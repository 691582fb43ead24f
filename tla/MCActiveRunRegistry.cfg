SPECIFICATION RegistrySpec
CONSTANTS
    RunId = {r1, r2}
    StepId = {s1, s2}
    Intents = {"Conversation", "ManualReflection"}
    Reasons = {"UserExit", "SessionShutdown"}
    NoRun = NoRun
    NoStep = NoStep
INVARIANT
    RegistryOK
PROPERTIES
    TerminateSticks
    ControlDeliveredOnce
