--------------------------- MODULE RunInputProofs ---------------------------
(***************************************************************************)
(* The way of the user's messages, for every set of messages, any number   *)
(* of disturbances and every modulus of the epoch counter.                 *)
(*                                                                         *)
(* Every queue is a place a message can be in, so the argument is a count: *)
(* Total(m) adds up how often m occurs in all of them, and each action     *)
(* moves occurrences from one queue to another.  The lemmas about          *)
(* Occurrences turn the sequence operators of the actions into sums.       *)
(***************************************************************************)
EXTENDS RunInput, FiniteSetTheorems, FunctionTheorems, SequenceTheorems, TLAPS

(* The occurrences of an event in a queue are finitely many. *)
LEMMA OccurrencesNat ==
  ASSUME NEW q \in Seq(Event), NEW e
  PROVE  /\ IsFiniteSet({i \in DOMAIN q : q[i] = e})
         /\ Occurrences(e, q) \in Nat
  <1>1. Len(q) \in Nat /\ DOMAIN q = 1 .. Len(q)
    BY LenProperties
  <1>2. IsFiniteSet(DOMAIN q)
    BY <1>1, FS_Interval
  <1>3. IsFiniteSet({i \in DOMAIN q : q[i] = e})
    BY <1>2, FS_Subset
  <1>4. QED BY <1>3, FS_CardinalityType DEF Occurrences

LEMMA OccurrencesEmpty == ASSUME NEW e PROVE Occurrences(e, <<>>) = 0
  <1>1. {i \in DOMAIN <<>> : <<>>[i] = e} = {}
    OBVIOUS
  <1>2. QED BY <1>1, FS_EmptySet DEF Occurrences

(* The occurrences of a concatenation are those of its parts. *)
LEMMA OccurrencesConcat ==
  ASSUME NEW q \in Seq(Event), NEW r \in Seq(Event), NEW e
  PROVE  Occurrences(e, q \o r) = Occurrences(e, q) + Occurrences(e, r)
  <1> DEFINE A == {i \in DOMAIN q : q[i] = e}
             B == {i \in DOMAIN r : r[i] = e}
             C == {i \in DOMAIN (q \o r) : (q \o r)[i] = e}
             D == {k \in C : k > Len(q)}
             f == [i \in B |-> Len(q) + i]
  <1>1. /\ Len(q) \in Nat /\ DOMAIN q = 1 .. Len(q)
        /\ Len(r) \in Nat /\ DOMAIN r = 1 .. Len(r)
    BY LenProperties
  <1>2. /\ q \o r \in Seq(Event) /\ Len(q \o r) = Len(q) + Len(r)
        /\ \A i \in 1 .. Len(q) + Len(r) :
              (q \o r)[i] = IF i <= Len(q) THEN q[i] ELSE r[i - Len(q)]
    BY ConcatProperties
  <1>3. DOMAIN (q \o r) = 1 .. Len(q) + Len(r)
    BY <1>2, LenProperties
  <1>4. IsFiniteSet(A) /\ IsFiniteSet(B)
    BY OccurrencesNat
  <1>5. \A i \in B : Len(q) + i \in D
    BY <1>1, <1>2, <1>3
  <1>6. \A k \in D : k - Len(q) \in B /\ Len(q) + (k - Len(q)) = k
    BY <1>1, <1>2, <1>3
  <1>7. \A i \in B : i \in Nat
    BY <1>1
  <1>8. f \in Bijection(B, D)
    <2> HIDE DEF B, D
    <2>1. f \in [B -> D]
      BY <1>5
    <2>2. \A i, j \in B : f[i] = f[j] => i = j
      BY <1>1, <1>7
    <2>3. \A k \in D : \E i \in B : f[i] = k
      BY <1>6
    <2> HIDE DEF f
    <2>4. QED BY <2>1, <2>2, <2>3, Fun_IsBij
  <1>9. IsFiniteSet(D) /\ Cardinality(D) = Cardinality(B)
    <2> HIDE DEF B, D, f
    <2>1. ExistsBijection(B, D)
      BY <1>8 DEF ExistsBijection
    <2>2. QED BY <1>4, <2>1, FS_Bijection
  <1>10. C = A \cup D
    BY <1>1, <1>2, <1>3
  <1>11. A \cap D = {}
    BY <1>1
  <1>12. Cardinality(C) = Cardinality(A) + Cardinality(D)
    <2> HIDE DEF A, C, D
    <2>1. Cardinality(A \cap D) = 0
      BY <1>11, FS_EmptySet
    <2>2. Cardinality(A) \in Nat /\ Cardinality(D) \in Nat
      BY <1>4, <1>9, FS_CardinalityType
    <2>3. Cardinality(A \cup D) = Cardinality(A) + Cardinality(D) - Cardinality(A \cap D)
      BY <1>4, <1>9, FS_Union
    <2>4. Cardinality(C) = Cardinality(A) + Cardinality(D) - 0
      BY <1>10, <2>1, <2>3
    <2>5. QED BY <2>2, <2>4
  <1>13. QED BY <1>9, <1>12 DEF Occurrences

LEMMA OccurrencesOne ==
  ASSUME NEW e, NEW x
  PROVE  Occurrences(e, <<x>>) = IF x = e THEN 1 ELSE 0
  <1>1. CASE x = e
    <2>1. {i \in DOMAIN <<x>> : <<x>>[i] = e} = {1}
      BY <1>1
    <2>2. QED BY <1>1, <2>1, FS_Singleton DEF Occurrences
  <1>2. CASE x # e
    <2>1. {i \in DOMAIN <<x>> : <<x>>[i] = e} = {}
      BY <1>2
    <2>2. QED BY <1>2, <2>1, FS_EmptySet DEF Occurrences
  <1>3. QED BY <1>1, <1>2

LEMMA OccurrencesAppend ==
  ASSUME NEW q \in Seq(Event), NEW x \in Event, NEW e
  PROVE  Occurrences(e, Append(q, x)) = Occurrences(e, q) + IF x = e THEN 1 ELSE 0
  <1>1. Append(q, x) = q \o <<x>>
    BY AppendIsConcat
  <1>2. <<x>> \in Seq(Event)
    OBVIOUS
  <1>3. Occurrences(e, q \o <<x>>) = Occurrences(e, q) + Occurrences(e, <<x>>)
    BY <1>2, OccurrencesConcat
  <1>4. QED BY <1>1, <1>3, OccurrencesOne

LEMMA OccurrencesHead ==
  ASSUME NEW q \in Seq(Event), q # <<>>, NEW e
  PROVE  /\ Head(q) \in Event /\ Tail(q) \in Seq(Event)
         /\ Occurrences(e, q) = Occurrences(e, Tail(q)) + IF Head(q) = e THEN 1 ELSE 0
  <1>1. Head(q) \in Event /\ Tail(q) \in Seq(Event)
    BY HeadTailProperties
  <1>2. q = <<Head(q)>> \o Tail(q)
    BY <1>1
  <1>3. <<Head(q)>> \in Seq(Event)
    BY <1>1
  <1>4. Occurrences(e, q) = Occurrences(e, <<Head(q)>>) + Occurrences(e, Tail(q))
    BY <1>1, <1>2, <1>3, OccurrencesConcat
  <1>5. Occurrences(e, Tail(q)) \in Nat
    BY <1>1, OccurrencesNat
  <1>6. QED BY <1>1, <1>4, <1>5, OccurrencesOne

(* An event occurs in a queue when it is one of its members. *)
LEMMA OccurrencesMember ==
  ASSUME NEW q \in Seq(Event), NEW e
  PROVE  e \in ToSet(q) <=> Occurrences(e, q) > 0
  <1>1. e \in ToSet(q) <=> {i \in DOMAIN q : q[i] = e} # {}
    BY DEF ToSet
  <1> DEFINE A == {i \in DOMAIN q : q[i] = e}
  <1>2. IsFiniteSet(A) /\ Cardinality(A) \in Nat /\ Occurrences(e, q) = Cardinality(A)
    BY OccurrencesNat DEF Occurrences
  <1> HIDE DEF A
  <1>3. Cardinality(A) = 0 <=> A = {}
    BY <1>2, FS_EmptySet
  <1>4. e \in ToSet(q) <=> A # {}
    BY <1>1 DEF A
  <1>5. QED BY <1>2, <1>3, <1>4

(* What is retained holds every event but commands as often as before. *)
LEMMA OccurrencesRetained ==
  ASSUME NEW q \in Seq(Event), NEW n \in 0 .. Len(q), NEW f \in [1 .. n -> DOMAIN q],
         Retains(f, q), NEW e, e # "command"
  PROVE  /\ [i \in 1 .. n |-> q[f[i]]] \in Seq(Event)
         /\ Occurrences(e, [i \in 1 .. n |-> q[f[i]]]) = Occurrences(e, q)
  <1> DEFINE r == [i \in 1 .. n |-> q[f[i]]]
             A == {k \in DOMAIN q : q[k] = e}
             B == {i \in DOMAIN r : r[i] = e}
             g == [i \in B |-> f[i]]
  <1>1. Len(q) \in Nat /\ DOMAIN q = 1 .. Len(q) /\ \A i \in DOMAIN q : q[i] \in Event
    BY LenProperties
  <1>2. n \in Nat
    BY <1>1
  <1>3. \A i \in 1 .. n : f[i] \in DOMAIN q /\ r[i] = q[f[i]] /\ r[i] \in Event
    BY <1>1
  <1>4. DOMAIN r = 1 .. n
    OBVIOUS
  <1>5. r \in Seq(Event)
    BY <1>2, <1>3
  <1>6. \A i \in B : i \in 1 .. n /\ f[i] \in A
    BY <1>3, <1>4
  <1>7. \A i, j \in B : f[i] = f[j] => i = j
    <2> SUFFICES ASSUME NEW i \in B, NEW j \in B, f[i] = f[j], i # j PROVE FALSE
      OBVIOUS
    <2>1. i \in 1 .. n /\ j \in 1 .. n
      BY <1>6
    <2>2. i < j \/ j < i
      BY <1>2, <2>1
    <2>3. f[i] \in Nat
      BY <1>1, <2>1
    <2>4. DOMAIN f = 1 .. n
      OBVIOUS
    <2>5. f[i] < f[j] \/ f[j] < f[i]
      BY <2>1, <2>2, <2>4 DEF Retains
    <2>6. QED BY <2>3, <2>5
  <1>8. \A k \in A : \E i \in B : f[i] = k
    <2> SUFFICES ASSUME NEW k \in A PROVE \E i \in B : f[i] = k
      OBVIOUS
    <2>1. DOMAIN f = 1 .. n
      OBVIOUS
    <2>2. PICK i \in 1 .. n : f[i] = k
      BY <2>1 DEF Retains
    <2>3. i \in B
      BY <1>3, <1>4, <2>2
    <2>4. QED BY <2>2, <2>3
  <1>9. IsFiniteSet(A) /\ IsFiniteSet(B)
    BY <1>5, OccurrencesNat
  <1>10. ExistsBijection(B, A)
    <2> HIDE DEF A, B
    <2>1. g \in [B -> A]
      BY <1>6
    <2>2. \A i, j \in B : g[i] = g[j] => i = j
      BY <1>7
    <2>3. \A k \in A : \E i \in B : g[i] = k
      BY <1>8
    <2> HIDE DEF g
    <2>4. g \in Bijection(B, A)
      BY <2>1, <2>2, <2>3, Fun_IsBij
    <2>5. QED BY <2>4 DEF ExistsBijection
  <1>11. Cardinality(A) = Cardinality(B)
    <2> HIDE DEF A, B
    <2>1. QED BY <1>9, <1>10, FS_Bijection
  <1>12. QED BY <1>5, <1>11 DEF Occurrences
-----------------------------------------------------------------------------
(* The inductive invariant. *)
Phases == {"idle", "loop", "step", "awaiting", "collect", "query", "parked", "decided",
           "ended", "shutdown"}
Modes == {"drain", "await", "park", "response"}

QueuesTyped ==
    /\ source \in Seq(Event)
    /\ deferred \in Seq(Event)
    /\ inflight \in Seq(Event)
    /\ pendingInput \in Seq(Event)
    /\ buffer \in Seq(Message)
    /\ outcome.batch \in Seq(Message)
    /\ consumed \in Seq(Message)

HistoryTyped ==
    /\ sent \in Seq(Message)
    /\ withdrawn \subseteq Message
    /\ discarded \subseteq Message
    /\ disturbances \in Seq(Controls)
    /\ Len(disturbances) <= MaxDisturbances

StateTyped ==
    /\ closed \in BOOLEAN
    /\ sealed \in BOOLEAN
    /\ single \in BOOLEAN
    /\ bufferEpoch \in 0 .. (EpochModulus - 1)
    /\ runEpoch \in 0 .. (EpochModulus - 1)
    /\ continuation \subseteq Continuations
    /\ phase \in Phases
    /\ mode \in Modes

(* A queue that a step leaves behind is empty: only a drain that collects  *)
(* holds events, only a decision that is pending holds a batch.            *)
Places ==
    /\ phase \notin {"collect", "query"} => inflight = <<>>
    /\ mode = "park" => inflight = <<>>
    /\ phase # "decided" => outcome.batch = <<>>
    /\ phase \in {"idle", "shutdown"} => buffer = <<>>
    /\ outcome.kind \notin {"Ready", "InternalContinuation"} => outcome.batch = <<>>

(* A buffer is sealed by the decision that ends the run, and the run       *)
(* advances its epoch when it handles the decision of a drain.             *)
Running == {"loop", "step", "awaiting", "collect", "query", "parked"}
Epochs ==
    /\ outcome.kind # "EpochMismatch"
    /\ sealed => buffer = <<>>
    /\ phase \in Running => ~sealed /\ runEpoch = bufferEpoch
    /\ phase = "decided" /\ outcome.kind \in {"Ready", "InternalContinuation"}
          => ~sealed /\ bufferEpoch = NextDrainEpoch(runEpoch)

(* How often an event is in the queues. *)
Total(e) ==
    Occurrences(e, consumed) + Occurrences(e, outcome.batch) + Occurrences(e, buffer)
    + Occurrences(e, deferred) + Occurrences(e, inflight) + Occurrences(e, source)
    + Occurrences(e, pendingInput)

(* A message is in at most one queue, and in none before it is sent or     *)
(* after it is withdrawn or dropped.                                       *)
Counted ==
    \A m \in Message :
        /\ Total(m) <= 1
        /\ m \in Gone => Total(m) = 0
        /\ m \notin ToSet(sent) => Total(m) = 0 /\ m \notin Gone

(* As long as there was no query, nothing is lost. *)
Complete ==
    "query" \notin ToSet(disturbances) =>
        /\ Total("query") = 0 /\ phase # "query"
        /\ \A m \in ToSet(sent) : m \in Gone \/ Total(m) = 1

InputInv ==
    /\ QueuesTyped /\ HistoryTyped /\ StateTyped
    /\ Places /\ Epochs
    /\ Counted /\ Complete
-----------------------------------------------------------------------------
(* What moves between queues. *)
LEMMA MessagesAreEvents ==
  /\ Message \subseteq Event /\ Seq(Message) \subseteq Seq(Event)
  /\ "query" \in Event /\ "command" \in Event /\ "withdraw" \in Event
  /\ "query" \notin Message /\ "command" \notin Message /\ "withdraw" \notin Message
  <1>1. Message \subseteq Event
    BY DEF Event
  <1>2. Seq(Message) \subseteq Seq(Event)
    BY <1>1
  <1>3. QED BY <1>1, <1>2, InputAssumption DEF Event

LEMMA CountsNat ==
  ASSUME QueuesTyped, NEW e
  PROVE  /\ Occurrences(e, consumed) \in Nat
         /\ Occurrences(e, outcome.batch) \in Nat
         /\ Occurrences(e, buffer) \in Nat
         /\ Occurrences(e, deferred) \in Nat
         /\ Occurrences(e, inflight) \in Nat
         /\ Occurrences(e, source) \in Nat
         /\ Occurrences(e, pendingInput) \in Nat
         /\ Total(e) \in Nat
  <1>1. /\ consumed \in Seq(Event) /\ outcome.batch \in Seq(Event)
        /\ buffer \in Seq(Event)
    BY MessagesAreEvents DEF QueuesTyped
  <1>2. /\ Occurrences(e, consumed) \in Nat
        /\ Occurrences(e, outcome.batch) \in Nat
        /\ Occurrences(e, buffer) \in Nat
    BY <1>1, OccurrencesNat
  <1>3. /\ Occurrences(e, deferred) \in Nat
        /\ Occurrences(e, inflight) \in Nat
        /\ Occurrences(e, source) \in Nat
        /\ Occurrences(e, pendingInput) \in Nat
    BY OccurrencesNat DEF QueuesTyped
  <1>4. QED BY <1>2, <1>3 DEF Total

(* A step that only moves messages keeps the books. *)
LEMMA MoveKeeps ==
  ASSUME Counted, Complete, QueuesTyped, QueuesTyped', HistoryTyped,
         \A m \in Message : Total(m)' = Total(m),
         "query" \notin ToSet(disturbances)' =>
            /\ "query" \notin ToSet(disturbances)
            /\ Total("query")' <= Total("query"),
         phase' = "query" =>
            phase = "query" \/ Total("query") > 0 \/ "query" \in ToSet(disturbances)',
         sent' = sent, withdrawn' = withdrawn, discarded' = discarded
  PROVE  Counted' /\ Complete'
  <1>g. Gone' = Gone
    BY DEF Gone
  <1>1. Counted'
    <2>1. ToSet(sent)' = ToSet(sent)
      BY DEF ToSet
    <2>2. QED BY <1>g, <2>1 DEF Counted
  <1>2. Complete'
    <2> SUFFICES ASSUME "query" \notin ToSet(disturbances)'
                 PROVE  /\ Total("query")' = 0
                        /\ phase' # "query"
                        /\ \A m \in ToSet(sent) : m \in Gone \/ Total(m)' = 1
      BY <1>g DEF Complete
    <2>1. /\ Total("query") = 0 /\ phase # "query"
          /\ \A m \in ToSet(sent) : m \in Gone \/ Total(m) = 1
      BY DEF Complete
    <2>2. Total("query")' \in Nat
      <3>1. /\ consumed' \in Seq(Event) /\ (outcome.batch)' \in Seq(Event)
            /\ buffer' \in Seq(Event)
        BY MessagesAreEvents DEF QueuesTyped
      <3>2. /\ Occurrences("query", consumed') \in Nat
            /\ Occurrences("query", (outcome.batch)') \in Nat
            /\ Occurrences("query", buffer') \in Nat
        BY <3>1, OccurrencesNat
      <3>3. /\ Occurrences("query", deferred') \in Nat
            /\ Occurrences("query", inflight') \in Nat
            /\ Occurrences("query", source') \in Nat
            /\ Occurrences("query", pendingInput') \in Nat
        BY OccurrencesNat DEF QueuesTyped
      <3>4. QED BY <3>2, <3>3 DEF Total
    <2>3. Total("query")' = 0
      BY <2>1, <2>2
    <2>4. \A m \in ToSet(sent) : m \in Gone \/ Total(m)' = 1
      <3>1. ASSUME NEW m \in ToSet(sent), m \notin Gone PROVE Total(m)' = 1
        <4>1. m \in Message
          BY <3>1 DEF HistoryTyped, ToSet
        <4>2. QED BY <2>1, <3>1, <4>1
      <3>2. QED BY <3>1
    <2>5. phase' # "query"
      BY <2>1
    <2>6. QED BY <2>3, <2>4, <2>5
  <1>3. QED BY <1>1, <1>2

(* A step that drops messages may do so once there was a query. *)
LEMMA LossKeeps ==
  ASSUME Counted, QueuesTyped, QueuesTyped',
         \A m \in Message : Total(m)' \in Nat /\ Total(m)' <= Total(m),
         "query" \in ToSet(disturbances)',
         sent' = sent, withdrawn' = withdrawn, discarded' = discarded
  PROVE  Counted' /\ Complete'
  <1>1. ToSet(sent)' = ToSet(sent) /\ Gone' = Gone
    BY DEF ToSet, Gone
  <1>2. \A m \in Message : Total(m) \in Nat
    BY CountsNat
  <1>3. Counted'
    <2> SUFFICES ASSUME NEW m \in Message
                 PROVE  /\ Total(m)' <= 1
                        /\ m \in Gone => Total(m)' = 0
                        /\ m \notin ToSet(sent) => Total(m)' = 0 /\ m \notin Gone
      BY <1>1 DEF Counted
    <2>1. /\ Total(m) <= 1
          /\ m \in Gone => Total(m) = 0
          /\ m \notin ToSet(sent) => Total(m) = 0 /\ m \notin Gone
      BY DEF Counted
    <2>2. Total(m) \in Nat /\ Total(m)' \in Nat /\ Total(m)' <= Total(m)
      BY <1>2
    <2> HIDE DEF Total
    <2>3. QED BY <2>1, <2>2
  <1>4. QED BY <1>3 DEF Complete

(* The first event of the mailbox leaves the deferred ones, or the source. *)
DeferredRest(d) == IF d = <<>> THEN d ELSE Tail(d)
SourceRest(d, s) == IF d = <<>> THEN Tail(s) ELSE s

LEMMA MailboxLosesHead ==
  ASSUME NEW d \in Seq(Event), NEW s \in Seq(Event), d \o s # <<>>
  PROVE  /\ Head(d \o s) \in Event
         /\ DeferredRest(d) \in Seq(Event) /\ SourceRest(d, s) \in Seq(Event)
         /\ \A e : /\ Occurrences(e, DeferredRest(d)) \in Nat
                   /\ Occurrences(e, SourceRest(d, s)) \in Nat
                   /\ Occurrences(e, d) \in Nat /\ Occurrences(e, s) \in Nat
                   /\ Occurrences(e, d) + Occurrences(e, s)
                       = Occurrences(e, DeferredRest(d)) + Occurrences(e, SourceRest(d, s))
                           + IF Head(d \o s) = e THEN 1 ELSE 0
  <1> DEFINE d1 == DeferredRest(d)
             s1 == SourceRest(d, s)
  <1>1. CASE d = <<>>
    <2>1. d \o s = s /\ s # <<>> /\ d1 = d /\ s1 = Tail(s)
      BY <1>1 DEF DeferredRest, SourceRest
    <2> HIDE DEF d1, s1
    <2>2. Head(s) \in Event /\ s1 \in Seq(Event)
      BY <2>1, HeadTailProperties
    <2>3. ASSUME NEW e
          PROVE  Occurrences(e, s) = Occurrences(e, s1) + IF Head(s) = e THEN 1 ELSE 0
      BY <2>1, OccurrencesHead
    <2>4. ASSUME NEW e
          PROVE  /\ Occurrences(e, d1) \in Nat /\ Occurrences(e, s1) \in Nat
                 /\ Occurrences(e, d) \in Nat /\ Occurrences(e, s) \in Nat
      BY <2>1, <2>2, OccurrencesNat
    <2>5. QED BY <2>1, <2>2, <2>3, <2>4 DEF d1, s1
  <1>2. CASE d # <<>>
    <2>1. Head(d \o s) = Head(d) /\ d1 = Tail(d) /\ s1 = s
      BY <1>2 DEF DeferredRest, SourceRest
    <2> HIDE DEF d1, s1
    <2>2. Head(d) \in Event /\ d1 \in Seq(Event)
      BY <1>2, <2>1, HeadTailProperties
    <2>3. ASSUME NEW e
          PROVE  Occurrences(e, d) = Occurrences(e, d1) + IF Head(d) = e THEN 1 ELSE 0
      BY <1>2, <2>1, OccurrencesHead
    <2>4. ASSUME NEW e
          PROVE  /\ Occurrences(e, d1) \in Nat /\ Occurrences(e, s1) \in Nat
                 /\ Occurrences(e, d) \in Nat /\ Occurrences(e, s) \in Nat
      BY <2>1, <2>2, OccurrencesNat
    <2>5. QED BY <2>1, <2>2, <2>3, <2>4 DEF d1, s1
  <1>3. QED BY <1>1, <1>2

LEMMA MailboxTaken ==
  ASSUME QueuesTyped, MailboxHasNext, TakeMailboxHead
  PROVE  /\ MailboxHead \in Event /\ deferred' \in Seq(Event) /\ source' \in Seq(Event)
         /\ \A e : /\ Occurrences(e, deferred') \in Nat /\ Occurrences(e, source') \in Nat
                   /\ Occurrences(e, deferred) \in Nat /\ Occurrences(e, source) \in Nat
                   /\ Occurrences(e, deferred) + Occurrences(e, source)
                       = Occurrences(e, deferred') + Occurrences(e, source')
                           + IF MailboxHead = e THEN 1 ELSE 0
  <1>1. deferred' = DeferredRest(deferred) /\ source' = SourceRest(deferred, source)
    BY DEF TakeMailboxHead, DeferredRest, SourceRest
  <1>2. deferred \in Seq(Event) /\ source \in Seq(Event) /\ deferred \o source # <<>>
    BY DEF QueuesTyped, MailboxHasNext
  <1>3. /\ MailboxHead \in Event
        /\ DeferredRest(deferred) \in Seq(Event) /\ SourceRest(deferred, source) \in Seq(Event)
    BY <1>2, MailboxLosesHead DEF MailboxHead
  <1>4. ASSUME NEW e
        PROVE  /\ Occurrences(e, DeferredRest(deferred)) \in Nat
               /\ Occurrences(e, SourceRest(deferred, source)) \in Nat
               /\ Occurrences(e, deferred) \in Nat /\ Occurrences(e, source) \in Nat
               /\ Occurrences(e, deferred) + Occurrences(e, source)
                   = Occurrences(e, DeferredRest(deferred))
                       + Occurrences(e, SourceRest(deferred, source))
                       + IF MailboxHead = e THEN 1 ELSE 0
    BY <1>2, MailboxLosesHead DEF MailboxHead
  <1>5. QED BY <1>1, <1>3, <1>4

(* Handling an event that is no query: e was taken from the queues, which  *)
(* leaves rest of the deferred ones.                                       *)
LEMMA HandleKeeps ==
  ASSUME QueuesTyped, HistoryTyped, Counted, Complete, ~sealed,
         NEW e, e \in Event, NEW busy, busy \in BOOLEAN, NEW rest, rest \in Seq(Event),
         HandleEvent(e, busy, rest),
         inflight' \in Seq(Event), source' \in Seq(Event),
         \A x : Occurrences(x, deferred) + Occurrences(x, inflight)
                    + Occurrences(x, source)
                  = Occurrences(x, rest) + Occurrences(x, inflight')
                      + Occurrences(x, source') + IF e = x THEN 1 ELSE 0,
         UNCHANGED <<consumed, outcome, sent, disturbances, phase>>
  PROVE  /\ QueuesTyped' /\ withdrawn' \subseteq Message /\ discarded' \subseteq Message
         /\ Counted' /\ Complete'
  <1> USE MessagesAreEvents
  <1>0. buffer \in Seq(Event) /\ pendingInput \in Seq(Event)
    BY DEF QueuesTyped
  <1>n. \A x : /\ Occurrences(x, rest) \in Nat /\ Occurrences(x, inflight') \in Nat
               /\ Occurrences(x, source') \in Nat
    BY OccurrencesNat
  <1>c. \A x : /\ Occurrences(x, consumed) \in Nat
               /\ Occurrences(x, outcome.batch) \in Nat
               /\ Occurrences(x, buffer) \in Nat
               /\ Occurrences(x, deferred) \in Nat
               /\ Occurrences(x, inflight) \in Nat
               /\ Occurrences(x, source) \in Nat
               /\ Occurrences(x, pendingInput) \in Nat
               /\ Total(x) \in Nat
    BY CountsNat
  <1>1. CASE /\ e \in Message
             /\ AdmitUserMessage(e, rest)
             /\ UNCHANGED <<pendingInput, withdrawn, discarded>>
    <2>1. buffer' = Append(buffer, e) /\ deferred' = rest /\ pendingInput' = pendingInput
      BY <1>1 DEF AdmitUserMessage
    <2>2. QueuesTyped'
      BY <1>1, <2>1 DEF QueuesTyped
    <2>3. ASSUME NEW x PROVE Total(x)' = Total(x)
      <3>1. Occurrences(x, buffer') = Occurrences(x, buffer) + IF e = x THEN 1 ELSE 0
        BY <1>0, <2>1, OccurrencesAppend
      <3>2. /\ Occurrences(x, deferred') = Occurrences(x, rest)
            /\ Occurrences(x, pendingInput') = Occurrences(x, pendingInput)
            /\ Occurrences(x, consumed') = Occurrences(x, consumed)
            /\ Occurrences(x, (outcome.batch)') = Occurrences(x, outcome.batch)
        BY <2>1
      <3>3. Occurrences(x, deferred) + Occurrences(x, inflight) + Occurrences(x, source)
               = Occurrences(x, rest) + Occurrences(x, inflight')
                   + Occurrences(x, source') + IF e = x THEN 1 ELSE 0
        OBVIOUS
      <3>4. /\ Occurrences(x, rest) \in Nat /\ Occurrences(x, inflight') \in Nat
            /\ Occurrences(x, source') \in Nat
        BY <1>n
      <3>5. /\ Occurrences(x, consumed) \in Nat /\ Occurrences(x, outcome.batch) \in Nat
            /\ Occurrences(x, buffer) \in Nat /\ Occurrences(x, deferred) \in Nat
            /\ Occurrences(x, inflight) \in Nat /\ Occurrences(x, source) \in Nat
            /\ Occurrences(x, pendingInput) \in Nat
        BY <1>c
      <3>6. (IF e = x THEN 1 ELSE 0) \in Nat
        OBVIOUS
      <3>7. QED BY ONLY <3>1, <3>2, <3>3, <3>4, <3>5, <3>6 DEF Total
    <2>4. Total("query")' <= Total("query")
      BY <1>c, <2>3
    <2>5. Counted' /\ Complete'
      BY <1>1, <2>2, <2>3, <2>4, MoveKeeps
    <2>6. QED BY <1>1, <2>2, <2>5 DEF HistoryTyped
  <1>2. CASE /\ e = "command" \/ e \in Skills
             /\ pendingInput' = Append(pendingInput, e)
             /\ deferred' = rest
             /\ UNCHANGED <<buffer, withdrawn, discarded>>
    <2>2. QueuesTyped'
      BY <1>2 DEF QueuesTyped
    <2>3. ASSUME NEW x PROVE Total(x)' = Total(x)
      <3>1. Occurrences(x, pendingInput')
               = Occurrences(x, pendingInput) + IF e = x THEN 1 ELSE 0
        BY <1>0, <1>2, OccurrencesAppend
      <3>2. /\ Occurrences(x, deferred') = Occurrences(x, rest)
            /\ Occurrences(x, buffer') = Occurrences(x, buffer)
            /\ Occurrences(x, consumed') = Occurrences(x, consumed)
            /\ Occurrences(x, (outcome.batch)') = Occurrences(x, outcome.batch)
        BY <1>2
      <3>3. Occurrences(x, deferred) + Occurrences(x, inflight) + Occurrences(x, source)
               = Occurrences(x, rest) + Occurrences(x, inflight')
                   + Occurrences(x, source') + IF e = x THEN 1 ELSE 0
        OBVIOUS
      <3>4. /\ Occurrences(x, rest) \in Nat /\ Occurrences(x, inflight') \in Nat
            /\ Occurrences(x, source') \in Nat
        BY <1>n
      <3>5. /\ Occurrences(x, consumed) \in Nat /\ Occurrences(x, outcome.batch) \in Nat
            /\ Occurrences(x, buffer) \in Nat /\ Occurrences(x, deferred) \in Nat
            /\ Occurrences(x, inflight) \in Nat /\ Occurrences(x, source) \in Nat
            /\ Occurrences(x, pendingInput) \in Nat
        BY <1>c
      <3>6. (IF e = x THEN 1 ELSE 0) \in Nat
        OBVIOUS
      <3>7. QED BY ONLY <3>1, <3>2, <3>3, <3>4, <3>5, <3>6 DEF Total
    <2>4. Total("query")' <= Total("query")
      BY <1>c, <2>3
    <2>5. Counted' /\ Complete'
      BY <1>2, <2>2, <2>3, <2>4, MoveKeeps
    <2>6. QED BY <1>2, <2>2, <2>5 DEF HistoryTyped
  <1>3. CASE e = "withdraw" /\ WithdrawAll /\ deferred' = rest
    <2>1. /\ buffer' = <<>> /\ pendingInput' = <<>>
          /\ withdrawn' = withdrawn \cup ToSet(buffer)
          /\ discarded' = discarded \cup (ToSet(pendingInput) \cap Message)
      BY <1>3 DEF WithdrawAll
    <2>2. QueuesTyped'
      BY <1>3, <2>1 DEF QueuesTyped
    <2>g. Gone' = Gone \cup ToSet(buffer) \cup (ToSet(pendingInput) \cap Message)
      BY <2>1 DEF Gone
    <2>3. withdrawn' \subseteq Message /\ discarded' \subseteq Message
      <3>1. ToSet(buffer) \subseteq Message
        BY DEF QueuesTyped, ToSet
      <3>2. QED BY <2>1, <3>1 DEF HistoryTyped
    <2>4. ASSUME NEW x, x # "withdraw"
          PROVE  /\ Total(x)' \in Nat
                 /\ Total(x) = Total(x)' + Occurrences(x, buffer)
                                  + Occurrences(x, pendingInput)
      <3>1. Occurrences(x, pendingInput') = 0 /\ Occurrences(x, buffer') = 0
        BY <2>1, OccurrencesEmpty
      <3>2. /\ Occurrences(x, deferred') = Occurrences(x, rest)
            /\ Occurrences(x, consumed') = Occurrences(x, consumed)
            /\ Occurrences(x, (outcome.batch)') = Occurrences(x, outcome.batch)
        BY <1>3
      <3>3. Occurrences(x, deferred) + Occurrences(x, inflight) + Occurrences(x, source)
               = Occurrences(x, rest) + Occurrences(x, inflight') + Occurrences(x, source')
        BY <1>3, <1>n, <2>4
      <3>4. /\ Occurrences(x, rest) \in Nat /\ Occurrences(x, inflight') \in Nat
            /\ Occurrences(x, source') \in Nat
        BY <1>n
      <3>5. /\ Occurrences(x, consumed) \in Nat /\ Occurrences(x, outcome.batch) \in Nat
            /\ Occurrences(x, buffer) \in Nat /\ Occurrences(x, deferred) \in Nat
            /\ Occurrences(x, inflight) \in Nat /\ Occurrences(x, source) \in Nat
            /\ Occurrences(x, pendingInput) \in Nat
        BY <1>c
      <3>6. QED BY ONLY <3>1, <3>2, <3>3, <3>4, <3>5 DEF Total
    <2>5. ASSUME NEW m \in Message
          PROVE  /\ Total(m)' \in Nat
                 /\ m \in Gone' <=> m \in Gone \/ Total(m)' < Total(m)
      <3>1. m \in ToSet(buffer) <=> Occurrences(m, buffer) > 0
        BY <1>0, OccurrencesMember
      <3>2. m \in ToSet(pendingInput) <=> Occurrences(m, pendingInput) > 0
        BY <1>0, OccurrencesMember
      <3>3. /\ Total(m)' \in Nat
            /\ Total(m) = Total(m)' + Occurrences(m, buffer)
                                  + Occurrences(m, pendingInput)
        BY <2>4
      <3>4. m \in ToSet(buffer) \/ m \in ToSet(pendingInput) <=> Total(m)' < Total(m)
        BY <1>c, <3>1, <3>2, <3>3
      <3>5. QED BY <2>g, <3>3, <3>4
    <2>6. \A m \in Message : Total(m)' <= Total(m)
      BY <1>c, <2>4
    <2>7. ToSet(sent)' = ToSet(sent) /\ ToSet(disturbances)' = ToSet(disturbances)
      BY DEF ToSet
    <2>8. Counted'
      <3> SUFFICES ASSUME NEW m \in Message
                   PROVE  /\ Total(m)' <= 1
                          /\ m \in Gone' => Total(m)' = 0
                          /\ m \notin ToSet(sent) => Total(m)' = 0 /\ m \notin Gone'
        BY <2>7 DEF Counted
      <3>1. /\ Total(m) <= 1
            /\ m \in Gone => Total(m) = 0
            /\ m \notin ToSet(sent) => Total(m) = 0 /\ m \notin Gone
        BY DEF Counted
      <3>2. Total(m) \in Nat /\ Total(m)' \in Nat /\ Total(m)' <= Total(m)
        BY <1>c, <2>5, <2>6
      <3>3. QED BY <2>5, <3>1, <3>2
    <2>9. Complete'
      <3> SUFFICES ASSUME "query" \notin ToSet(disturbances)
                   PROVE  /\ Total("query")' = 0 /\ phase' # "query"
                          /\ \A m \in ToSet(sent) : m \in Gone' \/ Total(m)' = 1
        BY <2>7 DEF Complete
      <3>1. /\ Total("query") = 0 /\ phase # "query"
            /\ \A m \in ToSet(sent) : m \in Gone \/ Total(m) = 1
        BY DEF Complete
      <3>2. Total("query")' = 0
        BY <1>c, <2>4, <3>1
      <3>3. ASSUME NEW m \in ToSet(sent), m \notin Gone' PROVE Total(m)' = 1
        <4>1. m \in Message
          BY <3>3 DEF HistoryTyped, ToSet
        <4>2. m \notin Gone /\ ~(Total(m)' < Total(m)) /\ Total(m)' \in Nat
          BY <2>5, <3>3, <4>1
        <4>3. Total(m)' <= Total(m) /\ Total(m) = 1
          BY <2>6, <3>1, <3>3, <4>1, <4>2
        <4>4. QED BY <4>2, <4>3
      <3>4. QED BY <3>1, <3>2, <3>3
    <2>10. QED BY <2>2, <2>3, <2>8, <2>9
  <1>4. QED BY <1>1, <1>2, <1>3, InputAssumption DEF HandleEvent
-----------------------------------------------------------------------------
(* The steps. *)
LEMMA EpochRange ==
  /\ 0 \in 0 .. (EpochModulus - 1)
  /\ \A n \in 0 .. (EpochModulus - 1) : NextDrainEpoch(n) \in 0 .. (EpochModulus - 1)
  <1>1. EpochModulus \in Nat /\ EpochModulus > 0
    BY InputAssumption
  <1>2. QED BY <1>1 DEF NextDrainEpoch

LEMMA InitHolds == InputInit => InputInv
  <1> SUFFICES ASSUME InputInit PROVE InputInv
    OBVIOUS
  <1> USE DEF InputInit
  <1>1. QueuesTyped
    BY DEF QueuesTyped, NoOutcome
  <1>2. HistoryTyped
    BY InputAssumption DEF HistoryTyped
  <1>3. StateTyped
    BY EpochRange DEF StateTyped, Phases, Modes, Continuations
  <1>4. Places
    BY DEF Places, NoOutcome
  <1>5. Epochs
    BY DEF Epochs, NoOutcome, Running
  <1>6. \A e : Total(e) = 0
    <2> TAKE e
    <2>1. Occurrences(e, <<>>) = 0
      BY OccurrencesEmpty
    <2>2. outcome.batch = <<>>
      BY DEF NoOutcome
    <2>3. QED BY <2>1, <2>2 DEF Total
  <1>7. ToSet(sent) = {}
    BY DEF ToSet
  <1>8. Counted
    BY <1>6 DEF Counted, Gone
  <1>9. Complete
    BY <1>6, <1>7 DEF Complete
  <1>10. QED BY <1>1, <1>2, <1>3, <1>4, <1>5, <1>8, <1>9 DEF InputInv

(* A step that leaves the queues and the histories alone. *)
LEMMA QuietKeeps ==
  ASSUME InputInv,
         UNCHANGED <<source, deferred, pendingInput, buffer, inflight, historyVars>>,
         (outcome.batch)' = outcome.batch,
         phase' = "query" => phase = "query"
  PROVE  QueuesTyped' /\ HistoryTyped' /\ Counted' /\ Complete'
  <1>1. QueuesTyped' /\ HistoryTyped'
    BY DEF InputInv, QueuesTyped, HistoryTyped, historyVars
  <1>2. ASSUME NEW x PROVE Total(x)' = Total(x)
    <2>1. /\ Occurrences(x, consumed') = Occurrences(x, consumed)
          /\ Occurrences(x, (outcome.batch)') = Occurrences(x, outcome.batch)
          /\ Occurrences(x, buffer') = Occurrences(x, buffer)
          /\ Occurrences(x, deferred') = Occurrences(x, deferred)
          /\ Occurrences(x, inflight') = Occurrences(x, inflight)
          /\ Occurrences(x, source') = Occurrences(x, source)
          /\ Occurrences(x, pendingInput') = Occurrences(x, pendingInput)
      BY DEF historyVars
    <2>2. QED BY ONLY <2>1 DEF Total
  <1>3. Total("query") \in Nat
    BY CountsNat DEF InputInv
  <1>4. ToSet(disturbances)' = ToSet(disturbances)
    BY DEF ToSet, historyVars
  <1>5. Total("query")' <= Total("query")
    BY <1>2, <1>3
  <1>6. sent' = sent /\ withdrawn' = withdrawn /\ discarded' = discarded
    BY DEF historyVars
  <1>7. Counted' /\ Complete'
    BY <1>1, <1>2, <1>4, <1>5, <1>6, MoveKeeps DEF InputInv
  <1>8. QED BY <1>1, <1>7

LEMMA CloseChannelKeeps == InputInv /\ CloseChannel => InputInv'
  <1> SUFFICES ASSUME InputInv, CloseChannel PROVE InputInv'
    OBVIOUS
  <1> USE DEF CloseChannel
  <1>1. UNCHANGED <<source, deferred, pendingInput, buffer, inflight, historyVars>>
    BY DEF bufferVars
  <1>2. QueuesTyped' /\ HistoryTyped' /\ Counted' /\ Complete'
    BY <1>1, QuietKeeps
  <1>3. StateTyped'
    BY DEF InputInv, StateTyped, bufferVars
  <1>4. Places'
    BY DEF InputInv, Places, bufferVars
  <1>5. Epochs'
    BY DEF InputInv, Epochs, bufferVars
  <1>6. QED BY <1>2, <1>3, <1>4, <1>5 DEF InputInv

LEMMA WakeupRunKeeps == InputInv /\ IdleStartsWakeupRun => InputInv'
  <1> SUFFICES ASSUME InputInv, IdleStartsWakeupRun PROVE InputInv'
    OBVIOUS
  <1> USE DEF IdleStartsWakeupRun, FreshRun
  <1>1. UNCHANGED <<source, deferred, pendingInput, buffer, inflight, historyVars>>
    BY DEF InputInv, Places
  <1>2. QueuesTyped' /\ HistoryTyped' /\ Counted' /\ Complete'
    BY <1>1, QuietKeeps
  <1>3. StateTyped'
    BY EpochRange DEF InputInv, StateTyped, Phases, Continuations
  <1>4. Places'
    BY DEF InputInv, Places
  <1>5. Epochs'
    BY DEF InputInv, Epochs, Running
  <1>6. QED BY <1>2, <1>3, <1>4, <1>5 DEF InputInv

LEMMA ShutsDownKeeps == InputInv /\ IdleShutsDown => InputInv'
  <1> SUFFICES ASSUME InputInv, IdleShutsDown PROVE InputInv'
    OBVIOUS
  <1> USE DEF IdleShutsDown
  <1>1. UNCHANGED <<source, deferred, pendingInput, buffer, inflight, historyVars>>
    BY DEF bufferVars, mailboxVars
  <1>2. QueuesTyped' /\ HistoryTyped' /\ Counted' /\ Complete'
    BY <1>1, QuietKeeps
  <1>3. StateTyped'
    BY DEF InputInv, StateTyped, Phases, bufferVars, mailboxVars
  <1>4. Places'
    BY DEF InputInv, Places, bufferVars
  <1>5. Epochs'
    BY DEF InputInv, Epochs, Running, bufferVars
  <1>6. QED BY <1>2, <1>3, <1>4, <1>5 DEF InputInv

LEMMA FinishQueryKeeps == InputInv /\ FinishQuery => InputInv'
  <1> SUFFICES ASSUME InputInv, FinishQuery PROVE InputInv'
    OBVIOUS
  <1> USE DEF FinishQuery
  <1>1. UNCHANGED <<source, deferred, pendingInput, buffer, inflight, historyVars>>
    BY DEF bufferVars, mailboxVars
  <1>2. QueuesTyped' /\ HistoryTyped' /\ Counted' /\ Complete'
    BY <1>1, QuietKeeps
  <1>3. StateTyped'
    BY DEF InputInv, StateTyped, Phases, bufferVars, mailboxVars
  <1>4. Places'
    BY DEF InputInv, Places, bufferVars
  <1>5. Epochs'
    BY DEF InputInv, Epochs, Running, bufferVars
  <1>6. QED BY <1>2, <1>3, <1>4, <1>5 DEF InputInv

LEMMA ResponseCollectedKeeps == InputInv /\ ResponseCollected => InputInv'
  <1> SUFFICES ASSUME InputInv, ResponseCollected PROVE InputInv'
    OBVIOUS
  <1> USE DEF ResponseCollected, Collected
  <1>1. UNCHANGED <<source, deferred, pendingInput, buffer, inflight, historyVars>>
    BY DEF bufferVars, mailboxVars
  <1>2. QueuesTyped' /\ HistoryTyped' /\ Counted' /\ Complete'
    BY <1>1, QuietKeeps
  <1>3. StateTyped'
    BY DEF InputInv, StateTyped, Phases, bufferVars, mailboxVars
  <1>4. Places'
    BY DEF InputInv, Places, bufferVars
  <1>5. Epochs'
    BY DEF InputInv, Epochs, Running, bufferVars
  <1>6. QED BY <1>2, <1>3, <1>4, <1>5 DEF InputInv

LEMMA StepEndsKeeps == InputInv /\ StepEnds => InputInv'
  <1> SUFFICES ASSUME InputInv, StepEnds PROVE InputInv'
    OBVIOUS
  <1> USE DEF StepEnds
  <1>1. UNCHANGED <<source, deferred, pendingInput, buffer, inflight, historyVars>>
    BY DEF bufferVars, mailboxVars
  <1>2. QueuesTyped' /\ HistoryTyped' /\ Counted' /\ Complete'
    BY <1>1, QuietKeeps
  <1>3. continuation' \subseteq Continuations
    BY DEF InputInv, StateTyped, Continuations
  <1>4. StateTyped'
    BY <1>3 DEF InputInv, StateTyped, Phases, bufferVars, mailboxVars
  <1>5. Places'
    BY DEF InputInv, Places, bufferVars
  <1>6. Epochs'
    BY DEF InputInv, Epochs, Running, bufferVars
  <1>7. QED BY <1>2, <1>4, <1>5, <1>6 DEF InputInv

LEMMA ParkedSeesClosedKeeps == InputInv /\ ParkedSeesClosed => InputInv'
  <1> SUFFICES ASSUME InputInv, ParkedSeesClosed PROVE InputInv'
    OBVIOUS
  <1> USE DEF ParkedSeesClosed
  <1>1. UNCHANGED <<source, deferred, pendingInput, buffer, inflight, historyVars>>
    BY DEF bufferVars, mailboxVars
  <1>2. (outcome.batch)' = <<>> /\ (outcome.kind)' = "EmptyAndSealed"
    BY DEF Outcome
  <1>3. outcome.batch = <<>>
    BY DEF InputInv, Places
  <1>4. QueuesTyped' /\ HistoryTyped' /\ Counted' /\ Complete'
    BY <1>1, <1>2, <1>3, QuietKeeps
  <1>5. StateTyped'
    BY DEF InputInv, StateTyped, Phases, bufferVars, mailboxVars
  <1>6. Places'
    BY <1>2 DEF InputInv, Places, bufferVars
  <1>7. Epochs'
    BY <1>2 DEF InputInv, Epochs, Running, bufferVars
  <1>8. QED BY <1>4, <1>5, <1>6, <1>7 DEF InputInv

LEMMA EngineExitsKeeps == InputInv /\ EngineExits => InputInv'
  <1> SUFFICES ASSUME InputInv, EngineExits PROVE InputInv'
    OBVIOUS
  <1>1. /\ phase = "decided" /\ phase' = "ended" /\ outcome' = NoOutcome
        /\ outcome.kind \notin {"Ready", "InternalContinuation"} \/ outcome.batch = <<>>
        /\ UNCHANGED <<source, closed, deferred, pendingInput, buffer, sealed,
                       bufferEpoch, continuation, inflight, mode, single, historyVars>>
    BY DEF EngineExits, EngineHandles, bufferVars, historyVars
  <1>2. runEpoch' = runEpoch \/ runEpoch' = NextDrainEpoch(runEpoch)
    BY DEF EngineExits
  <1>3. outcome.batch = <<>>
    BY <1>1 DEF InputInv, Places
  <1>4. (outcome.batch)' = <<>> /\ (outcome.kind)' = "none"
    BY <1>1 DEF NoOutcome
  <1>5. QueuesTyped' /\ HistoryTyped' /\ Counted' /\ Complete'
    BY <1>1, <1>3, <1>4, QuietKeeps
  <1>6. runEpoch' \in 0 .. (EpochModulus - 1)
    BY <1>2, EpochRange DEF InputInv, StateTyped
  <1>7. StateTyped'
    BY <1>1, <1>6 DEF InputInv, StateTyped, Phases
  <1>8. Places'
    BY <1>1, <1>4 DEF InputInv, Places
  <1>9. Epochs'
    BY <1>1, <1>4 DEF InputInv, Epochs, Running
  <1>10. QED BY <1>5, <1>7, <1>8, <1>9 DEF InputInv

(* A decision takes the contents out of the buffer: while the run goes on  *)
(* the buffer is not sealed and has the epoch the engine expects.          *)
LEMMA DecisionGives ==
  ASSUME InputInv, phase \in Running, NEW kind, NEW contents,
         DrainUserInputs(kind, contents)
  PROVE  /\ (outcome.batch)' = contents /\ (outcome.kind)' = kind
         /\ buffer' = <<>> /\ phase' = "decided"
         /\ bufferEpoch' = NextDrainEpoch(bufferEpoch)
         /\ ~sealed /\ runEpoch = bufferEpoch
  <1>1. ~sealed /\ runEpoch = bufferEpoch
    BY DEF InputInv, Epochs
  <1>2. ~Refused
    BY <1>1 DEF Refused
  <1>3. outcome' = Outcome(kind, contents)
    BY <1>1, <1>2 DEF DrainUserInputs
  <1>4. QED BY <1>1, <1>2, <1>3 DEF DrainUserInputs, Outcome

LEMMA DecisionKeeps ==
  ASSUME InputInv, phase \in Running, inflight = <<>>, NEW kind,
         kind \in {"Ready", "InternalContinuation"}
            \/ (kind = "EmptyAndSealed" /\ buffer = <<>>),
         DrainUserInputs(kind, buffer),
         kind = "EmptyAndSealed" \/ sealed' = sealed, sealed' \in BOOLEAN,
         continuation' \subseteq continuation,
         UNCHANGED <<mailboxVars, runEpoch, inflight, mode, single, historyVars>>
  PROVE  InputInv'
  <1>1. /\ (outcome.batch)' = buffer /\ (outcome.kind)' = kind
        /\ buffer' = <<>> /\ phase' = "decided"
        /\ bufferEpoch' = NextDrainEpoch(bufferEpoch)
        /\ ~sealed /\ runEpoch = bufferEpoch
    BY DecisionGives
  <1>2. outcome.batch = <<>>
    BY DEF InputInv, Places, Running
  <1>3. /\ source' = source /\ deferred' = deferred /\ inflight' = inflight
        /\ pendingInput' = pendingInput /\ consumed' = consumed
        /\ sent' = sent /\ withdrawn' = withdrawn /\ discarded' = discarded
        /\ disturbances' = disturbances
        /\ closed' = closed
    BY DEF mailboxVars, historyVars
  <1>4. QueuesTyped'
    BY <1>1, <1>3 DEF InputInv, QueuesTyped
  <1>5. HistoryTyped'
    BY <1>3 DEF InputInv, HistoryTyped
  <1>6. ASSUME NEW x PROVE Total(x)' = Total(x)
    <2>1. /\ Occurrences(x, consumed') = Occurrences(x, consumed)
          /\ Occurrences(x, deferred') = Occurrences(x, deferred)
          /\ Occurrences(x, inflight') = Occurrences(x, inflight)
          /\ Occurrences(x, source') = Occurrences(x, source)
          /\ Occurrences(x, pendingInput') = Occurrences(x, pendingInput)
      BY <1>3
    <2>2. /\ Occurrences(x, (outcome.batch)') = Occurrences(x, buffer)
          /\ Occurrences(x, buffer') = 0
          /\ Occurrences(x, outcome.batch) = 0
      BY <1>1, <1>2, OccurrencesEmpty
    <2>3. /\ Occurrences(x, consumed) \in Nat /\ Occurrences(x, buffer) \in Nat
          /\ Occurrences(x, deferred) \in Nat /\ Occurrences(x, inflight) \in Nat
          /\ Occurrences(x, source) \in Nat /\ Occurrences(x, pendingInput) \in Nat
      BY CountsNat DEF InputInv
    <2>4. QED BY ONLY <2>1, <2>2, <2>3 DEF Total
  <1>7. Total("query")' <= Total("query")
    <2>1. Total("query") \in Nat
      BY CountsNat DEF InputInv
    <2>2. QED BY <1>6, <2>1
  <1>8. ToSet(disturbances)' = ToSet(disturbances)
    BY <1>3 DEF ToSet
  <1>9. Counted' /\ Complete'
    BY <1>1, <1>3, <1>4, <1>6, <1>7, <1>8, MoveKeeps DEF InputInv
  <1>10. bufferEpoch' \in 0 .. (EpochModulus - 1)
    BY <1>1, EpochRange DEF InputInv, StateTyped
  <1>11. StateTyped'
    BY <1>1, <1>3, <1>10 DEF InputInv, StateTyped, Phases
  <1>12. Places'
    BY <1>1, <1>3 DEF InputInv, Places
  <1>13. Epochs'
    BY <1>1, <1>3 DEF InputInv, Epochs, Running
  <1>14. QED BY <1>4, <1>5, <1>9, <1>11, <1>12, <1>13 DEF InputInv

LEMMA TakeInternalContinuationKeeps == InputInv /\ TakeInternalContinuation => InputInv'
  <1> SUFFICES ASSUME InputInv, TakeInternalContinuation PROVE InputInv'
    OBVIOUS
  <1> USE DEF TakeInternalContinuation
  <1>1. phase \in Running /\ inflight = <<>>
    BY DEF Collected, Running
  <1>2. DrainUserInputs("InternalContinuation", buffer)
    OBVIOUS
  <1>3. sealed' = sealed /\ sealed' \in BOOLEAN /\ continuation' \subseteq continuation
    BY DEF InputInv, StateTyped
  <1>4. UNCHANGED <<mailboxVars, runEpoch, inflight, mode, single, historyVars>>
    OBVIOUS
  <1>5. QED BY <1>1, <1>2, <1>3, <1>4, DecisionKeeps

LEMMA DrainOrSealKeeps == InputInv /\ DrainOrSeal => InputInv'
  <1> SUFFICES ASSUME InputInv, DrainOrSeal PROVE InputInv'
    OBVIOUS
  <1>1. phase \in Running /\ inflight = <<>>
    BY DEF Collected, Running, DrainOrSeal
  <1>2. UNCHANGED <<mailboxVars, runEpoch, inflight, mode, single, historyVars>>
    BY DEF DrainOrSeal
  <1>3. sealed' \in BOOLEAN /\ continuation' \subseteq continuation
    BY DEF DrainOrSeal, InputInv, StateTyped
  <1>4. CASE buffer = <<>>
    <2>1. DrainUserInputs("EmptyAndSealed", buffer)
      BY <1>4 DEF DrainOrSeal
    <2>2. QED BY <1>1, <1>2, <1>3, <1>4, <2>1, DecisionKeeps
  <1>5. CASE buffer # <<>>
    <2>1. DrainUserInputs("Ready", buffer)
      BY <1>5 DEF DrainOrSeal
    <2>2. sealed' = sealed
      BY <1>5 DEF DrainOrSeal, InputInv, StateTyped
    <2>3. QED BY <1>1, <1>2, <1>3, <2>1, <2>2, DecisionKeeps
  <1>6. QED BY <1>4, <1>5

LEMMA TryDrainUnsealedKeeps == InputInv /\ TryDrainUnsealed => InputInv'
  <1> SUFFICES ASSUME InputInv, TryDrainUnsealed PROVE InputInv'
    OBVIOUS
  <1>1. phase = "collect" /\ phase \in Running /\ inflight = <<>>
    BY DEF Collected, Running, TryDrainUnsealed
  <1>2. UNCHANGED <<mailboxVars, runEpoch, inflight, single, continuation, historyVars>>
    BY DEF TryDrainUnsealed
  <1>3. CASE buffer = <<>> /\ ~Refused
    <2>1. phase' = "parked" /\ mode' = "park" /\ UNCHANGED <<bufferVars, outcome>>
      BY <1>3 DEF TryDrainUnsealed
    <2>2. UNCHANGED <<source, deferred, pendingInput, buffer, inflight, historyVars>>
      BY <1>2, <2>1 DEF bufferVars, mailboxVars
    <2>3. QueuesTyped' /\ HistoryTyped' /\ Counted' /\ Complete'
      BY <2>1, <2>2, QuietKeeps
    <2>4. StateTyped'
      BY <1>2, <2>1 DEF InputInv, StateTyped, Phases, Modes, bufferVars, mailboxVars
    <2>5. Places'
      BY <1>1, <1>2, <2>1 DEF InputInv, Places, bufferVars
    <2>6. Epochs'
      BY <1>1, <1>2, <2>1 DEF InputInv, Epochs, Running, bufferVars
    <2>7. QED BY <2>3, <2>4, <2>5, <2>6 DEF InputInv
  <1>4. CASE ~(buffer = <<>> /\ ~Refused)
    <2>1. DrainUserInputs("Ready", buffer) /\ UNCHANGED <<sealed, mode>>
      BY <1>4 DEF TryDrainUnsealed
    <2>2. sealed' = sealed /\ sealed' \in BOOLEAN /\ continuation' \subseteq continuation
      BY <1>2, <2>1 DEF InputInv, StateTyped
    <2>3. QED BY <1>1, <1>2, <2>1, <2>2, DecisionKeeps
  <1>5. QED BY <1>3, <1>4

(* Everything that is available becomes the drain's. *)
LEMMA CollectKeeps ==
  ASSUME InputInv, NEW m \in {"drain", "await", "response"}, Collect(m)
  PROVE  InputInv'
  <1>1. /\ phase \in {"step", "loop", "awaiting"} /\ phase' = "collect" /\ mode' = m
        /\ inflight' = deferred \o source /\ deferred' = <<>> /\ source' = <<>>
        /\ UNCHANGED <<closed, pendingInput, buffer, sealed, bufferEpoch, runEpoch,
                       continuation, single, outcome, historyVars>>
    BY DEF Collect, DrainAvailable, bufferVars
  <1>2. inflight = <<>>
    BY <1>1 DEF InputInv, Places
  <1>3. consumed' = consumed /\ sent' = sent /\ withdrawn' = withdrawn /\ discarded' = discarded
           /\ disturbances' = disturbances
    BY <1>1 DEF historyVars
  <1>4. QueuesTyped'
    BY <1>1, <1>3 DEF InputInv, QueuesTyped
  <1>5. HistoryTyped'
    BY <1>3 DEF InputInv, HistoryTyped
  <1>6. ASSUME NEW x PROVE Total(x)' = Total(x)
    <2>1. /\ Occurrences(x, consumed') = Occurrences(x, consumed)
          /\ Occurrences(x, (outcome.batch)') = Occurrences(x, outcome.batch)
          /\ Occurrences(x, buffer') = Occurrences(x, buffer)
          /\ Occurrences(x, pendingInput') = Occurrences(x, pendingInput)
      BY <1>1, <1>3
    <2>2. deferred \in Seq(Event) /\ source \in Seq(Event)
      BY DEF InputInv, QueuesTyped
    <2>3. Occurrences(x, inflight') = Occurrences(x, deferred) + Occurrences(x, source)
      BY <1>1, <2>2, OccurrencesConcat
    <2>4. /\ Occurrences(x, deferred') = 0 /\ Occurrences(x, source') = 0
          /\ Occurrences(x, inflight) = 0
      BY <1>1, <1>2, OccurrencesEmpty
    <2>5. /\ Occurrences(x, consumed) \in Nat /\ Occurrences(x, outcome.batch) \in Nat
          /\ Occurrences(x, buffer) \in Nat /\ Occurrences(x, deferred) \in Nat
          /\ Occurrences(x, source) \in Nat /\ Occurrences(x, pendingInput) \in Nat
      BY CountsNat DEF InputInv
    <2>6. QED BY ONLY <2>1, <2>3, <2>4, <2>5 DEF Total
  <1>7. Total("query")' <= Total("query")
    <2>1. Total("query") \in Nat
      BY CountsNat DEF InputInv
    <2>2. QED BY <1>6, <2>1
  <1>8. ToSet(disturbances)' = ToSet(disturbances)
    BY <1>3 DEF ToSet
  <1>9. Counted' /\ Complete'
    BY <1>1, <1>3, <1>4, <1>6, <1>7, <1>8, MoveKeeps DEF InputInv
  <1>10. StateTyped'
    BY <1>1 DEF InputInv, StateTyped, Phases, Modes
  <1>11. Places'
    BY <1>1 DEF InputInv, Places
  <1>12. Epochs'
    BY <1>1 DEF InputInv, Epochs, Running
  <1>13. QED BY <1>4, <1>5, <1>9, <1>10, <1>11, <1>12 DEF InputInv

LEMMA AdmitNextKeeps == InputInv /\ AdmitNext => InputInv'
  <1> SUFFICES ASSUME InputInv, AdmitNext PROVE InputInv'
    OBVIOUS
  <1> DEFINE e == Head(inflight)
             busy == (mode = "response")
  <1>1. /\ phase = "collect" /\ inflight # <<>> /\ inflight' = Tail(inflight)
        /\ HandleEvent(e, busy, deferred)
        /\ source' = source
        /\ UNCHANGED <<consumed, outcome, sent, disturbances, phase>>
        /\ UNCHANGED <<closed, sealed, bufferEpoch, runEpoch, continuation, mode, single>>
    BY DEF AdmitNext
  <1>2. ~sealed /\ runEpoch = bufferEpoch
    BY <1>1 DEF InputInv, Epochs, Running
  <1>3. inflight \in Seq(Event) /\ source \in Seq(Event) /\ deferred \in Seq(Event)
    BY DEF InputInv, QueuesTyped
  <1>4. e \in Event /\ inflight' \in Seq(Event) /\ source' \in Seq(Event) /\ busy \in BOOLEAN
    BY <1>1, <1>3, OccurrencesHead
  <1>5. ASSUME NEW x
        PROVE  Occurrences(x, deferred) + Occurrences(x, inflight) + Occurrences(x, source)
                  = Occurrences(x, deferred) + Occurrences(x, inflight')
                      + Occurrences(x, source') + IF e = x THEN 1 ELSE 0
    <2>1. Occurrences(x, inflight)
             = Occurrences(x, inflight') + IF e = x THEN 1 ELSE 0
      BY <1>1, <1>3, OccurrencesHead
    <2>2. /\ Occurrences(x, deferred) \in Nat /\ Occurrences(x, source) \in Nat
          /\ Occurrences(x, inflight') \in Nat
      BY <1>3, <1>4, OccurrencesNat
    <2>3. Occurrences(x, source') = Occurrences(x, source)
      BY <1>1
    <2> HIDE DEF e
    <2>4. QED BY ONLY <2>1, <2>2, <2>3
  <1> HIDE DEF e, busy
  <1>6. /\ QueuesTyped' /\ withdrawn' \subseteq Message /\ discarded' \subseteq Message
        /\ Counted' /\ Complete'
    BY <1>1, <1>2, <1>3, <1>4, <1>5, HandleKeeps DEF InputInv
  <1>7. HistoryTyped'
    BY <1>1, <1>6 DEF InputInv, HistoryTyped
  <1>8. StateTyped'
    BY <1>1 DEF InputInv, StateTyped
  <1>9. Places'
    BY <1>1 DEF InputInv, Places
  <1>10. Epochs'
    BY <1>1, <1>2 DEF InputInv, Epochs, Running
  <1>11. QED BY <1>6, <1>7, <1>8, <1>9, <1>10 DEF InputInv

LEMMA BeginQueryKeeps == InputInv /\ BeginQuery => InputInv'
  <1> SUFFICES ASSUME InputInv, BeginQuery PROVE InputInv'
    OBVIOUS
  <1>1. /\ phase = "collect" /\ inflight # <<>> /\ Head(inflight) = "query"
        /\ inflight' = Tail(inflight) /\ phase' = "query"
        /\ UNCHANGED <<source, deferred, pendingInput, buffer, outcome, sent, consumed,
                       withdrawn, discarded, disturbances, closed, sealed, bufferEpoch, runEpoch,
                       continuation, mode, single>>
    BY DEF BeginQuery, mailboxVars, bufferVars, historyVars
  <1>2. inflight \in Seq(Event)
    BY DEF InputInv, QueuesTyped
  <1>3. inflight' \in Seq(Event)
    BY <1>1, <1>2, OccurrencesHead
  <1>4. QueuesTyped'
    BY <1>1, <1>3 DEF InputInv, QueuesTyped
  <1>5. HistoryTyped'
    BY <1>1 DEF InputInv, HistoryTyped
  <1>6. ASSUME NEW x PROVE Total(x)' \in Nat /\ Total(x) = Total(x)' + IF "query" = x THEN 1 ELSE 0
    <2>1. Occurrences(x, inflight)
             = Occurrences(x, inflight') + IF "query" = x THEN 1 ELSE 0
      BY <1>1, <1>2, OccurrencesHead
    <2>2. /\ Occurrences(x, consumed') = Occurrences(x, consumed)
          /\ Occurrences(x, (outcome.batch)') = Occurrences(x, outcome.batch)
          /\ Occurrences(x, buffer') = Occurrences(x, buffer)
          /\ Occurrences(x, deferred') = Occurrences(x, deferred)
          /\ Occurrences(x, source') = Occurrences(x, source)
          /\ Occurrences(x, pendingInput') = Occurrences(x, pendingInput)
      BY <1>1
    <2>3. /\ Occurrences(x, consumed) \in Nat /\ Occurrences(x, outcome.batch) \in Nat
          /\ Occurrences(x, buffer) \in Nat /\ Occurrences(x, deferred) \in Nat
          /\ Occurrences(x, source) \in Nat /\ Occurrences(x, pendingInput) \in Nat
      BY CountsNat DEF InputInv
    <2>4. Occurrences(x, inflight') \in Nat
      BY <1>3, OccurrencesNat
    <2>5. QED BY ONLY <2>1, <2>2, <2>3, <2>4 DEF Total
  <1>7. \A m \in Message : Total(m)' = Total(m)
    <2> SUFFICES ASSUME NEW m \in Message PROVE Total(m)' = Total(m)
      OBVIOUS
    <2>1. m # "query"
      BY MessagesAreEvents
    <2>2. QED BY <1>6, <2>1
  <1>8. Total("query")' <= Total("query") /\ Total("query") > 0
    BY <1>6
  <1>9. ToSet(disturbances)' = ToSet(disturbances)
    BY <1>1 DEF ToSet
  <1>10. Counted' /\ Complete'
    BY <1>1, <1>4, <1>7, <1>8, <1>9, MoveKeeps DEF InputInv
  <1>11. StateTyped'
    BY <1>1 DEF InputInv, StateTyped, Phases
  <1>12. Places'
    BY <1>1 DEF InputInv, Places
  <1>13. Epochs'
    BY <1>1 DEF InputInv, Epochs, Running
  <1>14. QED BY <1>4, <1>5, <1>10, <1>11, <1>12, <1>13 DEF InputInv

(* The mailbox's first event is taken.  If it is a message it shows up in  *)
(* the buffer, a batch or pendingInput; any other event may be dropped.    *)
LEMMA TakenKeeps ==
  ASSUME InputInv, MailboxHasNext, TakeMailboxHead,
         UNCHANGED <<inflight, historyVars>>, QueuesTyped',
         \A x : /\ Occurrences(x, buffer') + Occurrences(x, (outcome.batch)')
                       + Occurrences(x, pendingInput')
                     <= Occurrences(x, buffer) + Occurrences(x, outcome.batch)
                          + Occurrences(x, pendingInput)
                          + IF MailboxHead = x THEN 1 ELSE 0
                /\ x \in Message =>
                     Occurrences(x, buffer') + Occurrences(x, (outcome.batch)')
                       + Occurrences(x, pendingInput')
                     = Occurrences(x, buffer) + Occurrences(x, outcome.batch)
                          + Occurrences(x, pendingInput)
                          + IF MailboxHead = x THEN 1 ELSE 0,
         phase' = "query" => MailboxHead = "query"
  PROVE  HistoryTyped' /\ Counted' /\ Complete'
  <1>1. /\ consumed' = consumed /\ sent' = sent /\ withdrawn' = withdrawn /\ discarded' = discarded
        /\ disturbances' = disturbances /\ inflight' = inflight
    BY DEF historyVars
  <1>2. HistoryTyped'
    BY <1>1 DEF InputInv, HistoryTyped
  <1>3. ASSUME NEW x
        PROVE  Total(x)' <= Total(x) /\ (x \in Message => Total(x)' = Total(x))
    <2> DEFINE taken == IF MailboxHead = x THEN 1 ELSE 0
    <2>1. /\ Occurrences(x, deferred') \in Nat /\ Occurrences(x, source') \in Nat
          /\ Occurrences(x, deferred) \in Nat /\ Occurrences(x, source) \in Nat
          /\ Occurrences(x, deferred) + Occurrences(x, source)
               = Occurrences(x, deferred') + Occurrences(x, source') + taken
      BY MailboxTaken DEF InputInv
    <2>2. /\ Occurrences(x, consumed') = Occurrences(x, consumed)
          /\ Occurrences(x, inflight') = Occurrences(x, inflight)
      BY <1>1
    <2>3. /\ Occurrences(x, consumed) \in Nat /\ Occurrences(x, outcome.batch) \in Nat
          /\ Occurrences(x, buffer) \in Nat /\ Occurrences(x, inflight) \in Nat
          /\ Occurrences(x, pendingInput) \in Nat
      BY CountsNat DEF InputInv
    <2>4. /\ Occurrences(x, (outcome.batch)') \in Nat /\ Occurrences(x, buffer') \in Nat
          /\ Occurrences(x, pendingInput') \in Nat
      BY MessagesAreEvents, OccurrencesNat DEF QueuesTyped
    <2>5. Occurrences(x, buffer') + Occurrences(x, (outcome.batch)')
             + Occurrences(x, pendingInput')
            <= Occurrences(x, buffer) + Occurrences(x, outcome.batch)
                 + Occurrences(x, pendingInput) + taken
      OBVIOUS
    <2>6. x \in Message =>
             Occurrences(x, buffer') + Occurrences(x, (outcome.batch)')
               + Occurrences(x, pendingInput')
             = Occurrences(x, buffer) + Occurrences(x, outcome.batch)
                 + Occurrences(x, pendingInput) + taken
      OBVIOUS
    <2>7. taken \in Nat
      OBVIOUS
    <2> HIDE DEF taken
    <2>8. Total(x)' <= Total(x)
      BY ONLY <2>1, <2>2, <2>3, <2>4, <2>5, <2>7 DEF Total
    <2>9. ASSUME x \in Message PROVE Total(x)' = Total(x)
      BY ONLY <2>1, <2>2, <2>3, <2>4, <2>6, <2>7, <2>9 DEF Total
    <2>10. QED BY <2>8, <2>9
  <1>4. MailboxHead = "query" => Total("query") > 0
    <2> HAVE MailboxHead = "query"
    <2>1. /\ Occurrences("query", deferred') \in Nat /\ Occurrences("query", source') \in Nat
          /\ Occurrences("query", deferred) \in Nat /\ Occurrences("query", source) \in Nat
          /\ Occurrences("query", deferred) + Occurrences("query", source)
               = Occurrences("query", deferred') + Occurrences("query", source') + 1
      BY MailboxTaken DEF InputInv
    <2>2. /\ Occurrences("query", consumed) \in Nat
          /\ Occurrences("query", outcome.batch) \in Nat
          /\ Occurrences("query", buffer) \in Nat /\ Occurrences("query", inflight) \in Nat
          /\ Occurrences("query", pendingInput) \in Nat
      BY CountsNat DEF InputInv
    <2>3. QED BY ONLY <2>1, <2>2 DEF Total
  <1>5. ToSet(disturbances)' = ToSet(disturbances)
    BY <1>1 DEF ToSet
  <1>6. Counted' /\ Complete'
    BY <1>1, <1>3, <1>4, <1>5, MoveKeeps DEF InputInv
  <1>7. QED BY <1>2, <1>6

(* The same when no queue but the mailbox changes. *)
LEMMA ControlTakenKeeps ==
  ASSUME InputInv, MailboxHasNext, TakeMailboxHead, MailboxHead \notin Message,
         UNCHANGED <<inflight, historyVars, pendingInput, outcome, buffer>>,
         phase' = "query" => MailboxHead = "query"
  PROVE  QueuesTyped' /\ HistoryTyped' /\ Counted' /\ Complete'
  <1>1. deferred' \in Seq(Event) /\ source' \in Seq(Event)
    BY MailboxTaken DEF InputInv
  <1>2. QueuesTyped'
    BY <1>1 DEF InputInv, QueuesTyped, historyVars
  <1>3. ASSUME NEW x
        PROVE  /\ Occurrences(x, buffer') + Occurrences(x, (outcome.batch)')
                       + Occurrences(x, pendingInput')
                     <= Occurrences(x, buffer) + Occurrences(x, outcome.batch)
                          + Occurrences(x, pendingInput)
                          + IF MailboxHead = x THEN 1 ELSE 0
               /\ x \in Message =>
                     Occurrences(x, buffer') + Occurrences(x, (outcome.batch)')
                       + Occurrences(x, pendingInput')
                     = Occurrences(x, buffer) + Occurrences(x, outcome.batch)
                          + Occurrences(x, pendingInput)
                          + IF MailboxHead = x THEN 1 ELSE 0
    <2>1. /\ Occurrences(x, buffer') = Occurrences(x, buffer)
          /\ Occurrences(x, (outcome.batch)') = Occurrences(x, outcome.batch)
          /\ Occurrences(x, pendingInput') = Occurrences(x, pendingInput)
      OBVIOUS
    <2>2. /\ Occurrences(x, outcome.batch) \in Nat /\ Occurrences(x, buffer) \in Nat
          /\ Occurrences(x, pendingInput) \in Nat
      BY CountsNat DEF InputInv
    <2>3. x \in Message => MailboxHead # x
      OBVIOUS
    <2>4. QED BY ONLY <2>1, <2>2, <2>3
  <1>4. QED BY <1>2, <1>3, TakenKeeps

LEMMA HandlesControlKeeps == InputInv /\ IdleHandlesControl => InputInv'
  <1> SUFFICES ASSUME InputInv, IdleHandlesControl PROVE InputInv'
    OBVIOUS
  <1>1. /\ phase = "idle" /\ MailboxHasNext /\ TakeMailboxHead /\ MailboxHead \notin Message
        /\ UNCHANGED <<inflight, historyVars, pendingInput, outcome, buffer>>
        /\ UNCHANGED <<closed, sealed, bufferEpoch, runEpoch, continuation, phase, mode, single>>
    BY DEF IdleHandlesControl, bufferVars
  <1>2. QueuesTyped' /\ HistoryTyped' /\ Counted' /\ Complete'
    BY <1>1, ControlTakenKeeps
  <1>3. StateTyped'
    BY <1>1 DEF InputInv, StateTyped
  <1>4. Places'
    BY <1>1 DEF InputInv, Places
  <1>5. Epochs'
    BY <1>1 DEF InputInv, Epochs
  <1>6. QED BY <1>2, <1>3, <1>4, <1>5 DEF InputInv

LEMMA ManualRunKeeps == InputInv /\ IdleStartsManualRun => InputInv'
  <1> SUFFICES ASSUME InputInv, IdleStartsManualRun PROVE InputInv'
    OBVIOUS
  <1> USE DEF IdleStartsManualRun, FreshRun
  <1>1. phase = "idle" /\ MailboxHasNext /\ TakeMailboxHead /\ MailboxHead \notin Message
    BY MessagesAreEvents
  <1>2. UNCHANGED <<inflight, historyVars, pendingInput, outcome, buffer>> /\ phase' = "loop"
    BY DEF InputInv, Places
  <1>3. QueuesTyped' /\ HistoryTyped' /\ Counted' /\ Complete'
    BY <1>1, <1>2, ControlTakenKeeps
  <1>4. StateTyped'
    BY EpochRange DEF InputInv, StateTyped, Phases, Continuations
  <1>5. Places'
    BY DEF InputInv, Places
  <1>6. Epochs'
    BY DEF InputInv, Epochs, Running
  <1>7. QED BY <1>3, <1>4, <1>5, <1>6 DEF InputInv

LEMMA ConversationKeeps == InputInv /\ IdleStartsConversation => InputInv'
  <1> SUFFICES ASSUME InputInv, IdleStartsConversation PROVE InputInv'
    OBVIOUS
  <1> USE DEF IdleStartsConversation, FreshRun
  <1>1. phase = "idle" /\ MailboxHasNext /\ TakeMailboxHead /\ MailboxHead \in Message
    OBVIOUS
  <1>2. buffer' = <<MailboxHead>> /\ buffer = <<>> /\ phase' = "loop"
    BY DEF InputInv, Places
  <1>3. UNCHANGED <<inflight, historyVars, pendingInput, outcome>>
    OBVIOUS
  <1>4. deferred' \in Seq(Event) /\ source' \in Seq(Event)
    BY <1>1, MailboxTaken DEF InputInv
  <1>5. QueuesTyped'
    BY <1>1, <1>2, <1>3, <1>4 DEF InputInv, QueuesTyped, historyVars
  <1>6. ASSUME NEW x
        PROVE  /\ Occurrences(x, buffer') + Occurrences(x, (outcome.batch)')
                    + Occurrences(x, pendingInput')
                 = Occurrences(x, buffer) + Occurrences(x, outcome.batch)
                    + Occurrences(x, pendingInput) + IF MailboxHead = x THEN 1 ELSE 0
               /\ Occurrences(x, buffer') + Occurrences(x, (outcome.batch)')
                    + Occurrences(x, pendingInput')
                 <= Occurrences(x, buffer) + Occurrences(x, outcome.batch)
                    + Occurrences(x, pendingInput) + IF MailboxHead = x THEN 1 ELSE 0
    <2>1. /\ Occurrences(x, buffer') = IF MailboxHead = x THEN 1 ELSE 0
          /\ Occurrences(x, buffer) = 0
      BY <1>2, OccurrencesOne, OccurrencesEmpty
    <2>2. /\ Occurrences(x, (outcome.batch)') = Occurrences(x, outcome.batch)
          /\ Occurrences(x, pendingInput') = Occurrences(x, pendingInput)
      BY <1>3
    <2>3. /\ Occurrences(x, outcome.batch) \in Nat /\ Occurrences(x, pendingInput) \in Nat
      BY CountsNat DEF InputInv
    <2>4. QED BY ONLY <2>1, <2>2, <2>3
  <1>8. HistoryTyped' /\ Counted' /\ Complete'
    BY <1>1, <1>2, <1>3, <1>5, <1>6, TakenKeeps
  <1>9. StateTyped'
    BY EpochRange DEF InputInv, StateTyped, Phases, Continuations
  <1>10. Places'
    BY DEF InputInv, Places
  <1>11. Epochs'
    BY DEF InputInv, Epochs, Running
  <1>12. QED BY <1>5, <1>8, <1>9, <1>10, <1>11 DEF InputInv

LEMMA ParkedReceivesKeeps == InputInv /\ ParkedReceives => InputInv'
  <1> SUFFICES ASSUME InputInv, ParkedReceives PROVE InputInv'
    OBVIOUS
  <1>1. /\ phase = "parked" /\ MailboxHasNext /\ TakeMailboxHead
        /\ UNCHANGED <<inflight, historyVars>>
        /\ UNCHANGED <<closed, sealed, runEpoch, continuation, mode, single>>
    BY DEF ParkedReceives
  <1>2. deferred' \in Seq(Event) /\ source' \in Seq(Event) /\ MailboxHead \in Event
    BY <1>1, MailboxTaken DEF InputInv
  <1>3. outcome.batch = <<>> /\ inflight = <<>> /\ phase \in Running
    BY <1>1 DEF InputInv, Places, Running
  <1>4. ~sealed /\ runEpoch = bufferEpoch
    BY <1>3 DEF InputInv, Epochs
  <1>5. CASE /\ MailboxHead \in Message
             /\ DrainUserInputs("Ready", Append(buffer, MailboxHead))
             /\ UNCHANGED pendingInput
    <2>1. /\ (outcome.batch)' = Append(buffer, MailboxHead) /\ (outcome.kind)' = "Ready"
          /\ buffer' = <<>> /\ phase' = "decided"
          /\ bufferEpoch' = NextDrainEpoch(bufferEpoch)
      BY <1>3, <1>5, DecisionGives
    <2>2. buffer \in Seq(Message) /\ buffer \in Seq(Event)
      BY MessagesAreEvents DEF InputInv, QueuesTyped
    <2>3. QueuesTyped'
      BY <1>1, <1>2, <1>5, <2>1, <2>2 DEF InputInv, QueuesTyped, historyVars
    <2>4. ASSUME NEW x
          PROVE  /\ Occurrences(x, buffer') + Occurrences(x, (outcome.batch)')
                      + Occurrences(x, pendingInput')
                   = Occurrences(x, buffer) + Occurrences(x, outcome.batch)
                      + Occurrences(x, pendingInput) + IF MailboxHead = x THEN 1 ELSE 0
                 /\ Occurrences(x, buffer') + Occurrences(x, (outcome.batch)')
                      + Occurrences(x, pendingInput')
                   <= Occurrences(x, buffer) + Occurrences(x, outcome.batch)
                      + Occurrences(x, pendingInput) + IF MailboxHead = x THEN 1 ELSE 0
      <3>1. Occurrences(x, (outcome.batch)')
               = Occurrences(x, buffer) + IF MailboxHead = x THEN 1 ELSE 0
        BY <1>2, <2>1, <2>2, OccurrencesAppend
      <3>2. Occurrences(x, buffer') = 0 /\ Occurrences(x, outcome.batch) = 0
        BY <1>3, <2>1, OccurrencesEmpty
      <3>3. Occurrences(x, pendingInput') = Occurrences(x, pendingInput)
        BY <1>5
      <3>4. Occurrences(x, buffer) \in Nat /\ Occurrences(x, pendingInput) \in Nat
        BY CountsNat DEF InputInv
      <3>5. QED BY ONLY <3>1, <3>2, <3>3, <3>4
    <2>5. HistoryTyped' /\ Counted' /\ Complete'
      BY <1>1, <2>1, <2>3, <2>4, TakenKeeps
    <2>6. bufferEpoch' \in 0 .. (EpochModulus - 1)
      BY <2>1, EpochRange DEF InputInv, StateTyped
    <2>7. StateTyped'
      BY <1>1, <2>1, <2>6 DEF InputInv, StateTyped, Phases
    <2>8. Places'
      BY <1>1, <1>3, <2>1 DEF Places
    <2>9. Epochs'
      BY <1>1, <1>4, <2>1 DEF Epochs, Running
    <2>10. QED BY <2>3, <2>5, <2>7, <2>8, <2>9 DEF InputInv
  <1>6. CASE /\ MailboxHead = "query" /\ phase' = "query"
             /\ UNCHANGED <<pendingInput, buffer, bufferEpoch, outcome>>
    <2>1. MailboxHead \notin Message
      BY <1>6, MessagesAreEvents
    <2>2. QueuesTyped' /\ HistoryTyped' /\ Counted' /\ Complete'
      BY <1>1, <1>6, <2>1, ControlTakenKeeps
    <2>3. StateTyped'
      BY <1>1, <1>6 DEF InputInv, StateTyped, Phases
    <2>4. Places'
      BY <1>1, <1>3, <1>6 DEF InputInv, Places
    <2>5. Epochs'
      BY <1>1, <1>4, <1>6 DEF InputInv, Epochs, Running
    <2>6. QED BY <2>2, <2>3, <2>4, <2>5 DEF InputInv
  <1>7. CASE /\ MailboxHead \in {"withdraw", "command"}
             /\ pendingInput' = Append(pendingInput, MailboxHead)
             /\ outcome' = Outcome("EmptyAndSealed", <<>>) /\ phase' = "decided"
             /\ UNCHANGED <<buffer, bufferEpoch>>
    <2>1. (outcome.batch)' = <<>> /\ (outcome.kind)' = "EmptyAndSealed"
      BY <1>7 DEF Outcome
    <2>2. /\ pendingInput \in Seq(Event)
          /\ buffer \in Seq(Message) /\ consumed \in Seq(Message)
          /\ inflight \in Seq(Event)
      BY DEF InputInv, QueuesTyped
    <2>3. QueuesTyped'
      <3>1. Append(pendingInput, MailboxHead) \in Seq(Event)
        BY <1>2, <2>2, AppendProperties
      <3>2. /\ buffer' \in Seq(Message) /\ consumed' \in Seq(Message)
            /\ inflight' \in Seq(Event) /\ pendingInput' \in Seq(Event)
        BY <1>1, <1>7, <2>2, <3>1 DEF historyVars
      <3>3. (outcome.batch)' \in Seq(Message)
        BY <2>1
      <3>4. QED BY <1>2, <3>2, <3>3 DEF QueuesTyped
    <2>4. ASSUME NEW x
          PROVE  /\ Occurrences(x, buffer') + Occurrences(x, (outcome.batch)')
                      + Occurrences(x, pendingInput')
                   = Occurrences(x, buffer) + Occurrences(x, outcome.batch)
                      + Occurrences(x, pendingInput) + IF MailboxHead = x THEN 1 ELSE 0
                 /\ Occurrences(x, buffer') + Occurrences(x, (outcome.batch)')
                      + Occurrences(x, pendingInput')
                   <= Occurrences(x, buffer) + Occurrences(x, outcome.batch)
                      + Occurrences(x, pendingInput) + IF MailboxHead = x THEN 1 ELSE 0
      <3>1. Occurrences(x, pendingInput')
               = Occurrences(x, pendingInput) + IF MailboxHead = x THEN 1 ELSE 0
        BY <1>2, <1>7, <2>2, OccurrencesAppend
      <3>2. /\ Occurrences(x, buffer') = Occurrences(x, buffer)
            /\ Occurrences(x, (outcome.batch)') = 0 /\ Occurrences(x, outcome.batch) = 0
        BY <1>3, <1>7, <2>1, OccurrencesEmpty
      <3>3. Occurrences(x, buffer) \in Nat /\ Occurrences(x, pendingInput) \in Nat
        BY CountsNat DEF InputInv
      <3>4. QED BY ONLY <3>1, <3>2, <3>3
    <2>5. HistoryTyped' /\ Counted' /\ Complete'
      BY <1>1, <1>7, <2>3, <2>4, TakenKeeps
    <2>6. StateTyped'
      BY <1>1, <1>7 DEF InputInv, StateTyped, Phases
    <2>7. Places'
      BY <1>1, <1>3, <1>7, <2>1 DEF InputInv, Places
    <2>8. Epochs'
      BY <1>1, <1>4, <1>7, <2>1 DEF InputInv, Epochs, Running
    <2>9. QED BY <2>3, <2>5, <2>6, <2>7, <2>8 DEF InputInv
  <1>8. QED BY <1>5, <1>6, <1>7 DEF ParkedReceives

LEMMA PumpKeeps == InputInv /\ PumpWhileInvoking => InputInv'
  <1> SUFFICES ASSUME InputInv, PumpWhileInvoking PROVE InputInv'
    OBVIOUS
  <1> DEFINE rest == DeferredRest(deferred)
  <1>1. /\ phase = "step" /\ MailboxHasNext
        /\ source' = SourceRest(deferred, source)
        /\ UNCHANGED <<consumed, outcome, sent, disturbances, phase>>
        /\ UNCHANGED <<closed, sealed, bufferEpoch, runEpoch, continuation, inflight,
                       mode, single>>
    BY DEF PumpWhileInvoking, SourceRest
  <1>2. \/ HandleEvent(MailboxHead, TRUE, rest)
        \/ /\ MailboxHead = "query" /\ deferred' = rest
           /\ UNCHANGED <<pendingInput, buffer, withdrawn, discarded>>
    BY DEF PumpWhileInvoking, DeferredRest
  <1>3. ~sealed /\ runEpoch = bufferEpoch
    BY <1>1 DEF InputInv, Epochs, Running
  <1>4. /\ deferred \in Seq(Event) /\ source \in Seq(Event) /\ inflight \in Seq(Event)
        /\ deferred \o source # <<>>
    BY <1>1 DEF InputInv, QueuesTyped, MailboxHasNext
  <1>5. /\ MailboxHead \in Event /\ rest \in Seq(Event) /\ source' \in Seq(Event)
        /\ inflight' \in Seq(Event)
    BY <1>1, <1>4, MailboxLosesHead DEF MailboxHead
  <1>6. CASE HandleEvent(MailboxHead, TRUE, rest)
    <2>1. ASSUME NEW x
          PROVE  Occurrences(x, deferred) + Occurrences(x, inflight) + Occurrences(x, source)
                    = Occurrences(x, rest) + Occurrences(x, inflight')
                        + Occurrences(x, source') + IF MailboxHead = x THEN 1 ELSE 0
      <3>1. /\ Occurrences(x, rest) \in Nat
            /\ Occurrences(x, source') \in Nat
            /\ Occurrences(x, deferred) \in Nat /\ Occurrences(x, source) \in Nat
            /\ Occurrences(x, deferred) + Occurrences(x, source)
                 = Occurrences(x, rest) + Occurrences(x, source')
                     + IF MailboxHead = x THEN 1 ELSE 0
        <4>1. /\ Occurrences(x, DeferredRest(deferred)) \in Nat
              /\ Occurrences(x, SourceRest(deferred, source)) \in Nat
              /\ Occurrences(x, deferred) \in Nat /\ Occurrences(x, source) \in Nat
              /\ Occurrences(x, deferred) + Occurrences(x, source)
                   = Occurrences(x, DeferredRest(deferred))
                       + Occurrences(x, SourceRest(deferred, source))
                       + IF MailboxHead = x THEN 1 ELSE 0
          BY <1>4, MailboxLosesHead DEF MailboxHead
        <4>2. QED BY <1>1, <4>1
      <3>2. Occurrences(x, inflight') = Occurrences(x, inflight)
               /\ Occurrences(x, inflight) \in Nat
        BY <1>1, <1>4, OccurrencesNat
      <3> HIDE DEF rest
      <3>3. QED BY ONLY <3>1, <3>2
    <2> HIDE DEF rest
    <2>2. /\ QueuesTyped' /\ withdrawn' \subseteq Message /\ discarded' \subseteq Message
          /\ Counted' /\ Complete'
      BY <1>1, <1>3, <1>4, <1>5, <1>6, <2>1, HandleKeeps DEF InputInv
    <2>3. HistoryTyped'
      BY <1>1, <2>2 DEF InputInv, HistoryTyped
    <2>4. StateTyped'
      BY <1>1 DEF InputInv, StateTyped
    <2>5. Places'
      BY <1>1 DEF InputInv, Places
    <2>6. Epochs'
      BY <1>1, <1>3 DEF InputInv, Epochs, Running
    <2>7. QED BY <2>2, <2>3, <2>4, <2>5, <2>6 DEF InputInv
  <1>7. CASE /\ MailboxHead = "query" /\ deferred' = rest
             /\ UNCHANGED <<pendingInput, buffer, withdrawn, discarded>>
    <2>1. TakeMailboxHead
      BY <1>1, <1>7 DEF TakeMailboxHead, DeferredRest, SourceRest
    <2>2. UNCHANGED <<inflight, historyVars, pendingInput, outcome, buffer>>
      BY <1>1, <1>7 DEF historyVars
    <2>3. MailboxHead \notin Message
      BY <1>7, MessagesAreEvents
    <2>4. QueuesTyped' /\ HistoryTyped' /\ Counted' /\ Complete'
      BY <1>1, <1>7, <2>1, <2>2, <2>3, ControlTakenKeeps
    <2>5. StateTyped'
      BY <1>1 DEF InputInv, StateTyped
    <2>6. Places'
      BY <1>1, <1>7 DEF InputInv, Places
    <2>7. Epochs'
      BY <1>1, <1>7 DEF InputInv, Epochs, Running
    <2>8. QED BY <2>4, <2>5, <2>6, <2>7 DEF InputInv
  <1>8. QED BY <1>2, <1>6, <1>7

(* The engine takes the batch of a decision: it goes back to the mailbox   *)
(* or into the step.                                                       *)
LEMMA BatchMoves ==
  ASSUME InputInv, NEW k \in {"Ready", "InternalContinuation"}, EngineHandles(k),
         runEpoch' = NextDrainEpoch(runEpoch),
         \/ deferred' = deferred \o outcome.batch /\ consumed' = consumed
         \/ deferred' = deferred /\ consumed' = consumed \o outcome.batch,
         phase' \in {"awaiting", "loop", "step"}
  PROVE  InputInv'
  <1>1. /\ phase = "decided" /\ outcome.kind = k /\ outcome' = NoOutcome
        /\ UNCHANGED <<source, closed, pendingInput, buffer, sealed, bufferEpoch,
                       continuation, inflight, mode, single, sent, withdrawn, discarded, disturbances>>
    BY DEF EngineHandles, bufferVars
  <1>2. (outcome.batch)' = <<>> /\ (outcome.kind)' = "none"
    BY <1>1 DEF NoOutcome
  <1>3. ~sealed /\ bufferEpoch = NextDrainEpoch(runEpoch) /\ inflight = <<>>
    BY <1>1 DEF InputInv, Epochs, Places
  <1>4. /\ outcome.batch \in Seq(Message) /\ outcome.batch \in Seq(Event)
        /\ consumed \in Seq(Message) /\ consumed \in Seq(Event) /\ deferred \in Seq(Event)
    BY MessagesAreEvents DEF InputInv, QueuesTyped
  <1>5. deferred' \in Seq(Event) /\ consumed' \in Seq(Message)
    <2>1. /\ deferred \o outcome.batch \in Seq(Event)
          /\ consumed \o outcome.batch \in Seq(Message)
      BY <1>4, ConcatProperties
    <2>2. QED BY <1>4, <2>1
  <1>6. QueuesTyped'
    BY <1>1, <1>2, <1>5 DEF InputInv, QueuesTyped
  <1>7. HistoryTyped'
    BY <1>1 DEF InputInv, HistoryTyped
  <1>8. ASSUME NEW x PROVE Total(x)' = Total(x)
    <2>1. /\ Occurrences(x, source') = Occurrences(x, source)
          /\ Occurrences(x, inflight') = Occurrences(x, inflight)
          /\ Occurrences(x, buffer') = Occurrences(x, buffer)
          /\ Occurrences(x, pendingInput') = Occurrences(x, pendingInput)
          /\ Occurrences(x, (outcome.batch)') = 0
      BY <1>1, <1>2, OccurrencesEmpty
    <2>2. /\ Occurrences(x, deferred \o outcome.batch)
                = Occurrences(x, deferred) + Occurrences(x, outcome.batch)
          /\ Occurrences(x, consumed \o outcome.batch)
                = Occurrences(x, consumed) + Occurrences(x, outcome.batch)
      BY <1>4, OccurrencesConcat
    <2>3. \/ /\ Occurrences(x, deferred')
                   = Occurrences(x, deferred) + Occurrences(x, outcome.batch)
             /\ Occurrences(x, consumed') = Occurrences(x, consumed)
          \/ /\ Occurrences(x, consumed')
                   = Occurrences(x, consumed) + Occurrences(x, outcome.batch)
             /\ Occurrences(x, deferred') = Occurrences(x, deferred)
      BY <2>2
    <2>4. /\ Occurrences(x, consumed) \in Nat /\ Occurrences(x, outcome.batch) \in Nat
          /\ Occurrences(x, buffer) \in Nat /\ Occurrences(x, deferred) \in Nat
          /\ Occurrences(x, inflight) \in Nat /\ Occurrences(x, source) \in Nat
          /\ Occurrences(x, pendingInput) \in Nat
      BY CountsNat DEF InputInv
    <2>5. QED BY ONLY <2>1, <2>3, <2>4 DEF Total
  <1>9. Total("query")' <= Total("query")
    <2>1. Total("query") \in Nat
      BY CountsNat DEF InputInv
    <2>2. QED BY <1>8, <2>1
  <1>10. ToSet(disturbances)' = ToSet(disturbances)
    BY <1>1 DEF ToSet
  <1>11. Counted' /\ Complete'
    BY <1>1, <1>6, <1>8, <1>9, <1>10, MoveKeeps DEF InputInv
  <1>12. runEpoch' \in 0 .. (EpochModulus - 1)
    BY EpochRange DEF InputInv, StateTyped
  <1>13. StateTyped'
    BY <1>1, <1>12 DEF InputInv, StateTyped, Phases
  <1>14. Places'
    BY <1>1, <1>2, <1>3 DEF InputInv, Places
  <1>15. Epochs'
    BY <1>1, <1>2, <1>3 DEF InputInv, Epochs, Running
  <1>16. QED BY <1>6, <1>7, <1>11, <1>13, <1>14, <1>15 DEF InputInv

LEMMA EngineTakesBatch == InputInv /\ (EngineDefers \/ EngineBeginsStep) => InputInv'
  <1>1. ASSUME InputInv, EngineDefers PROVE InputInv'
    <2>1. PICK k \in {"Ready", "InternalContinuation"} : EngineHandles(k)
      BY <1>1 DEF EngineDefers
    <2>2. /\ runEpoch' = NextDrainEpoch(runEpoch)
          /\ deferred' = deferred \o outcome.batch /\ consumed' = consumed
          /\ phase' \in {"awaiting", "loop", "step"}
      BY <1>1 DEF EngineDefers
    <2>3. QED BY <1>1, <2>1, <2>2, BatchMoves
  <1>2. ASSUME InputInv, EngineBeginsStep PROVE InputInv'
    <2>1. PICK k \in {"Ready", "InternalContinuation"} : EngineHandles(k)
      BY <1>2 DEF EngineBeginsStep
    <2>2. /\ runEpoch' = NextDrainEpoch(runEpoch)
          /\ consumed' = consumed \o outcome.batch /\ deferred' = deferred
          /\ phase' \in {"awaiting", "loop", "step"}
      BY <1>2 DEF EngineBeginsStep
    <2>3. QED BY <1>2, <2>1, <2>2, BatchMoves
  <1>3. QED BY <1>1, <1>2

LEMMA ToSetAppend ==
  ASSUME NEW S, NEW q \in Seq(S), NEW x \in S
  PROVE  ToSet(Append(q, x)) = ToSet(q) \cup {x}
  <1>1. /\ Len(q) \in Nat /\ DOMAIN q = 1 .. Len(q)
        /\ DOMAIN Append(q, x) = 1 .. Len(q) + 1
        /\ \A i \in 1 .. Len(q) : Append(q, x)[i] = q[i]
        /\ Append(q, x)[Len(q) + 1] = x
    BY AppendProperties, LenProperties
  <1>2. \A y : y \in ToSet(Append(q, x)) <=> \E i \in 1 .. Len(q) + 1 : Append(q, x)[i] = y
    BY <1>1 DEF ToSet
  <1>3. \A y : y \in ToSet(q) <=> \E i \in 1 .. Len(q) : q[i] = y
    BY <1>1 DEF ToSet
  <1>4. \A i : i \in 1 .. Len(q) + 1 <=> i \in 1 .. Len(q) \/ i = Len(q) + 1
    BY <1>1
  <1>5. ASSUME NEW y PROVE y \in ToSet(Append(q, x)) <=> y \in ToSet(q) \/ y = x
    <2>1. ASSUME y \in ToSet(Append(q, x)) PROVE y \in ToSet(q) \/ y = x
      <3>1. PICK i \in 1 .. Len(q) + 1 : Append(q, x)[i] = y
        BY <1>2, <2>1
      <3>2. QED BY <1>1, <1>3, <1>4, <3>1
    <2>2. ASSUME y \in ToSet(q) PROVE y \in ToSet(Append(q, x))
      <3>1. PICK i \in 1 .. Len(q) : q[i] = y
        BY <1>3, <2>2
      <3>2. QED BY <1>1, <1>2, <1>4, <3>1
    <2>3. x \in ToSet(Append(q, x))
      BY <1>1, <1>2, <1>4
    <2>4. QED BY <2>1, <2>2, <2>3
  <1>6. QED BY <1>5

(* Dropping the future of a drain drops what it holds, which is something  *)
(* only while it answers a query.                                          *)
LEMMA DropKeeps ==
  ASSUME InputInv, phase # "collect", inflight' = <<>>, phase' # "query",
         UNCHANGED <<mailboxVars, bufferVars, outcome, sent, consumed, withdrawn, discarded>>,
         \/ disturbances' = disturbances
         \/ \E k \in Controls : k # "query" /\ disturbances' = Append(disturbances, k)
  PROVE  QueuesTyped' /\ Counted' /\ Complete'
  <1>1. /\ source' = source /\ deferred' = deferred /\ pendingInput' = pendingInput
        /\ buffer' = buffer
    BY DEF mailboxVars, bufferVars
  <1>2. QueuesTyped'
    BY <1>1 DEF InputInv, QueuesTyped
  <1>3. "query" \in ToSet(disturbances)' <=> "query" \in ToSet(disturbances)
    <2>1. disturbances \in Seq(Controls)
      BY DEF InputInv, HistoryTyped
    <2>2. CASE disturbances' = disturbances
      BY <2>2 DEF ToSet
    <2>3. ASSUME NEW k \in Controls, k # "query", disturbances' = Append(disturbances, k)
          PROVE  "query" \in ToSet(disturbances)' <=> "query" \in ToSet(disturbances)
      <3>1. ToSet(Append(disturbances, k)) = ToSet(disturbances) \cup {k}
        BY <2>1, ToSetAppend
      <3>2. ToSet(disturbances') = ToSet(disturbances) \cup {k}
        BY <2>3, <3>1
      <3>3. QED BY <2>3, <3>2
    <2>4. QED BY <2>2, <2>3
  <1>4. ASSUME NEW x
        PROVE  /\ Total(x)' \in Nat /\ Total(x)' <= Total(x)
               /\ inflight = <<>> => Total(x)' = Total(x)
    <2>1. /\ Occurrences(x, consumed') = Occurrences(x, consumed)
          /\ Occurrences(x, (outcome.batch)') = Occurrences(x, outcome.batch)
          /\ Occurrences(x, buffer') = Occurrences(x, buffer)
          /\ Occurrences(x, deferred') = Occurrences(x, deferred)
          /\ Occurrences(x, source') = Occurrences(x, source)
          /\ Occurrences(x, pendingInput') = Occurrences(x, pendingInput)
      BY <1>1
    <2>2. /\ Occurrences(x, inflight') = 0
          /\ inflight = <<>> => Occurrences(x, inflight) = 0
      BY OccurrencesEmpty
    <2>3. /\ Occurrences(x, consumed) \in Nat /\ Occurrences(x, outcome.batch) \in Nat
          /\ Occurrences(x, buffer) \in Nat /\ Occurrences(x, deferred) \in Nat
          /\ Occurrences(x, inflight) \in Nat /\ Occurrences(x, source) \in Nat
          /\ Occurrences(x, pendingInput) \in Nat
      BY CountsNat DEF InputInv
    <2>4. QED BY ONLY <2>1, <2>2, <2>3 DEF Total
  <1>5. CASE phase = "query"
    <2>1. "query" \in ToSet(disturbances)
      BY <1>5 DEF InputInv, Complete
    <2>2. QED BY <1>2, <1>3, <1>4, <2>1, LossKeeps DEF InputInv
  <1>6. CASE phase # "query"
    <2>1. inflight = <<>>
      BY <1>6 DEF InputInv, Places
    <2>2. QED BY <1>2, <1>3, <1>4, <2>1, MoveKeeps DEF InputInv
  <1>7. QED BY <1>5, <1>6

LEMMA AnsweredKeeps == InputInv /\ InteractionAnswered => InputInv'
  <1> SUFFICES ASSUME InputInv, InteractionAnswered PROVE InputInv'
    OBVIOUS
  <1> USE DEF InteractionAnswered
  <1>1. /\ phase # "collect" /\ inflight' = <<>> /\ phase' # "query"
        /\ UNCHANGED <<mailboxVars, bufferVars, outcome, sent, consumed, withdrawn, discarded>>
        /\ disturbances' = disturbances
    BY DEF historyVars
  <1>2. QueuesTyped' /\ Counted' /\ Complete'
    BY <1>1, DropKeeps
  <1>3. HistoryTyped'
    BY <1>1 DEF InputInv, HistoryTyped
  <1>4. continuation' \subseteq Continuations
    BY DEF InputInv, StateTyped, Continuations
  <1>5. StateTyped'
    BY <1>4 DEF InputInv, StateTyped, Phases, Modes, mailboxVars, bufferVars
  <1>6. Places'
    BY DEF InputInv, Places, bufferVars
  <1>7. Epochs'
    BY DEF InputInv, Epochs, Running, bufferVars
  <1>8. QED BY <1>2, <1>3, <1>5, <1>6, <1>7 DEF InputInv

(* A cancel or an interrupt is counted as a disturbance. *)
LEMMA DisturbanceCounted ==
  ASSUME HistoryTyped, NEW k \in Controls, Len(disturbances) < MaxDisturbances
  PROVE  /\ Append(disturbances, k) \in Seq(Controls)
         /\ Len(Append(disturbances, k)) <= MaxDisturbances
  <1>1. disturbances \in Seq(Controls) /\ Len(disturbances) \in Nat
    BY LenProperties DEF HistoryTyped
  <1>2. /\ Append(disturbances, k) \in Seq(Controls)
        /\ Len(Append(disturbances, k)) = Len(disturbances) + 1
    BY <1>1, AppendProperties
  <1>3. QED BY <1>1, <1>2, InputAssumption

LEMMA CancelStepKeeps == InputInv /\ CancelStep => InputInv'
  <1> SUFFICES ASSUME InputInv, CancelStep PROVE InputInv'
    OBVIOUS
  <1> USE DEF CancelStep
  <1>1. /\ phase # "collect" /\ inflight' = <<>> /\ phase' # "query"
        /\ UNCHANGED <<mailboxVars, bufferVars, outcome, sent, consumed, withdrawn, discarded>>
        /\ "cancel" \in Controls /\ disturbances' = Append(disturbances, "cancel")
    OBVIOUS
  <1>2. QueuesTyped' /\ Counted' /\ Complete'
    BY <1>1, DropKeeps
  <1>3. disturbances' \in Seq(Controls) /\ Len(disturbances') <= MaxDisturbances
    BY <1>1, DisturbanceCounted DEF InputInv
  <1>4. HistoryTyped'
    BY <1>1, <1>3 DEF InputInv, HistoryTyped
  <1>5. StateTyped'
    BY DEF InputInv, StateTyped, Phases, mailboxVars, bufferVars
  <1>6. Places'
    BY DEF InputInv, Places, bufferVars
  <1>7. Epochs'
    BY DEF InputInv, Epochs, Running, bufferVars
  <1>8. QED BY <1>2, <1>4, <1>5, <1>6, <1>7 DEF InputInv

LEMMA InterruptKeeps == InputInv /\ Interrupt => InputInv'
  <1> SUFFICES ASSUME InputInv, Interrupt PROVE InputInv'
    OBVIOUS
  <1> USE DEF Interrupt
  <1>1. /\ phase # "collect" /\ inflight' = <<>> /\ phase' # "query"
        /\ UNCHANGED <<mailboxVars, bufferVars, outcome, sent, consumed, withdrawn, discarded>>
        /\ "interrupt" \in Controls /\ disturbances' = Append(disturbances, "interrupt")
    OBVIOUS
  <1>2. QueuesTyped' /\ Counted' /\ Complete'
    BY <1>1, DropKeeps
  <1>3. disturbances' \in Seq(Controls) /\ Len(disturbances') <= MaxDisturbances
    BY <1>1, DisturbanceCounted DEF InputInv
  <1>4. HistoryTyped'
    BY <1>1, <1>3 DEF InputInv, HistoryTyped
  <1>5. StateTyped'
    BY DEF InputInv, StateTyped, Phases, mailboxVars, bufferVars
  <1>6. Places'
    BY DEF InputInv, Places, bufferVars
  <1>7. Epochs'
    BY DEF InputInv, Epochs, Running, bufferVars
  <1>8. QED BY <1>2, <1>4, <1>5, <1>6, <1>7 DEF InputInv

(* What the run leaves behind goes back to the mailbox, but for commands. *)
LEMMA DrainRemainingKeeps == InputInv /\ DrainRemainingEvents => InputInv'
  <1> SUFFICES ASSUME InputInv, DrainRemainingEvents PROVE InputInv'
    OBVIOUS
  <1>1. /\ phase = "ended" /\ phase' = "idle" /\ mode' = "drain" /\ single' = FALSE
        /\ buffer' = <<>> /\ pendingInput' = <<>> /\ continuation' = {}
        /\ UNCHANGED <<source, closed, sealed, bufferEpoch, runEpoch, inflight, outcome,
                       historyVars>>
    BY DEF DrainRemainingEvents
  <1>2. PICK n \in 0 .. Len(pendingInput) : \E f \in [1 .. n -> DOMAIN pendingInput] :
           /\ Retains(f, pendingInput)
           /\ deferred' = deferred \o buffer \o [i \in 1 .. n |-> pendingInput[f[i]]]
    BY DEF DrainRemainingEvents
  <1>3. PICK f \in [1 .. n -> DOMAIN pendingInput] :
           /\ Retains(f, pendingInput)
           /\ deferred' = deferred \o buffer \o [i \in 1 .. n |-> pendingInput[f[i]]]
    BY <1>2
  <1> DEFINE kept == [i \in 1 .. n |-> pendingInput[f[i]]]
  <1>4. /\ pendingInput \in Seq(Event) /\ deferred \in Seq(Event)
        /\ buffer \in Seq(Event) /\ inflight = <<>> /\ outcome.batch = <<>>
    BY <1>1, MessagesAreEvents DEF InputInv, QueuesTyped, Places
  <1>6. ASSUME NEW x, x # "command"
        PROVE  kept \in Seq(Event) /\ Occurrences(x, kept) = Occurrences(x, pendingInput)
    BY <1>3, <1>4, <1>6, OccurrencesRetained
  <1>5. kept \in Seq(Event)
    <2>1. "query" # "command"
      OBVIOUS
    <2>2. QED BY <1>6, <2>1
  <1>7. deferred' = (deferred \o buffer) \o kept
    BY <1>3
  <1> HIDE DEF kept
  <1>8. deferred \o buffer \in Seq(Event) /\ deferred' \in Seq(Event)
    BY <1>4, <1>5, <1>7, ConcatProperties
  <1>9. /\ consumed' = consumed /\ sent' = sent /\ withdrawn' = withdrawn /\ discarded' = discarded
        /\ disturbances' = disturbances
    BY <1>1 DEF historyVars
  <1>10. QueuesTyped'
    BY <1>1, <1>8, <1>9 DEF InputInv, QueuesTyped
  <1>11. HistoryTyped'
    BY <1>9 DEF InputInv, HistoryTyped
  <1>12. ASSUME NEW x, x # "command" PROVE Total(x)' = Total(x)
    <2>1. Occurrences(x, deferred')
            = Occurrences(x, deferred) + Occurrences(x, buffer) + Occurrences(x, pendingInput)
      <3>1. Occurrences(x, deferred') = Occurrences(x, deferred \o buffer) + Occurrences(x, kept)
        BY <1>5, <1>7, <1>8, OccurrencesConcat
      <3>2. Occurrences(x, deferred \o buffer) = Occurrences(x, deferred) + Occurrences(x, buffer)
        BY <1>4, OccurrencesConcat
      <3>3. Occurrences(x, kept) = Occurrences(x, pendingInput)
        BY <1>6, <1>12
      <3>4. QED BY ONLY <3>1, <3>2, <3>3
    <2>2. /\ Occurrences(x, consumed') = Occurrences(x, consumed)
          /\ Occurrences(x, (outcome.batch)') = Occurrences(x, outcome.batch)
          /\ Occurrences(x, inflight') = Occurrences(x, inflight)
          /\ Occurrences(x, source') = Occurrences(x, source)
      BY <1>1, <1>9
    <2>3. Occurrences(x, buffer') = 0 /\ Occurrences(x, pendingInput') = 0
      BY <1>1, OccurrencesEmpty
    <2>4. /\ Occurrences(x, consumed) \in Nat /\ Occurrences(x, outcome.batch) \in Nat
          /\ Occurrences(x, buffer) \in Nat /\ Occurrences(x, deferred) \in Nat
          /\ Occurrences(x, inflight) \in Nat /\ Occurrences(x, source) \in Nat
          /\ Occurrences(x, pendingInput) \in Nat
      BY CountsNat DEF InputInv
    <2>5. QED BY ONLY <2>1, <2>2, <2>3, <2>4 DEF Total
  <1>13. \A m \in Message : Total(m)' = Total(m)
    BY <1>12, MessagesAreEvents
  <1>14. Total("query")' <= Total("query")
    <2>1. Total("query") \in Nat
      BY CountsNat DEF InputInv
    <2>2. Total("query")' = Total("query")
      BY <1>12
    <2>3. QED BY <2>1, <2>2
  <1>15. ToSet(disturbances)' = ToSet(disturbances)
    BY <1>9 DEF ToSet
  <1>16. Counted' /\ Complete'
    BY <1>1, <1>9, <1>10, <1>13, <1>14, <1>15, MoveKeeps DEF InputInv
  <1>17. StateTyped'
    BY <1>1 DEF InputInv, StateTyped, Phases, Modes, Continuations
  <1>18. Places'
    BY <1>1 DEF InputInv, Places
  <1>19. Epochs'
    BY <1>1 DEF InputInv, Epochs, Running
  <1>20. QED BY <1>10, <1>11, <1>16, <1>17, <1>18, <1>19 DEF InputInv

LEMMA SendMessageKeeps ==
  ASSUME InputInv, NEW m \in Message, SendMessage(m)
  PROVE  InputInv'
  <1>1. /\ source' = Append(source, m) /\ sent' = Append(sent, m)
        /\ UNCHANGED <<closed, deferred, pendingInput, buffer, sealed, bufferEpoch, runEpoch,
                       continuation, inflight, phase, mode, single, outcome,
                       consumed, withdrawn, discarded, disturbances>>
    BY DEF SendMessage, bufferVars
  <1>2. source \in Seq(Event) /\ m \in Event /\ sent \in Seq(Message)
    BY MessagesAreEvents DEF InputInv, QueuesTyped, HistoryTyped
  <1>3. m \notin ToSet(sent)
    <2>1. DOMAIN sent = 1 .. Len(sent)
      BY <1>2, LenProperties
    <2>2. QED BY <2>1 DEF SendMessage, Contains, ToSet
  <1>4. source' \in Seq(Event) /\ sent' \in Seq(Message)
    BY <1>1, <1>2, AppendProperties
  <1>5. QueuesTyped'
    BY <1>1, <1>4 DEF InputInv, QueuesTyped
  <1>6. HistoryTyped'
    BY <1>1, <1>4 DEF InputInv, HistoryTyped
  <1>7. ToSet(sent') = ToSet(sent) \cup {m}
    BY <1>1, <1>2, ToSetAppend
  <1>8. ASSUME NEW x
        PROVE  Total(x)' = Total(x) + (IF m = x THEN 1 ELSE 0) /\ Total(x) \in Nat
    <2> DEFINE one == IF m = x THEN 1 ELSE 0
    <2>1. Occurrences(x, source') = Occurrences(x, source) + one /\ one \in Nat
      BY <1>1, <1>2, OccurrencesAppend
    <2>2. /\ Occurrences(x, consumed') = Occurrences(x, consumed)
          /\ Occurrences(x, (outcome.batch)') = Occurrences(x, outcome.batch)
          /\ Occurrences(x, buffer') = Occurrences(x, buffer)
          /\ Occurrences(x, deferred') = Occurrences(x, deferred)
          /\ Occurrences(x, inflight') = Occurrences(x, inflight)
          /\ Occurrences(x, pendingInput') = Occurrences(x, pendingInput)
      BY <1>1
    <2>3. /\ Occurrences(x, consumed) \in Nat /\ Occurrences(x, outcome.batch) \in Nat
          /\ Occurrences(x, buffer) \in Nat /\ Occurrences(x, deferred) \in Nat
          /\ Occurrences(x, inflight) \in Nat /\ Occurrences(x, source) \in Nat
          /\ Occurrences(x, pendingInput) \in Nat
      BY CountsNat DEF InputInv
    <2>4. Total(x)' = Total(x) + one
      <3> HIDE DEF one
      <3>1. QED BY ONLY <2>1, <2>2, <2>3 DEF Total
    <2>5. QED BY <2>4, CountsNat DEF InputInv
  <1>9. Total(m)' = 1 /\ m \notin Gone
    BY <1>3, <1>8 DEF InputInv, Counted
  <1>g. Gone' = Gone
    BY <1>1 DEF Gone
  <1>10. \A x : x # m => Total(x)' = Total(x)
    BY <1>8
  <1>11. Counted'
    <2> SUFFICES ASSUME NEW x \in Message
                 PROVE  /\ Total(x)' <= 1
                        /\ x \in Gone => Total(x)' = 0
                        /\ x \notin ToSet(sent') => Total(x)' = 0 /\ x \notin Gone
      BY <1>1, <1>g DEF Counted
    <2>1. /\ Total(x) <= 1
          /\ x \in Gone => Total(x) = 0
          /\ x \notin ToSet(sent) => Total(x) = 0 /\ x \notin Gone
      BY DEF InputInv, Counted
    <2>2. CASE x = m
      BY <1>7, <1>9, <2>2
    <2>3. CASE x # m
      BY <1>7, <1>10, <2>1, <2>3
    <2>4. QED BY <2>2, <2>3
  <1>12. Complete'
    <2> SUFFICES ASSUME "query" \notin ToSet(disturbances)'
                 PROVE  /\ Total("query")' = 0 /\ phase' # "query"
                        /\ \A x \in ToSet(sent') : x \in Gone \/ Total(x)' = 1
      BY <1>1, <1>g DEF Complete
    <2>1. "query" \notin ToSet(disturbances)
      BY <1>1 DEF ToSet
    <2>2. /\ Total("query") = 0 /\ phase # "query"
          /\ \A x \in ToSet(sent) : x \in Gone \/ Total(x) = 1
      BY <2>1 DEF InputInv, Complete
    <2>3. "query" # m
      BY MessagesAreEvents
    <2>4. Total("query")' = 0 /\ phase' # "query"
      BY <1>1, <1>10, <2>2, <2>3
    <2>5. ASSUME NEW x \in ToSet(sent'), x \notin Gone PROVE Total(x)' = 1
      <3>1. CASE x = m
        <4>1. Total(m)' = 1
          BY <1>9
        <4>2. QED BY <3>1, <4>1
      <3>2. CASE x # m
        <4>1. x \in ToSet(sent)
          BY <1>7, <2>5, <3>2
        <4>2. Total(x) = 1
          BY <2>2, <2>5, <4>1
        <4>3. QED BY <1>10, <3>2, <4>2
      <3>3. QED BY <3>1, <3>2
    <2>6. QED BY <2>4, <2>5
  <1>13. StateTyped'
    BY <1>1 DEF InputInv, StateTyped
  <1>14. Places'
    BY <1>1 DEF InputInv, Places
  <1>15. Epochs'
    BY <1>1 DEF InputInv, Epochs
  <1>16. QED BY <1>5, <1>6, <1>11, <1>12, <1>13, <1>14, <1>15 DEF InputInv

LEMMA SendControlKeeps ==
  ASSUME InputInv, NEW k \in Controls, SendControl(k)
  PROVE  InputInv'
  <1>1. /\ k \in {"withdraw", "command", "query"}
        /\ source' = Append(source, k) /\ disturbances' = Append(disturbances, k)
        /\ UNCHANGED <<closed, deferred, pendingInput, buffer, sealed, bufferEpoch, runEpoch,
                       continuation, inflight, phase, mode, single, outcome,
                       consumed, withdrawn, discarded, sent>>
    BY DEF SendControl, bufferVars
  <1>2. source \in Seq(Event) /\ k \in Event /\ disturbances \in Seq(Controls)
    BY <1>1 DEF InputInv, QueuesTyped, HistoryTyped, Event
  <1>3. source' \in Seq(Event)
    BY <1>1, <1>2, AppendProperties
  <1>4. QueuesTyped'
    BY <1>1, <1>3 DEF InputInv, QueuesTyped
  <1>5. disturbances' \in Seq(Controls) /\ Len(disturbances') <= MaxDisturbances
    BY <1>1, DisturbanceCounted DEF InputInv, SendControl
  <1>6. HistoryTyped'
    BY <1>1, <1>5 DEF InputInv, HistoryTyped
  <1>7. ToSet(disturbances') = ToSet(disturbances) \cup {k}
    BY <1>1, <1>2, ToSetAppend
  <1>8. ASSUME NEW x, x # k PROVE Total(x)' = Total(x) /\ Total(x) \in Nat
    <2>1. Occurrences(x, source') = Occurrences(x, source) + 0
      BY <1>1, <1>2, <1>8, OccurrencesAppend
    <2>2. /\ Occurrences(x, consumed') = Occurrences(x, consumed)
          /\ Occurrences(x, (outcome.batch)') = Occurrences(x, outcome.batch)
          /\ Occurrences(x, buffer') = Occurrences(x, buffer)
          /\ Occurrences(x, deferred') = Occurrences(x, deferred)
          /\ Occurrences(x, inflight') = Occurrences(x, inflight)
          /\ Occurrences(x, pendingInput') = Occurrences(x, pendingInput)
      BY <1>1
    <2>3. /\ Occurrences(x, consumed) \in Nat /\ Occurrences(x, outcome.batch) \in Nat
          /\ Occurrences(x, buffer) \in Nat /\ Occurrences(x, deferred) \in Nat
          /\ Occurrences(x, inflight) \in Nat /\ Occurrences(x, source) \in Nat
          /\ Occurrences(x, pendingInput) \in Nat
      BY CountsNat DEF InputInv
    <2>4. QED BY ONLY <2>1, <2>2, <2>3 DEF Total
  <1>9. \A m \in Message : Total(m)' = Total(m)
    BY <1>1, <1>8, MessagesAreEvents
  <1>10. "query" \notin ToSet(disturbances)' =>
            /\ "query" \notin ToSet(disturbances) /\ Total("query")' <= Total("query")
    <2> HAVE "query" \notin ToSet(disturbances)'
    <2>1. "query" \notin ToSet(disturbances) /\ k # "query"
      BY <1>7
    <2>2. Total("query")' = Total("query") /\ Total("query") \in Nat
      BY <1>8, <2>1
    <2>3. QED BY <2>1, <2>2
  <1>11. Counted' /\ Complete'
    BY <1>1, <1>4, <1>9, <1>10, MoveKeeps DEF InputInv
  <1>12. StateTyped'
    BY <1>1 DEF InputInv, StateTyped
  <1>13. Places'
    BY <1>1 DEF InputInv, Places
  <1>14. Epochs'
    BY <1>1 DEF InputInv, Epochs
  <1>15. QED BY <1>4, <1>6, <1>11, <1>12, <1>13, <1>14 DEF InputInv

(* A launch that fails takes a message from the mailbox and drops it. *)
LEMMA LaunchFailsKeeps == InputInv /\ LaunchFails => InputInv'
  <1> SUFFICES ASSUME InputInv, LaunchFails PROVE InputInv'
    OBVIOUS
  <1>h. PICK h \in Message : h = MailboxHead
    BY DEF LaunchFails
  <1>1. /\ phase = "idle" /\ MailboxHasNext /\ TakeMailboxHead
        /\ "launch" \in Controls /\ Len(disturbances) < MaxDisturbances
        /\ discarded' = discarded \cup {h}
        /\ disturbances' = Append(disturbances, "launch")
        /\ UNCHANGED <<closed, pendingInput, buffer, sealed, bufferEpoch, runEpoch,
                       continuation, inflight, phase, mode, single, outcome, sent, consumed,
                       withdrawn>>
    BY <1>h DEF LaunchFails, bufferVars
  <1>2. deferred' \in Seq(Event) /\ source' \in Seq(Event)
    BY <1>1, MailboxTaken DEF InputInv
  <1>3. QueuesTyped'
    BY <1>1, <1>2 DEF InputInv, QueuesTyped
  <1>4. disturbances' \in Seq(Controls) /\ Len(disturbances') <= MaxDisturbances
    BY <1>1, DisturbanceCounted DEF InputInv
  <1>5. HistoryTyped'
    BY <1>1, <1>4 DEF InputInv, HistoryTyped
  <1>6. ASSUME NEW x
        PROVE  Total(x)' \in Nat /\ Total(x) = Total(x)' + IF h = x THEN 1 ELSE 0
    <2> DEFINE taken == IF h = x THEN 1 ELSE 0
    <2>1. /\ Occurrences(x, deferred') \in Nat /\ Occurrences(x, source') \in Nat
          /\ Occurrences(x, deferred) \in Nat /\ Occurrences(x, source) \in Nat
          /\ Occurrences(x, deferred) + Occurrences(x, source)
               = Occurrences(x, deferred') + Occurrences(x, source') + taken
      BY <1>h, <1>1, MailboxTaken DEF InputInv
    <2>2. /\ Occurrences(x, consumed') = Occurrences(x, consumed)
          /\ Occurrences(x, (outcome.batch)') = Occurrences(x, outcome.batch)
          /\ Occurrences(x, buffer') = Occurrences(x, buffer)
          /\ Occurrences(x, inflight') = Occurrences(x, inflight)
          /\ Occurrences(x, pendingInput') = Occurrences(x, pendingInput)
      BY <1>1
    <2>3. /\ Occurrences(x, consumed) \in Nat /\ Occurrences(x, outcome.batch) \in Nat
          /\ Occurrences(x, buffer) \in Nat /\ Occurrences(x, inflight) \in Nat
          /\ Occurrences(x, pendingInput) \in Nat
      BY CountsNat DEF InputInv
    <2>4. taken \in Nat
      OBVIOUS
    <2> HIDE DEF taken
    <2>5. Total(x)' \in Nat /\ Total(x) = Total(x)' + taken
      BY ONLY <2>1, <2>2, <2>3, <2>4 DEF Total
    <2>6. QED BY <2>5 DEF taken
  <1>7. ToSet(sent)' = ToSet(sent) /\ Gone' = Gone \cup {h}
    BY <1>1 DEF ToSet, Gone
  <1>8. ToSet(disturbances') = ToSet(disturbances) \cup {"launch"}
    BY <1>1, ToSetAppend DEF InputInv, HistoryTyped
  <1>9. ASSUME NEW x, x # h PROVE Total(x)' = Total(x)
    BY <1>6, <1>9
  <1>10. Total(h) = Total(h)' + 1 /\ Total(h)' \in Nat
    BY <1>6
  <1>11. Total(h) <= 1 /\ (h \notin ToSet(sent) => Total(h) = 0)
    BY <1>1 DEF InputInv, Counted
  <1>12. Total(h)' = 0 /\ h \in ToSet(sent)
    <2> HIDE DEF Total
    <2>1. QED BY <1>10, <1>11
  <1>13. Counted'
    <2> SUFFICES ASSUME NEW x \in Message
                 PROVE  /\ Total(x)' <= 1
                        /\ x \in Gone' => Total(x)' = 0
                        /\ x \notin ToSet(sent) => Total(x)' = 0 /\ x \notin Gone'
      BY <1>7 DEF Counted
    <2>1. CASE x = h
      <3>1. Total(x)' = 0
        BY <1>12, <2>1
      <3>2. QED BY <1>12, <2>1, <3>1
    <2>2. CASE x # h
      <3>1. Total(x)' = Total(x)
        BY <1>9, <2>2
      <3>2. /\ Total(x) <= 1
            /\ x \in Gone => Total(x) = 0
            /\ x \notin ToSet(sent) => Total(x) = 0 /\ x \notin Gone
        BY DEF InputInv, Counted
      <3>3. QED BY <1>7, <2>2, <3>1, <3>2
    <2>3. QED BY <2>1, <2>2
  <1>14. Complete'
    <2> SUFFICES ASSUME "query" \notin ToSet(disturbances)'
                 PROVE  /\ Total("query")' = 0 /\ phase' # "query"
                        /\ \A x \in ToSet(sent) : x \in Gone' \/ Total(x)' = 1
      BY <1>7 DEF Complete
    <2>1. /\ Total("query") = 0 /\ phase # "query"
          /\ \A x \in ToSet(sent) : x \in Gone \/ Total(x) = 1
      BY <1>8 DEF InputInv, Complete
    <2>2. "query" # h
      BY <1>1, MessagesAreEvents
    <2>3. Total("query")' = 0 /\ phase' # "query"
      BY <1>1, <1>9, <2>1, <2>2
    <2>4. ASSUME NEW x \in ToSet(sent), x \notin Gone' PROVE Total(x)' = 1
      <3>1. x # h /\ x \notin Gone
        BY <1>7, <2>4
      <3>2. Total(x) = 1
        BY <2>1, <3>1
      <3>3. QED BY <1>9, <3>1, <3>2
    <2>5. QED BY <2>3, <2>4
  <1>15. StateTyped'
    BY <1>1 DEF InputInv, StateTyped
  <1>16. Places'
    BY <1>1 DEF InputInv, Places
  <1>17. Epochs'
    BY <1>1 DEF InputInv, Epochs, Running
  <1>18. QED BY <1>3, <1>5, <1>13, <1>14, <1>15, <1>16, <1>17 DEF InputInv

LEMMA NextKeeps == InputInv /\ [InputNext]_inputVars => InputInv'
  <1> SUFFICES ASSUME InputInv, [InputNext]_inputVars PROVE InputInv'
    OBVIOUS
  <1>1. CASE User
    <2>1. ASSUME NEW m \in Message, SendMessage(m) PROVE InputInv'
      BY <2>1, SendMessageKeeps
    <2>2. ASSUME NEW k \in Controls, SendControl(k) PROVE InputInv'
      BY <2>2, SendControlKeeps
    <2>3. QED BY <1>1, <2>1, <2>2, CloseChannelKeeps, CancelStepKeeps, InterruptKeeps
            DEF User
  <1>2. CASE Engine
    <2>1. CASE IdleStartsConversation \/ IdleStartsManualRun \/ IdleHandlesControl
                  \/ IdleShutsDown
      BY <2>1, ConversationKeeps, ManualRunKeeps, HandlesControlKeeps, ShutsDownKeeps
    <2>2. ASSUME NEW m \in {"drain", "await"}, Collect(m) PROVE InputInv'
      BY <2>2, CollectKeeps
    <2>3. CASE AdmitNext \/ BeginQuery \/ FinishQuery \/ ResponseCollected
      BY <2>3, AdmitNextKeeps, BeginQueryKeeps, FinishQueryKeeps, ResponseCollectedKeeps
    <2>4. CASE TakeInternalContinuation \/ DrainOrSeal \/ TryDrainUnsealed
                  \/ ParkedReceives \/ ParkedSeesClosed
      BY <2>4, TakeInternalContinuationKeeps, DrainOrSealKeeps, TryDrainUnsealedKeeps,
         ParkedReceivesKeeps, ParkedSeesClosedKeeps
    <2>5. CASE EngineDefers \/ EngineBeginsStep \/ EngineExits \/ StepEnds
                  \/ DrainRemainingEvents
      BY <2>5, EngineTakesBatch, EngineExitsKeeps, StepEndsKeeps, DrainRemainingKeeps
    <2>6. QED BY <1>2, <2>1, <2>2, <2>3, <2>4, <2>5 DEF Engine
  <1>3. CASE IdleStartsWakeupRun \/ LaunchFails \/ PumpWhileInvoking \/ InteractionAnswered
    BY <1>3, WakeupRunKeeps, LaunchFailsKeeps, PumpKeeps, AnsweredKeeps
  <1>4. CASE Collect("response")
    BY <1>4, CollectKeeps
  <1>5. CASE UNCHANGED inputVars
    <2>1. /\ UNCHANGED <<source, deferred, pendingInput, buffer, inflight, historyVars>>
          /\ UNCHANGED <<closed, sealed, bufferEpoch, runEpoch, continuation, phase, mode,
                         single, outcome>>
      BY <1>5 DEF inputVars, mailboxVars, bufferVars
    <2>2. QueuesTyped' /\ HistoryTyped' /\ Counted' /\ Complete'
      BY <2>1, QuietKeeps
    <2>3. StateTyped'
      BY <2>1 DEF InputInv, StateTyped
    <2>4. Places'
      BY <2>1 DEF InputInv, Places
    <2>5. Epochs'
      BY <2>1 DEF InputInv, Epochs
    <2>6. QED BY <2>2, <2>3, <2>4, <2>5 DEF InputInv
  <1>6. QED BY <1>1, <1>2, <1>3, <1>4, <1>5 DEF InputNext, Done
-----------------------------------------------------------------------------
(* The count is the number of places of the pipeline and the queued        *)
(* commands that hold the message.                                         *)
LEMMA PipelineTotal ==
  ASSUME QueuesTyped, NEW e
  PROVE  Occurrences(e, Pipeline \o pendingInput) = Total(e)
  <1> DEFINE q1 == consumed \o outcome.batch
             q2 == q1 \o buffer
             q3 == q2 \o deferred
             q4 == q3 \o inflight
  <1>1. /\ consumed \in Seq(Event) /\ outcome.batch \in Seq(Event) /\ buffer \in Seq(Event)
        /\ deferred \in Seq(Event) /\ inflight \in Seq(Event) /\ source \in Seq(Event)
        /\ pendingInput \in Seq(Event)
    BY MessagesAreEvents DEF QueuesTyped
  <1>2. /\ q1 \in Seq(Event)
        /\ Occurrences(e, q1) = Occurrences(e, consumed) + Occurrences(e, outcome.batch)
    BY <1>1, ConcatProperties, OccurrencesConcat
  <1> HIDE DEF q1
  <1>3. q2 \in Seq(Event) /\ Occurrences(e, q2) = Occurrences(e, q1) + Occurrences(e, buffer)
    BY <1>1, <1>2, ConcatProperties, OccurrencesConcat
  <1> HIDE DEF q2
  <1>4. q3 \in Seq(Event) /\ Occurrences(e, q3) = Occurrences(e, q2) + Occurrences(e, deferred)
    BY <1>1, <1>3, ConcatProperties, OccurrencesConcat
  <1> HIDE DEF q3
  <1>5. q4 \in Seq(Event) /\ Occurrences(e, q4) = Occurrences(e, q3) + Occurrences(e, inflight)
    BY <1>1, <1>4, ConcatProperties, OccurrencesConcat
  <1> HIDE DEF q4
  <1>6. /\ Pipeline \in Seq(Event)
        /\ Occurrences(e, Pipeline) = Occurrences(e, q4) + Occurrences(e, source)
    <2>1. Pipeline = q4 \o source
      BY DEF Pipeline, q1, q2, q3, q4
    <2>2. QED BY <1>1, <1>5, <2>1, ConcatProperties, OccurrencesConcat
  <1>7. Occurrences(e, Pipeline \o pendingInput)
           = Occurrences(e, Pipeline) + Occurrences(e, pendingInput)
    BY <1>1, <1>6, OccurrencesConcat
  <1>8. QED BY ONLY <1>2, <1>3, <1>4, <1>5, <1>6, <1>7 DEF Total

LEMMA InvImpliesInputOK == InputInv => InputOK
  <1> SUFFICES ASSUME InputInv PROVE InputOK
    OBVIOUS
  <1>1. InputTypeOK
    BY DEF InputInv, QueuesTyped, HistoryTyped, StateTyped, InputTypeOK, Phases, Modes
  <1>2. SealedMeansEmpty
    BY DEF InputInv, Epochs, SealedMeansEmpty
  <1>3. EpochsAgree
    BY DEF InputInv, Epochs, Running, EpochsAgree
  <1>4. QED BY <1>1, <1>2, <1>3 DEF InputOK

(* A session that is idle has no commands of a run left, and shuts down     *)
(* only when the channel is closed and the mailbox empty.                   *)
ShutdownOK ==
    /\ phase \in {"idle", "shutdown"} => pendingInput = <<>>
    /\ phase = "shutdown" => closed /\ source = <<>> /\ deferred = <<>>

LEMMA ShutdownStep ==
  ASSUME ShutdownOK, phase' = "shutdown" => phase = "shutdown",
         phase' = "idle" => phase = "idle" /\ pendingInput' = pendingInput,
         phase = "shutdown" => UNCHANGED <<source, closed, deferred, pendingInput>>
  PROVE  ShutdownOK'
  BY DEF ShutdownOK

LEMMA ShutdownKeeps == InputInv /\ ShutdownOK /\ [InputNext]_inputVars => ShutdownOK'
  <1> SUFFICES ASSUME InputInv, ShutdownOK, [InputNext]_inputVars
               PROVE  ShutdownOK'
    OBVIOUS
  <1> USE DEF mailboxVars
  <1>1. CASE UNCHANGED inputVars
    BY <1>1 DEF inputVars, ShutdownOK
  <1>2. CASE User
    <2>1. UNCHANGED pendingInput
      BY <1>2 DEF User, SendMessage, SendControl, CloseChannel, CancelStep, Interrupt
    <2>2. phase' \in {"idle", "shutdown"} => phase' = phase
      BY <1>2 DEF User, SendMessage, SendControl, CloseChannel, CancelStep, Interrupt
    <2>3. phase = "shutdown" => UNCHANGED <<source, closed, deferred>>
      BY <1>2 DEF User, SendMessage, SendControl, CloseChannel, CancelStep, Interrupt, ShutdownOK
    <2>4. QED BY <2>1, <2>2, <2>3, ShutdownStep
  <1>3. CASE IdleShutsDown
    <2>1. deferred = <<>> /\ source = <<>>
      <3>1. deferred \o source = <<>> BY <1>3 DEF IdleShutsDown, MailboxHasNext
      <3>2. QED BY <3>1 DEF InputInv, QueuesTyped
    <2>2. QED BY <1>3, <2>1 DEF IdleShutsDown, ShutdownOK
  <1>4. CASE DrainRemainingEvents
    BY <1>4 DEF DrainRemainingEvents, ShutdownOK
  <1>5. CASE IdleHandlesControl \/ LaunchFails
    BY <1>5, ShutdownStep DEF IdleHandlesControl, LaunchFails
  <1>6. CASE IdleStartsConversation \/ IdleStartsManualRun \/ IdleStartsWakeupRun
    BY <1>6, ShutdownStep DEF IdleStartsConversation, IdleStartsManualRun,
       IdleStartsWakeupRun, FreshRun
  <1>7. ASSUME phase \notin {"idle", "shutdown"}, phase' \notin {"idle", "shutdown"}
        PROVE  ShutdownOK'
    BY <1>7, ShutdownStep
  <1>8. CASE \E m \in {"drain", "await", "response"} : Collect(m)
    BY <1>7, <1>8 DEF Collect
  <1>9. CASE AdmitNext \/ BeginQuery \/ FinishQuery \/ ResponseCollected \/ StepEnds
             \/ PumpWhileInvoking \/ InteractionAnswered
    BY <1>7, <1>9 DEF AdmitNext, BeginQuery, FinishQuery, ResponseCollected, Collected,
       StepEnds, PumpWhileInvoking, InteractionAnswered
  <1>10. CASE TakeInternalContinuation \/ DrainOrSeal \/ TryDrainUnsealed
    BY <1>7, <1>10 DEF TakeInternalContinuation, DrainOrSeal, TryDrainUnsealed, Collected,
       DrainUserInputs
  <1>11. CASE ParkedReceives \/ ParkedSeesClosed
    BY <1>7, <1>11 DEF ParkedReceives, ParkedSeesClosed, DrainUserInputs
  <1>12. CASE EngineDefers \/ EngineBeginsStep \/ EngineExits
    BY <1>7, <1>12 DEF EngineDefers, EngineBeginsStep, EngineExits, EngineHandles
  <1>13. QED
    BY <1>1, <1>2, <1>3, <1>4, <1>5, <1>6, <1>8, <1>9, <1>10, <1>11, <1>12
       DEF InputNext, Engine, Done
-----------------------------------------------------------------------------
(***************************************************************************)
(* The order of the messages.  A queue is in order when nothing in it was  *)
(* sent before what stands in front of it, skill requests excepted, and    *)
(* the pipeline is in order when its queues are and each of them follows   *)
(* the ones in front.  Every action takes events out, or moves them on     *)
(* past queues that are empty at that moment (OrderPlaces says which).     *)
(***************************************************************************)

PlaceIn(s, m) == CHOOSE i \in 1 .. Len(s) : s[i] = m

Follows(s, x, y) ==
    x \in Message /\ y \in Message => PlaceIn(s, x) <= PlaceIn(s, y) \/ y \in Skills

AllFollow(s, A, B) == \A x \in A, y \in B : Follows(s, x, y)

InOrder(s, q) == \A i, j \in DOMAIN q : i < j => Follows(s, q[i], q[j])

(* The queues of the pipeline: consumed, batch, buffer, deferred, inflight, source. *)
Chain(s, c, b, u, d, f, o) ==
    /\ InOrder(s, c)
    /\ InOrder(s, b)
    /\ InOrder(s, u)
    /\ InOrder(s, d)
    /\ InOrder(s, f)
    /\ InOrder(s, o)
    /\ AllFollow(s, ToSet(c), ToSet(b) \cup ToSet(u) \cup ToSet(d) \cup ToSet(f) \cup ToSet(o))
    /\ AllFollow(s, ToSet(b), ToSet(u) \cup ToSet(d) \cup ToSet(f) \cup ToSet(o))
    /\ AllFollow(s, ToSet(u), ToSet(d) \cup ToSet(f) \cup ToSet(o))
    /\ AllFollow(s, ToSet(d), ToSet(f) \cup ToSet(o))
    /\ AllFollow(s, ToSet(f), ToSet(o))

(* What the sequence operators do to the members of a queue. *)
LEMMA MembersEmpty == ToSet(<<>>) = {}
  BY DEF ToSet

LEMMA MembersConcat ==
  ASSUME NEW q \in Seq(Event), NEW r \in Seq(Event)
  PROVE  ToSet(q \o r) = ToSet(q) \cup ToSet(r)
  <1>1. /\ Len(q) \in Nat /\ DOMAIN q = 1 .. Len(q)
        /\ Len(r) \in Nat /\ DOMAIN r = 1 .. Len(r)
    BY LenProperties
  <1>2. /\ q \o r \in Seq(Event) /\ Len(q \o r) = Len(q) + Len(r)
        /\ \A i \in 1 .. Len(q) + Len(r) :
              (q \o r)[i] = IF i <= Len(q) THEN q[i] ELSE r[i - Len(q)]
    BY ConcatProperties
  <1>3. DOMAIN (q \o r) = 1 .. Len(q) + Len(r)
    BY <1>2, LenProperties
  <1>4. ASSUME NEW x \in ToSet(q \o r) PROVE x \in ToSet(q) \cup ToSet(r)
    <2>1. PICK i \in 1 .. Len(q) + Len(r) : x = (q \o r)[i] BY <1>3 DEF ToSet
    <2>2. CASE i <= Len(q)
      <3>1. i \in DOMAIN q /\ x = q[i] BY <1>1, <1>2, <2>1, <2>2
      <3>2. QED BY <3>1 DEF ToSet
    <2>3. CASE ~(i <= Len(q))
      <3>1. i - Len(q) \in DOMAIN r /\ x = r[i - Len(q)] BY <1>1, <1>2, <2>1, <2>3
      <3>2. QED BY <3>1 DEF ToSet
    <2>4. QED BY <2>2, <2>3
  <1>5. ASSUME NEW x \in ToSet(q) PROVE x \in ToSet(q \o r)
    <2>1. PICK i \in DOMAIN q : x = q[i] BY <1>5 DEF ToSet
    <2>2. i \in DOMAIN (q \o r) /\ (q \o r)[i] = x BY <1>1, <1>2, <1>3, <2>1
    <2>3. QED BY <2>2 DEF ToSet
  <1>6. ASSUME NEW x \in ToSet(r) PROVE x \in ToSet(q \o r)
    <2>1. PICK i \in DOMAIN r : x = r[i] BY <1>6 DEF ToSet
    <2>2. Len(q) + i \in DOMAIN (q \o r) /\ (q \o r)[Len(q) + i] = x
      BY <1>1, <1>2, <1>3, <2>1
    <2>3. QED BY <2>2 DEF ToSet
  <1>7. QED BY <1>4, <1>5, <1>6

LEMMA MembersOne == ASSUME NEW x PROVE ToSet(<<x>>) = {x}
  <1>1. DOMAIN <<x>> = {1} /\ <<x>>[1] = x OBVIOUS
  <1>2. QED BY <1>1 DEF ToSet

LEMMA MembersHead ==
  ASSUME NEW q \in Seq(Event), q # <<>>
  PROVE  /\ Head(q) \in Event /\ Tail(q) \in Seq(Event)
         /\ ToSet(q) = {Head(q)} \cup ToSet(Tail(q))
  <1>1. Head(q) \in Event /\ Tail(q) \in Seq(Event) BY HeadTailProperties
  <1>2. q = <<Head(q)>> \o Tail(q) /\ <<Head(q)>> \in Seq(Event) BY <1>1
  <1>3. ToSet(<<Head(q)>> \o Tail(q)) = ToSet(<<Head(q)>>) \cup ToSet(Tail(q))
    BY <1>1, <1>2, MembersConcat
  <1>4. QED BY <1>1, <1>2, <1>3, MembersOne

(* And to its order. *)
LEMMA OrderEmpty == ASSUME NEW s PROVE InOrder(s, <<>>)
  BY DEF InOrder

LEMMA OrderOne == ASSUME NEW s, NEW x PROVE InOrder(s, <<x>>)
  <1>1. DOMAIN <<x>> = {1} OBVIOUS
  <1>2. QED BY <1>1 DEF InOrder

LEMMA OrderConcat ==
  ASSUME NEW s, NEW q \in Seq(Event), NEW r \in Seq(Event)
  PROVE  InOrder(s, q \o r) <=>
            InOrder(s, q) /\ InOrder(s, r) /\ AllFollow(s, ToSet(q), ToSet(r))
  <1>1. /\ Len(q) \in Nat /\ DOMAIN q = 1 .. Len(q)
        /\ Len(r) \in Nat /\ DOMAIN r = 1 .. Len(r)
    BY LenProperties
  <1>2. /\ q \o r \in Seq(Event) /\ Len(q \o r) = Len(q) + Len(r)
        /\ \A i \in 1 .. Len(q) + Len(r) :
              (q \o r)[i] = IF i <= Len(q) THEN q[i] ELSE r[i - Len(q)]
    BY ConcatProperties
  <1>3. DOMAIN (q \o r) = 1 .. Len(q) + Len(r)
    BY <1>2, LenProperties
  <1>4. \A i \in DOMAIN q : i \in DOMAIN (q \o r) /\ (q \o r)[i] = q[i]
    BY <1>1, <1>2, <1>3
  <1>5. \A i \in DOMAIN r : Len(q) + i \in DOMAIN (q \o r) /\ (q \o r)[Len(q) + i] = r[i]
    BY <1>1, <1>2, <1>3
  <1>6. ASSUME InOrder(s, q \o r)
        PROVE  InOrder(s, q) /\ InOrder(s, r) /\ AllFollow(s, ToSet(q), ToSet(r))
    <2>1. InOrder(s, q) BY <1>4, <1>6 DEF InOrder
    <2>2. InOrder(s, r)
      <3> SUFFICES ASSUME NEW i \in DOMAIN r, NEW j \in DOMAIN r, i < j
                   PROVE  Follows(s, r[i], r[j])
        BY DEF InOrder
      <3>1. Len(q) + i < Len(q) + j BY <1>1
      <3>2. QED BY <1>5, <1>6, <3>1 DEF InOrder
    <2>3. ASSUME NEW x \in ToSet(q), NEW y \in ToSet(r) PROVE Follows(s, x, y)
      <3>1. PICK i \in DOMAIN q : x = q[i] BY <2>3 DEF ToSet
      <3>2. PICK j \in DOMAIN r : y = r[j] BY <2>3 DEF ToSet
      <3>3. i < Len(q) + j BY <1>1
      <3>4. QED BY <1>4, <1>5, <1>6, <3>1, <3>2, <3>3 DEF InOrder
    <2>4. QED BY <2>1, <2>2, <2>3 DEF AllFollow
  <1>7. ASSUME InOrder(s, q), InOrder(s, r), AllFollow(s, ToSet(q), ToSet(r)),
               NEW i \in DOMAIN (q \o r), NEW j \in DOMAIN (q \o r), i < j
        PROVE  Follows(s, (q \o r)[i], (q \o r)[j])
    <2>1. CASE j <= Len(q)
      <3>1. i \in DOMAIN q /\ j \in DOMAIN q BY <1>1, <1>3, <1>7, <2>1
      <3>2. QED BY <1>4, <1>7, <3>1 DEF InOrder
    <2>2. CASE i <= Len(q) /\ ~(j <= Len(q))
      <3>1. i \in DOMAIN q /\ j - Len(q) \in DOMAIN r BY <1>1, <1>3, <1>7, <2>2
      <3>2. (q \o r)[i] = q[i] /\ (q \o r)[j] = r[j - Len(q)]
        BY <1>1, <1>2, <1>3, <2>2
      <3>3. q[i] \in ToSet(q) /\ r[j - Len(q)] \in ToSet(r) BY <3>1 DEF ToSet
      <3>4. QED BY <1>7, <3>2, <3>3 DEF AllFollow
    <2>3. CASE ~(i <= Len(q))
      <3>1. /\ i - Len(q) \in DOMAIN r /\ j - Len(q) \in DOMAIN r /\ i - Len(q) < j - Len(q)
            /\ ~(j <= Len(q))
        BY <1>1, <1>3, <1>7, <2>3
      <3>2. (q \o r)[i] = r[i - Len(q)] /\ (q \o r)[j] = r[j - Len(q)]
        BY <1>1, <1>2, <1>3, <2>3, <3>1
      <3>3. Follows(s, r[i - Len(q)], r[j - Len(q)]) BY <1>7, <3>1 DEF InOrder
      <3>4. QED BY <3>2, <3>3
    <2>4. QED BY <1>1, <1>3, <1>7, <2>1, <2>2, <2>3
  <1>8. QED BY <1>6, <1>7 DEF InOrder

LEMMA OrderAppend ==
  ASSUME NEW s, NEW q \in Seq(Event), NEW x \in Event
  PROVE  InOrder(s, Append(q, x)) <=> InOrder(s, q) /\ AllFollow(s, ToSet(q), {x})
  <1>1. Append(q, x) = q \o <<x>> /\ <<x>> \in Seq(Event) BY AppendIsConcat
  <1>2. InOrder(s, q \o <<x>>) <=>
            InOrder(s, q) /\ InOrder(s, <<x>>) /\ AllFollow(s, ToSet(q), ToSet(<<x>>))
    BY <1>1, OrderConcat
  <1>3. QED BY <1>1, <1>2, OrderOne, MembersOne

LEMMA OrderHead ==
  ASSUME NEW s, NEW q \in Seq(Event), q # <<>>
  PROVE  InOrder(s, q) <=> InOrder(s, Tail(q)) /\ AllFollow(s, {Head(q)}, ToSet(Tail(q)))
  <1>1. Head(q) \in Event /\ Tail(q) \in Seq(Event) BY HeadTailProperties
  <1>2. q = <<Head(q)>> \o Tail(q) /\ <<Head(q)>> \in Seq(Event) BY <1>1
  <1>3. InOrder(s, <<Head(q)>> \o Tail(q)) <=>
            /\ InOrder(s, <<Head(q)>>)
            /\ InOrder(s, Tail(q))
            /\ AllFollow(s, ToSet(<<Head(q)>>), ToSet(Tail(q)))
    BY <1>1, <1>2, OrderConcat
  <1>4. QED BY <1>2, <1>3, OrderOne, MembersOne

(* Skill requests and controls are in order wherever they stand. *)
LEMMA OrderSkills ==
  ASSUME NEW s, NEW q \in Seq(Event), ToSet(q) \cap Message \subseteq Skills, NEW A
  PROVE  InOrder(s, q) /\ AllFollow(s, A, ToSet(q))
  BY DEF InOrder, AllFollow, Follows, ToSet

(* The queues of the pipeline make one sequence that is in order. *)
LEMMA ChainInOrder ==
  ASSUME NEW s, NEW c \in Seq(Event), NEW b \in Seq(Event), NEW u \in Seq(Event),
         NEW d \in Seq(Event), NEW f \in Seq(Event), NEW o \in Seq(Event),
         Chain(s, c, b, u, d, f, o)
  PROVE  /\ InOrder(s, c \o b \o u \o d \o f \o o)
         /\ ToSet(c \o b \o u \o d \o f \o o) = ToSet(c) \cup ToSet(b) \cup ToSet(u)
               \cup ToSet(d) \cup ToSet(f) \cup ToSet(o)
  <1> DEFINE q1 == c \o b
             q2 == q1 \o u
             q3 == q2 \o d
             q4 == q3 \o f
  <1> USE DEF AllFollow
  <1>1. q1 \in Seq(Event) /\ ToSet(q1) = ToSet(c) \cup ToSet(b) /\ InOrder(s, q1)
    BY ConcatProperties, MembersConcat, OrderConcat DEF Chain
  <1> HIDE DEF q1
  <1>2. q2 \in Seq(Event) /\ ToSet(q2) = ToSet(q1) \cup ToSet(u) /\ InOrder(s, q2)
    <2>1. AllFollow(s, ToSet(q1), ToSet(u)) BY <1>1 DEF Chain
    <2>2. QED BY <1>1, <2>1, ConcatProperties, MembersConcat, OrderConcat DEF Chain
  <1> HIDE DEF q2
  <1>3. q3 \in Seq(Event) /\ ToSet(q3) = ToSet(q2) \cup ToSet(d) /\ InOrder(s, q3)
    <2>1. AllFollow(s, ToSet(q2), ToSet(d)) BY <1>1, <1>2 DEF Chain
    <2>2. QED BY <1>2, <2>1, ConcatProperties, MembersConcat, OrderConcat DEF Chain
  <1> HIDE DEF q3
  <1>4. q4 \in Seq(Event) /\ ToSet(q4) = ToSet(q3) \cup ToSet(f) /\ InOrder(s, q4)
    <2>1. AllFollow(s, ToSet(q3), ToSet(f)) BY <1>1, <1>2, <1>3 DEF Chain
    <2>2. QED BY <1>3, <2>1, ConcatProperties, MembersConcat, OrderConcat DEF Chain
  <1> HIDE DEF q4
  <1>5. InOrder(s, q4 \o o)
    <2>1. AllFollow(s, ToSet(q4), ToSet(o)) BY <1>1, <1>2, <1>3, <1>4 DEF Chain
    <2>2. QED BY <1>4, <2>1, OrderConcat DEF Chain
  <1>6. ToSet(q4 \o o) = ToSet(q4) \cup ToSet(o) BY <1>4, MembersConcat
  <1>7. ToSet(q4 \o o) = ToSet(c) \cup ToSet(b) \cup ToSet(u) \cup ToSet(d) \cup ToSet(f)
            \cup ToSet(o)
    BY <1>1, <1>2, <1>3, <1>4, <1>6
  <1>8. QED BY <1>5, <1>7 DEF q1, q2, q3, q4

(* What the actions do to the pipeline, queue by queue. *)

(* The buffer becomes the batch of a decision. *)
LEMMA ChainDecides ==
  ASSUME NEW s, NEW c, NEW u, NEW d, NEW f, NEW o, Chain(s, c, <<>>, u, d, f, o)
  PROVE  Chain(s, c, u, <<>>, d, f, o)
  BY MembersEmpty, OrderEmpty DEF Chain, AllFollow

(* A step takes the batch. *)
LEMMA ChainConsumes ==
  ASSUME NEW s, NEW c \in Seq(Event), NEW b \in Seq(Event), NEW u, NEW d, NEW f, NEW o,
         Chain(s, c, b, u, d, f, o)
  PROVE  Chain(s, c \o b, <<>>, u, d, f, o)
  <1>1. ToSet(c \o b) = ToSet(c) \cup ToSet(b) BY MembersConcat
  <1>2. InOrder(s, c \o b) BY OrderConcat DEF Chain, AllFollow
  <1>3. QED BY <1>1, <1>2, MembersEmpty, OrderEmpty DEF Chain, AllFollow

(* The batch goes back to a mailbox in which nothing waits. *)
LEMMA ChainDefers ==
  ASSUME NEW s, NEW c, NEW b, NEW f, NEW o, Chain(s, c, b, <<>>, <<>>, f, o)
  PROVE  Chain(s, c, <<>>, <<>>, b, f, o)
  BY MembersEmpty, OrderEmpty DEF Chain, AllFollow

(* A drain takes everything available. *)
LEMMA ChainCollects ==
  ASSUME NEW s, NEW c, NEW b, NEW u, NEW d \in Seq(Event), NEW o \in Seq(Event),
         Chain(s, c, b, u, d, <<>>, o)
  PROVE  Chain(s, c, b, u, <<>>, d \o o, <<>>)
  <1>1. ToSet(d \o o) = ToSet(d) \cup ToSet(o) BY MembersConcat
  <1>2. InOrder(s, d \o o) BY OrderConcat DEF Chain, AllFollow
  <1>3. QED BY <1>1, <1>2, MembersEmpty, OrderEmpty DEF Chain, AllFollow

(* An event that a drain holds leaves the pipeline, or joins the buffer. *)
LEMMA ChainHandles ==
  ASSUME NEW s, NEW c, NEW b, NEW u \in Seq(Event), NEW f \in Seq(Event), f # <<>>, NEW o,
         Chain(s, c, b, u, <<>>, f, o)
  PROVE  /\ Chain(s, c, b, u, <<>>, Tail(f), o)
         /\ Chain(s, c, b, Append(u, Head(f)), <<>>, Tail(f), o)
         /\ AllFollow(s, {Head(f)}, ToSet(o))
  <1>1. Head(f) \in Event /\ ToSet(f) = {Head(f)} \cup ToSet(Tail(f)) BY MembersHead
  <1>2. InOrder(s, Tail(f)) /\ AllFollow(s, {Head(f)}, ToSet(Tail(f)))
    BY OrderHead DEF Chain
  <1>3. ToSet(Append(u, Head(f))) = ToSet(u) \cup {Head(f)} BY <1>1, ToSetAppend
  <1>4. AllFollow(s, ToSet(u), {Head(f)}) BY <1>1 DEF Chain, AllFollow
  <1>5. InOrder(s, Append(u, Head(f))) BY <1>1, <1>4, OrderAppend DEF Chain
  <1>6. QED BY <1>1, <1>2, <1>3, <1>5, MembersEmpty, OrderEmpty DEF Chain, AllFollow

(* The first event of the mailbox leaves the pipeline, or joins the buffer. *)
LEMMA ChainReceives ==
  ASSUME NEW s, NEW c, NEW b, NEW u \in Seq(Event), NEW d \in Seq(Event),
         NEW o \in Seq(Event), d \o o # <<>>, Chain(s, c, b, u, d, <<>>, o)
  PROVE  /\ Chain(s, c, b, u, DeferredRest(d), <<>>, SourceRest(d, o))
         /\ Chain(s, c, b, Append(u, Head(d \o o)), DeferredRest(d), <<>>, SourceRest(d, o))
         /\ AllFollow(s, {Head(d \o o)}, ToSet(SourceRest(d, o)))
         /\ ToSet(SourceRest(d, o)) \subseteq ToSet(o)
  <1> DEFINE h == Head(d \o o)
             d1 == DeferredRest(d)
             o1 == SourceRest(d, o)
  <1>1. /\ h \in Event
        /\ ToSet(d) \cup ToSet(o) = {h} \cup ToSet(d1) \cup ToSet(o1)
        /\ ToSet(o1) \subseteq ToSet(o)
        /\ AllFollow(s, {h}, ToSet(d1) \cup ToSet(o1))
        /\ InOrder(s, d1) /\ InOrder(s, o1) /\ AllFollow(s, ToSet(d1), ToSet(o1))
    <2>1. CASE d = <<>>
      <3>1. d \o o = o /\ o # <<>> /\ d1 = <<>> /\ o1 = Tail(o) /\ h = Head(o)
        BY <2>1 DEF DeferredRest, SourceRest
      <3> HIDE DEF h, d1, o1
      <3>2. Head(o) \in Event /\ ToSet(o) = {Head(o)} \cup ToSet(Tail(o))
        BY <3>1, MembersHead
      <3>3. InOrder(s, Tail(o)) /\ AllFollow(s, {Head(o)}, ToSet(Tail(o)))
        BY <3>1, OrderHead DEF Chain
      <3>4. QED BY <2>1, <3>1, <3>2, <3>3, MembersEmpty, OrderEmpty DEF AllFollow
    <2>2. CASE d # <<>>
      <3>1. d1 = Tail(d) /\ o1 = o BY <2>2 DEF DeferredRest, SourceRest
      <3>2. h = Head(d)
        <4>1. Len(d) \in Nat \ {0} /\ Len(o) \in Nat BY <2>2, EmptySeq, LenProperties
        <4>2. (d \o o)[1] = d[1] BY <4>1, ConcatProperties
        <4>3. QED BY <4>2
      <3> HIDE DEF h, d1, o1
      <3>3. Head(d) \in Event /\ ToSet(d) = {Head(d)} \cup ToSet(Tail(d))
        BY <2>2, MembersHead
      <3>4. InOrder(s, Tail(d)) /\ AllFollow(s, {Head(d)}, ToSet(Tail(d)))
        BY <2>2, OrderHead DEF Chain
      <3>5. AllFollow(s, ToSet(d), ToSet(o)) /\ InOrder(s, o) BY DEF Chain, AllFollow
      <3>6. QED BY <3>1, <3>2, <3>3, <3>4, <3>5 DEF AllFollow
    <2>3. QED BY <2>1, <2>2
  <1> HIDE DEF h, d1, o1
  <1>2. ToSet(Append(u, h)) = ToSet(u) \cup {h} BY <1>1, ToSetAppend
  <1>3. AllFollow(s, ToSet(u), {h}) BY <1>1 DEF Chain, AllFollow
  <1>4. InOrder(s, Append(u, h)) BY <1>1, <1>3, OrderAppend DEF Chain
  <1>5. /\ AllFollow(s, ToSet(c), ToSet(b) \cup ToSet(u) \cup {h} \cup ToSet(d1) \cup ToSet(o1))
        /\ AllFollow(s, ToSet(b), ToSet(u) \cup {h} \cup ToSet(d1) \cup ToSet(o1))
        /\ AllFollow(s, ToSet(u), {h} \cup ToSet(d1) \cup ToSet(o1))
    BY <1>1 DEF Chain, AllFollow
  <1>6. Chain(s, c, b, u, d1, <<>>, o1)
    BY <1>1, <1>5, MembersEmpty, OrderEmpty DEF Chain, AllFollow
  <1>7. Chain(s, c, b, Append(u, h), d1, <<>>, o1)
    BY <1>1, <1>2, <1>4, <1>5, MembersEmpty, OrderEmpty DEF Chain, AllFollow
  <1>8. AllFollow(s, {h}, ToSet(o1)) BY <1>1 DEF AllFollow
  <1>9. QED BY <1>1, <1>6, <1>7, <1>8 DEF h, d1, o1

(* The buffer, or what a drain holds, is dropped. *)
LEMMA ChainDrops ==
  ASSUME NEW s, NEW c, NEW b, NEW u, NEW d, NEW f, NEW o, Chain(s, c, b, u, d, f, o)
  PROVE  Chain(s, c, b, <<>>, d, f, o) /\ Chain(s, c, b, u, d, <<>>, o)
  BY MembersEmpty, OrderEmpty DEF Chain, AllFollow

(* The run ends: its buffer and the commands queued for later go to a      *)
(* mailbox in which nothing was deferred.                                  *)
LEMMA ChainEnds ==
  ASSUME NEW s, NEW c, NEW u \in Seq(Event), NEW r \in Seq(Event), NEW o,
         Chain(s, c, <<>>, u, <<>>, <<>>, o),
         ToSet(r) \cap Message \subseteq Skills, AllFollow(s, ToSet(r), ToSet(o))
  PROVE  Chain(s, c, <<>>, <<>>, u \o r, <<>>, o)
  <1>1. ToSet(u \o r) = ToSet(u) \cup ToSet(r) BY MembersConcat
  <1>2. /\ InOrder(s, r) /\ AllFollow(s, ToSet(c), ToSet(r))
        /\ AllFollow(s, ToSet(u), ToSet(r))
    BY OrderSkills
  <1>3. InOrder(s, u \o r) BY <1>2, OrderConcat DEF Chain
  <1>4. QED BY <1>1, <1>2, <1>3, MembersEmpty, OrderEmpty DEF Chain, AllFollow

(* A control is appended to the channel. *)
LEMMA ChainControls ==
  ASSUME NEW s, NEW c, NEW b, NEW u, NEW d, NEW f, NEW o \in Seq(Event),
         NEW k \in Event, k \notin Message, Chain(s, c, b, u, d, f, o)
  PROVE  Chain(s, c, b, u, d, f, Append(o, k)) /\ ToSet(Append(o, k)) = ToSet(o) \cup {k}
  <1>1. ToSet(Append(o, k)) = ToSet(o) \cup {k} BY ToSetAppend
  <1>2. \A A : AllFollow(s, A, {k}) BY DEF AllFollow, Follows
  <1>3. InOrder(s, Append(o, k)) BY <1>2, OrderAppend DEF Chain
  <1>4. QED BY <1>1, <1>2, <1>3 DEF Chain, AllFollow

(* Messages are sent once; so a message that is sent comes last, and the   *)
(* places of the others stay.                                              *)
Once(s) == \A i, j \in DOMAIN s : s[i] = s[j] => i = j

LEMMA OncePlace ==
  ASSUME NEW s \in Seq(Message), Once(s), NEW i \in DOMAIN s
  PROVE  PlaceIn(s, s[i]) = i
  <1>1. DOMAIN s = 1 .. Len(s) BY LenProperties
  <1>2. \E k \in 1 .. Len(s) : s[k] = s[i] BY <1>1
  <1>3. PlaceIn(s, s[i]) \in 1 .. Len(s) /\ s[PlaceIn(s, s[i])] = s[i]
    BY <1>2 DEF PlaceIn
  <1>4. QED BY <1>1, <1>3 DEF Once

LEMMA OnceAppend ==
  ASSUME NEW s \in Seq(Message), Once(s), NEW m \in Message, m \notin ToSet(s)
  PROVE  /\ Once(Append(s, m))
         /\ \A x \in ToSet(s) : PlaceIn(Append(s, m), x) = PlaceIn(s, x)
         /\ \A x \in ToSet(s) : PlaceIn(Append(s, m), x) <= PlaceIn(Append(s, m), m)
  <1> DEFINE t == Append(s, m)
  <1>1. /\ Len(s) \in Nat /\ DOMAIN s = 1 .. Len(s)
        /\ t \in Seq(Message) /\ DOMAIN t = 1 .. Len(s) + 1
        /\ \A i \in 1 .. Len(s) : t[i] = s[i]
        /\ t[Len(s) + 1] = m
    BY AppendProperties, LenProperties
  <1>2. \A i \in 1 .. Len(s) : s[i] # m BY <1>1 DEF ToSet
  <1>3. Once(t)
    <2> SUFFICES ASSUME NEW i \in DOMAIN t, NEW j \in DOMAIN t, t[i] = t[j] PROVE i = j
      BY DEF Once
    <2>1. CASE i \in 1 .. Len(s) /\ j \in 1 .. Len(s) BY <1>1, <2>1 DEF Once
    <2>2. CASE i \notin 1 .. Len(s)
      <3>1. i = Len(s) + 1 BY <1>1, <2>2
      <3>2. j \notin 1 .. Len(s) BY <1>1, <1>2, <3>1
      <3>3. QED BY <1>1, <3>1, <3>2
    <2>3. CASE j \notin 1 .. Len(s)
      <3>1. j = Len(s) + 1 BY <1>1, <2>3
      <3>2. i \notin 1 .. Len(s) BY <1>1, <1>2, <3>1
      <3>3. QED BY <1>1, <3>1, <3>2
    <2>4. QED BY <2>1, <2>2, <2>3
  <1> HIDE DEF t
  <1>4. PlaceIn(t, t[Len(s) + 1]) = Len(s) + 1
    <2>1. Len(s) + 1 \in DOMAIN t BY <1>1
    <2>2. QED BY <1>1, <1>3, <2>1, OncePlace
  <1>5. ASSUME NEW x \in ToSet(s)
        PROVE  PlaceIn(t, x) = PlaceIn(s, x) /\ PlaceIn(t, x) <= PlaceIn(t, m)
    <2>1. PICK i \in DOMAIN s : x = s[i] BY DEF ToSet
    <2>2. i \in DOMAIN t /\ t[i] = x BY <1>1, <2>1
    <2>3. PlaceIn(s, s[i]) = i BY OncePlace
    <2>4. PlaceIn(t, t[i]) = i BY <1>1, <1>3, <2>2, OncePlace
    <2>5. QED BY <1>1, <1>4, <2>1, <2>2, <2>3, <2>4
  <1>6. QED BY <1>3, <1>5 DEF t

(* The messages among the members of a queue have been sent. *)
AreSent(s, A) == A \cap Message \subseteq ToSet(s)

LEMMA FollowsSent ==
  ASSUME NEW s \in Seq(Message), Once(s), NEW m \in Message, m \notin ToSet(s)
  PROVE  /\ \A A, B : AreSent(s, A) /\ AreSent(s, B) /\ AllFollow(s, A, B)
                => AllFollow(Append(s, m), A, B)
         /\ \A A : AreSent(s, A) => AllFollow(Append(s, m), A, {m})
         /\ \A q : AreSent(s, ToSet(q)) /\ InOrder(s, q) => InOrder(Append(s, m), q)
  <1>1. /\ \A x \in ToSet(s) : PlaceIn(Append(s, m), x) = PlaceIn(s, x)
        /\ \A x \in ToSet(s) : PlaceIn(Append(s, m), x) <= PlaceIn(Append(s, m), m)
    BY OnceAppend
  <1>2. ASSUME NEW x, NEW y, x \in Message => x \in ToSet(s), y \in Message => y \in ToSet(s),
               Follows(s, x, y)
        PROVE  Follows(Append(s, m), x, y)
    BY <1>1, <1>2 DEF Follows
  <1>3. ASSUME NEW A, NEW B, AreSent(s, A), AreSent(s, B), AllFollow(s, A, B),
               NEW x \in A, NEW y \in B
        PROVE  Follows(Append(s, m), x, y)
    BY <1>2, <1>3 DEF AreSent, AllFollow
  <1>4. ASSUME NEW A, AreSent(s, A), NEW x \in A PROVE Follows(Append(s, m), x, m)
    BY <1>1, <1>4 DEF AreSent, Follows
  <1>5. ASSUME NEW q, AreSent(s, ToSet(q)), InOrder(s, q), NEW i \in DOMAIN q,
               NEW j \in DOMAIN q, i < j
        PROVE  Follows(Append(s, m), q[i], q[j])
    <2>1. q[i] \in ToSet(q) /\ q[j] \in ToSet(q) BY DEF ToSet
    <2>2. Follows(s, q[i], q[j]) BY <1>5 DEF InOrder
    <2>3. QED BY <1>2, <1>5, <2>1, <2>2 DEF AreSent
  <1>6. QED BY <1>3, <1>4, <1>5 DEF AllFollow, InOrder

LEMMA ChainSends ==
  ASSUME NEW s \in Seq(Message), Once(s), NEW m \in Message, m \notin ToSet(s),
         NEW c, NEW b, NEW u, NEW d, NEW f, NEW o \in Seq(Event),
         AreSent(s, ToSet(c)), AreSent(s, ToSet(b)), AreSent(s, ToSet(u)),
         AreSent(s, ToSet(d)), AreSent(s, ToSet(f)), AreSent(s, ToSet(o)),
         Chain(s, c, b, u, d, f, o)
  PROVE  Chain(Append(s, m), c, b, u, d, f, Append(o, m))
  <1> DEFINE t == Append(s, m)
  <1>1. /\ \A A, B : AreSent(s, A) /\ AreSent(s, B) /\ AllFollow(s, A, B) => AllFollow(t, A, B)
        /\ \A A : AreSent(s, A) => AllFollow(t, A, {m})
        /\ \A q : AreSent(s, ToSet(q)) /\ InOrder(s, q) => InOrder(t, q)
    BY FollowsSent
  <1> HIDE DEF t
  <1>2. m \in Event BY MessagesAreEvents
  <1>3. ToSet(Append(o, m)) = ToSet(o) \cup {m} BY <1>2, ToSetAppend
  <1>4. /\ InOrder(t, c) /\ InOrder(t, b) /\ InOrder(t, u)
        /\ InOrder(t, d) /\ InOrder(t, f) /\ InOrder(t, o)
    BY <1>1 DEF Chain
  <1>5. AllFollow(t, ToSet(o), {m}) BY <1>1
  <1>6. InOrder(t, Append(o, m)) BY <1>2, <1>4, <1>5, OrderAppend
  <1>7. /\ AllFollow(t, ToSet(c), {m}) /\ AllFollow(t, ToSet(b), {m})
        /\ AllFollow(t, ToSet(u), {m}) /\ AllFollow(t, ToSet(d), {m})
        /\ AllFollow(t, ToSet(f), {m})
    BY <1>1
  <1>8. AllFollow(t, ToSet(c), ToSet(b) \cup ToSet(u) \cup ToSet(d) \cup ToSet(f) \cup ToSet(o))
    <2>1. AreSent(s, ToSet(b) \cup ToSet(u) \cup ToSet(d) \cup ToSet(f) \cup ToSet(o))
      BY DEF AreSent
    <2>2. QED BY <1>1, <2>1 DEF Chain
  <1>9. AllFollow(t, ToSet(b), ToSet(u) \cup ToSet(d) \cup ToSet(f) \cup ToSet(o))
    <2>1. AreSent(s, ToSet(u) \cup ToSet(d) \cup ToSet(f) \cup ToSet(o)) BY DEF AreSent
    <2>2. QED BY <1>1, <2>1 DEF Chain
  <1>10. AllFollow(t, ToSet(u), ToSet(d) \cup ToSet(f) \cup ToSet(o))
    <2>1. AreSent(s, ToSet(d) \cup ToSet(f) \cup ToSet(o)) BY DEF AreSent
    <2>2. QED BY <1>1, <2>1 DEF Chain
  <1>11. AllFollow(t, ToSet(d), ToSet(f) \cup ToSet(o))
    <2>1. AreSent(s, ToSet(f) \cup ToSet(o)) BY DEF AreSent
    <2>2. QED BY <1>1, <2>1 DEF Chain
  <1>12. AllFollow(t, ToSet(f), ToSet(o)) BY <1>1 DEF Chain
  <1>13. Chain(t, c, b, u, d, f, Append(o, m))
    BY <1>3, <1>4, <1>6, <1>7, <1>8, <1>9, <1>10, <1>11, <1>12 DEF Chain, AllFollow
  <1>14. QED BY <1>13 DEF t
-----------------------------------------------------------------------------
(* Which queues are empty when events are moved past them.  Commands that   *)
(* wait for the session hold no message but skill requests.                 *)
OrderPlaces ==
    /\ phase \in {"collect", "query", "parked", "decided"} => deferred = <<>>
    /\ outcome.batch # <<>> => buffer = <<>>
    /\ ToSet(pendingInput) \cap Message \subseteq Skills

Undisturbed == "interrupt" \notin ToSet(disturbances)

(* Without interrupts the pipeline is in order, no event in the channel is  *)
(* older than a queued skill request, and nothing is deferred when a run    *)
(* hands back what it did not use.                                          *)
PipelineInOrder ==
    /\ phase = "ended" => deferred = <<>>
    /\ AllFollow(sent, ToSet(pendingInput), ToSet(source))
    /\ Chain(sent, consumed, outcome.batch, buffer, deferred, inflight, source)

OrderInv == Once(sent) /\ OrderPlaces /\ (Undisturbed => PipelineInOrder)

LEMMA QueuesHoldEvents ==
  ASSUME QueuesTyped
  PROVE  /\ consumed \in Seq(Event) /\ outcome.batch \in Seq(Event) /\ buffer \in Seq(Event)
         /\ deferred \in Seq(Event) /\ inflight \in Seq(Event) /\ source \in Seq(Event)
         /\ pendingInput \in Seq(Event)
  BY MessagesAreEvents DEF QueuesTyped

(* The messages in the queues have been sent. *)
LEMMA QueuesSent ==
  ASSUME InputInv
  PROVE  /\ AreSent(sent, ToSet(consumed)) /\ AreSent(sent, ToSet(outcome.batch))
         /\ AreSent(sent, ToSet(buffer)) /\ AreSent(sent, ToSet(deferred))
         /\ AreSent(sent, ToSet(inflight)) /\ AreSent(sent, ToSet(source))
         /\ AreSent(sent, ToSet(pendingInput))
  <1>1. ASSUME NEW m, m \in Message, m \notin ToSet(sent)
        PROVE  /\ Occurrences(m, consumed) = 0 /\ Occurrences(m, outcome.batch) = 0
               /\ Occurrences(m, buffer) = 0 /\ Occurrences(m, deferred) = 0
               /\ Occurrences(m, inflight) = 0 /\ Occurrences(m, source) = 0
               /\ Occurrences(m, pendingInput) = 0
    <2>1. Total(m) = 0 BY <1>1 DEF InputInv, Counted
    <2>2. /\ Occurrences(m, consumed) \in Nat /\ Occurrences(m, outcome.batch) \in Nat
          /\ Occurrences(m, buffer) \in Nat /\ Occurrences(m, deferred) \in Nat
          /\ Occurrences(m, inflight) \in Nat /\ Occurrences(m, source) \in Nat
          /\ Occurrences(m, pendingInput) \in Nat
      BY CountsNat DEF InputInv
    <2> DEFINE n1 == Occurrences(m, consumed)
               n2 == Occurrences(m, outcome.batch)
               n3 == Occurrences(m, buffer)
               n4 == Occurrences(m, deferred)
               n5 == Occurrences(m, inflight)
               n6 == Occurrences(m, source)
               n7 == Occurrences(m, pendingInput)
    <2>3. n1 + n2 + n3 + n4 + n5 + n6 + n7 = 0 BY <2>1 DEF Total
    <2> HIDE DEF n1, n2, n3, n4, n5, n6, n7
    <2>4. /\ n1 \in Nat /\ n2 \in Nat /\ n3 \in Nat /\ n4 \in Nat /\ n5 \in Nat
          /\ n6 \in Nat /\ n7 \in Nat
      BY <2>2 DEF n1, n2, n3, n4, n5, n6, n7
    <2>5. n1 = 0 /\ n2 = 0 /\ n3 = 0 /\ n4 = 0 /\ n5 = 0 /\ n6 = 0 /\ n7 = 0
      BY ONLY <2>3, <2>4
    <2>6. QED BY <2>5 DEF n1, n2, n3, n4, n5, n6, n7
  <1>2. /\ consumed \in Seq(Event) /\ outcome.batch \in Seq(Event) /\ buffer \in Seq(Event)
        /\ deferred \in Seq(Event) /\ inflight \in Seq(Event) /\ source \in Seq(Event)
        /\ pendingInput \in Seq(Event)
    BY QueuesHoldEvents DEF InputInv
  <1>3. ASSUME NEW q \in Seq(Event),
               \A m \in Message : m \notin ToSet(sent) => Occurrences(m, q) = 0
        PROVE  AreSent(sent, ToSet(q))
    <2> SUFFICES ASSUME NEW m \in ToSet(q), m \in Message, m \notin ToSet(sent) PROVE FALSE
      BY DEF AreSent
    <2>1. Occurrences(m, q) > 0 BY OccurrencesMember
    <2>2. Occurrences(m, q) = 0 BY <1>3
    <2>3. QED BY <2>1, <2>2
  <1>4. QED BY <1>1, <1>2, <1>3

(* A step that sends nothing and disturbs nothing keeps the invariant when  *)
(* it keeps the places and the order.                                       *)
LEMMA OrderStep ==
  ASSUME OrderInv, sent' = sent, disturbances' = disturbances, OrderPlaces',
         Undisturbed /\ PipelineInOrder => PipelineInOrder'
  PROVE  OrderInv'
  BY DEF OrderInv, Undisturbed

(* Steps that move no event. *)
LEMMA QuietOrder ==
  ASSUME InputInv, OrderInv,
         \/ CloseChannel \/ IdleShutsDown \/ IdleStartsWakeupRun \/ FinishQuery
         \/ ResponseCollected \/ ParkedSeesClosed \/ EngineExits \/ StepEnds
         \/ UNCHANGED inputVars
  PROVE  OrderInv'
  <1> USE DEF CloseChannel, IdleShutsDown, IdleStartsWakeupRun, FinishQuery,
         ResponseCollected, ParkedSeesClosed, EngineExits, StepEnds, EngineHandles, FreshRun
  <1> USE DEF inputVars, mailboxVars, bufferVars, historyVars
  <1>1. /\ UNCHANGED <<source, deferred, pendingInput, inflight, sent, consumed,
                       disturbances>>
    OBVIOUS
  <1>2. buffer' = buffer
    BY DEF InputInv, Places
  <1>3. (outcome.batch)' = outcome.batch
    BY DEF InputInv, Places, NoOutcome, Outcome
  <1>4. phase' \in {"collect", "query", "parked", "decided", "ended"} =>
            deferred = <<>> \/ phase' = phase
    BY DEF OrderInv, OrderPlaces, Collected
  <1>5. OrderPlaces' BY <1>1, <1>2, <1>3, <1>4 DEF OrderInv, OrderPlaces
  <1>6. PipelineInOrder => PipelineInOrder' BY <1>1, <1>2, <1>3, <1>4 DEF PipelineInOrder
  <1>7. QED BY <1>1, <1>5, <1>6, OrderStep

(* The decision at the end of a drain: the buffer is the batch, or stays. *)
LEMMA DecisionOrder ==
  ASSUME InputInv, OrderInv, TakeInternalContinuation \/ DrainOrSeal \/ TryDrainUnsealed
  PROVE  OrderInv'
  <1>1. UNCHANGED <<source, deferred, pendingInput, inflight, sent, consumed, disturbances>>
        /\ phase = "collect" /\ phase' \in {"decided", "parked"}
    BY DEF TakeInternalContinuation, DrainOrSeal, TryDrainUnsealed, DrainUserInputs, Collected,
       mailboxVars, historyVars
  <1>2. outcome.batch = <<>> /\ ~Refused /\ deferred = <<>>
    BY <1>1 DEF InputInv, Places, Epochs, Running, Refused, OrderInv, OrderPlaces
  <1>3. \/ (outcome.batch)' = buffer /\ buffer' = <<>>
        \/ buffer' = buffer /\ outcome' = outcome
    <2>1. CASE \E kind : DrainUserInputs(kind, buffer)
      BY <1>2, <2>1 DEF DrainUserInputs, Refused, Outcome
    <2>2. CASE TryDrainUnsealed /\ UNCHANGED <<bufferVars, outcome>>
      BY <2>2 DEF bufferVars
    <2>3. QED BY <2>1, <2>2 DEF TakeInternalContinuation, DrainOrSeal, TryDrainUnsealed
  <1>4. OrderPlaces' BY <1>1, <1>2, <1>3 DEF OrderInv, OrderPlaces
  <1>5. ASSUME PipelineInOrder PROVE PipelineInOrder'
    <2>1. Chain(sent, consumed, <<>>, buffer, deferred, inflight, source)
      BY <1>2, <1>5 DEF PipelineInOrder
    <2>2. Chain(sent, consumed, buffer, <<>>, deferred, inflight, source)
      BY <2>1, ChainDecides
    <2>3. Chain(sent, consumed, outcome.batch, buffer, deferred, inflight, source)'
      BY <1>1, <1>2, <1>3, <2>1, <2>2
    <2>4. QED BY <1>1, <1>5, <2>3 DEF PipelineInOrder
  <1>6. QED BY <1>1, <1>4, <1>5, OrderStep

(* The engine takes the batch, or defers it behind an empty mailbox. *)
LEMMA BatchOrder ==
  ASSUME InputInv, OrderInv, EngineDefers \/ EngineBeginsStep
  PROVE  OrderInv'
  <1>1. UNCHANGED <<source, pendingInput, buffer, inflight, sent, disturbances>>
        /\ phase = "decided" /\ phase' \in {"awaiting", "loop", "step"}
        /\ (outcome.batch)' = <<>>
    BY DEF EngineDefers, EngineBeginsStep, EngineHandles, bufferVars, NoOutcome
  <1>2. \/ consumed' = consumed \o outcome.batch /\ deferred' = deferred
        \/ consumed' = consumed /\ deferred' = deferred \o outcome.batch
    BY DEF EngineDefers, EngineBeginsStep
  <1>3. deferred = <<>> /\ (outcome.batch # <<>> => buffer = <<>>)
    BY <1>1 DEF OrderInv, OrderPlaces
  <1>4. consumed \in Seq(Event) /\ outcome.batch \in Seq(Event)
    BY QueuesHoldEvents DEF InputInv
  <1>5. deferred \o outcome.batch = outcome.batch BY <1>3, <1>4, ConcatEmptySeq
  <1>6. OrderPlaces' BY <1>1 DEF OrderInv, OrderPlaces
  <1>7. ASSUME PipelineInOrder PROVE PipelineInOrder'
    <2>1. Chain(sent, consumed, outcome.batch, buffer, deferred, inflight, source)
      BY <1>7 DEF PipelineInOrder
    <2>2. Chain(sent, consumed \o outcome.batch, <<>>, buffer, deferred, inflight, source)
      BY <1>4, <2>1, ChainConsumes
    <2>3. Chain(sent, consumed, <<>>, buffer, outcome.batch, inflight, source)
      <3>1. CASE outcome.batch = <<>> BY <1>3, <2>1, <3>1
      <3>2. CASE outcome.batch # <<>>
        <4>1. Chain(sent, consumed, outcome.batch, <<>>, <<>>, inflight, source)
          BY <1>3, <2>1, <3>2
        <4>2. Chain(sent, consumed, <<>>, <<>>, outcome.batch, inflight, source)
          BY <4>1, ChainDefers
        <4>3. QED BY <1>3, <3>2, <4>2
      <3>3. QED BY <3>1, <3>2
    <2>4. Chain(sent, consumed, outcome.batch, buffer, deferred, inflight, source)'
      BY <1>1, <1>2, <1>5, <2>2, <2>3
    <2>5. QED BY <1>1, <1>7, <2>4 DEF PipelineInOrder
  <1>8. QED BY <1>1, <1>6, <1>7, OrderStep

LEMMA CollectOrder ==
  ASSUME InputInv, OrderInv, NEW m \in {"drain", "await", "response"}, Collect(m)
  PROVE  OrderInv'
  <1>1. /\ UNCHANGED <<pendingInput, buffer, sent, consumed, disturbances, outcome>>
        /\ inflight' = deferred \o source /\ deferred' = <<>> /\ source' = <<>>
        /\ phase' = "collect"
    BY DEF Collect, DrainAvailable, bufferVars, historyVars
  <1>2. inflight = <<>>
    BY DEF InputInv, Places, Collect
  <1>3. deferred \in Seq(Event) /\ source \in Seq(Event)
    BY QueuesHoldEvents DEF InputInv
  <1>4. OrderPlaces' BY <1>1 DEF OrderInv, OrderPlaces
  <1>5. ASSUME PipelineInOrder PROVE PipelineInOrder'
    <2>1. Chain(sent, consumed, outcome.batch, buffer, deferred, <<>>, source)
      BY <1>2, <1>5 DEF PipelineInOrder
    <2>2. Chain(sent, consumed, outcome.batch, buffer, <<>>, deferred \o source, <<>>)
      BY <1>3, <2>1, ChainCollects
    <2>3. AllFollow(sent, ToSet(pendingInput), ToSet(<<>>)) BY MembersEmpty DEF AllFollow
    <2>4. QED BY <1>1, <2>2, <2>3 DEF PipelineInOrder
  <1>6. QED BY <1>1, <1>4, <1>5, OrderStep

(* What becomes of the queued commands when an event is handled. *)
LEMMA HandledCommands ==
  ASSUME InputInv, OrderInv, NEW e \in Event, NEW busy, NEW rest, ~sealed,
         HandleEvent(e, busy, rest)
  PROVE  /\ deferred' = rest
         /\ ToSet(pendingInput') \cap Message \subseteq Skills
         /\ ToSet(pendingInput') \subseteq ToSet(pendingInput) \cup {e}
         /\ buffer' \in {buffer, <<>>, Append(buffer, e)}
  <1>1. pendingInput \in Seq(Event) BY QueuesHoldEvents DEF InputInv
  <1>2. ToSet(pendingInput) \cap Message \subseteq Skills BY DEF OrderInv, OrderPlaces
  <1>3. CASE pendingInput' = pendingInput /\ AdmitUserMessage(e, rest)
    BY <1>2, <1>3 DEF AdmitUserMessage
  <1>4. CASE WithdrawAll /\ deferred' = rest
    BY <1>4, MembersEmpty DEF WithdrawAll
  <1>5. CASE /\ e = "command" \/ e \in Skills
             /\ pendingInput' = Append(pendingInput, e) /\ deferred' = rest /\ buffer' = buffer
    <2>1. ToSet(pendingInput') = ToSet(pendingInput) \cup {e} BY <1>1, <1>5, ToSetAppend
    <2>2. QED BY <1>2, <1>5, <2>1, MessagesAreEvents
  <1>6. QED BY <1>3, <1>4, <1>5 DEF HandleEvent

LEMMA AdmitNextOrder == ASSUME InputInv, OrderInv, AdmitNext PROVE OrderInv'
  <1>1. /\ UNCHANGED <<source, phase, outcome, sent, consumed, disturbances>>
        /\ phase = "collect" /\ inflight # <<>> /\ inflight' = Tail(inflight)
        /\ HandleEvent(Head(inflight), mode = "response", deferred)
    BY DEF AdmitNext
  <1>2. deferred = <<>> /\ ~sealed /\ outcome.batch = <<>>
    BY <1>1 DEF InputInv, Epochs, Running, Places, OrderInv, OrderPlaces
  <1>3. inflight \in Seq(Event) /\ buffer \in Seq(Event) /\ Head(inflight) \in Event
    BY <1>1, QueuesHoldEvents, MembersHead DEF InputInv
  <1>4. /\ deferred' = deferred
        /\ ToSet(pendingInput') \cap Message \subseteq Skills
        /\ ToSet(pendingInput') \subseteq ToSet(pendingInput) \cup {Head(inflight)}
        /\ buffer' \in {buffer, <<>>, Append(buffer, Head(inflight))}
    BY <1>1, <1>2, <1>3, HandledCommands
  <1>5. OrderPlaces' BY <1>1, <1>2, <1>4 DEF OrderPlaces
  <1>6. ASSUME PipelineInOrder PROVE PipelineInOrder'
    <2>1. Chain(sent, consumed, outcome.batch, buffer, <<>>, inflight, source)
      BY <1>2, <1>6 DEF PipelineInOrder
    <2>2. /\ Chain(sent, consumed, outcome.batch, buffer, <<>>, Tail(inflight), source)
          /\ Chain(sent, consumed, outcome.batch, Append(buffer, Head(inflight)), <<>>,
                   Tail(inflight), source)
          /\ AllFollow(sent, {Head(inflight)}, ToSet(source))
      BY <1>1, <1>3, <2>1, ChainHandles
    <2>3. Chain(sent, consumed, outcome.batch, <<>>, <<>>, Tail(inflight), source)
      BY <2>2, ChainDrops
    <2>4. Chain(sent, consumed, outcome.batch, buffer, deferred, inflight, source)'
      BY <1>1, <1>2, <1>4, <2>2, <2>3
    <2>5. AllFollow(sent, ToSet(pendingInput'), ToSet(source))
      BY <1>4, <1>6, <2>2 DEF PipelineInOrder, AllFollow
    <2>6. QED BY <1>1, <2>4, <2>5 DEF PipelineInOrder
  <1>7. QED BY <1>1, <1>5, <1>6, OrderStep

LEMMA BeginQueryOrder == ASSUME InputInv, OrderInv, BeginQuery PROVE OrderInv'
  <1>1. /\ UNCHANGED <<source, deferred, pendingInput, buffer, outcome, sent, consumed,
                       disturbances>>
        /\ phase = "collect" /\ phase' = "query" /\ inflight # <<>> /\ inflight' = Tail(inflight)
    BY DEF BeginQuery, mailboxVars, bufferVars, historyVars
  <1>2. deferred = <<>> BY <1>1 DEF OrderInv, OrderPlaces
  <1>3. inflight \in Seq(Event) /\ buffer \in Seq(Event)
    BY QueuesHoldEvents DEF InputInv
  <1>4. OrderPlaces' BY <1>1, <1>2 DEF OrderInv, OrderPlaces
  <1>5. ASSUME PipelineInOrder PROVE PipelineInOrder'
    <2>1. Chain(sent, consumed, outcome.batch, buffer, <<>>, inflight, source)
      BY <1>2, <1>5 DEF PipelineInOrder
    <2>2. Chain(sent, consumed, outcome.batch, buffer, <<>>, Tail(inflight), source)
      BY <1>1, <1>3, <2>1, ChainHandles
    <2>3. QED BY <1>1, <1>2, <1>5, <2>2 DEF PipelineInOrder
  <1>6. QED BY <1>1, <1>4, <1>5, OrderStep

(* One event is taken from the mailbox: by the idle session, by a parked    *)
(* run, or by the observer of a model call.                                 *)
LEMMA MailboxOrder ==
  ASSUME InputInv, PipelineInOrder, MailboxHasNext, inflight = <<>>
  PROVE  /\ Chain(sent, consumed, outcome.batch, buffer, DeferredRest(deferred), <<>>,
                  SourceRest(deferred, source))
         /\ Chain(sent, consumed, outcome.batch, Append(buffer, MailboxHead),
                  DeferredRest(deferred), <<>>, SourceRest(deferred, source))
         /\ AllFollow(sent, {MailboxHead}, ToSet(SourceRest(deferred, source)))
         /\ AllFollow(sent, ToSet(pendingInput), ToSet(SourceRest(deferred, source)))
  <1>1. buffer \in Seq(Event) /\ deferred \in Seq(Event) /\ source \in Seq(Event)
    BY QueuesHoldEvents DEF InputInv
  <1>2. Chain(sent, consumed, outcome.batch, buffer, deferred, <<>>, source)
    BY DEF PipelineInOrder
  <1>3. deferred \o source # <<>> BY DEF MailboxHasNext
  <1>4. /\ Chain(sent, consumed, outcome.batch, buffer, DeferredRest(deferred), <<>>,
                 SourceRest(deferred, source))
        /\ Chain(sent, consumed, outcome.batch, Append(buffer, Head(deferred \o source)),
                 DeferredRest(deferred), <<>>, SourceRest(deferred, source))
        /\ AllFollow(sent, {Head(deferred \o source)}, ToSet(SourceRest(deferred, source)))
        /\ ToSet(SourceRest(deferred, source)) \subseteq ToSet(source)
    BY <1>1, <1>2, <1>3, ChainReceives
  <1>5. AllFollow(sent, ToSet(pendingInput), ToSet(SourceRest(deferred, source)))
    BY <1>4 DEF PipelineInOrder, AllFollow
  <1>6. QED BY <1>4, <1>5 DEF MailboxHead

LEMMA TakenRest ==
  ASSUME TakeMailboxHead
  PROVE  deferred' = DeferredRest(deferred) /\ source' = SourceRest(deferred, source)
  BY DEF TakeMailboxHead, DeferredRest, SourceRest

LEMMA IdleOrder ==
  ASSUME InputInv, OrderInv,
         IdleStartsConversation \/ IdleStartsManualRun \/ IdleHandlesControl
  PROVE  OrderInv'
  <1>1. /\ UNCHANGED <<pendingInput, inflight, outcome, sent, consumed, disturbances>>
        /\ phase = "idle" /\ phase' \in {"idle", "loop"} /\ MailboxHasNext /\ TakeMailboxHead
    BY DEF IdleStartsConversation, IdleStartsManualRun, IdleHandlesControl, FreshRun, historyVars
  <1>2. inflight = <<>> /\ buffer = <<>> /\ outcome.batch = <<>>
    BY <1>1 DEF InputInv, Places
  <1>3. buffer' = <<>> \/ buffer' = <<MailboxHead>>
    BY <1>2 DEF IdleStartsConversation, IdleStartsManualRun, IdleHandlesControl, FreshRun,
       bufferVars
  <1>4. Append(<<>>, MailboxHead) = <<MailboxHead>> OBVIOUS
  <1>5. deferred' = DeferredRest(deferred) /\ source' = SourceRest(deferred, source)
    BY <1>1, TakenRest
  <1>6. OrderPlaces' BY <1>1, <1>2 DEF OrderInv, OrderPlaces
  <1>7. ASSUME PipelineInOrder PROVE PipelineInOrder'
    <2>1. /\ Chain(sent, consumed, outcome.batch, buffer, DeferredRest(deferred), <<>>,
                   SourceRest(deferred, source))
          /\ Chain(sent, consumed, outcome.batch, Append(buffer, MailboxHead),
                   DeferredRest(deferred), <<>>, SourceRest(deferred, source))
          /\ AllFollow(sent, ToSet(pendingInput), ToSet(SourceRest(deferred, source)))
      BY <1>1, <1>2, <1>7, MailboxOrder
    <2>2. Chain(sent, consumed, outcome.batch, buffer, deferred, inflight, source)'
      BY <1>1, <1>2, <1>3, <1>4, <1>5, <2>1
    <2>3. QED BY <1>1, <1>5, <2>1, <2>2 DEF PipelineInOrder
  <1>8. QED BY <1>1, <1>6, <1>7, OrderStep

(* The same when the run cannot be created: the message leaves the pipeline. *)
LEMMA LaunchFailsOrder == ASSUME InputInv, OrderInv, LaunchFails PROVE OrderInv'
  <1>1. /\ UNCHANGED <<pendingInput, inflight, outcome, buffer, phase, sent, consumed>>
        /\ disturbances' = Append(disturbances, "launch") /\ "launch" \in Controls
        /\ phase = "idle" /\ MailboxHasNext /\ TakeMailboxHead
    BY DEF LaunchFails, bufferVars
  <1>2. inflight = <<>> /\ disturbances \in Seq(Controls)
    BY <1>1 DEF InputInv, Places, HistoryTyped
  <1>3. deferred' = DeferredRest(deferred) /\ source' = SourceRest(deferred, source)
    BY <1>1, TakenRest
  <1>4. Undisturbed' => Undisturbed
    <2>1. ToSet(disturbances') = ToSet(disturbances) \cup {"launch"}
      BY <1>1, <1>2, ToSetAppend
    <2>2. QED BY <2>1 DEF Undisturbed
  <1>5. OrderPlaces' BY <1>1 DEF OrderInv, OrderPlaces
  <1>6. ASSUME PipelineInOrder PROVE PipelineInOrder'
    <2>1. /\ Chain(sent, consumed, outcome.batch, buffer, DeferredRest(deferred), <<>>,
                   SourceRest(deferred, source))
          /\ AllFollow(sent, ToSet(pendingInput), ToSet(SourceRest(deferred, source)))
      BY <1>1, <1>2, <1>6, MailboxOrder
    <2>2. Chain(sent, consumed, outcome.batch, buffer, deferred, inflight, source)'
      BY <1>1, <1>2, <1>3, <2>1
    <2>3. QED BY <1>1, <1>3, <2>1, <2>2 DEF PipelineInOrder
  <1>7. QED BY <1>1, <1>4, <1>5, <1>6 DEF OrderInv

LEMMA PumpOrder == ASSUME InputInv, OrderInv, PumpWhileInvoking PROVE OrderInv'
  <1> DEFINE rest == DeferredRest(deferred)
  <1>1. /\ UNCHANGED <<inflight, phase, outcome, sent, consumed, disturbances>>
        /\ phase = "step" /\ MailboxHasNext /\ source' = SourceRest(deferred, source)
        /\ \/ HandleEvent(MailboxHead, TRUE, rest)
           \/ deferred' = rest /\ UNCHANGED <<pendingInput, buffer>>
    BY DEF PumpWhileInvoking, DeferredRest, SourceRest
  <1> HIDE DEF rest
  <1>2. inflight = <<>> /\ outcome.batch = <<>> /\ ~sealed
    BY <1>1 DEF InputInv, Places, Epochs, Running
  <1>3. MailboxHead \in Event
    <2>1. deferred \in Seq(Event) /\ source \in Seq(Event) BY QueuesHoldEvents DEF InputInv
    <2>2. QED BY <1>1, <2>1, MailboxLosesHead DEF MailboxHasNext, MailboxHead
  <1>4. /\ deferred' = rest
        /\ ToSet(pendingInput') \cap Message \subseteq Skills
        /\ ToSet(pendingInput') \subseteq ToSet(pendingInput) \cup {MailboxHead}
        /\ buffer' \in {buffer, <<>>, Append(buffer, MailboxHead)}
    <2>1. CASE HandleEvent(MailboxHead, TRUE, rest) BY <1>2, <1>3, <2>1, HandledCommands
    <2>2. CASE deferred' = rest /\ UNCHANGED <<pendingInput, buffer>>
      BY <2>2 DEF OrderInv, OrderPlaces
    <2>3. QED BY <1>1, <2>1, <2>2
  <1>5. OrderPlaces' BY <1>1, <1>2, <1>4 DEF OrderPlaces
  <1>6. ASSUME PipelineInOrder PROVE PipelineInOrder'
    <2>1. /\ Chain(sent, consumed, outcome.batch, buffer, rest, <<>>,
                   SourceRest(deferred, source))
          /\ Chain(sent, consumed, outcome.batch, Append(buffer, MailboxHead), rest, <<>>,
                   SourceRest(deferred, source))
          /\ AllFollow(sent, {MailboxHead}, ToSet(SourceRest(deferred, source)))
          /\ AllFollow(sent, ToSet(pendingInput), ToSet(SourceRest(deferred, source)))
      BY <1>1, <1>2, <1>6, MailboxOrder DEF rest
    <2>2. Chain(sent, consumed, outcome.batch, <<>>, rest, <<>>, SourceRest(deferred, source))
      BY <2>1, ChainDrops
    <2>3. Chain(sent, consumed, outcome.batch, buffer, deferred, inflight, source)'
      BY <1>1, <1>2, <1>4, <2>1, <2>2
    <2>4. AllFollow(sent, ToSet(pendingInput'), ToSet(SourceRest(deferred, source)))
      BY <1>4, <2>1 DEF AllFollow
    <2>5. QED BY <1>1, <2>3, <2>4 DEF PipelineInOrder
  <1>7. QED BY <1>1, <1>5, <1>6, OrderStep

LEMMA ParkedOrder == ASSUME InputInv, OrderInv, ParkedReceives PROVE OrderInv'
  <1>1. /\ UNCHANGED <<inflight, sent, consumed, disturbances>>
        /\ phase = "parked" /\ phase' \in {"decided", "query"}
        /\ MailboxHasNext /\ TakeMailboxHead
    BY DEF ParkedReceives, DrainUserInputs, historyVars
  <1>2. inflight = <<>> /\ outcome.batch = <<>> /\ ~Refused /\ deferred = <<>>
    BY <1>1 DEF InputInv, Places, Epochs, Running, Refused, OrderInv, OrderPlaces
  <1>3. deferred' = DeferredRest(deferred) /\ source' = SourceRest(deferred, source)
    BY <1>1, TakenRest
  <1>4. deferred' = <<>> BY <1>2, <1>3 DEF DeferredRest
  <1>5. pendingInput \in Seq(Event) BY QueuesHoldEvents DEF InputInv
  <1>6. \/ /\ (outcome.batch)' = Append(buffer, MailboxHead) /\ buffer' = <<>>
           /\ pendingInput' = pendingInput
        \/ outcome' = outcome /\ buffer' = buffer /\ pendingInput' = pendingInput
        \/ /\ MailboxHead \in {"withdraw", "command"}
           /\ pendingInput' = Append(pendingInput, MailboxHead)
           /\ (outcome.batch)' = <<>> /\ buffer' = buffer
    BY <1>2 DEF ParkedReceives, DrainUserInputs, Refused, Outcome
  <1>7. \/ ToSet(pendingInput') = ToSet(pendingInput)
        \/ /\ MailboxHead \notin Message
           /\ ToSet(pendingInput') = ToSet(pendingInput) \cup {MailboxHead}
    <2>1. CASE pendingInput' = pendingInput BY <2>1
    <2>2. CASE /\ MailboxHead \in {"withdraw", "command"}
               /\ pendingInput' = Append(pendingInput, MailboxHead)
      BY <1>5, <2>2, ToSetAppend, MessagesAreEvents
    <2>3. QED BY <1>6, <2>1, <2>2
  <1>8. OrderPlaces'
    BY <1>2, <1>4, <1>6, <1>7 DEF OrderInv, OrderPlaces
  <1>9. ASSUME PipelineInOrder PROVE PipelineInOrder'
    <2>1. /\ Chain(sent, consumed, <<>>, buffer, DeferredRest(deferred), <<>>,
                   SourceRest(deferred, source))
          /\ Chain(sent, consumed, <<>>, Append(buffer, MailboxHead),
                   DeferredRest(deferred), <<>>, SourceRest(deferred, source))
          /\ AllFollow(sent, {MailboxHead}, ToSet(SourceRest(deferred, source)))
          /\ AllFollow(sent, ToSet(pendingInput), ToSet(SourceRest(deferred, source)))
      BY <1>1, <1>2, <1>9, MailboxOrder
    <2>2. Chain(sent, consumed, Append(buffer, MailboxHead), <<>>, DeferredRest(deferred), <<>>,
                SourceRest(deferred, source))
      BY <2>1, ChainDecides
    <2>3. Chain(sent, consumed, outcome.batch, buffer, deferred, inflight, source)'
      BY <1>1, <1>2, <1>3, <1>6, <2>1, <2>2
    <2>4. AllFollow(sent, ToSet(pendingInput'), ToSet(SourceRest(deferred, source)))
      BY <1>7, <2>1 DEF AllFollow
    <2>5. QED BY <1>1, <1>3, <2>3, <2>4 DEF PipelineInOrder
  <1>10. QED BY <1>1, <1>8, <1>9, OrderStep

(* A drain is dropped with what it holds. *)
LEMMA DropOrder ==
  ASSUME InputInv, OrderInv, InteractionAnswered \/ CancelStep \/ Interrupt
  PROVE  OrderInv'
  <1>1. /\ UNCHANGED <<source, deferred, pendingInput, buffer, outcome, sent, consumed>>
        /\ inflight' = <<>> /\ phase' \in {"loop", "ended"}
    BY DEF InteractionAnswered, CancelStep, Interrupt, mailboxVars, bufferVars, historyVars
  <1>2. disturbances \in Seq(Controls) BY DEF InputInv, HistoryTyped
  <1>3. Undisturbed' => Undisturbed /\ phase' = "loop"
    <2>1. CASE InteractionAnswered
      BY <2>1 DEF InteractionAnswered, historyVars, Undisturbed
    <2>2. CASE CancelStep
      <3>1. ToSet(disturbances') = ToSet(disturbances) \cup {"cancel"}
        BY <1>2, <2>2, ToSetAppend DEF CancelStep
      <3>2. QED BY <2>2, <3>1 DEF CancelStep, Undisturbed
    <2>3. CASE Interrupt
      <3>1. ToSet(disturbances') = ToSet(disturbances) \cup {"interrupt"}
        BY <1>2, <2>3, ToSetAppend DEF Interrupt
      <3>2. QED BY <3>1 DEF Undisturbed
    <2>4. QED BY <2>1, <2>2, <2>3
  <1>4. OrderPlaces' BY <1>1 DEF OrderInv, OrderPlaces
  <1>5. ASSUME PipelineInOrder, phase' = "loop" PROVE PipelineInOrder'
    <2>1. Chain(sent, consumed, outcome.batch, buffer, deferred, <<>>, source)
      BY <1>5, ChainDrops DEF PipelineInOrder
    <2>2. QED BY <1>1, <1>5, <2>1 DEF PipelineInOrder
  <1>6. QED BY <1>1, <1>3, <1>4, <1>5 DEF OrderInv

LEMMA DrainRemainingOrder == ASSUME InputInv, OrderInv, DrainRemainingEvents PROVE OrderInv'
  <1>1. /\ phase = "ended" /\ phase' = "idle" /\ buffer' = <<>> /\ pendingInput' = <<>>
        /\ UNCHANGED <<source, inflight, outcome, sent, consumed, disturbances>>
    BY DEF DrainRemainingEvents, historyVars
  <1>2. /\ pendingInput \in Seq(Event) /\ deferred \in Seq(Event) /\ buffer \in Seq(Event)
        /\ inflight = <<>> /\ outcome.batch = <<>>
    BY <1>1, QueuesHoldEvents DEF InputInv, Places
  <1>3. PICK n \in 0 .. Len(pendingInput) : \E f \in [1 .. n -> DOMAIN pendingInput] :
           deferred' = deferred \o buffer \o [i \in 1 .. n |-> pendingInput[f[i]]]
    BY DEF DrainRemainingEvents
  <1>4. PICK f \in [1 .. n -> DOMAIN pendingInput] :
           deferred' = deferred \o buffer \o [i \in 1 .. n |-> pendingInput[f[i]]]
    BY <1>3
  <1> DEFINE kept == [i \in 1 .. n |-> pendingInput[f[i]]]
  <1>5. kept \in Seq(Event) /\ ToSet(kept) \subseteq ToSet(pendingInput)
    <2>1. /\ Len(pendingInput) \in Nat /\ DOMAIN pendingInput = 1 .. Len(pendingInput)
          /\ \A k \in DOMAIN pendingInput : pendingInput[k] \in Event
      BY <1>2, LenProperties
    <2>2. n \in Nat BY <2>1
    <2>3. \A i \in 1 .. n : f[i] \in DOMAIN pendingInput OBVIOUS
    <2>4. kept \in Seq(Event) BY <2>1, <2>2, <2>3
    <2>5. ToSet(kept) \subseteq ToSet(pendingInput) BY <2>3 DEF ToSet
    <2>6. QED BY <2>4, <2>5
  <1>6. deferred' = deferred \o buffer \o kept BY <1>4
  <1> HIDE DEF kept
  <1>7. OrderPlaces' BY <1>1, <1>2, MembersEmpty DEF OrderPlaces
  <1>8. ASSUME PipelineInOrder PROVE PipelineInOrder'
    <2>1. deferred = <<>> BY <1>1, <1>8 DEF PipelineInOrder
    <2>2. deferred' = buffer \o kept BY <1>2, <1>6, <2>1, ConcatEmptySeq
    <2>3. Chain(sent, consumed, <<>>, buffer, <<>>, <<>>, source)
      BY <1>2, <1>8, <2>1 DEF PipelineInOrder
    <2>4. ToSet(kept) \cap Message \subseteq Skills BY <1>5 DEF OrderInv, OrderPlaces
    <2>5. AllFollow(sent, ToSet(kept), ToSet(source))
      BY <1>5, <1>8 DEF PipelineInOrder, AllFollow
    <2>6. Chain(sent, consumed, <<>>, <<>>, buffer \o kept, <<>>, source)
      BY <1>2, <1>5, <2>3, <2>4, <2>5, ChainEnds
    <2>7. AllFollow(sent, ToSet(<<>>), ToSet(source)) BY MembersEmpty DEF AllFollow
    <2>8. QED BY <1>1, <1>2, <2>2, <2>6, <2>7 DEF PipelineInOrder
  <1>9. QED BY <1>1, <1>7, <1>8, OrderStep

LEMMA SendMessageOrder ==
  ASSUME InputInv, OrderInv, NEW m \in Message, SendMessage(m)
  PROVE  OrderInv'
  <1>1. /\ source' = Append(source, m) /\ sent' = Append(sent, m)
        /\ UNCHANGED <<deferred, pendingInput, buffer, inflight, phase, outcome, consumed,
                       disturbances>>
    BY DEF SendMessage, bufferVars
  <1>2. source \in Seq(Event) /\ m \in Event /\ sent \in Seq(Message) /\ Once(sent)
    BY MessagesAreEvents DEF InputInv, QueuesTyped, HistoryTyped, OrderInv
  <1>3. m \notin ToSet(sent)
    <2>1. DOMAIN sent = 1 .. Len(sent) BY <1>2, LenProperties
    <2>2. QED BY <2>1 DEF SendMessage, Contains, ToSet
  <1>4. Once(sent') BY <1>1, <1>2, <1>3, OnceAppend
  <1>5. OrderPlaces' BY <1>1 DEF OrderInv, OrderPlaces
  <1>6. ASSUME PipelineInOrder PROVE PipelineInOrder'
    <2>1. Chain(sent', consumed, outcome.batch, buffer, deferred, inflight, source')
      BY <1>1, <1>2, <1>3, <1>6, QueuesSent, ChainSends DEF PipelineInOrder
    <2>2. /\ AllFollow(sent, ToSet(pendingInput), ToSet(source))
          /\ AreSent(sent, ToSet(pendingInput)) /\ AreSent(sent, ToSet(source))
      BY <1>6, QueuesSent DEF PipelineInOrder
    <2>3. /\ AllFollow(sent', ToSet(pendingInput), ToSet(source))
          /\ AllFollow(sent', ToSet(pendingInput), {m})
      BY <1>1, <1>2, <1>3, <2>2, FollowsSent
    <2>4. ToSet(source') = ToSet(source) \cup {m} BY <1>1, <1>2, ToSetAppend
    <2>5. AllFollow(sent', ToSet(pendingInput), ToSet(source'))
      BY <2>3, <2>4 DEF AllFollow
    <2>6. QED BY <1>1, <1>6, <2>1, <2>5 DEF PipelineInOrder
  <1>7. QED BY <1>1, <1>4, <1>5, <1>6 DEF OrderInv, Undisturbed

LEMMA SendControlOrder ==
  ASSUME InputInv, OrderInv, NEW k \in Controls, SendControl(k)
  PROVE  OrderInv'
  <1>1. /\ source' = Append(source, k) /\ disturbances' = Append(disturbances, k)
        /\ k \in {"withdraw", "command", "query"}
        /\ UNCHANGED <<deferred, pendingInput, buffer, inflight, phase, outcome, sent, consumed>>
    BY DEF SendControl, bufferVars
  <1>2. source \in Seq(Event) /\ disturbances \in Seq(Controls)
    BY DEF InputInv, QueuesTyped, HistoryTyped
  <1>3. k \in Event /\ k \notin Message BY <1>1, MessagesAreEvents
  <1>4. Undisturbed' => Undisturbed
    <2>1. ToSet(disturbances') = ToSet(disturbances) \cup {k} BY <1>1, <1>2, ToSetAppend
    <2>2. QED BY <2>1 DEF Undisturbed
  <1>5. OrderPlaces' BY <1>1 DEF OrderInv, OrderPlaces
  <1>6. ASSUME PipelineInOrder PROVE PipelineInOrder'
    <2>1. Chain(sent, consumed, outcome.batch, buffer, deferred, inflight, source)
      BY <1>6 DEF PipelineInOrder
    <2>2. /\ Chain(sent, consumed, outcome.batch, buffer, deferred, inflight, Append(source, k))
          /\ ToSet(Append(source, k)) = ToSet(source) \cup {k}
      BY <1>2, <1>3, <2>1, ChainControls
    <2>3. AllFollow(sent, ToSet(pendingInput), ToSet(Append(source, k)))
      BY <1>3, <1>6, <2>2 DEF PipelineInOrder, AllFollow, Follows
    <2>4. QED BY <1>1, <1>6, <2>2, <2>3 DEF PipelineInOrder
  <1>7. QED BY <1>1, <1>4, <1>5, <1>6 DEF OrderInv

LEMMA NextOrder == InputInv /\ OrderInv /\ [InputNext]_inputVars => OrderInv'
  <1> SUFFICES ASSUME InputInv, OrderInv, [InputNext]_inputVars PROVE OrderInv'
    OBVIOUS
  <1>1. CASE User
    <2>1. ASSUME NEW m \in Message, SendMessage(m) PROVE OrderInv'
      BY <2>1, SendMessageOrder
    <2>2. ASSUME NEW k \in Controls, SendControl(k) PROVE OrderInv'
      BY <2>2, SendControlOrder
    <2>3. QED BY <1>1, <2>1, <2>2, QuietOrder, DropOrder DEF User
  <1>2. CASE Engine
    <2>1. CASE IdleStartsConversation \/ IdleStartsManualRun \/ IdleHandlesControl
      BY <2>1, IdleOrder
    <2>2. CASE \/ IdleShutsDown \/ FinishQuery \/ ResponseCollected \/ ParkedSeesClosed
               \/ EngineExits \/ StepEnds
      BY <2>2, QuietOrder
    <2>3. ASSUME NEW m \in {"drain", "await"}, Collect(m) PROVE OrderInv'
      BY <2>3, CollectOrder
    <2>4. CASE AdmitNext \/ BeginQuery \/ ParkedReceives \/ DrainRemainingEvents
      BY <2>4, AdmitNextOrder, BeginQueryOrder, ParkedOrder, DrainRemainingOrder
    <2>5. CASE TakeInternalContinuation \/ DrainOrSeal \/ TryDrainUnsealed
      BY <2>5, DecisionOrder
    <2>6. CASE EngineDefers \/ EngineBeginsStep
      BY <2>6, BatchOrder
    <2>7. QED BY <1>2, <2>1, <2>2, <2>3, <2>4, <2>5, <2>6 DEF Engine
  <1>3. CASE IdleStartsWakeupRun \/ LaunchFails \/ PumpWhileInvoking \/ InteractionAnswered
    BY <1>3, QuietOrder, LaunchFailsOrder, PumpOrder, DropOrder
  <1>4. CASE Collect("response")
    BY <1>4, CollectOrder
  <1>5. CASE UNCHANGED inputVars
    BY <1>5, QuietOrder
  <1>6. QED BY <1>1, <1>2, <1>3, <1>4, <1>5 DEF InputNext, Done

LEMMA InitOrder == InputInit => OrderInv
  <1> SUFFICES ASSUME InputInit PROVE OrderInv
    OBVIOUS
  <1>1. /\ source = <<>> /\ deferred = <<>> /\ pendingInput = <<>> /\ buffer = <<>>
        /\ inflight = <<>> /\ consumed = <<>> /\ sent = <<>> /\ outcome.batch = <<>>
    BY DEF InputInit, NoOutcome
  <1>2. Once(sent) BY <1>1 DEF Once
  <1>3. OrderPlaces BY <1>1, MembersEmpty DEF OrderPlaces
  <1>4. PipelineInOrder
    BY <1>1, MembersEmpty, OrderEmpty DEF PipelineInOrder, Chain, AllFollow
  <1>5. QED BY <1>2, <1>3, <1>4 DEF OrderInv

LEMMA InvImpliesOrder == InputInv /\ OrderInv => OrderKept
  <1> SUFFICES ASSUME InputInv, OrderInv, Undisturbed,
                      NEW i \in DOMAIN Pipeline, NEW j \in DOMAIN Pipeline,
                      Pipeline[i] \in Message, Pipeline[j] \in Message,
                      i < j, SentAt(Pipeline[i]) > SentAt(Pipeline[j])
               PROVE  Pipeline[j] \in Skills
    BY DEF OrderKept, Undisturbed
  <1>1. /\ consumed \in Seq(Event) /\ outcome.batch \in Seq(Event) /\ buffer \in Seq(Event)
        /\ deferred \in Seq(Event) /\ inflight \in Seq(Event) /\ source \in Seq(Event)
    BY QueuesHoldEvents DEF InputInv
  <1>2. Chain(sent, consumed, outcome.batch, buffer, deferred, inflight, source)
    BY DEF OrderInv, PipelineInOrder
  <1>3. InOrder(sent, Pipeline) BY <1>1, <1>2, ChainInOrder DEF Pipeline
  <1>4. Follows(sent, Pipeline[i], Pipeline[j]) BY <1>3 DEF InOrder
  <1>5. \A x : SentAt(x) = PlaceIn(sent, x) BY DEF SentAt, PlaceIn
  <1>6. ASSUME NEW x \in ToSet(Pipeline), x \in Message PROVE SentAt(x) \in Int
    <2>1. x \in ToSet(sent)
      <3>1. ToSet(Pipeline) = ToSet(consumed) \cup ToSet(outcome.batch) \cup ToSet(buffer)
               \cup ToSet(deferred) \cup ToSet(inflight) \cup ToSet(source)
        BY <1>1, <1>2, ChainInOrder DEF Pipeline
      <3>2. QED BY <1>6, <3>1, QueuesSent DEF AreSent
    <2>2. sent \in Seq(Message) BY DEF InputInv, HistoryTyped
    <2>3. PICK k \in DOMAIN sent : x = sent[k] BY <2>1 DEF ToSet
    <2>4. DOMAIN sent = 1 .. Len(sent) BY <2>2, LenProperties
    <2>5. QED BY <1>5, <2>2, <2>3, <2>4, OncePlace DEF OrderInv
  <1>7. SentAt(Pipeline[i]) \in Int /\ SentAt(Pipeline[j]) \in Int
    <2>1. Pipeline[i] \in ToSet(Pipeline) /\ Pipeline[j] \in ToSet(Pipeline) BY DEF ToSet
    <2>2. QED BY <1>6, <2>1
  <1>8. SentAt(Pipeline[i]) <= SentAt(Pipeline[j]) \/ Pipeline[j] \in Skills
    BY <1>4, <1>5 DEF Follows
  <1> HIDE DEF SentAt
  <1>9. QED BY <1>7, <1>8

(* For every set of messages, whatever the user withdraws, cancels or asks  *)
(* and wherever runs begin and end: as long as no run is interrupted, the   *)
(* messages stand in the pipeline in the order in which they were sent, and *)
(* only a skill request can be observed after a message sent later.  So a   *)
(* batch that a run gives back is seen again in its old place.              *)
THEOREM OrderCorrect == InputSpec => []OrderKept
  <1>1. InputInit => InputInv /\ OrderInv BY InitHolds, InitOrder
  <1>2. InputInv /\ OrderInv /\ [InputNext]_inputVars => InputInv' /\ OrderInv'
    BY NextKeeps, NextOrder
  <1>3. QED BY <1>1, <1>2, InvImpliesOrder, PTL DEF InputSpec
-----------------------------------------------------------------------------
(* A withdrawal finds no message but skill requests among the commands. *)
SkillsDropped == "launch" \notin ToSet(disturbances) => discarded \subseteq Skills

LEMMA SkillsDroppedStep ==
  ASSUME InputInv, SkillsDropped, discarded' \subseteq discarded \cup Skills,
         \/ disturbances' = disturbances
         \/ \E k \in Controls : disturbances' = Append(disturbances, k)
  PROVE  SkillsDropped'
  <1>1. ToSet(disturbances) \subseteq ToSet(disturbances')
    <2>1. disturbances \in Seq(Controls)
      BY DEF InputInv, HistoryTyped
    <2>2. ASSUME NEW k \in Controls, disturbances' = Append(disturbances, k)
          PROVE  ToSet(disturbances) \subseteq ToSet(disturbances')
      <3>1. ToSet(Append(disturbances, k)) = ToSet(disturbances) \cup {k}
        BY <2>1, ToSetAppend
      <3>2. QED BY <2>2, <3>1
    <2>3. QED BY <2>2
  <1>2. ToSet(disturbances)' = ToSet(disturbances')
    BY DEF ToSet
  <1>3. QED BY <1>1, <1>2 DEF SkillsDropped

LEMMA SkillsDroppedKeeps ==
  InputInv /\ OrderInv /\ SkillsDropped /\ [InputNext]_inputVars => SkillsDropped'
  <1> SUFFICES ASSUME InputInv, OrderInv, SkillsDropped, [InputNext]_inputVars
               PROVE  SkillsDropped'
    OBVIOUS
  <1>1. CASE LaunchFails
    <2>1. disturbances \in Seq(Controls) /\ "launch" \in Controls
          /\ disturbances' = Append(disturbances, "launch")
      BY <1>1 DEF LaunchFails, InputInv, HistoryTyped
    <2>2. "launch" \in ToSet(disturbances')
      BY <2>1, ToSetAppend
    <2>3. QED BY <2>2 DEF SkillsDropped, ToSet
  <1>2. ASSUME NEW e, NEW busy, NEW rest, HandleEvent(e, busy, rest)
        PROVE  discarded' \subseteq discarded \cup Skills
    <2>1. ToSet(pendingInput) \cap Message \subseteq Skills
      BY DEF OrderInv, OrderPlaces
    <2>2. QED BY <1>2, <2>1 DEF HandleEvent, WithdrawAll
  <1>3. CASE AdmitNext
    <2>1. disturbances' = disturbances /\ discarded' \subseteq discarded \cup Skills
      BY <1>2, <1>3 DEF AdmitNext
    <2>2. QED BY <2>1, SkillsDroppedStep
  <1>4. CASE PumpWhileInvoking
    <2>1. disturbances' = disturbances /\ discarded' \subseteq discarded \cup Skills
      BY <1>2, <1>4 DEF PumpWhileInvoking
    <2>2. QED BY <2>1, SkillsDroppedStep
  <1>5. CASE User
    <2>1. discarded' = discarded
      BY <1>5 DEF User, SendMessage, SendControl, CloseChannel, CancelStep, Interrupt, historyVars
    <2>2. \/ disturbances' = disturbances
          \/ \E k \in Controls : disturbances' = Append(disturbances, k)
      BY <1>5 DEF User, SendMessage, SendControl, CloseChannel, CancelStep, Interrupt, historyVars
    <2>3. QED BY <2>1, <2>2, SkillsDroppedStep
  <1>6. ASSUME UNCHANGED <<discarded, disturbances>> PROVE SkillsDropped'
    BY <1>6, SkillsDroppedStep
  <1> USE DEF historyVars
  <1>7. CASE \/ IdleStartsConversation \/ IdleStartsManualRun \/ IdleStartsWakeupRun
             \/ IdleHandlesControl \/ IdleShutsDown
    BY <1>6, <1>7 DEF IdleStartsConversation, IdleStartsManualRun, IdleStartsWakeupRun,
       IdleHandlesControl, IdleShutsDown, FreshRun
  <1>8. CASE \E m \in {"drain", "await", "response"} : Collect(m)
    BY <1>6, <1>8 DEF Collect
  <1>9. CASE BeginQuery \/ FinishQuery \/ ResponseCollected \/ StepEnds \/ InteractionAnswered
             \/ DrainRemainingEvents
    BY <1>6, <1>9 DEF BeginQuery, FinishQuery, ResponseCollected, StepEnds, InteractionAnswered,
       DrainRemainingEvents
  <1>10. CASE TakeInternalContinuation \/ DrainOrSeal \/ TryDrainUnsealed \/ ParkedReceives
              \/ ParkedSeesClosed
    BY <1>6, <1>10 DEF TakeInternalContinuation, DrainOrSeal, TryDrainUnsealed, ParkedReceives,
       ParkedSeesClosed
  <1>11. CASE EngineDefers \/ EngineBeginsStep \/ EngineExits
    BY <1>6, <1>11 DEF EngineDefers, EngineBeginsStep, EngineExits, EngineHandles
  <1>12. CASE UNCHANGED inputVars
    BY <1>6, <1>12 DEF inputVars
  <1>13. QED
    BY <1>1, <1>3, <1>4, <1>5, <1>7, <1>8, <1>9, <1>10, <1>11, <1>12
       DEF InputNext, Engine, Done

LEMMA InvImpliesCounts ==
  InputInv /\ ShutdownOK /\ SkillsDropped => NeverDuplicated /\ OnlyKnownLosses
  <1> SUFFICES ASSUME InputInv, ShutdownOK, SkillsDropped
               PROVE  NeverDuplicated /\ OnlyKnownLosses
    OBVIOUS
  <1>1. \A m : Occurrences(m, Pipeline \o pendingInput) = Total(m) /\ Total(m) \in Nat
    BY PipelineTotal, CountsNat DEF InputInv
  <1>2. NeverDuplicated
    <2> SUFFICES ASSUME NEW m \in Message
                 PROVE  Total(m) <= IF m \in Gone THEN 0 ELSE 1
      BY <1>1 DEF NeverDuplicated
    <2>1. Total(m) <= 1 /\ (m \in Gone => Total(m) = 0)
      BY DEF InputInv, Counted
    <2>2. QED BY <1>1, <2>1
  <1>3. OnlyKnownLosses
    <2> SUFFICES ASSUME "query" \notin ToSet(disturbances), NEW m \in ToSet(sent)
                 PROVE  /\ m \in Gone \/ Total(m) = 1
                        /\ phase = "shutdown" => m \in Gone \cup ToSet(consumed)
      BY <1>1 DEF OnlyKnownLosses, SkillsDropped, Kept, Gone
    <2>1. m \in Gone \/ Total(m) = 1
      BY DEF InputInv, Complete
    <2>2. ASSUME phase = "shutdown", Total(m) = 1 PROVE m \in ToSet(consumed)
      <3>1. /\ outcome.batch = <<>> /\ buffer = <<>> /\ deferred = <<>>
            /\ inflight = <<>> /\ source = <<>> /\ pendingInput = <<>>
        BY <2>2 DEF InputInv, Places, ShutdownOK
      <3>2. Occurrences(m, consumed) \in Nat /\ Occurrences(m, <<>>) = 0
        BY CountsNat, OccurrencesEmpty DEF InputInv
      <3>3. Total(m) = Occurrences(m, consumed)
        BY <3>1, <3>2 DEF Total
      <3>4. consumed \in Seq(Event) BY MessagesAreEvents DEF InputInv, QueuesTyped
      <3>5. Occurrences(m, consumed) > 0 BY <2>2, <3>3
      <3>6. QED BY <3>4, <3>5, OccurrencesMember
    <2>3. QED BY <2>1, <2>2
  <1>4. QED BY <1>2, <1>3

(* For every set of messages and skill requests, any number of controls,   *)
(* cancels, interrupts and failed launches and every modulus of the epoch  *)
(* counter: the queues are well typed, a sealed buffer is empty and the    *)
(* epochs agree when the engine asks (InputOK); no message is in two       *)
(* queues, or in a queue after it was given back or dropped                *)
(* (NeverDuplicated); unless a launch failed nothing but skill requests is *)
(* dropped by a withdrawal; and as long as no query was sent every message *)
(* that was not dropped is in exactly one queue or withdrawn, and taken by *)
(* a step or withdrawn once the session has shut down (OnlyKnownLosses).   *)
THEOREM InputCorrect == InputSpec => [](InputOK /\ NeverDuplicated /\ OnlyKnownLosses)
  <1> DEFINE Inv == InputInv /\ ShutdownOK /\ OrderInv /\ SkillsDropped
  <1>1. Inv => InputOK /\ NeverDuplicated /\ OnlyKnownLosses
    BY InvImpliesInputOK, InvImpliesCounts
  <1>2. InputInit => Inv
    <2>1. InputInit => ShutdownOK /\ SkillsDropped
      BY DEF InputInit, ShutdownOK, SkillsDropped
    <2>2. QED BY <2>1, InitHolds, InitOrder
  <1>3. Inv /\ [InputNext]_inputVars => Inv'
    BY NextKeeps, ShutdownKeeps, NextOrder, SkillsDroppedKeeps
  <1> HIDE DEF Inv
  <1>4. QED BY <1>1, <1>2, <1>3, PTL DEF InputSpec
=============================================================================
