-------------------------- MODULE MCCompletionNotify ------------------------
EXTENDS CompletionNotify, TLC
CONSTANTS a, b
=============================================================================
