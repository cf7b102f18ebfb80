------------------------------ MODULE MCSpeech ------------------------------
(* Speech on a small instance.  All client ids of /synthesize ask for the     *)
(* same message, so that one request's audio is another's cache hit.         *)
EXTENDS Speech

CONSTANT m1

MCDates == 1 .. 2

MCMessageOf == [s \in Sources |-> m1]
=============================================================================
