------------------------------ MODULE MCOutbox ------------------------------
(* Outbox on a small instance: the delays of retry_backoff_seconds, 2^n       *)
(* seconds capped at 300, become MCBackoff units of the clock.               *)
EXTENDS Outbox

MCBackoff == [n \in 1 .. MaxAttempts |-> IF n < MaxBackoff THEN n ELSE MaxBackoff]
=============================================================================
