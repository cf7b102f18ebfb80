--------------------------- MODULE MCAccountDelete --------------------------
(* AccountDelete as deployed: a tick's storages are its own, and empty.       *)
(* Backoffs as in MCOutbox.                                                  *)
EXTENDS AccountDelete

MCBackoff == [n \in 1 .. MaxAttempts |-> IF n < MaxBackoff THEN n ELSE MaxBackoff]
=============================================================================
