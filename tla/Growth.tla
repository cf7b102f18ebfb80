------------------------------- MODULE Growth -------------------------------
(***************************************************************************)
(* services/growth and services/evolution as functions of the spirits row   *)
(* and of the keys in growth_events.  The services that use them hold the   *)
(* spirit FOR UPDATE and have one transaction for the fact and its effect.  *)
(*                                                                         *)
(* A spirit is a record with a version and those of its columns that a      *)
(* module looks at.  A payload is a function from columns to deltas.        *)
(***************************************************************************)
EXTENDS Integers, Sequences

\* GREATEST(0, LEAST(100, n)), and clamp_growth_value.
Clamp(n) == IF n < 0 THEN 0 ELSE IF n > 100 THEN 100 ELSE n

\* compact_growth_payload: zero deltas are left out.
Compact(payload) ==
    [f \in {g \in DOMAIN payload : payload[g] # 0} |-> payload[f]]

\* UPDATE spirits SET version = version + 1.
Bumped(s) == [s EXCEPT !.version = @ + 1]

\* apply_growth_to_spirit: nothing to add and nothing to touch is no update.
\* What touching does is in SpiritState.
WithGrowth(s, payload, touch) ==
    LET compact == Compact(payload) IN
    IF compact = << >> /\ ~touch
    THEN s
    ELSE Bumped([f \in DOMAIN s |-> IF f \in DOMAIN compact
                                    THEN Clamp(s[f] + compact[f]) ELSE s[f]])

\* record_and_apply: a key (type and source) is applied once.
Recorded(events, key) == events \cup {key}

Grown(s, events, key, payload, touch) ==
    IF key \in events THEN s ELSE WithGrowth(s, payload, touch)

\* append_scholar_mark: once in the array.
Marked(s, mark) ==
    IF \E i \in DOMAIN s.marks : s.marks[i] = mark
    THEN s
    ELSE Bumped([s EXCEPT !.marks = Append(@, mark)])
=============================================================================
