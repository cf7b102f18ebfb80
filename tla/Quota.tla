------------------------------- MODULE Quota --------------------------------
(***************************************************************************)
(* The quota ledger of one owner and one capability: public.daily_usage,   *)
(* one counter row per usage date, and private.quota_reservations, one row *)
(* per client id.  The operators are the statements of repositories/quota  *)
(* and the calls of services/quota that combine them inside one            *)
(* transaction, as functions of a ledger [usage, held].                    *)
(*                                                                         *)
(* Every caller takes the default amount of 1 and the default limit, so    *)
(* both are fixed here.  left is expires_at - clock, cut at 0.             *)
(***************************************************************************)
EXTENDS Naturals, FiniteSets

CONSTANTS
    Sources,   \* source_id of a reservation: the client_id of the request
    Dates,     \* usage dates, numbered
    Limit,     \* limit_value
    TTL        \* RESERVATION_TTL, in units of the clock

ASSUME QuotaAssumption ==
    /\ Dates \subseteq Nat
    /\ Limit \in Nat
    /\ TTL \in Nat \ {0}

Usage == [used: 0 .. Limit, reserved: 0 .. Limit]

Reservation == [status: {"none", "held", "expiring", "committed", "released"},
                date: Dates,
                left: 0 .. TTL]

Ledger == [usage: [Dates -> Usage], held: [Sources -> Reservation]]

\* The sources whose reservation is part of reserved, and of used, at date d.
HeldAt(l, d) == {s \in Sources : l.held[s].status \in {"held", "expiring"} /\ l.held[s].date = d}
CommittedAt(l, d) == {s \in Sources : l.held[s].status = "committed" /\ l.held[s].date = d}

-----------------------------------------------------------------------------
(* repositories/quota.apply_reserved_delta and mark_reservation. *)

\* Mutation of CanReserve: what is reserved is left out.
CanReserveUnused(l, d) == l.usage[d].used + 1 <= Limit

CanReserve(l, d) == l.usage[d].used + l.usage[d].reserved + 1 <= Limit

\* reserved >= :amount, of modes "release" and "commit".
HasReserved(l, d) == l.usage[d].reserved >= 1

Reserved(l, d) == [l EXCEPT !.usage[d].reserved = @ + 1]

\* Releases whatever the row has reserved, or nothing: no caller looks at the
\* result.
Unreserved(l, d) ==
    IF HasReserved(l, d) THEN [l EXCEPT !.usage[d].reserved = @ - 1] ELSE l

Used(l, d) == [l EXCEPT !.usage[d].reserved = @ - 1, !.usage[d].used = @ + 1]

\* UPDATE ... SET status = to WHERE status IN from.
Marked(l, s, from, to) ==
    IF l.held[s].status \in from THEN [l EXCEPT !.held[s].status = to] ELSE l

-----------------------------------------------------------------------------
(* services/quota. *)

\* A reservation that reserve() hands out again as it is.
Reusable(l, s) ==
    \/ l.held[s].status = "committed"
    \/ l.held[s].status = "held" /\ l.held[s].left > 0

\* reserve() first gives back an expired reservation of the same source.
GivenBack(l, s) ==
    IF l.held[s].status \in {"held", "expiring"}
    THEN Marked(Unreserved(l, l.held[s].date), s, {l.held[s].status}, "released")
    ELSE l

\* Mutation of Reopened: the reopened row keeps the date it had before.
ReopenedStale(l, s, today) ==
    [l EXCEPT !.held[s] = [status |-> "held",
                           date |-> IF @.status = "none" THEN today ELSE @.date,
                           left |-> TTL]]

\* insert_reservation, or reopen_reservation of a released one.
Reopened(l, s, today) ==
    [l EXCEPT !.held[s] = [status |-> "held", date |-> today, left |-> TTL]]

\* reserve(): the caller gets QUOTA_EXCEEDED, and its transaction is rolled
\* back, unless there is room on today's row.
MayReserve(l, s, today) == Reusable(l, s) \/ CanReserve(GivenBack(l, s), today)

AfterReserve(l, s, today) ==
    IF Reusable(l, s) THEN l
    ELSE Reserved(Reopened(GivenBack(l, s), s, today), today)

\* What the caller keeps of the reservation until it commits or releases it.
Taken(l, s) == [status |-> l.held[s].status, date |-> l.held[s].date]

\* commit(): raises when the row has nothing reserved.
MayCommit(l, taken) == taken.status = "committed" \/ HasReserved(l, taken.date)

\* Mutation of AfterCommit: the reservation stays held.
AfterCommitUnmarked(l, s, taken) ==
    IF taken.status = "committed" THEN l ELSE Used(l, taken.date)

AfterCommit(l, s, taken) ==
    IF taken.status = "committed" THEN l
    ELSE Marked(Used(l, taken.date), s, {"held", "expiring"}, "committed")

\* release().
AfterRelease(l, s, taken) ==
    IF taken.status = "committed" THEN l
    ELSE Marked(Unreserved(l, taken.date), s, {"held", "expiring"}, "released")

\* Mutation of Expirable: expires_at is not looked at.
ExpirableEarly(l) == {s \in Sources : l.held[s].status \in {"held", "expiring"}}

\* Mutation of Expirable: rows claimed by an expirer that died are left out.
ExpirableHeld(l) == {s \in Sources : l.held[s].status = "held" /\ l.held[s].left = 0}

\* expire_due_reservations: the rows its first transaction may claim, what that
\* leaves, and the transaction it then gives to each of them.  A row that is
\* expiring already, by another caller, is claimed again.
Expirable(l) == {s \in Sources : l.held[s].status \in {"held", "expiring"} /\ l.held[s].left = 0}

AfterClaim(l, S) ==
    [l EXCEPT !.held = [s \in Sources |-> IF s \in S THEN [@[s] EXCEPT !.status = "expiring"]
                                          ELSE @[s]]]

AfterExpire(l, s, d) == Marked(Unreserved(l, d), s, {"expiring", "held"}, "released")
=============================================================================
