------------------------------- MODULE Outbox -------------------------------
(***************************************************************************)
(* public.outbox_events and the processes that work on it: the scheduler   *)
(* that enqueues and reclaims, and the worker processes whose ticks claim a *)
(* batch of due jobs in one transaction and then settle each claimed job   *)
(* in a transaction of its own.                                            *)
(*                                                                         *)
(* A tick reads the clock once (app/worker.py:27, cron.run_worker_tick)    *)
(* and passes that instant as "now" to every statement it issues, however  *)
(* late.  Its locked_by is a fresh uuid.  So an element of Ticks stands    *)
(* for one consumer's pass within a tick, its name is its locked_by, and   *)
(* it may only be opened while no row carries that name.                   *)
(*                                                                         *)
(* All times are kept relative to the real clock: wait[j] is available_at  *)
(* - clock, lease[j] is lease_expires_at - clock, and the "now" of a tick  *)
(* is - age.  Distances into the past are cut at MaxTickAge, the longest   *)
(* tick modelled, beyond which no comparison can tell them apart.          *)
(***************************************************************************)
EXTENDS Integers, FiniteSets

CONSTANTS
    Jobs,              \* dedupe keys of outbox_events
    Leaseless,         \* those claimed without a lease (state.settle, usage.rollup)
    Ticks,             \* consumer passes; the name is the locked_by of its claims
    NoTick,            \* locked_by IS NULL
    Processes,         \* how many passes may run at the same time
    Batch,             \* LIMIT of a claim
    MaxAttempts,       \* outbox_events.max_attempts
    Lease,             \* lease_seconds, in units of the clock
    Backoff,           \* Backoff[n]: delay after the n-th attempt
    MaxBackoff,        \* cap of Backoff
    MaxTickAge,        \* bound: the longest a pass may run
    MaxContinuations   \* bound: times a handler hands its job back unfinished

ASSUME OutboxAssumption ==
    /\ Leaseless \subseteq Jobs
    /\ NoTick \notin Ticks
    /\ Processes \in Nat \ {0}
    /\ Batch \in Nat \ {0}
    /\ MaxAttempts \in Nat \ {0}
    /\ Lease \in Nat \ {0}
    /\ MaxBackoff \in Nat \ {0}
    /\ Backoff \in [1..MaxAttempts -> 1..MaxBackoff]
    /\ MaxTickAge \in Nat
    /\ MaxContinuations \in Nat

VARIABLES
    outbox,   \* outbox[j]: the row of job j
    tick,     \* tick[t]: the local state of pass t
    more      \* more[j]: continuations the handler of j still needs

vars == <<outbox, tick, more>>

-----------------------------------------------------------------------------
Statuses == {"absent", "pending", "claimed", "retry", "done", "dead"}

Times(upper) == -MaxTickAge .. upper

Row == [status: Statuses,
        lockedBy: Ticks \cup {NoTick},
        lease: Times(Lease),
        wait: Times(MaxBackoff),
        attempts: 0 .. MaxAttempts]

Pass == [open: BOOLEAN, age: 0 .. MaxTickAge, batch: SUBSET Jobs]

TypeOK ==
    /\ outbox \in [Jobs -> Row]
    /\ tick \in [Ticks -> Pass]
    /\ more \in [Jobs -> 0 .. MaxContinuations]

NoRow == [status |-> "absent", lockedBy |-> NoTick, lease |-> 0, wait |-> 0,
          attempts |-> 0]

Idle == [open |-> FALSE, age |-> 0, batch |-> {}]

Init ==
    /\ outbox = [j \in Jobs |-> NoRow]
    /\ tick = [t \in Ticks |-> Idle]
    /\ more \in [Jobs -> 0 .. MaxContinuations]
    /\ \A j \in Leaseless : more[j] = 0

-----------------------------------------------------------------------------
(* The statements of repositories/outbox.py, as functions of a row. *)

\* Mutation of Now: the clock is read anew for every statement.
FreshNow(t) == 0

\* p_now of pass t: the instant at which its tick began.
Now(t) == -tick[t].age

Unlocked(r) == [r EXCEPT !.lockedBy = NoTick, !.lease = 0]

\* Mutation of Requeued: the CASE on max_attempts is dropped.
RequeuedAlways(r, now) ==
    [Unlocked(r) EXCEPT !.status = "retry", !.wait = now + Backoff[r.attempts]]

\* Mutation of Requeued: attempt_count > max_attempts.
RequeuedOnceMore(r, now) ==
    IF r.attempts > MaxAttempts
    THEN [Unlocked(r) EXCEPT !.status = "dead"]
    ELSE [Unlocked(r) EXCEPT !.status = "retry", !.wait = now + Backoff[r.attempts]]

\* The CASE of fail_outbox_job and reclaim_expired_outbox: another attempt
\* after a backoff, or dead.
Requeued(r, now) ==
    IF r.attempts >= MaxAttempts
    THEN [Unlocked(r) EXCEPT !.status = "dead"]
    ELSE [Unlocked(r) EXCEPT !.status = "retry", !.wait = now + Backoff[r.attempts]]

\* Mutation of Expired: the age of the claim is compared, not its lease.
ExpiredOnceClaimed(r, now) ==
    /\ r.status = "claimed"
    /\ r.lockedBy # NoTick
    /\ r.lease < now + Lease

\* Mutation of Expired: a row on its last attempt is left to its holder.
ExpiredUnlessLast(r, now) ==
    /\ r.status = "claimed"
    /\ r.lockedBy # NoTick
    /\ r.lease < now
    /\ r.attempts < MaxAttempts

\* A row without a lease has lease_expires_at NULL and is never reclaimed.
Expired(r, now) ==
    /\ r.status = "claimed"
    /\ r.lockedBy # NoTick
    /\ r.lease < now

Reclaimed(rows, now) ==
    [j \in Jobs |-> IF Expired(rows[j], now) THEN Requeued(rows[j], now) ELSE rows[j]]

Due(rows, now) ==
    {j \in Jobs : rows[j].status \in {"pending", "retry"} /\ rows[j].wait <= now}

\* The rows ORDER BY available_at LIMIT batch picks out of S.
Oldest(rows, S) ==
    {P \in SUBSET S :
        /\ Cardinality(P) <= Batch
        /\ Cardinality(P) = Batch \/ P = S
        /\ \A p \in P, q \in S \ P : rows[p].wait <= rows[q].wait}

\* available_at is not read again before it is next written.
Claimed(r, t, now) ==
    [r EXCEPT !.status = "claimed", !.lockedBy = t, !.lease = now + Lease,
              !.wait = 0, !.attempts = @ + 1]

\* claim_due_state_ticks and claim_usage_rollup set neither a lease nor an
\* owner, and charge no attempt.
ClaimedLeaseless(r) == [r EXCEPT !.status = "claimed", !.wait = 0]

\* The WHERE clause of complete, fail and release.
Holds(t, j) ==
    /\ outbox[j].status = "claimed"
    /\ outbox[j].lockedBy = t
    /\ outbox[j].lease > Now(t)

-----------------------------------------------------------------------------
(* Enqueueing and reclaiming. *)

\* INSERT ... ON CONFLICT (dedupe_key) DO NOTHING.
Enqueue(j) ==
    /\ outbox[j].status = "absent"
    /\ outbox' = [outbox EXCEPT ![j] = [NoRow EXCEPT !.status = "pending"]]
    /\ UNCHANGED <<tick, more>>

\* The first transaction of a scheduler tick: its "now" is current.
SchedulerReclaim ==
    /\ \E j \in Jobs : Expired(outbox[j], 0)
    /\ outbox' = Reclaimed(outbox, 0)
    /\ UNCHANGED <<tick, more>>

-----------------------------------------------------------------------------
(* A consumer's pass. *)

CanOpen(t) ==
    /\ ~tick[t].open
    /\ \A j \in Jobs : outbox[j].lockedBy # t
    /\ Cardinality({u \in Ticks : tick[u].open}) < Processes

Opened(t, age, S) == [tick EXCEPT ![t] = [open |-> TRUE, age |-> age, batch |-> S]]

\* The claim transaction of a leased consumer.  A pass late in its tick opens
\* with an old "now".  reclaims: the visit, notification and report consumers
\* reclaim before they claim; account.delete only claims.
ClaimBatch(t, age, reclaims) ==
    /\ CanOpen(t)
    /\ LET rows == IF reclaims THEN Reclaimed(outbox, -age) ELSE outbox IN
       \E S \in Oldest(rows, Due(rows, -age) \ Leaseless) :
          /\ S # {}
          /\ outbox' = [j \in Jobs |->
                           IF j \in S THEN Claimed(rows[j], t, -age) ELSE rows[j]]
          /\ tick' = Opened(t, age, S)
    /\ UNCHANGED more

\* The claim transaction of the state.settle and usage.rollup consumers.
ClaimLeaseless(t, age) ==
    /\ CanOpen(t)
    /\ \E S \in Oldest(outbox, Due(outbox, -age) \cap Leaseless) :
          /\ S # {}
          /\ outbox' = [j \in Jobs |->
                           IF j \in S THEN ClaimedLeaseless(outbox[j]) ELSE outbox[j]]
          /\ tick' = Opened(t, age, S)
    /\ UNCHANGED more

\* Pass t goes on to its next job; after the last one it ends.
Rest(t, j) ==
    LET left == tick[t].batch \ {j} IN
    tick' = [tick EXCEPT ![t] = IF left = {} THEN Idle ELSE [@ EXCEPT !.batch = left]]

\* Each settlement is an UPDATE guarded by Holds.  When it matches no row it
\* returns false, which no consumer but the notification planner looks at.
Settle(t, j, row) ==
    /\ tick[t].open
    /\ j \in tick[t].batch
    /\ outbox' = IF Holds(t, j) THEN [outbox EXCEPT ![j] = row] ELSE outbox
    /\ Rest(t, j)

Complete(t, j) ==
    /\ j \notin Leaseless
    /\ more[j] = 0
    /\ Settle(t, j, [Unlocked(outbox[j]) EXCEPT !.status = "done"])
    /\ UNCHANGED more

Fail(t, j) ==
    /\ j \notin Leaseless
    /\ Settle(t, j, Requeued(outbox[j], Now(t)))
    /\ UNCHANGED more

\* Mutation of Released: the attempts start from zero again.
ReleasedAfresh(r, now) ==
    [Unlocked(r) EXCEPT !.status = "pending", !.wait = now, !.attempts = 0]

\* GREATEST(attempt_count - 1, 0).
Released(r, now) ==
    [Unlocked(r) EXCEPT !.status = "pending", !.wait = now,
                        !.attempts = IF @ > 1 THEN @ - 1 ELSE 0]

\* The handler did part of its work and wants the job again at once, with
\* the attempt given back.
ReleaseUntil(t, j) ==
    /\ j \notin Leaseless
    /\ more[j] > 0
    /\ Settle(t, j, Released(outbox[j], Now(t)))
    /\ more' = [more EXCEPT ![j] = @ - 1]

\* mark_state_tick_done and mark_rollup_done check the status only.
MarkDone(t, j) ==
    /\ j \in Leaseless
    /\ tick[t].open
    /\ j \in tick[t].batch
    /\ outbox' = IF outbox[j].status \in {"pending", "retry", "claimed"}
                 THEN [outbox EXCEPT ![j].status = "done"]
                 ELSE outbox
    /\ Rest(t, j)
    /\ UNCHANGED more

\* The process dies, or an exception no consumer catches leaves the tick: what
\* the pass had claimed and not settled stays claimed.
Crash(t) ==
    /\ tick[t].open
    /\ tick' = [tick EXCEPT ![t] = Idle]
    /\ UNCHANGED <<outbox, more>>

-----------------------------------------------------------------------------
(* Time. *)

Older(n) == IF n > -MaxTickAge THEN n - 1 ELSE n

Aged(r) ==
    [r EXCEPT
        !.wait = IF r.status \in {"pending", "retry"} THEN Older(@) ELSE @,
        !.lease = IF r.status = "claimed" /\ r.lockedBy # NoTick THEN Older(@) ELSE @]

Advance ==
    /\ \A t \in Ticks : tick[t].open => tick[t].age < MaxTickAge
    /\ outbox' = [j \in Jobs |-> Aged(outbox[j])]
    /\ tick' = [t \in Ticks |->
                   IF tick[t].open THEN [tick[t] EXCEPT !.age = @ + 1] ELSE tick[t]]
    /\ UNCHANGED more

-----------------------------------------------------------------------------
Handle(t, j) == Complete(t, j) \/ Fail(t, j) \/ ReleaseUntil(t, j) \/ MarkDone(t, j)

Claim(t, age) ==
    \/ \E reclaims \in BOOLEAN : ClaimBatch(t, age, reclaims)
    \/ ClaimLeaseless(t, age)

Next ==
    \/ \E j \in Jobs : Enqueue(j)
    \/ SchedulerReclaim
    \/ \E t \in Ticks : \E age \in 0 .. MaxTickAge : Claim(t, age)
    \/ \E t \in Ticks : \E j \in Jobs : Handle(t, j)
    \/ \E t \in Ticks : Crash(t)
    \/ Advance

Spec == Init /\ [][Next]_vars

\* Worker and scheduler processes are restarted when they die and their loops
\* run for ever (compose.prod.yaml:10, restart: unless-stopped); no step of a pass
\* blocks.  Nothing is assumed of Enqueue or Crash.
Fairness ==
    /\ WF_vars(Advance)
    /\ WF_vars(SchedulerReclaim)
    /\ \A t \in Ticks : WF_vars(\E age \in 0 .. MaxTickAge : Claim(t, age))
    /\ \A t \in Ticks, j \in Jobs : WF_vars(Handle(t, j))

FairSpec == Spec /\ Fairness

-----------------------------------------------------------------------------
(* Properties. *)

\* A leased job that waits for a worker has an attempt left, and a claimed one
\* has been charged for the claim: the claim statement does not look at
\* max_attempts, so this rests on fail, reclaim and release alone
\* (0017:136-197, 308-352, 368-401; 0015:145-176).
AttemptLeft ==
    \A j \in Jobs \ Leaseless :
        /\ outbox[j].status \in {"pending", "retry"} => outbox[j].attempts < MaxAttempts
        /\ outbox[j].status = "claimed" => outbox[j].attempts > 0

\* A pass that is still within its lease has not lost any job of its batch,
\* whatever other passes and the scheduler reclaim: only a pass that outlived
\* its lease can find that its settlement matches no row.
LateIfRobbed ==
    \A t \in Ticks : \A j \in tick[t].batch \ Leaseless :
        Holds(t, j) \/ tick[t].age > Lease

\* The guard lease_expires_at > p_now of complete, fail and release never
\* rejects the holder of a row: claim and settlement are given the same "now",
\* so only locked_by protects a job from a late worker.
LeaseCheckIdle ==
    \A t \in Ticks : \A j \in tick[t].batch :
        outbox[j].status = "claimed" /\ outbox[j].lockedBy = t => Holds(t, j)

\* The outbox keeps the promise of JobLifecycle: a job is tried at most
\* MaxAttempts times, is dead only when its attempts are used up, and never
\* leaves done or dead, however late, stale or crashed its workers are.
Phase ==
    [j \in Jobs |-> IF outbox[j].status \in {"pending", "claimed", "retry"}
                    THEN "open" ELSE outbox[j].status]

Tries == [j \in Jobs |-> outbox[j].attempts]

Lifecycle == INSTANCE JobLifecycle WITH phase <- Phase, tries <- Tries

LifecycleSpec == Lifecycle!Spec

\* Every leased job that was enqueued is in the end done or dead, although any
\* pass may crash with claimed jobs in its batch.
EventuallySettled ==
    \A j \in Jobs \ Leaseless :
        outbox[j].status # "absent" ~> outbox[j].status \in {"done", "dead"}
=============================================================================
