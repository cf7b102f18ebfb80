------------------------------- MODULE Visits --------------------------------
(***************************************************************************)
(* The visits of one spirit and the visit.settle jobs that end them, on top *)
(* of the outbox.  A visit is planned, the scheduler enqueues its job, and  *)
(* a pass of the worker claims the job, asks the postcard provider outside  *)
(* any transaction, and settles the visit in private.settle_visit; a visit  *)
(* whose job is dead is given up by private.sync_dead_visit_settles.        *)
(*                                                                         *)
(* settle_visit asks that the job is claimed and its lease not over, but    *)
(* not by whom: a pass that has lost the job may still settle the visit, on *)
(* the claim of another.  It locks the job, the visit and then the spirit,  *)
(* and each of its statements sees what was committed before it, so it is   *)
(* one step, and so is sync_dead_visit_settles.                             *)
(*                                                                         *)
(* A job is named by its visit.                                             *)
(***************************************************************************)
EXTENDS Outbox

CONSTANTS
    NoJob,      \* a pass with no job to put back
    PerPlan     \* destinations of a plan

ASSUME VisitsAssumption ==
    /\ Leaseless = {}
    /\ MaxContinuations = 0
    /\ NoJob \notin Jobs
    /\ PerPlan \in Nat \ {0}

VARIABLES
    visit,     \* visit[j]: the status of the visit with job j
    settled,   \* visits with their postcards and their growth event
    away,      \* spirits.status of the visitor is away
    visited,   \* spirits.has_visited
    failing    \* failing[t]: the job whose settlement raised in pass t

visitVars == <<vars, visit, settled, away, visited, failing>>

VisitTypeOK ==
    /\ TypeOK
    /\ visit \in [Jobs -> {"none", "eligible", "settled", "failed"}]
    /\ settled \in SUBSET Jobs
    /\ away \in BOOLEAN
    /\ visited \in BOOLEAN
    /\ failing \in [Ticks -> Jobs \cup {NoJob}]

VisitInit ==
    /\ Init
    /\ visit = [j \in Jobs |-> "none"]
    /\ settled = {}
    /\ away = FALSE
    /\ visited = FALSE
    /\ failing = [t \in Ticks |-> NoJob]

-----------------------------------------------------------------------------
(* The visitor and the scheduler. *)

\* private.plan_visits: the keys of a plan are new, see visits.eligibility_key.
Plan(S) ==
    /\ S # {}
    /\ Cardinality(S) <= PerPlan
    /\ \A j \in S : visit[j] = "none"
    /\ visit' = [j \in Jobs |-> IF j \in S THEN "eligible" ELSE visit[j]]
    /\ UNCHANGED <<vars, settled, away, visited, failing>>

\* The spirit leaves, or is called back, by what SpiritState describes.
Stroll ==
    /\ away' = ~away
    /\ UNCHANGED <<vars, visit, settled, visited, failing>>

\* enqueue_due_visit_settle_jobs.
EnqueueVisit(j) ==
    /\ visit[j] = "eligible"
    /\ Enqueue(j)
    /\ UNCHANGED <<visit, settled, away, visited, failing>>

\* The scheduler reclaims every consumer's jobs, and leaves the visits alone.
ReclaimVisits ==
    /\ SchedulerReclaim
    /\ UNCHANGED <<visit, settled, away, visited, failing>>

-----------------------------------------------------------------------------
(* A pass of process_due_visit_settles. *)

\* Mutation of Over: the spirit is looked at before the visits are.
OverTooSoon(S, outcome) ==
    /\ visit' = [j \in Jobs |-> IF j \in S THEN outcome ELSE visit[j]]
    /\ visited' = (visited \/ S # {})
    /\ away' = (away /\ (S = {} \/ \E j \in Jobs : visit[j] = "eligible"))

\* The visits in S end, and with the last one under way the spirit is home.
Over(S, outcome) ==
    /\ visit' = [j \in Jobs |-> IF j \in S THEN outcome ELSE visit[j]]
    /\ visited' = (visited \/ S # {})
    /\ away' = (away /\ (S = {} \/ \E j \in Jobs : visit'[j] = "eligible"))

\* Mutation of Abandoned: jobs that wait for another try are given up as well.
AbandonedRetries ==
    {j \in Jobs : outbox'[j].status \in {"retry", "dead"} /\ visit[j] = "eligible"}

\* Mutation of Abandoned: only those whose job this transaction gave up.
AbandonedNow ==
    {j \in Jobs : /\ outbox'[j].status = "dead" /\ outbox[j].status # "dead"
                  /\ visit[j] = "eligible"}

\* Visits whose job is dead, after what the transaction did to the outbox.
Abandoned == {j \in Jobs : outbox'[j].status = "dead" /\ visit[j] = "eligible"}

\* The claiming transaction: it reclaims, syncs the dead, and claims.
ClaimVisits(t, age) ==
    /\ ClaimBatch(t, age, TRUE)
    /\ Over(Abandoned, "failed")
    /\ UNCHANGED <<settled, failing>>

\* The same, when no job is due.
ClaimNothing(age) ==
    /\ outbox' = Reclaimed(outbox, -age)
    /\ Due(outbox', -age) = {}
    /\ Over(Abandoned, "failed")
    /\ UNCHANGED <<tick, more, settled, failing>>

Current(t, j) == tick[t].open /\ j \in tick[t].batch /\ failing[t] = NoJob

\* Mutation of MaySettle: the status of the job is not asked.
MaySettleAnyway(t, j) == outbox[j].lease >= Now(t)

\* VISIT_SETTLE_NOT_CLAIMED is not raised.
MaySettle(t, j) == outbox[j].status = "claimed" /\ outbox[j].lease > Now(t)

\* settle_visit, the postcards being written.
SettleVisit(t, j) ==
    /\ Current(t, j)
    /\ MaySettle(t, j)
    /\ outbox' = [outbox EXCEPT ![j] = [Unlocked(@) EXCEPT !.status = "done"]]
    /\ Over({j} \cap {i \in Jobs : visit[i] = "eligible"}, "settled")
    /\ settled' = settled \cup {j}
    /\ Rest(t, j)
    /\ UNCHANGED <<more, failing>>

\* It raises, for ~MaySettle or for any other DBAPIError (two visits that lock
\* each other's spirits, say), and is rolled back.
SettleRaises(t, j) ==
    /\ Current(t, j)
    /\ failing' = [failing EXCEPT ![t] = j]
    /\ UNCHANGED <<vars, visit, settled, away, visited>>

\* The WHERE clause of mark_visit_settle_retry, which asks for no lease.
RetryHolds(t, j) == outbox[j].status = "claimed" /\ outbox[j].lockedBy = t

\* mark_visit_settle_retry, and the sync in the same transaction if that was
\* the last try.
RetryVisit(t) ==
    LET j == failing[t] IN
    /\ j # NoJob
    /\ IF RetryHolds(t, j)
       THEN /\ outbox' = [outbox EXCEPT ![j] = Requeued(@, Now(t))]
            /\ Over(IF outbox'[j].status = "dead" THEN Abandoned ELSE {}, "failed")
       ELSE UNCHANGED <<outbox, visit, visited, away>>
    /\ Rest(t, j)
    /\ failing' = [failing EXCEPT ![t] = NoJob]
    /\ UNCHANGED <<more, settled>>

VisitCrash(t) ==
    /\ Crash(t)
    /\ failing' = [failing EXCEPT ![t] = NoJob]
    /\ UNCHANGED <<visit, settled, away, visited>>

VisitAdvance ==
    /\ Advance
    /\ UNCHANGED <<visit, settled, away, visited, failing>>

-----------------------------------------------------------------------------
ClaimSome(t) == \E age \in 0 .. MaxTickAge : ClaimVisits(t, age)

HandleVisit(t) ==
    \/ \E j \in Jobs : SettleVisit(t, j) \/ SettleRaises(t, j)
    \/ RetryVisit(t)

VisitNext ==
    \/ \E S \in SUBSET Jobs : Plan(S)
    \/ Stroll
    \/ \E j \in Jobs : EnqueueVisit(j)
    \/ ReclaimVisits
    \/ \E t \in Ticks : ClaimSome(t) \/ HandleVisit(t) \/ VisitCrash(t)
    \/ \E age \in 0 .. MaxTickAge : ClaimNothing(age)
    \/ VisitAdvance

VisitSpec == VisitInit /\ [][VisitNext]_visitVars

\* As in Outbox; in addition the scheduler enqueues, and the worker's passes
\* sync the dead although there is nothing to claim.
VisitFairSpec ==
    /\ VisitSpec
    /\ WF_visitVars(VisitAdvance) /\ WF_visitVars(ReclaimVisits)
    /\ \A j \in Jobs : WF_visitVars(EnqueueVisit(j))
    /\ \A t \in Ticks : WF_visitVars(ClaimSome(t)) /\ WF_visitVars(HandleVisit(t))
    /\ WF_visitVars(ClaimNothing(0))

-----------------------------------------------------------------------------
(* Properties. *)

\* However late, robbed or repeated its passes are, a visit has its postcards
\* and its growth exactly when it is settled, it is settled exactly when its job
\* is done, and it fails only when its job is given up (0016:38-139, 0015:203-214).
OneOutcome ==
    \A j \in Jobs :
        /\ visit[j] = "settled" <=> outbox[j].status = "done"
        /\ visit[j] = "settled" <=> j \in settled
        /\ visit[j] = "failed" => outbox[j].status = "dead"

\* The spirit does not stay away after the last visit under way has ended,
\* whichever of settlement and giving up ends it, and whether one visit or several
\* end at once (0016:101-110, 0015:219-229).
HomeAfterLast ==
    [][(\E j \in Jobs : visit[j] = "eligible") /\ ~(\E j \in Jobs : visit'[j] = "eligible")
          => ~away']_visitVars

\* A visit that is planned ends, although its passes may crash and raise, and
\* although the scheduler's reclaim may be what gives its job up.
VisitsEnd == \A j \in Jobs : visit[j] = "eligible" ~> visit[j] \in {"settled", "failed"}
=============================================================================
