----------------------------- MODULE SpiritState -----------------------------
(***************************************************************************)
(* The status of one spirit: home, away, study or lost.  It is settled from *)
(* the time since the last interaction by GET /bootstrap and by the hourly *)
(* state.settle jobs, brought back from lost by POST /recall, and brought   *)
(* home by the last visit that ends.  The stage of the spirit, which the    *)
(* same transactions advance, depends on its having been lost.              *)
(*                                                                         *)
(* Every operation is one transaction that locks the spirit, but it takes   *)
(* its "now" when the request or the worker's tick begins: by the time it   *)
(* has the lock that now may be lag old, and operations that began later    *)
(* may have gone first.  Times are relative to the clock, in hours: idle is *)
(* the time since last_interact_at.                                         *)
(*                                                                         *)
(* study_until and away_until are NULL: only the debug surface sets them.   *)
(* What other transactions may have changed before any of these is chosen   *)
(* in it: the preferences and pacts a settlement looks at, and which stages *)
(* the bond, the memories and the growth are ready for.                     *)
(***************************************************************************)
EXTENDS Naturals, FiniteSets

CONSTANTS
    Recalls,      \* client ids of POST /recall
    StudyAfter,   \* IDLE_STUDY_OR_AWAY, 18 hours
    LostAfter,    \* IDLE_LOST, 72 hours
    MaxLag,       \* bound: how old the now of an operation gets
    MaxJobs,      \* bound: state.settle jobs that wait
    MaxVisits     \* bound: visits under way

ASSUME SpiritStateAssumption ==
    /\ {StudyAfter, LostAfter, MaxJobs, MaxVisits} \subseteq Nat \ {0}
    /\ StudyAfter < LostAfter
    /\ MaxLag \in Nat
    /\ IsFiniteSet(Recalls)

VARIABLES
    spirit,     \* the spirits row
    visits,     \* visits of this spirit that are eligible
    recalled,   \* client ids with a recall record, its memory and growth event
    scanned,    \* the state.settle job of this hour has been inserted
    jobs,       \* state.settle jobs pending
    batch,      \* the jobs the worker has claimed and not yet settled
    since,      \* history: the time since the newest interaction
    lostTimes   \* history: how often the spirit became lost

spiritVars ==
    <<spirit, visits, recalled, scanned, jobs, batch, since, lostTimes>>

Stages == {"whelp", "formed", "awake"}

\* idle is not counted beyond the point where it makes no more difference.
MaxIdle == LostAfter + MaxLag

\* Losses are not counted beyond the point where every recall can have one.
MaxLosses == Cardinality(Recalls) + 1

SpiritTypeOK ==
    /\ spirit \in [status: {"home", "away", "study", "lost"}, idle: 0 .. MaxIdle,
                   beenLost: BOOLEAN, visited: BOOLEAN, stage: Stages]
    /\ visits \in 0 .. MaxVisits
    /\ recalled \in SUBSET Recalls
    /\ scanned \in BOOLEAN
    /\ jobs \in 0 .. MaxJobs
    /\ batch \in 0 .. MaxJobs
    /\ since \in 0 .. MaxIdle
    /\ lostTimes \in 0 .. MaxLosses

SpiritInit ==
    /\ spirit = [status |-> "home", idle |-> 0, beenLost |-> FALSE, visited |-> FALSE,
                 stage |-> "whelp"]
    /\ visits = 0
    /\ recalled = {}
    /\ scanned = FALSE
    /\ jobs = 0
    /\ batch = 0
    /\ since = 0
    /\ lostTimes = 0

-----------------------------------------------------------------------------
(* domain/spirit_state and domain/evolution. *)

\* Counting up to a bound.
Later(n, max) == IF n < max THEN n + 1 ELSE n

\* now - last_interact_at, cut at zero, at a now that is lag old.
IdleAt(s, lag) == IF s.idle > lag THEN s.idle - lag ELSE 0

\* Mutation of Settled: has_been_lost follows the status.
SettledForgets(s, idler, lag) ==
    LET idle == IdleAt(s, lag)
        status == IF idle >= LostAfter THEN "lost"
                  ELSE IF idle >= StudyAfter THEN idler
                  ELSE IF s.status = "lost" THEN "lost" ELSE "home"
    IN [s EXCEPT !.status = status, !.beenLost = status = "lost"]

\* desired_spirit_state.  idler is what an idle spirit does: study if a pact is
\* active or visits are off, else away.
Settled(s, idler, lag) ==
    LET idle == IdleAt(s, lag)
        status == IF idle >= LostAfter THEN "lost"
                  ELSE IF idle >= StudyAfter THEN idler
                  ELSE IF s.status = "lost" THEN "lost" ELSE "home"
    IN [s EXCEPT !.status = status, !.beenLost = @ \/ status = "lost"]

\* next_stage.
NextStage(s, r) ==
    IF s.stage = "whelp" /\ "formed" \in r THEN "formed"
    ELSE IF s.stage = "formed" /\ "awake" \in r /\ (s.visited \/ s.beenLost) THEN "awake"
    ELSE s.stage

\* maybe_advance_stage: two rounds.
Advanced(s, r) ==
    LET once == [s EXCEPT !.stage = NextStage(s, r)] IN
    [once EXCEPT !.stage = NextStage(once, r)]

\* What bond, memories and growth there may be for a stage.
Ripeness == SUBSET {"formed", "awake"}

\* settle_spirit_state: nothing at all happens when the status stays.
Settle(lag) ==
    \E idler \in {"study", "away"}, ripe \in Ripeness :
        LET s == Settled(spirit, idler, lag) IN
        /\ spirit' = IF s = spirit THEN spirit ELSE Advanced(s, ripe)
        /\ lostTimes' = IF spirit.status # "lost" /\ s.status = "lost"
                        THEN Later(lostTimes, MaxLosses) ELSE lostTimes

\* Mutation of Touched: last_interact_at = now.
TouchedPlainly(s, lag) == [s EXCEPT !.idle = lag]

\* last_interact_at = GREATEST(last_interact_at, now).
Touched(s, lag) == IF lag < s.idle THEN [s EXCEPT !.idle = lag] ELSE s

Newest(lag) == since' = IF lag < since THEN lag ELSE since

-----------------------------------------------------------------------------
(* The API. *)

Lags == 0 .. MaxLag

\* GET /bootstrap, its writing transaction.
Bootstrap(lag) ==
    /\ Settle(lag)
    /\ UNCHANGED <<visits, recalled, scanned, jobs, batch, since>>

\* A chat turn, a feed, a pact answer: each touches the spirit, whatever its
\* status, and all but the chat turn advance its stage.
Interact(lag) ==
    /\ LET s == Touched(spirit, lag) IN
       spirit' \in {s} \cup {Advanced(s, ripe) : ripe \in Ripeness}
    /\ Newest(lag)
    /\ UNCHANGED <<visits, recalled, scanned, jobs, batch, lostTimes>>

\* An extraction: growth, and no touch.
Grow ==
    /\ \E ripe \in Ripeness : spirit' = Advanced(spirit, ripe)
    /\ UNCHANGED <<visits, recalled, scanned, jobs, batch, since, lostTimes>>

\* Mutation of MayRecall: SPIRIT_NOT_LOST is not raised.
MayRecallAny(r) == r \notin recalled

\* A new client id, and a spirit that is lost; a completed one is replayed.
MayRecall(r) == r \notin recalled /\ spirit.status = "lost"

\* POST /recall, by food or by a sight memory that is the owner's and active.
Recall(r, lag) ==
    /\ IF MayRecall(r)
       THEN /\ recalled' = recalled \cup {r}
            /\ \E ripe \in Ripeness :
                  spirit' = [Advanced(Touched(spirit, lag), ripe)
                                EXCEPT !.status = "home", !.beenLost = TRUE]
            /\ Newest(lag)
       ELSE UNCHANGED <<recalled, spirit, since>>
    /\ UNCHANGED <<visits, scanned, jobs, batch, lostTimes>>

-----------------------------------------------------------------------------
(* The scheduler, the worker and the visits. *)

\* Mutation of ScanDue: ON CONFLICT is missing.
ScanDueAgain == spirit.idle >= StudyAfter

\* Mutation of ScanDue: only spirits that have just become due.
ScanDueJust == spirit.idle = StudyAfter /\ ~scanned

\* private.enqueue_due_state_jobs: one key an hour.
ScanDue == spirit.idle >= StudyAfter /\ ~scanned

Scan ==
    /\ ScanDue
    /\ scanned' = TRUE
    /\ jobs' = jobs + 1
    /\ UNCHANGED <<spirit, visits, recalled, batch, since, lostTimes>>

\* claim_due_state_ticks.
ClaimTicks ==
    /\ batch = 0
    /\ jobs > 0
    /\ batch' = jobs
    /\ jobs' = 0
    /\ UNCHANGED <<spirit, visits, recalled, scanned, since, lostTimes>>

\* The next job of the tick.  Its time_passed event changes no spirit.
SettleTick(lag) ==
    /\ batch > 0
    /\ Settle(lag)
    /\ batch' = batch - 1
    /\ UNCHANGED <<visits, recalled, scanned, jobs, since>>

\* The worker dies, or a job of the batch raises: what is left of the batch is
\* claimed for ever, for these jobs have no lease.
TickCrash ==
    /\ batch > 0
    /\ batch' = 0
    /\ UNCHANGED <<spirit, visits, recalled, scanned, jobs, since, lostTimes>>

\* private.plan_visits, for this spirit; its bucket of twelve hours is left out.
PlanVisits ==
    /\ visits < MaxVisits
    /\ spirit.status \notin {"lost", "study"}
    /\ spirit.status = "away" \/ spirit.idle >= StudyAfter
    /\ visits' \in visits + 1 .. MaxVisits
    /\ UNCHANGED <<spirit, recalled, scanned, jobs, batch, since, lostTimes>>

\* settle_visit, or sync_dead_visit_settles for one that failed.
VisitEnds ==
    /\ visits > 0
    /\ visits' = visits - 1
    /\ spirit' = [spirit EXCEPT !.visited = TRUE,
                                !.status = IF @ = "away" /\ visits = 1 THEN "home" ELSE @]
    /\ UNCHANGED <<recalled, scanned, jobs, batch, since, lostTimes>>

\* Bound: the worker is not more than MaxJobs hours behind.
Hour ==
    /\ jobs < MaxJobs
    /\ spirit' = [spirit EXCEPT !.idle = Later(@, MaxIdle)]
    /\ since' = Later(since, MaxIdle)
    /\ scanned' = FALSE
    /\ UNCHANGED <<visits, recalled, jobs, batch, lostTimes>>

-----------------------------------------------------------------------------
SpiritNext ==
    \/ \E lag \in Lags :
          \/ Bootstrap(lag) \/ Interact(lag) \/ SettleTick(lag)
          \/ \E r \in Recalls : Recall(r, lag)
    \/ Grow
    \/ Scan \/ ClaimTicks \/ TickCrash
    \/ PlanVisits \/ VisitEnds
    \/ Hour

SpiritSpec == SpiritInit /\ [][SpiritNext]_spiritVars

\* The scheduler scans every hour and the worker ticks, and does not die in every
\* tick.  Users need do nothing.
SpiritFairness ==
    /\ WF_spiritVars(Hour) /\ WF_spiritVars(ClaimTicks) /\ SF_spiritVars(Scan)
    /\ SF_spiritVars(\E lag \in Lags : SettleTick(lag))

SpiritFairSpec == SpiritSpec /\ SpiritFairness

-----------------------------------------------------------------------------
(* Properties. *)

\* However late the now of a settlement or of an interaction is, and in whatever
\* order they get the lock, the spirit is lost only LostAfter after the newest
\* interaction (docs/p08-p10-integration.md:120).
NeverLostEarly ==
    [][spirit.status # "lost" /\ spirit'.status = "lost" => since >= LostAfter]_spiritVars

\* Awake takes a visit or a loss (docs/p13-integration.md:162), whichever of the
\* transactions that write them, or settle or recall the spirit, comes last.
AwakeEarned ==
    /\ spirit.stage = "awake" => spirit.visited \/ spirit.beenLost
    /\ spirit.status = "lost" => spirit.beenLost

\* A loss is ended by one recall: two client ids that race for a lost spirit do
\* not both get the memory and the growth.
OneRecallALoss == Cardinality(recalled) <= lostTimes

\* A spirit nobody cares for becomes lost, although the worker may die with the
\* hour's state.settle job, which is then never done: the next hour has another.
EventuallyLost ==
    spirit.idle >= LostAfter ~> (spirit.status = "lost" \/ spirit.idle < LostAfter)

\* A lost spirit stays lost until a recall succeeds: "keep lost as long as there
\* is no success envelope" (docs/p20-integration.md:33), "lost > study > away >
\* home" (docs/p08-p10-integration.md:113).
LostEndsByRecall ==
    [][spirit.status = "lost" /\ spirit'.status # "lost" => recalled' # recalled]_spiritVars

\* Status, stage, losses and recalls agree.
SpiritInv == SpiritTypeOK /\ AwakeEarned /\ OneRecallALoss
=============================================================================
