------------------------------- MODULE LifeProofs -------------------------------
(***************************************************************************)
(* Theorems about what one spirit lives through: SpiritState, its status   *)
(* and stage, for every idle time, lag, number of recalls and of jobs;     *)
(* Feeds, for any feeds, devices, client ids, contents, limits of a day    *)
(* and thresholds of the stages; Talk, for any messages, rounds of         *)
(* onboarding and of a window, samples, memories and handlers at a time;   *)
(* and Sight, for every set of upload sessions, moderations and cleanups,  *)
(* and every lifetime of a session.                                        *)
(***************************************************************************)
EXTENDS SpiritState, Feeds, Talk, Sight, TLAPS, FiniteSetTheorems, SequenceTheorems

-----------------------------------------------------------------------------
(* SpiritState: the inductive invariant. *)

SpiritRow == [status: {"home", "away", "study", "lost"}, idle: 0 .. MaxIdle,
              beenLost: BOOLEAN, visited: BOOLEAN, stage: Stages]

\* A loss that no recall has ended yet is there exactly when the next recall
\* would succeed, so recalls stay behind losses; last_interact_at is the newest
\* interaction, for every writer takes the GREATEST; and an hour begins with
\* room for its job.
SpiritIndInv ==
    /\ SpiritTypeOK
    /\ AwakeEarned
    /\ since = spirit.idle
    /\ Cardinality(recalled) <= lostTimes
    /\ spirit.status = "lost" => Cardinality(recalled) < lostTimes
    /\ ~scanned => jobs < MaxJobs

LEMMA SpiritConstants ==
    /\ StudyAfter \in Nat \ {0} /\ LostAfter \in Nat \ {0}
    /\ MaxJobs \in Nat \ {0} /\ MaxVisits \in Nat \ {0} /\ MaxLag \in Nat
    /\ IsFiniteSet(Recalls) /\ Cardinality(Recalls) \in Nat
    /\ MaxIdle \in Nat /\ MaxLosses \in Nat
    /\ StudyAfter < LostAfter
<1>1. /\ StudyAfter \in Nat \ {0} /\ LostAfter \in Nat \ {0} /\ StudyAfter < LostAfter
      /\ MaxJobs \in Nat \ {0} /\ MaxVisits \in Nat \ {0} /\ MaxLag \in Nat
      /\ IsFiniteSet(Recalls)
  BY SpiritStateAssumption
<1>2. Cardinality(Recalls) \in Nat
  BY <1>1, FS_CardinalityType
<1> QED
  BY <1>1, <1>2 DEF MaxIdle, MaxLosses

\* The recalls are among the client ids, so MaxLosses leaves room for one loss more.
LEMMA RecalledCount ==
    ASSUME SpiritTypeOK
    PROVE  /\ IsFiniteSet(recalled) /\ Cardinality(recalled) \in Nat
           /\ Cardinality(recalled) < MaxLosses
<1>1. recalled \in SUBSET Recalls
  BY DEF SpiritTypeOK
<1>2. IsFiniteSet(recalled) /\ Cardinality(recalled) <= Cardinality(Recalls)
  BY <1>1, SpiritConstants, FS_Subset
<1>3. Cardinality(recalled) \in Nat
  BY <1>2, FS_CardinalityType
<1> QED
  BY <1>2, <1>3, SpiritConstants DEF MaxLosses

-----------------------------------------------------------------------------
(* SpiritState: the operators of domain/spirit_state and domain/evolution. *)

LEMMA LaterTyped ==
    ASSUME NEW max \in Nat, NEW n \in 0 .. max
    PROVE  Later(n, max) \in 0 .. max /\ Later(n, max) >= n
  BY DEF Later

LEMMA NextStageOK ==
    ASSUME NEW s \in SpiritRow, NEW r
    PROVE  /\ NextStage(s, r) \in Stages
           /\ NextStage(s, r) = "awake" => s.stage = "awake" \/ s.visited \/ s.beenLost
  BY DEF SpiritRow, NextStage, Stages

\* Advancing a stage touches nothing else, and does not reach awake unearned.
LEMMA AdvancedOK ==
    ASSUME NEW s \in SpiritRow, NEW r
    PROVE  /\ Advanced(s, r) \in SpiritRow
           /\ Advanced(s, r).status = s.status /\ Advanced(s, r).idle = s.idle
           /\ Advanced(s, r).beenLost = s.beenLost /\ Advanced(s, r).visited = s.visited
           /\ Advanced(s, r).stage = "awake" => s.stage = "awake" \/ s.visited \/ s.beenLost
<1> DEFINE once == [s EXCEPT !.stage = NextStage(s, r)]
<1>1. NextStage(s, r) \in Stages
  BY NextStageOK
<1>2. /\ once \in SpiritRow /\ once.stage = NextStage(s, r)
      /\ once.status = s.status /\ once.idle = s.idle
      /\ once.beenLost = s.beenLost /\ once.visited = s.visited
  BY <1>1 DEF SpiritRow
<1>3. Advanced(s, r) = [once EXCEPT !.stage = NextStage(once, r)]
  BY DEF Advanced
<1> HIDE DEF once
<1>4. /\ NextStage(once, r) \in Stages
      /\ NextStage(once, r) = "awake" => once.stage = "awake" \/ once.visited \/ once.beenLost
      /\ NextStage(s, r) = "awake" => s.stage = "awake" \/ s.visited \/ s.beenLost
  BY <1>2, NextStageOK
<1> QED
  BY <1>2, <1>3, <1>4 DEF SpiritRow

\* A settlement leaves the idle time and makes the spirit lost only after LostAfter.
LEMMA SettledOK ==
    ASSUME NEW s \in SpiritRow, NEW idler \in {"study", "away"}, NEW lag \in Lags
    PROVE  LET t == Settled(s, idler, lag) IN
           /\ t \in SpiritRow
           /\ t.idle = s.idle /\ t.visited = s.visited /\ t.stage = s.stage
           /\ s.beenLost => t.beenLost
           /\ t.status = "lost" => t.beenLost
           /\ s.status # "lost" /\ t.status = "lost" => s.idle >= LostAfter
<1> DEFINE idle == IdleAt(s, lag)
           status == IF idle >= LostAfter THEN "lost"
                     ELSE IF idle >= StudyAfter THEN idler
                     ELSE IF s.status = "lost" THEN "lost" ELSE "home"
<1>1. /\ s.idle \in Nat /\ lag \in Nat /\ idle \in Nat /\ idle <= s.idle
  BY SpiritConstants DEF SpiritRow, Lags, IdleAt
<1>2. /\ status \in {"home", "away", "study", "lost"}
      /\ s.status # "lost" /\ status = "lost" => s.idle >= LostAfter
  BY <1>1, SpiritConstants
<1>3. Settled(s, idler, lag) =
          [s EXCEPT !.status = status, !.beenLost = @ \/ status = "lost"]
  BY DEF Settled
<1> HIDE DEF status
<1> QED
  BY <1>2, <1>3 DEF SpiritRow

LEMMA TouchedOK ==
    ASSUME NEW s \in SpiritRow, NEW lag \in Lags
    PROVE  /\ Touched(s, lag) \in SpiritRow
           /\ Touched(s, lag).idle = IF lag < s.idle THEN lag ELSE s.idle
           /\ Touched(s, lag).status = s.status /\ Touched(s, lag).stage = s.stage
           /\ Touched(s, lag).visited = s.visited /\ Touched(s, lag).beenLost = s.beenLost
<1>1. lag \in Nat /\ s.idle \in 0 .. MaxIdle
  BY SpiritConstants DEF Lags, SpiritRow
<1>2. lag < s.idle => lag \in 0 .. MaxIdle
  BY <1>1, SpiritConstants
<1> QED
  BY <1>1, <1>2 DEF Touched, SpiritRow

-----------------------------------------------------------------------------
(* SpiritState: the steps. *)

SpiritEarned(s) ==
    /\ s.stage = "awake" => s.visited \/ s.beenLost
    /\ s.status = "lost" => s.beenLost

\* A step that recalls nothing.
LEMMA SpiritQuiet ==
    ASSUME SpiritIndInv, NEW s \in SpiritRow, spirit' = s, SpiritEarned(s),
           visits' \in 0 .. MaxVisits, scanned' \in BOOLEAN,
           jobs' \in 0 .. MaxJobs, batch' \in 0 .. MaxJobs, ~scanned' => jobs' < MaxJobs,
           since' = s.idle, recalled' = recalled,
           lostTimes' \in 0 .. MaxLosses, lostTimes' >= lostTimes,
           s.status = "lost" /\ spirit.status # "lost" =>
               lostTimes' = Later(lostTimes, MaxLosses)
    PROVE  SpiritIndInv'
<1>1. /\ Cardinality(recalled) \in Nat /\ Cardinality(recalled) < MaxLosses
      /\ lostTimes \in 0 .. MaxLosses /\ recalled \in SUBSET Recalls
      /\ MaxLosses \in Nat
  BY RecalledCount, SpiritConstants DEF SpiritIndInv, SpiritTypeOK
<1>2. since' \in 0 .. MaxIdle
  BY DEF SpiritRow
<1>3. SpiritTypeOK'
  BY <1>1, <1>2 DEF SpiritTypeOK, SpiritRow
<1>4. AwakeEarned'
  BY DEF AwakeEarned, SpiritEarned
<1>5. Cardinality(recalled) <= lostTimes'
  BY <1>1 DEF SpiritIndInv
<1>6. s.status = "lost" => Cardinality(recalled) < lostTimes'
  BY <1>1 DEF SpiritIndInv, Later
<1> QED
  BY <1>3, <1>4, <1>5, <1>6 DEF SpiritIndInv

LEMMA SpiritTyped ==
    ASSUME SpiritIndInv
    PROVE  /\ spirit \in SpiritRow /\ SpiritEarned(spirit) /\ since = spirit.idle
           /\ visits \in 0 .. MaxVisits /\ recalled \in SUBSET Recalls
           /\ scanned \in BOOLEAN /\ jobs \in 0 .. MaxJobs /\ batch \in 0 .. MaxJobs
           /\ lostTimes \in 0 .. MaxLosses /\ lostTimes \in Nat
           /\ ~scanned => jobs < MaxJobs
<1>1. MaxLosses \in Nat
  BY SpiritConstants
<1> QED
  BY <1>1 DEF SpiritIndInv, SpiritTypeOK, SpiritRow, SpiritEarned, AwakeEarned

LEMMA SettleSpirit ==
    ASSUME SpiritIndInv, NEW lag \in Lags, Settle(lag)
    PROVE  /\ spirit' \in SpiritRow /\ SpiritEarned(spirit)'
           /\ spirit'.idle = spirit.idle
           /\ lostTimes' \in 0 .. MaxLosses /\ lostTimes' >= lostTimes
           /\ spirit'.status = "lost" /\ spirit.status # "lost" =>
                 /\ lostTimes' = Later(lostTimes, MaxLosses)
                 /\ since >= LostAfter
<1>1. PICK idler \in {"study", "away"}, ripe \in Ripeness :
          LET s == Settled(spirit, idler, lag) IN
          /\ spirit' = IF s = spirit THEN spirit ELSE Advanced(s, ripe)
          /\ lostTimes' = IF spirit.status # "lost" /\ s.status = "lost"
                          THEN Later(lostTimes, MaxLosses) ELSE lostTimes
  BY DEF Settle
<1> DEFINE s == Settled(spirit, idler, lag)
<1>2. /\ spirit \in SpiritRow /\ SpiritEarned(spirit) /\ since = spirit.idle
      /\ lostTimes \in 0 .. MaxLosses /\ lostTimes \in Nat /\ MaxLosses \in Nat
  BY SpiritTyped, SpiritConstants
<1>3. /\ s \in SpiritRow
      /\ s.idle = spirit.idle /\ s.visited = spirit.visited /\ s.stage = spirit.stage
      /\ spirit.beenLost => s.beenLost
      /\ s.status = "lost" => s.beenLost
      /\ spirit.status # "lost" /\ s.status = "lost" => spirit.idle >= LostAfter
  BY <1>2, SettledOK
<1>4. /\ spirit' = IF s = spirit THEN spirit ELSE Advanced(s, ripe)
      /\ lostTimes' = IF spirit.status # "lost" /\ s.status = "lost"
                      THEN Later(lostTimes, MaxLosses) ELSE lostTimes
  BY <1>1
<1> HIDE DEF s
<1>5. /\ Advanced(s, ripe) \in SpiritRow
      /\ Advanced(s, ripe).status = s.status /\ Advanced(s, ripe).idle = s.idle
      /\ Advanced(s, ripe).beenLost = s.beenLost /\ Advanced(s, ripe).visited = s.visited
      /\ Advanced(s, ripe).stage = "awake" => s.stage = "awake" \/ s.visited \/ s.beenLost
  BY <1>3, AdvancedOK
<1>6. /\ spirit' \in SpiritRow /\ spirit'.idle = spirit.idle /\ spirit'.status = s.status
      /\ SpiritEarned(spirit)'
  BY <1>2, <1>3, <1>4, <1>5 DEF SpiritEarned
<1>7. lostTimes' \in 0 .. MaxLosses /\ lostTimes' >= lostTimes
  BY <1>2, <1>4, LaterTyped
<1>8. spirit'.status = "lost" /\ spirit.status # "lost" =>
          lostTimes' = Later(lostTimes, MaxLosses) /\ since >= LostAfter
  BY <1>2, <1>3, <1>4, <1>6
<1> QED
  BY <1>6, <1>7, <1>8

LEMMA SettlementsInv ==
    ASSUME SpiritIndInv, NEW lag \in Lags, Bootstrap(lag) \/ SettleTick(lag)
    PROVE  SpiritIndInv'
<1>1. /\ Settle(lag) /\ UNCHANGED <<visits, recalled, scanned, jobs, since>>
      /\ batch' = batch \/ (batch > 0 /\ batch' = batch - 1)
  BY DEF Bootstrap, SettleTick
<1>2. /\ spirit' \in SpiritRow /\ SpiritEarned(spirit)' /\ spirit'.idle = spirit.idle
      /\ lostTimes' \in 0 .. MaxLosses /\ lostTimes' >= lostTimes
      /\ spirit'.status = "lost" /\ spirit.status # "lost" =>
            lostTimes' = Later(lostTimes, MaxLosses)
  BY <1>1, SettleSpirit
<1>3. /\ since = spirit.idle /\ visits \in 0 .. MaxVisits /\ scanned \in BOOLEAN
      /\ jobs \in 0 .. MaxJobs /\ batch' \in 0 .. MaxJobs
      /\ ~scanned => jobs < MaxJobs
  BY <1>1, SpiritTyped, SpiritConstants
<1>4. SpiritEarned(spirit')
  BY <1>2 DEF SpiritEarned
<1> QED
  BY <1>1, <1>2, <1>3, <1>4, SpiritQuiet

LEMMA InteractInv ==
    ASSUME SpiritIndInv, NEW lag \in Lags, Interact(lag) PROVE SpiritIndInv'
<1> DEFINE t == Touched(spirit, lag)
<1>1. /\ spirit' = t \/ \E ripe \in Ripeness : spirit' = Advanced(t, ripe)
      /\ since' = IF lag < since THEN lag ELSE since
      /\ UNCHANGED <<visits, recalled, scanned, jobs, batch, lostTimes>>
  BY DEF Interact, Newest
<1>2. /\ spirit \in SpiritRow /\ SpiritEarned(spirit) /\ since = spirit.idle
      /\ visits \in 0 .. MaxVisits /\ scanned \in BOOLEAN
      /\ jobs \in 0 .. MaxJobs /\ batch \in 0 .. MaxJobs
      /\ ~scanned => jobs < MaxJobs
      /\ lostTimes \in 0 .. MaxLosses /\ lostTimes \in Nat
  BY SpiritTyped
<1>3. /\ t \in SpiritRow /\ t.idle = since' /\ t.status = spirit.status
      /\ t.stage = spirit.stage /\ t.visited = spirit.visited
      /\ t.beenLost = spirit.beenLost
  BY <1>1, <1>2, TouchedOK
<1> HIDE DEF t
<1>4. /\ spirit' \in SpiritRow /\ spirit'.idle = since' /\ spirit'.status = spirit.status
      /\ SpiritEarned(spirit')
  BY <1>1, <1>2, <1>3, AdvancedOK DEF SpiritEarned
<1> QED
  BY <1>1, <1>2, <1>4, SpiritQuiet

LEMMA RecallInv ==
    ASSUME SpiritIndInv, NEW r \in Recalls, NEW lag \in Lags, Recall(r, lag)
    PROVE  SpiritIndInv'
<1>1. UNCHANGED <<visits, scanned, jobs, batch, lostTimes>>
  BY DEF Recall
<1>2. /\ spirit \in SpiritRow /\ SpiritEarned(spirit) /\ since = spirit.idle
      /\ visits \in 0 .. MaxVisits /\ scanned \in BOOLEAN /\ recalled \in SUBSET Recalls
      /\ jobs \in 0 .. MaxJobs /\ batch \in 0 .. MaxJobs
      /\ ~scanned => jobs < MaxJobs
      /\ lostTimes \in 0 .. MaxLosses /\ lostTimes \in Nat
      /\ Cardinality(recalled) <= lostTimes
      /\ IsFiniteSet(recalled) /\ Cardinality(recalled) \in Nat
  BY SpiritTyped, RecalledCount DEF SpiritIndInv
<1>3. CASE ~MayRecall(r)
  <2>1. spirit' = spirit /\ since' = since /\ recalled' = recalled
    BY <1>3 DEF Recall
  <2> QED
    BY <1>1, <1>2, <2>1, SpiritQuiet
<1>4. CASE MayRecall(r)
  <2> DEFINE t == Touched(spirit, lag)
  <2>1. /\ recalled' = recalled \cup {r} /\ r \notin recalled /\ spirit.status = "lost"
        /\ since' = IF lag < since THEN lag ELSE since
    BY <1>4 DEF Recall, MayRecall, Newest
  <2>2. PICK ripe \in Ripeness :
            spirit' = [Advanced(t, ripe) EXCEPT !.status = "home", !.beenLost = TRUE]
    BY <1>4 DEF Recall
  <2>3. t \in SpiritRow /\ t.idle = since'
    BY <1>2, <2>1, TouchedOK
  <2> HIDE DEF t
  <2>4. Advanced(t, ripe) \in SpiritRow /\ Advanced(t, ripe).idle = since'
    BY <2>3, AdvancedOK
  <2>5. /\ spirit' \in SpiritRow /\ spirit'.idle = since' /\ spirit'.status = "home"
        /\ spirit'.beenLost
    BY <2>2, <2>4 DEF SpiritRow
  <2>6. Cardinality(recalled') = Cardinality(recalled) + 1
    BY <1>2, <2>1, FS_AddElement
  <2>7. Cardinality(recalled) < lostTimes
    BY <2>1 DEF SpiritIndInv
  <2>8. SpiritTypeOK'
    <3>1. since' \in 0 .. MaxIdle /\ recalled' \in SUBSET Recalls
      BY <1>2, <2>1, <2>5 DEF SpiritRow
    <3> QED
      BY <1>1, <1>2, <2>5, <3>1 DEF SpiritTypeOK, SpiritRow
  <2>9. AwakeEarned'
    BY <2>5 DEF AwakeEarned
  <2>10. Cardinality(recalled') <= lostTimes'
    BY <1>1, <1>2, <2>6, <2>7
  <2> QED
    BY <1>1, <1>2, <2>5, <2>8, <2>9, <2>10 DEF SpiritIndInv
<1> QED
  BY <1>3, <1>4

LEMMA OtherSpiritInv ==
    ASSUME SpiritIndInv,
           Grow \/ Scan \/ ClaimTicks \/ TickCrash \/ PlanVisits \/ VisitEnds \/ Hour
    PROVE  SpiritIndInv'
<1>1. /\ spirit \in SpiritRow /\ SpiritEarned(spirit) /\ since = spirit.idle
      /\ visits \in 0 .. MaxVisits /\ scanned \in BOOLEAN /\ recalled \in SUBSET Recalls
      /\ jobs \in 0 .. MaxJobs /\ batch \in 0 .. MaxJobs
      /\ ~scanned => jobs < MaxJobs
      /\ lostTimes \in 0 .. MaxLosses /\ lostTimes \in Nat
  BY SpiritTyped
<1>2. /\ MaxIdle \in Nat /\ MaxJobs \in Nat /\ MaxVisits \in Nat
  BY SpiritConstants
<1>3. CASE Grow
  <2>1. PICK ripe \in Ripeness : spirit' = Advanced(spirit, ripe)
    BY <1>3 DEF Grow
  <2>2. /\ spirit' \in SpiritRow /\ SpiritEarned(spirit')
        /\ spirit'.idle = spirit.idle /\ spirit'.status = spirit.status
    BY <1>1, <2>1, AdvancedOK DEF SpiritEarned
  <2>3. UNCHANGED <<visits, recalled, scanned, jobs, batch, since, lostTimes>>
    BY <1>3 DEF Grow
  <2> QED
    BY <1>1, <2>2, <2>3, SpiritQuiet
<1>4. CASE Scan
  <2>1. /\ UNCHANGED <<spirit, visits, recalled, batch, since, lostTimes>>
        /\ jobs' \in 0 .. MaxJobs /\ scanned' = TRUE
    BY <1>1, <1>2, <1>4 DEF Scan, ScanDue
  <2> QED
    BY <1>1, <2>1, SpiritQuiet
<1>5. CASE ClaimTicks \/ TickCrash
  <2>1. /\ UNCHANGED <<spirit, visits, recalled, scanned, since, lostTimes>>
        /\ jobs' \in 0 .. MaxJobs /\ batch' \in 0 .. MaxJobs
        /\ ~scanned' => jobs' < MaxJobs
    BY <1>1, <1>2, <1>5 DEF ClaimTicks, TickCrash
  <2> QED
    BY <1>1, <2>1, SpiritQuiet
<1>6. CASE PlanVisits
  <2>1. /\ UNCHANGED <<spirit, recalled, scanned, jobs, batch, since, lostTimes>>
        /\ visits' \in 0 .. MaxVisits
    BY <1>1, <1>2, <1>6 DEF PlanVisits
  <2> QED
    BY <1>1, <2>1, SpiritQuiet
<1>7. CASE VisitEnds
  <2>1. /\ spirit' = [spirit EXCEPT !.visited = TRUE, !.status =
                         IF @ = "away" /\ visits = 1 THEN "home" ELSE @]
    BY <1>7 DEF VisitEnds
  <2>2. /\ visits' \in 0 .. MaxVisits
        /\ UNCHANGED <<recalled, scanned, jobs, batch, since, lostTimes>>
    BY <1>1, <1>2, <1>7 DEF VisitEnds
  <2>3. /\ spirit' \in SpiritRow /\ SpiritEarned(spirit') /\ spirit'.idle = spirit.idle
        /\ spirit'.status = "lost" => spirit.status = "lost"
    BY <1>1, <2>1 DEF SpiritRow, SpiritEarned
  <2> QED
    BY <1>1, <2>2, <2>3, SpiritQuiet
<1>8. CASE Hour
  <2>1. /\ spirit' = [spirit EXCEPT !.idle = Later(@, MaxIdle)]
        /\ since' = Later(since, MaxIdle)
    BY <1>8 DEF Hour
  <2>2. /\ UNCHANGED <<visits, recalled, jobs, batch, lostTimes>>
        /\ jobs' < MaxJobs /\ scanned' \in BOOLEAN
    BY <1>8 DEF Hour
  <2>3. Later(spirit.idle, MaxIdle) \in 0 .. MaxIdle
    BY <1>1, <1>2, LaterTyped DEF SpiritRow
  <2>4. /\ spirit' \in SpiritRow /\ SpiritEarned(spirit') /\ spirit'.idle = since'
        /\ spirit'.status = spirit.status
    BY <1>1, <2>1, <2>3 DEF SpiritRow, SpiritEarned
  <2> QED
    <3>1. /\ lostTimes' \in 0 .. MaxLosses /\ lostTimes' >= lostTimes
          /\ jobs' \in 0 .. MaxJobs /\ batch' \in 0 .. MaxJobs
          /\ visits' \in 0 .. MaxVisits /\ recalled' = recalled
      BY <1>1, <2>2
    <3> QED
      BY <2>2, <2>4, <3>1, SpiritQuiet
<1> QED
  BY <1>3, <1>4, <1>5, <1>6, <1>7, <1>8

LEMMA SpiritNextInv ==
    ASSUME SpiritIndInv, [SpiritNext]_spiritVars PROVE SpiritIndInv'
<1>1. CASE UNCHANGED spiritVars
  BY <1>1 DEF spiritVars, SpiritIndInv, SpiritTypeOK, AwakeEarned
<1>2. CASE SpiritNext
  BY <1>2, SettlementsInv, InteractInv, RecallInv, OtherSpiritInv DEF SpiritNext
<1> QED
  BY <1>1, <1>2

LEMMA SpiritInitInv == SpiritInit => SpiritIndInv
<1> SUFFICES ASSUME SpiritInit PROVE SpiritIndInv
  OBVIOUS
<1>1. Cardinality(recalled) = 0
  BY FS_EmptySet DEF SpiritInit
<1>2. /\ 0 \in 0 .. MaxIdle /\ 0 \in 0 .. MaxVisits /\ 0 \in 0 .. MaxJobs
      /\ 0 \in 0 .. MaxLosses /\ 0 < MaxJobs
  BY SpiritConstants
<1>3. SpiritTypeOK
  BY <1>2 DEF SpiritInit, SpiritTypeOK, Stages
<1> QED
  BY <1>1, <1>2, <1>3 DEF SpiritInit, SpiritIndInv, AwakeEarned

LEMMA SpiritInvariant == SpiritSpec => []SpiritIndInv
  BY SpiritInitInv, SpiritNextInv, PTL DEF SpiritSpec

-----------------------------------------------------------------------------
(* SpiritState: the theorems. *)

\* Awake is reached only after a visit or a loss, a lost spirit has been lost,
\* and no loss pays for two recalls, in whatever order settlements, recalls,
\* visits and interactions with stale nows get the lock.
THEOREM SpiritAgrees == SpiritSpec => []SpiritInv
<1>1. SpiritIndInv => SpiritInv
  BY DEF SpiritIndInv, SpiritInv, OneRecallALoss
<1> QED
  BY <1>1, SpiritInvariant, PTL

\* A settlement whose now is old, or that waited while an interaction committed,
\* does not make the spirit lost before LostAfter: it compares its now with the
\* last_interact_at that it reads under the lock, and a now that is old only
\* makes the idle time shorter.
THEOREM LostInTime == SpiritSpec => NeverLostEarly
<1>1. SpiritIndInv /\ [SpiritNext]_spiritVars =>
          [spirit.status # "lost" /\ spirit'.status = "lost"
               => since >= LostAfter]_spiritVars
  <2> SUFFICES ASSUME SpiritIndInv, SpiritNext, spirit.status # "lost",
                      spirit'.status = "lost"
               PROVE  since >= LostAfter
    OBVIOUS
  <2>1. spirit \in SpiritRow
    BY SpiritTyped
  <2>2. ASSUME NEW lag \in Lags, Bootstrap(lag) \/ SettleTick(lag)
        PROVE  since >= LostAfter
    BY <2>2, SettleSpirit DEF Bootstrap, SettleTick
  <2>3. ASSUME NEW lag \in Lags, Interact(lag) PROVE FALSE
    BY <2>1, <2>3, TouchedOK, AdvancedOK DEF Interact
  <2>4. ASSUME NEW lag \in Lags, NEW r \in Recalls, Recall(r, lag) PROVE FALSE
    <3>1. MayRecall(r)
      BY <2>4 DEF Recall
    <3> QED
      BY <3>1 DEF MayRecall
  <2>5. ASSUME Grow PROVE FALSE
    BY <2>1, <2>5, AdvancedOK DEF Grow
  <2>6. ASSUME Scan \/ ClaimTicks \/ TickCrash \/ PlanVisits PROVE FALSE
    BY <2>6 DEF Scan, ClaimTicks, TickCrash, PlanVisits
  <2>7. ASSUME VisitEnds \/ Hour PROVE FALSE
    BY <2>1, <2>7 DEF VisitEnds, Hour, SpiritRow
  <2> QED
    BY <2>2, <2>3, <2>4, <2>5, <2>6, <2>7 DEF SpiritNext
<1> QED
  BY <1>1, SpiritInvariant, PTL DEF SpiritSpec, NeverLostEarly

-----------------------------------------------------------------------------
(* Feeds: the inductive invariant. *)

HostRow == [hunger: 0 .. 100, energy: 0 .. 100, mood: 0 .. 100, bond: 0 .. 100,
            version: Nat, stage: {"whelp", "formed", "awake"}, travelled: BOOLEAN]

FeedStatuses == {"none", "pending", "processing", "accepted", "rejected", "cancelled"}

FeedRow == [kind: Kinds, status: FeedStatuses,
            promise: {"none", "active", "completed", "cancelled"},
            content: Contents \cup {"none"}, applied: BOOLEAN]

FeedsTyped ==
    /\ host \in HostRow
    /\ feeds \in [FeedIds -> FeedRow]
    /\ memory \in [FeedIds -> {"none", "active"}]
    /\ feedUsed \in [DOMAIN DailyLimits -> Nat]

\* What the row of feed f says of its claim, its memory and its events.
FeedOK(f, row, mem, events, made) ==
    /\ row.status # "none" <=> made
    /\ row.status = "none" => row.promise = "none"
    /\ mem # "none" <=> /\ row.status = "accepted"
                        /\ row.kind \in {"knowledge", "location", "photo"}
    /\ <<"feed_accepted", f>> \in events <=> row.status \in {"accepted", "cancelled"}
    /\ <<"promise_completed", f>> \in events <=> row.promise = "completed"
    /\ row.promise # "none" => row.kind = "promise" /\ row.status \in {"accepted", "cancelled"}

FeedMade(f) == ~NewFeedClaim("create", f)

RowsOK == \A f \in FeedIds : FeedOK(f, feeds[f], memory[f], feedEvents, FeedMade(f))

ChargedFeeds(c) == {f \in FeedIds : feeds[f].status # "none" /\ Capability(feeds[f].kind) = c}

QuotaOK ==
    \A c \in DOMAIN DailyLimits :
        feedUsed[c] <= DailyLimits[c] /\ feedUsed[c] = Cardinality(ChargedFeeds(c))

KeptPromises == {f \in FeedIds : feeds[f].promise = "completed"}

BondOK == host.bond = Clamp(5 * Cardinality(KeptPromises))

\* A device that has the version of the spirit shows its promise as it is.
ShownOK ==
    /\ ~overwritten /\ DOMAIN shown = FeedDevices
    /\ \A d \in FeedDevices :
          /\ shown[d].version \in Nat /\ shown[d].version <= host.version
          /\ shown[d].version = host.version =>
                \A f \in FeedIds : shown[d].promise.of = {f} =>
                    shown[d].promise.content = feeds[f].content

FeedsIndInv ==
    FeedsTyped /\ OneActivePromise /\ RowsOK /\ QuotaOK /\ BondOK /\ ShownOK

-----------------------------------------------------------------------------
(* Feeds: the spirit grows. *)

LEMMA Clamped ==
    /\ \A n \in Int : Clamp(n) \in 0 .. 100
    /\ \A n \in 0 .. 100 : Clamp(n) = n
    /\ \A m, n \in Nat : Clamp(Clamp(m) + n) = Clamp(m + n)
  BY DEF Clamp

LEMMA BumpedHost ==
    ASSUME NEW s \in HostRow
    PROVE  /\ Bumped(s) \in HostRow /\ Bumped(s).version = s.version + 1
           /\ Bumped(s).bond = s.bond
<1> DEFINE version == s.version + 1
<1>1. version \in Nat /\ Bumped(s) = [s EXCEPT !.version = version]
  BY DEF HostRow, Bumped
<1>2. Bumped(s) \in HostRow
  <2> HIDE DEF version
  <2> QED
    BY <1>1 DEF HostRow
<1> QED
  BY <1>2 DEF HostRow, Bumped

Payload(p) == DOMAIN p \subseteq {"hunger", "energy", "mood", "bond"} /\ \A x \in DOMAIN p : p[x] \in Int

LEMMA GrownHost ==
    ASSUME NEW s \in HostRow, NEW p, Payload(p)
    PROVE  LET grown == WithGrowth(s, p, TRUE)
           IN /\ grown \in HostRow /\ grown.version = s.version + 1
              /\ grown.bond = Clamp(s.bond + IF "bond" \in DOMAIN p THEN p["bond"] ELSE 0)
<1> DEFINE c == Compact(p)
           h == [x \in DOMAIN s |-> IF x \in DOMAIN c THEN Clamp(s[x] + c[x]) ELSE s[x]]
<1>1. WithGrowth(s, p, TRUE) = Bumped(h)
  BY DEF WithGrowth
<1>2. DOMAIN c \subseteq DOMAIN p /\ \A x \in DOMAIN p : IF p[x] = 0 THEN x \notin DOMAIN c
                                                     ELSE x \in DOMAIN c /\ c[x] = p[x]
  BY DEF Compact
<1>3. DOMAIN s = {"hunger", "energy", "mood", "bond", "version", "stage", "travelled"}
  BY DEF HostRow
<1>4. DOMAIN c \subseteq {"hunger", "energy", "mood", "bond"} /\ \A x \in DOMAIN c : c[x] \in Int
  BY <1>2 DEF Payload
<1> HIDE DEF c
<1>5. \A x \in {"hunger", "energy", "mood", "bond"} : s[x] \in 0 .. 100 /\ h[x] \in 0 .. 100
  <2>1. \A x \in {"hunger", "energy", "mood", "bond"} : s[x] \in 0 .. 100
    BY DEF HostRow
  <2>2. ASSUME NEW x \in {"hunger", "energy", "mood", "bond"} PROVE h[x] \in 0 .. 100
    <3>1. h[x] = IF x \in DOMAIN c THEN Clamp(s[x] + c[x]) ELSE s[x]
      BY <1>3
    <3>2. s[x] \in 0 .. 100
      BY <2>1
    <3>3. ASSUME x \in DOMAIN c PROVE Clamp(s[x] + c[x]) \in 0 .. 100
      <4>1. s[x] + c[x] \in Int
        BY <1>4, <3>2, <3>3
      <4> QED
        BY <4>1, Clamped
    <3> QED
      BY <3>1, <3>2, <3>3
  <2> QED
    BY <2>1, <2>2
<1>6. h["version"] = s.version /\ h["stage"] = s.stage /\ h["travelled"] = s.travelled
  BY <1>3, <1>4
<1>7. h = [hunger |-> h["hunger"], energy |-> h["energy"], mood |-> h["mood"], bond |-> h["bond"],
           version |-> h["version"], stage |-> h["stage"], travelled |-> h["travelled"]]
  BY <1>3
<1>8. h \in HostRow
  BY <1>5, <1>6, <1>7 DEF HostRow
<1>9. h.bond = Clamp(s.bond + IF "bond" \in DOMAIN p THEN p["bond"] ELSE 0)
  <2>1. h["bond"] = IF "bond" \in DOMAIN c THEN Clamp(s["bond"] + c["bond"]) ELSE s["bond"]
    BY <1>3
  <2>2. s["bond"] \in 0 .. 100 /\ Clamp(s["bond"] + 0) = s["bond"]
    <3>1. s["bond"] \in 0 .. 100
      BY <1>5
    <3>2. s["bond"] + 0 = s["bond"]
      BY <3>1
    <3>3. \A n \in 0 .. 100 : Clamp(n) = n
      BY Clamped
    <3>4. Clamp(s["bond"]) = s["bond"]
      BY <3>1, <3>3
    <3> QED
      BY <3>1, <3>2, <3>4
  <2> QED
    BY <1>2, <2>1, <2>2
<1> HIDE DEF h
<1> QED
  BY <1>1, <1>6, <1>8, <1>9, BumpedHost

LEMMA SteppedHost ==
    ASSUME NEW s \in HostRow, NEW rows, NEW mem
    PROVE  LET next == StageStep(s, rows, mem)
           IN next \in HostRow /\ next.version >= s.version /\ next.bond = s.bond
<1> DEFINE formed == [s EXCEPT !.stage = "formed"]
           awake == [s EXCEPT !.stage = "awake"]
<1>1. /\ formed \in HostRow /\ formed.version = s.version /\ formed.bond = s.bond
      /\ awake \in HostRow /\ awake.version = s.version /\ awake.bond = s.bond
  BY DEF HostRow
<1>2. StageStep(s, rows, mem) \in {Bumped(formed), Bumped(awake), s}
  BY DEF StageStep
<1> HIDE DEF formed, awake
<1>3. s.version \in Nat
  BY DEF HostRow
<1> QED
  BY <1>1, <1>2, <1>3, BumpedHost

LEMMA AdvancedHost ==
    ASSUME NEW s \in HostRow, NEW rows, NEW mem
    PROVE  LET next == StageAdvanced(s, rows, mem)
           IN next \in HostRow /\ next.version >= s.version /\ next.bond = s.bond
<1> DEFINE t == StageStep(s, rows, mem)
<1>1. t \in HostRow /\ t.version >= s.version /\ t.bond = s.bond
  BY SteppedHost
<1>2. StageAdvanced(s, rows, mem) = StageStep(t, rows, mem)
  BY DEF StageAdvanced
<1> HIDE DEF t
<1>3. s.version \in Nat /\ t.version \in Nat
  BY <1>1 DEF HostRow
<1>4. LET u == StageStep(t, rows, mem)
      IN u \in HostRow /\ u.version >= t.version /\ u.bond = t.bond
  BY <1>1, SteppedHost
<1>5. StageStep(t, rows, mem).version \in Nat
  BY <1>4 DEF HostRow
<1> QED
  BY <1>1, <1>2, <1>3, <1>4, <1>5

\* _record_growth with a key that is new.
LEMMA GrowsHost ==
    ASSUME NEW s \in HostRow, NEW key, key \notin feedEvents, NEW p, Payload(p), NEW rows, NEW mem
    PROVE  LET grown == GrowsWith(s, key, p, rows, mem)
           IN /\ grown \in HostRow /\ grown.version > s.version
              /\ grown.bond = Clamp(s.bond + IF "bond" \in DOMAIN p THEN p["bond"] ELSE 0)
<1> DEFINE w == WithGrowth(s, p, TRUE)
<1>1. GrowsWith(s, key, p, rows, mem) = StageAdvanced(w, rows, mem)
  BY DEF GrowsWith, Grown
<1>2. /\ w \in HostRow /\ w.version = s.version + 1
      /\ w.bond = Clamp(s.bond + IF "bond" \in DOMAIN p THEN p["bond"] ELSE 0)
  BY GrownHost
<1> HIDE DEF w
<1> DEFINE u == StageAdvanced(w, rows, mem)
<1>3. u \in HostRow /\ u.version >= w.version /\ u.bond = w.bond
  BY <1>2, AdvancedHost
<1> HIDE DEF u
<1>4. s.version \in Nat /\ u.version \in Nat
  BY <1>3 DEF HostRow
<1> QED
  BY <1>1, <1>2, <1>3, <1>4 DEF u

LEMMA Payloads ==
    /\ \A k \in Kinds : \A p \in Deltas(k) : Payload(p) /\ "bond" \notin DOMAIN p
    /\ Payload(<< >>) /\ DOMAIN << >> = {}
    /\ Payload([bond |-> 5]) /\ DOMAIN [bond |-> 5] = {"bond"} /\ [bond |-> 5]["bond"] = 5
<1>1. \A k \in Kinds : \A p \in Deltas(k) : p \in {[hunger |-> 10, energy |-> 10],
                                                   [mood |-> 12], [mood |-> -15], << >>}
  BY DEF Deltas
<1>2. Payload([hunger |-> 10, energy |-> 10]) /\ "bond" \notin DOMAIN [hunger |-> 10, energy |-> 10]
  BY DEF Payload
<1>3. Payload([mood |-> 12]) /\ "bond" \notin DOMAIN [mood |-> 12]
  BY DEF Payload
<1>4. Payload([mood |-> -15]) /\ "bond" \notin DOMAIN [mood |-> -15]
  BY DEF Payload
<1>5. Payload(<< >>) /\ DOMAIN << >> = {}
  BY DEF Payload
<1>6. Payload([bond |-> 5]) /\ DOMAIN [bond |-> 5] = {"bond"} /\ [bond |-> 5]["bond"] = 5
  BY DEF Payload
<1> QED
  BY <1>1, <1>2, <1>3, <1>4, <1>5, <1>6

-----------------------------------------------------------------------------
(* Feeds: what is counted. *)

LEMMA FeedConstants ==
    /\ IsFiniteSet(FeedIds)
    /\ \A k \in Kinds : k # "promise" <=> Capability(k) \in DOMAIN DailyLimits
    /\ \A c \in DOMAIN DailyLimits : DailyLimits[c] \in Nat
<1>1. IsFiniteSet(FeedIds) /\ DailyLimits \in [{"food", "knowledge", "emotion", "sight"} -> Nat]
  BY FeedsAssumption
<1> QED
  BY <1>1 DEF Kinds, Capability

LEMMA FeedSets ==
    /\ \A c : IsFiniteSet(ChargedFeeds(c)) /\ Cardinality(ChargedFeeds(c)) \in Nat
    /\ IsFiniteSet(KeptPromises) /\ Cardinality(KeptPromises) \in Nat
<1>1. \A c : ChargedFeeds(c) \in SUBSET FeedIds
  BY DEF ChargedFeeds
<1>2. KeptPromises \in SUBSET FeedIds
  BY DEF KeptPromises
<1>3. \A c : IsFiniteSet(ChargedFeeds(c))
  BY <1>1, FeedConstants, FS_Subset
<1>4. IsFiniteSet(KeptPromises)
  BY <1>2, FeedConstants, FS_Subset
<1> QED
  BY <1>3, <1>4, FS_CardinalityType

\* A feed that there is changes.
LEMMA QuotaKept ==
    ASSUME FeedsIndInv, NEW f \in FeedIds, NEW row \in FeedRow,
           feeds' = [feeds EXCEPT ![f] = row], row.kind = feeds[f].kind,
           feeds[f].status = "none" => row.status = "none" \/ row.kind = "promise",
           feeds[f].status # "none" => row.status # "none",
           feedUsed' = feedUsed
    PROVE  QuotaOK'
<1>1. ASSUME NEW c \in DOMAIN DailyLimits PROVE ChargedFeeds(c)' = ChargedFeeds(c)
  <2>1. feeds'[f] = row /\ \A g \in FeedIds \ {f} : feeds'[g] = feeds[g]
    BY DEF FeedsIndInv, FeedsTyped
  <2>2. row.kind = "promise" => Capability(row.kind) # c
    BY FeedConstants DEF Capability, FeedRow
  <2> QED
    BY <2>1, <2>2 DEF ChargedFeeds
<1> QED
  BY <1>1 DEF FeedsIndInv, QuotaOK

\* A new feed is charged.
LEMMA QuotaConsumed ==
    ASSUME FeedsIndInv, NEW f \in FeedIds, NEW row \in FeedRow,
           feeds' = [feeds EXCEPT ![f] = row], row.kind = feeds[f].kind,
           feeds[f].status = "none", row.status # "none", row.kind # "promise",
           QuotaLeft(row.kind), ConsumeQuota(row.kind)
    PROVE  QuotaOK' /\ feedUsed' \in [DOMAIN DailyLimits -> Nat]
<1> DEFINE k == Capability(row.kind)
<1>1. k \in DOMAIN DailyLimits
  BY FeedConstants DEF FeedRow
<1>2. feedUsed \in [DOMAIN DailyLimits -> Nat] /\ feedUsed' = [feedUsed EXCEPT ![k] = feedUsed[k] + 1]
      /\ feedUsed[k] < DailyLimits[k]
  BY DEF FeedsIndInv, FeedsTyped, ConsumeQuota, QuotaLeft
<1>3. feeds'[f] = row /\ \A g \in FeedIds \ {f} : feeds'[g] = feeds[g]
  BY DEF FeedsIndInv, FeedsTyped
<1>4. ChargedFeeds(k)' = ChargedFeeds(k) \cup {f} /\ f \notin ChargedFeeds(k)
  BY <1>3 DEF ChargedFeeds
<1>5. \A c \in DOMAIN DailyLimits : c # k => ChargedFeeds(c)' = ChargedFeeds(c)
  BY <1>3 DEF ChargedFeeds
<1> HIDE DEF k
<1>6. Cardinality(ChargedFeeds(k) \cup {f}) = Cardinality(ChargedFeeds(k)) + 1
  BY <1>4, FeedSets, FS_AddElement
<1>7. ASSUME NEW c \in DOMAIN DailyLimits
      PROVE  feedUsed'[c] <= DailyLimits[c] /\ feedUsed'[c] = Cardinality(ChargedFeeds(c)')
  <2>1. feedUsed[c] <= DailyLimits[c] /\ feedUsed[c] = Cardinality(ChargedFeeds(c))
        /\ feedUsed[c] \in Nat /\ DailyLimits[c] \in Nat
    BY <1>2, FeedConstants DEF FeedsIndInv, QuotaOK
  <2>2. CASE c = k
    <3>1. feedUsed'[c] = feedUsed[c] + 1
      BY <1>1, <1>2, <2>2
    <3> QED
      BY <1>2, <1>4, <1>6, <2>1, <2>2, <3>1
  <2>3. CASE c # k
    BY <1>2, <1>5, <2>1, <2>3
  <2> QED
    BY <2>2, <2>3
<1>8. feedUsed' \in [DOMAIN DailyLimits -> Nat]
  BY <1>1, <1>2
<1> QED
  BY <1>7, <1>8 DEF QuotaOK

LEMMA BondKept ==
    ASSUME FeedsIndInv, NEW f \in FeedIds, NEW row \in FeedRow,
           feeds' = [feeds EXCEPT ![f] = row],
           row.promise = "completed" <=> feeds[f].promise = "completed",
           host'.bond = host.bond
    PROVE  BondOK'
<1>1. KeptPromises' = KeptPromises
  BY DEF KeptPromises, FeedsIndInv, FeedsTyped
<1> QED
  BY <1>1 DEF FeedsIndInv, BondOK

LEMMA BondEarned ==
    ASSUME FeedsIndInv, NEW f \in FeedIds, NEW row \in FeedRow,
           feeds' = [feeds EXCEPT ![f] = row],
           row.promise = "completed", feeds[f].promise # "completed",
           host'.bond = Clamp(host.bond + 5)
    PROVE  BondOK'
<1>1. KeptPromises' = KeptPromises \cup {f} /\ f \notin KeptPromises
  BY DEF KeptPromises, FeedsIndInv, FeedsTyped
<1> DEFINE n == Cardinality(KeptPromises)
<1>2. n \in Nat
  BY FeedSets
<1>3. Cardinality(KeptPromises \cup {f}) = n + 1
  BY <1>1, FeedSets, FS_AddElement
<1>4. host.bond = Clamp(5 * n)
  BY DEF FeedsIndInv, BondOK
<1> HIDE DEF n
<1>5. Clamp(Clamp(5 * n) + 5) = Clamp(5 * n + 5)
  BY <1>2, Clamped
<1>6. 5 * n + 5 = 5 * (n + 1)
  BY <1>2
<1> QED
  BY <1>1, <1>3, <1>4, <1>5, <1>6 DEF BondOK

\* The version moves, or what the promises say stays.
LEMMA ShownKept ==
    ASSUME FeedsIndInv, shown' = shown, ~overwritten', host' \in HostRow,
           \/ host'.version > host.version
           \/ /\ host'.version = host.version
              /\ \A f \in FeedIds : feeds'[f].content = feeds[f].content
    PROVE  ShownOK'
<1>1. host.version \in Nat /\ host'.version \in Nat
  BY DEF FeedsIndInv, FeedsTyped, HostRow
<1> QED
  BY <1>1 DEF FeedsIndInv, ShownOK

-----------------------------------------------------------------------------
(* Feeds: the steps. *)

\* The row of one feed changes.
LEMMA OneFeed ==
    ASSUME FeedsIndInv, NEW f \in FeedIds, NEW row \in FeedRow,
           feeds' = [feeds EXCEPT ![f] = row],
           memory' \in [FeedIds -> {"none", "active"}],
           \A g \in FeedIds \ {f} : memory'[g] = memory[g],
           \A g \in FeedIds \ {f} : \A k \in {"feed_accepted", "promise_completed"} :
               <<k, g>> \in feedEvents' <=> <<k, g>> \in feedEvents,
           \A g \in FeedIds \ {f} : FeedMade(g)' <=> FeedMade(g),
           FeedOK(f, row, memory'[f], feedEvents', FeedMade(f)'),
           row.promise = "active" => feeds[f].promise = "active" \/ ActivePromises = {},
           host' \in HostRow, feedUsed' \in [DOMAIN DailyLimits -> Nat],
           QuotaOK', BondOK', ShownOK'
    PROVE  FeedsIndInv'
<1>1. feeds'[f] = row /\ \A g \in FeedIds \ {f} : feeds'[g] = feeds[g]
  BY DEF FeedsIndInv, FeedsTyped
<1>2. FeedsTyped'
  BY DEF FeedsIndInv, FeedsTyped
<1>3. OneActivePromise'
  BY <1>1 DEF FeedsIndInv, OneActivePromise, ActivePromises
<1>4. ASSUME NEW g \in FeedIds
      PROVE  FeedOK(g, feeds'[g], memory'[g], feedEvents', FeedMade(g)')
  <2>1. CASE g = f
    BY <1>1, <2>1
  <2>2. CASE g # f
    <3>1. FeedOK(g, feeds[g], memory[g], feedEvents, FeedMade(g))
      BY DEF FeedsIndInv, RowsOK
    <3> QED
      BY <1>1, <2>2, <3>1 DEF FeedOK
  <2> QED
    BY <2>1, <2>2
<1>5. RowsOK'
  BY <1>4 DEF RowsOK, FeedMade
<1> QED
  BY <1>2, <1>3, <1>5 DEF FeedsIndInv

\* Nothing of the feeds changes.
LEMMA FeedsSame ==
    ASSUME FeedsIndInv,
           UNCHANGED <<host, feeds, memory, feedUsed, feedClaims, feedEvents, overwritten>>,
           ShownOK'
    PROVE  FeedsIndInv'
<1>1. FeedsTyped' /\ OneActivePromise' /\ QuotaOK' /\ BondOK'
  BY DEF FeedsIndInv, FeedsTyped, OneActivePromise, QuotaOK, ChargedFeeds, BondOK, KeptPromises
<1>2. RowsOK'
  BY DEF FeedsIndInv, RowsOK, FeedOK, FeedMade, NewFeedClaim
<1> QED
  BY <1>1, <1>2 DEF FeedsIndInv

LEMMA FeedTyped ==
    ASSUME FeedsIndInv, NEW f \in FeedIds
    PROVE  /\ host \in HostRow /\ feeds[f] \in FeedRow /\ memory[f] \in {"none", "active"}
           /\ memory \in [FeedIds -> {"none", "active"}]
           /\ feedUsed \in [DOMAIN DailyLimits -> Nat]
           /\ feeds[f].kind \in Kinds
           /\ FeedOK(f, feeds[f], memory[f], feedEvents, FeedMade(f))
BY DEF FeedsIndInv, FeedsTyped, RowsOK, FeedRow

\* The claim of a creation is that of its feed; every other leaves the feeds theirs.
LEMMA ClaimsMade ==
    ASSUME NEW op, NEW cid, NEW hash, feedClaims' = FeedClaimed(op, cid, hash)
    PROVE  \A g : FeedMade(g)' <=> FeedMade(g) \/ (op = "create" /\ cid = g)
<1> DEFINE claim == [op |-> op, cid |-> cid, hash |-> hash]
<1>1. claim.op = op /\ claim.cid = cid /\ feedClaims' = feedClaims \cup {claim}
  BY DEF FeedClaimed
<1> HIDE DEF claim
<1>2. \A g : FeedMade(g) <=> \E c \in feedClaims : c.op = "create" /\ c.cid = g
  BY DEF FeedMade, NewFeedClaim
<1>3. \A g : FeedMade(g)' <=> \E c \in feedClaims' : c.op = "create" /\ c.cid = g
  BY DEF FeedMade, NewFeedClaim
<1> QED
  BY <1>1, <1>2, <1>3

\* insert_accepted_feed.
LEMMA InsertedRow ==
    ASSUME FeedsIndInv, NEW f \in FeedIds, NEW status \in FeedStatuses,
           NEW promise \in {"none", "active"}, NEW content \in Contents \cup {"none"}
    PROVE  LET row == InsertedFeed(f, status, promise, content)
           IN /\ row \in FeedRow /\ row.kind = feeds[f].kind /\ row.status = status
              /\ row.promise = promise /\ row.content = content
<1>1. feeds[f].kind \in Kinds
  BY FeedTyped
<1> DEFINE applied == status # "pending" /\ promise = "none"
           blank == NoFeed(feeds[f].kind)
           row == [blank EXCEPT !.status = status, !.promise = promise, !.content = content,
                                !.applied = applied]
<1>2. InsertedFeed(f, status, promise, content) = row
  BY DEF InsertedFeed
<1>3. applied \in BOOLEAN
  OBVIOUS
<1>4. blank \in FeedRow /\ blank.kind = feeds[f].kind
  BY <1>1 DEF NoFeed, FeedRow, FeedStatuses
<1> HIDE DEF applied, blank
<1>5. row \in FeedRow
  BY <1>3, <1>4 DEF FeedRow
<1>6. row.kind = blank.kind /\ row.status = status /\ row.promise = promise /\ row.content = content
  BY <1>4 DEF FeedRow
<1> QED
  BY <1>2, <1>4, <1>5, <1>6

\* The creation of a feed that is charged.
LEMMA CreatedFeed ==
    ASSUME FeedsIndInv, NEW f \in FeedIds, NEW hash, NEW status \in FeedStatuses \ {"none"},
           NewFeedClaim("create", f), feedClaims' = FeedClaimed("create", f, hash),
           QuotaLeft(feeds[f].kind), ConsumeQuota(feeds[f].kind), feeds[f].kind # "promise",
           feeds' = [feeds EXCEPT ![f] = InsertedFeed(f, status, "none", "none")],
           status \in {"accepted", "rejected", "pending"},
           \/ status = "accepted" /\ feedEvents' = Recorded(feedEvents, <<"feed_accepted", f>>)
           \/ status # "accepted" /\ feedEvents' = feedEvents,
           \/ /\ status = "accepted" /\ feeds[f].kind \in {"knowledge", "location", "photo"}
              /\ memory' = WithMemory(f)
           \/ /\ ~(status = "accepted" /\ feeds[f].kind \in {"knowledge", "location", "photo"})
              /\ memory' = memory,
           host' \in HostRow, host'.version > host.version, host'.bond = host.bond,
           shown' = shown, overwritten' = overwritten
    PROVE  FeedsIndInv'
<1> DEFINE row == InsertedFeed(f, status, "none", "none")
<1>1. row \in FeedRow /\ row.kind = feeds[f].kind /\ row.status = status /\ row.promise = "none"
  BY InsertedRow
<1> HIDE DEF row
<1>2. feeds' = [feeds EXCEPT ![f] = row]
  BY DEF row
<1>3. /\ FeedOK(f, feeds[f], memory[f], feedEvents, FeedMade(f)) /\ feeds[f] \in FeedRow
      /\ memory \in [FeedIds -> {"none", "active"}]
  BY FeedTyped
<1>4. feeds[f].status = "none" /\ feeds[f].promise = "none"
  BY <1>3 DEF FeedOK, FeedMade
<1>5. QuotaOK' /\ feedUsed' \in [DOMAIN DailyLimits -> Nat]
  <2>1. QuotaLeft(row.kind) /\ ConsumeQuota(row.kind) /\ row.status # "none"
    BY <1>1
  <2> QED
    BY <1>1, <1>2, <1>4, <2>1, QuotaConsumed
<1>6. BondOK'
  BY <1>1, <1>2, <1>4, BondKept
<1>7. ShownOK'
  <2>1. ~overwritten'
    BY DEF FeedsIndInv, ShownOK
  <2> QED
    BY <2>1, ShownKept
<1>8. memory' \in [FeedIds -> {"none", "active"}] /\ \A g \in FeedIds \ {f} : memory'[g] = memory[g]
  BY <1>3 DEF WithMemory
<1> DEFINE Marks(k, g) == status = "accepted" /\ k = "feed_accepted" /\ g = f
<1>9. \A k, g : <<k, g>> \in feedEvents' <=> <<k, g>> \in feedEvents \/ Marks(k, g)
  <2>1. CASE status = "accepted" /\ feedEvents' = Recorded(feedEvents, <<"feed_accepted", f>>)
    BY <2>1 DEF Recorded
  <2>2. CASE status # "accepted" /\ feedEvents' = feedEvents
    BY <2>2
  <2> QED
    BY <2>1, <2>2
<1>10. \A g \in FeedIds : FeedMade(g)' <=> FeedMade(g) \/ f = g
  BY ClaimsMade
<1>11. FeedOK(f, row, memory'[f], feedEvents', FeedMade(f)')
  <2>1. memory'[f] # "none" <=> /\ row.status = "accepted"
                               /\ row.kind \in {"knowledge", "location", "photo"}
    BY <1>1, <1>3, <1>4 DEF WithMemory, FeedOK
  <2>2. <<"feed_accepted", f>> \in feedEvents' <=> row.status \in {"accepted", "cancelled"}
    BY <1>1, <1>3, <1>4, <1>9 DEF FeedOK
  <2>3. <<"promise_completed", f>> \notin feedEvents'
    BY <1>3, <1>4, <1>9 DEF FeedOK
  <2>4. FeedMade(f)'
    BY <1>10
  <2> QED
    BY <1>1, <2>1, <2>2, <2>3, <2>4 DEF FeedOK
<1>12. /\ \A g \in FeedIds \ {f} : \A k \in {"feed_accepted", "promise_completed"} :
               <<k, g>> \in feedEvents' <=> <<k, g>> \in feedEvents
       /\ \A g \in FeedIds \ {f} : FeedMade(g)' <=> FeedMade(g)
  BY <1>9, <1>10
<1>13. row.promise = "active" => feeds[f].promise = "active" \/ ActivePromises = {}
  BY <1>1
<1> QED
  BY <1>1, <1>2, <1>5, <1>6, <1>7, <1>8, <1>11, <1>12, <1>13, OneFeed

\* The deltas of a feed leave the bond.
LEMMA GrewHost ==
    ASSUME FeedsIndInv, NEW key, key \notin feedEvents, NEW p, Payload(p), "bond" \notin DOMAIN p,
           NEW rows, NEW mem, host' = GrowsWith(host, key, p, rows, mem)
    PROVE  host' \in HostRow /\ host'.version > host.version /\ host'.bond = host.bond
<1>1. host \in HostRow
  BY DEF FeedsIndInv, FeedsTyped
<1> DEFINE grown == GrowsWith(host, key, p, rows, mem)
<1>2. /\ grown \in HostRow /\ grown.version > host.version
      /\ grown.bond = Clamp(host.bond + IF "bond" \in DOMAIN p THEN p["bond"] ELSE 0)
  BY <1>1, GrowsHost
<1> HIDE DEF grown
<1>3. host.bond \in 0 .. 100
  BY <1>1 DEF HostRow
<1>4. host.bond + 0 = host.bond
  BY <1>3
<1>5. Clamp(host.bond) = host.bond
  BY <1>3, Clamped
<1>6. grown.bond = host.bond
  BY <1>2, <1>4, <1>5
<1> QED
  BY <1>2, <1>6 DEF grown

LEMMA RefreshedHost ==
    ASSUME FeedsIndInv, host' = Refreshed(host)
    PROVE  host' \in HostRow /\ host'.version > host.version /\ host'.bond = host.bond
<1>1. host \in HostRow /\ host.version \in Nat
  BY DEF FeedsIndInv, FeedsTyped, HostRow
<1> QED
  BY <1>1, BumpedHost DEF Refreshed

\* A feed that is not there has no event.
LEMMA NewFeed ==
    ASSUME FeedsIndInv, NEW f \in FeedIds, NewFeedClaim("create", f)
    PROVE  /\ feeds[f].status = "none" /\ feeds[f].promise = "none"
           /\ <<"feed_accepted", f>> \notin feedEvents
<1>1. FeedOK(f, feeds[f], memory[f], feedEvents, FeedMade(f)) /\ ~FeedMade(f)
  BY FeedTyped DEF FeedMade
<1> QED
  BY <1>1 DEF FeedOK

LEMMA ChargedFeed ==
    ASSUME FeedsIndInv, NEW f \in FeedIds, NEW hash,
           NewFeedClaim("create", f), feedClaims' = FeedClaimed("create", f, hash),
           SettleVitals(f) \/ SettleKnowledge(f) \/ SettleLocation(f) \/ SettlePhoto(f),
           shown' = shown, overwritten' = overwritten
    PROVE  FeedsIndInv'
<1>1. <<"feed_accepted", f>> \notin feedEvents
  BY NewFeed
<1>2. feeds[f].kind \in Kinds
  BY FeedTyped
<1>3. CASE SettleVitals(f)
  <2>1. PICK p \in Deltas(feeds[f].kind) :
           host' = GrowsWith(host, <<"feed_accepted", f>>, p, feeds', memory)
    BY <1>3 DEF SettleVitals
  <2>2. Payload(p) /\ "bond" \notin DOMAIN p
    BY <1>2, Payloads
  <2>3. host' \in HostRow /\ host'.version > host.version /\ host'.bond = host.bond
    BY <1>1, <2>1, <2>2, GrewHost
  <2>4. /\ feeds[f].kind \in {"food", "emotion"} /\ QuotaLeft(feeds[f].kind)
        /\ ConsumeQuota(feeds[f].kind)
        /\ feeds' = [feeds EXCEPT ![f] = InsertedFeed(f, "accepted", "none", "none")]
        /\ feedEvents' = Recorded(feedEvents, <<"feed_accepted", f>>) /\ memory' = memory
    BY <1>3 DEF SettleVitals, Fed
  <2>5. "accepted" \in FeedStatuses \ {"none"}
    BY DEF FeedStatuses
  <2> QED
    BY <2>3, <2>4, <2>5, CreatedFeed
<1>4. CASE SettleKnowledge(f)
  <2>1. host' = GrowsWith(host, <<"feed_accepted", f>>, << >>, feeds', memory)
    BY <1>4 DEF SettleKnowledge
  <2>2. Payload(<< >>) /\ "bond" \notin DOMAIN << >>
    BY Payloads
  <2>3. host' \in HostRow /\ host'.version > host.version /\ host'.bond = host.bond
    BY <1>1, <2>1, <2>2, GrewHost
  <2>4. /\ feeds[f].kind = "knowledge" /\ QuotaLeft(feeds[f].kind)
        /\ ConsumeQuota(feeds[f].kind)
        /\ feeds' = [feeds EXCEPT ![f] = InsertedFeed(f, "accepted", "none", "none")]
        /\ feedEvents' = Recorded(feedEvents, <<"feed_accepted", f>>) /\ memory' = WithMemory(f)
    BY <1>4 DEF SettleKnowledge, Fed
  <2>5. "accepted" \in FeedStatuses \ {"none"}
    BY DEF FeedStatuses
  <2> QED
    BY <2>3, <2>4, <2>5, CreatedFeed
<1>5. CASE SettleLocation(f)
  <2>1. /\ feeds[f].kind = "location" /\ QuotaLeft(feeds[f].kind) /\ ConsumeQuota(feeds[f].kind)
    BY <1>5 DEF SettleLocation
  <2>2. CASE /\ feeds' = [feeds EXCEPT ![f] = InsertedFeed(f, "rejected", "none", "none")]
             /\ host' = Refreshed(host) /\ memory' = memory /\ feedEvents' = feedEvents
    <3>1. host' \in HostRow /\ host'.version > host.version /\ host'.bond = host.bond
      BY <2>2, RefreshedHost
    <3>2. "rejected" \in FeedStatuses \ {"none"}
      BY DEF FeedStatuses
    <3> QED
      BY <2>1, <2>2, <3>1, <3>2, CreatedFeed
  <2>3. CASE /\ feeds' = [feeds EXCEPT ![f] = InsertedFeed(f, "accepted", "none", "none")]
             /\ memory' = WithMemory(f)
             /\ host' = GrowsWith(host, <<"feed_accepted", f>>, << >>, feeds', memory')
             /\ feedEvents' = Recorded(feedEvents, <<"feed_accepted", f>>)
    <3>1. Payload(<< >>) /\ "bond" \notin DOMAIN << >>
      BY Payloads
    <3>2. host' \in HostRow /\ host'.version > host.version /\ host'.bond = host.bond
      BY <1>1, <2>3, <3>1, GrewHost
    <3>3. "accepted" \in FeedStatuses \ {"none"}
      BY DEF FeedStatuses
    <3> QED
      BY <2>1, <2>3, <3>2, <3>3, CreatedFeed
  <2> QED
    BY <1>5, <2>2, <2>3 DEF SettleLocation, Fed
<1>6. CASE SettlePhoto(f)
  <2>1. /\ feeds[f].kind = "photo" /\ QuotaLeft(feeds[f].kind) /\ ConsumeQuota(feeds[f].kind)
        /\ feeds' = [feeds EXCEPT ![f] = InsertedFeed(f, "pending", "none", "none")]
        /\ host' = Refreshed(host) /\ memory' = memory /\ feedEvents' = feedEvents
    BY <1>6 DEF SettlePhoto, Fed
  <2>2. host' \in HostRow /\ host'.version > host.version /\ host'.bond = host.bond
    BY <2>1, RefreshedHost
  <2>3. "pending" \in FeedStatuses \ {"none"}
    BY DEF FeedStatuses
  <2> QED
    BY <2>1, <2>2, <2>3, CreatedFeed
<1> QED
  BY <1>3, <1>4, <1>5, <1>6

\* A promise is free, and the only active one.
LEMMA InsertPromiseInv ==
    ASSUME FeedsIndInv, NEW f \in FeedIds, NEW content \in Contents, NEW hash,
           NewFeedClaim("create", f), feedClaims' = FeedClaimed("create", f, hash),
           InsertPromise(f, content), shown' = shown, overwritten' = overwritten
    PROVE  FeedsIndInv'
<1> DEFINE row == InsertedFeed(f, "accepted", "active", content)
<1>1. /\ feeds[f].kind = "promise" /\ ActivePromises = {}
      /\ feeds' = [feeds EXCEPT ![f] = row]
      /\ host' = GrowsWith(host, <<"feed_accepted", f>>, << >>, feeds', memory)
      /\ feedEvents' = feedEvents \cup {<<"feed_accepted", f>>}
      /\ memory' = memory /\ feedUsed' = feedUsed
  BY DEF InsertPromise, Fed, Recorded
<1>2. /\ row \in FeedRow /\ row.kind = "promise" /\ row.status = "accepted"
      /\ row.promise = "active"
  BY <1>1, InsertedRow DEF FeedStatuses
<1> HIDE DEF row
<1>3. /\ feeds[f].status = "none" /\ feeds[f].promise = "none"
      /\ <<"feed_accepted", f>> \notin feedEvents
  BY NewFeed
<1>4. host' \in HostRow /\ host'.version > host.version /\ host'.bond = host.bond
  <2>1. Payload(<< >>) /\ "bond" \notin DOMAIN << >>
    BY Payloads
  <2> QED
    BY <1>1, <1>3, <2>1, GrewHost
<1>5. QuotaOK'
  BY <1>1, <1>2, <1>3, QuotaKept
<1>6. BondOK'
  BY <1>1, <1>2, <1>3, <1>4, BondKept
<1>7. ShownOK'
  <2>1. ~overwritten'
    BY DEF FeedsIndInv, ShownOK
  <2> QED
    BY <1>4, <2>1, ShownKept
<1>8. /\ memory \in [FeedIds -> {"none", "active"}] /\ feedUsed \in [DOMAIN DailyLimits -> Nat]
      /\ FeedOK(f, feeds[f], memory[f], feedEvents, FeedMade(f))
  BY FeedTyped
<1>9. \A g \in FeedIds : FeedMade(g)' <=> FeedMade(g) \/ f = g
  BY ClaimsMade
<1>10. FeedOK(f, row, memory'[f], feedEvents', FeedMade(f)')
  BY <1>1, <1>2, <1>3, <1>8, <1>9 DEF FeedOK
<1>11. /\ \A g \in FeedIds \ {f} : \A k \in {"feed_accepted", "promise_completed"} :
               <<k, g>> \in feedEvents' <=> <<k, g>> \in feedEvents
       /\ \A g \in FeedIds \ {f} : FeedMade(g)' <=> FeedMade(g)
  BY <1>1, <1>9
<1> QED
  BY <1>1, <1>2, <1>4, <1>5, <1>6, <1>7, <1>8, <1>10, <1>11, OneFeed

LEMMA ReplayInv ==
    ASSUME FeedsIndInv,
           UNCHANGED <<host, feeds, memory, feedUsed, feedClaims, feedEvents, shown, overwritten>>
    PROVE  FeedsIndInv'
<1>1. ~overwritten' /\ host' \in HostRow
  BY DEF FeedsIndInv, ShownOK, FeedsTyped
<1>2. ShownOK'
  BY <1>1, ShownKept
<1> QED
  BY <1>2, FeedsSame

\* Who patches, completes or cancels an active promise has seen what it says.
LEMMA SeenPromise ==
    ASSUME FeedsIndInv, NEW f \in FeedIds, NEW d \in FeedDevices, Seen(f, d),
           Unchanged(f, shown[d].version), Overwrites(f, d)
    PROVE  feeds[f].promise = "active" /\ ~overwritten'
BY DEF FeedsIndInv, ShownOK, Seen, Unchanged, Overwrites

LEMMA PromiseStep ==
    ASSUME FeedsIndInv, NEW f \in FeedIds, NEW row \in FeedRow,
           feeds[f].promise = "active", feeds' = [feeds EXCEPT ![f] = row],
           row.kind = feeds[f].kind, row.status = feeds[f].status \/ row.status = "cancelled",
           row.promise \in {"active", "completed", "cancelled"},
           NEW op, op # "create", NEW cid, NEW hash, feedClaims' = FeedClaimed(op, cid, hash),
           \/ row.promise = "completed" /\ feedEvents' = feedEvents \cup {<<"promise_completed", f>>}
           \/ row.promise # "completed" /\ feedEvents' = feedEvents,
           host' \in HostRow, host'.version > host.version, BondOK',
           UNCHANGED <<memory, feedUsed, shown>>, ~overwritten'
    PROVE  FeedsIndInv'
<1>1. /\ memory \in [FeedIds -> {"none", "active"}] /\ feedUsed \in [DOMAIN DailyLimits -> Nat]
      /\ FeedOK(f, feeds[f], memory[f], feedEvents, FeedMade(f))
  BY FeedTyped
<1>2. /\ feeds[f].kind = "promise" /\ feeds[f].status \in {"accepted", "cancelled"}
  BY <1>1 DEF FeedOK
<1>3. QuotaOK'
  BY <1>2, QuotaKept
<1>4. ShownOK'
  BY ShownKept
<1>5. \A g \in FeedIds : FeedMade(g)' <=> FeedMade(g)
  BY ClaimsMade
<1>6. FeedOK(f, row, memory'[f], feedEvents', FeedMade(f)')
  <2>1. memory'[f] = memory[f] /\ (FeedMade(f)' <=> FeedMade(f))
    BY <1>5
  <2>2. <<"feed_accepted", f>> \in feedEvents'
    BY <1>1, <1>2 DEF FeedOK
  <2>3. <<"promise_completed", f>> \in feedEvents' <=> row.promise = "completed"
    BY <1>1 DEF FeedOK
  <2> QED
    BY <1>1, <1>2, <2>1, <2>2, <2>3 DEF FeedOK
<1>7. \A g \in FeedIds \ {f} : \A k \in {"feed_accepted", "promise_completed"} :
          <<k, g>> \in feedEvents' <=> <<k, g>> \in feedEvents
  OBVIOUS
<1> QED
  BY <1>1, <1>3, <1>4, <1>5, <1>6, <1>7, OneFeed

LEMMA PromiseRows ==
    ASSUME NEW row \in FeedRow
    PROVE  /\ \A content \in Contents :
                 /\ PatchedPromise(row, content) \in FeedRow
                 /\ PatchedPromise(row, content).kind = row.kind
                 /\ PatchedPromise(row, content).status = row.status
                 /\ PatchedPromise(row, content).promise = row.promise
           /\ CompletedPromise(row) \in FeedRow
           /\ CompletedPromise(row).kind = row.kind
           /\ CompletedPromise(row).status = row.status
           /\ CompletedPromise(row).promise = "completed"
           /\ CancelledPromise(row) \in FeedRow
           /\ CancelledPromise(row).kind = row.kind
           /\ CancelledPromise(row).status = "cancelled"
           /\ CancelledPromise(row).promise = "cancelled"
<1>1. ASSUME NEW content \in Contents
      PROVE  /\ PatchedPromise(row, content) \in FeedRow
             /\ PatchedPromise(row, content).kind = row.kind
             /\ PatchedPromise(row, content).status = row.status
             /\ PatchedPromise(row, content).promise = row.promise
  BY DEF PatchedPromise, FeedRow
<1>2. /\ CompletedPromise(row) \in FeedRow
      /\ CompletedPromise(row).kind = row.kind
      /\ CompletedPromise(row).status = row.status
      /\ CompletedPromise(row).promise = "completed"
  BY DEF CompletedPromise, FeedRow
<1>3. /\ CancelledPromise(row) \in FeedRow
      /\ CancelledPromise(row).kind = row.kind
      /\ CancelledPromise(row).status = "cancelled"
      /\ CancelledPromise(row).promise = "cancelled"
  BY DEF CancelledPromise, FeedRow, FeedStatuses
<1> QED
  BY <1>1, <1>2, <1>3

LEMMA PatchPromiseInv ==
    ASSUME FeedsIndInv, NEW f \in FeedIds, NEW d \in FeedDevices, NEW cid \in PatchIds,
           NEW content \in Contents, Seen(f, d), PatchPromise(f, d, cid, content),
           UNCHANGED <<memory, feedUsed, shown>>
    PROVE  FeedsIndInv'
<1> DEFINE hash == <<f, shown[d].version, content>>
           row == PatchedPromise(feeds[f], content)
<1>1. CASE UNCHANGED <<host, feeds, feedClaims, feedEvents, overwritten>>
  BY <1>1, ReplayInv
<1>2. CASE /\ Unchanged(f, shown[d].version) /\ Overwrites(f, d)
           /\ feeds' = [feeds EXCEPT ![f] = row] /\ host' = Refreshed(host)
           /\ feedClaims' = FeedClaimed("patch", cid, hash) /\ feedEvents' = feedEvents
  <2>1. feeds[f].promise = "active" /\ ~overwritten'
    BY <1>2, SeenPromise
  <2>2. /\ row \in FeedRow /\ row.kind = feeds[f].kind /\ row.status = feeds[f].status
        /\ row.promise = "active"
    BY <2>1, FeedTyped, PromiseRows
  <2> HIDE DEF row, hash
  <2>3. host' \in HostRow /\ host'.version > host.version /\ host'.bond = host.bond
    BY <1>2, RefreshedHost
  <2>4. BondOK'
    BY <1>2, <2>1, <2>2, <2>3, BondKept
  <2> QED
    BY <1>2, <2>1, <2>2, <2>3, <2>4, PromiseStep
<1> QED
  BY <1>1, <1>2 DEF PatchPromise, Fed

LEMMA CompletePromiseInv ==
    ASSUME FeedsIndInv, NEW f \in FeedIds, NEW d \in FeedDevices, NEW cid \in PatchIds,
           Seen(f, d), CompletePromise(f, d, cid), UNCHANGED <<memory, feedUsed, shown>>
    PROVE  FeedsIndInv'
<1> DEFINE hash == <<f, shown[d].version>>
           key == <<"promise_completed", f>>
           row == CompletedPromise(feeds[f])
<1>1. CASE UNCHANGED <<host, feeds, feedClaims, feedEvents, overwritten>>
  BY <1>1, ReplayInv
<1>2. CASE /\ Unchanged(f, shown[d].version) /\ Overwrites(f, d)
           /\ feeds' = [feeds EXCEPT ![f] = row]
           /\ host' = GrowsWith(host, key, [bond |-> 5], feeds', memory)
           /\ feedClaims' = FeedClaimed("complete", cid, hash)
           /\ feedEvents' = Recorded(feedEvents, key)
  <2>1. feeds[f].promise = "active" /\ ~overwritten'
    BY <1>2, SeenPromise
  <2>2. /\ row \in FeedRow /\ row.kind = feeds[f].kind /\ row.status = feeds[f].status
        /\ row.promise = "completed"
    BY FeedTyped, PromiseRows
  <2>3. key \notin feedEvents
    <3>1. FeedOK(f, feeds[f], memory[f], feedEvents, FeedMade(f))
      BY FeedTyped
    <3> QED
      BY <2>1, <3>1 DEF FeedOK
  <2>4. feedEvents' = feedEvents \cup {<<"promise_completed", f>>}
    BY <1>2 DEF Recorded
  <2> HIDE DEF row, hash, key
  <2>5. host \in HostRow /\ host.version \in Nat
    BY FeedTyped DEF HostRow
  <2>6. /\ host' \in HostRow /\ host'.version > host.version
        /\ host'.bond = Clamp(host.bond + 5)
    <3> DEFINE p == [bond |-> 5]
               grown == GrowsWith(host, key, p, feeds', memory)
    <3>1. Payload(p) /\ "bond" \in DOMAIN p /\ p["bond"] = 5
      BY Payloads
    <3>2. host' = grown
      BY <1>2
    <3> HIDE DEF p
    <3>3. /\ grown \in HostRow /\ grown.version > host.version
          /\ grown.bond = Clamp(host.bond + IF "bond" \in DOMAIN p THEN p["bond"] ELSE 0)
      BY <2>3, <2>5, <3>1, GrowsHost
    <3> HIDE DEF grown
    <3> QED
      BY <3>1, <3>2, <3>3
  <2>7. BondOK'
    BY <1>2, <2>1, <2>2, <2>6, BondEarned
  <2> QED
    BY <1>2, <2>1, <2>2, <2>4, <2>6, <2>7, PromiseStep
<1> QED
  BY <1>1, <1>2 DEF CompletePromise, Fed

LEMMA CancelPromiseInv ==
    ASSUME FeedsIndInv, NEW f \in FeedIds, NEW d \in FeedDevices, NEW cid \in PatchIds,
           Seen(f, d), CancelPromise(f, d, cid), UNCHANGED <<memory, feedUsed, shown>>
    PROVE  FeedsIndInv'
<1> DEFINE hash == <<f, shown[d].version>>
           row == CancelledPromise(feeds[f])
<1>1. CASE UNCHANGED <<host, feeds, feedClaims, feedEvents, overwritten>>
  BY <1>1, ReplayInv
<1>2. CASE /\ Unchanged(f, shown[d].version) /\ Overwrites(f, d)
           /\ feeds' = [feeds EXCEPT ![f] = row] /\ host' = Refreshed(host)
           /\ feedClaims' = FeedClaimed("cancel", cid, hash) /\ feedEvents' = feedEvents
  <2>1. feeds[f].promise = "active" /\ ~overwritten'
    BY <1>2, SeenPromise
  <2>2. /\ row \in FeedRow /\ row.kind = feeds[f].kind /\ row.status = "cancelled"
        /\ row.promise = "cancelled"
    BY FeedTyped, PromiseRows
  <2> HIDE DEF row, hash
  <2>3. host' \in HostRow /\ host'.version > host.version /\ host'.bond = host.bond
    BY <1>2, RefreshedHost
  <2>4. BondOK'
    BY <1>2, <2>1, <2>2, <2>3, BondKept
  <2> QED
    BY <1>2, <2>1, <2>2, <2>3, <2>4, PromiseStep
<1> QED
  BY <1>1, <1>2 DEF CancelPromise, Fed

\* The moderation of a photo changes its status, and no promise.
LEMMA PhotoStep ==
    ASSUME FeedsIndInv, NEW f \in FeedIds, NEW row \in FeedRow,
           feeds[f].kind = "photo", feeds[f].status \in {"pending", "processing"},
           feeds' = [feeds EXCEPT ![f] = row], row.kind = feeds[f].kind,
           row.status \in {"processing", "rejected", "accepted"},
           row.promise = feeds[f].promise, row.content = feeds[f].content,
           \/ /\ row.status = "accepted" /\ feedEvents' = feedEvents \cup {<<"feed_accepted", f>>}
              /\ memory' = WithMemory(f) /\ host'.version > host.version
           \/ /\ row.status # "accepted" /\ feedEvents' = feedEvents /\ memory' = memory
              /\ host'.version = host.version,
           host' \in HostRow, host'.bond = host.bond,
           UNCHANGED <<feedUsed, feedClaims, shown, overwritten>>
    PROVE  FeedsIndInv'
<1>1. /\ memory \in [FeedIds -> {"none", "active"}] /\ feedUsed \in [DOMAIN DailyLimits -> Nat]
      /\ feeds \in [FeedIds -> FeedRow]
      /\ FeedOK(f, feeds[f], memory[f], feedEvents, FeedMade(f))
  BY FeedTyped DEF FeedsIndInv, FeedsTyped
<1>2. feeds[f].promise = "none"
  BY <1>1 DEF FeedOK
<1>3. QuotaOK'
  BY <1>1, QuotaKept
<1>4. BondOK'
  BY BondKept
<1>5. ShownOK'
  <2>1. \A g \in FeedIds : feeds'[g].content = feeds[g].content
    BY <1>1
  <2>2. ~overwritten'
    BY DEF FeedsIndInv, ShownOK
  <2> QED
    BY <2>1, <2>2, ShownKept
<1>6. \A g \in FeedIds : FeedMade(g)' <=> FeedMade(g)
  BY DEF FeedMade, NewFeedClaim
<1>7. memory' \in [FeedIds -> {"none", "active"}] /\ \A g \in FeedIds \ {f} : memory'[g] = memory[g]
  BY <1>1 DEF WithMemory
<1>8. FeedOK(f, row, memory'[f], feedEvents', FeedMade(f)')
  <2>1. memory'[f] # "none" <=> row.status = "accepted"
    BY <1>1 DEF WithMemory, FeedOK
  <2>2. <<"feed_accepted", f>> \in feedEvents' <=> row.status = "accepted"
    BY <1>1 DEF FeedOK
  <2>3. <<"promise_completed", f>> \notin feedEvents'
    BY <1>1, <1>2 DEF FeedOK
  <2>4. FeedMade(f)' /\ row.promise = "none"
    BY <1>1, <1>2, <1>6 DEF FeedOK
  <2> QED
    BY <2>1, <2>2, <2>3, <2>4 DEF FeedOK
<1>9. \A g \in FeedIds \ {f} : \A k \in {"feed_accepted", "promise_completed"} :
          <<k, g>> \in feedEvents' <=> <<k, g>> \in feedEvents
  OBVIOUS
<1> QED
  BY <1>1, <1>2, <1>3, <1>4, <1>5, <1>6, <1>7, <1>8, <1>9, OneFeed

LEMMA PhotoInv ==
    ASSUME FeedsIndInv, NEW f \in FeedIds, MarkSightProcessing(f) \/ SettleSight(f)
    PROVE  FeedsIndInv'
<1>1. /\ feeds[f] \in FeedRow /\ host \in HostRow
      /\ FeedOK(f, feeds[f], memory[f], feedEvents, FeedMade(f))
  BY FeedTyped
<1>2. feeds[f].kind = "photo" /\ feeds[f].status \in {"pending", "processing"}
      /\ UNCHANGED <<feedUsed, feedClaims, shown, overwritten>>
  BY DEF MarkSightProcessing, SettleSight
<1>3. CASE MarkSightProcessing(f)
  <2> DEFINE row == [feeds[f] EXCEPT !.status = "processing"]
  <2>1. /\ row \in FeedRow /\ row.kind = feeds[f].kind /\ row.status = "processing"
        /\ row.promise = feeds[f].promise /\ row.content = feeds[f].content
    BY <1>1 DEF FeedRow, FeedStatuses
  <2>2. feeds' = [feeds EXCEPT ![f] = row] /\ UNCHANGED <<host, memory, feedEvents>>
    BY <1>3 DEF MarkSightProcessing, Fed
  <2> HIDE DEF row
  <2> QED
    BY <1>1, <1>2, <2>1, <2>2, PhotoStep
<1>4. CASE SettleSight(f)
  <2> DEFINE no == [feeds[f] EXCEPT !.status = "rejected", !.applied = TRUE]
             yes == [feeds[f] EXCEPT !.status = "accepted", !.applied = TRUE]
  <2>1. /\ no \in FeedRow /\ no.kind = feeds[f].kind /\ no.status = "rejected"
        /\ no.promise = feeds[f].promise /\ no.content = feeds[f].content
    BY <1>1 DEF FeedRow, FeedStatuses
  <2>2. /\ yes \in FeedRow /\ yes.kind = feeds[f].kind /\ yes.status = "accepted"
        /\ yes.promise = feeds[f].promise /\ yes.content = feeds[f].content
    BY <1>1 DEF FeedRow, FeedStatuses
  <2> HIDE DEF no, yes
  <2>3. CASE feeds' = [feeds EXCEPT ![f] = no] /\ UNCHANGED <<host, memory, feedEvents>>
    BY <1>1, <1>2, <2>1, <2>3, PhotoStep
  <2>4. CASE /\ feeds' = [feeds EXCEPT ![f] = yes] /\ memory' = WithMemory(f)
             /\ host' = GrowsWith(host, <<"feed_accepted", f>>, << >>, feeds', memory')
             /\ feedEvents' = feedEvents \cup {<<"feed_accepted", f>>}
    <3>1. Payload(<< >>) /\ "bond" \notin DOMAIN << >>
      BY Payloads
    <3>2. <<"feed_accepted", f>> \notin feedEvents
      BY <1>1, <1>2 DEF FeedOK
    <3>3. host' \in HostRow /\ host'.version > host.version /\ host'.bond = host.bond
      BY <2>4, <3>1, <3>2, GrewHost
    <3> QED
      BY <1>2, <2>2, <2>4, <3>3, PhotoStep
  <2> QED
    BY <1>4, <2>3, <2>4 DEF SettleSight, Fed, Recorded, no, yes
<1> QED
  BY <1>3, <1>4

\* What a device is shown is what the promise says now.
LEMMA RefreshInv ==
    ASSUME FeedsIndInv, NEW d \in FeedDevices, Refresh(d) PROVE FeedsIndInv'
<1>1. /\ shown' = [shown EXCEPT ![d] = [version |-> host.version, promise |-> PromiseShown(feeds)]]
      /\ UNCHANGED <<host, feeds, memory, feedUsed, feedClaims, feedEvents, overwritten>>
  BY DEF Refresh
<1>2. \A f \in FeedIds : PromiseShown(feeds).of = {f} => PromiseShown(feeds).content = feeds[f].content
  <2> DEFINE active == {f \in FeedIds : feeds[f].promise = "active"}
             g == CHOOSE h \in active : TRUE
  <2>1. PromiseShown(feeds) = IF active = {} THEN NoPromise
                              ELSE [of |-> {g}, content |-> feeds[g].content]
    BY DEF PromiseShown
  <2> HIDE DEF active, g
  <2> QED
    BY <2>1 DEF NoPromise
<1>3. host.version \in Nat
  BY DEF FeedsIndInv, FeedsTyped, HostRow
<1>4. ShownOK'
  <2>1. ASSUME NEW e \in FeedDevices
        PROVE  /\ shown'[e].version \in Nat /\ shown'[e].version <= host.version
               /\ shown'[e].version = host.version =>
                     \A f \in FeedIds : shown'[e].promise.of = {f} =>
                         shown'[e].promise.content = feeds[f].content
    <3>1. CASE e = d
      BY <1>1, <1>2, <1>3, <3>1 DEF FeedsIndInv, ShownOK
    <3>2. CASE e # d
      <4>1. shown'[e] = shown[e]
        BY <1>1, <3>2 DEF FeedsIndInv, ShownOK
      <4> QED
        BY <4>1 DEF FeedsIndInv, ShownOK
    <3> QED
      BY <3>1, <3>2
  <2> QED
    BY <1>1, <2>1 DEF FeedsIndInv, ShownOK
<1> QED
  BY <1>1, <1>4, FeedsSame

-----------------------------------------------------------------------------
(* Feeds: the theorem. *)

LEMMA FeedsNextInv ==
    ASSUME FeedsIndInv, [FeedsNext]_feedVars PROVE FeedsIndInv'
<1>1. CASE UNCHANGED feedVars
  BY <1>1, ReplayInv DEF feedVars
<1>2. CASE PostFeed
  <2>1. PICK f \in FeedIds, content \in Contents : SettleFeed(f, content)
    BY <1>2 DEF PostFeed
  <2>2. shown' = shown /\ overwritten' = overwritten
    BY <2>1 DEF SettleFeed
  <2>3. CASE UNCHANGED <<host, feeds, memory, feedUsed, feedClaims, feedEvents>>
    BY <2>2, <2>3, ReplayInv
  <2>4. CASE /\ NewFeedClaim("create", f) /\ feedClaims' = FeedClaimed("create", f, content)
             /\ \/ SettleVitals(f) \/ SettleKnowledge(f) \/ InsertPromise(f, content)
                \/ SettleLocation(f) \/ SettlePhoto(f)
    BY <2>2, <2>4, ChargedFeed, InsertPromiseInv
  <2> QED
    BY <2>1, <2>3, <2>4 DEF SettleFeed
<1>3. CASE PatchFeed
  BY <1>3, PatchPromiseInv DEF PatchFeed
<1>4. CASE PostFeedComplete
  BY <1>4, CompletePromiseInv DEF PostFeedComplete
<1>5. CASE PostFeedCancel
  BY <1>5, CancelPromiseInv DEF PostFeedCancel
<1>6. CASE \E d \in FeedDevices : Refresh(d)
  BY <1>6, RefreshInv
<1>7. CASE \E f \in FeedIds : MarkSightProcessing(f) \/ SettleSight(f)
  BY <1>7, PhotoInv
<1> QED
  BY <1>1, <1>2, <1>3, <1>4, <1>5, <1>6, <1>7 DEF FeedsNext

LEMMA FeedsInitInv == FeedsInit => FeedsIndInv
<1> SUFFICES ASSUME FeedsInit PROVE FeedsIndInv
  OBVIOUS
<1>1. PICK plan \in FeedPlans : feeds = [f \in FeedIds |-> NoFeed(plan[f])]
  BY DEF FeedsInit
<1>2. plan \in [FeedIds -> Kinds]
  BY FeedsAssumption
<1>3. ASSUME NEW f \in FeedIds
      PROVE  /\ feeds[f] \in FeedRow /\ feeds[f].status = "none" /\ feeds[f].promise = "none"
  BY <1>1, <1>2 DEF NoFeed, FeedRow, FeedStatuses
<1>4. host \in HostRow /\ host.bond = 0 /\ host.version = 0
  BY DEF FeedsInit, HostRow
<1>5. FeedsTyped
  <2>1. feeds \in [FeedIds -> FeedRow]
    BY <1>1, <1>3
  <2>2. memory \in [FeedIds -> {"none", "active"}] /\ feedUsed \in [DOMAIN DailyLimits -> Nat]
    BY DEF FeedsInit
  <2> QED
    BY <1>4, <2>1, <2>2 DEF FeedsTyped
<1>6. OneActivePromise
  BY <1>3 DEF OneActivePromise
<1>7. RowsOK
  <2>1. memory = [f \in FeedIds |-> "none"] /\ feedClaims = {} /\ feedEvents = {}
    BY DEF FeedsInit
  <2> QED
    BY <1>3, <2>1 DEF RowsOK, FeedOK, FeedMade, NewFeedClaim
<1>8. QuotaOK
  <2>1. \A c : ChargedFeeds(c) = {}
    BY <1>3 DEF ChargedFeeds
  <2>2. feedUsed = [c \in DOMAIN DailyLimits |-> 0]
    BY DEF FeedsInit
  <2> QED
    BY <2>1, <2>2, FS_EmptySet, FeedConstants DEF QuotaOK
<1>9. BondOK
  <2>1. KeptPromises = {}
    BY <1>3 DEF KeptPromises
  <2>2. Cardinality(KeptPromises) = 0
    BY <2>1, FS_EmptySet
  <2> QED
    BY <1>4, <2>2 DEF BondOK, Clamp
<1>10. ShownOK
  <2>1. /\ shown = [d \in FeedDevices |-> [version |-> 0, promise |-> NoPromise]]
        /\ ~overwritten
    BY DEF FeedsInit
  <2>2. \A d \in FeedDevices : shown[d].version = 0 /\ shown[d].promise.of = {}
    BY <2>1 DEF NoPromise
  <2>3. \A f \in FeedIds : {f} # {}
    OBVIOUS
  <2> QED
    BY <1>4, <2>1, <2>2, <2>3 DEF ShownOK
<1> QED
  BY <1>5, <1>6, <1>7, <1>8, <1>9, <1>10 DEF FeedsIndInv

LEMMA FeedsIndImpliesInv == FeedsIndInv => FeedsInv
<1> SUFFICES ASSUME FeedsIndInv PROVE FeedsInv
  OBVIOUS
<1>1. /\ host \in HostRow /\ feeds \in [FeedIds -> FeedRow]
      /\ memory \in [FeedIds -> {"none", "active"}]
  BY DEF FeedsIndInv, FeedsTyped
<1>2. FeedsTypeOK
  BY <1>1 DEF FeedsTypeOK, HostRow, FeedRow, FeedStatuses
<1>3. \A f \in FeedIds :
          /\ memory[f] # "none" <=>
                /\ feeds[f].status = "accepted"
                /\ feeds[f].kind \in {"knowledge", "location", "photo"}
          /\ <<"feed_accepted", f>> \in feedEvents <=>
                feeds[f].status \in {"accepted", "cancelled"}
          /\ <<"promise_completed", f>> \in feedEvents <=> feeds[f].promise = "completed"
  BY DEF FeedsIndInv, RowsOK, FeedOK
<1>4. \A c \in DOMAIN DailyLimits :
          /\ feedUsed[c] <= DailyLimits[c]
          /\ feedUsed[c] = Cardinality({f \in FeedIds : /\ feeds[f].status # "none"
                                                        /\ Capability(feeds[f].kind) = c})
  BY DEF FeedsIndInv, QuotaOK, ChargedFeeds
<1>5. host.bond = Clamp(5 * Cardinality({f \in FeedIds : feeds[f].promise = "completed"}))
  BY DEF FeedsIndInv, BondOK, KeptPromises
<1>6. FedOnce
  BY <1>3, <1>4, <1>5 DEF FedOnce
<1>7. OneActivePromise /\ NothingOverwritten
  BY DEF FeedsIndInv, ShownOK, NothingOverwritten
<1> QED
  BY <1>2, <1>6, <1>7 DEF FeedsInv

\* Whatever devices create, retry, patch, complete and cancel on the strength of
\* snapshots of any age: one promise is active, each feed is charged, remembered and
\* rewarded once, and no promise is changed by who has not seen it as it is
\* (expected_version, services/feed.py).
THEOREM FeedsAgree == FeedsSpec => []FeedsInv
<1>1. FeedsIndInv /\ [FeedsNext]_feedVars => FeedsIndInv'
  BY FeedsNextInv
<1> QED
  BY <1>1, FeedsInitInv, FeedsIndImpliesInv, PTL DEF FeedsSpec

-----------------------------------------------------------------------------
(* Talk: the inductive invariant. *)

SoulRow == [step: 0 .. HatchRounds, rounds: Nat, hatched: BOOLEAN, version: Nat]

TurnRow == [cid: TurnIds, onboarding: BOOLEAN, refs: SUBSET Nat, window: Nat]

WindowRow == [onboarding: BOOLEAN, rounds: Nat, extractor: SUBSET ExtractIds,
              status: {"open", "ready", "extracted"}]

MemoryRow == [status: {"active", "sealed", "deleted"}, window: Nat]

SampleRow == [status: {"none", "active", "inactive"}, window: Nat]

TalkTyped ==
    /\ soul \in SoulRow
    /\ turns \in Seq(TurnRow)
    /\ windows \in Seq(WindowRow)
    /\ memories \in Seq(MemoryRow)
    /\ samples \in [SampleTexts -> SampleRow]
    /\ chatUsed \in 0 .. ChatLimit

\* TurnsAddUp, with the windows that turns name.
TurnsOK ==
    /\ \A i, j \in DOMAIN turns : turns[i].cid = turns[j].cid => i = j
    /\ chatUsed = Len(turns)
    /\ soul.rounds = Len(turns) - OnboardingPairs
    /\ soul.step = IF OnboardingPairs < HatchRounds THEN OnboardingPairs ELSE HatchRounds
    /\ \A i \in DOMAIN turns : turns[i].window \in DOMAIN windows

WindowOK(w) ==
    /\ windows[w].rounds = Cardinality(TurnsIn(w))
    /\ \A i \in TurnsIn(w) : turns[i].onboarding = windows[w].onboarding
    /\ ~windows[w].onboarding =>
          /\ windows[w].rounds \in 1 .. ReadyRounds
          /\ windows[w].status = "open" <=> windows[w].rounds < ReadyRounds

WindowsOK ==
    /\ \A w \in DOMAIN windows : WindowOK(w)
    /\ \A v, w \in OpenWindows : v = w

\* Whoever is not onboarding is hatched.
HatchOK ==
    /\ \A i, j \in DOMAIN turns : i < j /\ turns[j].onboarding => turns[i].onboarding
    /\ \A i \in DOMAIN turns : ~turns[i].onboarding => soul.hatched
    /\ soul.hatched => OnboardingPairs >= HatchRounds

MemoriesOf(w) == {m \in DOMAIN memories : memories[m].window = w}

\* What came of a window: its memories and samples are there once it is extracted.
GivenOK ==
    /\ \A w \in DOMAIN windows :
          /\ Cardinality(MemoriesOf(w)) <= 2
          /\ windows[w].status = "extracted" <=> windows[w].extractor # {}
    /\ \A v, w \in DOMAIN windows :
          v # w => windows[v].extractor \cap windows[w].extractor = {}
    /\ \A m \in DOMAIN memories :
          /\ memories[m].window \in DOMAIN windows
          /\ windows[memories[m].window].status = "extracted"
    /\ \A t \in SampleTexts :
          samples[t].status # "none" =>
              /\ samples[t].window \in DOMAIN windows
              /\ windows[samples[t].window].status = "extracted"

\* What a transaction has read is still so, for it holds the spirit.
GeneratingOK(r) ==
    /\ r.phase = "generating"
    /\ r.cid \in TurnIds /\ \A i \in DOMAIN turns : turns[i].cid # r.cid
    /\ r.onboarding \in BOOLEAN
    /\ r.onboarding <=> ~soul.hatched
    /\ r.seen = [step |-> soul.step, rounds |-> soul.rounds]
    /\ r.told = PromptRecall
    /\ chatUsed < ChatLimit

ExtractingOK(r) ==
    /\ r.phase = "extracting"
    /\ r.window \in DOMAIN windows /\ r.cid \in ExtractIds
    /\ Extractable(r.window, r.cid)

RequestsOK ==
    /\ DOMAIN request = Handlers
    /\ \A h \in Handlers :
          request[h] = Idle \/ GeneratingOK(request[h]) \/ ExtractingOK(request[h])
    /\ \A h, k \in Handlers : request[h] # Idle /\ request[k] # Idle => h = k

\* What is committed, and what is under way.
CommittedOK == TalkTyped /\ TurnsOK /\ WindowsOK /\ HatchOK /\ GivenOK /\ SamplesFollow

TalkIndInv == CommittedOK /\ RequestsOK

-----------------------------------------------------------------------------
(* Talk: sequences, and who holds the spirit. *)

LEMMA TalkConstants ==
    /\ HatchRounds \in Nat \ {0} /\ ReadyRounds \in Nat \ {0}
    /\ ChatLimit \in Nat /\ MaxMemories \in Nat /\ TurnIds \subseteq Nat
  BY TalkAssumption

LEMMA SeqRows ==
    ASSUME NEW S, NEW s \in Seq(S)
    PROVE  /\ Len(s) \in Nat /\ DOMAIN s = 1 .. Len(s)
           /\ \A i \in DOMAIN s : s[i] \in S
  BY LenProperties, ElementOfSeq

LEMMA SeqAppended ==
    ASSUME NEW S, NEW s \in Seq(S), NEW x \in S
    PROVE  /\ Append(s, x) \in Seq(S)
           /\ Len(Append(s, x)) = Len(s) + 1
           /\ DOMAIN Append(s, x) = (DOMAIN s) \cup {Len(s) + 1}
           /\ \A i \in DOMAIN s : Append(s, x)[i] = s[i]
           /\ Append(s, x)[Len(s) + 1] = x
<1>1. /\ Append(s, x) \in Seq(S) /\ Len(Append(s, x)) = Len(s) + 1
      /\ \A i \in 1 .. Len(s) : Append(s, x)[i] = s[i]
      /\ Append(s, x)[Len(s) + 1] = x
  BY AppendProperties
<1>2. /\ Len(s) \in Nat /\ DOMAIN s = 1 .. Len(s)
      /\ DOMAIN Append(s, x) = 1 .. Len(s) + 1
  BY <1>1, LenProperties
<1> QED
  BY <1>1, <1>2

\* An id of a turn or a row that is there is one of a finite set.
LEMMA FiniteRows ==
    ASSUME NEW S, NEW s \in Seq(S), NEW T \in SUBSET DOMAIN s
    PROVE  IsFiniteSet(T) /\ Cardinality(T) \in Nat
<1>1. Len(s) \in Nat /\ DOMAIN s = 1 .. Len(s)
  BY LenProperties
<1>2. IsFiniteSet(DOMAIN s)
  BY <1>1, FS_Interval
<1> QED
  BY <1>2, FS_Subset, FS_CardinalityType

LEMMA TalkRows ==
    ASSUME TalkTyped
    PROVE  /\ Len(turns) \in Nat /\ DOMAIN turns = 1 .. Len(turns)
           /\ Len(windows) \in Nat /\ DOMAIN windows = 1 .. Len(windows)
           /\ Len(memories) \in Nat /\ DOMAIN memories = 1 .. Len(memories)
           /\ \A i \in DOMAIN turns : turns[i] \in TurnRow
           /\ \A w \in DOMAIN windows : windows[w] \in WindowRow
           /\ \A m \in DOMAIN memories : memories[m] \in MemoryRow
<1>1. turns \in Seq(TurnRow) /\ windows \in Seq(WindowRow) /\ memories \in Seq(MemoryRow)
  BY DEF TalkTyped
<1> QED
  BY <1>1, SeqRows

\* Who finds the spirit free finds every handler idle.
LEMMA SpiritFreed ==
    ASSUME RequestsOK, SpiritFree
    PROVE  \A h \in Handlers : request[h] = Idle
  BY DEF RequestsOK, SpiritFree, GeneratingOK, ExtractingOK

\* The handler that ends a transaction leaves all idle.
LEMMA HandlerEnds ==
    ASSUME RequestsOK, NEW h \in Handlers, request[h] # Idle,
           request' = [request EXCEPT ![h] = Idle]
    PROVE  DOMAIN request' = Handlers /\ \A k \in Handlers : request'[k] = Idle
  BY DEF RequestsOK

LEMMA AllIdle ==
    ASSUME CommittedOK', DOMAIN request' = Handlers, \A k \in Handlers : request'[k] = Idle
    PROVE  TalkIndInv'
  BY DEF TalkIndInv, RequestsOK

\* Nothing is committed.
LEMMA CommittedSame ==
    ASSUME CommittedOK, UNCHANGED <<soul, turns, windows, memories, samples, chatUsed>>
    PROVE  CommittedOK'
<1>1. TalkTyped'
  BY DEF CommittedOK, TalkTyped
<1>2. TurnsOK' /\ HatchOK'
  BY DEF CommittedOK, TurnsOK, HatchOK, OnboardingPairs
<1>3. WindowsOK'
  BY DEF CommittedOK, WindowsOK, WindowOK, OpenWindows, TurnsIn
<1>4. GivenOK'
  BY DEF CommittedOK, GivenOK, MemoriesOf
<1>5. SamplesFollow'
  <2>1. ActiveSamples' = ActiveSamples
    BY DEF ActiveSamples
  <2> QED
    BY <2>1 DEF CommittedOK, SamplesFollow
<1> QED
  BY <1>1, <1>2, <1>3, <1>4, <1>5 DEF CommittedOK

-----------------------------------------------------------------------------
(* Talk: a turn. *)

\* The window a turn is given: a new one, or the one that is open.
LEMMA WindowAssigned ==
    ASSUME TalkTyped, WindowsOK, NEW onboarding \in BOOLEAN
    PROVE  LET w == TurnWindow(onboarding)
               ws == AssignTurnWindow(onboarding)
           IN
           /\ ws \in Seq(WindowRow) /\ w \in Nat
           /\ DOMAIN ws = (DOMAIN windows) \cup {w}
           /\ \A v \in DOMAIN windows : v # w => ws[v] = windows[v]
           /\ ws[w].onboarding = onboarding
           /\ ws[w].status = WindowStatus(onboarding, ws[w].rounds)
           /\ \/ /\ w \in OpenWindows /\ ~onboarding
                 /\ ws[w].rounds = windows[w].rounds + 1
                 /\ ws[w].extractor = windows[w].extractor
              \/ /\ w \notin DOMAIN windows /\ (onboarding \/ OpenWindows = {})
                 /\ ws[w].rounds = 1 /\ ws[w].extractor = {}
<1> DEFINE w == TurnWindow(onboarding)
           ws == AssignTurnWindow(onboarding)
<1>1. /\ Len(windows) \in Nat /\ DOMAIN windows = 1 .. Len(windows)
      /\ \A v \in DOMAIN windows : windows[v] \in WindowRow
      /\ windows \in Seq(WindowRow)
  BY TalkRows DEF TalkTyped
<1>2. CASE onboarding \/ OpenWindows = {}
  <2> DEFINE row == [onboarding |-> onboarding, rounds |-> 1, extractor |-> {},
                     status |-> WindowStatus(onboarding, 1)]
  <2>1. WindowStatus(onboarding, 1) \in {"open", "ready", "extracted"}
    BY DEF WindowStatus
  <2>2. row \in WindowRow
    BY <2>1 DEF WindowRow
  <2>3. ws = Append(windows, row) /\ w = Len(windows) + 1
    BY <1>2 DEF AssignTurnWindow, InsertedWindow, TurnWindow
  <2>4. /\ row.onboarding = onboarding /\ row.rounds = 1 /\ row.extractor = {}
        /\ row.status = WindowStatus(onboarding, 1)
    OBVIOUS
  <2> HIDE DEF row
  <2>5. /\ ws \in Seq(WindowRow) /\ DOMAIN ws = (DOMAIN windows) \cup {w}
        /\ \A v \in DOMAIN windows : ws[v] = windows[v]
        /\ ws[w] = row
    BY <1>1, <2>2, <2>3, SeqAppended
  <2> QED
    BY <1>1, <1>2, <2>3, <2>4, <2>5
<1>3. CASE ~onboarding /\ OpenWindows # {}
  <2>1. PICK v \in OpenWindows : OpenWindows = {v}
    BY <1>3 DEF WindowsOK
  <2>2. /\ v \in DOMAIN windows /\ windows[v].status = "open" /\ ~windows[v].onboarding
        /\ windows[v] \in WindowRow /\ windows[v].rounds \in Nat /\ v \in Nat
    BY <1>1, <2>1 DEF OpenWindows, WindowRow
  <2>3. w = v
    <3>1. \A u \in OpenWindows : v <= u
      BY <2>1, <2>2
    <3> QED
      BY <1>3, <2>1, <3>1 DEF TurnWindow
  <2>4. (CHOOSE x \in OpenWindows : \A u \in OpenWindows : x <= u) = v
    BY <1>3, <2>3 DEF TurnWindow
  <2> DEFINE rounds == windows[v].rounds + 1
             status == WindowStatus(FALSE, rounds)
             row == [windows[v] EXCEPT !.rounds = rounds, !.status = status]
  <2>5. ws = [windows EXCEPT ![v] = row]
    <3>1. ws = ExtendedWindow(v)
      BY <1>3, <2>4 DEF AssignTurnWindow
    <3>2. ExtendedWindow(v) = [windows EXCEPT ![v] = row]
      BY <1>1, <2>2 DEF ExtendedWindow, WindowRow
    <3> QED
      BY <3>1, <3>2
  <2>6. rounds \in Nat /\ status \in {"open", "ready", "extracted"}
    BY <2>2 DEF WindowStatus
  <2>7. status = WindowStatus(onboarding, rounds) /\ rounds = windows[v].rounds + 1
    BY <1>3
  <2> HIDE DEF rounds, status
  <2>8. /\ row \in WindowRow /\ row.rounds = rounds /\ row.status = status
        /\ row.onboarding = onboarding /\ row.extractor = windows[v].extractor
    BY <1>3, <2>2, <2>6 DEF WindowRow
  <2> HIDE DEF row
  <2>9. /\ ws \in Seq(WindowRow) /\ DOMAIN ws = DOMAIN windows /\ ws[v] = row
        /\ \A u \in DOMAIN windows : u # v => ws[u] = windows[u]
    BY <1>1, <2>2, <2>5, <2>8, ExceptSeq
  <2> QED
    BY <1>3, <2>1, <2>2, <2>3, <2>7, <2>8, <2>9
<1> QED
  BY <1>2, <1>3

\* What a turn adds to the counts.
LEMMA TurnAdded ==
    ASSUME TalkTyped, NEW row \in TurnRow, turns' = Append(turns, row)
    PROVE  /\ turns' \in Seq(TurnRow) /\ Len(turns)' = Len(turns) + 1
           /\ DOMAIN turns' = (DOMAIN turns) \cup {Len(turns) + 1}
           /\ Len(turns) + 1 \notin DOMAIN turns
           /\ \A i \in DOMAIN turns : turns'[i] = turns[i]
           /\ turns'[Len(turns) + 1] = row
           /\ OnboardingPairs \in Nat
           /\ OnboardingPairs' = IF row.onboarding THEN OnboardingPairs + 1 ELSE OnboardingPairs
           /\ \A w : /\ Cardinality(TurnsIn(w)) \in Nat
                     /\ TurnsIn(w)' = IF row.window = w THEN TurnsIn(w) \cup {Len(turns) + 1}
                                      ELSE TurnsIn(w)
                     /\ row.window = w => Cardinality(TurnsIn(w)') = Cardinality(TurnsIn(w)) + 1
<1> DEFINE n == Len(turns) + 1
           old == {i \in DOMAIN turns : turns[i].onboarding}
<1>1. turns \in Seq(TurnRow) /\ Len(turns) \in Nat /\ DOMAIN turns = 1 .. Len(turns)
  BY TalkRows DEF TalkTyped
<1>2. /\ turns' \in Seq(TurnRow) /\ Len(turns)' = n
      /\ DOMAIN turns' = (DOMAIN turns) \cup {n}
      /\ \A i \in DOMAIN turns : turns'[i] = turns[i]
      /\ turns'[n] = row
  BY <1>1, SeqAppended
<1>3. n \notin DOMAIN turns
  BY <1>1
<1>4. IsFiniteSet(old) /\ Cardinality(old) \in Nat
  BY <1>1, FiniteRows
<1>5. OnboardingPairs = Cardinality(old)
  BY DEF OnboardingPairs
<1>6. OnboardingPairs' = IF row.onboarding THEN OnboardingPairs + 1 ELSE OnboardingPairs
  <2> DEFINE new == {i \in DOMAIN turns' : turns'[i].onboarding}
  <2>1. new = IF row.onboarding THEN old \cup {n} ELSE old
    BY <1>2, <1>3
  <2>2. n \notin old
    BY <1>3
  <2>3. OnboardingPairs' = Cardinality(new)
    BY DEF OnboardingPairs
  <2> HIDE DEF new, old, n
  <2>4. Cardinality(old \cup {n}) = Cardinality(old) + 1
    BY <1>4, <2>2, FS_AddElement
  <2> QED
    BY <1>5, <2>1, <2>3, <2>4
<1>7. ASSUME NEW w
      PROVE  /\ Cardinality(TurnsIn(w)) \in Nat
             /\ TurnsIn(w)' = IF row.window = w THEN TurnsIn(w) \cup {n} ELSE TurnsIn(w)
             /\ row.window = w => Cardinality(TurnsIn(w)') = Cardinality(TurnsIn(w)) + 1
  <2>1. TurnsIn(w) \in SUBSET DOMAIN turns
    BY DEF TurnsIn
  <2>2. IsFiniteSet(TurnsIn(w)) /\ Cardinality(TurnsIn(w)) \in Nat
    BY <1>1, <2>1, FiniteRows
  <2>3. TurnsIn(w)' = IF row.window = w THEN TurnsIn(w) \cup {n} ELSE TurnsIn(w)
    BY <1>2, <1>3 DEF TurnsIn
  <2>4. n \notin TurnsIn(w)
    BY <1>3, <2>1
  <2> HIDE DEF n
  <2>5. Cardinality(TurnsIn(w) \cup {n}) = Cardinality(TurnsIn(w)) + 1
    BY <2>2, <2>4, FS_AddElement
  <2> QED
    BY <2>2, <2>3, <2>5
<1> QED
  BY <1>2, <1>3, <1>4, <1>5, <1>6, <1>7

LEMMA FinishTurnInv ==
    ASSUME TalkIndInv, NEW h \in Handlers, NEW cited \in SUBSET ActiveMemories,
           FinishTurn(h, cited)
    PROVE  TalkIndInv'
<1> DEFINE r == request[h]
           n == Len(turns) + 1
<1>1. CommittedOK /\ TalkTyped /\ TurnsOK /\ WindowsOK /\ HatchOK /\ GivenOK /\ SamplesFollow
  BY DEF TalkIndInv, CommittedOK
<1>2. /\ r.phase = "generating" /\ r # Idle
      /\ r.cid \in TurnIds /\ \A i \in DOMAIN turns : turns[i].cid # r.cid
      /\ r.onboarding \in BOOLEAN /\ (r.onboarding <=> ~soul.hatched)
      /\ r.seen.step = soul.step /\ r.seen.rounds = soul.rounds
      /\ chatUsed < ChatLimit
  BY DEF TalkIndInv, RequestsOK, FinishTurn, GeneratingOK, ExtractingOK, Idle
<1>3. /\ turns' = InsertedPair(r.cid, r.onboarding, cited)
      /\ windows' = AssignTurnWindow(r.onboarding)
      /\ soul' = AppliedTurn(soul, r.seen, r.onboarding)
      /\ chatUsed' = chatUsed + 1
      /\ request' = [request EXCEPT ![h] = Idle]
      /\ memories' = memories /\ samples' = samples
  BY DEF FinishTurn
<1>4. PICK w : w = TurnWindow(r.onboarding)
  OBVIOUS
<1>5. /\ windows' \in Seq(WindowRow) /\ w \in Nat
      /\ DOMAIN windows' = (DOMAIN windows) \cup {w}
      /\ \A v \in DOMAIN windows : v # w => windows'[v] = windows[v]
      /\ windows'[w].onboarding = r.onboarding
      /\ windows'[w].status = WindowStatus(r.onboarding, windows'[w].rounds)
      /\ \/ /\ w \in OpenWindows /\ ~r.onboarding
            /\ windows'[w].rounds = windows[w].rounds + 1
            /\ windows'[w].extractor = windows[w].extractor
         \/ /\ w \notin DOMAIN windows /\ (r.onboarding \/ OpenWindows = {})
            /\ windows'[w].rounds = 1 /\ windows'[w].extractor = {}
  <2>1. PICK onboarding, ws : onboarding = r.onboarding /\ ws = windows'
    BY <1>2
  <2>2. /\ onboarding \in BOOLEAN
        /\ w = TurnWindow(onboarding) /\ ws = AssignTurnWindow(onboarding)
    BY <1>2, <1>3, <1>4, <2>1
  <2>3. /\ ws \in Seq(WindowRow) /\ w \in Nat
        /\ DOMAIN ws = (DOMAIN windows) \cup {w}
        /\ \A v \in DOMAIN windows : v # w => ws[v] = windows[v]
        /\ ws[w].onboarding = onboarding
        /\ ws[w].status = WindowStatus(onboarding, ws[w].rounds)
        /\ \/ /\ w \in OpenWindows /\ ~onboarding
              /\ ws[w].rounds = windows[w].rounds + 1
              /\ ws[w].extractor = windows[w].extractor
           \/ /\ w \notin DOMAIN windows /\ (onboarding \/ OpenWindows = {})
              /\ ws[w].rounds = 1 /\ ws[w].extractor = {}
    BY <1>1, <2>2, WindowAssigned
  <2> HIDE DEF r
  <2> QED
    BY <2>1, <2>3
<1> DEFINE row == [cid |-> r.cid, onboarding |-> r.onboarding, refs |-> cited, window |-> w]
<1>6. row \in TurnRow
  <2>1. cited \in SUBSET Nat
    BY <1>1, TalkRows DEF ActiveMemories
  <2> QED
    BY <1>2, <1>5, <2>1 DEF TurnRow
<1>7. turns' = Append(turns, row)
  BY <1>3, <1>4 DEF InsertedPair
<1>8. /\ row.cid = r.cid /\ row.onboarding = r.onboarding /\ row.window = w
  OBVIOUS
<1> HIDE DEF row
<1>9. /\ turns' \in Seq(TurnRow) /\ Len(turns)' = n
      /\ DOMAIN turns' = (DOMAIN turns) \cup {n} /\ n \notin DOMAIN turns
      /\ \A i \in DOMAIN turns : turns'[i] = turns[i]
      /\ turns'[n] = row
      /\ OnboardingPairs \in Nat
      /\ OnboardingPairs' = IF r.onboarding THEN OnboardingPairs + 1 ELSE OnboardingPairs
      /\ \A v : /\ Cardinality(TurnsIn(v)) \in Nat
                /\ TurnsIn(v)' = IF v = w THEN TurnsIn(v) \cup {n} ELSE TurnsIn(v)
                /\ v = w => Cardinality(TurnsIn(v)') = Cardinality(TurnsIn(v)) + 1
  BY <1>1, <1>6, <1>7, <1>8, TurnAdded
<1>10. /\ Len(turns) \in Nat /\ DOMAIN turns = 1 .. Len(turns)
       /\ \A v \in DOMAIN windows : windows[v] \in WindowRow
  BY <1>1, TalkRows
<1> HIDE DEF n, r
<1>11. /\ soul' \in SoulRow /\ soul'.hatched = soul.hatched
       /\ soul'.step = IF r.onboarding /\ soul.step < HatchRounds
                       THEN soul.step + 1 ELSE soul.step
       /\ soul'.rounds = IF r.onboarding THEN soul.rounds ELSE soul.rounds + 1
  <2> DEFINE step == NextStep(r.seen.step, r.onboarding)
             rounds == NextRounds(r.seen.rounds, r.onboarding)
             version == soul.version + 1
  <2>1. soul \in SoulRow /\ HatchRounds \in Nat
    BY <1>1, TalkConstants DEF TalkTyped
  <2>2. /\ step = IF r.onboarding /\ soul.step < HatchRounds
                  THEN soul.step + 1 ELSE soul.step
        /\ rounds = IF r.onboarding THEN soul.rounds ELSE soul.rounds + 1
    BY <1>2 DEF NextStep, NextRounds
  <2>3. step \in 0 .. HatchRounds /\ rounds \in Nat /\ version \in Nat
    BY <2>1, <2>2 DEF SoulRow
  <2>4. soul' = [soul EXCEPT !.step = step, !.rounds = rounds, !.version = version]
    BY <1>3, <2>1 DEF AppliedTurn, Bumped, SoulRow
  <2> HIDE DEF step, rounds, version
  <2>5. /\ soul' \in SoulRow /\ soul'.hatched = soul.hatched /\ soul'.step = step
        /\ soul'.rounds = rounds
    BY <2>1, <2>3, <2>4 DEF SoulRow
  <2> QED
    BY <2>2, <2>5
<1>12. TalkTyped'
  <2>1. chatUsed' \in 0 .. ChatLimit
    BY <1>1, <1>2, <1>3, TalkConstants DEF TalkTyped
  <2> QED
    BY <1>1, <1>3, <1>5, <1>9, <1>11, <2>1 DEF TalkTyped
<1>13. TurnsOK'
  <2>1. \A i, j \in DOMAIN turns' : turns'[i].cid = turns'[j].cid => i = j
    BY <1>1, <1>2, <1>8, <1>9 DEF TurnsOK
  <2>2. chatUsed' = Len(turns')
    BY <1>1, <1>3, <1>9 DEF TurnsOK, n
  <2>3. soul'.rounds = Len(turns)' - OnboardingPairs'
    BY <1>1, <1>9, <1>10, <1>11 DEF TurnsOK, n
  <2>4. soul'.step = IF OnboardingPairs' < HatchRounds THEN OnboardingPairs' ELSE HatchRounds
    BY <1>1, <1>9, <1>11, TalkConstants DEF TurnsOK
  <2>5. \A i \in DOMAIN turns' : turns'[i].window \in DOMAIN windows'
    BY <1>1, <1>5, <1>8, <1>9 DEF TurnsOK
  <2> QED
    BY <2>1, <2>2, <2>3, <2>4, <2>5 DEF TurnsOK
<1>14. WindowsOK'
  <2>1. ASSUME NEW v \in DOMAIN windows', v # w
        PROVE  WindowOK(v)'
    <3>1. v \in DOMAIN windows /\ windows'[v] = windows[v] /\ TurnsIn(v)' = TurnsIn(v)
      BY <1>5, <1>9, <2>1
    <3>2. \A i \in TurnsIn(v) : turns'[i] = turns[i]
      BY <1>9 DEF TurnsIn
    <3> QED
      BY <1>1, <3>1, <3>2 DEF WindowsOK, WindowOK
  <2>2. /\ Cardinality(TurnsIn(w)) \in Nat /\ TurnsIn(w)' = TurnsIn(w) \cup {n}
        /\ Cardinality(TurnsIn(w)') = Cardinality(TurnsIn(w)) + 1
    BY <1>9
  <2>3. ASSUME w \in OpenWindows, ~r.onboarding, windows'[w].rounds = windows[w].rounds + 1
        PROVE  WindowOK(w)'
    <3>1. /\ w \in DOMAIN windows /\ windows[w].status = "open" /\ ~windows[w].onboarding
          /\ windows[w].rounds = Cardinality(TurnsIn(w))
          /\ \A i \in TurnsIn(w) : ~turns[i].onboarding
          /\ windows[w].rounds \in 1 .. ReadyRounds /\ windows[w].rounds < ReadyRounds
      BY <1>1, <2>3 DEF WindowsOK, WindowOK, OpenWindows
    <3>2. windows'[w].rounds = Cardinality(TurnsIn(w)')
      BY <2>2, <2>3, <3>1
    <3>3. \A i \in TurnsIn(w)' : turns'[i].onboarding = windows'[w].onboarding
      <4>1. \A i \in TurnsIn(w) : ~turns'[i].onboarding
        BY <1>9, <3>1 DEF TurnsIn
      <4>2. ~turns'[n].onboarding /\ ~windows'[w].onboarding
        BY <1>5, <1>8, <1>9, <2>3
      <4>3. \A i \in TurnsIn(w) : turns'[i].onboarding \in BOOLEAN
        BY <1>9, <1>10, TalkRows, <1>1 DEF TurnsIn, TurnRow
      <4>4. turns'[n].onboarding \in BOOLEAN /\ windows'[w].onboarding \in BOOLEAN
        BY <1>2, <1>5, <1>8, <1>9
      <4> QED
        BY <2>2, <4>1, <4>2, <4>3, <4>4
    <3>4. /\ windows'[w].rounds \in 1 .. ReadyRounds
          /\ windows'[w].status = "open" <=> windows'[w].rounds < ReadyRounds
      BY <1>5, <2>3, <3>1, TalkConstants DEF WindowStatus
    <3> QED
      BY <3>2, <3>3, <3>4 DEF WindowOK
  <2>4. ASSUME w \notin DOMAIN windows, windows'[w].rounds = 1
        PROVE  WindowOK(w)'
    <3>1. TurnsIn(w) = {}
      BY <1>1, <2>4 DEF TurnsOK, TurnsIn
    <3>2. windows'[w].rounds = Cardinality(TurnsIn(w)')
      BY <2>2, <2>4, <3>1, FS_EmptySet
    <3>3. \A i \in TurnsIn(w)' : turns'[i].onboarding = windows'[w].onboarding
      BY <1>5, <1>8, <1>9, <2>2, <3>1
    <3>4. ~windows'[w].onboarding =>
              /\ windows'[w].rounds \in 1 .. ReadyRounds
              /\ windows'[w].status = "open" <=> windows'[w].rounds < ReadyRounds
      BY <1>5, <2>4, TalkConstants DEF WindowStatus
    <3> QED
      BY <3>2, <3>3, <3>4 DEF WindowOK
  <2>5. \A u, v \in OpenWindows' : u = v
    <3>1. \A v \in OpenWindows' : v = w \/ v \in OpenWindows
      BY <1>5 DEF OpenWindows
    <3>2. CASE r.onboarding
      <4>1. \A v \in OpenWindows' : v # w
        BY <1>5, <3>2 DEF OpenWindows
      <4> QED
        BY <1>1, <3>1, <4>1 DEF WindowsOK
    <3>3. CASE ~r.onboarding
      BY <1>1, <1>5, <3>1, <3>3 DEF WindowsOK
    <3> QED
      BY <1>2, <3>2, <3>3
  <2> QED
    BY <1>5, <2>1, <2>3, <2>4, <2>5 DEF WindowsOK
<1>15. HatchOK'
  <2>1. \A i, j \in DOMAIN turns' : i < j /\ turns'[j].onboarding => turns'[i].onboarding
    <3> SUFFICES ASSUME NEW i \in DOMAIN turns', NEW j \in DOMAIN turns',
                        i < j, turns'[j].onboarding
                 PROVE  turns'[i].onboarding
      OBVIOUS
    <3>1. i \in DOMAIN turns
      BY <1>9, <1>10 DEF n
    <3>2. CASE j \in DOMAIN turns
      BY <1>1, <1>9, <3>1, <3>2 DEF HatchOK
    <3>3. CASE j = n
      BY <1>1, <1>2, <1>8, <1>9, <3>1, <3>3 DEF HatchOK
    <3> QED
      BY <1>9, <3>2, <3>3
  <2>2. \A i \in DOMAIN turns' : ~turns'[i].onboarding => soul'.hatched
    BY <1>1, <1>2, <1>8, <1>9, <1>11 DEF HatchOK
  <2>3. soul'.hatched => OnboardingPairs' >= HatchRounds
    BY <1>1, <1>9, <1>11, TalkConstants DEF HatchOK
  <2> QED
    BY <2>1, <2>2, <2>3 DEF HatchOK
<1>16. \A v \in DOMAIN windows :
          /\ v \in DOMAIN windows' /\ windows'[v].extractor = windows[v].extractor
          /\ windows'[v].status = "extracted" <=> windows[v].status = "extracted"
  BY <1>5 DEF OpenWindows, WindowStatus
<1>17. w \notin DOMAIN windows => windows'[w].extractor = {} /\ windows'[w].status # "extracted"
  BY <1>5 DEF OpenWindows, WindowStatus
<1>18. GivenOK'
  <2>1. \A v : MemoriesOf(v)' = MemoriesOf(v)
    BY <1>3 DEF MemoriesOf
  <2>2. ASSUME NEW v \in DOMAIN windows'
        PROVE  /\ Cardinality(MemoriesOf(v)') <= 2
               /\ windows'[v].status = "extracted" <=> windows'[v].extractor # {}
    <3>1. CASE v \in DOMAIN windows
      BY <1>1, <1>16, <2>1, <3>1 DEF GivenOK
    <3>2. CASE v \notin DOMAIN windows
      <4>1. MemoriesOf(v) = {}
        BY <1>1, <3>2 DEF GivenOK, MemoriesOf
      <4>2. Cardinality(MemoriesOf(v)') = 0
        BY <2>1, <4>1, FS_EmptySet
      <4>3. v = w
        BY <1>5, <3>2
      <4> QED
        BY <1>17, <3>2, <4>2, <4>3
    <3> QED
      BY <3>1, <3>2
  <2>3. \A u, v \in DOMAIN windows' :
            u # v => windows'[u].extractor \cap windows'[v].extractor = {}
    BY <1>1, <1>5, <1>16, <1>17 DEF GivenOK
  <2>4. \A m \in DOMAIN memories' :
            /\ memories'[m].window \in DOMAIN windows'
            /\ windows'[memories'[m].window].status = "extracted"
    BY <1>1, <1>3, <1>16 DEF GivenOK
  <2>5. \A t \in SampleTexts :
            samples'[t].status # "none" =>
                /\ samples'[t].window \in DOMAIN windows'
                /\ windows'[samples'[t].window].status = "extracted"
    BY <1>1, <1>3, <1>16 DEF GivenOK
  <2> QED
    BY <2>2, <2>3, <2>4, <2>5 DEF GivenOK
<1>19. SamplesFollow'
  <2>1. ActiveSamples' = ActiveSamples
    BY <1>3 DEF ActiveSamples
  <2> QED
    BY <1>1, <1>3, <2>1 DEF SamplesFollow
<1>20. CommittedOK'
  BY <1>12, <1>13, <1>14, <1>15, <1>18, <1>19 DEF CommittedOK
<1>21. DOMAIN request' = Handlers /\ \A k \in Handlers : request'[k] = Idle
  BY <1>2, <1>3, HandlerEnds DEF TalkIndInv, r
<1> QED
  BY <1>20, <1>21, AllIdle

\* A turn or an extract that begins: nothing is committed, and one handler waits.
LEMMA HandlerStarts ==
    ASSUME TalkIndInv, NEW h \in Handlers, NEW r,
           \A k \in Handlers : request[k] = Idle,
           request' = [request EXCEPT ![h] = r],
           UNCHANGED <<soul, turns, windows, memories, samples, chatUsed>>,
           GeneratingOK(r) \/ ExtractingOK(r)
    PROVE  TalkIndInv'
<1>1. CommittedOK'
  BY CommittedSame DEF TalkIndInv
<1>2. DOMAIN request = Handlers
  BY DEF TalkIndInv, RequestsOK
<1>3. /\ DOMAIN request' = Handlers /\ request'[h] = r
      /\ \A k \in Handlers : k # h => request'[k] = Idle
  BY <1>2
<1>4. GeneratingOK(r)' \/ ExtractingOK(r)'
  <2>1. CASE GeneratingOK(r)
    <3>1. PromptRecall' = PromptRecall
      BY DEF PromptRecall, ActiveMemories, ActiveSamples
    <3> QED
      BY <2>1, <3>1 DEF GeneratingOK
  <2>2. CASE ExtractingOK(r)
    BY <2>2 DEF ExtractingOK, Extractable
  <2> QED
    BY <2>1, <2>2
<1>5. ASSUME NEW k \in Handlers
      PROVE  request'[k] = Idle \/ GeneratingOK(request[k])' \/ ExtractingOK(request[k])'
  <2>1. CASE k = h
    BY <1>3, <1>4, <2>1 DEF GeneratingOK, ExtractingOK
  <2>2. CASE k # h
    BY <1>3, <2>2
  <2> QED
    BY <2>1, <2>2
<1>6. \A j, k \in Handlers : request'[j] # Idle /\ request'[k] # Idle => j = k
  BY <1>3
<1>7. RequestsOK'
  BY <1>3, <1>5, <1>6 DEF RequestsOK
<1> QED
  BY <1>1, <1>7 DEF TalkIndInv

LEMMA StartTurnInv ==
    ASSUME TalkIndInv, NEW h \in Handlers, NEW cid \in TurnIds, NEW onboarding \in BOOLEAN,
           StartTurn(h, cid, onboarding)
    PROVE  TalkIndInv'
<1> DEFINE r == [phase |-> "generating", cid |-> cid, onboarding |-> onboarding,
                 seen |-> [step |-> soul.step, rounds |-> soul.rounds],
                 told |-> PromptRecall]
<1>1. /\ SpiritFree /\ TurnClaimed(cid) /\ FlagFits(onboarding) /\ chatUsed < ChatLimit
      /\ request' = [request EXCEPT ![h] = r]
      /\ UNCHANGED <<soul, turns, windows, memories, samples, chatUsed>>
  BY DEF StartTurn
<1>2. GeneratingOK(r)
  BY <1>1 DEF GeneratingOK, TurnClaimed, FlagFits
<1>3. \A k \in Handlers : request[k] = Idle
  BY <1>1, SpiritFreed DEF TalkIndInv
<1> HIDE DEF r
<1> QED
  BY <1>1, <1>2, <1>3, HandlerStarts

-----------------------------------------------------------------------------
(* Talk: an extract. *)

LEMMA StartExtractInv ==
    ASSUME TalkIndInv, NEW h \in Handlers, NEW w \in DOMAIN windows, NEW cid \in ExtractIds,
           StartExtract(h, w, cid)
    PROVE  TalkIndInv'
<1> DEFINE r == [phase |-> "extracting", window |-> w, cid |-> cid]
<1>1. /\ SpiritFree /\ Extractable(w, cid)
      /\ request' = [request EXCEPT ![h] = r]
      /\ UNCHANGED <<soul, turns, windows, memories, samples, chatUsed>>
  BY DEF StartExtract
<1>2. ExtractingOK(r)
  BY <1>1 DEF ExtractingOK
<1>3. \A k \in Handlers : request[k] = Idle
  BY <1>1, SpiritFreed DEF TalkIndInv
<1> HIDE DEF r
<1> QED
  BY <1>1, <1>2, <1>3, HandlerStarts

\* A transaction that is rolled back.
LEMMA FailInv ==
    ASSUME TalkIndInv, NEW h \in Handlers, FailTurn(h) \/ FailExtract(h)
    PROVE  TalkIndInv'
<1>1. /\ request[h] # Idle /\ request' = [request EXCEPT ![h] = Idle]
      /\ UNCHANGED <<soul, turns, windows, memories, samples, chatUsed>>
  BY DEF FailTurn, FailExtract, Idle
<1>2. CommittedOK'
  BY <1>1, CommittedSame DEF TalkIndInv
<1>3. DOMAIN request' = Handlers /\ \A k \in Handlers : request'[k] = Idle
  BY <1>1, HandlerEnds DEF TalkIndInv
<1> QED
  BY <1>2, <1>3, AllIdle

\* Rounds and turns stay as they are.
LEMMA SameTurns ==
    ASSUME TurnsOK, HatchOK, UNCHANGED <<turns, chatUsed>>,
           soul'.step = soul.step, soul'.rounds = soul.rounds, soul'.hatched = soul.hatched,
           DOMAIN windows \subseteq DOMAIN windows'
    PROVE  TurnsOK' /\ HatchOK'
<1>1. OnboardingPairs' = OnboardingPairs
  BY DEF OnboardingPairs
<1>2. TurnsOK'
  BY <1>1 DEF TurnsOK
<1>3. HatchOK'
  BY <1>1 DEF HatchOK
<1> QED
  BY <1>2, <1>3

LEMMA VersionMoves ==
    ASSUME soul \in SoulRow, NEW n \in Nat, soul' = [soul EXCEPT !.version = @ + n]
    PROVE  /\ soul' \in SoulRow
           /\ soul'.step = soul.step /\ soul'.rounds = soul.rounds
           /\ soul'.hatched = soul.hatched /\ soul'.version = soul.version + n
<1> DEFINE version == soul.version + n
<1>1. version \in Nat /\ soul' = [soul EXCEPT !.version = version]
  BY DEF SoulRow
<1> HIDE DEF version
<1>2. /\ soul' \in SoulRow
      /\ soul'.step = soul.step /\ soul'.rounds = soul.rounds
      /\ soul'.hatched = soul.hatched /\ soul'.version = version
  BY <1>1 DEF SoulRow
<1> QED
  BY <1>2 DEF version

\* The memories of a window are those that were drafted from it.
LEMMA MemoriesAdded ==
    ASSUME memories \in Seq(MemoryRow), NEW drafts \in 0 .. 2, NEW w \in Nat,
           memories' = WithMemories(drafts, w)
    PROVE  /\ memories' \in Seq(MemoryRow)
           /\ DOMAIN memories' = (DOMAIN memories) \cup (Len(memories) + 1 .. Len(memories) + drafts)
           /\ \A m \in DOMAIN memories : memories'[m] = memories[m]
           /\ \A m \in Len(memories) + 1 .. Len(memories) + drafts :
                 memories'[m].status = "active" /\ memories'[m].window = w
<1> DEFINE row == [status |-> "active", window |-> w]
           new == [i \in 1 .. drafts |-> row]
           n == Len(memories)
<1>1. n \in Nat /\ DOMAIN memories = 1 .. n
  BY SeqRows
<1>2. row \in MemoryRow
  BY DEF MemoryRow
<1>3. memories' = memories \o new
  BY DEF WithMemories
<1>4. row.status = "active" /\ row.window = w
  OBVIOUS
<1> HIDE DEF row
<1>5. new \in Seq(MemoryRow) /\ Len(new) = drafts
  BY <1>2, IsASeq
<1>6. /\ \A i \in 1 .. drafts : new[i] = row
  OBVIOUS
<1> HIDE DEF new
<1>7. /\ memories' \in Seq(MemoryRow) /\ Len(memories') = n + drafts
      /\ \A i \in 1 .. n + drafts : memories'[i] = IF i <= n THEN memories[i] ELSE new[i - n]
  BY <1>3, <1>5, ConcatProperties
<1>8. DOMAIN memories' = 1 .. n + drafts
  BY <1>7, SeqRows
<1>9. \A m \in n + 1 .. n + drafts : m - n \in 1 .. drafts /\ memories'[m] = new[m - n]
  BY <1>1, <1>7
<1>10. \A m \in 1 .. n : memories'[m] = memories[m]
  BY <1>1, <1>7
<1>11. DOMAIN memories' = (DOMAIN memories) \cup (n + 1 .. n + drafts)
  BY <1>1, <1>8
<1> QED
  BY <1>1, <1>4, <1>6, <1>7, <1>9, <1>10, <1>11

LEMMA FinishExtractInv ==
    ASSUME TalkIndInv, NEW h \in Handlers, NEW drafts \in 0 .. 2, NEW traits \in 0 .. 2,
           NEW steps \in 0 .. 2, NEW style \in StyleDrafts,
           FinishExtract(h, drafts, traits, style, steps)
    PROVE  TalkIndInv'
<1>1. CommittedOK /\ TalkTyped /\ TurnsOK /\ WindowsOK /\ HatchOK /\ GivenOK /\ SamplesFollow
  BY DEF TalkIndInv, CommittedOK
<1>2. PICK w, cid : w = request[h].window /\ cid = request[h].cid
  OBVIOUS
<1>3. /\ request[h] # Idle /\ w \in DOMAIN windows /\ cid \in ExtractIds
      /\ ~windows[w].onboarding /\ windows[w].status = "ready"
      /\ \A v \in DOMAIN windows : v # w => cid \notin windows[v].extractor
  BY <1>2 DEF TalkIndInv, RequestsOK, FinishExtract, GeneratingOK, ExtractingOK, Extractable, Idle
<1>4. /\ memories' = WithMemories(drafts, w)
      /\ samples' = IF style = {} THEN samples ELSE WithSample(CHOOSE t \in style : TRUE, w)
      /\ windows' = MarkedExtracted(w, cid)
      /\ request' = [request EXCEPT ![h] = Idle]
      /\ turns' = turns /\ chatUsed' = chatUsed
      /\ soul' = [soul EXCEPT !.version =
                    @ + steps + (IF traits > 0 THEN traits ELSE Cardinality(style))]
  BY <1>2 DEF FinishExtract
<1>5. /\ Len(memories) \in Nat /\ DOMAIN memories = 1 .. Len(memories)
      /\ Len(windows) \in Nat /\ DOMAIN windows = 1 .. Len(windows) /\ w \in Nat
      /\ \A v \in DOMAIN windows : windows[v] \in WindowRow
      /\ windows \in Seq(WindowRow) /\ memories \in Seq(MemoryRow)
      /\ soul \in SoulRow /\ samples \in [SampleTexts -> SampleRow]
  BY <1>1, <1>3, TalkRows DEF TalkTyped
<1>6. /\ windows' \in Seq(WindowRow) /\ DOMAIN windows' = DOMAIN windows
      /\ \A v \in DOMAIN windows : v # w => windows'[v] = windows[v]
      /\ windows'[w].status = "extracted" /\ windows'[w].extractor = {cid}
      /\ windows'[w].onboarding = windows[w].onboarding
      /\ windows'[w].rounds = windows[w].rounds
  <2> DEFINE row == [windows[w] EXCEPT !.status = "extracted", !.extractor = {cid}]
  <2>1. windows' = [windows EXCEPT ![w] = row]
    BY <1>3, <1>4, <1>5 DEF MarkedExtracted, WindowRow
  <2>2. /\ row \in WindowRow /\ row.status = "extracted" /\ row.extractor = {cid}
        /\ row.onboarding = windows[w].onboarding /\ row.rounds = windows[w].rounds
    BY <1>3, <1>5 DEF WindowRow
  <2> HIDE DEF row
  <2>3. /\ windows' \in Seq(WindowRow) /\ DOMAIN windows' = DOMAIN windows
        /\ windows'[w] = row
        /\ \A v \in DOMAIN windows : v # w => windows'[v] = windows[v]
    BY <1>3, <1>5, <2>1, <2>2, ExceptSeq
  <2> QED
    BY <2>2, <2>3
<1>7. PICK n : n = Len(memories)
  OBVIOUS
<1>8. /\ memories' \in Seq(MemoryRow)
      /\ DOMAIN memories' = (DOMAIN memories) \cup (n + 1 .. n + drafts)
      /\ \A m \in DOMAIN memories : memories'[m] = memories[m]
      /\ \A m \in n + 1 .. n + drafts :
            memories'[m].status = "active" /\ memories'[m].window = w
  BY <1>4, <1>5, <1>7, MemoriesAdded
<1>9. /\ soul' \in SoulRow /\ soul'.step = soul.step /\ soul'.rounds = soul.rounds
      /\ soul'.hatched = soul.hatched
  <2> DEFINE extra == IF traits > 0 THEN traits ELSE Cardinality(style)
             more == steps + extra
  <2>1. extra \in Nat
    <3>1. CASE style = {}
      BY <3>1, FS_EmptySet
    <3>2. CASE style # {}
      <4>1. PICK t \in SampleTexts : style = {t}
        BY <3>2 DEF StyleDrafts
      <4>2. Cardinality(style) = 1
        BY <4>1, FS_Singleton
      <4> QED
        BY <4>2
    <3> QED
      BY <3>1, <3>2
  <2>2. soul' = [soul EXCEPT !.version = soul.version + steps + extra]
    BY <1>4
  <2> HIDE DEF extra
  <2>3. more \in Nat /\ soul.version + steps + extra = soul.version + more
    BY <1>5, <2>1 DEF SoulRow
  <2> HIDE DEF more
  <2>4. soul' = [soul EXCEPT !.version = @ + more]
    BY <2>2, <2>3
  <2> QED
    BY <1>5, <2>3, <2>4, VersionMoves
<1>10. TurnsOK' /\ HatchOK'
  BY <1>1, <1>4, <1>6, <1>9, SameTurns
<1>11. samples' \in [SampleTexts -> SampleRow]
       /\ \A t \in SampleTexts :
             \/ samples'[t] = samples[t]
             \/ samples'[t] = [status |-> "active", window |-> w]
  <2>1. CASE style = {}
    BY <1>4, <1>5, <2>1
  <2>2. CASE style # {}
    <3>1. PICK t \in SampleTexts : samples' = WithSample(t, w)
      BY <1>4, <2>2 DEF StyleDrafts
    <3>2. [status |-> "active", window |-> w] \in SampleRow
      BY <1>5 DEF SampleRow
    <3> QED
      BY <1>5, <3>1, <3>2 DEF WithSample
  <2> QED
    BY <2>1, <2>2
<1>12. TalkTyped'
  BY <1>1, <1>4, <1>6, <1>8, <1>9, <1>11 DEF TalkTyped
<1>13. WindowsOK'
  <2>1. ASSUME NEW v \in DOMAIN windows'
        PROVE  WindowOK(v)'
    <3>1. TurnsIn(v)' = TurnsIn(v)
      BY <1>4 DEF TurnsIn
    <3>2. /\ windows'[v].onboarding = windows[v].onboarding
          /\ windows'[v].rounds = windows[v].rounds
          /\ windows'[v].status = "open" <=> windows[v].status = "open"
      BY <1>3, <1>6, <2>1
    <3> QED
      BY <1>1, <1>4, <1>6, <2>1, <3>1, <3>2 DEF WindowsOK, WindowOK
  <2>2. OpenWindows' \subseteq OpenWindows
    BY <1>3, <1>6 DEF OpenWindows
  <2> QED
    BY <1>1, <2>1, <2>2 DEF WindowsOK
<1>14. \A m \in DOMAIN memories : memories[m].window # w
  BY <1>1, <1>3 DEF GivenOK
<1>15. GivenOK'
  <2>1. ASSUME NEW v \in DOMAIN windows
        PROVE  Cardinality(MemoriesOf(v)') <= 2
    <3>1. CASE v = w
      <4>1. MemoriesOf(v)' = n + 1 .. n + drafts
        BY <1>8, <1>14, <3>1 DEF MemoriesOf
      <4>2. n + 1 \in Int /\ n + drafts \in Int
        BY <1>5, <1>7
      <4>3. Cardinality(n + 1 .. n + drafts) =
                IF n + 1 > n + drafts THEN 0 ELSE (n + drafts) - (n + 1) + 1
        BY <4>2, FS_Interval
      <4> QED
        BY <1>5, <1>7, <4>1, <4>3
    <3>2. CASE v # w
      <4>1. MemoriesOf(v)' = MemoriesOf(v)
        BY <1>8, <3>2 DEF MemoriesOf
      <4> QED
        BY <1>1, <4>1 DEF GivenOK
    <3> QED
      BY <3>1, <3>2
  <2>2. \A v \in DOMAIN windows : windows'[v].status = "extracted" <=> windows'[v].extractor # {}
    BY <1>1, <1>6 DEF GivenOK
  <2>3. \A u, v \in DOMAIN windows :
            u # v => windows'[u].extractor \cap windows'[v].extractor = {}
    <3> SUFFICES ASSUME NEW u \in DOMAIN windows, NEW v \in DOMAIN windows, u # v
                 PROVE  windows'[u].extractor \cap windows'[v].extractor = {}
      OBVIOUS
    <3>1. CASE u = w
      BY <1>3, <1>6, <3>1
    <3>2. CASE v = w
      BY <1>3, <1>6, <3>2
    <3>3. CASE u # w /\ v # w
      BY <1>1, <1>6, <3>3 DEF GivenOK
    <3> QED
      BY <3>1, <3>2, <3>3
  <2>4. \A m \in DOMAIN memories' :
            /\ memories'[m].window \in DOMAIN windows
            /\ windows'[memories'[m].window].status = "extracted"
    BY <1>1, <1>3, <1>6, <1>8 DEF GivenOK
  <2>5. \A t \in SampleTexts :
            samples'[t].status # "none" =>
                /\ samples'[t].window \in DOMAIN windows
                /\ windows'[samples'[t].window].status = "extracted"
    BY <1>1, <1>3, <1>6, <1>11 DEF GivenOK
  <2> QED
    BY <1>6, <2>1, <2>2, <2>3, <2>4, <2>5 DEF GivenOK
<1>16. SamplesFollow'
  <2> SUFFICES ASSUME NEW t \in SampleTexts, samples'[t].status = "active",
                      NEW m \in DOMAIN memories', memories'[m].window = samples'[t].window
               PROVE  memories'[m].status = "active"
    BY DEF SamplesFollow, ActiveSamples
  <2>1. CASE m \in n + 1 .. n + drafts
    BY <1>8, <2>1
  <2>2. CASE m \in DOMAIN memories
    <3>1. memories'[m] = memories[m] /\ memories[m].window # w
      BY <1>8, <1>14, <2>2
    <3>2. samples'[t] = samples[t]
      BY <1>11, <3>1
    <3> QED
      BY <1>1, <2>2, <3>1, <3>2 DEF SamplesFollow, ActiveSamples
  <2> QED
    BY <1>8, <2>1, <2>2
<1>17. CommittedOK'
  BY <1>10, <1>12, <1>13, <1>15, <1>16 DEF CommittedOK
<1>18. DOMAIN request' = Handlers /\ \A k \in Handlers : request'[k] = Idle
  BY <1>3, <1>4, HandlerEnds DEF TalkIndInv
<1> QED
  BY <1>17, <1>18, AllIdle

-----------------------------------------------------------------------------
(* Talk: memories end, and the spirit hatches. *)

\* The samples whose window is among those given are no longer active.
LEMMA SamplesEnd ==
    ASSUME samples \in [SampleTexts -> SampleRow], NEW ws, samples' = Deactivated(ws)
    PROVE  /\ samples' \in [SampleTexts -> SampleRow]
           /\ \A t \in SampleTexts :
                 /\ samples'[t].window = samples[t].window
                 /\ samples'[t].status = "none" <=> samples[t].status = "none"
                 /\ samples'[t].status = "active" <=>
                       samples[t].status = "active" /\ samples[t].window \notin ws
<1>1. ASSUME NEW t \in SampleTexts
      PROVE  [samples[t] EXCEPT !.status = "inactive"] \in SampleRow
  BY DEF SampleRow
<1> QED
  BY <1>1 DEF Deactivated, SampleRow

\* Memories that end, with the samples of their windows.
LEMMA MemoriesEnd ==
    ASSUME TalkIndInv, SpiritUnlocked,
           memories' \in Seq(MemoryRow), DOMAIN memories' = DOMAIN memories,
           \A m \in DOMAIN memories : memories'[m].window = memories[m].window,
           NEW ws, samples' = Deactivated(ws), soul' = Bumped(soul),
           \A m \in DOMAIN memories :
               \/ memories'[m].status = memories[m].status
               \/ memories[m].window \in ws,
           UNCHANGED <<turns, windows, chatUsed, request>>
    PROVE  TalkIndInv'
<1>1. CommittedOK /\ TalkTyped /\ TurnsOK /\ WindowsOK /\ HatchOK /\ GivenOK /\ SamplesFollow
  BY DEF TalkIndInv, CommittedOK
<1>2. soul \in SoulRow /\ samples \in [SampleTexts -> SampleRow]
  BY <1>1 DEF TalkTyped
<1>3. /\ samples' \in [SampleTexts -> SampleRow]
      /\ \A t \in SampleTexts :
            /\ samples'[t].window = samples[t].window
            /\ samples'[t].status = "none" <=> samples[t].status = "none"
            /\ samples'[t].status = "active" <=>
                  samples[t].status = "active" /\ samples[t].window \notin ws
  BY <1>2, SamplesEnd
<1>4. soul' = [soul EXCEPT !.version = @ + 1]
  BY DEF Bumped
<1>5. /\ soul' \in SoulRow /\ soul'.step = soul.step /\ soul'.rounds = soul.rounds
      /\ soul'.hatched = soul.hatched
  BY <1>2, <1>4, VersionMoves
<1>6. TurnsOK' /\ HatchOK'
  BY <1>1, <1>5, SameTurns
<1>7. TalkTyped'
  BY <1>1, <1>3, <1>5 DEF TalkTyped
<1>8. WindowsOK'
  BY <1>1 DEF WindowsOK, WindowOK, TurnsIn, OpenWindows
<1>9. GivenOK'
  <2>1. \A v : MemoriesOf(v)' = MemoriesOf(v)
    BY DEF MemoriesOf
  <2> QED
    BY <1>1, <1>3, <2>1 DEF GivenOK
<1>10. SamplesFollow'
  <2> SUFFICES ASSUME NEW t \in SampleTexts, samples'[t].status = "active",
                      NEW m \in DOMAIN memories', memories'[m].window = samples'[t].window
               PROVE  memories'[m].status = "active"
    BY DEF SamplesFollow, ActiveSamples
  <2>1. /\ samples[t].status = "active" /\ samples[t].window \notin ws
        /\ memories[m].window = samples[t].window
    BY <1>3
  <2>2. memories[m].status = "active" /\ memories'[m].status = memories[m].status
    BY <1>1, <2>1 DEF SamplesFollow, ActiveSamples
  <2> QED
    BY <2>2
<1>11. CommittedOK'
  BY <1>6, <1>7, <1>8, <1>9, <1>10 DEF CommittedOK
<1>12. \A k \in Handlers : request[k] = Idle
  BY SpiritFreed DEF TalkIndInv, SpiritUnlocked
<1>13. DOMAIN request' = Handlers /\ \A k \in Handlers : request'[k] = Idle
  BY <1>12 DEF TalkIndInv, RequestsOK
<1> QED
  BY <1>11, <1>13, AllIdle

\* One memory becomes sealed or deleted.
LEMMA OneMemoryEnds ==
    ASSUME TalkIndInv, SpiritUnlocked, NEW m \in DOMAIN memories,
           NEW status \in {"sealed", "deleted"},
           memories' = [memories EXCEPT ![m].status = status],
           samples' = Deactivated({memories[m].window}), soul' = Bumped(soul),
           UNCHANGED <<turns, windows, chatUsed, request>>
    PROVE  TalkIndInv'
<1>1. memories \in Seq(MemoryRow) /\ DOMAIN memories = 1 .. Len(memories) /\ Len(memories) \in Nat
      /\ \A k \in DOMAIN memories : memories[k] \in MemoryRow
  BY TalkRows DEF TalkIndInv, CommittedOK, TalkTyped
<1> DEFINE row == [memories[m] EXCEPT !.status = status]
<1>2. row \in MemoryRow /\ row.window = memories[m].window
  BY <1>1 DEF MemoryRow
<1>3. memories' = [memories EXCEPT ![m] = row]
  BY <1>1
<1> HIDE DEF row
<1>4. /\ memories' \in Seq(MemoryRow) /\ DOMAIN memories' = DOMAIN memories
      /\ memories'[m] = row
      /\ \A k \in DOMAIN memories : k # m => memories'[k] = memories[k]
  BY <1>1, <1>2, <1>3, ExceptSeq
<1>5. \A k \in DOMAIN memories :
          /\ memories'[k].window = memories[k].window
          /\ \/ memories'[k].status = memories[k].status
             \/ memories[k].window \in {memories[m].window}
  BY <1>2, <1>4
<1> QED
  BY <1>4, <1>5, MemoriesEnd

LEMMA ClearInv ==
    ASSUME TalkIndInv, NEW cid \in MemoryOpIds, ClearMemories(cid)
    PROVE  TalkIndInv'
<1> DEFINE row(m) == [memories[m] EXCEPT !.status = "deleted"]
<1>1. /\ memories \in Seq(MemoryRow) /\ Len(memories) \in Nat
      /\ DOMAIN memories = 1 .. Len(memories)
      /\ \A m \in DOMAIN memories : memories[m] \in MemoryRow
      /\ \A m \in DOMAIN memories : memories[m].window \in DOMAIN windows
  BY TalkRows DEF TalkIndInv, CommittedOK, TalkTyped, GivenOK
<1>2. memories' = [m \in DOMAIN memories |-> row(m)]
  BY DEF ClearMemories
<1>3. \A m \in DOMAIN memories : row(m) \in MemoryRow /\ row(m).window = memories[m].window
  BY <1>1 DEF MemoryRow
<1> HIDE DEF row
<1>4. memories' \in [1 .. Len(memories) -> MemoryRow]
  BY <1>1, <1>2, <1>3
<1>5. /\ memories' \in Seq(MemoryRow) /\ DOMAIN memories' = DOMAIN memories
      /\ \A m \in DOMAIN memories : memories'[m].window = memories[m].window
  BY <1>1, <1>2, <1>3, <1>4, SeqDef
<1>6. /\ SpiritUnlocked /\ samples' = Deactivated(DOMAIN windows) /\ soul' = Bumped(soul)
      /\ UNCHANGED <<turns, windows, chatUsed, request>>
  BY DEF ClearMemories
<1> QED
  BY <1>1, <1>5, <1>6, MemoriesEnd

\* A step that writes nothing but the version and whether the spirit is hatched,
\* and the ids of requests.
LEMMA MemoryRoutesInv ==
    ASSUME TalkIndInv, NEW cid \in MemoryOpIds,
           \/ ClearMemories(cid)
           \/ \E m \in DOMAIN memories : SealMemory(m, cid) \/ DeleteMemory(m, cid)
    PROVE  TalkIndInv'
<1>1. CASE ClearMemories(cid)
  BY <1>1, ClearInv
<1>2. ASSUME NEW m \in DOMAIN memories, SealMemory(m, cid)
      PROVE  TalkIndInv'
  <2>1. /\ SpiritUnlocked /\ memories' = [memories EXCEPT ![m].status = "sealed"]
        /\ samples' = Deactivated({memories[m].window}) /\ soul' = Bumped(soul)
        /\ UNCHANGED <<turns, windows, chatUsed, request>>
    BY <1>2 DEF SealMemory
  <2> QED
    BY <2>1, OneMemoryEnds
<1>3. ASSUME NEW m \in DOMAIN memories, DeleteMemory(m, cid)
      PROVE  TalkIndInv'
  <2>1. CASE Deletable(m)
    <3>1. /\ SpiritUnlocked /\ memories' = [memories EXCEPT ![m].status = "deleted"]
          /\ samples' = Deactivated({memories[m].window}) /\ soul' = Bumped(soul)
          /\ UNCHANGED <<turns, windows, chatUsed, request>>
      BY <1>3, <2>1 DEF DeleteMemory
    <3> QED
      BY <3>1, OneMemoryEnds
  <2>2. CASE ~Deletable(m)
    <3>1. SpiritFree /\ UNCHANGED <<soul, turns, windows, memories, samples, chatUsed, request>>
      BY <1>3, <2>2 DEF DeleteMemory, SpiritUnlocked
    <3>2. CommittedOK'
      BY <3>1, CommittedSame DEF TalkIndInv
    <3>3. DOMAIN request' = Handlers /\ \A k \in Handlers : request'[k] = Idle
      BY <3>1, SpiritFreed DEF TalkIndInv, RequestsOK
    <3> QED
      BY <3>2, <3>3, AllIdle
  <2> QED
    BY <2>1, <2>2
<1> QED
  BY <1>1, <1>2, <1>3

LEMMA HatchInv ==
    ASSUME TalkIndInv, Hatch
    PROVE  TalkIndInv'
<1>1. CommittedOK /\ TalkTyped /\ TurnsOK /\ WindowsOK /\ HatchOK /\ GivenOK /\ SamplesFollow
  BY DEF TalkIndInv, CommittedOK
<1>2. /\ SpiritFree /\ OnboardingPairs >= HatchRounds
      /\ soul' = Bumped([soul EXCEPT !.hatched = TRUE])
      /\ UNCHANGED <<turns, windows, memories, samples, chatUsed, request>>
  BY DEF Hatch, SpiritUnlocked, ReadyToHatch
<1>3. /\ soul' \in SoulRow /\ soul'.hatched /\ soul'.step = soul.step
      /\ soul'.rounds = soul.rounds
  <2> DEFINE version == soul.version + 1
  <2>1. soul \in SoulRow /\ version \in Nat
    BY <1>1 DEF TalkTyped, SoulRow
  <2>2. soul' = [soul EXCEPT !.hatched = TRUE, !.version = version]
    BY <1>2, <2>1 DEF Bumped, SoulRow
  <2> HIDE DEF version
  <2> QED
    BY <2>1, <2>2 DEF SoulRow
<1>4. TalkTyped'
  BY <1>1, <1>2, <1>3 DEF TalkTyped
<1>5. OnboardingPairs' = OnboardingPairs
  BY <1>2 DEF OnboardingPairs
<1>6. TurnsOK'
  BY <1>1, <1>2, <1>3, <1>5 DEF TurnsOK
<1>7. HatchOK'
  BY <1>1, <1>2, <1>3, <1>5 DEF HatchOK
<1>8. WindowsOK'
  BY <1>1, <1>2 DEF WindowsOK, WindowOK, TurnsIn, OpenWindows
<1>9. GivenOK'
  BY <1>1, <1>2 DEF GivenOK, MemoriesOf
<1>10. SamplesFollow'
  <2>1. ActiveSamples' = ActiveSamples
    BY <1>2 DEF ActiveSamples
  <2> QED
    BY <1>1, <1>2, <2>1 DEF SamplesFollow
<1>11. CommittedOK'
  BY <1>4, <1>6, <1>7, <1>8, <1>9, <1>10 DEF CommittedOK
<1>12. DOMAIN request' = Handlers /\ \A k \in Handlers : request'[k] = Idle
  BY <1>2, SpiritFreed DEF TalkIndInv, RequestsOK
<1> QED
  BY <1>11, <1>12, AllIdle

-----------------------------------------------------------------------------
(* Talk: the theorems. *)

LEMMA TalkNextInv ==
    ASSUME TalkIndInv, [TalkNext]_talkVars
    PROVE  TalkIndInv'
<1>1. CASE PostChat
  <2>1. PICK h \in Handlers, cid \in FirstNew(TurnIds, TurnClaimed), onboarding \in BOOLEAN :
            StartTurn(h, cid, onboarding)
    BY <1>1 DEF PostChat
  <2>2. cid \in TurnIds
    BY <2>1 DEF FirstNew
  <2> QED
    BY <2>1, <2>2, StartTurnInv
<1>2. CASE ChatAnswered
  BY <1>2, FailInv, FinishTurnInv DEF ChatAnswered
<1>3. CASE PostExtract
  BY <1>3, StartExtractInv DEF PostExtract
<1>4. CASE ExtractAnswered
  BY <1>4, FailInv, FinishExtractInv DEF ExtractAnswered
<1>5. CASE Hatch
  BY <1>5, HatchInv
<1>6. CASE MemoryRoutes
  <2>1. PICK cid \in FirstNew(MemoryOpIds, NewMemoryOp) :
            \/ ClearMemories(cid)
            \/ \E m \in DOMAIN memories : SealMemory(m, cid) \/ DeleteMemory(m, cid)
    BY <1>6 DEF MemoryRoutes
  <2>2. cid \in MemoryOpIds
    BY DEF FirstNew
  <2> QED
    BY <2>1, <2>2, MemoryRoutesInv
<1>7. CASE UNCHANGED talkVars
  <2>1. UNCHANGED <<soul, turns, windows, memories, samples, chatUsed, request>>
    BY <1>7 DEF talkVars
  <2>2. CommittedOK'
    BY <2>1, CommittedSame DEF TalkIndInv
  <2>3. PromptRecall' = PromptRecall
    BY <2>1 DEF PromptRecall, ActiveMemories, ActiveSamples
  <2>4. \A r : /\ GeneratingOK(r) => GeneratingOK(r)'
               /\ ExtractingOK(r) => ExtractingOK(r)'
    BY <2>1, <2>3 DEF GeneratingOK, ExtractingOK, Extractable
  <2>5. RequestsOK'
    BY <2>1, <2>4 DEF TalkIndInv, RequestsOK, GeneratingOK, ExtractingOK
  <2> QED
    BY <2>2, <2>5 DEF TalkIndInv
<1> QED
  BY <1>1, <1>2, <1>3, <1>4, <1>5, <1>6, <1>7 DEF TalkNext

LEMMA TalkInitInv == TalkInit => TalkIndInv
<1> SUFFICES ASSUME TalkInit PROVE TalkIndInv
  OBVIOUS
<1>1. TalkTyped
  BY TalkConstants DEF TalkInit, TalkTyped, SoulRow, SampleRow, NoSample
<1>2. OnboardingPairs = 0
  <2>1. {i \in DOMAIN turns : turns[i].onboarding} = {}
    BY DEF TalkInit
  <2> QED
    BY <2>1, FS_EmptySet DEF OnboardingPairs
<1>3. TurnsOK /\ HatchOK
  BY <1>2, TalkConstants DEF TalkInit, TurnsOK, HatchOK
<1>4. WindowsOK
  BY DEF TalkInit, WindowsOK, OpenWindows
<1>5. GivenOK /\ SamplesFollow
  BY DEF TalkInit, GivenOK, SamplesFollow, NoSample, ActiveSamples
<1>6. RequestsOK
  BY DEF TalkInit, RequestsOK
<1> QED
  BY <1>1, <1>3, <1>4, <1>5, <1>6 DEF TalkIndInv, CommittedOK

LEMMA TalkIndImpliesInv == TalkIndInv => TalkInv
<1> SUFFICES ASSUME TalkIndInv PROVE TalkInv
  OBVIOUS
<1>1. /\ TalkTyped /\ TurnsOK /\ WindowsOK /\ HatchOK /\ GivenOK /\ SamplesFollow /\ RequestsOK
      /\ Len(turns) \in Nat /\ DOMAIN turns = 1 .. Len(turns)
      /\ \A w \in DOMAIN windows : windows[w] \in WindowRow
      /\ \A m \in DOMAIN memories : memories[m] \in MemoryRow
  BY TalkRows DEF TalkIndInv, CommittedOK
<1>2. Cardinality({h \in Handlers : request[h] # Idle}) <= 1
  <2> DEFINE busy == {h \in Handlers : request[h] # Idle}
  <2>1. CASE busy = {}
    BY <2>1, FS_EmptySet
  <2>2. CASE busy # {}
    <3>1. PICK h \in busy : busy = {h}
      BY <1>1, <2>2 DEF RequestsOK
    <3> HIDE DEF busy
    <3>2. Cardinality(busy) = 1
      BY <3>1, FS_Singleton
    <3> QED
      BY <3>2 DEF busy
  <2> QED
    BY <2>1, <2>2
<1>3. TalkTypeOK
  BY <1>1, <1>2 DEF TalkTypeOK, TalkTyped, SoulRow, WindowRow, MemoryRow, SampleRow
<1>4. Cardinality(OpenWindows) <= 1
  <2>1. CASE OpenWindows = {}
    BY <2>1, FS_EmptySet
  <2>2. CASE OpenWindows # {}
    <3>1. PICK w \in OpenWindows : OpenWindows = {w}
      BY <1>1, <2>2 DEF WindowsOK
    <3>2. Cardinality(OpenWindows) = 1
      BY <3>1, FS_Singleton
    <3> QED
      BY <3>2
  <2> QED
    BY <2>1, <2>2
<1>5. TurnsAddUp
  BY <1>1, <1>4 DEF TurnsAddUp, TurnsOK, WindowsOK, WindowOK
<1>6. HatchedBetween
  <2>1. soul.rounds > 0 => soul.hatched
    <3> SUFFICES ASSUME ~soul.hatched PROVE soul.rounds = 0
      BY <1>1 DEF TalkTyped, SoulRow
    <3>1. {i \in DOMAIN turns : turns[i].onboarding} = 1 .. Len(turns)
      BY <1>1 DEF HatchOK
    <3>2. Cardinality(1 .. Len(turns)) = Len(turns)
      <4>1. Cardinality(1 .. Len(turns)) = IF 1 > Len(turns) THEN 0 ELSE Len(turns) - 1 + 1
        BY <1>1, FS_Interval
      <4> QED
        BY <1>1, <4>1
    <3>3. OnboardingPairs = Len(turns)
      BY <3>1, <3>2 DEF OnboardingPairs
    <3> QED
      BY <1>1, <3>3 DEF TurnsOK
  <2> QED
    BY <1>1, <2>1 DEF HatchedBetween, HatchOK
<1>7. ToldIsActive
  BY <1>1 DEF ToldIsActive, RequestsOK, GeneratingOK, ExtractingOK, PromptRecall, Idle
<1>8. ExtractedOnce
  BY <1>1 DEF ExtractedOnce, GivenOK, MemoriesOf
<1> QED
  BY <1>1, <1>3, <1>5, <1>6, <1>7, <1>8 DEF TalkInv

LEMMA TalkInvariant == TalkSpec => []TalkIndInv
<1>1. TalkInit => TalkIndInv
  BY TalkInitInv
<1>2. TalkIndInv /\ [TalkNext]_talkVars => TalkIndInv'
  BY TalkNextInv
<1> QED
  BY <1>1, <1>2, PTL DEF TalkSpec

\* Turns, windows, memories and samples agree (services/chat, services/extract,
\* services/memory), for any client ids, rounds and number of requests at a time:
\* the locks leave no other order.
THEOREM TalkAgrees == TalkSpec => []TalkInv
<1>1. TalkIndInv => TalkInv
  BY TalkIndImpliesInv
<1> QED
  BY <1>1, TalkInvariant, PTL

\* What MemoriesEndStay says of one step.
MemoriesStay ==
    /\ \A m \in DOMAIN memories :
          /\ memories[m].status \in {"sealed", "deleted"} =>
                 memories'[m].status \in {memories[m].status, "deleted"}
          /\ memories[m].status = "deleted" => memories'[m] = memories[m]
    /\ \A w \in DOMAIN windows : windows[w].status = "extracted" => windows'[w] = windows[w]
    /\ \A c \in memoryOps' \ memoryOps :
          soul'.version > soul.version <=> c.hash = <<"clear">> \/ memories' # memories

LEMMA TalkSteps ==
    ASSUME TalkIndInv, TalkNext
    PROVE  MemoriesStay
<1>1. /\ TalkTyped /\ WindowsOK /\ GivenOK /\ soul \in SoulRow /\ soul.version \in Nat
      /\ memories \in Seq(MemoryRow) /\ Len(memories) \in Nat
      /\ DOMAIN memories = 1 .. Len(memories)
      /\ \A m \in DOMAIN memories : memories[m] \in MemoryRow
      /\ \A w \in DOMAIN windows : windows[w] \in WindowRow
  BY TalkRows DEF TalkIndInv, CommittedOK, TalkTyped, SoulRow
<1>2. ASSUME UNCHANGED <<windows, memories, memoryOps>>
      PROVE  MemoriesStay
  BY <1>2 DEF MemoriesStay
<1>3. ASSUME NEW h \in Handlers, NEW cited \in SUBSET ActiveMemories, FinishTurn(h, cited)
      PROVE  MemoriesStay
  <2>1. /\ memories' = memories /\ memoryOps' = memoryOps
        /\ windows' = AssignTurnWindow(request[h].onboarding)
    BY <1>3 DEF FinishTurn
  <2>2. request[h].onboarding \in BOOLEAN
    BY <1>3 DEF FinishTurn, TalkIndInv, RequestsOK, GeneratingOK, ExtractingOK, Idle
  <2>3. PICK o, w : o = request[h].onboarding /\ w = TurnWindow(o)
    OBVIOUS
  <2>4. /\ \A v \in DOMAIN windows : v # w => windows'[v] = windows[v]
        /\ w \in OpenWindows \/ w \notin DOMAIN windows
    BY <1>1, <2>1, <2>2, <2>3, WindowAssigned
  <2>5. \A v \in DOMAIN windows : windows[v].status = "extracted" => windows'[v] = windows[v]
    BY <2>4 DEF OpenWindows
  <2> QED
    BY <2>1, <2>5 DEF MemoriesStay
<1>4. ASSUME NEW h \in Handlers, NEW drafts \in 0 .. 2, NEW traits \in 0 .. 2,
             NEW steps \in 0 .. 2, NEW style \in StyleDrafts,
             FinishExtract(h, drafts, traits, style, steps)
      PROVE  MemoriesStay
  <2>1. PICK w, cid : w = request[h].window /\ cid = request[h].cid
    OBVIOUS
  <2>2. w \in DOMAIN windows /\ windows[w].status = "ready" /\ w \in Nat
    BY <1>1, <1>4, <2>1, TalkRows
    DEF FinishExtract, TalkIndInv, RequestsOK, GeneratingOK, ExtractingOK, Extractable, Idle
  <2>3. /\ memories' = WithMemories(drafts, w) /\ windows' = MarkedExtracted(w, cid)
        /\ memoryOps' = memoryOps
    BY <1>4, <2>1 DEF FinishExtract
  <2>4. \A m \in DOMAIN memories : memories'[m] = memories[m]
    BY <1>1, <2>2, <2>3, MemoriesAdded
  <2>5. \A v \in DOMAIN windows : windows[v].status = "extracted" => windows'[v] = windows[v]
    BY <2>2, <2>3 DEF MarkedExtracted
  <2> QED
    BY <2>3, <2>4, <2>5 DEF MemoriesStay
<1>5. ASSUME NEW cid \in MemoryOpIds, ClearMemories(cid)
      PROVE  MemoriesStay
  <2>1. /\ memories' = [m \in DOMAIN memories |-> [memories[m] EXCEPT !.status = "deleted"]]
        /\ windows' = windows /\ soul' = Bumped(soul)
        /\ \A c \in memoryOps' \ memoryOps : c.hash = <<"clear">>
    BY <1>5 DEF ClearMemories, MemoryOpDone
  <2>2. soul'.version > soul.version
    BY <1>1, <2>1 DEF Bumped, SoulRow
  <2>3. \A m \in DOMAIN memories :
            /\ memories'[m].status = "deleted"
            /\ memories[m].status = "deleted" => memories'[m] = memories[m]
    BY <1>1, <2>1 DEF MemoryRow
  <2> QED
    BY <2>1, <2>2, <2>3 DEF MemoriesStay
<1>6. ASSUME NEW m \in DOMAIN memories, NEW status \in {"sealed", "deleted"},
             memories' = [memories EXCEPT ![m].status = status],
             memories[m].status = "active" \/ (memories[m].status = "sealed" /\ status = "deleted"),
             soul' = Bumped(soul), windows' = windows
      PROVE  MemoriesStay
  <2>1. soul'.version > soul.version
    BY <1>1, <1>6 DEF Bumped, SoulRow
  <2>2. /\ memories'[m].status = status /\ status # memories[m].status
        /\ \A k \in DOMAIN memories : k # m => memories'[k] = memories[k]
    BY <1>1, <1>6 DEF MemoryRow
  <2>3. memories' # memories
    BY <2>2
  <2> QED
    BY <1>6, <2>1, <2>2, <2>3 DEF MemoriesStay
<1>7. ASSUME NEW cid \in MemoryOpIds, NEW m \in DOMAIN memories, DeleteMemory(m, cid), ~Deletable(m)
      PROVE  MemoriesStay
  <2>1. /\ memories' = memories /\ windows' = windows /\ soul' = soul
        /\ \A c \in memoryOps' \ memoryOps : c.hash = <<"delete", m>>
    BY <1>7 DEF DeleteMemory, MemoryOpDone
  <2>2. <<"delete", m>> # <<"clear">>
    OBVIOUS
  <2> QED
    BY <1>1, <2>1, <2>2 DEF MemoriesStay
<1>8. CASE PostChat \/ PostExtract \/ Hatch
  <2>1. UNCHANGED <<windows, memories, memoryOps>>
    BY <1>8 DEF PostChat, PostExtract, Hatch, StartTurn, StartExtract
  <2> QED
    BY <1>2, <2>1
<1>9. CASE ChatAnswered
  BY <1>2, <1>3, <1>9 DEF ChatAnswered, FailTurn
<1>10. CASE ExtractAnswered
  BY <1>2, <1>4, <1>10 DEF ExtractAnswered, FailExtract
<1>11. CASE MemoryRoutes
  <2>1. PICK cid \in MemoryOpIds :
            \/ ClearMemories(cid)
            \/ \E m \in DOMAIN memories : SealMemory(m, cid) \/ DeleteMemory(m, cid)
    BY <1>11 DEF MemoryRoutes, FirstNew
  <2>2. CASE ClearMemories(cid)
    BY <1>5, <2>2
  <2>3. ASSUME NEW m \in DOMAIN memories, SealMemory(m, cid)
        PROVE  MemoriesStay
    <3>1. /\ memories[m].status = "active" /\ windows' = windows /\ soul' = Bumped(soul)
          /\ memories' = [memories EXCEPT ![m].status = "sealed"]
      BY <2>3 DEF SealMemory
    <3> QED
      BY <1>6, <3>1
  <2>4. ASSUME NEW m \in DOMAIN memories, DeleteMemory(m, cid)
        PROVE  MemoriesStay
    <3>1. CASE Deletable(m)
      BY <1>1, <1>6, <2>4, <3>1 DEF DeleteMemory, Deletable
    <3>2. CASE ~Deletable(m)
      BY <1>7, <2>4, <3>2
    <3> QED
      BY <3>1, <3>2
  <2> QED
    BY <2>1, <2>2, <2>3, <2>4
<1> QED
  BY <1>8, <1>9, <1>10, <1>11 DEF TalkNext

\* What was sealed or deleted never comes back, a window is extracted once, and a
\* route of memories that changes none has no version unless it is a clear
\* (services/memory), whatever turns and extracts wait for the provider.
THEOREM MemoriesEnded == TalkSpec => MemoriesEndStay
<1>1. TalkIndInv /\ [TalkNext]_talkVars => [MemoriesStay]_talkVars
  BY TalkSteps
<1> QED
  BY <1>1, TalkInvariant, PTL DEF TalkSpec, MemoriesEndStay, MemoriesStay

-----------------------------------------------------------------------------
(* Sight: the inductive invariant. *)

\* A moderation under way is of some session.
Moderated == \A m \in Moderations : mod[m].at # "idle" => mod[m].upload \in Uploads

ActiveUploads == {u \in Uploads : upload[u].status \in Active}

ConsumedUploads == {u \in Uploads : upload[u].status = "consumed"}

\* SightInv, said of the two sets of sessions: while the feed is unsettled none
\* is consumed, so that the decision is the first to consume one.
SightIndInv ==
    /\ SightTypeOK
    /\ Moderated
    /\ \A u, v \in ActiveUploads : u = v
    /\ photoMemories = IF feed = "accepted" THEN 1 ELSE 0
    /\ feed = "accepted" <=> ConsumedUploads # {}
    /\ \A u, v \in ConsumedUploads : u = v

\* A step that consumes nothing, makes no session active and leaves the feed
\* accepted or not accepted, as it was.
LEMMA SightQuiet ==
    ASSUME SightIndInv, SightTypeOK', Moderated', UNCHANGED photoMemories,
           feed' = "accepted" <=> feed = "accepted",
           ActiveUploads' \subseteq ActiveUploads, ConsumedUploads' = ConsumedUploads
    PROVE  SightIndInv'
  BY DEF SightIndInv

LEMMA NotModeratingTyped == NotModerating \in Moderation /\ NotModerating.at = "idle"
  BY DEF NotModerating, Moderation

\* Steps of a moderation that only move it.
LEMMA ModMoves ==
    ASSUME SightIndInv, NEW m \in Moderations, NEW r \in Moderation,
           r.at # "idle" => r.upload \in Uploads, mod' = [mod EXCEPT ![m] = r]
    PROVE  mod' \in [Moderations -> Moderation] /\ Moderated'
<1>1. mod \in [Moderations -> Moderation] /\ Moderated
  BY DEF SightIndInv, SightTypeOK
<1> QED
  BY <1>1 DEF Moderated

LEMMA EndMoves ==
    ASSUME SightIndInv, NEW m \in Moderations, End(m)
    PROVE  mod' \in [Moderations -> Moderation] /\ Moderated'
  BY NotModeratingTyped, ModMoves DEF End

LEMMA GotoMoves ==
    ASSUME SightIndInv, NEW m \in Moderations, mod[m].at # "idle",
           NEW at \in {"get", "begin", "judge", "accept", "reject"}, Goto(m, at)
    PROVE  mod' \in [Moderations -> Moderation] /\ Moderated'
<1>1. mod[m] \in Moderation /\ mod[m].upload \in Uploads
  BY DEF SightIndInv, SightTypeOK, Moderated
<1> DEFINE r == [mod[m] EXCEPT !.at = at]
<1>2. r \in Moderation /\ r.upload \in Uploads
  BY <1>1 DEF Moderation
<1>3. mod' = [mod EXCEPT ![m] = r]
  BY DEF Goto
<1> HIDE DEF r
<1> QED
  BY <1>2, <1>3, ModMoves

LEMMA DeleteObjectMoves ==
    ASSUME SightIndInv, NEW m \in Moderations, mod[m].at # "idle",
           NEW at \in {"accept", "reject"}, DeleteObject(m, at)
    PROVE  /\ mod' \in [Moderations -> Moderation] /\ Moderated'
           /\ object' \in [Uploads -> {"none", "matching", "other"}]
<1>1. /\ mod[m].upload \in Uploads /\ object \in [Uploads -> {"none", "matching", "other"}]
  BY DEF SightIndInv, SightTypeOK, Moderated
<1> DEFINE r == [at |-> at, upload |-> mod[m].upload,
                 deleted |-> object[mod[m].upload] # "none"]
<1>2. r \in Moderation /\ r.upload \in Uploads
  BY <1>1 DEF Moderation
<1>3. mod' = [mod EXCEPT ![m] = r] /\ object' = [object EXCEPT ![mod[m].upload] = "none"]
  BY DEF DeleteObject
<1> HIDE DEF r
<1> QED
  BY <1>1, <1>2, <1>3, ModMoves

-----------------------------------------------------------------------------
(* Sight: the steps. *)

\* Neither a feed nor a session nor a memory is written.
LEMMA SightUntouched ==
    ASSUME SightIndInv, UNCHANGED <<feed, upload, photoMemories>>,
           mod' \in [Moderations -> Moderation], Moderated',
           object' \in [Uploads -> {"none", "matching", "other"}],
           cleaner' \in [Cleaners -> Uploads \cup {NoUpload}]
    PROVE  SightIndInv'
<1>1. SightTypeOK'
  BY DEF SightIndInv, SightTypeOK
<1>2. ActiveUploads' = ActiveUploads /\ ConsumedUploads' = ConsumedUploads
  BY DEF ActiveUploads, ConsumedUploads
<1> QED
  BY <1>1, <1>2, SightQuiet

LEMMA ClientInv ==
    ASSUME SightIndInv,
           \/ CreateFeed
           \/ \E u \in Uploads, bytes \in {"matching", "other"} : Put(u, bytes)
    PROVE  SightIndInv'
<1>1. SightTypeOK /\ Moderated
  BY DEF SightIndInv
<1>2. CASE CreateFeed
  <2>1. /\ feed = "none" /\ feed' = "pending"
        /\ UNCHANGED <<upload, object, mod, cleaner, photoMemories>>
    BY <1>2 DEF CreateFeed
  <2>2. SightTypeOK' /\ Moderated'
    BY <1>1, <2>1 DEF SightTypeOK, Moderated
  <2>3. ActiveUploads' = ActiveUploads /\ ConsumedUploads' = ConsumedUploads
    BY <2>1 DEF ActiveUploads, ConsumedUploads
  <2> QED
    BY <2>1, <2>2, <2>3, SightQuiet
<1>3. ASSUME NEW u \in Uploads, NEW bytes \in {"matching", "other"}, Put(u, bytes)
      PROVE  SightIndInv'
  <2>1. /\ object' = [object EXCEPT ![u] = bytes]
        /\ UNCHANGED <<feed, upload, mod, cleaner, photoMemories>>
    BY <1>3 DEF Put
  <2>2. Moderated' /\ object' \in [Uploads -> {"none", "matching", "other"}]
    BY <1>1, <2>1 DEF SightTypeOK, Moderated
  <2> QED
    BY <1>1, <2>1, <2>2, SightUntouched DEF SightTypeOK
<1> QED
  BY <1>2, <1>3

\* A new session supersedes the issued one, and is refused beside a verifying one.
LEMMA IssueInv == ASSUME SightIndInv, NEW u \in Uploads, Issue(u) PROVE SightIndInv'
<1>1. /\ MayIssue /\ upload[u].status = "none"
      /\ upload' = [v \in Uploads |->
                       IF v = u THEN [status |-> "issued", left |-> TTL, marked |-> FALSE]
                       ELSE IF upload[v].status = "issued"
                       THEN [upload[v] EXCEPT !.status = "expired"]
                       ELSE upload[v]]
      /\ UNCHANGED <<feed, object, mod, cleaner, photoMemories>>
  BY DEF Issue
<1>2. SightTypeOK /\ Moderated
  BY DEF SightIndInv
<1>3. \A v \in Uploads : upload[v] \in Upload
  BY <1>2 DEF SightTypeOK
<1>4. /\ [status |-> "issued", left |-> TTL, marked |-> FALSE] \in Upload
      /\ \A v \in Uploads : [upload[v] EXCEPT !.status = "expired"] \in Upload
  BY <1>3, SightAssumption DEF Upload, Active, Terminal
<1>5. SightTypeOK' /\ Moderated'
  BY <1>1, <1>2, <1>3, <1>4 DEF SightTypeOK, Moderated
<1>6. ActiveUploads' = {u}
  BY <1>1, <1>3 DEF ActiveUploads, Active, MayIssue, Upload
<1>7. ConsumedUploads' = ConsumedUploads
  BY <1>1, <1>3 DEF ConsumedUploads, Upload
<1> QED
  BY <1>1, <1>5, <1>6, <1>7 DEF SightIndInv

\* mark_verifying moves a session among the active ones.
LEMMA VerifyingMoves ==
    ASSUME SightTypeOK, NEW u \in Uploads, upload' = Verifying(u)
    PROVE  /\ upload' \in [Uploads -> Upload]
           /\ ActiveUploads' = ActiveUploads /\ ConsumedUploads' = ConsumedUploads
<1>1. \A v \in Uploads : upload[v] \in Upload
  BY DEF SightTypeOK
<1>2. upload' = [upload EXCEPT ![u].status = IF @ \in Active THEN "verifying" ELSE @]
  BY DEF Verifying
<1>3. upload' \in [Uploads -> Upload]
  BY <1>1, <1>2 DEF SightTypeOK, Upload, Active
<1> QED
  BY <1>1, <1>2, <1>3 DEF ActiveUploads, ConsumedUploads, Active, SightTypeOK, Upload

LEMMA BeginInv ==
    ASSUME SightIndInv, NEW m \in Moderations, Begin(m) \/ BeginEnds(m)
    PROVE  SightIndInv'
<1> DEFINE u == mod[m].upload
<1>1. /\ SightTypeOK /\ Moderated /\ mod[m].at = "begin" /\ u \in Uploads
      /\ UNCHANGED <<object, cleaner, photoMemories>>
  BY DEF SightIndInv, Moderated, Begin, BeginEnds
<1> HIDE DEF u
<1>2. CASE Begin(m)
  <2>1. /\ feed' = "processing" /\ Unsettled /\ upload' = Verifying(u) /\ Goto(m, "judge")
    BY <1>2 DEF Begin, MayBegin, u
  <2>2. mod' \in [Moderations -> Moderation] /\ Moderated'
    BY <1>1, <2>1, GotoMoves
  <2>3. SightTypeOK'
    BY <1>1, <2>1, <2>2, VerifyingMoves DEF SightTypeOK
  <2> QED
    BY <1>1, <2>1, <2>2, <2>3, VerifyingMoves, SightQuiet DEF Unsettled
<1>3. CASE BeginEnds(m)
  <2>1. /\ End(m) /\ UNCHANGED feed
        /\ upload' = upload \/ upload' = Verifying(u)
    BY <1>3 DEF BeginEnds, u
  <2>2. mod' \in [Moderations -> Moderation] /\ Moderated'
    BY <1>1, <2>1, EndMoves
  <2>3. CASE upload' = upload
    BY <1>1, <2>1, <2>2, <2>3, SightUntouched DEF SightTypeOK
  <2>4. CASE upload' = Verifying(u)
    <3>1. SightTypeOK'
      BY <1>1, <2>1, <2>2, <2>4, VerifyingMoves DEF SightTypeOK
    <3> QED
      BY <1>1, <2>1, <2>2, <2>4, <3>1, VerifyingMoves, SightQuiet
  <2> QED
    BY <2>1, <2>3, <2>4
<1> QED
  BY <1>2, <1>3

\* The decision: no session was consumed while the feed was unsettled.
LEMMA FinalizeInv ==
    ASSUME SightIndInv, NEW m \in Moderations, Finalize(m) PROVE SightIndInv'
<1> DEFINE u == mod[m].upload
           status == IF Accepts(m) THEN "consumed" ELSE "rejected"
<1>1. /\ SightTypeOK /\ Moderated /\ u \in Uploads /\ End(m)
      /\ UNCHANGED <<object, cleaner>>
  BY DEF SightIndInv, Moderated, Finalize
<1>2. mod' \in [Moderations -> Moderation] /\ Moderated'
  BY <1>1, EndMoves
<1>3. CASE ~Unsettled
  <2>1. UNCHANGED <<feed, upload, photoMemories>>
    BY <1>3 DEF Finalize
  <2> QED
    BY <1>1, <1>2, <2>1, SightUntouched DEF SightTypeOK
<1>4. CASE Unsettled
  <2>1. /\ feed' = IF Accepts(m) THEN "accepted" ELSE "rejected"
        /\ upload' = Closed(u, status, mod[m].deleted)
        /\ photoMemories' = IF Accepts(m) THEN photoMemories + 1 ELSE photoMemories
    BY <1>4 DEF Finalize
  <2>2. /\ feed # "accepted" /\ ConsumedUploads = {} /\ photoMemories = 0
        /\ \A v, w \in ActiveUploads : v = w
    BY <1>4 DEF SightIndInv, Unsettled
  <2>3. mod[m].deleted \in BOOLEAN /\ \A v \in Uploads : upload[v] \in Upload
    BY <1>1 DEF SightTypeOK, Moderation
  <2>4. status \in Terminal /\ (status = "consumed" <=> Accepts(m))
    BY DEF Terminal
  <2> HIDE DEF u, status
  <2>5. /\ upload' \in [Uploads -> Upload] /\ upload'[u].status = status
        /\ \A v \in Uploads : v # u => upload'[v] = upload[v]
    BY <1>1, <2>1, <2>3, <2>4 DEF Closed, SightTypeOK, Upload
  <2>6. SightTypeOK'
    BY <1>1, <1>2, <2>1, <2>2, <2>5 DEF SightTypeOK, Decided
  <2>7. ActiveUploads' \subseteq ActiveUploads
    BY <2>4, <2>5 DEF ActiveUploads, Active, Terminal
  <2>8. ConsumedUploads' = IF Accepts(m) THEN {u} ELSE {}
    BY <1>1, <2>2, <2>4, <2>5 DEF ConsumedUploads
  <2>9. /\ \A v, w \in ActiveUploads' : v = w
        /\ \A v, w \in ConsumedUploads' : v = w
    BY <2>2, <2>7, <2>8
  <2>10. /\ photoMemories' = IF feed' = "accepted" THEN 1 ELSE 0
         /\ feed' = "accepted" <=> ConsumedUploads' # {}
    BY <2>1, <2>2, <2>8
  <2> QED
    BY <1>2, <2>6, <2>9, <2>10 DEF SightIndInv
<1> QED
  BY <1>3, <1>4

LEMMA ModerationInv ==
    ASSUME SightIndInv,
           \/ \E m \in Moderations, u \in Uploads : Moderate(m, u)
           \/ \E m \in Moderations : Step(m)
    PROVE  SightIndInv'
<1>1. SightTypeOK /\ Moderated
  BY DEF SightIndInv
<1>2. ASSUME NEW m \in Moderations, NEW u \in Uploads, Moderate(m, u) PROVE SightIndInv'
  <2> DEFINE r == [at |-> "get", upload |-> u, deleted |-> FALSE]
  <2>1. r \in Moderation /\ r.upload \in Uploads
    BY DEF Moderation
  <2>2. /\ mod' = [mod EXCEPT ![m] = r]
        /\ UNCHANGED <<feed, upload, object, cleaner, photoMemories>>
    BY <1>2 DEF Moderate
  <2> HIDE DEF r
  <2>3. mod' \in [Moderations -> Moderation] /\ Moderated'
    BY <2>1, <2>2, ModMoves
  <2> QED
    BY <1>1, <2>2, <2>3, SightUntouched DEF SightTypeOK
<1>3. ASSUME NEW m \in Moderations, NotReady(m) \/ Abandon(m) PROVE SightIndInv'
  <2>1. End(m) /\ UNCHANGED <<feed, upload, object, cleaner, photoMemories>>
    BY <1>3 DEF NotReady, Abandon
  <2> QED
    BY <1>1, <2>1, EndMoves, SightUntouched DEF SightTypeOK
<1>4. ASSUME NEW m \in Moderations, Get(m) \/ Judge(m) PROVE SightIndInv'
  <2>1. mod[m].at # "idle" /\ UNCHANGED <<feed, upload, cleaner, photoMemories>>
    BY <1>4 DEF Get, Judge
  <2>2. \/ \E at \in {"accept", "reject"} : DeleteObject(m, at)
        \/ Goto(m, "begin") /\ UNCHANGED object
    BY <1>4 DEF Get, Judge
  <2>3. /\ mod' \in [Moderations -> Moderation] /\ Moderated'
        /\ object' \in [Uploads -> {"none", "matching", "other"}]
    BY <1>1, <2>1, <2>2, DeleteObjectMoves, GotoMoves DEF SightTypeOK
  <2> QED
    BY <1>1, <2>1, <2>3, SightUntouched DEF SightTypeOK
<1> QED
  BY <1>2, <1>3, <1>4, BeginInv, FinalizeInv DEF Step

LEMMA CleanupInv ==
    ASSUME SightIndInv,
           \/ \E c \in Cleaners, u \in Uploads : CleanLoad(c, u)
           \/ \E c \in Cleaners : CleanMark(c) \/ CleanCrash(c)
    PROVE  SightIndInv'
<1>1. SightTypeOK /\ Moderated
  BY DEF SightIndInv
<1>2. ASSUME NEW c \in Cleaners, NEW u \in Uploads, CleanLoad(c, u) PROVE SightIndInv'
  <2>1. /\ cleaner' = [cleaner EXCEPT ![c] = u] /\ object' = [object EXCEPT ![u] = "none"]
        /\ UNCHANGED <<feed, upload, mod, photoMemories>>
    BY <1>2 DEF CleanLoad
  <2>2. /\ cleaner' \in [Cleaners -> Uploads \cup {NoUpload}] /\ Moderated'
        /\ object' \in [Uploads -> {"none", "matching", "other"}]
    BY <1>1, <2>1 DEF SightTypeOK, Moderated
  <2> QED
    BY <1>1, <2>1, <2>2, SightUntouched DEF SightTypeOK
<1>3. ASSUME NEW c \in Cleaners, CleanCrash(c) PROVE SightIndInv'
  <2>1. /\ cleaner' = [cleaner EXCEPT ![c] = NoUpload]
        /\ UNCHANGED <<feed, upload, object, mod, photoMemories>>
    BY <1>3 DEF CleanCrash
  <2>2. cleaner' \in [Cleaners -> Uploads \cup {NoUpload}] /\ Moderated'
    BY <1>1, <2>1 DEF SightTypeOK, Moderated
  <2> QED
    BY <1>1, <2>1, <2>2, SightUntouched DEF SightTypeOK
<1>4. ASSUME NEW c \in Cleaners, CleanMark(c) PROVE SightIndInv'
  <2> DEFINE u == cleaner[c]
             status == IF upload[u].status \in Active THEN "expired" ELSE upload[u].status
  <2>1. /\ u \in Uploads /\ cleaner' = [cleaner EXCEPT ![c] = NoUpload]
        /\ UNCHANGED <<feed, object, mod, photoMemories>>
    BY <1>1, <1>4 DEF CleanMark, SightTypeOK
  <2>2. upload' = [upload EXCEPT ![u].marked = TRUE,
                                 ![u].status = IF @ \in Active THEN "expired" ELSE @]
    BY <1>4 DEF CleanMark
  <2> HIDE DEF u
  <2>3. \A v \in Uploads : upload[v] \in Upload
    BY <1>1 DEF SightTypeOK
  <2>4. /\ upload' \in [Uploads -> Upload]
        /\ upload'[u].status = status
        /\ \A v \in Uploads : v # u => upload'[v] = upload[v]
    BY <1>1, <2>1, <2>2, <2>3 DEF SightTypeOK, Upload, Active, Terminal
  <2>5. SightTypeOK' /\ Moderated'
    BY <1>1, <2>1, <2>4 DEF SightTypeOK, Moderated
  <2>6. ActiveUploads' \subseteq ActiveUploads
    BY <2>1, <2>4 DEF ActiveUploads, Active
  <2>7. ConsumedUploads' = ConsumedUploads
    BY <2>1, <2>4 DEF ConsumedUploads, Active
  <2> QED
    BY <2>1, <2>5, <2>6, <2>7, SightQuiet
<1> QED
  BY <1>2, <1>3, <1>4

LEMMA MinuteInv == ASSUME SightIndInv, Minute PROVE SightIndInv'
<1>1. /\ SightTypeOK /\ Moderated
      /\ upload' = [u \in Uploads |->
                       [upload[u] EXCEPT !.left = IF @ > 0 THEN @ - 1 ELSE 0]]
      /\ UNCHANGED <<feed, object, mod, cleaner, photoMemories>>
  BY DEF SightIndInv, Minute
<1>2. \A u \in Uploads : upload[u] \in Upload
  BY <1>1 DEF SightTypeOK
<1>3. \A n \in 0 .. TTL : (IF n > 0 THEN n - 1 ELSE 0) \in 0 .. TTL
  BY SightAssumption
<1>4. \A u \in Uploads : upload'[u] \in Upload /\ upload'[u].status = upload[u].status
  BY <1>1, <1>2, <1>3 DEF Upload
<1>5. SightTypeOK' /\ Moderated'
  BY <1>1, <1>4 DEF SightTypeOK, Moderated
<1>6. ActiveUploads' = ActiveUploads /\ ConsumedUploads' = ConsumedUploads
  BY <1>4 DEF ActiveUploads, ConsumedUploads
<1> QED
  BY <1>1, <1>5, <1>6, SightQuiet

LEMMA SightNextInv == ASSUME SightIndInv, [SightNext]_sightVars PROVE SightIndInv'
<1>1. CASE UNCHANGED sightVars
  BY <1>1, SightUntouched
  DEF sightVars, SightIndInv, SightTypeOK, Moderated
<1>2. CASE SightNext
  BY <1>2, ClientInv, IssueInv, ModerationInv, CleanupInv, MinuteInv DEF SightNext
<1> QED
  BY <1>1, <1>2

LEMMA SightInitInv == SightInit => SightIndInv
<1> SUFFICES ASSUME SightInit PROVE SightIndInv
  OBVIOUS
<1>1. SightTypeOK /\ Moderated
  BY SightAssumption, NotModeratingTyped
  DEF SightInit, SightTypeOK, Upload, Moderated
<1>2. ActiveUploads = {} /\ ConsumedUploads = {} /\ feed = "none" /\ photoMemories = 0
  BY DEF SightInit, ActiveUploads, ConsumedUploads, Active
<1> QED
  BY <1>1, <1>2 DEF SightIndInv

-----------------------------------------------------------------------------
(* Sight: the theorems. *)

\* However many moderations of however many sessions, late puts and cleanups
\* interleave with one photo: at most one session is active, and the photo is
\* accepted exactly when one session, and one only, is consumed and one memory
\* written (services/sight_moderate.py:317-416).
THEOREM AcceptedByOneSession == SightSpec => []SightInv
<1>1. SightIndInv => SightInv
  BY DEF SightIndInv, SightInv, OneSession, AcceptedOnce, ActiveUploads, ConsumedUploads
<1> QED
  BY <1>1, SightInitInv, SightNextInv, PTL DEF SightSpec

\* A feed that is accepted or rejected stays so: whoever writes it, the client's
\* creation, the begin and the decision of a moderation, asks in the same
\* transaction whether it is still unsettled.
THEOREM DecisionIsFinal == SightSpec => DecisionStays
<1>1. [SightNext]_sightVars => [(feed \in Decided => feed' = feed)]_sightVars
  <2> SUFFICES ASSUME SightNext, feed \in Decided PROVE feed' = feed
    OBVIOUS
  <2>1. feed # "none" /\ ~Unsettled
    BY DEF Decided, Unsettled
  <2>2. ASSUME NEW m \in Moderations, Step(m) PROVE feed' = feed
    BY <2>1, <2>2
    DEF Step, NotReady, Get, Begin, MayBegin, BeginEnds, Judge, Finalize, Abandon
  <2> QED
    BY <2>1, <2>2
    DEF SightNext, CreateFeed, Issue, Put, Moderate, CleanLoad, CleanMark, CleanCrash, Minute
<1> QED
  BY <1>1, PTL DEF SightSpec, DecisionStays
=============================================================================
