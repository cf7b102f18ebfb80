---------------------------- MODULE VisitsProofs -----------------------------
(***************************************************************************)
(* Theorems about Visits for every set of visits and passes and every      *)
(* lease, backoff, attempt limit, batch, plan and tick length.             *)
(*                                                                         *)
(* PassInv of OutboxProofs does not hold here, as a settlement takes a job *)
(* away from the pass that claimed it; nothing below rests on it.          *)
(***************************************************************************)
EXTENDS Visits, OutboxProofs

-----------------------------------------------------------------------------
(* The inductive invariant. *)

\* OneOutcome of a visit, and that a visit with a job has been planned: a job
\* that is open therefore has a visit that is under way.
Outcome(j) ==
    /\ visit[j] = "none" => outbox[j].status = "absent"
    /\ visit[j] = "settled" <=> outbox[j].status = "done"
    /\ visit[j] = "settled" <=> j \in settled
    /\ visit[j] = "failed" => outbox[j].status = "dead"

VisitInv ==
    /\ VisitTypeOK
    /\ RowInv
    /\ \A j \in Jobs : Outcome(j)

-----------------------------------------------------------------------------
(* What claiming and reclaiming do to the rows, and ending to the visits. *)

OpenStatuses == {"pending", "claimed", "retry"}

\* The job of j is as before, or open and perhaps given up.
Moved(j) ==
    \/ outbox'[j].status = outbox[j].status
    \/ /\ outbox[j].status \in OpenStatuses
       /\ outbox'[j].status \in OpenStatuses \cup {"dead"}

RowsMoved ==
    /\ outbox' \in [Jobs -> Row]
    /\ RowInv'
    /\ \A j \in Jobs : Moved(j)

LEMMA ReclaimMoves ==
    ASSUME TypeOK, RowInv, NEW now \in -MaxTickAge .. 0,
           outbox' = Reclaimed(outbox, now)
    PROVE  RowsMoved
<1>1. /\ outbox' \in [Jobs -> Row]
      /\ \A j \in Jobs : RowOK(j, outbox'[j])
      /\ \A j \in Jobs : \/ outbox'[j] = outbox[j]
                        \/ /\ Expired(outbox[j], now)
                           /\ outbox'[j] = Requeued(outbox[j], now)
  BY ReclaimedRows DEF TypeOK, RowInv
<1>2. ASSUME NEW j \in Jobs, Expired(outbox[j], now),
             outbox'[j] = Requeued(outbox[j], now)
      PROVE  Moved(j)
  <2>1. /\ outbox[j] \in Row /\ outbox[j].attempts > 0
        /\ outbox[j].status = "claimed"
    BY <1>2 DEF TypeOK, RowInv, RowOK, Expired
  <2> QED
    BY <1>2, <2>1, RequeuedRow DEF Moved, OpenStatuses
<1> QED
  BY <1>1, <1>2 DEF RowsMoved, RowInv, Moved

LEMMA ClaimMoves ==
    ASSUME TypeOK, RowInv, NEW t \in Ticks, NEW age \in 0 .. MaxTickAge,
           ClaimBatch(t, age, TRUE)
    PROVE  TypeOK' /\ RowsMoved
<1> DEFINE now == -age
           rows == Reclaimed(outbox, now)
<1>1. now \in -MaxTickAge .. 0
  BY OutboxAssumption
<1>2. /\ rows \in [Jobs -> Row]
      /\ \A j \in Jobs : RowOK(j, rows[j])
      /\ \A j \in Jobs : \/ rows[j] = outbox[j]
                        \/ /\ Expired(outbox[j], now)
                           /\ rows[j] = Requeued(outbox[j], now)
  BY <1>1, ReclaimedRows DEF TypeOK, RowInv
<1>3. PICK S \in Oldest(rows, Due(rows, now) \ Leaseless) :
          /\ outbox' = [j \in Jobs |-> IF j \in S THEN Claimed(rows[j], t, now) ELSE rows[j]]
          /\ tick' = Opened(t, age, S)
  BY DEF ClaimBatch
<1>4. S \subseteq Due(rows, now) \ Leaseless
  BY DEF Oldest
<1>5. \A j \in S : /\ j \in Jobs /\ j \notin Leaseless
                  /\ rows[j].status \in {"pending", "retry"}
  BY <1>4 DEF Due
<1>6. ASSUME NEW j \in S
      PROVE  /\ outbox'[j] \in Row /\ RowOK(j, outbox'[j])
             /\ outbox'[j].status = "claimed"
  <2>1. rows[j] \in Row /\ rows[j].attempts < MaxAttempts /\ rows[j].attempts \in Nat
    BY <1>2, <1>5, OutboxAssumption DEF RowOK, Row
  <2>2. outbox'[j] = Claimed(rows[j], t, now)
    BY <1>3, <1>5
  <2>3. t # NoTick
    BY OutboxAssumption
  <2> HIDE DEF rows, now
  <2> QED
    BY <1>1, <1>5, <2>1, <2>2, <2>3, ClaimedRow DEF RowOK
<1>7. \A j \in Jobs \ S : outbox'[j] = rows[j]
  BY <1>3
<1>8. ASSUME NEW j \in Jobs
      PROVE  \/ rows[j].status = outbox[j].status
             \/ outbox[j].status = "claimed" /\ rows[j].status \in {"retry", "dead"}
  <2>1. CASE Expired(outbox[j], now) /\ rows[j] = Requeued(outbox[j], now)
    <3>1. /\ outbox[j] \in Row /\ outbox[j].attempts > 0
          /\ outbox[j].status = "claimed"
      BY <2>1 DEF TypeOK, RowInv, RowOK, Expired
    <3>2. Requeued(outbox[j], now).status \in {"dead", "retry"}
      BY <1>1, <3>1, RequeuedRow
    <3> QED
      BY <2>1, <3>1, <3>2
  <2> QED
    BY <1>2, <2>1
<1>9. TypeOK'
  <2>1. outbox' \in [Jobs -> Row]
    BY <1>2, <1>3, <1>6, <1>7
  <2>2. tick' \in [Ticks -> Pass]
    BY <1>3, <1>5 DEF TypeOK, Opened, Pass
  <2> QED
    BY <2>1, <2>2 DEF TypeOK, ClaimBatch
<1>10. RowInv'
  BY <1>2, <1>6, <1>7 DEF RowInv
<1>11. ASSUME NEW j \in Jobs PROVE Moved(j)
  <2> HIDE DEF rows
  <2>1. CASE j \in S
    BY <1>5, <1>6, <1>8, <2>1 DEF Moved, OpenStatuses
  <2>2. CASE j \notin S
    BY <1>7, <1>8, <2>2 DEF Moved, OpenStatuses
  <2> QED
    BY <2>1, <2>2
<1> QED
  BY <1>9, <1>10, <1>11 DEF RowsMoved, TypeOK

LEMMA OverVisits ==
    ASSUME VisitTypeOK, NEW S \in SUBSET Jobs, NEW outcome \in {"settled", "failed"},
           Over(S, outcome)
    PROVE  /\ visit' \in [Jobs -> {"none", "eligible", "settled", "failed"}]
           /\ \A j \in Jobs : visit'[j] = IF j \in S THEN outcome ELSE visit[j]
           /\ visited' \in BOOLEAN
           /\ away' \in BOOLEAN
<1>1. visit' = [j \in Jobs |-> IF j \in S THEN outcome ELSE visit[j]]
  BY DEF Over
<1>2. visit \in [Jobs -> {"none", "eligible", "settled", "failed"}]
  BY DEF VisitTypeOK
<1>3. visited' \in BOOLEAN /\ away' \in BOOLEAN
  BY Zenon DEF Over
<1> QED
  BY <1>1, <1>2, <1>3

\* Giving up the visits of dead jobs, after the rows have moved.
LEMMA AbandonedOutcome ==
    ASSUME VisitInv, RowsMoved, Over(Abandoned, "failed"), settled' = settled
    PROVE  /\ visit' \in [Jobs -> {"none", "eligible", "settled", "failed"}]
           /\ visited' \in BOOLEAN
           /\ away' \in BOOLEAN
           /\ \A j \in Jobs : Outcome(j)'
<1>1. Abandoned \in SUBSET Jobs
  BY DEF Abandoned
<1>2. /\ visit' \in [Jobs -> {"none", "eligible", "settled", "failed"}]
      /\ \A j \in Jobs : visit'[j] = IF j \in Abandoned THEN "failed" ELSE visit[j]
      /\ visited' \in BOOLEAN
      /\ away' \in BOOLEAN
  BY <1>1, OverVisits DEF VisitInv
<1>3. ASSUME NEW j \in Jobs PROVE Outcome(j)'
  <2>1. Outcome(j) /\ Moved(j)
    BY DEF VisitInv, RowsMoved
  <2>2. j \in Abandoned <=> outbox'[j].status = "dead" /\ visit[j] = "eligible"
    BY DEF Abandoned
  <2> QED
    BY <1>2, <2>1, <2>2 DEF Outcome, Moved, OpenStatuses
<1> QED
  BY <1>2, <1>3

LEMMA RestTyped ==
    ASSUME TypeOK, NEW t \in Ticks, NEW j \in Jobs, Rest(t, j)
    PROVE  tick' \in [Ticks -> Pass]
<1>1. tick[t] \in Pass /\ Idle \in Pass
  BY OutboxAssumption DEF TypeOK, Pass, Idle
<1>2. [tick[t] EXCEPT !.batch = tick[t].batch \ {j}] \in Pass
  BY <1>1 DEF Pass
<1> QED
  BY <1>1, <1>2 DEF TypeOK, Rest

-----------------------------------------------------------------------------
(* Every action preserves the invariant. *)

LEMMA VisitInitInv == VisitInit => VisitInv
<1> SUFFICES ASSUME VisitInit PROVE VisitInv
  OBVIOUS
<1>1. TypeOK /\ RowInv
  BY InitInv DEF VisitInit, Inv
<1>2. ASSUME NEW j \in Jobs PROVE Outcome(j)
  BY DEF VisitInit, Init, NoRow, Outcome
<1> QED
  BY <1>1, <1>2, VisitsAssumption DEF VisitInv, VisitTypeOK, VisitInit

LEMMA PlanInv == ASSUME VisitInv, NEW S \in SUBSET Jobs, Plan(S) PROVE VisitInv'
<1>1. /\ \A j \in S : visit[j] = "none"
      /\ visit' = [j \in Jobs |-> IF j \in S THEN "eligible" ELSE visit[j]]
      /\ UNCHANGED <<outbox, tick, more, settled, away, visited, failing>>
  BY DEF Plan, vars
<1>2. VisitTypeOK'
  BY <1>1 DEF VisitInv, VisitTypeOK, TypeOK
<1>3. RowInv'
  BY <1>1 DEF VisitInv, RowInv
<1>4. ASSUME NEW j \in Jobs PROVE Outcome(j)'
  BY <1>1 DEF VisitInv, Outcome
<1> QED
  BY <1>2, <1>3, <1>4 DEF VisitInv

LEMMA StrollInv == ASSUME VisitInv, Stroll PROVE VisitInv'
<1>1. UNCHANGED <<outbox, tick, more, visit, settled, visited, failing>>
  BY DEF Stroll, vars
<1>2. away' \in BOOLEAN
  BY Zenon DEF Stroll
<1> QED
  BY <1>1, <1>2 DEF VisitInv, VisitTypeOK, TypeOK, RowInv, Outcome

LEMMA EnqueueVisitInv ==
    ASSUME VisitInv, NEW j \in Jobs, EnqueueVisit(j) PROVE VisitInv'
<1> DEFINE row == [NoRow EXCEPT !.status = "pending"]
<1>1. row \in Row /\ RowOK(j, row) /\ row.status = "pending"
  BY OutboxAssumption DEF NoRow, Row, Times, Statuses, RowOK
<1>2. /\ outbox[j].status = "absent" /\ visit[j] = "eligible"
      /\ outbox' = [outbox EXCEPT ![j] = row]
      /\ UNCHANGED <<tick, more, visit, settled, away, visited, failing>>
  BY DEF EnqueueVisit, Enqueue
<1>3. VisitTypeOK'
  BY <1>1, <1>2 DEF VisitInv, VisitTypeOK, TypeOK
<1>4. RowInv'
  BY <1>1, <1>2 DEF VisitInv, VisitTypeOK, TypeOK, RowInv
<1>5. ASSUME NEW i \in Jobs PROVE Outcome(i)'
  <2>1. Outcome(i) /\ outbox'[i] = IF i = j THEN row ELSE outbox[i]
    BY <1>2 DEF VisitInv, VisitTypeOK, TypeOK
  <2> HIDE DEF row
  <2> QED
    BY <1>1, <1>2, <2>1 DEF Outcome
<1> QED
  BY <1>3, <1>4, <1>5 DEF VisitInv

\* The scheduler's reclaim leaves the visits alone: one whose job it gives up
\* stays under way.
LEMMA ReclaimVisitsInv == ASSUME VisitInv, ReclaimVisits PROVE VisitInv'
<1>1. /\ outbox' = Reclaimed(outbox, 0)
      /\ UNCHANGED <<tick, more, visit, settled, away, visited, failing>>
  BY DEF ReclaimVisits, SchedulerReclaim
<1>2. 0 \in -MaxTickAge .. 0
  BY OutboxAssumption
<1>3. RowsMoved
  BY <1>1, <1>2, ReclaimMoves DEF VisitInv, VisitTypeOK
<1>4. VisitTypeOK' /\ RowInv'
  BY <1>1, <1>3 DEF RowsMoved, VisitInv, VisitTypeOK, TypeOK
<1>5. ASSUME NEW j \in Jobs PROVE Outcome(j)'
  <2>1. Outcome(j) /\ Moved(j)
    BY <1>3 DEF VisitInv, RowsMoved
  <2> QED
    BY <1>1, <2>1 DEF Outcome, Moved, OpenStatuses
<1> QED
  BY <1>4, <1>5 DEF VisitInv

LEMMA ClaimVisitsInv ==
    ASSUME VisitInv, NEW t \in Ticks, NEW age \in 0 .. MaxTickAge,
           ClaimVisits(t, age)
    PROVE  VisitInv'
<1>1. /\ ClaimBatch(t, age, TRUE)
      /\ Over(Abandoned, "failed")
      /\ settled' = settled /\ failing' = failing
  BY DEF ClaimVisits
<1>2. TypeOK' /\ RowsMoved
  BY <1>1, ClaimMoves DEF VisitInv, VisitTypeOK
<1>3. /\ visit' \in [Jobs -> {"none", "eligible", "settled", "failed"}]
      /\ visited' \in BOOLEAN
      /\ away' \in BOOLEAN
      /\ \A j \in Jobs : Outcome(j)'
  BY <1>1, <1>2, AbandonedOutcome
<1> QED
  BY <1>1, <1>2, <1>3 DEF VisitInv, VisitTypeOK, RowsMoved

LEMMA ClaimNothingInv ==
    ASSUME VisitInv, NEW age \in 0 .. MaxTickAge, ClaimNothing(age) PROVE VisitInv'
<1>1. /\ outbox' = Reclaimed(outbox, -age)
      /\ Over(Abandoned, "failed")
      /\ UNCHANGED <<tick, more, settled, failing>>
  BY DEF ClaimNothing
<1>2. -age \in -MaxTickAge .. 0
  BY OutboxAssumption
<1>3. RowsMoved
  BY <1>1, <1>2, ReclaimMoves DEF VisitInv, VisitTypeOK
<1>4. /\ visit' \in [Jobs -> {"none", "eligible", "settled", "failed"}]
      /\ visited' \in BOOLEAN
      /\ away' \in BOOLEAN
      /\ \A j \in Jobs : Outcome(j)'
  BY <1>1, <1>3, AbandonedOutcome
<1> QED
  BY <1>1, <1>3, <1>4 DEF VisitInv, VisitTypeOK, TypeOK, RowsMoved

\* A job that is claimed has a visit under way.
LEMMA ClaimedVisit ==
    ASSUME VisitInv, NEW j \in Jobs, outbox[j].status = "claimed"
    PROVE  /\ visit[j] = "eligible"
           /\ outbox[j] \in Row
           /\ outbox[j].attempts > 0
<1>1. outbox[j] \in Row /\ RowOK(j, outbox[j]) /\ Outcome(j)
  BY DEF VisitInv, VisitTypeOK, TypeOK, RowInv
<1>2. visit[j] \in {"none", "eligible", "settled", "failed"} /\ j \notin Leaseless
  BY VisitsAssumption DEF VisitInv, VisitTypeOK
<1> QED
  BY <1>1, <1>2 DEF Outcome, RowOK

LEMMA SettleVisitInv ==
    ASSUME VisitInv, NEW t \in Ticks, NEW j \in Jobs, SettleVisit(t, j)
    PROVE  VisitInv'
<1> DEFINE row == [Unlocked(outbox[j]) EXCEPT !.status = "done"]
<1>1. /\ tick[t].open /\ outbox[j].status = "claimed"
      /\ outbox' = [outbox EXCEPT ![j] = row]
      /\ settled' = settled \cup {j}
      /\ Rest(t, j)
      /\ more' = more /\ failing' = failing
  BY DEF SettleVisit, Current, MaySettle
<1>2. /\ visit[j] = "eligible" /\ outbox[j] \in Row
  BY <1>1, ClaimedVisit
<1>3. row \in Row /\ RowOK(j, row) /\ row.status = "done"
  BY <1>2, UnlockedRow DEF Row, RowOK, Statuses
<1>4. Over({j}, "settled")
  <2>1. {j} \cap {i \in Jobs : visit[i] = "eligible"} = {j}
    BY <1>2
  <2> QED
    BY <2>1 DEF SettleVisit
<1>5. /\ visit' \in [Jobs -> {"none", "eligible", "settled", "failed"}]
      /\ \A i \in Jobs : visit'[i] = IF i = j THEN "settled" ELSE visit[i]
      /\ visited' \in BOOLEAN
      /\ away' \in BOOLEAN
  BY <1>4, OverVisits DEF VisitInv
<1>6. tick' \in [Ticks -> Pass]
  BY <1>1, RestTyped DEF VisitInv, VisitTypeOK
<1> HIDE DEF row
<1>7. \A i \in Jobs : outbox'[i] = IF i = j THEN row ELSE outbox[i]
  BY <1>1 DEF VisitInv, VisitTypeOK, TypeOK
<1>8. VisitTypeOK'
  BY <1>1, <1>3, <1>5, <1>6 DEF VisitInv, VisitTypeOK, TypeOK
<1>9. RowInv'
  BY <1>3, <1>7 DEF VisitInv, RowInv
<1>10. ASSUME NEW i \in Jobs PROVE Outcome(i)'
  <2>1. Outcome(i)
    BY DEF VisitInv
  <2> QED
    BY <1>1, <1>3, <1>5, <1>7, <2>1 DEF Outcome
<1> QED
  BY <1>8, <1>9, <1>10 DEF VisitInv

LEMMA SettleRaisesInv ==
    ASSUME VisitInv, NEW t \in Ticks, NEW j \in Jobs, SettleRaises(t, j)
    PROVE  VisitInv'
<1>1. /\ failing' = [failing EXCEPT ![t] = j]
      /\ UNCHANGED <<outbox, tick, more, visit, settled, away, visited>>
  BY DEF SettleRaises, vars
<1>2. VisitTypeOK'
  BY <1>1 DEF VisitInv, VisitTypeOK, TypeOK
<1> QED
  BY <1>1, <1>2 DEF VisitInv, RowInv, Outcome

LEMMA RetryVisitInv ==
    ASSUME VisitInv, NEW t \in Ticks, RetryVisit(t) PROVE VisitInv'
<1> DEFINE j == failing[t]
           row == Requeued(outbox[j], Now(t))
<1>1. /\ j \in Jobs
      /\ Rest(t, j)
      /\ failing' = [failing EXCEPT ![t] = NoJob]
      /\ more' = more /\ settled' = settled
  BY DEF RetryVisit, VisitInv, VisitTypeOK
<1>2. tick' \in [Ticks -> Pass] /\ failing' \in [Ticks -> Jobs \cup {NoJob}]
  BY <1>1, RestTyped DEF VisitInv, VisitTypeOK
<1>3. CASE RetryHolds(t, j)
  <2>1. outbox[j].status = "claimed" /\ outbox[j] \in Row /\ outbox[j].attempts > 0
    BY <1>1, <1>3, ClaimedVisit DEF RetryHolds
  <2>2. Now(t) \in -MaxTickAge .. 0
    BY OutboxAssumption DEF VisitInv, VisitTypeOK, TypeOK, Pass, Now
  <2>3. /\ row \in Row
        /\ RowOK(j, row)
        /\ row.status \in {"dead", "retry"}
    BY <2>1, <2>2, RequeuedRow DEF RowOK
  <2> HIDE DEF row
  <2>4. /\ outbox' = [outbox EXCEPT ![j] = row]
        /\ Over(IF outbox'[j].status = "dead" THEN Abandoned ELSE {}, "failed")
    BY <1>3 DEF RetryVisit, row
  <2>5. \A i \in Jobs : outbox'[i] = IF i = j THEN row ELSE outbox[i]
    BY <1>1, <2>4 DEF VisitInv, VisitTypeOK, TypeOK
  <2>6. RowsMoved
    <3>1. outbox' \in [Jobs -> Row]
      BY <2>3, <2>4 DEF VisitInv, VisitTypeOK, TypeOK
    <3>2. RowInv'
      BY <2>3, <2>5 DEF VisitInv, RowInv
    <3>3. \A i \in Jobs : Moved(i)
      BY <2>1, <2>3, <2>5 DEF Moved, OpenStatuses
    <3> QED
      BY <3>1, <3>2, <3>3 DEF RowsMoved
  <2>7. /\ visit' \in [Jobs -> {"none", "eligible", "settled", "failed"}]
        /\ visited' \in BOOLEAN
        /\ away' \in BOOLEAN
        /\ \A i \in Jobs : Outcome(i)'
    <3>1. CASE outbox'[j].status = "dead"
      BY <1>1, <2>4, <2>6, <3>1, AbandonedOutcome
    <3>2. CASE outbox'[j].status # "dead"
      <4>1. /\ visit' \in [Jobs -> {"none", "eligible", "settled", "failed"}]
            /\ \A i \in Jobs : visit'[i] = visit[i]
            /\ visited' \in BOOLEAN
            /\ away' \in BOOLEAN
        BY <2>4, <3>2, OverVisits DEF VisitInv
      <4>2. ASSUME NEW i \in Jobs PROVE Outcome(i)'
        <5>1. Outcome(i)
          BY DEF VisitInv
        <5>2. outbox'[i].status \in {"dead", "done", "absent"} <=>
              outbox[i].status \in {"dead", "done", "absent"}
          BY <2>1, <2>3, <2>5, <3>2
        <5> QED
          BY <1>1, <2>1, <2>3, <2>5, <4>1, <5>1 DEF Outcome
      <4> QED
        BY <4>1, <4>2
    <3> QED
      BY <3>1, <3>2
  <2> QED
    BY <1>1, <1>2, <2>6, <2>7 DEF VisitInv, VisitTypeOK, TypeOK, RowsMoved
<1>4. CASE ~RetryHolds(t, j)
  <2>1. UNCHANGED <<outbox, visit, visited, away>>
    BY <1>4 DEF RetryVisit
  <2> QED
    BY <1>1, <1>2, <2>1 DEF VisitInv, VisitTypeOK, TypeOK, RowInv, Outcome
<1> QED
  BY <1>3, <1>4

LEMMA VisitCrashInv == ASSUME VisitInv, NEW t \in Ticks, VisitCrash(t) PROVE VisitInv'
<1>1. /\ tick' = [tick EXCEPT ![t] = Idle]
      /\ failing' = [failing EXCEPT ![t] = NoJob]
      /\ UNCHANGED <<outbox, more, visit, settled, away, visited>>
  BY DEF VisitCrash, Crash
<1>2. Idle \in Pass
  BY OutboxAssumption DEF Pass, Idle
<1>3. VisitTypeOK'
  BY <1>1, <1>2 DEF VisitInv, VisitTypeOK, TypeOK
<1> QED
  BY <1>1, <1>3 DEF VisitInv, RowInv, Outcome

LEMMA VisitAdvanceInv == ASSUME VisitInv, VisitAdvance PROVE VisitInv'
<1>1. /\ outbox' = [j \in Jobs |-> Aged(outbox[j])]
      /\ tick' = [t \in Ticks |-> IF tick[t].open THEN [tick[t] EXCEPT !.age = @ + 1]
                                 ELSE tick[t]]
      /\ \A t \in Ticks : tick[t].open => tick[t].age < MaxTickAge
      /\ UNCHANGED <<more, visit, settled, away, visited, failing>>
  BY DEF VisitAdvance, Advance
<1>2. \A j \in Jobs : outbox[j] \in Row /\ outbox'[j] = Aged(outbox[j])
  BY <1>1 DEF VisitInv, VisitTypeOK, TypeOK
<1>3. outbox' \in [Jobs -> Row]
  BY <1>1, <1>2, AgedRow
<1>4. ASSUME NEW t \in Ticks, tick[t].open PROVE [tick[t] EXCEPT !.age = @ + 1] \in Pass
  <2>1. tick[t] \in Pass /\ tick[t].age < MaxTickAge
    BY <1>1, <1>4 DEF VisitInv, VisitTypeOK, TypeOK
  <2>2. tick[t].age + 1 \in 0 .. MaxTickAge
    BY <2>1, OutboxAssumption DEF Pass
  <2> QED
    BY <2>1, <2>2 DEF Pass
<1>5. tick' \in [Ticks -> Pass]
  BY <1>1, <1>4 DEF VisitInv, VisitTypeOK, TypeOK
<1>6. RowInv'
  BY <1>2, AgedRow DEF VisitInv, RowInv, RowOK
<1>7. ASSUME NEW j \in Jobs PROVE Outcome(j)'
  BY <1>1, <1>2, AgedRow DEF VisitInv, Outcome
<1> QED
  BY <1>1, <1>3, <1>5, <1>6, <1>7 DEF VisitInv, VisitTypeOK, TypeOK

LEMMA VisitNextInv == ASSUME VisitInv, [VisitNext]_visitVars PROVE VisitInv'
<1>1. ASSUME NEW t \in Ticks, ClaimSome(t) PROVE VisitInv'
  BY <1>1, ClaimVisitsInv DEF ClaimSome
<1>2. ASSUME NEW t \in Ticks, HandleVisit(t) PROVE VisitInv'
  BY <1>2, SettleVisitInv, SettleRaisesInv, RetryVisitInv DEF HandleVisit
<1>3. CASE UNCHANGED visitVars
  BY <1>3 DEF visitVars, vars, VisitInv, VisitTypeOK, TypeOK, RowInv, Outcome
<1> QED
  BY <1>1, <1>2, <1>3, PlanInv, StrollInv, EnqueueVisitInv, ReclaimVisitsInv,
     ClaimNothingInv, VisitCrashInv, VisitAdvanceInv DEF VisitNext

LEMMA VisitInvariance == VisitSpec => []VisitInv
  BY VisitInitInv, VisitNextInv, PTL DEF VisitSpec

-----------------------------------------------------------------------------
(* What it implies. *)

\* Type correctness of the visits, on top of that of the outbox.
THEOREM VisitTypeCorrect == VisitSpec => []VisitTypeOK
<1>1. VisitInv => VisitTypeOK
  BY DEF VisitInv
<1> QED
  BY <1>1, VisitInvariance, PTL

\* Although any pass, and not only the one that claimed the job, may settle a
\* visit, and three different transactions may give it up, its postcards, its
\* status and its job always agree.
THEOREM VisitOutcome == VisitSpec => []OneOutcome
<1>1. VisitInv => OneOutcome
  BY DEF VisitInv, Outcome, OneOutcome
<1> QED
  BY <1>1, VisitInvariance, PTL

-----------------------------------------------------------------------------
(* The way home. *)

UnderWay == \E j \in Jobs : visit[j] = "eligible"

\* Ending the last visit under way brings the spirit home.
LEMMA OverIsHome ==
    ASSUME VisitInv, NEW S \in SUBSET Jobs, NEW outcome, Over(S, outcome),
           UnderWay, ~UnderWay'
    PROVE  ~away'
<1>1. visit' = [j \in Jobs |-> IF j \in S THEN outcome ELSE visit[j]]
  BY DEF Over
<1>2. S # {}
  <2>1. visit \in [Jobs -> {"none", "eligible", "settled", "failed"}]
    BY DEF VisitInv, VisitTypeOK
  <2>2. S = {} => visit' = visit
    BY <1>1, <2>1
  <2> QED
    BY <2>2 DEF UnderWay
<1>3. ~(\E j \in Jobs : visit'[j] = "eligible")
  BY DEF UnderWay
<1> QED
  BY <1>2, <1>3, Zenon DEF Over

LEMMA StepHome ==
    ASSUME VisitInv, VisitNext, UnderWay, ~UnderWay'
    PROVE  ~away'
<1>1. CASE visit' = visit
  BY <1>1 DEF UnderWay
<1>2. ASSUME NEW S \in SUBSET Jobs, Plan(S) PROVE FALSE
  <2>1. /\ \A j \in S : visit[j] = "none"
        /\ visit' = [j \in Jobs |-> IF j \in S THEN "eligible" ELSE visit[j]]
    BY <1>2 DEF Plan
  <2> QED
    BY <2>1 DEF UnderWay
<1>3. Abandoned \in SUBSET Jobs
  BY DEF Abandoned
<1>4. ASSUME NEW t \in Ticks, ClaimSome(t) PROVE ~away'
  <2>1. Over(Abandoned, "failed")
    BY <1>4 DEF ClaimSome, ClaimVisits
  <2> QED
    BY <1>3, <2>1, OverIsHome
<1>5. ASSUME NEW age \in 0 .. MaxTickAge, ClaimNothing(age) PROVE ~away'
  BY <1>3, <1>5, OverIsHome DEF ClaimNothing
<1>6. ASSUME NEW t \in Ticks, NEW j \in Jobs, SettleVisit(t, j) PROVE ~away'
  <2>1. {j} \cap {i \in Jobs : visit[i] = "eligible"} \in SUBSET Jobs
    OBVIOUS
  <2> QED
    BY <1>6, <2>1, OverIsHome DEF SettleVisit
<1>7. ASSUME NEW t \in Ticks, RetryVisit(t), visit' # visit PROVE ~away'
  <2>1. RetryHolds(t, failing[t])
    BY <1>7 DEF RetryVisit
  <2>2. Over(IF outbox'[failing[t]].status = "dead" THEN Abandoned ELSE {}, "failed")
    BY <1>7, <2>1 DEF RetryVisit
  <2> QED
    BY <1>3, <2>2, OverIsHome
<1>8. \/ visit' = visit
      \/ \E S \in SUBSET Jobs : Plan(S)
      \/ \E t \in Ticks : ClaimSome(t) \/ RetryVisit(t)
      \/ \E t \in Ticks : \E j \in Jobs : SettleVisit(t, j)
      \/ \E age \in 0 .. MaxTickAge : ClaimNothing(age)
  BY DEF VisitNext, Stroll, EnqueueVisit, ReclaimVisits, VisitAdvance, VisitCrash,
         HandleVisit, SettleRaises
<1> QED
  BY <1>1, <1>2, <1>4, <1>5, <1>6, <1>7, <1>8

\* The spirit does not stay away after its last visit under way has ended, in
\* whichever of the four transactions that end visits, one or several at once.
THEOREM VisitsHome == VisitSpec => HomeAfterLast
<1>1. ASSUME VisitInv, [VisitNext]_visitVars
      PROVE  [UnderWay /\ ~UnderWay' => ~away']_visitVars
  BY <1>1, StepHome
<1>2. [UnderWay /\ ~UnderWay' => ~away']_visitVars
        => [(\E j \in Jobs : visit[j] = "eligible")
              /\ ~(\E j \in Jobs : visit'[j] = "eligible") => ~away']_visitVars
  BY DEF UnderWay
<1> QED
  BY <1>1, <1>2, VisitInvariance, PTL DEF VisitSpec, HomeAfterLast

-----------------------------------------------------------------------------
(* The jobs of the visits keep the promise of JobLifecycle. *)

LEMMA SettleVisitSteps ==
    ASSUME VisitInv, NEW t \in Ticks, NEW i \in Jobs, SettleVisit(t, i), NEW j \in Jobs
    PROVE  RowStep(j, outbox[j], outbox'[j])
<1> DEFINE row == [Unlocked(outbox[i]) EXCEPT !.status = "done"]
<1>1. outbox[i].status = "claimed" /\ outbox' = [outbox EXCEPT ![i] = row]
  BY DEF SettleVisit, MaySettle
<1>2. outbox[i] \in Row /\ outbox[i].attempts > 0 /\ outbox \in [Jobs -> Row]
  BY <1>1, ClaimedVisit DEF VisitInv, VisitTypeOK, TypeOK
<1>3. row.status = "done" /\ row.attempts = outbox[i].attempts
  BY <1>2, UnlockedRow DEF Row
<1> HIDE DEF row
<1> QED
  BY <1>1, <1>2, <1>3 DEF RowStep, Open

LEMMA RetryVisitSteps ==
    ASSUME VisitInv, NEW t \in Ticks, RetryVisit(t), NEW j \in Jobs
    PROVE  RowStep(j, outbox[j], outbox'[j])
<1> DEFINE i == failing[t]
<1>1. i \in Jobs /\ outbox \in [Jobs -> Row]
  BY DEF RetryVisit, VisitInv, VisitTypeOK, TypeOK
<1>2. CASE RetryHolds(t, i)
  <2>1. outbox' = [outbox EXCEPT ![i] = Requeued(outbox[i], Now(t))]
    BY <1>2 DEF RetryVisit
  <2>2. outbox[i].status = "claimed" /\ outbox[i] \in Row /\ outbox[i].attempts > 0
    BY <1>1, <1>2, ClaimedVisit DEF RetryHolds
  <2>3. Now(t) \in -MaxTickAge .. 0
    BY OutboxAssumption DEF VisitInv, VisitTypeOK, TypeOK, Pass, Now
  <2>4. RowStep(i, outbox[i], Requeued(outbox[i], Now(t)))
    BY <1>1, <2>2, <2>3, RequeuedStep
  <2> HIDE DEF i
  <2> QED
    BY <1>1, <2>1, <2>4 DEF RowStep
<1>3. CASE ~RetryHolds(t, i)
  BY <1>3 DEF RetryVisit, RowStep
<1> QED
  BY <1>2, <1>3

LEMMA VisitSteps ==
    ASSUME VisitInv, [VisitNext]_visitVars, NEW j \in Jobs
    PROVE  RowStep(j, outbox[j], outbox'[j])
<1>1. TypeOK /\ RowInv /\ outbox[j] \in Row /\ outbox \in [Jobs -> Row]
  BY DEF VisitInv, VisitTypeOK, TypeOK
<1>2. ASSUME NEW i \in Jobs, Enqueue(i) PROVE RowStep(j, outbox[j], outbox'[j])
  BY <1>1, <1>2 DEF Enqueue, NoRow, RowStep, Open
<1>3. ASSUME NEW age \in 0 .. MaxTickAge, outbox' = Reclaimed(outbox, -age)
      PROVE  RowStep(j, outbox[j], outbox'[j])
  <2>1. -age \in -MaxTickAge .. 0
    BY OutboxAssumption
  <2> QED
    BY <1>1, <1>3, <2>1, ReclaimSteps
<1>4. CASE SchedulerReclaim
  <2>1. outbox' = Reclaimed(outbox, 0) /\ 0 \in -MaxTickAge .. 0
    BY <1>4, OutboxAssumption DEF SchedulerReclaim
  <2> QED
    BY <1>1, <2>1, ReclaimSteps
<1>5. ASSUME NEW t \in Ticks, NEW age \in 0 .. MaxTickAge, ClaimBatch(t, age, TRUE)
      PROVE  RowStep(j, outbox[j], outbox'[j])
  BY <1>1, <1>5, ClaimBatchSteps
<1>6. CASE Advance
  BY <1>1, <1>6, AgedRow DEF Advance, RowStep
<1>7. CASE UNCHANGED outbox
  BY <1>7 DEF RowStep
<1>8. \/ UNCHANGED outbox \/ Advance \/ SchedulerReclaim
      \/ \E i \in Jobs : Enqueue(i)
      \/ \E age \in 0 .. MaxTickAge : outbox' = Reclaimed(outbox, -age)
      \/ \E t \in Ticks, age \in 0 .. MaxTickAge : ClaimBatch(t, age, TRUE)
      \/ \E t \in Ticks, i \in Jobs : SettleVisit(t, i)
      \/ \E t \in Ticks : RetryVisit(t)
  BY DEF VisitNext, visitVars, vars, Plan, Stroll, EnqueueVisit, ReclaimVisits,
         ClaimSome, ClaimVisits, ClaimNothing, HandleVisit, SettleRaises,
         VisitCrash, Crash, VisitAdvance
<1> QED
  BY <1>2, <1>3, <1>4, <1>5, <1>6, <1>7, <1>8, SettleVisitSteps, RetryVisitSteps

\* The settlement of a visit looks at the status and the lease of the job but
\* not at its owner, and yet the jobs keep the lifecycle the outbox promises: no
\* late pass settles a job that is done or dead.
THEOREM VisitRefinement == VisitSpec => LifecycleSpec
<1>1. VisitInit => Lifecycle!Init
  BY DEF VisitInit, Init, NoRow, Lifecycle!Init, Phase, Tries
<1>2. VisitInv /\ [VisitNext]_visitVars => [Lifecycle!Next]_(Lifecycle!vars)
  BY VisitSteps, RowStepImpliesJobNext DEF Lifecycle!Next
<1> QED
  BY <1>1, <1>2, VisitInvariance, PTL DEF VisitSpec, LifecycleSpec, Lifecycle!Spec
=============================================================================
