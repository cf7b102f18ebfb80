---------------------------- MODULE OutboxProofs ----------------------------
(***************************************************************************)
(* Theorems about Outbox for every set of jobs and passes, every lease,    *)
(* backoff, attempt limit and tick length.                                 *)
(***************************************************************************)
EXTENDS Outbox, TLAPS

-----------------------------------------------------------------------------
(* The inductive invariant. *)

\* What a row says of itself: who waits has an attempt left; a row carries a
\* locked_by exactly while a leased claim of it, already charged, is open.
RowOK(j, r) ==
    /\ r.status \in {"pending", "retry"} => r.attempts < MaxAttempts
    /\ r.lockedBy # NoTick =>
           r.status = "claimed" /\ r.attempts > 0 /\ j \notin Leaseless
    /\ r.status = "claimed" /\ j \notin Leaseless => r.lockedBy # NoTick
    /\ r.status = "absent" => r.attempts = 0

RowInv == \A j \in Jobs : RowOK(j, outbox[j])

\* What a pass may rely on: as claim and settlement are measured from the same
\* "now", the lease of a row it holds is Lease minus its own age; and it only
\* ceases to hold a job of its batch after that has become negative.
PassInv(t) ==
    \A j \in tick[t].batch :
        /\ tick[t].open
        /\ outbox[j].lockedBy = t => outbox[j].lease = Lease - tick[t].age
        /\ j \notin Leaseless => outbox[j].lockedBy = t \/ tick[t].age > Lease

Inv ==
    /\ TypeOK
    /\ RowInv
    /\ \A t \in Ticks : PassInv(t)

-----------------------------------------------------------------------------
(* What the statements do to a row. *)

LEMMA UnlockedRow ==
    ASSUME NEW r \in Row
    PROVE  /\ Unlocked(r) \in Row
           /\ Unlocked(r).lockedBy = NoTick
           /\ Unlocked(r).attempts = r.attempts
           /\ Unlocked(r).wait = r.wait
<1>1. 0 \in Times(Lease)
  BY OutboxAssumption DEF Times
<1> QED
  BY <1>1 DEF Row, Unlocked

LEMMA RequeuedRow ==
    ASSUME NEW r \in Row, r.attempts > 0,
           NEW now \in -MaxTickAge .. 0
    PROVE  /\ Requeued(r, now) \in Row
           /\ Requeued(r, now).lockedBy = NoTick
           /\ Requeued(r, now).attempts = r.attempts
           /\ Requeued(r, now).status \in {"dead", "retry"}
           /\ Requeued(r, now).status = "dead" => r.attempts = MaxAttempts
           /\ Requeued(r, now).status = "retry" => r.attempts < MaxAttempts
<1> DEFINE u == Unlocked(r)
<1>1. /\ u \in Row
      /\ u.lockedBy = NoTick
      /\ u.attempts = r.attempts
  BY UnlockedRow
<1>2. r.attempts \in 0 .. MaxAttempts
  BY DEF Row
<1>3. CASE r.attempts >= MaxAttempts
  <2>1. Requeued(r, now) = [u EXCEPT !.status = "dead"]
    BY <1>3 DEF Requeued
  <2>2. r.attempts = MaxAttempts
    BY <1>2, <1>3, OutboxAssumption
  <2> QED
    BY <1>1, <2>1, <2>2 DEF Row, Statuses
<1>4. CASE ~(r.attempts >= MaxAttempts)
  <2>1. Requeued(r, now) = [u EXCEPT !.status = "retry", !.wait = now + Backoff[r.attempts]]
    BY <1>4 DEF Requeued
  <2>2. r.attempts < MaxAttempts /\ r.attempts \in 1 .. MaxAttempts
    BY <1>2, <1>4, OutboxAssumption
  <2>3. Backoff[r.attempts] \in 1 .. MaxBackoff
    BY <2>2, OutboxAssumption
  <2>4. now + Backoff[r.attempts] \in Times(MaxBackoff)
    BY <2>3, OutboxAssumption DEF Times
  <2> QED
    BY <1>1, <2>1, <2>2, <2>4 DEF Row, Statuses
<1> QED
  BY <1>3, <1>4

LEMMA ClaimedRow ==
    ASSUME NEW r \in Row, r.attempts < MaxAttempts,
           NEW t \in Ticks, NEW now \in -MaxTickAge .. 0
    PROVE  /\ Claimed(r, t, now) \in Row
           /\ Claimed(r, t, now).status = "claimed"
           /\ Claimed(r, t, now).lockedBy = t
           /\ Claimed(r, t, now).lease = now + Lease
           /\ Claimed(r, t, now).attempts = r.attempts + 1
<1>1. r.attempts + 1 \in 0 .. MaxAttempts
  BY OutboxAssumption DEF Row
<1>2. now + Lease \in Times(Lease) /\ 0 \in Times(MaxBackoff)
  BY OutboxAssumption DEF Times
<1> QED
  BY <1>1, <1>2 DEF Row, Claimed, Statuses

LEMMA ReleasedRow ==
    ASSUME NEW r \in Row, r.attempts > 0,
           NEW now \in -MaxTickAge .. 0
    PROVE  /\ Released(r, now) \in Row
           /\ Released(r, now).status = "pending"
           /\ Released(r, now).lockedBy = NoTick
           /\ Released(r, now).attempts = r.attempts - 1
<1>1. r.attempts \in 1 .. MaxAttempts
  BY OutboxAssumption DEF Row
<1>2. now \in Times(MaxBackoff)
  BY OutboxAssumption DEF Times
<1> DEFINE left == IF r.attempts > 1 THEN r.attempts - 1 ELSE 0
<1>3. left = r.attempts - 1 /\ left \in 0 .. MaxAttempts
  BY <1>1, OutboxAssumption
<1>4. /\ Unlocked(r) \in Row
      /\ Unlocked(r).lockedBy = NoTick
      /\ Unlocked(r).attempts = r.attempts
  BY UnlockedRow
<1>5. Released(r, now) =
        [Unlocked(r) EXCEPT !.status = "pending", !.wait = now, !.attempts = left]
  BY <1>4 DEF Released
<1> QED
  BY <1>2, <1>3, <1>4, <1>5 DEF Row, Statuses

LEMMA AgedRow ==
    ASSUME NEW r \in Row
    PROVE  /\ Aged(r) \in Row
           /\ Aged(r).status = r.status
           /\ Aged(r).lockedBy = r.lockedBy
           /\ Aged(r).attempts = r.attempts
           /\ r.status = "claimed" /\ r.lockedBy # NoTick /\ r.lease > -MaxTickAge
                => Aged(r).lease = r.lease - 1
<1>1. \A u \in Nat : \A n \in Times(u) : Older(n) \in Times(u)
  BY OutboxAssumption DEF Older, Times
<1>2. Older(r.wait) \in Times(MaxBackoff) /\ Older(r.lease) \in Times(Lease)
  BY <1>1, OutboxAssumption DEF Row
<1>3. r.lease > -MaxTickAge => Older(r.lease) = r.lease - 1
  BY DEF Older
<1> QED
  BY <1>2, <1>3 DEF Row, Aged

LEMMA ReclaimedRows ==
    ASSUME NEW rows \in [Jobs -> Row],
           \A j \in Jobs : RowOK(j, rows[j]),
           NEW now \in -MaxTickAge .. 0
    PROVE  /\ Reclaimed(rows, now) \in [Jobs -> Row]
           /\ \A j \in Jobs : RowOK(j, Reclaimed(rows, now)[j])
           /\ \A j \in Jobs :
                 \/ Reclaimed(rows, now)[j] = rows[j]
                 \/ /\ Expired(rows[j], now)
                    /\ Reclaimed(rows, now)[j] = Requeued(rows[j], now)
<1> DEFINE after == Reclaimed(rows, now)
<1>1. \A j \in Jobs : after[j] = IF Expired(rows[j], now) THEN Requeued(rows[j], now) ELSE rows[j]
  BY DEF Reclaimed
<1>2. ASSUME NEW j \in Jobs, Expired(rows[j], now)
      PROVE  /\ Requeued(rows[j], now) \in Row
             /\ RowOK(j, Requeued(rows[j], now))
  <2>1. rows[j] \in Row /\ rows[j].attempts > 0
    BY <1>2 DEF Expired, RowOK
  <2> QED
    BY <2>1, RequeuedRow DEF RowOK
<1>3. \A j \in Jobs : after[j] \in Row /\ RowOK(j, after[j])
  BY <1>1, <1>2
<1>4. after = [j \in Jobs |-> after[j]]
  BY DEF Reclaimed
<1> QED
  BY <1>1, <1>3, <1>4

-----------------------------------------------------------------------------
(* Another process changed the rows: pass t keeps what it relies on if each *)
(* job of its batch is left alone or was taken from it after its lease.     *)

LEMMA Undisturbed ==
    ASSUME NEW t \in Ticks, PassInv(t), tick'[t] = tick[t],
           \A j \in tick[t].batch :
              \/ /\ outbox'[j].lockedBy = outbox[j].lockedBy
                 /\ outbox'[j].lease = outbox[j].lease
              \/ /\ outbox'[j].lockedBy # t
                 /\ outbox[j].lockedBy = t => tick[t].age > Lease
    PROVE  PassInv(t)'
  BY DEF PassInv

LEMMA LateIfExpired ==
    ASSUME Inv, NEW t \in Ticks, NEW j \in tick[t].batch,
           NEW now \in -MaxTickAge .. 0,
           Expired(outbox[j], now), outbox[j].lockedBy = t
    PROVE  tick[t].age > Lease
<1>1. outbox[j].lease = Lease - tick[t].age /\ outbox[j].lease < now
  BY DEF Inv, PassInv, Expired
<1>2. tick[t].age \in Int
  BY OutboxAssumption DEF Inv, TypeOK, Pass
<1> QED
  BY <1>1, <1>2, OutboxAssumption

-----------------------------------------------------------------------------
(* Every action preserves the invariant. *)

LEMMA EnqueueInv == ASSUME Inv, NEW j \in Jobs, Enqueue(j) PROVE Inv'
<1> DEFINE row == [NoRow EXCEPT !.status = "pending"]
<1>1. row \in Row /\ RowOK(j, row) /\ row.lockedBy = NoTick
  BY OutboxAssumption DEF NoRow, Row, Times, Statuses, RowOK
<1>2. outbox' = [outbox EXCEPT ![j] = row] /\ UNCHANGED <<tick, more>>
  BY DEF Enqueue
<1>3. TypeOK'
  BY <1>1, <1>2 DEF Inv, TypeOK
<1>4. RowInv'
  BY <1>1, <1>2 DEF Inv, TypeOK, RowInv
<1>5. ASSUME NEW t \in Ticks PROVE PassInv(t)'
  <2>1. outbox[j].lockedBy = NoTick
    BY DEF Enqueue, Inv, RowInv, RowOK
  <2>2. \A i \in Jobs : i = j \/ outbox'[i] = outbox[i]
    BY <1>2 DEF Inv, TypeOK
  <2>3. outbox'[j].lockedBy = NoTick /\ NoTick # t
    BY <1>1, <1>2, OutboxAssumption DEF Inv, TypeOK
  <2>4. tick[t].batch \subseteq Jobs
    BY DEF Inv, TypeOK, Pass
  <2> QED
    BY <1>2, <2>1, <2>2, <2>3, <2>4, Undisturbed DEF Inv
<1> QED
  BY <1>3, <1>4, <1>5 DEF Inv

LEMMA ReclaimInv == ASSUME Inv, SchedulerReclaim PROVE Inv'
<1> USE DEF Inv
<1>1. outbox' = Reclaimed(outbox, 0) /\ UNCHANGED <<tick, more>>
  BY DEF SchedulerReclaim
<1>2. 0 \in -MaxTickAge .. 0
  BY OutboxAssumption
<1>3. /\ outbox' \in [Jobs -> Row]
      /\ \A j \in Jobs : RowOK(j, outbox'[j])
      /\ \A j \in Jobs : \/ outbox'[j] = outbox[j]
                        \/ /\ Expired(outbox[j], 0)
                           /\ outbox'[j] = Requeued(outbox[j], 0)
  BY <1>1, <1>2, ReclaimedRows DEF TypeOK, RowInv
<1>4. ASSUME NEW t \in Ticks PROVE PassInv(t)'
  <2>1. ASSUME NEW j \in tick[t].batch, outbox'[j] # outbox[j]
        PROVE  outbox'[j].lockedBy # t /\ (outbox[j].lockedBy = t => tick[t].age > Lease)
    <3>1. j \in Jobs
      BY DEF TypeOK, Pass
    <3>2. Expired(outbox[j], 0) /\ outbox'[j] = Requeued(outbox[j], 0)
      BY <1>3, <2>1, <3>1
    <3>3. outbox[j] \in Row /\ outbox[j].attempts > 0
      BY <3>1, <3>2 DEF TypeOK, RowInv, RowOK, Expired
    <3>4. outbox'[j].lockedBy = NoTick
      BY <1>2, <3>2, <3>3, RequeuedRow
    <3> QED
      BY <1>2, <3>2, <3>4, LateIfExpired, OutboxAssumption
  <2> QED
    BY <1>1, <2>1, Undisturbed
<1> QED
  BY <1>1, <1>3, <1>4 DEF TypeOK, RowInv

LEMMA ClaimBatchInv ==
    ASSUME Inv, NEW t \in Ticks, NEW age \in 0 .. MaxTickAge, NEW reclaims \in BOOLEAN,
           ClaimBatch(t, age, reclaims)
    PROVE  Inv'
<1> USE DEF Inv
<1> DEFINE now == -age
           rows == IF reclaims THEN Reclaimed(outbox, now) ELSE outbox
<1>1. now \in -MaxTickAge .. 0
  BY OutboxAssumption
<1>2. /\ rows \in [Jobs -> Row]
      /\ \A j \in Jobs : RowOK(j, rows[j])
      /\ \A j \in Jobs : \/ rows[j] = outbox[j]
                        \/ /\ Expired(outbox[j], now)
                           /\ rows[j] = Requeued(outbox[j], now)
  BY <1>1, ReclaimedRows DEF TypeOK, RowInv
<1>3. PICK S \in Oldest(rows, Due(rows, now) \ Leaseless) :
          /\ outbox' = [j \in Jobs |-> IF j \in S THEN Claimed(rows[j], t, now) ELSE rows[j]]
          /\ tick' = Opened(t, age, S)
  BY DEF ClaimBatch
<1>4. S \subseteq Due(rows, now) \ Leaseless
  BY DEF Oldest
<1>5. \A j \in S : /\ j \in Jobs /\ j \notin Leaseless
                  /\ rows[j].status \in {"pending", "retry"}
                  /\ rows[j].lockedBy = NoTick
  BY <1>2, <1>4 DEF Due, RowOK
<1>6. ASSUME NEW j \in S
      PROVE  /\ outbox'[j] \in Row /\ RowOK(j, outbox'[j])
             /\ outbox'[j].lockedBy = t
             /\ outbox'[j].lease = now + Lease
  <2>1. rows[j] \in Row /\ rows[j].attempts < MaxAttempts /\ rows[j].attempts \in Nat
    BY <1>2, <1>5, OutboxAssumption DEF RowOK, Row
  <2>2. outbox'[j] = Claimed(rows[j], t, now)
    BY <1>3, <1>5
  <2>3. t # NoTick
    BY OutboxAssumption
  <2> HIDE DEF rows, now
  <2> QED
    BY <1>1, <1>5, <2>1, <2>2, <2>3, ClaimedRow DEF RowOK
<1>7. \A j \in Jobs \ S : outbox'[j] = rows[j]
  BY <1>3
<1>8. TypeOK'
  <2>1. outbox' \in [Jobs -> Row]
    BY <1>2, <1>3, <1>6, <1>7
  <2>2. tick' \in [Ticks -> Pass]
    BY <1>3, <1>5 DEF TypeOK, Opened, Pass
  <2> QED
    BY <2>1, <2>2 DEF TypeOK, ClaimBatch
<1>9. RowInv'
  BY <1>2, <1>6, <1>7 DEF RowInv
<1>10. ASSUME NEW u \in Ticks PROVE PassInv(u)'
  <2>1. CASE u = t
    <3>1. tick'[u] = [open |-> TRUE, age |-> age, batch |-> S]
      BY <1>3, <2>1 DEF Opened, TypeOK
    <3>2. now + Lease = Lease - age
      BY OutboxAssumption
    <3> QED
      BY <1>6, <2>1, <3>1, <3>2 DEF PassInv
  <2>2. CASE u # t
    <3>1. tick'[u] = tick[u]
      BY <1>3, <2>2 DEF Opened, TypeOK
    <3>2. ASSUME NEW j \in tick[u].batch, ~(/\ outbox'[j].lockedBy = outbox[j].lockedBy
                                          /\ outbox'[j].lease = outbox[j].lease)
          PROVE  /\ outbox'[j].lockedBy # u
                 /\ outbox[j].lockedBy = u => tick[u].age > Lease
      <4>1. j \in Jobs
        BY DEF TypeOK, Pass
      <4>2. outbox'[j].lockedBy # u
        <5>1. CASE j \in S
          BY <1>6, <2>2, <5>1
        <5>2. CASE j \notin S
          <6>1. Expired(outbox[j], now) /\ outbox'[j] = Requeued(outbox[j], now)
            BY <1>2, <1>7, <3>2, <4>1, <5>2
          <6>2. outbox[j] \in Row /\ outbox[j].attempts > 0
            BY <4>1, <6>1 DEF TypeOK, RowInv, RowOK, Expired
          <6> HIDE DEF now
          <6> QED
            BY <1>1, <6>1, <6>2, RequeuedRow, OutboxAssumption
        <5> QED
          BY <5>1, <5>2
      <4>3. ASSUME outbox[j].lockedBy = u PROVE tick[u].age > Lease
        <5>1. outbox[j].lockedBy # NoTick
          BY <4>3, OutboxAssumption
        <5>2. rows[j] # outbox[j]
          BY <1>5, <1>7, <3>2, <4>1, <5>1
        <5>3. Expired(outbox[j], now)
          BY <1>2, <4>1, <5>2
        <5> QED
          BY <1>1, <4>3, <5>3, LateIfExpired
      <4> QED
        BY <4>2, <4>3
    <3> QED
      BY <3>1, <3>2, Undisturbed
  <2> QED
    BY <2>1, <2>2
<1> QED
  BY <1>8, <1>9, <1>10

\* Statements that touch neither locked_by nor the lease disturb no pass.
LEMMA ClaimLeaselessInv ==
    ASSUME Inv, NEW t \in Ticks, NEW age \in 0 .. MaxTickAge, ClaimLeaseless(t, age)
    PROVE  Inv'
<1> USE DEF Inv
<1>1. PICK S \in Oldest(outbox, Due(outbox, -age) \cap Leaseless) :
          /\ outbox' = [j \in Jobs |->
                           IF j \in S THEN ClaimedLeaseless(outbox[j]) ELSE outbox[j]]
          /\ tick' = Opened(t, age, S)
  BY DEF ClaimLeaseless
<1>2. S \subseteq Due(outbox, -age) \cap Leaseless
  BY DEF Oldest
<1>3. ASSUME NEW j \in Jobs
      PROVE  /\ outbox'[j] \in Row /\ RowOK(j, outbox'[j])
             /\ outbox'[j].lockedBy = outbox[j].lockedBy
             /\ outbox'[j].lease = outbox[j].lease
             /\ j \in S => outbox[j].lockedBy = NoTick
  <2>1. outbox[j] \in Row /\ RowOK(j, outbox[j])
    BY DEF TypeOK, RowInv
  <2>2. CASE j \in S
    <3>1. outbox'[j] = ClaimedLeaseless(outbox[j]) /\ j \in Leaseless
      BY <1>1, <1>2, <2>2
    <3>2. outbox[j].status \in {"pending", "retry"}
      BY <1>2, <2>2 DEF Due
    <3>3. 0 \in Times(MaxBackoff)
      BY OutboxAssumption DEF Times
    <3> QED
      BY <2>1, <3>1, <3>2, <3>3 DEF ClaimedLeaseless, Row, Statuses, RowOK
  <2>3. CASE j \notin S
    BY <1>1, <2>1, <2>3
  <2> QED
    BY <2>2, <2>3
<1>4. TypeOK'
  <2>1. outbox' \in [Jobs -> Row]
    BY <1>1, <1>3
  <2>2. tick' \in [Ticks -> Pass]
    BY <1>1, <1>2 DEF TypeOK, Opened, Pass, Due
  <2> QED
    BY <2>1, <2>2 DEF TypeOK, ClaimLeaseless
<1>5. RowInv'
  BY <1>3 DEF RowInv
<1>6. ASSUME NEW u \in Ticks PROVE PassInv(u)'
  <2>1. CASE u = t
    <3>1. tick'[u] = [open |-> TRUE, age |-> age, batch |-> S]
      BY <1>1, <2>1 DEF Opened, TypeOK
    <3>2. \A j \in S : outbox'[j].lockedBy # u /\ j \in Leaseless
      BY <1>2, <1>3, OutboxAssumption DEF Due
    <3> QED
      BY <3>1, <3>2 DEF PassInv
  <2>2. CASE u # t
    <3>1. tick'[u] = tick[u] /\ tick[u].batch \subseteq Jobs
      BY <1>1, <2>2 DEF Opened, TypeOK, Pass
    <3> QED
      BY <1>3, <3>1, Undisturbed
  <2> QED
    BY <2>1, <2>2
<1> QED
  BY <1>4, <1>5, <1>6

\* Pass t leaves job j: its batch only shrinks.
LEMMA RestPass ==
    ASSUME TypeOK, NEW t \in Ticks, NEW j \in Jobs, tick[t].open, Rest(t, j)
    PROVE  /\ tick' \in [Ticks -> Pass]
           /\ \A u \in Ticks \ {t} : tick'[u] = tick[u]
           /\ tick'[t].batch = tick[t].batch \ {j}
           /\ tick'[t].batch # {} => tick'[t].open /\ tick'[t].age = tick[t].age
<1> DEFINE left == tick[t].batch \ {j}
           pass == IF left = {} THEN Idle ELSE [tick[t] EXCEPT !.batch = left]
<1>1. tick[t] \in Pass
  BY DEF TypeOK
<1>2. /\ pass \in Pass
      /\ pass.batch = left
      /\ left # {} => pass.open /\ pass.age = tick[t].age
  BY <1>1, OutboxAssumption DEF Pass, Idle
<1>3. tick' = [tick EXCEPT ![t] = pass]
  BY DEF Rest
<1> HIDE DEF pass
<1> QED
  BY <1>2, <1>3 DEF TypeOK

\* A settlement replaces the row by an unlocked one if the pass still holds it.
LEMMA SettleInv ==
    ASSUME Inv, NEW t \in Ticks, NEW j \in Jobs, NEW row,
           Settle(t, j, row),
           Holds(t, j) => row \in Row /\ RowOK(j, row) /\ row.lockedBy = NoTick
    PROVE  outbox' \in [Jobs -> Row] /\ tick' \in [Ticks -> Pass] /\ RowInv'
           /\ \A u \in Ticks : PassInv(u)'
<1> USE DEF Inv
<1>1. /\ tick[t].open /\ j \in tick[t].batch
      /\ outbox' = IF Holds(t, j) THEN [outbox EXCEPT ![j] = row] ELSE outbox
      /\ Rest(t, j)
  BY DEF Settle
<1>2. \A i \in Jobs : outbox'[i] = IF Holds(t, j) /\ i = j THEN row ELSE outbox[i]
  BY <1>1 DEF TypeOK
<1>3. outbox' \in [Jobs -> Row]
  BY <1>1 DEF TypeOK
<1>4. RowInv'
  BY <1>2 DEF RowInv
<1>5. /\ tick' \in [Ticks -> Pass]
      /\ \A u \in Ticks \ {t} : tick'[u] = tick[u]
      /\ tick'[t].batch = tick[t].batch \ {j}
      /\ tick'[t].batch # {} => tick'[t].open /\ tick'[t].age = tick[t].age
  BY <1>1, RestPass
<1>6. tick[t].batch \subseteq Jobs
  BY DEF TypeOK, Pass
<1>7. PassInv(t)'
  <2>1. \A i \in tick'[t].batch : i \in tick[t].batch /\ outbox'[i] = outbox[i]
    BY <1>2, <1>5, <1>6
  <2> QED
    BY <1>5, <2>1 DEF PassInv
<1>8. ASSUME NEW u \in Ticks \ {t} PROVE PassInv(u)'
  <2>1. ASSUME NEW i \in tick[u].batch, outbox'[i] # outbox[i]
        PROVE  outbox'[i].lockedBy # u /\ outbox[i].lockedBy # u
    <3>1. i \in Jobs
      BY DEF TypeOK, Pass
    <3>2. i = j /\ Holds(t, j) /\ outbox'[i] = row
      BY <1>2, <2>1, <3>1
    <3> QED
      BY <3>2, OutboxAssumption DEF Holds
  <2> QED
    BY <1>5, <2>1, Undisturbed
<1> QED
  BY <1>3, <1>4, <1>5, <1>7, <1>8

\* Whoever holds a row was charged for the claim.
LEMMA HeldRow ==
    ASSUME Inv, NEW t \in Ticks, NEW j \in Jobs, Holds(t, j)
    PROVE  /\ outbox[j] \in Row
           /\ outbox[j].attempts > 0
           /\ outbox[j].attempts \in 1 .. MaxAttempts
           /\ Now(t) \in -MaxTickAge .. 0
<1>1. outbox[j] \in Row /\ RowOK(j, outbox[j]) /\ outbox[j].lockedBy # NoTick
  BY OutboxAssumption DEF Inv, TypeOK, RowInv, Holds
<1>2. tick[t].age \in 0 .. MaxTickAge
  BY DEF Inv, TypeOK, Pass
<1> QED
  BY <1>1, <1>2, OutboxAssumption DEF RowOK, Row, Now

LEMMA CompleteInv ==
    ASSUME Inv, NEW t \in Ticks, NEW j \in Jobs, Complete(t, j) PROVE Inv'
<1> DEFINE row == [Unlocked(outbox[j]) EXCEPT !.status = "done"]
<1>1. Holds(t, j) => row \in Row /\ RowOK(j, row) /\ row.lockedBy = NoTick
  BY HeldRow, UnlockedRow DEF Row, RowOK, Statuses
<1>2. Settle(t, j, row) /\ UNCHANGED more
  BY DEF Complete
<1> HIDE DEF row
<1> QED
  BY <1>1, <1>2, SettleInv DEF Inv, TypeOK

LEMMA FailInv ==
    ASSUME Inv, NEW t \in Ticks, NEW j \in Jobs, Fail(t, j) PROVE Inv'
<1> DEFINE row == Requeued(outbox[j], Now(t))
<1>1. Holds(t, j) => row \in Row /\ RowOK(j, row) /\ row.lockedBy = NoTick
  BY HeldRow, RequeuedRow DEF RowOK
<1>2. Settle(t, j, row) /\ UNCHANGED more
  BY DEF Fail
<1> HIDE DEF row
<1> QED
  BY <1>1, <1>2, SettleInv DEF Inv, TypeOK

LEMMA ReleaseInv ==
    ASSUME Inv, NEW t \in Ticks, NEW j \in Jobs, ReleaseUntil(t, j) PROVE Inv'
<1> DEFINE row == Released(outbox[j], Now(t))
<1>1. Holds(t, j) => row \in Row /\ RowOK(j, row) /\ row.lockedBy = NoTick
  BY HeldRow, ReleasedRow, OutboxAssumption DEF RowOK
<1>2. Settle(t, j, row)
  BY DEF ReleaseUntil
<1>3. more' \in [Jobs -> 0 .. MaxContinuations]
  BY OutboxAssumption DEF ReleaseUntil, Inv, TypeOK
<1> HIDE DEF row
<1> QED
  BY <1>1, <1>2, <1>3, SettleInv DEF Inv, TypeOK

LEMMA MarkDoneInv ==
    ASSUME Inv, NEW t \in Ticks, NEW j \in Jobs, MarkDone(t, j) PROVE Inv'
<1> USE DEF Inv
<1>1. /\ j \in Leaseless
      /\ outbox' = IF outbox[j].status \in {"pending", "retry", "claimed"}
                   THEN [outbox EXCEPT ![j].status = "done"] ELSE outbox
      /\ tick[t].open /\ Rest(t, j) /\ UNCHANGED more
  BY DEF MarkDone
<1>2. outbox[j] \in Row /\ RowOK(j, outbox[j])
  BY DEF TypeOK, RowInv
<1>3. [outbox[j] EXCEPT !.status = "done"] \in Row
  BY <1>2 DEF Row, Statuses
<1>4. RowOK(j, [outbox[j] EXCEPT !.status = "done"])
  BY <1>1, <1>2 DEF RowOK, Row
<1>5. outbox' \in [Jobs -> Row]
  BY <1>1, <1>3 DEF TypeOK
<1>6. RowInv'
  BY <1>1, <1>4 DEF RowInv, TypeOK
<1>7. \A i \in Jobs : /\ outbox'[i].lockedBy = outbox[i].lockedBy
                    /\ outbox'[i].lease = outbox[i].lease
  BY <1>1, <1>2 DEF TypeOK, Row
<1>8. /\ tick' \in [Ticks -> Pass]
      /\ \A u \in Ticks \ {t} : tick'[u] = tick[u]
      /\ tick'[t].batch = tick[t].batch \ {j}
      /\ tick'[t].batch # {} => tick'[t].open /\ tick'[t].age = tick[t].age
  BY <1>1, RestPass
<1>9. \A u \in Ticks : tick[u].batch \subseteq Jobs
  BY DEF TypeOK, Pass
<1>10. PassInv(t)'
  BY <1>7, <1>8, <1>9 DEF PassInv
<1>11. \A u \in Ticks \ {t} : PassInv(u)'
  BY <1>7, <1>8, <1>9, Undisturbed
<1> QED
  BY <1>1, <1>5, <1>6, <1>8, <1>10, <1>11 DEF TypeOK

LEMMA CrashInv == ASSUME Inv, NEW t \in Ticks, Crash(t) PROVE Inv'
<1> USE DEF Inv
<1>1. tick' = [tick EXCEPT ![t] = Idle] /\ UNCHANGED <<outbox, more>>
  BY DEF Crash
<1>2. TypeOK'
  BY <1>1, OutboxAssumption DEF TypeOK, Pass, Idle
<1>3. RowInv'
  BY <1>1 DEF RowInv
<1>4. PassInv(t)'
  BY <1>1 DEF PassInv, TypeOK, Idle
<1>5. \A u \in Ticks \ {t} : PassInv(u)'
  BY <1>1 DEF PassInv, TypeOK
<1> QED
  BY <1>2, <1>3, <1>4, <1>5

LEMMA AdvanceInv == ASSUME Inv, Advance PROVE Inv'
<1> USE DEF Inv
<1>1. /\ outbox' = [j \in Jobs |-> Aged(outbox[j])]
      /\ tick' = [t \in Ticks |-> IF tick[t].open THEN [tick[t] EXCEPT !.age = @ + 1]
                                 ELSE tick[t]]
      /\ \A t \in Ticks : tick[t].open => tick[t].age < MaxTickAge
      /\ UNCHANGED more
  BY DEF Advance
<1>2. \A j \in Jobs : /\ outbox[j] \in Row
                    /\ outbox'[j] = Aged(outbox[j])
  BY <1>1 DEF TypeOK
<1>3. TypeOK'
  <2>1. outbox' \in [Jobs -> Row]
    BY <1>1, <1>2, AgedRow
  <2>2. ASSUME NEW t \in Ticks, tick[t].open PROVE [tick[t] EXCEPT !.age = @ + 1] \in Pass
    <3>1. tick[t] \in Pass /\ tick[t].age < MaxTickAge
      BY <1>1, <2>2 DEF TypeOK
    <3>2. tick[t].age + 1 \in 0 .. MaxTickAge
      BY <3>1, OutboxAssumption DEF Pass
    <3> QED
      BY <3>1, <3>2 DEF Pass
  <2>3. tick' \in [Ticks -> Pass]
    BY <1>1, <2>2 DEF TypeOK
  <2> QED
    BY <1>1, <2>1, <2>3 DEF TypeOK
<1>4. RowInv'
  BY <1>2, AgedRow DEF RowInv, RowOK
<1>5. ASSUME NEW t \in Ticks PROVE PassInv(t)'
  <2>1. ASSUME NEW j \in tick'[t].batch
        PROVE  /\ tick'[t].open
               /\ outbox'[j].lockedBy = t => outbox'[j].lease = Lease - tick'[t].age
               /\ j \notin Leaseless => outbox'[j].lockedBy = t \/ tick'[t].age > Lease
    <3>1. tick'[t].batch = tick[t].batch /\ tick[t].batch \subseteq Jobs
      BY <1>1 DEF TypeOK, Pass
    <3>2. /\ tick[t].open
          /\ outbox[j].lockedBy = t => outbox[j].lease = Lease - tick[t].age
          /\ j \notin Leaseless => outbox[j].lockedBy = t \/ tick[t].age > Lease
      BY <3>1 DEF PassInv
    <3>3. /\ tick[t].age \in Nat /\ tick[t].age < MaxTickAge
          /\ tick'[t].open /\ tick'[t].age = tick[t].age + 1
      BY <1>1, <3>2, OutboxAssumption DEF TypeOK, Pass
    <3>4. outbox'[j].lockedBy = outbox[j].lockedBy
      BY <1>2, <3>1, AgedRow
    <3>5. ASSUME outbox'[j].lockedBy = t PROVE outbox'[j].lease = Lease - tick'[t].age
      <4>1. outbox[j].lockedBy # NoTick /\ outbox[j].status = "claimed"
        BY <3>1, <3>4, <3>5, OutboxAssumption DEF RowInv, RowOK
      <4>2. outbox[j].lease = Lease - tick[t].age /\ outbox[j].lease > -MaxTickAge
        BY <3>2, <3>3, <3>4, <3>5, OutboxAssumption
      <4>3. outbox'[j].lease = outbox[j].lease - 1
        BY <1>2, <3>1, <4>1, <4>2, AgedRow
      <4> QED
        BY <3>3, <4>2, <4>3, OutboxAssumption
    <3>6. tick[t].age > Lease => tick'[t].age > Lease
      BY <3>3, OutboxAssumption
    <3> QED
      BY <3>2, <3>3, <3>4, <3>5, <3>6
  <2> QED
    BY <2>1 DEF PassInv
<1> QED
  BY <1>3, <1>4, <1>5

\* The claim, handling and clock steps together.
LEMMA NextInv == ASSUME Inv, [Next]_vars PROVE Inv'
<1>1. ASSUME NEW t \in Ticks, NEW age \in 0 .. MaxTickAge, Claim(t, age) PROVE Inv'
  BY <1>1, ClaimBatchInv, ClaimLeaselessInv DEF Claim
<1>2. ASSUME NEW t \in Ticks, NEW j \in Jobs, Handle(t, j) PROVE Inv'
  BY <1>2, CompleteInv, FailInv, ReleaseInv, MarkDoneInv DEF Handle
<1>3. CASE UNCHANGED vars
  BY <1>3 DEF vars, Inv, TypeOK, RowInv, PassInv
<1> QED
  BY <1>1, <1>2, <1>3, EnqueueInv, ReclaimInv, CrashInv, AdvanceInv DEF Next

LEMMA InitInv == Init => Inv
<1> SUFFICES ASSUME Init PROVE Inv
  OBVIOUS
<1>1. NoRow \in Row /\ Idle \in Pass
  BY OutboxAssumption DEF NoRow, Row, Statuses, Times, Idle, Pass
<1>2. TypeOK
  BY <1>1 DEF Init, TypeOK
<1>3. RowInv
  BY DEF Init, RowInv, RowOK, NoRow
<1>4. \A t \in Ticks : PassInv(t)
  BY DEF Init, PassInv, Idle
<1> QED
  BY <1>2, <1>3, <1>4 DEF Inv

\* The invariant is inductive, so it holds in every behaviour.
LEMMA Invariance == Spec => []Inv
  BY InitInv, NextInv, PTL DEF Spec

-----------------------------------------------------------------------------
(* What it implies. *)

\* Type correctness of the rows, the passes and the continuations.
THEOREM TypeCorrect == Spec => []TypeOK
<1>1. Inv => TypeOK
  BY DEF Inv
<1> QED
  BY <1>1, Invariance, PTL

\* A leased job that waits has an attempt left although no claim looks at
\* max_attempts, and a claimed one has been charged for its claim.
THEOREM AttemptsBounded == Spec => []AttemptLeft
<1>1. Inv => AttemptLeft
  BY DEF Inv, RowInv, RowOK, AttemptLeft
<1> QED
  BY <1>1, Invariance, PTL

LEMMA HoldsIfLocked ==
    ASSUME Inv, NEW t \in Ticks, NEW j \in tick[t].batch, outbox[j].lockedBy = t
    PROVE  Holds(t, j)
<1>1. j \in Jobs /\ outbox[j] \in Row /\ RowOK(j, outbox[j]) /\ tick[t].age \in Int
  BY OutboxAssumption DEF Inv, TypeOK, Pass, RowInv
<1>2. outbox[j].status = "claimed"
  BY <1>1, OutboxAssumption DEF RowOK
<1>3. outbox[j].lease = Lease - tick[t].age
  BY DEF Inv, PassInv
<1>4. outbox[j].lease > Now(t)
  BY <1>1, <1>3, OutboxAssumption DEF Now
<1> QED
  BY <1>2, <1>4 DEF Holds

\* Whatever other passes and the scheduler reclaim, a pass younger than its
\* lease still holds every job of its batch: at most one pass within its lease
\* works on a job.
THEOREM ClaimSafe == Spec => []LateIfRobbed
<1>1. Inv => LateIfRobbed
  BY HoldsIfLocked DEF Inv, PassInv, LateIfRobbed
<1> QED
  BY <1>1, Invariance, PTL

\* The comparison of lease_expires_at with p_now in complete, fail and release
\* never rejects the holder of a row, for no lease and no tick length.
THEOREM LeaseCheckNeverRejects == Spec => []LeaseCheckIdle
<1>1. Inv => LeaseCheckIdle
  BY HoldsIfLocked DEF LeaseCheckIdle
<1> QED
  BY <1>1, Invariance, PTL

-----------------------------------------------------------------------------
(* The outbox implements JobLifecycle. *)

Open(r) == r.status \in {"pending", "claimed", "retry"}

\* What one step may do to a row, in the words of JobLifecycle.
RowStep(j, r, s) ==
    \/ r.status = "absent" /\ Open(s) /\ s.attempts = 0
    \/ Open(r) /\ Open(s) /\ r.attempts < MaxAttempts /\ s.attempts = r.attempts + 1
    \/ Open(r) /\ Open(s) /\ r.attempts > 0 /\ s.attempts = r.attempts - 1
    \/ Open(r) /\ s.status = "done" /\ (j \in Leaseless \/ r.attempts > 0)
               /\ s.attempts = r.attempts
    \/ Open(r) /\ s.status = "dead" /\ r.attempts = MaxAttempts /\ s.attempts = r.attempts
    \/ Open(r) /\ Open(s) /\ s.attempts = r.attempts
    \/ s.status = r.status /\ s.attempts = r.attempts

LEMMA RowStepImpliesJobNext ==
    ASSUME NEW j \in Jobs, RowStep(j, outbox[j], outbox'[j])
    PROVE  Lifecycle!JobNext(j)
<1>1. /\ Phase[j] = IF Open(outbox[j]) THEN "open" ELSE outbox[j].status
      /\ Phase'[j] = IF Open(outbox'[j]) THEN "open" ELSE outbox'[j].status
      /\ Tries[j] = outbox[j].attempts
      /\ Tries'[j] = outbox'[j].attempts
  BY DEF Phase, Tries, Open
<1> QED
  BY <1>1 DEF RowStep, Open, Lifecycle!JobNext, Lifecycle!Submit, Lifecycle!Try,
              Lifecycle!GiveBack, Lifecycle!Finish, Lifecycle!GiveUp, Lifecycle!Stay

LEMMA RequeuedStep ==
    ASSUME NEW j \in Jobs, NEW r \in Row, NEW now \in -MaxTickAge .. 0,
           r.status = "claimed", r.attempts > 0
    PROVE  RowStep(j, r, Requeued(r, now))
  BY RequeuedRow DEF RowStep, Open

LEMMA ReclaimSteps ==
    ASSUME TypeOK, RowInv, NEW now \in -MaxTickAge .. 0,
           outbox' = Reclaimed(outbox, now), NEW j \in Jobs
    PROVE  RowStep(j, outbox[j], outbox'[j])
<1>1. outbox[j] \in Row /\ RowOK(j, outbox[j])
  BY DEF TypeOK, RowInv
<1>2. outbox'[j] = IF Expired(outbox[j], now) THEN Requeued(outbox[j], now) ELSE outbox[j]
  BY DEF Reclaimed
<1>3. Expired(outbox[j], now) => outbox[j].status = "claimed" /\ outbox[j].attempts > 0
  BY <1>1 DEF Expired, RowOK
<1> QED
  BY <1>1, <1>2, <1>3, RequeuedStep DEF RowStep

\* Reclaiming gives a job a backoff of at least one, so the claim that follows
\* it in the same transaction does not take the job up again.
LEMMA ClaimBatchSteps ==
    ASSUME TypeOK, RowInv, NEW t \in Ticks, NEW age \in 0 .. MaxTickAge, NEW reclaims \in BOOLEAN,
           ClaimBatch(t, age, reclaims), NEW j \in Jobs
    PROVE  RowStep(j, outbox[j], outbox'[j])
<1> DEFINE now == -age
           rows == IF reclaims THEN Reclaimed(outbox, now) ELSE outbox
<1>1. now \in -MaxTickAge .. 0
  BY OutboxAssumption
<1>2. outbox[j] \in Row /\ RowOK(j, outbox[j]) /\ outbox \in [Jobs -> Row]
  BY DEF TypeOK, RowInv
<1>3. \/ rows[j] = outbox[j]
      \/ Expired(outbox[j], now) /\ rows[j] = Requeued(outbox[j], now)
  BY DEF Reclaimed
<1>4. PICK S \in Oldest(rows, Due(rows, now) \ Leaseless) :
          outbox' = [i \in Jobs |-> IF i \in S THEN Claimed(rows[i], t, now) ELSE rows[i]]
  BY DEF ClaimBatch
<1>5. ASSUME j \in S
      PROVE  rows[j].status \in {"pending", "retry"} /\ rows[j].wait <= now
  BY <1>4, <1>5 DEF Oldest, Due
<1> HIDE DEF rows, now
<1>6. CASE Expired(outbox[j], now) /\ rows[j] = Requeued(outbox[j], now)
  <2>1. outbox[j].status = "claimed" /\ outbox[j].attempts > 0
    BY <1>2, <1>6 DEF Expired, RowOK
  <2>2. rows[j].status = "retry" => rows[j].wait > now
    <3>1. SUFFICES ASSUME rows[j].status = "retry" PROVE rows[j].wait > now
      OBVIOUS
    <3>2. ~(outbox[j].attempts >= MaxAttempts)
      BY <1>1, <1>2, <1>6, <2>1, <3>1, RequeuedRow, OutboxAssumption DEF Row
    <3>3. Backoff[outbox[j].attempts] \in 1 .. MaxBackoff
      BY <1>2, <2>1, <3>2, OutboxAssumption DEF Row
    <3>4. rows[j].wait = now + Backoff[outbox[j].attempts]
      BY <1>2, <1>6, <3>2, UnlockedRow DEF Requeued, Row
    <3> QED
      BY <1>1, <3>3, <3>4, OutboxAssumption
  <2>3. rows[j].status \in {"dead", "retry"} /\ rows[j].wait \in Int
    BY <1>1, <1>2, <1>6, <2>1, RequeuedRow DEF Row, Times
  <2>4. j \notin S
    BY <1>1, <1>5, <2>2, <2>3, OutboxAssumption
  <2>5. outbox'[j] = Requeued(outbox[j], now)
    BY <1>4, <1>6, <2>4
  <2> QED
    BY <1>1, <1>2, <2>1, <2>5, RequeuedStep
<1>7. CASE rows[j] = outbox[j]
  <2>1. CASE j \in S
    <3>1. outbox[j].attempts < MaxAttempts /\ outbox[j].status \in {"pending", "retry"}
      BY <1>2, <1>5, <1>7, <2>1 DEF RowOK
    <3>2. outbox'[j] = Claimed(outbox[j], t, now)
      BY <1>4, <1>7, <2>1
    <3>3. outbox'[j].status = "claimed" /\ outbox'[j].attempts = outbox[j].attempts + 1
      BY <1>1, <1>2, <3>1, <3>2, ClaimedRow
    <3> QED
      BY <3>1, <3>3 DEF RowStep, Open
  <2>2. CASE j \notin S
    BY <1>4, <1>7, <2>2 DEF RowStep
  <2> QED
    BY <2>1, <2>2
<1> QED
  BY <1>3, <1>6, <1>7

LEMMA HandleSteps ==
    ASSUME Inv, NEW t \in Ticks, NEW i \in Jobs, Handle(t, i), NEW j \in Jobs
    PROVE  RowStep(j, outbox[j], outbox'[j])
<1> USE DEF Inv
<1>1. outbox[j] \in Row /\ outbox \in [Jobs -> Row]
  BY DEF TypeOK
<1>2. ASSUME NEW row, Settle(t, i, row), Holds(t, i) => RowStep(i, outbox[i], row)
      PROVE  RowStep(j, outbox[j], outbox'[j])
  BY <1>1, <1>2 DEF Settle, RowStep
<1>3. CASE Complete(t, i)
  <2>1. Holds(t, i) => RowStep(i, outbox[i], [Unlocked(outbox[i]) EXCEPT !.status = "done"])
    BY HeldRow, UnlockedRow DEF RowStep, Open, Holds, Row
  <2> QED
    BY <1>2, <1>3, <2>1 DEF Complete
<1>4. CASE Fail(t, i)
  <2>1. Holds(t, i) => RowStep(i, outbox[i], Requeued(outbox[i], Now(t)))
    BY HeldRow, RequeuedStep DEF Holds
  <2> QED
    BY <1>2, <1>4, <2>1 DEF Fail
<1>5. CASE ReleaseUntil(t, i)
  <2>1. Holds(t, i) => RowStep(i, outbox[i], Released(outbox[i], Now(t)))
    BY HeldRow, ReleasedRow DEF RowStep, Open, Holds
  <2> QED
    BY <1>2, <1>5, <2>1 DEF ReleaseUntil
<1>6. CASE MarkDone(t, i)
  BY <1>1, <1>6 DEF MarkDone, RowStep, Open, Row
<1> QED
  BY <1>3, <1>4, <1>5, <1>6 DEF Handle

LEMMA NextSteps ==
    ASSUME Inv, [Next]_vars, NEW j \in Jobs
    PROVE  RowStep(j, outbox[j], outbox'[j])
<1>1. outbox[j] \in Row /\ RowOK(j, outbox[j]) /\ outbox \in [Jobs -> Row]
  BY DEF Inv, TypeOK, RowInv
<1>2. ASSUME NEW i \in Jobs, Enqueue(i) PROVE RowStep(j, outbox[j], outbox'[j])
  BY <1>1, <1>2 DEF Enqueue, NoRow, RowStep, Open
<1>3. CASE SchedulerReclaim
  <2>1. outbox' = Reclaimed(outbox, 0) /\ 0 \in -MaxTickAge .. 0
    BY <1>3, OutboxAssumption DEF SchedulerReclaim
  <2> QED
    BY <2>1, ReclaimSteps DEF Inv
<1>4. ASSUME NEW t \in Ticks, NEW age \in 0 .. MaxTickAge, ClaimLeaseless(t, age)
      PROVE  RowStep(j, outbox[j], outbox'[j])
  <2>1. PICK S \in Oldest(outbox, Due(outbox, -age) \cap Leaseless) :
          outbox' = [i \in Jobs |->
                        IF i \in S THEN ClaimedLeaseless(outbox[i]) ELSE outbox[i]]
    BY <1>4 DEF ClaimLeaseless
  <2>2. j \in S => outbox[j].status \in {"pending", "retry"}
    BY <2>1 DEF Oldest, Due
  <2>3. outbox'[j] = IF j \in S THEN ClaimedLeaseless(outbox[j]) ELSE outbox[j]
    BY <2>1
  <2>4. /\ ClaimedLeaseless(outbox[j]).status = "claimed"
        /\ ClaimedLeaseless(outbox[j]).attempts = outbox[j].attempts
    BY <1>1 DEF ClaimedLeaseless, Row
  <2> QED
    BY <2>2, <2>3, <2>4 DEF RowStep, Open
<1>5. ASSUME NEW t \in Ticks, NEW age \in 0 .. MaxTickAge, Claim(t, age)
      PROVE  RowStep(j, outbox[j], outbox'[j])
  BY <1>4, <1>5, ClaimBatchSteps DEF Inv, Claim
<1>6. CASE Advance
  BY <1>1, <1>6, AgedRow DEF Advance, RowStep
<1>7. CASE UNCHANGED outbox
  BY <1>7 DEF RowStep
<1> QED
  BY <1>2, <1>3, <1>5, <1>6, <1>7, HandleSteps DEF Next, Crash, vars

\* The outbox implements JobLifecycle: with any number of passes that are late,
\* stale or crashed, a job is tried at most MaxAttempts times, is dead only when
\* its attempts are used up, and is done or dead for good.
THEOREM Refinement == Spec => LifecycleSpec
<1>1. Init => Lifecycle!Init
  BY DEF Init, NoRow, Lifecycle!Init, Phase, Tries
<1>2. Inv /\ [Next]_vars => [Lifecycle!Next]_(Lifecycle!vars)
  BY NextSteps, RowStepImpliesJobNext DEF Lifecycle!Next
<1> QED
  BY <1>1, <1>2, Invariance, PTL DEF Spec, LifecycleSpec, Lifecycle!Spec

=============================================================================
