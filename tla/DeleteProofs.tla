----------------------------- MODULE DeleteProofs -----------------------------
(***************************************************************************)
(* Theorems about AccountDelete for every number of objects and every page *)
(* size, lease, backoff, attempt limit and length of a tick.               *)
(***************************************************************************)
EXTENDS AccountDelete, OutboxProofs, FiniteSetTheorems, WellFoundedInduction

-----------------------------------------------------------------------------
(* The inductive invariant. *)

OpenPasses == {t \in Ticks : tick[t].open}

\* A pass works exactly while its tick is open, and on the one job.
PassesAgree ==
    \A t \in Ticks :
        /\ work[t].at # "idle" <=> tick[t].open
        /\ tick[t].open => tick[t].batch = {Job}
        /\ work[t].at = "idle" => work[t] = NoWork

\* The attempts the deletion counts are claims of its job that have ended: each
\* open pass still has one to come, also when it has read the counter before.
AttemptsPaid ==
    /\ IsFiniteSet(OpenPasses)
    /\ deletion.attempts + Cardinality(OpenPasses) <= outbox[Job].attempts
    /\ \A t \in OpenPasses :
          work[t].attempts + Cardinality(OpenPasses) <= outbox[Job].attempts

JobInv == Inv /\ DeleteTypeOK /\ PassesAgree /\ AttemptsPaid

\* What a deletion must not leave: the objects that the worker can list, but
\* those put after a pass first read the deletion.
Left == IF SharedStorage THEN objects \ late ELSE {}

\* Of the objects S, none up to n is left.
Cleared(n, S) == \A o \in S : o > n

\* What a pass may rely on, whatever the others wrote since it read.
WorkOK(w, S) ==
    /\ Cleared(w.cursor, S)
    /\ w.at = "listed" /\ w.cursor = 0 => S = {}
    /\ w.at \in {"auth", "deleted", "residue"} => S = {}

\* What the row d and the user u say of the objects S.
StageOK(d, S, u) ==
    /\ Cleared(d.cursor, S)
    /\ d.status \in {"deleting_auth", "deleting_database", "completed"} => S = {}
    /\ d.status = "completed" => ~u
    /\ ~u => S = {}

ProgressInv ==
    /\ StageOK(deletion, Left, user)
    /\ \A t \in Ticks : WorkOK(work[t], Left)

Unread(d) == d.status \in {"none", "accepted"}

\* Until a pass has read the deletion nothing is gone, so that an object put by
\* then is one of those to be deleted.
UnreadInv ==
    Unread(deletion) =>
        /\ deletion.cursor = 0 /\ user
        /\ \A t \in Ticks : /\ work[t].at \in {"idle", "load", "failing"}
                           /\ work[t].cursor = 0

USE DEF stored

-----------------------------------------------------------------------------
(* Constants and sets of numbers. *)

LEMMA ConstantsTyped ==
    /\ Job \in Jobs /\ \A j \in Jobs : j = Job
    /\ Leaseless = {}
    /\ Objects \in Nat /\ PageSize \in Nat \ {0} /\ MaxTries \in Nat \ {0}
    /\ \A t \in Ticks : t # NoTick
  BY AccountDeleteAssumption, OutboxAssumption DEF MaxTries

LEMMA SmallestOf ==
    ASSUME NEW S \in SUBSET Nat, S # {}
    PROVE  \E x \in S : \A y \in S : x <= y
<1> DEFINE R == OpToRel(<, Nat)
<1>1. \A x, y \in Nat : y < x => <<y, x>> \in R
  BY DEF OpToRel
<1>2. IsWellFoundedOn(R, Nat)
  BY NatLessThanWellFounded
<1> HIDE DEF R
<1>3. PICK x \in S : \A y \in S : ~(<<y, x>> \in R)
  BY <1>2, WFMin
<1>4. \A y \in S : ~(y < x)
  BY <1>1, <1>3
<1> QED
  BY <1>4

LEMMA LargestOf ==
    ASSUME NEW S \in SUBSET (1 .. Objects), S # {}
    PROVE  \E x \in S : \A y \in S : y <= x
<1> DEFINE T == {Objects - x : x \in S}
<1>1. T \in SUBSET Nat /\ T # {}
  <2>1. \A x \in S : Objects - x \in Nat
    BY ConstantsTyped
  <2> QED
    BY <2>1
<1>2. PICK m \in T : \A y \in T : m <= y
  BY <1>1, SmallestOf
<1>3. PICK x \in S : m = Objects - x
  BY <1>2
<1>4. ASSUME NEW y \in S PROVE y <= x
  <2>1. Objects - y \in T
    OBVIOUS
  <2>2. Objects - x <= Objects - y
    BY <1>2, <1>3, <2>1
  <2> QED
    BY <2>2, ConstantsTyped
<1> QED
  BY <1>4

-----------------------------------------------------------------------------
(* A page and the cursor behind it. *)

LEMMA AfterTyped ==
    ASSUME objects \in SUBSET (1 .. Objects), NEW cursor \in 0 .. Objects
    PROVE  /\ After(cursor) \subseteq 1 .. Objects
           /\ \A o \in After(cursor) : o \in Nat
<1>1. \A o \in 1 .. Objects : o \in Nat
  BY ConstantsTyped
<1> QED
  BY <1>1 DEF After, Listed

LEMMA BeforeFinite ==
    ASSUME objects \in SUBSET (1 .. Objects), NEW cursor \in 0 .. Objects, NEW o
    PROVE  IsFiniteSet({p \in After(cursor) : p < o})
<1>1. IsFiniteSet(1 .. Objects)
  BY FS_Interval, ConstantsTyped
<1>2. {p \in After(cursor) : p < o} \in SUBSET (1 .. Objects)
  BY AfterTyped
<1> QED
  BY <1>1, <1>2, FS_Subset

\* The page comes before all that follows it.
LEMMA PageFirst ==
    ASSUME objects \in SUBSET (1 .. Objects), NEW cursor \in 0 .. Objects,
           NEW p \in Page(cursor), NEW o \in After(cursor) \ Page(cursor)
    PROVE  p < o
<1> SUFFICES ASSUME ~(p < o) PROVE FALSE
  OBVIOUS
<1> DEFINE Before(x) == {q \in After(cursor) : q < x}
<1>1. p \in 1 .. Objects /\ o \in 1 .. Objects /\ p \in After(cursor)
  BY AfterTyped DEF Page
<1>2. Before(o) \in SUBSET Before(p)
  <2>1. \A q \in After(cursor) : q \in Int
    BY AfterTyped
  <2>2. \A q \in After(cursor) : q < o => q < p
    BY <1>1, <2>1
  <2> QED
    BY <2>2
<1>3. IsFiniteSet(Before(p)) /\ IsFiniteSet(Before(o))
  BY BeforeFinite
<1>4. Cardinality(Before(o)) <= Cardinality(Before(p))
  BY <1>2, <1>3, FS_Subset
<1>5. Cardinality(Before(o)) \in Nat /\ Cardinality(Before(p)) \in Nat
  BY <1>3, FS_CardinalityType
<1>6. Cardinality(Before(p)) < PageSize /\ ~(Cardinality(Before(o)) < PageSize)
  BY DEF Page
<1> QED
  BY <1>4, <1>5, <1>6, ConstantsTyped

LEMMA PageNotEmpty ==
    ASSUME objects \in SUBSET (1 .. Objects), NEW cursor \in 0 .. Objects,
           After(cursor) # {}
    PROVE  Page(cursor) # {}
<1>1. \A o \in After(cursor) : o \in Nat
  BY AfterTyped
<1>2. PICK o \in After(cursor) : \A p \in After(cursor) : o <= p
  <2>1. After(cursor) \in SUBSET Nat
    BY <1>1
  <2> QED
    BY <2>1, SmallestOf
<1>3. {p \in After(cursor) : p < o} = {}
  BY <1>1, <1>2
<1>4. Cardinality({p \in After(cursor) : p < o}) = 0
  BY <1>3, FS_EmptySet
<1> QED
  BY <1>4, ConstantsTyped DEF Page

\* The cursor is 0 when nothing is left, and otherwise just before what is.
LEMMA NextCursorOK ==
    ASSUME objects \in SUBSET (1 .. Objects), NEW cursor \in 0 .. Objects
    PROVE  /\ NextCursor(cursor) \in 0 .. Objects
           /\ NextCursor(cursor) = 0 => After(cursor) = Page(cursor)
           /\ \A o \in After(cursor) \ Page(cursor) : o > NextCursor(cursor)
<1> DEFINE page == Page(cursor)
<1>1. page \in SUBSET (1 .. Objects) /\ After(cursor) \in SUBSET (1 .. Objects)
  BY AfterTyped DEF Page
<1>2. CASE After(cursor) = page
  <2>1. NextCursor(cursor) = 0
    BY <1>2 DEF NextCursor
  <2> QED
    BY <2>1, <1>2, ConstantsTyped
<1>3. CASE After(cursor) # page
  <2>1. page # {}
    BY <1>3, PageNotEmpty
  <2>2. \E o \in page : \A p \in page : p <= o
    BY <1>1, <2>1, LargestOf
  <2>3. NextCursor(cursor) \in page
    BY <1>3, <2>2 DEF NextCursor
  <2>4. \A o \in After(cursor) \ page : NextCursor(cursor) < o
    BY <2>3, PageFirst
  <2> QED
    BY <1>1, <2>3, <2>4, ConstantsTyped
<1> QED
  BY <1>2, <1>3

-----------------------------------------------------------------------------
(* The job, its passes and the attempts. *)

LEMMA JobTyped ==
    ASSUME JobInv
    PROVE  /\ outbox[Job] \in Row /\ outbox[Job].attempts \in 0 .. MaxTries
           /\ Cardinality(OpenPasses) \in Nat
           /\ deletion \in Deletion /\ work \in [Ticks -> Work]
           /\ objects \in SUBSET (1 .. Objects) /\ user \in BOOLEAN
           /\ promised \in SUBSET (1 .. Objects) /\ late \in SUBSET (1 .. Objects)
           /\ Left \in SUBSET (1 .. Objects)
           /\ \A t \in Ticks : t \in OpenPasses <=> work[t].at # "idle"
  BY ConstantsTyped, FS_CardinalityType
  DEF JobInv, Inv, TypeOK, DeleteTypeOK, PassesAgree, AttemptsPaid, OpenPasses, Row, MaxTries,
      Left

LEMMA SameLeft == ASSUME UNCHANGED stored PROVE Left' = Left
  BY DEF Left

\* A pass does something between its claim and its settlement.
LEMMA InnerStep ==
    ASSUME JobInv, NEW t \in Ticks, work[t].at # "idle", UNCHANGED vars,
           NEW w \in Work, w.at # "idle", work' = [work EXCEPT ![t] = w],
           w.attempts <= deletion.attempts \/ w.attempts = work[t].attempts,
           deletion' \in Deletion,
           \/ deletion'.attempts = deletion.attempts
           \/ deletion'.attempts = work[t].attempts,
           objects' \in SUBSET (1 .. Objects), UNCHANGED <<promised, late>>,
           user' \in BOOLEAN
    PROVE  JobInv'
<1> DEFINE n == Cardinality(OpenPasses)
<1>1. /\ outbox[Job].attempts \in 0 .. MaxTries /\ n \in Nat /\ t \in OpenPasses
      /\ deletion.attempts \in Nat /\ w.attempts \in Nat /\ work[t].attempts \in Nat
      /\ work \in [Ticks -> Work] /\ MaxTries \in Nat
  <2>1. MaxTries \in Nat
    BY ConstantsTyped
  <2> QED
    BY <2>1, JobTyped DEF Work, Deletion
<1>2. Inv' /\ OpenPasses' = OpenPasses
  BY DEF JobInv, vars, Inv, TypeOK, RowInv, PassInv, Holds, OpenPasses
<1>3. DeleteTypeOK'
  BY <1>1, <1>2 DEF JobInv, DeleteTypeOK, Inv
<1>4. PassesAgree'
  BY <1>1 DEF JobInv, PassesAgree, vars, OpenPasses
<1>5. AttemptsPaid'
  <2>1. /\ IsFiniteSet(OpenPasses)
        /\ deletion.attempts + n <= outbox[Job].attempts
        /\ \A u \in OpenPasses : work[u].attempts + n <= outbox[Job].attempts
    BY DEF JobInv, AttemptsPaid
  <2>2. w.attempts + n <= outbox[Job].attempts
    BY <1>1, <2>1
  <2>3. deletion'.attempts + n <= outbox[Job].attempts
    BY <1>1, <2>1
  <2>4. \A u \in OpenPasses : work'[u].attempts + n <= outbox[Job].attempts
    BY <1>1, <2>1, <2>2 DEF OpenPasses
  <2> QED
    BY <1>2, <2>1, <2>3, <2>4 DEF AttemptsPaid, vars
<1> QED
  BY <1>2, <1>3, <1>4, <1>5 DEF JobInv

\* A settlement ends the pass: its batch was the one job.
LEMMA SettleEnds ==
    ASSUME JobInv, NEW t \in Ticks, work[t].at # "idle", NEW row, Settle(t, Job, row)
    PROVE  /\ tick' = [tick EXCEPT ![t] = Idle]
           /\ outbox'[Job] = IF Holds(t, Job) THEN row ELSE outbox[Job]
           /\ OpenPasses' = OpenPasses \ {t} /\ t \in OpenPasses
<1>1. tick[t].open /\ tick[t].batch = {Job}
  BY DEF JobInv, PassesAgree
<1>2. tick' = [tick EXCEPT ![t] = Idle]
  BY <1>1 DEF Settle, Rest
<1>3. tick \in [Ticks -> Pass] /\ outbox \in [Jobs -> Row]
  BY DEF JobInv, Inv, TypeOK
<1>4. outbox'[Job] = IF Holds(t, Job) THEN row ELSE outbox[Job]
  BY <1>3, ConstantsTyped DEF Settle
<1>5. OpenPasses' = OpenPasses \ {t}
  BY <1>2, <1>3 DEF OpenPasses, Idle
<1> QED
  BY <1>1, <1>2, <1>4, <1>5 DEF OpenPasses

LEMMA ClosedPass ==
    ASSUME JobInv, NEW t \in Ticks, work[t].at # "idle", OpenPasses' = OpenPasses \ {t}
    PROVE  /\ IsFiniteSet(OpenPasses')
           /\ Cardinality(OpenPasses') = Cardinality(OpenPasses) - 1
<1>1. IsFiniteSet(OpenPasses) /\ t \in OpenPasses
  BY JobTyped DEF JobInv, AttemptsPaid
<1> QED
  BY <1>1, FS_RemoveElement

LEMMA NoWorkTyped == NoWork \in Work /\ NoWork.at = "idle"
  BY ConstantsTyped DEF NoWork, Work

LEMMA SettleStep ==
    ASSUME JobInv, NEW t \in Ticks, work[t].at # "idle", NEW row, Settle(t, Job, row),
           UNCHANGED more,
           Holds(t, Job) => /\ row \in Row /\ RowOK(Job, row) /\ row.lockedBy = NoTick
                            /\ outbox[Job].attempts <= row.attempts + 1,
           work' = [work EXCEPT ![t] = NoWork],
           deletion' \in Deletion,
           deletion'.attempts + Cardinality(OpenPasses) <= outbox'[Job].attempts + 1,
           UNCHANGED <<stored, user>>
    PROVE  JobInv'
<1> DEFINE n == Cardinality(OpenPasses)
<1>1. /\ Inv /\ outbox[Job] \in Row /\ outbox[Job].attempts \in 0 .. MaxTries /\ n \in Nat
      /\ work \in [Ticks -> Work] /\ MaxTries \in Nat
  <2>1. MaxTries \in Nat
    BY ConstantsTyped
  <2> QED
    BY <2>1, JobTyped DEF JobInv
<1>2. /\ outbox' \in [Jobs -> Row] /\ tick' \in [Ticks -> Pass] /\ RowInv'
      /\ \A u \in Ticks : PassInv(u)'
  BY <1>1, SettleInv, ConstantsTyped
<1>3. Inv'
  BY <1>1, <1>2 DEF Inv, TypeOK
<1>4. /\ tick' = [tick EXCEPT ![t] = Idle]
      /\ outbox'[Job] = IF Holds(t, Job) THEN row ELSE outbox[Job]
      /\ OpenPasses' = OpenPasses \ {t} /\ t \in OpenPasses
  BY SettleEnds
<1>5. IsFiniteSet(OpenPasses') /\ Cardinality(OpenPasses') = n - 1
  BY <1>4, ClosedPass
<1>6. outbox[Job].attempts <= outbox'[Job].attempts + 1 /\ outbox'[Job].attempts \in Nat
  BY <1>1, <1>4 DEF Row
<1>7. DeleteTypeOK'
  BY <1>1, <1>3, JobTyped, NoWorkTyped DEF DeleteTypeOK, Inv
<1>8. PassesAgree'
  <2>1. tick \in [Ticks -> Pass]
    BY <1>1 DEF Inv, TypeOK
  <2> QED
    BY <1>1, <1>4, <2>1, NoWorkTyped DEF JobInv, PassesAgree, Idle
<1>9. AttemptsPaid'
  <2>1. \A u \in OpenPasses : work[u].attempts + n <= outbox[Job].attempts
    BY DEF JobInv, AttemptsPaid
  <2>2. ASSUME NEW u \in OpenPasses'
        PROVE  work'[u].attempts + (n - 1) <= outbox'[Job].attempts
    <3>1. u \in OpenPasses /\ u \in Ticks /\ work'[u] = work[u] /\ work[u].attempts \in Nat
      BY <1>1, <1>4, <2>2 DEF OpenPasses, Work
    <3> QED
      BY <1>1, <1>6, <2>1, <3>1
  <2>3. deletion'.attempts + (n - 1) <= outbox'[Job].attempts
    BY <1>1, <1>6 DEF Deletion
  <2> QED
    BY <1>5, <2>2, <2>3 DEF AttemptsPaid
<1> QED
  BY <1>3, <1>7, <1>8, <1>9 DEF JobInv

\* The rows that the settlements write.
LEMMA DoneRow ==
    ASSUME JobInv, NEW t \in Ticks, Holds(t, Job)
    PROVE  LET row == [Unlocked(outbox[Job]) EXCEPT !.status = "done"]
           IN /\ row \in Row /\ RowOK(Job, row) /\ row.lockedBy = NoTick
              /\ row.attempts = outbox[Job].attempts
<1>1. outbox[Job] \in Row /\ outbox[Job].attempts > 0
  BY HeldRow, ConstantsTyped DEF JobInv
<1>2. /\ Unlocked(outbox[Job]) \in Row /\ Unlocked(outbox[Job]).lockedBy = NoTick
      /\ Unlocked(outbox[Job]).attempts = outbox[Job].attempts
  BY <1>1, UnlockedRow
<1> QED
  BY <1>2 DEF Row, RowOK, Statuses

LEMMA RetryRow ==
    ASSUME JobInv, NEW t \in Ticks, Holds(t, Job)
    PROVE  LET row == Requeued(outbox[Job], Now(t))
           IN /\ row \in Row /\ RowOK(Job, row) /\ row.lockedBy = NoTick
              /\ row.attempts = outbox[Job].attempts
<1>1. outbox[Job] \in Row /\ outbox[Job].attempts > 0 /\ Now(t) \in -MaxTickAge .. 0
  BY HeldRow, ConstantsTyped DEF JobInv
<1> QED
  BY <1>1, RequeuedRow DEF RowOK

LEMMA PageRow ==
    ASSUME JobInv, NEW t \in Ticks, Holds(t, Job)
    PROVE  LET row == Released(outbox[Job], Now(t))
           IN /\ row \in Row /\ RowOK(Job, row) /\ row.lockedBy = NoTick
              /\ row.attempts = outbox[Job].attempts - 1
<1>1. /\ outbox[Job] \in Row /\ outbox[Job].attempts \in 1 .. MaxAttempts
      /\ Now(t) \in -MaxTickAge .. 0 /\ outbox[Job].attempts > 0
  BY HeldRow, ConstantsTyped DEF JobInv
<1>2. /\ Released(outbox[Job], Now(t)) \in Row
      /\ Released(outbox[Job], Now(t)).status = "pending"
      /\ Released(outbox[Job], Now(t)).lockedBy = NoTick
      /\ Released(outbox[Job], Now(t)).attempts = outbox[Job].attempts - 1
  BY <1>1, ReleasedRow
<1> QED
  BY <1>1, <1>2, OutboxAssumption DEF RowOK

-----------------------------------------------------------------------------
(* The steps of the outbox. *)

LEMMA AcceptInv == ASSUME JobInv, Accept PROVE JobInv'
<1>1. /\ outbox[Job].status = "absent" /\ Enqueue(Job)
      /\ outbox' = [outbox EXCEPT ![Job] = [NoRow EXCEPT !.status = "pending"]]
      /\ tick' = tick /\ deletion.status = "none"
      /\ deletion' = [deletion EXCEPT !.status = "accepted"]
      /\ UNCHANGED <<stored, user, work>>
  BY DEF Accept, Enqueue
<1>2. Inv /\ Inv' /\ OpenPasses' = OpenPasses
  BY <1>1, EnqueueInv, ConstantsTyped DEF JobInv, OpenPasses
<1>3. outbox[Job].attempts = 0 /\ outbox'[Job].attempts = 0
  BY <1>1, <1>2, ConstantsTyped DEF Inv, TypeOK, RowInv, RowOK, NoRow
<1>4. deletion' \in Deletion /\ deletion'.attempts = deletion.attempts
  BY <1>1, JobTyped DEF Deletion
<1>5. DeleteTypeOK'
  BY <1>1, <1>2, <1>4, JobTyped DEF DeleteTypeOK, Inv
<1>6. PassesAgree' /\ AttemptsPaid'
  BY <1>1, <1>2, <1>3, <1>4 DEF JobInv, PassesAgree, AttemptsPaid, NoWork
<1> QED
  BY <1>2, <1>5, <1>6 DEF JobInv

LEMMA ReclaimDeleteInv == ASSUME JobInv, Reclaim PROVE JobInv'
<1>1. /\ SchedulerReclaim /\ outbox' = Reclaimed(outbox, 0) /\ tick' = tick
      /\ UNCHANGED <<deletion, stored, user, work>>
  BY DEF Reclaim, SchedulerReclaim
<1>2. Inv /\ Inv' /\ OpenPasses' = OpenPasses
  BY <1>1, ReclaimInv DEF JobInv, OpenPasses
<1>3. outbox'[Job].attempts = outbox[Job].attempts
  <2>1. 0 \in -MaxTickAge .. 0
    BY OutboxAssumption
  <2>2. \/ outbox'[Job] = outbox[Job]
        \/ Expired(outbox[Job], 0) /\ outbox'[Job] = Requeued(outbox[Job], 0)
    BY <1>1, <1>2, <2>1, ReclaimedRows, ConstantsTyped DEF Inv, TypeOK, RowInv
  <2>3. Expired(outbox[Job], 0) => outbox[Job] \in Row /\ outbox[Job].attempts > 0
    BY <1>2, ConstantsTyped DEF Inv, TypeOK, RowInv, RowOK, Expired
  <2> QED
    BY <2>1, <2>2, <2>3, RequeuedRow
<1>4. DeleteTypeOK'
  BY <1>1, <1>2 DEF JobInv, DeleteTypeOK, Inv
<1>5. PassesAgree' /\ AttemptsPaid'
  BY <1>1, <1>2, <1>3 DEF JobInv, PassesAgree, AttemptsPaid, NoWork
<1> QED
  BY <1>2, <1>4, <1>5 DEF JobInv

LEMMA ClaimDeleteMoves ==
    ASSUME JobInv, NEW t \in Ticks, ClaimDelete(t)
    PROVE  /\ Inv'
           /\ outbox'[Job].attempts = outbox[Job].attempts + 1
           /\ outbox[Job].status \in {"pending", "retry"} /\ outbox'[Job].status = "claimed"
           /\ tick'[t].open /\ tick'[t].batch = {Job}
           /\ \A u \in Ticks : u # t => tick'[u] = tick[u]
           /\ ~tick[t].open /\ Cardinality(OpenPasses) < Processes
           /\ work' = [work EXCEPT ![t].at = "load"]
           /\ UNCHANGED <<deletion, stored, user>>
<1>1. PICK age \in 0 .. MaxTickAge : ClaimBatch(t, age, FALSE)
  BY DEF ClaimDelete
<1>2. PICK S \in Oldest(outbox, Due(outbox, -age) \ Leaseless) :
          /\ S # {}
          /\ outbox' = [j \in Jobs |-> IF j \in S THEN Claimed(outbox[j], t, -age)
                                       ELSE outbox[j]]
          /\ tick' = Opened(t, age, S)
  BY <1>1 DEF ClaimBatch
<1>3. S = {Job} /\ outbox[Job].status \in {"pending", "retry"}
  BY <1>2, ConstantsTyped DEF Oldest, Due
<1>4. Inv'
  BY <1>1, ClaimBatchInv DEF JobInv
<1>5. outbox[Job] \in Row /\ outbox[Job].attempts < MaxAttempts /\ -age \in -MaxTickAge .. 0
  BY <1>3, ConstantsTyped, OutboxAssumption DEF JobInv, Inv, TypeOK, RowInv, RowOK
<1>6. outbox'[Job] = Claimed(outbox[Job], t, -age)
  BY <1>2, <1>3, ConstantsTyped
<1>7. outbox'[Job].attempts = outbox[Job].attempts + 1 /\ outbox'[Job].status = "claimed"
  BY <1>5, <1>6, ClaimedRow
<1>8. ~tick[t].open /\ Cardinality(OpenPasses) < Processes
  BY <1>1 DEF ClaimBatch, CanOpen, OpenPasses
<1>9. /\ tick'[t].open /\ tick'[t].batch = {Job}
      /\ \A u \in Ticks : u # t => tick'[u] = tick[u]
  BY <1>2, <1>3 DEF Opened, JobInv, Inv, TypeOK
<1> QED
  BY <1>3, <1>4, <1>7, <1>8, <1>9 DEF ClaimDelete

LEMMA ClaimDeleteInv ==
    ASSUME JobInv, NEW t \in Ticks, ClaimDelete(t)
    PROVE  /\ JobInv'
           /\ \E w \in Work : /\ w.at = "load" /\ w.cursor = 0
                              /\ work' = [work EXCEPT ![t] = w]
<1>1. /\ Inv' /\ outbox'[Job].attempts = outbox[Job].attempts + 1
      /\ tick'[t].open /\ tick'[t].batch = {Job}
      /\ \A u \in Ticks : u # t => tick'[u] = tick[u]
      /\ ~tick[t].open
      /\ work' = [work EXCEPT ![t].at = "load"]
      /\ UNCHANGED <<deletion, stored, user>>
  BY ClaimDeleteMoves
<1>2. work[t] = NoWork /\ work \in [Ticks -> Work]
  BY <1>1, JobTyped DEF JobInv, PassesAgree
<1>3. PICK w \in Work : /\ w.at = "load" /\ w.cursor = 0 /\ w.attempts = 0
                        /\ work' = [work EXCEPT ![t] = w]
  <2> DEFINE v == [at |-> "load", cursor |-> 0, attempts |-> 0]
  <2>1. v \in Work
    BY ConstantsTyped DEF Work
  <2>2. [NoWork EXCEPT !.at = "load"] = v
    BY DEF NoWork
  <2>3. work' = [work EXCEPT ![t] = v]
    BY <1>1, <1>2, <2>2
  <2> QED
    BY <2>1, <2>3
<1>4. OpenPasses' = OpenPasses \cup {t} /\ t \notin OpenPasses
  BY <1>1 DEF OpenPasses
<1>5. IsFiniteSet(OpenPasses)
  BY DEF JobInv, AttemptsPaid
<1>6. IsFiniteSet(OpenPasses') /\ Cardinality(OpenPasses') = Cardinality(OpenPasses) + 1
  BY <1>4, <1>5, FS_AddElement
<1>7. DeleteTypeOK'
  BY <1>1, <1>2, <1>3 DEF JobInv, DeleteTypeOK, Inv
<1>8. PassesAgree'
  <2> SUFFICES ASSUME NEW u \in Ticks
               PROVE  /\ work'[u].at # "idle" <=> tick'[u].open
                      /\ tick'[u].open => tick'[u].batch = {Job}
                      /\ work'[u].at = "idle" => work'[u] = NoWork
    BY DEF PassesAgree, NoWork
  <2>1. CASE u = t
    BY <2>1, <1>1, <1>2, <1>3
  <2>2. CASE u # t
    BY <2>2, <1>1, <1>2, <1>3 DEF JobInv, PassesAgree
  <2> QED
    BY <2>1, <2>2
<1>9. AttemptsPaid'
  <2> DEFINE n == Cardinality(OpenPasses)
             a == outbox[Job].attempts
  <2>1. /\ n \in Nat /\ a \in Nat /\ deletion.attempts \in Nat
        /\ \A u \in Ticks : work[u].attempts \in Nat
    BY JobTyped, ConstantsTyped DEF Deletion, Work
  <2>2. /\ deletion.attempts + n <= a
        /\ \A u \in OpenPasses : work[u].attempts + n <= a
    BY DEF JobInv, AttemptsPaid
  <2>3. deletion.attempts + (n + 1) <= a + 1
    BY <2>1, <2>2
  <2>4. ASSUME NEW u \in OpenPasses' PROVE work'[u].attempts + (n + 1) <= a + 1
    <3>1. CASE u = t
      BY <3>1, <1>2, <1>3, <2>1, <2>2
    <3>2. CASE u # t
      <4>1. u \in OpenPasses /\ u \in Ticks /\ work'[u] = work[u]
        BY <3>2, <1>2, <1>3, <1>4 DEF OpenPasses
      <4> QED
        BY <4>1, <2>1, <2>2
    <3> QED
      BY <3>1, <3>2
  <2> HIDE DEF n, a
  <2>5. Cardinality(OpenPasses') = n + 1 /\ outbox'[Job].attempts = a + 1
    BY <1>1, <1>6 DEF n, a
  <2> QED
    BY <1>1, <1>6, <2>3, <2>4, <2>5 DEF AttemptsPaid
<1> QED
  BY <1>1, <1>3, <1>7, <1>8, <1>9 DEF JobInv

LEMMA DeleteCrashInv ==
    ASSUME JobInv, NEW t \in Ticks, DeleteCrash(t)
    PROVE  JobInv' /\ work' = [work EXCEPT ![t] = NoWork]
<1>1. /\ Crash(t) /\ tick[t].open /\ tick' = [tick EXCEPT ![t] = Idle]
      /\ outbox' = outbox /\ work' = [work EXCEPT ![t] = NoWork]
      /\ UNCHANGED <<deletion, stored, user>>
  BY DEF DeleteCrash, Crash
<1>2. Inv /\ Inv' /\ tick \in [Ticks -> Pass] /\ work \in [Ticks -> Work]
  BY <1>1, CrashInv, JobTyped DEF JobInv, Inv, TypeOK
<1>3. OpenPasses' = OpenPasses \ {t} /\ work[t].at # "idle"
  BY <1>1, <1>2 DEF OpenPasses, Idle, JobInv, PassesAgree
<1>4. IsFiniteSet(OpenPasses') /\ Cardinality(OpenPasses') = Cardinality(OpenPasses) - 1
  BY <1>3, ClosedPass
<1>5. DeleteTypeOK'
  BY <1>1, <1>2, NoWorkTyped DEF JobInv, DeleteTypeOK, Inv
<1>6. PassesAgree'
  BY <1>1, <1>2, NoWorkTyped DEF JobInv, PassesAgree, Idle
<1>7. AttemptsPaid'
  <2> DEFINE n == Cardinality(OpenPasses)
             a == outbox[Job].attempts
  <2>1. /\ n \in Nat /\ a \in Nat /\ deletion.attempts \in Nat
        /\ \A u \in Ticks : work[u].attempts \in Nat
    BY JobTyped, ConstantsTyped DEF Deletion, Work
  <2>2. /\ deletion.attempts + n <= a
        /\ \A u \in OpenPasses : work[u].attempts + n <= a
    BY DEF JobInv, AttemptsPaid
  <2>3. \A u \in OpenPasses' : u \in OpenPasses /\ u \in Ticks /\ work'[u] = work[u]
    BY <1>1, <1>2, <1>3 DEF OpenPasses
  <2>4. deletion.attempts + (n - 1) <= a
    BY <2>1, <2>2
  <2>5. \A u \in OpenPasses' : work'[u].attempts + (n - 1) <= a
    BY <2>1, <2>2, <2>3
  <2> QED
    BY <1>1, <1>4, <2>4, <2>5 DEF AttemptsPaid
<1> QED
  BY <1>1, <1>2, <1>5, <1>6, <1>7 DEF JobInv

LEMMA DeleteAdvanceInv ==
    ASSUME JobInv, DeleteAdvance
    PROVE  /\ JobInv' /\ UNCHANGED <<deletion, stored, user, work>>
           /\ OpenPasses' = OpenPasses /\ outbox'[Job].status = outbox[Job].status
<1>1. /\ Advance /\ UNCHANGED <<deletion, stored, user, work>>
      /\ outbox' = [j \in Jobs |-> Aged(outbox[j])]
      /\ tick' = [t \in Ticks |-> IF tick[t].open THEN [tick[t] EXCEPT !.age = @ + 1]
                                 ELSE tick[t]]
  BY DEF DeleteAdvance, Advance
<1>2. Inv /\ Inv' /\ tick \in [Ticks -> Pass] /\ outbox[Job] \in Row
  BY <1>1, AdvanceInv, JobTyped DEF JobInv, Inv, TypeOK
<1>3. \A t \in Ticks : tick'[t].open = tick[t].open /\ tick'[t].batch = tick[t].batch
  BY <1>1, <1>2 DEF Pass
<1>4. /\ outbox'[Job].attempts = outbox[Job].attempts
      /\ outbox'[Job].status = outbox[Job].status
  <2>1. outbox'[Job] = Aged(outbox[Job])
    BY <1>1, ConstantsTyped
  <2> QED
    BY <1>2, <2>1 DEF Aged, Row
<1>5. OpenPasses' = OpenPasses
  BY <1>3 DEF OpenPasses
<1>6. DeleteTypeOK'
  BY <1>1, <1>2 DEF JobInv, DeleteTypeOK, Inv
<1>7. PassesAgree' /\ AttemptsPaid'
  BY <1>1, <1>3, <1>4, <1>5 DEF JobInv, PassesAgree, AttemptsPaid, NoWork
<1> QED
  BY <1>1, <1>2, <1>4, <1>5, <1>6, <1>7 DEF JobInv

-----------------------------------------------------------------------------
(* The steps of a pass. *)

LEMMA ProgressStep ==
    ASSUME ProgressInv, work \in [Ticks -> Work], NEW t \in Ticks, NEW w,
           Left' \subseteq Left, work' = [work EXCEPT ![t] = w],
           WorkOK(w, Left'), StageOK(deletion', Left', user')
    PROVE  ProgressInv'
<1>1. \A u \in Ticks : WorkOK(work[u], Left')
  BY DEF ProgressInv, WorkOK, Cleared
<1>2. \A u \in Ticks : WorkOK(work'[u], Left')
  BY <1>1
<1> QED
  BY <1>2 DEF ProgressInv

LEMMA ClearedFromZero ==
    ASSUME NEW S \in SUBSET (1 .. Objects) PROVE Cleared(0, S)
  BY ConstantsTyped DEF Cleared

LEMMA NoWorkOK == ASSUME NEW S \in SUBSET (1 .. Objects) PROVE WorkOK(NoWork, S)
  BY ClearedFromZero DEF WorkOK, NoWork

\* A pass that goes on to another place keeps what it has read.
LEMMA GotoMoves ==
    ASSUME JobInv, NEW t \in Ticks,
           NEW at \in {"load", "page", "listed", "auth", "deleted", "residue", "failing"},
           Goto(t, at)
    PROVE  \E w \in Work : /\ w.at = at /\ w.cursor = work[t].cursor
                           /\ w.attempts = work[t].attempts
                           /\ work' = [work EXCEPT ![t] = w]
<1> DEFINE w == [work[t] EXCEPT !.at = at]
<1>1. work[t] \in Work
  BY JobTyped
<1>2. w \in Work /\ w.at = at /\ w.cursor = work[t].cursor /\ w.attempts = work[t].attempts
  BY <1>1 DEF Work
<1>3. work' = [work EXCEPT ![t] = w]
  BY DEF Goto
<1> HIDE DEF w
<1> QED
  BY <1>2, <1>3

LEMMA SavedTyped ==
    ASSUME NEW status \in {"retry"} \cup Stages \cup Final, NEW cursor \in 0 .. Objects,
           NEW attempts \in 0 .. MaxTries, Saved(status, cursor, attempts)
    PROVE  /\ deletion' \in Deletion
           /\ deletion'.status = status /\ deletion'.cursor = cursor
           /\ deletion'.attempts = attempts
  BY DEF Saved, Deletion

LEMMA LoadInv ==
    ASSUME JobInv, ProgressInv, NEW t \in Ticks, Load(t)
    PROVE  JobInv' /\ ProgressInv'
<1> DEFINE stage == IF deletion.status \in Stages THEN deletion.status ELSE "deleting_storage"
           next == [deleting_storage |-> "page", deleting_auth |-> "auth",
                    deleting_database |-> "residue"]
           w == [at |-> next[stage], cursor |-> deletion.cursor,
                 attempts |-> deletion.attempts]
<1>1. /\ work[t].at = "load" /\ deletion.status \notin Final
      /\ deletion' = [deletion EXCEPT !.status = stage]
      /\ work' = [work EXCEPT ![t] = w]
      /\ UNCHANGED vars /\ UNCHANGED <<stored, user>>
  BY DEF Load
<1>2. /\ deletion \in Deletion /\ objects \in SUBSET (1 .. Objects) /\ user \in BOOLEAN
      /\ work \in [Ticks -> Work] /\ Left' = Left
  BY <1>1, JobTyped, SameLeft
<1>3. \/ stage = "deleting_storage" /\ next[stage] = "page"
      \/ stage = "deleting_auth" /\ next[stage] = "auth" /\ deletion.status = "deleting_auth"
      \/ /\ stage = "deleting_database" /\ next[stage] = "residue"
         /\ deletion.status = "deleting_database"
  BY DEF Stages
<1>4. /\ next[stage] \in {"page", "auth", "residue"}
      /\ stage \in Stages
      /\ next[stage] \in {"auth", "residue"} <=>
             deletion.status \in {"deleting_auth", "deleting_database"}
      /\ stage \in {"deleting_auth", "deleting_database"} =>
             deletion.status \in {"deleting_auth", "deleting_database"}
  BY <1>3 DEF Stages
<1> HIDE DEF next, stage
<1>5. w \in Work /\ w.at = next[stage] /\ w.cursor = deletion.cursor
      /\ w.attempts = deletion.attempts
  BY <1>2, <1>4 DEF Work, Deletion
<1>6. /\ deletion' \in Deletion /\ deletion'.attempts = deletion.attempts
      /\ deletion'.cursor = deletion.cursor /\ deletion'.status = stage
  BY <1>1, <1>2, <1>4 DEF Deletion
<1> HIDE DEF w
<1>7. JobInv'
  <2>1. work[t].at # "idle" /\ w.at # "idle" /\ UNCHANGED vars
    BY <1>1, <1>4, <1>5
  <2>2. /\ objects' \in SUBSET (1 .. Objects) /\ UNCHANGED <<promised, late>>
        /\ user' \in BOOLEAN
    BY <1>1, <1>2
  <2>3. /\ w.attempts <= deletion.attempts \/ w.attempts = work[t].attempts
        /\ deletion'.attempts = deletion.attempts \/ deletion'.attempts = work[t].attempts
    BY <1>2, <1>5, <1>6, ConstantsTyped DEF Deletion
  <2>4. w \in Work /\ deletion' \in Deletion /\ work' = [work EXCEPT ![t] = w]
    BY <1>1, <1>5, <1>6
  <2> QED
    BY <2>1, <2>2, <2>3, <2>4, InnerStep
<1>8. WorkOK(w, Left')
  BY <1>2, <1>4, <1>5 DEF ProgressInv, StageOK, WorkOK
<1>9. StageOK(deletion', Left', user')
  BY <1>1, <1>2, <1>4, <1>6 DEF ProgressInv, StageOK, Stages
<1> QED
  BY <1>1, <1>2, <1>7, <1>8, <1>9, ProgressStep

\* A pass that only moves on, with objects and user as they are.
LEMMA GotoInv ==
    ASSUME JobInv, ProgressInv, NEW t \in Ticks, work[t].at # "idle",
           NEW at \in {"load", "page", "auth", "deleted", "residue", "failing"}, Goto(t, at),
           UNCHANGED vars, UNCHANGED stored, user' \in BOOLEAN, user' => user,
           deletion' \in Deletion,
           \/ deletion'.attempts = deletion.attempts
           \/ deletion'.attempts = work[t].attempts,
           StageOK(deletion', Left, user'),
           at \in {"auth", "deleted", "residue"} => Left = {}
    PROVE  JobInv' /\ ProgressInv'
<1>1. /\ objects \in SUBSET (1 .. Objects) /\ work \in [Ticks -> Work] /\ Left' = Left
  BY JobTyped, SameLeft
<1>2. PICK w \in Work : /\ w.at = at /\ w.cursor = work[t].cursor
                        /\ w.attempts = work[t].attempts
                        /\ work' = [work EXCEPT ![t] = w]
  BY GotoMoves
<1>3. JobInv'
  BY <1>1, <1>2, InnerStep
<1>4. WorkOK(w, Left')
  BY <1>1, <1>2 DEF ProgressInv, WorkOK
<1> QED
  BY <1>1, <1>2, <1>3, <1>4, ProgressStep

LEMMA StepFailsInv ==
    ASSUME JobInv, ProgressInv, NEW t \in Ticks, StepFails(t) PROVE JobInv' /\ ProgressInv'
<1>1. /\ work[t].at # "idle" /\ Goto(t, "failing") /\ UNCHANGED vars
      /\ UNCHANGED <<deletion, stored, user>>
  BY DEF StepFails
<1>2. deletion \in Deletion /\ user \in BOOLEAN
  BY JobTyped
<1> QED
  BY <1>1, <1>2, GotoInv DEF ProgressInv

LEMMA SaveStorageDoneInv ==
    ASSUME JobInv, ProgressInv, NEW t \in Ticks, SaveStorageDone(t)
    PROVE  JobInv' /\ ProgressInv'
<1>1. /\ work[t].at = "listed" /\ work[t].cursor = 0
      /\ Saved("deleting_auth", 0, work[t].attempts)
      /\ Goto(t, "auth") /\ UNCHANGED vars /\ UNCHANGED <<stored, user>>
  BY DEF SaveStorageDone
<1>2. /\ user \in BOOLEAN
      /\ work[t].attempts \in 0 .. MaxTries /\ 0 \in 0 .. Objects
  BY JobTyped, ConstantsTyped DEF Work
<1>3. Left = {}
  BY <1>1 DEF ProgressInv, WorkOK
<1>4. /\ deletion' \in Deletion
      /\ deletion'.status = "deleting_auth" /\ deletion'.cursor = 0
      /\ deletion'.attempts = work[t].attempts
  BY <1>1, <1>2, SavedTyped DEF Stages
<1>5. StageOK(deletion', Left, user')
  BY <1>1, <1>3, <1>4 DEF StageOK, Cleared
<1> QED
  BY <1>1, <1>2, <1>3, <1>4, <1>5, GotoInv

LEMMA SaveUserDoneInv ==
    ASSUME JobInv, ProgressInv, NEW t \in Ticks, SaveUserDone(t)
    PROVE  JobInv' /\ ProgressInv'
<1>1. /\ work[t].at = "deleted" /\ Saved("deleting_database", 0, work[t].attempts)
      /\ Goto(t, "residue") /\ UNCHANGED vars /\ UNCHANGED <<stored, user>>
  BY DEF SaveUserDone
<1>2. /\ user \in BOOLEAN
      /\ work[t].attempts \in 0 .. MaxTries /\ 0 \in 0 .. Objects
  BY JobTyped, ConstantsTyped DEF Work
<1>3. Left = {}
  BY <1>1 DEF ProgressInv, WorkOK
<1>4. /\ deletion' \in Deletion
      /\ deletion'.status = "deleting_database" /\ deletion'.cursor = 0
      /\ deletion'.attempts = work[t].attempts
  BY <1>1, <1>2, SavedTyped DEF Stages
<1>5. StageOK(deletion', Left, user')
  BY <1>1, <1>3, <1>4 DEF StageOK, Cleared
<1> QED
  BY <1>1, <1>2, <1>3, <1>4, <1>5, GotoInv

LEMMA DeleteUserInv ==
    ASSUME JobInv, ProgressInv, NEW t \in Ticks, DeleteUser(t)
    PROVE  JobInv' /\ ProgressInv'
<1>1. /\ work[t].at = "auth" /\ ~user' /\ user' = FALSE
      /\ Goto(t, "deleted") /\ UNCHANGED vars /\ UNCHANGED <<deletion, stored>>
  BY DEF DeleteUser
<1>2. deletion \in Deletion /\ Left = {}
  BY <1>1, JobTyped DEF ProgressInv, WorkOK
<1>3. StageOK(deletion', Left, user')
  BY <1>1, <1>2 DEF ProgressInv, StageOK
<1> QED
  BY <1>1, <1>2, <1>3, GotoInv

LEMMA DeletePageInv ==
    ASSUME JobInv, ProgressInv, NEW t \in Ticks, DeletePage(t)
    PROVE  JobInv' /\ ProgressInv'
<1> DEFINE c == work[t].cursor
           n == NextCursor(c)
<1>1. /\ work[t].at = "page" /\ objects' = objects \ Page(c)
      /\ work' = [work EXCEPT ![t].at = "listed", ![t].cursor = n]
      /\ UNCHANGED vars /\ UNCHANGED <<deletion, promised, late, user>>
  BY DEF DeletePage
<1>2. /\ deletion \in Deletion /\ user \in BOOLEAN /\ objects \in SUBSET (1 .. Objects)
      /\ work \in [Ticks -> Work] /\ work[t] \in Work /\ c \in 0 .. Objects
  BY JobTyped DEF Work
<1>3. /\ n \in 0 .. Objects
      /\ n = 0 => After(c) = Page(c)
      /\ \A o \in After(c) \ Page(c) : o > n
  BY <1>2, NextCursorOK
<1>4. Cleared(c, Left)
  BY DEF ProgressInv, WorkOK
<1> HIDE DEF c, n
<1>5. PICK w \in Work : /\ w.at = "listed" /\ w.cursor = n
                        /\ w.attempts = work[t].attempts
                        /\ work' = [work EXCEPT ![t] = w]
  <2> DEFINE v == [work[t] EXCEPT !.at = "listed", !.cursor = n]
  <2>1. v \in Work /\ v.at = "listed" /\ v.cursor = n /\ v.attempts = work[t].attempts
    BY <1>2, <1>3 DEF Work
  <2>2. work' = [work EXCEPT ![t] = v]
    BY <1>1, <1>2
  <2> HIDE DEF v
  <2> QED
    BY <2>1, <2>2
<1>6. Left \subseteq After(c) /\ Left' = Left \ Page(c)
  BY <1>1, <1>4 DEF Cleared, After, Listed, Left
<1>7. /\ Left' \subseteq Left /\ objects' \in SUBSET (1 .. Objects)
      /\ n = 0 => Left' = {}
      /\ Cleared(n, Left')
  BY <1>1, <1>2, <1>3, <1>6 DEF Cleared
<1>8. JobInv'
  BY <1>1, <1>2, <1>5, <1>7, InnerStep
<1>9. WorkOK(w, Left')
  BY <1>5, <1>7 DEF WorkOK
<1>10. StageOK(deletion', Left', user')
  BY <1>1, <1>7 DEF ProgressInv, StageOK, Cleared
<1> QED
  BY <1>2, <1>5, <1>7, <1>8, <1>9, <1>10, ProgressStep

LEMMA DeletePageFailsInv ==
    ASSUME JobInv, ProgressInv, NEW t \in Ticks, DeletePageFails(t)
    PROVE  JobInv' /\ ProgressInv'
<1>1. /\ work[t].at = "page" /\ objects' \subseteq objects
      /\ Goto(t, "failing") /\ UNCHANGED vars
      /\ UNCHANGED <<deletion, promised, late, user>>
  BY DEF DeletePageFails
<1>2. /\ deletion \in Deletion /\ user \in BOOLEAN /\ objects \in SUBSET (1 .. Objects)
      /\ work \in [Ticks -> Work]
  BY JobTyped
<1>3. PICK w \in Work : /\ w.at = "failing" /\ w.cursor = work[t].cursor
                        /\ w.attempts = work[t].attempts
                        /\ work' = [work EXCEPT ![t] = w]
  BY <1>1, GotoMoves
<1>4. objects' \in SUBSET (1 .. Objects) /\ Left' \subseteq Left
  BY <1>1, <1>2 DEF Left
<1>5. JobInv'
  BY <1>1, <1>2, <1>3, <1>4, InnerStep
<1>6. WorkOK(w, Left')
  BY <1>1, <1>3, <1>4 DEF ProgressInv, WorkOK, Cleared
<1>7. StageOK(deletion', Left', user')
  BY <1>1, <1>4 DEF ProgressInv, StageOK, Cleared
<1> QED
  BY <1>2, <1>3, <1>4, <1>5, <1>6, <1>7, ProgressStep

-----------------------------------------------------------------------------
(* The steps that end a pass. *)

\* A pass that settles leaves objects and user as they are.
LEMMA SettledProgress ==
    ASSUME JobInv, ProgressInv, NEW t \in Ticks, work' = [work EXCEPT ![t] = NoWork],
           UNCHANGED <<stored, user>>, StageOK(deletion', Left, user)
    PROVE  ProgressInv'
<1>1. work \in [Ticks -> Work] /\ Left \in SUBSET (1 .. Objects) /\ Left' = Left
  BY JobTyped, SameLeft
<1>2. WorkOK(NoWork, Left')
  BY <1>1, NoWorkOK
<1> QED
  BY <1>1, <1>2, ProgressStep

LEMMA CompleteJobInv ==
    ASSUME JobInv, NEW t \in Ticks, work[t].at # "idle", CompleteJob(t), UNCHANGED more,
           deletion' \in Deletion,
           deletion'.attempts + Cardinality(OpenPasses) <= outbox[Job].attempts + 1,
           UNCHANGED <<stored, user>>
    PROVE  JobInv'
<1> DEFINE row == [Unlocked(outbox[Job]) EXCEPT !.status = "done"]
<1>1. Settle(t, Job, row) /\ work' = [work EXCEPT ![t] = NoWork]
  BY DEF CompleteJob
<1>2. outbox[Job].attempts \in Nat
  BY JobTyped, ConstantsTyped
<1>3. Holds(t, Job) => /\ row \in Row /\ RowOK(Job, row) /\ row.lockedBy = NoTick
                       /\ row.attempts = outbox[Job].attempts
  BY DoneRow
<1> HIDE DEF row
<1>4. outbox'[Job].attempts = outbox[Job].attempts
  BY <1>1, <1>3, SettleEnds
<1>5. Holds(t, Job) => /\ row \in Row /\ RowOK(Job, row) /\ row.lockedBy = NoTick
                       /\ outbox[Job].attempts <= row.attempts + 1
  BY <1>2, <1>3
<1>6. deletion'.attempts + Cardinality(OpenPasses) <= outbox'[Job].attempts + 1
  BY <1>4
<1> QED
  BY <1>1, <1>5, <1>6, SettleStep

LEMMA LoadFinalInv ==
    ASSUME JobInv, ProgressInv, NEW t \in Ticks, LoadFinal(t) PROVE JobInv' /\ ProgressInv'
<1>1. /\ work[t].at # "idle" /\ CompleteJob(t) /\ UNCHANGED more
      /\ UNCHANGED <<deletion, stored, user>>
  BY DEF LoadFinal
<1>2. /\ deletion \in Deletion /\ deletion.attempts \in Nat /\ outbox[Job].attempts \in Nat
      /\ Cardinality(OpenPasses) \in Nat
  BY JobTyped, ConstantsTyped DEF Deletion
<1>3. deletion.attempts + Cardinality(OpenPasses) <= outbox[Job].attempts
  BY DEF JobInv, AttemptsPaid
<1>4. JobInv'
  BY <1>1, <1>2, <1>3, CompleteJobInv
<1>5. ProgressInv'
  BY <1>1, SettledProgress DEF CompleteJob, ProgressInv
<1> QED
  BY <1>4, <1>5

LEMMA FinishInv ==
    ASSUME JobInv, ProgressInv, NEW t \in Ticks, Finish(t) PROVE JobInv' /\ ProgressInv'
<1>1. /\ work[t].at = "residue" /\ ~user /\ Saved("completed", 0, work[t].attempts)
      /\ CompleteJob(t) /\ UNCHANGED more /\ UNCHANGED <<stored, user>>
  BY DEF Finish
<1>2. /\ work[t].attempts \in 0 .. MaxTries /\ 0 \in 0 .. Objects /\ t \in OpenPasses
      /\ outbox[Job].attempts \in Nat /\ Cardinality(OpenPasses) \in Nat
      /\ work[t].attempts \in Nat
  BY <1>1, JobTyped, ConstantsTyped DEF Work
<1>3. work[t].attempts + Cardinality(OpenPasses) <= outbox[Job].attempts
  BY <1>2 DEF JobInv, AttemptsPaid
<1>4. /\ deletion' \in Deletion /\ deletion'.status = "completed" /\ deletion'.cursor = 0
      /\ deletion'.attempts = work[t].attempts
  BY <1>1, <1>2, SavedTyped DEF Final
<1>5. JobInv'
  BY <1>1, <1>2, <1>3, <1>4, CompleteJobInv
<1>6. Left = {}
  BY <1>1 DEF ProgressInv, WorkOK
<1>7. StageOK(deletion', Left, user)
  BY <1>1, <1>4, <1>6 DEF StageOK, Cleared
<1> QED
  BY <1>1, <1>5, <1>7, SettledProgress DEF CompleteJob

LEMMA SavePageInv ==
    ASSUME JobInv, ProgressInv, NEW t \in Ticks, SavePage(t) PROVE JobInv' /\ ProgressInv'
<1> DEFINE row == Released(outbox[Job], Now(t))
<1>1. /\ work[t].at = "listed" /\ Saved("deleting_storage", work[t].cursor, work[t].attempts)
      /\ Settle(t, Job, row) /\ work' = [work EXCEPT ![t] = NoWork]
      /\ UNCHANGED <<more, stored, user>>
  BY DEF SavePage
<1>2. /\ work[t].attempts \in 0 .. MaxTries /\ work[t].cursor \in 0 .. Objects
      /\ t \in OpenPasses
      /\ outbox[Job].attempts \in Nat /\ Cardinality(OpenPasses) \in Nat
      /\ work[t].attempts \in Nat
  BY <1>1, JobTyped, ConstantsTyped DEF Work
<1>3. work[t].attempts + Cardinality(OpenPasses) <= outbox[Job].attempts
  BY <1>2 DEF JobInv, AttemptsPaid
<1>4. /\ deletion' \in Deletion /\ deletion'.status = "deleting_storage"
      /\ deletion'.cursor = work[t].cursor /\ deletion'.attempts = work[t].attempts
  BY <1>1, <1>2, SavedTyped DEF Stages
<1>5. Holds(t, Job) => /\ row \in Row /\ RowOK(Job, row) /\ row.lockedBy = NoTick
                       /\ row.attempts = outbox[Job].attempts - 1
  BY PageRow
<1> HIDE DEF row
<1>6. outbox'[Job].attempts \in {outbox[Job].attempts, outbox[Job].attempts - 1}
  BY <1>1, <1>5, SettleEnds
<1>7. JobInv'
  <2>1. Holds(t, Job) => /\ row \in Row /\ RowOK(Job, row) /\ row.lockedBy = NoTick
                         /\ outbox[Job].attempts <= row.attempts + 1
    BY <1>2, <1>5
  <2>2. deletion'.attempts + Cardinality(OpenPasses) <= outbox'[Job].attempts + 1
    BY <1>2, <1>3, <1>4, <1>6
  <2>3. work[t].at # "idle" /\ UNCHANGED <<stored, user>>
    BY <1>1
  <2>4. /\ Settle(t, Job, row) /\ work' = [work EXCEPT ![t] = NoWork]
        /\ UNCHANGED more /\ deletion' \in Deletion
    BY <1>1, <1>4
  <2> QED
    BY <2>1, <2>2, <2>3, <2>4, SettleStep
<1>8. StageOK(deletion', Left, user)
  BY <1>4 DEF StageOK, ProgressInv, WorkOK
<1> QED
  BY <1>1, <1>7, <1>8, SettledProgress

LEMMA FailDeleteInv ==
    ASSUME JobInv, ProgressInv, NEW t \in Ticks, FailDelete(t) PROVE JobInv' /\ ProgressInv'
<1> DEFINE attempts == deletion.attempts + 1
           status == IF attempts >= MaxTries THEN "dead" ELSE "retry"
<1>1. /\ work[t].at = "failing" /\ Saved(status, deletion.cursor, attempts)
      /\ UNCHANGED more /\ UNCHANGED <<stored, user>>
      /\ attempts >= MaxTries => CompleteJob(t)
      /\ ~(attempts >= MaxTries) => /\ Settle(t, Job, Requeued(outbox[Job], Now(t)))
                                    /\ work' = [work EXCEPT ![t] = NoWork]
  BY DEF FailDelete
<1>2. /\ deletion \in Deletion /\ deletion.attempts \in Nat /\ deletion.cursor \in 0 .. Objects
      /\ t \in OpenPasses /\ IsFiniteSet(OpenPasses)
      /\ outbox[Job].attempts \in 0 .. MaxTries /\ Cardinality(OpenPasses) \in Nat
      /\ MaxTries \in Nat
  BY <1>1, JobTyped, ConstantsTyped DEF Deletion, JobInv, AttemptsPaid
<1>3. deletion.attempts + Cardinality(OpenPasses) <= outbox[Job].attempts
  BY DEF JobInv, AttemptsPaid
<1>4. Cardinality(OpenPasses) # 0
  BY <1>2, FS_EmptySet
<1>5. attempts \in 0 .. MaxTries /\ status \in {"retry"} \cup Stages \cup Final
  BY <1>2, <1>3, <1>4 DEF Final
<1>6. /\ deletion' \in Deletion /\ deletion'.status = status
      /\ deletion'.cursor = deletion.cursor /\ deletion'.attempts = attempts
  BY <1>1, <1>2, <1>5, SavedTyped
<1>7. attempts + Cardinality(OpenPasses) <= outbox[Job].attempts + 1
  BY <1>2, <1>3
<1>8. StageOK(deletion', Left, user)
  BY <1>6 DEF StageOK, ProgressInv
<1>9. CASE attempts >= MaxTries
  <2>1. CompleteJob(t)
    BY <1>1, <1>9
  <2> HIDE DEF attempts, status
  <2>2. JobInv'
    BY <1>1, <1>2, <1>6, <1>7, <2>1, CompleteJobInv
  <2> QED
    BY <1>1, <1>8, <2>1, <2>2, SettledProgress DEF CompleteJob
<1>10. CASE ~(attempts >= MaxTries)
  <2> DEFINE row == Requeued(outbox[Job], Now(t))
  <2>1. Settle(t, Job, row) /\ work' = [work EXCEPT ![t] = NoWork]
    BY <1>1, <1>10
  <2>2. Holds(t, Job) => /\ row \in Row /\ RowOK(Job, row) /\ row.lockedBy = NoTick
                         /\ row.attempts = outbox[Job].attempts
    BY RetryRow
  <2> HIDE DEF row, attempts, status
  <2>3. outbox'[Job].attempts = outbox[Job].attempts
    BY <1>1, <2>1, <2>2, SettleEnds
  <2>4. JobInv'
    <3>1. Holds(t, Job) => /\ row \in Row /\ RowOK(Job, row) /\ row.lockedBy = NoTick
                           /\ outbox[Job].attempts <= row.attempts + 1
      BY <1>2, <2>2
    <3>2. deletion'.attempts + Cardinality(OpenPasses) <= outbox'[Job].attempts + 1
      BY <1>6, <1>7, <2>3
    <3>3. work[t].at # "idle" /\ UNCHANGED <<stored, user>>
      BY <1>1
    <3>4. UNCHANGED more /\ deletion' \in Deletion
      BY <1>1, <1>6
    <3> QED
      BY <2>1, <3>1, <3>2, <3>3, <3>4, SettleStep
  <2> QED
    BY <1>1, <1>8, <2>1, <2>4, SettledProgress
<1> QED
  BY <1>9, <1>10

-----------------------------------------------------------------------------
(* The steps of the requests from before the deletion. *)

LEMMA RequestJobInv ==
    ASSUME JobInv, UNCHANGED <<vars, deletion, user, work>>,
           objects' \in SUBSET (1 .. Objects), promised' \in SUBSET (1 .. Objects),
           late' \in SUBSET (1 .. Objects)
    PROVE  JobInv'
<1>1. UNCHANGED vars /\ UNCHANGED <<deletion, user, work>>
  OBVIOUS
<1> QED
  BY <1>1 DEF JobInv, vars, Inv, TypeOK, RowInv, PassInv, DeleteTypeOK, PassesAgree,
              NoWork, AttemptsPaid, OpenPasses

\* What is put before a pass has read the deletion is after every cursor; what is
\* put later need not go.
LEMMA PutPromisedInv ==
    ASSUME JobInv, ProgressInv, UnreadInv, NEW o \in 1 .. Objects, PutPromised(o)
    PROVE  JobInv' /\ ProgressInv'
<1>1. /\ deletion.status # "none" /\ objects' = objects \cup {o}
      /\ late' = IF deletion.status = "accepted" THEN late ELSE late \cup {o}
      /\ UNCHANGED vars /\ UNCHANGED <<deletion, promised, user, work>>
  BY DEF PutPromised
<1>2. /\ objects \in SUBSET (1 .. Objects) /\ promised \in SUBSET (1 .. Objects)
      /\ late \in SUBSET (1 .. Objects)
  BY JobTyped
<1>3. JobInv'
  BY <1>1, <1>2, RequestJobInv
<1>4. CASE deletion.status = "accepted"
  <2>1. /\ deletion.cursor = 0 /\ user
        /\ \A t \in Ticks : work[t].at \in {"idle", "load", "failing"} /\ work[t].cursor = 0
    BY <1>4 DEF UnreadInv, Unread
  <2>2. Left' \in SUBSET (1 .. Objects)
    BY <1>1, <1>2 DEF Left
  <2>3. Cleared(0, Left')
    BY <2>2, ClearedFromZero
  <2>4. StageOK(deletion', Left', user')
    BY <1>1, <1>4, <2>1, <2>3 DEF StageOK
  <2>5. \A t \in Ticks : WorkOK(work'[t], Left')
    BY <1>1, <2>1, <2>3 DEF WorkOK
  <2> QED
    BY <1>3, <2>4, <2>5 DEF ProgressInv
<1>5. CASE deletion.status # "accepted"
  <2>1. Left' \subseteq Left
    BY <1>1, <1>5 DEF Left
  <2>2. StageOK(deletion', Left', user')
    BY <1>1, <2>1 DEF ProgressInv, StageOK, Cleared
  <2>3. \A t \in Ticks : WorkOK(work'[t], Left')
    BY <1>1, <2>1 DEF ProgressInv, WorkOK, Cleared
  <2> QED
    BY <1>3, <2>2, <2>3 DEF ProgressInv
<1> QED
  BY <1>4, <1>5

LEMMA PromiseEndsInv ==
    ASSUME JobInv, ProgressInv, NEW o \in 1 .. Objects, PromiseEnds(o)
    PROVE  JobInv' /\ ProgressInv'
<1>1. /\ promised' = promised \ {o} /\ UNCHANGED vars
      /\ UNCHANGED <<deletion, objects, late, user, work>>
  BY DEF PromiseEnds
<1>2. /\ objects \in SUBSET (1 .. Objects) /\ promised \in SUBSET (1 .. Objects)
      /\ late \in SUBSET (1 .. Objects)
  BY JobTyped
<1>3. JobInv' /\ Left' = Left
  BY <1>1, <1>2, RequestJobInv DEF Left
<1> QED
  BY <1>1, <1>3 DEF ProgressInv

-----------------------------------------------------------------------------
(* Every step, whatever the number of processes. *)

\* Nothing is read or deleted: only the row may change, and a pass begin.
LEMMA QuietProgress ==
    ASSUME JobInv, ProgressInv, UNCHANGED <<stored, user>>,
           StageOK(deletion', Left, user),
           \A t \in Ticks : WorkOK(work'[t], Left)
    PROVE  ProgressInv'
  BY SameLeft DEF ProgressInv

LEMMA OutboxStepsInv ==
    ASSUME JobInv, ProgressInv,
           \/ Accept \/ Reclaim \/ DeleteAdvance
           \/ \E t \in Ticks : ClaimDelete(t) \/ DeleteCrash(t)
    PROVE  JobInv' /\ ProgressInv'
<1> USE DEF ProgressInv
<1>1. CASE Accept
  <2>1. /\ UNCHANGED <<stored, user, work>>
        /\ deletion' = [deletion EXCEPT !.status = "accepted"]
    BY <1>1 DEF Accept
  <2>2. deletion \in Deletion
    BY JobTyped
  <2>3. deletion'.status = "accepted" /\ deletion'.cursor = deletion.cursor
    BY <2>1, <2>2 DEF Deletion
  <2>4. StageOK(deletion', Left, user)
    BY <2>3 DEF StageOK
  <2>5. \A t \in Ticks : WorkOK(work'[t], Left)
    BY <2>1
  <2> QED
    BY <1>1, <2>1, <2>4, <2>5, AcceptInv, QuietProgress
<1>2. CASE Reclaim
  <2>1. UNCHANGED <<deletion, stored, user, work>>
    BY <1>2 DEF Reclaim
  <2>2. /\ StageOK(deletion', Left, user)
        /\ \A t \in Ticks : WorkOK(work'[t], Left)
    BY <2>1
  <2> QED
    BY <1>2, <2>1, <2>2, ReclaimDeleteInv, QuietProgress
<1>3. CASE DeleteAdvance
  <2>1. JobInv' /\ UNCHANGED <<deletion, stored, user, work>>
    BY <1>3, DeleteAdvanceInv
  <2>2. /\ StageOK(deletion', Left, user)
        /\ \A t \in Ticks : WorkOK(work'[t], Left)
    BY <2>1
  <2> QED
    BY <2>1, <2>2, QuietProgress
<1>4. ASSUME NEW t \in Ticks, ClaimDelete(t) PROVE JobInv' /\ ProgressInv'
  <2>1. /\ UNCHANGED <<deletion, stored, user>>
        /\ work \in [Ticks -> Work] /\ Left \in SUBSET (1 .. Objects)
    BY <1>4, JobTyped DEF ClaimDelete
  <2>2. PICK w \in Work : /\ w.at = "load" /\ w.cursor = 0
                          /\ work' = [work EXCEPT ![t] = w]
    BY <1>4, ClaimDeleteInv
  <2>3. WorkOK(w, Left)
    BY <2>1, <2>2, ClearedFromZero DEF WorkOK
  <2>4. \A u \in Ticks : WorkOK(work'[u], Left)
    BY <2>1, <2>2, <2>3
  <2>5. StageOK(deletion', Left, user)
    BY <2>1
  <2> QED
    BY <1>4, <2>1, <2>4, <2>5, ClaimDeleteInv, QuietProgress
<1>5. ASSUME NEW t \in Ticks, DeleteCrash(t) PROVE JobInv' /\ ProgressInv'
  <2>1. /\ UNCHANGED <<deletion, stored, user>>
        /\ work' = [work EXCEPT ![t] = NoWork]
    BY <1>5 DEF DeleteCrash
  <2>2. StageOK(deletion', Left, user)
    BY <2>1
  <2> QED
    BY <1>5, <2>1, <2>2, DeleteCrashInv, SettledProgress
<1> QED
  BY <1>1, <1>2, <1>3, <1>4, <1>5

LEMMA RunInv ==
    ASSUME JobInv, ProgressInv, NEW t \in Ticks, Run(t) PROVE JobInv' /\ ProgressInv'
  BY LoadFinalInv, LoadInv, DeletePageInv, DeletePageFailsInv, SavePageInv,
     SaveStorageDoneInv, DeleteUserInv, SaveUserDoneInv, FinishInv, StepFailsInv,
     FailDeleteInv
  DEF Run

LEMMA DeleteIdleInv ==
    ASSUME JobInv, ProgressInv, UNCHANGED deleteVars PROVE JobInv' /\ ProgressInv'
<1>1. UNCHANGED <<deletion, stored, user, work>> /\ UNCHANGED vars
  BY DEF deleteVars
<1>2. JobInv'
  BY <1>1 DEF JobInv, vars, Inv, TypeOK, RowInv, PassInv, DeleteTypeOK, PassesAgree,
              NoWork, AttemptsPaid, OpenPasses
<1> QED
  BY <1>1, <1>2, SameLeft DEF ProgressInv

\* Until a pass reads the row there are only enqueueing, claims and passes that
\* die or fail before they have read anything.
LEMMA UnreadNext ==
    ASSUME JobInv, UnreadInv, [DeleteNext]_deleteVars PROVE UnreadInv'
<1> SUFFICES ASSUME Unread(deletion')
             PROVE  /\ deletion'.cursor = 0 /\ user'
                    /\ \A t \in Ticks : /\ work'[t].at \in {"idle", "load", "failing"}
                                       /\ work'[t].cursor = 0
  BY DEF UnreadInv, Unread
<1>1. /\ deletion \in Deletion /\ work \in [Ticks -> Work]
      /\ NoWork.at = "idle" /\ NoWork.cursor = 0
  BY JobTyped DEF NoWork
<1>2. CASE Accept
  <2>1. /\ deletion.status = "none" /\ deletion' = [deletion EXCEPT !.status = "accepted"]
        /\ UNCHANGED <<user, work>>
    BY <1>2 DEF Accept
  <2>2. deletion'.cursor = deletion.cursor
    BY <1>1, <2>1 DEF Deletion
  <2> QED
    BY <2>1, <2>2 DEF UnreadInv, Unread
<1>3. CASE \/ UNCHANGED deleteVars \/ Reclaim \/ DeleteAdvance
           \/ \E o \in 1 .. Objects : PutPromised(o) \/ PromiseEnds(o)
  <2>1. UNCHANGED <<deletion, user, work>>
    BY <1>3 DEF deleteVars, Reclaim, DeleteAdvance, PutPromised, PromiseEnds
  <2> QED
    BY <2>1 DEF UnreadInv, Unread
<1>4. ASSUME NEW t \in Ticks, ClaimDelete(t)
      PROVE  UnreadInv'
  <2>1. PICK w \in Work : /\ w.at = "load" /\ w.cursor = 0
                          /\ work' = [work EXCEPT ![t] = w]
    BY <1>4, ClaimDeleteInv
  <2>2. UNCHANGED <<deletion, user>>
    BY <1>4 DEF ClaimDelete
  <2> QED
    BY <1>1, <2>1, <2>2 DEF UnreadInv, Unread
<1>5. ASSUME NEW t \in Ticks, DeleteCrash(t)
      PROVE  UnreadInv'
  <2>1. work' = [work EXCEPT ![t] = NoWork] /\ UNCHANGED <<deletion, user>>
    BY <1>5 DEF DeleteCrash
  <2> QED
    BY <1>1, <2>1 DEF UnreadInv, Unread
<1>6. ASSUME NEW t \in Ticks, Run(t)
      PROVE  UnreadInv'
  <2>1. CASE Load(t)
    <3>1. deletion'.status \in Stages
      BY <1>1, <2>1 DEF Load, Stages, Deletion
    <3> QED
      BY <3>1 DEF UnreadInv, Unread, Stages
  <2>2. CASE LoadFinal(t)
    BY <2>2 DEF LoadFinal, UnreadInv, Unread, Final
  <2>3. CASE \/ DeletePage(t) \/ DeletePageFails(t) \/ DeleteUser(t)
    <3>1. deletion' = deletion /\ work[t].at \in {"page", "auth"}
      BY <2>3 DEF DeletePage, DeletePageFails, DeleteUser
    <3> QED
      BY <3>1 DEF UnreadInv, Unread
  <2>4. CASE \/ SavePage(t) \/ SaveStorageDone(t) \/ SaveUserDone(t) \/ Finish(t)
             \/ FailDelete(t)
    <3>1. deletion'.status \in {"retry", "dead", "completed"} \cup Stages
      BY <2>4 DEF SavePage, SaveStorageDone, SaveUserDone, Finish, FailDelete, Saved, Stages
    <3> QED
      BY <3>1 DEF UnreadInv, Unread, Stages
  <2>5. CASE StepFails(t)
    <3>1. Goto(t, "failing") /\ UNCHANGED <<deletion, user>>
      BY <2>5 DEF StepFails
    <3>2. PICK w \in Work : /\ w.at = "failing" /\ w.cursor = work[t].cursor
                            /\ work' = [work EXCEPT ![t] = w]
      BY <3>1, GotoMoves
    <3> QED
      BY <1>1, <3>1, <3>2 DEF UnreadInv, Unread
  <2> QED
    BY <1>6, <2>1, <2>2, <2>3, <2>4, <2>5 DEF Run
<1> QED
  BY <1>2, <1>3, <1>4, <1>5, <1>6 DEF DeleteNext, UnreadInv

LEMMA DeleteNextInv ==
    ASSUME JobInv, ProgressInv, UnreadInv, [DeleteNext]_deleteVars
    PROVE  JobInv' /\ ProgressInv' /\ UnreadInv'
  BY OutboxStepsInv, RunInv, PutPromisedInv, PromiseEndsInv, DeleteIdleInv, UnreadNext
  DEF DeleteNext

LEMMA DeleteInitInv == DeleteInit => JobInv /\ ProgressInv /\ UnreadInv
<1> SUFFICES ASSUME DeleteInit PROVE JobInv /\ ProgressInv /\ UnreadInv
  OBVIOUS
<1>1. /\ Init /\ deletion = [status |-> "none", cursor |-> 0, attempts |-> 0]
      /\ objects \in SUBSET (1 .. Objects) /\ promised \in SUBSET (1 .. Objects)
      /\ late = {} /\ user = TRUE /\ work = [t \in Ticks |-> NoWork]
  BY DEF DeleteInit
<1>2. Inv
  BY <1>1, InitInv
<1>3. deletion \in Deletion
  BY <1>1, ConstantsTyped DEF Deletion
<1>4. DeleteTypeOK
  BY <1>1, <1>2, <1>3, NoWorkTyped DEF DeleteTypeOK, Inv
<1>5. \A t \in Ticks : ~tick[t].open
  BY <1>1 DEF Init, Idle
<1>6. PassesAgree
  BY <1>1, <1>5, NoWorkTyped DEF PassesAgree
<1>7. OpenPasses = {} /\ outbox[Job].attempts = 0
  BY <1>1, <1>5, ConstantsTyped DEF OpenPasses, Init, NoRow
<1>8. IsFiniteSet(OpenPasses) /\ Cardinality(OpenPasses) = 0
  BY <1>7, FS_EmptySet
<1>9. AttemptsPaid
  BY <1>1, <1>7, <1>8 DEF AttemptsPaid
<1>10. ProgressInv
  <2>1. Cleared(0, Left) /\ WorkOK(NoWork, Left)
    <3>1. Left \in SUBSET (1 .. Objects)
      BY <1>1 DEF Left
    <3> QED
      BY <3>1, ClearedFromZero, NoWorkOK
  <2> QED
    BY <1>1, <2>1 DEF ProgressInv, StageOK
<1>11. UnreadInv
  BY <1>1 DEF UnreadInv, NoWork
<1> QED
  BY <1>2, <1>4, <1>6, <1>9, <1>10, <1>11 DEF JobInv

LEMMA DeleteInvariant == DeleteSpec => [](JobInv /\ ProgressInv /\ UnreadInv)
  BY DeleteInitInv, DeleteNextInv, PTL DEF DeleteSpec

\* Whatever worker processes there are, however late, stale or repeated their
\* passes and wherever they die, and whatever requests from before the deletion
\* put meanwhile: where the worker has the api's storages, every object stored
\* when a pass first reads the deletion is gone before the auth user is deleted
\* (services/account_delete.py deletes page by page and only then calls the
\* admin), a deletion is only completed when both are, and it counts no more
\* failures than its job was claimed, so no more than max_attempts.  Without the
\* api's storages this says nothing of the objects.
THEOREM ObjectsFirst ==
    DeleteSpec => [](DeleteTypeOK /\ StorageBeforeAuth /\ CompletedIsGone)
<1>1. JobInv /\ ProgressInv => DeleteTypeOK /\ StorageBeforeAuth /\ CompletedIsGone
  BY DEF JobInv, ProgressInv, StageOK, Left, StorageBeforeAuth, CompletedIsGone
<1> QED
  BY <1>1, DeleteInvariant, PTL

-----------------------------------------------------------------------------
(* One worker process. *)

\* One worker is deployed (compose.prod.yaml:41-46), it awaits one tick after the
\* other (app/worker.py:25-41), and a tick has one pass of this consumer.
OneWorker == Processes = 1

\* Once the job is done the deletion is over, and no pass is left that could
\* write the row again.
OverInv ==
    /\ \A t, u \in OpenPasses : t = u
    /\ outbox[Job].status = "done" => deletion.status \in Final /\ OpenPasses = {}

\* While a pass runs, the job is not done; when it ends, none is open.
LEMMA OnlyPass ==
    ASSUME JobInv, OverInv, NEW t \in Ticks, work[t].at # "idle"
    PROVE  /\ OpenPasses = {t} /\ outbox[Job].status # "done"
           /\ OpenPasses' = OpenPasses \ {t} => OpenPasses' = {}
<1>1. t \in OpenPasses
  BY JobTyped
<1> QED
  BY <1>1 DEF OverInv

LEMMA SettleOver ==
    ASSUME JobInv, OverInv, NEW t \in Ticks, work[t].at # "idle", NEW row,
           Settle(t, Job, row),
           Holds(t, Job) /\ row.status = "done" => deletion'.status \in Final
    PROVE  OverInv'
<1>1. /\ outbox'[Job] = IF Holds(t, Job) THEN row ELSE outbox[Job]
      /\ OpenPasses' = OpenPasses \ {t}
  BY SettleEnds
<1>2. OpenPasses' = {} /\ outbox[Job].status # "done"
  BY <1>1, OnlyPass
<1> QED
  BY <1>1, <1>2 DEF OverInv

LEMMA InnerOver ==
    ASSUME JobInv, OverInv, NEW t \in Ticks, work[t].at # "idle", UNCHANGED vars
    PROVE  OverInv'
<1>1. OpenPasses' = OpenPasses /\ outbox' = outbox
  BY DEF vars, OpenPasses
<1>2. outbox[Job].status # "done"
  BY OnlyPass
<1> QED
  BY <1>1, <1>2 DEF OverInv

LEMMA RunOver ==
    ASSUME JobInv, OverInv, NEW t \in Ticks, Run(t) PROVE OverInv'
<1>1. CASE \/ Load(t) \/ DeletePage(t) \/ DeletePageFails(t) \/ SaveStorageDone(t)
           \/ DeleteUser(t) \/ SaveUserDone(t) \/ StepFails(t)
  <2>1. work[t].at # "idle" /\ UNCHANGED vars
    BY <1>1 DEF Load, DeletePage, DeletePageFails, SaveStorageDone, DeleteUser,
                SaveUserDone, StepFails
  <2> QED
    BY <2>1, InnerOver
<1>2. CASE LoadFinal(t)
  <2>1. /\ work[t].at # "idle" /\ deletion'.status \in Final
        /\ Settle(t, Job, [Unlocked(outbox[Job]) EXCEPT !.status = "done"])
    BY <1>2 DEF LoadFinal, CompleteJob
  <2> QED
    BY <2>1, SettleOver
<1>3. CASE Finish(t)
  <2>1. /\ work[t].at # "idle" /\ deletion'.status \in Final
        /\ Settle(t, Job, [Unlocked(outbox[Job]) EXCEPT !.status = "done"])
    BY <1>3 DEF Finish, CompleteJob, Saved, Final
  <2> QED
    BY <2>1, SettleOver
<1>4. CASE SavePage(t)
  <2> DEFINE row == Released(outbox[Job], Now(t))
  <2>1. work[t].at # "idle" /\ Settle(t, Job, row)
    BY <1>4 DEF SavePage
  <2>2. row.status # "done"
    <3>1. outbox[Job] \in Row
      BY JobTyped
    <3> QED
      BY <3>1 DEF Released, Unlocked, Row
  <2> HIDE DEF row
  <2> QED
    BY <2>1, <2>2, SettleOver
<1>5. CASE FailDelete(t)
  <2> DEFINE attempts == deletion.attempts + 1
  <2>1. work[t].at # "idle"
    BY <1>5 DEF FailDelete
  <2>2. CASE attempts >= MaxTries
    <3>1. /\ deletion'.status \in Final
          /\ Settle(t, Job, [Unlocked(outbox[Job]) EXCEPT !.status = "done"])
      BY <1>5, <2>2 DEF FailDelete, CompleteJob, Saved, Final
    <3> QED
      BY <2>1, <3>1, SettleOver
  <2>3. CASE ~(attempts >= MaxTries)
    <3> DEFINE row == Requeued(outbox[Job], Now(t))
    <3>1. Settle(t, Job, row)
      BY <1>5, <2>3 DEF FailDelete
    <3>2. Holds(t, Job) => row.status # "done"
      <4>1. Holds(t, Job) => /\ outbox[Job] \in Row /\ outbox[Job].attempts > 0
                             /\ Now(t) \in -MaxTickAge .. 0
        BY HeldRow, ConstantsTyped DEF JobInv
      <4> QED
        BY <4>1, RequeuedRow
    <3> HIDE DEF row
    <3> QED
      BY <2>1, <3>1, <3>2, SettleOver
  <2> QED
    BY <2>2, <2>3
<1> QED
  BY <1>1, <1>2, <1>3, <1>4, <1>5 DEF Run

LEMMA OutboxStepsOver ==
    ASSUME OneWorker, JobInv, OverInv,
           \/ Accept \/ Reclaim \/ DeleteAdvance
           \/ \E t \in Ticks : ClaimDelete(t) \/ DeleteCrash(t)
    PROVE  OverInv'
<1>1. CASE Accept
  <2>1. OpenPasses' = OpenPasses /\ outbox'[Job].status = "pending"
    BY <1>1, ConstantsTyped
    DEF Accept, Enqueue, OpenPasses, JobInv, Inv, TypeOK, NoRow
  <2> QED
    BY <2>1 DEF OverInv
<1>2. CASE Reclaim
  <2>1. /\ outbox' = Reclaimed(outbox, 0) /\ tick' = tick /\ deletion' = deletion
    BY <1>2 DEF Reclaim, SchedulerReclaim
  <2>2. OpenPasses' = OpenPasses
    BY <2>1 DEF OpenPasses
  <2>3. outbox'[Job].status = "done" => outbox[Job].status = "done"
    <3>1. outbox'[Job] = IF Expired(outbox[Job], 0) THEN Requeued(outbox[Job], 0)
                         ELSE outbox[Job]
      BY <2>1, ConstantsTyped DEF Reclaimed
    <3>2. Expired(outbox[Job], 0) => outbox[Job] \in Row /\ outbox[Job].attempts > 0
      BY ConstantsTyped DEF JobInv, Inv, TypeOK, RowInv, RowOK, Expired
    <3>3. 0 \in -MaxTickAge .. 0
      BY OutboxAssumption
    <3> QED
      BY <3>1, <3>2, <3>3, RequeuedRow
  <2> QED
    BY <2>1, <2>2, <2>3 DEF OverInv
<1>3. CASE DeleteAdvance
  <2>1. /\ OpenPasses' = OpenPasses /\ outbox'[Job].status = outbox[Job].status
        /\ deletion' = deletion
    BY <1>3, DeleteAdvanceInv
  <2> QED
    BY <2>1 DEF OverInv
<1>4. ASSUME NEW t \in Ticks, ClaimDelete(t) PROVE OverInv'
  <2>1. /\ outbox'[Job].status = "claimed" /\ Cardinality(OpenPasses) < Processes
        /\ \A u \in Ticks : u # t => tick'[u] = tick[u]
    BY <1>4, ClaimDeleteMoves
  <2>2. OpenPasses = {}
    <3>1. IsFiniteSet(OpenPasses) /\ Cardinality(OpenPasses) \in Nat
      BY JobTyped DEF JobInv, AttemptsPaid
    <3>2. Cardinality(OpenPasses) = 0
      BY <2>1, <3>1 DEF OneWorker
    <3> QED
      BY <3>1, <3>2, FS_EmptySet
  <2>3. \A u \in OpenPasses' : u = t
    BY <2>1, <2>2 DEF OpenPasses
  <2> QED
    BY <2>1, <2>3 DEF OverInv
<1>5. ASSUME NEW t \in Ticks, DeleteCrash(t) PROVE OverInv'
  <2>1. /\ tick[t].open /\ tick' = [tick EXCEPT ![t] = Idle] /\ outbox' = outbox
    BY <1>5 DEF DeleteCrash, Crash
  <2>2. outbox[Job].status # "done"
    BY <2>1, OnlyPass DEF JobInv, PassesAgree
  <2>3. OpenPasses' \subseteq OpenPasses
    BY <2>1 DEF OpenPasses, JobInv, Inv, TypeOK, Idle
  <2> QED
    BY <2>1, <2>2, <2>3 DEF OverInv
<1> QED
  BY <1>1, <1>2, <1>3, <1>4, <1>5

LEMMA RequestsOver ==
    ASSUME OverInv, NEW o, PutPromised(o) \/ PromiseEnds(o) PROVE OverInv'
<1>1. OpenPasses' = OpenPasses /\ outbox' = outbox /\ deletion' = deletion
  BY DEF PutPromised, PromiseEnds, vars, OpenPasses
<1> QED
  BY <1>1 DEF OverInv

LEMMA DeleteNextOver ==
    ASSUME OneWorker, JobInv, OverInv, [DeleteNext]_deleteVars PROVE OverInv'
<1>1. CASE UNCHANGED deleteVars
  <2>1. OpenPasses' = OpenPasses /\ outbox' = outbox /\ deletion' = deletion
    BY <1>1 DEF deleteVars, vars, OpenPasses
  <2> QED
    BY <2>1 DEF OverInv
<1>2. CASE DeleteNext
  BY <1>2, OutboxStepsOver, RunOver, RequestsOver DEF DeleteNext
<1> QED
  BY <1>1, <1>2

LEMMA DeleteInitOver == DeleteInit => OverInv
<1> SUFFICES ASSUME DeleteInit PROVE OverInv
  OBVIOUS
<1>1. OpenPasses = {} /\ outbox[Job].status = "absent"
  BY ConstantsTyped DEF DeleteInit, Init, Idle, NoRow, OpenPasses
<1> QED
  BY <1>1 DEF OverInv

\* With one worker the row, its job, the stored objects and the auth user agree
\* at every moment: what is more than ObjectsFirst is that the job is not done
\* before the deletion is over, although the claim does not fence the row.
THEOREM DeletionAgrees == ASSUME OneWorker PROVE DeleteSpec => []DeleteInv
<1>1. OneWorker
  OBVIOUS
<1>2. DeleteInit => JobInv /\ ProgressInv /\ UnreadInv /\ OverInv
  BY DeleteInitInv, DeleteInitOver
<1>3. JobInv /\ ProgressInv /\ UnreadInv /\ OverInv /\ [DeleteNext]_deleteVars
      => (JobInv /\ ProgressInv /\ UnreadInv /\ OverInv)'
  BY <1>1, DeleteNextInv, DeleteNextOver
<1>4. JobInv /\ ProgressInv /\ OverInv => DeleteInv
  BY DEF JobInv, ProgressInv, OverInv, StageOK, Left, DeleteInv, StorageBeforeAuth,
         CompletedIsGone, DoneMeansFinal
<1> QED
  BY <1>2, <1>3, <1>4, PTL DEF DeleteSpec
=============================================================================
