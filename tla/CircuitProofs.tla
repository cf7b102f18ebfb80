---------------------------- MODULE CircuitProofs ----------------------------
(***************************************************************************)
(* Theorems about CircuitBreaker for every set of calls, window, open      *)
(* time, number of retries and bound.                                      *)
(***************************************************************************)
EXTENDS CircuitBreaker, FiniteSetTheorems, TLAPS

-----------------------------------------------------------------------------
(* Types. *)

Sample == [age: 0 .. Window + 1, ok: BOOLEAN]

\* A call that sleeps has a retry left.
SleepersRetry ==
    \A c \in Calls : call[c].at = "sleep" => call[c].retries < RetryCount

TypeInv == CircuitTypeOK /\ SleepersRetry

\* The half-open slots, when there is one of them and no call lasts as long as a
\* circuit stays open.

\* Who was admitted before the circuit opened is older than the opening.
OthersAreOlder ==
    openFor # NotOpen =>
        \A c \in Calls : call[c].at # "idle" /\ ~call[c].probe =>
            openFor + call[c].age >= OpenTime

\* There is at most one probe, it is a first attempt, and it holds the slot.
ProbeHolds ==
    \A c \in Calls : call[c].probe =>
        /\ call[c].at = "attempt" /\ call[c].retries = 0
        /\ inflight = 1
        /\ \A d \in Calls : call[d].probe => d = c

\* The slot is held in a circuit whose time has run out, and only an attempt
\* that was never recorded holds it without running.
SlotInHalfOpen ==
    inflight > 0 => openFor = 0 /\ (escaped \/ \E c \in Calls : call[c].probe)

HalfOpenInv == TypeInv /\ OthersAreOlder /\ ProbeHolds /\ SlotInHalfOpen

-----------------------------------------------------------------------------
(* What allow and record do. *)

LEMMA ConstantsTyped ==
    /\ NotOpen \notin Nat
    /\ Window \in Nat \ {0} /\ OpenTime \in Nat \ {0} /\ HalfOpenMax \in Nat \ {0}
    /\ MaxCall \in Nat \ {0} /\ RetryCount \in Nat
  BY CircuitAssumption

LEMMA PrunedTyped ==
    ASSUME NEW s \in Seq(Sample)
    PROVE  Pruned(s) \in Seq(Sample)
<1> DEFINE stale == {i \in 1 .. Len(s) : \A j \in 1 .. i : s[j].age > Window}
<1>1. IsFiniteSet(1 .. Len(s))
  BY FS_Interval
<1>2. IsFiniteSet(stale)
  BY <1>1, FS_Subset
<1>3. Cardinality(stale) \in Nat
  BY <1>2, FS_CardinalityType
<1>4. Pruned(s) = SubSeq(s, Cardinality(stale) + 1, Len(s))
  BY DEF Pruned
<1> HIDE DEF stale
<1>5. ASSUME NEW k \in Nat
      PROVE  SubSeq(s, k + 1, Len(s)) \in Seq(Sample)
  OBVIOUS
<1> QED
  BY <1>3, <1>4, <1>5

LEMMA RecordTyped ==
    ASSUME CircuitTypeOK, NEW ok \in BOOLEAN, Record(ok)
    PROVE  /\ samples' \in Seq(Sample)
           /\ openFor' \in {NotOpen} \cup 0 .. OpenTime
           /\ inflight' \in 0 .. HalfOpenMax
<1>1. /\ samples \in Seq(Sample)
      /\ openFor \in {NotOpen} \cup 0 .. OpenTime
      /\ inflight \in 0 .. HalfOpenMax
  BY DEF CircuitTypeOK, Sample
<1>2. [age |-> 0, ok |-> ok] \in Sample
  BY ConstantsTyped DEF Sample
<1>3. Append(samples, [age |-> 0, ok |-> ok]) \in Seq(Sample)
  BY <1>1, <1>2
<1>4. samples' \in Seq(Sample)
  BY <1>3, PrunedTyped DEF Record
<1>5. openFor' \in {openFor, NotOpen, OpenTime} /\ inflight' \in {inflight, 0, inflight - 1}
  BY DEF Record
<1>6. inflight' = inflight - 1 => inflight > 0 \/ inflight' = inflight
  BY <1>1 DEF Record
<1> QED
  BY <1>1, <1>4, <1>5, <1>6, ConstantsTyped

\* What record does to a circuit that has a probe, and to one that has none.
LEMMA RecordMoves ==
    ASSUME CircuitTypeOK, NEW ok \in BOOLEAN, Record(ok)
    PROVE  /\ inflight > 0 /\ ok => openFor' = NotOpen /\ inflight' = 0
           /\ inflight > 0 /\ ~ok => openFor' = OpenTime /\ inflight' = inflight - 1
           /\ ~(inflight > 0) => openFor' \in {openFor, OpenTime} /\ inflight' = inflight
  BY DEF Record

CallRecords == [at: {"idle", "attempt", "sleep"}, retries: 0 .. RetryCount,
                age: 0 .. MaxCall, probe: BOOLEAN]

LEMMA AttemptRecord ==
    ASSUME NEW r \in CallRecords, NEW n \in 0 .. RetryCount, NEW p \in BOOLEAN
    PROVE  LET x == [r EXCEPT !.at = "attempt", !.retries = n, !.probe = p]
           IN /\ x \in CallRecords
              /\ x.at = "attempt" /\ x.retries = n /\ x.age = r.age /\ x.probe = p
  BY DEF CallRecords

LEMMA SleepRecord ==
    ASSUME NEW r \in CallRecords
    PROVE  LET x == [r EXCEPT !.at = "sleep", !.probe = FALSE]
           IN /\ x \in CallRecords
              /\ x.at = "sleep" /\ x.retries = r.retries /\ x.age = r.age /\ ~x.probe
  BY DEF CallRecords

LEMMA OlderRecord ==
    ASSUME NEW r \in CallRecords, NEW n
    PROVE  [r EXCEPT !.age = n]
           = [at |-> r.at, retries |-> r.retries, age |-> n, probe |-> r.probe]
  BY DEF CallRecords

\* What allow does to the call that asked and to the slots.
LEMMA AskMoves ==
    ASSUME CircuitTypeOK, NEW c \in Calls, NEW n \in 0 .. RetryCount, Ask(c, n)
    PROVE  /\ samples' \in Seq(Sample)
           /\ openFor' = openFor /\ escaped' = escaped
           /\ \E r \in CallRecords :
                 /\ call' = [call EXCEPT ![c] = r]
                 /\ \/ /\ openFor = NotOpen /\ inflight' = inflight
                       /\ r.at = "attempt" /\ ~r.probe
                    \/ /\ openFor = 0 /\ inflight < HalfOpenMax /\ inflight' = inflight + 1
                       /\ r.at = "attempt" /\ r.retries = n /\ r.probe
                    \/ inflight' = inflight /\ r = Quiet
<1>1. samples \in Seq(Sample) /\ call[c] \in CallRecords
  BY DEF CircuitTypeOK, Sample, CallRecords
<1>2. samples' \in Seq(Sample) /\ openFor' = openFor /\ escaped' = escaped
  BY <1>1, PrunedTyped DEF Ask
<1> DEFINE x(p) == [call[c] EXCEPT !.at = "attempt", !.retries = n, !.probe = p]
<1>3. /\ x(TRUE) \in CallRecords
      /\ x(TRUE).at = "attempt" /\ x(TRUE).retries = n /\ x(TRUE).probe
  BY <1>1, AttemptRecord
<1>4. x(FALSE) \in CallRecords /\ x(FALSE).at = "attempt" /\ ~x(FALSE).probe
  BY <1>1, AttemptRecord
<1>5. CASE openFor = NotOpen
  <2>1. call' = [call EXCEPT ![c] = x(FALSE)]
    BY <1>5 DEF Ask, Admits
  <2>2. inflight' = inflight
    BY <1>5 DEF Ask, Admits
  <2> HIDE DEF x
  <2> QED
    BY <2>1, <2>2, <1>2, <1>4, <1>5
<1>6. CASE openFor # NotOpen /\ openFor = 0 /\ inflight < HalfOpenMax
  <2>1. call' = [call EXCEPT ![c] = x(TRUE)]
    BY <1>6 DEF Ask, Admits
  <2>2. inflight' = inflight + 1
    BY <1>6 DEF Ask, Admits
  <2> HIDE DEF x
  <2> QED
    BY <2>1, <2>2, <1>2, <1>3, <1>6
<1>7. CASE ~Admits
  <2>1. call' = [call EXCEPT ![c] = Quiet] /\ inflight' = inflight
    BY <1>7 DEF Ask
  <2>2. Quiet \in CallRecords
    BY ConstantsTyped DEF Quiet, CallRecords
  <2> QED
    BY <2>1, <2>2, <1>2
<1> QED
  BY <1>5, <1>6, <1>7 DEF Admits

-----------------------------------------------------------------------------
(* Types. *)

LEMMA CallsTyped ==
    ASSUME CircuitTypeOK
    PROVE  /\ call \in [Calls -> CallRecords]
           /\ Quiet \in CallRecords
  BY ConstantsTyped DEF CircuitTypeOK, Quiet, CallRecords

LEMMA AskTyped ==
    ASSUME TypeInv, NEW c \in Calls, NEW n \in 0 .. RetryCount, Ask(c, n)
    PROVE  TypeInv'
<1>1. CircuitTypeOK
  BY DEF TypeInv
<1>2. PICK r \in CallRecords :
          /\ samples' \in Seq(Sample) /\ openFor' = openFor /\ escaped' = escaped
          /\ call' = [call EXCEPT ![c] = r]
          /\ r.at = "attempt" \/ r = Quiet
          /\ \/ inflight' = inflight
             \/ inflight < HalfOpenMax /\ inflight' = inflight + 1
  BY <1>1, AskMoves
<1>3. inflight' \in 0 .. HalfOpenMax /\ r.at # "sleep"
  BY <1>1, <1>2, ConstantsTyped DEF CircuitTypeOK, Quiet
<1>4. CircuitTypeOK'
  BY <1>1, <1>2, <1>3, CallsTyped DEF CircuitTypeOK, Sample, CallRecords
<1>5. SleepersRetry'
  BY <1>1, <1>2, <1>3, CallsTyped DEF CallRecords, SleepersRetry, TypeInv
<1> QED
  BY <1>4, <1>5 DEF TypeInv

\* An attempt that ends and is recorded.
LEMMA RecordTypeInv ==
    ASSUME TypeInv, NEW c \in Calls, NEW ok \in BOOLEAN, Record(ok), UNCHANGED escaped,
           NEW r \in CallRecords, r.at = "sleep" => r.retries < RetryCount,
           call' = [call EXCEPT ![c] = r]
    PROVE  TypeInv'
<1>1. CircuitTypeOK
  BY DEF TypeInv
<1>2. CircuitTypeOK'
  BY <1>1, RecordTyped, CallsTyped DEF CircuitTypeOK, Sample, CallRecords
<1>3. SleepersRetry'
  BY <1>1, CallsTyped DEF CallRecords, SleepersRetry, TypeInv
<1> QED
  BY <1>2, <1>3 DEF TypeInv

\* An attempt that ends and is not.
LEMMA QuietTypeInv ==
    ASSUME TypeInv, NEW c \in Calls, call' = [call EXCEPT ![c] = Quiet],
           UNCHANGED <<samples, openFor, inflight>>, escaped' \in BOOLEAN
    PROVE  TypeInv'
<1>1. CircuitTypeOK
  BY DEF TypeInv
<1>2. CircuitTypeOK'
  BY <1>1, CallsTyped DEF CircuitTypeOK, CallRecords
<1>3. SleepersRetry'
  BY <1>1, CallsTyped DEF CallRecords, SleepersRetry, TypeInv, Quiet
<1> QED
  BY <1>2, <1>3 DEF TypeInv

\* The record of a call that failed and will try again.
LEMMA SleepingCall ==
    ASSUME CircuitTypeOK, NEW c \in Calls
    PROVE  LET r == [call[c] EXCEPT !.at = "sleep", !.probe = FALSE]
           IN /\ r \in CallRecords
              /\ r.at = "sleep" /\ r.retries = call[c].retries /\ r.age = call[c].age
              /\ ~r.probe
              /\ [call EXCEPT ![c].at = "sleep", ![c].probe = FALSE] = [call EXCEPT ![c] = r]
<1> DEFINE r == [call[c] EXCEPT !.at = "sleep", !.probe = FALSE]
<1>1. call \in [Calls -> CallRecords] /\ call[c] \in CallRecords
  BY CallsTyped
<1>2. /\ r \in CallRecords
      /\ r.at = "sleep" /\ r.retries = call[c].retries /\ r.age = call[c].age /\ ~r.probe
  BY <1>1, SleepRecord
<1>3. [call EXCEPT ![c].at = "sleep", ![c].probe = FALSE] = [call EXCEPT ![c] = r]
  BY <1>1
<1> QED
  BY <1>2, <1>3

\* How each call and the rest of the circuit are after a second.
LEMMA SecondMoves ==
    ASSUME CircuitTypeOK, Second
    PROVE  /\ \A c \in Calls : call[c].at = "idle" => call'[c] = call[c]
           /\ \A c \in Calls : call[c].at # "idle" =>
                 /\ call[c].age < MaxCall
                 /\ call'[c] = [at |-> call[c].at, retries |-> call[c].retries,
                                age |-> call[c].age + 1, probe |-> call[c].probe]
           /\ openFor' = IF openFor \in {NotOpen, 0} THEN openFor ELSE openFor - 1
           /\ inflight' = inflight /\ escaped' = escaped
<1>1. /\ \A c \in Calls : call[c].at # "idle" => call[c].age < MaxCall
      /\ call' = [c \in Calls |-> IF call[c].at = "idle" THEN call[c]
                                  ELSE [call[c] EXCEPT !.age = @ + 1]]
      /\ openFor' = IF openFor \in {NotOpen, 0} THEN openFor ELSE openFor - 1
      /\ inflight' = inflight /\ escaped' = escaped
  BY DEF Second
<1>2. \A c \in Calls : [call[c] EXCEPT !.age = @ + 1]
                        = [at |-> call[c].at, retries |-> call[c].retries,
                           age |-> call[c].age + 1, probe |-> call[c].probe]
  <2>1. \A c \in Calls : call[c] \in CallRecords
    BY CallsTyped
  <2> QED
    BY <2>1, OlderRecord
<1> QED
  BY <1>1, <1>2

LEMMA SecondTypeInv == ASSUME TypeInv, Second PROVE TypeInv'
<1>1. CircuitTypeOK
  BY DEF TypeInv
<1>2. samples' \in Seq(Sample)
  <2>1. samples \in Seq(Sample)
    BY <1>1 DEF CircuitTypeOK, Sample
  <2>2. /\ DOMAIN samples = 1 .. Len(samples) /\ Len(samples) \in Nat
        /\ \A i \in DOMAIN samples : samples[i] \in Sample
    BY <2>1
  <2>3. \A x \in Sample : [x EXCEPT !.age = IF @ > Window THEN @ ELSE @ + 1] \in Sample
    BY ConstantsTyped DEF Sample
  <2>4. samples' \in [1 .. Len(samples) -> Sample]
    BY <2>2, <2>3 DEF Second
  <2> QED
    BY <2>2, <2>4
<1>3. openFor' \in {NotOpen} \cup 0 .. OpenTime
  <2>1. openFor \in {NotOpen} \cup 0 .. OpenTime
    BY <1>1 DEF CircuitTypeOK
  <2>2. openFor' = IF openFor \in {NotOpen, 0} THEN openFor ELSE openFor - 1
    BY DEF Second
  <2> QED
    BY <2>1, <2>2, ConstantsTyped
<1>4. call' \in [Calls -> CallRecords]
  <2>1. call' = [c \in Calls |-> call'[c]]
    BY DEF Second
  <2>2. ASSUME NEW c \in Calls
        PROVE  call'[c] \in CallRecords
    <3>1. call[c] \in CallRecords
      BY <1>1, CallsTyped
    <3>2. CASE call[c].at = "idle"
      BY <3>1, <3>2, <1>1, SecondMoves
    <3>3. CASE call[c].at # "idle"
      <4>1. /\ call[c].age < MaxCall
            /\ call'[c] = [at |-> call[c].at, retries |-> call[c].retries,
                           age |-> call[c].age + 1, probe |-> call[c].probe]
        BY <3>3, <1>1, SecondMoves
      <4>2. call[c].age + 1 \in 0 .. MaxCall
        BY <3>1, <4>1, ConstantsTyped DEF CallRecords
      <4> QED
        BY <3>1, <4>1, <4>2 DEF CallRecords
    <3> QED
      BY <3>2, <3>3
  <2> QED
    BY <2>1, <2>2
<1>5. CircuitTypeOK'
  BY <1>1, <1>2, <1>3, <1>4, SecondMoves DEF CircuitTypeOK, Sample, CallRecords
<1>6. SleepersRetry'
  <2> SUFFICES ASSUME NEW c \in Calls, call'[c].at = "sleep"
               PROVE  call'[c].retries < RetryCount
    BY DEF SleepersRetry
  <2>1. CASE call[c].at = "idle"
    BY <2>1, <1>1, SecondMoves
  <2>2. CASE call[c].at # "idle"
    <3>1. call'[c] = [at |-> call[c].at, retries |-> call[c].retries,
                      age |-> call[c].age + 1, probe |-> call[c].probe]
      BY <2>2, <1>1, SecondMoves
    <3> QED
      BY <3>1 DEF SleepersRetry, TypeInv
  <2> QED
    BY <2>1, <2>2
<1> QED
  BY <1>5, <1>6 DEF TypeInv

\* The three ways a recorded attempt ends are a step of the call and a record.
LEMMA SucceedRecords ==
    ASSUME CircuitTypeOK, NEW c \in Calls, Succeed(c)
    PROVE  /\ Record(TRUE) /\ Quiet \in CallRecords /\ Quiet.at = "idle" /\ ~Quiet.probe
           /\ call' = [call EXCEPT ![c] = Quiet] /\ call[c].at = "attempt"
           /\ UNCHANGED escaped
  BY CallsTyped DEF Succeed, Quiet

LEMMA FailForGoodRecords ==
    ASSUME CircuitTypeOK, NEW c \in Calls, FailForGood(c)
    PROVE  /\ Record(FALSE) /\ Quiet \in CallRecords /\ Quiet.at = "idle" /\ ~Quiet.probe
           /\ call' = [call EXCEPT ![c] = Quiet] /\ call[c].at = "attempt"
           /\ UNCHANGED escaped
  BY CallsTyped DEF FailForGood, Quiet

LEMMA FailAndRetryRecords ==
    ASSUME CircuitTypeOK, NEW c \in Calls, FailAndRetry(c)
    PROVE  /\ Record(FALSE) /\ call[c].at = "attempt" /\ UNCHANGED escaped
           /\ \E r \in CallRecords :
                 /\ r.at = "sleep" /\ r.retries < RetryCount /\ r.age = call[c].age
                 /\ ~r.probe
                 /\ call' = [call EXCEPT ![c] = r]
<1> DEFINE r == [call[c] EXCEPT !.at = "sleep", !.probe = FALSE]
<1>1. /\ Record(FALSE) /\ call[c].at = "attempt" /\ UNCHANGED escaped
      /\ call[c].retries < RetryCount
      /\ call' = [call EXCEPT ![c].at = "sleep", ![c].probe = FALSE]
  BY DEF FailAndRetry
<1>2. /\ r \in CallRecords
      /\ r.at = "sleep" /\ r.retries = call[c].retries /\ r.age = call[c].age /\ ~r.probe
      /\ [call EXCEPT ![c].at = "sleep", ![c].probe = FALSE] = [call EXCEPT ![c] = r]
  BY SleepingCall
<1> HIDE DEF r
<1> QED
  BY <1>1, <1>2

LEMMA StartAsks ==
    ASSUME NEW c \in Calls, Start(c)
    PROVE  Ask(c, 0) /\ 0 \in 0 .. RetryCount /\ call[c].at = "idle"
  BY ConstantsTyped DEF Start

LEMMA WakeAsks ==
    ASSUME TypeInv, NEW c \in Calls, Wake(c)
    PROVE  /\ Ask(c, call[c].retries + 1)
           /\ call[c].retries + 1 \in 0 .. RetryCount /\ call[c].at = "sleep"
<1>1. call[c] \in CallRecords /\ call[c].at = "sleep"
  BY CallsTyped DEF TypeInv, Wake
<1>2. call[c].retries < RetryCount
  BY <1>1 DEF TypeInv, SleepersRetry
<1> QED
  BY <1>1, <1>2, ConstantsTyped DEF Wake, CallRecords

LEMMA CircuitNextTypeInv == ASSUME TypeInv, [CircuitNext]_circuitVars PROVE TypeInv'
<1>1. ASSUME NEW c \in Calls, Start(c) PROVE TypeInv'
  BY <1>1, StartAsks, AskTyped
<1>2. ASSUME NEW c \in Calls, Wake(c) PROVE TypeInv'
  BY <1>2, WakeAsks, AskTyped
<1>3. ASSUME NEW c \in Calls, Succeed(c) PROVE TypeInv'
  BY <1>3, SucceedRecords, RecordTypeInv DEF TypeInv
<1>4. ASSUME NEW c \in Calls, FailForGood(c) PROVE TypeInv'
  BY <1>4, FailForGoodRecords, RecordTypeInv DEF TypeInv
<1>5. ASSUME NEW c \in Calls, FailAndRetry(c) PROVE TypeInv'
  <2>1. CircuitTypeOK
    BY DEF TypeInv
  <2>2. PICK r \in CallRecords :
            /\ r.at = "sleep" /\ r.retries < RetryCount
            /\ call' = [call EXCEPT ![c] = r]
    BY <1>5, <2>1, FailAndRetryRecords
  <2>3. Record(FALSE) /\ UNCHANGED escaped
    BY <1>5, <2>1, FailAndRetryRecords
  <2> QED
    BY <2>2, <2>3, RecordTypeInv
<1>6. ASSUME NEW c \in Calls, Late(c) \/ Escape(c) PROVE TypeInv'
  <2>1. /\ call' = [call EXCEPT ![c] = Quiet]
        /\ UNCHANGED <<samples, openFor, inflight>> /\ escaped' \in BOOLEAN
    BY <1>6 DEF Late, Escape, TypeInv, CircuitTypeOK
  <2> QED
    BY <2>1, QuietTypeInv
<1>7. CASE UNCHANGED circuitVars
  BY <1>7 DEF circuitVars, TypeInv, CircuitTypeOK, SleepersRetry
<1> QED
  BY <1>1, <1>2, <1>3, <1>4, <1>5, <1>6, <1>7, SecondTypeInv DEF CircuitNext, Proceed

LEMMA CircuitInitTypeInv == CircuitInit => TypeInv
<1> SUFFICES ASSUME CircuitInit PROVE TypeInv
  OBVIOUS
<1>1. /\ samples = <<>> /\ openFor = NotOpen /\ inflight = 0 /\ escaped = FALSE
      /\ call = [c \in Calls |-> Quiet]
  BY DEF CircuitInit
<1>2. Quiet \in CallRecords /\ Quiet.at = "idle"
  BY ConstantsTyped DEF Quiet, CallRecords
<1>3. samples \in Seq(Sample)
  BY <1>1
<1>4. call \in [Calls -> CallRecords] /\ SleepersRetry
  BY <1>1, <1>2 DEF SleepersRetry
<1>5. inflight \in 0 .. HalfOpenMax
  BY <1>1, ConstantsTyped
<1>6. CircuitTypeOK
  BY <1>1, <1>3, <1>4, <1>5 DEF CircuitTypeOK, Sample, CallRecords
<1> QED
  BY <1>4, <1>6 DEF TypeInv

LEMMA TypeInvariance == CircuitSpec => []TypeInv
  BY CircuitInitTypeInv, CircuitNextTypeInv, PTL DEF CircuitSpec

\* The samples, the slots and the calls keep their types, for any numbers of
\* calls, retries and half-open slots: inflight never exceeds
\* HALF_OPEN_MAX_PROBES and a call never retries more often than it may.
THEOREM CircuitTypeCorrect == CircuitSpec => []CircuitTypeOK
<1>1. TypeInv => CircuitTypeOK
  BY DEF TypeInv
<1> QED
  BY <1>1, TypeInvariance, PTL

-----------------------------------------------------------------------------
(* The half-open slot. *)

\* HALF_OPEN_MAX_PROBES is 1 (providers/resilience.py:24); a circuit stays open
\* for 120 seconds (providers/contract.py:36), longer than any call may take
\* (PROVIDER_TIMEOUT_SECONDS, providers/contract.py:24).
OneSlot == HalfOpenMax = 1 /\ MaxCall < OpenTime

\* When the time of an open circuit has run out, whoever was admitted before it
\* opened has ended.
LEMMA OnlyProbesLeft ==
    ASSUME OneSlot, HalfOpenInv, openFor = 0, NEW c \in Calls, call[c].at # "idle"
    PROVE  call[c].probe
<1>1. call[c] \in CallRecords
  BY CallsTyped DEF HalfOpenInv, TypeInv
<1>2. openFor # NotOpen
  BY ConstantsTyped
<1>3. ~call[c].probe => 0 + call[c].age >= OpenTime
  BY <1>2 DEF HalfOpenInv, OthersAreOlder
<1> QED
  BY <1>1, <1>3, ConstantsTyped DEF OneSlot, CallRecords

LEMMA AskHalfOpen ==
    ASSUME OneSlot, HalfOpenInv, NEW c \in Calls, NEW n \in 0 .. RetryCount, Ask(c, n),
           call[c].at # "attempt", call[c].at = "idle" => n = 0
    PROVE  OthersAreOlder' /\ ProbeHolds' /\ SlotInHalfOpen'
<1>1. CircuitTypeOK /\ call \in [Calls -> CallRecords]
  BY CallsTyped DEF HalfOpenInv, TypeInv
<1>2. PICK r \in CallRecords :
          /\ openFor' = openFor /\ escaped' = escaped
          /\ call' = [call EXCEPT ![c] = r]
          /\ \/ /\ openFor = NotOpen /\ inflight' = inflight
                /\ r.at = "attempt" /\ ~r.probe
             \/ /\ openFor = 0 /\ inflight < HalfOpenMax /\ inflight' = inflight + 1
                /\ r.at = "attempt" /\ r.retries = n /\ r.probe
             \/ inflight' = inflight /\ r = Quiet
  BY <1>1, AskMoves
<1>3. /\ call'[c] = r
      /\ \A d \in Calls : d # c => call'[d] = call[d]
  BY <1>1, <1>2
<1>4. ~call[c].probe
  BY DEF HalfOpenInv, ProbeHolds
<1>5. inflight \in 0 .. HalfOpenMax
  BY <1>1 DEF CircuitTypeOK
<1>6. CASE openFor = NotOpen /\ inflight' = inflight /\ r.at = "attempt" /\ ~r.probe
  <2>1. OthersAreOlder'
    BY <1>2, <1>6 DEF OthersAreOlder
  <2>2. ProbeHolds'
    BY <1>3, <1>6 DEF HalfOpenInv, ProbeHolds
  <2>3. SlotInHalfOpen'
    BY <1>2, <1>6, ConstantsTyped DEF HalfOpenInv, SlotInHalfOpen
  <2> QED
    BY <2>1, <2>2, <2>3
<1>7. CASE /\ openFor = 0 /\ inflight < HalfOpenMax /\ inflight' = inflight + 1
           /\ r.at = "attempt" /\ r.retries = n /\ r.probe
  <2>1. inflight = 0 /\ inflight' = 1
    BY <1>5, <1>7 DEF OneSlot
  <2>2. \A d \in Calls : ~call[d].probe
    BY <2>1 DEF HalfOpenInv, ProbeHolds
  <2>3. n = 0
    BY <2>2, <1>7, OnlyProbesLeft
  <2>4. OthersAreOlder'
    BY <1>2, <1>3, <1>7 DEF HalfOpenInv, OthersAreOlder
  <2>5. ProbeHolds'
    BY <1>3, <1>7, <2>1, <2>2, <2>3 DEF ProbeHolds
  <2>6. SlotInHalfOpen'
    BY <1>2, <1>3, <1>7 DEF SlotInHalfOpen
  <2> QED
    BY <2>4, <2>5, <2>6
<1>8. CASE inflight' = inflight /\ r = Quiet
  <2>1. r.at = "idle" /\ ~r.probe
    BY <1>8 DEF Quiet
  <2>2. OthersAreOlder'
    BY <1>2, <1>3, <2>1 DEF HalfOpenInv, OthersAreOlder
  <2>3. ProbeHolds'
    BY <1>3, <1>8, <2>1 DEF HalfOpenInv, ProbeHolds
  <2>4. SlotInHalfOpen'
    BY <1>2, <1>3, <1>4, <1>8 DEF HalfOpenInv, SlotInHalfOpen
  <2> QED
    BY <2>2, <2>3, <2>4
<1> QED
  BY <1>2, <1>6, <1>7, <1>8

\* While the slot is held by someone who is recorded, it is the recorded one.
LEMMA RecordedIsProbe ==
    ASSUME OneSlot, HalfOpenInv, inflight > 0, NEW c \in Calls, call[c].at = "attempt"
    PROVE  /\ call[c].probe /\ inflight = 1
           /\ \A d \in Calls : d # c => call[d].at = "idle" /\ ~call[d].probe
<1>1. openFor = 0
  BY DEF HalfOpenInv, SlotInHalfOpen
<1>2. call[c].probe
  BY <1>1, OnlyProbesLeft
<1>3. inflight = 1 /\ \A d \in Calls : d # c => ~call[d].probe
  BY <1>2 DEF HalfOpenInv, ProbeHolds
<1>4. \A d \in Calls : d # c => call[d].at = "idle"
  BY <1>1, <1>3, OnlyProbesLeft
<1> QED
  BY <1>2, <1>3, <1>4

LEMMA RecordHalfOpen ==
    ASSUME OneSlot, HalfOpenInv, NEW c \in Calls, call[c].at = "attempt",
           NEW ok \in BOOLEAN, Record(ok), UNCHANGED escaped,
           NEW r \in CallRecords, r.at # "idle" => r.age = call[c].age, ~r.probe,
           call' = [call EXCEPT ![c] = r]
    PROVE  OthersAreOlder' /\ ProbeHolds' /\ SlotInHalfOpen'
<1>1. CircuitTypeOK /\ call \in [Calls -> CallRecords]
  BY CallsTyped DEF HalfOpenInv, TypeInv
<1>2. /\ call'[c] = r
      /\ \A d \in Calls : d # c => call'[d] = call[d]
  BY <1>1
<1>3. /\ inflight > 0 /\ ok => openFor' = NotOpen /\ inflight' = 0
      /\ inflight > 0 /\ ~ok => openFor' = OpenTime /\ inflight' = inflight - 1
      /\ ~(inflight > 0) => openFor' \in {openFor, OpenTime} /\ inflight' = inflight
  BY <1>1, RecordMoves
<1>4. /\ inflight \in 0 .. HalfOpenMax /\ HalfOpenMax = 1 /\ r.age \in 0 .. MaxCall
      /\ \A d \in Calls : call[d].age \in 0 .. MaxCall
  BY <1>1 DEF CircuitTypeOK, CallRecords, OneSlot
<1>5. CASE inflight > 0
  <2>1. inflight = 1 /\ \A d \in Calls : d # c => call[d].at = "idle" /\ ~call[d].probe
    BY <1>5, RecordedIsProbe
  <2>2. inflight' = 0 /\ openFor' \in {NotOpen, OpenTime}
    BY <1>3, <1>5, <2>1
  <2>3. \A d \in Calls : ~call'[d].probe
    BY <1>2, <2>1
  <2>4. OthersAreOlder'
    <3> SUFFICES ASSUME openFor' = OpenTime, NEW d \in Calls, call'[d].at # "idle"
                 PROVE  openFor' + call'[d].age >= OpenTime
      BY <2>2 DEF OthersAreOlder
    <3>1. call'[d].age \in 0 .. MaxCall
      BY <1>2, <1>4
    <3> QED
      BY <3>1, ConstantsTyped
  <2> QED
    BY <2>2, <2>3, <2>4 DEF ProbeHolds, SlotInHalfOpen
<1>6. CASE ~(inflight > 0)
  <2>1. inflight' = 0
    BY <1>3, <1>4, <1>6
  <2>2. \A d \in Calls : ~call[d].probe
    BY <1>4, <1>6 DEF HalfOpenInv, ProbeHolds
  <2>3. \A d \in Calls : ~call'[d].probe
    BY <1>2, <2>2
  <2>4. OthersAreOlder'
    <3> SUFFICES ASSUME openFor' # NotOpen, NEW d \in Calls, call'[d].at # "idle"
                 PROVE  openFor' + call'[d].age >= OpenTime
      BY DEF OthersAreOlder
    <3>1. call'[d].age = call[d].age /\ call[d].at # "idle" /\ call[d].age \in 0 .. MaxCall
      BY <1>2, <1>4
    <3>2. CASE openFor' = openFor
      BY <3>1, <3>2, <2>2 DEF HalfOpenInv, OthersAreOlder
    <3>3. CASE openFor' = OpenTime
      BY <3>1, <3>3, ConstantsTyped
    <3> QED
      BY <3>2, <3>3, <1>3, <1>6
  <2> QED
    BY <2>1, <2>3, <2>4 DEF ProbeHolds, SlotInHalfOpen
<1> QED
  BY <1>5, <1>6

\* An attempt that ends unrecorded: it is no probe, or the loss is noted.
LEMMA QuietHalfOpen ==
    ASSUME OneSlot, HalfOpenInv, NEW c \in Calls, call' = [call EXCEPT ![c] = Quiet],
           UNCHANGED <<samples, openFor, inflight>>,
           escaped' \/ (~call[c].probe /\ escaped' = escaped)
    PROVE  OthersAreOlder' /\ ProbeHolds' /\ SlotInHalfOpen'
<1>1. call \in [Calls -> CallRecords]
  BY CallsTyped DEF HalfOpenInv, TypeInv
<1>2. /\ call'[c].at = "idle" /\ ~call'[c].probe
      /\ \A d \in Calls : d # c => call'[d] = call[d]
  BY <1>1 DEF Quiet
<1>3. OthersAreOlder'
  BY <1>2 DEF HalfOpenInv, OthersAreOlder
<1>4. ProbeHolds'
  BY <1>2 DEF HalfOpenInv, ProbeHolds
<1>5. SlotInHalfOpen'
  BY <1>2 DEF HalfOpenInv, SlotInHalfOpen
<1> QED
  BY <1>3, <1>4, <1>5

LEMMA SecondHalfOpen ==
    ASSUME OneSlot, HalfOpenInv, Second
    PROVE  OthersAreOlder' /\ ProbeHolds' /\ SlotInHalfOpen'
<1>1. CircuitTypeOK /\ call \in [Calls -> CallRecords]
  BY CallsTyped DEF HalfOpenInv, TypeInv
<1>2. /\ openFor' = IF openFor \in {NotOpen, 0} THEN openFor ELSE openFor - 1
      /\ inflight' = inflight /\ escaped' = escaped
  BY <1>1, SecondMoves
<1>3. ASSUME NEW c \in Calls
      PROVE  /\ call'[c].at = call[c].at /\ call'[c].probe = call[c].probe
             /\ call'[c].retries = call[c].retries
             /\ call[c].at # "idle" => call'[c].age = call[c].age + 1
  <2>1. CASE call[c].at = "idle"
    BY <2>1, <1>1, SecondMoves
  <2>2. CASE call[c].at # "idle"
    <3>1. call'[c] = [at |-> call[c].at, retries |-> call[c].retries,
                      age |-> call[c].age + 1, probe |-> call[c].probe]
      BY <2>2, <1>1, SecondMoves
    <3> QED
      BY <3>1
  <2> QED
    BY <2>1, <2>2
<1>4. ProbeHolds'
  BY <1>2, <1>3 DEF HalfOpenInv, ProbeHolds
<1>5. SlotInHalfOpen'
  BY <1>2, <1>3 DEF HalfOpenInv, SlotInHalfOpen
<1>6. OthersAreOlder'
  <2> SUFFICES ASSUME openFor' # NotOpen, NEW c \in Calls,
                      call'[c].at # "idle", ~call'[c].probe
               PROVE  openFor' + call'[c].age >= OpenTime
    BY DEF OthersAreOlder
  <2>1. /\ call[c].at # "idle" /\ ~call[c].probe /\ call'[c].age = call[c].age + 1
        /\ call[c].age \in 0 .. MaxCall
    BY <1>1, <1>3 DEF CallRecords
  <2>2. openFor # NotOpen /\ openFor \in 0 .. OpenTime
    BY <1>1, <1>2 DEF CircuitTypeOK
  <2>3. openFor # 0
    BY <2>1, OnlyProbesLeft
  <2>4. openFor' = openFor - 1
    BY <1>2, <2>2, <2>3
  <2>5. openFor + call[c].age >= OpenTime
    BY <2>1, <2>2 DEF HalfOpenInv, OthersAreOlder
  <2> QED
    BY <2>1, <2>2, <2>4, <2>5, ConstantsTyped
<1> QED
  BY <1>4, <1>5, <1>6

LEMMA HalfOpenNext ==
    ASSUME OneSlot, HalfOpenInv, [CircuitNext]_circuitVars
    PROVE  HalfOpenInv'
<1>1. TypeInv' /\ TypeInv /\ CircuitTypeOK
  BY CircuitNextTypeInv DEF HalfOpenInv, TypeInv
<1> SUFFICES OthersAreOlder' /\ ProbeHolds' /\ SlotInHalfOpen'
  BY <1>1 DEF HalfOpenInv
<1>2. CASE \E c \in Calls : Start(c)
  <2>1. PICK c \in Calls : Start(c)
    BY <1>2
  <2> QED
    BY <2>1, StartAsks, AskHalfOpen
<1>3. CASE \E c \in Calls : Wake(c)
  <2>1. PICK c \in Calls : Wake(c)
    BY <1>3
  <2>2. /\ Ask(c, call[c].retries + 1) /\ call[c].retries + 1 \in 0 .. RetryCount
        /\ call[c].at = "sleep"
    BY <2>1, <1>1, WakeAsks
  <2> QED
    BY <2>2, AskHalfOpen
<1>4. CASE \E c \in Calls : Succeed(c)
  <2>1. PICK c \in Calls : Succeed(c)
    BY <1>4
  <2> QED
    BY <2>1, <1>1, SucceedRecords, RecordHalfOpen
<1>5. CASE \E c \in Calls : FailForGood(c)
  <2>1. PICK c \in Calls : FailForGood(c)
    BY <1>5
  <2> QED
    BY <2>1, <1>1, FailForGoodRecords, RecordHalfOpen
<1>6. CASE \E c \in Calls : FailAndRetry(c)
  <2>1. PICK c \in Calls : FailAndRetry(c)
    BY <1>6
  <2>2. PICK r \in CallRecords :
            /\ r.age = call[c].age /\ ~r.probe
            /\ call' = [call EXCEPT ![c] = r]
    BY <2>1, <1>1, FailAndRetryRecords
  <2>3. Record(FALSE) /\ call[c].at = "attempt" /\ UNCHANGED escaped
    BY <2>1, <1>1, FailAndRetryRecords
  <2> QED
    BY <2>2, <2>3, RecordHalfOpen
<1>7. CASE \E c \in Calls : Late(c)
  <2>1. PICK c \in Calls : Late(c)
    BY <1>7
  <2>2. call[c].retries # 0
    BY <2>1, <1>1, CallsTyped DEF Late, CallRecords
  <2>3. ~call[c].probe
    BY <2>2 DEF HalfOpenInv, ProbeHolds
  <2> QED
    BY <2>1, <2>3, QuietHalfOpen DEF Late
<1>8. CASE \E c \in Calls : Escape(c)
  BY <1>8, QuietHalfOpen DEF Escape
<1>9. CASE UNCHANGED circuitVars
  BY <1>9 DEF circuitVars, HalfOpenInv, OthersAreOlder, ProbeHolds, SlotInHalfOpen
<1> QED
  BY <1>2, <1>3, <1>4, <1>5, <1>6, <1>7, <1>8, <1>9, SecondHalfOpen DEF CircuitNext, Proceed

LEMMA HalfOpenInit == CircuitInit => HalfOpenInv
<1> SUFFICES ASSUME CircuitInit PROVE HalfOpenInv
  OBVIOUS
<1>1. TypeInv
  BY CircuitInitTypeInv
<1>2. OthersAreOlder /\ ProbeHolds /\ SlotInHalfOpen
  BY DEF CircuitInit, Quiet, OthersAreOlder, ProbeHolds, SlotInHalfOpen
<1> QED
  BY <1>1, <1>2 DEF HalfOpenInv

LEMMA HalfOpenInvariance == ASSUME OneSlot PROVE CircuitSpec => []HalfOpenInv
  BY HalfOpenInit, HalfOpenNext, PTL DEF CircuitSpec

LEMMA SlotsCounted == ASSUME OneSlot, HalfOpenInv PROVE SlotsAreHeld
<1>1. inflight \in 0 .. 1
  BY DEF OneSlot, HalfOpenInv, TypeInv, CircuitTypeOK
<1>2. CASE \E c \in Calls : call[c].probe
  <2>1. PICK c \in Calls : call[c].probe
    BY <1>2
  <2>2. Probes = {c} /\ inflight = 1
    BY <2>1 DEF HalfOpenInv, ProbeHolds, Probes
  <2>3. Cardinality({c}) = 1
    BY FS_Singleton
  <2> QED
    BY <2>2, <2>3 DEF SlotsAreHeld
<1>3. CASE ~\E c \in Calls : call[c].probe
  <2>1. Probes = {}
    BY <1>3 DEF Probes
  <2>2. inflight = 0 \/ escaped
    BY <1>1, <1>3 DEF HalfOpenInv, SlotInHalfOpen
  <2>3. Cardinality({}) = 0
    BY FS_EmptySet
  <2> QED
    BY <2>1, <2>2, <2>3 DEF SlotsAreHeld
<1> QED
  BY <1>2, <1>3

\* half_open_inflight is the number of probes under way: although record is not
\* told which attempt it hears of, no late answer of a call admitted before the
\* circuit opened gives a slot back, and no probe runs without one.
THEOREM SlotsHold == ASSUME OneSlot PROVE CircuitSpec => []CircuitInv
<1>1. HalfOpenInv => CircuitInv
  BY SlotsCounted DEF HalfOpenInv, TypeInv, CircuitInv
<1> QED
  BY <1>1, HalfOpenInvariance, PTL

\* Only a probe closes: whatever calls are still on their way when the circuit
\* opens, and whatever attempts escape, the step that sets open_until to None is
\* the success of a probe.
THEOREM OnlyProbesClose == ASSUME OneSlot PROVE CircuitSpec => ClosedByProbe
<1>1. ASSUME HalfOpenInv, [CircuitNext]_circuitVars
      PROVE  [openFor # NotOpen /\ openFor' = NotOpen =>
                 \E c \in Probes : call'[c].at = "idle"]_circuitVars
  <2> SUFFICES ASSUME CircuitNext, openFor # NotOpen, openFor' = NotOpen
               PROVE  \E c \in Probes : call'[c].at = "idle"
    BY <1>1 DEF circuitVars
  <2>1. CircuitTypeOK /\ call \in [Calls -> CallRecords]
    BY <1>1, CallsTyped DEF HalfOpenInv, TypeInv
  <2>2. OpenTime # NotOpen
    BY ConstantsTyped
  <2>3. CASE \E c \in Calls : Succeed(c)
    <3>1. PICK c \in Calls : Succeed(c)
      BY <2>3
    <3>2. Record(TRUE) /\ call' = [call EXCEPT ![c] = Quiet] /\ call[c].at = "attempt"
      BY <3>1, <2>1, SucceedRecords
    <3>3. inflight > 0
      BY <3>2, <2>1, <2>2, RecordMoves
    <3>4. call[c].probe
      BY <1>1, <3>2, <3>3, RecordedIsProbe
    <3>5. call'[c].at = "idle"
      BY <3>2, <2>1 DEF Quiet
    <3> QED
      BY <3>2, <3>4, <3>5 DEF Probes
  <2>4. CASE \E c \in Calls : FailAndRetry(c) \/ FailForGood(c)
    <3>1. Record(FALSE)
      BY <2>4 DEF FailAndRetry, FailForGood
    <3> QED
      BY <3>1, <2>1, <2>2, RecordMoves
  <2>5. CASE \E c \in Calls : Start(c) \/ Wake(c) \/ Late(c) \/ Escape(c)
    BY <2>5 DEF Start, Wake, Ask, Late, Escape
  <2>6. CASE Second
    <3>1. openFor \in 0 .. OpenTime
      BY <2>1 DEF CircuitTypeOK
    <3>2. openFor' = IF openFor \in {NotOpen, 0} THEN openFor ELSE openFor - 1
      BY <2>6, <2>1, SecondMoves
    <3>3. openFor' \in Nat
      BY <3>1, <3>2, ConstantsTyped
    <3> QED
      BY <3>3, ConstantsTyped
  <2> QED
    BY <2>3, <2>4, <2>5, <2>6 DEF CircuitNext, Proceed
<1> QED
  BY <1>1, HalfOpenInvariance, PTL DEF CircuitSpec, ClosedByProbe
=============================================================================
