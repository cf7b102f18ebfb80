--------------------------- MODULE CircuitBreaker ---------------------------
(***************************************************************************)
(* CapabilityCircuits for one capability, and the calls of                 *)
(* BailianAdapter._complete_json that go through it.  A call asks the      *)
(* circuit before each attempt, awaits the provider, and records how the   *)
(* attempt went; other calls do the same while it waits.                   *)
(*                                                                         *)
(* Times are relative to the clock: openFor is open_until - now, a sample  *)
(* carries its age.                                                        *)
(***************************************************************************)
EXTENDS Naturals, Sequences, SequencesExt, FiniteSets

CONSTANTS
    Calls,         \* calls in flight, by name
    NotOpen,       \* open_until IS None
    Window,        \* PROVIDER_CIRCUIT_WINDOW_SECONDS
    OpenTime,      \* PROVIDER_CIRCUIT_OPEN_SECONDS
    MinSamples,    \* PROVIDER_CIRCUIT_MIN_SAMPLES
    HalfOpenMax,   \* HALF_OPEN_MAX_PROBES
    RetryCount,    \* PROVIDER_CONDITIONAL_RETRY_COUNT
    MaxCall,       \* how long a call may take: PROVIDER_TIMEOUT_SECONDS
    MaxSamples     \* bound on the samples kept

ASSUME CircuitAssumption ==
    /\ NotOpen \notin Nat
    /\ {Window, OpenTime, MinSamples, HalfOpenMax, MaxCall, MaxSamples} \subseteq Nat \ {0}
    /\ RetryCount \in Nat

VARIABLES
    samples,    \* the deque, oldest first
    openFor,    \* open_until
    inflight,   \* half_open_inflight
    call,       \* call[c]: where call c is
    escaped     \* history: some attempt has ended without record()

circuitVars == <<samples, openFor, inflight, call, escaped>>

Quiet == [at |-> "idle", retries |-> 0, age |-> 0, probe |-> FALSE]

CircuitTypeOK ==
    /\ samples \in Seq([age: 0 .. Window + 1, ok: BOOLEAN])
    /\ openFor \in {NotOpen} \cup 0 .. OpenTime
    /\ inflight \in 0 .. HalfOpenMax
    \* probe is history: the attempt was admitted as a half-open probe.
    /\ call \in [Calls -> [at: {"idle", "attempt", "sleep"}, retries: 0 .. RetryCount,
                           age: 0 .. MaxCall, probe: BOOLEAN]]
    /\ escaped \in BOOLEAN

CircuitInit ==
    /\ samples = <<>>
    /\ openFor = NotOpen
    /\ inflight = 0
    /\ call = [c \in Calls |-> Quiet]
    /\ escaped = FALSE

-----------------------------------------------------------------------------
\* _prune: samples leave the deque at the left while the first one is too old.
Pruned(s) ==
    LET stale == {i \in 1 .. Len(s) : \A j \in 1 .. i : s[j].age > Window}
    IN SubSeq(s, Cardinality(stale) + 1, Len(s))

\* Mutation of Admits: the slot is counted but not limited.
AdmitsAll == openFor \in {NotOpen, 0}

\* The answer of allow.
Admits == openFor = NotOpen \/ (openFor = 0 /\ inflight < HalfOpenMax)

\* allow, asked by c for its attempt number n + 1; refused says where c goes
\* when it is not admitted.
Ask(c, n) ==
    LET probe == openFor # NotOpen IN
    /\ samples' = Pruned(samples)
    /\ IF Admits
       THEN /\ inflight' = IF probe THEN inflight + 1 ELSE inflight
            /\ call' = [call EXCEPT ![c] = [@ EXCEPT !.at = "attempt", !.retries = n,
                                                     !.probe = probe]]
       ELSE /\ call' = [call EXCEPT ![c] = Quiet]
            /\ UNCHANGED inflight
    /\ UNCHANGED <<openFor, escaped>>

Failures(s) == Len(SelectSeq(s, LAMBDA x : ~x.ok))

\* Mutation of Record: a failed probe keeps its slot.
RecordKeepsSlot(ok) ==
    LET s == Pruned(Append(samples, [age |-> 0, ok |-> ok])) IN
    /\ samples' = s
    /\ IF inflight > 0
       THEN /\ inflight' = IF ok THEN 0 ELSE inflight
            /\ openFor' = IF ok THEN NotOpen ELSE OpenTime
       ELSE /\ UNCHANGED inflight
            /\ openFor' = IF ~ok /\ 2 * Failures(s) > Len(s) /\ Len(s) >= MinSamples
                          THEN OpenTime ELSE openFor

\* Mutation of Record: any success closes the circuit.
RecordAnySuccess(ok) ==
    LET s == Pruned(Append(samples, [age |-> 0, ok |-> ok])) IN
    /\ samples' = s
    /\ inflight' = IF inflight > 0 /\ ~ok THEN inflight - 1 ELSE 0
    /\ openFor' = IF ok THEN NotOpen
                  ELSE IF inflight > 0 \/ (2 * Failures(s) > Len(s) /\ Len(s) >= MinSamples)
                  THEN OpenTime ELSE openFor

\* record.  It is not told whether the attempt it hears of was a probe.
Record(ok) ==
    LET s == Pruned(Append(samples, [age |-> 0, ok |-> ok])) IN
    /\ samples' = s
    /\ IF inflight > 0
       THEN /\ inflight' = IF ok THEN 0 ELSE inflight - 1
            /\ openFor' = IF ok THEN NotOpen ELSE OpenTime
       ELSE /\ UNCHANGED inflight
            /\ openFor' = IF ~ok /\ 2 * Failures(s) > Len(s) /\ Len(s) >= MinSamples
                          THEN OpenTime ELSE openFor

-----------------------------------------------------------------------------
Start(c) ==
    /\ call[c].at = "idle"
    /\ Len(Pruned(samples)) < MaxSamples
    /\ Ask(c, 0)

Succeed(c) ==
    /\ call[c].at = "attempt"
    /\ Record(TRUE)
    /\ call' = [call EXCEPT ![c] = Quiet]
    /\ UNCHANGED escaped

\* connect, http_429 or http_5xx with time and a retry left.
FailAndRetry(c) ==
    /\ call[c].at = "attempt"
    /\ call[c].retries < RetryCount
    /\ Record(FALSE)
    /\ call' = [call EXCEPT ![c].at = "sleep", ![c].probe = FALSE]
    /\ UNCHANGED escaped

\* A timeout, a 4xx, a bad body, or no retry left.
FailForGood(c) ==
    /\ call[c].at = "attempt"
    /\ Record(FALSE)
    /\ call' = [call EXCEPT ![c] = Quiet]
    /\ UNCHANGED escaped

\* The backoff is over: the circuit is asked again.
Wake(c) ==
    /\ call[c].at = "sleep"
    /\ Ask(c, call[c].retries + 1)

\* The retry was admitted, but its deadline has passed while it slept.
Late(c) ==
    /\ call[c].at = "attempt"
    /\ call[c].retries > 0
    /\ call' = [call EXCEPT ![c] = Quiet]
    /\ UNCHANGED <<samples, openFor, inflight, escaped>>

\* httpx raises something else than TimeoutException and ConnectError, the
\* parser something else than ProviderError, or the task is cancelled: the
\* exception leaves _complete_json and nothing is recorded.
Escape(c) ==
    /\ call[c].at = "attempt"
    /\ call' = [call EXCEPT ![c] = Quiet]
    /\ escaped' = TRUE
    /\ UNCHANGED <<samples, openFor, inflight>>

Second ==
    /\ \A c \in Calls : call[c].at # "idle" => call[c].age < MaxCall
    /\ samples' = [i \in DOMAIN samples |->
                      [samples[i] EXCEPT !.age = IF @ > Window THEN @ ELSE @ + 1]]
    /\ openFor' = IF openFor \in {NotOpen, 0} THEN openFor ELSE openFor - 1
    /\ call' = [c \in Calls |-> IF call[c].at = "idle" THEN call[c]
                                ELSE [call[c] EXCEPT !.age = @ + 1]]
    /\ UNCHANGED <<inflight, escaped>>

-----------------------------------------------------------------------------
Proceed(c) ==
    Succeed(c) \/ FailAndRetry(c) \/ FailForGood(c) \/ Wake(c) \/ Late(c) \/ Escape(c)

CircuitNext ==
    \/ \E c \in Calls : Start(c) \/ Proceed(c)
    \/ Second

CircuitSpec == CircuitInit /\ [][CircuitNext]_circuitVars

\* Users keep calling, every attempt ends, and the clock runs.
CircuitFairness ==
    /\ WF_circuitVars(Second)
    /\ \A c \in Calls : WF_circuitVars(Start(c)) /\ WF_circuitVars(Proceed(c))

CircuitFairSpec == CircuitSpec /\ CircuitFairness

-----------------------------------------------------------------------------
(* Properties. *)

Probes == {c \in Calls : call[c].at = "attempt" /\ call[c].probe}

\* As long as every attempt is recorded, the counter of the half-open slots is
\* the number of probes on their way: no slot is lost, and no probe runs without
\* one.
SlotsAreHeld == escaped \/ inflight = Cardinality(Probes)

\* A circuit that is open is closed by the success of a probe, never by the
\* late success of a call admitted before it opened.
ClosedByProbe ==
    [][openFor # NotOpen /\ openFor' = NotOpen =>
          \E c \in Probes : call'[c].at = "idle"]_circuitVars

\* As long as every attempt is recorded, an open circuit is closed or probed
\* some time later.
AdmitsAgainIfRecorded ==
    openFor # NotOpen ~> (escaped \/ openFor = NotOpen \/ Probes # {})

\* The circuit admits a call again some time after it opened: "clock["t"] = 120
\* / assert circuits.allow("chat") is True"
\* (tests/unit/test_provider_resilience.py:42-43).
AdmitsAgain == openFor # NotOpen ~> (openFor = NotOpen \/ Probes # {})

\* The circuit has its types and its slots.
CircuitInv == CircuitTypeOK /\ SlotsAreHeld
=============================================================================
