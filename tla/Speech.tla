------------------------------- MODULE Speech -------------------------------
(***************************************************************************)
(* services/speech: POST /transcribe and POST /synthesize of one owner.    *)
(* A request claims its client id in idempotency_records and reserves one  *)
(* unit of quota in a first transaction, calls the provider outside any    *)
(* transaction, and commits or releases in a second one.  Requests of the  *)
(* same or of different client ids run concurrently; a request may die     *)
(* during the call, or leave it by an exception the service does not       *)
(* catch.  expire_due_reservations, which tests/db/test_quota.py runs and  *)
(* nothing in app/ calls, is run by Expirers.                              *)
(*                                                                         *)
(* The owner has a spirit, every client id is used with one body, and, for *)
(* TTS, with one message: other requests are refused without any effect.   *)
(***************************************************************************)
EXTENDS Quota

CONSTANTS
    NoSource,    \* of a request that is not being served
    Requests,    \* requests being served
    Expirers,    \* processes that run expire_due_reservations
    Messages,    \* spirit messages; with voice and model alias, the cache key
    MessageOf,   \* MessageOf[s]: the message client id s asks to hear
    MaxCall      \* bound: the longest provider call, in units of the clock

ASSUME SpeechAssumption ==
    /\ Dates = 1 .. Cardinality(Dates)
    /\ Dates # {}
    /\ IsFiniteSet(Dates)
    /\ NoSource \notin Sources
    /\ MessageOf \in [Sources -> Messages]
    /\ MaxCall \in Nat

VARIABLES
    synthesis,   \* the client ids are of /synthesize, else of /transcribe
    ledger,   \* daily_usage and quota_reservations
    idem,     \* idem[s]: the idempotency_records row of client id s
    cache,    \* messages whose audio is in PrivateTtsStorage
    call,     \* call[q]: the local state of request q
    expiry,   \* expiry[e]: what expirer e has claimed and not yet released
    today     \* the owner's usage date

speechVars == <<synthesis, ledger, idem, cache, call, expiry, today>>

Call == [open: BOOLEAN,
         source: Sources \cup {NoSource},
         taken: [status: {"none", "held", "committed"}, date: Dates],
         age: 0 .. MaxCall]

SpeechTypeOK ==
    /\ synthesis \in BOOLEAN
    /\ ledger \in Ledger
    /\ idem \in [Sources -> {"none", "in_progress", "completed"}]
    /\ cache \in SUBSET Messages
    /\ call \in [Requests -> Call]
    /\ expiry \in [Expirers -> SUBSET (Sources \X Dates)]
    /\ today \in Dates

NoCall == [open |-> FALSE, source |-> NoSource,
           taken |-> [status |-> "none", date |-> 1], age |-> 0]

SpeechInit ==
    /\ synthesis \in BOOLEAN
    /\ ledger = [usage |-> [d \in Dates |-> [used |-> 0, reserved |-> 0]],
                 held |-> [s \in Sources |-> [status |-> "none", date |-> 1, left |-> 0]]]
    /\ idem = [s \in Sources |-> "none"]
    /\ cache = {}
    /\ call = [q \in Requests |-> NoCall]
    /\ expiry = [e \in Expirers |-> {}]
    /\ today = 1

-----------------------------------------------------------------------------
(* The first transaction.  A claim that finds the row in_progress answers   *)
(* 409, one that finds it completed replays the answer: neither is a step.  *)

\* reserve() and the end of the transaction: the request goes to the provider.
Reserve(q, s) ==
    /\ MayReserve(ledger, s, today)
    /\ ledger' = AfterReserve(ledger, s, today)
    /\ call' = [call EXCEPT ![q] = [open |-> TRUE, source |-> s,
                                    taken |-> Taken(ledger', s), age |-> 0]]

Transcribe(q, s) ==
    /\ ~synthesis
    /\ ~call[q].open
    /\ idem[s] = "none"
    /\ Reserve(q, s)
    /\ idem' = [idem EXCEPT ![s] = "in_progress"]
    /\ UNCHANGED <<synthesis, cache, expiry, today>>

\* A completed row is no obstacle when the audio it points to is gone.
Synthesize(q, s) ==
    /\ synthesis
    /\ ~call[q].open
    /\ idem[s] # "in_progress"
    /\ MessageOf[s] \notin cache
    /\ Reserve(q, s)
    /\ idem' = [idem EXCEPT ![s] = IF @ = "none" THEN "in_progress" ELSE @]
    /\ UNCHANGED <<synthesis, cache, expiry, today>>

\* Audio of the message is there already, made for another client id: the row
\* is completed in the claiming transaction and no quota is touched.
CacheHit(s) ==
    /\ synthesis
    /\ idem[s] = "none"
    /\ MessageOf[s] \in cache
    /\ idem' = [idem EXCEPT ![s] = "completed"]
    /\ UNCHANGED <<synthesis, ledger, cache, call, expiry, today>>

-----------------------------------------------------------------------------
(* After the call. *)

Done(q) == call' = [call EXCEPT ![q] = NoCall]

\* _release, _release_tts: on ProviderError, ProviderCancelled or bad audio the
\* reservation goes back and the claim of the client id is deleted.
ProviderFails(q) ==
    /\ call[q].open
    /\ LET s == call[q].source IN
       /\ ledger' = AfterRelease(ledger, s, call[q].taken)
       /\ idem' = [idem EXCEPT ![s] = IF @ = "in_progress" THEN "none" ELSE @]
    /\ Done(q)
    /\ UNCHANGED <<synthesis, cache, expiry, today>>

\* Mutation of Finalize: the record of the client id is not completed.
FinalizeUnrecorded(q) ==
    /\ call[q].open
    /\ cache' = IF synthesis THEN cache \cup {MessageOf[call[q].source]} ELSE cache
    /\ MayCommit(ledger, call[q].taken)
    /\ ledger' = AfterCommit(ledger, call[q].source, call[q].taken)
    /\ Done(q)
    /\ UNCHANGED <<synthesis, idem, expiry, today>>

\* _finalize, _finalize_synthesize: the audio is stored before the transaction.
Finalize(q) ==
    /\ call[q].open
    /\ cache' = IF synthesis THEN cache \cup {MessageOf[call[q].source]} ELSE cache
    /\ MayCommit(ledger, call[q].taken)
    /\ ledger' = AfterCommit(ledger, call[q].source, call[q].taken)
    /\ idem' = [idem EXCEPT ![call[q].source] = "completed"]
    /\ Done(q)
    /\ UNCHANGED <<synthesis, expiry, today>>

\* commit() finds nothing reserved and raises: the transaction is rolled back
\* and the request answered with an internal error.
FinalizeRaises(q) ==
    /\ call[q].open
    /\ ~MayCommit(ledger, call[q].taken)
    /\ cache' = IF synthesis THEN cache \cup {MessageOf[call[q].source]} ELSE cache
    /\ Done(q)
    /\ UNCHANGED <<synthesis, ledger, idem, expiry, today>>

\* The process dies, the client disconnects, or the call raises anything but a
\* ProviderError.
RequestDies(q) ==
    /\ call[q].open
    /\ Done(q)
    /\ UNCHANGED <<synthesis, ledger, idem, cache, expiry, today>>

-----------------------------------------------------------------------------
(* The other processes, storage and time. *)

ExpireClaim(e) ==
    /\ expiry[e] = {}
    /\ \E S \in SUBSET Expirable(ledger) :
          /\ S # {}
          /\ ledger' = AfterClaim(ledger, S)
          /\ expiry' = [expiry EXCEPT ![e] = {<<s, ledger.held[s].date>> : s \in S}]
    /\ UNCHANGED <<synthesis, idem, cache, call, today>>

ExpireOne(e, s, d) ==
    /\ <<s, d>> \in expiry[e]
    /\ ledger' = AfterExpire(ledger, s, d)
    /\ expiry' = [expiry EXCEPT ![e] = @ \ {<<s, d>>}]
    /\ UNCHANGED <<synthesis, idem, cache, call, today>>

\* The expirer dies between its transactions.
ExpireCrash(e) ==
    /\ expiry[e] # {}
    /\ expiry' = [expiry EXCEPT ![e] = {}]
    /\ UNCHANGED <<synthesis, ledger, idem, cache, call, today>>

\* expire_due, get_cache after TTS_CACHE_TTL, or the restart of the API process
\* whose memory PrivateTtsStorage is.
AudioLost(m) ==
    /\ m \in cache
    /\ cache' = cache \ {m}
    /\ UNCHANGED <<synthesis, ledger, idem, call, expiry, today>>

Midnight ==
    /\ today + 1 \in Dates
    /\ today' = today + 1
    /\ UNCHANGED <<synthesis, ledger, idem, cache, call, expiry>>

\* expires_at comes nearer; how long ago it was makes no difference.
Sooner(r) == [r EXCEPT !.left = IF @ > 0 THEN @ - 1 ELSE 0]

SpeechTick ==
    /\ \A q \in Requests : call[q].open => call[q].age < MaxCall
    /\ ledger' = [ledger EXCEPT !.held = [s \in Sources |-> Sooner(ledger.held[s])]]
    /\ call' = [q \in Requests |->
                   IF call[q].open THEN [call[q] EXCEPT !.age = @ + 1] ELSE call[q]]
    /\ UNCHANGED <<synthesis, idem, cache, expiry, today>>

-----------------------------------------------------------------------------
Answer(q) == ProviderFails(q) \/ Finalize(q) \/ FinalizeRaises(q)

SpeechNext ==
    \/ \E q \in Requests, s \in Sources : Transcribe(q, s) \/ Synthesize(q, s)
    \/ \E s \in Sources : CacheHit(s)
    \/ \E q \in Requests : Answer(q) \/ RequestDies(q)
    \/ \E e \in Expirers : ExpireClaim(e) \/ ExpireCrash(e)
    \/ \E e \in Expirers, s \in Sources, d \in Dates : ExpireOne(e, s, d)
    \/ \E m \in Messages : AudioLost(m)
    \/ Midnight
    \/ SpeechTick

SpeechSpec == SpeechInit /\ [][SpeechNext]_speechVars

\* A provider call ends, by PROVIDER_TIMEOUT_SECONDS at the latest.
SpeechFairness ==
    /\ WF_speechVars(SpeechTick)
    /\ \A q \in Requests : WF_speechVars(Answer(q) \/ RequestDies(q))

SpeechFairSpec == SpeechSpec /\ SpeechFairness

-----------------------------------------------------------------------------
(* Properties. *)

\* No interleaving of reserve, commit, release and expiry, exact or not, gives
\* out more than the limit of a day: the row is its own guard, whatever happens
\* to the reservations (repositories/quota.py:197-241).
WithinLimit ==
    \A d \in Dates : ledger.usage[d].used + ledger.usage[d].reserved <= Limit

\* Of /transcribe, the counter row and the reservation rows, written by separate
\* statements that do not look at each other's result, agree: reserved counts the
\* open reservations of its date, also over a midnight.  (With one expirer: two
\* that claim the same rows take reserved down twice.)
ReservedExact ==
    ~synthesis => \A d \in Dates : ledger.usage[d].reserved = Cardinality(HeldAt(ledger, d))

\* Every unit used is the unit of one client id, charged once on one date.
UsedExact ==
    ~synthesis => \A d \in Dates : ledger.usage[d].used = Cardinality(CommittedAt(ledger, d))

\* A request that waits for the provider still owns the reservation it took, so
\* its commit will find it: reserve, provider, then commit or release
\* (docs/p14-integration.md:24).
ReservationKept ==
    ~synthesis =>
        \A q \in Requests : call[q].open /\ call[q].taken.status = "held" =>
            /\ ledger.held[call[q].source].status = "held"
            /\ HasReserved(ledger, call[q].taken.date)

\* An answer is recorded for a client id exactly when that client id was charged.
AnsweredIffCharged ==
    ~synthesis =>
        \A s \in Sources : idem[s] = "completed" <=> ledger.held[s].status = "committed"

\* What the code does not schedule: somebody runs expire_due_reservations again
\* and again, and does not die between its two transactions every time.
ExpirerRuns ==
    /\ Expirers # {}
    /\ \A e \in Expirers :
          /\ WF_speechVars(ExpireClaim(e))
          /\ \A s \in Sources : SF_speechVars(\E d \in Dates : ExpireOne(e, s, d))

\* If something runs expire_due_reservations, a reservation left behind by a
\* /transcribe request that died is given back, however the expirer interleaves
\* with retries, crashes and midnight (services/quota.py:358-389).  As deployed
\* nothing runs it, and such a reservation is held until the next date.
GivenBackIfExpired ==
    ExpirerRuns =>
        \A s \in Sources :
            ~synthesis /\ ledger.held[s].status \in {"held", "expiring"}
                ~> ledger.held[s].status \in {"released", "committed"}

\* A client id that is in progress can be retried later with the same id, as the
\* retryable 409 says (docs/p14-integration.md:303).
InProgressEnds ==
    \A s \in Sources : idem[s] = "in_progress" ~> idem[s] # "in_progress"

\* Of /transcribe, counters, reservations and the requests on their way agree.
LedgerExact == ReservedExact /\ UsedExact /\ ReservationKept
=============================================================================
