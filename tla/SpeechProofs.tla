---------------------------- MODULE SpeechProofs -----------------------------
(***************************************************************************)
(* Theorems about Quota and Speech for every set of client ids, requests,  *)
(* expirers and dates, every limit and every time to live.                 *)
(***************************************************************************)
EXTENDS Speech, FiniteSetTheorems, TLAPS

-----------------------------------------------------------------------------
(* What the statements of the ledger preserve: the counter row of a date is *)
(* checked, and changed, by one statement, so that no assumption on the     *)
(* reservations is needed.                                                  *)

Within(l) == \A d \in Dates : l.usage[d].used + l.usage[d].reserved <= Limit

LedgerOK(l) == l \in Ledger /\ Within(l)

\* A counter row is replaced by one that is within the limit.
LEMMA UsageReplaced ==
    ASSUME NEW l, LedgerOK(l), NEW d \in Dates, NEW row \in Usage,
           row.used + row.reserved <= Limit
    PROVE  /\ LedgerOK([l EXCEPT !.usage[d] = row])
           /\ [l EXCEPT !.usage[d] = row].held = l.held
<1> DEFINE m == [l EXCEPT !.usage[d] = row]
<1>1. /\ l.usage \in [Dates -> Usage] /\ l.held \in [Sources -> Reservation]
      /\ l = [usage |-> l.usage, held |-> l.held]
  BY DEF LedgerOK, Ledger
<1>2. m = [usage |-> [l.usage EXCEPT ![d] = row], held |-> l.held]
  BY <1>1
<1>3. m \in Ledger
  BY <1>1, <1>2 DEF Ledger
<1>4. Within(m)
  BY <1>1, <1>2 DEF Within, LedgerOK
<1> QED
  BY <1>2, <1>3, <1>4 DEF LedgerOK

\* The reservations are replaced: the counters do not change.
LEMMA HeldReplaced ==
    ASSUME NEW l, LedgerOK(l), NEW h \in [Sources -> Reservation]
    PROVE  /\ LedgerOK([l EXCEPT !.held = h])
           /\ [l EXCEPT !.held = h].held = h
<1>1. /\ l.usage \in [Dates -> Usage]
      /\ [l EXCEPT !.held = h] = [usage |-> l.usage, held |-> h]
  BY DEF LedgerOK, Ledger
<1> QED
  BY <1>1 DEF LedgerOK, Ledger, Within

LEMMA ReservedOK ==
    ASSUME NEW l, LedgerOK(l), NEW d \in Dates, CanReserve(l, d)
    PROVE  LedgerOK(Reserved(l, d)) /\ Reserved(l, d).held = l.held
<1> DEFINE row == [l.usage[d] EXCEPT !.reserved = @ + 1]
<1>1. l.usage \in [Dates -> Usage] /\ l.usage[d] \in Usage
  BY DEF LedgerOK, Ledger
<1>2. row \in Usage /\ row.used + row.reserved <= Limit
  BY <1>1, QuotaAssumption DEF CanReserve, Usage
<1>3. Reserved(l, d) = [l EXCEPT !.usage[d] = row]
  BY DEF Reserved
<1> HIDE DEF row
<1> QED
  BY <1>2, <1>3, UsageReplaced

LEMMA UnreservedOK ==
    ASSUME NEW l, LedgerOK(l), NEW d \in Dates
    PROVE  LedgerOK(Unreserved(l, d)) /\ Unreserved(l, d).held = l.held
<1> DEFINE row == [l.usage[d] EXCEPT !.reserved = @ - 1]
<1>1. l.usage \in [Dates -> Usage] /\ l.usage[d] \in Usage
  BY DEF LedgerOK, Ledger
<1>2. CASE HasReserved(l, d)
  <2>1. row \in Usage /\ row.used + row.reserved <= Limit
    BY <1>1, <1>2, QuotaAssumption DEF HasReserved, Usage, LedgerOK, Within
  <2>2. Unreserved(l, d) = [l EXCEPT !.usage[d] = row]
    BY <1>2 DEF Unreserved
  <2> HIDE DEF row
  <2> QED
    BY <2>1, <2>2, UsageReplaced
<1> QED
  BY <1>2 DEF Unreserved

LEMMA UsedOK ==
    ASSUME NEW l, LedgerOK(l), NEW d \in Dates, HasReserved(l, d)
    PROVE  LedgerOK(Used(l, d)) /\ Used(l, d).held = l.held
<1> DEFINE row == [used |-> l.usage[d].used + 1, reserved |-> l.usage[d].reserved - 1]
<1>1. l.usage \in [Dates -> Usage] /\ l.usage[d] \in Usage
  BY DEF LedgerOK, Ledger
<1>2. row \in Usage /\ row.used + row.reserved <= Limit
  <2>1. /\ l.usage[d].used \in Nat /\ l.usage[d].reserved \in Nat
        /\ l.usage[d].reserved >= 1
        /\ l.usage[d].used + l.usage[d].reserved <= Limit
    BY <1>1, QuotaAssumption DEF HasReserved, Usage, LedgerOK, Within
  <2>2. /\ l.usage[d].used + 1 \in 0 .. Limit
        /\ l.usage[d].reserved - 1 \in 0 .. Limit
        /\ l.usage[d].used + 1 + (l.usage[d].reserved - 1) <= Limit
    BY <2>1, QuotaAssumption
  <2> QED
    BY <2>2 DEF Usage
<1>3. Used(l, d) = [l EXCEPT !.usage[d] = row]
  <2>1. l = [usage |-> l.usage, held |-> l.held]
    BY DEF LedgerOK, Ledger
  <2> DEFINE one == [l.usage[d] EXCEPT !.reserved = @ - 1]
             m == [l EXCEPT !.usage[d] = one]
  <2>2. m = [usage |-> [l.usage EXCEPT ![d] = one], held |-> l.held]
    BY <2>1
  <2>3. m.usage[d] = one
    BY <1>1, <2>2
  <2>4. Used(l, d) = [m EXCEPT !.usage[d] = [m.usage[d] EXCEPT !.used = @ + 1]]
    BY DEF Used
  <2>5. [one EXCEPT !.used = @ + 1] = row
    <3>1. l.usage[d] = [used |-> l.usage[d].used, reserved |-> l.usage[d].reserved]
      BY <1>1 DEF Usage
    <3>2. one = [used |-> l.usage[d].used, reserved |-> l.usage[d].reserved - 1]
      BY <3>1
    <3> HIDE DEF one
    <3> QED
      BY <3>2
  <2>6. Used(l, d) = [m EXCEPT !.usage[d] = row]
    BY <2>3, <2>4, <2>5
  <2> HIDE DEF row, one, m
  <2>7. [m EXCEPT !.usage[d] = row] = [l EXCEPT !.usage[d] = row]
    <3>1. [m EXCEPT !.usage[d] = row] =
              [usage |-> [[l.usage EXCEPT ![d] = one] EXCEPT ![d] = row], held |-> l.held]
      BY <2>2
    <3>2. [[l.usage EXCEPT ![d] = one] EXCEPT ![d] = row] = [l.usage EXCEPT ![d] = row]
      BY <1>1
    <3>3. [l EXCEPT !.usage[d] = row] = [usage |-> [l.usage EXCEPT ![d] = row], held |-> l.held]
      BY <2>1
    <3> QED
      BY <3>1, <3>2, <3>3
  <2> QED
    BY <2>6, <2>7
<1> HIDE DEF row
<1> QED
  BY <1>2, <1>3, UsageReplaced

LEMMA MarkedOK ==
    ASSUME NEW l, LedgerOK(l), NEW s \in Sources, NEW from,
           NEW to \in {"held", "expiring", "committed", "released"}
    PROVE  LedgerOK(Marked(l, s, from, to))
<1> DEFINE h == [l.held EXCEPT ![s] = [l.held[s] EXCEPT !.status = to]]
<1>1. h \in [Sources -> Reservation]
  BY DEF LedgerOK, Ledger, Reservation
<1>2. Marked(l, s, from, to) = IF l.held[s].status \in from THEN [l EXCEPT !.held = h] ELSE l
  BY DEF Marked
<1> HIDE DEF h
<1> QED
  BY <1>1, <1>2, HeldReplaced

LEMMA GivenBackOK ==
    ASSUME NEW l, LedgerOK(l), NEW s \in Sources
    PROVE  LedgerOK(GivenBack(l, s))
<1>1. l.held[s].date \in Dates
  BY DEF LedgerOK, Ledger, Reservation
<1>2. LedgerOK(Unreserved(l, l.held[s].date))
  BY <1>1, UnreservedOK
<1>3. LedgerOK(Marked(Unreserved(l, l.held[s].date), s, {l.held[s].status}, "released"))
  BY <1>2, MarkedOK
<1> QED
  BY <1>3 DEF GivenBack

LEMMA OpenedOK ==
    ASSUME NEW l, LedgerOK(l), NEW s \in Sources, NEW d \in Dates
    PROVE  /\ LedgerOK(Reopened(l, s, d))
           /\ Reopened(l, s, d).usage = l.usage
           /\ Reopened(l, s, d).held[s] = [status |-> "held", date |-> d, left |-> TTL]
<1> DEFINE row == [status |-> "held", date |-> d, left |-> TTL]
           h == [l.held EXCEPT ![s] = row]
<1>1. row \in Reservation
  BY QuotaAssumption DEF Reservation
<1> HIDE DEF row
<1>2. h \in [Sources -> Reservation] /\ h[s] = row
  BY <1>1 DEF LedgerOK, Ledger
<1>3. Reopened(l, s, d) = [l EXCEPT !.held = h]
  BY DEF Reopened, row
<1>4. [l EXCEPT !.held = h].usage = l.usage
  BY DEF LedgerOK, Ledger
<1> HIDE DEF h
<1> QED
  BY <1>2, <1>3, <1>4, HeldReplaced DEF row

\* reserve() keeps a ledger within its limits, and what it returns is held or
\* committed.
LEMMA ReserveOK ==
    ASSUME NEW l, LedgerOK(l), NEW s \in Sources, NEW d \in Dates, MayReserve(l, s, d)
    PROVE  /\ LedgerOK(AfterReserve(l, s, d))
           /\ Taken(AfterReserve(l, s, d), s) \in
                 [status: {"none", "held", "committed"}, date: Dates]
<1>1. CASE Reusable(l, s)
  <2>1. l.held[s] \in Reservation /\ l.held[s].status \in {"held", "committed"}
    BY <1>1 DEF LedgerOK, Ledger, Reusable
  <2> QED
    BY <1>1, <2>1 DEF AfterReserve, Taken, Reservation
<1>2. CASE ~Reusable(l, s)
  <2> DEFINE b == GivenBack(l, s)
             o == Reopened(b, s, d)
  <2>1. LedgerOK(b) /\ CanReserve(b, d)
    BY <1>2, GivenBackOK DEF MayReserve
  <2> HIDE DEF b
  <2>2. /\ LedgerOK(o)
        /\ o.usage = b.usage
        /\ o.held[s] = [status |-> "held", date |-> d, left |-> TTL]
    BY <2>1, OpenedOK
  <2>3. CanReserve(o, d)
    BY <2>1, <2>2 DEF CanReserve
  <2> HIDE DEF o
  <2>4. LedgerOK(Reserved(o, d)) /\ Reserved(o, d).held = o.held
    BY <2>2, <2>3, ReservedOK
  <2>5. AfterReserve(l, s, d) = Reserved(o, d)
    BY <1>2 DEF AfterReserve, o, b
  <2> QED
    BY <2>2, <2>4, <2>5 DEF Taken
<1> QED
  BY <1>1, <1>2

LEMMA CommitOK ==
    ASSUME NEW l, LedgerOK(l), NEW s \in Sources,
           NEW taken, taken.date \in Dates, MayCommit(l, taken)
    PROVE  LedgerOK(AfterCommit(l, s, taken))
<1>1. CASE taken.status = "committed"
  BY <1>1 DEF AfterCommit
<1>2. CASE taken.status # "committed"
  <2>1. LedgerOK(Used(l, taken.date))
    BY <1>2, UsedOK DEF MayCommit
  <2> QED
    BY <1>2, <2>1, MarkedOK DEF AfterCommit
<1> QED
  BY <1>1, <1>2

LEMMA ReleaseOK ==
    ASSUME NEW l, LedgerOK(l), NEW s \in Sources, NEW taken, taken.date \in Dates
    PROVE  LedgerOK(AfterRelease(l, s, taken))
<1>1. LedgerOK(Unreserved(l, taken.date))
  BY UnreservedOK
<1> QED
  BY <1>1, MarkedOK DEF AfterRelease

LEMMA ClaimOK ==
    ASSUME NEW l, LedgerOK(l), NEW S \in SUBSET Sources
    PROVE  LedgerOK(AfterClaim(l, S))
<1> DEFINE h == [s \in Sources |-> IF s \in S THEN [l.held[s] EXCEPT !.status = "expiring"]
                                   ELSE l.held[s]]
<1>1. h \in [Sources -> Reservation]
  BY DEF LedgerOK, Ledger, Reservation
<1>2. AfterClaim(l, S) = [l EXCEPT !.held = h]
  BY DEF AfterClaim
<1> HIDE DEF h
<1> QED
  BY <1>1, <1>2, HeldReplaced

LEMMA ExpireOK ==
    ASSUME NEW l, LedgerOK(l), NEW s \in Sources, NEW d \in Dates
    PROVE  LedgerOK(AfterExpire(l, s, d))
<1>1. LedgerOK(Unreserved(l, d))
  BY UnreservedOK
<1> QED
  BY <1>1, MarkedOK DEF AfterExpire

-----------------------------------------------------------------------------
(* The inductive invariant of Speech: a request that is open is one of a     *)
(* client id.                                                                *)

SpeechInv ==
    /\ SpeechTypeOK
    /\ WithinLimit
    /\ \A q \in Requests : call[q].open => call[q].source \in Sources

\* The parts that a step may disturb.
CallsOK ==
    /\ call \in [Requests -> Call]
    /\ \A q \in Requests : call[q].open => call[q].source \in Sources

LEMMA InvParts ==
    SpeechInv <=> /\ LedgerOK(ledger) /\ CallsOK
                  /\ synthesis \in BOOLEAN
                  /\ idem \in [Sources -> {"none", "in_progress", "completed"}]
                  /\ cache \in SUBSET Messages
                  /\ expiry \in [Expirers -> SUBSET (Sources \X Dates)]
                  /\ today \in Dates
  BY DEF SpeechInv, SpeechTypeOK, WithinLimit, LedgerOK, Within, CallsOK

\* The same of the next state.
LEMMA InvPartsNext ==
    SpeechInv' <=> /\ LedgerOK(ledger') /\ CallsOK'
                   /\ synthesis' \in BOOLEAN
                   /\ idem' \in [Sources -> {"none", "in_progress", "completed"}]
                   /\ cache' \in SUBSET Messages
                   /\ expiry' \in [Expirers -> SUBSET (Sources \X Dates)]
                   /\ today' \in Dates
  BY DEF SpeechInv, SpeechTypeOK, WithinLimit, LedgerOK, Within, CallsOK

LEMMA FirstDate == 1 \in Dates
<1>1. Cardinality(Dates) \in Nat
  BY SpeechAssumption, FS_CardinalityType
<1> QED
  BY <1>1, SpeechAssumption

LEMMA DoneCalls ==
    ASSUME CallsOK, NEW q \in Requests, Done(q) PROVE CallsOK'
<1>1. NoCall \in Call /\ ~NoCall.open
  <2>1. 1 \in Dates /\ 0 \in 0 .. MaxCall
    BY FirstDate, SpeechAssumption
  <2> QED
    BY <2>1 DEF NoCall, Call
<1>2. call' = [call EXCEPT ![q] = NoCall]
  BY DEF Done
<1> HIDE DEF NoCall
<1> QED
  BY <1>1, <1>2 DEF CallsOK

-----------------------------------------------------------------------------
(* Every action preserves the invariant. *)

LEMMA SpeechInitHolds == SpeechInit => SpeechInv
<1> SUFFICES ASSUME SpeechInit PROVE SpeechInv
  OBVIOUS
<1>1. 1 \in Dates
  BY FirstDate
<1>2. LedgerOK(ledger)
  BY <1>1, QuotaAssumption DEF SpeechInit, LedgerOK, Within, Ledger, Usage, Reservation
<1>3. CallsOK
  <2>1. NoCall \in Call /\ ~NoCall.open
    BY <1>1, SpeechAssumption DEF NoCall, Call
  <2> QED
    BY <2>1 DEF SpeechInit, CallsOK
<1> QED
  BY <1>1, <1>2, <1>3, InvParts DEF SpeechInit

LEMMA ReserveInv ==
    ASSUME SpeechInv, NEW q \in Requests, NEW s \in Sources, Reserve(q, s)
    PROVE  LedgerOK(ledger') /\ CallsOK'
<1>1. LedgerOK(ledger) /\ CallsOK /\ today \in Dates
  BY InvParts
<1>2. /\ LedgerOK(ledger')
      /\ Taken(ledger', s) \in [status: {"none", "held", "committed"}, date: Dates]
  BY <1>1, ReserveOK DEF Reserve
<1>3. [open |-> TRUE, source |-> s, taken |-> Taken(ledger', s), age |-> 0] \in Call
  <2>1. 0 \in 0 .. MaxCall
    BY SpeechAssumption
  <2> QED
    BY <1>2, <2>1 DEF Call
<1>4. CallsOK'
  BY <1>1, <1>3 DEF Reserve, CallsOK
<1> QED
  BY <1>2, <1>4

LEMMA StartInv ==
    ASSUME SpeechInv, NEW q \in Requests, NEW s \in Sources,
           Transcribe(q, s) \/ Synthesize(q, s)
    PROVE  SpeechInv'
<1>1. LedgerOK(ledger') /\ CallsOK'
  BY ReserveInv DEF Transcribe, Synthesize
<1>2. idem' \in [Sources -> {"none", "in_progress", "completed"}]
  BY InvParts DEF Transcribe, Synthesize
<1>3. UNCHANGED <<synthesis, cache, expiry, today>>
  BY DEF Transcribe, Synthesize
<1> QED
  BY <1>1, <1>2, <1>3, InvParts, InvPartsNext

LEMMA CacheHitInv ==
    ASSUME SpeechInv, NEW s \in Sources, CacheHit(s) PROVE SpeechInv'
<1>1. /\ idem' = [idem EXCEPT ![s] = "completed"]
      /\ UNCHANGED <<synthesis, ledger, cache, call, expiry, today>>
  BY DEF CacheHit
<1> QED
  BY <1>1, InvParts, InvPartsNext DEF CallsOK

LEMMA AnswerInv ==
    ASSUME SpeechInv, NEW q \in Requests, Answer(q) PROVE SpeechInv'
<1> DEFINE s == call[q].source
           taken == call[q].taken
<1>1. /\ LedgerOK(ledger) /\ CallsOK
      /\ idem \in [Sources -> {"none", "in_progress", "completed"}]
      /\ cache \in SUBSET Messages
  BY InvParts
<1>2. call[q].open /\ Done(q)
  BY DEF Answer, ProviderFails, Finalize, FinalizeRaises
<1>3. s \in Sources /\ taken.date \in Dates
  BY <1>1, <1>2 DEF CallsOK, Call
<1>4. CallsOK'
  BY <1>1, <1>2, DoneCalls
<1>5. MessageOf[s] \in Messages
  BY <1>3, SpeechAssumption
<1>6. CASE ProviderFails(q)
  <2>1. /\ ledger' = AfterRelease(ledger, s, taken)
        /\ idem' = [idem EXCEPT ![s] = IF @ = "in_progress" THEN "none" ELSE @]
        /\ UNCHANGED <<synthesis, cache, expiry, today>>
    BY <1>6 DEF ProviderFails
  <2>2. LedgerOK(ledger')
    BY <1>1, <1>3, <2>1, ReleaseOK
  <2>3. idem' \in [Sources -> {"none", "in_progress", "completed"}]
    BY <1>1, <2>1
  <2> QED
    BY <1>4, <2>1, <2>2, <2>3, InvParts, InvPartsNext
<1>7. CASE Finalize(q)
  <2>1. /\ MayCommit(ledger, taken)
        /\ ledger' = AfterCommit(ledger, s, taken)
        /\ idem' = [idem EXCEPT ![s] = "completed"]
        /\ cache' = IF synthesis THEN cache \cup {MessageOf[s]} ELSE cache
        /\ UNCHANGED <<synthesis, expiry, today>>
    BY <1>7 DEF Finalize
  <2>2. LedgerOK(ledger')
    BY <1>1, <1>3, <2>1, CommitOK
  <2>3. /\ idem' \in [Sources -> {"none", "in_progress", "completed"}]
        /\ cache' \in SUBSET Messages
    BY <1>1, <1>5, <2>1
  <2> QED
    BY <1>4, <2>1, <2>2, <2>3, InvParts, InvPartsNext
<1>8. CASE FinalizeRaises(q)
  <2>1. /\ cache' = IF synthesis THEN cache \cup {MessageOf[s]} ELSE cache
        /\ UNCHANGED <<synthesis, ledger, idem, expiry, today>>
    BY <1>8 DEF FinalizeRaises
  <2>2. cache' \in SUBSET Messages
    BY <1>1, <1>5, <2>1
  <2> QED
    BY <1>4, <2>1, <2>2, InvParts, InvPartsNext
<1> QED
  BY <1>6, <1>7, <1>8 DEF Answer

LEMMA CrashInv ==
    ASSUME SpeechInv, NEW q \in Requests, RequestDies(q) PROVE SpeechInv'
<1>1. Done(q) /\ UNCHANGED <<synthesis, ledger, idem, cache, expiry, today>>
  BY DEF RequestDies
<1>2. CallsOK'
  BY <1>1, DoneCalls, InvParts
<1> QED
  BY <1>1, <1>2, InvParts, InvPartsNext

LEMMA ExpireClaimInv ==
    ASSUME SpeechInv, NEW e \in Expirers, ExpireClaim(e) PROVE SpeechInv'
<1>1. PICK S \in SUBSET Expirable(ledger) :
          /\ ledger' = AfterClaim(ledger, S)
          /\ expiry' = [expiry EXCEPT ![e] = {<<s, ledger.held[s].date>> : s \in S}]
  BY DEF ExpireClaim
<1>2. S \in SUBSET Sources
  BY DEF Expirable
<1>3. LedgerOK(ledger')
  BY <1>1, <1>2, ClaimOK, InvParts
<1>4. {<<s, ledger.held[s].date>> : s \in S} \in SUBSET (Sources \X Dates)
  BY <1>2, InvParts DEF LedgerOK, Ledger, Reservation
<1>5. expiry' \in [Expirers -> SUBSET (Sources \X Dates)]
  BY <1>1, <1>4, InvParts
<1>6. UNCHANGED <<synthesis, idem, cache, call, today>>
  BY DEF ExpireClaim
<1> QED
  BY <1>3, <1>5, <1>6, InvParts, InvPartsNext DEF CallsOK

LEMMA ExpireOneInv ==
    ASSUME SpeechInv, NEW e \in Expirers, NEW s \in Sources, NEW d \in Dates,
           ExpireOne(e, s, d)
    PROVE  SpeechInv'
<1>1. /\ ledger' = AfterExpire(ledger, s, d)
      /\ expiry' = [expiry EXCEPT ![e] = @ \ {<<s, d>>}]
      /\ UNCHANGED <<synthesis, idem, cache, call, today>>
  BY DEF ExpireOne
<1>2. LedgerOK(ledger')
  BY <1>1, ExpireOK, InvParts
<1>3. expiry' \in [Expirers -> SUBSET (Sources \X Dates)]
  BY <1>1, InvParts
<1> QED
  BY <1>1, <1>2, <1>3, InvParts, InvPartsNext DEF CallsOK

LEMMA TickInv == ASSUME SpeechInv, SpeechTick PROVE SpeechInv'
<1> DEFINE h == [s \in Sources |-> Sooner(ledger.held[s])]
<1>1. h \in [Sources -> Reservation]
  <2>1. ASSUME NEW r \in Reservation
        PROVE  Sooner(r) \in Reservation
    <3>1. (IF r.left > 0 THEN r.left - 1 ELSE 0) \in 0 .. TTL
      BY QuotaAssumption DEF Reservation
    <3> QED
      BY <3>1 DEF Reservation, Sooner
  <2> QED
    BY <2>1, InvParts DEF LedgerOK, Ledger
<1>2. ledger' = [ledger EXCEPT !.held = h]
  BY DEF SpeechTick
<1> HIDE DEF h
<1>3. LedgerOK(ledger')
  BY <1>1, <1>2, HeldReplaced, InvParts
<1>4. CallsOK'
  <2>1. /\ CallsOK
        /\ \A q \in Requests : call[q].open => call[q].age < MaxCall
        /\ call' = [q \in Requests |->
                      IF call[q].open THEN [call[q] EXCEPT !.age = @ + 1] ELSE call[q]]
    BY InvParts DEF SpeechTick
  <2>2. ASSUME NEW q \in Requests
        PROVE  /\ call'[q] \in Call
               /\ call'[q].open => call'[q].source \in Sources
    <3>1. call[q] \in Call /\ (call[q].open => call[q].source \in Sources)
      BY <2>1 DEF CallsOK
    <3>2. CASE call[q].open
      <4>1. call[q].age + 1 \in 0 .. MaxCall
        BY <2>1, <3>1, <3>2, SpeechAssumption DEF Call
      <4> QED
        BY <2>1, <3>1, <3>2, <4>1 DEF Call
    <3>3. CASE ~call[q].open
      BY <2>1, <3>1, <3>3
    <3> QED
      BY <3>2, <3>3
  <2> QED
    BY <2>1, <2>2 DEF CallsOK
<1> QED
  BY <1>3, <1>4, InvParts, InvPartsNext DEF SpeechTick

LEMMA OtherInv ==
    ASSUME SpeechInv,
           \/ \E e \in Expirers : ExpireCrash(e)
           \/ \E m \in Messages : AudioLost(m)
           \/ Midnight
           \/ UNCHANGED speechVars
    PROVE  SpeechInv'
<1>1. /\ LedgerOK(ledger) /\ CallsOK
      /\ cache \in SUBSET Messages
      /\ expiry \in [Expirers -> SUBSET (Sources \X Dates)]
      /\ today \in Dates
      /\ synthesis \in BOOLEAN
      /\ idem \in [Sources -> {"none", "in_progress", "completed"}]
  BY InvParts
<1>2. UNCHANGED <<synthesis, ledger, idem, call>>
  BY DEF ExpireCrash, AudioLost, Midnight, speechVars
<1>3. cache' \in SUBSET Messages
  BY <1>1 DEF ExpireCrash, AudioLost, Midnight, speechVars
<1>4. expiry' \in [Expirers -> SUBSET (Sources \X Dates)]
  BY <1>1 DEF ExpireCrash, AudioLost, Midnight, speechVars
<1>5. today' \in Dates
  BY <1>1 DEF ExpireCrash, AudioLost, Midnight, speechVars
<1>6. CallsOK'
  BY <1>1, <1>2 DEF CallsOK
<1> QED
  BY <1>1, <1>2, <1>3, <1>4, <1>5, <1>6, InvPartsNext

LEMMA SpeechNextHolds == ASSUME SpeechInv, [SpeechNext]_speechVars PROVE SpeechInv'
  BY StartInv, CacheHitInv, AnswerInv, CrashInv, ExpireClaimInv, ExpireOneInv,
     TickInv, OtherInv DEF SpeechNext

LEMMA SpeechInvariance == SpeechSpec => []SpeechInv
  BY SpeechInitHolds, SpeechNextHolds, PTL DEF SpeechSpec

-----------------------------------------------------------------------------
(* What it implies. *)

\* Type correctness of the ledger, the requests and the expirers.
THEOREM SpeechTypeCorrect == SpeechSpec => []SpeechTypeOK
<1>1. SpeechInv => SpeechTypeOK
  BY DEF SpeechInv
<1> QED
  BY <1>1, SpeechInvariance, PTL

\* However many requests and expirers interleave, whatever they take down twice
\* and however long they keep a reservation, a day's limit is never exceeded.
THEOREM LimitHolds == SpeechSpec => []WithinLimit
<1>1. SpeechInv => WithinLimit
  BY DEF SpeechInv
<1> QED
  BY <1>1, SpeechInvariance, PTL
-----------------------------------------------------------------------------
(* What the statements of the ledger do, row by row.                         *)

LEMMA ReservedRows ==
    ASSUME NEW l, LedgerOK(l), NEW d \in Dates
    PROVE  /\ Reserved(l, d).usage = [l.usage EXCEPT ![d] = [used |-> l.usage[d].used,
                                                reserved |-> l.usage[d].reserved + 1]]
           /\ Reserved(l, d).held = l.held
<1>1. /\ l = [usage |-> l.usage, held |-> l.held]
      /\ l.usage[d] = [used |-> l.usage[d].used, reserved |-> l.usage[d].reserved]
  BY DEF LedgerOK, Ledger, Usage
<1>2. [l.usage[d] EXCEPT !.reserved = @ + 1] =
          [used |-> l.usage[d].used, reserved |-> l.usage[d].reserved + 1]
  BY <1>1
<1> QED
  BY <1>1, <1>2 DEF Reserved

LEMMA UnreservedRows ==
    ASSUME NEW l, LedgerOK(l), NEW d \in Dates, HasReserved(l, d)
    PROVE  /\ Unreserved(l, d).usage = [l.usage EXCEPT ![d] = [used |-> l.usage[d].used,
                                                  reserved |-> l.usage[d].reserved - 1]]
           /\ Unreserved(l, d).held = l.held
<1>1. /\ l = [usage |-> l.usage, held |-> l.held]
      /\ l.usage[d] = [used |-> l.usage[d].used, reserved |-> l.usage[d].reserved]
  BY DEF LedgerOK, Ledger, Usage
<1>2. [l.usage[d] EXCEPT !.reserved = @ - 1] =
          [used |-> l.usage[d].used, reserved |-> l.usage[d].reserved - 1]
  BY <1>1
<1> QED
  BY <1>1, <1>2 DEF Unreserved

LEMMA UsedRows ==
    ASSUME NEW l, LedgerOK(l), NEW d \in Dates
    PROVE  /\ Used(l, d).usage = [l.usage EXCEPT ![d] = [used |-> l.usage[d].used + 1,
                                            reserved |-> l.usage[d].reserved - 1]]
           /\ Used(l, d).held = l.held
<1> DEFINE one == [used |-> l.usage[d].used, reserved |-> l.usage[d].reserved - 1]
           two == [used |-> l.usage[d].used + 1, reserved |-> l.usage[d].reserved - 1]
           m == [l EXCEPT !.usage[d] = one]
<1>1. /\ l = [usage |-> l.usage, held |-> l.held]
      /\ l.usage[d] = [used |-> l.usage[d].used, reserved |-> l.usage[d].reserved]
      /\ l.usage \in [Dates -> Usage]
  BY DEF LedgerOK, Ledger, Usage
<1>2. [l.usage[d] EXCEPT !.reserved = @ - 1] = one /\ [one EXCEPT !.used = @ + 1] = two
  BY <1>1
<1> HIDE DEF one, two
<1>3. m.usage = [l.usage EXCEPT ![d] = one] /\ m.usage[d] = one /\ m.held = l.held
  BY <1>1
<1>4. Used(l, d) = [m EXCEPT !.usage[d] = [m.usage[d] EXCEPT !.used = @ + 1]]
  BY <1>2 DEF Used
<1>5. Used(l, d) = [m EXCEPT !.usage[d] = two]
  BY <1>2, <1>3, <1>4
<1>6. m = [usage |-> m.usage, held |-> m.held]
  BY <1>1
<1> HIDE DEF m
<1>7. Used(l, d).usage = [m.usage EXCEPT ![d] = two] /\ Used(l, d).held = m.held
  BY <1>5, <1>6
<1> QED
  BY <1>1, <1>3, <1>7 DEF two

\* A row that has one of the statuses asked for is marked.
LEMMA MarkedRows ==
    ASSUME NEW l, LedgerOK(l), NEW s \in Sources, NEW from, NEW to,
           l.held[s].status \in from
    PROVE  /\ Marked(l, s, from, to).usage = l.usage
           /\ Marked(l, s, from, to).held = [l.held EXCEPT ![s] = [status |-> to,
                                                 date |-> l.held[s].date,
                                                 left |-> l.held[s].left]]
<1>1. /\ l = [usage |-> l.usage, held |-> l.held]
      /\ l.held[s] = [status |-> l.held[s].status, date |-> l.held[s].date,
                      left |-> l.held[s].left]
  BY DEF LedgerOK, Ledger, Reservation
<1>2. [l.held[s] EXCEPT !.status = to] =
          [status |-> to, date |-> l.held[s].date, left |-> l.held[s].left]
  BY <1>1
<1> QED
  BY <1>1, <1>2 DEF Marked

-----------------------------------------------------------------------------
(* The counters of a ledger are exact.  A statement moves one reservation in *)
(* or out of those that are counted at one date, and its counter with it.    *)

Exact(l) ==
    \A d \in Dates : /\ l.usage[d].reserved = Cardinality(HeldAt(l, d))
                     /\ l.usage[d].used = Cardinality(CommittedAt(l, d))

LEMMA CountedSets ==
    ASSUME IsFiniteSet(Sources), NEW l, NEW d
    PROVE  /\ IsFiniteSet(HeldAt(l, d)) /\ IsFiniteSet(CommittedAt(l, d))
           /\ Cardinality(HeldAt(l, d)) \in Nat /\ Cardinality(CommittedAt(l, d)) \in Nat
<1>1. HeldAt(l, d) \in SUBSET Sources /\ CommittedAt(l, d) \in SUBSET Sources
  BY DEF HeldAt, CommittedAt
<1>2. IsFiniteSet(HeldAt(l, d)) /\ IsFiniteSet(CommittedAt(l, d))
  BY <1>1, FS_Subset
<1> QED
  BY <1>2, FS_CardinalityType

\* A reservation that is counted at its date finds something reserved there.
LEMMA CountedIsReserved ==
    ASSUME IsFiniteSet(Sources), NEW l, LedgerOK(l), Exact(l), NEW s \in Sources,
           l.held[s].status \in {"held", "expiring"}
    PROVE  l.held[s].date \in Dates /\ HasReserved(l, l.held[s].date)
<1> DEFINE d == l.held[s].date
<1>1. d \in Dates
  BY DEF LedgerOK, Ledger, Reservation
<1>2. s \in HeldAt(l, d)
  BY DEF HeldAt
<1>3. Cardinality(HeldAt(l, d)) \in Nat /\ Cardinality(HeldAt(l, d)) # 0
  BY <1>2, CountedSets, FS_EmptySet
<1>4. l.usage[d].reserved = Cardinality(HeldAt(l, d))
  BY <1>1 DEF Exact
<1> QED
  BY <1>1, <1>3, <1>4 DEF HasReserved

\* What is reserved anew is counted.
LEMMA ExactOpened ==
    ASSUME IsFiniteSet(Sources), NEW l, LedgerOK(l), Exact(l), NEW s \in Sources,
           NEW d \in Dates, l.held[s].status \in {"none", "released"}
    PROVE  LET m == Reserved(Reopened(l, s, d), d) IN
           /\ Exact(m)
           /\ m.held = [l.held EXCEPT ![s] = [status |-> "held", date |-> d, left |-> TTL]]
<1> DEFINE o == Reopened(l, s, d)
           m == Reserved(o, d)
           row == [status |-> "held", date |-> d, left |-> TTL]
<1>1. l = [usage |-> l.usage, held |-> l.held] /\ l.held \in [Sources -> Reservation]
      /\ l.usage \in [Dates -> Usage]
  BY DEF LedgerOK, Ledger
<1>2. LedgerOK(o) /\ o.usage = l.usage
  BY OpenedOK
<1>3. o.held = [l.held EXCEPT ![s] = row]
  BY <1>1 DEF Reopened
<1> HIDE DEF o
<1>4. /\ m.usage = [l.usage EXCEPT ![d] = [used |-> l.usage[d].used,
                                           reserved |-> l.usage[d].reserved + 1]]
      /\ m.held = [l.held EXCEPT ![s] = row]
  BY <1>2, <1>3, ReservedRows
<1> HIDE DEF m
<1>5. /\ \A t \in Sources : t # s => m.held[t] = l.held[t]
      /\ m.held[s].status = "held" /\ m.held[s].date = d
  BY <1>1, <1>4
<1>6. ASSUME NEW e \in Dates
      PROVE  /\ m.usage[e].reserved = Cardinality(HeldAt(m, e))
             /\ m.usage[e].used = Cardinality(CommittedAt(m, e))
  <2>1. CommittedAt(m, e) = CommittedAt(l, e)
    BY <1>5 DEF CommittedAt
  <2>2. m.usage[e].used = l.usage[e].used
    BY <1>1, <1>4
  <2>3. CASE e = d
    <3>1. HeldAt(m, e) = HeldAt(l, e) \cup {s} /\ s \notin HeldAt(l, e)
      BY <1>5, <2>3 DEF HeldAt
    <3>2. Cardinality(HeldAt(m, e)) = Cardinality(HeldAt(l, e)) + 1
      BY <3>1, CountedSets, FS_AddElement
    <3>3. m.usage[e].reserved = l.usage[e].reserved + 1
      BY <1>1, <1>4, <2>3
    <3> QED
      BY <2>1, <2>2, <3>2, <3>3 DEF Exact
  <2>4. CASE e # d
    <3>1. HeldAt(m, e) = HeldAt(l, e)
      BY <1>5, <2>4 DEF HeldAt
    <3>2. m.usage[e].reserved = l.usage[e].reserved
      BY <1>1, <1>4, <2>4
    <3> QED
      BY <2>1, <2>2, <3>1, <3>2 DEF Exact
  <2> QED
    BY <2>3, <2>4
<1> QED
  BY <1>4, <1>6 DEF Exact, m, o

\* What is released is not counted any more.
LEMMA ExactReleased ==
    ASSUME IsFiniteSet(Sources), NEW l, LedgerOK(l), Exact(l), NEW s \in Sources,
           NEW from, l.held[s].status \in from \cap {"held", "expiring"}
    PROVE  LET d == l.held[s].date
               m == Marked(Unreserved(l, d), s, from, "released")
           IN /\ Exact(m)
              /\ m.held = [l.held EXCEPT ![s] = [status |-> "released", date |-> d,
                                                 left |-> l.held[s].left]]
<1> DEFINE d == l.held[s].date
           o == Unreserved(l, d)
           m == Marked(o, s, from, "released")
<1>1. /\ l.held \in [Sources -> Reservation] /\ l.usage \in [Dates -> Usage]
      /\ d \in Dates
  BY DEF LedgerOK, Ledger, Reservation
<1>2. HasReserved(l, d)
  BY CountedIsReserved
<1>3. /\ LedgerOK(o)
      /\ o.usage = [l.usage EXCEPT ![d] = [used |-> l.usage[d].used,
                                           reserved |-> l.usage[d].reserved - 1]]
      /\ o.held = l.held
  BY <1>1, <1>2, UnreservedOK, UnreservedRows
<1> HIDE DEF o
<1>4. /\ m.usage = o.usage
      /\ m.held = [l.held EXCEPT ![s] = [status |-> "released", date |-> d,
                                         left |-> l.held[s].left]]
  BY <1>3, MarkedRows
<1> HIDE DEF m
<1>5. /\ \A t \in Sources : t # s => m.held[t] = l.held[t]
      /\ m.held[s].status = "released"
  BY <1>1, <1>4
<1>6. ASSUME NEW e \in Dates
      PROVE  /\ m.usage[e].reserved = Cardinality(HeldAt(m, e))
             /\ m.usage[e].used = Cardinality(CommittedAt(m, e))
  <2>1. CommittedAt(m, e) = CommittedAt(l, e)
    BY <1>5 DEF CommittedAt
  <2>2. m.usage[e].used = l.usage[e].used
    BY <1>1, <1>3, <1>4
  <2>3. CASE e = d
    <3>1. HeldAt(m, e) = HeldAt(l, e) \ {s} /\ s \in HeldAt(l, e)
      BY <1>5, <2>3 DEF HeldAt
    <3>2. Cardinality(HeldAt(m, e)) = Cardinality(HeldAt(l, e)) - 1
      BY <3>1, CountedSets, FS_RemoveElement
    <3>3. m.usage[e].reserved = l.usage[e].reserved - 1
      BY <1>1, <1>3, <1>4, <2>3
    <3> QED
      BY <2>1, <2>2, <3>2, <3>3 DEF Exact
  <2>4. CASE e # d
    <3>1. HeldAt(m, e) = HeldAt(l, e)
      BY <1>5, <2>4 DEF HeldAt
    <3>2. m.usage[e].reserved = l.usage[e].reserved
      BY <1>1, <1>3, <1>4, <2>4
    <3> QED
      BY <2>1, <2>2, <3>1, <3>2 DEF Exact
  <2> QED
    BY <2>3, <2>4
<1> QED
  BY <1>4, <1>6 DEF Exact, m, o

\* What is committed is counted as used instead.
LEMMA ExactCommitted ==
    ASSUME IsFiniteSet(Sources), NEW l, LedgerOK(l), Exact(l), NEW s \in Sources,
           l.held[s].status = "held"
    PROVE  LET d == l.held[s].date
               m == Marked(Used(l, d), s, {"held", "expiring"}, "committed")
           IN /\ Exact(m)
              /\ m.held = [l.held EXCEPT ![s] = [status |-> "committed", date |-> d,
                                                 left |-> l.held[s].left]]
<1> DEFINE d == l.held[s].date
           o == Used(l, d)
           m == Marked(o, s, {"held", "expiring"}, "committed")
<1>1. /\ l.held \in [Sources -> Reservation] /\ l.usage \in [Dates -> Usage]
      /\ d \in Dates
  BY DEF LedgerOK, Ledger, Reservation
<1>2. HasReserved(l, d)
  BY CountedIsReserved
<1>3. /\ LedgerOK(o)
      /\ o.usage = [l.usage EXCEPT ![d] = [used |-> l.usage[d].used + 1,
                                           reserved |-> l.usage[d].reserved - 1]]
      /\ o.held = l.held
  BY <1>1, <1>2, UsedOK, UsedRows
<1> HIDE DEF o
<1>4. /\ m.usage = o.usage
      /\ m.held = [l.held EXCEPT ![s] = [status |-> "committed", date |-> d,
                                         left |-> l.held[s].left]]
  BY <1>3, MarkedRows
<1> HIDE DEF m
<1>5. /\ \A t \in Sources : t # s => m.held[t] = l.held[t]
      /\ m.held[s].status = "committed" /\ m.held[s].date = d
  BY <1>1, <1>4
<1>6. ASSUME NEW e \in Dates
      PROVE  /\ m.usage[e].reserved = Cardinality(HeldAt(m, e))
             /\ m.usage[e].used = Cardinality(CommittedAt(m, e))
  <2>1. CASE e = d
    <3>1. /\ HeldAt(m, e) = HeldAt(l, e) \ {s} /\ s \in HeldAt(l, e)
          /\ CommittedAt(m, e) = CommittedAt(l, e) \cup {s} /\ s \notin CommittedAt(l, e)
      BY <1>5, <2>1 DEF HeldAt, CommittedAt
    <3>2. /\ Cardinality(HeldAt(m, e)) = Cardinality(HeldAt(l, e)) - 1
          /\ Cardinality(CommittedAt(m, e)) = Cardinality(CommittedAt(l, e)) + 1
      <4>1. Cardinality(HeldAt(m, e)) = Cardinality(HeldAt(l, e)) - 1
        BY <3>1, CountedSets, FS_RemoveElement
      <4>2. Cardinality(CommittedAt(m, e)) = Cardinality(CommittedAt(l, e)) + 1
        BY <3>1, CountedSets, FS_AddElement
      <4> QED
        BY <4>1, <4>2
    <3>3. /\ m.usage[e].reserved = l.usage[e].reserved - 1
          /\ m.usage[e].used = l.usage[e].used + 1
      BY <1>1, <1>3, <1>4, <2>1
    <3> QED
      BY <3>2, <3>3 DEF Exact
  <2>2. CASE e # d
    <3>1. HeldAt(m, e) = HeldAt(l, e) /\ CommittedAt(m, e) = CommittedAt(l, e)
      BY <1>5, <2>2 DEF HeldAt, CommittedAt
    <3>2. m.usage[e] = l.usage[e]
      BY <1>1, <1>3, <1>4, <2>2
    <3> QED
      BY <3>1, <3>2 DEF Exact
  <2> QED
    BY <2>1, <2>2
<1> QED
  BY <1>4, <1>6 DEF Exact, m, o

\* Statements that leave dates and counters alone, and a reservation that is
\* counted counted, keep the ledger exact.
LEMMA ExactKept ==
    ASSUME NEW l, NEW m, Exact(l), m.usage = l.usage,
           \A s \in Sources :
              /\ m.held[s].date = l.held[s].date
              /\ m.held[s].status \in {"held", "expiring"}
                    <=> l.held[s].status \in {"held", "expiring"}
              /\ m.held[s].status = "committed" <=> l.held[s].status = "committed"
    PROVE  Exact(m)
<1>1. \A d \in Dates : HeldAt(m, d) = HeldAt(l, d) /\ CommittedAt(m, d) = CommittedAt(l, d)
  BY DEF HeldAt, CommittedAt
<1> QED
  BY <1>1 DEF Exact
-----------------------------------------------------------------------------
(* The inductive invariant of /transcribe: who claimed a client id owns its  *)
(* reservation until it answers, because expires_at is later than the end of *)
(* any call, and the one expirer owns what it has claimed.                   *)

\* A client id that nobody has claimed has nothing reserved.
UnclaimedFree ==
    \A s \in Sources : idem[s] = "none" => ledger.held[s].status \in {"none", "released"}

CallOwns(q) ==
    LET s == call[q].source
        r == ledger.held[s]
    IN call[q].open =>
          /\ idem[s] = "in_progress"
          /\ r.status = "held" /\ r.left + call[q].age >= TTL
          /\ call[q].taken = [status |-> "held", date |-> r.date]

OneCallEach ==
    \A q, r \in Requests :
        call[q].open /\ call[r].open /\ call[q].source = call[r].source => q = r

ExpiryOwns ==
    \A e \in Expirers, s \in Sources, d \in Dates :
        <<s, d>> \in expiry[e] => ledger.held[s].status = "expiring" /\ ledger.held[s].date = d

AnswerCharged ==
    \A s \in Sources : idem[s] = "completed" <=> ledger.held[s].status = "committed"

OwnedInv ==
    /\ Exact(ledger)
    /\ UnclaimedFree /\ AnswerCharged
    /\ \A q \in Requests : CallOwns(q)
    /\ OneCallEach /\ ExpiryOwns

TranscribeInv == SpeechInv /\ (~synthesis => OwnedInv)

\* One process at most runs expire_due_reservations, and a call ends before the
\* reservation it took expires: 30 seconds at most (app/providers/contract.py:24) of 120
\* (app/domain/quota.py:60).
OneExpirer ==
    /\ IsFiniteSet(Sources)
    /\ \A e, f \in Expirers : e = f
    /\ MaxCall < TTL

-----------------------------------------------------------------------------
LEMMA OwnedInit == ASSUME OneExpirer, SpeechInit PROVE OwnedInv
<1>1. \A d \in Dates : HeldAt(ledger, d) = {} /\ CommittedAt(ledger, d) = {}
  BY DEF SpeechInit, HeldAt, CommittedAt
<1>2. Exact(ledger)
  BY <1>1, FS_EmptySet DEF Exact, SpeechInit
<1>3. \A q \in Requests : ~call[q].open
  BY DEF SpeechInit, NoCall
<1> QED
  BY <1>2, <1>3 DEF SpeechInit, OwnedInv, UnclaimedFree, AnswerCharged, CallOwns, OneCallEach, ExpiryOwns

\* The facts that the steps start from.
LEMMA OwnedTypes ==
    ASSUME SpeechInv
    PROVE  /\ LedgerOK(ledger)
           /\ ledger.held \in [Sources -> Reservation]
           /\ idem \in [Sources -> {"none", "in_progress", "completed"}]
           /\ call \in [Requests -> Call]
           /\ \A q \in Requests : call[q].open => call[q].source \in Sources
           /\ expiry \in [Expirers -> SUBSET (Sources \X Dates)]
           /\ today \in Dates
  BY InvParts DEF CallsOK, LedgerOK, Ledger

LEMMA OpenCall ==
    ASSUME SpeechInv, OwnedInv, NEW q \in Requests, call[q].open
    PROVE  LET s == call[q].source IN
           /\ s \in Sources /\ idem[s] = "in_progress" /\ ledger.held[s].status = "held"
           /\ ledger.held[s].left + call[q].age >= TTL
           /\ call[q].taken = [status |-> "held", date |-> ledger.held[s].date]
           /\ call[q].taken.date = ledger.held[s].date
<1>1. CallOwns(q) /\ call[q].source \in Sources
  BY OwnedTypes DEF OwnedInv
<1>2. call[q].taken = [status |-> "held", date |-> ledger.held[call[q].source].date]
  BY <1>1 DEF CallOwns
<1>3. call[q].taken.date = ledger.held[call[q].source].date
  BY <1>2
<1> QED
  BY <1>1, <1>2, <1>3 DEF CallOwns

LEMMA TranscribeOwned ==
    ASSUME OneExpirer, SpeechInv, OwnedInv, NEW q \in Requests, NEW s \in Sources,
           Transcribe(q, s)
    PROVE  OwnedInv'
<1> DEFINE row == [status |-> "held", date |-> today, left |-> TTL]
<1>1. /\ idem[s] = "none" /\ ~call[q].open
      /\ idem' = [idem EXCEPT ![s] = "in_progress"]
      /\ UNCHANGED <<expiry, today>>
  BY DEF Transcribe
<1>2. ledger.held[s].status \in {"none", "released"}
  BY <1>1 DEF OwnedInv, UnclaimedFree
<1>3. /\ ledger' = Reserved(Reopened(ledger, s, today), today)
  <2>1. ~Reusable(ledger, s) /\ GivenBack(ledger, s) = ledger
    BY <1>2 DEF Reusable, GivenBack
  <2> QED
    BY <2>1 DEF Transcribe, Reserve, AfterReserve
<1>4. /\ Exact(ledger')
      /\ ledger'.held = [ledger.held EXCEPT ![s] = row]
  BY <1>2, <1>3, ExactOpened, OwnedTypes DEF OwnedInv, OneExpirer
<1>5. ledger'.held[s] = row /\ \A t \in Sources : t # s => ledger'.held[t] = ledger.held[t]
  BY <1>4, OwnedTypes
<1>6. /\ call' = [call EXCEPT ![q] = [open |-> TRUE, source |-> s,
                                      taken |-> [status |-> "held", date |-> today], age |-> 0]]
  BY <1>5 DEF Transcribe, Reserve, Taken
<1>7. /\ call'[q] = [open |-> TRUE, source |-> s,
                     taken |-> [status |-> "held", date |-> today], age |-> 0]
      /\ \A r \in Requests : r # q => call'[r] = call[r]
  BY <1>6, OwnedTypes
<1>8. \A r \in Requests : r # q /\ call[r].open => call[r].source # s
  BY <1>1 DEF OwnedInv, CallOwns
<1>9. UnclaimedFree' /\ AnswerCharged'
  BY <1>1, <1>5, OwnedTypes DEF OwnedInv, UnclaimedFree, AnswerCharged
<1>10. ASSUME NEW r \in Requests PROVE CallOwns(r)'
  <2>1. CASE r = q
    BY <1>1, <1>5, <1>7, <2>1, OwnedTypes, QuotaAssumption DEF CallOwns
  <2>2. CASE r # q
    BY <1>1, <1>5, <1>7, <1>8, <2>2, OwnedTypes DEF OwnedInv, CallOwns
  <2> QED
    BY <2>1, <2>2
<1>11. OneCallEach'
  BY <1>7, <1>8 DEF OwnedInv, OneCallEach
<1>12. ExpiryOwns'
  BY <1>1, <1>2, <1>5 DEF OwnedInv, ExpiryOwns
<1> QED
  BY <1>4, <1>9, <1>10, <1>11, <1>12 DEF OwnedInv

\* An answer ends the one call of a client id, and with it what the call owned.
LEMMA AnswerOwned ==
    ASSUME OneExpirer, SpeechInv, OwnedInv, ~synthesis, NEW q \in Requests, Answer(q)
    PROVE  OwnedInv'
<1> DEFINE s == call[q].source
           taken == call[q].taken
           d == ledger.held[s].date
<1>1. /\ call[q].open /\ call' = [call EXCEPT ![q] = NoCall]
      /\ UNCHANGED expiry
  BY DEF Answer, ProviderFails, Finalize, FinalizeRaises, Done
<1>2. /\ s \in Sources /\ idem[s] = "in_progress" /\ ledger.held[s].status = "held"
      /\ taken = [status |-> "held", date |-> d]
  BY <1>1, OwnedTypes DEF OwnedInv, CallOwns
<1>3. d \in Dates /\ HasReserved(ledger, d)
  BY <1>2, CountedIsReserved, OwnedTypes DEF OwnedInv, OneExpirer
<1>4. ~call'[q].open /\ \A r \in Requests : r # q => call'[r] = call[r]
  BY <1>1, OwnedTypes DEF NoCall
<1>5. \A r \in Requests : r # q /\ call[r].open => call[r].source # s
  BY <1>1 DEF OwnedInv, OneCallEach
<1>6. ASSUME NEW to \in {"released", "committed"}, Exact(ledger'),
             ledger'.held = [ledger.held EXCEPT ![s] = [status |-> to, date |-> d,
                                                       left |-> ledger.held[s].left]],
             idem' = [idem EXCEPT ![s] = IF to = "committed" THEN "completed" ELSE "none"]
      PROVE  OwnedInv'
  <2>1. /\ ledger'.held[s].status = to
        /\ \A t \in Sources : t # s => ledger'.held[t] = ledger.held[t]
    BY <1>2, <1>6, OwnedTypes
  <2>2. /\ idem'[s] = IF to = "committed" THEN "completed" ELSE "none"
        /\ \A t \in Sources : t # s => idem'[t] = idem[t]
    BY <1>2, <1>6, OwnedTypes
  <2>3. UnclaimedFree' /\ AnswerCharged'
    BY <2>1, <2>2 DEF OwnedInv, UnclaimedFree, AnswerCharged
  <2>4. ASSUME NEW r \in Requests PROVE CallOwns(r)'
    BY <1>4, <1>5, <2>1, <2>2, OwnedTypes DEF OwnedInv, CallOwns
  <2>5. OneCallEach'
    BY <1>4 DEF OwnedInv, OneCallEach
  <2>6. ExpiryOwns'
    BY <1>1, <1>2, <2>1 DEF OwnedInv, ExpiryOwns
  <2> QED
    BY <1>6, <2>3, <2>4, <2>5, <2>6 DEF OwnedInv
<1>7. CASE ProviderFails(q)
  <2>1. /\ ledger' = Marked(Unreserved(ledger, d), s, {"held", "expiring"}, "released")
        /\ idem' = [idem EXCEPT ![s] = "none"]
    BY <1>2, <1>7 DEF ProviderFails, AfterRelease
  <2>2. /\ Exact(ledger')
        /\ ledger'.held = [ledger.held EXCEPT ![s] = [status |-> "released", date |-> d,
                                                      left |-> ledger.held[s].left]]
    <3>1. ledger.held[s].status \in {"held", "expiring"} \cap {"held", "expiring"}
      BY <1>2
    <3>2. LedgerOK(ledger) /\ Exact(ledger) /\ IsFiniteSet(Sources)
      BY OwnedTypes DEF OwnedInv, OneExpirer
    <3> QED
      BY <1>2, <2>1, <3>1, <3>2, ExactReleased
  <2> QED
    BY <1>6, <2>1, <2>2
<1>8. CASE Finalize(q)
  <2>1. /\ ledger' = Marked(Used(ledger, d), s, {"held", "expiring"}, "committed")
        /\ idem' = [idem EXCEPT ![s] = "completed"]
    BY <1>2, <1>8 DEF Finalize, AfterCommit
  <2> QED
    BY <1>2, <1>6, <2>1, ExactCommitted, OwnedTypes DEF OwnedInv, OneExpirer
<1>9. CASE FinalizeRaises(q)
  BY <1>2, <1>3, <1>9 DEF FinalizeRaises, MayCommit
<1> QED
  BY <1>7, <1>8, <1>9 DEF Answer

LEMMA ExpireClaimOwned ==
    ASSUME OneExpirer, SpeechInv, OwnedInv, NEW e \in Expirers, ExpireClaim(e)
    PROVE  OwnedInv'
<1>1. PICK S \in SUBSET Expirable(ledger) :
          /\ ledger' = AfterClaim(ledger, S)
          /\ expiry' = [expiry EXCEPT ![e] = {<<s, ledger.held[s].date>> : s \in S}]
  BY DEF ExpireClaim
<1>2. UNCHANGED <<idem, call>>
  BY DEF ExpireClaim
<1> DEFINE h == [s \in Sources |-> IF s \in S THEN [ledger.held[s] EXCEPT !.status = "expiring"]
                                   ELSE ledger.held[s]]
<1>3. ledger'.held = h /\ ledger'.usage = ledger.usage
  <2>1. ledger = [usage |-> ledger.usage, held |-> ledger.held]
    BY OwnedTypes DEF LedgerOK, Ledger
  <2>2. ledger' = [ledger EXCEPT !.held = h]
    BY <1>1 DEF AfterClaim
  <2> HIDE DEF h
  <2> QED
    BY <2>1, <2>2
<1>4. /\ S \subseteq Sources
      /\ \A s \in S : ledger.held[s].status \in {"held", "expiring"} /\ ledger.held[s].left = 0
  BY <1>1 DEF Expirable
<1>5. \A s \in Sources :
          /\ ledger'.held[s].date = ledger.held[s].date
          /\ ledger'.held[s].left = ledger.held[s].left
          /\ ledger'.held[s].status = IF s \in S THEN "expiring" ELSE ledger.held[s].status
  BY <1>3, OwnedTypes DEF Reservation
<1>6. Exact(ledger')
  BY <1>3, <1>4, <1>5, ExactKept DEF OwnedInv
<1>7. UnclaimedFree' /\ AnswerCharged'
  BY <1>2, <1>4, <1>5 DEF OwnedInv, UnclaimedFree, AnswerCharged
<1>8. ASSUME NEW q \in Requests PROVE CallOwns(q)'
  <2>1. call[q].open => call[q].source \in Sources /\ call[q].source \notin S
    <3> SUFFICES ASSUME call[q].open, call[q].source \in S PROVE FALSE
      BY OwnedTypes
    <3>1. ledger.held[call[q].source].left = 0
      BY <1>4
    <3>2. ledger.held[call[q].source].left + call[q].age >= TTL
      BY DEF OwnedInv, CallOwns
    <3>3. call[q].age \in 0 .. MaxCall
      BY OwnedTypes DEF Call
    <3> QED
      BY <3>1, <3>2, <3>3, QuotaAssumption, SpeechAssumption DEF OneExpirer
  <2> QED
    BY <1>2, <1>5, <2>1 DEF OwnedInv, CallOwns
<1>9. OneCallEach'
  BY <1>2 DEF OwnedInv, OneCallEach
<1>10. ExpiryOwns'
  <2>1. ASSUME NEW f \in Expirers, NEW s \in Sources, NEW d \in Dates, <<s, d>> \in expiry'[f]
        PROVE  ledger'.held[s].status = "expiring" /\ ledger'.held[s].date = d
    <3>1. f = e
      BY DEF OneExpirer
    <3>2. expiry'[e] = {<<t, ledger.held[t].date>> : t \in S}
      BY <1>1, OwnedTypes
    <3>3. s \in S /\ d = ledger.held[s].date
      BY <2>1, <3>1, <3>2
    <3> QED
      BY <1>5, <3>3
  <2> QED
    BY <2>1 DEF ExpiryOwns
<1> QED
  BY <1>6, <1>7, <1>8, <1>9, <1>10 DEF OwnedInv

LEMMA ExpireOneOwned ==
    ASSUME OneExpirer, SpeechInv, OwnedInv, NEW e \in Expirers, NEW s \in Sources,
           NEW d \in Dates, ExpireOne(e, s, d)
    PROVE  OwnedInv'
<1>1. /\ <<s, d>> \in expiry[e]
      /\ ledger' = Marked(Unreserved(ledger, d), s, {"expiring", "held"}, "released")
      /\ expiry' = [expiry EXCEPT ![e] = @ \ {<<s, d>>}]
      /\ UNCHANGED <<idem, call>>
  BY DEF ExpireOne, AfterExpire
<1>2. ledger.held[s].status = "expiring" /\ ledger.held[s].date = d
  BY <1>1 DEF OwnedInv, ExpiryOwns
<1>3. /\ Exact(ledger')
      /\ ledger'.held = [ledger.held EXCEPT ![s] = [status |-> "released", date |-> d,
                                                    left |-> ledger.held[s].left]]
  BY <1>1, <1>2, ExactReleased, OwnedTypes DEF OwnedInv, OneExpirer
<1>4. /\ ledger'.held[s].status = "released"
      /\ \A t \in Sources : t # s => ledger'.held[t] = ledger.held[t]
  BY <1>3, OwnedTypes
<1>5. UnclaimedFree' /\ AnswerCharged'
  BY <1>1, <1>2, <1>4 DEF OwnedInv, UnclaimedFree, AnswerCharged
<1>6. ASSUME NEW q \in Requests PROVE CallOwns(q)'
  <2>1. call[q].open => call[q].source \in Sources /\ call[q].source # s
    BY <1>2, OpenCall
  <2> QED
    BY <1>1, <1>4, <2>1 DEF OwnedInv, CallOwns
<1>7. OneCallEach'
  BY <1>1 DEF OwnedInv, OneCallEach
<1>8. ExpiryOwns'
  <2>1. ASSUME NEW f \in Expirers, NEW t \in Sources, NEW c \in Dates, <<t, c>> \in expiry'[f]
        PROVE  ledger'.held[t].status = "expiring" /\ ledger'.held[t].date = c
    <3>1. f = e /\ expiry'[e] = expiry[e] \ {<<s, d>>}
      BY <1>1, OwnedTypes DEF OneExpirer
    <3>2. /\ <<t, c>> \in expiry[e] /\ <<t, c>> # <<s, d>>
          /\ ledger.held[t].status = "expiring" /\ ledger.held[t].date = c
      BY <2>1, <3>1 DEF OwnedInv, ExpiryOwns
    <3>3. t # s
      BY <1>2, <3>2
    <3> QED
      BY <1>4, <3>2, <3>3
  <2> QED
    BY <2>1 DEF ExpiryOwns
<1> QED
  BY <1>3, <1>5, <1>6, <1>7, <1>8 DEF OwnedInv

LEMMA TickOwned == ASSUME SpeechInv, OwnedInv, SpeechTick PROVE OwnedInv'
<1> DEFINE h == [s \in Sources |-> Sooner(ledger.held[s])]
<1>1. /\ UNCHANGED <<idem, expiry>>
      /\ call' = [q \in Requests |->
                    IF call[q].open THEN [call[q] EXCEPT !.age = @ + 1] ELSE call[q]]
  BY DEF SpeechTick
<1>2. ledger'.held = h /\ ledger'.usage = ledger.usage
  <2>1. ledger = [usage |-> ledger.usage, held |-> ledger.held]
    BY OwnedTypes DEF LedgerOK, Ledger
  <2>2. ledger' = [ledger EXCEPT !.held = h]
    BY DEF SpeechTick
  <2> HIDE DEF h
  <2> QED
    BY <2>1, <2>2
<1>3. \A s \in Sources :
          /\ ledger'.held[s].date = ledger.held[s].date
          /\ ledger'.held[s].status = ledger.held[s].status
          /\ ledger'.held[s].left \in Nat /\ ledger'.held[s].left + 1 >= ledger.held[s].left
  <2>1. ASSUME NEW s \in Sources
        PROVE  /\ Sooner(ledger.held[s]).date = ledger.held[s].date
               /\ Sooner(ledger.held[s]).status = ledger.held[s].status
               /\ Sooner(ledger.held[s]).left \in Nat
               /\ Sooner(ledger.held[s]).left + 1 >= ledger.held[s].left
    <3>1. ledger.held[s] \in Reservation
      BY OwnedTypes
    <3> QED
      BY <3>1, QuotaAssumption DEF Sooner, Reservation
  <2> QED
    BY <1>2, <2>1
<1>4. Exact(ledger')
  BY <1>2, <1>3, ExactKept DEF OwnedInv
<1>5. UnclaimedFree' /\ AnswerCharged'
  BY <1>1, <1>3 DEF OwnedInv, UnclaimedFree, AnswerCharged
<1>6. \A q \in Requests : /\ call'[q].open = call[q].open
                          /\ call'[q].source = call[q].source
                          /\ call'[q].taken = call[q].taken
                          /\ call[q].open => call'[q].age = call[q].age + 1
  BY <1>1, OwnedTypes DEF Call
<1>7. ASSUME NEW q \in Requests PROVE CallOwns(q)'
  <2> SUFFICES ASSUME call[q].open
               PROVE  LET s == call[q].source IN
                      /\ idem'[s] = "in_progress"
                      /\ ledger'.held[s].status = "held"
                      /\ ledger'.held[s].left + call'[q].age >= TTL
                      /\ call'[q].taken = [status |-> "held", date |-> ledger'.held[s].date]
    BY <1>6 DEF CallOwns
  <2> DEFINE s == call[q].source
  <2>1. /\ s \in Sources /\ idem[s] = "in_progress" /\ ledger.held[s].status = "held"
        /\ ledger.held[s].left + call[q].age >= TTL
        /\ call[q].taken = [status |-> "held", date |-> ledger.held[s].date]
    BY OwnedTypes DEF OwnedInv, CallOwns
  <2>2. ledger.held[s].left \in Nat /\ call[q].age \in Nat
    BY <2>1, OwnedTypes, QuotaAssumption, SpeechAssumption DEF Reservation, Call
  <2>3. ledger'.held[s].left + call'[q].age >= TTL
    BY <1>3, <1>6, <2>1, <2>2, QuotaAssumption
  <2> QED
    BY <1>1, <1>3, <1>6, <2>1, <2>3
<1>8. OneCallEach'
  BY <1>6 DEF OwnedInv, OneCallEach
<1>9. ExpiryOwns'
  BY <1>1, <1>3 DEF OwnedInv, ExpiryOwns
<1> QED
  BY <1>4, <1>5, <1>7, <1>8, <1>9 DEF OwnedInv

\* The end of a request or of an expirer leaves the rows as they are: what it
\* owned is owned by nobody.
LEMMA OtherOwned ==
    ASSUME OneExpirer, SpeechInv, OwnedInv,
           \/ \E q \in Requests : RequestDies(q)
           \/ \E e \in Expirers : ExpireCrash(e)
           \/ \E m \in Messages : AudioLost(m)
           \/ Midnight
           \/ UNCHANGED speechVars
    PROVE  OwnedInv'
<1>1. UNCHANGED <<ledger, idem>>
  BY DEF RequestDies, ExpireCrash, AudioLost, Midnight, speechVars
<1>2. \A q \in Requests : call'[q] = call[q] \/ ~call'[q].open
  BY OwnedTypes DEF RequestDies, Done, NoCall, ExpireCrash, AudioLost, Midnight, speechVars
<1>3. \A e \in Expirers : expiry'[e] \subseteq expiry[e]
  BY OwnedTypes DEF RequestDies, ExpireCrash, AudioLost, Midnight, speechVars
<1>4. Exact(ledger') /\ UnclaimedFree' /\ AnswerCharged'
  BY <1>1 DEF OwnedInv, Exact, HeldAt, CommittedAt, UnclaimedFree, AnswerCharged
<1>5. \A q \in Requests : CallOwns(q)'
  BY <1>1, <1>2 DEF OwnedInv, CallOwns
<1>6. OneCallEach'
  BY <1>2 DEF OwnedInv, OneCallEach
<1>7. ExpiryOwns'
  BY <1>1, <1>3 DEF OwnedInv, ExpiryOwns
<1> QED
  BY <1>4, <1>5, <1>6, <1>7 DEF OwnedInv

LEMMA TranscribeNext ==
    ASSUME OneExpirer, TranscribeInv, [SpeechNext]_speechVars PROVE TranscribeInv'
<1>1. SpeechInv'
  BY SpeechNextHolds DEF TranscribeInv
<1>2. ASSUME ~synthesis' PROVE OwnedInv'
  <2>1. synthesis' = synthesis
    BY DEF SpeechNext, Transcribe, Synthesize, CacheHit, Answer, ProviderFails, Finalize,
           FinalizeRaises, RequestDies, ExpireClaim, ExpireCrash, ExpireOne, AudioLost, Midnight,
           SpeechTick, speechVars
  <2>2. SpeechInv /\ OwnedInv /\ ~synthesis
    BY <1>2, <2>1 DEF TranscribeInv
  <2>3. /\ \A q \in Requests, s \in Sources : ~Synthesize(q, s)
        /\ \A s \in Sources : ~CacheHit(s)
    BY <2>2 DEF Synthesize, CacheHit
  <2> QED
    BY <2>2, <2>3, TranscribeOwned, AnswerOwned, ExpireClaimOwned, ExpireOneOwned, TickOwned,
       OtherOwned DEF SpeechNext
<1> QED
  BY <1>1, <1>2 DEF TranscribeInv

LEMMA TranscribeInvariance == ASSUME OneExpirer PROVE SpeechSpec => []TranscribeInv
<1>1. SpeechInit => TranscribeInv
  BY SpeechInitHolds, OwnedInit DEF TranscribeInv
<1>2. TranscribeInv /\ [SpeechNext]_speechVars => TranscribeInv'
  BY TranscribeNext
<1> QED
  BY <1>1, <1>2, PTL DEF SpeechSpec

\* With one expirer the counters of a day are the reservations of its client ids,
\* and a request that waits for the provider still owns the one it took.
THEOREM LedgerIsExact == ASSUME OneExpirer PROVE SpeechSpec => []LedgerExact
<1>1. ASSUME TranscribeInv PROVE LedgerExact
  <2> SUFFICES ASSUME ~synthesis PROVE LedgerExact
    BY DEF LedgerExact, ReservedExact, UsedExact, ReservationKept
  <2>1. SpeechInv /\ OwnedInv
    BY <1>1 DEF TranscribeInv
  <2>2. ReservedExact /\ UsedExact
    BY <2>1 DEF OwnedInv, Exact, ReservedExact, UsedExact
  <2>3. ReservationKept
    <3>1. ASSUME NEW q \in Requests, call[q].open
          PROVE  /\ ledger.held[call[q].source].status = "held"
                 /\ HasReserved(ledger, call[q].taken.date)
      <4>1. /\ call[q].source \in Sources
            /\ ledger.held[call[q].source].status = "held"
            /\ call[q].taken.date = ledger.held[call[q].source].date
        BY <2>1, <3>1, OpenCall
      <4> QED
        BY <2>1, <4>1, CountedIsReserved, OwnedTypes DEF OwnedInv, OneExpirer
    <3> QED
      BY <3>1 DEF ReservationKept
  <2> QED
    BY <2>2, <2>3 DEF LedgerExact
<1>2. TranscribeInv => LedgerExact
  BY <1>1
<1> QED
  BY <1>2, TranscribeInvariance, PTL

\* With one expirer a client id has an answer exactly if it was charged.
THEOREM AnsweredAndCharged == ASSUME OneExpirer PROVE SpeechSpec => []AnsweredIffCharged
<1>1. TranscribeInv => AnsweredIffCharged
  BY DEF TranscribeInv, OwnedInv, AnswerCharged, AnsweredIffCharged
<1> QED
  BY <1>1, TranscribeInvariance, PTL
=============================================================================
