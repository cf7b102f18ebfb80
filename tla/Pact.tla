-------------------------------- MODULE Pact --------------------------------
(***************************************************************************)
(* services/pact: the pacts of one spirit, their daily sessions, answers    *)
(* and skips, requested by several devices that retry, each with its own    *)
(* client ids.                                                              *)
(*                                                                         *)
(* Every request is one transaction that holds the spirit FOR UPDATE, so it *)
(* is one action; what raises rolls everything back, the idempotency claim  *)
(* included, and is no step.  The claims in the database are therefore      *)
(* completed ones, a session with all its answers is answered, and the      *)
(* handlers of unique violations, of a lost compare-and-set and of a claim  *)
(* in progress have nothing to do.  The now of a request is read before it  *)
(* waits for the lock: it may be lag days old.                              *)
(*                                                                         *)
(* A pact is named by the client id of its creation.  Dates count days; the *)
(* local date of a clock differs with the time zone of the preferences.     *)
(* A text is its score.  The spirit exists and the notes memory is the      *)
(* owner's, active and knowledge: other requests are refused.               *)
(***************************************************************************)
EXTENDS Growth, Ids, FiniteSets, Functions, SequencesExt

CONSTANTS
    Pacts,            \* client ids of POST /pacts
    OpenIds,          \* client ids of POST /pact-session
    PactDevices,          \* installations of the app
    Themes,           \* interview, notes; also the scholar marks
    PactScores,           \* score_answer_text of the texts there are
    Questions,        \* SESSION_QUESTION_COUNT, 3
    PactWeek,             \* PACT_DURATION and the day indexes, 7
    MinSessions,      \* PACT_COMPLETE_SESSION_MIN, 5
    MinCompleteness,  \* PACT_COMPLETE_COMPLETENESS_MIN, 70
    PactMaxDay,         \* bound: the last day
    PactLag           \* bound: how old the now of a request gets

\* A skip counts 50, so that it never completes a pact.
ASSUME PactAssumption ==
    /\ IsFiniteSet(Pacts) /\ IsFiniteSet(Themes)
    /\ Pacts \cup OpenIds \subseteq Nat
    /\ IsFiniteSet(PactDevices)
    /\ PactScores \subseteq 50 .. 100
    /\ {Questions, PactWeek, MinSessions} \subseteq Nat \ {0}
    /\ MinCompleteness \in 51 .. 100
    /\ {PactMaxDay, PactLag} \subseteq Nat

VARIABLES
    pactClock,       \* days gone by
    zone,        \* 1 in a time zone where the next date has begun, else 0
    pupil,      \* bond, marks and version of the spirits row
    pacts,       \* pacts[p]: a row of pacts
    sessions,    \* sessions[p][d]: the row of pact_sessions of that date
    pactClaims,      \* completed idempotency_records: operation, client id, hash
    pactEvents,      \* keys of growth_events
    pactReply        \* the success envelope of the last request, if the step was one

pactVars == <<pactClock, zone, pupil, pacts, sessions, pactClaims, pactEvents, pactReply>>

PactDates == 0 .. PactMaxDay + 1

NewPact(theme, start, ends) ==
    [status |-> "active", theme |-> theme, start |-> start, ends |-> ends,
     completed |-> 0, skipped |-> 0, completeness |-> 0]

NoPact(theme) == [NewPact(theme, 0, 0) EXCEPT !.status = "none"]

NoSession == [status |-> "none", answers |-> << >>, version |-> 0]

NoPactReply == [version |-> 0, of |-> {}, pact |-> {}]

PactInit ==
    /\ pactClock = 0
    /\ zone = 0
    /\ pupil = [bond |-> 0, marks |-> << >>, version |-> 0]
    /\ \E theme \in [Pacts -> Themes] : pacts = [p \in Pacts |-> NoPact(theme[p])]
    /\ sessions = [p \in Pacts |-> [d \in PactDates |-> NoSession]]
    /\ pactClaims = {}
    /\ pactEvents = {}
    /\ pactReply = NoPactReply

-----------------------------------------------------------------------------
(* domain/pact. *)

\* int(round(a / b)) of Python: a half goes to the even neighbour.
Rounded(a, b) ==
    LET q == a \div b
        r == a % b
    IN IF 2 * r < b \/ (2 * r = b /\ q % 2 = 0) THEN q ELSE q + 1

\* session_score.
SessionScore(answers) == Rounded(SumFunction(answers), Len(answers))

\* next_completeness.
NextCompleteness(previous, before, scored) ==
    Rounded(previous * before + scored, before + 1)

\* Mutation of CompletenessAfter: the session itself is among those before it.
CompletenessLate(pact, scored) ==
    NextCompleteness(pact.completeness, pact.completed + 1, scored)

\* As a session is finalized: what was skipped does not count.
CompletenessAfter(pact, scored) ==
    NextCompleteness(pact.completeness, pact.completed, scored)

\* next_skip_completeness, with SKIP_SCORE.
CompletenessAfterSkip(pact) ==
    NextCompleteness(pact.completeness, pact.completed + pact.skipped, 50)

\* session_date_for.
PactDate(now) == now + zone

\* Mutation of InWeek: the first day is not counted.
InWeekLong(pact, date) == date - pact.start \in 0 .. PactWeek

\* session_day_index: NULL outside the week.
InWeek(pact, date) == date - pact.start + 1 \in 1 .. PactWeek

\* pact_day_is_closed.
DayClosed(pact, date, now) ==
    pact.status # "active" \/ ~InWeek(pact, date) \/ now >= pact.ends

-----------------------------------------------------------------------------
(* repositories/pact. *)

\* Mutation of ActivePacts: status = 'active' is looked for in this week only.
ActivePactsNow == {p \in Pacts : pacts[p].status = "active" /\ pactClock < pacts[p].ends}

\* fetch_active_pact, and the unique index on active pacts.
ActivePacts == {p \in Pacts : pacts[p].status = "active"}

\* claim_pact_idempotency and the replays: a client id that is claimed answers
\* with what it made if the request is the same.
NewPactClaim(op, cid) == ~\E c \in pactClaims : c.op = op /\ c.cid = cid

PactReplay(op, cid, hash) == [op |-> op, cid |-> cid, hash |-> hash] \in pactClaims

\* complete_pact_idempotency.
PactClaimed(op, cid, hash) == pactClaims \cup {[op |-> op, cid |-> cid, hash |-> hash]}

\* insert_session and insert_skipped_session.
OpenSession == [status |-> "ready", answers |-> << >>, version |-> 1]

InsertedSkipped == [OpenSession EXCEPT !.status = "skipped"]

\* skip_ready_session.
SkippedReady(s) == [s EXCEPT !.status = "skipped", !.version = @ + 1]

\* save_session_answers.
SavedAnswer(s, score) ==
    [s EXCEPT !.answers = Append(@, score), !.version = @ + 1]

\* save_last_answer_and_finalize.
FinalizedSession(s, score) == [SavedAnswer(s, score) EXCEPT !.status = "answered"]

\* apply_completed_session.
WithCompleted(pact, scored) ==
    [pact EXCEPT !.completed = @ + 1, !.completeness = CompletenessAfter(pact, scored)]

\* apply_skipped_session.
WithSkipped(pact) ==
    [pact EXCEPT !.skipped = @ + 1, !.completeness = CompletenessAfterSkip(pact)]

\* Mutation of PactEligible: more than the least completeness is asked for.
PactEligibleAbove(pact) ==
    /\ pact.status = "active"
    /\ pact.completed >= MinSessions
    /\ pact.completeness > MinCompleteness

\* complete_pact_if_eligible.
PactEligible(pact) ==
    /\ pact.status = "active"
    /\ pact.completed >= MinSessions
    /\ pact.completeness >= MinCompleteness

-----------------------------------------------------------------------------
(* services/pact: one action per request. *)

PactNows == {n \in 0 .. pactClock : n + PactLag >= pactClock}

\* Mutation of PactEnvelope: the version is read before the update.
PactEnvelopeEarly(s, p, pact) ==
    pactReply' = [version |-> pupil.version, of |-> {p}, pact |-> {pact}]

\* _public_pact, with the snapshot_version.
PactEnvelope(s, p, pact) == pactReply' = [version |-> s.version, of |-> {p}, pact |-> {pact}]

\* create_pact.
CreatePact(p, now) ==
    LET pact == NewPact(pacts[p].theme, PactDate(now), now + PactWeek) IN
    \/ /\ PactReplay("create", p, pacts[p].theme)
       /\ PactEnvelope(pupil, p, pacts[p])
       /\ UNCHANGED <<pupil, pacts, pactClaims>>
    \/ /\ NewPactClaim("create", p)
       /\ ActivePacts = {}
       /\ pacts' = [pacts EXCEPT ![p] = pact]
       /\ pupil' = Bumped(pupil)
       /\ pactClaims' = PactClaimed("create", p, pacts[p].theme)
       /\ PactEnvelope(pupil', p, pact)

\* open_pact_session.  Tried again on another day, its hash is another.
OpenPactSession(p, cid, now) ==
    LET today == PactDate(now)
        hash == <<p, today>>
        existing == sessions[p][today].status # "none"
    IN
    /\ pacts[p].status # "none"
    /\ \/ /\ PactReplay("session", cid, hash)
          /\ UNCHANGED <<pupil, sessions, pactClaims>>
       \/ /\ NewPactClaim("session", cid)
          /\ existing
          /\ pactClaims' = PactClaimed("session", cid, hash)
          /\ UNCHANGED <<pupil, sessions>>
       \/ /\ NewPactClaim("session", cid)
          /\ ~existing
          /\ ~DayClosed(pacts[p], today, now)
          /\ sessions' = [sessions EXCEPT ![p][today] = OpenSession]
          /\ pupil' = Bumped(pupil)
          /\ pactClaims' = PactClaimed("session", cid, hash)
    /\ PactEnvelope(pupil', p, pacts[p])

\* Mutation of AnswerTaken: the status of the session is not looked at.
AnswerTakenAny(p, d, q, expected) ==
    /\ pacts[p].status = "active"
    /\ expected = sessions[p][d].version - IF sessions[p][d].status = "skipped" THEN 1 ELSE 0
    /\ q = Len(sessions[p][d].answers) + 1

\* An answer is taken if it is the next one of a session that is ready, of a
\* pact that is active, by a device that has seen the ones before.
AnswerTaken(p, d, q, expected) ==
    /\ sessions[p][d].status = "ready"
    /\ pacts[p].status = "active"
    /\ expected = sessions[p][d].version
    /\ q = Len(sessions[p][d].answers) + 1

\* _apply_finalize_side_effects and maybe_advance_stage, which may take up to
\* two steps when a pact is completed.
FinalizeSideEffects(p, d, s) ==
    LET pact == WithCompleted(pacts[p], SessionScore(s.answers))
        answered == <<"pact_answered", p, d>>
        completed == <<"pact_completed", p>>
        touched == Grown(pupil, pactEvents, answered, << >>, TRUE)
    IN
    \/ /\ ~PactEligible(pact)
       /\ pacts' = [pacts EXCEPT ![p] = pact]
       /\ pactEvents' = Recorded(pactEvents, answered)
       /\ pupil' = touched
    \/ /\ PactEligible(pact)
       /\ pacts' = [pacts EXCEPT ![p] = [pact EXCEPT !.status = "completed"]]
       /\ pactEvents' = Recorded(Recorded(pactEvents, answered), completed)
       /\ \E steps \in 0 .. 2 :
             pupil' = [Grown(Marked(touched, pact.theme), pactEvents, completed,
                              [bond |-> 5], TRUE) EXCEPT !.version = @ + steps]

\* submit_pact_answer.  Every question has its client id on every device.
SubmitPactAnswer(p, d, dev, q, score, expected) ==
    LET cid == <<dev, p, d, q>> IN
    /\ sessions[p][d].status # "none"
    /\ \/ /\ PactReplay("answer", cid, score)
          /\ UNCHANGED <<pupil, pacts, sessions, pactClaims, pactEvents>>
       \/ /\ NewPactClaim("answer", cid)
          /\ AnswerTaken(p, d, q, expected)
          /\ pactClaims' = PactClaimed("answer", cid, score)
          /\ IF q < Questions
             THEN /\ sessions' = [sessions EXCEPT ![p][d] = SavedAnswer(@, score)]
                  /\ pupil' = Bumped(pupil)
                  /\ UNCHANGED <<pacts, pactEvents>>
             ELSE /\ sessions' = [sessions EXCEPT ![p][d] = FinalizedSession(@, score)]
                  /\ FinalizeSideEffects(p, d, sessions'[p][d])
    /\ PactEnvelope(pupil', p, pacts'[p])

\* Mutation of Skippable: an answered day can be skipped.
SkippableAny(row) == row.status # "skipped"

\* Any day but one that is answered (PACT_SESSION_ALREADY_SUBMITTED) or skipped.
Skippable(row) == row.status \in {"none", "ready"}

\* submit_pact_skip and _skip_existing_session.  Whether the day is closed is
\* asked before the claim.
SubmitPactSkip(p, dev, d, now) ==
    LET cid == <<dev, p, d>>
        hash == <<p, d>>
        row == sessions[p][d]
    IN
    /\ d <= PactDate(now)
    /\ ~DayClosed(pacts[p], d, now)
    /\ \/ /\ PactReplay("skip", cid, hash)
          /\ UNCHANGED <<pupil, pacts, sessions, pactClaims>>
       \/ /\ NewPactClaim("skip", cid)
          /\ row.status = "skipped"
          /\ pactClaims' = PactClaimed("skip", cid, hash)
          /\ UNCHANGED <<pupil, pacts, sessions>>
       \/ /\ NewPactClaim("skip", cid)
          /\ Skippable(row)
          /\ sessions' = [sessions EXCEPT ![p][d] = IF row.status = "none"
                                                    THEN InsertedSkipped
                                                    ELSE SkippedReady(row)]
          /\ pacts' = [pacts EXCEPT ![p] = WithSkipped(@)]
          /\ pupil' = Bumped(pupil)
          /\ pactClaims' = PactClaimed("skip", cid, hash)
    /\ PactEnvelope(pupil', p, pacts'[p])

-----------------------------------------------------------------------------
(* api/v1/pacts, and the world outside. *)

PostPacts ==
    /\ \E p \in UpToNew(Pacts, LAMBDA cid : NewPactClaim("create", cid)), now \in PactNows :
          CreatePact(p, now)
    /\ UNCHANGED <<pactClock, zone, sessions, pactEvents>>

PostPactSession ==
    /\ \E p \in Pacts, cid \in UpToNew(OpenIds, LAMBDA c : NewPactClaim("session", c)),
          now \in PactNows :
          OpenPactSession(p, cid, now)
    /\ UNCHANGED <<pactClock, zone, pacts, pactEvents>>

PostPactAnswer ==
    /\ \E p \in Pacts, d \in PactDates, dev \in PactDevices, q \in 1 .. Questions,
          score \in PactScores, expected \in 1 .. Questions :
          SubmitPactAnswer(p, d, dev, q, score, expected)
    /\ UNCHANGED <<pactClock, zone>>

PostPactSkip ==
    /\ \E p \in Pacts, dev \in PactDevices, d \in PactDates, now \in PactNows :
          SubmitPactSkip(p, dev, d, now)
    /\ UNCHANGED <<pactClock, zone, pactEvents>>

\* PATCH /settings, with a time zone.
SetPactZone ==
    /\ zone' = 1 - zone
    /\ pactReply' = NoPactReply
    /\ UNCHANGED <<pactClock, pupil, pacts, sessions, pactClaims, pactEvents>>

PactDay ==
    /\ pactClock < PactMaxDay
    /\ pactClock' = pactClock + 1
    /\ pactReply' = NoPactReply
    /\ UNCHANGED <<zone, pupil, pacts, sessions, pactClaims, pactEvents>>

PactNext ==
    \/ PostPacts \/ PostPactSession \/ PostPactAnswer \/ PostPactSkip
    \/ SetPactZone \/ PactDay

PactSpec == PactInit /\ [][PactNext]_pactVars
-----------------------------------------------------------------------------
(* Properties. *)

PactTypeOK ==
    /\ pactClock \in 0 .. PactMaxDay
    /\ zone \in {0, 1}
    /\ pupil.bond \in 0 .. 100
    /\ pupil.marks \in SeqOf(Themes, Cardinality(Themes))
    /\ \A p \in Pacts :
          /\ pacts[p].status \in {"none", "active", "completed"}
          /\ pacts[p].completeness \in 0 .. 100
          /\ \A d \in PactDates :
                /\ sessions[p][d].status \in {"none", "ready", "answered", "skipped"}
                /\ Len(sessions[p][d].answers) <= Questions
                /\ sessions[p][d].status # "none" =>
                       d - pacts[p].start \in 0 .. PactWeek - 1

\* A spirit has one active pact (docs/p15-integration.md:128), however long ago
\* it began and whatever becomes of its time zone and its creator's retries.
OneActivePact ==
    \A p, r \in Pacts : pacts[p].status = "active" /\ pacts[r].status = "active" => p = r

PactDated(p, status) == {d \in PactDates : sessions[p][d].status = status}

\* The counters of a pact are those of its sessions, and a session is answered
\* exactly when all its questions are: whatever race of two devices, of the last
\* answer with a skip, or of a retry with either, counts a day once.
SessionsAddUp ==
    \A p \in Pacts :
        /\ pacts[p].completed = Cardinality(PactDated(p, "answered"))
        /\ pacts[p].skipped = Cardinality(PactDated(p, "skipped"))
        /\ \A d \in PactDates :
              sessions[p][d].status = "answered" <=> Len(sessions[p][d].answers) = Questions

\* A pact is completed exactly when enough sessions are and it is complete enough
\* (docs/p15-integration.md:227), and has then been paid for once: five bond, and
\* the mark of its theme.
CompletedIsPaid ==
    LET completed == {p \in Pacts : pacts[p].status = "completed"} IN
    /\ \A p \in Pacts :
          p \in completed <=> /\ pacts[p].completed >= MinSessions
                             /\ pacts[p].completeness >= MinCompleteness
    /\ pupil.bond = Clamp(5 * Cardinality(completed))
    /\ ToSet(pupil.marks) = {pacts[p].theme : p \in completed}
    /\ Len(pupil.marks) = Cardinality(ToSet(pupil.marks))

\* What a session ended as stays: skipped or answered, not one after the other
\* (docs/p15-integration.md:221), and a pact that is completed does not change.
PactEndsStay ==
    \A p \in Pacts :
        /\ pacts[p].status = "completed" => pacts'[p] = pacts[p]
        /\ \A d \in PactDates :
              sessions[p][d].status \in {"answered", "skipped"} =>
                  sessions'[p][d] = sessions[p][d]

\* The app keeps the pact of the reply with the newest snapshot_version
\* (docs/p15-integration.md:85): a reply shows the pact as it is at the version it
\* says, and no two pacts have the same version, whatever order replies arrive in.
VersionTells ==
    /\ pacts' # pacts => pupil'.version > pupil.version
    /\ \A p \in pactReply'.of :
          pactReply'.version = pupil'.version /\ pactReply'.pact = {pacts'[p]}

\* No step of a request or its retry undoes an ending or hides a change.
PactSteps == [][PactEndsStay /\ VersionTells]_pactVars

SessionScores(p) ==
    [d \in PactDated(p, "answered") |-> SessionScore(sessions[p][d].answers)]

\* completeness is rounded at every session.  Without a skip it stays as close to
\* the mean of the scores as the roundings allow: of n of them, (n + 1) / 4.
CompletenessIsMean ==
    \A p \in Pacts :
        LET n == pacts[p].completed
            off == pacts[p].completeness * n - SumFunction(SessionScores(p))
        IN pacts[p].skipped = 0 => 4 * off \in -(n * (n + 1)) .. n * (n + 1)

\* The pacts of a spirit, their sessions and what was paid for them agree.
PactInv ==
    PactTypeOK /\ OneActivePact /\ SessionsAddUp /\ CompletedIsPaid /\ CompletenessIsMean
=============================================================================
