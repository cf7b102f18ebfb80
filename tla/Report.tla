------------------------------- MODULE Report -------------------------------
(***************************************************************************)
(* The seven-day report of one spirit: GET /report creates it and its job   *)
(* (services/report), the worker generates the card (services/              *)
(* report_generate) and POST /report/line tries the signature line again    *)
(* (services/report_line).                                                  *)
(*                                                                         *)
(* The row locks are steps: some transactions lock the spirit first and     *)
(* some the report, so two can wait for each other, and then the database   *)
(* aborts one.  A provider is called outside of every transaction: the text *)
(* comes back to a report that may have changed, or not at all, because the *)
(* process has died.                                                        *)
(*                                                                         *)
(* A card is abstracted to the memories it names, the line to whether there *)
(* is one; memories are in Talk, the lease of the job in Outbox.            *)
(***************************************************************************)
EXTENDS Ids, FiniteSets

CONSTANTS
    LineIds,        \* client ids of POST /report/line, in the order of their use
    CardMemories,   \* memories that can be on a card
    Generators,     \* runs of process_due_report_generates
    ReportHandlers, \* requests that are served at a time
    LineMax,        \* LINE_MAX_ATTEMPTS, 3
    MaxReportAttempts,    \* outbox_events.max_attempts, 8
    MaxVersion      \* bound: updates of the report

ASSUME ReportAssumption ==
    /\ {LineMax, MaxReportAttempts, MaxVersion} \subseteq Nat \ {0}
    /\ LineMax <= MaxVersion
    /\ LineIds \subseteq Nat

VARIABLES
    eligible,  \* report_eligibility_values: seven days and ten rounds
    remembered,\* memories that are active
    report,    \* the row of reports
    job,       \* its job report.generate
    lineKeys,  \* idempotency_records of report.line: client id, status
    asked,     \* asked[h]: the request of handler h
    generator, \* generator[g]: the pass of worker g over the job
    shown      \* the snapshot a device saw last

reportVars == <<eligible, remembered, report, job, lineKeys, asked, generator, shown>>

Resting == [phase |-> "idle"]

NoReport == [status |-> "none", card |-> {}, line |-> FALSE, attempts |-> 0, version |-> 0]

NoJob == [status |-> "none", by |-> {}, attempts |-> 0]

Unseen == [status |-> "locked", version |-> 0, memories |-> {}]

ReportInit ==
    /\ eligible = FALSE
    /\ remembered = CardMemories
    /\ report = NoReport
    /\ job = NoJob
    /\ lineKeys = [c \in LineIds |-> "none"]
    /\ asked = [h \in ReportHandlers |-> Resting]
    /\ generator = [g \in Generators |-> Resting]
    /\ shown = Unseen

-----------------------------------------------------------------------------
(* Row locks. *)

SpiritHolders == {h \in ReportHandlers : asked[h].phase \in {"getting", "lining"}}
SpiritKeepers == {g \in Generators : generator[g].phase = "assembling"}
ReportHolders == {h \in ReportHandlers : asked[h].phase = "storing"}
ReportKeepers == {g \in Generators : generator[g].phase \in {"looking", "saving"}}

\* lock_owned_spirit and bump_spirit_version wait for it.
SpiritRowFree == SpiritHolders \cup SpiritKeepers = {}

\* fetch_owned_report FOR UPDATE and every UPDATE wait for it.
ReportRowFree == ReportHolders \cup ReportKeepers = {}

\* Who holds the spirit waits for the report, and the other way round.
Deadlocked == ~SpiritRowFree /\ ~ReportRowFree

-----------------------------------------------------------------------------
(* The outbox, as services/report uses it. *)

\* enqueue_report_generate: ON CONFLICT (dedupe_key) DO NOTHING.
GenerateQueued ==
    IF job.status = "none" THEN [status |-> "pending", by |-> {}, attempts |-> 0] ELSE job

\* complete_outbox_job, fail_outbox_job: fenced by locked_by.
Settled(g, status) == IF job.by = {g} THEN [job EXCEPT !.status = status, !.by = {}] ELSE job

RetryOrDead == IF job.attempts >= MaxReportAttempts THEN "dead" ELSE "pending"

-----------------------------------------------------------------------------
(* GET /report. *)

\* insert_generating_report.
Generating == [NoReport EXCEPT !.status = "generating", !.version = 1]

\* Mutation of LiveMemories: the snapshot in the row is shown.
LiveMemoriesStored(card) == card

\* _live_memories: a memory that is not active is unavailable.
LiveMemories(card) == card \cap remembered

\* project_snapshot.
Projected(row) ==
    IF row.status = "none" THEN Unseen
    ELSE [status |-> row.status, version |-> row.version, memories |-> LiveMemories(row.card)]

\* load_report_snapshot: the spirit first.
StartGet(h) ==
    /\ asked[h] = Resting
    /\ SpiritRowFree
    /\ asked' = [asked EXCEPT ![h] = [phase |-> "getting"]]
    /\ UNCHANGED <<eligible, remembered, report, job, lineKeys, generator, shown>>

\* Then the report: the first that is eligible inserts it and its job, every one
\* that finds it generating asks for the job again.
FinishGet(h) ==
    /\ asked[h].phase = "getting"
    /\ ReportRowFree
    /\ report' = IF report.status = "none" /\ eligible THEN Generating ELSE report
    /\ job' = IF report'.status = "generating" THEN GenerateQueued ELSE job
    /\ shown' = Projected(report')
    /\ asked' = [asked EXCEPT ![h] = Resting]
    /\ UNCHANGED <<eligible, remembered, lineKeys, generator>>

-----------------------------------------------------------------------------
(* POST /report/line. *)

\* claim_line_idempotency: nobody else inserts the record in an open transaction.
NewLineKey(c) ==
    /\ lineKeys[c] = "none"
    /\ \A h \in ReportHandlers : asked[h].phase = "lining" => asked[h].cid # c

\* Mutation of LineAvailable: the attempts are not counted.
LineAvailableAlways(version) ==
    report.status = "partial" /\ ~report.line /\ report.version = version

\* The checks of retry_report_line and of reserve_line_attempt.
LineAvailable(version) ==
    /\ report.status = "partial"
    /\ ~report.line
    /\ report.attempts < LineMax
    /\ report.version = version

\* reserve_line_attempt.
ReservedAttempt == [report EXCEPT !.attempts = @ + 1, !.version = @ + 1]

\* Its first transaction: the spirit first.  The device sends the version it saw.
StartLine(h, c) ==
    /\ asked[h] = Resting
    /\ shown.status = "partial"
    /\ NewLineKey(c)
    /\ SpiritRowFree
    /\ asked' = [asked EXCEPT ![h] = [phase |-> "lining", cid |-> c, version |-> shown.version]]
    /\ UNCHANGED <<eligible, remembered, report, job, lineKeys, generator, shown>>

\* Then the report; refused, the record of the client id is rolled back.
ReserveLine(h) ==
    LET line == asked[h] IN
    /\ line.phase = "lining"
    /\ ReportRowFree
    /\ \/ /\ LineAvailable(line.version)
          /\ report.version < MaxVersion
          /\ report' = ReservedAttempt
          /\ lineKeys' = [lineKeys EXCEPT ![line.cid] = "in_progress"]
          /\ asked' = [asked EXCEPT ![h] = [line EXCEPT !.phase = "writing",
                                                        !.version = ReservedAttempt.version]]
       \/ /\ ~LineAvailable(line.version)
          /\ asked' = [asked EXCEPT ![h] = Resting]
          /\ UNCHANGED <<report, lineKeys>>
    /\ UNCHANGED <<eligible, remembered, job, generator, shown>>

\* The WHERE of save_signature_line.
LineStorable(version) ==
    report.version = version /\ report.status = "partial" /\ ~report.line

\* The provider has answered with a text: the UPDATE locks the report.
StoreLine(h) ==
    /\ asked[h].phase = "writing"
    /\ ReportRowFree
    /\ LineStorable(asked[h].version)
    /\ asked' = [asked EXCEPT ![h].phase = "storing"]
    /\ UNCHANGED <<eligible, remembered, report, job, lineKeys, generator, shown>>

\* Then the spirit, complete_line_idempotency and the commit.
CommitLine(h) ==
    /\ asked[h].phase = "storing"
    /\ SpiritRowFree
    /\ report' = [report EXCEPT !.line = TRUE, !.status = "ready", !.version = @ + 1]
    /\ lineKeys' = [lineKeys EXCEPT ![asked[h].cid] = "completed"]
    /\ shown' = Projected(report')
    /\ asked' = [asked EXCEPT ![h] = Resting]
    /\ UNCHANGED <<eligible, remembered, job, generator>>

\* The provider fails, or somebody has changed the report: the request is
\* completed without a line.
CommitNoLine(h) ==
    /\ asked[h].phase = "writing"
    /\ SpiritRowFree
    /\ lineKeys' = [lineKeys EXCEPT ![asked[h].cid] = "completed"]
    /\ shown' = Projected(report)
    /\ asked' = [asked EXCEPT ![h] = Resting]
    /\ UNCHANGED <<eligible, remembered, report, job, generator>>

\* The process dies, or the database aborts the transaction of a deadlock: what
\* is not committed is rolled back.
LoseRequest(h) ==
    /\ \/ asked[h].phase \in {"writing", "storing"}
       \/ asked[h].phase \in {"getting", "lining"} /\ Deadlocked
    /\ asked' = [asked EXCEPT ![h] = Resting]
    /\ UNCHANGED <<eligible, remembered, report, job, lineKeys, generator, shown>>

-----------------------------------------------------------------------------
(* process_due_report_generates. *)

ClaimReport(g) ==
    /\ generator[g] = Resting
    /\ job.status = "pending"
    /\ job' = [status |-> "claimed", by |-> {g}, attempts |-> job.attempts + 1]
    /\ generator' = [generator EXCEPT ![g] = [phase |-> "claimed"]]
    /\ UNCHANGED <<eligible, remembered, report, lineKeys, asked, shown>>

\* The first transaction: the report first, then the spirit.
LookReport(g) ==
    /\ generator[g].phase = "claimed"
    /\ ReportRowFree
    /\ generator' = [generator EXCEPT ![g] = [phase |-> "looking"]]
    /\ UNCHANGED <<eligible, remembered, report, job, lineKeys, asked, shown>>

\* A report that is finished is only completed in the outbox.
LookedReport(g) ==
    /\ generator[g].phase = "looking"
    /\ SpiritRowFree
    /\ \/ /\ report.status # "generating"
          /\ job' = Settled(g, "done")
          /\ generator' = [generator EXCEPT ![g] = Resting]
       \/ /\ report.status = "generating"
          /\ generator' = [generator EXCEPT ![g] = [phase |-> "looked"]]
          /\ UNCHANGED job
    /\ UNCHANGED <<eligible, remembered, report, lineKeys, asked, shown>>

\* The second: the spirit first.
LockForCard(g) ==
    /\ generator[g].phase = "looked"
    /\ SpiritRowFree
    /\ generator' = [generator EXCEPT ![g] = [phase |-> "assembling"]]
    /\ UNCHANGED <<eligible, remembered, report, job, lineKeys, asked, shown>>

\* _assemble_card, from what is active now.
AssembleCard(g) ==
    /\ generator[g].phase = "assembling"
    /\ ReportRowFree
    /\ generator' = [generator EXCEPT ![g] =
                       [phase |-> "asking", card |-> remembered, version |-> report.version]]
    /\ UNCHANGED <<eligible, remembered, report, job, lineKeys, asked, shown>>

\* Mutation of CardStorable: the card is written whatever the report is.
CardStorableAny(version) == TRUE

\* Mutation of CardStorable: the version after the update is asked for.
CardStorableNext(version) == report.version = version + 1 /\ report.status = "generating"

\* The WHERE of save_generated_card.
CardStorable(version) == report.version = version /\ report.status = "generating"

\* The provider has answered or failed: the UPDATE locks the report, or finds
\* nothing and the job is completed.
StoreCard(g, text) ==
    /\ generator[g].phase = "asking"
    /\ ReportRowFree
    /\ \/ /\ CardStorable(generator[g].version)
          /\ generator' = [generator EXCEPT ![g] =
                             [phase |-> "saving", card |-> generator[g].card, text |-> text]]
          /\ UNCHANGED job
       \/ /\ ~CardStorable(generator[g].version)
          /\ generator' = [generator EXCEPT ![g] = Resting]
          /\ job' = Settled(g, "done")
    /\ UNCHANGED <<eligible, remembered, report, lineKeys, asked, shown>>

\* Mutation of SavedCard: a text that failed is a line, too.
SavedCardReady(card, text) ==
    [report EXCEPT !.status = "ready", !.card = card, !.line = text, !.version = @ + 1]

\* save_generated_card.
SavedCard(card, text) ==
    [report EXCEPT !.status = IF text THEN "ready" ELSE "partial", !.card = card,
                   !.line = text, !.version = @ + 1]

\* Then the spirit, complete_outbox_job and the commit.
CommitCard(g) ==
    /\ generator[g].phase = "saving"
    /\ SpiritRowFree
    /\ report' = SavedCard(generator[g].card, generator[g].text)
    /\ job' = Settled(g, "done")
    /\ generator' = [generator EXCEPT ![g] = Resting]
    /\ UNCHANGED <<eligible, remembered, lineKeys, asked, shown>>

\* DBAPIError, from a deadlock or a statement that fails: fail_outbox_job.
FailReport(g) ==
    /\ generator[g] # Resting
    /\ job' = Settled(g, RetryOrDead)
    /\ generator' = [generator EXCEPT ![g] = Resting]
    /\ UNCHANGED <<eligible, remembered, report, lineKeys, asked, shown>>

\* The process dies, or the provider raises what the handler does not catch.
CrashReport(g) ==
    /\ generator[g] # Resting
    /\ generator' = [generator EXCEPT ![g] = Resting]
    /\ UNCHANGED <<eligible, remembered, report, job, lineKeys, asked, shown>>

\* reclaim_expired_outbox: the lease runs out, whatever the worker does.
ReclaimReport ==
    /\ job.status = "claimed"
    /\ job' = [job EXCEPT !.status = RetryOrDead, !.by = {}]
    /\ UNCHANGED <<eligible, remembered, report, lineKeys, asked, generator, shown>>

-----------------------------------------------------------------------------
(* The spirit. *)

\* Seven days are over and ten rounds are chatted.
BecomeEligible ==
    /\ ~eligible
    /\ eligible' = TRUE
    /\ UNCHANGED <<remembered, report, job, lineKeys, asked, generator, shown>>

\* seal_active_memory or delete_current_memory, under the lock of the spirit.
Forget(m) ==
    /\ SpiritRowFree
    /\ m \in remembered
    /\ remembered' = remembered \ {m}
    /\ UNCHANGED <<eligible, report, job, lineKeys, asked, generator, shown>>

ReportRoutes ==
    \E h \in ReportHandlers :
        \/ StartGet(h) \/ FinishGet(h)
        \/ \E c \in FirstNew(LineIds, NewLineKey) : StartLine(h, c)
        \/ ReserveLine(h) \/ StoreLine(h) \/ CommitLine(h) \/ CommitNoLine(h)
        \/ LoseRequest(h)

ReportWorker ==
    \/ \E g \in Generators :
          \/ ClaimReport(g) \/ LookReport(g) \/ LookedReport(g) \/ LockForCard(g)
          \/ AssembleCard(g) \/ CommitCard(g) \/ FailReport(g) \/ CrashReport(g)
          \/ \E text \in BOOLEAN : StoreCard(g, text)
    \/ ReclaimReport

ReportNext ==
    ReportRoutes \/ ReportWorker \/ BecomeEligible \/ \E m \in CardMemories : Forget(m)

ReportSpec == ReportInit /\ [][ReportNext]_reportVars
-----------------------------------------------------------------------------
(* Properties. *)

ReportTypeOK ==
    /\ report.status \in {"none", "generating", "partial", "ready"}
    /\ report.card \subseteq CardMemories
    /\ report.attempts \in 0 .. LineMax
    /\ report.version \in 0 .. MaxVersion + 1
    /\ job.status \in {"none", "pending", "claimed", "done", "dead"}
    /\ job.by \subseteq Generators /\ job.by # {} <=> job.status = "claimed"
    /\ lineKeys \in [LineIds -> {"none", "in_progress", "completed"}]
    /\ Cardinality(SpiritHolders \cup SpiritKeepers) <= 1
    /\ Cardinality(ReportHolders \cup ReportKeepers) <= 1

\* A report has a line exactly if it is ready (docs/p18-integration.md:23), and
\* every attempt at a line is that of one request, at most three of them.
LineAddsUp ==
    /\ report.status = "ready" <=> report.line
    /\ report.attempts = Cardinality({c \in LineIds : lineKeys[c] # "none"})
    /\ report.attempts <= LineMax

\* A report that is generating has a job that will do it, or that is dead: none
\* that is done, since no other is ever queued for it.
GeneratingHasJob == report.status = "generating" => job.status \notin {"none", "done"}

\* The card is written once: by one of two workers that have the job after each
\* other, and never by the retries of its line (api/v1/report.py:95); who has the
\* version of the report can tell what changed, and a line is never taken back.
CardStays ==
    /\ report.status \in {"partial", "ready"} => report'.card = report.card
    /\ report.line => report' = report
    /\ report' # report => report'.version = report.version + 1

\* A memory that is sealed or deleted is not told again by the card that names it.
ShownIsActive == shown' # shown => shown'.memories \subseteq remembered'

\* Neither a worker, a retry nor a route that shows the report takes back what is
\* stored, or shows what is forgotten.
ReportSteps == [][CardStays /\ ShownIsActive]_reportVars

\* The report, its attempts and its job agree.
ReportInv == ReportTypeOK /\ LineAddsUp /\ GeneratingHasJob
=============================================================================
