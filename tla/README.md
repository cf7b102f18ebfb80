# kelin_server: a verification development

TLA+ models of the state machines of `kelin_server`, checked with TLC on small
instances, and theorems, proved with TLAPS for every instance, that state every safety
property the passing runs check. Paths are relative to the repository; a migration is named by
its number (`0017` is `app/db/migrations/versions/20260908_0017_...py`).

## The system

A FastAPI process (`app/main.py`), a scheduler (`app/scheduler.py`) and a worker
(`app/worker.py`) share one PostgreSQL database. Requests are answered from
transactions that carry the owner's identity (`app/db/session.py`,
`claimed_transaction`); AI providers, object storages and the auth admin are
called between transactions or, for chat and extract, inside one. What must happen
later is a row of `public.outbox_events`: the scheduler enqueues rows, the worker
claims and settles them.

| component | state | operations | hard behaviour | what makes it correct |
| --- | --- | --- | --- | --- |
| outbox, scheduler, worker | `outbox_events` (status, `locked_by`, lease, attempts, `available_at`) | enqueue, claim a batch, complete, fail, release, reclaim | a worker dies or outlives its lease; a pass keeps the `now` of its start; some consumers take no lease | a job is tried a bounded number of times and ends done or dead; a pass loses a job only after its lease |
| quota ledger | `daily_usage`, `quota_reservations` | consume, reserve, commit, release, expire | several statements whose results are not compared; expiry while a call is under way; time-zone changes | never more than the limit; counter and reservations agree; one open day |
| speech | `idempotency_records`, the ledger, the audio cache | transcribe, synthesize | provider call between two transactions, crash in it, retry of the same client id | charged exactly when answered |
| account deletion | `account_deletions`, its job, stored objects, the auth user | accept, delete a page, delete the user, check for residue | storage and auth calls between transactions, backoff, two attempt counters | what was stored goes before the user; completed means gone; the job not done before the deletion |
| provider resilience | circuit per capability, in memory | allow, record, retry | concurrent calls answer after the circuit has changed; calls that end by an unexpected exception | one probe, only a probe closes, the circuit opens to probes again |
| sight upload, moderation, cleanup | `feeds`, `sight_uploads`, stored originals, memories | issue URL, put, moderate, clean up | seven steps of which three are outside any transaction; late and repeated puts; expiry on the way | one active session, one decision, one memory, everything marked as cleaned in the end |
| spirit state, recall, evolution | `spirits` (status, `last_interact_at`, stage), `state.settle` jobs | bootstrap, hourly tick, interact, recall, visits ending | every operation has its own, possibly old, `now` and waits for the same lock | not lost early, lost in the end, one recall a loss, stages earned |
| visits | `visits`, `postcards`, `growth_events`, `visit.settle` jobs | plan, settle, give up | provider call between claim and settlement; settlement not bound to `locked_by` | settled once; home after the last visit |
| pact | `pacts`, `pact_sessions`, answers, bond and marks of `spirits` | create, open a session, answer, skip | two devices that retry under stale clocks and zone changes; a mean kept as an integer | a day counts once, a pact is completed and paid for once, replies can be ordered by version |
| feeds and promises | `feeds`, spirit values, quota, growth events, memories, stage | create six kinds, patch, complete, cancel | devices that act on what they show; several writes by different functions | one effect a client id, one active promise, nothing overwritten unseen |
| chat, extract, memories, onboarding | `messages`, `conversation_windows`, memories, style samples, `spirits` | turn, extract, seal, delete, clear, hatch | provider inside the transaction, `NOWAIT`, other requests that wait or fail | rounds, windows and quota agree; a window is extracted once; samples follow their memories; what is deleted stays deleted |
| report | `reports`, `report.generate` job, line attempts | get, generate, retry the line | two lock orders, so deadlocks; provider between transactions; crashes | one card, shown without what was forgotten; attempts bounded; a report that is generating has a job |
| messages, memories, friends, postcards lists | none of their own; `read_at` | pages by cursor, mark read | rows committed below a cursor, equal times, removed rows | no row twice, none left out |
| friends | `friends`, `spirits.version` | add by code, remove | advisory and row locks, retries, both sides at once | one edge a pair, exactly while the answers say so |
| spirit creation, settings, bootstrap | `spirits`, `user_preferences`, consents, invite codes | create, patch, bootstrap | two devices create at once, codes collide, patches from one version | created whole and once; no setting lost; a bootstrap is one version |
| notifications, devices | `notification_deliveries`, `notification.plan_user` jobs, `devices` | scan, plan, register | stale `now`, midnight, changes of zone and quiet hours, a job planned again | at most two a day, none in the quiet hours it was planned with |
| the rest (HTTP, schemas, models, contracts, debug, start-up, prompts and output validators) | - | - | - | not a state machine |

They interact through the database only, except for the in-process stores
(circuits, audio cache, sight originals). Feeds, chat, pacts, sights and recalls
touch the spirit that the state settlement reads, and all of them lock its row first;
visits, reports, pushes and deletions are driven by outbox jobs; speech, chat, feeds
and photos consume quota; a deletion removes everything.

`PROJECT.json` lists every component with its files and its status, the source
lines each definition models (`map`), and the hazards with the properties that
cover them.

## The modules

| module | models | composed of |
| --- | --- | --- |
| `JobLifecycle` | what the outbox promises whoever enqueues a job | |
| `Outbox` | `outbox_events`, the claiming passes and the clock | implements `JobLifecycle` |
| `OutboxProofs` | theorems about `Outbox` | extends `Outbox` |
| `AccountDelete` | `services/account_delete` over its job | extends `Outbox` |
| `DeleteProofs` | theorems about `AccountDelete` | extends `AccountDelete`, `OutboxProofs` |
| `Visits` | the visits of one spirit over their `visit.settle` jobs | extends `Outbox`, implements `JobLifecycle` |
| `VisitsProofs` | theorems about `Visits` | extends `Visits`, `OutboxProofs` |
| `Quota` | the ledger statements as functions of a ledger | |
| `Speech` | `services/speech` over the ledger | extends `Quota` |
| `SpeechProofs` | theorems about `Quota` and `Speech` | extends `Speech` |
| `UsageWindow` | which row of `daily_usage` is charged | |
| `CircuitBreaker` | `providers/resilience` and the retry loop of `integrations/bailian` | |
| `CircuitProofs` | theorems about `CircuitBreaker` | extends `CircuitBreaker` |
| `Sight` | upload URL, put, moderation, cleanup | |
| `SpiritState` | status and stage of a spirit | |
| `Growth` | `record_and_apply`: an event once, bond and vitals clamped | |
| `Pact` | `services/pact` | extends `Growth` |
| `Feeds` | `services/feed`, the stage and memories of a feed | extends `Growth` |
| `Talk` | `services/chat`, `extract`, `memory`, `onboarding` | extends `Growth` |
| `Report` | `services/report`, `report_generate`, `report_line` with their row locks | |
| `Pages` | the four lists and the read mark | |
| `Friends` | `services/friends` and the SQL functions of `0012` with their locks | |
| `Profile` | `services/spirit`, `invite_code`, `settings`, `bootstrap` | |
| `Notices` | `services/notification_planner` | |
| `LifeProofs` | theorems about a spirit's life | extends `SpiritState`, `Feeds`, `Talk`, `Sight` |
| `SocialProofs` | theorems about pacts and lists | extends `Pact`, `Pages` |
| `AccountProofs` | theorems about an account | extends `UsageWindow`, `Friends`, `Profile`, `Notices`, `Report` |
| `Ids` | client ids that are interchangeable until they are used | extended by the modules that have them |

`MCx` modules give the constants of `x` their values; the `.cfg` files are
TLC's. `MCVisits` (which takes its instance of `Speech` from `MCSpeech`), `MCTime`, `MCLife` and
`MCAccount` (with `MCUsageWindow`) each hold several specifications that
share no variable: `part`, chosen in the initial state and kept, names the one that
a behaviour follows, while the others rest in one initial state. So a run of a
composite is the sum, and not the product, of its parts; the invariants of all
parts are checked on it. To check one part alone, run TLC on its own module, say `Pact`
with `SPECIFICATION PactSpec`, and the constants that the configuration gives it.

A transaction that holds its locks to the end is one action; every
provider, storage or auth call between two transactions separates two actions,
and so does every commit. Where two transactions take their locks in different
orders (`Report`, `Friends`) each lock is a step. An exception that rolls a transaction
back leaves no step unless it changes what follows.

*Time* is kept relative to the clock wherever the code compares it with one
(leases, backoffs, reservations, upload sessions, idle time, circuit samples),
so that no run needs a bound on the length of a behaviour. A tick of the worker
reads the clock once (`worker.py:27`) and hands that `now` to every statement:
an `age` is how old that `now` is. `UsageWindow`, `Pact`, `Pages` and `Notices` have
dates or rows with times, and a bound on the clock (`MaxClock`, `PactMaxDay`,
`MaxTime`, `MaxHour`).

*Client ids.* Before it is used a client id is as good as another. `FirstNew` and
`UpToNew` of `Ids` take the least unused one, and all that are in use, where the code
may be given any: the states left out are the same up to a renaming.

`Outbox`. `outbox[j]` is a row, `tick[t]` a consumer's pass, named by the
`locked_by` it writes. `ClaimBatch`, `ClaimLeaseless`, `Complete`, `Fail`,
`ReleaseUntil`, `MarkDone`, `SchedulerReclaim` are the SQL functions of `0015`
and `0017` and the statements of the two consumers that take no lease;
`Crash` ends a pass anywhere. `more[j]` is how often a handler will hand its job
back, chosen at the start.

`Speech`. The first transaction is `Transcribe` or `Synthesize` (or `CacheHit`),
the call is the state `open`, the second transaction `Finalize`,
`FinalizeRaises` or `ProviderFails`. `RequestDies` stands for a process that dies and
for every exception the service does not catch. `expire_due_reservations` is run
by `Expirers`, which nothing in `app/` is: their steps may happen and are never required,
and `GivenBackIfExpired` has the condition that they do (`ExpirerRuns`).

`UsageWindow`. `ActiveWindow` is the query of `resolve_usage_window`, `Consume` the
charge and the snapshot it answers, `SetZone` the preference, which may be any zone.

`AccountDelete`. `work[t].at` is the line of `_run_one` a pass has come to. The
claim is `ClaimBatch` of `Outbox`; `save_progress` writes by id alone
(`repositories/account.py`), so nothing ties it to the claim. `objects` are those of the
api's storages, which are dicts of its process. `SharedStorage` says whether the worker has
been given these storages, as `tests/db/test_p19_account.py` does; as deployed nobody gives
it any, and each tick makes empty ones (`services/account_delete.py:60-63`,
`services/cron.py:89`), so that a page lists nothing. The storages do not know of the deletion:
`PutPromised` is a synthesis that was under way and puts its object before its gated transaction
(`services/speech.py:544`), or `client_put` on a URL signed before; `late` is history, the objects put since
a pass first read the deletion. Removals by others (a moderation, the audio cache) are left
out: the fewer objects, the less the deletion has to do.

`Visits`. `Plan` is `plan_visits`, `EnqueueVisit` the scheduler's scan. `ClaimVisits` is
the first transaction of `process_due_visit_settles`: reclaim, give up the visits
of dead jobs, claim; `ClaimNothing` is the same when nothing is due. `SettleVisit` is
`private.settle_visit` with the postcards of the provider, which was asked
outside any transaction; `SettleRaises` and `RetryVisit` are the `except` branch.
`Over` is what settlement and giving up do to the spirit. A row that is done
keeps its `locked_by` in the database; the model clears it, for nothing looks at it.

`CircuitBreaker`. `Ask` is `allow`, `Record` is `record`, `call[c]` a call of
`_complete_json`; `probe` and `escaped` are history.

`Sight`. `mod[m].at` is where a `POST /moderate-sight` is; `Begin` and `BeginEnds` are the two
ends of the transaction that marks feed and session, `Judge` is everything
from the safety check to the deletion of the original. `handle_upload_cleanup` is run by
`Cleaners`, which again nothing in `app/` is: `MarkedIfCleaned` has the condition (`CleanupRuns`).

`SpiritState`. `Settle(lag)` is `settle_spirit_state` at a `now` that is `lag`
old, used by `Bootstrap` and `SettleTick`; `Touched` is
`GREATEST(last_interact_at, now)`; `Advanced` is `maybe_advance_stage`. What
other tables say (pacts, preferences, bond, memories) is chosen anew at every
use. `since` and `lostTimes` are history.

`Growth` is the function of `services/growth` that every interaction calls: an event
key that is known changes nothing; bond stays within 0 and 100.

`Pact`. Every request is one transaction under the spirit's row lock. `CreatePact`,
`OpenPactSession`, `SubmitPactAnswer` and `SubmitPactSkip` keep what a claim replays; a reply is what a device
sees, with the version it carries. `lag` is how old the `now` of a request is.

`Feeds`. `shown[d]` is what a device shows, of any age, and `expected_version` is
the version of it. `overwritten` is history: a patch, completion or
cancellation of a promise that had other contents than the device showed.

`Talk`. `StartTurn` and `StartExtract` take the locks and read; `FinishTurn`, `FinishExtract`
write what the provider answered; `FailTurn` and `FailExtract` roll back. Others that need the
spirit fail (`NOWAIT`) or wait, that is, are not enabled.

`Report`. `asked[h]` is where a request is, `generator[g]` where a pass is; the phases name
the row locks that are held. `Deadlocked` is when the database aborts somebody.

`Pages`. `rows` are written by open transactions with the `now()` of their begin and become
visible at `Commit`; `pager` is a list that is being turned over; `ListedX` are the four
SQL queries.

`Friends`. `friendTx[h]` is a transaction, its `phase` the statement it has come to;
`WaitsFor` is the lock table.

`Profile`. `creating[d]` is the transaction of `POST /spirits` with its savepoints, `reading[d]`
that of `GET /bootstrap`, `told[d]` what a device keeps (`domain/snapshot`); `past` is history.

`Notices`. `noticeJobs` are the jobs, `planner` the pass with its `now` and, once the counts
are read, its plan; `notices` the rows that are to be sent, with the zone and the quiet hours
they were planned with. `PatchPreferences` changes either, and moves no row.

## The runs

Five pass, seven are violated; every property of a passing run has in `PROJECT.json` a plausible
bug (a definition called "Mutation of ..." in the module) with which TLC finds it violated.
A property called `XInv` joins the type invariant of a module with the named
safety invariants of that module; each of them has a bug of its own.

| run | parts | shows |
| --- | --- | --- |
| `outbox` | | two leased jobs, one leaseless, two passes, two attempts: claims are charged and bounded (`AttemptLeft`), only a pass older than its lease is robbed (`LateIfRobbed`), the lease check never rejects a holder (`LeaseCheckIdle`), the rows keep the promise of `JobLifecycle` (`LifecycleSpec`), every leased job ends (`EventuallySettled`) |
| `visits` | visits | two visits, two passes that may be late and settle on each other's claims: settled exactly with a done job, failed only with a dead one (`OneOutcome`), the promise of `JobLifecycle` although a settlement is not fenced (`LifecycleSpec`), home after the last (`HomeAfterLast`), every visit ends (`VisitsEnd`) |
| | pages | no page repeats or leaves out a row, a postcard is read once (`PagesInv`) |
| | speech | three requests of two client ids, one expirer, a midnight: the limit (`WithinLimit`), counters and reservations agree through reserve, provider, commit (`LedgerExact`), charged exactly when answered (`AnsweredIffCharged`), reservations given back if an expirer comes back as often as it is needed (`GivenBackIfExpired`) |
| `time` | circuit | the half-open counter counts the probes (`CircuitInv`: `SlotsAreHeld`), only a probe closes (`ClosedByProbe`), an open circuit admits again while attempts are recorded (`AdmitsAgainIfRecorded`) |
| | sight | every session is marked as cleaned in the end, if a cleaner comes back as often as it is needed (`MarkedIfCleaned`) |
| | spirit | not lost early (`NeverLostEarly`), lost in the end (`EventuallyLost`), one recall a loss and stages earned (`SpiritInv`: `OneRecallALoss`, `AwakeEarned`) |
| `life` | pact | one active pact, sessions add up, completed is paid, completeness is the mean as far as it is rounded (`PactInv`); endings stay and the version tells which reply is newer (`PactSteps`) |
| | feeds | one active promise, one effect a feed, nothing overwritten unseen (`FeedsInv`) |
| | talk | pairs, rounds, windows and quota agree, prompts and citations name what is active, a window is extracted once, samples follow (`TalkInv`); memories that ended stay so (`MemoriesEndStay`) |
| | sight | two sessions, two moderations: one session, one decision (`SightInv`, `DecisionStays`) |
| `account` | usage | one open row at a time (`UsageInv`), a charge goes back to a date before one that has a row by less than two zones are apart (`BackWithinZones`) |
| | delete | one worker with the api's storages, two pages, failures, crashes and late puts: `StorageBeforeAuth`, `CompletedIsGone`, `DoneMeansFinal` (`DeleteInv`) |
| | report | the report, its attempts and its job agree under deadlocks, crashes and reclaims (`ReportInv`); a card is written once and what is shown is active (`ReportSteps`) |
| | friends | one edge a pair, edges, answers and versions agree (`FriendsInv`) |
| | profile | a spirit is created whole and once, a bootstrap is one version (`ProfileInv`), a patch changes only what its device has seen (`SeenIsPatched`) |
| | notices | the daily cap, the quiet hours that a row was planned with (`NoticesInv`) |
| `in_progress` | `MCSpeech` | violation: a crash leaves the client id in progress for ever |
| `fresh_day` | `MCUsageWindow` | violation: a hop west over more than a day gives an allowance for an earlier date afresh |
| `delete_ends` | `MCAccountDelete` | violation: the job is given up before the deletion is |
| `circuit_lost` | `MCCircuitBreaker` | violation: an unrecorded probe keeps the slot for ever |
| `lost_kept` | `MCSpiritState` | violation: a lost spirit leaves lost without a recall |
| `extract_version` | `MCTalk` | violation: memories appear without a new version |
| `mutual_add` | `MCFriends` | violation: two who add each other deadlock |

### Bounds

- *Outbox*: two leased jobs make a batch whose members can differ, one leaseless
  job is enough since such jobs meet nothing but their own statements. Two passes
  give every overlap of a late holder and its successor; a third would be a
  second successor. The second attempt is the last, so one backoff, of one unit,
  is ever waited for. `Lease = 1` and `MaxTickAge = 3` are the least with which a
  pass stays within its lease, reaches it, and outlives it long enough to still
  run when its job was reclaimed, waited for and was claimed again. The theorems
  lift all of these bounds.
- *Visits*: as *Outbox*, with the two destinations of one plan (`plan_visits` never
  makes more), so that one may end by settlement and the other by giving up, or both at
  once. A late pass does settle on its successor's claim within these bounds.
- *AccountDelete*: three objects in pages of two give a full page and a last one. One of
  them, in the middle, may be put again, at any time; the theorems have any objects and any puts.
  The violation is checked as deployed, without the api's storages, where one object is enough.
  Two pass names and `Processes = 1`: there is one worker process
  (`compose.prod.yaml`), and a pass may only follow another one. `MaxAttempts` is 3
  or, for the violation, 2, instead of 8: it counts.
- *Speech*: `Limit = 1` and two client ids make every reservation contend;
  three requests let two share one client id; `TTL = 2`, `MaxCall = 1` because the
  code keeps reservations (120 s) longer than a provider call lasts; two
  dates give one midnight.
- *UsageWindow*: days of four units and three zones of which two are more than a day apart
  (five units, as UTC-12 and UTC+14 are 26 hours), so that the date can go back; some three days.
- *CircuitBreaker*: one half-open slot, as `HALF_OPEN_MAX_PROBES`; two samples open the circuit;
  a call lasts at most one unit of an open time of two. `MaxCall < OpenTime` bounds a whole call, from its
  admission to its record; httpx's timeout of 30 s is for each phase and each read
  (`integrations/bailian.py:405`), so that a provider that answers in drips could take longer than the
  open time, and what `OneSlot` gives would be lost.
- *Sight*: two sessions and two moderations are the smallest numbers for which "at
  most one" says anything; sessions live two units so that one may expire while
  the other is fresh.
- *SpiritState*: thresholds of 1 and 3 for 18 and 72 hours keep their order and
  leave room for a visit in between; nows up to one hour old; two recalls, one
  visit under way at a time and two waiting jobs.

- *Pact*: two pacts of one device with two client ids for sessions; two questions,
  weeks of two days of which both are needed, clocks up to a day old, and one zone
  change of a day (with one device; `PactsAgree` and `PactEndsHold` have any number): a retry can come on the day after, a session be open past the
  week, and a second pact follow the first. Scores of 50 and 90 lie on both sides of the
  70 that is needed, with means that round.
- *Feeds*: three feeds, of one of four plans that together have every kind, and two promises
  at once; a photo or location a day, two of the others; two devices, one change. Only the plan that can grow to awake is
  checked with both values of `travelled`, which nothing else asks for.
  Thresholds of 5 are one feed's bond.
- *Talk*: five turns, of which one hatches and two fill a window: two windows and
  one in between. Two extracts, two changes of memories, three memories, one style.
- *Pages*: three rows and pages of one, so that there is a row above, at and below every
  cursor, and two begins of a transaction.
- *Report*: two requests and two passes are what a deadlock needs, two attempts at a
  line instead of three, two attempts at the job, two memories.
- *Friends*: three spirits, so that two pairs share one, three client ids, two
  requests at a time: each deadlock is of two.
- *Profile*: two devices of one owner and one of another who draws the same
  codes; two codes and two draws; three versions. Two ids of patches, so that both devices patch
  from one version; one bootstrap at a time (`MaxReaders`), as bootstraps only read.
- *Notices*: days of three hours; quiet hours over midnight (the last and the first) or within the
  day, and changes between them; three hours, two zones an hour apart, two events and the care of
  each date; a cap of one.

### Fairness

- In `MCTime` and `MCVisits` the fairness of each part is asked of its own behaviours only.
- The worker and scheduler loops run for ever and are restarted when they die
  (`compose.prod.yaml:10`), so time passes, the scheduler reclaims, passes open when
  there is something to claim, and a pass that is open goes on (weak fairness of
  `Advance`, `SchedulerReclaim`, `Claim`, `Handle`). Crashes and enqueues are
  never required.
- `Visits` asks the same, and that the scheduler's scan enqueues the job of a visit
  under way and that the worker's pass runs though nothing is due (`ClaimNothing`): both
  happen in every tick. A plan is never required.
- `SpiritState` asks in addition that the worker does not die in every single
  tick (strong fairness of `SettleTick`) and that the hourly scan, enabled in
  every hour, happens in some of them.
- `Speech` and `Sight` ask that a request ends (providers have
  `PROVIDER_TIMEOUT_SECONDS`, processes die), and nothing of expiry and cleanup: tests run
  them, no process in `app/` does. That they come back and do not die for ever is a hypothesis
  of the properties, which are implications: `ExpirerRuns` of `GivenBackIfExpired`,
  `CleanupRuns` of `MarkedIfCleaned`. As deployed neither holds, a reservation whose request
  died is held for ever and no original is cleaned; see *Never run* below.
- `CircuitBreaker` asks that users keep calling, for `AdmitsAgain` is about a
  later call.

## The proofs

`OutboxProofs` proves for every set of jobs and passes, every lease, backoff,
attempt limit, batch size, number of processes and tick length allowed by
`OutboxAssumption`:

- `TypeCorrect`: `Spec => []TypeOK`;
- `AttemptsBounded`: `Spec => []AttemptLeft`;
- `ClaimSafe`: `Spec => []LateIfRobbed`;
- `LeaseCheckNeverRejects`: `Spec => []LeaseCheckIdle`;
- `Refinement`: `Spec => LifecycleSpec`.

`OutboxAssumption` asks that the leaseless jobs are jobs, that NULL is not a
`locked_by`, and that the numbers are positive where the code has them so; in particular
a backoff is at least one unit (`retry_backoff_seconds` is at least 1), which the refinement
needs: a reclaimed row is then not due in the statement that follows in the same
transaction.

None of the four invariants is inductive. `Inv` adds

- `RowInv`: a row carries a `locked_by` exactly while a leased and charged claim of
  it is open, and one that waits has an attempt left. `AttemptLeft` needs it because
  the claim statement never looks at `max_attempts`;
- `PassInv`: as claim and settlement are measured from the same `now`, the lease
  of a row that a pass holds is `Lease` minus its age, and a pass ceases to hold a
  row of its batch only when that is negative.

`NextInv` has one lemma per action, each by lemmas about what a statement does to
one row (`RequeuedRow`, `ClaimedRow`, ...). The refinement maps `phase` to the
status with all open ones merged and `tries` to `attempt_count`; `NextSteps`
shows that every step moves every row by a step of `JobLifecycle` or leaves it.

`VisitsProofs` proves from `OutboxAssumption` and `VisitsAssumption` (visit jobs all have a
lease, no handler hands its job back, no job is called `NoJob`), for every number of visits and passes:

- `VisitTypeCorrect`: `VisitSpec => []VisitTypeOK`;
- `VisitOutcome`: `VisitSpec => []OneOutcome`;
- `VisitsHome`: `VisitSpec => HomeAfterLast`;
- `VisitRefinement`: `VisitSpec => LifecycleSpec`.

`VisitInv` is `OneOutcome` with `RowInv` and the fact that a visit that is not
planned has no job. Together they make the visit of a claimed job one under way
(`ClaimedVisit`), which is all that `settle_visit` needs in place of an owner. `PassInv` is
not part of it, and does not hold: an unfenced settlement takes a job from the
pass that claimed it, so `LateIfRobbed` is a property of the fenced
consumers only. `RowsMoved` says what any mixture of reclaim, claim and retry may
do to the status of the rows; `RowStep` and its lemmas come from `OutboxProofs`.

`SpeechProofs` proves from `QuotaAssumption` and `SpeechAssumption`, for every limit,
time to live, set of client ids, dates, requests and expirers:

- `SpeechTypeCorrect`: `SpeechSpec => []SpeechTypeOK`;
- `LimitHolds`: `SpeechSpec => []WithinLimit`;
- `LedgerIsExact`: `SpeechSpec => []LedgerExact`, assuming `OneExpirer`;
- `AnsweredAndCharged`: `SpeechSpec => []AnsweredIffCharged`, assuming `OneExpirer`.

For the limit the argument is that of the code: each statement on a counter row checks the row it
changes. So every operator of `Quota` keeps `LedgerOK` (the ledger's type and the
limit) on its own (`ReservedOK`, `UnreservedOK`, `UsedOK`, `MarkedOK`, then `ReserveOK`, `CommitOK`, `ReleaseOK`,
`ClaimOK`, `ExpireOK`), and `SpeechInv` adds only that an open request has a client
id. Nothing is assumed of the reservations, which is why the limit holds with two
expirers too, although `LedgerExact` does not. The exact ledger needs `OneExpirer`: at
most one process runs `expire_due_reservations`, and a call ends before the reservation it took
expires (30 and 120 seconds in the code). `TranscribeInv` adds who owns what: an
open request is the only one of its client id and has the live reservation it took, one that an
expirer has claimed is `expiring`, and a reservation without a record is free.

`CircuitProofs`, from `CircuitAssumption`, for any number of calls, window and retries:

- `CircuitTypeCorrect`: `CircuitSpec => []CircuitTypeOK`;
- `SlotsHold`: `CircuitSpec => []CircuitInv`, assuming `OneSlot`;
- `OnlyProbesClose`: `CircuitSpec => ClosedByProbe`, assuming `OneSlot`.

`OneSlot` is the configuration of the code: `HALF_OPEN_MAX_PROBES` is 1, and a call
(30 s) is shorter than the time a circuit is open. `HalfOpenInv` says that whoever was
admitted before the circuit opened is older than the opening, so that all of them have ended
when its time runs out; that there is one probe and it holds the slot; and that a slot is held
only in a circuit whose time has run out, by a probe or by an attempt that was never recorded.

`DeleteProofs`, from `OutboxAssumption` and `AccountDeleteAssumption`, for any number
of objects, size of a page and puts of earlier requests, with the api's storages or without:

- `ObjectsFirst`: `DeleteSpec => [](DeleteTypeOK /\ StorageBeforeAuth /\ CompletedIsGone)`
  for any number of worker processes;
- `DeletionAgrees`: `DeleteSpec => []DeleteInv`, assuming `OneWorker`, as is deployed.

The stages are written by id alone, so that nothing ties them to a claim. `ProgressInv` says
what a pass may rely on all the same, whatever the others write and requests put: what its cursor
has passed is gone, and stays gone, of `Left`, the objects the worker can list but the `late` ones,
to which no step adds once a pass has read the deletion. Until then nothing has been passed
(`UnreadInv`), so that an object put so early is one of those to go. Without the api's storages
`Left` is empty, and of both properties only what they say of the user remains. `AttemptsPaid` keeps the two counters apart: each
open pass has one attempt of the deletion still to come. `OverInv` needs the one worker:
there is one open pass, and a job that is done has left none that could write the row again.

`LifeProofs`, from the assumptions of the four modules (thresholds are ordered, sets of feeds and
recalls finite, numbers of rounds positive, no session is called `NoUpload`):

- `SpiritAgrees`: `SpiritSpec => []SpiritInv`; `LostInTime`: `SpiritSpec => NeverLostEarly`.
  `SpiritIndInv`: `last_interact_at` is the newest interaction, for every writer takes the
  `GREATEST`, and recalls stay behind losses.
- `FeedsAgree`: `FeedsSpec => []FeedsInv`. `FeedsIndInv` gives each kind and status of a feed the
  claims, events, memory and promise that belong to it, and says that a device which has the
  version of the spirit shows its promise as it is: every change of one has a version.
- `TalkAgrees`: `TalkSpec => []TalkInv`; `MemoriesEnded`: `TalkSpec => MemoriesEndStay`.
  `TalkIndInv` says what a request that waits for the provider has read: while it has the spirit,
  nothing it read changes, so that what it writes fits.
- `AcceptedByOneSession`: `SightSpec => []SightInv`; `DecisionIsFinal`: `SightSpec =>
  DecisionStays`. `SightIndInv` is said of the sets of active and of consumed sessions: none is
  consumed while the feed is unsettled, so the decision is the first to consume one.

`SocialProofs`, from `PactAssumption` and `PagesAssumption`:

- `PactsAgree`: `PactSpec => []PactInv`; `PactEndsHold`: `PactSpec => PactSteps`.
  `PactIndInv` adds that a pact has sessions, and sessions answers, within its week, and that an
  event in `growth_events` has happened. `PactAssumption` has `MinCompleteness` above 50, the score
  of a skip (the code has 70): a skip never completes a pact, which `services/pact` relies on,
  as it looks for completion after answers only.
- `PagesHold`: `PagesSpec => []PagesInv`. `PagesIndInv` has the reason why keyset pages lose nothing:
  what was there at the first page is older than the snapshot, and has been shown or is below
  the cursor if it is there still; the cursor is that of the last row shown; and what has left
  a list never comes back to it.

A mean is a sum over a set, and a page the top of one. Both need induction over finite sets,
which is done on sets in place of predicates, from the minimum of a well-founded order: a
set of subsets that has the empty one, and each whose proper parts by one element it has, has all
(`SubsetInduction`, and `NumberInduction` for numbers). By it the function that `SumFunction` folds
with exists and is unique, whatever order it takes elements in (`SumsExist`, `SumsAgree`); then
one more session adds its score (`SumOfOneMore`), and each rounding moves the mean by a half
at most (`RoundedNear`). And every set of rows has a topmost one (`Topmost`), so that
the first `n` of a set exist (`FirstRowsExist`) and `PageRows` is them (`PageIsFirst`).

`AccountProofs`, from the assumptions of the five modules (0 stands for NULL in `Friends`
and is no id; no owner is called `"none"`):

- `OneRowIsOpen`: `UsageSpec => []UsageInv`; `BackByZonesOnly`: `UsageSpec => BackWithinZones`, both
  for any zones. A row is inserted only when all others have ended; a row of a later date that has
  ended did so in a zone further east, which is where the distance of the zones comes from. What
  `domain/quota.py:4-5` says is stronger and is violated (`fresh_day`).
- `FriendsAgree`: `FriendsSpec => []FriendsInv`, for any number of transactions at a time. `FriendTxInv`
  says what each statement of a transaction may rely on from the ones before, given what
  the locks keep apart (`Apart`); `EdgeInv` and `BumpInv` what the committed answers say.
- `ProfileWhole`: `ProfileSpec => []ProfileInv`; `UnseenIsKept`: `ProfileSpec => SeenIsPatched`.
  `past` has each version once and in order, so that a patch of the version that is expected is one
  of the row its device was told (`PastInv`, `ToldInv`).
- `NoticesKept`: `NoticesSpec => []NoticesInv`. What the pass has planned and not written has room on
  its day, since nobody else writes (`PlanFits`): the one worker is part of the model. A row stays out of
  the zone and the quiet hours that its plan read, which later patches leave alone.
- `ReportAgrees`: `ReportSpec => []ReportInv`; `ReportStays`: `ReportSpec => ReportSteps`. Each of
  the two rows has at most one holder (`ReportLocksInv`), and what a request or a pass read
  before its last commit is checked again under the lock (`AskedOK`, `PassingOK`).

Only model-checked: the liveness properties (`EventuallySettled`, `GivenBackIfExpired`, `VisitsEnd`,
`AdmitsAgainIfRecorded`, `MarkedIfCleaned`, `EventuallyLost`), because fairness and `ENABLED` are
out of the prover's reach. The properties of the runs that are violated are not theorems.

## Disagreements

Seven are runs that TLC violates, listed under `findings`:

- *`InProgressEnds`.* `transcribe` and `synthesize` release the claim of the client id
  on `ProviderError` and `ProviderCancelled` only. After a crash or another
  exception the record stays `in_progress`, and every retry gets 409, which
  `docs/p14-integration.md:303` calls retryable.
- *`DeletionEnds`.* The job counts claims, the deletion counts caught failures, and
  both give up at 8. One crash makes the job give up first; the deletion then
  waits for a retry for ever and the owner stays locked out.
- *`AdmitsAgain`.* An exception other than `TimeoutException` and `ConnectError`, or a
  cancellation, leaves a half-open probe unrecorded: `half_open_inflight` stays 1 and the capability
  is refused until the process restarts.
- *`LostEndsByRecall`.* The 18-hour branch of `desired_spirit_state` comes before the
  one that keeps a lost spirit lost, and chat and feed touch a lost spirit too:
  18 hours after an interaction it is away or in study, and recall answers
  `SPIRIT_NOT_LOST`.
- *`MemoriesHaveVersion`.* An extract bumps `spirits.version` through the growth of a memory or
  for a style sample. Memories that change no trait come without a version, though
  `docs/p08-p10-integration.md:367` says that a successful extract bumps it.
- *`NoFreshDay`.* `domain/quota.py:4-5` says that a change of time zone cannot mint a fresh day. `PATCH
  /spirit` takes any IANA zone, and from UTC+14 to UTC-12 the local date goes back to the one before the
  date that has just ended; if nothing was charged on it, it has an allowance of its own. By how much
  a charge can go back is `BackWithinZones`. A hop west can also answer a `reset_at` that is past.
- *`MutualAddsAnswered`.* Two who add each other lock their own spirits first, then the pair,
  then (by the foreign keys) the other's spirit: one has the pair and waits for the other's
  spirit, who waits for the pair. The database aborts one, and the test that
  runs this race lets no add fail (`tests/db/test_friends.py:278`).

Others the models contain, and properties are worded around:

- *Leaseless jobs.* `state.settle` and `usage.rollup` are claimed without a lease in
  a transaction of their own. A crash, or an exception of an earlier job of the
  batch, leaves the rest claimed for ever (`ClaimLeaseless`, then `Crash`);
  `EventuallySettled` is about leased jobs. An idle spirit is lost all the same, by a later
  hour's job (`EventuallyLost`).
- *One exception ends a tick.* `run_worker_tick` (`services/cron.py`) runs its handlers one after
  the other and catches nothing: the handlers after one that raises every time, reports and deletions last,
  are not run, and the process is restarted to meet the same job. Not modelled.
- *Two workers and one deletion.* With `Processes = 2` a stale pass writes
  `deleting_*` over `completed`. The run has the one worker that is deployed.
- *Two workers and the cap.* The cap of pushes is counted before the rows are inserted,
  without a lock. `Notices` has the one worker.
- *A push planned twice.* A job that is reclaimed after its rows were written, in a pass
  whose completion is then refused, is planned again, on the next day under another key: the
  push is scheduled for both days, within the cap of each.
- *Re-synthesis.* A completed `/synthesize` whose audio is gone is synthesized
  again on its committed reservation, free; and a retry can share a reservation
  with the request it retries. `LedgerExact` and
  `AnsweredIffCharged` are about `/transcribe`.
- *Two expirers.* Rows in `expiring` are claimed again, and `reserved` goes down
  twice. `WithinLimit` holds even so, and is checked with one.
- *Never run.* Nothing in `app/` calls `expire_due_reservations` or `handle_upload_cleanup`: as deployed
  a reservation whose request died is held until its day ends and beyond, and the original of
  an upload that was not moderated stays.
- *A deletion without storages.* The storages are in the memory of the api (`docs/deploy.md:39`), and the
  worker, another process, makes empty ones of its own at each tick: as deployed a deletion is
  completed without deleting an object (`SharedStorage` is FALSE, and `StorageBeforeAuth` then says
  nothing). They go when the api restarts.
- *Objects put late.* Even with shared storages an object can be put behind the cursor, or after the user
  is gone: `_finalize_synthesize` puts before the transaction that refuses (`services/speech.py:544`, `:557`),
  and `client_put` asks only for a signature that has not expired. It then stays, although the
  deletion is completed (`late` in `AccountDelete`).
- *Quiet hours that change.* A row that is planned is not moved when the owner changes zone or quiet hours: it
  can be due in the new ones. `QuietKept` is about those it was planned with.
- *Photos.* The original is deleted before the decision is written, so a
  moderation that dies in between leaves a photo that can never be moderated
  (`Judge`, `Abandon`). A session that expires while the feed is `processing` cannot be
  replaced (`MayIssue`). `client_put` asks nothing of the session, so bytes put again after the original
  was deleted stay: the session is marked as cleaned already.
- *Late answers of a pact.* A session that is open takes answers after the pact's week, and completes
  the pact by them, though `docs/p15-integration.md:227` has the pact end with the week.
- *The stage after knowledge.* `services/feed` looks at the stage before it inserts the memory of a
  knowledge feed: a spirit that is formed by that memory is so at the next feed.
- *A reply below its message.* A message and its reply have the same `created_at` and
  random ids: half of the replies are listed below what they answer (`Pages`, ids the other
  way round).
- *The line of a report.* `retry_report_line` commits the attempt before it asks the provider; a
  process that dies leaves the client id in progress, against
  `docs/p18-integration.md:80`, as for speech (`LoseRequest` after `ReserveLine`).
- *State settle events.* A settlement that changes the status inserts a
  `state.settle` event whose key no consumer claims; it stays `pending`. It is not
  in the model.

## Not modelled

- Wording, prompts, output validators, ranking of memories, the choice of questions and
  destinations, HTTP parsing and answers, schemas, contracts, logging: no state, or none
  a property is about.
- The database's access control (roles, row-level security, definer functions).
- The debug surface, which is off in production and writes any state; process start-up.
- A device's token: `upsert_device` takes it from whoever else has it; `Notices` only
  asks which devices are enabled.
- Sums over `ai_usage`: plain inserts and a sum; the rollup job is one of `Outbox`'s leaseless jobs.
- Commits that change what a bootstrap shows and leave the version alone (`Profile` has those that
  move it).
- The components share the spirit's row. Each module has the part of the row that its properties
  are about, and what another component does to it only as far as a property can tell (the
  stage and `last_interact_at` in `SpiritState`, the version in `Pact`, `Talk` and
  `Profile`).

## Plan

1. Done: every component with a state machine has a module, and every safety property of a
   passing run is a theorem.
2. Left to model: that `Visits` refines the `VisitEnds` of `SpiritState`; the handlers of a
   worker's tick as one process; two workers.
3. Left to prove: what liveness rests on and is safety all the same (a visit under way that is
   enqueued has a job that is pending, claimed or dead); the ledger under `/synthesize`, whose
   retries share reservations, for which a property weaker than `LedgerExact` has to be found.
