-------------------------------- MODULE Sight --------------------------------
(***************************************************************************)
(* A photo sight: its feed, the upload sessions issued for it, the         *)
(* originals in PrivateSightStorage, the moderations that read, judge and  *)
(* delete an original (services/sight_moderate), and upload_cleanup, which *)
(* tests/db/test_upload_cleanup.py runs and no process in app/ calls.      *)
(*                                                                         *)
(* Every transaction locks the owner's spirit or the rows it writes, and   *)
(* is one step.  Between them the storage is read and the provider awaited,*)
(* while the client puts bytes with a signed URL it was given before, asks *)
(* again, or asks for another URL.                                         *)
(*                                                                         *)
(* moderate's idempotency record does not exclude anything: it refuses     *)
(* another body under the same client id and is otherwise not looked at,   *)
(* so it is left out.  So are the replies.                                 *)
(***************************************************************************)
EXTENDS Naturals

CONSTANTS
    Uploads,       \* upload sessions; each has its object path
    NoUpload,
    Moderations,   \* POST /moderate-sight requests being served
    Cleaners,      \* runs of handle_upload_cleanup
    TTL            \* UPLOAD_TTL, in units of the clock

ASSUME SightAssumption ==
    /\ NoUpload \notin Uploads
    /\ TTL \in Nat \ {0}

VARIABLES
    feed,      \* feeds.status of the photo
    upload,    \* upload[u]: the sight_uploads row
    object,    \* object[u]: the bytes stored at the path of u
    mod,       \* mod[m]: where moderation m is
    cleaner,   \* cleaner[c]: the upload c is about to clean
    photoMemories \* memories inserted with source_feed_id of the photo

sightVars == <<feed, upload, object, mod, cleaner, photoMemories>>

Active == {"issued", "verifying"}
Terminal == {"consumed", "rejected", "expired"}
Decided == {"accepted", "rejected"}

\* left is expires_at - now, cut at 0; marked is object_deleted_at IS NOT NULL.
Upload == [status: {"none"} \cup Active \cup Terminal, left: 0 .. TTL, marked: BOOLEAN]

\* deleted: what service_delete returned to this moderation.
Moderation == [at: {"idle", "get", "begin", "judge", "accept", "reject"},
               upload: Uploads \cup {NoUpload},
               deleted: BOOLEAN]

SightTypeOK ==
    /\ feed \in {"none", "pending", "processing"} \cup Decided
    /\ upload \in [Uploads -> Upload]
    \* Whether the bytes have the magic, size and hash the session expects.
    /\ object \in [Uploads -> {"none", "matching", "other"}]
    /\ mod \in [Moderations -> Moderation]
    /\ cleaner \in [Cleaners -> Uploads \cup {NoUpload}]
    /\ photoMemories \in 0 .. 1

NotModerating == [at |-> "idle", upload |-> NoUpload, deleted |-> FALSE]

SightInit ==
    /\ feed = "none"
    /\ upload = [u \in Uploads |-> [status |-> "none", left |-> 0, marked |-> FALSE]]
    /\ object = [u \in Uploads |-> "none"]
    /\ mod = [m \in Moderations |-> NotModerating]
    /\ cleaner = [c \in Cleaners |-> NoUpload]
    /\ photoMemories = 0

Unsettled == feed \in {"pending", "processing"}

-----------------------------------------------------------------------------
(* The client. *)

\* POST /feed: _settle_photo_pending.
CreateFeed ==
    /\ feed = "none"
    /\ feed' = "pending"
    /\ UNCHANGED <<upload, object, mod, cleaner, photoMemories>>

MayIssue == feed = "pending" /\ \A u \in Uploads : upload[u].status # "verifying"

\* POST /storage/sight-upload-url.  A repeated client id gets its session again,
\* which changes nothing: mark_expired is rolled back with the 410 it precedes.
Issue(u) ==
    /\ MayIssue
    /\ upload[u].status = "none"
    /\ upload' = [v \in Uploads |->
                     IF v = u THEN [status |-> "issued", left |-> TTL, marked |-> FALSE]
                     ELSE IF upload[v].status = "issued" THEN [upload[v] EXCEPT !.status = "expired"]
                     ELSE upload[v]]
    /\ UNCHANGED <<feed, object, mod, cleaner, photoMemories>>

\* client_put asks the signature and the time, and nothing of the session: the
\* same URL may be put to again, or late, whatever has become of it.
Put(u, bytes) ==
    /\ upload[u].status # "none"
    /\ upload[u].left > 0
    /\ object' = [object EXCEPT ![u] = bytes]
    /\ UNCHANGED <<feed, upload, mod, cleaner, photoMemories>>

-----------------------------------------------------------------------------
(* POST /moderate-sight. *)

Goto(m, at) == mod' = [mod EXCEPT ![m].at = at]
End(m) == mod' = [mod EXCEPT ![m] = NotModerating]

\* _claim_or_replay, when it neither replays a settled feed nor answers 410.
Moderate(m, u) ==
    /\ mod[m].at = "idle"
    /\ Unsettled
    /\ upload[u].status \notin {"none", "expired"}
    /\ upload[u].left > 0
    /\ mod' = [mod EXCEPT ![m] = [at |-> "get", upload |-> u, deleted |-> FALSE]]
    /\ UNCHANGED <<feed, upload, object, cleaner, photoMemories>>

\* service_delete, of what m read before.
DeleteObject(m, at) ==
    LET u == mod[m].upload IN
    /\ object' = [object EXCEPT ![u] = "none"]
    /\ mod' = [mod EXCEPT ![m] = [at |-> at, upload |-> u, deleted |-> object[u] # "none"]]

\* service_get: 409 UPLOAD_NOT_READY.
NotReady(m) ==
    /\ mod[m].at = "get"
    /\ object[mod[m].upload] = "none"
    /\ End(m)
    /\ UNCHANGED <<feed, upload, object, cleaner, photoMemories>>

\* service_get; a mismatch deletes the object and rejects the feed.
Get(m) ==
    /\ mod[m].at = "get"
    /\ \/ /\ object[mod[m].upload] = "other"
          /\ DeleteObject(m, "reject")
       \/ /\ object[mod[m].upload] = "matching"
          /\ Goto(m, "begin")
          /\ UNCHANGED object
    /\ UNCHANGED <<feed, upload, cleaner, photoMemories>>

\* Mutation of MayBegin: the session is not looked at.
MayBeginAnySession(u) == Unsettled

\* Both mark_sight_processing and mark_verifying match their row.
MayBegin(u) == Unsettled /\ upload[u].status \in Active

\* mark_verifying, whatever mark_sight_processing found.
Verifying(u) == [upload EXCEPT ![u].status = IF @ \in Active THEN "verifying" ELSE @]

Begin(m) ==
    /\ mod[m].at = "begin"
    /\ MayBegin(mod[m].upload)
    /\ feed' = "processing"
    /\ upload' = Verifying(mod[m].upload)
    /\ Goto(m, "judge")
    /\ UNCHANGED <<object, cleaner, photoMemories>>

\* The same transaction otherwise.  A feed that is settled by now is answered as
\* it is, and mark_verifying is committed; else 409 takes everything back.
BeginEnds(m) ==
    /\ mod[m].at = "begin"
    /\ ~MayBegin(mod[m].upload)
    /\ upload' = IF Unsettled THEN upload ELSE Verifying(mod[m].upload)
    /\ End(m)
    /\ UNCHANGED <<feed, object, cleaner, photoMemories>>

\* Safety and Vision have answered, and the object is deleted at once.
Judge(m) ==
    /\ mod[m].at = "judge"
    /\ \E verdict \in {"accept", "reject"} : DeleteObject(m, verdict)
    /\ UNCHANGED <<feed, upload, cleaner, photoMemories>>

Accepts(m) == mod[m].at = "accept"

Closed(u, status, deleted) ==
    [upload EXCEPT ![u].status = status, ![u].marked = @ \/ deleted]

\* Mutation of Finalize: effect_applied_at IS NULL is not asked.
FinalizeAgain(m) ==
    /\ mod[m].at \in {"accept", "reject"}
    /\ feed' = IF Accepts(m) THEN "accepted" ELSE "rejected"
    /\ upload' = Closed(mod[m].upload, IF Accepts(m) THEN "consumed" ELSE "rejected",
                        mod[m].deleted)
    /\ photoMemories' = IF Accepts(m) THEN photoMemories + 1 ELSE photoMemories
    /\ End(m)
    /\ UNCHANGED <<object, cleaner>>

\* _finalize: nothing happens to a feed that is settled.  The memory stands for
\* the growth event that is recorded with it; the upload.cleanup job that is
\* enqueued as well has no consumer.
Finalize(m) ==
    /\ mod[m].at \in {"accept", "reject"}
    /\ IF Unsettled
       THEN /\ feed' = IF Accepts(m) THEN "accepted" ELSE "rejected"
            /\ upload' = Closed(mod[m].upload, IF Accepts(m) THEN "consumed" ELSE "rejected",
                                mod[m].deleted)
            /\ photoMemories' = IF Accepts(m) THEN photoMemories + 1 ELSE photoMemories
       ELSE UNCHANGED <<feed, upload, photoMemories>>
    /\ End(m)
    /\ UNCHANGED <<object, cleaner>>

\* The provider fails, the database does, or the process dies: nothing is undone.
Abandon(m) ==
    /\ mod[m].at # "idle"
    /\ End(m)
    /\ UNCHANGED <<feed, upload, object, cleaner, photoMemories>>

-----------------------------------------------------------------------------
(* upload_cleanup and time. *)

\* Mutation of Due: a session that ran out without being closed is left out.
DueTerminal(u) == ~upload[u].marked /\ upload[u].status \in Terminal

\* cleanup_reason.  Its last case, the age of 24 hours, is never reached: a
\* session is terminal or has expired long before.
Due(u) ==
    /\ ~upload[u].marked
    /\ \/ upload[u].status \in Terminal
       \/ upload[u].status \in Active /\ upload[u].left = 0

\* handle_upload_cleanup as far as service_delete.
CleanLoad(c, u) ==
    /\ cleaner[c] = NoUpload
    /\ Due(u)
    /\ cleaner' = [cleaner EXCEPT ![c] = u]
    /\ object' = [object EXCEPT ![u] = "none"]
    /\ UNCHANGED <<feed, upload, mod, photoMemories>>

\* mark_object_deleted, in the second transaction.
CleanMark(c) ==
    /\ cleaner[c] # NoUpload
    /\ LET u == cleaner[c] IN
       upload' = [upload EXCEPT ![u].marked = TRUE,
                                ![u].status = IF @ \in Active THEN "expired" ELSE @]
    /\ cleaner' = [cleaner EXCEPT ![c] = NoUpload]
    /\ UNCHANGED <<feed, object, mod, photoMemories>>

CleanCrash(c) ==
    /\ cleaner[c] # NoUpload
    /\ cleaner' = [cleaner EXCEPT ![c] = NoUpload]
    /\ UNCHANGED <<feed, upload, object, mod, photoMemories>>

Minute ==
    /\ \E u \in Uploads : upload[u].left > 0
    /\ upload' = [u \in Uploads |-> [upload[u] EXCEPT !.left = IF @ > 0 THEN @ - 1 ELSE 0]]
    /\ UNCHANGED <<feed, object, mod, cleaner, photoMemories>>

-----------------------------------------------------------------------------
Step(m) == NotReady(m) \/ Get(m) \/ Begin(m) \/ BeginEnds(m) \/ Judge(m) \/ Finalize(m) \/ Abandon(m)

SightNext ==
    \/ CreateFeed
    \/ \E u \in Uploads : Issue(u)
    \/ \E u \in Uploads, bytes \in {"matching", "other"} : Put(u, bytes)
    \/ \E m \in Moderations, u \in Uploads : Moderate(m, u)
    \/ \E m \in Moderations : Step(m)
    \/ \E c \in Cleaners, u \in Uploads : CleanLoad(c, u)
    \/ \E c \in Cleaners : CleanMark(c) \/ CleanCrash(c)
    \/ Minute

SightSpec == SightInit /\ [][SightNext]_sightVars

\* Requests end, and sessions run out.
SightFairness ==
    /\ WF_sightVars(Minute)
    /\ \A m \in Moderations : WF_sightVars(Step(m))

SightFairSpec == SightSpec /\ SightFairness

-----------------------------------------------------------------------------
(* Properties. *)

\* "One valid session per feed" (docs/p12-integration.md:347): whatever URLs are
\* issued while moderations run and sessions run out, at most one is active.
OneSession ==
    \A u, v \in Uploads :
        upload[u].status \in Active /\ upload[v].status \in Active => u = v

\* A photo is accepted by consuming exactly one session, and gives exactly one
\* memory, however many moderations of however many sessions run at once
\* (services/sight_moderate.py:317-416).
AcceptedOnce ==
    /\ photoMemories = IF feed = "accepted" THEN 1 ELSE 0
    /\ feed = "accepted" <=> \E u \in Uploads : upload[u].status = "consumed"
    /\ \A u, v \in Uploads :
          upload[u].status = "consumed" /\ upload[v].status = "consumed" => u = v

\* Neither a slower moderation nor the cleanup overturns a decision.
DecisionStays == [][(feed \in Decided) => feed' = feed]_sightVars

\* What the code does not schedule: somebody runs handle_upload_cleanup for every
\* due session again and again, and does not die between its two transactions
\* every time.
CleanupRuns ==
    /\ Cleaners # {}
    /\ \A c \in Cleaners :
          /\ \A u \in Uploads : SF_sightVars(CleanLoad(c, u))
          /\ SF_sightVars(CleanMark(c))

\* If something runs the cleanup, every session is in the end marked as cleaned,
\* whether it was consumed, rejected, replaced or left to run out, and whatever
\* moderations and late puts do meanwhile (services/upload_cleanup.py:96-149).  As
\* deployed nothing runs it.
MarkedIfCleaned ==
    CleanupRuns => \A u \in Uploads : upload[u].status # "none" ~> upload[u].marked

\* Feed, sessions and memories agree.
SightInv == SightTypeOK /\ OneSession /\ AcceptedOnce
=============================================================================
