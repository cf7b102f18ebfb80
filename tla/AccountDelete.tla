---------------------------- MODULE AccountDelete ---------------------------
(***************************************************************************)
(* services/account_delete on top of the outbox: one accepted deletion,    *)
(* its account.delete job, the owner's stored objects and the auth user.   *)
(* Each pass claims the job as Outbox says and then works through _run_one *)
(* in several transactions, with the storage and the auth admin called     *)
(* between them; a process may die between any two.                        *)
(*                                                                         *)
(* The claim fences the outbox row only: save_progress writes the          *)
(* account_deletions row by id, with values the pass read before.          *)
(*                                                                         *)
(* Objects are numbered in the order list_owner_page lists them; a storage *)
(* cursor is the last object deleted, 0 for NULL.                          *)
(*                                                                         *)
(* The storages are dicts of a process.  The tests give the worker those   *)
(* of the api; as deployed nobody does, and every tick makes empty ones of *)
(* its own, in which it finds nothing.  The storages do not ask whether    *)
(* the account is being deleted: a synthesis under way puts its object     *)
(* before the transaction that would refuse it, and a URL signed earlier   *)
(* is good until it expires.                                               *)
(***************************************************************************)
EXTENDS Outbox

CONSTANTS
    Job,        \* the account.delete job, the only one here
    Objects,    \* bound: the number of objects of the owner
    PageSize,   \* STORAGE_PAGE
    SharedStorage   \* the worker was given the storages of the api

ASSUME AccountDeleteAssumption ==
    /\ Jobs = {Job}
    /\ Leaseless = {}
    /\ MaxContinuations = 0
    /\ Objects \in Nat
    /\ PageSize \in Nat \ {0}
    /\ SharedStorage \in BOOLEAN

VARIABLES
    deletion,   \* the account_deletions row
    objects,    \* objects in the api's storages under the owner's prefixes
    promised,   \* objects that requests from before the deletion may yet put
    late,       \* objects put since a pass first read the deletion (history)
    user,       \* the auth user, and with it all business rows, exist
    work        \* work[t]: how far pass t is, and what it has read

stored == <<objects, promised, late>>

deleteVars == <<vars, deletion, stored, user, work>>

Final == {"completed", "dead"}

Stages == {"deleting_storage", "deleting_auth", "deleting_database"}

\* ACCOUNT_DELETE_MAX_ATTEMPTS is 8, and so is max_attempts of the job.
MaxTries == MaxAttempts

Deletion == [status: {"none", "accepted", "retry"} \cup Stages \cup Final,
             cursor: 0 .. Objects,
             attempts: 0 .. MaxTries]

Work == [at: {"idle", "load", "page", "listed", "auth", "deleted", "residue", "failing"},
         cursor: 0 .. Objects,
         attempts: 0 .. MaxTries]

DeleteTypeOK ==
    /\ TypeOK
    /\ deletion \in Deletion
    /\ objects \in SUBSET (1 .. Objects)
    /\ promised \in SUBSET (1 .. Objects)
    /\ late \in SUBSET (1 .. Objects)
    /\ user \in BOOLEAN
    /\ work \in [Ticks -> Work]

NoWork == [at |-> "idle", cursor |-> 0, attempts |-> 0]

DeleteInit ==
    /\ Init
    /\ deletion = [status |-> "none", cursor |-> 0, attempts |-> 0]
    /\ objects \in SUBSET (1 .. Objects)
    /\ promised \in SUBSET (1 .. Objects)
    /\ late = {}
    /\ user = TRUE
    /\ work = [t \in Ticks |-> NoWork]

-----------------------------------------------------------------------------
\* mark_account_deleting: the row and its job, in one transaction.
Accept ==
    /\ deletion.status = "none"
    /\ deletion' = [deletion EXCEPT !.status = "accepted"]
    /\ Enqueue(Job)
    /\ UNCHANGED <<stored, user, work>>

\* service_put of a synthesis whose provider was slow, or client_put on a URL
\* signed before: no transaction, and no look at the account.
PutPromised(o) ==
    /\ deletion.status # "none"
    /\ o \in promised
    /\ objects' = objects \cup {o}
    /\ late' = IF deletion.status = "accepted" THEN late ELSE late \cup {o}
    /\ UNCHANGED <<vars, deletion, promised, user, work>>

\* The request is over, or the URL has expired.
PromiseEnds(o) ==
    /\ o \in promised
    /\ promised' = promised \ {o}
    /\ UNCHANGED <<vars, deletion, objects, late, user, work>>

Reclaim ==
    /\ SchedulerReclaim
    /\ UNCHANGED <<deletion, stored, user, work>>

\* The consumer claims and does not reclaim.
ClaimDelete(t) ==
    /\ \E age \in 0 .. MaxTickAge : ClaimBatch(t, age, FALSE)
    /\ work' = [work EXCEPT ![t].at = "load"]
    /\ UNCHANGED <<deletion, stored, user>>

\* complete_outbox_job and the end of the pass.
CompleteJob(t) ==
    /\ Settle(t, Job, [Unlocked(outbox[Job]) EXCEPT !.status = "done"])
    /\ work' = [work EXCEPT ![t] = NoWork]

Goto(t, at) == work' = [work EXCEPT ![t].at = at]

Saved(status, cursor, attempts) ==
    deletion' = [status |-> status, cursor |-> cursor, attempts |-> attempts]

\* The first transaction of _run_one, for a deletion that is over.
LoadFinal(t) ==
    /\ work[t].at = "load"
    /\ deletion.status \in Final
    /\ CompleteJob(t)
    /\ UNCHANGED <<more, deletion, stored, user>>

\* Mutation of Load: a retry takes up where it is thought to have failed.
LoadSkipsStorage(t) ==
    /\ work[t].at = "load"
    /\ deletion.status \notin Final
    /\ deletion' = [deletion EXCEPT !.status = "deleting_auth"]
    /\ work' = [work EXCEPT ![t] = [at |-> IF deletion.status = "retry" THEN "auth" ELSE "page",
                                    cursor |-> deletion.cursor,
                                    attempts |-> deletion.attempts]]
    /\ UNCHANGED <<vars, stored, user>>

\* The same, for one that is not: the row is locked for this transaction only.
Load(t) ==
    /\ work[t].at = "load"
    /\ deletion.status \notin Final
    /\ LET stage == IF deletion.status \in Stages THEN deletion.status ELSE "deleting_storage"
           next == [deleting_storage |-> "page", deleting_auth |-> "auth",
                    deleting_database |-> "residue"]
       IN /\ deletion' = [deletion EXCEPT !.status = stage]
          /\ work' = [work EXCEPT ![t] = [at |-> next[stage], cursor |-> deletion.cursor,
                                          attempts |-> deletion.attempts]]
    /\ UNCHANGED <<vars, stored, user>>

\* What the storages hold that the worker has.
Listed == IF SharedStorage THEN objects ELSE {}

\* list_owner_page: the first objects after the cursor.
After(cursor) == {o \in Listed : o > cursor}

Page(cursor) ==
    {o \in After(cursor) : Cardinality({p \in After(cursor) : p < o}) < PageSize}

\* Mutation of NextCursor: the last page is not looked past.
NextCursorOnePage(cursor) == 0

\* The last object of the page if any object follows it, else 0.
NextCursor(cursor) ==
    LET page == Page(cursor) IN
    IF After(cursor) = page THEN 0
    ELSE CHOOSE o \in page : \A p \in page : p <= o

\* _delete_storage_page.
DeletePage(t) ==
    /\ work[t].at = "page"
    /\ objects' = objects \ Page(work[t].cursor)
    /\ work' = [work EXCEPT ![t].at = "listed", ![t].cursor = NextCursor(work[t].cursor)]
    /\ UNCHANGED <<vars, deletion, promised, late, user>>

\* The storage fails, after some of the page is deleted: AccountStorageError.
DeletePageFails(t) ==
    /\ work[t].at = "page"
    /\ \E o \in 0 .. Objects :
          objects' = objects \ {p \in Page(work[t].cursor) : p <= o}
    /\ Goto(t, "failing")
    /\ UNCHANGED <<vars, deletion, promised, late, user>>

\* More pages: the cursor is saved and the job handed back, attempt and all.
SavePage(t) ==
    /\ work[t].at = "listed"
    /\ work[t].cursor > 0
    /\ Saved("deleting_storage", work[t].cursor, work[t].attempts)
    /\ Settle(t, Job, Released(outbox[Job], Now(t)))
    /\ work' = [work EXCEPT ![t] = NoWork]
    /\ UNCHANGED <<more, stored, user>>

SaveStorageDone(t) ==
    /\ work[t].at = "listed"
    /\ work[t].cursor = 0
    /\ Saved("deleting_auth", 0, work[t].attempts)
    /\ Goto(t, "auth")
    /\ UNCHANGED <<vars, stored, user>>

\* admin.delete_user, which deletes the business rows with the user.
DeleteUser(t) ==
    /\ work[t].at = "auth"
    /\ user' = FALSE
    /\ Goto(t, "deleted")
    /\ UNCHANGED <<vars, deletion, stored>>

SaveUserDone(t) ==
    /\ work[t].at = "deleted"
    /\ Saved("deleting_database", 0, work[t].attempts)
    /\ Goto(t, "residue")
    /\ UNCHANGED <<vars, stored, user>>

\* The last transaction: completed, and the job done with it.
Finish(t) ==
    /\ work[t].at = "residue"
    /\ ~user
    /\ Saved("completed", 0, work[t].attempts)
    /\ CompleteJob(t)
    /\ UNCHANGED <<more, stored, user>>

\* AuthAdminError (the admin failed, or residue remains) or DBAPIError.
StepFails(t) ==
    /\ work[t].at \in {"load", "listed", "auth", "deleted", "residue"}
    /\ Goto(t, "failing")
    /\ UNCHANGED <<vars, deletion, stored, user>>

\* Mutation of FailDelete: the row and the job give up independently.
FailDeleteKeepsJob(t) ==
    /\ work[t].at = "failing"
    /\ LET attempts == deletion.attempts + 1 IN
       Saved(IF attempts >= MaxTries THEN "dead" ELSE "retry", 0, attempts)
    /\ CompleteJob(t)
    /\ UNCHANGED <<more, stored, user>>

\* _fail: a transaction of its own, which reads the row anew.
FailDelete(t) ==
    /\ work[t].at = "failing"
    /\ LET attempts == deletion.attempts + 1
           dead == attempts >= MaxTries
       IN /\ Saved(IF dead THEN "dead" ELSE "retry", deletion.cursor, attempts)
          /\ IF dead THEN CompleteJob(t)
             ELSE /\ Settle(t, Job, Requeued(outbox[Job], Now(t)))
                  /\ work' = [work EXCEPT ![t] = NoWork]
    /\ UNCHANGED <<more, stored, user>>

DeleteCrash(t) ==
    /\ Crash(t)
    /\ work' = [work EXCEPT ![t] = NoWork]
    /\ UNCHANGED <<deletion, stored, user>>

DeleteAdvance ==
    /\ Advance
    /\ UNCHANGED <<deletion, stored, user, work>>

-----------------------------------------------------------------------------
Run(t) ==
    \/ LoadFinal(t) \/ Load(t)
    \/ DeletePage(t) \/ DeletePageFails(t) \/ SavePage(t) \/ SaveStorageDone(t)
    \/ DeleteUser(t) \/ SaveUserDone(t) \/ Finish(t)
    \/ StepFails(t) \/ FailDelete(t)

DeleteNext ==
    \/ Accept
    \/ \E o \in 1 .. Objects : PutPromised(o) \/ PromiseEnds(o)
    \/ Reclaim
    \/ \E t \in Ticks : ClaimDelete(t) \/ Run(t) \/ DeleteCrash(t)
    \/ DeleteAdvance

DeleteSpec == DeleteInit /\ [][DeleteNext]_deleteVars

\* As in Outbox.
DeleteFairSpec ==
    /\ DeleteSpec
    /\ WF_deleteVars(DeleteAdvance)
    /\ WF_deleteVars(Reclaim)
    /\ \A t \in Ticks : WF_deleteVars(ClaimDelete(t)) /\ WF_deleteVars(Run(t))

-----------------------------------------------------------------------------
(* Properties. *)

\* Where the worker has the api's storages, what is stored goes before the auth
\* user, whatever is stale or repeated: "a storage failure does not delete auth"
\* (tests/db/test_p19_account.py:310).  Only what was put after a pass first
\* read the deletion may be left.
StorageBeforeAuth == SharedStorage /\ ~user => objects \subseteq late

\* A deletion that is completed has deleted the user, and the objects but those.
CompletedIsGone ==
    deletion.status = "completed" => ~user /\ (SharedStorage => objects \subseteq late)

\* The job is not done before the deletion is over: a done job is never claimed
\* again, so nothing else would finish the deletion.
DoneMeansFinal == outbox[Job].status = "done" => deletion.status \in Final

\* An accepted deletion is in the end completed, or dead after
\* ACCOUNT_DELETE_MAX_ATTEMPTS failures (services/account_delete.py:243-279).
DeletionEnds == deletion.status = "accepted" ~> deletion.status \in Final

\* The deletion, its job, the objects and the user agree.
DeleteInv == DeleteTypeOK /\ StorageBeforeAuth /\ CompletedIsGone /\ DoneMeansFinal
=============================================================================
