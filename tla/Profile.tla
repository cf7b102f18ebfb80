------------------------------- MODULE Profile -------------------------------
(***************************************************************************)
(* The spirit as its owner knows it: POST /spirits creates it once          *)
(* (services/spirit, services/invite_code), PATCH /spirit changes its name  *)
(* and the preferences (services/settings), GET /bootstrap reads all of it  *)
(* (services/bootstrap), and a device keeps one version of what it was      *)
(* told (domain/snapshot).                                                  *)
(*                                                                         *)
(* A name or preferences are the client id of the request that set them,    *)
(* the facts of the room the version at which they changed.  past is a      *)
(* history variable: what the spirit was at each of its versions.           *)
(***************************************************************************)
EXTENDS Ids, FiniteSets, Sequences

CONSTANTS
    Owners,      \* accounts
    Devices,     \* devices that are signed in
    OwnerOf,     \* OwnerOf[d]: the account of device d
    CreateIds,   \* client ids of POST /spirits
    PatchIds,    \* client ids of PATCH /spirit
    InviteCodes, \* invite codes that are drawn
    MaxAllocate, \* MAX_ALLOCATE_ATTEMPTS, 16
    MaxReaders,  \* bound: bootstraps at a time, which only read
    MaxProfile   \* bound: MaxProfile[o] is the last version of the spirit of o

ASSUME ProfileAssumption ==
    /\ OwnerOf \in [Devices -> Owners]
    /\ MaxAllocate \in Nat \ {0}
    /\ MaxProfile \in [Owners -> Nat \ {0}]
    /\ CreateIds \cup PatchIds \cup InviteCodes \subseteq Nat \ {0}
    /\ CreateIds \cap PatchIds = {}
    /\ "none" \notin Owners

VARIABLES
    spirits,    \* spirits[o]: the row of spirits and of user_preferences
    consents,   \* consents[o]: client ids for which account_consents has its three rows
    createKeys, \* idempotency_records of spirit.create: the owner
    patchKeys,  \* idempotency_records of spirit.patch: the owner
    creating,   \* creating[d]: the transaction of POST /spirits
    reading,    \* reading[d]: the read transaction of GET /bootstrap
    told,       \* told[d]: what device d keeps, and the client id that created it,
                \* if it is the answer to that
    past        \* past[o]: the versions that the spirit had

profileVars ==
    <<spirits, consents, createKeys, patchKeys, creating, reading, told, past>>

NoSpirit == [client |-> 0, code |-> 0, version |-> 0, name |-> 0, prefs |-> 0, facts |-> 0]

NotCreating == [phase |-> "idle", client |-> 0, code |-> 0, attempts |-> 0]

NotReading == [phase |-> "idle", row |-> NoSpirit]

Untold == [of |-> 0, row |-> NoSpirit]

ProfileInit ==
    /\ spirits = [o \in Owners |-> NoSpirit]
    /\ consents = [o \in Owners |-> {}]
    /\ createKeys = [c \in CreateIds |-> "none"]
    /\ patchKeys = [k \in PatchIds |-> "none"]
    /\ creating = [d \in Devices |-> NotCreating]
    /\ reading = [d \in Devices |-> NotReading]
    /\ told = [d \in Devices |-> Untold]
    /\ past = [o \in Owners |-> <<>>]

Exists(o) == spirits[o] # NoSpirit

-----------------------------------------------------------------------------
(* The device. *)

\* patch_merge_decision: a late patch is dropped.  An answer may be lost.
Merged(d, answer) ==
    \/ UNCHANGED told
    \/ /\ answer.row.version >= told[d].row.version
       /\ told' = [told EXCEPT ![d] = answer]

\* A bootstrap replaces everything.
Replaced(d, answer) == UNCHANGED told \/ told' = [told EXCEPT ![d] = answer]

-----------------------------------------------------------------------------
(* POST /spirits. *)

\* lock_owner_create: pg_advisory_xact_lock, until the end of the transaction.
OwnerCreateFree(o) == \A d \in Devices : OwnerOf[d] = o => creating[d] = NotCreating

\* Mutation of CreateReplay: whoever has a spirit is told of it.
CreateReplayAny(o, c) == TRUE

\* _replay_or_conflict.
CreateReplay(o, c) == spirits[o].client = c

\* claim_create_idempotency: nobody else inserts the record in an open transaction.
NewCreateKey(c) == createKeys[c] = "none" /\ \A e \in Devices : creating[e].client # c

\* create_spirit_if_absent: claim_create_idempotency and insert_consents, or the
\* spirit that is there: its own, or CONFLICT.
StartCreate(d, c) ==
    LET o == OwnerOf[d] IN
    /\ creating[d] = NotCreating /\ OwnerCreateFree(o)
    /\ NewCreateKey(c) \/ createKeys[c] = o
    /\ \/ /\ ~Exists(o)
          /\ creating' = [creating EXCEPT ![d] = [NotCreating EXCEPT !.phase = "drawing",
                                                                     !.client = c]]
          /\ UNCHANGED told
       \/ /\ Exists(o) /\ CreateReplay(o, c)
          /\ Merged(d, [of |-> c, row |-> spirits[o]])
          /\ UNCHANGED creating
    /\ UNCHANGED <<spirits, consents, createKeys, patchKeys, reading, past>>

\* Mutation of CodeTaken: no conflict is noticed.
CodeTakenNever(code) == FALSE

NewCode(code) ==
    /\ \A o \in Owners : spirits[o].code # code
    /\ \A d \in Devices : creating[d].code # code

\* is_invite_code_unique_conflict.
CodeTaken(code) == \E o \in Owners : Exists(o) /\ spirits[o].code = code

\* The unique index waits for a transaction that has inserted the code.
CodeInserted(code) == \E d \in Devices : creating[d].phase = "drawn" /\ creating[d].code = code

\* allocate_invite_code: a conflict rolls back to the savepoint and another code is
\* drawn; after MaxAllocate of them everything is rolled back.
DrawCode(d, code) ==
    LET try == creating[d] IN
    /\ try.phase = "drawing"
    /\ ~CodeInserted(code)
    /\ creating' = [creating EXCEPT ![d] =
          IF ~CodeTaken(code) THEN [try EXCEPT !.phase = "drawn", !.code = code]
          ELSE IF try.attempts + 1 < MaxAllocate THEN [try EXCEPT !.attempts = try.attempts + 1]
          ELSE NotCreating]
    /\ UNCHANGED <<spirits, consents, createKeys, patchKeys, reading, told, past>>

Born(d) == [client |-> creating[d].client, code |-> creating[d].code, version |-> 1,
            name |-> creating[d].client, prefs |-> creating[d].client, facts |-> 1]

\* insert_consents: three rows of the client id.
Consented(o, c) == consents' = [consents EXCEPT ![o] = @ \cup {c}]

\* insert_preferences, complete_create_idempotency and the commit.
FinishCreate(d) ==
    LET o == OwnerOf[d]
        c == creating[d].client
    IN
    /\ creating[d].phase = "drawn"
    /\ spirits' = [spirits EXCEPT ![o] = Born(d)]
    /\ past' = [past EXCEPT ![o] = <<Born(d)>>]
    /\ Consented(o, c)
    /\ createKeys' = [createKeys EXCEPT ![c] = o]
    /\ creating' = [creating EXCEPT ![d] = NotCreating]
    /\ Merged(d, [of |-> c, row |-> Born(d)])
    /\ UNCHANGED <<patchKeys, reading>>

\* The process dies, or the connection is lost.
LoseCreate(d) ==
    /\ creating[d] # NotCreating
    /\ creating' = [creating EXCEPT ![d] = NotCreating]
    /\ UNCHANGED <<spirits, consents, createKeys, patchKeys, reading, told, past>>

-----------------------------------------------------------------------------
(* PATCH /spirit, under the lock of the spirit. *)

Write(o, row) ==
    /\ row.version <= MaxProfile[o]
    /\ spirits' = [spirits EXCEPT ![o] = row]
    /\ past' = [past EXCEPT ![o] = Append(@, row)]

\* Mutation of VersionExpected: the WHERE of bump_spirit without its version.
VersionExpectedAny(o, version) == TRUE

\* expected_version, of patch_spirit and of bump_spirit.
VersionExpected(o, version) == spirits[o].version = version

\* update_preferences: the fields that are set; bump_spirit.
Patched(o, k, fields) ==
    [spirits[o] EXCEPT !.name = IF "name" \in fields THEN k ELSE @,
                       !.prefs = IF "prefs" \in fields THEN k ELSE @,
                       !.version = @ + 1]

\* claim_patch_idempotency.
NewPatchKey(k) == patchKeys[k] = "none"

\* fetch_projection: spirit_patch_result.
PatchAnswer(row) == [of |-> 0, row |-> row]

\* The device patches the version that it keeps; the same client id again is told
\* what the spirit is now.
PatchSpirit(d, k) ==
    LET o == OwnerOf[d] IN
    /\ Exists(o) /\ told[d].row # NoSpirit
    /\ \/ /\ NewPatchKey(k)
          /\ VersionExpected(o, told[d].row.version)
          /\ \E fields \in SUBSET {"name", "prefs"} \ {{}} :
                /\ Write(o, Patched(o, k, fields))
                /\ Merged(d, PatchAnswer(Patched(o, k, fields)))
          /\ patchKeys' = [patchKeys EXCEPT ![k] = o]
       \/ /\ patchKeys[k] = o
          /\ Merged(d, PatchAnswer(spirits[o]))
          /\ UNCHANGED <<spirits, patchKeys, past>>
    /\ UNCHANGED <<consents, createKeys, creating, reading>>

\* A mutation of another module that bumps the version with the facts of the room.
\* (What changes them without it, as EXTRACT does, is Talk's MemoriesHaveVersion.)
ChangeFacts(o) ==
    /\ Exists(o)
    /\ Write(o, [spirits[o] EXCEPT !.version = @ + 1, !.facts = spirits[o].version + 1])
    /\ UNCHANGED <<consents, createKeys, patchKeys, creating, reading, told>>

-----------------------------------------------------------------------------
(* GET /bootstrap. *)

\* claimed_read_transaction: SPIRIT_SQL reads the spirit and its preferences, and
\* fixes what the statements after it see.
StartBootstrap(d) ==
    /\ reading[d] = NotReading
    /\ Cardinality({e \in Devices : reading[e] # NotReading}) < MaxReaders
    /\ reading' = [reading EXCEPT ![d] = [phase |-> "read", row |-> spirits[OwnerOf[d]]]]
    /\ UNCHANGED <<spirits, consents, createKeys, patchKeys, creating, told, past>>

\* Mutation of FactsSeen: READ COMMITTED.
FactsSeenNow(d) == spirits[OwnerOf[d]].facts

\* READ_SNAPSHOT_SQL: REPEATABLE READ.
FactsSeen(d) == reading[d].row.facts

\* load_bootstrap_snapshot: an account without a spirit has no room.
Snapshot(d) ==
    [of |-> 0,
     row |-> IF reading[d].row = NoSpirit THEN NoSpirit
             ELSE [reading[d].row EXCEPT !.facts = FactsSeen(d)]]

\* load_bootstrap_aggregate_rows reads the facts of the room, statement by statement.
FinishBootstrap(d) ==
    /\ reading[d].phase = "read"
    /\ Replaced(d, Snapshot(d))
    /\ reading' = [reading EXCEPT ![d] = NotReading]
    /\ UNCHANGED <<spirits, consents, createKeys, patchKeys, creating, past>>

ProfileNext ==
    \/ \E d \in Devices :
          \/ \E c \in UpToNew(CreateIds, NewCreateKey) : StartCreate(d, c)
          \/ \E code \in UpToNew(InviteCodes, NewCode) : DrawCode(d, code)
          \/ FinishCreate(d) \/ LoseCreate(d)
          \/ \E k \in UpToNew(PatchIds, NewPatchKey) : PatchSpirit(d, k)
          \/ StartBootstrap(d) \/ FinishBootstrap(d)
    \/ \E o \in Owners : ChangeFacts(o)

ProfileSpec == ProfileInit /\ [][ProfileNext]_profileVars
-----------------------------------------------------------------------------
(* Properties. *)

ProfileTypeOK ==
    /\ \A o \in Owners :
          /\ spirits[o].version \in 0 .. MaxProfile[o]
          /\ consents[o] \subseteq CreateIds
          /\ Len(past[o]) = spirits[o].version
    /\ \A d \in Devices : creating[d].attempts < MaxAllocate

\* An account has all of a spirit or nothing of it, from one request
\* (docs/p01-p07-integration.md:271): the consents, the record of the client id and the
\* spirit are those of the same client id; no other spirit has its code; and the
\* answer to a client id is the spirit that it created, not another device's.
CreatedWhole ==
    /\ \A o \in Owners :
          /\ consents[o] = {c \in CreateIds : createKeys[c] = o}
          /\ consents[o] = IF Exists(o) THEN {spirits[o].client} ELSE {}
    /\ \A o, p \in Owners : Exists(o) /\ spirits[o].code = spirits[p].code => o = p
    /\ \A d \in Devices : told[d].of \in CreateIds => told[d].row.client = told[d].of

\* What a device keeps is what the spirit was at that version
\* (docs/p01-p07-integration.md:279): a bootstrap does not mix two versions.
SnapshotWhole ==
    \A d \in Devices :
        LET was == past[OwnerOf[d]] IN
        told[d].row \in {NoSpirit} \cup {was[v] : v \in DOMAIN was}

\* A name or preferences are only replaced by a device that has seen them: none is
\* lost to another device's older settings (docs/p19-integration.md:37).
SeenIsPatched ==
    [][spirits' # spirits =>
          \A o \in Owners :
              /\ Exists(o)
              /\ <<spirits'[o].name, spirits'[o].prefs>> # <<spirits[o].name, spirits[o].prefs>>
              => \E d \in Devices : OwnerOf[d] = o /\ told[d].row = spirits[o]]_profileVars

\* A spirit is created whole and read whole.
ProfileInv == ProfileTypeOK /\ CreatedWhole /\ SnapshotWhole
=============================================================================
