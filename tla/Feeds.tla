------------------------------- MODULE Feeds -------------------------------
(***************************************************************************)
(* services/feed: the feeds and promises of one spirit, the memories they   *)
(* give, and the stage the spirit grows to.  The settlement of a photo by   *)
(* services/sight_moderate is here as far as it changes these; its own      *)
(* steps are in Sight.                                                      *)
(*                                                                         *)
(* A request is one transaction that holds the spirit FOR UPDATE: it is one *)
(* action, and what raises rolls back all of it, quota and idempotency      *)
(* claim included, and is no step.  Several devices show a snapshot of the  *)
(* spirit and of its promise, of any age, and ask on the strength of it.    *)
(*                                                                         *)
(* A feed is named by the client id of its creation, which is tried again   *)
(* with the same body; with another one it is refused.  All happens on one  *)
(* usage date (the change of dates is in UsageWindow).  What is needed for  *)
(* the stage awake besides growth is chosen at the start.                   *)
(***************************************************************************)
EXTENDS Growth, FiniteSets, FiniteSetsExt

CONSTANTS
    FeedIds,       \* client ids of POST /feed, and the feeds they make
    FeedPlans,     \* kinds of the feeds, one of which is chosen at the start
    DailyLimits,   \* DailyLimits[k]: DAILY_LIMITS of the capability
    PatchIds,      \* client ids of PATCH /feeds, complete and cancel
    FeedDevices,   \* installations of the app
    Contents,      \* texts of promises
    FormedBond,    \* FORMED_BOND_MIN, 20
    FormedTypes,   \* FORMED_ACTIVE_MEMORY_TYPES, 3
    AwakeBond      \* AWAKE_BOND_MIN, 50

Kinds == {"food", "knowledge", "emotion", "promise", "location", "photo"}

\* The capability a kind is charged to; a promise is free.
Capability(k) == IF k \in {"location", "photo"} THEN "sight" ELSE k

ASSUME FeedsAssumption ==
    /\ IsFiniteSet(FeedIds)
    /\ FeedPlans \subseteq [FeedIds -> Kinds]
    /\ DailyLimits \in [{"food", "knowledge", "emotion", "sight"} -> Nat]
    /\ {FormedBond, FormedTypes, AwakeBond} \subseteq Nat

VARIABLES
    host,          \* the spirits row
    feeds,         \* feeds[f]: the feeds row
    memory,        \* memory[f]: status of the memory with source_feed_id f
    feedUsed,      \* feedUsed[c]: daily_usage.used of the capability
    feedClaims,    \* completed idempotency_records: operation, client id, hash
    feedEvents,    \* keys of growth_events
    shown,         \* shown[d]: the snapshot on device d
    overwritten    \* history: a promise was changed that nobody had seen as it was

feedVars ==
    <<host, feeds, memory, feedUsed, feedClaims, feedEvents, shown, overwritten>>

NoFeed(kind) ==
    [kind |-> kind, status |-> "none", promise |-> "none", content |-> "none",
     applied |-> FALSE]

\* What an app knows of the promise: which one, and what it says.
NoPromise == [of |-> {}, content |-> "none"]

FeedsInit ==
    /\ host \in [hunger: {90}, energy: {95}, mood: {5}, bond: {0}, version: {0},
                 stage: {"whelp"}, travelled: BOOLEAN]
    /\ \E plan \in FeedPlans : feeds = [f \in FeedIds |-> NoFeed(plan[f])]
    /\ memory = [f \in FeedIds |-> "none"]
    /\ feedUsed = [c \in DOMAIN DailyLimits |-> 0]
    /\ feedClaims = {}
    /\ feedEvents = {}
    /\ shown = [d \in FeedDevices |-> [version |-> 0, promise |-> NoPromise]]
    /\ overwritten = FALSE

-----------------------------------------------------------------------------
(* domain/evolution and services/evolution. *)

\* The type of the memory that a feed gives.
MemoryType(f) == IF feeds[f].kind = "knowledge" THEN "knowledge" ELSE "sight"

ActiveTypes(mem) == {MemoryType(f) : f \in {g \in FeedIds : mem[g] = "active"}}

\* fetch_evolution_facts, of rows that the transaction has just written.
KnowledgeGrowth(rows) ==
    \E f \in FeedIds :
        feeds[f].kind = "knowledge" /\ rows[f].status = "accepted" /\ rows[f].applied

\* formed_ready.
FormedReady(s, mem) == s.bond >= FormedBond /\ Cardinality(ActiveTypes(mem)) >= FormedTypes

\* awake_ready.
AwakeReady(s, rows) == s.bond >= AwakeBond /\ KnowledgeGrowth(rows) /\ s.travelled

\* advance_stage by next_stage: one step forward, with a version of its own.
StageStep(s, rows, mem) ==
    IF s.stage = "whelp" /\ FormedReady(s, mem) THEN Bumped([s EXCEPT !.stage = "formed"])
    ELSE IF s.stage = "formed" /\ AwakeReady(s, rows) THEN Bumped([s EXCEPT !.stage = "awake"])
    ELSE s

\* maybe_advance_stage: two rounds.
StageAdvanced(s, rows, mem) == StageStep(StageStep(s, rows, mem), rows, mem)

-----------------------------------------------------------------------------
(* domain/feed and repositories/feed. *)

\* FOOD_HUNGER_DELTA and FOOD_ENERGY_DELTA; EMOTION_EFFECTS, a happy or an angry one.
Deltas(k) ==
    CASE k = "food" -> {[hunger |-> 10, energy |-> 10]}
      [] k = "emotion" -> {[mood |-> 12], [mood |-> -15]}
      [] OTHER -> {<< >>}

\* insert_accepted_feed.
InsertedFeed(f, status, promise, content) ==
    [NoFeed(feeds[f].kind) EXCEPT !.status = status, !.promise = promise, !.content = content,
                                  !.applied = status # "pending" /\ promise = "none"]

\* Mutation of ActivePromises: of a snapshot that is shown.
ActivePromisesShown ==
    {f \in FeedIds : feeds[f].promise = "active" /\ \E d \in FeedDevices : f \in shown[d].promise.of}

\* fetch_active_promise.
ActivePromises == {f \in FeedIds : feeds[f].promise = "active"}

\* update_active_promise, complete_active_promise, cancel_active_promise.
PatchedPromise(row, content) == [row EXCEPT !.content = content]

CompletedPromise(row) == [row EXCEPT !.promise = "completed", !.applied = TRUE]

CancelledPromise(row) == [row EXCEPT !.promise = "cancelled", !.status = "cancelled"]

\* apply_spirit_deltas with nothing to add: the version, and perhaps the touch.
Refreshed(s) == Bumped(s)

\* Mutation of QuotaLeft: photos and locations have a limit each.
QuotaLeftApart(k) ==
    Cardinality({f \in FeedIds : feeds[f].status # "none" /\ feeds[f].kind = k})
        < DailyLimits[Capability(k)]

\* consume_quota: QUOTA_EXCEEDED at the limit.
QuotaLeft(k) == feedUsed[Capability(k)] < DailyLimits[Capability(k)]

ConsumeQuota(k) == feedUsed' = [feedUsed EXCEPT ![Capability(k)] = @ + 1]

\* claim_feed_idempotency and _reject_stale_claim.
NewFeedClaim(op, cid) == ~\E c \in feedClaims : c.op = op /\ c.cid = cid

FeedReplay(op, cid, hash) == [op |-> op, cid |-> cid, hash |-> hash] \in feedClaims

\* complete_feed_idempotency.
FeedClaimed(op, cid, hash) == feedClaims \cup {[op |-> op, cid |-> cid, hash |-> hash]}

\* insert_knowledge_memory: one for a feed.
WithMemory(f) == [memory EXCEPT ![f] = "active"]

\* _record_growth: the event, once, and then the stage.
GrowsWith(s, key, payload, rows, mem) ==
    StageAdvanced(Grown(s, feedEvents, key, payload, TRUE), rows, mem)

-----------------------------------------------------------------------------
(* What the app shows. *)

PromiseShown(rows) ==
    LET active == {f \in FeedIds : rows[f].promise = "active"} IN
    IF active = {} THEN NoPromise
    ELSE LET f == CHOOSE g \in active : TRUE IN [of |-> {f}, content |-> rows[f].content]

\* An answer, or GET /bootstrap, arrives at a device.  Both say what the rows were
\* when they were read: a lost answer is one that does not arrive.
Refresh(d) ==
    /\ shown' = [shown EXCEPT ![d] = [version |-> host.version,
                                      promise |-> PromiseShown(feeds)]]
    /\ UNCHANGED <<host, feeds, memory, feedUsed, feedClaims, feedEvents, overwritten>>

-----------------------------------------------------------------------------
(* POST /feed: settle_feed and the functions it hands the kinds to. *)

Fed(f, row) == feeds' = [feeds EXCEPT ![f] = row]

\* food and emotion.  The stage is looked at after the deltas.
SettleVitals(f) ==
    /\ feeds[f].kind \in {"food", "emotion"}
    /\ QuotaLeft(feeds[f].kind)
    /\ ConsumeQuota(feeds[f].kind)
    /\ Fed(f, InsertedFeed(f, "accepted", "none", "none"))
    /\ \E payload \in Deltas(feeds[f].kind) :
          host' = GrowsWith(host, <<"feed_accepted", f>>, payload, feeds', memory)
    /\ feedEvents' = Recorded(feedEvents, <<"feed_accepted", f>>)
    /\ UNCHANGED memory

\* knowledge.  The memory is inserted after the stage has been looked at.
SettleKnowledge(f) ==
    /\ feeds[f].kind = "knowledge"
    /\ QuotaLeft("knowledge")
    /\ ConsumeQuota("knowledge")
    /\ Fed(f, InsertedFeed(f, "accepted", "none", "none"))
    /\ host' = GrowsWith(host, <<"feed_accepted", f>>, << >>, feeds', memory)
    /\ feedEvents' = Recorded(feedEvents, <<"feed_accepted", f>>)
    /\ memory' = WithMemory(f)

\* _insert_promise: CONFLICT while another one is active.
InsertPromise(f, content) ==
    /\ feeds[f].kind = "promise"
    /\ ActivePromises = {}
    /\ Fed(f, InsertedFeed(f, "accepted", "active", content))
    /\ host' = GrowsWith(host, <<"feed_accepted", f>>, << >>, feeds', memory)
    /\ feedEvents' = Recorded(feedEvents, <<"feed_accepted", f>>)
    /\ UNCHANGED <<memory, feedUsed>>

\* _settle_location_sight: a private place is rejected.
SettleLocation(f) ==
    /\ feeds[f].kind = "location"
    /\ QuotaLeft("location")
    /\ ConsumeQuota("location")
    /\ \/ /\ Fed(f, InsertedFeed(f, "rejected", "none", "none"))
          /\ host' = Refreshed(host)
          /\ UNCHANGED <<memory, feedEvents>>
       \/ /\ Fed(f, InsertedFeed(f, "accepted", "none", "none"))
          /\ memory' = WithMemory(f)
          /\ host' = GrowsWith(host, <<"feed_accepted", f>>, << >>, feeds', memory')
          /\ feedEvents' = Recorded(feedEvents, <<"feed_accepted", f>>)

\* _settle_photo_pending.
SettlePhoto(f) ==
    /\ feeds[f].kind = "photo"
    /\ QuotaLeft("photo")
    /\ ConsumeQuota("photo")
    /\ Fed(f, InsertedFeed(f, "pending", "none", "none"))
    /\ host' = Refreshed(host)
    /\ UNCHANGED <<memory, feedEvents>>

\* settle_feed, or _replay_create, which answers and changes nothing.
SettleFeed(f, content) ==
    /\ \/ /\ FeedReplay("create", f, content)
          /\ UNCHANGED <<host, feeds, memory, feedUsed, feedClaims, feedEvents>>
       \/ /\ NewFeedClaim("create", f)
          /\ feedClaims' = FeedClaimed("create", f, content)
          /\ \/ SettleVitals(f) \/ SettleKnowledge(f) \/ InsertPromise(f, content)
             \/ SettleLocation(f) \/ SettlePhoto(f)
    /\ UNCHANGED <<shown, overwritten>>

-----------------------------------------------------------------------------
(* PATCH /feeds/{id}, POST /feeds/{id}/complete and /cancel. *)

\* Mutation of Unchanged: expected_version is not looked at.
UnchangedAny(f, expected) == feeds[f].promise = "active"

\* _require_active_promise, and expected_version is the spirit's.
Unchanged(f, expected) == feeds[f].promise = "active" /\ expected = host.version

\* A request names the promise its device shows and the version it has.
Seen(f, d) == shown[d].promise.of = {f}

Overwrites(f, d) ==
    overwritten' = (overwritten \/ shown[d].promise.content # feeds[f].content)

\* patch_promise.
PatchPromise(f, d, cid, content) ==
    LET hash == <<f, shown[d].version, content>> IN
    \/ /\ FeedReplay("patch", cid, hash)
       /\ UNCHANGED <<host, feeds, feedClaims, feedEvents, overwritten>>
    \/ /\ NewFeedClaim("patch", cid)
       /\ Unchanged(f, shown[d].version)
       /\ Fed(f, PatchedPromise(feeds[f], content))
       /\ host' = Refreshed(host)
       /\ feedClaims' = FeedClaimed("patch", cid, hash)
       /\ Overwrites(f, d)
       /\ UNCHANGED feedEvents

\* complete_promise: five bond.
CompletePromise(f, d, cid) ==
    LET hash == <<f, shown[d].version>>
        key == <<"promise_completed", f>>
    IN
    \/ /\ FeedReplay("complete", cid, hash)
       /\ UNCHANGED <<host, feeds, feedClaims, feedEvents, overwritten>>
    \/ /\ NewFeedClaim("complete", cid)
       /\ Unchanged(f, shown[d].version)
       /\ Fed(f, CompletedPromise(feeds[f]))
       /\ host' = GrowsWith(host, key, [bond |-> 5], feeds', memory)
       /\ feedEvents' = Recorded(feedEvents, key)
       /\ feedClaims' = FeedClaimed("complete", cid, hash)
       /\ Overwrites(f, d)

\* cancel_promise.
CancelPromise(f, d, cid) ==
    LET hash == <<f, shown[d].version>> IN
    \/ /\ FeedReplay("cancel", cid, hash)
       /\ UNCHANGED <<host, feeds, feedClaims, feedEvents, overwritten>>
    \/ /\ NewFeedClaim("cancel", cid)
       /\ Unchanged(f, shown[d].version)
       /\ Fed(f, CancelledPromise(feeds[f]))
       /\ host' = Refreshed(host)
       /\ feedClaims' = FeedClaimed("cancel", cid, hash)
       /\ Overwrites(f, d)
       /\ UNCHANGED feedEvents

-----------------------------------------------------------------------------
(* services/sight_moderate, of a photo. *)

\* mark_sight_processing: the spirit's version stays.
MarkSightProcessing(f) ==
    /\ feeds[f].kind = "photo"
    /\ feeds[f].status = "pending"
    /\ Fed(f, [feeds[f] EXCEPT !.status = "processing"])
    /\ UNCHANGED <<host, memory, feedUsed, feedClaims, feedEvents, shown, overwritten>>

\* settle_sight_feed in _finalize; a rejection leaves the spirit's version too.
SettleSight(f) ==
    /\ feeds[f].kind = "photo"
    /\ feeds[f].status \in {"pending", "processing"}
    /\ \/ /\ Fed(f, [feeds[f] EXCEPT !.status = "rejected", !.applied = TRUE])
          /\ UNCHANGED <<host, memory, feedEvents>>
       \/ /\ Fed(f, [feeds[f] EXCEPT !.status = "accepted", !.applied = TRUE])
          /\ memory' = WithMemory(f)
          /\ host' = GrowsWith(host, <<"feed_accepted", f>>, << >>, feeds', memory')
          /\ feedEvents' = Recorded(feedEvents, <<"feed_accepted", f>>)
    /\ UNCHANGED <<feedUsed, feedClaims, shown, overwritten>>

-----------------------------------------------------------------------------
(* api/v1/feeds. *)

PostFeed == \E f \in FeedIds, content \in Contents : SettleFeed(f, content)

PatchFeed ==
    /\ \E f \in FeedIds, d \in FeedDevices, cid \in PatchIds, content \in Contents :
          Seen(f, d) /\ PatchPromise(f, d, cid, content)
    /\ UNCHANGED <<memory, feedUsed, shown>>

PostFeedComplete ==
    /\ \E f \in FeedIds, d \in FeedDevices, cid \in PatchIds :
          Seen(f, d) /\ CompletePromise(f, d, cid)
    /\ UNCHANGED <<memory, feedUsed, shown>>

PostFeedCancel ==
    /\ \E f \in FeedIds, d \in FeedDevices, cid \in PatchIds :
          Seen(f, d) /\ CancelPromise(f, d, cid)
    /\ UNCHANGED <<memory, feedUsed, shown>>

FeedsNext ==
    \/ PostFeed \/ PatchFeed \/ PostFeedComplete \/ PostFeedCancel
    \/ \E d \in FeedDevices : Refresh(d)
    \/ \E f \in FeedIds : MarkSightProcessing(f) \/ SettleSight(f)

FeedsSpec == FeedsInit /\ [][FeedsNext]_feedVars

-----------------------------------------------------------------------------
(* Properties. *)

FeedsTypeOK ==
    /\ {host.hunger, host.energy, host.mood, host.bond} \subseteq 0 .. 100
    /\ host.version \in Nat
    /\ host.stage \in {"whelp", "formed", "awake"}
    /\ \A f \in FeedIds :
          /\ feeds[f].status \in {"none", "pending", "processing", "accepted", "rejected",
                                  "cancelled"}
          /\ feeds[f].promise \in {"none", "active", "completed", "cancelled"}
          /\ memory[f] \in {"none", "active", "sealed", "deleted"}

\* A spirit has one active promise, whatever devices create, retry, complete and
\* cancel at once.
OneActivePromise ==
    \A f, g \in FeedIds :
        feeds[f].promise = "active" /\ feeds[g].promise = "active" => f = g

\* What a feed does it does once, and with what it is charged for: the quota that
\* is used is that of the feeds there are, a memory is an accepted knowledge's or
\* sight's, an event an accepted feed's, and the bond is that of the completed
\* promises.
FedOnce ==
    /\ \A c \in DOMAIN DailyLimits :
          /\ feedUsed[c] <= DailyLimits[c]
          /\ feedUsed[c] = Cardinality({f \in FeedIds : /\ feeds[f].status # "none"
                                                        /\ Capability(feeds[f].kind) = c})
    /\ \A f \in FeedIds :
          /\ memory[f] # "none" <=>
                /\ feeds[f].status = "accepted"
                /\ feeds[f].kind \in {"knowledge", "location", "photo"}
          /\ <<"feed_accepted", f>> \in feedEvents <=>
                feeds[f].status \in {"accepted", "cancelled"}
          /\ <<"promise_completed", f>> \in feedEvents <=> feeds[f].promise = "completed"
    /\ host.bond = Clamp(5 * Cardinality({f \in FeedIds : feeds[f].promise = "completed"}))

\* A promise is patched, completed or cancelled only by a device that shows it as
\* it is: expected_version is the spirit's, which not every change of a feed moves.
NothingOverwritten == ~overwritten

\* Promises, feeds, memories, quota, events and bond agree.
FeedsInv == FeedsTypeOK /\ OneActivePromise /\ FedOnce /\ NothingOverwritten
=============================================================================
