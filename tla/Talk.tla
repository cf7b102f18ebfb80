-------------------------------- MODULE Talk --------------------------------
(***************************************************************************)
(* services/chat, services/extract, services/memory and services/onboarding *)
(* of one spirit: turns of chat, the windows they fill, the memories and    *)
(* the style samples that are extracted from a window, and their ends.      *)
(*                                                                         *)
(* A turn and an extract keep their transaction, and with it the spirit     *)
(* FOR UPDATE, open while the provider answers: each is two steps, or one   *)
(* that fails and rolls back.  Who finds the spirit held is refused (chat   *)
(* and extract, NOWAIT) or waits (all the others, which are one step).      *)
(* So what the code keeps of a turn or an extract that is not over (a claim *)
(* in progress and its lease, a user message without a reply, a window that *)
(* is extracting or failed) is never committed; a replay answers and        *)
(* changes nothing and is no step.                                          *)
(*                                                                         *)
(* The text of a message is abstracted to whether it is onboarding, the     *)
(* source of a reply to the memories it cites, a style sample to its text.  *)
(* One usage date; traits and bond are in Growth and Feeds.                 *)
(***************************************************************************)
EXTENDS Growth, Ids, FiniteSets, SequencesExt

CONSTANTS
    TurnIds,      \* client_message_ids, in the order in which they are first used
    ExtractIds,   \* client ids of POST /extract
    MaxMemories,  \* memories there can be
    SampleTexts,  \* texts of style samples
    MemoryOpIds,  \* client ids of changes of memories, in that order
    Handlers,     \* requests that are served at a time
    HatchRounds,  \* REQUIRED_ONBOARDING_ROUNDS and the last step, 5
    ReadyRounds,  \* ORDINARY_WINDOW_READY_ROUNDS, 3
    ChatLimit     \* the daily limit of chat

ASSUME TalkAssumption ==
    /\ {HatchRounds, ReadyRounds} \subseteq Nat \ {0}
    /\ {ChatLimit, MaxMemories} \subseteq Nat
    /\ TurnIds \cup MemoryOpIds \subseteq Nat

VARIABLES
    soul,        \* step, rounds, hatched and version of the spirits row
    turns,       \* the pairs of messages, in the order they were committed
    windows,     \* conversation_windows, in that order
    memories,    \* memories by insertion: status, and the window of its source message
    samples,     \* style_samples by text: status and source_window_id
    chatUsed,    \* daily_usage.used of chat
    memoryOps,   \* completed idempotency_records of memories: client id, hash
    request      \* request[h]: the transaction of handler h

talkVars == <<soul, turns, windows, memories, samples, chatUsed, memoryOps, request>>

Idle == [phase |-> "idle"]

NoSample == [status |-> "none", window |-> 0]

TalkInit ==
    /\ soul = [step |-> 0, rounds |-> 0, hatched |-> FALSE, version |-> 1]
    /\ turns = << >>
    /\ windows = << >>
    /\ memories = << >>
    /\ samples = [t \in SampleTexts |-> NoSample]
    /\ chatUsed = 0
    /\ memoryOps = {}
    /\ request = [h \in Handlers |-> Idle]

-----------------------------------------------------------------------------
(* The locks. *)

\* Mutation of SpiritFree: NOWAIT is forgotten, and the lock.
SpiritFreeAny == TRUE

\* lock_spirit_for_owner: the row is held by a transaction that is open.
SpiritFree == \A h \in Handlers : request[h].phase = "idle"

\* Mutation of SpiritUnlocked: the row is read without FOR UPDATE.
SpiritUnlockedAny == TRUE

\* lock_owned_spirit of memories, and of onboarding: it waits.
SpiritUnlocked == SpiritFree

-----------------------------------------------------------------------------
(* domain/chat and domain/onboarding. *)

\* next_onboarding_step.
NextStep(step, onboarding) ==
    IF onboarding /\ step < HatchRounds THEN step + 1 ELSE step

\* Mutation of NextRounds: every pair counts.
NextRoundsAll(rounds, onboarding) == rounds + 1

\* next_ordinary_dialogue_rounds.
NextRounds(rounds, onboarding) == IF onboarding THEN rounds ELSE rounds + 1

\* conversation_window_status.
WindowStatus(onboarding, rounds) ==
    IF ~onboarding /\ rounds >= ReadyRounds THEN "ready" ELSE "open"

\* Mutation of FlagFits: the device says what a turn is.
FlagFitsAny(onboarding) == TRUE

\* _require_onboarding_flag.
FlagFits(onboarding) == onboarding <=> ~soul.hatched

\* count_complete_onboarding_rounds: pairs of messages, not steps.
OnboardingPairs == Cardinality({i \in DOMAIN turns : turns[i].onboarding})

\* onboarding_ready_to_hatch.
ReadyToHatch == soul.step = HatchRounds /\ OnboardingPairs >= HatchRounds

-----------------------------------------------------------------------------
(* repositories/chat. *)

\* claim_turn_idempotency: the advisory lock of the client id is free, and no
\* turn of it is completed.
TurnClaimed(cid) ==
    /\ \A h \in Handlers : request[h].phase = "generating" => request[h].cid # cid
    /\ \A i \in DOMAIN turns : turns[i].cid # cid

\* fetch_open_ordinary_window, at most one.
OpenWindows ==
    {w \in DOMAIN windows : ~windows[w].onboarding /\ windows[w].status = "open"}

\* insert_window.
InsertedWindow(onboarding) ==
    Append(windows, [onboarding |-> onboarding, rounds |-> 1, extractor |-> {},
                     status |-> WindowStatus(onboarding, 1)])

\* extend_open_ordinary_window.
ExtendedWindow(w) ==
    [windows EXCEPT ![w].rounds = @ + 1, ![w].status = WindowStatus(FALSE, windows[w].rounds + 1)]

\* _assign_turn_window, and the window it gives.
AssignTurnWindow(onboarding) ==
    IF onboarding \/ OpenWindows = {}
    THEN InsertedWindow(onboarding)
    ELSE ExtendedWindow(CHOOSE w \in OpenWindows : \A v \in OpenWindows : w <= v)

TurnWindow(onboarding) ==
    IF onboarding \/ OpenWindows = {}
    THEN Len(windows) + 1
    ELSE CHOOSE w \in OpenWindows : \A v \in OpenWindows : w <= v

\* insert_user_message and insert_spirit_message, attached to their window.
InsertedPair(cid, onboarding, refs) ==
    Append(turns, [cid |-> cid, onboarding |-> onboarding, refs |-> refs,
                   window |-> TurnWindow(onboarding)])

\* apply_complete_turn writes what the turn read when it locked the spirit.
AppliedTurn(s, seen, onboarding) ==
    Bumped([s EXCEPT !.step = NextStep(seen.step, onboarding),
                     !.rounds = NextRounds(seen.rounds, onboarding)])

-----------------------------------------------------------------------------
(* repositories/memory_recall. *)

\* fetch_active_owned_memory_ids.
ActiveMemories == {m \in DOMAIN memories : memories[m].status = "active"}

\* fetch_prompt_style_samples.
ActiveSamples == {t \in SampleTexts : samples[t].status = "active"}

\* load_prompt_recall.
PromptRecall == [memories |-> ActiveMemories, samples |-> ActiveSamples]

\* verified_memory_ids: a reply that cites another memory is refused.
Verified(cited) == cited \subseteq ActiveMemories

-----------------------------------------------------------------------------
(* services/chat. *)

\* settle_chat_turn up to the call of the provider.
StartTurn(h, cid, onboarding) ==
    /\ request[h] = Idle
    /\ TurnClaimed(cid)
    /\ SpiritFree
    /\ FlagFits(onboarding)
    /\ chatUsed < ChatLimit
    /\ request' = [request EXCEPT ![h] =
                     [phase |-> "generating", cid |-> cid, onboarding |-> onboarding,
                      seen |-> [step |-> soul.step, rounds |-> soul.rounds],
                      told |-> PromptRecall]]
    /\ UNCHANGED <<soul, turns, windows, memories, samples, chatUsed, memoryOps>>

\* settle_chat_turn after the provider has answered, and the commit.
FinishTurn(h, cited) ==
    LET turn == request[h] IN
    /\ turn.phase = "generating"
    /\ Verified(cited)
    /\ turns' = InsertedPair(turn.cid, turn.onboarding, cited)
    /\ windows' = AssignTurnWindow(turn.onboarding)
    /\ soul' = AppliedTurn(soul, turn.seen, turn.onboarding)
    /\ chatUsed' = chatUsed + 1
    /\ request' = [request EXCEPT ![h] = Idle]
    /\ UNCHANGED <<memories, samples, memoryOps>>

\* The provider fails or is cancelled, a citation is refused, the process dies:
\* _generate_turn raises and all is rolled back.
FailTurn(h) ==
    /\ request[h].phase = "generating"
    /\ request' = [request EXCEPT ![h] = Idle]
    /\ UNCHANGED <<soul, turns, windows, memories, samples, chatUsed, memoryOps>>

-----------------------------------------------------------------------------
(* services/extract and repositories/extract. *)

\* Mutation of Extractable: extract_client_id_in_use is not asked.
ExtractableAnyId(w, cid) == ~windows[w].onboarding /\ windows[w].status = "ready"

\* The status of the window, extract_client_id_in_use and claim_extracting.
Extractable(w, cid) ==
    /\ ~windows[w].onboarding
    /\ windows[w].status = "ready"
    /\ \A v \in DOMAIN windows \ {w} : cid \notin windows[v].extractor

\* settle_extract up to the call of the provider.
StartExtract(h, w, cid) ==
    /\ request[h] = Idle
    /\ SpiritFree
    /\ soul.hatched
    /\ Extractable(w, cid)
    /\ request' = [request EXCEPT ![h] = [phase |-> "extracting", window |-> w, cid |-> cid]]
    /\ UNCHANGED <<soul, turns, windows, memories, samples, chatUsed, memoryOps>>

\* insert_memory, of the drafts that are accepted_memories: at most two.
WithMemories(drafts, w) == memories \o [i \in 1 .. drafts |-> [status |-> "active", window |-> w]]

\* insert_style_sample: ON CONFLICT DO NOTHING, whatever its status.
WithSample(t, w) ==
    IF samples[t].status = "none"
    THEN [samples EXCEPT ![t] = [status |-> "active", window |-> w]]
    ELSE samples

\* accepted_style_samples: one, or none.
StyleDrafts == {{}} \cup {{t} : t \in SampleTexts}

\* mark_extracted.
MarkedExtracted(w, cid) ==
    [windows EXCEPT ![w].status = "extracted", ![w].extractor = {cid}]

\* settle_extract after the provider has answered: a version for every memory
\* that changes a trait, or else one if there is a sample, and one for each step
\* of maybe_advance_stage.
FinishExtract(h, drafts, traits, style, steps) ==
    LET w == request[h].window IN
    /\ request[h].phase = "extracting"
    /\ Len(memories) + drafts <= MaxMemories
    /\ traits <= drafts
    /\ memories' = WithMemories(drafts, w)
    /\ samples' = IF style = {} THEN samples ELSE WithSample(CHOOSE t \in style : TRUE, w)
    /\ soul' = [soul EXCEPT !.version =
                  @ + steps + (IF traits > 0 THEN traits ELSE Cardinality(style))]
    /\ windows' = MarkedExtracted(w, request[h].cid)
    /\ request' = [request EXCEPT ![h] = Idle]
    /\ UNCHANGED <<turns, chatUsed, memoryOps>>

FailExtract(h) ==
    /\ request[h].phase = "extracting"
    /\ request' = [request EXCEPT ![h] = Idle]
    /\ UNCHANGED <<soul, turns, windows, memories, samples, chatUsed, memoryOps>>

-----------------------------------------------------------------------------
(* services/onboarding. *)

\* complete_onboarding and apply_hatch.
Hatch ==
    /\ SpiritUnlocked
    /\ ~soul.hatched
    /\ ReadyToHatch
    /\ soul' = Bumped([soul EXCEPT !.hatched = TRUE])
    /\ UNCHANGED <<turns, windows, memories, samples, chatUsed, memoryOps, request>>

-----------------------------------------------------------------------------
(* services/memory and repositories/memory.  expected_version is the memory's; a *)
(* device that does not know it is refused.                                      *)

\* claim_memory_idempotency and complete_memory_idempotency.
NewMemoryOp(cid) == \A c \in memoryOps : c.cid # cid

MemoryOpDone(cid, hash) == memoryOps' = memoryOps \cup {[cid |-> cid, hash |-> hash]}

\* Mutation of Deactivated: the samples stay.
DeactivatedNone(ws) == samples

\* deactivate_samples_for_source_message and deactivate_all_samples.
Deactivated(ws) ==
    [t \in SampleTexts |-> IF samples[t].status = "active" /\ samples[t].window \in ws
                           THEN [samples[t] EXCEPT !.status = "inactive"]
                           ELSE samples[t]]

\* patch_owned_memory, seal_active_memory.  A correction changes its text only.
SealMemory(m, cid) ==
    /\ SpiritUnlocked
    /\ NewMemoryOp(cid)
    /\ memories[m].status = "active"
    /\ memories' = [memories EXCEPT ![m].status = "sealed"]
    /\ samples' = Deactivated({memories[m].window})
    /\ soul' = Bumped(soul)
    /\ MemoryOpDone(cid, <<"seal", m>>)
    /\ UNCHANGED <<turns, windows, chatUsed, request>>

\* Mutation of Deletable: what is deleted is deleted again.
DeletableAgain(m) == TRUE

\* delete_current_memory.
Deletable(m) == memories[m].status \in {"active", "sealed"}

\* delete_owned_memory; of a deleted one it is only recorded.
DeleteMemory(m, cid) ==
    /\ SpiritUnlocked
    /\ NewMemoryOp(cid)
    /\ MemoryOpDone(cid, <<"delete", m>>)
    /\ \/ /\ Deletable(m)
          /\ memories' = [memories EXCEPT ![m].status = "deleted"]
          /\ samples' = Deactivated({memories[m].window})
          /\ soul' = Bumped(soul)
       \/ /\ ~Deletable(m)
          /\ UNCHANGED <<memories, samples, soul>>
    /\ UNCHANGED <<turns, windows, chatUsed, request>>

\* clear_owned_memories.  What is not extracted yet is not cleared.
ClearMemories(cid) ==
    /\ SpiritUnlocked
    /\ NewMemoryOp(cid)
    /\ memories' = [m \in DOMAIN memories |-> [memories[m] EXCEPT !.status = "deleted"]]
    /\ samples' = Deactivated(DOMAIN windows)
    /\ soul' = Bumped(soul)
    /\ MemoryOpDone(cid, <<"clear">>)
    /\ UNCHANGED <<turns, windows, chatUsed, request>>

-----------------------------------------------------------------------------
(* api/v1. *)

PostChat ==
    \E h \in Handlers, cid \in FirstNew(TurnIds, TurnClaimed), onboarding \in BOOLEAN :
        StartTurn(h, cid, onboarding)

ChatAnswered == \E h \in Handlers : FailTurn(h) \/ \E cited \in SUBSET ActiveMemories : FinishTurn(h, cited)

PostExtract ==
    \E h \in Handlers, w \in DOMAIN windows, cid \in ExtractIds : StartExtract(h, w, cid)

ExtractAnswered ==
    \E h \in Handlers :
        \/ FailExtract(h)
        \/ \E drafts, traits, steps \in 0 .. 2, style \in StyleDrafts :
              FinishExtract(h, drafts, traits, style, steps)

MemoryRoutes ==
    \E cid \in FirstNew(MemoryOpIds, NewMemoryOp) :
        ClearMemories(cid) \/ \E m \in DOMAIN memories : SealMemory(m, cid) \/ DeleteMemory(m, cid)

TalkNext ==
    PostChat \/ ChatAnswered \/ PostExtract \/ ExtractAnswered \/ Hatch \/ MemoryRoutes

TalkSpec == TalkInit /\ [][TalkNext]_talkVars
-----------------------------------------------------------------------------
(* Properties. *)

TurnsIn(w) == {i \in DOMAIN turns : turns[i].window = w}

TalkTypeOK ==
    /\ soul.step \in 0 .. HatchRounds
    /\ soul.hatched \in BOOLEAN
    /\ chatUsed \in 0 .. ChatLimit
    /\ \A m \in DOMAIN memories : memories[m].status \in {"active", "sealed", "deleted"}
    /\ \A t \in SampleTexts : samples[t].status \in {"none", "active", "inactive"}
    /\ \A w \in DOMAIN windows : windows[w].status \in {"open", "ready", "extracted"}
    /\ Cardinality({h \in Handlers : request[h] # Idle}) <= 1

\* Every client id has one pair, and every count is that of the pairs: the quota,
\* the rounds and the step of the spirit, the rounds of a window; one ordinary
\* window is open at most, and a window is ready exactly when it is full.
TurnsAddUp ==
    /\ \A i, j \in DOMAIN turns : turns[i].cid = turns[j].cid => i = j
    /\ chatUsed = Len(turns)
    /\ soul.rounds = Len(turns) - OnboardingPairs
    /\ soul.step = IF OnboardingPairs < HatchRounds THEN OnboardingPairs ELSE HatchRounds
    /\ \A w \in DOMAIN windows :
          /\ windows[w].rounds = Cardinality(TurnsIn(w))
          /\ \A i \in TurnsIn(w) : turns[i].onboarding = windows[w].onboarding
          /\ ~windows[w].onboarding =>
                /\ windows[w].rounds \in 1 .. ReadyRounds
                /\ windows[w].status = "open" <=> windows[w].rounds < ReadyRounds
    /\ Cardinality(OpenWindows) <= 1

\* The turns before a spirit is hatched are onboarding, enough of them, and those
\* after it are not: a turn that waits for the provider decides it at its start.
HatchedBetween ==
    /\ \A i, j \in DOMAIN turns : i < j /\ turns[j].onboarding => turns[i].onboarding
    /\ soul.hatched => OnboardingPairs >= HatchRounds
    /\ soul.rounds > 0 => soul.hatched

\* What the provider was told is still active when its answer is stored: nothing
\* is sealed, deleted or cleared under a turn (docs/p11-integration.md:280).
ToldIsActive ==
    \A h \in Handlers :
        request[h].phase = "generating" =>
            /\ request[h].told.memories \subseteq ActiveMemories
            /\ request[h].told.samples \subseteq ActiveSamples

\* A window gives its memories once, at most two of them, to one client id that no
\* other window has.
ExtractedOnce ==
    /\ \A w \in DOMAIN windows :
          /\ Cardinality({m \in DOMAIN memories : memories[m].window = w}) <= 2
          /\ windows[w].status = "extracted" <=> windows[w].extractor # {}
    /\ \A m \in DOMAIN memories : windows[memories[m].window].status = "extracted"
    /\ \A v, w \in DOMAIN windows :
          v # w => windows[v].extractor \cap windows[w].extractor = {}

\* A style sample is active only as long as no memory of its window is sealed or
\* deleted (docs/p11-integration.md:220), whichever window says it again.
SamplesFollow ==
    \A t \in ActiveSamples, m \in DOMAIN memories :
        memories[m].window = samples[t].window => memories[m].status = "active"

\* A memory that is sealed or deleted never comes back and an extracted window is
\* never extracted again.  A route of memories that changes none of them is a
\* deletion of what is deleted, or a clear: only the second has a version.
MemoriesEndStay ==
    [][/\ \A m \in DOMAIN memories :
             /\ memories[m].status \in {"sealed", "deleted"} =>
                    memories'[m].status \in {memories[m].status, "deleted"}
             /\ memories[m].status = "deleted" => memories'[m] = memories[m]
       /\ \A w \in DOMAIN windows : windows[w].status = "extracted" => windows'[w] = windows[w]
       /\ \A c \in memoryOps' \ memoryOps :
             soul'.version > soul.version <=> c.hash = <<"clear">> \/ memories' # memories]_talkVars

\* An extract that succeeds moves the version (docs/p08-p10-integration.md:367):
\* violated by one whose memories change no trait and that has no sample.
MemoriesHaveVersion == [][memories' # memories => soul'.version > soul.version]_talkVars

\* Turns, windows, memories and samples agree, while turns wait for the provider too.
TalkInv ==
    /\ TalkTypeOK /\ TurnsAddUp /\ HatchedBetween
    /\ ToldIsActive /\ ExtractedOnce /\ SamplesFollow
=============================================================================
