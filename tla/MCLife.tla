-------------------------------- MODULE MCLife --------------------------------
(***************************************************************************)
(* What a spirit lives through: pacts, feeds and promises, talk and          *)
(* memories, and photos.  The four specifications share the spirit's row     *)
(* only in the ways that each of them describes, so that a behaviour is one  *)
(* of the specification that part names, and leaves the others' variables    *)
(* alone.                                                                    *)
(***************************************************************************)
EXTENDS Pact, Feeds, Talk, Sight, TLC

CONSTANTS f1, f2, f3

Plan(a, b, c) == f1 :> a @@ f2 :> b @@ f3 :> c

FirstPlan == Plan("promise", "promise", "photo")

GrownPlan == Plan("promise", "knowledge", "location")

MCFeedPlans ==
    {FirstPlan, GrownPlan,
     Plan("emotion", "food", "knowledge"), Plan("photo", "location", "promise")}

MCDailyLimits ==
    [c \in {"food", "knowledge", "emotion", "sight"} |-> IF c = "sight" THEN 1 ELSE 2]

\* Devices and moderations have the same two names.
LifeSymmetry == Permutations(FeedDevices)

VARIABLE part \* the specification of this behaviour

lifeVars == <<part, pactVars, feedVars, talkVars, sightVars>>

\* Of the specifications that part does not name there is one initial state.  What
\* a spirit has travelled only matters to the plan that makes it grow to awake.
LifeInit ==
    /\ part \in {"pact", "feeds", "talk", "sight"}
    /\ PactInit /\ FeedsInit /\ TalkInit /\ SightInit
    /\ host.travelled => \A f \in FeedIds : feeds[f].kind = GrownPlan[f]
    /\ part # "feeds" => ~host.travelled /\ feeds = [f \in FeedIds |-> NoFeed(FirstPlan[f])]

LifeNext ==
    \/ /\ part = "pact" /\ PactNext
       /\ UNCHANGED <<part, feedVars, talkVars, sightVars>>
    \/ /\ part = "feeds" /\ FeedsNext
       /\ UNCHANGED <<part, pactVars, talkVars, sightVars>>
    \/ /\ part = "talk" /\ TalkNext
       /\ UNCHANGED <<part, pactVars, feedVars, sightVars>>
    \/ /\ part = "sight" /\ SightNext
       /\ UNCHANGED <<part, pactVars, feedVars, talkVars>>

LifeSpec == LifeInit /\ [][LifeNext]_lifeVars
=============================================================================
