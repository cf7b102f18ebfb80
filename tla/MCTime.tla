-------------------------------- MODULE MCTime --------------------------------
(***************************************************************************)
(* Three components that share nothing, each driven by a clock of its own   *)
(* and checked for safety and liveness, and so without symmetry: a behaviour *)
(* is one of the component that part names, and leaves the others alone.    *)
(* Minutes, and thresholds of hours, are scaled down: only their order      *)
(* matters.                                                                 *)
(***************************************************************************)
EXTENDS CircuitBreaker, Sight, SpiritState

VARIABLE part \* the component of this behaviour

timeVars == <<part, circuitVars, sightVars, spiritVars>>

TimeInit ==
    /\ part \in {"circuit", "sight", "spirit"}
    /\ CircuitInit /\ SightInit /\ SpiritInit

TimeNext ==
    \/ part = "circuit" /\ CircuitNext /\ UNCHANGED <<part, sightVars, spiritVars>>
    \/ part = "sight" /\ SightNext /\ UNCHANGED <<part, circuitVars, spiritVars>>
    \/ part = "spirit" /\ SpiritNext /\ UNCHANGED <<part, circuitVars, sightVars>>

\* CircuitFairness, SightFairness and SpiritFairness, each of its own behaviours.
TimeFairSpec ==
    /\ TimeInit /\ [][TimeNext]_timeVars
    /\ WF_circuitVars(part = "circuit" /\ Second)
    /\ \A c \in Calls :
          /\ WF_circuitVars(part = "circuit" /\ Start(c))
          /\ WF_circuitVars(part = "circuit" /\ Proceed(c))
    /\ WF_sightVars(part = "sight" /\ Minute)
    /\ \A m \in Moderations : WF_sightVars(part = "sight" /\ Step(m))
    /\ WF_spiritVars(part = "spirit" /\ Hour)
    /\ WF_spiritVars(part = "spirit" /\ ClaimTicks)
    /\ SF_spiritVars(part = "spirit" /\ Scan)
    /\ SF_spiritVars(part = "spirit" /\ \E lag \in Lags : SettleTick(lag))
=============================================================================
