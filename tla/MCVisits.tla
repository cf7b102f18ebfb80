------------------------------ MODULE MCVisits -------------------------------
(***************************************************************************)
(* Visits, with the two destinations of one plan and backoffs as in         *)
(* MCOutbox, the lists that show the postcards they bring, and speech.  The *)
(* three share no variable: a behaviour is one of the specification that    *)
(* part names, and leaves the others' variables alone.                      *)
(***************************************************************************)
EXTENDS Visits, Pages, MCSpeech

MCBackoff == [n \in 1 .. MaxAttempts |-> IF n < MaxBackoff THEN n ELSE MaxBackoff]

VARIABLE part \* the specification of this behaviour

visitPageVars == <<part, visitVars, pageVars, speechVars>>

\* Of speech that part does not name there is one initial state.
VisitPageInit ==
    /\ part \in {"visits", "pages", "speech"}
    /\ VisitInit /\ PagesInit /\ SpeechInit
    /\ part # "speech" => ~synthesis

VisitPageNext ==
    \/ part = "visits" /\ VisitNext /\ UNCHANGED <<part, pageVars, speechVars>>
    \/ part = "pages" /\ PagesNext /\ UNCHANGED <<part, visitVars, speechVars>>
    \/ part = "speech" /\ SpeechNext /\ UNCHANGED <<part, visitVars, pageVars>>

\* The fairness of VisitFairSpec and of SpeechFairSpec, each of its own behaviours.
VisitPageFairSpec ==
    /\ VisitPageInit /\ [][VisitPageNext]_visitPageVars
    /\ WF_visitVars(part = "visits" /\ VisitAdvance)
    /\ WF_visitVars(part = "visits" /\ ReclaimVisits)
    /\ \A j \in Jobs : WF_visitVars(part = "visits" /\ EnqueueVisit(j))
    /\ \A t \in Ticks :
          /\ WF_visitVars(part = "visits" /\ ClaimSome(t))
          /\ WF_visitVars(part = "visits" /\ HandleVisit(t))
    /\ WF_visitVars(part = "visits" /\ ClaimNothing(0))
    /\ WF_speechVars(part = "speech" /\ SpeechTick)
    /\ \A q \in Requests : WF_speechVars(part = "speech" /\ (Answer(q) \/ RequestDies(q)))
=============================================================================
