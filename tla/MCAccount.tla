------------------------------- MODULE MCAccount -------------------------------
(***************************************************************************)
(* What an account has: its usage, friends, report, profile and pushes, and   *)
(* its deletion.  The six specifications share the account only in the ways   *)
(* that each of them describes, so that a behaviour is one of the             *)
(* specification that part names, and leaves the others' variables alone.     *)
(*                                                                           *)
(* Backoffs are as in MCOutbox.                                              *)
(***************************************************************************)
EXTENDS MCUsageWindow, AccountDelete, Report, Friends, Profile, Notices, TLC

CONSTANTS i1, i2, d3, o1, o2

MCBackoff == [n \in 1 .. MaxAttempts |-> IF n < MaxBackoff THEN n ELSE MaxBackoff]

MCOwnerOf == i1 :> o1 @@ i2 :> o1 @@ d3 :> o2

MCMaxProfile == o1 :> 3 @@ o2 :> 1

\* Behind the first object of a page of two, and before the second page.
MCPromised == {2}

\* In days of three hours: over midnight, as 23:00 to 8:00, or within a day.
MCQuietHours == {[start |-> 2, end |-> 1], [start |-> 1, end |-> 2]}

\* Ticks, workers, handlers and two devices of one owner, and two events of a
\* push, have the same two names.
AccountSymmetry == Permutations({i1, i2})

VARIABLE part \* the specification of this behaviour

accountVars ==
    <<part, usageVars, deleteVars, reportVars, friendVars, profileVars, noticeVars>>

\* Of the specifications that part does not name there is one initial state.
AccountInit ==
    /\ part \in {"usage", "delete", "report", "friends", "profile", "notices"}
    /\ UsageInit /\ DeleteInit /\ ReportInit /\ FriendsInit /\ ProfileInit
    /\ NoticesInit
    /\ part # "usage" => zone = 1
    /\ part # "notices" => noteZone = 0 /\ quiet.start = 2
    /\ objects = 1 .. Objects
    /\ promised \subseteq IF part = "delete" THEN MCPromised ELSE {}

AccountNext ==
    \/ /\ part = "usage" /\ UsageNext
       /\ UNCHANGED <<part, deleteVars, reportVars, friendVars, profileVars, noticeVars>>
    \/ /\ part = "delete" /\ DeleteNext
       /\ UNCHANGED <<part, usageVars, reportVars, friendVars, profileVars, noticeVars>>
    \/ /\ part = "report" /\ ReportNext
       /\ UNCHANGED <<part, usageVars, deleteVars, friendVars, profileVars, noticeVars>>
    \/ /\ part = "friends" /\ FriendRoutes
       /\ UNCHANGED <<part, usageVars, deleteVars, reportVars, profileVars, noticeVars>>
    \/ /\ part = "profile" /\ ProfileNext
       /\ UNCHANGED <<part, usageVars, deleteVars, reportVars, friendVars, noticeVars>>
    \/ /\ part = "notices" /\ NoticesNext
       /\ UNCHANGED <<part, usageVars, deleteVars, reportVars, friendVars, profileVars>>

AccountSpec == AccountInit /\ [][AccountNext]_accountVars
=============================================================================
