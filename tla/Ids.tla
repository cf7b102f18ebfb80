--------------------------------- MODULE Ids ---------------------------------
(***************************************************************************)
(* Ids that a device or the database draws at random: one that is new is     *)
(* like another, so that they are numbered in the order in which they are    *)
(* used.                                                                     *)
(***************************************************************************)
EXTENDS Naturals

\* The first of the ids that are new, if there is one.
FirstNew(ids, New(_)) == {i \in ids : New(i) /\ \A j \in ids : j < i => ~New(j)}

\* The ids that are not new, and the first that is.
UpToNew(ids, New(_)) == {i \in ids : New(i) => \A j \in ids : j < i => ~New(j)}
=============================================================================
