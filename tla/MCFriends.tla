------------------------------ MODULE MCFriends ------------------------------
(* Friends alone, on the instance of MCAccount.                              *)
EXTENDS Friends
=============================================================================
