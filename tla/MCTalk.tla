------------------------------- MODULE MCTalk -------------------------------
(* Talk alone, on the instance of MCLife.                                    *)
EXTENDS Talk
=============================================================================
