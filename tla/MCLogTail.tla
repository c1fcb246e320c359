------------------------------ MODULE MCLogTail ------------------------------
(***************************************************************************)
(* The TLC instance of LogTail: four lines, the second too long to be      *)
(* carried, the others numbered from 1 to 4, with a window of one, and one *)
(* number waited for.                                                      *)
(***************************************************************************)
EXTENDS LogTail

MCNumbers == 1..4
=============================================================================
