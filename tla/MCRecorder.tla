----------------------------- MODULE MCRecorder -----------------------------
(***************************************************************************)
(* The TLC instance of Recorder: two files of two lines at most, a size    *)
(* bound any two of them exceed, two mishaps before a restart, and the     *)
(* restart.                                                                *)
(***************************************************************************)
EXTENDS Recorder
=============================================================================
