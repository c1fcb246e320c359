--------------------------- MODULE MCAcquisition ---------------------------
(***************************************************************************)
(* TLC instance of Acquisition: two workers, and channels smaller than     *)
(* the files.                                                              *)
(***************************************************************************)
EXTENDS Acquisition

CONSTANTS w1, w2
MCWorkers == {w1, w2}
=============================================================================
