---------------------------- MODULE MCCasePackage ----------------------------
(***************************************************************************)
(* TLC instance of CasePackage.  Runs are bounded by MaxRuns, the records  *)
(* of a run by MaxRecords.                                                 *)
(***************************************************************************)
EXTENDS CasePackageInv, CasePackageRefinement

CONSTANTS b1, b2
MCBlobs  == {b1, b2}
MCBlob   == {b1}
OneBuild == {1}
TwoBuilds == {1, 2}
=============================================================================
