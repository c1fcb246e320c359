---------------------------- MODULE MCPackageLock ----------------------------
(***************************************************************************)
(* TLC instance of PackageLock: three processes, each on its own host.     *)
(* The state is finite: no bound is needed.                                *)
(***************************************************************************)
EXTENDS PackageLock, TLC

CONSTANTS p1, p2, p3, hostA, hostB, hostC

MCProcs   == {p1, p2, p3}
ThreeHosts == p1 :> hostA @@ p2 :> hostB @@ p3 :> hostC
=============================================================================
