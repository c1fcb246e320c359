---------------------------- MODULE MCRoundSigning ----------------------------
(***************************************************************************)
(* The TLC instance of RoundSigning: two processes with one anchor log, a  *)
(* case that both collect into, and one that one collects into alone.      *)
(***************************************************************************)
EXTENDS RoundSigning, TLC

CONSTANTS p1, p2, k1, k2

MCTwo  == {p1, p2}
Shared == p1 :> {k1} @@ p2 :> {k1, k2}
Few    == k1 :> 3 @@ k2 :> 1
=============================================================================
