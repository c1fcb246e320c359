------------------------- MODULE MCMitigationLedger -------------------------
(***************************************************************************)
(* TLC instances of MitigationLedger: two settings files and guardrails.   *)
(***************************************************************************)
EXTENDS MitigationLedger, TLC

CONSTANTS t1, t2, g1, g2
MCTargets == {t1, t2}
MCGuards  == {g1, g2}
One       == {t1}

\* The guardrails are alike: no action tells one from the other.
Alike     == Permutations(MCGuards)
=============================================================================
