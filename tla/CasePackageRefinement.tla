------------------------ MODULE CasePackageRefinement ------------------------
(***************************************************************************)
(* CasePackage implements SealedHistory: whatever a reader can check       *)
(* against SHA256SUMS changes only when a round is sealed, and then by     *)
(* growing.                                                                *)
(***************************************************************************)
EXTENDS CasePackage

SealedRounds == sums.case.rounds

History == INSTANCE SealedHistory WITH
    Logs     <- AppendOnly,
    Custody  <- "cust",
    evidence <- sums.log,
    seal     <- sums.run,
    round    <- IF SealedRounds = <<>> THEN 0 ELSE SealedRounds[Len(SealedRounds)],
    chain    <- sums.seals

\* What the current SHA256SUMS covers evolves as SealedHistory allows, whatever
\* builders do, and wherever they stop: "nothing already written is ever
\* rewritten or removed" (casepkg.go:23), for the sealed part.
ImplementsHistory == History!Spec
=============================================================================
