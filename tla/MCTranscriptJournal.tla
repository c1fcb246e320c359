------------------------- MODULE MCTranscriptJournal -------------------------
(***************************************************************************)
(* The TLC instance of TranscriptJournal: every kind of edit, and bytes    *)
(* that an edit may make differ from those the agent writes.               *)
(***************************************************************************)
EXTENDS TranscriptJournal

CONSTANTS a, b
MCData    == {a, b}
MCWritten == {a}
AnyEdit   == EditKinds
=============================================================================
