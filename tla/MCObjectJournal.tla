-------------------------- MODULE MCObjectJournal --------------------------
(* Small instances of ObjectJournal for TLC. *)
EXTENDS ObjectJournal, TLC

Symmetry == Permutations(Runtimes) \cup Permutations(RecordPaths)
=============================================================================
