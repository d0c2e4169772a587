------------------------- MODULE MCFileTransaction -------------------------
(***************************************************************************)
(* Instances of FileTransaction for TLC.                                   *)
(***************************************************************************)
EXTENDS FileTransaction, TLC

Symmetric == Permutations(Processes) \cup Permutations(TempNames) \cup Permutations(Edits)

=============================================================================
