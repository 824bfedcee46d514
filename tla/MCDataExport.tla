----------------------------- MODULE MCDataExport -----------------------------
(***************************************************************************)
(* Small instances of DataExport for TLC.                                  *)
(***************************************************************************)
EXTENDS DataExport, TLC

Symmetry == Permutations(Communities) \cup Permutations(Exports) \cup Permutations(Workers)
=============================================================================
