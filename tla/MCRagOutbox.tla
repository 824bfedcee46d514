----------------------------- MODULE MCRagOutbox -----------------------------
(***************************************************************************)
(* Small instances of RagOutbox for TLC.                                   *)
(***************************************************************************)
EXTENDS RagOutbox
=============================================================================
