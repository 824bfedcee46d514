-------------------------- MODULE MCConnectorStream --------------------------
(***************************************************************************)
(* Small instances of ConnectorStream for TLC.                             *)
(***************************************************************************)
EXTENDS ConnectorStream, TLC

Symmetry == Permutations(Channels) \cup Permutations(Writers) \cup Permutations(Streams)

\* What the chat does once the last session is over is not explored.
SessionAhead == connects < MaxConnects \/ Open # {}
=============================================================================
