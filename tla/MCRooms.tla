------------------------------- MODULE MCRooms --------------------------------
(***************************************************************************)
(* Small instances of Rooms for TLC.                                       *)
(***************************************************************************)
EXTENDS Rooms, TLC

Symmetry == Permutations(Users) \cup Permutations(Workers)
=============================================================================
