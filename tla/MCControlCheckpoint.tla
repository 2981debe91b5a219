------------------------ MODULE MCControlCheckpoint ------------------------
(* Small instances of ControlCheckpoint. *)
EXTENDS ControlCheckpoint, TLC

CONSTANTS c1, c2

MCSymmetry == Permutations(Clients)
=============================================================================
