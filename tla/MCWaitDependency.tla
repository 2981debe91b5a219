-------------------------- MODULE MCWaitDependency --------------------------
(* Small instances of WaitDependency: a parent and its child, one task. *)
EXTENDS WaitDependency, TLC

CONSTANTS parent, child, t1

MCParent == parent :> NoAgent @@ child :> parent
MCOwner == t1 :> parent
=============================================================================
