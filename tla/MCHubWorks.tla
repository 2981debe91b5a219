----------------------------- MODULE MCHubWorks -----------------------------
(* Small instances of HubWorks: a root and a child that may hold the input. *)
EXTENDS HubWorks, TLC

CONSTANTS root, child, c1, c2
=============================================================================
