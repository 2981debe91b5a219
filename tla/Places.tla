-------------------------------- MODULE Places --------------------------------
(***************************************************************************)
(* What a filter or a search takes of a sequence, by the places of what it *)
(* takes.                                                                  *)
(***************************************************************************)
EXTENDS Integers, Sequences, FiniteSets

\* The k-th of a set of places.
Nth(places, k) == CHOOSE p \in places : Cardinality({q \in places : q <= p}) = k

\* What is at these places, in order.
Picked(seq, places) == [k \in 1..Cardinality(places) |-> seq[Nth(places, k)]]
=============================================================================
