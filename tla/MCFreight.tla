------------------------------- MODULE MCFreight -------------------------------
(* Instances of Freight for TLC, with rows of one table interchangeable. *)
EXTENDS Freight, TLC

RowSymmetry == Permutations(Loads) \cup Permutations(Trucks)
                 \cup Permutations(Requests) \cup Permutations(Trips)
                 \cup Permutations(Workers)
=============================================================================
