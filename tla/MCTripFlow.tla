------------------------------ MODULE MCTripFlow ------------------------------
(* Instances of TripFlow for TLC, with rows of one table interchangeable. *)
EXTENDS TripFlow, TLC

RowSymmetry == Permutations(Loads) \cup Permutations(Trucks)
                 \cup Permutations(Trips) \cup Permutations(Workers)
=============================================================================
