------------------------------ MODULE MCLoadDesk ------------------------------
(* Instances of LoadDesk for TLC, with rows of one table interchangeable. *)
EXTENDS LoadDesk, TLC

RowSymmetry == Permutations(Loads) \cup Permutations(Trucks)
                 \cup Permutations(Requests) \cup Permutations(Trips)
                 \cup Permutations(Workers) \cup Permutations(Desks)
=============================================================================
