------------------------------- MODULE MCBooking -------------------------------
(* Instances of Booking for TLC, with rows of one table interchangeable. *)
EXTENDS Booking, TLC

RowSymmetry == Permutations(Loads) \cup Permutations(Trucks)
                 \cup Permutations(Requests) \cup Permutations(Trips)
                 \cup Permutations(Workers)
=============================================================================
