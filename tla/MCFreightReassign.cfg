\* One load, requested for two trucks, booked once and reassigned under way.
CONSTANTS
  Loads = {l1}
  Trucks = {t1, t2}
  Requests = {q1, q2}
  Trips = {x1}
  Workers = {w1, w2}
  Nil = Nil
  Kinds = {"LOAD", "TRUCK", "MATCH"}
SPECIFICATION FreightSpec
SYMMETRY RowSymmetry
\* The marketplace stops when all request rows are used up.
CHECK_DEADLOCK FALSE
INVARIANTS
  MovingTripAgrees
