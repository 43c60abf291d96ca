\* Two loads want one truck; trips end or are cancelled and both are booked again.
\* Two kinds of request: a proposal is accepted like a truck request.
CONSTANTS
  Loads = {l1, l2}
  Trucks = {t1}
  Requests = {q1, q2}
  Trips = {x1, x2}
  Workers = {w1, w2}
  Nil = Nil
  Kinds = {"LOAD", "TRUCK"}
SPECIFICATION FreightSpec
SYMMETRY RowSymmetry
\* The marketplace stops when all request rows are used up.
CHECK_DEADLOCK FALSE
INVARIANTS
  MovingTripAgrees
PROPERTIES
  FreightOneLoadAtATime
  FreightStepsLegal
