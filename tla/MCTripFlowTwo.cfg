\* Two trips under way and a spare truck that both may be reassigned to.
CONSTANTS
  Loads = {l1, l2}
  Trucks = {t1, t2, t3}
  Requests = {}
  Trips = {x1, x2}
  Workers = {w1, w2}
  Nil = Nil
SPECIFICATION TripSpec
SYMMETRY RowSymmetry
\* The trips end.
CHECK_DEADLOCK FALSE
INVARIANTS
  LoadMirrorsTrip
  TripTruckAgrees
  PodAfterDelivery
PROPERTIES
  TripStepsLegal
