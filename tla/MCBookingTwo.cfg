\* Two loads, two trucks and two requests between them.
CONSTANTS
  Loads = {l1, l2}
  Trucks = {t1, t2}
  Requests = {q1, q2}
  Trips = {x1, x2}
  Workers = {w1, w2}
  Nil = Nil
  Kinds = {"LOAD", "TRUCK", "MATCH"}
SPECIFICATION Spec
SYMMETRY RowSymmetry
\* The marketplace stops when all request rows are used up.
CHECK_DEADLOCK FALSE
INVARIANTS
  NoDoubleBooking
  BookingAgrees
  BusyOffMarket
  OnePendingPerPair
PROPERTIES
  BookingIsFinal
