\* Two loads and one truck: a booking by request, with everything that follows,
\* and two of the other handlers at the same time.  Two trips, so that the truck
\* can be on both.
CONSTANTS
  Loads = {l1, l2}
  Trucks = {t1}
  Requests = {q1}
  Trips = {x1, x2}
  Workers = {w1}
  Desks = {d1, d2}
  MaxCalls = 2
  Nil = Nil
  Kinds = {"TRUCK"}
SPECIFICATION DeskSpec
SYMMETRY RowSymmetry
\* The marketplace stops when all rows and calls are used up.
CHECK_DEADLOCK FALSE
INVARIANT DeskTypeOK
PROPERTIES TakenFromTrip RevivedByEdit LastTripFreesTruck
