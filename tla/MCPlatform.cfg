\* One trip and two handlers beside its monitor; one truck with three postings
\* and two trips; three jobs of which one has no processor; two readers and a
\* writer of two rows of which the cache keeps one.
SPECIFICATION PlatformSpec
CONSTANTS
  Loads = {l1}
  Trucks = {t1, t2}
  Requests = {}
  Trips = {x1}
  Workers = {w1, w2}
  Nil = Nil
  Fleet = {v1}
  Ads = {p1, p2, p3}
  Clerks = {c1}
  NoRow = NoRow
  MaxHauls = 2
  JobIds = {j1, j2, j3}
  Handled = {j1, j2}
  MaxAttempts = 2
  MaxRetries = 1
  Keys = {k1, k2}
  Readers = {r1, r2}
  Writers = {u1}
  MaxEntries = 1
  Ttl = 1
INVARIANTS
  PlatformTypeOK
  OneRunAtATime
  SizeBounded
  StaleExplained
PROPERTIES
  StuckTripsClose
  SecondAdFromTrip
  BusyTruckReposted
  LapsedLeaveMarket
  JobsEnd
  StaleGoes
\* A queue whose jobs have ended stops.
CHECK_DEADLOCK FALSE
