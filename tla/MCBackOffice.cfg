\* One handler of each component at a time: two drivers and two trips of one
\* carrier; the settlement of one load; the fees of two loads, of which one has no
\* corridor and the other a fee that changes between two deductions.
SPECIFICATION BackOfficeSpec
CONSTANTS
  DriverIds = {d1, d2}
  DriverTrips = {x1, x2}
  Handlers = {h1}
  NoOne = NoOne
  Deliveries = {l1}
  Settlers = {s1}
  Loads = {l1, l2}
  Deposits = {r1, r2}
  Withdrawals = {q1}
  Workers = {w1}
  Wallets = {shipper, carrier}
  Platform = platform
  ShipperOf <- OneShipper
  CarrierOf <- OneCarrier
  Priced = {l1}
  Fees = {0, 1}
  Amounts = {1}
  MaxTrips = 2
  Nil = Nil
  shipper = shipper
  carrier = carrier
INVARIANTS
  BackOfficeTypeOK
  AcceptedBeforeDriving
  AvailabilityTells
  InProgressAttended
  EntriesAgree
  FeeStatusTruthful
PROPERTIES
  SecondTripFromException
  PaidUndoneBySettle
  PaidIsBacked
\* A carrier whose drivers and loads have nothing left to do stops.
CHECK_DEADLOCK FALSE
