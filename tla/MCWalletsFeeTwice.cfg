\* Two handlers complete one load.
CONSTANTS
  Loads = {l1}
  Deposits = {d1, d2}
  Withdrawals = {}
  Workers = {w1, w2}
  Wallets = {shipper, carrier}
  Platform = platform
  ShipperOf <- OneShipper
  CarrierOf <- OneCarrier
  Priced = {l1}
  Fees = {1}
  Amounts = {1}
  MaxTrips = 2
  Nil = Nil
  shipper = shipper
  carrier = carrier
SPECIFICATION Spec
SYMMETRY RowSymmetry
\* Nobody has to deposit, book or deliver.
CHECK_DEADLOCK FALSE
INVARIANTS FeeTakenOnce
