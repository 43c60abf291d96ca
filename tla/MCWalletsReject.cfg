\* One handler at a time: a withdrawal is rejected.
CONSTANTS
  Loads = {l1}
  Deposits = {d1, d2}
  Withdrawals = {q1}
  Workers = {w1}
  Wallets = {shipper, carrier}
  Platform = platform
  ShipperOf <- OneShipper
  CarrierOf <- OneCarrier
  Priced = {l1}
  Fees = {1}
  Amounts = {1}
  MaxTrips = 1
  Nil = Nil
  shipper = shipper
  carrier = carrier
SPECIFICATION Spec
SYMMETRY RowSymmetry
\* Nobody has to deposit, book or deliver.
CHECK_DEADLOCK FALSE
INVARIANTS RejectionReturns
