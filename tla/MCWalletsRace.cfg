\* Two handlers at a time: fees of a load that has a corridor and of one that has
\* none, a deposit and a withdrawal.
CONSTANTS
  Loads = {l1, l2}
  Deposits = {d1}
  Withdrawals = {q1}
  Workers = {w1, w2}
  Wallets = {shipper, carrier}
  Platform = platform
  ShipperOf <- OneShipper
  CarrierOf <- OneCarrier
  Priced = {l1}
  Fees = {0, 1}
  Amounts = {1}
  MaxTrips = 1
  Nil = Nil
  shipper = shipper
  carrier = carrier
SPECIFICATION Spec
SYMMETRY RowSymmetry
\* Nobody has to deposit, book or deliver.
CHECK_DEADLOCK FALSE
INVARIANTS
  WalletInSync
  PendingUntouched
  OverdraftBounded
  MoneyAccounted
