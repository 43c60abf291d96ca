-------------------------------- MODULE MCWallets --------------------------------
(* Instances of Wallets for TLC: one shipper, one carrier. *)
EXTENDS Wallets, TLC

CONSTANTS shipper, carrier

OneShipper == [l \in Loads |-> shipper]
OneCarrier == [l \in Loads |-> carrier]

RowSymmetry == Permutations(Priced) \cup Permutations(Deposits)
                 \cup Permutations(Withdrawals) \cup Permutations(Workers)
=============================================================================
