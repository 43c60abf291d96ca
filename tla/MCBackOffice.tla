---------------------------- MODULE MCBackOffice ----------------------------
(***************************************************************************)
(* The components whose properties are about one handler at a time:        *)
(* drivers, the settlement of a load, and the wallets.  They share no      *)
(* state here, so no interleaving of them says anything: in a behaviour of *)
(* this module one of them moves and the others are at rest.               *)
(***************************************************************************)
EXTENDS Drivers, Settlement, Wallets

CONSTANTS shipper, carrier

OneShipper == [l \in Loads |-> shipper]
OneCarrier == [l \in Loads |-> carrier]

VARIABLE focus         \* the component that moves

backOfficeVars == <<driverVars, settlementVars, vars, focus>>

BackOfficeInit == /\ DriverInit /\ SettlementInit /\ Init
                  /\ focus \in {"drivers", "settlement", "wallets"}

BackOfficeNext ==
  /\ UNCHANGED focus
  /\ \/ focus = "drivers" /\ DriverNext /\ UNCHANGED <<settlementVars, vars>>
     \/ focus = "settlement" /\ SettlementNext /\ UNCHANGED <<driverVars, vars>>
     \/ focus = "wallets" /\ Next /\ UNCHANGED <<driverVars, settlementVars>>

BackOfficeSpec == BackOfficeInit /\ [][BackOfficeNext]_backOfficeVars

\* The variables of all three components hold values of their types.
BackOfficeTypeOK == DriverTypeOK /\ SettlementTypeOK /\ TypeOK
=============================================================================
