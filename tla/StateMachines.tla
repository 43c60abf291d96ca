----------------------------- MODULE StateMachines -----------------------------
(***************************************************************************)
(* The statuses of loads and trips and the moves between them that         *)
(* lib/loadStateMachine.ts and lib/tripStateMachine.ts allow.  Nothing in  *)
(* the database enforces them: a handler that moves a row consults them,   *)
(* or does not.                                                            *)
(***************************************************************************)

LoadStatuses == {"DRAFT", "POSTED", "SEARCHING", "OFFERED", "ASSIGNED",
                 "PICKUP_PENDING", "IN_TRANSIT", "DELIVERED", "COMPLETED",
                 "EXCEPTION", "CANCELLED", "EXPIRED", "UNPOSTED"}

TripStatuses == {"ASSIGNED", "PICKUP_PENDING", "IN_TRANSIT", "DELIVERED",
                 "COMPLETED", "EXCEPTION", "CANCELLED"}

\* Load statuses in which a load may still be requested and booked.
Bookable == {"POSTED", "SEARCHING", "OFFERED"}

\* Trip statuses that make a truck, or a driver, busy ("active trip").
Blocking == {"ASSIGNED", "PICKUP_PENDING", "IN_TRANSIT", "DELIVERED",
             "EXCEPTION"}

TerminalTrip == {"COMPLETED", "CANCELLED"}

VALID_TRANSITIONS ==
  [status \in LoadStatuses |->
    CASE status = "DRAFT" -> {"POSTED", "CANCELLED"}
      [] status = "POSTED" -> {"SEARCHING", "OFFERED", "ASSIGNED", "UNPOSTED",
                               "CANCELLED", "EXPIRED"}
      [] status = "SEARCHING" -> {"OFFERED", "ASSIGNED", "EXCEPTION", "CANCELLED", "EXPIRED"}
      [] status = "OFFERED" -> {"ASSIGNED", "SEARCHING", "EXCEPTION", "CANCELLED", "EXPIRED"}
      [] status = "ASSIGNED" -> {"PICKUP_PENDING", "IN_TRANSIT", "EXCEPTION", "CANCELLED"}
      [] status = "PICKUP_PENDING" -> {"IN_TRANSIT", "EXCEPTION", "CANCELLED"}
      [] status = "IN_TRANSIT" -> {"DELIVERED", "EXCEPTION"}
      [] status = "DELIVERED" -> {"COMPLETED", "EXCEPTION"}
      [] status = "EXCEPTION" -> {"SEARCHING", "ASSIGNED", "IN_TRANSIT",
                                  "PICKUP_PENDING", "CANCELLED", "COMPLETED"}
      [] status \in {"EXPIRED", "UNPOSTED"} -> {"POSTED", "CANCELLED"}
      [] OTHER -> {}]

VALID_TRIP_TRANSITIONS ==
  [status \in TripStatuses |->
    CASE status = "ASSIGNED" -> {"PICKUP_PENDING", "CANCELLED"}
      [] status = "PICKUP_PENDING" -> {"IN_TRANSIT", "CANCELLED"}
      [] status = "IN_TRANSIT" -> {"DELIVERED", "EXCEPTION"}
      [] status = "DELIVERED" -> {"COMPLETED"}
      [] status = "EXCEPTION" -> {"ASSIGNED", "IN_TRANSIT", "CANCELLED", "COMPLETED"}
      [] OTHER -> {}]
=============================================================================
