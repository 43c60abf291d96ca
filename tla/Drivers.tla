-------------------------------- MODULE Drivers --------------------------------
(***************************************************************************)
(* A carrier's drivers: invitation, approval, suspension, and their        *)
(* assignment to trips (app/api/drivers and trips/[tripId]/assign-driver,  *)
(* unassign-driver, reassign-truck), with what the end of a trip does to   *)
(* its driver.                                                             *)
(*                                                                         *)
(* Assigning and unassigning a driver are not transactions: each statement *)
(* is a step, and the handler may die between two of them (HandlerDies).   *)
(* The other handlers are a Begin step, which reads and checks, and one    *)
(* step that writes.                                                       *)
(*                                                                         *)
(* Of a trip only its status and its driver are kept; TripFlow has the     *)
(* rest.  A phone number has one driver row.  Sessions, licence data and   *)
(* the expiry of invitations are left out.                                 *)
(***************************************************************************)
EXTENDS Naturals, FiniteSets, StateMachines

CONSTANTS DriverIds,   \* User rows with role DRIVER of one carrier
          DriverTrips, \* Trip rows of the carrier
          Handlers,    \* handler invocations in flight at the same time
          NoOne        \* SQL NULL

ASSUME NoOneAssumption == NoOne \notin DriverIds \cup DriverTrips
ASSUME TripsAssumption == IsFiniteSet(DriverTrips)

VARIABLES account,     \* User.status, or "NONE" for no row
          invitation,  \* Invitation.status, or "NONE"
          onDuty,      \* DriverProfile.isAvailable, or "NONE" for no profile
          tripStatus,  \* Trip.status
          driverOf,    \* Trip.driverId
          call,        \* what each handler is doing
          aside        \* drivers whose isAvailable was last left by somebody
                       \* else than a handler of trips that came to its end,
                       \* or by the verification of a POD (history)

driverVars == <<account, invitation, onDuty, tripStatus, driverOf, call, aside>>
driverRows == <<account, invitation, onDuty, tripStatus, driverOf>>

AccountStatuses == {"NONE", "INVITED", "PENDING_VERIFICATION", "ACTIVE", "REJECTED", "SUSPENDED"}
InvitationStates == {"NONE", "PENDING", "ACCEPTED", "CANCELLED"}

\* What a handler does next.
CallOps == {"none", "accept", "revoke", "approve", "reject", "suspend", "hide",
            "reactivate", "show", "assign", "occupy", "unassign", "restore",
            "swap", "end", "verify"}

CallRow == [op : CallOps, driver : DriverIds \cup {NoOne}, trip : DriverTrips \cup {NoOne},
            prev : DriverIds \cup {NoOne}, seen : TripStatuses \cup {NoOne},
            next : TripStatuses \cup {NoOne}]

NoCall == [op |-> "none", driver |-> NoOne, trip |-> NoOne, prev |-> NoOne,
           seen |-> NoOne, next |-> NoOne]

Take(h, c) == call[h] = NoCall /\ call' = [call EXCEPT ![h] = c]
Proceed(h, op) == call' = [call EXCEPT ![h].op = op]
Hang(h) == call' = [call EXCEPT ![h] = NoCall]

\* A handler of a single statement is a single step of a handler that is free.
SomeoneFree == (\E h \in Handlers : call[h] = NoCall) /\ UNCHANGED call

OnDriver(op, d) == [NoCall EXCEPT !.op = op, !.driver = d]

\* A handler of trip x that has read its driver: `prev'.
OnTrip(op, d, x, next) ==
  [op |-> op, driver |-> d, trip |-> x, prev |-> driverOf[x],
   seen |-> tripStatus[x], next |-> next]

-----------------------------------------------------------------------------
(* Joining a carrier *)

\* POST drivers/invite creates the invitation and the account together.
Invite(d) ==
  /\ account[d] = "NONE"
  /\ account' = [account EXCEPT ![d] = "INVITED"]
  /\ invitation' = [invitation EXCEPT ![d] = "PENDING"]
  /\ SomeoneFree
  /\ UNCHANGED <<onDuty, tripStatus, driverOf, aside>>

\* The driver accepts (POST drivers/accept-invite), or the carrier acts.
BeginAccount(h, d) ==
  /\ \/ /\ invitation[d] = "PENDING" /\ account[d] = "INVITED"
        /\ Take(h, OnDriver("accept", d))
     \/ account[d] = "INVITED" /\ Take(h, OnDriver("revoke", d))
     \/ account[d] = "PENDING_VERIFICATION" /\ Take(h, OnDriver("approve", d))
     \/ account[d] = "PENDING_VERIFICATION" /\ Take(h, OnDriver("reject", d))
     \/ account[d] = "SUSPENDED" /\ Take(h, OnDriver("reactivate", d))
  /\ UNCHANGED <<driverRows, aside>>

Doing(h, op) == call[h].op = op

\* Mutant of CommitAccept: the invitation stays PENDING.
AcceptAccountOnly(h) ==
  LET d == call[h].driver
  IN  /\ Doing(h, "accept")
      /\ onDuty[d] = "NONE"
      /\ account' = [account EXCEPT ![d] = "PENDING_VERIFICATION"]
      /\ onDuty' = [onDuty EXCEPT ![d] = "yes"]
      /\ Hang(h)
      /\ UNCHANGED <<invitation, tripStatus, driverOf, aside>>

\* Mutant of CommitAccept: the account gets the invitation's status.
AcceptByInvitation(h) ==
  LET d == call[h].driver
  IN  /\ Doing(h, "accept")
      /\ account' = [account EXCEPT ![d] = "ACCEPTED"]
      /\ Hang(h)
      /\ UNCHANGED <<invitation, onDuty, tripStatus, driverOf, aside>>

\* One transaction, by id; DriverProfile.userId is unique.
CommitAccept(h) ==
  LET d == call[h].driver
  IN  /\ Doing(h, "accept")
      /\ onDuty[d] = "NONE"
      /\ account' = [account EXCEPT ![d] = "PENDING_VERIFICATION"]
      /\ onDuty' = [onDuty EXCEPT ![d] = "yes"]
      /\ invitation' = [invitation EXCEPT ![d] = "ACCEPTED"]
      /\ Hang(h)
      /\ UNCHANGED <<tripStatus, driverOf, aside>>

\* POST drivers/[id]/revoke-invite
CommitRevoke(h) ==
  LET d == call[h].driver
  IN  /\ Doing(h, "revoke")
      /\ account' = [account EXCEPT ![d] = "REJECTED"]
      /\ invitation' = [invitation EXCEPT ![d] = IF @ = "PENDING" THEN "CANCELLED" ELSE @]
      /\ Hang(h)
      /\ UNCHANGED <<onDuty, tripStatus, driverOf, aside>>

SetAccount(h, op, status) ==
  /\ Doing(h, op)
  /\ account' = [account EXCEPT ![call[h].driver] = status]
  /\ UNCHANGED <<invitation, onDuty, tripStatus, driverOf, aside>>

\* POST drivers/[id]/approve and drivers/[id]/reject
CommitApproval(h) == SetAccount(h, "approve", "ACTIVE") /\ Hang(h)
CommitRejection(h) == SetAccount(h, "reject", "REJECTED") /\ Hang(h)

-----------------------------------------------------------------------------
(* Suspension and reactivation: the account, then the profile if there is  *)
(* one.  The second statement may fail unnoticed.                          *)

\* Trips on which the driver has work to do.
Driving(d) ==
  {x \in DriverTrips : driverOf[x] = d
                         /\ tripStatus[x] \in {"ASSIGNED", "PICKUP_PENDING", "IN_TRANSIT"}}

ActiveTrips(d) == {x \in DriverTrips : driverOf[x] = d /\ tripStatus[x] \in Blocking}

\* DELETE drivers/[id], whatever the account's status is.
BeginSuspend(h, d) ==
  /\ account[d] # "NONE"
  /\ Driving(d) = {}
  /\ Take(h, OnDriver("suspend", d))
  /\ UNCHANGED <<driverRows, aside>>

SuspendAccount(h) == SetAccount(h, "suspend", "SUSPENDED") /\ Proceed(h, "hide")

HideProfile(h) ==
  LET d == call[h].driver
  IN  /\ Doing(h, "hide")
      /\ onDuty' = [onDuty EXCEPT ![d] = IF @ = "NONE" THEN @ ELSE "no"]
      /\ aside' = aside \cup {d}
      /\ Hang(h)
      /\ UNCHANGED <<account, invitation, tripStatus, driverOf>>

\* POST drivers/[id]/reactivate
ReactivateAccount(h) == SetAccount(h, "reactivate", "ACTIVE") /\ Proceed(h, "show")

\* A driver without trips is where the end of a trip would have put it.
ShowProfile(h) ==
  LET d == call[h].driver
  IN  /\ Doing(h, "show")
      /\ onDuty' = [onDuty EXCEPT ![d] = IF @ = "NONE" THEN @ ELSE "yes"]
      /\ aside' = IF ActiveTrips(d) = {} THEN aside \ {d} ELSE aside \cup {d}
      /\ Hang(h)
      /\ UNCHANGED <<account, invitation, tripStatus, driverOf>>

\* PUT drivers/[id]: the driver or the carrier turns the availability by hand.
Toggle(d, value) ==
  /\ onDuty[d] \notin {"NONE", value}
  /\ onDuty' = [onDuty EXCEPT ![d] = value]
  /\ aside' = aside \cup {d}
  /\ SomeoneFree
  /\ UNCHANGED <<account, invitation, tripStatus, driverOf>>

-----------------------------------------------------------------------------
(* Assigning a driver to a trip *)

\* Mutant of NoConflict: only the trip's own status is looked at.
ConflictUnchecked(d, x) == TRUE

\* checkDriverConflicts
NoConflict(d, x) == Driving(d) \subseteq {x}

MayDrive(d) == account[d] = "ACTIVE" /\ onDuty[d] = "yes"

\* POST trips/[tripId]/assign-driver
BeginAssign(h, d, x) ==
  /\ tripStatus[x] \in {"ASSIGNED", "PICKUP_PENDING"}
  /\ MayDrive(d)
  /\ NoConflict(d, x)
  /\ Take(h, OnTrip("assign", d, x, NoOne))
  /\ UNCHANGED <<driverRows, aside>>

WriteDriver(h) ==
  /\ Doing(h, "assign")
  /\ driverOf' = [driverOf EXCEPT ![call[h].trip] = call[h].driver]
  /\ Proceed(h, "occupy")
  /\ UNCHANGED <<account, invitation, onDuty, tripStatus, aside>>

\* The driver replaced, if there is another one.
Replaced(h) == IF call[h].prev = call[h].driver THEN NoOne ELSE call[h].prev

Occupy(h) ==
  LET d == call[h].driver
  IN  /\ Doing(h, "occupy")
      /\ onDuty[d] # "NONE"
      /\ onDuty' = [onDuty EXCEPT ![d] = "no"]
      /\ aside' = aside \ {d}
      /\ IF Replaced(h) = NoOne THEN Hang(h) ELSE Proceed(h, "restore")
      /\ UNCHANGED <<account, invitation, tripStatus, driverOf>>

\* A driver with no active trip but x is available again.
Restored(d, x) ==
  onDuty' = IF ActiveTrips(d) \subseteq {x} THEN [onDuty EXCEPT ![d] = "yes"] ELSE onDuty

\* The last statements of assign-driver and unassign-driver.
RestorePrevious(h) ==
  /\ Doing(h, "restore")
  /\ Restored(call[h].prev, call[h].trip)
  /\ aside' = IF ActiveTrips(call[h].prev) \subseteq {call[h].trip}
              THEN aside \ {call[h].prev} ELSE aside
  /\ Hang(h)
  /\ UNCHANGED <<account, invitation, tripStatus, driverOf>>

\* POST trips/[tripId]/unassign-driver
BeginUnassign(h, x) ==
  /\ tripStatus[x] = "ASSIGNED"
  /\ driverOf[x] # NoOne
  /\ Take(h, OnTrip("unassign", NoOne, x, NoOne))
  /\ UNCHANGED <<driverRows, aside>>

\* Mutant of RemoveDriver: the handler ends without restoring the driver.
RemoveDriverOnly(h) ==
  /\ Doing(h, "unassign")
  /\ driverOf' = [driverOf EXCEPT ![call[h].trip] = NoOne]
  /\ Hang(h)
  /\ UNCHANGED <<account, invitation, onDuty, tripStatus, aside>>

RemoveDriver(h) ==
  /\ Doing(h, "unassign")
  /\ driverOf' = [driverOf EXCEPT ![call[h].trip] = NoOne]
  /\ Proceed(h, "restore")
  /\ UNCHANGED <<account, invitation, onDuty, tripStatus, aside>>

\* POST trips/[tripId]/reassign-truck with a new driver.  It asks for an ACTIVE
\* account and no conflict, not for an available profile.
BeginSwap(h, d, x) ==
  /\ tripStatus[x] = "EXCEPTION"
  /\ account[d] = "ACTIVE"
  /\ NoConflict(d, x)
  /\ Take(h, OnTrip("swap", d, x, "IN_TRANSIT"))
  /\ UNCHANGED <<driverRows, aside>>

\* One transaction.  A driver without a profile makes it throw.
CommitSwap(h) ==
  LET d == call[h].driver
      x == call[h].trip
      old == Replaced(h)
      free == old # NoOne /\ ActiveTrips(old) \subseteq {x}
  IN  /\ Doing(h, "swap")
      /\ tripStatus[x] = "EXCEPTION"
      /\ onDuty[d] # "NONE"
      /\ tripStatus' = [tripStatus EXCEPT ![x] = "IN_TRANSIT"]
      /\ driverOf' = [driverOf EXCEPT ![x] = d]
      /\ onDuty' = [e \in DriverIds |-> CASE e = d -> "no"
                                          [] e = old /\ free -> "yes"
                                          [] OTHER -> onDuty[e]]
      /\ aside' = aside \ (IF free THEN {d, old} ELSE {d})
      /\ Hang(h)
      /\ UNCHANGED <<account, invitation>>

-----------------------------------------------------------------------------
(* The trip itself.  PATCH trips/[tripId] and reassign-truck without a     *)
(* driver move it; the handlers of TripFlow end it.                        *)

MoveTrip(x, status) ==
  /\ status \in VALID_TRIP_TRANSITIONS[tripStatus[x]] \ TerminalTrip
  /\ tripStatus' = [tripStatus EXCEPT ![x] = status]
  /\ SomeoneFree
  /\ UNCHANGED <<account, invitation, onDuty, driverOf, aside>>

BeginEnd(h, x, status) ==
  /\ status \in VALID_TRIP_TRANSITIONS[tripStatus[x]] \cap TerminalTrip
  /\ Take(h, OnTrip("end", NoOne, x, status))
  /\ UNCHANGED <<driverRows, aside>>

\* One transaction, which restores the driver read before it.  The confirmation
\* and the POD upload complete a trip that is COMPLETED already once more.
CommitEnd(h) ==
  LET d == call[h].prev
      x == call[h].trip
  IN  /\ Doing(h, "end")
      /\ \/ tripStatus[x] = call[h].seen
         \/ call[h].seen = "DELIVERED" /\ tripStatus[x] = "COMPLETED"
      /\ tripStatus' = [tripStatus EXCEPT ![x] = call[h].next]
      /\ IF d = NoOne
         THEN UNCHANGED <<onDuty, aside>>
         ELSE /\ Restored(d, x)
              /\ aside' = IF ActiveTrips(d) \subseteq {x} THEN aside \ {d} ELSE aside
      /\ Hang(h)
      /\ UNCHANGED <<account, invitation, driverOf>>

\* PUT loads/[id]/pod: the shipper verifies the POD.  The handler knows the load
\* and its trip, and writes neither the driver nor his profile.
BeginVerify(h, x) ==
  /\ tripStatus[x] = "DELIVERED"
  /\ Take(h, OnTrip("verify", NoOne, x, "COMPLETED"))
  /\ UNCHANGED <<driverRows, aside>>

CommitVerify(h) ==
  LET x == call[h].trip
  IN  /\ Doing(h, "verify")
      /\ tripStatus' = [tripStatus EXCEPT ![x] = "COMPLETED"]
      /\ aside' = aside \cup ({driverOf[x]} \ {NoOne})
      /\ Hang(h)
      /\ UNCHANGED <<account, invitation, onDuty, driverOf>>

\* An exception, a failed statement or the end of the process.  The drivers the
\* handler still had something to do for are set aside.
HandlerDies(h) ==
  /\ call[h] # NoCall
  /\ aside' = aside \cup ({call[h].driver, call[h].prev} \ {NoOne})
  /\ Hang(h)
  /\ UNCHANGED driverRows

-----------------------------------------------------------------------------
DriverInit ==
  /\ account = [d \in DriverIds |-> "NONE"]
  /\ invitation = [d \in DriverIds |-> "NONE"]
  /\ onDuty = [d \in DriverIds |-> "NONE"]
  /\ tripStatus = [x \in DriverTrips |-> "ASSIGNED"]
  /\ driverOf = [x \in DriverTrips |-> NoOne]
  /\ call = [h \in Handlers |-> NoCall]
  /\ aside = {}

AccountStep(h) ==
  \/ \E d \in DriverIds : BeginAccount(h, d) \/ BeginSuspend(h, d)
  \/ CommitAccept(h)
  \/ CommitRevoke(h)
  \/ CommitApproval(h)
  \/ CommitRejection(h)
  \/ SuspendAccount(h)
  \/ HideProfile(h)
  \/ ReactivateAccount(h)
  \/ ShowProfile(h)

AssignmentStep(h) ==
  \/ \E d \in DriverIds, x \in DriverTrips : BeginAssign(h, d, x) \/ BeginSwap(h, d, x)
  \/ \E x \in DriverTrips : BeginUnassign(h, x) \/ BeginVerify(h, x)
  \/ \E x \in DriverTrips, status \in TerminalTrip : BeginEnd(h, x, status)
  \/ WriteDriver(h)
  \/ Occupy(h)
  \/ RestorePrevious(h)
  \/ RemoveDriver(h)
  \/ CommitSwap(h)
  \/ CommitEnd(h)
  \/ CommitVerify(h)

DriverNext ==
  \/ \E d \in DriverIds : Invite(d) \/ \E value \in {"yes", "no"} : Toggle(d, value)
  \/ \E x \in DriverTrips, status \in TripStatuses : MoveTrip(x, status)
  \/ \E h \in Handlers : AccountStep(h) \/ AssignmentStep(h) \/ HandlerDies(h)

DriverSpec == DriverInit /\ [][DriverNext]_driverVars

-----------------------------------------------------------------------------
(* What the driver handlers promise *)

\* The rows hold values of their columns' types.
DriverTypeOK ==
  /\ account \in [DriverIds -> AccountStatuses]
  /\ invitation \in [DriverIds -> InvitationStates]
  /\ onDuty \in [DriverIds -> {"NONE", "yes", "no"}]
  /\ tripStatus \in [DriverTrips -> TripStatuses]
  /\ driverOf \in [DriverTrips -> DriverIds \cup {NoOne}]
  /\ call \in [Handlers -> CallRow]
  /\ aside \subseteq DriverIds

\* Whoever drives has accepted an invitation.  An account gets to ACTIVE without
\* one (invited, suspended, reactivated); the profile stands in the way.
AcceptedBeforeDriving ==
  \A x \in DriverTrips : driverOf[x] # NoOne => invitation[driverOf[x]] = "ACCEPTED"

\* One handler at a time, a driver gets work on a second trip only when a trip
\* of his comes back from EXCEPTION, which checkDriverConflicts does not count;
\* neither a handler that died nor an availability turned by hand leads there.
SecondTripFromException ==
  [][\A d \in DriverIds :
       Cardinality(Driving(d)) <= 1 /\ Cardinality(Driving(d)') > 1
         => \E x \in DriverTrips : /\ driverOf[x] = d
                                   /\ tripStatus[x] = "EXCEPTION"
                                   /\ tripStatus'[x] # "EXCEPTION"]_driverVars

Attended(d) == \E h \in Handlers : d \in {call[h].driver, call[h].prev}

\* One handler at a time, an ACTIVE driver without an active trip is shown as
\* available and a driver with one is not, unless somebody else decided otherwise.
AvailabilityTells ==
  \A d \in DriverIds :
    d \notin aside /\ ~Attended(d) =>
      /\ account[d] = "ACTIVE" /\ ActiveTrips(d) = {} => onDuty[d] # "no"
      /\ ActiveTrips(d) # {} => onDuty[d] = "no"

-----------------------------------------------------------------------------
(* What a document of the repository says, and the code does not do *)

\* docs/DRIVER_IMPLEMENTATION_SPEC.md, 446-448, of paths that ended a trip and
\* "left the driver flagged unavailable - blocking them from taking new trips":
\* now all of them "count other active trips for the driver, if zero -> set
\* `isAvailable: true`".
TripEndFreesDriver ==
  [][\A x \in DriverTrips, d \in DriverIds :
       /\ tripStatus[x] \in Blocking /\ tripStatus'[x] \in TerminalTrip
       /\ driverOf[x] = d
       /\ ActiveTrips(d)' = {}
       => onDuty'[d] = "yes"]_driverVars
=============================================================================
