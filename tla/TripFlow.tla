------------------------------- MODULE TripFlow -------------------------------
(***************************************************************************)
(* The life of a trip from its booking to its end, and what each step does *)
(* to the trip's load and truck: the handlers under trips/[tripId], the    *)
(* POD on the load, and the cron job that closes trips left in DELIVERED.  *)
(*                                                                         *)
(* A handler is a Begin step (reads and checks, among them a second read   *)
(* inside the transaction, see Booking) and a Commit step.  A handler that *)
(* gives its truck back counts the truck's other active trips inside its   *)
(* transaction, after it has written the trip's row and so locked it:      *)
(* CountOthers.  Between that count and the commit other trips may change, *)
(* this trip may not.                                                      *)
(*                                                                         *)
(* Who may do what is left out: an administrator may ask for every legal   *)
(* transition.  Driver availability and settlement status are left out.    *)
(***************************************************************************)
EXTENDS MarketDB

\* A handler that has looked up trip x.
Handling(x, op, next, to) ==
  [op |-> op, req |-> Nil, trip |-> x, load |-> trip[x].load,
   truck |-> trip[x].truck, kind |-> Nil, seen |-> trip[x].status,
   next |-> next, to |-> to, others |-> "uncounted"]

-----------------------------------------------------------------------------
(* Begin steps: what a handler checks before it writes *)

\* PATCH trips/[tripId]
BeginPatch(w, x, status) ==
  /\ trip[x].status \in TripStatuses
  /\ status \in VALID_TRIP_TRANSITIONS[trip[x].status]
  /\ status = "COMPLETED" => podSubmitted[trip[x].load]
  /\ Start(w, Handling(x, "patch", status, Nil))
  /\ UNCHANGED dbVars

\* POST trips/[tripId]/cancel
BeginCancelTrip(w, x) ==
  /\ trip[x].status \in {"ASSIGNED", "PICKUP_PENDING"}
  /\ Start(w, Handling(x, "cancelTrip", "CANCELLED", Nil))
  /\ UNCHANGED dbVars

\* POST trips/[tripId]/confirm, by the shipper.
BeginConfirmDelivery(w, x) ==
  /\ trip[x].status = "DELIVERED"
  /\ Start(w, Handling(x, "confirmDelivery", "COMPLETED", Nil))
  /\ UNCHANGED dbVars

\* PUT loads/[id]/pod: the shipper verifies the POD, and the DELIVERED trip ends
\* by the same statements as at a confirmation.
BeginVerifyPod(w, x) == BeginConfirmDelivery(w, x) /\ podSubmitted[trip[x].load]

\* POST trips/[tripId]/pod, by the driver.
BeginUploadPod(w, x) ==
  /\ trip[x].status = "DELIVERED"
  /\ Start(w, Handling(x, "uploadPod", "COMPLETED", Nil))
  /\ UNCHANGED dbVars

\* POST cron/trip-monitor.  Whether 48 hours have passed is left open.
Stuck(x) == trip[x].status = "DELIVERED" /\ ~podSubmitted[trip[x].load]

\* Mutant of BeginAutoClose: the POD condition of its query is inverted.
BeginCloseSubmitted(w, x) ==
  /\ trip[x].status = "DELIVERED"
  /\ podSubmitted[trip[x].load]
  /\ Start(w, Handling(x, "autoClose", "COMPLETED", Nil))
  /\ UNCHANGED dbVars

BeginAutoClose(w, x) ==
  /\ Stuck(x)
  /\ Start(w, Handling(x, "autoClose", "COMPLETED", Nil))
  /\ UNCHANGED dbVars

\* POST trips/[tripId]/reassign-truck
BeginReassign(w, x, t) ==
  /\ trip[x].status = "EXCEPTION"
  /\ available[t]
  /\ t # trip[x].truck
  /\ Start(w, Handling(x, "reassign", "IN_TRANSIT", t))
  /\ UNCHANGED dbVars

\* POST loads/[id]/pod, by the carrier, knows the load and not the trip.
Submitting(l) ==
  [op |-> "submitPod", req |-> Nil, trip |-> Nil, load |-> l, truck |-> Nil,
   kind |-> Nil, seen |-> Nil, next |-> Nil, to |-> Nil, others |-> "uncounted"]

\* Mutant of BeginSubmitPod: the check that the load is DELIVERED is missing.
BeginSubmitEarly(w, l) ==
  /\ ~podSubmitted[l]
  /\ Start(w, Submitting(l))
  /\ UNCHANGED dbVars

BeginSubmitPod(w, l) ==
  /\ loadStatus[l] = "DELIVERED"
  /\ ~podSubmitted[l]
  /\ Start(w, Submitting(l))
  /\ UNCHANGED dbVars

-----------------------------------------------------------------------------
(* Inside the transaction *)

\* The trip's row is locked by no other handler's transaction.
RowFree(w) ==
  \A v \in Workers \ {w} : job[v].trip = job[w].trip => job[v].others = "uncounted"

\* Mutant of GuardHolds: every handler updates by id alone.
NoGuard(w) == TRUE

\* The status in the WHERE of the trip's update.  The confirmation and the POD
\* upload update by id alone.
GuardHolds(w) ==
  LET status == trip[job[w].trip].status
  IN  CASE job[w].op = "patch" -> status = job[w].seen
        [] job[w].op = "cancelTrip" -> status \in {"ASSIGNED", "PICKUP_PENDING"}
        [] job[w].op = "autoClose" -> status = "DELIVERED"
        [] job[w].op = "reassign" -> status = "EXCEPTION"
        [] OTHER -> TRUE

\* Handlers that give the truck they read back to the marketplace.
Releases(w) ==
  \/ job[w].op \in {"cancelTrip", "confirmDelivery", "uploadPod", "autoClose", "reassign"}
  \/ job[w].op = "patch" /\ job[w].next \in TerminalTrip

CountOthers(w) ==
  /\ Releases(w)
  /\ job[w].others = "uncounted"
  /\ RowFree(w)
  /\ GuardHolds(w)
  /\ LET others == BlockingTrips(job[w].truck) \ {job[w].trip}
     IN  Continue(w, [job[w] EXCEPT !.others = IF others = {} THEN "none" ELSE "some"])
  /\ UNCHANGED dbVars

Counted(w, op) == job[w].op = op /\ job[w].others # "uncounted"

\* The truck is available again if it had no other active trip when counted;
\* its posting returns in any case.
AvailableAfter(w) ==
  [available EXCEPT ![job[w].truck] = IF job[w].others = "none" THEN TRUE ELSE @]

PostingAfter(w) ==
  [posting EXCEPT ![job[w].truck] = IF @ = "MATCHED" THEN "ACTIVE" ELSE @]

ReleaseTruck(w) == available' = AvailableAfter(w) /\ posting' = PostingAfter(w)

\* Mutant of Complete: the load is forgotten.
CompleteTripOnly(w) ==
  /\ trip' = [trip EXCEPT ![job[w].trip].status = "COMPLETED"]
  /\ ReleaseTruck(w)
  /\ Finish(w)
  /\ UNCHANGED <<loadStatus, assignedTruck, request>>

\* Trip and load are COMPLETED together; the load keeps its truck.
Complete(w) ==
  /\ trip' = [trip EXCEPT ![job[w].trip].status = "COMPLETED"]
  /\ loadStatus' = [loadStatus EXCEPT ![job[w].load] = "COMPLETED"]
  /\ ReleaseTruck(w)
  /\ Finish(w)
  /\ UNCHANGED <<assignedTruck, request>>

\* The trip lets go of its load, and the load returns to the marketplace.
Cancel(w) ==
  /\ trip' = [trip EXCEPT ![job[w].trip] =
                 [status |-> "CANCELLED", load |-> Nil, truck |-> trip[job[w].trip].truck]]
  /\ loadStatus' = [loadStatus EXCEPT ![job[w].load] = "POSTED"]
  /\ assignedTruck' = [assignedTruck EXCEPT ![job[w].load] = Nil]
  /\ ReleaseTruck(w)
  /\ Finish(w)
  /\ UNCHANGED <<podSubmitted, request>>

-----------------------------------------------------------------------------
(* Commit steps *)

\* The load takes the status of the same name (mapTripStatusToLoadStatus).
CommitPatch(w) ==
  /\ job[w].op = "patch"
  /\ ~Releases(w)
  /\ RowFree(w)
  /\ GuardHolds(w)
  /\ trip' = [trip EXCEPT ![job[w].trip].status = job[w].next]
  /\ loadStatus' = [loadStatus EXCEPT ![job[w].load] = job[w].next]
  /\ Finish(w)
  /\ UNCHANGED <<assignedTruck, podSubmitted, request, truckVars>>

CommitPatchCompleted(w) ==
  Counted(w, "patch") /\ job[w].next = "COMPLETED" /\ Complete(w) /\ UNCHANGED podSubmitted

CommitPatchCancelled(w) == Counted(w, "patch") /\ job[w].next = "CANCELLED" /\ Cancel(w)

CommitCancelTrip(w) == Counted(w, "cancelTrip") /\ Cancel(w)

CommitConfirmDelivery(w) ==
  Counted(w, "confirmDelivery") /\ Complete(w) /\ UNCHANGED podSubmitted

CommitUploadPod(w) ==
  /\ Counted(w, "uploadPod")
  /\ podSubmitted' = [podSubmitted EXCEPT ![job[w].load] = TRUE]
  /\ Complete(w)

CommitAutoClose(w) == Counted(w, "autoClose") /\ Complete(w) /\ UNCHANGED podSubmitted

\* Mutant of WriteReassign: Load.assignedTruckId is left alone.
ReassignTripOnly(w) ==
  LET t == job[w].to
  IN  /\ Counted(w, "reassign")
      /\ trip' = [trip EXCEPT ![job[w].trip] =
                     [status |-> "IN_TRANSIT", load |-> trip[job[w].trip].load, truck |-> t]]
      /\ available' = [AvailableAfter(w) EXCEPT ![t] = FALSE]
      /\ UNCHANGED posting
      /\ loadStatus' = [loadStatus EXCEPT ![job[w].load] = "IN_TRANSIT"]
      /\ Finish(w)
      /\ UNCHANGED <<assignedTruck, podSubmitted, request>>

\* The old truck is released and the new one taken, whatever it does now.
WriteReassign(w) ==
  LET t == job[w].to
  IN  /\ Counted(w, "reassign")
      /\ trip' = [trip EXCEPT ![job[w].trip] =
                     [status |-> "IN_TRANSIT", load |-> trip[job[w].trip].load, truck |-> t]]
      /\ available' = [AvailableAfter(w) EXCEPT ![t] = FALSE]
      /\ posting' = [PostingAfter(w) EXCEPT ![t] = IF @ = "ACTIVE" THEN "MATCHED" ELSE @]
      /\ loadStatus' = [loadStatus EXCEPT ![job[w].load] = "IN_TRANSIT"]
      /\ assignedTruck' = [assignedTruck EXCEPT ![job[w].load] = t]
      /\ Finish(w)
      /\ UNCHANGED <<podSubmitted, request>>

\* Load.assignedTruckId is unique: a load that still names the new truck
\* refuses the transaction.
CommitReassign(w) ==
  /\ \A k \in Loads \ {job[w].load} : assignedTruck[k] # job[w].to
  /\ WriteReassign(w)

CommitSubmitPod(w) ==
  /\ job[w].op = "submitPod"
  /\ podSubmitted' = [podSubmitted EXCEPT ![job[w].load] = TRUE]
  /\ Finish(w)
  /\ UNCHANGED <<loadStatus, assignedTruck, trip, request, truckVars>>

-----------------------------------------------------------------------------
BeginStep(w) ==
  \/ \E x \in Trips :
        \/ \E status \in TripStatuses : BeginPatch(w, x, status)
        \/ BeginCancelTrip(w, x)
        \/ BeginConfirmDelivery(w, x)
        \/ BeginVerifyPod(w, x)
        \/ BeginUploadPod(w, x)
        \/ BeginAutoClose(w, x)
        \/ \E t \in Trucks : BeginReassign(w, x, t)
  \/ \E l \in Loads : BeginSubmitPod(w, l)

CommitStep(w) ==
  \/ CommitPatch(w)
  \/ CommitPatchCompleted(w)
  \/ CommitPatchCancelled(w)
  \/ CommitCancelTrip(w)
  \/ CommitConfirmDelivery(w)
  \/ CommitUploadPod(w)
  \/ CommitAutoClose(w)
  \/ CommitReassign(w)
  \/ CommitSubmitPod(w)

TripNext ==
  \E w \in Workers : BeginStep(w) \/ CountOthers(w) \/ CommitStep(w) \/ Abort(w)

\* Every trip has been booked, for a load and a truck of its own; the other
\* trucks wait on the marketplace.
TripInit ==
  \E loadOf \in [Trips -> Loads], truckOf \in [Trips -> Trucks] :
    LET booked == {loadOf[x] : x \in Trips}
        taken == {truckOf[x] : x \in Trips}
        tripOf(l) == CHOOSE x \in Trips : loadOf[x] = l
    IN  /\ \A x, y \in Trips : x # y => loadOf[x] # loadOf[y] /\ truckOf[x] # truckOf[y]
        /\ trip = [x \in Trips |->
                     [status |-> "ASSIGNED", load |-> loadOf[x], truck |-> truckOf[x]]]
        /\ loadStatus = [l \in Loads |-> IF l \in booked THEN "ASSIGNED" ELSE "POSTED"]
        /\ assignedTruck = [l \in Loads |-> IF l \in booked THEN truckOf[tripOf(l)] ELSE Nil]
        /\ podSubmitted = [l \in Loads |-> FALSE]
        /\ request = [q \in Requests |-> NoRequestRow]
        /\ available = [t \in Trucks |-> t \notin taken]
        /\ posting = [t \in Trucks |-> IF t \in taken THEN "MATCHED" ELSE "ACTIVE"]
        /\ job = [w \in Workers |-> Idle]

TripSpec == TripInit /\ [][TripNext]_vars

-----------------------------------------------------------------------------
(* What the trip handlers promise *)

\* A trip moves along VALID_TRIP_TRANSITIONS, although three handlers complete
\* it by other routes and two of them write it by id, without a status guard.
TripStepsLegal ==
  [][\A x \in Trips : trip'[x].status # trip[x].status
        => trip'[x].status \in VALID_TRIP_TRANSITIONS[trip[x].status]]_vars

\* blueprint, 196: the load's status mirrors that of its trip, in every
\* interleaving of the handlers that write one and then the other.
LoadMirrorsTrip ==
  \A x \in Trips : trip[x].load # Nil => loadStatus[trip[x].load] = trip[x].status

\* The truck named by an active trip is the one named by its load, and is on
\* one active trip only, across concurrent reassignments to one truck.
TripTruckAgrees ==
  \A x \in Trips : trip[x].status \in Blocking =>
     /\ assignedTruck[trip[x].load] = trip[x].truck
     /\ BlockingTrips(trip[x].truck) = {x}

\* A load has a POD only once it is delivered, although loads/[id]/pod writes it
\* by id, some time after it has read the load as DELIVERED.
PodAfterDelivery ==
  \A l \in Loads : podSubmitted[l] => loadStatus[l] \in {"DELIVERED", "COMPLETED"}

\* The trip rows implement the promise of Haulage.
OneLoadAtATime == Haul!HaulageSpec

-----------------------------------------------------------------------------
(* The inductive invariant behind the properties above *)

TripOps == {"patch", "cancelTrip", "confirmDelivery", "uploadPod", "autoClose", "reassign"}

\* A trip keeps its load until it is cancelled, and always has a truck.
TripRowsWellFormed ==
  \A x \in Trips : /\ trip[x].status \in TripStatuses
                   /\ trip[x].truck \in Trucks
                   /\ IF trip[x].status = "CANCELLED" THEN trip[x].load = Nil
                                                      ELSE trip[x].load \in Loads

LoadNamesTruck ==
  \A x \in Trips : trip[x].status \in Blocking => assignedTruck[trip[x].load] = trip[x].truck

\* What a handler has read remains true enough until it writes: it knows the
\* trip's load, and what it was asked for was legal for the status it read.  A
\* DELIVERED trip can only be COMPLETED, so the handlers that write by id find
\* it in one of these two.
JobsKnowTheirTrip ==
  \A w \in Workers :
    IF job[w].op \in TripOps
    THEN /\ job[w].trip \in Trips
         /\ job[w].load \in Loads
         /\ job[w].truck \in Trucks
         /\ trip[job[w].trip].status # "CANCELLED" => trip[job[w].trip].load = job[w].load
         /\ job[w].op = "patch" => /\ job[w].seen \in TripStatuses
                                   /\ job[w].next \in VALID_TRIP_TRANSITIONS[job[w].seen]
         /\ job[w].op = "reassign" => job[w].to \in Trucks
         /\ job[w].op \in {"confirmDelivery", "uploadPod"}
              => trip[job[w].trip].status \in {"DELIVERED", "COMPLETED"}
    ELSE job[w].op \in {"idle", "submitPod"}

\* From the count to the commit a handler holds the lock of its trip's row, so
\* that its guard continues to hold.
CountedHoldRow ==
  \A w \in Workers : job[w].others # "uncounted" =>
    /\ job[w].op \in TripOps
    /\ Releases(w)
    /\ RowFree(w)
    /\ GuardHolds(w)

PodComesAfterDelivery ==
  \A w \in Workers : job[w].op = "submitPod" =>
    job[w].load \in Loads /\ loadStatus[job[w].load] \in {"DELIVERED", "COMPLETED"}

TripInv ==
  /\ TypeOK
  /\ TripRowsWellFormed
  /\ LoadMirrorsTrip
  /\ LoadNamesTruck
  /\ TripUnique
  /\ TruckUnique
  /\ JobsKnowTheirTrip
  /\ CountedHoldRow
  /\ PodAfterDelivery
  /\ PodComesAfterDelivery

-----------------------------------------------------------------------------
(* Fairness: the code's own scheduling.  A handler ends, in one way or the  *)
(* other, and its transaction's locks with it.  The monitor is run every   *)
(* hour and takes up each stuck trip again and again; it may die on the    *)
(* way, but not every time.  Nobody is obliged to call a handler.          *)

HandlersEnd == \A w \in Workers : WF_vars(CountOthers(w) \/ CommitStep(w) \/ Abort(w))

MonitorRuns == \A x \in Trips : SF_vars(\E w \in Workers : BeginAutoClose(w, x))

MonitorFails(w) == job[w].op = "autoClose" /\ GuardHolds(w) /\ Abort(w)

MonitorSurvives == <>[][\A w \in Workers : ~MonitorFails(w)]_vars

FairTripSpec == TripSpec /\ HandlersEnd /\ MonitorRuns /\ MonitorSurvives

\* A trip left in DELIVERED is closed unless a POD arrives for its load.
StuckTripsClose ==
  \A x \in Trips :
    Stuck(x) ~> \/ trip[x].status = "COMPLETED"
                \/ trip[x].status = "DELIVERED" /\ podSubmitted[trip[x].load]
=============================================================================
