-------------------------------- MODULE Freight --------------------------------
(***************************************************************************)
(* The marketplace as a whole: loads are requested and booked (Booking),   *)
(* their trips run, end or are cancelled (TripFlow), and truck and load    *)
(* return to the marketplace to be booked again.  Handlers of both kinds   *)
(* are in flight at the same time and read each other's commits.           *)
(***************************************************************************)
EXTENDS Booking, TripFlow

FreightNext == BookingNext \/ TripNext

FreightSpec == DBInit /\ [][FreightNext]_vars

-----------------------------------------------------------------------------
(* What holds across bookings, trips and rebookings *)

\* A truck moves one load at most: bookings, cancellations, reassignments and
\* rebookings implement Haulage.
FreightOneLoadAtATime == Haul!HaulageSpec

\* A trip that has not delivered agrees with its load about the truck, whatever
\* stale handlers have done to the load since it was booked.
MovingTripAgrees ==
  \A x \in Trips : trip[x].status \in Moving => assignedTruck[trip[x].load] = trip[x].truck

\* No handler of a past trip or a past request revives an ended trip, and a
\* trip row starts as ASSIGNED (Booking) and moves as TripFlow says.
FreightStepsLegal ==
  [][\A x \in Trips : trip'[x].status # trip[x].status =>
        IF trip[x].status = "NONE" THEN trip'[x].status = "ASSIGNED"
        ELSE trip'[x].status \in VALID_TRIP_TRANSITIONS[trip[x].status]]_vars
-----------------------------------------------------------------------------
(* The inductive invariant behind the properties above *)

\* A trip row is empty until it is inserted; from then on it has a truck, and its
\* load until it is cancelled.
FreightRowsWellFormed ==
  \A x \in Trips :
    IF trip[x].status = "NONE" THEN trip[x] = NoTripRow
    ELSE /\ trip[x].truck \in Trucks
         /\ IF trip[x].status = "CANCELLED" THEN trip[x].load = Nil
                                           ELSE trip[x].load \in Loads

\* No stale handler gives the load of a moving trip a status in which the next
\* booking of the truck would take the truck away.
MovingLoadHeld ==
  \A x \in Trips : trip[x].status \in Moving => loadStatus[trip[x].load] \notin Released

\* What the handler of job j has read remains true enough until it writes.
Knows(j) ==
  /\ j.req # Nil => request[j.req].status # "NONE"
  /\ j.op \in ServingOps => j.req # Nil
  /\ j.op = "insertRequest" => j.load \in Loads /\ j.truck \in Trucks
  /\ j.op \in TripOps =>
       /\ j.trip \in Trips
       /\ j.load \in Loads
       /\ trip[j.trip].status # "NONE"
       /\ trip[j.trip].status # "CANCELLED" => trip[j.trip].load = j.load
       /\ j.op = "patch" => /\ j.seen \in TripStatuses
                            /\ j.next \in VALID_TRIP_TRANSITIONS[j.seen]
       /\ j.op = "reassign" => j.to \in Trucks
       /\ j.op \in {"confirmDelivery", "uploadPod"}
            => trip[j.trip].status \in {"DELIVERED", "COMPLETED"}

JobsKnow == \A w \in Workers : Knows(job[w])

FreightInv ==
  /\ TypeOK
  /\ RequestsWellFormed
  /\ FreightRowsWellFormed
  /\ TripUnique
  /\ MovingTripAgrees
  /\ MovingLoadHeld
  /\ JobsKnow
  /\ CountedHoldRow
=============================================================================
