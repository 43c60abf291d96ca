----------------------------- MODULE FreightProofs -----------------------------
(***************************************************************************)
(* Bookings and trips together, for any number of loads, trucks, requests, *)
(* trips and workers.  FreightInv is the inductive invariant.  A step      *)
(* leaves trips and trucks of loads alone (lemma QuietRows), books a load  *)
(* (BookRows), or writes one trip and its load (MoveRows, CancelRows,      *)
(* ReassignRows); lemma JobsKept says why what the other handlers know     *)
(* remains true.                                                           *)
(***************************************************************************)
EXTENDS Freight, MarketProofs, TLAPS

\* The part of FreightInv that concerns the rows, and the part about the jobs.
RowsInv ==
  /\ DBTypeOK
  /\ RequestsWellFormed
  /\ FreightRowsWellFormed
  /\ TripUnique
  /\ MovingTripAgrees
  /\ MovingLoadHeld

JobsInv ==
  /\ job \in [Workers -> JobRow]
  /\ JobsKnow
  /\ CountedHoldRow

\* FreightInv is made of these two parts.
LEMMA Parts == FreightInv <=> RowsInv /\ JobsInv
BY DEF FreightInv, RowsInv, JobsInv, TypeOK

\* Initially nothing is requested, booked or worked on.
LEMMA FreightInitInv == DBInit => FreightInv
<1> SUFFICES ASSUME DBInit PROVE RowsInv /\ JobsInv
  BY Parts
<1>1. DBTypeOK
  BY DEF DBInit, DBTypeOK, LoadStatuses, NoTripRow, TripRow, NoRequestRow, RequestRow,
     PostingStatuses
<1>2. RequestsWellFormed
  BY DEF DBInit, RequestsWellFormed, NoRequestRow
<1>3. \A x \in Trips : trip[x] = NoTripRow /\ trip[x].status = "NONE" /\ trip[x].load = Nil
  BY DEF DBInit, NoTripRow
<1>4. FreightRowsWellFormed /\ TripUnique /\ MovingTripAgrees /\ MovingLoadHeld
  BY <1>3 DEF FreightRowsWellFormed, TripUnique, MovingTripAgrees, MovingLoadHeld, Moving
<1>5. JobsInv
  <2>1. \A w \in Workers : job[w] = Idle
    BY DEF DBInit
  <2> QED
    BY <2>1 DEF DBInit, JobsInv, JobsKnow, Knows, CountedHoldRow, Idle, JobRow, Ops,
       TripOps, ServingOps
<1> QED  BY <1>1, <1>2, <1>4, <1>5 DEF RowsInv

-----------------------------------------------------------------------------
(* What a handler knows stays true while other handlers write. *)

\* Rows are inserted once; a trip keeps its load until it is cancelled, stays
\* cancelled, and leaves DELIVERED for COMPLETED only.
Kept ==
  /\ \A q \in Requests : request[q].status # "NONE" => request'[q].status # "NONE"
  /\ \A x \in Trips : trip[x].status # "NONE" =>
       /\ trip'[x].status # "NONE"
       /\ trip[x].status = "CANCELLED" => trip'[x].status = "CANCELLED"
       /\ trip'[x].status # "CANCELLED" => trip'[x].load = trip[x].load
       /\ trip[x].status \in {"DELIVERED", "COMPLETED"}
            => trip'[x].status \in {"DELIVERED", "COMPLETED"}

\* One worker goes over to job j, which has counted nothing, and no trip moves that
\* a handler holds the row of.
LEMMA JobsKept ==
  ASSUME FreightInv, Kept, NEW w \in Workers, NEW j \in JobRow,
         job' = [job EXCEPT ![w] = j], Knows(j), j.others = "uncounted",
         \A v \in Workers \ {w} : job[v].others # "uncounted"
            => trip'[job[v].trip].status = trip[job[v].trip].status
  PROVE  JobsInv'
<1>1. /\ job' \in [Workers -> JobRow]
      /\ job'[w] = j
      /\ \A v \in Workers \ {w} : job'[v] = job[v]
      /\ \A v \in Workers : job[v] \in JobRow /\ Knows(job[v])
  BY Parts DEF JobsInv, JobsKnow
<1>2. JobsKnow'
  <2> SUFFICES ASSUME NEW v \in Workers PROVE Knows(job[v])'
    BY DEF JobsKnow
  <2>1. CASE v = w
    <3>1. j.req \in Requests \cup {Nil}
      BY DEF JobRow
    <3> QED  BY <2>1, <3>1, <1>1 DEF Knows, Kept
  <2>2. CASE v # w
    <3>1. job'[v] = job[v] /\ job[v].req \in Requests \cup {Nil} /\ Knows(job[v])
      BY <2>2, <1>1 DEF JobRow
    <3> QED  BY <3>1 DEF Knows, Kept
  <2> QED  BY <2>1, <2>2
<1>3. CountedHoldRow'
  <2> SUFFICES ASSUME NEW v \in Workers, job'[v].others # "uncounted"
               PROVE  /\ job'[v].op \in TripOps
                      /\ Releases(v)'
                      /\ RowFree(v)'
                      /\ GuardHolds(v)'
    BY DEF CountedHoldRow
  <2>1. v # w /\ job'[v] = job[v]
    BY <1>1
  <2>2. job[v].op \in TripOps /\ Releases(v) /\ RowFree(v) /\ GuardHolds(v)
    BY <2>1 DEF FreightInv, CountedHoldRow
  <2>3. trip'[job[v].trip].status = trip[job[v].trip].status
    BY <2>1
  <2>4. Releases(v)' /\ GuardHolds(v)'
    BY <2>1, <2>2, <2>3 DEF Releases, GuardHolds
  <2>5. RowFree(v)'
    BY <2>1, <2>2, <1>1 DEF RowFree
  <2> QED  BY <2>1, <2>2, <2>4, <2>5
<1> QED  BY <1>1, <1>2, <1>3 DEF JobsInv

\* The same for a handler that ends.
LEMMA JobEnds ==
  ASSUME FreightInv, Kept, NEW w \in Workers, Finish(w),
         \A v \in Workers \ {w} : job[v].others # "uncounted"
            => trip'[job[v].trip].status = trip[job[v].trip].status
  PROVE  JobsInv'
<1>1. Idle \in JobRow /\ Knows(Idle) /\ Idle.others = "uncounted"
  BY DEF Idle, JobRow, Ops, Knows, TripOps, ServingOps
<1> QED  BY <1>1, JobsKept DEF Finish

-----------------------------------------------------------------------------
(* Rows *)

LegalStep ==
  \A x \in Trips : trip'[x].status # trip[x].status =>
    IF trip[x].status = "NONE" THEN trip'[x].status = "ASSIGNED"
    ELSE trip'[x].status \in VALID_TRIP_TRANSITIONS[trip[x].status]

HaulStep == [Haul!HaulageNext]_HauledBy

StepOK == FreightInv' /\ LegalStep /\ HaulStep

\* The lemmas of MarketProofs apply in both states.
LEMMA RowsHaul ==
  ASSUME RowsInv, RowsInv'
  PROVE  TripUnique /\ MovingRows /\ HauledByIs /\ HauledByIs'
<1>1. TripUnique /\ MovingRows
  BY DEF RowsInv, FreightRowsWellFormed, MovingRows, Moving
<1>2. (TripUnique /\ MovingRows)'
  BY DEF RowsInv, FreightRowsWellFormed, MovingRows, Moving
<1>3. HauledByIs
  BY <1>1, Hauled
<1>4. HauledByIs'
  BY <1>2, HauledNext
<1> QED  BY <1>1, <1>3, <1>4

\* Trips and trucks of loads are left alone, and no load is Released.
LEMMA QuietRows ==
  ASSUME RowsInv, UNCHANGED <<assignedTruck, trip>>, DBTypeOK', RequestsWellFormed',
         \A l \in Loads : loadStatus'[l] = loadStatus[l] \/ loadStatus'[l] \notin Released
  PROVE  RowsInv' /\ LegalStep /\ HaulStep
<1>1. FreightRowsWellFormed' /\ TripUnique' /\ MovingTripAgrees'
  BY DEF RowsInv, FreightRowsWellFormed, TripUnique, MovingTripAgrees
<1>2. MovingLoadHeld'
  BY DEF RowsInv, FreightRowsWellFormed, MovingLoadHeld, Moving
<1>3. RowsInv'
  BY <1>1, <1>2 DEF RowsInv
<1>4. LegalStep
  BY DEF LegalStep
<1>5. \A y \in Trips : SameHaul(y)
  BY DEF SameHaul
<1>6. HauledBy' = HauledBy
  BY <1>3, <1>5, RowsHaul, HaulUnchanged
<1> QED  BY <1>3, <1>4, <1>6 DEF HaulStep

\* The booking statements, on a load and a truck that exist.
LEMMA BookRows ==
  ASSUME RowsInv, NEW l \in Loads, NEW t \in Trucks,
         BookLoad(l, t), TakeOffMarket(t),
         request' \in [Requests -> RequestRow], RequestsWellFormed'
  PROVE  /\ RowsInv' /\ LegalStep /\ HaulStep
         /\ \A x \in Trips : trip[x].status # "NONE" => trip'[x] = trip[x]
<1> USE DEF RowsInv
<1>1. TripsAfterDetach(l) = trip
  <2>1. \A x \in Trips : ~(trip[x].load = l /\ trip[x].status = "CANCELLED")
    BY NilAssumption DEF FreightRowsWellFormed
  <2> QED  BY <2>1 DEF TripsAfterDetach, DBTypeOK
<1>2. \A x \in Trips : trip[x].load # l
  BY <1>1 DEF BookLoad
<1>3. PICK n \in Trips :
        /\ trip[n].status = "NONE"
        /\ trip' = [trip EXCEPT ![n] = [status |-> "ASSIGNED", load |-> l, truck |-> t]]
  BY <1>1 DEF BookLoad, WriteBooking
<1>4. /\ trip'[n].status = "ASSIGNED" /\ trip'[n].load = l /\ trip'[n].truck = t
      /\ \A x \in Trips \ {n} : trip'[x] = trip[x]
  BY <1>3 DEF DBTypeOK
<1>5. /\ assignedTruck' = [TruckAfterRelease(t) EXCEPT ![l] = t]
      /\ loadStatus' = [loadStatus EXCEPT ![l] = "ASSIGNED"]
      /\ \A k \in Loads \ {l} : TruckAfterRelease(t)[k] # t
      /\ UNCHANGED podSubmitted
  BY DEF BookLoad, WriteBooking
<1>6. TruckAfterRelease(t) \in [Loads -> Trucks \cup {Nil}]
  BY DEF TruckAfterRelease, DBTypeOK
<1>7. /\ assignedTruck'[l] = t /\ loadStatus'[l] = "ASSIGNED"
      /\ \A k \in Loads \ {l} : /\ assignedTruck'[k] = TruckAfterRelease(t)[k]
                               /\ loadStatus'[k] = loadStatus[k]
  BY <1>5, <1>6 DEF DBTypeOK
<1>8. ASSUME NEW y \in Trips, trip[y].status \in Moving
      PROVE  /\ trip[y].load \in Loads \ {l}
             /\ assignedTruck'[trip[y].load] = trip[y].truck
             /\ loadStatus'[trip[y].load] \notin Released
             /\ trip[y].truck # t
  <2>1. trip[y].load \in Loads \ {l}
    BY <1>2, <1>8 DEF FreightRowsWellFormed, Moving
  <2>2. assignedTruck[trip[y].load] = trip[y].truck /\ loadStatus[trip[y].load] \notin Released
    BY <1>8 DEF MovingTripAgrees, MovingLoadHeld
  <2>3. TruckAfterRelease(t)[trip[y].load] = trip[y].truck
    BY <2>1, <2>2 DEF TruckAfterRelease
  <2> QED  BY <2>1, <2>2, <2>3, <1>5, <1>7
<1>9. DBTypeOK'
  <2>1. trip' \in [Trips -> TripRow]
    <3>1. [status |-> "ASSIGNED", load |-> l, truck |-> t] \in TripRow
      BY DEF TripRow, TripStatuses
    <3> QED  BY <3>1, <1>3 DEF DBTypeOK
  <2>2. assignedTruck' \in [Loads -> Trucks \cup {Nil}] /\ loadStatus' \in [Loads -> LoadStatuses]
    BY <1>5, <1>6 DEF DBTypeOK, LoadStatuses
  <2>3. available' \in [Trucks -> BOOLEAN] /\ posting' \in [Trucks -> PostingStatuses]
    BY DEF TakeOffMarket, DBTypeOK, PostingStatuses
  <2> QED  BY <2>1, <2>2, <2>3, <1>5 DEF DBTypeOK
<1>10. FreightRowsWellFormed'
  BY <1>4 DEF FreightRowsWellFormed
<1>11. TripUnique'
  BY <1>2, <1>4 DEF TripUnique
<1>12. MovingTripAgrees' /\ MovingLoadHeld'
  <2> SUFFICES ASSUME NEW y \in Trips, trip'[y].status \in Moving
               PROVE  /\ assignedTruck'[trip'[y].load] = trip'[y].truck
                      /\ loadStatus'[trip'[y].load] \notin Released
    BY DEF MovingTripAgrees, MovingLoadHeld
  <2>1. CASE y = n
    BY <2>1, <1>4, <1>7 DEF Released
  <2>2. CASE y # n
    BY <2>2, <1>4, <1>8
  <2> QED  BY <2>1, <2>2
<1>13. RowsInv'
  BY <1>9, <1>10, <1>11, <1>12
<1>14. LegalStep
  BY <1>3, <1>4 DEF LegalStep
<1>15. Haul!Take(l, t)
  <2>1. trip'[n].status \in Moving /\ trip[n].status \notin Moving
    BY <1>3, <1>4 DEF Moving
  <2>2. \A y \in Trips \ {n} : SameHaul(y) /\ trip[y].load # l
    BY <1>2, <1>4 DEF SameHaul
  <2>3. \A y \in Trips : trip[y].status \in Moving => trip[y].truck # t
    BY <1>8
  <2>4. HauledByIs /\ HauledByIs'
    BY <1>13, RowsHaul
  <2> HIDE DEF RowsInv
  <2> QED  BY <1>4, <2>1, <2>2, <2>3, <2>4, HaulTake
<1>16. HaulStep
  BY <1>15 DEF HaulStep, Haul!HaulageNext
<1> QED  BY <1>3, <1>4, <1>13, <1>14, <1>16

\* The trip x moves legally or is completed twice, keeping its load unless it is
\* cancelled.
Moves(x) ==
  /\ \A y \in Trips \ {x} : trip'[y] = trip[y]
  /\ trip[x].status \in TripStatuses
  /\ \/ trip'[x].status = trip[x].status
     \/ trip'[x].status \in VALID_TRIP_TRANSITIONS[trip[x].status]
  /\ trip'[x].status # "CANCELLED" => trip'[x].load = trip[x].load

\* Such a move leaves what handlers know true.
LEMMA MovesKept ==
  ASSUME NEW x \in Trips, Moves(x), UNCHANGED request
  PROVE  Kept
<1>1. /\ trip'[x].status # "NONE"
      /\ trip[x].status = "CANCELLED" => trip'[x].status = "CANCELLED"
      /\ trip[x].status \in {"DELIVERED", "COMPLETED"}
           => trip'[x].status \in {"DELIVERED", "COMPLETED"}
  BY Transitions DEF Moves, TripStatuses
<1> QED  BY <1>1 DEF Moves, Kept

\* A trip that moves legally with its truck goes on hauling, or stops.
LEMMA MoveHauls ==
  ASSUME RowsInv, RowsInv', NEW x \in Trips, Moves(x), trip'[x].truck = trip[x].truck
  PROVE  LegalStep /\ HaulStep
<1>1. LegalStep
  BY DEF LegalStep, Moves, TripStatuses
<1>2. \A y \in Trips \ {x} : SameHaul(y)
  BY DEF SameHaul, Moves
<1>3. trip'[x].status \in Moving => trip[x].status \in Moving
  BY Transitions DEF Moves, Moving, TripStatuses
<1>4. CASE trip'[x].status \in Moving \/ trip[x].status \notin Moving
  <2>1. SameHaul(x)
    BY <1>3, <1>4 DEF SameHaul, Moves, Moving
  <2>2. HauledBy' = HauledBy
    BY <2>1, <1>2, RowsHaul, HaulUnchanged
  <2> QED  BY <2>2, <1>1 DEF HaulStep
<1>5. CASE trip'[x].status \notin Moving /\ trip[x].status \in Moving
  <2>1. Haul!PutDown(trip[x].load) /\ trip[x].load \in Loads
    BY <1>2, <1>5, RowsHaul, HaulPutDown DEF MovingRows
  <2> QED  BY <2>1, <1>1 DEF HaulStep, Haul!HaulageNext
<1> QED  BY <1>4, <1>5

\* A trip and its load take the same legal next status, or are completed twice.
LEMMA MoveRows ==
  ASSUME RowsInv, NEW x \in Trips, NEW s \in TripStatuses \ {"CANCELLED"},
         trip[x].status \in TripStatuses \ {"CANCELLED"},
         s \in VALID_TRIP_TRANSITIONS[trip[x].status] \/ s = trip[x].status,
         trip' = [trip EXCEPT ![x].status = s],
         loadStatus' = [loadStatus EXCEPT ![trip[x].load] = s],
         podSubmitted' \in [Loads -> BOOLEAN],
         available' \in [Trucks -> BOOLEAN],
         posting' \in [Trucks -> PostingStatuses],
         UNCHANGED <<assignedTruck, request>>
  PROVE  RowsInv' /\ Moves(x) /\ LegalStep /\ HaulStep
<1> DEFINE l == trip[x].load
<1> USE DEF RowsInv
<1>1. l \in Loads /\ trip[x].truck \in Trucks
  BY DEF FreightRowsWellFormed, TripStatuses
<1>2. /\ trip'[x].status = s
      /\ trip'[x].load = l
      /\ trip'[x].truck = trip[x].truck
      /\ \A y \in Trips \ {x} : trip'[y] = trip[y]
  BY DEF DBTypeOK, TripRow
<1>3. loadStatus'[l] = s /\ \A k \in Loads \ {l} : loadStatus'[k] = loadStatus[k]
  BY <1>1 DEF DBTypeOK
<1>4. Moves(x)
  BY <1>2 DEF Moves
<1>5. \A y \in Trips \ {x} : trip[y].load # l
  BY <1>1, NilAssumption DEF TripUnique
<1>6. DBTypeOK'
  <2>1. loadStatus' \in [Loads -> LoadStatuses]
    BY DEF DBTypeOK, TripStatuses, LoadStatuses
  <2>2. trip' \in [Trips -> TripRow]
    BY DEF DBTypeOK, TripRow
  <2> QED  BY <2>1, <2>2 DEF DBTypeOK
<1>7. FreightRowsWellFormed' /\ RequestsWellFormed'
  BY <1>1, <1>2 DEF FreightRowsWellFormed, RequestsWellFormed, TripStatuses
<1>8. TripUnique'
  BY <1>2 DEF TripUnique
<1>9. s \in Moving => trip[x].status \in Moving
  BY Transitions DEF Moving, TripStatuses
<1>10. MovingTripAgrees' /\ MovingLoadHeld'
  <2> SUFFICES ASSUME NEW y \in Trips, trip'[y].status \in Moving
               PROVE  /\ assignedTruck'[trip'[y].load] = trip'[y].truck
                      /\ loadStatus'[trip'[y].load] \notin Released
    BY DEF MovingTripAgrees, MovingLoadHeld
  <2>1. CASE y = x
    BY <2>1, <1>2, <1>3, <1>9 DEF MovingTripAgrees, Moving, Released
  <2>2. CASE y # x
    <3>1. trip'[y] = trip[y] /\ trip[y].load \in Loads \ {l}
      BY <2>2, <1>2, <1>5 DEF FreightRowsWellFormed, Moving
    <3> QED  BY <3>1, <1>3 DEF MovingTripAgrees, MovingLoadHeld
  <2> QED  BY <2>1, <2>2
<1>11. RowsInv'
  BY <1>6, <1>7, <1>8, <1>10
<1> HIDE DEF RowsInv
<1> QED  BY <1>2, <1>4, <1>11, MoveHauls

\* A trip lets go of its load, which returns to the marketplace.
LEMMA CancelRows ==
  ASSUME RowsInv, NEW x \in Trips,
         trip[x].status \in TripStatuses,
         "CANCELLED" \in VALID_TRIP_TRANSITIONS[trip[x].status],
         trip' = [trip EXCEPT ![x] =
                     [status |-> "CANCELLED", load |-> Nil, truck |-> trip[x].truck]],
         loadStatus' = [loadStatus EXCEPT ![trip[x].load] = "POSTED"],
         assignedTruck' = [assignedTruck EXCEPT ![trip[x].load] = Nil],
         available' \in [Trucks -> BOOLEAN],
         posting' \in [Trucks -> PostingStatuses],
         UNCHANGED <<podSubmitted, request>>
  PROVE  RowsInv' /\ Moves(x) /\ LegalStep /\ HaulStep
<1> DEFINE l == trip[x].load
<1> USE DEF RowsInv
<1>1. l \in Loads /\ trip[x].truck \in Trucks
  BY Transitions DEF FreightRowsWellFormed, TripStatuses
<1>2. /\ trip'[x].status = "CANCELLED"
      /\ trip'[x].load = Nil
      /\ trip'[x].truck = trip[x].truck
      /\ \A y \in Trips \ {x} : trip'[y] = trip[y]
  BY DEF DBTypeOK, TripRow
<1>3. \A k \in Loads \ {l} : loadStatus'[k] = loadStatus[k] /\ assignedTruck'[k] = assignedTruck[k]
  BY <1>1 DEF DBTypeOK
<1>4. Moves(x)
  BY <1>2 DEF Moves
<1>5. \A y \in Trips \ {x} : trip[y].load # l
  BY <1>1, NilAssumption DEF TripUnique
<1>6. DBTypeOK'
  <2>1. trip' \in [Trips -> TripRow]
    BY DEF DBTypeOK, TripRow, TripStatuses
  <2>2. loadStatus' \in [Loads -> LoadStatuses] /\ assignedTruck' \in [Loads -> Trucks \cup {Nil}]
    BY DEF DBTypeOK, LoadStatuses
  <2> QED  BY <2>1, <2>2 DEF DBTypeOK
<1>7. FreightRowsWellFormed' /\ RequestsWellFormed'
  BY <1>1, <1>2 DEF FreightRowsWellFormed, RequestsWellFormed
<1>8. TripUnique'
  BY <1>2 DEF TripUnique
<1>9. MovingTripAgrees' /\ MovingLoadHeld'
  <2> SUFFICES ASSUME NEW y \in Trips, trip'[y].status \in Moving
               PROVE  /\ assignedTruck'[trip'[y].load] = trip'[y].truck
                      /\ loadStatus'[trip'[y].load] \notin Released
    BY DEF MovingTripAgrees, MovingLoadHeld
  <2>1. y # x
    BY <1>2 DEF Moving
  <2>2. trip'[y] = trip[y] /\ trip[y].load \in Loads \ {l}
    BY <2>1, <1>2, <1>5 DEF FreightRowsWellFormed, Moving
  <2> QED  BY <2>2, <1>3 DEF MovingTripAgrees, MovingLoadHeld
<1>10. RowsInv'
  BY <1>6, <1>7, <1>8, <1>9
<1> HIDE DEF RowsInv
<1> QED  BY <1>2, <1>4, <1>10, MoveHauls

\* A trip in EXCEPTION goes on with another truck, which no other load names.
LEMMA ReassignRows ==
  ASSUME RowsInv, NEW x \in Trips, NEW t \in Trucks,
         trip[x].status = "EXCEPTION",
         \A k \in Loads \ {trip[x].load} : assignedTruck[k] # t,
         trip' = [trip EXCEPT ![x] =
                     [status |-> "IN_TRANSIT", load |-> trip[x].load, truck |-> t]],
         loadStatus' = [loadStatus EXCEPT ![trip[x].load] = "IN_TRANSIT"],
         assignedTruck' = [assignedTruck EXCEPT ![trip[x].load] = t],
         available' \in [Trucks -> BOOLEAN],
         posting' \in [Trucks -> PostingStatuses],
         UNCHANGED <<podSubmitted, request>>
  PROVE  RowsInv' /\ Moves(x) /\ LegalStep /\ HaulStep
<1> DEFINE l == trip[x].load
<1> USE DEF RowsInv
<1>1. l \in Loads
  BY DEF FreightRowsWellFormed
<1>2. /\ trip'[x].status = "IN_TRANSIT"
      /\ trip'[x].load = l
      /\ trip'[x].truck = t
      /\ \A y \in Trips \ {x} : trip'[y] = trip[y]
  BY DEF DBTypeOK, TripRow
<1>3. /\ loadStatus'[l] = "IN_TRANSIT"
      /\ assignedTruck'[l] = t
      /\ \A k \in Loads \ {l} : loadStatus'[k] = loadStatus[k]
                                  /\ assignedTruck'[k] = assignedTruck[k]
  BY <1>1 DEF DBTypeOK
<1>4. Moves(x)
  BY <1>2, Transitions DEF Moves, TripStatuses
<1>5. \A y \in Trips \ {x} : trip[y].load # l
  BY <1>1, NilAssumption DEF TripUnique
<1>6. ASSUME NEW y \in Trips \ {x}, trip[y].status \in Moving
      PROVE  /\ trip[y].load \in Loads \ {l}
             /\ assignedTruck[trip[y].load] = trip[y].truck
             /\ loadStatus[trip[y].load] \notin Released
  BY <1>5, <1>6 DEF FreightRowsWellFormed, MovingTripAgrees, MovingLoadHeld, Moving
<1>7. DBTypeOK'
  <2>1. trip' \in [Trips -> TripRow]
    BY DEF DBTypeOK, TripRow, TripStatuses
  <2>2. loadStatus' \in [Loads -> LoadStatuses] /\ assignedTruck' \in [Loads -> Trucks \cup {Nil}]
    BY DEF DBTypeOK, LoadStatuses
  <2> QED  BY <2>1, <2>2 DEF DBTypeOK
<1>8. FreightRowsWellFormed' /\ RequestsWellFormed'
  BY <1>1, <1>2 DEF FreightRowsWellFormed, RequestsWellFormed
<1>9. TripUnique'
  <2>1. \A y \in Trips : trip'[y].load = trip[y].load
    BY <1>2
  <2> QED  BY <2>1 DEF TripUnique
<1>10. MovingTripAgrees' /\ MovingLoadHeld'
  <2> SUFFICES ASSUME NEW y \in Trips, trip'[y].status \in Moving
               PROVE  /\ assignedTruck'[trip'[y].load] = trip'[y].truck
                      /\ loadStatus'[trip'[y].load] \notin Released
    BY DEF MovingTripAgrees, MovingLoadHeld
  <2>1. CASE y = x
    BY <2>1, <1>2, <1>3 DEF Released
  <2>2. CASE y # x
    BY <2>2, <1>2, <1>3, <1>6
  <2> QED  BY <2>1, <2>2
<1>11. RowsInv'
  BY <1>7, <1>8, <1>9, <1>10
<1>12. LegalStep
  BY <1>4 DEF LegalStep, Moves, TripStatuses
<1>13. \A y \in Trips \ {x} : SameHaul(y)
  BY <1>2 DEF SameHaul
<1> HIDE DEF RowsInv
<1>14. CASE trip[x].truck = t
  <2>1. SameHaul(x)
    BY <1>2, <1>14 DEF SameHaul, Moving
  <2>2. HauledBy' = HauledBy
    BY <2>1, <1>11, <1>13, RowsHaul, HaulUnchanged
  <2> QED  BY <2>2, <1>4, <1>11, <1>12 DEF HaulStep
<1>15. CASE trip[x].truck # t
  <2>1. \A y \in Trips : trip[y].status \in Moving => trip[y].truck # t
    BY <1>6, <1>15
  <2>2. trip'[x].status \in Moving
    BY <1>2 DEF Moving
  <2>3. Haul!Take(l, t)
    BY <1>1, <1>2, <1>5, <1>11, <1>13, <2>1, <2>2, RowsHaul, HaulTake
  <2> QED  BY <1>1, <1>4, <1>11, <1>12, <2>3 DEF HaulStep, Haul!HaulageNext
<1> QED  BY <1>14, <1>15

-----------------------------------------------------------------------------
(* Steps that leave trips and trucks of loads alone *)

\* What QuietRows and JobsKept say together.
LEMMA QuietOK ==
  ASSUME FreightInv, UNCHANGED <<assignedTruck, trip>>, DBTypeOK', RequestsWellFormed',
         \A l \in Loads : loadStatus'[l] = loadStatus[l] \/ loadStatus'[l] \notin Released,
         JobsInv'
  PROVE  StepOK
<1>1. RowsInv' /\ LegalStep /\ HaulStep
  BY Parts, QuietRows
<1>2. FreightInv'
  BY <1>1 DEF FreightInv, RowsInv, JobsInv, TypeOK
<1> QED  BY <1>1, <1>2 DEF StepOK

\* A handler has read what it needs and goes on with job j.
LEMMA ReadOnlyOK ==
  ASSUME FreightInv, NEW w \in Workers, NEW j \in JobRow,
         UNCHANGED dbVars, job' = [job EXCEPT ![w] = j], Knows(j), j.others = "uncounted"
  PROVE  StepOK
<1>1. Kept
  BY DEF Kept, dbVars
<1>2. JobsInv'
  BY <1>1, JobsKept DEF dbVars
<1>3. DBTypeOK' /\ RequestsWellFormed'
  BY DEF FreightInv, TypeOK, DBTypeOK, RequestsWellFormed, dbVars
<1> QED  BY <1>2, <1>3, QuietOK DEF dbVars

\* A handler puts its job down.
LEMMA AbortOK ==
  ASSUME FreightInv, NEW w \in Workers, Abort(w)
  PROVE  StepOK
<1>1. Idle \in JobRow /\ Knows(Idle) /\ Idle.others = "uncounted"
  BY DEF Idle, JobRow, Ops, Knows, TripOps, ServingOps
<1> QED  BY <1>1, ReadOnlyOK DEF Abort, Finish

\* A job that serves a request is of the type of jobs, and knows its request.
LEMMA ServingFits ==
  ASSUME FreightInv, NEW q \in Requests, NEW op \in ServingOps,
         NEW seen \in LoadStatuses \cup {Nil}, request[q].status # "NONE"
  PROVE  /\ Serving(q, op, seen) \in JobRow
         /\ Knows(Serving(q, op, seen))
         /\ Serving(q, op, seen).others = "uncounted"
<1>1. /\ request[q].load \in Loads \cup {Nil}
      /\ request[q].truck \in Trucks \cup {Nil}
      /\ request[q].kind \in RequestKinds \cup {Nil}
  BY DEF FreightInv, TypeOK, DBTypeOK, RequestRow
<1>2. op \in Ops /\ op \notin TripOps /\ op # "insertRequest"
  BY DEF ServingOps, Ops, TripOps
<1>3. q # Nil
  BY NilAssumption
<1> QED  BY <1>1, <1>2, <1>3 DEF Serving, JobRow, Knows

\* The reading half of the handlers that answer or book a request.
LEMMA BeginServeOK ==
  ASSUME FreightInv, NEW w \in Workers, NEW q \in Requests,
         \/ BeginApprove(w, q)
         \/ BeginReject(w, q)
         \/ BeginExpire(w, q)
         \/ BeginConfirm(w, q)
         \/ BeginDecline(w, q)
         \/ BeginAcceptTruck(w, q)
         \/ BeginAcceptProposal(w, q)
  PROVE  StepOK
<1>1. ASSUME NEW op \in ServingOps, NEW seen \in LoadStatuses \cup {Nil},
             UNCHANGED dbVars, request[q].status # "NONE",
             Start(w, Serving(q, op, seen))
      PROVE  StepOK
  BY <1>1, ServingFits, ReadOnlyOK DEF Start
<1>2. CASE BeginReject(w, q)
  <2>1. loadStatus[request[q].load] \in LoadStatuses
    BY <1>2 DEF BeginReject, FreightInv, TypeOK, DBTypeOK, RequestsWellFormed
  <2> QED  BY <1>1, <1>2, <2>1 DEF BeginReject, ServingOps
<1>3. CASE BeginApprove(w, q)
  BY <1>1, <1>3 DEF BeginApprove, ServingOps
<1>4. CASE BeginExpire(w, q)
  BY <1>1, <1>4 DEF BeginExpire, ServingOps
<1>5. CASE BeginConfirm(w, q)
  BY <1>1, <1>5 DEF BeginConfirm, ServingOps
<1>6. CASE BeginDecline(w, q)
  BY <1>1, <1>6 DEF BeginDecline, ServingOps
<1>7. CASE BeginAcceptTruck(w, q)
  BY <1>1, <1>7 DEF BeginAcceptTruck, MayAccept, ServingOps
<1>8. CASE BeginAcceptProposal(w, q)
  BY <1>1, <1>8 DEF BeginAcceptProposal, MayAccept, ServingOps
<1> QED  BY <1>2, <1>3, <1>4, <1>5, <1>6, <1>7, <1>8

\* The reading half of the handlers that create a request.
LEMMA BeginCreateOK ==
  ASSUME FreightInv, NEW w \in Workers, NEW l \in Loads, NEW t \in Trucks,
         \/ BeginLoadRequest(w, l, t)
         \/ BeginTruckRequest(w, l, t)
         \/ BeginProposal(w, l, t)
  PROVE  StepOK
<1>1. PICK kind \in RequestKinds : Start(w, Creating(kind, l, t)) /\ UNCHANGED dbVars
  BY DEF BeginLoadRequest, BeginTruckRequest, BeginProposal, RequestKinds
<1>2. loadStatus[l] \in LoadStatuses
  BY DEF FreightInv, TypeOK, DBTypeOK
<1>3. /\ Creating(kind, l, t) \in JobRow
      /\ Knows(Creating(kind, l, t))
      /\ Creating(kind, l, t).others = "uncounted"
  BY <1>2 DEF Creating, JobRow, Ops, Knows, TripOps, ServingOps
<1> QED  BY <1>1, <1>3, ReadOnlyOK DEF Start

\* The row of a new request; its handler ends or goes on to mark the load.
LEMMA InsertOK ==
  ASSUME FreightInv, NEW w \in Workers, InsertRequest(w)
  PROVE  StepOK
<1>1. PICK q \in Requests :
        /\ request[q].status = "NONE"
        /\ request' = [request EXCEPT
             ![q] = [kind |-> job[w].kind, status |-> "PENDING",
                     load |-> job[w].load, truck |-> job[w].truck]]
  BY DEF InsertRequest, InsertRow
<1>2. job[w] \in JobRow /\ Knows(job[w]) /\ job[w].op = "insertRequest"
  BY DEF InsertRequest, InsertRow, FreightInv, TypeOK, JobsKnow
<1>3. /\ job[w].load \in Loads /\ job[w].truck \in Trucks
      /\ job[w].kind \in RequestKinds \cup {Nil}
  BY <1>2 DEF Knows, JobRow
<1>4. UNCHANGED <<loadStatus, assignedTruck, podSubmitted, trip, available, posting>>
  BY DEF InsertRequest, InsertRow, loadVars, truckVars
<1>5. DBTypeOK'
  <2>1. request' \in [Requests -> RequestRow]
    BY <1>1, <1>3 DEF FreightInv, TypeOK, DBTypeOK, RequestRow, RequestStatuses
  <2> QED  BY <2>1, <1>4 DEF FreightInv, TypeOK, DBTypeOK
<1>6. RequestsWellFormed' /\ Kept
  BY <1>1, <1>3, <1>4 DEF FreightInv, TypeOK, DBTypeOK, RequestsWellFormed, Kept
<1>7. JobsInv'
  <2>1. CASE Finish(w)
    BY <2>1, <1>4, <1>6, JobEnds
  <2>2. CASE Continue(w, [job[w] EXCEPT !.op = "markLoad"])
    <3> DEFINE j == [job[w] EXCEPT !.op = "markLoad"]
    <3>1. /\ j \in JobRow /\ j.op = "markLoad" /\ j.req = job[w].req
          /\ j.others = job[w].others
      BY <1>2 DEF JobRow, Ops
    <3>2. job[w].others = "uncounted"
      BY <1>2 DEF FreightInv, CountedHoldRow, TripOps
    <3>3. Knows(j)
      BY <1>2, <3>1 DEF Knows, TripOps, ServingOps
    <3> HIDE DEF j
    <3>4. job' = [job EXCEPT ![w] = j]
      BY <2>2 DEF Continue, j
    <3> QED  BY <1>4, <1>6, <3>1, <3>2, <3>3, <3>4, JobsKept
  <2> QED  BY <2>1, <2>2 DEF InsertRequest, InsertRow
<1> QED  BY <1>4, <1>5, <1>6, <1>7, QuietOK

\* A request keeps its load and truck when its status is written.
LEMMA RequestWritten ==
  ASSUME FreightInv, NEW q \in Requests, NEW s \in RequestStatuses,
         request[q].status # "NONE", SetRequest(q, s)
  PROVE  /\ request' \in [Requests -> RequestRow]
         /\ RequestsWellFormed'
         /\ \A r \in Requests : request[r].status # "NONE" => request'[r].status # "NONE"
BY DEF FreightInv, TypeOK, DBTypeOK, RequestsWellFormed, SetRequest, RequestRow, RequestStatuses

\* One load at most is put on the market.
Marketed ==
  \/ UNCHANGED loadStatus
  \/ \E l \in Loads, s \in Bookable : loadStatus' = [loadStatus EXCEPT ![l] = s]

\* What that means for all loads.
LEMMA MarketedLoads ==
  ASSUME FreightInv, Marketed
  PROVE  /\ loadStatus' \in [Loads -> LoadStatuses]
         /\ \A l \in Loads : loadStatus'[l] = loadStatus[l] \/ loadStatus'[l] \notin Released
BY DEF FreightInv, TypeOK, DBTypeOK, Marketed, Bookable, LoadStatuses, Released

\* Reopening a load is such a write.
LEMMA ReopenMarkets ==
  ASSUME FreightInv, NEW q \in Requests, request[q].status # "NONE", ReopenIfUnrequested(q)
  PROVE  Marketed
BY DEF FreightInv, RequestsWellFormed, ReopenIfUnrequested, ReopenLoad, Bookable, Marketed

\* A handler that serves a request knows one that exists.
LEMMA ServedExists ==
  ASSUME FreightInv, NEW w \in Workers, job[w].op \in ServingOps
  PROVE  /\ job[w].req \in Requests
         /\ request[job[w].req].status # "NONE"
BY DEF FreightInv, TypeOK, JobRow, JobsKnow, Knows

\* A handler writes requests and a load's status and ends.
LEMMA AnswerOK ==
  ASSUME FreightInv, NEW w \in Workers, Finish(w), Marketed,
         UNCHANGED <<assignedTruck, podSubmitted, trip, available, posting>>,
         request' \in [Requests -> RequestRow], RequestsWellFormed',
         \A r \in Requests : request[r].status # "NONE" => request'[r].status # "NONE"
  PROVE  StepOK
<1>1. Kept
  BY DEF Kept
<1>2. JobsInv'
  BY <1>1, JobEnds
<1>3. DBTypeOK'
  BY MarketedLoads DEF FreightInv, TypeOK, DBTypeOK
<1> QED  BY <1>2, <1>3, MarketedLoads, QuietOK

\* Writing the status of a load that may be missing puts one load at most on the market.
LEMMA WriteMarkets ==
  ASSUME FreightInv, NEW l \in Loads \cup {Nil}, NEW s \in Bookable,
         loadStatus' = [loadStatus EXCEPT ![l] = s]
  PROVE  Marketed
<1>1. CASE l \in Loads
  BY <1>1 DEF Marketed
<1>2. CASE l \notin Loads
  <2>1. loadStatus' = loadStatus
    BY <1>2 DEF FreightInv, TypeOK, DBTypeOK
  <2> QED  BY <2>1 DEF Marketed
<1> QED  BY <1>1, <1>2

\* The commits of a respond or decline handler, one case each.
LEMMA AnswerCommitsOK ==
  ASSUME FreightInv, NEW w \in Workers,
         \/ CommitApprove(w)
         \/ RejectLoadRequest(w)
         \/ RejectTruckRequest(w)
         \/ RejectProposal(w)
         \/ CommitExpire(w)
         \/ CommitDecline(w)
  PROVE  StepOK
<1> DEFINE q == job[w].req
<1>1. q \in Requests /\ request[q].status # "NONE"
  BY ServedExists DEF ServingOps, CommitApprove, RejectLoadRequest, RejectTruckRequest,
     RejectProposal, CommitExpire, CommitDecline
<1>2. ASSUME NEW s \in RequestStatuses, SetRequest(q, s), Finish(w), Marketed,
             UNCHANGED <<assignedTruck, podSubmitted, trip, available, posting>>
      PROVE  StepOK
  BY <1>1, <1>2, RequestWritten, AnswerOK
<1>3. CASE CommitApprove(w)
  BY <1>2, <1>3 DEF CommitApprove, Marketed, RequestStatuses, loadVars, truckVars
<1>4. CASE CommitExpire(w)
  BY <1>2, <1>4 DEF CommitExpire, Marketed, RequestStatuses, loadVars, truckVars
<1>5. CASE RejectProposal(w)
  BY <1>2, <1>5 DEF RejectProposal, Marketed, RequestStatuses, loadVars, truckVars
<1>6. CASE RejectLoadRequest(w)
  BY <1>1, <1>2, <1>6, ReopenMarkets DEF RejectLoadRequest, RequestStatuses, truckVars
<1>7. CASE CommitDecline(w)
  BY <1>1, <1>2, <1>7, ReopenMarkets DEF CommitDecline, RequestStatuses, truckVars
<1>8. CASE RejectTruckRequest(w)
  <2>1. job[w].load \in Loads \cup {Nil}
    BY DEF FreightInv, TypeOK, JobRow
  <2>2. Marketed
    <3>1. CASE loadStatus' = loadStatus
      BY <3>1 DEF Marketed
    <3>2. CASE loadStatus' = [loadStatus EXCEPT ![job[w].load] = "POSTED"]
      BY <2>1, <3>2, WriteMarkets DEF Bookable
    <3> QED  BY <1>8, <3>1, <3>2 DEF RejectTruckRequest
  <2> QED  BY <1>2, <1>8, <2>2 DEF RejectTruckRequest, RequestStatuses, truckVars
<1> QED  BY <1>3, <1>4, <1>5, <1>6, <1>7, <1>8

\* A load is marked SEARCHING or OFFERED, whatever has become of it.
LEMMA MarkOK ==
  ASSUME FreightInv, NEW w \in Workers, MarkSearching(w) \/ MarkOffered(w)
  PROVE  StepOK
<1>1. PICK s \in {"SEARCHING", "OFFERED"}, kind \in RequestKinds : MarkLoad(w, kind, s)
  BY DEF MarkSearching, MarkOffered, RequestKinds
<1>2. job[w].load \in Loads \cup {Nil}
  BY DEF FreightInv, TypeOK, JobRow
<1>3. Marketed
  BY <1>1, <1>2, WriteMarkets DEF MarkLoad, Bookable
<1>4. request' \in [Requests -> RequestRow] /\ RequestsWellFormed'
  BY <1>1 DEF MarkLoad, FreightInv, TypeOK, DBTypeOK, RequestsWellFormed
<1> QED  BY <1>1, <1>3, <1>4, AnswerOK DEF MarkLoad, truckVars

\* The load of a withdrawn request goes back on the market, if nobody asks for it.
LEMMA ReopenOK ==
  ASSUME FreightInv, NEW w \in Workers, ReopenAfterCancel(w)
  PROVE  StepOK
<1>1. job[w].req \in Requests /\ request[job[w].req].status # "NONE"
  BY ServedExists DEF ReopenAfterCancel, ServingOps
<1>2. Marketed
  BY <1>1, ReopenMarkets DEF ReopenAfterCancel
<1>3. request' \in [Requests -> RequestRow] /\ RequestsWellFormed'
  BY DEF ReopenAfterCancel, FreightInv, TypeOK, DBTypeOK, RequestsWellFormed
<1> QED  BY <1>2, <1>3, AnswerOK DEF ReopenAfterCancel, truckVars

\* A carrier withdraws its request, and goes on to reopen the load.
LEMMA CancelRequestOK ==
  ASSUME FreightInv, NEW w \in Workers, NEW q \in Requests, CancelLoadRequest(w, q)
  PROVE  StepOK
<1>1. request[q].status # "NONE"
  BY DEF CancelLoadRequest, OpenLoadRequests
<1>2. /\ request' \in [Requests -> RequestRow]
      /\ RequestsWellFormed'
      /\ \A r \in Requests : request[r].status # "NONE" => request'[r].status # "NONE"
  BY <1>1, RequestWritten DEF CancelLoadRequest, RequestStatuses
<1>3. UNCHANGED <<loadStatus, assignedTruck, podSubmitted, trip, available, posting>>
  BY DEF CancelLoadRequest, loadVars, truckVars
<1>4. Kept
  BY <1>2, <1>3 DEF Kept
<1>5. /\ Serving(q, "reopenLoad", Nil) \in JobRow
      /\ Knows(Serving(q, "reopenLoad", Nil))
      /\ Serving(q, "reopenLoad", Nil).others = "uncounted"
  BY <1>1, ServingFits DEF ServingOps
<1>6. JobsInv'
  BY <1>3, <1>4, <1>5, JobsKept DEF CancelLoadRequest, Start
<1>7. DBTypeOK'
  BY <1>2, <1>3 DEF FreightInv, TypeOK, DBTypeOK
<1> QED  BY <1>2, <1>3, <1>6, <1>7, QuietOK

\* The two steps that belong to no worker's handler.
LEMMA WorkerlessOK ==
  ASSUME FreightInv,
         \/ \E q \in Requests : CancelTruckRequest(q)
         \/ \E Q \in SUBSET Requests : CronExpire(Q)
  PROVE  StepOK
<1>1. UNCHANGED <<loadStatus, assignedTruck, podSubmitted, trip, available, posting, job>>
  BY DEF CancelTruckRequest, CronExpire, loadVars, truckVars
<1>2. /\ request' \in [Requests -> RequestRow]
      /\ RequestsWellFormed'
      /\ \A r \in Requests : request[r].status # "NONE" => request'[r].status # "NONE"
  <2>1. CASE \E q \in Requests : CancelTruckRequest(q)
    BY <2>1, RequestWritten DEF CancelTruckRequest, RequestStatuses
  <2>2. CASE \E Q \in SUBSET Requests : CronExpire(Q)
    <3>1. PICK Q \in SUBSET Requests : CronExpire(Q)
      BY <2>2
    <3>2. \A q \in Q : request[q].status = "PENDING"
      BY <3>1 DEF CronExpire
    <3>3. /\ request \in [Requests -> RequestRow]
          /\ request' = [q \in Requests |->
                           IF q \in Q THEN [request[q] EXCEPT !.status = "EXPIRED"]
                                      ELSE request[q]]
      BY <3>1 DEF CronExpire, FreightInv, TypeOK, DBTypeOK
    <3>4. \A q \in Requests :
            /\ request'[q] \in RequestRow
            /\ request'[q].load = request[q].load
            /\ request'[q].truck = request[q].truck
            /\ request[q].status # "NONE" <=> request'[q].status # "NONE"
      BY <3>2, <3>3 DEF RequestRow, RequestStatuses
    <3>5. request' \in [Requests -> RequestRow]
      BY <3>3, <3>4
    <3>6. RequestsWellFormed'
      BY <3>4 DEF RequestsWellFormed, FreightInv
    <3> QED  BY <3>4, <3>5, <3>6
  <2> QED  BY <2>1, <2>2
<1>3. JobsInv'
  BY <1>1, <1>2 DEF FreightInv, TypeOK, JobsInv, JobsKnow, Knows, JobRow,
     CountedHoldRow, Releases, RowFree, GuardHolds
<1>4. DBTypeOK'
  BY <1>1, <1>2 DEF FreightInv, TypeOK, DBTypeOK
<1> QED  BY <1>1, <1>2, <1>3, <1>4, QuietOK

-----------------------------------------------------------------------------
(* The three commits that book *)

\* A booking, with whatever other requests it voids.
LEMMA BookOK ==
  ASSUME FreightInv, NEW w \in Workers, NEW voided \in SUBSET Requests,
         \A r \in voided : request[r].status # "NONE",
         job[w].op \in ServingOps, Book(job[w].req, voided), Finish(w)
  PROVE  StepOK
<1> DEFINE q == job[w].req
<1>1. /\ q \in Requests
      /\ request[q].status # "NONE"
      /\ request[q].load \in Loads /\ request[q].truck \in Trucks
  BY ServedExists DEF FreightInv, RequestsWellFormed
<1>2. /\ BookLoad(request[q].load, request[q].truck)
      /\ TakeOffMarket(request[q].truck)
  BY DEF Book
<1>3. \A r \in Requests :
        /\ request'[r] \in RequestRow
        /\ request'[r].load = request[r].load
        /\ request'[r].truck = request[r].truck
        /\ request[r].status # "NONE" <=> request'[r].status # "NONE"
  BY <1>1 DEF Book, FreightInv, TypeOK, DBTypeOK, RequestRow, RequestStatuses
<1>4. request' \in [Requests -> RequestRow]
  BY <1>3 DEF Book
<1>5. RequestsWellFormed'
  BY <1>3 DEF FreightInv, RequestsWellFormed
<1>6. /\ RowsInv' /\ LegalStep /\ HaulStep
      /\ \A x \in Trips : trip[x].status # "NONE" => trip'[x] = trip[x]
  BY <1>1, <1>2, <1>4, <1>5, Parts, BookRows
<1>7. Kept
  BY <1>3, <1>6 DEF Kept
<1>8. \A v \in Workers : job[v].others # "uncounted"
        => trip'[job[v].trip].status = trip[job[v].trip].status
  BY <1>6 DEF FreightInv, CountedHoldRow, JobsKnow, Knows
<1>9. JobsInv'
  BY <1>7, <1>8, JobEnds
<1> QED  BY <1>6, <1>9 DEF StepOK, FreightInv, RowsInv, JobsInv, TypeOK

\* Confirmation and both kinds of acceptance are bookings of that shape.
LEMMA BookCommitsOK ==
  ASSUME FreightInv, NEW w \in Workers,
         CommitConfirm(w) \/ CommitAcceptTruck(w) \/ CommitAcceptProposal(w)
  PROVE  StepOK
<1>1. job[w].op \in ServingOps /\ Finish(w)
  BY DEF CommitConfirm, CommitAcceptTruck, CommitAcceptProposal, ServingOps
<1>2. PICK voided \in SUBSET Requests :
        /\ \A r \in voided : request[r].status # "NONE"
        /\ Book(job[w].req, voided)
  <2>1. CASE CommitConfirm(w)
    BY <2>1 DEF CommitConfirm, PendingForLoad, OpenLoadRequests
  <2>2. CASE CommitAcceptTruck(w)
    BY <2>2 DEF CommitAcceptTruck, PendingForLoad
  <2>3. CASE CommitAcceptProposal(w)
    BY <2>3 DEF CommitAcceptProposal, PendingForLoad
  <2> QED  BY <2>1, <2>2, <2>3
<1> QED  BY <1>1, <1>2, BookOK

-----------------------------------------------------------------------------
(* The trip handlers *)

\* Each Begin step takes a job that fits what it has just read.
LEMMA BeginTripOK ==
  ASSUME FreightInv, NEW w \in Workers, BeginStep(w)
  PROVE  StepOK
<1>1. UNCHANGED dbVars
  BY DEF BeginStep, BeginPatch, BeginCancelTrip, BeginConfirmDelivery,
     BeginVerifyPod, BeginUploadPod, BeginAutoClose, BeginReassign, BeginSubmitPod
<1>2. ASSUME NEW x \in Trips, NEW op \in TripOps,
             NEW next \in TripStatuses, NEW to \in Trucks \cup {Nil},
             Start(w, Handling(x, op, next, to)),
             trip[x].status \in Blocking,
             op = "patch" => next \in VALID_TRIP_TRANSITIONS[trip[x].status],
             op = "reassign" => to \in Trucks,
             op \in {"confirmDelivery", "uploadPod"} => trip[x].status = "DELIVERED"
      PROVE  StepOK
  <2>1. /\ trip[x].status \in TripStatuses
        /\ trip[x].status \notin {"NONE", "CANCELLED"}
        /\ trip[x].load \in Loads /\ trip[x].truck \in Trucks
    BY <1>2 DEF FreightInv, FreightRowsWellFormed, Blocking, TripStatuses
  <2>2. Handling(x, op, next, to) \in JobRow
    BY <2>1, <1>2 DEF Handling, JobRow, Ops, TripOps, TripStatuses, LoadStatuses
  <2>3. op \notin ServingOps /\ op # "insertRequest"
    BY DEF TripOps, ServingOps
  <2>4. Knows(Handling(x, op, next, to))
    BY <2>1, <2>3, <1>2 DEF Handling, Knows
  <2>5. /\ Handling(x, op, next, to).others = "uncounted"
        /\ job' = [job EXCEPT ![w] = Handling(x, op, next, to)]
    BY <1>2 DEF Handling, Start
  <2> QED  BY <2>2, <2>4, <2>5, <1>1, ReadOnlyOK
<1>3. ASSUME NEW x \in Trips, NEW status \in TripStatuses, BeginPatch(w, x, status)
      PROVE  StepOK
  <2>1. trip[x].status \in Blocking
    BY <1>3, Transitions DEF BeginPatch, TripStatuses, Blocking
  <2> QED  BY <2>1, <1>2, <1>3 DEF BeginPatch, TripOps
<1>4. ASSUME NEW x \in Trips, BeginCancelTrip(w, x) PROVE StepOK
  BY <1>2, <1>4 DEF BeginCancelTrip, TripOps, Blocking, TripStatuses
<1>5. ASSUME NEW x \in Trips, BeginConfirmDelivery(w, x) PROVE StepOK
  BY <1>2, <1>5 DEF BeginConfirmDelivery, TripOps, Blocking, TripStatuses
<1>6. ASSUME NEW x \in Trips, BeginUploadPod(w, x) PROVE StepOK
  BY <1>2, <1>6 DEF BeginUploadPod, TripOps, Blocking, TripStatuses
<1>7. ASSUME NEW x \in Trips, BeginAutoClose(w, x) PROVE StepOK
  BY <1>2, <1>7 DEF BeginAutoClose, Stuck, TripOps, Blocking, TripStatuses
<1>8. ASSUME NEW x \in Trips, NEW t \in Trucks, BeginReassign(w, x, t) PROVE StepOK
  BY <1>2, <1>8 DEF BeginReassign, TripOps, Blocking, TripStatuses
<1>9. ASSUME NEW l \in Loads, BeginSubmitPod(w, l) PROVE StepOK
  <2>1. job' = [job EXCEPT ![w] = Submitting(l)]
    BY <1>9 DEF BeginSubmitPod, Start
  <2>2. Submitting(l) \in JobRow
    BY DEF Submitting, JobRow, Ops
  <2>3. Knows(Submitting(l)) /\ Submitting(l).others = "uncounted"
    BY DEF Submitting, Knows, TripOps, ServingOps
  <2> QED  BY <2>1, <2>2, <2>3, <1>1, ReadOnlyOK
<1> QED
  BY <1>3, <1>4, <1>5, <1>6, <1>7, <1>8, <1>9 DEF BeginStep, BeginVerifyPod

\* The count takes the lock.
LEMMA CountOK ==
  ASSUME FreightInv, NEW w \in Workers, CountOthers(w)
  PROVE  StepOK
<1>1. UNCHANGED dbVars
  BY DEF CountOthers
<1>2. PICK n \in {"none", "some"} : job' = [job EXCEPT ![w] = [job[w] EXCEPT !.others = n]]
  <2> DEFINE others == BlockingTrips(job[w].truck) \ {job[w].trip}
  <2>1. job' = [job EXCEPT ![w] = [job[w] EXCEPT !.others = IF others = {} THEN "none" ELSE "some"]]
    BY DEF CountOthers, Continue
  <2> QED  BY <2>1
<1>3. job \in [Workers -> JobRow]
  BY DEF FreightInv, TypeOK
<1>4. job' \in [Workers -> JobRow]
  <2>1. [job[w] EXCEPT !.others = n] \in JobRow
    BY <1>3 DEF JobRow
  <2> QED  BY <2>1, <1>2, <1>3
<1>5. /\ job'[w].op = job[w].op /\ job'[w].req = job[w].req
      /\ job'[w].trip = job[w].trip /\ job'[w].load = job[w].load
      /\ job'[w].truck = job[w].truck /\ job'[w].seen = job[w].seen
      /\ job'[w].next = job[w].next /\ job'[w].to = job[w].to
      /\ job'[w].others = n
      /\ \A v \in Workers \ {w} : job'[v] = job[v]
  BY <1>2, <1>3 DEF JobRow
<1>6. JobsKnow'
  <2> SUFFICES ASSUME NEW v \in Workers PROVE Knows(job[v])'
    BY DEF JobsKnow
  <2>1. Knows(job[v])
    BY DEF FreightInv, JobsKnow
  <2> QED  BY <2>1, <1>1, <1>5 DEF Knows, dbVars
<1>7. CountedHoldRow'
  <2> SUFFICES ASSUME NEW v \in Workers, job'[v].others # "uncounted"
               PROVE  /\ job'[v].op \in TripOps
                      /\ Releases(v)'
                      /\ RowFree(v)'
                      /\ GuardHolds(v)'
    BY DEF CountedHoldRow
  <2>1. CASE v = w
    <3>1. job[w].op \in TripOps /\ Releases(w) /\ RowFree(w) /\ GuardHolds(w)
      BY DEF CountOthers, Releases, TripOps
    <3>2. Releases(w)'
      BY <3>1, <1>5 DEF Releases
    <3>3. GuardHolds(w)'
      BY <3>1, <1>1, <1>5 DEF GuardHolds, dbVars
    <3>4. RowFree(w)'
      BY <3>1, <1>5 DEF RowFree
    <3> QED  BY <2>1, <3>1, <3>2, <3>3, <3>4, <1>5
  <2>2. CASE v # w
    <3>1. job'[v] = job[v] /\ job[v].others # "uncounted"
      BY <2>2, <1>5
    <3>2. job[v].op \in TripOps /\ Releases(v) /\ RowFree(v) /\ GuardHolds(v)
      BY <3>1 DEF FreightInv, CountedHoldRow
    <3>3. Releases(v)' /\ GuardHolds(v)'
      BY <3>1, <3>2, <1>1 DEF Releases, GuardHolds, dbVars
    <3>4. job[w].trip # job[v].trip
      BY <2>2, <3>1 DEF CountOthers, RowFree
    <3>5. RowFree(v)'
      BY <3>2, <3>4, <1>5 DEF RowFree
    <3> QED  BY <3>1, <3>2, <3>3, <3>5
  <2> QED  BY <2>1, <2>2
<1>8. DBTypeOK' /\ RequestsWellFormed'
  BY <1>1 DEF FreightInv, TypeOK, DBTypeOK, RequestsWellFormed, dbVars
<1> QED  BY <1>1, <1>4, <1>6, <1>7, <1>8, QuietOK DEF JobsInv, dbVars

\* What a handler gives back is of its columns' types.
LEMMA ReleasedTypes ==
  ASSUME FreightInv, NEW w \in Workers
  PROVE  AvailableAfter(w) \in [Trucks -> BOOLEAN]
           /\ PostingAfter(w) \in [Trucks -> PostingStatuses]
BY DEF FreightInv, TypeOK, DBTypeOK, AvailableAfter, PostingAfter, PostingStatuses

\* A handler that is alone at the row of a trip whose guard holds knows its load,
\* and what it was asked for is legal.
LEMMA Holding ==
  ASSUME FreightInv, NEW w \in Workers, job[w].op \in TripOps,
         RowFree(w), GuardHolds(w)
  PROVE  LET x == job[w].trip
             status == trip[x].status
         IN  /\ x \in Trips
             /\ \A v \in Workers \ {w} : job[v].trip = x => job[v].others = "uncounted"
             /\ status \in TripStatuses \ {"CANCELLED"}
             /\ job[w].load = trip[x].load
             /\ job[w].op = "patch" => job[w].next \in VALID_TRIP_TRANSITIONS[status]
             /\ job[w].op = "cancelTrip" => status \in {"ASSIGNED", "PICKUP_PENDING"}
             /\ job[w].op = "reassign" => status = "EXCEPTION" /\ job[w].to \in Trucks
             /\ job[w].op \in {"confirmDelivery", "uploadPod", "autoClose"}
                  => status \in {"DELIVERED", "COMPLETED"}
<1>1. Knows(job[w])
  BY DEF FreightInv, JobsKnow
<1>2. /\ job[w].trip \in Trips
      /\ trip[job[w].trip].status # "NONE"
      /\ job[w].op = "patch" => /\ job[w].seen \in TripStatuses
                                /\ job[w].next \in VALID_TRIP_TRANSITIONS[job[w].seen]
      /\ job[w].op = "reassign" => job[w].to \in Trucks
      /\ job[w].op \in {"confirmDelivery", "uploadPod"}
           => trip[job[w].trip].status \in {"DELIVERED", "COMPLETED"}
      /\ trip[job[w].trip].status # "CANCELLED" => trip[job[w].trip].load = job[w].load
  BY <1>1 DEF Knows
<1>3. trip[job[w].trip].status \in TripStatuses
  BY <1>2 DEF FreightInv, TypeOK, DBTypeOK, TripRow
<1>4. \A v \in Workers \ {w} : job[v].trip = job[w].trip => job[v].others = "uncounted"
  BY DEF RowFree
<1>5. /\ job[w].op = "patch" => trip[job[w].trip].status = job[w].seen
      /\ job[w].op = "cancelTrip" => trip[job[w].trip].status \in {"ASSIGNED", "PICKUP_PENDING"}
      /\ job[w].op = "autoClose" => trip[job[w].trip].status = "DELIVERED"
      /\ job[w].op = "reassign" => trip[job[w].trip].status = "EXCEPTION"
  BY DEF GuardHolds
<1>6. trip[job[w].trip].status # "CANCELLED"
  BY <1>2, <1>5, Transitions DEF TripOps
<1> QED  BY <1>2, <1>3, <1>4, <1>5, <1>6

\* A handler writes its trip and what belongs to it, and ends.
LEMMA WriteOK ==
  ASSUME FreightInv, NEW w \in Workers, NEW x \in Trips,
         \A v \in Workers \ {w} : job[v].trip = x => job[v].others = "uncounted",
         Finish(w), UNCHANGED request, RowsInv' /\ Moves(x) /\ LegalStep /\ HaulStep
  PROVE  StepOK
<1>1. Kept
  BY MovesKept
<1>2. \A v \in Workers \ {w} : job[v].others # "uncounted"
        => trip'[job[v].trip].status = trip[job[v].trip].status
  BY DEF FreightInv, CountedHoldRow, JobsKnow, Knows, Moves
<1>3. JobsInv'
  BY <1>1, <1>2, JobEnds
<1> QED  BY <1>3 DEF StepOK, FreightInv, RowsInv, JobsInv, TypeOK

\* The handlers that complete a trip, POD or not.
LEMMA CompleteOK ==
  ASSUME FreightInv, NEW w \in Workers, job[w].op \in TripOps, RowFree(w), GuardHolds(w),
         \/ job[w].op \in {"confirmDelivery", "uploadPod", "autoClose"}
         \/ job[w].op = "patch" /\ job[w].next = "COMPLETED",
         Complete(w), podSubmitted' \in [Loads -> BOOLEAN]
  PROVE  StepOK
<1> DEFINE x == job[w].trip
<1>1. /\ x \in Trips
      /\ \A v \in Workers \ {w} : job[v].trip = x => job[v].others = "uncounted"
      /\ trip[x].status \in TripStatuses \ {"CANCELLED"}
      /\ job[w].load = trip[x].load
      /\ \/ "COMPLETED" \in VALID_TRIP_TRANSITIONS[trip[x].status]
         \/ "COMPLETED" = trip[x].status
  BY Holding, Transitions
<1>2. available' \in [Trucks -> BOOLEAN] /\ posting' \in [Trucks -> PostingStatuses]
  BY ReleasedTypes DEF Complete, ReleaseTruck
<1>3. /\ trip' = [trip EXCEPT ![x].status = "COMPLETED"]
      /\ loadStatus' = [loadStatus EXCEPT ![trip[x].load] = "COMPLETED"]
      /\ Finish(w)
      /\ UNCHANGED <<assignedTruck, request>>
  BY <1>1 DEF Complete
<1>4. "COMPLETED" \in TripStatuses \ {"CANCELLED"}
  BY DEF TripStatuses
<1> HIDE DEF x
<1>5. RowsInv' /\ Moves(x) /\ LegalStep /\ HaulStep
  BY <1>1, <1>2, <1>3, <1>4, Parts, MoveRows
<1> QED  BY <1>1, <1>3, <1>5, WriteOK

\* The handlers that cancel a trip.
LEMMA CancelOK ==
  ASSUME FreightInv, NEW w \in Workers, job[w].op \in TripOps, RowFree(w), GuardHolds(w),
         job[w].op = "cancelTrip" \/ (job[w].op = "patch" /\ job[w].next = "CANCELLED"),
         Cancel(w)
  PROVE  StepOK
<1> DEFINE x == job[w].trip
<1>1. /\ x \in Trips
      /\ \A v \in Workers \ {w} : job[v].trip = x => job[v].others = "uncounted"
      /\ trip[x].status \in TripStatuses
      /\ job[w].load = trip[x].load
      /\ "CANCELLED" \in VALID_TRIP_TRANSITIONS[trip[x].status]
  BY Holding, Transitions
<1>2. available' \in [Trucks -> BOOLEAN] /\ posting' \in [Trucks -> PostingStatuses]
  BY ReleasedTypes DEF Cancel, ReleaseTruck
<1>3. /\ trip' = [trip EXCEPT ![x] =
                     [status |-> "CANCELLED", load |-> Nil, truck |-> trip[x].truck]]
      /\ loadStatus' = [loadStatus EXCEPT ![trip[x].load] = "POSTED"]
      /\ assignedTruck' = [assignedTruck EXCEPT ![trip[x].load] = Nil]
      /\ Finish(w)
      /\ UNCHANGED <<podSubmitted, request>>
  BY <1>1 DEF Cancel
<1> HIDE DEF x
<1>4. RowsInv' /\ Moves(x) /\ LegalStep /\ HaulStep
  BY <1>1, <1>2, <1>3, Parts, CancelRows
<1> QED  BY <1>1, <1>3, <1>4, WriteOK

\* The handler that gives a trip another truck.
LEMMA ReassignOK ==
  ASSUME FreightInv, NEW w \in Workers, CommitReassign(w)
  PROVE  StepOK
<1> DEFINE x == job[w].trip
           t == job[w].to
<1>1. /\ x \in Trips
      /\ \A v \in Workers \ {w} : job[v].trip = x => job[v].others = "uncounted"
      /\ job[w].load = trip[x].load
      /\ trip[x].status = "EXCEPTION"
      /\ t \in Trucks
  <2>1. job[w].op = "reassign" /\ RowFree(w) /\ GuardHolds(w)
    BY DEF CommitReassign, WriteReassign, Counted, FreightInv, CountedHoldRow
  <2> QED  BY <2>1, Holding DEF TripOps
<1>2. /\ \A k \in Loads \ {trip[x].load} : assignedTruck[k] # t
      /\ trip' = [trip EXCEPT ![x] =
                     [status |-> "IN_TRANSIT", load |-> trip[x].load, truck |-> t]]
      /\ loadStatus' = [loadStatus EXCEPT ![trip[x].load] = "IN_TRANSIT"]
      /\ assignedTruck' = [assignedTruck EXCEPT ![trip[x].load] = t]
      /\ available' = [AvailableAfter(w) EXCEPT ![t] = FALSE]
      /\ posting' = [PostingAfter(w) EXCEPT ![t] = IF @ = "ACTIVE" THEN "MATCHED" ELSE @]
      /\ Finish(w)
      /\ UNCHANGED <<podSubmitted, request>>
  BY <1>1 DEF CommitReassign, WriteReassign
<1>3. available' \in [Trucks -> BOOLEAN] /\ posting' \in [Trucks -> PostingStatuses]
  BY <1>2, ReleasedTypes DEF PostingStatuses
<1> HIDE DEF x, t
<1>4. RowsInv' /\ Moves(x) /\ LegalStep /\ HaulStep
  BY <1>1, <1>2, <1>3, Parts, ReassignRows
<1> QED  BY <1>1, <1>2, <1>4, WriteOK

\* A transition that keeps the truck.
LEMMA PatchOK ==
  ASSUME FreightInv, NEW w \in Workers, CommitPatch(w)
  PROVE  StepOK
<1> DEFINE x == job[w].trip
           s == job[w].next
<1>1. /\ x \in Trips
      /\ \A v \in Workers \ {w} : job[v].trip = x => job[v].others = "uncounted"
      /\ trip[x].status \in TripStatuses \ {"CANCELLED"}
      /\ job[w].load = trip[x].load
      /\ s \in VALID_TRIP_TRANSITIONS[trip[x].status]
  BY Holding DEF CommitPatch, TripOps
<1>2. s \in TripStatuses \ {"CANCELLED"}
  BY <1>1, Transitions DEF CommitPatch, Releases, TerminalTrip
<1>3. /\ trip' = [trip EXCEPT ![x].status = s]
      /\ loadStatus' = [loadStatus EXCEPT ![trip[x].load] = s]
      /\ Finish(w)
      /\ UNCHANGED <<assignedTruck, podSubmitted, request, available, posting>>
  BY <1>1 DEF CommitPatch, truckVars
<1>4. /\ podSubmitted' \in [Loads -> BOOLEAN]
      /\ available' \in [Trucks -> BOOLEAN]
      /\ posting' \in [Trucks -> PostingStatuses]
  BY <1>3 DEF FreightInv, TypeOK, DBTypeOK
<1> HIDE DEF x, s
<1>5. RowsInv' /\ Moves(x) /\ LegalStep /\ HaulStep
  BY <1>1, <1>2, <1>3, <1>4, Parts, MoveRows
<1> QED  BY <1>1, <1>3, <1>5, WriteOK

\* The carrier's POD.
LEMMA SubmitPodOK ==
  ASSUME FreightInv, NEW w \in Workers, CommitSubmitPod(w)
  PROVE  StepOK
<1>1. /\ podSubmitted' = [podSubmitted EXCEPT ![job[w].load] = TRUE]
      /\ Finish(w)
      /\ UNCHANGED <<loadStatus, assignedTruck, trip, request, available, posting>>
  BY DEF CommitSubmitPod, truckVars
<1>2. DBTypeOK' /\ RequestsWellFormed'
  BY <1>1 DEF FreightInv, TypeOK, DBTypeOK, RequestsWellFormed
<1>3. Kept
  BY <1>1 DEF Kept
<1>4. JobsInv'
  BY <1>1, <1>3, JobEnds
<1> QED  BY <1>1, <1>2, <1>4, QuietOK

\* A handler that has counted others still holds its row, and its guard holds.
LEMMA CountedHolds ==
  ASSUME FreightInv, NEW w \in Workers, NEW op \in TripOps, Counted(w, op)
  PROVE  job[w].op \in TripOps /\ RowFree(w) /\ GuardHolds(w)
BY DEF Counted, FreightInv, CountedHoldRow

\* Every Commit step of a trip handler.
LEMMA CommitOK ==
  ASSUME FreightInv, NEW w \in Workers, CommitStep(w)
  PROVE  StepOK
<1>1. podSubmitted \in [Loads -> BOOLEAN]
  BY DEF FreightInv, TypeOK, DBTypeOK
<1>2. CASE CommitPatch(w)
  BY <1>2, PatchOK
<1>3. CASE CommitPatchCompleted(w)
  BY <1>1, <1>3, CountedHolds, CompleteOK DEF CommitPatchCompleted, Counted, TripOps
<1>4. CASE CommitPatchCancelled(w)
  BY <1>4, CountedHolds, CancelOK DEF CommitPatchCancelled, Counted, TripOps
<1>5. CASE CommitCancelTrip(w)
  BY <1>5, CountedHolds, CancelOK DEF CommitCancelTrip, Counted, TripOps
<1>6. CASE CommitConfirmDelivery(w)
  BY <1>1, <1>6, CountedHolds, CompleteOK DEF CommitConfirmDelivery, Counted, TripOps
<1>7. CASE CommitUploadPod(w)
  <2>1. podSubmitted' \in [Loads -> BOOLEAN]
    BY <1>1, <1>7 DEF CommitUploadPod
  <2> QED  BY <1>7, <2>1, CountedHolds, CompleteOK DEF CommitUploadPod, Counted, TripOps
<1>8. CASE CommitAutoClose(w)
  BY <1>1, <1>8, CountedHolds, CompleteOK DEF CommitAutoClose, Counted, TripOps
<1>9. CASE CommitReassign(w)
  BY <1>9, ReassignOK
<1>10. CASE CommitSubmitPod(w)
  BY <1>10, SubmitPodOK
<1> QED
  BY <1>2, <1>3, <1>4, <1>5, <1>6, <1>7, <1>8, <1>9, <1>10 DEF CommitStep

-----------------------------------------------------------------------------
(* Every step *)

\* The steps of Booking.
LEMMA BookingStepOK ==
  ASSUME FreightInv, BookingNext
  PROVE  StepOK
<1>1. ASSUME NEW w \in Workers, CreateStep(w) PROVE StepOK
  BY <1>1, BeginCreateOK, InsertOK, MarkOK DEF CreateStep
<1>2. ASSUME NEW w \in Workers, AnswerStep(w) PROVE StepOK
  BY <1>2, BeginServeOK, CancelRequestOK, AnswerCommitsOK, ReopenOK DEF AnswerStep
<1>3. ASSUME NEW w \in Workers, BookStep(w) PROVE StepOK
  BY <1>3, BeginServeOK, BookCommitsOK, AnswerCommitsOK DEF BookStep
<1> QED  BY <1>1, <1>2, <1>3, AbortOK, WorkerlessOK DEF BookingNext

\* The steps of both, stuttering included.
LEMMA FreightStepOK == FreightInv /\ [FreightNext]_vars => StepOK
<1> SUFFICES ASSUME FreightInv, [FreightNext]_vars PROVE StepOK
  OBVIOUS
<1>1. CASE BookingNext
  BY <1>1, BookingStepOK
<1>2. CASE TripNext
  BY <1>2, BeginTripOK, CountOK, CommitOK, AbortOK DEF TripNext
<1>3. CASE UNCHANGED vars
  <2>1. JobsInv'
    BY <1>3, Parts DEF vars, JobsInv, JobsKnow, Knows, CountedHoldRow, Releases,
       RowFree, GuardHolds
  <2>2. DBTypeOK' /\ RequestsWellFormed'
    BY <1>3 DEF vars, FreightInv, TypeOK, DBTypeOK, RequestsWellFormed
  <2> QED  BY <1>3, <2>1, <2>2, QuietOK DEF vars
<1> QED  BY <1>1, <1>2, <1>3 DEF FreightNext

-----------------------------------------------------------------------------
(* Theorems *)

\* FreightInv always holds, whatever handlers of bookings and trips race.
THEOREM FreightInvariant == FreightSpec => []FreightInv
<1>1. FreightInv /\ [FreightNext]_vars => FreightInv'
  BY FreightStepOK DEF StepOK
<1> QED  BY FreightInitInv, <1>1, PTL DEF FreightSpec

\* Load.assignedTruckId names the truck of the load's moving trip, across
\* cancellations, reassignments, rebookings and the stale writes of their handlers.
THEOREM MovingTripsAgree == FreightSpec => []MovingTripAgrees
<1>1. FreightInv => MovingTripAgrees
  BY DEF FreightInv
<1> QED  BY <1>1, FreightInvariant, PTL

\* No handler revives an ended trip or skips a status.
THEOREM FreightStepsAreLegal == FreightSpec => FreightStepsLegal
<1>1. FreightInv /\ [FreightNext]_vars => [LegalStep]_vars
  BY FreightStepOK DEF StepOK
<1> QED  BY <1>1, FreightInvariant, PTL DEF FreightSpec, FreightStepsLegal, LegalStep

\* The whole implements Haulage: a truck moves one load at a time, although three
\* handlers book, one reassigns and five release without a lock in common.
THEOREM FreightImplementsHaulage == FreightSpec => FreightOneLoadAtATime
<1>1. DBInit => Haul!HaulageInit
  <2> SUFFICES ASSUME DBInit PROVE Haul!HaulageInit
    OBVIOUS
  <2>1. TripUnique /\ MovingRows
    BY FreightInitInv DEF FreightInv, FreightRowsWellFormed, MovingRows, Moving
  <2>2. HauledByIs
    BY <2>1, Hauled
  <2>3. \A l \in Loads : HauledBy[l] = Nil
    BY <2>2 DEF HauledByIs, DBInit, NoTripRow, Moving
  <2> QED  BY <2>2, <2>3 DEF Haul!HaulageInit, HauledByIs
<1>2. FreightInv /\ [FreightNext]_vars => [Haul!HaulageNext]_HauledBy
  BY FreightStepOK DEF StepOK, HaulStep
<1> QED
  BY <1>1, <1>2, FreightInvariant, PTL DEF FreightSpec, FreightOneLoadAtATime, Haul!HaulageSpec
=============================================================================
