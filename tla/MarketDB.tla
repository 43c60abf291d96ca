------------------------------- MODULE MarketDB -------------------------------
(***************************************************************************)
(* The marketplace rows that the booking and trip handlers share: loads,   *)
(* trips, requests, trucks and truck postings, as PostgreSQL holds them,   *)
(* with the row-level operations that several route handlers have in       *)
(* common.                                                                 *)
(*                                                                         *)
(* A route handler is an asynchronous function: it reads rows, decides,    *)
(* and writes rows in a later statement or transaction.  The database runs *)
(* at READ COMMITTED (lib/db.ts sets no isolation level), so other         *)
(* handlers commit between the read and the write.  `job' holds, for each  *)
(* worker, the handler it is serving and what that handler has read.       *)
(***************************************************************************)
EXTENDS Naturals, FiniteSets, StateMachines

CONSTANTS Loads,      \* Load rows
          Trucks,     \* Truck rows
          Requests,   \* ids of LoadRequest, TruckRequest and MatchProposal rows
          Trips,      \* ids of Trip rows
          Workers,    \* handler invocations in flight at the same time
          Nil         \* SQL NULL

ASSUME NilAssumption == Nil \notin Loads \cup Trucks \cup Requests \cup Trips

VARIABLES loadStatus,     \* Load.status
          assignedTruck,  \* Load.assignedTruckId
          podSubmitted,   \* Load.podSubmitted
          trip,           \* Trip rows: status, loadId, truckId
          request,        \* request rows: kind, status, loadId, truckId
          available,      \* Truck.isAvailable
          posting,        \* status of the truck's posting
          job             \* what each worker is doing

loadVars == <<loadStatus, assignedTruck, podSubmitted>>
truckVars == <<available, posting>>
dbVars == <<loadStatus, assignedTruck, podSubmitted, trip, request,
            available, posting>>
vars == <<loadStatus, assignedTruck, podSubmitted, trip, request,
          available, posting, job>>

-----------------------------------------------------------------------------
(* Enumerations of the schema, and rows *)

RequestStatuses == {"PENDING", "SHIPPER_APPROVED", "APPROVED", "REJECTED",
                    "EXPIRED", "CANCELLED"}

RequestKinds == {"LOAD", "TRUCK", "MATCH"}

PostingStatuses == {"ACTIVE", "MATCHED", "EXPIRED"}

\* A row that has not been inserted yet has status "NONE".
TripRow == [status : TripStatuses \cup {"NONE"},
            load : Loads \cup {Nil}, truck : Trucks \cup {Nil}]

RequestRow == [kind : RequestKinds \cup {Nil},
               status : RequestStatuses \cup {"NONE"},
               load : Loads \cup {Nil}, truck : Trucks \cup {Nil}]

NoTripRow == [status |-> "NONE", load |-> Nil, truck |-> Nil]
NoRequestRow == [kind |-> Nil, status |-> "NONE", load |-> Nil, truck |-> Nil]

\* Load statuses whose truck a booking takes away without asking.
Released == {"DELIVERED", "COMPLETED", "CANCELLED", "EXPIRED"}

\* A trip that has not delivered yet needs its truck.
Moving == {"ASSIGNED", "PICKUP_PENDING", "IN_TRANSIT", "EXCEPTION"}

-----------------------------------------------------------------------------
(* Workers *)

\* What a worker does next for the request it is serving.
Ops == {"idle",
        "insertRequest", "markLoad",
        "approve", "reject", "expire", "reopenLoad",
        "confirm", "decline", "accept",
        "patch", "cancelTrip", "confirmDelivery", "uploadPod", "autoClose",
        "reassign", "submitPod"}

\* `seen' is the status the handler read, `next' the one it was asked for, `to'
\* the truck it was asked for; `others' is its count of the other active trips
\* of its truck.  (Every TripStatus is also the name of a LoadStatus.)
JobRow == [op : Ops, req : Requests \cup {Nil}, trip : Trips \cup {Nil},
           load : Loads \cup {Nil}, truck : Trucks \cup {Nil},
           kind : RequestKinds \cup {Nil},
           seen : LoadStatuses \cup {Nil}, next : LoadStatuses \cup {Nil},
           to : Trucks \cup {Nil}, others : {"uncounted", "none", "some"}]

Idle == [op |-> "idle", req |-> Nil, trip |-> Nil, load |-> Nil,
         truck |-> Nil, kind |-> Nil, seen |-> Nil, next |-> Nil,
         to |-> Nil, others |-> "uncounted"]

Start(w, j) == job[w] = Idle /\ job' = [job EXCEPT ![w] = j]
Continue(w, j) == job' = [job EXCEPT ![w] = j]
Finish(w) == job' = [job EXCEPT ![w] = Idle]

(***************************************************************************)
(* The handler ends without a (further) effect: an exception is thrown, a  *)
(* unique index refuses a write and the transaction is rolled back, the    *)
(* transaction times out, or the process dies.                             *)
(***************************************************************************)
Abort(w) ==
  /\ job[w] # Idle
  /\ Finish(w)
  /\ UNCHANGED dbVars

-----------------------------------------------------------------------------
(* Queries and statements that several handlers share *)

BlockingTrips(t) == {x \in Trips : trip[x].truck = t /\ trip[x].status \in Blocking}

\* LoadRequest rows of a load that may still become a booking.
OpenLoadRequests(l) ==
  {q \in Requests : /\ request[q].kind = "LOAD"
                    /\ request[q].load = l
                    /\ request[q].status \in {"PENDING", "SHIPPER_APPROVED"}}

PendingRequests(kind, l, t) ==
  {q \in Requests : /\ request[q].kind = kind
                    /\ request[q].status = "PENDING"
                    /\ request[q].load = l
                    /\ request[q].truck = t}

\* The truck that moves a load, as the trip rows have it (see Haulage).
HauledBy ==
  LET moved(l) == {x \in Trips : trip[x].load = l /\ trip[x].status \in Moving}
  IN  [l \in Loads |-> IF moved(l) = {} THEN Nil
                       ELSE trip[CHOOSE x \in moved(l) : TRUE].truck]

Haul == INSTANCE Haulage WITH hauledBy <- HauledBy

\* Mutant of TruckAfterRelease: the updateMany without its status filter.
TruckTakenAway(t) == [l \in Loads |-> IF assignedTruck[l] = t THEN Nil ELSE assignedTruck[l]]

\* load.updateMany(assignedTruckId = t, status in Released -> null).
TruckAfterRelease(t) ==
  [l \in Loads |-> IF assignedTruck[l] = t /\ loadStatus[l] \in Released
                   THEN Nil ELSE assignedTruck[l]]

\* trip.updateMany(loadId = l, status CANCELLED -> loadId null).
TripsAfterDetach(l) ==
  [x \in Trips |-> IF trip[x].load = l /\ trip[x].status = "CANCELLED"
                   THEN [trip[x] EXCEPT !.load = Nil] ELSE trip[x]]

(***************************************************************************)
(* The statements every booking transaction contains: release the truck's  *)
(* finished loads, assign the load, detach cancelled trips and insert the  *)
(* new trip.                                                               *)
(***************************************************************************)
WriteBooking(l, t) ==
  /\ assignedTruck' = [TruckAfterRelease(t) EXCEPT ![l] = t]
  /\ loadStatus' = [loadStatus EXCEPT ![l] = "ASSIGNED"]
  /\ \E x \in Trips :
        /\ trip[x].status = "NONE"
        /\ trip' = [TripsAfterDetach(l) EXCEPT
                      ![x] = [status |-> "ASSIGNED", load |-> l, truck |-> t]]
  /\ UNCHANGED podSubmitted

\* Load.assignedTruckId and Trip.loadId are unique columns: a violation rolls
\* the transaction back.
BookLoad(l, t) ==
  /\ \A k \in Loads \ {l} : TruckAfterRelease(t)[k] # t
  /\ \A x \in Trips : TripsAfterDetach(l)[x].load # l
  /\ WriteBooking(l, t)

\* Mutant of TakeOffMarket: truck.isAvailable is left alone.
MatchPostingOnly(t) ==
  /\ posting' = [posting EXCEPT ![t] = IF @ = "ACTIVE" THEN "MATCHED" ELSE @]
  /\ UNCHANGED available

\* truckPosting.updateMany(ACTIVE -> MATCHED) and truck.isAvailable := false.
TakeOffMarket(t) ==
  /\ posting' = [posting EXCEPT ![t] = IF @ = "ACTIVE" THEN "MATCHED" ELSE @]
  /\ available' = [available EXCEPT ![t] = FALSE]

-----------------------------------------------------------------------------
DBTypeOK ==
  /\ loadStatus \in [Loads -> LoadStatuses]
  /\ assignedTruck \in [Loads -> Trucks \cup {Nil}]
  /\ podSubmitted \in [Loads -> BOOLEAN]
  /\ trip \in [Trips -> TripRow]
  /\ request \in [Requests -> RequestRow]
  /\ available \in [Trucks -> BOOLEAN]
  /\ posting \in [Trucks -> PostingStatuses]

\* Rows and jobs hold values of their columns' types.
TypeOK == DBTypeOK /\ job \in [Workers -> JobRow]

\* The unique index on Load.assignedTruckId.
TruckUnique ==
  \A l, k \in Loads : l # k /\ assignedTruck[l] # Nil => assignedTruck[l] # assignedTruck[k]

\* The unique index on Trip.loadId.
TripUnique ==
  \A x, y \in Trips : x # y /\ trip[x].load # Nil => trip[x].load # trip[y].load

\* Freshly posted loads and freshly posted trucks; nothing requested yet.
DBInit ==
  /\ loadStatus = [l \in Loads |-> "POSTED"]
  /\ assignedTruck = [l \in Loads |-> Nil]
  /\ podSubmitted = [l \in Loads |-> FALSE]
  /\ trip = [x \in Trips |-> NoTripRow]
  /\ request = [q \in Requests |-> NoRequestRow]
  /\ available = [t \in Trucks |-> TRUE]
  /\ posting = [t \in Trucks |-> "ACTIVE"]
  /\ job = [w \in Workers |-> Idle]
=============================================================================
