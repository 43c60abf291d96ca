------------------------------- MODULE LoadDesk -------------------------------
(***************************************************************************)
(* The handlers that go round requests and trips: the manual status of a   *)
(* load (loads/[id]/status, loads/[id], loads/[id]/escalations), direct    *)
(* assignment (loads/[id]/assign, trips, dispatch), the expiry of loads    *)
(* and the loads of a shipper that is rejected or revoked.  They work on   *)
(* the rows of Freight, while its handlers do.                             *)
(*                                                                         *)
(* As in Booking, a Begin step makes every read and check of a handler,    *)
(* and one step its writes.  A status that frees the truck is written in   *)
(* two: after its updates of load and trip, and so with both rows locked,  *)
(* the transaction counts the truck's other trips (CountTrips), and it     *)
(* commits later.  All of them write the load by id.  Who may ask for      *)
(* which status is left out: an administrator may for all.  Fees are in    *)
(* Settlement, drivers in Drivers.  The deletion of a load is left out,    *)
(* and so is the automation rule that writes any status.                   *)
(***************************************************************************)
EXTENDS Freight

CONSTANTS Desks,       \* handler invocations of this kind in flight at once
          MaxCalls     \* bound: how many of them there are in all

ASSUME MaxCallsAssumption == MaxCalls \in Nat

\* NULL is no status.
ASSUME StatusAssumption == Nil \notin LoadStatuses

VARIABLES desk,        \* what each of them has read and is going to do
          calls        \* how many have been called (bound)

deskVars == <<vars, desk, calls>>

DeskOps == {"none", "status", "edit", "assign", "createTrip", "dispatch",
            "expireOld", "unpost", "clearTruck", "clearLoad", "clearMatch"}

\* `held' is the truck of the load when it was read, `truck' the one asked for or,
\* for a status, that of the trip; `other' is the load that holds that truck, and
\* `others' the count of that truck's other active trips.
DeskRow == [op : DeskOps, load : Loads \cup {Nil}, seen : LoadStatuses \cup {Nil},
            held : Trucks \cup {Nil}, trip : Trips \cup {Nil},
            tripSeen : TripStatuses \cup {Nil}, next : LoadStatuses \cup {Nil},
            truck : Trucks \cup {Nil}, other : Loads \cup {Nil},
            others : {"uncounted", "none", "some"}]

NoDesk == [op |-> "none", load |-> Nil, seen |-> Nil, held |-> Nil, trip |-> Nil,
           tripSeen |-> Nil, next |-> Nil, truck |-> Nil, other |-> Nil,
           others |-> "uncounted"]

TripsOf(l) == {x \in Trips : trip[x].load = l}

\* Trip.loadId is unique.
TripOf(l) == IF TripsOf(l) = {} THEN Nil ELSE CHOOSE x \in TripsOf(l) : TRUE

TripTruck(l) == IF TripsOf(l) = {} THEN Nil ELSE trip[TripOf(l)].truck

HolderOf(t) ==
  LET holders == {k \in Loads : assignedTruck[k] = t}
  IN  IF t = Nil \/ holders = {} THEN Nil ELSE CHOOSE k \in holders : TRUE

\* A handler that has looked up load l.  Not all of them read as much; the rest
\* only tells whether what they saw is still so.
Reading(op, l, next, t) ==
  LET x == TripOf(l)
  IN  [op |-> op, load |-> l, seen |-> loadStatus[l], held |-> assignedTruck[l],
       trip |-> x, tripSeen |-> IF x = Nil THEN Nil ELSE trip[x].status,
       next |-> next, truck |-> t, other |-> HolderOf(t),
       others |-> "uncounted"]

Sit(d, op, l, next, t) ==
  /\ desk[d] = NoDesk
  /\ calls < MaxCalls
  /\ calls' = calls + 1
  /\ desk' = [desk EXCEPT ![d] = Reading(op, l, next, t)]
  /\ UNCHANGED vars

Rise(d) == desk' = [desk EXCEPT ![d] = NoDesk] /\ UNCHANGED calls
At(d, op) == desk[d].op = op
Turn(d, op) == desk' = [desk EXCEPT ![d].op = op] /\ UNCHANGED calls

\* A transaction that writes trip x waits for those that have written it.
Unlocked(x) == \A w \in Workers : job[w].trip = x => job[w].others = "uncounted"

-----------------------------------------------------------------------------
(* PATCH loads/[id]/status *)

TerminalLoad == {"COMPLETED", "CANCELLED", "EXPIRED"}

\* Mutant of TripStatusFor: the cancellation of a load is not the trip's.
SparesTrip(status) ==
  IF status \in TripStatuses \ {"EXCEPTION", "CANCELLED"} THEN status ELSE Nil

\* Mutant of TripStatusFor: the load's status is used as it is.
SameStatus(status) == status

\* loadStatusToTripStatus
TripStatusFor(status) ==
  CASE status = "EXPIRED" -> "CANCELLED"
    [] status \in TripStatuses \ {"EXCEPTION"} -> status
    [] OTHER -> Nil

BeginSetStatus(d, l, status) ==
  /\ status \in VALID_TRANSITIONS[loadStatus[l]]
  /\ Sit(d, "status", l, status, TripTruck(l))

\* POST loads/[id]/escalations writes what the status EXCEPTION does.
BeginEscalate(d, l) == BeginSetStatus(d, l, "EXCEPTION")

\* A load that gets a final status loses the truck it had when it was read.
WriteStatus(d) ==
  LET l == desk[d].load
      unassign == desk[d].next \in TerminalLoad \ {desk[d].seen} /\ desk[d].held # Nil
  IN  /\ loadStatus' = [loadStatus EXCEPT ![l] = desk[d].next]
      /\ assignedTruck' = [assignedTruck EXCEPT ![l] = IF unassign THEN Nil ELSE @]

\* The trip read before moves along, unless it had the status already.
Synced(d) ==
  /\ desk[d].trip # Nil
  /\ TripStatusFor(desk[d].next) \notin {Nil, desk[d].tripSeen}

\* Mutant of SyncTrip: the trip is written by id.
SyncTripById(d) ==
  LET x == desk[d].trip
      status == TripStatusFor(desk[d].next)
  IN  IF Synced(d)
      THEN /\ Unlocked(x)
           /\ trip' = [trip EXCEPT ![x] =
                [status |-> status, truck |-> trip[x].truck,
                 load |-> IF status = "CANCELLED" THEN Nil ELSE trip[x].load]]
      ELSE UNCHANGED trip

\* trip.update({status notIn [COMPLETED, CANCELLED]}) throws when the trip has
\* ended, which rolls everything back.
SyncTrip(d) ==
  LET x == desk[d].trip
      status == TripStatusFor(desk[d].next)
  IN  IF Synced(d)
      THEN /\ Unlocked(x)
           /\ trip[x].status \notin TerminalTrip
           /\ trip' = [trip EXCEPT ![x] =
                [status |-> status, truck |-> trip[x].truck,
                 load |-> IF status = "CANCELLED" THEN Nil ELSE trip[x].load]]
      ELSE UNCHANGED trip

\* Mutant of FreesTruck: the truck of a cancelled load is forgotten.
FreesCompleted(d) == desk[d].next = "COMPLETED" /\ desk[d].trip # Nil

FreesTruck(d) == desk[d].next \in {"COMPLETED", "CANCELLED"} /\ desk[d].trip # Nil

\* The rows a transaction has written are its own from its count to its commit:
\* the load, and the trip unless it was left alone.
RowsHeld ==
  \A d \in Desks : desk[d].others # "uncounted" /\ desk'[d] = desk[d] =>
    /\ loadStatus'[desk[d].load] = loadStatus[desk[d].load]
    /\ assignedTruck'[desk[d].load] = assignedTruck[desk[d].load]
    /\ Synced(d) =>
         /\ trip'[desk[d].trip] = trip[desk[d].trip]
         /\ \A w \in Workers : job[w].trip = desk[d].trip => job'[w].others = "uncounted"

\* The count sees what is committed: other trips may end before this one does.
CountTrips(d) ==
  /\ At(d, "status")
  /\ FreesTruck(d)
  /\ desk[d].others = "uncounted"
  /\ \A c \in Desks : desk[c].load = desk[d].load => desk[c].others = "uncounted"
  /\ Synced(d) => Unlocked(desk[d].trip) /\ trip[desk[d].trip].status \notin TerminalTrip
  /\ LET others == BlockingTrips(desk[d].truck) \ {desk[d].trip}
     IN  desk' = [desk EXCEPT ![d].others = IF others = {} THEN "none" ELSE "some"]
  /\ UNCHANGED <<vars, calls>>

\* The truck read with the trip is available if it had no other active trip when
\* counted; its posting returns in any case.
FreeTruck(d) ==
  LET t == desk[d].truck
  IN  IF FreesTruck(d)
      THEN /\ desk[d].others # "uncounted"
           /\ available' = [available EXCEPT ![t] = IF desk[d].others = "none" THEN TRUE ELSE @]
           /\ posting' = [posting EXCEPT ![t] = IF @ = "MATCHED" THEN "ACTIVE" ELSE @]
      ELSE UNCHANGED truckVars

CommitSetStatus(d) ==
  /\ At(d, "status")
  /\ WriteStatus(d)
  /\ SyncTrip(d)
  /\ FreeTruck(d)
  /\ Rise(d)
  /\ UNCHANGED <<podSubmitted, request, job>>

-----------------------------------------------------------------------------
(* PATCH loads/[id] with a status *)

EditStatuses == LoadStatuses \ {"SEARCHING", "OFFERED", "EXCEPTION"}

\* The status the load has already is not a transition, but is written as one.
BeginEdit(d, l, status) ==
  /\ status \in EditStatuses
  /\ status \in VALID_TRANSITIONS[loadStatus[l]] \cup {loadStatus[l]}
  /\ Sit(d, "edit", l, status, Nil)

\* It finds the trip now and writes it by its load; an expired load leaves it
\* alone.  Neither is the trip detached nor the truck released.
CommitEdit(d) ==
  LET x == TripOf(desk[d].load)
      follows == x # Nil /\ desk[d].next \in TripStatuses
  IN  /\ At(d, "edit")
      /\ WriteStatus(d)
      /\ follows => Unlocked(x)
      /\ trip' = IF follows THEN [trip EXCEPT ![x].status = desk[d].next] ELSE trip
      /\ Rise(d)
      /\ UNCHANGED <<podSubmitted, request, truckVars, job>>

-----------------------------------------------------------------------------
(* Assignment without a request *)

\* POST loads/[id]/assign
BeginAssign(d, l, t) ==
  /\ Unassigned(l)
  /\ \A k \in Loads : assignedTruck[k] = t => loadStatus[k] \notin Blocking
  /\ Sit(d, "assign", l, "ASSIGNED", t)

\* The truck stays available and posted.
CommitAssign(d) ==
  LET voided == PendingForLoad(desk[d].load)
  IN  /\ At(d, "assign")
      /\ BookLoad(desk[d].load, desk[d].truck)
      /\ request' = [q \in Requests |-> IF q \in voided THEN [request[q] EXCEPT !.status = "CANCELLED"]
                                        ELSE request[q]]
      /\ Rise(d)
      /\ UNCHANGED <<truckVars, job>>

\* POST trips
BeginCreateTrip(d, l, t) ==
  /\ loadStatus[l] \in Bookable
  /\ available[t]
  /\ \A x \in TripsOf(l) : trip[x].status = "CANCELLED"
  /\ Sit(d, "createTrip", l, "ASSIGNED", t)

\* The load may have got another truck by now; its requests stay open.
CommitCreateTrip(d) ==
  LET l == desk[d].load
      t == desk[d].truck
  IN  /\ At(d, "createTrip")
      /\ \A k \in Loads \ {l} : assignedTruck[k] # t
      /\ \A x \in Trips : TripsAfterDetach(l)[x].load # l
      /\ \E x \in Trips :
            /\ trip[x].status = "NONE"
            /\ trip' = [TripsAfterDetach(l) EXCEPT
                          ![x] = [status |-> "ASSIGNED", load |-> l, truck |-> t]]
      /\ loadStatus' = [loadStatus EXCEPT ![l] = "ASSIGNED"]
      /\ assignedTruck' = [assignedTruck EXCEPT ![l] = t]
      /\ TakeOffMarket(t)
      /\ Rise(d)
      /\ UNCHANGED <<podSubmitted, request, job>>

\* POST dispatch
BeginDispatch(d, l, t) ==
  /\ loadStatus[l] = "POSTED"
  /\ \A k \in Loads : assignedTruck[k] = t => loadStatus[k] \in Released
  /\ Sit(d, "dispatch", l, "ASSIGNED", t)

\* No trip is made.  The load that held the truck gives it up by id.
CommitDispatch(d) ==
  LET l == desk[d].load
      t == desk[d].truck
      released == [k \in Loads |-> IF k = desk[d].other THEN Nil ELSE assignedTruck[k]]
  IN  /\ At(d, "dispatch")
      /\ \A k \in Loads \ {l} : released[k] # t
      /\ assignedTruck' = [released EXCEPT ![l] = t]
      /\ loadStatus' = [loadStatus EXCEPT ![l] = "ASSIGNED"]
      /\ Rise(d)
      /\ UNCHANGED <<podSubmitted, trip, request, truckVars, job>>

-----------------------------------------------------------------------------
(* Off the marketplace *)

\* expireOldLoads; whether the load is a week old is left open.
BeginExpireOld(d, l) == loadStatus[l] = "POSTED" /\ Sit(d, "expireOld", l, "EXPIRED", Nil)

\* The loads of a shipper's organization that is rejected or revoked.
BeginUnpost(d, l) == loadStatus[l] \in Bookable /\ Sit(d, "unpost", l, "UNPOSTED", Nil)

CommitOff(d) ==
  /\ \/ At(d, "expireOld") /\ Rise(d)
     \/ At(d, "unpost") /\ Turn(d, "clearTruck")
  /\ loadStatus' = [loadStatus EXCEPT ![desk[d].load] = desk[d].next]
  /\ UNCHANGED <<assignedTruck, podSubmitted, trip, request, truckVars, job>>

KindCleared == [clearTruck |-> "TRUCK", clearLoad |-> "LOAD", clearMatch |-> "MATCH"]

\* The load's PENDING requests, one kind after the other.
ClearRequests(d) ==
  /\ desk[d].op \in DOMAIN KindCleared
  /\ LET voided == {q \in PendingForLoad(desk[d].load) : request[q].kind = KindCleared[desk[d].op]}
     IN  request' = [q \in Requests |-> IF q \in voided THEN [request[q] EXCEPT !.status = "CANCELLED"]
                                        ELSE request[q]]
  /\ CASE At(d, "clearTruck") -> Turn(d, "clearLoad")
       [] At(d, "clearLoad") -> Turn(d, "clearMatch")
       [] OTHER -> Rise(d)
  /\ UNCHANGED <<loadVars, trip, truckVars, job>>

\* The queue's cleanup job expires POSTED loads in one guarded statement.
CleanUpLoad(l) ==
  /\ loadStatus[l] = "POSTED"
  /\ loadStatus' = [loadStatus EXCEPT ![l] = "EXPIRED"]
  /\ UNCHANGED <<assignedTruck, podSubmitted, trip, request, truckVars, job, desk, calls>>

\* An exception, a rolled back transaction or the end of the process.
DeskFails(d) ==
  /\ desk[d] # NoDesk
  /\ Rise(d)
  /\ UNCHANGED vars

-----------------------------------------------------------------------------
DeskInit == DBInit /\ desk = [d \in Desks |-> NoDesk] /\ calls = 0

BeginDesk(d) ==
  \E l \in Loads :
    \/ \E status \in LoadStatuses : BeginSetStatus(d, l, status) \/ BeginEdit(d, l, status)
    \/ BeginEscalate(d, l)
    \/ \E t \in Trucks : BeginAssign(d, l, t) \/ BeginCreateTrip(d, l, t) \/ BeginDispatch(d, l, t)
    \/ BeginExpireOld(d, l)
    \/ BeginUnpost(d, l)

CommitDesk(d) ==
  \/ CountTrips(d)
  \/ CommitSetStatus(d)
  \/ CommitEdit(d)
  \/ CommitAssign(d)
  \/ CommitCreateTrip(d)
  \/ CommitDispatch(d)
  \/ CommitOff(d)
  \/ ClearRequests(d)

DeskNext ==
  \/ FreightNext /\ UNCHANGED <<desk, calls>> /\ RowsHeld
  \/ \E d \in Desks : (BeginDesk(d) \/ CommitDesk(d) \/ DeskFails(d)) /\ RowsHeld
  \/ \E l \in Loads : CleanUpLoad(l) /\ RowsHeld

DeskSpec == DeskInit /\ [][DeskNext]_deskVars

-----------------------------------------------------------------------------
(* What holds while loads are handled from both sides *)

\* Rows and desks hold values of their columns' types.
DeskTypeOK == TypeOK /\ desk \in [Desks -> DeskRow] /\ calls \in 0 .. MaxCalls

\* The step is one of this handler.
Acts(d) == desk[d] # NoDesk /\ desk'[d] # desk[d]

\* What the handler saw of its load, trip and truck is no longer so.
Stale(d) ==
  LET truck == IF At(d, "status") THEN TripTruck(desk[d].load) ELSE desk[d].truck
      read == [desk[d] EXCEPT !.others = "uncounted"]
  IN  read # Reading(desk[d].op, desk[d].load, desk[d].next, truck)

\* The trip has moved on since the trip handler saw it.
Overtaken(w) == job[w].op \in TripOps /\ trip[job[w].trip].status # job[w].seen

\* The step is a write, for load l, by a handler whose reads are out of date.
OutOfDate(l) ==
  \/ \E d \in Desks : Acts(d) /\ desk[d].load = l /\ Stale(d)
  \/ \E w \in Workers : job[w].load = l /\ job'[w] # job[w] /\ Overtaken(w)

\* The load of a trip under way is on that trip's truck, and is not over.
Carried(x) ==
  /\ trip[x].status \in Moving
  /\ assignedTruck[trip[x].load] = trip[x].truck
  /\ loadStatus[trip[x].load] \notin Released

\* No handler, in whatever order of requests, trips and statuses it is called,
\* takes the load away from a trip under way, unless its reads are out of date
\* when it writes, or it expires the load without a look at the trip.
TakenFromTrip ==
  [][\A x \in Trips : Carried(x) /\ trip'[x].status \in Moving /\ ~Carried(x)'
       => \/ OutOfDate(trip[x].load)
          \/ \E d \in Desks : Acts(d) /\ At(d, "dispatch")
          \/ loadStatus'[trip[x].load] = "EXPIRED"]_deskVars

\* A trip that has ended comes back only where a handler writes it by its id alone:
\* by PATCH loads/[id], or completed by a receipt of a delivery read before.
RevivedByEdit ==
  [][\A x \in Trips : trip[x].status \in TerminalTrip /\ trip'[x].status # trip[x].status
       => \/ \E d \in Desks : Acts(d) /\ At(d, "edit")
          \/ \E w \in Workers : /\ job[w].op \in {"confirmDelivery", "uploadPod"}
                                /\ job[w].trip = x /\ job'[w] = Idle]_deskVars

\* The trip has got another truck since the trip handler looked.
Astray(w) == job[w].op \in TripOps /\ trip[job[w].trip].truck # job[w].truck

\* A truck whose last active trip ends is available, unless PATCH loads/[id] or an
\* expiry has ended it, a handler whose reads were out of date, or one that counted
\* another active trip of the truck before that one ended too.
LastTripFreesTruck ==
  [][\A t \in Trucks : BlockingTrips(t) # {} /\ BlockingTrips(t)' = {} /\ ~available'[t]
       => \/ \E d \in Desks : /\ Acts(d)
                              /\ \/ At(d, "edit")
                                 \/ desk[d].next = "EXPIRED"
                                 \/ desk[d].others = "some"
                                 \/ Stale(d)
          \/ \E w \in Workers : /\ job[w].others = "some" \/ Astray(w)
                                /\ job[w] # Idle /\ job'[w] = Idle]_deskVars

-----------------------------------------------------------------------------
(* The inductive invariant behind the properties above *)

\* A trip row has no load before it is inserted, and one while it is active.
TripRowsFit ==
  \A x \in Trips : /\ trip[x].status = "NONE" => trip[x].load = Nil
                   /\ trip[x].status \in Blocking => trip[x].load \in Loads

\* Trip x was made for load l, and may have let go of it.
MadeFor(x, l) == trip[x].status # "NONE" /\ trip[x].load \in {l, Nil}

\* What the handler of job j has read remains true enough until it writes.
Remembers(j) ==
  /\ j.req # Nil => request[j.req].status # "NONE"
  /\ j.op \in ServingOps => j.req # Nil
  /\ j.op = "insertRequest" => j.load \in Loads /\ j.truck \in Trucks
  /\ j.op \in TripOps =>
       /\ j.trip \in Trips
       /\ j.load \in Loads
       /\ MadeFor(j.trip, j.load)
       /\ j.next \in TripStatuses
       /\ j.op = "patch" => /\ j.seen \in TripStatuses
                            /\ j.next \in VALID_TRIP_TRANSITIONS[j.seen]
       /\ j.op \in {"confirmDelivery", "uploadPod"} => j.seen = "DELIVERED"

\* The same of a handler at a desk.
Recalls(r) ==
  /\ r.op # "none" => r.load \in Loads /\ r.next \in LoadStatuses
  /\ r.op \in {"expireOld", "unpost"} => r.next \in {"EXPIRED", "UNPOSTED"}
  /\ r.trip # Nil => MadeFor(r.trip, r.load)

DeskInv ==
  /\ DeskTypeOK
  /\ RequestsWellFormed
  /\ TripRowsFit
  /\ TripUnique
  /\ \A w \in Workers : Remembers(job[w])
  /\ CountedHoldRow
  /\ \A d \in Desks : Recalls(desk[d])
=============================================================================
