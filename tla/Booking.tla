-------------------------------- MODULE Booking --------------------------------
(***************************************************************************)
(* How a load gets a truck: a carrier requests a load (kind "LOAD"), a     *)
(* shipper requests a truck ("TRUCK") or a dispatcher proposes a match     *)
(* ("MATCH"); the other side answers; the last yes books the load.         *)
(*                                                                         *)
(* Each handler is a Begin step, which makes every read and check of the   *)
(* handler, and a Commit step, which makes its writes.  Several handlers   *)
(* read the request a second time inside their transaction.  No lock is    *)
(* taken and the database is at READ COMMITTED, so that second read may    *)
(* come right after the first one: it removes no behaviour, and the Begin  *)
(* step stands for both.                                                   *)
(***************************************************************************)
EXTENDS MarketDB

CONSTANT Kinds      \* the kinds of request made: a bound, the code has all three

ASSUME KindsAssumption == Kinds \subseteq RequestKinds

\* A handler that has looked up request q, and the load's status `seen'.
Serving(q, op, seen) ==
  [op |-> op, req |-> q, trip |-> Nil, load |-> request[q].load,
   truck |-> request[q].truck, kind |-> request[q].kind,
   seen |-> seen, next |-> Nil, to |-> Nil, others |-> "uncounted"]

SetRequest(q, status) == request' = [request EXCEPT ![q].status = status]

-----------------------------------------------------------------------------
(* Creating a request *)

\* A handler about to insert a request of this kind; `seen' decides what it
\* does to the load afterwards.
Creating(kind, l, t) ==
  [op |-> "insertRequest", req |-> Nil, trip |-> Nil, load |-> l, truck |-> t,
   kind |-> kind, seen |-> loadStatus[l], next |-> Nil,
   to |-> Nil, others |-> "uncounted"]

Unassigned(l) == loadStatus[l] \in Bookable /\ assignedTruck[l] = Nil

\* POST load-requests, by the carrier.
BeginLoadRequest(w, l, t) ==
  /\ "LOAD" \in Kinds
  /\ Unassigned(l)
  /\ BlockingTrips(t) = {}
  /\ posting[t] = "ACTIVE"
  /\ PendingRequests("LOAD", l, t) = {}
  /\ Start(w, Creating("LOAD", l, t))
  /\ UNCHANGED dbVars

\* POST truck-requests, by the shipper.
BeginTruckRequest(w, l, t) ==
  /\ "TRUCK" \in Kinds
  /\ Unassigned(l)
  /\ posting[t] = "ACTIVE"
  /\ BlockingTrips(t) = {}
  /\ PendingRequests("TRUCK", l, t) = {}
  /\ Start(w, Creating("TRUCK", l, t))
  /\ UNCHANGED dbVars

\* POST match-proposals, by a dispatcher: isAvailable instead of a posting.
BeginProposal(w, l, t) ==
  /\ "MATCH" \in Kinds
  /\ Unassigned(l)
  /\ available[t]
  /\ BlockingTrips(t) = {}
  /\ PendingRequests("MATCH", l, t) = {}
  /\ Start(w, Creating("MATCH", l, t))
  /\ UNCHANGED dbVars

InsertRow(w) ==
  /\ job[w].op = "insertRequest"
  /\ \E q \in Requests :
        /\ request[q].status = "NONE"
        /\ request' = [request EXCEPT
             ![q] = [kind |-> job[w].kind, status |-> "PENDING",
                     load |-> job[w].load, truck |-> job[w].truck]]
  /\ IF job[w].seen = "POSTED" /\ job[w].kind # "MATCH"
     THEN Continue(w, [job[w] EXCEPT !.op = "markLoad"])
     ELSE Finish(w)
  /\ UNCHANGED <<loadVars, trip, truckVars>>

\* The partial unique index refuses a second PENDING row for the pair.
InsertRequest(w) ==
  /\ PendingRequests(job[w].kind, job[w].load, job[w].truck) = {}
  /\ InsertRow(w)

\* The load was POSTED when the handler read it; its status is not read again.
MarkLoad(w, kind, status) ==
  /\ job[w].op = "markLoad"
  /\ job[w].kind = kind
  /\ loadStatus' = [loadStatus EXCEPT ![job[w].load] = status]
  /\ Finish(w)
  /\ UNCHANGED <<assignedTruck, podSubmitted, trip, request, truckVars>>

MarkSearching(w) == MarkLoad(w, "LOAD", "SEARCHING")
MarkOffered(w) == MarkLoad(w, "TRUCK", "OFFERED")

-----------------------------------------------------------------------------
(* The shipper answers a load request: POST load-requests/[id]/respond *)

BeginApprove(w, q) ==
  /\ request[q].kind = "LOAD"
  /\ request[q].status = "PENDING"
  /\ loadStatus[request[q].load] \in Bookable
  /\ BlockingTrips(request[q].truck) = {}
  /\ Start(w, Serving(q, "approve", Nil))
  /\ UNCHANGED dbVars

CommitApprove(w) ==
  /\ job[w].op = "approve"
  /\ SetRequest(job[w].req, "SHIPPER_APPROVED")
  /\ Finish(w)
  /\ UNCHANGED <<loadVars, trip, truckVars>>

\* REJECT, of any kind of request: only that it is PENDING is checked.  The
\* load's status is read along and kept.
BeginReject(w, q) ==
  /\ request[q].status = "PENDING"
  /\ Start(w, Serving(q, "reject", loadStatus[request[q].load]))
  /\ UNCHANGED dbVars

\* load.update({status in [SEARCHING, OFFERED]}, POSTED) throws when no row
\* matches, which rolls back the transaction it belongs to.
ReopenLoad(l) ==
  /\ loadStatus[l] \in {"SEARCHING", "OFFERED"}
  /\ loadStatus' = [loadStatus EXCEPT ![l] = "POSTED"]

ReopenIfUnrequested(q) ==
  LET l == request[q].load
  IN  IF OpenLoadRequests(l) \ {q} = {} THEN ReopenLoad(l) ELSE UNCHANGED loadStatus

RejectLoadRequest(w) ==
  /\ job[w].op = "reject"
  /\ job[w].kind = "LOAD"
  /\ SetRequest(job[w].req, "REJECTED")
  /\ ReopenIfUnrequested(job[w].req)
  /\ Finish(w)
  /\ UNCHANGED <<assignedTruck, podSubmitted, trip, truckVars>>

\* POST truck-requests/[id]/respond, REJECT: reopens the load if it was OFFERED
\* when first read, whatever it is now.
RejectTruckRequest(w) ==
  LET l == job[w].load
      others == {r \in Requests \ {job[w].req} :
                   request[r].kind = "TRUCK" /\ request[r].load = l
                     /\ request[r].status = "PENDING"}
  IN  /\ job[w].op = "reject"
      /\ job[w].kind = "TRUCK"
      /\ SetRequest(job[w].req, "REJECTED")
      /\ loadStatus' = IF others = {} /\ job[w].seen = "OFFERED"
                       THEN [loadStatus EXCEPT ![l] = "POSTED"] ELSE loadStatus
      /\ Finish(w)
      /\ UNCHANGED <<assignedTruck, podSubmitted, trip, truckVars>>

\* POST match-proposals/[id]/respond, REJECT.
RejectProposal(w) ==
  /\ job[w].op = "reject"
  /\ job[w].kind = "MATCH"
  /\ SetRequest(job[w].req, "REJECTED")
  /\ Finish(w)
  /\ UNCHANGED <<loadVars, trip, truckVars>>

-----------------------------------------------------------------------------
(* Time runs out.  Whether `expiresAt' has passed is left open. *)

\* A respond handler finds the request out of time and writes by id.
BeginExpire(w, q) ==
  /\ request[q].status = "PENDING"
  /\ Start(w, Serving(q, "expire", Nil))
  /\ UNCHANGED dbVars

CommitExpire(w) ==
  /\ job[w].op = "expire"
  /\ SetRequest(job[w].req, "EXPIRED")
  /\ Finish(w)
  /\ UNCHANGED <<loadVars, trip, truckVars>>

\* The cron job expires PENDING rows in one guarded statement per table
\* (no cron handler expires match proposals).
CronExpire(Q) ==
  /\ Q # {}
  /\ \E kind \in {"LOAD", "TRUCK"} :
        \A q \in Q : request[q].kind = kind /\ request[q].status = "PENDING"
  /\ request' = [q \in Requests |->
                   IF q \in Q THEN [request[q] EXCEPT !.status = "EXPIRED"]
                              ELSE request[q]]
  /\ UNCHANGED <<loadVars, trip, truckVars, job>>

-----------------------------------------------------------------------------
(* The side that asked withdraws: DELETE load-requests/[id],               *)
(* POST truck-requests/[id]/cancel and DELETE truck-requests/[id].  Both   *)
(* writes carry the status in their WHERE, so the read adds nothing.       *)

CancelTruckRequest(q) ==
  /\ request[q].kind = "TRUCK"
  /\ request[q].status = "PENDING"
  /\ SetRequest(q, "CANCELLED")
  /\ UNCHANGED <<loadVars, trip, truckVars, job>>

CancelLoadRequest(w, q) ==
  /\ q \in OpenLoadRequests(request[q].load)
  /\ SetRequest(q, "CANCELLED")
  /\ Start(w, Serving(q, "reopenLoad", Nil))
  /\ UNCHANGED <<loadVars, trip, truckVars>>

\* Outside any transaction: count the other open requests, then reopen.
ReopenAfterCancel(w) ==
  /\ job[w].op = "reopenLoad"
  /\ ReopenIfUnrequested(job[w].req)
  /\ Finish(w)
  /\ UNCHANGED <<assignedTruck, podSubmitted, trip, request, truckVars>>

-----------------------------------------------------------------------------
(* The last yes *)

\* The writes that the three booking transactions share.  (A MatchProposal
\* calls its APPROVED status ACCEPTED.)
Book(q, voided) ==
  /\ BookLoad(request[q].load, request[q].truck)
  /\ request' = [r \in Requests |->
                   CASE r = q -> [request[r] EXCEPT !.status = "APPROVED"]
                     [] r \in voided \ {q} -> [request[r] EXCEPT !.status = "CANCELLED"]
                     [] OTHER -> request[r]]
  /\ TakeOffMarket(request[q].truck)

PendingForLoad(l) ==
  {r \in Requests : request[r].status = "PENDING" /\ request[r].load = l}

\* POST load-requests/[id]/confirm, CONFIRM: a trip makes the truck busy.
BeginConfirm(w, q) ==
  /\ request[q].kind = "LOAD"
  /\ request[q].status = "SHIPPER_APPROVED"
  /\ Unassigned(request[q].load)
  /\ BlockingTrips(request[q].truck) = {}
  /\ Start(w, Serving(q, "confirm", Nil))
  /\ UNCHANGED dbVars

\* Cancels every open request for the load and the truck's open load requests.
CommitConfirm(w) ==
  LET q == job[w].req
      ofTruck == {r \in Requests : request[r].kind = "LOAD"
                     /\ request[r].truck = request[q].truck
                     /\ request[r].status \in {"PENDING", "SHIPPER_APPROVED"}}
  IN  /\ job[w].op = "confirm"
      /\ Book(q, PendingForLoad(request[q].load)
                   \cup OpenLoadRequests(request[q].load) \cup ofTruck)
      /\ Finish(w)

\* POST load-requests/[id]/confirm, DECLINE.
BeginDecline(w, q) ==
  /\ request[q].kind = "LOAD"
  /\ request[q].status = "SHIPPER_APPROVED"
  /\ Start(w, Serving(q, "decline", Nil))
  /\ UNCHANGED dbVars

CommitDecline(w) ==
  /\ job[w].op = "decline"
  /\ SetRequest(job[w].req, "CANCELLED")
  /\ ReopenIfUnrequested(job[w].req)
  /\ Finish(w)
  /\ UNCHANGED <<assignedTruck, podSubmitted, trip, truckVars>>

\* For the two handlers below a load, not a trip, makes the truck busy.
LoadsHolding(t) == {l \in Loads : assignedTruck[l] = t /\ loadStatus[l] \notin Released}

MayAccept(q) ==
  /\ request[q].status = "PENDING"
  /\ Unassigned(request[q].load)
  /\ LoadsHolding(request[q].truck) = {}

\* POST truck-requests/[id]/respond, APPROVE.
BeginAcceptTruck(w, q) ==
  /\ request[q].kind = "TRUCK"
  /\ MayAccept(q)
  /\ Start(w, Serving(q, "accept", Nil))
  /\ UNCHANGED dbVars

\* Cancels the load's PENDING requests and the truck's PENDING truck requests.
CommitAcceptTruck(w) ==
  LET q == job[w].req
      ofTruck == {r \in Requests : request[r].kind = "TRUCK"
                     /\ request[r].truck = request[q].truck
                     /\ request[r].status = "PENDING"}
  IN  /\ job[w].op = "accept"
      /\ job[w].kind = "TRUCK"
      /\ Book(q, PendingForLoad(request[q].load) \cup ofTruck)
      /\ Finish(w)

\* POST match-proposals/[id]/respond, ACCEPT.
BeginAcceptProposal(w, q) ==
  /\ request[q].kind = "MATCH"
  /\ MayAccept(q)
  /\ Start(w, Serving(q, "accept", Nil))
  /\ UNCHANGED dbVars

\* Cancels the load's PENDING requests, and nothing else of the truck's.
CommitAcceptProposal(w) ==
  /\ job[w].op = "accept"
  /\ job[w].kind = "MATCH"
  /\ Book(job[w].req, PendingForLoad(job[w].load))
  /\ Finish(w)

-----------------------------------------------------------------------------
CreateStep(w) ==
  \/ \E l \in Loads, t \in Trucks : \/ BeginLoadRequest(w, l, t)
                                  \/ BeginTruckRequest(w, l, t)
                                  \/ BeginProposal(w, l, t)
  \/ InsertRequest(w)
  \/ MarkSearching(w)
  \/ MarkOffered(w)

AnswerStep(w) ==
  \/ \E q \in Requests : BeginApprove(w, q) \/ BeginReject(w, q)
                           \/ BeginExpire(w, q) \/ CancelLoadRequest(w, q)
  \/ CommitApprove(w)
  \/ RejectLoadRequest(w)
  \/ RejectTruckRequest(w)
  \/ RejectProposal(w)
  \/ CommitExpire(w)
  \/ ReopenAfterCancel(w)

BookStep(w) ==
  \/ \E q \in Requests : \/ BeginConfirm(w, q)
                        \/ BeginDecline(w, q)
                        \/ BeginAcceptTruck(w, q)
                        \/ BeginAcceptProposal(w, q)
  \/ CommitConfirm(w)
  \/ CommitDecline(w)
  \/ CommitAcceptTruck(w)
  \/ CommitAcceptProposal(w)

BookingNext ==
  \/ \E w \in Workers : CreateStep(w) \/ AnswerStep(w) \/ BookStep(w) \/ Abort(w)
  \/ \E q \in Requests : CancelTruckRequest(q)
  \/ \E Q \in SUBSET Requests : CronExpire(Q)

Spec == DBInit /\ [][BookingNext]_vars

-----------------------------------------------------------------------------
(* What booking promises *)

\* A truck has one active trip at most and so has a load, however many
\* requests are answered at the same time: load-requests/[id]/confirm,
\* truck-requests/[id]/respond and match-proposals/[id]/respond check on
\* different tables, outside any lock, that truck and load are free.
NoDoubleBooking ==
  \A x, y \in Trips :
    (x # y /\ trip[x].status \in Blocking /\ trip[y].status \in Blocking)
       => trip[x].truck # trip[y].truck /\ trip[x].load # trip[y].load

\* The two records of a booking agree: Load.assignedTruckId names the truck of
\* the load's active trip, and a load with a truck has such a trip.
BookingAgrees ==
  \A l \in Loads : \A t \in Trucks :
    assignedTruck[l] = t
      <=> \E x \in Trips : /\ trip[x].status \in Blocking
                          /\ trip[x].load = l
                          /\ trip[x].truck = t

\* A truck under way is neither available nor posted on the marketplace.
BusyOffMarket ==
  \A x \in Trips : trip[x].status \in Blocking
      => ~available[trip[x].truck] /\ posting[trip[x].truck] # "ACTIVE"

\* Two requests of one kind for one load and truck are never both PENDING
\* (load-requests and truck-requests check, then insert).
OnePendingPerPair ==
  \A q, r \in Requests :
    (/\ q # r /\ request[q].status = "PENDING" /\ request[r].status = "PENDING"
     /\ request[q].kind = request[r].kind)
       => request[q].load # request[r].load \/ request[q].truck # request[r].truck

\* No later answer takes a booked load away from its truck: a handler that
\* read the load as free before the booking finds the load's trip in its way.
BookingIsFinal ==
  [][\A l \in Loads : assignedTruck[l] # Nil
        => assignedTruck'[l] = assignedTruck[l]]_vars

-----------------------------------------------------------------------------
(* The inductive invariant behind the properties above *)

\* A row has a load and a truck once it is inserted.
RequestsWellFormed ==
  \A q \in Requests : request[q].status # "NONE"
    => request[q].load \in Loads /\ request[q].truck \in Trucks

CreatingOps == {"insertRequest", "markLoad"}
ServingOps == {"approve", "reject", "expire", "reopenLoad", "confirm", "decline", "accept"}

\* A handler serves an inserted request; a creating handler knows its pair.
JobsWellFormed ==
  \A w \in Workers :
    /\ job[w].req # Nil =>
         /\ request[job[w].req].status # "NONE"
         /\ job[w].load = request[job[w].req].load
         /\ job[w].truck = request[job[w].req].truck
    /\ job[w].op \in ServingOps => job[w].req # Nil
    /\ job[w].op \in CreatingOps => job[w].load \in Loads /\ job[w].truck \in Trucks

\* Trips only start here: a load is on the market or assigned, a trip assigned.
NothingUnderWay ==
  /\ \A l \in Loads : loadStatus[l] \in Bookable \cup {"ASSIGNED"}
  /\ \A x \in Trips : trip[x].status \in {"NONE", "ASSIGNED"}
  /\ \A x \in Trips : trip[x].status = "NONE" => trip[x] = NoTripRow
  /\ \A x \in Trips : trip[x].status = "ASSIGNED"
                        => trip[x].load \in Loads /\ trip[x].truck \in Trucks

\* All of it is preserved by every step of every handler.
BookingInv ==
  /\ TypeOK
  /\ RequestsWellFormed
  /\ JobsWellFormed
  /\ NothingUnderWay
  /\ TruckUnique
  /\ TripUnique
  /\ BookingAgrees
  /\ BusyOffMarket
=============================================================================
