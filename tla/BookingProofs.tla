----------------------------- MODULE BookingProofs -----------------------------
(***************************************************************************)
(* Booking keeps its promises for any number of loads, trucks, requests,   *)
(* trips and workers.  BookingInv is the inductive invariant.  A step that *)
(* books nothing leaves trips, trucks and Load.assignedTruckId alone, and  *)
(* lemma NoBooking deals with all of those at once; the three steps that   *)
(* book go through lemma BookPreserves.                                    *)
(***************************************************************************)
EXTENDS Booking, TLAPS

\* The part of BookingInv that only concerns trips, loads and trucks.
BookedInv ==
  /\ NothingUnderWay
  /\ TruckUnique
  /\ TripUnique
  /\ BookingAgrees
  /\ BusyOffMarket

\* Initially nothing is requested and nothing is booked.
LEMMA InitInv == DBInit => BookingInv
<1>1. SUFFICES ASSUME DBInit PROVE BookingInv
  OBVIOUS
<1>2. TypeOK
  BY <1>1 DEF DBInit, TypeOK, DBTypeOK, JobRow, Idle, Ops, LoadStatuses,
       NoTripRow, TripRow, NoRequestRow, RequestRow, PostingStatuses
<1>3. RequestsWellFormed /\ JobsWellFormed
  BY <1>1 DEF DBInit, RequestsWellFormed, JobsWellFormed, NoRequestRow, Idle,
          ServingOps, CreatingOps
<1>4. NothingUnderWay /\ TruckUnique /\ TripUnique
  BY <1>1 DEF DBInit, NothingUnderWay, TruckUnique, TripUnique, NoTripRow, Bookable
<1>5. BookingAgrees /\ BusyOffMarket
  BY <1>1, NilAssumption
     DEF DBInit, BookingAgrees, BusyOffMarket, NoTripRow, Blocking
<1> QED  BY <1>2, <1>3, <1>4, <1>5 DEF BookingInv

\* A step that books nothing and leaves every load bookable or assigned.
LEMMA NoBooking ==
  ASSUME BookedInv,
         UNCHANGED <<assignedTruck, trip, available, posting>>,
         \A l \in Loads : loadStatus'[l] \in Bookable \cup {"ASSIGNED"}
  PROVE  BookedInv'
BY DEF BookedInv, NothingUnderWay, TruckUnique, TripUnique, BookingAgrees,
       BusyOffMarket, Bookable, Blocking

\* The booking statements, on a load and a truck that exist.
LEMMA BookPreserves ==
  ASSUME BookedInv, TypeOK,
         NEW l \in Loads, NEW t \in Trucks,
         BookLoad(l, t), TakeOffMarket(t)
  PROVE  BookedInv' /\ (\A k \in Loads : assignedTruck[k] # Nil
                           => assignedTruck'[k] = assignedTruck[k])
<1>1. TruckAfterRelease(t) = assignedTruck
  BY DEF TruckAfterRelease, BookedInv, NothingUnderWay, Bookable, Released,
         TypeOK, DBTypeOK
<1>2. TripsAfterDetach(l) = trip
  BY DEF TripsAfterDetach, BookedInv, NothingUnderWay, TypeOK, DBTypeOK
<1>3. \A k \in Loads \ {l} : assignedTruck[k] # t
  BY <1>1 DEF BookLoad, WriteBooking
<1>4. \A x \in Trips : trip[x].load # l
  BY <1>2 DEF BookLoad, WriteBooking
<1>5. /\ assignedTruck' = [assignedTruck EXCEPT ![l] = t]
      /\ loadStatus' = [loadStatus EXCEPT ![l] = "ASSIGNED"]
  BY <1>1 DEF BookLoad, WriteBooking
<1>6. PICK n \in Trips :
        /\ trip[n].status = "NONE"
        /\ trip' = [trip EXCEPT ![n] = [status |-> "ASSIGNED", load |-> l, truck |-> t]]
  BY <1>2 DEF BookLoad, WriteBooking
<1>7. /\ trip'[n] = [status |-> "ASSIGNED", load |-> l, truck |-> t]
      /\ \A x \in Trips \ {n} : trip'[x] = trip[x]
  BY <1>6 DEF TypeOK, DBTypeOK
<1>8. /\ assignedTruck'[l] = t
      /\ \A k \in Loads \ {l} : assignedTruck'[k] = assignedTruck[k]
  BY <1>5 DEF TypeOK, DBTypeOK
<1>9. assignedTruck[l] = Nil
  <2>1. assignedTruck[l] \in Trucks \cup {Nil}
    BY DEF TypeOK, DBTypeOK
  <2> QED  BY <2>1, <1>4 DEF BookedInv, BookingAgrees
<1>10. NothingUnderWay'
  BY <1>5, <1>7 DEF BookedInv, NothingUnderWay, TypeOK, DBTypeOK
<1>11. TruckUnique'
  BY <1>3, <1>8 DEF BookedInv, TruckUnique
<1>12. TripUnique'
  BY <1>4, <1>7 DEF BookedInv, TripUnique
<1>13. BookingAgrees'
  <2> SUFFICES ASSUME NEW k \in Loads, NEW u \in Trucks
               PROVE  assignedTruck'[k] = u
                        <=> \E x \in Trips : /\ trip'[x].status \in Blocking
                                             /\ trip'[x].load = k
                                             /\ trip'[x].truck = u
    BY DEF BookingAgrees
  <2>1. CASE k = l
    BY <2>1, <1>4, <1>7, <1>8 DEF Blocking
  <2>2. CASE k # l
    <3>1. trip[n].load = Nil /\ trip[n].status \notin Blocking
      BY <1>6 DEF BookedInv, NothingUnderWay, NoTripRow, Blocking
    <3>2. assignedTruck[k] = u
            <=> \E x \in Trips : /\ trip[x].status \in Blocking
                                 /\ trip[x].load = k
                                 /\ trip[x].truck = u
      BY DEF BookedInv, BookingAgrees
    <3> QED  BY <2>2, <3>1, <3>2, <1>7, <1>8
  <2> QED  BY <2>1, <2>2
<1>14. BusyOffMarket'
  BY <1>7 DEF BookedInv, BusyOffMarket, TakeOffMarket, TypeOK, DBTypeOK,
     NothingUnderWay, Blocking
<1> QED
  BY <1>8, <1>9, <1>10, <1>11, <1>12, <1>13, <1>14 DEF BookedInv

-----------------------------------------------------------------------------
(* What a handler knows stays true while other handlers write. *)

\* Requests are inserted once and keep their load and truck.
KeepsRequests ==
  \A q \in Requests : request[q].status # "NONE"
    => /\ request'[q].status # "NONE"
       /\ request'[q].load = request[q].load
       /\ request'[q].truck = request[q].truck

\* A worker takes up, goes on with or puts down work of the shape JobsWellFormed
\* asks for, while requests are kept.
LEMMA JobChange ==
  ASSUME JobsWellFormed, KeepsRequests, NEW w \in Workers, NEW j \in JobRow,
         job \in [Workers -> JobRow],
         job' = [job EXCEPT ![w] = j],
         j.req # Nil => /\ j.req \in Requests
                        /\ request[j.req].status # "NONE"
                        /\ j.load = request[j.req].load
                        /\ j.truck = request[j.req].truck,
         j.op \in ServingOps => j.req # Nil,
         j.op \in CreatingOps => j.load \in Loads /\ j.truck \in Trucks
  PROVE  JobsWellFormed' /\ job' \in [Workers -> JobRow]
<1>1. job' \in [Workers -> JobRow]
  OBVIOUS
<1>2. SUFFICES ASSUME NEW v \in Workers
               PROVE  /\ job'[v].req # Nil =>
                           /\ request'[job'[v].req].status # "NONE"
                           /\ job'[v].load = request'[job'[v].req].load
                           /\ job'[v].truck = request'[job'[v].req].truck
                      /\ job'[v].op \in ServingOps => job'[v].req # Nil
                      /\ job'[v].op \in CreatingOps
                           => job'[v].load \in Loads /\ job'[v].truck \in Trucks
  BY <1>1 DEF JobsWellFormed
<1>3. CASE v = w
  BY <1>3 DEF KeepsRequests
<1>4. CASE v # w
  <2>1. job'[v] = job[v] /\ job[v].req \in Requests \cup {Nil}
    BY <1>4 DEF JobRow
  <2> QED  BY <2>1 DEF KeepsRequests, JobsWellFormed
<1> QED  BY <1>3, <1>4

\* Going back to idle is always in order.
LEMMA FinishWork ==
  ASSUME JobsWellFormed, KeepsRequests, NEW w \in Workers,
         job \in [Workers -> JobRow], Finish(w)
  PROVE  JobsWellFormed' /\ job' \in [Workers -> JobRow]
<1>1. Idle \in JobRow /\ Idle.req = Nil /\ Idle.op = "idle"
  BY DEF Idle, JobRow, Ops
<1> QED  BY <1>1, JobChange DEF Finish, ServingOps, CreatingOps

-----------------------------------------------------------------------------
(* Steps that write no row *)

\* A handler looks up a request that exists and remembers it.
LEMMA ServePreserves ==
  ASSUME BookingInv, NEW w \in Workers, NEW q \in Requests,
         NEW op \in Ops \ CreatingOps, NEW seen \in LoadStatuses \cup {Nil},
         request[q].status # "NONE",
         KeepsRequests,
         job' = [job EXCEPT ![w] = Serving(q, op, seen)]
  PROVE  JobsWellFormed' /\ job' \in [Workers -> JobRow]
<1> DEFINE j == Serving(q, op, seen)
<1>1. /\ request[q].load \in Loads
      /\ request[q].truck \in Trucks
      /\ request[q].kind \in RequestKinds \cup {Nil}
  BY DEF BookingInv, RequestsWellFormed, TypeOK, DBTypeOK, RequestRow
<1>2. /\ j.op = op /\ j.req = q /\ j.load = request[q].load
      /\ j.truck = request[q].truck
  BY DEF Serving
<1>4. j \in JobRow
  BY <1>1 DEF Serving, JobRow
<1> HIDE DEF j
<1>5. job' = [job EXCEPT ![w] = j]
  BY DEF j
<1> QED
  BY <1>2, <1>4, <1>5, JobChange, NilAssumption DEF BookingInv, TypeOK

\* A handler checks a pair it is going to insert a request for.
LEMMA CreatePreserves ==
  ASSUME BookingInv, NEW w \in Workers, NEW l \in Loads, NEW t \in Trucks,
         NEW kind \in RequestKinds,
         UNCHANGED request,
         job' = [job EXCEPT ![w] = Creating(kind, l, t)]
  PROVE  JobsWellFormed' /\ job' \in [Workers -> JobRow]
<1> DEFINE j == Creating(kind, l, t)
<1>1. loadStatus[l] \in LoadStatuses
  BY DEF BookingInv, TypeOK, DBTypeOK
<1>2. /\ j \in JobRow /\ j.req = Nil /\ j.op = "insertRequest"
      /\ j.load = l /\ j.truck = t
  BY <1>1 DEF Creating, JobRow, Ops
<1>5. j.op \notin ServingOps
  BY <1>2 DEF ServingOps
<1>3. KeepsRequests
  BY DEF KeepsRequests
<1> HIDE DEF j
<1>4. job' = [job EXCEPT ![w] = j]
  BY DEF j
<1> QED
  BY <1>2, <1>3, <1>4, <1>5, JobChange DEF BookingInv, TypeOK

\* Nothing but the workers' memory changes.
LEMMA ReadOnly ==
  ASSUME BookingInv, UNCHANGED dbVars,
         JobsWellFormed' /\ job' \in [Workers -> JobRow]
  PROVE  BookingInv'
<1>1. TypeOK' /\ RequestsWellFormed'
  BY DEF BookingInv, dbVars, TypeOK, DBTypeOK, RequestsWellFormed
<1>2. BookedInv'
  BY NoBooking DEF BookingInv, BookedInv, dbVars, NothingUnderWay
<1> QED  BY <1>1, <1>2 DEF BookingInv, BookedInv

\* The reading half of the three handlers that create a request.
LEMMA BeginCreate ==
  ASSUME BookingInv, NEW w \in Workers, NEW l \in Loads, NEW t \in Trucks,
         \/ BeginLoadRequest(w, l, t)
         \/ BeginTruckRequest(w, l, t)
         \/ BeginProposal(w, l, t)
  PROVE  BookingInv'
<1>1. CASE BeginLoadRequest(w, l, t)
  BY <1>1, CreatePreserves, ReadOnly DEF BeginLoadRequest, Start, dbVars, RequestKinds
<1>2. CASE BeginTruckRequest(w, l, t)
  BY <1>2, CreatePreserves, ReadOnly DEF BeginTruckRequest, Start, dbVars, RequestKinds
<1>3. CASE BeginProposal(w, l, t)
  BY <1>3, CreatePreserves, ReadOnly DEF BeginProposal, Start, dbVars, RequestKinds
<1> QED  BY <1>1, <1>2, <1>3

\* The reading half of the handlers that answer or book a request.
LEMMA BeginServe ==
  ASSUME BookingInv, NEW w \in Workers, NEW q \in Requests,
         \/ BeginApprove(w, q)
         \/ BeginReject(w, q)
         \/ BeginExpire(w, q)
         \/ BeginConfirm(w, q)
         \/ BeginDecline(w, q)
         \/ BeginAcceptTruck(w, q)
         \/ BeginAcceptProposal(w, q)
  PROVE  BookingInv'
<1>1. ASSUME NEW op \in Ops \ CreatingOps, NEW seen \in LoadStatuses \cup {Nil},
             UNCHANGED dbVars, request[q].status # "NONE",
             Start(w, Serving(q, op, seen))
      PROVE  BookingInv'
  <2>1. KeepsRequests
    BY <1>1 DEF KeepsRequests, dbVars
  <2>2. JobsWellFormed' /\ job' \in [Workers -> JobRow]
    BY <1>1, <2>1, ServePreserves DEF Start
  <2> QED  BY <1>1, <2>2, ReadOnly
<1>2. CASE BeginReject(w, q)
  <2>1. loadStatus[request[q].load] \in LoadStatuses
    BY <1>2 DEF BeginReject, BookingInv, TypeOK, DBTypeOK, RequestsWellFormed
  <2> QED  BY <1>1, <1>2, <2>1 DEF BeginReject, Ops, CreatingOps
<1>3. CASE BeginApprove(w, q)
  BY <1>1, <1>3 DEF BeginApprove, Ops, CreatingOps
<1>4. CASE BeginExpire(w, q)
  BY <1>1, <1>4 DEF BeginExpire, Ops, CreatingOps
<1>5. CASE BeginConfirm(w, q)
  BY <1>1, <1>5 DEF BeginConfirm, Ops, CreatingOps
<1>6. CASE BeginDecline(w, q)
  BY <1>1, <1>6 DEF BeginDecline, Ops, CreatingOps
<1>7. CASE BeginAcceptTruck(w, q)
  BY <1>1, <1>7 DEF BeginAcceptTruck, MayAccept, Ops, CreatingOps
<1>8. CASE BeginAcceptProposal(w, q)
  BY <1>1, <1>8 DEF BeginAcceptProposal, MayAccept, Ops, CreatingOps
<1> QED  BY <1>2, <1>3, <1>4, <1>5, <1>6, <1>7, <1>8

\* A handler that dies leaves no trace.
LEMMA AbortPreserves ==
  ASSUME BookingInv, NEW w \in Workers, Abort(w)
  PROVE  BookingInv'
<1>1. KeepsRequests
  BY DEF Abort, KeepsRequests, dbVars
<1> QED  BY <1>1, FinishWork, ReadOnly DEF Abort, BookingInv, TypeOK

-----------------------------------------------------------------------------
(* Steps that write requests and load statuses, but book nothing *)

\* The market's statuses are overwritten with one of each other.
LEMMA MarketWrite ==
  ASSUME BookingInv,
         UNCHANGED <<assignedTruck, podSubmitted, trip, available, posting>>,
         request' \in [Requests -> RequestRow], RequestsWellFormed',
         JobsWellFormed' /\ job' \in [Workers -> JobRow],
         \/ UNCHANGED loadStatus
         \/ \E l \in Loads, s \in Bookable : loadStatus' = [loadStatus EXCEPT ![l] = s]
  PROVE  BookingInv'
<1>1. /\ loadStatus' \in [Loads -> LoadStatuses]
      /\ \A l \in Loads : loadStatus'[l] \in Bookable \cup {"ASSIGNED"}
  BY DEF BookingInv, TypeOK, DBTypeOK, NothingUnderWay, Bookable, LoadStatuses
<1>2. TypeOK'
  BY <1>1 DEF BookingInv, TypeOK, DBTypeOK
<1>3. BookedInv'
  BY <1>1, NoBooking DEF BookingInv, BookedInv
<1> QED  BY <1>2, <1>3 DEF BookingInv, BookedInv

\* Overwriting the status of an inserted request.
LEMMA SetRequestPreserves ==
  ASSUME BookingInv, NEW q \in Requests, NEW s \in RequestStatuses,
         request[q].status # "NONE", SetRequest(q, s)
  PROVE  /\ request' \in [Requests -> RequestRow]
         /\ RequestsWellFormed'
         /\ KeepsRequests
BY DEF BookingInv, TypeOK, DBTypeOK, RequestsWellFormed, KeepsRequests,
       SetRequest, RequestRow, RequestStatuses

\* A handler that serves a request finishes by overwriting its status.
LEMMA FinishRequest ==
  ASSUME BookingInv, NEW w \in Workers, NEW s \in RequestStatuses,
         job[w].req # Nil, SetRequest(job[w].req, s), Finish(w)
  PROVE  /\ request' \in [Requests -> RequestRow]
         /\ RequestsWellFormed'
         /\ JobsWellFormed' /\ job' \in [Workers -> JobRow]
<1>1. job[w].req \in Requests /\ request[job[w].req].status # "NONE"
  BY DEF BookingInv, TypeOK, JobRow, JobsWellFormed
<1>2. /\ request' \in [Requests -> RequestRow]
      /\ RequestsWellFormed'
      /\ KeepsRequests
  BY <1>1, SetRequestPreserves
<1> QED  BY <1>2, FinishWork DEF BookingInv, TypeOK

\* Reopening a load touches one load status at most.
LEMMA ReopenIsMarketWrite ==
  ASSUME BookingInv, NEW q \in Requests, request[q].status # "NONE",
         ReopenIfUnrequested(q)
  PROVE  \/ UNCHANGED loadStatus
         \/ \E l \in Loads, s \in Bookable : loadStatus' = [loadStatus EXCEPT ![l] = s]
BY DEF BookingInv, RequestsWellFormed, ReopenIfUnrequested, ReopenLoad, Bookable

\* The commits of a respond or decline handler, one case each.
LEMMA AnswerCommits ==
  ASSUME BookingInv, NEW w \in Workers,
         \/ CommitApprove(w)
         \/ RejectLoadRequest(w)
         \/ RejectTruckRequest(w)
         \/ RejectProposal(w)
         \/ CommitExpire(w)
         \/ CommitDecline(w)
  PROVE  BookingInv'
<1>1. job[w].op \in {"approve", "reject", "expire", "decline"}
  BY DEF CommitApprove, RejectLoadRequest, RejectTruckRequest, RejectProposal,
         CommitExpire, CommitDecline
<1>2. /\ job[w].req \in Requests
      /\ request[job[w].req].status # "NONE"
      /\ job[w].load \in Loads
  BY <1>1 DEF BookingInv, TypeOK, JobRow, JobsWellFormed, RequestsWellFormed, ServingOps
<1>3. CASE CommitApprove(w)
  BY <1>2, <1>3, FinishRequest, MarketWrite, NilAssumption
     DEF CommitApprove, RequestStatuses, loadVars, truckVars
<1>4. CASE CommitExpire(w)
  BY <1>2, <1>4, FinishRequest, MarketWrite, NilAssumption
     DEF CommitExpire, RequestStatuses, loadVars, truckVars
<1>5. CASE RejectProposal(w)
  BY <1>2, <1>5, FinishRequest, MarketWrite, NilAssumption
     DEF RejectProposal, RequestStatuses, loadVars, truckVars
<1>6. CASE RejectLoadRequest(w)
  BY <1>2, <1>6, FinishRequest, ReopenIsMarketWrite, MarketWrite, NilAssumption
     DEF RejectLoadRequest, RequestStatuses, truckVars
<1>7. CASE CommitDecline(w)
  BY <1>2, <1>7, FinishRequest, ReopenIsMarketWrite, MarketWrite, NilAssumption
     DEF CommitDecline, RequestStatuses, truckVars
<1>8. CASE RejectTruckRequest(w)
  <2>1. \/ UNCHANGED loadStatus
        \/ loadStatus' = [loadStatus EXCEPT ![job[w].load] = "POSTED"]
    BY <1>8 DEF RejectTruckRequest
  <2> QED
    BY <1>2, <1>8, <2>1, FinishRequest, MarketWrite, NilAssumption
       DEF RejectTruckRequest, RequestStatuses, truckVars, Bookable
<1> QED  BY <1>3, <1>4, <1>5, <1>6, <1>7, <1>8

\* Inserting a request, marking the load, and the carrier's cancellation.
LEMMA InsertPreserves ==
  ASSUME BookingInv, NEW w \in Workers, InsertRequest(w)
  PROVE  BookingInv'
<1>1. PICK q \in Requests :
        /\ request[q].status = "NONE"
        /\ request' = [request EXCEPT
             ![q] = [kind |-> job[w].kind, status |-> "PENDING",
                     load |-> job[w].load, truck |-> job[w].truck]]
  BY DEF InsertRequest, InsertRow
<1>2. /\ job[w] \in JobRow
      /\ job[w].load \in Loads /\ job[w].truck \in Trucks
  BY DEF InsertRequest, InsertRow, BookingInv, TypeOK, JobsWellFormed, CreatingOps
<1>3. request' \in [Requests -> RequestRow]
  BY <1>1, <1>2 DEF BookingInv, TypeOK, DBTypeOK, RequestRow, JobRow, RequestStatuses
<1>4. RequestsWellFormed' /\ KeepsRequests
  BY <1>1, <1>2 DEF BookingInv, TypeOK, DBTypeOK, RequestsWellFormed, KeepsRequests
<1>5. JobsWellFormed' /\ job' \in [Workers -> JobRow]
  <2>1. CASE Finish(w)
    BY <2>1, <1>4, FinishWork DEF BookingInv, TypeOK
  <2>2. CASE Continue(w, [job[w] EXCEPT !.op = "markLoad"])
    <3> DEFINE j == [job[w] EXCEPT !.op = "markLoad"]
    <3>1. /\ j \in JobRow /\ j.op = "markLoad" /\ j.req = job[w].req
          /\ j.load = job[w].load /\ j.truck = job[w].truck
      BY <1>2 DEF JobRow, Ops
    <3>2. j.req # Nil => /\ j.req \in Requests
                         /\ request[j.req].status # "NONE"
                         /\ j.load = request[j.req].load
                         /\ j.truck = request[j.req].truck
      BY <1>2, <3>1 DEF BookingInv, JobsWellFormed, JobRow
    <3> HIDE DEF j
    <3>3. job' = [job EXCEPT ![w] = j]
      BY <2>2 DEF Continue, j
    <3> QED
      BY <1>2, <1>4, <3>1, <3>2, <3>3, JobChange
         DEF BookingInv, TypeOK, ServingOps
  <2> QED  BY <2>1, <2>2 DEF InsertRequest, InsertRow
<1> QED
  BY <1>3, <1>4, <1>5, MarketWrite DEF InsertRequest, InsertRow, loadVars, truckVars

\* A load that is marked SEARCHING or OFFERED keeps its truck and its trip.
LEMMA MarkPreserves ==
  ASSUME BookingInv, NEW w \in Workers, MarkSearching(w) \/ MarkOffered(w)
  PROVE  BookingInv'
<1>1. PICK s \in {"SEARCHING", "OFFERED"}, kind \in RequestKinds : MarkLoad(w, kind, s)
  BY DEF MarkSearching, MarkOffered, RequestKinds
<1>2. job[w].load \in Loads
  BY <1>1 DEF MarkLoad, BookingInv, JobsWellFormed, CreatingOps
<1>3. KeepsRequests
  BY <1>1 DEF MarkLoad, KeepsRequests
<1>4. JobsWellFormed' /\ job' \in [Workers -> JobRow]
  BY <1>1, <1>3, FinishWork DEF MarkLoad, BookingInv, TypeOK
<1>5. request' \in [Requests -> RequestRow] /\ RequestsWellFormed'
  BY <1>1 DEF MarkLoad, BookingInv, TypeOK, DBTypeOK, RequestsWellFormed
<1> QED
  BY <1>1, <1>2, <1>4, <1>5, MarketWrite DEF MarkLoad, Bookable, truckVars

\* A shipper or carrier withdraws a request: only its row changes.
LEMMA CancelPreserves ==
  ASSUME BookingInv, NEW w \in Workers, NEW q \in Requests, CancelLoadRequest(w, q)
  PROVE  BookingInv'
<1>1. request[q].status # "NONE"
  BY DEF CancelLoadRequest, OpenLoadRequests
<1>2. /\ request' \in [Requests -> RequestRow]
      /\ RequestsWellFormed'
      /\ KeepsRequests
  BY <1>1, SetRequestPreserves DEF CancelLoadRequest, RequestStatuses
<1>3. JobsWellFormed' /\ job' \in [Workers -> JobRow]
  BY <1>1, <1>2, ServePreserves DEF CancelLoadRequest, Start, Ops, CreatingOps
<1> QED
  BY <1>2, <1>3, MarketWrite DEF CancelLoadRequest, loadVars, truckVars

\* The load of a withdrawn request goes back on the market, if nobody asks for it.
LEMMA ReopenPreserves ==
  ASSUME BookingInv, NEW w \in Workers, ReopenAfterCancel(w)
  PROVE  BookingInv'
<1>1. job[w].req \in Requests /\ request[job[w].req].status # "NONE"
  BY DEF ReopenAfterCancel, BookingInv, TypeOK, JobRow, JobsWellFormed, ServingOps
<1>2. KeepsRequests
  BY DEF ReopenAfterCancel, KeepsRequests
<1>3. JobsWellFormed' /\ job' \in [Workers -> JobRow]
  BY <1>2, FinishWork DEF ReopenAfterCancel, BookingInv, TypeOK
<1>4. request' \in [Requests -> RequestRow] /\ RequestsWellFormed'
  BY DEF ReopenAfterCancel, BookingInv, TypeOK, DBTypeOK, RequestsWellFormed
<1> QED
  BY <1>1, <1>3, <1>4, ReopenIsMarketWrite, MarketWrite
     DEF ReopenAfterCancel, truckVars

\* The two steps that belong to no worker's handler.
LEMMA WorkerlessPreserves ==
  ASSUME BookingInv,
         \/ \E q \in Requests : CancelTruckRequest(q)
         \/ \E Q \in SUBSET Requests : CronExpire(Q)
  PROVE  BookingInv'
<1>1. /\ UNCHANGED <<loadStatus, assignedTruck, podSubmitted, trip, available,
                     posting, job>>
      /\ request' \in [Requests -> RequestRow]
      /\ RequestsWellFormed' /\ KeepsRequests
  <2>1. CASE \E q \in Requests : CancelTruckRequest(q)
    BY <2>1, SetRequestPreserves
       DEF CancelTruckRequest, RequestStatuses, loadVars, truckVars
  <2>2. CASE \E Q \in SUBSET Requests : CronExpire(Q)
    <3>1. PICK Q \in SUBSET Requests : CronExpire(Q)
      BY <2>2
    <3>2. \A q \in Q : request[q].status = "PENDING"
      BY <3>1 DEF CronExpire
    <3>3. /\ request \in [Requests -> RequestRow]
          /\ request' = [q \in Requests |->
                           IF q \in Q THEN [request[q] EXCEPT !.status = "EXPIRED"]
                                      ELSE request[q]]
      BY <3>1 DEF CronExpire, BookingInv, TypeOK, DBTypeOK
    <3>4. \A q \in Requests :
            /\ request'[q] \in RequestRow
            /\ request'[q].load = request[q].load
            /\ request'[q].truck = request[q].truck
            /\ request[q].status # "NONE" => request'[q].status # "NONE"
            /\ request'[q].status # "NONE" => request[q].status # "NONE"
      BY <3>2, <3>3 DEF RequestRow, RequestStatuses
    <3>5. request' \in [Requests -> RequestRow]
      BY <3>3, <3>4
    <3>6. RequestsWellFormed' /\ KeepsRequests
      BY <3>4 DEF RequestsWellFormed, KeepsRequests, BookingInv
    <3> QED  BY <3>1, <3>5, <3>6 DEF CronExpire, loadVars, truckVars
  <2> QED  BY <2>1, <2>2
<1>2. JobsWellFormed' /\ job' \in [Workers -> JobRow]
  BY <1>1 DEF JobsWellFormed, KeepsRequests, BookingInv, TypeOK, JobRow
<1> QED  BY <1>1, <1>2, MarketWrite

-----------------------------------------------------------------------------
(* The three commits that book *)

\* A booking, with whatever other requests it voids: the unique columns keep the
\* records right, and a load that had a truck keeps it.
LEMMA BookStepPreserves ==
  ASSUME BookingInv, NEW w \in Workers, NEW voided \in SUBSET Requests,
         \A r \in voided : request[r].status # "NONE",
         job[w].req # Nil, Book(job[w].req, voided), Finish(w)
  PROVE  BookingInv' /\ (\A k \in Loads : assignedTruck[k] # Nil
                            => assignedTruck'[k] = assignedTruck[k])
<1> DEFINE q == job[w].req
<1>1. /\ q \in Requests
      /\ request[q].status # "NONE"
      /\ request[q].load \in Loads /\ request[q].truck \in Trucks
  BY DEF BookingInv, TypeOK, JobRow, JobsWellFormed, RequestsWellFormed
<1>2. /\ BookLoad(request[q].load, request[q].truck)
      /\ TakeOffMarket(request[q].truck)
  BY DEF Book
<1>3. BookedInv' /\ (\A k \in Loads : assignedTruck[k] # Nil
                        => assignedTruck'[k] = assignedTruck[k])
  BY <1>1, <1>2, BookPreserves DEF BookingInv, BookedInv
<1>4. \A r \in Requests :
        /\ request'[r] \in RequestRow
        /\ request'[r].load = request[r].load
        /\ request'[r].truck = request[r].truck
        /\ request[r].status # "NONE" <=> request'[r].status # "NONE"
  BY <1>1 DEF Book, BookingInv, TypeOK, DBTypeOK, RequestRow, RequestStatuses
<1>5. request' \in [Requests -> RequestRow]
  BY <1>4 DEF Book
<1>6. RequestsWellFormed' /\ KeepsRequests
  BY <1>4 DEF BookingInv, RequestsWellFormed, KeepsRequests
<1>7. JobsWellFormed' /\ job' \in [Workers -> JobRow]
  BY <1>6, FinishWork DEF BookingInv, TypeOK
<1>8. /\ loadStatus' \in [Loads -> LoadStatuses]
      /\ podSubmitted' \in [Loads -> BOOLEAN]
  BY <1>2 DEF BookLoad, WriteBooking, BookingInv, TypeOK, DBTypeOK, LoadStatuses
<1>9. assignedTruck' \in [Loads -> Trucks \cup {Nil}]
  BY <1>1, <1>2 DEF BookLoad, WriteBooking, TruckAfterRelease, BookingInv, TypeOK, DBTypeOK
<1>10. trip' \in [Trips -> TripRow]
  <2>1. TripsAfterDetach(request[q].load) \in [Trips -> TripRow]
    BY DEF TripsAfterDetach, BookingInv, TypeOK, DBTypeOK, TripRow
  <2>2. [status |-> "ASSIGNED", load |-> request[q].load,
         truck |-> request[q].truck] \in TripRow
    BY <1>1 DEF TripRow, TripStatuses
  <2> QED  BY <1>2, <2>1, <2>2 DEF BookLoad, WriteBooking
<1>11. available' \in [Trucks -> BOOLEAN] /\ posting' \in [Trucks -> PostingStatuses]
  BY <1>1, <1>2 DEF TakeOffMarket, BookingInv, TypeOK, DBTypeOK, PostingStatuses
<1> QED
  BY <1>3, <1>5, <1>6, <1>7, <1>8, <1>9, <1>10, <1>11
     DEF BookingInv, BookedInv, TypeOK, DBTypeOK

\* Confirmation and both kinds of acceptance are bookings of that shape.
LEMMA BookCommits ==
  ASSUME BookingInv, NEW w \in Workers,
         CommitConfirm(w) \/ CommitAcceptTruck(w) \/ CommitAcceptProposal(w)
  PROVE  BookingInv' /\ (\A k \in Loads : assignedTruck[k] # Nil
                            => assignedTruck'[k] = assignedTruck[k])
<1>1. job[w].req # Nil
  BY DEF CommitConfirm, CommitAcceptTruck, CommitAcceptProposal, BookingInv,
         JobsWellFormed, ServingOps
<1>2. PICK voided \in SUBSET Requests :
        /\ \A r \in voided : request[r].status # "NONE"
        /\ Book(job[w].req, voided)
  <2>1. CASE CommitConfirm(w)
    BY <2>1 DEF CommitConfirm, PendingForLoad, OpenLoadRequests
  <2>2. CASE CommitAcceptTruck(w)
    BY <2>2 DEF CommitAcceptTruck, PendingForLoad
  <2>3. CASE CommitAcceptProposal(w)
    BY <2>3 DEF CommitAcceptProposal, PendingForLoad
  <2> QED  BY <2>1, <2>2, <2>3
<1>3. Finish(w)
  BY DEF CommitConfirm, CommitAcceptTruck, CommitAcceptProposal
<1> QED  BY <1>1, <1>2, <1>3, BookStepPreserves

-----------------------------------------------------------------------------
(* Every step of the marketplace, by the handler that takes it *)

\* One step per action; only the booking commits touch Load.assignedTruckId.
LEMMA StepInv ==
  ASSUME BookingInv, BookingNext
  PROVE  BookingInv' /\ (\A k \in Loads : assignedTruck[k] # Nil
                            => assignedTruck'[k] = assignedTruck[k])
<1>1. ASSUME NEW w \in Workers, CreateStep(w)
      PROVE  BookingInv' /\ UNCHANGED assignedTruck
  <2>1. ASSUME NEW l \in Loads, NEW t \in Trucks,
               \/ BeginLoadRequest(w, l, t)
               \/ BeginTruckRequest(w, l, t)
               \/ BeginProposal(w, l, t)
        PROVE  BookingInv' /\ UNCHANGED assignedTruck
    BY <2>1, BeginCreate DEF BeginLoadRequest, BeginTruckRequest, BeginProposal, dbVars
  <2>2. CASE InsertRequest(w)
    BY <2>2, InsertPreserves DEF InsertRequest, InsertRow, loadVars
  <2>3. CASE MarkSearching(w) \/ MarkOffered(w)
    BY <2>3, MarkPreserves DEF MarkSearching, MarkOffered, MarkLoad
  <2> QED  BY <1>1, <2>1, <2>2, <2>3 DEF CreateStep
<1>2. ASSUME NEW w \in Workers, AnswerStep(w)
      PROVE  BookingInv' /\ UNCHANGED assignedTruck
  <2>1. ASSUME NEW q \in Requests,
               BeginApprove(w, q) \/ BeginReject(w, q) \/ BeginExpire(w, q)
        PROVE  BookingInv' /\ UNCHANGED assignedTruck
    BY <2>1, BeginServe DEF BeginApprove, BeginReject, BeginExpire, dbVars
  <2>2. ASSUME NEW q \in Requests, CancelLoadRequest(w, q)
        PROVE  BookingInv' /\ UNCHANGED assignedTruck
    BY <2>2, CancelPreserves DEF CancelLoadRequest, loadVars
  <2>3. CASE CommitApprove(w) \/ RejectProposal(w) \/ CommitExpire(w)
    BY <2>3, AnswerCommits DEF CommitApprove, RejectProposal, CommitExpire, loadVars
  <2>4. CASE RejectLoadRequest(w) \/ RejectTruckRequest(w)
    BY <2>4, AnswerCommits DEF RejectLoadRequest, RejectTruckRequest
  <2>5. CASE ReopenAfterCancel(w)
    BY <2>5, ReopenPreserves DEF ReopenAfterCancel
  <2> QED  BY <1>2, <2>1, <2>2, <2>3, <2>4, <2>5 DEF AnswerStep
<1>3. ASSUME NEW w \in Workers, BookStep(w)
      PROVE  BookingInv' /\ (\A k \in Loads : assignedTruck[k] # Nil
                                => assignedTruck'[k] = assignedTruck[k])
  <2>1. ASSUME NEW q \in Requests,
               \/ BeginConfirm(w, q)
               \/ BeginDecline(w, q)
               \/ BeginAcceptTruck(w, q)
               \/ BeginAcceptProposal(w, q)
        PROVE  BookingInv' /\ UNCHANGED assignedTruck
    BY <2>1, BeginServe
       DEF BeginConfirm, BeginDecline, BeginAcceptTruck, BeginAcceptProposal, dbVars
  <2>2. CASE CommitDecline(w)
    BY <2>2, AnswerCommits DEF CommitDecline
  <2>3. CASE CommitConfirm(w) \/ CommitAcceptTruck(w) \/ CommitAcceptProposal(w)
    BY <2>3, BookCommits
  <2> QED  BY <1>3, <2>1, <2>2, <2>3 DEF BookStep
<1>4. ASSUME NEW w \in Workers, Abort(w)
      PROVE  BookingInv' /\ UNCHANGED assignedTruck
  BY <1>4, AbortPreserves DEF Abort, dbVars
<1>5. ASSUME \/ \E q \in Requests : CancelTruckRequest(q)
             \/ \E Q \in SUBSET Requests : CronExpire(Q)
      PROVE  BookingInv' /\ UNCHANGED assignedTruck
  BY <1>5, WorkerlessPreserves DEF CancelTruckRequest, CronExpire, loadVars
<1> QED  BY <1>1, <1>2, <1>3, <1>4, <1>5 DEF BookingNext

\* A stuttering step changes nothing.
LEMMA StutterInv ==
  ASSUME BookingInv, UNCHANGED vars
  PROVE  BookingInv'
BY ReadOnly DEF vars, dbVars, BookingInv, TypeOK, JobsWellFormed

\* The promises follow from the inductive invariant.
LEMMA InvImplies == BookingInv => TypeOK /\ NoDoubleBooking /\ BookingAgrees /\ BusyOffMarket
<1>1. SUFFICES ASSUME BookingInv,
                      NEW x \in Trips, NEW y \in Trips, x # y,
                      trip[x].status \in Blocking, trip[y].status \in Blocking
               PROVE  trip[x].truck # trip[y].truck /\ trip[x].load # trip[y].load
  BY DEF BookingInv, NoDoubleBooking
<1>2. /\ trip[x].load \in Loads /\ trip[x].truck \in Trucks
      /\ trip[y].load \in Loads /\ trip[y].truck \in Trucks
  BY <1>1 DEF BookingInv, NothingUnderWay, Blocking
<1>3. trip[x].load # trip[y].load
  BY <1>1, <1>2, NilAssumption DEF BookingInv, TripUnique
<1>4. /\ assignedTruck[trip[x].load] = trip[x].truck
      /\ assignedTruck[trip[y].load] = trip[y].truck
  BY <1>1, <1>2 DEF BookingInv, BookingAgrees
<1> QED  BY <1>1, <1>2, <1>3, <1>4, NilAssumption DEF BookingInv, TruckUnique

-----------------------------------------------------------------------------
(* The partial unique index on pending requests *)

\* Requests are answered, cancelled or let lapse; none becomes PENDING again.
NoneReopened ==
  \A q \in Requests : request'[q].status = "PENDING"
    => /\ request[q].status = "PENDING"
       /\ request'[q].kind = request[q].kind
       /\ request'[q].load = request[q].load
       /\ request'[q].truck = request[q].truck

\* A step that makes no request PENDING keeps the pending pairs apart.
LEMMA NoneReopenedKeepsPairs ==
  ASSUME OnePendingPerPair, NoneReopened
  PROVE  OnePendingPerPair'
BY DEF OnePendingPerPair, NoneReopened

\* Writing another status than PENDING to a request makes none PENDING.
LEMMA SetRequestReopensNone ==
  ASSUME request \in [Requests -> RequestRow],
         NEW q, NEW status, status # "PENDING", SetRequest(q, status)
  PROVE  NoneReopened
<1> SUFFICES ASSUME NEW r \in Requests, request'[r].status = "PENDING"
             PROVE  request'[r] = request[r]
  BY DEF NoneReopened
<1>1. request[r] \in RequestRow
  OBVIOUS
<1>2. CASE q = r
  <2>1. request'[r].status = status
    BY <1>1, <1>2 DEF SetRequest, RequestRow
  <2> QED  BY <2>1
<1>3. CASE q # r
  BY <1>3 DEF SetRequest
<1> QED  BY <1>2, <1>3

\* The booking transaction approves one request and cancels others.
LEMMA BookReopensNone ==
  ASSUME request \in [Requests -> RequestRow],
         NEW q, NEW voided, Book(q, voided)
  PROVE  NoneReopened
<1> SUFFICES ASSUME NEW r \in Requests, request'[r].status = "PENDING"
             PROVE  request'[r] = request[r]
  BY DEF NoneReopened
<1>1. request[r] \in RequestRow
  OBVIOUS
<1>2. request'[r] = CASE r = q -> [request[r] EXCEPT !.status = "APPROVED"]
                      [] r \in voided \ {q} -> [request[r] EXCEPT !.status = "CANCELLED"]
                      [] OTHER -> request[r]
  BY DEF Book
<1>3. CASE r = q
  BY <1>1, <1>2, <1>3 DEF RequestRow
<1>4. CASE r # q /\ r \in voided
  BY <1>1, <1>2, <1>4 DEF RequestRow
<1>5. CASE r # q /\ r \notin voided
  BY <1>2, <1>5
<1> QED  BY <1>3, <1>4, <1>5

\* The insert is the one step that makes a request PENDING, and the index
\* refuses it when the pair has a PENDING request of its kind.
LEMMA InsertKeepsPairs ==
  ASSUME request \in [Requests -> RequestRow], OnePendingPerPair,
         NEW w \in Workers, InsertRequest(w)
  PROVE  OnePendingPerPair'
<1>1. PICK n \in Requests :
        request' = [request EXCEPT
          ![n] = [kind |-> job[w].kind, status |-> "PENDING",
                  load |-> job[w].load, truck |-> job[w].truck]]
  BY DEF InsertRequest, InsertRow
<1>2. /\ request'[n] = [kind |-> job[w].kind, status |-> "PENDING",
                        load |-> job[w].load, truck |-> job[w].truck]
      /\ \A r \in Requests \ {n} : request'[r] = request[r]
  BY <1>1
<1>3. \A r \in Requests \ {n} :
        ~ (/\ request'[r].status = "PENDING"
           /\ request'[r].kind = request'[n].kind
           /\ request'[r].load = request'[n].load
           /\ request'[r].truck = request'[n].truck)
  BY <1>2 DEF InsertRequest, PendingRequests
<1> SUFFICES ASSUME NEW q \in Requests, NEW r \in Requests, q # r,
                    request'[q].status = "PENDING", request'[r].status = "PENDING",
                    request'[q].kind = request'[r].kind
             PROVE  request'[q].load # request'[r].load \/ request'[q].truck # request'[r].truck
  BY DEF OnePendingPerPair
<1>4. CASE q = n
  BY <1>2, <1>3, <1>4
<1>5. CASE r = n
  BY <1>2, <1>3, <1>5
<1>6. CASE q # n /\ r # n
  BY <1>2, <1>6 DEF OnePendingPerPair
<1> QED  BY <1>4, <1>5, <1>6

\* One step per action: all but the insert make no request PENDING.
LEMMA PairsStep ==
  ASSUME request \in [Requests -> RequestRow], OnePendingPerPair, BookingNext
  PROVE  OnePendingPerPair'
<1>0. UNCHANGED request => NoneReopened
  BY DEF NoneReopened
<1>1. ASSUME NEW w \in Workers, CreateStep(w)
      PROVE  OnePendingPerPair'
  <2>1. ASSUME NEW l \in Loads, NEW t \in Trucks,
               \/ BeginLoadRequest(w, l, t)
               \/ BeginTruckRequest(w, l, t)
               \/ BeginProposal(w, l, t)
        PROVE  NoneReopened
    BY <2>1, <1>0 DEF BeginLoadRequest, BeginTruckRequest, BeginProposal, dbVars
  <2>2. CASE InsertRequest(w)
    BY <2>2, InsertKeepsPairs
  <2>3. CASE MarkSearching(w) \/ MarkOffered(w)
    BY <2>3, <1>0, NoneReopenedKeepsPairs DEF MarkSearching, MarkOffered, MarkLoad
  <2> QED  BY <1>1, <2>1, <2>2, <2>3, NoneReopenedKeepsPairs DEF CreateStep
<1>2. ASSUME NEW w \in Workers, AnswerStep(w)
      PROVE  NoneReopened
  <2>1. ASSUME NEW q \in Requests,
               BeginApprove(w, q) \/ BeginReject(w, q) \/ BeginExpire(w, q)
        PROVE  NoneReopened
    BY <2>1, <1>0 DEF BeginApprove, BeginReject, BeginExpire, dbVars
  <2>2. ASSUME NEW q \in Requests, CancelLoadRequest(w, q)
        PROVE  NoneReopened
    BY <2>2, SetRequestReopensNone DEF CancelLoadRequest
  <2>3. CASE CommitApprove(w)
    BY <2>3, SetRequestReopensNone DEF CommitApprove
  <2>4. CASE RejectLoadRequest(w) \/ RejectTruckRequest(w) \/ RejectProposal(w)
    BY <2>4, SetRequestReopensNone
       DEF RejectLoadRequest, RejectTruckRequest, RejectProposal
  <2>5. CASE CommitExpire(w)
    BY <2>5, SetRequestReopensNone DEF CommitExpire
  <2>6. CASE ReopenAfterCancel(w)
    BY <2>6, <1>0 DEF ReopenAfterCancel
  <2> QED  BY <1>2, <2>1, <2>2, <2>3, <2>4, <2>5, <2>6 DEF AnswerStep
<1>3. ASSUME NEW w \in Workers, BookStep(w)
      PROVE  NoneReopened
  <2>1. ASSUME NEW q \in Requests,
               \/ BeginConfirm(w, q)
               \/ BeginDecline(w, q)
               \/ BeginAcceptTruck(w, q)
               \/ BeginAcceptProposal(w, q)
        PROVE  NoneReopened
    BY <2>1, <1>0
       DEF BeginConfirm, BeginDecline, BeginAcceptTruck, BeginAcceptProposal, dbVars
  <2>2. CASE CommitDecline(w)
    BY <2>2, SetRequestReopensNone DEF CommitDecline
  <2>3. CASE CommitConfirm(w) \/ CommitAcceptTruck(w) \/ CommitAcceptProposal(w)
    BY <2>3, BookReopensNone
       DEF CommitConfirm, CommitAcceptTruck, CommitAcceptProposal
  <2> QED  BY <1>3, <2>1, <2>2, <2>3 DEF BookStep
<1>4. ASSUME NEW w \in Workers, Abort(w)
      PROVE  NoneReopened
  BY <1>4, <1>0 DEF Abort, dbVars
<1>5. ASSUME NEW q \in Requests, CancelTruckRequest(q)
      PROVE  NoneReopened
  BY <1>5, SetRequestReopensNone DEF CancelTruckRequest
<1>6. ASSUME NEW Q \in SUBSET Requests, CronExpire(Q)
      PROVE  NoneReopened
  <2> SUFFICES ASSUME NEW r \in Requests, request'[r].status = "PENDING"
               PROVE  request'[r] = request[r]
    BY DEF NoneReopened
  <2>1. request[r] \in RequestRow
    OBVIOUS
  <2>2. request'[r] = IF r \in Q THEN [request[r] EXCEPT !.status = "EXPIRED"]
                                 ELSE request[r]
    BY <1>6 DEF CronExpire
  <2> QED  BY <2>1, <2>2 DEF RequestRow
<1> QED
  BY <1>1, <1>2, <1>3, <1>4, <1>5, <1>6, NoneReopenedKeepsPairs DEF BookingNext

\* The inductive invariant holds in every reachable state, for any number of
\* loads, trucks, requests, trips and concurrent handlers.
THEOREM BookingInvariant == Spec => []BookingInv
<1>1. BookingInv /\ [BookingNext]_vars => BookingInv'
  BY StepInv, StutterInv
<1> QED  BY InitInv, <1>1, PTL DEF Spec

\* Rows and handlers' memories always have their columns' types.
THEOREM BookingTypes == Spec => []TypeOK
BY BookingInvariant, InvImplies, PTL

\* No truck has two active trips and no load has two, whatever requests are
\* confirmed and accepted at the same time: the unique columns
\* Load.assignedTruckId and Trip.loadId catch what the unlocked checks miss.
THEOREM NeverDoubleBooked == Spec => []NoDoubleBooking
BY BookingInvariant, InvImplies, PTL

\* Load.assignedTruckId and the load's active trip always name the same truck.
THEOREM RecordsAgree == Spec => []BookingAgrees
BY BookingInvariant, InvImplies, PTL

\* A booked truck is off the marketplace: not available, its posting not ACTIVE.
THEOREM BookedTruckOffMarket == Spec => []BusyOffMarket
BY BookingInvariant, InvImplies, PTL

\* No handler takes a booked load away from its truck.
THEOREM BookingsAreFinal == Spec => BookingIsFinal
<1>1. BookingInv /\ [BookingNext]_vars
        => [\A l \in Loads : assignedTruck[l] # Nil
              => assignedTruck'[l] = assignedTruck[l]]_vars
  BY StepInv
<1> QED  BY BookingInvariant, <1>1, PTL DEF Spec, BookingIsFinal

\* Two requests of one kind for one load and truck are never both PENDING, however
\* many handlers have found none and are about to insert.
THEOREM OnePendingForAPair == Spec => []OnePendingPerPair
<1>1. DBInit => OnePendingPerPair
  BY DEF DBInit, OnePendingPerPair, NoRequestRow
<1>2. BookingInv /\ OnePendingPerPair /\ [BookingNext]_vars => OnePendingPerPair'
  <2>1. ASSUME BookingInv, OnePendingPerPair, BookingNext
        PROVE  OnePendingPerPair'
    BY <2>1, PairsStep DEF BookingInv, TypeOK, DBTypeOK
  <2>2. ASSUME OnePendingPerPair, UNCHANGED vars
        PROVE  OnePendingPerPair'
    BY <2>2 DEF OnePendingPerPair, vars, dbVars
  <2> QED  BY <2>1, <2>2
<1> QED  BY <1>1, <1>2, BookingInvariant, PTL DEF Spec
=============================================================================
