---------------------------- MODULE LoadDeskProofs ----------------------------
(***************************************************************************)
(* Bookings, trips and the handlers that go round them together, for any   *)
(* number of loads, trucks, requests, trips, workers and desks.  Much less *)
(* is true here than in FreightProofs, as a desk may write a load or a     *)
(* trip in any state.  DeskInv keeps what survives: an active trip has its *)
(* load, no two trips share one, a trip never gets another load, and the   *)
(* trip of a transaction that has written it does not move.                *)
(*                                                                         *)
(* A step leaves the trips alone (lemma QuietRows), inserts one (BookRows) *)
(* or writes one (WriteRows); StepOK is what is shown of every step.       *)
(***************************************************************************)
EXTENDS LoadDesk, MarketProofs, TLAPS

\* The rows, the jobs and the desks, apart.
RowsInv == DBTypeOK /\ RequestsWellFormed /\ TripRowsFit /\ TripUnique

JobsInv ==
  /\ job \in [Workers -> JobRow]
  /\ \A w \in Workers : Remembers(job[w])
  /\ CountedHoldRow

DesksInv ==
  /\ desk \in [Desks -> DeskRow]
  /\ \A d \in Desks : Recalls(desk[d])

\* DeskInv is made of these parts.
LEMMA Parts == DeskInv <=> RowsInv /\ JobsInv /\ DesksInv /\ calls \in 0 .. MaxCalls
BY DEF DeskInv, DeskTypeOK, TypeOK, RowsInv, JobsInv, DesksInv

\* Initially nothing is requested, booked or worked on.
LEMMA DeskInitInv == DeskInit => DeskInv
<1> SUFFICES ASSUME DeskInit
             PROVE  RowsInv /\ JobsInv /\ DesksInv /\ calls \in 0 .. MaxCalls
  BY Parts
<1>1. DBTypeOK /\ RequestsWellFormed
  BY DEF DeskInit, DBInit, DBTypeOK, LoadStatuses, NoTripRow, TripRow, NoRequestRow,
     RequestRow, PostingStatuses, RequestsWellFormed
<1>2. TripRowsFit /\ TripUnique
  BY DEF DeskInit, DBInit, NoTripRow, TripRowsFit, TripUnique, Blocking
<1>3. JobsInv
  BY DEF DeskInit, DBInit, JobsInv, Remembers, CountedHoldRow, Idle, JobRow, Ops, TripOps,
     ServingOps
<1>4. DesksInv
  BY DEF DeskInit, DesksInv, Recalls, NoDesk, DeskRow, DeskOps
<1>5. calls \in 0 .. MaxCalls
  BY MaxCallsAssumption DEF DeskInit
<1> QED
  BY <1>1, <1>2, <1>3, <1>4, <1>5 DEF RowsInv

-----------------------------------------------------------------------------
(* What a handler knows stays true while others write. *)

\* Rows are inserted once, and a trip keeps its load or loses it.
Kept ==
  /\ \A q \in Requests : request[q].status # "NONE" => request'[q].status # "NONE"
  /\ \A x \in Trips : trip[x].status # "NONE" =>
       trip'[x].status # "NONE" /\ trip'[x].load \in {trip[x].load, Nil}

\* No trip moves that a worker holds the row of.
LocksHold(W) ==
  \A v \in W : job[v].others # "uncounted"
    => trip'[job[v].trip].status = trip[job[v].trip].status

\* Knowledge of a job or of a desk is kept.
LEMMA KnowledgeKept ==
  ASSUME Kept
  PROVE  /\ \A j \in JobRow : Remembers(j) => Remembers(j)'
         /\ \A r \in DeskRow : Recalls(r) => Recalls(r)'
<1>1. ASSUME NEW j \in JobRow, Remembers(j) PROVE Remembers(j)'
  BY <1>1 DEF Kept, Remembers, MadeFor, JobRow
<1>2. ASSUME NEW r \in DeskRow, Recalls(r) PROVE Recalls(r)'
  BY <1>2 DEF Kept, Recalls, MadeFor, DeskRow
<1> QED
  BY <1>1, <1>2

\* One worker goes over to job j, which has counted nothing.
LEMMA JobsKept ==
  ASSUME JobsInv, Kept, NEW w \in Workers, NEW j \in JobRow,
         job' = [job EXCEPT ![w] = j], Remembers(j), j.others = "uncounted",
         LocksHold(Workers \ {w})
  PROVE  JobsInv'
<1>1. /\ job' \in [Workers -> JobRow]
      /\ job'[w] = j
      /\ \A v \in Workers \ {w} : job'[v] = job[v]
      /\ \A v \in Workers : job[v] \in JobRow /\ Remembers(job[v])
  BY DEF JobsInv
<1>2. ASSUME NEW v \in Workers PROVE Remembers(job[v])'
  <2>1. PICK e \in JobRow : e = job'[v]
    BY <1>1
  <2>2. Remembers(e)
    BY <1>1, <2>1
  <2>3. Remembers(e)'
    BY <2>2, KnowledgeKept
  <2> QED
    BY <2>1, <2>3 DEF Remembers, MadeFor
<1>3. CountedHoldRow'
  <2> SUFFICES ASSUME NEW v \in Workers, job'[v].others # "uncounted"
               PROVE  /\ job'[v].op \in TripOps
                      /\ Releases(v)'
                      /\ RowFree(v)'
                      /\ GuardHolds(v)'
    BY DEF CountedHoldRow
  <2>1. v # w /\ job'[v] = job[v]
    BY <1>1
  <2>2. job[v].op \in TripOps /\ Releases(v) /\ RowFree(v) /\ GuardHolds(v)
    BY <2>1 DEF JobsInv, CountedHoldRow
  <2>3. trip'[job[v].trip].status = trip[job[v].trip].status
    BY <2>1 DEF LocksHold
  <2>4. Releases(v)' /\ GuardHolds(v)'
    BY <2>1, <2>2, <2>3 DEF Releases, GuardHolds
  <2>5. RowFree(v)'
    BY <2>1, <2>2, <1>1 DEF RowFree
  <2> QED
    BY <2>1, <2>2, <2>4, <2>5
<1> QED
  BY <1>1, <1>2, <1>3 DEF JobsInv

\* An idle worker has nothing to remember.
LEMMA IdleFits == Idle \in JobRow /\ Remembers(Idle) /\ Idle.others = "uncounted"
BY DEF Idle, JobRow, Ops, Remembers, TripOps, ServingOps

\* The same for a handler that ends.
LEMMA JobEnds ==
  ASSUME JobsInv, Kept, NEW w \in Workers, Finish(w), LocksHold(Workers \ {w})
  PROVE  JobsInv'
BY IdleFits, JobsKept DEF Finish

\* The workers are at rest.
LEMMA JobsStay ==
  ASSUME JobsInv, Kept, job' = job, LocksHold(Workers)
  PROVE  JobsInv'
<1>1. ASSUME NEW v \in Workers PROVE Remembers(job[v])'
  <2>1. PICK e \in JobRow : e = job[v]
    BY DEF JobsInv
  <2>2. Remembers(e)'
    BY <2>1, KnowledgeKept DEF JobsInv
  <2> QED
    BY <2>1, <2>2 DEF Remembers, MadeFor
<1>2. CountedHoldRow'
  BY DEF JobsInv, CountedHoldRow, LocksHold, Releases, RowFree, GuardHolds
<1> QED
  BY <1>1, <1>2 DEF JobsInv

\* One desk goes over to r.
LEMMA DesksKept ==
  ASSUME DesksInv, Kept, NEW d \in Desks, NEW r \in DeskRow, Recalls(r),
         desk' = [desk EXCEPT ![d] = r]
  PROVE  DesksInv'
<1>1. desk' \in [Desks -> DeskRow]
  BY DEF DesksInv
<1>2. ASSUME NEW c \in Desks PROVE Recalls(desk[c])'
  <2>1. PICK e \in DeskRow : e = desk'[c]
    BY <1>1
  <2>2. Recalls(e)
    BY <2>1 DEF DesksInv
  <2>3. Recalls(e)'
    BY <2>2, KnowledgeKept
  <2> QED
    BY <2>1, <2>3 DEF Recalls, MadeFor
<1> QED
  BY <1>1, <1>2 DEF DesksInv

\* The desks are at rest.
LEMMA DesksStay ==
  ASSUME DesksInv, Kept, desk' = desk
  PROVE  DesksInv'
<1>1. ASSUME NEW c \in Desks PROVE Recalls(desk[c])'
  <2>1. PICK e \in DeskRow : e = desk[c]
    BY DEF DesksInv
  <2>2. Recalls(e)'
    BY <2>1, KnowledgeKept DEF DesksInv
  <2> QED
    BY <2>1, <2>2 DEF Recalls, MadeFor
<1> QED
  BY <1>1 DEF DesksInv

\* A desk whose handler ends or goes on to clear requests knows no less.
LEMMA DesksMove ==
  ASSUME DesksInv, Kept, NEW d \in Desks,
         Rise(d) \/ \E op \in {"clearTruck", "clearLoad", "clearMatch"} :
                      (At(d, "unpost") \/ At(d, "clearTruck") \/ At(d, "clearLoad")) /\ Turn(d, op)
  PROVE  DesksInv'
<1>1. CASE Rise(d)
  <2>1. NoDesk \in DeskRow /\ Recalls(NoDesk)
    BY DEF NoDesk, DeskRow, DeskOps, Recalls
  <2> QED
    BY <1>1, <2>1, DesksKept DEF Rise
<1>2. ASSUME NEW op \in {"clearTruck", "clearLoad", "clearMatch"}, Turn(d, op),
             desk[d].op # "none"
      PROVE  DesksInv'
  <2>1. PICK r : r = [desk[d] EXCEPT !.op = op]
    OBVIOUS
  <2>2. desk[d] \in DeskRow /\ Recalls(desk[d])
    BY DEF DesksInv
  <2>3. r \in DeskRow
    BY <2>1, <2>2 DEF DeskRow, DeskOps
  <2>4. r.op = op /\ r.load = desk[d].load /\ r.next = desk[d].next /\ r.trip = desk[d].trip
    BY <2>1, <2>2 DEF DeskRow
  <2>5. Recalls(r)
    BY <2>2, <2>4, <1>2 DEF Recalls
  <2>6. desk' = [desk EXCEPT ![d] = r]
    BY <1>2, <2>1 DEF Turn, DesksInv
  <2> QED
    BY <2>3, <2>5, <2>6, DesksKept
<1> QED
  BY <1>1, <1>2 DEF At

-----------------------------------------------------------------------------
(* Rows *)

\* The bodies of the three properties.
TakenOK ==
  \A x \in Trips : Carried(x) /\ trip'[x].status \in Moving /\ ~Carried(x)'
       => \/ OutOfDate(trip[x].load)
          \/ \E d \in Desks : Acts(d) /\ At(d, "dispatch")
          \/ loadStatus'[trip[x].load] = "EXPIRED"

RevivedOK ==
  \A x \in Trips : trip[x].status \in TerminalTrip /\ trip'[x].status # trip[x].status
       => \/ \E d \in Desks : Acts(d) /\ At(d, "edit")
          \/ \E w \in Workers : /\ job[w].op \in {"confirmDelivery", "uploadPod"}
                                /\ job[w].trip = x /\ job'[w] = Idle

FreedOK ==
  \A t \in Trucks : BlockingTrips(t) # {} /\ BlockingTrips(t)' = {} /\ ~available'[t]
       => \/ \E d \in Desks : /\ Acts(d)
                              /\ \/ At(d, "edit")
                                 \/ desk[d].next = "EXPIRED"
                                 \/ desk[d].others = "some"
                                 \/ Stale(d)
          \/ \E w \in Workers : /\ job[w].others = "some" \/ Astray(w)
                                /\ job[w] # Idle /\ job'[w] = Idle

\* What is to be shown of every step, but for the bound on calls.
StepOK == RowsInv' /\ JobsInv' /\ DesksInv' /\ TakenOK /\ RevivedOK /\ FreedOK

\* Types of the rows, where a proof needs them one by one.
LEMMA RowTypes ==
  ASSUME DeskInv
  PROVE  /\ loadStatus \in [Loads -> LoadStatuses]
         /\ assignedTruck \in [Loads -> Trucks \cup {Nil}]
         /\ trip \in [Trips -> TripRow]
         /\ request \in [Requests -> RequestRow]
         /\ available \in [Trucks -> BOOLEAN]
         /\ \A x \in Trips : /\ trip[x].status \in TripStatuses \cup {"NONE"}
                             /\ trip[x].load \in Loads \cup {Nil}
                             /\ trip[x].truck \in Trucks \cup {Nil}
BY DEF DeskInv, DeskTypeOK, TypeOK, DBTypeOK, TripRow

\* A moving trip is active and has a load, which is no other trip's.
LEMMA MovingTrip ==
  ASSUME DeskInv, NEW x \in Trips, trip[x].status \in Moving
  PROVE  /\ trip[x].status \in Blocking
         /\ trip[x].load \in Loads
         /\ trip[x].load # Nil
         /\ \A y \in Trips \ {x} : trip[y].load # trip[x].load
BY NilAssumption DEF DeskInv, TripRowsFit, TripUnique, Moving, Blocking

\* No trip is written, and no load is taken off its truck or given a final status.
LEMMA QuietRows ==
  ASSUME DeskInv, UNCHANGED <<assignedTruck, trip>>, DBTypeOK', RequestsWellFormed',
         \A l \in Loads : loadStatus'[l] = loadStatus[l] \/ loadStatus'[l] \notin Released
  PROVE  RowsInv' /\ TakenOK /\ RevivedOK /\ FreedOK
<1>1. RowsInv'
  BY DEF DeskInv, RowsInv, TripRowsFit, TripUnique
<1>2. TakenOK
  BY MovingTrip DEF TakenOK, Carried
<1>3. RevivedOK /\ FreedOK
  BY DEF RevivedOK, FreedOK, BlockingTrips
<1> QED
  BY <1>1, <1>2, <1>3

\* One trip is inserted, as every booking does.
Inserts(l, t) ==
  /\ \A x \in Trips : TripsAfterDetach(l)[x].load # l
  /\ \E x \in Trips :
       /\ trip[x].status = "NONE"
       /\ trip' = [TripsAfterDetach(l) EXCEPT
                     ![x] = [status |-> "ASSIGNED", load |-> l, truck |-> t]]
  /\ \A k \in Loads \ {l} :
       /\ loadStatus'[k] = loadStatus[k]
       /\ assignedTruck'[k] = assignedTruck[k] \/ loadStatus[k] \in Released

\* Such an insertion keeps the rows' invariant and the three properties.
LEMMA BookRows ==
  ASSUME DeskInv, NEW l \in Loads, NEW t \in Trucks \cup {Nil}, Inserts(l, t),
         loadStatus' \in [Loads -> LoadStatuses],
         assignedTruck' \in [Loads -> Trucks \cup {Nil}],
         podSubmitted' \in [Loads -> BOOLEAN],
         request' \in [Requests -> RequestRow], RequestsWellFormed',
         available' \in [Trucks -> BOOLEAN], posting' \in [Trucks -> PostingStatuses]
  PROVE  /\ RowsInv' /\ TakenOK /\ RevivedOK /\ FreedOK
         /\ \A x \in Trips : trip[x].status # "NONE" =>
              /\ trip'[x].status = trip[x].status
              /\ trip'[x].load \in {trip[x].load, Nil}
<1>1. PICK y \in Trips :
        /\ trip[y].status = "NONE"
        /\ trip' = [TripsAfterDetach(l) EXCEPT
                      ![y] = [status |-> "ASSIGNED", load |-> l, truck |-> t]]
  BY DEF Inserts
<1>2. \A x \in Trips \ {y} : /\ trip'[x].status = trip[x].status
                             /\ trip'[x].truck = trip[x].truck
                             /\ trip'[x].load \in {trip[x].load, Nil}
                             /\ trip'[x].load # l
                             /\ trip[x].status # "CANCELLED" => trip'[x] = trip[x]
  BY <1>1, RowTypes DEF TripsAfterDetach, TripRow, Inserts
<1>3. trip' \in [Trips -> TripRow]
  BY <1>1, RowTypes DEF TripsAfterDetach, TripRow, TripStatuses
<1>4. trip'[y].status = "ASSIGNED" /\ trip'[y].load = l
  BY <1>1, <1>3 DEF TripsAfterDetach
<1>5. DBTypeOK'
  BY <1>3 DEF DBTypeOK
<1>6. TripRowsFit'
  BY <1>2, <1>4 DEF DeskInv, TripRowsFit, Blocking
<1>7. TripUnique'
  BY <1>2, <1>4, NilAssumption DEF DeskInv, TripUnique
<1>8. TakenOK
  <2> SUFFICES ASSUME NEW x \in Trips, Carried(x) PROVE Carried(x)'
    BY DEF TakenOK
  <2>1. trip[x].status \in Moving /\ trip[x].load \in Loads
    BY MovingTrip DEF Carried
  <2>2. x # y /\ trip'[x] = trip[x]
    BY <1>1, <1>2, <2>1 DEF Moving
  <2>3. trip[x].load # l
    BY <1>2, <2>2
  <2> QED
    BY <2>1, <2>2, <2>3 DEF Carried, Inserts
<1>9. RevivedOK
  BY <1>1, <1>2 DEF RevivedOK, TerminalTrip
<1>10. FreedOK
  BY <1>1, <1>2 DEF FreedOK, BlockingTrips, Blocking
<1> QED
  BY <1>1, <1>2, <1>5, <1>6, <1>7, <1>8, <1>9, <1>10 DEF RowsInv

\* One trip is written.  It may lose its load when it is no longer active.
LEMMA WriteRows ==
  ASSUME DeskInv, NEW x \in Trips, NEW s \in TripStatuses, NEW l, NEW t \in Trucks \cup {Nil},
         trip' = [trip EXCEPT ![x] = [status |-> s, load |-> l, truck |-> t]],
         trip[x].status # "NONE", l \in {trip[x].load, Nil}, s \in Blocking => l \in Loads
  PROVE  /\ trip' \in [Trips -> TripRow] /\ TripRowsFit' /\ TripUnique'
         /\ trip'[x].status = s /\ trip'[x].load = l /\ trip'[x].truck = t
         /\ \A y \in Trips \ {x} : trip'[y] = trip[y]
         /\ \A y \in Trips : trip[y].status # "NONE" =>
              trip'[y].status # "NONE" /\ trip'[y].load \in {trip[y].load, Nil}
<1>1. trip \in [Trips -> TripRow] /\ trip[x].load \in Loads \cup {Nil}
  BY RowTypes
<1>2. /\ trip'[x].status = s /\ trip'[x].load = l /\ trip'[x].truck = t
      /\ \A y \in Trips \ {x} : trip'[y] = trip[y]
  BY <1>1
<1>3. trip' \in [Trips -> TripRow]
  BY <1>1 DEF TripRow
<1>4. "NONE" \notin TripStatuses
  BY DEF TripStatuses
<1>5. TripRowsFit'
  BY <1>2, <1>4 DEF DeskInv, TripRowsFit
<1>6. TripUnique'
  BY <1>2 DEF DeskInv, TripUnique
<1> QED
  BY <1>2, <1>3, <1>4, <1>5, <1>6

\* A truck whose trip x stays active and keeps its truck is not at issue.
LEMMA StillBusy ==
  ASSUME DeskInv, NEW x \in Trips, \A y \in Trips \ {x} : trip'[y] = trip[y],
         trip'[x].truck = trip[x].truck,
         trip[x].status \in Blocking => trip'[x].status \in Blocking
  PROVE  FreedOK
BY DEF FreedOK, BlockingTrips

-----------------------------------------------------------------------------
(* Steps of Booking that write no trip *)

\* A worker goes on with job j, and one load at most is put on the market.
LEMMA QuietOK ==
  ASSUME DeskInv, NEW w \in Workers, NEW j \in JobRow, job' = [job EXCEPT ![w] = j],
         Remembers(j), j.others = "uncounted", desk' = desk,
         UNCHANGED <<assignedTruck, podSubmitted, trip, available, posting>>,
         loadStatus' \in [Loads -> LoadStatuses],
         \A l \in Loads : loadStatus'[l] = loadStatus[l] \/ loadStatus'[l] \notin Released,
         request' \in [Requests -> RequestRow], RequestsWellFormed',
         \A q \in Requests : request[q].status # "NONE" => request'[q].status # "NONE"
  PROVE  StepOK
<1>1. Kept /\ LocksHold(Workers \ {w})
  BY DEF Kept, LocksHold
<1>2. JobsInv' /\ DesksInv'
  BY <1>1, Parts, JobsKept, DesksStay
<1>3. DBTypeOK'
  BY DEF DeskInv, DeskTypeOK, TypeOK, DBTypeOK
<1> QED
  BY <1>2, <1>3, QuietRows DEF StepOK

\* A handler has read what it needs and goes on with job j.
LEMMA ReadOnlyOK ==
  ASSUME DeskInv, NEW w \in Workers, NEW j \in JobRow, job' = [job EXCEPT ![w] = j],
         Remembers(j), j.others = "uncounted", desk' = desk, UNCHANGED dbVars
  PROVE  StepOK
<1>1. RequestsWellFormed'
  BY DEF dbVars, DeskInv, RequestsWellFormed
<1> QED
  BY <1>1, RowTypes, QuietOK DEF dbVars

\* A handler puts its job down.
LEMMA AbortOK ==
  ASSUME DeskInv, NEW w \in Workers, Abort(w), desk' = desk
  PROVE  StepOK
BY IdleFits, ReadOnlyOK DEF Abort, Finish

\* A job that serves a request is of the type of jobs, and knows its request.
LEMMA ServingFits ==
  ASSUME DeskInv, NEW q \in Requests, NEW op \in ServingOps,
         NEW seen \in LoadStatuses \cup {Nil}, request[q].status # "NONE"
  PROVE  /\ Serving(q, op, seen) \in JobRow
         /\ Remembers(Serving(q, op, seen))
         /\ Serving(q, op, seen).others = "uncounted"
<1>1. /\ request[q].load \in Loads \cup {Nil}
      /\ request[q].truck \in Trucks \cup {Nil}
      /\ request[q].kind \in RequestKinds \cup {Nil}
  BY RowTypes DEF RequestRow
<1>2. op \in Ops /\ op \notin TripOps /\ op # "insertRequest"
  BY DEF ServingOps, Ops, TripOps
<1>3. q # Nil
  BY NilAssumption
<1> QED
  BY <1>1, <1>2, <1>3 DEF Serving, JobRow, Remembers

\* The reading half of the handlers that answer or book a request.
LEMMA BeginServeOK ==
  ASSUME DeskInv, NEW w \in Workers, NEW q \in Requests, desk' = desk,
         \/ BeginApprove(w, q)
         \/ BeginReject(w, q)
         \/ BeginExpire(w, q)
         \/ BeginConfirm(w, q)
         \/ BeginDecline(w, q)
         \/ BeginAcceptTruck(w, q)
         \/ BeginAcceptProposal(w, q)
  PROVE  StepOK
<1>1. ASSUME NEW op \in ServingOps, NEW seen \in LoadStatuses \cup {Nil},
             UNCHANGED dbVars, request[q].status # "NONE",
             Start(w, Serving(q, op, seen))
      PROVE  StepOK
  BY <1>1, ServingFits, ReadOnlyOK DEF Start
<1>2. CASE BeginReject(w, q)
  <2>1. loadStatus[request[q].load] \in LoadStatuses
    BY <1>2, RowTypes DEF BeginReject, DeskInv, RequestsWellFormed
  <2> QED
    BY <1>1, <1>2, <2>1 DEF BeginReject, ServingOps
<1>3. CASE BeginApprove(w, q)
  BY <1>1, <1>3 DEF BeginApprove, ServingOps
<1>4. CASE BeginExpire(w, q)
  BY <1>1, <1>4 DEF BeginExpire, ServingOps
<1>5. CASE BeginConfirm(w, q)
  BY <1>1, <1>5 DEF BeginConfirm, ServingOps
<1>6. CASE BeginDecline(w, q)
  BY <1>1, <1>6 DEF BeginDecline, ServingOps
<1>7. CASE BeginAcceptTruck(w, q)
  BY <1>1, <1>7 DEF BeginAcceptTruck, MayAccept, ServingOps
<1>8. CASE BeginAcceptProposal(w, q)
  BY <1>1, <1>8 DEF BeginAcceptProposal, MayAccept, ServingOps
<1> QED
  BY <1>2, <1>3, <1>4, <1>5, <1>6, <1>7, <1>8

\* The reading half of the handlers that create a request.
LEMMA BeginCreateOK ==
  ASSUME DeskInv, NEW w \in Workers, NEW l \in Loads, NEW t \in Trucks, desk' = desk,
         \/ BeginLoadRequest(w, l, t)
         \/ BeginTruckRequest(w, l, t)
         \/ BeginProposal(w, l, t)
  PROVE  StepOK
<1>1. PICK kind \in RequestKinds : Start(w, Creating(kind, l, t)) /\ UNCHANGED dbVars
  BY DEF BeginLoadRequest, BeginTruckRequest, BeginProposal, RequestKinds
<1>2. loadStatus[l] \in LoadStatuses
  BY RowTypes
<1>3. /\ Creating(kind, l, t) \in JobRow
      /\ Remembers(Creating(kind, l, t))
      /\ Creating(kind, l, t).others = "uncounted"
  BY <1>2 DEF Creating, JobRow, Ops, Remembers, TripOps, ServingOps
<1> QED
  BY <1>1, <1>3, ReadOnlyOK DEF Start

\* The row of a new request; its handler ends or goes on to mark the load.
LEMMA InsertOK ==
  ASSUME DeskInv, NEW w \in Workers, InsertRequest(w), desk' = desk
  PROVE  StepOK
<1>1. PICK q \in Requests :
        /\ request[q].status = "NONE"
        /\ request' = [request EXCEPT
             ![q] = [kind |-> job[w].kind, status |-> "PENDING",
                     load |-> job[w].load, truck |-> job[w].truck]]
  BY DEF InsertRequest, InsertRow
<1>2. job[w] \in JobRow /\ Remembers(job[w]) /\ job[w].op = "insertRequest"
  BY DEF InsertRequest, InsertRow, DeskInv, DeskTypeOK, TypeOK
<1>3. /\ job[w].load \in Loads /\ job[w].truck \in Trucks
      /\ job[w].kind \in RequestKinds \cup {Nil}
  BY <1>2 DEF Remembers, JobRow
<1>4. UNCHANGED <<loadStatus, assignedTruck, podSubmitted, trip, available, posting>>
  BY DEF InsertRequest, InsertRow, loadVars, truckVars
<1>5. /\ request' \in [Requests -> RequestRow] /\ RequestsWellFormed'
      /\ \A r \in Requests : request[r].status # "NONE" => request'[r].status # "NONE"
  BY <1>1, <1>3, RowTypes DEF DeskInv, RequestsWellFormed, RequestRow, RequestStatuses
<1>6. PICK j : (j = Idle \/ j = [job[w] EXCEPT !.op = "markLoad"]) /\ job' = [job EXCEPT ![w] = j]
  BY DEF InsertRequest, InsertRow, Finish, Continue
<1>7. job[w].others = "uncounted"
  BY <1>2 DEF DeskInv, CountedHoldRow, TripOps
<1>8. j \in JobRow /\ Remembers(j) /\ j.others = "uncounted"
  <2>1. CASE j = Idle
    BY <2>1, IdleFits
  <2>2. CASE j = [job[w] EXCEPT !.op = "markLoad"]
    BY <2>2, <1>2, <1>7 DEF JobRow, Ops, Remembers, TripOps, ServingOps
  <2> QED
    BY <2>1, <2>2, <1>6
<1> QED
  BY <1>4, <1>5, <1>6, <1>8, RowTypes, QuietOK

\* A request keeps its load and truck when its status is written.
LEMMA RequestWritten ==
  ASSUME DeskInv, NEW q \in Requests, NEW s \in RequestStatuses,
         request[q].status # "NONE", SetRequest(q, s)
  PROVE  /\ request' \in [Requests -> RequestRow]
         /\ RequestsWellFormed'
         /\ \A r \in Requests : request[r].status # "NONE" => request'[r].status # "NONE"
BY DEF DeskInv, DeskTypeOK, TypeOK, DBTypeOK, RequestsWellFormed, SetRequest, RequestRow,
       RequestStatuses

\* One load at most is put on the market.
Marketed ==
  \/ UNCHANGED loadStatus
  \/ \E l \in Loads \cup {Nil}, s \in Bookable : loadStatus' = [loadStatus EXCEPT ![l] = s]

\* What that means for all loads.
LEMMA MarketedLoads ==
  ASSUME DeskInv, Marketed
  PROVE  /\ loadStatus' \in [Loads -> LoadStatuses]
         /\ \A l \in Loads : loadStatus'[l] = loadStatus[l] \/ loadStatus'[l] \notin Released
BY RowTypes DEF Marketed, Bookable, LoadStatuses, Released

\* Reopening a load is such a write.
LEMMA ReopenMarkets ==
  ASSUME DeskInv, NEW q \in Requests, request[q].status # "NONE", ReopenIfUnrequested(q)
  PROVE  Marketed
BY DEF DeskInv, RequestsWellFormed, ReopenIfUnrequested, ReopenLoad, Bookable, Marketed

\* A handler that serves a request knows one that exists.
LEMMA ServedExists ==
  ASSUME DeskInv, NEW w \in Workers, job[w].op \in ServingOps
  PROVE  /\ job[w].req \in Requests
         /\ request[job[w].req].status # "NONE"
BY DEF DeskInv, DeskTypeOK, TypeOK, JobRow, Remembers

\* A handler writes requests and a load's status and ends.
LEMMA AnswerOK ==
  ASSUME DeskInv, NEW w \in Workers, Finish(w), Marketed, desk' = desk,
         UNCHANGED <<assignedTruck, podSubmitted, trip, available, posting>>,
         request' \in [Requests -> RequestRow], RequestsWellFormed',
         \A r \in Requests : request[r].status # "NONE" => request'[r].status # "NONE"
  PROVE  StepOK
BY IdleFits, MarketedLoads, QuietOK DEF Finish

\* The commits of a respond or decline handler, one case each.
LEMMA AnswerCommitsOK ==
  ASSUME DeskInv, NEW w \in Workers, desk' = desk,
         \/ CommitApprove(w)
         \/ RejectLoadRequest(w)
         \/ RejectTruckRequest(w)
         \/ RejectProposal(w)
         \/ CommitExpire(w)
         \/ CommitDecline(w)
  PROVE  StepOK
<1> DEFINE q == job[w].req
<1>1. q \in Requests /\ request[q].status # "NONE"
  BY ServedExists DEF ServingOps, CommitApprove, RejectLoadRequest, RejectTruckRequest,
     RejectProposal, CommitExpire, CommitDecline
<1>2. ASSUME NEW s \in RequestStatuses, SetRequest(q, s), Finish(w), Marketed,
             UNCHANGED <<assignedTruck, podSubmitted, trip, available, posting>>
      PROVE  StepOK
  BY <1>1, <1>2, RequestWritten, AnswerOK
<1>3. CASE CommitApprove(w)
  BY <1>2, <1>3 DEF CommitApprove, Marketed, RequestStatuses, loadVars, truckVars
<1>4. CASE CommitExpire(w)
  BY <1>2, <1>4 DEF CommitExpire, Marketed, RequestStatuses, loadVars, truckVars
<1>5. CASE RejectProposal(w)
  BY <1>2, <1>5 DEF RejectProposal, Marketed, RequestStatuses, loadVars, truckVars
<1>6. CASE RejectLoadRequest(w)
  BY <1>1, <1>2, <1>6, ReopenMarkets DEF RejectLoadRequest, RequestStatuses, truckVars
<1>7. CASE CommitDecline(w)
  BY <1>1, <1>2, <1>7, ReopenMarkets DEF CommitDecline, RequestStatuses, truckVars
<1>8. CASE RejectTruckRequest(w)
  <2>1. job[w].load \in Loads \cup {Nil}
    BY DEF DeskInv, DeskTypeOK, TypeOK, JobRow
  <2>2. Marketed
    BY <1>8, <2>1 DEF RejectTruckRequest, Marketed, Bookable
  <2> QED
    BY <1>2, <1>8, <2>2 DEF RejectTruckRequest, RequestStatuses, truckVars
<1> QED
  BY <1>3, <1>4, <1>5, <1>6, <1>7, <1>8

\* A load is marked SEARCHING or OFFERED, or goes back on the market when the last
\* request for it is withdrawn, whatever has become of it.
LEMMA MarkOK ==
  ASSUME DeskInv, NEW w \in Workers, desk' = desk,
         MarkSearching(w) \/ MarkOffered(w) \/ ReopenAfterCancel(w)
  PROVE  StepOK
<1>1. Marketed
  <2>1. job[w].load \in Loads \cup {Nil}
    BY DEF DeskInv, DeskTypeOK, TypeOK, JobRow
  <2>2. CASE MarkSearching(w) \/ MarkOffered(w)
    BY <2>1, <2>2 DEF MarkSearching, MarkOffered, MarkLoad, Marketed, Bookable
  <2>3. CASE ReopenAfterCancel(w)
    BY <2>3, ServedExists, ReopenMarkets DEF ReopenAfterCancel, ServingOps
  <2> QED
    BY <2>2, <2>3
<1>2. UNCHANGED <<assignedTruck, podSubmitted, trip, request, available, posting>> /\ Finish(w)
  BY DEF MarkSearching, MarkOffered, MarkLoad, ReopenAfterCancel, truckVars
<1>3. RequestsWellFormed'
  BY <1>2 DEF DeskInv, RequestsWellFormed
<1> QED
  BY <1>1, <1>2, <1>3, RowTypes, AnswerOK

\* A carrier withdraws its request, and goes on to reopen the load.
LEMMA CancelRequestOK ==
  ASSUME DeskInv, NEW w \in Workers, NEW q \in Requests, CancelLoadRequest(w, q), desk' = desk
  PROVE  StepOK
<1>1. request[q].status # "NONE"
  BY DEF CancelLoadRequest, OpenLoadRequests
<1>2. /\ request' \in [Requests -> RequestRow]
      /\ RequestsWellFormed'
      /\ \A r \in Requests : request[r].status # "NONE" => request'[r].status # "NONE"
  BY <1>1, RequestWritten DEF CancelLoadRequest, RequestStatuses
<1>3. UNCHANGED <<loadStatus, assignedTruck, podSubmitted, trip, available, posting>>
  BY DEF CancelLoadRequest, loadVars, truckVars
<1>4. /\ Serving(q, "reopenLoad", Nil) \in JobRow
      /\ Remembers(Serving(q, "reopenLoad", Nil))
      /\ Serving(q, "reopenLoad", Nil).others = "uncounted"
  BY <1>1, ServingFits DEF ServingOps
<1>5. job' = [job EXCEPT ![w] = Serving(q, "reopenLoad", Nil)]
  BY DEF CancelLoadRequest, Start
<1> QED
  BY <1>2, <1>3, <1>4, <1>5, RowTypes, QuietOK

\* Some rows become CANCELLED or EXPIRED, none of them new.
Voids(Q, s) ==
  /\ \A q \in Q : request[q].status # "NONE"
  /\ request' = [q \in Requests |-> IF q \in Q THEN [request[q] EXCEPT !.status = s]
                                    ELSE request[q]]

\* They keep their loads and trucks.
LEMMA Voided ==
  ASSUME DeskInv, NEW Q, NEW s \in RequestStatuses, Voids(Q, s)
  PROVE  /\ request' \in [Requests -> RequestRow]
         /\ RequestsWellFormed'
         /\ \A r \in Requests : request[r].status # "NONE" => request'[r].status # "NONE"
<1>1. \A q \in Requests :
        /\ request'[q] \in RequestRow
        /\ request'[q].load = request[q].load
        /\ request'[q].truck = request[q].truck
        /\ request[q].status # "NONE" <=> request'[q].status # "NONE"
  BY RowTypes DEF Voids, RequestRow, RequestStatuses
<1>2. request' \in [Requests -> RequestRow]
  BY <1>1 DEF Voids
<1> QED
  BY <1>1, <1>2 DEF DeskInv, RequestsWellFormed

\* The two steps that belong to no worker's handler.
LEMMA WorkerlessOK ==
  ASSUME DeskInv, desk' = desk,
         \/ \E q \in Requests : CancelTruckRequest(q)
         \/ \E Q \in SUBSET Requests : CronExpire(Q)
  PROVE  StepOK
<1>1. UNCHANGED <<loadStatus, assignedTruck, podSubmitted, trip, available, posting, job>>
  BY DEF CancelTruckRequest, CronExpire, loadVars, truckVars
<1>2. /\ request' \in [Requests -> RequestRow]
      /\ RequestsWellFormed'
      /\ \A r \in Requests : request[r].status # "NONE" => request'[r].status # "NONE"
  <2>1. ASSUME NEW q \in Requests, CancelTruckRequest(q)
        PROVE  SetRequest(q, "CANCELLED") /\ request[q].status # "NONE"
    BY <2>1 DEF CancelTruckRequest
  <2>2. ASSUME NEW Q \in SUBSET Requests, CronExpire(Q)
        PROVE  Voids(Q, "EXPIRED")
    BY <2>2 DEF CronExpire, Voids
  <2> QED
    BY <2>1, <2>2, RequestWritten, Voided DEF RequestStatuses
<1>3. Kept /\ LocksHold(Workers)
  BY <1>1, <1>2 DEF Kept, LocksHold
<1>4. JobsInv' /\ DesksInv'
  BY <1>1, <1>3, Parts, JobsStay, DesksStay
<1>5. DBTypeOK'
  BY <1>1, <1>2 DEF DeskInv, DeskTypeOK, TypeOK, DBTypeOK
<1> QED
  BY <1>1, <1>2, <1>4, <1>5, QuietRows DEF StepOK

-----------------------------------------------------------------------------
(* The commits that book *)

\* A booking assigns the load and inserts its trip.
LEMMA BookLoadInserts ==
  ASSUME DeskInv, NEW l \in Loads, NEW t \in Trucks \cup {Nil}, BookLoad(l, t)
  PROVE  /\ Inserts(l, t)
         /\ loadStatus' \in [Loads -> LoadStatuses]
         /\ assignedTruck' \in [Loads -> Trucks \cup {Nil}]
         /\ podSubmitted' \in [Loads -> BOOLEAN]
<1>1. podSubmitted' \in [Loads -> BOOLEAN]
  BY DEF BookLoad, WriteBooking, DeskInv, DeskTypeOK, TypeOK, DBTypeOK
<1>2. loadStatus' \in [Loads -> LoadStatuses] /\ assignedTruck' \in [Loads -> Trucks \cup {Nil}]
  BY RowTypes DEF BookLoad, WriteBooking, TruckAfterRelease, LoadStatuses
<1>3. \A k \in Loads \ {l} :
       /\ loadStatus'[k] = loadStatus[k]
       /\ assignedTruck'[k] = assignedTruck[k] \/ loadStatus[k] \in Released
  BY RowTypes DEF BookLoad, WriteBooking, TruckAfterRelease
<1> QED
  BY <1>1, <1>2, <1>3 DEF Inserts, BookLoad, WriteBooking

\* A worker knows the trip whose row it holds.
LEMMA HeldTrip ==
  ASSUME DeskInv, NEW v \in Workers, job[v].others # "uncounted"
  PROVE  job[v].trip \in Trips /\ trip[job[v].trip].status # "NONE"
BY DEF DeskInv, CountedHoldRow, Remembers, MadeFor

\* A booking, with whatever other requests it voids.
LEMMA BookOK ==
  ASSUME DeskInv, NEW w \in Workers, NEW voided \in SUBSET Requests, desk' = desk,
         \A r \in voided : request[r].status # "NONE",
         job[w].op \in ServingOps, Book(job[w].req, voided), Finish(w)
  PROVE  StepOK
<1> DEFINE q == job[w].req
<1>1. /\ q \in Requests
      /\ request[q].status # "NONE"
      /\ request[q].load \in Loads /\ request[q].truck \in Trucks
  BY ServedExists DEF DeskInv, RequestsWellFormed
<1>2. /\ BookLoad(request[q].load, request[q].truck)
      /\ TakeOffMarket(request[q].truck)
  BY DEF Book
<1>3. \A r \in Requests :
        /\ request'[r] \in RequestRow
        /\ request'[r].load = request[r].load
        /\ request'[r].truck = request[r].truck
        /\ request[r].status # "NONE" <=> request'[r].status # "NONE"
  <2>1. request \in [Requests -> RequestRow]
    BY RowTypes
  <2> QED
    BY <1>1, <2>1 DEF Book, RequestRow, RequestStatuses
<1>4. request' \in [Requests -> RequestRow] /\ RequestsWellFormed'
  BY <1>3 DEF Book, DeskInv, RequestsWellFormed
<1>5. available' \in [Trucks -> BOOLEAN] /\ posting' \in [Trucks -> PostingStatuses]
  BY <1>2 DEF TakeOffMarket, DeskInv, DeskTypeOK, TypeOK, DBTypeOK, PostingStatuses
<1>6. PICK l \in Loads, t \in Trucks : l = request[q].load /\ t = request[q].truck
  BY <1>1
<1>7. BookLoad(l, t)
  BY <1>2, <1>6 DEF BookLoad, WriteBooking
<1>8. /\ RowsInv' /\ TakenOK /\ RevivedOK /\ FreedOK
      /\ \A x \in Trips : trip[x].status # "NONE" =>
           /\ trip'[x].status = trip[x].status
           /\ trip'[x].load \in {trip[x].load, Nil}
  BY <1>4, <1>5, <1>7, BookLoadInserts, BookRows
<1>9. Kept /\ LocksHold(Workers \ {w})
  BY <1>3, <1>8, HeldTrip DEF Kept, LocksHold
<1>10. JobsInv' /\ DesksInv'
  BY <1>9, Parts, JobEnds, DesksStay
<1> QED
  BY <1>8, <1>10 DEF StepOK

\* Confirmation and both kinds of acceptance are bookings of that shape.
LEMMA BookCommitsOK ==
  ASSUME DeskInv, NEW w \in Workers, desk' = desk,
         CommitConfirm(w) \/ CommitAcceptTruck(w) \/ CommitAcceptProposal(w)
  PROVE  StepOK
<1>1. job[w].op \in ServingOps /\ Finish(w)
  BY DEF CommitConfirm, CommitAcceptTruck, CommitAcceptProposal, ServingOps
<1>2. PICK voided \in SUBSET Requests :
        /\ \A r \in voided : request[r].status # "NONE"
        /\ Book(job[w].req, voided)
  <2>1. CASE CommitConfirm(w)
    BY <2>1 DEF CommitConfirm, PendingForLoad, OpenLoadRequests
  <2>2. CASE CommitAcceptTruck(w)
    BY <2>2 DEF CommitAcceptTruck, PendingForLoad
  <2>3. CASE CommitAcceptProposal(w)
    BY <2>3 DEF CommitAcceptProposal, PendingForLoad
  <2> QED
    BY <2>1, <2>2, <2>3
<1> QED
  BY <1>1, <1>2, BookOK

-----------------------------------------------------------------------------
(* The trip handlers *)

\* Each Begin step takes a job that fits what it has just read.
LEMMA BeginTripOK ==
  ASSUME DeskInv, NEW w \in Workers, BeginStep(w), desk' = desk
  PROVE  StepOK
<1>1. UNCHANGED dbVars
  BY DEF BeginStep, BeginPatch, BeginCancelTrip, BeginConfirmDelivery,
     BeginVerifyPod, BeginUploadPod, BeginAutoClose, BeginReassign, BeginSubmitPod
<1>2. ASSUME NEW x \in Trips, NEW op \in TripOps,
             NEW next \in TripStatuses, NEW to \in Trucks \cup {Nil},
             Start(w, Handling(x, op, next, to)),
             trip[x].status \in Blocking,
             op = "patch" => next \in VALID_TRIP_TRANSITIONS[trip[x].status],
             op \in {"confirmDelivery", "uploadPod"} => trip[x].status = "DELIVERED"
      PROVE  StepOK
  <2>1. /\ trip[x].status \in TripStatuses /\ trip[x].status # "NONE"
        /\ trip[x].load \in Loads /\ trip[x].truck \in Trucks \cup {Nil}
    BY <1>2, RowTypes DEF DeskInv, TripRowsFit, Blocking, TripStatuses
  <2>2. Handling(x, op, next, to) \in JobRow
    BY <2>1, <1>2 DEF Handling, JobRow, Ops, TripOps, TripStatuses, LoadStatuses
  <2>3. op \notin ServingOps /\ op # "insertRequest"
    BY DEF TripOps, ServingOps
  <2>4. Remembers(Handling(x, op, next, to))
    BY <2>1, <2>3, <1>2 DEF Handling, Remembers, MadeFor
  <2>5. /\ Handling(x, op, next, to).others = "uncounted"
        /\ job' = [job EXCEPT ![w] = Handling(x, op, next, to)]
    BY <1>2 DEF Handling, Start
  <2> QED
    BY <2>2, <2>4, <2>5, <1>1, ReadOnlyOK
<1>3. ASSUME NEW x \in Trips, NEW status \in TripStatuses, BeginPatch(w, x, status)
      PROVE  StepOK
  <2>1. trip[x].status \in Blocking
    BY <1>3, Transitions DEF BeginPatch, TripStatuses, Blocking
  <2> QED
    BY <2>1, <1>2, <1>3 DEF BeginPatch, TripOps
<1>4. ASSUME NEW x \in Trips, BeginCancelTrip(w, x) PROVE StepOK
  BY <1>2, <1>4 DEF BeginCancelTrip, TripOps, Blocking, TripStatuses
<1>5. ASSUME NEW x \in Trips, BeginConfirmDelivery(w, x) PROVE StepOK
  BY <1>2, <1>5 DEF BeginConfirmDelivery, TripOps, Blocking, TripStatuses
<1>6. ASSUME NEW x \in Trips, BeginUploadPod(w, x) PROVE StepOK
  BY <1>2, <1>6 DEF BeginUploadPod, TripOps, Blocking, TripStatuses
<1>7. ASSUME NEW x \in Trips, BeginAutoClose(w, x) PROVE StepOK
  BY <1>2, <1>7 DEF BeginAutoClose, Stuck, TripOps, Blocking, TripStatuses
<1>8. ASSUME NEW x \in Trips, NEW t \in Trucks, BeginReassign(w, x, t) PROVE StepOK
  BY <1>2, <1>8 DEF BeginReassign, TripOps, Blocking, TripStatuses
<1>9. ASSUME NEW l \in Loads, BeginSubmitPod(w, l) PROVE StepOK
  <2>1. job' = [job EXCEPT ![w] = Submitting(l)]
    BY <1>9 DEF BeginSubmitPod, Start
  <2>2. Submitting(l) \in JobRow
    BY DEF Submitting, JobRow, Ops
  <2>3. Remembers(Submitting(l)) /\ Submitting(l).others = "uncounted"
    BY DEF Submitting, Remembers, TripOps, ServingOps
  <2> QED
    BY <2>1, <2>2, <2>3, <1>1, ReadOnlyOK
<1> QED
  BY <1>3, <1>4, <1>5, <1>6, <1>7, <1>8, <1>9 DEF BeginStep, BeginVerifyPod

\* The count takes the lock.
LEMMA CountOK ==
  ASSUME DeskInv, NEW w \in Workers, CountOthers(w), desk' = desk
  PROVE  StepOK
<1>1. UNCHANGED dbVars
  BY DEF CountOthers
<1>2. PICK n \in {"none", "some"} : job' = [job EXCEPT ![w] = [job[w] EXCEPT !.others = n]]
  <2> DEFINE others == BlockingTrips(job[w].truck) \ {job[w].trip}
  <2>1. job' = [job EXCEPT ![w] = [job[w] EXCEPT !.others = IF others = {} THEN "none" ELSE "some"]]
    BY DEF CountOthers, Continue
  <2> QED
    BY <2>1
<1>3. job \in [Workers -> JobRow]
  BY DEF DeskInv, DeskTypeOK, TypeOK
<1>4. job' \in [Workers -> JobRow]
  <2>1. [job[w] EXCEPT !.others = n] \in JobRow
    BY <1>3 DEF JobRow
  <2> QED
    BY <2>1, <1>2, <1>3
<1>5. /\ job'[w].op = job[w].op /\ job'[w].req = job[w].req
      /\ job'[w].trip = job[w].trip /\ job'[w].load = job[w].load
      /\ job'[w].truck = job[w].truck /\ job'[w].seen = job[w].seen
      /\ job'[w].next = job[w].next /\ job'[w].others = n
      /\ \A v \in Workers \ {w} : job'[v] = job[v]
  BY <1>2, <1>3 DEF JobRow
<1>6. \A v \in Workers : Remembers(job[v])'
  BY <1>1, <1>5 DEF DeskInv, Remembers, MadeFor, dbVars
<1>7. CountedHoldRow'
  <2> SUFFICES ASSUME NEW v \in Workers, job'[v].others # "uncounted"
               PROVE  /\ job'[v].op \in TripOps
                      /\ Releases(v)'
                      /\ RowFree(v)'
                      /\ GuardHolds(v)'
    BY DEF CountedHoldRow
  <2>1. CASE v = w
    <3>1. job[w].op \in TripOps /\ Releases(w) /\ RowFree(w) /\ GuardHolds(w)
      BY DEF CountOthers, Releases, TripOps
    <3>2. Releases(w)' /\ RowFree(w)'
      BY <3>1, <1>5 DEF Releases, RowFree
    <3>3. GuardHolds(w)'
      BY <3>1, <1>1, <1>5 DEF GuardHolds, dbVars
    <3> QED
      BY <2>1, <3>1, <3>2, <3>3, <1>5
  <2>2. CASE v # w
    <3>1. job'[v] = job[v] /\ job[v].others # "uncounted"
      BY <2>2, <1>5
    <3>2. job[v].op \in TripOps /\ Releases(v) /\ RowFree(v) /\ GuardHolds(v)
      BY <3>1 DEF DeskInv, CountedHoldRow
    <3>3. Releases(v)' /\ GuardHolds(v)'
      BY <3>1, <3>2, <1>1 DEF Releases, GuardHolds, dbVars
    <3>4. job[w].trip # job[v].trip
      BY <2>2, <3>1 DEF CountOthers, RowFree
    <3>5. RowFree(v)'
      BY <3>2, <3>4, <1>5 DEF RowFree
    <3> QED
      BY <3>1, <3>2, <3>3, <3>5
  <2> QED
    BY <2>1, <2>2
<1>8. Kept /\ DBTypeOK' /\ RequestsWellFormed'
  BY <1>1 DEF Kept, DeskInv, DeskTypeOK, TypeOK, DBTypeOK, RequestsWellFormed, dbVars
<1>9. DesksInv'
  BY <1>8, Parts, DesksStay
<1>10. RowsInv' /\ TakenOK /\ RevivedOK /\ FreedOK
  BY <1>1, <1>8, QuietRows DEF dbVars
<1> QED
  BY <1>4, <1>6, <1>7, <1>9, <1>10 DEF StepOK, JobsInv

\* A handler whose WHERE names a status finds its trip active, with the load it knows.
LEMMA Guarded ==
  ASSUME DeskInv, NEW w \in Workers, job[w].op \in TripOps, GuardHolds(w),
         job[w].op \notin {"confirmDelivery", "uploadPod"}
  PROVE  /\ trip[job[w].trip].status \in Blocking
         /\ trip[job[w].trip].load = job[w].load
<1>1. Remembers(job[w])
  BY DEF DeskInv
<1>2. trip[job[w].trip].status \in Blocking
  <2>1. CASE job[w].op = "patch"
    BY <1>1, <2>1, Transitions DEF Remembers, GuardHolds, TripStatuses, Blocking
  <2>2. CASE job[w].op # "patch"
    BY <2>2 DEF GuardHolds, TripOps, Blocking
  <2> QED
    BY <2>1, <2>2
<1> QED
  BY <1>1, <1>2, NilAssumption DEF DeskInv, Remembers, MadeFor, TripRowsFit

\* Who takes the load of another trip than its own has been overtaken.
LEMMA OthersCarry ==
  ASSUME DeskInv, NEW w \in Workers, job[w].op \in TripOps, GuardHolds(w), Finish(w),
         NEW x \in Trips, x = job[w].trip,
         \A y \in Trips \ {x} : trip'[y] = trip[y],
         \A k \in Loads \ {job[w].load} :
            loadStatus'[k] = loadStatus[k] /\ assignedTruck'[k] = assignedTruck[k],
         Carried(x) /\ trip'[x].status \in Moving => Carried(x)'
  PROVE  TakenOK
<1> SUFFICES ASSUME NEW y \in Trips, Carried(y), trip'[y].status \in Moving, ~Carried(y)'
             PROVE  OutOfDate(trip[y].load)
  BY DEF TakenOK
<1>1. y # x /\ trip'[y] = trip[y]
  OBVIOUS
<1>2. /\ trip[y].status \in Moving /\ trip[y].load \in Loads /\ trip[y].load # Nil
      /\ \A z \in Trips \ {y} : trip[z].load # trip[y].load
  BY MovingTrip DEF Carried
<1>3. trip[y].load = job[w].load
  BY <1>1, <1>2 DEF Carried
<1>4. Remembers(job[w])
  BY DEF DeskInv
<1>5. x \in Trips /\ trip[x].load = Nil
  BY <1>1, <1>2, <1>3, <1>4 DEF Remembers, MadeFor
<1>6. job[w].op \in {"confirmDelivery", "uploadPod"}
  BY <1>2, <1>3, <1>5, Guarded
<1>7. trip[x].status # "DELIVERED" /\ job[w].seen = "DELIVERED"
  BY <1>4, <1>5, <1>6, NilAssumption DEF DeskInv, TripRowsFit, Blocking, Remembers
<1>8. job'[w] # job[w]
  BY DEF Finish, Idle, TripOps, DeskInv, DeskTypeOK, TypeOK
<1> QED
  BY <1>3, <1>7, <1>8 DEF OutOfDate, Overtaken

\* A handler that has counted frees its truck, unless it has counted others or the
\* trip has another truck by now.
LEMMA ReleaseFrees ==
  ASSUME DeskInv, NEW w \in Workers, job[w].op \in TripOps, job[w].others # "uncounted",
         Finish(w), \A y \in Trips \ {job[w].trip} : trip'[y] = trip[y],
         \A t \in Trucks : t = job[w].truck /\ job[w].others = "none"
            => \/ available'[t]
               \/ (trip'[job[w].trip].truck = t /\ trip'[job[w].trip].status \in Blocking)
  PROVE  FreedOK
<1> DEFINE x == job[w].trip
<1> SUFFICES ASSUME NEW t \in Trucks, BlockingTrips(t) # {}, BlockingTrips(t)' = {},
                    ~available'[t]
             PROVE  /\ job[w].others = "some" \/ Astray(w)
                    /\ job[w] # Idle /\ job'[w] = Idle
  BY DEF FreedOK
<1>1. job[w] \in JobRow /\ job'[w] = Idle /\ job[w] # Idle
  BY DEF Finish, Idle, TripOps, DeskInv, DeskTypeOK, TypeOK
<1>2. trip[x].truck = t /\ x \in Trips
  BY DEF BlockingTrips
<1>3. ~(trip'[x].truck = t /\ trip'[x].status \in Blocking)
  BY <1>2 DEF BlockingTrips
<1>4. job[w].others \in {"none", "some"}
  BY <1>1 DEF JobRow
<1> QED
  BY <1>1, <1>2, <1>3, <1>4 DEF Astray

\* A commit of a trip handler: one trip and one load are written.
LEMMA WriteOK ==
  ASSUME DeskInv, NEW w \in Workers, job[w].op \in TripOps, RowFree(w), GuardHolds(w),
         Finish(w), desk' = desk, request' = request,
         NEW x \in Trips, x = job[w].trip,
         NEW s \in TripStatuses, NEW l, NEW t \in Trucks \cup {Nil},
         trip' = [trip EXCEPT ![x] = [status |-> s, load |-> l, truck |-> t]],
         l \in {trip[x].load, Nil}, s \in Blocking => l \in Loads,
         \A k \in Loads \ {job[w].load} :
            loadStatus'[k] = loadStatus[k] /\ assignedTruck'[k] = assignedTruck[k],
         loadStatus' \in [Loads -> LoadStatuses],
         assignedTruck' \in [Loads -> Trucks \cup {Nil}],
         podSubmitted' \in [Loads -> BOOLEAN],
         available' \in [Trucks -> BOOLEAN], posting' \in [Trucks -> PostingStatuses],
         Carried(x) /\ trip'[x].status \in Moving => Carried(x)',
         FreedOK
  PROVE  StepOK
<1>1. x = job[w].trip
  OBVIOUS
<1>2. trip[x].status # "NONE"
  BY <1>1 DEF DeskInv, Remembers, MadeFor
<1>3. /\ trip' \in [Trips -> TripRow] /\ TripRowsFit' /\ TripUnique'
      /\ \A y \in Trips \ {x} : trip'[y] = trip[y]
      /\ \A y \in Trips : trip[y].status # "NONE" =>
           trip'[y].status # "NONE" /\ trip'[y].load \in {trip[y].load, Nil}
  BY <1>1, <1>2, WriteRows
<1>4. RowsInv'
  BY <1>3 DEF RowsInv, DBTypeOK, DeskInv, DeskTypeOK, TypeOK, RequestsWellFormed
<1>5. Kept
  BY <1>3 DEF Kept
<1>6. LocksHold(Workers \ {w})
  BY <1>1, <1>3, HeldTrip DEF LocksHold, RowFree
<1>7. JobsInv' /\ DesksInv'
  BY <1>5, <1>6, Parts, JobEnds, DesksStay
<1>8. TakenOK
  BY <1>1, <1>3, OthersCarry
<1>9. RevivedOK
  <2> SUFFICES ASSUME NEW y \in Trips, trip[y].status \in TerminalTrip,
                      trip'[y].status # trip[y].status
               PROVE  /\ job[w].op \in {"confirmDelivery", "uploadPod"}
                      /\ job[w].trip = y /\ job'[w] = Idle
    BY DEF RevivedOK
  <2>1. y = x
    BY <1>3
  <2>2. job'[w] = Idle
    BY DEF Finish, DeskInv, DeskTypeOK, TypeOK
  <2> QED
    BY <1>1, <2>1, <2>2, Guarded DEF TerminalTrip, Blocking
<1> QED
  BY <1>4, <1>7, <1>8, <1>9 DEF StepOK

\* What a handler that has counted knows.
LEMMA CountedKnows ==
  ASSUME DeskInv, NEW w \in Workers, NEW op \in TripOps, Counted(w, op)
  PROVE  /\ job[w].op = op /\ job[w].op \in TripOps /\ job[w].others # "uncounted"
         /\ RowFree(w) /\ GuardHolds(w)
         /\ job[w].trip \in Trips /\ job[w].load \in Loads /\ job[w].next \in TripStatuses
         /\ trip[job[w].trip].status # "NONE"
         /\ job[w].to \in Trucks \cup {Nil}
BY DEF Counted, DeskInv, DeskTypeOK, TypeOK, JobRow, CountedHoldRow, Remembers, MadeFor

\* The truck's columns keep their types when it is released.
LEMMA ReleasedTypes ==
  ASSUME DeskInv, NEW w \in Workers
  PROVE  /\ AvailableAfter(w) \in [Trucks -> BOOLEAN]
         /\ PostingAfter(w) \in [Trucks -> PostingStatuses]
         /\ \A t \in Trucks : t = job[w].truck /\ job[w].others = "none" => AvailableAfter(w)[t]
BY DEF DeskInv, DeskTypeOK, TypeOK, DBTypeOK, AvailableAfter, PostingAfter, PostingStatuses

\* A trip whose status alone is written.
LEMMA StatusWritten ==
  ASSUME DeskInv, NEW x \in Trips, NEW s, trip' = [trip EXCEPT ![x].status = s]
  PROVE  trip' = [trip EXCEPT ![x] = [status |-> s, load |-> trip[x].load,
                                     truck |-> trip[x].truck]]
<1>1. trip[x] \in TripRow
  BY RowTypes
<1>2. [trip[x] EXCEPT !.status = s] = [status |-> s, load |-> trip[x].load,
                                      truck |-> trip[x].truck]
  BY <1>1 DEF TripRow
<1> QED
  BY <1>2

\* Trip and load are completed, whatever has become of them.
LEMMA CompleteOK ==
  ASSUME DeskInv, NEW w \in Workers, NEW op \in TripOps, Counted(w, op), Complete(w),
         podSubmitted' \in [Loads -> BOOLEAN], desk' = desk
  PROVE  StepOK
<1>. PICK x \in Trips : x = job[w].trip
  BY CountedKnows
<1>1. trip[x] \in TripRow /\ x \in Trips /\ trip \in [Trips -> TripRow]
  BY RowTypes
<1>2. trip' = [trip EXCEPT ![x] = [status |-> "COMPLETED", load |-> trip[x].load,
                                   truck |-> trip[x].truck]]
  BY StatusWritten DEF Complete
<1>3. /\ \A k \in Loads \ {job[w].load} :
            loadStatus'[k] = loadStatus[k] /\ assignedTruck'[k] = assignedTruck[k]
      /\ loadStatus' \in [Loads -> LoadStatuses]
      /\ assignedTruck' \in [Loads -> Trucks \cup {Nil}]
      /\ request' = request /\ Finish(w)
  BY RowTypes DEF Complete, LoadStatuses
<1>4. available' \in [Trucks -> BOOLEAN] /\ posting' \in [Trucks -> PostingStatuses]
  BY ReleasedTypes DEF Complete, ReleaseTruck
<1>5. \A y \in Trips \ {x} : trip'[y] = trip[y]
  BY <1>1, <1>2
<1>6. FreedOK
  BY <1>3, <1>5, CountedKnows, ReleasedTypes, ReleaseFrees DEF Complete, ReleaseTruck
<1>7. trip'[x].status \notin Moving
  BY <1>1, <1>2 DEF Moving
<1>8. "COMPLETED" \in TripStatuses \ Blocking
  BY DEF TripStatuses, Blocking
<1>9. trip[x].truck \in Trucks \cup {Nil}
  BY <1>1, RowTypes
<1> QED
  BY <1>2, <1>3, <1>4, <1>6, <1>7, <1>8, <1>9, CountedKnows, WriteOK

\* The trip lets go of its load.
LEMMA CancelOK ==
  ASSUME DeskInv, NEW w \in Workers, NEW op \in TripOps, Counted(w, op), Cancel(w), desk' = desk
  PROVE  StepOK
<1>. PICK x \in Trips : x = job[w].trip
  BY CountedKnows
<1>1. x \in Trips /\ trip \in [Trips -> TripRow] /\ trip[x].truck \in Trucks \cup {Nil}
  BY RowTypes
<1>2. trip' = [trip EXCEPT ![x] = [status |-> "CANCELLED", load |-> Nil,
                                   truck |-> trip[x].truck]]
  BY DEF Cancel
<1>3. /\ \A k \in Loads \ {job[w].load} :
            loadStatus'[k] = loadStatus[k] /\ assignedTruck'[k] = assignedTruck[k]
      /\ loadStatus' \in [Loads -> LoadStatuses]
      /\ assignedTruck' \in [Loads -> Trucks \cup {Nil}]
      /\ request' = request /\ podSubmitted' = podSubmitted /\ Finish(w)
  BY RowTypes DEF Cancel, LoadStatuses
<1>4. available' \in [Trucks -> BOOLEAN] /\ posting' \in [Trucks -> PostingStatuses]
  BY ReleasedTypes DEF Cancel, ReleaseTruck
<1>5. \A y \in Trips \ {x} : trip'[y] = trip[y]
  BY <1>1, <1>2
<1>6. FreedOK
  BY <1>3, <1>5, CountedKnows, ReleasedTypes, ReleaseFrees DEF Cancel, ReleaseTruck
<1>7. trip'[x].status \notin Moving
  BY <1>1, <1>2 DEF Moving
<1>8. "CANCELLED" \in TripStatuses \ Blocking
  BY DEF TripStatuses, Blocking
<1>9. podSubmitted' \in [Loads -> BOOLEAN]
  BY <1>3 DEF DeskInv, DeskTypeOK, TypeOK, DBTypeOK
<1> QED
  BY <1>1, <1>2, <1>3, <1>4, <1>6, <1>7, <1>8, <1>9, CountedKnows, WriteOK

\* A broken-down trip goes on with another truck.
LEMMA ReassignOK ==
  ASSUME DeskInv, NEW w \in Workers, CommitReassign(w), desk' = desk
  PROVE  StepOK
<1>1. Counted(w, "reassign") /\ "reassign" \in TripOps
  BY DEF CommitReassign, WriteReassign, TripOps
<1>. PICK x \in Trips, t \in Trucks \cup {Nil} : x = job[w].trip /\ t = job[w].to
  BY <1>1, CountedKnows
<1>. PICK l : l = trip[x].load
  OBVIOUS
<1>2. x \in Trips /\ trip \in [Trips -> TripRow] /\ t \in Trucks \cup {Nil}
  BY <1>1, CountedKnows, RowTypes
<1>3. l = job[w].load /\ l \in Loads
  BY <1>1, CountedKnows, Guarded
<1>4. trip' = [trip EXCEPT ![x] = [status |-> "IN_TRANSIT", load |-> l, truck |-> t]]
  BY DEF CommitReassign, WriteReassign
<1>5. /\ \A k \in Loads \ {job[w].load} :
            loadStatus'[k] = loadStatus[k] /\ assignedTruck'[k] = assignedTruck[k]
      /\ loadStatus'[l] = "IN_TRANSIT" /\ assignedTruck'[l] = t
      /\ loadStatus' \in [Loads -> LoadStatuses]
      /\ assignedTruck' \in [Loads -> Trucks \cup {Nil}]
      /\ request' = request /\ podSubmitted' = podSubmitted /\ Finish(w)
  BY <1>2, <1>3, RowTypes DEF CommitReassign, WriteReassign, LoadStatuses
<1>6. available' \in [Trucks -> BOOLEAN] /\ posting' \in [Trucks -> PostingStatuses]
  BY ReleasedTypes DEF CommitReassign, WriteReassign, PostingStatuses
<1>7. /\ \A y \in Trips \ {x} : trip'[y] = trip[y]
      /\ trip'[x].status = "IN_TRANSIT" /\ trip'[x].load = l /\ trip'[x].truck = t
  BY <1>2, <1>4
<1>8. \A u \in Trucks \ {t} : available'[u] = AvailableAfter(w)[u]
  BY ReleasedTypes DEF CommitReassign, WriteReassign
<1>9. FreedOK
  <2>1. \A u \in Trucks : u = job[w].truck /\ job[w].others = "none"
            => available'[u] \/ (trip'[x].truck = u /\ trip'[x].status \in Blocking)
    BY <1>7, <1>8, ReleasedTypes DEF Blocking
  <2> QED
    BY <1>1, <1>5, <1>7, <2>1, CountedKnows, ReleaseFrees
<1>10. Carried(x)'
  BY <1>3, <1>5, <1>7 DEF Carried, Moving, Released
<1>11. podSubmitted' \in [Loads -> BOOLEAN] /\ "IN_TRANSIT" \in TripStatuses
  BY <1>5 DEF DeskInv, DeskTypeOK, TypeOK, DBTypeOK, TripStatuses
<1> QED
  BY <1>1, <1>2, <1>3, <1>4, <1>5, <1>6, <1>9, <1>10, <1>11, CountedKnows, WriteOK

\* A trip moves on without giving its truck back.
LEMMA PatchOK ==
  ASSUME DeskInv, NEW w \in Workers, CommitPatch(w), desk' = desk
  PROVE  StepOK
<1>. PICK x \in Trips, s \in TripStatuses : x = job[w].trip /\ s = job[w].next
  BY DEF CommitPatch, TripOps, DeskInv, Remembers
<1>1. /\ job[w].op \in TripOps /\ x \in Trips /\ s \in TripStatuses
      /\ trip \in [Trips -> TripRow] /\ trip[x].truck \in Trucks \cup {Nil}
  BY RowTypes DEF CommitPatch, TripOps
<1>2. trip[x].status \in Blocking /\ trip[x].load = job[w].load /\ trip[x].load \in Loads
  BY <1>1, Guarded DEF CommitPatch, DeskInv, Remembers
<1>3. trip' = [trip EXCEPT ![x] = [status |-> s, load |-> trip[x].load,
                                   truck |-> trip[x].truck]]
  BY StatusWritten DEF CommitPatch
<1>4. s \in Blocking /\ s \in LoadStatuses
  BY <1>1 DEF CommitPatch, Releases, TripStatuses, TerminalTrip, Blocking, LoadStatuses
<1>5. /\ \A k \in Loads \ {job[w].load} :
            loadStatus'[k] = loadStatus[k] /\ assignedTruck'[k] = assignedTruck[k]
      /\ loadStatus'[job[w].load] = s /\ assignedTruck' = assignedTruck
      /\ loadStatus' \in [Loads -> LoadStatuses]
      /\ assignedTruck' \in [Loads -> Trucks \cup {Nil}]
      /\ UNCHANGED <<podSubmitted, request, available, posting>> /\ Finish(w)
  BY <1>2, <1>4, RowTypes DEF CommitPatch, truckVars
<1>6. /\ \A y \in Trips \ {x} : trip'[y] = trip[y]
      /\ trip'[x].status = s /\ trip'[x].load = trip[x].load /\ trip'[x].truck = trip[x].truck
  BY <1>1, <1>3
<1>7. FreedOK
  BY <1>1, <1>4, <1>6, StillBusy
<1>8. Carried(x) /\ trip'[x].status \in Moving => Carried(x)'
  BY <1>2, <1>5, <1>6 DEF Carried, Moving, Released
<1>9. /\ podSubmitted' \in [Loads -> BOOLEAN] /\ available' \in [Trucks -> BOOLEAN]
      /\ posting' \in [Trucks -> PostingStatuses]
  BY <1>5 DEF DeskInv, DeskTypeOK, TypeOK, DBTypeOK
<1>10. RowFree(w) /\ GuardHolds(w)
  BY DEF CommitPatch
<1>. PICK l \in Loads, t \in Trucks \cup {Nil} : l = trip[x].load /\ t = trip[x].truck
  BY <1>1, <1>2
<1>11. trip' = [trip EXCEPT ![x] = [status |-> s, load |-> l, truck |-> t]]
  BY <1>3
<1>12. request' = request /\ Finish(w) /\ l \in {trip[x].load, Nil}
  BY <1>5
<1> QED
  BY <1>1, <1>5, <1>7, <1>8, <1>9, <1>10, <1>11, <1>12, WriteOK

\* A POD is submitted.
LEMMA SubmitPodOK ==
  ASSUME DeskInv, NEW w \in Workers, CommitSubmitPod(w), desk' = desk
  PROVE  StepOK
<1>1. UNCHANGED <<loadStatus, assignedTruck, trip, request, available, posting>>
  BY DEF CommitSubmitPod, truckVars
<1>2. DBTypeOK' /\ RequestsWellFormed'
  BY <1>1 DEF CommitSubmitPod, DeskInv, DeskTypeOK, TypeOK, DBTypeOK, RequestsWellFormed
<1>3. Kept /\ LocksHold(Workers \ {w}) /\ Finish(w)
  BY <1>1 DEF Kept, LocksHold, CommitSubmitPod
<1>4. JobsInv' /\ DesksInv'
  BY <1>3, Parts, JobEnds, DesksStay
<1> QED
  BY <1>1, <1>2, <1>4, QuietRows DEF StepOK

\* Every commit of a trip handler is one of these.
LEMMA CommitOK ==
  ASSUME DeskInv, NEW w \in Workers, CommitStep(w), desk' = desk
  PROVE  StepOK
<1>1. podSubmitted \in [Loads -> BOOLEAN]
  BY DEF DeskInv, DeskTypeOK, TypeOK, DBTypeOK
<1>2. TripOps = {"patch", "cancelTrip", "confirmDelivery", "uploadPod", "autoClose", "reassign"}
  BY DEF TripOps
<1>3. CASE CommitPatch(w)
  BY <1>3, PatchOK
<1>4. CASE CommitPatchCompleted(w)
  BY <1>1, <1>2, <1>4, CompleteOK DEF CommitPatchCompleted
<1>5. CASE CommitPatchCancelled(w) \/ CommitCancelTrip(w)
  BY <1>2, <1>5, CancelOK DEF CommitPatchCancelled, CommitCancelTrip
<1>6. CASE CommitConfirmDelivery(w) \/ CommitAutoClose(w)
  BY <1>1, <1>2, <1>6, CompleteOK DEF CommitConfirmDelivery, CommitAutoClose
<1>7. CASE CommitUploadPod(w)
  BY <1>1, <1>2, <1>7, CompleteOK DEF CommitUploadPod
<1>8. CASE CommitReassign(w) \/ CommitSubmitPod(w)
  BY <1>8, ReassignOK, SubmitPodOK
<1> QED
  BY <1>3, <1>4, <1>5, <1>6, <1>7, <1>8 DEF CommitStep

\* Bookings and trips go on while the desks rest.
LEMMA FreightStepOK ==
  ASSUME DeskInv, FreightNext, desk' = desk
  PROVE  StepOK
<1>1. ASSUME NEW w \in Workers, CreateStep(w) PROVE StepOK
  BY <1>1, BeginCreateOK, InsertOK, MarkOK DEF CreateStep
<1>2. ASSUME NEW w \in Workers, AnswerStep(w) PROVE StepOK
  BY <1>2, BeginServeOK, CancelRequestOK, AnswerCommitsOK, MarkOK DEF AnswerStep
<1>3. ASSUME NEW w \in Workers, BookStep(w) PROVE StepOK
  BY <1>3, BeginServeOK, BookCommitsOK, AnswerCommitsOK DEF BookStep
<1> QED
  BY <1>1, <1>2, <1>3, AbortOK, WorkerlessOK, BeginTripOK, CountOK, CommitOK
     DEF FreightNext, BookingNext, TripNext

-----------------------------------------------------------------------------
(* The desks read *)

\* The trip of a load, without CHOOSE.
LEMMA TripOfIs ==
  ASSUME DeskInv, NEW l \in Loads
  PROVE  /\ TripOf(l) \in Trips \cup {Nil}
         /\ TripOf(l) # Nil => trip[TripOf(l)].load = l /\ trip[TripOf(l)].status # "NONE"
         /\ \A x \in Trips : trip[x].load = l => TripOf(l) = x /\ TripTruck(l) = trip[x].truck
         /\ TripTruck(l) \in Trucks \cup {Nil}
<1>1. l # Nil
  BY NilAssumption
<1>2. ASSUME NEW x \in Trips, trip[x].load = l PROVE TripsOf(l) = {x}
  BY <1>1, <1>2 DEF TripsOf, DeskInv, TripUnique
<1>3. ASSUME NEW x \in Trips, trip[x].load = l
      PROVE  TripOf(l) = x /\ TripTruck(l) = trip[x].truck
  <2>1. TripsOf(l) = {x}
    BY <1>2, <1>3
  <2>2. TripOf(l) = CHOOSE y \in {x} : TRUE
    BY <2>1 DEF TripOf
  <2>3. TripOf(l) = x
    BY <2>2
  <2> QED
    BY <2>1, <2>3 DEF TripTruck
<1>4. CASE TripsOf(l) = {}
  BY <1>3, <1>4 DEF TripOf, TripTruck
<1>5. CASE TripsOf(l) # {}
  <2>1. PICK x \in Trips : trip[x].load = l
    BY <1>5 DEF TripsOf
  <2>2. trip[x].status # "NONE" /\ trip[x].truck \in Trucks \cup {Nil}
    BY <1>1, <2>1, RowTypes DEF DeskInv, TripRowsFit
  <2> QED
    BY <1>3, <2>1, <2>2
<1> QED
  BY <1>4, <1>5

\* What a desk reads is of its type, and true.
LEMMA ReadingFits ==
  ASSUME DeskInv, NEW l \in Loads, NEW next \in LoadStatuses, NEW t \in Trucks \cup {Nil},
         NEW op \in DeskOps,
         op \in {"expireOld", "unpost"} => next \in {"EXPIRED", "UNPOSTED"}
  PROVE  Reading(op, l, next, t) \in DeskRow /\ Recalls(Reading(op, l, next, t))
<1>1. PICK x \in Trips \cup {Nil} : x = TripOf(l)
  BY TripOfIs
<1>2. HolderOf(t) \in Loads \cup {Nil}
  BY DEF HolderOf
<1>3. loadStatus[l] \in LoadStatuses /\ assignedTruck[l] \in Trucks \cup {Nil}
  BY RowTypes
<1>4. (IF x = Nil THEN Nil ELSE trip[x].status) \in TripStatuses \cup {Nil}
  BY <1>1, TripOfIs, RowTypes
<1>5. x # Nil => MadeFor(x, l)
  BY <1>1, TripOfIs DEF MadeFor
<1> QED
  BY <1>1, <1>2, <1>3, <1>4, <1>5 DEF Reading, DeskRow, Recalls

\* A handler has read what it needs.
LEMMA SitOK ==
  ASSUME DeskInv, NEW d \in Desks, NEW l \in Loads, NEW next \in LoadStatuses,
         NEW t \in Trucks \cup {Nil}, NEW op \in DeskOps, Sit(d, op, l, next, t),
         op \in {"expireOld", "unpost"} => next \in {"EXPIRED", "UNPOSTED"}
  PROVE  StepOK
<1>1. UNCHANGED vars /\ desk' = [desk EXCEPT ![d] = Reading(op, l, next, t)]
  BY DEF Sit
<1>2. Kept /\ LocksHold(Workers) /\ DBTypeOK' /\ RequestsWellFormed'
  BY <1>1 DEF vars, Kept, LocksHold, DeskInv, DeskTypeOK, TypeOK, DBTypeOK,
              RequestsWellFormed
<1>3. JobsInv'
  BY <1>1, <1>2, Parts, JobsStay DEF vars
<1>4. DesksInv'
  BY <1>1, <1>2, Parts, ReadingFits, DesksKept
<1> QED
  BY <1>1, <1>2, <1>3, <1>4, QuietRows DEF vars, StepOK

\* Every Begin step is of that kind.
LEMMA BeginDeskOK ==
  ASSUME DeskInv, NEW d \in Desks, BeginDesk(d)
  PROVE  StepOK
<1>1. PICK l \in Loads :
        \/ \E status \in LoadStatuses : BeginSetStatus(d, l, status) \/ BeginEdit(d, l, status)
        \/ BeginEscalate(d, l)
        \/ \E t \in Trucks : BeginAssign(d, l, t) \/ BeginCreateTrip(d, l, t) \/ BeginDispatch(d, l, t)
        \/ BeginExpireOld(d, l)
        \/ BeginUnpost(d, l)
  BY DEF BeginDesk
<1>2. PICK op \in DeskOps, next \in LoadStatuses, t \in Trucks \cup {Nil} :
        /\ Sit(d, op, l, next, t)
        /\ op \in {"expireOld", "unpost"} => next \in {"EXPIRED", "UNPOSTED"}
  <2>1. ASSUME NEW status \in LoadStatuses, BeginSetStatus(d, l, status)
        PROVE  Sit(d, "status", l, status, TripTruck(l)) /\ TripTruck(l) \in Trucks \cup {Nil}
    BY <2>1, TripOfIs DEF BeginSetStatus
  <2> QED
    BY <1>1, <2>1 DEF BeginEscalate, BeginEdit, BeginAssign, BeginCreateTrip, BeginDispatch,
                      BeginExpireOld, BeginUnpost, DeskOps, LoadStatuses
<1> QED
  BY <1>2, SitOK

-----------------------------------------------------------------------------
(* The desks write *)

\* A handler at its desk knows its load and what is asked for.
LEMMA AtDesk ==
  ASSUME DeskInv, NEW d \in Desks, desk[d].op # "none"
  PROVE  /\ desk[d].load \in Loads /\ desk[d].next \in LoadStatuses
         /\ desk[d].truck \in Trucks \cup {Nil}
         /\ desk[d].op \in {"expireOld", "unpost"} => desk[d].next \in {"EXPIRED", "UNPOSTED"}
         /\ desk[d].trip # Nil => desk[d].trip \in Trips /\ MadeFor(desk[d].trip, desk[d].load)
BY DEF DeskInv, DeskTypeOK, DeskRow, Recalls

\* A desk that rises acts.
LEMMA RiseActs ==
  ASSUME DeskInv, NEW d \in Desks, desk[d].op # "none", Rise(d)
  PROVE  Acts(d)
BY DEF DeskInv, DeskTypeOK, Rise, Acts, NoDesk

\* No trip is written.
LEMMA TriplessOK ==
  ASSUME DeskInv, trip' = trip, job' = job, DBTypeOK', RequestsWellFormed',
         \A q \in Requests : request[q].status # "NONE" => request'[q].status # "NONE",
         Kept => DesksInv', TakenOK
  PROVE  StepOK
<1>1. Kept /\ LocksHold(Workers)
  BY RowTypes DEF Kept, LocksHold
<1>2. JobsInv'
  BY <1>1, Parts, JobsStay
<1>3. RowsInv' /\ RevivedOK /\ FreedOK
  BY DEF DeskInv, RowsInv, TripRowsFit, TripUnique, RevivedOK, FreedOK, BlockingTrips
<1> QED
  BY <1>1, <1>2, <1>3 DEF StepOK

\* The handler ends without effect.
LEMMA DeskFailsOK ==
  ASSUME DeskInv, NEW d \in Desks, DeskFails(d)
  PROVE  StepOK
<1>1. UNCHANGED vars /\ Rise(d)
  BY DEF DeskFails
<1>2. DBTypeOK' /\ RequestsWellFormed'
  BY <1>1 DEF vars, DeskInv, DeskTypeOK, TypeOK, DBTypeOK, RequestsWellFormed
<1>3. TakenOK
  BY <1>1, <1>2, QuietRows DEF vars
<1>4. Kept => DesksInv'
  BY <1>1, Parts, DesksMove
<1> QED
  BY <1>1, <1>2, <1>3, <1>4, TriplessOK DEF vars

\* PENDING requests of a load are cancelled.
LEMMA ClearOK ==
  ASSUME DeskInv, NEW d \in Desks, ClearRequests(d)
  PROVE  StepOK
<1>1. UNCHANGED <<loadStatus, assignedTruck, podSubmitted, trip, available, posting, job>>
  BY DEF ClearRequests, loadVars, truckVars
<1>2. PICK Q : Voids(Q, "CANCELLED")
  BY DEF ClearRequests, Voids, PendingForLoad
<1>3. /\ request' \in [Requests -> RequestRow] /\ RequestsWellFormed'
      /\ \A r \in Requests : request[r].status # "NONE" => request'[r].status # "NONE"
  BY <1>2, Voided DEF RequestStatuses
<1>4. DBTypeOK'
  BY <1>1, <1>3 DEF DeskInv, DeskTypeOK, TypeOK, DBTypeOK
<1>5. TakenOK
  BY <1>1, <1>3, <1>4, QuietRows
<1>6. Kept => DesksInv'
  BY Parts, DesksMove DEF ClearRequests, At
<1> QED
  BY <1>1, <1>3, <1>4, <1>5, <1>6, TriplessOK

\* A load leaves the marketplace.
LEMMA LeavesOK ==
  ASSUME DeskInv, NEW l \in Loads, NEW s \in {"EXPIRED", "UNPOSTED"},
         loadStatus' = [loadStatus EXCEPT ![l] = s],
         UNCHANGED <<assignedTruck, podSubmitted, trip, request, truckVars, job>>,
         Kept => DesksInv'
  PROVE  StepOK
<1>1. loadStatus' \in [Loads -> LoadStatuses]
  BY RowTypes DEF LoadStatuses
<1>2. DBTypeOK' /\ RequestsWellFormed'
  BY <1>1 DEF DeskInv, DeskTypeOK, TypeOK, DBTypeOK, RequestsWellFormed, truckVars
<1>3. TakenOK
  BY MovingTrip, RowTypes DEF TakenOK, Carried, Released
<1> QED
  BY <1>2, <1>3, TriplessOK

\* The expiry of a load, and the loads of a shipper that is not trusted any more.
LEMMA OffOK ==
  ASSUME DeskInv, NEW d \in Desks, CommitOff(d)
  PROVE  StepOK
<1>1. desk[d].op \in {"expireOld", "unpost"}
  BY DEF CommitOff, At
<1>2. desk[d].load \in Loads /\ desk[d].next \in {"EXPIRED", "UNPOSTED"}
  BY <1>1, AtDesk
<1>3. Kept => DesksInv'
  BY Parts, DesksMove DEF CommitOff
<1> QED
  BY <1>2, <1>3, LeavesOK DEF CommitOff

\* The queue's cleanup job.
LEMMA CleanUpOK ==
  ASSUME DeskInv, NEW l \in Loads, CleanUpLoad(l)
  PROVE  StepOK
<1>1. Kept => DesksInv'
  BY Parts, DesksStay DEF CleanUpLoad
<1> QED
  BY <1>1, LeavesOK DEF CleanUpLoad

\* A dispatcher takes the truck of one load for another; no trip is made.
LEMMA DispatchOK ==
  ASSUME DeskInv, NEW d \in Desks, CommitDispatch(d)
  PROVE  StepOK
<1>1. desk[d].op # "none" /\ At(d, "dispatch") /\ Rise(d)
  BY DEF CommitDispatch, At
<1>2. TakenOK
  BY <1>1, RiseActs DEF TakenOK
<1>3. loadStatus' \in [Loads -> LoadStatuses] /\ assignedTruck' \in [Loads -> Trucks \cup {Nil}]
  BY <1>1, AtDesk, RowTypes DEF CommitDispatch, LoadStatuses
<1>4. DBTypeOK' /\ RequestsWellFormed'
  BY <1>3 DEF CommitDispatch, DeskInv, DeskTypeOK, TypeOK, DBTypeOK, RequestsWellFormed,
              truckVars
<1>5. Kept => DesksInv'
  BY <1>1, Parts, DesksMove
<1> QED
  BY <1>2, <1>4, <1>5, TriplessOK DEF CommitDispatch

\* A desk that has inserted a trip ends.
LEMMA InsertedOK ==
  ASSUME DeskInv, NEW d \in Desks, Rise(d), job' = job,
         \A q \in Requests : request[q].status # "NONE" => request'[q].status # "NONE",
         RowsInv', TakenOK, RevivedOK, FreedOK,
         \A x \in Trips : trip[x].status # "NONE" =>
              /\ trip'[x].status = trip[x].status
              /\ trip'[x].load \in {trip[x].load, Nil}
  PROVE  StepOK
<1>1. Kept /\ LocksHold(Workers)
  BY HeldTrip DEF Kept, LocksHold
<1>2. JobsInv' /\ DesksInv'
  BY <1>1, Parts, JobsStay, DesksMove
<1> QED
  BY <1>2 DEF StepOK

\* A load is assigned without a request.
LEMMA AssignOK ==
  ASSUME DeskInv, NEW d \in Desks, CommitAssign(d)
  PROVE  StepOK
<1>1. desk[d].op # "none" /\ Rise(d)
  BY DEF CommitAssign, At
<1>2. PICK l \in Loads, t \in Trucks \cup {Nil} : l = desk[d].load /\ t = desk[d].truck
  BY <1>1, AtDesk
<1>3. BookLoad(l, t) /\ UNCHANGED <<available, posting, job>>
  BY <1>2 DEF CommitAssign, BookLoad, WriteBooking, truckVars
<1>4. PICK Q : Voids(Q, "CANCELLED")
  BY DEF CommitAssign, Voids, PendingForLoad
<1>5. /\ request' \in [Requests -> RequestRow] /\ RequestsWellFormed'
      /\ \A r \in Requests : request[r].status # "NONE" => request'[r].status # "NONE"
  BY <1>4, Voided DEF RequestStatuses
<1>6. available' \in [Trucks -> BOOLEAN] /\ posting' \in [Trucks -> PostingStatuses]
  BY <1>3 DEF DeskInv, DeskTypeOK, TypeOK, DBTypeOK
<1> QED
  BY <1>1, <1>3, <1>5, <1>6, BookLoadInserts, BookRows, InsertedOK

\* A trip is made for a load and a truck.
LEMMA CreateTripOK ==
  ASSUME DeskInv, NEW d \in Desks, CommitCreateTrip(d)
  PROVE  StepOK
<1>1. desk[d].op # "none" /\ Rise(d)
  BY DEF CommitCreateTrip, At
<1>2. PICK l \in Loads, t \in Trucks \cup {Nil} : l = desk[d].load /\ t = desk[d].truck
  BY <1>1, AtDesk
<1>3. /\ loadStatus' = [loadStatus EXCEPT ![l] = "ASSIGNED"]
      /\ assignedTruck' = [assignedTruck EXCEPT ![l] = t]
      /\ TakeOffMarket(t)
      /\ UNCHANGED <<podSubmitted, request, job>>
  BY <1>2 DEF CommitCreateTrip
<1>4. Inserts(l, t)
  BY <1>2, <1>3, RowTypes DEF CommitCreateTrip, Inserts
<1>5. /\ loadStatus' \in [Loads -> LoadStatuses]
      /\ assignedTruck' \in [Loads -> Trucks \cup {Nil}]
  BY <1>3, RowTypes DEF LoadStatuses
<1>6. /\ available' \in [Trucks -> BOOLEAN] /\ posting' \in [Trucks -> PostingStatuses]
      /\ podSubmitted' \in [Loads -> BOOLEAN]
      /\ request' \in [Requests -> RequestRow] /\ RequestsWellFormed'
  BY <1>3 DEF TakeOffMarket, DeskInv, DeskTypeOK, TypeOK, DBTypeOK, PostingStatuses,
              RequestsWellFormed
<1> QED
  BY <1>1, <1>3, <1>4, <1>5, <1>6, BookRows, InsertedOK

\* The load's status and truck, as a status handler writes them.
LEMMA StatusTypes ==
  ASSUME DeskInv, NEW d \in Desks, desk[d].op # "none", WriteStatus(d)
  PROVE  /\ loadStatus' \in [Loads -> LoadStatuses]
         /\ assignedTruck' \in [Loads -> Trucks \cup {Nil}]
         /\ loadStatus'[desk[d].load] = desk[d].next
         /\ desk[d].next \notin Released =>
              assignedTruck'[desk[d].load] = assignedTruck[desk[d].load]
         /\ \A k \in Loads \ {desk[d].load} :
              loadStatus'[k] = loadStatus[k] /\ assignedTruck'[k] = assignedTruck[k]
<1>1. /\ desk[d].load \in Loads /\ desk[d].next \in LoadStatuses
      /\ loadStatus \in [Loads -> LoadStatuses]
      /\ assignedTruck \in [Loads -> Trucks \cup {Nil}]
  BY AtDesk, RowTypes
<1>2. TerminalLoad \subseteq Released
  BY DEF TerminalLoad, Released
<1> QED
  BY <1>1, <1>2 DEF WriteStatus

\* A desk that has written one trip of its load ends.
LEMMA DeskWrites ==
  ASSUME DeskInv, NEW d \in Desks, desk[d].op # "none", WriteStatus(d), Rise(d),
         NEW x \in Trips, NEW s \in TripStatuses, NEW l, NEW t \in Trucks \cup {Nil},
         trip' = [trip EXCEPT ![x] = [status |-> s, load |-> l, truck |-> t]],
         trip[x].load = desk[d].load, trip[x].truck = t, Unlocked(x),
         l \in {trip[x].load, Nil},
         s = "CANCELLED" \/ (l = trip[x].load /\ (s \in Moving => desk[d].next = s)),
         UNCHANGED <<podSubmitted, request, job>>,
         available' \in [Trucks -> BOOLEAN], posting' \in [Trucks -> PostingStatuses],
         RevivedOK, FreedOK
  PROVE  StepOK
<1>1. trip[x].load \in Loads /\ trip[x].load # Nil
  BY AtDesk, NilAssumption
<1>2. trip[x].status # "NONE"
  BY <1>1 DEF DeskInv, TripRowsFit
<1>3. s \in Blocking => l \in Loads
  BY <1>1 DEF Blocking
<1>4. /\ trip' \in [Trips -> TripRow] /\ TripRowsFit' /\ TripUnique'
      /\ trip'[x].status = s /\ trip'[x].load = l /\ trip'[x].truck = t
      /\ \A y \in Trips \ {x} : trip'[y] = trip[y]
      /\ \A y \in Trips : trip[y].status # "NONE" =>
           trip'[y].status # "NONE" /\ trip'[y].load \in {trip[y].load, Nil}
  BY <1>2, <1>3, WriteRows
<1>5. DBTypeOK' /\ RequestsWellFormed'
  BY <1>4, StatusTypes DEF DeskInv, DeskTypeOK, TypeOK, DBTypeOK, RequestsWellFormed
<1>6. Kept /\ LocksHold(Workers)
  BY <1>4, HeldTrip DEF Kept, LocksHold, Unlocked
<1>7. JobsInv' /\ DesksInv'
  BY <1>6, Parts, JobsStay, DesksMove
<1>8. TakenOK
  <2> SUFFICES ASSUME NEW y \in Trips, Carried(y), trip'[y].status \in Moving
               PROVE  Carried(y)'
    BY DEF TakenOK
  <2>1. /\ trip[y].load \in Loads
        /\ \A z \in Trips \ {y} : trip[z].load # trip[y].load
    BY MovingTrip DEF Carried
  <2>2. CASE y # x
    <3>1. trip'[y] = trip[y] /\ trip[y].load # desk[d].load
      BY <2>1, <2>2, <1>4
    <3> QED
      BY <2>1, <3>1, StatusTypes DEF Carried
  <2>3. CASE y = x
    <3>1. s \in Moving /\ l = trip[x].load /\ desk[d].next = s
      BY <2>3, <1>4 DEF Moving
    <3>2. desk[d].next \notin Released
      BY <3>1 DEF Moving, Released
    <3> QED
      BY <2>3, <3>1, <3>2, <1>4, StatusTypes DEF Carried
  <2> QED
    BY <2>2, <2>3
<1> QED
  BY <1>4, <1>5, <1>7, <1>8 DEF StepOK, RowsInv

\* The count writes no row; the lock it takes is in what the others may do.
LEMMA CountTripsOK ==
  ASSUME DeskInv, NEW d \in Desks, CountTrips(d)
  PROVE  StepOK
<1>1. UNCHANGED vars
  BY DEF CountTrips
<1>2. PICK n \in {"none", "some"} : desk' = [desk EXCEPT ![d].others = n]
  <2> DEFINE others == BlockingTrips(desk[d].truck) \ {desk[d].trip}
  <2>1. desk' = [desk EXCEPT ![d].others = IF others = {} THEN "none" ELSE "some"]
    BY DEF CountTrips
  <2> QED
    BY <2>1
<1>3. PICK r : r = [desk[d] EXCEPT !.others = n]
  OBVIOUS
<1>4. desk[d] \in DeskRow /\ Recalls(desk[d])
  BY Parts DEF DesksInv
<1>5. r \in DeskRow
  BY <1>3, <1>4 DEF DeskRow
<1>6. /\ r.op = desk[d].op /\ r.load = desk[d].load
      /\ r.next = desk[d].next /\ r.trip = desk[d].trip
  BY <1>3, <1>4 DEF DeskRow
<1>7. Recalls(r)
  BY <1>4, <1>6 DEF Recalls
<1>8. desk' = [desk EXCEPT ![d] = r]
  BY <1>2, <1>3, Parts DEF DesksInv
<1>9. DBTypeOK' /\ RequestsWellFormed'
  BY <1>1 DEF vars, DeskInv, DeskTypeOK, TypeOK, DBTypeOK, RequestsWellFormed
<1>10. TakenOK
  BY <1>1, <1>9, QuietRows DEF vars
<1>11. Kept => DesksInv'
  BY <1>5, <1>7, <1>8, Parts, DesksKept
<1> QED
  BY <1>1, <1>9, <1>10, <1>11, TriplessOK DEF vars

\* PATCH loads/[id] with a status.
LEMMA EditOK ==
  ASSUME DeskInv, NEW d \in Desks, CommitEdit(d)
  PROVE  StepOK
<1>1. /\ desk[d].op # "none" /\ WriteStatus(d) /\ Rise(d) /\ At(d, "edit")
      /\ UNCHANGED <<podSubmitted, request, available, posting, job>>
  BY DEF CommitEdit, At, truckVars
<1>2. RevivedOK /\ FreedOK
  BY <1>1, RiseActs DEF RevivedOK, FreedOK
<1>3. /\ desk[d].load \in Loads /\ desk[d].next \in LoadStatuses
      /\ desk[d].load # Nil
  BY <1>1, AtDesk, NilAssumption
<1>4. CASE TripOf(desk[d].load) # Nil /\ desk[d].next \in TripStatuses
  <2>1. PICK x \in Trips, s \in TripStatuses, l \in Loads, t \in Trucks \cup {Nil} :
          /\ x = TripOf(desk[d].load) /\ s = desk[d].next
          /\ l = desk[d].load /\ trip[x].load = l /\ t = trip[x].truck
    BY <1>3, <1>4, TripOfIs, RowTypes
  <2>2. Unlocked(x) /\ trip' = [trip EXCEPT ![x].status = s]
    BY <1>4, <2>1 DEF CommitEdit
  <2>3. trip' = [trip EXCEPT ![x] = [status |-> s, load |-> l, truck |-> t]]
    <3>1. trip' = [trip EXCEPT ![x] = [status |-> s, load |-> trip[x].load,
                                       truck |-> trip[x].truck]]
      BY <2>2, StatusWritten
    <3>2. trip[x].load = l /\ trip[x].truck = t
      BY <2>1
    <3> QED
      BY <3>1, <3>2
  <2>4. available' \in [Trucks -> BOOLEAN] /\ posting' \in [Trucks -> PostingStatuses]
    BY <1>1 DEF DeskInv, DeskTypeOK, TypeOK, DBTypeOK
  <2>5. /\ trip[x].load = desk[d].load /\ trip[x].truck = t
        /\ l \in {trip[x].load, Nil}
        /\ s = "CANCELLED" \/ (l = trip[x].load /\ (s \in Moving => desk[d].next = s))
        /\ desk[d].op # "none" /\ WriteStatus(d) /\ Rise(d)
        /\ UNCHANGED <<podSubmitted, request, job>>
    BY <1>1, <2>1
  <2> QED
    BY <1>2, <2>2, <2>3, <2>4, <2>5, DeskWrites
<1>5. CASE ~(TripOf(desk[d].load) # Nil /\ desk[d].next \in TripStatuses)
  <2>1. trip' = trip
    BY <1>5 DEF CommitEdit
  <2>2. DBTypeOK' /\ RequestsWellFormed'
    BY <1>1, <2>1, StatusTypes DEF DeskInv, DeskTypeOK, TypeOK, DBTypeOK, RequestsWellFormed
  <2>3. TakenOK
    <3> SUFFICES ASSUME NEW y \in Trips, Carried(y), ~Carried(y)'
                 PROVE  loadStatus'[trip[y].load] = "EXPIRED"
      BY DEF TakenOK
    <3>1. trip[y].load \in Loads
      BY MovingTrip DEF Carried
    <3>2. trip[y].load = desk[d].load
      BY <1>1, <2>1, <3>1, StatusTypes DEF Carried
    <3>3. TripOf(desk[d].load) = y
      BY <3>1, <3>2, TripOfIs
    <3>4. desk[d].next \notin TripStatuses
      BY <1>5, <3>3, NilAssumption
    <3>5. desk[d].next \in Released
      BY <1>1, <2>1, <3>2, StatusTypes DEF Carried
    <3>6. desk[d].next = "EXPIRED"
      BY <3>4, <3>5 DEF Released, TripStatuses
    <3> QED
      BY <1>1, <3>2, <3>6, StatusTypes
  <2>4. Kept => DesksInv'
    BY <1>1, Parts, DesksMove
  <2> QED
    BY <1>1, <2>1, <2>2, <2>3, <2>4, TriplessOK
<1> QED
  BY <1>4, <1>5

\* The truck's columns keep their types when a desk frees it.
LEMMA FreedTypes ==
  ASSUME DeskInv, NEW d \in Desks, FreeTruck(d)
  PROVE  available' \in [Trucks -> BOOLEAN] /\ posting' \in [Trucks -> PostingStatuses]
BY DEF DeskInv, DeskTypeOK, TypeOK, DBTypeOK, FreeTruck, PostingStatuses, truckVars

\* A handler whose reads are up to date knows the load's trip and the trip's truck.
LEMMA UpToDate ==
  ASSUME DeskInv, NEW d \in Desks, At(d, "status"), ~Stale(d), NEW x \in Trips,
         trip[x].load = desk[d].load
  PROVE  desk[d].trip = x /\ desk[d].tripSeen = trip[x].status /\ desk[d].truck = trip[x].truck
<1>1. desk[d].load \in Loads
  BY AtDesk DEF At
<1>2. [desk[d] EXCEPT !.others = "uncounted"]
        = Reading(desk[d].op, desk[d].load, desk[d].next, TripTruck(desk[d].load))
  BY DEF Stale
<1>3. TripOf(desk[d].load) = x /\ TripTruck(desk[d].load) = trip[x].truck /\ x # Nil
  BY <1>1, TripOfIs, NilAssumption
<1>4. PICK r \in DeskRow : r = desk[d]
  BY Parts DEF DesksInv
<1>5. [r EXCEPT !.others = "uncounted"] = Reading(r.op, r.load, r.next, trip[x].truck)
  BY <1>2, <1>3, <1>4
<1>6. TripOf(r.load) = x
  BY <1>3, <1>4
<1>7. r.trip = x /\ r.tripSeen = trip[x].status /\ r.truck = trip[x].truck
  BY <1>3, <1>5, <1>6 DEF Reading, DeskRow
<1> QED
  BY <1>4, <1>7

\* PATCH loads/[id]/status.
LEMMA SetStatusOK ==
  ASSUME DeskInv, NEW d \in Desks, CommitSetStatus(d)
  PROVE  StepOK
<1>1. /\ desk[d].op # "none" /\ At(d, "status") /\ WriteStatus(d) /\ Rise(d) /\ SyncTrip(d)
      /\ FreeTruck(d) /\ UNCHANGED <<podSubmitted, request, job>>
  BY DEF CommitSetStatus, At
<1>2. Acts(d)
  BY <1>1, RiseActs
<1>3. /\ desk[d].load \in Loads /\ desk[d].next \in LoadStatuses /\ desk[d].load # Nil
      /\ desk[d].trip # Nil => desk[d].trip \in Trips /\ MadeFor(desk[d].trip, desk[d].load)
  BY <1>1, AtDesk, NilAssumption
<1>4. available' \in [Trucks -> BOOLEAN] /\ posting' \in [Trucks -> PostingStatuses]
  BY <1>1, FreedTypes
<1>5. /\ TripStatusFor(desk[d].next) \in TripStatuses \cup {Nil}
      /\ desk[d].next # "EXPIRED" => TripStatusFor(desk[d].next) \in {desk[d].next, Nil}
      /\ desk[d].next \in {"DELIVERED", "COMPLETED", "CANCELLED"} =>
           TripStatusFor(desk[d].next) = desk[d].next
  BY DEF TripStatusFor, TripStatuses
<1>6. CASE Synced(d)
  <2>1. PICK x \in Trips, s \in TripStatuses, t \in Trucks \cup {Nil} :
          x = desk[d].trip /\ s = TripStatusFor(desk[d].next) /\ t = trip[x].truck
    BY <1>3, <1>5, <1>6, RowTypes DEF Synced
  <2>2. PICK l : l = IF s = "CANCELLED" THEN Nil ELSE trip[x].load
    OBVIOUS
  <2>3. /\ Unlocked(x) /\ trip[x].status \notin TerminalTrip
        /\ trip' = [trip EXCEPT ![x] = [status |-> s, load |-> l, truck |-> t]]
    BY <1>1, <1>6, <2>1, <2>2 DEF SyncTrip
  <2>4. trip[x].status \in Blocking /\ trip[x].load = desk[d].load
    BY <1>3, <2>1, <2>3, RowTypes, NilAssumption
       DEF MadeFor, DeskInv, TripRowsFit, TerminalTrip, TripStatuses, Blocking
  <2>5. s = "CANCELLED" \/ (l = trip[x].load /\ (s \in Moving => desk[d].next = s))
    BY <1>5, <2>1, <2>2, StatusAssumption DEF TripStatusFor, Moving, LoadStatuses
  <2>6. /\ trip'[x].status = s /\ trip'[x].truck = t
        /\ \A y \in Trips \ {x} : trip'[y] = trip[y]
    BY <2>3, RowTypes
  <2>7. RevivedOK
    BY <2>3, <2>6 DEF RevivedOK
  <2>8. FreedOK
    <3> SUFFICES ASSUME NEW u \in Trucks, BlockingTrips(u) # {}, BlockingTrips(u)' = {},
                        ~available'[u], ~Stale(d)
                 PROVE  desk[d].next = "EXPIRED" \/ desk[d].others = "some"
      BY <1>2 DEF FreedOK
    <3>1. BlockingTrips(u) = {x} /\ trip[x].truck = u /\ s \notin Blocking
      BY <2>1, <2>6 DEF BlockingTrips
    <3>2. desk[d].truck = u
      BY <1>1, <2>4, <3>1, UpToDate
    <3>3. s \in {"COMPLETED", "CANCELLED"}
      BY <3>1 DEF TripStatuses, Blocking
    <3>4. CASE desk[d].next # "EXPIRED" /\ desk[d].others # "some"
      <4>1. FreesTruck(d)
        BY <1>5, <1>6, <2>1, <3>3, <3>4, StatusAssumption DEF FreesTruck, Synced, LoadStatuses
      <4>2. desk[d].others = "none"
        BY <1>1, <3>4, <4>1, Parts DEF FreeTruck, DesksInv, DeskRow
      <4>3. available'[u]
        BY <1>1, <3>2, <4>1, <4>2, RowTypes DEF FreeTruck
      <4> QED
        BY <4>3
    <3> QED
      BY <3>4
  <2>9. l \in {trip[x].load, Nil}
    BY <2>2
  <2> QED
    BY <1>1, <1>4, <2>1, <2>3, <2>4, <2>5, <2>7, <2>8, <2>9, DeskWrites
<1>7. CASE ~Synced(d)
  <2>1. trip' = trip
    BY <1>1, <1>7 DEF SyncTrip
  <2>2. DBTypeOK' /\ RequestsWellFormed'
    BY <1>1, <1>4, <2>1, StatusTypes
       DEF DeskInv, DeskTypeOK, TypeOK, DBTypeOK, RequestsWellFormed
  <2>3. TakenOK
    <3> SUFFICES ASSUME NEW y \in Trips, Carried(y), ~Carried(y)'
                 PROVE  OutOfDate(trip[y].load) \/ loadStatus'[trip[y].load] = "EXPIRED"
      BY DEF TakenOK
    <3>1. trip[y].load \in Loads /\ trip[y].status \in Moving
      BY MovingTrip DEF Carried
    <3>2. trip[y].load = desk[d].load
      BY <1>1, <2>1, <3>1, StatusTypes DEF Carried
    <3>3. desk[d].next \in Released
      BY <1>1, <2>1, <3>2, StatusTypes DEF Carried
    <3>4. CASE Stale(d)
      BY <1>2, <3>2, <3>4 DEF OutOfDate
    <3>5. CASE ~Stale(d)
      <4>1. desk[d].trip = y /\ desk[d].tripSeen \in Moving /\ y # Nil
        BY <1>1, <3>1, <3>2, <3>5, UpToDate, NilAssumption
      <4>2. TripStatusFor(desk[d].next) \in {Nil} \cup Moving
        BY <1>7, <4>1 DEF Synced
      <4>3. desk[d].next = "EXPIRED"
        BY <1>5, <3>3, <4>2, StatusAssumption DEF Released, Moving, LoadStatuses
      <4> QED
        BY <1>1, <3>2, <4>3, StatusTypes
    <3> QED
      BY <3>4, <3>5
  <2>4. Kept => DesksInv'
    BY <1>1, Parts, DesksMove
  <2> QED
    BY <1>1, <2>1, <2>2, <2>3, <2>4, TriplessOK
<1> QED
  BY <1>6, <1>7

-----------------------------------------------------------------------------
(* Every step *)

\* Every step of a worker or a desk keeps the invariant and the three properties.
LEMMA DeskStepOK == DeskInv /\ [DeskNext]_deskVars => StepOK /\ DeskInv'
<1> SUFFICES ASSUME DeskInv, [DeskNext]_deskVars PROVE StepOK /\ DeskInv'
  OBVIOUS
<1>1. ASSUME FreightNext, UNCHANGED <<desk, calls>>, RowsHeld PROVE StepOK
  <2>1. FreightNext /\ desk' = desk
    BY <1>1
  <2> QED
    BY <2>1, FreightStepOK
<1>2. ASSUME NEW d \in Desks, BeginDesk(d) \/ CommitDesk(d) \/ DeskFails(d) PROVE StepOK
  BY <1>2, BeginDeskOK, DeskFailsOK, CountTripsOK, SetStatusOK, EditOK, AssignOK, CreateTripOK, DispatchOK,
     OffOK, ClearOK DEF CommitDesk
<1>3. ASSUME NEW l \in Loads, CleanUpLoad(l) PROVE StepOK
  BY <1>3, CleanUpOK
<1>4. ASSUME UNCHANGED deskVars PROVE StepOK
  <2>1. DBTypeOK' /\ RequestsWellFormed'
    BY <1>4 DEF deskVars, vars, DeskInv, DeskTypeOK, TypeOK, DBTypeOK, RequestsWellFormed
  <2>2. TakenOK
    BY <1>4, <2>1, QuietRows DEF deskVars, vars
  <2>3. Kept => DesksInv'
    BY <1>4, Parts, DesksStay DEF deskVars
  <2>4. /\ trip' = trip /\ job' = job
        /\ \A q \in Requests : request[q].status # "NONE" => request'[q].status # "NONE"
    BY <1>4 DEF deskVars, vars
  <2> QED
    BY <2>1, <2>2, <2>3, <2>4, TriplessOK
<1>5. StepOK
  BY <1>1, <1>2, <1>3, <1>4 DEF DeskNext
<1>6. calls' \in 0 .. MaxCalls
  <2>1. ASSUME NEW d \in Desks, BeginDesk(d) PROVE calls < MaxCalls /\ calls' = calls + 1
    BY <2>1 DEF BeginDesk, BeginSetStatus, BeginEdit, BeginEscalate, BeginAssign,
       BeginCreateTrip, BeginDispatch, BeginExpireOld, BeginUnpost, Sit
  <2>2. ASSUME NEW d \in Desks, CommitDesk(d) PROVE calls' = calls
    <3>1. CASE CountTrips(d) \/ CommitSetStatus(d) \/ CommitEdit(d) \/ CommitAssign(d)
      BY <3>1 DEF CountTrips, CommitSetStatus, CommitEdit, CommitAssign, Rise
    <3>2. CASE CommitCreateTrip(d) \/ CommitDispatch(d) \/ CommitOff(d)
      BY <3>2 DEF CommitCreateTrip, CommitDispatch, CommitOff, Rise, Turn
    <3>3. CASE ClearRequests(d)
      <4>1. Turn(d, "clearLoad") \/ Turn(d, "clearMatch") \/ Rise(d)
        BY <3>3 DEF ClearRequests
      <4> QED
        BY <4>1 DEF Turn, Rise
    <3> QED
      BY <2>2, <3>1, <3>2, <3>3 DEF CommitDesk
  <2>3. ASSUME NEW d \in Desks, DeskFails(d) PROVE calls' = calls
    BY <2>3 DEF DeskFails, Rise
  <2>4. ASSUME NEW l \in Loads, CleanUpLoad(l) PROVE calls' = calls
    BY <2>4 DEF CleanUpLoad
  <2>5. ASSUME UNCHANGED deskVars PROVE calls' = calls
    BY <2>5 DEF deskVars
  <2>6. calls' = calls \/ (calls < MaxCalls /\ calls' = calls + 1)
    BY <2>1, <2>2, <2>3, <2>4, <2>5 DEF DeskNext
  <2> QED
    BY <2>6, MaxCallsAssumption DEF DeskInv, DeskTypeOK
<1>7. RowsInv' /\ JobsInv' /\ DesksInv'
  BY <1>5 DEF StepOK
<1>8. DeskInv'
  BY <1>6, <1>7 DEF RowsInv, JobsInv, DesksInv, DeskInv, DeskTypeOK, TypeOK
<1> QED
  BY <1>5, <1>8

\* DeskInv is an invariant of all handlers together.
THEOREM DeskInvariant == DeskSpec => []DeskInv
BY DeskInitInv, DeskStepOK, PTL DEF DeskSpec

\* Rows, jobs and desks always hold values of their types.
THEOREM DeskTypes == DeskSpec => []DeskTypeOK
<1>1. DeskInv => DeskTypeOK
  BY DEF DeskInv
<1> QED
  BY <1>1, DeskInvariant, PTL

\* Nobody takes the load away from a trip under way, unless on old information, as a
\* dispatcher or by an expiry.
THEOREM TripsKeepTheirLoads == DeskSpec => TakenFromTrip
<1>1. DeskInv /\ [DeskNext]_deskVars => [TakenOK]_deskVars
  BY DeskStepOK DEF StepOK
<1> QED
  BY <1>1, DeskInvariant, PTL DEF DeskSpec, TakenFromTrip, TakenOK

\* An ended trip comes back only where it is written by its id alone.
THEOREM EndedTripsStay == DeskSpec => RevivedByEdit
<1>1. DeskInv /\ [DeskNext]_deskVars => [RevivedOK]_deskVars
  BY DeskStepOK DEF StepOK
<1> QED
  BY <1>1, DeskInvariant, PTL DEF DeskSpec, RevivedByEdit, RevivedOK

\* The end of a truck's last active trip makes the truck available, with the exceptions
\* the property names.
THEOREM LastTripsFreeTrucks == DeskSpec => LastTripFreesTruck
<1>1. DeskInv /\ [DeskNext]_deskVars => [FreedOK]_deskVars
  BY DeskStepOK DEF StepOK
<1> QED
  BY <1>1, DeskInvariant, PTL DEF DeskSpec, LastTripFreesTruck, FreedOK
=============================================================================
