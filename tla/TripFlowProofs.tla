---------------------------- MODULE TripFlowProofs ----------------------------
(***************************************************************************)
(* The trip handlers keep their promises for any number of loads, trucks,  *)
(* trips and workers.  TripInv is the inductive invariant.  A step either  *)
(* leaves the rows alone and gives one worker a job (lemma TakesJob), or   *)
(* writes one trip, its load and its trucks and ends the job: the lemmas   *)
(* MovePreserves, CancelPreserves and ReassignPreserves deal with the      *)
(* rows, lemma JobsSurvive with what the other handlers know.              *)
(***************************************************************************)
EXTENDS TripFlow, MarketProofs, TLAPS

\* The part of TripInv that concerns the rows, and the part about the jobs.
RowsInv ==
  /\ DBTypeOK
  /\ TripRowsWellFormed
  /\ LoadMirrorsTrip
  /\ LoadNamesTruck
  /\ TripUnique
  /\ TruckUnique
  /\ PodAfterDelivery

JobsInv ==
  /\ job \in [Workers -> JobRow]
  /\ JobsKnowTheirTrip
  /\ CountedHoldRow
  /\ PodComesAfterDelivery

\* TripInv is made of these two parts.
LEMMA Parts == TripInv <=> RowsInv /\ JobsInv
BY DEF TripInv, RowsInv, JobsInv, TypeOK

\* Initially every trip is booked and nobody works on it.
LEMMA TripInitInv == TripInit => TripInv
<1>1. SUFFICES ASSUME TripInit PROVE TripInv
  OBVIOUS
<1>2. PICK loadOf \in [Trips -> Loads], truckOf \in [Trips -> Trucks] :
        LET booked == {loadOf[x] : x \in Trips}
            taken == {truckOf[x] : x \in Trips}
            tripOf(l) == CHOOSE x \in Trips : loadOf[x] = l
        IN  /\ \A x, y \in Trips : x # y => loadOf[x] # loadOf[y] /\ truckOf[x] # truckOf[y]
            /\ trip = [x \in Trips |->
                         [status |-> "ASSIGNED", load |-> loadOf[x], truck |-> truckOf[x]]]
            /\ loadStatus = [l \in Loads |-> IF l \in booked THEN "ASSIGNED" ELSE "POSTED"]
            /\ assignedTruck = [l \in Loads |-> IF l \in booked THEN truckOf[tripOf(l)] ELSE Nil]
            /\ podSubmitted = [l \in Loads |-> FALSE]
            /\ request = [q \in Requests |-> NoRequestRow]
            /\ available = [t \in Trucks |-> t \notin taken]
            /\ posting = [t \in Trucks |-> IF t \in taken THEN "MATCHED" ELSE "ACTIVE"]
            /\ job = [w \in Workers |-> Idle]
  BY <1>1 DEF TripInit
<1> DEFINE booked == {loadOf[x] : x \in Trips}
           tripOf(l) == CHOOSE x \in Trips : loadOf[x] = l
<1>3. \A x \in Trips : tripOf(loadOf[x]) = x
  BY <1>2
<1>4. \A l \in booked : tripOf(l) \in Trips /\ loadOf[tripOf(l)] = l
  OBVIOUS
<1> HIDE DEF tripOf
<1>5. /\ \A x \in Trips : /\ trip[x].status = "ASSIGNED"
                           /\ trip[x].load = loadOf[x]
                           /\ trip[x].truck = truckOf[x]
      /\ \A l \in booked : loadStatus[l] = "ASSIGNED" /\ assignedTruck[l] = truckOf[tripOf(l)]
      /\ \A l \in Loads \ booked : loadStatus[l] = "POSTED" /\ assignedTruck[l] = Nil
  BY <1>2 DEF tripOf
<1>6. DBTypeOK
  <2>1. assignedTruck \in [Loads -> Trucks \cup {Nil}]
    BY <1>2, <1>4 DEF tripOf
  <2> QED  BY <2>1, <1>2 DEF DBTypeOK, LoadStatuses, TripRow, TripStatuses,
              RequestRow, NoRequestRow, PostingStatuses
<1>7. TripRowsWellFormed /\ LoadMirrorsTrip /\ PodAfterDelivery
  BY <1>2, <1>5 DEF TripRowsWellFormed, LoadMirrorsTrip, PodAfterDelivery, TripStatuses
<1>8. LoadNamesTruck
  <2> SUFFICES ASSUME NEW x \in Trips PROVE assignedTruck[trip[x].load] = trip[x].truck
    BY DEF LoadNamesTruck
  <2>1. loadOf[x] \in booked
    OBVIOUS
  <2>2. trip[x].load = loadOf[x] /\ trip[x].truck = truckOf[x]
    BY <1>5
  <2>3. assignedTruck[loadOf[x]] = truckOf[tripOf(loadOf[x])]
    BY <2>1, <1>5
  <2> QED  BY <2>2, <2>3, <1>3
<1>9. TripUnique
  BY <1>2, <1>5 DEF TripUnique
<1>10. TruckUnique
  BY <1>2, <1>4, <1>5 DEF TruckUnique
<1>11. JobsInv
  <2>1. \A w \in Workers : job[w] = Idle
    BY <1>2
  <2> QED
    BY <2>1, <1>2 DEF JobsInv, JobsKnowTheirTrip, CountedHoldRow, PodComesAfterDelivery,
       Idle, JobRow, TripOps, Ops
<1> QED  BY <1>6, <1>7, <1>8, <1>9, <1>10, <1>11, Parts DEF RowsInv

-----------------------------------------------------------------------------
(* Jobs *)

\* A worker's job j fits the rows: what JobsKnowTheirTrip and
\* PodComesAfterDelivery ask for it.
Fits(j) ==
  /\ IF j.op \in TripOps
     THEN /\ j.trip \in Trips
          /\ j.load \in Loads
          /\ j.truck \in Trucks
          /\ trip[j.trip].status # "CANCELLED" => trip[j.trip].load = j.load
          /\ j.op = "patch" => /\ j.seen \in TripStatuses
                               /\ j.next \in VALID_TRIP_TRANSITIONS[j.seen]
          /\ j.op = "reassign" => j.to \in Trucks
          /\ j.op \in {"confirmDelivery", "uploadPod"}
               => trip[j.trip].status \in {"DELIVERED", "COMPLETED"}
     ELSE j.op \in {"idle", "submitPod"}
  /\ j.op = "submitPod" => j.load \in Loads /\ loadStatus[j.load] \in {"DELIVERED", "COMPLETED"}

JobsFit == \A w \in Workers : Fits(job[w])

\* That every job fits is what these two conjuncts of TripInv say.
LEMMA AllFit == JobsKnowTheirTrip /\ PodComesAfterDelivery <=> JobsFit
BY DEF JobsFit, JobsKnowTheirTrip, PodComesAfterDelivery, Fits

\* One worker takes a job that fits and has counted nothing; no trip or load
\* changes its status.
LEMMA JobTaken ==
  ASSUME TripInv, NEW w \in Workers, NEW j \in JobRow,
         UNCHANGED <<trip, loadStatus>>, job' = [job EXCEPT ![w] = j],
         Fits(j), j.others = "uncounted"
  PROVE  JobsInv'
<1>1. /\ job' \in [Workers -> JobRow]
      /\ job'[w] = j
      /\ \A v \in Workers \ {w} : job'[v] = job[v]
  BY Parts DEF JobsInv
<1>2. JobsFit
  BY AllFit DEF TripInv
<1>3. JobsFit'
  BY <1>1, <1>2 DEF JobsFit, Fits
<1>4. JobsKnowTheirTrip' /\ PodComesAfterDelivery'
  BY <1>3 DEF JobsFit, JobsKnowTheirTrip, PodComesAfterDelivery, Fits
<1>5. CountedHoldRow'
  BY <1>1 DEF TripInv, CountedHoldRow, Releases, RowFree, GuardHolds
<1> QED  BY <1>1, <1>4, <1>5 DEF JobsInv

\* The same when no row changes at all.
LEMMA TakesJob ==
  ASSUME TripInv, NEW w \in Workers, NEW j \in JobRow,
         UNCHANGED dbVars, job' = [job EXCEPT ![w] = j],
         Fits(j), j.others = "uncounted"
  PROVE  TripInv'
<1>1. RowsInv'
  BY Parts DEF dbVars, RowsInv, DBTypeOK, TripRowsWellFormed, LoadMirrorsTrip,
     LoadNamesTruck, TripUnique, TruckUnique, PodAfterDelivery
<1>2. JobsInv'
  BY JobTaken DEF dbVars
<1> QED  BY <1>1, <1>2 DEF RowsInv, JobsInv, TripInv, TypeOK

\* The trip x moves legally or is completed twice, keeping its load unless it is
\* cancelled.
Moves(x) ==
  /\ \A y \in Trips \ {x} : trip'[y] = trip[y]
  /\ \/ trip'[x].status = trip[x].status
     \/ trip'[x].status \in VALID_TRIP_TRANSITIONS[trip[x].status]
  /\ trip'[x].status # "CANCELLED" => trip'[x].load = trip[x].load

\* A handler that alone holds the row of x moves it and ends, and no load leaves
\* DELIVERED but for COMPLETED: what the other handlers know remains true.
LEMMA JobsSurvive ==
  ASSUME TripInv, NEW w \in Workers, NEW x \in Trips, Moves(x),
         \A v \in Workers \ {w} : job[v].trip = x => job[v].others = "uncounted",
         job' = [job EXCEPT ![w] = Idle],
         \A l \in Loads : loadStatus[l] \in {"DELIVERED", "COMPLETED"}
            => loadStatus'[l] \in {"DELIVERED", "COMPLETED"}
  PROVE  JobsInv'
<1>1. /\ job' \in [Workers -> JobRow]
      /\ job'[w] = Idle
      /\ \A v \in Workers \ {w} : job'[v] = job[v]
  BY Parts DEF JobsInv, Idle, JobRow, Ops
<1>2. JobsFit
  BY AllFit DEF TripInv
<1>3. trip[x].status = "CANCELLED" => trip'[x].status = "CANCELLED"
  BY Transitions DEF Moves
<1>4. trip[x].status \in {"DELIVERED", "COMPLETED"}
        => trip'[x].status \in {"DELIVERED", "COMPLETED"}
  BY Transitions DEF Moves
<1>5. JobsFit'
  <2> SUFFICES ASSUME NEW v \in Workers PROVE Fits(job[v])'
    BY DEF JobsFit
  <2>1. CASE v = w
    BY <2>1, <1>1 DEF Fits, Idle, TripOps
  <2>2. CASE v # w
    <3>1. Fits(job[v]) /\ job'[v] = job[v]
      BY <2>2, <1>1, <1>2 DEF JobsFit
    <3>2. CASE job[v].trip = x
      BY <3>1, <3>2, <1>3, <1>4 DEF Fits, Moves
    <3>3. CASE job[v].trip # x
      BY <3>1, <3>3 DEF Fits, Moves
    <3> QED  BY <3>2, <3>3
  <2> QED  BY <2>1, <2>2
<1>6. JobsKnowTheirTrip' /\ PodComesAfterDelivery'
  BY <1>5 DEF JobsFit, JobsKnowTheirTrip, PodComesAfterDelivery, Fits
<1>7. CountedHoldRow'
  <2> SUFFICES ASSUME NEW v \in Workers, job'[v].others # "uncounted"
               PROVE  /\ job'[v].op \in TripOps
                      /\ Releases(v)'
                      /\ RowFree(v)'
                      /\ GuardHolds(v)'
    BY DEF CountedHoldRow
  <2>1. v # w /\ job'[v] = job[v]
    BY <1>1 DEF Idle
  <2>2. job[v].op \in TripOps /\ Releases(v) /\ RowFree(v) /\ GuardHolds(v)
    BY <2>1 DEF TripInv, CountedHoldRow
  <2>3. job[v].trip # x /\ job[v].trip \in Trips
    BY <2>1, <2>2 DEF TripInv, JobsKnowTheirTrip
  <2>4. trip'[job[v].trip] = trip[job[v].trip]
    BY <2>3 DEF Moves
  <2>5. Releases(v)' /\ GuardHolds(v)'
    BY <2>1, <2>2, <2>4 DEF Releases, GuardHolds
  <2>6. RowFree(v)'
    BY <2>2, <1>1 DEF RowFree, Idle
  <2> QED  BY <2>1, <2>2, <2>5, <2>6
<1> QED  BY <1>1, <1>6, <1>7 DEF JobsInv

-----------------------------------------------------------------------------
(* Rows *)

\* No load leaves DELIVERED or COMPLETED for another status.
LoadsStayDelivered ==
  \A l \in Loads : loadStatus[l] \in {"DELIVERED", "COMPLETED"}
    => loadStatus'[l] \in {"DELIVERED", "COMPLETED"}

\* A trip and its load take the same legal next status, or are completed twice.
LEMMA MovePreserves ==
  ASSUME TripInv, NEW x \in Trips, NEW s \in TripStatuses \ {"CANCELLED"},
         trip[x].status # "CANCELLED",
         s \in VALID_TRIP_TRANSITIONS[trip[x].status] \/ s = trip[x].status,
         trip' = [trip EXCEPT ![x].status = s],
         loadStatus' = [loadStatus EXCEPT ![trip[x].load] = s],
         \/ UNCHANGED podSubmitted
         \/ s = "COMPLETED" /\ podSubmitted' = [podSubmitted EXCEPT ![trip[x].load] = TRUE],
         available' \in [Trucks -> BOOLEAN],
         posting' \in [Trucks -> PostingStatuses],
         UNCHANGED <<assignedTruck, request>>
  PROVE  RowsInv' /\ Moves(x) /\ LoadsStayDelivered
<1> DEFINE l == trip[x].load
<1> USE DEF TripInv, TypeOK
<1>1. l \in Loads /\ loadStatus[l] = trip[x].status
  BY NilAssumption DEF TripRowsWellFormed, LoadMirrorsTrip
<1>2. /\ trip'[x].status = s
      /\ trip'[x].load = l
      /\ trip'[x].truck = trip[x].truck
      /\ \A y \in Trips \ {x} : trip'[y] = trip[y]
  BY DEF DBTypeOK, TripRow
<1>3. loadStatus'[l] = s /\ \A k \in Loads \ {l} : loadStatus'[k] = loadStatus[k]
  BY <1>1 DEF DBTypeOK
<1>4. Moves(x)
  BY <1>2 DEF Moves
<1>5. LoadsStayDelivered
  BY <1>1, <1>3, Transitions DEF LoadsStayDelivered
<1>6. \A y \in Trips \ {x} : trip[y].load # l
  BY <1>1, NilAssumption DEF TripUnique
<1>7. DBTypeOK'
  <2>1. loadStatus' \in [Loads -> LoadStatuses]
    BY DEF DBTypeOK, TripStatuses, LoadStatuses
  <2>2. trip' \in [Trips -> TripRow]
    BY DEF DBTypeOK, TripRow
  <2>3. podSubmitted' \in [Loads -> BOOLEAN]
    BY DEF DBTypeOK
  <2> QED  BY <2>1, <2>2, <2>3 DEF DBTypeOK
<1>8. TripRowsWellFormed'
  BY <1>1, <1>2 DEF TripRowsWellFormed
<1>9. LoadMirrorsTrip'
  <2> SUFFICES ASSUME NEW y \in Trips, trip'[y].load # Nil
               PROVE  loadStatus'[trip'[y].load] = trip'[y].status
    BY DEF LoadMirrorsTrip
  <2>1. CASE y = x
    BY <2>1, <1>2, <1>3
  <2>2. CASE y # x
    <3>1. trip'[y] = trip[y] /\ trip[y].load \in Loads \ {l}
      BY <2>2, <1>2, <1>6 DEF TripRowsWellFormed
    <3> QED  BY <3>1, <1>3 DEF LoadMirrorsTrip
  <2> QED  BY <2>1, <2>2
<1>10. LoadNamesTruck'
  <2> SUFFICES ASSUME NEW y \in Trips, trip'[y].status \in Blocking
               PROVE  assignedTruck[trip'[y].load] = trip'[y].truck
    BY DEF LoadNamesTruck
  <2>1. CASE y = x
    <3>1. trip[x].status \in Blocking
      BY <2>1, <1>2, Transitions DEF Blocking, TripStatuses, TripRowsWellFormed
    <3> QED  BY <2>1, <3>1, <1>2 DEF LoadNamesTruck
  <2>2. CASE y # x
    BY <2>2, <1>2 DEF LoadNamesTruck
  <2> QED  BY <2>1, <2>2
<1>11. TripUnique' /\ TruckUnique'
  BY <1>2 DEF TripUnique, TruckUnique
<1>12. PodAfterDelivery'
  <2> SUFFICES ASSUME NEW k \in Loads, podSubmitted'[k]
               PROVE  loadStatus'[k] \in {"DELIVERED", "COMPLETED"}
    BY DEF PodAfterDelivery
  <2>1. CASE podSubmitted[k]
    BY <2>1, <1>5 DEF PodAfterDelivery, LoadsStayDelivered
  <2>2. CASE ~podSubmitted[k]
    BY <2>2, <1>3 DEF DBTypeOK
  <2> QED  BY <2>1, <2>2
<1> QED
  BY <1>4, <1>5, <1>7, <1>8, <1>9, <1>10, <1>11, <1>12 DEF RowsInv

\* A trip lets go of its load, which returns to the marketplace.
LEMMA CancelPreserves ==
  ASSUME TripInv, NEW x \in Trips,
         "CANCELLED" \in VALID_TRIP_TRANSITIONS[trip[x].status],
         trip' = [trip EXCEPT ![x] =
                     [status |-> "CANCELLED", load |-> Nil, truck |-> trip[x].truck]],
         loadStatus' = [loadStatus EXCEPT ![trip[x].load] = "POSTED"],
         assignedTruck' = [assignedTruck EXCEPT ![trip[x].load] = Nil],
         available' \in [Trucks -> BOOLEAN],
         posting' \in [Trucks -> PostingStatuses],
         UNCHANGED <<podSubmitted, request>>
  PROVE  RowsInv' /\ Moves(x) /\ LoadsStayDelivered
<1> DEFINE l == trip[x].load
<1> USE DEF TripInv, TypeOK
<1>1. trip[x].status \in {"ASSIGNED", "PICKUP_PENDING", "EXCEPTION"}
  BY Transitions DEF TripRowsWellFormed
<1>2. l \in Loads /\ loadStatus[l] = trip[x].status
  BY <1>1, NilAssumption DEF TripRowsWellFormed, LoadMirrorsTrip
<1>3. /\ trip'[x].status = "CANCELLED"
      /\ trip'[x].load = Nil
      /\ trip'[x].truck = trip[x].truck
      /\ \A y \in Trips \ {x} : trip'[y] = trip[y]
  BY DEF DBTypeOK, TripRow
<1>4. /\ loadStatus'[l] = "POSTED"
      /\ assignedTruck'[l] = Nil
      /\ \A k \in Loads \ {l} : loadStatus'[k] = loadStatus[k]
                                  /\ assignedTruck'[k] = assignedTruck[k]
  BY <1>2 DEF DBTypeOK
<1>5. Moves(x)
  BY <1>3 DEF Moves
<1>6. LoadsStayDelivered
  BY <1>1, <1>2, <1>4 DEF LoadsStayDelivered
<1>7. \A y \in Trips \ {x} : trip[y].load # l
  BY <1>2, NilAssumption DEF TripUnique
<1>8. DBTypeOK'
  <2>1. trip' \in [Trips -> TripRow]
    BY DEF DBTypeOK, TripRow, TripStatuses
  <2>2. loadStatus' \in [Loads -> LoadStatuses] /\ assignedTruck' \in [Loads -> Trucks \cup {Nil}]
    BY DEF DBTypeOK, LoadStatuses
  <2> QED  BY <2>1, <2>2 DEF DBTypeOK
<1>9. TripRowsWellFormed'
  BY <1>3 DEF TripRowsWellFormed, TripStatuses
<1>10. \A y \in Trips \ {x} : trip[y].load # Nil => trip[y].load \in Loads \ {l}
  BY <1>7 DEF TripRowsWellFormed
<1>11. LoadMirrorsTrip'
  <2> SUFFICES ASSUME NEW y \in Trips, trip'[y].load # Nil
               PROVE  loadStatus'[trip'[y].load] = trip'[y].status
    BY DEF LoadMirrorsTrip
  <2>1. y # x /\ trip'[y] = trip[y] /\ trip[y].load \in Loads \ {l}
    BY <1>3, <1>10
  <2>2. loadStatus[trip[y].load] = trip[y].status
    BY <2>1, NilAssumption DEF LoadMirrorsTrip
  <2> QED  BY <2>1, <2>2, <1>4
<1>12. LoadNamesTruck'
  <2> SUFFICES ASSUME NEW y \in Trips, trip'[y].status \in Blocking
               PROVE  assignedTruck'[trip'[y].load] = trip'[y].truck
    BY DEF LoadNamesTruck
  <2>1. y # x
    BY <1>3 DEF Blocking
  <2>2. trip[y].load \in Loads \ {l}
    BY <2>1, <1>3, <1>7 DEF TripRowsWellFormed, Blocking
  <2>3. trip'[y] = trip[y] /\ assignedTruck[trip[y].load] = trip[y].truck
    BY <2>1, <1>3 DEF LoadNamesTruck
  <2> QED  BY <2>2, <2>3, <1>4
<1>13. TripUnique'
  BY <1>3 DEF TripUnique
<1>14. TruckUnique'
  BY <1>4 DEF TruckUnique
<1>15. PodAfterDelivery'
  BY <1>6 DEF PodAfterDelivery, LoadsStayDelivered
<1> QED
  BY <1>5, <1>6, <1>8, <1>9, <1>11, <1>12, <1>13, <1>14, <1>15 DEF RowsInv

\* A trip in EXCEPTION goes on with another truck, which no other load names.
LEMMA ReassignPreserves ==
  ASSUME TripInv, NEW x \in Trips, NEW t \in Trucks,
         trip[x].status = "EXCEPTION",
         \A k \in Loads \ {trip[x].load} : assignedTruck[k] # t,
         trip' = [trip EXCEPT ![x] =
                     [status |-> "IN_TRANSIT", load |-> trip[x].load, truck |-> t]],
         loadStatus' = [loadStatus EXCEPT ![trip[x].load] = "IN_TRANSIT"],
         assignedTruck' = [assignedTruck EXCEPT ![trip[x].load] = t],
         available' \in [Trucks -> BOOLEAN],
         posting' \in [Trucks -> PostingStatuses],
         UNCHANGED <<podSubmitted, request>>
  PROVE  RowsInv' /\ Moves(x) /\ LoadsStayDelivered
<1> DEFINE l == trip[x].load
<1> USE DEF TripInv, TypeOK
<1>1. l \in Loads /\ loadStatus[l] = "EXCEPTION"
  BY NilAssumption DEF TripRowsWellFormed, LoadMirrorsTrip
<1>2. /\ trip'[x].status = "IN_TRANSIT"
      /\ trip'[x].load = l
      /\ trip'[x].truck = t
      /\ \A y \in Trips \ {x} : trip'[y] = trip[y]
  BY DEF DBTypeOK, TripRow
<1>3. /\ loadStatus'[l] = "IN_TRANSIT"
      /\ assignedTruck'[l] = t
      /\ \A k \in Loads \ {l} : loadStatus'[k] = loadStatus[k]
                                  /\ assignedTruck'[k] = assignedTruck[k]
  BY <1>1 DEF DBTypeOK
<1>4. Moves(x)
  BY <1>2, Transitions DEF Moves
<1>5. LoadsStayDelivered
  BY <1>1, <1>3 DEF LoadsStayDelivered
<1>6. \A y \in Trips \ {x} : trip[y].load # l
  BY <1>1, NilAssumption DEF TripUnique
<1>7. DBTypeOK'
  <2>1. trip' \in [Trips -> TripRow]
    BY DEF DBTypeOK, TripRow, TripStatuses
  <2>2. loadStatus' \in [Loads -> LoadStatuses] /\ assignedTruck' \in [Loads -> Trucks \cup {Nil}]
    BY DEF DBTypeOK, LoadStatuses
  <2> QED  BY <2>1, <2>2 DEF DBTypeOK
<1>8. TripRowsWellFormed'
  BY <1>1, <1>2 DEF TripRowsWellFormed, TripStatuses
<1>9. \A y \in Trips \ {x} : trip[y].load # Nil => trip[y].load \in Loads \ {l}
  BY <1>6 DEF TripRowsWellFormed
<1>10. LoadMirrorsTrip'
  <2> SUFFICES ASSUME NEW y \in Trips, trip'[y].load # Nil
               PROVE  loadStatus'[trip'[y].load] = trip'[y].status
    BY DEF LoadMirrorsTrip
  <2>1. CASE y = x
    BY <2>1, <1>2, <1>3
  <2>2. CASE y # x
    <3>1. trip'[y] = trip[y] /\ trip[y].load \in Loads \ {l}
      BY <2>2, <1>2, <1>9
    <3>2. loadStatus[trip[y].load] = trip[y].status
      BY <3>1, NilAssumption DEF LoadMirrorsTrip
    <3> QED  BY <3>1, <3>2, <1>3
  <2> QED  BY <2>1, <2>2
<1>11. LoadNamesTruck'
  <2> SUFFICES ASSUME NEW y \in Trips, trip'[y].status \in Blocking
               PROVE  assignedTruck'[trip'[y].load] = trip'[y].truck
    BY DEF LoadNamesTruck
  <2>1. CASE y = x
    BY <2>1, <1>2, <1>3
  <2>2. CASE y # x
    <3>1. trip'[y] = trip[y]
      BY <2>2, <1>2
    <3>2. trip[y].load \in Loads \ {l}
      BY <2>2, <3>1, <1>6 DEF TripRowsWellFormed, Blocking
    <3>3. assignedTruck[trip[y].load] = trip[y].truck
      BY <3>1 DEF LoadNamesTruck
    <3> QED  BY <3>1, <3>2, <3>3, <1>3
  <2> QED  BY <2>1, <2>2
<1>12. TripUnique'
  <2>1. \A y \in Trips : trip'[y].load = trip[y].load
    BY <1>2
  <2> QED  BY <2>1 DEF TripUnique
<1>13. TruckUnique'
  BY <1>3 DEF TruckUnique
<1>14. PodAfterDelivery'
  BY <1>5 DEF PodAfterDelivery, LoadsStayDelivered
<1> QED
  BY <1>4, <1>5, <1>7, <1>8, <1>10, <1>11, <1>12, <1>13, <1>14 DEF RowsInv

-----------------------------------------------------------------------------
(* Steps *)

\* What a handler gives back is of its columns' types.
LEMMA ReleasedTypes ==
  ASSUME TripInv, NEW w \in Workers
  PROVE  AvailableAfter(w) \in [Trucks -> BOOLEAN]
           /\ PostingAfter(w) \in [Trucks -> PostingStatuses]
BY DEF TripInv, TypeOK, DBTypeOK, AvailableAfter, PostingAfter, PostingStatuses

\* A handler that has counted holds the row of a trip that is not cancelled and
\* whose load it knows; a patched trip may take the status asked for.
LEMMA Holding ==
  ASSUME TripInv, NEW w \in Workers, job[w].op \in TripOps,
         RowFree(w), GuardHolds(w)
  PROVE  /\ job[w].trip \in Trips
         /\ \A v \in Workers \ {w} : job[v].trip = job[w].trip => job[v].others = "uncounted"
         /\ trip[job[w].trip].status # "CANCELLED"
         /\ job[w].load = trip[job[w].trip].load
         /\ job[w].op = "patch" => job[w].next \in VALID_TRIP_TRANSITIONS[trip[job[w].trip].status]
         /\ job[w].op = "cancelTrip" => trip[job[w].trip].status \in {"ASSIGNED", "PICKUP_PENDING"}
         /\ job[w].op = "reassign" => trip[job[w].trip].status = "EXCEPTION" /\ job[w].to \in Trucks
         /\ job[w].op \in {"confirmDelivery", "uploadPod", "autoClose"}
              => trip[job[w].trip].status \in {"DELIVERED", "COMPLETED"}
<1>1. /\ job[w].trip \in Trips
      /\ job[w].op = "patch" => /\ job[w].seen \in TripStatuses
                                /\ job[w].next \in VALID_TRIP_TRANSITIONS[job[w].seen]
      /\ job[w].op = "reassign" => job[w].to \in Trucks
      /\ job[w].op \in {"confirmDelivery", "uploadPod"}
           => trip[job[w].trip].status \in {"DELIVERED", "COMPLETED"}
      /\ trip[job[w].trip].status # "CANCELLED" => trip[job[w].trip].load = job[w].load
  BY DEF TripInv, JobsKnowTheirTrip
<1>2. \A v \in Workers \ {w} : job[v].trip = job[w].trip => job[v].others = "uncounted"
  BY DEF RowFree
<1>3. /\ job[w].op = "patch" => trip[job[w].trip].status = job[w].seen
      /\ job[w].op = "cancelTrip" => trip[job[w].trip].status \in {"ASSIGNED", "PICKUP_PENDING"}
      /\ job[w].op = "autoClose" => trip[job[w].trip].status = "DELIVERED"
      /\ job[w].op = "reassign" => trip[job[w].trip].status = "EXCEPTION"
  BY DEF GuardHolds
<1>4. trip[job[w].trip].status # "CANCELLED"
  BY <1>1, <1>3, Transitions DEF TripOps
<1> QED  BY <1>1, <1>2, <1>3, <1>4

LegalStep ==
  \A x \in Trips : trip'[x].status # trip[x].status
    => trip'[x].status \in VALID_TRIP_TRANSITIONS[trip[x].status]

HaulStep == [Haul!HaulageNext]_HauledBy

\* The lemmas of MarketProofs apply in both states.
LEMMA RowsHaul ==
  ASSUME TripInv, RowsInv'
  PROVE  TripUnique /\ MovingRows /\ HauledByIs /\ HauledByIs'
<1>1. TripUnique /\ MovingRows
  BY DEF TripInv, TripRowsWellFormed, MovingRows, Moving
<1>2. (TripUnique /\ MovingRows)'
  BY DEF RowsInv, TripRowsWellFormed, MovingRows, Moving
<1>3. HauledByIs
  BY <1>1, Hauled
<1>4. HauledByIs'
  BY <1>2, HauledNext
<1> QED  BY <1>1, <1>3, <1>4

\* A trip that moves legally with its truck goes on hauling, or stops.
LEMMA MoveHauls ==
  ASSUME TripInv, RowsInv', NEW x \in Trips, Moves(x), trip'[x].truck = trip[x].truck
  PROVE  LegalStep /\ HaulStep
<1>1. LegalStep
  BY DEF LegalStep, Moves
<1>2. \A y \in Trips \ {x} : SameHaul(y)
  BY DEF SameHaul, Moves
<1>3. trip'[x].status \in Moving => trip[x].status \in Moving
  BY Transitions DEF Moves, Moving, TripStatuses, TripInv, TripRowsWellFormed
<1>4. CASE trip'[x].status \in Moving \/ trip[x].status \notin Moving
  <2>1. SameHaul(x)
    BY <1>3, <1>4 DEF SameHaul, Moves, Moving
  <2>2. HauledBy' = HauledBy
    BY <2>1, <1>2, RowsHaul, HaulUnchanged
  <2> QED  BY <2>2, <1>1 DEF HaulStep
<1>5. CASE trip'[x].status \notin Moving /\ trip[x].status \in Moving
  <2>1. Haul!PutDown(trip[x].load) /\ trip[x].load \in Loads
    BY <1>2, <1>5, RowsHaul, HaulPutDown DEF MovingRows
  <2> QED  BY <2>1, <1>1 DEF HaulStep, Haul!HaulageNext
<1> QED  BY <1>4, <1>5

\* A reassigned trip goes on hauling with a truck that hauled nothing.
LEMMA ReassignHauls ==
  ASSUME TripInv, RowsInv', NEW x \in Trips, NEW t \in Trucks, Moves(x),
         trip[x].status = "EXCEPTION", trip'[x].status = "IN_TRANSIT", trip'[x].truck = t,
         \A k \in Loads \ {trip[x].load} : assignedTruck[k] # t
  PROVE  LegalStep /\ HaulStep
<1>1. LegalStep
  BY DEF LegalStep, Moves
<1>2. \A y \in Trips \ {x} : SameHaul(y)
  BY DEF SameHaul, Moves
<1>3. trip'[x].load = trip[x].load /\ trip[x].load \in Loads
  BY DEF Moves, TripInv, TripRowsWellFormed
<1>4. CASE trip[x].truck = t
  <2>1. SameHaul(x)
    BY <1>3, <1>4 DEF SameHaul, Moving
  <2>2. HauledBy' = HauledBy
    BY <2>1, <1>2, RowsHaul, HaulUnchanged
  <2> QED  BY <2>2, <1>1 DEF HaulStep
<1>5. CASE trip[x].truck # t
  <2>1. \A y \in Trips \ {x} : trip[y].load # trip[x].load
    BY <1>3, NilAssumption DEF TripInv, TripUnique
  <2>2. ASSUME NEW y \in Trips, trip[y].status \in Moving PROVE trip[y].truck # t
    <3>1. CASE y = x
      BY <3>1, <1>5
    <3>2. CASE y # x
      <4>1. trip[y].load \in Loads \ {trip[x].load}
        BY <2>1, <2>2, <3>2 DEF TripInv, TripRowsWellFormed, Moving
      <4>2. assignedTruck[trip[y].load] = trip[y].truck
        BY <2>2 DEF TripInv, LoadNamesTruck, Moving, Blocking
      <4> QED  BY <4>1, <4>2
    <3> QED  BY <3>1, <3>2
  <2>3. trip'[x].status \in Moving
    BY DEF Moving
  <2>4. Haul!Take(trip[x].load, t)
    BY <1>2, <1>3, <2>1, <2>2, <2>3, RowsHaul, HaulTake
  <2> QED  BY <2>4, <1>1, <1>3 DEF HaulStep, Haul!HaulageNext
<1> QED  BY <1>4, <1>5

\* Both at once, for a step that leaves the rows alone.
LEMMA StillHauls ==
  ASSUME TripInv, TripInv', UNCHANGED dbVars
  PROVE  LegalStep /\ HaulStep
<1>1. LegalStep
  BY DEF LegalStep, dbVars
<1>2. RowsInv'
  BY DEF TripInv, RowsInv, TypeOK
<1>3. \A y \in Trips : SameHaul(y)
  BY DEF SameHaul, dbVars
<1>4. HauledBy' = HauledBy
  BY <1>2, <1>3, RowsHaul, HaulUnchanged
<1> QED  BY <1>1, <1>4 DEF HaulStep

StepOK == TripInv' /\ LegalStep /\ HaulStep

\* Each Begin step takes a job that fits what it has just read.
LEMMA BeginOK ==
  ASSUME TripInv, NEW w \in Workers, BeginStep(w)
  PROVE  StepOK
<1> DEFINE J(x, op, next, to) == Handling(x, op, next, to)
<1>1. SUFFICES ASSUME UNCHANGED dbVars PROVE TripInv'
  BY StillHauls DEF StepOK, BeginStep, BeginPatch, BeginCancelTrip, BeginConfirmDelivery,
     BeginVerifyPod, BeginUploadPod, BeginAutoClose, BeginReassign, BeginSubmitPod
<1>2. ASSUME NEW x \in Trips, NEW op \in TripOps,
             NEW next \in TripStatuses, NEW to \in Trucks \cup {Nil},
             Start(w, J(x, op, next, to)),
             trip[x].status \in Blocking,
             op = "patch" => next \in VALID_TRIP_TRANSITIONS[trip[x].status],
             op = "reassign" => to \in Trucks,
             op \in {"confirmDelivery", "uploadPod"} => trip[x].status = "DELIVERED"
      PROVE  TripInv'
  <2>1. /\ trip[x].status \in TripStatuses /\ trip[x].status # "CANCELLED"
        /\ trip[x].load \in Loads /\ trip[x].truck \in Trucks
    BY <1>2 DEF TripInv, TripRowsWellFormed, Blocking
  <2>2. J(x, op, next, to) \in JobRow
    BY <2>1, <1>2 DEF Handling, JobRow, Ops, TripOps, TripStatuses, LoadStatuses
  <2>3. Fits(J(x, op, next, to))
    BY <2>1, <1>2 DEF Handling, Fits, TripOps
  <2>4. J(x, op, next, to).others = "uncounted" /\ job' = [job EXCEPT ![w] = J(x, op, next, to)]
    BY <1>2 DEF Handling, Start
  <2> HIDE DEF J
  <2> QED  BY <2>2, <2>3, <2>4, <1>1, TakesJob
<1>3. ASSUME NEW x \in Trips, NEW status \in TripStatuses, BeginPatch(w, x, status)
      PROVE  TripInv'
  <2>1. trip[x].status \in Blocking
    BY <1>3, Transitions DEF BeginPatch, TripStatuses, Blocking
  <2> QED  BY <2>1, <1>2, <1>3 DEF BeginPatch, TripOps
<1>4. ASSUME NEW x \in Trips, BeginCancelTrip(w, x) PROVE TripInv'
  BY <1>2, <1>4 DEF BeginCancelTrip, TripOps, Blocking, TripStatuses
<1>5. ASSUME NEW x \in Trips, BeginConfirmDelivery(w, x) PROVE TripInv'
  BY <1>2, <1>5 DEF BeginConfirmDelivery, TripOps, Blocking, TripStatuses
<1>6. ASSUME NEW x \in Trips, BeginUploadPod(w, x) PROVE TripInv'
  BY <1>2, <1>6 DEF BeginUploadPod, TripOps, Blocking, TripStatuses
<1>7. ASSUME NEW x \in Trips, BeginAutoClose(w, x) PROVE TripInv'
  BY <1>2, <1>7 DEF BeginAutoClose, Stuck, TripOps, Blocking, TripStatuses
<1>8. ASSUME NEW x \in Trips, NEW t \in Trucks, BeginReassign(w, x, t) PROVE TripInv'
  BY <1>2, <1>8 DEF BeginReassign, TripOps, Blocking, TripStatuses
<1>9. ASSUME NEW l \in Loads, BeginSubmitPod(w, l) PROVE TripInv'
  <2>1. job' = [job EXCEPT ![w] = Submitting(l)]
    BY <1>9 DEF BeginSubmitPod, Start
  <2>2. Submitting(l) \in JobRow
    BY DEF Submitting, JobRow, Ops
  <2>3. Fits(Submitting(l)) /\ Submitting(l).others = "uncounted"
    BY <1>9 DEF Submitting, Fits, TripOps, BeginSubmitPod
  <2> QED  BY <2>1, <2>2, <2>3, <1>1, TakesJob
<1> QED
  BY <1>3, <1>4, <1>5, <1>6, <1>7, <1>8, <1>9 DEF BeginStep, BeginVerifyPod, BeginSubmitPod

\* A handler puts its job down.
LEMMA AbortOK ==
  ASSUME TripInv, NEW w \in Workers, Abort(w)
  PROVE  StepOK
<1>1. UNCHANGED dbVars /\ job' = [job EXCEPT ![w] = Idle]
  BY DEF Abort, Finish
<1>2. Idle \in JobRow /\ Fits(Idle) /\ Idle.others = "uncounted"
  BY DEF Idle, JobRow, Ops, Fits, TripOps
<1>3. TripInv'
  BY <1>1, <1>2, TakesJob
<1> QED  BY <1>1, <1>3, StillHauls DEF StepOK

\* The count takes the lock.
LEMMA CountOK ==
  ASSUME TripInv, NEW w \in Workers, CountOthers(w)
  PROVE  StepOK
<1>1. UNCHANGED dbVars
  BY DEF CountOthers
<1>2. RowsInv'
  BY <1>1, Parts DEF dbVars, RowsInv, DBTypeOK, TripRowsWellFormed, LoadMirrorsTrip,
     LoadNamesTruck, TripUnique, TruckUnique, PodAfterDelivery
<1>3. PICK n \in {"none", "some"} : job' = [job EXCEPT ![w] = [job[w] EXCEPT !.others = n]]
  <2> DEFINE others == BlockingTrips(job[w].truck) \ {job[w].trip}
  <2>1. job' = [job EXCEPT ![w] = [job[w] EXCEPT !.others = IF others = {} THEN "none" ELSE "some"]]
    BY DEF CountOthers, Continue
  <2> QED  BY <2>1
<1>4. job \in [Workers -> JobRow]
  BY DEF TripInv, TypeOK
<1>5. job' \in [Workers -> JobRow]
  <2>1. [job[w] EXCEPT !.others = n] \in JobRow
    BY <1>4 DEF JobRow
  <2> QED  BY <2>1, <1>3, <1>4
<1>6. /\ job'[w].op = job[w].op /\ job'[w].trip = job[w].trip /\ job'[w].load = job[w].load
      /\ job'[w].truck = job[w].truck /\ job'[w].seen = job[w].seen
      /\ job'[w].next = job[w].next /\ job'[w].to = job[w].to /\ job'[w].others = n
      /\ \A v \in Workers \ {w} : job'[v] = job[v]
  BY <1>3, <1>4 DEF JobRow
<1>7. JobsKnowTheirTrip'
  BY <1>1, <1>6 DEF TripInv, JobsKnowTheirTrip, dbVars
<1>8. PodComesAfterDelivery'
  BY <1>1, <1>6 DEF TripInv, PodComesAfterDelivery, dbVars
<1>9. CountedHoldRow'
  <2> SUFFICES ASSUME NEW v \in Workers, job'[v].others # "uncounted"
               PROVE  /\ job'[v].op \in TripOps
                      /\ Releases(v)'
                      /\ RowFree(v)'
                      /\ GuardHolds(v)'
    BY DEF CountedHoldRow
  <2>1. CASE v = w
    <3>1. job[w].op \in TripOps /\ Releases(w) /\ RowFree(w) /\ GuardHolds(w)
      BY DEF CountOthers, Releases, TripOps
    <3>2. Releases(w)'
      BY <3>1, <1>6 DEF Releases
    <3>3. GuardHolds(w)'
      BY <3>1, <1>1, <1>6 DEF GuardHolds, dbVars
    <3>4. RowFree(w)'
      BY <3>1, <1>6 DEF RowFree
    <3> QED  BY <2>1, <3>1, <3>2, <3>3, <3>4, <1>6
  <2>2. CASE v # w
    <3>1. job'[v] = job[v] /\ job[v].others # "uncounted"
      BY <2>2, <1>6
    <3>2. job[v].op \in TripOps /\ Releases(v) /\ RowFree(v) /\ GuardHolds(v)
      BY <3>1 DEF TripInv, CountedHoldRow
    <3>3. Releases(v)' /\ GuardHolds(v)'
      BY <3>1, <3>2, <1>1 DEF Releases, GuardHolds, dbVars
    <3>4. job[w].trip # job[v].trip
      BY <2>2, <3>1 DEF CountOthers, RowFree
    <3>5. RowFree(v)'
      BY <3>2, <3>4, <1>6 DEF RowFree
    <3> QED  BY <3>1, <3>2, <3>3, <3>5
  <2> QED  BY <2>1, <2>2
<1>10. TripInv'
  BY <1>2, <1>5, <1>7, <1>8, <1>9 DEF TripInv, RowsInv, TypeOK
<1> QED  BY <1>1, <1>10, StillHauls DEF StepOK

\* A handler writes its trip and what belongs to it, and ends.
LEMMA WriteOK ==
  ASSUME TripInv, NEW w \in Workers, NEW x \in Trips,
         \A v \in Workers \ {w} : job[v].trip = x => job[v].others = "uncounted",
         Finish(w), RowsInv', Moves(x), LoadsStayDelivered
  PROVE  TripInv'
<1>1. JobsInv'
  BY JobsSurvive DEF Finish, LoadsStayDelivered
<1> QED  BY <1>1 DEF TripInv, RowsInv, JobsInv, TypeOK

\* The handlers that complete a trip, POD or not.
LEMMA CompleteOK ==
  ASSUME TripInv, NEW w \in Workers, job[w].op \in TripOps, RowFree(w), GuardHolds(w),
         \/ job[w].op \in {"confirmDelivery", "uploadPod", "autoClose"}
         \/ job[w].op = "patch" /\ job[w].next = "COMPLETED",
         Complete(w),
         \/ UNCHANGED podSubmitted
         \/ podSubmitted' = [podSubmitted EXCEPT ![job[w].load] = TRUE]
  PROVE  StepOK
<1> DEFINE x == job[w].trip
<1>1. /\ x \in Trips
      /\ \A v \in Workers \ {w} : job[v].trip = x => job[v].others = "uncounted"
      /\ trip[x].status # "CANCELLED"
      /\ job[w].load = trip[x].load
      /\ \/ "COMPLETED" \in VALID_TRIP_TRANSITIONS[trip[x].status]
         \/ "COMPLETED" = trip[x].status
  BY Holding, Transitions
<1>2. available' \in [Trucks -> BOOLEAN] /\ posting' \in [Trucks -> PostingStatuses]
  BY ReleasedTypes DEF Complete, ReleaseTruck
<1>3. /\ trip' = [trip EXCEPT ![x].status = "COMPLETED"]
      /\ loadStatus' = [loadStatus EXCEPT ![trip[x].load] = "COMPLETED"]
      /\ Finish(w)
      /\ UNCHANGED <<assignedTruck, request>>
  BY <1>1 DEF Complete
<1>4. \/ UNCHANGED podSubmitted
      \/ "COMPLETED" = "COMPLETED" /\ podSubmitted' = [podSubmitted EXCEPT ![trip[x].load] = TRUE]
  BY <1>1
<1>5. "COMPLETED" \in TripStatuses \ {"CANCELLED"}
  BY DEF TripStatuses
<1> HIDE DEF x
<1>6. RowsInv' /\ Moves(x) /\ LoadsStayDelivered
  BY <1>1, <1>2, <1>3, <1>4, <1>5, MovePreserves
<1>7. TripInv'
  BY <1>1, <1>3, <1>6, WriteOK
<1>8. trip'[x].truck = trip[x].truck
  BY <1>1, <1>3 DEF TripInv, TypeOK, DBTypeOK, TripRow
<1> QED  BY <1>1, <1>6, <1>7, <1>8, MoveHauls DEF StepOK

\* The handlers that cancel a trip.
LEMMA CancelOK ==
  ASSUME TripInv, NEW w \in Workers, job[w].op \in TripOps, RowFree(w), GuardHolds(w),
         job[w].op = "cancelTrip" \/ (job[w].op = "patch" /\ job[w].next = "CANCELLED"),
         Cancel(w)
  PROVE  StepOK
<1> DEFINE x == job[w].trip
<1>1. /\ x \in Trips
      /\ \A v \in Workers \ {w} : job[v].trip = x => job[v].others = "uncounted"
      /\ job[w].load = trip[x].load
      /\ "CANCELLED" \in VALID_TRIP_TRANSITIONS[trip[x].status]
  BY Holding, Transitions
<1>2. available' \in [Trucks -> BOOLEAN] /\ posting' \in [Trucks -> PostingStatuses]
  BY ReleasedTypes DEF Cancel, ReleaseTruck
<1>3. /\ trip' = [trip EXCEPT ![x] =
                     [status |-> "CANCELLED", load |-> Nil, truck |-> trip[x].truck]]
      /\ loadStatus' = [loadStatus EXCEPT ![trip[x].load] = "POSTED"]
      /\ assignedTruck' = [assignedTruck EXCEPT ![trip[x].load] = Nil]
      /\ Finish(w)
      /\ UNCHANGED <<podSubmitted, request>>
  BY <1>1 DEF Cancel
<1> HIDE DEF x
<1>4. RowsInv' /\ Moves(x) /\ LoadsStayDelivered
  BY <1>1, <1>2, <1>3, CancelPreserves
<1>5. TripInv'
  BY <1>1, <1>3, <1>4, WriteOK
<1>6. trip'[x].truck = trip[x].truck
  BY <1>1, <1>3 DEF TripInv, TypeOK, DBTypeOK, TripRow
<1> QED  BY <1>1, <1>4, <1>5, <1>6, MoveHauls DEF StepOK

\* The handler that gives a trip another truck.
LEMMA ReassignOK ==
  ASSUME TripInv, NEW w \in Workers, CommitReassign(w)
  PROVE  StepOK
<1> DEFINE x == job[w].trip
           t == job[w].to
<1>1. /\ x \in Trips
      /\ \A v \in Workers \ {w} : job[v].trip = x => job[v].others = "uncounted"
      /\ job[w].load = trip[x].load
      /\ trip[x].status = "EXCEPTION"
      /\ t \in Trucks
  <2>1. job[w].op = "reassign" /\ RowFree(w) /\ GuardHolds(w)
    BY DEF CommitReassign, WriteReassign, Counted, TripInv, CountedHoldRow
  <2> QED  BY <2>1, Holding DEF TripOps
<1>2. /\ \A k \in Loads \ {trip[x].load} : assignedTruck[k] # t
      /\ trip' = [trip EXCEPT ![x] =
                     [status |-> "IN_TRANSIT", load |-> trip[x].load, truck |-> t]]
      /\ loadStatus' = [loadStatus EXCEPT ![trip[x].load] = "IN_TRANSIT"]
      /\ assignedTruck' = [assignedTruck EXCEPT ![trip[x].load] = t]
      /\ available' = [AvailableAfter(w) EXCEPT ![t] = FALSE]
      /\ posting' = [PostingAfter(w) EXCEPT ![t] = IF @ = "ACTIVE" THEN "MATCHED" ELSE @]
      /\ Finish(w)
      /\ UNCHANGED <<podSubmitted, request>>
  BY <1>1 DEF CommitReassign, WriteReassign
<1>3. available' \in [Trucks -> BOOLEAN] /\ posting' \in [Trucks -> PostingStatuses]
  BY <1>2, ReleasedTypes DEF PostingStatuses
<1> HIDE DEF x, t
<1>4. RowsInv' /\ Moves(x) /\ LoadsStayDelivered
  BY <1>1, <1>2, <1>3, ReassignPreserves
<1>5. TripInv'
  BY <1>1, <1>2, <1>4, WriteOK
<1>6. trip'[x].status = "IN_TRANSIT" /\ trip'[x].truck = t
  BY <1>1, <1>2 DEF TripInv, TypeOK, DBTypeOK, TripRow
<1> QED  BY <1>1, <1>2, <1>4, <1>5, <1>6, ReassignHauls DEF StepOK

\* A transition that keeps the truck.
LEMMA PatchOK ==
  ASSUME TripInv, NEW w \in Workers, CommitPatch(w)
  PROVE  StepOK
<1> DEFINE x == job[w].trip
           s == job[w].next
<1>1. /\ x \in Trips
      /\ \A v \in Workers \ {w} : job[v].trip = x => job[v].others = "uncounted"
      /\ trip[x].status # "CANCELLED"
      /\ job[w].load = trip[x].load
      /\ s \in VALID_TRIP_TRANSITIONS[trip[x].status]
  BY Holding DEF CommitPatch, TripOps
<1>2. s \in TripStatuses \ {"CANCELLED"}
  BY <1>1, Transitions DEF CommitPatch, Releases, TerminalTrip, TripInv, TripRowsWellFormed
<1>3. /\ trip' = [trip EXCEPT ![x].status = s]
      /\ loadStatus' = [loadStatus EXCEPT ![trip[x].load] = s]
      /\ Finish(w)
      /\ UNCHANGED <<assignedTruck, podSubmitted, request, available, posting>>
  BY <1>1 DEF CommitPatch, truckVars
<1>4. available' \in [Trucks -> BOOLEAN] /\ posting' \in [Trucks -> PostingStatuses]
  BY <1>3 DEF TripInv, TypeOK, DBTypeOK
<1> HIDE DEF x, s
<1>5. RowsInv' /\ Moves(x) /\ LoadsStayDelivered
  BY <1>1, <1>2, <1>3, <1>4, MovePreserves
<1>6. TripInv'
  BY <1>1, <1>3, <1>5, WriteOK
<1>7. trip'[x].truck = trip[x].truck
  BY <1>1, <1>3 DEF TripInv, TypeOK, DBTypeOK, TripRow
<1> QED  BY <1>1, <1>5, <1>6, <1>7, MoveHauls DEF StepOK

\* The carrier's POD arrives on a load that is still delivered.
LEMMA SubmitPodOK ==
  ASSUME TripInv, NEW w \in Workers, CommitSubmitPod(w)
  PROVE  StepOK
<1>1. /\ podSubmitted' = [podSubmitted EXCEPT ![job[w].load] = TRUE]
      /\ job' = [job EXCEPT ![w] = Idle]
      /\ UNCHANGED <<loadStatus, assignedTruck, trip, request, available, posting>>
  BY DEF CommitSubmitPod, Finish, truckVars
<1>2. job[w].load \in Loads /\ loadStatus[job[w].load] \in {"DELIVERED", "COMPLETED"}
  BY DEF CommitSubmitPod, TripInv, PodComesAfterDelivery
<1>3. RowsInv'
  <2>1. PodAfterDelivery'
    BY <1>1, <1>2 DEF TripInv, TypeOK, DBTypeOK, PodAfterDelivery
  <2>2. DBTypeOK'
    BY <1>1, <1>2 DEF TripInv, TypeOK, DBTypeOK
  <2> QED
    BY <1>1, <2>1, <2>2 DEF TripInv, RowsInv, TripRowsWellFormed, LoadMirrorsTrip,
       LoadNamesTruck, TripUnique, TruckUnique
<1>4. JobsInv'
  <2>1. Idle \in JobRow /\ Fits(Idle) /\ Idle.others = "uncounted"
    BY DEF Idle, JobRow, Ops, Fits, TripOps
  <2> QED  BY <1>1, <2>1, JobTaken
<1>5. TripInv'
  BY <1>3, <1>4 DEF TripInv, RowsInv, JobsInv, TypeOK
<1>6. LegalStep
  BY <1>1 DEF LegalStep
<1>7. \A y \in Trips : SameHaul(y)
  BY <1>1 DEF SameHaul
<1>8. HauledBy' = HauledBy
  BY <1>3, <1>7, RowsHaul, HaulUnchanged
<1> QED  BY <1>5, <1>6, <1>8 DEF StepOK, HaulStep

\* A handler that has counted others still holds its row, and its guard holds.
LEMMA CountedHolds ==
  ASSUME TripInv, NEW w \in Workers, NEW op \in TripOps, Counted(w, op)
  PROVE  job[w].op \in TripOps /\ RowFree(w) /\ GuardHolds(w)
BY DEF Counted, TripInv, CountedHoldRow

\* Every Commit step.
LEMMA CommitOK ==
  ASSUME TripInv, NEW w \in Workers, CommitStep(w)
  PROVE  StepOK
<1>1. CASE CommitPatch(w)
  BY <1>1, PatchOK
<1>2. CASE CommitPatchCompleted(w)
  BY <1>2, CountedHolds, CompleteOK DEF CommitPatchCompleted, Counted, TripOps
<1>3. CASE CommitPatchCancelled(w)
  BY <1>3, CountedHolds, CancelOK DEF CommitPatchCancelled, Counted, TripOps
<1>4. CASE CommitCancelTrip(w)
  BY <1>4, CountedHolds, CancelOK DEF CommitCancelTrip, Counted, TripOps
<1>5. CASE CommitConfirmDelivery(w)
  BY <1>5, CountedHolds, CompleteOK DEF CommitConfirmDelivery, Counted, TripOps
<1>6. CASE CommitUploadPod(w)
  BY <1>6, CountedHolds, CompleteOK DEF CommitUploadPod, Counted, TripOps
<1>7. CASE CommitAutoClose(w)
  BY <1>7, CountedHolds, CompleteOK DEF CommitAutoClose, Counted, TripOps
<1>8. CASE CommitReassign(w)
  BY <1>8, ReassignOK
<1>9. CASE CommitSubmitPod(w)
  BY <1>9, SubmitPodOK
<1> QED
  BY <1>1, <1>2, <1>3, <1>4, <1>5, <1>6, <1>7, <1>8, <1>9 DEF CommitStep

\* Every step, stuttering included.
LEMMA TripStepOK == TripInv /\ [TripNext]_vars => StepOK
<1> SUFFICES ASSUME TripInv, [TripNext]_vars PROVE StepOK
  OBVIOUS
<1>1. ASSUME NEW w \in Workers, BeginStep(w) \/ CountOthers(w) \/ CommitStep(w) \/ Abort(w)
      PROVE  StepOK
  BY <1>1, BeginOK, CountOK, CommitOK, AbortOK
<1>2. CASE UNCHANGED vars
  <2>1. RowsInv'
    BY <1>2, Parts DEF vars, RowsInv, DBTypeOK, TripRowsWellFormed, LoadMirrorsTrip,
       LoadNamesTruck, TripUnique, TruckUnique, PodAfterDelivery
  <2>2. JobsInv'
    BY <1>2, Parts DEF vars, JobsInv, JobsKnowTheirTrip, CountedHoldRow,
       PodComesAfterDelivery, Releases, RowFree, GuardHolds
  <2>3. TripInv'
    BY <2>1, <2>2 DEF TripInv, RowsInv, JobsInv, TypeOK
  <2> QED  BY <1>2, <2>3, StillHauls DEF StepOK, vars, dbVars
<1> QED  BY <1>1, <1>2 DEF TripNext

-----------------------------------------------------------------------------
(* Theorems *)

\* TripInv always holds.
THEOREM TripInvariant == TripSpec => []TripInv
<1>1. TripInit => TripInv
  BY TripInitInv
<1>2. TripInv /\ [TripNext]_vars => TripInv'
  BY TripStepOK DEF StepOK
<1> QED  BY <1>1, <1>2, PTL DEF TripSpec

\* A load's status mirrors its trip's, in every interleaving of the handlers.
THEOREM LoadsMirrorTrips == TripSpec => []LoadMirrorsTrip
<1>1. TripInv => LoadMirrorsTrip
  BY DEF TripInv
<1> QED  BY <1>1, TripInvariant, PTL

\* Trip and load agree on the truck, and a truck has one active trip at most.
THEOREM TripsAndTrucksAgree == TripSpec => []TripTruckAgrees
<1>1. TripInv => TripTruckAgrees
  <2> SUFFICES ASSUME TripInv, NEW x \in Trips, trip[x].status \in Blocking
               PROVE  /\ assignedTruck[trip[x].load] = trip[x].truck
                      /\ BlockingTrips(trip[x].truck) = {x}
    BY DEF TripTruckAgrees
  <2>1. assignedTruck[trip[x].load] = trip[x].truck
    BY DEF TripInv, LoadNamesTruck
  <2>2. ASSUME NEW y \in Trips, trip[y].status \in Blocking, trip[y].truck = trip[x].truck
        PROVE  y = x
    <3>1. /\ trip[x].load \in Loads /\ trip[y].load \in Loads
          /\ assignedTruck[trip[y].load] = assignedTruck[trip[x].load]
          /\ trip[x].truck \in Trucks
      BY <2>1, <2>2 DEF TripInv, LoadNamesTruck, TripRowsWellFormed, Blocking
    <3>2. trip[y].load = trip[x].load
      BY <3>1, <2>1, NilAssumption DEF TripInv, TruckUnique
    <3> QED  BY <3>1, <3>2, NilAssumption DEF TripInv, TripUnique
  <2> QED  BY <2>1, <2>2 DEF BlockingTrips
<1> QED  BY <1>1, TripInvariant, PTL

\* No load has a POD before it is delivered.
THEOREM PodsFollowDelivery == TripSpec => []PodAfterDelivery
<1>1. TripInv => PodAfterDelivery
  BY DEF TripInv
<1> QED  BY <1>1, TripInvariant, PTL

\* Every change of a trip's status is in VALID_TRIP_TRANSITIONS.
THEOREM TripStepsAreLegal == TripSpec => TripStepsLegal
<1>1. TripInv /\ [TripNext]_vars => [LegalStep]_vars
  BY TripStepOK DEF StepOK
<1>2. LegalStep = (\A x \in Trips : trip'[x].status # trip[x].status
                     => trip'[x].status \in VALID_TRIP_TRANSITIONS[trip[x].status])
  BY DEF LegalStep
<1> QED  BY <1>1, TripInvariant, PTL DEF TripSpec, TripStepsLegal, LegalStep

\* The trip handlers implement Haulage: a truck moves one load at a time.
THEOREM TripsImplementHaulage == TripSpec => OneLoadAtATime
<1>1. TripInv => Haul!HaulageInit
  <2> SUFFICES ASSUME TripInv PROVE Haul!HaulageInit
    OBVIOUS
  <2>1. TripUnique /\ MovingRows
    BY DEF TripInv, TripRowsWellFormed, MovingRows, Moving
  <2>2. HauledByIs
    BY <2>1, Hauled
  <2>3. ASSUME NEW l \in Loads, NEW k \in Loads, l # k, HauledBy[l] # Nil,
               HauledBy[l] = HauledBy[k]
        PROVE  FALSE
    <3>1. PICK x \in Trips : trip[x].load = l /\ trip[x].status \in Moving
      BY <2>2, <2>3 DEF HauledByIs
    <3>2. PICK y \in Trips : trip[y].load = k /\ trip[y].status \in Moving
      BY <2>2, <2>3 DEF HauledByIs
    <3>3. HauledBy[l] = trip[x].truck /\ HauledBy[k] = trip[y].truck
      BY <2>2, <3>1, <3>2 DEF HauledByIs
    <3>4. assignedTruck[l] = trip[x].truck /\ assignedTruck[k] = trip[y].truck
      BY <3>1, <3>2 DEF TripInv, LoadNamesTruck, Moving, Blocking
    <3> QED  BY <2>3, <3>3, <3>4 DEF TripInv, TruckUnique
  <2> QED  BY <2>2, <2>3 DEF Haul!HaulageInit, HauledByIs
<1>2. TripInv /\ [TripNext]_vars => [Haul!HaulageNext]_HauledBy
  BY TripStepOK DEF StepOK, HaulStep
<1> QED
  BY <1>1, <1>2, TripInvariant, PTL DEF TripSpec, OneLoadAtATime, Haul!HaulageSpec
=============================================================================
