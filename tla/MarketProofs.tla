----------------------------- MODULE MarketProofs -----------------------------
(***************************************************************************)
(* Lemmas about HauledBy, the mapping by which the trip rows implement     *)
(* Haulage.  A step of the database is a step of Haulage when it changes   *)
(* one trip in one of a few ways.                                          *)
(***************************************************************************)
EXTENDS MarketDB, TLAPS

\* What the transition table says, status by status.
LEMMA Transitions ==
  /\ \A s \in TripStatuses : VALID_TRIP_TRANSITIONS[s] \subseteq TripStatuses
  /\ \A s \in TripStatuses : "CANCELLED" \in VALID_TRIP_TRANSITIONS[s]
        => s \in {"ASSIGNED", "PICKUP_PENDING", "EXCEPTION"}
  /\ VALID_TRIP_TRANSITIONS["DELIVERED"] = {"COMPLETED"}
  /\ VALID_TRIP_TRANSITIONS["COMPLETED"] = {}
  /\ VALID_TRIP_TRANSITIONS["CANCELLED"] = {}
  /\ "CANCELLED" \in VALID_TRIP_TRANSITIONS["ASSIGNED"]
  /\ "CANCELLED" \in VALID_TRIP_TRANSITIONS["PICKUP_PENDING"]
  /\ "IN_TRANSIT" \in VALID_TRIP_TRANSITIONS["EXCEPTION"]
BY DEF VALID_TRIP_TRANSITIONS, TripStatuses

MovingRows ==
  \A x \in Trips : trip[x].status \in Moving => trip[x].load \in Loads /\ trip[x].truck \in Trucks

\* HauledBy without CHOOSE.
HauledByIs ==
  /\ HauledBy \in [Loads -> Trucks \cup {Nil}]
  /\ \A x \in Trips : trip[x].status \in Moving => HauledBy[trip[x].load] = trip[x].truck
  /\ \A l \in Loads : HauledBy[l] # Nil
        => \E x \in Trips : trip[x].load = l /\ trip[x].status \in Moving

\* The unique index on Trip.loadId makes the moving trip of a load unique.
LEMMA Hauled == TripUnique /\ MovingRows => HauledByIs
<1> SUFFICES ASSUME TripUnique, MovingRows PROVE HauledByIs
  OBVIOUS
<1> DEFINE Of(l, x) == trip[x].load = l /\ trip[x].status \in Moving
<1>1. ASSUME NEW l \in Loads, NEW x \in Trips, Of(l, x)
      PROVE  HauledBy[l] = trip[x].truck
  <2>1. {y \in Trips : Of(l, y)} = {x}
    BY <1>1, NilAssumption DEF TripUnique
  <2>2. HauledBy[l] = trip[CHOOSE y \in {y \in Trips : Of(l, y)} : TRUE].truck
    BY <1>1, <2>1 DEF HauledBy
  <2> QED  BY <2>1, <2>2
<1>2. ASSUME NEW l \in Loads, \A x \in Trips : ~Of(l, x)
      PROVE  HauledBy[l] = Nil
  BY <1>2 DEF HauledBy
<1>3. \A l \in Loads : HauledBy[l] \in Trucks \cup {Nil}
  BY <1>1, <1>2 DEF MovingRows
<1>4. HauledBy \in [Loads -> Trucks \cup {Nil}]
  BY <1>3 DEF HauledBy
<1>5. \A x \in Trips : trip[x].status \in Moving => HauledBy[trip[x].load] = trip[x].truck
  BY <1>1 DEF MovingRows
<1>6. \A l \in Loads : HauledBy[l] # Nil => \E x \in Trips : Of(l, x)
  BY <1>2
<1> QED  BY <1>4, <1>5, <1>6 DEF HauledByIs

\* The same in the next state.
LEMMA HauledNext == (TripUnique /\ MovingRows)' => HauledByIs'
BY Hauled, PTL

\* Trip y is moved in both states by the same truck, or in neither.
SameHaul(y) ==
  /\ trip'[y].status \in Moving <=> trip[y].status \in Moving
  /\ trip[y].status \in Moving => trip'[y].load = trip[y].load /\ trip'[y].truck = trip[y].truck

\* No trip starts or stops moving, or changes trucks.
LEMMA HaulUnchanged ==
  ASSUME HauledByIs, HauledByIs', \A y \in Trips : SameHaul(y)
  PROVE  HauledBy' = HauledBy
<1>1. ASSUME NEW l \in Loads PROVE HauledBy'[l] = HauledBy[l]
  <2>1. CASE \E x \in Trips : trip[x].load = l /\ trip[x].status \in Moving
    BY <2>1 DEF HauledByIs, SameHaul
  <2>2. CASE \A x \in Trips : ~(trip[x].load = l /\ trip[x].status \in Moving)
    BY <2>2 DEF HauledByIs, SameHaul
  <2> QED  BY <2>1, <2>2
<1> QED  BY <1>1 DEF HauledByIs

\* One trip stops moving.
LEMMA HaulPutDown ==
  ASSUME TripUnique, HauledByIs, HauledByIs', MovingRows,
         NEW x \in Trips, trip[x].status \in Moving, trip'[x].status \notin Moving,
         \A y \in Trips \ {x} : SameHaul(y)
  PROVE  Haul!PutDown(trip[x].load)
<1> DEFINE l == trip[x].load
<1>1. l \in Loads /\ HauledBy[l] = trip[x].truck /\ trip[x].truck # Nil
  BY NilAssumption DEF HauledByIs, MovingRows
<1>2. \A y \in Trips \ {x} : trip[y].load # l
  BY <1>1, NilAssumption DEF TripUnique
<1>3. HauledBy'[l] = Nil
  BY <1>1, <1>2 DEF HauledByIs, SameHaul
<1>4. ASSUME NEW k \in Loads, k # l PROVE HauledBy'[k] = HauledBy[k]
  <2>1. CASE \E y \in Trips : trip[y].load = k /\ trip[y].status \in Moving
    BY <2>1, <1>4 DEF HauledByIs, SameHaul
  <2>2. CASE \A y \in Trips : ~(trip[y].load = k /\ trip[y].status \in Moving)
    BY <2>2, <1>4 DEF HauledByIs, SameHaul
  <2> QED  BY <2>1, <2>2
<1>5. HauledBy' = [HauledBy EXCEPT ![l] = Nil]
  BY <1>1, <1>3, <1>4 DEF HauledByIs
<1> QED  BY <1>1, <1>5 DEF Haul!PutDown

\* One trip starts moving with a truck that hauls nothing, or goes on with it.
LEMMA HaulTake ==
  ASSUME HauledByIs, HauledByIs',
         NEW x \in Trips, NEW l \in Loads, NEW t \in Trucks,
         trip'[x].status \in Moving, trip'[x].load = l, trip'[x].truck = t,
         trip[x].status \in Moving => trip[x].load = l,
         \A y \in Trips \ {x} : SameHaul(y) /\ trip[y].load # l,
         \A y \in Trips : trip[y].status \in Moving => trip[y].truck # t
  PROVE  Haul!Take(l, t)
<1>1. ~Haul!Hauling(t)
  BY NilAssumption DEF HauledByIs, Haul!Hauling
<1>2. HauledBy'[l] = t
  BY DEF HauledByIs
<1>3. ASSUME NEW k \in Loads, k # l PROVE HauledBy'[k] = HauledBy[k]
  <2>1. CASE \E y \in Trips : trip[y].load = k /\ trip[y].status \in Moving
    BY <2>1, <1>3 DEF HauledByIs, SameHaul
  <2>2. CASE \A y \in Trips : ~(trip[y].load = k /\ trip[y].status \in Moving)
    BY <2>2, <1>3 DEF HauledByIs, SameHaul
  <2> QED  BY <2>1, <2>2
<1>4. HauledBy' = [HauledBy EXCEPT ![l] = t]
  BY <1>2, <1>3 DEF HauledByIs
<1> QED  BY <1>1, <1>4 DEF Haul!Take
=============================================================================
