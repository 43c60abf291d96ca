------------------------------- MODULE Haulage -------------------------------
(***************************************************************************)
(* What the marketplace promises about trucks, without requests, handlers  *)
(* or rows: at any time a truck hauls one load at most.  A load gets a     *)
(* truck that hauls nothing, may be handed to another such truck on the    *)
(* way, and is put down.                                                   *)
(***************************************************************************)
CONSTANTS Loads, Trucks, Nil

VARIABLE hauledBy      \* the truck that hauls a load, or Nil

Hauling(t) == \E l \in Loads : hauledBy[l] = t

HaulageInit == hauledBy \in [Loads -> Trucks \cup {Nil}]
                 /\ \A l, k \in Loads : l # k /\ hauledBy[l] # Nil => hauledBy[l] # hauledBy[k]

\* A free truck takes the load, from the marketplace or from another truck.
Take(l, t) ==
  /\ ~Hauling(t)
  /\ hauledBy' = [hauledBy EXCEPT ![l] = t]

PutDown(l) ==
  /\ hauledBy[l] # Nil
  /\ hauledBy' = [hauledBy EXCEPT ![l] = Nil]

HaulageNext == \E l \in Loads : PutDown(l) \/ \E t \in Trucks : Take(l, t)

HaulageSpec == HaulageInit /\ [][HaulageNext]_hauledBy
=============================================================================
