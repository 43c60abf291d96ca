----------------------------- MODULE MCPlatform -----------------------------
(***************************************************************************)
(* The components with liveness, on one instance each: a trip and the      *)
(* monitor that closes it, postings and the monitor of insurances, the job *)
(* queue and the cache.  They share no state here, so no interleaving of   *)
(* them says anything: in a behaviour of this module one of them moves and *)
(* the others are at rest.                                                 *)
(***************************************************************************)
EXTENDS TripFlow, Postings, JobQueue, EntityCache

VARIABLE focus         \* the component that moves

platformVars == <<vars, postingVars, queueVars, cacheVars, focus>>

PlatformInit == /\ TripInit /\ PostingInit /\ QueueInit /\ CacheInit
                /\ \/ focus = "trips"
                   \/ /\ focus \in {"postings", "queue", "cache"}
                      /\ \A x \in Trips : trip[x].truck = CHOOSE t \in Trucks : TRUE

PlatformNext ==
  /\ UNCHANGED focus
  /\ \/ focus = "trips" /\ TripNext /\ UNCHANGED <<postingVars, queueVars, cacheVars>>
     \/ focus = "postings" /\ PostingNext /\ UNCHANGED <<vars, queueVars, cacheVars>>
     \/ focus = "queue" /\ QueueNext /\ UNCHANGED <<vars, postingVars, cacheVars>>
     \/ focus = "cache" /\ CacheNext /\ UNCHANGED <<vars, postingVars, queueVars>>

\* The fairness of each component; of one at rest it asks for nothing, as none of
\* its fair actions is enabled in its initial state.
PlatformFairness ==
  /\ HandlersEnd /\ MonitorRuns /\ MonitorSurvives
  /\ MonitorRetries
  /\ EventLoop
  /\ CacheFairness

PlatformSpec == PlatformInit /\ [][PlatformNext]_platformVars /\ PlatformFairness

\* The variables of all four components hold values of their types.
PlatformTypeOK == TypeOK /\ PostingTypeOK /\ QueueTypeOK /\ CacheTypeOK
=============================================================================
