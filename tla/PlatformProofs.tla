---------------------------- MODULE PlatformProofs ----------------------------
(***************************************************************************)
(* The components that MCPlatform puts beside each other: postings, the    *)
(* job queue and the cache, each with its inductive invariant, and the     *)
(* combination of them and the trips (TripFlowProofs), a behaviour of      *)
(* which is one of each component.                                         *)
(*                                                                         *)
(* Postings: PostingInv says that postings belong to trucks and that what  *)
(* a clerk is sent to write is not ACTIVE unless it is a reactivation.     *)
(* With one clerk, ClerkKnows says that what the handler has read is so    *)
(* when it writes, as nobody writes in between.                            *)
(*                                                                         *)
(* Queue: OneRunAtATime is inductive; the types need that a job which has  *)
(* not failed has attempts left.                                           *)
(*                                                                         *)
(* Cache: SizeBounded is inductive once the stored keys are known to be    *)
(* finite; StaleExplained needs that a busy reader and a busy writer have  *)
(* a key.                                                                  *)
(***************************************************************************)
EXTENDS MCPlatform, TripFlowProofs, FiniteSetTheorems, SequenceTheorems

-----------------------------------------------------------------------------
(* Postings *)

\* A posting belongs to a truck.
AdsHaveTrucks == \A p \in Ads : ad[p].status # "NONE" => ad[p].truck \in Fleet

\* An errand is about a truck, and one that writes a posting about a row that is
\* there; only a reactivation makes it ACTIVE.
Proper(e, rows) ==
  /\ e \in ErrandRow
  /\ e.op # "none" => e.truck \in Fleet
  /\ e.op \in {"reactivate", "edit", "expireOld"} =>
       /\ e.ad \in Ads
       /\ rows[e.ad].truck \in Fleet
       /\ e.status # "NONE"
  /\ e.op \in {"edit", "expireOld"} => e.status # "ACTIVE"

ErrandsProper == \A c \in Clerks : Proper(errand[c], ad)

PostingInv == PostingTypeOK /\ AdsHaveTrucks /\ ErrandsProper

\* Postings stay with trucks, and an inserted one belongs to a truck.
AdsStep ==
  /\ ad' \in [Ads -> AdRow]
  /\ \A p \in Ads : ad[p].truck \in Fleet => ad'[p].truck \in Fleet
  /\ \A p \in Ads : ad'[p].status # "NONE" => ad'[p].truck \in Fleet

\* A clerk who takes up an errand, goes on with it or ends it.
LEMMA ErrandStep ==
  ASSUME PostingInv, AdsStep, NEW c \in Clerks, NEW e, Proper(e, ad),
         errand' = [errand EXCEPT ![c] = e]
  PROVE  ErrandsProper' /\ errand' \in [Clerks -> ErrandRow]
<1>1. \A d \in Clerks : Proper(errand'[d], ad)
  BY DEF PostingInv, PostingTypeOK, ErrandsProper
<1>2. \A d \in Clerks : Proper(errand'[d], ad')
  BY <1>1 DEF AdsStep, Proper
<1> QED
  BY <1>2 DEF PostingInv, PostingTypeOK, Proper, ErrandsProper

\* Clerks who are not part of a step.
LEMMA ErrandsStay ==
  ASSUME PostingInv, AdsStep, UNCHANGED errand
  PROVE  ErrandsProper'
BY DEF PostingInv, AdsStep, Proper, ErrandsProper

\* No errand is a proper one.
LEMMA NoErrandProper == Proper(NoErrand, ad)
BY DEF Proper, NoErrand, ErrandRow, ErrandOps, AdStatuses

\* A handler that has read, and sends a clerk.
LEMMA SendKeeps ==
  ASSUME PostingInv, NEW c \in Clerks, NEW e, Proper(e, ad),
         errand' = [errand EXCEPT ![c] = e],
         UNCHANGED <<approval, coverStatus, onTrip, stray, ad, unswept>>,
         covered' \in [Fleet -> BOOLEAN]
  PROVE  PostingInv'
<1>1. AdsStep
  BY DEF AdsStep, PostingInv, PostingTypeOK, AdsHaveTrucks
<1> QED
  BY <1>1, ErrandStep DEF PostingInv, PostingTypeOK, AdsHaveTrucks

\* What a clerk is sent to do.
LEMMA BeginErrandKeeps ==
  ASSUME PostingInv, NEW c \in Clerks, BeginErrand(c)
  PROVE  PostingInv'
<1>1. CASE \E t \in Fleet, inForce \in BOOLEAN : BeginDecideCover(c, t, inForce)
  <2>1. PICK t \in Fleet, inForce \in BOOLEAN : BeginDecideCover(c, t, inForce)
    BY <1>1
  <2> DEFINE e == [NoErrand EXCEPT !.op = "decided", !.truck = t]
  <2>2. Proper(e, ad)
    BY DEF Proper, NoErrand, ErrandRow, ErrandOps, AdStatuses
  <2>3. covered' \in [Fleet -> BOOLEAN]
    BY <2>1 DEF BeginDecideCover, PostingInv, PostingTypeOK
  <2> QED
    BY <2>1, <2>2, <2>3, SendKeeps DEF BeginDecideCover
<1>2. CASE \/ \E t \in Fleet : \/ BeginPost(c, t)
                               \/ BeginDecision(c, t)
                               \/ BeginResubmit(c, t)
                               \/ BeginMonitor(c, t)
           \/ \E p \in Ads : BeginDuplicate(c, p)
  <2>1. PICK op \in {"post", "approve", "reject", "resubmit", "sync"}, t \in Fleet :
          Send(c, op, t, NoRow, "NONE")
    <3>1. CASE \E t \in Fleet : \/ BeginPost(c, t)
                                \/ BeginDecision(c, t)
                                \/ BeginResubmit(c, t)
                                \/ BeginMonitor(c, t)
      BY <3>1 DEF BeginPost, BeginDecision, BeginResubmit, BeginMonitor
    <3>2. CASE \E p \in Ads : BeginDuplicate(c, p)
      BY <3>2 DEF BeginDuplicate, PostingInv, AdsHaveTrucks
    <3> QED  BY <1>2, <3>1, <3>2
  <2> DEFINE e == [op |-> op, truck |-> t, ad |-> NoRow, status |-> "NONE"]
  <2>2. Proper(e, ad)
    BY DEF Proper, ErrandRow, ErrandOps, AdStatuses
  <2> QED
    BY <2>1, <2>2, SendKeeps DEF Send, postingRows, PostingInv, PostingTypeOK
<1>3. CASE \E p \in Ads : \/ BeginReactivate(c, p)
                          \/ BeginExpireOld(c, p)
                          \/ \E status \in {"EXPIRED", "CANCELLED"} : BeginEdit(c, p, status)
  <2>1. PICK p \in Ads, op \in {"reactivate", "edit", "expireOld"}, status \in AdStatuses \ {"NONE"} :
          /\ ad[p].status # "NONE"
          /\ op # "reactivate" => status # "ACTIVE"
          /\ Send(c, op, ad[p].truck, p, status)
    BY <1>3 DEF BeginReactivate, BeginExpireOld, BeginEdit, AdStatuses
  <2> DEFINE e == [op |-> op, truck |-> ad[p].truck, ad |-> p, status |-> status]
  <2>2. Proper(e, ad)
    BY <2>1 DEF Proper, ErrandRow, ErrandOps, AdStatuses, PostingInv, AdsHaveTrucks
  <2> QED
    BY <2>1, <2>2, SendKeeps DEF Send, postingRows, PostingInv, PostingTypeOK
<1> QED
  BY <1>1, <1>2, <1>3 DEF BeginErrand

\* Statements on postings keep them with their trucks.
LEMMA MoveAdsStep ==
  ASSUME PostingInv, NEW t, NEW from \in AdStatuses \ {"NONE"}, NEW to \in AdStatuses,
         MoveAds(t, from, to)
  PROVE  AdsStep
BY DEF AdsStep, MoveAds, AdsOf, PostingInv, PostingTypeOK, AdsHaveTrucks, AdRow

\* What a clerk does.
LEMMA CommitErrandKeeps ==
  ASSUME PostingInv, NEW c \in Clerks, CommitErrand(c)
  PROVE  PostingInv'
<1>1. Proper(errand[c], ad)
  BY DEF PostingInv, ErrandsProper
<1>2. AdsStep
  <2>1. CASE InsertAd(c)
    BY <1>1, <2>1 DEF InsertAd, On, Proper, AdsStep, PostingInv, PostingTypeOK, AdsHaveTrucks,
                      AdRow, AdStatuses
  <2>2. CASE WriteAd(c)
    BY <1>1, <2>2 DEF WriteAd, SetAd, Proper, AdsStep, PostingInv, PostingTypeOK,
                      AdsHaveTrucks, AdRow, AdStatuses, ErrandRow
  <2>3. CASE ClearAds(c) \/ ExpireAds(c)
    BY <2>3, MoveAdsStep DEF ClearAds, ExpireAds, AdStatuses
  <2>4. CASE CommitApprove(c) \/ CommitReject(c) \/ CommitResubmit(c) \/ SyncDecided(c) \/ SyncLapsed(c)
    BY <2>4 DEF CommitApprove, CommitReject, CommitResubmit, SyncDecided, SyncLapsed,
                AdsStep, PostingInv, PostingTypeOK, AdsHaveTrucks
  <2> QED
    BY <2>1, <2>2, <2>3, <2>4 DEF CommitErrand
<1>3. PICK e : Proper(e, ad) /\ errand' = [errand EXCEPT ![c] = e]
  <2>1. CASE CommitReject(c) \/ SyncLapsed(c)
    <3>1. PICK op \in {"clear", "expireAds"} : errand' = [errand EXCEPT ![c].op = op]
      BY <2>1 DEF CommitReject, SyncLapsed, Go
    <3>2. errand' = [errand EXCEPT ![c] = [errand[c] EXCEPT !.op = op]]
      BY <3>1
    <3>3. Proper([errand[c] EXCEPT !.op = op], ad)
      BY <1>1, <2>1 DEF CommitReject, SyncLapsed, On, Proper, ErrandRow, ErrandOps
    <3> QED  BY <3>2, <3>3
  <2>2. CASE ~(CommitReject(c) \/ SyncLapsed(c))
    BY <2>2, NoErrandProper DEF CommitErrand, InsertAd, WriteAd, CommitApprove, ClearAds,
       CommitResubmit, SyncDecided, ExpireAds, Return
  <2> QED  BY <2>1, <2>2
<1>4. ErrandsProper' /\ errand' \in [Clerks -> ErrandRow]
  BY <1>2, <1>3, ErrandStep
<1>5. errand[c].op # "none" => errand[c].truck \in Fleet
  BY <1>1 DEF Proper
<1>6. /\ approval' \in [Fleet -> Approvals]
      /\ covered' \in [Fleet -> BOOLEAN]
      /\ coverStatus' \in [Fleet -> CoverStatuses]
      /\ onTrip' \in [Fleet -> Nat]
      /\ stray' \in [Fleet -> Nat]
      /\ unswept' \subseteq Fleet
  BY <1>5 DEF CommitErrand, InsertAd, WriteAd, CommitApprove, CommitReject, ClearAds,
     CommitResubmit, SyncDecided, SyncLapsed, ExpireAds, Return, Go, On, Synced,
     PostingInv, PostingTypeOK, Approvals, CoverStatuses
<1> QED
  BY <1>2, <1>4, <1>6 DEF PostingInv, PostingTypeOK, AdsHaveTrucks, AdsStep

\* A clerk who dies leaves the rows as they are.
LEMMA ClerkDiesKeeps ==
  ASSUME PostingInv, NEW c \in Clerks, ClerkDies(c)
  PROVE  PostingInv'
<1>1. AdsStep
  BY DEF ClerkDies, postingRows, AdsStep, PostingInv, PostingTypeOK, AdsHaveTrucks
<1>2. ErrandsProper' /\ errand' \in [Clerks -> ErrandRow]
  BY <1>1, NoErrandProper, ErrandStep DEF ClerkDies
<1>3. unswept' \subseteq Fleet
  BY DEF ClerkDies, On, PostingInv, PostingTypeOK, ErrandsProper, Proper
<1> QED
  BY <1>2, <1>3 DEF ClerkDies, postingRows, PostingInv, PostingTypeOK, AdsHaveTrucks

\* Steps without a clerk's errand: bookings, ends of trips, cleanups, edits of the
\* truck, and time.
LEMMA OthersKeep ==
  ASSUME PostingInv, NEW t \in Fleet,
         \/ BookTruck(t) \/ EndOfTrip(t) \/ CancelLoad(t)
         \/ Cleanup(t) \/ ChangeTruck(t) \/ Lapse(t)
  PROVE  PostingInv'
<1>1. UNCHANGED <<errand, unswept, coverStatus>>
  BY DEF BookTruck, EndOfTrip, CancelLoad, Cleanup, ChangeTruck, Lapse, AnyClerk
<1>2. AdsStep
  <2>1. CASE UNCHANGED ad
    BY <2>1 DEF AdsStep, PostingInv, PostingTypeOK, AdsHaveTrucks
  <2>2. CASE ad' # ad
    <3>1. \E from \in AdStatuses \ {"NONE"}, to \in AdStatuses : MoveAds(t, from, to)
      BY <2>2 DEF BookTruck, EndOfTrip, CancelLoad, Cleanup, ChangeTruck, Lapse, AdStatuses
    <3> QED  BY <3>1, MoveAdsStep
  <2> QED  BY <2>1, <2>2
<1>3. ErrandsProper'
  BY <1>1, <1>2, ErrandsStay
<1>4. approval' \in [Fleet -> Approvals] /\ covered' \in [Fleet -> BOOLEAN]
  BY DEF BookTruck, EndOfTrip, CancelLoad, Cleanup, ChangeTruck, Lapse, PostingInv,
         PostingTypeOK, Approvals
<1>5. onTrip' \in [Fleet -> Nat]
  BY DEF BookTruck, EndOfTrip, CancelLoad, Cleanup, ChangeTruck, Lapse, PostingInv, PostingTypeOK
<1>6. stray' \in [Fleet -> Nat]
  BY DEF BookTruck, LetGo, EndOfTrip, CancelLoad, Cleanup, ChangeTruck, Lapse, PostingInv,
         PostingTypeOK
<1> QED
  BY <1>1, <1>2, <1>3, <1>4, <1>5, <1>6 DEF AdsStep, PostingInv, PostingTypeOK, AdsHaveTrucks

\* No postings, and nobody at work.
LEMMA PostingInitInv == PostingInit => PostingInv
<1> SUFFICES ASSUME PostingInit PROVE PostingInv
  OBVIOUS
<1>1. ErrandsProper /\ errand \in [Clerks -> ErrandRow]
  BY NoErrandProper DEF PostingInit, ErrandsProper, Proper
<1> QED
  BY <1>1 DEF PostingInit, PostingInv, PostingTypeOK, AdsHaveTrucks, AdRow, AdStatuses,
              Approvals, CoverStatuses

\* No step breaks the invariant.
LEMMA PostingStepInv == PostingInv /\ [PostingNext]_postingVars => PostingInv'
<1> SUFFICES ASSUME PostingInv, [PostingNext]_postingVars PROVE PostingInv'
  OBVIOUS
<1>1. CASE UNCHANGED postingVars
  BY <1>1 DEF postingVars, PostingInv, PostingTypeOK, AdsHaveTrucks, ErrandsProper
<1>2. CASE PostingNext
  BY <1>2, BeginErrandKeeps, CommitErrandKeeps, ClerkDiesKeeps, OthersKeep DEF PostingNext
<1> QED
  BY <1>1, <1>2

\* PostingInv is an invariant of the postings, for any number of clerks.
THEOREM PostingInvariant == PostingSpec => []PostingInv
BY PostingInitInv, PostingStepInv, PTL DEF PostingSpec

-----------------------------------------------------------------------------
(* One clerk at a time: what a handler has read is so when it writes *)

OneClerk == \A c, d \in Clerks : c = d

\* A clerk about to post has a truck without an ACTIVE posting and, if the posting
\* is new, without a trip.
StillTrue(e) ==
  /\ e.op \in {"post", "reactivate"} => Unposted(e.truck)
  /\ e.op = "post" => onTrip[e.truck] = 0
  /\ e.op = "reactivate" => ad[e.ad].truck = e.truck /\ ad[e.ad].status = "EXPIRED"

ClerkKnows == \A c \in Clerks : StillTrue(errand[c])

\* A handler of a single statement runs while no clerk has an errand.
LEMMA NobodyElse ==
  ASSUME OneClerk, AnyClerk
  PROVE  ClerkKnows'
BY DEF OneClerk, AnyClerk, ClerkKnows, StillTrue, NoErrand

\* The only clerk comes back, or goes on with something else than a posting.
LEMMA Returned ==
  ASSUME OneClerk, PostingInv, NEW c \in Clerks, CommitErrand(c) \/ ClerkDies(c)
  PROVE  ClerkKnows'
<1>1. errand'[c] = NoErrand \/ errand'[c].op \in {"clear", "expireAds"}
  BY DEF CommitErrand, ClerkDies, InsertAd, WriteAd, CommitApprove, CommitReject, ClearAds,
         CommitResubmit, SyncDecided, SyncLapsed, ExpireAds, Return, Go,
         PostingInv, PostingTypeOK, ErrandRow
<1>2. errand'[c].op \notin {"post", "reactivate"}
  BY <1>1 DEF NoErrand
<1> QED
  BY <1>2 DEF OneClerk, ClerkKnows, StillTrue

\* A clerk who is sent knows what the handler has just read.
LEMMA Sent ==
  ASSUME OneClerk, PostingInv, NEW c \in Clerks, BeginErrand(c)
  PROVE  ClerkKnows'
<1>1. UNCHANGED <<ad, onTrip>>
  BY DEF BeginErrand, BeginPost, BeginDecision, BeginResubmit, BeginDecideCover, BeginMonitor,
         BeginDuplicate, BeginReactivate, BeginExpireOld, BeginEdit, Send, postingRows
<1>2. StillTrue(errand'[c])
  <2>1. ASSUME NEW p \in Ads, BeginReactivate(c, p)
        PROVE  StillTrue(errand'[c])
    BY <2>1 DEF BeginReactivate, Send, StillTrue, PostingInv, PostingTypeOK
  <2>2. CASE (\E t \in Fleet : BeginPost(c, t)) \/ (\E p \in Ads : BeginDuplicate(c, p))
    BY <2>2 DEF BeginPost, BeginDuplicate, Send, StillTrue, PostingInv, PostingTypeOK
  <2>3. ASSUME NEW t \in Fleet, NEW inForce \in BOOLEAN, BeginDecideCover(c, t, inForce)
        PROVE  StillTrue(errand'[c])
    BY <2>3 DEF BeginDecideCover, NoErrand, StillTrue, PostingInv, PostingTypeOK
  <2>4. ASSUME NEW t \in Fleet, BeginDecision(c, t) \/ BeginResubmit(c, t) \/ BeginMonitor(c, t)
        PROVE  StillTrue(errand'[c])
    BY <2>4 DEF BeginDecision, BeginResubmit, BeginMonitor, Send, StillTrue,
                PostingInv, PostingTypeOK
  <2>5. ASSUME NEW p \in Ads,
               \/ BeginExpireOld(c, p)
               \/ \E status \in {"EXPIRED", "CANCELLED"} : BeginEdit(c, p, status)
        PROVE  StillTrue(errand'[c])
    BY <2>5 DEF BeginExpireOld, BeginEdit, Send, StillTrue, PostingInv, PostingTypeOK
  <2> QED  BY <2>1, <2>2, <2>3, <2>4, <2>5 DEF BeginErrand
<1> QED
  BY <1>1, <1>2 DEF OneClerk, ClerkKnows, StillTrue, Unposted, AdsOf

\* What the only clerk has read stays so.
LEMMA ClerkKnowsStep ==
  ASSUME OneClerk, PostingInv, ClerkKnows, [PostingNext]_postingVars
  PROVE  ClerkKnows'
<1>1. CASE UNCHANGED postingVars
  BY <1>1 DEF postingVars, ClerkKnows, StillTrue, Unposted, AdsOf
<1>2. CASE \E c \in Clerks : BeginErrand(c) \/ CommitErrand(c) \/ ClerkDies(c)
  BY <1>2, Sent, Returned
<1>3. CASE \E t \in Fleet : \/ BookTruck(t) \/ EndOfTrip(t) \/ CancelLoad(t)
                            \/ Cleanup(t) \/ ChangeTruck(t)
  BY <1>3, NobodyElse DEF BookTruck, EndOfTrip, CancelLoad, Cleanup, ChangeTruck
<1>4. CASE \E t \in Fleet : Lapse(t)
  BY <1>4 DEF Lapse, ClerkKnows, StillTrue, Unposted, AdsOf
<1> QED
  BY <1>1, <1>2, <1>3, <1>4 DEF PostingNext

\* The ACTIVE postings of a truck after a statement on another one's, or one that
\* takes them away.
LEMMA MovedAds ==
  ASSUME PostingInv, NEW t, NEW from \in AdStatuses, NEW to \in AdStatuses, MoveAds(t, from, to),
         NEW u, u # t \/ to # "ACTIVE"
  PROVE  AdsOf(u, "ACTIVE")' \subseteq AdsOf(u, "ACTIVE")
BY DEF MoveAds, AdsOf, PostingInv, PostingTypeOK, AdRow

\* Any number of handlers that write nothing ACTIVE only take postings away.
NoneAdded(t) == AdsOf(t, "ACTIVE")' \subseteq AdsOf(t, "ACTIVE")

\* The truck has no other ACTIVE posting afterwards.
OnlyOne(t) == \E p \in Ads : AdsOf(t, "ACTIVE")' \subseteq {p}

\* Either way the truck does not get a second one.
LEMMA NoSecond ==
  ASSUME NEW t, NoneAdded(t) \/ OnlyOne(t), Cardinality(AdsOf(t, "ACTIVE")) <= 1
  PROVE  ~(Cardinality(AdsOf(t, "ACTIVE")') > 1)
<1>1. CASE NoneAdded(t)
  <2>1. IsFiniteSet(AdsOf(t, "ACTIVE"))
    BY FS_Subset, AdsAssumption DEF AdsOf
  <2>2. /\ Cardinality(AdsOf(t, "ACTIVE")') <= Cardinality(AdsOf(t, "ACTIVE"))
        /\ Cardinality(AdsOf(t, "ACTIVE")) \in Nat
        /\ Cardinality(AdsOf(t, "ACTIVE")') \in Nat
    BY <1>1, <2>1, FS_Subset, FS_CardinalityType DEF NoneAdded
  <2> QED  BY <2>2
<1>2. CASE OnlyOne(t)
  <2>1. PICK p \in Ads : AdsOf(t, "ACTIVE")' \subseteq {p}
    BY <1>2 DEF OnlyOne
  <2>2. IsFiniteSet({p}) /\ Cardinality({p}) = 1
    BY FS_Singleton
  <2>3. Cardinality(AdsOf(t, "ACTIVE")') <= 1 /\ Cardinality(AdsOf(t, "ACTIVE")') \in Nat
    BY <2>1, <2>2, FS_Subset, FS_CardinalityType
  <2> QED  BY <2>3
<1> QED  BY <1>1, <1>2

\* A clerk who has read that the truck has no ACTIVE posting gives it one.
LEMMA ClerkAddsOne ==
  ASSUME PostingInv, ClerkKnows, NEW c \in Clerks, InsertAd(c) \/ WriteAd(c), NEW t \in Fleet
  PROVE  NoneAdded(t) \/ OnlyOne(t)
<1>1. StillTrue(errand[c]) /\ Proper(errand[c], ad)
  BY DEF ClerkKnows, PostingInv, ErrandsProper
<1>2. CASE InsertAd(c)
  <2>1. PICK p \in Ads : ad' = [ad EXCEPT ![p] = [truck |-> errand[c].truck, status |-> "ACTIVE"]]
    BY <1>2 DEF InsertAd
  <2>2. CASE t = errand[c].truck
    <3>1. AdsOf(t, "ACTIVE") = {}
      BY <1>1, <1>2, <2>2 DEF InsertAd, On, StillTrue, Unposted
    <3>2. AdsOf(t, "ACTIVE")' \subseteq {p}
      BY <2>1, <3>1 DEF AdsOf, PostingInv, PostingTypeOK
    <3> QED  BY <3>2 DEF OnlyOne
  <2>3. CASE t # errand[c].truck
    BY <2>1, <2>3 DEF NoneAdded, AdsOf, PostingInv, PostingTypeOK
  <2> QED  BY <2>2, <2>3
<1>3. CASE WriteAd(c)
  <2> DEFINE p == errand[c].ad
  <2>1. ad' = [ad EXCEPT ![p].status = errand[c].status] /\ p \in Ads
    BY <1>1, <1>3 DEF WriteAd, SetAd, Proper
  <2>2. CASE errand[c].op = "reactivate" /\ t = errand[c].truck
    <3>1. AdsOf(t, "ACTIVE") = {}
      BY <1>1, <2>2 DEF StillTrue, Unposted
    <3>2. AdsOf(t, "ACTIVE")' \subseteq {p}
      BY <2>1, <3>1 DEF AdsOf, PostingInv, PostingTypeOK
    <3> QED  BY <2>1, <3>2 DEF OnlyOne
  <2>3. CASE errand[c].op = "reactivate" /\ t # errand[c].truck
    <3>1. ad[p].truck # t
      BY <1>1, <2>3 DEF StillTrue
    <3> QED
      BY <2>1, <3>1 DEF NoneAdded, AdsOf, PostingInv, PostingTypeOK, AdRow
  <2>4. CASE errand[c].op \in {"edit", "expireOld"}
    <3>1. errand[c].status # "ACTIVE"
      BY <1>1, <2>4 DEF Proper
    <3> QED
      BY <2>1, <3>1 DEF NoneAdded, AdsOf, PostingInv, PostingTypeOK, AdRow
  <2> QED  BY <1>3, <2>2, <2>3, <2>4 DEF WriteAd
<1> QED  BY <1>2, <1>3

\* The two steps that bring postings of a truck back are those Returns is about.
LEMMA BringsBack ==
  ASSUME PostingInv, NEW t \in Fleet, EndOfTrip(t) \/ CancelLoad(t)
  PROVE  Returns(t)
BY DEF EndOfTrip, CancelLoad, Returns, PostingInv, PostingTypeOK

\* Every step but these leaves the truck with no ACTIVE posting more than it had, or
\* with one.
LEMMA OneOrFewer ==
  ASSUME PostingInv, ClerkKnows, [PostingNext]_postingVars, NEW t \in Fleet
  PROVE  NoneAdded(t) \/ OnlyOne(t) \/ EndOfTrip(t) \/ CancelLoad(t)
<1>1. CASE UNCHANGED ad
  BY <1>1 DEF NoneAdded, AdsOf
<1>2. CASE \E c \in Clerks : InsertAd(c) \/ WriteAd(c)
  BY <1>2, ClerkAddsOne
<1>3. CASE \E c \in Clerks : ClearAds(c) \/ ExpireAds(c)
  BY <1>3, MovedAds DEF ClearAds, ExpireAds, NoneAdded, AdStatuses
<1>4. CASE \E u \in Fleet : BookTruck(u) \/ Cleanup(u)
  BY <1>1, <1>4, MovedAds DEF BookTruck, Cleanup, NoneAdded, AdStatuses
<1>5. ASSUME NEW u \in Fleet, EndOfTrip(u) \/ CancelLoad(u), u # t
      PROVE  NoneAdded(t)
  <2>1. CASE UNCHANGED ad
    BY <2>1 DEF NoneAdded, AdsOf
  <2>2. CASE MoveAds(u, "MATCHED", "ACTIVE")
    BY <1>5, <2>2, MovedAds DEF NoneAdded, AdStatuses
  <2> QED  BY <1>5, <2>1, <2>2 DEF EndOfTrip, CancelLoad
<1> QED
  BY <1>1, <1>2, <1>3, <1>4, <1>5 DEF postingVars, PostingNext, BeginErrand, CommitErrand, ClerkDies,
     ChangeTruck, Lapse, BeginPost, BeginDecision, BeginResubmit, BeginDecideCover, BeginMonitor,
     BeginDuplicate, BeginReactivate, BeginExpireOld, BeginEdit, Send, postingRows, CommitApprove,
     CommitReject, CommitResubmit, SyncDecided, SyncLapsed

\* A truck that has a trip gets an ACTIVE posting out of an EXPIRED one, or one back.
LEMMA BusyReposted ==
  ASSUME PostingInv, ClerkKnows, [PostingNext]_postingVars, NEW t \in Fleet, NEW p \in Ads,
         onTrip'[t] > 0, ad'[p].truck = t, ad'[p].status = "ACTIVE"
  PROVE  \/ ad[p].status \in {"ACTIVE", "EXPIRED"}
         \/ ad[p].status = "MATCHED" /\ Returns(t)
<1>1. CASE UNCHANGED ad
  BY <1>1
<1>2. ASSUME NEW c \in Clerks, InsertAd(c)
      PROVE  ad[p].status \in {"ACTIVE", "EXPIRED"}
  <2>1. onTrip[errand[c].truck] = 0
    BY <1>2 DEF InsertAd, On, ClerkKnows, StillTrue
  <2>2. errand[c].truck # t
    BY <1>2, <2>1 DEF InsertAd
  <2> QED
    BY <1>2, <2>2 DEF InsertAd, PostingInv, PostingTypeOK
<1>3. ASSUME NEW c \in Clerks, WriteAd(c)
      PROVE  ad[p].status \in {"ACTIVE", "EXPIRED"}
  <2>1. StillTrue(errand[c]) /\ Proper(errand[c], ad)
    BY DEF ClerkKnows, PostingInv, ErrandsProper
  <2> QED
    BY <1>3, <2>1 DEF WriteAd, SetAd, StillTrue, Proper, PostingInv, PostingTypeOK, AdRow
<1>4. CASE \E c \in Clerks : ClearAds(c) \/ ExpireAds(c)
  BY <1>4 DEF ClearAds, ExpireAds, MoveAds, AdsOf, PostingInv, PostingTypeOK, AdRow
<1>5. CASE \E u \in Fleet : BookTruck(u) \/ Cleanup(u)
  BY <1>1, <1>5 DEF BookTruck, Cleanup, MoveAds, AdsOf, PostingInv, PostingTypeOK, AdRow
<1>6. ASSUME NEW u \in Fleet, EndOfTrip(u) \/ CancelLoad(u), ad' # ad
      PROVE  ad[p].status = "ACTIVE" \/ (ad[p].status = "MATCHED" /\ Returns(t))
  <2>1. MoveAds(u, "MATCHED", "ACTIVE")
    BY <1>6 DEF EndOfTrip, CancelLoad
  <2>2. ad[p].status = "ACTIVE" \/ p \in AdsOf(u, "MATCHED")
    BY <2>1 DEF MoveAds, PostingInv, PostingTypeOK, AdRow
  <2>3. ad'[p].truck = ad[p].truck
    BY <2>1 DEF MoveAds, PostingInv, PostingTypeOK, AdRow
  <2> QED
    BY <1>6, <2>2, <2>3, BringsBack DEF AdsOf
<1> QED
  BY <1>1, <1>2, <1>3, <1>4, <1>5, <1>6 DEF postingVars, PostingNext, BeginErrand, CommitErrand,
     ClerkDies, ChangeTruck, Lapse, BeginPost, BeginDecision, BeginResubmit, BeginDecideCover,
     BeginMonitor, BeginDuplicate, BeginReactivate, BeginExpireOld, BeginEdit, Send, postingRows,
     CommitApprove, CommitReject, CommitResubmit, SyncDecided, SyncLapsed

\* What the only clerk has read is so when it writes.
LEMMA ClerkInvariant == OneClerk => (PostingSpec => [](PostingInv /\ ClerkKnows))
<1> SUFFICES ASSUME OneClerk PROVE PostingSpec => [](PostingInv /\ ClerkKnows)
  OBVIOUS
<1>1. PostingInit => ClerkKnows
  BY DEF PostingInit, ClerkKnows, StillTrue, NoErrand
<1>2. PostingInv /\ ClerkKnows /\ [PostingNext]_postingVars => ClerkKnows'
  BY ClerkKnowsStep
<1> QED
  BY <1>1, <1>2, PostingInvariant, PTL DEF PostingSpec

\* One handler at a time, a second ACTIVE posting of a truck comes only from the end
\* of a trip or the cancellation of a load that the truck had lost.
THEOREM OneAdPerTruck == OneClerk => (PostingSpec => SecondAdFromTrip)
<1> SUFFICES ASSUME OneClerk PROVE PostingSpec => SecondAdFromTrip
  OBVIOUS
<1>1. ASSUME PostingInv, ClerkKnows, [PostingNext]_postingVars
      PROVE  [\A t \in Fleet : Cardinality(AdsOf(t, "ACTIVE")) <= 1
                 /\ Cardinality(AdsOf(t, "ACTIVE")') > 1 => Returns(t)]_postingVars
  <2>1. ASSUME NEW t \in Fleet, Cardinality(AdsOf(t, "ACTIVE")) <= 1,
               Cardinality(AdsOf(t, "ACTIVE")') > 1
        PROVE  Returns(t)
    <3>1. ~(NoneAdded(t) \/ OnlyOne(t))
      BY <2>1, NoSecond
    <3>2. EndOfTrip(t) \/ CancelLoad(t)
      BY <1>1, <3>1, OneOrFewer
    <3> QED  BY <1>1, <3>2, BringsBack
  <2> QED
    BY <2>1
<1>2. PostingSpec => [](PostingInv /\ ClerkKnows)
  BY ClerkInvariant
<1> QED
  BY <1>1, <1>2, PTL DEF PostingSpec, SecondAdFromTrip

\* One handler at a time, a truck under way gets an ACTIVE posting only out of an
\* EXPIRED one, or out of a MATCHED one when another of its trips ends or a load that
\* it had lost is cancelled.
THEOREM BusyTruckPosted == OneClerk => (PostingSpec => BusyTruckReposted)
<1> SUFFICES ASSUME OneClerk PROVE PostingSpec => BusyTruckReposted
  OBVIOUS
<1>1. ASSUME PostingInv, ClerkKnows, [PostingNext]_postingVars
      PROVE  [\A t \in Fleet : \A p \in Ads :
                 onTrip'[t] > 0 /\ ad'[p].truck = t /\ ad'[p].status = "ACTIVE"
                   => \/ ad[p].status \in {"ACTIVE", "EXPIRED"}
                      \/ ad[p].status = "MATCHED" /\ Returns(t)]_postingVars
  BY <1>1, BusyReposted
<1>2. PostingSpec => [](PostingInv /\ ClerkKnows)
  BY ClerkInvariant
<1> QED
  BY <1>1, <1>2, PTL DEF PostingSpec, BusyTruckReposted

-----------------------------------------------------------------------------
(* The job queue *)

\* A job that has not failed has attempts left.
AttemptsLeft == \A j \in JobIds : jobStatus[j] # "failed" => attempts[j] < MaxAttempts

QueueInv == QueueTypeOK /\ OneRunAtATime /\ AttemptsLeft

\* What holds of the statuses a caller of processInMemoryJob hands over: they
\* are those of the jobs, but for one that is not running.
Handed(status) ==
  /\ status \in [JobIds -> JobStatuses]
  /\ \A j \in JobIds : status[j] = "active" <=> jobStatus[j] = "active"

\* processInMemoryJob starts a waiting job, hence one that nobody runs.
LEMMA ProcessKeeps ==
  ASSUME QueueInv, NEW q, NEW status, Handed(status), Process(q, status)
  PROVE  /\ jobStatus' \in [JobIds -> JobStatuses]
         /\ runs' \in [JobIds -> Nat]
         /\ unwoken' \in BOOLEAN
         /\ OneRunAtATime'
         /\ \A j \in JobIds : jobStatus'[j] = "failed" <=> status[j] = "failed"
<1> DEFINE started == Started(q, status)
<1>1. \A j \in started : status[j] = "waiting"
  BY DEF Started, Waiting
<1>2. /\ jobStatus' = [j \in JobIds |-> IF j \in started THEN "active" ELSE status[j]]
      /\ runs' = [j \in JobIds |-> IF j \in started THEN runs[j] + 1 ELSE runs[j]]
      /\ unwoken' = FALSE
  BY DEF Process
<1> HIDE DEF started
<1>3. \A j \in JobIds : runs[j] = IF status[j] = "active" THEN 1 ELSE 0
  BY DEF Handed, QueueInv, OneRunAtATime
<1>4. OneRunAtATime'
  BY <1>1, <1>2, <1>3 DEF OneRunAtATime
<1>5. jobStatus' \in [JobIds -> JobStatuses]
  BY <1>2 DEF Handed, JobStatuses
<1>6. runs' \in [JobIds -> Nat]
  BY <1>2 DEF QueueInv, QueueTypeOK
<1>7. \A j \in JobIds : jobStatus'[j] = "failed" <=> status[j] = "failed"
  BY <1>1, <1>2
<1> QED
  BY <1>2, <1>4, <1>5, <1>6, <1>7

\* A new job is waiting or delayed, and never one that runs.
LEMMA AddJobKeeps ==
  ASSUME QueueInv, NEW j \in JobIds, NEW status \in {"waiting", "delayed"}, AddJob(j, status)
  PROVE  QueueInv'
<1>1. Handed([jobStatus EXCEPT ![j] = status])
  BY DEF Handed, AddJob, QueueInv, QueueTypeOK, JobStatuses
<1>2. line' \in Seq(JobIds)
  BY DEF AddJob, QueueInv, QueueTypeOK
<1>3. UNCHANGED <<attempts, wakeups, timers, retried>>
  BY DEF AddJob
<1>4. Process(line', [jobStatus EXCEPT ![j] = status])
  BY DEF AddJob
<1>5. \A k \in JobIds : jobStatus'[k] # "failed" => jobStatus[k] # "failed"
  <2> DEFINE given == [jobStatus EXCEPT ![j] = status]
  <2>1. \A k \in JobIds : jobStatus'[k] = "failed" <=> given[k] = "failed"
    BY <1>1, <1>4, ProcessKeeps
  <2> QED
    BY <2>1 DEF QueueInv, QueueTypeOK, AddJob
<1> QED
  BY <1>1, <1>2, <1>3, <1>4, <1>5, ProcessKeeps DEF QueueInv, QueueTypeOK, AttemptsLeft

\* The queue without a job is still one of jobs.
LEMMA RemoveJobKeeps ==
  ASSUME QueueInv, NEW j \in JobIds, RemoveJob(j)
  PROVE  QueueInv'
<1>1. PICK i \in DOMAIN line :
        line' = SubSeq(line, 1, i - 1) \o SubSeq(line, i + 1, Len(line))
  BY DEF RemoveJob
<1>2. line \in Seq(JobIds) /\ i \in 1 .. Len(line) /\ Len(line) \in Nat
  <2>1. line \in Seq(JobIds)
    BY DEF QueueInv, QueueTypeOK
  <2> QED
    BY <1>1, <2>1, LenProperties
<1>3. /\ SubSeq(line, 1, i - 1) \in Seq(JobIds)
      /\ SubSeq(line, i + 1, Len(line)) \in Seq(JobIds)
  BY <1>2, SubSeqProperties
<1>4. line' \in Seq(JobIds)
  BY <1>1, <1>3, ConcatProperties
<1> QED
  BY <1>4 DEF RemoveJob, QueueInv, QueueTypeOK, OneRunAtATime, AttemptsLeft

\* A job that is retried has failed, hence nobody runs it.
LEMMA RetryJobKeeps ==
  ASSUME QueueInv, NEW j \in JobIds, RetryJob(j)
  PROVE  QueueInv'
<1>1. Handed([jobStatus EXCEPT ![j] = "waiting"])
  BY DEF Handed, RetryJob, QueueInv, QueueTypeOK, JobStatuses
<1>2. /\ Process(line, [jobStatus EXCEPT ![j] = "waiting"])
      /\ UNCHANGED <<line, wakeups, timers>>
      /\ attempts' = [attempts EXCEPT ![j] = 0]
  BY DEF RetryJob
<1>3. attempts' \in [JobIds -> 0 .. MaxAttempts] /\ attempts'[j] < MaxAttempts
  BY <1>2, JobAssumption DEF QueueInv, QueueTypeOK
<1>4. retried' \in 0 .. MaxRetries
  BY JobAssumption DEF RetryJob, QueueInv, QueueTypeOK
<1>5. AttemptsLeft'
  <2> DEFINE status == [jobStatus EXCEPT ![j] = "waiting"]
  <2>1. \A k \in JobIds : jobStatus'[k] = "failed" <=> status[k] = "failed"
    BY <1>1, <1>2, ProcessKeeps
  <2>2. \A k \in JobIds \ {j} : attempts'[k] = attempts[k] /\ status[k] = jobStatus[k]
    BY <1>2 DEF QueueInv, QueueTypeOK
  <2> QED
    BY <1>3, <2>1, <2>2 DEF QueueInv, AttemptsLeft
<1> QED
  BY <1>1, <1>2, <1>3, <1>4, <1>5, ProcessKeeps DEF QueueInv, QueueTypeOK

\* The event loop calls processInMemoryJob once more.
LEMMA LoopKeeps ==
  ASSUME QueueInv, Wakeup \/ Timer
  PROVE  QueueInv'
<1>1. Handed(jobStatus)
  BY DEF Handed, QueueInv, QueueTypeOK
<1>2. Process(line, jobStatus) /\ UNCHANGED <<line, attempts, retried>>
  BY DEF Wakeup, Timer
<1>3. wakeups' \in Nat /\ timers' \in Nat
  BY DEF Wakeup, Timer, QueueInv, QueueTypeOK
<1>4. AttemptsLeft'
  BY <1>1, <1>2, ProcessKeeps DEF QueueInv, AttemptsLeft
<1> QED
  BY <1>1, <1>2, <1>3, <1>4, ProcessKeeps DEF QueueInv, QueueTypeOK

\* A run that ends was the only one of its job, and an attempt it has used up was
\* one of those left.
LEMMA RunEnds ==
  ASSUME QueueInv, NEW j \in JobIds, Succeed(j) \/ Fail(j)
  PROVE  QueueInv'
<1>1. jobStatus[j] = "active" /\ runs[j] = 1
  BY DEF Succeed, Fail, EndRun, QueueInv, QueueTypeOK, OneRunAtATime
<1>2. attempts[j] < MaxAttempts /\ attempts[j] \in Nat
  BY <1>1, JobAssumption DEF QueueInv, QueueTypeOK, AttemptsLeft
<1>3. /\ runs' = [runs EXCEPT ![j] = 0]
      /\ wakeups' = wakeups + 1
      /\ UNCHANGED <<line, retried, unwoken>>
  BY <1>1 DEF Succeed, Fail, EndRun
<1>4. CASE Succeed(j)
  BY <1>2, <1>3, <1>4 DEF Succeed, QueueInv, QueueTypeOK, OneRunAtATime, AttemptsLeft, JobStatuses
<1>5. CASE Fail(j)
  <2> DEFINE last == attempts[j] + 1 >= MaxAttempts
  <2>1. /\ attempts' = [attempts EXCEPT ![j] = attempts[j] + 1]
        /\ jobStatus' = [jobStatus EXCEPT ![j] = IF last THEN "failed" ELSE "waiting"]
        /\ timers' = IF last THEN timers ELSE timers + 1
    BY <1>5 DEF Fail
  <2>2. attempts' \in [JobIds -> 0 .. MaxAttempts]
    BY <1>2, <2>1, JobAssumption DEF QueueInv, QueueTypeOK
  <2>3. AttemptsLeft'
    BY <1>2, <2>1, JobAssumption DEF QueueInv, QueueTypeOK, AttemptsLeft
  <2>4. OneRunAtATime'
    BY <1>1, <1>3, <2>1 DEF QueueInv, QueueTypeOK, OneRunAtATime
  <2>5. timers' \in Nat /\ wakeups' \in Nat
    BY <1>3, <2>1 DEF QueueInv, QueueTypeOK
  <2>6. jobStatus' \in [JobIds -> JobStatuses] /\ runs' \in [JobIds -> Nat]
    BY <1>3, <2>1 DEF QueueInv, QueueTypeOK, JobStatuses
  <2> QED
    BY <1>3, <2>2, <2>3, <2>4, <2>5, <2>6 DEF QueueInv, QueueTypeOK
<1> QED
  BY <1>4, <1>5

\* An empty queue.
LEMMA QueueInitInv == QueueInit => QueueInv
<1> SUFFICES ASSUME QueueInit PROVE QueueInv
  OBVIOUS
<1>1. 0 \in 0 .. MaxAttempts /\ 0 \in 0 .. MaxRetries /\ 0 < MaxAttempts
  BY JobAssumption
<1>2. line \in Seq(JobIds)
  BY DEF QueueInit
<1>3. /\ jobStatus \in [JobIds -> JobStatuses]
      /\ attempts \in [JobIds -> 0 .. MaxAttempts]
      /\ runs \in [JobIds -> Nat]
  BY <1>1 DEF QueueInit, JobStatuses
<1>4. OneRunAtATime /\ AttemptsLeft
  BY <1>1 DEF QueueInit, OneRunAtATime, AttemptsLeft
<1> QED
  BY <1>1, <1>2, <1>3, <1>4 DEF QueueInit, QueueInv, QueueTypeOK

\* No step of the queue breaks the invariant.
LEMMA QueueStepInv == QueueInv /\ [QueueNext]_queueVars => QueueInv'
<1> SUFFICES ASSUME QueueInv, [QueueNext]_queueVars PROVE QueueInv'
  OBVIOUS
<1>1. CASE UNCHANGED queueVars
  BY <1>1 DEF queueVars, QueueInv, QueueTypeOK, OneRunAtATime, AttemptsLeft
<1>2. CASE QueueNext
  BY <1>2, AddJobKeeps, RemoveJobKeeps, RetryJobKeeps, LoopKeeps, RunEnds DEF QueueNext
<1> QED
  BY <1>1, <1>2

\* QueueInv is an invariant of the queue.
THEOREM QueueInvariant == QueueSpec => []QueueInv
BY QueueInitInv, QueueStepInv, PTL DEF QueueSpec

\* However many wakeups and timers are pending, and whatever is removed or retried
\* meanwhile, no job is run by two processors.
THEOREM JobsRunOnce == QueueSpec => []OneRunAtATime
BY QueueInvariant, PTL DEF QueueInv

-----------------------------------------------------------------------------
(* The cache *)

ReadersHaveKeys == \A r \in Readers : reader[r].op # "none" => reader[r].key \in Keys

CacheInv == /\ CacheTypeOK
            /\ ReadersHaveKeys
            /\ IsFiniteSet(Stored)
            /\ SizeBounded
            /\ StaleExplained

-----------------------------------------------------------------------------
(* Entries *)

\* An entry of the store and the absence of one are never mistaken.
LEMMA Entries ==
  /\ NoEntry \notin EntryRow
  /\ \A b \in BOOLEAN : NewEntry(b) \in EntryRow
BY CacheAssumption DEF NoEntry, NewEntry, EntryRow

\* Ageing keeps an entry an entry, and never makes it current or alive.
LEMMA Ageing ==
  ASSUME NEW e \in EntryRow
  PROVE  /\ Older(e) \in EntryRow
         /\ Older(e).current = e.current
         /\ Older(e).left > 0 => e.left > 0
BY CacheAssumption DEF EntryRow, Older

\* A store that only lost keys is still small enough.
LEMMA Shrunk ==
  ASSUME CacheInv, Stored' \subseteq Stored
  PROVE  IsFiniteSet(Stored)' /\ SizeBounded'
<1>1. /\ IsFiniteSet(Stored')
      /\ Cardinality(Stored') <= Cardinality(Stored)
  BY FS_Subset DEF CacheInv
<1>2. Cardinality(Stored) \in Nat /\ Cardinality(Stored') \in Nat
  BY <1>1, FS_CardinalityType DEF CacheInv
<1> QED
  BY <1>1, <1>2, CacheAssumption DEF CacheInv, SizeBounded

\* LRUCache.set makes room before it adds a key.
LEMMA PutBounded ==
  ASSUME CacheInv, NEW k \in Keys, NEW b \in BOOLEAN, Put(k, b)
  PROVE  /\ IsFiniteSet(Stored)'
         /\ SizeBounded'
         /\ entry' \in [Keys -> EntryRow \cup {NoEntry}]
         /\ entry'[k] = NewEntry(b)
         /\ \A j \in Keys \ {k} : entry'[j] \in {entry[j], NoEntry}
<1>1. Cardinality(Stored) \in Nat
  BY FS_CardinalityType DEF CacheInv
<1>2. CASE Full(k)
  <2>1. PICK victim \in Victims :
          entry' = [entry EXCEPT ![victim] = NoEntry, ![k] = NewEntry(b)]
    BY <1>2 DEF Put
  <2>2. victim \in Stored /\ k \notin Stored /\ victim \in Keys /\ victim # k
    BY <1>2 DEF Victims, Full, Stored
  <2>3. Stored' = (Stored \ {victim}) \cup {k}
    BY <2>1, <2>2, Entries DEF Stored, CacheInv, CacheTypeOK
  <2>4. /\ IsFiniteSet(Stored \ {victim})
        /\ Cardinality(Stored \ {victim}) = Cardinality(Stored) - 1
    BY <2>2, FS_RemoveElement DEF CacheInv
  <2>5. /\ IsFiniteSet(Stored')
        /\ Cardinality(Stored') = Cardinality(Stored)
    BY <2>2, <2>3, <2>4, <1>1, FS_AddElement
  <2> QED
    BY <2>1, <2>2, <2>5, Entries DEF CacheInv, CacheTypeOK, SizeBounded
<1>3. CASE ~Full(k)
  <2>1. entry' = [entry EXCEPT ![k] = NewEntry(b)]
    BY <1>3 DEF Put
  <2>2. Stored' = Stored \cup {k}
    BY <2>1, Entries DEF Stored, CacheInv, CacheTypeOK
  <2>3. /\ IsFiniteSet(Stored')
        /\ Cardinality(Stored') = IF k \in Stored THEN Cardinality(Stored)
                                                  ELSE Cardinality(Stored) + 1
    BY <2>2, FS_AddElement DEF CacheInv
  <2>4. Cardinality(Stored') <= MaxEntries
    BY <1>1, <1>3, <2>3, CacheAssumption DEF Full, CacheInv, SizeBounded
  <2> QED
    BY <2>1, <2>3, <2>4, Entries DEF CacheInv, CacheTypeOK, SizeBounded
<1> QED
  BY <1>2, <1>3

-----------------------------------------------------------------------------
(* Readers *)

\* A hit makes an entry young, not current.
LEMMA HitKeeps ==
  ASSUME CacheInv, NEW r \in Readers, NEW k \in Keys, Hit(r, k)
  PROVE  CacheInv'
<1>1. entry[k] \in EntryRow
  BY CacheAssumption DEF CacheInv, CacheTypeOK, Hit, NoEntry
<1> DEFINE hit == [entry[k] EXCEPT !.idle = 0]
<1>2. hit \in EntryRow /\ hit.current = entry[k].current /\ hit.left = entry[k].left
  BY <1>1, CacheAssumption DEF EntryRow
<1>3. entry' = [entry EXCEPT ![k] = hit]
  BY DEF Hit
<1> HIDE DEF hit
<1>4. Stored' \subseteq Stored
  BY <1>1, <1>3, Entries DEF Stored, CacheInv, CacheTypeOK
<1>5. CacheTypeOK' /\ ReadersHaveKeys'
  BY <1>2, <1>3 DEF CacheInv, CacheTypeOK, ReadersHaveKeys, Hit
<1>6. StaleExplained'
  BY <1>2, <1>3 DEF CacheInv, CacheTypeOK, StaleExplained, Served, Hit
<1> QED
  BY <1>4, <1>5, <1>6, Shrunk DEF CacheInv

\* A miss leaves no entry behind.
LEMMA MissKeeps ==
  ASSUME CacheInv, NEW r \in Readers, NEW k \in Keys, Miss(r, k)
  PROVE  CacheInv'
<1>1. Stored' \subseteq Stored
  BY DEF Stored, CacheInv, CacheTypeOK, Miss
<1>2. CacheTypeOK'
  BY DEF CacheInv, CacheTypeOK, Miss, ReaderRow
<1>3. ReadersHaveKeys'
  BY DEF CacheInv, CacheTypeOK, ReadersHaveKeys, Miss
<1>4. StaleExplained'
  BY DEF CacheInv, CacheTypeOK, StaleExplained, Served, Miss, NoEntry
<1> QED
  BY <1>1, <1>2, <1>3, <1>4, Shrunk DEF CacheInv

\* A query changes no entry.
LEMMA FetchKeeps ==
  ASSUME CacheInv, NEW r \in Readers, Fetch(r) \/ Fetchless(r)
  PROVE  CacheInv'
<1>1. Stored' = Stored
  BY DEF Stored, Fetch, Fetchless
<1>2. PICK row : /\ row \in ReaderRow
                 /\ row.op # "none" => row.key \in Keys
                 /\ reader' = [reader EXCEPT ![r] = row]
  <2>1. CASE Fetch(r)
    <3> DEFINE row == [op |-> "store", key |-> reader[r].key, current |-> TRUE]
    <3>1. row \in ReaderRow /\ row.key \in Keys
      BY <2>1 DEF Fetch, CacheInv, CacheTypeOK, ReadersHaveKeys, ReaderRow
    <3>2. reader' = [reader EXCEPT ![r] = row]
      BY <2>1 DEF Fetch
    <3> QED
      BY <3>1, <3>2
  <2>2. CASE Fetchless(r)
    BY <2>2 DEF Fetchless, NoReader, ReaderRow
  <2> QED
    BY <2>1, <2>2
<1>3. CacheTypeOK' /\ ReadersHaveKeys'
  BY <1>2 DEF CacheInv, CacheTypeOK, ReadersHaveKeys, Fetch, Fetchless
<1>4. StaleExplained'
  BY DEF CacheInv, StaleExplained, Served, Fetch, Fetchless
<1> QED
  BY <1>1, <1>3, <1>4, Shrunk DEF CacheInv

\* A reader that was overtaken excuses what it stores.
LEMMA StoreKeeps ==
  ASSUME CacheInv, NEW r \in Readers, Store(r)
  PROVE  CacheInv'
<1> DEFINE k == reader[r].key
           b == reader[r].current
<1>1. k \in Keys /\ b \in BOOLEAN
  BY DEF CacheInv, CacheTypeOK, ReadersHaveKeys, Store, ReaderRow
<1>2. /\ Put(k, b)
      /\ excused' = IF b THEN excused \ {k} ELSE excused \cup {k}
      /\ reader' = [reader EXCEPT ![r] = NoReader]
      /\ writer' = writer
  BY DEF Store
<1> HIDE DEF k, b
<1>3. /\ IsFiniteSet(Stored)'
      /\ SizeBounded'
      /\ entry' \in [Keys -> EntryRow \cup {NoEntry}]
      /\ entry'[k] = NewEntry(b)
      /\ \A j \in Keys \ {k} : entry'[j] \in {entry[j], NoEntry}
  BY <1>1, <1>2, PutBounded
<1>4. CacheTypeOK' /\ ReadersHaveKeys'
  BY <1>1, <1>2, <1>3 DEF CacheInv, CacheTypeOK, ReadersHaveKeys, ReaderRow, NoReader
<1>5. StaleExplained'
  <2> SUFFICES ASSUME NEW j \in Keys, Served(j)', ~entry'[j].current
               PROVE  j \in excused' \/ \E w \in Writers : writer[w] = j
    BY <1>2 DEF StaleExplained
  <2>1. CASE j = k
    BY <2>1, <1>1, <1>2, <1>3 DEF NewEntry
  <2>2. CASE j # k
    <3>1. entry'[j] = entry[j]
      BY <2>2, <1>3 DEF Served, NoEntry
    <3>2. j \in excused \/ \E w \in Writers : writer[w] = j
      BY <3>1 DEF CacheInv, StaleExplained, Served
    <3> QED
      BY <2>2, <3>2, <1>2
  <2> QED
    BY <2>1, <2>2
<1> QED
  BY <1>3, <1>4, <1>5 DEF CacheInv

-----------------------------------------------------------------------------
(* Writers *)

\* A commit that makes an entry stale has its invalidation still before it.
LEMMA CommitKeeps ==
  ASSUME CacheInv, NEW w \in Writers, NEW k \in Keys, Commit(w, k)
  PROVE  CacheInv'
<1> DEFINE stale == [current |-> FALSE, left |-> entry[k].left, idle |-> entry[k].idle]
<1>1. entry' = [entry EXCEPT ![k] = stale]
  BY DEF Commit
<1>2. /\ entry[k] = NoEntry => stale = NoEntry
      /\ stale \in EntryRow \cup {NoEntry}
  <2>1. CASE entry[k] = NoEntry
    BY <2>1 DEF NoEntry
  <2>2. CASE entry[k] \in EntryRow
    BY <2>2, Entries DEF EntryRow
  <2> QED
    BY <2>1, <2>2 DEF CacheInv, CacheTypeOK
<1> HIDE DEF stale
<1>3. Stored' \subseteq Stored
  BY <1>1, <1>2 DEF Stored, CacheInv, CacheTypeOK
<1>4. /\ reader' \in [Readers -> ReaderRow]
      /\ \A r \in Readers : reader'[r].op = reader[r].op /\ reader'[r].key = reader[r].key
  BY DEF Commit, CacheInv, CacheTypeOK, ReaderRow
<1>5. CacheTypeOK' /\ ReadersHaveKeys'
  BY <1>1, <1>2, <1>4 DEF CacheInv, CacheTypeOK, ReadersHaveKeys, Commit
<1>6. StaleExplained'
  <2> SUFFICES ASSUME NEW j \in Keys, Served(j)', ~entry'[j].current
               PROVE  j \in excused \/ \E v \in Writers : writer'[v] = j
    BY DEF StaleExplained, Commit
  <2>1. CASE j = k
    BY <2>1 DEF Commit, CacheInv, CacheTypeOK
  <2>2. CASE j # k
    <3>1. entry'[j] = entry[j]
      BY <2>2, <1>1 DEF CacheInv, CacheTypeOK
    <3>2. j \in excused \/ \E v \in Writers : writer[v] = j
      BY <3>1 DEF CacheInv, StaleExplained, Served
    <3> QED
      BY <3>2, CacheAssumption DEF Commit, CacheInv, CacheTypeOK
  <2> QED
    BY <2>1, <2>2
<1> QED
  BY <1>3, <1>5, <1>6, Shrunk DEF CacheInv

\* An invalidated key has no entry.
LEMMA InvalidateKeeps ==
  ASSUME CacheInv, NEW w \in Writers, Invalidate(w)
  PROVE  CacheInv'
<1>1. writer[w] \in Keys
  BY DEF Invalidate, CacheInv, CacheTypeOK
<1>2. Stored' \subseteq Stored
  BY <1>1 DEF Stored, CacheInv, CacheTypeOK, Invalidate
<1>3. CacheTypeOK' /\ ReadersHaveKeys'
  BY <1>1 DEF CacheInv, CacheTypeOK, ReadersHaveKeys, Invalidate
<1>4. StaleExplained'
  BY <1>1 DEF CacheInv, CacheTypeOK, StaleExplained, Served, Invalidate, NoEntry
<1> QED
  BY <1>2, <1>3, <1>4, Shrunk DEF CacheInv

\* A writer that dies excuses what it leaves.
LEMMA WriterDiesKeeps ==
  ASSUME CacheInv, NEW w \in Writers, WriterDies(w)
  PROVE  CacheInv'
<1>1. Stored' = Stored
  BY DEF Stored, WriterDies
<1>2. CacheTypeOK' /\ ReadersHaveKeys'
  BY DEF CacheInv, CacheTypeOK, ReadersHaveKeys, WriterDies
<1>3. StaleExplained'
  BY DEF CacheInv, CacheTypeOK, StaleExplained, Served, WriterDies
<1> QED
  BY <1>1, <1>2, <1>3, Shrunk DEF CacheInv

\* Time makes no entry stale.
LEMMA TickKeeps ==
  ASSUME CacheInv, Tick
  PROVE  CacheInv'
<1>1. Stored' \subseteq Stored
  BY DEF Stored, Tick
<1>2. \A k \in Keys : entry'[k] = IF k \in Stored THEN Older(entry[k]) ELSE NoEntry
  BY DEF Tick
<1>3. \A k \in Stored : entry[k] \in EntryRow
  BY DEF Stored, CacheInv, CacheTypeOK
<1>4. CacheTypeOK' /\ ReadersHaveKeys'
  BY <1>3, Ageing DEF CacheInv, CacheTypeOK, ReadersHaveKeys, Tick
<1>5. StaleExplained'
  <2> SUFFICES ASSUME NEW k \in Keys, Served(k)', ~entry'[k].current
               PROVE  k \in excused \/ \E w \in Writers : writer[w] = k
    BY DEF StaleExplained, Tick
  <2>1. k \in Stored
    BY <1>2 DEF Served, NoEntry
  <2>2. Served(k) /\ ~entry[k].current
    BY <1>2, <1>3, <2>1, Ageing DEF Served
  <2> QED
    BY <2>2 DEF CacheInv, StaleExplained
<1> QED
  BY <1>1, <1>4, <1>5, Shrunk DEF CacheInv

-----------------------------------------------------------------------------
\* The invariant holds of an empty cache.
LEMMA CacheInitInv == CacheInit => CacheInv
<1> SUFFICES ASSUME CacheInit PROVE CacheInv
  OBVIOUS
<1>1. Stored = {}
  BY DEF CacheInit, Stored
<1>2. IsFiniteSet(Stored) /\ Cardinality(Stored) = 0
  BY <1>1, FS_EmptySet
<1>3. CacheTypeOK /\ ReadersHaveKeys
  BY DEF CacheInit, CacheTypeOK, ReadersHaveKeys, ReaderRow, NoReader
<1>4. StaleExplained
  BY DEF CacheInit, StaleExplained, Served, NoEntry
<1> QED
  BY <1>2, <1>3, <1>4, CacheAssumption DEF CacheInv, SizeBounded

\* Every step of a reader, a writer or the clock keeps it.
LEMMA CacheStepInv == CacheInv /\ [CacheNext]_cacheVars => CacheInv'
<1> SUFFICES ASSUME CacheInv, [CacheNext]_cacheVars PROVE CacheInv'
  OBVIOUS
<1>1. ASSUME NEW r \in Readers, NEW k \in Keys, Hit(r, k) \/ Miss(r, k) PROVE CacheInv'
  BY <1>1, HitKeeps, MissKeeps
<1>2. ASSUME NEW r \in Readers, Fetch(r) \/ Store(r) \/ Fetchless(r) PROVE CacheInv'
  BY <1>2, FetchKeeps, StoreKeeps
<1>3. ASSUME NEW w \in Writers, NEW k \in Keys, Commit(w, k) PROVE CacheInv'
  BY <1>3, CommitKeeps
<1>4. ASSUME NEW w \in Writers, Invalidate(w) \/ WriterDies(w) PROVE CacheInv'
  BY <1>4, InvalidateKeeps, WriterDiesKeeps
<1>5. CASE UNCHANGED cacheVars
  <2>1. Stored' = Stored
    BY <1>5 DEF cacheVars, Stored
  <2> QED
    BY <1>5, <2>1, Shrunk DEF cacheVars, CacheInv, CacheTypeOK, ReadersHaveKeys,
                              StaleExplained, Served
<1> QED
  BY <1>1, <1>2, <1>3, <1>4, <1>5, TickKeeps DEF CacheNext

\* CacheInv is an invariant of lib/cache.ts and its callers.
THEOREM CacheInvariant == CacheSpec => []CacheInv
BY CacheInitInv, CacheStepInv, PTL DEF CacheSpec

\* The store, readers and writers always hold values of their types.
THEOREM CacheTypes == CacheSpec => []CacheTypeOK
BY CacheInvariant, PTL DEF CacheInv

\* However many readers store at once, the LRU store stays within maxSize.
THEOREM CacheBounded == CacheSpec => []SizeBounded
BY CacheInvariant, PTL DEF CacheInv

\* A stale value that cacheAside serves has a reader that was overtaken, a writer
\* on its way to the invalidation, or one that died before it.
THEOREM CacheStaleExplained == CacheSpec => []StaleExplained
BY CacheInvariant, PTL DEF CacheInv

-----------------------------------------------------------------------------
(* The combination *)

\* A step of the combination is one of each component, or leaves it alone.
LEMMA PlatformStep ==
  [PlatformNext]_platformVars => /\ [TripNext]_vars
                                 /\ [PostingNext]_postingVars
                                 /\ [QueueNext]_queueVars
                                 /\ [CacheNext]_cacheVars
BY DEF PlatformNext, platformVars

\* What is proved of a component holds of it in the combination.
THEOREM PlatformImplies ==
  PlatformSpec => TripSpec /\ PostingSpec /\ QueueSpec /\ CacheSpec
<1>1. PlatformInit => TripInit /\ PostingInit /\ QueueInit /\ CacheInit
  BY DEF PlatformInit
<1> QED
  BY <1>1, PlatformStep, PTL DEF PlatformSpec, TripSpec, PostingSpec, QueueSpec, CacheSpec

\* The variables of the four components always hold values of their types.
THEOREM PlatformTypes == PlatformSpec => []PlatformTypeOK
<1>1. TripInv /\ PostingInv /\ QueueInv /\ CacheInv => PlatformTypeOK
  BY DEF TripInv, PostingInv, QueueInv, CacheInv, PlatformTypeOK
<1> QED
  BY <1>1, PlatformImplies, TripInvariant, PostingInvariant, QueueInvariant, CacheInvariant, PTL
=============================================================================
