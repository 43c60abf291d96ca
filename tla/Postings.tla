-------------------------------- MODULE Postings --------------------------------
(***************************************************************************)
(* A carrier's trucks on the marketplace: the postings of a truck, its     *)
(* approval by an administrator, its insurance, and the monitor that takes *)
(* a truck whose insurance has lapsed off the marketplace                  *)
(* (app/api/truck-postings, trucks/[id], cron/insurance-monitor,           *)
(* lib/truckPostingAutomation).                                            *)
(*                                                                         *)
(* A handler is a Begin step, which reads and checks, and one step for     *)
(* each statement or transaction that writes.  A check that a transaction  *)
(* makes once more may come right after the first one: the Begin step      *)
(* stands for both.                                                        *)
(*                                                                         *)
(* Of bookings and trips only their effect on the truck and its postings   *)
(* is kept (Booking, TripFlow).  The GPS device is left out, and so are    *)
(* the deletion of a truck and Truck.isAvailable.                          *)
(***************************************************************************)
EXTENDS Naturals, FiniteSets

CONSTANTS Fleet,       \* Truck rows
          Ads,         \* ids of TruckPosting rows
          Clerks,      \* handler invocations in flight at the same time
          NoRow,       \* SQL NULL
          MaxHauls     \* bound: trips of a truck that are active, or left with a load

ASSUME NoRowAssumption == NoRow \notin Fleet \cup Ads
ASSUME AdsAssumption == IsFiniteSet(Ads)
ASSUME MaxHaulsAssumption == MaxHauls \in Nat

VARIABLES approval,    \* Truck.approvalStatus
          covered,     \* the approved insurance document is in force (world)
          coverStatus, \* Truck.insuranceStatus
          onTrip,      \* how many active trips the truck has
          stray,       \* how many of its trips are CANCELLED and still their load's
          ad,          \* TruckPosting rows: truckId, status
          errand,      \* what each clerk is doing
          unswept     \* trucks that lost their insurance in a handler
                       \* that did not write their postings (history)

postingVars == <<approval, covered, coverStatus, onTrip, stray, ad, errand, unswept>>
postingRows == <<approval, covered, coverStatus, onTrip, stray, ad>>

AdStatuses == {"NONE", "ACTIVE", "EXPIRED", "CANCELLED", "MATCHED"}
Approvals == {"PENDING", "APPROVED", "REJECTED"}

\* MISSING and EXPIRED close the marketplace alike, VALID and EXPIRING open it.
CoverStatuses == {"VALID", "EXPIRED"}

AdRow == [truck : Fleet \cup {NoRow}, status : AdStatuses]

ErrandOps == {"none", "post", "reactivate", "edit", "expireOld", "approve",
              "reject", "clear", "resubmit", "sync", "expireAds", "decided"}

ErrandRow == [op : ErrandOps, truck : Fleet \cup {NoRow}, ad : Ads \cup {NoRow},
              status : AdStatuses]

NoErrand == [op |-> "none", truck |-> NoRow, ad |-> NoRow, status |-> "NONE"]

Send(c, op, t, p, status) ==
  /\ errand[c] = NoErrand
  /\ errand' = [errand EXCEPT ![c] = [op |-> op, truck |-> t, ad |-> p, status |-> status]]
  /\ UNCHANGED <<postingRows, unswept>>

Go(c, op) == errand' = [errand EXCEPT ![c].op = op] /\ UNCHANGED unswept
Return(c) == errand' = [errand EXCEPT ![c] = NoErrand] /\ UNCHANGED unswept
On(c, op) == errand[c].op = op

\* A handler of a single statement is a single step of a clerk who is free.
AnyClerk == (\E c \in Clerks : errand[c] = NoErrand) /\ UNCHANGED <<errand, unswept>>

AdsOf(t, status) == {p \in Ads : ad[p].truck = t /\ ad[p].status = status}

\* truckPosting.updateMany(truckId = t, from -> to)
MoveAds(t, from, to) ==
  ad' = [p \in Ads |-> IF p \in AdsOf(t, from) THEN [ad[p] EXCEPT !.status = to] ELSE ad[p]]

SetAd(p, status) == ad' = [ad EXCEPT ![p].status = status]

-----------------------------------------------------------------------------
(* Postings *)

\* Mutant of Unposted: it counts the truck's MATCHED postings.
Unmatched(t) == AdsOf(t, "MATCHED") = {}

Unposted(t) == AdsOf(t, "ACTIVE") = {}

\* Mutant of BeginPost: the trips of the truck are not counted.
BeginPostBusy(c, t) ==
  /\ approval[t] = "APPROVED"
  /\ coverStatus[t] = "VALID"
  /\ Unposted(t)
  /\ Send(c, "post", t, NoRow, "NONE")

\* POST truck-postings
BeginPost(c, t) ==
  /\ approval[t] = "APPROVED"
  /\ coverStatus[t] = "VALID"
  /\ Unposted(t)
  /\ onTrip[t] = 0
  /\ Send(c, "post", t, NoRow, "NONE")

\* POST truck-postings/[id]/duplicate, of a posting in any status: the
\* insurance is not asked for.
BeginDuplicate(c, p) ==
  LET t == ad[p].truck
  IN  /\ ad[p].status # "NONE"
      /\ approval[t] = "APPROVED"
      /\ Unposted(t)
      /\ onTrip[t] = 0
      /\ Send(c, "post", t, NoRow, "NONE")

\* Both insert an ACTIVE row.
InsertAd(c) ==
  /\ On(c, "post")
  /\ \E p \in Ads : /\ ad[p].status = "NONE"
                   /\ ad' = [ad EXCEPT ![p] = [truck |-> errand[c].truck, status |-> "ACTIVE"]]
  /\ Return(c)
  /\ UNCHANGED <<approval, covered, coverStatus, onTrip, stray>>

\* PATCH truck-postings/[id] to ACTIVE: neither trips nor insurance are asked for.
BeginReactivate(c, p) ==
  /\ ad[p].status = "EXPIRED"
  /\ approval[ad[p].truck] = "APPROVED"
  /\ Unposted(ad[p].truck)
  /\ Send(c, "reactivate", ad[p].truck, p, "ACTIVE")

\* PATCH to another status than ACTIVE or MATCHED, and DELETE, which also takes
\* a MATCHED posting.
BeginEdit(c, p, status) ==
  /\ \/ ad[p].status \in {"ACTIVE", "EXPIRED"} /\ status \in {"EXPIRED", "CANCELLED"}
     \/ ad[p].status = "MATCHED" /\ status = "CANCELLED"
  /\ status # ad[p].status
  /\ Send(c, "edit", ad[p].truck, p, status)

\* expireOldTruckPostings has found the posting ACTIVE and out of date.
BeginExpireOld(c, p) ==
  /\ ad[p].status = "ACTIVE"
  /\ Send(c, "expireOld", ad[p].truck, p, "EXPIRED")

\* All three write by id, whatever the posting's status is by now.
WriteAd(c) ==
  /\ errand[c].op \in {"reactivate", "edit", "expireOld"}
  /\ SetAd(errand[c].ad, errand[c].status)
  /\ Return(c)
  /\ UNCHANGED <<approval, covered, coverStatus, onTrip, stray>>

\* The queue's cleanup job and the rejection of an organization expire ACTIVE
\* postings in one guarded statement.
Cleanup(t) ==
  /\ ~Unposted(t)
  /\ MoveAds(t, "ACTIVE", "EXPIRED")
  /\ AnyClerk
  /\ UNCHANGED <<approval, covered, coverStatus, onTrip, stray>>

-----------------------------------------------------------------------------
(* Trips: a booking takes every posting of the truck, the end of any of    *)
(* its trips brings every one of them back.  POST loads/[id]/assign and    *)
(* PATCH loads/[id] begin and end trips too, and leave the postings alone. *)

\* A load that is booked lets go of the cancelled trip it had.
LetGo == \/ UNCHANGED stray
         \/ \E u \in Fleet : stray[u] > 0 /\ stray' = [stray EXCEPT ![u] = @ - 1]

\* A truck may be booked while it has a trip that is DELIVERED: what is asked for
\* is the status of its loads.
BookTruck(t) ==
  /\ onTrip[t] + stray[t] < MaxHauls
  /\ onTrip' = [onTrip EXCEPT ![t] = @ + 1]
  /\ LetGo
  /\ MoveAds(t, "ACTIVE", "MATCHED") \/ UNCHANGED ad
  /\ AnyClerk
  /\ UNCHANGED <<approval, covered, coverStatus>>

\* PATCH trips/[tripId] cancels a trip and leaves it with its load.
EndOfTrip(t) ==
  /\ onTrip[t] > 0
  /\ onTrip' = [onTrip EXCEPT ![t] = @ - 1]
  /\ \/ /\ MoveAds(t, "MATCHED", "ACTIVE")
        /\ \/ UNCHANGED stray
           \/ stray' = [stray EXCEPT ![t] = @ + 1]
     \/ UNCHANGED <<ad, stray>>
  /\ AnyClerk
  /\ UNCHANGED <<approval, covered, coverStatus>>

\* PATCH loads/[id]/status to CANCELLED, of the load a trip was left with, frees
\* the truck of that trip once more; PATCH loads/[id] does not.
CancelLoad(t) ==
  /\ stray[t] > 0
  /\ stray' = [stray EXCEPT ![t] = @ - 1]
  /\ MoveAds(t, "MATCHED", "ACTIVE") \/ UNCHANGED ad
  /\ AnyClerk
  /\ UNCHANGED <<approval, covered, coverStatus, onTrip>>

-----------------------------------------------------------------------------
(* Approval: POST trucks/[id]/approve, POST trucks/[id]/resubmit *)

BeginDecision(c, t) ==
  /\ approval[t] = "PENDING"
  /\ \/ covered[t] /\ Send(c, "approve", t, NoRow, "NONE")
     \/ Send(c, "reject", t, NoRow, "NONE")

CommitApprove(c) ==
  /\ On(c, "approve")
  /\ approval' = [approval EXCEPT ![errand[c].truck] = "APPROVED"]
  /\ coverStatus' = [coverStatus EXCEPT ![errand[c].truck] = "VALID"]
  /\ errand' = [errand EXCEPT ![c] = NoErrand]
  /\ unswept' = unswept \ {errand[c].truck}
  /\ UNCHANGED <<covered, onTrip, stray, ad>>

\* Mutant of CommitReject: the truck gets the status meant for its postings.
RejectAsAds(c) ==
  /\ On(c, "reject")
  /\ approval' = [approval EXCEPT ![errand[c].truck] = "CANCELLED"]
  /\ Go(c, "clear")
  /\ UNCHANGED <<covered, coverStatus, onTrip, stray, ad>>

\* The rejection, and in a statement of its own the end of its postings.
CommitReject(c) ==
  /\ On(c, "reject")
  /\ approval' = [approval EXCEPT ![errand[c].truck] = "REJECTED"]
  /\ Go(c, "clear")
  /\ UNCHANGED <<covered, coverStatus, onTrip, stray, ad>>

ClearAds(c) ==
  /\ On(c, "clear")
  /\ MoveAds(errand[c].truck, "ACTIVE", "CANCELLED")
  /\ Return(c)
  /\ UNCHANGED <<approval, covered, coverStatus, onTrip, stray>>

BeginResubmit(c, t) == approval[t] = "REJECTED" /\ Send(c, "resubmit", t, NoRow, "NONE")

CommitResubmit(c) ==
  /\ On(c, "resubmit")
  /\ approval' = [approval EXCEPT ![errand[c].truck] = "PENDING"]
  /\ Return(c)
  /\ UNCHANGED <<covered, coverStatus, onTrip, stray, ad>>

\* PATCH trucks/[id] of a field that was part of the approval.
ChangeTruck(t) ==
  /\ approval[t] = "APPROVED"
  /\ approval' = [approval EXCEPT ![t] = "PENDING"]
  /\ AnyClerk
  /\ UNCHANGED <<covered, coverStatus, onTrip, stray, ad>>

-----------------------------------------------------------------------------
(* Insurance *)

\* The document runs out (world).
Lapse(t) ==
  /\ covered[t]
  /\ covered' = [covered EXCEPT ![t] = FALSE]
  /\ UNCHANGED <<approval, coverStatus, onTrip, stray, ad, errand, unswept>>

\* PATCH documents/[id]: the administrator approves or rejects an insurance
\* document, then the truck is synced.
BeginDecideCover(c, t, inForce) ==
  /\ errand[c] = NoErrand
  /\ covered' = [covered EXCEPT ![t] = inForce]
  /\ errand' = [errand EXCEPT ![c] = [NoErrand EXCEPT !.op = "decided", !.truck = t]]
  /\ UNCHANGED <<approval, coverStatus, onTrip, stray, ad, unswept>>

\* syncTruckInsuranceStatus
Synced(t) == coverStatus' = [coverStatus EXCEPT ![t] = IF covered[t] THEN "VALID" ELSE "EXPIRED"]

\* The postings of a truck that has lost its insurance here stay as they are.
SyncDecided(c) ==
  LET t == errand[c].truck
  IN  /\ On(c, "decided")
      /\ Synced(t)
      /\ errand' = [errand EXCEPT ![c] = NoErrand]
      /\ unswept' = IF covered[t] THEN unswept \ {t} ELSE unswept \cup {t}
      /\ UNCHANGED <<approval, covered, onTrip, stray, ad>>

\* cron/insurance-monitor selects trucks that still count as insured.
BeginMonitor(c, t) ==
  /\ coverStatus[t] = "VALID"
  /\ ~covered[t]
  /\ Send(c, "sync", t, NoRow, "NONE")

\* Mutant of SyncLapsed: the monitor stops at the truck's own row.
SyncOnly(c) ==
  /\ On(c, "sync")
  /\ Synced(errand[c].truck)
  /\ Return(c)
  /\ UNCHANGED <<approval, covered, onTrip, stray, ad>>

SyncLapsed(c) ==
  /\ On(c, "sync")
  /\ Synced(errand[c].truck)
  /\ Go(c, "expireAds")
  /\ UNCHANGED <<approval, covered, onTrip, stray, ad>>

ExpireAds(c) ==
  /\ On(c, "expireAds")
  /\ MoveAds(errand[c].truck, "ACTIVE", "EXPIRED")
  /\ Return(c)
  /\ UNCHANGED <<approval, covered, coverStatus, onTrip, stray>>

\* An exception, a failed statement or the end of the process.
ClerkDies(c) ==
  /\ errand[c] # NoErrand
  /\ errand' = [errand EXCEPT ![c] = NoErrand]
  /\ unswept' = IF On(c, "expireAds") THEN unswept \cup {errand[c].truck} ELSE unswept
  /\ UNCHANGED postingRows

-----------------------------------------------------------------------------
\* Insured trucks that wait for their approval.
PostingInit ==
  /\ approval = [t \in Fleet |-> "PENDING"]
  /\ covered = [t \in Fleet |-> TRUE]
  /\ coverStatus = [t \in Fleet |-> "VALID"]
  /\ onTrip = [t \in Fleet |-> 0]
  /\ stray = [t \in Fleet |-> 0]
  /\ ad = [p \in Ads |-> [truck |-> NoRow, status |-> "NONE"]]
  /\ errand = [c \in Clerks |-> NoErrand]
  /\ unswept = {}

BeginErrand(c) ==
  \/ \E t \in Fleet : \/ BeginPost(c, t)
                     \/ BeginDecision(c, t)
                     \/ BeginResubmit(c, t)
                     \/ \E inForce \in BOOLEAN : BeginDecideCover(c, t, inForce)
                     \/ BeginMonitor(c, t)
  \/ \E p \in Ads : \/ BeginDuplicate(c, p)
                   \/ BeginReactivate(c, p)
                   \/ BeginExpireOld(c, p)
                   \/ \E status \in {"EXPIRED", "CANCELLED"} : BeginEdit(c, p, status)

CommitErrand(c) ==
  \/ InsertAd(c)
  \/ WriteAd(c)
  \/ CommitApprove(c)
  \/ CommitReject(c)
  \/ ClearAds(c)
  \/ CommitResubmit(c)
  \/ SyncDecided(c)
  \/ SyncLapsed(c)
  \/ ExpireAds(c)

PostingNext ==
  \/ \E c \in Clerks : BeginErrand(c) \/ CommitErrand(c) \/ ClerkDies(c)
  \/ \E t \in Fleet : \/ BookTruck(t)
                     \/ EndOfTrip(t)
                     \/ CancelLoad(t)
                     \/ Cleanup(t)
                     \/ ChangeTruck(t)
                     \/ Lapse(t)

PostingSpec == PostingInit /\ [][PostingNext]_postingVars

\* A handler ends; the hourly monitor comes to every lapsed truck again and
\* again, and does not die each time it starts.
MonitorRetries ==
  /\ \A c \in Clerks : WF_postingVars(CommitErrand(c) \/ ClerkDies(c))
  /\ \A t \in Fleet : SF_postingVars(\E c \in Clerks : BeginMonitor(c, t))
  /\ \A c \in Clerks : SF_postingVars(SyncLapsed(c))

FairPostingSpec == PostingSpec /\ MonitorRetries

-----------------------------------------------------------------------------
(* What postings promise *)

\* Rows and errands hold values of their columns' types.
PostingTypeOK ==
  /\ approval \in [Fleet -> Approvals]
  /\ covered \in [Fleet -> BOOLEAN]
  /\ coverStatus \in [Fleet -> CoverStatuses]
  /\ onTrip \in [Fleet -> Nat]
  /\ stray \in [Fleet -> Nat]
  /\ ad \in [Ads -> AdRow]
  /\ errand \in [Clerks -> ErrandRow]
  /\ unswept \subseteq Fleet

\* A trip of the truck ends, or a load is cancelled that it has lost already.
Returns(t) == onTrip'[t] < onTrip[t] \/ stray'[t] < stray[t]

\* One handler at a time, a second ACTIVE posting of a truck appears only where
\* MATCHED ones are brought back: the carrier cannot create one, duplicate one or
\* bring one back next to an ACTIVE one, however the earlier ones came to their status.
SecondAdFromTrip ==
  [][\A t \in Fleet : Cardinality(AdsOf(t, "ACTIVE")) <= 1
                        /\ Cardinality(AdsOf(t, "ACTIVE")') > 1
       => Returns(t)]_postingVars

\* One handler at a time, a truck under way gets an ACTIVE posting only out of an
\* EXPIRED one, which PATCH does not ask the trips about, or out of one that was
\* MATCHED, when another of its trips ends or a load it no longer carries is cancelled.
BusyTruckReposted ==
  [][\A t \in Fleet : \A p \in Ads :
       onTrip'[t] > 0 /\ ad'[p].truck = t /\ ad'[p].status = "ACTIVE"
         => \/ ad[p].status \in {"ACTIVE", "EXPIRED"}
            \/ ad[p].status = "MATCHED" /\ Returns(t)]_postingVars

\* A truck whose insurance has lapsed leaves the marketplace or is insured again,
\* unless the monitor dies between its two statements or an administrator's
\* decision on a document comes first: no later run of the monitor makes up for
\* that, as it does not select the truck any more.
LapsedLeaveMarket ==
  \A t \in Fleet : ~covered[t] /\ coverStatus[t] = "VALID"
                     ~> covered[t] \/ AdsOf(t, "ACTIVE") = {} \/ t \in unswept
=============================================================================
