------------------------------ MODULE Settlement ------------------------------
(***************************************************************************)
(* Load.settlementStatus: which handlers bring a load to PAID, and what    *)
(* they know of its service fees when they do (loads/[id]/settle,          *)
(* admin/settlements/[id]/approve, lib/settlementAutomation, and every     *)
(* handler that completes a trip or verifies its POD).                     *)
(*                                                                         *)
(* A handler that collects fees reads and checks (Begin), calls            *)
(* deductServiceFee (Deduct), and writes what it makes of the answer in a  *)
(* later transaction, or in several; it may die in between, and what       *)
(* follows a write may still throw.  deductServiceFee is one step          *)
(* with the outcomes it can have: Wallets has its inside.  Of the load's   *)
(* status the three values around delivery are kept; trips, trucks and     *)
(* drivers are in TripFlow and Drivers.                                    *)
(***************************************************************************)
CONSTANTS Deliveries,  \* Load rows
          Settlers     \* handler invocations in flight at the same time

VARIABLES stage,       \* Load.status
          submitted,   \* loads with podSubmitted
          verified,    \* loads with podVerified
          feeOf,       \* shipperFeeStatus and carrierFeeStatus
          settled,     \* settlementStatus
          duty,        \* what each handler is doing
          abandoned    \* loads whose settle handler has died (history)

settlementVars == <<stage, submitted, verified, feeOf, settled, duty, abandoned>>
settlementRows == <<stage, submitted, verified, feeOf, settled, abandoned>>

Payers == {"shipper", "carrier"}
FeeStates == {"PENDING", "DEDUCTED", "WAIVED"}
SettlementStatuses == {"PENDING", "IN_PROGRESS", "PAID", "FAILED", "DISPUTE"}

\* The handlers that complete a delivered load; the manual status route asks
\* for no trip, and leaves the settlement to others.
Completions == {"patch", "confirm", "uploadPod", "monitor", "manual"}
DutyOps == Completions \cup {"none", "lock", "settle", "paid", "verifyPod", "podVerified",
                             "podSettled", "approve", "autoVerify", "autoSettle",
                             "autoComplete"}

\* `answer' is that of deductServiceFee: collected (platformRevenue > 0), zero
\* (success, and the fees are zero or waived), nothing (success, and nobody
\* could pay), already (both fees DEDUCTED before), failed (or thrown).
Answers == {"none", "collected", "zero", "nothing", "already", "failed"}
Successes == {"collected", "zero", "nothing"}

DutyRow == [op : DutyOps, on : Deliveries \cup {"none"}, answer : Answers]
OffDuty == [op |-> "none", on |-> "none", answer |-> "none"]

Engage(s, op, l) ==
  /\ duty[s] = OffDuty
  /\ duty' = [duty EXCEPT ![s] = [op |-> op, on |-> l, answer |-> "none"]]
  /\ UNCHANGED settlementRows

Leave(s) == duty' = [duty EXCEPT ![s] = OffDuty]
GoOn(s, op) == duty' = [duty EXCEPT ![s].op = op]

Answered(s, op, answers) == duty[s].op = op /\ duty[s].answer \in answers

SetSettled(l, status) == settled' = [settled EXCEPT ![l] = status]

-----------------------------------------------------------------------------
(* deductServiceFee *)

Uncollected(l) == \E p \in Payers : feeOf[l][p] # "DEDUCTED"

\* The statuses are written anew for both parties: one that has paid before and
\* cannot pay once more is PENDING again.  One whose fee is zero is free: DEDUCTED,
\* even if the other cannot pay.
Deduct(s) ==
  LET l == duty[s].on
      answer(a) == duty' = [duty EXCEPT ![s].answer = a]
      fees(f) == feeOf' = [feeOf EXCEPT ![l] = f]
  IN  /\ duty[s].op \in Completions \cup {"settle", "verifyPod", "autoComplete"}
      /\ duty[s].op = "manual" => \A p \in Payers : feeOf[l][p] # "DEDUCTED"
      /\ duty[s].answer = "none"
      /\ \/ ~Uncollected(l) /\ answer("already") /\ UNCHANGED feeOf
         \/ answer("failed") /\ UNCHANGED feeOf
         \/ /\ Uncollected(l)
            /\ \/ answer("zero") /\ fees([p \in Payers |-> "WAIVED"])
               \/ \E paying, free \in SUBSET Payers :
                    /\ paying \cap free = {}
                    /\ answer(CASE paying # {} -> "collected"
                                [] free = Payers -> "zero"
                                [] OTHER -> "nothing")
                    /\ fees([p \in Payers |-> IF p \in paying \cup free THEN "DEDUCTED"
                                                                      ELSE "PENDING"])
      /\ UNCHANGED <<stage, submitted, verified, settled, abandoned>>

-----------------------------------------------------------------------------
(* Delivery and its proof *)

Arrive(l) ==
  /\ stage[l] = "IN_TRANSIT"
  /\ stage' = [stage EXCEPT ![l] = "DELIVERED"]
  /\ UNCHANGED <<submitted, verified, feeOf, settled, duty, abandoned>>

\* POST loads/[id]/pod
SubmitPod(l) ==
  /\ stage[l] = "DELIVERED"
  /\ l \notin submitted
  /\ submitted' = submitted \cup {l}
  /\ UNCHANGED <<stage, verified, feeOf, settled, duty, abandoned>>

-----------------------------------------------------------------------------
(* Completion: PATCH trips/[tripId], confirm, trips/[tripId]/pod, the trip *)
(* monitor and the manual status route                                     *)

BeginCompletion(s, op, l) ==
  /\ stage[l] = "DELIVERED"
  /\ op = "patch" => l \in submitted
  /\ op = "monitor" => l \notin submitted
  /\ Engage(s, op, l)

\* Mutant of PaysFor: success is taken for money (the bug of the comment below).
PaysForSuccess(s) ==
  \/ Answered(s, "monitor", Successes \cup {"already"})
  \/ duty[s].op \in {"patch", "confirm", "uploadPod"} /\ duty[s].answer \in Successes

\* Three of them ask for revenue or for a fee of zero; the monitor for success.
PaysFor(s) ==
  \/ Answered(s, "monitor", Successes \cup {"already"})
  \/ duty[s].op \in {"patch", "confirm", "uploadPod"} /\ duty[s].answer \in {"collected", "zero"}

\* The monitor completes the load whatever the fees did, the others not when the
\* deduction failed.  The manual route skips it when either party has paid.
MayComplete(s) ==
  \/ Answered(s, "monitor", Answers \ {"none"})
  \/ /\ duty[s].op \in Completions \ {"monitor"}
     /\ duty[s].answer \notin {"none", "failed"}
  \/ Answered(s, "manual", {"none"}) /\ \E p \in Payers : feeOf[duty[s].on][p] = "DEDUCTED"

CommitCompletion(s) ==
  LET l == duty[s].on
      op == duty[s].op
  IN  /\ MayComplete(s)
      /\ stage[l] = "DELIVERED"
      /\ stage' = [stage EXCEPT ![l] = "COMPLETED"]
      /\ submitted' = IF op = "uploadPod" THEN submitted \cup {l} ELSE submitted
      /\ verified' = IF op = "confirm" \/ (op = "monitor" /\ PaysFor(s))
                     THEN verified \cup {l} ELSE verified
      /\ IF PaysFor(s) THEN SetSettled(l, "PAID") ELSE UNCHANGED settled
      /\ Leave(s)
      /\ UNCHANGED <<feeOf, abandoned>>

-----------------------------------------------------------------------------
(* PUT loads/[id]/pod: the shipper verifies the POD *)

BeginVerifyPod(s, l) == l \in submitted \ verified /\ Engage(s, "verifyPod", l)

\* Three transactions.  The POD is verified if the fee was collected or excused;
MarkVerified(s) ==
  /\ Answered(s, "verifyPod", {"collected", "zero", "nothing", "already"})
  /\ verified' = verified \cup {duty[s].on}
  /\ GoOn(s, "podVerified")
  /\ UNCHANGED <<stage, submitted, feeOf, settled, abandoned>>

\* the load is PAID if there was revenue or no fee to take;
SettleVerified(s) ==
  /\ duty[s].op = "podVerified"
  /\ IF duty[s].answer \in {"collected", "zero"} THEN SetSettled(duty[s].on, "PAID")
                                                 ELSE UNCHANGED settled
  /\ GoOn(s, "podSettled")
  /\ UNCHANGED <<stage, submitted, verified, feeOf, abandoned>>

\* trip and load are completed if the trip is DELIVERED, which may fail unnoticed.
CompleteVerified(s) ==
  LET l == duty[s].on
  IN  /\ duty[s].op = "podSettled"
      /\ \/ stage[l] = "DELIVERED" /\ stage' = [stage EXCEPT ![l] = "COMPLETED"]
         \/ UNCHANGED stage
      /\ Leave(s)
      /\ UNCHANGED <<submitted, verified, feeOf, settled, abandoned>>

-----------------------------------------------------------------------------
(* POST loads/[id]/settle *)

Deliverable(l) == stage[l] \in {"DELIVERED", "COMPLETED"}

\* Mutant of BeginSettle: a settled load may be settled again.
BeginSettleAgain(s, l) ==
  /\ Deliverable(l) /\ l \in submitted \cap verified
  /\ settled[l] # "IN_PROGRESS"
  /\ Engage(s, "lock", l)

\* The check, and the same check inside the transaction, which then writes.
BeginSettle(s, l) ==
  /\ Deliverable(l) /\ l \in submitted \cap verified
  /\ settled[l] \notin {"IN_PROGRESS", "PAID"}
  /\ Engage(s, "lock", l)

LockSettlement(s) ==
  /\ duty[s].op = "lock"
  /\ SetSettled(duty[s].on, "IN_PROGRESS")
  /\ GoOn(s, "settle")
  /\ UNCHANGED <<stage, submitted, verified, feeOf, abandoned>>

\* Any success is PAID, and the handler goes on: the event, a read and the cache.
\* Any other answer, "already" among them, is FAILED.
CommitSettle(s) ==
  /\ \/ Answered(s, "settle", Successes) /\ SetSettled(duty[s].on, "PAID") /\ GoOn(s, "paid")
     \/ Answered(s, "settle", {"already", "failed"}) /\ SetSettled(duty[s].on, "FAILED") /\ Leave(s)
  /\ UNCHANGED <<stage, submitted, verified, feeOf, abandoned>>

\* Mutant of ResetSettle: the catch block only reports.
ReportSettle(s) ==
  /\ duty[s].op \in {"settle", "paid"}
  /\ Leave(s)
  /\ UNCHANGED settlementRows

\* The catch block, after an exception anywhere after the lock: also when the load
\* is PAID already.
ResetSettle(s) ==
  /\ duty[s].op \in {"settle", "paid"}
  /\ SetSettled(duty[s].on, "PENDING")
  /\ Leave(s)
  /\ UNCHANGED <<stage, submitted, verified, feeOf, abandoned>>

-----------------------------------------------------------------------------
(* The administrator and the automation: read, then write by id *)

\* POST admin/settlements/[id]/approve
BeginApproveSettlement(s, l) ==
  /\ stage[l] = "DELIVERED" /\ l \in verified
  /\ ~Uncollected(l)
  /\ settled[l] # "PAID"
  /\ Engage(s, "approve", l)

\* processReadySettlements
BeginAutoSettle(s, l) ==
  /\ Deliverable(l) /\ l \in verified
  /\ settled[l] = "PENDING"
  /\ Engage(s, "autoSettle", l)

\* autoSettleCompletedLoads; the fee of each load, then all their statuses by id,
\* whatever became of the fees.
BeginAutoComplete(s, l) ==
  /\ Deliverable(l) /\ l \in verified
  /\ settled[l] = "PENDING"
  /\ Engage(s, "autoComplete", l)

CommitAutoComplete(s) ==
  /\ Answered(s, "autoComplete", Answers \ {"none"})
  /\ stage' = [stage EXCEPT ![duty[s].on] = "COMPLETED"]
  /\ Leave(s)
  /\ UNCHANGED <<submitted, verified, feeOf, settled, abandoned>>

\* autoVerifyExpiredPODs; whether the timeout has passed is left open.
BeginAutoVerify(s, l) ==
  /\ l \in submitted \ verified
  /\ settled[l] = "PENDING"
  /\ Engage(s, "autoVerify", l)

\* A load whose update fails goes to DISPUTE.
CommitDesk(s) ==
  LET l == duty[s].on
  IN  /\ \/ duty[s].op = "approve" /\ SetSettled(l, "PAID") /\ UNCHANGED verified
         \/ /\ duty[s].op = "autoSettle"
            /\ \E status \in {"PAID", "DISPUTE"} : SetSettled(l, status)
            /\ UNCHANGED verified
         \/ duty[s].op = "autoVerify" /\ verified' = verified \cup {l} /\ UNCHANGED settled
      /\ Leave(s)
      /\ UNCHANGED <<stage, submitted, feeOf, abandoned>>

\* The handler returns, its write fails or loses a race, or the process ends.  In
\* the midst of a settlement only the process can end, or the reset itself fail.
SettlerLeaves(s) ==
  LET settling == duty[s].op = "settle"
  IN  /\ duty[s] # OffDuty
      /\ abandoned' = IF settling THEN abandoned \cup {duty[s].on} ELSE abandoned
      /\ Leave(s)
      /\ UNCHANGED <<stage, submitted, verified, feeOf, settled>>

-----------------------------------------------------------------------------
SettlementInit ==
  /\ stage = [l \in Deliveries |-> "IN_TRANSIT"]
  /\ submitted = {}
  /\ verified = {}
  /\ feeOf = [l \in Deliveries |-> [p \in Payers |-> "PENDING"]]
  /\ settled = [l \in Deliveries |-> "PENDING"]
  /\ duty = [s \in Settlers |-> OffDuty]
  /\ abandoned = {}

BeginDuty(s, l) ==
  \/ \E op \in Completions : BeginCompletion(s, op, l)
  \/ BeginVerifyPod(s, l)
  \/ BeginSettle(s, l)
  \/ BeginApproveSettlement(s, l)
  \/ BeginAutoSettle(s, l)
  \/ BeginAutoComplete(s, l)
  \/ BeginAutoVerify(s, l)

SettlerStep(s) ==
  \/ Deduct(s)
  \/ CommitCompletion(s)
  \/ MarkVerified(s)
  \/ SettleVerified(s)
  \/ CompleteVerified(s)
  \/ LockSettlement(s)
  \/ CommitSettle(s)
  \/ ResetSettle(s)
  \/ CommitDesk(s)
  \/ CommitAutoComplete(s)
  \/ SettlerLeaves(s)

SettlementNext ==
  \/ \E l \in Deliveries : \/ Arrive(l)
                           \/ SubmitPod(l)
                           \/ \E s \in Settlers : BeginDuty(s, l)
  \/ \E s \in Settlers : SettlerStep(s)

SettlementSpec == SettlementInit /\ [][SettlementNext]_settlementVars

-----------------------------------------------------------------------------
(* What the settlement of a load promises *)

\* Rows and duties hold values of their columns' types.
SettlementTypeOK ==
  /\ stage \in [Deliveries -> {"IN_TRANSIT", "DELIVERED", "COMPLETED"}]
  /\ submitted \subseteq Deliveries
  /\ verified \subseteq Deliveries
  /\ feeOf \in [Deliveries -> [Payers -> FeeStates]]
  /\ settled \in [Deliveries -> SettlementStatuses]
  /\ duty \in [Settlers -> DutyRow]
  /\ abandoned \subseteq Deliveries

\* A settlement in progress has somebody at work on it, unless the process died or
\* the reset failed: no answer of deductServiceFee and no exception leaves it behind.
InProgressAttended ==
  \A l \in Deliveries : settled[l] = "IN_PROGRESS" =>
    l \in abandoned \/ \E s \in Settlers : duty[s].op = "settle" /\ duty[s].on = l

\* One handler at a time, of the eight that write the settlement, in whatever order
\* they are called, one takes PAID back: that of loads/[id]/settle, when something
\* fails after it has written it.
PaidUndoneBySettle ==
  [][\A l \in Deliveries : settled[l] = "PAID" /\ settled'[l] # "PAID"
       => /\ settled'[l] = "PENDING"
          /\ \E s \in Settlers : duty[s].on = l /\ duty[s].op = "paid"]_settlementVars

Backed(l) == \/ \E p \in Payers : feeOf[l][p] = "DEDUCTED"
             \/ \A p \in Payers : feeOf[l][p] = "WAIVED"

\* One handler at a time, a load that turns PAID has a fee that was collected or
\* waived, unless the monitor, loads/[id]/settle or the automation pays it.
PaidIsBacked ==
  [][\A l \in Deliveries :
       settled[l] # "PAID" /\ settled'[l] = "PAID"
         => \/ Backed(l)
            \/ \E s \in Settlers : /\ duty[s].on = l
                                   /\ duty[s].op \in {"monitor", "settle", "autoSettle"}]_settlementVars
=============================================================================
