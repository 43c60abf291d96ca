------------------------------ MODULE WalletsProofs ------------------------------
(***************************************************************************)
(* WalletInv is an invariant, for any number of accounts, loads, requests  *)
(* and workers: every statement that moves a balance has its journal line, *)
(* and no race returns a decided deposit or withdrawal to PENDING.         *)
(*                                                                         *)
(* SolvencyInv bounds the overdraft, also for any number of workers: what  *)
(* an account holds covers the debits its workers have checked and not yet *)
(* written, save for one largest debit per further worker.                 *)
(*                                                                         *)
(* AloneInv is an invariant with one worker: what a handler has read is so *)
(* when it writes, so entries agree with statuses and nothing is paid      *)
(* twice.                                                                  *)
(*                                                                         *)
(* MoneyAccounted is inductive next to these: what all accounts hold       *)
(* changes by what is entered for one row or, with a fee, not upwards.     *)
(* Lemmas about sums over a finite set come first; they are proved by      *)
(* looking at a smallest set for which they would be wrong.                *)
(***************************************************************************)
EXTENDS Wallets, FiniteSetTheorems, WellFoundedInduction, TLAPS

\* Amounts of parties add up to numbers.
LEMMA ShareType ==
  ASSUME NEW l \in Loads, NEW a \in Accounts, NEW amount \in [Parties -> Nat]
  PROVE  Share(l, amount, a) \in Nat /\ Total(amount) \in Nat
BY DEF Share, Total, Parties

\* What a worker collects or returns is an amount per party.
LEMMA PaidType ==
  ASSUME TypeOK, NEW w \in Workers
  PROVE  Paid(w) \in [Parties -> Nat] /\ job[w].amount \in [Parties -> Nat]
BY DEF TypeOK, JobRow, Paid

\* An entry whose lines are the increments beside it keeps every account in step
\* with the journal.
LEMMA SameLines ==
  ASSUME WalletInv, NEW change \in [Accounts -> Int],
         WriteLines(change), Increment(change)
  PROVE  /\ WalletInSync'
         /\ balance' \in [Accounts -> Int]
         /\ journal' \in [Accounts -> Int]
BY DEF WalletInv, TypeOK, WalletInSync, WriteLines, Increment

\* A job is well formed when its row belongs to the table of its handler.
Fits(j) ==
  /\ j \in JobRow
  /\ j.op \in {"approveDeposit", "rejectDeposit"} => j.row \in Deposits
  /\ j.op \in {"approve", "approveChecked", "reject"} => j.row \in Withdrawals
  /\ j.op \in FeeOps => j.row \in Loads

\* A worker that takes up, continues or ends a well-formed job.
LEMMA JobStep ==
  ASSUME WalletInv, NEW w \in Workers, NEW j, Fits(j),
         job' = [job EXCEPT ![w] = j]
  PROVE  JobsFit' /\ job' \in [Workers -> JobRow]
BY DEF WalletInv, TypeOK, JobsFit, Fits

\* Jobs as handlers make them.
LEMMA NewJobs ==
  /\ Fits(Idle)
  /\ \A l \in Loads : Fits(Job("waive", l)) /\ Fits(Job("cancelled", l))
                        /\ Fits(Job("refundNothing", l))
  /\ \A d \in Deposits : Fits(Job("approveDeposit", d)) /\ Fits(Job("rejectDeposit", d))
  /\ \A q \in Withdrawals : Fits(Job("approve", q)) /\ Fits(Job("reject", q))
                              /\ Fits(Job("approveChecked", q))
BY DEF Fits, Job, FeeJob, Idle, JobRow, Ops, FeeOps, Nothing, Parties

\* A handler that ends leaves a well-formed table of jobs.
LEMMA FinishFits ==
  ASSUME WalletInv, NEW w \in Workers, Finish(w)
  PROVE  JobsFit' /\ job' \in [Workers -> JobRow]
BY NewJobs, JobStep DEF Finish

-----------------------------------------------------------------------------
(* Service fees *)

\* deductServiceFee reads: a job that moves nothing yet.
LEMMA BeginDeductPreserves ==
  ASSUME WalletInv, WalletsAssumption, NEW w \in Workers,
         CheckDeduct(w) \/ \E l \in Loads : BeginDeduct(w, l)
  PROVE  WalletInv'
<1>1. PICK op \in {"deduct", "deductChecked"}, l \in Loads, amount \in [Parties -> Nat],
           parties \in SUBSET Parties : job' = [job EXCEPT ![w] = FeeJob(op, l, amount, parties)]
  <2>1. CASE CheckDeduct(w)
    <3> DEFINE paying == {p \in Parties :
                  \/ job[w].amount[p] = 0
                  \/ /\ p \in job[w].parties
                     /\ balance[WalletOf(job[w].row, p)] >= job[w].amount[p]}
    <3>1. job' = [job EXCEPT ![w] = FeeJob("deductChecked", job[w].row, job[w].amount, paying)]
      BY <2>1 DEF CheckDeduct, Continue
    <3>2. job[w].row \in Loads /\ job[w].amount \in [Parties -> Nat]
      BY <2>1 DEF CheckDeduct, WalletInv, TypeOK, JobsFit, JobRow, FeeOps
    <3>3. paying \in SUBSET Parties
      OBVIOUS
    <3> HIDE DEF paying
    <3> QED  BY <3>1, <3>2, <3>3
  <2>2. CASE \E l \in Loads : BeginDeduct(w, l)
    <3>1. PICK l \in Loads, amount \in [Parties -> Fees], parties \in SUBSET Parties :
            job' = [job EXCEPT ![w] = FeeJob("deduct", l, amount, parties)]
      BY <2>2 DEF BeginDeduct, Start
    <3>2. amount \in [Parties -> Nat]
      BY DEF WalletsAssumption
    <3> QED  BY <3>1, <3>2
  <2> QED  BY <2>1, <2>2
<1>2. Fits(FeeJob(op, l, amount, parties))
  BY DEF Fits, FeeJob, JobRow, Ops, FeeOps
<1>3. JobsFit' /\ job' \in [Workers -> JobRow]
  BY <1>1, <1>2, JobStep
<1> QED
  BY <1>3 DEF BeginDeduct, CheckDeduct, WalletInv, TypeOK, WalletInSync, PendingUntouched,
              money, loadRows, requestRows, truckRows

\* The fees move from the wallets to the platform.
LEMMA CommitDeductPreserves ==
  ASSUME WalletInv, WalletsAssumption, NEW w \in Workers, CommitDeduct(w)
  PROVE  WalletInv'
<1> DEFINE l == job[w].row
           change == [a \in Accounts |-> IF a = Platform THEN Total(Paid(w))
                                                         ELSE -Share(l, Paid(w), a)]
<1>1. l \in Loads /\ Paid(w) \in [Parties -> Nat] /\ job[w].amount \in [Parties -> Nat]
  BY PaidType DEF CommitDeduct, WalletInv, JobsFit, FeeOps
<1>2. change \in [Accounts -> Int]
  BY <1>1, ShareType
<1>3. WriteLines(change) /\ Increment(change)
  BY DEF CommitDeduct
<1> HIDE DEF change
<1>4. WalletInSync' /\ balance' \in [Accounts -> Int] /\ journal' \in [Accounts -> Int]
  BY <1>2, <1>3, SameLines
<1>5. JobsFit' /\ job' \in [Workers -> JobRow]
  BY FinishFits DEF CommitDeduct
<1>6. /\ feeStatus' \in [Loads -> [Parties -> FeeStatuses]]
      /\ fee' \in [Loads -> [Parties -> Nat]]
  BY <1>1 DEF CommitDeduct, WalletInv, TypeOK, FeeStatuses
<1>7. feePaid' \in [Loads -> [Parties -> Int]]
  BY <1>1 DEF CommitDeduct, WalletInv, TypeOK
<1> QED
  BY <1>4, <1>5, <1>6, <1>7 DEF CommitDeduct, WalletInv, TypeOK, PendingUntouched,
                                requestRows, truckRows

\* A load without a corridor is waived; nothing moves.
LEMMA WaivePreserves ==
  ASSUME WalletInv, NEW w \in Workers, CommitWaive(w) \/ CommitRefundNothing(w)
  PROVE  WalletInv'
<1>1. job[w].row \in Loads
  BY DEF CommitWaive, CommitRefundNothing, WalletInv, JobsFit, FeeOps
<1>2. JobsFit' /\ job' \in [Workers -> JobRow]
  BY FinishFits DEF CommitWaive, CommitRefundNothing
<1>3. Nothing \in [Parties -> Nat]
  BY DEF Nothing
<1>4. feeStatus' \in [Loads -> [Parties -> FeeStatuses]]
  <2>1. CASE CommitWaive(w)
    BY <1>1, <2>1 DEF CommitWaive, WalletInv, TypeOK, FeeStatuses
  <2>2. CASE CommitRefundNothing(w)
    BY <1>1, <2>2 DEF CommitRefundNothing, WalletInv, TypeOK, FeeStatuses
  <2> QED  BY <2>1, <2>2
<1>5. fee' \in [Loads -> [Parties -> Nat]]
  BY <1>1, <1>3 DEF CommitWaive, CommitRefundNothing, WalletInv, TypeOK
<1>6. UNCHANGED <<balance, journal, entries, deposit, withdrawal, feePaid, hasTruck,
                  trips, delivered>>
  BY DEF CommitWaive, CommitRefundNothing, money, requestRows, truckRows
<1> QED
  BY <1>2, <1>4, <1>5, <1>6 DEF WalletInv, TypeOK, WalletInSync, PendingUntouched

\* A cancellation takes the load's truck away.
LEMMA CancelLoadPreserves ==
  ASSUME WalletInv, NEW w \in Workers, NEW l \in Loads, CancelLoad(w, l)
  PROVE  WalletInv'
<1>1. JobsFit' /\ job' \in [Workers -> JobRow]
  BY NewJobs, JobStep DEF CancelLoad, Start
<1> QED
  BY <1>1 DEF CancelLoad, WalletInv, TypeOK, WalletInSync, PendingUntouched,
              money, loadRows, requestRows

\* refundServiceFee reads what each party is to get back.
LEMMA BeginRefundPreserves ==
  ASSUME WalletInv, NEW w \in Workers, BeginRefund(w)
  PROVE  WalletInv'
<1> DEFINE l == job[w].row
           amount == [p \in Parties |-> IF feeStatus[l][p] = "DEDUCTED" THEN fee[l][p] ELSE 0]
           known == {p \in Parties : p = "carrier" => hasTruck[l]}
<1>1. l \in Loads
  BY DEF BeginRefund, WalletInv, JobsFit, FeeOps
<1>2. amount \in [Parties -> Nat] /\ known \in SUBSET Parties
  BY <1>1 DEF WalletInv, TypeOK
<1>3. \/ Finish(w)
      \/ job' = [job EXCEPT ![w] = Job("refundNothing", l)]
      \/ job' = [job EXCEPT ![w] = FeeJob("refund", l, amount, known)]
  BY DEF BeginRefund, Continue
<1> HIDE DEF amount, known
<1>4. Fits(FeeJob("refund", l, amount, known)) /\ Fits(Job("refundNothing", l))
  <2>1. Fits(FeeJob("refund", l, amount, known))
    BY <1>1, <1>2 DEF Fits, FeeJob, JobRow, Ops, FeeOps
  <2> QED  BY <1>1, <2>1, NewJobs
<1>5. JobsFit' /\ job' \in [Workers -> JobRow]
  BY <1>3, <1>4, FinishFits, JobStep
<1> QED
  BY <1>5 DEF BeginRefund, WalletInv, TypeOK, WalletInSync, PendingUntouched,
              money, loadRows, requestRows, truckRows

\* The refund's transaction finds the platform's balance sufficient.
LEMMA CheckRefundPreserves ==
  ASSUME WalletInv, NEW w \in Workers, CheckRefund(w)
  PROVE  WalletInv'
<1>1. /\ job[w].row \in Loads
      /\ job[w].amount \in [Parties -> Nat]
      /\ job[w].parties \in SUBSET Parties
  BY DEF CheckRefund, WalletInv, TypeOK, JobsFit, JobRow, FeeOps
<1>2. Fits(FeeJob("refundChecked", job[w].row, job[w].amount, job[w].parties))
  BY <1>1 DEF Fits, FeeJob, JobRow, Ops, FeeOps
<1>3. JobsFit' /\ job' \in [Workers -> JobRow]
  BY <1>2, JobStep DEF CheckRefund, Continue
<1> QED
  BY <1>3 DEF CheckRefund, WalletInv, TypeOK, WalletInSync, PendingUntouched,
              money, loadRows, requestRows, truckRows

\* The refund moves from the platform to the wallets that were found.
LEMMA CommitRefundPreserves ==
  ASSUME WalletInv, NEW w \in Workers, CommitRefund(w)
  PROVE  WalletInv'
<1> DEFINE l == job[w].row
           change == [a \in Accounts |-> IF a = Platform THEN -Total(job[w].amount)
                                                         ELSE Share(l, Paid(w), a)]
<1>1. l \in Loads /\ Paid(w) \in [Parties -> Nat] /\ job[w].amount \in [Parties -> Nat]
  BY PaidType DEF CommitRefund, WalletInv, JobsFit, FeeOps
<1>2. change \in [Accounts -> Int]
  BY <1>1, ShareType
<1>3. WriteLines(change) /\ Increment(change)
  BY DEF CommitRefund
<1> HIDE DEF change
<1>4. WalletInSync' /\ balance' \in [Accounts -> Int] /\ journal' \in [Accounts -> Int]
  BY <1>2, <1>3, SameLines
<1>5. JobsFit' /\ job' \in [Workers -> JobRow]
  BY FinishFits DEF CommitRefund
<1>6. feeStatus' \in [Loads -> [Parties -> FeeStatuses]]
  BY <1>1 DEF CommitRefund, WalletInv, TypeOK, FeeStatuses
<1>7. feePaid' \in [Loads -> [Parties -> Int]]
  BY <1>1 DEF CommitRefund, WalletInv, TypeOK
<1> QED
  BY <1>4, <1>5, <1>6, <1>7 DEF CommitRefund, WalletInv, TypeOK, PendingUntouched,
                                requestRows, truckRows

-----------------------------------------------------------------------------
(* Deposits and withdrawals *)

\* A line on one account is an entry.
LEMMA OnType ==
  ASSUME NEW a, NEW n \in Int
  PROVE  On(a, n) \in [Accounts -> Int]
BY DEF On

\* An owner asks, or an administrator tops up: a row that was not there yet.
LEMMA OwnerPreserves ==
  ASSUME WalletInv, WalletsAssumption, WalletOwnerStep
  PROVE  WalletInv'
<1>1. PICK a \in Wallets, n \in Amounts :
        \/ \E d \in Deposits : RequestDeposit(d, a, n) \/ TopUp(d, a, n)
        \/ \E q \in Withdrawals : RequestWithdrawal(q, a, n)
  BY DEF WalletOwnerStep
<1>2. ASSUME NEW d \in Deposits, RequestDeposit(d, a, n)
      PROVE  WalletInv'
  <2>1. deposit' \in [Deposits -> Row(DepositStatuses)]
    BY <1>2 DEF RequestDeposit, WalletInv, TypeOK, Row, DepositStatuses
  <2>2. PendingUntouched'
    BY <1>2 DEF RequestDeposit, WalletInv, TypeOK, PendingUntouched
  <2> QED
    BY <1>2, <2>1, <2>2 DEF RequestDeposit, WalletInv, TypeOK, WalletInSync, JobsFit,
                            money, loadRows, truckRows
<1>3. ASSUME NEW d \in Deposits, TopUp(d, a, n)
      PROVE  WalletInv'
  <2>1. deposit' \in [Deposits -> Row(DepositStatuses)]
    BY <1>3 DEF TopUp, WalletInv, TypeOK, Row, DepositStatuses
  <2>2. entries' \in [Deposits \cup Withdrawals -> Int]
    BY <1>3 DEF TopUp, WalletInv, TypeOK
  <2>3. PendingUntouched'
    BY <1>3 DEF TopUp, WalletInv, TypeOK, PendingUntouched, WalletsAssumption
  <2>4. WalletInSync' /\ balance' \in [Accounts -> Int] /\ journal' \in [Accounts -> Int]
    <3>1. n \in Int
      BY DEF WalletsAssumption
    <3> QED  BY <1>3, <3>1, OnType, SameLines DEF TopUp
  <2> QED
    BY <1>3, <2>1, <2>2, <2>3, <2>4 DEF TopUp, WalletInv, TypeOK, JobsFit,
                                        loadRows, truckRows
<1>4. ASSUME NEW q \in Withdrawals, RequestWithdrawal(q, a, n)
      PROVE  WalletInv'
  <2>1. withdrawal' \in [Withdrawals -> Row(WithdrawalStatuses)]
    BY <1>4 DEF RequestWithdrawal, WalletInv, TypeOK, Row, WithdrawalStatuses
  <2>2. PendingUntouched'
    BY <1>4 DEF RequestWithdrawal, WalletInv, TypeOK, PendingUntouched
  <2> QED
    BY <1>4, <2>1, <2>2 DEF RequestWithdrawal, WalletInv, TypeOK, WalletInSync, JobsFit,
                            money, loadRows, truckRows
<1> QED  BY <1>1, <1>2, <1>3, <1>4

\* A waiver, or an administrator who takes up a request, has read; nothing moves.
LEMMA BeginPreserves ==
  ASSUME WalletInv, NEW w \in Workers,
         \/ \E l \in Loads : BeginWaive(w, l)
         \/ \E d \in Deposits : BeginApproveDeposit(w, d) \/ BeginRejectDeposit(w, d)
         \/ \E q \in Withdrawals : BeginApprove(w, q) \/ BeginReject(w, q)
  PROVE  WalletInv'
<1>1. PICK op, row : Fits(Job(op, row)) /\ job' = [job EXCEPT ![w] = Job(op, row)]
  <2>1. CASE \E l \in Loads : BeginWaive(w, l)
    BY <2>1, NewJobs DEF BeginWaive, Start
  <2>2. CASE \E d \in Deposits : BeginApproveDeposit(w, d) \/ BeginRejectDeposit(w, d)
    BY <2>2, NewJobs DEF BeginApproveDeposit, BeginRejectDeposit, BeginDeposit, Start
  <2>3. CASE \E q \in Withdrawals : BeginApprove(w, q) \/ BeginReject(w, q)
    BY <2>3, NewJobs DEF BeginApprove, BeginReject, BeginDecide, Start
  <2> QED  BY <2>1, <2>2, <2>3
<1>2. JobsFit' /\ job' \in [Workers -> JobRow]
  BY <1>1, JobStep
<1>3. UNCHANGED <<money, loadRows, requestRows, truckRows>>
  BY DEF BeginWaive, BeginApproveDeposit, BeginRejectDeposit, BeginDeposit,
         BeginApprove, BeginReject, BeginDecide
<1> QED
  BY <1>2, <1>3 DEF WalletInv, TypeOK, WalletInSync, PendingUntouched,
                    money, loadRows, requestRows, truckRows

\* Amounts of rows are numbers.
LEMMA RowType ==
  ASSUME WalletInv, WalletsAssumption
  PROVE  /\ \A d \in Deposits : deposit[d].amount \in Int
         /\ \A q \in Withdrawals : withdrawal[q].amount \in Int
<1>1. Amounts \cup {0} \subseteq Int
  BY DEF WalletsAssumption
<1>2. \A d \in Deposits : deposit[d].amount \in Amounts \cup {0}
  BY DEF WalletInv, TypeOK, Row
<1>3. \A q \in Withdrawals : withdrawal[q].amount \in Amounts \cup {0}
  BY DEF WalletInv, TypeOK, Row
<1> QED  BY <1>1, <1>2, <1>3

\* A deposit is confirmed and credited, whatever it was.
LEMMA ApproveDepositPreserves ==
  ASSUME WalletInv, WalletsAssumption, NEW w \in Workers, CommitApproveDeposit(w)
  PROVE  WalletInv'
<1> DEFINE d == job[w].row
<1>1. d \in Deposits /\ d \notin Withdrawals
  BY DEF CommitApproveDeposit, WalletInv, JobsFit, WalletsAssumption
<1>2. WalletInSync' /\ balance' \in [Accounts -> Int] /\ journal' \in [Accounts -> Int]
  <2>1. On(deposit[d].wallet, deposit[d].amount) \in [Accounts -> Int]
    BY <1>1, RowType, OnType
  <2> QED  BY <2>1, SameLines DEF CommitApproveDeposit
<1>3. deposit' \in [Deposits -> Row(DepositStatuses)]
  BY <1>1 DEF CommitApproveDeposit, WalletInv, TypeOK, Row, DepositStatuses
<1>4. entries' \in [Deposits \cup Withdrawals -> Int]
  BY <1>1 DEF CommitApproveDeposit, WalletInv, TypeOK
<1>5. PendingUntouched'
  BY <1>1 DEF CommitApproveDeposit, WalletInv, TypeOK, PendingUntouched, Row
<1>6. JobsFit' /\ job' \in [Workers -> JobRow]
  BY FinishFits DEF CommitApproveDeposit
<1> QED
  BY <1>2, <1>3, <1>4, <1>5, <1>6 DEF CommitApproveDeposit, WalletInv, TypeOK,
                                      loadRows, truckRows

\* A deposit is rejected, whatever it was.
LEMMA RejectDepositPreserves ==
  ASSUME WalletInv, NEW w \in Workers, CommitRejectDeposit(w)
  PROVE  WalletInv'
<1>1. job[w].row \in Deposits
  BY DEF CommitRejectDeposit, WalletInv, JobsFit
<1>2. deposit' \in [Deposits -> Row(DepositStatuses)]
  BY <1>1 DEF CommitRejectDeposit, WalletInv, TypeOK, Row, DepositStatuses
<1>3. PendingUntouched'
  BY <1>1 DEF CommitRejectDeposit, WalletInv, TypeOK, PendingUntouched, Row
<1>4. JobsFit' /\ job' \in [Workers -> JobRow]
  BY FinishFits DEF CommitRejectDeposit
<1> QED
  BY <1>2, <1>3, <1>4 DEF CommitRejectDeposit, WalletInv, TypeOK, WalletInSync,
                          money, loadRows, truckRows

\* The approval finds the balance sufficient.
LEMMA CheckApprovePreserves ==
  ASSUME WalletInv, NEW w \in Workers, CheckApprove(w)
  PROVE  WalletInv'
<1>1. job[w].row \in Withdrawals
  BY DEF CheckApprove, WalletInv, JobsFit
<1>2. Fits(Job("approveChecked", job[w].row))
  BY <1>1, NewJobs
<1>3. JobsFit' /\ job' \in [Workers -> JobRow]
  BY <1>2, JobStep DEF CheckApprove, Continue
<1> QED
  BY <1>3 DEF CheckApprove, WalletInv, TypeOK, WalletInSync, PendingUntouched,
              money, loadRows, requestRows, truckRows

\* A withdrawal is debited or, as a rejection, credited; either decides it.
LEMMA DecidePreserves ==
  ASSUME WalletInv, WalletsAssumption, NEW w \in Workers,
         CommitApprove(w) \/ CommitReject(w)
  PROVE  WalletInv'
<1> DEFINE q == job[w].row
<1>1. q \in Withdrawals /\ q \notin Deposits
  BY DEF CommitApprove, CommitReject, WalletInv, JobsFit, WalletsAssumption
<1>2. PICK n \in Int : /\ WriteLines(On(withdrawal[q].wallet, n))
                       /\ Increment(On(withdrawal[q].wallet, n))
  <2>1. withdrawal[q].amount \in Int /\ -withdrawal[q].amount \in Int
    BY <1>1, RowType
  <2>2. CASE CommitApprove(w)
    BY <2>1, <2>2 DEF CommitApprove
  <2>3. CASE CommitReject(w)
    BY <2>1, <2>3 DEF CommitReject
  <2> QED  BY <2>2, <2>3
<1>3. WalletInSync' /\ balance' \in [Accounts -> Int] /\ journal' \in [Accounts -> Int]
  BY <1>2, OnType, SameLines
<1>4. PICK s \in {"APPROVED", "REJECTED"} : withdrawal' = [withdrawal EXCEPT ![q].status = s]
  BY DEF CommitApprove, CommitReject
<1>5. withdrawal' \in [Withdrawals -> Row(WithdrawalStatuses)]
  BY <1>1, <1>4 DEF WalletInv, TypeOK, Row, WithdrawalStatuses
<1>6. PICK m \in Int : entries' = [entries EXCEPT ![q] = m]
  <2>1. entries[q] + 1 \in Int /\ entries[q] - 1 \in Int
    BY <1>1 DEF WalletInv, TypeOK
  <2>2. CASE CommitApprove(w)
    BY <2>1, <2>2 DEF CommitApprove
  <2>3. CASE CommitReject(w)
    BY <2>1, <2>3 DEF CommitReject
  <2> QED  BY <2>2, <2>3
<1>7. entries' \in [Deposits \cup Withdrawals -> Int]
  BY <1>1, <1>6 DEF WalletInv, TypeOK
<1>8. UNCHANGED <<loadRows, deposit, truckRows>>
  BY DEF CommitApprove, CommitReject
<1>9. PendingUntouched'
  BY <1>1, <1>4, <1>6, <1>8 DEF WalletInv, TypeOK, PendingUntouched, Row
<1>10. JobsFit' /\ job' \in [Workers -> JobRow]
  BY FinishFits DEF CommitApprove, CommitReject
<1> QED
  BY <1>3, <1>5, <1>7, <1>8, <1>9, <1>10 DEF WalletInv, TypeOK, loadRows, truckRows

-----------------------------------------------------------------------------
\* A load is booked, delivered or loses its truck.
LEMMA LoadStepPreserves ==
  ASSUME WalletInv, WalletsAssumption, LoadStep
  PROVE  WalletInv'
<1>1. PICK l \in Loads : Book(l) \/ TruckTaken(l) \/ Deliver(l)
  BY DEF LoadStep
<1>2. UNCHANGED <<money, loadRows, requestRows, job>>
  BY <1>1 DEF Book, TruckTaken, Deliver
<1>3. hasTruck' \in [Loads -> BOOLEAN] /\ delivered' \in [Loads -> BOOLEAN]
  BY <1>1 DEF Book, TruckTaken, Deliver, WalletInv, TypeOK
<1>4. trips' \in [Loads -> 0 .. MaxTrips]
  <2>1. CASE Book(l)
    <3>1. trips[l] + 1 \in 0 .. MaxTrips
      BY <2>1 DEF Book, WalletInv, TypeOK, WalletsAssumption
    <3> QED  BY <2>1, <3>1 DEF Book, WalletInv, TypeOK
  <2>2. CASE TruckTaken(l) \/ Deliver(l)
    BY <2>2 DEF TruckTaken, Deliver, WalletInv, TypeOK
  <2> QED  BY <1>1, <2>1, <2>2
<1> QED
  BY <1>2, <1>3, <1>4 DEF WalletInv, TypeOK, WalletInSync, PendingUntouched, JobsFit,
                          money, loadRows, requestRows

\* A handler that fails leaves no trace.
LEMMA AbortPreserves ==
  ASSUME WalletInv, NEW w \in Workers, Abort(w)
  PROVE  WalletInv'
<1>1. JobsFit' /\ job' \in [Workers -> JobRow]
  BY FinishFits DEF Abort
<1> QED
  BY <1>1 DEF Abort, WalletInv, TypeOK, WalletInSync, PendingUntouched,
              money, loadRows, requestRows, truckRows

\* Empty accounts, nothing requested, nothing running.
LEMMA InitWallets ==
  ASSUME WalletsAssumption, Init
  PROVE  WalletInv
<1>1. JobsFit /\ job \in [Workers -> JobRow]
  BY NewJobs DEF Init, JobsFit, Fits, Idle, Job, FeeJob, FeeOps
<1>2. feePaid \in [Loads -> [Parties -> Int]] /\ fee \in [Loads -> [Parties -> Nat]]
  BY DEF Init, Nothing
<1>3. /\ deposit \in [Deposits -> Row(DepositStatuses)]
      /\ withdrawal \in [Withdrawals -> Row(WithdrawalStatuses)]
  BY DEF Init, NoRow, Row
<1> QED
  BY <1>1, <1>2, <1>3 DEF Init, WalletInv, TypeOK, WalletInSync, PendingUntouched,
                          FeeStatuses, WalletsAssumption

\* No step of the specification breaks the invariant.
LEMMA WalletsStep ==
  ASSUME WalletsAssumption, WalletInv, [Next]_vars
  PROVE  WalletInv'
<1>1. CASE \E w \in Workers : FeeStep(w)
  BY <1>1, BeginDeductPreserves, CommitDeductPreserves, WaivePreserves, BeginPreserves,
     CancelLoadPreserves, BeginRefundPreserves, CheckRefundPreserves,
     CommitRefundPreserves DEF FeeStep
<1>2. CASE \E w \in Workers : AdminStep(w)
  BY <1>2, BeginPreserves, ApproveDepositPreserves, RejectDepositPreserves,
     CheckApprovePreserves, DecidePreserves DEF AdminStep
<1>3. CASE \E w \in Workers : Abort(w)
  BY <1>3, AbortPreserves
<1>4. CASE WalletOwnerStep
  BY <1>4, OwnerPreserves
<1>5. CASE LoadStep
  BY <1>5, LoadStepPreserves
<1>6. CASE UNCHANGED vars
  BY <1>6 DEF vars, WalletInv, TypeOK, WalletInSync, PendingUntouched, JobsFit,
              money, loadRows, requestRows, truckRows
<1> QED  BY <1>1, <1>2, <1>3, <1>4, <1>5, <1>6 DEF Next

\* The invariant of the money: rows have their types, every balance is what its
\* journal lines come to, and nothing is entered for an undecided request.
THEOREM WalletInvariant == Spec => []WalletInv
<1>1. Init => WalletInv
  BY InitWallets, WalletsAssumption
<1>2. WalletInv /\ [Next]_vars => WalletInv'
  BY WalletsStep, WalletsAssumption
<1> QED  BY <1>1, <1>2, PTL DEF Spec

\* reconcileWallet never finds a drift, whichever handlers run beside each other.
THEOREM WalletsInSync == Spec => []WalletInSync
<1>1. WalletInv => WalletInSync
  BY DEF WalletInv
<1> QED  BY <1>1, WalletInvariant, PTL

\* Money moves for a deposit or a withdrawal only with a decision, and a decided
\* row never returns to PENDING with its entry left behind.
THEOREM OnlyDecidedMoves == Spec => []PendingUntouched
<1>1. WalletInv => PendingUntouched
  BY DEF WalletInv
<1> QED  BY <1>1, WalletInvariant, PTL

\* Every table holds rows of its type.
THEOREM WalletTypes == Spec => []TypeOK
<1>1. WalletInv => TypeOK
  BY DEF WalletInv
<1> QED  BY <1>1, WalletInvariant, PTL

-----------------------------------------------------------------------------
(* How far an account may be overdrawn *)

\* What a worker that has found the balance of account a sufficient will take from it.
Debit(w, a) ==
  CASE job[w].op = "deductChecked" /\ a # Platform -> Share(job[w].row, Paid(w), a)
    [] job[w].op = "refundChecked" /\ a = Platform -> Total(job[w].amount)
    [] job[w].op = "approveChecked" /\ a = withdrawal[job[w].row].wallet
         -> withdrawal[job[w].row].amount
    [] OTHER -> 0

Checked == {"deductChecked", "refundChecked", "approveChecked"}

Debts(a) == [w \in Workers |-> Debit(w, a)]

\* The workers with a debt.
Owing(debts) == {w \in Workers : debts[w] > 0}

\* A balance is within the bound, and when there are workers with a debt, it will
\* be within a smaller one after the last of them to have looked at it has paid.
Within(b, debts, largest) ==
  /\ b >= -(Cardinality(Workers) - 1) * largest
  /\ Owing(debts) # {} =>
       \E w \in Owing(debts) :
         b - debts[w] >= -(Cardinality(Workers) - Cardinality(Owing(debts))) * largest

\* Multiples of a natural number.
LEMMA Multiples ==
  ASSUME NEW i \in Nat, NEW j \in Nat, i <= j, NEW m \in Nat
  PROVE  /\ i * m \in Nat
         /\ (i + 1) * m = i * m + m
         /\ i * m <= j * m
<1>1. i * m \in Nat /\ (i + 1) * m = i * m + m
  OBVIOUS
<1>2. PICK k \in Nat : j = i + k
  <2>1. j - i \in Nat /\ j = i + (j - i)
    OBVIOUS
  <2> QED
    BY <2>1
<1>3. k * m \in Nat /\ (i + k) * m = i * m + k * m
  OBVIOUS
<1> QED
  BY <1>1, <1>2, <1>3

\* The bounds with one debt more and one less.
LEMMA Bounds ==
  ASSUME NEW all \in Nat, NEW k \in Nat, 1 <= k, k <= all, NEW m \in Nat
  PROVE  \E f \in Nat : /\ -(all - k) * m = -f
                        /\ -(all - (k - 1)) * m = -(f + m)
                        /\ f <= (all - 1) * m
                        /\ k >= 2 => f + m <= (all - 1) * m
                        /\ (all - 1) * m \in Nat
                        /\ -(all - 1) * m = -((all - 1) * m)
<1>1. PICK i \in Nat, j \in Nat :
        /\ i = all - k /\ j = all - 1 /\ i <= j
        /\ all - (k - 1) = i + 1
        /\ k >= 2 => i + 1 <= j
  <2>1. all - k \in Nat /\ all - 1 \in Nat
    OBVIOUS
  <2> QED
    BY <2>1
<1>2. i * m \in Nat /\ j * m \in Nat /\ i * m <= j * m /\ (i + 1) * m = i * m + m
  BY <1>1, Multiples
<1>3. k >= 2 => i * m + m <= j * m
  <2>1. i + 1 \in Nat
    OBVIOUS
  <2>2. i + 1 <= j => (i + 1) * m <= j * m
    BY <2>1, Multiples
  <2> QED
    BY <1>1, <1>2, <2>2
<1>4. -i * m = -(i * m) /\ -j * m = -(j * m) /\ -(i + 1) * m = -(i * m + m)
  BY <1>2
<1> QED
  BY <1>1, <1>2, <1>3, <1>4

\* How many workers there are, and how many of them have a debt.
LEMMA HowMany ==
  ASSUME NEW debts
  PROVE  /\ Cardinality(Workers) \in Nat \ {0}
         /\ IsFiniteSet(Owing(debts))
         /\ Cardinality(Owing(debts)) \in Nat
         /\ Cardinality(Owing(debts)) <= Cardinality(Workers)
         /\ Owing(debts) # {} => Cardinality(Owing(debts)) >= 1
<1>1. IsFiniteSet(Workers) /\ Workers # {}
  BY DebitsAssumption
<1>2. Owing(debts) \subseteq Workers
  BY DEF Owing
<1>3. IsFiniteSet(Owing(debts)) /\ Cardinality(Owing(debts)) <= Cardinality(Workers)
  BY <1>1, <1>2, FS_Subset
<1>4. /\ Cardinality(Workers) \in Nat /\ Cardinality(Owing(debts)) \in Nat
      /\ Cardinality(Workers) = 0 <=> Workers = {}
      /\ Cardinality(Owing(debts)) = 0 <=> Owing(debts) = {}
  BY <1>1, <1>3, FS_CardinalityType, FS_EmptySet
<1> QED
  BY <1>1, <1>3, <1>4

\* A worker that finds the balance sufficient.
LEMMA Checks ==
  ASSUME NEW m \in Nat, NEW b \in Int, NEW debts \in [Workers -> 0 .. m], NEW v \in Workers,
         NEW n \in 1 .. m, b >= n, Within(b, debts, m)
  PROVE  Within(b, [debts EXCEPT ![v] = n], m)
<1> DEFINE new == [debts EXCEPT ![v] = n]
           c == Cardinality(Owing(new))
<1>1. v \in Owing(new) /\ new[v] = n
  BY DEF Owing
<1>2. c \in Nat /\ Cardinality(Workers) \in Nat /\ c <= Cardinality(Workers)
  BY HowMany
<1>3. (Cardinality(Workers) - c) * m \in Nat
  <2>1. Cardinality(Workers) - c \in Nat
    BY <1>2
  <2> QED
    BY <2>1, Multiples
<1>4. b - new[v] >= -(Cardinality(Workers) - c) * m
  BY <1>1, <1>2, <1>3
<1> QED
  BY <1>1, <1>4 DEF Within

\* A larger balance is within the same bound.
LEMMA MoreIsWithin ==
  ASSUME NEW m \in Nat, NEW b \in Int, NEW debts \in [Workers -> 0 .. m],
         NEW c \in Int, c >= b, Within(b, debts, m)
  PROVE  Within(c, debts, m)
<1>1. /\ Cardinality(Workers) \in Nat \ {0} /\ Cardinality(Owing(debts)) \in Nat
      /\ Cardinality(Owing(debts)) <= Cardinality(Workers)
  BY HowMany
<1>2. /\ (Cardinality(Workers) - 1) * m \in Nat
      /\ (Cardinality(Workers) - Cardinality(Owing(debts))) * m \in Nat
  <2>1. /\ Cardinality(Workers) - 1 \in Nat
        /\ Cardinality(Workers) - Cardinality(Owing(debts)) \in Nat
    BY <1>1
  <2> QED
    BY <2>1, Multiples
<1>3. \A w \in Owing(debts) : debts[w] \in Int
  BY DEF Owing
<1>4. c >= -(Cardinality(Workers) - 1) * m
  BY <1>1, <1>2 DEF Within
<1>5. ASSUME Owing(debts) # {}
      PROVE  \E w \in Owing(debts) :
               c - debts[w] >= -(Cardinality(Workers) - Cardinality(Owing(debts))) * m
  <2>1. PICK w \in Owing(debts) :
          b - debts[w] >= -(Cardinality(Workers) - Cardinality(Owing(debts))) * m
    BY <1>5 DEF Within
  <2>2. c - debts[w] >= -(Cardinality(Workers) - Cardinality(Owing(debts))) * m
    BY <1>1, <1>2, <1>3, <2>1
  <2> QED
    BY <2>2
<1> QED
  BY <1>4, <1>5 DEF Within

\* A worker that pays its debt, or gives it up.
LEMMA Pays ==
  ASSUME NEW m \in Nat, NEW b \in Int, NEW debts \in [Workers -> 0 .. m], NEW v \in Workers,
         NEW c \in Int, c >= b - debts[v], Within(b, debts, m)
  PROVE  Within(c, [debts EXCEPT ![v] = 0], m)
<1> DEFINE new == [debts EXCEPT ![v] = 0]
           all == Cardinality(Workers)
           k == Cardinality(Owing(debts))
<1>1. CASE debts[v] = 0
  <2>1. new = debts /\ c >= b
    BY <1>1
  <2> QED
    BY <2>1, MoreIsWithin
<1>2. CASE debts[v] # 0
  <2>1. v \in Owing(debts) /\ Owing(new) = Owing(debts) \ {v}
    BY <1>2 DEF Owing
  <2>2. Cardinality(Owing(new)) = k - 1
    BY <2>1, HowMany, FS_RemoveElement
  <2>3. all \in Nat /\ k \in Nat /\ 1 <= k /\ k <= all
    BY <2>1, HowMany
  <2>4. PICK w \in Owing(debts) : b - debts[w] >= -(all - k) * m
    BY <2>1 DEF Within
  <2>5. PICK f \in Nat : /\ -(all - k) * m = -f
                         /\ -(all - (k - 1)) * m = -(f + m)
                         /\ f <= (all - 1) * m
                         /\ k >= 2 => f + m <= (all - 1) * m
                         /\ (all - 1) * m \in Nat
                         /\ -(all - 1) * m = -((all - 1) * m)
    BY <2>3, Bounds
  <2>8. b - debts[w] >= -f
    BY <2>4, <2>5
  <2>9. debts[w] \in 0 .. m /\ debts[v] \in 0 .. m
    BY DEF Owing
  <2>10. c >= -((all - 1) * m)
    <3>1. CASE w = v
      BY <3>1, <2>5, <2>8, <2>9
    <3>2. CASE w # v
      <4>1. w \in Owing(new)
        BY <2>1, <3>2
      <4>2. k >= 2
        BY <4>1, <2>2, <2>3, HowMany
      <4> QED
        BY <4>2, <2>5, <2>8, <2>9
    <3> QED  BY <3>1, <3>2
  <2>11. ASSUME Owing(new) # {}
         PROVE  \E u \in Owing(new) : c - new[u] >= -(f + m)
    <3>1. CASE w = v
      <4>1. PICK u \in Owing(new) : TRUE
        BY <2>11
      <4>2. new[u] \in 0 .. m
        BY DEF Owing
      <4>3. c - new[u] >= -(f + m)
        BY <3>1, <4>2, <2>5, <2>8, <2>9
      <4> QED
        BY <4>3
    <3>2. CASE w # v
      <4>1. w \in Owing(new) /\ new[w] = debts[w]
        BY <2>1, <3>2 DEF Owing
      <4>2. c - new[w] >= -(f + m)
        BY <4>1, <2>5, <2>8, <2>9
      <4> QED
        BY <4>1, <4>2
    <3> QED  BY <3>1, <3>2
  <2>12. c >= -(all - 1) * m
    BY <2>5, <2>10
  <2>13. -(all - Cardinality(Owing(new))) * m = -(f + m)
    <3> HIDE DEF all, new, k
    <3> QED
      BY <2>2, <2>5
  <2>14. Within(c, new, m)
    <3> HIDE DEF new, k
    <3>1. Owing(new) # {} => \E u \in Owing(new) :
                               c - new[u] >= -(all - Cardinality(Owing(new))) * m
      BY <2>11, <2>13
    <3> QED
      BY <3>1, <2>12 DEF Within
  <2> QED
    BY <2>14
<1> QED
  BY <1>1, <1>2

-----------------------------------------------------------------------------
\* Fees, and what handlers are about to take or give, are not larger than the
\* largest fee.
FeesSmall ==
  /\ \A l \in Loads, p \in Parties : fee[l][p] <= Max(Fees)
  /\ \A w \in Workers, p \in Parties : job[w].amount[p] <= Max(Fees)

\* A withdrawal that is being decided was asked for.
Asked(q) == withdrawal[q].status # "NONE" /\ withdrawal[q].wallet \in Wallets

DecidedAsked ==
  /\ \A w \in Workers : job[w].op \in {"approve", "approveChecked", "reject"} => Asked(job[w].row)
  /\ \A q \in Withdrawals : withdrawal[q].status # "NONE" => Asked(q)

SolvencyInv ==
  /\ FeesSmall
  /\ DecidedAsked
  /\ \A a \in Accounts : Within(balance[a], Debts(a), LargestDebit(a))

\* The largest fee and the largest debit.
LEMMA Largest ==
  /\ Max(Fees) \in Nat
  /\ \A n \in Fees : n <= Max(Fees)
  /\ \A a \in Accounts : LargestDebit(a) \in Nat
  /\ LargestDebit(Platform) = 2 * Max(Fees)
  /\ \A a \in Wallets : /\ Max(Fees) <= LargestDebit(a)
                        /\ \A n \in Amounts : n <= LargestDebit(a)
<1>1. Max(Fees) \in Fees /\ \A n \in Fees : Max(Fees) >= n
  <2>1. Fees \subseteq Nat
    BY WalletsAssumption
  <2>2. \E m \in Fees : \A n \in Fees : m >= n
    BY <2>1, DebitsAssumption
  <2> QED
    BY <2>2 DEF Max
<1>2. Fees \cup Amounts \subseteq Nat
  BY WalletsAssumption
<1>3. /\ Max(Fees \cup Amounts) \in Fees \cup Amounts
      /\ \A n \in Fees \cup Amounts : Max(Fees \cup Amounts) >= n
  <2>1. \E m \in Fees \cup Amounts : \A n \in Fees \cup Amounts : m >= n
    BY <1>2, DebitsAssumption
  <2> QED
    BY <2>1 DEF Max
<1>4. /\ Max(Fees) \in Nat
      /\ \A n \in Fees : n <= Max(Fees)
      /\ Max(Fees \cup Amounts) \in Nat
      /\ \A n \in Fees \cup Amounts : n <= Max(Fees \cup Amounts)
  BY <1>1, <1>2, <1>3
<1>5. 2 * Max(Fees) \in Nat
  BY <1>4
<1> QED
  BY <1>1, <1>4, <1>5, WalletsAssumption DEF LargestDebit, Accounts

\* Debts are not larger than that.
LEMMA DebitType ==
  ASSUME WalletInv, FeesSmall, DecidedAsked, NEW w \in Workers, NEW a \in Accounts
  PROVE  Debit(w, a) \in 0 .. LargestDebit(a)
<1>1. /\ LargestDebit(a) \in Nat
      /\ a # Platform => Max(Fees) <= LargestDebit(a) /\ \A n \in Amounts : n <= LargestDebit(a)
      /\ a = Platform => LargestDebit(a) = 2 * Max(Fees)
      /\ Max(Fees) \in Nat
  BY Largest DEF Accounts
<1>2. /\ job[w].amount \in [Parties -> Nat] /\ Paid(w) \in [Parties -> Nat]
      /\ \A p \in Parties : job[w].amount[p] <= Max(Fees) /\ Paid(w)[p] <= Max(Fees)
  BY <1>1, PaidType DEF WalletInv, FeesSmall, Paid
<1>3. CASE job[w].op = "deductChecked" /\ a # Platform
  <2>1. job[w].row \in Loads
    BY <1>3 DEF WalletInv, JobsFit, FeeOps
  <2>2. ShipperOf[job[w].row] # CarrierOf[job[w].row]
    BY <2>1, WalletsAssumption
  <2>3. Share(job[w].row, Paid(w), a) \in {0, Paid(w)["shipper"], Paid(w)["carrier"]}
    BY <1>2, <2>2 DEF Share, Parties
  <2> QED
    BY <1>1, <1>2, <1>3, <2>3 DEF Debit, Parties
<1>4. CASE job[w].op = "refundChecked" /\ a = Platform
  BY <1>1, <1>2, <1>4 DEF Debit, Total, Parties
<1>5. CASE job[w].op = "approveChecked" /\ a = withdrawal[job[w].row].wallet
  <2>1. job[w].row \in Withdrawals /\ a \in Wallets
    BY <1>5 DEF WalletInv, JobsFit, DecidedAsked, Asked
  <2>2. withdrawal[job[w].row].amount \in Amounts \cup {0}
    BY <2>1 DEF WalletInv, TypeOK, Row
  <2>3. a # Platform
    BY <2>1, WalletsAssumption
  <2>4. withdrawal[job[w].row].amount \in 0 .. LargestDebit(a)
    <3>1. \A n \in Amounts : n \in 0 .. LargestDebit(a)
      BY <1>1, <2>3, WalletsAssumption
    <3>2. 0 \in 0 .. LargestDebit(a)
      BY <1>1
    <3> QED
      BY <2>2, <3>1, <3>2
  <2> QED
    BY <1>5, <2>4 DEF Debit
<1>6. CASE Debit(w, a) = 0
  BY <1>1, <1>6
<1> QED
  BY <1>3, <1>4, <1>5, <1>6 DEF Debit

\* A worker that is about to write nothing takes nothing.
LEMMA NoDebit ==
  ASSUME NEW w, job[w].op \notin Checked
  PROVE  \A a : Debit(w, a) = 0
BY DEF Debit, Checked

\* What somebody asked for is not changed any more.
RowsKept == \A q \in Withdrawals : Asked(q) =>
              /\ withdrawal'[q].wallet = withdrawal[q].wallet
              /\ withdrawal'[q].amount = withdrawal[q].amount

\* Other workers owe what they have owed.
LEMMA OwesStill ==
  ASSUME WalletInv, DecidedAsked, RowsKept, NEW w \in Workers, job'[w] = job[w], NEW a
  PROVE  Debit(w, a)' = Debit(w, a)
<1>1. Paid(w)' = Paid(w)
  BY DEF Paid
<1>2. job[w].op = "approveChecked" =>
        /\ withdrawal'[job[w].row].wallet = withdrawal[job[w].row].wallet
        /\ withdrawal'[job[w].row].amount = withdrawal[job[w].row].amount
  BY DEF WalletInv, JobsFit, DecidedAsked, RowsKept
<1> QED
  BY <1>1, <1>2 DEF Debit, Share, Total

\* A step of one worker changes its own debts only.
LEMMA OneOwes ==
  ASSUME WalletInv, DecidedAsked, RowsKept, NEW v \in Workers,
         \A w \in Workers \ {v} : job'[w] = job[w], NEW a
  PROVE  Debts(a)' = [Debts(a) EXCEPT ![v] = Debit(v, a)']
BY OwesStill DEF Debts

\* Every account stays within its bound when a worker pays no more than its debt,
LEMMA EndsWithin ==
  ASSUME WalletInv, SolvencyInv, RowsKept, NEW v \in Workers,
         \A w \in Workers \ {v} : job'[w] = job[w],
         job'[v].op \notin Checked,
         \A a \in Accounts : balance'[a] \in Int /\ balance'[a] >= balance[a] - Debit(v, a)
  PROVE  (\A a \in Accounts : Within(balance[a], Debts(a), LargestDebit(a)))'
<1> SUFFICES ASSUME NEW a \in Accounts
             PROVE  Within(balance'[a], Debts(a)', LargestDebit(a))
  BY DEF LargestDebit, Accounts
<1>1. Debit(v, a)' = 0
  BY DEF Debit, Checked
<1>2. Debts(a)' = [Debts(a) EXCEPT ![v] = 0]
  BY <1>1, OneOwes DEF SolvencyInv
<1>3. Debts(a) \in [Workers -> 0 .. LargestDebit(a)] /\ Debts(a)[v] = Debit(v, a)
  BY DebitType DEF Debts, SolvencyInv
<1>4. balance[a] \in Int /\ LargestDebit(a) \in Nat
  BY Largest DEF WalletInv, TypeOK
<1>5. Within(balance[a], Debts(a), LargestDebit(a))
  BY DEF SolvencyInv
<1>6. balance'[a] \in Int /\ balance'[a] >= balance[a] - Debts(a)[v]
  BY <1>3
<1>7. Within(balance'[a], [Debts(a) EXCEPT ![v] = 0], LargestDebit(a))
  BY <1>3, <1>4, <1>5, <1>6, Pays
<1> QED
  BY <1>2, <1>7

\* when it finds the balance sufficient,
LEMMA ChecksWithin ==
  ASSUME WalletInv, SolvencyInv, RowsKept, NEW v \in Workers,
         \A w \in Workers \ {v} : job'[w] = job[w],
         balance' = balance,
         \A a \in Accounts : /\ Debit(v, a)' \in 0 .. LargestDebit(a)
                             /\ Debit(v, a)' = 0 \/ balance[a] >= Debit(v, a)'
  PROVE  (\A a \in Accounts : Within(balance[a], Debts(a), LargestDebit(a)))'
<1> SUFFICES ASSUME NEW a \in Accounts
             PROVE  Within(balance[a], Debts(a)', LargestDebit(a))
  BY DEF LargestDebit, Accounts
<1> DEFINE n == Debit(v, a)'
<1>1. Debts(a)' = [Debts(a) EXCEPT ![v] = n]
  BY OneOwes DEF SolvencyInv
<1>2. Debts(a) \in [Workers -> 0 .. LargestDebit(a)] /\ Debts(a)[v] = Debit(v, a)
  BY DebitType DEF Debts, SolvencyInv
<1>3. balance[a] \in Int /\ LargestDebit(a) \in Nat /\ n \in 0 .. LargestDebit(a)
  BY Largest DEF WalletInv, TypeOK
<1>4. n = 0 \/ balance[a] >= n
  OBVIOUS
<1>5. Within(balance[a], Debts(a), LargestDebit(a))
  BY DEF SolvencyInv
<1> HIDE DEF n
<1>6. CASE n = 0
  <2>1. balance[a] >= balance[a] - Debts(a)[v]
    BY <1>2, <1>3
  <2>2. Within(balance[a], [Debts(a) EXCEPT ![v] = 0], LargestDebit(a))
    BY <1>2, <1>3, <1>5, <2>1, Pays
  <2> QED
    BY <1>1, <1>6, <2>2
<1>7. CASE n # 0
  <2>1. n \in 1 .. LargestDebit(a)
    BY <1>3, <1>7
  <2>2. Within(balance[a], [Debts(a) EXCEPT ![v] = n], LargestDebit(a))
    BY <1>2, <1>3, <1>4, <1>5, <1>7, <2>1, Checks
  <2> QED
    BY <1>1, <2>2
<1> QED
  BY <1>6, <1>7

\* and when no worker moves.
LEMMA OthersWithin ==
  ASSUME WalletInv, SolvencyInv, RowsKept, job' = job,
         \A a \in Accounts : balance'[a] \in Int /\ balance'[a] >= balance[a]
  PROVE  (\A a \in Accounts : Within(balance[a], Debts(a), LargestDebit(a)))'
<1> SUFFICES ASSUME NEW a \in Accounts
             PROVE  Within(balance'[a], Debts(a)', LargestDebit(a))
  BY DEF LargestDebit, Accounts
<1>1. Debts(a)' = Debts(a)
  BY OwesStill DEF Debts, SolvencyInv
<1>2. Debts(a) \in [Workers -> 0 .. LargestDebit(a)]
  BY DebitType DEF Debts, SolvencyInv
<1>3. balance[a] \in Int /\ LargestDebit(a) \in Nat
  BY Largest DEF WalletInv, TypeOK
<1> QED
  BY <1>1, <1>2, <1>3, MoreIsWithin DEF SolvencyInv

-----------------------------------------------------------------------------
\* Withdrawals keep their owners and amounts, and none is asked for.
NoneAsked == \A q \in Withdrawals :
  /\ withdrawal'[q].wallet = withdrawal[q].wallet
  /\ withdrawal'[q].amount = withdrawal[q].amount
  /\ withdrawal'[q].status = "NONE" <=> withdrawal[q].status = "NONE"

\* A worker takes up a job that is small, and about a withdrawal that was asked for.
LEMMA SmallJob ==
  ASSUME WalletInv, SolvencyInv, NEW v \in Workers, NEW j, job' = [job EXCEPT ![v] = j],
         \A p \in Parties : j.amount[p] <= Max(Fees),
         j.op \in {"approve", "approveChecked", "reject"} => j.row \in Withdrawals /\ Asked(j.row),
         NoneAsked, \A l \in Loads, p \in Parties : fee'[l][p] <= Max(Fees)
  PROVE  /\ FeesSmall' /\ DecidedAsked' /\ RowsKept
         /\ job'[v] = j
         /\ \A w \in Workers \ {v} : job'[w] = job[w]
<1>1. job'[v] = j /\ \A w \in Workers \ {v} : job'[w] = job[w]
  BY DEF WalletInv, TypeOK
<1>2. FeesSmall'
  BY <1>1 DEF SolvencyInv, FeesSmall
<1>3. \A q \in Withdrawals : Asked(q) => Asked(q)'
  BY DEF NoneAsked, Asked
<1>4. RowsKept
  BY DEF RowsKept, NoneAsked
<1>5. \A q \in Withdrawals : withdrawal'[q].status # "NONE" => Asked(q)'
  BY <1>3 DEF NoneAsked, SolvencyInv, DecidedAsked
<1>6. ASSUME NEW w \in Workers, job'[w].op \in {"approve", "approveChecked", "reject"}
      PROVE  Asked(job[w].row)'
  <2>1. CASE w = v
    BY <1>1, <1>3, <1>6, <2>1
  <2>2. CASE w # v
    <3>1. job'[w] = job[w]
      BY <1>1, <2>2
    <3>2. job[w].row \in Withdrawals /\ Asked(job[w].row)
      BY <1>6, <3>1 DEF WalletInv, JobsFit, SolvencyInv, DecidedAsked
    <3>3. Asked(job[w].row) =>
           withdrawal'[job[w].row].status # "NONE" /\ withdrawal'[job[w].row].wallet \in Wallets
      BY <3>2 DEF Asked, NoneAsked
    <3> QED
      BY <3>1, <3>2, <3>3 DEF Asked
  <2> QED
    BY <2>1, <2>2
<1>7. DecidedAsked'
  BY <1>5, <1>6 DEF DecidedAsked, Asked
<1> QED
  BY <1>1, <1>2, <1>4, <1>7

\* Debts are not negative.
LEMMA DebitNat ==
  ASSUME WalletInv, SolvencyInv, NEW v \in Workers, NEW a \in Accounts
  PROVE  Debit(v, a) \in Nat
BY DebitType, Largest DEF SolvencyInv

\* A worker that reads, or writes and takes no more than its debt.
LEMMA JobSolvent ==
  ASSUME WalletInv, SolvencyInv, NEW v \in Workers, NEW j, job' = [job EXCEPT ![v] = j],
         j.op \notin Checked, \A p \in Parties : j.amount[p] <= Max(Fees),
         j.op \in {"approve", "reject"} => j.row \in Withdrawals /\ Asked(j.row),
         NoneAsked, \A l \in Loads, p \in Parties : fee'[l][p] <= Max(Fees),
         balance' = balance
           \/ \A a \in Accounts : balance'[a] \in Int /\ balance'[a] >= balance[a] - Debit(v, a)
  PROVE  SolvencyInv'
<1>1. /\ FeesSmall' /\ DecidedAsked' /\ RowsKept
      /\ job'[v] = j
      /\ \A w \in Workers \ {v} : job'[w] = job[w]
  BY SmallJob DEF Checked
<1>2. \A a \in Accounts : balance'[a] \in Int /\ balance'[a] >= balance[a] - Debit(v, a)
  BY DebitNat DEF WalletInv, TypeOK
<1>3. (\A a \in Accounts : Within(balance[a], Debts(a), LargestDebit(a)))'
  BY <1>1, <1>2, EndsWithin
<1> QED
  BY <1>1, <1>3 DEF SolvencyInv

\* The jobs of handlers that are not about fees.
LEMMA PlainJobs ==
  ASSUME NEW op, NEW row
  PROVE  /\ \A p \in Parties : Job(op, row).amount[p] <= Max(Fees)
         /\ Job(op, row).op = op /\ Job(op, row).row = row
BY Largest DEF Job, FeeJob, Nothing

\* A handler ends.
LEMMA FinishSolvent ==
  ASSUME WalletInv, SolvencyInv, NEW v \in Workers, Finish(v), NoneAsked,
         \A l \in Loads, p \in Parties : fee'[l][p] <= Max(Fees),
         balance' = balance
           \/ \A a \in Accounts : balance'[a] \in Int /\ balance'[a] >= balance[a] - Debit(v, a)
  PROVE  SolvencyInv'
<1>1. job' = [job EXCEPT ![v] = Idle] /\ Idle.op = "idle"
      /\ \A p \in Parties : Idle.amount[p] <= Max(Fees)
  BY PlainJobs DEF Finish, Idle
<1> QED
  BY <1>1, JobSolvent DEF Checked

\* A handler takes up a job, or fails.
LEMMA BeginSolvent ==
  ASSUME WalletInv, SolvencyInv, NEW v \in Workers,
         \/ \E l \in Loads : BeginDeduct(v, l) \/ BeginWaive(v, l) \/ CancelLoad(v, l)
         \/ \E d \in Deposits : BeginApproveDeposit(v, d) \/ BeginRejectDeposit(v, d)
         \/ \E q \in Withdrawals : BeginApprove(v, q) \/ BeginReject(v, q)
         \/ Abort(v)
  PROVE  SolvencyInv'
<1>1. UNCHANGED <<balance, fee, withdrawal>>
  BY DEF BeginDeduct, BeginWaive, CancelLoad, BeginApproveDeposit, BeginRejectDeposit,
         BeginDeposit, BeginApprove, BeginReject, BeginDecide, Abort, money, loadRows,
         requestRows
<1>2. NoneAsked /\ \A l \in Loads, p \in Parties : fee'[l][p] <= Max(Fees)
  BY <1>1 DEF NoneAsked, SolvencyInv, FeesSmall
<1>3. ASSUME NEW l \in Loads, BeginDeduct(v, l) PROVE SolvencyInv'
  <2>. PICK amount \in [Parties -> Fees] : \E parties :
          job' = [job EXCEPT ![v] = FeeJob("deduct", l, amount, parties)]
    BY <1>3 DEF BeginDeduct, Start
  <2>1. PICK parties :
          job' = [job EXCEPT ![v] = FeeJob("deduct", l, amount, parties)]
    OBVIOUS
  <2>2. \A p \in Parties : FeeJob("deduct", l, amount, parties).amount[p] <= Max(Fees)
    BY Largest DEF FeeJob
  <2>3. FeeJob("deduct", l, amount, parties).op = "deduct"
    BY DEF FeeJob
  <2> QED
    BY <1>1, <1>2, <2>1, <2>2, <2>3, JobSolvent DEF Checked
<1>4. ASSUME NEW op \in {"waive", "cancelled", "approveDeposit", "rejectDeposit"}, NEW row,
             job' = [job EXCEPT ![v] = Job(op, row)]
      PROVE  SolvencyInv'
  BY <1>1, <1>2, <1>4, PlainJobs, JobSolvent DEF Checked
<1>5. ASSUME NEW q \in Withdrawals, BeginApprove(v, q) \/ BeginReject(v, q) PROVE SolvencyInv'
  <2>1. PICK op \in {"approve", "reject"} : job' = [job EXCEPT ![v] = Job(op, q)]
    BY <1>5 DEF BeginApprove, BeginReject, BeginDecide, Start
  <2>2. Asked(q)
    BY <1>5 DEF BeginApprove, BeginReject, BeginDecide, SolvencyInv, DecidedAsked
  <2>3. /\ Job(op, q).op = op /\ Job(op, q).row = q
        /\ \A p \in Parties : Job(op, q).amount[p] <= Max(Fees)
    BY PlainJobs
  <2>4. op \notin Checked
    BY DEF Checked
  <2> QED
    BY <1>1, <1>2, <2>1, <2>2, <2>3, <2>4, JobSolvent
<1>6. CASE Abort(v)
  BY <1>1, <1>2, <1>6, FinishSolvent DEF Abort
<1> QED
  BY <1>3, <1>4, <1>5, <1>6
     DEF BeginWaive, CancelLoad, BeginApproveDeposit, BeginRejectDeposit, BeginDeposit, Start

\* refundServiceFee is about what the load's fees were.
LEMMA BeginRefundSolvent ==
  ASSUME WalletInv, SolvencyInv, NEW v \in Workers, BeginRefund(v)
  PROVE  SolvencyInv'
<1> DEFINE l == job[v].row
           amount == [p \in Parties |-> IF feeStatus[l][p] = "DEDUCTED" THEN fee[l][p] ELSE 0]
           known == {p \in Parties : p = "carrier" => hasTruck[l]}
<1>1. UNCHANGED <<balance, fee, withdrawal>>
  BY DEF BeginRefund, money, loadRows, requestRows
<1>2. NoneAsked /\ \A k \in Loads, p \in Parties : fee'[k][p] <= Max(Fees)
  BY <1>1 DEF NoneAsked, SolvencyInv, FeesSmall
<1>3. l \in Loads
  BY DEF BeginRefund, WalletInv, JobsFit, FeeOps
<1>4. \A p \in Parties : amount[p] <= Max(Fees)
  BY <1>3, Largest DEF SolvencyInv, FeesSmall
<1>5. \/ Finish(v)
      \/ job' = [job EXCEPT ![v] = Job("refundNothing", l)]
      \/ job' = [job EXCEPT ![v] = FeeJob("refund", l, amount, known)]
  BY DEF BeginRefund, Continue
<1> HIDE DEF amount, known
<1>6. /\ FeeJob("refund", l, amount, known).op = "refund"
      /\ \A p \in Parties : FeeJob("refund", l, amount, known).amount[p] <= Max(Fees)
  BY <1>4 DEF FeeJob
<1> QED
  BY <1>1, <1>2, <1>5, <1>6, PlainJobs, FinishSolvent, JobSolvent DEF Checked

\* Statements that move no money out.
LEMMA CreditSolvent ==
  ASSUME WalletInv, SolvencyInv, NEW v \in Workers,
         \/ CommitWaive(v) \/ CommitRefundNothing(v)
         \/ CommitApproveDeposit(v) \/ CommitRejectDeposit(v) \/ CommitReject(v)
  PROVE  SolvencyInv'
<1>1. \A l \in Loads, p \in Parties : fee'[l][p] <= Max(Fees)
  <2>1. CASE CommitWaive(v)
    <3>1. fee' = [fee EXCEPT ![job[v].row] = Nothing]
      BY <2>1 DEF CommitWaive
    <3> QED
      BY <3>1, Largest DEF Nothing, SolvencyInv, FeesSmall, WalletInv, TypeOK
  <2>2. CASE fee' = fee
    BY <2>2 DEF SolvencyInv, FeesSmall
  <2> QED
    BY <2>1, <2>2 DEF CommitRefundNothing, CommitApproveDeposit, CommitRejectDeposit,
                      CommitReject, loadRows
<1>2. NoneAsked
  <2>1. CASE CommitReject(v)
    <3>1. withdrawal' = [withdrawal EXCEPT ![job[v].row].status = "REJECTED"]
      BY <2>1 DEF CommitReject
    <3>2. job[v].row \in Withdrawals /\ withdrawal[job[v].row].status # "NONE"
      BY <2>1 DEF CommitReject, WalletInv, JobsFit, SolvencyInv, DecidedAsked, Asked
    <3> QED
      BY <3>1, <3>2 DEF NoneAsked, WalletInv, TypeOK, Row
  <2>2. CASE withdrawal' = withdrawal
    BY <2>2 DEF NoneAsked
  <2> QED
    BY <2>1, <2>2 DEF CommitWaive, CommitRefundNothing, CommitApproveDeposit,
                      CommitRejectDeposit, requestRows
<1>3. balance' = balance
        \/ \A a \in Accounts : balance'[a] \in Int /\ balance'[a] >= balance[a] - Debit(v, a)
  <2>1. CASE CommitApproveDeposit(v) \/ CommitReject(v)
    <3>1. PICK n \in Nat : \E a : Increment(On(a, n))
      <4>1. CASE CommitApproveDeposit(v)
        <5>1. deposit[job[v].row].amount \in Amounts \cup {0}
          BY <4>1 DEF CommitApproveDeposit, WalletInv, JobsFit, TypeOK, Row
        <5> QED
          BY <4>1, <5>1, WalletsAssumption DEF CommitApproveDeposit
      <4>2. CASE CommitReject(v)
        <5>1. withdrawal[job[v].row].amount \in Amounts \cup {0}
          BY <4>2 DEF CommitReject, WalletInv, JobsFit, TypeOK, Row
        <5> QED
          BY <4>2, <5>1, WalletsAssumption DEF CommitReject
      <4> QED
        BY <2>1, <4>1, <4>2
    <3>2. \A a : \A b \in Accounts : On(a, n)[b] \in Nat
      BY DEF On
    <3> QED
      BY <3>1, <3>2, DebitNat DEF Increment, WalletInv, TypeOK
  <2>2. CASE balance' = balance
    BY <2>2
  <2> QED
    BY <2>1, <2>2 DEF CommitWaive, CommitRefundNothing, CommitRejectDeposit, money
<1>4. Finish(v)
  BY DEF CommitWaive, CommitRefundNothing, CommitApproveDeposit, CommitRejectDeposit,
         CommitReject
<1> QED
  BY <1>1, <1>2, <1>3, <1>4, FinishSolvent

\* The fees are taken as they were checked.
LEMMA CommitDeductSolvent ==
  ASSUME WalletInv, SolvencyInv, NEW v \in Workers, CommitDeduct(v)
  PROVE  SolvencyInv'
<1> DEFINE l == job[v].row
           change == [a \in Accounts |-> IF a = Platform THEN Total(Paid(v))
                                                         ELSE -Share(l, Paid(v), a)]
<1>1. /\ job[v].op = "deductChecked" /\ l \in Loads
      /\ Paid(v) \in [Parties -> Nat]
  BY PaidType DEF CommitDeduct, WalletInv, JobsFit, FeeOps
<1>2. Increment(change) /\ fee' = [fee EXCEPT ![l] = job[v].amount] /\ Finish(v)
      /\ withdrawal' = withdrawal
  BY DEF CommitDeduct, requestRows
<1>3. ASSUME NEW a \in Accounts
      PROVE  change[a] \in Int /\ change[a] >= -Debit(v, a)
  <2>1. Share(l, Paid(v), a) \in Nat /\ Total(Paid(v)) \in Nat
    BY <1>1, ShareType
  <2>2. Debit(v, a) = IF a = Platform THEN 0 ELSE Share(l, Paid(v), a)
    BY <1>1 DEF Debit
  <2> QED
    BY <2>1, <2>2
<1> HIDE DEF change
<1>4. \A a \in Accounts : balance'[a] \in Int /\ balance'[a] >= balance[a] - Debit(v, a)
  BY <1>2, <1>3, DebitNat DEF Increment, WalletInv, TypeOK
<1>5. \A k \in Loads, p \in Parties : fee'[k][p] <= Max(Fees)
  BY <1>1, <1>2 DEF SolvencyInv, FeesSmall, WalletInv, TypeOK
<1>6. NoneAsked
  BY <1>2 DEF NoneAsked
<1> QED
  BY <1>2, <1>4, <1>5, <1>6, FinishSolvent

\* So is the refund,
LEMMA CommitRefundSolvent ==
  ASSUME WalletInv, SolvencyInv, NEW v \in Workers, CommitRefund(v)
  PROVE  SolvencyInv'
<1> DEFINE l == job[v].row
           change == [a \in Accounts |-> IF a = Platform THEN -Total(job[v].amount)
                                                         ELSE Share(l, Paid(v), a)]
<1>1. /\ job[v].op = "refundChecked" /\ l \in Loads
      /\ Paid(v) \in [Parties -> Nat] /\ job[v].amount \in [Parties -> Nat]
  BY PaidType DEF CommitRefund, WalletInv, JobsFit, FeeOps
<1>2. Increment(change) /\ fee' = fee /\ Finish(v) /\ withdrawal' = withdrawal
  BY DEF CommitRefund, requestRows
<1>3. ASSUME NEW a \in Accounts
      PROVE  change[a] \in Int /\ change[a] >= -Debit(v, a)
  <2>1. Share(l, Paid(v), a) \in Nat /\ Total(job[v].amount) \in Nat
    BY <1>1, ShareType
  <2>2. Debit(v, a) = IF a = Platform THEN Total(job[v].amount) ELSE 0
    BY <1>1 DEF Debit
  <2> QED
    BY <2>1, <2>2
<1> HIDE DEF change
<1>4. \A a \in Accounts : balance'[a] \in Int /\ balance'[a] >= balance[a] - Debit(v, a)
  BY <1>2, <1>3, DebitNat DEF Increment, WalletInv, TypeOK
<1>5. \A k \in Loads, p \in Parties : fee'[k][p] <= Max(Fees)
  BY <1>2 DEF SolvencyInv, FeesSmall
<1>6. NoneAsked
  BY <1>2 DEF NoneAsked
<1> QED
  BY <1>2, <1>4, <1>5, <1>6, FinishSolvent

\* and the withdrawal.
LEMMA CommitApproveSolvent ==
  ASSUME WalletInv, SolvencyInv, NEW v \in Workers, CommitApprove(v)
  PROVE  SolvencyInv'
<1> DEFINE q == job[v].row
           change == On(withdrawal[q].wallet, -withdrawal[q].amount)
<1>1. /\ job[v].op = "approveChecked" /\ q \in Withdrawals
      /\ withdrawal[q].amount \in Int /\ withdrawal[q].status # "NONE"
  BY RowType, WalletsAssumption
     DEF CommitApprove, WalletInv, JobsFit, SolvencyInv, DecidedAsked, Asked
<1>2. Increment(change) /\ UNCHANGED fee /\ Finish(v)
      /\ withdrawal' = [withdrawal EXCEPT ![q].status = "APPROVED"]
  BY DEF CommitApprove, loadRows
<1>3. ASSUME NEW a \in Accounts
      PROVE  change[a] \in Int /\ change[a] >= -Debit(v, a)
  <2>1. Debit(v, a) = IF a = withdrawal[q].wallet THEN withdrawal[q].amount ELSE 0
    BY <1>1 DEF Debit
  <2> QED
    BY <1>1, <2>1 DEF On
<1> HIDE DEF change
<1>4. \A a \in Accounts : balance'[a] \in Int /\ balance'[a] >= balance[a] - Debit(v, a)
  BY <1>2, <1>3, DebitNat DEF Increment, WalletInv, TypeOK
<1>5. \A k \in Loads, p \in Parties : fee'[k][p] <= Max(Fees)
  BY <1>2 DEF SolvencyInv, FeesSmall
<1>6. NoneAsked
  BY <1>1, <1>2 DEF NoneAsked, WalletInv, TypeOK, Row
<1> QED
  BY <1>2, <1>4, <1>5, <1>6, FinishSolvent

-----------------------------------------------------------------------------
\* A worker that finds the balances sufficient for what it is about to take.
LEMMA CheckSolvent ==
  ASSUME WalletInv, SolvencyInv, NEW v \in Workers, NEW j, job' = [job EXCEPT ![v] = j],
         \A p \in Parties : j.amount[p] <= Max(Fees),
         j.op = "approveChecked" => j.row \in Withdrawals /\ Asked(j.row),
         j.op \notin {"approve", "reject"},
         UNCHANGED <<balance, fee, withdrawal>>,
         \A a \in Accounts : /\ Debit(v, a)' \in 0 .. LargestDebit(a)
                             /\ Debit(v, a)' = 0 \/ balance[a] >= Debit(v, a)'
  PROVE  SolvencyInv'
<1>1. NoneAsked /\ \A k \in Loads, p \in Parties : fee'[k][p] <= Max(Fees)
  BY DEF NoneAsked, SolvencyInv, FeesSmall
<1>2. /\ FeesSmall' /\ DecidedAsked' /\ RowsKept
      /\ \A w \in Workers \ {v} : job'[w] = job[w]
  BY <1>1, SmallJob
<1>3. (\A a \in Accounts : Within(balance[a], Debts(a), LargestDebit(a)))'
  BY <1>2, ChecksWithin
<1> QED
  BY <1>2, <1>3 DEF SolvencyInv

\* Who pays a fee was found good for it.
LEMMA CheckDeductSolvent ==
  ASSUME WalletInv, SolvencyInv, NEW v \in Workers, CheckDeduct(v)
  PROVE  SolvencyInv'
<1>. PICK l, amount : l = job[v].row /\ amount = job[v].amount
  OBVIOUS
<1> DEFINE paying == {p \in Parties : \/ amount[p] = 0
                                      \/ /\ p \in job[v].parties
                                         /\ balance[WalletOf(l, p)] >= amount[p]}
           j == FeeJob("deductChecked", l, amount, paying)
           paid == [p \in Parties |-> IF p \in paying THEN amount[p] ELSE 0]
<1>1. /\ job' = [job EXCEPT ![v] = j]
      /\ UNCHANGED <<balance, fee, withdrawal>>
  BY DEF CheckDeduct, Continue, money, loadRows, requestRows
<1>2. /\ l \in Loads /\ amount \in [Parties -> Nat]
      /\ \A p \in Parties : amount[p] <= Max(Fees)
  BY PaidType DEF CheckDeduct, WalletInv, JobsFit, FeeOps, SolvencyInv, FeesSmall
<1>3. job'[v] = j
  BY <1>1 DEF WalletInv, TypeOK
<1>4. \A p \in Parties : paid[p] \in Nat /\ paid[p] <= Max(Fees)
                           /\ (paid[p] = 0 \/ balance[WalletOf(l, p)] >= paid[p])
  BY <1>2, Largest
<1>5. Paid(v)' = paid
  BY <1>3 DEF Paid, FeeJob
<1>6. \A a \in Accounts : Debit(v, a)' = IF a = Platform THEN 0 ELSE Share(l, paid, a)
  BY <1>3, <1>5 DEF Debit, FeeJob, Share
<1> HIDE DEF paid
<1>7. ASSUME NEW a \in Accounts
      PROVE  /\ Debit(v, a)' \in 0 .. LargestDebit(a)
             /\ Debit(v, a)' = 0 \/ balance[a] >= Debit(v, a)'
  <2>1. /\ LargestDebit(a) \in Nat
        /\ a # Platform => Max(Fees) <= LargestDebit(a)
        /\ Max(Fees) \in Nat
    BY Largest DEF Accounts
  <2>2. CASE a = Platform
    BY <1>6, <2>1, <2>2
  <2>3. CASE a # Platform
    <3>1. ShipperOf[l] # CarrierOf[l]
      BY <1>2, WalletsAssumption
    <3>2. \/ Share(l, paid, a) = 0
          \/ a = WalletOf(l, "shipper") /\ Share(l, paid, a) = paid["shipper"]
          \/ a = WalletOf(l, "carrier") /\ Share(l, paid, a) = paid["carrier"]
      BY <1>4, <3>1 DEF Share, Parties, WalletOf
    <3>3. \/ Share(l, paid, a) = 0
          \/ /\ Share(l, paid, a) \in Nat /\ Share(l, paid, a) <= Max(Fees)
             /\ Share(l, paid, a) = 0 \/ balance[a] >= Share(l, paid, a)
      BY <1>4, <3>2 DEF Parties
    <3>4. Debit(v, a)' = Share(l, paid, a)
      BY <1>6, <2>3
    <3> QED
      BY <2>1, <2>3, <3>3, <3>4
  <2> QED
    BY <2>2, <2>3
<1>8. j.op = "deductChecked" /\ \A p \in Parties : j.amount[p] <= Max(Fees)
  BY <1>2 DEF FeeJob
<1> HIDE DEF j
<1> QED
  BY <1>1, <1>7, <1>8, CheckSolvent

\* The platform's balance was sufficient for the refund.
LEMMA CheckRefundSolvent ==
  ASSUME WalletInv, SolvencyInv, NEW v \in Workers, CheckRefund(v)
  PROVE  SolvencyInv'
<1>. PICK amount : amount = job[v].amount
  OBVIOUS
<1> DEFINE j == FeeJob("refundChecked", job[v].row, amount, job[v].parties)
<1>1. /\ job' = [job EXCEPT ![v] = j]
      /\ balance[Platform] >= Total(amount)
      /\ UNCHANGED <<balance, fee, withdrawal>>
  BY DEF CheckRefund, Continue, money, loadRows, requestRows
<1>2. /\ amount \in [Parties -> Nat]
      /\ \A p \in Parties : amount[p] <= Max(Fees)
  BY PaidType DEF WalletInv, SolvencyInv, FeesSmall
<1>3. job'[v] = j
  BY <1>1 DEF WalletInv, TypeOK
<1>4. \A a \in Accounts : Debit(v, a)' = IF a = Platform THEN Total(amount) ELSE 0
  BY <1>3 DEF Debit, FeeJob, Total
<1>5. Total(amount) \in Nat /\ Total(amount) <= 2 * Max(Fees)
  BY <1>2, Largest DEF Total, Parties
<1>6. ASSUME NEW a \in Accounts
      PROVE  /\ Debit(v, a)' \in 0 .. LargestDebit(a)
             /\ Debit(v, a)' = 0 \/ balance[a] >= Debit(v, a)'
  BY <1>1, <1>4, <1>5, Largest
<1>7. j.op = "refundChecked" /\ \A p \in Parties : j.amount[p] <= Max(Fees)
  BY <1>2 DEF FeeJob
<1> HIDE DEF j
<1> QED
  BY <1>1, <1>6, <1>7, CheckSolvent

\* The wallet's balance was sufficient for the withdrawal.
LEMMA CheckApproveSolvent ==
  ASSUME WalletInv, SolvencyInv, NEW v \in Workers, CheckApprove(v)
  PROVE  SolvencyInv'
<1>. PICK q : q = job[v].row
  OBVIOUS
<1>1. /\ job' = [job EXCEPT ![v] = Job("approveChecked", q)]
      /\ balance[withdrawal[q].wallet] >= withdrawal[q].amount
      /\ UNCHANGED <<balance, fee, withdrawal>>
  BY DEF CheckApprove, Continue, money, loadRows, requestRows
<1>2. /\ q \in Withdrawals /\ Asked(q)
      /\ withdrawal[q].amount \in Amounts \cup {0}
  BY DEF CheckApprove, WalletInv, JobsFit, TypeOK, Row, SolvencyInv, DecidedAsked
<1>3. job'[v] = Job("approveChecked", q)
  BY <1>1 DEF WalletInv, TypeOK
<1>4. \A a \in Accounts : Debit(v, a)' =
         IF a = withdrawal[q].wallet THEN withdrawal[q].amount ELSE 0
  BY <1>1, <1>3 DEF Debit, Job, FeeJob
<1>5. ASSUME NEW a \in Accounts
      PROVE  /\ Debit(v, a)' \in 0 .. LargestDebit(a)
             /\ Debit(v, a)' = 0 \/ balance[a] >= Debit(v, a)'
  <2>1. LargestDebit(a) \in Nat
    BY Largest
  <2>2. CASE a = withdrawal[q].wallet
    <3>1. a \in Wallets
      BY <1>2, <2>2 DEF Asked
    <3>2. \A n \in Amounts : n \in 0 .. LargestDebit(a)
      BY <2>1, <3>1, Largest, WalletsAssumption
    <3>3. 0 \in 0 .. LargestDebit(a)
      BY <2>1
    <3> QED
      BY <1>1, <1>2, <1>4, <2>2, <3>2, <3>3
  <2>3. CASE a # withdrawal[q].wallet
    BY <1>4, <2>1, <2>3
  <2> QED
    BY <2>2, <2>3
<1>6. /\ Job("approveChecked", q).op = "approveChecked" /\ Job("approveChecked", q).row = q
      /\ \A p \in Parties : Job("approveChecked", q).amount[p] <= Max(Fees)
  BY PlainJobs
<1> QED
  BY <1>1, <1>2, <1>5, <1>6, CheckSolvent

\* Owners ask, administrators top up; loads move.
LEMMA OwnerSolvent ==
  ASSUME WalletInv, SolvencyInv, WalletOwnerStep \/ LoadStep
  PROVE  SolvencyInv'
<1>1. job' = job /\ fee' = fee
  BY DEF WalletOwnerStep, LoadStep, RequestDeposit, TopUp, RequestWithdrawal, Book,
         TruckTaken, Deliver, loadRows
<1>2. \/ withdrawal' = withdrawal
      \/ \E q \in Withdrawals, a \in Wallets, n \in Amounts :
           /\ withdrawal[q].status = "NONE"
           /\ withdrawal' = [withdrawal EXCEPT ![q] = [status |-> "PENDING", wallet |-> a,
                                                       amount |-> n]]
  BY DEF WalletOwnerStep, LoadStep, RequestDeposit, TopUp, RequestWithdrawal, Book,
         TruckTaken, Deliver, requestRows
<1>3. \A q \in Withdrawals : Asked(q) => withdrawal'[q] = withdrawal[q]
  BY <1>2 DEF Asked, WalletInv, TypeOK
<1>4. \A q \in Withdrawals : withdrawal'[q].status # "NONE" => Asked(q)'
  BY <1>2, <1>3 DEF Asked, SolvencyInv, DecidedAsked, WalletInv, TypeOK
<1>5. RowsKept
  BY <1>3 DEF RowsKept
<1>6. \A a \in Accounts : balance'[a] \in Int /\ balance'[a] >= balance[a]
  <2>1. CASE \E d \in Deposits, a \in Wallets, n \in Amounts : Increment(On(a, n))
    <3>1. PICK a \in Wallets, n \in Amounts : Increment(On(a, n))
      BY <2>1
    <3>2. \A b \in Accounts : On(a, n)[b] \in Nat
      BY WalletsAssumption DEF On
    <3> QED
      BY <3>1, <3>2 DEF Increment, WalletInv, TypeOK
  <2>2. CASE balance' = balance
    BY <2>2 DEF WalletInv, TypeOK
  <2> QED
    BY <2>1, <2>2
       DEF WalletOwnerStep, LoadStep, RequestDeposit, TopUp, RequestWithdrawal, Book,
           TruckTaken, Deliver, money
<1>7. (\A a \in Accounts : Within(balance[a], Debts(a), LargestDebit(a)))'
  BY <1>1, <1>5, <1>6, OthersWithin
<1>8. FeesSmall'
  BY <1>1 DEF SolvencyInv, FeesSmall
<1>9. DecidedAsked'
  BY <1>1, <1>3, <1>4 DEF SolvencyInv, DecidedAsked, Asked, WalletInv, JobsFit
<1> QED
  BY <1>7, <1>8, <1>9 DEF SolvencyInv

\* Empty accounts and no debts.
LEMMA InitSolvent ==
  ASSUME Init
  PROVE  SolvencyInv
<1>1. FeesSmall /\ \A w \in Workers : job[w].op = "idle"
  BY PlainJobs, Largest DEF Init, FeesSmall, Idle, Nothing
<1>2. DecidedAsked
  BY <1>1 DEF Init, DecidedAsked, NoRow
<1>3. ASSUME NEW a \in Accounts
      PROVE  Within(balance[a], Debts(a), LargestDebit(a))
  <2>1. Owing(Debts(a)) = {}
    BY <1>1, NoDebit DEF Owing, Debts, Checked
  <2>2. Cardinality(Workers) - 1 \in Nat
    BY HowMany
  <2>3. (Cardinality(Workers) - 1) * LargestDebit(a) \in Nat
    BY <2>2, Largest, Multiples
  <2> QED
    BY <2>1, <2>2, <2>3, Largest DEF Within, Init
<1> QED
  BY <1>1, <1>2, <1>3 DEF SolvencyInv

\* No step makes a debt larger than the bound.
LEMMA SolventStep ==
  ASSUME WalletInv, SolvencyInv, [Next]_vars
  PROVE  SolvencyInv'
<1>1. ASSUME NEW w \in Workers, FeeStep(w) PROVE SolvencyInv'
  BY <1>1, BeginSolvent, BeginRefundSolvent, CreditSolvent, CheckDeductSolvent,
     CommitDeductSolvent, CheckRefundSolvent, CommitRefundSolvent
     DEF FeeStep
<1>2. ASSUME NEW w \in Workers, AdminStep(w) PROVE SolvencyInv'
  BY <1>2, BeginSolvent, CreditSolvent, CheckApproveSolvent, CommitApproveSolvent
     DEF AdminStep
<1>3. CASE UNCHANGED vars
  <2>1. \A a : Debts(a)' = Debts(a) /\ LargestDebit(a)' = LargestDebit(a)
    BY <1>3 DEF vars, Debts, Debit, Paid, Share, Total, LargestDebit, requestRows
  <2> QED
    BY <1>3, <2>1 DEF vars, money, loadRows, requestRows, SolvencyInv, FeesSmall,
                      DecidedAsked, Asked
<1> QED
  BY <1>1, <1>2, <1>3, BeginSolvent, OwnerSolvent DEF Next

\* SolvencyInv is an invariant, however many handlers run beside each other.
LEMMA SolvencyInvariant == Spec => []SolvencyInv
<1>1. Init => SolvencyInv
  BY InitSolvent
<1>2. WalletInv /\ SolvencyInv /\ [Next]_vars => SolvencyInv'
  BY SolventStep
<1> QED
  BY <1>1, <1>2, WalletInvariant, PTL DEF Spec

\* An account is overdrawn by one debit at most for each handler beside the first.
THEOREM WalletsOverdraftBounded == Spec => []OverdraftBounded
<1>1. SolvencyInv => OverdraftBounded
  BY DEF SolvencyInv, Within, OverdraftBounded
<1> QED
  BY <1>1, SolvencyInvariant, PTL

-----------------------------------------------------------------------------
(* One handler at a time *)

OneWorker == \A v, w \in Workers : v = w

\* What the handler of job j has read is true until it writes.
Current(j) ==
  /\ j.op \in {"approveDeposit", "rejectDeposit"} => deposit[j.row].status = "PENDING"
  /\ j.op \in {"approve", "approveChecked", "reject"} => withdrawal[j.row].status = "PENDING"
  /\ j.op \in {"refund", "refundChecked"} =>
       \A p \in Parties : j.amount[p] <= feePaid[j.row][p]

\* Nobody has got back more than he has paid.
PaidNotNegative == \A l \in Loads, p \in Parties : feePaid[l][p] >= 0

AloneInv ==
  /\ EntriesAgree /\ FeeStatusTruthful /\ PaidNotNegative
  /\ \A w \in Workers : Current(job[w])

\* Having nothing to do is current.
LEMMA IdleCurrent == Current(Idle)
BY DEF Current, Idle, Job, FeeJob

\* A handler that has only read, or fails.
LEMMA ReadAlone ==
  ASSUME OneWorker, WalletInv, AloneInv, NEW w \in Workers, NEW j,
         job' = [job EXCEPT ![w] = j], Current(j),
         UNCHANGED <<money, loadRows, requestRows>>
  PROVE  AloneInv'
<1>1. \A v \in Workers : job'[v] = j
  BY DEF OneWorker, WalletInv, TypeOK
<1> QED
  BY <1>1 DEF AloneInv, Current, EntriesAgree, FeeStatusTruthful, PaidNotNegative,
              money, loadRows, requestRows

\* The only handler ends.
LEMMA EndAlone ==
  ASSUME OneWorker, WalletInv, NEW w \in Workers, Finish(w),
         EntriesAgree', FeeStatusTruthful', PaidNotNegative'
  PROVE  AloneInv'
<1>1. \A v \in Workers : job'[v] = Idle
  BY DEF OneWorker, WalletInv, TypeOK, Finish
<1> QED
  BY <1>1 DEF AloneInv, Current, Idle, Job, FeeJob

\* What handlers read first.
LEMMA BeginAlone ==
  ASSUME OneWorker, WalletInv, AloneInv, NEW w \in Workers,
         \/ \E l \in Loads : BeginDeduct(w, l) \/ BeginWaive(w, l) \/ CancelLoad(w, l)
         \/ \E d \in Deposits : BeginApproveDeposit(w, d) \/ BeginRejectDeposit(w, d)
         \/ \E q \in Withdrawals : BeginApprove(w, q) \/ BeginReject(w, q)
         \/ Abort(w)
  PROVE  AloneInv'
<1>1. UNCHANGED <<money, loadRows, requestRows>>
  BY DEF BeginDeduct, BeginWaive, CancelLoad, BeginApproveDeposit, BeginRejectDeposit,
         BeginDeposit, BeginApprove, BeginReject, BeginDecide, Abort
<1>2. PICK j : Current(j) /\ job' = [job EXCEPT ![w] = j]
  <2>1. ASSUME NEW l \in Loads, BeginDeduct(w, l)
        PROVE  \E j : Current(j) /\ job' = [job EXCEPT ![w] = j]
    <3>1. PICK amount, parties : job' = [job EXCEPT ![w] = FeeJob("deduct", l, amount, parties)]
      BY <2>1 DEF BeginDeduct, Start
    <3>2. Current(FeeJob("deduct", l, amount, parties))
      BY DEF Current, FeeJob
    <3> QED
      BY <3>1, <3>2
  <2>2. ASSUME NEW l \in Loads, BeginWaive(w, l) \/ CancelLoad(w, l)
        PROVE  \E j : Current(j) /\ job' = [job EXCEPT ![w] = j]
    <3>1. PICK op \in {"waive", "cancelled"} : job' = [job EXCEPT ![w] = Job(op, l)]
      BY <2>2 DEF BeginWaive, CancelLoad, Start
    <3>2. Current(Job(op, l))
      BY DEF Current, Job, FeeJob
    <3> QED
      BY <3>1, <3>2
  <2>3. ASSUME NEW d \in Deposits, BeginApproveDeposit(w, d) \/ BeginRejectDeposit(w, d)
        PROVE  \E j : Current(j) /\ job' = [job EXCEPT ![w] = j]
    <3>1. PICK op \in {"approveDeposit", "rejectDeposit"} :
            job' = [job EXCEPT ![w] = Job(op, d)] /\ deposit[d].status = "PENDING"
      BY <2>3 DEF BeginApproveDeposit, BeginRejectDeposit, BeginDeposit, Start
    <3>2. Current(Job(op, d))
      BY <3>1 DEF Current, Job, FeeJob
    <3> QED
      BY <3>1, <3>2
  <2>4. ASSUME NEW q \in Withdrawals, BeginApprove(w, q) \/ BeginReject(w, q)
        PROVE  \E j : Current(j) /\ job' = [job EXCEPT ![w] = j]
    <3>1. PICK op \in {"approve", "reject"} :
            job' = [job EXCEPT ![w] = Job(op, q)] /\ withdrawal[q].status = "PENDING"
      BY <2>4 DEF BeginApprove, BeginReject, BeginDecide, Start
    <3>2. Current(Job(op, q))
      BY <3>1 DEF Current, Job, FeeJob
    <3> QED
      BY <3>1, <3>2
  <2>5. CASE Abort(w)
    BY <2>5, IdleCurrent DEF Abort, Finish
  <2> QED
    BY <2>1, <2>2, <2>3, <2>4, <2>5
<1> QED
  BY <1>1, <1>2, ReadAlone

\* A check lets the handler go on with what it knows.
LEMMA CheckAlone ==
  ASSUME OneWorker, WalletInv, AloneInv, NEW w \in Workers,
         CheckDeduct(w) \/ CheckRefund(w) \/ CheckApprove(w)
  PROVE  AloneInv'
<1>1. UNCHANGED <<money, loadRows, requestRows>>
  BY DEF CheckDeduct, CheckRefund, CheckApprove
<1>2. Current(job[w])
  BY DEF AloneInv
<1>3. CASE CheckDeduct(w)
  <2>1. PICK amount, parties :
          job' = [job EXCEPT ![w] = FeeJob("deductChecked", job[w].row, amount, parties)]
    BY <1>3 DEF CheckDeduct, Continue
  <2>2. Current(FeeJob("deductChecked", job[w].row, amount, parties))
    BY DEF Current, FeeJob
  <2> QED
    BY <1>1, <2>1, <2>2, ReadAlone
<1>4. CASE CheckRefund(w)
  <2>1. /\ job[w].op = "refund"
        /\ job' = [job EXCEPT ![w] = FeeJob("refundChecked", job[w].row, job[w].amount,
                                            job[w].parties)]
    BY <1>4 DEF CheckRefund, Continue
  <2>2. Current(FeeJob("refundChecked", job[w].row, job[w].amount, job[w].parties))
    BY <1>2, <2>1 DEF Current, FeeJob
  <2> QED
    BY <1>1, <2>1, <2>2, ReadAlone
<1>5. CASE CheckApprove(w)
  <2>1. /\ job[w].op = "approve"
        /\ job' = [job EXCEPT ![w] = Job("approveChecked", job[w].row)]
    BY <1>5 DEF CheckApprove, Continue
  <2>2. Current(Job("approveChecked", job[w].row))
    BY <1>2, <2>1 DEF Current, Job, FeeJob
  <2> QED
    BY <1>1, <2>1, <2>2, ReadAlone
<1> QED
  BY <1>3, <1>4, <1>5

\* A refund is of what was paid.
LEMMA BeginRefundAlone ==
  ASSUME OneWorker, WalletInv, AloneInv, NEW w \in Workers, BeginRefund(w)
  PROVE  AloneInv'
<1> DEFINE l == job[w].row
           amount == [p \in Parties |-> IF feeStatus[l][p] = "DEDUCTED" THEN fee[l][p] ELSE 0]
           known == {p \in Parties : p = "carrier" => hasTruck[l]}
<1>1. UNCHANGED <<money, loadRows, requestRows>> /\ l \in Loads
  BY DEF BeginRefund, WalletInv, JobsFit, FeeOps
<1>2. \A p \in Parties : amount[p] <= feePaid[l][p]
  BY <1>1 DEF AloneInv, FeeStatusTruthful, PaidNotNegative
<1>3. \/ job' = [job EXCEPT ![w] = Idle]
      \/ job' = [job EXCEPT ![w] = Job("refundNothing", l)]
      \/ job' = [job EXCEPT ![w] = FeeJob("refund", l, amount, known)]
  BY DEF BeginRefund, Continue, Finish
<1> HIDE DEF amount, known
<1>4. Current(FeeJob("refund", l, amount, known)) /\ Current(Job("refundNothing", l))
  BY <1>2 DEF Current, FeeJob, Job
<1> QED
  BY <1>1, <1>3, <1>4, IdleCurrent, ReadAlone

\* Fees are marked as they were paid.
LEMMA CommitDeductAlone ==
  ASSUME OneWorker, WalletInv, AloneInv, NEW w \in Workers, CommitDeduct(w)
  PROVE  AloneInv'
<1>. PICK l, amount, parties :
       l = job[w].row /\ amount = job[w].amount /\ parties = job[w].parties
  OBVIOUS
<1>1. l \in Loads /\ amount \in [Parties -> Nat]
  BY PaidType DEF CommitDeduct, WalletInv, JobsFit, FeeOps
<1>2. /\ Finish(w) /\ UNCHANGED requestRows
      /\ fee' = [fee EXCEPT ![l] = amount]
      /\ feeStatus' = [feeStatus EXCEPT ![l] =
           [p \in Parties |-> IF p \in parties THEN "DEDUCTED" ELSE "PENDING"]]
      /\ feePaid' = [feePaid EXCEPT ![l] = [p \in Parties |-> @[p] + Paid(w)[p]]]
  BY DEF CommitDeduct
<1>3. /\ \A k \in Loads \ {l} : /\ fee'[k] = fee[k] /\ feeStatus'[k] = feeStatus[k]
                                /\ feePaid'[k] = feePaid[k]
      /\ \A p \in Parties :
           /\ fee'[l][p] = amount[p]
           /\ feeStatus'[l][p] = "DEDUCTED" => p \in parties
           /\ feePaid'[l][p] = feePaid[l][p] + IF p \in parties THEN amount[p] ELSE 0
  BY <1>1, <1>2 DEF WalletInv, TypeOK, Paid
<1>4. \A p \in Parties : feePaid[l][p] \in Int /\ feePaid[l][p] >= 0 /\ amount[p] \in Nat
  BY <1>1 DEF WalletInv, TypeOK, AloneInv, PaidNotNegative
<1>5. FeeStatusTruthful'
  BY <1>1, <1>3, <1>4 DEF AloneInv, FeeStatusTruthful
<1>6. PaidNotNegative'
  BY <1>1, <1>3, <1>4 DEF AloneInv, PaidNotNegative
<1>7. EntriesAgree'
  BY <1>2 DEF requestRows, AloneInv, EntriesAgree
<1> QED
  BY <1>2, <1>5, <1>6, <1>7, EndAlone

\* A refund takes back what was paid, and no fee stays DEDUCTED.
LEMMA CommitRefundAlone ==
  ASSUME OneWorker, WalletInv, AloneInv, NEW w \in Workers, CommitRefund(w)
  PROVE  AloneInv'
<1>. PICK l, amount, parties :
       l = job[w].row /\ amount = job[w].amount /\ parties = job[w].parties
  OBVIOUS
<1>1. l \in Loads /\ amount \in [Parties -> Nat]
  BY PaidType DEF CommitRefund, WalletInv, JobsFit, FeeOps
<1>2. /\ Finish(w) /\ UNCHANGED <<fee, requestRows>>
      /\ feeStatus' = [feeStatus EXCEPT ![l] = [p \in Parties |-> "REFUNDED"]]
      /\ feePaid' = [feePaid EXCEPT ![l] = [p \in Parties |-> @[p] - Paid(w)[p]]]
  BY DEF CommitRefund
<1>3. /\ \A k \in Loads \ {l} : feeStatus'[k] = feeStatus[k] /\ feePaid'[k] = feePaid[k]
      /\ \A p \in Parties :
           /\ feeStatus'[l][p] = "REFUNDED"
           /\ feePaid'[l][p] = feePaid[l][p] - IF p \in parties THEN amount[p] ELSE 0
  BY <1>1, <1>2 DEF WalletInv, TypeOK, Paid
<1>4. \A p \in Parties : /\ feePaid[l][p] \in Int /\ feePaid[l][p] >= 0 /\ amount[p] \in Nat
                         /\ amount[p] <= feePaid[l][p]
  BY <1>1 DEF CommitRefund, WalletInv, TypeOK, AloneInv, PaidNotNegative, Current
<1>5. FeeStatusTruthful'
  BY <1>1, <1>2, <1>3 DEF AloneInv, FeeStatusTruthful
<1>6. PaidNotNegative'
  BY <1>1, <1>3, <1>4 DEF AloneInv, PaidNotNegative
<1>7. EntriesAgree'
  BY <1>2 DEF requestRows, AloneInv, EntriesAgree
<1> QED
  BY <1>2, <1>5, <1>6, <1>7, EndAlone

\* A load without a fee is not DEDUCTED.
LEMMA WaiveAlone ==
  ASSUME OneWorker, WalletInv, AloneInv, NEW w \in Workers,
         CommitWaive(w) \/ CommitRefundNothing(w)
  PROVE  AloneInv'
<1>. PICK l : l = job[w].row
  OBVIOUS
<1>1. l \in Loads
  BY DEF CommitWaive, CommitRefundNothing, WalletInv, JobsFit, FeeOps
<1>2. Finish(w) /\ UNCHANGED <<feePaid, requestRows>>
  BY DEF CommitWaive, CommitRefundNothing
<1>3. PICK s \in {"WAIVED", "REFUNDED"} :
        feeStatus' = [feeStatus EXCEPT ![l] = [p \in Parties |-> s]]
  BY DEF CommitWaive, CommitRefundNothing
<1>4. \A k \in Loads \ {l} : fee'[k] = fee[k]
  BY DEF CommitWaive, CommitRefundNothing, WalletInv, TypeOK
<1>5. FeeStatusTruthful'
  BY <1>1, <1>2, <1>3, <1>4 DEF AloneInv, FeeStatusTruthful, WalletInv, TypeOK
<1>6. PaidNotNegative' /\ EntriesAgree'
  BY <1>2 DEF requestRows, AloneInv, EntriesAgree, PaidNotNegative
<1> QED
  BY <1>2, <1>5, <1>6, EndAlone

\* A deposit is credited with its confirmation.
LEMMA DepositAlone ==
  ASSUME OneWorker, WalletInv, AloneInv, NEW w \in Workers,
         CommitApproveDeposit(w) \/ CommitRejectDeposit(w)
  PROVE  AloneInv'
<1>. PICK d : d = job[w].row
  OBVIOUS
<1>1. /\ d \in Deposits /\ d \notin Withdrawals
      /\ deposit[d].status = "PENDING" /\ entries[d] = 0
  BY WalletsAssumption
     DEF CommitApproveDeposit, CommitRejectDeposit, WalletInv, JobsFit, AloneInv, Current,
         EntriesAgree
<1>2. Finish(w) /\ UNCHANGED <<loadRows, withdrawal>>
  BY DEF CommitApproveDeposit, CommitRejectDeposit
<1>3. /\ \A c \in Deposits \ {d} : deposit'[c] = deposit[c] /\ entries'[c] = entries[c]
      /\ \A q \in Withdrawals : entries'[q] = entries[q]
      /\ entries'[d] = IF deposit'[d].status = "CONFIRMED" THEN 1 ELSE 0
  <2>1. CASE CommitApproveDeposit(w)
    <3>1. /\ deposit' = [deposit EXCEPT ![d].status = "CONFIRMED"]
          /\ entries' = [entries EXCEPT ![d] = @ + 1]
      BY <2>1 DEF CommitApproveDeposit
    <3> QED
      BY <1>1, <3>1 DEF WalletInv, TypeOK, Row
  <2>2. CASE CommitRejectDeposit(w)
    <3>1. /\ deposit' = [deposit EXCEPT ![d].status = "REJECTED"]
          /\ entries' = entries
      BY <2>2 DEF CommitRejectDeposit
    <3> QED
      BY <1>1, <3>1 DEF WalletInv, TypeOK, Row
  <2> QED
    BY <2>1, <2>2
<1>4. EntriesAgree'
  BY <1>1, <1>2, <1>3 DEF AloneInv, EntriesAgree
<1>5. FeeStatusTruthful' /\ PaidNotNegative'
  BY <1>2 DEF loadRows, AloneInv, FeeStatusTruthful, PaidNotNegative
<1> QED
  BY <1>2, <1>4, <1>5, EndAlone

\* A withdrawal is debited with its approval.
LEMMA DecideAlone ==
  ASSUME OneWorker, WalletInv, AloneInv, NEW w \in Workers,
         CommitApprove(w) \/ CommitReject(w)
  PROVE  AloneInv'
<1>. PICK q : q = job[w].row
  OBVIOUS
<1>1. /\ q \in Withdrawals /\ q \notin Deposits
      /\ withdrawal[q].status = "PENDING" /\ entries[q] = 0
  BY WalletsAssumption
     DEF CommitApprove, CommitReject, WalletInv, JobsFit, AloneInv, Current, PendingUntouched
<1>2. Finish(w) /\ UNCHANGED <<loadRows, deposit>>
  BY DEF CommitApprove, CommitReject
<1>3. /\ \A r \in Withdrawals \ {q} : withdrawal'[r] = withdrawal[r] /\ entries'[r] = entries[r]
      /\ \A d \in Deposits : entries'[d] = entries[d]
      /\ withdrawal'[q].status = "APPROVED" => entries'[q] = -1
  <2>1. CASE CommitApprove(w)
    <3>1. /\ withdrawal' = [withdrawal EXCEPT ![q].status = "APPROVED"]
          /\ entries' = [entries EXCEPT ![q] = @ - 1]
      BY <2>1 DEF CommitApprove
    <3> QED
      BY <1>1, <3>1 DEF WalletInv, TypeOK, Row
  <2>2. CASE CommitReject(w)
    <3>1. /\ withdrawal' = [withdrawal EXCEPT ![q].status = "REJECTED"]
          /\ entries' = [entries EXCEPT ![q] = @ + 1]
      BY <2>2 DEF CommitReject
    <3> QED
      BY <1>1, <3>1 DEF WalletInv, TypeOK, Row
  <2> QED
    BY <2>1, <2>2
<1>4. EntriesAgree'
  BY <1>1, <1>2, <1>3 DEF AloneInv, EntriesAgree
<1>5. FeeStatusTruthful' /\ PaidNotNegative'
  BY <1>2 DEF loadRows, AloneInv, FeeStatusTruthful, PaidNotNegative
<1> QED
  BY <1>2, <1>4, <1>5, EndAlone

\* Requests and top-ups make rows nobody is at work on.
LEMMA OwnerAlone ==
  ASSUME WalletInv, AloneInv, WalletOwnerStep
  PROVE  AloneInv'
<1>1. UNCHANGED <<loadRows, job>>
  BY DEF WalletOwnerStep, RequestDeposit, TopUp, RequestWithdrawal
<1>2. \/ /\ UNCHANGED <<entries, withdrawal>>
         /\ \E d \in Deposits : /\ deposit[d].status = "NONE"
                                /\ deposit'[d].status = "PENDING"
                                /\ \A c \in Deposits \ {d} : deposit'[c] = deposit[c]
      \/ /\ UNCHANGED withdrawal
         /\ \E d \in Deposits :
              /\ deposit[d].status = "NONE"
              /\ deposit'[d].status = "CONFIRMED" /\ entries'[d] = entries[d] + 1
              /\ \A c \in Deposits \ {d} : deposit'[c] = deposit[c] /\ entries'[c] = entries[c]
              /\ \A q \in Withdrawals : entries'[q] = entries[q]
      \/ /\ UNCHANGED <<entries, deposit>>
         /\ \E q \in Withdrawals :
              /\ withdrawal[q].status = "NONE"
              /\ withdrawal'[q].status = "PENDING"
              /\ \A r \in Withdrawals \ {q} : withdrawal'[r] = withdrawal[r]
  <2>1. PICK a \in Wallets, n \in Amounts :
          \/ \E d \in Deposits : RequestDeposit(d, a, n) \/ TopUp(d, a, n)
          \/ \E q \in Withdrawals : RequestWithdrawal(q, a, n)
    BY DEF WalletOwnerStep
  <2>2. CASE \E d \in Deposits : RequestDeposit(d, a, n)
    BY <2>2 DEF RequestDeposit, WalletInv, TypeOK
  <2>3. CASE \E d \in Deposits : TopUp(d, a, n)
    <3>1. PICK d \in Deposits : TopUp(d, a, n)
      BY <2>3
    <3>2. /\ deposit[d].status = "NONE" /\ withdrawal' = withdrawal
          /\ deposit'[d].status = "CONFIRMED" /\ entries'[d] = entries[d] + 1
          /\ \A c \in Deposits \ {d} : deposit'[c] = deposit[c] /\ entries'[c] = entries[c]
          /\ \A q \in Withdrawals : entries'[q] = entries[q]
      BY <3>1, WalletsAssumption DEF TopUp, WalletInv, TypeOK
    <3> QED
      BY <3>2
  <2>4. CASE \E q \in Withdrawals : RequestWithdrawal(q, a, n)
    <3>1. PICK q \in Withdrawals : RequestWithdrawal(q, a, n)
      BY <2>4
    <3>2. /\ withdrawal[q].status = "NONE" /\ UNCHANGED <<entries, deposit>>
          /\ withdrawal'[q].status = "PENDING"
          /\ \A r \in Withdrawals \ {q} : withdrawal'[r] = withdrawal[r]
      BY <3>1 DEF RequestWithdrawal, WalletInv, TypeOK
    <3> QED
      BY <3>2
  <2> QED
    BY <2>1, <2>2, <2>3, <2>4
<1>3. EntriesAgree'
  BY <1>2 DEF AloneInv, EntriesAgree
<1>4. FeeStatusTruthful' /\ PaidNotNegative'
  BY <1>1 DEF loadRows, AloneInv, FeeStatusTruthful, PaidNotNegative
<1>5. \A d \in Deposits : deposit[d].status = "PENDING" => deposit'[d].status = "PENDING"
  BY <1>2
<1>6. \A q \in Withdrawals : withdrawal[q].status = "PENDING" => withdrawal'[q].status = "PENDING"
  BY <1>2
<1>7. ASSUME NEW w \in Workers PROVE Current(job[w])'
  <2>1. Current(job[w]) /\ job'[w] = job[w] /\ feePaid' = feePaid
    BY <1>1 DEF AloneInv, loadRows
  <2>2. /\ job[w].op \in {"approveDeposit", "rejectDeposit"} => job[w].row \in Deposits
        /\ job[w].op \in {"approve", "approveChecked", "reject"} => job[w].row \in Withdrawals
    BY DEF WalletInv, JobsFit
  <2> QED
    BY <1>5, <1>6, <2>1, <2>2 DEF Current
<1> QED
  BY <1>3, <1>4, <1>7 DEF AloneInv

\* AloneInv is an invariant when one handler runs at a time.
LEMMA AloneInvariant == OneWorker => (Spec => []AloneInv)
<1> SUFFICES ASSUME OneWorker PROVE Spec => []AloneInv
  OBVIOUS
<1>1. Init => AloneInv
  <2> SUFFICES ASSUME Init PROVE AloneInv
    OBVIOUS
  <2>1. EntriesAgree
    BY DEF Init, EntriesAgree, NoRow
  <2>2. FeeStatusTruthful /\ PaidNotNegative
    BY DEF Init, FeeStatusTruthful, PaidNotNegative, Nothing
  <2> QED
    BY <2>1, <2>2, IdleCurrent DEF Init, AloneInv
<1>2. ASSUME WalletInv, AloneInv, [Next]_vars PROVE AloneInv'
  <2>1. ASSUME NEW w \in Workers, FeeStep(w) PROVE AloneInv'
    BY <1>2, <2>1, BeginAlone, CheckAlone, BeginRefundAlone, CommitDeductAlone, WaiveAlone,
       CommitRefundAlone
       DEF FeeStep
  <2>2. ASSUME NEW w \in Workers, AdminStep(w) PROVE AloneInv'
    BY <1>2, <2>2, BeginAlone, CheckAlone, DepositAlone, DecideAlone DEF AdminStep
  <2>3. CASE LoadStep \/ UNCHANGED vars
    <3>1. UNCHANGED <<loadRows, requestRows, job>>
      BY <2>3 DEF LoadStep, Book, TruckTaken, Deliver, vars
    <3> QED
      BY <1>2, <3>1 DEF loadRows, requestRows, AloneInv, Current, EntriesAgree,
                        FeeStatusTruthful, PaidNotNegative
  <2> QED
    BY <1>2, <2>1, <2>2, <2>3, BeginAlone, OwnerAlone DEF Next
<1> QED
  BY <1>1, <1>2, WalletInvariant, PTL DEF Spec

\* When one handler runs at a time, a decision on a deposit or a withdrawal and its
\* entry agree.
THEOREM WalletsEntriesAgree == OneWorker => (Spec => []EntriesAgree)
<1>1. AloneInv => EntriesAgree
  BY DEF AloneInv
<1>2. CASE OneWorker
  BY <1>1, <1>2, AloneInvariant, PTL
<1> QED
  BY <1>2

\* When one handler runs at a time, a fee that is marked DEDUCTED was paid in full.
THEOREM WalletsFeeStatusTruthful == OneWorker => (Spec => []FeeStatusTruthful)
<1>1. AloneInv => FeeStatusTruthful
  BY DEF AloneInv
<1>2. CASE OneWorker
  BY <1>1, <1>2, AloneInvariant, PTL
<1> QED
  BY <1>2

-----------------------------------------------------------------------------
(* Sums *)

\* The element a sum over s adds first.
Chosen(s) == CHOOSE x \in s : TRUE

\* In g, the sum over s is that of one element and the rest.
Adds(g, f, s) == g[s] = IF s = {} THEN 0 ELSE f[Chosen(s)] + g[s \ {Chosen(s)}]

\* g is the function by which Sum adds f up over S.
Adder(g, f, S) ==
  g = [s \in SUBSET S |-> IF s = {} THEN 0 ELSE f[Chosen(s)] + g[s \ {Chosen(s)}]]

\* What Sum can add up.
Numbers(f, S) == IsFiniteSet(S) /\ \A x \in S : f[x] \in Int

\* Sets of at most n elements.
Small(S, n) == {s \in SUBSET S : Cardinality(s) <= n}

\* Sum as the community modules define it, in these terms.
LEMMA SumIs ==
  ASSUME NEW f, NEW S, NEW h, Adder(h, f, S)
  PROVE  \E g : Adder(g, f, S) /\ Sum(f, S) = g[S]
BY DEF Sum, MapThenSumSet, MapThenFoldSet, Adder, Chosen

\* An element is chosen wherever there is one.
LEMMA Chooses ==
  ASSUME NEW s, s # {}
  PROVE  Chosen(s) \in s
BY DEF Chosen

\* A set of numbers has a least one.
LEMMA LeastNumber ==
  ASSUME NEW T \in SUBSET Nat, T # {}
  PROVE  \E m \in T : \A k \in T : m <= k
<1>1. PICK less : less = OpToRel(<, Nat)
  OBVIOUS
<1>2. IsWellFoundedOn(less, Nat)
  BY <1>1, NatLessThanWellFounded
<1>3. PICK m \in T : \A k \in T : <<k, m>> \notin less
  BY <1>2, WFMin
<1>4. \A k \in Nat : k < m => <<k, m>> \in less
  BY <1>1 DEF OpToRel
<1>5. \A k \in T : ~(k < m)
  BY <1>3, <1>4
<1> QED
  BY <1>5

\* Sums over larger sets from those over smaller ones.
LEMMA AdderGrows ==
  ASSUME NEW f, NEW S, Numbers(f, S), NEW n \in Nat,
         NEW g \in [Small(S, n) -> Int], \A s \in Small(S, n) : Adds(g, f, s)
  PROVE  \E h \in [Small(S, n + 1) -> Int] : \A s \in Small(S, n + 1) : Adds(h, f, s)
<1>1. PICK h : h = [s \in Small(S, n + 1) |->
                      IF s = {} THEN 0 ELSE f[Chosen(s)] + g[s \ {Chosen(s)}]]
  OBVIOUS
<1>2. \A s \in Small(S, n) : s \in Small(S, n + 1) /\ h[s] = g[s]
  <2>1. \A s \in Small(S, n) : s \in Small(S, n + 1)
    <3>1. \A s \in SUBSET S : Cardinality(s) \in Nat
      BY FS_Subset, FS_CardinalityType DEF Numbers
    <3> QED
      BY <3>1 DEF Small
  <2> QED
    BY <1>1, <2>1 DEF Adds
<1>3. ASSUME NEW s \in Small(S, n + 1), s # {}
      PROVE  /\ Chosen(s) \in S /\ s \ {Chosen(s)} \in Small(S, n)
  <2>1. Chosen(s) \in s /\ s \in SUBSET S /\ Cardinality(s) <= n + 1
    BY <1>3, Chooses DEF Small
  <2>2. IsFiniteSet(s) /\ Cardinality(s) \in Nat
    BY <2>1, FS_Subset, FS_CardinalityType DEF Numbers
  <2>3. Cardinality(s \ {Chosen(s)}) = Cardinality(s) - 1
    BY <2>1, <2>2, FS_RemoveElement
  <2> QED
    BY <2>1, <2>2, <2>3 DEF Small
<1>4. h \in [Small(S, n + 1) -> Int]
  BY <1>1, <1>3 DEF Numbers
<1>5. \A s \in Small(S, n + 1) : Adds(h, f, s)
  BY <1>1, <1>2, <1>3 DEF Adds
<1> QED
  BY <1>4, <1>5

\* What is defined by recursion on a finite set exists: by induction on the size.
LEMMA AdderExists ==
  ASSUME NEW f, NEW S, Numbers(f, S)
  PROVE  \E g \in [SUBSET S -> Int] : Adder(g, f, S)
<1> DEFINE Good(n) == \E g \in [Small(S, n) -> Int] : \A s \in Small(S, n) : Adds(g, f, s)
           Bad == {n \in Nat : ~Good(n)}
<1>0. \A s \in SUBSET S : IsFiniteSet(s) /\ Cardinality(s) \in Nat
  BY FS_Subset, FS_CardinalityType DEF Numbers
<1>1. Good(0)
  <2>1. Small(S, 0) = {{}}
    BY <1>0, FS_EmptySet DEF Small
  <2>2. PICK g : g = [s \in Small(S, 0) |-> 0]
    OBVIOUS
  <2> QED
    BY <2>1, <2>2 DEF Adds
<1>2. \A n \in Nat : Good(n) => Good(n + 1)
  BY AdderGrows
<1> HIDE DEF Good
<1>3. Bad = {}
  <2> SUFFICES ASSUME Bad # {} PROVE FALSE
    OBVIOUS
  <2>1. PICK m \in Bad : \A k \in Bad : m <= k
    BY LeastNumber
  <2>2. m \in Nat /\ m # 0
    BY <1>1
  <2>3. Good(m - 1)
    BY <2>1, <2>2
  <2> QED
    BY <1>2, <2>2, <2>3
<1>4. Good(Cardinality(S))
  BY <1>3, FS_CardinalityType DEF Numbers
<1>5. Small(S, Cardinality(S)) = SUBSET S
  BY FS_Subset, <1>0 DEF Small, Numbers
<1>6. PICK g \in [SUBSET S -> Int] : \A s \in SUBSET S : Adds(g, f, s)
  BY <1>4, <1>5 DEF Good
<1>7. Adder(g, f, S)
  BY <1>6 DEF Adds, Adder
<1> QED
  BY <1>7

\* There is only one way to add up.
LEMMA AdderUnique ==
  ASSUME NEW f, NEW S, Numbers(f, S), NEW g, NEW h,
         \A s \in SUBSET S : Adds(g, f, s) /\ Adds(h, f, s)
  PROVE  g[S] = h[S]
<1> DEFINE Bad == {n \in Nat : \E s \in SUBSET S : Cardinality(s) = n /\ g[s] # h[s]}
<1>0. \A s \in SUBSET S : IsFiniteSet(s) /\ Cardinality(s) \in Nat
  BY FS_Subset, FS_CardinalityType DEF Numbers
<1>1. Bad = {}
  <2> SUFFICES ASSUME Bad # {} PROVE FALSE
    OBVIOUS
  <2>1. PICK m \in Bad : \A k \in Bad : m <= k
    BY LeastNumber
  <2>2. PICK s \in SUBSET S : Cardinality(s) = m /\ g[s] # h[s]
    BY <2>1
  <2>3. s # {}
    BY <2>2 DEF Adds
  <2>4. PICK x : x = Chosen(s)
    OBVIOUS
  <2>5. x \in s /\ s \ {x} \in SUBSET S /\ Cardinality(s \ {x}) = m - 1
    BY <1>0, <2>2, <2>3, <2>4, Chooses, FS_RemoveElement
  <2>6. g[s \ {x}] = h[s \ {x}]
    BY <1>0, <2>1, <2>5
  <2> QED
    BY <2>2, <2>3, <2>4, <2>6 DEF Adds
<1> QED
  BY <1>0, <1>1

\* Sum adds one element to the sum over the rest.
LEMMA SumStep ==
  ASSUME NEW f, NEW S, Numbers(f, S)
  PROVE  /\ Sum(f, S) \in Int
         /\ S = {} => Sum(f, S) = 0
         /\ S # {} => Sum(f, S) = f[Chosen(S)] + Sum(f, S \ {Chosen(S)})
<1>1. ASSUME NEW T \in SUBSET S
      PROVE  Numbers(f, T) /\ \E g \in [SUBSET T -> Int] : Adder(g, f, T) /\ Sum(f, T) = g[T]
  <2>1. Numbers(f, T)
    BY FS_Subset DEF Numbers
  <2>2. PICK g : Adder(g, f, T) /\ Sum(f, T) = g[T]
    BY <2>1, AdderExists, SumIs
  <2>3. PICK h \in [SUBSET T -> Int] : Adder(h, f, T)
    BY <2>1, AdderExists
  <2>4. ASSUME NEW s \in SUBSET T PROVE g[s] = h[s]
    <3>1. Numbers(f, s)
      BY <2>1, FS_Subset DEF Numbers
    <3>2. \A r \in SUBSET s : Adds(g, f, r) /\ Adds(h, f, r)
      BY <2>2, <2>3 DEF Adder, Adds
    <3> QED
      BY <3>1, <3>2, AdderUnique
  <2>5. g \in [SUBSET T -> Int]
    BY <2>2, <2>4 DEF Adder
  <2> QED
    BY <2>1, <2>2, <2>5
<1>2. PICK g \in [SUBSET S -> Int] : Adder(g, f, S) /\ Sum(f, S) = g[S]
  BY <1>1
<1>3. Sum(f, S) \in Int /\ (S = {} => Sum(f, S) = 0)
  BY <1>2 DEF Adder
<1>4. ASSUME S # {} PROVE Sum(f, S) = f[Chosen(S)] + Sum(f, S \ {Chosen(S)})
  <2>1. PICK T \in SUBSET S : T = S \ {Chosen(S)}
    OBVIOUS
  <2>2. Sum(f, S) = f[Chosen(S)] + g[T]
    BY <1>2, <1>4, <2>1 DEF Adder
  <2>3. PICK h \in [SUBSET T -> Int] : Adder(h, f, T) /\ Sum(f, T) = h[T]
    BY <1>1
  <2>4. g[T] = h[T]
    <3>1. \A r \in SUBSET T : Adds(g, f, r) /\ Adds(h, f, r)
      BY <1>2, <2>3 DEF Adder, Adds
    <3>2. Numbers(f, T)
      BY <1>1
    <3> QED
      BY <3>1, <3>2, AdderUnique
  <2> QED
    BY <2>1, <2>2, <2>3, <2>4
<1> QED
  BY <1>3, <1>4

\* Any element may be added first.
LEMMA SumAny ==
  ASSUME NEW f, NEW S, Numbers(f, S)
  PROVE  \A x \in S : Sum(f, S) = f[x] + Sum(f, S \ {x})
<1> DEFINE Wrong(T) == \E x \in T : Sum(f, T) # f[x] + Sum(f, T \ {x})
           Bad == {n \in Nat : \E T \in SUBSET S : Cardinality(T) = n /\ Wrong(T)}
<1>1. \A T \in SUBSET S : IsFiniteSet(T) /\ Cardinality(T) \in Nat /\ Numbers(f, T)
  BY FS_Subset, FS_CardinalityType DEF Numbers
<1>2. Bad = {}
  <2> SUFFICES ASSUME Bad # {} PROVE FALSE
    OBVIOUS
  <2>1. PICK m \in Bad : \A k \in Bad : m <= k
    BY LeastNumber
  <2>2. PICK T \in SUBSET S : Cardinality(T) = m /\ Wrong(T)
    BY <2>1
  <2>3. PICK x \in T : Sum(f, T) # f[x] + Sum(f, T \ {x})
    BY <2>2
  <2>4. PICK y \in T : y = Chosen(T) /\ Sum(f, T) = f[y] + Sum(f, T \ {y})
    BY <1>1, <2>3, SumStep, Chooses
  <2>5. x # y
    BY <2>3, <2>4
  <2>6. /\ Cardinality(T \ {x}) = m - 1
        /\ Cardinality(T \ {y}) = m - 1
    BY <1>1, <2>2, FS_RemoveElement
  <2>7. ~Wrong(T \ {x}) /\ ~Wrong(T \ {y})
    <3>1. ASSUME NEW A \in SUBSET S, Cardinality(A) = m - 1 PROVE ~Wrong(A)
      BY <1>1, <2>1, <3>1
    <3> QED
      BY <2>6, <3>1
  <2>8. /\ Sum(f, T \ {y}) = f[x] + Sum(f, (T \ {y}) \ {x})
        /\ Sum(f, T \ {x}) = f[y] + Sum(f, (T \ {x}) \ {y})
    BY <2>5, <2>7
  <2>9. (T \ {y}) \ {x} = (T \ {x}) \ {y}
    OBVIOUS
  <2>10. PICK U \in SUBSET S : U = (T \ {x}) \ {y}
    OBVIOUS
  <2>11. Sum(f, U) \in Int /\ f[x] \in Int /\ f[y] \in Int
    BY <1>1, SumStep DEF Numbers
  <2> QED
    BY <2>3, <2>4, <2>8, <2>9, <2>10, <2>11
<1> QED
  BY <1>1, <1>2

\* A sum depends on nothing but the numbers.
LEMMA SumSame ==
  ASSUME NEW f, NEW g, NEW S, Numbers(f, S), \A x \in S : g[x] = f[x]
  PROVE  Sum(g, S) = Sum(f, S)
<1> DEFINE Bad == {n \in Nat : \E T \in SUBSET S : Cardinality(T) = n /\ Sum(g, T) # Sum(f, T)}
<1>1. \A T \in SUBSET S : /\ IsFiniteSet(T) /\ Cardinality(T) \in Nat
                          /\ Numbers(f, T) /\ Numbers(g, T)
  BY FS_Subset, FS_CardinalityType DEF Numbers
<1>2. Bad = {}
  <2> SUFFICES ASSUME Bad # {} PROVE FALSE
    OBVIOUS
  <2>1. PICK m \in Bad : \A k \in Bad : m <= k
    BY LeastNumber
  <2>2. PICK T \in SUBSET S : Cardinality(T) = m /\ Sum(g, T) # Sum(f, T)
    BY <2>1
  <2>3. T # {}
    BY <1>1, <2>2, SumStep
  <2>4. PICK x \in T : TRUE
    BY <2>3
  <2>5. Cardinality(T \ {x}) = m - 1
    BY <1>1, <2>2, FS_RemoveElement
  <2>6. Sum(g, T \ {x}) = Sum(f, T \ {x})
    BY <1>1, <2>1, <2>5
  <2> QED
    BY <1>1, <2>2, <2>6, SumAny
<1> QED
  BY <1>1, <1>2

\* One number changes, and the sum by as much.
LEMMA SumMoves ==
  ASSUME NEW f, NEW g, NEW S, Numbers(f, S), NEW x \in S, g[x] \in Int,
         \A y \in S \ {x} : g[y] = f[y]
  PROVE  Sum(f, S) \in Int /\ Sum(g, S) = Sum(f, S) + (g[x] - f[x])
<1>1. Numbers(g, S) /\ Numbers(f, S \ {x}) /\ f[x] \in Int
  BY FS_RemoveElement DEF Numbers
<1>2. /\ Sum(f, S) = f[x] + Sum(f, S \ {x})
      /\ Sum(g, S) = g[x] + Sum(g, S \ {x})
  BY <1>1, SumAny
<1>3. Sum(g, S \ {x}) = Sum(f, S \ {x}) /\ Sum(f, S \ {x}) \in Int
  <2>1. PICK T : T = S \ {x}
    OBVIOUS
  <2>2. Numbers(f, T) /\ \A y \in T : g[y] = f[y]
    BY <1>1, <2>1
  <2>3. Sum(g, T) = Sum(f, T)
    BY <2>2, SumSame
  <2>4. Sum(f, T) \in Int
    BY <2>2, SumStep
  <2> QED
    BY <2>1, <2>3, <2>4
<1> QED
  BY <1>1, <1>2, <1>3

-----------------------------------------------------------------------------
(* No money appears *)

\* Accounts and entries can be added up.
LEMMA TablesAddUp ==
  ASSUME WalletInv
  PROVE  /\ Numbers(balance, Accounts)
         /\ DOMAIN deposit = Deposits /\ DOMAIN withdrawal = Withdrawals
         /\ Numbers(Entered(deposit), Deposits)
         /\ Numbers(Entered(withdrawal), Withdrawals)
<1>1. IsFiniteSet(Accounts)
  BY TablesAssumption, FS_AddElement DEF Accounts
<1>2. DOMAIN deposit = Deposits /\ DOMAIN withdrawal = Withdrawals
  BY DEF WalletInv, TypeOK
<1>3. \A r \in Deposits \cup Withdrawals : entries[r] \in Int
  BY DEF WalletInv, TypeOK
<1>4. \A i, j \in Int : i * j \in Int
  OBVIOUS
<1>5. /\ \A d \in Deposits : entries[d] * deposit[d].amount \in Int
      /\ \A q \in Withdrawals : entries[q] * withdrawal[q].amount \in Int
  BY <1>3, <1>4, RowType, WalletsAssumption
<1> QED
  BY <1>1, <1>2, <1>5, TablesAssumption DEF Numbers, Entered, WalletInv, TypeOK

\* An entry on one account.
LEMMA OneLine ==
  ASSUME WalletInv, NEW a \in Accounts, NEW n \in Int, Increment(On(a, n))
  PROVE  Sum(balance', Accounts) = Sum(balance, Accounts) + n
<1>1. \A b \in Accounts : balance'[b] = balance[b] + On(a, n)[b]
  BY DEF Increment
<1>2. balance[a] \in Int /\ \A b \in Accounts : balance[b] \in Int
  BY DEF WalletInv, TypeOK
<1>3. balance'[a] = balance[a] + n /\ \A b \in Accounts \ {a} : balance'[b] = balance[b]
  BY <1>1, <1>2 DEF On
<1>4. Sum(balance', Accounts) = Sum(balance, Accounts) + (balance'[a] - balance[a])
  BY <1>2, <1>3, TablesAddUp, SumMoves
<1>5. balance'[a] - balance[a] = n
  BY <1>2, <1>3
<1> QED
  BY <1>4, <1>5

\* Three accounts change.
LEMMA ThreeMove ==
  ASSUME NEW f, NEW g, NEW S, Numbers(f, S), NEW x \in S, NEW y \in S, NEW z \in S,
         x # y, x # z, y # z, g[x] \in Int, g[y] \in Int, g[z] \in Int,
         \A u \in S \ {x, y, z} : g[u] = f[u]
  PROVE  /\ Sum(f, S) \in Int
         /\ Sum(g, S) = Sum(f, S) + (g[x] - f[x]) + (g[y] - f[y]) + (g[z] - f[z])
<1>1. PICK f1 : f1 = [u \in S |-> IF u = x THEN g[u] ELSE f[u]]
  OBVIOUS
<1>2. PICK f2 : f2 = [u \in S |-> IF u = y THEN g[u] ELSE f1[u]]
  OBVIOUS
<1>3. Numbers(f1, S) /\ Numbers(f2, S)
  BY <1>1, <1>2 DEF Numbers
<1>4. Sum(f, S) \in Int /\ Sum(f1, S) = Sum(f, S) + (g[x] - f[x])
  <2>1. f1[x] = g[x] /\ \A u \in S \ {x} : f1[u] = f[u]
    BY <1>1
  <2> QED
    BY <2>1, SumMoves
<1>5. Sum(f1, S) \in Int /\ Sum(f2, S) = Sum(f1, S) + (g[y] - f[y])
  <2>1. f1[y] = f[y] /\ f2[y] = g[y] /\ \A u \in S \ {y} : f2[u] = f1[u]
    BY <1>1, <1>2
  <2>2. Numbers(f1, S) /\ f2[y] \in Int
    BY <1>3, <2>1
  <2>3. Sum(f1, S) \in Int /\ Sum(f2, S) = Sum(f1, S) + (f2[y] - f1[y])
    BY <2>1, <2>2, SumMoves
  <2> QED
    BY <2>1, <2>3
<1>6. Sum(f2, S) \in Int /\ Sum(g, S) = Sum(f2, S) + (g[z] - f[z])
  <2>1. f2[z] = f[z] /\ \A u \in S \ {z} : g[u] = f2[u]
    BY <1>1, <1>2
  <2> QED
    BY <1>3, <2>1, SumMoves
<1>7. f[x] \in Int /\ f[y] \in Int /\ f[z] \in Int
  BY DEF Numbers
<1> QED
  BY <1>4, <1>5, <1>6, <1>7

\* What a change comes to that moves money between a load's parties and the platform.
LEMMA FeesMove ==
  ASSUME WalletInv, NEW l \in Loads, NEW change \in [Accounts -> Int], Increment(change),
         \A a \in Accounts \ {Platform, ShipperOf[l], CarrierOf[l]} : change[a] = 0,
         change[Platform] + change[ShipperOf[l]] + change[CarrierOf[l]] <= 0
  PROVE  Sum(balance', Accounts) <= Sum(balance, Accounts) /\ Sum(balance', Accounts) \in Int
<1>1. PICK x, y, z : x = Platform /\ y = ShipperOf[l] /\ z = CarrierOf[l]
  OBVIOUS
<1>2. x \in Accounts /\ y \in Accounts /\ z \in Accounts /\ x # y /\ x # z /\ y # z
  BY <1>1, WalletsAssumption DEF Accounts
<1>3. \A a \in Accounts : /\ balance[a] \in Int /\ change[a] \in Int
                          /\ balance'[a] = balance[a] + change[a]
  BY DEF Increment, WalletInv, TypeOK
<1>4. /\ balance'[x] \in Int /\ balance'[y] \in Int /\ balance'[z] \in Int
      /\ \A u \in Accounts \ {x, y, z} : balance'[u] = balance[u]
  BY <1>1, <1>2, <1>3
<1>5. /\ Sum(balance, Accounts) \in Int
      /\ Sum(balance', Accounts) = Sum(balance, Accounts) + (balance'[x] - balance[x])
             + (balance'[y] - balance[y]) + (balance'[z] - balance[z])
  BY <1>2, <1>4, TablesAddUp, ThreeMove
<1>6. /\ balance'[x] - balance[x] = change[x] /\ balance'[y] - balance[y] = change[y]
      /\ balance'[z] - balance[z] = change[z]
      /\ change[x] + change[y] + change[z] <= 0
  BY <1>1, <1>2, <1>3
<1> QED
  BY <1>2, <1>3, <1>5, <1>6

\* The next state's account, from its sums.
LEMMA NextAccounted ==
  ASSUME WalletInv, WalletInv', MoneyAccounted, NEW i \in Int, NEW j \in Int, NEW k \in Int,
         Sum(balance', Accounts) <= Sum(balance, Accounts) + i,
         Sum(Entered(deposit)', Deposits) = Sum(Entered(deposit), Deposits) + j,
         Sum(Entered(withdrawal)', Withdrawals) = Sum(Entered(withdrawal), Withdrawals) + k,
         i <= j + k
  PROVE  MoneyAccounted'
<1>1. /\ Sum(balance, Accounts) \in Int /\ Sum(Entered(deposit), Deposits) \in Int
      /\ Sum(Entered(withdrawal), Withdrawals) \in Int
  BY TablesAddUp, SumStep
<1>2. Numbers(balance', Accounts)
  BY TablesAddUp, TablesAssumption, FS_AddElement
     DEF WalletInv, TypeOK, Numbers, Accounts
<1>3. Sum(balance', Accounts) \in Int
  BY <1>2, SumStep
<1> QED
  BY <1>1, <1>3 DEF MoneyAccounted

\* Rows whose entries stay come to the same.
LEMMA SameEntered ==
  ASSUME WalletInv, WalletInv'
  PROVE  /\ (\A d \in Deposits : entries'[d] = entries[d] /\
                (entries[d] = 0 \/ deposit'[d].amount = deposit[d].amount))
              => Sum(Entered(deposit)', Deposits) = Sum(Entered(deposit), Deposits) + 0
         /\ (\A q \in Withdrawals : entries'[q] = entries[q] /\
                (entries[q] = 0 \/ withdrawal'[q].amount = withdrawal[q].amount))
              => Sum(Entered(withdrawal)', Withdrawals) = Sum(Entered(withdrawal), Withdrawals) + 0
<1>1. PICK f, g, h, e : /\ f = Entered(deposit) /\ g = Entered(deposit)'
                        /\ h = Entered(withdrawal) /\ e = Entered(withdrawal)'
  OBVIOUS
<1>2. /\ Numbers(f, Deposits) /\ Numbers(h, Withdrawals)
      /\ Sum(f, Deposits) \in Int /\ Sum(h, Withdrawals) \in Int
  BY <1>1, TablesAddUp, SumStep
<1>3. /\ f = [d \in Deposits |-> entries[d] * deposit[d].amount]
      /\ g = [d \in Deposits |-> entries'[d] * deposit'[d].amount]
      /\ h = [q \in Withdrawals |-> entries[q] * withdrawal[q].amount]
      /\ e = [q \in Withdrawals |-> entries'[q] * withdrawal'[q].amount]
  BY <1>1 DEF Entered, WalletInv, TypeOK
<1>4. /\ \A d \in Deposits : deposit[d].amount \in Int /\ deposit'[d].amount \in Int
      /\ \A q \in Withdrawals : withdrawal[q].amount \in Int /\ withdrawal'[q].amount \in Int
  <2>1. Amounts \cup {0} \subseteq Int
    BY WalletsAssumption
  <2>2. /\ \A d \in Deposits : deposit[d] \in Row(DepositStatuses)
                                 /\ deposit'[d] \in Row(DepositStatuses)
        /\ \A q \in Withdrawals : withdrawal[q] \in Row(WithdrawalStatuses)
                                    /\ withdrawal'[q] \in Row(WithdrawalStatuses)
    BY DEF WalletInv, TypeOK
  <2> QED
    BY <2>1, <2>2 DEF Row
<1>5. \A i \in Int : 0 * i = 0
  OBVIOUS
<1>6. ASSUME \A d \in Deposits : entries'[d] = entries[d] /\
               (entries[d] = 0 \/ deposit'[d].amount = deposit[d].amount)
      PROVE  Sum(g, Deposits) = Sum(f, Deposits) + 0
  <2>1. \A d \in Deposits : g[d] = f[d]
    BY <1>3, <1>4, <1>5, <1>6
  <2> QED
    BY <1>2, <2>1, SumSame
<1>7. ASSUME \A q \in Withdrawals : entries'[q] = entries[q] /\
               (entries[q] = 0 \/ withdrawal'[q].amount = withdrawal[q].amount)
      PROVE  Sum(e, Withdrawals) = Sum(h, Withdrawals) + 0
  <2>1. \A q \in Withdrawals : e[q] = h[q]
    BY <1>3, <1>4, <1>5, <1>7
  <2> QED
    BY <1>2, <2>1, SumSame
<1> QED
  BY <1>1, <1>6, <1>7

\* A step that enters nothing.
LEMMA NothingEntered ==
  ASSUME WalletInv, WalletInv', MoneyAccounted, entries' = entries,
         Sum(balance', Accounts) <= Sum(balance, Accounts),
         \A d \in Deposits : entries[d] = 0 \/ deposit'[d].amount = deposit[d].amount,
         \A q \in Withdrawals : entries[q] = 0 \/ withdrawal'[q].amount = withdrawal[q].amount
  PROVE  MoneyAccounted'
<1>1. /\ Sum(Entered(deposit)', Deposits) = Sum(Entered(deposit), Deposits) + 0
      /\ Sum(Entered(withdrawal)', Withdrawals) = Sum(Entered(withdrawal), Withdrawals) + 0
  BY SameEntered
<1>2. Sum(balance, Accounts) \in Int
  BY TablesAddUp, SumStep
<1>3. Sum(balance', Accounts) <= Sum(balance, Accounts) + 0
  BY <1>2
<1> QED
  BY <1>1, <1>3, NextAccounted

\* A fee is collected.
LEMMA DeductAccounted ==
  ASSUME WalletInv, WalletInv', MoneyAccounted, NEW w \in Workers, CommitDeduct(w)
  PROVE  MoneyAccounted'
<1>0. PICK l \in Loads : l = job[w].row
  BY DEF CommitDeduct, WalletInv, JobsFit, FeeOps
<1>1. PICK change :
        /\ change = [a \in Accounts |-> IF a = Platform THEN Total(Paid(w))
                                                        ELSE -Share(l, Paid(w), a)]
        /\ Increment(change)
  BY <1>0 DEF CommitDeduct
<1>2. Paid(w) \in [Parties -> Nat]
  BY PaidType DEF WalletInv
<1>3. /\ ShipperOf[l] \in Accounts \ {Platform} /\ CarrierOf[l] \in Accounts \ {Platform}
      /\ ShipperOf[l] # CarrierOf[l] /\ Platform \in Accounts
  BY WalletsAssumption DEF Accounts
<1>4. change \in [Accounts -> Int]
  BY <1>1, <1>2, ShareType
<1>5. Paid(w)["shipper"] \in Nat /\ Paid(w)["carrier"] \in Nat
  BY <1>2 DEF Parties
<1>6. /\ change[Platform] = Paid(w)["shipper"] + Paid(w)["carrier"]
      /\ change[ShipperOf[l]] = -Paid(w)["shipper"]
      /\ change[CarrierOf[l]] = -Paid(w)["carrier"]
      /\ \A a \in Accounts \ {Platform, ShipperOf[l], CarrierOf[l]} : change[a] = 0
  BY <1>1, <1>3, <1>5 DEF Share, Total
<1>7. change[Platform] + change[ShipperOf[l]] + change[CarrierOf[l]] <= 0
  BY <1>5, <1>6
<1>8. Sum(balance', Accounts) <= Sum(balance, Accounts)
  BY <1>1, <1>4, <1>6, <1>7, FeesMove
<1> QED
  BY <1>8, NothingEntered DEF CommitDeduct, requestRows

\* A fee is returned, or less than the platform pays for it.
LEMMA RefundAccounted ==
  ASSUME WalletInv, WalletInv', MoneyAccounted, NEW w \in Workers, CommitRefund(w)
  PROVE  MoneyAccounted'
<1>0. PICK l \in Loads : l = job[w].row
  BY DEF CommitRefund, WalletInv, JobsFit, FeeOps
<1>1. PICK change, amount :
        /\ amount = job[w].amount
        /\ change = [a \in Accounts |-> IF a = Platform THEN -Total(amount)
                                                        ELSE Share(l, Paid(w), a)]
        /\ Increment(change)
  BY <1>0 DEF CommitRefund
<1>2. Paid(w) \in [Parties -> Nat] /\ amount \in [Parties -> Nat]
  BY <1>1, PaidType DEF WalletInv
<1>3. /\ ShipperOf[l] \in Accounts \ {Platform} /\ CarrierOf[l] \in Accounts \ {Platform}
      /\ ShipperOf[l] # CarrierOf[l] /\ Platform \in Accounts
  BY WalletsAssumption DEF Accounts
<1>4. change \in [Accounts -> Int]
  BY <1>1, <1>2, ShareType
<1>5. /\ Paid(w)["shipper"] \in Nat /\ Paid(w)["carrier"] \in Nat
      /\ amount["shipper"] \in Nat /\ amount["carrier"] \in Nat
      /\ Paid(w)["shipper"] <= amount["shipper"] /\ Paid(w)["carrier"] <= amount["carrier"]
  BY <1>1, <1>2 DEF Parties, Paid
<1>6. /\ change[Platform] = -(amount["shipper"] + amount["carrier"])
      /\ change[ShipperOf[l]] = Paid(w)["shipper"]
      /\ change[CarrierOf[l]] = Paid(w)["carrier"]
      /\ \A a \in Accounts \ {Platform, ShipperOf[l], CarrierOf[l]} : change[a] = 0
  BY <1>1, <1>3, <1>5 DEF Share, Total
<1>7. change[Platform] + change[ShipperOf[l]] + change[CarrierOf[l]] <= 0
  BY <1>5, <1>6
<1>8. Sum(balance', Accounts) <= Sum(balance, Accounts)
  BY <1>1, <1>4, <1>6, <1>7, FeesMove
<1> QED
  BY <1>8, NothingEntered DEF CommitRefund, requestRows

\* A deposit is credited once more, for its amount.
LEMMA DepositEntered ==
  ASSUME WalletInv, WalletInv', MoneyAccounted, NEW d \in Deposits, NEW a, NEW n \in Nat,
         Increment(On(a, n)), entries' = [entries EXCEPT ![d] = @ + 1],
         withdrawal' = withdrawal, deposit'[d].amount = n,
         entries[d] = 0 \/ deposit[d].amount = n,
         \A c \in Deposits \ {d} : deposit'[c] = deposit[c]
  PROVE  MoneyAccounted'
<1>1. PICK f, g : f = Entered(deposit) /\ g = Entered(deposit)'
  OBVIOUS
<1>2. PICK i \in Int : i = entries[d]
  BY DEF WalletInv, TypeOK
<1>3. d \notin Withdrawals
  BY WalletsAssumption
<1>4. /\ f = [c \in Deposits |-> entries[c] * deposit[c].amount]
      /\ g = [c \in Deposits |-> entries'[c] * deposit'[c].amount]
  BY <1>1 DEF Entered, WalletInv, TypeOK
<1>5. /\ entries'[d] = i + 1
      /\ \A r \in (Deposits \cup Withdrawals) \ {d} : entries'[r] = entries[r]
  BY <1>2 DEF WalletInv, TypeOK
<1>6. f[d] = i * n
  <2>1. deposit[d].amount \in Int
    BY RowType, WalletsAssumption
  <2>2. 0 * deposit[d].amount = 0 /\ 0 * n = 0
    BY <2>1
  <2> QED
    BY <1>2, <1>4, <2>2
<1>7. g[d] = (i + 1) * n /\ \A c \in Deposits \ {d} : g[c] = f[c]
  BY <1>4, <1>5
<1>8. Sum(g, Deposits) = Sum(f, Deposits) + 1 * n
  <2>1. Numbers(f, Deposits)
    BY <1>1, TablesAddUp
  <2>2. (i + 1) * n \in Int /\ (i + 1) * n - i * n = 1 * n
    OBVIOUS
  <2>3. g[d] \in Int /\ g[d] - f[d] = 1 * n
    BY <1>6, <1>7, <2>2
  <2>4. Sum(g, Deposits) = Sum(f, Deposits) + (g[d] - f[d])
    BY <1>7, <2>1, <2>3, SumMoves
  <2> QED
    BY <2>3, <2>4
<1>9. Sum(Entered(deposit)', Deposits) = Sum(Entered(deposit), Deposits) + n
  BY <1>1, <1>8
<1>10. Sum(Entered(withdrawal)', Withdrawals) = Sum(Entered(withdrawal), Withdrawals) + 0
  BY <1>3, <1>5, SameEntered
<1>11. Sum(balance', Accounts) <= Sum(balance, Accounts) + n
  <2>1. Sum(balance, Accounts) \in Int
    BY TablesAddUp, SumStep
  <2>2. CASE a \in Accounts
    BY <2>1, <2>2, OneLine
  <2>3. CASE a \notin Accounts
    <3>1. \A b \in Accounts : balance'[b] = balance[b]
      BY <2>3 DEF Increment, On, WalletInv, TypeOK
    <3>2. Sum(balance', Accounts) = Sum(balance, Accounts)
      BY <3>1, TablesAddUp, SumSame
    <3> QED
      BY <2>1, <3>2
  <2> QED
    BY <2>2, <2>3
<1> QED
  BY <1>9, <1>10, <1>11, NextAccounted

\* A decision on a withdrawal enters its amount, as a debit or a credit.
LEMMA DecideAccounted ==
  ASSUME WalletInv, WalletInv', DecidedAsked, MoneyAccounted, NEW w \in Workers,
         CommitApprove(w) \/ CommitReject(w)
  PROVE  MoneyAccounted'
<1>1. PICK q \in Withdrawals : q = job[w].row /\ withdrawal[q].wallet \in Accounts
  BY DEF CommitApprove, CommitReject, WalletInv, JobsFit, DecidedAsked, Asked, Accounts
<1>2. PICK n \in Int : n = withdrawal[q].amount
  BY RowType, WalletsAssumption
<1>3. PICK k \in {1, -1}, s \in {"APPROVED", "REJECTED"} :
        /\ Increment(On(withdrawal[q].wallet, k * n))
        /\ entries' = [entries EXCEPT ![q] = @ + k]
        /\ withdrawal' = [withdrawal EXCEPT ![q].status = s]
        /\ deposit' = deposit
  <2>1. 1 * n = n /\ (-1) * n = -n
    OBVIOUS
  <2>2. entries[q] - 1 = entries[q] + (-1)
    BY DEF WalletInv, TypeOK
  <2>3. CASE CommitApprove(w)
    BY <1>1, <1>2, <2>1, <2>2, <2>3 DEF CommitApprove
  <2>4. CASE CommitReject(w)
    BY <1>1, <1>2, <2>1, <2>4 DEF CommitReject
  <2> QED
    BY <2>3, <2>4
<1>4. PICK f, g : f = Entered(withdrawal) /\ g = Entered(withdrawal)'
  OBVIOUS
<1>5. PICK i \in Int : i = entries[q]
  BY DEF WalletInv, TypeOK
<1>6. q \notin Deposits
  BY WalletsAssumption
<1>7. /\ f = [p \in Withdrawals |-> entries[p] * withdrawal[p].amount]
      /\ g = [p \in Withdrawals |-> entries'[p] * withdrawal'[p].amount]
  BY <1>4 DEF Entered, WalletInv, TypeOK
<1>8. /\ entries'[q] = i + k
      /\ \A r \in (Deposits \cup Withdrawals) \ {q} : entries'[r] = entries[r]
  BY <1>3, <1>5 DEF WalletInv, TypeOK
<1>9. \A p \in Withdrawals : withdrawal'[p].amount = withdrawal[p].amount
  BY <1>3 DEF WalletInv, TypeOK, Row
<1>10. /\ f[q] = i * n /\ g[q] = (i + k) * n
       /\ \A p \in Withdrawals \ {q} : g[p] = f[p]
  BY <1>2, <1>5, <1>7, <1>8, <1>9
<1>11. Sum(g, Withdrawals) = Sum(f, Withdrawals) + k * n
  <2>1. Numbers(f, Withdrawals) /\ k \in Int
    BY <1>4, TablesAddUp
  <2>2. (i + k) * n \in Int /\ (i + k) * n - i * n = k * n
    BY <2>1
  <2>3. g[q] \in Int /\ g[q] - f[q] = k * n
    BY <1>10, <2>2
  <2>4. Sum(g, Withdrawals) = Sum(f, Withdrawals) + (g[q] - f[q])
    BY <1>10, <2>1, <2>3, SumMoves
  <2> QED
    BY <2>3, <2>4
<1>12. PICK m \in Int : m = k * n
  OBVIOUS
<1>13. Sum(Entered(withdrawal)', Withdrawals) = Sum(Entered(withdrawal), Withdrawals) + m
  BY <1>4, <1>11, <1>12
<1>14. Sum(Entered(deposit)', Deposits) = Sum(Entered(deposit), Deposits) + 0
  BY <1>3, <1>6, <1>8, SameEntered
<1>15. Sum(balance', Accounts) = Sum(balance, Accounts) + m
  BY <1>1, <1>3, <1>12, OneLine
<1>16. Sum(balance, Accounts) \in Int
  BY TablesAddUp, SumStep
<1>17. Sum(balance', Accounts) <= Sum(balance, Accounts) + m
  BY <1>15, <1>16
<1> QED
  BY <1>13, <1>14, <1>17, NextAccounted

\* A step that moves no money and leaves the amounts of entered rows alone.
LEMMA QuietAccounted ==
  ASSUME WalletInv, WalletInv', MoneyAccounted, UNCHANGED <<balance, entries>>,
         \A d \in Deposits : entries[d] = 0 \/ deposit'[d].amount = deposit[d].amount,
         \A q \in Withdrawals : entries[q] = 0 \/ withdrawal'[q].amount = withdrawal[q].amount
  PROVE  MoneyAccounted'
<1>1. Sum(balance, Accounts) \in Int
  BY TablesAddUp, SumStep
<1>2. PICK b : b = balance' /\ b = balance
  OBVIOUS
<1>3. Sum(balance', Accounts) <= Sum(balance, Accounts)
  BY <1>1, <1>2
<1> QED
  BY <1>3, NothingEntered

\* No step of the specification makes money.
LEMMA MoneyStep ==
  ASSUME WalletInv, WalletInv', DecidedAsked, MoneyAccounted, [Next]_vars
  PROVE  MoneyAccounted'
<1>1. ASSUME UNCHANGED <<money, requestRows>> PROVE MoneyAccounted'
  BY <1>1, QuietAccounted DEF money, requestRows
<1>2. ASSUME NEW w \in Workers, FeeStep(w) PROVE MoneyAccounted'
  <2>1. CASE CommitDeduct(w) \/ CommitRefund(w)
    BY <2>1, DeductAccounted, RefundAccounted
  <2>2. CASE \E l \in Loads : BeginDeduct(w, l) \/ BeginWaive(w, l) \/ CancelLoad(w, l)
    BY <1>1, <2>2 DEF BeginDeduct, BeginWaive, CancelLoad
  <2>3. CASE CheckDeduct(w) \/ CommitWaive(w) \/ BeginRefund(w) \/ CheckRefund(w)
               \/ CommitRefundNothing(w)
    BY <1>1, <2>3 DEF CheckDeduct, CommitWaive, BeginRefund, CheckRefund, CommitRefundNothing
  <2> QED
    BY <1>2, <2>1, <2>2, <2>3 DEF FeeStep
<1>3. ASSUME NEW w \in Workers, AdminStep(w) PROVE MoneyAccounted'
  <2>1. CASE CommitApproveDeposit(w)
    <3>1. PICK d \in Deposits : d = job[w].row
      BY <2>1 DEF CommitApproveDeposit, WalletInv, JobsFit
    <3>2. PICK n \in Nat : n = deposit[d].amount
      BY <3>1, WalletsAssumption DEF WalletInv, TypeOK, Row
    <3>3. /\ Increment(On(deposit[d].wallet, n))
          /\ entries' = [entries EXCEPT ![d] = @ + 1] /\ withdrawal' = withdrawal
      BY <2>1, <3>1, <3>2 DEF CommitApproveDeposit
    <3>4. deposit'[d].amount = n /\ \A c \in Deposits \ {d} : deposit'[c] = deposit[c]
      BY <2>1, <3>1, <3>2 DEF CommitApproveDeposit, WalletInv, TypeOK, Row
    <3> QED
      BY <3>2, <3>3, <3>4, DepositEntered
  <2>2. CASE CommitRejectDeposit(w)
    <3>1. \A d \in Deposits : deposit'[d].amount = deposit[d].amount
      BY <2>2 DEF CommitRejectDeposit, WalletInv, TypeOK, JobsFit, Row
    <3> QED
      BY <2>2, <3>1, QuietAccounted DEF CommitRejectDeposit, money
  <2>3. CASE CommitApprove(w) \/ CommitReject(w)
    BY <2>3, DecideAccounted
  <2>4. CASE \/ \E d \in Deposits : BeginApproveDeposit(w, d) \/ BeginRejectDeposit(w, d)
             \/ \E q \in Withdrawals : BeginApprove(w, q) \/ BeginReject(w, q)
             \/ CheckApprove(w)
    BY <1>1, <2>4 DEF BeginApproveDeposit, BeginRejectDeposit, BeginDeposit, BeginApprove,
                      BeginReject, BeginDecide, CheckApprove
  <2> QED
    BY <1>3, <2>1, <2>2, <2>3, <2>4 DEF AdminStep
<1>4. ASSUME WalletOwnerStep PROVE MoneyAccounted'
  <2>1. PICK a \in Wallets, n \in Amounts :
          \/ \E d \in Deposits : RequestDeposit(d, a, n) \/ TopUp(d, a, n)
          \/ \E q \in Withdrawals : RequestWithdrawal(q, a, n)
    BY <1>4 DEF WalletOwnerStep
  <2>2. n \in Nat
    BY WalletsAssumption
  <2>3. ASSUME NEW d \in Deposits, RequestDeposit(d, a, n) PROVE MoneyAccounted'
    <3>1. entries[d] = 0 /\ \A c \in Deposits \ {d} : deposit'[c] = deposit[c]
      BY <2>3 DEF RequestDeposit, WalletInv, TypeOK, PendingUntouched
    <3> QED
      BY <2>3, <3>1, QuietAccounted DEF RequestDeposit, money
  <2>4. ASSUME NEW d \in Deposits, TopUp(d, a, n) PROVE MoneyAccounted'
    <3>1. entries[d] = 0 /\ deposit'[d].amount = n
          /\ \A c \in Deposits \ {d} : deposit'[c] = deposit[c]
      BY <2>4 DEF TopUp, WalletInv, TypeOK, PendingUntouched
    <3>2. /\ Increment(On(a, n)) /\ withdrawal' = withdrawal
          /\ entries' = [entries EXCEPT ![d] = @ + 1]
      BY <2>4 DEF TopUp
    <3> QED
      BY <2>2, <3>1, <3>2, DepositEntered
  <2>5. ASSUME NEW q \in Withdrawals, RequestWithdrawal(q, a, n) PROVE MoneyAccounted'
    <3>1. entries[q] = 0 /\ \A p \in Withdrawals \ {q} : withdrawal'[p] = withdrawal[p]
      BY <2>5 DEF RequestWithdrawal, WalletInv, TypeOK, PendingUntouched
    <3> QED
      BY <2>5, <3>1, QuietAccounted DEF RequestWithdrawal, money
  <2> QED
    BY <2>1, <2>3, <2>4, <2>5
<1>5. ASSUME LoadStep PROVE MoneyAccounted'
  BY <1>1, <1>5 DEF LoadStep, Book, TruckTaken, Deliver
<1>6. ASSUME NEW w \in Workers, Abort(w) PROVE MoneyAccounted'
  BY <1>1, <1>6 DEF Abort
<1>7. ASSUME UNCHANGED vars PROVE MoneyAccounted'
  BY <1>1, <1>7 DEF vars
<1> QED
  BY <1>2, <1>3, <1>4, <1>5, <1>6, <1>7 DEF Next

\* Nothing was paid in, nothing is there.
LEMMA NothingThere ==
  ASSUME WalletInv, Init
  PROVE  MoneyAccounted
<1>1. ASSUME NEW f, NEW S, Numbers(f, S), \A x \in S : f[x] = 0 PROVE Sum(f, S) = 0
  <2> DEFINE Bad == {k \in Nat : \E T \in SUBSET S : Cardinality(T) = k /\ Sum(f, T) # 0}
  <2>1. \A T \in SUBSET S : IsFiniteSet(T) /\ Cardinality(T) \in Nat /\ Numbers(f, T)
    BY <1>1, FS_Subset, FS_CardinalityType DEF Numbers
  <2>2. Bad = {}
    <3> SUFFICES ASSUME Bad # {} PROVE FALSE
      OBVIOUS
    <3>1. PICK m \in Bad : \A k \in Bad : m <= k
      BY LeastNumber
    <3>2. PICK T \in SUBSET S : Cardinality(T) = m /\ Sum(f, T) # 0
      BY <3>1
    <3>3. PICK x \in T : TRUE
      BY <2>1, <3>2, SumStep
    <3>4. Cardinality(T \ {x}) = m - 1
      BY <2>1, <3>2, FS_RemoveElement
    <3>5. Sum(f, T \ {x}) = 0
      BY <2>1, <3>1, <3>4
    <3> QED
      BY <1>1, <2>1, <3>2, <3>5, SumAny
  <2> QED
    BY <2>1, <2>2
<1>2. /\ \A a \in Accounts : balance[a] = 0
      /\ \A d \in Deposits : Entered(deposit)[d] = 0
      /\ \A q \in Withdrawals : Entered(withdrawal)[q] = 0
  <2>1. \A i \in Int : 0 * i = 0
    OBVIOUS
  <2> QED
    BY <2>1, RowType, WalletsAssumption DEF Init, Entered
<1> QED
  BY <1>1, <1>2, TablesAddUp DEF MoneyAccounted

\* What all accounts hold was paid in and not paid out, however many handlers charge,
\* return, decide and fail at once.
THEOREM WalletsMoneyAccounted == Spec => []MoneyAccounted
<1>1. Init /\ WalletInv => MoneyAccounted
  BY NothingThere
<1>2. WalletInv /\ WalletInv' /\ SolvencyInv /\ MoneyAccounted /\ [Next]_vars => MoneyAccounted'
  BY MoneyStep DEF SolvencyInv
<1> QED
  BY <1>1, <1>2, WalletInvariant, SolvencyInvariant, PTL DEF Spec
=============================================================================
