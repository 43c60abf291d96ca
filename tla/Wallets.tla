-------------------------------- MODULE Wallets --------------------------------
(***************************************************************************)
(* Money: the wallets, the journal, the service fees of loads, deposits    *)
(* and withdrawals.  As in Booking, a worker reads (Begin...), and writes  *)
(* in a later step; deductServiceFee and refundServiceFee are called by    *)
(* many handlers, none of which excludes another.                          *)
(***************************************************************************)
EXTENDS Integers, FiniteSets, FiniteSetsExt

CONSTANTS Loads, Deposits, Withdrawals, Workers,
          Wallets,        \* accounts of organisations
          Platform,       \* the PLATFORM_REVENUE account
          ShipperOf,      \* the wallet of the shipper of a load
          CarrierOf,      \* the wallet of the carrier that moves a load
          Priced,         \* loads whose route has a corridor, hence a fee
          Fees,           \* what a fee may come to
          Amounts,        \* what a deposit or a withdrawal may come to
          MaxTrips,       \* bound: how often a load is booked
          Nil

ASSUME WalletsAssumption ==
  /\ Platform \notin Wallets
  /\ ShipperOf \in [Loads -> Wallets]
  /\ CarrierOf \in [Loads -> Wallets]
  /\ \A l, k \in Loads : ShipperOf[l] # CarrierOf[k]
  /\ Priced \subseteq Loads
  /\ Fees \subseteq Nat
  /\ Amounts \subseteq Nat \ {0}
  /\ Deposits \cap Withdrawals = {}
  /\ MaxTrips \in Nat

\* Tables are finite.
ASSUME TablesAssumption ==
  IsFiniteSet(Wallets) /\ IsFiniteSet(Deposits) /\ IsFiniteSet(Withdrawals)

\* There is a largest fee and a largest amount (they are Decimals).
ASSUME DebitsAssumption ==
  /\ Workers # {} /\ IsFiniteSet(Workers)
  /\ \E m \in Fees : \A n \in Fees : n <= m
  /\ \E m \in Fees \cup Amounts : \A n \in Fees \cup Amounts : n <= m

VARIABLES balance,        \* FinancialAccount.balance
          journal,        \* credits minus debits of an account's JournalLines
          entries,        \* of these, how often a deposit or withdrawal was
                          \* credited, less how often it was debited
          feePaid,        \* of these, what a party of a load has paid in fees
          feeStatus,      \* Load.shipperFeeStatus, Load.carrierFeeStatus
          fee,            \* Load.shipperServiceFee, Load.carrierServiceFee
          hasTruck,       \* Load.assignedTruckId is not null
          trips,          \* how many trips the load has had
          delivered,      \* the load was delivered, perhaps by an earlier trip
          deposit,        \* WalletDeposit rows
          withdrawal,     \* WithdrawalRequest rows
          job             \* what each worker is doing

money == <<balance, journal>>
loadRows == <<feePaid, feeStatus, fee>>
requestRows == <<entries, deposit, withdrawal>>
truckRows == <<hasTruck, trips, delivered>>
vars == <<money, loadRows, requestRows, truckRows, job>>

Accounts == Wallets \cup {Platform}
Parties == {"shipper", "carrier"}

FeeStatuses == {"PENDING", "DEDUCTED", "REFUNDED", "WAIVED"}
DepositStatuses == {"PENDING", "CONFIRMED", "REJECTED"}
WithdrawalStatuses == {"PENDING", "APPROVED", "REJECTED"}

\* status "NONE": not inserted yet
Row(statuses) == [status : statuses \cup {"NONE"}, wallet : Wallets \cup {Nil},
                  amount : Amounts \cup {0}]
NoRow == [status |-> "NONE", wallet |-> Nil, amount |-> 0]

\* `amount' is what a party is to pay or to get back, `parties' whose wallet
\* the handler has found good for it.
FeeOps == {"deduct", "deductChecked", "waive",
           "cancelled", "refund", "refundChecked", "refundNothing"}
Ops == FeeOps \cup {"idle", "approveDeposit", "rejectDeposit",
                    "approve", "approveChecked", "reject"}
JobRow == [op : Ops, row : Loads \cup Deposits \cup Withdrawals \cup {Nil},
           amount : [Parties -> Nat], parties : SUBSET Parties]

Nothing == [p \in Parties |-> 0]
FeeJob(op, l, amount, parties) ==
  [op |-> op, row |-> l, amount |-> amount, parties |-> parties]
Job(op, row) == FeeJob(op, row, Nothing, {})
Idle == Job("idle", Nil)

Start(w, j) == job[w] = Idle /\ job' = [job EXCEPT ![w] = j]
Continue(w, j) == job' = [job EXCEPT ![w] = j]
Finish(w) == job' = [job EXCEPT ![w] = Idle]

\* An exception, a rollback, a timeout or a crash.
Abort(w) ==
  /\ job[w] # Idle
  /\ Finish(w)
  /\ UNCHANGED <<money, loadRows, requestRows, truckRows>>

-----------------------------------------------------------------------------
(* Statements *)

WalletOf(l, p) == IF p = "shipper" THEN ShipperOf[l] ELSE CarrierOf[l]

\* What `amount' comes to on account a, when the parties of l pay or get it.
Share(l, amount, a) ==
  (IF a = ShipperOf[l] THEN amount["shipper"] ELSE 0)
    + (IF a = CarrierOf[l] THEN amount["carrier"] ELSE 0)

Total(amount) == amount["shipper"] + amount["carrier"]

\* The lines of an entry, and the increments and decrements beside it.
WriteLines(line) == journal' = [a \in Accounts |-> journal[a] + line[a]]
Increment(change) == balance' = [a \in Accounts |-> balance[a] + change[a]]
On(a, n) == [b \in Accounts |-> IF b = a THEN n ELSE 0]

-----------------------------------------------------------------------------
(* Service fees *)

\* A load is delivered: any of the handlers that complete, verify or settle it
\* may call deductServiceFee, which reads the load and prices it.  A load
\* without a truck has no carrier to charge.
BeginDeduct(w, l) ==
  /\ delivered[l] /\ l \in Priced
  /\ \E p \in Parties : feeStatus[l][p] # "DEDUCTED"
  /\ \E amount \in [Parties -> Fees] :
       Start(w, FeeJob("deduct", l, amount, {p \in Parties : p = "carrier" => hasTruck[l]}))
  /\ UNCHANGED <<money, loadRows, requestRows, truckRows>>

\* Mutant of CheckDeduct: nobody looks at the balance.
CheckDeductOnTrust(w) ==
  /\ job[w].op = "deduct"
  /\ Continue(w, FeeJob("deductChecked", job[w].row, job[w].amount, Parties))
  /\ UNCHANGED <<money, loadRows, requestRows, truckRows>>

\* Then the wallets.  A party whose wallet falls short is skipped.  If money is to
\* move at all, the transaction looks at the fee status again.
CheckDeduct(w) ==
  LET l == job[w].row
      amount == job[w].amount
      paying == {p \in Parties : \/ amount[p] = 0
                                 \/ p \in job[w].parties /\ balance[WalletOf(l, p)] >= amount[p]}
  IN  /\ job[w].op = "deduct"
      /\ \/ \A p \in paying : amount[p] = 0
         \/ \E p \in Parties : feeStatus[l][p] # "DEDUCTED"
      /\ Continue(w, FeeJob("deductChecked", l, amount, paying))
      /\ UNCHANGED <<money, loadRows, requestRows, truckRows>>

Paid(w) == [p \in Parties |-> IF p \in job[w].parties THEN job[w].amount[p] ELSE 0]

\* Mutant of CommitDeduct: the fee of a party that was skipped is marked DEDUCTED too.
MarkBothDeducted(w) ==
  LET l == job[w].row
      change == [a \in Accounts |-> IF a = Platform THEN Total(Paid(w))
                                                    ELSE -Share(l, Paid(w), a)]
  IN  /\ job[w].op = "deductChecked"
      /\ WriteLines(change)
      /\ Increment(change)
      /\ feePaid' = [feePaid EXCEPT ![l] = [p \in Parties |-> @[p] + Paid(w)[p]]]
      /\ feeStatus' = [feeStatus EXCEPT ![l] = [p \in Parties |-> "DEDUCTED"]]
      /\ fee' = [fee EXCEPT ![l] = job[w].amount]
      /\ Finish(w)
      /\ UNCHANGED <<requestRows, truckRows>>

\* Both statuses are written, whatever they were.
CommitDeduct(w) ==
  LET l == job[w].row
      change == [a \in Accounts |-> IF a = Platform THEN Total(Paid(w))
                                                    ELSE -Share(l, Paid(w), a)]
  IN  /\ job[w].op = "deductChecked"
      /\ WriteLines(change)
      /\ Increment(change)
      /\ feePaid' = [feePaid EXCEPT ![l] = [p \in Parties |-> @[p] + Paid(w)[p]]]
      /\ feeStatus' = [feeStatus EXCEPT ![l] =
           [p \in Parties |-> IF p \in job[w].parties THEN "DEDUCTED" ELSE "PENDING"]]
      /\ fee' = [fee EXCEPT ![l] = job[w].amount]
      /\ Finish(w)
      /\ UNCHANGED <<requestRows, truckRows>>

\* No corridor, no fee.
BeginWaive(w, l) ==
  /\ delivered[l] /\ l \notin Priced
  /\ \E p \in Parties : feeStatus[l][p] # "DEDUCTED"
  /\ Start(w, Job("waive", l))
  /\ UNCHANGED <<money, loadRows, requestRows, truckRows>>

CommitWaive(w) ==
  /\ job[w].op = "waive"
  /\ feeStatus' = [feeStatus EXCEPT ![job[w].row] = [p \in Parties |-> "WAIVED"]]
  /\ fee' = [fee EXCEPT ![job[w].row] = Nothing]
  /\ Finish(w)
  /\ UNCHANGED <<money, feePaid, requestRows, truckRows>>

\* The handlers that cancel a trip take the load's truck away in their
\* transaction, and only then look at its fee.
CancelLoad(w, l) ==
  /\ hasTruck[l]
  /\ hasTruck' = [hasTruck EXCEPT ![l] = FALSE]
  /\ Start(w, Job("cancelled", l))
  /\ UNCHANGED <<money, loadRows, requestRows, trips, delivered>>

\* The shipper's status decides whether there is a refund at all; the carrier's
\* wallet is found through the load's truck.
BeginRefund(w) ==
  LET l == job[w].row
      amount == [p \in Parties |-> IF feeStatus[l][p] = "DEDUCTED" THEN fee[l][p] ELSE 0]
      known == {p \in Parties : p = "carrier" => hasTruck[l]}
  IN  /\ job[w].op = "cancelled"
      /\ IF feeStatus[l]["shipper"] # "DEDUCTED"
           THEN Finish(w)
           ELSE IF Total(amount) = 0
           THEN Continue(w, Job("refundNothing", l))
           ELSE Continue(w, FeeJob("refund", l, amount, known))
      /\ UNCHANGED <<money, loadRows, requestRows, truckRows>>

\* The transaction opens and looks at the platform's balance.
CheckRefund(w) ==
  /\ job[w].op = "refund"
  /\ balance[Platform] >= Total(job[w].amount)
  /\ Continue(w, FeeJob("refundChecked", job[w].row, job[w].amount, job[w].parties))
  /\ UNCHANGED <<money, loadRows, requestRows, truckRows>>

\* Mutant of CommitRefund: the platform keeps what the parties get back.
RefundFromNowhere(w) ==
  LET l == job[w].row
      change == [a \in Accounts |-> IF a = Platform THEN 0 ELSE Share(l, Paid(w), a)]
  IN  /\ job[w].op = "refundChecked"
      /\ WriteLines(change)
      /\ Increment(change)
      /\ feePaid' = [feePaid EXCEPT ![l] = [p \in Parties |-> @[p] - Paid(w)[p]]]
      /\ feeStatus' = [feeStatus EXCEPT ![l] = [p \in Parties |-> "REFUNDED"]]
      /\ Finish(w)
      /\ UNCHANGED <<fee, requestRows, truckRows>>

\* The platform pays the total, even if a party's wallet was not found.
CommitRefund(w) ==
  LET l == job[w].row
      change == [a \in Accounts |-> IF a = Platform THEN -Total(job[w].amount)
                                                    ELSE Share(l, Paid(w), a)]
  IN  /\ job[w].op = "refundChecked"
      /\ WriteLines(change)
      /\ Increment(change)
      /\ feePaid' = [feePaid EXCEPT ![l] = [p \in Parties |-> @[p] - Paid(w)[p]]]
      /\ feeStatus' = [feeStatus EXCEPT ![l] = [p \in Parties |-> "REFUNDED"]]
      /\ Finish(w)
      /\ UNCHANGED <<fee, requestRows, truckRows>>

CommitRefundNothing(w) ==
  /\ job[w].op = "refundNothing"
  /\ feeStatus' = [feeStatus EXCEPT ![job[w].row] = [p \in Parties |-> "REFUNDED"]]
  /\ Finish(w)
  /\ UNCHANGED <<money, feePaid, fee, requestRows, truckRows>>

-----------------------------------------------------------------------------
(* Deposits *)

RequestDeposit(d, a, n) ==
  /\ deposit[d].status = "NONE"
  /\ deposit' = [deposit EXCEPT ![d] = [status |-> "PENDING", wallet |-> a, amount |-> n]]
  /\ UNCHANGED <<money, loadRows, entries, withdrawal, truckRows, job>>

\* An administrator's top-up is a deposit confirmed from the start.
TopUp(d, a, n) ==
  /\ deposit[d].status = "NONE"
  /\ deposit' = [deposit EXCEPT ![d] = [status |-> "CONFIRMED", wallet |-> a, amount |-> n]]
  /\ entries' = [entries EXCEPT ![d] = @ + 1]
  /\ WriteLines(On(a, n))
  /\ Increment(On(a, n))
  /\ UNCHANGED <<loadRows, withdrawal, truckRows, job>>

BeginDeposit(w, op, d) ==
  /\ deposit[d].status = "PENDING"
  /\ Start(w, Job(op, d))
  /\ UNCHANGED <<money, loadRows, requestRows, truckRows>>

BeginApproveDeposit(w, d) == BeginDeposit(w, "approveDeposit", d)
BeginRejectDeposit(w, d) == BeginDeposit(w, "rejectDeposit", d)

\* Mutant of CommitApproveDeposit: the deposit stays PENDING.
CreditDeposit(w) ==
  LET d == job[w].row
      line == On(deposit[d].wallet, deposit[d].amount)
  IN  /\ job[w].op = "approveDeposit"
      /\ entries' = [entries EXCEPT ![d] = @ + 1]
      /\ WriteLines(line)
      /\ Increment(line)
      /\ Finish(w)
      /\ UNCHANGED <<loadRows, deposit, withdrawal, truckRows>>

\* The row is updated by id, after the credit.
CommitApproveDeposit(w) ==
  LET d == job[w].row
      line == On(deposit[d].wallet, deposit[d].amount)
  IN  /\ job[w].op = "approveDeposit"
      /\ deposit' = [deposit EXCEPT ![d].status = "CONFIRMED"]
      /\ entries' = [entries EXCEPT ![d] = @ + 1]
      /\ WriteLines(line)
      /\ Increment(line)
      /\ Finish(w)
      /\ UNCHANGED <<loadRows, withdrawal, truckRows>>

CommitRejectDeposit(w) ==
  /\ job[w].op = "rejectDeposit"
  /\ deposit' = [deposit EXCEPT ![job[w].row].status = "REJECTED"]
  /\ Finish(w)
  /\ UNCHANGED <<money, loadRows, entries, withdrawal, truckRows>>

-----------------------------------------------------------------------------
(* Withdrawals *)

Pending(a) == {q \in Withdrawals : withdrawal[q].status = "PENDING"
                                     /\ withdrawal[q].wallet = a}

\* Serializable: requests of one wallet see each other (see the README).
RequestWithdrawal(q, a, n) ==
  /\ withdrawal[q].status = "NONE"
  /\ balance[a] - MapThenSumSet(LAMBDA r : withdrawal[r].amount, Pending(a)) >= n
  /\ withdrawal' = [withdrawal EXCEPT ![q] =
                      [status |-> "PENDING", wallet |-> a, amount |-> n]]
  /\ UNCHANGED <<money, loadRows, entries, deposit, truckRows, job>>

BeginDecide(w, op, q) ==
  /\ withdrawal[q].status = "PENDING"
  /\ Start(w, Job(op, q))
  /\ UNCHANGED <<money, loadRows, requestRows, truckRows>>

BeginApprove(w, q) == BeginDecide(w, "approve", q)
BeginReject(w, q) == BeginDecide(w, "reject", q)

\* Both decisions update the row by id first, and hold its lock from then on.
RowFree(w) == \A v \in Workers \ {w} : ~(job[v].op = "approveChecked" /\ job[v].row = job[w].row)

\* An approval looks at the balance under that lock.
CheckApprove(w) ==
  /\ job[w].op = "approve"
  /\ RowFree(w)
  /\ balance[withdrawal[job[w].row].wallet] >= withdrawal[job[w].row].amount
  /\ Continue(w, Job("approveChecked", job[w].row))
  /\ UNCHANGED <<money, loadRows, requestRows, truckRows>>

\* Mutant of CommitApprove: no journal entry ("C2 FIX" undone by half).
ApproveUnjournalled(w) ==
  LET q == job[w].row
  IN  /\ job[w].op = "approveChecked"
      /\ withdrawal' = [withdrawal EXCEPT ![q].status = "APPROVED"]
      /\ entries' = [entries EXCEPT ![q] = @ - 1]
      /\ Increment(On(withdrawal[q].wallet, -withdrawal[q].amount))
      /\ Finish(w)
      /\ UNCHANGED <<journal, loadRows, deposit, truckRows>>

CommitApprove(w) ==
  LET q == job[w].row
      line == On(withdrawal[q].wallet, -withdrawal[q].amount)
  IN  /\ job[w].op = "approveChecked"
      /\ withdrawal' = [withdrawal EXCEPT ![q].status = "APPROVED"]
      /\ entries' = [entries EXCEPT ![q] = @ - 1]
      /\ WriteLines(line)
      /\ Increment(line)
      /\ Finish(w)
      /\ UNCHANGED <<loadRows, deposit, truckRows>>

\* A rejection credits the wallet.
CommitReject(w) ==
  LET q == job[w].row
      line == On(withdrawal[q].wallet, withdrawal[q].amount)
  IN  /\ job[w].op = "reject"
      /\ RowFree(w)
      /\ withdrawal' = [withdrawal EXCEPT ![q].status = "REJECTED"]
      /\ entries' = [entries EXCEPT ![q] = @ + 1]
      /\ WriteLines(line)
      /\ Increment(line)
      /\ Finish(w)
      /\ UNCHANGED <<loadRows, deposit, truckRows>>

-----------------------------------------------------------------------------
(* Loads, as far as fees depend on them *)

\* A booking gives the load a truck; a booking of that truck for another load,
\* once this one is delivered, takes it away.
Book(l) ==
  /\ ~hasTruck[l]
  /\ trips[l] < MaxTrips
  /\ hasTruck' = [hasTruck EXCEPT ![l] = TRUE]
  /\ trips' = [trips EXCEPT ![l] = @ + 1]
  /\ UNCHANGED <<money, loadRows, requestRows, delivered, job>>

TruckTaken(l) ==
  /\ hasTruck[l] /\ delivered[l]
  /\ hasTruck' = [hasTruck EXCEPT ![l] = FALSE]
  /\ UNCHANGED <<money, loadRows, requestRows, trips, delivered, job>>

Deliver(l) ==
  /\ hasTruck[l] /\ ~delivered[l]
  /\ delivered' = [delivered EXCEPT ![l] = TRUE]
  /\ UNCHANGED <<money, loadRows, requestRows, hasTruck, trips, job>>

-----------------------------------------------------------------------------
Init ==
  /\ balance = [a \in Accounts |-> 0]
  /\ journal = [a \in Accounts |-> 0]
  /\ entries = [r \in Deposits \cup Withdrawals |-> 0]
  /\ feePaid = [l \in Loads |-> Nothing]
  /\ feeStatus = [l \in Loads |-> [p \in Parties |-> "PENDING"]]
  /\ fee = [l \in Loads |-> Nothing]
  /\ hasTruck = [l \in Loads |-> FALSE]
  /\ trips = [l \in Loads |-> 0]
  /\ delivered = [l \in Loads |-> FALSE]
  /\ deposit = [d \in Deposits |-> NoRow]
  /\ withdrawal = [q \in Withdrawals |-> NoRow]
  /\ job = [w \in Workers |-> Idle]

FeeStep(w) ==
  \/ \E l \in Loads : BeginDeduct(w, l) \/ BeginWaive(w, l) \/ CancelLoad(w, l)
  \/ CheckDeduct(w) \/ CommitDeduct(w) \/ CommitWaive(w)
  \/ BeginRefund(w) \/ CheckRefund(w) \/ CommitRefund(w) \/ CommitRefundNothing(w)

AdminStep(w) ==
  \/ \E d \in Deposits : BeginApproveDeposit(w, d) \/ BeginRejectDeposit(w, d)
  \/ CommitApproveDeposit(w) \/ CommitRejectDeposit(w)
  \/ \E q \in Withdrawals : BeginApprove(w, q) \/ BeginReject(w, q)
  \/ CheckApprove(w) \/ CommitApprove(w) \/ CommitReject(w)

WalletOwnerStep ==
  \E a \in Wallets, n \in Amounts :
    \/ \E d \in Deposits : RequestDeposit(d, a, n) \/ TopUp(d, a, n)
    \/ \E q \in Withdrawals : RequestWithdrawal(q, a, n)

LoadStep == \E l \in Loads : Book(l) \/ TruckTaken(l) \/ Deliver(l)

Next ==
  \/ \E w \in Workers : FeeStep(w) \/ AdminStep(w) \/ Abort(w)
  \/ WalletOwnerStep
  \/ LoadStep

Spec == Init /\ [][Next]_vars

-----------------------------------------------------------------------------
(* Properties *)

\* Every table holds rows of its type.
TypeOK ==
  /\ balance \in [Accounts -> Int]
  /\ journal \in [Accounts -> Int]
  /\ entries \in [Deposits \cup Withdrawals -> Int]
  /\ feePaid \in [Loads -> [Parties -> Int]]
  /\ feeStatus \in [Loads -> [Parties -> FeeStatuses]]
  /\ fee \in [Loads -> [Parties -> Nat]]
  /\ hasTruck \in [Loads -> BOOLEAN]
  /\ trips \in [Loads -> 0 .. MaxTrips]
  /\ delivered \in [Loads -> BOOLEAN]
  /\ deposit \in [Deposits -> Row(DepositStatuses)]
  /\ withdrawal \in [Withdrawals -> Row(WithdrawalStatuses)]
  /\ job \in [Workers -> JobRow]

\* The balance of an account is what its journal lines come to: whatever races
\* with whatever, reconcileWallet finds no drift (lib/walletReconcile.ts).
WalletInSync == \A a \in Accounts : balance[a] = journal[a]

\* Nothing is entered for a deposit or a withdrawal nobody has decided on: no
\* race returns a decided row to PENDING.
PendingUntouched ==
  /\ \A d \in Deposits : deposit[d].status \in {"NONE", "PENDING"} => entries[d] = 0
  /\ \A q \in Withdrawals : withdrawal[q].status \in {"NONE", "PENDING"} => entries[q] = 0

\* A job is about a row of the table its handler reads.
JobsFit ==
  \A w \in Workers :
    /\ job[w].op \in {"approveDeposit", "rejectDeposit"} => job[w].row \in Deposits
    /\ job[w].op \in {"approve", "approveChecked", "reject"} => job[w].row \in Withdrawals
    /\ job[w].op \in FeeOps => job[w].row \in Loads

\* What is proved to hold always (see WalletsProofs).
WalletInv == TypeOK /\ JobsFit /\ WalletInSync /\ PendingUntouched

LargestDebit(a) == IF a = Platform THEN 2 * Max(Fees) ELSE Max(Fees \cup Amounts)

\* How far the checks of balances are good: every check was true of the balance
\* it read, so an account is overdrawn by one debit at most for each handler
\* beside the first.  With one handler at a time nothing is overdrawn.
OverdraftBounded ==
  \A a \in Accounts : balance[a] >= -(Cardinality(Workers) - 1) * LargestDebit(a)

Sum(f, S) == MapThenSumSet(LAMBDA x : f[x], S)

\* What was entered for each row of a table.
Entered(rows) == [r \in DOMAIN rows |-> entries[r] * rows[r].amount]

\* What all accounts hold was paid in and not paid out: fees and refunds create
\* no money.  (They may destroy some, see CarrierRefunded.)
MoneyAccounted ==
  Sum(balance, Accounts) <= Sum(Entered(deposit), Deposits) + Sum(Entered(withdrawal), Withdrawals)

\* A decision and its entry agree: confirmed deposits are credited once, rejected
\* ones never, approved withdrawals are debited once.  (One handler at a time.)
EntriesAgree ==
  /\ \A d \in Deposits : entries[d] = IF deposit[d].status = "CONFIRMED" THEN 1 ELSE 0
  /\ \A q \in Withdrawals : withdrawal[q].status = "APPROVED" => entries[q] = -1

\* A fee that is marked DEDUCTED was paid in full.  (One handler at a time.)
FeeStatusTruthful ==
  \A l \in Loads, p \in Parties : feeStatus[l][p] = "DEDUCTED" => feePaid[l][p] >= fee[l][p]

\* lib/serviceFeeManagement.ts:563 on the check inside the transaction: "to prevent
\* double-deduction race condition".
FeeTakenOnce ==
  \A l \in Loads, p \in Parties :
    (\A o \in Parties : feeStatus[l][o] = "DEDUCTED") => feePaid[l][p] <= fee[l][p]

\* lib/serviceFeeManagement.ts:853: "Both parties are refunded when a trip is cancelled"
\* once the fee was deducted: a carrier's fee that is marked REFUNDED is paid back.
CarrierRefunded ==
  \A l \in Loads : feeStatus[l]["carrier"] = "REFUNDED" => feePaid[l]["carrier"] = 0

\* app/api/admin/withdrawals/[id]/route.ts:157: "Return funds to wallet on rejection";
\* no more can be returned than was taken.
RejectionReturns == \A q \in Withdrawals : entries[q] <= 0
=============================================================================
