# A specification of the freight marketplace

TLA+ modules, TLC runs and TLAPS proofs about the server of this repository: a
freight marketplace where shippers post loads, carriers post trucks, a load is
booked on a truck and a trip carries it. The server is a Next.js application;
its state is in PostgreSQL, reached through Prisma. All paths below are relative
to the root of the repository.

What makes this code hard is the same everywhere: a route handler is an
asynchronous function that reads rows, decides, and writes in a later statement
or transaction. `lib/db.ts` sets no isolation level, so PostgreSQL runs at READ
COMMITTED, and no handler takes a lock before it reads
(`app/api/financial/withdraw/route.ts` alone asks for Serializable). Between a
handler's read and its write any other handler may commit. What keeps the data
right, where it is right, is a small number of things: unique columns
(`Load.assignedTruckId`, `Trip.loadId`), partial unique indexes on pending
requests, and a status in the WHERE of some updates. The models say which of
these carries which promise, and what happens where none of them does.

## Inventory

| Component | State | Operations | Hard part | Correct when |
| --- | --- | --- | --- | --- |
| Booking (`load-requests`, `truck-requests`, `match-proposals`) | requests, load status and truck, trips, availability, postings | ask, approve, reject, confirm, decline, withdraw, expire | three ways to book check different tables, unlocked | a truck and a load have one active trip; both records of a booking agree |
| Trips (`trips/[tripId]/*`, `cron/trip-monitor`, `loads/[id]/pod`) | trip and load status, POD, availability | status change, cancel, confirm, POD, reassign, auto-close | five handlers end a trip, two by id; the truck is freed from a stale read | trips move legally, load mirrors trip, a stuck trip is closed |
| Load lifecycle (`loads/*`, `lib/loadStateMachine.ts`, `lib/loadAutomation.ts`) | load status | edit, status change, escalate, expire, unpost | writes loads and trips outside the trip handlers' guards | no load is taken from a trip under way, no ended trip comes back |
| Direct assignment (`loads/[id]/assign`, `dispatch`, `trips` POST) | as booking | assign, create a trip, dispatch | three more ways to book, one of them without a trip | as booking |
| Truck postings (`truck-postings`, `trucks/[id]`, `cron/insurance-monitor`, `lib/truckPostingAutomation.ts`) | postings, approval, insurance status | create, duplicate, edit, reactivate, expire, approve, insure | find-then-create without an index; a monitor of two statements | one active posting per truck, none without insurance |
| Service fees (`lib/serviceFeeManagement.ts`) | fee status of the load, wallets, journal | deduct, waive, refund | every handler that completes a trip deducts, outside its transaction | each fee once, and returned as it was taken |
| Wallets (`financial/withdraw`, `admin/withdrawals`, `admin/wallet-deposits`, `lib/walletReconcile.ts`) | balances, journal, withdrawals, deposits | deposit, withdraw, approve, reject | approvals race; increments by id | balance = sum of the journal, and no negative balance |
| Settlement (`lib/settlementAutomation.ts`, `loads/[id]/settle`, `admin/settlements`, every completion) | settlement status, fee status | complete, verify, settle, approve | eight handlers write it, with different ideas of when fees are collected | settled once, and never stuck |
| Drivers (`drivers/*`, `assign-driver`, `unassign-driver`, `reassign-truck`, every end of a trip) | account, invitation, availability, driver of a trip | invite, accept, approve, suspend, assign, swap, release | three statements without a transaction | availability follows the trips |
| Job queue (`lib/queue.ts`, in memory) | jobs, attempts, wake-ups | add, run, fail, retry, remove | nothing polls it | every job comes to its end, one run at a time |
| Cache (`lib/cache.ts`, in memory) | LRU store | read through, invalidate, expire | query and store are two steps around a commit | bounded, and stale only for a reason |
| Around the core | | GPS, notifications, documents, chat, ratings, disputes, analytics, authentication, rate limits, user interfaces | | |

Interactions: all components share rows of one database and call each other only
through `lib` functions inside one handler (completing a trip calls
`deductServiceFee`, then runs its own transaction). There is no message between
handlers. Cron handlers run beside user requests in the same processes; queue and
cache live in the memory of one process.

## The modules

| Module | Models |
| --- | --- |
| `StateMachines` | the statuses of loads and trips and their legal moves |
| `MarketDB` | rows, workers, and the statements several handlers share |
| `Booking` | every handler of `load-requests`, `truck-requests`, `match-proposals` that writes, and the cron expiry of requests |
| `TripFlow` | `trips/[tripId]` PATCH, `cancel`, `confirm`, `pod`, `reassign-truck`, `cron/trip-monitor`, `loads/[id]/pod` |
| `Haulage` | abstract specification: which truck hauls which load |
| `Freight` | `Booking` and `TripFlow` together |
| `LoadDesk` | `loads/[id]/status`, `loads/[id]` PATCH, `escalations`, `loads/[id]/assign`, `trips` POST, `dispatch`, the expiry of loads, the loads of a rejected organization; all of it beside `Freight` |
| `Drivers` | `drivers/*`, `assign-driver`, `unassign-driver`, and what the ends of trips do to drivers |
| `Postings` | `truck-postings`, `trucks/[id]`, `cron/insurance-monitor` |
| `Wallets` | `lib/serviceFeeManagement.ts`, deposits, top-ups, withdrawals and their decisions |
| `Settlement` | every handler that writes `Load.settlementStatus` |
| `JobQueue`, `EntityCache` | `lib/queue.ts`, `lib/cache.ts` |
| `MCBooking`, `MCTripFlow`, `MCFreight`, `MCLoadDesk`, `MCWallets` | instances for TLC: symmetry sets, constants are in the .cfg files |
| `MCBackOffice`, `MCPlatform` | several components on one instance each (see the runs) |
| `MarketProofs` | lemmas about `Haulage` and the shared rows |
| `BookingProofs`, `TripFlowProofs`, `FreightProofs`, `LoadDeskProofs`, `WalletsProofs` | proofs about the module of that name |
| `BackOfficeProofs` | proofs about `Drivers` and `Settlement`, and about `MCBackOffice` |
| `PlatformProofs` | proofs about `Postings`, `JobQueue` and `EntityCache`, and about `MCPlatform` |

`StateMachines` is extended by `MarketDB` and `Drivers`; `Booking` and `TripFlow` extend
`MarketDB`, `Freight` extends both, `LoadDesk` extends `Freight`. The rest stand apart:
of the others' rows each keeps the part that its handlers read.

### State

Rows are functions of ids: `loadStatus`, `assignedTruck`, `podSubmitted` for
loads, `trip` and `request` for trips and requests (status "NONE" before the row
exists), `available` and `posting` for trucks. The three request tables are one
set of rows with a `kind`. `job` maps each of `Workers` to the handler it serves
and to what that handler has read, which is the local state of an asynchronous
function at an `await`. The other modules have the same shape under names of
their own (`desk`, `call`, `errand`, `duty`), since `MCPlatform` and `MCBackOffice`
put several into one module.

### Actions

A handler is a `Begin...` step, which makes all reads and checks, and a
`Commit...` step, which makes the writes of its transaction; between the two
every other handler may run. Checks that the code repeats inside the transaction
do not lock anything and may run right before or long before the writes, so the
`Begin` step stands for both. Checks that really happen at the write are in the
`Commit` step: unique indexes, and status conditions in the WHERE of an update,
which PostgreSQL evaluates on the committed row under its lock. A transaction
that ends a trip counts the truck's other trips after it has locked the trip's
row and before it commits, and what it counts may be outdated by then:
`CountOthers` (a worker) and `CountTrips` (a desk) are steps of their own, and `RowFree`,
`Unlocked` and `RowsHeld` say that a second transaction waits for the rows that the first has
written. Statements outside any transaction are steps of their own
(`InsertRequest`, then `MarkSearching`; `CancelLoadRequest`, then
`ReopenAfterCancel`; the three statements of `assign-driver`; the two of the
insurance monitor), and so are transactions that one handler makes one after the other
(`MarkVerified`, `SettleVerified`, `CompleteVerified`, when the shipper verifies a POD) and
what follows a write inside the same `try`: `loads/[id]/settle` writes PAID (`CommitSettle`)
and goes on, and its catch block (`ResetSettle`) may still come.

`Abort` (`DeskFails`, `HandlerDies`, `ClerkDies`, `SettlerLeaves`, `WriterDies`) ends any
handler without further effect at any point: an exception, a violated unique index, a
transaction timeout, a deadlock that PostgreSQL breaks, or the death of the process.
A crash needs no more than that, since nothing survives a process but committed
rows. (Queue and cache start anew with their process, in their initial state.)

### Money

`Wallets` stands apart from the other modules: of a load it knows only whether it
has a truck and was delivered, which is what the fee handlers read, and `Book`,
`TruckTaken`, `Deliver` and `CancelLoad` change that as the handlers of `Booking` and
`TripFlow` do. `balance` is the column, `journal` the sum of an account's
journal lines, which is what `reconcileWallet` compares it with; `entries` and
`feePaid` are history variables, the part of the journal that refers to one
request or one load.

- `deductServiceFee` reads the load and prices it (`BeginDeduct`), reads the
  wallets and decides who pays (`CheckDeduct`), and writes (`CommitDeduct`). Inside the
  transaction it looks at the fee status and the balances again, without a lock.
  `CheckDeduct` makes these looks together with the first read of the wallets:
  they restrict what may be written, and a step of another handler between the two looks
  may as well come before both or after both, except when it undoes
  within that window what it did. When nothing is collected the code skips the
  second look and so does the model.
- `refundServiceFee` reads the load (`BeginRefund`), checks the platform's
  balance in its transaction (`CheckRefund`) and writes (`CommitRefund`). The caller's own
  look at the shipper's status immediately before is merged with the first read. Any load
  with a truck may be cancelled, which is more than the code allows.
- Approving a withdrawal updates the row first, so a second decision waits at the
  row's lock (`RowFree`) and then goes on without another check, as the code does.
- `financial/withdraw` is one step: at Serializable, requests of one wallet behave
  as if one came after the other.
- A load without a corridor (`Loads \ Priced`) is waived. Which loads have one is fixed;
  in the code a corridor may be added, or a distance known, only later, and the
  load is then charged at its next completion.
- Left out: how a fee is computed (a choice from `Fees`, made anew at every call,
  since prices, distances and promotions change), frozen wallets, and wallets
  that do not exist. A load keeps one carrier.

`Settlement` takes `deductServiceFee` as one step with the answers it can give
(`collected`, `zero`, `nothing`, `already`, `failed`), and keeps apart what each caller
makes of them.

### Postings and trips

Of trips `Postings` keeps two counts for each truck. `onTrip` is the number of its active
trips: a booking asks for the status of the truck's loads, not for its trips, so a truck
whose trip is DELIVERED may be booked once more, and the end of either trip brings back every
MATCHED posting. `stray` is the number of its trips that `PATCH trips/[tripId]` has
cancelled and left attached to their load, until the load is booked again (`LetGo`) or
cancelled (`CancelLoad`); the latter brings back the postings once more, whatever
the truck does by then. Bookings and ends of trips in `loads/[id]/assign` and `PATCH loads/[id]`
leave the postings alone, which is the other outcome of `BookTruck` and `EndOfTrip`.

### Mutants

Definitions marked "Mutant of X" are not part of any specification. Each one is X with a
plausible mistake; replacing X by it must break a named property (PROJECT.json
lists the pairs), which shows that the property depends on what X does.

## What is checked

| Run | Instance | Shows |
| --- | --- | --- |
| `booking` | 2 loads, 2 trucks, 2 requests, 2 trips, 2 workers | two trucks for one load, two loads for one truck, or one pair twice: one booking each, it stays, and a pair has one pending request |
| `two_trips` | 2 loads, 2 trips, 3 trucks, 2 workers | two trips and a spare truck both may be reassigned to: load and trip agree, steps are legal, PODs come after delivery |
| `freight_rebook` | 2 loads, 1 truck, 2 requests, 2 trips, 2 workers | handlers of a past booking against a new one; implements `Haulage` |
| `freight_reassign` | 1 load, 2 trucks, 2 requests, 1 trip, 2 workers | bookings against reassignment |
| `load_desk` | 2 loads, 1 truck, 1 request, 2 trips, 1 worker, 2 desks, 2 calls | bookings and trips against the handlers that go round them: which of those take a load from its trip, bring an ended trip back, or leave a truck behind, and that no other does |
| `wallets_race` | 2 loads of one shipper (one without a corridor), 1 deposit, 1 withdrawal, fees 0 and 1, 2 workers | fees, refunds, a deposit and a withdrawal race: journal and balance agree, decisions are final, the overdraft is bounded, no money appears |
| `back_office` | 2 drivers, 2 trips; 1 settlement; 2 loads, 2 deposits, 1 withdrawal, 2 trips for each load; one handler each | one handler at a time, failing between any two statements: availability follows the trips, a settlement in progress is attended, PAID is taken back by one handler only, no decision is entered twice, a fee marked DEDUCTED was paid |
| `platform` | 1 trip, 2 trucks, 2 workers; 1 truck with 3 postings and 2 trips; 3 jobs (1 without a processor, 2 attempts); 2 keys, a store of 1, 2 readers, 1 writer; fairness | liveness: the monitor closes stuck trips, trucks without insurance leave the marketplace, jobs end, stale entries go; with the safety of postings, queue and cache |
| `fee_taken_twice` | 1 load, 2 deposits, 2 workers | (violation, below) |
| `carrier_refund_lost` | 1 load, 2 deposits, 1 withdrawal, 1 worker | (violation) |
| `rejection_creates_money` | 1 load, 2 deposits, 1 withdrawal, 1 worker | (violation) |
| `driver_not_freed` | 2 drivers, 2 trips, 1 handler | (violation) |

`MCBackOffice` and `MCPlatform` hold components that share no state in their
models. A variable `focus` picks the one that moves; the others stay in their initial
states, so that the state space is the sum and not the product of theirs. Nothing in
these runs is about an interplay. At rest no fair action of a component is enabled,
so its fairness asks for nothing.

### Bounds

- Two workers are enough for a race between two handlers, and a worker that finishes
  takes up the next request, so sequences of any length are covered. Two requests
  are what two workers race on, and each can find the other pending; two trips let a
  load be booked twice. What the bounds leave open the proofs close, for all properties
  but liveness.
- Rows are never deleted: `Requests`, `Trips`, `Ads`, `Deposits` and `Withdrawals` bound how
  many are ever inserted, and a run stops when they are used up, which is why
  deadlock is not checked.
- `Kinds` says which kinds of request a run makes: all three, except in
  `freight_rebook` and `load_desk`, since a proposal is accepted by the same statements
  as a truck request.
- `MaxCalls` bounds how many handlers of `LoadDesk` are called. Two are what it takes to
  put one handler's read before the other's write.
- In `Wallets` amounts and fees are 0 or 1: the checks compare a balance with one
  amount, and a wallet that holds nothing, one fee or two is all that two handlers
  can tell apart. `MaxTrips` bounds how often a load is booked: once in `wallets_race`,
  twice in `back_office` (it takes two trips to charge a load that was refunded).
- `MaxHauls` bounds the trips of a truck that are active or left attached to their load. With
  two, one trip of a truck ends while another goes on.
- `MaxRetries` bounds how often a job is retried by hand; `Ttl` is the lifetime of a
  cache entry in ticks.
- Symmetry is used in runs without liveness; no definition tells rows of one
  table apart.

### One handler at a time

`AvailabilityTells`, `SecondTripFromException`, `EntriesAgree`, `FeeStatusTruthful`,
`PaidUndoneBySettle`, `PaidIsBacked`, `SecondAdFromTrip` and `BusyTruckReposted` are about one
handler at a time, and false for two: each handler checks without a lock what the
other writes. They are about sequences: which orders of calls, with failures
between their statements, lead where they should not. Where a sequence does lead there the
property names the handler, so that it says of all others that they do not:

- a driver gets a second trip only when one of his comes back from EXCEPTION, which
  the conflict check does not count;
- a second ACTIVE posting of a truck appears only when a trip ends or a load is cancelled
  that the truck no longer carries, which bring back every MATCHED posting next to one
  reactivated meanwhile (rule 4 of `lib/foundation-rules.ts` names a unique constraint
  against two, which the schema does not have);
- a truck under way is posted only out of an EXPIRED posting, which `PATCH truck-postings/[id]`
  reactivates without a look at the trips, or out of a MATCHED one by such an end or
  cancellation, which does not ask what else the truck is doing;
- PAID is taken back only by `loads/[id]/settle` itself, whose catch block writes PENDING also
  when the event, the read or the cache after the payment fails;
- a load is PAID without a fee collected or waived only by the monitor,
  `loads/[id]/settle` or the automation.

`load_desk` does the same with two handlers. A load is taken from a moving trip only by a
handler whose reads are out of date, by `dispatch` (which releases by id the load
that held the truck), or by an expiry that does not look at the trip. An ended trip comes back
only through `PATCH loads/[id]` or a receipt of a delivery read before. A truck is not freed
by the end of its last trip only through `PATCH loads/[id]`, an expiry, stale reads (of a
desk, or of the truck that a trip had before it was reassigned), or two ends, by workers or by
desks, of which one has counted the other's trip before that ended too.

### What the code does not do

Four runs end in a counterexample to something the repository says of itself.

- `fee_taken_twice`: two handlers that complete one load both pass the re-check of the
  fee status, and both charge it.
- `carrier_refund_lost`: the cancellation takes the truck away before the refund
  looks for the carrier through it; the platform pays, the carrier gets nothing.
- `rejection_creates_money`: rejecting a withdrawal credits what was never taken.
- `driver_not_freed`: the shipper verifies the POD on the load; the trip ends and its
  driver stays unavailable.

Only the first needs concurrency. The models reach more states of this
kind, which no run is kept for:

- a truck request that the shipper withdraws after the carrier's approval has read it
  as PENDING is approved, and books the load (`truck-requests/[id]/respond`);
- a POD submitted on the load (`app/api/loads/[id]/pod/route.ts:183`) leaves trip and load
  DELIVERED, and the monitor looks only at loads without one
  (`app/api/cron/trip-monitor/route.ts:68`), so that somebody has to complete the trip
  by hand: `StuckTripsClose` excepts this trip and no other;
- the monitor marks a load PAID although nothing was collected
  (`app/api/cron/trip-monitor/route.ts:106`-`137`);
- an automatic completion of a load leaves its trip as it is;
- `loads/[id]/assign` leaves the truck available and posted;
- a load that is booked while another handler is about to mark it SEARCHING; an
  administrator's request that frees the truck a trip had before it was reassigned; a
  truck made available although a reassignment took it after the count of its trips;
  a truck booked while its trip is DELIVERED; two loads charged at once from a balance
  that covers one; a deposit approved twice;
- two handlers that end the two trips of a truck, each of which counts the other's trip, and
  neither makes the truck available (`app/api/loads/[id]/status/route.ts:410`);
- `PATCH trips/[tripId]` cancels a trip and leaves it attached to its load; when that load is
  cancelled, the postings of its former truck come back even if the truck is on another
  trip;
- a load PAID by `loads/[id]/settle` whose event is not written is PENDING again, "so it can
  be retried" (`app/api/loads/[id]/settle/route.ts:276`); if both fees were collected the retry
  finds them deducted, takes that for a failure and marks the load FAILED.

What the passing runs and the proofs show is where the damage stops. A truck moves
one load at a time all the same, because the unique column `Load.assignedTruckId` is checked
at every booking and reassignment (`FreightOneLoadAtATime`). The journal always
tells what happened (`WalletInSync`), and an account is overdrawn by one debit for each
handler beside the first (`OverdraftBounded`).

### Fairness

Only `platform` assumes any, and of people none: nobody has to confirm, upload,
cancel, insure or add a job.

- Trips: a handler that runs ends, by a commit or an abort, since transactions have a
  timeout (`HandlersEnd`). The cron schedule runs every hour and takes up every stuck
  trip again (`MonitorRuns`; strong fairness, because a trip is stuck on and off and workers
  are busy on and off). The monitor does not die in the middle of a trip for ever
  (`MonitorSurvives`). The query takes 20 trips in no stated order
  (`app/api/cron/trip-monitor/route.ts:92`): twenty whose close always fails would keep it
  from the others, which the instance with its one trip does not show.
- Postings (`MonitorRetries`): a handler ends; the insurance monitor comes to every lapsed
  truck again and does not die each time it starts.
- Queue (`EventLoop`): the event loop runs what `setImmediate` and `setTimeout` have put
  on it, and processors settle. Without a timer that polls, nothing else may be assumed.
- Cache (`CacheFairness`): time passes, and a writer gets to its invalidation or dies.

## What is proved

TLAPS proves, for every number of rows, workers and handlers in flight:

- `BookingProofs` (from `NilAssumption`: NULL is no row's id). `BookingInvariant` and from it
  `NeverDoubleBooked`, `RecordsAgree`, `BookedTruckOffMarket`, `BookingsAreFinal`.
  `NoDoubleBooking` is not inductive: the transaction checks unique columns of loads and
  of trips, not the truck of a trip, so the argument needs that the two records agree
  (`BookingAgrees`) and that both columns are unique. A step that books nothing leaves
  all of that alone (`NoBooking`); the three that book go through `BookPreserves`.
  `OnePendingForAPair`: no step but the insert makes a request PENDING, and the partial index
  guards the insert.
- `TripFlowProofs` (the same assumption). `TripInvariant` and from it `LoadsMirrorTrips`,
  `TripsAndTrucksAgree`, `PodsFollowDelivery`, `TripStepsAreLegal`. The strengthening says
  what a handler's stale reads are still good for: a trip keeps its load until it is
  cancelled; a DELIVERED trip can only become COMPLETED, so the two handlers that
  write by id find it in one of the two; a handler that has counted holds its
  row's lock, so its guard still holds at the commit (`CountedHoldRow`).
  `TripsImplementHaulage`: the initial state maps to an initial state of `Haulage` and every
  step to a take, a put-down or a stutter, through the lemmas of `MarketProofs` about
  `HauledBy`.
- `FreightProofs` (the same assumption). `FreightInvariant` and from it `MovingTripsAgree`,
  `FreightStepsAreLegal` and `FreightImplementsHaulage`, for bookings and trips together. What
  is true of each component alone fails here: stale handlers of past bookings write load
  statuses, so a load no longer mirrors its trip, and a truck's availability says
  nothing. What remains is that the load of a moving trip names the trip's truck. A booking
  takes the truck of a load away only in a `Released` status, so the argument needs that no
  stale write gives the load of a moving trip one of those (`MovingLoadHeld`), and for
  that, what each handler in flight still knows of its trip and request (`JobsKnow`). Of
  the load of a trip that has delivered or ended nothing is claimed.
- `LoadDeskProofs` (from `NilAssumption`, `MaxCallsAssumption` and `StatusAssumption`: NULL is no
  status). `DeskInvariant` and from it `TripsKeepTheirLoads`, `EndedTripsStay` and
  `LastTripsFreeTrucks`, with any number of workers and desks. Nearly all of `FreightInv`
  fails next to the desks. What survives, and suffices: an active trip has its load and no
  other trip has it (`TripRowsFit`, `TripUnique`); a trip that a worker (`Remembers`) or a
  desk (`Recalls`) has read still has the load it had then, or none; and a worker that
  has written its trip holds the row (`CountedHoldRow`). A step leaves the trips alone, inserts
  one or writes one, and the three lemmas about these carry the proof.
- `WalletsProofs` (from `WalletsAssumption`: fees are naturals, amounts positive, the
  platform's account is no wallet, and no organisation is shipper of one load and
  carrier of another).
  - `WalletInvariant` and from it `WalletsInSync`, `OnlyDecidedMoves` and `WalletTypes`. The
    invariant needs only `JobsFit` besides: what a handler writes to belongs to the table it
    read. Every writer pairs its increments with lines of the same amounts (`SameLines`),
    so the balance follows the journal even where money moves twice.
  - `WalletsOverdraftBounded`, with `DebitsAssumption` (handlers are finitely many, and there is
    a largest fee and a largest amount). `OverdraftBounded` is not inductive: it forgets the
    debits that are checked and not yet written. `SolvencyInv` says, of every
    account (`Within`): if `k` handlers are about to debit it, the balance less the debit of
    one of them is at least minus `(n - k)` largest debits. A check adds a handler whose
    debit the balance covers; a write takes one away and lowers the balance by at most a
    largest debit.
  - `WalletsMoneyAccounted`, with `TablesAssumption` (accounts, deposits and withdrawals are
    finite tables). What all accounts hold together and what was entered for all requests
    are sums, so the proof rests on lemmas about `Sum`: that the recursive definition in
    the community modules has one solution, that any element may be added first, and that
    a sum moves as one of its numbers does. Their induction looks at a smallest set for
    which they would fail (`LeastNumber`). Then a deposit or a decision adds
    the same amount on both sides, a collected fee nothing, and a refund at most nothing:
    it pays out no more than it takes from the platform. A decided withdrawal has a wallet
    to debit because only a request that was made is decided (`DecidedAsked`).
  - `WalletsEntriesAgree` and `WalletsFeeStatusTruthful`, if `OneWorker`. `AloneInv` adds
    that what the handler has read is still so when it writes (`Current`).
- `BackOfficeProofs`, about `Drivers` (from `NoOneAssumption` and `TripsAssumption`: NULL is no
  driver's or trip's id, trips are finitely many). `DriverInvariant` and from it
  `DriverAccepted`, with any number of handlers. An account becomes ACTIVE without an
  accepted invitation (invited, suspended, reactivated), so the argument goes through the
  profile, which only the acceptance makes and which nobody deletes. `DriversTell` and
  `DriversSecondTrip`, if `OneHandler`: `AvailInv` says that every driver is shown as he is save
  one whose handler is between its statements, and what that handler knows about
  him. Drivers whose flag was last set by somebody else than a handler of trips, or
  left as it was by a failure or by the POD on the load, are in `aside` and excepted.
- `BackOfficeProofs`, about `Settlement` (no assumption). `SettlementInvariant` and from it
  `SettlementAttended`: no settlement is left IN_PROGRESS by an answer or an exception, with
  any number of handlers at work, while the run has one. Two handlers that pass the lock
  together do not break it: each of them takes the status to an end when it finishes.
  `SettlementPaidUndone` and `SettlementPaidIsBacked`, if `OneSettler`: the settlement a handler is
  about to write is not PAID, and the fee it has collected is (`SettlersKnow`), until
  `loads/[id]/settle` has written PAID and goes on.
- `PlatformProofs`, about `Postings` (from `NoRowAssumption` and `AdsAssumption`, for any `MaxHauls`). `PostingInvariant`,
  with any number of clerks: a posting belongs to a truck, and only a reactivation writes
  ACTIVE to one that was read before. `OneAdPerTruck` and `BusyTruckPosted`, if
  `OneClerk`: what the handler has read is so when it writes (`ClerkKnows`).
- `PlatformProofs`, about `JobQueue` (from `JobAssumption`). `QueueInvariant` and from it
  `JobsRunOnce`: whoever calls `processInMemoryJob`, and however often a job is
  retried by hand or by a timer, it has one run while it is active and none otherwise.
- `PlatformProofs`, about `EntityCache` (from `CacheAssumption`: size and lifetime are positive,
  "none" is no key). `CacheInvariant` and from it `CacheBounded` and `CacheStaleExplained`. The
  invariant adds that a busy reader has a key and that the stored keys are finitely many;
  the bound needs that the victim of an eviction is a stored key other than the new one.
- `BackOfficeImplies` and `PlatformImplies`: a behaviour of `MCBackOffice` or `MCPlatform` is a
  behaviour of each component in it, so the runs check no more than the components can do,
  and what is proved of a component holds there (`BackOfficeTypes`, `PlatformTypes`).

Each module also proves its type invariant. `OneWorker`, `OneHandler`, `OneSettler` and
`OneClerk` say that the set of handlers has at most one member. They are hypotheses of
the theorems that need them and of no other, and no assumption of a model: these
properties are false for two handlers (see "One handler at a time").

One property had to be corrected for its proof. `LastTripFreesTruck` used to except only a
count that was overtaken, and was false with two workers: a status change reads the trip in
EXCEPTION with its truck; another handler reassigns the trip, which comes back and
returns to EXCEPTION with the new truck; the first then ends the trip and frees the
truck it has read (`app/api/trips/[tripId]/route.ts:608`-`629`), and nobody frees the new one.
The run has one worker and could not show it. The property now excepts a handler whose trip
has got another truck (`Astray`). The count itself is made and used in different steps by workers
and desks alike, and a handler that found another active trip is excepted by name: when
that one is the last to commit, nobody frees the truck.

Only model-checked: liveness (`StuckTripsClose`, `LapsedLeaveMarket`, `JobsEnd`, `StaleGoes`), which
is out of the prover's reach. Every other property of a passing run is a theorem. That the
four properties of the violation runs are false is shown by their counterexamples.

## What is not modelled, and why

- Who may call a handler. Each handler is called by someone; the role decides
  who, and no property here depends on it.
- Wallet and insurance gates of booking: they only refuse, and `Abort` or not starting
  covers a refusal.
- Times. `expiresAt`, the 48 hours of the monitor and the week of a load may have
  passed or not. The expiry of invitations is left out with the rest of their content.
- In `Booking` and `TripFlow` a truck has one posting; `Postings` has several.
- In `LoadDesk`: creation and deletion of a load, and the automation rule that writes any
  status (`lib/automationActions.ts:237`). `lib/tripManagement` is left out. Fees of the manual completion
  are in `Settlement`. `DELETE loads/[id]/assign` never succeeds: the state machine does not let
  an assigned load go back to SEARCHING.
- `completeLoadWithSettlement` (`lib/settlementAutomation.ts:214`): nothing calls it.
- Redis and BullMQ: services outside the repository, whose in-memory stand-ins are modelled.
- Disputes, notifications, load events, documents, chat, ratings: written beside the
  core and read by none of its guards.
- GPS, distance and corridor matching, analytics: measurements and read-only computation.
- Authentication, rate limits and the user interfaces, which are most of the lines of this
  repository: they hold no state that the protocols here share.

## Possible extensions

A composition of `Wallets` with `TripFlow` in place of the coarse `Book`, `Deliver` and
`CancelLoad`; an abstract specification of a wallet that charges each load once, and which
handlers implement it; the monitor's limit of 20 trips with closes that always fail.
