--------------------------- MODULE BackOfficeProofs ---------------------------
(***************************************************************************)
(* The components that MCBackOffice puts beside each other: drivers and    *)
(* the settlement of a load, each with its inductive invariants, and the   *)
(* combination of them and the wallets (WalletsProofs), a behaviour of     *)
(* which is one of each component.                                         *)
(*                                                                         *)
(* Drivers: a driver has accepted an invitation although an account        *)
(* becomes ACTIVE without one.  DriverInv goes through the profile, which  *)
(* only the acceptance makes and nobody deletes: a profile means an        *)
(* accepted invitation, and every driver a handler writes to a trip was    *)
(* seen with a profile before.  With one handler, AvailInv says that every *)
(* driver is shown as he is, save for one whose handler is between its two *)
(* writes, and that what the handler has read is so.                       *)
(*                                                                         *)
(* Settlement: InProgressAttended is inductive together with the types and *)
(* DutyHasLoad: a handler leaves "settle" only by writing the status of    *)
(* its own load or by dying, and nobody but LockSettlement writes          *)
(* IN_PROGRESS.  With one handler, SettlersKnow says that the settlement   *)
(* it is about to write is not PAID, save by the settle handler after it   *)
(* has written PAID itself, and that the fee it has collected is.          *)
(***************************************************************************)
EXTENDS MCBackOffice, WalletsProofs, FiniteSetTheorems

-----------------------------------------------------------------------------
(* Drivers *)

Profiled == {d \in DriverIds : onDuty[d] # "NONE"}

\* What a handler may be doing, with which driver and trip.
OfDriver == {"accept", "revoke", "approve", "reject", "suspend", "hide", "reactivate",
             "show", "assign", "occupy", "swap"}
OfTrip == {"assign", "occupy", "unassign", "restore", "swap", "end", "verify"}

CallFits(c) ==
  /\ c \in CallRow
  /\ c.op \in OfDriver => c.driver \in DriverIds
  /\ c.op \in OfTrip => c.trip \in DriverTrips
  /\ c.op \in {"end", "verify"} => c.next \in TripStatuses
  /\ c.op \in {"assign", "occupy"} => c.driver \in Profiled
  /\ c.prev # NoOne => c.prev \in Profiled

RowsInv ==
  /\ account \in [DriverIds -> AccountStatuses]
  /\ invitation \in [DriverIds -> InvitationStates]
  /\ onDuty \in [DriverIds -> {"NONE", "yes", "no"}]
  /\ tripStatus \in [DriverTrips -> TripStatuses]
  /\ driverOf \in [DriverTrips -> Profiled \cup {NoOne}]
  /\ aside \subseteq DriverIds
  /\ \A d \in Profiled : invitation[d] = "ACCEPTED" /\ account[d] # "NONE"

DriverInv == /\ RowsInv
             /\ call \in [Handlers -> CallRow]
             /\ \A h \in Handlers : CallFits(call[h])

-----------------------------------------------------------------------------
(* Handlers *)

\* A handler that takes up or continues well-formed work, while no profile is lost.
LEMMA CallKept ==
  ASSUME DriverInv, NEW h \in Handlers, NEW c, CallFits(c),
         call' = [call EXCEPT ![h] = c],
         Profiled \subseteq Profiled', RowsInv'
  PROVE  DriverInv'
<1>1. call' \in [Handlers -> CallRow]
  BY DEF DriverInv, CallFits
<1>2. ASSUME NEW g \in Handlers PROVE CallFits(call[g])'
  <2>1. CallFits(call'[g])
    BY DEF DriverInv
  <2> QED
    BY <2>1 DEF CallFits
<1> QED
  BY <1>1, <1>2 DEF DriverInv

\* Having nothing to do fits.
LEMMA NoCallFits == CallFits(NoCall)
BY DEF CallFits, NoCall, CallRow, CallOps, OfDriver, OfTrip

\* A handler that ends.
LEMMA HangKept ==
  ASSUME DriverInv, NEW h \in Handlers, Hang(h), Profiled \subseteq Profiled', RowsInv'
  PROVE  DriverInv'
BY NoCallFits, CallKept DEF Hang

\* A handler between two of its statements.
Continuations == {<<"suspend", "hide">>, <<"reactivate", "show">>, <<"assign", "occupy">>,
                  <<"occupy", "restore">>, <<"unassign", "restore">>}

\* Its next statement is about the same driver and trip.
LEMMA ProceedKept ==
  ASSUME DriverInv, NEW h \in Handlers, NEW op, <<call[h].op, op>> \in Continuations,
         Proceed(h, op), Profiled \subseteq Profiled', RowsInv'
  PROVE  DriverInv'
<1> DEFINE c == [call[h] EXCEPT !.op = op]
<1>1. CallFits(call[h])
  BY DEF DriverInv
<1>2. CallFits(c)
  BY <1>1 DEF CallFits, CallRow, CallOps, OfDriver, OfTrip, Continuations
<1>3. call' = [call EXCEPT ![h] = c]
  BY DEF Proceed
<1> HIDE DEF c
<1> QED
  BY <1>2, <1>3, CallKept

\* A handler that has only read.
LEMMA TakeKept ==
  ASSUME DriverInv, NEW h \in Handlers, NEW c, CallFits(c), Take(h, c),
         UNCHANGED <<driverRows, aside>>
  PROVE  DriverInv'
<1>1. Profiled' = Profiled /\ RowsInv'
  BY DEF driverRows, Profiled, DriverInv, RowsInv
<1> QED
  BY <1>1, CallKept DEF Take

\* Work on a driver.
LEMMA OnDriverFits ==
  ASSUME NEW d \in DriverIds, NEW op \in OfDriver \ {"assign", "occupy", "swap"}
  PROVE  CallFits(OnDriver(op, d))
BY DEF CallFits, OnDriver, NoCall, CallRow, CallOps, OfDriver, OfTrip

\* Work on a trip, whose driver has a profile.
LEMMA OnTripFits ==
  ASSUME DriverInv, NEW x \in DriverTrips, NEW d \in DriverIds \cup {NoOne},
         NEW op \in OfTrip \ {"occupy", "restore"}, NEW next \in TripStatuses \cup {NoOne},
         op \in {"assign", "swap"} => d \in DriverIds,
         op = "assign" => d \in Profiled,
         op \in {"end", "verify"} => next \in TripStatuses
  PROVE  CallFits(OnTrip(op, d, x, next))
<1>1. driverOf[x] \in Profiled \cup {NoOne} /\ tripStatus[x] \in TripStatuses
  BY DEF DriverInv, RowsInv
<1>2. Profiled \subseteq DriverIds
  BY DEF Profiled
<1> QED
  BY <1>1, <1>2 DEF CallFits, OnTrip, CallRow, CallOps, OfDriver, OfTrip

-----------------------------------------------------------------------------
(* Reads *)

\* Handlers of accounts.
LEMMA BeginAccountKeeps ==
  ASSUME DriverInv, NEW h \in Handlers, NEW d \in DriverIds,
         BeginAccount(h, d) \/ BeginSuspend(h, d)
  PROVE  DriverInv'
<1>1. \E op \in OfDriver \ {"assign", "occupy", "swap"} : Take(h, OnDriver(op, d))
  BY DEF BeginAccount, BeginSuspend, OfDriver
<1>2. UNCHANGED <<driverRows, aside>>
  BY DEF BeginAccount, BeginSuspend
<1> QED
  BY <1>1, <1>2, OnDriverFits, TakeKept

\* A driver that may drive has a profile.
LEMMA BeginAssignKeeps ==
  ASSUME DriverInv, NEW h \in Handlers, NEW d \in DriverIds, NEW x \in DriverTrips,
         BeginAssign(h, d, x)
  PROVE  DriverInv'
<1>1. d \in Profiled
  BY DEF BeginAssign, MayDrive, Profiled
<1>2. CallFits(OnTrip("assign", d, x, NoOne))
  BY <1>1, OnTripFits DEF OfTrip
<1> QED
  BY <1>2, TakeKept DEF BeginAssign

\* A new driver with a new truck is not asked for a profile yet.
LEMMA BeginSwapKeeps ==
  ASSUME DriverInv, NEW h \in Handlers, NEW d \in DriverIds, NEW x \in DriverTrips,
         BeginSwap(h, d, x)
  PROVE  DriverInv'
<1>1. "IN_TRANSIT" \in TripStatuses
  BY DEF TripStatuses
<1>2. CallFits(OnTrip("swap", d, x, "IN_TRANSIT"))
  BY <1>1, OnTripFits DEF OfTrip
<1> QED
  BY <1>2, TakeKept DEF BeginSwap

\* Handlers that take a driver from a trip or end the trip.
LEMMA BeginTripKeeps ==
  ASSUME DriverInv, NEW h \in Handlers, NEW x \in DriverTrips,
         \/ BeginUnassign(h, x)
         \/ BeginVerify(h, x)
         \/ \E status \in TerminalTrip : BeginEnd(h, x, status)
  PROVE  DriverInv'
<1>1. TerminalTrip \subseteq TripStatuses /\ "COMPLETED" \in TripStatuses
  BY DEF TerminalTrip, TripStatuses
<1>2. CASE BeginUnassign(h, x)
  BY <1>2, OnTripFits, TakeKept DEF BeginUnassign, OfTrip
<1>3. CASE BeginVerify(h, x)
  BY <1>1, <1>3, OnTripFits, TakeKept DEF BeginVerify, OfTrip
<1>4. ASSUME NEW status \in TerminalTrip, BeginEnd(h, x, status) PROVE DriverInv'
  <2>1. CallFits(OnTrip("end", NoOne, x, status))
    BY <1>1, OnTripFits DEF OfTrip
  <2> QED
    BY <2>1, <1>4, TakeKept DEF BeginEnd
<1> QED
  BY <1>2, <1>3, <1>4

-----------------------------------------------------------------------------
(* Writes *)

\* The row of a handler at work.
LEMMA CallType ==
  ASSUME DriverInv, NEW h \in Handlers
  PROVE  CallFits(call[h])
BY DEF DriverInv

\* Steps of no handler.
LEMMA AloneKeeps ==
  ASSUME DriverInv, NEW d \in DriverIds,
         Invite(d) \/ \E value \in {"yes", "no"} : Toggle(d, value)
  PROVE  DriverInv'
<1>1. Profiled' = Profiled
  BY DEF Invite, Toggle, Profiled, DriverInv, RowsInv
<1>2. RowsInv'
  <2>1. CASE Invite(d)
    <3>1. d \notin Profiled
      BY <2>1 DEF Invite, DriverInv, RowsInv
    <3> QED
      BY <1>1, <2>1, <3>1 DEF Invite, DriverInv, RowsInv, AccountStatuses, InvitationStates
  <2>2. CASE \E value \in {"yes", "no"} : Toggle(d, value)
    BY <1>1, <2>2 DEF Toggle, DriverInv, RowsInv
  <2> QED
    BY <2>1, <2>2
<1>3. call' = call
  BY DEF Invite, Toggle, SomeoneFree
<1> QED
  BY <1>1, <1>2, <1>3 DEF DriverInv, CallFits

\* The trip moves.
LEMMA MoveKeeps ==
  ASSUME DriverInv, NEW x \in DriverTrips, NEW status \in TripStatuses, MoveTrip(x, status)
  PROVE  DriverInv'
<1>1. Profiled' = Profiled
  BY DEF MoveTrip, Profiled
<1>2. RowsInv'
  BY <1>1 DEF MoveTrip, DriverInv, RowsInv
<1> QED
  BY <1>1, <1>2 DEF MoveTrip, SomeoneFree, DriverInv, CallFits

\* The acceptance makes the profile, in the transaction that accepts.
LEMMA AcceptKeeps ==
  ASSUME DriverInv, NEW h \in Handlers, CommitAccept(h)
  PROVE  DriverInv'
<1> DEFINE d == call[h].driver
<1>1. d \in DriverIds
  BY CallType DEF CommitAccept, Doing, CallFits, OfDriver
<1>2. Profiled' = Profiled \cup {d}
  BY <1>1 DEF CommitAccept, Profiled, DriverInv, RowsInv
<1>3. RowsInv'
  BY <1>1, <1>2 DEF CommitAccept, DriverInv, RowsInv, AccountStatuses, InvitationStates
<1> QED
  BY <1>2, <1>3, HangKept DEF CommitAccept

\* A revocation that comes late leaves the accepted invitation as it is.
LEMMA RevokeKeeps ==
  ASSUME DriverInv, NEW h \in Handlers, CommitRevoke(h)
  PROVE  DriverInv'
<1> DEFINE d == call[h].driver
<1>1. d \in DriverIds
  BY CallType DEF CommitRevoke, Doing, CallFits, OfDriver
<1>2. Profiled' = Profiled
  BY DEF CommitRevoke, Profiled
<1>3. RowsInv'
  BY <1>1, <1>2 DEF CommitRevoke, DriverInv, RowsInv, AccountStatuses, InvitationStates
<1> QED
  BY <1>2, <1>3, HangKept DEF CommitRevoke

\* No administrator's decision deletes an account or a profile.
LEMMA AccountKeeps ==
  ASSUME DriverInv, NEW h \in Handlers,
         CommitApproval(h) \/ CommitRejection(h) \/ SuspendAccount(h) \/ ReactivateAccount(h)
  PROVE  DriverInv'
<1> DEFINE d == call[h].driver
<1>1. PICK op \in {"approve", "reject", "suspend", "reactivate"},
           status \in AccountStatuses \ {"NONE"} : SetAccount(h, op, status)
  BY DEF CommitApproval, CommitRejection, SuspendAccount, ReactivateAccount, AccountStatuses
<1>2. d \in DriverIds
  BY <1>1, CallType DEF SetAccount, Doing, CallFits, OfDriver
<1>3. Profiled' = Profiled
  BY <1>1 DEF SetAccount, Profiled
<1>4. RowsInv'
  BY <1>1, <1>2, <1>3 DEF SetAccount, DriverInv, RowsInv
<1>5. CASE Hang(h)
  BY <1>3, <1>4, <1>5, HangKept
<1>6. CASE SuspendAccount(h)
  BY <1>3, <1>4, <1>6, ProceedKept DEF SuspendAccount, SetAccount, Doing, Continuations
<1>7. CASE ReactivateAccount(h)
  BY <1>3, <1>4, <1>7, ProceedKept DEF ReactivateAccount, SetAccount, Doing, Continuations
<1> QED
  BY <1>5, <1>6, <1>7 DEF CommitApproval, CommitRejection

\* Statements that write the availability write it to a profile.
LEMMA AvailabilityKeeps ==
  ASSUME DriverInv, NEW h \in Handlers, HideProfile(h) \/ ShowProfile(h) \/ Occupy(h)
  PROVE  DriverInv'
<1> DEFINE d == call[h].driver
<1>1. d \in DriverIds
  BY CallType DEF HideProfile, ShowProfile, Occupy, Doing, CallFits, OfDriver
<1>2. \/ onDuty' = onDuty
      \/ d \in Profiled /\ \E v \in {"yes", "no"} : onDuty' = [onDuty EXCEPT ![d] = v]
  BY <1>1 DEF HideProfile, ShowProfile, Occupy, DriverInv, RowsInv, Profiled
<1>3. /\ UNCHANGED <<account, invitation, tripStatus, driverOf>>
      /\ aside' \subseteq aside \cup {d}
  BY DEF HideProfile, ShowProfile, Occupy
<1>4. Profiled' = Profiled
  BY <1>2 DEF Profiled, DriverInv, RowsInv
<1>5. RowsInv'
  BY <1>1, <1>2, <1>3, <1>4 DEF DriverInv, RowsInv
<1>6. CASE Hang(h)
  BY <1>4, <1>5, <1>6, HangKept
<1>7. CASE Occupy(h) /\ Proceed(h, "restore")
  BY <1>4, <1>5, <1>7, ProceedKept DEF Occupy, Doing, Continuations
<1> QED
  BY <1>6, <1>7 DEF HideProfile, ShowProfile, Occupy

\* A trip gets a driver that was seen with a profile, or loses its driver.
LEMMA DriverKeeps ==
  ASSUME DriverInv, NEW h \in Handlers, WriteDriver(h) \/ RemoveDriver(h)
  PROVE  DriverInv'
<1>1. CallFits(call[h])
  BY CallType
<1>2. Profiled' = Profiled
  BY DEF WriteDriver, RemoveDriver, Profiled
<1>3. \E d \in Profiled \cup {NoOne} : driverOf' = [driverOf EXCEPT ![call[h].trip] = d]
  BY <1>1 DEF WriteDriver, RemoveDriver, Doing, CallFits
<1>4. RowsInv'
  BY <1>2, <1>3 DEF WriteDriver, RemoveDriver, DriverInv, RowsInv
<1>5. CASE WriteDriver(h)
  BY <1>2, <1>4, <1>5, ProceedKept DEF WriteDriver, Doing, Continuations
<1>6. CASE RemoveDriver(h)
  BY <1>2, <1>4, <1>6, ProceedKept DEF RemoveDriver, Doing, Continuations
<1> QED
  BY <1>5, <1>6

\* The driver a trip is ended with, or taken from, has a profile.
LEMMA RestoreKeeps ==
  ASSUME DriverInv, NEW h \in Handlers, RestorePrevious(h) \/ CommitEnd(h) \/ CommitVerify(h)
  PROVE  DriverInv'
<1>1. CallFits(call[h])
  BY CallType
<1>2. \/ onDuty' = onDuty
      \/ onDuty' = [onDuty EXCEPT ![call[h].prev] = "yes"]
  BY DEF RestorePrevious, CommitEnd, CommitVerify, Restored
<1>3. \/ onDuty' = onDuty
      \/ call[h].prev \in Profiled /\ onDuty' = [onDuty EXCEPT ![call[h].prev] = "yes"]
  <2>1. CASE call[h].prev = NoOne
    BY <1>2, <2>1, NoOneAssumption DEF DriverInv, RowsInv
  <2> QED
    BY <2>1, <1>1, <1>2 DEF CallFits
<1>4. Profiled' = Profiled
  BY <1>3 DEF Profiled, DriverInv, RowsInv
<1>5. tripStatus' \in [DriverTrips -> TripStatuses]
  BY <1>1 DEF RestorePrevious, CommitEnd, CommitVerify, Doing, CallFits, DriverInv, RowsInv,
              TripStatuses
<1>6. UNCHANGED <<account, invitation, driverOf>> /\ aside' \subseteq DriverIds
  <2>1. CASE RestorePrevious(h) \/ CommitEnd(h)
    BY <2>1 DEF RestorePrevious, CommitEnd, DriverInv, RowsInv
  <2>2. CASE CommitVerify(h)
    <3>1. call[h].trip \in DriverTrips
      BY <1>1, <2>2 DEF CommitVerify, Doing, CallFits, OfTrip
    <3>2. driverOf[call[h].trip] \in DriverIds \cup {NoOne}
      BY <3>1 DEF DriverInv, RowsInv, Profiled
    <3> QED
      BY <2>2, <3>2 DEF CommitVerify, DriverInv, RowsInv
  <2> QED
    BY <2>1, <2>2
<1>7. RowsInv'
  BY <1>3, <1>4, <1>5, <1>6 DEF DriverInv, RowsInv, Profiled
<1> QED
  BY <1>4, <1>7, HangKept DEF RestorePrevious, CommitEnd, CommitVerify

\* A new driver without a profile rolls the reassignment back.
LEMMA SwapKeeps ==
  ASSUME DriverInv, NEW h \in Handlers, CommitSwap(h)
  PROVE  DriverInv'
<1> DEFINE d == call[h].driver
           x == call[h].trip
           old == Replaced(h)
<1>1. d \in DriverIds /\ x \in DriverTrips
  BY CallType DEF CommitSwap, Doing, CallFits, OfDriver, OfTrip
<1>2. d \in Profiled
  BY <1>1 DEF CommitSwap, Profiled
<1>3. old # NoOne => old \in Profiled
  BY CallType DEF Replaced, CallFits
<1>4. /\ onDuty' \in [DriverIds -> {"NONE", "yes", "no"}]
      /\ \A e \in DriverIds : onDuty'[e] # onDuty[e] => e \in {d, old} /\ onDuty'[e] # "NONE"
  BY DEF CommitSwap, DriverInv, RowsInv
<1>5. Profiled' = Profiled
  BY <1>2, <1>3, <1>4, NoOneAssumption DEF Profiled
<1>6. /\ driverOf' = [driverOf EXCEPT ![x] = d]
      /\ tripStatus' = [tripStatus EXCEPT ![x] = "IN_TRANSIT"]
      /\ aside' \subseteq aside
      /\ UNCHANGED <<account, invitation>>
  BY DEF CommitSwap
<1> HIDE DEF d, x, old
<1>7. RowsInv'
  BY <1>1, <1>2, <1>4, <1>5, <1>6 DEF DriverInv, RowsInv, TripStatuses
<1> QED
  BY <1>5, <1>7, HangKept DEF CommitSwap

\* A handler that dies writes nothing.
LEMMA DiesKeeps ==
  ASSUME DriverInv, NEW h \in Handlers, HandlerDies(h)
  PROVE  DriverInv'
<1>1. Profiled' = Profiled
  BY DEF HandlerDies, driverRows, Profiled
<1>2. aside' \subseteq DriverIds
  BY CallType DEF HandlerDies, DriverInv, RowsInv, CallFits, CallRow
<1>3. RowsInv'
  BY <1>1, <1>2 DEF HandlerDies, driverRows, DriverInv, RowsInv
<1> QED
  BY <1>1, <1>3, HangKept DEF HandlerDies

-----------------------------------------------------------------------------
\* A carrier begins without drivers.
LEMMA DriverInitInv == DriverInit => DriverInv
<1> SUFFICES ASSUME DriverInit PROVE DriverInv
  OBVIOUS
<1>1. Profiled = {}
  BY DEF DriverInit, Profiled
<1>2. RowsInv
  BY <1>1 DEF DriverInit, RowsInv, AccountStatuses, InvitationStates, TripStatuses
<1>3. \A h \in Handlers : call[h] = NoCall
  BY DEF DriverInit
<1> QED
  BY <1>2, <1>3, NoCallFits DEF DriverInit, DriverInv, CallFits

\* Every step of every handler keeps DriverInv.
LEMMA DriverStepInv == DriverInv /\ [DriverNext]_driverVars => DriverInv'
<1> SUFFICES ASSUME DriverInv, [DriverNext]_driverVars PROVE DriverInv'
  OBVIOUS
<1>1. ASSUME NEW h \in Handlers, AccountStep(h) PROVE DriverInv'
  BY <1>1, BeginAccountKeeps, AcceptKeeps, RevokeKeeps, AccountKeeps, AvailabilityKeeps
     DEF AccountStep
<1>2. ASSUME NEW h \in Handlers, AssignmentStep(h) PROVE DriverInv'
  BY <1>2, BeginAssignKeeps, BeginSwapKeeps, BeginTripKeeps, DriverKeeps,
     AvailabilityKeeps, RestoreKeeps, SwapKeeps
     DEF AssignmentStep
<1>3. CASE UNCHANGED driverVars
  <2>1. Profiled' = Profiled
    BY <1>3 DEF driverVars, Profiled
  <2> QED
    BY <1>3, <2>1 DEF driverVars, DriverInv, RowsInv, CallFits
<1> QED
  BY <1>1, <1>2, <1>3, AloneKeeps, MoveKeeps, DiesKeeps DEF DriverNext

\* DriverInv is an invariant of the handlers of drivers.
THEOREM DriverInvariant == DriverSpec => []DriverInv
BY DriverInitInv, DriverStepInv, PTL DEF DriverSpec

\* The rows always hold values of their columns' types.
THEOREM DriverTypes == DriverSpec => []DriverTypeOK
<1>1. DriverInv => DriverTypeOK
  BY DEF DriverInv, RowsInv, Profiled, DriverTypeOK
<1> QED
  BY <1>1, DriverInvariant, PTL

\* Neither suspension and reactivation nor two handlers at once put somebody on a
\* trip who has not accepted his invitation.
THEOREM DriverAccepted == DriverSpec => []AcceptedBeforeDriving
<1>1. DriverInv => AcceptedBeforeDriving
  BY DEF DriverInv, RowsInv, AcceptedBeforeDriving
<1> QED
  BY <1>1, DriverInvariant, PTL

-----------------------------------------------------------------------------
(* One handler at a time: availability *)

OneHandler == \A g, h \in Handlers : g = h

\* A driver is shown as not available exactly if he has an active trip.
Tells(d) == onDuty[d] = "no" <=> ActiveTrips(d) # {}

\* Between two statements of a handler, its driver and the one before him may be
\* shown otherwise.
Between == {"hide", "show", "occupy", "restore"}
Unsettled(d) == \E h \in Handlers : call[h].op \in Between /\ d \in {call[h].driver, call[h].prev}

\* What the handler of call c knows of its trip and of the drivers it has not
\* written yet.
Knows(c) ==
  /\ c.op \in {"suspend", "hide", "reactivate", "show"} => c.prev = NoOne
  /\ c.op \in {"assign", "unassign", "swap", "end"} =>
       /\ c.prev = driverOf[c.trip]
       /\ c.seen = tripStatus[c.trip]
  /\ c.op = "assign" => c.seen \in {"ASSIGNED", "PICKUP_PENDING"}
  /\ c.op = "unassign" => c.prev # NoOne /\ c.seen = "ASSIGNED" /\ c.driver = NoOne
  /\ c.op = "end" => c.next \in TerminalTrip
  /\ c.op \in {"assign", "swap"} => Driving(c.driver) \subseteq {c.trip}
  /\ c.op = "occupy" => driverOf[c.trip] = c.driver /\ tripStatus[c.trip] \in Blocking
  /\ c.op = "restore" => /\ driverOf[c.trip] # c.prev
                         /\ c.prev # NoOne
                         /\ c.driver # c.prev
                         /\ c.driver \in DriverIds \ aside => Tells(c.driver)
  /\ c.op \in {"occupy", "restore"} /\ c.prev \in DriverIds \ (aside \cup {c.driver})
       => onDuty[c.prev] = "no"

AvailInv == /\ \A d \in DriverIds \ aside : Tells(d) \/ Unsettled(d)
            /\ \A h \in Handlers : Knows(call[h])

\* Nothing to do, nothing to know.
LEMMA NoCallKnows == Knows(NoCall)
BY DEF Knows, NoCall

\* Outside of the statements in between, everybody who is not set aside is shown
\* as he is.
LEMMA AllTell ==
  ASSUME OneHandler, AvailInv, NEW h \in Handlers, call[h].op \notin Between,
         NEW d \in DriverIds \ aside
  PROVE  Tells(d)
BY DEF OneHandler, AvailInv, Unsettled

\* The others are, also then.
LEMMA OthersTell ==
  ASSUME OneHandler, AvailInv, NEW h \in Handlers, NEW d \in DriverIds \ aside,
         d \notin {call[h].driver, call[h].prev}
  PROVE  Tells(d)
BY DEF OneHandler, AvailInv, Unsettled

\* The handler ends, or has only read.
LEMMA Settles ==
  ASSUME OneHandler, NEW h \in Handlers, Knows(call[h])',
         \A d \in DriverIds \ aside' : Tells(d)'
  PROVE  AvailInv'
BY DEF OneHandler, AvailInv

\* The handler goes on to its next statement about the same drivers.
LEMMA GoesOn ==
  ASSUME OneHandler, NEW h \in Handlers, Knows(call[h])', call'[h].op \in Between,
         \A d \in DriverIds \ aside' :
           d \in {call'[h].driver, call'[h].prev} \/ Tells(d)'
  PROVE  AvailInv'
BY DEF OneHandler, AvailInv, Unsettled

\* A driver whose rows are not written.
LEMMA TellsStill ==
  ASSUME NEW d, Tells(d), onDuty'[d] = onDuty[d],
         \A x \in DriverTrips : (driverOf'[x] = d /\ tripStatus'[x] \in Blocking)
                                  <=> (driverOf[x] = d /\ tripStatus[x] \in Blocking)
  PROVE  Tells(d)'
BY DEF Tells, ActiveTrips

\* Steps of no handler find the only handler free.
LEMMA NobodyBusy ==
  ASSUME OneHandler, SomeoneFree
  PROVE  /\ call' = call
         /\ \A h \in Handlers : call[h] = NoCall
BY DEF OneHandler, SomeoneFree

\* An invitation, and an availability turned by hand.
LEMMA AloneAvails ==
  ASSUME OneHandler, DriverInv, AvailInv, NEW e \in DriverIds,
         Invite(e) \/ \E value \in {"yes", "no"} : Toggle(e, value)
  PROVE  AvailInv'
<1>1. SomeoneFree /\ UNCHANGED <<tripStatus, driverOf>>
  BY DEF Invite, Toggle
<1>2. PICK h \in Handlers : call[h] = NoCall
  BY <1>1 DEF SomeoneFree
<1>3. ASSUME NEW d \in DriverIds \ aside' PROVE Tells(d)'
  <2>1. d \in DriverIds \ aside /\ onDuty'[d] = onDuty[d]
    BY <1>3 DEF Invite, Toggle, DriverInv, RowsInv
  <2>2. Tells(d)
    BY <2>1, <1>2, AllTell DEF Between, NoCall
  <2> QED
    BY <1>1, <2>1, <2>2, TellsStill
<1>4. Knows(call[h])'
  BY <1>1, <1>2 DEF SomeoneFree, Knows, NoCall
<1> QED
  BY <1>3, <1>4, Settles

\* A trip that moves stays an active one.
LEMMA MoveAvails ==
  ASSUME OneHandler, DriverInv, AvailInv, NEW x \in DriverTrips, NEW status \in TripStatuses,
         MoveTrip(x, status)
  PROVE  AvailInv'
<1>1. SomeoneFree /\ UNCHANGED <<onDuty, driverOf, aside>>
  BY DEF MoveTrip
<1>2. PICK h \in Handlers : call[h] = NoCall
  BY <1>1 DEF SomeoneFree
<1>3. /\ tripStatus' = [tripStatus EXCEPT ![x] = status]
      /\ tripStatus[x] \in Blocking /\ status \in Blocking
  BY DEF MoveTrip, DriverInv, RowsInv, VALID_TRIP_TRANSITIONS, TripStatuses, TerminalTrip, Blocking
<1>4. ASSUME NEW d \in DriverIds \ aside' PROVE Tells(d)'
  <2>1. Tells(d)
    BY <1>1, <1>2, <1>4, AllTell DEF Between, NoCall
  <2> QED
    BY <1>1, <1>3, <2>1, TellsStill DEF DriverInv, RowsInv
<1>5. Knows(call[h])'
  BY <1>1, <1>2 DEF SomeoneFree, Knows, NoCall
<1> QED
  BY <1>4, <1>5, Settles

\* A handler that has only read knows what it has read.
LEMMA ReadAvails ==
  ASSUME OneHandler, AvailInv, NEW h \in Handlers, call[h] = NoCall,
         UNCHANGED <<driverRows, aside>>, Knows(call'[h])
  PROVE  AvailInv'
<1>1. ASSUME NEW d \in DriverIds \ aside' PROVE Tells(d)'
  <2>1. Tells(d)
    BY <1>1, AllTell DEF Between, NoCall
  <2> QED
    BY <2>1 DEF Tells, ActiveTrips, driverRows
<1>2. Knows(call[h])'
  BY DEF Knows, Tells, ActiveTrips, Driving, driverRows
<1> QED
  BY <1>1, <1>2, Settles

\* What each of them reads.
LEMMA BeginAvails ==
  ASSUME OneHandler, DriverInv, AvailInv, NEW h \in Handlers,
         \/ \E d \in DriverIds : BeginAccount(h, d) \/ BeginSuspend(h, d)
         \/ \E d \in DriverIds, x \in DriverTrips : BeginAssign(h, d, x) \/ BeginSwap(h, d, x)
         \/ \E x \in DriverTrips : BeginUnassign(h, x) \/ BeginVerify(h, x)
         \/ \E x \in DriverTrips, status \in TerminalTrip : BeginEnd(h, x, status)
  PROVE  AvailInv'
<1>1. ASSUME NEW d \in DriverIds, BeginAccount(h, d) \/ BeginSuspend(h, d)
      PROVE  AvailInv'
  <2>1. PICK op \in {"accept", "revoke", "approve", "reject", "reactivate", "suspend"} :
          Take(h, OnDriver(op, d)) /\ UNCHANGED <<driverRows, aside>>
    BY <1>1 DEF BeginAccount, BeginSuspend
  <2>2. Knows(OnDriver(op, d))
    BY DEF Knows, OnDriver, NoCall
  <2> QED
    BY <2>1, <2>2, ReadAvails DEF Take, DriverInv
<1>2. ASSUME NEW d \in DriverIds, NEW x \in DriverTrips, BeginAssign(h, d, x)
      PROVE  AvailInv'
  <2>1. Knows(OnTrip("assign", d, x, NoOne))
    BY <1>2 DEF BeginAssign, NoConflict, Knows, OnTrip
  <2> QED
    BY <1>2, <2>1, ReadAvails DEF BeginAssign, Take, DriverInv
<1>3. ASSUME NEW d \in DriverIds, NEW x \in DriverTrips, BeginSwap(h, d, x)
      PROVE  AvailInv'
  <2>1. Knows(OnTrip("swap", d, x, "IN_TRANSIT"))
    BY <1>3 DEF BeginSwap, NoConflict, Knows, OnTrip
  <2> QED
    BY <1>3, <2>1, ReadAvails DEF BeginSwap, Take, DriverInv
<1>4. ASSUME NEW x \in DriverTrips, BeginUnassign(h, x)
      PROVE  AvailInv'
  <2>1. Knows(OnTrip("unassign", NoOne, x, NoOne))
    BY <1>4 DEF BeginUnassign, Knows, OnTrip
  <2> QED
    BY <1>4, <2>1, ReadAvails DEF BeginUnassign, Take, DriverInv
<1>5. ASSUME NEW x \in DriverTrips, BeginVerify(h, x)
      PROVE  AvailInv'
  <2>1. Knows(OnTrip("verify", NoOne, x, "COMPLETED"))
    BY DEF Knows, OnTrip
  <2> QED
    BY <1>5, <2>1, ReadAvails DEF BeginVerify, Take, DriverInv
<1>6. ASSUME NEW x \in DriverTrips, NEW status \in TerminalTrip, BeginEnd(h, x, status)
      PROVE  AvailInv'
  <2>1. Knows(OnTrip("end", NoOne, x, status))
    BY DEF Knows, OnTrip
  <2> QED
    BY <1>6, <2>1, ReadAvails DEF BeginEnd, Take, DriverInv
<1> QED
  BY <1>1, <1>2, <1>3, <1>4, <1>5, <1>6

\* The handler of a single write ends.
LEMMA Hung ==
  ASSUME OneHandler, DriverInv, NEW h \in Handlers, Hang(h),
         \A d \in DriverIds \ aside' : Tells(d)'
  PROVE  AvailInv'
<1>1. call'[h] = NoCall
  BY DEF Hang, DriverInv
<1>2. Knows(call[h])'
  BY <1>1 DEF Knows, NoCall
<1> QED
  BY <1>2, Settles

\* Handlers of accounts change no trip; those of the profile set the driver aside
\* or put him where his trips say.
LEMMA AccountAvails ==
  ASSUME OneHandler, DriverInv, AvailInv, NEW h \in Handlers,
         \/ CommitAccept(h) \/ CommitRevoke(h) \/ CommitApproval(h) \/ CommitRejection(h)
         \/ SuspendAccount(h) \/ HideProfile(h) \/ ReactivateAccount(h) \/ ShowProfile(h)
  PROVE  AvailInv'
<1>1. UNCHANGED <<tripStatus, driverOf>>
  BY DEF CommitAccept, CommitRevoke, CommitApproval, CommitRejection, SuspendAccount,
         ReactivateAccount, SetAccount, HideProfile, ShowProfile
<1>2. CASE CommitAccept(h)
  <2> DEFINE e == call[h].driver
  <2>1. onDuty' = [onDuty EXCEPT ![e] = "yes"] /\ aside' = aside /\ Hang(h)
    BY <1>2 DEF CommitAccept
  <2>2. e \in DriverIds /\ e \notin Profiled
    BY <1>2, CallType DEF CommitAccept, Doing, CallFits, OfDriver, Profiled
  <2>3. ActiveTrips(e) = {}
    BY <2>2, NoOneAssumption DEF ActiveTrips, DriverInv, RowsInv
  <2>4. ASSUME NEW d \in DriverIds \ aside' PROVE Tells(d)'
    <3>1. CASE d = e
      BY <1>1, <2>1, <2>3, <3>1 DEF Tells, ActiveTrips, DriverInv, RowsInv
    <3>2. CASE d # e
      <4>1. Tells(d)
        BY <1>2, <2>1, <2>4, AllTell DEF CommitAccept, Doing, Between
      <4> QED
        BY <1>1, <2>1, <3>2, <4>1, TellsStill DEF DriverInv, RowsInv
    <3> QED  BY <3>1, <3>2
  <2> QED
    BY <2>1, <2>4, Hung
<1>3. CASE CommitRevoke(h) \/ CommitApproval(h) \/ CommitRejection(h)
  <2>1. UNCHANGED <<onDuty, aside>> /\ Hang(h) /\ call[h].op \notin Between
    BY <1>3 DEF CommitRevoke, CommitApproval, CommitRejection, SetAccount, Doing, Between
  <2>2. ASSUME NEW d \in DriverIds \ aside' PROVE Tells(d)'
    <3>1. Tells(d)
      BY <2>1, <2>2, AllTell
    <3> QED
      BY <1>1, <2>1, <3>1, TellsStill
  <2> QED
    BY <2>1, <2>2, Hung
<1>4. CASE SuspendAccount(h) \/ ReactivateAccount(h)
  <2>1. /\ UNCHANGED <<onDuty, aside>>
        /\ call[h].op \notin Between
        /\ call'[h].op \in {"hide", "show"}
    BY <1>4 DEF SuspendAccount, ReactivateAccount, SetAccount, Doing, Between, Proceed,
                DriverInv, CallRow
  <2>2. ASSUME NEW d \in DriverIds \ aside' PROVE Tells(d)'
    <3>1. Tells(d)
      BY <2>1, <2>2, AllTell
    <3> QED
      BY <1>1, <2>1, <3>1, TellsStill
  <2>3. Knows(call[h])'
    <3>1. call[h].prev = NoOne /\ call'[h].prev = call[h].prev
      BY <1>4 DEF SuspendAccount, ReactivateAccount, SetAccount, Doing, Proceed,
                  AvailInv, Knows, DriverInv, CallRow
    <3> QED
      BY <2>1, <3>1 DEF Knows
  <2> QED
    BY <2>1, <2>2, <2>3, Settles
<1>5. CASE HideProfile(h) \/ ShowProfile(h)
  <2>. PICK e : e = call[h].driver
    OBVIOUS
  <2>1. e \in DriverIds /\ call[h].prev = NoOne
    <3>1. call[h].op \in {"hide", "show"}
      BY <1>5 DEF HideProfile, ShowProfile, Doing
    <3> QED
      BY <3>1, CallType DEF CallFits, OfDriver, AvailInv, Knows
  <2>2. /\ \A d \in DriverIds \ {e} : onDuty'[d] = onDuty[d]
        /\ aside \ {e} \subseteq aside'
        /\ Hang(h)
    BY <1>5 DEF HideProfile, ShowProfile, DriverInv, RowsInv
  <2>3. ASSUME e \notin aside' PROVE Tells(e)'
    <3>1. ShowProfile(h) /\ ActiveTrips(e) = {}
      BY <1>5, <2>3 DEF HideProfile, ShowProfile
    <3>2. onDuty'[e] # "no"
      BY <2>1, <3>1 DEF ShowProfile, DriverInv, RowsInv
    <3> QED
      BY <1>1, <3>1, <3>2 DEF Tells, ActiveTrips
  <2>4. ASSUME NEW d \in DriverIds \ aside', d # e PROVE Tells(d)'
    <3>1. Tells(d)
      BY <2>1, <2>2, <2>4, NoOneAssumption, OthersTell
    <3> QED
      BY <1>1, <2>2, <2>4, <3>1, TellsStill
  <2> QED
    BY <2>2, <2>3, <2>4, Hung
<1> QED
  BY <1>2, <1>3, <1>4, <1>5

\* The trip has its new driver; the handler is not done with either of them.
LEMMA WriteDriverAvails ==
  ASSUME OneHandler, DriverInv, AvailInv, NEW h \in Handlers, WriteDriver(h)
  PROVE  AvailInv'
<1> DEFINE c == call[h]
           x == call[h].trip
<1>1. /\ c.op = "assign" /\ x \in DriverTrips /\ c.driver \in DriverIds
      /\ c.prev = driverOf[x] /\ tripStatus[x] \in {"ASSIGNED", "PICKUP_PENDING"}
  BY CallType DEF WriteDriver, Doing, CallFits, OfDriver, OfTrip, AvailInv, Knows
<1>2. /\ driverOf' = [driverOf EXCEPT ![x] = c.driver]
      /\ call'[h] = [c EXCEPT !.op = "occupy"]
      /\ UNCHANGED <<onDuty, tripStatus, aside>>
  BY DEF WriteDriver, Proceed, DriverInv
<1>3. /\ call'[h].op = "occupy" /\ call'[h].driver = c.driver
      /\ call'[h].prev = c.prev /\ call'[h].trip = x
  BY <1>2 DEF DriverInv, CallRow
<1>4. ASSUME NEW d \in DriverIds \ aside', d \notin {c.driver, c.prev} PROVE Tells(d)'
  <2>1. Tells(d)
    BY <1>2, <1>4, OthersTell
  <2> QED
    BY <1>1, <1>2, <1>4, <2>1, TellsStill DEF DriverInv, RowsInv
<1>5. ASSUME c.prev \in DriverIds \ aside PROVE onDuty[c.prev] = "no"
  <2>1. Tells(c.prev)
    BY <1>1, <1>5, AllTell DEF Between
  <2>2. x \in ActiveTrips(c.prev)
    BY <1>1 DEF ActiveTrips, Blocking
  <2> QED
    BY <2>1, <2>2 DEF Tells
<1>6. Knows(call[h])'
  <2>1. driverOf'[x] = c.driver /\ tripStatus'[x] \in Blocking
    BY <1>1, <1>2 DEF DriverInv, RowsInv, Blocking
  <2> QED
    BY <1>2, <1>3, <1>5, <2>1 DEF Knows
<1> QED
  BY <1>3, <1>4, <1>6, GoesOn DEF Between

\* The new driver is shown as busy, and has a trip.
LEMMA OccupyAvails ==
  ASSUME OneHandler, DriverInv, AvailInv, NEW h \in Handlers, Occupy(h)
  PROVE  AvailInv'
<1>. PICK c, x, e : c = call[h] /\ x = call[h].trip /\ e = call[h].driver
  OBVIOUS
<1>1. /\ c.op = "occupy" /\ x \in DriverTrips /\ e \in DriverIds
      /\ driverOf[x] = e /\ tripStatus[x] \in Blocking
      /\ c.prev \in DriverIds \ (aside \cup {e}) => onDuty[c.prev] = "no"
  BY CallType DEF Occupy, Doing, CallFits, OfDriver, OfTrip, AvailInv, Knows
<1>2. /\ onDuty' = [onDuty EXCEPT ![e] = "no"]
      /\ aside' = aside \ {e}
      /\ UNCHANGED <<tripStatus, driverOf>>
  BY DEF Occupy
<1>3. Tells(e)'
  <2>1. onDuty'[e] = "no"
    BY <1>1, <1>2 DEF DriverInv, RowsInv
  <2>2. x \in ActiveTrips(e)'
    BY <1>1, <1>2 DEF ActiveTrips
  <2> QED
    BY <2>1, <2>2 DEF Tells
<1>4. ASSUME NEW d \in DriverIds \ aside', d \notin {e, c.prev} PROVE Tells(d)'
  <2>1. Tells(d)
    BY <1>2, <1>4, OthersTell
  <2> QED
    BY <1>1, <1>2, <1>4, <2>1, TellsStill DEF DriverInv, RowsInv
<1>5. CASE Replaced(h) = NoOne
  <2>1. c.prev \in {NoOne, e}
    BY <1>5 DEF Replaced
  <2>2. \A d \in DriverIds \ aside' : Tells(d)'
    BY <1>3, <1>4, <2>1, NoOneAssumption
  <2> QED
    BY <1>5, <2>2, Hung DEF Occupy
<1>6. CASE Replaced(h) # NoOne
  <2>1. c.prev # NoOne /\ c.prev # e
    BY <1>6, NoOneAssumption, <1>1 DEF Replaced
  <2>2. /\ call'[h].op = "restore" /\ call'[h].driver = e
        /\ call'[h].prev = c.prev /\ call'[h].trip = x
    BY <1>6 DEF Occupy, Proceed, DriverInv, CallRow
  <2>3. c.prev \in DriverIds \ (aside' \cup {e}) => onDuty'[c.prev] = "no"
    BY <1>1, <1>2, <2>1 DEF DriverInv, RowsInv
  <2>4. Knows(call[h])'
    BY <1>1, <1>2, <1>3, <2>1, <2>2, <2>3 DEF Knows
  <2> QED
    BY <1>3, <1>4, <2>2, <2>4, GoesOn DEF Between
<1> QED
  BY <1>5, <1>6

\* A trip without its driver: he is restored next.
LEMMA RemoveAvails ==
  ASSUME OneHandler, DriverInv, AvailInv, NEW h \in Handlers, RemoveDriver(h)
  PROVE  AvailInv'
<1> DEFINE c == call[h]
           x == call[h].trip
<1>1. /\ c.op = "unassign" /\ x \in DriverTrips /\ c.driver = NoOne
      /\ c.prev = driverOf[x] /\ c.prev # NoOne /\ tripStatus[x] = "ASSIGNED"
  BY CallType DEF RemoveDriver, Doing, CallFits, OfTrip, AvailInv, Knows
<1>2. /\ driverOf' = [driverOf EXCEPT ![x] = NoOne]
      /\ call'[h] = [c EXCEPT !.op = "restore"]
      /\ UNCHANGED <<onDuty, tripStatus, aside>>
  BY DEF RemoveDriver, Proceed, DriverInv
<1>3. /\ call'[h].op = "restore" /\ call'[h].driver = NoOne
      /\ call'[h].prev = c.prev /\ call'[h].trip = x
  BY <1>1, <1>2 DEF DriverInv, CallRow
<1>4. ASSUME NEW d \in DriverIds \ aside', d \notin {c.driver, c.prev} PROVE Tells(d)'
  <2>1. Tells(d)
    BY <1>2, <1>4, OthersTell
  <2> QED
    BY <1>1, <1>2, <1>4, <2>1, TellsStill, NoOneAssumption DEF DriverInv, RowsInv
<1>5. ASSUME c.prev \in DriverIds \ aside PROVE onDuty[c.prev] = "no"
  <2>1. Tells(c.prev)
    BY <1>1, <1>5, AllTell DEF Between
  <2>2. x \in ActiveTrips(c.prev)
    BY <1>1 DEF ActiveTrips, Blocking
  <2> QED
    BY <2>1, <2>2 DEF Tells
<1>6. Knows(call[h])'
  <2>1. driverOf'[x] = NoOne
    BY <1>1, <1>2 DEF DriverInv, RowsInv
  <2> QED
    BY <1>1, <1>2, <1>3, <1>5, <2>1, NoOneAssumption DEF Knows
<1> QED
  BY <1>1, <1>3, <1>4, <1>6, GoesOn DEF Between

\* The driver before has no trip any more, or is shown as busy with the others.
LEMMA RestoreAvails ==
  ASSUME OneHandler, DriverInv, AvailInv, NEW h \in Handlers, RestorePrevious(h)
  PROVE  AvailInv'
<1>. PICK c, x, e : c = call[h] /\ x = call[h].trip /\ e = call[h].prev
  OBVIOUS
<1>1. /\ c.op = "restore" /\ x \in DriverTrips /\ e # NoOne /\ e \in DriverIds
      /\ driverOf[x] # e /\ c.driver # e
      /\ c.driver \in DriverIds \ aside => Tells(c.driver)
      /\ e \in DriverIds \ aside => onDuty[e] = "no"
  BY CallType DEF RestorePrevious, Doing, CallFits, OfTrip, Profiled, AvailInv, Knows
<1>2. /\ onDuty' = IF ActiveTrips(e) \subseteq {x} THEN [onDuty EXCEPT ![e] = "yes"] ELSE onDuty
      /\ aside' = IF ActiveTrips(e) \subseteq {x} THEN aside \ {e} ELSE aside
      /\ UNCHANGED <<tripStatus, driverOf>>
      /\ Hang(h)
  BY DEF RestorePrevious, Restored
<1>3. ASSUME e \notin aside' PROVE Tells(e)'
  <2>1. ActiveTrips(e) \subseteq {x} => ActiveTrips(e) = {}
    BY <1>1 DEF ActiveTrips
  <2>2. ActiveTrips(e)' = ActiveTrips(e)
    BY <1>2 DEF ActiveTrips
  <2>3. CASE ActiveTrips(e) = {}
    <3>1. onDuty'[e] = "yes"
      BY <1>1, <1>2, <2>3 DEF DriverInv, RowsInv
    <3> QED
      BY <2>2, <2>3, <3>1 DEF Tells
  <2>4. CASE ActiveTrips(e) # {}
    <3>1. onDuty'[e] = "no"
      BY <1>1, <1>2, <1>3, <2>1, <2>4
    <3> QED
      BY <2>2, <2>4, <3>1 DEF Tells
  <2> QED
    BY <2>3, <2>4
<1>4. ASSUME NEW d \in DriverIds \ aside', d # e PROVE Tells(d)'
  <2>1. d \notin aside
    BY <1>2, <1>4
  <2>2. Tells(d)
    BY <1>1, <1>4, <2>1, OthersTell
  <2> QED
    BY <1>1, <1>2, <1>4, <2>2, TellsStill DEF DriverInv, RowsInv
<1> QED
  BY <1>2, <1>3, <1>4, Hung

\* The end of a trip frees its driver, unless he has another one.
LEMMA EndAvails ==
  ASSUME OneHandler, DriverInv, AvailInv, NEW h \in Handlers, CommitEnd(h)
  PROVE  AvailInv'
<1>. PICK c, x, e : c = call[h] /\ x = call[h].trip /\ e = call[h].prev
  OBVIOUS
<1>1. /\ c.op = "end" /\ x \in DriverTrips /\ e = driverOf[x]
      /\ c.next \notin Blocking
  BY CallType DEF CommitEnd, Doing, CallFits, OfTrip, AvailInv, Knows, TerminalTrip, Blocking
<1>2. /\ tripStatus' = [tripStatus EXCEPT ![x] = c.next]
      /\ UNCHANGED driverOf
      /\ e = NoOne => UNCHANGED <<onDuty, aside>>
      /\ e # NoOne =>
           /\ onDuty' = IF ActiveTrips(e) \subseteq {x} THEN [onDuty EXCEPT ![e] = "yes"] ELSE onDuty
           /\ aside' = IF ActiveTrips(e) \subseteq {x} THEN aside \ {e} ELSE aside
      /\ Hang(h)
  BY DEF CommitEnd, Restored
<1>3. ASSUME e \in DriverIds \ aside' PROVE Tells(e)'
  <2>1. ActiveTrips(e)' = ActiveTrips(e) \ {x}
    BY <1>1, <1>2 DEF ActiveTrips, DriverInv, RowsInv
  <2>2. e # NoOne
    BY <1>3, NoOneAssumption
  <2>3. CASE ActiveTrips(e) \subseteq {x}
    <3>1. onDuty'[e] = "yes"
      BY <1>2, <1>3, <2>2, <2>3 DEF DriverInv, RowsInv
    <3> QED
      BY <2>1, <2>3, <3>1 DEF Tells
  <2>4. CASE ~(ActiveTrips(e) \subseteq {x})
    <3>1. Tells(e) /\ onDuty'[e] = onDuty[e]
      BY <1>1, <1>2, <1>3, <2>2, <2>4, AllTell DEF Between
    <3> QED
      BY <2>1, <2>4, <3>1 DEF Tells
  <2> QED
    BY <2>3, <2>4
<1>4. ASSUME NEW d \in DriverIds \ aside', d # e PROVE Tells(d)'
  <2>1. d \notin aside /\ onDuty'[d] = onDuty[d]
    <3>1. CASE e = NoOne
      BY <1>2, <1>4, <3>1
    <3>2. CASE e # NoOne
      BY <1>2, <1>4, <3>2 DEF DriverInv, RowsInv
    <3> QED  BY <3>1, <3>2
  <2>2. Tells(d)
    BY <1>1, <1>4, <2>1, AllTell DEF Between
  <2> QED
    BY <1>1, <1>2, <1>4, <2>1, <2>2, TellsStill DEF DriverInv, RowsInv
<1> QED
  BY <1>2, <1>3, <1>4, Hung

\* The verification of a POD, and a handler that dies, set drivers aside.
LEMMA AsideAvails ==
  ASSUME OneHandler, DriverInv, AvailInv, NEW h \in Handlers,
         CommitVerify(h) \/ HandlerDies(h)
  PROVE  AvailInv'
<1>1. CASE CommitVerify(h)
  <2>. PICK x : x = call[h].trip
    OBVIOUS
  <2>1. call[h].op = "verify" /\ x \in DriverTrips
    BY <1>1, CallType DEF CommitVerify, Doing, CallFits, OfTrip
  <2>2. /\ tripStatus' = [tripStatus EXCEPT ![x] = "COMPLETED"]
        /\ aside' = aside \cup ({driverOf[x]} \ {NoOne})
        /\ UNCHANGED <<onDuty, driverOf>>
        /\ Hang(h)
    BY <1>1 DEF CommitVerify
  <2>3. ASSUME NEW d \in DriverIds \ aside' PROVE Tells(d)'
    <3>1. d \notin aside /\ driverOf[x] # d
      BY <2>2, <2>3, NoOneAssumption
    <3>2. Tells(d)
      BY <2>1, <2>3, <3>1, AllTell DEF Between
    <3> QED
      BY <2>1, <2>2, <3>1, <3>2, TellsStill DEF DriverInv, RowsInv
  <2> QED
    BY <2>2, <2>3, Hung
<1>2. CASE HandlerDies(h)
  <2>1. UNCHANGED <<onDuty, driverOf, tripStatus>> /\ Hang(h)
    BY <1>2 DEF HandlerDies, driverRows
  <2>2. ASSUME NEW d \in DriverIds \ aside' PROVE Tells(d)'
    <3>1. d \notin aside /\ d \notin {call[h].driver, call[h].prev}
      BY <1>2, <2>2, NoOneAssumption DEF HandlerDies
    <3>2. Tells(d)
      BY <2>2, <3>1, OthersTell
    <3> QED
      BY <2>1, <3>2, TellsStill
  <2> QED
    BY <2>1, <2>2, Hung
<1> QED
  BY <1>1, <1>2

\* The trip and its two drivers are written in one transaction.
LEMMA SwapAvails ==
  ASSUME OneHandler, DriverInv, AvailInv, NEW h \in Handlers, CommitSwap(h)
  PROVE  AvailInv'
<1>. PICK x, e, old : x = call[h].trip /\ e = call[h].driver /\ old = Replaced(h)
  OBVIOUS
<1>. DEFINE free == old # NoOne /\ ActiveTrips(old) \subseteq {x}
<1>1. /\ call[h].op = "swap" /\ x \in DriverTrips /\ e \in DriverIds
      /\ tripStatus[x] = "EXCEPTION"
      /\ driverOf[x] = call[h].prev
      /\ old # e
      /\ driverOf[x] # e => old = driverOf[x]
      /\ driverOf[x] = e => old = NoOne
  BY CallType, NoOneAssumption
     DEF CommitSwap, Doing, CallFits, OfTrip, OfDriver, AvailInv, Knows, Replaced
<1>2. /\ tripStatus' = [tripStatus EXCEPT ![x] = "IN_TRANSIT"]
      /\ driverOf' = [driverOf EXCEPT ![x] = e]
      /\ onDuty' = [d \in DriverIds |-> CASE d = e -> "no"
                                          [] d = old /\ free -> "yes"
                                          [] OTHER -> onDuty[d]]
      /\ aside' = aside \ (IF free THEN {e, old} ELSE {e})
      /\ Hang(h)
  BY DEF CommitSwap
<1>. HIDE DEF free
<1>3. driverOf'[x] = e /\ tripStatus'[x] \in Blocking
  BY <1>1, <1>2 DEF DriverInv, RowsInv, Blocking
<1>4. Tells(e)'
  <2>1. x \in ActiveTrips(e)'
    BY <1>1, <1>3 DEF ActiveTrips
  <2>2. onDuty'[e] = "no"
    BY <1>1, <1>2
  <2> QED
    BY <2>1, <2>2 DEF Tells
<1>5. ASSUME old \in DriverIds \ aside' PROVE Tells(old)'
  <2>1. ActiveTrips(old)' = ActiveTrips(old) \ {x}
    BY <1>1, <1>2, <1>3 DEF ActiveTrips, DriverInv, RowsInv
  <2>2. old # NoOne
    BY <1>5, NoOneAssumption
  <2>3. CASE free
    <3>1. onDuty'[old] = "yes"
      BY <1>1, <1>2, <1>5, <2>3
    <3> QED
      BY <2>1, <2>3, <3>1 DEF Tells, free
  <2>4. CASE ~free
    <3>1. onDuty'[old] = onDuty[old] /\ old \notin aside
      BY <1>1, <1>2, <1>5, <2>4
    <3>2. Tells(old)
      BY <1>1, <1>5, <3>1, AllTell DEF Between
    <3> QED
      BY <2>1, <2>2, <2>4, <3>1, <3>2 DEF Tells, free
  <2> QED
    BY <2>3, <2>4
<1>6. ASSUME NEW d \in DriverIds \ aside', d \notin {e, old} PROVE Tells(d)'
  <2>1. d \notin aside /\ onDuty'[d] = onDuty[d] /\ driverOf[x] # d
    BY <1>1, <1>2, <1>6
  <2>2. Tells(d)
    BY <1>1, <1>6, <2>1, AllTell DEF Between
  <2> QED
    BY <1>1, <1>2, <1>6, <2>1, <2>2, TellsStill DEF DriverInv, RowsInv
<1> QED
  BY <1>2, <1>4, <1>5, <1>6, Hung

\* Every step keeps AvailInv.
LEMMA AvailStep ==
  ASSUME OneHandler, DriverInv, AvailInv, [DriverNext]_driverVars
  PROVE  AvailInv'
<1>1. ASSUME NEW h \in Handlers, AccountStep(h) PROVE AvailInv'
  BY <1>1, BeginAvails, AccountAvails DEF AccountStep
<1>2. ASSUME NEW h \in Handlers, AssignmentStep(h) PROVE AvailInv'
  BY <1>2, BeginAvails, WriteDriverAvails, OccupyAvails, RestoreAvails, RemoveAvails,
     SwapAvails, EndAvails, AsideAvails
     DEF AssignmentStep
<1>3. CASE UNCHANGED driverVars
  BY <1>3 DEF driverVars, AvailInv, Knows, Tells, Unsettled, ActiveTrips, Driving
<1> QED
  BY <1>1, <1>2, <1>3, AloneAvails, MoveAvails, AsideAvails DEF DriverNext

\* AvailInv is an invariant when one handler runs at a time.
LEMMA AvailInvariant == OneHandler => (DriverSpec => []AvailInv)
<1>1. DriverInit => AvailInv
  <2> SUFFICES ASSUME DriverInit PROVE AvailInv
    OBVIOUS
  <2>1. \A h \in Handlers : Knows(call[h])
    BY NoCallKnows DEF DriverInit
  <2>2. ASSUME NEW d \in DriverIds PROVE Tells(d)
    BY NoOneAssumption DEF DriverInit, Tells, ActiveTrips
  <2> QED
    BY <2>1, <2>2 DEF AvailInv
<1>2. OneHandler /\ DriverInv /\ AvailInv /\ [DriverNext]_driverVars => AvailInv'
  BY AvailStep
<1>3. CASE OneHandler
  BY <1>1, <1>2, <1>3, DriverInvariant, PTL DEF DriverSpec
<1> QED
  BY <1>3

\* When one handler runs at a time, an ACTIVE driver without an active trip is
\* shown as available and a driver with one is not, unless somebody else decided.
THEOREM DriversTell == OneHandler => (DriverSpec => []AvailabilityTells)
<1>1. AvailInv => AvailabilityTells
  BY DEF AvailInv, AvailabilityTells, Tells, Unsettled, Attended
<1>2. CASE OneHandler
  BY <1>1, <1>2, AvailInvariant, PTL
<1> QED
  BY <1>2

\* What a step may do to the trips a driver has work on: it adds none, or leaves
\* one at most, or brings one back from EXCEPTION.
NoTripAdded(d) == Driving(d)' \subseteq Driving(d)
OneTripLeft(d) == \E x \in DriverTrips : Driving(d)' \subseteq {x}
TripIsBack(d) == \E x \in DriverTrips : /\ driverOf[x] = d
                                        /\ tripStatus[x] = "EXCEPTION"
                                        /\ tripStatus'[x] # "EXCEPTION"

\* A driver with one trip at most does not get a second one by the first two.
LEMMA NoSecondTrip ==
  ASSUME NEW d, NoTripAdded(d) \/ OneTripLeft(d), Cardinality(Driving(d)) <= 1
  PROVE  ~(Cardinality(Driving(d)') > 1)
<1>1. CASE NoTripAdded(d)
  <2>1. IsFiniteSet(Driving(d))
    BY FS_Subset, TripsAssumption DEF Driving
  <2>2. /\ Cardinality(Driving(d)') <= Cardinality(Driving(d))
        /\ Cardinality(Driving(d)) \in Nat
        /\ Cardinality(Driving(d)') \in Nat
    BY <1>1, <2>1, FS_Subset, FS_CardinalityType DEF NoTripAdded
  <2> QED  BY <2>2
<1>2. CASE OneTripLeft(d)
  <2>1. PICK x \in DriverTrips : Driving(d)' \subseteq {x}
    BY <1>2 DEF OneTripLeft
  <2>2. IsFiniteSet({x}) /\ Cardinality({x}) = 1
    BY FS_Singleton
  <2>3. /\ Cardinality(Driving(d)') <= 1
        /\ Cardinality(Driving(d)') \in Nat
    BY <2>1, <2>2, FS_Subset, FS_CardinalityType
  <2> QED  BY <2>3
<1> QED  BY <1>1, <1>2

\* A trip that moves was driven before, or comes back from EXCEPTION.
LEMMA MoveAdds ==
  ASSUME DriverInv, NEW x \in DriverTrips, NEW status \in TripStatuses, MoveTrip(x, status),
         NEW d \in DriverIds
  PROVE  NoTripAdded(d) \/ TripIsBack(d)
<1>1. /\ tripStatus' = [tripStatus EXCEPT ![x] = status] /\ driverOf' = driverOf
      /\ status \in VALID_TRIP_TRANSITIONS[tripStatus[x]]
  BY DEF MoveTrip
<1>2. tripStatus[x] \in {"ASSIGNED", "PICKUP_PENDING", "IN_TRANSIT", "EXCEPTION"}
        \/ status \notin {"ASSIGNED", "PICKUP_PENDING", "IN_TRANSIT"}
  BY <1>1 DEF DriverInv, RowsInv, VALID_TRIP_TRANSITIONS, TripStatuses
<1>3. status # "EXCEPTION" \/ status \notin {"ASSIGNED", "PICKUP_PENDING", "IN_TRANSIT"}
  OBVIOUS
<1>4. CASE tripStatus[x] = "EXCEPTION" /\ driverOf[x] = d /\ status # "EXCEPTION"
  BY <1>1, <1>4 DEF TripIsBack, DriverInv, RowsInv
<1>5. CASE ~(tripStatus[x] = "EXCEPTION" /\ driverOf[x] = d /\ status # "EXCEPTION")
  BY <1>1, <1>2, <1>3, <1>5 DEF NoTripAdded, Driving, DriverInv, RowsInv
<1> QED
  BY <1>4, <1>5

\* A handler that gives a driver a trip has seen that he has no other.
LEMMA DriverAdds ==
  ASSUME OneHandler, DriverInv, AvailInv, NEW h \in Handlers, WriteDriver(h) \/ CommitSwap(h),
         NEW d \in DriverIds
  PROVE  NoTripAdded(d) \/ OneTripLeft(d)
<1>. PICK x, e : x = call[h].trip /\ e = call[h].driver
  OBVIOUS
<1>1. x \in DriverTrips /\ e \in DriverIds /\ Driving(e) \subseteq {x}
  BY CallType
     DEF WriteDriver, CommitSwap, Doing, CallFits, OfTrip, OfDriver, AvailInv, Knows
<1>2. /\ driverOf' = [driverOf EXCEPT ![x] = e]
      /\ \A y \in DriverTrips \ {x} : tripStatus'[y] = tripStatus[y]
  BY DEF WriteDriver, CommitSwap, DriverInv, RowsInv
<1>3. CASE d = e
  <2>1. Driving(e)' \subseteq {x}
    BY <1>1, <1>2 DEF Driving, DriverInv, RowsInv
  <2> QED
    BY <1>1, <1>3, <2>1 DEF OneTripLeft
<1>4. CASE d # e
  BY <1>1, <1>2, <1>4 DEF NoTripAdded, Driving, DriverInv, RowsInv
<1> QED
  BY <1>3, <1>4

\* Taking a driver from a trip, and ending one, adds no trip.
LEMMA EndAdds ==
  ASSUME OneHandler, DriverInv, AvailInv, NEW h \in Handlers,
         RemoveDriver(h) \/ CommitEnd(h) \/ CommitVerify(h),
         NEW d \in DriverIds
  PROVE  NoTripAdded(d)
<1>. PICK x : x = call[h].trip
  OBVIOUS
<1>1. x \in DriverTrips
  BY CallType DEF RemoveDriver, CommitEnd, CommitVerify, Doing, CallFits, OfTrip
<1>2. CASE RemoveDriver(h)
  <2>1. driverOf' = [driverOf EXCEPT ![x] = NoOne] /\ tripStatus' = tripStatus
    BY <1>2 DEF RemoveDriver
  <2> QED
    BY <1>1, <2>1, NoOneAssumption DEF NoTripAdded, Driving, DriverInv, RowsInv
<1>3. CASE CommitEnd(h) \/ CommitVerify(h)
  <2>1. PICK status \in TerminalTrip :
          tripStatus' = [tripStatus EXCEPT ![x] = status] /\ driverOf' = driverOf
    BY <1>3 DEF CommitEnd, CommitVerify, Doing, AvailInv, Knows, TerminalTrip
  <2> QED
    BY <1>1, <2>1 DEF NoTripAdded, Driving, TerminalTrip, DriverInv, RowsInv
<1> QED
  BY <1>2, <1>3

\* Every step does one of the three.
LEMMA OneTripOrFewer ==
  ASSUME OneHandler, DriverInv, AvailInv, [DriverNext]_driverVars, NEW d \in DriverIds
  PROVE  NoTripAdded(d) \/ OneTripLeft(d) \/ TripIsBack(d)
<1>1. CASE UNCHANGED <<tripStatus, driverOf>>
  BY <1>1 DEF NoTripAdded, Driving
<1>2. ASSUME NEW h \in Handlers, AccountStep(h)
      PROVE  UNCHANGED <<tripStatus, driverOf>>
  BY <1>2 DEF AccountStep, BeginAccount, BeginSuspend, CommitAccept, CommitRevoke,
              CommitApproval, CommitRejection, SuspendAccount, HideProfile,
              ReactivateAccount, ShowProfile, SetAccount, driverRows
<1>3. ASSUME NEW h \in Handlers, AssignmentStep(h)
      PROVE  \/ UNCHANGED <<tripStatus, driverOf>>
             \/ WriteDriver(h) \/ CommitSwap(h)
             \/ RemoveDriver(h) \/ CommitEnd(h) \/ CommitVerify(h)
  BY <1>3 DEF AssignmentStep, BeginAssign, BeginSwap, BeginUnassign, BeginVerify, BeginEnd,
              Occupy, RestorePrevious, driverRows
<1>4. ASSUME NEW h \in Handlers, HandlerDies(h) PROVE UNCHANGED <<tripStatus, driverOf>>
  BY <1>4 DEF HandlerDies, driverRows
<1>5. ASSUME NEW e \in DriverIds, Invite(e) \/ \E value \in {"yes", "no"} : Toggle(e, value)
      PROVE  UNCHANGED <<tripStatus, driverOf>>
  BY <1>5 DEF Invite, Toggle
<1>6. CASE UNCHANGED driverVars
  BY <1>1, <1>6 DEF driverVars
<1> QED
  BY <1>1, <1>2, <1>3, <1>4, <1>5, <1>6, MoveAdds, DriverAdds, EndAdds DEF DriverNext

\* When one handler runs at a time, a driver gets work on a second trip only when
\* a trip of his comes back from EXCEPTION.
THEOREM DriversSecondTrip == OneHandler => (DriverSpec => SecondTripFromException)
<1> SUFFICES ASSUME OneHandler PROVE DriverSpec => SecondTripFromException
  OBVIOUS
<1>1. ASSUME DriverInv, AvailInv, [DriverNext]_driverVars
      PROVE  [\A d \in DriverIds :
                Cardinality(Driving(d)) <= 1 /\ Cardinality(Driving(d)') > 1
                  => \E x \in DriverTrips : /\ driverOf[x] = d
                                            /\ tripStatus[x] = "EXCEPTION"
                                            /\ tripStatus'[x] # "EXCEPTION"]_driverVars
  <2>1. ASSUME NEW d \in DriverIds, Cardinality(Driving(d)) <= 1, Cardinality(Driving(d)') > 1
        PROVE  TripIsBack(d)
    BY <1>1, <2>1, OneTripOrFewer, NoSecondTrip
  <2> QED
    BY <2>1 DEF TripIsBack
<1>2. DriverSpec => [](DriverInv /\ AvailInv)
  BY DriverInvariant, AvailInvariant, PTL
<1> QED
  BY <1>1, <1>2, PTL DEF DriverSpec, SecondTripFromException

-----------------------------------------------------------------------------
(* Settlement *)

\* A handler at work has a load.
DutyHasLoad == \A s \in Settlers : duty[s].op # "none" => duty[s].on \in Deliveries

SettlementInv == SettlementTypeOK /\ DutyHasLoad /\ InProgressAttended

\* The columns hold values of their types.
RowsOK ==
  /\ stage \in [Deliveries -> {"IN_TRANSIT", "DELIVERED", "COMPLETED"}]
  /\ submitted \subseteq Deliveries
  /\ verified \subseteq Deliveries
  /\ feeOf \in [Deliveries -> [Payers -> FeeStates]]
  /\ settled \in [Deliveries -> SettlementStatuses]
  /\ abandoned \subseteq Deliveries

\* What a handler may be doing.
DutyFits(r) == r \in DutyRow /\ (r.op # "none" => r.on \in Deliveries)

\* A step of one handler that writes well-formed rows keeps the types.
LEMMA TypesKept ==
  ASSUME SettlementInv, NEW s \in Settlers, NEW r, DutyFits(r),
         duty' = [duty EXCEPT ![s] = r], RowsOK'
  PROVE  SettlementTypeOK' /\ DutyHasLoad'
BY DEF SettlementInv, SettlementTypeOK, DutyHasLoad, RowsOK, DutyFits

\* A handler that goes leaves well-formed duties behind.
LEMMA OffDutyFits == DutyFits(OffDuty)
BY DEF DutyFits, OffDuty, DutyRow, DutyOps, Completions, Answers

\* A handler at work has a load and an answer or none.
LEMMA AtWork ==
  ASSUME SettlementInv, NEW s \in Settlers, duty[s].op # "none"
  PROVE  /\ duty[s].on \in Deliveries
         /\ duty[s] \in DutyRow
         /\ duty[s].answer \in Answers
BY DEF SettlementInv, SettlementTypeOK, DutyHasLoad, DutyRow

\* A handler that is not settling may come, go on and go, as long as it brings no
\* settlement to IN_PROGRESS.
LEMMA OthersAttend ==
  ASSUME SettlementInv, NEW s \in Settlers, NEW r,
         duty[s].op # "settle",
         duty' = [duty EXCEPT ![s] = r],
         \A l \in Deliveries : settled'[l] = "IN_PROGRESS" => settled[l] = "IN_PROGRESS",
         abandoned' = abandoned
  PROVE  InProgressAttended'
BY DEF SettlementInv, SettlementTypeOK, InProgressAttended

\* A settling handler may go on, or go, once it has written the status of its load.
LEMMA SettlerAttends ==
  ASSUME SettlementInv, NEW s \in Settlers, NEW r, NEW status,
         duty[s].op = "settle", status # "IN_PROGRESS",
         SetSettled(duty[s].on, status),
         duty' = [duty EXCEPT ![s] = r], abandoned' = abandoned
  PROVE  InProgressAttended'
BY AtWork DEF SettlementInv, SettlementTypeOK, InProgressAttended, SetSettled

\* What comes after the write is about the same load.
LEMMA GoOnFits ==
  ASSUME SettlementInv, NEW s \in Settlers, duty[s].op # "none",
         NEW op \in {"podVerified", "podSettled", "paid"}
  PROVE  DutyFits([duty[s] EXCEPT !.op = op])
BY AtWork DEF DutyFits, DutyRow, DutyOps

-----------------------------------------------------------------------------
\* The carrier's steps concern no handler.
LEMMA DeliveryKeeps ==
  ASSUME SettlementInv, NEW l \in Deliveries, Arrive(l) \/ SubmitPod(l)
  PROVE  SettlementInv'
BY DEF SettlementInv, SettlementTypeOK, DutyHasLoad, InProgressAttended, Arrive, SubmitPod

\* A handler that begins has only read.
LEMMA EngageKeeps ==
  ASSUME SettlementInv, NEW s \in Settlers, NEW l \in Deliveries,
         NEW op \in DutyOps, Engage(s, op, l)
  PROVE  SettlementInv'
<1> DEFINE r == [op |-> op, on |-> l, answer |-> "none"]
<1>1. DutyFits(r) /\ duty' = [duty EXCEPT ![s] = r] /\ duty[s].op # "settle"
  BY DEF DutyFits, DutyRow, Answers, Engage, OffDuty
<1> HIDE DEF r
<1>2. RowsOK' /\ UNCHANGED <<settled, abandoned>>
  BY DEF Engage, settlementRows, RowsOK, SettlementInv, SettlementTypeOK
<1> QED
  BY <1>1, <1>2, TypesKept, OthersAttend DEF SettlementInv

\* Every handler begins with Engage.
LEMMA BeginKeeps ==
  ASSUME SettlementInv, NEW s \in Settlers, NEW l \in Deliveries, BeginDuty(s, l)
  PROVE  SettlementInv'
<1>1. \E op \in DutyOps : Engage(s, op, l)
  BY DEF BeginDuty, BeginCompletion, BeginVerifyPod, BeginSettle, BeginApproveSettlement,
         BeginAutoSettle, BeginAutoComplete, BeginAutoVerify, DutyOps
<1> QED
  BY <1>1, EngageKeeps

\* deductServiceFee leaves the settlement, and whoever waits for it, alone.
LEMMA DeductKeeps ==
  ASSUME SettlementInv, NEW s \in Settlers, Deduct(s)
  PROVE  SettlementInv'
<1>1. duty[s].op # "none"
  BY DEF Deduct, Completions
<1>2. PICK a \in Answers : duty' = [duty EXCEPT ![s].answer = a]
  BY DEF Deduct, Answers
<1> DEFINE r == [duty[s] EXCEPT !.answer = a]
<1>3. /\ DutyFits(r)
      /\ r.op = duty[s].op /\ r.on = duty[s].on
      /\ duty' = [duty EXCEPT ![s] = r]
  BY <1>1, <1>2, AtWork DEF DutyFits, DutyRow
<1> HIDE DEF r
<1>4. feeOf' \in [Deliveries -> [Payers -> FeeStates]]
  <2> DEFINE l == duty[s].on
  <2>1. l \in Deliveries
    BY <1>1, AtWork
  <2>2. \/ UNCHANGED feeOf
        \/ \E f \in [Payers -> FeeStates] : feeOf' = [feeOf EXCEPT ![l] = f]
    BY DEF Deduct, FeeStates
  <2> QED
    BY <2>1, <2>2 DEF SettlementInv, SettlementTypeOK
<1>5. RowsOK' /\ UNCHANGED <<settled, abandoned>>
  BY <1>4 DEF Deduct, RowsOK, SettlementInv, SettlementTypeOK
<1>6. InProgressAttended'
  BY <1>3, <1>5 DEF SettlementInv, SettlementTypeOK, InProgressAttended
<1> QED
  BY <1>3, <1>5, <1>6, TypesKept DEF SettlementInv

\* A handler, other than the settle handler, that writes and goes on or goes.
LEMMA CommitKeeps ==
  ASSUME SettlementInv, NEW s \in Settlers,
         \/ CommitCompletion(s) \/ CommitDesk(s) \/ CommitAutoComplete(s)
         \/ MarkVerified(s) \/ SettleVerified(s) \/ CompleteVerified(s)
  PROVE  SettlementInv'
<1> DEFINE l == duty[s].on
<1>1. duty[s].op \notin {"none", "settle"}
  BY DEF CommitCompletion, MayComplete, MarkVerified, SettleVerified, CompleteVerified,
         CommitDesk, CommitAutoComplete, Answered, Completions
<1>2. l \in Deliveries
  BY <1>1, AtWork
<1>3. \/ UNCHANGED settled
      \/ \E status \in {"PAID", "DISPUTE"} : settled' = [settled EXCEPT ![l] = status]
  BY DEF CommitCompletion, MarkVerified, SettleVerified, CompleteVerified, CommitDesk,
         CommitAutoComplete, SetSettled
<1>4. /\ stage' \in {stage, [stage EXCEPT ![l] = "COMPLETED"]}
      /\ submitted' \in {submitted, submitted \cup {l}}
      /\ verified' \in {verified, verified \cup {l}}
      /\ UNCHANGED <<feeOf, abandoned>>
  BY DEF CommitCompletion, MarkVerified, SettleVerified, CompleteVerified, CommitDesk,
         CommitAutoComplete
<1>5. \E r : DutyFits(r) /\ duty' = [duty EXCEPT ![s] = r]
  BY <1>1, GoOnFits, OffDutyFits
     DEF CommitCompletion, MarkVerified, SettleVerified, CompleteVerified, CommitDesk,
         CommitAutoComplete, Leave, GoOn
<1> HIDE DEF l
<1>6. RowsOK'
  BY <1>2, <1>3, <1>4 DEF RowsOK, SettlementInv, SettlementTypeOK, SettlementStatuses
<1>7. \A k \in Deliveries : settled'[k] = "IN_PROGRESS" => settled[k] = "IN_PROGRESS"
  BY <1>3 DEF SettlementInv, SettlementTypeOK
<1> QED
  BY <1>1, <1>4, <1>5, <1>6, <1>7, TypesKept, OthersAttend DEF SettlementInv

\* The lock is taken by somebody who is then at work on it.
LEMMA LockKeeps ==
  ASSUME SettlementInv, NEW s \in Settlers, LockSettlement(s)
  PROVE  SettlementInv'
<1> DEFINE r == [duty[s] EXCEPT !.op = "settle"]
           l == duty[s].on
<1>1. l \in Deliveries
  BY AtWork DEF LockSettlement
<1>2. DutyFits(r) /\ r.op = "settle" /\ r.on = l
  BY AtWork DEF LockSettlement, DutyFits, DutyRow, DutyOps
<1>3. /\ duty' = [duty EXCEPT ![s] = r]
      /\ settled' = [settled EXCEPT ![l] = "IN_PROGRESS"]
      /\ duty[s].op = "lock"
      /\ UNCHANGED <<stage, submitted, verified, feeOf, abandoned>>
  BY DEF LockSettlement, SetSettled, GoOn
<1> HIDE DEF r, l
<1>4. RowsOK'
  BY <1>1, <1>3 DEF RowsOK, SettlementInv, SettlementTypeOK, SettlementStatuses
<1>5. InProgressAttended'
  BY <1>1, <1>2, <1>3 DEF SettlementInv, SettlementTypeOK, InProgressAttended
<1> QED
  BY <1>2, <1>3, <1>4, <1>5, TypesKept DEF SettlementInv

\* The settle handler gives an end to what it began, also in its catch block.
LEMMA SettleKeeps ==
  ASSUME SettlementInv, NEW s \in Settlers, CommitSettle(s) \/ ResetSettle(s)
  PROVE  SettlementInv'
<1>1. PICK status \in {"PAID", "FAILED", "PENDING"} : SetSettled(duty[s].on, status)
  BY DEF CommitSettle, ResetSettle
<1>2. /\ duty[s].op \in {"settle", "paid"}
      /\ UNCHANGED <<stage, submitted, verified, feeOf, abandoned>>
  BY DEF CommitSettle, ResetSettle, Answered
<1>3. PICK r : DutyFits(r) /\ duty' = [duty EXCEPT ![s] = r]
  BY <1>2, GoOnFits, OffDutyFits DEF CommitSettle, ResetSettle, Leave, GoOn
<1>4. RowsOK'
  BY <1>1, <1>2, AtWork
     DEF RowsOK, SettlementInv, SettlementTypeOK, SettlementStatuses, SetSettled
<1>5. InProgressAttended'
  <2>1. CASE duty[s].op = "settle"
    BY <2>1, <1>1, <1>2, <1>3, SettlerAttends
  <2>2. CASE duty[s].op = "paid"
    <3>1. \A l \in Deliveries : settled'[l] = "IN_PROGRESS" => settled[l] = "IN_PROGRESS"
      BY <1>1 DEF SetSettled, SettlementInv, SettlementTypeOK
    <3> QED
      BY <2>2, <3>1, <1>2, <1>3, OthersAttend
  <2> QED
    BY <1>2, <2>1, <2>2
<1> QED
  BY <1>3, <1>4, <1>5, TypesKept DEF SettlementInv

\* A settle handler that dies abandons its load.
LEMMA LeavesKeeps ==
  ASSUME SettlementInv, NEW s \in Settlers, SettlerLeaves(s)
  PROVE  SettlementInv'
<1>1. duty' = [duty EXCEPT ![s] = OffDuty]
  BY DEF SettlerLeaves, Leave
<1>2. RowsOK'
  BY AtWork DEF SettlerLeaves, RowsOK, SettlementInv, SettlementTypeOK
<1>3. InProgressAttended'
  <2>1. CASE duty[s].op = "settle"
    BY <2>1, <1>1, AtWork
       DEF SettlerLeaves, SettlementInv, SettlementTypeOK, InProgressAttended
  <2>2. CASE duty[s].op # "settle"
    BY <2>2, <1>1, OthersAttend DEF SettlerLeaves
  <2> QED
    BY <2>1, <2>2
<1> QED
  BY <1>1, <1>2, <1>3, OffDutyFits, TypesKept DEF SettlementInv

-----------------------------------------------------------------------------
\* Nothing is settled at first.
LEMMA SettlementInitInv == SettlementInit => SettlementInv
BY DEF SettlementInit, SettlementInv, SettlementTypeOK, DutyHasLoad, InProgressAttended,
       OffDuty, DutyRow, DutyOps, Completions, Answers, FeeStates, SettlementStatuses

\* Every step of every handler keeps SettlementInv.
LEMMA SettlementStepInv == SettlementInv /\ [SettlementNext]_settlementVars => SettlementInv'
<1> SUFFICES ASSUME SettlementInv, [SettlementNext]_settlementVars PROVE SettlementInv'
  OBVIOUS
<1>1. ASSUME NEW l \in Deliveries, Arrive(l) \/ SubmitPod(l) PROVE SettlementInv'
  BY <1>1, DeliveryKeeps
<1>2. ASSUME NEW l \in Deliveries, NEW s \in Settlers, BeginDuty(s, l) PROVE SettlementInv'
  BY <1>2, BeginKeeps
<1>3. ASSUME NEW s \in Settlers, SettlerStep(s) PROVE SettlementInv'
  BY <1>3, DeductKeeps, CommitKeeps, LockKeeps, SettleKeeps, LeavesKeeps DEF SettlerStep
<1>4. CASE UNCHANGED settlementVars
  BY <1>4 DEF settlementVars, SettlementInv, SettlementTypeOK, DutyHasLoad, InProgressAttended
<1> QED
  BY <1>1, <1>2, <1>3, <1>4 DEF SettlementNext

\* SettlementInv is an invariant of the handlers that settle loads.
THEOREM SettlementInvariant == SettlementSpec => []SettlementInv
BY SettlementInitInv, SettlementStepInv, PTL DEF SettlementSpec

\* Rows and duties always hold values of their columns' types.
THEOREM SettlementTypes == SettlementSpec => []SettlementTypeOK
BY SettlementInvariant, PTL DEF SettlementInv

\* No answer of deductServiceFee and no exception in POST loads/[id]/settle leaves
\* a settlement IN_PROGRESS behind, whatever other handlers do meanwhile.
THEOREM SettlementAttended == SettlementSpec => []InProgressAttended
BY SettlementInvariant, PTL DEF SettlementInv

-----------------------------------------------------------------------------
(* One handler at a time *)

OneSettler == \A r, s \in Settlers : r = s

\* What a handler with duty r knows of the rows: the settlement it is about to
\* write was not PAID, and the fee it has collected or found waived is so still.
StillHolds(r) ==
  /\ r.op \in {"lock", "settle", "approve", "autoSettle"} => settled[r.on] # "PAID"
  /\ r.op = "approve" => Backed(r.on)
  /\ r.answer \in {"collected", "zero"} => Backed(r.on)

SettlersKnow == \A s \in Settlers : StillHolds(duty[s])

\* A handler without a duty knows nothing.
LEMMA OffDutyHolds == StillHolds(OffDuty)
BY DEF StillHolds, OffDuty

\* The only handler goes.
LEMMA GoneKnows ==
  ASSUME OneSettler, SettlementInv, NEW s \in Settlers, Leave(s)
  PROVE  SettlersKnow'
<1>1. duty'[s] = OffDuty
  BY DEF Leave, SettlementInv, SettlementTypeOK
<1> QED
  BY <1>1 DEF OneSettler, SettlersKnow, StillHolds, OffDuty

\* The carrier's steps concern neither fees nor settlements.
LEMMA DeliveryKnows ==
  ASSUME SettlersKnow, NEW l \in Deliveries, Arrive(l) \/ SubmitPod(l)
  PROVE  SettlersKnow'
BY DEF SettlersKnow, StillHolds, Backed, Arrive, SubmitPod

\* A handler that begins knows what it has read.
LEMMA BeginKnows ==
  ASSUME OneSettler, SettlementInv, NEW s \in Settlers, NEW l \in Deliveries, BeginDuty(s, l)
  PROVE  SettlersKnow'
<1>1. PICK op \in DutyOps :
        /\ Engage(s, op, l)
        /\ op # "settle"
        /\ op \in {"lock", "approve", "autoSettle"} => settled[l] # "PAID"
        /\ op = "approve" => ~Uncollected(l)
  BY DEF BeginDuty, BeginCompletion, BeginVerifyPod, BeginSettle, BeginApproveSettlement,
         BeginAutoSettle, BeginAutoComplete, BeginAutoVerify, DutyOps, Completions
<1>2. duty'[s] = [op |-> op, on |-> l, answer |-> "none"]
  BY <1>1 DEF Engage, SettlementInv, SettlementTypeOK
<1>3. UNCHANGED <<feeOf, settled>>
  BY <1>1 DEF Engage, settlementRows
<1>4. StillHolds(duty[s])'
  BY <1>1, <1>2, <1>3 DEF StillHolds, Backed, Uncollected, Payers
<1> QED
  BY <1>4 DEF OneSettler, SettlersKnow

\* deductServiceFee answers what it has written.
LEMMA DeductKnows ==
  ASSUME OneSettler, SettlementInv, SettlersKnow, NEW s \in Settlers, Deduct(s)
  PROVE  SettlersKnow'
<1>. PICK l : l = duty[s].on
  OBVIOUS
<1>1. duty[s].op \notin {"none", "lock", "approve", "autoSettle"} /\ l \in Deliveries
  BY AtWork DEF Deduct, Completions
<1>2. PICK a : duty' = [duty EXCEPT ![s].answer = a]
  BY DEF Deduct
<1>3. duty'[s].op = duty[s].op /\ duty'[s].on = l /\ duty'[s].answer = a
  BY <1>1, <1>2, AtWork DEF SettlementInv, SettlementTypeOK, DutyRow
<1>4. a \in {"collected", "zero"} =>
        \/ feeOf' = [feeOf EXCEPT ![l] = [p \in Payers |-> "WAIVED"]]
        \/ \E paid \in (SUBSET Payers) \ {{}} :
             feeOf' = [feeOf EXCEPT ![l] = [p \in Payers |-> IF p \in paid THEN "DEDUCTED"
                                                                           ELSE "PENDING"]]
  <2>1. \A b : duty' = [duty EXCEPT ![s].answer = b] => b = a
    BY <1>1, <1>2, <1>3, AtWork DEF SettlementInv, SettlementTypeOK, DutyRow
  <2>2. CASE \E b \in {"already", "failed"} : duty' = [duty EXCEPT ![s].answer = b]
    BY <2>1, <2>2
  <2>3. CASE feeOf' = [feeOf EXCEPT ![l] = [p \in Payers |-> "WAIVED"]]
    BY <2>3
  <2>4. ASSUME NEW paying \in SUBSET Payers, NEW free \in SUBSET Payers,
               duty' = [duty EXCEPT ![s].answer = CASE paying # {} -> "collected"
                                                    [] free = Payers -> "zero"
                                                    [] OTHER -> "nothing"],
               a \in {"collected", "zero"}
        PROVE  paying \cup free # {}
    <3>1. a = CASE paying # {} -> "collected" [] free = Payers -> "zero" [] OTHER -> "nothing"
      BY <2>1, <2>4
    <3> QED
      BY <3>1, <2>4 DEF Payers
  <2>5. CASE \E paying, free \in SUBSET Payers :
               /\ duty' = [duty EXCEPT ![s].answer = CASE paying # {} -> "collected"
                                                       [] free = Payers -> "zero"
                                                       [] OTHER -> "nothing"]
               /\ feeOf' = [feeOf EXCEPT ![l] = [p \in Payers |->
                               IF p \in paying \cup free THEN "DEDUCTED" ELSE "PENDING"]]
    BY <2>4, <2>5
  <2> QED
    BY <2>2, <2>3, <2>5 DEF Deduct
<1>5. a \in {"collected", "zero"} => Backed(l)'
  <2> SUFFICES ASSUME a \in {"collected", "zero"} PROVE Backed(l)'
    OBVIOUS
  <2>1. CASE feeOf' = [feeOf EXCEPT ![l] = [p \in Payers |-> "WAIVED"]]
    BY <1>1, <2>1 DEF Backed, Payers, SettlementInv, SettlementTypeOK
  <2>2. CASE \E paid \in (SUBSET Payers) \ {{}} :
               feeOf' = [feeOf EXCEPT ![l] = [p \in Payers |-> IF p \in paid THEN "DEDUCTED"
                                                                             ELSE "PENDING"]]
    <3>1. PICK paid \in (SUBSET Payers) \ {{}} :
               feeOf' = [feeOf EXCEPT ![l] = [p \in Payers |-> IF p \in paid THEN "DEDUCTED"
                                                                             ELSE "PENDING"]]
      BY <2>2
    <3>2. PICK p \in Payers : p \in paid
      BY <3>1
    <3>3. feeOf'[l][p] = "DEDUCTED"
      BY <1>1, <3>1, <3>2 DEF SettlementInv, SettlementTypeOK
    <3> QED
      BY <3>3 DEF Backed
  <2> QED
    BY <1>4, <2>1, <2>2
<1>6. settled' = settled
  BY DEF Deduct
<1>7. StillHolds(duty[s])'
  BY <1>1, <1>3, <1>5, <1>6 DEF SettlersKnow, StillHolds
<1> QED
  BY <1>7 DEF OneSettler, SettlersKnow

\* The lock has no answer yet.
LEMMA LockKnows ==
  ASSUME OneSettler, SettlementInv, SettlersKnow, NEW s \in Settlers, LockSettlement(s)
  PROVE  SettlersKnow'
<1>. PICK l : l = duty[s].on
  OBVIOUS
<1>1. l \in Deliveries /\ duty[s].op = "lock"
  BY AtWork DEF LockSettlement
<1>2. /\ duty'[s].op = "settle" /\ duty'[s].on = l /\ duty'[s].answer = duty[s].answer
      /\ settled'[l] = "IN_PROGRESS"
      /\ feeOf' = feeOf
  BY <1>1, AtWork
     DEF LockSettlement, SetSettled, GoOn, SettlementInv, SettlementTypeOK, DutyRow
<1>3. StillHolds(duty[s])'
  BY <1>2 DEF SettlersKnow, StillHolds, Backed
<1> QED
  BY <1>3 DEF OneSettler, SettlersKnow

\* A handler that goes on after a write knows as much as before.
LEMMA GoOnKnows ==
  ASSUME OneSettler, SettlementInv, SettlersKnow, NEW s \in Settlers,
         NEW op \in {"podVerified", "podSettled", "paid"},
         duty[s].op # "none", GoOn(s, op), UNCHANGED feeOf
  PROVE  SettlersKnow'
<1>1. /\ duty'[s].op = op /\ duty'[s].on = duty[s].on
      /\ duty'[s].answer = duty[s].answer
  BY AtWork DEF GoOn, SettlementInv, SettlementTypeOK, DutyRow
<1>2. StillHolds(duty[s])'
  BY <1>1 DEF SettlersKnow, StillHolds, Backed
<1> QED
  BY <1>2 DEF OneSettler, SettlersKnow

\* SettlersKnow is an invariant when one handler runs at a time.
LEMMA SettlersKnowInvariant == OneSettler => (SettlementSpec => []SettlersKnow)
<1> SUFFICES ASSUME OneSettler PROVE SettlementSpec => []SettlersKnow
  OBVIOUS
<1>1. SettlementInit => SettlersKnow
  BY DEF SettlementInit, SettlersKnow, StillHolds, OffDuty
<1>2. ASSUME SettlementInv, SettlersKnow, [SettlementNext]_settlementVars PROVE SettlersKnow'
  <2>1. ASSUME NEW s \in Settlers, SettlerStep(s) PROVE SettlersKnow'
    <3>1. CASE Deduct(s) \/ LockSettlement(s)
      BY <1>2, <3>1, DeductKnows, LockKnows
    <3>2. CASE Leave(s)
      BY <1>2, <3>2, GoneKnows
    <3>3. CASE MarkVerified(s) \/ SettleVerified(s) \/ (CommitSettle(s) /\ ~Leave(s))
      <4>1. duty[s].op # "none" /\ UNCHANGED feeOf
        BY <3>3 DEF MarkVerified, SettleVerified, CommitSettle, Answered
      <4>2. \E op \in {"podVerified", "podSettled", "paid"} : GoOn(s, op)
        BY <3>3 DEF MarkVerified, SettleVerified, CommitSettle
      <4> QED
        BY <1>2, <4>1, <4>2, GoOnKnows
    <3> QED
      BY <2>1, <3>1, <3>2, <3>3
         DEF SettlerStep, CommitCompletion, CompleteVerified, ResetSettle, CommitDesk,
             CommitAutoComplete, SettlerLeaves
  <2>2. CASE UNCHANGED settlementVars
    BY <1>2, <2>2 DEF settlementVars, SettlersKnow, StillHolds, Backed
  <2> QED
    BY <1>2, <2>1, <2>2, DeliveryKnows, BeginKnows DEF SettlementNext
<1> QED
  BY <1>1, <1>2, SettlementInvariant, PTL DEF SettlementSpec

\* Which steps write the settlement of a load, and what they know then.
LEMMA WhoSettles ==
  ASSUME SettlementInv, SettlersKnow, [SettlementNext]_settlementVars, NEW l \in Deliveries,
         settled'[l] # settled[l]
  PROVE  \E s \in Settlers :
           /\ duty[s].on = l
           /\ \/ settled'[l] = "PAID"
              \/ settled[l] # "PAID"
              \/ settled'[l] = "PENDING" /\ duty[s].op = "paid"
           /\ settled'[l] = "PAID" => Backed(l) \/ duty[s].op \in {"monitor", "settle", "autoSettle"}
<1>1. settled' # settled
  OBVIOUS
<1>2. PICK s \in Settlers : SettlerStep(s)
  <2>1. ASSUME NEW k \in Deliveries, Arrive(k) \/ SubmitPod(k) \/ \E r \in Settlers : BeginDuty(r, k)
        PROVE  settled' = settled
    BY <2>1 DEF Arrive, SubmitPod, BeginDuty, BeginCompletion, BeginVerifyPod, BeginSettle,
                BeginApproveSettlement, BeginAutoSettle, BeginAutoComplete, BeginAutoVerify,
                Engage, settlementRows
  <2> QED
    BY <1>1, <2>1 DEF SettlementNext, settlementVars
<1>3. StillHolds(duty[s]) /\ settled \in [Deliveries -> SettlementStatuses]
  BY DEF SettlersKnow, SettlementInv, SettlementTypeOK
<1>4. CASE CommitCompletion(s)
  BY <1>1, <1>3, <1>4
     DEF CommitCompletion, PaysFor, SetSettled, Answered, StillHolds
<1>5. CASE MarkVerified(s) \/ SettleVerified(s) \/ CompleteVerified(s)
  BY <1>1, <1>3, <1>5
     DEF MarkVerified, SettleVerified, CompleteVerified, SetSettled, StillHolds
<1>6. CASE LockSettlement(s) \/ CommitSettle(s) \/ ResetSettle(s)
  BY <1>1, <1>3, <1>6
     DEF LockSettlement, CommitSettle, ResetSettle, SetSettled, Answered, StillHolds
<1>7. CASE CommitDesk(s)
  BY <1>1, <1>3, <1>7 DEF CommitDesk, SetSettled, StillHolds
<1>8. CASE Deduct(s) \/ CommitAutoComplete(s) \/ SettlerLeaves(s)
  BY <1>1, <1>8 DEF Deduct, CommitAutoComplete, SettlerLeaves
<1> QED
  BY <1>2, <1>4, <1>5, <1>6, <1>7, <1>8 DEF SettlerStep

\* When one handler runs at a time, none of those that write the settlement takes
\* PAID back, save the catch block of loads/[id]/settle after it has written PAID.
THEOREM SettlementPaidUndone == OneSettler => (SettlementSpec => PaidUndoneBySettle)
<1> SUFFICES ASSUME OneSettler PROVE SettlementSpec => PaidUndoneBySettle
  OBVIOUS
<1>1. ASSUME SettlementInv, SettlersKnow, [SettlementNext]_settlementVars
      PROVE  [\A l \in Deliveries : settled[l] = "PAID" /\ settled'[l] # "PAID"
                => /\ settled'[l] = "PENDING"
                   /\ \E s \in Settlers : duty[s].on = l /\ duty[s].op = "paid"]_settlementVars
  BY <1>1, WhoSettles
<1>2. SettlementSpec => [](SettlementInv /\ SettlersKnow)
  BY SettlementInvariant, SettlersKnowInvariant, PTL
<1> QED
  BY <1>1, <1>2, PTL DEF SettlementSpec, PaidUndoneBySettle

\* When one handler runs at a time, a load that turns PAID has a fee that was
\* collected or waived, unless the monitor, loads/[id]/settle or the automation
\* pays it.
THEOREM SettlementPaidIsBacked == OneSettler => (SettlementSpec => PaidIsBacked)
<1> SUFFICES ASSUME OneSettler PROVE SettlementSpec => PaidIsBacked
  OBVIOUS
<1>1. ASSUME SettlementInv, SettlersKnow, [SettlementNext]_settlementVars
      PROVE  [\A l \in Deliveries :
                settled[l] # "PAID" /\ settled'[l] = "PAID"
                  => \/ Backed(l)
                     \/ \E s \in Settlers :
                          /\ duty[s].on = l
                          /\ duty[s].op \in {"monitor", "settle", "autoSettle"}]_settlementVars
  <2>1. ASSUME NEW l \in Deliveries, settled[l] # "PAID", settled'[l] = "PAID"
        PROVE  \/ Backed(l)
               \/ \E s \in Settlers : /\ duty[s].on = l
                                      /\ duty[s].op \in {"monitor", "settle", "autoSettle"}
    BY <1>1, <2>1, WhoSettles
  <2> QED
    BY <2>1
<1>2. SettlementSpec => [](SettlementInv /\ SettlersKnow)
  BY SettlementInvariant, SettlersKnowInvariant, PTL
<1> QED
  BY <1>1, <1>2, PTL DEF SettlementSpec, PaidIsBacked

-----------------------------------------------------------------------------
(* The combination *)

\* A step of the combination is one of each component, or leaves it alone.
LEMMA BackOfficeStep ==
  [BackOfficeNext]_backOfficeVars => /\ [DriverNext]_driverVars
                                     /\ [SettlementNext]_settlementVars
                                     /\ [Next]_vars
BY DEF BackOfficeNext, backOfficeVars

\* What is proved of a component holds of it in the combination.
THEOREM BackOfficeImplies == BackOfficeSpec => DriverSpec /\ SettlementSpec /\ Spec
<1>1. BackOfficeInit => DriverInit /\ SettlementInit /\ Init
  BY DEF BackOfficeInit
<1> QED
  BY <1>1, BackOfficeStep, PTL DEF BackOfficeSpec, DriverSpec, SettlementSpec, Spec

\* The variables of the three components always hold values of their types.
THEOREM BackOfficeTypes == BackOfficeSpec => []BackOfficeTypeOK
<1>1. DriverTypeOK /\ SettlementTypeOK /\ TypeOK => BackOfficeTypeOK
  BY DEF BackOfficeTypeOK
<1> QED
  BY <1>1, BackOfficeImplies, DriverTypes, SettlementTypes, WalletTypes, PTL
=============================================================================
