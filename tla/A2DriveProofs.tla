----------------------------- MODULE A2DriveProofs -----------------------------
(***************************************************************************)
(* That the loop of Track A-2 changes orders, lots and halts only as the    *)
(* order manager allows, so that all A2OmsProofs shows holds of the loop,   *)
(* and what the loop itself promises, for every number of orders, quantity, *)
(* stop level, cancel limit and crashes.  And that the outbox tells of each *)
(* fill once: the fold over the rows of a poll is taken row by row, and     *)
(* what the chat may have seen was tried, so no row is merged into it.      *)
(***************************************************************************)
EXTENDS A2Drive, NoticeRelay, Sums, TLAPS

Manager == INSTANCE A2OmsProofs

\* The loop's constants are ones of the order manager.
LEMMA Assumptions == Manager!OmsAssumption
  BY DriveAssumption DEF DriveAssumption, Manager!OmsAssumption

\* Oms and Manager are two instances of the same module.
LEMMA SameInit == Oms!Init <=> Manager!Init
  BY DEF Oms!Init, Manager!Init, Oms!NoOrder, Manager!NoOrder, Oms!NoRow, Manager!NoRow,
     Oms!Idle, Manager!Idle

\* The loop and the order manager mean the same by their operators.
LEMMA SameTerms ==
    /\ Oms!NoOrder = Manager!NoOrder /\ Oms!NoRow = Manager!NoRow /\ Oms!Idle = Manager!Idle
    /\ Oms!Working = Manager!Working /\ Oms!SellRoles = Manager!SellRoles /\ Oms!Roles = Manager!Roles
    /\ \A c : Oms!Side(c) = Manager!Side(c) /\ Oms!Status(c) = Manager!Status(c)
    /\ \A c : Oms!NewFill(c) = Manager!NewFill(c) /\ Oms!Accepts(c) = Manager!Accepts(c)
    /\ \A c : (Oms!IsActive(c) <=> Manager!IsActive(c)) /\ (Oms!Known(c) <=> Manager!Known(c))
  BY DEF Oms!NoOrder, Manager!NoOrder, Oms!NoRow, Manager!NoRow, Oms!Idle, Manager!Idle,
     Oms!Working, Manager!Working, Oms!SellRoles, Manager!SellRoles, Oms!Roles, Manager!Roles,
     Oms!Side, Manager!Side, Oms!SideOf, Manager!SideOf, Oms!Status, Manager!Status,
     Oms!NewFill, Manager!NewFill, Oms!Accepts, Manager!Accepts, Oms!IsActive, Manager!IsActive,
     Oms!Known, Manager!Known

\* The order manager's next-state relation, as the loop uses it.
LEMMA SameNext == Oms!Next <=> Manager!Next
<1>1. \A c \in Ids : Oms!Venue(c) <=> Manager!Venue(c)
  BY DEF Oms!Venue, Manager!Venue, Oms!Arrive, Manager!Arrive, Oms!Lose, Manager!Lose,
     Oms!Trigger, Manager!Trigger, Oms!Execute, Manager!Execute, Oms!Close, Manager!Close,
     Oms!Accepts, Manager!Accepts, Oms!Side, Manager!Side, Oms!SideOf, Manager!SideOf,
     Oms!SellRoles, Manager!SellRoles
<1>2. ASSUME NEW c \in Ids PROVE Oms!Manager(c) <=> Manager!Manager(c)
  <2>1. (\E role \in Oms!Roles, q \in 1..MaxQty : Oms!SubmitIntent(c, role, q))
        <=> (\E role \in Manager!Roles, q \in 1..MaxQty : Manager!SubmitIntent(c, role, q))
    BY Zenon DEF Oms!SubmitIntent, Manager!SubmitIntent, Oms!Roles, Manager!Roles, Oms!SellRoles,
       Manager!SellRoles, Oms!SlotFree, Manager!SlotFree, Oms!IsActive, Manager!IsActive,
       Oms!Working, Manager!Working, Oms!Side, Manager!Side, Oms!SideOf, Manager!SideOf,
       Oms!Idle, Manager!Idle, Oms!NoOrder, Manager!NoOrder
  <2>2. /\ Oms!Expire(c) <=> Manager!Expire(c)
        /\ Oms!Transmit(c) <=> Manager!Transmit(c)
        /\ Oms!AnswerOk(c) <=> Manager!AnswerOk(c)
        /\ Oms!AnswerRefused(c) <=> Manager!AnswerRefused(c)
        /\ Oms!AnswerLost(c) <=> Manager!AnswerLost(c)
    BY Zenon DEF Oms!Expire, Manager!Expire, Oms!Transmit, Manager!Transmit, Oms!AnswerOk, Manager!AnswerOk,
       Oms!AnswerRefused, Manager!AnswerRefused, Oms!AnswerLost, Manager!AnswerLost,
       Oms!Idle, Manager!Idle, Oms!Known, Manager!Known
  <2>3. Oms!Apply(c) <=> Manager!Apply(c)
    BY Zenon DEF Oms!Apply, Manager!Apply, Oms!Status, Manager!Status, Oms!NewFill, Manager!NewFill
  <2>4. /\ Oms!Reconcile(c) <=> Manager!Reconcile(c)
        /\ Oms!ReconcileOverdue(c) <=> Manager!ReconcileOverdue(c)
        /\ Oms!Archive(c) <=> Manager!Archive(c)
        /\ Oms!CancelStart(c) <=> Manager!CancelStart(c)
        /\ Oms!CancelEnd(c) <=> Manager!CancelEnd(c)
    BY <2>3, Zenon DEF Oms!Reconcile, Manager!Reconcile, Oms!ReconcileOverdue, Manager!ReconcileOverdue,
       Oms!Archive, Manager!Archive, Oms!CancelStart, Manager!CancelStart, Oms!CancelEnd,
       Manager!CancelEnd, Oms!IsActive, Manager!IsActive, Oms!Working, Manager!Working,
       Oms!Known, Manager!Known, Oms!Idle, Manager!Idle, Oms!NoOrder, Manager!NoOrder,
       Oms!NoRow, Manager!NoRow
  <2> QED BY <2>1, <2>2, <2>4, Zenon DEF Oms!Manager, Manager!Manager
<1>3. /\ Oms!FinishFlat <=> Manager!FinishFlat
      /\ Oms!Halt <=> Manager!Halt
      /\ Oms!Crash <=> Manager!Crash
  BY Zenon DEF Oms!FinishFlat, Manager!FinishFlat, Oms!Halt, Manager!Halt, Oms!Crash, Manager!Crash,
     Oms!Idle, Manager!Idle, Oms!IsActive, Manager!IsActive, Oms!Working, Manager!Working
<1> QED BY <1>1, <1>2, <1>3, Zenon DEF Oms!Next, Manager!Next

----------------------------------------------------------------------------
(* Every step of the loop is a step of the order manager, or none.          *)

\* What drive() ends with: nothing, a halt, or one order within the bounds.
LEMMA SubmitsWithin ==
    ASSUME NEW role \in Oms!Roles, NEW q \in 1..MaxQty, Submits(role, q)
    PROVE  Oms!Next
  BY DEF Submits, Oms!Next, Oms!Manager

\* What a turn of the loop does to the orders is a step of the order manager.
LEMMA DriveEnds ==
    ASSUME Manager!Structure, Manager!HeldIsBounded, Drive
    PROVE  Oms!Next \/ UNCHANGED omsVars
<1>1. /\ held \in Nat /\ MaxQty \in Nat /\ (held > 0 => held \in 1..MaxQty)
      /\ 1..held \subseteq 1..MaxQty
  BY DriveAssumption DEF DriveAssumption, Manager!Structure, Manager!Shapes, Manager!HeldIsBounded
<1>2. {"buy", "protect", "trim", "exit"} = Oms!Roles
  BY DEF Oms!Roles, Oms!SellRoles
<1>3. \A S : Cancels(S) => UNCHANGED omsVars
  BY DEF Cancels
<1>4. Waits => UNCHANGED omsVars
  BY <1>3 DEF Waits
<1>5. ASSUME NEW bid \in Bids, NEW s, NEW reason, Decide(s, reason, bid)
      PROVE  Oms!Next \/ UNCHANGED omsVars
  <2>1. CASE held > 0 /\ Leave(bid)
    BY <1>1, <1>2, <1>3, <1>4, <2>1, SubmitsWithin DEF Leave, Oms!Next
  <2>2. CASE Trim(s, bid)
    BY <1>1, <1>2, <1>3, <1>4, <2>2, SubmitsWithin DEF Trim
  <2>3. CASE Protect(s)
    BY <1>1, <1>2, <1>3, <1>4, <2>3, SubmitsWithin DEF Protect
  <2>4. CASE AtRest(s, bid)
    BY <1>1, <1>2, <1>3, <1>4, <2>4, SubmitsWithin DEF AtRest
  <2> QED BY <1>3, <1>5, <2>1, <2>2, <2>3, <2>4 DEF Decide
<1> QED BY <1>3, <1>5 DEF Drive, Unwind

\* A step of the loop is one of the order manager or leaves it alone.
LEMMA LoopStep ==
    ASSUME Manager!Structure, Manager!HeldIsBounded, [Next]_vars
    PROVE  [Oms!Next]_(Oms!vars)
<1>1. CASE UNCHANGED omsVars
  BY <1>1 DEF omsVars, Oms!vars
<1>2. ASSUME NEW c \in Ids, Exchange(c) PROVE Oms!Next
  BY <1>2 DEF Exchange, Oms!Next, Oms!Venue
<1>3. ASSUME NEW c \in Ids, Runtime(c) PROVE Oms!Next
  <2>1. Oms!Manager(c)
    BY <1>3 DEF Runtime, Reconcile, Tend, Sending, Refused, Cancel, Canceled, Oms!Manager
  <2> QED BY <2>1 DEF Oms!Next
<1>4. CASE AccountHalts \/ EndTurn \/ Crash
  BY <1>1, <1>4 DEF AccountHalts, EndTurn, Crash, Oms!Next
<1>5. CASE Drive
  BY <1>1, <1>5, DriveEnds
<1>6. CASE AskStop \/ ApiError \/ CoolEnd \/ UNCHANGED vars
  <2>1. UNCHANGED omsVars
    BY <1>6 DEF AskStop, ApiError, CoolEnd, vars
  <2> QED BY <1>1, <2>1
<1> QED BY <1>2, <1>3, <1>4, <1>5, <1>6 DEF Next

----------------------------------------------------------------------------
(* What holds of the loop at all times. *)

OmsState == Manager!Structure /\ Manager!Balance /\ Manager!ReportedIsKnown /\ Manager!HeldIsBounded

\* Whoever has stopped was ready to, and does nothing any more.
AtStop == pc = "stopped" => call = Oms!Idle /\ todo = {} /\ ShutdownReady

LoopInv == OmsState /\ AtStop

\* The initial state.
LEMMA InitLoop == Init => LoopInv
<1> SUFFICES ASSUME Init PROVE LoopInv
  OBVIOUS
<1>1. OmsState
  BY Assumptions, SameInit, Manager!InitStructure, Manager!InitBalance, Manager!InitReports
     DEF Init, OmsState
<1>2. AtStop
  BY DEF Init, AtStop
<1> QED BY <1>1, <1>2 DEF LoopInv

\* Every step keeps what A2OmsProofs shows of the order manager.
LEMMA NextOms == OmsState /\ [Next]_vars => OmsState'
<1> SUFFICES ASSUME OmsState, [Next]_vars PROVE OmsState'
  OBVIOUS
<1>1. [Manager!Next]_(Manager!vars)
  BY LoopStep, SameNext DEF OmsState, Oms!vars, Manager!vars
<1> QED BY <1>1, Assumptions, Manager!NextStructure, Manager!NextBalance, Manager!NextReportedIsKnown,
        Manager!NextHeldIsBounded DEF OmsState

\* Being ready to stop is a matter of the orders, the lots and the plan.
LEMMA StillReady ==
    ASSUME ShutdownReady, UNCHANGED <<ord, held, placed, stop>>
    PROVE  ShutdownReady'
  BY DEF ShutdownReady, Protects, Working, Confirmed, Oms!IsActive, Oms!Working

\* Every step keeps what a stop leaves behind.
LEMMA NextAtStop == AtStop /\ [Next]_vars => AtStop'
<1> SUFFICES ASSUME AtStop, [Next]_vars, pc' = "stopped"
             PROVE  call' = Oms!Idle /\ todo' = {} /\ ShutdownReady'
  BY DEF AtStop, Oms!Idle
<1>q. ASSUME pc = "stopped", UNCHANGED <<call, todo, ord, held, placed, stop>>
      PROVE  call' = Oms!Idle /\ todo' = {} /\ ShutdownReady'
  BY <1>q, StillReady DEF AtStop
<1>1. CASE UNCHANGED vars \/ AskStop \/ CoolEnd
  BY <1>1, <1>q DEF vars, omsVars, bookVars, AskStop, CoolEnd
<1>2. ASSUME NEW c \in Ids, Exchange(c) PROVE call' = Oms!Idle /\ todo' = {} /\ ShutdownReady'
  <2>1. UNCHANGED <<call, ord, held>>
    BY <1>2 DEF Exchange, Oms!Arrive, Oms!Lose, Oms!Trigger, Oms!Execute, Oms!Close
  <2> QED BY <1>2, <2>1, <1>q DEF Exchange, bookVars
<1>3. ASSUME NEW c \in Ids, Runtime(c) PROVE FALSE
  <2>1. pc = "stopped" => call.at = "idle" /\ todo = {}
    BY DEF AtStop, Oms!Idle
  <2>2. pc' = pc
    BY <1>3 DEF Runtime, Reconcile, Tend, Sending, Refused, Cancel, Canceled
  <2>3. CASE Reconcile(c) \/ Tend(c) \/ Cancel(c)
    BY <2>1, <2>2, <2>3 DEF Reconcile, Tend, Cancel
  <2>4. CASE Sending(c) \/ Refused(c) \/ Canceled(c)
    BY <2>1, <2>2, <2>4 DEF Sending, Refused, Canceled, Oms!Expire, Oms!Transmit, Oms!AnswerOk,
       Oms!AnswerLost, Oms!AnswerRefused, Oms!CancelEnd
  <2> QED BY <1>3, <2>3, <2>4 DEF Runtime
<1>4. CASE AccountHalts \/ ApiError \/ Drive \/ Crash
  BY <1>4 DEF AccountHalts, ApiError, Drive, Crash
<1>5. CASE EndTurn
  <2>1. ShutdownReady /\ call = Oms!Idle /\ todo = {} /\ todo' = todo
    BY <1>5 DEF EndTurn
  <2>2. CASE Oms!FinishFlat
    <3>1. UNCHANGED <<ord, held, call>> /\ held = 0
      BY <2>2 DEF Oms!FinishFlat
    <3> QED BY <2>1, <3>1 DEF ShutdownReady, Oms!IsActive, Oms!Working
  <2>3. CASE UNCHANGED <<omsVars, bookVars>>
    BY <2>1, <2>3, StillReady DEF omsVars, bookVars
  <2> QED BY <1>5, <2>2, <2>3 DEF EndTurn
<1> QED BY <1>1, <1>2, <1>3, <1>4, <1>5 DEF Next

\* The invariant of the loop.
LEMMA LoopInvariant == Spec => []LoopInv
<1>1. LoopInv /\ [Next]_vars => LoopInv'
  BY NextOms, NextAtStop DEF LoopInv
<1> QED BY <1>1, InitLoop, PTL DEF Spec

\* Whatever the loop does, at whatever time its reads are taken, the orders,
\* lots and campaigns change only as the order manager lets them change.
OmsSpec == Oms!Spec

\* The loop is an order manager that a policy drives: orders, exchange, lots and
\* campaigns change only as the order manager lets them (drive and OMS).
THEOREM LoopImplementsOms == Spec => OmsSpec
<1>1. LoopInv /\ [Next]_vars => [Oms!Next]_(Oms!vars)
  BY LoopStep DEF LoopInv, OmsState
<1>2. Init => Oms!Init
  BY DEF Init
<1> QED BY <1>1, <1>2, LoopInvariant, PTL DEF Spec, Oms!Spec, OmsSpec

----------------------------------------------------------------------------
(* Stopping. *)

\* Whenever the runtime has stopped, the exchange has at most one protective
\* order, for exactly the coins that are there, at the stop decided last,
\* whatever is executed or closed afterwards.
THEOREM StopsProtected == Spec => []StoppedIsProtected
<1>1. LoopInv => StoppedIsProtected
  <2> SUFFICES ASSUME LoopInv, pc = "stopped"
               PROVE  /\ \A c \in Ids : Reaches(c) => ord[c].role = "protect"
                      /\ coins > 0 => \E c \in Ids : /\ ord[c].role = "protect" /\ Oms!Known(c)
                                                     /\ ord[c].asked = 0 /\ placed = stop
                                                     /\ ord[c].qty - ex[c].done = coins
    BY DEF StoppedIsProtected
  <2>1. \A c \in Ids : Manager!IsActive(c) => ord[c].role = "protect"
    BY SameTerms DEF LoopInv, AtStop, ShutdownReady
  <2>2. \A c \in Ids : Reaches(c) => Manager!IsActive(c)
    BY DEF LoopInv, OmsState, Reaches, Manager!Structure, Manager!WireIsFresh, Manager!VenueKnows
  <2>3. ASSUME coins > 0
        PROVE  \E c \in Ids : /\ ord[c].role = "protect" /\ Oms!Known(c)
                              /\ ord[c].asked = 0 /\ placed = stop
                              /\ ord[c].qty - ex[c].done = coins
    <3>1. PICK b \in Nat, r \in Nat :
            Manager!Unbooked("BUY", b) /\ Manager!Unbooked("SELL", r) /\ coins + r = held + b
      BY DEF LoopInv, OmsState, Manager!Balance
    <3>2. b = 0
      BY <2>1, <3>1 DEF Manager!Unbooked, Manager!OfSide, Manager!Side, Manager!SideOf, Manager!SellRoles
    <3>3. held \in Nat /\ coins \in Int
      BY DEF LoopInv, OmsState, Manager!Structure, Manager!Shapes
    <3>4. held > 0
      BY <2>3, <3>1, <3>2, <3>3
    <3>5. PICK c \in Protects : Confirmed(c, stop)
      BY <3>4 DEF LoopInv, AtStop, ShutdownReady
    <3>6. /\ c \in Ids /\ Manager!IsActive(c) /\ ord[c].role = "protect"
          /\ ord[c].st = "NOT_TRIGGERED" /\ ord[c].asked = 0 /\ ord[c].qty = held
          /\ ord[c].filled = 0 /\ placed = stop
      BY <3>5, SameTerms DEF Protects, Working, Confirmed
    <3>7. Oms!Known(c)
      BY <3>6, SameTerms DEF LoopInv, OmsState, Manager!ReportedIsKnown
    <3>8. ex[c].done - ord[c].filled = r
      BY <3>1, <3>6 DEF Manager!Unbooked, Manager!OfSide, Manager!Side, Manager!SideOf, Manager!SellRoles
    <3>9. ex[c].done \in Int
      BY <3>6 DEF LoopInv, OmsState, Manager!Structure, Manager!Shapes, Manager!Row
    <3> QED BY <3>1, <3>2, <3>3, <3>6, <3>7, <3>8, <3>9
  <2> QED BY <2>1, <2>2, <2>3
<1> QED BY <1>1, LoopInvariant, PTL

----------------------------------------------------------------------------
(* Who writes orders down. *)

\* An order is only written down by drive(), and then it is the one order
\* drive() ended with.
LEMMA OnlySubmitCommits ==
    ASSUME Manager!Structure, NEW c \in Ids, NEW role, Commits(c, role),
           NEW d \in Ids, NEW given, NEW q, Oms!SubmitIntent(d, given, q)
    PROVE  role = given
<1>1. /\ ord' = [ord EXCEPT ![d] = [st |-> "INTENT", role |-> given, qty |-> q, filled |-> 0,
                     camp |-> IF campaign = NoId THEN d ELSE campaign, asked |-> 0]]
      /\ ord \in [Ids -> Manager!Order]
  BY DEF Oms!SubmitIntent, Manager!Structure, Manager!Shapes
<1>2. c = d
  BY <1>1 DEF Commits
<1> QED BY <1>1, <1>2 DEF Commits

\* Only the turn of the loop writes an intent down.
LEMMA OnlyDriveCommits ==
    ASSUME Manager!Structure, NEW c \in Ids, NEW role, Commits(c, role), [Next]_vars
    PROVE  Drive
<1>0. ord \in [Ids -> Manager!Order] /\ ord[c].st = "none" /\ ord'[c].st = "INTENT"
  BY DEF Manager!Structure, Manager!Shapes, Commits
<1>1. CASE UNCHANGED ord
  BY <1>0, <1>1
<1>2. ASSUME NEW d \in Ids, Exchange(d) PROVE UNCHANGED ord
  BY <1>2 DEF Exchange, Oms!Arrive, Oms!Lose, Oms!Trigger, Oms!Execute, Oms!Close
<1>3. ASSUME NEW d \in Ids, Runtime(d) PROVE ord'[c].st # "INTENT"
  <2>1. ASSUME Oms!Apply(d) PROVE ord'[c].st # "INTENT"
    BY <1>0, <2>1 DEF Oms!Apply, Oms!Status, Manager!Order
  <2>2. CASE Reconcile(d) \/ Canceled(d)
    BY <1>0, <1>1, <2>1, <2>2 DEF Reconcile, Canceled, Oms!Reconcile, Oms!CancelEnd
  <2>3. CASE Tend(d)
    BY <1>0, <2>3 DEF Tend, Oms!ReconcileOverdue, Oms!Archive, Oms!NoOrder
  <2>4. CASE Sending(d) \/ Refused(d)
    BY <1>0, <2>4 DEF Sending, Refused, Oms!Expire, Oms!Transmit, Oms!AnswerOk, Oms!AnswerLost,
       Oms!AnswerRefused, Manager!Order
  <2>5. CASE Cancel(d)
    <3>1. \E n : ord' = [ord EXCEPT ![d].asked = n]
      BY <2>5 DEF Cancel, Oms!CancelStart
    <3> QED BY <1>0, <3>1 DEF Manager!Order
  <2> QED BY <1>3, <2>2, <2>3, <2>4, <2>5 DEF Runtime
<1>4. CASE AskStop \/ AccountHalts \/ ApiError \/ EndTurn \/ CoolEnd \/ Crash
  BY <1>1, <1>4 DEF AskStop, AccountHalts, ApiError, EndTurn, CoolEnd, Crash, omsVars, Oms!Halt,
     Oms!FinishFlat, Oms!Crash
<1>5. CASE UNCHANGED vars
  BY <1>1, <1>5 DEF vars, omsVars
<1> QED BY <1>0, <1>1, <1>2, <1>3, <1>4, <1>5 DEF Next

\* What drive() writes down, and from which of its branches.
LEMMA DriveCommits ==
    ASSUME Manager!Structure, NEW c \in Ids, NEW role, Commits(c, role), Drive
    PROVE  /\ exit /\ held > 0 => role = "exit"
           /\ role = "buy" /\ held > 0 =>
                stop' > 0 /\ \E d \in Protects : Confirmed(d, stop')
<1>1. \A given, q : Submits(given, q) => role = given
  BY OnlySubmitCommits DEF Submits
<1>2. \A S : ~Cancels(S)
  BY DEF Cancels, omsVars, Commits
<1>3. ~Waits /\ ~Oms!Halt
  BY <1>2 DEF Waits, Oms!Halt, Commits
<1>4. PICK bid \in Bids : \E s \in Stops(bid) :
        stop' = s /\ \E reason \in ExitReasons(s, bid) : Decide(s, reason, bid)
  BY <1>2 DEF Drive, Unwind
<1>5. PICK s \in Stops(bid) :
        stop' = s /\ \E reason \in ExitReasons(s, bid) : Decide(s, reason, bid)
  BY <1>4
<1>6. PICK reason \in ExitReasons(s, bid) : Decide(s, reason, bid)
  BY <1>5
<1>7. CASE held > 0 /\ reason
  <2>1. Leave(bid)
    BY <1>6, <1>7 DEF Decide
  <2> QED BY <1>1, <1>2, <1>3, <2>1 DEF Leave
<1>8. CASE ~(held > 0 /\ reason)
  <2>1. ~(exit /\ held > 0)
    BY <1>6, <1>8 DEF ExitReasons
  <2>2. CASE Trim(s, bid)
    BY <1>1, <1>2, <1>3, <2>1, <2>2 DEF Trim
  <2>3. CASE Protect(s)
    BY <1>1, <1>2, <1>3, <2>1, <2>3 DEF Protect
  <2>4. CASE AtRest(s, bid)
    BY <1>5, <2>1, <2>4 DEF AtRest
  <2> QED BY <1>2, <1>6, <1>8, <2>2, <2>3, <2>4 DEF Decide
<1> QED BY <1>7, <1>8

\* An add is written down only under protection the exchange has confirmed,
\* however reports, triggers and cancels fall around the decision.
THEOREM AddsNeedCover == Spec => AddsAreCovered
<1>1. ASSUME LoopInv, [Next]_vars, NEW c \in Ids, Commits(c, "buy"), held > 0
      PROVE  \E d \in Ids : /\ ord[d].role = "protect" /\ Oms!Known(d)
                            /\ ord[d].qty = held /\ ord[d].asked = 0 /\ placed = stop'
  <2>1. Drive
    BY <1>1, OnlyDriveCommits DEF LoopInv, OmsState
  <2>2. PICK d \in Protects : Confirmed(d, stop')
    BY <1>1, <2>1, DriveCommits DEF LoopInv, OmsState
  <2>3. d \in Ids /\ ord[d].role = "protect" /\ ord[d].st = "NOT_TRIGGERED"
    BY <2>2 DEF Protects, Working, Confirmed
  <2>4. Oms!Known(d)
    BY <1>1, <2>3, SameTerms DEF LoopInv, OmsState, Manager!ReportedIsKnown
  <2> QED BY <2>2, <2>3, <2>4 DEF Confirmed
<1>2. LoopInv /\ [Next]_vars =>
        [\A c \in Ids : Commits(c, "buy") /\ held > 0 =>
           \E d \in Ids : /\ ord[d].role = "protect" /\ Oms!Known(d)
                          /\ ord[d].qty = held /\ ord[d].asked = 0 /\ placed = stop']_vars
  BY <1>1
<1> QED BY <1>2, LoopInvariant, PTL DEF Spec, AddsAreCovered

\* A step with inventory never forgets the reason to leave, but for a crash
\* between the two saves of a rejection.
LEMMA ReasonStays ==
    ASSUME OmsState, OmsState', [Next]_vars, exit, held > 0
    PROVE  exit' \/ held' = 0 \/ (soft /\ crashes' < crashes)
<1>1. held \in Nat /\ held' \in Nat /\ crashes \in Nat
  BY DEF OmsState, Manager!Structure, Manager!Shapes
<1>2. CASE UNCHANGED exit
  BY <1>2
<1>3. ASSUME NEW c \in Ids, Runtime(c) PROVE exit' \/ held' = 0
  <2>1. CASE Reported(c)
    <3>1. held' > 0 \/ held' = 0
      BY <1>1
    <3>2. exit' = exit \/ exit' = TRUE \/ ~(held' > 0)
      BY <2>1, Zenon DEF Reported, AfterFill
    <3> QED BY <1>2, <3>1, <3>2
  <2>2. CASE Tend(c) \/ Sending(c) \/ Refused(c) \/ Cancel(c)
    BY <2>2 DEF Tend, Sending, Refused, Cancel, bookVars
  <2> QED BY <1>3, <2>1, <2>2 DEF Runtime, Reconcile, Canceled
<1>4. CASE Drive
  <2>1. CASE UNCHANGED exit
    BY <2>1
  <2>2. ASSUME NEW bid \in Bids, NEW s \in Stops(bid), NEW reason \in ExitReasons(s, bid),
               Decide(s, reason, bid)
        PROVE  exit'
    <3>1. reason
      BY <2>2 DEF ExitReasons
    <3> QED BY <2>2, <3>1 DEF Decide
  <2> QED BY <1>4, <2>1, <2>2 DEF Drive
<1>5. CASE EndTurn
  <2>1. held # 0
    BY <1>1
  <2>2. UNCHANGED exit
    BY <1>5, <2>1, Zenon DEF EndTurn, CampaignOver, bookVars
  <2> QED BY <1>2, <2>2
<1>6. CASE Crash
  <2>1. crashes' < crashes
    BY <1>1, <1>6 DEF Crash, Oms!Crash
  <2>2. exit' = (exit /\ ~soft)
    BY <1>6 DEF Crash
  <2> QED BY <2>1, <2>2, Zenon
<1>7. CASE AskStop \/ AccountHalts \/ ApiError \/ CoolEnd \/ UNCHANGED vars
  BY <1>2, <1>7 DEF AskStop, AccountHalts, ApiError, CoolEnd, bookVars, vars
<1>8. ASSUME NEW c \in Ids, Exchange(c) PROVE exit'
  BY <1>8 DEF Exchange, bookVars
<1> QED BY <1>3, <1>4, <1>5, <1>6, <1>7, <1>8 DEF Next

\* Once there is a reason to leave, the loop orders nothing but the exit and
\* remembers the reason until the inventory is gone.
THEOREM ReasonsStick == Spec => ExitSticks
<1>1. ASSUME LoopInv, LoopInv', [Next]_vars, exit, held > 0
      PROVE  /\ exit' \/ held' = 0 \/ (soft /\ crashes' < crashes)
             /\ \A c \in Ids : \A role \in {"buy", "protect", "trim"} : ~Commits(c, role)
  <2>1. exit' \/ held' = 0 \/ (soft /\ crashes' < crashes)
    BY <1>1, ReasonStays DEF LoopInv
  <2>2. ASSUME NEW c \in Ids, NEW role \in {"buy", "protect", "trim"}, Commits(c, role)
        PROVE  FALSE
    <3>1. Drive
      BY <1>1, <2>2, OnlyDriveCommits DEF LoopInv, OmsState
    <3>2. role = "exit"
      BY <1>1, <2>2, <3>1, DriveCommits DEF LoopInv, OmsState
    <3> QED BY <2>2, <3>2
  <2> QED BY <2>1, <2>2
<1>2. LoopInv /\ LoopInv' /\ [Next]_vars =>
        [exit /\ held > 0 =>
           /\ exit' \/ held' = 0 \/ (soft /\ crashes' < crashes)
           /\ \A c \in Ids : \A role \in {"buy", "protect", "trim"} : ~Commits(c, role)]_vars
  BY <1>1
<1> QED BY <1>2, LoopInvariant, PTL DEF Spec, ExitSticks

----------------------------------------------------------------------------
(* Merging, row after row.                                                 *)

\* f merges the rows of s whose places are in t, for every t in S, as the fold does.
MergesIn(f, q, s, S) ==
  f = [t \in SUBSET S |-> IF t = {} THEN q ELSE Merge(f[t \ {Max(t)}], s[Max(t)])]

\* The last of some places is one of them.
LEMMA LastPlace ==
    ASSUME NEW n \in Nat, NEW t \in SUBSET (1..n), t # {}
    PROVE  Max(t) \in t /\ \A i \in t : i <= Max(t)
<1>1. IsFiniteSet(1..n)
  BY FS_Interval
<1>2. IsFiniteSet(t)
  <2> DEFINE S == 1..n
  <2>1. IsFiniteSet(S) /\ t \in SUBSET S
    BY <1>1
  <2> HIDE DEF S
  <2> QED BY <2>1, FS_Subset
<1>3. \A i \in t : i \in Nat
  OBVIOUS
<1> QED BY <1>2, <1>3, GreatestElement

\* Two such functions agree wherever both are defined.
LEMMA MergesAgree ==
    ASSUME NEW S, IsFiniteSet(S), \A t \in SUBSET S : t # {} => Max(t) \in t,
           NEW q, NEW s, NEW f, NEW g, NEW F, NEW G,
           S \subseteq F, S \subseteq G, MergesIn(f, q, s, F), MergesIn(g, q, s, G)
    PROVE  f[S] = g[S]
<1> DEFINE T == {t \in SUBSET S : f[t] # g[t]}
<1>1. SUFFICES ASSUME T # {} PROVE FALSE
  OBVIOUS
<1>2. PICK m \in T : \A t \in T : t \subseteq m => t = m
  <2>1. T \in SUBSET SUBSET S
    OBVIOUS
  <2> HIDE DEF T
  <2> QED BY <1>1, <2>1, MinimalSet
<1>3. CASE m = {}
  BY <1>2, <1>3 DEF MergesIn
<1>4. CASE m # {}
  <2> DEFINE u == m \ {Max(m)}
  <2>1. u \subseteq m /\ u # m
    BY <1>4
  <2>2. f[u] = g[u]
    BY <1>2, <2>1
  <2>3. m \in SUBSET F /\ m \in SUBSET G
    OBVIOUS
  <2>4. f[m] = Merge(f[u], s[Max(m)])
    BY <1>4, <2>3, Zenon DEF MergesIn
  <2>5. g[m] = Merge(g[u], s[Max(m)])
    BY <1>4, <2>3, Zenon DEF MergesIn
  <2>6. f[m] # g[m]
    BY <1>2
  <2> HIDE DEF u, T
  <2> QED BY <2>2, <2>4, <2>5, <2>6
<1> QED BY <1>3, <1>4

\* There is such a function for the places of any sequence.
LEMMA MergesExist ==
    ASSUME NEW n \in Nat, NEW q, NEW s
    PROVE  \E f : MergesIn(f, q, s, 1..n)
<1> DEFINE S == 1..n
           T == {t \in SUBSET S : ~ \E f : MergesIn(f, q, s, t)}
           Of(t) == CHOOSE f : MergesIn(f, q, s, t)
<1>1. SUFFICES ASSUME T # {} PROVE FALSE
  OBVIOUS
<1>2. PICK m \in T : \A t \in T : t \subseteq m => t = m
  <2>1. T \in SUBSET SUBSET S
    OBVIOUS
  <2>2. IsFiniteSet(S)
    BY FS_Interval
  <2> HIDE DEF S, T
  <2> QED BY <1>1, <2>1, <2>2, MinimalSet
<1>3. m \in SUBSET (1..n)
  BY <1>2
<1> DEFINE Less(t) == t \ {Max(t)}
           F == [t \in SUBSET m |-> IF t = {} THEN q ELSE Merge(Of(Less(t))[Less(t)], s[Max(t)])]
<1>4. \A t \in SUBSET m : t # m => MergesIn(Of(t), q, s, t)
  <2> TAKE t \in SUBSET m
  <2> HAVE t # m
  <2>1. \E f : MergesIn(f, q, s, t)
    BY <1>2
  <2> QED BY <2>1
<1>5. \A t \in SUBSET m : t # {} => Less(t) \in SUBSET m /\ Less(t) \subseteq t /\ Less(t) # t /\ Less(t) # m
  <2> TAKE t \in SUBSET m
  <2> HAVE t # {}
  <2>1. t \in SUBSET (1..n)
    BY <1>3
  <2>2. Max(t) \in t
    BY <2>1, LastPlace
  <2> QED BY <2>2
<1> HIDE DEF S, T, Of
<1>6. \A t \in SUBSET m : t # m => F[t] = Of(t)[t]
  <2> TAKE t \in SUBSET m
  <2> HAVE t # m
  <2>1. MergesIn(Of(t), q, s, t)
    BY <1>4
  <2>2. CASE t = {}
    BY <2>1, <2>2 DEF MergesIn
  <2>3. CASE t # {}
    <3> DEFINE u == Less(t)
    <3>1. u \subseteq t /\ u # t /\ u # m /\ u \in SUBSET m /\ u \in SUBSET (1..n)
      BY <1>3, <1>5, <2>3
    <3>2. MergesIn(Of(u), q, s, u)
      BY <1>4, <3>1
    <3>3. Of(t)[t] = Merge(Of(t)[u], s[Max(t)])
      BY <2>1, <2>3, Zenon DEF MergesIn
    <3>4. F[t] = Merge(Of(u)[u], s[Max(t)])
      BY <2>3
    <3> HIDE DEF u, F
    <3>5. Of(t)[u] = Of(u)[u]
      <4>1. IsFiniteSet(u) /\ \A v \in SUBSET u : v # {} => Max(v) \in v
        <5> DEFINE W == 1..n
        <5>1. IsFiniteSet(W) /\ u \subseteq W
          BY <3>1, FS_Interval
        <5>2. \A v \in SUBSET W : v # {} => Max(v) \in v
          BY LastPlace
        <5> HIDE DEF W
        <5> QED BY <5>1, <5>2, FS_Subset
      <4>2. u \subseteq u /\ u \subseteq t
        BY <3>1
      <4> QED BY <2>1, <3>2, <4>1, <4>2, MergesAgree
    <3> QED BY <3>3, <3>4, <3>5
  <2> QED BY <2>2, <2>3
<1>7. MergesIn(F, q, s, m)
  <2>1. ASSUME NEW t \in SUBSET m
        PROVE  F[t] = IF t = {} THEN q ELSE Merge(F[Less(t)], s[Max(t)])
    <3>1. CASE t = {}
      BY <3>1
    <3>2. CASE t # {}
      <4>1. F[t] = Merge(Of(Less(t))[Less(t)], s[Max(t)])
        BY <3>2
      <4>2. F[Less(t)] = Of(Less(t))[Less(t)]
        BY <1>5, <1>6, <3>2
      <4> HIDE DEF F
      <4> QED BY <3>2, <4>1, <4>2
    <3> QED BY <3>1, <3>2
  <2>2. F = [t \in SUBSET m |-> F[t]]
    OBVIOUS
  <2> HIDE DEF F
  <2> DEFINE G == [t \in SUBSET m |-> IF t = {} THEN q ELSE Merge(F[Less(t)], s[Max(t)])]
  <2>3. G = [t \in SUBSET m |-> F[t]]
    BY <2>1
  <2> QED BY <2>2, <2>3 DEF MergesIn
<1> QED BY <1>2, <1>7 DEF T

Merged(q, s) == FoldLeft(Merge, q, s)

\* The rows are merged one after the other.
LEMMA MergedInOrder ==
    ASSUME NEW q, NEW R, NEW s \in Seq(R)
    PROVE  \E h : /\ h[0] = q /\ h[Len(s)] = Merged(q, s)
                  /\ \A i \in 1..Len(s) : h[i] = Merge(h[i - 1], s[i])
<1> DEFINE n == Len(s)
<1>1. n \in Nat /\ DOMAIN s = 1..n
  OBVIOUS
<1> HIDE DEF n
<1>2. PICK f : MergesIn(f, q, s, 1..n)
  BY <1>1, MergesExist
<1>3. FoldLeft(Merge, q, s) = f[1..n]
  <2> DEFINE it == CHOOSE iter : iter = [t \in SUBSET (1..n) |-> IF t = {} THEN q
                                           ELSE LET x == Max(t) IN Merge(iter[t \ {x}], s[x])]
  <2>1. FoldLeft(Merge, q, s) = it[1..n]
    BY <1>1, Zenon DEF FoldLeft, MapThenFoldSet
  <2>2. MergesIn(it, q, s, 1..n)
    <3>1. \E iter : iter = [t \in SUBSET (1..n) |-> IF t = {} THEN q
                                           ELSE LET x == Max(t) IN Merge(iter[t \ {x}], s[x])]
      BY <1>2, Zenon DEF MergesIn
    <3>2. it = [t \in SUBSET (1..n) |-> IF t = {} THEN q
                                           ELSE LET x == Max(t) IN Merge(it[t \ {x}], s[x])]
      BY <3>1, Zenon
    <3> HIDE DEF it
    <3> QED BY <3>2, Zenon DEF MergesIn
  <2> HIDE DEF it
  <2>3. it[1..n] = f[1..n]
    <3> DEFINE S == 1..n
    <3>1. /\ S \subseteq S /\ MergesIn(it, q, s, S) /\ MergesIn(f, q, s, S)
          /\ IsFiniteSet(S) /\ \A t \in SUBSET S : t # {} => Max(t) \in t
      <4>1. IsFiniteSet(S) /\ \A t \in SUBSET S : t # {} => Max(t) \in t
        <5>1. IsFiniteSet(1..n)
          BY <1>1, FS_Interval
        <5>2. ASSUME NEW t \in SUBSET (1..n), t # {} PROVE Max(t) \in t
          BY <1>1, <5>2, LastPlace
        <5> QED BY <5>1, <5>2
      <4>2. MergesIn(it, q, s, S) /\ MergesIn(f, q, s, S)
        BY <1>2, <2>2
      <4> QED BY <4>1, <4>2
    <3> HIDE DEF S
    <3>2. it[S] = f[S]
      BY <1>1, <3>1, MergesAgree
    <3> QED BY <3>2 DEF S
  <2> QED BY <2>1, <2>3
<1> DEFINE h == [i \in 0..n |-> f[1..i]]
<1>4. h[0] = q
  <2>1. 1..0 = {} /\ 0 \in 0..n /\ {} \in SUBSET (1..n)
    BY <1>1
  <2>2. f[{}] = q
    BY <1>2, <2>1, Zenon DEF MergesIn
  <2> QED BY <2>1, <2>2
<1>5. h[n] = f[1..n]
  <2>1. n \in 0..n
    BY <1>1
  <2> QED BY <2>1
<1>6. ASSUME NEW i \in 1..n PROVE h[i] = Merge(h[i - 1], s[i])
  <2>1. /\ i \in 0..n /\ i - 1 \in 0..n /\ 1..i \in SUBSET (1..n) /\ 1..i # {} /\ i \in Nat
        /\ (1..i) \ {i} = 1..(i - 1) /\ i \in 1..i
    <3>1. i \in Nat /\ 1 <= i /\ i <= n /\ i \in 1..i
      BY <1>1
    <3>2. i \in 0..n /\ i - 1 \in 0..n /\ 1..i \in SUBSET (1..n)
      BY <1>1, <3>1
    <3>3. (1..i) \ {i} = 1..(i - 1)
      BY <3>1
    <3>4. 1..i # {}
      BY <3>1
    <3> QED BY <3>1, <3>2, <3>3, <3>4
  <2>2. Max(1..i) = i
    <3> DEFINE t == 1..i
    <3>1. t \in SUBSET (1..i) /\ t # {}
      BY <2>1
    <3>2. \A j \in 1..i : i <= j => j = i
      BY <2>1
    <3> HIDE DEF t
    <3>3. Max(t) \in t /\ \A j \in t : j <= Max(t)
      BY <2>1, <3>1, LastPlace
    <3> QED BY <2>1, <3>2, <3>3 DEF t
  <2>3. f[1..i] = Merge(f[(1..i) \ {Max(1..i)}], s[Max(1..i)])
    BY <1>2, <2>1, Zenon DEF MergesIn
  <2>4. f[1..i] = Merge(f[1..(i - 1)], s[i])
    BY <2>1, <2>2, <2>3, Zenon
  <2> QED BY <2>1, <2>4
<1> HIDE DEF h
<1> QED BY <1>3, <1>4, <1>5, <1>6, Zenon DEF n, Merged

----------------------------------------------------------------------------
(* What a merged row leaves of a queue.                                    *)

OneNotice == [order : Orders \union {"boot"}, n : Nat, st : {"pending", "sending", "sent"}, tries : Nat]

\* r is q with more in it: what was tried stands as it did, and new notices were not tried.
Grown(q, r) ==
  /\ r \in Seq(OneNotice) /\ Len(q) <= Len(r)
  /\ \A k \in 1..Len(q) : /\ r[k].st = q[k].st /\ r[k].tries = q[k].tries
                          /\ ~MayGrow(q[k]) => r[k] = q[k]
  /\ \A k \in Len(q) + 1..Len(r) : r[k].st = "pending"

\* Whose notices tell of an order, and how many fills each tells of.
Whose(q, o) == {k \in DOMAIN q : q[k].order = o}
Counts(q) == [k \in DOMAIN q |-> q[k].n]

\* A notice is one of a few.
LEMMA NoticesFinite ==
    ASSUME NEW q \in Seq(OneNotice), NEW o
    PROVE  /\ IsFiniteSet(Whose(q, o)) /\ Told(q, o) = SumFunctionOnSet(Counts(q), Whose(q, o))
           /\ Told(q, o) \in Nat
           /\ \A k \in Whose(q, o) : Counts(q)[k] \in Int
<1>1. DOMAIN q = 1..Len(q) /\ Len(q) \in Nat /\ \A k \in DOMAIN q : q[k] \in OneNotice
  OBVIOUS
<1>2. IsFiniteSet(Whose(q, o))
  <2>1. IsFiniteSet(DOMAIN q)
    BY <1>1, FS_Interval
  <2>2. Whose(q, o) \subseteq DOMAIN q
    BY DEF Whose
  <2> QED BY <2>1, <2>2, FS_Subset
<1>3. \A k \in Whose(q, o) : Counts(q)[k] \in Nat
  BY <1>1 DEF Whose, Counts, OneNotice
<1>4. SumFunctionOnSet(Counts(q), Whose(q, o)) \in Nat
  BY <1>2, <1>3, SumOfNats
<1>5. Told(q, o) = SumFunctionOnSet(Counts(q), Whose(q, o))
  BY Zenon DEF Told, Counts, Whose
<1> QED BY <1>2, <1>3, <1>4, <1>5

\* One row.
LEMMA MergeRow ==
    ASSUME NEW q \in Seq(OneNotice), NEW o \in Orders
    PROVE  /\ Grown(q, Merge(q, o))
           /\ \A p : Told(Merge(q, o), p) = Told(q, p) + (IF p = o THEN 1 ELSE 0)
<1> DEFINE open == {k \in DOMAIN q : q[k].order = o /\ MayGrow(q[k])}
           l == Len(q)
           r == Merge(q, o)
<1>1. DOMAIN q = 1..l /\ l \in Nat /\ \A k \in 1..l : q[k] \in OneNotice
  OBVIOUS
<1>2. CASE open # {}
  <2> DEFINE m == Max(open)
  <2>1. m \in open
    <3>1. open \in SUBSET (1..l)
      BY <1>1
    <3> HIDE DEF open, l
    <3> QED BY <1>1, <1>2, <3>1, LastPlace
  <2>2. r = [q EXCEPT ![m].n = @ + 1]
    BY <1>2 DEF Merge
  <2>3. m \in 1..l /\ q[m].order = o /\ MayGrow(q[m]) /\ q[m] \in OneNotice
    BY <1>1, <2>1
  <2> HIDE DEF open, m, l, r
  <2>4. [q[m] EXCEPT !.n = @ + 1] \in OneNotice
        /\ [q[m] EXCEPT !.n = @ + 1] = [order |-> q[m].order, n |-> q[m].n + 1, st |-> q[m].st, tries |-> q[m].tries]
    BY <2>3 DEF OneNotice
  <2>5. /\ DOMAIN r = 1..l /\ \A k \in 1..l : k # m => r[k] = q[k]
        /\ r[m] = [q[m] EXCEPT !.n = @ + 1]
    BY <1>1, <2>2, <2>3
  <2>6. r \in Seq(OneNotice) /\ Len(r) = l
    <3>1. \A k \in 1..l : r[k] \in OneNotice
      BY <1>1, <2>4, <2>5
    <3>2. r = [k \in 1..l |-> r[k]]
      BY <1>1, <2>2
    <3>3. r \in [1..l -> OneNotice]
      BY <3>1, <3>2
    <3> QED BY <1>1, <3>3
  <2>7. r[m].n = q[m].n + 1 /\ r[m].order = o /\ r[m].st = q[m].st /\ r[m].tries = q[m].tries
    BY <2>3, <2>4, <2>5
  <2>8. Grown(q, r)
    <3>1. l + 1..l = {} /\ l <= l
      BY <1>1
    <3> QED BY <2>3, <2>5, <2>6, <2>7, <3>1 DEF Grown, l
  <2>9. ASSUME NEW p PROVE Told(r, p) = Told(q, p) + (IF p = o THEN 1 ELSE 0)
    <3>1. Whose(r, p) = Whose(q, p)
      BY <1>1, <2>3, <2>5, <2>7 DEF Whose
    <3>2. /\ IsFiniteSet(Whose(q, p)) /\ Told(q, p) = SumFunctionOnSet(Counts(q), Whose(q, p))
          /\ Told(q, p) \in Nat /\ Told(r, p) = SumFunctionOnSet(Counts(r), Whose(q, p))
          /\ \A k \in Whose(q, p) : Counts(q)[k] \in Int /\ Counts(r)[k] \in Int
      BY <2>6, <3>1, NoticesFinite
    <3>3. \A k \in Whose(q, p) \ {m} : Counts(r)[k] = Counts(q)[k]
      BY <1>1, <2>5 DEF Whose, Counts
    <3>4. CASE p = o
      <4>1. m \in Whose(q, p) /\ Counts(r)[m] = Counts(q)[m] + 1 /\ Counts(q)[m] \in Int
        BY <1>1, <2>3, <2>5, <2>7, <3>2, <3>4 DEF Whose, Counts
      <4>2. Told(r, p) = Told(q, p) - Counts(q)[m] + Counts(r)[m]
        BY <3>2, <3>3, <4>1, SumChange
      <4> HIDE DEF Told
      <4> QED BY <3>2, <3>4, <4>1, <4>2
    <3>5. CASE p # o
      <4>1. m \notin Whose(q, p)
        BY <2>3, <3>5 DEF Whose
      <4>2. \A k \in Whose(q, p) : Counts(r)[k] = Counts(q)[k]
        BY <3>3, <4>1
      <4>3. Told(r, p) = Told(q, p)
        BY <3>2, <4>2, SumCongruent
      <4> QED BY <3>2, <3>5, <4>3
    <3> QED BY <3>4, <3>5
  <2> QED BY <2>8, <2>9 DEF r
<1>3. CASE open = {}
  <2> DEFINE x == Notice(o, 1)
  <2>1. r = Append(q, x)
    BY <1>3 DEF Merge
  <2>2. x \in OneNotice /\ x.order = o /\ x.n = 1 /\ x.st = "pending"
    BY DEF Notice, OneNotice
  <2> HIDE DEF open, x
  <2>3. /\ r \in Seq(OneNotice) /\ Len(r) = l + 1 /\ DOMAIN r = 1..l + 1 /\ r[l + 1] = x
        /\ \A k \in 1..l : r[k] = q[k]
    BY <2>1, <2>2
  <2> HIDE DEF l, r
  <2>4. l <= l + 1 /\ l + 1..l + 1 = {l + 1} /\ l + 1 \notin 1..l /\ 1..l + 1 = (1..l) \union {l + 1}
    BY <1>1
  <2>5. Grown(q, r)
    BY <2>2, <2>3, <2>4 DEF Grown, l
  <2>6. ASSUME NEW p PROVE Told(r, p) = Told(q, p) + (IF p = o THEN 1 ELSE 0)
    <3>1. Whose(r, p) = (IF p = o THEN Whose(q, p) \union {l + 1} ELSE Whose(q, p)) /\ l + 1 \notin Whose(q, p)
      BY <1>1, <2>2, <2>3, <2>4 DEF Whose
    <3>2. /\ IsFiniteSet(Whose(q, p)) /\ Told(q, p) = SumFunctionOnSet(Counts(q), Whose(q, p))
          /\ Told(q, p) \in Nat /\ Told(r, p) = SumFunctionOnSet(Counts(r), Whose(r, p))
          /\ IsFiniteSet(Whose(r, p)) /\ \A k \in Whose(r, p) : Counts(r)[k] \in Int
      BY <2>3, NoticesFinite
    <3>3. SumFunctionOnSet(Counts(r), Whose(q, p)) = Told(q, p)
      <4>1. \A k \in Whose(q, p) : Counts(r)[k] = Counts(q)[k]
        BY <1>1, <2>3, <2>4 DEF Whose, Counts
      <4> QED BY <3>2, <4>1, SumCongruent
    <3>4. CASE p = o
      <4>1. l + 1 \in Whose(r, p) /\ Whose(r, p) \ {l + 1} = Whose(q, p)
        BY <3>1, <3>4
      <4>2. Counts(r)[l + 1] = 1
        BY <2>2, <2>3, <2>4 DEF Counts
      <4>3. Told(r, p) = Counts(r)[l + 1] + SumFunctionOnSet(Counts(r), Whose(r, p) \ {l + 1})
        BY <3>2, <4>1, SumTake
      <4>4. Told(r, p) = 1 + Told(q, p)
        BY <3>3, <4>1, <4>2, <4>3, Zenon
      <4> QED BY <3>2, <3>4, <4>4
    <3>5. CASE p # o
      <4>1. Told(r, p) = Told(q, p)
        BY <3>1, <3>2, <3>3, <3>5, Zenon
      <4> QED BY <3>2, <3>5, <4>1
    <3> QED BY <3>4, <3>5
  <2> QED BY <2>5, <2>6 DEF r
<1> QED BY <1>2, <1>3

\* How many of the rows are of an order.
RowsOf(s, p, n) == Cardinality({i \in 1..n : s[i] = p})

\* One row more.
LEMMA OneRowMore ==
    ASSUME NEW s, NEW n \in Nat \ {0}, NEW p
    PROVE  /\ RowsOf(s, p, n - 1) \in Nat
           /\ RowsOf(s, p, n) = RowsOf(s, p, n - 1) + (IF p = s[n] THEN 1 ELSE 0)
<1> DEFINE R == {i \in 1..(n - 1) : s[i] = p}
           T == {i \in 1..n : s[i] = p}
<1>1. n \notin R /\ T = IF p = s[n] THEN R \union {n} ELSE R
  OBVIOUS
<1>2. IsFiniteSet(R)
  <2>1. IsFiniteSet(1..(n - 1))
    BY FS_Interval
  <2> QED BY <2>1, FS_Subset
<1> HIDE DEF R, T
<1>3. Cardinality(R) \in Nat
  BY <1>2, FS_CardinalityType
<1>4. Cardinality(T) = Cardinality(R) + (IF p = s[n] THEN 1 ELSE 0)
  <2>1. CASE p = s[n]
    <3>1. Cardinality(R \union {n}) = Cardinality(R) + 1
      BY <1>1, <1>2, FS_AddElement
    <3> QED BY <1>1, <2>1, <3>1
  <2>2. CASE p # s[n]
    BY <1>1, <1>3, <2>2
  <2> QED BY <2>1, <2>2
<1> QED BY <1>3, <1>4 DEF R, T, RowsOf

\* All rows of a poll.
LEMMA MergeRows ==
    ASSUME NEW q \in Seq(OneNotice), NEW s \in Seq(Orders)
    PROVE  /\ Grown(q, Merged(q, s))
           /\ \A p : Told(Merged(q, s), p) = Told(q, p) + RowsOf(s, p, Len(s))
<1> DEFINE n == Len(s)
           Right(r, i) == Grown(q, r) /\ \A p : Told(r, p) = Told(q, p) + RowsOf(s, p, i)
<1>1. PICK h : /\ h[0] = q /\ h[n] = Merged(q, s)
               /\ \A i \in 1..n : h[i] = Merge(h[i - 1], s[i])
  BY MergedInOrder
<1>2. n \in Nat /\ \A i \in 1..n : s[i] \in Orders
  OBVIOUS
<1> HIDE DEF n
<1>3. Right(q, 0)
  <2>1. Grown(q, q)
    BY DEF Grown
  <2>2. ASSUME NEW p PROVE Told(q, p) = Told(q, p) + RowsOf(s, p, 0)
    <3>1. {i \in 1..0 : s[i] = p} = {}
      OBVIOUS
    <3>2. RowsOf(s, p, 0) = 0
      BY <3>1, FS_EmptySet DEF RowsOf
    <3>3. Told(q, p) \in Nat
      BY NoticesFinite
    <3> QED BY <3>2, <3>3
  <2> QED BY <2>1, <2>2
<1>4. ASSUME NEW i \in 1..n, NEW r, Right(r, i - 1) PROVE Right(Merge(r, s[i]), i)
  <2>1. r \in Seq(OneNotice) /\ Grown(q, r)
    BY <1>4 DEF Grown
  <2>2. /\ Grown(r, Merge(r, s[i]))
        /\ \A p : Told(Merge(r, s[i]), p) = Told(r, p) + (IF p = s[i] THEN 1 ELSE 0)
    BY <1>2, <2>1, MergeRow
  <2>3. Grown(q, Merge(r, s[i]))
    <3> DEFINE m == Merge(r, s[i])
    <3>1. Grown(r, m)
      BY <2>2
    <3> HIDE DEF m
    <3>2. Len(q) \in Nat /\ Len(r) \in Nat /\ Len(m) \in Nat
      BY <2>1, <3>1 DEF Grown
    <3>3. /\ m \in Seq(OneNotice) /\ Len(q) <= Len(r) /\ Len(r) <= Len(m)
      BY <2>1, <3>1 DEF Grown
    <3>4. ASSUME NEW k \in 1..Len(q)
          PROVE  m[k].st = q[k].st /\ m[k].tries = q[k].tries /\ (~MayGrow(q[k]) => m[k] = q[k])
      <4>1. k \in 1..Len(r)
        BY <3>2, <3>3
      <4>2. r[k].st = q[k].st /\ r[k].tries = q[k].tries /\ (~MayGrow(q[k]) => r[k] = q[k])
        BY <2>1 DEF Grown
      <4>3. m[k].st = r[k].st /\ m[k].tries = r[k].tries /\ (~MayGrow(r[k]) => m[k] = r[k])
        BY <3>1, <4>1 DEF Grown
      <4> QED BY <4>2, <4>3
    <3>5. ASSUME NEW k \in Len(q) + 1..Len(m) PROVE m[k].st = "pending"
      <4>1. CASE k <= Len(r)
        <5>1. k \in Len(q) + 1..Len(r) /\ k \in 1..Len(r)
          BY <3>2, <4>1
        <5>2. r[k].st = "pending" /\ m[k].st = r[k].st
          BY <2>1, <3>1, <5>1 DEF Grown
        <5> QED BY <5>2
      <4>2. CASE ~(k <= Len(r))
        <5>1. k \in Len(r) + 1..Len(m)
          BY <3>2, <4>2
        <5> QED BY <3>1, <5>1 DEF Grown
      <4> QED BY <4>1, <4>2
    <3>6. Len(q) <= Len(m)
      BY <3>2, <3>3
    <3>7. Grown(q, m)
      BY <3>3, <3>4, <3>5, <3>6 DEF Grown
    <3> QED BY <3>7 DEF m
  <2>4. ASSUME NEW p PROVE Told(Merge(r, s[i]), p) = Told(q, p) + RowsOf(s, p, i)
    <3>1. /\ RowsOf(s, p, i - 1) \in Nat
          /\ RowsOf(s, p, i) = RowsOf(s, p, i - 1) + (IF p = s[i] THEN 1 ELSE 0)
      <4>1. i \in Nat \ {0}
        BY <1>2
      <4> QED BY <4>1, OneRowMore
    <3>2. Told(q, p) \in Nat /\ Told(r, p) = Told(q, p) + RowsOf(s, p, i - 1)
      BY <1>4, NoticesFinite
    <3>3. Told(Merge(r, s[i]), p) = Told(r, p) + (IF p = s[i] THEN 1 ELSE 0)
      BY <2>2
    <3> DEFINE d == RowsOf(s, p, i - 1)
               t == Told(q, p)
    <3>4. d \in Nat /\ t \in Nat
      BY <3>1, <3>2
    <3>5. CASE p = s[i]
      <4>1. RowsOf(s, p, i) = d + 1 /\ Told(r, p) = t + d /\ Told(Merge(r, s[i]), p) = Told(r, p) + 1
        BY <3>1, <3>2, <3>3, <3>5, Zenon
      <4> HIDE DEF d, t
      <4>2. (t + d) + 1 = t + (d + 1)
        BY <3>4
      <4>3. Told(Merge(r, s[i]), p) = t + RowsOf(s, p, i)
        BY <4>1, <4>2, Zenon
      <4> QED BY <4>3 DEF t
    <3>6. CASE p # s[i]
      <4>1. RowsOf(s, p, i) = d + 0 /\ Told(r, p) = t + d /\ Told(Merge(r, s[i]), p) = Told(r, p) + 0
        BY <3>1, <3>2, <3>3, <3>6, Zenon
      <4> HIDE DEF d, t
      <4>2. (t + d) + 0 = t + (d + 0)
        BY <3>4
      <4>3. Told(Merge(r, s[i]), p) = t + RowsOf(s, p, i)
        BY <4>1, <4>2, Zenon
      <4> QED BY <4>3 DEF t
    <3> QED BY <3>5, <3>6
  <2> QED BY <2>3, <2>4
<1> HIDE DEF Right
<1>5. Right(h[n], n)
  <2> DEFINE Bad == {i \in 1..n : ~Right(h[i], i)}
  <2>1. Bad = {}
    <3> SUFFICES ASSUME Bad # {} PROVE FALSE
      OBVIOUS
    <3>1. Min(Bad) \in Bad /\ \A j \in Bad : Min(Bad) <= j
      BY <1>2, LeastElement
    <3> DEFINE k == Min(Bad)
    <3>2. k \in 1..n /\ k \in Bad
      BY <3>1
    <3>3. Right(h[k - 1], k - 1)
      <4> HIDE DEF k
      <4>1. CASE k = 1
        BY <1>1, <1>3, <4>1
      <4>2. CASE k # 1
        <5>1. k - 1 \in 1..n /\ ~(k <= k - 1)
          BY <1>2, <3>2, <4>2
        <5>2. k - 1 \notin Bad
          BY <3>1, <5>1 DEF k
        <5> QED BY <5>1, <5>2
      <4> QED BY <4>1, <4>2
    <3> HIDE DEF k
    <3>4. h[k] = Merge(h[k - 1], s[k])
      BY <1>1, <3>2
    <3> QED BY <1>4, <3>2, <3>3, <3>4
  <2>2. CASE n = 0
    BY <1>1, <1>3, <2>2
  <2>3. CASE n # 0
    <3>1. n \in 1..n
      BY <1>2, <2>3
    <3> QED BY <2>1, <3>1
  <2> QED BY <2>2, <2>3
<1> QED BY <1>1, <1>5 DEF Right, n

----------------------------------------------------------------------------
(* The relay.                                                              *)

RelayTypes ==
  /\ journal \in Seq(Orders) /\ cursor \in Int /\ from \in Nat /\ queue \in Seq(OneNotice)
  /\ relay \in {"down", "up", "posting", "posted"}
  /\ \/ cursor = -1 /\ from = 0 /\ queue = <<>>
     \/ from <= cursor /\ cursor <= Len(journal)

RowsTold == \A o \in Orders : Told(queue, o) = Cardinality(FillsOf(o))

\* What was not pending was tried, and so was what the chat may have seen: no row is
\* merged into it any more.
TriedOnly == \A k \in DOMAIN queue : queue[k].st # "pending" => queue[k].tries > 0
SeenTried == \A a \in accepted : \E k \in DOMAIN queue : a = <<k, queue[k].n>> /\ queue[k].tries > 0

SentInOrder ==
  \A k \in DOMAIN queue : queue[k].st = "sent" => <<k, queue[k].n>> \in accepted
                                                  /\ \A j \in 1..k : queue[j].st = "sent"

\* While a notice is posted it is the oldest that is not sent.
PostingTrue ==
  /\ relay \in {"posting", "posted"} => Unsent # {} /\ queue[Head1].st = "sending"
  /\ relay = "posted" => <<Head1, queue[Head1].n>> \in accepted

RelayInv == RelayTypes /\ RowsTold /\ TriedOnly /\ SeenTried /\ SentInOrder /\ PostingTrue

\* The first that is not sent.
LEMMA HeadOfUnsent ==
    ASSUME queue \in Seq(OneNotice), Unsent # {}
    PROVE  Head1 \in Unsent /\ Head1 \in DOMAIN queue /\ \A j \in 1..Head1 : j # Head1 => queue[j].st = "sent"
<1> DEFINE l == Len(queue)
           S == Unsent
<1>1. DOMAIN queue = 1..l /\ l \in Nat
  OBVIOUS
<1>2. S \in SUBSET (1..l) /\ S # {}
  BY <1>1 DEF Unsent
<1> HIDE DEF l, S
<1>3. Min(S) \in S /\ \A j \in S : Min(S) <= j
  BY <1>1, <1>2, LeastElement
<1>4. Head1 \in Unsent /\ Head1 \in 1..l /\ \A j \in Unsent : Head1 <= j
  BY <1>2, <1>3 DEF S, Head1
<1>5. ASSUME NEW j \in 1..Head1, j # Head1 PROVE queue[j].st = "sent"
  <2>1. j \in 1..l /\ ~(Head1 <= j)
    BY <1>1, <1>4, <1>5
  <2> QED BY <1>1, <1>4, <2>1 DEF Unsent
<1> QED BY <1>1, <1>4, <1>5

\* A notice whose state changes tells what it told.
LEMMA Relabeled ==
    ASSUME NEW q, NEW r, DOMAIN r = DOMAIN q, \A k \in DOMAIN q : r[k].n = q[k].n /\ r[k].order = q[k].order
    PROVE  \A p : Told(r, p) = Told(q, p)
<1>1. Counts(r) = Counts(q)
  BY DEF Counts
<1>2. \A p : Whose(r, p) = Whose(q, p)
  BY DEF Whose
<1>3. \A p : Told(r, p) = SumFunctionOnSet(Counts(r), Whose(r, p)) /\ Told(q, p) = SumFunctionOnSet(Counts(q), Whose(q, p))
  BY Zenon DEF Told, Counts, Whose
<1> QED BY <1>1, <1>2, <1>3

\* How many fills of an order the journal has after place f, up to place u.
Booked(f, u, p) == Cardinality({i \in f + 1..u : journal[i] = p})

\* The rows between two cursors.
LEMMA RowsBetween ==
    ASSUME journal \in Seq(Orders), NEW f \in Nat, NEW c \in Nat, NEW u \in Nat,
           f <= c, c < u, u <= Len(journal), NEW p
    PROVE  /\ SubSeq(journal, c + 1, u) \in Seq(Orders)
           /\ Booked(f, u, p) = Booked(f, c, p)
                  + RowsOf(SubSeq(journal, c + 1, u), p, Len(SubSeq(journal, c + 1, u)))
<1> DEFINE s == SubSeq(journal, c + 1, u)
           m == Len(s)
           A == {i \in f + 1..c : journal[i] = p}
           B == {i \in c + 1..u : journal[i] = p}
           C == {i \in 1..m : s[i] = p}
           g == [i \in C |-> c + i]
<1>1. s \in Seq(Orders) /\ m = u - c /\ m \in Nat /\ \A i \in 1..m : s[i] = journal[c + i]
  OBVIOUS
<1>2. {i \in f + 1..u : journal[i] = p} = A \union B /\ A \intersect B = {}
  OBVIOUS
<1> HIDE DEF s, m
<1>3. IsFiniteSet(A) /\ IsFiniteSet(C)
  <2>1. IsFiniteSet(f + 1..c) /\ IsFiniteSet(1..m)
    BY <1>1, FS_Interval
  <2>2. A \subseteq f + 1..c /\ C \subseteq 1..m
    OBVIOUS
  <2> HIDE DEF A, C
  <2> QED BY <2>1, <2>2, FS_Subset
<1>4. g \in Bijection(C, B)
  <2>1. g \in [C -> B]
    <3> SUFFICES ASSUME NEW i \in C PROVE c + i \in B
      OBVIOUS
    <3>1. i \in 1..m /\ c + i \in c + 1..u
      BY <1>1
    <3> QED BY <1>1, <3>1
  <2>2. \A i, j \in C : g[i] = g[j] => i = j
    BY <1>1
  <2>3. ASSUME NEW j \in B PROVE \E i \in C : g[i] = j
    <3>1. j - c \in 1..m /\ c + (j - c) = j /\ journal[j] = p
      BY <1>1
    <3>2. j - c \in C
      BY <1>1, <3>1
    <3> QED BY <3>1, <3>2
  <2> HIDE DEF g, B, C
  <2> QED BY <2>1, <2>2, <2>3 DEF Bijection, Injection, Surjection, IsInjective
<1> HIDE DEF A, B, C, g
<1>5. IsFiniteSet(B) /\ Cardinality(B) = Cardinality(C)
  BY <1>3, <1>4, FS_Bijection DEF ExistsBijection
<1>6. Cardinality(A \union B) = Cardinality(A) + Cardinality(B)
  <2>1. Cardinality(A \union B) = Cardinality(A) + Cardinality(B) - Cardinality(A \intersect B)
    BY <1>3, <1>5, FS_Union
  <2>2. Cardinality(A \intersect B) = 0 /\ Cardinality(A) \in Nat /\ Cardinality(B) \in Nat
    BY <1>2, <1>3, <1>5, FS_EmptySet, FS_CardinalityType
  <2> QED BY <2>1, <2>2
<1>7. Cardinality(C) = RowsOf(s, p, Len(s))
  BY DEF C, RowsOf, m
<1> QED BY <1>1, <1>2, <1>5, <1>6, <1>7 DEF s, A, m, Booked

\* A queue whose notices changed their state is one of the kind.
LEMMA QueueKept ==
    ASSUME queue \in Seq(OneNotice), DOMAIN queue' = DOMAIN queue,
           queue' = [k \in DOMAIN queue |-> queue'[k]],
           \A k \in DOMAIN queue : /\ queue'[k] \in OneNotice /\ queue'[k].n = queue[k].n
                                   /\ queue'[k].order = queue[k].order /\ queue'[k].tries >= queue[k].tries
    PROVE  /\ queue' \in Seq(OneNotice) /\ Len(queue') = Len(queue)
           /\ \A p : Told(queue', p) = Told(queue, p)
<1>1. DOMAIN queue = 1..Len(queue) /\ Len(queue) \in Nat
  OBVIOUS
<1>2. queue' \in [1..Len(queue) -> OneNotice]
  BY <1>1
<1>3. queue' \in Seq(OneNotice) /\ Len(queue') = Len(queue)
  BY <1>1, <1>2
<1>4. \A p : Told(queue', p) = Told(queue, p)
  <2> DEFINE r == queue'
  <2>1. DOMAIN r = DOMAIN queue /\ \A k \in DOMAIN queue : r[k].n = queue[k].n /\ r[k].order = queue[k].order
    OBVIOUS
  <2> HIDE DEF r
  <2>2. \A p : Told(r, p) = Told(queue, p)
    BY <2>1, Relabeled
  <2> QED BY <2>2 DEF r
<1> QED BY <1>3, <1>4

\* What a step that leaves the journal and the cursor, and relabels notices, keeps.
LEMMA RelabelsKeep ==
    ASSUME RelayInv, UNCHANGED <<journal, cursor, from>>, DOMAIN queue' = DOMAIN queue,
           queue' = [k \in DOMAIN queue |-> queue'[k]],
           \A k \in DOMAIN queue : /\ queue'[k] \in OneNotice /\ queue'[k].n = queue[k].n
                                   /\ queue'[k].order = queue[k].order /\ queue'[k].tries >= queue[k].tries,
           relay' \in {"down", "up", "posting", "posted"},
           \A a \in accepted' : a \in accepted \/ \E k \in DOMAIN queue : a = <<k, queue[k].n>> /\ queue[k].tries > 0
    PROVE  RelayTypes' /\ RowsTold' /\ SeenTried'
<1>1. queue \in Seq(OneNotice)
  BY DEF RelayInv, RelayTypes
<1>2. queue' \in Seq(OneNotice) /\ Len(queue') = Len(queue) /\ \A p : Told(queue', p) = Told(queue, p)
  BY <1>1, QueueKept
<1>3. RelayTypes'
  <2>1. queue = <<>> => queue' = <<>>
    BY <1>1, <1>2
  <2> QED BY <1>2, <2>1 DEF RelayInv, RelayTypes
<1>4. RowsTold'
  <2> SUFFICES ASSUME NEW o \in Orders PROVE Told(queue', o) = Cardinality(FillsOf(o)')
    BY DEF RowsTold
  <2>1. FillsOf(o)' = FillsOf(o) /\ Told(queue, o) = Cardinality(FillsOf(o))
    BY DEF FillsOf, RelayInv, RowsTold
  <2> QED BY <1>2, <2>1
<1>5. SeenTried'
  <2> SUFFICES ASSUME NEW a \in accepted'
               PROVE  \E k \in DOMAIN queue' : a = <<k, queue'[k].n>> /\ queue'[k].tries > 0
    BY DEF SeenTried
  <2>1. PICK k \in DOMAIN queue : a = <<k, queue[k].n>> /\ queue[k].tries > 0
    BY DEF RelayInv, SeenTried
  <2>2. queue[k] \in OneNotice /\ queue'[k] \in OneNotice
    BY <1>1
  <2>3. queue[k].tries \in Nat /\ queue'[k].tries \in Nat /\ queue'[k].tries >= queue[k].tries
    BY <2>2 DEF OneNotice
  <2>4. queue'[k].tries > 0
    BY <2>1, <2>3
  <2> QED BY <2>1, <2>4
<1> QED BY <1>3, <1>4, <1>5

\* A fill is booked.
LEMMA BooksKeep == RelayInv /\ Books => RelayInv'
<1> SUFFICES ASSUME RelayInv, Books PROVE RelayInv'
  OBVIOUS
<1>1. PICK o \in Orders : journal' = Append(journal, o) /\ UNCHANGED <<cursor, from, queue, relay, accepted>>
  BY DEF Books
<1>2. journal \in Seq(Orders) /\ cursor \in Int /\ from \in Nat
      /\ \/ cursor = -1 /\ from = 0 /\ queue = <<>>
         \/ from <= cursor /\ cursor <= Len(journal)
  BY DEF RelayInv, RelayTypes
<1>3. /\ journal' \in Seq(Orders) /\ Len(journal') = Len(journal) + 1 /\ Len(journal) \in Nat
      /\ \A i \in 1..Len(journal) : journal'[i] = journal[i]
  BY <1>1, <1>2
<1>4. RelayTypes'
  BY <1>1, <1>2, <1>3 DEF RelayInv, RelayTypes
<1>5. RowsTold'
  <2> SUFFICES ASSUME NEW p \in Orders PROVE Told(queue, p) = Cardinality(FillsOf(p)')
    BY <1>1 DEF RowsTold
  <2>1. from + 1..cursor \subseteq 1..Len(journal)
    BY <1>2, <1>3
  <2>2. FillsOf(p)' = FillsOf(p)
    BY <1>1, <1>3, <2>1 DEF FillsOf
  <2> QED BY <2>2 DEF RelayInv, RowsTold
<1>6. Unsent' = Unsent /\ Head1' = Head1
  BY <1>1 DEF Unsent, Head1
<1>7. TriedOnly' /\ SeenTried' /\ SentInOrder' /\ PostingTrue'
  BY <1>1, <1>6 DEF RelayInv, TriedOnly, SeenTried, SentInOrder, PostingTrue
<1> QED BY <1>4, <1>5, <1>7 DEF RelayInv

\* The relay starts: what was being posted is pending.
LEMMA StartsKeep == RelayInv /\ StartsRelay => RelayInv'
<1> SUFFICES ASSUME RelayInv, StartsRelay PROVE RelayInv'
  OBVIOUS
<1>1. /\ relay' = "up" /\ UNCHANGED <<journal, cursor, from, accepted>>
      /\ queue' = [k \in DOMAIN queue |-> IF queue[k].st = "sending" THEN [queue[k] EXCEPT !.st = "pending"]
                                          ELSE queue[k]]
  BY DEF StartsRelay
<1>2. \A k \in DOMAIN queue : queue[k] \in OneNotice
  BY DEF RelayInv, RelayTypes
<1>3. ASSUME NEW k \in DOMAIN queue
      PROVE  /\ queue'[k] \in OneNotice /\ queue'[k].n = queue[k].n /\ queue'[k].tries = queue[k].tries
             /\ queue'[k].tries >= queue[k].tries /\ queue'[k].order = queue[k].order
             /\ queue'[k].st # "sending" /\ (queue'[k].st = "sent" <=> queue[k].st = "sent")
  <2>1. queue[k].tries \in Nat /\ queue[k] \in OneNotice
    BY <1>2 DEF OneNotice
  <2>2. queue[k].tries >= queue[k].tries
    BY <2>1
  <2> QED BY <1>1, <2>1, <2>2 DEF OneNotice
<1>4. DOMAIN queue' = DOMAIN queue /\ queue' = [k \in DOMAIN queue |-> queue'[k]]
  BY <1>1
<1>5. RelayTypes' /\ RowsTold' /\ SeenTried'
  BY <1>1, <1>3, <1>4, RelabelsKeep
<1>6. TriedOnly'
  BY <1>2, <1>3, <1>4 DEF RelayInv, TriedOnly, OneNotice
<1>7. SentInOrder'
  <2> SUFFICES ASSUME NEW k \in DOMAIN queue, queue'[k].st = "sent"
               PROVE  <<k, queue'[k].n>> \in accepted' /\ \A j \in 1..k : queue'[j].st = "sent"
    BY <1>4 DEF SentInOrder
  <2>1. <<k, queue[k].n>> \in accepted /\ \A j \in 1..k : queue[j].st = "sent"
    BY <1>3 DEF RelayInv, SentInOrder
  <2>2. 1..k \subseteq DOMAIN queue
    BY DEF RelayInv, RelayTypes
  <2> QED BY <1>1, <1>3, <2>1, <2>2
<1>8. PostingTrue'
  BY <1>1 DEF PostingTrue
<1> QED BY <1>5, <1>6, <1>7, <1>8 DEF RelayInv

\* The relay dies.
LEMMA CrashKeeps == RelayInv /\ CrashRelay => RelayInv'
<1> SUFFICES ASSUME RelayInv, CrashRelay PROVE RelayInv'
  OBVIOUS
<1>1. relay' = "down" /\ UNCHANGED <<journal, cursor, from, queue, accepted>>
  BY DEF CrashRelay
<1>2. \A p : FillsOf(p)' = FillsOf(p)
  BY <1>1 DEF FillsOf
<1>3. RelayTypes' /\ RowsTold'
  BY <1>1, <1>2 DEF RelayInv, RelayTypes, RowsTold
<1> QED BY <1>1, <1>3 DEF RelayInv, TriedOnly, SeenTried, SentInOrder, PostingTrue

\* The first poll tells of the connection alone.
LEMMA FirstPollKeeps == RelayInv /\ FirstPoll => RelayInv'
<1> SUFFICES ASSUME RelayInv, FirstPoll PROVE RelayInv'
  OBVIOUS
<1>1. /\ relay = "up" /\ cursor = -1 /\ cursor' = Len(journal) /\ from' = Len(journal)
      /\ queue' = Append(queue, Notice("boot", 0)) /\ UNCHANGED <<journal, relay, accepted>>
  BY DEF FirstPoll
<1>2. journal \in Seq(Orders) /\ Len(journal) \in Nat /\ queue = <<>>
  BY <1>1 DEF RelayInv, RelayTypes
<1> DEFINE x == Notice("boot", 0)
<1>3. x \in OneNotice /\ x.n = 0 /\ x.st = "pending"
  BY DEF Notice, OneNotice
<1> HIDE DEF x
<1>4. queue' = <<x>> /\ queue' \in Seq(OneNotice) /\ DOMAIN queue' = {1} /\ queue'[1] = x
  BY <1>1, <1>2, <1>3 DEF x
<1>5. RelayTypes'
  BY <1>1, <1>2, <1>4 DEF RelayInv, RelayTypes
<1>6. RowsTold'
  <2> SUFFICES ASSUME NEW o \in Orders PROVE Told(queue', o) = Cardinality(FillsOf(o)')
    BY DEF RowsTold
  <2>1. FillsOf(o)' = {}
    <3>1. Len(journal) + 1..Len(journal) = {}
      BY <1>2
    <3> QED BY <1>1, <3>1 DEF FillsOf
  <2>2. Told(queue', o) = 0
    <3> DEFINE q == queue'
    <3>1. q \in Seq(OneNotice) /\ DOMAIN q = {1} /\ q[1].n = 0
      BY <1>3, <1>4
    <3> HIDE DEF q
    <3>2. \A k \in Whose(q, o) : Counts(q)[k] = 0
      BY <3>1 DEF Whose, Counts
    <3>3. Told(q, o) = 0
      BY <3>1, <3>2, NoticesFinite, SumOfZeros
    <3> QED BY <3>3 DEF q
  <2> QED BY <2>1, <2>2, FS_EmptySet
<1>7. accepted = {}
  BY <1>2 DEF RelayInv, SeenTried
<1>8. TriedOnly' /\ SeenTried' /\ SentInOrder' /\ PostingTrue'
  BY <1>1, <1>3, <1>4, <1>7 DEF TriedOnly, SeenTried, SentInOrder, PostingTrue
<1> QED BY <1>5, <1>6, <1>8 DEF RelayInv

\* A poll merges what it read, and nothing the chat may have seen changes.
LEMMA PollKeeps == RelayInv /\ Poll => RelayInv'
<1> SUFFICES ASSUME RelayInv, Poll PROVE RelayInv'
  OBVIOUS
<1>1. PICK upTo \in cursor + 1..Len(journal) :
        /\ queue' = FoldLeft(Merge, queue, SubSeq(journal, cursor + 1, upTo))
        /\ cursor' = upTo
  BY DEF Poll
<1>2. relay = "up" /\ cursor >= 0 /\ UNCHANGED <<journal, from, relay, accepted>>
  BY DEF Poll
<1>3. /\ journal \in Seq(Orders) /\ Len(journal) \in Nat /\ from \in Nat /\ queue \in Seq(OneNotice)
      /\ cursor \in Nat /\ from <= cursor /\ upTo \in Nat /\ cursor < upTo /\ upTo <= Len(journal)
      /\ cursor <= Len(journal) /\ from <= upTo
  BY <1>1, <1>2 DEF RelayInv, RelayTypes
<1> DEFINE s == SubSeq(journal, cursor + 1, upTo)
           r == Merged(queue, s)
<1>4. s \in Seq(Orders)
  BY <1>3, RowsBetween
<1>5. queue' = r
  BY <1>1, Zenon DEF Merged
<1> HIDE DEF s
<1>6. Grown(queue, r) /\ \A p : Told(r, p) = Told(queue, p) + RowsOf(s, p, Len(s))
  BY <1>3, <1>4, MergeRows
<1> HIDE DEF r
<1>7. /\ r \in Seq(OneNotice) /\ Len(queue) \in Nat /\ Len(r) \in Nat /\ Len(queue) <= Len(r)
      /\ DOMAIN queue = 1..Len(queue) /\ DOMAIN r = 1..Len(r)
      /\ \A k \in DOMAIN queue : /\ r[k].st = queue[k].st /\ r[k].tries = queue[k].tries
                                 /\ ~MayGrow(queue[k]) => r[k] = queue[k]
      /\ \A k \in DOMAIN r : k \in DOMAIN queue \/ r[k].st = "pending"
  <2>1. r \in Seq(OneNotice) /\ Len(queue) <= Len(r)
    BY <1>6 DEF Grown
  <2>2. Len(queue) \in Nat /\ Len(r) \in Nat /\ DOMAIN queue = 1..Len(queue) /\ DOMAIN r = 1..Len(r)
    BY <1>3, <2>1
  <2>3. \A k \in 1..Len(r) : k \in 1..Len(queue) \/ k \in Len(queue) + 1..Len(r)
    BY <2>2
  <2> QED BY <1>6, <2>1, <2>2, <2>3 DEF Grown
<1>8. \A k \in DOMAIN queue : queue[k].tries > 0 => r[k] = queue[k]
  <2>1. \A k \in DOMAIN queue : queue[k] \in OneNotice
    BY <1>3
  <2>2. \A n \in Nat : n > 0 => n # 0
    OBVIOUS
  <2> QED BY <1>7, <2>1, <2>2 DEF MayGrow, OneNotice
<1>9. RelayTypes'
  BY <1>1, <1>2, <1>3, <1>5, <1>7 DEF RelayInv, RelayTypes
<1>10. RowsTold'
  <2> SUFFICES ASSUME NEW p \in Orders PROVE Told(queue', p) = Cardinality(FillsOf(p)')
    BY DEF RowsTold
  <2>1. Booked(from, upTo, p) = Booked(from, cursor, p) + RowsOf(s, p, Len(s))
    BY <1>3, RowsBetween DEF s
  <2>2. Cardinality(FillsOf(p)) = Booked(from, cursor, p) /\ Cardinality(FillsOf(p)') = Booked(from, upTo, p)
    BY <1>1, <1>2 DEF FillsOf, Booked
  <2>3. Told(queue, p) = Cardinality(FillsOf(p))
    BY DEF RelayInv, RowsTold
  <2>4. Told(r, p) = Told(queue, p) + RowsOf(s, p, Len(s))
    BY <1>6
  <2>5. Told(r, p) = Cardinality(FillsOf(p)')
    BY <2>1, <2>2, <2>3, <2>4, Zenon
  <2> QED BY <1>5, <2>5, Zenon
<1>11. TriedOnly'
  <2>1. \A k \in DOMAIN r : r[k].st # "pending" => r[k].tries > 0
    BY <1>7 DEF RelayInv, TriedOnly
  <2> QED BY <1>5, <2>1 DEF TriedOnly
<1>12. SeenTried'
  <2>1. \A k \in DOMAIN queue : k \in DOMAIN r
    BY <1>7
  <2>2. \A a \in accepted : \E k \in DOMAIN r : a = <<k, r[k].n>> /\ r[k].tries > 0
    BY <1>8, <2>1 DEF RelayInv, SeenTried
  <2> QED BY <1>2, <1>5, <2>2 DEF SeenTried
<1>13. SentInOrder'
  <2>1. ASSUME NEW k \in DOMAIN r, r[k].st = "sent"
        PROVE  <<k, r[k].n>> \in accepted /\ \A j \in 1..k : r[j].st = "sent"
    <3>1. k \in DOMAIN queue /\ queue[k].st = "sent"
      BY <1>7, <2>1
    <3>2. queue[k].tries > 0 /\ r[k] = queue[k]
      BY <1>8, <3>1 DEF RelayInv, TriedOnly
    <3>3. <<k, queue[k].n>> \in accepted /\ \A j \in 1..k : queue[j].st = "sent"
      BY <3>1 DEF RelayInv, SentInOrder
    <3>4. 1..k \subseteq DOMAIN queue
      BY <1>7, <3>1
    <3> QED BY <1>7, <3>2, <3>3, <3>4
  <2> QED BY <1>2, <1>5, <2>1 DEF SentInOrder
<1>14. PostingTrue'
  BY <1>2 DEF PostingTrue
<1> QED BY <1>9, <1>10, <1>11, <1>12, <1>13, <1>14 DEF RelayInv

\* An attempt is written down before it is made.
LEMMA AttemptsKeep == RelayInv /\ Attempts => RelayInv'
<1> SUFFICES ASSUME RelayInv, Attempts PROVE RelayInv'
  OBVIOUS
<1> DEFINE h == Head1
<1>1. /\ Unsent # {} /\ relay' = "posting" /\ UNCHANGED <<journal, cursor, from, accepted>>
      /\ queue' = [queue EXCEPT ![h].st = "sending", ![h].tries = @ + 1]
  BY DEF Attempts
<1>2. queue \in Seq(OneNotice) /\ \A k \in DOMAIN queue : queue[k] \in OneNotice
  BY DEF RelayInv, RelayTypes
<1>3. h \in Unsent /\ h \in DOMAIN queue /\ queue[h].st # "sent"
  BY <1>1, <1>2, HeadOfUnsent DEF Unsent
<1> HIDE DEF h
<1>4. DOMAIN queue' = DOMAIN queue /\ queue' = [k \in DOMAIN queue |-> queue'[k]]
      /\ \A k \in DOMAIN queue : k # h => queue'[k] = queue[k]
  BY <1>1
<1>5. /\ queue'[h] \in OneNotice /\ queue'[h].n = queue[h].n /\ queue'[h].order = queue[h].order
      /\ queue'[h].tries >= queue[h].tries /\ queue'[h].tries > 0 /\ queue'[h].st = "sending"
  <2> DEFINE c == queue[h].tries + 1
  <2>1. queue[h] \in OneNotice /\ queue[h].tries \in Nat
    BY <1>2, <1>3 DEF OneNotice
  <2>2. c \in Nat /\ c >= queue[h].tries /\ c > 0
    BY <2>1
  <2>3. queue'[h] = [queue[h] EXCEPT !.st = "sending", !.tries = c]
    BY <1>1, <1>2, <1>3
  <2> HIDE DEF c
  <2> QED BY <2>1, <2>2, <2>3 DEF OneNotice
<1>6. \A k \in DOMAIN queue : /\ queue'[k] \in OneNotice /\ queue'[k].n = queue[k].n
                              /\ queue'[k].order = queue[k].order /\ queue'[k].tries >= queue[k].tries
  <2>1. \A k \in DOMAIN queue : queue[k].tries >= queue[k].tries
    BY <1>2 DEF OneNotice
  <2> QED BY <1>2, <1>4, <1>5, <2>1
<1>7. RelayTypes' /\ RowsTold' /\ SeenTried'
  <2>1. \A a \in accepted' : a \in accepted
    BY <1>1
  <2>2. relay' \in {"down", "up", "posting", "posted"}
    BY <1>1
  <2>3. \A a \in accepted' : a \in accepted \/ \E k \in DOMAIN queue : a = <<k, queue[k].n>> /\ queue[k].tries > 0
    BY <2>1
  <2> QED BY <1>1, <1>4, <1>6, <2>2, <2>3, RelabelsKeep
<1>8. TriedOnly'
  BY <1>4, <1>5 DEF RelayInv, TriedOnly
<1>9. SentInOrder'
  <2> SUFFICES ASSUME NEW k \in DOMAIN queue, queue'[k].st = "sent"
               PROVE  <<k, queue'[k].n>> \in accepted /\ \A j \in 1..k : queue'[j].st = "sent"
    BY <1>1, <1>4 DEF SentInOrder
  <2>1. k # h /\ queue[k].st = "sent" /\ queue'[k] = queue[k]
    BY <1>4, <1>5
  <2>2. <<k, queue[k].n>> \in accepted /\ \A j \in 1..k : queue[j].st = "sent"
    BY <2>1 DEF RelayInv, SentInOrder
  <2>3. 1..k \subseteq DOMAIN queue
    BY <1>2
  <2> QED BY <1>3, <1>4, <2>1, <2>2, <2>3
<1>10. PostingTrue'
  <2>1. Unsent' = Unsent
    <3>1. \A k \in DOMAIN queue : queue'[k].st # "sent" <=> queue[k].st # "sent"
      BY <1>3, <1>4, <1>5
    <3> QED BY <1>4, <3>1 DEF Unsent
  <2>2. Head1' = h
    BY <2>1 DEF Head1, h
  <2> QED BY <1>1, <1>5, <2>1, <2>2 DEF PostingTrue
<1> QED BY <1>7, <1>8, <1>9, <1>10 DEF RelayInv

\* The chat sees the notice, and its answer arrives.
LEMMA AcknowledgedKeeps == RelayInv /\ Acknowledged => RelayInv'
<1> SUFFICES ASSUME RelayInv, Acknowledged PROVE RelayInv'
  OBVIOUS
<1>1. /\ relay = "posting" /\ relay' = "posted" /\ UNCHANGED <<journal, cursor, from, queue>>
      /\ accepted' = accepted \union {<<Head1, queue[Head1].n>>}
  BY DEF Acknowledged, Sees
<1>2. /\ Unsent # {} /\ queue[Head1].st = "sending" /\ queue \in Seq(OneNotice)
  BY <1>1 DEF RelayInv, PostingTrue, RelayTypes
<1>3. Head1 \in DOMAIN queue /\ queue[Head1].tries > 0
  <2>1. Head1 \in DOMAIN queue
    BY <1>2, HeadOfUnsent
  <2> QED BY <1>2, <2>1 DEF RelayInv, TriedOnly
<1>4. Unsent' = Unsent /\ Head1' = Head1 /\ \A p : FillsOf(p)' = FillsOf(p)
  BY <1>1 DEF Unsent, Head1, FillsOf
<1>5. SeenTried'
  BY <1>1, <1>3 DEF RelayInv, SeenTried
<1>6. RelayTypes' /\ RowsTold'
  BY <1>1, <1>4 DEF RelayInv, RelayTypes, RowsTold
<1>7. TriedOnly' /\ SentInOrder' /\ PostingTrue'
  BY <1>1, <1>2, <1>4 DEF RelayInv, TriedOnly, SentInOrder, PostingTrue
<1> QED BY <1>5, <1>6, <1>7 DEF RelayInv

\* No answer: the notice is pending again, seen or not; or it is sent.
LEMMA EndsKeep == RelayInv /\ (NotAcknowledged \/ Sent) => RelayInv'
<1> SUFFICES ASSUME RelayInv, NotAcknowledged \/ Sent PROVE RelayInv'
  OBVIOUS
<1> DEFINE h == Head1
<1>1. PICK to \in {"pending", "sent"} :
        /\ relay \in {"posting", "posted"} /\ relay' = "up" /\ UNCHANGED <<journal, cursor, from>>
        /\ queue' = [queue EXCEPT ![h].st = to]
        /\ accepted' = accepted \/ accepted' = accepted \union {<<h, queue[h].n>>}
        /\ to = "sent" => relay = "posted" /\ accepted' = accepted
  BY DEF NotAcknowledged, Sent, Sees
<1>2. queue \in Seq(OneNotice) /\ \A k \in DOMAIN queue : queue[k] \in OneNotice /\ queue[k].tries >= queue[k].tries
  <2>1. \A k \in DOMAIN queue : queue[k] \in OneNotice
    BY DEF RelayInv, RelayTypes
  <2> QED BY <2>1 DEF RelayInv, RelayTypes, OneNotice
<1>3. /\ h \in DOMAIN queue /\ queue[h].st = "sending" /\ queue[h].tries > 0
      /\ \A j \in 1..h : j # h => queue[j].st = "sent"
      /\ to = "sent" => <<h, queue[h].n>> \in accepted
  <2>1. Unsent # {} /\ queue[h].st = "sending"
    BY <1>1 DEF RelayInv, PostingTrue
  <2>2. h \in DOMAIN queue /\ \A j \in 1..h : j # h => queue[j].st = "sent"
    BY <1>2, <2>1, HeadOfUnsent
  <2> QED BY <1>1, <2>1, <2>2 DEF RelayInv, TriedOnly, PostingTrue
<1> HIDE DEF h
<1>4. DOMAIN queue' = DOMAIN queue /\ queue' = [k \in DOMAIN queue |-> queue'[k]]
      /\ (\A k \in DOMAIN queue : k # h => queue'[k] = queue[k]) /\ queue'[h] = [queue[h] EXCEPT !.st = to]
  BY <1>1, <1>2, <1>3
<1>5. /\ queue'[h] \in OneNotice /\ queue'[h].n = queue[h].n /\ queue'[h].order = queue[h].order
      /\ queue'[h].tries = queue[h].tries /\ queue'[h].st = to
  BY <1>2, <1>3, <1>4 DEF OneNotice
<1>6. \A k \in DOMAIN queue : /\ queue'[k] \in OneNotice /\ queue'[k].n = queue[k].n
                              /\ queue'[k].order = queue[k].order /\ queue'[k].tries >= queue[k].tries
  BY <1>2, <1>4, <1>5
<1>7. RelayTypes' /\ RowsTold' /\ SeenTried'
  <2>1. \A a \in accepted' : a \in accepted \/ \E k \in DOMAIN queue : a = <<k, queue[k].n>> /\ queue[k].tries > 0
    BY <1>1, <1>3
  <2>2. relay' \in {"down", "up", "posting", "posted"}
    BY <1>1
  <2> QED BY <1>1, <1>4, <1>6, <2>1, <2>2, RelabelsKeep
<1>8. TriedOnly'
  BY <1>3, <1>4, <1>5 DEF RelayInv, TriedOnly
<1>9. SentInOrder'
  <2> SUFFICES ASSUME NEW k \in DOMAIN queue, queue'[k].st = "sent"
               PROVE  <<k, queue'[k].n>> \in accepted' /\ \A j \in 1..k : queue'[j].st = "sent"
    BY <1>4 DEF SentInOrder
  <2>1. 1..k \subseteq DOMAIN queue
    BY <1>2
  <2>2. CASE k = h
    <3>1. to = "sent" /\ <<h, queue'[h].n>> \in accepted
      BY <1>3, <1>5, <2>2
    <3> QED BY <1>1, <1>3, <1>4, <1>5, <2>1, <2>2, <3>1
  <2>3. CASE k # h
    <3>1. <<k, queue[k].n>> \in accepted /\ \A j \in 1..k : queue[j].st = "sent"
      BY <1>4, <2>3 DEF RelayInv, SentInOrder
    <3>2. h \notin 1..k
      BY <1>3, <3>1
    <3> QED BY <1>1, <1>4, <2>1, <2>3, <3>1, <3>2
  <2> QED BY <2>2, <2>3
<1>10. PostingTrue'
  BY <1>1 DEF PostingTrue
<1> QED BY <1>7, <1>8, <1>9, <1>10 DEF RelayInv

\* Every fill booked since the relay first connected stands in one notice, once; and
\* what the chat may have seen of a notice is all there will ever be in it.
THEOREM NoticesHold == RelaySpec => []NoticesTellFills
<1>1. RelayInit => RelayInv
  <2> SUFFICES ASSUME RelayInit PROVE RelayInv
    OBVIOUS
  <2>1. /\ journal = <<>> /\ cursor = -1 /\ from = 0 /\ queue = <<>> /\ relay = "down" /\ accepted = {}
    BY DEF RelayInit
  <2>2. <<>> \in Seq(OneNotice) /\ DOMAIN <<>> = {} /\ 0 + 1..-1 = {}
    OBVIOUS
  <2>3. \A o : Told(queue, o) = 0 /\ FillsOf(o) = {}
    <3> TAKE o
    <3>1. Whose(queue, o) = {} /\ FillsOf(o) = {}
      BY <2>1, <2>2 DEF Whose, FillsOf
    <3>2. SumFunctionOnSet(Counts(queue), {}) = 0
      BY SumOfEmpty
    <3>3. Told(queue, o) = SumFunctionOnSet(Counts(queue), Whose(queue, o))
      BY Zenon DEF Told, Counts, Whose
    <3> QED BY <3>1, <3>2, <3>3
  <2>4. RowsTold
    BY <2>3, FS_EmptySet DEF RowsTold
  <2>5. RelayTypes
    BY <2>1, <2>2 DEF RelayTypes
  <2> QED BY <2>1, <2>2, <2>4, <2>5 DEF RelayInv, TriedOnly, SeenTried, SentInOrder, PostingTrue
<1>2. RelayInv /\ [RelayNext]_relayVars => RelayInv'
  <2> SUFFICES ASSUME RelayInv, [RelayNext]_relayVars PROVE RelayInv'
    OBVIOUS
  <2>1. CASE UNCHANGED relayVars
    BY <2>1 DEF relayVars, RelayInv, RelayTypes, RowsTold, FillsOf, TriedOnly, SeenTried, SentInOrder,
                PostingTrue, Unsent, Head1
  <2>2. CASE RelayNext
    BY <2>2, BooksKeep, StartsKeep, FirstPollKeeps, PollKeeps, AttemptsKeep, AcknowledgedKeeps, EndsKeep,
       CrashKeeps DEF RelayNext
  <2> QED BY <2>1, <2>2
<1>3. RelayInv => NoticesTellFills
  BY DEF RelayInv, RowsTold, SeenTried, SentInOrder, NoticesTellFills
<1> QED BY <1>1, <1>2, <1>3, PTL DEF RelaySpec
=============================================================================
