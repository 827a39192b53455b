----------------------------- MODULE A2OmsProofs -----------------------------
(***************************************************************************)
(* What A2Oms keeps for every number of orders, quantity, cancel limit and  *)
(* crashes: its types, that a reported sale is always in the lots, and the  *)
(* promise of OrderLedger.                                                  *)
(***************************************************************************)
EXTENDS A2Oms, TLAPS

\* TypeOK without the sign of the exchange's balance, which follows from
\* SaleWithinBooks and the balance of the books and not from the types.
Shapes ==
    /\ ord \in [Ids -> Order]
    /\ held \in Nat
    /\ campaign \in Ids \cup {NoId}
    /\ halted \in BOOLEAN
    /\ call \in [at : {"idle", "guard", "sent", "cancel"}, id : Ids \cup {NoId}]
    /\ wire \in SUBSET Ids
    /\ ex \in [Ids -> Row]
    /\ coins \in Int
    /\ crashes \in Nat

\* submit() refuses a second order of a side: the slots are exclusive.
OneActivePerSide == \A c, d \in Ids :
    IsActive(c) /\ IsActive(d) /\ Side(c) = Side(d) => c = d

ActiveHasRole == \A c \in Ids : IsActive(c) => ord[c].role \in Roles

\* An identifier out of use is out of use everywhere.
FreeIsClean == \A c \in Ids :
    ord[c].st = "none" => ord[c] = NoOrder /\ ex[c] = NoRow /\ c \notin wire

\* A request under way belongs to an order the exchange has not seen.
WireIsFresh == \A c \in wire : IsActive(c) /\ ex[c] = NoRow

\* The call in progress is about an order that is active.
CallIsActive ==
    /\ call.at = "guard" => call.id \in Ids /\ ord[call.id].st = "INTENT"
                            /\ ex[call.id] = NoRow /\ call.id \notin wire
    /\ call.at \in {"sent", "cancel"} => call.id \in Ids /\ IsActive(call.id)

\* What the exchange works is active; what is terminal is booked to the end.
VenueKnows == \A c \in Ids :
    /\ ex[c].st \in {"armed", "live"} => IsActive(c)
    /\ ex[c].st \in {"unseen", "refused"} => ex[c].done = 0
    /\ ord[c].st = "REJECTED" => ex[c].st \in {"unseen", "refused"}
    /\ ord[c].st = "DONE" => ex[c].st = "over"

FilledBetween == \A c \in Ids :
    /\ ord[c].filled <= ex[c].done /\ ex[c].done <= ord[c].qty
    /\ ~IsActive(c) => ex[c].done = ord[c].filled

\* The rest of a working sale is in the lots.
RestIsHeld == \A c \in Ids :
    IsActive(c) /\ Side(c) = "SELL" => ord[c].qty - ord[c].filled <= held

Structure ==
    /\ Shapes /\ OneActivePerSide /\ ActiveHasRole /\ FreeIsClean /\ WireIsFresh
    /\ CallIsActive /\ VenueKnows /\ FilledBetween /\ RestIsHeld

----------------------------------------------------------------------------

\* What the exchange may answer for an order.
LEMMA Statuses ==
    /\ \A c : Status(c) \in {"NOT_TRIGGERED", "LIVE", "DONE"}
    /\ \A c : Status(c) = "DONE" /\ Known(c) => ex[c].st = "over"
    /\ \A c : ex[c].st = "over" => Status(c) = "DONE"
    /\ \A c : ex[c].st \in {"armed", "live"} => Status(c) \in {"NOT_TRIGGERED", "LIVE"}
  BY DEF Status, Known

\* The initial state.
LEMMA InitStructure == Init => Structure
<1> SUFFICES ASSUME Init PROVE Structure
  OBVIOUS
<1>1. Shapes
  <2>1. 0 \in 0..MaxQty /\ 0 \in 0..CancelMax /\ MaxCrashes \in Nat
    BY OmsAssumption DEF OmsAssumption
  <2>2. NoOrder \in Order
    BY <2>1 DEF NoOrder, Order
  <2>3. NoRow \in Row
    BY <2>1 DEF NoRow, Row
  <2>4. ord \in [Ids -> Order] /\ ex \in [Ids -> Row]
    BY <2>2, <2>3 DEF Init
  <2>5. call \in [at : {"idle", "guard", "sent", "cancel"}, id : Ids \cup {NoId}]
    BY DEF Init, Idle
  <2>6. halted \in BOOLEAN
    BY DEF Init
  <2>7. wire \in SUBSET Ids /\ held \in Nat /\ coins \in Int /\ crashes \in Nat
        /\ campaign \in Ids \cup {NoId}
    BY <2>1 DEF Init
  <2> QED BY <2>4, <2>5, <2>6, <2>7 DEF Shapes
<1>2. /\ wire = {} /\ call.at = "idle"
      /\ \A c \in Ids : ord[c] = NoOrder /\ ex[c] = NoRow /\ ~IsActive(c)
  BY DEF Init, IsActive, Working, NoOrder, Idle
<1>3. FreeIsClean /\ VenueKnows /\ FilledBetween
  <2>1. /\ NoOrder.st = "none" /\ NoOrder.qty = 0 /\ NoOrder.filled = 0
        /\ NoRow.st = "unseen" /\ NoRow.done = 0
    BY DEF NoOrder, NoRow
  <2>2. FreeIsClean
    BY <1>2 DEF FreeIsClean
  <2>3. VenueKnows
    BY <1>2, <2>1 DEF VenueKnows
  <2>4. FilledBetween
    BY <1>2, <2>1 DEF FilledBetween
  <2> QED BY <2>2, <2>3, <2>4
<1>4. OneActivePerSide /\ ActiveHasRole /\ WireIsFresh /\ CallIsActive /\ RestIsHeld
  BY <1>2 DEF OneActivePerSide, ActiveHasRole, WireIsFresh, CallIsActive, RestIsHeld
<1> QED BY <1>1, <1>3, <1>4 DEF Structure

\* Steps of submit().
LEMMA SubmitStructure ==
    ASSUME Structure, NEW c \in Ids,
           \/ \E role \in Roles, q \in 1..MaxQty : SubmitIntent(c, role, q)
           \/ Expire(c) \/ Transmit(c) \/ AnswerOk(c) \/ AnswerRefused(c) \/ AnswerLost(c)
    PROVE  Structure'
<1> USE OmsAssumption DEF OmsAssumption
<1>1. ASSUME NEW role \in Roles, NEW q \in 1..MaxQty, SubmitIntent(c, role, q)
      PROVE  Structure'
  <2>1. Shapes'
    BY <1>1 DEF SubmitIntent, Structure, Shapes, Order, Roles, Working, Idle
  <2>2. ord'[c].st = "INTENT" /\ ord'[c].role = role /\ ord'[c].qty = q /\ ord'[c].filled = 0
    BY <1>1 DEF SubmitIntent, Structure, Shapes
  <2>3. \A d \in Ids : d # c => ord'[d] = ord[d]
    BY <1>1 DEF SubmitIntent, Structure, Shapes
  <2>4. ex[c] = NoRow /\ c \notin wire
    BY <1>1 DEF SubmitIntent, Structure, FreeIsClean, NoOrder
  <2>5. OneActivePerSide'
    BY <1>1, <2>2, <2>3 DEF SubmitIntent, SlotFree, Structure, OneActivePerSide, IsActive, Side
  <2>6. (ActiveHasRole /\ FreeIsClean /\ WireIsFresh)'
    BY <1>1, <2>2, <2>3, <2>4 DEF SubmitIntent, Structure, ActiveHasRole, FreeIsClean,
       WireIsFresh, IsActive, Working
  <2>7. CallIsActive'
    BY <1>1, <2>2, <2>4 DEF SubmitIntent, CallIsActive
  <2>8. (VenueKnows /\ FilledBetween)'
    BY <1>1, <2>2, <2>3, <2>4 DEF SubmitIntent, Structure, VenueKnows, FilledBetween,
       IsActive, Working, NoRow
  <2>9. RestIsHeld'
    BY <1>1, <2>2, <2>3 DEF SubmitIntent, Structure, RestIsHeld, IsActive, Side, SideOf, Roles, Shapes
  <2> QED BY <2>1, <2>5, <2>6, <2>7, <2>8, <2>9 DEF Structure
<1>2. CASE Transmit(c)
  <2>1. Shapes' /\ CallIsActive' /\ WireIsFresh'
    BY <1>2 DEF Transmit, Structure, Shapes, CallIsActive, WireIsFresh, IsActive, Working
  <2>2. FreeIsClean'
    BY <1>2 DEF Transmit, Structure, FreeIsClean, CallIsActive
  <2> QED
    BY <1>2, <2>1, <2>2 DEF Transmit, Structure, OneActivePerSide, ActiveHasRole, VenueKnows,
       FilledBetween, RestIsHeld, IsActive, Side
<1>3. ASSUME NEW st \in {"REJECTED", "SUBMITTED", "UNKNOWN"},
             ord' = [ord EXCEPT ![c].st = st], call' = Idle, IsActive(c),
             UNCHANGED <<held, campaign, halted, wire, ex, coins, crashes>>,
             st = "REJECTED" => c \notin wire /\ ex[c].st \in {"unseen", "refused"}
      PROVE  Structure'
  <2>1. Shapes'
    BY <1>3 DEF Structure, Shapes, Order, Working, Idle
  <2>2. /\ ord'[c].st = st /\ ord'[c].role = ord[c].role /\ ord'[c].qty = ord[c].qty
        /\ ord'[c].filled = ord[c].filled
        /\ \A d \in Ids : d # c => ord'[d] = ord[d]
    BY <1>3 DEF Structure, Shapes, Order
  <2>3. \A d \in Ids : IsActive(d)' => IsActive(d) /\ Side(d)' = Side(d)
    BY <1>3, <2>2 DEF IsActive, Side
  <2>4. st # "REJECTED" => \A d \in Ids : IsActive(d) => IsActive(d)'
    BY <1>3, <2>2 DEF IsActive, Working
  <2>5. OneActivePerSide'
    BY <2>3 DEF Structure, OneActivePerSide
  <2>6. ActiveHasRole' /\ RestIsHeld'
    BY <1>3, <2>2, <2>3 DEF Structure, ActiveHasRole, RestIsHeld
  <2>7. FreeIsClean'
    BY <1>3, <2>2 DEF Structure, FreeIsClean, IsActive, Working
  <2>8. WireIsFresh'
    BY <1>3, <2>2, <2>4 DEF Structure, Shapes, WireIsFresh, IsActive
  <2>9. CallIsActive'
    BY <1>3 DEF CallIsActive, Idle
  <2>10. VenueKnows'
    BY <1>3, <2>2 DEF Structure, VenueKnows, IsActive, Working
  <2>11. FilledBetween'
    <3>1. ~IsActive(c)' => ex[c].done = ord[c].filled
      BY <1>3, <2>2, <2>4 DEF Structure, Shapes, FilledBetween, VenueKnows, IsActive, Working, Order, Row
    <3> QED BY <1>3, <2>2, <3>1 DEF Structure, FilledBetween, IsActive
  <2> QED BY <2>1, <2>5, <2>6, <2>7, <2>8, <2>9, <2>10, <2>11 DEF Structure
<1>4. CASE Expire(c)
  BY <1>4, <1>3 DEF Expire, Structure, CallIsActive, IsActive, Working, NoRow
<1>5. CASE AnswerOk(c)
  BY <1>5, <1>3 DEF AnswerOk, Structure, CallIsActive
<1>6. CASE AnswerRefused(c)
  BY <1>6, <1>3 DEF AnswerRefused, Structure, CallIsActive, WireIsFresh, NoRow
<1>7. CASE AnswerLost(c)
  BY <1>7, <1>3 DEF AnswerLost, Structure, CallIsActive
<1> QED BY <1>1, <1>2, <1>4, <1>5, <1>6, <1>7

----------------------------------------------------------------------------

\* What Apply(c) does to the order, and to the lots.
LEMMA ApplyOrder ==
    ASSUME Structure, NEW c \in Ids, IsActive(c), Known(c), Apply(c)
    PROVE  /\ ord'[c].st = Status(c) /\ ord'[c].filled = ex[c].done
           /\ ord'[c].qty = ord[c].qty /\ ord'[c].role = ord[c].role
           /\ \A d \in Ids : d # c => ord'[d] = ord[d]
           /\ ord' \in [Ids -> Order]
           /\ held' \in Nat /\ campaign' \in Ids \cup {NoId}
           /\ Side(c) = "BUY"  => held' = held + (ex[c].done - ord[c].filled)
           /\ Side(c) = "SELL" => held' = held - (ex[c].done - ord[c].filled)
           /\ Side(c) \in {"BUY", "SELL"}
<1>1. /\ ord[c] \in Order /\ ex[c] \in Row
  BY DEF Structure, Shapes
<1>2. /\ ord[c].filled \in Nat /\ ord[c].qty \in Nat /\ ex[c].done \in Nat /\ held \in Nat
      /\ ex[c].done \in 0..MaxQty /\ ord[c].camp \in Ids \cup {NoId}
  BY <1>1, OmsAssumption DEF Order, Row, Structure, Shapes, OmsAssumption
<1>3. ord[c].filled <= ex[c].done /\ ex[c].done <= ord[c].qty
  BY DEF Structure, FilledBetween
<1>4. ord'[c] = [ord[c] EXCEPT !.st = Status(c), !.filled = ex[c].done]
      /\ \A d \in Ids : d # c => ord'[d] = ord[d]
  BY DEF Apply, Structure, Shapes
<1>5. ord'[c] \in Order
  BY <1>1, <1>2, <1>4, Statuses DEF Order, Working
<1>6. ord' \in [Ids -> Order]
  BY <1>4, <1>5 DEF Apply, Structure, Shapes
<1>7. ord'[c].st = Status(c) /\ ord'[c].filled = ex[c].done
      /\ ord'[c].qty = ord[c].qty /\ ord'[c].role = ord[c].role
  BY <1>1, <1>4 DEF Order
<1>8. /\ Side(c) = "BUY" <=> ord[c].role = "buy"
      /\ Side(c) = "SELL" <=> ord[c].role # "buy"
      /\ Side(c) \in {"BUY", "SELL"}
  BY DEF Structure, ActiveHasRole, Side, SideOf, Roles, SellRoles
<1>9. /\ Side(c) = "BUY"  => held' = held + (ex[c].done - ord[c].filled)
      /\ Side(c) = "SELL" => held' = held - (ex[c].done - ord[c].filled)
  BY <1>8 DEF Apply, NewFill
<1>10. Side(c) = "SELL" => ex[c].done - ord[c].filled <= held
  BY <1>2, <1>3 DEF Structure, RestIsHeld
<1>11. held' \in Nat
  BY <1>2, <1>3, <1>8, <1>9, <1>10
<1>12. campaign' \in Ids \cup {NoId}
  BY <1>2 DEF Apply, Structure, Shapes
<1> QED BY <1>4, <1>6, <1>7, <1>8, <1>9, <1>11, <1>12

\* reconcile() and the detail query of cancel() keep the structure.
LEMMA ApplyStructure ==
    ASSUME Structure, NEW c \in Ids, IsActive(c), Known(c), Apply(c),
           call' = Idle, halted' \in BOOLEAN,
           UNCHANGED <<wire, ex, coins, crashes>>
    PROVE  Structure'
<1>1. Shapes'
  BY ApplyOrder DEF Structure, Shapes, Idle
<1>2. \A d \in Ids : Side(d)' = Side(d) /\ (IsActive(d)' => IsActive(d))
  BY ApplyOrder DEF Side, IsActive
<1>3. OneActivePerSide' /\ ActiveHasRole' /\ CallIsActive'
  BY <1>2, ApplyOrder DEF Structure, OneActivePerSide, ActiveHasRole, CallIsActive, Idle
<1>4. ord'[c].st # "none" /\ ord'[c].st # "REJECTED"
  BY ApplyOrder, Statuses
<1>5. FreeIsClean'
  BY <1>4, ApplyOrder DEF Structure, FreeIsClean
<1>6. ex[c] # NoRow
  BY DEF Known, NoRow
<1>7. WireIsFresh'
  BY <1>6, ApplyOrder DEF Structure, Shapes, WireIsFresh, IsActive
<1>8. VenueKnows'
  BY <1>4, ApplyOrder, Statuses DEF Structure, VenueKnows, IsActive, Working
<1>9. FilledBetween'
  BY ApplyOrder DEF Structure, FilledBetween, IsActive, Shapes, Row, Order
<1>10. RestIsHeld'
  <2> SUFFICES ASSUME NEW d \in Ids, IsActive(d)', Side(d)' = "SELL"
               PROVE  ord'[d].qty - ord'[d].filled <= held'
    BY DEF RestIsHeld
  <2>1. /\ ord[d].qty - ord[d].filled <= held
        /\ ord[d].qty \in Nat /\ ord[d].filled \in Nat /\ held \in Nat
        /\ ord[c].filled \in Nat /\ ex[c].done \in Nat /\ ord[c].filled <= ex[c].done
    BY <1>2 DEF Structure, RestIsHeld, Shapes, Order, Row, FilledBetween
  <2>2. CASE d = c
    BY <2>1, <2>2, <1>2, ApplyOrder
  <2>3. CASE d # c
    <3>1. Side(c) = "BUY"
      BY <2>3, <1>2, ApplyOrder DEF Structure, OneActivePerSide
    <3> QED BY <3>1, <2>1, <2>3, ApplyOrder
  <2> QED BY <2>2, <2>3
<1> QED BY <1>1, <1>3, <1>5, <1>7, <1>8, <1>9, <1>10 DEF Structure

\* Reconciling, archiving and cancelling an order.
LEMMA ManageStructure ==
    ASSUME Structure, NEW c \in Ids,
           \/ Reconcile(c) \/ ReconcileOverdue(c) \/ Archive(c) \/ CancelStart(c) \/ CancelEnd(c)
    PROVE  Structure'
<1> USE OmsAssumption DEF OmsAssumption
<1>1. CASE Reconcile(c)
  BY <1>1, ApplyStructure DEF Reconcile, Structure, Shapes
<1>2. CASE ReconcileOverdue(c)
  BY <1>2 DEF ReconcileOverdue, Structure, Shapes, OneActivePerSide, ActiveHasRole, FreeIsClean,
     WireIsFresh, CallIsActive, VenueKnows, FilledBetween, RestIsHeld, IsActive, Side
<1>3. CASE Archive(c)
  <2>1. /\ ord'[c] = NoOrder /\ ex'[c] = NoRow /\ ~IsActive(c)
        /\ \A d \in Ids : d # c => ord'[d] = ord[d] /\ ex'[d] = ex[d]
    BY <1>3 DEF Archive, Structure, Shapes, IsActive, Working
  <2>2. c \notin wire
    BY <2>1 DEF Structure, WireIsFresh
  <2>3. Shapes'
    BY <1>3 DEF Archive, Structure, Shapes, NoOrder, NoRow, Order, Row
  <2>4. \A d \in Ids : IsActive(d)' => d # c
    BY <2>1 DEF IsActive, Working, NoOrder
  <2>5. OneActivePerSide' /\ ActiveHasRole' /\ RestIsHeld'
    BY <1>3, <2>1, <2>4 DEF Archive, Structure, OneActivePerSide, ActiveHasRole, RestIsHeld, IsActive, Side
  <2>6. FreeIsClean'
    BY <1>3, <2>1, <2>2 DEF Archive, Structure, FreeIsClean
  <2>7. WireIsFresh'
    BY <1>3, <2>1, <2>2 DEF Archive, Structure, Shapes, WireIsFresh, IsActive
  <2>8. CallIsActive'
    BY <1>3 DEF Archive, CallIsActive, Idle
  <2>9. VenueKnows'
    BY <2>1 DEF Structure, VenueKnows, IsActive, NoRow, NoOrder
  <2>10. FilledBetween'
    BY <2>1 DEF Structure, FilledBetween, IsActive, NoRow, NoOrder
  <2> QED BY <2>3, <2>5, <2>6, <2>7, <2>8, <2>9, <2>10 DEF Structure
<1>4. CASE CancelStart(c)
  <2>1. ord[c] \in Order
    BY DEF Structure, Shapes
  <2>2. PICK n \in 1..CancelMax : /\ ord'[c] = [ord[c] EXCEPT !.asked = n]
                                  /\ \A d \in Ids : d # c => ord'[d] = ord[d]
    BY <1>4 DEF CancelStart, Structure, Shapes
  <2>3. ord'[c] \in Order
    BY <2>1, <2>2, OmsAssumption DEF Order, OmsAssumption
  <2>4. Shapes'
    BY <1>4, <2>2, <2>3 DEF CancelStart, Structure, Shapes
  <2>5. \A d \in Ids : /\ ord'[d].st = ord[d].st /\ ord'[d].role = ord[d].role
                       /\ ord'[d].qty = ord[d].qty /\ ord'[d].filled = ord[d].filled
    BY <2>1, <2>2 DEF Order
  <2>6. FreeIsClean'
    BY <1>4, <2>2, <2>5 DEF CancelStart, Structure, FreeIsClean, IsActive, Working
  <2>7. CallIsActive'
    BY <1>4, <2>5 DEF CancelStart, CallIsActive, IsActive
  <2>8. WireIsFresh'
    BY <1>4, <2>5 DEF CancelStart, Structure, Shapes, WireIsFresh, IsActive
  <2>9. (OneActivePerSide /\ ActiveHasRole /\ VenueKnows /\ FilledBetween /\ RestIsHeld)'
    BY <1>4, <2>5 DEF CancelStart, Structure, OneActivePerSide, ActiveHasRole, VenueKnows,
       FilledBetween, RestIsHeld, IsActive, Side
  <2> QED BY <2>4, <2>6, <2>7, <2>8, <2>9 DEF Structure
<1>5. CASE CancelEnd(c)
  <2>1. halted' \in BOOLEAN
    BY <1>5 DEF CancelEnd
  <2>2. IsActive(c)
    BY <1>5 DEF CancelEnd, Structure, CallIsActive
  <2>3. CASE Known(c) /\ Apply(c)
    BY <1>5, <2>1, <2>2, <2>3, ApplyStructure DEF CancelEnd
  <2>4. CASE UNCHANGED <<ord, held, campaign>>
    BY <1>5, <2>1, <2>4 DEF CancelEnd, Structure, Shapes, OneActivePerSide, ActiveHasRole, FreeIsClean,
       WireIsFresh, CallIsActive, VenueKnows, FilledBetween, RestIsHeld, IsActive, Side, Idle
  <2> QED BY <1>5, <2>3, <2>4 DEF CancelEnd
<1> QED BY <1>1, <1>2, <1>3, <1>4, <1>5

\* What the exchange and the network do.
LEMMA VenueStructure ==
    ASSUME Structure, NEW c \in Ids, Venue(c)
    PROVE  Structure'
<1> USE OmsAssumption DEF OmsAssumption
<1>1. ASSUME NEW answer \in {"armed", "live", "refused"}, Arrive(c, answer)
      PROVE  Structure'
  <2>1. IsActive(c) /\ ex[c] = NoRow
    BY <1>1 DEF Arrive, Structure, WireIsFresh
  <2>2. /\ ex'[c].st = answer /\ ex'[c].done = 0
        /\ \A d \in Ids : d # c => ex'[d] = ex[d]
    BY <1>1, <2>1 DEF Arrive, Structure, Shapes, NoRow
  <2>3. Shapes'
    BY <1>1 DEF Arrive, Structure, Shapes, Row
  <2>4. FreeIsClean'
    BY <1>1, <2>1, <2>2 DEF Arrive, Structure, FreeIsClean, IsActive, Working
  <2>5. WireIsFresh'
    BY <1>1, <2>2 DEF Arrive, Structure, Shapes, WireIsFresh, IsActive
  <2>6. CallIsActive'
    BY <1>1, <2>2 DEF Arrive, Structure, CallIsActive, IsActive
  <2>7. VenueKnows' /\ FilledBetween'
    BY <1>1, <2>1, <2>2 DEF Arrive, Structure, VenueKnows, FilledBetween, IsActive, Working, NoRow
  <2>8. OneActivePerSide' /\ ActiveHasRole' /\ RestIsHeld'
    BY <1>1 DEF Arrive, Structure, OneActivePerSide, ActiveHasRole, RestIsHeld, IsActive, Side
  <2> QED BY <2>3, <2>4, <2>5, <2>6, <2>7, <2>8 DEF Structure
<1>2. CASE Lose(c)
  BY <1>2 DEF Lose, Structure, Shapes, OneActivePerSide, ActiveHasRole, FreeIsClean, WireIsFresh,
     CallIsActive, VenueKnows, FilledBetween, RestIsHeld, IsActive, Side
<1>3. ASSUME Trigger(c) \/ Execute(c) \/ Close(c)
      PROVE  Structure'
  <2>1. IsActive(c) /\ c \notin wire /\ ex[c] \in Row /\ ord[c] \in Order /\ ex[c] # NoRow
    BY <1>3 DEF Trigger, Execute, Close, Structure, Shapes, VenueKnows, WireIsFresh, NoRow
  <2>2. \A d \in Ids : d # c => ex'[d] = ex[d]
    BY <1>3 DEF Trigger, Execute, Close, Structure, Shapes
  <2>3. /\ ex'[c] \in Row /\ ex'[c].st \notin {"unseen", "refused"}
        /\ ord[c].filled <= ex'[c].done /\ ex'[c].done <= ord[c].qty
    <3>1. ord[c].filled <= ex[c].done /\ ex[c].done <= ord[c].qty
      BY DEF Structure, FilledBetween
    <3>2. CASE Trigger(c)
      BY <2>1, <3>1, <3>2 DEF Trigger, Structure, Shapes, Row
    <3>3. CASE Execute(c)
      <4>1. ex'[c].st = ex[c].st /\ ex'[c].done = ex[c].done + 1
        BY <2>1, <3>3 DEF Execute, Structure, Shapes, Row
      <4>2. ex[c].done \in Nat /\ ex[c].done + 1 <= ord[c].qty /\ ord[c].qty \in 0..MaxQty
            /\ ord[c].filled \in Nat
        BY <2>1, <3>3 DEF Execute, Row, Order
      <4>3. ex'[c] = [ex[c] EXCEPT !.done = @ + 1]
        BY <3>3 DEF Execute, Structure, Shapes
      <4>4. ex'[c] \in Row
        BY <2>1, <4>2, <4>3 DEF Row
      <4> QED BY <3>1, <3>3, <4>1, <4>2, <4>4 DEF Execute
    <3>4. CASE Close(c)
      BY <2>1, <3>1, <3>4 DEF Close, Structure, Shapes, Row
    <3> QED BY <1>3, <3>2, <3>3, <3>4
  <2>4. UNCHANGED <<ord, held, campaign, halted, call, wire, crashes>> /\ coins' \in Int
    BY <1>3 DEF Trigger, Execute, Close, Structure, Shapes
  <2>5. Shapes'
    <3>1. ex' \in [Ids -> Row]
      BY <1>3, <2>3 DEF Trigger, Execute, Close, Structure, Shapes
    <3> QED BY <2>4, <3>1 DEF Structure, Shapes
  <2>6. FreeIsClean'
    BY <2>1, <2>2, <2>4 DEF Structure, FreeIsClean, IsActive, Working
  <2>7. WireIsFresh' /\ CallIsActive'
    <3>1. WireIsFresh'
      BY <2>1, <2>2, <2>4 DEF Structure, Shapes, WireIsFresh, IsActive
    <3>2. call.at = "guard" => call.id # c
      BY <2>1 DEF Structure, CallIsActive
    <3> QED BY <2>2, <2>4, <3>1, <3>2 DEF Structure, CallIsActive, IsActive
  <2>8. VenueKnows'
    BY <2>1, <2>2, <2>3, <2>4 DEF Structure, VenueKnows, IsActive, Working
  <2>9. FilledBetween'
    BY <2>1, <2>2, <2>3, <2>4 DEF Structure, FilledBetween, IsActive
  <2>10. OneActivePerSide' /\ ActiveHasRole' /\ RestIsHeld'
    BY <2>4 DEF Structure, OneActivePerSide, ActiveHasRole, RestIsHeld, IsActive, Side
  <2> QED BY <2>5, <2>6, <2>7, <2>8, <2>9, <2>10 DEF Structure
<1> QED BY <1>1, <1>2, <1>3 DEF Venue, Accepts

\* A crash loses the call and nothing that is saved.
LEMMA CrashStructure == Structure /\ Crash => Structure'
<1> SUFFICES ASSUME Structure, Crash PROVE Structure'
  OBVIOUS
<1> USE DEF Crash, Structure
<1>1. Shapes'
  BY DEF Shapes, Idle
<1>2. FreeIsClean' /\ CallIsActive'
  BY DEF FreeIsClean, CallIsActive, Idle
<1>3. WireIsFresh'
  BY DEF Shapes, WireIsFresh, IsActive
<1>4. (OneActivePerSide /\ ActiveHasRole /\ VenueKnows /\ FilledBetween /\ RestIsHeld)'
  BY DEF OneActivePerSide, ActiveHasRole, VenueKnows, FilledBetween, RestIsHeld, IsActive, Side
<1> QED BY <1>1, <1>2, <1>3, <1>4

\* A halt changes no order.
LEMMA HaltStructure == Structure /\ Halt => Structure'
  BY DEF Halt, Structure, Shapes, OneActivePerSide, ActiveHasRole, FreeIsClean, WireIsFresh,
     CallIsActive, VenueKnows, FilledBetween, RestIsHeld, IsActive, Side

\* Every step keeps the structure.
LEMMA NextStructure == Structure /\ [Next]_vars => Structure'
<1> SUFFICES ASSUME Structure, [Next]_vars PROVE Structure'
  OBVIOUS
<1>1. CASE UNCHANGED vars
  BY <1>1 DEF vars, Structure, Shapes, OneActivePerSide, ActiveHasRole, FreeIsClean, WireIsFresh,
     CallIsActive, VenueKnows, FilledBetween, RestIsHeld, IsActive, Side
<1>2. CASE FinishFlat
  BY <1>2 DEF FinishFlat, Structure, Shapes, OneActivePerSide, ActiveHasRole, FreeIsClean, WireIsFresh,
     CallIsActive, VenueKnows, FilledBetween, RestIsHeld, IsActive, Side
<1>3. ASSUME NEW c \in Ids, Manager(c) PROVE Structure'
  BY <1>3, SubmitStructure, ManageStructure DEF Manager
<1> QED BY <1>1, <1>2, <1>3, VenueStructure, CrashStructure, HaltStructure DEF Next

\* The invariant.
LEMMA AlwaysStructure == Spec => []Structure
  BY InitStructure, NextStructure, PTL DEF Spec

\* A sale the exchange has made is always still in the lots: _remove_lots()
\* never runs out, for any number of orders, losses, delays and crashes.
THEOREM SalesAreCovered == Spec => []SaleWithinBooks
<1>1. Structure => SaleWithinBooks
  <2> SUFFICES ASSUME Structure, NEW c \in Ids, Side(c) = "SELL"
               PROVE  ex[c].done - ord[c].filled <= held
    BY DEF SaleWithinBooks
  <2>1. /\ ord[c].filled \in Nat /\ ex[c].done \in Nat /\ ord[c].qty \in Nat /\ held \in Nat
        /\ ord[c].filled <= ex[c].done /\ ex[c].done <= ord[c].qty
        /\ ~IsActive(c) => ex[c].done = ord[c].filled
        /\ IsActive(c) => ord[c].qty - ord[c].filled <= held
    BY DEF Structure, Shapes, Order, Row, FilledBetween, RestIsHeld
  <2> QED BY <2>1
<1> QED BY <1>1, AlwaysStructure, PTL

----------------------------------------------------------------------------
(* The refinement: every step is a step of OrderLedger on the order it is   *)
(* about, or changes nothing OrderLedger can see.                           *)

\* What OrderLedger sees of one order.
Sight(c) == <<Slot(c), Side(c), Seen(c), ex[c].done, ord[c].filled>>

\* A step that changes what OrderLedger sees of no order is a stutter of it.
LEMMA Unseen ==
    ASSUME \A c \in Ids : Sight(c)' = Sight(c)
    PROVE  UNCHANGED Ledger!vars
<1>1. \A c \in Ids : /\ Slot(c)' = Slot(c) /\ Side(c)' = Side(c) /\ Seen(c)' = Seen(c)
                     /\ ex'[c].done = ex[c].done /\ ord'[c].filled = ord[c].filled
  BY DEF Sight
<1> QED BY <1>1 DEF Ledger!vars

\* The initial state maps to one of OrderLedger.
LEMMA InitLedger == Init => Ledger!Init
<1> SUFFICES ASSUME Init PROVE Ledger!Init
  OBVIOUS
<1>1. \A c \in Ids : /\ Slot(c) = "free" /\ Side(c) = "none" /\ Seen(c) = "never"
                     /\ ex[c].done = 0 /\ ord[c].filled = 0
  BY DEF Init, Slot, Side, SideOf, SellRoles, Seen, NoOrder, NoRow
<1> QED BY <1>1 DEF Ledger!Init, Ledger!NoSide

\* Steps that only touch one order, seen through OrderLedger.
LEMMA CommitStep ==
    ASSUME Structure, NEW c \in Ids, NEW role \in Roles, NEW q \in 1..MaxQty, SubmitIntent(c, role, q)
    PROVE  Ledger!Next
<1> DEFINE s == SideOf(role)
<1>1. s \in {"BUY", "SELL"}
  BY DEF SideOf, Roles
<1>2. ord[c] = NoOrder /\ ex[c] = NoRow /\ ex' = ex
  BY DEF SubmitIntent, Structure, FreeIsClean, NoOrder
<1>3. /\ ord'[c].st = "INTENT" /\ ord'[c].role = role /\ ord'[c].filled = 0
      /\ \A d \in Ids : d # c => ord'[d] = ord[d]
  BY DEF SubmitIntent, Structure, Shapes
<1>4. /\ Slot(c) = "free" /\ Slot(c)' = "owned" /\ Side(c)' = s /\ Seen(c)' = Seen(c)
      /\ ord'[c].filled = ord[c].filled
  BY <1>2, <1>3 DEF Slot, IsActive, Working, Side, Seen, NoOrder
<1>5. \A d \in Ids : d # c => /\ Slot(d)' = Slot(d) /\ Side(d)' = Side(d) /\ Seen(d)' = Seen(d)
                             /\ ord'[d].filled = ord[d].filled
  BY <1>2, <1>3 DEF Slot, IsActive, Side, Seen
<1>6. \A d \in Ids : Slot(d) = "owned" => Side(d) # s
  BY DEF SubmitIntent, SlotFree, Slot
<1> HIDE DEF s
<1>7. Ledger!Commit(c, s)
  BY <1>2, <1>4, <1>5, <1>6 DEF Ledger!Commit
<1> QED BY <1>1, <1>7 DEF Ledger!Next

\* An order that certainly never arrived gives its slot back.
LEMMA DropStep ==
    ASSUME Structure, NEW c \in Ids, Expire(c) \/ AnswerRefused(c)
    PROVE  Ledger!Next
<1>1. IsActive(c) /\ ex[c].st \in {"unseen", "refused"} /\ ex' = ex
  BY DEF Expire, AnswerRefused, Structure, CallIsActive, IsActive, Working, NoRow
<1>2. /\ ord'[c].st = "REJECTED" /\ ord'[c].role = ord[c].role /\ ord'[c].filled = ord[c].filled
      /\ \A d \in Ids : d # c => ord'[d] = ord[d]
  BY DEF Expire, AnswerRefused, Structure, Shapes, Order
<1>3. /\ Slot(c) = "owned" /\ Slot(c)' = "released" /\ Side(c)' = Side(c)
      /\ Seen(c) = "never" /\ Seen(c)' = Seen(c)
  BY <1>1, <1>2 DEF Slot, IsActive, Working, Side, Seen
<1>4. \A d \in Ids : d # c => /\ Slot(d)' = Slot(d) /\ Side(d)' = Side(d) /\ Seen(d)' = Seen(d)
                             /\ ord'[d].filled = ord[d].filled
  BY <1>1, <1>2 DEF Slot, IsActive, Side, Seen
<1>5. Ledger!Drop(c)
  BY <1>1, <1>2, <1>3, <1>4 DEF Ledger!Drop
<1> QED BY <1>5 DEF Ledger!Next

\* Booking a report is OrderLedger's booking step.
LEMMA BookStep ==
    ASSUME Structure, NEW c \in Ids, IsActive(c), Known(c), Apply(c), ex' = ex
    PROVE  Ledger!Next
<1>1. /\ Slot(c) = "owned" /\ Seen(c) # "never" /\ Seen(c)' = Seen(c)
      /\ Seen(c) = "over" <=> Status(c) = "DONE"
  BY DEF Slot, IsActive, Working, Known, Seen, Status
<1>2. Slot(c)' = IF Seen(c) = "over" THEN "released" ELSE "owned"
  BY <1>1, ApplyOrder, Statuses DEF Slot, IsActive, Working
<1>3. Side(c)' = Side(c) /\ ord'[c].filled = ex[c].done
  BY ApplyOrder DEF Side
<1>4. \A d \in Ids : d # c => /\ Slot(d)' = Slot(d) /\ Side(d)' = Side(d) /\ Seen(d)' = Seen(d)
                             /\ ord'[d].filled = ord[d].filled
  BY ApplyOrder DEF Slot, IsActive, Side, Seen
<1>5. Ledger!Book(c)
  BY <1>1, <1>2, <1>3, <1>4 DEF Ledger!Book
<1> QED BY <1>5 DEF Ledger!Next

\* Archiving a finished order is OrderLedger's forgetting step.
LEMMA ForgetStep ==
    ASSUME Structure, NEW c \in Ids, Archive(c)
    PROVE  Ledger!Next
<1>1. /\ ord'[c] = NoOrder /\ ex'[c] = NoRow
      /\ \A d \in Ids : d # c => ord'[d] = ord[d] /\ ex'[d] = ex[d]
  BY DEF Archive, Structure, Shapes
<1>2. /\ Slot(c) = "released" /\ Slot(c)' = "free" /\ Side(c)' = "none" /\ Seen(c)' = "never"
      /\ ex'[c].done = 0 /\ ord'[c].filled = 0
  BY <1>1 DEF Archive, Slot, IsActive, Working, Side, SideOf, SellRoles, Seen, NoOrder, NoRow
<1>3. \A d \in Ids : d # c => /\ Slot(d)' = Slot(d) /\ Side(d)' = Side(d) /\ Seen(d)' = Seen(d)
                             /\ ord'[d].filled = ord[d].filled /\ ex'[d].done = ex[d].done
  BY <1>1 DEF Slot, IsActive, Side, Seen
<1>4. Ledger!Forget(c)
  BY <1>2, <1>3 DEF Ledger!Forget, Ledger!NoSide
<1> QED BY <1>4 DEF Ledger!Next

\* What the exchange does is what OrderLedger's venue does.
LEMMA VenueStep ==
    ASSUME Structure, NEW c \in Ids, Venue(c)
    PROVE  Ledger!Next \/ UNCHANGED Ledger!vars
<1>1. ord' = ord
  BY DEF Venue, Arrive, Lose, Trigger, Execute, Close
<1>2. \A d \in Ids : Slot(d)' = Slot(d) /\ Side(d)' = Side(d)
  BY <1>1 DEF Slot, IsActive, Side
<1>3. \A d \in Ids : d # c => ex'[d] = ex[d]
  BY DEF Venue, Arrive, Lose, Trigger, Execute, Close, Structure, Shapes
<1>4. \A d \in Ids : d # c => Seen(d)' = Seen(d)
  BY <1>3 DEF Seen
<1>5. CASE Arrive(c, Accepts(c))
  <2>1. IsActive(c) /\ ex[c] = NoRow
    BY <1>5 DEF Arrive, Structure, WireIsFresh
  <2>2. ex'[c].st \in {"armed", "live"} /\ ex'[c].done = ex[c].done
    BY <1>5, <2>1 DEF Arrive, Accepts, Structure, Shapes, Row
  <2>3. Slot(c) = "owned" /\ Seen(c) = "never" /\ Seen(c)' = "live"
    BY <2>1, <2>2 DEF Slot, IsActive, Working, Seen, NoRow
  <2>4. Ledger!Accept(c)
    BY <1>1, <1>2, <1>3, <1>4, <2>2, <2>3 DEF Ledger!Accept
  <2> QED BY <2>4 DEF Ledger!Next
<1>6. CASE Arrive(c, "refused") \/ Lose(c)
  <2>1. ex[c] = NoRow
    BY <1>6 DEF Arrive, Lose, Structure, WireIsFresh
  <2>2. ex'[c].st \in {"unseen", "refused"} /\ ex'[c].done = ex[c].done
    BY <1>6, <2>1 DEF Arrive, Lose, Structure, Shapes, Row, NoRow
  <2>3. Seen(c)' = Seen(c)
    BY <2>1, <2>2 DEF Seen, NoRow
  <2>4. \A d \in Ids : Sight(d)' = Sight(d)
    BY <1>1, <1>2, <1>3, <1>4, <2>2, <2>3 DEF Sight
  <2> QED BY <2>4, Unseen
<1>7. CASE Trigger(c)
  <2>1. ex'[c].st = "live" /\ ex[c].st = "armed" /\ ex'[c].done = ex[c].done
    BY <1>7 DEF Trigger, Structure, Shapes, Row
  <2>2. Seen(c)' = Seen(c)
    BY <2>1 DEF Seen
  <2>3. \A d \in Ids : Sight(d)' = Sight(d)
    BY <1>1, <1>2, <1>3, <1>4, <2>1, <2>2 DEF Sight
  <2> QED BY <2>3, Unseen
<1>8. CASE Execute(c)
  <2>1. ex[c].st = "live" /\ ex'[c].st = "live" /\ ex'[c].done = ex[c].done + 1
    BY <1>8 DEF Execute, Structure, Shapes, Row
  <2>2. Seen(c) = "live" /\ Seen(c)' = Seen(c)
    BY <2>1 DEF Seen
  <2>3. ex[c].done < MaxQty
    <3>1. ex[c].done \in Nat /\ ord[c].qty \in 0..MaxQty /\ ex[c].done < ord[c].qty
      BY <1>8 DEF Execute, Structure, Shapes, Row, Order
    <3> QED BY <3>1, OmsAssumption DEF OmsAssumption
  <2>4. Ledger!Execute(c)
    BY <1>1, <1>2, <1>3, <1>4, <2>1, <2>2, <2>3 DEF Ledger!Execute
  <2> QED BY <2>4 DEF Ledger!Next
<1>9. CASE Close(c)
  <2>1. ex[c].st \in {"armed", "live"} /\ ex'[c].st = "over" /\ ex'[c].done = ex[c].done
    BY <1>9 DEF Close, Structure, Shapes, Row
  <2>2. Seen(c) = "live" /\ Seen(c)' = "over"
    BY <2>1 DEF Seen
  <2>3. Ledger!End(c)
    BY <1>1, <1>2, <1>3, <1>4, <2>1, <2>2 DEF Ledger!End
  <2> QED BY <2>3 DEF Ledger!Next
<1> QED BY <1>5, <1>6, <1>7, <1>8, <1>9 DEF Venue

\* Steps after which every order looks the same.
LEMMA QuietStep ==
    ASSUME Structure, ex' = ex,
           \A d \in Ids : /\ ord'[d].role = ord[d].role /\ ord'[d].filled = ord[d].filled
                         /\ IsActive(d)' = IsActive(d) /\ (ord'[d].st = "none" <=> ord[d].st = "none")
    PROVE  UNCHANGED Ledger!vars
<1>1. \A d \in Ids : Sight(d)' = Sight(d)
  BY DEF Sight, Slot, Side, Seen
<1> QED BY <1>1, Unseen

\* Every step is a step of OrderLedger or a stutter.
LEMMA LedgerStep == Structure /\ [Next]_vars => [Ledger!Next]_(Ledger!vars)
<1> SUFFICES ASSUME Structure, [Next]_vars PROVE Ledger!Next \/ UNCHANGED Ledger!vars
  OBVIOUS
<1>1. CASE UNCHANGED vars
  BY <1>1, QuietStep DEF vars, IsActive
<1>2. CASE FinishFlat
  BY <1>2, QuietStep DEF FinishFlat, IsActive
<1>3. CASE Crash \/ Halt
  BY <1>3, QuietStep DEF Crash, Halt, IsActive
<1>4. ASSUME NEW c \in Ids, Manager(c)
      PROVE  Ledger!Next \/ UNCHANGED Ledger!vars
  <2>1. CASE \E role \in Roles, q \in 1..MaxQty : SubmitIntent(c, role, q)
    BY <2>1, CommitStep
  <2>2. CASE Expire(c) \/ AnswerRefused(c)
    BY <2>2, DropStep
  <2>3. CASE Transmit(c) \/ ReconcileOverdue(c)
    BY <2>3, QuietStep DEF Transmit, ReconcileOverdue, IsActive
  <2>4. CASE AnswerOk(c) \/ AnswerLost(c)
    <3>1. IsActive(c)
      BY <2>4 DEF AnswerOk, AnswerLost, Structure, CallIsActive
    <3>2. /\ ord'[c].st \in {"SUBMITTED", "UNKNOWN"} /\ ord'[c].role = ord[c].role
          /\ ord'[c].filled = ord[c].filled /\ \A d \in Ids : d # c => ord'[d] = ord[d]
      BY <2>4 DEF AnswerOk, AnswerLost, Structure, Shapes, Order
    <3>3. \A d \in Ids : IsActive(d)' = IsActive(d) /\ (ord'[d].st = "none" <=> ord[d].st = "none")
      BY <3>1, <3>2 DEF IsActive, Working
    <3> QED BY <2>4, <3>2, <3>3, QuietStep DEF AnswerOk, AnswerLost
  <2>5. CASE Reconcile(c)
    BY <2>5, BookStep DEF Reconcile
  <2>6. CASE Archive(c)
    BY <2>6, ForgetStep
  <2>7. CASE CancelStart(c)
    <3>1. \A d \in Ids : /\ ord'[d].role = ord[d].role /\ ord'[d].filled = ord[d].filled
                         /\ ord'[d].st = ord[d].st
      BY <2>7 DEF CancelStart, Structure, Shapes, Order
    <3> QED BY <2>7, <3>1, QuietStep DEF CancelStart, IsActive
  <2>8. CASE CancelEnd(c)
    <3>1. IsActive(c) /\ ex' = ex
      BY <2>8 DEF CancelEnd, Structure, CallIsActive
    <3>2. CASE Known(c) /\ Apply(c)
      BY <3>1, <3>2, BookStep
    <3>3. CASE UNCHANGED <<ord, held, campaign>>
      BY <3>1, <3>3, QuietStep DEF IsActive
    <3> QED BY <2>8, <3>2, <3>3 DEF CancelEnd
  <2> QED BY <1>4, <2>1, <2>2, <2>3, <2>4, <2>5, <2>6, <2>7, <2>8 DEF Manager
<1> QED BY <1>1, <1>2, <1>3, <1>4, VenueStep DEF Next

\* The order manager implements the contract of OrderLedger.
THEOREM ImplementsLedger == Spec => KeepsPromise
<1>1. Structure /\ [Next]_vars => [Ledger!Next]_(Ledger!vars)
  BY LedgerStep
<1> QED BY <1>1, InitLedger, AlwaysStructure, PTL DEF Spec, KeepsPromise, Ledger!Spec

----------------------------------------------------------------------------
(* The balance: the exchange and the ledger differ by exactly what the one   *)
(* buy and the one sale at work have executed and not yet reported.          *)

OfSide(c, s) == IsActive(c) /\ Side(c) = s

Unbooked(s, n) ==
    /\ \A c \in Ids : OfSide(c, s) => ex[c].done - ord[c].filled = n
    /\ (\A c \in Ids : ~OfSide(c, s)) => n = 0

Balance == \E b, r \in Nat :
    Unbooked("BUY", b) /\ Unbooked("SELL", r) /\ coins + r = held + b

\* The initial state.
LEMMA InitBalance == Init => Balance
<1> SUFFICES ASSUME Init PROVE Balance
  OBVIOUS
<1>1. \A c \in Ids : ~IsActive(c)
  BY DEF Init, IsActive, Working, NoOrder
<1>2. Unbooked("BUY", 0) /\ Unbooked("SELL", 0) /\ coins + 0 = held + 0
  BY <1>1 DEF Unbooked, OfSide, Init
<1> QED BY <1>2 DEF Balance

\* A step that neither executes nor books keeps the balance.
LEMMA StillBalance ==
    ASSUME Structure, Balance, coins' = coins, held' = held,
           \A c \in Ids, s \in {"BUY", "SELL"} :
              /\ OfSide(c, s)' => ex'[c].done - ord'[c].filled =
                                    IF OfSide(c, s) THEN ex[c].done - ord[c].filled ELSE 0
              /\ OfSide(c, s)' /\ ~OfSide(c, s) => \A d \in Ids : ~OfSide(d, s)
              /\ OfSide(c, s) /\ ~OfSide(c, s)' => ex[c].done - ord[c].filled = 0
    PROVE  Balance'
<1>1. PICK b \in Nat, r \in Nat :
        Unbooked("BUY", b) /\ Unbooked("SELL", r) /\ coins + r = held + b
  BY DEF Balance
<1>2. ASSUME NEW n \in Nat, NEW s \in {"BUY", "SELL"}, Unbooked(s, n)
      PROVE  Unbooked(s, n)'
  <2>1. \A c \in Ids : OfSide(c, s)' => ex'[c].done - ord'[c].filled = n
    BY <1>2 DEF Unbooked
  <2>2. (\A c \in Ids : ~OfSide(c, s)') => n = 0
    BY <1>2 DEF Unbooked
  <2> QED BY <2>1, <2>2 DEF Unbooked
<1>3. Unbooked("BUY", b)' /\ Unbooked("SELL", r)'
  BY <1>1, <1>2
<1> QED BY <1>1, <1>3 DEF Balance

\* Booking an order moves what was unbooked into the lots.
LEMMA ApplyBalance ==
    ASSUME Structure, Balance, NEW c \in Ids, IsActive(c), Known(c), Apply(c),
           ex' = ex, coins' = coins
    PROVE  Balance'
<1> DEFINE gap == ex[c].done - ord[c].filled
<1>1. PICK b \in Nat, r \in Nat :
        Unbooked("BUY", b) /\ Unbooked("SELL", r) /\ coins + r = held + b
  BY DEF Balance
<1>2. /\ held \in Nat /\ held' \in Nat /\ coins \in Int
      /\ \A d \in Ids : ex[d].done \in Nat /\ ord[d].filled \in Nat
  BY ApplyOrder DEF Structure, Shapes, Row, Order
<1>3. \A d \in Ids, s \in {"BUY", "SELL"} : d # c =>
        (OfSide(d, s)' <=> OfSide(d, s)) /\ ex'[d].done - ord'[d].filled = ex[d].done - ord[d].filled
  BY ApplyOrder DEF OfSide, IsActive, Side
<1>4. ex'[c].done - ord'[c].filled = 0 /\ Side(c)' = Side(c)
  BY <1>2, ApplyOrder DEF Side
<1>5. ASSUME NEW s \in {"BUY", "SELL"}, Side(c) = s
      PROVE  Unbooked(s, 0)'
  BY <1>3, <1>4, <1>5 DEF Unbooked, OfSide, Structure, OneActivePerSide
<1>6. ASSUME NEW s \in {"BUY", "SELL"}, Side(c) # s, NEW n \in Nat, Unbooked(s, n)
      PROVE  Unbooked(s, n)'
  <2>1. ~OfSide(c, s) /\ ~OfSide(c, s)'
    BY <1>4, <1>6 DEF OfSide
  <2> QED BY <1>3, <1>6, <2>1 DEF Unbooked
<1>7. CASE Side(c) = "BUY"
  <2>1. gap = b
    BY <1>1, <1>7 DEF Unbooked, OfSide
  <2>2. held' = held + b
    BY <1>7, <2>1, ApplyOrder
  <2>3. Unbooked("BUY", 0)' /\ Unbooked("SELL", r)'
    BY <1>1, <1>5, <1>6, <1>7
  <2> QED BY <1>1, <1>2, <2>2, <2>3 DEF Balance
<1>8. CASE Side(c) = "SELL"
  <2>1. gap = r
    BY <1>1, <1>8 DEF Unbooked, OfSide
  <2>2. held' = held - r
    BY <1>8, <2>1, ApplyOrder
  <2>3. Unbooked("SELL", 0)' /\ Unbooked("BUY", b)'
    BY <1>1, <1>5, <1>6, <1>8
  <2> QED BY <1>1, <1>2, <2>2, <2>3 DEF Balance
<1> QED BY <1>7, <1>8, ApplyOrder

\* An execution moves the exchange's balance and the unbooked part alike.
LEMMA ExecuteBalance ==
    ASSUME Structure, Balance, NEW c \in Ids, Execute(c)
    PROVE  Balance'
<1>1. PICK b \in Nat, r \in Nat :
        Unbooked("BUY", b) /\ Unbooked("SELL", r) /\ coins + r = held + b
  BY DEF Balance
<1>2. /\ held \in Nat /\ coins \in Int /\ held' = held /\ ord' = ord
      /\ \A d \in Ids : ex[d].done \in Nat /\ ord[d].filled \in Nat
      /\ IsActive(c) /\ Side(c) \in {"BUY", "SELL"}
  BY DEF Execute, Structure, Shapes, Row, Order, VenueKnows, ActiveHasRole, Side, SideOf, Roles, SellRoles
<1>3. ex'[c].done = ex[c].done + 1 /\ \A d \in Ids : d # c => ex'[d] = ex[d]
  BY DEF Execute, Structure, Shapes, Row
<1>4. \A d \in Ids, s \in {"BUY", "SELL"} : OfSide(d, s)' <=> OfSide(d, s)
  BY <1>2 DEF OfSide, IsActive, Side
<1>5. ASSUME NEW s \in {"BUY", "SELL"}, Side(c) = s, NEW n \in Nat, Unbooked(s, n)
      PROVE  Unbooked(s, n + 1)'
  <2>1. \A d \in Ids : OfSide(d, s) => d = c
    BY <1>2, <1>5 DEF OfSide, Structure, OneActivePerSide
  <2>2. ex[c].done - ord[c].filled = n /\ OfSide(c, s)
    BY <1>2, <1>5 DEF Unbooked, OfSide
  <2>3. ex'[c].done - ord'[c].filled = n + 1
    BY <1>2, <1>3, <2>2
  <2> QED BY <1>4, <2>1, <2>2, <2>3 DEF Unbooked
<1>6. ASSUME NEW s \in {"BUY", "SELL"}, Side(c) # s, NEW n \in Nat, Unbooked(s, n)
      PROVE  Unbooked(s, n)'
  <2>1. ~OfSide(c, s)
    BY <1>6 DEF OfSide
  <2> QED BY <1>2, <1>3, <1>4, <1>6, <2>1 DEF Unbooked
<1>7. CASE Side(c) = "BUY"
  <2>1. coins' = coins + 1
    BY <1>7 DEF Execute
  <2>2. Unbooked("BUY", b + 1)' /\ Unbooked("SELL", r)'
    BY <1>1, <1>5, <1>6, <1>7
  <2>3. coins' + r = held' + (b + 1)
    BY <1>1, <1>2, <2>1
  <2> QED BY <2>2, <2>3 DEF Balance
<1>8. CASE Side(c) = "SELL"
  <2>1. coins' = coins - 1
    BY <1>8 DEF Execute
  <2>2. Unbooked("SELL", r + 1)' /\ Unbooked("BUY", b)'
    BY <1>1, <1>5, <1>6, <1>8
  <2>3. coins' + (r + 1) = held' + b
    BY <1>1, <1>2, <2>1
  <2> QED BY <2>2, <2>3 DEF Balance
<1> QED BY <1>2, <1>7, <1>8

\* Writing an intent or dropping a refused one moves no coin, so the balance stays.
LEMMA SlotBalance ==
    ASSUME Structure, Balance, NEW c \in Ids,
           \/ \E role \in Roles, q \in 1..MaxQty : SubmitIntent(c, role, q)
           \/ Expire(c) \/ AnswerRefused(c)
    PROVE  Balance'
<1>1. /\ ex' = ex /\ held' = held /\ coins' = coins
      /\ \A d \in Ids : d # c => ord'[d] = ord[d]
  BY DEF SubmitIntent, Expire, AnswerRefused, Structure, Shapes
<1>2. \A d \in Ids : ex[d].done \in Nat /\ ord[d].filled \in Nat
  BY DEF Structure, Shapes, Row, Order
<1>3. \A d \in Ids, s \in {"BUY", "SELL"} : d # c =>
        (OfSide(d, s)' <=> OfSide(d, s)) /\ ex'[d].done - ord'[d].filled = ex[d].done - ord[d].filled
  BY <1>1 DEF OfSide, IsActive, Side
<1>4. ex[c].done = 0 /\ ord[c].filled = 0 /\ ord'[c].filled = 0
  <2>1. ex[c].st \in {"unseen", "refused"}
    BY DEF SubmitIntent, Expire, AnswerRefused, Structure, FreeIsClean, CallIsActive, NoOrder, NoRow
  <2>2. ex[c].done = 0 /\ ord[c].filled = 0
    BY <1>2, <2>1 DEF Structure, VenueKnows, FilledBetween
  <2>3. ord'[c].filled = ord[c].filled \/ ord'[c].filled = 0
    BY DEF SubmitIntent, Expire, AnswerRefused, Structure, Shapes, Order
  <2> QED BY <2>2, <2>3
<1>5. ASSUME NEW role \in Roles, NEW q \in 1..MaxQty, SubmitIntent(c, role, q)
      PROVE  Balance'
  <2>1. ~IsActive(c) /\ Side(c)' = SideOf(role)
    BY <1>5 DEF SubmitIntent, IsActive, Working, NoOrder, Side, Structure, Shapes
  <2>2. \A s \in {"BUY", "SELL"} : OfSide(c, s)' => \A d \in Ids : ~OfSide(d, s)
    BY <1>5, <2>1 DEF SubmitIntent, SlotFree, OfSide
  <2> QED BY <1>1, <1>2, <1>3, <1>4, <2>1, <2>2, StillBalance DEF OfSide
<1>6. CASE Expire(c) \/ AnswerRefused(c)
  <2>1. ~IsActive(c)'
    BY <1>6 DEF Expire, AnswerRefused, IsActive, Working, Structure, Shapes, Order
  <2> QED BY <1>1, <1>2, <1>3, <1>4, <2>1, StillBalance DEF OfSide
<1> QED BY <1>5, <1>6

\* Steps that leave the executed and applied quantities, and who is active.
LEMMA QuietBalance ==
    ASSUME Structure, Balance, coins' = coins, held' = held,
           \A c \in Ids, s \in {"BUY", "SELL"} : OfSide(c, s)' <=> OfSide(c, s),
           \A c \in Ids : IsActive(c) => ex'[c].done = ex[c].done /\ ord'[c].filled = ord[c].filled
    PROVE  Balance'
  BY StillBalance DEF OfSide

\* Every step keeps the balance.
LEMMA NextBalance == Structure /\ Balance /\ [Next]_vars => Balance'
<1> SUFFICES ASSUME Structure, Balance, [Next]_vars PROVE Balance'
  OBVIOUS
<1>1. CASE UNCHANGED vars
  BY <1>1, QuietBalance DEF vars, OfSide, IsActive, Side
<1>2. CASE FinishFlat
  BY <1>2, QuietBalance DEF FinishFlat, OfSide, IsActive, Side
<1>3. CASE Crash \/ Halt
  BY <1>3, QuietBalance DEF Crash, Halt, OfSide, IsActive, Side
<1>4. ASSUME NEW c \in Ids, Manager(c) PROVE Balance'
  <2>1. CASE \/ \E role \in Roles, q \in 1..MaxQty : SubmitIntent(c, role, q)
             \/ Expire(c) \/ AnswerRefused(c)
    BY <2>1, SlotBalance
  <2>2. CASE Transmit(c) \/ ReconcileOverdue(c)
    BY <2>2, QuietBalance DEF Transmit, ReconcileOverdue, OfSide, IsActive, Side
  <2>3. CASE AnswerOk(c) \/ AnswerLost(c)
    <3>1. IsActive(c)
      BY <2>3 DEF AnswerOk, AnswerLost, Structure, CallIsActive
    <3>2. /\ ord'[c].st \in {"SUBMITTED", "UNKNOWN"} /\ ord'[c].role = ord[c].role
          /\ ord'[c].filled = ord[c].filled /\ \A d \in Ids : d # c => ord'[d] = ord[d]
      BY <2>3 DEF AnswerOk, AnswerLost, Structure, Shapes, Order
    <3>3. \A d \in Ids, s \in {"BUY", "SELL"} : OfSide(d, s)' <=> OfSide(d, s)
      BY <3>1, <3>2 DEF OfSide, IsActive, Working, Side
    <3> QED BY <2>3, <3>2, <3>3, QuietBalance DEF AnswerOk, AnswerLost
  <2>4. CASE Reconcile(c)
    BY <2>4, ApplyBalance DEF Reconcile
  <2>5. CASE Archive(c)
    <3>1. /\ ~IsActive(c) /\ ~IsActive(c)'
          /\ \A d \in Ids : d # c => ord'[d] = ord[d] /\ ex'[d] = ex[d]
      BY <2>5 DEF Archive, IsActive, Working, NoOrder, Structure, Shapes
    <3>2. \A d \in Ids, s \in {"BUY", "SELL"} : OfSide(d, s)' <=> OfSide(d, s)
      BY <3>1 DEF OfSide, IsActive, Side
    <3> QED BY <2>5, <3>1, <3>2, QuietBalance DEF Archive
  <2>6. CASE CancelStart(c)
    <3>1. \A d \in Ids : /\ ord'[d].role = ord[d].role /\ ord'[d].filled = ord[d].filled
                         /\ ord'[d].st = ord[d].st
      BY <2>6 DEF CancelStart, Structure, Shapes, Order
    <3> QED BY <2>6, <3>1, QuietBalance DEF CancelStart, OfSide, IsActive, Side
  <2>7. CASE CancelEnd(c)
    <3>1. IsActive(c) /\ ex' = ex /\ coins' = coins
      BY <2>7 DEF CancelEnd, Structure, CallIsActive
    <3>2. CASE Known(c) /\ Apply(c)
      BY <3>1, <3>2, ApplyBalance
    <3>3. CASE UNCHANGED <<ord, held, campaign>>
      BY <3>1, <3>3, QuietBalance DEF OfSide, IsActive, Side
    <3> QED BY <2>7, <3>2, <3>3 DEF CancelEnd
  <2> QED BY <1>4, <2>1, <2>2, <2>3, <2>4, <2>5, <2>6, <2>7 DEF Manager
<1>5. ASSUME NEW c \in Ids, Venue(c) PROVE Balance'
  <2>1. CASE Execute(c)
    BY <2>1, ExecuteBalance
  <2>2. CASE ~Execute(c)
    <3>1. ord' = ord /\ held' = held /\ coins' = coins
      BY <1>5, <2>2 DEF Venue, Arrive, Lose, Trigger, Close
    <3>2. \A d \in Ids : ex'[d].done = ex[d].done
      BY <1>5, <2>2 DEF Venue, Arrive, Lose, Trigger, Close, Structure, Shapes, Row
    <3> QED BY <3>1, <3>2, QuietBalance DEF OfSide, IsActive, Side
  <2> QED BY <2>1, <2>2
<1> QED BY <1>1, <1>2, <1>3, <1>4, <1>5 DEF Next

\* The invariant.
LEMMA AlwaysBalance == Spec => [](Structure /\ Balance)
<1>1. Structure /\ Balance /\ [Next]_vars => (Structure /\ Balance)'
  BY NextStructure, NextBalance
<1> QED BY <1>1, InitStructure, InitBalance, PTL DEF Spec

\* Every order booked means the ledger and the exchange hold the same.
THEOREM BooksAreTheVenues == Spec => []BooksMatchVenue
<1>1. Structure /\ Balance => BooksMatchVenue
  <2> SUFFICES ASSUME Structure, Balance, \A c \in Ids : ex[c].done = ord[c].filled
               PROVE  held = coins
    BY DEF BooksMatchVenue
  <2>1. PICK b \in Nat, r \in Nat :
          Unbooked("BUY", b) /\ Unbooked("SELL", r) /\ coins + r = held + b
    BY DEF Balance
  <2>2. \A c \in Ids : ex[c].done - ord[c].filled = 0
    BY DEF Structure, Shapes, Row, Order
  <2>3. b = 0 /\ r = 0
    BY <2>1, <2>2 DEF Unbooked
  <2> QED BY <2>1, <2>3 DEF Structure, Shapes
<1> QED BY <1>1, AlwaysBalance, PTL

\* Type correctness, the sign of the exchange's balance included.
THEOREM TypesAreKept == Spec => []TypeOK
<1>1. Structure /\ Balance => TypeOK
  <2> SUFFICES ASSUME Structure, Balance PROVE coins >= 0
    BY DEF Structure, Shapes, TypeOK
  <2>1. PICK b \in Nat, r \in Nat :
          Unbooked("BUY", b) /\ Unbooked("SELL", r) /\ coins + r = held + b
    BY DEF Balance
  <2>2. r <= held
    <3>1. CASE \A c \in Ids : ~OfSide(c, "SELL")
      BY <2>1, <3>1 DEF Unbooked, Structure, Shapes
    <3>2. ASSUME NEW c \in Ids, OfSide(c, "SELL") PROVE r <= held
      <4>1. /\ ord[c].filled \in Nat /\ ex[c].done \in Nat /\ ord[c].qty \in Nat /\ held \in Nat
            /\ ex[c].done <= ord[c].qty /\ ord[c].qty - ord[c].filled <= held
        BY <3>2 DEF OfSide, Structure, Shapes, Order, Row, FilledBetween, RestIsHeld
      <4>2. r = ex[c].done - ord[c].filled
        BY <2>1, <3>2 DEF Unbooked
      <4> QED BY <4>1, <4>2
    <3> QED BY <3>1, <3>2
  <2> QED BY <2>1, <2>2 DEF Structure, Shapes
<1> QED BY <1>1, AlwaysBalance, PTL

----------------------------------------------------------------------------
(* The campaign.  While none is open there is nothing to sell, so the only  *)
(* order that can be at work is the one buy that may open the next one.     *)

CampaignInv ==
    /\ CampaignOwnsInventory
    /\ \A c \in Ids : IsActive(c) => ord[c].camp # NoId
    /\ campaign = NoId => held = 0 /\ \A c \in Ids : IsActive(c) => Side(c) = "BUY"

\* Every step keeps the campaigns apart.
LEMMA NextCampaign == Structure /\ CampaignInv /\ [Next]_vars => CampaignInv'
<1> SUFFICES ASSUME Structure, CampaignInv, [Next]_vars PROVE CampaignInv'
  OBVIOUS
<1>q. ASSUME held' = held, campaign' = campaign,
             \A c \in Ids : IsActive(c)' => IsActive(c) /\ ord'[c].camp = ord[c].camp /\ Side(c)' = Side(c)
      PROVE  CampaignInv'
  BY <1>q DEF CampaignInv, CampaignOwnsInventory
<1>a. ASSUME NEW c \in Ids, IsActive(c), Known(c), Apply(c)
      PROVE  CampaignInv'
  <2>1. \A d \in Ids : (IsActive(d)' => IsActive(d)) /\ Side(d)' = Side(d) /\ ord'[d].camp = ord[d].camp
    <3>1. ord'[c].camp = ord[c].camp
      BY <1>a DEF Apply, Structure, Shapes, Order
    <3> QED BY <1>a, <3>1, ApplyOrder DEF IsActive, Side
  <2>2. held \in Nat /\ held' \in Nat /\ ord[c].filled \in Nat /\ ex[c].done \in Nat
        /\ ord[c].filled <= ex[c].done /\ campaign \in Ids \cup {NoId}
    BY <1>a, ApplyOrder DEF Structure, Shapes, Row, Order, FilledBetween
  <2>3. Side(c) = "BUY" <=> ord[c].role = "buy"
    BY <1>a DEF Structure, ActiveHasRole, Side, SideOf, Roles, SellRoles
  <2>4. CASE campaign # NoId
    <3>1. campaign' = campaign
      BY <1>a, <2>4 DEF Apply
    <3> QED BY <2>1, <2>4, <3>1 DEF CampaignInv, CampaignOwnsInventory
  <2>5. CASE campaign = NoId
    <3>1. /\ Side(c) = "BUY" /\ held = 0 /\ ord[c].camp # NoId
          /\ \A d \in Ids : IsActive(d) => d = c
      BY <1>a, <2>5 DEF CampaignInv, Structure, OneActivePerSide
    <3>2. campaign' = IF ex[c].done - ord[c].filled > 0 THEN ord[c].camp ELSE NoId
      BY <1>a, <2>3, <2>5, <3>1 DEF Apply, NewFill
    <3>3. held' = ex[c].done - ord[c].filled
      BY <1>a, <2>2, <3>1, ApplyOrder
    <3> QED BY <2>1, <2>2, <3>1, <3>2, <3>3 DEF CampaignInv, CampaignOwnsInventory
  <2> QED BY <2>4, <2>5
<1>1. CASE UNCHANGED vars
  BY <1>1, <1>q DEF vars, IsActive, Side
<1>2. CASE FinishFlat
  BY <1>2 DEF FinishFlat, CampaignInv, CampaignOwnsInventory, IsActive, Side
<1>3. CASE Crash \/ Halt
  BY <1>3, <1>q DEF Crash, Halt, IsActive, Side
<1>4. ASSUME NEW c \in Ids, Manager(c) PROVE CampaignInv'
  <2>1. ASSUME NEW role \in Roles, NEW q \in 1..MaxQty, SubmitIntent(c, role, q) PROVE CampaignInv'
    <3>1. /\ ord'[c].camp = (IF campaign = NoId THEN c ELSE campaign) /\ ord'[c].role = role
          /\ \A d \in Ids : d # c => ord'[d] = ord[d]
      BY <2>1 DEF SubmitIntent, Structure, Shapes
    <3>2. c # NoId /\ (campaign = NoId => Side(c)' = "BUY")
      BY <2>1, <3>1, OmsAssumption DEF SubmitIntent, OmsAssumption, Side, SideOf
    <3>3. \A d \in Ids : d # c => (IsActive(d)' <=> IsActive(d)) /\ Side(d)' = Side(d)
      BY <3>1 DEF IsActive, Side
    <3> QED BY <2>1, <3>1, <3>2, <3>3 DEF SubmitIntent, CampaignInv, CampaignOwnsInventory
  <2>2. CASE \/ Expire(c) \/ AnswerOk(c) \/ AnswerRefused(c) \/ AnswerLost(c)
    <3>1. IsActive(c) /\ ord[c] \in Order
      BY <2>2 DEF Expire, AnswerOk, AnswerRefused, AnswerLost, Structure, Shapes, CallIsActive,
         IsActive, Working
    <3>2. /\ ord'[c].camp = ord[c].camp /\ ord'[c].role = ord[c].role
          /\ \A d \in Ids : d # c => ord'[d] = ord[d]
      BY <2>2, <3>1 DEF Expire, AnswerOk, AnswerRefused, AnswerLost, Structure, Shapes, Order
    <3> QED BY <1>q, <2>2, <3>1, <3>2 DEF Expire, AnswerOk, AnswerRefused, AnswerLost, IsActive, Side
  <2>3. CASE Transmit(c) \/ ReconcileOverdue(c)
    BY <1>q, <2>3 DEF Transmit, ReconcileOverdue, IsActive, Side
  <2>4. CASE Reconcile(c)
    BY <1>a, <2>4 DEF Reconcile
  <2>5. CASE Archive(c)
    BY <1>q, <2>5 DEF Archive, IsActive, Working, NoOrder, Side, Structure, Shapes
  <2>6. CASE CancelStart(c)
    <3>1. \A d \in Ids : /\ ord'[d].role = ord[d].role /\ ord'[d].camp = ord[d].camp
                         /\ ord'[d].st = ord[d].st
      BY <2>6 DEF CancelStart, Structure, Shapes, Order
    <3> QED BY <1>q, <2>6, <3>1 DEF CancelStart, IsActive, Side
  <2>7. CASE CancelEnd(c)
    <3>1. IsActive(c)
      BY <2>7 DEF CancelEnd, Structure, CallIsActive
    <3>2. CASE Known(c) /\ Apply(c)
      BY <1>a, <3>1, <3>2
    <3>3. CASE UNCHANGED <<ord, held, campaign>>
      BY <1>q, <3>3 DEF IsActive, Side
    <3> QED BY <2>7, <3>2, <3>3 DEF CancelEnd
  <2> QED BY <1>4, <2>1, <2>2, <2>3, <2>4, <2>5, <2>6, <2>7 DEF Manager
<1>5. ASSUME NEW c \in Ids, Venue(c) PROVE CampaignInv'
  BY <1>5, <1>q DEF Venue, Arrive, Lose, Trigger, Execute, Close, IsActive, Side
<1> QED BY <1>1, <1>2, <1>3, <1>4, <1>5 DEF Next

\* Every order at work belongs to the campaign it will find, and inventory
\* always has one.
THEOREM CampaignsStayApart == Spec => []CampaignOwnsInventory
<1>1. Init => CampaignInv
  BY DEF Init, CampaignInv, CampaignOwnsInventory, IsActive, Working, NoOrder
<1>2. Structure /\ CampaignInv /\ [Next]_vars => CampaignInv'
  BY NextCampaign
<1>3. CampaignInv => CampaignOwnsInventory
  BY DEF CampaignInv
<1> QED BY <1>1, <1>2, <1>3, AlwaysStructure, PTL DEF Spec

----------------------------------------------------------------------------
(* Two facts the loop needs: what the journal calls triggered or waiting the *)
(* exchange has told it, and what is held fits the bound of the model.      *)

ReportedIsKnown == \A c \in Ids : ord[c].st \in {"NOT_TRIGGERED", "LIVE"} => Known(c)

HeldIsBounded ==
    /\ held <= MaxHeld
    /\ \A c \in Ids : IsActive(c) /\ Side(c) = "BUY" =>
         held + (ord[c].qty - ord[c].filled) <= MaxHeld

\* The initial state.
LEMMA InitReports == Init => ReportedIsKnown /\ HeldIsBounded
  BY OmsAssumption DEF Init, ReportedIsKnown, HeldIsBounded, IsActive, Working, NoOrder,
     OmsAssumption

\* An order the exchange has reported stays one it knows.
LEMMA NextReportedIsKnown == Structure /\ ReportedIsKnown /\ [Next]_vars => ReportedIsKnown'
<1> SUFFICES ASSUME Structure, ReportedIsKnown, [Next]_vars PROVE ReportedIsKnown'
  OBVIOUS
<1>q. ASSUME ex' = ex, \A c \in Ids : ord'[c].st = ord[c].st \/ ord'[c].st \notin {"NOT_TRIGGERED", "LIVE"}
      PROVE  ReportedIsKnown'
  BY <1>q DEF ReportedIsKnown, Known
<1>a. ASSUME NEW c \in Ids, IsActive(c), Known(c), Apply(c), ex' = ex
      PROVE  ReportedIsKnown'
  BY <1>a, ApplyOrder DEF ReportedIsKnown, Known
<1>1. CASE UNCHANGED vars \/ FinishFlat \/ Halt \/ Crash
  BY <1>1, <1>q DEF vars, FinishFlat, Halt, Crash
<1>2. ASSUME NEW c \in Ids, Manager(c) PROVE ReportedIsKnown'
  <2>1. CASE \E role \in Roles, q \in 1..MaxQty : SubmitIntent(c, role, q)
    BY <2>1, <1>q DEF SubmitIntent, Structure, Shapes
  <2>2. CASE Expire(c) \/ Transmit(c) \/ AnswerOk(c) \/ AnswerRefused(c) \/ AnswerLost(c)
             \/ ReconcileOverdue(c) \/ CancelStart(c)
    <3>1. ex' = ex
      BY <2>2 DEF Expire, Transmit, AnswerOk, AnswerRefused, AnswerLost, ReconcileOverdue, CancelStart
    <3>2. \A d \in Ids : ord'[d].st = ord[d].st \/ ord'[d].st \notin {"NOT_TRIGGERED", "LIVE"}
      BY <2>2 DEF Expire, Transmit, AnswerOk, AnswerRefused, AnswerLost, ReconcileOverdue,
         CancelStart, Structure, Shapes, Order
    <3> QED BY <3>1, <3>2, <1>q
  <2>3. CASE Reconcile(c)
    BY <2>3, <1>a DEF Reconcile
  <2>4. CASE Archive(c)
    <3>1. /\ ord'[c].st = "none"
          /\ \A d \in Ids : d # c => ord'[d] = ord[d] /\ ex'[d] = ex[d]
      BY <2>4 DEF Archive, NoOrder, Structure, Shapes
    <3> QED BY <3>1 DEF ReportedIsKnown, Known
  <2>5. CASE CancelEnd(c)
    <3>1. IsActive(c) /\ ex' = ex
      BY <2>5 DEF CancelEnd, Structure, CallIsActive
    <3>2. CASE Known(c) /\ Apply(c)
      BY <1>a, <3>1, <3>2
    <3>3. CASE UNCHANGED <<ord, held, campaign>>
      BY <1>q, <3>1, <3>3
    <3> QED BY <2>5, <3>2, <3>3 DEF CancelEnd
  <2> QED BY <1>2, <2>1, <2>2, <2>3, <2>4, <2>5 DEF Manager
<1>3. ASSUME NEW c \in Ids, Venue(c) PROVE ReportedIsKnown'
  <2>1. ord' = ord /\ \A d \in Ids : d # c => ex'[d] = ex[d]
    BY <1>3 DEF Venue, Arrive, Lose, Trigger, Execute, Close, Structure, Shapes
  <2>2. Known(c) => Known(c)'
    <3>1. CASE Arrive(c, Accepts(c)) \/ Arrive(c, "refused")
      BY <3>1 DEF Arrive, Structure, WireIsFresh, Known, NoRow
    <3>2. CASE Lose(c) \/ Trigger(c) \/ Execute(c) \/ Close(c)
      BY <3>2 DEF Lose, Trigger, Execute, Close, Structure, Shapes, Row, Known
    <3> QED BY <1>3, <3>1, <3>2 DEF Venue
  <2> QED BY <2>1, <2>2 DEF ReportedIsKnown, Known
<1> QED BY <1>1, <1>2, <1>3 DEF Next

\* What is held, with what a buy may still add, stays within the largest holding.
LEMMA NextHeldIsBounded == Structure /\ HeldIsBounded /\ [Next]_vars => HeldIsBounded'
<1> SUFFICES ASSUME Structure, HeldIsBounded, [Next]_vars PROVE HeldIsBounded'
  OBVIOUS
<1>q. ASSUME held' = held,
             \A c \in Ids : IsActive(c)' => /\ IsActive(c) /\ Side(c)' = Side(c)
                                            /\ ord'[c].qty = ord[c].qty
                                            /\ ord'[c].filled = ord[c].filled
      PROVE  HeldIsBounded'
  BY <1>q DEF HeldIsBounded
<1>a. ASSUME NEW c \in Ids, IsActive(c), Known(c), Apply(c)
      PROVE  HeldIsBounded'
  <2>1. \A d \in Ids : (IsActive(d)' => IsActive(d)) /\ Side(d)' = Side(d)
    BY <1>a, ApplyOrder DEF IsActive, Side
  <2>2. /\ held \in Nat /\ held' \in Nat /\ ord[c].filled \in Nat /\ ex[c].done \in Nat
        /\ ord[c].qty \in Nat /\ ord[c].filled <= ex[c].done /\ ex[c].done <= ord[c].qty
        /\ MaxHeld \in Nat
    BY <1>a, ApplyOrder, OmsAssumption DEF Structure, Shapes, Row, Order, FilledBetween, OmsAssumption
  <2>3. CASE Side(c) = "SELL"
    <3>1. held' <= held
      BY <1>a, <2>2, <2>3, ApplyOrder
    <3>2. \A d \in Ids : IsActive(d) /\ Side(d) = "BUY" => ord'[d] = ord[d]
      BY <1>a, <2>3, ApplyOrder
    <3>3. \A d \in Ids : ord[d].qty \in Nat /\ ord[d].filled \in Nat
      BY DEF Structure, Shapes, Order
    <3> QED BY <2>1, <2>2, <3>1, <3>2, <3>3 DEF HeldIsBounded
  <2>4. CASE Side(c) = "BUY"
    <3>1. \A d \in Ids : IsActive(d) /\ Side(d) = "BUY" => d = c
      BY <1>a, <2>4 DEF Structure, OneActivePerSide
    <3>2. held' + (ord'[c].qty - ord'[c].filled) = held + (ord[c].qty - ord[c].filled)
          /\ held' <= held + (ord[c].qty - ord[c].filled)
      BY <1>a, <2>2, <2>4, ApplyOrder
    <3>3. held + (ord[c].qty - ord[c].filled) <= MaxHeld
      BY <1>a, <2>4 DEF HeldIsBounded
    <3> QED BY <2>1, <2>2, <3>1, <3>2, <3>3 DEF HeldIsBounded
  <2> QED BY <1>a, <2>3, <2>4, ApplyOrder
<1>1. CASE UNCHANGED vars \/ FinishFlat \/ Halt \/ Crash
  BY <1>1, <1>q DEF vars, FinishFlat, Halt, Crash, IsActive, Side
<1>2. ASSUME NEW c \in Ids, Manager(c) PROVE HeldIsBounded'
  <2>1. ASSUME NEW role \in Roles, NEW q \in 1..MaxQty, SubmitIntent(c, role, q)
        PROVE  HeldIsBounded'
    <3>1. /\ ord'[c].qty = q /\ ord'[c].filled = 0 /\ ord'[c].role = role /\ held' = held
          /\ \A d \in Ids : d # c => ord'[d] = ord[d]
      BY <2>1 DEF SubmitIntent, Structure, Shapes
    <3>2. q \in Nat /\ held \in Nat
      BY OmsAssumption DEF OmsAssumption, Structure, Shapes
    <3>3. Side(c)' = "BUY" => held + q <= MaxHeld
      BY <2>1, <3>1 DEF SubmitIntent, Side, SideOf, Roles, SellRoles
    <3>4. \A d \in Ids : d # c => (IsActive(d)' <=> IsActive(d)) /\ Side(d)' = Side(d)
      BY <3>1 DEF IsActive, Side
    <3> QED BY <3>1, <3>2, <3>3, <3>4 DEF HeldIsBounded
  <2>2. CASE Expire(c) \/ AnswerOk(c) \/ AnswerRefused(c) \/ AnswerLost(c) \/ CancelStart(c)
    <3>1. IsActive(c)
      BY <2>2 DEF Expire, AnswerOk, AnswerRefused, AnswerLost, CancelStart, Structure, CallIsActive,
         IsActive, Working
    <3>2. \A d \in Ids : /\ ord'[d].role = ord[d].role /\ ord'[d].qty = ord[d].qty
                         /\ ord'[d].filled = ord[d].filled
                         /\ ord'[d].st = ord[d].st \/ d = c
      BY <2>2 DEF Expire, AnswerOk, AnswerRefused, AnswerLost, CancelStart, Structure, Shapes, Order
    <3> QED BY <1>q, <2>2, <3>1, <3>2 DEF Expire, AnswerOk, AnswerRefused, AnswerLost, CancelStart,
            IsActive, Side
  <2>3. CASE Transmit(c) \/ ReconcileOverdue(c)
    BY <1>q, <2>3 DEF Transmit, ReconcileOverdue, IsActive, Side
  <2>4. CASE Reconcile(c)
    BY <1>a, <2>4 DEF Reconcile
  <2>5. CASE Archive(c)
    BY <1>q, <2>5 DEF Archive, IsActive, Working, NoOrder, Side, Structure, Shapes
  <2>6. CASE CancelEnd(c)
    <3>1. IsActive(c)
      BY <2>6 DEF CancelEnd, Structure, CallIsActive
    <3>2. CASE Known(c) /\ Apply(c)
      BY <1>a, <3>1, <3>2
    <3>3. CASE UNCHANGED <<ord, held, campaign>>
      BY <1>q, <3>3 DEF IsActive, Side
    <3> QED BY <2>6, <3>2, <3>3 DEF CancelEnd
  <2> QED BY <1>2, <2>1, <2>2, <2>3, <2>4, <2>5, <2>6 DEF Manager
<1>3. ASSUME NEW c \in Ids, Venue(c) PROVE HeldIsBounded'
  BY <1>3, <1>q DEF Venue, Arrive, Lose, Trigger, Execute, Close, IsActive, Side
<1> QED BY <1>1, <1>2, <1>3 DEF Next
=============================================================================
