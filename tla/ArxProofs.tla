------------------------------- MODULE ArxProofs -------------------------------
(***************************************************************************)
(* What the components of the ARX campaign keep for every value of their   *)
(* constants, each from an inductive invariant of its own.                 *)
(*   The order engine (EngineInv): no intention is handed to the exchange  *)
(* twice, a finished row is finished, and the reductions that may still    *)
(* sell fit in the position, however often the process dies.               *)
(*   The durable loss state (RiskInv): it keeps every halt it was given.   *)
(*   The sizing (SizingInv): the search and the caps it respects.          *)
(*   The event ledger (LedgerInv): what is allocated was earned once.      *)
(*   The strategy (PhasesInv): half of a ride is never taken as profit.    *)
(*   The paper accumulation (PaperInv): funding, budget and notices.       *)
(***************************************************************************)
EXTENDS ArxEngine, ArxRisk, ArxSizing, ArxLedger, ArxStrategy, ArxPaper, Sums, TLAPS

(***************************************************************************)
(* The order engine.                                                       *)
(***************************************************************************)

\* Before it is submitted an intention has left no trace anywhere.
NeverSentIsNowhere == \A i \in Intents :
    /\ order[i].st \in {"none", "reserved"} => sends[i] = 0
    /\ sends[i] = 0 => i \notin wire /\ venue[i].st = "none"

\* The call in progress is about a row saved as submitting, and one that has not
\* left yet belongs to an intention that never left.
CallIsSaved == \A i \in Intents : call.on = i =>
    /\ order[i].st = "submitting"
    /\ ~call.sent => sends[i] = 0

\* The exchange fills what it accepted and no more, and the engine is never
\* ahead of it.
VenueIsConsistent == \A i \in Intents :
    /\ i \in wire => venue[i].st = "none"
    /\ venue[i].st = "none" => venue[i].filled = 0
    /\ venue[i].st = "live" => venue[i].filled < Quantity[i]
    /\ venue[i].filled <= Quantity[i]
    /\ order[i].filled <= venue[i].filled

EngineInv ==
    /\ EngineTypeOK /\ SentAtMostOnce /\ TerminalIsTrue
    /\ NeverSentIsNowhere /\ CallIsSaved /\ VenueIsConsistent

----------------------------------------------------------------------------

\* The statuses, spelled out once.
LEMMA Statuses ==
    /\ DOMAIN Transitions = {"reserved", "submitting", "acknowledged", "result_unknown",
                             "open", "partially_filled", "cancel_pending", "filled",
                             "canceled", "rejected"}
    /\ Terminal \subseteq DOMAIN Transitions
    /\ "none" \notin DOMAIN Transitions
  BY DEF Transitions, Terminal

\* A transition the table allows never returns to reserved nor leaves a final status.
LEMMA Steps ==
    ASSUME NEW old \in DOMAIN Transitions, NEW new \in Transitions[old]
    PROVE  /\ new \in DOMAIN Transitions \ {"reserved"}
           /\ old \in Terminal => new = old
  BY DEF Transitions, Terminal

\* Tightening the risk state yields a risk state.
LEMMA ControlTypes ==
    /\ DOMAIN Rank = {"NORMAL", "PAUSE_ENTRIES", "EXIT_ONLY", "EMERGENCY_HALT"}
    /\ control \in DOMAIN Rank => \A s \in DOMAIN Rank : Tightened(s) \in DOMAIN Rank
  BY DEF Rank, Tightened

\* How a row, an order at the exchange and the call in progress may be changed.
LEMMA RowUpdates ==
    /\ NoRow \in OrderRow
    /\ [NoRow EXCEPT !.st = "reserved", !.fresh = TRUE] \in OrderRow
    /\ \A r \in OrderRow : /\ r.st \in DOMAIN Transitions \union {"none"}
                           /\ r.filled \in Nat /\ r.rec \in BOOLEAN
                           /\ [r EXCEPT !.fresh = FALSE] \in OrderRow
                           /\ [r EXCEPT !.rec = TRUE] \in OrderRow
    /\ \A r \in OrderRow, s \in DOMAIN Transitions : [r EXCEPT !.st = s] \in OrderRow
    /\ \A r \in OrderRow, s \in DOMAIN Transitions, b \in BOOLEAN :
          [r EXCEPT !.st = s, !.rec = b] \in OrderRow
<1>1. "reserved" \in DOMAIN Transitions
  BY Statuses
<1> QED BY <1>1 DEF OrderRow, NoRow

\* A row marked for reconciliation is a row with the same status and fills.
LEMMA MarkRow ==
    ASSUME NEW r \in OrderRow
    PROVE  /\ [r EXCEPT !.rec = TRUE] \in OrderRow
           /\ [r EXCEPT !.rec = TRUE].st = r.st /\ [r EXCEPT !.rec = TRUE].filled = r.filled
  BY DEF OrderRow

\* A row in another status is a row with the same fills.
LEMMA MoveRow ==
    ASSUME NEW r \in OrderRow, NEW s \in DOMAIN Transitions
    PROVE  /\ [r EXCEPT !.st = s] \in OrderRow
           /\ [r EXCEPT !.st = s].st = s /\ [r EXCEPT !.st = s].filled = r.filled
  BY DEF OrderRow

\* A row with what a report says is a row.
LEMMA ReportRow ==
    ASSUME NEW r \in OrderRow, NEW s \in DOMAIN Transitions, NEW n \in Nat, NEW b \in BOOLEAN,
           NEW p \in {"unverified", "active", "insufficient"}
    PROVE  [r EXCEPT !.st = s, !.filled = n, !.prot = p, !.rec = b] \in OrderRow
  BY DEF OrderRow

\* How an order at the exchange may be changed.
LEMMA VenueUpdates ==
    /\ [st |-> "none", filled |-> 0] \in VenueOrder
    /\ \A v \in VenueOrder : /\ v.st \in {"none", "live", "filled", "canceled"}
                             /\ v.filled \in Nat
    /\ \A v \in VenueOrder, s \in {"live", "canceled"} : [v EXCEPT !.st = s] \in VenueOrder
    /\ \A v \in VenueOrder, s \in {"live", "filled"} :
          [v EXCEPT !.filled = v.filled + 1, !.st = s] \in VenueOrder
<1>1. \A v \in VenueOrder : v.st \in {"none", "live", "filled", "canceled"} /\ v.filled \in Nat
  BY DEF VenueOrder
<1>2. \A v \in VenueOrder : v.filled + 1 \in Nat
  BY <1>1
<1> QED BY <1>1, <1>2 DEF VenueOrder

\* How the call in progress may be changed.
LEMMA CallUpdates ==
    /\ Idle \in CallState
    /\ \A i \in Intents : [on |-> i, sent |-> FALSE] \in CallState
    /\ \A c \in CallState : [c EXCEPT !.sent = TRUE] \in CallState
  BY DEF CallState, Idle

\* The initial state.
LEMMA InitEngineInv == EngineInit => EngineInv
<1> SUFFICES ASSUME EngineInit PROVE EngineInv
  OBVIOUS
<1> USE EngineAssumption DEF EngineAssumption
<1>1. /\ \A i \in Intents : order[i] = NoRow /\ sends[i] = 0
      /\ \A i \in Intents : venue[i].st = "none" /\ venue[i].filled = 0
      /\ wire = {} /\ call.on = NoCall
  BY DEF EngineInit, Idle
<1>2. NoRow.st = "none" /\ NoRow.filled = 0
  BY DEF NoRow
<1>3. EngineTypeOK
  BY RowUpdates, VenueUpdates, CallUpdates, ControlTypes DEF EngineTypeOK, EngineInit
<1>4. SentAtMostOnce /\ NeverSentIsNowhere /\ CallIsSaved /\ VenueIsConsistent
  BY <1>1, <1>2 DEF SentAtMostOnce, NeverSentIsNowhere, CallIsSaved, VenueIsConsistent
<1>5. TerminalIsTrue
  BY <1>1, <1>2 DEF TerminalIsTrue, Rows
<1> QED BY <1>3, <1>4, <1>5 DEF EngineInv

\* Opening, closing, dying: no row, no request and nothing at the exchange changes.
LEMMA ProcessSteps ==
    ASSUME EngineInv, OpenEngine \/ CloseEngine \/ CrashEngine \/ OperatorRemovesLock
    PROVE  EngineInv'
<1>1. UNCHANGED <<order, control, wire, venue, sends>> /\ (call' = call \/ call' = Idle)
  BY DEF OpenEngine, CloseEngine, CrashEngine, OperatorRemovesLock
<1>2. EngineTypeOK'
  <2>1. reconciled' \in BOOLEAN /\ process' \in {"down", "up", "dead"}
    BY DEF OpenEngine, CloseEngine, CrashEngine, OperatorRemovesLock, EngineInv, EngineTypeOK
  <2> QED BY <1>1, <2>1, CallUpdates DEF EngineInv, EngineTypeOK
<1>3. CallIsSaved'
  BY <1>1, EngineAssumption DEF EngineAssumption, EngineInv, CallIsSaved, Idle
<1>4. (SentAtMostOnce /\ TerminalIsTrue /\ NeverSentIsNowhere /\ VenueIsConsistent)'
  BY <1>1 DEF EngineInv, SentAtMostOnce, TerminalIsTrue, NeverSentIsNowhere,
     VenueIsConsistent, Rows
<1> QED BY <1>2, <1>3, <1>4 DEF EngineInv

\* Creating a row, letting its approval expire, and the three steps of submit.
LEMMA SubmitSteps ==
    ASSUME EngineInv, NEW i \in Intents,
           Reserve(i) \/ ApprovalExpires(i) \/ SubmitSaved(i) \/ SubmitSent(i)
    PROVE  EngineInv'
<1> USE EngineAssumption DEF EngineAssumption
<1>1. ASSUME Reserve(i) PROVE EngineInv'
  <2>1. /\ order' = [order EXCEPT ![i] = [NoRow EXCEPT !.st = "reserved", !.fresh = TRUE]]
        /\ UNCHANGED <<control, reconciled, process, call, wire, venue, sends>>
        /\ order[i].st = "none" /\ call = Idle
    BY <1>1 DEF Reserve, Ready
  <2>2. NoRow.filled = 0
    BY DEF NoRow
  <2>3. EngineTypeOK'
    BY <2>1, RowUpdates DEF EngineInv, EngineTypeOK
  <2>4. order'[i].st = "reserved" /\ order'[i].filled = 0
        /\ \A j \in Intents : j # i => order'[j] = order[j]
    BY <2>1, <2>2 DEF EngineInv, EngineTypeOK, NoRow
  <2>5. (SentAtMostOnce /\ NeverSentIsNowhere /\ CallIsSaved /\ VenueIsConsistent)'
    BY <2>1, <2>4 DEF EngineInv, EngineTypeOK, SentAtMostOnce, NeverSentIsNowhere,
       CallIsSaved, VenueIsConsistent, Idle
  <2>6. TerminalIsTrue'
    BY <2>1, <2>4 DEF EngineInv, TerminalIsTrue, Rows, Terminal
  <2> QED BY <2>3, <2>5, <2>6 DEF EngineInv
<1>2. ASSUME ApprovalExpires(i) PROVE EngineInv'
  <2>1. /\ order' = [order EXCEPT ![i].fresh = FALSE]
        /\ UNCHANGED <<control, reconciled, process, call, wire, venue, sends>>
    BY <1>2 DEF ApprovalExpires
  <2>2. EngineTypeOK'
    BY <2>1, RowUpdates DEF EngineInv, EngineTypeOK
  <2>3. \A j \in Intents : order'[j].st = order[j].st /\ order'[j].filled = order[j].filled
    BY <2>1 DEF EngineInv, EngineTypeOK
  <2>4. (SentAtMostOnce /\ NeverSentIsNowhere /\ CallIsSaved /\ VenueIsConsistent)'
    BY <2>1, <2>3 DEF EngineInv, SentAtMostOnce, NeverSentIsNowhere, CallIsSaved,
       VenueIsConsistent
  <2>5. TerminalIsTrue'
    BY <2>1, <2>3 DEF EngineInv, TerminalIsTrue, Rows
  <2> QED BY <2>2, <2>4, <2>5 DEF EngineInv
<1>3. ASSUME SubmitSaved(i) PROVE EngineInv'
  <2>1. /\ order' = [order EXCEPT ![i].st = "submitting"]
        /\ call' = [on |-> i, sent |-> FALSE]
        /\ UNCHANGED <<control, reconciled, process, wire, venue, sends>>
        /\ order[i].st = "reserved" /\ call = Idle
    BY <1>3 DEF SubmitSaved, MaySubmit, Ready
  <2>2. EngineTypeOK'
    BY <2>1, Statuses, RowUpdates, CallUpdates DEF EngineInv, EngineTypeOK
  <2>3. order'[i].st = "submitting" /\ order'[i].filled = order[i].filled
        /\ \A j \in Intents : j # i => order'[j] = order[j]
    BY <2>1 DEF EngineInv, EngineTypeOK
  <2>4. (SentAtMostOnce /\ NeverSentIsNowhere /\ CallIsSaved /\ VenueIsConsistent)'
    BY <2>1, <2>3 DEF EngineInv, EngineTypeOK, SentAtMostOnce, NeverSentIsNowhere,
       CallIsSaved, VenueIsConsistent
  <2>5. TerminalIsTrue'
    BY <2>1, <2>3 DEF EngineInv, TerminalIsTrue, Rows, Terminal
  <2> QED BY <2>2, <2>4, <2>5 DEF EngineInv
<1>4. ASSUME SubmitSent(i) PROVE EngineInv'
  <2>1. /\ call = [on |-> i, sent |-> FALSE] /\ call' = [call EXCEPT !.sent = TRUE]
        /\ wire' = wire \union {i} /\ sends' = [sends EXCEPT ![i] = @ + 1]
        /\ UNCHANGED <<order, control, reconciled, process, venue>>
    BY <1>4 DEF SubmitSent
  <2>2. order[i].st = "submitting" /\ sends[i] = 0 /\ venue[i].st = "none"
    BY <2>1 DEF EngineInv, CallIsSaved, NeverSentIsNowhere
  <2>3. EngineTypeOK'
    BY <2>1, CallUpdates DEF EngineInv, EngineTypeOK
  <2>4. sends'[i] = 1 /\ call'.sent /\ \A j \in Intents : j # i => sends'[j] = sends[j]
    BY <2>1, <2>2 DEF EngineInv, EngineTypeOK
  <2>5. (SentAtMostOnce /\ NeverSentIsNowhere /\ CallIsSaved /\ VenueIsConsistent)'
    BY <2>1, <2>2, <2>4 DEF EngineInv, EngineTypeOK, SentAtMostOnce, NeverSentIsNowhere,
       CallIsSaved, VenueIsConsistent
  <2>6. TerminalIsTrue'
    BY <2>1, <2>2 DEF EngineInv, TerminalIsTrue, Rows, Terminal
  <2> QED BY <2>3, <2>5, <2>6 DEF EngineInv
<1> QED BY <1>1, <1>2, <1>3, <1>4

\* The answer, or none: only a refusal finishes the row, and it leaves the
\* exchange without the order.
LEMMA AnswerSteps ==
    ASSUME EngineInv, NEW i \in Intents,
           SubmitAcknowledged(i) \/ SubmitAmbiguous(i) \/ SubmitRejected(i) \/ SubmitRaises(i)
    PROVE  EngineInv'
<1> USE EngineAssumption DEF EngineAssumption
<1>1. /\ call.on = i /\ call.sent /\ call' = Idle /\ UNCHANGED <<reconciled, process, venue, sends>>
      /\ control' \in DOMAIN Rank
      /\ wire' \subseteq wire /\ \A j \in Intents : j # i => (j \in wire' <=> j \in wire)
  BY ControlTypes DEF SubmitAcknowledged, SubmitAmbiguous, SubmitRejected, SubmitRaises,
     Answered, EngineInv, EngineTypeOK
<1>2. order[i].st = "submitting" /\ sends[i] \in Nat
  BY <1>1 DEF EngineInv, CallIsSaved, EngineTypeOK
<1>3. /\ order' \in [Intents -> OrderRow]
      /\ order'[i].st \in {"submitting", "acknowledged", "result_unknown", "rejected"}
      /\ order'[i].filled = order[i].filled
      /\ \A j \in Intents : j # i => order'[j] = order[j]
      /\ order'[i].st = "rejected" => i \in wire /\ i \notin wire'
  <2> order \in [Intents -> OrderRow]
    BY DEF EngineInv, EngineTypeOK
  <2>1. CASE SubmitAcknowledged(i)
    <3>1. order' = [order EXCEPT ![i].st = "acknowledged"]
      BY <2>1 DEF SubmitAcknowledged
    <3>2. [order[i] EXCEPT !.st = "acknowledged"] \in OrderRow
      BY RowUpdates, Statuses
    <3>3. order'[i].st = "acknowledged" /\ order'[i].filled = order[i].filled
      BY <3>1 DEF OrderRow
    <3> QED BY <3>1, <3>2, <3>3
  <2>2. CASE SubmitAmbiguous(i)
    <3>1. order' = [order EXCEPT ![i].st = "result_unknown", ![i].rec = TRUE]
      BY <2>2 DEF SubmitAmbiguous
    <3>2. [order[i] EXCEPT !.st = "result_unknown", !.rec = TRUE] \in OrderRow
      BY RowUpdates, Statuses
    <3>3. order'[i].st = "result_unknown" /\ order'[i].filled = order[i].filled
      BY <3>1 DEF OrderRow
    <3> QED BY <3>1, <3>2, <3>3
  <2>3. CASE SubmitRejected(i)
    <3>1. /\ order' = [order EXCEPT ![i].st = "rejected"]
          /\ i \in wire /\ wire' = wire \ {i}
      BY <2>3 DEF SubmitRejected
    <3>2. [order[i] EXCEPT !.st = "rejected"] \in OrderRow
      BY RowUpdates, Statuses
    <3>3. order'[i].st = "rejected" /\ order'[i].filled = order[i].filled
      BY <3>1 DEF OrderRow
    <3> QED BY <3>1, <3>2, <3>3
  <2>4. CASE SubmitRaises(i)
    BY <2>4, <1>2 DEF SubmitRaises
  <2> QED BY <2>1, <2>2, <2>3, <2>4
<1>4. EngineTypeOK'
  BY <1>1, <1>3, CallUpdates DEF EngineInv, EngineTypeOK
<1>5. CallIsSaved'
  BY <1>1 DEF CallIsSaved, Idle
<1>6. sends[i] # 0 \/ ~(i \in wire)
  BY DEF EngineInv, NeverSentIsNowhere
<1>7. (SentAtMostOnce /\ NeverSentIsNowhere /\ VenueIsConsistent)'
  BY <1>1, <1>2, <1>3, <1>6 DEF EngineInv, EngineTypeOK, SentAtMostOnce,
     NeverSentIsNowhere, VenueIsConsistent
<1>8. TerminalIsTrue'
  <2>1. CASE order'[i].st = "rejected"
    <3>0. order[i].filled \in Nat
      BY RowUpdates DEF EngineInv, EngineTypeOK
    <3>1. venue[i].st = "none" /\ venue[i].filled = 0 /\ order[i].filled = 0
      BY <1>3, <2>1, <3>0 DEF EngineInv, VenueIsConsistent
    <3> QED BY <1>1, <1>3, <2>1, <3>1 DEF EngineInv, TerminalIsTrue, Rows
  <2>2. CASE order'[i].st # "rejected"
    BY <1>1, <1>3, <2>2 DEF EngineInv, TerminalIsTrue, Rows, Terminal
  <2> QED BY <2>1, <2>2
<1> QED BY <1>4, <1>5, <1>7, <1>8 DEF EngineInv

\* The exchange takes a request, loses one, fills, or ends an order.  Quantity is
\* never exceeded, and an order with a finished row has nothing left to do.
LEMMA VenueSteps ==
    ASSUME EngineInv, NEW i \in Intents,
           VenueAccepts(i) \/ RequestLost(i) \/ VenueFills(i) \/ VenueCancels(i)
    PROVE  EngineInv'
<1> USE EngineAssumption DEF EngineAssumption
<1>1. /\ UNCHANGED <<order, control, reconciled, process, call, sends>>
      /\ wire' = wire \/ (i \in wire /\ wire' = wire \ {i})
      /\ i \in wire \/ venue[i].st = "live"
  BY DEF VenueAccepts, RequestLost, VenueFills, VenueCancels
<1>2. venue[i] \in VenueOrder /\ venue[i].filled \in Nat /\ Quantity[i] \in Nat \ {0}
  BY VenueUpdates DEF EngineInv, EngineTypeOK
<1>3. /\ venue' \in [Intents -> VenueOrder]
      /\ \A j \in Intents : j # i => venue'[j] = venue[j]
      /\ venue'[i].st = "none" => venue'[i] = venue[i]
      /\ venue'[i].st = "live" => venue'[i].filled < Quantity[i]
      /\ venue'[i].filled <= Quantity[i] /\ venue[i].filled <= venue'[i].filled
      /\ i \in wire' => venue'[i] = venue[i]
  <2> venue \in [Intents -> VenueOrder]
    BY DEF EngineInv, EngineTypeOK
  <2>1. CASE VenueAccepts(i)
    <3>1. i \in wire /\ wire' = wire \ {i} /\ venue' = [venue EXCEPT ![i].st = "live"]
      BY <2>1 DEF VenueAccepts
    <3>2. venue[i].st = "none" /\ venue[i].filled = 0
      BY <3>1 DEF EngineInv, VenueIsConsistent
    <3>3. [venue[i] EXCEPT !.st = "live"] \in VenueOrder
      BY VenueUpdates
    <3>4. venue'[i].st = "live" /\ venue'[i].filled = 0
      BY <1>2, <3>1, <3>2 DEF VenueOrder
    <3> QED BY <1>2, <3>1, <3>2, <3>3, <3>4
  <2>2. CASE RequestLost(i)
    BY <1>2, <2>2 DEF RequestLost, EngineInv, VenueIsConsistent
  <2>3. CASE VenueFills(i)
    <3> DEFINE s == IF venue[i].filled + 1 = Quantity[i] THEN "filled" ELSE venue[i].st
    <3>1. /\ venue[i].st = "live" /\ UNCHANGED wire
          /\ venue' = [venue EXCEPT ![i].filled = venue[i].filled + 1, ![i].st = s]
      BY <2>3 DEF VenueFills
    <3>2. venue[i].filled < Quantity[i] /\ i \notin wire
      BY <3>1 DEF EngineInv, VenueIsConsistent
    <3>3. s \in {"live", "filled"}
      BY <3>1
    <3>4. [venue[i] EXCEPT !.filled = venue[i].filled + 1, !.st = s] \in VenueOrder
      BY <1>2, <3>3, VenueUpdates
    <3>5. venue'[i].st = s /\ venue'[i].filled = venue[i].filled + 1
      BY <1>2, <3>1 DEF VenueOrder
    <3> QED BY <1>2, <3>1, <3>2, <3>3, <3>4, <3>5
  <2>4. CASE VenueCancels(i)
    <3>1. /\ venue[i].st = "live" /\ UNCHANGED wire
          /\ venue' = [venue EXCEPT ![i].st = "canceled"]
      BY <2>4 DEF VenueCancels
    <3>2. venue[i].filled <= Quantity[i] /\ i \notin wire
      BY <3>1 DEF EngineInv, VenueIsConsistent
    <3>3. [venue[i] EXCEPT !.st = "canceled"] \in VenueOrder
      BY <1>2, VenueUpdates
    <3>4. venue'[i].st = "canceled" /\ venue'[i].filled = venue[i].filled
      BY <1>2, <3>1 DEF VenueOrder
    <3> QED BY <1>2, <3>1, <3>2, <3>3, <3>4
  <2> QED BY <2>1, <2>2, <2>3, <2>4
<1>4. ~(i \in Rows /\ order[i].st \in Terminal)
  BY <1>1 DEF EngineInv, TerminalIsTrue
<1>5. EngineTypeOK'
  BY <1>1, <1>3 DEF EngineInv, EngineTypeOK
<1>6. (SentAtMostOnce /\ CallIsSaved)'
  BY <1>1 DEF EngineInv, SentAtMostOnce, CallIsSaved
<1>7. NeverSentIsNowhere'
  BY <1>1, <1>3 DEF EngineInv, NeverSentIsNowhere, VenueIsConsistent
<1>8. VenueIsConsistent'
  <2>1. order[i].filled \in Nat /\ venue'[i].filled \in Nat
    BY <1>3, RowUpdates, VenueUpdates DEF EngineInv, EngineTypeOK
  <2>2. order[i].filled <= venue'[i].filled
    BY <1>2, <1>3, <2>1 DEF EngineInv, VenueIsConsistent
  <2>3. i \in wire' => venue'[i].st = "none"
    BY <1>1, <1>3 DEF EngineInv, VenueIsConsistent
  <2>4. venue'[i].st = "none" => venue'[i].filled = 0
    BY <1>3 DEF EngineInv, VenueIsConsistent
  <2> QED BY <1>1, <1>3, <2>2, <2>3, <2>4 DEF EngineInv, VenueIsConsistent
<1>9. TerminalIsTrue'
  BY <1>1, <1>3, <1>4 DEF EngineInv, TerminalIsTrue, Rows
<1> QED BY <1>5, <1>6, <1>7, <1>8, <1>9 DEF EngineInv

\* A report books no more than the exchange filled, and finishes a row only when
\* the exchange has finished the order.
LEMMA ReconcileSteps ==
    ASSUME EngineInv, NEW i \in Intents, ReconcileReport(i) \/ ReconcileNotFound(i)
    PROVE  EngineInv'
<1> USE EngineAssumption DEF EngineAssumption
<1>0. order \in [Intents -> OrderRow] /\ venue[i] \in VenueOrder /\ venue[i].filled \in Nat
      /\ Quantity[i] \in Nat \ {0} /\ order[i].filled \in Nat
  BY VenueUpdates, RowUpdates DEF EngineInv, EngineTypeOK
<1>1. /\ UNCHANGED <<reconciled, process, call, wire, venue, sends>>
      /\ call = Idle /\ control' \in DOMAIN Rank
  BY ControlTypes DEF ReconcileReport, Reconcile, ReconcileNotFound, Ready, EngineInv, EngineTypeOK
<1>2. /\ order' \in [Intents -> OrderRow]
      /\ \A j \in Intents : j # i => order'[j] = order[j]
      /\ order'[i].filled <= venue[i].filled
      /\ order'[i].st = order[i].st \/ order'[i].st \notin {"none", "reserved"}
      /\ order'[i].st \in Terminal => i \notin wire /\ venue[i].st # "live"
                                     /\ order'[i].filled = venue[i].filled
  <2>1. CASE ReconcileNotFound(i)
    <3>1. /\ order' = [order EXCEPT ![i].st = "rejected", ![i].rec = FALSE]
          /\ venue[i].st = "none" /\ i \notin wire
      BY <2>1 DEF ReconcileNotFound
    <3>2. [order[i] EXCEPT !.st = "rejected", !.rec = FALSE] \in OrderRow
      BY <1>0, RowUpdates, Statuses
    <3>3. order'[i].st = "rejected" /\ order'[i].filled = order[i].filled
      BY <1>0, <3>1 DEF OrderRow
    <3>4. venue[i].filled = 0 /\ order[i].filled = 0
      BY <1>0, <3>1 DEF EngineInv, VenueIsConsistent
    <3> QED BY <1>0, <3>1, <3>2, <3>3, <3>4
  <2>2. CASE ReconcileReport(i)
    <3>0. PICK f \in 0..venue[i].filled :
            \E status \in Reported(i, f), covered \in BOOLEAN : Reconcile(i, f, status, covered)
      BY <2>2 DEF ReconcileReport
    <3>1. PICK status \in Reported(i, f), covered \in BOOLEAN : Reconcile(i, f, status, covered)
      BY <3>0
    <3> DEFINE old == order[i].st
               new == StatusFor(i, f, status)
               prot == ProtectionAfter(i, covered)
               rec == IF old = "result_unknown" THEN FALSE ELSE order[i].rec
    <3>2. /\ i \in Rows /\ f >= order[i].filled
          /\ new = old \/ new \in Transitions[old]
          /\ order' = [order EXCEPT ![i].st = new, ![i].filled = f, ![i].prot = prot,
                                    ![i].rec = rec]
      BY <3>1 DEF Reconcile
    <3>3. old \in DOMAIN Transitions
      BY <1>0, <3>2, RowUpdates DEF Rows
    <3>4. new \in DOMAIN Transitions /\ (new = old \/ new \notin {"none", "reserved"})
          /\ (old \in Terminal => new = old)
      BY <3>2, <3>3, Steps, Statuses
    <3>5. prot \in {"unverified", "active", "insufficient"} /\ rec \in BOOLEAN
      BY <1>0 DEF ProtectionAfter, OrderRow
    <3>6. [order[i] EXCEPT !.st = new, !.filled = f, !.prot = prot, !.rec = rec] \in OrderRow
      <4>1. order[i] \in OrderRow /\ f \in Nat
        BY <1>0
      <4> QED BY <4>1, <3>4, <3>5, ReportRow
    <3>7. order'[i].st = new /\ order'[i].filled = f
      BY <1>0, <3>2 DEF OrderRow
    <3>8. ASSUME new \in Terminal
          PROVE  i \notin wire /\ venue[i].st # "live" /\ f = venue[i].filled
      <4>1. i \notin wire /\ (venue[i].st = "live" => venue[i].filled < Quantity[i])
            /\ venue[i].filled <= Quantity[i]
        BY <2>2 DEF ReconcileReport, EngineInv, VenueIsConsistent
      <4>2. CASE f = 0
        <5>1. status = new /\ status = "canceled"
          BY <3>8, <4>2 DEF StatusFor, Reported, Terminal
        <5> QED BY <4>1, <4>2, <5>1 DEF Reported
      <4>3. CASE f # 0
        BY <1>0, <3>8, <4>1, <4>3 DEF StatusFor, Terminal
      <4> QED BY <4>2, <4>3
    <3> QED BY <1>0, <3>2, <3>4, <3>6, <3>7, <3>8
  <2> QED BY <2>1, <2>2
<1>3. EngineTypeOK'
  BY <1>1, <1>2 DEF EngineInv, EngineTypeOK
<1>4. (SentAtMostOnce /\ NeverSentIsNowhere /\ CallIsSaved /\ VenueIsConsistent)'
  BY <1>1, <1>2 DEF EngineInv, EngineTypeOK, SentAtMostOnce, NeverSentIsNowhere, CallIsSaved,
     VenueIsConsistent, Idle
<1>5. TerminalIsTrue'
  BY <1>1, <1>2 DEF EngineInv, TerminalIsTrue, Rows
<1> QED BY <1>3, <1>4, <1>5 DEF EngineInv

\* The controls, the restart and the cancellation of the entries: the only row they
\* finish is one that was never submitted.
LEMMA ControlSteps ==
    ASSUME EngineInv, \/ CancelEntryOrders \/ RequestExit \/ HaltEngine
                      \/ \E clean \in BOOLEAN : ReconcileRestart(clean)
    PROVE  EngineInv'
<1> USE EngineAssumption DEF EngineAssumption
<1>0. order \in [Intents -> OrderRow] /\ control \in DOMAIN Rank
  BY DEF EngineInv, EngineTypeOK
<1>1. /\ UNCHANGED <<process, call, wire, venue, sends>> /\ call = Idle
      /\ control' \in DOMAIN Rank /\ reconciled' \in BOOLEAN
  <2>1. CASE CancelEntryOrders
    BY <1>0, <2>1 DEF CancelEntryOrders, Ready, EngineInv, EngineTypeOK
  <2>2. CASE RequestExit \/ HaltEngine
    BY <1>0, <2>2, ControlTypes DEF RequestExit, HaltEngine, SetControl, Ready, EngineInv,
       EngineTypeOK
  <2>3. ASSUME NEW clean \in BOOLEAN, ReconcileRestart(clean)
        PROVE  /\ UNCHANGED <<process, call, wire, venue, sends>> /\ call = Idle
               /\ control' \in DOMAIN Rank /\ reconciled' \in BOOLEAN
    BY <1>0, <2>3, ControlTypes DEF ReconcileRestart, Ready
  <2> QED BY <2>1, <2>2, <2>3
<1>2. /\ order' \in [Intents -> OrderRow]
      /\ \A j \in Intents :
           /\ order'[j].filled = order[j].filled
           /\ \/ order'[j].st = order[j].st
              \/ order[j].st = "reserved" /\ order'[j].st = "canceled"
              \/ j \in OpenRows /\ order[j].st # "reserved" /\ order'[j].st = "cancel_pending"
  <2>1. CASE CancelEntryOrders
    <3>1. order' = [j \in Intents |-> IF j \in OpenRows \intersect Entries
                                      THEN CanceledEntry(order[j]) ELSE order[j]]
      BY <2>1 DEF CancelEntryOrders
    <3>2. \A r \in OrderRow :
            /\ CanceledEntry(r) \in OrderRow /\ CanceledEntry(r).filled = r.filled
            /\ \/ CanceledEntry(r).st = r.st
               \/ r.st = "reserved" /\ CanceledEntry(r).st = "canceled"
               \/ r.st # "reserved" /\ CanceledEntry(r).st = "cancel_pending"
      <4> SUFFICES ASSUME NEW r \in OrderRow
                   PROVE  /\ CanceledEntry(r) \in OrderRow /\ CanceledEntry(r).filled = r.filled
                          /\ \/ CanceledEntry(r).st = r.st
                             \/ r.st = "reserved" /\ CanceledEntry(r).st = "canceled"
                             \/ r.st # "reserved" /\ CanceledEntry(r).st = "cancel_pending"
        OBVIOUS
      <4>1. CASE r.st \in {"submitting", "result_unknown"}
        <5>1. CanceledEntry(r) = [r EXCEPT !.rec = TRUE]
          BY <4>1 DEF CanceledEntry
        <5> QED BY <5>1, MarkRow
      <4>2. CASE r.st = "reserved"
        <5>1. CanceledEntry(r) = [r EXCEPT !.st = "canceled"]
          BY <4>2 DEF CanceledEntry
        <5>2. "canceled" \in DOMAIN Transitions
          BY Statuses
        <5> QED BY <4>2, <5>1, <5>2, MoveRow
      <4>3. CASE r.st \notin {"submitting", "result_unknown", "reserved"}
        <5>1. CanceledEntry(r) = [r EXCEPT !.st = "cancel_pending"]
          BY <4>3 DEF CanceledEntry
        <5>2. "cancel_pending" \in DOMAIN Transitions
          BY Statuses
        <5> QED BY <4>3, <5>1, <5>2, MoveRow
      <4> QED BY <4>1, <4>2, <4>3
    <3> QED BY <1>0, <3>1, <3>2
  <2>2. CASE RequestExit \/ HaltEngine
    BY <1>0, <2>2 DEF RequestExit, HaltEngine, SetControl
  <2>3. ASSUME NEW clean \in BOOLEAN, ReconcileRestart(clean)
        PROVE  /\ order' \in [Intents -> OrderRow]
               /\ \A j \in Intents : order'[j].filled = order[j].filled /\ order'[j].st = order[j].st
    <3>1. PICK missing \in SUBSET Intents :
            order' = [j \in Intents |-> IF j \in missing THEN [order[j] EXCEPT !.rec = TRUE]
                                        ELSE order[j]]
      <4> DEFINE lost == {j \in OpenRows : venue[j].st # "live"}
      <4>1. lost \in SUBSET Intents
        BY DEF OpenRows, Rows
      <4>2. order' = [j \in Intents |-> IF j \in lost THEN [order[j] EXCEPT !.rec = TRUE]
                                        ELSE order[j]]
        BY <2>3 DEF ReconcileRestart
      <4> QED BY <4>1, <4>2
    <3>2. \A r \in OrderRow : /\ [r EXCEPT !.rec = TRUE] \in OrderRow
                             /\ [r EXCEPT !.rec = TRUE].st = r.st
                             /\ [r EXCEPT !.rec = TRUE].filled = r.filled
      BY MarkRow
    <3> QED BY <1>0, <3>1, <3>2
  <2> QED BY <2>1, <2>2, <2>3
<1>3. EngineTypeOK'
  BY <1>1, <1>2 DEF EngineInv, EngineTypeOK
<1>4. (SentAtMostOnce /\ NeverSentIsNowhere /\ CallIsSaved /\ VenueIsConsistent)'
  BY <1>1, <1>2 DEF EngineInv, SentAtMostOnce, NeverSentIsNowhere, CallIsSaved,
     VenueIsConsistent, Idle
<1>5. TerminalIsTrue'
  <2> SUFFICES ASSUME NEW j \in Intents, j \in Rows', order'[j].st \in Terminal
               PROVE  /\ j \notin wire /\ venue[j].st # "live"
                      /\ order'[j].filled = venue[j].filled
    BY <1>1 DEF TerminalIsTrue, Rows
  <2>1. CASE order'[j].st = order[j].st
    BY <1>2, <2>1 DEF EngineInv, TerminalIsTrue, Rows
  <2>2. CASE order'[j].st # order[j].st
    <3>1. order[j].st = "reserved" /\ order'[j].filled = order[j].filled
      BY <1>2, <2>2 DEF Terminal
    <3>2. venue[j].st = "none" /\ j \notin wire
      BY <3>1 DEF EngineInv, NeverSentIsNowhere
    <3>3. order[j].filled \in Nat
      BY <1>0, RowUpdates
    <3>4. venue[j].filled = 0 /\ order[j].filled <= 0
      BY <3>2 DEF EngineInv, VenueIsConsistent
    <3> QED BY <3>1, <3>2, <3>3, <3>4
  <2> QED BY <2>1, <2>2
<1> QED BY <1>3, <1>4, <1>5 DEF EngineInv

\* Every step keeps the invariant.
LEMMA NextEngineInv == EngineInv /\ [EngineNext]_engineVars => EngineInv'
<1> SUFFICES ASSUME EngineInv, [EngineNext]_engineVars PROVE EngineInv'
  OBVIOUS
<1>1. CASE UNCHANGED engineVars
  <2>1. UNCHANGED <<order, control, reconciled, process, call, wire, venue, sends>>
    BY <1>1 DEF engineVars
  <2> QED BY <2>1 DEF EngineInv, EngineTypeOK, SentAtMostOnce, TerminalIsTrue,
      NeverSentIsNowhere, CallIsSaved, VenueIsConsistent, Rows
<1>2. CASE EngineNext
  BY <1>2, ProcessSteps, SubmitSteps, AnswerSteps, VenueSteps, ReconcileSteps, ControlSteps
     DEF EngineNext
<1> QED BY <1>1, <1>2

----------------------------------------------------------------------------

\* The variables keep their types; an engine's book of rows never holds a status
\* outside the table of transitions.
THEOREM EngineTypesKept == EngineSpec => []EngineTypeOK
<1>1. EngineInv => EngineTypeOK
  BY DEF EngineInv
<1> QED BY <1>1, InitEngineInv, NextEngineInv, PTL DEF EngineSpec

\* Over any number of crashes, restarts and unknown results, an intention is handed
\* to the exchange at most once.
THEOREM SubmittedOnce == EngineSpec => []SentAtMostOnce
<1>1. EngineInv => SentAtMostOnce
  BY DEF EngineInv
<1> QED BY <1>1, InitEngineInv, NextEngineInv, PTL DEF EngineSpec

\* A row in a final status has no order left at the exchange or on its way, and no
\* fill the engine does not know.
THEOREM FinishedMeansFinished == EngineSpec => []TerminalIsTrue
<1>1. EngineInv => TerminalIsTrue
  BY DEF EngineInv
<1> QED BY <1>1, InitEngineInv, NextEngineInv, PTL DEF EngineSpec

(***************************************************************************)
(* The reductions and the position.                                        *)
(***************************************************************************)

\* The reductions that may still sell, and what each of them has left.
Selling == OpenRows \intersect Reductions
Rest == [i \in Intents |-> Quantity[i] - venue[i].filled]

\* The numbers that are added.
LEMMA RestIs ==
    ASSUME EngineInv
    PROVE  /\ IsFiniteSet(Entries) /\ IsFiniteSet(Reductions)
           /\ Selling \subseteq Intents /\ IsFiniteSet(Selling)
           /\ \A i \in Intents : Rest[i] \in Nat /\ VenueFilled[i] \in Nat /\ order[i].filled \in Nat
                                 /\ Quantity[i] \in Nat
           /\ Position \in Int /\ Total(Rest, Selling) \in Int
<1>1. IsFiniteSet(Entries) /\ IsFiniteSet(Reductions)
  BY EngineAssumption, FS_Subset DEF EngineAssumption, Intents
<1>2. Selling \subseteq Intents /\ IsFiniteSet(Selling)
  BY EngineAssumption, FS_Subset DEF Selling, OpenRows, Rows
<1>3. \A i \in Intents : /\ Quantity[i] \in Nat /\ venue[i].filled \in Nat /\ order[i].filled \in Nat
                         /\ venue[i].filled <= Quantity[i]
  BY EngineAssumption, VenueUpdates, RowUpdates DEF EngineInv, EngineTypeOK, VenueIsConsistent
<1>4. \A i \in Intents : Rest[i] \in Nat /\ VenueFilled[i] \in Nat
  BY <1>3 DEF Rest, VenueFilled
<1>5. Total(VenueFilled, Entries) \in Int /\ Total(VenueFilled, Reductions) \in Int
  <2>1. \A i \in Entries : VenueFilled[i] \in Int
    BY <1>4 DEF Intents
  <2>2. \A i \in Reductions : VenueFilled[i] \in Int
    BY <1>4 DEF Intents
  <2> QED BY <1>1, <2>1, <2>2, SumIsInt DEF Total
<1>6. Total(Rest, Selling) \in Int
  <2>1. \A i \in Selling : Rest[i] \in Int
    BY <1>2, <1>4
  <2> QED BY <1>2, <2>1, SumIsInt DEF Total
<1> QED BY <1>1, <1>2, <1>3, <1>4, <1>5, <1>6 DEF Position

\* The property, with the sum named.
LEMMA WithinIs == ReductionsWithinPosition <=> Total(Rest, Selling) <= Position
BY DEF ReductionsWithinPosition, Rest, Selling

\* As long as the exchange fills nothing, and no reduction is opened, the reductions fit.
LEMMA NoNewSale ==
    ASSUME EngineInv, ReductionsWithinPosition, order' \in [Intents -> OrderRow],
           \A i \in Intents : venue'[i].filled = venue[i].filled,
           \A i \in Reductions : \/ order'[i].st = order[i].st
                                 \/ order[i].st \notin Terminal \union {"none"}
                                 \/ order'[i].st \in Terminal
    PROVE  ReductionsWithinPosition'
<1>1. Rest' = Rest /\ VenueFilled' = VenueFilled
  BY DEF Rest, VenueFilled
<1>2. Position' = Position
  BY <1>1 DEF Position
<1>3. Selling' \subseteq Selling
  BY DEF Selling, OpenRows, Rows, Intents
<1>4. Total(Rest, Selling') <= Total(Rest, Selling)
  <2>1. \A i \in Selling : Rest[i] \in Nat
    BY RestIs
  <2> QED BY <1>3, <2>1, RestIs, SumOfPart DEF Total
<1>5. Total(Rest, Selling') \in Int
  <2>1. IsFiniteSet(Selling') /\ \A i \in Selling' : Rest[i] \in Int
    BY <1>3, RestIs, FS_Subset
  <2> QED BY <2>1, SumIsInt DEF Total
<1> DEFINE after == Total(Rest, Selling')
           before == Total(Rest, Selling)
<1>6. after <= before /\ after \in Int /\ before \in Int /\ Position \in Int /\ before <= Position
  BY <1>4, <1>5, RestIs, WithinIs
<1>7. (Total(Rest, Selling) <= Position)' <=> after <= Position
  BY <1>1, <1>2
<1> HIDE DEF after, before
<1>8. after <= Position
  BY <1>6
<1>9. (Total(Rest, Selling) <= Position)'
  BY <1>7, <1>8
<1> QED BY <1>9 DEF ReductionsWithinPosition, Rest, Selling

\* A reduction is opened within what those that are open leave of the position: they may
\* still sell no more than the engine reserves, for it is never ahead of the exchange.
LEMMA ReserveFits ==
    ASSUME EngineInv, ReductionsWithinPosition, NEW i \in Reductions, Reserve(i)
    PROVE  ReductionsWithinPosition'
<1>1. /\ i \in Intents /\ order[i].st = "none" /\ ReservedRemaining + Quantity[i] <= Position
      /\ order' = [order EXCEPT ![i] = [NoRow EXCEPT !.st = "reserved", !.fresh = TRUE]]
      /\ venue' = venue
  BY DEF Reserve, ReductionAllowed, Intents
<1>2. order \in [Intents -> OrderRow]
  BY DEF EngineInv, EngineTypeOK
<1>3. order'[i].st = "reserved" /\ \A j \in Intents \ {i} : order'[j] = order[j]
  BY <1>1, <1>2 DEF NoRow
<1>4. Selling' = Selling \union {i} /\ i \notin Selling
  BY <1>1, <1>2, <1>3 DEF Selling, OpenRows, Rows, Terminal
<1>5. Rest' = Rest /\ VenueFilled' = VenueFilled
  BY <1>1 DEF Rest, VenueFilled
<1>6. Position' = Position
  BY <1>5 DEF Position
<1>7. Rest[i] = Quantity[i]
  <2>1. venue[i].filled = 0
    BY <1>1 DEF EngineInv, NeverSentIsNowhere, VenueIsConsistent
  <2> QED BY <1>1, <2>1, EngineAssumption DEF EngineAssumption, Rest
<1> DEFINE T == Selling \union {i}
           reserved == [j \in Intents |-> Min0(Quantity[j] - order[j].filled)]
<1>8. Total(Rest, T) = Rest[i] + Total(Rest, Selling)
  <2>1. IsFiniteSet(T) /\ T \ {i} = Selling /\ i \in T
    BY <1>4, RestIs, FS_AddElement
  <2>2. \A j \in T : Rest[j] \in Int
    BY <1>1, RestIs
  <2> QED BY <2>1, <2>2, SumTake DEF Total
<1>9. Total(Rest, Selling) <= Total(reserved, Selling) /\ Total(reserved, Selling) \in Int
  <2>1. \A j \in Selling : reserved[j] \in Int /\ Rest[j] \in Int /\ Rest[j] <= reserved[j]
    <3> TAKE j \in Selling
    <3>1. j \in Intents /\ Quantity[j] \in Nat /\ order[j].filled \in Nat /\ Rest[j] \in Nat
      BY RestIs
    <3>2. venue[j].filled \in Nat /\ order[j].filled <= venue[j].filled
          /\ venue[j].filled <= Quantity[j]
      BY <3>1, VenueUpdates DEF EngineInv, EngineTypeOK, VenueIsConsistent
    <3>3. Rest[j] = Quantity[j] - venue[j].filled
          /\ reserved[j] = Min0(Quantity[j] - order[j].filled)
      BY <3>1 DEF Rest
    <3> QED BY <3>1, <3>2, <3>3 DEF Min0
  <2>2. IsFiniteSet(Selling)
    BY RestIs
  <2> HIDE DEF reserved
  <2> QED BY <2>1, <2>2, SumMonotone, SumIsInt DEF Total
<1>10. ReservedRemaining = Total(reserved, Selling)
  BY DEF ReservedRemaining, Selling
<1>11. Total(Rest, T) <= Position
  BY <1>1, <1>7, <1>8, <1>9, <1>10, RestIs
<1>12. (Total(Rest, Selling) <= Position)'
  BY <1>4, <1>5, <1>6, <1>11
<1> QED BY <1>12 DEF ReductionsWithinPosition, Rest, Selling

\* A fill moves the position by one unit, and the order's own rest if it is a reduction.
LEMMA FillFits ==
    ASSUME EngineInv, ReductionsWithinPosition, NEW i \in Intents, VenueFills(i)
    PROVE  ReductionsWithinPosition'
<1> DEFINE f == VenueFilled
           g == [VenueFilled EXCEPT ![i] = @ + 1]
           r == Rest
           s == [Rest EXCEPT ![i] = @ - 1]
<1>1. venue[i].st = "live" /\ order' = order
      /\ venue' = [venue EXCEPT ![i].filled = @ + 1,
                                ![i].st = IF venue[i].filled + 1 = Quantity[i] THEN "filled" ELSE @]
  BY DEF VenueFills
<1>2. venue \in [Intents -> VenueOrder] /\ venue[i].filled \in Nat /\ Quantity[i] \in Nat
  BY VenueUpdates, EngineAssumption DEF EngineInv, EngineTypeOK, EngineAssumption
<1>3. /\ venue'[i].filled = venue[i].filled + 1
      /\ \A j \in Intents \ {i} : venue'[j] = venue[j]
  BY <1>1, <1>2 DEF VenueOrder
<1>4. VenueFilled' = g
  BY <1>3 DEF VenueFilled
<1>5. Rest' = s
  <2>1. Quantity[i] - (venue[i].filled + 1) = Quantity[i] - venue[i].filled - 1
    BY <1>2
  <2> QED BY <1>3, <2>1 DEF Rest
<1>6. Selling' = Selling
  BY <1>1 DEF Selling, OpenRows, Rows
<1>7. /\ \A j \in Intents : f[j] \in Int /\ g[j] \in Int /\ r[j] \in Int /\ s[j] \in Int
      /\ g[i] = f[i] + 1 /\ s[i] = r[i] - 1
      /\ \A j \in Intents \ {i} : g[j] = f[j] /\ s[j] = r[j]
  <2>1. f \in [Intents -> Int] /\ r \in [Intents -> Int]
    BY RestIs DEF VenueFilled, Rest
  <2> HIDE DEF f, r
  <2> QED BY <2>1 DEF f, r
<1>8. IsFiniteSet(Entries) /\ IsFiniteSet(Reductions) /\ IsFiniteSet(Selling)
      /\ Entries \subseteq Intents /\ Reductions \subseteq Intents /\ Selling \subseteq Intents
      /\ Entries \intersect Reductions = {} /\ Selling \subseteq Reductions
  BY RestIs, EngineAssumption DEF EngineAssumption, Intents, Selling
<1> HIDE DEF f, g, r, s
<1>9. /\ SumFunctionOnSet(f, Entries) \in Int /\ SumFunctionOnSet(f, Reductions) \in Int
      /\ SumFunctionOnSet(r, Selling) \in Int
  BY <1>7, <1>8, SumIsInt
<1> DEFINE held == SumFunctionOnSet(f, Entries) - SumFunctionOnSet(f, Reductions)
           then == SumFunctionOnSet(g, Entries) - SumFunctionOnSet(g, Reductions)
<1>10. Position = held /\ Position' = then
  BY <1>4 DEF Position, Total, f
<1>11. SumFunctionOnSet(r, Selling) <= held
  BY <1>10, WithinIs DEF Total, r
<1>12. SumFunctionOnSet(s, Selling) <= then
  <2>1. CASE i \in Entries
    <3>1. SumFunctionOnSet(g, Entries) = SumFunctionOnSet(f, Entries) - f[i] + g[i]
      BY <2>1, <1>7, <1>8, SumChange
    <3>2. SumFunctionOnSet(g, Reductions) = SumFunctionOnSet(f, Reductions)
      <4>1. \A j \in Reductions : g[j] = f[j]
        BY <2>1, <1>7, <1>8
      <4> QED BY <4>1, <1>8, SumCongruent
    <3>3. SumFunctionOnSet(s, Selling) = SumFunctionOnSet(r, Selling)
      <4>1. \A j \in Selling : s[j] = r[j]
        BY <2>1, <1>7, <1>8
      <4> QED BY <4>1, <1>8, SumCongruent
    <3> QED BY <3>1, <3>2, <3>3, <1>7, <1>9, <1>11
  <2>2. CASE i \in Reductions
    <3>1. SumFunctionOnSet(g, Reductions) = SumFunctionOnSet(f, Reductions) - f[i] + g[i]
      BY <2>2, <1>7, <1>8, SumChange
    <3>2. SumFunctionOnSet(g, Entries) = SumFunctionOnSet(f, Entries)
      <4>1. \A j \in Entries : g[j] = f[j]
        BY <2>2, <1>7, <1>8
      <4> QED BY <4>1, <1>8, SumCongruent
    <3>3. i \in Selling
      <4>1. sends[i] # 0
        BY <1>1 DEF EngineInv, NeverSentIsNowhere
      <4>2. order[i].st \notin {"none", "reserved"}
        BY <4>1 DEF EngineInv, NeverSentIsNowhere
      <4>3. order[i].st \notin Terminal
        BY <1>1, <4>2 DEF EngineInv, TerminalIsTrue, Rows
      <4> QED BY <2>2, <4>2, <4>3 DEF Selling, OpenRows, Rows
    <3>4. SumFunctionOnSet(s, Selling) = SumFunctionOnSet(r, Selling) - r[i] + s[i]
      BY <3>3, <1>7, <1>8, SumChange
    <3> QED BY <3>1, <3>2, <3>4, <1>7, <1>9, <1>11
  <2> QED BY <2>1, <2>2 DEF Intents
<1>13. (Total(Rest, Selling) <= Position)'
  BY <1>5, <1>6, <1>10, <1>12 DEF Total
<1> QED BY <1>13 DEF ReductionsWithinPosition, Rest, Selling

\* No other step lets the exchange fill, nor brings a finished reduction back.
LEMMA OthersSellNothing ==
    ASSUME EngineInv, EngineNext,
           \A i \in Reductions : ~Reserve(i), \A i \in Intents : ~VenueFills(i)
    PROVE  /\ \A i \in Intents : venue'[i].filled = venue[i].filled
           /\ \A i \in Reductions : \/ order'[i].st = order[i].st
                                    \/ order[i].st \notin Terminal \union {"none"}
                                    \/ order'[i].st \in Terminal
<1> DEFINE Quiet == \A i \in Intents : venue'[i].filled = venue[i].filled
           Keeps(i) == \/ order'[i].st = order[i].st
                       \/ order[i].st \notin Terminal \union {"none"}
                       \/ order'[i].st \in Terminal
<1> USE EngineAssumption DEF EngineAssumption
<1>0. order \in [Intents -> OrderRow] /\ venue \in [Intents -> VenueOrder]
      /\ Reductions \subseteq Intents
  BY DEF EngineInv, EngineTypeOK, Intents
<1>1. CASE OpenEngine \/ CloseEngine \/ CrashEngine \/ OperatorRemovesLock \/ RequestExit \/ HaltEngine
  BY <1>1 DEF OpenEngine, CloseEngine, CrashEngine, OperatorRemovesLock, RequestExit, HaltEngine,
     SetControl
<1>2. CASE CancelEntryOrders
  <2>1. Quiet
    BY <1>2 DEF CancelEntryOrders
  <2>2. \A i \in Reductions : order'[i] = order[i]
    BY <1>0, <1>2 DEF CancelEntryOrders
  <2> QED BY <2>1, <2>2
<1>3. ASSUME NEW clean \in BOOLEAN, ReconcileRestart(clean) PROVE Quiet /\ \A i \in Reductions : Keeps(i)
  <2>1. Quiet
    BY <1>3 DEF ReconcileRestart
  <2>2. \A i \in Intents : order'[i] = order[i] \/ order'[i] = [order[i] EXCEPT !.rec = TRUE]
    BY <1>3 DEF ReconcileRestart
  <2>3. \A i \in Intents : order'[i].st = order[i].st
    BY <1>0, <2>2, MarkRow
  <2> QED BY <1>0, <2>1, <2>3
<1>4. ASSUME NEW i \in Intents,
             \/ Reserve(i) \/ ApprovalExpires(i) \/ SubmitSaved(i)
             \/ SubmitAcknowledged(i) \/ SubmitAmbiguous(i) \/ SubmitRejected(i) \/ SubmitRaises(i)
             \/ ReconcileReport(i) \/ ReconcileNotFound(i)
      PROVE  Quiet /\ \A j \in Reductions : Keeps(j)
  <2>1. venue' = venue
    BY <1>4 DEF Reserve, ApprovalExpires, SubmitSaved, SubmitAcknowledged, SubmitAmbiguous,
       SubmitRejected, SubmitRaises, Answered, ReconcileReport, Reconcile, ReconcileNotFound
  <2>2. \A j \in Intents : j # i => order'[j] = order[j]
    BY <1>0, <1>4 DEF Reserve, ApprovalExpires, SubmitSaved, SubmitAcknowledged, SubmitAmbiguous,
       SubmitRejected, SubmitRaises, ReconcileReport, Reconcile, ReconcileNotFound
  <2>3. i \in Reductions => Keeps(i)
    <3>1. CASE Reserve(i)
      BY <1>0, <3>1
    <3>2. CASE ApprovalExpires(i)
      BY <3>2, EngineAssumption DEF ApprovalExpires
    <3>3. CASE SubmitSaved(i)
      BY <3>3 DEF SubmitSaved, MaySubmit, Terminal
    <3>4. CASE SubmitAcknowledged(i) \/ SubmitAmbiguous(i) \/ SubmitRejected(i) \/ SubmitRaises(i)
      <4>1. call.on = i
        BY <3>4 DEF SubmitAcknowledged, SubmitAmbiguous, SubmitRejected, SubmitRaises, Answered
      <4>2. order[i].st = "submitting"
        BY <4>1 DEF EngineInv, CallIsSaved
      <4> QED BY <4>2 DEF Terminal
    <3>5. CASE ReconcileNotFound(i)
      BY <3>5 DEF ReconcileNotFound, Terminal
    <3>6. CASE ReconcileReport(i)
      <4>1. PICK f \in 0..venue[i].filled :
              \E status \in Reported(i, f), covered \in BOOLEAN : Reconcile(i, f, status, covered)
        BY <3>6 DEF ReconcileReport
      <4>2. PICK status \in Reported(i, f), covered \in BOOLEAN : Reconcile(i, f, status, covered)
        BY <4>1
      <4> DEFINE old == order[i].st
                 new == StatusFor(i, f, status)
      <4>3. i \in Rows /\ (new = old \/ new \in Transitions[old]) /\ order'[i].st = new
        BY <1>0, <4>2 DEF Reconcile, OrderRow
      <4>4. old \in DOMAIN Transitions
        BY <1>0, <4>3, RowUpdates DEF Rows
      <4>5. old \in Terminal => new = old
        BY <4>3, <4>4, Steps
      <4> HIDE DEF new
      <4> QED BY <4>3, <4>5 DEF Rows
    <3> QED BY <1>4, <3>1, <3>2, <3>3, <3>4, <3>5, <3>6
  <2> HIDE DEF Keeps
  <2>4. \A j \in Reductions : j # i => Keeps(j)
    BY <1>0, <2>2 DEF Keeps
  <2> QED BY <2>1, <2>3, <2>4
<1>5. ASSUME NEW i \in Intents, SubmitSent(i) \/ VenueAccepts(i) \/ RequestLost(i) \/ VenueCancels(i)
      PROVE  Quiet /\ \A j \in Reductions : Keeps(j)
  <2>1. order' = order
    BY <1>5 DEF SubmitSent, VenueAccepts, RequestLost, VenueCancels
  <2>2. \/ venue' = venue
        \/ \E s \in {"live", "canceled"} : venue' = [venue EXCEPT ![i].st = s]
    BY <1>5 DEF SubmitSent, VenueAccepts, RequestLost, VenueCancels
  <2>3. Quiet
    BY <1>0, <2>2 DEF VenueOrder
  <2> QED BY <2>1, <2>3
<1> HIDE DEF Quiet, Keeps
<1>6. Quiet /\ \A i \in Reductions : Keeps(i)
  <2>1. CASE OpenEngine \/ CloseEngine \/ CrashEngine \/ OperatorRemovesLock \/ RequestExit \/ HaltEngine
    BY <1>1, <2>1 DEF Quiet, Keeps
  <2>2. CASE CancelEntryOrders
    BY <1>2, <2>2 DEF Quiet, Keeps
  <2>3. CASE \E clean \in BOOLEAN : ReconcileRestart(clean)
    BY <1>3, <2>3
  <2>4. ASSUME NEW i \in Intents,
               \/ Reserve(i) \/ ApprovalExpires(i)
               \/ SubmitSaved(i) \/ SubmitSent(i) \/ SubmitAcknowledged(i) \/ SubmitAmbiguous(i)
               \/ SubmitRejected(i) \/ SubmitRaises(i)
               \/ VenueAccepts(i) \/ RequestLost(i) \/ VenueCancels(i)
               \/ ReconcileReport(i) \/ ReconcileNotFound(i)
        PROVE  Quiet /\ \A j \in Reductions : Keeps(j)
    BY <1>4, <1>5, <2>4
  <2> QED BY <2>1, <2>2, <2>3, <2>4 DEF EngineNext
<1> QED BY <1>6 DEF Quiet, Keeps

\* At first nothing is open, bought or sold.
LEMMA InitSales == EngineInit => ReductionsWithinPosition
<1> SUFFICES ASSUME EngineInit PROVE ReductionsWithinPosition
  OBVIOUS
<1>1. EngineInv
  BY InitEngineInv
<1>2. Selling = {}
  BY DEF EngineInit, Selling, OpenRows, Rows, NoRow
<1>3. Total(Rest, Selling) = 0
  BY <1>2, SumOfEmpty DEF Total
<1>4. \A i \in Intents : VenueFilled[i] = 0
  BY DEF EngineInit, VenueFilled
<1>5. Total(VenueFilled, Entries) = 0
  BY <1>1, <1>4, RestIs, SumOfZeros DEF Total, Intents
<1>6. Total(VenueFilled, Reductions) = 0
  BY <1>1, <1>4, RestIs, SumOfZeros DEF Total, Intents
<1> QED BY <1>3, <1>5, <1>6, WithinIs DEF Position

\* Whatever the engine has not yet heard of, and whatever was cut short, the
\* reductions that may still fill cannot sell more than is held.
THEOREM SalesFit == EngineSpec => []ReductionsWithinPosition
<1> DEFINE I == EngineInv /\ ReductionsWithinPosition
<1>1. EngineInit => I
  BY InitEngineInv, InitSales
<1>2. I /\ [EngineNext]_engineVars => I'
  <2> SUFFICES ASSUME I, [EngineNext]_engineVars PROVE I'
    OBVIOUS
  <2>1. EngineInv'
    BY NextEngineInv
  <2>2. order' \in [Intents -> OrderRow]
    BY <2>1 DEF EngineInv, EngineTypeOK
  <2>3. CASE UNCHANGED engineVars
    <3>1. order' = order /\ venue' = venue
      BY <2>3 DEF engineVars
    <3>2. \A i \in Intents : venue'[i].filled = venue[i].filled
      BY <3>1
    <3>3. \A i \in Reductions : order'[i].st = order[i].st
      BY <3>1
    <3>4. ReductionsWithinPosition'
      BY <2>2, <3>2, <3>3, NoNewSale
    <3> QED BY <2>1, <3>4
  <2>4. CASE \E i \in Reductions : Reserve(i)
    BY <2>1, <2>4, ReserveFits
  <2>5. CASE \E i \in Intents : VenueFills(i)
    BY <2>1, <2>5, FillFits
  <2>6. CASE /\ EngineNext
             /\ \A i \in Reductions : ~Reserve(i)
             /\ \A i \in Intents : ~VenueFills(i)
    BY <2>1, <2>2, <2>6, OthersSellNothing, NoNewSale
  <2> QED BY <2>3, <2>4, <2>5, <2>6
<1> QED BY <1>1, <1>2, PTL DEF EngineSpec

(***************************************************************************)
(* The durable loss state.                                                 *)
(***************************************************************************)

LossRecord == [day : Int, week_start : Int, day_equity_start : Int, week_equity_start : Int,
           high_water : Int, consecutive_losses : Int, state : {"NORMAL", "EXIT_ONLY"},
           contributions : Int, permanent_halt : BOOLEAN, cooldown_until : Int,
           periodic_halt_day : Int, periodic_halt_week : Int]

Types ==
    /\ durable \in LossRecord
    /\ today \in Nat /\ equity \in Int /\ granted \in BOOLEAN
    /\ trips \in [day : Int, week : Int, ever : BOOLEAN, until : Int]

\* What was tripped lies in the past, and the record remembers it for as long as it
\* counts.
TripsArePast == trips.day <= today /\ trips.week <= WeekOf(today)

Remembered ==
    /\ trips.day = today => durable.state = "EXIT_ONLY" /\ durable.periodic_halt_day = today
    /\ trips.week = WeekOf(today) =>
         durable.state = "EXIT_ONLY" /\ durable.periodic_halt_week = WeekOf(today)
    /\ trips.ever => durable.permanent_halt
    /\ durable.permanent_halt => durable.state = "EXIT_ONLY"
    /\ durable.cooldown_until = trips.until
    /\ today < durable.cooldown_until => durable.state = "EXIT_ONLY"

RiskInv == Types /\ TripsArePast /\ Remembered /\ NoApprovalWhileTripped

----------------------------------------------------------------------------

\* The start of a week is a day, and never moves back.
LEMMA WeekGrows ==
    ASSUME NEW d \in Nat
    PROVE  WeekOf(d) \in Nat /\ WeekOf(d) <= WeekOf(d + 1)
<1> DEFINE q == d \div DaysPerWeek
           p == (d + 1) \div DaysPerWeek
           r == d % DaysPerWeek
           s == (d + 1) % DaysPerWeek
<1>0. DaysPerWeek \in Nat \ {0}
  BY RiskAssumption DEF RiskAssumption
<1>1. q \in Int /\ p \in Int /\ r \in 0..(DaysPerWeek - 1) /\ s \in 0..(DaysPerWeek - 1)
  BY <1>0, SMT
<1>2. d = DaysPerWeek * q + r /\ d + 1 = DaysPerWeek * p + s /\ r <= d
  BY <1>0, SMT
<1>3. WeekOf(d) = d - r /\ WeekOf(d + 1) = d + 1 - s
  BY <1>0, <1>1, SMT DEF WeekOf
<1> HIDE DEF q, p, r, s
<1>4. s <= r + 1
  <2>1. CASE p <= q - 1
    <3>1. DaysPerWeek * p <= DaysPerWeek * (q - 1)
      BY <1>0, <1>1, <2>1
    <3>2. DaysPerWeek * (q - 1) = DaysPerWeek * q - DaysPerWeek
      BY <1>0, <1>1
    <3> QED BY <1>0, <1>1, <1>2, <3>1, <3>2
  <2>2. CASE p >= q
    <3>1. DaysPerWeek * p >= DaysPerWeek * q
      BY <1>0, <1>1, <2>2
    <3>2. DaysPerWeek * p \in Int /\ DaysPerWeek * q \in Int
      BY <1>0, <1>1
    <3> QED BY <1>1, <1>2, <3>1, <3>2
  <2> QED BY <1>1, <2>1, <2>2
<1> QED BY <1>1, <1>2, <1>3, <1>4

\* The fields of the durable record.
LEMMA RecordTypes ==
    \A d \in LossRecord :
      /\ d.contributions \in Int /\ d.day_equity_start \in Int /\ d.week_equity_start \in Int
      /\ d.high_water \in Int /\ d.consecutive_losses \in Int
      /\ d.state \in {"NORMAL", "EXIT_ONLY"} /\ d.permanent_halt \in BOOLEAN
      /\ d.cooldown_until \in Int /\ d.periodic_halt_day \in Int /\ d.periodic_halt_week \in Int
  BY DEF LossRecord

\* The updates of a day's roll, and of a resume.
LEMMA RollRecord ==
    ASSUME NEW d \in LossRecord, NEW a \in Int, NEW b \in Int, NEW c \in Int, NEW e \in Int,
           NEW f \in Int, NEW g \in Int
    PROVE  [d EXCEPT !.contributions = a, !.day = b, !.day_equity_start = c,
                     !.week_start = e, !.week_equity_start = f, !.high_water = g] \in LossRecord
<1> DEFINE x == [d EXCEPT !.contributions = a, !.day = b, !.day_equity_start = c]
<1>1. x \in LossRecord
  BY DEF LossRecord
<1>2. [x EXCEPT !.week_start = e, !.week_equity_start = f, !.high_water = g] \in LossRecord
  <2> HIDE DEF x
  <2> QED BY <1>1 DEF LossRecord
<1>3. [d EXCEPT !.contributions = a, !.day = b, !.day_equity_start = c,
                !.week_start = e, !.week_equity_start = f, !.high_water = g]
        = [x EXCEPT !.week_start = e, !.week_equity_start = f, !.high_water = g]
  OBVIOUS
<1> QED BY <1>2, <1>3

\* A resumed record is a record.
LEMMA ResumeRecord ==
    ASSUME NEW d \in LossRecord, NEW n \in Int
    PROVE  [d EXCEPT !.state = "NORMAL", !.periodic_halt_day = n,
                     !.periodic_halt_week = n, !.consecutive_losses = 0] \in LossRecord
<1> DEFINE x == [d EXCEPT !.state = "NORMAL", !.periodic_halt_day = n]
           y == [x EXCEPT !.periodic_halt_week = n]
<1>1. x \in LossRecord
  BY DEF LossRecord
<1>2. y \in LossRecord
  <2> HIDE DEF x
  <2> QED BY <1>1 DEF LossRecord
<1>3. [y EXCEPT !.consecutive_losses = 0] \in LossRecord
  <2> HIDE DEF y
  <2> QED BY <1>2 DEF LossRecord
<1>4. [d EXCEPT !.state = "NORMAL", !.periodic_halt_day = n,
                !.periodic_halt_week = n, !.consecutive_losses = 0]
        = [y EXCEPT !.consecutive_losses = 0]
  OBVIOUS
<1> QED BY <1>3, <1>4

\* The initial state.
LEMMA InitRiskInv == RiskInit => RiskInv
<1> SUFFICES ASSUME RiskInit PROVE RiskInv
  OBVIOUS
<1>1. durable \in LossRecord
  BY DEF RiskInit, LossRecord, Never
<1>2. StartEquity \in Nat
  BY RiskAssumption DEF RiskAssumption
<1>3. WeekOf(0) \in Nat
  BY WeekGrows
<1>4. Types
  <2>1. Never \in Int
    BY DEF Never
  <2>2. trips \in [day : Int, week : Int, ever : BOOLEAN, until : Int]
    BY <2>1 DEF RiskInit
  <2>3. granted \in BOOLEAN
    BY Zenon DEF RiskInit
  <2>4. today \in Nat /\ equity \in Int
    BY <1>2 DEF RiskInit
  <2> QED BY <1>1, <2>2, <2>3, <2>4 DEF Types
<1>5. TripsArePast /\ Remembered
  BY <1>3 DEF RiskInit, TripsArePast, Remembered, Never
<1> QED BY <1>4, <1>5 DEF RiskInv, RiskInit, NoApprovalWhileTripped

\* A gate, with the flow of a deposit or of none.
LEMMA GateStep ==
    ASSUME RiskInv, NEW flow \in Int, NEW entry \in BOOLEAN, Gate(flow, entry)
    PROVE  RiskInv'
<1> DEFINE worth == equity + flow
           d == Rolled(worth, flow)
           reasons == Reasons(d, worth)
<1>0. durable \in LossRecord /\ today \in Nat /\ equity \in Int /\ WeekOf(today) \in Nat
      /\ trips \in [day : Int, week : Int, ever : BOOLEAN, until : Int]
  BY WeekGrows DEF RiskInv, Types
<1>1. /\ equity' = worth /\ durable' = Gated(d, reasons) /\ trips' = TripsAfter(reasons)
      /\ granted' = (entry /\ reasons = {} /\ durable.state = "NORMAL")
      /\ today' = today
  BY DEF Gate
<1>2. d \in LossRecord
  <2> DEFINE paid == durable.contributions + flow
             adjusted == worth - paid
  <2>1. paid \in Int /\ adjusted \in Int
    BY <1>0, RecordTypes
  <2>2. /\ (IF durable.day = today THEN durable.day_equity_start ELSE adjusted) \in Int
        /\ (IF durable.week_start = WeekOf(today) THEN durable.week_equity_start ELSE adjusted) \in Int
        /\ (IF durable.high_water = 0 THEN adjusted ELSE Larger(durable.high_water, adjusted)) \in Int
    BY <1>0, <2>1, RecordTypes DEF Larger
  <2> DEFINE ds == IF durable.day = today THEN durable.day_equity_start ELSE adjusted
             ws == IF durable.week_start = WeekOf(today) THEN durable.week_equity_start ELSE adjusted
             hi == IF durable.high_water = 0 THEN adjusted ELSE Larger(durable.high_water, adjusted)
             wk == WeekOf(today)
  <2>3. d = [durable EXCEPT !.contributions = paid, !.day = today, !.day_equity_start = ds,
                           !.week_start = wk, !.week_equity_start = ws, !.high_water = hi]
    BY DEF Rolled
  <2>4. today \in Int /\ wk \in Int
    BY <1>0
  <2>5. ds \in Int /\ ws \in Int /\ hi \in Int
    BY <2>2
  <2> HIDE DEF worth, d, paid, adjusted, ds, ws, hi, wk
  <2> QED BY <1>0, <2>1, <2>3, <2>4, <2>5, RollRecord
<1>3. /\ d.state = durable.state /\ d.permanent_halt = durable.permanent_halt
      /\ d.cooldown_until = durable.cooldown_until
      /\ d.periodic_halt_day = durable.periodic_halt_day
      /\ d.periodic_halt_week = durable.periodic_halt_week
  BY <1>0 DEF Rolled, LossRecord
<1> HIDE DEF d, reasons, worth
<1>4. CASE reasons = {}
  <2>1. durable' = d /\ trips' = trips
    BY <1>0, <1>1, <1>4 DEF Gated, TripsAfter
  <2>2. worth \in Int
    BY <1>0 DEF worth
  <2>3. Types'
    BY <1>0, <1>1, <1>2, <2>1, <2>2 DEF RiskInv, Types
  <2>4. WeekOf(today)' = WeekOf(today)
    BY <1>1 DEF WeekOf
  <2>5. (TripsArePast /\ Remembered)'
    BY <1>1, <1>3, <2>1, <2>4 DEF RiskInv, TripsArePast, Remembered
  <2>6. NoApprovalWhileTripped'
    BY <1>0, <1>1, <2>1, <2>4 DEF RiskInv, Types, Remembered, NoApprovalWhileTripped
  <2> QED BY <2>3, <2>5, <2>6 DEF RiskInv
<1>5. CASE reasons # {}
  <2> DEFINE bad == reasons \intersect {"CAMPAIGN", "DRAWDOWN"} # {}
             hd == IF "DAILY" \in reasons THEN today ELSE d.periodic_halt_day
             hw == IF "WEEKLY" \in reasons THEN WeekOf(today) ELSE d.periodic_halt_week
             ph == d.permanent_halt \/ bad
             td == IF "DAILY" \in reasons THEN today ELSE trips.day
             tw == IF "WEEKLY" \in reasons THEN WeekOf(today) ELSE trips.week
             te == trips.ever \/ bad
  <2>1. durable' = [d EXCEPT !.state = "EXIT_ONLY", !.periodic_halt_day = hd,
                            !.periodic_halt_week = hw, !.permanent_halt = ph]
    BY <1>1, <1>5 DEF Gated
  <2>2. trips' = [trips EXCEPT !.day = td, !.week = tw, !.ever = te]
    BY <1>1 DEF TripsAfter
  <2>3. hd \in Int /\ hw \in Int /\ td \in Int /\ tw \in Int
    BY <1>0, <1>2, RecordTypes
  <2>4. ph \in BOOLEAN /\ te \in BOOLEAN
    BY <1>0, <1>2, RecordTypes, Zenon
  <2> HIDE DEF bad, hd, hw, ph, td, tw, te
  <2>5. durable' \in LossRecord
    BY <1>2, <2>1, <2>3, <2>4 DEF LossRecord
  <2>6. trips' \in [day : Int, week : Int, ever : BOOLEAN, until : Int]
    BY <1>0, <2>2, <2>3, <2>4
  <2>7. /\ durable'.state = "EXIT_ONLY" /\ durable'.periodic_halt_day = hd
        /\ durable'.periodic_halt_week = hw /\ durable'.permanent_halt = ph
        /\ durable'.cooldown_until = durable.cooldown_until
    BY <1>2, <1>3, <2>1 DEF LossRecord
  <2>8. trips'.day = td /\ trips'.week = tw /\ trips'.ever = te /\ trips'.until = trips.until
    BY <1>0, <2>2
  <2>9. Types'
    BY <1>0, <1>1, <1>5, <2>5, <2>6 DEF Types, worth
  <2>10. WeekOf(today)' = WeekOf(today)
    BY <1>1 DEF WeekOf
  <2>11. TripsArePast'
    BY <1>0, <1>1, <2>8, <2>10 DEF RiskInv, TripsArePast, td, tw
  <2>12. /\ td = today => hd = today
         /\ tw = WeekOf(today) => hw = WeekOf(today)
         /\ te => ph
    BY <1>3 DEF RiskInv, Remembered, td, hd, tw, hw, te, ph
  <2>13. Remembered'
    BY <1>1, <2>7, <2>8, <2>10, <2>12 DEF RiskInv, Remembered
  <2>14. NoApprovalWhileTripped'
    BY <1>1, <1>5 DEF NoApprovalWhileTripped
  <2> QED BY <2>9, <2>11, <2>13, <2>14 DEF RiskInv
<1> QED BY <1>4, <1>5

\* The end of a cycle: a streak of losses starts the cooldown.
LEMMA CycleStep ==
    ASSUME RiskInv, NEW lost \in BOOLEAN, NEW stamped \in BOOLEAN, ApplyCycle(lost, stamped)
    PROVE  RiskInv'
<1> DEFINE streak == IF lost THEN durable.consecutive_losses + 1 ELSE 0
           tripped == streak >= LossStreakLimit
           until == today + CooldownAfterLoss
           st == IF tripped THEN "EXIT_ONLY" ELSE durable.state
           cu == IF tripped /\ stamped THEN until ELSE durable.cooldown_until
<1>0. durable \in LossRecord /\ today \in Nat /\ equity \in Int /\ CooldownAfterLoss \in Nat
      /\ trips \in [day : Int, week : Int, ever : BOOLEAN, until : Int]
  BY RiskAssumption DEF RiskInv, Types, RiskAssumption
<1>1. /\ durable' = [durable EXCEPT !.consecutive_losses = streak, !.state = st, !.cooldown_until = cu]
      /\ trips' = IF tripped /\ stamped THEN [trips EXCEPT !.until = until] ELSE trips
      /\ granted' = FALSE /\ today' = today /\ equity' = equity
  BY DEF ApplyCycle
<1>2. streak \in Int /\ until \in Int /\ cu \in Int /\ st \in {"NORMAL", "EXIT_ONLY"}
  BY <1>0, RecordTypes
<1>3. st = "EXIT_ONLY" \/ (st = durable.state /\ cu = durable.cooldown_until)
  OBVIOUS
<1>4. durable.state = "EXIT_ONLY" => st = "EXIT_ONLY"
  OBVIOUS
<1>5. trips' \in [day : Int, week : Int, ever : BOOLEAN, until : Int]
      /\ trips'.day = trips.day /\ trips'.week = trips.week /\ trips'.ever = trips.ever
      /\ (trips.until = durable.cooldown_until => trips'.until = cu)
  BY <1>0, <1>1, <1>2
<1> HIDE DEF streak, tripped, until, st, cu
<1>6. durable' \in LossRecord
  BY <1>0, <1>1, <1>2 DEF LossRecord
<1>7. /\ durable'.state = st /\ durable'.cooldown_until = cu
      /\ durable'.permanent_halt = durable.permanent_halt
      /\ durable'.periodic_halt_day = durable.periodic_halt_day
      /\ durable'.periodic_halt_week = durable.periodic_halt_week
  BY <1>0, <1>1 DEF LossRecord
<1>8. WeekOf(today)' = WeekOf(today)
  BY <1>1 DEF WeekOf
<1>9. Types'
  BY <1>0, <1>1, <1>5, <1>6 DEF Types
<1>10. (TripsArePast /\ NoApprovalWhileTripped)'
  BY <1>1, <1>5, <1>8 DEF RiskInv, TripsArePast, NoApprovalWhileTripped
<1>11. Remembered'
  BY <1>1, <1>3, <1>4, <1>5, <1>7, <1>8 DEF RiskInv, Remembered
<1> QED BY <1>9, <1>10, <1>11 DEF RiskInv

\* Only a resume lifts a halt, and it asks for all of them to be over.
LEMMA ResumeStep ==
    ASSUME RiskInv, AttemptPeriodicResume
    PROVE  RiskInv'
<1>0. durable \in LossRecord /\ today \in Nat /\ equity \in Int /\ WeekOf(today) \in Nat
      /\ trips \in [day : Int, week : Int, ever : BOOLEAN, until : Int]
  BY WeekGrows DEF RiskInv, Types
<1>1. /\ MayResume /\ granted' = FALSE /\ UNCHANGED <<today, equity, trips>>
      /\ durable' = [durable EXCEPT !.state = "NORMAL", !.periodic_halt_day = Never,
                                    !.periodic_halt_week = Never, !.consecutive_losses = 0]
  BY DEF AttemptPeriodicResume
<1>2. durable' \in LossRecord
  <2>1. Never \in Int
    BY DEF Never
  <2> QED BY <1>0, <1>1, <2>1, ResumeRecord
<1>3. /\ durable'.permanent_halt = durable.permanent_halt
      /\ durable'.cooldown_until = durable.cooldown_until
  BY <1>0, <1>1 DEF LossRecord
<1>4. ~durable.permanent_halt /\ today >= durable.cooldown_until
  BY <1>1 DEF MayResume
<1>5. trips.day # today /\ trips.week # WeekOf(today)
  BY <1>0, <1>1 DEF MayResume, RiskInv, Remembered, Never
<1>6. WeekOf(today)' = WeekOf(today)
  BY <1>1 DEF WeekOf
<1>7. Types'
  BY <1>0, <1>1, <1>2 DEF Types
<1>8. (TripsArePast /\ NoApprovalWhileTripped)'
  BY <1>1, <1>6 DEF RiskInv, TripsArePast, NoApprovalWhileTripped
<1>9. Remembered'
  <2>1. durable.cooldown_until \in Int
    BY <1>0, RecordTypes
  <2> QED BY <1>0, <1>1, <1>3, <1>4, <1>5, <1>6, <2>1 DEF RiskInv, Remembered
<1> QED BY <1>7, <1>8, <1>9 DEF RiskInv

\* Every step keeps the invariant.
LEMMA NextRiskInv == RiskInv /\ [RiskNext]_riskVars => RiskInv'
<1> SUFFICES ASSUME RiskInv, [RiskNext]_riskVars PROVE RiskInv'
  OBVIOUS
<1>0. durable \in LossRecord /\ today \in Nat /\ equity \in Int
      /\ trips \in [day : Int, week : Int, ever : BOOLEAN, until : Int]
  BY DEF RiskInv, Types
<1>1. CASE UNCHANGED riskVars
  BY <1>1 DEF riskVars, RiskInv, Types, TripsArePast, Remembered, NoApprovalWhileTripped, WeekOf
<1>2. CASE NextDay
  <2>1. /\ today' = today + 1 /\ granted' = FALSE /\ UNCHANGED <<durable, equity, trips>>
    BY <1>2 DEF NextDay
  <2>2. WeekOf(today)' = WeekOf(today + 1) /\ WeekOf(today) <= WeekOf(today + 1)
        /\ WeekOf(today) \in Nat /\ WeekOf(today + 1) \in Nat
    <3>1. WeekOf(today) \in Nat /\ WeekOf(today) <= WeekOf(today + 1)
      BY <1>0, WeekGrows
    <3>2. today + 1 \in Nat
      BY <1>0
    <3>3. WeekOf(today + 1) \in Nat
      BY <3>2, WeekGrows
    <3>4. WeekOf(today)' = WeekOf(today + 1)
      BY <2>1 DEF WeekOf
    <3> QED BY <3>1, <3>3, <3>4
  <2>3. (Types /\ TripsArePast /\ NoApprovalWhileTripped)'
    <3>0. granted' \in BOOLEAN /\ today' \in Nat
      <4>1. granted' \in BOOLEAN
        BY <2>1, Zenon
      <4>2. today' \in Nat
        BY <1>0, <2>1
      <4> QED BY <4>1, <4>2
    <3>1. Types'
      BY <1>0, <2>1, <3>0 DEF Types
    <3>2. trips.day <= today + 1 /\ trips.week <= WeekOf(today + 1)
      BY <1>0, <2>2 DEF RiskInv, TripsArePast
    <3> QED BY <2>1, <2>2, <3>1, <3>2 DEF TripsArePast, NoApprovalWhileTripped
  <2>4. trips'.day # today' /\ (trips'.week = WeekOf(today)' => trips.week = WeekOf(today)
                                  /\ WeekOf(today)' = WeekOf(today))
    BY <1>0, <2>1, <2>2 DEF RiskInv, TripsArePast
  <2>5. durable.cooldown_until \in Int
    BY <1>0, RecordTypes
  <2>6. Remembered'
    BY <1>0, <2>1, <2>4, <2>5 DEF RiskInv, Remembered
  <2> QED BY <2>3, <2>6 DEF RiskInv
<1>3. CASE MarketMoves
  <2>1. /\ equity' \in Int /\ granted' = FALSE /\ UNCHANGED <<durable, today, trips>>
    BY <1>0, <1>3 DEF MarketMoves
  <2> QED BY <2>1 DEF RiskInv, Types, TripsArePast, Remembered, NoApprovalWhileTripped, WeekOf
<1>4. CASE AssessEntry \/ \E flow \in {-2, 2} : ExternalFlow(flow)
  <2>1. CASE AssessEntry
    <3>1. 0 \in Int
      OBVIOUS
    <3> QED BY <2>1, <3>1, GateStep, Zenon DEF AssessEntry
  <2>2. ASSUME NEW flow \in {-2, 2}, ExternalFlow(flow) PROVE RiskInv'
    <3>1. flow \in Int
      OBVIOUS
    <3>2. Gate(flow, FALSE)
      BY <2>2, Zenon DEF ExternalFlow
    <3> QED BY <3>1, <3>2, GateStep, Zenon
  <2> QED BY <1>4, <2>1, <2>2
<1>5. CASE AttemptPeriodicResume
  BY <1>5, ResumeStep
<1>6. CASE \E lost, stamped \in BOOLEAN : ApplyCycle(lost, stamped)
  BY <1>6, CycleStep
<1> QED BY <1>1, <1>2, <1>3, <1>4, <1>5, <1>6 DEF RiskNext

----------------------------------------------------------------------------

\* Whatever deposits, results, days and resumes come between, an entry is approved
\* under no limit of the day, the week or the campaign, nor during a cooldown.
THEOREM HaltsAreKept == RiskSpec => []NoApprovalWhileTripped
<1>1. RiskInv => NoApprovalWhileTripped
  BY DEF RiskInv
<1> QED BY <1>1, InitRiskInv, NextRiskInv, PTL DEF RiskSpec

(***************************************************************************)
(* The event ledger.                                                       *)
(***************************************************************************)

RowsRealized == {e \in events : e.kind \in RealizedKinds}
BillsReported == {b \in Bills : \E e \in events : e.kind = b.kind /\ e.ref = b.ref}

\* The rows that make the result are the bills that were reported, each once.
RowsAreBills ==
    /\ IsFiniteSet(events) /\ \A e \in events : e.amount \in Int
    /\ Net(events) = NetOfBills

LedgerInv == RowsAreBills /\ allocation.high = bestNet /\ bestNet \in Int /\ AllocationsAreEarned

----------------------------------------------------------------------------

\* One row more is its amount more.
LEMMA AmountsGrow ==
    ASSUME NEW S, IsFiniteSet(S), NEW x, x \notin S, \A y \in S \union {x} : y.amount \in Int
    PROVE  Amounts(S \union {x}) = Amounts(S) + x.amount /\ Amounts(S) \in Int
<1> DEFINE T == S \union {x}
           f == [e \in T |-> e.amount]
           g == [e \in S |-> e.amount]
<1>1. IsFiniteSet(T) /\ x \in T /\ T \ {x} = S
  BY FS_AddElement
<1>2. \A y \in T : f[y] \in Int
  OBVIOUS
<1>3. \A y \in S : g[y] \in Int /\ f[y] = g[y]
  OBVIOUS
<1>4. f[x] = x.amount /\ Amounts(T) = SumFunctionOnSet(f, T) /\ Amounts(S) = SumFunctionOnSet(g, S)
  BY <1>1 DEF Amounts
<1> HIDE DEF T, f, g
<1>5. SumFunctionOnSet(f, T) = f[x] + SumFunctionOnSet(f, T \ {x})
  BY <1>1, <1>2, SumTake
<1>6. SumFunctionOnSet(f, S) = SumFunctionOnSet(g, S)
  BY <1>3, SumCongruent
<1>7. SumFunctionOnSet(g, S) \in Int /\ f[x] \in Int
  BY <1>1, <1>2, <1>3, SumIsInt
<1>8. Amounts(T) = Amounts(S) + x.amount
  <2>1. SumFunctionOnSet(f, T) = f[x] + SumFunctionOnSet(g, S)
    BY <1>1, <1>5, <1>6
  <2> QED BY <2>1, <1>4, <1>7
<1> QED BY <1>4, <1>7, <1>8 DEF T

\* The initial state: nothing was posted.
LEMMA InitLedger == LedgerInit => LedgerInv
<1> SUFFICES ASSUME LedgerInit PROVE LedgerInv
  OBVIOUS
<1>1. events = {} /\ allocation = [high |-> 0, reusable |-> 0, reserve |-> 0] /\ bestNet = 0
  BY DEF LedgerInit
<1>2. {e \in events : e.kind \in RealizedKinds} = {}
      /\ {b \in Bills : \E e \in events : e.kind = b.kind /\ e.ref = b.ref} = {}
  BY <1>1
<1>3. Net(events) = NetOfBills
  BY <1>2 DEF Net, NetOfBills
<1>4. IsFiniteSet(events)
  BY <1>1, FS_EmptySet
<1> QED BY <1>1, <1>3, <1>4 DEF LedgerInv, RowsAreBills, AllocationsAreEarned

\* A bill is posted: the row is new, and so is the bill.
LEMMA PostKeeps ==
    ASSUME LedgerInv, NEW bill \in Bills, NEW id, PostRealized(bill, id)
    PROVE  LedgerInv'
<1> DEFINE e == [id |-> id, kind |-> bill.kind, ref |-> bill.ref, amount |-> bill.amount]
<1>1. /\ IsNew(e) /\ events' = events \union {e} /\ UNCHANGED <<allocation, bestNet>>
  BY DEF PostRealized, Record
<1>2. /\ bill.kind \in RealizedKinds /\ bill.ref # "none" /\ bill.amount \in Int /\ IsFiniteSet(Bills)
      /\ \A b \in Bills : b.amount \in Int /\ (b.kind = bill.kind /\ b.ref = bill.ref => b = bill)
  BY LedgerAssumption DEF RealizedKinds
<1>3. e.id = id /\ e.kind = bill.kind /\ e.ref = bill.ref /\ e.amount = bill.amount
  OBVIOUS
<1>4. IsFiniteSet(events) /\ (\A x \in events : x.amount \in Int) /\ Net(events) = NetOfBills
  BY DEF LedgerInv, RowsAreBills
<1> HIDE DEF e
<1>5. e \notin RowsRealized /\ bill \notin BillsReported
  BY <1>1, <1>2, <1>3 DEF IsNew, RowsRealized, BillsReported
<1>6. RowsRealized' = RowsRealized \union {e} /\ BillsReported' = BillsReported \union {bill}
  BY <1>1, <1>2, <1>3 DEF RowsRealized, BillsReported
<1>7. IsFiniteSet(RowsRealized) /\ IsFiniteSet(BillsReported) /\ IsFiniteSet(events')
  BY <1>1, <1>2, <1>4, FS_Subset, FS_AddElement DEF RowsRealized, BillsReported
<1>8. Amounts(RowsRealized \union {e}) = Amounts(RowsRealized) + e.amount
  <2>1. \A y \in RowsRealized \union {e} : y.amount \in Int
    BY <1>2, <1>3, <1>4 DEF RowsRealized
  <2> QED BY <2>1, <1>5, <1>7, AmountsGrow
<1>9. Amounts(BillsReported \union {bill}) = Amounts(BillsReported) + bill.amount
  <2>1. \A y \in BillsReported \union {bill} : y.amount \in Int
    BY <1>2 DEF BillsReported
  <2> QED BY <2>1, <1>5, <1>7, AmountsGrow
<1>10. Net(events) = Amounts(RowsRealized) /\ NetOfBills = Amounts(BillsReported)
  BY DEF Net, NetOfBills, RowsRealized, BillsReported
<1>11. Net(events)' = Amounts(RowsRealized') /\ NetOfBills' = Amounts(BillsReported')
  BY DEF Net, NetOfBills, RowsRealized, BillsReported
<1>12. RowsAreBills'
  <2>1. (Net(events) = NetOfBills)'
    BY <1>3, <1>4, <1>6, <1>8, <1>9, <1>10, <1>11
  <2>2. (\A x \in events : x.amount \in Int)'
    BY <1>1, <1>2, <1>3, <1>4
  <2> QED BY <2>1, <2>2, <1>7 DEF RowsAreBills
<1> QED BY <1>1, <1>12 DEF LedgerInv, AllocationsAreEarned

\* What is no result: a margin, or a step of the reservation.
LEMMA MemoKeeps ==
    ASSUME LedgerInv, NEW e, Record(e), e.amount \in Int, e.kind \notin RealizedKinds,
           UNCHANGED <<allocation, bestNet>>
    PROVE  LedgerInv'
<1>1. events' = events \union {e}
  BY DEF Record
<1>2. \A b \in Bills : b.kind \in RealizedKinds
  BY LedgerAssumption DEF RealizedKinds
<1>3. RowsRealized' = RowsRealized /\ BillsReported' = BillsReported
  BY <1>1, <1>2 DEF RowsRealized, BillsReported
<1>4. Net(events) = Amounts(RowsRealized) /\ NetOfBills = Amounts(BillsReported)
      /\ Net(events)' = Amounts(RowsRealized') /\ NetOfBills' = Amounts(BillsReported')
  BY DEF Net, NetOfBills, RowsRealized, BillsReported
<1>5. IsFiniteSet(events')
  BY <1>1, FS_AddElement DEF LedgerInv, RowsAreBills
<1> QED BY <1>1, <1>3, <1>4, <1>5 DEF LedgerInv, RowsAreBills, AllocationsAreEarned

\* Every step.
LEMMA NextLedger == LedgerInv /\ [LedgerNext]_ledgerVars => LedgerInv'
<1> SUFFICES ASSUME LedgerInv, [LedgerNext]_ledgerVars PROVE LedgerInv'
  OBVIOUS
<1>1. CASE AllocateNewHighWater
  <2> DEFINE net == Net(events)
  <2>1. net = NetOfBills /\ net \in Int
    <3>1. IsFiniteSet(RowsRealized) /\ \A x \in RowsRealized : x.amount \in Int
      BY FS_Subset DEF LedgerInv, RowsAreBills, RowsRealized
    <3> DEFINE f == [x \in RowsRealized |-> x.amount]
    <3>2. SumFunctionOnSet(f, RowsRealized) \in Int
      <4>1. \A x \in RowsRealized : f[x] \in Int
        BY <3>1
      <4> HIDE DEF f
      <4> QED BY <4>1, <3>1, SumIsInt
    <3>3. net = SumFunctionOnSet(f, RowsRealized)
      BY DEF Net, Amounts, RowsRealized
    <3> QED BY <3>2, <3>3 DEF LedgerInv, RowsAreBills
  <2>2. /\ allocation'.high = Higher(allocation.high, net)
        /\ allocation'.reusable = allocation.reusable + Beyond0(net - allocation.high)
        /\ allocation'.reserve = allocation.reserve + 3 * Beyond0(net - allocation.high)
        /\ bestNet' = Higher(bestNet, NetOfBills) /\ events' = events
    BY <1>1 DEF AllocateNewHighWater
  <2>3. RowsAreBills'
    BY <2>2 DEF LedgerInv, RowsAreBills, Net, NetOfBills
  <2> HIDE DEF net
  <2> QED BY <2>1, <2>2, <2>3 DEF LedgerInv, AllocationsAreEarned, Higher, Beyond0
<1>2. ASSUME NEW target \in DOMAIN ReservationMoves, MoveReservation(target) PROVE LedgerInv'
  <2> DEFINE e == [id |-> OrderEvent, kind |-> target, ref |-> "none", amount |-> 0]
  <2>1. Record(e) /\ UNCHANGED <<allocation, bestNet>> /\ e.kind = target /\ e.amount = 0
    BY <1>2 DEF MoveReservation
  <2>2. target \notin RealizedKinds
    BY DEF ReservationMoves, RealizedKinds
  <2> HIDE DEF e
  <2> QED BY <2>1, <2>2, MemoKeeps
<1>3. ASSUME NEW id \in EventIds, NEW bill \in Bills, PostRealized(bill, id) PROVE LedgerInv'
  BY <1>3, PostKeeps
<1>4. ASSUME NEW id \in EventIds, NEW amount \in Margins, NEW committed \in BOOLEAN,
             PostMarginMemo(amount, committed, id)
      PROVE  LedgerInv'
  <2> DEFINE e == [id |-> id, kind |-> IF committed THEN "MARGIN_COMMITTED" ELSE "MARGIN_RETURNED",
                   ref |-> "margin", amount |-> amount]
  <2>1. /\ Record(e) /\ UNCHANGED <<allocation, bestNet>> /\ e.amount = amount
        /\ e.kind = IF committed THEN "MARGIN_COMMITTED" ELSE "MARGIN_RETURNED"
    BY <1>4 DEF PostMarginMemo
  <2>2. e.kind \notin RealizedKinds /\ amount \in Int
    BY <2>1, LedgerAssumption DEF RealizedKinds
  <2> HIDE DEF e
  <2> QED BY <2>1, <2>2, MemoKeeps
<1>5. CASE UNCHANGED ledgerVars
  BY <1>5 DEF ledgerVars, LedgerInv, RowsAreBills, AllocationsAreEarned, Net, NetOfBills
<1> QED BY <1>1, <1>2, <1>3, <1>4, <1>5 DEF LedgerNext

\* Only a new high of the realized result is allocated, for any bills, event identities
\* and margins, however often and under whatever identity a bill comes again.
THEOREM EarnedOnce == LedgerSpec => []AllocationsAreEarned
<1>1. LedgerInv => AllocationsAreEarned
  BY DEF LedgerInv
<1> QED BY <1>1, InitLedger, NextLedger, PTL DEF LedgerSpec

(***************************************************************************)
(* The phases of the strategy.                                             *)
(***************************************************************************)

Sales == [left : Nat, purpose : {"none", "take_profit", "exit"}]

StrategyNumbers ==
    /\ phase \in {"WATCH", "FLAT", "PROBE", "BUILD", "RIDE", "HARVEST", "COOLDOWN"}
    /\ reference \in Nat /\ harvestAt \in 0..2 /\ harvested \in Nat
    /\ nextStage \in Nat /\ floor \in Nat
    /\ position \in Nat /\ buying \in Nat /\ selling \in Sales /\ unreported \in Nat
    /\ stoppedOut \in BOOLEAN /\ taken \in Nat

\* A reduction sells what is held.
SaleIsHeld == selling.left <= position

\* What take-profit orders sold is among what the strategy was told, or will be,
\* and nothing is taken of no position.
TakenIsTold == taken <= Harvested /\ (position = 0 => taken = 0)

\* What a take-profit order may still sell.
Taking == IF selling.purpose = "take_profit" THEN selling.left ELSE 0

\* Sold and on the way, the two harvests are at most their quarters of the reference.
QuartersTaken == taken + Taking <= 2 * (Reference \div 4)

\* A stop that fired ends the harvests, until nothing is held.
StopEndsHarvest == stoppedOut \/ phase = "COOLDOWN" => taken = 0 /\ Taking = 0

PhasesInv == StrategyNumbers /\ SaleIsHeld /\ TakenIsTold /\ QuartersTaken /\ StopEndsHarvest

----------------------------------------------------------------------------

\* A quarter, rounded down.
LEMMA Quarter ==
    ASSUME NEW n \in Nat
    PROVE  n \div 4 \in Nat /\ 4 * (n \div 4) <= n
  OBVIOUS

\* Quarters of more are more.
LEMMA QuarterGrows ==
    ASSUME NEW m \in Nat, NEW n \in Nat, m <= n
    PROVE  m \div 4 <= n \div 4
  OBVIOUS

\* The reference quantity is a number, and never less than it was.
LEMMA ReferenceIs ==
    StrategyNumbers =>
      /\ Harvested \in Nat /\ Reference \in Nat /\ Reference >= reference
      /\ harvestAt = 0 => Reference >= position + Harvested
  BY DEF StrategyNumbers, Harvested, Reference, AtLeast

\* The same of the state a step leaves.
LEMMA ReferenceIsThen == StrategyNumbers' => Harvested' \in Nat /\ Reference' \in Nat
<1> SUFFICES ASSUME StrategyNumbers' PROVE Harvested' \in Nat /\ Reference' \in Nat
  OBVIOUS
<1>1. reference' \in Nat /\ harvested' \in Nat /\ unreported' \in Nat /\ position' \in Nat
  BY DEF StrategyNumbers
<1>2. \A h, u, p, r \in Nat : h + u \in Nat /\ AtLeast(r, p + (h + u)) \in Nat
  BY DEF AtLeast
<1> QED BY <1>1, <1>2, Zenon DEF Harvested, Reference

\* Numbers only: what is at most twice a quarter.
LEMMA TwoQuarters ==
    /\ \A q \in Nat : 0 + 0 <= 2 * q
    /\ \A a, b, c, d, q \in Int : a + b <= c + d /\ c + d <= 2 * q => a + b <= 2 * q
  OBVIOUS

\* The harvest that is due is one of the two, or both are over.
LEMMA IndexIs ==
    ASSUME StrategyNumbers, NEW multiple \in 0..2
    PROVE  Index(multiple) \in harvestAt..2
<1> DEFINE Here(i) == /\ \A j \in harvestAt..(i - 1) : multiple >= j + 1 /\ RemainingTarget(j) = 0
                      /\ i = 2 \/ multiple < i + 1 \/ RemainingTarget(i) > 0
<1>1. harvestAt \in 0..2
  BY DEF StrategyNumbers
<1>2. \A i \in 0..1 : RemainingTarget(i) = 0 \/ RemainingTarget(i) > 0
  <2>1. \A n \in Int : AtLeastZero(n) = 0 \/ AtLeastZero(n) > 0
    BY DEF AtLeastZero
  <2>2. \A n \in Int : AtLeastZero(n) \in Int
    BY DEF AtLeastZero
  <2>3. Reference \div 4 \in Int /\ Harvested \in Int
    BY ReferenceIs, Quarter
  <2> QED BY <2>1, <2>2, <2>3 DEF RemainingTarget
<1>3. \E i \in harvestAt..2 : Here(i)
  <2>1. CASE harvestAt = 2
    <3>1. Here(2)
      BY <2>1
    <3> QED BY <2>1, <3>1
  <2>2. CASE harvestAt = 1
    <3>1. CASE multiple >= 2 /\ RemainingTarget(1) = 0
      <4>1. Here(2)
        BY <2>2, <3>1
      <4> QED BY <2>2, <4>1
    <3>2. CASE ~(multiple >= 2 /\ RemainingTarget(1) = 0)
      <4>1. Here(1)
        BY <2>2, <3>2, <1>2
      <4> QED BY <2>2, <4>1
    <3> QED BY <3>1, <3>2
  <2>3. CASE harvestAt = 0
    <3>1. CASE ~(multiple >= 1 /\ RemainingTarget(0) = 0)
      <4>1. Here(0)
        BY <2>3, <3>1, <1>2
      <4> QED BY <2>3, <4>1
    <3>2. CASE multiple >= 1 /\ RemainingTarget(0) = 0 /\ ~(multiple >= 2 /\ RemainingTarget(1) = 0)
      <4>1. Here(1)
        BY <2>3, <3>2, <1>2
      <4> QED BY <2>3, <4>1
    <3>3. CASE multiple >= 1 /\ RemainingTarget(0) = 0 /\ multiple >= 2 /\ RemainingTarget(1) = 0
      <4>1. Here(2)
        BY <2>3, <3>3
      <4> QED BY <2>3, <4>1
    <3> QED BY <3>1, <3>2, <3>3
  <2> QED BY <1>1, <2>1, <2>2, <2>3
<1>4. Index(multiple) = CHOOSE i \in harvestAt..2 : Here(i)
  BY DEF Index
<1> HIDE DEF Here
<1> QED BY <1>3, <1>4

\* A harvest that is due sells what its quarter and those before leave of the reference.
LEMMA TargetIs ==
    ASSUME StrategyNumbers, NEW index \in 0..1, NEW t \in Nat, t <= Harvested,
           t <= 2 * (Reference \div 4)
    PROVE  /\ RemainingTarget(index) \in Nat
           /\ t + RemainingTarget(index) <= 2 * (Reference \div 4)
<1> DEFINE q == Reference \div 4
           h == Harvested
<1>1. q \in Nat /\ h \in Nat
  BY ReferenceIs, Quarter
<1>2. RemainingTarget(index) = AtLeastZero(q - AtLeastZero(h - index * q))
  BY DEF RemainingTarget
<1>3. t <= h /\ t <= 2 * q
  OBVIOUS
<1> HIDE DEF q, h
<1>4. CASE index = 0
  <2>1. index * q = 0
    BY <1>1, <1>4
  <2>2. AtLeastZero(h - 0) = h
    BY <1>1 DEF AtLeastZero
  <2>3. RemainingTarget(index) = AtLeastZero(q - h)
    BY <1>2, <2>1, <2>2
  <2> QED BY <1>1, <1>3, <2>3 DEF AtLeastZero, q
<1>5. CASE index = 1
  <2>1. index * q = q
    BY <1>1, <1>5
  <2>2. RemainingTarget(index) = AtLeastZero(q - AtLeastZero(h - q))
    BY <1>2, <2>1
  <2> QED BY <1>1, <1>3, <2>2 DEF AtLeastZero, q
<1> QED BY <1>4, <1>5

----------------------------------------------------------------------------

\* The initial state.
LEMMA InitPhases == StrategyInit => PhasesInv
<1> SUFFICES ASSUME StrategyInit PROVE PhasesInv
  OBVIOUS
<1>0. NoSale \in Sales
  BY DEF Sales, NoSale
<1>1. StrategyNumbers
  <2>1. stoppedOut \in BOOLEAN
    BY DEF StrategyInit
  <2> QED BY <1>0, <2>1 DEF StrategyInit, StrategyNumbers
<1>2. taken = 0 /\ Taking = 0 /\ SaleIsHeld
  BY DEF StrategyInit, NoSale, Taking, SaleIsHeld
<1>3. Harvested \in Nat /\ Reference \in Nat
  BY <1>1, ReferenceIs
<1> QED BY <1>1, <1>2, <1>3, Quarter DEF PhasesInv, TakenIsTold, QuartersTaken, StopEndsHarvest

\* The orders and the stop.
LEMMA OrderSteps ==
    ASSUME PhasesInv, EntryFills \/ EntryEnds \/ ReductionFills \/ StopFires
    PROVE  PhasesInv'
<1>0. /\ StrategyNumbers /\ selling.left \in Nat /\ selling.purpose \in {"none", "take_profit", "exit"}
      /\ selling.left <= position
      /\ taken <= harvested + unreported /\ (position = 0 => taken = 0)
      /\ Taking \in Nat /\ Reference \in Nat
  BY ReferenceIs DEF PhasesInv, StrategyNumbers, Sales, SaleIsHeld, TakenIsTold, Harvested, Taking
<1>a. UNCHANGED own
  BY DEF EntryFills, EntryEnds, ReductionFills, StopFires
<1>b. \A n \in Nat : n >= Reference => Reference \div 4 <= n \div 4
  BY <1>0, QuarterGrows
<1>1. CASE EntryFills
  <2>1. PICK n \in {AtMost(Part, buying), buying} : position' = position + n /\ buying' = buying - n
    BY <1>1 DEF EntryFills
  <2>2. n \in Nat /\ buying - n \in Nat /\ n > 0
    BY <1>0, <1>1, <2>1, StrategyAssumption DEF EntryFills, StrategyNumbers, AtMost
  <2>3. UNCHANGED <<phase, reference, harvestAt, harvested, nextStage, floor, selling, unreported, stoppedOut, taken>>
    BY <1>1 DEF EntryFills, own
  <2>4. StrategyNumbers'
    BY <1>0, <2>1, <2>2, <2>3 DEF StrategyNumbers
  <2>5. Harvested' = Harvested /\ Taking' = Taking /\ Reference' >= Reference
    BY <1>0, <2>1, <2>2, <2>3 DEF Harvested, Taking, Reference, AtLeast, StrategyNumbers
  <2>6. QuartersTaken'
    <3>1. Reference' \in Nat
      BY <2>4, ReferenceIsThen
    <3>2. Reference \div 4 <= Reference' \div 4 /\ Reference \div 4 \in Nat /\ Reference' \div 4 \in Nat
      BY <3>1, <2>5, <1>0, <1>b, Quarter
    <3>3. taken + Taking <= 2 * (Reference \div 4) /\ taken \in Nat
      BY <1>0 DEF PhasesInv, QuartersTaken, StrategyNumbers
    <3> QED BY <3>2, <3>3, <2>3, <2>5, <1>0 DEF QuartersTaken
  <2> QED BY <1>0, <2>1, <2>2, <2>3, <2>4, <2>5, <2>6
          DEF PhasesInv, SaleIsHeld, TakenIsTold, StopEndsHarvest, StrategyNumbers
<1>2. CASE EntryEnds
  <2>1. buying' = 0 /\ UNCHANGED <<phase, reference, harvestAt, harvested, nextStage, floor, position, selling,
                                   unreported, stoppedOut, taken>>
    BY <1>2 DEF EntryEnds, own
  <2> QED BY <2>1 DEF PhasesInv, SaleIsHeld, TakenIsTold, StopEndsHarvest, StrategyNumbers, QuartersTaken,
                      Taking, Reference, Harvested
<1>3. CASE ReductionFills
  <2>1. PICK n \in {1, selling.left} :
          /\ position' = position - n
          /\ unreported' = unreported + n
          /\ selling' = IF n = selling.left THEN NoSale ELSE [selling EXCEPT !.left = @ - n]
          /\ taken' = IF position = n THEN 0
                      ELSE IF selling.purpose = "take_profit" THEN taken + n ELSE taken
    BY <1>3 DEF ReductionFills
  <2>2. n \in Nat /\ n > 0 /\ n <= selling.left /\ n <= position
    BY <1>0, <1>3 DEF ReductionFills, StrategyNumbers
  <2>3. UNCHANGED <<phase, reference, harvestAt, harvested, nextStage, floor, buying, stoppedOut>>
    BY <1>3 DEF ReductionFills, own
  <2>4. /\ selling' \in Sales /\ selling'.left = selling.left - n
        /\ selling'.purpose \in {"none", selling.purpose}
        /\ selling'.left # 0 => selling'.purpose = selling.purpose
    BY <1>0, <2>1, <2>2 DEF Sales, NoSale, StrategyNumbers
  <2>5. StrategyNumbers'
    BY <1>0, <2>1, <2>2, <2>3, <2>4 DEF StrategyNumbers
  <2>6. Harvested' = Harvested + n /\ Reference' = Reference
    BY <1>0, <2>1, <2>2, <2>3 DEF Harvested, Reference, AtLeast, StrategyNumbers
  <2>7. Taking' = IF selling.purpose = "take_profit" THEN Taking - n ELSE 0
    BY <1>0, <2>2, <2>4 DEF Taking
  <2>8. taken' + Taking' <= taken + Taking
    BY <1>0, <2>1, <2>2, <2>7 DEF Taking, StrategyNumbers
  <2>9. QuartersTaken'
    <3>1. Reference \div 4 \in Nat /\ taken + Taking <= 2 * (Reference \div 4)
      BY <1>0, Quarter DEF PhasesInv, QuartersTaken
    <3>2. taken' \in Nat /\ taken \in Nat /\ Taking' \in Int /\ Taking \in Int
      BY <1>0, <2>2, <2>5, <2>7 DEF StrategyNumbers
    <3> DEFINE q == Reference \div 4
    <3>3. q \in Nat /\ taken + Taking <= 2 * q
      BY <3>1
    <3> HIDE DEF q
    <3>4. taken' + Taking' <= 2 * q
      <4>1. taken' \in Int /\ taken \in Int /\ q \in Int
        BY <3>2, <3>3
      <4> QED BY <3>2, <3>3, <2>8, <4>1, TwoQuarters, Zenon
    <3> QED BY <3>4, <2>6 DEF QuartersTaken, q
  <2>10. StopEndsHarvest'
    <3> SUFFICES ASSUME stoppedOut \/ phase = "COOLDOWN" PROVE taken' = 0 /\ Taking' = 0
      BY <2>3 DEF StopEndsHarvest
    <3>1. taken = 0 /\ selling.purpose # "take_profit"
      BY <1>0, <2>2 DEF PhasesInv, StopEndsHarvest, Taking
    <3> QED BY <3>1, <2>1, <2>7
  <2>11. SaleIsHeld' /\ TakenIsTold'
    BY <1>0, <2>1, <2>2, <2>4, <2>6 DEF SaleIsHeld, TakenIsTold, Harvested, StrategyNumbers
  <2> QED BY <2>5, <2>9, <2>10, <2>11 DEF PhasesInv
<1>4. CASE StopFires
  <2>1. /\ position' = 0 /\ selling' = NoSale /\ taken' = 0 /\ unreported' = unreported + position
        /\ stoppedOut' = TRUE
        /\ UNCHANGED <<phase, reference, harvestAt, harvested, nextStage, floor, buying>>
    BY <1>4 DEF StopFires, own
  <2>2. StrategyNumbers' /\ Taking' = 0
    BY <1>0, <2>1 DEF StrategyNumbers, Sales, NoSale, Taking
  <2>3. Harvested' \in Nat /\ Reference' \in Nat
    BY <2>2, ReferenceIsThen
  <2>4. QuartersTaken'
    <3> DEFINE q == Reference' \div 4
    <3>1. q \in Nat
      BY <2>3, Quarter
    <3> HIDE DEF q
    <3>2. taken' + Taking' <= 2 * q
      BY <3>1, <2>1, <2>2, TwoQuarters, Zenon
    <3> QED BY <3>2 DEF QuartersTaken, q
  <2> QED BY <1>0, <2>1, <2>2, <2>3, <2>4 DEF PhasesInv, SaleIsHeld, TakenIsTold, StopEndsHarvest, NoSale
<1> QED BY <1>1, <1>2, <1>3, <1>4

\* What a decision leaves on its way: the order that worked, or the one decided.
LEMMA Placed ==
    ASSUME StrategyNumbers, SaleIsHeld, NEW buy \in Nat, NEW sell \in Nat, sell <= position,
           NEW purpose \in {"none", "take_profit", "exit"}, Decides(buy, sell, purpose)
    PROVE  /\ buying' \in Nat /\ selling' \in Sales /\ SaleIsHeld'
           /\ unreported' = 0 /\ stoppedOut' = FALSE /\ position' = position /\ taken' = taken
           /\ Taking' \in {Taking, 0} \/ (purpose = "take_profit" /\ Taking' = sell)
  BY DEF Decides, Places, StrategyNumbers, SaleIsHeld, Taking, Sales

\* A position that goes on to be judged carries its result over.
LEMMA UpdateKeeps ==
    ASSUME PhasesInv, Updates, phase' \in {"WATCH", "FLAT", "PROBE", "BUILD", "RIDE", "HARVEST"},
           harvestAt' \in harvestAt..2, nextStage' \in Nat, floor' \in Nat,
           NEW buy \in Nat, NEW sell \in Nat, sell <= position,
           NEW purpose \in {"none", "take_profit", "exit"}, Decides(buy, sell, purpose),
           purpose = "take_profit" => taken + sell <= 2 * (Reference \div 4)
    PROVE  PhasesInv'
<1>0. /\ StrategyNumbers /\ SaleIsHeld /\ Harvested \in Nat /\ Reference \in Nat
      /\ reference \in Nat /\ Reference >= reference
      /\ (harvestAt = 0 => Reference >= position + Harvested)
      /\ taken <= Harvested /\ position > 0 /\ position \in Nat /\ taken \in Nat /\ harvestAt \in 0..2
      /\ Taking \in Nat
  BY ReferenceIs DEF PhasesInv, Updates, TakenIsTold, StrategyNumbers, Taking, Sales
<1>1. /\ buying' \in Nat /\ selling' \in Sales /\ SaleIsHeld'
      /\ unreported' = 0 /\ stoppedOut' = FALSE /\ position' = position /\ taken' = taken
      /\ Taking' \in {Taking, 0} \/ (purpose = "take_profit" /\ Taking' = sell)
  <2>1. StrategyNumbers /\ SaleIsHeld
    BY <1>0
  <2> QED BY <2>1, Placed, Zenon
<1>2. harvested' = Harvested /\ reference' = Reference
  BY DEF Updates
<1>3. StrategyNumbers'
  <2>1. stoppedOut' \in BOOLEAN
    BY <1>1, Zenon
  <2>2. harvestAt' \in 0..2
    <3>1. \A i \in 0..2 : \A k \in i..2 : k \in 0..2
      OBVIOUS
    <3> QED BY <3>1, <1>0, Zenon
  <2> QED BY <2>1, <2>2, <1>0, <1>1, <1>2 DEF StrategyNumbers
<1>4. Harvested' = Harvested
  BY <1>0, <1>1, <1>2 DEF Harvested
<1>5. Reference' = Reference
  <2>1. CASE harvestAt' = 0
    <3>1. harvestAt = 0 /\ Reference' = AtLeast(reference', position' + Harvested')
      BY <1>0, <2>1 DEF Reference
    <3> QED BY <3>1, <1>0, <1>1, <1>2, <1>4 DEF AtLeast
  <2>2. CASE harvestAt' # 0
    BY <1>2, <2>2 DEF Reference
  <2> QED BY <2>1, <2>2
<1>6. QuartersTaken'
  <2>1. Reference \div 4 \in Nat /\ taken + Taking <= 2 * (Reference \div 4)
    BY <1>0, Quarter DEF PhasesInv, QuartersTaken
  <2> QED BY <2>1, <1>0, <1>1, <1>5 DEF QuartersTaken
<1>7. TakenIsTold' /\ StopEndsHarvest'
  BY <1>0, <1>1, <1>4 DEF TakenIsTold, StopEndsHarvest
<1> QED BY <1>1, <1>3, <1>6, <1>7 DEF PhasesInv

\* Where nothing is taken, and nothing of the harvests works, nothing is to be shown.
LEMMA NothingTaken ==
    ASSUME StrategyNumbers', SaleIsHeld', taken' = 0, Taking' = 0
    PROVE  PhasesInv'
<1>1. Harvested' \in Nat /\ Reference' \in Nat
  BY ReferenceIsThen
<1> DEFINE q == Reference' \div 4
<1>2. q \in Nat
  BY <1>1, Quarter
<1> HIDE DEF q
<1>3. taken' + Taking' <= 2 * q
  BY <1>2, TwoQuarters, Zenon
<1>4. taken' <= Harvested'
  <2>1. \A n \in Nat : 0 <= n
    OBVIOUS
  <2> QED BY <2>1, <1>1, Zenon
<1> QED BY <1>3, <1>4, Zenon DEF PhasesInv, TakenIsTold, QuartersTaken, StopEndsHarvest, q

\* An evaluation.
LEMMA EvaluateKeeps == PhasesInv /\ Evaluate => PhasesInv'
<1> SUFFICES ASSUME PhasesInv, Evaluate PROVE PhasesInv'
  OBVIOUS
<1>0. /\ StrategyNumbers /\ SaleIsHeld /\ position \in Nat /\ harvestAt \in 0..2 /\ nextStage \in Nat
      /\ floor \in Nat /\ taken \in Nat /\ taken <= Harvested /\ Harvested \in Nat /\ Reference \in Nat
      /\ Taking \in Nat /\ taken + Taking <= 2 * (Reference \div 4)
      /\ ProbeSize \in Nat /\ BuildSize \in Nat
  BY ReferenceIs, StrategyAssumption
     DEF PhasesInv, StrategyNumbers, TakenIsTold, QuartersTaken, Taking, Sales
<1>a. Held \in {"PROBE", "BUILD", "RIDE", "HARVEST"} /\ Rides \in {"PROBE", "BUILD", "RIDE", "HARVEST"}
      /\ Awake \in {"WATCH", "FLAT", "PROBE", "BUILD", "RIDE", "HARVEST"}
  BY <1>0 DEF StrategyNumbers, Held, Awake, Rides
<1>1. CASE StoppedOut
  <2>1. Decides(0, position, "exit") /\ phase' = "COOLDOWN"
        /\ UNCHANGED <<reference, harvestAt, harvested, nextStage, floor>>
    BY <1>1 DEF StoppedOut
  <2>2. taken = 0 /\ Taking = 0
    BY <1>1 DEF StoppedOut, PhasesInv, StopEndsHarvest
  <2>3. /\ buying' \in Nat /\ selling' \in Sales /\ SaleIsHeld'
        /\ unreported' = 0 /\ stoppedOut' = FALSE /\ position' = position /\ taken' = taken /\ Taking' = 0
    <3>1. 0 \in Nat /\ position <= position
      BY <1>0
    <3>2. /\ buying' \in Nat /\ selling' \in Sales /\ SaleIsHeld'
          /\ unreported' = 0 /\ stoppedOut' = FALSE /\ position' = position /\ taken' = taken
          /\ Taking' \in {Taking, 0} \/ ("exit" = "take_profit" /\ Taking' = position)
      BY <1>0, <2>1, <3>1, Placed, Zenon
    <3> QED BY <2>2, <3>2
  <2>4. StrategyNumbers'
    BY <1>0, <2>1, <2>3 DEF StrategyNumbers
  <2> QED BY <2>2, <2>3, <2>4, NothingTaken
<1>2. CASE CoolingDown
  <2>1. Decides(0, 0, "none")
        /\ UNCHANGED <<phase, reference, harvestAt, harvested, nextStage, floor>>
    BY <1>2 DEF CoolingDown, Nothing, own
  <2>2. taken = 0 /\ Taking = 0
    BY <1>2 DEF CoolingDown, PhasesInv, StopEndsHarvest
  <2>3. /\ buying' \in Nat /\ selling' \in Sales /\ SaleIsHeld'
        /\ unreported' = 0 /\ stoppedOut' = FALSE /\ position' = position /\ taken' = taken /\ Taking' = 0
    <3>1. 0 \in Nat /\ 0 <= position
      BY <1>0
    <3>2. /\ buying' \in Nat /\ selling' \in Sales /\ SaleIsHeld'
          /\ unreported' = 0 /\ stoppedOut' = FALSE /\ position' = position /\ taken' = taken
          /\ Taking' \in {Taking, 0} \/ ("none" = "take_profit" /\ Taking' = 0)
      BY <1>0, <2>1, <3>1, Placed, Zenon
    <3> QED BY <2>2, <3>2
  <2>4. StrategyNumbers'
    BY <1>0, <2>1, <2>3 DEF StrategyNumbers
  <2> QED BY <2>2, <2>3, <2>4, NothingTaken
<1>3. ASSUME NEW confirmed \in BOOLEAN, Flat(confirmed) PROVE PhasesInv'
  <2>1. PICK buy \in {0, ProbeSize} : Decides(buy, 0, "none")
    BY <1>3 DEF Flat, Nothing
  <2>2. phase' \in {"WATCH", "FLAT", "PROBE", "BUILD", "RIDE", "HARVEST"}
    BY <1>3, <1>a DEF Flat
  <2>3. position = 0 /\ reference' = 0 /\ harvestAt' = 0 /\ harvested' = 0 /\ nextStage' = 2 /\ floor' = 0
    BY <1>3 DEF Flat
  <2>4. taken = 0 /\ Taking = 0
    BY <2>3, <1>0 DEF PhasesInv, TakenIsTold, SaleIsHeld, Taking, StrategyNumbers, Sales
  <2>5. /\ buying' \in Nat /\ selling' \in Sales /\ SaleIsHeld'
        /\ unreported' = 0 /\ stoppedOut' = FALSE /\ position' = position /\ taken' = taken /\ Taking' = 0
    <3>1. 0 \in Nat /\ 0 <= position /\ buy \in Nat
      BY <1>0
    <3>2. /\ buying' \in Nat /\ selling' \in Sales /\ SaleIsHeld'
          /\ unreported' = 0 /\ stoppedOut' = FALSE /\ position' = position /\ taken' = taken
          /\ Taking' \in {Taking, 0} \/ ("none" = "take_profit" /\ Taking' = 0)
      BY <1>0, <2>1, <3>1, Placed, Zenon
    <3> QED BY <2>4, <3>2
  <2>6. StrategyNumbers'
    <3>1. stoppedOut' \in BOOLEAN
      BY <2>5, Zenon
    <3>2. harvestAt' \in 0..2 /\ nextStage' \in Nat /\ floor' \in Nat /\ reference' \in Nat
          /\ harvested' \in Nat
      BY <2>3
    <3> QED BY <3>1, <3>2, <1>0, <2>2, <2>5 DEF StrategyNumbers
  <2> QED BY <2>4, <2>5, <2>6, NothingTaken
<1>4. ASSUME NEW stop \in 0..MaxStop,
             LowerStopRefused(stop) \/ ExitDue(stop) \/ BuildConfirmed(stop)
      PROVE  PhasesInv'
  <2>0. stop \in Nat /\ AtLeast(stop, floor) \in Nat
    BY <1>0, StrategyAssumption DEF AtLeast
  <2>1. CASE LowerStopRefused(stop)
    <3>1. Updates /\ Decides(0, 0, "none") /\ phase' = Held /\ UNCHANGED <<harvestAt, nextStage, floor>>
      BY <2>1 DEF LowerStopRefused, Nothing
    <3>2. harvestAt' \in harvestAt..2 /\ nextStage' \in Nat /\ floor' \in Nat
      BY <3>1, <1>0
    <3> QED BY <3>1, <3>2, <1>0, <1>a, UpdateKeeps
  <2>2. CASE ExitDue(stop)
    <3>1. Updates /\ Decides(0, position, "exit") /\ phase' = "HARVEST" /\ UNCHANGED <<harvestAt, nextStage>>
          /\ floor' = AtLeast(stop, floor)
      BY <2>2 DEF ExitDue, SetsStop
    <3>2. harvestAt' \in harvestAt..2 /\ nextStage' \in Nat /\ floor' \in Nat
      BY <3>1, <1>0, <2>0
    <3> QED BY <3>1, <3>2, <1>0, UpdateKeeps
  <2>3. CASE BuildConfirmed(stop)
    <3>1. Updates /\ Decides(BuildSize, 0, "none") /\ phase' = "BUILD" /\ nextStage' = nextStage + 1
          /\ UNCHANGED harvestAt /\ floor' = AtLeast(stop, floor)
      BY <2>3 DEF BuildConfirmed, SetsStop
    <3>2. harvestAt' \in harvestAt..2 /\ nextStage' \in Nat /\ floor' \in Nat
      BY <3>1, <1>0, <2>0
    <3> QED BY <3>1, <3>2, <1>0, UpdateKeeps
  <2> QED BY <1>4, <2>1, <2>2, <2>3
<1>5. ASSUME NEW stop \in 0..MaxStop, NEW multiple \in 0..2, HarvestOrRide(stop, multiple)
      PROVE  PhasesInv'
  <2> DEFINE index == Index(multiple)
             due == index < 2 /\ multiple >= index + 1
  <2>0. stop \in Nat /\ AtLeast(stop, floor) \in Nat /\ index \in harvestAt..2
    BY <1>0, StrategyAssumption, IndexIs DEF AtLeast
  <2>1. /\ Updates /\ floor' = AtLeast(stop, floor) /\ harvestAt' = index /\ nextStage' = nextStage
        /\ \/ due /\ phase' = "HARVEST"
                  /\ Decides(0, AtMost(position, RemainingTarget(index)), "take_profit")
           \/ ~due /\ phase' = (IF index > harvestAt THEN "HARVEST" ELSE Rides) /\ Decides(0, 0, "none")
    BY <1>5 DEF HarvestOrRide, SetsStop, Nothing
  <2> HIDE DEF index
  <2>2. CASE due /\ phase' = "HARVEST"
                 /\ Decides(0, AtMost(position, RemainingTarget(index)), "take_profit")
    <3> DEFINE sell == AtMost(position, RemainingTarget(index))
    <3>1. index \in 0..1
      BY <1>0, <2>0, <2>2
    <3>2. Reference \div 4 \in Nat
      BY <1>0, Quarter
    <3>3. RemainingTarget(index) \in Nat /\ taken + RemainingTarget(index) <= 2 * (Reference \div 4)
      BY <1>0, <3>1, <3>2, TargetIs
    <3>4. sell \in Nat /\ sell <= position /\ taken + sell <= 2 * (Reference \div 4)
      BY <1>0, <3>2, <3>3 DEF AtMost
    <3>5. Decides(0, sell, "take_profit") /\ phase' = "HARVEST"
      BY <2>2
    <3> HIDE DEF sell, due
    <3> QED BY <1>0, <2>0, <2>1, <3>4, <3>5, UpdateKeeps
  <2>3. CASE ~due /\ phase' = (IF index > harvestAt THEN "HARVEST" ELSE Rides) /\ Decides(0, 0, "none")
    <3>1. phase' \in {"WATCH", "FLAT", "PROBE", "BUILD", "RIDE", "HARVEST"}
      BY <2>3, <1>a
    <3> HIDE DEF due
    <3> QED BY <1>0, <2>0, <2>1, <2>3, <3>1, UpdateKeeps
  <2> QED BY <2>1, <2>2, <2>3
<1> QED BY <1>1, <1>2, <1>3, <1>4, <1>5 DEF Evaluate

\* Every step.
LEMMA NextPhases == PhasesInv /\ [StrategyNext]_strategyVars => PhasesInv'
<1> SUFFICES ASSUME PhasesInv, [StrategyNext]_strategyVars PROVE PhasesInv'
  OBVIOUS
<1>1. CASE UNCHANGED strategyVars
  BY <1>1 DEF strategyVars, own, caller, PhasesInv, StrategyNumbers, SaleIsHeld, TakenIsTold, QuartersTaken,
              StopEndsHarvest, Taking, Harvested, Reference
<1> QED BY <1>1, OrderSteps, EvaluateKeeps DEF StrategyNext

\* However a harvest is decided again while its order fills in parts, whatever late
\* entries add and wherever the stop fires: the harvests leave at least half of the
\* reference quantity, for all sizes, stages and stop prices.
THEOREM HalfIsKept == StrategySpec => []HalfRides
<1>1. PhasesInv => HalfRides
  <2> SUFFICES ASSUME PhasesInv PROVE HalfRides
    OBVIOUS
  <2>1. Reference \in Nat /\ Taking \in Nat /\ taken \in Nat /\ taken + Taking <= 2 * (Reference \div 4)
    BY ReferenceIs DEF PhasesInv, StrategyNumbers, QuartersTaken, Taking, Sales
  <2> QED BY <2>1, Quarter DEF HalfRides
<1> QED BY <1>1, InitPhases, NextPhases, PTL DEF StrategySpec

(***************************************************************************)
(* The paper accumulation.                                                 *)
(***************************************************************************)

Book == [quantity : Nat, notional : Nat, fees : Nat, funding : Int, terminal : BOOLEAN,
         next : Nat, last : Nat, rate : Int, fills : Nat]

PaperTypes ==
    /\ paper \in Book /\ time \in Nat /\ bookedFunding \in Nat
    /\ sending \in 0..MaxFills
    /\ outbox \in [1..MaxFills -> {"none", "pending", "sending", "sent", "unknown", "failed"}]
    /\ delivered \in [1..MaxFills -> Nat]

\* What was bought cost a multiple of 20: the shares of it are exact.
Exact == \E m \in Nat : paper.notional = 20 * m

\* A funding time that passed uncharged is the one the book waits for.
OwedIsNext ==
    /\ paper.last <= time
    /\ \/ paper.terminal \/ owed = {}
       \/ /\ owed = {paper.next} /\ paper.quantity > 0
          /\ paper.last < paper.next /\ paper.next <= time

\* What a notice's state says of how often it was seen, and of what is being sent.
NoticesAreSeen == \A k \in 1..MaxFills :
    /\ outbox[k] = "sending" <=> sending = k
    /\ outbox[k] \in {"none", "pending", "sending"} => delivered[k] = 0

PaperInv == PaperTypes /\ Exact /\ OwedIsNext /\ NoticesAreSeen /\ PaperBooks

----------------------------------------------------------------------------

\* The lesser of some numbers is one of them.
LEMMA LeastOfTwo ==
    ASSUME NEW a \in Int, NEW b \in Int
    PROVE  Least({a, b}) \in Int
<1>1. \E x \in {a, b} : \A y \in {a, b} : x <= y
  OBVIOUS
<1> QED BY <1>1 DEF Least

\* The least of four is one of them, and none of them is less.
LEMMA LeastOfFour ==
    ASSUME NEW a \in Int, NEW b \in Int, NEW c \in Int, NEW d \in Int
    PROVE  Least({a, b, c, d}) \in Int /\ Least({a, b, c, d}) <= b
<1> DEFINE S == {a, b, c, d}
<1>1. \E x \in S : \A y \in S : x <= y
  <2>1. \E x \in {a, b} : x <= a /\ x <= b
    OBVIOUS
  <2>2. \E x \in {c, d} : x <= c /\ x <= d
    OBVIOUS
  <2> QED BY <2>1, <2>2
<1>2. Least(S) \in S /\ \A y \in S : Least(S) <= y
  BY <1>1 DEF Least
<1> QED BY <1>2

\* Products of natural numbers.
LEMMA ProductGrows ==
    ASSUME NEW n \in Nat, NEW a \in Nat, NEW b \in Nat, a <= b
    PROVE  n * a <= n * b /\ n * a \in Nat
<1>1. PICK d \in Nat : b = a + d
  <2>1. b - a \in Nat /\ b = a + (b - a)
    OBVIOUS
  <2> QED BY <2>1
<1>2. n * (a + d) = n * a + n * d /\ n * d \in Nat /\ n * a \in Nat
  OBVIOUS
<1> QED BY <1>1, <1>2

\* As many as fit are no more than there is.
LEMMA QuotientFits ==
    ASSUME NEW n \in Nat, NEW d \in Nat \ {0}, NEW x \in Nat, n <= x \div d
    PROVE  n * d <= x
<1>1. x \div d \in Nat /\ d * (x \div d) <= x
  OBVIOUS
<1>2. d * n <= d * (x \div d)
  BY <1>1, ProductGrows
<1>3. d * n = n * d /\ d * n \in Nat /\ d * (x \div d) \in Nat
  BY <1>1
<1> QED BY <1>1, <1>2, <1>3

\* The shares of a multiple of 20.
LEMMA Twentieths ==
    ASSUME NEW m \in Nat
    PROVE  (20 * m) \div 20 = m /\ (20 * m) \div 10 = 2 * m
OBVIOUS

\* A price of the grid is a positive number of twentieths.
LEMMA PricesAre ==
    ASSUME NEW p \in Prices
    PROVE  /\ p \in Nat \ {0} /\ p \div 20 \in Nat \ {0} /\ p = 20 * (p \div 20)
           /\ p \div 10 = 2 * (p \div 20)
<1>1. p \in Nat \ {0} /\ p % 20 = 0
  BY PaperAssumption DEF PaperAssumption
<1> QED BY <1>1

\* What observing the funding leaves alone, and what it settles.
LEMMA ObservedBook ==
    ASSUME PaperInv, NEW mark \in Prices, NEW next \in Announced, NEW rate \in -1..1
    PROVE  LET s == Observed(mark, next, rate) IN
           /\ s \in Book
           /\ s.quantity = paper.quantity /\ s.notional = paper.notional
           /\ s.fees = paper.fees /\ s.fills = paper.fills /\ s.next = next
           /\ paper.terminal => s.terminal
           /\ s.last <= time
           /\ \/ s.terminal
              \/ (IF s.last > paper.last THEN owed \ {s.last} ELSE owed) = {}
<1> DEFINE f == Funded(paper, mark)
           s == Observed(mark, next, rate)
           due == paper.next > 0 /\ time >= paper.next /\ paper.next > paper.last
                  /\ paper.quantity > 0 /\ ~paper.terminal
<1>0. paper \in Book /\ time \in Nat /\ mark \in Nat /\ mark \div 20 \in Nat
      /\ next \in Nat /\ rate \in Int
  <2>1. next \in Nat
    BY PaperAssumption DEF Announced, PaperInv, PaperTypes, PaperAssumption
  <2> QED BY <2>1, PricesAre DEF PaperInv, PaperTypes
<1>1. /\ paper.quantity \in Nat /\ paper.notional \in Nat /\ paper.fees \in Nat
      /\ paper.funding \in Int /\ paper.terminal \in BOOLEAN /\ paper.next \in Nat
      /\ paper.last \in Nat /\ paper.fills \in Nat
  BY <1>0 DEF Book
<1>2. /\ f \in Book
      /\ f.quantity = paper.quantity /\ f.notional = paper.notional
      /\ f.fees = paper.fees /\ f.fills = paper.fills
      /\ paper.terminal => f.terminal
      /\ f.last <= time
      /\ \/ f.terminal
         \/ (IF f.last > paper.last THEN owed \ {f.last} ELSE owed) = {}
  <2>1. CASE ~due
    <3>1. f = paper
      BY <2>1 DEF Funded
    <3>2. paper.terminal \/ owed = {}
      BY <1>1, <2>1 DEF PaperInv, OwedIsNext
    <3> QED BY <1>0, <1>1, <3>1, <3>2 DEF PaperInv, OwedIsNext
  <2>2. CASE due /\ time - paper.next > 1
    <3>1. f = [paper EXCEPT !.terminal = TRUE]
      BY <2>2 DEF Funded
    <3> QED BY <1>0, <1>1, <3>1 DEF PaperInv, OwedIsNext, Book
  <2>3. CASE due /\ ~(time - paper.next > 1)
    <3> DEFINE cost == paper.quantity * (mark \div 20) * paper.rate
    <3>0. cost \in Int
      <4>1. paper.rate \in Int
        BY <1>0 DEF Book
      <4> QED BY <1>0, <1>1, <4>1
    <3>1. f = [paper EXCEPT !.funding = @ + cost, !.last = paper.next]
      BY <2>3 DEF Funded
    <3> DEFINE total == paper.funding + cost
    <3>4. total \in Int
      BY <1>1, <3>0
    <3>5. f = [paper EXCEPT !.funding = total, !.last = paper.next]
      BY <3>1
    <3> HIDE DEF cost, total, f
    <3>2. f \in Book /\ f.last = paper.next /\ f.terminal = paper.terminal
          /\ f.quantity = paper.quantity /\ f.notional = paper.notional
          /\ f.fees = paper.fees /\ f.fills = paper.fills
      BY <1>0, <1>1, <3>4, <3>5 DEF Book
    <3>3. owed \ {paper.next} = {}
      BY <2>3 DEF PaperInv, OwedIsNext
    <3> QED BY <1>1, <2>3, <3>2, <3>3
  <2> QED BY <2>1, <2>2, <2>3
<1>3. s = [f EXCEPT !.next = next, !.rate = rate]
  BY DEF Observed
<1> HIDE DEF f, s
<1>4. /\ s \in Book /\ s.quantity = f.quantity /\ s.notional = f.notional /\ s.fees = f.fees
      /\ s.fills = f.fills /\ s.next = next /\ s.terminal = f.terminal /\ s.last = f.last
  BY <1>0, <1>2, <1>3 DEF Book
<1>5. QED BY <1>2, <1>4 DEF s

\* A poll that does not buy leaves the notices and what the budget is about.
LEMMA QuietPoll ==
    ASSUME PaperInv, NEW mark \in Prices, NEW next \in Announced, NEW rate \in -1..1,
           StepWaits(mark, next, rate) \/ StepExits(mark, next, rate)
    PROVE  PaperInv'
<1> DEFINE s == Observed(mark, next, rate)
<1>1. /\ paper' = s \/ paper' = [s EXCEPT !.terminal = TRUE]
      /\ owed' = IF paper'.last > paper.last THEN owed \ {paper'.last} ELSE owed
      /\ UNCHANGED <<time, sending, delivered, outbox, bookedFunding>>
  BY DEF StepWaits, StepExits, Commits
<1>2. /\ s \in Book
      /\ s.quantity = paper.quantity /\ s.notional = paper.notional
      /\ s.fees = paper.fees /\ s.fills = paper.fills
      /\ s.last <= time
      /\ \/ s.terminal
         \/ (IF s.last > paper.last THEN owed \ {s.last} ELSE owed) = {}
  BY ObservedBook
<1> HIDE DEF s
<1>3. /\ paper' \in Book
      /\ paper'.notional = paper.notional /\ paper'.fees = paper.fees /\ paper'.fills = paper.fills
      /\ paper'.last <= time
      /\ paper'.terminal \/ owed' = {}
  BY <1>1, <1>2 DEF Book
<1>4. PaperTypes' /\ Exact' /\ OwedIsNext'
  BY <1>1, <1>3 DEF PaperInv, PaperTypes, Exact, OwedIsNext
<1>5. NoticesAreSeen' /\ PaperBooks'
  BY <1>1, <1>3 DEF PaperInv, NoticesAreSeen, PaperBooks, FundingSettled, BudgetCoversExit,
     FillsNotifiedOnce
<1> QED BY <1>4, <1>5 DEF PaperInv

\* A purchase the equity pays for, its margin and both its fees included.
LEMMA PurchaseFits ==
    ASSUME NEW s \in Book, NEW m \in Nat, s.notional = 20 * m, NEW mark \in Prices,
           NEW worst \in Prices, NEW paid \in Prices, paid <= worst, NEW n \in Nat \ {0},
           n <= Affordable(s, worst, mark)
    PROVE  /\ n * paid = 20 * (n * (paid \div 20)) /\ n * (paid \div 20) \in Nat
           /\ 3 * (m + n * (paid \div 20)) + s.fees + n * (paid \div 20) + Positive(s.funding) <= E0
<1> DEFINE a == paid \div 20
           b == worst \div 20
           above == Positive(worst - mark)
           x == Positive(E0 - 2 * m - s.fees - Positive(s.funding) - m)
<1>1. s.fees \in Nat /\ s.funding \in Int /\ E0 \in Nat /\ Positive(s.funding) \in Nat
  BY PaperAssumption DEF Book, PaperAssumption, Positive
<1>2. a \in Nat \ {0} /\ b \in Nat \ {0} /\ paid = 20 * a /\ worst = 20 * b
      /\ worst \div 10 = 2 * b /\ mark \in Nat
  BY PricesAre
<1>3. above \in Nat /\ x \in Nat
  BY <1>1, <1>2 DEF Positive
<1>4. s.notional \div 10 = 2 * m /\ s.notional \div 20 = m
  BY Twentieths
<1>5. Affordable(s, worst, mark) = x \div (2 * b + 2 * b + above)
  BY <1>2, <1>4 DEF Affordable
<1> HIDE DEF a, b, above, x
<1>6. 2 * b + 2 * b + above \in Nat \ {0} /\ 4 * a <= 2 * b + 2 * b + above
  BY <1>2, <1>3
<1>7. n * (2 * b + 2 * b + above) <= x
  BY <1>3, <1>5, <1>6, QuotientFits
<1>8. n * (4 * a) <= n * (2 * b + 2 * b + above) /\ n * (4 * a) \in Nat
      /\ n * (2 * b + 2 * b + above) \in Nat
  <2>1. 4 * a \in Nat
    BY <1>2
  <2> QED BY <1>6, <2>1, ProductGrows
<1>9. n * (4 * a) = 4 * (n * a) /\ n * a \in Nat \ {0} /\ n * (20 * a) = 20 * (n * a)
  BY <1>2
<1>10. 4 * (n * a) <= x
  BY <1>3, <1>7, <1>8, <1>9
<1>11. x = E0 - 2 * m - s.fees - Positive(s.funding) - m
  BY <1>1, <1>9, <1>10 DEF x, Positive
<1>12. 3 * (m + n * a) + s.fees + n * a + Positive(s.funding) <= E0
  BY <1>1, <1>9, <1>10, <1>11
<1>13. n * paid = 20 * (n * a)
  BY <1>2, <1>9
<1> QED BY <1>9, <1>12, <1>13 DEF a

\* A poll that buys.
LEMMA BuyingPoll ==
    ASSUME PaperInv, NEW mark \in Prices, NEW next \in Announced, NEW rate \in -1..1,
           NEW which \in DOMAIN Phases, NEW worst \in Prices, NEW paid \in Prices,
           NEW depth \in Depths, sending = 0,
           StepBuys(mark, next, rate, which, worst, paid, depth)
    PROVE  PaperInv'
<1> DEFINE s == Observed(mark, next, rate)
           n == Clip(s, which, worst, mark, depth)
           cost == n * paid
           k == s.fills + 1
<1>1. /\ ~s.terminal /\ s.fills < MaxFills /\ n > 0 /\ paid <= worst
      /\ paper' = Bought(s, n, cost)
      /\ owed' = IF paper'.last > paper.last THEN owed \ {paper'.last} ELSE owed
      /\ outbox' = [outbox EXCEPT ![k] = "pending"]
      /\ bookedFunding' = Positive(s.funding)
      /\ UNCHANGED <<time, sending, delivered>>
  BY DEF StepBuys, Commits
<1>2. /\ s \in Book
      /\ s.quantity = paper.quantity /\ s.notional = paper.notional
      /\ s.fees = paper.fees /\ s.fills = paper.fills
      /\ s.last <= time
      /\ \/ s.terminal
         \/ (IF s.last > paper.last THEN owed \ {s.last} ELSE owed) = {}
  BY ObservedBook
<1>3. PICK m \in Nat : s.notional = 20 * m
  BY <1>2 DEF PaperInv, Exact
<1>4. n \in Nat \ {0} /\ n <= Affordable(s, worst, mark)
  <2> DEFINE u == Positive(Phases[which].upTo - s.notional)
             t == Least({Phases[which].clip, u}) \div worst
             v == Affordable(s, worst, mark)
             w == Positive(Target - s.notional) \div worst
  <2>1. worst \in Nat \ {0} /\ mark \in Nat /\ worst \div 10 \in Nat /\ worst \div 20 \in Nat \ {0}
    BY PricesAre
  <2>2. s.notional \in Nat /\ s.fees \in Nat /\ s.funding \in Int
    BY <1>2 DEF Book
  <2>3. Target \in Nat /\ Phases[which].upTo \in Int /\ Phases[which].clip \in Int
    BY PaperAssumption DEF PaperAssumption, Phases, Target
  <2>4. t \in Int
    <3>1. u \in Int
      BY <2>2, <2>3 DEF Positive
    <3>2. Least({Phases[which].clip, u}) \in Int
      BY <2>3, <3>1, LeastOfTwo
    <3> QED BY <2>1, <3>2
  <2>5. w \in Int
    BY <2>1, <2>2, <2>3 DEF Positive
  <2>6. v \in Int
    <3> DEFINE x == Positive(E0 - s.notional \div 10 - s.fees - Positive(s.funding)
                             - s.notional \div 20)
               d == worst \div 10 + 2 * (worst \div 20) + Positive(worst - mark)
    <3>1. x \in Int
      BY <2>2, PaperAssumption DEF PaperAssumption, Positive
    <3>2. d \in Nat \ {0}
      BY <2>1 DEF Positive
    <3>3. v = x \div d
      BY DEF Affordable
    <3> HIDE DEF x, d, v
    <3> QED BY <3>1, <3>2, <3>3
  <2>7. depth \in Int
    BY PaperAssumption DEF PaperAssumption
  <2>8. n = Least({t, v, w, depth})
    BY DEF Clip
  <2> HIDE DEF t, v, w, n
  <2>9. n \in Int /\ n <= v
    BY <2>4, <2>5, <2>6, <2>7, <2>8, LeastOfFour
  <2> QED BY <1>1, <2>9 DEF v
<1> HIDE DEF s, n
<1> DEFINE c == n * (paid \div 20)
<1>5. /\ cost = 20 * c /\ c \in Nat
      /\ 3 * (m + c) + s.fees + c + Positive(s.funding) <= E0
  BY <1>1, <1>2, <1>3, <1>4, PurchaseFits
<1> HIDE DEF c, cost
<1>6. /\ cost \in Nat /\ cost \div 20 = c /\ s.notional + cost = 20 * (m + c) /\ m + c \in Nat
      /\ s.quantity + n \in Nat /\ s.fees + c \in Nat /\ k \in Nat
  <2>1. s.quantity \in Nat /\ s.fees \in Nat /\ s.fills \in Nat
    BY <1>2 DEF Book
  <2>2. cost \div 20 = c
    BY <1>5, Twentieths
  <2> QED BY <1>3, <1>4, <1>5, <2>1, <2>2
<1> DEFINE q == s.quantity + n
           o == s.notional + cost
           e == s.fees + c
<1>7. paper' = [s EXCEPT !.quantity = q, !.notional = o, !.fees = e, !.fills = k]
  BY <1>1, <1>6 DEF Bought
<1> HIDE DEF k, q, o, e
<1>8. /\ paper' \in Book
      /\ paper'.notional = o /\ paper'.fees = e /\ paper'.fills = k
      /\ paper'.last = s.last /\ paper'.terminal = s.terminal
  <2>1. q \in Nat /\ o \in Nat /\ e \in Nat /\ k \in Nat
    BY <1>6 DEF q, o, e
  <2> QED BY <1>2, <1>7, <2>1 DEF Book
<1>9. k \in 1..MaxFills /\ MaxFills \in Nat
  BY <1>1, <1>2, PaperAssumption DEF PaperAssumption, Book, k
<1>10. PaperTypes'
  <2>1. bookedFunding' \in Nat
    BY <1>1, <1>2 DEF Book, Positive
  <2> QED BY <1>1, <1>8, <1>9, <2>1 DEF PaperInv, PaperTypes
<1>11. Exact'
  <2>1. o = 20 * (m + c) /\ m + c \in Nat
    BY <1>6 DEF o
  <2> QED BY <1>8, <2>1 DEF Exact
<1>12. OwedIsNext' /\ FundingSettled'
  <2>1. owed' = {} /\ paper'.last <= time /\ time' = time
    BY <1>1, <1>2, <1>8
  <2> QED BY <2>1 DEF OwedIsNext, FundingSettled
<1>13. NoticesAreSeen' /\ FillsNotifiedOnce'
  <2>1. outbox[k] = "none"
    <3>1. ~(k <= paper.fills)
      BY <1>2 DEF Book, k
    <3> QED BY <1>9, <3>1 DEF PaperInv, PaperBooks, FillsNotifiedOnce
  <2>2. \A j \in 1..MaxFills : j <= k <=> j = k \/ j <= paper.fills
    BY <1>2 DEF Book, k
  <2>3. outbox'[k] = "pending" /\ \A j \in 1..MaxFills : j # k => outbox'[j] = outbox[j]
    BY <1>1, <1>9 DEF PaperInv, PaperTypes
  <2> QED BY <1>1, <1>8, <1>9, <2>1, <2>2, <2>3
      DEF PaperInv, PaperBooks, NoticesAreSeen, FillsNotifiedOnce
<1>14. BudgetCoversExit'
  <2>1. (20 * (m + c)) \div 20 = m + c /\ (20 * (m + c)) \div 10 = 2 * (m + c)
    BY <1>6, Twentieths
  <2>2. o = 20 * (m + c) /\ e = s.fees + c
    BY <1>6 DEF o, e
  <2>3. Positive(s.funding) \in Int /\ s.fees \in Int
    BY <1>2 DEF Book, Positive
  <2> DEFINE f == Positive(s.funding)
  <2> HIDE DEF f
  <2>4. o \div 10 + e + o \div 20 + f <= E0
    <3>1. o \div 10 = 2 * (m + c) /\ o \div 20 = m + c
      BY <2>1, <2>2
    <3>2. f \in Int /\ 3 * (m + c) + s.fees + c + f <= E0
      BY <1>5, <2>3 DEF f
    <3>3. E0 \in Int
      BY PaperAssumption DEF PaperAssumption
    <3> QED BY <1>5, <2>2, <2>3, <3>1, <3>2, <3>3
  <2> QED BY <1>1, <1>8, <2>4 DEF BudgetCoversExit, f
<1> QED BY <1>10, <1>11, <1>12, <1>13, <1>14 DEF PaperInv, PaperBooks

\* A funding time that comes while holding is the one the book waits for.
LEMMA TimeKeeps == PaperInv /\ TimePasses => PaperInv'
<1> SUFFICES ASSUME PaperInv, TimePasses PROVE PaperInv'
  OBVIOUS
<1>1. /\ time' = time + 1 /\ polled' = FALSE
      /\ owed' = IF time + 1 = paper.next /\ paper.quantity > 0 /\ ~paper.terminal
                 THEN owed \union {time + 1} ELSE owed
      /\ UNCHANGED <<paper, bookedFunding, outbox, sending, delivered>>
  BY DEF TimePasses
<1>2. time \in Nat /\ paper.last \in Nat /\ paper.next \in Nat
  BY DEF PaperInv, PaperTypes, Book
<1>3. PaperTypes' /\ Exact' /\ NoticesAreSeen'
  BY <1>1, <1>2 DEF PaperInv, PaperTypes, Exact, NoticesAreSeen
<1>4. OwedIsNext'
  BY <1>1, <1>2 DEF PaperInv, OwedIsNext
<1>5. PaperBooks'
  BY <1>1 DEF PaperInv, PaperBooks, FundingSettled, BudgetCoversExit, FillsNotifiedOnce
<1> QED BY <1>3, <1>4, <1>5 DEF PaperInv

\* The oldest pending notice was not seen yet.
LEMMA FlushKeeps == PaperInv /\ FlushStarts => PaperInv'
<1> SUFFICES ASSUME PaperInv, FlushStarts PROVE PaperInv'
  OBVIOUS
<1> DEFINE k == Least(Pending)
<1>1. /\ sending = 0 /\ Pending # {} /\ sending' = k /\ outbox' = [outbox EXCEPT ![k] = "sending"]
      /\ UNCHANGED <<paper, time, polled, bookedFunding, owed, delivered>>
  BY DEF FlushStarts
<1>2. k \in Pending
  <2>1. Pending \in SUBSET (1..MaxFills) /\ MaxFills \in Nat
    BY PaperAssumption DEF PaperAssumption, Pending, PaperInv, PaperTypes
  <2>2. k = Min(Pending)
    BY DEF Least, Min
  <2> QED BY <1>1, <2>1, <2>2, LeastElement
<1>3. k \in 1..MaxFills /\ outbox[k] = "pending" /\ delivered[k] = 0
  BY <1>2 DEF Pending, PaperInv, PaperTypes, NoticesAreSeen
<1> HIDE DEF k
<1>4. MaxFills \in Nat
  BY PaperAssumption DEF PaperAssumption
<1>5. outbox'[k] = "sending" /\ \A j \in 1..MaxFills : j # k => outbox'[j] = outbox[j]
  BY <1>1, <1>3 DEF PaperInv, PaperTypes
<1>6. PaperTypes' /\ Exact' /\ OwedIsNext'
  BY <1>1, <1>3, <1>4 DEF PaperInv, PaperTypes, Exact, OwedIsNext
<1>7. NoticesAreSeen'
  BY <1>1, <1>3, <1>4, <1>5 DEF PaperInv, NoticesAreSeen
<1>8. PaperBooks'
  BY <1>1, <1>3, <1>5 DEF PaperInv, PaperBooks, FundingSettled, BudgetCoversExit, FillsNotifiedOnce
<1> QED BY <1>6, <1>7, <1>8 DEF PaperInv

\* Whether the channel answered or the runner died, a notice that may have been seen
\* is never pending again.
LEMMA SentKeeps == PaperInv /\ (FlushReturns \/ CrashAndRestart) => PaperInv'
<1> SUFFICES ASSUME PaperInv, FlushReturns \/ CrashAndRestart PROVE PaperInv'
  OBVIOUS
<1>0. MaxFills \in Nat /\ DOMAIN outbox = 1..MaxFills /\ DOMAIN delivered = 1..MaxFills
      /\ delivered \in [1..MaxFills -> Nat] /\ sending \in 0..MaxFills
      /\ outbox \in [1..MaxFills -> {"none", "pending", "sending", "sent", "unknown", "failed"}]
  BY PaperAssumption DEF PaperAssumption, PaperInv, PaperTypes
<1>1. UNCHANGED <<paper, time, polled, bookedFunding, owed>> /\ sending' = 0
  BY DEF FlushReturns, FlushEnds, CrashAndRestart
<1>2. \E reached \in BOOLEAN, state \in {"sent", "unknown", "pending", "failed"} :
        /\ state = "pending" => ~reached
        /\ outbox' = [k \in 1..MaxFills |-> IF k = sending THEN state ELSE outbox[k]]
        /\ delivered' = [k \in 1..MaxFills |->
                           delivered[k] + (IF reached /\ k = sending THEN 1 ELSE 0)]
  <2>1. ASSUME NEW reached \in BOOLEAN, NEW state, FlushEnds(reached, state)
        PROVE  /\ outbox' = [k \in 1..MaxFills |-> IF k = sending THEN state ELSE outbox[k]]
               /\ delivered' = [k \in 1..MaxFills |->
                                  delivered[k] + (IF reached /\ k = sending THEN 1 ELSE 0)]
    <3>1. /\ outbox' = [outbox EXCEPT ![sending] = state]
          /\ delivered' = [delivered EXCEPT ![sending] = @ + (IF reached THEN 1 ELSE 0)]
      BY <2>1 DEF FlushEnds
    <3>2. \A k \in 1..MaxFills : delivered[k] + 0 = delivered[k]
      BY <1>0
    <3> QED BY <1>0, <3>1, <3>2
  <2>2. CASE FlushReturns
    <3>1. CASE FlushEnds(TRUE, "sent")
      BY <2>1, <3>1
    <3>2. CASE \E reached \in BOOLEAN : FlushEnds(reached, "unknown")
      BY <2>1, <3>2
    <3>3. CASE \E state \in {"pending", "failed"} : FlushEnds(FALSE, state)
      BY <2>1, <3>3
    <3> QED BY <2>2, <3>1, <3>2, <3>3 DEF FlushReturns
  <2>3. CASE CrashAndRestart
    <3>1. PICK reached \in BOOLEAN :
            delivered' = [k \in 1..MaxFills |->
                            delivered[k] + (IF reached /\ k = sending THEN 1 ELSE 0)]
      BY <1>0, <2>3 DEF CrashAndRestart
    <3>2. \A k \in 1..MaxFills :
            AfterRestart(outbox[k]) = IF k = sending THEN "unknown" ELSE outbox[k]
      BY <1>0 DEF AfterRestart, PaperInv, NoticesAreSeen
    <3>3. outbox' = [k \in 1..MaxFills |-> IF k = sending THEN "unknown" ELSE outbox[k]]
      BY <1>0, <2>3, <3>2 DEF CrashAndRestart
    <3> QED BY <3>1, <3>3
  <2> QED BY <2>2, <2>3
<1>3. PICK reached \in BOOLEAN, state \in {"sent", "unknown", "pending", "failed"} :
        /\ state = "pending" => ~reached
        /\ outbox' = [k \in 1..MaxFills |-> IF k = sending THEN state ELSE outbox[k]]
        /\ delivered' = [k \in 1..MaxFills |->
                           delivered[k] + (IF reached /\ k = sending THEN 1 ELSE 0)]
  BY <1>2
<1>4. PaperTypes' /\ Exact' /\ OwedIsNext'
  BY <1>0, <1>1, <1>3 DEF PaperInv, PaperTypes, Exact, OwedIsNext
<1>5. \A k \in 1..MaxFills :
        /\ outbox'[k] = "none" <=> outbox[k] = "none"
        /\ outbox'[k] # "sending"
        /\ outbox'[k] \in {"none", "pending", "sending"} => delivered'[k] = 0
        /\ delivered'[k] <= 1
  <2> SUFFICES ASSUME NEW k \in 1..MaxFills
               PROVE  /\ outbox'[k] = "none" <=> outbox[k] = "none"
                      /\ outbox'[k] # "sending"
                      /\ outbox'[k] \in {"none", "pending", "sending"} => delivered'[k] = 0
                      /\ delivered'[k] <= 1
    OBVIOUS
  <2>1. /\ delivered[k] \in Nat /\ delivered[k] <= 1
        /\ outbox[k] = "sending" <=> sending = k
        /\ outbox[k] \in {"none", "pending", "sending"} => delivered[k] = 0
    BY <1>0 DEF PaperInv, NoticesAreSeen, PaperBooks, FillsNotifiedOnce
  <2>2. CASE k = sending
    <3>1. outbox'[k] = state /\ delivered'[k] = IF reached THEN 1 ELSE 0
      BY <1>3, <2>1, <2>2
    <3> QED BY <1>3, <2>1, <2>2, <3>1
  <2>3. CASE k # sending
    BY <1>3, <2>1, <2>3
  <2> QED BY <2>2, <2>3
<1>6. NoticesAreSeen'
  <2>1. \A k \in 1..MaxFills : k # 0
    BY <1>0
  <2> QED BY <1>1, <1>5, <2>1 DEF NoticesAreSeen
<1>7. PaperBooks'
  BY <1>1, <1>5 DEF PaperInv, PaperBooks, FundingSettled, BudgetCoversExit, FillsNotifiedOnce
<1> QED BY <1>4, <1>6, <1>7 DEF PaperInv

\* The initial state: nothing held, bought, owed or told.
LEMMA InitPaper == PaperInit => PaperInv
<1> SUFFICES ASSUME PaperInit PROVE PaperInv
  OBVIOUS
<1> USE PaperAssumption DEF PaperAssumption
<1>1. paper.notional = 20 * 0 /\ paper.fees = 0 /\ paper.last = 0 /\ paper.fills = 0 /\ bookedFunding = 0
  BY DEF PaperInit
<1>2. PaperTypes
  BY DEF PaperInit, PaperTypes, Book
<1>3. Exact /\ OwedIsNext /\ NoticesAreSeen
  BY <1>1 DEF PaperInit, Exact, OwedIsNext, NoticesAreSeen
<1>4. BudgetCoversExit
  <2>1. paper.notional \div 20 = 0 /\ paper.notional \div 10 = 2 * 0
    BY <1>1, Twentieths
  <2> QED BY <1>1, <2>1 DEF BudgetCoversExit
<1>5. FundingSettled /\ FillsNotifiedOnce
  BY <1>1 DEF PaperInit, FundingSettled, FillsNotifiedOnce
<1> QED BY <1>2, <1>3, <1>4, <1>5 DEF PaperInv, PaperBooks

\* Every step keeps the invariant.
LEMMA NextPaper == PaperInv /\ [PaperNext]_paperVars => PaperInv'
<1> SUFFICES ASSUME PaperInv, [PaperNext]_paperVars PROVE PaperInv'
  OBVIOUS
<1>1. CASE UNCHANGED paperVars
  BY <1>1 DEF paperVars, PaperInv, PaperTypes, Exact, OwedIsNext, NoticesAreSeen, PaperBooks,
     FundingSettled, BudgetCoversExit, FillsNotifiedOnce
<1>2. CASE Poll
  BY <1>2, QuietPoll, BuyingPoll DEF Poll
<1>3. CASE TimePasses \/ FlushStarts \/ FlushReturns \/ CrashAndRestart
  BY <1>3, TimeKeeps, FlushKeeps, SentKeeps
<1> QED BY <1>1, <1>2, <1>3 DEF PaperNext

\* Whatever the market announces and wherever the runner dies, no funding time is passed
\* over, the equity pays for leaving what was bought, and each fill is told at most once.
THEOREM PaperAddsUp == PaperSpec => []PaperBooks
<1>1. PaperInv => PaperBooks
  BY DEF PaperInv
<1> QED BY <1>1, InitPaper, NextPaper, PTL DEF PaperSpec

(***************************************************************************)
(* The size of an entry.                                                   *)
(***************************************************************************)

\* The search holds the largest quantity that fails nothing between its bounds, as far as
\* it has looked: just above them something fails, if an order may be as large.
SizingInv ==
  /\ request \in Requests /\ lower \in Nat /\ upper \in Nat
  /\ lower <= upper /\ upper <= Units(request)
  /\ upper < Units(request) => Failures(request, upper + 1) # {}
  /\ answer # -1 => lower = upper /\ answer \in {0, lower}
  /\ answer \notin {-1, 0} => Failures(request, answer) = {}

\* What a request is made of.
LEMMA RequestOf ==
    ASSUME NEW r \in Requests
    PROVE  /\ IsFiniteSet(DOMAIN r.lots) /\ IsFiniteSet(DOMAIN r.reserved)
           /\ \A i \in DOMAIN r.lots : r.lots[i].quantity \in Nat /\ r.lots[i].price \in Nat
           /\ \A i \in DOMAIN r.reserved : /\ r.reserved[i].quantity \in Nat /\ r.reserved[i].price \in Nat
                                           /\ r.reserved[i].fee \in Nat /\ r.reserved[i].funding \in Nat
           /\ r.quantity \in Nat /\ r.price \in Nat /\ r.fee \in Nat /\ r.funding \in Nat
           /\ r.stop \in Nat /\ r.mark \in Nat /\ r.exitCost \in Nat /\ r.exitFee \in Nat
           /\ r.heldFunding \in Nat /\ r.maximum \in Nat /\ r.leverage \in Nat /\ Units(r) \in Nat
           /\ r.available \in Nat /\ r.lossCap \in Nat /\ r.grossCap \in Nat
           /\ r.realized \in Int
<1>1. \A f \in Sizes \union Limits : r[f] \in Nat
  BY SizingAssumption DEF SizingAssumption
<1>2. \A i \in DOMAIN r.reserved, f \in {"quantity", "price", "fee", "funding"} : r.reserved[i][f] \in Nat
  BY SizingAssumption DEF SizingAssumption
<1>3. /\ r.quantity \in Nat /\ r.price \in Nat /\ r.fee \in Nat /\ r.funding \in Nat
      /\ r.stop \in Nat /\ r.mark \in Nat /\ r.exitCost \in Nat /\ r.exitFee \in Nat
      /\ r.heldFunding \in Nat /\ r.maximum \in Nat /\ r.leverage \in Nat
      /\ r.available \in Nat /\ r.lossCap \in Nat /\ r.grossCap \in Nat
  BY <1>1, Zenon DEF Sizes, Limits
<1>4. \A i \in DOMAIN r.reserved : /\ r.reserved[i].quantity \in Nat /\ r.reserved[i].price \in Nat
                                   /\ r.reserved[i].fee \in Nat /\ r.reserved[i].funding \in Nat
  BY <1>2, Zenon
<1>5. Units(r) \in Nat
  BY <1>3 DEF Units, SmallerOf
<1> QED BY <1>3, <1>4, <1>5, SizingAssumption DEF SizingAssumption

\* Less of what costs less, costs less.
LEMMA LessOfLess ==
    ASSUME NEW f \in Nat, NEW n \in Nat, f <= n, NEW u \in Int, NEW v \in Nat, u <= v
    PROVE  f * u \in Int /\ n * v \in Int /\ f * u <= n * v
<1>1. f * u \in Int /\ f * v \in Int /\ n * v \in Int
  OBVIOUS
<1>2. f * u <= f * v
  OBVIOUS
<1>3. f * v <= n * v
  OBVIOUS
<1> QED BY <1>1, <1>2, <1>3

\* The search, from the whole candidate to one quantity.
LEMMA SizingStarts == SizingInit => SizingInv
<1> SUFFICES ASSUME SizingInit PROVE SizingInv
  OBVIOUS
<1>1. Units(request) \in Nat
  BY RequestOf DEF SizingInit
<1> QED BY <1>1 DEF SizingInit, SizingInv

\* A step of the search keeps what it knows, and the assessment ends it.
LEMMA SizingSteps == SizingInv /\ [SizingNext]_sizingVars => SizingInv'
<1> SUFFICES ASSUME SizingInv, [SizingNext]_sizingVars PROVE SizingInv'
  OBVIOUS
<1>0. Units(request) \in Nat
  BY RequestOf DEF SizingInv
<1>1. CASE Halves
  <2> DEFINE middle == (lower + upper + 1) \div 2
  <2>1. middle \in Nat /\ lower < middle /\ middle <= upper
    BY <1>1 DEF Halves, SizingInv
  <2> HIDE DEF middle
  <2>2. CASE Failures(request, middle) = {}
    <3>1. lower' = middle /\ upper' = upper /\ request' = request /\ answer' = -1
      BY <1>1, <2>2 DEF Halves, middle
    <3> QED BY <1>0, <2>1, <3>1 DEF SizingInv, Failures, Units
  <2>3. CASE Failures(request, middle) # {}
    <3>1. upper' = middle - 1 /\ lower' = lower /\ request' = request /\ answer' = -1
      BY <1>1, <2>3 DEF Halves, middle
    <3>2. upper' + 1 = middle
      BY <2>1, <3>1
    <3>3. Failures(request', upper' + 1) # {}
      BY <2>3, <3>1, <3>2
    <3>4. upper' \in Nat /\ lower <= upper' /\ upper' <= Units(request)
      BY <1>0, <2>1, <3>1 DEF SizingInv
    <3>5. (Failures(request, upper + 1) # {})' <=> Failures(request', upper' + 1) # {}
      BY DEF Failures
    <3> QED BY <3>1, <3>3, <3>4, <3>5 DEF SizingInv, Units
  <2> QED BY <2>2, <2>3
<1>2. CASE Assesses
  <2>1. /\ lower = upper /\ lower' = lower /\ upper' = upper /\ request' = request
        /\ answer' \in {0, lower} /\ (answer' # 0 => Failures(request, lower) = {})
    BY <1>2 DEF Assesses
  <2>2. answer' # 0 => answer' = lower /\ Failures(request, answer') = {}
    BY <2>1
  <2> QED BY <2>1, <2>2 DEF SizingInv, Failures, Units
<1>3. CASE UNCHANGED sizingVars
  BY <1>3 DEF sizingVars, SizingInv, Failures, Units
<1> QED BY <1>1, <1>2, <1>3 DEF SizingNext

\* What goes into the totals and the shortfall, lot by lot and reservation by reservation.
UnitCost(r, x) == x.fee + x.funding + r.exitCost
LotGains(r) == [i \in DOMAIN r.lots |-> r.lots[i].quantity * (r.stop - r.lots[i].price - r.exitCost)]
LotLosses(r) == [i \in DOMAIN r.lots |->
                   r.lots[i].quantity * (AtLeast0(r.lots[i].price - r.stop) + r.exitCost)]
LotShorts(r) == [i \in DOMAIN r.lots |-> r.lots[i].quantity * (r.lots[i].price - r.stop + r.exitCost)]
Gains(r) == [i \in DOMAIN r.reserved |->
               r.reserved[i].quantity * (r.stop - r.reserved[i].price - UnitCost(r, r.reserved[i]))]
Losses(r) == [i \in DOMAIN r.reserved |->
                r.reserved[i].quantity * (AtLeast0(r.reserved[i].price - r.stop) + UnitCost(r, r.reserved[i]))]
Commitments(r) == [i \in DOMAIN r.reserved |->
                     r.reserved[i].quantity * LargerOf(r.mark, r.reserved[i].price)
                     + r.leverage * (r.reserved[i].quantity * r.reserved[i].fee)]
Shorts(r, fill) == [i \in DOMAIN r.reserved |->
                      fill[i] * (r.reserved[i].price - r.stop + r.reserved[i].fee + r.reserved[i].funding + r.exitCost)]
Takes(r, fill) == [i \in DOMAIN r.reserved |-> fill[i] * (r.reserved[i].price + r.leverage * r.reserved[i].fee)]

OfLots(f, r) == SumFunctionOnSet(f, DOMAIN r.lots)
OfRest(f, r) == SumFunctionOnSet(f, DOMAIN r.reserved)
HeldFunding(r) == IF r.lots = <<>> THEN 0 ELSE r.heldFunding

\* The totals of an entry of some size, part by part.
LEMMA TotalsOf ==
    ASSUME NEW r, NEW a \in Nat \ {0}
    PROVE  /\ Totals(r, a).gross =
                HeldFunding(r) + OfLots(LotLosses(r), r)
                + (OfRest(Losses(r), r) + a * (AtLeast0(r.price - r.stop) + (r.fee + r.funding + r.exitCost)))
                + r.exitFee
           /\ Totals(r, a).principal =
                AtLeast0(-(r.realized - HeldFunding(r) + OfLots(LotGains(r), r)
                           + (OfRest(Gains(r), r) + a * (r.stop - r.price - (r.fee + r.funding + r.exitCost)))
                           - r.exitFee))
           /\ Totals(r, a).committed =
                OfRest(Commitments(r), r) + (a * LargerOf(r.mark, r.price) + r.leverage * (a * r.fee))
<1>1. a # 0
  OBVIOUS
<1>2. Totals(r, a).gross =
                HeldFunding(r) + OfLots(LotLosses(r), r)
                + (OfRest(Losses(r), r) + a * (AtLeast0(r.price - r.stop) + (r.fee + r.funding + r.exitCost)))
                + r.exitFee
  BY <1>1 DEF Totals, Sum, Candidate, HeldFunding, OfLots, OfRest, LotLosses, Losses, UnitCost
<1>3. Totals(r, a).principal =
                AtLeast0(-(r.realized - HeldFunding(r) + OfLots(LotGains(r), r)
                           + (OfRest(Gains(r), r) + a * (r.stop - r.price - (r.fee + r.funding + r.exitCost)))
                           - r.exitFee))
  BY <1>1 DEF Totals, Sum, Candidate, HeldFunding, OfLots, OfRest, LotGains, Gains, UnitCost
<1>4. Totals(r, a).committed =
                OfRest(Commitments(r), r) + (a * LargerOf(r.mark, r.price) + r.leverage * (a * r.fee))
  BY <1>1 DEF Totals, Sum, Candidate, OfRest, Commitments
<1> QED BY <1>2, <1>3, <1>4

\* The shortfall and the margin of any fills, part by part.
LEMMA ShortfallOf ==
    ASSUME NEW r, NEW q, NEW fill
    PROVE  /\ Shortfall(r, q, fill) =
                r.exitFee + HeldFunding(r) + OfLots(LotShorts(r), r) + OfRest(Shorts(r, fill), r)
                + q * (r.price - r.stop + r.fee + r.funding + r.exitCost)
           /\ Taken(r, q, fill) = OfRest(Takes(r, fill), r) + q * (r.price + r.leverage * r.fee)
<1>1. Shortfall(r, q, fill) =
                r.exitFee + HeldFunding(r) + OfLots(LotShorts(r), r) + OfRest(Shorts(r, fill), r)
                + q * (r.price - r.stop + r.fee + r.funding + r.exitCost)
  BY DEF Shortfall, Sum, Candidate, HeldFunding, OfLots, OfRest, LotShorts, Shorts
<1>2. Taken(r, q, fill) = OfRest(Takes(r, fill), r) + q * (r.price + r.leverage * r.fee)
  BY DEF Taken, Candidate, OfRest, Takes
<1> QED BY <1>1, <1>2

\* A product turned round.
LEMMA TimesNegative ==
    ASSUME NEW n \in Int, NEW u \in Int, NEW v \in Int, v = -u
    PROVE  n * v = -(n * u)
BY SMT

\* What is sold at the stop, of the lots.
LEMMA LotsAtStop ==
    ASSUME NEW r \in Requests
    PROVE  /\ OfLots(LotShorts(r), r) <= OfLots(LotLosses(r), r)
           /\ OfLots(LotShorts(r), r) = -OfLots(LotGains(r), r)
           /\ OfLots(LotShorts(r), r) \in Int /\ OfLots(LotLosses(r), r) \in Int /\ OfLots(LotGains(r), r) \in Int
<1> DEFINE S == DOMAIN r.lots
           f == LotShorts(r)
           g == LotLosses(r)
           h == LotGains(r)
<1>1. IsFiniteSet(S) /\ r.stop \in Nat /\ r.exitCost \in Nat
  BY RequestOf
<1>2. ASSUME NEW i \in S PROVE f[i] \in Int /\ g[i] \in Int /\ h[i] \in Int /\ f[i] <= g[i] /\ f[i] = -h[i]
  <2> DEFINE n == r.lots[i].quantity
             p == r.lots[i].price
             u == p - r.stop + r.exitCost
             v == AtLeast0(p - r.stop) + r.exitCost
             w == r.stop - p - r.exitCost
  <2>1. n \in Nat /\ p \in Nat
    BY RequestOf
  <2> HIDE DEF n, p
  <2>2. u \in Int /\ v \in Nat /\ u <= v /\ w \in Int /\ w = -u
    BY <1>1, <2>1 DEF AtLeast0
  <2>3. f[i] = n * u /\ g[i] = n * v /\ h[i] = n * w
    BY DEF LotShorts, LotLosses, LotGains, n, p
  <2> HIDE DEF u, v, w, f, g, h
  <2>4. n * u \in Int /\ n * v \in Int /\ n * u <= n * v
    BY <2>1, <2>2, LessOfLess
  <2>5. n * w = -(n * u)
    BY <2>1, <2>2, TimesNegative
  <2> QED BY <2>3, <2>4, <2>5
<1> HIDE DEF f, g, h, S
<1>3. SumFunctionOnSet(f, S) <= SumFunctionOnSet(g, S)
  BY <1>1, <1>2, SumMonotone
<1>4. SumFunctionOnSet(f, S) = -SumFunctionOnSet(h, S) /\ SumFunctionOnSet(h, S) \in Int
  BY <1>1, <1>2, SumNegated
<1>5. SumFunctionOnSet(f, S) \in Int /\ SumFunctionOnSet(g, S) \in Int
  BY <1>1, <1>2, SumIsInt
<1> QED BY <1>3, <1>4, <1>5 DEF OfLots, f, g, h, S

\* And of the reservations, as far as they fill.
LEMMA RestAtStop ==
    ASSUME NEW r \in Requests, NEW fill,
           \A i \in DOMAIN r.reserved : fill[i] \in Nat /\ fill[i] <= r.reserved[i].quantity
    PROVE  /\ OfRest(Shorts(r, fill), r) <= OfRest(Losses(r), r)
           /\ OfRest(Takes(r, fill), r) <= OfRest(Commitments(r), r)
           /\ OfRest(Shorts(r, fill), r) \in Int /\ OfRest(Losses(r), r) \in Int /\ OfRest(Takes(r, fill), r) \in Int
           /\ OfRest(Commitments(r), r) \in Int
<1> DEFINE S == DOMAIN r.reserved
           f == Shorts(r, fill)
           g == Losses(r)
           t == Takes(r, fill)
           c == Commitments(r)
<1>1. IsFiniteSet(S) /\ r.stop \in Nat /\ r.exitCost \in Nat /\ r.leverage \in Nat /\ r.mark \in Nat
  BY RequestOf
<1>2. ASSUME NEW i \in S
      PROVE  f[i] \in Int /\ g[i] \in Int /\ t[i] \in Int /\ c[i] \in Int /\ f[i] <= g[i] /\ t[i] <= c[i]
  <2> DEFINE n == r.reserved[i].quantity
             p == r.reserved[i].price
             e == r.reserved[i].fee
             d == r.reserved[i].funding
             k == fill[i]
             u == p - r.stop + e + d + r.exitCost
             v == AtLeast0(p - r.stop) + (e + d + r.exitCost)
             le == r.leverage * e
             m == LargerOf(r.mark, p)
             x == p + le
             y == m + le
  <2>1. n \in Nat /\ p \in Nat /\ e \in Nat /\ d \in Nat /\ k \in Nat /\ k <= n
    BY RequestOf
  <2>2. f[i] = k * u /\ g[i] = n * v /\ t[i] = k * x /\ c[i] = n * m + r.leverage * (n * e)
    BY DEF Shorts, Losses, Takes, Commitments, UnitCost
  <2> HIDE DEF n, p, e, d, k, f, g, t, c
  <2>3. u \in Int /\ v \in Nat /\ u <= v /\ m \in Nat /\ p <= m
    BY <1>1, <2>1 DEF AtLeast0, LargerOf
  <2>4. le \in Nat
    BY <1>1, <2>1
  <2>5. r.leverage * (n * e) = n * le
    BY <1>1, <2>1
  <2> HIDE DEF u, v, le, m
  <2>6. x \in Int /\ y \in Nat /\ x <= y
    BY <2>1, <2>3, <2>4
  <2>7. n * m + n * le = n * y
    BY <2>1, <2>3, <2>4
  <2> HIDE DEF x, y
  <2>8. k * u \in Int /\ n * v \in Int /\ k * u <= n * v
    BY <2>1, <2>3, LessOfLess
  <2>9. k * x \in Int /\ n * y \in Int /\ k * x <= n * y
    BY <2>1, <2>6, LessOfLess
  <2> QED BY <2>2, <2>5, <2>7, <2>8, <2>9
<1> HIDE DEF f, g, t, c, S
<1>3. SumFunctionOnSet(f, S) <= SumFunctionOnSet(g, S)
  BY <1>1, <1>2, SumMonotone
<1>4. SumFunctionOnSet(t, S) <= SumFunctionOnSet(c, S)
  BY <1>1, <1>2, SumMonotone
<1>5. SumFunctionOnSet(f, S) \in Int /\ SumFunctionOnSet(g, S) \in Int
      /\ SumFunctionOnSet(t, S) \in Int /\ SumFunctionOnSet(c, S) \in Int
  BY <1>1, <1>2, SumIsInt
<1> QED BY <1>3, <1>4, <1>5 DEF OfRest, f, g, t, c, S

\* Filled to the end, the reservations' shortfall is their gain turned round.
LEMMA RestFilled ==
    ASSUME NEW r \in Requests
    PROVE  OfRest(Shorts(r, AllFilled(r)), r) = -OfRest(Gains(r), r) /\ OfRest(Gains(r), r) \in Int
<1> DEFINE S == DOMAIN r.reserved
           f == Shorts(r, AllFilled(r))
           h == Gains(r)
<1>1. IsFiniteSet(S) /\ r.stop \in Nat /\ r.exitCost \in Nat
  BY RequestOf
<1>2. ASSUME NEW i \in S PROVE f[i] = -h[i] /\ h[i] \in Int
  <2> DEFINE n == r.reserved[i].quantity
             p == r.reserved[i].price
             e == r.reserved[i].fee
             d == r.reserved[i].funding
             u == p - r.stop + e + d + r.exitCost
             w == r.stop - p - (e + d + r.exitCost)
  <2>1. n \in Nat /\ p \in Nat /\ e \in Nat /\ d \in Nat
    BY RequestOf
  <2>2. f[i] = n * u /\ h[i] = n * w
    BY DEF Shorts, AllFilled, Gains, UnitCost
  <2> HIDE DEF n, p, e, d, f, h
  <2>3. u \in Int /\ w \in Int /\ u = -w
    BY <1>1, <2>1
  <2> HIDE DEF u, w
  <2>4. n * u = -(n * w)
    BY <2>1, <2>3, TimesNegative
  <2>5. n * w \in Int
    BY <2>1, <2>3
  <2> QED BY <2>2, <2>4, <2>5
<1> HIDE DEF f, h, S
<1>3. SumFunctionOnSet(f, S) = -SumFunctionOnSet(h, S) /\ SumFunctionOnSet(h, S) \in Int
  BY <1>1, <1>2, SumNegated
<1> QED BY <1>3 DEF OfRest, f, h, S

\* What fails nothing exceeds nothing.
LEMMA WithinCaps ==
    ASSUME NEW r, NEW a, Failures(r, a) = {}
    PROVE  /\ ~(Totals(r, a).principal > r.lossCap) /\ ~(Totals(r, a).gross > r.grossCap)
           /\ ~(Totals(r, a).committed > r.available * r.leverage)
<1> DEFINE t == Totals(r, a)
<1> HIDE DEF t
<1>1. CapsExceeded(r, t) = {}
  BY DEF Failures, t
<1>2. "loss" \notin CapsExceeded(r, t) /\ "gross" \notin CapsExceeded(r, t) /\ "available" \notin CapsExceeded(r, t)
  BY <1>1
<1>3. ~(t.principal > r.lossCap) /\ ~(t.gross > r.grossCap) /\ ~(t.committed > r.available * r.leverage)
  BY <1>2 DEF CapsExceeded
<1> QED BY <1>3 DEF t

\* Whatever fills of an entry that fails nothing and of the reservations, loses no more
\* than the gross cap at the stop and takes no more than what is available.
LEMMA FillsAreSafe ==
    ASSUME NEW r \in Requests, NEW a \in Nat \ {0}, Failures(r, a) = {}, NEW q \in 0..a, NEW fill,
           \A i \in DOMAIN r.reserved : fill[i] \in Nat /\ fill[i] <= r.reserved[i].quantity
    PROVE  Shortfall(r, q, fill) <= r.grossCap /\ Taken(r, q, fill) <= r.available * r.leverage
<1> DEFINE u == r.price - r.stop + r.fee + r.funding + r.exitCost
           v == AtLeast0(r.price - r.stop) + (r.fee + r.funding + r.exitCost)
           le == r.leverage * r.fee
           m == LargerOf(r.mark, r.price)
           x == r.price + le
           y == m + le
           available == r.available * r.leverage
           held == HeldFunding(r)
           LS == OfLots(LotShorts(r), r)
           LL == OfLots(LotLosses(r), r)
           RS == OfRest(Shorts(r, fill), r)
           RL == OfRest(Losses(r), r)
           RT == OfRest(Takes(r, fill), r)
           RC == OfRest(Commitments(r), r)
<1>1. /\ r.price \in Nat /\ r.stop \in Nat /\ r.fee \in Nat /\ r.funding \in Nat /\ r.exitCost \in Nat
      /\ r.mark \in Nat /\ r.leverage \in Nat /\ r.exitFee \in Nat /\ r.grossCap \in Nat /\ r.available \in Nat
      /\ held \in Nat
  BY RequestOf DEF HeldFunding
<1>2. u \in Int /\ v \in Nat /\ u <= v /\ m \in Nat /\ r.price <= m
  BY <1>1 DEF AtLeast0, LargerOf
<1>3. le \in Nat /\ available \in Nat
  BY <1>1
<1>4. r.leverage * (a * r.fee) = a * le
  BY <1>1
<1>5. LS <= LL /\ LS \in Int /\ LL \in Int
  BY LotsAtStop
<1>6. RS <= RL /\ RT <= RC /\ RS \in Int /\ RL \in Int /\ RT \in Int /\ RC \in Int
  BY RestAtStop
<1>7. Totals(r, a).gross = held + LL + (RL + a * v) + r.exitFee
  BY TotalsOf
<1>8. Totals(r, a).committed = RC + (a * m + r.leverage * (a * r.fee))
  BY TotalsOf
<1>9. Shortfall(r, q, fill) = r.exitFee + held + LS + RS + q * u
  BY ShortfallOf
<1>10. Taken(r, q, fill) = RT + q * x
  BY ShortfallOf
<1>11. ~(Totals(r, a).gross > r.grossCap) /\ ~(Totals(r, a).committed > available)
  BY WithinCaps
<1> HIDE DEF u, v, le, m, held, available, LS, LL, RS, RL, RT, RC
<1>12. x \in Nat /\ y \in Nat /\ x <= y /\ q \in Nat /\ q <= a
  BY <1>1, <1>2, <1>3
<1>13. a * m + a * le = a * y
  BY <1>2, <1>3
<1> HIDE DEF x, y
<1>14. q * u \in Int /\ a * v \in Int /\ q * u <= a * v
  BY <1>2, <1>12, LessOfLess
<1>15. q * x \in Int /\ a * y \in Int /\ q * x <= a * y
  BY <1>12, LessOfLess
<1>16. Shortfall(r, q, fill) <= r.grossCap
  BY <1>1, <1>5, <1>6, <1>7, <1>9, <1>11, <1>14
<1>17. Totals(r, a).committed = RC + a * y
  BY <1>4, <1>8, <1>13
<1>18. Taken(r, q, fill) <= available
  BY <1>3, <1>6, <1>10, <1>11, <1>15, <1>17
<1> QED BY <1>16, <1>18 DEF available

\* And all of them together lose no more of the principal than its cap.
LEMMA WholeIsSafe ==
    ASSUME NEW r \in Requests, NEW a \in Nat \ {0}, Failures(r, a) = {}
    PROVE  Shortfall(r, a, AllFilled(r)) - r.realized <= r.lossCap
<1> DEFINE u == r.price - r.stop + r.fee + r.funding + r.exitCost
           w == r.stop - r.price - (r.fee + r.funding + r.exitCost)
           held == HeldFunding(r)
           LS == OfLots(LotShorts(r), r)
           LG == OfLots(LotGains(r), r)
           RS == OfRest(Shorts(r, AllFilled(r)), r)
           RG == OfRest(Gains(r), r)
           pnl == r.realized - held + LG + (RG + a * w) - r.exitFee
<1>1. /\ r.price \in Nat /\ r.stop \in Nat /\ r.fee \in Nat /\ r.funding \in Nat /\ r.exitCost \in Nat
      /\ r.exitFee \in Nat /\ r.lossCap \in Nat /\ r.realized \in Int /\ held \in Nat
  BY RequestOf DEF HeldFunding
<1>2. u \in Int /\ w \in Int /\ w = -u
  BY <1>1
<1>3. LS = -LG /\ LG \in Int
  BY LotsAtStop
<1>4. RS = -RG /\ RG \in Int
  BY RestFilled
<1>5. Totals(r, a).principal = AtLeast0(-pnl)
  BY TotalsOf
<1>6. Shortfall(r, a, AllFilled(r)) = r.exitFee + held + LS + RS + a * u
  BY ShortfallOf
<1>7. ~(Totals(r, a).principal > r.lossCap)
  BY WithinCaps
<1> HIDE DEF u, w, held, LS, LG, RS, RG
<1>8. a * w = -(a * u) /\ a * u \in Int
  BY <1>2, TimesNegative
<1>9. pnl \in Int /\ Shortfall(r, a, AllFilled(r)) - r.realized = -pnl
  BY <1>1, <1>3, <1>4, <1>6, <1>8
<1> HIDE DEF pnl
<1>10. -pnl <= r.lossCap
  BY <1>1, <1>5, <1>7, <1>9 DEF AtLeast0
<1> QED BY <1>9, <1>10

\* An approval is safe whatever fills, and one step more would violate a cap, for all
\* books, candidates and limits.
THEOREM SizesAreSafe == SizingSpec => []ApprovalIsLargestSafe
<1>1. SizingInv => ApprovalIsLargestSafe
  <2> SUFFICES ASSUME SizingInv, answer > 0 PROVE ApprovalIsLargestSafe
    BY DEF ApprovalIsLargestSafe
  <2>1. answer = lower /\ lower = upper /\ answer \in Nat \ {0} /\ request \in Requests
    BY DEF SizingInv
  <2>2. Failures(request, answer) = {} /\ answer <= Units(request)
        /\ (answer < Units(request) => Failures(request, answer + 1) # {})
    BY <2>1 DEF SizingInv
  <2>3. ASSUME NEW q \in 0..answer, NEW fill \in PartialFills(request)
        PROVE  Shortfall(request, q, fill) <= request.grossCap
               /\ Taken(request, q, fill) <= request.available * request.leverage
    <3>1. \A i \in DOMAIN request.reserved : fill[i] \in Nat /\ fill[i] <= request.reserved[i].quantity
      <4> DEFINE top == Max({0} \union Range(AllFilled(request)))
      <4>1. fill \in [DOMAIN request.reserved -> 0..top]
            /\ \A i \in DOMAIN fill : fill[i] <= request.reserved[i].quantity
        BY DEF PartialFills
      <4> HIDE DEF top
      <4> QED BY <4>1
    <3> QED BY <2>1, <2>2, <3>1, FillsAreSafe
  <2>4. Shortfall(request, answer, AllFilled(request)) - request.realized <= request.lossCap
    BY <2>1, <2>2, WholeIsSafe
  <2> QED BY <2>2, <2>3, <2>4 DEF ApprovalIsLargestSafe
<1> QED BY <1>1, SizingStarts, SizingSteps, PTL DEF SizingSpec
================================================================================
