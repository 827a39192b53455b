------------------------------ MODULE ArxLedger ------------------------------
(***************************************************************************)
(* The ARX campaign's event ledger (LedgerStore in track_special/          *)
(* arx_campaign/ledger/store.py).  Every operation is one transaction: a   *)
(* violated uniqueness undoes it whole, and the caller is told so.  The    *)
(* exchange may report a bill again, under the same or another event       *)
(* identity.                                                               *)
(***************************************************************************)
EXTENDS Integers, FiniteSets, Functions

CONSTANTS Bills,      \* signed bills of the exchange: [kind, ref, amount]
          EventIds,   \* the identities callers give to the events
          OrderEvent, \* the identity given to the events of the reservation
          Margins     \* amounts of margin committed or returned

\* A reference names one bill of its kind.
ASSUME LedgerAssumption ==
  /\ IsFiniteSet(Bills) /\ Margins \subseteq Int
  /\ \A b \in Bills : /\ b = [kind |-> b.kind, ref |-> b.ref, amount |-> b.amount]
                     /\ b.kind \in {"REALIZED_PNL", "FEE", "FUNDING"} /\ b.ref # "none"
                     /\ b.amount \in Int
  /\ \A b, c \in Bills : b.kind = c.kind /\ b.ref = c.ref => b = c

VARIABLES
  events,       \* the rows of table events: [id, kind, ref, amount]
  reservation,  \* the state of the one reservation, "none" before it
  allocation,   \* the row of table allocations, its shares in quarters
  bestNet       \* the best net result of the bills, when it was last allocated

ledgerVars == <<events, reservation, allocation, bestNet>>

ReservationMoves ==
  [ none             |-> {"reserved"},
    reserved         |-> {"submitting", "canceled", "rejected"},
    submitting       |-> {"acknowledged", "result_unknown", "rejected"},
    acknowledged     |-> {"open", "partially_filled", "filled", "cancel_pending", "rejected"},
    result_unknown   |-> {"acknowledged", "open", "partially_filled", "filled", "canceled",
                          "rejected"},
    open             |-> {"partially_filled", "filled", "cancel_pending", "canceled"},
    partially_filled |-> {"filled", "cancel_pending", "canceled"},
    cancel_pending   |-> {"canceled", "partially_filled", "filled"},
    filled           |-> {},
    canceled         |-> {},
    rejected         |-> {} ]

RealizedKinds == {"REALIZED_PNL", "FEE", "FUNDING"}
Beyond0(n) == IF n < 0 THEN 0 ELSE n
Higher(a, b) == IF a > b THEN a ELSE b

LedgerInit ==
  /\ events = {}
  /\ reservation = "none"
  /\ allocation = [high |-> 0, reusable |-> 0, reserve |-> 0]
  /\ bestNet = 0

\* A mutant: only the event's own identity has to be new.
IsNewById(e) == \A old \in events : ~(old.id = e.id /\ old.kind = e.kind)

\* The two unique indexes: one event of a kind for an identity, and one for a
\* reference of the exchange.
IsNew(e) ==
  \A old \in events :
    old.kind = e.kind => old.id # e.id /\ (e.ref # "none" => old.ref # e.ref)

Record(e) == IsNew(e) /\ events' = events \union {e}

Amounts(rows) == SumFunctionOnSet([e \in rows |-> e.amount], rows)
Net(rows) == Amounts({e \in rows : e.kind \in RealizedKinds})

PostRealized(bill, id) ==
  /\ Record([id |-> id, kind |-> bill.kind, ref |-> bill.ref, amount |-> bill.amount])
  /\ UNCHANGED <<reservation, allocation, bestNet>>

\* A margin committed or returned is a memo: it is no result.
PostMarginMemo(amount, committed, id) ==
  /\ Record([id |-> id, kind |-> IF committed THEN "MARGIN_COMMITTED" ELSE "MARGIN_RETURNED",
             ref |-> "margin", amount |-> amount])
  /\ UNCHANGED <<reservation, allocation, bestNet>>

\* reserve, and transition_reservation: the row and its event, or neither.
MoveReservation(target) ==
  /\ target \in ReservationMoves[reservation]
  /\ Record([id |-> OrderEvent, kind |-> target, ref |-> "none", amount |-> 0])
  /\ reservation' = target
  /\ UNCHANGED <<allocation, bestNet>>

\* The net result of the bills themselves, each counted once however often the
\* exchange reported it.
NetOfBills == Amounts({b \in Bills : \E e \in events : e.kind = b.kind /\ e.ref = b.ref})

\* allocate_new_high_water, called with the realized net of the ledger.
AllocateNewHighWater ==
  LET net == Net(events)
      increment == Beyond0(net - allocation.high)
  IN /\ allocation' = [high     |-> Higher(allocation.high, net),
                       reusable |-> allocation.reusable + increment,
                       reserve  |-> allocation.reserve + 3 * increment]
     /\ bestNet' = Higher(bestNet, NetOfBills)
     /\ UNCHANGED <<events, reservation>>

LedgerNext ==
  \/ AllocateNewHighWater
  \/ \E target \in DOMAIN ReservationMoves : MoveReservation(target)
  \/ \E id \in EventIds :
       \/ \E bill \in Bills : PostRealized(bill, id)
       \/ \E amount \in Margins, committed \in BOOLEAN : PostMarginMemo(amount, committed, id)

LedgerSpec == LedgerInit /\ [][LedgerNext]_ledgerVars

----------------------------------------------------------------------------
\* Only a new high of the realized result is allocated, a quarter to be used
\* again and three quarters in reserve: a bill reported twice, a recovery after
\* a loss and a margin that comes back allocate nothing.
AllocationsAreEarned ==
  /\ allocation.reusable = bestNet
  /\ allocation.reserve = 3 * bestNet
=============================================================================
