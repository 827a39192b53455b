------------------------------ MODULE ArxEngine ------------------------------
(***************************************************************************)
(* The durable order engine of the ARX campaign                            *)
(* (track_special/arx_campaign/execution/engine.py): one process at a time *)
(* owns the database, every order is a row that survives a crash, and the  *)
(* exchange acts on its own.  A row is                                     *)
(*   st      the order's status ("none" when the row does not exist)       *)
(*   filled  the cumulative fill the engine knows                          *)
(*   rec     reconciliation_required                                       *)
(*   prot    the protection recorded at the last reconciliation            *)
(*   fresh   the approval, market and account snapshots still hold         *)
(* Prices, fees and hashes are left out: no transition depends on them.    *)
(***************************************************************************)
EXTENDS Integers, FiniteSetsExt, Functions

CONSTANTS Entries,      \* intentions that buy (probe and pyramid entries)
          Reductions,   \* intentions that sell the long position
          Quantity,     \* the base quantity of each intention
          NoCall        \* no submission is in progress

Intents == Entries \union Reductions

ASSUME EngineAssumption ==
  /\ IsFiniteSet(Intents) /\ Entries \intersect Reductions = {}
  /\ Quantity \in [Intents -> Nat \ {0}]
  /\ NoCall \notin Intents

VARIABLES
  order,       \* the rows of table orders
  control,     \* the risk state in table controls
  reconciled,  \* startup_reconciled in table controls
  process,     \* "down", "up", or "dead": crashed with the lock file left behind
  call,        \* the submission in progress: its intention, and whether it left
  wire,        \* requests on their way to the exchange
  venue,       \* what the exchange holds for each intention
  sends        \* how often each intention was handed to the transport

engineVars == <<order, control, reconciled, process, call, wire, venue, sends>>

Terminal == {"filled", "canceled", "rejected"}
Rank == [NORMAL |-> 0, PAUSE_ENTRIES |-> 1, EXIT_ONLY |-> 2, EMERGENCY_HALT |-> 3]

Transitions ==
  [ reserved         |-> {"submitting", "canceled", "rejected"},
    submitting       |-> {"acknowledged", "result_unknown", "rejected", "open",
                          "partially_filled", "filled"},
    acknowledged     |-> {"open", "partially_filled", "filled", "cancel_pending",
                          "canceled", "rejected"},
    result_unknown   |-> {"acknowledged", "open", "partially_filled", "filled",
                          "canceled", "rejected"},
    open             |-> {"partially_filled", "filled", "cancel_pending", "canceled",
                          "rejected"},
    partially_filled |-> {"partially_filled", "filled", "cancel_pending", "canceled",
                          "rejected"},
    cancel_pending   |-> {"partially_filled", "filled", "canceled", "rejected"},
    filled           |-> {"filled"},
    canceled         |-> {"canceled"},
    rejected         |-> {"rejected"} ]

NoRow == [st |-> "none", filled |-> 0, rec |-> FALSE, prot |-> "unverified", fresh |-> FALSE]
Idle == [on |-> NoCall, sent |-> FALSE]

Rows == {i \in Intents : order[i].st # "none"}
OpenRows == {i \in Rows : order[i].st \notin Terminal}
Min0(n) == IF n < 0 THEN 0 ELSE n

Total(f, S) == SumFunctionOnSet(f, S)
VenueFilled == [i \in Intents |-> venue[i].filled]
\* The long position at the exchange: what was bought less what was sold.
Position == Total(VenueFilled, Entries) - Total(VenueFilled, Reductions)

\* A risk state is only ever tightened: a relaxation is recorded and refused.
Tightened(state) == IF Rank[state] < Rank[control] THEN control ELSE state

EngineInit ==
  /\ order = [i \in Intents |-> NoRow]
  /\ control = "NORMAL"
  /\ reconciled = FALSE
  /\ process = "down"
  /\ call = Idle
  /\ wire = {}
  /\ venue = [i \in Intents |-> [st |-> "none", filled |-> 0]]
  /\ sends = [i \in Intents |-> 0]

Ready == process = "up" /\ call = Idle

----------------------------------------------------------------------------
(* Opening, closing and dying.  A lock file that exists is evidence: only an *)
(* operator removes one whose owner is gone.                                *)

OpenEngine ==
  /\ process = "down"
  /\ process' = "up"
  /\ reconciled' = FALSE
  /\ UNCHANGED <<order, control, call, wire, venue, sends>>

CloseEngine ==
  /\ Ready
  /\ process' = "down"
  /\ reconciled' = FALSE
  /\ UNCHANGED <<order, control, call, wire, venue, sends>>

CrashEngine ==
  /\ process = "up"
  /\ process' = "dead"
  /\ call' = Idle
  /\ UNCHANGED <<order, control, reconciled, wire, venue, sends>>

OperatorRemovesLock ==
  /\ process = "dead"
  /\ process' = "down"
  /\ UNCHANGED <<order, control, reconciled, call, wire, venue, sends>>

----------------------------------------------------------------------------
(* reserve: the row is created under the controls of this process.         *)

\* What the open reductions may still sell, by the fills the engine knows.
ReservedRemaining ==
  Total([i \in Intents |-> Min0(Quantity[i] - order[i].filled)],
        OpenRows \intersect Reductions)

\* A mutant: only the order itself is compared with the position.
ReductionAllowedAlone(i) == Quantity[i] <= Position

EntryAllowed == control = "NORMAL" /\ reconciled
ReductionAllowed(i) == ReservedRemaining + Quantity[i] <= Position

Reserve(i) ==
  /\ Ready
  /\ order[i].st = "none"
  /\ i \in Entries => EntryAllowed
  /\ i \in Reductions => ReductionAllowed(i)
  /\ order' = [order EXCEPT ![i] = [NoRow EXCEPT !.st = "reserved", !.fresh = TRUE]]
  /\ UNCHANGED <<control, reconciled, process, call, wire, venue, sends>>

\* Time passes, or the market, the account or the configuration moves: the
\* values approved with the entry no longer match.
ApprovalExpires(i) ==
  /\ i \in Entries /\ order[i].st = "reserved" /\ order[i].fresh
  /\ order' = [order EXCEPT ![i].fresh = FALSE]
  /\ UNCHANGED <<control, reconciled, process, call, wire, venue, sends>>

----------------------------------------------------------------------------
(* submit, in the three steps a crash can separate: the row is saved as      *)
(* submitting, the request leaves, the answer is recorded.                 *)

\* A mutant: a row a crash left as submitting may be submitted again.
MaySubmitAgain(i) == order[i].st \in {"reserved", "submitting"} /\ ~order[i].rec

MaySubmit(i) == order[i].st = "reserved" /\ ~order[i].rec

SubmitSaved(i) ==
  /\ Ready
  /\ MaySubmit(i)
  /\ i \in Entries => EntryAllowed /\ order[i].fresh
  /\ order' = [order EXCEPT ![i].st = "submitting"]
  /\ call' = [on |-> i, sent |-> FALSE]
  /\ UNCHANGED <<control, reconciled, process, wire, venue, sends>>

SubmitSent(i) ==
  /\ process = "up" /\ call = [on |-> i, sent |-> FALSE]
  /\ call' = [call EXCEPT !.sent = TRUE]
  /\ wire' = wire \union {i}
  /\ sends' = [sends EXCEPT ![i] = @ + 1]
  /\ UNCHANGED <<order, control, reconciled, process, venue>>

Answered(i) ==
  /\ process = "up" /\ call = [on |-> i, sent |-> TRUE]
  /\ call' = Idle
  /\ UNCHANGED <<reconciled, process, venue, sends>>

SubmitAcknowledged(i) ==
  /\ Answered(i)
  /\ venue[i].st # "none"
  /\ order' = [order EXCEPT ![i].st = "acknowledged"]
  /\ UNCHANGED <<control, wire>>

\* A timeout, a malformed answer, a documented ambiguous code, an answer without
\* an order id: the outcome is unknown.  An answer with another clientOid also
\* halts the engine.
SubmitAmbiguous(i) ==
  /\ Answered(i)
  /\ order' = [order EXCEPT ![i].st = "result_unknown", ![i].rec = TRUE]
  /\ control' \in {Tightened("PAUSE_ENTRIES"), "EMERGENCY_HALT"}
  /\ UNCHANGED wire

SubmitRejected(i) ==
  /\ Answered(i)
  /\ i \in wire
  /\ wire' = wire \ {i}
  /\ order' = [order EXCEPT ![i].st = "rejected"]
  /\ UNCHANGED control

\* An exception the code does not catch leaves the row as it was saved; when
\* it is the database's, the entries are halted.
SubmitRaises(i) ==
  /\ Answered(i)
  /\ control' \in {control, "EMERGENCY_HALT"}
  /\ UNCHANGED <<order, wire>>

----------------------------------------------------------------------------
(* The exchange.                                                            *)

VenueAccepts(i) ==
  /\ i \in wire
  /\ wire' = wire \ {i}
  /\ venue' = [venue EXCEPT ![i].st = "live"]
  /\ UNCHANGED <<order, control, reconciled, process, call, sends>>

RequestLost(i) ==
  /\ i \in wire
  /\ wire' = wire \ {i}
  /\ UNCHANGED <<order, control, reconciled, process, call, venue, sends>>

\* Reductions are reduce-only: they never sell more than is held.
VenueFills(i) ==
  /\ venue[i].st = "live"
  /\ i \in Reductions => Position > 0
  /\ venue' = [venue EXCEPT ![i].filled = @ + 1,
                            ![i].st = IF venue[i].filled + 1 = Quantity[i] THEN "filled" ELSE @]
  /\ UNCHANGED <<order, control, reconciled, process, call, wire, sends>>

VenueCancels(i) ==
  /\ venue[i].st = "live"
  /\ venue' = [venue EXCEPT ![i].st = "canceled"]
  /\ UNCHANGED <<order, control, reconciled, process, call, wire, sends>>

----------------------------------------------------------------------------
(* reconcile: a report on one order, possibly an old one, with the position *)
(* and its protection read at the same time.                               *)

\* What a query may report of an order that filled f: its true status, or an
\* earlier one.
Reported(i, f) ==
  {"open"} \union (IF venue[i].st = "canceled" /\ f = venue[i].filled THEN {"canceled"} ELSE {})

\* Any fill decides the status, whatever the report calls it.
StatusFor(i, f, status) ==
  IF f = 0 THEN status
  ELSE IF f >= Quantity[i] THEN "filled" ELSE "partially_filled"

ProtectionAfter(i, covered) ==
  IF i \in Entries /\ Position > 0
  THEN IF covered THEN "active" ELSE "insufficient"
  ELSE order[i].prot

Reconcile(i, f, status, covered) ==
  LET old == order[i].st
      new == StatusFor(i, f, status)
      prot == ProtectionAfter(i, covered)
  IN /\ Ready
     /\ i \in Rows
     /\ f >= order[i].filled
     /\ new = old \/ new \in Transitions[old]
     /\ order' = [order EXCEPT ![i].st = new, ![i].filled = f, ![i].prot = prot,
                               ![i].rec = IF old = "result_unknown" THEN FALSE ELSE @]
     /\ control' = IF prot = "insufficient" THEN Tightened("PAUSE_ENTRIES") ELSE control
     /\ UNCHANGED <<reconciled, process, call, wire, venue, sends>>

ReconcileReport(i) ==
  /\ venue[i].st # "none"
  /\ \E f \in 0..venue[i].filled : \E status \in Reported(i, f) : \E covered \in BOOLEAN :
       Reconcile(i, f, status, covered)

\* Repeated queries by clientOid and an expired window: the request can no
\* longer arrive.
ReconcileNotFound(i) ==
  /\ Ready
  /\ order[i].st = "result_unknown"
  /\ venue[i].st = "none" /\ i \notin wire
  /\ order' = [order EXCEPT ![i].st = "rejected", ![i].rec = FALSE]
  /\ UNCHANGED <<control, reconciled, process, call, wire, venue, sends>>

----------------------------------------------------------------------------
(* The operator's controls, and the snapshot after a restart.              *)

\* A mutant: an entry without an acknowledgement is canceled locally.
CanceledUnacknowledged(row) ==
  IF row.st \in {"reserved", "submitting", "result_unknown"}
  THEN [row EXCEPT !.st = "canceled"] ELSE [row EXCEPT !.st = "cancel_pending"]

CanceledEntry(row) ==
  CASE row.st \in {"submitting", "result_unknown"} -> [row EXCEPT !.rec = TRUE]
    [] row.st = "reserved"                        -> [row EXCEPT !.st = "canceled"]
    [] OTHER                                      -> [row EXCEPT !.st = "cancel_pending"]

CancelEntryOrders ==
  /\ Ready
  /\ OpenRows \intersect Entries # {}
  /\ order' = [i \in Intents |-> IF i \in OpenRows \intersect Entries
                                 THEN CanceledEntry(order[i]) ELSE order[i]]
  /\ UNCHANGED <<control, reconciled, process, call, wire, venue, sends>>

SetControl(state) ==
  /\ Ready
  /\ control' = Tightened(state)
  /\ UNCHANGED <<order, reconciled, process, call, wire, venue, sends>>

RequestExit == SetControl("EXIT_ONLY")
HaltEngine == control # "EMERGENCY_HALT" /\ SetControl("EMERGENCY_HALT")

\* clean: the account is verified, nothing foreign is there, and the position is
\* covered by protection the server confirms.
ReconcileRestart(clean) ==
  LET missing == {i \in OpenRows : venue[i].st # "live"}
      oversold == {i \in OpenRows \intersect Reductions : order[i].filled > Position}
      resolved == clean /\ missing = {} /\ oversold = {}
  IN /\ Ready
     /\ order' = [i \in Intents |-> IF i \in missing THEN [order[i] EXCEPT !.rec = TRUE]
                                    ELSE order[i]]
     /\ reconciled' = resolved
     /\ control' = IF resolved THEN control ELSE Tightened("PAUSE_ENTRIES")
     /\ UNCHANGED <<process, call, wire, venue, sends>>

EngineNext ==
  \/ OpenEngine \/ CloseEngine \/ CrashEngine \/ OperatorRemovesLock
  \/ CancelEntryOrders \/ RequestExit \/ HaltEngine
  \/ \E clean \in BOOLEAN : ReconcileRestart(clean)
  \/ \E i \in Intents :
       \/ Reserve(i) \/ ApprovalExpires(i)
       \/ SubmitSaved(i) \/ SubmitSent(i) \/ SubmitAcknowledged(i) \/ SubmitAmbiguous(i)
       \/ SubmitRejected(i) \/ SubmitRaises(i)
       \/ VenueAccepts(i) \/ RequestLost(i) \/ VenueFills(i) \/ VenueCancels(i)
       \/ ReconcileReport(i) \/ ReconcileNotFound(i)

EngineSpec == EngineInit /\ [][EngineNext]_engineVars

----------------------------------------------------------------------------
OrderRow == [st : DOMAIN Transitions \union {"none"}, filled : Nat, rec : BOOLEAN,
             prot : {"unverified", "active", "insufficient"}, fresh : BOOLEAN]
VenueOrder == [st : {"none", "live", "filled", "canceled"}, filled : Nat]
CallState == [on : Intents \union {NoCall}, sent : BOOLEAN]

EngineTypeOK ==
  /\ order \in [Intents -> OrderRow]
  /\ control \in DOMAIN Rank
  /\ reconciled \in BOOLEAN
  /\ process \in {"down", "up", "dead"}
  /\ call \in CallState
  /\ wire \subseteq Intents
  /\ venue \in [Intents -> VenueOrder]
  /\ sends \in [Intents -> Nat]

\* An intention reaches the transport at most once in its life: over crashes,
\* unknown results and restarts, nothing is ever submitted a second time.
SentAtMostOnce == \A i \in Intents : sends[i] <= 1

\* A row the engine calls finished is finished: the exchange neither holds the
\* order nor can still receive it, and the engine knows everything it filled.
TerminalIsTrue ==
  \A i \in Rows : order[i].st \in Terminal =>
    /\ i \notin wire /\ venue[i].st # "live"
    /\ order[i].filled = venue[i].filled

\* The reductions that may still sell never sum to more than the position, so
\* overlapping exits cannot sell more than is held.
ReductionsWithinPosition ==
  Total([i \in Intents |-> Quantity[i] - venue[i].filled],
        OpenRows \intersect Reductions) <= Position
=============================================================================
