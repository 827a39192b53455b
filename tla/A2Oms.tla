-------------------------------- MODULE A2Oms --------------------------------
(***************************************************************************)
(* The life of the orders of one coin in Track A-2: submit(), reconcile(),  *)
(* cancel() and finish_flat() of track_a_2/execution/oms.py with the client *)
(* calls they make, a network that loses and delays requests and answers,   *)
(* an exchange that works on its own, and crashes of the process.           *)
(*                                                                         *)
(* Every change of an order is saved before the next call, so `ord', `held' *)
(* and `campaign' are the store; `call' is the one call the worker thread   *)
(* is in, and all that a crash forgets.  A detail query is one step with    *)
(* the apply() of its answer: the exchange may move while the answer        *)
(* travels, but the cumulatives only grow and no other thread books, so it  *)
(* is as if it had moved after.                                             *)
(***************************************************************************)
EXTENDS Integers, FiniteSets

CONSTANTS
    Ids,            \* order identifiers; one is used again after its order is archived
    NoId,           \* none of them
    MaxQty,         \* bound: quantity of one order
    MaxHeld,        \* bound: quantity held after a buy is filled in full
    CancelMax,      \* config cancel_max_attempts
    MaxCrashes      \* bound: crashes

ASSUME OmsAssumption ==
    /\ NoId \notin Ids
    /\ MaxQty \in Nat /\ MaxHeld \in Nat /\ CancelMax \in Nat \ {0} /\ MaxCrashes \in Nat

SellRoles == {"protect", "trim", "exit"}
Roles == {"buy"} \cup SellRoles

VARIABLES
    ord,        \* the journaled orders
    held,       \* quantity(): the sum of the lots
    campaign,   \* book.campaign_id, NoId when no campaign is open
    halted,     \* state.halt is set
    call,       \* the call in progress: submit or cancel, how far, which order
    wire,       \* submit requests that may still reach the exchange
    ex,         \* the exchange's record of each order
    coins,      \* the exchange's balance of the coin
    crashes     \* crashes left

vars == <<ord, held, campaign, halted, call, wire, ex, coins, crashes>>

NoOrder == [st |-> "none", role |-> "none", qty |-> 0, filled |-> 0,
            camp |-> NoId, asked |-> 0]

NoRow == [st |-> "unseen", done |-> 0]

Idle == [at |-> "idle", id |-> NoId]

Init ==
    /\ ord = [c \in Ids |-> NoOrder]
    /\ held = 0 /\ campaign = NoId /\ halted = FALSE
    /\ call = Idle /\ wire = {}
    /\ ex = [c \in Ids |-> NoRow]
    /\ coins = 0 /\ crashes = MaxCrashes

----------------------------------------------------------------------------

SideOf(role) == IF role = "buy" THEN "BUY" ELSE IF role \in SellRoles THEN "SELL" ELSE "none"

Side(c) == SideOf(ord[c].role)

\* active(): every journaled order whose status is not terminal.
Working == {"INTENT", "SUBMITTED", "UNKNOWN", "NOT_TRIGGERED", "LIVE"}
IsActive(c) == ord[c].st \in Working

\* What the detail query can tell of an order.
Known(c) == ex[c].st \in {"armed", "live", "over"}

Status(c) == CASE ex[c].st = "armed" -> "NOT_TRIGGERED"
               [] ex[c].st = "live"  -> "LIVE"
               [] OTHER              -> "DONE"

----------------------------------------------------------------------------
(* submit(): the intent is saved, the guard runs, the request leaves. *)

\* A mutant: an order whose cancel was asked for no longer counts.
SlotFreeWhenAsked(role) ==
    \A d \in Ids : IsActive(d) /\ ord[d].asked = 0 => Side(d) # SideOf(role)

SlotFree(role) == \A d \in Ids : IsActive(d) => Side(d) # SideOf(role)

\* submit() up to ORDER_INTENT.  The runtime sells at most quantity() and
\* buys only while nothing has halted.
SubmitIntent(c, role, q) ==
    /\ call = Idle /\ ord[c] = NoOrder
    /\ SlotFree(role)
    /\ IF role = "buy" THEN ~halted /\ held + q <= MaxHeld
                       ELSE campaign # NoId /\ q <= held
    /\ ord' = [ord EXCEPT ![c] =
         [st |-> "INTENT", role |-> role, qty |-> q, filled |-> 0,
          camp |-> IF campaign = NoId THEN c ELSE campaign, asked |-> 0]]
    /\ call' = [at |-> "guard", id |-> c]
    /\ UNCHANGED <<held, campaign, halted, wire, ex, coins, crashes>>

\* before_send raised EntryExpired: REJECTED, not sent.
Expire(c) ==
    /\ call = [at |-> "guard", id |-> c]
    /\ ord' = [ord EXCEPT ![c].st = "REJECTED"]
    /\ call' = Idle
    /\ UNCHANGED <<held, campaign, halted, wire, ex, coins, crashes>>

Transmit(c) ==
    /\ call = [at |-> "guard", id |-> c]
    /\ call' = [at |-> "sent", id |-> c]
    /\ wire' = wire \cup {c}
    /\ UNCHANGED <<ord, held, campaign, halted, ex, coins, crashes>>

\* The answer says accepted.
AnswerOk(c) ==
    /\ call = [at |-> "sent", id |-> c] /\ Known(c)
    /\ ord' = [ord EXCEPT ![c].st = "SUBMITTED"]
    /\ call' = Idle
    /\ UNCHANGED <<held, campaign, halted, wire, ex, coins, crashes>>

\* The answer has a code of REJECTED.
AnswerRefused(c) ==
    /\ call = [at |-> "sent", id |-> c] /\ ex[c].st = "refused"
    /\ ord' = [ord EXCEPT ![c].st = "REJECTED"]
    /\ call' = Idle
    /\ UNCHANGED <<held, campaign, halted, wire, ex, coins, crashes>>

\* A mutant: a request without an answer is taken for refused.
LostMeansRefused(c) ==
    /\ call = [at |-> "sent", id |-> c]
    /\ ord' = [ord EXCEPT ![c].st = "REJECTED"]
    /\ call' = Idle
    /\ UNCHANGED <<held, campaign, halted, wire, ex, coins, crashes>>

\* No answer in time, or one that does not say what happened.
AnswerLost(c) ==
    /\ call = [at |-> "sent", id |-> c]
    /\ ord' = [ord EXCEPT ![c].st = "UNKNOWN"]
    /\ call' = Idle
    /\ UNCHANGED <<held, campaign, halted, wire, ex, coins, crashes>>

----------------------------------------------------------------------------
(* reconcile(), cancel() and finish_flat(). *)

\* A mutant: the fill of a finished order replaces the status first, and its
\* last quantity is never added.
SkipsLastFill(c) == IF Status(c) = "DONE" THEN 0 ELSE ex[c].done - ord[c].filled

NewFill(c) == ex[c].done - ord[c].filled

\* apply(): the cumulatives, the lots, and the campaign of a first buy.
Apply(c) ==
    /\ ord' = [ord EXCEPT ![c] = [@ EXCEPT !.st = Status(c), !.filled = ex[c].done]]
    /\ held' = IF ord[c].role = "buy" THEN held + NewFill(c) ELSE held - NewFill(c)
    /\ campaign' = IF ord[c].role = "buy" /\ NewFill(c) > 0 /\ campaign = NoId
                   THEN ord[c].camp ELSE campaign

\* reconcile() asks for an active order and the exchange knows it.
Reconcile(c) ==
    /\ call = Idle /\ IsActive(c) /\ Known(c)
    /\ Apply(c)
    /\ UNCHANGED <<halted, call, wire, ex, coins, crashes>>

\* reconcile() gets no detail and the order is older than reconcile_halt_s.
ReconcileOverdue(c) ==
    /\ call = Idle /\ IsActive(c) /\ ~halted
    /\ halted' = TRUE
    /\ UNCHANGED <<ord, held, campaign, call, wire, ex, coins, crashes>>

\* reconcile(): the settlement window is over and the order is deleted.  The
\* exchange's record is of no use to anyone from here on.  (A REJECTED order
\* has no terminal_at before the next start; until then its entry stays and
\* does nothing, and the identifier may already stand for a new order.)
Archive(c) ==
    /\ call = Idle /\ ord[c].st \in {"DONE", "REJECTED"}
    /\ ord' = [ord EXCEPT ![c] = NoOrder]
    /\ ex' = [ex EXCEPT ![c] = NoRow]
    /\ UNCHANGED <<held, campaign, halted, call, wire, coins, crashes>>

\* cancel(): the attempt is saved, then sent; a later call may find the retry
\* not due or the attempts used up, and then only asks for the detail.
CancelStart(c) ==
    /\ call = Idle /\ IsActive(c)
    /\ \E n \in {ord[c].asked, ord[c].asked + 1} \cap 1..CancelMax :
         ord' = [ord EXCEPT ![c].asked = n]
    /\ call' = [at |-> "cancel", id |-> c]
    /\ UNCHANGED <<held, campaign, halted, wire, ex, coins, crashes>>

\* A mutant: the acknowledgement of a cancel ends the order.
CancelEndOnAck(c) ==
    /\ call = [at |-> "cancel", id |-> c]
    /\ ord' = [ord EXCEPT ![c] = [@ EXCEPT !.st = "DONE"]]
    /\ call' = Idle
    /\ UNCHANGED <<held, campaign, halted, wire, ex, coins, crashes>>

\* cancel(): whatever was acknowledged, the detail decides; out of attempts
\* and still working, entries halt.
CancelEnd(c) ==
    /\ call = [at |-> "cancel", id |-> c]
    /\ \/ Known(c) /\ Apply(c)
       \/ UNCHANGED <<ord, held, campaign>>
    /\ halted' = (halted \/ (ord'[c].st \in Working /\ ord[c].asked = CancelMax))
    /\ call' = Idle
    /\ UNCHANGED <<wire, ex, coins, crashes>>

\* A mutant: an order still working does not keep the campaign open.
FinishFlatEarly ==
    /\ call = Idle /\ campaign # NoId /\ held = 0
    /\ campaign' = NoId
    /\ UNCHANGED <<ord, held, halted, call, wire, ex, coins, crashes>>

FinishFlat ==
    /\ call = Idle /\ campaign # NoId
    /\ held = 0 /\ \A c \in Ids : ~IsActive(c)
    /\ campaign' = NoId
    /\ UNCHANGED <<ord, held, halted, call, wire, ex, coins, crashes>>

\* halt(): the account query shows what the books do not, or the runtime is left
\* with a rest it cannot sell.
Halt ==
    /\ call = Idle
    /\ halted' = TRUE
    /\ UNCHANGED <<ord, held, campaign, call, wire, ex, coins, crashes>>

\* The process dies anywhere and starts again from the store.
Crash ==
    /\ crashes > 0 /\ crashes' = crashes - 1
    /\ call' = Idle
    /\ UNCHANGED <<ord, held, campaign, halted, wire, ex, coins>>

----------------------------------------------------------------------------
(* The network and the exchange. *)

\* A request arrives, perhaps long after the client gave it up.
Arrive(c, answer) ==
    /\ c \in wire /\ wire' = wire \ {c}
    /\ ex' = [ex EXCEPT ![c].st = answer]
    /\ UNCHANGED <<ord, held, campaign, halted, call, coins, crashes>>

Lose(c) ==
    /\ c \in wire /\ wire' = wire \ {c}
    /\ UNCHANGED <<ord, held, campaign, halted, call, ex, coins, crashes>>

\* The trigger price of a stop was touched.
Trigger(c) ==
    /\ ex[c].st = "armed"
    /\ ex' = [ex EXCEPT ![c].st = "live"]
    /\ UNCHANGED <<ord, held, campaign, halted, call, wire, coins, crashes>>

Execute(c) ==
    /\ ex[c].st = "live" /\ ex[c].done < ord[c].qty
    /\ ex' = [ex EXCEPT ![c].done = @ + 1]
    /\ coins' = IF Side(c) = "BUY" THEN coins + 1 ELSE coins - 1
    /\ UNCHANGED <<ord, held, campaign, halted, call, wire, crashes>>

\* Filled, canceled on request, or ended by the exchange or the owner.
Close(c) ==
    /\ ex[c].st \in {"armed", "live"}
    /\ ex' = [ex EXCEPT ![c].st = "over"]
    /\ UNCHANGED <<ord, held, campaign, halted, call, wire, coins, crashes>>

Accepts(c) == IF ord[c].role = "protect" THEN "armed" ELSE "live"

Venue(c) ==
    \/ Arrive(c, Accepts(c)) \/ Arrive(c, "refused") \/ Lose(c)
    \/ Trigger(c) \/ Execute(c) \/ Close(c)

Manager(c) ==
    \/ \E role \in Roles, q \in 1..MaxQty : SubmitIntent(c, role, q)
    \/ Expire(c) \/ Transmit(c) \/ AnswerOk(c) \/ AnswerRefused(c) \/ AnswerLost(c)
    \/ Reconcile(c) \/ ReconcileOverdue(c) \/ Archive(c)
    \/ CancelStart(c) \/ CancelEnd(c)

Next == \/ \E c \in Ids : Venue(c) \/ Manager(c)
        \/ FinishFlat \/ Halt \/ Crash

Spec == Init /\ [][Next]_vars

----------------------------------------------------------------------------
(* Properties. *)

Order == [st : Working \cup {"none", "DONE", "REJECTED"}, role : Roles \cup {"none"},
          qty : 0..MaxQty, filled : 0..MaxQty, camp : Ids \cup {NoId},
          asked : 0..CancelMax]

Row == [st : {"unseen", "armed", "live", "over", "refused"}, done : 0..MaxQty]

\* The shapes of the parts; what is held and what the venue owns is never
\* negative, and no order is executed beyond its quantity.
TypeOK ==
    /\ ord \in [Ids -> Order]
    /\ held \in Nat
    /\ campaign \in Ids \cup {NoId}
    /\ halted \in BOOLEAN
    /\ call \in [at : {"idle", "guard", "sent", "cancel"}, id : Ids \cup {NoId}]
    /\ wire \in SUBSET Ids
    /\ ex \in [Ids -> Row]
    /\ coins \in Nat
    /\ crashes \in Nat

\* Whatever the exchange has sold for us can be taken from the lots when it
\* is reported, so _remove_lots() never runs out of inventory, which it would
\* notice only after it has thrown lots away.
SaleWithinBooks ==
    \A c \in Ids : Side(c) = "SELL" => ex[c].done - ord[c].filled <= held

\* Once every order is booked to the exchange's record, the ledger holds what
\* the exchange holds, which is what sync_account() halts over.
BooksMatchVenue ==
    (\A c \in Ids : ex[c].done = ord[c].filled) => held = coins

\* An order that still may be executed belongs to the campaign it will find,
\* and what is held belongs to one: _add_lot() never meets another campaign's
\* lots, and submit() never refuses a sale for want of a campaign.
CampaignOwnsInventory ==
    /\ \A c \in Ids : IsActive(c) /\ campaign # NoId => ord[c].camp = campaign
    /\ held > 0 => campaign # NoId

\* The order manager keeps the promise of OrderLedger.
Slot(c) == IF ord[c].st = "none" THEN "free"
           ELSE IF IsActive(c) THEN "owned" ELSE "released"

Seen(c) == CASE ex[c].st \in {"armed", "live"} -> "live"
             [] ex[c].st = "over" -> "over"
             [] OTHER -> "never"

Ledger == INSTANCE OrderLedger WITH
    Sides   <- {"BUY", "SELL"},
    slot    <- [c \in Ids |-> Slot(c)],
    side    <- [c \in Ids |-> Side(c)],
    atVenue <- [c \in Ids |-> Seen(c)],
    done    <- [c \in Ids |-> ex[c].done],
    booked  <- [c \in Ids |-> ord[c].filled]

KeepsPromise == Ledger!Spec
=============================================================================
