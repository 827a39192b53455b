------------------------------- MODULE A2Drive -------------------------------
(***************************************************************************)
(* The decisions of Track A-2 for one coin: the loop run() of               *)
(* track_a_2/runtime.py with drive(), shutdown_ready() and what the order   *)
(* manager's reports do to the stop and the exit reason of the book.  Every *)
(* order goes through A2Oms, so the exchange, the network and crashes are   *)
(* the ones there.                                                          *)
(*                                                                         *)
(* A turn is: reconcile and account ("turn"), drive() and the one submit or *)
(* the round of cancels it ends with ("flat"), and the end of the turn.     *)
(* What the market, the strategy and the balances say is chosen anew        *)
(* wherever drive() reads it.                                               *)
(***************************************************************************)
EXTENDS Integers, FiniteSets

CONSTANTS
    Ids, NoId, MaxQty, MaxHeld, CancelMax, MaxCrashes,     \* as in A2Oms
    MaxStop,    \* bound: levels a stop may be raised to
    Dust,       \* quantities up to it may be below the exchange's minimum
    Losses      \* whether submit requests, and answers that refuse one, get lost

ASSUME DriveAssumption ==
    /\ NoId \notin Ids
    /\ MaxQty \in Nat /\ CancelMax \in Nat \ {0} /\ MaxCrashes \in Nat
    /\ MaxHeld \in 0..MaxQty      \* whatever is held is sold as one order
    /\ MaxStop \in Nat /\ Dust \in Nat /\ Losses \in BOOLEAN

VARIABLES
    ord, held, campaign, halted, call, wire, ex, coins, crashes,    \* A2Oms
    pc,         \* where run() is in its turn, "failed" after an API error
    todo,       \* orders _cancel() still has to go through
    placed,     \* the trigger of the protective order, 0 when there is none
    risk,       \* the trim is a risk trim
    exit,       \* book.exit_reason is set
    soft,       \* it has been set without a save
    stop,       \* book.desired_stop, 0 for None
    cool,       \* cooldown_until is in the future
    stopping    \* self.stopping

Oms == INSTANCE A2Oms

omsVars == <<ord, held, campaign, halted, call, wire, ex, coins, crashes>>
bookVars == <<placed, risk, exit, soft, stop, cool>>
vars == <<omsVars, bookVars, pc, todo, stopping>>

Init ==
    /\ Oms!Init
    /\ pc = "turn" /\ todo = {}
    /\ placed = 0 /\ risk = FALSE /\ exit = FALSE /\ soft = FALSE /\ stop = 0 /\ cool = FALSE
    /\ stopping = FALSE

Working(roles) == {c \in Ids : Oms!IsActive(c) /\ ord[c].role \in roles}
Buys     == Working({"buy"})
Protects == Working({"protect"})
Trims    == Working({"trim"})
Exits    == Working({"exit"})
Sells    == Protects \cup Trims \cup Exits

----------------------------------------------------------------------------
(* What a report of order c does to the plan of the book. *)

\* _refresh_book() forgets stop and exit reason with the last of the
\* inventory; then the sale sets its own reason.
AfterFill(c) ==
    IF ord'[c].filled = ord[c].filled \/ Oms!Side(c) = "BUY"
    THEN UNCHANGED <<exit, stop>>
    ELSE /\ exit' = IF ord[c].role # "trim" THEN TRUE ELSE IF held' > 0 THEN exit ELSE risk
         /\ stop' = IF held' = 0 THEN 0 ELSE stop

\* The trigger and the kind of a trim are fields of an order.
Drops(c) ==
    IF ord[c].role \in {"protect", "trim"} /\ ord'[c].st \in {"DONE", "REJECTED"}
    THEN /\ placed' = IF ord[c].role = "protect" THEN 0 ELSE placed
         /\ risk' = (risk /\ ord[c].role # "trim")
    ELSE UNCHANGED <<placed, risk>>

\* Any save writes the whole state.
Reported(c) ==
    /\ AfterFill(c) /\ Drops(c)
    /\ soft' = (soft /\ ord' = ord)
    /\ UNCHANGED <<cool, stopping>>

----------------------------------------------------------------------------
(* The top of a turn. *)

\* The flag may be set at any time; drive() has read it before it starts.
AskStop ==
    /\ pc # "stopped" /\ ~stopping
    /\ stopping' = TRUE
    /\ UNCHANGED <<omsVars, bookVars, pc, todo>>

Reconcile(c) ==
    /\ pc = "turn" /\ Oms!Reconcile(c) /\ Reported(c)
    /\ UNCHANGED <<pc, todo>>

Tend(c) ==
    /\ pc = "turn"
    /\ Oms!ReconcileOverdue(c) \/ Oms!Archive(c)
    /\ UNCHANGED <<bookVars, pc, todo, stopping>>

\* Nothing here reads an order that is over, so when it is archived makes no
\* difference: the model archives it before the turn goes on.
Tidy == \A c \in Ids : Oms!IsActive(c) \/ ord[c].st = "none"

\* refresh_account(): the balance differs from the lots because the exchange
\* has moved since reconcile(); drive() reads nothing else of it.
AccountHalts ==
    /\ pc = "turn" /\ coins # held /\ ~halted
    /\ Oms!Halt
    /\ UNCHANGED <<bookVars, pc, todo, stopping>>

\* The balance query fails: buys and trims are canceled, nothing else.
ApiError ==
    /\ pc = "turn" /\ call = Oms!Idle /\ Tidy
    /\ todo' = Buys \cup Trims
    /\ pc' = "failed"
    /\ UNCHANGED <<omsVars, bookVars, stopping>>

----------------------------------------------------------------------------
(* drive(): the reads. *)

\* The bid of this turn, "none" when the feed is not fresh, against the stop.
Bids == {"none", "above", "below"}

\* STOP_PLAN: a stop is only ever raised, and only for inventory.
Stops(bid) == {stop} \cup IF held > 0 /\ bid # "none" THEN (stop + 1)..MaxStop ELSE {}

\* A mutant: an order the exchange has not confirmed counts as well.
ConfirmedWhenSent(c, s) ==
    /\ ord[c].asked = 0
    /\ ord[c].qty = held /\ ord[c].filled = 0 /\ placed = s

\* _confirmed_protection()
Confirmed(c, s) ==
    /\ ord[c].st = "NOT_TRIGGERED" /\ ord[c].asked = 0
    /\ ord[c].qty = held /\ ord[c].filled = 0 /\ placed = s

\* The exit reason once drive() has looked at the market: a bid under an
\* unprotected stop always sets it; a triggered stop that is passed by the
\* bid or is two seconds old, and a strategy that has no stop, may.
ExitReasons(s, bid) ==
    IF exit \/ (held > 0 /\ s > 0 /\ bid = "below" /\ Protects = {})
    THEN {TRUE}
    ELSE IF bid # "none" /\ \/ \E c \in Protects : ord[c].st = "LIVE"
                            \/ held > 0 /\ ~stopping
    THEN BOOLEAN
    ELSE {FALSE}

----------------------------------------------------------------------------
(* drive(): what it ends with. *)

Cancels(orders) ==
    /\ todo' = orders
    /\ UNCHANGED <<omsVars, placed, risk>>

Waits == Cancels({})

Submits(role, q) ==
    /\ \E c \in Ids : Oms!SubmitIntent(c, role, q)
    /\ todo' = {}

PartlyBought == \E c \in Buys : ord[c].filled > 0

\* Shutting down: buys and trims are canceled, an exit is waited for.
Unwinding == stopping /\ Buys \cup Trims \cup Exits # {}

Unwind == Cancels(Buys \cup Trims)

\* A mutant: while anything sells, the exit waits.
LeaveWaitsForSells(bid) ==
    \/ Buys # {} /\ Cancels(Buys)
    \/ Buys = {} /\ (bid = "none" \/ Sells # {}) /\ Waits
    \/ /\ Buys = {} /\ bid # "none" /\ Sells = {}
       /\ Waits \/ (Submits("exit", held) /\ UNCHANGED <<placed, risk>>)

\* An exit reason: the protection stays until a fresh bid is there to sell
\* at; a market order takes what is held when nothing else would sell it.
Leave(bid) ==
    \/ Buys # {} /\ Cancels(Buys)
    \/ Buys = {} /\ (bid = "none" \/ Exits # {}) /\ Waits
    \/ Buys = {} /\ bid # "none" /\ Sells # {} /\ Exits = {} /\ Cancels(Sells)
    \/ /\ Buys = {} /\ bid # "none" /\ Sells = {}
       /\ \/ /\ held <= Dust                          \* UNSELLABLE_RESIDUAL
             /\ Oms!Halt /\ todo' = {}
             /\ UNCHANGED <<placed, risk>>
          \/ Waits                                    \* not available yet
          \/ Submits("exit", held) /\ UNCHANGED <<placed, risk>>

\* A trim that could be sold now: buys go first, then the protection.
Trim(s, bid) ==
    /\ held > 0 /\ bid # "none" /\ ~stopping
    /\ IF bid = "below" /\ s > 0
       THEN exit' = TRUE /\ Waits
       ELSE /\ UNCHANGED exit
            /\ \/ Buys # {} /\ Cancels(Buys)
               \/ Buys = {} /\ Protects # {} /\ Cancels(Protects)
               \/ Buys = {} /\ Protects = {} /\ Sells # {} /\ Waits
               \/ /\ Buys = {} /\ Sells = {}
                  /\ \E q \in 1..held : Submits("trim", q)
                  /\ risk' \in BOOLEAN /\ UNCHANGED placed

\* Inventory without confirmed protection.
Protect(s) ==
    /\ held > 0
    /\ \/ (s = 0 \/ held <= Dust) /\ exit' = TRUE /\ Waits
       \/ /\ s > 0 /\ \E c \in Protects : ord[c].st # "NOT_TRIGGERED"
          /\ \/ UNCHANGED exit /\ Waits
             \/ exit' = TRUE /\ Cancels(Protects)     \* reconcile_halt_s is over
       \/ /\ s > 0 /\ \E c \in Protects : ord[c].st = "NOT_TRIGGERED" /\ ~Confirmed(c, s)
          /\ UNCHANGED exit /\ Cancels(Protects)
       \/ /\ s > 0 /\ Protects = {} /\ UNCHANGED exit
          /\ \/ Waits                                 \* another sale, or not available yet
             \/ /\ Sells = {} /\ Submits("protect", held)
                /\ placed' = s /\ UNCHANGED risk

\* can_buy() as far as one coin's orders and stops go.
CanBuy == ~halted /\ ~cool /\ Trims \cup Exits = {}

\* Nothing held, or all of it confirmed: entries.
AtRest(s, bid) ==
    /\ held > 0 => s > 0 /\ \E c \in Protects : Confirmed(c, s)
    /\ UNCHANGED exit
    /\ \/ Waits
       \/ Buys # {} /\ Cancels(Buys)
       \/ /\ Buys = {} /\ bid # "none" /\ ~stopping /\ CanBuy
          /\ \E q \in 1..MaxQty : Submits("buy", q) /\ UNCHANGED <<placed, risk>>

\* A mutant: without a bid to sell at, the exit reason is passed over.
DecideWithoutBid(s, reason, bid) ==
    IF held > 0 /\ reason /\ bid # "none"
    THEN exit' = TRUE /\ Leave(bid)
    ELSE \/ Trim(s, bid)
         \/ Trims # {} /\ UNCHANGED exit /\ Cancels(Trims)
         \/ Trims = {} /\ (Protect(s) \/ AtRest(s, bid))

\* The order of drive(): leave, trim, take back a trim, protect, enter.  A
\* trim that cannot be sold is put off and the rest goes on without it.
Decide(s, reason, bid) ==
    IF held > 0 /\ reason
    THEN exit' = TRUE /\ Leave(bid)
    ELSE \/ Trim(s, bid)
         \/ Trims # {} /\ UNCHANGED exit /\ Cancels(Trims)
         \/ Trims = {} /\ (Protect(s) \/ AtRest(s, bid))

Drive ==
    /\ pc = "turn" /\ call = Oms!Idle /\ Tidy
    /\ IF PartlyBought
       THEN Cancels(Buys) /\ UNCHANGED <<exit, stop>>
       ELSE \E bid \in Bids : \E s \in Stops(bid) :
              /\ stop' = s
              /\ IF Unwinding
                 THEN Unwind /\ UNCHANGED exit
                 ELSE \E reason \in ExitReasons(s, bid) : Decide(s, reason, bid)
    /\ soft' = (soft /\ stop' = stop /\ ord' = ord /\ halted' = halted)
    /\ pc' = "flat"
    /\ UNCHANGED <<cool, stopping>>

----------------------------------------------------------------------------
(* The call drive() ended with, and the end of the turn. *)

Sending(c) ==
    /\ \/ Oms!Expire(c) \/ Oms!Transmit(c) \/ Oms!AnswerOk(c)
       \/ (Losses \/ ex[c].st # "refused") /\ Oms!AnswerLost(c)
    /\ Drops(c)
    /\ soft' = (soft /\ ord' = ord)
    /\ UNCHANGED <<exit, stop, cool, pc, todo, stopping>>

\* submit() saves the rejection first and sets the exit reason after.
Refused(c) ==
    /\ Oms!AnswerRefused(c) /\ Drops(c)
    /\ exit' = (exit \/ ord[c].role # "buy")
    /\ soft' = (~exit /\ ord[c].role # "buy")
    /\ UNCHANGED <<stop, cool, pc, todo, stopping>>

Cancel(c) ==
    /\ c \in todo /\ todo' = todo \ {c}
    /\ Oms!CancelStart(c)
    /\ soft' = FALSE
    /\ UNCHANGED <<placed, risk, exit, stop, cool, pc, stopping>>

Canceled(c) ==
    /\ Oms!CancelEnd(c) /\ Reported(c)
    /\ UNCHANGED <<pc, todo>>

\* A mutant: no order at all may be active.
ShutdownReadyIdle == \A c \in Ids : ~Oms!IsActive(c)

\* A mutant: a protection whose cancel was asked for still counts.
ShutdownReadyAsked ==
    /\ \A c \in Ids : Oms!IsActive(c) => ord[c].role = "protect"
    /\ held > 0 => \E c \in Protects : ord[c].st = "NOT_TRIGGERED" /\ ord[c].qty = held

ShutdownReady ==
    /\ \A c \in Ids : Oms!IsActive(c) => ord[c].role = "protect"
    /\ held > 0 => stop > 0 /\ \E c \in Protects : Confirmed(c, stop)

CampaignOver == campaign # NoId /\ held = 0 /\ \A c \in Ids : ~Oms!IsActive(c)

\* finish_flat(), unless the turn failed, and the way out of the loop.
EndTurn ==
    /\ pc \in {"flat", "failed"} /\ call = Oms!Idle /\ todo = {}
    /\ IF pc = "flat" /\ CampaignOver
       THEN /\ Oms!FinishFlat
            /\ cool' = (cool \/ exit)
            /\ exit' = FALSE /\ soft' = FALSE /\ stop' = 0 /\ placed' = 0 /\ risk' = FALSE
       ELSE UNCHANGED <<omsVars, bookVars>>
    /\ pc' = IF stopping /\ ShutdownReady THEN "stopped" ELSE "turn"
    /\ UNCHANGED <<todo, stopping>>

CoolEnd ==
    /\ cool /\ cool' = FALSE
    /\ UNCHANGED <<omsVars, placed, risk, exit, soft, stop, pc, todo, stopping>>

\* The process dies, or was stopped, and starts again from the store.
Crash ==
    /\ Oms!Crash
    /\ pc' = "turn" /\ todo' = {} /\ stopping' = FALSE
    /\ exit' = (exit /\ ~soft) /\ soft' = FALSE
    /\ UNCHANGED <<placed, risk, stop, cool>>

Exchange(c) ==
    /\ \/ Oms!Arrive(c, Oms!Accepts(c))
       \/ (Losses \/ call = [at |-> "sent", id |-> c]) /\ Oms!Arrive(c, "refused")
       \/ Losses /\ Oms!Lose(c)
       \/ Oms!Trigger(c) \/ Oms!Execute(c) \/ Oms!Close(c)
    /\ UNCHANGED <<bookVars, pc, todo, stopping>>

Runtime(c) ==
    \/ Reconcile(c) \/ Tend(c) \/ Sending(c) \/ Refused(c) \/ Cancel(c) \/ Canceled(c)

Next ==
    \/ \E c \in Ids : Exchange(c) \/ Runtime(c)
    \/ AskStop \/ AccountHalts \/ ApiError \/ Drive \/ EndTurn \/ CoolEnd \/ Crash

Spec == Init /\ [][Next]_vars

----------------------------------------------------------------------------
(* Properties. *)

TypeOK ==
    /\ Oms!TypeOK
    /\ pc \in {"turn", "flat", "failed", "stopped"}
    /\ todo \subseteq Buys \cup Sells
    /\ placed \in 0..MaxStop /\ stop \in 0..MaxStop
    /\ {risk, exit, soft, cool, stopping} \subseteq BOOLEAN

\* A runtime that has stopped leaves nothing at the exchange, or on the way
\* to it, but one protective order for exactly the coins that are there, at
\* the stop that was decided last (README, "Orders, accounting and recovery").
Reaches(c) == c \in wire \/ ex[c].st \in {"armed", "live"}

StoppedIsProtected ==
    pc = "stopped" =>
        /\ \A c \in Ids : Reaches(c) => ord[c].role = "protect"
        /\ coins > 0 => \E c \in Ids : /\ ord[c].role = "protect" /\ Oms!Known(c)
                                       /\ ord[c].asked = 0 /\ placed = stop
                                       /\ ord[c].qty - ex[c].done = coins

Commits(c, role) == ord[c].st = "none" /\ ord'[c].st = "INTENT" /\ ord'[c].role = role

\* "Unconfirmed protection blocks adds": an add is written down only when the
\* exchange itself has taken a protective order for all that is held, at the
\* latest stop, whose cancel was never asked for.
AddsAreCovered ==
    [][\A c \in Ids : Commits(c, "buy") /\ held > 0 =>
         \E d \in Ids : /\ ord[d].role = "protect" /\ Oms!Known(d)
                        /\ ord[d].qty = held /\ ord[d].asked = 0 /\ placed = stop']_vars

\* Once there is a reason to leave, nothing but the exit is ordered, and only
\* a process that dies right after a rejection can forget the reason.
ExitSticks ==
    [][exit /\ held > 0 =>
         /\ exit' \/ held' = 0 \/ (soft /\ crashes' < crashes)
         /\ \A c \in Ids : \A role \in {"buy", "protect", "trim"} : ~Commits(c, role)]_vars

----------------------------------------------------------------------------
(* What the documentation says and the code does not keep. *)

\* "Entry: ... Gated by halt / pause / post-stop cooldown": with the inventory
\* stopped out and its exit reason still on the book, no entry is made.
CooldownHolds ==
    [][\A c \in Ids : Commits(c, "buy") => ~(exit /\ held = 0)]_vars
=============================================================================
