-------------------------------- MODULE TrackC --------------------------------
(***************************************************************************)
(* One coin of Track C: the campaign and its orders (OMS in track_c/       *)
(* execution/oms.py under LiveBook of track_c/live.py, plans with          *)
(* take_mode 'market'), driven by the live runtime or by the recovery      *)
(* process of track_c/ops/recover.py, against an exchange that loses       *)
(* requests and answers, fills, cancels and refuses.  Every change is      *)
(* saved at once, so a crash keeps the state and loses the step.           *)
(*                                                                         *)
(* An order has role, qty, st and filled as the journal knows them; a      *)
(* forgotten order has st "gone".  What the strategy, the clock and the    *)
(* loss limits decide is a choice.                                         *)
(***************************************************************************)
EXTENDS Integers, FiniteSetsExt, Functions

CONSTANTS MaxOrders,        \* bound on the number of orders
          EntryQty,         \* the quantity of an entry
          Bids,             \* the bid prices
          Stop, StopLimit,  \* the trigger and the limit of the protective sale
          Minimum           \* the least value of an order

ASSUME TrackCAssumption ==
  /\ {MaxOrders, EntryQty, Stop, StopLimit, Minimum} \subseteq Nat \ {0}
  /\ Bids \subseteq Nat \ {0} /\ Bids # {} /\ IsFiniteSet(Bids)
  /\ EntryQty * StopLimit >= Minimum

VARIABLES
  campaign,  \* on, qty, exit reason, seen (first_fill), recovery, mark
  orders,    \* the journal's orders
  residual,  \* the unsellable rest of earlier campaigns
  halt,      \* "none", "daily" or "other"
  process,   \* "down", "live" or "recovering"
  step,      \* where the process is between two calls
  quote,     \* the bid (0: none) and its freshness, for this drive
  sending,   \* the order being submitted
  wire,      \* requests on their way
  venue,     \* the exchange's orders
  told,      \* the last recovery ended and said: flat or protected
  torn       \* a crash fell between the two saves of a carried residual

trackCVars == <<campaign, orders, residual, halt, process, step, quote, sending, wire,
                venue, told, torn>>

Ids == 1..MaxOrders
NoCampaign == [on |-> FALSE, qty |-> 0, exit |-> "none", seen |-> FALSE,
               recovery |-> FALSE, mark |-> 0]
Unused == [role |-> "none", qty |-> 0, st |-> "none", filled |-> 0]
NoQuote == [bid |-> 0, fresh |-> FALSE]

TrackCInit ==
  /\ campaign = NoCampaign
  /\ orders = [i \in Ids |-> Unused]
  /\ residual = 0 /\ halt = "none"
  /\ process = "down" /\ step = "idle" /\ quote = NoQuote /\ sending = 0
  /\ wire = {}
  /\ venue = [i \in Ids |-> [st |-> "none", filled |-> 0]]
  /\ told = FALSE /\ torn = FALSE

Live == {"INTENT", "SUBMITTED", "UNKNOWN", "LIVE"}
Active(role) == {i \in Ids : orders[i].st \in Live /\ orders[i].role = role}
AllActive == {i \in Ids : orders[i].st \in Live}
Buys == {i \in Ids : orders[i].role = "entry"}
Sells == {i \in Ids : orders[i].role \in {"protect", "exit"}}

At(s) == process # "down" /\ step = s
World == <<wire, venue>>
Own == <<campaign, orders, residual, halt>>

----------------------------------------------------------------------------
(* What the exchange says of an order is applied as a whole.               *)

Accepted(R) == {i \in R : venue'[i].st # "none"}
Fill(i) == venue'[i].filled - orders[i].filled
Fills(S) == SumFunctionOnSet([i \in Ids |-> Fill(i)], S)

\* A mutant: a cancel that was answered releases the order.
StatusAfterCancel(i) == "CLOSED"

\* The status of the detail, before or after a cancel: a cancel that was
\* answered alone never releases the order.
StatusAfter(i) == IF venue'[i].st = "live" THEN "LIVE" ELSE "CLOSED"

Apply(R) ==
  LET read == Accepted(R)
  IN /\ orders' = [i \in Ids |-> IF i \in read
                                 THEN [orders[i] EXCEPT !.st = StatusAfter(i),
                                                        !.filled = venue'[i].filled]
                                 ELSE orders[i]]
     /\ campaign' = [campaign EXCEPT
                       !.qty = @ + Fills(read \intersect Buys) - Fills(read \intersect Sells),
                       !.seen = @ \/ Fills(read \intersect Buys) > 0,
                       !.exit = IF \E i \in read : orders[i].role = "protect" /\ Fill(i) > 0
                                THEN "exit" ELSE @]

\* reconcile: some of the details fail; one that has failed too long halts.
Reconcile(R) ==
  /\ R \subseteq AllActive
  /\ UNCHANGED World
  /\ Apply(R)
  /\ halt' \in {halt} \union (IF Accepted(R) # AllActive THEN {"other"} ELSE {})
  /\ UNCHANGED <<residual, process, quote, sending, told, torn>>

\* cancel: the exchange may end the orders, at once or later (OrderEnds); some of
\* the details that follow answer.
CancelAll(S, next) ==
  /\ UNCHANGED World
  /\ \E read \in SUBSET S : Apply(read)
  /\ step' = next
  /\ UNCHANGED <<residual, halt, process, quote, sending, told, torn>>

----------------------------------------------------------------------------
(* Local changes that several steps share.                                 *)

WithExit(c, reason) ==
  IF c.exit = "none" \/ (c.exit = "profit" /\ reason # "profit")
  THEN [c EXCEPT !.exit = reason] ELSE c

Goes(next) ==
  /\ step' = next
  /\ UNCHANGED <<process, quote, sending, wire, venue, told, torn>>

\* A drive that is over; a recovery that found the coin flat is ready.
Returns == Goes("idle")
ReturnsUnchanged == Returns /\ UNCHANGED Own
Halts == Returns /\ halt' = "other" /\ UNCHANGED <<campaign, orders, residual>>

\* A mutant: the rest kept before is overwritten, as the base class does.
CombinedOwn == campaign.qty

\* carry_residual of the live book adds what is kept to the rest kept before.
Combined == campaign.qty + residual

\* CLOSE is saved with the residual; the campaign ends with the next save.
Carry ==
  /\ residual' = IF Combined > 0 THEN Combined ELSE residual
  /\ Goes("closing") /\ UNCHANGED <<campaign, orders, halt>>

EndFlat == Goes("closing") /\ UNCHANGED Own

FlatSaved ==
  /\ At("closing")
  /\ campaign' = NoCampaign
  /\ orders' = [i \in Ids |-> IF orders[i].st = "none" THEN orders[i]
                              ELSE [orders[i] EXCEPT !.st = "gone"]]
  /\ Returns
  /\ UNCHANGED <<residual, halt>>

\* submit: the intent is saved before anything is sent.
FreeIds == {i \in Ids : orders[i].st = "none"}
Intend(role, qty) ==
  /\ FreeIds # {}
  /\ orders' = [orders EXCEPT ![Min(FreeIds)] =
                  [role |-> role, qty |-> qty, st |-> "INTENT", filled |-> 0]]
  /\ sending' = Min(FreeIds)
  /\ step' = "send"
  /\ UNCHANGED <<residual, halt, process, quote, wire, venue, told, torn>>

\* submit's own refusals; the drive should never run into them.
MaySell(role) ==
  /\ Active(role) = {} /\ Active("entry") = {}
  /\ role = "exit" => Active("protect") = {}

\* The live book first looks again at what is left to sell.
Sell(role) ==
  \/ /\ process = "live" /\ AllActive = {} /\ campaign.qty * campaign.mark < Minimum
     /\ Carry
  \/ /\ process = "live" /\ role = "protect" /\ campaign.qty * StopLimit < Minimum
     /\ ~(AllActive = {} /\ campaign.qty * campaign.mark < Minimum)
     /\ campaign' = WithExit(campaign, "exit")
     /\ Returns /\ UNCHANGED <<orders, residual, halt>>
  \/ /\ process = "live" => /\ ~(AllActive = {} /\ campaign.qty * campaign.mark < Minimum)
                            /\ ~(role = "protect" /\ campaign.qty * StopLimit < Minimum)
     /\ MaySell(role)
     /\ Intend(role, campaign.qty)
     /\ UNCHANGED campaign

----------------------------------------------------------------------------
(* enter and submit, in the steps a crash can separate.                    *)

Enter ==
  /\ At("idle") /\ process = "live"
  /\ ~campaign.on /\ AllActive = {} /\ halt = "none"
  /\ campaign' = [NoCampaign EXCEPT !.on = TRUE, !.mark = Max(Bids)]
  /\ Goes("entering")
  /\ UNCHANGED <<orders, residual, halt>>

EntryIntended ==
  /\ At("entering")
  /\ Intend("entry", EntryQty)
  /\ UNCHANGED campaign

\* The decision's lifetime ended while the request waited for its turn.
EntryExpires ==
  /\ At("send") /\ sending \in Buys
  /\ orders' = [orders EXCEPT ![sending].st = "REJECTED"]
  /\ Goes("expired") /\ UNCHANGED <<campaign, residual, halt>>

EntryExpired == At("expired") /\ Carry

Sends ==
  /\ At("send")
  /\ wire' = wire \union {sending}
  /\ step' = "answer"
  /\ UNCHANGED <<Own, process, quote, sending, venue, told, torn>>

Answer(st) ==
  /\ At("answer")
  /\ orders' = [orders EXCEPT ![sending].st = st]
  /\ step' = "idle" /\ sending' = 0
  /\ UNCHANGED <<residual, process, quote, venue, told, torn>>

AnswerOk ==
  /\ Answer("SUBMITTED")
  /\ venue[sending].st # "none"
  /\ UNCHANGED <<campaign, halt, wire>>

AnswerRefused ==
  /\ Answer("REJECTED")
  /\ sending \in wire
  /\ wire' = wire \ {sending}
  /\ campaign' = IF orders[sending].role = "protect" THEN WithExit(campaign, "exit") ELSE campaign
  /\ halt' = IF orders[sending].role = "exit" THEN "other" ELSE halt

\* A mutant: a timeout counts as a refusal.
UnansweredRejected == "REJECTED"

Unanswered == "UNKNOWN"

AnswerLost == Answer(Unanswered) /\ UNCHANGED <<campaign, halt, wire>>

----------------------------------------------------------------------------
(* drive.                                                                   *)

DriveStarts ==
  /\ At("idle") /\ process = "live" /\ campaign.on
  /\ \E bid \in Bids \union {0} : \E fresh \in IF bid = 0 THEN {FALSE} ELSE BOOLEAN :
       quote' = [bid |-> bid, fresh |-> fresh]
  /\ halt' \in {halt} \union (IF halt = "daily" THEN {"none"} ELSE {})
  /\ step' = "reconcile"
  /\ UNCHANGED <<campaign, orders, residual, process, sending, wire, venue, told, torn>>

DriveReconciles ==
  /\ At("reconcile")
  /\ \E R \in SUBSET AllActive : Reconcile(R)
  /\ step' = "decide"

\* The account is refreshed between two drives.
RefreshAccount ==
  /\ At("idle") /\ process = "live" /\ campaign.on
  /\ \E R \in SUBSET AllActive : Reconcile(R)
  /\ UNCHANGED step

IsDust == quote.bid # 0 /\ campaign.qty * quote.bid < Minimum

\* The live book cancels what works for a rest it cannot sell.
LiveDust ==
  /\ process = "live" /\ quote.fresh /\ campaign.qty > 0 /\ IsDust
  /\ Active("entry") = {}

FoundDust == At("decide") /\ LiveDust /\ Goes("dust_cancel") /\ UNCHANGED Own
DustCancels == At("dust_cancel") /\ CancelAll(AllActive, "dust_end")
DustEnds == At("dust_end") /\ IF AllActive = {} THEN Carry ELSE ReturnsUnchanged

MustExit ==
  \/ halt # "none"
  \/ quote.fresh /\ quote.bid <= Stop
  \/ ~quote.fresh /\ campaign.seen /\ ~(campaign.recovery /\ Active("protect") # {})

\* What else asks for an exit: the operator, time, the strategy, a daily loss.
Wishes == {"none", "exit"} \union (IF campaign.seen /\ process = "live" THEN {"profit"} ELSE {})

Marked == IF quote.fresh THEN [campaign EXCEPT !.mark = quote.bid] ELSE campaign

Decide ==
  /\ At("decide") /\ ~LiveDust
  /\ \E wish \in Wishes, daily \in BOOLEAN, cancels \in BOOLEAN :
       LET exits == MustExit \/ daily
           asked == IF exits THEN WithExit(Marked, "exit") ELSE Marked
           c == IF wish = "none" THEN asked ELSE WithExit(asked, wish)
       IN /\ campaign' = c
          /\ halt' = IF daily THEN "daily" ELSE halt
          /\ Goes(IF Active("entry") = {} THEN "rest"
                  ELSE IF cancels \/ c.exit # "none" \/ ~quote.fresh THEN "entry_cancel"
                  ELSE "idle")
  /\ UNCHANGED <<orders, residual>>

EntryCancels == At("entry_cancel") /\ CancelAll(Active("entry"), "rest")

Rest(A) == At("rest") /\ Active("entry") = {} /\ A
Holding(A) == Rest(campaign.qty > 0 /\ ~IsDust /\ A)

StillBuying == At("rest") /\ Active("entry") # {} /\ ReturnsUnchanged
SoldOut == Rest(campaign.qty = 0 /\ Goes("flat_cancel") /\ UNCHANGED Own)
FlatCancels == At("flat_cancel") /\ CancelAll(AllActive, "flat_end")
FlatEnds == At("flat_end") /\ IF AllActive = {} THEN EndFlat ELSE ReturnsUnchanged
Untradeable == Rest(campaign.qty > 0 /\ IsDust /\ Halts)
Protect ==
  Holding(campaign.exit = "none"
          /\ IF Active("protect") \union Active("exit") = {} THEN Sell("protect")
             ELSE ReturnsUnchanged)
Exits == Holding(campaign.exit # "none" /\ Goes("exit_cancel") /\ UNCHANGED Own)
ExitCancels == At("exit_cancel") /\ CancelAll(Active("protect"), "exit_ready")

\* Anything that still works, or a refusal of a moment ago, puts the sale off.
ExitWaits ==
  /\ At("exit_ready")
  /\ AllActive # {} \/ campaign.qty = 0 \/ \E i \in Ids : orders[i].role = "exit" /\ orders[i].st = "REJECTED"
  /\ ReturnsUnchanged

ExitReady ==
  /\ At("exit_ready")
  /\ AllActive = {} /\ campaign.qty > 0
  /\ Goes("balances") /\ UNCHANGED Own

VenueFilled(S) == SumFunctionOnSet([i \in Ids |-> venue[i].filled], S)
Inventory == VenueFilled(Buys) - VenueFilled(Sells)
Working(i) == IF venue[i].st = "live" THEN orders[i].qty - venue[i].filled ELSE 0
BalanceCovers == Inventory - SumFunctionOnSet([i \in Ids |-> Working(i)], Sells) >= campaign.qty

\* The owner may have moved coins.
BalanceShort == (At("balances") \/ At("recovery_balances")) /\ Halts

ExitSells ==
  /\ At("balances") /\ BalanceCovers
  /\ campaign.exit = "profit" => quote.fresh
  /\ Sell("exit")

\* The bid left the target: the protection is set again.
ProfitExpired ==
  /\ At("balances") /\ BalanceCovers
  /\ campaign.exit = "profit"
  /\ campaign' = [campaign EXCEPT !.exit = "none"]
  /\ Goes("protect") /\ UNCHANGED <<orders, residual, halt>>

Protects == At("protect") /\ Sell("protect")

ApiError ==
  /\ process = "live"
  /\ step = "balances" \/ (step = "idle" /\ campaign.on)
  /\ campaign' = WithExit(campaign, "exit")
  /\ Returns /\ UNCHANGED <<orders, residual, halt>>

----------------------------------------------------------------------------
(* protect_once, repeated until it reports that the coin is safe.          *)

RecoveryReconciles ==
  /\ At("idle") /\ process = "recovering" /\ campaign.on
  /\ \E R \in SUBSET AllActive : Reconcile(R)
  /\ step' = "recovery_cancel"

RecoveryCancels == At("recovery_cancel") /\ CancelAll(Active("entry"), "recovery_look")

RecoveryWaits ==
  /\ At("recovery_look")
  /\ Active("entry") \union Active("exit") # {}
  /\ ReturnsUnchanged

Looks(A) == At("recovery_look") /\ Active("entry") \union Active("exit") = {} /\ A

DrivesAt(q) ==
  /\ quote' = q /\ step' = "reconcile"
  /\ UNCHANGED <<orders, residual, halt, process, sending, wire, venue, told, torn>>

RecoveryFlat == Looks(campaign.qty = 0 /\ DrivesAt(NoQuote)
                      /\ campaign' = WithExit(campaign, "exit"))

\* A mutant: any protection in the journal will do.
IsConfirmedByIntent(st) == TRUE

IsConfirmed(st) == st \notin {"INTENT", "UNKNOWN", "SUBMITTED"}

Ends(safe) ==
  /\ process' = "down" /\ told' = safe
  /\ UNCHANGED <<Own, quote, sending, wire, venue, torn>>
  /\ step' = "idle"

RecoveryProtected ==
  Looks(campaign.qty > 0 /\ Active("protect") # {}
        /\ IF \A i \in Active("protect") : IsConfirmed(orders[i].st) THEN Ends(TRUE)
           ELSE ReturnsUnchanged)

RecoveryUntradeable ==
  Looks(campaign.qty > 0 /\ Active("protect") = {} /\ campaign.qty * StopLimit < Minimum /\ Halts)

RecoveryUnprotected ==
  Looks(campaign.qty > 0 /\ Active("protect") = {} /\ campaign.qty * StopLimit >= Minimum
        /\ Goes("recovery_balances") /\ UNCHANGED Own)

RecoverySells ==
  /\ At("recovery_balances") /\ BalanceCovers
  /\ \E bid \in Bids : DrivesAt([bid |-> bid, fresh |-> TRUE])
  /\ campaign' = WithExit(campaign, "exit")

RecoveryProtects ==
  /\ At("recovery_balances") /\ BalanceCovers
  /\ campaign.exit = "none" /\ halt = "none"
  /\ campaign' = [campaign EXCEPT !.recovery = TRUE]
  /\ Goes("protect") /\ UNCHANGED <<orders, residual, halt>>

\* No campaign is left, or the time is over.
RecoveryEnds ==
  /\ At("idle") /\ process = "recovering"
  /\ Ends(~campaign.on)

----------------------------------------------------------------------------
(* Starts, crashes and the exchange.                                       *)

Start ==
  /\ process = "down"
  /\ process' \in {"live", "recovering"} /\ told' = FALSE
  /\ UNCHANGED <<Own, step, quote, sending, wire, venue, torn>>

\* A runtime that stops in good order has no campaign left and ends the same way.
\* Bound: one crash tears a carried rest.
CrashC ==
  /\ process # "down"
  /\ step = "closing" /\ campaign.qty > 0 => ~torn
  /\ process' = "down" /\ step' = "idle" /\ quote' = NoQuote /\ sending' = 0
  /\ torn' = (torn \/ (step = "closing" /\ campaign.qty > 0))
  /\ UNCHANGED <<Own, wire, venue, told>>

Exchange(next) ==
  /\ venue' = next
  /\ UNCHANGED <<Own, process, step, quote, sending, told, torn>>

RequestArrives ==
  \E i \in wire : /\ Exchange([venue EXCEPT ![i].st = "live"]) /\ wire' = wire \ {i}

RequestLostC == \E i \in wire : Exchange(venue) /\ wire' = wire \ {i}

OrderFills ==
  \E i \in Ids :
    /\ Working(i) > 0
    /\ Exchange([venue EXCEPT ![i].filled = @ + 1])
    /\ UNCHANGED wire

OrderEnds ==
  \E i \in Ids : /\ venue[i].st = "live"
                 /\ Exchange([venue EXCEPT ![i].st = "done"]) /\ UNCHANGED wire

Run ==
  \/ Enter \/ EntryIntended \/ EntryExpires \/ EntryExpired
  \/ Sends \/ AnswerOk \/ AnswerRefused \/ AnswerLost
  \/ DriveStarts \/ DriveReconciles \/ RefreshAccount
  \/ FoundDust \/ DustCancels \/ DustEnds \/ Decide \/ EntryCancels
  \/ StillBuying \/ SoldOut \/ FlatCancels \/ FlatEnds \/ FlatSaved \/ Untradeable
  \/ Protect \/ Protects \/ Exits \/ ExitCancels \/ ExitWaits \/ ExitReady
  \/ BalanceShort \/ ExitSells \/ ProfitExpired \/ ApiError

Recover ==
  \/ RecoveryReconciles \/ RecoveryCancels \/ RecoveryWaits \/ RecoveryFlat
  \/ RecoveryProtected \/ RecoveryUntradeable \/ RecoveryUnprotected
  \/ RecoverySells \/ RecoveryProtects \/ RecoveryEnds

TrackCNext ==
  \/ Run \/ Recover \/ Start \/ CrashC
  \/ RequestArrives \/ RequestLostC \/ OrderFills \/ OrderEnds

TrackCSpec == TrackCInit /\ [][TrackCNext]_trackCVars

----------------------------------------------------------------------------
\* What fills of the exchange the journal has not applied yet.
Unapplied(S) == SumFunctionOnSet([i \in Ids |-> venue[i].filled - orders[i].filled], S)
Possible(i) == IF i \in wire THEN orders[i].qty ELSE Working(i)

\* All that may still be sold, on its way or working, by whatever identifier, is
\* within what the campaign holds at the exchange: a race of the protection with
\* its cancel, a lost answer and a crash never lead to a second sale of the same
\* coins, nor to a sale of the rest kept from earlier campaigns.
SalesWithinCampaign ==
  SumFunctionOnSet([i \in Ids |-> Possible(i)], Sells) <= campaign.qty + Unapplied(Buys) - Unapplied(Sells)

\* The books, campaign and kept rest together, own every coin Track C bought and
\* did not sell, so none is taken for a foreign one; they own no more, but for a
\* crash between the two saves of a carried rest, which counts it again.
BooksCoverInventory ==
  LET known == Inventory - Unapplied(Buys) + Unapplied(Sells)
  IN /\ campaign.qty + residual >= known
     /\ ~torn /\ step # "closing" => campaign.qty + residual = known

\* When a campaign is over nothing of it works or may still arrive.
NothingLeftBehind ==
  ~campaign.on => wire = {} /\ \A i \in Ids : venue[i].st # "live"

\* When the recovery says ready, the coin is flat or the exchange has accepted a
\* sale that covers all the journal holds.
RecoveryTellsTruth ==
  told => \/ ~campaign.on
          \/ \E i \in Active("protect") : /\ venue[i].st # "none"
                                          /\ orders[i].qty - orders[i].filled = campaign.qty

\* An order as OrderLedger sees it.
Slot(i) == CASE orders[i].st = "none" -> "free"
             [] orders[i].st \in Live -> "owned"
             [] OTHER -> "released"
Side(i) == CASE i \in Buys -> "BUY" [] i \in Sells -> "SELL" [] OTHER -> "none"
Seen(i) == CASE venue[i].st = "none" -> "never"
             [] venue[i].st = "live" -> "live"
             [] OTHER -> "over"

Ledger == INSTANCE OrderLedger WITH
  Sides   <- {"BUY", "SELL"}, MaxQty <- EntryQty,
  slot    <- [i \in Ids |-> Slot(i)],
  side    <- [i \in Ids |-> Side(i)],
  atVenue <- [i \in Ids |-> Seen(i)],
  done    <- [i \in Ids |-> venue[i].filled],
  booked  <- [i \in Ids |-> orders[i].filled]

PromiseStep == UNCHANGED <<orders, venue>> \/ [Ledger!Next]_Ledger!vars

\* The order manager of Track C keeps the promise of OrderLedger, as that of A-2
\* does: an order holds its side's slot until the exchange's record of it is over
\* and applied, whatever was lost, refused, expired or crashed in between.
KeepsPromise == Ledger!Init /\ [][PromiseStep]_trackCVars
=============================================================================
