----------------------------- MODULE TrackCProofs -----------------------------
(***************************************************************************)
(* What Track C keeps for every number of orders and coins, and for any    *)
(* quantities, prices and limits.                                          *)
(*   One coin's campaign (TrackC): its orders sell no more than it holds,  *)
(* its books cover what the exchange executed, nothing is forgotten, a     *)
(* recovery that ends tells the truth, and it implements the abstract      *)
(* OrderLedger.  All of it rests on TrackInv: at most one order of a coin  *)
(* may still fill, and what that order has left is what the campaign lacks *)
(* or holds.                                                               *)
(*   The money the coins share (TrackCPortfolio): the cash pays what is    *)
(* pending, and an entry is admitted within the limit of the day           *)
(* (PortfolioInv).                                                         *)
(***************************************************************************)
EXTENDS TrackC, TrackCPortfolio, Sums, TLAPS

(***************************************************************************)
(* One coin and its orders.                                                *)
(***************************************************************************)
Steps == {"idle", "entering", "send", "answer", "expired", "closing", "reconcile", "decide", "dust_cancel", "dust_end",
          "entry_cancel", "rest", "flat_cancel", "flat_end", "exit_cancel", "exit_ready", "balances", "protect",
          "recovery_cancel", "recovery_look", "recovery_balances"}
Campaigns == [on : BOOLEAN, qty : Nat, exit : {"none", "exit", "profit"}, seen : BOOLEAN, recovery : BOOLEAN, mark : Nat]
Journal == [role : {"none", "entry", "protect", "exit"}, qty : Nat,
            st : Live \union {"none", "CLOSED", "REJECTED", "gone"}, filled : Nat]

TrackTypes ==
  /\ campaign \in Campaigns /\ orders \in [Ids -> Journal]
  /\ residual \in Nat /\ halt \in {"none", "daily", "other"}
  /\ process \in {"down", "live", "recovering"} /\ step \in Steps
  /\ quote \in [bid : Nat, fresh : BOOLEAN] /\ sending \in Ids \union {0} /\ wire \in SUBSET Ids
  /\ venue \in [Ids -> [st : {"none", "live", "done"}, filled : Nat]]
  /\ told \in BOOLEAN /\ torn \in BOOLEAN

\* What the journal knows of its orders and the exchange executes of them.
OrderTrue(i) ==
  /\ orders[i].st = "none" => orders[i] = Unused /\ venue[i].st = "none"
  /\ orders[i].role = "none" => orders[i].st = "none"
  /\ orders[i].filled <= venue[i].filled /\ venue[i].filled <= orders[i].qty /\ orders[i].qty <= EntryQty
  /\ venue[i].st = "none" => venue[i].filled = 0
  /\ venue[i].st = "live" => orders[i].st \in Live
  /\ orders[i].st \notin Live => orders[i].filled = venue[i].filled
  /\ orders[i].st \in {"SUBMITTED", "LIVE"} => venue[i].st # "none"

OrdersTrue == \A i \in Ids : OrderTrue(i)

\* A request on its way has not been seen.
WireTrue == \A i \in wire : orders[i].st \in Live /\ venue[i].st = "none"

\* The coin never has two orders that may still fill, of whatever role.
OneAtATime == \A i, j \in AllActive : i = j

\* What the order still has to do is what the campaign lacks or holds.
Covered ==
  /\ campaign.qty <= EntryQty
  /\ \A i \in AllActive :
       /\ orders[i].role = "entry" => orders[i].qty = EntryQty /\ orders[i].filled = campaign.qty
       /\ orders[i].role # "entry" => orders[i].qty - orders[i].filled = campaign.qty

\* What the process may rely on between two calls.
StepTrue ==
  /\ process = "down" => step = "idle"
  /\ step # "idle" => campaign.on
  /\ ~campaign.on => campaign.qty = 0 /\ AllActive = {}
  /\ step \in {"entering", "expired", "closing", "balances", "recovery_balances", "protect"} => AllActive = {}
  /\ step \in {"entering", "flat_cancel", "flat_end"} => campaign.qty = 0
  /\ step \in {"flat_cancel", "flat_end"} => Active("entry") = {}
  /\ step = "send" => sending \in AllActive \ wire /\ venue[sending].st = "none"
  /\ step = "answer" => sending \in AllActive

Filled(S) == SumFunctionOnSet([i \in Ids |-> orders[i].filled], S)
InBooks == Filled(Buys) - Filled(Sells)

\* The campaign and the kept rest hold what was booked, the rest twice while, or
\* after a crash because, the campaign has not ended.
BooksTrue ==
  /\ campaign.qty + residual >= InBooks
  /\ step = "closing" => residual >= InBooks /\ (torn \/ residual = InBooks)
  /\ torn \/ step = "closing" \/ campaign.qty + residual = InBooks

\* A protection the exchange has accepted sells all the campaign holds.
ProtectionCovers ==
  \E i \in Active("protect") : venue[i].st # "none" /\ orders[i].qty - orders[i].filled = campaign.qty

ToldTrue == told => process = "down" /\ RecoveryTellsTruth

TrackInv == TrackTypes /\ OrdersTrue /\ WireTrue /\ OneAtATime /\ Covered /\ StepTrue /\ BooksTrue /\ ToldTrue

----------------------------------------------------------------------------
\* What the constants give: a positive quantity and finitely many orders.
LEMMA TrackNumbers ==
  EntryQty \in Nat \ {0} /\ IsFiniteSet(Ids) /\ 0 \notin Ids /\ MaxOrders \in Nat /\ \A S \in SUBSET Ids : IsFiniteSet(S)
<1>1. MaxOrders \in Nat /\ EntryQty \in Nat \ {0}
  BY TrackCAssumption
<1>2. IsFiniteSet(1..MaxOrders)
  <2>1. 1 \in Int /\ MaxOrders \in Int
    BY <1>1
  <2> QED BY <2>1, FS_Interval
<1>3. \A S \in SUBSET Ids : IsFiniteSet(S)
  BY <1>2, FS_Subset DEF Ids
<1> QED BY <1>1, <1>2, <1>3 DEF Ids

\* Fields of an order, at the journal and at the exchange.
LEMMA OrderFields ==
  ASSUME TrackTypes, NEW i \in Ids
  PROVE  /\ orders[i] \in Journal /\ orders[i].filled \in Nat /\ orders[i].qty \in Nat
         /\ orders[i].role \in {"none", "entry", "protect", "exit"}
         /\ orders[i].st \in Live \union {"none", "CLOSED", "REJECTED", "gone"}
         /\ venue[i].filled \in Nat /\ venue[i].st \in {"none", "live", "done"}
<1>1. orders[i] \in Journal /\ venue[i] \in [st : {"none", "live", "done"}, filled : Nat]
  BY DEF TrackTypes
<1> QED BY <1>1 DEF Journal

\* An order that may still fill is an entry, a protection or an exit.
LEMMA ActiveRoles ==
  ASSUME TrackTypes, OrdersTrue
  PROVE  /\ \A i \in AllActive : /\ i \in Ids /\ orders[i].st \in Live
                                 /\ orders[i].role \in {"entry", "protect", "exit"}
                                 /\ i \in Buys \/ i \in Sells
         /\ \A i \in Ids : (i \in Buys <=> orders[i].role = "entry") /\ (i \in Sells <=> orders[i].role \in {"protect", "exit"})
         /\ Active("entry") \union Active("protect") \union Active("exit") = AllActive
<1>1. \A i \in AllActive : i \in Ids /\ orders[i].st \in Live /\ orders[i].role \in {"entry", "protect", "exit"}
  <2> SUFFICES ASSUME NEW i \in Ids, orders[i].st \in Live PROVE orders[i].role \in {"entry", "protect", "exit"}
    BY DEF AllActive
  <2>1. orders[i].role # "none"
    BY DEF OrdersTrue, OrderTrue, Live
  <2> QED BY <2>1, OrderFields
<1> QED BY <1>1 DEF AllActive, Active, Buys, Sells

\* A step that leaves the orders, their requests and what is held alone.
LEMMA QuietKeeps ==
  ASSUME TrackInv, TrackTypes', UNCHANGED <<orders, residual, wire, venue, torn>>, campaign'.qty = campaign.qty,
         step # "closing", step' # "closing" \/ campaign.qty = 0, StepTrue', ToldTrue'
  PROVE  TrackInv'
<1> USE DEF TrackInv
<1>1. OrdersTrue' /\ WireTrue'
  BY DEF OrdersTrue, OrderTrue, WireTrue
<1>2. OneAtATime' /\ Covered'
  BY DEF OneAtATime, Covered, AllActive
<1>3. InBooks' = InBooks
  BY DEF InBooks, Filled, Buys, Sells
<1>4. BooksTrue'
  <2>1. campaign.qty \in Nat /\ residual \in Nat
    BY DEF TrackTypes, Campaigns
  <2>2. CASE step' = "closing"
    BY <1>3, <2>1, <2>2 DEF BooksTrue
  <2>3. CASE step' # "closing"
    BY <1>3, <2>3 DEF BooksTrue
  <2> QED BY <2>2, <2>3
<1> QED BY <1>1, <1>2, <1>4

\* A reason to leave changes nothing else.
LEMMA ExitOnly ==
  ASSUME NEW c \in Campaigns, NEW r \in {"exit", "profit"}
  PROVE  WithExit(c, r) \in Campaigns /\ WithExit(c, r).qty = c.qty /\ WithExit(c, r).on = c.on
BY DEF WithExit, Campaigns

\* A step of the process that only decides where to go on.
LEMMA DriveKeeps ==
  ASSUME TrackInv, process # "down", UNCHANGED <<process, told, orders, residual, sending, wire, venue, torn>>,
         campaign' \in Campaigns, campaign'.qty = campaign.qty, campaign'.on,
         halt' \in {"none", "daily", "other"}, quote' \in [bid : Nat, fresh : BOOLEAN],
         NEW next \in Steps \ {"send", "answer"}, step' = next, step # "closing",
         next = "closing" => campaign.qty = 0,
         next \in {"entering", "expired", "closing", "balances", "recovery_balances", "protect"} => AllActive = {},
         next \in {"entering", "flat_cancel", "flat_end"} => campaign.qty = 0,
         next \in {"flat_cancel", "flat_end"} => Active("entry") = {}
  PROVE  TrackInv'
<1>1. TrackTypes'
  BY DEF TrackInv, TrackTypes
<1>2. StepTrue'
  BY DEF TrackInv, StepTrue, AllActive, Active
<1>3. ToldTrue'
  BY DEF TrackInv, ToldTrue
<1> QED BY <1>1, <1>2, <1>3, QuietKeeps

\* The turns of drive that give no order and hear of none.
LEMMA TurnsKeep ==
  ASSUME TrackInv,
         \/ Enter \/ DriveStarts \/ FoundDust \/ Decide \/ StillBuying \/ SoldOut \/ FlatEnds \/ Untradeable
         \/ Exits \/ ExitWaits \/ ExitReady \/ BalanceShort \/ ProfitExpired \/ ApiError
  PROVE  TrackInv'
<1> USE DEF At
<1>1. /\ campaign \in Campaigns /\ halt \in {"none", "daily", "other"} /\ quote \in [bid : Nat, fresh : BOOLEAN]
      /\ step # "idle" => campaign.on
      /\ ~campaign.on => campaign.qty = 0 /\ AllActive = {}
  BY DEF TrackInv, TrackTypes, StepTrue
<1>2. CASE Enter
  <2>1. Max(Bids) \in Nat
    <3>1. Bids # {} /\ IsFiniteSet(Bids) /\ \A x \in Bids : x \in Nat
      BY TrackCAssumption
    <3> QED BY <3>1, GreatestElement
  <2>2. campaign' \in Campaigns /\ campaign'.qty = 0 /\ campaign'.on
    BY <1>2, <2>1 DEF Enter, NoCampaign, Campaigns
  <2>3. /\ process # "down" /\ UNCHANGED <<process, told, orders, residual, sending, wire, venue, torn, halt, quote>>
        /\ step' = "entering" /\ step # "closing" /\ AllActive = {} /\ campaign.qty = 0 /\ step' \in Steps
    BY <1>1, <1>2 DEF Enter, Goes, Steps
  <2> QED BY <1>1, <2>2, <2>3, DriveKeeps
<1>3. CASE DriveStarts
  <2>1. quote' \in [bid : Nat, fresh : BOOLEAN]
    <3>1. PICK bid \in Bids \union {0}, fresh \in BOOLEAN : quote' = [bid |-> bid, fresh |-> fresh]
      BY <1>3 DEF DriveStarts
    <3>2. bid \in Nat
      BY TrackCAssumption
    <3> QED BY <3>1, <3>2
  <2>2. /\ process # "down" /\ UNCHANGED <<process, told, orders, residual, sending, wire, venue, torn, campaign>>
        /\ step' = "reconcile" /\ step # "closing" /\ halt' \in {"none", "daily", "other"} /\ step' \in Steps /\ campaign.on
    BY <1>1, <1>3 DEF DriveStarts, Steps
  <2> QED BY <1>1, <2>1, <2>2, DriveKeeps
<1>4. CASE Decide
  <2>1. Marked \in Campaigns /\ Marked.qty = campaign.qty /\ Marked.on = campaign.on
    BY <1>1 DEF Marked, Campaigns
  <2>2. campaign' \in Campaigns /\ campaign'.qty = campaign.qty /\ campaign'.on = campaign.on
    <3>1. PICK wish \in Wishes, daily \in BOOLEAN :
            LET asked == IF MustExit \/ daily THEN WithExit(Marked, "exit") ELSE Marked
            IN campaign' = IF wish = "none" THEN asked ELSE WithExit(asked, wish)
      BY <1>4 DEF Decide
    <3>2. wish \in {"none", "exit", "profit"}
      BY DEF Wishes
    <3> DEFINE asked == IF MustExit \/ daily THEN WithExit(Marked, "exit") ELSE Marked
    <3>3. asked \in Campaigns /\ asked.qty = campaign.qty /\ asked.on = campaign.on
      BY <2>1, ExitOnly
    <3> HIDE DEF asked
    <3>4. campaign' = IF wish = "none" THEN asked ELSE WithExit(asked, wish)
      BY <3>1 DEF asked
    <3> QED BY <3>2, <3>3, <3>4, ExitOnly
  <2>3. /\ process # "down" /\ UNCHANGED <<process, told, orders, residual, sending, wire, venue, torn, quote>>
        /\ step' \in {"rest", "entry_cancel", "idle"} /\ step = "decide" /\ halt' \in {"none", "daily", "other"}
    BY <1>1, <1>4 DEF Decide, Goes
  <2>4. step' \in Steps
    BY <2>3 DEF Steps
  <2> QED BY <1>1, <2>2, <2>3, <2>4, DriveKeeps
<1>5. CASE FoundDust \/ StillBuying \/ Exits \/ ExitWaits
  <2>1. /\ process # "down" /\ UNCHANGED <<process, told, orders, residual, sending, wire, venue, torn, quote, campaign, halt>>
        /\ step' \in {"dust_cancel", "idle", "exit_cancel"} /\ step \in {"decide", "rest", "exit_ready"}
    BY <1>5 DEF FoundDust, StillBuying, Exits, ExitWaits, Goes, ReturnsUnchanged, Returns, Own, Holding, Rest
  <2>2. step' \in Steps
    BY <2>1 DEF Steps
  <2> QED BY <1>1, <2>1, <2>2, DriveKeeps
<1>6. CASE SoldOut \/ ExitReady
  <2>1. /\ process # "down" /\ UNCHANGED <<process, told, orders, residual, sending, wire, venue, torn, quote, campaign, halt>>
        /\ \/ step' = "flat_cancel" /\ step = "rest" /\ campaign.qty = 0 /\ Active("entry") = {}
           \/ step' = "balances" /\ step = "exit_ready" /\ AllActive = {}
    BY <1>6 DEF SoldOut, ExitReady, Goes, Own, Rest
  <2>2. step' \in Steps
    BY <2>1 DEF Steps
  <2> QED BY <1>1, <2>1, <2>2, DriveKeeps
<1>7. CASE FlatEnds
  <2>1. /\ process # "down" /\ UNCHANGED <<process, told, orders, residual, sending, wire, venue, torn, quote, campaign, halt>>
        /\ step = "flat_end" /\ ((step' = "closing" /\ AllActive = {}) \/ step' = "idle")
    BY <1>7 DEF FlatEnds, EndFlat, ReturnsUnchanged, Returns, Goes, Own
  <2>2. step' \in Steps /\ campaign.qty = 0
    BY <1>7, <2>1 DEF Steps, TrackInv, StepTrue, FlatEnds
  <2>3. step = "flat_end"
    BY <1>7 DEF FlatEnds
  <2> QED BY <1>1, <2>1, <2>2, <2>3, DriveKeeps
<1>8. CASE Untradeable \/ BalanceShort
  <2>1. /\ process # "down" /\ UNCHANGED <<process, told, orders, residual, sending, wire, venue, torn, quote, campaign>>
        /\ step' = "idle" /\ step \in {"rest", "balances", "recovery_balances"} /\ halt' = "other"
    BY <1>8 DEF Untradeable, BalanceShort, Halts, Returns, Goes, Rest
  <2>2. step' \in Steps
    BY <2>1 DEF Steps
  <2> QED BY <1>1, <2>1, <2>2, DriveKeeps
<1>9. CASE ProfitExpired
  <2>1. /\ process # "down" /\ UNCHANGED <<process, told, orders, residual, sending, wire, venue, torn, quote, halt>>
        /\ step' = "protect" /\ step = "balances" /\ campaign' = [campaign EXCEPT !.exit = "none"]
    BY <1>9 DEF ProfitExpired, Goes
  <2>2. campaign' \in Campaigns /\ campaign'.qty = campaign.qty /\ campaign'.on = campaign.on
    BY <1>1, <2>1 DEF Campaigns
  <2>3. step' \in Steps /\ AllActive = {}
    BY <2>1 DEF Steps, TrackInv, StepTrue
  <2> QED BY <1>1, <2>1, <2>2, <2>3, DriveKeeps
<1>10. CASE ApiError
  <2>1. /\ process # "down" /\ UNCHANGED <<process, told, orders, residual, sending, wire, venue, torn, quote, halt>>
        /\ step' = "idle" /\ step \in {"balances", "idle"} /\ campaign' = WithExit(campaign, "exit") /\ campaign.on
    BY <1>1, <1>10 DEF ApiError, Returns, Goes
  <2>2. step' \in Steps
    BY <2>1 DEF Steps
  <2>3. campaign' \in Campaigns /\ campaign'.qty = campaign.qty /\ campaign'.on = campaign.on
    BY <1>1, <2>1, ExitOnly
  <2> QED BY <1>1, <2>1, <2>2, <2>3, DriveKeeps
<1> QED BY <1>2, <1>3, <1>4, <1>5, <1>6, <1>7, <1>8, <1>9, <1>10

\* Carrying the rest of a campaign that works no more: until it has ended the rest counts twice.
LEMMA CarryKeeps ==
  ASSUME TrackInv, Carry, process # "down", campaign.on, AllActive = {}, step # "closing"
  PROVE  TrackInv'
<1> USE DEF Carry, Goes
<1>1. campaign.qty \in Nat /\ residual \in Nat /\ campaign.qty + residual \in Nat
  BY DEF TrackInv, TrackTypes, Campaigns
<1>2. residual' = campaign.qty + residual
  BY <1>1 DEF Combined
<1>3. TrackTypes'
  <2>1. "closing" \in Steps
    BY DEF Steps
  <2> QED BY <1>1, <1>2, <2>1 DEF TrackInv, TrackTypes
<1>4. OrdersTrue' /\ WireTrue' /\ OneAtATime' /\ Covered'
  BY DEF TrackInv, OrdersTrue, OrderTrue, WireTrue, OneAtATime, Covered, AllActive
<1>5. StepTrue' /\ ToldTrue'
  BY DEF TrackInv, StepTrue, ToldTrue, AllActive
<1>6. BooksTrue'
  <2>1. InBooks' = InBooks
    BY DEF InBooks, Filled, Buys, Sells
  <2>2. campaign.qty + residual >= InBooks /\ (torn \/ campaign.qty + residual = InBooks)
    BY DEF TrackInv, BooksTrue
  <2>3. campaign.qty + (campaign.qty + residual) >= campaign.qty + residual
    BY <1>1
  <2>4. InBooks \in Int
    <3>1. \A i \in Ids : orders[i].filled \in Nat
      BY OrderFields DEF TrackInv
    <3> DEFINE f == [i \in Ids |-> orders[i].filled]
    <3>2. \A S \in SUBSET Ids : SumFunctionOnSet(f, S) \in Int
      <4> SUFFICES ASSUME NEW S \in SUBSET Ids PROVE SumFunctionOnSet(f, S) \in Int
        OBVIOUS
      <4>1. IsFiniteSet(S) /\ \A x \in S : f[x] \in Int
        BY <3>1, TrackNumbers
      <4> HIDE DEF f
      <4> QED BY <4>1, SumIsInt
    <3>3. Buys \in SUBSET Ids /\ Sells \in SUBSET Ids
      BY DEF Buys, Sells
    <3> QED BY <3>2, <3>3 DEF InBooks, Filled
  <2> QED BY <1>1, <1>2, <2>1, <2>2, <2>3, <2>4 DEF BooksTrue
<1> QED BY <1>3, <1>4, <1>5, <1>6 DEF TrackInv

\* An answer that changes the status of the order being sent, and nothing it fills.
LEMMA StatusKeeps ==
  ASSUME TrackInv, TrackTypes', NEW o \in AllActive, NEW st \in {"SUBMITTED", "UNKNOWN", "REJECTED"},
         orders' = [orders EXCEPT ![o].st = st],
         UNCHANGED <<residual, venue, torn>>, campaign'.qty = campaign.qty, step # "closing", step' # "closing",
         wire' \in SUBSET wire,
         st = "REJECTED" => o \notin wire' /\ venue[o].st = "none",
         st = "SUBMITTED" => venue[o].st # "none",
         StepTrue', ToldTrue'
  PROVE  TrackInv'
<1>1. o \in Ids /\ orders[o].st \in Live /\ \A i \in Ids : orders[i] \in Journal
  BY DEF AllActive, TrackInv, TrackTypes
<1>2. \A i \in Ids : /\ orders'[i].role = orders[i].role /\ orders'[i].qty = orders[i].qty /\ orders'[i].filled = orders[i].filled
                     /\ orders'[i].st = IF i = o THEN st ELSE orders[i].st
                     /\ i # o => orders'[i] = orders[i]
  BY <1>1 DEF TrackInv, TrackTypes, Journal
<1>3. orders[o].st # "none" /\ st # "none"
  BY <1>1 DEF Live
<1>4. OrdersTrue'
  <2> SUFFICES ASSUME NEW i \in Ids
               PROVE  OrderTrue(i)'
    BY DEF OrdersTrue
  <2>1. OrderTrue(i)
    BY DEF TrackInv, OrdersTrue
  <2>2. CASE i # o
    BY <1>2, <2>1, <2>2 DEF OrderTrue
  <2>3. CASE i = o
    <3>1. orders[o].filled \in Nat /\ venue[o].filled \in Nat
      BY <1>1, OrderFields DEF TrackInv
    <3>2. st = "REJECTED" => orders[o].filled = venue[o].filled
      BY <2>1, <2>3, <3>1 DEF OrderTrue
    <3> QED BY <1>1, <1>2, <1>3, <2>1, <2>3, <3>2 DEF Live, OrderTrue
  <2> QED BY <2>2, <2>3
<1>5. AllActive' \in SUBSET AllActive
  BY <1>1, <1>2 DEF AllActive, Live
<1>6. WireTrue'
  BY <1>2 DEF TrackInv, WireTrue, Live
<1>7. OneAtATime' /\ Covered'
  <2>1. \A i \in AllActive' : i \in AllActive /\ i \in Ids
    BY <1>5 DEF AllActive
  <2> QED BY <1>2, <2>1 DEF TrackInv, OneAtATime, Covered
<1>8. InBooks' = InBooks
  <2>1. Buys' = Buys /\ Sells' = Sells /\ [i \in Ids |-> orders'[i].filled] = [i \in Ids |-> orders[i].filled]
    BY <1>2 DEF Buys, Sells
  <2> QED BY <2>1 DEF InBooks, Filled
<1>9. BooksTrue'
  BY <1>8 DEF TrackInv, BooksTrue
<1> QED BY <1>4, <1>6, <1>7, <1>9 DEF TrackInv

\* A sum of filled quantities over the orders of a side.
LEMMA FilledIsInt ==
  ASSUME TrackTypes, NEW S \in SUBSET Ids
  PROVE  Filled(S) \in Int
<1> DEFINE f == [i \in Ids |-> orders[i].filled]
<1>1. IsFiniteSet(S) /\ \A x \in S : f[x] \in Int
  BY OrderFields, TrackNumbers
<1> HIDE DEF f
<1>2. SumFunctionOnSet(f, S) \in Int
  BY <1>1, SumIsInt
<1> QED BY <1>2 DEF Filled, f

\* A new order: the intent of an entry of an empty campaign, or of a sale of all it holds.
LEMMA IntendKeeps ==
  ASSUME TrackInv, NEW role \in {"entry", "protect", "exit"}, NEW qty, Intend(role, qty), process # "down",
         campaign.on, AllActive = {}, step # "closing", UNCHANGED campaign,
         IF role = "entry" THEN qty = EntryQty /\ campaign.qty = 0 ELSE qty = campaign.qty
  PROVE  TrackInv'
<1> DEFINE m == Min(FreeIds)
<1>1. m \in Ids /\ orders[m].st = "none" /\ orders[m] = Unused /\ venue[m].st = "none" /\ venue[m].filled = 0 /\ m \notin wire
  <2>1. FreeIds \in SUBSET (1..MaxOrders) /\ FreeIds # {} /\ MaxOrders \in Nat
    BY TrackNumbers DEF Intend, FreeIds, Ids
  <2>2. m \in FreeIds
    BY <2>1, LeastElement
  <2>3. m \in Ids /\ orders[m].st = "none"
    BY <2>2 DEF FreeIds
  <2> HIDE DEF m
  <2> QED BY <2>3 DEF TrackInv, OrdersTrue, OrderTrue, WireTrue, Live
<1>2. /\ orders' = [orders EXCEPT ![m] = [role |-> role, qty |-> qty, st |-> "INTENT", filled |-> 0]]
      /\ sending' = m /\ step' = "send" /\ UNCHANGED <<residual, halt, process, quote, wire, venue, told, torn>>
  BY DEF Intend
<1>3. campaign \in Campaigns /\ campaign.qty \in Nat /\ EntryQty \in Nat /\ qty \in Nat /\ qty <= EntryQty
  BY TrackNumbers DEF TrackInv, TrackTypes, Campaigns, Covered
<1> HIDE DEF m
<1>4. \A i \in Ids : orders'[i] = IF i = m THEN [role |-> role, qty |-> qty, st |-> "INTENT", filled |-> 0] ELSE orders[i]
  BY <1>2 DEF TrackInv, TrackTypes
<1>5. TrackTypes'
  <2>1. orders' \in [Ids -> Journal]
    BY <1>1, <1>2, <1>3 DEF TrackInv, TrackTypes, Journal, Live
  <2>2. "send" \in Steps
    BY DEF Steps
  <2> QED BY <1>1, <1>2, <2>1, <2>2 DEF TrackInv, TrackTypes
<1>6. OrdersTrue'
  <2> SUFFICES ASSUME NEW i \in Ids PROVE OrderTrue(i)'
    BY DEF OrdersTrue
  <2>1. CASE i = m
    BY <1>1, <1>2, <1>3, <1>4, <2>1 DEF OrderTrue, Live
  <2>2. CASE i # m
    BY <1>2, <1>4, <2>2 DEF OrderTrue, TrackInv, OrdersTrue
  <2> QED BY <2>1, <2>2
<1>7. AllActive' = {m}
  BY <1>1, <1>4 DEF AllActive, Live
<1>8. WireTrue'
  BY <1>1, <1>2, <1>4 DEF TrackInv, WireTrue
<1>9. OneAtATime' /\ Covered'
  BY <1>1, <1>3, <1>4, <1>7 DEF OneAtATime, Covered
<1>10. StepTrue'
  BY <1>1, <1>2, <1>7 DEF StepTrue
<1>11. ToldTrue'
  BY <1>2 DEF TrackInv, ToldTrue
<1>12. InBooks' = InBooks
  <2> DEFINE f == [i \in Ids |-> orders[i].filled]
             g == [i \in Ids |-> orders'[i].filled]
  <2>1. f = g
    <3>1. \A i \in Ids : orders'[i].filled = orders[i].filled
      BY <1>1, <1>4 DEF Unused
    <3> QED BY <3>1
  <2>2. m \notin Buys /\ m \notin Sells
    BY <1>1 DEF Buys, Sells, Unused
  <2>3. IF role = "entry" THEN Buys' = Buys \union {m} /\ Sells' = Sells ELSE Buys' = Buys /\ Sells' = Sells \union {m}
    BY <1>1, <1>4, <2>2 DEF Buys, Sells
  <2>4. \A S \in SUBSET Ids : m \notin S => SumFunctionOnSet(f, S \union {m}) = SumFunctionOnSet(f, S)
    <3> SUFFICES ASSUME NEW S \in SUBSET Ids, m \notin S
                 PROVE  SumFunctionOnSet(f, S \union {m}) = SumFunctionOnSet(f, S)
      OBVIOUS
    <3> DEFINE T == S \union {m}
    <3>1. IsFiniteSet(T) /\ m \in T /\ T \ {m} = S /\ f[m] = 0 /\ \A x \in T : f[x] \in Int
      BY <1>1, OrderFields, TrackNumbers DEF Unused, TrackInv
    <3>2. SumFunctionOnSet(f, S) \in Int
      BY FilledIsInt DEF Filled, TrackInv
    <3> HIDE DEF T, f
    <3>3. SumFunctionOnSet(f, T) = f[m] + SumFunctionOnSet(f, T \ {m})
      BY <3>1, SumTake
    <3>4. SumFunctionOnSet(f, T) = 0 + SumFunctionOnSet(f, S)
      BY <3>1, <3>3
    <3>5. SumFunctionOnSet(f, T) = SumFunctionOnSet(f, S)
      BY <3>2, <3>4
    <3> QED BY <3>5 DEF T
  <2>5. Buys \in SUBSET Ids /\ Sells \in SUBSET Ids
    BY DEF Buys, Sells
  <2>6. Filled(Buys)' = SumFunctionOnSet(g, Buys') /\ Filled(Sells)' = SumFunctionOnSet(g, Sells')
    BY DEF Filled
  <2>7. SumFunctionOnSet(f, Buys') = SumFunctionOnSet(f, Buys) /\ SumFunctionOnSet(f, Sells') = SumFunctionOnSet(f, Sells)
    <3> HIDE DEF f, g
    <3> QED BY <2>2, <2>3, <2>4, <2>5
  <2> HIDE DEF f, g
  <2>8. Filled(Buys) = SumFunctionOnSet(f, Buys) /\ Filled(Sells) = SumFunctionOnSet(f, Sells)
    BY DEF Filled, f
  <2> QED BY <2>1, <2>6, <2>7, <2>8 DEF InBooks
<1>13. BooksTrue'
  BY <1>2, <1>12 DEF TrackInv, BooksTrue
<1> QED BY <1>5, <1>6, <1>8, <1>9, <1>10, <1>11, <1>13 DEF TrackInv

\* What the exchange said, taken over: of no order, or of the one that works.
LEMMA AppliesOne ==
  ASSUME TrackInv, NEW R \in SUBSET AllActive, Apply(R), UNCHANGED venue
  PROVE  /\ campaign'.on = campaign.on
         /\ \/ UNCHANGED orders /\ campaign'.qty = campaign.qty /\ campaign' \in Campaigns
            \/ \E a \in AllActive :
                 /\ AllActive = {a} /\ venue[a].st # "none"
                 /\ orders' = [orders EXCEPT ![a] = [@ EXCEPT !.st = IF venue[a].st = "live" THEN "LIVE" ELSE "CLOSED",
                                                              !.filled = venue[a].filled]]
                 /\ campaign'.qty = IF orders[a].role = "entry" THEN campaign.qty + (venue[a].filled - orders[a].filled)
                                    ELSE campaign.qty - (venue[a].filled - orders[a].filled)
                 /\ campaign'.seen \in BOOLEAN /\ campaign'.exit \in {"none", "exit", "profit"}
                 /\ campaign' = [campaign EXCEPT !.qty = campaign'.qty, !.seen = campaign'.seen, !.exit = campaign'.exit]
<1> DEFINE F == [i \in Ids |-> Fill(i)]
           read == Accepted(R)
<1>1. /\ orders' = [i \in Ids |-> IF i \in read THEN [orders[i] EXCEPT !.st = StatusAfter(i), !.filled = venue'[i].filled]
                                  ELSE orders[i]]
      /\ campaign' = [campaign EXCEPT
                       !.qty = @ + Fills(read \intersect Buys) - Fills(read \intersect Sells),
                       !.seen = @ \/ Fills(read \intersect Buys) > 0,
                       !.exit = IF \E i \in read : orders[i].role = "protect" /\ Fill(i) > 0
                                THEN "exit" ELSE @]
  BY DEF Apply
<1>2. campaign \in Campaigns /\ campaign.qty \in Nat /\ orders \in [Ids -> Journal]
  BY DEF TrackInv, TrackTypes, Campaigns
<1>3. /\ campaign'.qty = campaign.qty + Fills(read \intersect Buys) - Fills(read \intersect Sells)
      /\ campaign'.on = campaign.on
      /\ campaign'.seen = (campaign.seen \/ Fills(read \intersect Buys) > 0)
      /\ campaign'.exit = IF \E i \in read : orders[i].role = "protect" /\ Fill(i) > 0 THEN "exit" ELSE campaign.exit
      /\ campaign' = [campaign EXCEPT !.qty = campaign'.qty, !.seen = campaign'.seen, !.exit = campaign'.exit]
  <2> HIDE DEF read
  <2> QED BY <1>1, <1>2 DEF Campaigns
<1>4. campaign'.seen \in BOOLEAN /\ campaign'.exit \in {"none", "exit", "profit"}
  <2>1. campaign.exit \in {"none", "exit", "profit"} /\ campaign.seen \in BOOLEAN
    BY <1>2 DEF Campaigns
  <2> HIDE DEF read
  <2> QED BY <1>3, <2>1
<1>5. read \in SUBSET AllActive /\ \A i \in read : venue[i].st # "none" /\ i \in Ids
  BY DEF Accepted, AllActive
<1>6. Fills({}) = 0
  <2> HIDE DEF F
  <2>1. SumFunctionOnSet(F, {}) = 0
    BY SumOfEmpty
  <2> QED BY <2>1 DEF Fills, F
<1>7. CASE read = {}
  <2>1. orders' = orders
    BY <1>1, <1>2, <1>7
  <2>2. read \intersect Buys = {} /\ read \intersect Sells = {}
    BY <1>7
  <2>3. campaign'.qty = campaign.qty
    <3>1. campaign'.qty = campaign.qty + 0 - 0
      BY <1>3, <1>6, <2>2
    <3> QED BY <1>2, <3>1
  <2>4. campaign' \in Campaigns
    <3> HIDE DEF read
    <3> QED BY <1>2, <1>3, <1>4, <2>3 DEF Campaigns
  <2> QED BY <1>3, <2>1, <2>3, <2>4
<1>8. CASE read # {}
  <2>1. PICK a \in read : TRUE
    BY <1>8
  <2>2. a \in AllActive /\ a \in Ids /\ venue[a].st # "none"
    BY <1>5
  <2>3. AllActive = {a} /\ read = {a}
    BY <1>5, <2>1, <2>2 DEF TrackInv, OneAtATime
  <2>4. orders' = [orders EXCEPT ![a] = [@ EXCEPT !.st = IF venue[a].st = "live" THEN "LIVE" ELSE "CLOSED",
                                                  !.filled = venue[a].filled]]
    <3> HIDE DEF read
    <3> QED BY <1>1, <1>2, <2>2, <2>3 DEF StatusAfter
  <2>5. Fills({a}) = venue[a].filled - orders[a].filled /\ Fills({a}) \in Int
    <3>1. F[a] = venue[a].filled - orders[a].filled /\ F[a] \in Int
      <4>1. F[a] = venue[a].filled - orders[a].filled
        BY <2>2 DEF Fill
      <4>2. venue[a].filled \in Nat /\ orders[a].filled \in Nat
        BY <2>2, OrderFields DEF TrackInv
      <4> HIDE DEF F
      <4> QED BY <4>1, <4>2
    <3>2. IsFiniteSet({a}) /\ a \in {a} /\ {a} \ {a} = {} /\ \A x \in {a} \ {a} : F[x] = 0
      BY <2>2, TrackNumbers
    <3>3. \A x \in {a} : F[x] \in Int
      BY <3>1
    <3> HIDE DEF F
    <3>4. SumFunctionOnSet(F, {a}) = F[a]
      BY <3>2, <3>3, SumOfOne
    <3> QED BY <3>1, <3>4 DEF Fills, F
  <2>6. campaign'.qty = IF orders[a].role = "entry" THEN campaign.qty + (venue[a].filled - orders[a].filled)
                        ELSE campaign.qty - (venue[a].filled - orders[a].filled)
    <3>1. orders[a].role \in {"entry", "protect", "exit"}
      BY <2>2, ActiveRoles DEF TrackInv
    <3>2. CASE orders[a].role = "entry"
      <4>1. read \intersect Buys = {a} /\ read \intersect Sells = {}
        BY <2>2, <2>3, <3>2 DEF Buys, Sells
      <4>2. campaign'.qty = campaign.qty + Fills({a}) - Fills({})
        BY <1>3, <4>1
      <4> QED BY <1>2, <1>6, <2>5, <3>2, <4>2
    <3>3. CASE orders[a].role # "entry"
      <4>1. read \intersect Buys = {} /\ read \intersect Sells = {a}
        BY <2>2, <2>3, <3>1, <3>3 DEF Buys, Sells
      <4>2. campaign'.qty = campaign.qty + Fills({}) - Fills({a})
        BY <1>3, <4>1
      <4> QED BY <1>2, <1>6, <2>5, <3>3, <4>2
    <3> QED BY <3>2, <3>3
  <2> HIDE DEF read
  <2> QED BY <1>3, <1>4, <2>2, <2>3, <2>4, <2>6
<1> QED BY <1>7, <1>8

\* What the books have booked, when one order's filled quantity is brought up to date.
LEMMA BookedMoves ==
  ASSUME TrackTypes, TrackTypes', NEW a \in Ids, orders[a].role \in {"entry", "protect", "exit"},
         \A i \in Ids : orders'[i].role = orders[i].role /\ (i # a => orders'[i].filled = orders[i].filled)
  PROVE  InBooks' = IF orders[a].role = "entry" THEN InBooks + (orders'[a].filled - orders[a].filled)
                   ELSE InBooks - (orders'[a].filled - orders[a].filled)
<1> DEFINE f == [i \in Ids |-> orders[i].filled]
           g == [i \in Ids |-> orders'[i].filled]
<1>1. Buys' = Buys /\ Sells' = Sells /\ Buys \in SUBSET Ids /\ Sells \in SUBSET Ids
  BY DEF Buys, Sells
<1>2. \A i \in Ids : f[i] \in Int /\ g[i] \in Int /\ (i # a => g[i] = f[i])
  <2>1. \A i \in Ids : orders[i].filled \in Nat /\ orders'[i].filled \in Nat
    BY OrderFields DEF TrackTypes, Journal
  <2> QED BY <2>1
<1>3. g[a] - f[a] = orders'[a].filled - orders[a].filled
  OBVIOUS
<1>4. /\ Filled(Buys) = SumFunctionOnSet(f, Buys) /\ Filled(Sells) = SumFunctionOnSet(f, Sells)
      /\ Filled(Buys)' = SumFunctionOnSet(g, Buys) /\ Filled(Sells)' = SumFunctionOnSet(g, Sells)
  BY <1>1 DEF Filled
<1>5. Filled(Buys) \in Int /\ Filled(Sells) \in Int
  BY <1>1, FilledIsInt
<1> HIDE DEF f, g
<1>6. \A S \in SUBSET Ids : SumFunctionOnSet(g, S) = IF a \in S THEN SumFunctionOnSet(f, S) + (g[a] - f[a]) ELSE SumFunctionOnSet(f, S)
  <2> SUFFICES ASSUME NEW S \in SUBSET Ids
               PROVE  SumFunctionOnSet(g, S) = IF a \in S THEN SumFunctionOnSet(f, S) + (g[a] - f[a]) ELSE SumFunctionOnSet(f, S)
    OBVIOUS
  <2>1. IsFiniteSet(S)
    BY TrackNumbers
  <2>2. CASE a \in S
    <3>1. \A x \in S : f[x] \in Int /\ g[x] \in Int
      BY <1>2
    <3>2. \A x \in S \ {a} : g[x] = f[x]
      BY <1>2
    <3>3. SumFunctionOnSet(g, S) = SumFunctionOnSet(f, S) - f[a] + g[a]
      BY <2>1, <2>2, <3>1, <3>2, SumChange
    <3>4. SumFunctionOnSet(f, S) \in Int /\ f[a] \in Int /\ g[a] \in Int
      BY <1>2, <2>1, <3>1, SumIsInt
    <3> QED BY <2>2, <3>3, <3>4
  <2>3. CASE a \notin S
    <3>1. \A x \in S : f[x] = g[x]
      BY <1>2, <2>3
    <3>2. SumFunctionOnSet(f, S) = SumFunctionOnSet(g, S)
      BY <2>1, <3>1, SumCongruent
    <3> QED BY <2>3, <3>2
  <2> QED BY <2>2, <2>3
<1>7. (a \in Buys <=> orders[a].role = "entry") /\ (a \in Sells <=> orders[a].role # "entry")
  BY DEF Buys, Sells
<1>8. g[a] \in Int /\ f[a] \in Int
  BY <1>2
<1>9. InBooks' = Filled(Buys)' - Filled(Sells)' /\ InBooks = Filled(Buys) - Filled(Sells)
  BY DEF InBooks
<1>10. CASE orders[a].role = "entry"
  <2>1. Filled(Buys)' = Filled(Buys) + (g[a] - f[a]) /\ Filled(Sells)' = Filled(Sells)
    BY <1>1, <1>4, <1>6, <1>7, <1>10
  <2> QED BY <1>3, <1>5, <1>8, <1>9, <1>10, <2>1
<1>11. CASE orders[a].role # "entry"
  <2>1. Filled(Sells)' = Filled(Sells) + (g[a] - f[a]) /\ Filled(Buys)' = Filled(Buys)
    BY <1>1, <1>4, <1>6, <1>7, <1>11
  <2> QED BY <1>3, <1>5, <1>8, <1>9, <1>11, <2>1
<1> QED BY <1>10, <1>11

\* Reconciling and cancelling keep the invariant: what an order fills, the campaign has or lacks.
LEMMA ApplyKeeps ==
  ASSUME TrackInv, NEW R \in SUBSET AllActive, Apply(R), process # "down", campaign.on,
         UNCHANGED <<wire, venue, residual, torn, process, quote, sending, told>>,
         halt' \in {"none", "daily", "other"}, step # "closing",
         step' \in {"decide", "idle", "dust_end", "rest", "flat_end", "exit_ready", "recovery_cancel", "recovery_look"},
         step' = "flat_end" => step = "flat_cancel"
  PROVE  TrackInv'
<1>1. /\ campaign \in Campaigns /\ campaign.qty \in Nat /\ orders \in [Ids -> Journal] /\ EntryQty \in Nat
      /\ step' \in Steps
  BY TrackNumbers DEF TrackInv, TrackTypes, Campaigns, Steps
<1>2. campaign'.on /\ ~told
  BY AppliesOne DEF TrackInv, ToldTrue
<1>3. ToldTrue'
  BY <1>2 DEF ToldTrue
<1>4. CASE UNCHANGED orders /\ campaign'.qty = campaign.qty /\ campaign' \in Campaigns
  <2>1. TrackTypes'
    BY <1>1, <1>4 DEF TrackInv, TrackTypes
  <2>2. StepTrue'
    BY <1>2, <1>4 DEF TrackInv, StepTrue, AllActive, Active
  <2>3. step' # "closing"
    OBVIOUS
  <2> QED BY <1>3, <1>4, <2>1, <2>2, <2>3, QuietKeeps
<1>5. ASSUME NEW a \in AllActive,
             AllActive = {a}, venue[a].st # "none",
             orders' = [orders EXCEPT ![a] = [@ EXCEPT !.st = IF venue[a].st = "live" THEN "LIVE" ELSE "CLOSED",
                                                       !.filled = venue[a].filled]],
             campaign'.qty = IF orders[a].role = "entry" THEN campaign.qty + (venue[a].filled - orders[a].filled)
                             ELSE campaign.qty - (venue[a].filled - orders[a].filled),
             campaign'.seen \in BOOLEAN, campaign'.exit \in {"none", "exit", "profit"},
             campaign' = [campaign EXCEPT !.qty = campaign'.qty, !.seen = campaign'.seen, !.exit = campaign'.exit]
      PROVE  TrackInv'
  <2> USE <1>5
  <2>1. /\ a \in Ids /\ orders[a].st \in Live /\ orders[a].role \in {"entry", "protect", "exit"}
        /\ orders[a] \in Journal /\ orders[a].filled \in Nat /\ orders[a].qty \in Nat /\ venue[a].filled \in Nat
        /\ OrderTrue(a)
    BY OrderFields, ActiveRoles DEF TrackInv, OrdersTrue
  <2> DEFINE st == IF venue[a].st = "live" THEN "LIVE" ELSE "CLOSED"
             d == venue[a].filled - orders[a].filled
  <2>2. \A i \in Ids : orders'[i] = IF i = a THEN [orders[a] EXCEPT !.st = st, !.filled = venue[a].filled] ELSE orders[i]
    BY <1>1, <2>1
  <2>3. /\ orders'[a].role = orders[a].role /\ orders'[a].qty = orders[a].qty /\ orders'[a].st = st
        /\ orders'[a].filled = venue[a].filled
    <3> HIDE DEF st
    <3>1. orders'[a] = [orders[a] EXCEPT !.st = st, !.filled = venue[a].filled]
      BY <2>1, <2>2, Zenon
    <3>2. \A o \in Journal : \A s, v : LET n == [o EXCEPT !.st = s, !.filled = v]
                                   IN n.role = o.role /\ n.qty = o.qty /\ n.st = s /\ n.filled = v
      BY DEF Journal
    <3> DEFINE o == orders[a]
               p == orders'[a]
               v == venue[a].filled
    <3>3. o \in Journal /\ p = [o EXCEPT !.st = st, !.filled = v]
      BY <2>1, <3>1
    <3> HIDE DEF o, p, v
    <3>4. p.role = o.role /\ p.qty = o.qty /\ p.st = st /\ p.filled = v
      BY <3>2, <3>3
    <3> QED BY <3>4 DEF o, p, v
  <2>4. orders[a].filled <= venue[a].filled /\ venue[a].filled <= orders[a].qty /\ orders[a].qty <= EntryQty
    BY <2>1 DEF OrderTrue
  <2>5. d \in Nat
    BY <2>1, <2>4
  <2>6. campaign'.qty \in Nat /\ campaign'.qty <= EntryQty
    <3>1. CASE orders[a].role = "entry"
      <4>1. orders[a].qty = EntryQty /\ orders[a].filled = campaign.qty
        BY <3>1 DEF TrackInv, Covered
      <4> QED BY <1>1, <2>1, <2>4, <3>1, <4>1
    <3>2. CASE orders[a].role # "entry"
      <4>1. orders[a].qty - orders[a].filled = campaign.qty /\ campaign.qty <= EntryQty
        BY <3>2 DEF TrackInv, Covered
      <4> QED BY <1>1, <2>1, <2>4, <3>2, <4>1
    <3> QED BY <3>1, <3>2
  <2>7. TrackTypes'
    <3>1. campaign' \in Campaigns
      BY <1>1, <2>6 DEF Campaigns
    <3>2. [orders[a] EXCEPT !.st = st, !.filled = venue[a].filled] \in Journal
      <4>1. st \in Live \union {"none", "CLOSED", "REJECTED", "gone"}
        BY DEF Live
      <4> HIDE DEF st
      <4> QED BY <2>1, <4>1 DEF Journal
    <3>3. orders' \in [Ids -> Journal]
      <4> HIDE DEF st
      <4> QED BY <1>1, <2>1, <2>2, <3>2
    <3> QED BY <1>1, <3>1, <3>3 DEF TrackInv, TrackTypes
  <2>8. OrdersTrue'
    <3> SUFFICES ASSUME NEW i \in Ids PROVE OrderTrue(i)'
      BY DEF OrdersTrue
    <3>1. CASE i = a
      <4>1. st \in {"LIVE", "CLOSED"} /\ (venue[a].st = "live" <=> st = "LIVE")
        OBVIOUS
      <4> HIDE DEF st
      <4> QED BY <2>1, <2>3, <2>4, <3>1, <4>1 DEF OrderTrue, Live
    <3>2. CASE i # a
      BY <2>2, <3>2 DEF TrackInv, OrdersTrue, OrderTrue
    <3> QED BY <3>1, <3>2
  <2>9. AllActive' \in SUBSET {a} /\ \A i \in AllActive' : i = a /\ i \in Ids
    <3>1. \A i \in Ids : i # a => orders[i].st \notin Live
      BY DEF AllActive
    <3> QED BY <2>1, <2>2, <3>1 DEF AllActive
  <2>10. WireTrue'
    <3>1. a \notin wire
      BY DEF TrackInv, WireTrue
    <3> QED BY <2>2, <3>1 DEF TrackInv, WireTrue, TrackTypes
  <2>11. OneAtATime'
    BY <2>9 DEF OneAtATime
  <2>12. Covered'
    <3>1. CASE orders[a].role = "entry"
      <4>1. orders[a].qty = EntryQty /\ orders[a].filled = campaign.qty
        BY <3>1 DEF TrackInv, Covered
      <4>2. orders'[a].filled = campaign'.qty
        BY <1>1, <2>1, <2>3, <3>1, <4>1
      <4> QED BY <2>3, <2>6, <2>9, <3>1, <4>1, <4>2 DEF Covered
    <3>2. CASE orders[a].role # "entry"
      <4>1. orders[a].qty - orders[a].filled = campaign.qty
        BY <3>2 DEF TrackInv, Covered
      <4>2. orders'[a].qty - orders'[a].filled = campaign'.qty
        BY <1>1, <2>1, <2>3, <3>2, <4>1
      <4> QED BY <2>3, <2>6, <2>9, <3>2, <4>2 DEF Covered
    <3> QED BY <3>1, <3>2
  <2>13. StepTrue'
    <3>1. CASE step' = "flat_end"
      <4>1. campaign.qty = 0 /\ orders[a].role # "entry"
        BY <2>1, <3>1 DEF TrackInv, StepTrue, Active
      <4>2. orders[a].qty - orders[a].filled = campaign.qty
        BY <4>1 DEF TrackInv, Covered
      <4>3. campaign'.qty = 0
        BY <1>1, <2>1, <2>4, <2>6, <4>1, <4>2
      <4>4. Active("entry")' = {}
        BY <2>3, <2>9, <4>1 DEF Active, AllActive
      <4> QED BY <1>2, <3>1, <4>3, <4>4 DEF StepTrue
    <3>2. CASE step' # "flat_end"
      BY <1>2, <3>2 DEF StepTrue
    <3> QED BY <3>1, <3>2
  <2>14. BooksTrue'
    <3>1. InBooks' = IF orders[a].role = "entry" THEN InBooks + (orders'[a].filled - orders[a].filled)
                    ELSE InBooks - (orders'[a].filled - orders[a].filled)
      <4>1. \A i \in Ids : orders'[i].role = orders[i].role /\ (i # a => orders'[i].filled = orders[i].filled)
        BY <2>2, <2>3
      <4>2. TrackTypes
        BY DEF TrackInv
      <4> QED BY <2>1, <2>7, <4>1, <4>2, BookedMoves
    <3>2. InBooks \in Int /\ residual \in Nat
      <4>1. Filled(Buys) \in Int /\ Filled(Sells) \in Int
        BY FilledIsInt DEF TrackInv, Buys, Sells
      <4> QED BY <4>1 DEF InBooks, TrackInv, TrackTypes
    <3>3. campaign.qty + residual >= InBooks /\ (torn \/ campaign.qty + residual = InBooks)
      BY DEF TrackInv, BooksTrue
    <3>4. campaign'.qty + residual >= InBooks' /\ (torn \/ campaign'.qty + residual = InBooks')
      <4>1. CASE orders[a].role = "entry"
        <5>1. InBooks' = InBooks + d /\ campaign'.qty = campaign.qty + d
          BY <2>3, <3>1, <4>1
        <5> HIDE DEF d
        <5> QED BY <1>1, <2>5, <3>2, <3>3, <5>1
      <4>2. CASE orders[a].role # "entry"
        <5>1. InBooks' = InBooks - d /\ campaign'.qty = campaign.qty - d
          BY <2>3, <3>1, <4>2
        <5> HIDE DEF d
        <5> QED BY <1>1, <2>5, <3>2, <3>3, <5>1
      <4> QED BY <4>1, <4>2
    <3> QED BY <3>4 DEF BooksTrue
  <2> QED BY <1>3, <2>7, <2>8, <2>10, <2>11, <2>12, <2>13, <2>14 DEF TrackInv
<1> QED BY <1>4, <1>5, AppliesOne

\* The calls that read orders, cancel them and book what they report.
LEMMA ReadingKeeps ==
  ASSUME TrackInv,
         \/ DriveReconciles \/ RefreshAccount \/ DustCancels \/ EntryCancels \/ FlatCancels \/ ExitCancels
         \/ RecoveryReconciles \/ RecoveryCancels
  PROVE  TrackInv'
<1>1. process # "down" /\ campaign.on /\ step # "closing" /\ halt \in {"none", "daily", "other"}
  BY DEF At, DriveReconciles, RefreshAccount, DustCancels, EntryCancels, FlatCancels, ExitCancels, RecoveryReconciles,
         RecoveryCancels, TrackInv, StepTrue, TrackTypes
<1>2. CASE DriveReconciles \/ RefreshAccount \/ RecoveryReconciles
  <2>1. PICK R \in SUBSET AllActive : Reconcile(R)
    BY <1>2 DEF DriveReconciles, RefreshAccount, RecoveryReconciles
  <2>2. /\ Apply(R) /\ UNCHANGED <<wire, venue, residual, torn, process, quote, sending, told>>
        /\ halt' \in {"none", "daily", "other"}
    <3>1. halt' \in {halt, "other"}
      BY <2>1 DEF Reconcile
    <3>2. Apply(R) /\ UNCHANGED <<wire, venue, residual, torn, process, quote, sending, told>>
      BY <2>1 DEF Reconcile, World
    <3> QED BY <1>1, <3>1, <3>2
  <2>3. step' \in {"decide", "idle", "recovery_cancel"}
    BY <1>2 DEF DriveReconciles, RefreshAccount, RecoveryReconciles, At
  <2> QED BY <1>1, <2>2, <2>3, ApplyKeeps
<1>3. CASE DustCancels \/ EntryCancels \/ FlatCancels \/ ExitCancels \/ RecoveryCancels
  <2>1. PICK S, next : /\ CancelAll(S, next) /\ S \subseteq AllActive
                       /\ next \in {"dust_end", "rest", "flat_end", "exit_ready", "recovery_look"}
                       /\ next = "flat_end" => step = "flat_cancel"
    <3>1. Active("entry") \subseteq AllActive /\ Active("protect") \subseteq AllActive
      BY DEF Active, AllActive
    <3>2. CASE DustCancels
      BY <3>2 DEF DustCancels
    <3>3. CASE EntryCancels
      BY <3>1, <3>3 DEF EntryCancels
    <3>4. CASE FlatCancels
      BY <3>4 DEF FlatCancels, At
    <3>5. CASE ExitCancels
      BY <3>1, <3>5 DEF ExitCancels
    <3>6. CASE RecoveryCancels
      BY <3>1, <3>6 DEF RecoveryCancels
    <3> QED BY <1>3, <3>2, <3>3, <3>4, <3>5, <3>6
  <2>2. PICK R \in SUBSET S : Apply(R)
    BY <2>1 DEF CancelAll
  <2>3. R \in SUBSET AllActive
    BY <2>1
  <2>4. UNCHANGED <<wire, venue, residual, torn, process, quote, sending, told, halt>> /\ step' = next
    BY <2>1 DEF CancelAll, World
  <2> QED BY <1>1, <2>1, <2>2, <2>3, <2>4, ApplyKeeps
<1> QED BY <1>2, <1>3

\* Selling what is held, when nothing works: the live book may find it cannot.
LEMMA SellKeeps ==
  ASSUME TrackInv, NEW role \in {"protect", "exit"}, Sell(role), process # "down", campaign.on, AllActive = {},
         step # "closing"
  PROVE  TrackInv'
<1>1. campaign \in Campaigns /\ halt \in {"none", "daily", "other"} /\ quote \in [bid : Nat, fresh : BOOLEAN]
  BY DEF TrackInv, TrackTypes
<1>2. CASE Carry
  BY <1>2, CarryKeeps
<1>3. CASE /\ campaign' = WithExit(campaign, "exit") /\ Returns /\ UNCHANGED <<orders, residual, halt>>
  <2>1. campaign' \in Campaigns /\ campaign'.qty = campaign.qty /\ campaign'.on
    BY <1>1, <1>3, ExitOnly
  <2>2. /\ UNCHANGED <<process, told, orders, residual, sending, wire, venue, torn, quote, halt>>
        /\ step' = "idle" /\ "idle" \in Steps \ {"send", "answer"}
    BY <1>3 DEF Returns, Goes, Steps
  <2> QED BY <1>1, <2>1, <2>2, DriveKeeps
<1>4. CASE Intend(role, campaign.qty) /\ UNCHANGED campaign
  BY <1>4, IntendKeeps
<1> QED BY <1>2, <1>3, <1>4 DEF Sell

\* The steps that write an order down, send it and take the exchange's answer.
LEMMA SubmitsKeep ==
  ASSUME TrackInv,
         \/ EntryIntended \/ EntryExpires \/ EntryExpired \/ DustEnds \/ Protect \/ Protects \/ ExitSells
         \/ Sends \/ AnswerOk \/ AnswerRefused \/ AnswerLost
  PROVE  TrackInv'
<1> USE DEF At
<1>1. /\ TrackTypes /\ OrdersTrue /\ WireTrue /\ OneAtATime /\ Covered /\ StepTrue /\ ToldTrue
      /\ campaign \in Campaigns /\ halt \in {"none", "daily", "other"} /\ quote \in [bid : Nat, fresh : BOOLEAN]
  BY DEF TrackInv, TrackTypes
<1>2. process # "down" /\ ~told /\ (step # "idle" => campaign.on)
  BY <1>1 DEF EntryIntended, EntryExpires, EntryExpired, DustEnds, Protect, Protects, ExitSells, Sends, AnswerOk,
              AnswerRefused, AnswerLost, Answer, Holding, Rest, StepTrue, ToldTrue
<1>3. CASE EntryIntended
  <2>1. Intend("entry", EntryQty) /\ UNCHANGED campaign /\ AllActive = {} /\ campaign.qty = 0 /\ step = "entering"
    BY <1>1, <1>3 DEF EntryIntended, StepTrue
  <2> QED BY <1>2, <2>1, IntendKeeps
<1>4. CASE EntryExpired
  <2>1. Carry /\ AllActive = {} /\ step = "expired"
    BY <1>1, <1>4 DEF EntryExpired, StepTrue
  <2> QED BY <1>2, <2>1, CarryKeeps
<1>5. CASE DustEnds
  <2>1. CASE AllActive = {} /\ Carry
    BY <1>2, <1>5, <2>1, CarryKeeps DEF DustEnds
  <2>2. CASE ReturnsUnchanged
    <3>1. /\ UNCHANGED <<process, told, orders, residual, sending, wire, venue, torn, quote, halt, campaign>>
          /\ step' = "idle" /\ "idle" \in Steps \ {"send", "answer"} /\ step = "dust_end"
      BY <1>5, <2>2 DEF Returns, ReturnsUnchanged, Goes, Steps, Own, DustEnds
    <3> QED BY <1>1, <1>2, <3>1, DriveKeeps
  <2> QED BY <1>5, <2>1, <2>2 DEF DustEnds
<1>6. CASE Protect
  <2>1. step = "rest" /\ Active("entry") = {}
    BY <1>6 DEF Protect, Holding, Rest
  <2>2. CASE Active("protect") \union Active("exit") = {} /\ Sell("protect")
    <3>1. AllActive = {}
      BY <1>1, <2>1, <2>2, ActiveRoles
    <3> QED BY <1>2, <2>1, <2>2, <3>1, SellKeeps
  <2>3. CASE ReturnsUnchanged
    <3>1. /\ UNCHANGED <<process, told, orders, residual, sending, wire, venue, torn, quote, halt, campaign>>
          /\ step' = "idle" /\ "idle" \in Steps \ {"send", "answer"}
      BY <2>3 DEF Returns, ReturnsUnchanged, Goes, Steps, Own
    <3> QED BY <1>1, <1>2, <2>1, <3>1, DriveKeeps
  <2> QED BY <1>6, <2>2, <2>3 DEF Protect, Holding, Rest
<1>7. CASE Protects
  <2>1. step = "protect" /\ AllActive = {} /\ Sell("protect")
    BY <1>1, <1>7 DEF Protects, StepTrue
  <2> QED BY <1>2, <2>1, SellKeeps
<1>8. CASE ExitSells
  <2>1. step = "balances" /\ AllActive = {} /\ Sell("exit")
    BY <1>1, <1>8 DEF ExitSells, StepTrue
  <2> QED BY <1>2, <2>1, SellKeeps
<1>9. CASE Sends
  <2>1. /\ wire' = wire \union {sending} /\ step' = "answer" /\ step = "send"
        /\ UNCHANGED <<campaign, orders, residual, halt, process, quote, sending, venue, told, torn>>
        /\ sending \in AllActive /\ venue[sending].st = "none" /\ sending \in Ids /\ orders[sending].st \in Live
    BY <1>1, <1>9 DEF Sends, Own, StepTrue, AllActive
  <2>2. TrackTypes'
    <3>1. "answer" \in Steps
      BY DEF Steps
    <3> QED BY <1>1, <2>1, <3>1 DEF TrackTypes
  <2>3. OrdersTrue' /\ WireTrue' /\ OneAtATime' /\ Covered' /\ StepTrue' /\ ToldTrue'
    BY <1>1, <1>2, <2>1 DEF OrdersTrue, OrderTrue, WireTrue, OneAtATime, Covered, StepTrue, ToldTrue, AllActive
  <2>4. BooksTrue'
    BY <2>1 DEF BooksTrue, TrackInv, InBooks, Filled, Buys, Sells
  <2> QED BY <2>2, <2>3, <2>4 DEF TrackInv
<1>10. ASSUME NEW st \in {"SUBMITTED", "UNKNOWN", "REJECTED"}, NEW c \in Campaigns, c.qty = campaign.qty, c.on = campaign.on,
              step \in {"send", "answer"}, step' \in {"idle", "expired"}, step' = "expired" => st = "REJECTED",
              orders' = [orders EXCEPT ![sending].st = st], sending \in AllActive,
              campaign' = c, halt' \in {"none", "daily", "other"}, sending' \in {0, sending}, wire' \in SUBSET wire,
              UNCHANGED <<residual, process, quote, venue, told, torn>>,
              st = "REJECTED" => sending \notin wire' /\ venue[sending].st = "none",
              st = "SUBMITTED" => venue[sending].st # "none"
       PROVE  TrackInv'
  <2> USE <1>10
  <2>1. sending \in Ids /\ orders[sending].st \in Live /\ \A i \in AllActive : i = sending
    BY <1>1 DEF AllActive, OneAtATime
  <2>2. TrackTypes'
    <3>1. orders' \in [Ids -> Journal]
      <4>1. st \in Live \union {"none", "CLOSED", "REJECTED", "gone"} /\ orders \in [Ids -> Journal]
        BY <1>1 DEF Live, TrackTypes
      <4> QED BY <2>1, <4>1 DEF Journal
    <3>2. step' \in Steps
      BY DEF Steps
    <3> QED BY <1>1, <2>1, <3>1, <3>2 DEF TrackTypes
  <2>3. StepTrue'
    <3>1. campaign'.on
      BY <1>2
    <3>2. step' = "expired" => AllActive' = {}
      <4>1. \A i \in Ids : orders'[i].st = IF i = sending THEN st ELSE orders[i].st
        BY <1>1, <2>1 DEF TrackTypes, Journal
      <4>2. \A i \in Ids : i # sending => orders[i].st \notin Live
        BY <2>1 DEF AllActive
      <4> QED BY <4>1, <4>2 DEF AllActive, Live
    <3> QED BY <1>2, <3>1, <3>2 DEF StepTrue
  <2>4. ToldTrue' /\ step # "closing" /\ step' # "closing" /\ campaign'.qty = campaign.qty
    BY <1>2 DEF ToldTrue
  <2> QED BY <2>2, <2>3, <2>4, StatusKeeps
<1>11. CASE EntryExpires
  <2>1. /\ step = "send" /\ step' = "expired" /\ orders' = [orders EXCEPT ![sending].st = "REJECTED"]
        /\ UNCHANGED <<campaign, residual, halt, process, quote, sending, wire, venue, told, torn>>
    BY <1>11 DEF EntryExpires, Goes
  <2>2. sending \in AllActive /\ sending \notin wire /\ venue[sending].st = "none"
    BY <1>1, <2>1 DEF StepTrue
  <2> QED BY <1>1, <1>10, <2>1, <2>2
<1>12. ASSUME step = "answer" PROVE sending \in AllActive
  BY <1>1, <1>12 DEF StepTrue
<1>13. CASE AnswerOk
  <2>1. /\ step = "answer" /\ step' = "idle" /\ orders' = [orders EXCEPT ![sending].st = "SUBMITTED"] /\ sending' = 0
        /\ UNCHANGED <<campaign, residual, halt, process, quote, wire, venue, told, torn>> /\ venue[sending].st # "none"
    BY <1>13 DEF AnswerOk, Answer
  <2> QED BY <1>1, <1>10, <1>12, <2>1
<1>14. CASE AnswerLost
  <2>1. /\ step = "answer" /\ step' = "idle" /\ orders' = [orders EXCEPT ![sending].st = "UNKNOWN"] /\ sending' = 0
        /\ UNCHANGED <<campaign, residual, halt, process, quote, wire, venue, told, torn>>
    BY <1>14 DEF AnswerLost, Answer, Unanswered
  <2> QED BY <1>1, <1>10, <1>12, <2>1
<1>15. CASE AnswerRefused
  <2>1. /\ step = "answer" /\ step' = "idle" /\ orders' = [orders EXCEPT ![sending].st = "REJECTED"] /\ sending' = 0
        /\ UNCHANGED <<residual, process, quote, venue, told, torn>>
        /\ sending \in wire /\ wire' = wire \ {sending}
        /\ campaign' \in {campaign, WithExit(campaign, "exit")} /\ halt' \in {halt, "other"}
    BY <1>15 DEF AnswerRefused, Answer
  <2>2. campaign' \in Campaigns /\ campaign'.qty = campaign.qty /\ campaign'.on = campaign.on
    BY <1>1, <2>1, ExitOnly
  <2>3. venue[sending].st = "none" /\ halt' \in {"none", "daily", "other"} /\ wire' \in SUBSET wire
    BY <1>1, <2>1 DEF WireTrue, TrackTypes
  <2> QED BY <1>10, <1>12, <2>1, <2>2, <2>3
<1> QED BY <1>3, <1>4, <1>5, <1>6, <1>7, <1>8, <1>9, <1>11, <1>13, <1>14, <1>15

\* The campaign ends: what is carried is carried once.
LEMMA FlatSavedKeeps ==
  ASSUME TrackInv, FlatSaved
  PROVE  TrackInv'
<1>1. /\ TrackTypes /\ OrdersTrue /\ WireTrue /\ step = "closing" /\ AllActive = {} /\ process # "down" /\ ~told
      /\ residual >= InBooks /\ (torn \/ residual = InBooks)
  BY DEF TrackInv, FlatSaved, At, StepTrue, BooksTrue, ToldTrue
<1>2. /\ campaign' = NoCampaign /\ step' = "idle"
      /\ orders' = [i \in Ids |-> IF orders[i].st = "none" THEN orders[i] ELSE [orders[i] EXCEPT !.st = "gone"]]
      /\ UNCHANGED <<process, quote, sending, wire, venue, told, torn, residual, halt>>
  BY DEF FlatSaved, Returns, Goes
<1>3. \A i \in Ids : orders[i] \in Journal
  BY <1>1 DEF TrackTypes
<1>4. \A i \in Ids : /\ orders'[i].role = orders[i].role /\ orders'[i].qty = orders[i].qty /\ orders'[i].filled = orders[i].filled
                     /\ orders'[i].st = IF orders[i].st = "none" THEN "none" ELSE "gone"
                     /\ orders[i].st = "none" => orders'[i] = orders[i]
  BY <1>2, <1>3 DEF Journal
<1>5. \A i \in Ids : orders[i].st \notin Live
  BY <1>1 DEF AllActive
<1>6. AllActive' = {}
  BY <1>4 DEF AllActive, Live
<1>7. TrackTypes'
  <2>1. campaign' \in Campaigns /\ step' \in Steps
    BY <1>2 DEF NoCampaign, Campaigns, Steps
  <2>2. orders' \in [Ids -> Journal]
    BY <1>2, <1>3 DEF Journal
  <2> QED BY <1>1, <1>2, <2>1, <2>2 DEF TrackTypes
<1>8. OrdersTrue'
  <2> SUFFICES ASSUME NEW i \in Ids PROVE OrderTrue(i)'
    BY DEF OrdersTrue
  <2>1. OrderTrue(i)
    BY <1>1 DEF OrdersTrue
  <2>2. orders[i].st \notin {"INTENT", "SUBMITTED", "UNKNOWN", "LIVE"}
    BY <1>5 DEF Live
  <2>3. CASE orders[i].st = "none"
    <3>1. orders'[i] = orders[i]
      BY <1>4, <2>3
    <3> QED BY <1>2, <2>1, <3>1 DEF OrderTrue
  <2>4. CASE orders[i].st # "none"
    <3>1. /\ orders'[i].role = orders[i].role /\ orders'[i].qty = orders[i].qty /\ orders'[i].filled = orders[i].filled
          /\ orders'[i].st = "gone" /\ venue'[i] = venue[i]
      BY <1>2, <1>4, <2>4
    <3>2. /\ venue[i].st # "live" /\ orders[i].filled = venue[i].filled /\ orders[i].role # "none"
          /\ venue[i].filled <= orders[i].qty /\ orders[i].qty <= EntryQty /\ (venue[i].st = "none" => venue[i].filled = 0)
          /\ orders[i].filled <= venue[i].filled
      BY <1>5, <2>1, <2>4 DEF OrderTrue
    <3> QED BY <3>1, <3>2 DEF OrderTrue
  <2> QED BY <2>3, <2>4
<1>9. WireTrue'
  BY <1>1, <1>2, <1>5 DEF WireTrue, TrackTypes
<1>10. OneAtATime' /\ Covered' /\ StepTrue' /\ ToldTrue'
  <2>1. 0 <= EntryQty
    BY TrackNumbers
  <2> QED BY <1>1, <1>2, <1>6, <2>1 DEF OneAtATime, Covered, StepTrue, ToldTrue, NoCampaign
<1>11. BooksTrue'
  <2>1. InBooks' = InBooks
    <3>1. Buys' = Buys /\ Sells' = Sells /\ [i \in Ids |-> orders'[i].filled] = [i \in Ids |-> orders[i].filled]
      BY <1>4 DEF Buys, Sells
    <3> QED BY <3>1 DEF InBooks, Filled
  <2>2. campaign'.qty = 0 /\ residual \in Nat /\ 0 + residual = residual
    BY <1>1, <1>2 DEF NoCampaign, TrackTypes
  <2> QED BY <1>1, <1>2, <2>1, <2>2 DEF BooksTrue
<1> QED BY <1>7, <1>8, <1>9, <1>10, <1>11 DEF TrackInv

\* The decisions of the recovery process and its end.
LEMMA RecoveryKeeps ==
  ASSUME TrackInv,
         \/ RecoveryWaits \/ RecoveryFlat \/ RecoveryProtected \/ RecoveryUntradeable \/ RecoveryUnprotected
         \/ RecoverySells \/ RecoveryProtects \/ RecoveryEnds
  PROVE  TrackInv'
<1> USE DEF At
<1>1. /\ TrackTypes /\ OrdersTrue /\ WireTrue /\ OneAtATime /\ Covered /\ StepTrue /\ ToldTrue
      /\ campaign \in Campaigns /\ halt \in {"none", "daily", "other"} /\ quote \in [bid : Nat, fresh : BOOLEAN]
  BY DEF TrackInv, TrackTypes
<1>2. process # "down" /\ ~told /\ (step # "idle" => campaign.on)
  BY <1>1 DEF RecoveryWaits, RecoveryFlat, RecoveryProtected, RecoveryUntradeable, RecoveryUnprotected, RecoverySells,
              RecoveryProtects, RecoveryEnds, Looks, StepTrue, ToldTrue
<1>3. CASE RecoveryWaits \/ RecoveryUntradeable \/ RecoveryUnprotected
  <2>1. /\ UNCHANGED <<process, told, orders, residual, sending, wire, venue, torn, quote, campaign>>
        /\ step = "recovery_look" /\ halt' \in {halt, "other"}
        /\ step' = "idle" \/ (step' = "recovery_balances" /\ Active("entry") \union Active("exit") = {} /\ Active("protect") = {})
    BY <1>3 DEF RecoveryWaits, RecoveryUntradeable, RecoveryUnprotected, Looks, Halts, Returns, ReturnsUnchanged, Goes, Own
  <2>2. step' \in Steps \ {"send", "answer"} /\ halt' \in {"none", "daily", "other"}
    BY <1>1, <2>1 DEF Steps
  <2>3. step' = "recovery_balances" => AllActive = {}
    BY <1>1, <2>1, ActiveRoles
  <2> QED BY <1>1, <1>2, <2>1, <2>2, <2>3, DriveKeeps
<1>4. CASE RecoveryFlat \/ RecoverySells
  <2>1. PICK q : DrivesAt(q) /\ q \in {NoQuote} \union {[bid |-> b, fresh |-> TRUE] : b \in Bids}
    BY <1>4 DEF RecoveryFlat, RecoverySells, Looks
  <2>2. q \in [bid : Nat, fresh : BOOLEAN]
    <3>1. \A b \in Bids : b \in Nat
      BY TrackCAssumption
    <3>2. CASE q = NoQuote
      BY <3>2 DEF NoQuote
    <3>3. CASE q # NoQuote
      <4>1. PICK b \in Bids : q = [bid |-> b, fresh |-> TRUE]
        BY <2>1, <3>3
      <4> QED BY <3>1, <4>1
    <3> QED BY <3>2, <3>3
  <2>3. /\ UNCHANGED <<process, told, orders, residual, sending, wire, venue, torn, halt>>
        /\ quote' = q /\ step' = "reconcile" /\ "reconcile" \in Steps \ {"send", "answer"}
    BY <2>1 DEF DrivesAt, Steps
  <2>4. campaign' = WithExit(campaign, "exit") /\ step \in {"recovery_look", "recovery_balances"}
    BY <1>4 DEF RecoveryFlat, RecoverySells, Looks
  <2>5. campaign' \in Campaigns /\ campaign'.qty = campaign.qty /\ campaign'.on = campaign.on
    BY <1>1, <2>4, ExitOnly
  <2> QED BY <1>1, <1>2, <2>2, <2>3, <2>4, <2>5, DriveKeeps
<1>5. CASE RecoveryProtects
  <2>1. /\ UNCHANGED <<process, told, orders, residual, sending, wire, venue, torn, halt, quote>>
        /\ step' = "protect" /\ "protect" \in Steps \ {"send", "answer"} /\ step = "recovery_balances"
        /\ campaign' = [campaign EXCEPT !.recovery = TRUE]
    BY <1>5 DEF RecoveryProtects, Goes, Steps
  <2>2. campaign' \in Campaigns /\ campaign'.qty = campaign.qty /\ campaign'.on = campaign.on
    BY <1>1, <2>1 DEF Campaigns
  <2>3. AllActive = {}
    BY <1>1, <2>1 DEF StepTrue
  <2> QED BY <1>1, <1>2, <2>1, <2>2, <2>3, DriveKeeps
<1>6. ASSUME NEW safe \in BOOLEAN, Ends(safe), safe => ~campaign.on \/ ProtectionCovers, step # "closing"
      PROVE  TrackInv'
  <2>1. /\ UNCHANGED <<campaign, orders, residual, halt, quote, sending, wire, venue, torn>>
        /\ process' = "down" /\ step' = "idle" /\ told' = safe /\ "idle" \in Steps
    BY <1>6 DEF Ends, Own, Steps
  <2>2. TrackTypes'
    BY <1>1, <2>1 DEF TrackTypes
  <2>3. StepTrue'
    BY <1>1, <2>1 DEF StepTrue, AllActive, Active
  <2>4. ToldTrue'
    BY <1>6, <2>1 DEF ToldTrue, RecoveryTellsTruth, ProtectionCovers, Active
  <2> QED BY <1>6, <2>1, <2>2, <2>3, <2>4, QuietKeeps
<1>7. CASE RecoveryProtected
  <2>1. step = "recovery_look" /\ campaign.qty > 0 /\ Active("protect") # {}
    BY <1>7 DEF RecoveryProtected, Looks
  <2>2. CASE (\A i \in Active("protect") : IsConfirmed(orders[i].st)) /\ Ends(TRUE)
    <3>1. PICK i \in Active("protect") : IsConfirmed(orders[i].st)
      BY <2>1, <2>2
    <3>2. i \in Ids /\ i \in AllActive /\ orders[i].st = "LIVE" /\ orders[i].role = "protect"
      BY <3>1 DEF Active, AllActive, IsConfirmed, Live
    <3>3. venue[i].st # "none" /\ orders[i].qty - orders[i].filled = campaign.qty
      BY <1>1, <3>2 DEF OrdersTrue, OrderTrue, Covered
    <3>4. ProtectionCovers
      BY <3>3 DEF ProtectionCovers
    <3> QED BY <1>6, <2>1, <2>2, <3>4
  <2>3. CASE ReturnsUnchanged
    <3>1. /\ UNCHANGED <<process, told, orders, residual, sending, wire, venue, torn, quote, halt, campaign>>
          /\ step' = "idle" /\ "idle" \in Steps \ {"send", "answer"}
      BY <2>3 DEF Returns, ReturnsUnchanged, Goes, Steps, Own
    <3> QED BY <1>1, <1>2, <2>1, <3>1, DriveKeeps
  <2> QED BY <1>7, <2>2, <2>3 DEF RecoveryProtected, Looks
<1>8. CASE RecoveryEnds
  <2>1. Ends(~campaign.on) /\ step = "idle" /\ (~campaign.on) \in BOOLEAN
    BY <1>8 DEF RecoveryEnds
  <2> QED BY <1>6, <2>1
<1> QED BY <1>3, <1>4, <1>5, <1>7, <1>8

\* A start, or a crash that keeps what is saved and loses the step.
LEMMA StartsKeep ==
  ASSUME TrackInv, Start \/ CrashC
  PROVE  TrackInv'
<1>1. /\ TrackTypes /\ StepTrue /\ ToldTrue /\ BooksTrue /\ campaign.qty \in Nat /\ residual \in Nat
  BY DEF TrackInv, TrackTypes, Campaigns
<1>2. CASE Start
  <2>1. /\ process = "down" /\ step = "idle" /\ step' = step /\ process' \in {"live", "recovering"} /\ told' = FALSE
        /\ UNCHANGED <<campaign, orders, residual, halt, quote, sending, wire, venue, torn>>
    BY <1>1, <1>2 DEF Start, Own, StepTrue
  <2>2. TrackTypes'
    BY <1>1, <2>1 DEF TrackTypes
  <2>3. StepTrue' /\ ToldTrue' /\ step # "closing" /\ step' # "closing"
    BY <1>1, <2>1 DEF StepTrue, AllActive, Active, ToldTrue
  <2> QED BY <2>1, <2>2, <2>3, QuietKeeps
<1>3. CASE CrashC
  <2>1. /\ process # "down" /\ process' = "down" /\ step' = "idle" /\ quote' = NoQuote /\ sending' = 0
        /\ torn' = (torn \/ (step = "closing" /\ campaign.qty > 0))
        /\ UNCHANGED <<campaign, orders, residual, halt, wire, venue, told>> /\ ~told
    BY <1>1, <1>3 DEF CrashC, Own, ToldTrue
  <2>2. TrackTypes'
    BY <1>1, <2>1 DEF TrackTypes, NoQuote, Steps
  <2>3. StepTrue' /\ ToldTrue'
    BY <1>1, <2>1 DEF StepTrue, AllActive, Active, ToldTrue
  <2>4. OrdersTrue' /\ WireTrue' /\ OneAtATime' /\ Covered'
    BY <2>1 DEF TrackInv, OrdersTrue, OrderTrue, WireTrue, OneAtATime, Covered, AllActive
  <2>5. BooksTrue'
    <3>1. InBooks' = InBooks
      BY <2>1 DEF InBooks, Filled, Buys, Sells
    <3>2. campaign.qty = 0 => campaign.qty + residual = residual
      BY <1>1
    <3>3. campaign.qty > 0 \/ campaign.qty = 0
      BY <1>1
    <3> QED BY <1>1, <2>1, <3>1, <3>2, <3>3 DEF BooksTrue
  <2> QED BY <2>2, <2>3, <2>4, <2>5 DEF TrackInv
<1> QED BY <1>2, <1>3

\* The exchange and the network: a request arrives or is lost, an order fills or ends.
LEMMA ExchangeKeeps ==
  ASSUME TrackInv, RequestArrives \/ RequestLostC \/ OrderFills \/ OrderEnds
  PROVE  TrackInv'
<1>1. /\ TrackTypes /\ OrdersTrue /\ WireTrue /\ OneAtATime /\ Covered /\ StepTrue /\ ToldTrue /\ BooksTrue
  BY DEF TrackInv
<1>2. PICK i \in Ids : \/ i \in wire /\ Exchange([venue EXCEPT ![i].st = "live"]) /\ wire' = wire \ {i}
                       \/ i \in wire /\ Exchange(venue) /\ wire' = wire \ {i}
                       \/ Working(i) > 0 /\ Exchange([venue EXCEPT ![i].filled = @ + 1]) /\ UNCHANGED wire
                       \/ venue[i].st = "live" /\ Exchange([venue EXCEPT ![i].st = "done"]) /\ UNCHANGED wire
  BY <1>1 DEF RequestArrives, RequestLostC, OrderFills, OrderEnds, TrackTypes
<1>3. UNCHANGED <<campaign, orders, residual, halt, process, step, quote, sending, told, torn>> /\ wire' \in SUBSET wire
  BY <1>2 DEF Exchange, Own
<1>4. /\ venue[i].filled \in Nat /\ venue[i].filled + 1 \in Nat /\ orders[i].qty \in Nat /\ orders[i].filled \in Nat
      /\ OrderTrue(i) /\ venue[i].st \in {"none", "live", "done"}
  BY <1>1, OrderFields DEF OrdersTrue
<1>5. \/ /\ venue[i].st = "none" /\ venue'[i].st = "live" /\ venue'[i].filled = venue[i].filled
         /\ i \notin wire' /\ orders[i].st \in Live
      \/ UNCHANGED venue
      \/ venue[i].st = "live" /\ venue'[i].st = "live" /\ venue'[i].filled = venue[i].filled + 1 /\ venue[i].filled < orders[i].qty
      \/ venue[i].st = "live" /\ venue'[i].st = "done" /\ venue'[i].filled = venue[i].filled
  <2>1. CASE i \in wire /\ Exchange([venue EXCEPT ![i].st = "live"]) /\ wire' = wire \ {i}
    BY <1>1, <2>1 DEF Exchange, WireTrue, TrackTypes
  <2>2. CASE i \in wire /\ Exchange(venue)
    BY <2>2 DEF Exchange
  <2>3. CASE Working(i) > 0 /\ Exchange([venue EXCEPT ![i].filled = @ + 1])
    <3>1. venue[i].st = "live" /\ orders[i].qty - venue[i].filled > 0
      BY <2>3 DEF Working
    <3>2. venue'[i].st = venue[i].st /\ venue'[i].filled = venue[i].filled + 1
      BY <1>1, <2>3 DEF Exchange, TrackTypes
    <3> QED BY <1>4, <3>1, <3>2
  <2>4. CASE venue[i].st = "live" /\ Exchange([venue EXCEPT ![i].st = "done"])
    BY <1>1, <2>4 DEF Exchange, TrackTypes
  <2> QED BY <1>2, <2>1, <2>2, <2>3, <2>4
<1>6. \A j \in Ids : j # i => venue'[j] = venue[j]
  BY <1>1, <1>2 DEF Exchange, TrackTypes
<1>7. TrackTypes'
  <2>1. venue' \in [Ids -> [st : {"none", "live", "done"}, filled : Nat]]
    BY <1>1, <1>2, <1>4 DEF Exchange, TrackTypes
  <2>2. wire' \in SUBSET Ids
    BY <1>1, <1>3 DEF TrackTypes
  <2> QED BY <1>1, <1>3, <2>1, <2>2 DEF TrackTypes
<1>8. OrdersTrue'
  <2> SUFFICES ASSUME NEW j \in Ids PROVE OrderTrue(j)'
    BY DEF OrdersTrue
  <2>1. CASE j # i
    <3>1. venue'[j] = venue[j] /\ orders'[j] = orders[j] /\ OrderTrue(j)
      BY <1>1, <1>3, <1>6, <2>1 DEF OrdersTrue
    <3> QED BY <3>1 DEF OrderTrue
  <2>2. CASE j = i
    <3>1. CASE UNCHANGED venue
      BY <1>3, <1>4, <2>2, <3>1 DEF OrderTrue
    <3>2. CASE ~UNCHANGED venue
      <4>1. orders[i].st \in Live /\ orders[i].st # "none"
        BY <1>4, <1>5, <3>2 DEF OrderTrue, Live
      <4>2. orders[i].filled <= venue'[i].filled /\ venue'[i].filled <= orders[i].qty /\ venue'[i].st # "none"
        BY <1>4, <1>5, <3>2 DEF OrderTrue
      <4> QED BY <1>3, <1>4, <2>2, <4>1, <4>2 DEF OrderTrue
    <3> QED BY <3>1, <3>2
  <2> QED BY <2>1, <2>2
<1>9. WireTrue'
  <2> SUFFICES ASSUME NEW j \in wire' PROVE orders'[j].st \in Live /\ venue'[j].st = "none"
    BY DEF WireTrue
  <2>1. j \in wire /\ j \in Ids /\ orders[j].st \in Live /\ venue[j].st = "none"
    BY <1>1, <1>3 DEF WireTrue, TrackTypes
  <2>2. CASE j = i
    BY <1>3, <1>5, <2>1, <2>2
  <2>3. CASE j # i
    BY <1>3, <1>6, <2>1, <2>3
  <2> QED BY <2>2, <2>3
<1>10. OneAtATime' /\ Covered'
  BY <1>1, <1>3 DEF OneAtATime, Covered, AllActive
<1>11. StepTrue'
  <2>1. AllActive' = AllActive /\ Active("entry")' = Active("entry")
    BY <1>3 DEF AllActive, Active
  <2>2. step = "send" => venue'[sending].st = "none"
    <3> SUFFICES ASSUME step = "send" PROVE venue'[sending].st = "none"
      OBVIOUS
    <3>1. sending \in AllActive /\ sending \notin wire /\ venue[sending].st = "none" /\ sending \in Ids
      BY <1>1 DEF StepTrue, AllActive
    <3>2. CASE sending = i
      <4>1. i \notin wire /\ venue[i].st = "none"
        BY <3>1, <3>2
      <4>2. Working(i) = 0
        BY <4>1 DEF Working
      <4> QED BY <1>2, <4>1, <4>2 DEF Exchange
    <3> QED BY <1>6, <3>1, <3>2
  <2> QED BY <1>1, <1>3, <2>1, <2>2 DEF StepTrue
<1>12. ToldTrue'
  <2>1. \A j \in Ids : venue[j].st # "none" => venue'[j].st # "none"
    BY <1>5, <1>6
  <2> QED BY <1>1, <1>3, <2>1 DEF ToldTrue, RecoveryTellsTruth, Active
<1>13. BooksTrue'
  BY <1>1, <1>3 DEF BooksTrue, InBooks, Filled, Buys, Sells
<1> QED BY <1>7, <1>8, <1>9, <1>10, <1>11, <1>12, <1>13 DEF TrackInv

\* The initial state: nothing is open and no order was ever written down.
LEMMA TrackStarts ==
  ASSUME TrackCInit
  PROVE  TrackInv
<1> USE DEF TrackCInit
<1>1. \A i \in Ids : orders[i] = Unused /\ venue[i] = [st |-> "none", filled |-> 0]
  OBVIOUS
<1>2. TrackTypes
  BY DEF TrackTypes, NoCampaign, Campaigns, NoQuote, Unused, Journal, Steps
<1>3. EntryQty \in Nat
  BY TrackNumbers
<1>4. OrdersTrue
  BY <1>1, <1>3 DEF OrdersTrue, OrderTrue, Unused, Live
<1>5. AllActive = {}
  BY <1>1 DEF AllActive, Unused, Live
<1>6. WireTrue /\ OneAtATime /\ Covered /\ StepTrue /\ ToldTrue
  BY <1>3, <1>5 DEF WireTrue, OneAtATime, Covered, StepTrue, ToldTrue, NoCampaign
<1>7. BooksTrue
  <2>1. Buys = {} /\ Sells = {}
    BY <1>1 DEF Buys, Sells, Unused
  <2> DEFINE f == [i \in Ids |-> orders[i].filled]
  <2>2. Filled({}) = 0
    <3> HIDE DEF f
    <3>1. SumFunctionOnSet(f, {}) = 0
      BY SumOfEmpty
    <3> QED BY <3>1 DEF Filled, f
  <2>3. InBooks = 0
    BY <2>1, <2>2 DEF InBooks
  <2> QED BY <2>3 DEF BooksTrue, NoCampaign
<1> QED BY <1>2, <1>4, <1>6, <1>7 DEF TrackInv

\* Every step keeps the invariant.
LEMMA TrackKeeps ==
  ASSUME TrackInv, [TrackCNext]_trackCVars
  PROVE  TrackInv'
<1>1. CASE UNCHANGED trackCVars
  <2>1. UNCHANGED <<campaign, orders, residual, halt, process, step, quote, sending, wire, venue, told, torn>>
    BY <1>1 DEF trackCVars
  <2> QED BY <2>1 DEF TrackInv, TrackTypes, OrdersTrue, OrderTrue, WireTrue, OneAtATime, Covered, StepTrue, BooksTrue, ToldTrue,
                     RecoveryTellsTruth, AllActive, Active, InBooks, Filled, Buys, Sells
<1>2. CASE Run
  BY <1>2, TurnsKeep, ReadingKeeps, SubmitsKeep, FlatSavedKeeps DEF Run
<1>3. CASE Recover
  BY <1>3, ReadingKeeps, RecoveryKeeps, TurnsKeep DEF Recover
<1>4. CASE Start \/ CrashC
  BY <1>4, StartsKeep
<1>5. CASE RequestArrives \/ RequestLostC \/ OrderFills \/ OrderEnds
  BY <1>5, ExchangeKeeps
<1> QED BY <1>1, <1>2, <1>3, <1>4, <1>5 DEF TrackCNext

\* The invariant of one coin: what is known of every order is true, at most one may
\* still fill, and what it has left is what the campaign lacks or holds, through lost
\* answers, late fills, crashes and recoveries (OMS and LiveBook).
THEOREM TrackHolds == TrackCSpec => []TrackInv
<1>1. TrackCInit => TrackInv
  BY TrackStarts
<1>2. TrackInv /\ [TrackCNext]_trackCVars => TrackInv'
  BY TrackKeeps
<1> QED BY <1>1, <1>2, PTL DEF TrackCSpec

\* Only the order that works counts where something may still fill or is not applied yet.
LEMMA OnlyOneCounts ==
  ASSUME TrackInv
  PROVE  \E a \in Ids \union {0} :
           /\ \A i \in Ids \ {a} : Possible(i) = 0 /\ venue[i].filled - orders[i].filled = 0
           /\ a \in Ids => AllActive = {a}
<1>1. ASSUME NEW i \in Ids, i \notin AllActive PROVE Possible(i) = 0 /\ venue[i].filled - orders[i].filled = 0
  <2>1. orders[i].st \notin Live /\ OrderTrue(i) /\ i \notin wire
    BY <1>1 DEF AllActive, TrackInv, OrdersTrue, WireTrue
  <2>2. venue[i].st # "live" /\ orders[i].filled = venue[i].filled /\ venue[i].filled \in Nat
    BY <2>1, OrderFields DEF OrderTrue, TrackInv
  <2> QED BY <2>1, <2>2 DEF Possible, Working
<1>2. CASE AllActive = {}
  BY <1>1, <1>2, TrackNumbers
<1>3. CASE AllActive # {}
  <2>1. PICK a \in AllActive : TRUE
    BY <1>3
  <2>2. AllActive = {a} /\ a \in Ids
    BY <2>1 DEF TrackInv, OneAtATime, AllActive
  <2> QED BY <1>1, <2>2
<1> QED BY <1>2, <1>3

\* All that may still be sold is within what the campaign holds at the exchange, for
\* any number of orders, quantities and prices: oms.py's sales, whatever was lost.
THEOREM SellsWithinCampaign == TrackCSpec => []SalesWithinCampaign
<1>1. ASSUME TrackInv PROVE SalesWithinCampaign
  <2> USE <1>1
  <2> DEFINE p == [i \in Ids |-> Possible(i)]
             u == [i \in Ids |-> venue[i].filled - orders[i].filled]
  <2>1. PICK a \in Ids \union {0} : /\ \A i \in Ids \ {a} : Possible(i) = 0 /\ venue[i].filled - orders[i].filled = 0
                                    /\ a \in Ids => AllActive = {a}
    BY OnlyOneCounts
  <2>2. /\ Buys \in SUBSET Ids /\ Sells \in SUBSET Ids /\ IsFiniteSet(Buys) /\ IsFiniteSet(Sells)
        /\ campaign.qty \in Nat /\ 0 \notin Ids
    BY TrackNumbers DEF Buys, Sells, TrackInv, TrackTypes, Campaigns
  <2>3. \A i \in Ids : u[i] \in Int /\ p[i] \in Int
    <3> SUFFICES ASSUME NEW i \in Ids PROVE u[i] \in Int /\ p[i] \in Int
      OBVIOUS
    <3>1. venue[i].filled \in Nat /\ orders[i].filled \in Nat /\ orders[i].qty \in Nat
      BY OrderFields DEF TrackInv
    <3> QED BY <3>1 DEF Possible, Working
  <2>4. \A i \in Ids \ {a} : u[i] = 0 /\ p[i] = 0
    BY <2>1
  <2>5. /\ a \in Ids => u[a] = venue[a].filled - orders[a].filled /\ p[a] = Possible(a)
        /\ Unapplied(Buys) = SumFunctionOnSet(u, Buys) /\ Unapplied(Sells) = SumFunctionOnSet(u, Sells)
        /\ SumFunctionOnSet([i \in Ids |-> Possible(i)], Sells) = SumFunctionOnSet(p, Sells)
    BY DEF Unapplied
  <2> HIDE DEF u, p
  <2>6. /\ SumFunctionOnSet(u, Buys) = IF a \in Buys THEN u[a] ELSE 0
        /\ SumFunctionOnSet(u, Sells) = IF a \in Sells THEN u[a] ELSE 0
        /\ SumFunctionOnSet(p, Sells) = IF a \in Sells THEN p[a] ELSE 0
    <3>1. /\ \A i \in Buys : u[i] \in Int
          /\ \A i \in Sells : u[i] \in Int
          /\ \A i \in Sells : p[i] \in Int
      BY <2>2, <2>3
    <3>2. /\ \A i \in Buys \ {a} : u[i] = 0
          /\ \A i \in Sells \ {a} : u[i] = 0
          /\ \A i \in Sells \ {a} : p[i] = 0
      BY <2>2, <2>4
    <3> QED BY <2>2, <3>1, <3>2, SumOfOne
  <2>7. CASE a \notin Ids
    <3>1. Unapplied(Buys) = 0 /\ Unapplied(Sells) = 0 /\ SumFunctionOnSet([i \in Ids |-> Possible(i)], Sells) = 0
      BY <2>2, <2>5, <2>6, <2>7
    <3> QED BY <2>2, <3>1 DEF SalesWithinCampaign
  <2>8. CASE a \in Ids
    <3>1. /\ venue[a].filled \in Nat /\ orders[a].filled \in Nat /\ orders[a].qty \in Nat /\ OrderTrue(a)

      BY <2>1, <2>8, OrderFields DEF TrackInv, OrdersTrue, WireTrue
    <3>2. orders[a].filled <= venue[a].filled /\ venue[a].filled <= orders[a].qty /\ (venue[a].st = "none" => venue[a].filled = 0)
      BY <3>1 DEF OrderTrue
    <3>3. a \in AllActive /\ (a \in wire => venue[a].filled = 0)
      BY <2>1, <2>8, <3>2 DEF TrackInv, WireTrue
    <3>4. (a \in Buys <=> orders[a].role = "entry") /\ (a \in Sells => orders[a].role # "entry")
      BY <2>8 DEF Buys, Sells
    <3>5. CASE a \in Sells
      <4>1. orders[a].qty - orders[a].filled = campaign.qty /\ a \notin Buys
        BY <3>3, <3>4, <3>5 DEF TrackInv, Covered
      <4>2. Possible(a) <= orders[a].qty - venue[a].filled
        BY <3>1, <3>2, <3>3 DEF Possible, Working
      <4>3. Possible(a) \in Int
        BY <3>1 DEF Possible, Working
      <4>4. /\ Unapplied(Buys) = 0 /\ Unapplied(Sells) = venue[a].filled - orders[a].filled
            /\ SumFunctionOnSet([i \in Ids |-> Possible(i)], Sells) = Possible(a)
        BY <2>5, <2>6, <2>8, <3>5, <4>1
      <4> QED BY <2>2, <3>1, <4>1, <4>2, <4>3, <4>4 DEF SalesWithinCampaign
    <3>6. CASE a \notin Sells
      <4>1. /\ Unapplied(Buys) \in {0, venue[a].filled - orders[a].filled} /\ Unapplied(Sells) = 0
            /\ SumFunctionOnSet([i \in Ids |-> Possible(i)], Sells) = 0
        BY <2>5, <2>6, <2>8, <3>6
      <4> QED BY <2>2, <3>1, <3>2, <4>1 DEF SalesWithinCampaign
    <3> QED BY <3>5, <3>6
  <2> QED BY <2>7, <2>8
<1> QED BY <1>1, TrackHolds, PTL

\* The books own every coin bought and not sold, for any number of orders, quantities
\* and prices: campaign and kept rest, which only a torn save counts twice.
THEOREM BooksCover == TrackCSpec => []BooksCoverInventory
<1>1. ASSUME TrackInv PROVE BooksCoverInventory
  <2> USE <1>1
  <2>1. ASSUME NEW S \in SUBSET Ids
        PROVE  Unapplied(S) = VenueFilled(S) - Filled(S) /\ VenueFilled(S) \in Int /\ Filled(S) \in Int
    <3> DEFINE v == [i \in Ids |-> venue[i].filled]
               f == [i \in Ids |-> orders[i].filled]
               u == [i \in Ids |-> venue[i].filled - orders[i].filled]
    <3>1. \A i \in S : v[i] \in Int /\ f[i] \in Int /\ u[i] = v[i] - f[i]
      <4>1. \A i \in Ids : venue[i].filled \in Nat /\ orders[i].filled \in Nat
        BY OrderFields DEF TrackInv
      <4> QED BY <4>1
    <3>2. Unapplied(S) = SumFunctionOnSet(u, S) /\ VenueFilled(S) = SumFunctionOnSet(v, S) /\ Filled(S) = SumFunctionOnSet(f, S)
      BY DEF Unapplied, VenueFilled, Filled
    <3>3. IsFiniteSet(S)
      BY TrackNumbers
    <3> HIDE DEF u, v, f
    <3>4. SumFunctionOnSet(u, S) = SumFunctionOnSet(v, S) - SumFunctionOnSet(f, S)
      BY <3>1, <3>3, SumDifference
    <3>5. SumFunctionOnSet(v, S) \in Int /\ SumFunctionOnSet(f, S) \in Int
      BY <3>1, <3>3, SumIsInt
    <3> QED BY <3>2, <3>4, <3>5
  <2>2. Buys \in SUBSET Ids /\ Sells \in SUBSET Ids
    BY DEF Buys, Sells
  <2>3. Inventory - Unapplied(Buys) + Unapplied(Sells) = InBooks
    BY <2>1, <2>2 DEF Inventory, InBooks
  <2> QED BY <2>3 DEF BooksCoverInventory, TrackInv, BooksTrue
<1> QED BY <1>1, TrackHolds, PTL

\* Of a campaign that is over nothing works nor may arrive: finish and reconcile
\* only end it when the journal knows of no order that may still fill.
THEOREM NothingIsLeftBehind == TrackCSpec => []NothingLeftBehind
<1>1. TrackInv => NothingLeftBehind
  <2> SUFFICES ASSUME TrackInv, ~campaign.on PROVE wire = {} /\ \A i \in Ids : venue[i].st # "live"
    BY DEF NothingLeftBehind
  <2>1. AllActive = {}
    BY DEF TrackInv, StepTrue
  <2>2. \A i \in Ids : orders[i].st \notin Live
    BY <2>1 DEF AllActive
  <2> QED BY <2>2 DEF TrackInv, WireTrue, OrdersTrue, OrderTrue, TrackTypes
<1> QED BY <1>1, TrackHolds, PTL

\* What protect_once reports is so, whatever else the exchange does before the next start.
THEOREM RecoveryIsTruthful == TrackCSpec => []RecoveryTellsTruth
<1>1. TrackInv => RecoveryTellsTruth
  BY DEF TrackInv, ToldTrue, RecoveryTellsTruth
<1> QED BY <1>1, TrackHolds, PTL

----------------------------------------------------------------------------
(* The refinement: what OrderLedger sees of one order, and of the orders a  *)
(* step leaves alone.                                                       *)

Sight(i) == <<Slot(i), Side(i), Seen(i), venue[i].filled, orders[i].filled>>

\* A step that changes what OrderLedger sees of no order is a stutter of it.
LEMMA UnseenStep ==
  ASSUME \A i \in Ids : Sight(i)' = Sight(i)
  PROVE  UNCHANGED Ledger!vars
<1>1. \A i \in Ids : /\ Slot(i)' = Slot(i) /\ Side(i)' = Side(i) /\ Seen(i)' = Seen(i)
                     /\ venue'[i].filled = venue[i].filled /\ orders'[i].filled = orders[i].filled
  BY DEF Sight
<1> QED BY <1>1 DEF Ledger!vars

\* An order whose fields are the same looks the same.
LEMMA SameSight ==
  ASSUME NEW i \in Ids, venue'[i] = venue[i],
         orders'[i].role = orders[i].role, orders'[i].filled = orders[i].filled,
         orders'[i].st = orders[i].st
         \/ (orders[i].st \in Live /\ orders'[i].st \in Live)
         \/ (orders[i].st \notin Live \union {"none"} /\ orders'[i].st \notin Live \union {"none"})
  PROVE  Sight(i)' = Sight(i)
<1>1. Slot(i)' = Slot(i)
  BY DEF Slot, Live
<1>2. Side(i)' = Side(i)
  BY DEF Side, Buys, Sells
<1>3. Seen(i)' = Seen(i)
  BY DEF Seen
<1> QED BY <1>1, <1>2, <1>3 DEF Sight

\* Writing an order down is OrderLedger's commitment of a slot.
LEMMA IntendCommits ==
  ASSUME TrackInv, NEW role \in {"entry", "protect", "exit"}, NEW qty, Intend(role, qty), AllActive = {}
  PROVE  Ledger!Next
<1> DEFINE s == IF role = "entry" THEN "BUY" ELSE "SELL"
<1>1. PICK m \in Ids :
        /\ orders[m] = Unused
        /\ orders' = [orders EXCEPT ![m] = [role |-> role, qty |-> qty, st |-> "INTENT", filled |-> 0]]
  <2>1. FreeIds \in SUBSET (1..MaxOrders) /\ FreeIds # {} /\ MaxOrders \in Nat
    BY TrackNumbers DEF Intend, FreeIds, Ids
  <2>2. Min(FreeIds) \in FreeIds
    BY <2>1, LeastElement
  <2>3. Min(FreeIds) \in Ids /\ orders[Min(FreeIds)] = Unused
    BY <2>2 DEF FreeIds, TrackInv, OrdersTrue, OrderTrue
  <2> QED BY <2>3 DEF Intend
<1>2. venue' = venue
  BY DEF Intend
<1>3. \A i \in Ids : orders'[i] = IF i = m THEN [role |-> role, qty |-> qty, st |-> "INTENT", filled |-> 0] ELSE orders[i]
  BY <1>1 DEF TrackInv, TrackTypes
<1>4. \A i \in Ids : i # m => Sight(i)' = Sight(i)
  BY <1>2, <1>3, SameSight
<1>5. /\ orders[m].st = "none" /\ orders[m].filled = 0
      /\ orders'[m].st = "INTENT" /\ orders'[m].role = role /\ orders'[m].filled = 0
  <2>1. orders'[m] = [role |-> role, qty |-> qty, st |-> "INTENT", filled |-> 0]
    BY <1>1, <1>3
  <2> QED BY <1>1, <2>1 DEF Unused
<1>6. Side(m)' = s
  BY <1>1, <1>5 DEF Side, Buys, Sells
<1>7. /\ Seen(m)' = Seen(m) /\ venue'[m].filled = venue[m].filled /\ orders'[m].filled = orders[m].filled
      /\ Slot(m) = "free" /\ Slot(m)' = "owned"
  BY <1>2, <1>5 DEF Seen, Slot, Live
<1>8. \A i \in Ids : Slot(i) # "owned"
  BY DEF Slot, AllActive
<1>9. \A i \in Ids : i # m => /\ Slot(i)' = Slot(i) /\ Side(i)' = Side(i) /\ Seen(i)' = Seen(i)
                              /\ venue'[i].filled = venue[i].filled /\ orders'[i].filled = orders[i].filled
  BY <1>4 DEF Sight
<1> HIDE DEF s
<1>10. Ledger!Commit(m, s)
  <2>1. [i \in Ids |-> Slot(i)]' = [[i \in Ids |-> Slot(i)] EXCEPT ![m] = "owned"]
    BY <1>1, <1>7, <1>9
  <2>2. [i \in Ids |-> Side(i)]' = [[i \in Ids |-> Side(i)] EXCEPT ![m] = s]
    BY <1>1, <1>6, <1>9
  <2>3. /\ [i \in Ids |-> Seen(i)]' = [i \in Ids |-> Seen(i)]
        /\ [i \in Ids |-> venue[i].filled]' = [i \in Ids |-> venue[i].filled]
        /\ [i \in Ids |-> orders[i].filled]' = [i \in Ids |-> orders[i].filled]
    BY <1>7, <1>9
  <2> QED BY <1>1, <1>7, <1>8, <2>1, <2>2, <2>3 DEF Ledger!Commit
<1>11. s \in {"BUY", "SELL"}
  BY DEF s
<1> QED BY <1>1, <1>10, <1>11 DEF Ledger!Next

\* Booking a report is OrderLedger's booking step, or changes nothing.
LEMMA ApplyBooks ==
  ASSUME TrackInv, NEW R \in SUBSET AllActive, Apply(R), UNCHANGED venue
  PROVE  UNCHANGED orders \/ Ledger!Next
<1>1. ASSUME NEW a \in AllActive, venue[a].st # "none",
             orders' = [orders EXCEPT ![a] = [@ EXCEPT !.st = IF venue[a].st = "live" THEN "LIVE" ELSE "CLOSED",
                                                       !.filled = venue[a].filled]]
      PROVE  Ledger!Next
  <2>1. a \in Ids /\ orders[a].st \in Live /\ orders[a] \in Journal /\ orders \in [Ids -> Journal]
    BY DEF AllActive, TrackInv, TrackTypes
  <2>2. /\ orders'[a].role = orders[a].role /\ orders'[a].filled = venue[a].filled
        /\ orders'[a].st = IF venue[a].st = "live" THEN "LIVE" ELSE "CLOSED"
        /\ \A i \in Ids : i # a => orders'[i] = orders[i]
    BY <1>1, <2>1 DEF Journal
  <2>3. Slot(a) = "owned" /\ Seen(a) # "never" /\ Seen(a)' = Seen(a)
    BY <1>1, <2>1 DEF Slot, Seen, Live
  <2>4. Slot(a)' = IF Seen(a) = "over" THEN "released" ELSE "owned"
    BY <1>1, <2>2 DEF Slot, Seen, Live
  <2>5. Side(a)' = Side(a)
    BY <2>2 DEF Side, Buys, Sells
  <2>6. \A i \in Ids : i # a => Sight(i)' = Sight(i)
    BY <2>2, SameSight
  <2>7. \A i \in Ids : i # a => /\ Slot(i)' = Slot(i) /\ Side(i)' = Side(i) /\ Seen(i)' = Seen(i)
                                /\ venue'[i].filled = venue[i].filled /\ orders'[i].filled = orders[i].filled
    BY <2>6 DEF Sight
  <2>8. Ledger!Book(a)
    BY <2>1, <2>2, <2>3, <2>4, <2>5, <2>7 DEF Ledger!Book
  <2> QED BY <2>1, <2>8 DEF Ledger!Next
<1> QED BY <1>1, AppliesOne

\* What the exchange does is what OrderLedger's venue does.
LEMMA ExchangeMoves ==
  ASSUME TrackInv, RequestArrives \/ OrderFills \/ OrderEnds
  PROVE  Ledger!Next
<1>1. TrackTypes /\ OrdersTrue /\ WireTrue /\ EntryQty \in Nat
  BY TrackNumbers DEF TrackInv
<1>2. PICK i \in Ids : \/ i \in wire /\ Exchange([venue EXCEPT ![i].st = "live"])
                       \/ Working(i) > 0 /\ Exchange([venue EXCEPT ![i].filled = @ + 1])
                       \/ venue[i].st = "live" /\ Exchange([venue EXCEPT ![i].st = "done"])
  BY <1>1 DEF RequestArrives, OrderFills, OrderEnds, TrackTypes
<1>3. orders' = orders
  BY <1>2 DEF Exchange, Own
<1>4. /\ venue[i].filled \in Nat /\ orders[i].qty \in Nat /\ orders[i].qty <= EntryQty
      /\ venue[i].st = "live" => orders[i].st \in Live
  BY <1>1, OrderFields DEF OrdersTrue, OrderTrue
<1>5. \A j \in Ids : j # i => venue'[j] = venue[j]
  BY <1>1, <1>2 DEF Exchange, TrackTypes
<1>6. \A j \in Ids : Slot(j)' = Slot(j) /\ Side(j)' = Side(j)
  BY <1>3 DEF Slot, Side, Buys, Sells
<1>7. \A j \in Ids : j # i => Seen(j)' = Seen(j)
  BY <1>5 DEF Seen
<1>8. CASE i \in wire /\ Exchange([venue EXCEPT ![i].st = "live"])
  <2>1. venue[i].st = "none" /\ orders[i].st \in Live
    BY <1>1, <1>8 DEF WireTrue
  <2>2. venue'[i].st = "live" /\ venue'[i].filled = venue[i].filled
    BY <1>1, <1>8 DEF Exchange, TrackTypes
  <2>3. Slot(i) = "owned" /\ Seen(i) = "never" /\ Seen(i)' = "live"
    BY <2>1, <2>2 DEF Slot, Seen, Live
  <2>4. Ledger!Accept(i)
    BY <1>3, <1>5, <1>6, <1>7, <2>2, <2>3 DEF Ledger!Accept
  <2> QED BY <2>4 DEF Ledger!Next
<1>9. CASE Working(i) > 0 /\ Exchange([venue EXCEPT ![i].filled = @ + 1])
  <2>1. venue[i].st = "live" /\ orders[i].qty - venue[i].filled > 0
    BY <1>9 DEF Working
  <2>2. venue'[i].st = "live" /\ venue'[i].filled = venue[i].filled + 1
    BY <1>1, <1>9, <2>1 DEF Exchange, TrackTypes
  <2>3. Seen(i) = "live" /\ Seen(i)' = Seen(i) /\ venue[i].filled < EntryQty
    BY <1>1, <1>4, <2>1, <2>2 DEF Seen
  <2>4. Ledger!Execute(i)
    BY <1>3, <1>5, <1>6, <1>7, <2>2, <2>3 DEF Ledger!Execute
  <2> QED BY <2>4 DEF Ledger!Next
<1>10. CASE venue[i].st = "live" /\ Exchange([venue EXCEPT ![i].st = "done"])
  <2>1. venue'[i].st = "done" /\ venue'[i].filled = venue[i].filled
    BY <1>1, <1>10 DEF Exchange, TrackTypes
  <2>2. Seen(i) = "live" /\ Seen(i)' = "over"
    BY <1>10, <2>1 DEF Seen
  <2>3. Ledger!End(i)
    BY <1>3, <1>5, <1>6, <1>7, <2>1, <2>2 DEF Ledger!End
  <2> QED BY <2>3 DEF Ledger!Next
<1> QED BY <1>2, <1>8, <1>9, <1>10

\* An order that was given up before it reached the exchange; an answer that only names it.
LEMMA AnswerMoves ==
  ASSUME TrackInv, NEW st \in {"SUBMITTED", "UNKNOWN", "REJECTED"}, NEW o \in AllActive,
         orders' = [orders EXCEPT ![o].st = st], venue' = venue,
         st = "REJECTED" => venue[o].st = "none"
  PROVE  UNCHANGED Ledger!vars \/ Ledger!Next
<1>1. o \in Ids /\ orders[o].st \in Live /\ orders[o] \in Journal /\ orders \in [Ids -> Journal]
  BY DEF AllActive, TrackInv, TrackTypes
<1>2. /\ orders'[o].role = orders[o].role /\ orders'[o].filled = orders[o].filled /\ orders'[o].st = st
      /\ \A i \in Ids : i # o => orders'[i] = orders[i]
  BY <1>1 DEF Journal
<1>3. \A i \in Ids : i # o => Sight(i)' = Sight(i)
  BY <1>2, SameSight
<1>4. CASE st # "REJECTED"
  <2>1. Sight(o)' = Sight(o)
    BY <1>1, <1>2, <1>4, SameSight DEF Live
  <2> QED BY <1>3, <2>1, UnseenStep
<1>5. CASE st = "REJECTED"
  <2>1. /\ Slot(o) = "owned" /\ Slot(o)' = "released" /\ Side(o)' = Side(o) /\ Seen(o) = "never" /\ Seen(o)' = Seen(o)
    BY <1>1, <1>2, <1>5 DEF Slot, Side, Seen, Buys, Sells, Live
  <2>2. \A i \in Ids : i # o => /\ Slot(i)' = Slot(i) /\ Side(i)' = Side(i) /\ Seen(i)' = Seen(i)
                                /\ venue'[i].filled = venue[i].filled /\ orders'[i].filled = orders[i].filled
    BY <1>3 DEF Sight
  <2>3. Ledger!Drop(o)
    BY <1>1, <1>2, <2>1, <2>2 DEF Ledger!Drop
  <2> QED BY <1>1, <2>3 DEF Ledger!Next
<1> QED BY <1>4, <1>5

\* Forgetting the orders of a finished campaign is invisible: all were booked.
LEMMA FlatMoves ==
  ASSUME TrackInv, FlatSaved
  PROVE  UNCHANGED Ledger!vars
<1>1. AllActive = {} /\ venue' = venue /\ \A i \in Ids : orders[i] \in Journal
  BY DEF TrackInv, StepTrue, FlatSaved, At, Returns, Goes, TrackTypes
<1>2. orders' = [i \in Ids |-> IF orders[i].st = "none" THEN orders[i] ELSE [orders[i] EXCEPT !.st = "gone"]]
  BY DEF FlatSaved
<1>3. ASSUME NEW i \in Ids PROVE Sight(i)' = Sight(i)
  <2>1. orders[i].st \notin Live
    BY <1>1 DEF AllActive
  <2>2. /\ orders'[i].role = orders[i].role /\ orders'[i].filled = orders[i].filled
        /\ orders'[i].st = IF orders[i].st = "none" THEN "none" ELSE "gone"
    BY <1>1, <1>2 DEF Journal
  <2> QED BY <1>1, <2>1, <2>2, SameSight DEF Live
<1> QED BY <1>3, UnseenStep

\* Selling gives an order or leaves the orders alone.
LEMMA SellMoves ==
  ASSUME TrackInv, NEW role \in {"protect", "exit"}, Sell(role), AllActive = {}
  PROVE  UNCHANGED <<orders, venue>> \/ Ledger!Next
<1>1. CASE Carry
  BY <1>1 DEF Carry, Goes
<1>2. CASE Returns /\ UNCHANGED <<orders, residual, halt>>
  BY <1>2 DEF Returns, Goes
<1>3. CASE Intend(role, campaign.qty)
  BY <1>3, IntendCommits
<1> QED BY <1>1, <1>2, <1>3 DEF Sell

\* The steps of the live process, one by one.
LEMMA RunMoves ==
  ASSUME TrackInv, Run
  PROVE  PromiseStep
<1> USE DEF At
<1>1. TrackTypes /\ OrdersTrue /\ WireTrue /\ StepTrue
  BY DEF TrackInv
<1>2. CASE Enter \/ DriveStarts \/ FoundDust \/ Decide \/ StillBuying \/ SoldOut \/ FlatEnds \/ Untradeable
           \/ Exits \/ ExitWaits \/ ExitReady \/ BalanceShort \/ ProfitExpired \/ ApiError \/ Sends \/ EntryExpired \/ DustEnds
  <2>1. CASE Enter \/ DriveStarts \/ Decide \/ Sends
    BY <2>1 DEF Enter, DriveStarts, Decide, Sends, Goes, Own, PromiseStep
  <2>2. CASE FoundDust \/ StillBuying \/ SoldOut \/ Exits \/ ExitWaits \/ ExitReady
    BY <2>2 DEF FoundDust, StillBuying, SoldOut, Exits, ExitWaits, ExitReady, Goes, Own, Returns, ReturnsUnchanged, Rest,
                Holding, PromiseStep
  <2>3. CASE FlatEnds \/ Untradeable \/ BalanceShort \/ ProfitExpired \/ ApiError
    BY <2>3 DEF FlatEnds, EndFlat, Untradeable, BalanceShort, ProfitExpired, ApiError, Halts, Goes, Own, Returns,
                ReturnsUnchanged, Rest, PromiseStep
  <2>4. CASE EntryExpired \/ DustEnds
    BY <2>4 DEF EntryExpired, DustEnds, Carry, Goes, Own, Returns, ReturnsUnchanged, PromiseStep
  <2> QED BY <1>2, <2>1, <2>2, <2>3, <2>4
<1>3. CASE EntryIntended
  <2>1. AllActive = {} /\ Intend("entry", EntryQty)
    BY <1>1, <1>3 DEF EntryIntended, StepTrue
  <2> QED BY <2>1, IntendCommits DEF PromiseStep
<1>4. CASE EntryExpires
  <2>1. orders' = [orders EXCEPT ![sending].st = "REJECTED"] /\ venue' = venue /\ step = "send"
    BY <1>4 DEF EntryExpires, Goes
  <2>2. sending \in AllActive /\ venue[sending].st = "none"
    BY <1>1, <2>1 DEF StepTrue
  <2> QED BY <2>1, <2>2, AnswerMoves DEF PromiseStep
<1>5. CASE AnswerOk \/ AnswerRefused \/ AnswerLost
  <2>1. PICK st \in {"SUBMITTED", "UNKNOWN", "REJECTED"} :
          /\ Answer(st)
          /\ st = "REJECTED" => sending \in wire
    <3>1. CASE AnswerOk
      BY <3>1 DEF AnswerOk
    <3>2. CASE AnswerRefused
      BY <3>2 DEF AnswerRefused
    <3>3. CASE AnswerLost
      BY <3>3 DEF AnswerLost, Unanswered
    <3> QED BY <1>5, <3>1, <3>2, <3>3
  <2>2. orders' = [orders EXCEPT ![sending].st = st] /\ venue' = venue /\ step = "answer"
    BY <2>1 DEF Answer
  <2>3. sending \in AllActive /\ (st = "REJECTED" => venue[sending].st = "none")
    BY <1>1, <2>1, <2>2 DEF StepTrue, WireTrue, Answer
  <2> QED BY <2>2, <2>3, AnswerMoves DEF PromiseStep
<1>6. CASE DriveReconciles \/ RefreshAccount
  <2>1. PICK R \in SUBSET AllActive : Reconcile(R)
    BY <1>6 DEF DriveReconciles, RefreshAccount
  <2>2. Apply(R) /\ UNCHANGED venue
    BY <2>1 DEF Reconcile, World
  <2> QED BY <2>2, ApplyBooks DEF PromiseStep
<1>7. CASE DustCancels \/ EntryCancels \/ FlatCancels \/ ExitCancels
  <2>1. PICK S, next : CancelAll(S, next) /\ S \subseteq AllActive
    <3>1. Active("entry") \subseteq AllActive /\ Active("protect") \subseteq AllActive
      BY DEF Active, AllActive
    <3> QED BY <1>7, <3>1 DEF DustCancels, EntryCancels, FlatCancels, ExitCancels
  <2>2. PICK R \in SUBSET S : Apply(R)
    BY <2>1 DEF CancelAll
  <2>3. R \in SUBSET AllActive /\ UNCHANGED venue
    BY <2>1 DEF CancelAll, World
  <2> QED BY <2>2, <2>3, ApplyBooks DEF PromiseStep
<1>8. CASE FlatSaved
  BY <1>8, FlatMoves DEF PromiseStep
<1>9. CASE Protect
  <2>1. CASE Active("protect") \union Active("exit") = {} /\ Sell("protect")
    <3>1. AllActive = {}
      <4>1. Active("entry") = {}
        BY <1>9 DEF Protect, Holding, Rest
      <4> QED BY <1>1, <2>1, <4>1, ActiveRoles
    <3> QED BY <2>1, <3>1, SellMoves DEF PromiseStep
  <2>2. CASE ReturnsUnchanged
    BY <2>2 DEF ReturnsUnchanged, Returns, Goes, Own, PromiseStep
  <2> QED BY <1>9, <2>1, <2>2 DEF Protect, Holding, Rest
<1>10. CASE Protects \/ ExitSells
  <2>1. AllActive = {} /\ \E role \in {"protect", "exit"} : Sell(role)
    BY <1>1, <1>10 DEF Protects, ExitSells, StepTrue
  <2> QED BY <2>1, SellMoves DEF PromiseStep
<1> QED BY <1>2, <1>3, <1>4, <1>5, <1>6, <1>7, <1>8, <1>9, <1>10 DEF Run

\* The steps of the recovery process.
LEMMA RecoverMoves ==
  ASSUME TrackInv, Recover
  PROVE  PromiseStep
<1>1. CASE RecoveryReconciles
  <2>1. PICK R \in SUBSET AllActive : Reconcile(R)
    BY <1>1 DEF RecoveryReconciles
  <2>2. Apply(R) /\ UNCHANGED venue
    BY <2>1 DEF Reconcile, World
  <2> QED BY <2>2, ApplyBooks DEF PromiseStep
<1>2. CASE RecoveryCancels
  <2>1. PICK R \in SUBSET Active("entry") : Apply(R)
    BY <1>2 DEF RecoveryCancels, CancelAll
  <2>2. R \in SUBSET AllActive /\ UNCHANGED venue
    BY <1>2, <2>1 DEF RecoveryCancels, CancelAll, World, Active, AllActive
  <2> QED BY <2>1, <2>2, ApplyBooks DEF PromiseStep
<1>3. CASE ~(RecoveryReconciles \/ RecoveryCancels)
  <2>1. UNCHANGED <<orders, venue>>
    BY <1>3 DEF Recover, RecoveryWaits, RecoveryFlat, RecoveryProtected, RecoveryUntradeable, RecoveryUnprotected, RecoverySells,
                RecoveryProtects, RecoveryEnds, Looks, DrivesAt, Ends, Halts, Returns, ReturnsUnchanged, Goes, Own
  <2> QED BY <2>1 DEF PromiseStep
<1> QED BY <1>1, <1>2, <1>3

\* The order manager of Track C implements OrderLedger, step by step, for any number
\* of orders and any quantity: what submit, apply, cancel and a restart do to an order
\* is what its promise allows.
THEOREM TrackKeepsPromise == TrackCSpec => KeepsPromise
<1>1. TrackCInit => Ledger!Init
  <2> SUFFICES ASSUME TrackCInit PROVE Ledger!Init
    OBVIOUS
  <2>1. \A i \in Ids : orders[i] = Unused /\ venue[i] = [st |-> "none", filled |-> 0]
    BY DEF TrackCInit
  <2>2. \A i \in Ids : /\ Slot(i) = "free" /\ Side(i) = "none" /\ Seen(i) = "never"
                       /\ venue[i].filled = 0 /\ orders[i].filled = 0
    <3> SUFFICES ASSUME NEW i \in Ids
                 PROVE  /\ Slot(i) = "free" /\ Side(i) = "none" /\ Seen(i) = "never"
                        /\ venue[i].filled = 0 /\ orders[i].filled = 0
      OBVIOUS
    <3>1. /\ orders[i].st = "none" /\ orders[i].role = "none" /\ orders[i].filled = 0
          /\ venue[i].st = "none" /\ venue[i].filled = 0
      BY <2>1 DEF Unused
    <3>2. Slot(i) = "free"
      BY <3>1 DEF Slot, Live
    <3>3. Side(i) = "none"
      BY <3>1 DEF Side, Buys, Sells
    <3>4. Seen(i) = "never"
      BY <3>1 DEF Seen
    <3> QED BY <3>1, <3>2, <3>3, <3>4
  <2> QED BY <2>2 DEF Ledger!Init, Ledger!NoSide
<1>2. TrackInv /\ [TrackCNext]_trackCVars => [PromiseStep]_trackCVars
  <2> SUFFICES ASSUME TrackInv, TrackCNext PROVE PromiseStep
    OBVIOUS
  <2>1. CASE Start \/ CrashC \/ RequestLostC
    BY <2>1 DEF Start, CrashC, RequestLostC, Exchange, Own, PromiseStep
  <2>2. CASE RequestArrives \/ OrderFills \/ OrderEnds
    BY <2>2, ExchangeMoves DEF PromiseStep
  <2> QED BY <2>1, <2>2, RunMoves, RecoverMoves DEF TrackCNext
<1> QED BY <1>1, <1>2, TrackHolds, PTL DEF TrackCSpec, KeepsPromise

(***************************************************************************)
(* The money the coins share.                                              *)
(***************************************************************************)
BookRows == [on : BOOLEAN, pending : Nat, entry : Nat, limit : Nat, qty : Nat, cost : Int, mark : Nat]
KeptRows == [qty : Nat, cost : Int, mark : Nat]

PortfolioTypes ==
  /\ cash \in Int /\ book \in [Coins -> BookRows] /\ kept \in [Coins -> KeptRows]
  /\ dayRealized \in Int /\ researchLoss \in Int /\ entered \in BOOLEAN

\* A book that is not open is empty.
ClosedIsEmpty == \A c \in Coins : ~book[c].on => book[c] = NoBook

PortfolioInv == PortfolioTypes /\ ClosedIsEmpty /\ PendingEntriesPaid /\ EntryKeepsDayLimit

\* Products distribute.
LEMMA Times == \A a, b, c \in Int : a * (b + c) = a * b + a * c /\ a * (b - c) = a * b - a * c
OBVIOUS

\* A product of natural numbers is one.
LEMMA TimesNat == \A a, b \in Nat : a * b \in Nat
OBVIOUS

\* A larger factor makes a larger product.
LEMMA TimesMonotone ==
  ASSUME NEW a \in Nat, NEW b \in Int, NEW c \in Int, b <= c
  PROVE  a * b <= a * c
<1>1. a * (c - b) = a * c - a * b
  BY Times
<1>2. c - b \in Nat
  OBVIOUS
<1>3. a * (c - b) \in Nat /\ a * c \in Int /\ a * b \in Int
  BY <1>2, TimesNat
<1> QED BY <1>1, <1>3

\* A common positive factor may be cancelled.
LEMMA DivideBoth ==
  ASSUME NEW d \in Nat \ {0}, NEW b \in Int, NEW c \in Int, d * b <= d * c
  PROVE  b <= c
<1> SUFFICES ASSUME c + 1 <= b PROVE FALSE
  OBVIOUS
<1>1. d * (c + 1) <= d * b
  BY TimesMonotone
<1>2. d * (c + 1) = d * c + d * 1 /\ d * 1 = d /\ d * c \in Int /\ d * b \in Int
  BY Times
<1> QED BY <1>1, <1>2

\* What the constants give.
LEMMA PortfolioNumbers ==
  /\ IsFiniteSet(Coins) /\ \A S \in SUBSET Coins : IsFiniteSet(S)
  /\ \A n \in Quantities \union Prices \union Limits \union CashLevels : n \in Nat
  /\ Den \in Nat \ {0} /\ CashPart \in Nat /\ CashPart <= Den /\ DailyPart \in Nat /\ RiskPart \in Nat
<1>1. IsFiniteSet(Coins) /\ \A S \in SUBSET Coins : IsFiniteSet(S)
  BY PortfolioAssumption, FS_Subset
<1>2. /\ Den \in Nat \ {0} /\ CashPart \in 0..Den /\ DailyPart \in 0..Den /\ RiskPart \in 0..Den
      /\ \A n \in Quantities \union Prices \union Limits \union CashLevels : n \in Nat
  BY PortfolioAssumption
<1> QED BY <1>1, <1>2

\* The fields of a book and of what is kept.
LEMMA BookFields ==
  ASSUME PortfolioTypes, NEW c \in Coins
  PROVE  /\ book[c] \in BookRows /\ book[c].on \in BOOLEAN /\ book[c].pending \in Nat /\ book[c].entry \in Nat
         /\ book[c].limit \in Nat /\ book[c].qty \in Nat /\ book[c].cost \in Int /\ book[c].mark \in Nat
         /\ kept[c] \in KeptRows /\ kept[c].qty \in Nat /\ kept[c].cost \in Int /\ kept[c].mark \in Nat
BY DEF PortfolioTypes, BookRows, KeptRows

\* The cash of the pending entries moves with that of one coin.
LEMMA ReservedMoves ==
  ASSUME PortfolioTypes, PortfolioTypes', NEW c \in Coins,
         \A d \in Coins \ {c} : book'[d].pending = book[d].pending /\ book'[d].entry = book[d].entry
  PROVE  /\ ReservedCash' = ReservedCash - book[c].pending * book[c].entry + book'[c].pending * book'[c].entry
         /\ ReservedCash \in Int
<1> DEFINE f == [d \in Coins |-> book[d].pending * book[d].entry]
           g == [d \in Coins |-> book'[d].pending * book'[d].entry]
<1>1. \A d \in Coins : f[d] \in Int /\ g[d] \in Int
  <2> SUFFICES ASSUME NEW d \in Coins PROVE f[d] \in Int /\ g[d] \in Int
    OBVIOUS
  <2>1. book[d].pending \in Nat /\ book[d].entry \in Nat /\ book'[d].pending \in Nat /\ book'[d].entry \in Nat
    BY BookFields DEF PortfolioTypes, BookRows
  <2> QED BY <2>1, TimesNat
<1>2. \A d \in Coins \ {c} : g[d] = f[d]
  OBVIOUS
<1>3. ReservedCash = SumFunctionOnSet(f, Coins) /\ ReservedCash' = SumFunctionOnSet(g, Coins)
  BY DEF ReservedCash
<1>4. f[c] = book[c].pending * book[c].entry /\ g[c] = book'[c].pending * book'[c].entry
  OBVIOUS
<1>5. IsFiniteSet(Coins)
  BY PortfolioNumbers
<1> HIDE DEF f, g
<1>6. SumFunctionOnSet(g, Coins) = SumFunctionOnSet(f, Coins) - f[c] + g[c]
  BY <1>1, <1>2, <1>5, SumChange
<1>7. SumFunctionOnSet(f, Coins) \in Int
  BY <1>1, <1>5, SumIsInt
<1> QED BY <1>3, <1>4, <1>6, <1>7

\* Nothing pending anywhere, nothing reserved.
LEMMA NothingReserved ==
  ASSUME PortfolioTypes, \A c \in Coins : book[c] = NoBook
  PROVE  ReservedCash = 0
<1> DEFINE f == [d \in Coins |-> book[d].pending * book[d].entry]
<1>1. \A d \in Coins : f[d] = 0
  BY DEF NoBook
<1>2. IsFiniteSet(Coins)
  BY PortfolioNumbers
<1> HIDE DEF f
<1>3. SumFunctionOnSet(f, Coins) = 0
  BY <1>1, <1>2, SumOfZeros
<1> QED BY <1>3 DEF ReservedCash, f

\* What a coin can lose at worst is within what the portfolio counts for it.
LEMMA WorstOfOne ==
  ASSUME PortfolioTypes, NEW c \in Coins
  PROVE  book[c].cost - book[c].qty * book[c].limit + book[c].pending * (book[c].entry - book[c].limit) + kept[c].cost
         <= (book[c].pending * NotNegative(book[c].entry - book[c].limit)
             + book[c].qty * NotNegative(book[c].mark - book[c].limit) + Value(kept[c]))
            - (Unrealized(book[c]) + Unrealized(kept[c]))
<1> DEFINE b == book[c]
           k == kept[c]
           vb == b.qty * b.mark
           vk == k.qty * k.mark
           lb == b.qty * b.limit
           dm == NotNegative(b.mark - b.limit)
           de == NotNegative(b.entry - b.limit)
<1>1. /\ b.pending \in Nat /\ b.entry \in Nat /\ b.limit \in Nat /\ b.qty \in Nat /\ b.cost \in Int /\ b.mark \in Nat
      /\ k.qty \in Nat /\ k.cost \in Int /\ k.mark \in Nat
  BY BookFields
<1>2. /\ vb \in Nat /\ vk \in Nat /\ lb \in Nat /\ dm \in Nat /\ de \in Nat
      /\ b.mark - b.limit <= dm /\ b.entry - b.limit <= de
      /\ b.mark - b.limit \in Int /\ b.entry - b.limit \in Int
  BY <1>1, TimesNat DEF NotNegative
<1>3. b.qty * (b.mark - b.limit) = vb - lb
  BY <1>1, Times
<1>4. b.qty * (b.mark - b.limit) <= b.qty * dm /\ b.pending * (b.entry - b.limit) <= b.pending * de
  <2> HIDE DEF dm, de
  <2> QED BY <1>1, <1>2, TimesMonotone
<1>5. /\ b.qty * dm \in Int /\ b.pending * de \in Int /\ b.pending * (b.entry - b.limit) \in Int
  <2> HIDE DEF dm, de
  <2> QED BY <1>1, <1>2
<1>6. Unrealized(b) = (IF vb < b.cost THEN vb - b.cost ELSE 0) /\ Unrealized(k) = (IF vk < k.cost THEN vk - k.cost ELSE 0)
      /\ Value(k) = vk
  BY DEF Unrealized, Value
<1> DEFINE qd == b.qty * dm
           pd == b.pending * de
           pe == b.pending * (b.entry - b.limit)
<1>7. /\ qd \in Int /\ pd \in Int /\ pe \in Int /\ vb - lb <= qd /\ pe <= pd
      /\ vb \in Nat /\ vk \in Nat /\ lb \in Nat /\ b.cost \in Int /\ k.cost \in Int
  BY <1>1, <1>2, <1>3, <1>4, <1>5
<1> DEFINE ub == IF vb < b.cost THEN vb - b.cost ELSE 0
           uk == IF vk < k.cost THEN vk - k.cost ELSE 0
<1>8. b.cost - lb + pe + k.cost <= (pd + qd + vk) - (ub + uk)
  <2> DEFINE bc == b.cost
             kc == k.cost
  <2> HIDE DEF vb, vk, lb, qd, pd, pe, bc, kc
  <2>1. /\ qd \in Int /\ pd \in Int /\ pe \in Int /\ vb - lb <= qd /\ pe <= pd
        /\ vb \in Nat /\ vk \in Nat /\ lb \in Nat /\ bc \in Int /\ kc \in Int
    BY <1>7 DEF bc, kc
  <2>2. ub \in Int /\ uk \in Int /\ bc - vb <= -ub /\ ub <= 0 /\ kc - vk <= -uk /\ uk <= 0
    BY <2>1 DEF bc, kc
  <2> HIDE DEF ub, uk
  <2>3. bc - lb + pe + kc <= (pd + qd + vk) - (ub + uk)
    BY <2>1, <2>2
  <2> QED BY <2>3 DEF bc, kc
<1> QED BY <1>6, <1>8

\* What the whole day can lose at worst is within what the portfolio counts.
LEMMA WorstOfAll ==
  ASSUME PortfolioTypes
  PROVE  /\ WorstDay <= CommittedRisk - dayRealized - UnrealizedLoss
         /\ WorstDay \in Int /\ CommittedRisk \in Nat /\ UnrealizedLoss \in Int /\ EquityC \in Nat
<1> DEFINE w == [c \in Coins |-> book[c].cost - book[c].qty * book[c].limit
                                 + book[c].pending * (book[c].entry - book[c].limit) + kept[c].cost]
           r == [c \in Coins |-> book[c].pending * NotNegative(book[c].entry - book[c].limit)
                                 + book[c].qty * NotNegative(book[c].mark - book[c].limit) + Value(kept[c])]
           u == [c \in Coins |-> Unrealized(book[c]) + Unrealized(kept[c])]
           v == [c \in Coins |-> Value(book[c]) + Value(kept[c])]
           h == [c \in Coins |-> r[c] - u[c]]
<1>1. \A c \in Coins : w[c] \in Int /\ r[c] \in Nat /\ u[c] \in Int /\ v[c] \in Int /\ w[c] <= r[c] - u[c]
  <2> SUFFICES ASSUME NEW c \in Coins
               PROVE  w[c] \in Int /\ r[c] \in Nat /\ u[c] \in Int /\ v[c] \in Int /\ w[c] <= r[c] - u[c]
    OBVIOUS
  <2>1. /\ book[c].pending \in Nat /\ book[c].entry \in Nat /\ book[c].limit \in Nat /\ book[c].qty \in Nat
        /\ book[c].cost \in Int /\ book[c].mark \in Nat /\ kept[c].qty \in Nat /\ kept[c].cost \in Int /\ kept[c].mark \in Nat
    BY BookFields
  <2>2. Value(book[c]) \in Nat /\ Value(kept[c]) \in Nat
    BY <2>1, TimesNat DEF Value
  <2>3. Unrealized(book[c]) \in Int /\ Unrealized(kept[c]) \in Int
    BY <2>1, <2>2 DEF Unrealized
  <2>4. NotNegative(book[c].entry - book[c].limit) \in Nat /\ NotNegative(book[c].mark - book[c].limit) \in Nat
    BY <2>1 DEF NotNegative
  <2>5. r[c] \in Nat
    <3> DEFINE e == NotNegative(book[c].entry - book[c].limit)
               m == NotNegative(book[c].mark - book[c].limit)
               x == Value(kept[c])
    <3>1. e \in Nat /\ m \in Nat /\ x \in Nat
      BY <2>2, <2>4
    <3> HIDE DEF e, m, x
    <3>2. book[c].pending * e \in Nat /\ book[c].qty * m \in Nat
      BY <2>1, <3>1, TimesNat
    <3>3. book[c].pending * e + book[c].qty * m + x \in Nat
      BY <3>1, <3>2
    <3> QED BY <3>3 DEF e, m, x
  <2>6. w[c] \in Int
    BY <2>1
  <2>7. w[c] <= r[c] - u[c]
    BY WorstOfOne
  <2> QED BY <2>2, <2>3, <2>5, <2>6, <2>7
<1>2. /\ CommittedRisk = SumFunctionOnSet(r, Coins) /\ UnrealizedLoss = SumFunctionOnSet(u, Coins)
      /\ WorstDay = -dayRealized + SumFunctionOnSet(w, Coins)
      /\ EquityC = NotNegative(cash + SumFunctionOnSet(v, Coins))
  BY DEF CommittedRisk, UnrealizedLoss, WorstDay, EquityC
<1>3. IsFiniteSet(Coins)
  BY PortfolioNumbers
<1>4. \A c \in Coins : h[c] \in Int /\ h[c] = r[c] - u[c]
  <2> HIDE DEF r, u
  <2> QED BY <1>1
<1> HIDE DEF w, r, u, v, h
<1>5. SumFunctionOnSet(w, Coins) <= SumFunctionOnSet(h, Coins)
  BY <1>1, <1>3, <1>4, SumMonotone
<1>6. SumFunctionOnSet(h, Coins) = SumFunctionOnSet(r, Coins) - SumFunctionOnSet(u, Coins)
  BY <1>1, <1>3, <1>4, SumDifference
<1>7. SumFunctionOnSet(w, Coins) \in Int /\ SumFunctionOnSet(u, Coins) \in Int /\ SumFunctionOnSet(v, Coins) \in Int
  BY <1>1, <1>3, SumIsInt
<1>8. SumFunctionOnSet(r, Coins) \in Nat
  BY <1>1, <1>3, SumOfNats
<1>9. EquityC \in Nat
  BY <1>2, <1>7 DEF NotNegative, PortfolioTypes
<1> QED BY <1>2, <1>5, <1>6, <1>7, <1>8, <1>9 DEF PortfolioTypes

\* The same of the next state.
LEMMA WorstLater ==
  PortfolioTypes' => (WorstDay <= CommittedRisk - dayRealized - UnrealizedLoss /\ WorstDay \in Int)'
<1>1. PortfolioTypes => WorstDay <= CommittedRisk - dayRealized - UnrealizedLoss /\ WorstDay \in Int
  BY WorstOfAll
<1> QED BY <1>1, PTL

\* A new book changes what the portfolio counts by its own risk, and the equity not at all.
LEMMA EnterCounts ==
  ASSUME PortfolioInv, PortfolioTypes', NEW c \in Coins, NEW q \in Nat, NEW entry \in Nat, NEW limit \in Nat,
         EnterBook(c, q, entry, limit)
  PROVE  /\ CommittedRisk' = CommittedRisk + q * (entry - limit)
         /\ UnrealizedLoss' = UnrealizedLoss /\ EquityC' = EquityC /\ dayRealized' = dayRealized
<1> DEFINE R(b, k) == [d \in Coins |-> b[d].pending * NotNegative(b[d].entry - b[d].limit)
                                       + b[d].qty * NotNegative(b[d].mark - b[d].limit) + Value(k[d])]
           U(b, k) == [d \in Coins |-> Unrealized(b[d]) + Unrealized(k[d])]
           V(b, k) == [d \in Coins |-> Value(b[d]) + Value(k[d])]
           n == [NoBook EXCEPT !.on = TRUE, !.pending = q, !.entry = entry, !.limit = limit, !.mark = entry]
<1>1. /\ PortfolioTypes /\ book[c] = NoBook /\ entry > limit
      /\ book' = [book EXCEPT ![c] = n] /\ UNCHANGED <<cash, kept, dayRealized>>
  BY DEF PortfolioInv, ClosedIsEmpty, EnterBook
<1>2. /\ n.pending = q /\ n.entry = entry /\ n.limit = limit /\ n.mark = entry /\ n.qty = 0 /\ n.cost = 0
      /\ NoBook.pending = 0 /\ NoBook.entry = 0 /\ NoBook.limit = 0 /\ NoBook.mark = 0 /\ NoBook.qty = 0 /\ NoBook.cost = 0
  BY DEF NoBook
<1> HIDE DEF n
<1>3. book'[c] = n /\ \A d \in Coins \ {c} : book'[d] = book[d]
  BY <1>1 DEF PortfolioTypes
<1>4. /\ Value(n) = 0 /\ Value(NoBook) = 0 /\ Unrealized(n) = 0 /\ Unrealized(NoBook) = 0
  BY <1>2 DEF Value, Unrealized
<1>5. U(book, kept)' = U(book, kept) /\ V(book, kept)' = V(book, kept)
  <2>1. \A d \in Coins : Unrealized(book'[d]) = Unrealized(book[d]) /\ Value(book'[d]) = Value(book[d])
    <3> SUFFICES ASSUME NEW d \in Coins PROVE Unrealized(book'[d]) = Unrealized(book[d]) /\ Value(book'[d]) = Value(book[d])
      OBVIOUS
    <3> QED BY <1>1, <1>3, <1>4
  <2> QED BY <1>1, <2>1
<1>6. UnrealizedLoss' = UnrealizedLoss /\ EquityC' = EquityC
  BY <1>1, <1>5 DEF UnrealizedLoss, EquityC
<1>7. CommittedRisk' = CommittedRisk + q * (entry - limit)
  <2> DEFINE f == R(book, kept)
             g == R(book', kept')
  <2>1. CommittedRisk = SumFunctionOnSet(f, Coins) /\ CommittedRisk' = SumFunctionOnSet(g, Coins)
    BY DEF CommittedRisk
  <2>2. \A d \in Coins : f[d] \in Int /\ g[d] \in Int
    <3>1. ASSUME NEW b \in [Coins -> BookRows], NEW k \in [Coins -> KeptRows], NEW d \in Coins
          PROVE  R(b, k)[d] \in Int
      <4>1. /\ b[d].pending \in Nat /\ b[d].entry \in Nat /\ b[d].limit \in Nat /\ b[d].qty \in Nat /\ b[d].mark \in Nat
            /\ k[d].qty \in Nat /\ k[d].mark \in Nat
        BY <3>1 DEF BookRows, KeptRows
      <4>2. NotNegative(b[d].entry - b[d].limit) \in Nat /\ NotNegative(b[d].mark - b[d].limit) \in Nat /\ Value(k[d]) \in Nat
        BY <4>1, TimesNat DEF NotNegative, Value
      <4> QED BY <4>1, <4>2
    <3>2. book \in [Coins -> BookRows] /\ kept \in [Coins -> KeptRows] /\ book' \in [Coins -> BookRows] /\ kept' \in [Coins -> KeptRows]
      BY <1>1 DEF PortfolioTypes
    <3> HIDE DEF R
    <3> QED BY <3>1, <3>2
  <2>3. \A d \in Coins \ {c} : g[d] = f[d]
    BY <1>1, <1>3
  <2>4. f[c] = Value(kept[c]) /\ g[c] = q * (entry - limit) + Value(kept[c]) /\ Value(kept[c]) \in Int
    <3>1. NotNegative(entry - limit) = entry - limit /\ NotNegative(entry - limit) \in Int /\ NotNegative(0 - 0) \in Int
      BY <1>1 DEF NotNegative
    <3>2. Value(kept[c]) \in Int
      BY <1>1, BookFields DEF Value
    <3>3. f[c] = 0 * NotNegative(0 - 0) + 0 * NotNegative(0 - 0) + Value(kept[c])
      BY <1>1, <1>2
    <3>4. g[c] = q * NotNegative(entry - limit) + 0 * NotNegative(entry - limit) + Value(kept[c])
      BY <1>1, <1>2, <1>3
    <3>5. q * (entry - limit) \in Int
      OBVIOUS
    <3> QED BY <3>1, <3>2, <3>3, <3>4, <3>5
  <2>5. IsFiniteSet(Coins)
    BY PortfolioNumbers
  <2> HIDE DEF f, g
  <2>6. SumFunctionOnSet(g, Coins) = SumFunctionOnSet(f, Coins) - f[c] + g[c]
    BY <2>2, <2>3, <2>5, SumChange
  <2>7. SumFunctionOnSet(f, Coins) \in Int /\ q * (entry - limit) \in Int
    BY <2>2, <2>5, SumIsInt
  <2> QED BY <2>1, <2>4, <2>6, <2>7
<1> QED BY <1>1, <1>6, <1>7

\* The loss that the limits of enter still admit covers the worst day it leaves possible.
LEMMA EnterKeepsDay ==
  ASSUME PortfolioInv, PortfolioTypes', NEW c \in Coins, NEW q \in Nat, NEW entry \in Nat, NEW limit \in Nat,
         EnterBook(c, q, entry, limit)
  PROVE  EntryKeepsDayLimit'
<1> DEFINE risk == q * (entry - limit)
           E == EquityC
           C == CommittedRisk
           U == UnrealizedLoss
           day == E * DailyPart + Den * (dayRealized + U)
<1>1. /\ PortfolioTypes /\ entry > limit /\ q > 0 /\ Den * risk <= RemainingRisk
  BY DEF PortfolioInv, EnterBook
<1>2. risk \in Nat \ {0}
  <2>1. entry - limit \in Nat \ {0}
    BY <1>1
  <2>2. q * 1 <= q * (entry - limit) /\ q * 1 = q /\ q * (entry - limit) \in Nat
    BY <2>1, TimesMonotone, TimesNat
  <2> QED BY <1>1, <2>2
<1>3. C \in Nat /\ U \in Int /\ E \in Nat /\ dayRealized \in Int /\ Den \in Nat \ {0} /\ DailyPart \in Nat /\ RiskPart \in Nat
  BY <1>1, WorstOfAll, PortfolioNumbers DEF PortfolioTypes
<1>4. WorstDay' <= C + risk - dayRealized - U /\ WorstDay' \in Int /\ EquityC' = E
  <2>1. /\ WorstDay' <= CommittedRisk' - dayRealized' - UnrealizedLoss'
        /\ WorstDay' \in Int
    BY WorstLater
  <2>2. /\ CommittedRisk' = CommittedRisk + q * (entry - limit)
        /\ UnrealizedLoss' = UnrealizedLoss /\ EquityC' = EquityC /\ dayRealized' = dayRealized
    BY EnterCounts
  <2> HIDE DEF C, U, E, risk
  <2>3. CommittedRisk' = C + risk /\ UnrealizedLoss' = U /\ EquityC' = E
    BY <2>2 DEF C, U, E, risk
  <2>4. CommittedRisk' - dayRealized' - UnrealizedLoss' = C + risk - dayRealized - U
    BY <1>2, <1>3, <2>2, <2>3
  <2> QED BY <1>2, <1>3, <2>1, <2>3, <2>4
<1> HIDE DEF risk, E, C, U
<1>5. E * DailyPart \in Nat /\ E * RiskPart \in Nat /\ Den * (dayRealized + U) \in Int /\ day \in Int
      /\ Den * risk \in Nat /\ Den * C \in Nat /\ Den * risk > 0
  <2>1. E * DailyPart \in Nat /\ E * RiskPart \in Nat /\ Den * risk \in Nat /\ Den * C \in Nat
    BY <1>2, <1>3, TimesNat
  <2>2. dayRealized + U \in Int
    BY <1>3
  <2>3. Den * (dayRealized + U) \in Int
    BY <1>3, <2>2
  <2>4. Den * 1 <= Den * risk /\ Den * 1 = Den
    BY <1>2, <1>3, TimesMonotone
  <2> QED BY <1>3, <2>1, <2>3, <2>4
<1>6. RemainingRisk = NotNegative((IF NotNegative(day) < E * RiskPart THEN NotNegative(day) ELSE E * RiskPart) - Den * C)
  BY DEF RemainingRisk, DailyRemaining, RiskOfEquity, E, C, U
<1>7. Den * risk + Den * C <= day
  <2> DEFINE rest == Den * risk
             spent == Den * C
             part == E * RiskPart
  <2>1. rest \in Nat /\ rest > 0 /\ spent \in Nat /\ part \in Nat /\ day \in Int /\ rest <= RemainingRisk
        /\ RemainingRisk = NotNegative((IF NotNegative(day) < part THEN NotNegative(day) ELSE part) - spent)
    BY <1>1, <1>5, <1>6 DEF risk
  <2> DEFINE n == NotNegative(day)
             least == IF n < part THEN n ELSE part
  <2> HIDE DEF rest, spent, part, day
  <2>2. n \in Nat /\ (n > 0 => n = day)
    BY <2>1 DEF NotNegative
  <2> HIDE DEF n
  <2>3. least \in Nat /\ least <= n /\ RemainingRisk = NotNegative(least - spent)
    BY <2>1, <2>2 DEF n
  <2> HIDE DEF least
  <2>4. rest <= least - spent
    BY <2>1, <2>3 DEF NotNegative
  <2>5. rest + spent <= day
    BY <2>1, <2>2, <2>3, <2>4
  <2> QED BY <2>5 DEF rest, spent
<1>8. Den * (C + risk - dayRealized - U) <= E * DailyPart
  <2>1. Den * (risk + C) = Den * risk + Den * C
    BY <1>2, <1>3, Times
  <2>2. Den * ((risk + C) - (dayRealized + U)) = Den * (risk + C) - Den * (dayRealized + U)
    BY <1>2, <1>3, Times
  <2>3. (risk + C) - (dayRealized + U) = C + risk - dayRealized - U
    BY <1>2, <1>3
  <2> DEFINE x == Den * risk
             y == Den * C
             z == Den * (dayRealized + U)
             e == E * DailyPart
             t == Den * (risk + C)
             w == Den * ((risk + C) - (dayRealized + U))
  <2>4. x \in Int /\ y \in Int /\ z \in Int /\ e \in Int /\ x + y <= e + z /\ t = x + y /\ w = t - z
    BY <1>5, <1>7, <2>1, <2>2
  <2> HIDE DEF x, y, z, e, t, w
  <2>5. w <= e
    BY <2>4
  <2> QED BY <2>3, <2>5 DEF w, e
<1>9. Den * WorstDay' <= Den * (C + risk - dayRealized - U)
  <2>1. C + risk - dayRealized - U \in Int
    BY <1>2, <1>3
  <2> QED BY <1>3, <1>4, <2>1, TimesMonotone
<1>10. Den * WorstDay' <= E * DailyPart
  <2>1. Den * WorstDay' \in Int /\ Den * (C + risk - dayRealized - U) \in Int
    BY <1>2, <1>3, <1>4
  <2> QED BY <1>5, <1>8, <1>9, <2>1
<1> QED BY <1>4, <1>10 DEF EntryKeepsDayLimit

\* A step that enters nothing, sees no money moved and reserves no more than it spends.
LEMMA QuietMoneyKeeps ==
  ASSUME PortfolioTypes', ClosedIsEmpty', ReservedCash' <= cash', entered' = FALSE
  PROVE  PortfolioInv'
BY DEF PortfolioInv, PendingEntriesPaid, EntryKeepsDayLimit

\* An entry: the cash allows it and the worst day it leaves possible was checked.
LEMMA EnterMoneyKeeps ==
  ASSUME PortfolioInv, NEW c \in Coins, NEW q \in Nat, NEW entry \in Nat, NEW limit \in Nat,
         EnterBook(c, q, entry, limit)
  PROVE  PortfolioInv'
<1> DEFINE n == [NoBook EXCEPT !.on = TRUE, !.pending = q, !.entry = entry, !.limit = limit, !.mark = entry]
<1>1. /\ PortfolioTypes /\ ClosedIsEmpty /\ ReservedCash <= cash /\ book[c] = NoBook /\ entry > limit /\ q > 0
      /\ CashAllows(q * entry)
      /\ book' = [book EXCEPT ![c] = n] /\ UNCHANGED <<cash, kept, dayRealized, researchLoss>> /\ entered' = TRUE
  BY DEF PortfolioInv, PendingEntriesPaid, ClosedIsEmpty, EnterBook
<1>2. n \in BookRows /\ n.pending = q /\ n.entry = entry /\ n.on
  <2>1. NoBook \in BookRows
    BY DEF NoBook, BookRows
  <2> QED BY <2>1 DEF BookRows
<1> HIDE DEF n
<1>3. PortfolioTypes'
  BY <1>1, <1>2 DEF PortfolioTypes
<1>4. ClosedIsEmpty'
  BY <1>1, <1>2 DEF ClosedIsEmpty, PortfolioTypes
<1>5. EntryKeepsDayLimit'
  BY <1>3, EnterKeepsDay
<1>6. ReservedCash' = ReservedCash + q * entry /\ ReservedCash \in Int
  <2>1. book'[c] = n /\ \A d \in Coins \ {c} : book'[d].pending = book[d].pending /\ book'[d].entry = book[d].entry
    BY <1>1 DEF PortfolioTypes
  <2>2. /\ ReservedCash' = ReservedCash - book[c].pending * book[c].entry + book'[c].pending * book'[c].entry
        /\ ReservedCash \in Int
    BY <1>1, <1>3, <2>1, ReservedMoves
  <2>3. book[c].pending * book[c].entry = 0 /\ book'[c].pending * book'[c].entry = q * entry
    BY <1>1, <1>2, <2>1 DEF NoBook
  <2> QED BY <2>2, <2>3
<1>7. ReservedCash' <= cash'
  <2> DEFINE need == q * entry
             R == ReservedCash
  <2>1. need \in Nat /\ need > 0 /\ R \in Int /\ cash \in Int /\ R <= cash /\ Den \in Nat \ {0} /\ CashPart \in Nat /\ CashPart <= Den
    <3>1. q * 1 <= q * entry /\ q * 1 = q
      BY <1>1, TimesMonotone
    <3> QED BY <1>1, <1>6, <3>1, TimesNat, PortfolioNumbers DEF PortfolioTypes
  <2>2. R \in Nat
    <3> DEFINE f == [d \in Coins |-> book[d].pending * book[d].entry]
    <3>1. \A d \in Coins : f[d] \in Nat
      BY <1>1, BookFields, TimesNat
    <3>2. IsFiniteSet(Coins)
      BY PortfolioNumbers
    <3> HIDE DEF f
    <3>3. SumFunctionOnSet(f, Coins) \in Nat
      BY <3>1, <3>2, SumOfNats
    <3> QED BY <3>3 DEF ReservedCash, f
  <2>3. Den * need <= NotNegative(cash * CashPart - Den * R)
    BY <1>1 DEF CashAllows
  <2> HIDE DEF need, R
  <2>4. cash \in Nat
    BY <2>1, <2>2
  <2>5. cash * CashPart <= cash * Den /\ cash * Den = Den * cash /\ cash * CashPart \in Int /\ Den * R \in Int /\ Den * need \in Nat
        /\ Den * 1 <= Den * need /\ Den * 1 = Den /\ Den * cash \in Int
    BY <2>1, <2>2, <2>4, TimesMonotone
  <2>6. Den * need + Den * R <= Den * cash
    <3> DEFINE a == Den * need
               b == Den * R
               d == cash * CashPart
               e == Den * cash
    <3>1. a \in Int /\ a > 0 /\ b \in Int /\ d \in Int /\ e \in Int /\ d <= e /\ a <= NotNegative(d - b)
      BY <2>1, <2>3, <2>5
    <3> HIDE DEF a, b, d, e
    <3>2. a + b <= e
      BY <3>1 DEF NotNegative
    <3> QED BY <3>2 DEF a, b, e
  <2>7. Den * (need + R) = Den * need + Den * R
    BY <2>1, <2>2, Times
  <2>8. need + R <= cash
    <3>1. need + R \in Int /\ Den * (need + R) <= Den * cash
      BY <2>1, <2>2, <2>6, <2>7
    <3> QED BY <2>1, <3>1, DivideBoth
  <2> QED BY <1>1, <1>6, <2>1, <2>8 DEF need, R
<1> QED BY <1>3, <1>4, <1>5, <1>7 DEF PortfolioInv, PendingEntriesPaid

\* A fill at its price or better spends no more than was reserved for it.
LEMMA BuyMoneyKeeps ==
  ASSUME PortfolioInv, NEW c \in Coins, NEW n \in Nat, NEW price \in Nat, BuyFills(c, n, price)
  PROVE  PortfolioInv'
<1> DEFINE b == book[c]
           r == [book[c] EXCEPT !.pending = @ - n, !.qty = @ + n, !.cost = @ + n * price]
<1>1. /\ PortfolioTypes /\ ClosedIsEmpty /\ ReservedCash <= cash /\ n \in 1..b.pending /\ price <= b.entry
      /\ cash' = cash - n * price /\ UNCHANGED <<kept, dayRealized, researchLoss>> /\ entered' = FALSE
      /\ book' = [book EXCEPT ![c].pending = @ - n, ![c].qty = @ + n, ![c].cost = @ + n * price]
  BY DEF PortfolioInv, PendingEntriesPaid, BuyFills, Moves
<1>2. /\ b \in BookRows /\ b.pending \in Nat /\ b.entry \in Nat /\ b.qty \in Nat /\ b.cost \in Int
      /\ n * price \in Int /\ b.pending - n \in Nat /\ b.qty + n \in Nat /\ b.cost + n * price \in Int
  <2>1. b \in BookRows /\ b.pending \in Nat /\ b.entry \in Nat /\ b.qty \in Nat /\ b.cost \in Int
    BY <1>1, BookFields
  <2> QED BY <1>1, <2>1
<1>3. book' = [book EXCEPT ![c] = r]
  BY <1>1 DEF PortfolioTypes
<1>4. r \in BookRows /\ r.pending = b.pending - n /\ r.entry = b.entry /\ r.on = b.on
  <2> DEFINE x == b.cost + n * price
  <2>1. r = [b EXCEPT !.pending = b.pending - n, !.qty = b.qty + n, !.cost = x]
    BY <1>2 DEF BookRows
  <2>2. x \in Int
    BY <1>2
  <2> HIDE DEF x, r, b
  <2> QED BY <1>2, <2>1, <2>2 DEF BookRows
<1> HIDE DEF r
<1>5. PortfolioTypes'
  <2>1. cash' \in Int
    BY <1>1, <1>2 DEF PortfolioTypes
  <2> QED BY <1>1, <1>3, <1>4, <2>1 DEF PortfolioTypes
<1>6. ClosedIsEmpty'
  <2>1. b.on
    <3>1. b # NoBook
      BY <1>1 DEF NoBook
    <3> QED BY <1>1, <3>1 DEF ClosedIsEmpty
  <2> QED BY <1>1, <1>3, <1>4, <2>1 DEF ClosedIsEmpty, PortfolioTypes
<1>7. ReservedCash' <= cash'
  <2>1. book'[c] = r /\ \A d \in Coins \ {c} : book'[d].pending = book[d].pending /\ book'[d].entry = book[d].entry
    BY <1>1, <1>3 DEF PortfolioTypes
  <2>2. /\ ReservedCash' = ReservedCash - b.pending * b.entry + r.pending * r.entry
        /\ ReservedCash \in Int
    <3>1. /\ ReservedCash' = ReservedCash - book[c].pending * book[c].entry + book'[c].pending * book'[c].entry
          /\ ReservedCash \in Int
      BY <1>1, <1>5, <2>1, ReservedMoves
    <3> QED BY <2>1, <3>1
  <2>3. (b.pending - n) * b.entry = b.pending * b.entry - n * b.entry
    <3>1. b.entry * (b.pending - n) = b.entry * b.pending - b.entry * n
      BY <1>2, Times
    <3>2. \A x, y \in Int : x * y = y * x
      OBVIOUS
    <3> QED BY <1>2, <3>1, <3>2
  <2>4. n * price <= n * b.entry /\ n * b.entry \in Int /\ b.pending * b.entry \in Int
    BY <1>1, <1>2, TimesMonotone
  <2>5. ReservedCash' = ReservedCash - n * b.entry
    BY <1>4, <2>2, <2>3, <2>4
  <2>6. ReservedCash \in Int /\ cash \in Int
    BY <1>1, <2>2 DEF PortfolioTypes
  <2> QED BY <1>1, <1>2, <2>4, <2>5, <2>6
<1> QED BY <1>1, <1>5, <1>6, <1>7, QuietMoneyKeeps

\* A step after which no coin has more pending than before, and no less cash is there.
LEMMA OtherMoneyKeeps ==
  ASSUME PortfolioInv, PortfolioTypes', ClosedIsEmpty', entered' = FALSE, NEW c \in Coins, cash <= cash',
         \A d \in Coins \ {c} : book'[d].pending = book[d].pending /\ book'[d].entry = book[d].entry,
         book'[c].pending = 0 \/ (book'[c].pending = book[c].pending /\ book'[c].entry = book[c].entry)
  PROVE  PortfolioInv'
<1>1. PortfolioTypes /\ ReservedCash <= cash /\ cash \in Int /\ cash' \in Int
  BY DEF PortfolioInv, PendingEntriesPaid, PortfolioTypes
<1>2. /\ ReservedCash' = ReservedCash - book[c].pending * book[c].entry + book'[c].pending * book'[c].entry
      /\ ReservedCash \in Int
  BY <1>1, ReservedMoves
<1>3. /\ book[c].pending \in Nat /\ book[c].entry \in Nat /\ book'[c].entry \in Nat /\ book[c].pending * book[c].entry \in Nat
  <2>1. book[c].pending \in Nat /\ book[c].entry \in Nat /\ book'[c].entry \in Nat
    BY <1>1, BookFields DEF PortfolioTypes, BookRows
  <2> QED BY <2>1, TimesNat
<1>4. book'[c].pending * book'[c].entry <= book[c].pending * book[c].entry /\ book'[c].pending * book'[c].entry \in Int
  <2>1. CASE book'[c].pending = 0
    <3>1. book'[c].pending * book'[c].entry = 0
      BY <1>3, <2>1
    <3> QED BY <1>3, <3>1
  <2>2. CASE book'[c].pending = book[c].pending /\ book'[c].entry = book[c].entry
    BY <1>3, <2>2
  <2> QED BY <2>1, <2>2
<1>5. ReservedCash' <= cash'
  <2> DEFINE x == book'[c].pending * book'[c].entry
             y == book[c].pending * book[c].entry
  <2>1. x \in Int /\ y \in Int /\ x <= y /\ ReservedCash' = ReservedCash - y + x
    BY <1>2, <1>3, <1>4
  <2> HIDE DEF x, y
  <2> QED BY <1>1, <1>2, <2>1
<1> QED BY <1>5, QuietMoneyKeeps

\* A sale pays in, at a gain or at a loss, after the entry is gone.
LEMMA SaleMoneyKeeps ==
  ASSUME PortfolioInv, NEW c \in Coins, NEW n \in Nat, NEW price \in Nat, SaleFills(c, n, price)
  PROVE  PortfolioInv'
<1> DEFINE b == book[c]
           basis == (book[c].cost * n) \div book[c].qty
           r == [book[c] EXCEPT !.qty = @ - n, !.cost = @ - basis]
           pnl == n * price - basis
<1>1. /\ PortfolioTypes /\ ClosedIsEmpty /\ b.pending = 0 /\ n \in 1..b.qty
      /\ cash' = cash + n * price /\ kept' = kept /\ entered' = FALSE
      /\ dayRealized' = dayRealized + pnl /\ researchLoss' = researchLoss + NotNegative(-pnl)
      /\ book' = [book EXCEPT ![c].qty = @ - n, ![c].cost = @ - basis]
  BY DEF PortfolioInv, SaleFills, Moves
<1>2. /\ b \in BookRows /\ b.pending \in Nat /\ b.entry \in Nat /\ b.qty \in Nat /\ b.cost \in Int
  BY <1>1, BookFields
<1>3. basis \in Int /\ n * price \in Nat /\ b.qty - n \in Nat
  <2>1. b.qty \in Nat \ {0} /\ b.qty - n \in Nat
    BY <1>1, <1>2
  <2>2. \A x \in Int, y \in Nat \ {0} : x \div y \in Int
    OBVIOUS
  <2>3. b.cost * n \in Int
    BY <1>2
  <2> QED BY <2>1, <2>2, <2>3, TimesNat
<1>4. book' = [book EXCEPT ![c] = r]
  <2> HIDE DEF basis
  <2> QED BY <1>1 DEF PortfolioTypes
<1>5. r \in BookRows /\ r.pending = 0 /\ r.entry = b.entry /\ r.on = b.on
  <2> DEFINE x == b.cost - basis
             y == b.qty - n
  <2>1. r = [b EXCEPT !.qty = y, !.cost = x]
    BY <1>2 DEF BookRows
  <2>2. x \in Int /\ y \in Nat
    BY <1>2, <1>3
  <2> HIDE DEF x, y, r, b
  <2> QED BY <1>1, <1>2, <2>1, <2>2 DEF BookRows
<1>6. pnl \in Int
  <2> HIDE DEF basis
  <2> QED BY <1>3
<1> HIDE DEF r, pnl, basis
<1>7. PortfolioTypes'
  <2>1. cash' \in Int /\ dayRealized' \in Int /\ researchLoss' \in Int
    BY <1>1, <1>3, <1>6 DEF PortfolioTypes, NotNegative
  <2> QED BY <1>1, <1>4, <1>5, <2>1 DEF PortfolioTypes
<1>8. ClosedIsEmpty'
  <2>1. b.on
    <3>1. b # NoBook
      BY <1>1 DEF NoBook
    <3> QED BY <1>1, <3>1 DEF ClosedIsEmpty
  <2> QED BY <1>1, <1>4, <1>5, <2>1 DEF ClosedIsEmpty, PortfolioTypes
<1>9. cash <= cash' /\ book'[c].pending = 0 /\ \A d \in Coins \ {c} : book'[d] = book[d]
  BY <1>1, <1>3, <1>4, <1>5 DEF PortfolioTypes
<1> QED BY <1>1, <1>7, <1>8, <1>9, OtherMoneyKeeps

\* A book whose entry ends, that closes or whose rest is kept reserves nothing.
LEMMA EndMoneyKeeps ==
  ASSUME PortfolioInv, NEW c \in Coins, BuyEnds(c) \/ BookEnds(c) \/ KeepRest(c)
  PROVE  PortfolioInv'
<1>1. /\ PortfolioTypes /\ ClosedIsEmpty /\ entered' = FALSE /\ UNCHANGED <<cash, dayRealized, researchLoss>> /\ cash \in Int
  BY DEF PortfolioInv, PortfolioTypes, BuyEnds, BookEnds, KeepRest, Moves
<1>2. NoBook \in BookRows /\ NoBook.pending = 0
  BY DEF NoBook, BookRows
<1>3. \A d \in Coins : book[d] \in BookRows
  BY <1>1 DEF PortfolioTypes
<1>4. \E r \in BookRows : book' = [book EXCEPT ![c] = r] /\ r.pending = 0 /\ (~r.on => r = NoBook)
  <2>1. CASE BuyEnds(c)
    <3> DEFINE r == [book[c] EXCEPT !.pending = 0]
    <3>1. book' = [book EXCEPT ![c] = r] /\ book[c].pending > 0
      BY <1>1, <2>1 DEF BuyEnds, PortfolioTypes
    <3>2. r \in BookRows /\ r.pending = 0 /\ r.on = book[c].on
      BY <1>3 DEF BookRows
    <3>3. book[c].on
      BY <1>1, <1>2, <3>1 DEF ClosedIsEmpty
    <3> HIDE DEF r
    <3> QED BY <3>1, <3>2, <3>3
  <2>2. CASE BookEnds(c) \/ KeepRest(c)
    BY <1>2, <2>2 DEF BookEnds, KeepRest
  <2> QED BY <2>1, <2>2
<1>5. PICK r \in BookRows : book' = [book EXCEPT ![c] = r] /\ r.pending = 0 /\ (~r.on => r = NoBook)
  BY <1>4
<1>6. kept' \in [Coins -> KeptRows]
  <2>1. CASE BuyEnds(c) \/ BookEnds(c)
    BY <1>1, <2>1 DEF BuyEnds, BookEnds, PortfolioTypes
  <2>2. CASE KeepRest(c)
    <3>1. /\ kept[c].qty \in Nat /\ kept[c].cost \in Int /\ book[c].qty \in Nat /\ book[c].cost \in Int /\ book[c].mark \in Nat
      BY <1>1, BookFields
    <3> DEFINE k == [qty |-> kept[c].qty + book[c].qty, cost |-> kept[c].cost + book[c].cost, mark |-> book[c].mark]
    <3>2. k \in KeptRows
      BY <3>1 DEF KeptRows
    <3>3. kept' = [kept EXCEPT ![c] = k]
      BY <2>2 DEF KeepRest
    <3> HIDE DEF k
    <3> QED BY <1>1, <3>2, <3>3 DEF PortfolioTypes
  <2> QED BY <2>1, <2>2
<1>7. PortfolioTypes'
  BY <1>1, <1>5, <1>6 DEF PortfolioTypes
<1>8. ClosedIsEmpty'
  BY <1>1, <1>5 DEF ClosedIsEmpty, PortfolioTypes
<1>9. cash <= cash' /\ book'[c].pending = 0 /\ \A d \in Coins \ {c} : book'[d] = book[d]
  BY <1>1, <1>5 DEF PortfolioTypes
<1> QED BY <1>1, <1>7, <1>8, <1>9, OtherMoneyKeeps

\* A price moves the marks and nothing that is reserved.
LEMMA MarkMoneyKeeps ==
  ASSUME PortfolioInv, NEW c \in Coins, NEW price \in Nat, MarkMovesC(c, price)
  PROVE  PortfolioInv'
<1>1. /\ PortfolioTypes /\ ClosedIsEmpty /\ entered' = FALSE /\ UNCHANGED <<cash, dayRealized, researchLoss>> /\ cash \in Int
      /\ book' = IF book[c].on THEN [book EXCEPT ![c].mark = price] ELSE book
      /\ kept' = IF kept[c].qty > 0 THEN [kept EXCEPT ![c].mark = price] ELSE kept
  BY DEF PortfolioInv, PortfolioTypes, MarkMovesC, Moves
<1> DEFINE r == [book[c] EXCEPT !.mark = price]
           k == [kept[c] EXCEPT !.mark = price]
<1>2. /\ r \in BookRows /\ r.pending = book[c].pending /\ r.entry = book[c].entry /\ r.on = book[c].on
      /\ k \in KeptRows
  <2>1. book[c] \in BookRows /\ kept[c] \in KeptRows
    BY <1>1, BookFields
  <2> QED BY <2>1 DEF BookRows, KeptRows
<1>3. book' \in {book, [book EXCEPT ![c] = r]} /\ kept' \in {kept, [kept EXCEPT ![c] = k]}
      /\ (book' # book => book[c].on)
  BY <1>1 DEF PortfolioTypes
<1> HIDE DEF r, k
<1>4. PortfolioTypes'
  BY <1>1, <1>2, <1>3 DEF PortfolioTypes
<1>5. ClosedIsEmpty'
  BY <1>1, <1>2, <1>3 DEF ClosedIsEmpty, PortfolioTypes
<1>6. /\ cash <= cash' /\ book'[c].pending = book[c].pending /\ book'[c].entry = book[c].entry
      /\ \A d \in Coins \ {c} : book'[d] = book[d]
  BY <1>1, <1>2, <1>3 DEF PortfolioTypes
<1> QED BY <1>1, <1>4, <1>5, <1>6, OtherMoneyKeeps

\* Every step keeps the invariant.
LEMMA PortfolioKeeps ==
  ASSUME PortfolioInv, [PortfolioNext]_portfolioVars
  PROVE  PortfolioInv'
<1>1. \A n \in Quantities \union Prices \union Limits \union CashLevels : n \in Nat
  BY PortfolioNumbers
<1>2. CASE UNCHANGED portfolioVars
  BY <1>2 DEF portfolioVars, PortfolioInv, PortfolioTypes, ClosedIsEmpty, PendingEntriesPaid, EntryKeepsDayLimit, ReservedCash,
              WorstDay, EquityC
<1>3. CASE RollDayC
  <2>1. /\ PortfolioTypes /\ ClosedIsEmpty /\ ReservedCash <= cash /\ entered' = FALSE
        /\ dayRealized' = 0 /\ researchLoss' = 0 /\ UNCHANGED <<cash, book, kept>>
    BY <1>3 DEF RollDayC, Moves, PortfolioInv, PendingEntriesPaid
  <2>2. PortfolioTypes'
    <3>1. cash' \in Int /\ dayRealized' \in Int /\ researchLoss' \in Int
      BY <2>1 DEF PortfolioTypes
    <3>2. book' \in [Coins -> BookRows] /\ kept' \in [Coins -> KeptRows]
      BY <2>1 DEF PortfolioTypes
    <3>3. entered' \in BOOLEAN
      BY <2>1
    <3> QED BY <3>1, <3>2, <3>3 DEF PortfolioTypes
  <2>3. ClosedIsEmpty'
    BY <2>1 DEF ClosedIsEmpty
  <2>4. ReservedCash' = ReservedCash
    BY <2>1 DEF ReservedCash
  <2> QED BY <2>1, <2>2, <2>3, <2>4, QuietMoneyKeeps
<1>4. CASE SyncCash
  <2>1. /\ PortfolioTypes /\ ClosedIsEmpty /\ (\A c \in Coins : ~book[c].on) /\ cash' \in Nat /\ entered' = FALSE
        /\ UNCHANGED <<book, kept, dayRealized, researchLoss>>
    BY <1>1, <1>4 DEF SyncCash, Moves, PortfolioInv
  <2>2. PortfolioTypes' /\ ClosedIsEmpty'
    <3>1. cash' \in Int
      BY <2>1
    <3>2. PortfolioTypes'
      BY <2>1, <3>1 DEF PortfolioTypes
    <3>3. ClosedIsEmpty'
      BY <2>1 DEF ClosedIsEmpty
    <3> QED BY <3>2, <3>3
  <2>3. ReservedCash' = 0
    <3>1. ReservedCash = 0
      BY <2>1, NothingReserved DEF ClosedIsEmpty
    <3> QED BY <2>1, <3>1 DEF ReservedCash
  <2>4. ReservedCash' <= cash'
    BY <2>1, <2>3
  <2> QED BY <2>1, <2>2, <2>4, QuietMoneyKeeps
<1>5. ASSUME NEW c \in Coins, BuyEnds(c) \/ BookEnds(c) \/ KeepRest(c) PROVE PortfolioInv'
  BY <1>5, EndMoneyKeeps
<1>6. ASSUME NEW c \in Coins, NEW price \in Prices, MarkMovesC(c, price) PROVE PortfolioInv'
  BY <1>1, <1>6, MarkMoneyKeeps
<1>7. ASSUME NEW c \in Coins, NEW price \in Prices, NEW n \in Quantities, BuyFills(c, n, price) PROVE PortfolioInv'
  BY <1>1, <1>7, BuyMoneyKeeps
<1>8. ASSUME NEW c \in Coins, NEW price \in Prices, NEW n \in Quantities, SaleFills(c, n, price) PROVE PortfolioInv'
  BY <1>1, <1>8, SaleMoneyKeeps
<1>9. ASSUME NEW c \in Coins, NEW price \in Prices, NEW q \in Quantities, NEW limit \in Limits, EnterBook(c, q, price, limit)
      PROVE PortfolioInv'
  <2>1. q \in Nat /\ price \in Nat /\ limit \in Nat
    BY <1>1
  <2> QED BY <1>9, <2>1, EnterMoneyKeeps
<1> QED BY <1>2, <1>3, <1>4, <1>5, <1>6, <1>7, <1>8, <1>9 DEF PortfolioNext

\* The shared cash pays every pending entry, and an entry is admitted only when the worst
\* day it leaves possible is within the day's part of the equity: for any number of
\* coins, any prices and quantities, whatever filled, was kept or paid in before.
THEOREM PortfolioHolds == PortfolioSpec => []PortfolioKept
<1>1. PortfolioInit => PortfolioInv
  <2> SUFFICES ASSUME PortfolioInit PROVE PortfolioInv
    OBVIOUS
  <2>1. cash \in Nat
    BY PortfolioNumbers DEF PortfolioInit
  <2>2. PortfolioTypes /\ ClosedIsEmpty /\ entered = FALSE
    <3>1. NoBook \in BookRows /\ NothingKept \in KeptRows
      BY DEF NoBook, NothingKept, BookRows, KeptRows
    <3>2. /\ book = [c \in Coins |-> NoBook] /\ kept = [c \in Coins |-> NothingKept]
          /\ dayRealized = 0 /\ researchLoss = 0 /\ entered = FALSE /\ cash \in Int
      BY <2>1 DEF PortfolioInit
    <3>3. PortfolioTypes
      <4>1. book \in [Coins -> BookRows]
        BY <3>1, <3>2
      <4>2. kept \in [Coins -> KeptRows]
        BY <3>1, <3>2
      <4>3. dayRealized \in Int /\ researchLoss \in Int
        BY <3>2
      <4>4. entered \in BOOLEAN
        BY <3>2
      <4> QED BY <3>2, <4>1, <4>2, <4>3, <4>4 DEF PortfolioTypes
    <3>4. ClosedIsEmpty
      BY <3>2 DEF ClosedIsEmpty
    <3> QED BY <3>2, <3>3, <3>4
  <2>3. ReservedCash = 0
    BY <2>2, NothingReserved DEF PortfolioInit
  <2> QED BY <2>1, <2>2, <2>3 DEF PortfolioInv, PendingEntriesPaid, EntryKeepsDayLimit
<1>2. PortfolioInv /\ [PortfolioNext]_portfolioVars => PortfolioInv'
  BY PortfolioKeeps
<1>3. PortfolioInv => PortfolioKept
  BY DEF PortfolioInv, PortfolioKept
<1> QED BY <1>1, <1>2, <1>3, PTL DEF PortfolioSpec
================================================================================
