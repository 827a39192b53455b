------------------------------ MODULE A2Ledger ------------------------------
(***************************************************************************)
(* The money of Track A-2: what track_a_2/execution/oms.py books for one    *)
(* coin when the exchange executes its orders, reports them (some fees and  *)
(* values late), and when cash moves from outside.  The account is the      *)
(* isolated one of track_a_2/config.json.                                   *)
(*                                                                         *)
(* The ledger is saved with every change, so its variables are the durable  *)
(* state; the only work a crash can lose is an apply() cut between its two  *)
(* saves, which `pend' names.  Money is counted in KRW, quantity in the     *)
(* exchange's step; a lot is known by the order that bought it, so the lots *)
(* list, which is in order of purchase, is a function on order numbers.     *)
(* The prices of single lots, which only the strategy reads, are left out.  *)
(***************************************************************************)
EXTENDS Integers, FiniteSets, FiniteSetsExt, Functions

CONSTANTS
    MaxOrders,      \* bound: orders ever created
    MaxSize,        \* bound: quantity of one order
    MaxInventory,   \* bound: quantity held after a buy is filled in full
    Price,          \* the price at which each order trades
    Fee,            \* fee of one traded step
    Capital,        \* balance when the capital was initialized
    Unit,           \* strategy_params.unit_qty
    FullBudget,     \* strategy_params.campaign_loss_budget_krw
    MaxOutside,     \* bound: deposits plus changes of the UTC day
    MaxLate,        \* bound: trades that are reported late
    MaxCuts         \* bound: crashes inside apply()

ASSUME ConstantsAssumption ==
    /\ MaxOrders \in Nat /\ MaxSize \in Nat /\ MaxInventory \in Nat /\ MaxOutside \in Nat
    /\ MaxLate \in Nat /\ MaxCuts \in Nat
    /\ Price \in [1..MaxOrders -> Nat \ {0}]
    /\ Fee \in Nat /\ Capital \in Nat
    /\ Unit \in Nat \ {0} /\ FullBudget \in Nat

\* Decimal keeps the budget of one step exactly; here it is an integer.
ASSUME BudgetAssumption == \E step \in 0..FullBudget : FullBudget = step * Unit

Orders == 1..MaxOrders

\* A protective stop and an exit both sell all that is held and count as a
\* stop: "stop" stands for either.
Sells == {"stop", "riskTrim", "profitTrim"}
BookRoles == {"buy"} \cup Sells

VARIABLES
    acct,   \* cash, realized P&L, external flows, and the day's share of them
    book,   \* the coin's quantity, its cost (quantity times avg) and its lots
    camp,   \* the campaign that is open, or NoCampaign
    journal,  \* the journaled orders with the cumulatives applied so far
    pend,   \* the order whose late correction is saved but not yet marked
    hist,   \* P&L in the append-only FLAT and CAMPAIGN_LATE_PNL events
    exchange, \* KRW at the exchange and, per order, the detail row it reports
    outside, late, cuts    \* what is left of the bounds

booksVars == <<acct, book, camp, journal, pend, hist, exchange, outside, late, cuts>>

\* campaign_id is minted by the order that may open the campaign and it is
\* unique, so the number of that order stands for it.
NoCampaign == [id |-> 0, entry |-> 0, realized |-> 0, budget |-> 0, counted |-> FALSE]

NoEntry == [st |-> "none", role |-> "none", camp |-> 0, core |-> FALSE,
            qty |-> 0, filled |-> 0, gross |-> 0, fee |-> 0]

NoDetail == [live |-> FALSE, filled |-> 0, gross |-> 0, fee |-> 0, oweFee |-> 0, oweGross |-> 0]

BooksInit ==
    /\ acct = [cash |-> Capital, realized |-> 0, flows |-> 0,
               dayStart |-> Capital, dayRealized |-> 0, dayFlows |-> 0, dayStops |-> 0]
    /\ book = [held |-> 0, cost |-> 0, lots |-> [c \in Orders |-> 0]]
    /\ camp = NoCampaign
    /\ journal = [c \in Orders |-> NoEntry]
    /\ pend = 0
    /\ hist = [flat |-> 0, late |-> 0]
    /\ exchange = [krw |-> Capital, row |-> [c \in Orders |-> NoDetail]]
    /\ outside = MaxOutside /\ late = MaxLate /\ cuts = MaxCuts

----------------------------------------------------------------------------
(* What the ledger says of itself. *)

CampaignOpen == camp.id # 0

Active == {c \in Orders : journal[c].st = "active"}

Lots == {c \in Orders : book.lots[c] > 0}

Exposed == book.held # 0 \/ Active # {}

\* _risk_exit: the sales that count as a stop of the campaign.
RiskExit(role) == role \in {"stop", "riskTrim"}

\* equity() at the average price, the mark it falls back to.
Equity == LET e == acct.cash + book.cost IN IF e < 0 THEN 0 ELSE e

----------------------------------------------------------------------------
(* _add_lot, _remove_lots and _adjust_buy_gross: what one report changes.   *)
(* Decimal rounding becomes integer division, and always in the way the     *)
(* code rounds: the basis of a partial sale is rounded, the rest stays.     *)

Capped(a, b) == IF a > b THEN b ELSE a

Basis(q) == IF q = book.held THEN book.cost ELSE (book.cost * q) \div book.held

\* A mutant: only the newest lot gives way, whatever it holds.
TakesNewestOnly(before, after, q) ==
    LET last == Max({c \in Orders : before[c] > 0})
    IN  after = [before EXCEPT ![last] = IF @ > q THEN @ - q ELSE 0]

\* Newest first: a lot shrinks only when every later one is used up.
TakesLast(before, after, q) ==
    /\ \A c \in Orders : /\ after[c] <= before[c]
                         /\ after[c] < before[c] => \A d \in (c + 1)..MaxOrders : after[d] = 0
    /\ SumFunction(after) = SumFunction(before) - q

\* A cut booked against the core takes from the first lot, then newest first.
Takes(before, after, q, core) ==
    IF ~core THEN TakesLast(before, after, q)
    ELSE LET first == Min({c \in Orders : before[c] > 0})
             take  == Capped(q, before[first])
         IN  TakesLast([before EXCEPT ![first] = @ - take], after, q - take)

\* The budget follows what the opening order really bought.
Scaled(dq) == (FullBudget * Capped(dq, Unit)) \div Unit

Opened(c, dq) == [id |-> journal[c].camp, entry |-> c, realized |-> 0,
                  budget |-> Scaled(dq), counted |-> FALSE]

\* A mutant: an add enlarges the budget up to the full one.
AddsEnlargeBudget(c, dq) ==
    IF ~CampaignOpen
    THEN Opened(c, dq)
    ELSE [camp EXCEPT !.budget = Capped(@ + Scaled(dq), FullBudget)]

CampaignAfterBuy(c, dq) ==
    IF ~CampaignOpen
    THEN Opened(c, dq)
    ELSE IF camp.entry = c
         THEN [camp EXCEPT !.budget = Capped(@ + Scaled(dq), FullBudget)]
         ELSE camp

\* The part of a late buy value that belongs to inventory still held.
InventoryPart(c, dg) ==
    IF journal[c].filled = 0 THEN 0 ELSE (dg * book.lots[c]) \div journal[c].filled

----------------------------------------------------------------------------
(* Orders. *)

\* submit() reaching the exchange: one order per role and side, a sale only of
\* inventory and under the campaign's name.
Place(c, role, q, core) ==
    /\ pend = 0
    /\ journal[c] = NoEntry /\ \A d \in 1..(c - 1) : journal[d] # NoEntry
    /\ \A d \in Active : journal[d].role # role /\ (journal[d].role = "buy" <=> role # "buy")
    /\ role \in Sells => CampaignOpen /\ q <= book.held
    /\ role = "stop" => q = book.held
    /\ role = "buy" => book.held + q <= MaxInventory
    /\ core => /\ role \in {"riskTrim", "profitTrim"}
               /\ Cardinality(Lots) > 1 /\ q <= book.lots[Min(Lots)]
    /\ journal' = [journal EXCEPT ![c] =
                 [st |-> "active", role |-> role, core |-> core, qty |-> q,
                  camp |-> IF CampaignOpen THEN camp.id ELSE c,
                  filled |-> 0, gross |-> 0, fee |-> 0]]
    /\ exchange' = [exchange EXCEPT !.row[c].live = TRUE]
    /\ UNCHANGED <<acct, book, camp, pend, hist, outside, late, cuts>>

\* The order detail differs from what the ledger has applied.
News(c) == LET r == exchange.row[c] o == journal[c] IN
    \/ r.filled # o.filled \/ r.gross # o.gross \/ r.fee # o.fee
    \/ ~r.live /\ o.st = "active"

Marked(c) == LET r == exchange.row[c] IN
    [journal EXCEPT ![c] = [@ EXCEPT !.filled = r.filled, !.gross = r.gross, !.fee = r.fee,
                                 !.st = IF r.live THEN "active" ELSE "terminal"]]

Booked(cash, pnl, stop) ==
    [cash |-> acct.cash + cash, realized |-> acct.realized + pnl, flows |-> acct.flows,
     dayStart |-> acct.dayStart, dayRealized |-> acct.dayRealized + pnl,
     dayFlows |-> acct.dayFlows, dayStops |-> acct.dayStops + stop]

\* apply() of a report that buys: a lot, a campaign, a budget.
ApplyBuy(c) ==
    LET r  == exchange.row[c]
        dq == r.filled - journal[c].filled
        dg == r.gross - journal[c].gross
        df == r.fee - journal[c].fee
    IN  /\ journal[c].role = "buy" /\ dq > 0
        /\ CampaignOpen => camp.id = journal[c].camp      \* else it raises
        /\ acct' = Booked(-dg - df, -df, 0)
        /\ book' = [held |-> book.held + dq, cost |-> book.cost + dg,
                    lots |-> [book.lots EXCEPT ![c] = @ + dq]]
        /\ camp' = LET k == CampaignAfterBuy(c, dq) IN [k EXCEPT !.realized = @ - df]
        /\ journal' = Marked(c)
        /\ UNCHANGED <<pend, hist>>

\* A mutant: every partial fill of a risk sale counts.
CountsEveryStop(c) == RiskExit(journal[c].role)

CountsStop(c) == RiskExit(journal[c].role) /\ ~camp.counted

\* apply() of a report that sells: basis, P&L, the campaign's one stop.
ApplySell(c) ==
    LET r  == exchange.row[c]
        dq == r.filled - journal[c].filled
        dg == r.gross - journal[c].gross
        df == r.fee - journal[c].fee
        basis == Basis(dq)
        pnl   == dg - basis - df
    IN  /\ journal[c].role \in Sells /\ dq > 0
        /\ dq <= book.held                            \* else it raises
        /\ acct' = Booked(dg - df, pnl, IF CountsStop(c) THEN 1 ELSE 0)
        /\ \E rest \in [Orders -> 0..book.held] :
             /\ Takes(book.lots, rest, dq, journal[c].core)
             /\ book' = [held |-> book.held - dq, cost |-> book.cost - basis, lots |-> rest]
        /\ camp' = [camp EXCEPT !.realized = @ + pnl, !.counted = @ \/ CountsStop(c)]
        /\ journal' = Marked(c)
        /\ UNCHANGED <<pend, hist>>

\* What a report without new quantity is worth: a late fee, a late value, or
\* nothing but a status.
LateCash(c) ==
    LET dg == exchange.row[c].gross - journal[c].gross
        df == exchange.row[c].fee - journal[c].fee
    IN  IF journal[c].role = "buy" THEN -dg - df ELSE dg - df

LateToCost(c) ==
    IF journal[c].role = "buy" THEN InventoryPart(c, exchange.row[c].gross - journal[c].gross) ELSE 0

\* A mutant: the part that raised the cost is booked as a loss as well.
LatePnlTwice(c) == LateCash(c)

LatePnl(c) == LateCash(c) + LateToCost(c)

\* A mutant: whatever campaign is open takes the correction.
OwnIfOpen(c) == CampaignOpen

Own(c) == CampaignOpen /\ camp.id = journal[c].camp

\* apply() of a correction: the pnl belongs to the order's own campaign.
ApplyCorrection(c) ==
    /\ exchange.row[c].filled = journal[c].filled
    /\ Own(c) \/ LatePnl(c) = 0
    /\ acct' = Booked(LateCash(c), LatePnl(c), 0)
    /\ book' = [book EXCEPT !.cost = @ + LateToCost(c)]
    /\ camp' = [camp EXCEPT !.realized = @ + LatePnl(c)]
    /\ journal' = Marked(c)
    /\ UNCHANGED <<pend, hist>>

\* The campaign is over: _record_pnl saves CAMPAIGN_LATE_PNL, with cash and
\* realized already changed and the order's cumulatives not yet.
SaveLatePnl(c) ==
    /\ exchange.row[c].filled = journal[c].filled
    /\ ~Own(c) /\ LatePnl(c) # 0
    /\ acct' = Booked(LateCash(c), LatePnl(c), 0)
    /\ book' = [book EXCEPT !.cost = @ + LateToCost(c)]
    /\ hist' = [hist EXCEPT !.late = @ + LatePnl(c)]
    /\ pend' = c
    /\ UNCHANGED <<camp, journal>>

\* The rest of that apply(): order.update and the FILL save.  The row is the
\* one it read before, which Report leaves alone while pend is set.
FinishLate ==
    /\ pend # 0
    /\ journal' = Marked(pend)
    /\ pend' = 0
    /\ UNCHANGED <<acct, book, camp, hist, exchange, outside, late, cuts>>

\* reconcile() or cancel() got the detail of a journaled order.
ApplyReport(c) ==
    /\ pend = 0 /\ journal[c].st \in {"active", "terminal"} /\ News(c)
    /\ \/ ApplyBuy(c)
       \/ ApplySell(c)
       \/ ApplyCorrection(c)
       \/ SaveLatePnl(c)
    /\ UNCHANGED <<exchange, outside, late, cuts>>

\* reconcile(): the settlement window of a finished order is over.
ArchiveOrder(c) ==
    /\ pend = 0 /\ journal[c].st = "terminal"
    /\ journal' = [journal EXCEPT ![c].st = "archived"]
    /\ UNCHANGED <<acct, book, camp, pend, hist, exchange, outside, late, cuts>>

\* A mutant: the P&L of the ended campaign stays on the book.
FinishCampaignKeepsPnl ==
    /\ pend = 0 /\ CampaignOpen /\ ~Exposed
    /\ hist' = [hist EXCEPT !.flat = @ + camp.realized]
    /\ camp' = [NoCampaign EXCEPT !.realized = camp.realized]
    /\ UNCHANGED <<acct, book, journal, pend, exchange, outside, late, cuts>>

\* finish_flat(): nothing held, nothing working, the campaign ends.
FinishCampaign ==
    /\ pend = 0 /\ CampaignOpen /\ ~Exposed
    /\ hist' = [hist EXCEPT !.flat = @ + camp.realized]
    /\ camp' = NoCampaign
    /\ UNCHANGED <<acct, book, journal, pend, exchange, outside, late, cuts>>

\* sync_account(), the cash of an isolated account: with nothing exposed the
\* balance is the truth and the difference came from outside.
SyncAccount ==
    /\ pend = 0 /\ ~Exposed
    /\ LET delta == exchange.krw - acct.cash IN
         /\ delta # 0
         /\ acct' = [cash |-> acct.cash + delta, flows |-> acct.flows + delta,
                     dayFlows |-> acct.dayFlows + delta, realized |-> acct.realized,
                     dayStart |-> acct.dayStart, dayRealized |-> acct.dayRealized,
                     dayStops |-> acct.dayStops]
    /\ UNCHANGED <<book, camp, journal, pend, hist, exchange, outside, late, cuts>>

\* A mutant: the new day keeps the old day's realized P&L.
RollDayKeepsRealized ==
    /\ pend = 0 /\ outside > 0
    /\ outside' = outside - 1
    /\ acct' = [acct EXCEPT !.dayStart = Equity, !.dayFlows = 0, !.dayStops = 0]
    /\ UNCHANGED <<book, camp, journal, pend, hist, exchange, late, cuts>>

\* roll_day() on the first call of a new UTC day.
RollDay ==
    /\ pend = 0 /\ outside > 0
    /\ outside' = outside - 1
    /\ acct' = [cash |-> acct.cash, realized |-> acct.realized, flows |-> acct.flows,
                dayStart |-> Equity, dayRealized |-> 0, dayFlows |-> 0, dayStops |-> 0]
    /\ UNCHANGED <<book, camp, journal, pend, hist, exchange, late, cuts>>

\* The process dies between the two saves and starts again from the store.
CrashInApply ==
    /\ pend # 0 /\ cuts > 0
    /\ cuts' = cuts - 1 /\ pend' = 0
    /\ UNCHANGED <<acct, book, camp, journal, hist, exchange, outside, late>>

----------------------------------------------------------------------------
(* The exchange, one step of quantity at a time (a poll may see several).   *)
(* The balance moves with the trade; the detail row may show the fee, or    *)
(* one KRW of the value, only later.                                        *)

Traded(c, oweFee, oweGross) == LET r == exchange.row[c] IN
    [live |-> r.filled + 1 # journal[c].qty, filled |-> r.filled + 1,
     gross |-> r.gross + Price[c] - oweGross, fee |-> r.fee + Fee - oweFee,
     oweFee |-> r.oweFee + oweFee, oweGross |-> r.oweGross + oweGross]

Trade(c, oweFee, oweGross) ==
    /\ pend = 0 /\ exchange.row[c].live
    /\ IF oweFee + oweGross > 0 THEN late > 0 /\ late' = late - 1 ELSE UNCHANGED late
    /\ exchange' = [krw |-> exchange.krw - Fee + (IF journal[c].role = "buy" THEN -Price[c] ELSE Price[c]),
                 row |-> [exchange.row EXCEPT ![c] = Traded(c, oweFee, oweGross)]]
    /\ UNCHANGED <<acct, book, camp, journal, pend, hist, outside, cuts>>

\* A canceled remainder.
CloseOrder(c) ==
    /\ pend = 0 /\ exchange.row[c].live
    /\ exchange' = [exchange EXCEPT !.row[c].live = FALSE]
    /\ UNCHANGED <<acct, book, camp, journal, pend, hist, outside, late, cuts>>

\* The settlement shows up in the detail.
RowReported(c) == LET r == exchange.row[c] IN
    [live |-> r.live, filled |-> r.filled, gross |-> r.gross + r.oweGross,
     fee |-> r.fee + r.oweFee, oweFee |-> 0, oweGross |-> 0]

Report(c) ==
    /\ pend = 0
    /\ exchange.row[c].oweFee + exchange.row[c].oweGross > 0
    /\ exchange' = [exchange EXCEPT !.row[c] = RowReported(c)]
    /\ UNCHANGED <<acct, book, camp, journal, pend, hist, outside, late, cuts>>

\* A deposit or a withdrawal by the owner.
MoveCash(amount) ==
    /\ pend = 0 /\ outside > 0 /\ exchange.krw + amount >= 0
    /\ outside' = outside - 1
    /\ exchange' = [exchange EXCEPT !.krw = @ + amount]
    /\ UNCHANGED <<acct, book, camp, journal, pend, hist, late, cuts>>

BooksNext ==
    \/ \E c \in Orders, role \in BookRoles, q \in 1..MaxSize, core \in BOOLEAN : Place(c, role, q, core)
    \/ \E c \in Orders : ApplyReport(c) \/ ArchiveOrder(c) \/ CloseOrder(c) \/ Report(c)
    \/ \E c \in Orders, o \in {<<0, 0>>, <<Fee, 0>>, <<0, 1>>} :
         Trade(c, o[1], o[2])
    \/ FinishLate \/ FinishCampaign \/ SyncAccount \/ RollDay \/ CrashInApply
    \/ \E amount \in {1} : MoveCash(amount)

BooksSpec == BooksInit /\ [][BooksNext]_booksVars

----------------------------------------------------------------------------
(* Properties. *)

Account == [cash : Int, realized : Int, flows : Int, dayStart : Int,
            dayRealized : Int, dayFlows : Int, dayStops : Nat]

Book == [held : Nat, cost : Int, lots : [Orders -> Nat]]

Campaign == [id : 0..MaxOrders, entry : 0..MaxOrders, realized : Int,
             budget : 0..FullBudget, counted : BOOLEAN]

JournalOrder == [st : {"none", "active", "terminal", "archived"}, role : BookRoles \cup {"none"},
          camp : 0..MaxOrders, core : BOOLEAN, qty : Nat, filled : Nat, gross : Int, fee : Int]

DetailRow == [live : BOOLEAN, filled : Nat, gross : Int, fee : Int, oweFee : Int, oweGross : Int]

\* The shapes of the parts: quantity and lots never go negative and a budget
\* never exceeds the full one.
BooksTypeOK ==
    /\ acct \in Account
    /\ book \in Book
    /\ camp \in Campaign
    /\ journal \in [Orders -> JournalOrder]
    /\ pend \in 0..MaxOrders
    /\ hist \in [flat : Int, late : Int]
    /\ exchange \in [krw : Int, row : [Orders -> DetailRow]]
    /\ outside \in Nat /\ late \in Nat /\ cuts \in Nat

\* Cash plus the cost of what is held is the capital, plus what came from
\* outside, plus the realized P&L: no fill, correction, rounding, rebase or
\* crash between the saves of apply() makes money appear or vanish in between.
CashBasis == acct.cash + book.cost = Capital + acct.flows + acct.realized

\* The daily P&L of day_pnl(), taken at cost, is what was realized that day:
\* a deposit or a change of day never shows up as profit or loss.
\* equity() does not go below zero, so a day that started from nothing, and a ledger
\* that is worth nothing, have no basis to speak of.
DayBasis ==
    acct.dayStart > 0 /\ Equity > 0 => Equity - acct.dayStart - acct.dayFlows = acct.dayRealized

\* quantity() is the sum of the lots, and it is exactly what the applied
\* buys minus the applied sales amount to, each counted once; with nothing
\* held there is no cost left over.
Filled(roles) == SumFunction([c \in Orders |-> IF journal[c].role \in roles THEN journal[c].filled ELSE 0])

InventoryOnce ==
    /\ book.held = SumFunction(book.lots)
    /\ book.held = Filled({"buy"}) - Filled(Sells)
    /\ book.held = 0 => book.cost = 0

\* The realized P&L of the open campaign is what its own orders paid and
\* received, plus the cost still held: a late correction of an earlier
\* campaign stays out of it (README, "Orders, accounting and recovery").
CampaignCash(c) ==
    (IF journal[c].role = "buy" THEN -journal[c].gross ELSE journal[c].gross) - journal[c].fee

CampaignOwnBooks ==
    CampaignOpen =>
        camp.realized = book.cost +
            SumFunction([c \in Orders |-> IF journal[c].camp = camp.id THEN CampaignCash(c) ELSE 0])

\* The state's total P&L is what its event history tells: the campaigns that
\* went FLAT, the late corrections, and the campaign that is open.
HistoryExplainsPnl == acct.realized = hist.flat + hist.late + camp.realized

\* The campaign's loss budget follows the fills of the opening order, however
\* they are split, and no add enlarges it.
BudgetFollowsEntry ==
    CampaignOpen =>
        camp.budget = Capped((FullBudget * journal[camp.entry].filled) \div Unit, FullBudget)

\* Protective fills, exits and risk trims count as one stop per campaign,
\* however many orders and partial fills they take.
StoppedCampaigns == {journal[c].camp : c \in {d \in Orders : RiskExit(journal[d].role) /\ journal[d].filled > 0}}

OneStopPerCampaign ==
    /\ outside = MaxOutside => acct.dayStops = Cardinality(StoppedCampaigns)
    /\ acct.dayStops <= Cardinality(StoppedCampaigns)

\* The day starts from its own equity and counts its own stops.
DayKept == DayBasis /\ OneStopPerCampaign

\* A campaign's result and its budget are made of its own orders.
CampaignKept == CampaignOwnBooks /\ BudgetFollowsEntry

----------------------------------------------------------------------------
(* What the documentation says and the code does not keep. *)

\* "Cumulative exchange fills are applied once": the cash explains itself by
\* the cumulatives marked as applied.
AppliedOnce ==
    pend = 0 => acct.cash = Capital + acct.flows + MapThenSumSet(CampaignCash, Orders)

\* The fee of a trade is charged once: while something is exposed, with every
\* trade reported in full and applied and no money moved by the owner, the
\* ledger's cash is the exchange's, which is what CASH_MISMATCH takes for granted.
ExposedCashMatches ==
    /\ pend = 0 /\ Exposed /\ outside = MaxOutside
    /\ \A c \in Orders : /\ ~News(c) /\ journal[c].st # "archived"
                         /\ exchange.row[c].oweFee = 0 /\ exchange.row[c].oweGross = 0
    => acct.cash = exchange.krw
=============================================================================
