--------------------------- MODULE TrackCPortfolio ---------------------------
(***************************************************************************)
(* The cash and risk that the coins of Track C share (Portfolio in         *)
(* track_c/execution/portfolio.py, the money side of OMS.apply and         *)
(* LiveBook.carry_residual, track_c/execution/accounting.py), for research *)
(* plans with take_mode 'market'.  A book has its pending entry quantity,  *)
(* entry and stop limit price, holding, cost and mark; money is counted in *)
(* whole units and the fractions of the equity are numerators over Den.    *)
(***************************************************************************)
EXTENDS Integers, FiniteSets, Functions

CONSTANTS Coins, Quantities, Prices, Limits,
          CashLevels,          \* what the account may hold when it is flat
          MaxCash, MaxKept,    \* bounds on the cash and on what is kept of a coin
          MaxDay,              \* bound on what a day realizes
          MinimumValue,        \* the least value of an order
          Den, CashPart, DailyPart, RiskPart

ASSUME PortfolioAssumption ==
  /\ IsFiniteSet(Coins)
  /\ Quantities \union Prices \union Limits \union CashLevels \subseteq Nat
  /\ {MaxCash, MaxKept, MaxDay, MinimumValue} \subseteq Nat /\ Den \in Nat \ {0}
  /\ {CashPart, DailyPart, RiskPart} \subseteq 0..Den

VARIABLES cash, book, kept, dayRealized, researchLoss,
          entered    \* the last step admitted an entry

portfolioVars == <<cash, book, kept, dayRealized, researchLoss, entered>>

NoBook == [on |-> FALSE, pending |-> 0, entry |-> 0, limit |-> 0, qty |-> 0, cost |-> 0, mark |-> 0]
NothingKept == [qty |-> 0, cost |-> 0, mark |-> 0]

PortfolioInit ==
  /\ cash \in CashLevels
  /\ book = [c \in Coins |-> NoBook]
  /\ kept = [c \in Coins |-> NothingKept]
  /\ dayRealized = 0 /\ researchLoss = 0 /\ entered = FALSE

NotNegative(n) == IF n < 0 THEN 0 ELSE n
Value(r) == r.qty * r.mark
Unrealized(r) == IF Value(r) < r.cost THEN Value(r) - r.cost ELSE 0

\* marked_equity, unrealized_loss, reserved_cash, committed_risk.
EquityC == NotNegative(cash + SumFunctionOnSet([c \in Coins |-> Value(book[c]) + Value(kept[c])], Coins))
UnrealizedLoss == SumFunctionOnSet([c \in Coins |-> Unrealized(book[c]) + Unrealized(kept[c])], Coins)
ReservedCash == SumFunctionOnSet([c \in Coins |-> book[c].pending * book[c].entry], Coins)

\* A mutant: only what is held counts, not the entries that still buy.
CommittedHeld ==
  SumFunctionOnSet([c \in Coins |-> book[c].qty * NotNegative(book[c].mark - book[c].limit) + Value(kept[c])], Coins)

\* A rest that is too small to sell cannot execute its own stop.
CommittedRisk ==
  SumFunctionOnSet([c \in Coins |-> book[c].pending * NotNegative(book[c].entry - book[c].limit)
                                    + book[c].qty * NotNegative(book[c].mark - book[c].limit)
                                    + Value(kept[c])], Coins)

\* All in Den-ths.
DailyRemaining == NotNegative(EquityC * DailyPart + Den * (dayRealized + UnrealizedLoss))
RiskOfEquity == EquityC * RiskPart
RemainingRisk ==
  NotNegative((IF DailyRemaining < RiskOfEquity THEN DailyRemaining ELSE RiskOfEquity)
              - Den * CommittedRisk)

\* A mutant: the cash that pending entries may still take is spent again.
CashAllowsUnreserved(required) == Den * required <= cash * CashPart

CashAllows(required) == Den * required <= NotNegative(cash * CashPart - Den * ReservedCash)

EnterBook(c, q, entry, limit) ==
  LET risk == q * (entry - limit)
  IN /\ ~book[c].on /\ entry > limit /\ q > 0
     /\ q * limit >= MinimumValue
     /\ CashAllows(q * entry)
     /\ Den * risk <= RemainingRisk
     /\ Den * (researchLoss + CommittedRisk + risk) <= RiskOfEquity
     /\ book' = [book EXCEPT ![c] = [NoBook EXCEPT !.on = TRUE, !.pending = q, !.entry = entry,
                                                   !.limit = limit, !.mark = entry]]
     /\ entered' = TRUE
     /\ UNCHANGED <<cash, kept, dayRealized, researchLoss>>

Moves == entered' = FALSE

BuyFills(c, n, price) ==
  /\ n \in 1..book[c].pending /\ price <= book[c].entry
  /\ cash' = cash - n * price
  /\ book' = [book EXCEPT ![c].pending = @ - n, ![c].qty = @ + n, ![c].cost = @ + n * price]
  /\ Moves /\ UNCHANGED <<kept, dayRealized, researchLoss>>

BuyEnds(c) ==
  /\ book[c].pending > 0
  /\ book' = [book EXCEPT ![c].pending = 0]
  /\ Moves /\ UNCHANGED <<cash, kept, dayRealized, researchLoss>>

\* A sale at any price; a loss counts against the research budget of the day.
SaleFills(c, n, price) ==
  LET basis == (book[c].cost * n) \div book[c].qty
      pnl == n * price - basis
  IN /\ book[c].pending = 0 /\ n \in 1..book[c].qty
     /\ (book[c].cost * n) % book[c].qty = 0
     /\ cash + n * price <= MaxCash /\ dayRealized + pnl \in -MaxDay..MaxDay
     /\ researchLoss - pnl <= MaxDay
     /\ cash' = cash + n * price
     /\ book' = [book EXCEPT ![c].qty = @ - n, ![c].cost = @ - basis]
     /\ dayRealized' = dayRealized + pnl
     /\ researchLoss' = researchLoss + NotNegative(-pnl)
     /\ Moves /\ UNCHANGED kept

BookEnds(c) ==
  /\ book[c].on /\ book[c].pending = 0 /\ book[c].qty = 0
  /\ book' = [book EXCEPT ![c] = NoBook]
  /\ Moves /\ UNCHANGED <<cash, kept, dayRealized, researchLoss>>

\* A rest below the minimum is kept with its cost, added to what was kept.
KeepRest(c) ==
  /\ book[c].pending = 0 /\ book[c].qty > 0 /\ Value(book[c]) < MinimumValue
  /\ kept[c].qty + book[c].qty <= MaxKept
  /\ kept' = [kept EXCEPT ![c] = [qty |-> @.qty + book[c].qty, cost |-> @.cost + book[c].cost,
                                  mark |-> book[c].mark]]
  /\ book' = [book EXCEPT ![c] = NoBook]
  /\ Moves /\ UNCHANGED <<cash, dayRealized, researchLoss>>

MarkMovesC(c, price) ==
  /\ book' = IF book[c].on THEN [book EXCEPT ![c].mark = price] ELSE book
  /\ kept' = IF kept[c].qty > 0 THEN [kept EXCEPT ![c].mark = price] ELSE kept
  /\ Moves /\ UNCHANGED <<cash, dayRealized, researchLoss>>

RollDayC ==
  /\ dayRealized' = 0 /\ researchLoss' = 0
  /\ Moves /\ UNCHANGED <<cash, book, kept>>

\* The owner moved money; it is seen only while nothing is held or working.
SyncCash ==
  /\ \A c \in Coins : ~book[c].on
  /\ cash' \in CashLevels
  /\ Moves /\ UNCHANGED <<book, kept, dayRealized, researchLoss>>

PortfolioNext ==
  \/ RollDayC \/ SyncCash
  \/ \E c \in Coins :
       \/ BuyEnds(c) \/ BookEnds(c) \/ KeepRest(c)
       \/ \E price \in Prices :
            \/ MarkMovesC(c, price)
            \/ \E n \in Quantities : BuyFills(c, n, price) \/ SaleFills(c, n, price)
            \/ \E q \in Quantities, limit \in Limits : EnterBook(c, q, price, limit)

PortfolioSpec == PortfolioInit /\ [][PortfolioNext]_portfolioVars

----------------------------------------------------------------------------
\* Every entry that still buys can be paid, whatever fills first.
PendingEntriesPaid == ReservedCash <= cash

\* What the day loses when every pending entry fills, every holding is sold at
\* its stop limit and every rest that is kept is worth nothing.
WorstDay ==
  -dayRealized
  + SumFunctionOnSet([c \in Coins |-> book[c].cost - book[c].qty * book[c].limit
                                      + book[c].pending * (book[c].entry - book[c].limit)
                                      + kept[c].cost], Coins)

\* Whatever partial fills, price moves, kept rests, days and deposits came
\* before, an entry is admitted only when the worst day it leaves possible
\* stays within the daily part of the equity.
EntryKeepsDayLimit == entered => Den * WorstDay <= EquityC * DailyPart

\* The two promises of the portfolio: the cash covers what is pending, the day's limit
\* what may go wrong.
PortfolioKept == PendingEntriesPaid /\ EntryKeepsDayLimit
=============================================================================
