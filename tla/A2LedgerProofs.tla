--------------------------- MODULE A2LedgerProofs ---------------------------
(***************************************************************************)
(* Proofs about A2Ledger, for every number of orders, every price, fee and  *)
(* bound.  The types come first; the cash equation needs nothing else, for  *)
(* it is inductive by itself once every amount is known to be an integer.   *)
(* The rest is built in layers: what journal and exchange know of each      *)
(* other (OrdersInv), whose the orders and the lots are (OwnersInv), that   *)
(* the lots are all there is (BookInv), and on top of it the day and the    *)
(* campaign.  The totals are sums over the orders; Sums has their lemmas.   *)
(*   At the end, what the coins of Track A-2 share (A2Basket): what is       *)
(* watched, the cash and the places.                                        *)
(***************************************************************************)
EXTENDS A2Ledger, A2Basket, Sums, TLAPS

\* Integer division by a positive number is an integer.
LEMMA DivisionIsInt ==
  ASSUME NEW a \in Int, NEW b \in Int, b > 0
  PROVE  a \div b \in Int
BY SMT

\* A whole division is bounded by its dividend's bound.
LEMMA DivisionBound ==
  ASSUME NEW a \in Nat, NEW b \in Nat \ {0}, NEW n \in Nat, a <= n * b
  PROVE  a \div b \in 0..n
<1> DEFINE q == a \div b
<1>1. q \in Int /\ b * q <= a /\ a < b * q + b
  BY SMT
<1> HIDE DEF q
<1>2. q >= 0
  <2> SUFFICES ASSUME q + 1 <= 0 PROVE FALSE
    BY <1>1
  <2>1. b * (q + 1) <= 0
    BY <1>1
  <2>2. b * (q + 1) = b * q + b
    BY <1>1
  <2> QED BY <1>1, <2>1, <2>2
<1>3. q <= n
  <2> SUFFICES ASSUME q >= n + 1 PROVE FALSE
    BY <1>1
  <2>1. b * q >= b * (n + 1) /\ b * (n + 1) = n * b + b
    BY <1>1
  <2> QED BY <1>1, <2>1
<1>4. q \in 0..n
  BY <1>1, <1>2, <1>3
<1> QED BY <1>4 DEF q

\* The share of the budget that a fill brings lies within the full budget.
LEMMA ScaledInBudget ==
  ASSUME NEW dq \in Nat
  PROVE  Scaled(dq) \in 0..FullBudget
<1>0. Unit \in Nat \ {0} /\ FullBudget \in Nat
  BY ConstantsAssumption DEF ConstantsAssumption
<1>1. Capped(dq, Unit) \in 0..Unit
  BY <1>0 DEF Capped
<1>2. \A m \in 0..Unit : FullBudget * m \in Nat /\ FullBudget * m <= FullBudget * Unit
  BY <1>0, SMT
<1>3. (FullBudget * Capped(dq, Unit)) \div Unit \in 0..FullBudget
  BY <1>0, <1>1, <1>2, DivisionBound
<1> QED BY <1>3 DEF Scaled

\* The campaign after a buy is a campaign.
LEMMA CampaignAfterBuyType ==
  ASSUME BooksTypeOK, NEW c \in Orders, NEW dq \in Nat
  PROVE  CampaignAfterBuy(c, dq) \in Campaign
<1>0. FullBudget \in Nat /\ Orders = 1..MaxOrders /\ MaxOrders \in Nat
  BY ConstantsAssumption DEF ConstantsAssumption, Orders
<1>1. Scaled(dq) \in 0..FullBudget
  BY ScaledInBudget
<1>2. camp.budget \in 0..FullBudget /\ journal[c].camp \in 0..MaxOrders
  BY DEF BooksTypeOK, Campaign, JournalOrder
<1>3. Capped(camp.budget + Scaled(dq), FullBudget) \in 0..FullBudget
  BY <1>0, <1>1, <1>2 DEF Capped
<1>4. Opened(c, dq) \in Campaign
  BY <1>0, <1>1, <1>2 DEF Opened, Campaign
<1>5. [camp EXCEPT !.budget = Capped(@ + Scaled(dq), FullBudget)] \in Campaign
  BY <1>3 DEF BooksTypeOK, Campaign
<1> QED BY <1>4, <1>5 DEF CampaignAfterBuy, BooksTypeOK

\* The basis of a sale and the inventory part of a late value are amounts.
LEMMA BasisType ==
  ASSUME BooksTypeOK, NEW q \in Nat, q <= book.held
  PROVE  Basis(q) \in Int
<1>1. CASE q = book.held
  BY <1>1 DEF Basis, BooksTypeOK, Book
<1>2. CASE q # book.held
  <2>1. book.held \in Int /\ book.held > 0 /\ book.cost * q \in Int
    BY <1>2 DEF BooksTypeOK, Book, JournalOrder
  <2> QED BY <1>2, <2>1, DivisionIsInt DEF Basis
<1> QED BY <1>1, <1>2

\* The part of a late amount that is still in the inventory is a number.
LEMMA InventoryPartType ==
  ASSUME BooksTypeOK, NEW c \in Orders, NEW dg \in Int
  PROVE  InventoryPart(c, dg) \in Int
<1>1. CASE journal[c].filled = 0
  BY <1>1 DEF InventoryPart
<1>2. CASE journal[c].filled # 0
  <2>1. journal[c].filled \in Int /\ journal[c].filled > 0 /\ dg * book.lots[c] \in Int
    BY <1>2 DEF BooksTypeOK, Book, JournalOrder
  <2> QED BY <1>2, <2>1, DivisionIsInt DEF InventoryPart
<1> QED BY <1>1, <1>2

\* An order has a row of details and an entry in the journal.
LEMMA Parts ==
  ASSUME BooksTypeOK, NEW c \in Orders
  PROVE  /\ exchange.row[c] \in DetailRow /\ journal[c] \in JournalOrder
         /\ exchange.row \in [Orders -> DetailRow] /\ exchange.krw \in Int
BY DEF BooksTypeOK

\* What a report brings, in quantity, value and fee.
LEMMA DeltaTypes ==
  ASSUME BooksTypeOK, NEW c \in Orders
  PROVE  /\ exchange.row[c].filled - journal[c].filled \in Int
         /\ exchange.row[c].gross - journal[c].gross \in Int
         /\ exchange.row[c].fee - journal[c].fee \in Int
<1>1. exchange.row[c] \in DetailRow /\ journal[c] \in JournalOrder
  BY Parts
<1> QED BY <1>1 DEF JournalOrder, DetailRow

\* What a late correction brings, in cash, cost and P&L.
LEMMA LateTypes ==
  ASSUME BooksTypeOK, NEW c \in Orders
  PROVE  LateCash(c) \in Int /\ LateToCost(c) \in Int /\ LatePnl(c) \in Int
<1> DEFINE dg == exchange.row[c].gross - journal[c].gross
           df == exchange.row[c].fee - journal[c].fee
<1>0. dg \in Int /\ df \in Int
  BY DeltaTypes
<1>1. LateCash(c) \in Int
  <2> HIDE DEF dg, df
  <2>1. LateCash(c) = IF journal[c].role = "buy" THEN -dg - df ELSE dg - df
    BY DEF LateCash, dg, df
  <2> QED BY <1>0, <2>1
<1>2. LateToCost(c) \in Int
  BY <1>0, InventoryPartType DEF LateToCost
<1> QED BY <1>1, <1>2 DEF LatePnl

\* The journal with a report booked is a journal.
LEMMA MarkedType ==
  ASSUME BooksTypeOK, NEW c \in Orders
  PROVE  Marked(c) \in [Orders -> JournalOrder]
<1>1. journal \in [Orders -> JournalOrder] /\ exchange.row[c] \in DetailRow /\ journal[c] \in JournalOrder
  BY Parts DEF BooksTypeOK
<1>2. \A r \in DetailRow, o \in JournalOrder, s \in {"active", "terminal"} :
        [o EXCEPT !.filled = r.filled, !.gross = r.gross, !.fee = r.fee, !.st = s] \in JournalOrder
  BY DEF DetailRow, JournalOrder
<1>3. [journal[c] EXCEPT !.filled = exchange.row[c].filled, !.gross = exchange.row[c].gross,
                     !.fee = exchange.row[c].fee,
                     !.st = IF exchange.row[c].live THEN "active" ELSE "terminal"] \in JournalOrder
  BY <1>1, <1>2
<1> QED BY <1>1, <1>3 DEF Marked

\* What Booked leaves of the account, field by field.
LEMMA BookedFields ==
  ASSUME BooksTypeOK, NEW cash \in Int, NEW pnl \in Int, NEW stop \in Nat
  PROVE  /\ Booked(cash, pnl, stop) \in Account
         /\ Booked(cash, pnl, stop).cash = acct.cash + cash
         /\ Booked(cash, pnl, stop).realized = acct.realized + pnl
         /\ Booked(cash, pnl, stop).dayRealized = acct.dayRealized + pnl
         /\ Booked(cash, pnl, stop).flows = acct.flows
         /\ Booked(cash, pnl, stop).dayFlows = acct.dayFlows
         /\ Booked(cash, pnl, stop).dayStart = acct.dayStart
<1>1. acct \in Account
  BY DEF BooksTypeOK
<1> QED BY <1>1 DEF Booked, Account

----------------------------------------------------------------------------
(* The invariant, action by action. *)

CashInv == BooksTypeOK /\ CashBasis

\* The initial state.
LEMMA InitCash == BooksInit => CashInv
<1> SUFFICES ASSUME BooksInit PROVE CashInv
  OBVIOUS
<1>0. Capital \in Nat /\ FullBudget \in Nat /\ MaxOrders \in Nat
      /\ MaxOutside \in Nat /\ MaxLate \in Nat /\ MaxCuts \in Nat
  BY ConstantsAssumption DEF ConstantsAssumption
<1>1. NoEntry \in JournalOrder
  BY <1>0 DEF NoEntry, JournalOrder
<1>2. NoDetail \in DetailRow
  BY DEF NoDetail, DetailRow
<1>3. NoCampaign \in Campaign
  BY <1>0 DEF NoCampaign, Campaign
<1>4. acct \in Account
  BY <1>0 DEF BooksInit, Account
<1>5. book \in Book
  BY DEF BooksInit, Book
<1>6. BooksTypeOK
  BY <1>0, <1>1, <1>2, <1>3, <1>4, <1>5 DEF BooksInit, BooksTypeOK
<1>7. CashBasis
  BY <1>0 DEF BooksInit, CashBasis
<1> QED BY <1>6, <1>7 DEF CashInv

\* A buy moves cash into cost.
LEMMA BuyKeepsCash ==
  ASSUME CashInv, NEW c \in Orders, ApplyReport(c), ApplyBuy(c)
  PROVE  CashInv'
<1> DEFINE dq == exchange.row[c].filled - journal[c].filled
           dg == exchange.row[c].gross - journal[c].gross
           df == exchange.row[c].fee - journal[c].fee
           k == CampaignAfterBuy(c, dq)
<1> USE DEF CashInv
<1>0. Capital \in Int
  BY ConstantsAssumption DEF ConstantsAssumption
<1>1. dq \in Nat /\ dg \in Int /\ df \in Int
  BY DeltaTypes DEF ApplyBuy
<1>2. acct' = Booked(-dg - df, -df, 0)
  BY DEF ApplyBuy
<1>3. book' = [held |-> book.held + dq, cost |-> book.cost + dg,
               lots |-> [book.lots EXCEPT ![c] = @ + dq]]
  BY DEF ApplyBuy
<1>4. camp' = [k EXCEPT !.realized = @ - df] /\ k \in Campaign
  BY <1>1, CampaignAfterBuyType DEF ApplyBuy
<1>5. journal' \in [Orders -> JournalOrder]
  BY MarkedType DEF ApplyBuy
<1> HIDE DEF dq, dg, df, k
<1>6. acct' \in Account /\ acct'.cash = acct.cash + (-dg - df)
      /\ acct'.realized = acct.realized + (-df) /\ acct'.flows = acct.flows
  BY <1>1, <1>2, BookedFields
<1>7. book' \in Book
  BY <1>1, <1>3 DEF BooksTypeOK, Book
<1>8. camp' \in Campaign
  BY <1>1, <1>4 DEF Campaign
<1>9. BooksTypeOK'
  BY <1>5, <1>6, <1>7, <1>8 DEF BooksTypeOK, ApplyReport, ApplyBuy
<1>10. CashBasis'
  BY <1>0, <1>1, <1>3, <1>6 DEF CashBasis, BooksTypeOK, Book, Account
<1> QED BY <1>9, <1>10

\* A sale moves cost into cash and realizes the difference.
LEMMA SellKeepsCash ==
  ASSUME CashInv, NEW c \in Orders, ApplyReport(c), ApplySell(c)
  PROVE  CashInv'
<1> DEFINE dq == exchange.row[c].filled - journal[c].filled
           dg == exchange.row[c].gross - journal[c].gross
           df == exchange.row[c].fee - journal[c].fee
           basis == Basis(dq)
           pnl == dg - basis - df
           stop == IF CountsStop(c) THEN 1 ELSE 0
<1> USE DEF CashInv
<1>0. Capital \in Int
  BY ConstantsAssumption DEF ConstantsAssumption
<1>1. dq \in Nat /\ dg \in Int /\ df \in Int /\ dq <= book.held
  BY DeltaTypes DEF ApplySell
<1>2. basis \in Int
  BY <1>1, BasisType
<1>3. acct' = Booked(dg - df, pnl, stop)
  BY DEF ApplySell
<1>4. PICK rest \in [Orders -> 0..book.held] :
        book' = [held |-> book.held - dq, cost |-> book.cost - basis, lots |-> rest]
  BY DEF ApplySell
<1>5. camp' = [camp EXCEPT !.realized = @ + pnl, !.counted = @ \/ CountsStop(c)]
  BY DEF ApplySell
<1>6. journal' \in [Orders -> JournalOrder]
  BY MarkedType DEF ApplySell
<1>7. stop \in Nat
  OBVIOUS
<1> HIDE DEF dq, dg, df, basis, stop
<1>8. pnl \in Int
  BY <1>1, <1>2
<1>9. acct' \in Account /\ acct'.cash = acct.cash + (dg - df)
      /\ acct'.realized = acct.realized + pnl /\ acct'.flows = acct.flows
  BY <1>1, <1>3, <1>7, <1>8, BookedFields
<1>10. rest \in [Orders -> Nat]
  BY DEF BooksTypeOK, Book
<1>11. book' \in Book
  BY <1>1, <1>2, <1>4, <1>10 DEF BooksTypeOK, Book
<1>12. camp' \in Campaign
  <2>1. camp \in Campaign /\ camp.counted \in BOOLEAN /\ CountsStop(c) \in BOOLEAN
    BY DEF BooksTypeOK, Campaign, CountsStop, RiskExit
  <2>2. (camp.counted \/ CountsStop(c)) \in BOOLEAN
    BY <2>1
  <2>3. \A k \in Campaign, x \in Int, b \in BOOLEAN :
          [k EXCEPT !.realized = x, !.counted = b] \in Campaign
    BY DEF Campaign
  <2>4. camp.realized + pnl \in Int
    BY <1>8, <2>1 DEF Campaign
  <2> HIDE DEF pnl
  <2> QED BY <1>5, <2>1, <2>2, <2>3, <2>4
<1>13. BooksTypeOK'
  BY <1>6, <1>9, <1>11, <1>12 DEF BooksTypeOK, ApplyReport, ApplySell
<1>14. CashBasis'
  BY <1>0, <1>1, <1>2, <1>4, <1>9 DEF CashBasis, BooksTypeOK, Book, Account
<1> QED BY <1>13, <1>14

\* A late correction moves its part in the inventory into cost.
LEMMA CorrectionKeepsCash ==
  ASSUME CashInv, NEW c \in Orders, ApplyReport(c), ApplyCorrection(c)
  PROVE  CashInv'
<1> USE DEF CashInv
<1>0. Capital \in Int
  BY ConstantsAssumption DEF ConstantsAssumption
<1>1. LateCash(c) \in Int /\ LateToCost(c) \in Int /\ LatePnl(c) \in Int
      /\ LatePnl(c) = LateCash(c) + LateToCost(c)
  BY LateTypes DEF LatePnl
<1>2. acct' = Booked(LateCash(c), LatePnl(c), 0)
      /\ book' = [book EXCEPT !.cost = @ + LateToCost(c)]
      /\ camp' = [camp EXCEPT !.realized = @ + LatePnl(c)]
  BY DEF ApplyCorrection
<1>3. acct' \in Account /\ acct'.cash = acct.cash + LateCash(c)
      /\ acct'.realized = acct.realized + LatePnl(c) /\ acct'.flows = acct.flows
  BY <1>1, <1>2, BookedFields
<1>4. book' \in Book /\ camp' \in Campaign
  BY <1>1, <1>2 DEF BooksTypeOK, Book, Campaign
<1>5. journal' \in [Orders -> JournalOrder]
  BY MarkedType DEF ApplyCorrection
<1>6. BooksTypeOK'
  BY <1>3, <1>4, <1>5 DEF BooksTypeOK, ApplyReport, ApplyCorrection
<1>7. CashBasis'
  BY <1>0, <1>1, <1>2, <1>3 DEF CashBasis, BooksTypeOK, Book, Account
<1> QED BY <1>6, <1>7

\* The rest of the late correction is saved as P&L.
LEMMA LatePnlKeepsCash ==
  ASSUME CashInv, NEW c \in Orders, ApplyReport(c), SaveLatePnl(c)
  PROVE  CashInv'
<1> USE DEF CashInv
<1>0. Capital \in Int
  BY ConstantsAssumption DEF ConstantsAssumption
<1>1. LateCash(c) \in Int /\ LateToCost(c) \in Int /\ LatePnl(c) \in Int
      /\ LatePnl(c) = LateCash(c) + LateToCost(c)
  BY LateTypes DEF LatePnl
<1>2. acct' = Booked(LateCash(c), LatePnl(c), 0)
      /\ book' = [book EXCEPT !.cost = @ + LateToCost(c)]
      /\ hist' = [hist EXCEPT !.late = @ + LatePnl(c)] /\ pend' = c
  BY DEF SaveLatePnl
<1>3. acct' \in Account /\ acct'.cash = acct.cash + LateCash(c)
      /\ acct'.realized = acct.realized + LatePnl(c) /\ acct'.flows = acct.flows
  BY <1>1, <1>2, BookedFields
<1>4. BooksTypeOK'
  <2>1. book' \in Book /\ hist' \in [flat : Int, late : Int]
    BY <1>1, <1>2 DEF BooksTypeOK, Book
  <2>2. pend' \in 0..MaxOrders
    BY <1>2, ConstantsAssumption DEF ConstantsAssumption, Orders
  <2> QED BY <1>3, <2>1, <2>2 DEF BooksTypeOK, ApplyReport, SaveLatePnl
<1>5. CashBasis'
  BY <1>0, <1>1, <1>2, <1>3 DEF CashBasis, BooksTypeOK, Account, Book
<1> QED BY <1>4, <1>5

\* The actions that change neither the account nor the cost of the book.
LEMMA OthersKeepType ==
  ASSUME BooksTypeOK, NEW c \in Orders,
         \/ \E role \in BookRoles, q \in 1..MaxSize, core \in BOOLEAN : Place(c, role, q, core)
         \/ \E o \in {<<0, 0>>, <<Fee, 0>>, <<0, 1>>} : Trade(c, o[1], o[2])
         \/ ArchiveOrder(c) \/ CloseOrder(c) \/ Report(c)
  PROVE  BooksTypeOK' /\ UNCHANGED <<acct, book>>
<1>0. c \in 0..MaxOrders /\ MaxSize \in Nat /\ Fee \in Nat /\ Price[c] \in Nat
  BY ConstantsAssumption DEF ConstantsAssumption, Orders
<1>1. /\ journal \in [Orders -> JournalOrder] /\ journal[c] \in JournalOrder
      /\ exchange \in [krw : Int, row : [Orders -> DetailRow]] /\ exchange.row[c] \in DetailRow
      /\ camp.id \in 0..MaxOrders
  BY DEF BooksTypeOK, Campaign
<1>2. ASSUME NEW role \in BookRoles, NEW q \in 1..MaxSize, NEW core \in BOOLEAN,
             Place(c, role, q, core)
      PROVE  BooksTypeOK' /\ UNCHANGED <<acct, book>>
  <2>1. [st |-> "active", role |-> role, core |-> core, qty |-> q,
         camp |-> IF CampaignOpen THEN camp.id ELSE c,
         filled |-> 0, gross |-> 0, fee |-> 0] \in JournalOrder
    BY <1>0, <1>1 DEF JournalOrder
  <2>2. journal' \in [Orders -> JournalOrder]
    BY <1>1, <1>2, <2>1 DEF Place
  <2>3. [exchange.row[c] EXCEPT !.live = TRUE] \in DetailRow
    BY <1>1 DEF DetailRow
  <2>4. exchange' \in [krw : Int, row : [Orders -> DetailRow]]
    BY <1>1, <1>2, <2>3 DEF Place
  <2> QED BY <1>2, <2>2, <2>4 DEF Place, BooksTypeOK
<1>3. ASSUME NEW o \in {<<0, 0>>, <<Fee, 0>>, <<0, 1>>}, Trade(c, o[1], o[2])
      PROVE  BooksTypeOK' /\ UNCHANGED <<acct, book>>
  <2>1. o[1] \in Int /\ o[2] \in Int
    BY <1>0
  <2>2. late' \in Nat
    BY <1>3, <2>1 DEF Trade, BooksTypeOK
  <2>3. exchange' \in [krw : Int, row : [Orders -> DetailRow]]
    <3>1. exchange.row[c].filled \in Nat /\ exchange.row[c].gross \in Int /\ exchange.row[c].fee \in Int
          /\ exchange.row[c].oweFee \in Int /\ exchange.row[c].oweGross \in Int
      BY <1>1 DEF DetailRow
    <3>2. Traded(c, o[1], o[2]) \in DetailRow
      BY <1>0, <2>1, <3>1 DEF Traded, DetailRow
    <3>3. exchange.krw - Fee + (IF journal[c].role = "buy" THEN -Price[c] ELSE Price[c]) \in Int
      BY <1>0, <1>1
    <3> QED BY <1>1, <1>3, <3>2, <3>3 DEF Trade
  <2> QED BY <1>3, <2>2, <2>3 DEF Trade, BooksTypeOK
<1>4. ASSUME ArchiveOrder(c) PROVE BooksTypeOK' /\ UNCHANGED <<acct, book>>
  <2>1. [journal[c] EXCEPT !.st = "archived"] \in JournalOrder
    BY <1>1 DEF JournalOrder
  <2>2. journal' \in [Orders -> JournalOrder]
    BY <1>1, <1>4, <2>1 DEF ArchiveOrder
  <2> QED BY <1>4, <2>2 DEF ArchiveOrder, BooksTypeOK
<1>5. ASSUME CloseOrder(c) PROVE BooksTypeOK' /\ UNCHANGED <<acct, book>>
  <2>1. [exchange.row[c] EXCEPT !.live = FALSE] \in DetailRow
    BY <1>1 DEF DetailRow
  <2>2. exchange' \in [krw : Int, row : [Orders -> DetailRow]]
    BY <1>1, <1>5, <2>1 DEF CloseOrder
  <2> QED BY <1>5, <2>2 DEF CloseOrder, BooksTypeOK
<1>6. ASSUME Report(c) PROVE BooksTypeOK' /\ UNCHANGED <<acct, book>>
  <2>1. RowReported(c) \in DetailRow
    BY <1>1 DEF RowReported, DetailRow
  <2>2. exchange' \in [krw : Int, row : [Orders -> DetailRow]]
    BY <1>1, <1>6, <2>1 DEF Report
  <2> QED BY <1>6, <2>2 DEF Report, BooksTypeOK
<1> QED BY <1>2, <1>3, <1>4, <1>5, <1>6

\* Every step keeps the cash explained.
LEMMA NextKeepsCash == CashInv /\ [BooksNext]_booksVars => CashInv'
<1> SUFFICES ASSUME CashInv, [BooksNext]_booksVars PROVE CashInv'
  OBVIOUS
<1>0. Capital \in Int
  BY ConstantsAssumption DEF ConstantsAssumption
<1>t. BooksTypeOK /\ CashBasis
  BY DEF CashInv
<1>1. ASSUME NEW c \in Orders, ApplyReport(c) PROVE CashInv'
  BY <1>1, BuyKeepsCash, SellKeepsCash, CorrectionKeepsCash, LatePnlKeepsCash DEF ApplyReport
<1>2. ASSUME NEW c \in Orders,
             \/ \E role \in BookRoles, q \in 1..MaxSize, core \in BOOLEAN : Place(c, role, q, core)
             \/ \E o \in {<<0, 0>>, <<Fee, 0>>, <<0, 1>>} : Trade(c, o[1], o[2])
             \/ ArchiveOrder(c) \/ CloseOrder(c) \/ Report(c)
      PROVE  CashInv'
  <2>1. BooksTypeOK' /\ acct' = acct /\ book' = book
    BY <1>2, <1>t, OthersKeepType
  <2> QED BY <1>t, <2>1 DEF CashInv, CashBasis
<1>3. ASSUME FinishLate PROVE CashInv'
  <2>1. pend \in Orders
    BY <1>3, <1>t, ConstantsAssumption DEF ConstantsAssumption, FinishLate, BooksTypeOK, Orders
  <2>2. journal' \in [Orders -> JournalOrder] /\ pend' \in 0..MaxOrders
    BY <1>3, <1>t, <2>1, MarkedType, ConstantsAssumption DEF ConstantsAssumption, FinishLate
  <2> QED BY <1>3, <1>t, <2>2 DEF FinishLate, BooksTypeOK, CashBasis, CashInv
<1>4. ASSUME FinishCampaign PROVE CashInv'
  <2>1. camp' \in Campaign
    BY <1>4, ConstantsAssumption DEF ConstantsAssumption, FinishCampaign, NoCampaign, Campaign
  <2>2. hist' \in [flat : Int, late : Int]
    BY <1>4, <1>t DEF FinishCampaign, BooksTypeOK, Campaign
  <2> QED BY <1>4, <1>t, <2>1, <2>2 DEF FinishCampaign, BooksTypeOK, CashBasis, CashInv
<1>5. ASSUME SyncAccount PROVE CashInv'
  <2>1. acct \in Account /\ exchange.krw - acct.cash \in Int
    BY <1>t DEF BooksTypeOK, Account
  <2>2. /\ acct' \in Account /\ acct'.cash = acct.cash + (exchange.krw - acct.cash)
        /\ acct'.flows = acct.flows + (exchange.krw - acct.cash) /\ acct'.realized = acct.realized
    BY <1>5, <2>1 DEF SyncAccount, Account
  <2>3. BooksTypeOK'
    BY <1>5, <1>t, <2>2 DEF SyncAccount, BooksTypeOK
  <2>4. CashBasis'
    BY <1>0, <1>5, <1>t, <2>1, <2>2 DEF SyncAccount, CashBasis, BooksTypeOK, Account, Book
  <2> QED BY <2>3, <2>4 DEF CashInv
<1>6. ASSUME RollDay PROVE CashInv'
  <2>1. Equity \in Int
    BY <1>t DEF Equity, BooksTypeOK, Account, Book
  <2>2. /\ acct' \in Account /\ acct'.cash = acct.cash
        /\ acct'.flows = acct.flows /\ acct'.realized = acct.realized
    BY <1>6, <1>t, <2>1 DEF RollDay, BooksTypeOK, Account
  <2>3. BooksTypeOK'
    BY <1>6, <1>t, <2>2 DEF RollDay, BooksTypeOK
  <2> QED BY <1>6, <1>t, <2>2, <2>3 DEF RollDay, CashBasis, CashInv
<1>7. ASSUME CrashInApply PROVE CashInv'
  BY <1>7, <1>t, ConstantsAssumption DEF ConstantsAssumption, CrashInApply, BooksTypeOK, CashBasis, CashInv
<1>8. ASSUME NEW amount \in {1}, MoveCash(amount) PROVE CashInv'
  BY <1>8, <1>t DEF MoveCash, BooksTypeOK, CashBasis, CashInv
<1>9. ASSUME UNCHANGED booksVars PROVE CashInv'
  BY <1>9, <1>t DEF booksVars, BooksTypeOK, CashBasis, CashInv
<1> QED BY <1>1, <1>2, <1>3, <1>4, <1>5, <1>6, <1>7, <1>8, <1>9 DEF BooksNext

----------------------------------------------------------------------------

\* Every reachable ledger is well formed, with no bound on orders or prices.
THEOREM TypeCorrect == BooksSpec => []BooksTypeOK
<1>1. CashInv => BooksTypeOK
  BY DEF CashInv
<1> QED BY <1>1, InitCash, NextKeepsCash, PTL DEF BooksSpec

\* No fill, correction, rebase, change of day or crash between the two saves
\* of apply() creates or destroys money inside the ledger.
THEOREM CashIsExplained == BooksSpec => []CashBasis
<1>1. CashInv => CashBasis
  BY DEF CashInv
<1> QED BY <1>1, InitCash, NextKeepsCash, PTL DEF BooksSpec

----------------------------------------------------------------------------
(* The history of events explains the P&L.  On its own this is not          *)
(* inductive: a sale must find its campaign open, and a campaign must start *)
(* from zero.  Both follow from what each order carries and what FLAT needs.*)

CampaignInv ==
    /\ BooksTypeOK
    /\ HistoryExplainsPnl
    /\ ~CampaignOpen => camp.realized = 0
    /\ book.held > 0 => CampaignOpen
    /\ \A c \in Orders : journal[c].st # "none" => journal[c].camp # 0
    /\ pend # 0 => journal[pend].camp # 0

\* Marking an order keeps its campaign.
LEMMA MarkedKeepsCampaign ==
  ASSUME BooksTypeOK, NEW c \in Orders, NEW d \in Orders, journal[c].st # "none"
  PROVE  Marked(c)[d].camp = journal[d].camp /\ (Marked(c)[d].st # "none" => journal[d].st # "none")
BY Parts DEF Marked, BooksTypeOK, JournalOrder

\* A buy opens or extends the campaign and finishes none.
LEMMA BuyKeepsHistory ==
  ASSUME CampaignInv, BooksTypeOK', NEW c \in Orders, ApplyReport(c), ApplyBuy(c)
  PROVE  CampaignInv'
<1> DEFINE dq == exchange.row[c].filled - journal[c].filled
           df == exchange.row[c].fee - journal[c].fee
           k == CampaignAfterBuy(c, dq)
<1>1. dq \in Nat /\ df \in Int /\ k \in Campaign
  BY DeltaTypes, CampaignAfterBuyType DEF ApplyBuy, CampaignInv
<1>2. journal[c].st # "none" /\ journal[c].camp # 0
  BY DEF ApplyReport, CampaignInv
<1>3. k.realized = camp.realized /\ k.id # 0
  BY <1>2 DEF CampaignAfterBuy, Opened, CampaignInv, CampaignOpen, BooksTypeOK, Campaign
<1>4. camp' = [k EXCEPT !.realized = @ - df]
  BY DEF ApplyBuy
<1>5. acct'.realized = acct.realized + (-df) /\ hist' = hist
  <2>1. acct' = Booked(-(exchange.row[c].gross - journal[c].gross) - df, -df, 0) /\ hist' = hist
    BY DEF ApplyBuy
  <2> HIDE DEF df
  <2> QED BY <2>1, <1>1 DEF Booked
<1> HIDE DEF df, k
<1>6. camp'.realized = camp.realized - df /\ camp'.id # 0
  BY <1>1, <1>3, <1>4 DEF Campaign
<1>7. HistoryExplainsPnl'
  BY <1>1, <1>5, <1>6 DEF HistoryExplainsPnl, CampaignInv, BooksTypeOK, Account, Campaign
<1>8. \A d \in Orders : journal'[d].st # "none" => journal'[d].camp # 0
  BY <1>2, MarkedKeepsCampaign DEF ApplyBuy, CampaignInv
<1>9. pend' = 0
  BY DEF ApplyReport, ApplyBuy
<1> QED BY <1>6, <1>7, <1>8, <1>9 DEF CampaignInv, CampaignOpen

\* A sale adds its P&L to the campaign and, when it is the last, to the history.
LEMMA SellKeepsHistory ==
  ASSUME CampaignInv, BooksTypeOK', NEW c \in Orders, ApplyReport(c), ApplySell(c)
  PROVE  CampaignInv'
<1> DEFINE dq == exchange.row[c].filled - journal[c].filled
           dg == exchange.row[c].gross - journal[c].gross
           df == exchange.row[c].fee - journal[c].fee
           basis == Basis(dq)
           pnl == dg - basis - df
<1>1. dq \in Nat /\ dq > 0 /\ dg \in Int /\ df \in Int /\ dq <= book.held
  BY DeltaTypes DEF ApplySell, CampaignInv
<1>2. pnl \in Int
  BY <1>1, BasisType DEF CampaignInv
<1>3. CampaignOpen
  BY <1>1 DEF CampaignInv, BooksTypeOK, Book
<1>4. journal[c].st # "none"
  BY DEF ApplyReport
<1>5. camp' = [camp EXCEPT !.realized = @ + pnl, !.counted = @ \/ CountsStop(c)]
      /\ acct' = Booked(dg - df, pnl, IF CountsStop(c) THEN 1 ELSE 0) /\ hist' = hist
  BY DEF ApplySell
<1> HIDE DEF dq, dg, df, basis, pnl
<1>6. camp'.realized = camp.realized + pnl /\ camp'.id = camp.id
      /\ acct'.realized = acct.realized + pnl
  BY <1>5 DEF CampaignInv, BooksTypeOK, Campaign, Booked
<1>7. HistoryExplainsPnl'
  BY <1>2, <1>5, <1>6 DEF HistoryExplainsPnl, CampaignInv, BooksTypeOK, Account, Campaign
<1>8. \A d \in Orders : journal'[d].st # "none" => journal'[d].camp # 0
  BY <1>4, MarkedKeepsCampaign DEF ApplySell, CampaignInv
<1>9. pend' = 0
  BY DEF ApplyReport, ApplySell
<1> QED BY <1>3, <1>6, <1>7, <1>8, <1>9 DEF CampaignInv, CampaignOpen

\* A late correction goes to the campaign that is open or to the late account.
LEMMA LateKeepsHistory ==
  ASSUME CampaignInv, BooksTypeOK', NEW c \in Orders, ApplyReport(c), ApplyCorrection(c) \/ SaveLatePnl(c)
  PROVE  CampaignInv'
<1>1. LateCash(c) \in Int /\ LateToCost(c) \in Int /\ LatePnl(c) \in Int
  BY LateTypes DEF CampaignInv
<1>2. journal[c].st # "none"
  BY DEF ApplyReport
<1>3. acct'.realized = acct.realized + LatePnl(c) /\ book'.held = book.held
  BY DEF ApplyCorrection, SaveLatePnl, Booked, CampaignInv, BooksTypeOK, Book
<1>4. \A d \in Orders : journal'[d].st # "none" => journal'[d].camp # 0
  BY <1>2, MarkedKeepsCampaign DEF ApplyCorrection, SaveLatePnl, CampaignInv
<1>5. CASE ApplyCorrection(c)
  <2>1. camp'.realized = camp.realized + LatePnl(c) /\ camp'.id = camp.id /\ hist' = hist
    BY <1>5 DEF ApplyCorrection, CampaignInv, BooksTypeOK, Campaign
  <2>2. CampaignOpen \/ LatePnl(c) = 0
    BY <1>5 DEF ApplyCorrection, Own
  <2>3. HistoryExplainsPnl'
    BY <1>1, <1>3, <2>1 DEF HistoryExplainsPnl, CampaignInv, BooksTypeOK, Account, Campaign
  <2>4. (~CampaignOpen => camp.realized = 0)'
    BY <2>1, <2>2 DEF CampaignInv, CampaignOpen, BooksTypeOK, Campaign
  <2>5. pend' = 0
    BY <1>5 DEF ApplyReport, ApplyCorrection
  <2> QED BY <1>3, <1>4, <2>1, <2>3, <2>4, <2>5 DEF CampaignInv, CampaignOpen
<1>6. CASE SaveLatePnl(c)
  <2>1. camp' = camp /\ hist'.late = hist.late + LatePnl(c) /\ hist'.flat = hist.flat
    BY <1>6 DEF SaveLatePnl, CampaignInv, BooksTypeOK
  <2>2. HistoryExplainsPnl'
    BY <1>1, <1>3, <2>1 DEF HistoryExplainsPnl, CampaignInv, BooksTypeOK, Account, Campaign
  <2>3. pend' = c /\ journal' = journal /\ journal[c].camp # 0
    BY <1>2, <1>6 DEF SaveLatePnl, CampaignInv
  <2> QED BY <1>3, <1>4, <2>1, <2>2, <2>3 DEF CampaignInv, CampaignOpen
<1> QED BY <1>5, <1>6

\* Every step keeps the history complete.
LEMMA NextKeepsHistory ==
  ASSUME CampaignInv, BooksTypeOK', [BooksNext]_booksVars
  PROVE  CampaignInv'
<1>t. BooksTypeOK
  BY DEF CampaignInv
<1>1. ASSUME NEW c \in Orders, ApplyReport(c) PROVE CampaignInv'
  BY <1>1, BuyKeepsHistory, SellKeepsHistory, LateKeepsHistory DEF ApplyReport
<1>2. ASSUME NEW c \in Orders, NEW role \in BookRoles, NEW q \in 1..MaxSize, NEW core \in BOOLEAN,
             Place(c, role, q, core)
      PROVE  CampaignInv'
  <2>1. c # 0 /\ (CampaignOpen => camp.id # 0)
    BY ConstantsAssumption DEF ConstantsAssumption, Orders, CampaignOpen
  <2>2. \A d \in Orders : journal'[d].st # "none" => journal'[d].camp # 0
    BY <1>2, <1>t, <2>1 DEF Place, CampaignInv, BooksTypeOK
  <2> QED BY <1>2, <2>2 DEF Place, CampaignInv, HistoryExplainsPnl, CampaignOpen
<1>3. ASSUME NEW c \in Orders, ArchiveOrder(c) PROVE CampaignInv'
  <2>0. pend' = 0
    BY <1>3 DEF ArchiveOrder
  <2>1. \A d \in Orders : journal'[d].st # "none" => journal'[d].camp # 0
    BY <1>3, <1>t DEF ArchiveOrder, CampaignInv, BooksTypeOK, JournalOrder
  <2> QED BY <1>3, <2>0, <2>1 DEF ArchiveOrder, CampaignInv, HistoryExplainsPnl, CampaignOpen
<1>4. ASSUME UNCHANGED <<acct, book, camp, journal, hist>>, pend' \in {pend, 0} PROVE CampaignInv'
  BY <1>4 DEF CampaignInv, HistoryExplainsPnl, CampaignOpen
<1>5. ASSUME FinishLate PROVE CampaignInv'
  <2>1. pend \in Orders
    BY <1>5, <1>t, ConstantsAssumption DEF ConstantsAssumption, FinishLate, BooksTypeOK, Orders
  <2>2. \A d \in Orders : Marked(pend)[d].camp = journal[d].camp
    BY <1>t, <2>1, Parts DEF Marked, BooksTypeOK, JournalOrder
  <2>3. \A d \in Orders : d # pend => Marked(pend)[d] = journal[d]
    BY <1>t DEF Marked, BooksTypeOK
  <2>4. journal[pend].camp # 0
    BY <1>5 DEF FinishLate, CampaignInv
  <2>5. \A d \in Orders : journal'[d].st # "none" => journal'[d].camp # 0
    BY <1>5, <2>2, <2>3, <2>4 DEF FinishLate, CampaignInv
  <2> QED BY <1>5, <2>5 DEF FinishLate, CampaignInv, HistoryExplainsPnl, CampaignOpen
<1>6. ASSUME FinishCampaign PROVE CampaignInv'
  <2>1. camp'.realized = 0 /\ hist'.flat = hist.flat + camp.realized /\ hist'.late = hist.late
        /\ acct' = acct /\ book'.held = 0 /\ journal' = journal /\ pend' = 0
    BY <1>6, <1>t DEF FinishCampaign, NoCampaign, BooksTypeOK, Exposed
  <2>2. HistoryExplainsPnl'
    BY <1>t, <2>1 DEF HistoryExplainsPnl, CampaignInv, BooksTypeOK, Account, Campaign
  <2> QED BY <2>1, <2>2 DEF CampaignInv
<1>7. ASSUME SyncAccount \/ RollDay PROVE CampaignInv'
  <2>1. acct'.realized = acct.realized /\ UNCHANGED <<book, camp, journal, hist, pend>>
    BY <1>7 DEF SyncAccount, RollDay
  <2> QED BY <2>1 DEF CampaignInv, HistoryExplainsPnl, CampaignOpen
<1>8. ASSUME \/ \E c \in Orders : CloseOrder(c) \/ Report(c)
             \/ \E c \in Orders, o \in {<<0, 0>>, <<Fee, 0>>, <<0, 1>>} : Trade(c, o[1], o[2])
             \/ CrashInApply \/ (\E amount \in {1} : MoveCash(amount)) \/ UNCHANGED booksVars
      PROVE  UNCHANGED <<acct, book, camp, journal, hist>> /\ pend' \in {pend, 0}
  BY <1>8 DEF CloseOrder, Report, Trade, CrashInApply, MoveCash, booksVars
<1> QED BY <1>1, <1>2, <1>3, <1>4, <1>5, <1>6, <1>7, <1>8 DEF BooksNext

\* The total P&L is always what the FLAT and CAMPAIGN_LATE_PNL events and the
\* open campaign add up to, whatever is reported late and whenever it cuts.
THEOREM HistoryIsComplete == BooksSpec => []HistoryExplainsPnl
<1>1. BooksInit => CampaignInv
  <2> SUFFICES ASSUME BooksInit PROVE CampaignInv
    OBVIOUS
  <2>1. BooksTypeOK
    BY InitCash DEF CashInv
  <2> QED BY <2>1 DEF BooksInit, CampaignInv, HistoryExplainsPnl, CampaignOpen, NoCampaign, NoEntry
<1>2. BooksTypeOK /\ CampaignInv /\ BooksTypeOK' /\ [BooksNext]_booksVars => CampaignInv'
  BY NextKeepsHistory
<1>3. CampaignInv => HistoryExplainsPnl
  BY DEF CampaignInv
<1> QED BY <1>1, <1>2, <1>3, TypeCorrect, PTL DEF BooksSpec

----------------------------------------------------------------------------
(* What the journal and the details of the exchange know of each other.  The *)
(* deeper properties rest on it: an order that is over has been booked in    *)
(* full, and no two orders of one side work at a time.                       *)

Known(c) == journal[c].st # "none"

OrderFacts(c) ==
    LET o == journal[c] r == exchange.row[c] IN
    /\ ~Known(c) => o = NoEntry /\ ~r.live /\ r.filled = 0
    /\ Known(c) => o.role \in BookRoles
    /\ o.filled <= r.filled
    /\ o.st \in {"terminal", "archived"} => ~r.live /\ r.filled = o.filled
    /\ r.filled = 0 => r.gross = 0 /\ r.fee = 0 /\ r.oweFee = 0 /\ r.oweGross = 0
    /\ o.filled = 0 => o.gross = 0 /\ o.fee = 0

OrdersInv ==
    /\ \A c \in Orders : OrderFacts(c)
    /\ \A c, d \in Active : c # d => (journal[c].role = "buy" <=> journal[d].role # "buy")

\* The journal entry of an order after a report is booked.
LEMMA MarkedFields ==
  ASSUME BooksTypeOK, NEW c \in Orders
  PROVE  /\ \A d \in Orders : d # c => Marked(c)[d] = journal[d]
         /\ Marked(c)[c].filled = exchange.row[c].filled
         /\ Marked(c)[c].gross = exchange.row[c].gross
         /\ Marked(c)[c].fee = exchange.row[c].fee
         /\ Marked(c)[c].st = IF exchange.row[c].live THEN "active" ELSE "terminal"
         /\ Marked(c)[c].role = journal[c].role
         /\ Marked(c)[c].camp = journal[c].camp
BY Parts DEF Marked, BooksTypeOK, JournalOrder

\* Booking a report keeps what is known of the orders and makes none active.
LEMMA MarkedKeepsOrders ==
  ASSUME BooksTypeOK, OrdersInv, NEW c \in Orders, Known(c), journal' = Marked(c), exchange' = exchange
  PROVE  OrdersInv' /\ Active' \subseteq Active
<1>1. \A d \in Orders : d # c => OrderFacts(d)'
  BY MarkedFields DEF OrdersInv, OrderFacts, Known
<1>2. OrderFacts(c)'
  BY MarkedFields DEF OrdersInv, OrderFacts, Known, BooksTypeOK, DetailRow
<1>3. Active' \subseteq Active
  <2> SUFFICES ASSUME NEW d \in Active' PROVE d \in Active
    OBVIOUS
  <2>1. d \in Orders /\ journal'[d].st = "active"
    BY DEF Active
  <2>2. CASE d # c
    BY <2>1, <2>2, MarkedFields DEF Active
  <2>3. CASE d = c
    <3>1. exchange.row[c].live
      BY <2>1, <2>3, MarkedFields
    <3>2. journal[c].st \in {"none", "active", "terminal", "archived"}
      BY Parts DEF JournalOrder
    <3> QED BY <2>3, <3>1, <3>2 DEF OrdersInv, OrderFacts, Active, Known
  <2> QED BY <2>2, <2>3
<1>4. \A d \in Orders : journal'[d].role = journal[d].role
  BY MarkedFields
<1>5. \A d, e \in Active' : d # e => (journal'[d].role = "buy" <=> journal'[e].role # "buy")
  BY <1>3, <1>4 DEF OrdersInv, Active
<1> QED BY <1>1, <1>2, <1>3, <1>5 DEF OrdersInv

\* Placing an order makes that one active.
LEMMA PlaceKeepsOrders ==
  ASSUME BooksTypeOK, OrdersInv, NEW c \in Orders, NEW role \in BookRoles, NEW q \in 1..MaxSize,
         NEW core \in BOOLEAN, Place(c, role, q, core)
  PROVE  OrdersInv' /\ Active' = Active \cup {c}
<1>1. /\ \A d \in Orders : d # c => journal'[d] = journal[d] /\ exchange'.row[d] = exchange.row[d]
      /\ journal'[c].st = "active" /\ journal'[c].role = role /\ journal'[c].filled = 0
      /\ journal'[c].gross = 0 /\ journal'[c].fee = 0
      /\ exchange'.row[c].live /\ exchange'.row[c].filled = exchange.row[c].filled
      /\ exchange'.row[c].gross = exchange.row[c].gross /\ exchange'.row[c].fee = exchange.row[c].fee
      /\ exchange'.row[c].oweFee = exchange.row[c].oweFee /\ exchange'.row[c].oweGross = exchange.row[c].oweGross
  BY Parts DEF Place, BooksTypeOK, DetailRow, JournalOrder
<1>2. journal[c].st = "none" /\ exchange.row[c].filled = 0
  BY DEF Place, NoEntry, OrdersInv, OrderFacts, Known
<1>3. \A d \in Orders : d # c => OrderFacts(d)'
  BY <1>1 DEF OrdersInv, OrderFacts, Known
<1>4. OrderFacts(c)'
  BY <1>1, <1>2 DEF OrdersInv, OrderFacts, Known
<1>5. Active' = Active \cup {c}
  BY <1>1, <1>2 DEF Active
<1>6. \A d \in Active : journal[d].role = "buy" <=> role # "buy"
  BY DEF Place
<1>7. \A d, e \in Active' : d # e => (journal'[d].role = "buy" <=> journal'[e].role # "buy")
  <2>1. \A d \in Active : d \in Orders /\ d # c
    BY <1>2 DEF Active
  <2> QED BY <1>1, <1>5, <1>6, <2>1 DEF OrdersInv
<1> QED BY <1>3, <1>4, <1>5, <1>7 DEF OrdersInv

\* What the exchange does leaves the journal alone and only adds to what is filled.
LEMMA ExchangeKeepsOrders ==
  ASSUME BooksTypeOK, OrdersInv, NEW c \in Orders,
         \/ \E o \in {<<0, 0>>, <<Fee, 0>>, <<0, 1>>} : Trade(c, o[1], o[2])
         \/ CloseOrder(c) \/ Report(c)
  PROVE  OrdersInv' /\ journal' = journal
<1>0. journal' = journal
  BY DEF Trade, CloseOrder, Report
<1>1. \A d \in Orders : d # c => exchange'.row[d] = exchange.row[d]
  <2>1. ASSUME NEW o \in {<<0, 0>>, <<Fee, 0>>, <<0, 1>>}, Trade(c, o[1], o[2])
        PROVE  \A d \in Orders : d # c => exchange'.row[d] = exchange.row[d]
    BY <2>1, Parts DEF Trade
  <2>2. CASE CloseOrder(c)
    BY <2>2, Parts DEF CloseOrder
  <2>3. CASE Report(c)
    BY <2>3, Parts DEF Report
  <2> QED BY <2>1, <2>2, <2>3
<1>2. OrderFacts(c)'
  <2>1. CASE \E o \in {<<0, 0>>, <<Fee, 0>>, <<0, 1>>} : Trade(c, o[1], o[2])
    <3>1. exchange.row[c].live /\ exchange'.row[c].filled = exchange.row[c].filled + 1
      BY <2>1, Parts DEF Trade, Traded
    <3>2. journal[c].filled \in Nat /\ exchange.row[c].filled \in Nat
      BY Parts DEF JournalOrder, DetailRow
    <3> QED BY <1>0, <3>1, <3>2 DEF OrdersInv, OrderFacts, Known
  <2>2. CASE CloseOrder(c)
    <3>1. exchange.row[c].live /\ exchange'.row[c] = [exchange.row[c] EXCEPT !.live = FALSE]
      BY <2>2, Parts DEF CloseOrder
    <3>2. exchange.row[c] \in DetailRow
      BY Parts
    <3> QED BY <1>0, <3>1, <3>2 DEF OrdersInv, OrderFacts, Known, DetailRow
  <2>3. CASE Report(c)
    <3>1. exchange'.row[c] = RowReported(c) /\ exchange.row[c].oweFee + exchange.row[c].oweGross > 0
      BY <2>3, Parts DEF Report
    <3>2. exchange.row[c].filled # 0
      BY <3>1 DEF OrdersInv, OrderFacts
    <3> QED BY <1>0, <3>1, <3>2 DEF OrdersInv, OrderFacts, Known, RowReported
  <2> QED BY <2>1, <2>2, <2>3
<1>3. \A d \in Orders : OrderFacts(d)'
  BY <1>0, <1>1, <1>2 DEF OrdersInv, OrderFacts, Known
<1> QED BY <1>0, <1>3 DEF OrdersInv, Active

----------------------------------------------------------------------------
(* Whose the orders and the lots are.  A campaign has the number of the order *)
(* that opened it; when none is open, only such an order may be working.      *)

OwnersInv ==
    /\ \A c \in Orders : Known(c) =>
         /\ journal[c].camp \in Orders
         /\ journal[c].camp # c => journal[journal[c].camp].filled > 0
    /\ \A c \in Active :
         IF CampaignOpen THEN journal[c].camp = camp.id
         ELSE journal[c].role = "buy" /\ journal[c].camp = c /\ journal[c].filled = 0
    /\ CampaignOpen =>
         /\ camp.id \in Orders /\ camp.entry = camp.id
         /\ journal[camp.id].filled > 0 /\ journal[camp.id].camp = camp.id
         /\ journal[camp.id].role = "buy"
    /\ \A c \in Orders : book.lots[c] > 0 => Own(c)
    /\ pend # 0 => pend \in Orders /\ journal[pend].st = "terminal" /\ ~Own(pend)

BookInv == BooksTypeOK /\ OrdersInv /\ OwnersInv /\ InventoryOnce

\* What the actions below need of the types, once.
LEMMA Constants ==
  /\ MaxOrders \in Nat /\ Orders = 1..MaxOrders /\ 0 \notin Orders /\ IsFiniteSet(Orders)
  /\ Capital \in Nat /\ Unit \in Nat \ {0} /\ FullBudget \in Nat /\ Fee \in Nat /\ MaxOutside \in Nat
<1>1. MaxOrders \in Nat /\ Capital \in Nat /\ Unit \in Nat \ {0} /\ FullBudget \in Nat /\ Fee \in Nat
      /\ MaxOutside \in Nat
  BY ConstantsAssumption DEF ConstantsAssumption
<1>2. IsFiniteSet(1..MaxOrders)
  BY <1>1, FS_Interval
<1> QED BY <1>1, <1>2 DEF Orders

\* The types of the journal, the lots and the campaign, spelled out.
LEMMA JournalTypes ==
  ASSUME BooksTypeOK
  PROVE  /\ \A c \in Orders : journal[c].filled \in Nat /\ exchange.row[c].filled \in Nat
         /\ \A c \in Orders : book.lots[c] \in Nat
         /\ DOMAIN book.lots = Orders /\ book.held \in Nat /\ book.cost \in Int
         /\ journal \in [Orders -> JournalOrder] /\ camp \in Campaign /\ book \in Book
BY Parts DEF BooksTypeOK, Book, JournalOrder, DetailRow

\* The lots are all there is: with nothing held, none is left.
LEMMA NothingLeft ==
  ASSUME BooksTypeOK, InventoryOnce
  PROVE  /\ book.held = 0 => \A c \in Orders : book.lots[c] = 0
         /\ book.held > 0 => \E c \in Orders : book.lots[c] > 0
<1>1. book.held = SumFunctionOnSet(book.lots, Orders)
  BY JournalTypes DEF InventoryOnce, SumFunction
<1>2. \A c \in Orders : book.lots[c] <= SumFunctionOnSet(book.lots, Orders)
  BY JournalTypes, Constants, SumOfNats
<1>3. SumFunctionOnSet(book.lots, Orders) > 0 => \E c \in Orders : book.lots[c] > 0
  BY JournalTypes, Constants, SumOfNats
<1> QED BY <1>1, <1>2, <1>3, JournalTypes

\* What a report adds to what is filled: the fills of the one order.
LEMMA FilledAfter ==
  ASSUME BooksTypeOK, NEW c \in Orders, NEW roles, journal' = Marked(c)
  PROVE  Filled(roles)' = Filled(roles)
             + (IF journal[c].role \in roles THEN exchange.row[c].filled - journal[c].filled ELSE 0)
<1> DEFINE f == [d \in Orders |-> IF journal[d].role \in roles THEN journal[d].filled ELSE 0]
           g == [d \in Orders |-> IF journal'[d].role \in roles THEN journal'[d].filled ELSE 0]
<1>1. \A d \in Orders : f[d] \in Int /\ g[d] \in Int
  BY JournalTypes, MarkedFields
<1>2. \A d \in Orders \ {c} : g[d] = f[d]
  BY MarkedFields
<1>3. /\ f[c] = (IF journal[c].role \in roles THEN journal[c].filled ELSE 0)
      /\ g[c] = (IF journal[c].role \in roles THEN exchange.row[c].filled ELSE 0)
  BY MarkedFields
<1>4. Filled(roles) = SumFunctionOnSet(f, Orders) /\ Filled(roles)' = SumFunctionOnSet(g, Orders)
  BY DEF Filled, SumFunction
<1> HIDE DEF f, g
<1>5. SumFunctionOnSet(g, Orders) = SumFunctionOnSet(f, Orders) - f[c] + g[c]
  <2>1. IsFiniteSet(Orders)
    BY Constants
  <2> QED BY <1>1, <1>2, <2>1, SumChange
<1>6. SumFunctionOnSet(f, Orders) \in Int
  BY <1>1, Constants, SumIsInt
<1> QED BY <1>3, <1>4, <1>5, <1>6, JournalTypes

\* An order that is only written down has filled nothing.
LEMMA FilledSame ==
  ASSUME BooksTypeOK, NEW roles,
         \A d \in Orders : \/ journal'[d].role = journal[d].role /\ journal'[d].filled = journal[d].filled
                           \/ journal'[d].filled = 0 /\ journal[d].filled = 0
  PROVE  Filled(roles)' = Filled(roles)
<1> DEFINE f == [d \in Orders |-> IF journal[d].role \in roles THEN journal[d].filled ELSE 0]
           g == [d \in Orders |-> IF journal'[d].role \in roles THEN journal'[d].filled ELSE 0]
<1>1. \A d \in Orders : f[d] = g[d]
  OBVIOUS
<1>2. Filled(roles) = SumFunctionOnSet(f, Orders) /\ Filled(roles)' = SumFunctionOnSet(g, Orders)
  BY DEF Filled, SumFunction
<1> HIDE DEF f, g
<1> QED BY <1>1, <1>2, Constants, SumCongruent

\* What orders of some roles have filled is a number.
LEMMA FilledIsInt ==
  ASSUME BooksTypeOK, NEW roles
  PROVE  Filled(roles) \in Int
<1> DEFINE f == [d \in Orders |-> IF journal[d].role \in roles THEN journal[d].filled ELSE 0]
<1>1. \A d \in Orders : f[d] \in Int
  BY JournalTypes
<1>2. Filled(roles) = SumFunctionOnSet(f, Orders)
  BY DEF Filled, SumFunction
<1> HIDE DEF f
<1> QED BY <1>1, <1>2, Constants, SumIsInt

\* Lots give way to a sale by exactly its quantity, whichever way they are taken.
LEMMA TakesSum ==
  ASSUME BooksTypeOK, InventoryOnce, NEW rest \in [Orders -> Nat], NEW q \in Nat, q > 0, q <= book.held,
         NEW core \in BOOLEAN, Takes(book.lots, rest, q, core)
  PROVE  /\ SumFunction(rest) = book.held - q
         /\ \A c \in Orders : rest[c] <= book.lots[c]
<1>1. book.held = SumFunctionOnSet(book.lots, Orders)
  BY JournalTypes DEF InventoryOnce, SumFunction
<1>2. CASE ~core
  BY <1>2, JournalTypes DEF Takes, TakesLast, InventoryOnce
<1>3. CASE core
  <2> DEFINE first == Min({c \in Orders : book.lots[c] > 0})
             take == Capped(q, book.lots[first])
             cut == [book.lots EXCEPT ![first] = @ - take]
  <2>1. first \in Orders
    <3> DEFINE T == {c \in Orders : book.lots[c] > 0}
    <3>0. book.held > 0 /\ Orders = 1..MaxOrders /\ MaxOrders \in Nat
      BY JournalTypes, Constants
    <3>3. \E c \in Orders : book.lots[c] > 0
      BY <3>0, NothingLeft
    <3>1. T \in SUBSET (1..MaxOrders) /\ T # {}
      BY <3>0, <3>3
    <3> HIDE DEF T
    <3>2. Min(T) \in T
      BY <3>0, <3>1, LeastElement
    <3> QED BY <3>2 DEF T
  <2>2. TakesLast(cut, rest, q - take)
    BY <1>3 DEF Takes
  <2> HIDE DEF first
  <2>3. take \in Nat /\ take <= q /\ take <= book.lots[first]
    BY <2>1, JournalTypes DEF Capped
  <2> HIDE DEF take
  <2>4. \A c \in Orders : cut[c] \in Nat /\ cut[c] <= book.lots[c]
    BY <2>1, <2>3, JournalTypes
  <2>5. SumFunction(cut) = SumFunctionOnSet(cut, Orders) /\ cut[first] = book.lots[first] - take
        /\ \A c \in Orders \ {first} : cut[c] = book.lots[c]
    BY <2>1, JournalTypes DEF SumFunction
  <2> HIDE DEF cut
  <2>6. SumFunctionOnSet(cut, Orders) = SumFunctionOnSet(book.lots, Orders) - book.lots[first] + cut[first]
    <3>1. \A c \in Orders : book.lots[c] \in Int /\ cut[c] \in Int
      BY <2>4, JournalTypes
    <3>2. IsFiniteSet(Orders)
      BY Constants
    <3>3. \A c \in Orders \ {first} : cut[c] = book.lots[c]
      BY <2>5
    <3> QED BY <2>1, <3>1, <3>2, <3>3, SumChange
  <2>7. SumFunction(rest) = SumFunction(cut) - (q - take) /\ \A c \in Orders : rest[c] <= cut[c]
    BY <2>2 DEF TakesLast
  <2>8. book.lots[first] \in Nat
    BY <2>1, JournalTypes
  <2>9. SumFunction(rest) = book.held - q
    BY <1>1, <2>3, <2>5, <2>6, <2>7, <2>8, JournalTypes
  <2>10. \A c \in Orders : rest[c] <= book.lots[c]
    BY <2>4, <2>7, JournalTypes
  <2> QED BY <2>9, <2>10
<1> QED BY <1>2, <1>3

\* Where nothing moves but cash and the exchange's details, the books stay true.
LEMMA BooksUnmoved ==
  ASSUME BookInv, BooksTypeOK', OrdersInv',
         UNCHANGED <<book, camp, journal>>, pend' \in {pend, 0}
  PROVE  BookInv'
<1>1. OwnersInv'
  BY DEF BookInv, OwnersInv, Active, Own, CampaignOpen, Known
<1>2. InventoryOnce'
  BY DEF BookInv, InventoryOnce, Filled
<1> QED BY <1>1, <1>2 DEF BookInv

\* Placing an order fills nothing.
LEMMA PlaceKeepsBook ==
  ASSUME BookInv, BooksTypeOK', NEW c \in Orders, NEW role \in BookRoles, NEW q \in 1..MaxSize,
         NEW core \in BOOLEAN, Place(c, role, q, core)
  PROVE  BookInv'
<1>0. BooksTypeOK /\ OrdersInv /\ OwnersInv /\ InventoryOnce
  BY DEF BookInv
<1>1. OrdersInv' /\ Active' = Active \cup {c}
  BY <1>0, PlaceKeepsOrders
<1>2. /\ journal[c].st = "none" /\ journal[c].camp = 0 /\ journal[c].filled = 0
      /\ \A d \in Orders : d # c => journal'[d] = journal[d]
      /\ journal'[c].role = role /\ journal'[c].filled = 0
      /\ journal'[c].camp = IF CampaignOpen THEN camp.id ELSE c
      /\ UNCHANGED <<book, camp, pend>> /\ pend = 0
  BY <1>0, Parts DEF Place, NoEntry, BooksTypeOK, JournalOrder
<1>3. \A d \in Orders : Known(d)' =>
         /\ journal'[d].camp \in Orders
         /\ journal'[d].camp # d => journal'[journal'[d].camp].filled > 0
  <2> SUFFICES ASSUME NEW d \in Orders, Known(d)'
               PROVE  /\ journal'[d].camp \in Orders
                      /\ journal'[d].camp # d => journal'[journal'[d].camp].filled > 0
    OBVIOUS
  <2>1. CASE d = c
    BY <1>0, <1>2, <2>1 DEF OwnersInv
  <2>2. CASE d # c
    BY <1>0, <1>2, <2>2 DEF OwnersInv, Known
  <2> QED BY <2>1, <2>2
<1>4. \A d \in Active' : IF CampaignOpen THEN journal'[d].camp = camp.id
                         ELSE journal'[d].role = "buy" /\ journal'[d].camp = d /\ journal'[d].filled = 0
  <2>1. ~CampaignOpen => role = "buy"
    BY DEF Place, BookRoles
  <2>2. \A d \in Active : d \in Orders /\ d # c
    BY <1>2 DEF Active
  <2> QED BY <1>0, <1>1, <1>2, <2>1, <2>2 DEF OwnersInv
<1>5. \A d \in Orders : book.lots[d] > 0 => Own(d)'
  <2> SUFFICES ASSUME NEW d \in Orders, book.lots[d] > 0 PROVE Own(d)'
    OBVIOUS
  <2>1. Own(d)
    BY <1>0 DEF OwnersInv
  <2>2. d # c
    BY <1>2, <2>1 DEF Own, CampaignOpen
  <2> QED BY <1>2, <2>1, <2>2 DEF Own, CampaignOpen
<1>6. CampaignOpen => camp.id # c
  BY <1>0, <1>2 DEF OwnersInv
<1>7. OwnersInv'
  BY <1>0, <1>2, <1>3, <1>4, <1>5, <1>6 DEF OwnersInv, CampaignOpen
<1>8. \A roles : Filled(roles)' = Filled(roles)
  <2> TAKE roles
  <2>1. \A d \in Orders : \/ journal'[d].role = journal[d].role /\ journal'[d].filled = journal[d].filled
                          \/ journal'[d].filled = 0 /\ journal[d].filled = 0
    BY <1>2
  <2> QED BY <1>0, <2>1, FilledSame
<1>9. InventoryOnce'
  BY <1>0, <1>2, <1>8 DEF InventoryOnce
<1> QED BY <1>1, <1>7, <1>9 DEF BookInv

\* A report with new quantity is about an order that is still working.
LEMMA NewFillsAreActive ==
  ASSUME BookInv, NEW c \in Orders, journal[c].st \in {"active", "terminal"},
         exchange.row[c].filled - journal[c].filled > 0
  PROVE  c \in Active
<1>1. journal[c].filled \in Nat /\ exchange.row[c].filled \in Nat
  BY JournalTypes DEF BookInv
<1>2. journal[c].st = "terminal" => exchange.row[c].filled = journal[c].filled
  BY DEF BookInv, OrdersInv, OrderFacts
<1> QED BY <1>1, <1>2 DEF Active

\* With no campaign open, only one order can be working.
LEMMA OpenerIsAlone ==
  ASSUME BookInv, ~CampaignOpen, NEW c \in Active, NEW d \in Active
  PROVE  c = d
BY DEF BookInv, OwnersInv, OrdersInv

\* A report leaves the names of the orders alone and only adds to what they filled.
LEMMA MarkedKeepsNames ==
  ASSUME BookInv, NEW c \in Orders, Known(c), journal' = Marked(c)
  PROVE  \A d \in Orders : Known(d)' =>
            /\ journal'[d].camp \in Orders
            /\ journal'[d].camp # d => journal'[journal'[d].camp].filled > 0
<1>1. \A d \in Orders : /\ journal'[d].camp = journal[d].camp
                        /\ journal[d].filled > 0 => journal'[d].filled > 0
  BY MarkedFields, JournalTypes DEF BookInv, OrdersInv, OrderFacts
<1>2. \A d \in Orders : Known(d)' => Known(d)
  BY MarkedFields DEF BookInv, Known
<1> QED BY <1>1, <1>2 DEF BookInv, OwnersInv

\* A buy adds to its lot, to what is held and to what is applied alike.
LEMMA BuyKeepsBook ==
  ASSUME BookInv, BooksTypeOK', NEW c \in Orders, ApplyBuy(c), exchange' = exchange,
         journal[c].st \in {"active", "terminal"}, pend = 0
  PROVE  BookInv'
<1> DEFINE dq == exchange.row[c].filled - journal[c].filled
<1>0. BooksTypeOK /\ OrdersInv /\ OwnersInv /\ InventoryOnce
  BY DEF BookInv
<1>1. /\ journal' = Marked(c) /\ journal[c].role = "buy" /\ dq > 0 /\ pend' = 0
      /\ CampaignOpen => camp.id = journal[c].camp
      /\ book'.held = book.held + dq /\ book'.lots = [book.lots EXCEPT ![c] = @ + dq]
  BY DEF ApplyBuy
<1>2. c \in Active /\ Known(c)
  BY <1>1, NewFillsAreActive DEF Known
<1>3. OrdersInv' /\ Active' \subseteq Active
  BY <1>0, <1>1, <1>2, MarkedKeepsOrders
<1>4. IF CampaignOpen THEN camp'.id = camp.id /\ camp'.entry = camp.entry
      ELSE camp'.id = c /\ camp'.entry = c /\ journal[c].camp = c
  <2>1. CampaignAfterBuy(c, dq).id = camp'.id /\ CampaignAfterBuy(c, dq).entry = camp'.entry
    <3>1. camp' = [CampaignAfterBuy(c, dq) EXCEPT !.realized = @ - (exchange.row[c].fee - journal[c].fee)]
      BY DEF ApplyBuy
    <3>2. "id" # "realized" /\ "entry" # "realized"
      OBVIOUS
    <3>3. DOMAIN CampaignAfterBuy(c, dq) = {"id", "entry", "realized", "budget", "counted"}
      <4>1. DOMAIN camp = {"id", "entry", "realized", "budget", "counted"}
        BY <1>0 DEF BooksTypeOK, Campaign
      <4> QED BY <4>1 DEF CampaignAfterBuy, Opened
    <3> QED BY <3>1, <3>2, <3>3
  <2>2. ~CampaignOpen => journal[c].camp = c
    BY <1>0, <1>2 DEF OwnersInv
  <2>3. CampaignOpen => CampaignAfterBuy(c, dq).id = camp.id /\ CampaignAfterBuy(c, dq).entry = camp.entry
    <3>1. camp \in Campaign
      BY <1>0 DEF BooksTypeOK
    <3> QED BY <3>1 DEF CampaignAfterBuy, Campaign
  <2>4. ~CampaignOpen => CampaignAfterBuy(c, dq).id = journal[c].camp /\ CampaignAfterBuy(c, dq).entry = c
    BY DEF CampaignAfterBuy, Opened
  <2> QED BY <2>1, <2>2, <2>3, <2>4
<1>5. CampaignOpen'
  BY <1>4, Constants DEF CampaignOpen
<1>6. camp'.id = journal[c].camp /\ c \in Orders
  BY <1>1, <1>4
<1>7. /\ \A d \in Orders : journal'[d].camp = journal[d].camp /\ journal'[d].role = journal[d].role
      /\ \A d \in Orders : journal[d].filled > 0 => journal'[d].filled > 0
      /\ journal'[c].filled > 0
  BY <1>0, <1>1, MarkedFields, JournalTypes DEF OrdersInv, OrderFacts
<1>8. \A d \in Active' : journal'[d].camp = camp'.id
  <2> SUFFICES ASSUME NEW d \in Active' PROVE journal'[d].camp = camp'.id
    OBVIOUS
  <2>1. d \in Active /\ d \in Orders
    BY <1>3 DEF Active
  <2>2. CASE CampaignOpen
    BY <1>0, <1>4, <1>7, <2>1, <2>2 DEF OwnersInv
  <2>3. CASE ~CampaignOpen
    BY <1>2, <1>6, <1>7, <2>1, <2>3, OpenerIsAlone
  <2> QED BY <2>2, <2>3
<1>9. /\ camp'.id \in Orders /\ camp'.entry = camp'.id
      /\ journal'[camp'.id].filled > 0 /\ journal'[camp'.id].camp = camp'.id
      /\ journal'[camp'.id].role = "buy"
  BY <1>0, <1>1, <1>4, <1>6, <1>7 DEF OwnersInv
<1>10. \A d \in Orders : book'.lots[d] > 0 => Own(d)'
  <2> SUFFICES ASSUME NEW d \in Orders, book'.lots[d] > 0 PROVE Own(d)'
    OBVIOUS
  <2>1. CASE d = c
    BY <1>5, <1>6, <1>7, <2>1 DEF Own
  <2>2. CASE d # c
    <3>1. Own(d)
      BY <1>0, <1>1, <2>2, JournalTypes DEF OwnersInv
    <3> QED BY <1>4, <1>5, <1>7, <3>1 DEF Own
  <2> QED BY <2>1, <2>2
<1>11. OwnersInv'
  BY <1>1, <1>2, <1>5, <1>8, <1>9, <1>10, MarkedKeepsNames DEF OwnersInv
<1>12. Filled({"buy"})' = Filled({"buy"}) + dq /\ Filled(Sells)' = Filled(Sells)
  <2>1. "buy" \in {"buy"} /\ "buy" \notin Sells
    BY DEF Sells
  <2>2. Filled(Sells)' = Filled(Sells) + 0
    BY <1>0, <1>1, <2>1, FilledAfter
  <2>3. Filled(Sells) \in Int
    BY <1>0, FilledIsInt
  <2> QED BY <1>0, <1>1, <2>1, <2>2, <2>3, FilledAfter
<1>13. InventoryOnce'
  <2>1. SumFunction(book'.lots) = SumFunction(book.lots) + dq
    <3>1. \A d \in Orders : book.lots[d] \in Int /\ book'.lots[d] \in Int
      BY <1>0, <1>1, JournalTypes
    <3>2. \A d \in Orders \ {c} : book'.lots[d] = book.lots[d]
      BY <1>0, <1>1, JournalTypes
    <3>3. IsFiniteSet(Orders)
      BY Constants
    <3>4. SumFunctionOnSet(book'.lots, Orders) = SumFunctionOnSet(book.lots, Orders) - book.lots[c] + book'.lots[c]
      BY <3>1, <3>2, <3>3, SumChange
    <3>5. book'.lots[c] = book.lots[c] + dq /\ DOMAIN book'.lots = Orders /\ DOMAIN book.lots = Orders
      BY <1>0, <1>1, JournalTypes
    <3>6. SumFunctionOnSet(book.lots, Orders) \in Int
      BY <3>1, <3>3, SumIsInt
    <3>7. book.lots[c] \in Int /\ dq \in Int
      BY <1>0, JournalTypes
    <3> HIDE DEF dq
    <3> QED BY <3>4, <3>5, <3>6, <3>7 DEF SumFunction
  <2>2. Filled({"buy"}) \in Int /\ Filled(Sells) \in Int /\ dq \in Int /\ book.held \in Nat
    BY <1>0, FilledIsInt, JournalTypes
  <2> HIDE DEF dq
  <2> QED BY <1>0, <1>1, <1>12, <2>1, <2>2 DEF InventoryOnce
<1> QED BY <1>3, <1>11, <1>13 DEF BookInv

\* A sale takes from the lots what it takes from what is held.
LEMMA SellKeepsBook ==
  ASSUME BookInv, BooksTypeOK', NEW c \in Orders, ApplySell(c), exchange' = exchange,
         journal[c].st \in {"active", "terminal"}, pend = 0
  PROVE  BookInv'
<1> DEFINE dq == exchange.row[c].filled - journal[c].filled
<1>0. BooksTypeOK /\ OrdersInv /\ OwnersInv /\ InventoryOnce
  BY DEF BookInv
<1>1. /\ journal' = Marked(c) /\ journal[c].role \in Sells /\ dq > 0 /\ dq <= book.held /\ pend' = 0
      /\ camp'.id = camp.id /\ camp'.entry = camp.entry
      /\ book'.held = book.held - dq /\ book'.cost = book.cost - Basis(dq)
  BY <1>0 DEF ApplySell, BooksTypeOK, Campaign
<1>2. c \in Active /\ Known(c)
  BY <1>1, NewFillsAreActive DEF Known
<1>3. OrdersInv' /\ Active' \subseteq Active
  BY <1>0, <1>1, <1>2, MarkedKeepsOrders
<1>4. SumFunction(book'.lots) = book.held - dq /\ \A d \in Orders : book'.lots[d] <= book.lots[d]
  <2>1. PICK rest \in [Orders -> 0..book.held] :
           Takes(book.lots, rest, dq, journal[c].core) /\ book'.lots = rest
    BY DEF ApplySell
  <2>2. rest \in [Orders -> Nat] /\ dq \in Nat /\ journal[c].core \in BOOLEAN
    BY <1>0, <1>1, <2>1, JournalTypes, Parts DEF JournalOrder
  <2> HIDE DEF dq
  <2> QED BY <1>0, <1>1, <2>1, <2>2, TakesSum
<1>5. \A d \in Orders : /\ journal'[d].camp = journal[d].camp /\ journal'[d].role = journal[d].role
                        /\ journal[d].filled > 0 => journal'[d].filled > 0
                        /\ journal'[d].filled = 0 => journal[d].filled = 0
  BY <1>0, <1>1, MarkedFields, JournalTypes DEF OrdersInv, OrderFacts
<1>6. CampaignOpen
  BY <1>0, <1>1, <1>2 DEF OwnersInv, Sells
<1>7. \A d \in Orders : book'.lots[d] > 0 => Own(d)'
  <2> SUFFICES ASSUME NEW d \in Orders, book'.lots[d] > 0 PROVE Own(d)'
    OBVIOUS
  <2>1. book'.lots[d] \in Nat /\ book.lots[d] \in Nat
    BY <1>0, JournalTypes DEF BooksTypeOK, Book
  <2>2. book.lots[d] > 0
    BY <1>4, <2>1
  <2> QED BY <1>0, <1>1, <1>5, <2>2 DEF OwnersInv, Own, CampaignOpen
<1>8. OwnersInv'
  BY <1>0, <1>1, <1>2, <1>3, <1>5, <1>6, <1>7, MarkedKeepsNames DEF OwnersInv, Active, CampaignOpen
<1>9. Filled({"buy"})' = Filled({"buy"}) /\ Filled(Sells)' = Filled(Sells) + dq
  <2>1. journal[c].role \notin {"buy"}
    BY <1>1 DEF Sells
  <2>2. Filled({"buy"})' = Filled({"buy"}) + 0
    BY <1>0, <1>1, <2>1, FilledAfter
  <2>3. Filled({"buy"}) \in Int
    BY <1>0, FilledIsInt
  <2> QED BY <1>0, <1>1, <2>2, <2>3, FilledAfter
<1>10. InventoryOnce'
  <2>1. book'.held = 0 => book'.cost = 0
    <3>1. book'.held = 0 => dq = book.held
      BY <1>0, <1>1, JournalTypes
    <3>2. book'.held = 0 => Basis(dq) = book.cost
      BY <3>1 DEF Basis
    <3> QED BY <1>0, <1>1, <3>2, JournalTypes
  <2>2. Filled({"buy"}) \in Int /\ Filled(Sells) \in Int /\ dq \in Int /\ book.held \in Nat
    BY <1>0, FilledIsInt, JournalTypes
  <2> HIDE DEF dq
  <2> QED BY <1>0, <1>1, <1>4, <1>9, <2>1, <2>2 DEF InventoryOnce
<1> QED BY <1>3, <1>8, <1>10 DEF BookInv

\* A report that adds no quantity moves no lot.
LEMMA NoNewFillKeepsBook ==
  ASSUME BookInv, BooksTypeOK', NEW c \in Orders, Known(c), journal' = Marked(c), exchange' = exchange,
         exchange.row[c].filled = journal[c].filled, pend' = 0,
         camp'.id = camp.id, camp'.entry = camp.entry,
         book'.held = book.held, book'.lots = book.lots, book'.held = 0 => book'.cost = 0
  PROVE  BookInv'
<1>0. BooksTypeOK /\ OrdersInv /\ OwnersInv /\ InventoryOnce
  BY DEF BookInv
<1>1. OrdersInv' /\ Active' \subseteq Active
  BY <1>0, MarkedKeepsOrders
<1>2. \A d \in Orders : /\ journal'[d].camp = journal[d].camp /\ journal'[d].role = journal[d].role
                        /\ journal'[d].filled = journal[d].filled
  BY <1>0, MarkedFields
<1>3. \A d \in Orders : book'.lots[d] > 0 => Own(d)'
  BY <1>0, <1>2 DEF OwnersInv, Own, CampaignOpen
<1>4. OwnersInv'
  BY <1>0, <1>1, <1>2, <1>3, MarkedKeepsNames DEF OwnersInv, Active, CampaignOpen
<1>5. \A roles : Filled(roles)' = Filled(roles)
  <2> TAKE roles
  <2> QED BY <1>0, <1>2, FilledSame
<1>6. InventoryOnce'
  BY <1>0, <1>5 DEF InventoryOnce
<1> QED BY <1>1, <1>4, <1>6 DEF BookInv

\* Late money only goes into the cost of a lot that is still there.
LEMMA LateCostNeedsLot ==
  ASSUME BooksTypeOK, OrdersInv, NEW c \in Orders, book.lots[c] = 0
  PROVE  LateToCost(c) = 0
<1>1. exchange.row[c].gross - journal[c].gross \in Int /\ journal[c].filled \in Nat
  BY Parts DEF JournalOrder, DetailRow
<1>2. (exchange.row[c].gross - journal[c].gross) * book.lots[c] = 0
  BY <1>1
<1>3. journal[c].filled # 0 => 0 \div journal[c].filled = 0
  BY <1>1
<1> QED BY <1>2, <1>3 DEF LateToCost, InventoryPart

\* A correction changes values and no quantity.
LEMMA CorrectionKeepsBook ==
  ASSUME BookInv, BooksTypeOK', NEW c \in Orders, ApplyCorrection(c), exchange' = exchange,
         journal[c].st \in {"active", "terminal"}, pend = 0
  PROVE  BookInv'
<1>0. BooksTypeOK /\ OrdersInv /\ OwnersInv /\ InventoryOnce /\ Known(c)
  BY DEF BookInv, Known
<1>1. /\ journal' = Marked(c) /\ exchange.row[c].filled = journal[c].filled /\ pend' = 0
      /\ camp'.id = camp.id /\ camp'.entry = camp.entry
      /\ book'.held = book.held /\ book'.lots = book.lots /\ book'.cost = book.cost + LateToCost(c)
  BY <1>0 DEF ApplyCorrection, BooksTypeOK, Campaign, Book
<1>2. book'.held = 0 => book'.cost = 0
  <2>1. book.held = 0 => LateToCost(c) = 0 /\ book.cost = 0
    BY <1>0, NothingLeft, LateCostNeedsLot DEF InventoryOnce
  <2> QED BY <1>1, <2>1
<1> QED BY <1>0, <1>1, <1>2, NoNewFillKeepsBook

\* A correction that is set aside for an ended campaign is about a finished order.
LEMMA LatePnlKeepsBook ==
  ASSUME BookInv, BooksTypeOK', NEW c \in Orders, SaveLatePnl(c), exchange' = exchange,
         journal[c].st \in {"active", "terminal"}, pend = 0
  PROVE  BookInv'
<1>0. BooksTypeOK /\ OrdersInv /\ OwnersInv /\ InventoryOnce
  BY DEF BookInv
<1>1. ~Own(c) /\ LatePnl(c) # 0 /\ exchange.row[c].filled = journal[c].filled /\ pend' = c
      /\ UNCHANGED <<camp, journal>> /\ book' = [book EXCEPT !.cost = @ + LateToCost(c)]
  BY DEF SaveLatePnl
<1>2. book.lots[c] = 0
  BY <1>0, <1>1, JournalTypes DEF OwnersInv
<1>3. LateToCost(c) = 0
  BY <1>0, <1>2, LateCostNeedsLot
<1>4. book' = book
  BY <1>0, <1>1, <1>3, JournalTypes DEF Book
<1>5. journal[c].st = "terminal"
  <2> SUFFICES ASSUME c \in Active PROVE FALSE
    BY DEF Active
  <2>1. ~CampaignOpen /\ journal[c].filled = 0
    BY <1>0, <1>1 DEF OwnersInv, Own
  <2>2. exchange.row[c].gross = 0 /\ exchange.row[c].fee = 0 /\ journal[c].gross = 0 /\ journal[c].fee = 0
    BY <1>0, <1>1, <2>1 DEF OrdersInv, OrderFacts
  <2>3. LateCash(c) = 0
    BY <2>2 DEF LateCash
  <2> QED BY <1>1, <1>3, <2>3 DEF LatePnl
<1>6. OrdersInv'
  BY <1>0, <1>1 DEF OrdersInv, OrderFacts, Known, Active
<1>7. OwnersInv'
  BY <1>0, <1>1, <1>4, <1>5 DEF OwnersInv, Active, Own, CampaignOpen, Known
<1>8. InventoryOnce'
  BY <1>0, <1>1, <1>4 DEF InventoryOnce, Filled
<1> QED BY <1>6, <1>7, <1>8 DEF BookInv

\* Every step keeps the inventory counted once.
LEMMA NextKeepsBook ==
  ASSUME BookInv, BooksTypeOK', [BooksNext]_booksVars
  PROVE  BookInv'
<1>0. BooksTypeOK /\ OrdersInv /\ OwnersInv /\ InventoryOnce
  BY DEF BookInv
<1>1. ASSUME NEW c \in Orders, ApplyReport(c) PROVE BookInv'
  BY <1>1, BuyKeepsBook, SellKeepsBook, CorrectionKeepsBook, LatePnlKeepsBook DEF ApplyReport
<1>2. ASSUME NEW c \in Orders, NEW role \in BookRoles, NEW q \in 1..MaxSize, NEW core \in BOOLEAN,
             Place(c, role, q, core)
      PROVE  BookInv'
  BY <1>2, PlaceKeepsBook
<1>3. ASSUME NEW c \in Orders, ArchiveOrder(c) PROVE BookInv'
  <2>1. /\ pend' = 0 /\ UNCHANGED <<book, camp, exchange>>
        /\ \A d \in Orders : /\ journal'[d].camp = journal[d].camp /\ journal'[d].role = journal[d].role
                             /\ journal'[d].filled = journal[d].filled
        /\ \A d \in Orders : d # c => journal'[d] = journal[d]
        /\ journal[c].st = "terminal" /\ journal'[c].st = "archived"
        /\ journal'[c].gross = journal[c].gross /\ journal'[c].fee = journal[c].fee
    BY <1>0, <1>3, Parts DEF ArchiveOrder, BooksTypeOK, JournalOrder
  <2>2. Active' = Active /\ \A d \in Orders : Known(d)' <=> Known(d)
    BY <2>1 DEF Active, Known
  <2>3. OrdersInv'
    <3>1. \A d \in Orders : OrderFacts(d)'
      BY <1>0, <2>1, <2>2 DEF OrdersInv, OrderFacts, Known
    <3> QED BY <1>0, <2>1, <2>2, <3>1 DEF OrdersInv, Active
  <2>4. OwnersInv'
    BY <1>0, <2>1, <2>2 DEF OwnersInv, Active, Own, CampaignOpen
  <2>5. \A roles : Filled(roles)' = Filled(roles)
    <3> TAKE roles
    <3> QED BY <1>0, <2>1, FilledSame
  <2> QED BY <1>0, <2>1, <2>3, <2>4, <2>5 DEF BookInv, InventoryOnce
<1>4. ASSUME FinishLate PROVE BookInv'
  <2>1. /\ pend \in Orders /\ journal[pend].st = "terminal" /\ journal' = Marked(pend) /\ pend' = 0
        /\ UNCHANGED <<book, camp, exchange>>
    BY <1>0, <1>4 DEF FinishLate, OwnersInv
  <2>2. Known(pend) /\ exchange.row[pend].filled = journal[pend].filled
    BY <1>0, <2>1 DEF Known, OrdersInv, OrderFacts
  <2> QED BY <1>0, <2>1, <2>2, NoNewFillKeepsBook DEF InventoryOnce
<1>5. ASSUME FinishCampaign PROVE BookInv'
  <2>1. /\ pend = 0 /\ pend' = 0 /\ camp' = NoCampaign /\ UNCHANGED <<book, journal, exchange>>
        /\ book.held = 0 /\ Active = {}
    BY <1>5 DEF FinishCampaign, Exposed
  <2>2. \A d \in Orders : ~(book.lots[d] > 0)
    BY <1>0, <2>1, NothingLeft
  <2>3. OrdersInv' /\ Active' = {}
    BY <1>0, <2>1 DEF OrdersInv, OrderFacts, Known, Active
  <2>4. OwnersInv'
    BY <1>0, <2>1, <2>2, <2>3 DEF OwnersInv, CampaignOpen, NoCampaign, Known
  <2> QED BY <1>0, <2>1, <2>3, <2>4 DEF BookInv, InventoryOnce, Filled
<1>6. ASSUME NEW c \in Orders, CloseOrder(c) \/ Report(c)
                 \/ \E o \in {<<0, 0>>, <<Fee, 0>>, <<0, 1>>} : Trade(c, o[1], o[2])
      PROVE  BookInv'
  <2>1. OrdersInv'
    BY <1>0, <1>6, ExchangeKeepsOrders
  <2>2. UNCHANGED <<book, camp, journal, pend>>
    BY <1>6 DEF CloseOrder, Report, Trade
  <2> QED BY <2>1, <2>2, BooksUnmoved
<1>7. ASSUME SyncAccount \/ RollDay \/ CrashInApply \/ (\E amount \in {1} : MoveCash(amount))
             \/ UNCHANGED booksVars
      PROVE  BookInv'
  <2>1. UNCHANGED <<book, camp, journal>> /\ exchange'.row = exchange.row /\ pend' \in {pend, 0}
    BY <1>0, <1>7 DEF SyncAccount, RollDay, CrashInApply, MoveCash, booksVars, BooksTypeOK
  <2>2. OrdersInv'
    BY <1>0, <2>1 DEF OrdersInv, OrderFacts, Known, Active
  <2> QED BY <2>1, <2>2, BooksUnmoved
<1> QED BY <1>1, <1>2, <1>3, <1>4, <1>5, <1>6, <1>7 DEF BooksNext

\* The initial state.
LEMMA InitBook == ASSUME BooksInit PROVE BookInv
<1>1. BooksTypeOK
  BY InitCash DEF CashInv
<1>2. \A c \in Orders : journal[c] = NoEntry /\ exchange.row[c] = NoDetail /\ book.lots[c] = 0
  BY DEF BooksInit
<1>3. OrdersInv
  BY <1>2 DEF OrdersInv, OrderFacts, Known, Active, NoEntry, NoDetail
<1>4. OwnersInv
  BY <1>2 DEF BooksInit, OwnersInv, Known, Active, CampaignOpen, NoCampaign, NoEntry
<1>5. \A roles : Filled(roles) = 0
  <2> TAKE roles
  <2> DEFINE f == [d \in Orders |-> IF journal[d].role \in roles THEN journal[d].filled ELSE 0]
  <2>1. \A d \in Orders : f[d] = 0
    BY <1>2 DEF NoEntry
  <2>2. Filled(roles) = SumFunctionOnSet(f, Orders)
    BY DEF Filled, SumFunction
  <2> HIDE DEF f
  <2> QED BY <2>1, <2>2, Constants, SumOfZeros
<1>6. SumFunction(book.lots) = 0
  <2>1. SumFunction(book.lots) = SumFunctionOnSet(book.lots, Orders)
    BY <1>1, JournalTypes DEF SumFunction
  <2> QED BY <1>2, <2>1, Constants, SumOfZeros
<1>7. InventoryOnce
  BY <1>5, <1>6 DEF BooksInit, InventoryOnce
<1> QED BY <1>1, <1>3, <1>4, <1>7 DEF BookInv

\* The invariant of the inventory.
LEMMA BookHolds == BooksSpec => []BookInv
<1>1. BooksInit => BookInv
  BY InitBook
<1>2. BookInv /\ BooksTypeOK' /\ [BooksNext]_booksVars => BookInv'
  BY NextKeepsBook
<1> QED BY <1>1, <1>2, TypeCorrect, PTL DEF BooksSpec

\* The lots, the quantity and the applied fills always agree, and nothing held
\* costs nothing: no fill of _add_lot and _remove_lots is counted twice or lost,
\* with two orders at work, fills that are reported in parts, late corrections
\* and crashes between the two saves.
THEOREM InventoryCountsOnce == BooksSpec => []InventoryOnce
<1>1. BookInv => InventoryOnce
  BY DEF BookInv
<1> QED BY <1>1, BookHolds, PTL

----------------------------------------------------------------------------
(* The day: what was realized since it began, and the stops it has seen.    *)

\* equity() above zero is cash plus cost, so this is DayBasis without its clamp.
DayExplained ==
    acct.dayStart > 0 => acct.cash + book.cost - acct.dayStart - acct.dayFlows = acct.dayRealized

\* Whether the open campaign has had its stop is what its orders tell.
StopsInv ==
    /\ outside <= MaxOutside
    /\ OneStopPerCampaign
    /\ CampaignOpen => (camp.counted <=> camp.id \in StoppedCampaigns)

DayInv == CashInv /\ BookInv /\ DayExplained /\ StopsInv

\* Every change of the basis is one of the flows or of the realized P&L, and the
\* day keeps its share of both; only a new day starts them again.
LEMMA DayFollowsCash ==
  ASSUME CashInv, CashInv', DayExplained, [BooksNext]_booksVars
  PROVE  DayExplained'
<1>0. acct \in Account /\ acct' \in Account /\ book.cost \in Int /\ book'.cost \in Int /\ Capital \in Int
  BY Constants, JournalTypes DEF CashInv, BooksTypeOK, Book
<1>1. CASE RollDay
  <2>1. acct'.dayStart = Equity /\ acct'.dayFlows = 0 /\ acct'.dayRealized = 0
        /\ acct'.cash = acct.cash /\ book' = book
    BY <1>1 DEF RollDay
  <2> QED BY <1>0, <2>1 DEF DayExplained, Equity, Account
<1>2. CASE ~RollDay
  <2>1. /\ acct'.dayStart = acct.dayStart
        /\ acct'.dayFlows - acct.dayFlows = acct'.flows - acct.flows
        /\ acct'.dayRealized - acct.dayRealized = acct'.realized - acct.realized
    <3>1. ASSUME NEW cash \in Int, NEW pnl \in Int, NEW stop \in Int, acct' = Booked(cash, pnl, stop)
          PROVE  /\ acct'.dayStart = acct.dayStart /\ acct'.dayFlows = acct.dayFlows /\ acct'.flows = acct.flows
                 /\ acct'.dayRealized = acct.dayRealized + pnl /\ acct'.realized = acct.realized + pnl
      BY <3>1 DEF Booked
    <3>2. ASSUME NEW c \in Orders, ApplyReport(c)
          PROVE  \E cash \in Int, pnl \in Int, stop \in Int : acct' = Booked(cash, pnl, stop)
      <4>1. exchange.row[c].filled - journal[c].filled \in Int
            /\ exchange.row[c].gross - journal[c].gross \in Int
            /\ exchange.row[c].fee - journal[c].fee \in Int
            /\ LateCash(c) \in Int /\ LatePnl(c) \in Int
        BY DeltaTypes, LateTypes DEF CashInv
      <4>2. CASE ApplyBuy(c)
        <5>1. acct' = Booked(-(exchange.row[c].gross - journal[c].gross) - (exchange.row[c].fee - journal[c].fee),
                             -(exchange.row[c].fee - journal[c].fee), 0)
          BY <4>2 DEF ApplyBuy
        <5> QED BY <4>1, <5>1
      <4>3. CASE ApplySell(c)
        <5> DEFINE dq == exchange.row[c].filled - journal[c].filled
        <5>1. dq \in Nat /\ dq > 0 /\ dq <= book.held
          BY <4>1, <4>3 DEF ApplySell
        <5>2. Basis(dq) \in Int
          BY <5>1, BasisType DEF CashInv
        <5>3. acct' = Booked(exchange.row[c].gross - journal[c].gross - (exchange.row[c].fee - journal[c].fee),
                             exchange.row[c].gross - journal[c].gross - Basis(dq)
                               - (exchange.row[c].fee - journal[c].fee),
                             IF CountsStop(c) THEN 1 ELSE 0)
          BY <4>3 DEF ApplySell
        <5> QED BY <4>1, <5>2, <5>3
      <4>4. CASE ApplyCorrection(c) \/ SaveLatePnl(c)
        BY <4>1, <4>4 DEF ApplyCorrection, SaveLatePnl
      <4> QED BY <3>2, <4>2, <4>3, <4>4 DEF ApplyReport
    <3>3. CASE \E c \in Orders : ApplyReport(c)
      BY <1>0, <3>1, <3>2, <3>3 DEF Account
    <3>4. CASE SyncAccount
      <4>1. exchange.krw - acct.cash \in Int
        BY <1>0 DEF Account, CashInv, BooksTypeOK
      <4> QED BY <1>0, <3>4, <4>1 DEF SyncAccount, Account
    <3>5. CASE \/ \E c \in Orders, role \in BookRoles, q \in 1..MaxSize, core \in BOOLEAN : Place(c, role, q, core)
               \/ \E c \in Orders : ArchiveOrder(c) \/ CloseOrder(c) \/ Report(c)
               \/ \E c \in Orders, o \in {<<0, 0>>, <<Fee, 0>>, <<0, 1>>} : Trade(c, o[1], o[2])
               \/ FinishLate \/ FinishCampaign \/ CrashInApply
               \/ \E amount \in {1} : MoveCash(amount)
               \/ UNCHANGED booksVars
      <4>1. acct' = acct
        BY <3>5 DEF Place, ArchiveOrder, CloseOrder, Report, Trade, FinishLate, FinishCampaign, CrashInApply,
                    MoveCash, booksVars
      <4> QED BY <1>0, <4>1 DEF Account
    <3> QED BY <1>2, <3>3, <3>4, <3>5 DEF BooksNext
  <2>2. /\ acct.cash + book.cost = Capital + acct.flows + acct.realized
        /\ acct'.cash + book'.cost = Capital + acct'.flows + acct'.realized
    BY DEF CashInv, CashBasis
  <2>3. /\ acct.cash \in Int /\ acct.flows \in Int /\ acct.realized \in Int /\ acct.dayStart \in Int
        /\ acct.dayFlows \in Int /\ acct.dayRealized \in Int
        /\ acct'.cash \in Int /\ acct'.flows \in Int /\ acct'.realized \in Int
        /\ acct'.dayFlows \in Int /\ acct'.dayRealized \in Int
    BY <1>0 DEF Account
  <2>4. acct'.dayStart > 0 => acct.cash + book.cost - acct.dayStart - acct.dayFlows = acct.dayRealized
    BY <2>1 DEF DayExplained
  <2>5. acct'.dayStart > 0 => acct'.cash + book'.cost - acct'.dayStart - acct'.dayFlows = acct'.dayRealized
    <3>1. (acct'.cash + book'.cost) - (acct.cash + book.cost)
            = (acct'.flows - acct.flows) + (acct'.realized - acct.realized)
      BY <1>0, <2>2, <2>3
    <3>2. (acct'.cash + book'.cost) - (acct.cash + book.cost)
            = (acct'.dayFlows - acct.dayFlows) + (acct'.dayRealized - acct.dayRealized)
      BY <2>1, <3>1
    <3>3. acct'.dayStart = acct.dayStart
      BY <2>1
    <3> QED BY <1>0, <2>3, <2>4, <3>2, <3>3
  <2> QED BY <2>5 DEF DayExplained
<1> QED BY <1>1, <1>2

\* The stopped campaigns are finitely many and can be counted.
LEMMA StopsFinite ==
  ASSUME BooksTypeOK
  PROVE  IsFiniteSet(StoppedCampaigns) /\ Cardinality(StoppedCampaigns) \in Nat
<1>1. IsFiniteSet(0..MaxOrders)
  BY Constants, FS_Interval
<1>2. StoppedCampaigns \subseteq 0..MaxOrders
  BY Parts DEF StoppedCampaigns, JournalOrder
<1> QED BY <1>1, <1>2, FS_Subset, FS_CardinalityType

\* A campaign is stopped by a risk sale that filled something, and by nothing else.
LEMMA StopsSame ==
  ASSUME \A d \in Orders :
           \/ /\ journal'[d].role = journal[d].role /\ journal'[d].camp = journal[d].camp
              /\ journal'[d].filled > 0 <=> journal[d].filled > 0
           \/ ~(journal'[d].filled > 0) /\ ~(journal[d].filled > 0)
           \/ journal'[d].role = journal[d].role /\ ~RiskExit(journal[d].role)
  PROVE  StoppedCampaigns' = StoppedCampaigns
BY DEF StoppedCampaigns, RiskExit

\* The stops do not move, and neither do the account's, or they start again.
LEMMA StopsUnmoved ==
  ASSUME StopsInv, BooksTypeOK, BooksTypeOK', StoppedCampaigns' = StoppedCampaigns,
         \/ acct'.dayStops = acct.dayStops /\ outside' <= outside
         \/ acct'.dayStops = 0 /\ outside' < outside,
         CampaignOpen' => (camp'.counted <=> camp'.id \in StoppedCampaigns)
  PROVE  StopsInv'
<1>1. Cardinality(StoppedCampaigns) \in Nat
  BY StopsFinite
<1>2. outside \in Nat /\ outside' \in Nat /\ MaxOutside \in Nat /\ acct.dayStops \in Nat
  BY Constants DEF BooksTypeOK, Account
<1> QED BY <1>1, <1>2 DEF StopsInv, OneStopPerCampaign

\* A buy stops no campaign.
LEMMA BuyKeepsStops ==
  ASSUME StopsInv, BookInv, BooksTypeOK', NEW c \in Orders, ApplyBuy(c), outside' = outside,
         journal[c].st \in {"active", "terminal"}
  PROVE  StopsInv'
<1> DEFINE dq == exchange.row[c].filled - journal[c].filled
<1>0. BooksTypeOK /\ OrdersInv /\ OwnersInv
  BY DEF BookInv
<1>1. /\ journal' = Marked(c) /\ journal[c].role = "buy" /\ dq > 0
      /\ acct'.dayStops = acct.dayStops + 0
      /\ camp' = [CampaignAfterBuy(c, dq) EXCEPT !.realized = @ - (exchange.row[c].fee - journal[c].fee)]
  BY DEF ApplyBuy, Booked
<1>2. c \in Active
  BY <1>1, NewFillsAreActive
<1>3. StoppedCampaigns' = StoppedCampaigns
  <2>1. ~RiskExit(journal[c].role)
    BY <1>1 DEF RiskExit
  <2> QED BY <1>0, <1>1, <2>1, MarkedFields, StopsSame
<1>4. CASE CampaignOpen
  <2>1. camp \in Campaign
    BY <1>0 DEF BooksTypeOK
  <2>2. camp'.id = camp.id /\ camp'.counted = camp.counted
    BY <1>1, <1>4, <2>1 DEF CampaignAfterBuy, Campaign
  <2> QED BY <1>0, <1>1, <1>3, <1>4, <2>2, StopsUnmoved DEF StopsInv, BooksTypeOK, Account
<1>5. CASE ~CampaignOpen
  <2>1. camp'.id = c /\ camp'.counted = FALSE
    BY <1>0, <1>1, <1>2, <1>5 DEF CampaignAfterBuy, Opened, OwnersInv
  <2>2. c \notin StoppedCampaigns
    <3> SUFFICES ASSUME NEW d \in Orders, RiskExit(journal[d].role), journal[d].filled > 0, journal[d].camp = c
                 PROVE  FALSE
      BY DEF StoppedCampaigns
    <3>1. Known(d) /\ d # c
      BY <1>1 DEF Known, RiskExit, BookInv, OrdersInv, OrderFacts, NoEntry
    <3>2. journal[c].filled > 0
      BY <1>0, <3>1 DEF OwnersInv
    <3>3. journal[c].filled = 0
      BY <1>0, <1>2, <1>5 DEF OwnersInv
    <3> QED BY <3>2, <3>3
  <2> QED BY <1>0, <1>1, <1>3, <2>1, <2>2, StopsUnmoved DEF BooksTypeOK, Account
<1> QED BY <1>4, <1>5

\* A sale that stops its campaign counts one stop, once.
LEMMA SellKeepsStops ==
  ASSUME StopsInv, BookInv, BooksTypeOK', NEW c \in Orders, ApplySell(c), outside' = outside,
         journal[c].st \in {"active", "terminal"}
  PROVE  StopsInv'
<1>0. BooksTypeOK /\ OrdersInv /\ OwnersInv
  BY DEF BookInv
<1>1. /\ journal' = Marked(c) /\ journal[c].role \in Sells
      /\ exchange.row[c].filled - journal[c].filled > 0
      /\ acct'.dayStops = acct.dayStops + (IF CountsStop(c) THEN 1 ELSE 0)
      /\ camp'.id = camp.id /\ camp'.counted = (camp.counted \/ CountsStop(c))
  BY <1>0 DEF ApplySell, Booked, BooksTypeOK, Campaign
<1>2. c \in Active
  BY <1>1, NewFillsAreActive
<1>3. CampaignOpen /\ journal[c].camp = camp.id
  BY <1>0, <1>1, <1>2 DEF OwnersInv, Sells
<1>4. CASE RiskExit(journal[c].role)
  <2>1. StoppedCampaigns' = StoppedCampaigns \cup {camp.id}
    <3>1. journal'[c].filled > 0 /\ journal'[c].camp = camp.id /\ RiskExit(journal'[c].role)
      BY <1>0, <1>1, <1>3, <1>4, MarkedFields, JournalTypes
    <3>2. \A d \in Orders : d # c => journal'[d] = journal[d]
      BY <1>0, <1>1, MarkedFields
    <3> QED BY <1>3, <3>1, <3>2 DEF StoppedCampaigns
  <2>2. CountsStop(c) <=> ~camp.counted
    BY <1>4 DEF CountsStop
  <2>3. camp.counted <=> camp.id \in StoppedCampaigns
    BY <1>3 DEF StopsInv
  <2>4. camp'.counted /\ camp'.id \in StoppedCampaigns'
    BY <1>1, <2>1, <2>2
  <2>5. CASE camp.counted
    <3>1. StoppedCampaigns' = StoppedCampaigns
      BY <2>1, <2>3, <2>5
    <3> QED BY <1>0, <1>1, <2>2, <2>4, <2>5, <3>1, StopsUnmoved DEF StopsInv, BooksTypeOK, Account
  <2>6. CASE ~camp.counted
    <3>1. Cardinality(StoppedCampaigns') = Cardinality(StoppedCampaigns) + 1
      BY <1>0, <2>1, <2>3, <2>6, StopsFinite, FS_AddElement
    <3>2. acct'.dayStops = acct.dayStops + 1
      BY <1>1, <2>2, <2>6
    <3>3. Cardinality(StoppedCampaigns) \in Nat /\ acct.dayStops \in Nat
      BY <1>0, StopsFinite DEF BooksTypeOK, Account
    <3> QED BY <2>4, <3>1, <3>2, <3>3 DEF StopsInv, OneStopPerCampaign
  <2> QED BY <2>5, <2>6
<1>5. CASE ~RiskExit(journal[c].role)
  <2>1. StoppedCampaigns' = StoppedCampaigns
    BY <1>0, <1>1, <1>5, MarkedFields, StopsSame
  <2>2. ~CountsStop(c)
    BY <1>5 DEF CountsStop
  <2>3. camp'.counted = camp.counted
    BY <1>1, <2>2, <1>0 DEF BooksTypeOK, Campaign
  <2> QED BY <1>0, <1>1, <1>3, <2>1, <2>2, <2>3, StopsUnmoved DEF StopsInv, BooksTypeOK, Account
<1> QED BY <1>4, <1>5

\* Every step keeps the stops counted once.
LEMMA NextKeepsStops ==
  ASSUME StopsInv, BookInv, BooksTypeOK', [BooksNext]_booksVars
  PROVE  StopsInv'
<1>0. BooksTypeOK /\ OrdersInv /\ OwnersInv /\ outside \in Nat
  BY DEF BookInv, BooksTypeOK
<1>1. ASSUME NEW c \in Orders, ApplyCorrection(c), outside' = outside PROVE StopsInv'
  <2>1. /\ journal' = Marked(c) /\ exchange.row[c].filled = journal[c].filled
        /\ acct'.dayStops = acct.dayStops + 0 /\ camp'.id = camp.id /\ camp'.counted = camp.counted
    BY <1>0, <1>1 DEF ApplyCorrection, Booked, BooksTypeOK, Campaign
  <2>2. StoppedCampaigns' = StoppedCampaigns
    BY <1>0, <2>1, MarkedFields, StopsSame
  <2> QED BY <1>0, <1>1, <2>1, <2>2, StopsUnmoved DEF StopsInv, CampaignOpen, BooksTypeOK, Account
<1>2. ASSUME NEW c \in Orders, SaveLatePnl(c), outside' = outside PROVE StopsInv'
  <2>1. acct'.dayStops = acct.dayStops + 0 /\ UNCHANGED <<camp, journal>>
    BY <1>2 DEF SaveLatePnl, Booked
  <2>2. StoppedCampaigns' = StoppedCampaigns
    BY <2>1 DEF StoppedCampaigns
  <2> QED BY <1>0, <1>2, <2>1, <2>2, StopsUnmoved DEF StopsInv, CampaignOpen, BooksTypeOK, Account
<1>3. ASSUME NEW c \in Orders, ApplyReport(c) PROVE StopsInv'
  BY <1>1, <1>2, <1>3, BuyKeepsStops, SellKeepsStops DEF ApplyReport
<1>4. ASSUME NEW c \in Orders, NEW role \in BookRoles, NEW q \in 1..MaxSize, NEW core \in BOOLEAN,
             Place(c, role, q, core)
      PROVE  StopsInv'
  <2>1. /\ ~(journal[c].filled > 0) /\ ~(journal'[c].filled > 0)
        /\ \A d \in Orders : d # c => journal'[d] = journal[d]
        /\ UNCHANGED <<acct, camp, outside>>
    BY <1>0, <1>4, Parts DEF Place, NoEntry, BooksTypeOK
  <2>2. StoppedCampaigns' = StoppedCampaigns
    BY <2>1, StopsSame
  <2> QED BY <1>0, <2>1, <2>2, StopsUnmoved DEF StopsInv, CampaignOpen
<1>5. ASSUME NEW c \in Orders, ArchiveOrder(c) PROVE StopsInv'
  <2>1. /\ \A d \in Orders : /\ journal'[d].camp = journal[d].camp /\ journal'[d].role = journal[d].role
                             /\ journal'[d].filled = journal[d].filled
        /\ UNCHANGED <<acct, camp, outside>>
    BY <1>0, <1>5, Parts DEF ArchiveOrder, BooksTypeOK, JournalOrder
  <2>2. StoppedCampaigns' = StoppedCampaigns
    BY <2>1, StopsSame
  <2> QED BY <1>0, <2>1, <2>2, StopsUnmoved DEF StopsInv, CampaignOpen
<1>6. ASSUME FinishLate PROVE StopsInv'
  <2>1. /\ pend \in Orders /\ journal' = Marked(pend) /\ exchange.row[pend].filled = journal[pend].filled
        /\ UNCHANGED <<acct, camp, outside>>
    BY <1>0, <1>6 DEF FinishLate, OwnersInv, OrdersInv, OrderFacts
  <2>2. StoppedCampaigns' = StoppedCampaigns
    BY <1>0, <2>1, MarkedFields, StopsSame
  <2> QED BY <1>0, <2>1, <2>2, StopsUnmoved DEF StopsInv, CampaignOpen
<1>7. ASSUME FinishCampaign PROVE StopsInv'
  <2>1. UNCHANGED <<acct, journal, outside>> /\ ~CampaignOpen'
    BY <1>7 DEF FinishCampaign, CampaignOpen, NoCampaign
  <2>2. StoppedCampaigns' = StoppedCampaigns
    BY <2>1 DEF StoppedCampaigns
  <2> QED BY <1>0, <2>1, <2>2, StopsUnmoved
<1>8. ASSUME \/ \E c \in Orders : CloseOrder(c) \/ Report(c)
             \/ \E c \in Orders, o \in {<<0, 0>>, <<Fee, 0>>, <<0, 1>>} : Trade(c, o[1], o[2])
             \/ SyncAccount \/ RollDay \/ CrashInApply \/ (\E amount \in {1} : MoveCash(amount))
             \/ UNCHANGED booksVars
      PROVE  StopsInv'
  <2>1. UNCHANGED <<camp, journal>>
    BY <1>8 DEF CloseOrder, Report, Trade, SyncAccount, RollDay, CrashInApply, MoveCash, booksVars
  <2>2. \/ acct'.dayStops = acct.dayStops /\ outside' <= outside
        \/ acct'.dayStops = 0 /\ outside' < outside
    BY <1>0, <1>8 DEF CloseOrder, Report, Trade, SyncAccount, RollDay, CrashInApply, MoveCash, booksVars
  <2>3. StoppedCampaigns' = StoppedCampaigns
    BY <2>1 DEF StoppedCampaigns
  <2> QED BY <1>0, <2>1, <2>2, <2>3, StopsUnmoved DEF StopsInv, CampaignOpen
<1> QED BY <1>3, <1>4, <1>5, <1>6, <1>7, <1>8 DEF BooksNext

\* The initial state.
LEMMA InitDay == ASSUME BooksInit PROVE DayInv
<1>1. CashInv /\ BookInv
  BY InitCash, InitBook
<1>2. DayExplained
  BY Constants DEF BooksInit, DayExplained
<1>3. StoppedCampaigns = {}
  BY DEF BooksInit, StoppedCampaigns, NoEntry, RiskExit
<1>4. StopsInv
  BY <1>3, Constants, FS_EmptySet DEF BooksInit, StopsInv, OneStopPerCampaign, CampaignOpen, NoCampaign
<1> QED BY <1>1, <1>2, <1>4 DEF DayInv

\* day_pnl() at cost is what was realized since the day began, and daily_stops
\* counts each campaign that a risk sale touched once, however it was filled.
THEOREM DayIsKept == BooksSpec => []DayKept
<1>1. BooksInit => DayInv
  BY InitDay
<1>2. DayInv /\ [BooksNext]_booksVars => DayInv'
  <2> SUFFICES ASSUME DayInv, [BooksNext]_booksVars PROVE DayInv'
    OBVIOUS
  <2>1. CashInv'
    BY NextKeepsCash DEF DayInv
  <2>2. BookInv'
    BY <2>1, NextKeepsBook DEF DayInv, CashInv
  <2>3. DayExplained'
    BY <2>1, DayFollowsCash DEF DayInv
  <2>4. StopsInv'
    BY <2>1, NextKeepsStops DEF DayInv, CashInv
  <2> QED BY <2>1, <2>2, <2>3, <2>4 DEF DayInv
<1>3. DayInv => DayKept
  <2> SUFFICES ASSUME DayInv PROVE DayKept
    OBVIOUS
  <2>1. acct.cash \in Int /\ book.cost \in Int /\ acct.dayStart \in Int /\ acct.dayFlows \in Int
        /\ acct.dayRealized \in Int
    BY DEF DayInv, CashInv, BooksTypeOK, Account, Book
  <2>2. DayBasis
    BY <2>1 DEF DayInv, DayExplained, DayBasis, Equity
  <2> QED BY <2>2 DEF DayInv, StopsInv, DayKept
<1> QED BY <1>1, <1>2, <1>3, PTL DEF BooksSpec

----------------------------------------------------------------------------
(* The campaign: its P&L is made of its own orders, its budget of the fills   *)
(* of the order that opened it.                                               *)

Share(c) == IF journal[c].camp = camp.id THEN CampaignCash(c) ELSE 0

OwnCash == SumFunction([c \in Orders |-> Share(c)])

\* An order's share of the campaign's cash is a number.
LEMMA ShareIsInt ==
  ASSUME BooksTypeOK, NEW c \in Orders
  PROVE  Share(c) \in Int
BY Parts DEF Share, CampaignCash, JournalOrder

\* The campaign's own cash is a number.
LEMMA OwnCashIsInt ==
  ASSUME BooksTypeOK
  PROVE  OwnCash \in Int
<1> DEFINE f == [d \in Orders |-> Share(d)]
<1>1. \A d \in Orders : f[d] \in Int
  BY ShareIsInt
<1>2. OwnCash = SumFunctionOnSet(f, Orders)
  BY DEF OwnCash, SumFunction
<1> HIDE DEF f
<1> QED BY <1>1, <1>2, Constants, SumIsInt

\* One order's share changes, the campaign's cash by as much.
LEMMA OwnCashChanges ==
  ASSUME BooksTypeOK, BooksTypeOK', NEW c \in Orders,
         \A d \in Orders : d # c => Share(d)' = Share(d)
  PROVE  OwnCash' = OwnCash - Share(c) + Share(c)'
<1> DEFINE f == [d \in Orders |-> Share(d)]
           g == [d \in Orders |-> Share(d)']
<1>1. \A d \in Orders : Share(d)' \in Int
  <2> TAKE d \in Orders
  <2>1. journal'[d] \in JournalOrder
    BY DEF BooksTypeOK
  <2> QED BY <2>1 DEF Share, CampaignCash, JournalOrder
<1>2. \A d \in Orders : f[d] \in Int /\ g[d] \in Int
  BY <1>1, ShareIsInt
<1>3. \A d \in Orders \ {c} : g[d] = f[d]
  OBVIOUS
<1>4. f[c] = Share(c) /\ g[c] = Share(c)'
  OBVIOUS
<1>5. OwnCash = SumFunctionOnSet(f, Orders) /\ OwnCash' = SumFunctionOnSet(g, Orders)
  BY DEF OwnCash, SumFunction
<1>6. IsFiniteSet(Orders)
  BY Constants
<1> HIDE DEF f, g
<1>7. SumFunctionOnSet(g, Orders) = SumFunctionOnSet(f, Orders) - f[c] + g[c]
  BY <1>2, <1>3, <1>6, SumChange
<1> QED BY <1>4, <1>5, <1>7

\* It changes only with the share of an order.
LEMMA OwnCashSame ==
  ASSUME \A d \in Orders : Share(d)' = Share(d)
  PROVE  OwnCash' = OwnCash
BY DEF OwnCash

\* Only the opening order has a share.
LEMMA OwnCashOfOpener ==
  ASSUME BooksTypeOK', NEW c \in Orders, \A d \in Orders : d # c => Share(d)' = 0
  PROVE  OwnCash' = Share(c)'
<1> DEFINE z == [d \in Orders |-> 0]
           g == [d \in Orders |-> Share(d)']
<1>1. Share(c)' \in Int
  <2>1. journal'[c] \in JournalOrder
    BY DEF BooksTypeOK
  <2> QED BY <2>1 DEF Share, CampaignCash, JournalOrder
<1>2. \A d \in Orders : z[d] \in Int /\ g[d] \in Int
  BY <1>1
<1>3. \A d \in Orders \ {c} : g[d] = z[d]
  OBVIOUS
<1>4. z[c] = 0 /\ g[c] = Share(c)' /\ \A d \in Orders : z[d] = 0
  OBVIOUS
<1>5. OwnCash' = SumFunctionOnSet(g, Orders)
  BY DEF OwnCash, SumFunction
<1>6. IsFiniteSet(Orders)
  BY Constants
<1> HIDE DEF z, g
<1>7. SumFunctionOnSet(g, Orders) = SumFunctionOnSet(z, Orders) - z[c] + g[c]
  BY <1>2, <1>3, <1>6, SumChange
<1>8. SumFunctionOnSet(z, Orders) = 0
  BY <1>4, <1>6, SumOfZeros
<1> QED BY <1>1, <1>4, <1>5, <1>7, <1>8

OwnBooks == CampaignOpen => camp.realized = book.cost + OwnCash

\* The same, said of the campaign's fields.
LEMMA OwnBooksIsIt == CampaignOwnBooks <=> OwnBooks
BY DEF CampaignOwnBooks, OwnBooks, OwnCash, Share

\* With nothing open nothing is held, so nothing has a cost.
LEMMA NothingOpen ==
  ASSUME BookInv, ~CampaignOpen
  PROVE  book.held = 0 /\ book.cost = 0
<1>1. \A c \in Orders : ~(book.lots[c] > 0)
  BY DEF BookInv, OwnersInv, Own
<1>2. book.held \in Nat /\ ~(book.held > 0)
  BY <1>1, NothingLeft, JournalTypes DEF BookInv
<1> QED BY <1>2 DEF BookInv, InventoryOnce

\* A buy of the campaign's own order pays what it adds to the cost.
LEMMA BuyKeepsOwnBooks ==
  ASSUME OwnBooks, BookInv, BooksTypeOK', NEW c \in Orders, ApplyBuy(c),
         journal[c].st \in {"active", "terminal"}
  PROVE  OwnBooks'
<1> DEFINE dq == exchange.row[c].filled - journal[c].filled
           dg == exchange.row[c].gross - journal[c].gross
           df == exchange.row[c].fee - journal[c].fee
<1>0. BooksTypeOK /\ OrdersInv /\ OwnersInv
  BY DEF BookInv
<1>1. /\ journal' = Marked(c) /\ journal[c].role = "buy" /\ dq > 0
      /\ CampaignOpen => camp.id = journal[c].camp
      /\ book'.cost = book.cost + dg
      /\ camp' = [CampaignAfterBuy(c, dq) EXCEPT !.realized = @ - df]
  BY DEF ApplyBuy
<1>2. dg \in Int /\ df \in Int /\ dq \in Int
  BY <1>0, DeltaTypes
<1>3. c \in Active
  BY <1>1, NewFillsAreActive
<1>4. journal[c].gross \in Int /\ journal[c].fee \in Int /\ exchange.row[c].gross \in Int
      /\ exchange.row[c].fee \in Int
  BY <1>0, Parts DEF JournalOrder, DetailRow
<1>5. CampaignCash(c) = -journal[c].gross - journal[c].fee
      /\ CampaignCash(c)' = -exchange.row[c].gross - exchange.row[c].fee
  BY <1>0, <1>1, MarkedFields DEF CampaignCash
<1>6. CASE CampaignOpen
  <2>1. camp'.id = camp.id /\ camp'.realized = camp.realized - df
    <3>1. camp \in Campaign
      BY <1>0 DEF BooksTypeOK
    <3> QED BY <1>1, <1>6, <3>1 DEF CampaignAfterBuy, Campaign
  <2>2. \A d \in Orders : d # c => Share(d)' = Share(d)
    BY <1>0, <1>1, <2>1, MarkedFields DEF Share, CampaignCash
  <2>3. Share(c) = CampaignCash(c) /\ Share(c)' = CampaignCash(c)'
    BY <1>0, <1>1, <1>6, <2>1, MarkedFields DEF Share
  <2>4. OwnCash' = OwnCash - CampaignCash(c) + CampaignCash(c)'
    BY <1>0, <2>2, <2>3, OwnCashChanges
  <2>5. camp.realized = book.cost + OwnCash
    BY <1>6 DEF OwnBooks
  <2>6. OwnCash \in Int /\ book.cost \in Int
    BY <1>0, OwnCashIsInt, JournalTypes
  <2>7. camp'.realized = book'.cost + OwnCash'
    BY <1>1, <1>4, <1>5, <2>1, <2>4, <2>5, <2>6
  <2> QED BY <2>7 DEF OwnBooks
<1>7. CASE ~CampaignOpen
  <2>1. journal[c].camp = c /\ journal[c].filled = 0
    BY <1>0, <1>3, <1>7 DEF OwnersInv
  <2>2. camp'.id = c /\ camp'.realized = 0 - df
    BY <1>1, <1>7, <2>1 DEF CampaignAfterBuy, Opened
  <2>3. \A d \in Orders : d # c => Share(d)' = 0
    <3> SUFFICES ASSUME NEW d \in Orders, d # c, journal[d].camp = c PROVE FALSE
      BY <1>0, <1>1, <2>2, MarkedFields DEF Share
    <3>1. Known(d)
      BY <1>0, <2>1, Constants DEF Known, OrdersInv, OrderFacts, NoEntry
    <3> QED BY <1>0, <2>1, <3>1 DEF OwnersInv
  <2>4. Share(c)' = CampaignCash(c)'
    BY <1>0, <1>1, <2>1, <2>2, MarkedFields DEF Share
  <2>5. OwnCash' = CampaignCash(c)'
    BY <2>3, <2>4, OwnCashOfOpener
  <2>6. journal[c].gross = 0 /\ journal[c].fee = 0
    BY <1>0, <2>1 DEF OrdersInv, OrderFacts
  <2>7. book.cost = 0
    BY <1>7, NothingOpen
  <2>8. camp'.realized = book'.cost + OwnCash'
    BY <1>1, <1>4, <1>5, <2>2, <2>5, <2>6, <2>7
  <2> QED BY <2>8 DEF OwnBooks
<1> QED BY <1>6, <1>7

\* A sale of the campaign's own order realizes its price less the cost sold.
LEMMA SellKeepsOwnBooks ==
  ASSUME OwnBooks, BookInv, BooksTypeOK', NEW c \in Orders, ApplySell(c),
         journal[c].st \in {"active", "terminal"}
  PROVE  OwnBooks'
<1> DEFINE dq == exchange.row[c].filled - journal[c].filled
           dg == exchange.row[c].gross - journal[c].gross
           df == exchange.row[c].fee - journal[c].fee
<1>0. BooksTypeOK /\ OrdersInv /\ OwnersInv
  BY DEF BookInv
<1>1. /\ journal' = Marked(c) /\ journal[c].role \in Sells /\ dq > 0 /\ dq <= book.held
      /\ book'.cost = book.cost - Basis(dq)
      /\ camp'.id = camp.id /\ camp'.realized = camp.realized + (dg - Basis(dq) - df)
  BY <1>0 DEF ApplySell, BooksTypeOK, Campaign
<1>2. dg \in Int /\ df \in Int /\ dq \in Nat
  BY <1>0, <1>1, DeltaTypes
<1>3. Basis(dq) \in Int
  BY <1>0, <1>1, <1>2, BasisType
<1>4. journal[c].gross \in Int /\ journal[c].fee \in Int /\ exchange.row[c].gross \in Int
      /\ exchange.row[c].fee \in Int
  BY <1>0, Parts DEF JournalOrder, DetailRow
<1>5. CampaignCash(c) = journal[c].gross - journal[c].fee
      /\ CampaignCash(c)' = exchange.row[c].gross - exchange.row[c].fee
  BY <1>0, <1>1, MarkedFields DEF CampaignCash, Sells
<1>6. CampaignOpen /\ journal[c].camp = camp.id
  <2>1. c \in Active
    BY <1>1, NewFillsAreActive
  <2> QED BY <1>0, <1>1, <2>1 DEF OwnersInv, Sells
<1>7. \A d \in Orders : d # c => Share(d)' = Share(d)
  BY <1>0, <1>1, MarkedFields DEF Share, CampaignCash
<1>8. Share(c) = CampaignCash(c) /\ Share(c)' = CampaignCash(c)'
  BY <1>0, <1>1, <1>6, MarkedFields DEF Share
<1>9. OwnCash' = OwnCash - CampaignCash(c) + CampaignCash(c)'
  BY <1>0, <1>7, <1>8, OwnCashChanges
<1>10. camp.realized = book.cost + OwnCash
  BY <1>6 DEF OwnBooks
<1>11. OwnCash \in Int /\ book.cost \in Int
  BY <1>0, OwnCashIsInt, JournalTypes
<1>12. camp'.realized = book'.cost + OwnCash'
  <2> DEFINE basis == Basis(dq)
  <2>1. basis \in Int /\ book'.cost = book.cost - basis /\ camp'.realized = camp.realized + (dg - basis - df)
    BY <1>1, <1>3
  <2> HIDE DEF basis
  <2> QED BY <1>4, <1>5, <1>9, <1>10, <1>11, <2>1
<1> QED BY <1>12 DEF OwnBooks

\* A late correction of the campaign's own order goes to its books.
LEMMA LateKeepsOwnBooks ==
  ASSUME OwnBooks, BookInv, BooksTypeOK', NEW c \in Orders, ApplyCorrection(c) \/ SaveLatePnl(c),
         journal[c].st \in {"active", "terminal"}
  PROVE  OwnBooks'
<1>0. BooksTypeOK /\ OrdersInv /\ OwnersInv
  BY DEF BookInv
<1>1. LateCash(c) \in Int /\ LateToCost(c) \in Int /\ OwnCash \in Int /\ book.cost \in Int
      /\ camp.realized \in Int
  BY <1>0, LateTypes, OwnCashIsInt, JournalTypes DEF Campaign
<1>2. /\ book'.cost = book.cost + LateToCost(c) /\ camp'.id = camp.id
      /\ \A d \in Orders : d # c => journal'[d] = journal[d]
      /\ journal'[c].camp = journal[c].camp
  BY <1>0, MarkedFields DEF ApplyCorrection, SaveLatePnl, BooksTypeOK, Campaign, Book
<1>3. CASE Own(c)
  <2>1. ApplyCorrection(c)
    BY <1>3 DEF SaveLatePnl
  <2>2. journal' = Marked(c) /\ camp'.realized = camp.realized + (LateCash(c) + LateToCost(c))
    BY <1>0, <2>1 DEF ApplyCorrection, LatePnl, BooksTypeOK, Campaign
  <2>3. CampaignCash(c)' = CampaignCash(c) + LateCash(c)
    <3>1. journal[c].gross \in Int /\ journal[c].fee \in Int /\ exchange.row[c].gross \in Int
          /\ exchange.row[c].fee \in Int
      BY <1>0, Parts DEF JournalOrder, DetailRow
    <3> QED BY <1>0, <2>2, <3>1, MarkedFields DEF CampaignCash, LateCash
  <2>4. \A d \in Orders : d # c => Share(d)' = Share(d)
    BY <1>2 DEF Share, CampaignCash
  <2>5. Share(c) = CampaignCash(c) /\ Share(c)' = CampaignCash(c)'
    BY <1>2, <1>3 DEF Share, Own
  <2>6. OwnCash' = OwnCash - CampaignCash(c) + CampaignCash(c)'
    BY <1>0, <2>4, <2>5, OwnCashChanges
  <2>7. camp.realized = book.cost + OwnCash
    BY <1>3 DEF OwnBooks, Own
  <2>8. CampaignCash(c) \in Int
    BY <1>0, <2>5, ShareIsInt
  <2>9. camp'.realized = book'.cost + OwnCash'
    BY <1>1, <1>2, <2>2, <2>3, <2>6, <2>7, <2>8
  <2> QED BY <2>9 DEF OwnBooks
<1>4. CASE ~Own(c)
  <2>1. LateToCost(c) = 0
    <3>1. book.lots[c] = 0
      BY <1>0, <1>4, JournalTypes DEF OwnersInv
    <3> QED BY <1>0, <3>1, LateCostNeedsLot
  <2>2. camp'.realized = camp.realized
    <3>1. CASE ApplyCorrection(c)
      BY <1>0, <1>1, <1>4, <3>1 DEF ApplyCorrection, BooksTypeOK, Campaign
    <3>2. CASE SaveLatePnl(c)
      BY <3>2 DEF SaveLatePnl
    <3> QED BY <3>1, <3>2
  <2>3. CampaignOpen => \A d \in Orders : Share(d)' = Share(d)
    BY <1>2, <1>4 DEF Share, CampaignCash, Own
  <2>4. CampaignOpen => OwnCash' = OwnCash
    BY <2>3, OwnCashSame
  <2> QED BY <1>1, <1>2, <2>1, <2>2, <2>4 DEF OwnBooks, CampaignOpen
<1> QED BY <1>3, <1>4

\* Every step keeps the campaign's own books.
LEMMA NextKeepsOwnBooks ==
  ASSUME OwnBooks, BookInv, BooksTypeOK', [BooksNext]_booksVars
  PROVE  OwnBooks'
<1>0. BooksTypeOK /\ OrdersInv /\ OwnersInv
  BY DEF BookInv
<1>1. ASSUME NEW c \in Orders, ApplyReport(c) PROVE OwnBooks'
  BY <1>1, BuyKeepsOwnBooks, SellKeepsOwnBooks, LateKeepsOwnBooks DEF ApplyReport
<1>2. ASSUME UNCHANGED <<book, camp>>, CampaignOpen => \A d \in Orders : Share(d)' = Share(d)
      PROVE  OwnBooks'
  BY <1>2, OwnCashSame DEF OwnBooks, CampaignOpen
<1>3. ASSUME NEW c \in Orders, NEW role \in BookRoles, NEW q \in 1..MaxSize, NEW core \in BOOLEAN,
             Place(c, role, q, core)
      PROVE  OwnBooks'
  <2>1. /\ UNCHANGED <<book, camp>>
        /\ \A d \in Orders : d # c => journal'[d] = journal[d]
        /\ journal[c].camp = 0 /\ journal'[c].gross = 0 /\ journal'[c].fee = 0
    BY <1>0, <1>3, Parts DEF Place, NoEntry, BooksTypeOK
  <2>2. CampaignOpen => Share(c)' = 0 /\ Share(c) = 0
    <3>1. CampaignCash(c)' = 0
      <4>1. -0 - 0 = 0 /\ 0 - 0 = 0
        OBVIOUS
      <4> QED BY <2>1, <4>1 DEF CampaignCash
    <3>2. CampaignOpen => journal[c].camp # camp.id
      BY <2>1 DEF CampaignOpen
    <3> QED BY <3>1, <3>2 DEF Share
  <2>3. \A d \in Orders : d # c => Share(d)' = Share(d)
    BY <2>1 DEF Share, CampaignCash
  <2> QED BY <1>2, <2>1, <2>2, <2>3
<1>4. ASSUME NEW c \in Orders, ArchiveOrder(c) PROVE OwnBooks'
  <2>1. /\ UNCHANGED <<book, camp>>
        /\ \A d \in Orders : /\ journal'[d].camp = journal[d].camp /\ journal'[d].role = journal[d].role
                             /\ journal'[d].gross = journal[d].gross /\ journal'[d].fee = journal[d].fee
    BY <1>0, <1>4, Parts DEF ArchiveOrder, BooksTypeOK, JournalOrder
  <2>2. \A d \in Orders : Share(d)' = Share(d)
    BY <2>1 DEF Share, CampaignCash
  <2> QED BY <1>2, <2>1, <2>2
<1>5. ASSUME FinishLate PROVE OwnBooks'
  <2>1. pend \in Orders /\ journal' = Marked(pend) /\ UNCHANGED <<book, camp>> /\ ~Own(pend)
    BY <1>0, <1>5 DEF FinishLate, OwnersInv
  <2>2. CampaignOpen => \A d \in Orders : Share(d)' = Share(d)
    BY <1>0, <2>1, MarkedFields DEF Share, CampaignCash, Own
  <2> QED BY <1>2, <2>1, <2>2
<1>6. ASSUME FinishCampaign PROVE OwnBooks'
  BY <1>6 DEF FinishCampaign, OwnBooks, CampaignOpen, NoCampaign
<1>7. ASSUME \/ \E c \in Orders : CloseOrder(c) \/ Report(c)
             \/ \E c \in Orders, o \in {<<0, 0>>, <<Fee, 0>>, <<0, 1>>} : Trade(c, o[1], o[2])
             \/ SyncAccount \/ RollDay \/ CrashInApply \/ (\E amount \in {1} : MoveCash(amount))
             \/ UNCHANGED booksVars
      PROVE  OwnBooks'
  <2>1. UNCHANGED <<book, camp, journal>>
    BY <1>7 DEF CloseOrder, Report, Trade, SyncAccount, RollDay, CrashInApply, MoveCash, booksVars
  <2>2. \A d \in Orders : Share(d)' = Share(d)
    BY <2>1 DEF Share, CampaignCash
  <2> QED BY <1>2, <2>1, <2>2
<1> QED BY <1>1, <1>3, <1>4, <1>5, <1>6, <1>7 DEF BooksNext

\* In steps of the unit, the capping of the code is the capping of the quantity.
LEMMA CappedSteps ==
  ASSUME NEW step \in Nat, FullBudget = step * Unit, NEW n \in Nat
  PROVE  /\ (FullBudget * n) \div Unit = step * n
         /\ Capped(step * n, FullBudget) = step * Capped(n, Unit)
         /\ Scaled(n) = step * Capped(n, Unit)
<1>0. Unit \in Nat \ {0} /\ FullBudget \in Nat
  BY Constants
<1>1. \A m \in Nat : (FullBudget * m) \div Unit = step * m
  <2> TAKE m \in Nat
  <2> DEFINE k == step * m
  <2>1. FullBudget * m = k * Unit
    BY <1>0
  <2>2. k \in Nat
    OBVIOUS
  <2> HIDE DEF k
  <2>3. (k * Unit) \div Unit = k
    BY <1>0, <2>2
  <2> QED BY <2>1, <2>3 DEF k
<1>2. Capped(n, Unit) \in Nat
  BY <1>0 DEF Capped
<1>3. Capped(step * n, FullBudget) = step * Capped(n, Unit)
  <2>1. CASE n > Unit
    <3>1. step * n >= step * Unit
      BY <1>0, <2>1
    <3> QED BY <1>0, <2>1, <3>1 DEF Capped
  <2>2. CASE ~(n > Unit)
    <3>1. step * n <= step * Unit
      BY <1>0, <2>2
    <3> QED BY <1>0, <2>2, <3>1 DEF Capped
  <2> QED BY <2>1, <2>2
<1> QED BY <1>1, <1>2, <1>3 DEF Scaled

\* Booking fills one after the other is booking them at once.
LEMMA BudgetAdds ==
  ASSUME NEW filled \in Nat, NEW dq \in Nat
  PROVE  Capped(Capped((FullBudget * filled) \div Unit, FullBudget) + Scaled(dq), FullBudget)
           = Capped((FullBudget * (filled + dq)) \div Unit, FullBudget)
<1>1. PICK step \in 0..FullBudget : FullBudget = step * Unit
  BY BudgetAssumption
<1>2. step \in Nat /\ Unit \in Nat \ {0} /\ FullBudget \in Nat
  BY <1>1, Constants
<1> DEFINE a == Capped(filled, Unit)
           b == Capped(dq, Unit)
<1>3. a \in Nat /\ b \in Nat /\ Capped(a + b, Unit) = Capped(filled + dq, Unit)
  BY <1>2 DEF Capped
<1>4. Capped((FullBudget * filled) \div Unit, FullBudget) = step * a /\ Scaled(dq) = step * b
  BY <1>1, <1>2, CappedSteps
<1>5. Capped((FullBudget * (filled + dq)) \div Unit, FullBudget) = step * Capped(filled + dq, Unit)
  <2>1. filled + dq \in Nat
    OBVIOUS
  <2> QED BY <1>1, <1>2, <2>1, CappedSteps
<1> HIDE DEF a, b
<1>6. Capped(step * (a + b), FullBudget) = step * Capped(a + b, Unit)
  <2>1. a + b \in Nat
    BY <1>3
  <2> QED BY <1>1, <1>2, <2>1, CappedSteps
<1>7. step * a + step * b = step * (a + b)
  BY <1>2, <1>3
<1> QED BY <1>3, <1>4, <1>5, <1>6, <1>7

\* Every step keeps the budget with the fills of the opening order.
LEMMA NextKeepsBudget ==
  ASSUME BudgetFollowsEntry, BookInv, BooksTypeOK', [BooksNext]_booksVars
  PROVE  BudgetFollowsEntry'
<1>0. BooksTypeOK /\ OrdersInv /\ OwnersInv
  BY DEF BookInv
<1>1. ASSUME camp'.id = camp.id, camp'.entry = camp.entry, camp'.budget = camp.budget,
             CampaignOpen => journal'[camp.entry].filled = journal[camp.entry].filled
      PROVE  BudgetFollowsEntry'
  BY <1>1 DEF BudgetFollowsEntry, CampaignOpen
<1>2. CampaignOpen => camp.entry \in Orders /\ journal[camp.entry].filled > 0
                      /\ journal[camp.entry].role = "buy"
  BY <1>0 DEF OwnersInv
<1>3. ASSUME NEW c \in Orders, ApplyBuy(c), journal[c].st \in {"active", "terminal"}
      PROVE  BudgetFollowsEntry'
  <2> DEFINE dq == exchange.row[c].filled - journal[c].filled
  <2>1. /\ journal' = Marked(c) /\ dq > 0
        /\ camp' = [CampaignAfterBuy(c, dq) EXCEPT !.realized = @ - (exchange.row[c].fee - journal[c].fee)]
    BY <1>3 DEF ApplyBuy
  <2>2. journal[c].filled \in Nat /\ exchange.row[c].filled \in Nat /\ dq \in Nat
        /\ exchange.row[c].filled = journal[c].filled + dq
    BY <1>0, <2>1, JournalTypes
  <2>3. CampaignAfterBuy(c, dq) \in Campaign
    BY <1>0, <2>2, CampaignAfterBuyType
  <2>4. camp'.id = CampaignAfterBuy(c, dq).id /\ camp'.entry = CampaignAfterBuy(c, dq).entry
        /\ camp'.budget = CampaignAfterBuy(c, dq).budget
    BY <2>1, <2>3 DEF Campaign
  <2>5. journal'[c].filled = journal[c].filled + dq
        /\ \A d \in Orders : d # c => journal'[d].filled = journal[d].filled
    BY <1>0, <2>1, <2>2, MarkedFields
  <2>6. camp \in Campaign
    BY <1>0 DEF BooksTypeOK
  <2> HIDE DEF dq
  <2>7. CASE CampaignOpen /\ camp.entry # c
    BY <1>1, <1>2, <2>4, <2>5, <2>7 DEF CampaignAfterBuy
  <2>8. CASE CampaignOpen /\ camp.entry = c
    <3>1. camp'.id = camp.id /\ camp'.entry = c
          /\ camp'.budget = Capped(camp.budget + Scaled(dq), FullBudget)
      BY <2>4, <2>6, <2>8 DEF CampaignAfterBuy, Campaign
    <3>2. camp.budget = Capped((FullBudget * journal[c].filled) \div Unit, FullBudget)
      BY <2>8 DEF BudgetFollowsEntry
    <3>3. camp'.budget = Capped((FullBudget * (journal[c].filled + dq)) \div Unit, FullBudget)
      BY <2>2, <3>1, <3>2, BudgetAdds
    <3> QED BY <2>5, <3>1, <3>3 DEF BudgetFollowsEntry
  <2>9. CASE ~CampaignOpen
    <3>1. camp'.entry = c /\ camp'.budget = Scaled(dq)
      BY <2>4, <2>9 DEF CampaignAfterBuy, Opened
    <3>2. journal[c].filled = 0
      <4>1. c \in Active
        BY <1>3, <2>1, <2>2, NewFillsAreActive DEF dq
      <4> QED BY <1>0, <2>9, <4>1 DEF OwnersInv
    <3>3. journal'[c].filled = dq
      BY <2>2, <2>5, <3>2
    <3>4. Scaled(dq) = Capped((FullBudget * dq) \div Unit, FullBudget)
      <4>1. PICK step \in 0..FullBudget : FullBudget = step * Unit
        BY BudgetAssumption
      <4>2. step \in Nat
        BY <4>1, Constants
      <4> QED BY <2>2, <4>1, <4>2, CappedSteps
    <3> QED BY <3>1, <3>3, <3>4 DEF BudgetFollowsEntry
  <2> QED BY <2>7, <2>8, <2>9
<1>4. ASSUME NEW c \in Orders, ApplySell(c) PROVE BudgetFollowsEntry'
  <2>1. journal' = Marked(c) /\ journal[c].role \in Sells
        /\ camp'.id = camp.id /\ camp'.entry = camp.entry /\ camp'.budget = camp.budget
    BY <1>0, <1>4 DEF ApplySell, BooksTypeOK, Campaign
  <2>2. CampaignOpen => camp.entry # c
    BY <1>2, <2>1 DEF Sells
  <2> QED BY <1>0, <1>1, <1>2, <2>1, <2>2, MarkedFields
<1>5. ASSUME NEW c \in Orders, ApplyCorrection(c) \/ SaveLatePnl(c) PROVE BudgetFollowsEntry'
  <2>1. /\ journal' \in {journal, Marked(c)} /\ exchange.row[c].filled = journal[c].filled
        /\ camp'.id = camp.id /\ camp'.entry = camp.entry /\ camp'.budget = camp.budget
    BY <1>0, <1>5 DEF ApplyCorrection, SaveLatePnl, BooksTypeOK, Campaign
  <2>2. \A d \in Orders : journal'[d].filled = journal[d].filled
    BY <1>0, <2>1, MarkedFields
  <2> QED BY <1>1, <1>2, <2>1, <2>2
<1>6. ASSUME NEW c \in Orders, ApplyReport(c) PROVE BudgetFollowsEntry'
  BY <1>3, <1>4, <1>5, <1>6 DEF ApplyReport
<1>7. ASSUME NEW c \in Orders, NEW role \in BookRoles, NEW q \in 1..MaxSize, NEW core \in BOOLEAN,
             Place(c, role, q, core)
      PROVE  BudgetFollowsEntry'
  <2>1. camp' = camp /\ journal[c].filled = 0 /\ \A d \in Orders : d # c => journal'[d] = journal[d]
    BY <1>0, <1>7, Parts DEF Place, NoEntry, BooksTypeOK
  <2>2. CampaignOpen => camp.entry # c
    BY <1>2, <2>1
  <2> QED BY <1>1, <1>2, <2>1, <2>2
<1>8. ASSUME NEW c \in Orders, ArchiveOrder(c) PROVE BudgetFollowsEntry'
  <2>1. camp' = camp /\ \A d \in Orders : journal'[d].filled = journal[d].filled
    BY <1>0, <1>8, Parts DEF ArchiveOrder, BooksTypeOK, JournalOrder
  <2> QED BY <1>1, <1>2, <2>1
<1>9. ASSUME FinishLate PROVE BudgetFollowsEntry'
  <2>1. pend \in Orders /\ journal' = Marked(pend) /\ camp' = camp
        /\ exchange.row[pend].filled = journal[pend].filled
    BY <1>0, <1>9 DEF FinishLate, OwnersInv, OrdersInv, OrderFacts
  <2>2. \A d \in Orders : journal'[d].filled = journal[d].filled
    BY <1>0, <2>1, MarkedFields
  <2> QED BY <1>1, <1>2, <2>1, <2>2
<1>10. ASSUME FinishCampaign PROVE BudgetFollowsEntry'
  BY <1>10 DEF FinishCampaign, BudgetFollowsEntry, CampaignOpen, NoCampaign
<1>11. ASSUME \/ \E c \in Orders : CloseOrder(c) \/ Report(c)
              \/ \E c \in Orders, o \in {<<0, 0>>, <<Fee, 0>>, <<0, 1>>} : Trade(c, o[1], o[2])
              \/ SyncAccount \/ RollDay \/ CrashInApply \/ (\E amount \in {1} : MoveCash(amount))
              \/ UNCHANGED booksVars
      PROVE  BudgetFollowsEntry'
  <2>1. UNCHANGED <<camp, journal>>
    BY <1>11 DEF CloseOrder, Report, Trade, SyncAccount, RollDay, CrashInApply, MoveCash, booksVars
  <2> QED BY <1>1, <2>1
<1> QED BY <1>6, <1>7, <1>8, <1>9, <1>10, <1>11 DEF BooksNext

\* A campaign's realized P&L is what its own orders paid and received, plus the
\* cost still held, and its budget what the opening order's fills are worth,
\* however those are split over reports: a late correction of an ended campaign,
\* an add or a crash between the saves changes neither.
THEOREM CampaignIsKept == BooksSpec => []CampaignKept
<1>1. BooksInit => OwnBooks /\ BudgetFollowsEntry
  BY DEF BooksInit, OwnBooks, BudgetFollowsEntry, CampaignOpen, NoCampaign
<1>2. OwnBooks /\ BudgetFollowsEntry /\ BookInv /\ BooksTypeOK' /\ [BooksNext]_booksVars
        => (OwnBooks /\ BudgetFollowsEntry)'
  BY NextKeepsOwnBooks, NextKeepsBudget
<1>3. OwnBooks /\ BudgetFollowsEntry => CampaignKept
  BY OwnBooksIsIt DEF CampaignKept
<1> QED BY <1>1, <1>2, <1>3, TypeCorrect, BookHolds, PTL DEF BooksSpec

----------------------------------------------------------------------------
(* The coins together.  That everything exposed is watched rests on what a   *)
(* scan, a turn and a start leave watched, that the cash pays on every entry *)
(* executing at most what it has left.                                       *)

EntryRows == [left : Nat, done : Nat, rests : BOOLEAN, told : BOOLEAN]

BasketTypes ==
  /\ watched \in SUBSET Universe /\ unseen \in SUBSET Universe
  /\ scan \in [held : SUBSET Universe, under : BOOLEAN]
  /\ todo \in SUBSET Universe /\ doing \in Universe \union {Nobody}
  /\ have \in [Universe -> Nat] /\ entryOf \in [Universe -> EntryRows]
  /\ funds \in Int /\ account \in Int

\* Only what is watched is driven or scanned for, and no entry executes more than it has left.
TurnTrue ==
  /\ todo \subseteq watched
  /\ scan.under => watched # {}
  /\ \A c \in Universe : entryOf[c].done <= entryOf[c].left

BasketInv == BasketTypes /\ TurnTrue /\ BasketKept

\* What the constants give.
LEMMA BasketNumbers ==
  /\ IsFiniteSet(Universe) /\ Nobody \notin Universe
  /\ MaxBooks \in Nat /\ Allocation \in Nat /\ MaxEntry \in Nat /\ Percent \in Nat
BY BasketAssumption

\* The fields of an entry.
LEMMA EntryFields ==
  ASSUME BasketTypes, NEW c \in Universe
  PROVE  /\ entryOf[c] \in EntryRows /\ entryOf[c].left \in Nat /\ entryOf[c].done \in Nat
         /\ entryOf[c].rests \in BOOLEAN /\ entryOf[c].told \in BOOLEAN /\ have[c] \in Nat
<1>1. entryOf[c] \in EntryRows /\ have[c] \in Nat
  BY DEF BasketTypes
<1> QED BY <1>1 DEF EntryRows

\* How an entry may be changed.
LEMMA EntryUpdates ==
  /\ NothingOrdered \in EntryRows /\ NothingOrdered.left = 0 /\ NothingOrdered.done = 0
  /\ \A n \in Nat : /\ [NothingOrdered EXCEPT !.left = n] \in EntryRows
                    /\ [NothingOrdered EXCEPT !.left = n].left = n
                    /\ [NothingOrdered EXCEPT !.left = n].done = 0
  /\ \A e \in EntryRows, n \in Nat : /\ [e EXCEPT !.left = n, !.done = 0, !.told = TRUE] \in EntryRows
                                     /\ [e EXCEPT !.left = n, !.done = 0, !.told = TRUE].left = n
                                     /\ [e EXCEPT !.left = n, !.done = 0, !.told = TRUE].done = 0
<1>1. NothingOrdered \in EntryRows /\ NothingOrdered.left = 0 /\ NothingOrdered.done = 0
  BY DEF NothingOrdered, EntryRows
<1>2. \A e \in EntryRows, n \in Nat : /\ [e EXCEPT !.left = n] \in EntryRows
                                      /\ [e EXCEPT !.left = n].left = n
                                      /\ [e EXCEPT !.left = n].done = e.done
  BY DEF EntryRows
<1>3. \A e \in EntryRows, n \in Nat : /\ [e EXCEPT !.left = n, !.done = 0, !.told = TRUE] \in EntryRows
                                      /\ [e EXCEPT !.left = n, !.done = 0, !.told = TRUE].left = n
                                      /\ [e EXCEPT !.left = n, !.done = 0, !.told = TRUE].done = 0
  BY DEF EntryRows
<1> QED BY <1>1, <1>2, <1>3

\* What the entries reserve moves with that of one coin.
LEMMA ReservedOfCoin ==
  ASSUME BasketTypes, BasketTypes', NEW c \in Universe, \A d \in Universe \ {c} : entryOf'[d].left = entryOf[d].left
  PROVE  Reserved' = Reserved - entryOf[c].left + entryOf'[c].left /\ Reserved \in Int
<1> DEFINE f == [d \in Universe |-> entryOf[d].left]
           g == [d \in Universe |-> entryOf'[d].left]
<1>1. \A d \in Universe : f[d] \in Int /\ entryOf[d].left \in Nat
  BY EntryFields
<1>2. \A d \in Universe : g[d] \in Int
  <2> SUFFICES ASSUME NEW d \in Universe PROVE entryOf'[d].left \in Int
    OBVIOUS
  <2>1. entryOf'[d] \in EntryRows
    BY DEF BasketTypes
  <2> QED BY <2>1 DEF EntryRows
<1>3. \A d \in Universe \ {c} : g[d] = f[d]
  OBVIOUS
<1>4. f[c] = entryOf[c].left /\ g[c] = entryOf'[c].left
  OBVIOUS
<1>5. Reserved = SumFunctionOnSet(f, Universe) /\ Reserved' = SumFunctionOnSet(g, Universe)
  BY DEF Reserved
<1>6. IsFiniteSet(Universe)
  BY BasketNumbers
<1> HIDE DEF f, g
<1>7. SumFunctionOnSet(g, Universe) = SumFunctionOnSet(f, Universe) - f[c] + g[c]
  BY <1>1, <1>2, <1>3, <1>6, SumChange
<1>8. SumFunctionOnSet(f, Universe) \in Int
  BY <1>1, <1>6, SumIsInt
<1> QED BY <1>4, <1>5, <1>7, <1>8

\* What changes no book changes nothing that is reserved or open.
LEMMA QuietBasketKeeps ==
  ASSUME BasketInv, BasketTypes', TurnTrue', ExposedIsWatched', UNCHANGED <<have, entryOf, funds>>
  PROVE  BasketInv'
<1>1. EntriesPaid'
  BY DEF BasketInv, BasketKept, EntriesPaid, Reserved, OpenBooks, Entries
<1> QED BY <1>1 DEF BasketInv, BasketKept

\* A change of one coin's book, whose entry takes no more than the cash still pays and
\* that opens no book which is not watched, or beyond the number allowed.
LEMMA CoinKeeps ==
  ASSUME BasketInv, BasketTypes', TurnTrue', NEW c \in Universe,
         \A d \in Universe \ {c} : entryOf'[d] = entryOf[d] /\ have'[d] = have[d],
         UNCHANGED <<watched, unseen>>,
         Reserved - entryOf[c].left + entryOf'[c].left <= funds',
         c \in OpenBooks \/ (c \in watched /\ Cardinality(OpenBooks) < MaxBooks) \/ c \notin OpenBooks'
  PROVE  BasketInv'
<1>1. OpenBooks' \subseteq OpenBooks \union {c} /\ (c \notin OpenBooks /\ c \in OpenBooks' => c \in watched)
  BY DEF OpenBooks, Entries
<1>2. BasketTypes /\ ExposedIsWatched /\ EntriesPaid
  BY DEF BasketInv, BasketKept
<1>3. ExposedIsWatched'
  <2> SUFFICES ASSUME watched # {} PROVE OpenBooks' \subseteq watched \union unseen
    BY DEF ExposedIsWatched
  <2>1. OpenBooks \subseteq watched \union unseen
    BY <1>2 DEF ExposedIsWatched
  <2> QED BY <1>1, <2>1
<1>4. Reserved' <= funds'
  <2>1. \A d \in Universe \ {c} : entryOf'[d].left = entryOf[d].left
    OBVIOUS
  <2>2. Reserved' = Reserved - entryOf[c].left + entryOf'[c].left
    BY <1>2, <2>1, ReservedOfCoin
  <2> QED BY <2>2
<1>5. Cardinality(OpenBooks') <= MaxBooks
  <2>1. IsFiniteSet(OpenBooks) /\ IsFiniteSet(OpenBooks')
    <3>1. OpenBooks \subseteq Universe /\ OpenBooks' \subseteq Universe
      BY DEF OpenBooks, Entries
    <3> QED BY <3>1, BasketNumbers, FS_Subset
  <2>2. Cardinality(OpenBooks) \in Nat /\ Cardinality(OpenBooks') \in Nat /\ MaxBooks \in Nat
    BY <2>1, FS_CardinalityType, BasketNumbers
  <2>3. CASE c \in OpenBooks \/ c \notin OpenBooks'
    <3>1. OpenBooks' \subseteq OpenBooks
      BY <1>1, <2>3
    <3>2. Cardinality(OpenBooks') <= Cardinality(OpenBooks)
      BY <2>1, <3>1, FS_Subset
    <3> QED BY <1>2, <2>2, <3>2 DEF EntriesPaid
  <2>4. CASE c \notin OpenBooks /\ Cardinality(OpenBooks) < MaxBooks
    <3>1. Cardinality(OpenBooks \union {c}) = Cardinality(OpenBooks) + 1 /\ IsFiniteSet(OpenBooks \union {c})
      BY <2>1, <2>4, FS_AddElement
    <3>2. Cardinality(OpenBooks') <= Cardinality(OpenBooks \union {c})
      BY <1>1, <3>1, FS_Subset
    <3> QED BY <2>2, <2>4, <3>1, <3>2
  <2> QED BY <2>3, <2>4
<1> QED BY <1>3, <1>4, <1>5 DEF BasketInv, BasketKept, EntriesPaid

\* Booking what was executed: the cash pays for it, the entry keeps at most the rest.
LEMMA BookEntryKeeps ==
  ASSUME BasketInv, NEW c \in Universe, NEW left \in Nat, BookEntry(c, left),
         left <= entryOf[c].left - entryOf[c].done,
         UNCHANGED <<selected, watched, unseen, scan, doing>>, todo' \in SUBSET todo
  PROVE  BasketInv'
<1> DEFINE r == IF left = 0 THEN NothingOrdered ELSE [entryOf[c] EXCEPT !.left = left, !.done = 0, !.told = TRUE]
<1>1. /\ BasketTypes /\ TurnTrue /\ EntriesPaid
      /\ have' = [have EXCEPT ![c] = @ + entryOf[c].done] /\ funds' = funds - entryOf[c].done
      /\ entryOf' = [entryOf EXCEPT ![c] = r] /\ account' = -1
  BY DEF BasketInv, BasketKept, BookEntry, Stale, NotRead
<1>2. /\ entryOf[c] \in EntryRows /\ entryOf[c].left \in Nat /\ entryOf[c].done \in Nat /\ have[c] \in Nat
      /\ entryOf[c].done <= entryOf[c].left
  BY <1>1, EntryFields DEF TurnTrue
<1>3. r \in EntryRows /\ r.left = left /\ r.done = 0
  BY <1>2, EntryUpdates
<1> HIDE DEF r
<1>4. have[c] + entryOf[c].done \in Nat /\ funds' \in Int /\ account' \in Int
  BY <1>1, <1>2 DEF BasketTypes
<1>5. have' \in [Universe -> Nat] /\ entryOf' \in [Universe -> EntryRows]
  BY <1>1, <1>3, <1>4 DEF BasketTypes
<1>6. BasketTypes'
  BY <1>1, <1>4, <1>5 DEF BasketTypes
<1>7. TurnTrue'
  BY <1>1, <1>3 DEF TurnTrue, BasketTypes
<1>8. /\ \A d \in Universe \ {c} : entryOf'[d] = entryOf[d] /\ have'[d] = have[d]
      /\ entryOf'[c] = r /\ have'[c] = have[c] + entryOf[c].done
  BY <1>1 DEF BasketTypes
<1>9. Reserved - entryOf[c].left + entryOf'[c].left <= funds'
  <2>1. Reserved \in Int /\ Reserved <= funds /\ funds \in Int
    <3>1. Reserved \in Int
      BY <1>1, <1>6, <1>8, ReservedOfCoin
    <3> QED BY <1>1, <3>1 DEF EntriesPaid, BasketTypes
  <2> QED BY <1>1, <1>2, <1>3, <1>8, <2>1
<1>10. c \in OpenBooks \/ c \notin OpenBooks'
  BY <1>2, <1>3, <1>8 DEF OpenBooks, Entries
<1> QED BY <1>6, <1>7, <1>8, <1>9, <1>10, CoinKeeps

\* The markets that are watched after a scan: everything exposed that was watched
\* stays, and what is exposed and was not seen is remembered.
LEMMA BasketTakesKeeps ==
  ASSUME BasketTypes, NEW held \in SUBSET Universe, NEW blind \in SUBSET Universe, BasketTakes(held, blind),
         OpenBooks \subseteq watched \union blind
  PROVE  /\ watched' \in SUBSET Universe /\ unseen' \in SUBSET Universe /\ scan' = NoScan
         /\ OpenBooks \subseteq watched' \union unseen'
         /\ watched \intersect OpenBooks \subseteq watched'
<1>0. PICK ranked \in Rankings :
        \E known \in SUBSET (ToSet(ranked) \cup held) :
          LET chosen == Retain(selected, ranked, known)
          IN /\ watched' = WatchedNow(held, chosen, known \cup watched)
             /\ scan' = NoScan /\ unseen' = blind \ watched'
  BY DEF BasketTakes
<1>1. PICK known \in SUBSET (ToSet(ranked) \cup held) :
        /\ watched' = { c \in ToSet(Retain(selected, ranked, known)) \cup OpenBooks : c \in known \cup watched }
        /\ scan' = NoScan /\ unseen' = blind \ watched'
  BY <1>0 DEF WatchedNow
<1>2. ToSet(ranked) \subseteq Universe
  <2>1. \E m : ranked \in [1..m -> Universe]
    BY DEF Rankings, SeqOf
  <2> QED BY <2>1 DEF ToSet
<1>3. known \subseteq Universe /\ watched \subseteq Universe
  BY <1>2 DEF BasketTypes
<1> QED BY <1>1, <1>3

\* The steps that look for a coin or start one keep the basket.
LEMMA ScansKeep ==
  ASSUME BasketInv, Discover \/ ApplyScan \/ BasketDies \/ BasketStarts
  PROVE  BasketInv'
<1>1. BasketTypes /\ TurnTrue /\ ExposedIsWatched
  BY DEF BasketInv, BasketKept
<1>2. UNCHANGED <<have, entryOf, funds>> /\ OpenBooks' = OpenBooks
  BY DEF Discover, ApplyScan, BasketDies, BasketStarts, OpenBooks, Entries
<1>3. NoScan \in [held : SUBSET Universe, under : BOOLEAN] /\ ~NoScan.under
  BY DEF NoScan
<1>4. CASE Discover
  <2>1. /\ scan' = [held |-> OpenBooks, under |-> TRUE] /\ watched # {}
        /\ UNCHANGED <<watched, unseen, todo, doing, account>>
    BY <1>4 DEF Discover
  <2>2. OpenBooks \in SUBSET Universe
    BY DEF OpenBooks, Entries
  <2>3. scan' \in [held : SUBSET Universe, under : BOOLEAN]
    BY <2>1, <2>2
  <2>4. BasketTypes'
    BY <1>1, <1>2, <2>1, <2>3 DEF BasketTypes
  <2>5. TurnTrue' /\ ExposedIsWatched'
    BY <1>1, <1>2, <2>1 DEF TurnTrue, ExposedIsWatched
  <2> QED BY <1>2, <2>4, <2>5, QuietBasketKeeps
<1>5. CASE ApplyScan
  <2>1. /\ scan.under /\ scan.held \in SUBSET Universe /\ todo = {} /\ BasketTakes(scan.held, unseen)
        /\ UNCHANGED <<todo, doing, account>>
    BY <1>1, <1>5 DEF ApplyScan, BasketTypes
  <2>2. OpenBooks \subseteq watched \union unseen /\ unseen \in SUBSET Universe
    BY <1>1, <2>1 DEF ExposedIsWatched, TurnTrue, BasketTypes
  <2>3. /\ watched' \in SUBSET Universe /\ unseen' \in SUBSET Universe /\ scan' = NoScan
        /\ OpenBooks \subseteq watched' \union unseen'
    BY <1>1, <2>1, <2>2, BasketTakesKeeps
  <2>4. BasketTypes'
    BY <1>1, <1>2, <1>3, <2>1, <2>3 DEF BasketTypes
  <2>5. TurnTrue' /\ ExposedIsWatched'
    BY <1>1, <1>2, <1>3, <2>1, <2>3 DEF TurnTrue, ExposedIsWatched
  <2> QED BY <1>2, <2>4, <2>5, QuietBasketKeeps
<1>6. CASE BasketDies
  <2>1. watched' = {} /\ unseen' = {} /\ scan' = NoScan /\ todo' = {} /\ doing' = Nobody /\ account' \in Int
    BY <1>6 DEF BasketDies, NotRead
  <2>2. BasketTypes'
    BY <1>1, <1>2, <1>3, <2>1 DEF BasketTypes
  <2>3. TurnTrue' /\ ExposedIsWatched'
    BY <1>1, <1>2, <1>3, <2>1 DEF TurnTrue, ExposedIsWatched
  <2> QED BY <1>2, <2>2, <2>3, QuietBasketKeeps
<1>7. CASE BasketStarts
  <2>1. watched = {} /\ BasketTakes(OpenBooks, OpenBooks) /\ UNCHANGED <<todo, doing, account>>
    BY <1>7 DEF BasketStarts
  <2>2. OpenBooks \in SUBSET Universe /\ OpenBooks \subseteq watched \union OpenBooks
    BY DEF OpenBooks, Entries
  <2>3. /\ watched' \in SUBSET Universe /\ unseen' \in SUBSET Universe /\ scan' = NoScan
        /\ OpenBooks \subseteq watched' \union unseen'
    BY <1>1, <2>1, <2>2, BasketTakesKeeps
  <2>4. BasketTypes'
    BY <1>1, <1>2, <1>3, <2>1, <2>3 DEF BasketTypes
  <2>5. TurnTrue' /\ ExposedIsWatched'
    BY <1>1, <1>2, <1>3, <2>1, <2>3 DEF TurnTrue, ExposedIsWatched
  <2> QED BY <1>2, <2>4, <2>5, QuietBasketKeeps
<1> QED BY <1>4, <1>5, <1>6, <1>7

\* The turn that begins, ends early or passes a coin by, and what is read of the account.
LEMMA TurnsKeepBasket ==
  ASSUME BasketInv, ReadAccount \/ BeginTurn \/ TurnFails \/ AccountAges \/ \E c \in Universe : DriveIdles(c)
  PROVE  BasketInv'
<1>1. BasketTypes /\ TurnTrue /\ ExposedIsWatched
  BY DEF BasketInv, BasketKept
<1>2. UNCHANGED <<watched, unseen, scan, doing, have, entryOf, funds>>
  BY DEF ReadAccount, BeginTurn, TurnFails, AccountAges, DriveIdles
<1>3. todo' \in SUBSET watched
  BY <1>1 DEF ReadAccount, BeginTurn, TurnFails, AccountAges, DriveIdles, Drives, TurnTrue
<1>4. account' \in Int
  <2>1. CASE ReadAccount
    BY <2>1, BasketNumbers DEF ReadAccount
  <2>2. CASE TurnFails \/ AccountAges
    BY <2>2 DEF TurnFails, AccountAges, Stale, NotRead
  <2>3. CASE account' = account
    BY <1>1, <2>3 DEF BasketTypes
  <2> QED BY <2>1, <2>2, <2>3 DEF BeginTurn, DriveIdles
<1>5. BasketTypes'
  BY <1>1, <1>2, <1>3, <1>4 DEF BasketTypes
<1>6. TurnTrue' /\ ExposedIsWatched'
  BY <1>1, <1>2, <1>3 DEF TurnTrue, ExposedIsWatched, OpenBooks, Entries
<1> QED BY <1>2, <1>5, <1>6, QuietBasketKeeps

\* What may still be spent is at most the cash that no entry has reserved.
LEMMA RoomIsFree ==
  ASSUME BasketTypes, Reserved \in Int, NEW mark \in Nat, NEW n \in Nat, n <= Room(mark, 0)
  PROVE  n <= funds - Reserved
<1> DEFINE h == Held(mark)
           p == (funds + h) * Percent
<1>1. h \in Int
  <2> DEFINE f == [c \in Universe |-> have[c] * mark]
  <2>1. \A c \in Universe : f[c] \in Int
    <3> SUFFICES ASSUME NEW c \in Universe PROVE have[c] * mark \in Int
      OBVIOUS
    <3>1. have[c] \in Nat
      BY DEF BasketTypes
    <3> QED BY <3>1
  <2> HIDE DEF f
  <2>2. SumFunctionOnSet(f, Universe) \in Int
    BY <2>1, BasketNumbers, SumIsInt
  <2> QED BY <2>2 DEF Held, f
<1>2. p \in Int
  <2>1. funds + h \in Int /\ Percent \in Int
    BY <1>1, BasketNumbers DEF BasketTypes
  <2> HIDE DEF h
  <2> QED BY <2>1
<1>3. PortfolioRoom(mark) = (p \div 100) - h - Reserved
  BY DEF PortfolioRoom
<1> HIDE DEF h, p
<1>4. PortfolioRoom(mark) \in Int
  BY <1>1, <1>2, <1>3
<1> QED BY <1>4 DEF Room, Smaller, BasketTypes

\* An entry that is planned: one for a coin without an entry, of a book that is open or
\* that may be opened, and the cash not reserved pays for it.
LEMMA PlanKeeps ==
  ASSUME BasketInv, NEW c \in Universe, PlanEntry(c)
  PROVE  BasketInv'
<1>1. PICK n \in 1..MaxEntry, mark \in {0, 1, 2} :
        n <= Room(mark, 0) /\ entryOf' = [entryOf EXCEPT ![c] = [NothingOrdered EXCEPT !.left = n]]
  BY DEF PlanEntry
<1> DEFINE r == [NothingOrdered EXCEPT !.left = n]
<1>2. /\ BasketTypes /\ TurnTrue /\ EntriesPaid
      /\ c \in todo /\ todo' = todo \ {c} /\ doing' = c /\ entryOf[c].left = 0
      /\ c \in OpenBooks \/ Cardinality(OpenBooks) < MaxBooks
      /\ UNCHANGED <<watched, unseen, scan, have, funds, account>>
  BY DEF BasketInv, BasketKept, PlanEntry, Drives
<1>3. n \in Nat /\ mark \in Nat
  BY BasketNumbers
<1>4. r \in EntryRows /\ r.left = n /\ r.done = 0
  BY <1>3, EntryUpdates
<1> HIDE DEF r
<1>5. entryOf' = [entryOf EXCEPT ![c] = r]
  BY <1>1 DEF r
<1>6. BasketTypes'
  BY <1>2, <1>4, <1>5 DEF BasketTypes
<1>7. TurnTrue'
  BY <1>2, <1>3, <1>4, <1>5 DEF TurnTrue, BasketTypes
<1>8. /\ \A d \in Universe \ {c} : entryOf'[d] = entryOf[d] /\ have'[d] = have[d]
      /\ entryOf'[c] = r
  BY <1>2, <1>5 DEF BasketTypes
<1>9. Reserved - entryOf[c].left + entryOf'[c].left <= funds'
  <2>1. Reserved \in Int /\ funds \in Int
    BY <1>2, <1>6, <1>8, ReservedOfCoin DEF BasketTypes
  <2>2. n <= funds - Reserved
    BY <1>1, <1>2, <1>3, <2>1, RoomIsFree
  <2> QED BY <1>2, <1>3, <1>4, <1>8, <2>1, <2>2
<1>10. c \in OpenBooks \/ (c \in watched /\ Cardinality(OpenBooks) < MaxBooks)
  BY <1>2 DEF TurnTrue
<1> QED BY <1>2, <1>6, <1>7, <1>8, <1>9, <1>10, CoinKeeps

\* An entry that reserves no more than before, and whose coin keeps what it holds.
LEMMA EntryKeeps ==
  ASSUME BasketInv, NEW c \in Universe, NEW r \in EntryRows, entryOf' = [entryOf EXCEPT ![c] = r],
         r.left <= entryOf[c].left, r.done <= r.left,
         UNCHANGED <<watched, unseen, scan, todo, have, funds, account>>, doing' \in {doing, Nobody}
  PROVE  BasketInv'
<1>1. BasketTypes /\ TurnTrue /\ EntriesPaid
  BY DEF BasketInv, BasketKept
<1>2. entryOf[c].left \in Nat
  BY <1>1, EntryFields
<1>3. BasketTypes'
  BY <1>1 DEF BasketTypes
<1>4. TurnTrue'
  BY <1>1 DEF TurnTrue, BasketTypes
<1>5. /\ \A d \in Universe \ {c} : entryOf'[d] = entryOf[d] /\ have'[d] = have[d]
      /\ entryOf'[c] = r /\ have'[c] = have[c] /\ r.left \in Nat
  BY <1>1 DEF BasketTypes, EntryRows
<1>6. Reserved - entryOf[c].left + entryOf'[c].left <= funds'
  <2>1. Reserved \in Int /\ funds \in Int
    BY <1>1, <1>3, <1>5, ReservedOfCoin DEF BasketTypes
  <2> QED BY <1>1, <1>2, <1>5, <2>1 DEF EntriesPaid
<1>7. c \in OpenBooks \/ c \notin OpenBooks'
  BY <1>2, <1>5 DEF OpenBooks, Entries
<1> QED BY <1>3, <1>4, <1>5, <1>6, <1>7, CoinKeeps

\* An entry that is sent, refused, dropped or executed further reserves no more than before.
LEMMA EntryMovesKeep ==
  ASSUME BasketInv, NEW c \in Universe, SendEntry(c) \/ IntentExpires(c) \/ ExecuteEntry(c)
  PROVE  BasketInv'
<1>1. BasketTypes /\ TurnTrue
  BY DEF BasketInv
<1>2. UNCHANGED <<watched, unseen, scan, todo, have, funds, account>> /\ doing' \in {doing, Nobody}
  BY DEF SendEntry, IntentExpires, ExecuteEntry
<1>3. /\ entryOf[c] \in EntryRows /\ entryOf[c].left \in Nat /\ entryOf[c].done \in Nat
      /\ entryOf[c].done <= entryOf[c].left /\ entryOf[c].left <= entryOf[c].left
  BY <1>1, EntryFields DEF TurnTrue
<1>4. ASSUME NEW told \in BOOLEAN, entryOf' = [entryOf EXCEPT ![c].rests = TRUE, ![c].told = told] PROVE BasketInv'
  <2> DEFINE r == [entryOf[c] EXCEPT !.rests = TRUE, !.told = told]
  <2>1. r \in EntryRows /\ r.left = entryOf[c].left /\ r.done = entryOf[c].done
    BY <1>3 DEF EntryRows
  <2>2. entryOf' = [entryOf EXCEPT ![c] = r]
    BY <1>1, <1>4 DEF BasketTypes
  <2> HIDE DEF r
  <2> QED BY <1>2, <1>3, <2>1, <2>2, EntryKeeps
<1>5. CASE entryOf' = entryOf
  <2>1. entryOf' = [entryOf EXCEPT ![c] = entryOf[c]]
    BY <1>1, <1>5 DEF BasketTypes
  <2> QED BY <1>2, <1>3, <2>1, EntryKeeps
<1>6. CASE entryOf' = [entryOf EXCEPT ![c] = NothingOrdered]
  <2>1. NothingOrdered \in EntryRows /\ NothingOrdered.left = 0 /\ NothingOrdered.done = 0
    BY EntryUpdates
  <2>2. NothingOrdered.left <= entryOf[c].left /\ NothingOrdered.done <= NothingOrdered.left
    BY <1>3, <2>1
  <2> QED BY <1>2, <1>6, <2>1, <2>2, EntryKeeps
<1>7. CASE ExecuteEntry(c)
  <2> DEFINE r == [entryOf[c] EXCEPT !.done = @ + 1]
  <2>1. entryOf' = [entryOf EXCEPT ![c] = r] /\ entryOf[c].done < entryOf[c].left
    BY <1>1, <1>7 DEF ExecuteEntry, BasketTypes
  <2>2. entryOf[c].done + 1 \in Nat /\ entryOf[c].done + 1 <= entryOf[c].left
    BY <1>3, <2>1
  <2>3. r \in EntryRows /\ r.left = entryOf[c].left /\ r.done = entryOf[c].done + 1
    BY <1>3, <2>2 DEF EntryRows
  <2>4. r.left <= entryOf[c].left /\ r.done <= r.left
    BY <1>3, <2>2, <2>3
  <2> HIDE DEF r
  <2> QED BY <1>2, <2>1, <2>3, <2>4, EntryKeeps
<1> QED BY <1>4, <1>5, <1>6, <1>7 DEF SendEntry, IntentExpires

\* A sale pays in, whatever its price, and closes the book.
LEMMA SellAllKeeps ==
  ASSUME BasketInv, NEW c \in Universe, SellAll(c)
  PROVE  BasketInv'
<1>1. /\ BasketTypes /\ TurnTrue /\ EntriesPaid /\ c \notin Entries
      /\ have' = [have EXCEPT ![c] = 0] /\ account' = -1 /\ todo' = todo \ {c}
      /\ UNCHANGED <<watched, unseen, scan, doing, entryOf>>
  BY DEF BasketInv, BasketKept, SellAll, Drives, Stale, NotRead
<1>2. PICK price \in {0, 1, 2} : funds' = funds + price * have[c]
  BY DEF SellAll
<1>3. funds' \in Int /\ funds <= funds'
  <2>1. have[c] \in Nat /\ funds \in Int
    BY <1>1 DEF BasketTypes
  <2> QED BY <1>2, <2>1
<1>4. account' \in Int /\ have' \in [Universe -> Nat]
  BY <1>1 DEF BasketTypes
<1>5. BasketTypes'
  BY <1>1, <1>3, <1>4 DEF BasketTypes
<1>6. TurnTrue'
  BY <1>1 DEF TurnTrue
<1>7. \A d \in Universe \ {c} : entryOf'[d] = entryOf[d] /\ have'[d] = have[d]
  BY <1>1 DEF BasketTypes
<1>8. Reserved - entryOf[c].left + entryOf'[c].left <= funds'
  <2>1. Reserved \in Int /\ funds \in Int /\ entryOf[c].left \in Nat
    BY <1>1, <1>5, <1>7, ReservedOfCoin, EntryFields DEF BasketTypes
  <2> QED BY <1>1, <1>3, <2>1 DEF EntriesPaid
<1>9. c \notin OpenBooks'
  BY <1>1 DEF OpenBooks, Entries, BasketTypes
<1> QED BY <1>1, <1>5, <1>6, <1>7, <1>8, <1>9, CoinKeeps

\* Every step keeps the invariant.
LEMMA BasketKeeps ==
  ASSUME BasketInv, [BasketNext]_basketVars
  PROVE  BasketInv'
<1>1. CASE UNCHANGED basketVars
  BY <1>1 DEF basketVars, BasketInv, BasketTypes, TurnTrue, BasketKept, ExposedIsWatched, EntriesPaid, Reserved,
              OpenBooks, Entries
<1>2. CASE Discover \/ ApplyScan \/ BasketDies \/ BasketStarts
  BY <1>2, ScansKeep
<1>3. CASE ReadAccount \/ BeginTurn \/ TurnFails \/ AccountAges \/ \E c \in Universe : DriveIdles(c)
  BY <1>3, TurnsKeepBasket
<1>4. ASSUME NEW c \in Universe, Reported(c) PROVE BasketInv'
  <2>1. entryOf[c].left \in Nat /\ entryOf[c].done \in Nat /\ entryOf[c].done <= entryOf[c].left
    BY EntryFields DEF BasketInv, TurnTrue
  <2>2. /\ BookEntry(c, entryOf[c].left - entryOf[c].done)
        /\ UNCHANGED <<selected, watched, unseen, scan, doing>> /\ todo' \in SUBSET todo
    BY <1>4 DEF Reported
  <2>3. entryOf[c].left - entryOf[c].done \in Nat
    BY <2>1
  <2> QED BY <2>2, <2>3, BookEntryKeeps
<1>5. ASSUME NEW c \in Universe, CancelEntry(c) PROVE BasketInv'
  <2>1. 0 \in Nat /\ 0 <= entryOf[c].left - entryOf[c].done
    BY EntryFields DEF BasketInv, TurnTrue
  <2>2. /\ BookEntry(c, 0) /\ UNCHANGED <<selected, watched, unseen, scan, doing>> /\ todo' \in SUBSET todo
    BY <1>5 DEF CancelEntry, Drives
  <2> QED BY <2>1, <2>2, BookEntryKeeps
<1>6. ASSUME NEW c \in Universe, SendEntry(c) \/ IntentExpires(c) \/ ExecuteEntry(c) PROVE BasketInv'
  BY <1>6, EntryMovesKeep
<1> QED BY <1>1, <1>2, <1>3, <1>4, <1>5, <1>6, PlanKeeps, SellAllKeeps DEF BasketNext

\* Everything held or ordered is watched but for what a start could not see, the
\* allocation pays every entry that may still be filled, and no more books are open than
\* configured: for any universe, scans, accounts, fills, sales and restarts (_discover,
\* _buy_cap, can_buy, apply).
THEOREM BasketHolds == BasketSpec => []BasketKept
<1>1. BasketInit => BasketInv
  <2> SUFFICES ASSUME BasketInit PROVE BasketInv
    OBVIOUS
  <2>1. /\ watched = {} /\ unseen = {} /\ scan = NoScan /\ todo = {} /\ doing = Nobody
        /\ have = [c \in Universe |-> 0] /\ entryOf = [c \in Universe |-> NothingOrdered]
        /\ funds \in Nat /\ account \in Int
    BY BasketNumbers DEF BasketInit, NotRead
  <2>2. NothingOrdered \in EntryRows /\ NothingOrdered.left = 0 /\ NothingOrdered.done = 0
    BY EntryUpdates
  <2>3. scan \in [held : SUBSET Universe, under : BOOLEAN] /\ ~scan.under
    BY <2>1 DEF NoScan
  <2>4. have \in [Universe -> Nat]
    BY <2>1
  <2>5. entryOf \in [Universe -> EntryRows]
    BY <2>1, <2>2
  <2>6. BasketTypes /\ TurnTrue
    BY <2>1, <2>2, <2>3, <2>4, <2>5 DEF BasketTypes, TurnTrue
  <2>7. OpenBooks = {}
    BY <2>1, <2>2 DEF OpenBooks, Entries
  <2>8. Reserved = 0
    <3> DEFINE f == [c \in Universe |-> entryOf[c].left]
    <3>1. \A c \in Universe : f[c] = 0
      BY <2>1, <2>2
    <3> HIDE DEF f
    <3>2. SumFunctionOnSet(f, Universe) = 0
      BY <3>1, BasketNumbers, SumOfZeros
    <3> QED BY <3>2 DEF Reserved, f
  <2>9. Cardinality(OpenBooks) = 0 /\ MaxBooks \in Nat
    BY <2>7, FS_EmptySet, BasketNumbers
  <2> QED BY <2>1, <2>6, <2>7, <2>8, <2>9 DEF BasketInv, BasketKept, ExposedIsWatched, EntriesPaid
<1>2. BasketInv /\ [BasketNext]_basketVars => BasketInv'
  BY BasketKeeps
<1>3. BasketInv => BasketKept
  BY DEF BasketInv
<1> QED BY <1>1, <1>2, <1>3, PTL DEF BasketSpec
=============================================================================
