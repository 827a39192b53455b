------------------------------- MODULE A2Basket -------------------------------
(***************************************************************************)
(* The coins of Track A-2 together: which are watched and which may be     *)
(* bought (select.py, _discover and _apply_scan of the runtime), and one   *)
(* allocation of cash behind the entries of all of them (size, _buy_cap,    *)
(* can_buy, validate_intent).  The account is shared with other engines:   *)
(* what it has free is a choice at every look, and so is whether the       *)
(* exchange accepts an entry.  A coin costs one unit a piece, its fee      *)
(* included; the ranking of the market and its marks are choices, and any  *)
(* entry may be left out (price, depth, minimum, cooldown, day limits).    *)
(***************************************************************************)
EXTENDS Integers, FiniteSets, SequencesExt

CONSTANTS Universe,   \* the configured universe
          Nobody,     \* no coin is being driven
          BasketSize, \* basket_size
          MaxBooks,   \* max_open_books
          Allocation, \* capital_allocation_krw
          Percent,    \* portfolio_notional_fraction, in percent
          MaxEntry,   \* the largest entry
          MaxBook,    \* max_notional of a coin
          MaxFunds    \* bound: the ledger's cash

ASSUME BasketAssumption ==
  /\ IsFiniteSet(Universe)
  /\ {BasketSize, MaxBooks, Allocation, MaxEntry, MaxBook, MaxFunds} \subseteq Nat /\ Percent \in 0..100
  /\ MaxBooks <= BasketSize /\ Allocation <= MaxFunds /\ Nobody \notin Universe

VARIABLES
  selected, \* the basket, oldest first
  watched,  \* the markets that are driven
  unseen,   \* ghost: exposed coins a restart could not watch for want of their metadata
  scan,     \* a request of _discover under way, with the exposed coins it asked for
  todo,     \* the coins still to be driven in this turn
  doing,    \* the coin whose entry is written down and not yet sent
  have,     \* the inventory of each coin
  entryOf,  \* its entry: left (0: none), executed and not yet reported, rests, told
  funds,    \* the ledger's cash
  account   \* the snapshot of what is free at the exchange, NotRead when it is stale

basketVars == <<selected, watched, unseen, scan, todo, doing, have, entryOf, funds, account>>

NotRead == -1
NothingOrdered == [left |-> 0, done |-> 0, rests |-> FALSE, told |-> FALSE]
NoScan == [held |-> {}, under |-> FALSE]

BasketInit ==
  /\ selected = <<>> /\ watched = {} /\ unseen = {} /\ scan = NoScan
  /\ todo = {} /\ doing = Nobody
  /\ have = [c \in Universe |-> 0] /\ entryOf = [c \in Universe |-> NothingOrdered]
  /\ funds = Allocation /\ account = NotRead

----------------------------------------------------------------------------
(* The ledger's view of all coins. *)

Entries == { c \in Universe : entryOf[c].left > 0 }
OpenBooks == { c \in Universe : have[c] > 0 } \cup Entries

\* A mutant: an entry counts when the exchange has answered for it.
ReservedWhenTold == SumFunctionOnSet([c \in Universe |-> IF entryOf[c].told THEN entryOf[c].left ELSE 0], Universe)

Reserved == SumFunctionOnSet([c \in Universe |-> entryOf[c].left], Universe)

Smaller(a, b) == IF a < b THEN a ELSE b

Held(mark) == SumFunctionOnSet([c \in Universe |-> have[c] * mark], Universe)

PortfolioRoom(mark) == ((funds + Held(mark)) * Percent) \div 100 - Held(mark) - Reserved

\* free_cash and the caps of _buy_cap: what the account has free, and the allocation and
\* its fraction without own, what the entry itself has reserved already.
Room(mark, own) == Smaller(account, Smaller(funds - Reserved, PortfolioRoom(mark)) + own)

----------------------------------------------------------------------------
(* The scan: what the market offers, fetched while the loop goes on.        *)

Rankings == { s \in SeqOf(Universe, Cardinality(Universe)) : IsInjective(s) }

Discover ==
  /\ ~scan.under /\ watched # {}
  /\ scan' = [held |-> OpenBooks, under |-> TRUE]
  /\ UNCHANGED <<selected, watched, unseen, todo, doing, have, entryOf, funds, account>>

Upto(s, n) == IF Len(s) > n THEN SubSeq(s, 1, n) ELSE s

\* Incumbents stay while they are eligible; ranking fills vacancies.
Retain(previous, ranked, known) ==
  LET eligible == SelectSeq(ranked, LAMBDA c : c \in known)
      stay == Upto(SelectSeq(previous, LAMBDA c : c \in ToSet(eligible)), BasketSize)
  IN Upto(stay \o SelectSeq(eligible, LAMBDA c : c \notin ToSet(stay)), BasketSize)

\* A mutant: the exposed coins are those of the time of the request.
WatchedThen(held, chosen, known) == { c \in ToSet(chosen) \cup held : c \in known }

\* Everything held or ordered stays watched, as far as it is known.
WatchedNow(held, chosen, known) == { c \in ToSet(chosen) \cup OpenBooks : c \in known }

\* The metadata of a candidate or of an exposed coin may be missing; what is watched
\* already is known.
BasketTakes(held, blind) ==
  \E ranked \in Rankings : \E known \in SUBSET (ToSet(ranked) \cup held) :
    LET chosen == Retain(selected, ranked, known)
    IN /\ selected' = chosen /\ watched' = WatchedNow(held, chosen, known \cup watched)
       /\ scan' = NoScan /\ unseen' = blind \ watched'

\* The loop applies a finished scan at the top of a turn.
ApplyScan ==
  /\ scan.under /\ todo = {} /\ doing = Nobody
  /\ BasketTakes(scan.held, unseen)
  /\ UNCHANGED <<todo, doing, have, entryOf, funds, account>>

\* The process dies, or is stopped: of this only the ledger is kept.
BasketDies ==
  /\ watched # {}
  /\ watched' = {} /\ unseen' = {} /\ scan' = NoScan /\ todo' = {} /\ doing' = Nobody
  /\ account' = NotRead
  /\ UNCHANGED <<selected, have, entryOf, funds>>

\* A start scans and applies at once, and goes on only with a market to watch.
BasketStarts ==
  /\ watched = {}
  /\ BasketTakes(OpenBooks, OpenBooks)
  /\ watched' # {}
  /\ UNCHANGED <<todo, doing, have, entryOf, funds, account>>

----------------------------------------------------------------------------
(* The turn of the loop. *)

Stale == account' = NotRead

\* What was executed is booked, and the account is to be read again.
BookEntry(c, left) ==
  /\ have' = [have EXCEPT ![c] = @ + entryOf[c].done]
  /\ funds' = funds - entryOf[c].done
  /\ entryOf' = [entryOf EXCEPT ![c] = IF left = 0 THEN NothingOrdered
                                       ELSE [@ EXCEPT !.left = left, !.done = 0, !.told = TRUE]]
  /\ Stale

\* reconcile() at the top of a turn.
Reported(c) ==
  /\ watched # {} /\ todo = {} /\ doing = Nobody
  /\ entryOf[c].done > 0
  /\ BookEntry(c, entryOf[c].left - entryOf[c].done)
  /\ UNCHANGED <<selected, watched, unseen, scan, todo, doing>>

\* refresh_account(): what other engines left free.
ReadAccount ==
  /\ watched # {} /\ todo = {} /\ doing = Nobody /\ account' \in 0..Allocation
  /\ UNCHANGED <<selected, watched, unseen, scan, todo, doing, have, entryOf, funds>>

BeginTurn ==
  /\ todo = {} /\ doing = Nobody /\ watched # {}
  /\ todo' = watched
  /\ UNCHANGED <<selected, watched, unseen, scan, doing, have, entryOf, funds, account>>

\* An error of the exchange's API ends the turn.
TurnFails ==
  /\ todo # {} /\ doing = Nobody /\ todo' = {} /\ Stale
  /\ UNCHANGED <<selected, watched, unseen, scan, doing, have, entryOf, funds>>

Drives(c) == c \in todo /\ doing = Nobody /\ todo' = todo \ {c}

DriveIdles(c) ==
  /\ Drives(c)
  /\ UNCHANGED <<selected, watched, unseen, scan, doing, have, entryOf, funds, account>>

\* One entry a coin, of a selected coin that is not wound down, within the books and the caps.
PlanEntry(c) ==
  /\ Drives(c) /\ doing' = c
  /\ account # NotRead /\ entryOf[c].left = 0 /\ c \in ToSet(selected)
  /\ c \in OpenBooks \/ Cardinality(OpenBooks) < MaxBooks
  /\ \E n \in 1..MaxEntry, mark \in {0, 1, 2} :
       /\ n <= Room(mark, 0) /\ have[c] + n <= MaxBook
       /\ entryOf' = [entryOf EXCEPT ![c] = [NothingOrdered EXCEPT !.left = n]]
  /\ UNCHANGED <<selected, watched, unseen, scan, have, funds, account>>

\* validate_intent, asked again when the request is about to go out.
StillValid(c, mark) ==
  /\ account # NotRead
  /\ entryOf[c].left <= Room(mark, entryOf[c].left)
  /\ have[c] + entryOf[c].left <= MaxBook
  /\ Cardinality(OpenBooks) <= MaxBooks

\* It is accepted or refused; the request or its answer may be lost.
SendEntry(c) ==
  /\ doing = c /\ doing' = Nobody
  /\ \E mark \in {0, 1, 2} : StillValid(c, mark)
  /\ \/ \E told \in BOOLEAN : entryOf' = [entryOf EXCEPT ![c].rests = TRUE, ![c].told = told]
     \/ entryOf' \in {entryOf, [entryOf EXCEPT ![c] = NothingOrdered]}
  /\ UNCHANGED <<selected, watched, unseen, scan, todo, have, funds, account>>

\* It is not valid any more, or its validation waited too long: it is not sent.
IntentExpires(c) ==
  /\ doing = c /\ doing' = Nobody /\ entryOf' = [entryOf EXCEPT ![c] = NothingOrdered]
  /\ UNCHANGED <<selected, watched, unseen, scan, todo, have, funds, account>>

\* An entry that was filled in part, is unwanted or over its caps is cancelled.
CancelEntry(c) ==
  /\ Drives(c) /\ entryOf[c].rests
  /\ BookEntry(c, 0)
  /\ UNCHANGED <<selected, watched, unseen, scan, doing>>

\* What is held is sold, at a gain or at a loss, after the entry is gone.
SellAll(c) ==
  /\ Drives(c) /\ have[c] > 0 /\ c \notin Entries
  /\ \E price \in {0, 1, 2} :
       funds' = funds + price * have[c] /\ funds' <= MaxFunds
  /\ have' = [have EXCEPT ![c] = 0] /\ Stale
  /\ UNCHANGED <<selected, watched, unseen, scan, doing, entryOf>>

----------------------------------------------------------------------------
(* The exchange, and time. *)

ExecuteEntry(c) ==
  /\ entryOf[c].rests /\ entryOf[c].done < entryOf[c].left
  /\ entryOf' = [entryOf EXCEPT ![c].done = @ + 1]
  /\ UNCHANGED <<selected, watched, unseen, scan, todo, doing, have, funds, account>>

\* The account grows old, or the private stream tells of another engine's order.
AccountAges ==
  /\ account # NotRead /\ Stale
  /\ UNCHANGED <<selected, watched, unseen, scan, todo, doing, have, entryOf, funds>>

BasketNext ==
  \/ Discover \/ ApplyScan \/ BasketDies \/ BasketStarts
  \/ ReadAccount \/ BeginTurn \/ TurnFails \/ AccountAges
  \/ \E c \in Universe :
       \/ Reported(c) \/ DriveIdles(c) \/ PlanEntry(c) \/ SendEntry(c) \/ IntentExpires(c)
       \/ CancelEntry(c) \/ SellAll(c) \/ ExecuteEntry(c)

BasketSpec == BasketInit /\ [][BasketNext]_basketVars

----------------------------------------------------------------------------
\* Only watched coins are driven: everything held or ordered is watched, whatever is
\* bought or dropped while a scan is under way, but for what a start could not see.
ExposedIsWatched == watched = {} \/ OpenBooks \subseteq watched \cup unseen

\* The allocation pays for every entry that may still be filled, and no more books are
\* open than configured, whatever the other engines do with the account and however old
\* its snapshot is.
EntriesPaid == Reserved <= funds /\ Cardinality(OpenBooks) <= MaxBooks

\* What the loop owes the coins together: none exposed goes undriven, none is bought
\* with cash or a place that another has.
BasketKept == ExposedIsWatched /\ EntriesPaid
=============================================================================
