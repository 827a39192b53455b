------------------------------- MODULE Strategy -------------------------------
(***************************************************************************)
(* The strategy of one book of the A/B engine (Strategy in                 *)
(* common/signal.py) and how the book carries out what it wants            *)
(* (Book.reconcile in common/cycle.py).  It reads the market once a second *)
(* and after every fill of ours.  What a reading says is a choice: whether *)
(* a dip may be bought and in what size, whether a bounce stalls or tops   *)
(* and how much of the position its gate lets go, whether the book is told *)
(* to leave or its own count says so, and what the price does to a sale    *)
(* under way.  Quantities are whole exchange steps, times are readings.    *)
(***************************************************************************)
EXTENDS Integers

CONSTANTS Unit,        \* a unit of the ladder
          Rungs,       \* max_units
          EntryLasts,  \* buy_ttl_s
          TakerAfter,  \* trim_taker_after_s
          ExitAfter    \* exit_after_s

ASSUME LadderAssumption == {Unit, Rungs, EntryLasts, TakerAfter, ExitAfter} \subseteq Nat \ {0}

VARIABLES
  held,   \* the position (pos_stats)
  arm,    \* what is being bought: size, filled so far, readings left
  pull,   \* what is being sold: down to a target, since when, as an exit or its floor
  mood,   \* the exit's own verdict, readings since the flag, the last position, the largest
  entry,  \* work["buy"]: rests at the exchange, and whether it was told to go
  sale,   \* work["trim"]
  market, \* a market sale whose fills are under way
  asked   \* the trim the last reading asked for

strategyABVars == <<held, arm, pull, mood, entry, sale, market, asked>>

Ladder == Rungs * Unit
NoArm == [size |-> 0, filled |-> 0, left |-> 0]
NoPull == [on |-> FALSE, target |-> 0, age |-> 0, exit |-> FALSE, floor |-> FALSE]
NoOrder == [rests |-> 0, ending |-> FALSE]
NoTrim == [n |-> 0, how |-> "maker"]
Staying == -1
Fresh == [verdict |-> FALSE, leaving |-> Staying, last |-> 0, most |-> 0]

StrategyABInit ==
  /\ held = 0 /\ arm = NoArm /\ pull = NoPull /\ mood = Fresh
  /\ entry = NoOrder /\ sale = NoOrder /\ market = 0 /\ asked = NoTrim

----------------------------------------------------------------------------
(* One reading with the position h, its buying side and its selling side: dip  *)
(* is the size a signal would buy, off whether the entry is withdrawn (blocked,*)
(* left behind, accelerating again), top how much a stall or a top would sell  *)
(* (0: its gate refuses; -1: there is none).                                   *)

Dips == { [dip |-> n, off |-> FALSE] : n \in {0, 1, Unit} } \cup {[dip |-> 0, off |-> TRUE]}

Tops(h) ==
  [top : {n \in {-1, 0, 1, h} : n <= h}, lead : {"stay", "told", "verdict"},
   tape : {"calm", "under", "slips", "adverse"}]

\* A mutant: the ladder is counted in the units already held.
FitsCountingUnits(h, n) == h \div Unit < Rungs

\* caps_why: the caps count quantity.
Fits(h, n) == h + n <= Ladder

\* The entry after a reading: a completed one frees the signal, a new one is armed
\* within the caps, and an old one is held to them, its time and its tape.
ArmAfter(r, h, a) ==
  LET kept == IF a.filled >= a.size THEN NoArm ELSE a
      armed == IF kept = NoArm /\ r.dip > 0 /\ Fits(h, r.dip)
               THEN [size |-> r.dip, filled |-> 0, left |-> EntryLasts] ELSE kept
  IN IF r.off \/ armed.left = 0 \/ ~Fits(h, armed.size - armed.filled) THEN NoArm ELSE armed

\* What was sold is sold; what was bought meanwhile is not the pull's.
Standing(p, h, last) == IF p.on /\ (h <= p.target \/ h > last) THEN NoPull ELSE p

Pulled(r, h, p) ==
  IF r.top > 0 /\ ~p.on THEN [NoPull EXCEPT !.on = TRUE, !.target = h - r.top] ELSE p

ExitPull(age, floor) == [on |-> TRUE, target |-> 0, age |-> age, exit |-> TRUE, floor |-> floor]

\* A mutant: an exit that rests as a maker's order is left to its own time.
LeavesOnce(r, p, since) ==
  IF p.on /\ p.exit THEN p
  ELSE IF r.top >= 0 THEN ExitPull(0, FALSE)
  ELSE IF since >= ExitAfter \/ r.tape = "adverse" THEN ExitPull(TakerAfter, TRUE) ELSE p

\* Leaving sells everything into the next turn, and takes when none comes in time.
Leaves(r, p, since) ==
  IF r.top >= 0 /\ ~p.exit THEN ExitPull(0, FALSE)
  ELSE IF (since >= ExitAfter \/ r.tape = "adverse") /\ ~p.floor THEN ExitPull(TakerAfter, TRUE) ELSE p

\* A sale under its gate is dropped; an exit has none.
PullGated(r, p) == IF r.tape = "under" /\ ~p.exit THEN NoPull ELSE p

\* The standing target of a rising coin: half of the campaign's largest position.
BlowOff(h, most) == IF h > most - most \div 2 THEN h - (most - most \div 2) ELSE 0

Trim(r, h, p, most) ==
  IF p.on
  THEN [n |-> h - p.target, how |-> IF p.age >= TakerAfter \/ r.tape = "slips" THEN "taker" ELSE "maker"]
  ELSE [n |-> BlowOff(h, most), how |-> "maker"]

\* What the strategy decides to sell of the position h, the pull p and the mood m.
DecidesPull(r, h, p, m) ==
  LET verdict == m.verdict \/ r.lead = "verdict"
      leaving == verdict \/ r.lead = "told"
      since == IF ~leaving THEN Staying ELSE IF m.leaving = Staying THEN 0 ELSE m.leaving
      most == IF m.most > h THEN m.most ELSE h
      lot == Pulled(r, h, Standing(p, h, m.last))
      all == IF leaving THEN Leaves(r, lot, since) ELSE IF lot.exit THEN NoPull ELSE lot
      now == PullGated(r, all)
  IN [pull |-> now, trim |-> Trim(r, h, now, most),
      mood |-> [verdict |-> verdict, leaving |-> since, last |-> h, most |-> most]]

\* A flat book sells nothing, and the next campaign starts without a verdict.
Sales(h, p, m) ==
  IF h = 0 THEN {[pull |-> NoPull, trim |-> NoTrim, mood |-> Fresh]}
  ELSE { DecidesPull(r, h, p, m) : r \in Tops(h) }

----------------------------------------------------------------------------
(* Book.reconcile: one order a role; it is replaced only when it is gone.   *)

Cancel(o) == [o EXCEPT !.ending = TRUE]

\* The same order stays; another is told to go, now or at a later reading.
Maker(o, n) ==
  CASE o.ending -> {o}
    [] ~o.ending /\ o.rests > 0 -> IF n = 0 THEN {Cancel(o)} ELSE {o, Cancel(o)}
    [] OTHER -> {o, [NoOrder EXCEPT !.rests = n]}

\* A market sale waits until the resting one is gone, and until the last is settled.
Takes(o, m, n) ==
  IF o.rests > 0 THEN <<Cancel(o), m>> ELSE <<o, IF m = 0 THEN n ELSE m>>

\* An entry the exchange refuses to take disarms the signal.
Reconciles(a, d, e, s, m) ==
  /\ \/ arm' = a /\ entry' \in Maker(e, a.size - a.filled)
     \/ a # NoArm /\ e = NoOrder /\ arm' = NoArm /\ entry' = e
  /\ IF d.trim.how = "taker"
     THEN \E t \in {Takes(s, m, d.trim.n)} : sale' = t[1] /\ market' = t[2]
     ELSE sale' \in Maker(s, d.trim.n) /\ market' = m

\* Book.tick: the signals, the position h, what is remembered, the orders that work.
Ticks(signals, h, a, p, m, e, s, k) ==
  \E b \in { ArmAfter(r, h, a) : r \in signals }, d \in Sales(h, p, m) :
    /\ held' = h /\ pull' = d.pull /\ mood' = d.mood /\ asked' = d.trim
    /\ Reconciles(b, d, e, s, k)

Older(n, bound) == IF n \in 0..(bound - 1) THEN n + 1 ELSE n

\* A second has passed; the fills of a market sale were told within it.
Second ==
  /\ market = 0
  /\ Ticks(Dips, held,
           IF arm = NoArm THEN arm ELSE [arm EXCEPT !.left = @ - 1],
           IF pull.on THEN [pull EXCEPT !.age = Older(@, TakerAfter)] ELSE pull,
           [mood EXCEPT !.leaving = Older(@, ExitAfter)], entry, sale, market)

\* Book.on_fill: the fill is booked and the strategy asked again, without a signal.
AfterFill(h, a, e, s, k) ==
  Ticks({r \in Dips : r.dip = 0}, h, a, pull, mood, e, s, k)

Less(o) == IF o.rests = 1 THEN NoOrder ELSE [o EXCEPT !.rests = @ - 1]

EntryFillTold ==
  /\ entry.rests > 0
  /\ AfterFill(held + 1, IF arm = NoArm THEN arm ELSE [arm EXCEPT !.filled = @ + 1], Less(entry), sale, market)

SaleFillTold == sale.rests > 0 /\ held > 0 /\ AfterFill(held - 1, arm, entry, Less(sale), market)

MarketFillTold == market > 0 /\ held > 0 /\ AfterFill(held - 1, arm, entry, sale, market - 1)

\* The exchange ended an order: our cancel, or its own of a post-only order.
EntryGone == entry.rests > 0 /\ entry' = NoOrder /\ UNCHANGED <<held, arm, pull, mood, sale, market, asked>>

SaleGone == sale.rests > 0 /\ sale' = NoOrder /\ UNCHANGED <<held, arm, pull, mood, entry, market, asked>>

\* on_stop_hit: the position is gone with the sales of it, the entry is told to go,
\* and the strategy is not asked until the next fill or second.
StopHits ==
  /\ held > 0 /\ held' = 0
  /\ sale' = NoOrder /\ market' = 0
  /\ entry' = IF entry.rests > 0 THEN Cancel(entry) ELSE entry
  /\ UNCHANGED <<arm, pull, mood, asked>>

\* A restart: of the strategy only what the campaign's geometry needs is loaded; the
\* exchange's list of orders gives those that work back to the book.
StrategyRestarts ==
  /\ arm' = NoArm /\ pull' = NoPull /\ asked' = NoTrim
  /\ mood' = [Fresh EXCEPT !.most = IF held > 0 THEN mood.most ELSE 0]
  /\ UNCHANGED <<held, entry, sale, market>>

StrategyABNext ==
  \/ Second \/ EntryFillTold \/ SaleFillTold \/ MarketFillTold \/ EntryGone \/ SaleGone
  \/ StopHits \/ StrategyRestarts

StrategyABSpec == StrategyABInit /\ [][StrategyABNext]_strategyABVars

----------------------------------------------------------------------------
\* Whatever fills late, is withdrawn, refused, armed again, stopped out or forgotten by
\* a restart: what is held and what may still be bought fit the ladder.
EntriesWithinLadder == held + entry.rests <= Ladder

\* An exit whose time is over rests as a maker's order for one reading at most: at
\* the next everything held is taken to the market, whatever turned, was bought or
\* was sold in between.
LateExitIsTaken ==
  [][Second /\ mood.leaving = ExitAfter /\ pull.exit /\ mood'.leaving # Staying
       => asked' = [n |-> held, how |-> "taker"]]_strategyABVars
=============================================================================
