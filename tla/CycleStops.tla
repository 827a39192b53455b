------------------------------ MODULE CycleStops ------------------------------
(***************************************************************************)
(* How a live book of the A/B engine tells its own stop from a close by    *)
(* hand (Book in common/cycle.py).  A fill of a stop carries the id of its *)
(* plan; the plans are told by another channel, which may be behind.  A    *)
(* close whose plan the book does not know waits in a list until the plan  *)
(* is named, a stop hit, or until it never was, which halts the book.  The *)
(* consumer and housekeeping both go through that list and await a cancel  *)
(* at each hit.  Every fill is one unit; orders are CycleSlots' business.  *)
(***************************************************************************)
EXTENDS Integers, Sequences, SequencesExt, FiniteSets

CONSTANTS MaxUnits,    \* the largest position
          MaxEntries,  \* bound on entry fills
          MaxHands,    \* bound on closes by hand
          MaxPlans     \* bound on stop plans

ASSUME StopsAssumption == {MaxUnits, MaxEntries, MaxHands, MaxPlans} \subseteq Nat

Plans == 1..MaxPlans
Hand == 0
Keepers == {"consumer", "housekeeping"}

VARIABLES
  lots,       \* units in the lots
  stop,       \* the position's stop the book knows; 0 for none
  preset,     \* the stop that came with the first entry
  named,      \* plans the algo channel told of (stop_oids)
  hit,        \* plans whose hit was counted (stop_hit_oids)
  hits,       \* stops of the day
  unmatched,  \* closes of an unknown order
  pass,       \* a pass of settle_close_fills of each task
  bookHalted,
  position,   \* the exchange
  plans,      \* the exchange: kind and state of each plan
  fills,      \* the fill channel: entries, trims and the plans of closes
  algo,       \* the algo channel
  count,      \* entries and closes by hand so far, closes that were listed
  settled,     \* listed closes that were booked
  twice       \* a listed close was booked twice, or dropped

stopVars == <<lots, stop, preset, named, hit, hits, unmatched, pass, bookHalted,
              position, plans, fills, algo, count, settled, twice>>

NoPass == [at |-> "out", list |-> <<>>, keep |-> <<>>, same |-> FALSE]
NoPlan == [kind |-> "none", st |-> "none"]

StopsInit ==
  /\ lots = 0 /\ stop = 0 /\ preset = 0 /\ named = {} /\ hit = {} /\ hits = 0
  /\ unmatched = <<>> /\ pass = [t \in Keepers |-> NoPass] /\ bookHalted = FALSE
  /\ position = 0 /\ plans = [p \in Plans |-> NoPlan]
  /\ fills = <<>> /\ algo = <<>>
  /\ count = [entries |-> 0, hands |-> 0, listed |-> 0]
  /\ settled = {} /\ twice = FALSE

Venue == <<position, plans, fills, algo>>
Marks == <<named, hit, hits, settled, twice>>

----------------------------------------------------------------------------
(* The exchange.                                                           *)

\* Plans end with the position.
After(ps, q) ==
  IF q > 0 THEN ps
  ELSE [p \in Plans |-> IF ps[p].st = "live" THEN [ps[p] EXCEPT !.st = "gone"] ELSE ps[p]]

Says(before, after) ==
  algo' = algo \o SetToSeq({[plan |-> p, ev |-> after[p].st] : p \in {r \in Plans : before[r] # after[r]}})

BookOnly == UNCHANGED <<lots, stop, preset, unmatched, pass, bookHalted, Marks>>

\* The first order of a campaign brings its own stop.
UnitBought ==
  /\ count.entries < MaxEntries /\ position < MaxUnits
  /\ count' = [count EXCEPT !.entries = @ + 1]
  /\ position' = position + 1 /\ fills' = Append(fills, [kind |-> "entry", plan |-> 0])
  /\ \/ UNCHANGED plans
     \/ /\ position = 0
        /\ \E p \in Plans : /\ plans[p] = NoPlan /\ \A r \in Plans : r < p => plans[r] # NoPlan
                            /\ plans' = [plans EXCEPT ![p] = [kind |-> "preset", st |-> "live"]]
  /\ Says(plans, plans') /\ BookOnly

Closes(n, kind, plan, ps) ==
  /\ position' = position - n
  /\ fills' = fills \o [k \in 1..n |-> [kind |-> kind, plan |-> plan]]
  /\ plans' = After(ps, position - n) /\ Says(plans, plans')
  /\ BookOnly

TrimFills == position > 0 /\ Closes(1, "trim", 0, plans) /\ UNCHANGED count

HandCloses ==
  /\ position > 0 /\ count.hands < MaxHands
  /\ count' = [count EXCEPT !.hands = @ + 1]
  /\ Closes(1, "close", Hand, plans)

\* The preset's quantity is the first unit, a position stop closes everything.
Fires(p) ==
  /\ plans[p].st = "live" /\ position > 0
  /\ Closes(IF plans[p].kind = "preset" THEN 1 ELSE position, "close", p,
            [plans EXCEPT ![p].st = "fired"])
  /\ UNCHANGED count

----------------------------------------------------------------------------
(* Stops, set under a lock; what has no stop looks for one first.          *)

SetsStop ==
  /\ lots > 0 /\ stop = 0
  /\ LET there == {p \in Plans : plans[p] = [kind |-> "position", st |-> "live"]}
     IN IF there # {}
        THEN stop' \in there /\ UNCHANGED Venue
        ELSE /\ position > 0
             /\ \E p \in Plans :
                  /\ plans[p] = NoPlan /\ \A r \in Plans : r < p => plans[r] # NoPlan
                  /\ plans' = [plans EXCEPT ![p] = [kind |-> "position", st |-> "live"]]
                  /\ stop' \in {0, p}
             /\ Says(plans, plans') /\ UNCHANGED <<position, fills>>
  /\ UNCHANGED <<lots, preset, unmatched, pass, bookHalted, count, Marks>>

\* drop_preset, when the position's stop stands or nothing is held.
DropsPreset ==
  /\ preset # 0 /\ (lots = 0 \/ stop # 0)
  /\ plans[preset].st = "live"
  /\ plans' = [plans EXCEPT ![preset].st = "gone"] /\ Says(plans, plans')
  /\ preset' = 0
  /\ UNCHANGED <<lots, stop, unmatched, pass, bookHalted, position, fills, count, Marks>>

----------------------------------------------------------------------------
(* Fills.  on_stop_hit books one close and counts its order once.          *)

\* A pass that has begun goes on at once; one that awaits lets the other task go on.
HasTurn(t) == \A u \in Keepers \ {t} : pass[u].at # "begun"
Consumes == pass["consumer"].at = "out" /\ HasTurn("consumer")
Known(p) == p \in {stop, preset} \union named \union hit

Hits(p) ==
  /\ lots' = lots - 1 /\ stop' = 0
  /\ hits' = (IF p \in hit THEN hits ELSE hits + 1) /\ hit' = hit \union {p}

Lists(p) ==
  LET x == [plan |-> p, n |-> count.listed]
  IN /\ unmatched' = Append(unmatched, x)
     /\ count' = [count EXCEPT !.listed = @ + 1]
     /\ pass' = [t \in Keepers |-> IF pass[t].same THEN [pass[t] EXCEPT !.list = Append(@, x)] ELSE pass[t]]

StopFillPushed ==
  /\ Consumes /\ fills # <<>> /\ fills' = Tail(fills)
  /\ LET r == Head(fills)
     IN CASE r.kind = "entry" ->
               lots' = lots + 1 /\ UNCHANGED <<stop, hits, hit, unmatched, pass, bookHalted, count>>
          [] r.kind = "trim" ->
               lots' = (IF lots > 0 THEN lots - 1 ELSE 0)
               /\ UNCHANGED <<stop, hits, hit, unmatched, pass, bookHalted, count>>
          [] r.kind = "close" /\ lots = 0 ->
               bookHalted' = TRUE /\ UNCHANGED <<lots, stop, hits, hit, unmatched, pass, count>>
          [] r.kind = "close" /\ lots > 0 /\ r.plan # Hand /\ Known(r.plan) ->
               Hits(r.plan) /\ UNCHANGED <<unmatched, pass, bookHalted, count>>
          [] OTHER -> Lists(r.plan) /\ UNCHANGED <<lots, stop, hits, hit, bookHalted>>
  /\ UNCHANGED <<preset, named, settled, twice, position, plans, algo>>

\* A mutant: any close is a stop's while a plan is known to have fired.
IsNamedLately(x) == named # {}

IsNamed(x) == x.plan \in named

\* settle_close_fills: up to the next close of a named plan, booked before an await;
\* the list is replaced at the end.  A close by hand is given up in time.  A close
\* booked when no lot is left raises, and the list stays.
Begins == [at |-> "begun", list |-> unmatched, keep |-> <<>>, same |-> TRUE]

Settles(t) ==
  LET r == pass[t]
      matched == {i \in DOMAIN r.list : IsNamed(r.list[i])}
      next == CHOOSE i \in matched : \A j \in matched : i <= j
      over == IF matched = {} THEN r.list ELSE SubSeq(r.list, 1, next - 1)
  IN /\ r.at # "out" /\ HasTurn(t)
     /\ \E late \in {FALSE, TRUE} :
          LET kept == IF late THEN SelectSeq(over, LAMBDA x : x.plan # Hand) ELSE over
              x == r.list[next]
          IN /\ bookHalted' = (bookHalted \/ kept # over)
             /\ IF matched = {}
                THEN /\ unmatched' = r.keep \o kept
                     /\ pass' = [u \in Keepers |-> IF u = t THEN NoPass ELSE [pass[u] EXCEPT !.same = FALSE]]
                     /\ twice' = (twice \/ ~r.same)
                     /\ UNCHANGED <<lots, stop, hits, hit, settled>>
                ELSE IF lots = 0
                THEN /\ pass' = [pass EXCEPT ![t] = NoPass]
                     /\ UNCHANGED <<unmatched, twice, lots, stop, hits, hit, settled>>
                ELSE /\ Hits(x.plan) /\ settled' = settled \union {x.n}
                     /\ twice' = (twice \/ x.n \in settled)
                     /\ pass' = [pass EXCEPT ![t] = [r EXCEPT !.at = "awaits", !.keep = @ \o kept,
                                                              !.list = SubSeq(@, next + 1, Len(@))]]
                     /\ UNCHANGED unmatched
     /\ UNCHANGED <<preset, named, Venue, count>>

HousekeepingSettles ==
  /\ pass["housekeeping"].at = "out" /\ HasTurn("housekeeping") /\ unmatched # <<>>
  /\ pass' = [pass EXCEPT !["housekeeping"] = Begins]
  /\ UNCHANGED <<lots, stop, preset, unmatched, bookHalted, count, Marks, Venue>>

AlgoPushed ==
  /\ Consumes /\ algo # <<>> /\ algo' = Tail(algo)
  /\ LET r == Head(algo)
         kind == plans[r.plan].kind
     IN /\ stop' = CASE kind = "position" /\ r.ev = "live" -> r.plan
                     [] kind = "position" /\ r.ev # "live" /\ stop = r.plan -> 0
                     [] OTHER -> stop
        /\ preset' = CASE kind = "preset" /\ r.ev = "live" -> r.plan
                       [] kind = "preset" /\ r.ev # "live" -> 0
                       [] OTHER -> preset
        /\ IF r.ev = "fired"
           THEN named' = named \union {r.plan} /\ pass' = [pass EXCEPT !["consumer"] = Begins]
           ELSE UNCHANGED <<named, pass>>
  /\ UNCHANGED <<lots, hit, hits, unmatched, bookHalted, position, plans, fills, count, settled, twice>>

StopsNext ==
  \/ UnitBought \/ TrimFills \/ HandCloses \/ \E p \in Plans : Fires(p)
  \/ SetsStop \/ DropsPreset \/ StopFillPushed \/ AlgoPushed \/ HousekeepingSettles
  \/ \E t \in Keepers : Settles(t)

StopsSpec == StopsInit /\ [][StopsNext]_stopVars

----------------------------------------------------------------------------
UnderWay(kinds) == Cardinality({i \in DOMAIN fills : fills[i].kind \in kinds})
Listed == {i \in DOMAIN unmatched : unmatched[i].n \notin settled}

\* The lots are the position but for the fills that are under way or listed.
LotsFollow ==
  lots + UnderWay({"entry"}) - UnderWay({"trim", "close"}) - Cardinality(Listed) = position

\* Unless the book is halted, or the passes of the two tasks crossed (twice: one booked a
\* listed close that the other had booked, or put back a list that had changed), its
\* lots follow the position; no close by hand was ever taken for a stop; and every stop
\* that closed something counts once, however many fills it came in.
ClosesClassified ==
  ~bookHalted /\ ~twice =>
    /\ LotsFollow
    /\ Cardinality({x \in Range(unmatched) : x.plan = Hand})
         + Cardinality({i \in DOMAIN fills : fills[i].kind = "close" /\ fills[i].plan = Hand})
         = count.hands
    /\ hits = Cardinality(hit)

----------------------------------------------------------------------------
(* What the documentation says and the code does not keep.                   *)

\* "Close fills whose order the book did not know: a stop hit once the algo channel
\* names their order": each leaves the lots once, whichever task settles it.
ClosesLeaveOnce == ~bookHalted => LotsFollow
=============================================================================
