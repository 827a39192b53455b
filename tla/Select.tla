------------------------------- MODULE Select --------------------------------
(***************************************************************************)
(* Track A's basket (track_a/select.py): main books that share a pool of    *)
(* the wallet over select.n slots, and a probe book beside them.  A scan    *)
(* loads params, reads the universe for more than a minute, decides on what *)
(* it loaded and writes params back, then its own state; the owner edits    *)
(* params meanwhile and the job may die between the two writes.  What a     *)
(* scan finds is a choice: a flag, a chance to enter, live evidence, which  *)
(* engines are flat, and which candidates score best.                       *)
(***************************************************************************)
EXTENDS Integers, FiniteSetsExt, Functions

CONSTANTS
  Symbols,
  ClusterOf,     \* driver cluster of each symbol, as the scan finds it
  PerCluster,    \* select.per_cluster
  SlotCounts,    \* select.n as the owner may set it
  Wallet,        \* the wallet, in parts: a millionth each, as shares are rounded
  ProbePart,     \* select.probe of the wallet
  LeadPart,      \* select.lead of the main pool
  Proofs,        \* select.confirm
  PerDay,        \* select.max_per_day
  MaxEdits, MaxLosses   \* bounds: edits of the owner, deaths between the writes

ASSUME SelectAssumption ==
  /\ IsFiniteSet(Symbols) /\ ClusterOf \in [Symbols -> STRING]
  /\ SlotCounts \subseteq Nat \ {0} /\ {PerCluster, Proofs, PerDay} \subseteq Nat \ {0}
  /\ {Wallet, ProbePart, LeadPart, MaxEdits, MaxLosses} \subseteq Nat
  /\ LeadPart <= Wallet - ProbePart /\ ProbePart <= Wallet

VARIABLES
  slots,      \* params.select.n
  basket,     \* params.books: symbol -> [probe, promote, leave, share]
  loaded,     \* the n this scan decides with, 0 between scans
  selectState,    \* select-state.json
  due,        \* symbols set aside whose time is not over, on file or not
  forgot,     \* those of which the job died before it put that on file
  edits, losses

asideVars == <<due, forgot>>
selectVars == <<slots, basket, loaded, selectState, asideVars, edits, losses>>

MainBook == [probe |-> FALSE, promote |-> FALSE, leave |-> "no", share |-> 0]
ProbeBook == [MainBook EXCEPT !.probe = TRUE]

Zero == [s \in Symbols |-> 0]

\* A streak, as far as it is told apart.
Counted(n) == IF n < Proofs THEN n + 1 ELSE n

\* The first run makes the running symbol book one.
SelectInit ==
  /\ slots \in SlotCounts /\ loaded = 0 /\ edits = 0 /\ losses = 0 /\ due = {} /\ forgot = {}
  /\ \E s \in Symbols : basket = [x \in {s} |-> MainBook]
  /\ selectState = [streak |-> Zero, pstreak |-> Zero, evict |-> Zero, opens |-> 0, cool |-> {}]

Mains(books) == {s \in DOMAIN books : ~books[s].probe}
Probes(books) == DOMAIN books \ Mains(books)
IsLeaving(books, s) == books[s].leave # "no"
ActiveMains == {s \in Mains(basket) : ~IsLeaving(basket, s)}

----------------------------------------------------------------------------
(* What a scan finds.  n: cycles seen, none, half of min_cycles or enough;   *)
(* edge: net per hour, edges that differ being sigma standard errors apart.  *)

NoEvidence == [n |-> "none", edge |-> 0]
Absent == [row |-> "absent", ev |-> NoEvidence]
Usual == [row |-> "entry", ev |-> [n |-> "full", edge |-> 0]]

Findings ==
  {Absent, Usual, [row |-> "flagged", ev |-> NoEvidence], [row |-> "closed", ev |-> NoEvidence]}
  \union [row : {"entry"}, ev : {NoEvidence, [n |-> "half", edge |-> 0]} \union [n : {"full"}, edge : {-1, 1}]]

\* Bound: a scan finds one symbol in any way, the others as usual.
SelectScans == {[s \in Symbols |-> IF s = x THEN f ELSE Usual] : x \in Symbols, f \in Findings}

HasFull(rows, s) == rows[s].ev.n = "full"
HasHalf(rows, s) == rows[s].ev.n \in {"half", "full"}
Edge(rows, s) == rows[s].ev.edge

\* The weakest k of a set; ties fall by name.
Weakest(rows, S, k) ==
  {T \in kSubset(k, S) : \A t \in T, s \in S \ T : Edge(rows, t) <= Edge(rows, s)}

\* As many of S as there is room for; which come first is a choice.
Foremost(S, room) ==
  IF room <= 0 THEN {{}} ELSE IF room >= Cardinality(S) THEN {S} ELSE kSubset(room, S)

----------------------------------------------------------------------------
(* verdict                                                                   *)

Flagged(rows) == {s \in DOMAIN basket : rows[s].row = "flagged"}

\* A main book that loses on its own ledger, confirmed over scans.
LosesLive(rows, s) == s \in ActiveMains /\ HasFull(rows, s) /\ Edge(rows, s) < 0
EvictStreak(rows, s) == IF LosesLive(rows, s) THEN Counted(selectState.evict[s]) ELSE 0
Evicted(rows) ==
  {s \in ActiveMains : EvictStreak(rows, s) >= Proofs} \ Flagged(rows)

\* More books stay than there are slots: the weakest measured ones go too.
Surplus(rows) ==
  LET staying == ActiveMains \ (Flagged(rows) \union Evicted(rows))
      weak == {s \in staying : HasHalf(rows, s)}
      over == Cardinality(staying) - loaded
  IN IF over <= 0 THEN {{}}
     ELSE IF over >= Cardinality(weak) THEN {weak} ELSE Weakest(rows, weak, over)

\* A probe is measured against the weakest main book: it takes that book's place,
\* or ends, or waits.  aged: select.probe_days have passed.
Trials(rows, aged) ==
  LET probe == {s \in Probes(basket) \ Flagged(rows) :
                  ~IsLeaving(basket, s) /\ ~basket[s].promote}
      measured == {s \in ActiveMains \ Flagged(rows) : HasFull(rows, s)}
      ready == {s \in probe : HasFull(rows, s) \/ (aged /\ HasHalf(rows, s))}
  IN IF ready # {} /\ measured # {}
     THEN {IF \E s \in ready, w \in W : Edge(rows, s) > Edge(rows, w)
           THEN [up |-> ready, out |-> W, end |-> {}]
           ELSE [up |-> {}, out |-> {}, end |-> ready] : W \in Weakest(rows, measured, 1)}
     ELSE {[up |-> {}, out |-> {}, end |-> IF aged THEN probe ELSE {}]}

HasRoom(leaving, cluster) ==
  Cardinality({m \in ActiveMains \ leaving : ClusterOf[m] = cluster}) < PerCluster

\* A mutant: a symbol that was set aside scores again at once.
CandidateSoon(rows, leaving) ==
  {s \in Symbols \ DOMAIN basket : rows[s].row = "entry" /\ HasRoom(leaving, ClusterOf[s])}

Candidate(rows, leaving) ==
  {s \in Symbols \ (DOMAIN basket \union selectState.cool) :
     rows[s].row = "entry" /\ HasRoom(leaving, ClusterOf[s])}

\* The main books and the probe to open: candidates that were foremost in
\* `confirm` scans, within the day's openings.
Openings(rows, leaving, ended) ==
  LET cand == Candidate(rows, leaving)
      left == PerDay - selectState.opens
      Count(count, top) == [s \in Symbols |-> IF s \in top THEN Counted(count[s]) ELSE 0]
      NextProbe(top) ==
        IF ProbePart = 0 \/ ended # {} \/ \E s \in Probes(basket) : ~IsLeaving(basket, s) THEN {{}}
        ELSE Foremost(cand \ top, 1)
  IN UNION {
       LET streak == Count(selectState.streak, top)
           sure == {s \in top : streak[s] >= Proofs}
       IN {LET pstreak == Count(selectState.pstreak, next)
           IN [streak |-> streak, pstreak |-> pstreak, adds |-> adds,
               probe |-> {s \in next : pstreak[s] >= Proofs /\ left > Cardinality(adds)}]
           : adds \in Foremost(sure, left), next \in NextProbe(top)}
       : top \in Foremost(cand, loaded - Cardinality(Mains(basket)))}

----------------------------------------------------------------------------
(* apply                                                                     *)

\* The flags on the books: a reason to leave, a promotion, a reason that passed.
Marked(rows, out, trial) ==
  [s \in DOMAIN basket |->
     LET b == basket[s]
         leave == IF b.leave = "no"
                  THEN (IF s \in Flagged(rows) THEN "wind"
                        ELSE IF s \in out THEN "evicted"
                        ELSE IF s \in trial.end THEN "ended" ELSE "no")
                  ELSE IF b.leave = "wind" /\ rows[s].row \in {"entry", "closed"} THEN "no" ELSE b.leave
     IN [b EXCEPT !.leave = leave, !.promote = @ \/ s \in trial.up]]

\* Flat leavers go; the last book stays unless another opens.
Dropped(books, flats, opening) ==
  IF flats = DOMAIN books /\ opening = {} THEN {flats \ {s} : s \in flats} ELSE {flats}

\* A promoted probe takes a free slot, then come the new books.
Filled(books, adds, probe) ==
  LET free == loaded - Cardinality(Mains(books))
      raised == {s \in Probes(books) : books[s].promote /\ free > 0}
      settled == [s \in DOMAIN books |->
                    IF s \in raised THEN [books[s] EXCEPT !.probe = FALSE, !.promote = FALSE] ELSE books[s]]
      begun == IF Probes(settled) = {} THEN probe ELSE {}
  IN {[s \in DOMAIN books \union new \union begun |->
         IF s \in new THEN MainBook ELSE IF s \in begun THEN ProbeBook ELSE settled[s]]
      : new \in Foremost(adds, free - Cardinality(raised))}

\* leader_of: the one measured main book whose edge is above the runner-up's.
Leader(rows, books) ==
  LET m == {s \in Mains(books) : ~IsLeaving(books, s) /\ HasFull(rows, s)}
  IN IF Cardinality(m) < 2 THEN {}
     ELSE {s \in m : \A r \in m \ {s} : Edge(rows, s) > Edge(rows, r)}

\* round(), in parts.
Nearest(x, n) == (2 * x + n) \div (2 * n)

\* A mutant: the pool is shared over the main books that are not leaving.
SharesPresent(rows, books) ==
  LET present == Max({1, Cardinality({s \in Mains(books) : ~IsLeaving(books, s)})})
  IN [s \in DOMAIN books |->
        [books[s] EXCEPT !.share = IF books[s].probe THEN ProbePart ELSE Nearest(Wallet - ProbePart, present)]]

\* Shares: over the slots, not over the books present.
Shares(rows, books) ==
  LET n == Max({loaded, Cardinality(Mains(books))})
      pool == Wallet - ProbePart
      lead == IF n > 1 THEN Leader(rows, books) ELSE {}
  IN [s \in DOMAIN books |->
        [books[s] EXCEPT !.share =
           IF books[s].probe THEN ProbePart
           ELSE IF lead = {} THEN Nearest(pool, n)
           ELSE IF s \in lead THEN LeadPart ELSE Nearest(pool - LeadPart, n - 1)]]

----------------------------------------------------------------------------
(* A turn of the job.                                                        *)

Loads == loaded = 0 /\ loaded' = slots /\ UNCHANGED <<slots, basket, selectState, asideVars, edits, losses>>

\* What a scan ends with: the books, whom it sets aside, and the state if the job lives
\* to save it.
Settlements(rows) ==
  UNION {
    LET out == Evicted(rows) \union surplus \union trial.out
        marked == Marked(rows, out, trial)
        leavers == {s \in DOMAIN marked : IsLeaving(marked, s)}
    IN UNION {
      LET opening == o.adds \union o.probe
      IN UNION {
        {LET new == DOMAIN filled \ DOMAIN marked
             aside == {s \in gone : marked[s].leave # "wind"}
         IN [books |-> Shares(rows, filled), aside |-> aside,
             state |->
               [streak |-> IF new = {} THEN o.streak ELSE Zero,
                pstreak |-> IF new = {} THEN o.pstreak ELSE Zero,
                evict |-> [s \in Symbols |-> EvictStreak(rows, s)],
                opens |-> selectState.opens + Cardinality(new),
                cool |-> selectState.cool \union aside]]
         : filled \in Filled(Restrict(marked, DOMAIN marked \ gone), o.adds, o.probe)}
        : gone \in UNION {Dropped(marked, flats, opening) : flats \in SUBSET leavers}}
      : o \in Openings(rows, Flagged(rows) \union out, trial.end)}
    : surplus \in Surplus(rows), trial \in UNION {Trials(rows, aged) : aged \in BOOLEAN}}

Found == UNION {Settlements(rows) : rows \in SelectScans}

\* params are written whole, from what was loaded before the scan; not at all
\* when the scan changed nothing.
WritesParams(books) ==
  /\ loaded' = 0 /\ basket' = books
  /\ slots' = loaded \/ (books = basket /\ slots' = slots)

Keeps(after) == selectState' = after.state /\ forgot' = forgot \ after.aside /\ UNCHANGED losses

\* The job dies after params are written and before its state is.
Dies(after) ==
  /\ losses < MaxLosses /\ losses' = losses + 1
  /\ forgot' = forgot \union after.aside /\ UNCHANGED selectState

SettlesScan ==
  /\ loaded # 0
  /\ \E after \in Found :
       /\ WritesParams(after.books) /\ due' = due \union after.aside
       /\ Keeps(after) \/ Dies(after)
  /\ UNCHANGED edits

OwnerEdits ==
  /\ edits < MaxEdits /\ edits' = edits + 1
  /\ \E n \in SlotCounts \ {slots} : slots' = n
  /\ UNCHANGED <<basket, loaded, selectState, asideVars, losses>>

DayTurns == selectState.opens > 0 /\ loaded = 0 /\ selectState' = [selectState EXCEPT !.opens = 0]
            /\ UNCHANGED <<slots, basket, loaded, asideVars, edits, losses>>

CoolingEnds(s) ==
  /\ s \in due /\ due' = due \ {s} /\ forgot' = forgot \ {s}
  /\ loaded = 0 /\ selectState' = [selectState EXCEPT !.cool = @ \ {s}]
  /\ UNCHANGED <<slots, basket, loaded, edits, losses>>

SelectNext ==
  Loads \/ SettlesScan \/ OwnerEdits \/ DayTurns \/ \E s \in Symbols : CoolingEnds(s)

SelectSpec == SelectInit /\ [][SelectNext]_selectVars

----------------------------------------------------------------------------
(* Properties.                                                               *)

\* The basket is never empty and the shares of all its books, those leaving and the
\* probe included, never exceed one wallet by more than their rounding, half a part
\* each, while slots are edited, a probe is promoted, books are replaced and the job
\* dies between its writes.
WalletShared ==
  /\ DOMAIN basket # {} /\ Cardinality(Probes(basket)) <= 1
  /\ 2 * SumFunctionOnSet([s \in DOMAIN basket |-> basket[s].share], DOMAIN basket)
       <= 2 * Wallet + Cardinality(DOMAIN basket)

StaysOut(s) == s \in DOMAIN basket => IsLeaving(basket, s)

\* A symbol that was evicted, or whose probe ended, trades nothing new until its
\* cooldown is over, but for one of which the job died before it wrote that down.
SetAside == \A s \in due \ forgot : StaysOut(s)

\* What a scan may leave on file, in params and in the state beside them.
BasketShared == WalletShared /\ SetAside

----------------------------------------------------------------------------
(* What the documentation says and the code does not keep.                   *)

\* "never a symbol still in its cooldown after an eviction or a finished probe".
NeverWhileCooling == \A s \in due : StaysOut(s)
=============================================================================
