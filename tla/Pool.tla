-------------------------------- MODULE Pool ---------------------------------
(***************************************************************************)
(* The capital pool of the basket (Pool in common/cycle.py): engine        *)
(* processes, one per symbol, reserve one of cap campaigns and its nominal *)
(* loss in a shared file.  The file changes only under an exclusive lock   *)
(* that is never stolen; an engine inside it does nothing else.  Leases    *)
(* and snapshots carry times of which only the order matters: whether a    *)
(* lease is old enough is a choice, and a flat snapshot is known to be     *)
(* newer than the lease or not.  What the signals and the exchange do is a *)
(* choice; a campaign loses at most its nominal Risk.                      *)
(***************************************************************************)
EXTENDS Integers, FiniteSetsExt, Functions

CONSTANTS Engines, Free, Orphan,  \* the lock's values besides an engine
          Caps,                   \* how many campaigns at once (hunt.pool)
          Risk,                   \* the nominal loss of a campaign
          Limit,                  \* the loss of a day
          MaxGain                 \* bound on what a day gains

ASSUME PoolAssumption ==
  /\ IsFiniteSet(Engines) /\ Free # Orphan /\ Engines \intersect {Free, Orphan} = {}
  /\ Caps \union {Risk, Limit} \subseteq Nat \ {0} /\ MaxGain \in Nat

VARIABLES
  cap,      \* the pool's size
  lock,     \* the lock file: Free, its holder, or Orphan when the holder died
  inside,   \* an engine inside the lock: its call and what it will write
  claims,   \* pool.json: "no", "leased" or "rebuilt" (an exposure found without claim)
  engine,   \* "down", "flat", "armed", "resting", "held", "foreign"
  mine,     \* the engine believes it holds a claim
  atExchange, \* "none", "resting" entry or "held" position
  snapshot, \* the engine's state file: "flat" when newer than its lease, "stale" when
            \* flat but older, else "armed", "held" or "foreign"
  lost,     \* the day's realized loss in the shared ledger
  left,     \* what an open campaign may still lose
  stray,    \* engines that gave up an order which may yet fill, unclaimed
  carried   \* a day ended with a gain while what it backed was still reserved

poolVars == <<cap, lock, inside, claims, engine, mine, atExchange, snapshot, lost, left, stray, carried>>

NoClaims == [e \in Engines |-> "no"]
Outside == [call |-> "none", plan |-> NoClaims, ok |-> FALSE]

PoolInit ==
  /\ cap \in Caps
  /\ lock = Free /\ inside = [e \in Engines |-> Outside]
  /\ claims = NoClaims
  /\ engine = [e \in Engines |-> "flat"] /\ mine = [e \in Engines |-> FALSE]
  /\ atExchange = [e \in Engines |-> "none"]
  /\ snapshot = [e \in Engines |-> "stale"]
  /\ lost = 0 /\ left = [e \in Engines |-> 0] /\ stray = {} /\ carried = FALSE

Up(e) == engine[e] # "down" /\ inside[e].call = "none"
Claimed(c) == {e \in Engines : c[e] # "no"}
World == <<cap, atExchange, lost, left, stray, carried>>

----------------------------------------------------------------------------
(* The calls: one step to take the lock and read, one to write and leave.    *)
(* (Nobody else writes between taking and reading, so the later of the two   *)
(* stands for both.)                                                         *)

Occupied(s) == snapshot[s] \in {"armed", "held", "foreign"}

\* A mutant: any flat snapshot is a proof, however old.
FlatEver(s) == ~Occupied(s)

FlatProven(s) == snapshot[s] = "flat"

\* _sweep: exposure without a claim gets one; some old claims are given up.  The
\* position of a foreign book counts only while the snapshot is recent.
Swept(e) ==
  LET unclaimed == {s \in Engines \ Claimed(claims) : Occupied(s)}
      sure == {s \in unclaimed : snapshot[s] # "foreign"}
  IN {[s \in Engines |-> IF s \in found THEN "rebuilt" ELSE IF s \in dropped THEN "no" ELSE claims[s]] :
        found \in {sure, unclaimed},
        dropped \in SUBSET {s \in Claimed(claims) \ {e} : FlatProven(s)}}

\* A mutant: what the others reserve is not lost yet.
AffordsAlone(others) == lost + Risk <= Limit

Affords(others) == lost + Cardinality(others) * Risk + Risk <= Limit

MayClaim(e, swept) ==
  /\ lost < Limit
  /\ e \in Claimed(swept) \/ Cardinality(Claimed(swept)) < cap
  /\ \A s \in Engines \ {e} : swept[s] # "rebuilt"
  /\ Affords(Claimed(swept) \ {e})

\* Only one engine at a time, and whoever holds the lock keeps it.
Enters(e, call, plan, ok) ==
  /\ lock = Free /\ lock' = e
  /\ inside' = [inside EXCEPT ![e] = [call |-> call, plan |-> plan, ok |-> ok]]
  /\ UNCHANGED <<claims, engine, mine, World>>

\* claim comes with the first unit of a flat book that is not armed.
\* Bound: not while an order that was given up is still about.
Claim(e) ==
  /\ Up(e) /\ engine[e] = "flat" /\ atExchange[e] = "none"
  /\ \E swept \in Swept(e) :
       IF MayClaim(e, swept) THEN Enters(e, "claim", [swept EXCEPT ![e] = "leased"], TRUE)
       ELSE Enters(e, "claim", swept, FALSE)
  /\ UNCHANGED snapshot

Positioned(e) == engine[e] = "held"
Armed(e) == engine[e] \in {"armed", "resting"}

\* tend
Adopt(e) ==
  /\ Up(e) /\ Positioned(e) /\ ~mine[e]
  /\ \E swept \in Swept(e) : Enters(e, "adopt", [swept EXCEPT ![e] = "leased"], TRUE)
  /\ UNCHANGED snapshot

Refresh(e) ==
  /\ Up(e) /\ (Positioned(e) \/ Armed(e)) /\ mine[e]
  /\ Enters(e, "refresh", [claims EXCEPT ![e] = "leased"], TRUE)
  /\ UNCHANGED snapshot

\* The flat state is published before the claim goes.
Release(e) ==
  /\ Up(e) /\ engine[e] = "flat" /\ mine[e]
  /\ Enters(e, "release", [claims EXCEPT ![e] = "no"], FALSE)
  /\ snapshot' = [snapshot EXCEPT ![e] = "flat"]

\* The file is replaced at once, a lease written now being newer than any snapshot,
\* and the engine acts in the same turn on what the call returns.  (A death after
\* the replacement leaves no more than one before it and one after it leave.)
Writes(e) ==
  /\ inside[e].call # "none"
  /\ claims' = inside[e].plan
  /\ snapshot' = [s \in Engines |->
       IF s = e /\ inside[e].ok /\ snapshot[s] = "flat" THEN "stale" ELSE snapshot[s]]
  /\ lock' = Free /\ inside' = [inside EXCEPT ![e] = Outside]
  /\ mine' = [mine EXCEPT ![e] = IF inside[e].call = "release" THEN FALSE ELSE @ \/ inside[e].ok]
  /\ IF inside[e].call = "claim" /\ inside[e].ok
     THEN engine' = [engine EXCEPT ![e] = "armed"] /\ left' = [left EXCEPT ![e] = Risk]
     ELSE UNCHANGED <<engine, left>>
  /\ UNCHANGED <<cap, atExchange, lost, stray, carried>>

Call(e) == Claim(e) \/ Adopt(e) \/ Refresh(e) \/ Release(e) \/ Writes(e)

----------------------------------------------------------------------------
(* The engine's campaign between two calls.                                *)

Moves(e, st, ex) ==
  /\ engine' = [engine EXCEPT ![e] = st] /\ atExchange' = [atExchange EXCEPT ![e] = ex]
  /\ left' = IF ex = "none" /\ st # "armed" THEN [left EXCEPT ![e] = 0] ELSE left
  /\ UNCHANGED <<cap, lock, inside, claims, mine, snapshot, stray, carried>>

In(e, st, ex) == Up(e) /\ engine[e] = st /\ atExchange[e] = ex

Rests(e) == In(e, "armed", "none") /\ Moves(e, "resting", "resting") /\ UNCHANGED lost
Disarms(e) == In(e, "armed", "none") /\ Moves(e, "flat", "none") /\ UNCHANGED lost
Cancels(e) == In(e, "resting", "resting") /\ Moves(e, "flat", "none") /\ UNCHANGED lost
EntryFills(e) == atExchange[e] = "resting" /\ Moves(e, engine[e], "held") /\ UNCHANGED lost
FillTold(e) == (In(e, "resting", "held") \/ In(e, "flat", "held")) /\ Moves(e, "held", "held") /\ UNCHANGED lost

\* An order whose request was not found for 15 seconds is given up; it may yet fill.
\* Bound: once.
GivesUp(e) ==
  /\ In(e, "resting", "resting") /\ stray = {}
  /\ engine' = [engine EXCEPT ![e] = "flat"] /\ stray' = stray \union {e}
  /\ UNCHANGED <<cap, lock, inside, claims, mine, snapshot, atExchange, lost, left, carried>>

Loses(e) ==
  /\ In(e, "held", "held") /\ left[e] > 0
  /\ lost' = lost + 1 /\ left' = [left EXCEPT ![e] = @ - 1]
  /\ UNCHANGED <<cap, lock, inside, claims, engine, mine, snapshot, atExchange, stray, carried>>

PositionEnds(e) ==
  /\ In(e, "held", "held") /\ Moves(e, "flat", "none")
  /\ lost' \in {lost} \union (IF lost > -MaxGain THEN {lost - 1} ELSE {})

\* Every five seconds and on change.  An arm and a resting entry are read alike.
WritesState(e) ==
  /\ Up(e)
  /\ snapshot' = [snapshot EXCEPT ![e] = IF Armed(e) THEN "armed" ELSE engine[e]]
  /\ UNCHANGED <<lock, inside, claims, engine, mine, World>>

Crash(e) ==
  /\ engine[e] # "down"
  /\ engine' = [engine EXCEPT ![e] = "down"] /\ mine' = [mine EXCEPT ![e] = FALSE]
  /\ lock' = (IF lock = e THEN Orphan ELSE lock) /\ inside' = [inside EXCEPT ![e] = Outside]
  /\ left' = IF atExchange[e] = "none" THEN [left EXCEPT ![e] = 0] ELSE left
  /\ UNCHANGED <<cap, claims, snapshot, atExchange, lost, stray, carried>>

\* load_state, then the first resync: a resting order is taken over, a position
\* without lots of ours is foreign.
Starts(e) ==
  /\ engine[e] = "down"
  /\ engine' = [engine EXCEPT ![e] =
       CASE atExchange[e] = "resting" -> "resting"
         [] snapshot[e] = "held" -> "held"
         [] atExchange[e] = "held" -> "foreign"
         [] OTHER -> "flat"]
  /\ UNCHANGED <<lock, inside, claims, mine, snapshot, World>>

\* Lots the exchange does not hold, or a position that is not ours, are cleared.
Cleared(e) ==
  /\ In(e, "held", "none") \/ In(e, "foreign", "held")
  /\ Moves(e, "flat", "none") /\ UNCHANGED lost

\* The operator verified that the lock's owner is dead.
LockVerified ==
  /\ lock = Orphan /\ lock' = Free
  /\ UNCHANGED <<inside, claims, engine, mine, snapshot, World>>

\* The day's gain, against which more was reserved, is gone with the day.
DayRolls ==
  /\ lost' = 0
  /\ carried' = (carried \/ (lost < 0 /\ \E e \in Engines : left[e] > 0 \/ inside[e].ok))
  /\ UNCHANGED <<cap, lock, inside, claims, engine, mine, snapshot, atExchange, left, stray>>

CampaignMoves(e) ==
  \/ Rests(e) \/ Disarms(e) \/ Cancels(e) \/ EntryFills(e) \/ FillTold(e) \/ GivesUp(e)
  \/ Loses(e) \/ PositionEnds(e) \/ WritesState(e) \/ Crash(e) \/ Starts(e) \/ Cleared(e)

PoolNext == LockVerified \/ DayRolls \/ \E e \in Engines : Call(e) \/ CampaignMoves(e)

PoolSpec == PoolInit /\ [][PoolNext]_poolVars

----------------------------------------------------------------------------
ExposedEngines == {e \in Engines : engine[e] = "armed" \/ atExchange[e] # "none"}

\* Whatever processes read, write, crash, hang or restart in between, no more
\* than cap campaigns are armed, resting or held at once; only an engine that gave
\* up an order which filled after all may come on top.
CampaignsWithinCap == Cardinality(ExposedEngines \ stray) <= cap

\* What the day has lost and what the open campaigns may still lose fit the
\* limit of the day, unless a position came that nobody had reserved for, or the
\* gain of an ended day had backed a campaign that is still open.
LossesWithinLimit ==
  stray = {} /\ ~carried => lost + SumFunction(left) <= Limit
=============================================================================
