----------------------------- MODULE ArxStrategy -----------------------------
(***************************************************************************)
(* The phases of the ARX campaign (CampaignStrategy.evaluate in            *)
(* track_special/arx_campaign/strategy/engine.py) with a caller that       *)
(* carries its decisions out: one entry and one reduction at a time, each  *)
(* filling in parts, and the fills since the last evaluation handed in as  *)
(* filled_reduction_quantity.  What the bars say is a choice: whether a    *)
(* probe or a build is confirmed, and whether a time, funding, trend or    *)
(* giveback exit is due.  Quantities are multiples of Part; the first two  *)
(* harvests take a quarter of the reference quantity each.                 *)
(***************************************************************************)
EXTENDS Integers

CONSTANTS Part,       \* the smallest fill of an entry, a multiple of four
          ProbeSize, BuildSize,   \* what the caller buys, multiples of Part
          MaxStage,   \* the last stage a build may take
          MaxStop     \* the stop prices are 1..MaxStop, 0 is none

ASSUME StrategyAssumption ==
  /\ Part \in Nat \ {0} /\ Part % 4 = 0
  /\ ProbeSize \in Nat /\ BuildSize \in Nat /\ MaxStage \in Nat /\ MaxStop \in Nat

VARIABLES
  phase,       \* the strategy's state
  reference,   \* reference_quantity
  harvestAt,   \* harvest_index
  harvested,   \* _harvested_quantity
  nextStage,   \* _next_stage
  floor,       \* protective_stop, 0 for none
  position,    \* the reconciled position
  buying,      \* what the working entry still buys
  selling,     \* the working reduction: what it still sells, and its purpose
  unreported,  \* reductions filled since the last evaluation
  stoppedOut,  \* the stop fired since the last evaluation
  taken        \* what take-profit orders sold of this holding

own == <<phase, reference, harvestAt, harvested, nextStage, floor>>
caller == <<position, buying, selling, unreported, stoppedOut, taken>>
strategyVars == <<own, caller>>

AtLeastZero(n) == IF n < 0 THEN 0 ELSE n
AtMost(a, b) == IF a < b THEN a ELSE b
AtLeast(a, b) == IF a > b THEN a ELSE b
NoSale == [left |-> 0, purpose |-> "none"]

StrategyInit ==
  /\ phase = "WATCH" /\ reference = 0 /\ harvestAt = 0 /\ harvested = 0
  /\ nextStage = 2 /\ floor = 0
  /\ position = 0 /\ buying = 0 /\ selling = NoSale /\ unreported = 0
  /\ stoppedOut = FALSE /\ taken = 0

----------------------------------------------------------------------------
(* The caller: it places what was decided when nothing of its kind works,  *)
(* and always hands in what happened since the last evaluation.            *)

Places(buy, sell, purpose) ==
  /\ buying' = IF buying = 0 THEN buy ELSE buying
  /\ selling' = IF selling.left = 0 /\ sell > 0 THEN [left |-> sell, purpose |-> purpose]
                ELSE selling
  /\ unreported' = 0 /\ stoppedOut' = FALSE
  /\ UNCHANGED <<position, taken>>

Decides(buy, sell, purpose) == Places(buy, sell, purpose)
Nothing == Decides(0, 0, "none")

EntryFills ==
  /\ buying > 0
  /\ \E n \in {AtMost(Part, buying), buying} : position' = position + n /\ buying' = buying - n
  /\ UNCHANGED <<own, selling, unreported, stoppedOut, taken>>

EntryEnds ==
  /\ buying > 0
  /\ buying' = 0
  /\ UNCHANGED <<own, position, selling, unreported, stoppedOut, taken>>

ReductionFills ==
  /\ selling.left > 0
  /\ \E n \in {1, selling.left} :
       /\ position' = position - n
       /\ unreported' = unreported + n
       /\ selling' = IF n = selling.left THEN NoSale ELSE [selling EXCEPT !.left = @ - n]
       /\ taken' = IF position = n THEN 0
                   ELSE IF selling.purpose = "take_profit" THEN taken + n ELSE taken
  /\ UNCHANGED <<own, buying, stoppedOut>>

\* The protective stop at the exchange sells everything; a working reduction
\* has nothing left to reduce.
StopFires ==
  /\ position > 0 /\ floor > 0
  /\ position' = 0 /\ selling' = NoSale /\ taken' = 0
  /\ unreported' = unreported + position
  /\ stoppedOut' = TRUE
  /\ UNCHANGED <<own, buying>>

----------------------------------------------------------------------------
(* evaluate, in the order of its early returns.                            *)

StoppedOut ==
  /\ stoppedOut
  /\ phase' = "COOLDOWN"
  /\ UNCHANGED <<reference, harvestAt, harvested, nextStage, floor>>
  /\ Decides(0, position, "exit")

CoolingDown ==
  /\ ~stoppedOut /\ phase = "COOLDOWN"
  /\ UNCHANGED own
  /\ Nothing

\* The phase once a cooldown that is over has ended.
Awake == IF phase = "COOLDOWN" THEN "WATCH" ELSE phase

\* Without a position everything of the last holding is forgotten.
Flat(confirmed) ==
  /\ ~stoppedOut /\ position = 0
  /\ reference' = 0 /\ harvestAt' = 0 /\ harvested' = 0 /\ nextStage' = 2 /\ floor' = 0
  /\ \/ buying > 0 /\ phase' = Awake /\ Nothing
     \/ buying = 0 /\ Awake \notin {"WATCH", "FLAT"} /\ phase' = "FLAT" /\ Nothing
     \/ buying = 0 /\ Awake \in {"WATCH", "FLAT"}
        /\ IF confirmed THEN phase' = "PROBE" /\ Decides(ProbeSize, 0, "none")
           ELSE phase' = Awake /\ Nothing

\* What every evaluation of a position first brings up to date.
Held == IF Awake \in {"WATCH", "FLAT"} THEN "PROBE" ELSE Awake
Harvested == harvested + unreported
Reference ==
  IF harvestAt = 0 THEN AtLeast(reference, position + Harvested) ELSE reference

Updates ==
  /\ ~stoppedOut /\ position > 0
  /\ harvested' = Harvested
  /\ reference' = Reference

\* A stop below the one that is set is refused, and nothing else is looked at.
LowerStopRefused(stop) ==
  /\ Updates
  /\ stop > 0 /\ stop < floor
  /\ phase' = Held
  /\ UNCHANGED <<harvestAt, nextStage, floor>>
  /\ Nothing

SetsStop(stop) ==
  /\ Updates
  /\ stop = 0 \/ stop >= floor
  /\ floor' = AtLeast(stop, floor)

ExitDue(stop) ==
  /\ SetsStop(stop)
  /\ phase' = "HARVEST"
  /\ UNCHANGED <<harvestAt, nextStage>>
  /\ Decides(0, position, "exit")

BuildConfirmed(stop) ==
  /\ SetsStop(stop)
  /\ Held \in {"PROBE", "BUILD", "RIDE"}
  /\ nextStage <= MaxStage
  /\ phase' = "BUILD"
  /\ nextStage' = nextStage + 1
  /\ UNCHANGED harvestAt
  /\ Decides(BuildSize, 0, "none")

\* A mutant: what a harvest has sold already is not subtracted.
RemainingTargetWhole(index) == Reference \div 4

\* What harvest number index still has to sell: a quarter of the reference
\* quantity, less what was sold beyond the harvests before it.
RemainingTarget(index) ==
  AtLeastZero(Reference \div 4 - AtLeastZero(Harvested - index * (Reference \div 4)))

\* multiple: the net result in units of the initial risk.  A harvest that is
\* complete is passed over for the next one.
Index(multiple) ==
  CHOOSE i \in harvestAt..2 :
    /\ \A j \in harvestAt..(i - 1) : multiple >= j + 1 /\ RemainingTarget(j) = 0
    /\ i = 2 \/ multiple < i + 1 \/ RemainingTarget(i) > 0

Rides ==
  IF Held = "BUILD" \/ (Held = "PROBE" /\ nextStage > 2) THEN "RIDE" ELSE Held

HarvestOrRide(stop, multiple) ==
  LET index == Index(multiple)
      due == index < 2 /\ multiple >= index + 1
  IN /\ SetsStop(stop)
     /\ harvestAt' = index
     /\ UNCHANGED nextStage
     /\ \/ due /\ phase' = "HARVEST"
               /\ Decides(0, AtMost(position, RemainingTarget(index)), "take_profit")
        \/ ~due /\ phase' = (IF index > harvestAt THEN "HARVEST" ELSE Rides) /\ Nothing

Evaluate ==
  \/ StoppedOut
  \/ CoolingDown
  \/ \E confirmed \in BOOLEAN : Flat(confirmed)
  \/ \E stop \in 0..MaxStop :
       \/ LowerStopRefused(stop)
       \/ ExitDue(stop)
       \/ BuildConfirmed(stop)
       \/ \E multiple \in 0..2 : HarvestOrRide(stop, multiple)

StrategyNext == Evaluate \/ EntryFills \/ EntryEnds \/ ReductionFills \/ StopFires

StrategySpec == StrategyInit /\ [][StrategyNext]_strategyVars

----------------------------------------------------------------------------
\* The first two harvests sell at most their quarters of the reference quantity:
\* however often a harvest is decided while its order fills in parts, whatever a
\* late entry adds and wherever the stop fires, at least half of it is kept to ride.
HalfRides == 2 * taken <= Reference
=============================================================================
