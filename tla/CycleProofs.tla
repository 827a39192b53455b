------------------------------ MODULE CycleProofs ------------------------------
(***************************************************************************)
(* Proofs about the machines of the A/B engine (common/cycle.py).  The     *)
(* pool: CampaignsWithinCap counts what is exposed, but what the lock keeps*)
(* is the claims in the file, so the invariant says that whoever is exposed*)
(* has a claim (Claimants), that a snapshot called flat can be believed    *)
(* (FlatIsFlat), and what an engine inside the lock is about to write      *)
(* (Holder, PoolPlans).  LossesWithinLimit needs in addition that the      *)
(* budget already holds the loss which a call inside the lock was granted. *)
(* The slot: RemainderNotReordered compares orders, while the code only has*)
(* its one record, so the invariant says whose order that record, or the   *)
(* placement under way, stands for (Owned, OneOwner), what the record may  *)
(* say of it (RecordTrue), what the answers that are under way rest on     *)
(* (NewsTrue, AnswersTrue), and what a resync can rely on after a restart  *)
(* (Unstarted).  The strategy: what rests to be bought is what is armed,   *)
(* which is open and fits the ladder (ArmOpen), and a pull is for what was *)
(* held when it was last read (PullTrue).  The hunt (track_b/hunt.py):     *)
(* what a turn saves are books and a memory of known coins (OnFile).  The  *)
(* stops: ClosesClassified counts, so the invariant says that the fills    *)
(* under way lead from what is booked or listed to what the exchange holds *)
(* (FillsFollow), and what each pass still has of the list (PassTrue).  The*)
(* basket (track_a/select.py): what is set aside on file is not in the     *)
(* basket at all, and a scan's shares are those of at most one probe, one  *)
(* leader and as many main books as the pool was divided by (SelectInv).   *)
(***************************************************************************)
EXTENDS Pool, CycleSlots, CycleStops, Strategy, Hunt, Select, Sums, TLAPS

----------------------------------------------------------------------------
(* Pool.                                                                   *)

Calls == {"none", "claim", "adopt", "refresh", "release"}
ClaimStates == {"no", "leased", "rebuilt"}

PoolTypes ==
  /\ cap \in Caps /\ lock \in Engines \union {Free, Orphan}
  /\ inside \in [Engines -> [call : Calls, plan : [Engines -> ClaimStates], ok : BOOLEAN]]
  /\ claims \in [Engines -> ClaimStates]
  /\ engine \in [Engines -> {"down", "flat", "armed", "resting", "held", "foreign"}]
  /\ mine \in [Engines -> BOOLEAN]
  /\ atExchange \in [Engines -> {"none", "resting", "held"}]
  /\ snapshot \in [Engines -> {"flat", "stale", "armed", "held", "foreign"}]
  /\ lost \in Int /\ left \in [Engines -> 0..Risk]
  /\ stray \in SUBSET Engines /\ carried \in BOOLEAN

\* An engine with something to reserve for, or whose snapshot says so.
LiveEngine(s) == engine[s] \in {"armed", "resting", "held", "foreign"} \/ atExchange[s] # "none" \/ Occupied(s)

Claimants == \A s \in Engines \ stray : LiveEngine(s) => claims[s] # "no"

FlatIsFlat ==
  \A s \in Engines \ stray :
    /\ snapshot[s] = "flat" => engine[s] \in {"flat", "down"} /\ atExchange[s] = "none"
    /\ engine[s] = "flat" => atExchange[s] = "none"

Holder ==
  \A e \in Engines :
    /\ inside[e].call # "none" => lock = e /\ engine[e] # "down"
    /\ inside[e].call = "claim" => engine[e] = "flat" /\ atExchange[e] = "none"
    /\ inside[e].call = "release" => engine[e] = "flat" /\ snapshot[e] = "flat" /\ ~inside[e].ok
    /\ inside[e].call \in {"adopt", "refresh"} => engine[e] \in {"held", "armed", "resting"} /\ inside[e].ok
    /\ inside[e].ok => inside[e].call # "none" /\ inside[e].plan[e] = "leased"

PoolPlans ==
  \A e \in Engines : inside[e].call # "none" =>
    /\ \A s \in Engines \ stray : claims[s] # "no" /\ inside[e].plan[s] = "no" => snapshot[s] = "flat"
    /\ Cardinality(Claimed(inside[e].plan) \ stray) <= cap

ClaimsWithinCap == Cardinality(Claimed(claims) \ stray) <= cap

ClaimsInv == PoolTypes /\ Claimants /\ FlatIsFlat /\ Holder /\ PoolPlans /\ ClaimsWithinCap

----------------------------------------------------------------------------
\* The constants are positive numbers.
LEMMA PoolNumbers ==
  Risk \in Nat \ {0} /\ Limit \in Nat \ {0} /\ MaxGain \in Nat /\ \A c \in Caps : c \in Nat \ {0}
BY PoolAssumption

\* Fewer campaigns are no more than there were.
LEMMA FewerFit ==
  ASSUME NEW A \in SUBSET Engines, NEW B \in SUBSET Engines, A \subseteq B, NEW c \in Nat, Cardinality(B) <= c
  PROVE  Cardinality(A) <= c
<1>1. IsFiniteSet(B)
  BY PoolAssumption, FS_Subset
<1>2. IsFiniteSet(A) /\ Cardinality(A) <= Cardinality(B)
  BY <1>1, FS_Subset
<1>3. Cardinality(A) \in Nat /\ Cardinality(B) \in Nat
  BY <1>1, <1>2, FS_CardinalityType
<1> QED BY <1>2, <1>3

\* One more fits where fewer than cap were.
LEMMA OneMoreFits ==
  ASSUME NEW A \in SUBSET Engines, NEW e \in Engines, NEW c \in Nat, Cardinality(A) < c
  PROVE  Cardinality(A \union {e}) <= c
<1>1. IsFiniteSet(A)
  BY PoolAssumption, FS_Subset
<1>2. Cardinality(A) \in Nat /\ (e \in A => A \union {e} = A)
  BY <1>1, FS_CardinalityType
<1>3. CASE e \in A
  BY <1>2, <1>3
<1>4. CASE e \notin A
  <2>1. Cardinality(A \union {e}) = Cardinality(A) + 1
    BY <1>1, <1>4, FS_AddElement
  <2> QED BY <1>2, <2>1
<1> QED BY <1>3, <1>4

\* The pool starts empty.
LEMMA PoolStarts == PoolInit => ClaimsInv
<1> SUFFICES ASSUME PoolInit PROVE ClaimsInv
  OBVIOUS
<1>1. PoolTypes
  <2>1. 0 \in 0..Risk
    BY PoolAssumption
  <2>2. Outside \in [call : Calls, plan : [Engines -> ClaimStates], ok : BOOLEAN]
    BY DEF Outside, NoClaims, Calls, ClaimStates
  <2>3. inside \in [Engines -> [call : Calls, plan : [Engines -> ClaimStates], ok : BOOLEAN]] /\ left \in [Engines -> 0..Risk]
    BY <2>1, <2>2 DEF PoolInit
  <2>4. claims \in [Engines -> ClaimStates] /\ mine \in [Engines -> BOOLEAN]
    BY DEF PoolInit, NoClaims, ClaimStates
  <2>5. lost \in Int /\ stray \in SUBSET Engines
    BY DEF PoolInit
  <2>8. carried \in BOOLEAN
    BY Zenon DEF PoolInit
  <2>6. engine \in [Engines -> {"down", "flat", "armed", "resting", "held", "foreign"}] /\ cap \in Caps
    BY DEF PoolInit
  <2>7. /\ atExchange \in [Engines -> {"none", "resting", "held"}] /\ lock \in Engines \union {Free, Orphan}
        /\ snapshot \in [Engines -> {"flat", "stale", "armed", "held", "foreign"}]
    BY DEF PoolInit
  <2> QED BY <2>3, <2>4, <2>5, <2>6, <2>7, <2>8 DEF PoolTypes
<1>2. Claimed(claims) \ stray = {}
  BY DEF PoolInit, Claimed, NoClaims
<1>3. ClaimsWithinCap
  <2>1. cap \in Nat /\ Cardinality({}) = 0
    BY PoolAssumption, FS_EmptySet DEF PoolInit
  <2> QED BY <1>2, <2>1 DEF ClaimsWithinCap
<1> QED BY <1>1, <1>3 DEF PoolInit, ClaimsInv, Claimants, LiveEngine, Occupied, FlatIsFlat, Holder, PoolPlans, NoClaims, Outside

\* What a call is given is a plan of the claims.
LEMMA SweptType ==
  ASSUME PoolTypes, NEW e \in Engines, NEW swept \in Swept(e)
  PROVE  /\ swept \in [Engines -> ClaimStates]
         /\ \A s \in Engines : swept[s] = "no" => claims[s] = "no" \/ (s # e /\ FlatProven(s))
         /\ \A s \in Engines : claims[s] = "no" /\ ~Occupied(s) => swept[s] = "no"
         /\ \A s \in Engines : claims[s] # "no" /\ ~FlatProven(s) => swept[s] = claims[s]
<1> DEFINE unclaimed == {s \in Engines \ Claimed(claims) : Occupied(s)}
<1>1. PICK found \in {{s \in unclaimed : snapshot[s] # "foreign"}, unclaimed},
           dropped \in SUBSET {s \in Claimed(claims) \ {e} : FlatProven(s)} :
        swept = [s \in Engines |-> IF s \in found THEN "rebuilt" ELSE IF s \in dropped THEN "no" ELSE claims[s]]
  BY DEF Swept
<1>2. found \subseteq unclaimed
  OBVIOUS
<1>3. \A s \in Engines : swept[s] = IF s \in found THEN "rebuilt" ELSE IF s \in dropped THEN "no" ELSE claims[s]
  BY <1>1
<1>4. \A s \in unclaimed : claims[s] = "no" /\ Occupied(s)
  BY DEF Claimed
<1>5. \A s \in dropped : s # e /\ claims[s] # "no" /\ FlatProven(s)
  BY <1>1 DEF Claimed
<1> HIDE DEF unclaimed
<1>6. swept \in [Engines -> ClaimStates]
  BY <1>1 DEF PoolTypes, ClaimStates
<1> QED BY <1>2, <1>3, <1>4, <1>5, <1>6

\* Every step keeps the types.
LEMMA PoolTypesKept == ASSUME PoolTypes, [PoolNext]_poolVars PROVE PoolTypes'
<1> USE PoolAssumption DEF PoolTypes, Calls, ClaimStates
<1>1. ASSUME NEW e \in Engines, Claim(e) PROVE PoolTypes'
  <2>1. PICK swept \in Swept(e) : \E plan \in {swept, [swept EXCEPT ![e] = "leased"]}, ok \in BOOLEAN :
          Enters(e, "claim", plan, ok)
    BY <1>1 DEF Claim
  <2>2. swept \in [Engines -> ClaimStates]
    BY <2>1, SweptType
  <2>3. snapshot' = snapshot
    BY <1>1 DEF Claim
  <2>4. inside' \in [Engines -> [call : Calls, plan : [Engines -> ClaimStates], ok : BOOLEAN]]
    <3>1. PICK plan \in {swept, [swept EXCEPT ![e] = "leased"]}, ok \in BOOLEAN : Enters(e, "claim", plan, ok)
      BY <2>1
    <3>2. plan \in [Engines -> ClaimStates]
      BY <2>2
    <3> QED BY <3>1, <3>2 DEF Enters
  <2> QED BY <2>1, <2>3, <2>4 DEF Enters, World
<1>2. ASSUME NEW e \in Engines, Adopt(e) PROVE PoolTypes'
  <2>1. PICK swept \in Swept(e) : Enters(e, "adopt", [swept EXCEPT ![e] = "leased"], TRUE)
    BY <1>2 DEF Adopt
  <2>2. swept \in [Engines -> ClaimStates]
    BY <2>1, SweptType
  <2> QED BY <1>2, <2>1, <2>2 DEF Adopt, Enters, World
<1>3. ASSUME NEW e \in Engines, Refresh(e) \/ Release(e) PROVE PoolTypes'
  <2>1. CASE Refresh(e)
    BY <2>1 DEF Refresh, Enters, World
  <2>2. CASE Release(e)
    <3>1. snapshot' \in [Engines -> {"flat", "stale", "armed", "held", "foreign"}]
      BY <2>2 DEF Release
    <3>2. Enters(e, "release", [claims EXCEPT ![e] = "no"], FALSE)
      BY <2>2 DEF Release
    <3> QED BY <3>1, <3>2 DEF Enters, World
  <2> QED BY <1>3, <2>1, <2>2
<1>4. ASSUME NEW e \in Engines, Writes(e) PROVE PoolTypes'
  <2>1. Outside \in [call : Calls, plan : [Engines -> ClaimStates], ok : BOOLEAN]
    BY DEF Outside, NoClaims
  <2>2. inside[e].plan \in [Engines -> ClaimStates] /\ inside' \in [Engines -> [call : Calls, plan : [Engines -> ClaimStates], ok : BOOLEAN]]
    BY <1>4, <2>1 DEF Writes
  <2>3. left' \in [Engines -> 0..Risk] /\ engine' \in [Engines -> {"down", "flat", "armed", "resting", "held", "foreign"}]
    <3>1. Risk \in 0..Risk
      BY PoolNumbers
    <3>2. left' \in [Engines -> 0..Risk]
      BY <1>4, <3>1 DEF Writes
    <3> QED BY <1>4, <3>2 DEF Writes
  <2>4. snapshot' \in [Engines -> {"flat", "stale", "armed", "held", "foreign"}]
    BY <1>4 DEF Writes
  <2>5. mine' \in [Engines -> BOOLEAN]
    <3>1. (IF inside[e].call = "release" THEN FALSE ELSE mine[e] \/ inside[e].ok) \in BOOLEAN
      BY Zenon
    <3> QED BY <1>4, <3>1, Zenon DEF Writes
  <2> QED BY <1>4, <2>2, <2>3, <2>4, <2>5 DEF Writes
<1>5. ASSUME NEW e \in Engines, Rests(e) \/ Disarms(e) \/ Cancels(e) \/ EntryFills(e) \/ FillTold(e) \/ Cleared(e) \/ PositionEnds(e)
      PROVE  PoolTypes'
  <2>1. PICK st \in {"down", "flat", "armed", "resting", "held", "foreign"}, ex \in {"none", "resting", "held"} : Moves(e, st, ex)
    BY <1>5 DEF Rests, Disarms, Cancels, EntryFills, FillTold, Cleared, PositionEnds
  <2>2. 0 \in 0..Risk
    OBVIOUS
  <2>3. left' \in [Engines -> 0..Risk]
    BY <2>1, <2>2 DEF Moves
  <2>4. lost' \in Int
    BY <1>5 DEF Rests, Disarms, Cancels, EntryFills, FillTold, Cleared, PositionEnds
  <2> QED BY <2>1, <2>3, <2>4 DEF Moves
<1>6. ASSUME NEW e \in Engines, GivesUp(e) \/ WritesState(e) \/ Starts(e) PROVE PoolTypes'
  <2>1. CASE GivesUp(e)
    BY <2>1 DEF GivesUp
  <2>2. CASE WritesState(e)
    <3>1. engine[e] # "down"
      BY <2>2 DEF WritesState, Up
    <3>2. snapshot' \in [Engines -> {"flat", "stale", "armed", "held", "foreign"}]
      BY <2>2, <3>1 DEF WritesState, Armed
    <3> QED BY <2>2, <3>2 DEF WritesState, World
  <2>3. CASE Starts(e)
    BY <2>3 DEF Starts, World
  <2> QED BY <1>6, <2>1, <2>2, <2>3
<1>7. ASSUME NEW e \in Engines, Loses(e) PROVE PoolTypes'
  <2>1. left[e] \in 0..Risk /\ left[e] > 0 /\ Risk \in Int
    BY <1>7 DEF Loses
  <2>2. left[e] - 1 \in 0..Risk
    <3> HIDE DEF PoolTypes
    <3> QED BY <2>1
  <2> QED BY <1>7, <2>2 DEF Loses
<1>8. ASSUME NEW e \in Engines, Crash(e) PROVE PoolTypes'
  <2>1. Outside \in [call : Calls, plan : [Engines -> ClaimStates], ok : BOOLEAN] /\ 0 \in 0..Risk
    BY DEF Outside, NoClaims
  <2>2. left' \in [Engines -> 0..Risk]
    BY <1>8, <2>1 DEF Crash
  <2>3. inside' \in [Engines -> [call : Calls, plan : [Engines -> ClaimStates], ok : BOOLEAN]]
    BY <1>8, <2>1 DEF Crash
  <2>4. lock' \in Engines \union {Free, Orphan} /\ engine' \in [Engines -> {"down", "flat", "armed", "resting", "held", "foreign"}] /\ mine' \in [Engines -> BOOLEAN]
    BY <1>8 DEF Crash
  <2> QED BY <1>8, <2>2, <2>3, <2>4 DEF Crash
<1>9. ASSUME LockVerified \/ DayRolls \/ UNCHANGED poolVars PROVE PoolTypes'
  <2>1. CASE LockVerified \/ UNCHANGED poolVars
    BY <2>1 DEF LockVerified, poolVars, World
  <2>2. CASE DayRolls
    <3>1. carried' \in BOOLEAN
      BY <2>2, Zenon DEF DayRolls
    <3> QED BY <2>2, <3>1 DEF DayRolls
  <2> QED BY <1>9, <2>1, <2>2
<1> QED BY <1>1, <1>2, <1>3, <1>4, <1>5, <1>6, <1>7, <1>8, <1>9 DEF PoolNext, Call, CampaignMoves

\* Nobody is inside while the lock is free.
LEMMA NobodyInside == ASSUME Holder, lock = Free PROVE \A e \in Engines : inside[e].call = "none" /\ ~inside[e].ok
BY PoolAssumption DEF Holder

\* Taking the lock with a plan that fits.
LEMMA EnterKeeps ==
  ASSUME ClaimsInv, PoolTypes', NEW e \in Engines, NEW call \in Calls, NEW plan \in [Engines -> ClaimStates],
         NEW ok \in BOOLEAN, Enters(e, call, plan, ok), engine[e] # "down",
         snapshot' = snapshot \/ (snapshot' = [snapshot EXCEPT ![e] = "flat"] /\ engine[e] = "flat"),
         call = "claim" => engine[e] = "flat" /\ atExchange[e] = "none",
         call = "release" => engine[e] = "flat" /\ snapshot'[e] = "flat" /\ ~ok,
         call \in {"adopt", "refresh"} => engine[e] \in {"held", "armed", "resting"} /\ ok,
         ok => plan[e] = "leased", call # "none",
         \A s \in Engines \ stray : claims[s] # "no" /\ plan[s] = "no" => snapshot'[s] = "flat",
         Cardinality(Claimed(plan) \ stray) <= cap
  PROVE  ClaimsInv'
<1> USE DEF ClaimsInv
<1>1. /\ \A s \in Engines : s # e => inside'[s] = inside[s] /\ inside[s].call = "none" /\ ~inside[s].ok
      /\ inside'[e].call = call /\ inside'[e].plan = plan /\ inside'[e].ok = ok
      /\ lock' = e /\ engine' = engine /\ atExchange' = atExchange /\ claims' = claims /\ stray' = stray /\ cap' = cap
  BY NobodyInside DEF Enters, World, PoolTypes
<1>2. \A s \in Engines : snapshot'[s] = snapshot[s] \/ (s = e /\ snapshot'[s] = "flat" /\ engine[s] = "flat")
  BY DEF PoolTypes
<1>3. Claimants'
  BY <1>1, <1>2 DEF Claimants, LiveEngine, Occupied
<1>4. FlatIsFlat'
  BY <1>1, <1>2 DEF FlatIsFlat
<1>5. Holder'
  BY <1>1, <1>2 DEF Holder
<1>6. PoolPlans'
  <2> SUFFICES ASSUME NEW x \in Engines, inside'[x].call # "none"
               PROVE  /\ \A s \in Engines \ stray' :
                           claims'[s] # "no" /\ inside'[x].plan[s] = "no" => snapshot'[s] = "flat"
                      /\ Cardinality(Claimed(inside'[x].plan) \ stray') <= cap'
    BY DEF PoolPlans, Claimed
  <2>1. x = e
    BY <1>1
  <2>2. inside'[x].plan = plan /\ stray' = stray /\ claims' = claims /\ cap' = cap
    BY <1>1, <2>1
  <2> QED BY <2>2
<1>7. ClaimsWithinCap'
  BY <1>1 DEF ClaimsWithinCap, Claimed
<1> QED BY <1>3, <1>4, <1>5, <1>6, <1>7

\* A plan that claims no more than e besides what is claimed keeps within the cap.
LEMMA PlanFits ==
  ASSUME ClaimsInv, NEW e \in Engines, NEW plan \in [Engines -> ClaimStates],
         \A s \in Engines \ stray : plan[s] # "no" => claims[s] # "no"
  PROVE  Cardinality(Claimed(plan) \ stray) <= cap
<1>1. Claimed(plan) \ stray \subseteq Claimed(claims) \ stray
  BY DEF Claimed
<1>2. Claimed(plan) \ stray \in SUBSET Engines /\ Claimed(claims) \ stray \in SUBSET Engines /\ cap \in Nat
  BY PoolNumbers DEF Claimed, ClaimsInv, PoolTypes
<1> QED BY <1>1, <1>2, FewerFit DEF ClaimsInv, ClaimsWithinCap

\* An exposure that is swept up had given up an order.
LEMMA SweptFits ==
  ASSUME ClaimsInv, NEW e \in Engines, NEW swept \in Swept(e)
  PROVE  /\ \A s \in Engines \ stray : swept[s] # "no" => claims[s] # "no"
         /\ \A s \in Engines \ stray : claims[s] # "no" /\ swept[s] = "no" => s # e /\ snapshot[s] = "flat"
  BY SweptType DEF ClaimsInv, Claimants, LiveEngine, FlatProven

\* Each of the four calls takes the lock with such a plan.
LEMMA EntersKeepClaims ==
  ASSUME ClaimsInv, PoolTypes', NEW e \in Engines, Claim(e) \/ Adopt(e) \/ Refresh(e) \/ Release(e)
  PROVE  ClaimsInv'
<1>1. PoolTypes /\ engine[e] # "down"
  BY DEF ClaimsInv, Claim, Adopt, Refresh, Release, Up
<1>2. CASE Claim(e)
  <2>1. PICK swept \in Swept(e) :
          IF MayClaim(e, swept) THEN Enters(e, "claim", [swept EXCEPT ![e] = "leased"], TRUE)
          ELSE Enters(e, "claim", swept, FALSE)
    BY <1>2 DEF Claim
  <2>2. swept \in [Engines -> ClaimStates]
    BY <1>1, SweptType
  <2>3. /\ \A s \in Engines \ stray : swept[s] # "no" => claims[s] # "no"
        /\ \A s \in Engines \ stray : claims[s] # "no" /\ swept[s] = "no" => s # e /\ snapshot[s] = "flat"
    BY SweptFits
  <2>4. engine[e] = "flat" /\ atExchange[e] = "none" /\ snapshot' = snapshot
    BY <1>2 DEF Claim
  <2>5. CASE ~MayClaim(e, swept)
    <3>1. Cardinality(Claimed(swept) \ stray) <= cap
      BY <2>2, <2>3, PlanFits
    <3> QED BY <1>1, <2>1, <2>2, <2>3, <2>4, <2>5, <3>1, EnterKeeps DEF Calls
  <2>6. CASE MayClaim(e, swept)
    <3> DEFINE plan == [swept EXCEPT ![e] = "leased"]
    <3>1. plan \in [Engines -> ClaimStates] /\ plan[e] = "leased" /\ \A s \in Engines : s # e => plan[s] = swept[s]
      BY <2>2 DEF ClaimStates
    <3>2. Cardinality(Claimed(plan) \ stray) <= cap
      <4>1. CASE e \in Claimed(swept)
        <5>1. \A s \in Engines \ stray : plan[s] # "no" => claims[s] # "no"
          BY <2>3, <3>1, <4>1 DEF Claimed
        <5> HIDE DEF plan
        <5> QED BY <3>1, <5>1, PlanFits
      <4>2. CASE Cardinality(Claimed(swept)) < cap
        <5>1. Claimed(plan) = Claimed(swept) \union {e} /\ Claimed(swept) \in SUBSET Engines
          BY <3>1 DEF Claimed
        <5>2. cap \in Nat
          BY <1>1, PoolNumbers DEF PoolTypes
        <5>3. Cardinality(Claimed(plan)) <= cap
          BY <4>2, <5>1, <5>2, OneMoreFits
        <5> HIDE DEF plan
        <5>4. Claimed(plan) \ stray \subseteq Claimed(plan) /\ Claimed(plan) \in SUBSET Engines
          BY DEF Claimed
        <5> QED BY <5>2, <5>3, <5>4, FewerFit
      <4> QED BY <2>6, <4>1, <4>2 DEF MayClaim
    <3>3. \A s \in Engines \ stray : claims[s] # "no" /\ plan[s] = "no" => snapshot'[s] = "flat"
      BY <2>3, <2>4, <3>1
    <3>4. Enters(e, "claim", plan, TRUE)
      BY <2>1, <2>6
    <3>5. "claim" \in Calls /\ TRUE \in BOOLEAN
      BY DEF Calls
    <3> HIDE DEF plan
    <3> QED BY <1>1, <2>4, <3>1, <3>2, <3>3, <3>4, <3>5, EnterKeeps
  <2> QED BY <2>5, <2>6
<1>3. CASE Adopt(e)
  <2>1. PICK swept \in Swept(e) : Enters(e, "adopt", [swept EXCEPT ![e] = "leased"], TRUE)
    BY <1>3 DEF Adopt
  <2>2. swept \in [Engines -> ClaimStates]
    BY <1>1, SweptType
  <2>3. /\ \A s \in Engines \ stray : swept[s] # "no" => claims[s] # "no"
        /\ \A s \in Engines \ stray : claims[s] # "no" /\ swept[s] = "no" => s # e /\ snapshot[s] = "flat"
    BY SweptFits
  <2>4. engine[e] = "held" /\ snapshot' = snapshot
    BY <1>3 DEF Adopt, Positioned
  <2>5. e \notin stray => claims[e] # "no"
    BY <2>4 DEF ClaimsInv, Claimants, LiveEngine
  <2> DEFINE plan == [swept EXCEPT ![e] = "leased"]
  <2>6. plan \in [Engines -> ClaimStates] /\ plan[e] = "leased" /\ \A s \in Engines : s # e => plan[s] = swept[s]
    BY <2>2 DEF ClaimStates
  <2>7. Enters(e, "adopt", plan, TRUE)
    BY <2>1
  <2> HIDE DEF plan
  <2>8. Cardinality(Claimed(plan) \ stray) <= cap
    BY <2>3, <2>5, <2>6, PlanFits
  <2>9. \A s \in Engines \ stray : claims[s] # "no" /\ plan[s] = "no" => snapshot'[s] = "flat"
    BY <2>3, <2>4, <2>6
  <2>10. "adopt" \in Calls /\ engine[e] \in {"held", "armed", "resting"} /\ TRUE \in BOOLEAN
    BY <2>4 DEF Calls
  <2> QED BY <1>1, <2>4, <2>6, <2>7, <2>8, <2>9, <2>10, EnterKeeps
<1>4. CASE Refresh(e)
  <2> DEFINE plan == [claims EXCEPT ![e] = "leased"]
  <2>1. engine[e] \in {"held", "armed", "resting"} /\ snapshot' = snapshot /\ Enters(e, "refresh", plan, TRUE)
    BY <1>4 DEF Refresh, Positioned, Armed
  <2>2. e \notin stray => claims[e] # "no"
    BY <2>1 DEF ClaimsInv, Claimants, LiveEngine
  <2>3. plan \in [Engines -> ClaimStates] /\ plan[e] = "leased" /\ \A s \in Engines : s # e => plan[s] = claims[s]
    BY <1>1 DEF PoolTypes, ClaimStates
  <2> HIDE DEF plan
  <2>4. Cardinality(Claimed(plan) \ stray) <= cap
    BY <2>2, <2>3, PlanFits
  <2> QED BY <1>1, <2>1, <2>3, <2>4, EnterKeeps DEF Calls
<1>5. CASE Release(e)
  <2> DEFINE plan == [claims EXCEPT ![e] = "no"]
  <2>1. engine[e] = "flat" /\ snapshot' = [snapshot EXCEPT ![e] = "flat"] /\ Enters(e, "release", plan, FALSE)
    BY <1>5 DEF Release
  <2>2. snapshot'[e] = "flat"
    BY <1>1, <2>1 DEF PoolTypes
  <2>3. plan \in [Engines -> ClaimStates] /\ plan[e] = "no" /\ \A s \in Engines : s # e => plan[s] = claims[s]
    BY <1>1 DEF PoolTypes, ClaimStates
  <2> HIDE DEF plan
  <2>4. Cardinality(Claimed(plan) \ stray) <= cap
    BY <2>3, PlanFits
  <2>5. \A s \in Engines \ stray : claims[s] # "no" /\ plan[s] = "no" => snapshot'[s] = "flat"
    BY <2>2, <2>3
  <2> QED BY <1>1, <2>1, <2>2, <2>3, <2>4, <2>5, EnterKeeps DEF Calls
<1> QED BY <1>2, <1>3, <1>4, <1>5

\* Writing the plan: what it drops is flat for certain, and nobody else is inside.
LEMMA WriteKeepsClaims ==
  ASSUME ClaimsInv, PoolTypes', NEW e \in Engines, Writes(e)
  PROVE  ClaimsInv'
<1> USE DEF ClaimsInv
<1>1. /\ lock = e /\ engine[e] # "down" /\ claims' = inside[e].plan
      /\ atExchange' = atExchange /\ stray' = stray /\ cap' = cap
      /\ \A s \in Engines : s # e => inside'[s] = inside[s] /\ inside[s].call = "none" /\ ~inside[s].ok
      /\ inside'[e].call = "none" /\ ~inside'[e].ok
  BY DEF Writes, Holder, PoolTypes, Outside
<1>2. \A s \in Engines : s # e => engine'[s] = engine[s] /\ snapshot'[s] = snapshot[s]
  BY DEF Writes, PoolTypes
<1>3. /\ snapshot'[e] = (IF inside[e].ok /\ snapshot[e] = "flat" THEN "stale" ELSE snapshot[e])
      /\ inside[e].call # "none"
      /\ engine'[e] = (IF inside[e].call = "claim" /\ inside[e].ok THEN "armed" ELSE engine[e])
  BY DEF Writes, PoolTypes
<1>4. /\ inside[e].ok => claims'[e] = "leased"
      /\ \A s \in Engines \ stray : claims[s] # "no" /\ claims'[s] = "no" => snapshot[s] = "flat"
      /\ Cardinality(Claimed(claims') \ stray) <= cap
  BY <1>1, <1>3 DEF Holder, PoolPlans
<1>5. Claimants'
  <2> SUFFICES ASSUME NEW s \in Engines \ stray, LiveEngine(s)' PROVE claims'[s] # "no"
    BY <1>1 DEF Claimants
  <2>1. CASE s = e /\ inside[e].ok
    BY <1>4, <2>1
  <2>2. CASE ~(s = e /\ inside[e].ok)
    <3>1. engine'[s] = engine[s] /\ snapshot'[s] = snapshot[s] /\ atExchange'[s] = atExchange[s]
      BY <1>1, <1>2, <1>3, <2>2
    <3>2. LiveEngine(s)
      BY <3>1 DEF LiveEngine, Occupied
    <3>3. snapshot[s] # "flat"
      BY <3>2 DEF FlatIsFlat, LiveEngine, Occupied
    <3> QED BY <1>4, <3>2, <3>3 DEF Claimants
  <2> QED BY <2>1, <2>2
<1>6. FlatIsFlat'
  <2> SUFFICES ASSUME NEW s \in Engines \ stray
               PROVE  /\ snapshot'[s] = "flat" => engine'[s] \in {"flat", "down"} /\ atExchange'[s] = "none"
                      /\ engine'[s] = "flat" => atExchange'[s] = "none"
    BY <1>1 DEF FlatIsFlat
  <2>1. CASE s # e
    BY <1>1, <1>2, <2>1 DEF FlatIsFlat
  <2>2. CASE s = e
    BY <1>1, <1>3, <2>2 DEF FlatIsFlat
  <2> QED BY <2>1, <2>2
<1>7. Holder' /\ PoolPlans'
  BY <1>1 DEF Holder, PoolPlans
<1>8. ClaimsWithinCap'
  BY <1>1, <1>4 DEF ClaimsWithinCap, Claimed
<1> QED BY <1>5, <1>6, <1>7, <1>8

\* Between two calls an engine changes only its own state, and becomes exposed only
\* from an exposed state.
LEMMA MovesKeepClaims ==
  ASSUME ClaimsInv, PoolTypes', NEW e \in Engines,
         lock' = lock, inside' = inside, claims' = claims, stray' = stray, cap' = cap,
         \A s \in Engines : s # e =>
           engine'[s] = engine[s] /\ atExchange'[s] = atExchange[s] /\ snapshot'[s] = snapshot[s],
         LiveEngine(e)' => LiveEngine(e),
         e \notin stray =>
           /\ snapshot'[e] = "flat" => engine'[e] \in {"flat", "down"} /\ atExchange'[e] = "none"
           /\ engine'[e] = "flat" => atExchange'[e] = "none"
           /\ snapshot[e] = "flat" => snapshot'[e] = "flat",
         inside[e].call # "none" =>
           engine'[e] = engine[e] /\ snapshot'[e] = snapshot[e]
             /\ (atExchange'[e] = atExchange[e] \/ atExchange[e] # "none")
  PROVE  ClaimsInv'
<1> USE DEF ClaimsInv
<1>1. Claimants'
  <2> SUFFICES ASSUME NEW s \in Engines \ stray, LiveEngine(s)' PROVE claims[s] # "no"
    BY DEF Claimants
  <2>1. LiveEngine(s)
    BY DEF LiveEngine, Occupied
  <2> QED BY <2>1 DEF Claimants
<1>2. FlatIsFlat'
  BY DEF FlatIsFlat
<1>3. Holder'
  BY DEF Holder
<1>4. PoolPlans'
  <2> SUFFICES ASSUME NEW h \in Engines, inside[h].call # "none"
               PROVE  /\ \A s \in Engines \ stray : claims[s] # "no" /\ inside[h].plan[s] = "no" => snapshot'[s] = "flat"
                      /\ Cardinality(Claimed(inside[h].plan) \ stray) <= cap
    BY DEF PoolPlans, Claimed
  <2> QED BY DEF PoolPlans
<1>5. ClaimsWithinCap'
  BY DEF ClaimsWithinCap, Claimed
<1> QED BY <1>1, <1>2, <1>3, <1>4, <1>5

\* The steps of a campaign outside the lock.
LEMMA CampaignKeepsClaims ==
  ASSUME ClaimsInv, PoolTypes', NEW e \in Engines, CampaignMoves(e)
  PROVE  ClaimsInv'
<1> USE DEF ClaimsInv
<1>1. ASSUME Rests(e) \/ Disarms(e) \/ Cancels(e) \/ EntryFills(e) \/ FillTold(e) \/ Cleared(e) \/ PositionEnds(e)
      PROVE  ClaimsInv'
  <2>1. PICK st, ex : Moves(e, st, ex) /\ LiveEngine(e)
          /\ (e \notin stray => snapshot[e] # "flat" /\ (st = "flat" => ex = "none"))
          /\ (inside[e].call # "none" => st = engine[e] /\ atExchange[e] # "none")
    BY <1>1 DEF Rests, Disarms, Cancels, EntryFills, FillTold, Cleared, PositionEnds, In, Up, LiveEngine, FlatIsFlat
  <2>2. /\ engine'[e] = st /\ atExchange'[e] = ex /\ snapshot' = snapshot
        /\ \A s \in Engines : s # e => engine'[s] = engine[s] /\ atExchange'[s] = atExchange[s]
        /\ lock' = lock /\ inside' = inside /\ claims' = claims /\ stray' = stray /\ cap' = cap
    BY <2>1 DEF Moves, PoolTypes
  <2> QED BY <2>1, <2>2, MovesKeepClaims
<1>2. ASSUME GivesUp(e) PROVE ClaimsInv'
  <2>1. /\ stray' = stray \union {e} /\ Claimed(claims) \ stray' \subseteq Claimed(claims) \ stray
        /\ \A s \in Engines : s # e => engine'[s] = engine[s]
        /\ inside[e].call = "none"
        /\ atExchange' = atExchange /\ snapshot' = snapshot /\ lock' = lock /\ inside' = inside /\ claims' = claims /\ cap' = cap
    BY <1>2 DEF GivesUp, In, Up, PoolTypes
  <2>2. cap \in Nat
    BY PoolNumbers DEF PoolTypes
  <2>3. Claimants'
    BY <2>1 DEF Claimants, LiveEngine, Occupied
  <2>4. FlatIsFlat'
    BY <2>1 DEF FlatIsFlat
  <2>5. Holder'
    BY <2>1 DEF Holder
  <2>6. PoolPlans'
    <3> SUFFICES ASSUME NEW h \in Engines, inside[h].call # "none"
                 PROVE  /\ \A s \in Engines \ stray' : claims[s] # "no" /\ inside[h].plan[s] = "no" => snapshot[s] = "flat"
                        /\ Cardinality(Claimed(inside[h].plan) \ stray') <= cap
      BY <2>1 DEF PoolPlans, Claimed
    <3>1. Cardinality(Claimed(inside[h].plan) \ stray) <= cap
      BY DEF PoolPlans
    <3>2. /\ Claimed(inside[h].plan) \ stray' \subseteq Claimed(inside[h].plan) \ stray
          /\ Claimed(inside[h].plan) \in SUBSET Engines
      BY <2>1 DEF Claimed
    <3>3. Cardinality(Claimed(inside[h].plan) \ stray') <= cap
      BY <2>2, <3>1, <3>2, FewerFit
    <3> QED BY <2>1, <3>3 DEF PoolPlans
  <2>7. ClaimsWithinCap'
    <3>1. Claimed(claims) \in SUBSET Engines /\ Claimed(claims)' = Claimed(claims)
      BY <2>1 DEF Claimed
    <3>2. Cardinality(Claimed(claims) \ stray') <= cap
      BY <2>1, <2>2, <3>1, FewerFit DEF ClaimsWithinCap
    <3> QED BY <2>1, <3>1, <3>2 DEF ClaimsWithinCap
  <2> QED BY <2>3, <2>4, <2>5, <2>6, <2>7
<1>3. ASSUME Loses(e) PROVE ClaimsInv'
  BY <1>3, MovesKeepClaims DEF Loses, In, FlatIsFlat, LiveEngine, Occupied
<1>4. ASSUME WritesState(e) PROVE ClaimsInv'
  <2>1. /\ inside[e].call = "none" /\ engine[e] # "down"
        /\ engine' = engine /\ atExchange' = atExchange /\ lock' = lock /\ inside' = inside
        /\ claims' = claims /\ stray' = stray /\ cap' = cap
        /\ snapshot'[e] = (IF engine[e] \in {"armed", "resting"} THEN "armed" ELSE engine[e])
        /\ \A s \in Engines : s # e => snapshot'[s] = snapshot[s]
    BY <1>4 DEF WritesState, Up, World, Armed, PoolTypes
  <2>2. LiveEngine(e)' => LiveEngine(e)
    BY <2>1 DEF LiveEngine, Occupied
  <2>3. e \notin stray =>
           /\ snapshot'[e] = "flat" => engine'[e] \in {"flat", "down"} /\ atExchange'[e] = "none"
           /\ engine'[e] = "flat" => atExchange'[e] = "none"
           /\ snapshot[e] = "flat" => snapshot'[e] = "flat"
    BY <2>1 DEF FlatIsFlat
  <2> QED BY <2>1, <2>2, <2>3, MovesKeepClaims
<1>5. ASSUME Starts(e) PROVE ClaimsInv'
  <2>1. /\ engine[e] = "down" /\ inside[e].call = "none"
        /\ snapshot' = snapshot /\ atExchange' = atExchange /\ lock' = lock /\ inside' = inside
        /\ claims' = claims /\ stray' = stray /\ cap' = cap
        /\ \A s \in Engines : s # e => engine'[s] = engine[s]
    BY <1>5 DEF Starts, World, Holder, PoolTypes
  <2>2. \/ engine'[e] = "resting" /\ atExchange[e] = "resting"
        \/ engine'[e] = "held" /\ snapshot[e] = "held"
        \/ engine'[e] = "foreign" /\ atExchange[e] = "held"
        \/ engine'[e] = "flat" /\ atExchange[e] = "none"
    BY <1>5 DEF Starts, PoolTypes
  <2>3. LiveEngine(e)' => LiveEngine(e)
    BY <2>1, <2>2 DEF LiveEngine, Occupied
  <2>4. e \notin stray /\ snapshot[e] = "flat" => engine'[e] = "flat" /\ atExchange[e] = "none"
    BY <2>2 DEF FlatIsFlat
  <2> QED BY <2>1, <2>2, <2>3, <2>4, MovesKeepClaims
<1>6. ASSUME Crash(e) PROVE ClaimsInv'
  <2>1. /\ engine'[e] = "down" /\ inside'[e].call = "none" /\ ~inside'[e].ok
        /\ snapshot' = snapshot /\ atExchange' = atExchange
        /\ claims' = claims /\ stray' = stray /\ cap' = cap
        /\ \A s \in Engines : s # e => engine'[s] = engine[s] /\ inside'[s] = inside[s]
    BY <1>6 DEF Crash, Outside, PoolTypes
  <2>2. \A s \in Engines : s # e /\ inside[s].call # "none" => lock' = s
    BY <1>6 DEF Crash, Holder
  <2>3. Claimants'
    BY <2>1 DEF Claimants, LiveEngine, Occupied
  <2>4. FlatIsFlat'
    BY <2>1 DEF FlatIsFlat
  <2>5. Holder'
    BY <2>1, <2>2 DEF Holder
  <2>6. PoolPlans'
    BY <2>1 DEF PoolPlans, Claimed
  <2>7. ClaimsWithinCap'
    BY <2>1 DEF ClaimsWithinCap, Claimed
  <2> QED BY <2>3, <2>4, <2>5, <2>6, <2>7
<1> QED BY <1>1, <1>2, <1>3, <1>4, <1>5, <1>6 DEF CampaignMoves

\* The invariant of the claims holds throughout.
THEOREM ClaimsHold == PoolSpec => []ClaimsInv
<1>1. PoolInit => ClaimsInv
  BY PoolStarts
<1>2. ClaimsInv /\ [PoolNext]_poolVars => ClaimsInv'
  <2> SUFFICES ASSUME ClaimsInv, [PoolNext]_poolVars PROVE ClaimsInv'
    OBVIOUS
  <2>1. PoolTypes'
    BY PoolTypesKept DEF ClaimsInv
  <2>2. ASSUME NEW e \in Engines, Call(e) PROVE ClaimsInv'
    BY <2>1, <2>2, EntersKeepClaims, WriteKeepsClaims DEF Call
  <2>3. ASSUME NEW e \in Engines, CampaignMoves(e) PROVE ClaimsInv'
    BY <2>1, <2>3, CampaignKeepsClaims
  <2>4. CASE LockVerified \/ DayRolls \/ UNCHANGED poolVars
    <3>1. UNCHANGED <<cap, inside, claims, engine, snapshot, atExchange, stray>>
      BY <2>4 DEF LockVerified, DayRolls, poolVars, World
    <3>2. \A e \in Engines : inside[e].call # "none" => lock' = lock
      BY <2>4, PoolAssumption DEF LockVerified, DayRolls, poolVars, ClaimsInv, Holder
    <3>3. Claimants' /\ FlatIsFlat' /\ ClaimsWithinCap'
      BY <3>1 DEF ClaimsInv, Claimants, FlatIsFlat, ClaimsWithinCap, Claimed, LiveEngine, Occupied
    <3>4. Holder' /\ PoolPlans'
      BY <3>1, <3>2 DEF ClaimsInv, Holder, PoolPlans, Claimed
    <3> QED BY <2>1, <3>3, <3>4 DEF ClaimsInv
  <2> QED BY <2>2, <2>3, <2>4 DEF PoolNext
<1> QED BY <1>1, <1>2, PTL DEF PoolSpec

\* However the processes interleave, die and come back, no more than cap of them are
\* exposed at once: what is exposed and not given up has a claim in the file, and
\* _sweep and claim() never write more claims than the pool allows.
THEOREM PoolKeepsCap == PoolSpec => []CampaignsWithinCap
<1>1. ClaimsInv => CampaignsWithinCap
  <2> SUFFICES ASSUME ClaimsInv PROVE CampaignsWithinCap
    OBVIOUS
  <2>1. ExposedEngines \ stray \subseteq Claimed(claims) \ stray
    BY DEF ClaimsInv, Claimants, LiveEngine, ExposedEngines, Claimed
  <2>2. cap \in Nat /\ Claimed(claims) \in SUBSET Engines /\ ExposedEngines \in SUBSET Engines
    BY PoolNumbers DEF ClaimsInv, PoolTypes, Claimed, ExposedEngines
  <2> QED BY <2>1, <2>2, FewerFit DEF ClaimsInv, ClaimsWithinCap, CampaignsWithinCap
<1> QED BY <1>1, ClaimsHold, PTL

----------------------------------------------------------------------------
(* The day's losses.                                                       *)

\* Only what is open can still lose.
LeftIsOpen == \A e \in Engines : left[e] > 0 => engine[e] = "armed" \/ atExchange[e] # "none"

\* The budget holds what is open, and what a call inside the lock was granted.
Granted ==
  stray = {} /\ ~carried =>
    /\ lost + SumFunction(left) <= Limit
    /\ \A e \in Engines : inside[e].call = "claim" /\ inside[e].ok => lost + SumFunction(left) + Risk <= Limit

LossInv == ClaimsInv /\ LeftIsOpen /\ Granted

\* The sum of what is left is a natural number, over all engines.
LEMMA LeftSum ==
  ASSUME PoolTypes
  PROVE  SumFunction(left) = SumFunctionOnSet(left, Engines) /\ SumFunction(left) \in Int
<1>1. IsFiniteSet(Engines) /\ DOMAIN left = Engines
  BY PoolAssumption DEF PoolTypes
<1>2. \A e \in Engines : left[e] \in Int
  BY PoolNumbers DEF PoolTypes
<1>3. SumFunctionOnSet(left, Engines) \in Int
  BY <1>1, <1>2, SumIsInt
<1> QED BY <1>1, <1>3 DEF SumFunction

\* A step after which no campaign may lose more, and the day has not lost more.
LEMMA ShrinksKeepsGrants ==
  ASSUME PoolTypes, PoolTypes', Granted, stray' = {} => stray = {}, ~carried' => ~carried,
         \A e \in Engines : left'[e] <= left[e], lost' <= lost,
         \A e \in Engines : inside'[e].ok => inside'[e].call = inside[e].call /\ inside[e].ok
  PROVE  Granted'
<1>1. IsFiniteSet(Engines) /\ Risk \in Int /\ Limit \in Int /\ lost \in Int /\ lost' \in Int
  BY PoolAssumption, PoolNumbers DEF PoolTypes
<1>2. \A e \in Engines : left[e] \in Int /\ left'[e] \in Int
  BY PoolNumbers DEF PoolTypes
<1>3. SumFunctionOnSet(left', Engines) <= SumFunctionOnSet(left, Engines)
  BY <1>1, <1>2, SumMonotone
<1>4. SumFunction(left) = SumFunctionOnSet(left, Engines) /\ SumFunction(left) \in Int
  BY LeftSum
<1>5. SumFunction(left') = SumFunctionOnSet(left', Engines) /\ SumFunction(left') \in Int
  <2>1. DOMAIN left' = Engines
    BY DEF PoolTypes
  <2>2. SumFunctionOnSet(left', Engines) \in Int
    BY <1>1, <1>2, SumIsInt
  <2> QED BY <2>1, <2>2 DEF SumFunction
<1>6. lost' + SumFunction(left') <= lost + SumFunction(left)
  BY <1>1, <1>3, <1>4, <1>5
<1> DEFINE before == lost + SumFunction(left)
           after == lost' + SumFunction(left')
<1>7. before \in Int /\ after \in Int /\ after <= before
  BY <1>1, <1>4, <1>5, <1>6
<1>8. SUFFICES ASSUME stray' = {}, ~carried'
               PROVE  /\ after <= Limit
                      /\ \A e \in Engines : inside'[e].call = "claim" /\ inside'[e].ok => after + Risk <= Limit
  BY DEF Granted
<1>9. /\ before <= Limit
      /\ \A e \in Engines : inside[e].call = "claim" /\ inside[e].ok => before + Risk <= Limit
  BY <1>8 DEF Granted
<1> HIDE DEF before, after
<1> QED BY <1>1, <1>7, <1>9

\* claim() counts the nominal loss of everybody else who has a claim; whoever can
\* still lose is among them.
LEMMA ClaimIsAfforded ==
  ASSUME LossInv, stray = {}, NEW e \in Engines, engine[e] = "flat", atExchange[e] = "none",
         NEW swept \in Swept(e), MayClaim(e, swept)
  PROVE  lost + SumFunction(left) + Risk <= Limit
<1> DEFINE T == Claimed(swept) \ {e}
<1>1. PoolTypes /\ Risk \in Nat /\ Limit \in Int /\ lost \in Int /\ IsFiniteSet(Engines) /\ T \in SUBSET Engines
  BY PoolAssumption, PoolNumbers DEF LossInv, ClaimsInv, PoolTypes, Claimed
<1>2. \A s \in Engines : left[s] \in Int /\ left[s] <= Risk /\ left[s] >= 0
  BY <1>1, PoolNumbers DEF PoolTypes
<1>3. \A s \in Engines : left[s] > 0 => s \in T
  <2> SUFFICES ASSUME NEW s \in Engines, left[s] > 0 PROVE s \in T
    OBVIOUS
  <2>1. s # e /\ (engine[s] = "armed" \/ atExchange[s] # "none")
    BY DEF LossInv, LeftIsOpen
  <2>2. claims[s] # "no" /\ snapshot[s] # "flat"
    BY <2>1 DEF LossInv, ClaimsInv, Claimants, LiveEngine, FlatIsFlat
  <2>3. swept[s] = claims[s]
    BY <1>1, <2>2, SweptType DEF FlatProven
  <2> QED BY <2>1, <2>2, <2>3 DEF Claimed
<1>4. \A s \in Engines : left[s] \in Int /\ left[s] <= (IF s \in T THEN Risk ELSE 0)
  BY <1>2, <1>3
<1>5. lost + Cardinality(T) * Risk + Risk <= Limit
  BY DEF MayClaim, Affords
<1>6. Cardinality(T) \in Nat
  <2>1. IsFiniteSet(T)
    BY <1>1, FS_Subset
  <2> QED BY <2>1, FS_CardinalityType
<1> HIDE DEF T
<1>7. SumFunctionOnSet(left, Engines) <= Cardinality(T) * Risk
  BY <1>1, <1>4, SumBounded
<1>8. SumFunction(left) = SumFunctionOnSet(left, Engines) /\ SumFunction(left) \in Int
  BY <1>1, LeftSum
<1>9. Cardinality(T) * Risk \in Int
  BY <1>1, <1>6
<1> QED BY <1>1, <1>5, <1>7, <1>8, <1>9

\* Taking the lock: only a granted claim changes what the budget must hold.
LEMMA EntersKeepGrants ==
  ASSUME LossInv, ClaimsInv', NEW e \in Engines, Claim(e) \/ Adopt(e) \/ Refresh(e) \/ Release(e)
  PROVE  LeftIsOpen' /\ Granted'
<1>1. /\ lock = Free /\ left' = left /\ lost' = lost /\ stray' = stray /\ carried' = carried
      /\ engine' = engine /\ atExchange' = atExchange
      /\ \A s \in Engines : s # e => inside'[s] = inside[s]
  BY DEF Claim, Adopt, Refresh, Release, Enters, World, LossInv, ClaimsInv, PoolTypes
<1>2. \A s \in Engines : s # e => inside'[s].call = "none"
  BY <1>1, NobodyInside DEF LossInv, ClaimsInv
<1>3. LeftIsOpen'
  BY <1>1 DEF LossInv, LeftIsOpen
<1>4. Granted'
  <2>1. CASE Claim(e)
    <3>1. PICK swept \in Swept(e) :
            IF MayClaim(e, swept) THEN Enters(e, "claim", [swept EXCEPT ![e] = "leased"], TRUE)
            ELSE Enters(e, "claim", swept, FALSE)
      BY <2>1 DEF Claim
    <3>2. inside'[e].ok => MayClaim(e, swept)
      BY <3>1 DEF Enters, LossInv, ClaimsInv, PoolTypes
    <3>3. engine[e] = "flat" /\ atExchange[e] = "none"
      BY <2>1 DEF Claim
    <3>4. stray = {} /\ inside'[e].ok => lost + SumFunction(left) + Risk <= Limit
      BY <3>2, <3>3, ClaimIsAfforded
    <3> QED BY <1>1, <1>2, <3>4 DEF Granted, LossInv
  <2>2. CASE Adopt(e) \/ Refresh(e) \/ Release(e)
    <3>1. inside'[e].call # "claim"
      BY <2>2 DEF Adopt, Refresh, Release, Enters, LossInv, ClaimsInv, PoolTypes
    <3> QED BY <1>1, <1>2, <3>1 DEF Granted, LossInv
  <2> QED BY <2>1, <2>2
<1> QED BY <1>3, <1>4

\* The arm takes the loss that was set aside for it.
LEMMA WriteKeepsGrants ==
  ASSUME LossInv, ClaimsInv', NEW e \in Engines, Writes(e)
  PROVE  LeftIsOpen' /\ Granted'
<1>1. /\ \A s \in Engines : s # e => inside'[s] = inside[s] /\ inside[s].call = "none"
      /\ inside'[e].call = "none" /\ inside'[e].ok = FALSE
      /\ lost' = lost /\ stray' = stray /\ carried' = carried /\ atExchange' = atExchange
      /\ \A s \in Engines : s # e => engine'[s] = engine[s]
  BY DEF Writes, Holder, PoolTypes, Outside, LossInv, ClaimsInv
<1>2. CASE inside[e].call = "claim" /\ inside[e].ok
  <2>1. engine[e] = "flat" /\ atExchange[e] = "none" /\ left[e] \in Nat
    BY <1>2, PoolNumbers DEF LossInv, ClaimsInv, Holder, PoolTypes
  <2>2. left[e] = 0
    BY <2>1 DEF LossInv, LeftIsOpen
  <2>3. left' = [left EXCEPT ![e] = Risk] /\ engine'[e] = "armed"
    BY <1>2 DEF Writes, LossInv, ClaimsInv, PoolTypes
  <2>4. LeftIsOpen'
    BY <1>1, <2>3 DEF LossInv, LeftIsOpen, ClaimsInv, PoolTypes
  <2>5. IsFiniteSet(Engines) /\ PoolTypes /\ PoolTypes' /\ Risk \in Nat /\ lost \in Int
    BY PoolAssumption, PoolNumbers DEF LossInv, ClaimsInv, PoolTypes
  <2>6. /\ \A s \in Engines : left[s] \in Int /\ left'[s] \in Int
        /\ \A s \in Engines \ {e} : left'[s] = left[s]
        /\ left'[e] = Risk /\ DOMAIN left' = Engines
    BY <2>3, <2>5 DEF PoolTypes
  <2>7. SumFunctionOnSet(left', Engines) = SumFunctionOnSet(left, Engines) - left[e] + left'[e]
    BY <2>5, <2>6, SumChange
  <2>8. SumFunction(left) = SumFunctionOnSet(left, Engines) /\ SumFunction(left) \in Int
    BY <2>5, LeftSum
  <2>9. SumFunction(left') = SumFunction(left) + Risk
    BY <2>2, <2>5, <2>6, <2>7, <2>8 DEF SumFunction
  <2>10. stray = {} /\ ~carried => lost + SumFunction(left) + Risk <= Limit
    BY <1>2 DEF LossInv, Granted
  <2>11. lost + SumFunction(left') = lost + SumFunction(left) + Risk
    BY <2>5, <2>8, <2>9
  <2>12. \A s \in Engines : inside'[s].call # "claim"
    BY <1>1
  <2> QED BY <1>1, <2>4, <2>10, <2>11, <2>12 DEF Granted
<1>3. CASE ~(inside[e].call = "claim" /\ inside[e].ok)
  <2>1. left' = left /\ engine' = engine
    BY <1>3 DEF Writes
  <2>2. LeftIsOpen'
    BY <1>1, <2>1 DEF LossInv, LeftIsOpen
  <2>3. \A s \in Engines : inside'[s].call # "claim"
    BY <1>1
  <2> QED BY <1>1, <2>1, <2>2, <2>3 DEF Granted, LossInv
<1> QED BY <1>2, <1>3

\* A campaign spends what it was given, and gives the rest back when it ends.
LEMMA CampaignKeepsGrants ==
  ASSUME LossInv, ClaimsInv', NEW e \in Engines, CampaignMoves(e)
  PROVE  LeftIsOpen' /\ Granted'
<1>1. PoolTypes /\ PoolTypes' /\ Granted /\ lost \in Int /\ Risk \in Nat
  BY PoolNumbers DEF LossInv, ClaimsInv, PoolTypes
<1>2. \A s \in Engines : left[s] \in Int /\ left[s] >= 0 /\ left[s] <= left[s]
  BY <1>1 DEF PoolTypes
<1>3. ASSUME Rests(e) \/ Disarms(e) \/ Cancels(e) \/ EntryFills(e) \/ FillTold(e) \/ Cleared(e) \/ PositionEnds(e)
      PROVE  LeftIsOpen' /\ Granted'
  <2>1. PICK st, ex : Moves(e, st, ex)
    BY <1>3 DEF Rests, Disarms, Cancels, EntryFills, FillTold, Cleared, PositionEnds
  <2>2. lost' <= lost
    BY <1>1, <1>3 DEF Rests, Disarms, Cancels, EntryFills, FillTold, Cleared, PositionEnds
  <2>3. /\ \A s \in Engines : s # e => left'[s] = left[s] /\ engine'[s] = engine[s] /\ atExchange'[s] = atExchange[s]
        /\ left'[e] = (IF ex = "none" /\ st # "armed" THEN 0 ELSE left[e])
        /\ engine'[e] = st /\ atExchange'[e] = ex
        /\ inside' = inside /\ stray' = stray /\ carried' = carried
    BY <1>1, <2>1 DEF Moves, PoolTypes
  <2>4. \A s \in Engines : left'[s] <= left[s]
    BY <1>2, <2>3
  <2>5. Granted'
    BY <1>1, <2>2, <2>3, <2>4, ShrinksKeepsGrants
  <2>6. LeftIsOpen'
    BY <2>3 DEF LossInv, LeftIsOpen
  <2> QED BY <2>5, <2>6
<1>4. ASSUME GivesUp(e) PROVE LeftIsOpen' /\ Granted'
  <2>1. /\ stray' # {} /\ left' = left /\ atExchange' = atExchange /\ atExchange[e] = "resting"
        /\ \A s \in Engines : s # e => engine'[s] = engine[s]
    BY <1>1, <1>4 DEF GivesUp, In, PoolTypes
  <2> QED BY <2>1 DEF Granted, LossInv, LeftIsOpen
<1>5. ASSUME Loses(e) PROVE LeftIsOpen' /\ Granted'
  <2>1. /\ left' = [left EXCEPT ![e] = left[e] - 1] /\ lost' = lost + 1 /\ atExchange[e] = "held"
        /\ inside' = inside /\ stray' = stray /\ carried' = carried
        /\ engine' = engine /\ atExchange' = atExchange
    BY <1>5 DEF Loses, In
  <2>2. IsFiniteSet(Engines)
    BY PoolAssumption
  <2>3. /\ \A s \in Engines : left[s] \in Int /\ left'[s] \in Int
        /\ \A s \in Engines \ {e} : left'[s] = left[s]
        /\ left'[e] = left[e] - 1 /\ DOMAIN left' = Engines
    BY <1>1, <1>2, <2>1 DEF PoolTypes
  <2>4. SumFunctionOnSet(left', Engines) = SumFunctionOnSet(left, Engines) - left[e] + left'[e]
    BY <2>2, <2>3, SumChange
  <2>5. SumFunction(left) = SumFunctionOnSet(left, Engines) /\ SumFunction(left) \in Int
    BY <1>1, LeftSum
  <2>6. lost' + SumFunction(left') = lost + SumFunction(left)
    BY <1>1, <1>2, <2>1, <2>3, <2>4, <2>5 DEF SumFunction
  <2>7. LeftIsOpen'
    BY <2>1, <2>3 DEF LossInv, LeftIsOpen
  <2>8. Granted'
    BY <1>1, <2>1, <2>6 DEF Granted
  <2> QED BY <2>7, <2>8
<1>6. ASSUME WritesState(e) PROVE LeftIsOpen' /\ Granted'
  BY <1>1, <1>6 DEF WritesState, World, LossInv, LeftIsOpen, Granted
<1>7. ASSUME Crash(e) PROVE LeftIsOpen' /\ Granted'
  <2>1. /\ \A s \in Engines : s # e => left'[s] = left[s] /\ engine'[s] = engine[s] /\ inside'[s] = inside[s]
        /\ left'[e] = (IF atExchange[e] = "none" THEN 0 ELSE left[e])
        /\ atExchange' = atExchange /\ lost' = lost /\ ~inside'[e].ok /\ stray' = stray /\ carried' = carried
    BY <1>1, <1>7 DEF Crash, Outside, PoolTypes
  <2>2. \A s \in Engines : left'[s] <= left[s]
    BY <1>2, <2>1
  <2>3. lost' <= lost
    BY <1>1, <2>1
  <2>4. Granted'
    BY <1>1, <2>1, <2>2, <2>3, ShrinksKeepsGrants
  <2>5. LeftIsOpen'
    BY <2>1 DEF LossInv, LeftIsOpen
  <2> QED BY <2>4, <2>5
<1>8. ASSUME Starts(e) PROVE LeftIsOpen' /\ Granted'
  <2>1. /\ engine[e] = "down" /\ \A s \in Engines : s # e => engine'[s] = engine[s]
        /\ atExchange' = atExchange /\ left' = left /\ lost' = lost /\ inside' = inside /\ stray' = stray /\ carried' = carried
    BY <1>1, <1>8 DEF Starts, World, PoolTypes
  <2> QED BY <1>1, <2>1 DEF LossInv, LeftIsOpen, Granted
<1> QED BY <1>3, <1>4, <1>5, <1>6, <1>7, <1>8 DEF CampaignMoves

\* At midnight the loss of the day is forgotten, and a gain too; only a gain can have
\* backed more than the limit.
LEMMA DayKeepsGrants ==
  ASSUME LossInv, ClaimsInv', DayRolls
  PROVE  LeftIsOpen' /\ Granted'
<1>1. /\ lost' = 0 /\ left' = left /\ engine' = engine /\ atExchange' = atExchange /\ inside' = inside /\ stray' = stray
      /\ carried' = (carried \/ (lost < 0 /\ \E e \in Engines : left[e] > 0 \/ inside[e].ok))
  BY DEF DayRolls
<1>2. PoolTypes /\ PoolTypes' /\ lost \in Int /\ Limit \in Nat /\ IsFiniteSet(Engines)
  BY PoolAssumption, PoolNumbers DEF LossInv, ClaimsInv, PoolTypes
<1>3. LeftIsOpen'
  BY <1>1 DEF LossInv, LeftIsOpen
<1>4. CASE lost >= 0
  <2>1. \A e \in Engines : left'[e] <= left[e]
    BY <1>1, <1>2, PoolNumbers DEF PoolTypes
  <2>2. lost' <= lost /\ Granted
    BY <1>1, <1>2, <1>4 DEF LossInv
  <2>3. \A e \in Engines : inside'[e].ok => inside'[e].call = inside[e].call /\ inside[e].ok
    BY <1>1
  <2>4. (stray' = {} => stray = {}) /\ (~carried' => ~carried)
    BY <1>1
  <2> QED BY <1>2, <1>3, <2>1, <2>2, <2>3, <2>4, ShrinksKeepsGrants
<1>5. CASE lost < 0
  <2> SUFFICES ASSUME ~carried' PROVE Granted'
    BY <1>3 DEF Granted
  <2>1. \A e \in Engines : ~(left[e] > 0) /\ ~inside[e].ok
    BY <1>1, <1>5
  <2>2. \A e \in Engines : left[e] = 0
    BY <1>2, <2>1, PoolNumbers DEF PoolTypes
  <2>3. SumFunctionOnSet(left, Engines) = 0
    BY <1>2, <2>2, SumOfZeros
  <2>4. SumFunction(left') = 0
    BY <1>1, <1>2, <2>3, LeftSum
  <2>5. lost' + SumFunction(left') <= Limit
    BY <1>1, <1>2, <2>4
  <2> QED BY <1>1, <2>1, <2>5 DEF Granted
<1> QED BY <1>2, <1>3, <1>4, <1>5

\* What the engines have lost and may still lose stays within the day's limit, though
\* each of them decides alone from a file: claim() reckons everybody else's nominal
\* loss before it grants one.
THEOREM PoolKeepsLimit == PoolSpec => []LossesWithinLimit
<1>1. PoolInit => LossInv
  <2> SUFFICES ASSUME PoolInit PROVE LossInv
    OBVIOUS
  <2>1. ClaimsInv
    BY PoolStarts
  <2>2. IsFiniteSet(Engines) /\ Limit \in Nat /\ PoolTypes
    BY <2>1, PoolAssumption, PoolNumbers DEF ClaimsInv
  <2>3. \A e \in Engines : left[e] = 0 /\ ~inside[e].ok
    BY DEF PoolInit, Outside
  <2>4. SumFunctionOnSet(left, Engines) = 0
    BY <2>2, <2>3, SumOfZeros
  <2>5. lost + SumFunction(left) = 0
    BY <2>2, <2>4, LeftSum DEF PoolInit
  <2> QED BY <2>1, <2>2, <2>3, <2>5 DEF LossInv, LeftIsOpen, Granted
<1>2. LossInv /\ ClaimsInv' /\ [PoolNext]_poolVars => LossInv'
  <2> SUFFICES ASSUME LossInv, ClaimsInv', [PoolNext]_poolVars PROVE LeftIsOpen' /\ Granted'
    BY DEF LossInv
  <2>1. ASSUME NEW e \in Engines, Call(e) PROVE LeftIsOpen' /\ Granted'
    BY <2>1, EntersKeepGrants, WriteKeepsGrants DEF Call
  <2>2. ASSUME NEW e \in Engines, CampaignMoves(e) PROVE LeftIsOpen' /\ Granted'
    BY <2>2, CampaignKeepsGrants
  <2>3. CASE LockVerified \/ UNCHANGED poolVars
    BY <2>3 DEF LockVerified, poolVars, World, LossInv, LeftIsOpen, Granted
  <2>4. CASE DayRolls
    BY <2>4, DayKeepsGrants
  <2> QED BY <2>1, <2>2, <2>3, <2>4 DEF PoolNext
<1>3. LossInv => LossesWithinLimit
  BY DEF LossInv, Granted, LossesWithinLimit
<1> QED BY <1>1, <1>2, <1>3, ClaimsHold, PTL DEF PoolSpec

----------------------------------------------------------------------------
(* CycleSlots.                                                             *)

Ops == {"none", "place", "cancel", "look", "ask", "resync"}
Views == {<<>>, <<TRUE>>, <<FALSE>>} \union [Placed -> Int]
Works == [o : Placed \union {0}, known : BOOLEAN, pend : BOOLEAN, unconfirmed : BOOLEAN,
          settling : Nat, filled : Nat, wish : BOOLEAN]
Awaits == [op : Ops, o : Placed \union {0}, view : Views, stale : BOOLEAN]
News == [o : Placed, final : BOOLEAN, acc : Nat]

SlotTypes ==
  /\ work \in Works /\ task \in [Tasks -> Awaits] /\ started \in BOOLEAN
  /\ sent \in [Placed -> {"none", "sent", "live", "over", "refused"}]
  /\ filled \in [Placed -> Nat] /\ told \in [Placed -> Nat]
  /\ news \in Seq(News) /\ outrun \in SUBSET Placed

\* What the exchange executes and tells.
ExchangeTrue ==
  \A o \in Placed :
    /\ told[o] <= filled[o] /\ filled[o] <= Sizes[o]
    /\ sent[o] \in {"none", "sent", "refused"} => filled[o] = 0
    /\ sent[o] = "live" => filled[o] < Sizes[o]

NewsTrue ==
  \A i \in DOMAIN news :
    /\ sent[news[i].o] \in {"live", "over"} /\ news[i].acc <= filled[news[i].o]
    /\ news[i].final => sent[news[i].o] = "over" /\ news[i].acc = filled[news[i].o]

\* What the record says of its order, unless a REST answer outran the pushes.
RecordTrue ==
  /\ work.o = 0 => work = Empty
  /\ work.o # 0 =>
       /\ sent[work.o] # "none"
       /\ work.o \in outrun \/ work.filled <= told[work.o]
       /\ sent[work.o] = "sent" => work.unconfirmed
       /\ work.settling > 0 => sent[work.o] = "over" /\ work.settling >= filled[work.o]

\* What an awaited call asked for, and an answer that is there.
AnswersTrue ==
  LET c == task["consumer"]
      h == task["housekeeping"]
  IN /\ c.op \in {"none", "place", "cancel"}
     /\ c.op = "place" => c.o \in Placed /\ sent[c.o] # "none"
     /\ \A t \in Tasks : task[t].op = "cancel" => task[t].o \in Placed
     /\ h.op \in {"look", "ask"} => h.o \in Placed /\ h.view \in {<<TRUE>>, <<FALSE>>}
     /\ h.op = "look" /\ h.view[1] => sent[h.o] \in {"live", "over"}
     /\ h.op = "ask" /\ h.view[1] => sent[h.o] = "over"
     /\ h.op = "resync" => h.view \in [Placed -> Int]
                           /\ \A o \in Placed : h.view[o] >= 0 => sent[o] \in {"live", "over"}
     /\ h.op # "place"

\* Whoever may still fill is the order of the work, or the one being placed.
Owner(o) == work.o = o \/ (Placing /\ task["consumer"].o = o)

Owned == started => \A o \in Placed \ outrun : Pending(o) => Owner(o)

\* Not both: what a resync put there while an order was being placed is not pending.
OneOwner ==
  Placing /\ work.o \in Placed \ outrun /\ work.o # task["consumer"].o => ~Pending(work.o)

\* Before the first resync the record is empty, but the exchange lists what works.
Unstarted ==
  ~started =>
    /\ work = Empty /\ task["consumer"].op = "none"
    /\ task["housekeeping"].op \in {"none", "resync"}
    /\ \A o \in Placed \ outrun : sent[o] # "sent"
    /\ task["housekeeping"].op = "resync" =>
         \A o \in Placed \ outrun : sent[o] = "live" => task["housekeeping"].view[o] >= 0
    /\ RemainderNotReordered

SlotsInv ==
  /\ SlotTypes /\ ExchangeTrue /\ NewsTrue /\ RecordTrue /\ AnswersTrue
  /\ Owned /\ OneOwner /\ Unstarted

\* Orders are numbered from one, and have a size.
LEMMA PlacedOrders == 0 \notin Placed /\ IsFiniteSet(Placed) /\ Placed \in SUBSET Nat /\ \A o \in Placed : Sizes[o] \in Nat \ {0}
<1>1. PICK n \in Nat : Placed = 1..n
  BY SlotAssumption DEF Placed
<1>2. IsFiniteSet(1..n)
  <2>1. 1 \in Int /\ n \in Int
    OBVIOUS
  <2> QED BY <2>1, FS_Interval
<1>3. \A o \in 1..n : Sizes[o] \in Nat \ {0}
  BY <1>1, SlotAssumption DEF Placed
<1> QED BY <1>1, <1>2, <1>3

\* The sequence of a finite set has its elements.
LEMMA SetToSeqOf == ASSUME NEW S, IsFiniteSet(S) PROVE SetToSeq(S) \in Seq(S)
<1> DEFINE n == Cardinality(S)
<1>1. n \in Nat /\ ExistsBijection(1..n, S)
  BY FS_CardinalityType
<1>2. \E f \in [1..n -> S] : IsInjective(f)
  BY <1>1 DEF ExistsBijection, Bijection, Injection, Surjection, IsInjective
<1>3. SetToSeq(S) \in [1..n -> S]
  BY <1>2, Zenon DEF SetToSeq
<1> QED BY <1>1, <1>3

\* A call that returns leaves the other one alone.
LEMMA ReturnsTask ==
  ASSUME SlotTypes, NEW t \in Tasks, Returns(t)
  PROVE  task'[t].op = "none" /\ task' \in [Tasks -> Awaits] /\ \A u \in Tasks \ {t} : task'[u] = task[u]
<1>1. NoTask \in Awaits /\ NoTask.op = "none"
  BY DEF NoTask, Awaits, Ops, Views
<1> QED BY <1>1 DEF Returns, SlotTypes

\* One that replaces the record makes the other's stale.
LEMMA ReplacesTask ==
  ASSUME SlotTypes, NEW t \in Tasks, Replaces(t)
  PROVE  /\ task'[t].op = "none" /\ task' \in [Tasks -> Awaits]
         /\ \A u \in Tasks \ {t} : task'[u].op = task[u].op
         /\ \A u \in Tasks \ {t} : task[u].op # "none" => task'[u].o = task[u].o /\ task'[u].view = task[u].view
<1>1. NoTask \in Awaits /\ NoTask.op = "none"
  BY DEF NoTask, Awaits, Ops, Views
<1>2. \A u \in Tasks : [task[u] EXCEPT !.stale = TRUE] \in Awaits
                      /\ [task[u] EXCEPT !.stale = TRUE].op = task[u].op
                      /\ [task[u] EXCEPT !.stale = TRUE].o = task[u].o
                      /\ [task[u] EXCEPT !.stale = TRUE].view = task[u].view
  BY DEF SlotTypes, Awaits
<1>3. \A u \in Tasks : task'[u] = IF u = t \/ task[u].op = "none" THEN NoTask ELSE [task[u] EXCEPT !.stale = TRUE]
  BY DEF Replaces
<1>4. task' \in [Tasks -> Awaits]
  BY <1>1, <1>2 DEF Replaces
<1>5. task'[t].op = "none"
  BY <1>1, <1>3
<1>6. ASSUME NEW u \in Tasks \ {t}
      PROVE  /\ task'[u].op = task[u].op
             /\ task[u].op # "none" => task'[u].o = task[u].o /\ task'[u].view = task[u].view
  <2>1. CASE task[u].op = "none"
    BY <1>1, <1>3, <2>1
  <2>2. CASE task[u].op # "none"
    <3>1. task'[u] = [task[u] EXCEPT !.stale = TRUE]
      BY <1>3, <2>2
    <3> QED BY <1>2, <2>2, <3>1
  <2> QED BY <2>1, <2>2
<1> QED BY <1>4, <1>5, <1>6

\* Records of the slot.
LEMMA SlotRecords ==
  /\ Empty \in Works /\ Empty.o = 0 /\ Empty.settling = 0
  /\ \A o \in Placed, n \in Nat :
       Tracked(o, n) \in Works /\ Tracked(o, n).o = o /\ Tracked(o, n).filled = n /\ Tracked(o, n).settling = 0
  /\ \A op \in Ops, o \in Placed \union {0} :
       /\ Awaiting(op, o) \in Awaits /\ Awaiting(op, o).op = op /\ Awaiting(op, o).o = o
       /\ \A b \in BOOLEAN : /\ [Awaiting(op, o) EXCEPT !.view = <<b>>] \in Awaits
                             /\ [Awaiting(op, o) EXCEPT !.view = <<b>>].view = <<b>>
                             /\ [Awaiting(op, o) EXCEPT !.view = <<b>>].op = op
                             /\ [Awaiting(op, o) EXCEPT !.view = <<b>>].o = o
  /\ NoTask \in Awaits /\ NoTask.op = "none"
<1>1. Empty \in Works /\ Empty.o = 0 /\ Empty.settling = 0
  BY DEF Empty, Works
<1>2. ASSUME NEW o \in Placed, NEW n \in Nat
      PROVE  Tracked(o, n) \in Works /\ Tracked(o, n).o = o /\ Tracked(o, n).filled = n /\ Tracked(o, n).settling = 0
  BY DEF Empty, Works, Tracked
<1>3. ASSUME NEW op \in Ops, NEW o \in Placed \union {0}
      PROVE  Awaiting(op, o) \in Awaits /\ Awaiting(op, o).op = op /\ Awaiting(op, o).o = o
  BY DEF NoTask, Awaiting, Awaits, Views
<1>4. ASSUME NEW op \in Ops, NEW o \in Placed \union {0}, NEW b \in BOOLEAN
      PROVE  /\ [Awaiting(op, o) EXCEPT !.view = <<b>>] \in Awaits
             /\ [Awaiting(op, o) EXCEPT !.view = <<b>>].view = <<b>>
             /\ [Awaiting(op, o) EXCEPT !.view = <<b>>].op = op
             /\ [Awaiting(op, o) EXCEPT !.view = <<b>>].o = o
  <2>1. <<b>> \in Views
    <3>1. b = TRUE \/ b = FALSE
      OBVIOUS
    <3> QED BY <3>1 DEF Views
  <2> HIDE DEF Views
  <2> QED BY <1>3, <2>1 DEF Awaits, Awaiting, NoTask
<1>5. NoTask \in Awaits /\ NoTask.op = "none"
  BY DEF NoTask, Awaits, Ops, Views
<1> QED BY <1>1, <1>2, <1>3, <1>4, <1>5

\* In a started book the owners are one.
LEMMA OwnersAreOne ==
  ASSUME SlotTypes, Owned, OneOwner, started PROVE RemainderNotReordered
BY DEF Owned, OneOwner, Owner, RemainderNotReordered

\* What a step of the exchange may do, as far as the book is concerned.
ExchangeStep ==
  /\ UNCHANGED <<work, task, started, outrun>>
  /\ \A o \in Placed :
       /\ told[o] <= told'[o] /\ told'[o] <= filled'[o]
       /\ \/ sent'[o] = sent[o] /\ filled'[o] = filled[o]
          \/ sent[o] = "sent" /\ sent'[o] \in {"live", "refused"} /\ filled'[o] = filled[o] /\ told'[o] = told[o]
          \/ sent[o] = "live" /\ sent'[o] \in {"live", "over"}

\* The exchange and the feed keep what is known of the orders true.
LEMMA ExchangeSteps ==
  ASSUME SlotTypes, ExchangeTrue, NewsTrue, FeedDrops \/ \E o \in Placed : Arrives(o) \/ Fills(o) \/ Ends(o)
  PROVE  SlotTypes' /\ ExchangeTrue' /\ NewsTrue' /\ ExchangeStep
<1>1. /\ \A o \in Placed : Sizes[o] \in Nat \ {0} /\ filled[o] \in Nat /\ told[o] \in Nat
      /\ news \in Seq(News)
  BY PlacedOrders DEF SlotTypes
<1>2. CASE FeedDrops
  <2>1. UNCHANGED <<work, task, started, sent, filled, outrun>> /\ told' = filled /\ news' = <<>>
    BY <1>2 DEF FeedDrops
  <2>2. SlotTypes'
    BY <2>1 DEF SlotTypes
  <2> QED BY <1>1, <2>1, <2>2 DEF ExchangeTrue, NewsTrue, ExchangeStep
<1>3. ASSUME NEW o \in Placed, Arrives(o) \/ Fills(o) \/ Ends(o)
      PROVE  SlotTypes' /\ ExchangeTrue' /\ NewsTrue' /\ ExchangeStep
  <2>1. UNCHANGED <<work, task, started, told, outrun>>
    BY <1>3 DEF Arrives, Fills, Ends
  <2>2. /\ \A p \in Placed \ {o} : sent'[p] = sent[p] /\ filled'[p] = filled[p]
        /\ \/ sent[o] = "sent" /\ sent'[o] \in {"live", "refused"} /\ filled'[o] = filled[o]
           \/ sent[o] = "live" /\ sent'[o] = "over" /\ filled'[o] = filled[o]
           \/ sent[o] = "live" /\ filled'[o] = filled[o] + 1
              /\ sent'[o] = IF filled'[o] = Sizes[o] THEN "over" ELSE "live"
    BY <1>3 DEF Arrives, Fills, Ends, SlotTypes
  <2>3. sent' \in [Placed -> {"none", "sent", "live", "over", "refused"}]
    BY <1>3 DEF Arrives, Fills, Ends, SlotTypes
  <2>4. filled' \in [Placed -> Nat]
    <3>1. filled[o] + 1 \in Nat
      BY <1>1
    <3> QED BY <1>3, <3>1 DEF Arrives, Fills, Ends, SlotTypes
  <2>5. news' = news \/ news' = Append(news, [o |-> o, final |-> sent'[o] = "over", acc |-> filled'[o]])
    <3>1. CASE Arrives(o)
      <4>1. filled[o] = 0
        BY <3>1 DEF Arrives, ExchangeTrue
      <4>2. CASE sent' = [sent EXCEPT ![o] = "live"]
        <5>1. sent'[o] = "live" /\ filled'[o] = 0
          BY <3>1, <4>1, <4>2 DEF Arrives, SlotTypes
        <5>2. (sent'[o] = "over") = FALSE
          BY <5>1
        <5> QED BY <3>1, <5>1, <5>2 DEF Arrives
      <4> QED BY <3>1, <4>2 DEF Arrives
    <3>2. CASE Ends(o)
      <4>1. (sent'[o] = "over") = TRUE /\ filled'[o] = filled[o]
        BY <3>2 DEF Ends, SlotTypes
      <4> QED BY <3>2, <4>1 DEF Ends
    <3>3. CASE Fills(o)
      <4>1. (sent'[o] = "over") = (filled'[o] = Sizes[o])
        BY <3>3 DEF Fills, SlotTypes
      <4>2. news' = Append(news, [o |-> o, final |-> filled'[o] = Sizes[o], acc |-> filled'[o]])
        BY <3>3 DEF Fills
      <4> QED BY <4>1, <4>2
    <3> QED BY <1>3, <3>1, <3>2, <3>3
  <2> DEFINE r == [o |-> o, final |-> sent'[o] = "over", acc |-> filled'[o]]
  <2>6. r \in News /\ r.o = o /\ (r.final => sent'[o] = "over") /\ r.acc = filled'[o]
    BY <2>4 DEF News
  <2>7. news' = news \/ (news' = Append(news, r) /\ sent'[o] \in {"live", "over"})
    <3>1. CASE sent'[o] \in {"live", "over"}
      BY <2>5, <3>1
    <3>2. CASE sent'[o] \notin {"live", "over"}
      <4>1. CASE Arrives(o)
        <5>1. sent' # [sent EXCEPT ![o] = "live"]
          BY <3>2 DEF SlotTypes
        <5> QED BY <4>1, <5>1 DEF Arrives
      <4> QED BY <1>3, <2>2, <3>2, <4>1 DEF Fills, Ends
    <3> QED BY <3>1, <3>2
  <2> HIDE DEF r
  <2>8. news' \in Seq(News)
    <3> HIDE DEF News
    <3> QED BY <1>1, <2>6, <2>7
  <2>9. SlotTypes'
    BY <2>1, <2>3, <2>4, <2>8 DEF SlotTypes
  <2>10. ExchangeTrue'
    BY <1>1, <2>1, <2>2 DEF ExchangeTrue
  <2>11. NewsTrue'
    <3> SUFFICES ASSUME NEW i \in DOMAIN news'
                 PROVE  /\ sent'[news'[i].o] \in {"live", "over"} /\ news'[i].acc <= filled'[news'[i].o]
                        /\ news'[i].final => sent'[news'[i].o] = "over" /\ news'[i].acc = filled'[news'[i].o]
      BY DEF NewsTrue
    <3>1. CASE i \in DOMAIN news /\ news'[i] = news[i]
      <4>1. news[i] \in News
        <5> HIDE DEF News
        <5> QED BY <1>1, <3>1
      <4>2. news[i].o \in Placed /\ news[i].acc \in Nat
        BY <4>1 DEF News
      <4> QED BY <1>1, <2>2, <3>1, <4>2 DEF NewsTrue
    <3>2. CASE ~(i \in DOMAIN news /\ news'[i] = news[i])
      <4>1. news'[i] = r /\ sent'[o] \in {"live", "over"}
        <5> HIDE DEF News
        <5> QED BY <1>1, <2>7, <3>2
      <4>2. filled'[o] \in Nat
        BY <2>4
      <4> QED BY <2>6, <4>1, <4>2
    <3> QED BY <3>1, <3>2
  <2>12. ExchangeStep
    BY <1>1, <2>1, <2>2 DEF ExchangeStep, ExchangeTrue
  <2> QED BY <2>9, <2>10, <2>11, <2>12
<1> QED BY <1>2, <1>3

\* The book knows nothing of it yet, and nothing new becomes pending.
LEMMA ExchangeKeeps ==
  ASSUME SlotsInv, FeedDrops \/ \E o \in Placed : Arrives(o) \/ Fills(o) \/ Ends(o)
  PROVE  SlotsInv'
<1>1. SlotTypes' /\ ExchangeTrue' /\ NewsTrue' /\ ExchangeStep
  BY ExchangeSteps DEF SlotsInv
<1>2. /\ SlotTypes /\ ExchangeTrue /\ RecordTrue /\ AnswersTrue /\ Owned /\ OneOwner /\ Unstarted
      /\ UNCHANGED <<work, task, started, outrun>>
      /\ \A o \in Placed : told[o] \in Nat /\ told'[o] \in Nat /\ filled[o] \in Nat /\ filled'[o] \in Nat
  BY <1>1 DEF SlotsInv, ExchangeStep, SlotTypes
<1>3. \A o \in Placed :
        /\ told[o] <= told'[o] /\ told'[o] <= filled'[o]
        /\ \/ sent'[o] = sent[o] /\ filled'[o] = filled[o]
           \/ sent[o] = "sent" /\ sent'[o] \in {"live", "refused"} /\ filled'[o] = filled[o] /\ told'[o] = told[o]
           \/ sent[o] = "live" /\ sent'[o] \in {"live", "over"}
  BY <1>1 DEF ExchangeStep
<1>4. \A o \in Placed : Pending(o)' => Pending(o)
  BY <1>2, <1>3 DEF Pending, Behind
<1>5. RecordTrue'
  <2>1. CASE work.o = 0
    BY <1>2, <2>1 DEF RecordTrue
  <2>2. CASE work.o # 0
    <3>1. work.o \in Placed /\ work.filled \in Nat /\ work.settling \in Nat
      BY <1>2, <2>2 DEF SlotTypes, Works
    <3>2. /\ sent[work.o] # "none" /\ (work.o \in outrun \/ work.filled <= told[work.o])
          /\ (sent[work.o] = "sent" => work.unconfirmed)
          /\ (work.settling > 0 => sent[work.o] = "over" /\ work.settling >= filled[work.o])
      BY <1>2, <2>2 DEF RecordTrue
    <3>3. /\ sent'[work.o] # "none" /\ (work.o \in outrun \/ work.filled <= told'[work.o])
          /\ (sent'[work.o] = "sent" => work.unconfirmed)
          /\ (work.settling > 0 => sent'[work.o] = "over" /\ work.settling >= filled'[work.o])
      BY <1>2, <1>3, <3>1, <3>2
    <3> QED BY <1>2, <2>2, <3>3 DEF RecordTrue
  <2> QED BY <2>1, <2>2
<1>6. AnswersTrue'
  BY <1>2, <1>3 DEF AnswersTrue
<1>7. Owned'
  BY <1>2, <1>4 DEF Owned, Owner, Placing
<1>8. OneOwner'
  BY <1>2, <1>4 DEF OneOwner, Placing
<1>9. Unstarted'
  <2>1. RemainderNotReordered => RemainderNotReordered'
    BY <1>2, <1>4 DEF RemainderNotReordered
  <2> QED BY <1>2, <1>3, <2>1 DEF Unstarted
<1> QED BY <1>1, <1>5, <1>6, <1>7, <1>8, <1>9 DEF SlotsInv

\* A step after which each task awaits what it awaited, or nothing.
LEMMA AnswersKept ==
  ASSUME AnswersTrue, sent' = sent,
         \A t \in Tasks : \/ task'[t].op = "none"
                          \/ task'[t].op = task[t].op /\ task'[t].o = task[t].o /\ task'[t].view = task[t].view
  PROVE  AnswersTrue'
<1>1. \A t \in Tasks : task'[t].op = "cancel" => task'[t].o \in Placed
  BY DEF AnswersTrue
<1>2. \A t \in {"consumer", "housekeeping"} : t \in Tasks
  BY DEF Tasks
<1>3. CASE task'["housekeeping"].op = "none"
  BY <1>1, <1>2, <1>3 DEF AnswersTrue
<1>4. CASE /\ task'["housekeeping"].op = task["housekeeping"].op /\ task'["housekeeping"].o = task["housekeeping"].o
           /\ task'["housekeeping"].view = task["housekeeping"].view
  BY <1>1, <1>2, <1>4 DEF AnswersTrue
<1> QED BY <1>2, <1>3, <1>4

\* A step of the book: it must keep the record true and not lose an owner.
LEMMA BookKeeps ==
  ASSUME SlotsInv, SlotTypes', started, started', UNCHANGED <<sent, filled, told, news>>, outrun \subseteq outrun',
         RecordTrue', AnswersTrue', OneOwner',
         \A o \in Placed \ outrun' : Pending(o) /\ Owner(o) => Owner(o)'
  PROVE  SlotsInv'
<1>1. ExchangeTrue' /\ NewsTrue'
  BY DEF SlotsInv, ExchangeTrue, NewsTrue
<1>2. Owned'
  BY DEF SlotsInv, Owned, Pending, Behind
<1>3. Unstarted'
  BY DEF Unstarted
<1> QED BY <1>1, <1>2, <1>3 DEF SlotsInv

\* The fields of a push.
LEMMA NewsOf ==
  ASSUME SlotTypes, NEW i \in DOMAIN news
  PROVE  news[i] \in News /\ news[i].o \in Placed /\ news[i].acc \in Nat /\ news[i].final \in BOOLEAN
<1>1. news[i] \in News
  BY DEF SlotTypes
<1> QED BY <1>1 DEF News

\* An order is placed when the slot is free: nobody else is pending.
LEMMA PlaceKeeps == ASSUME SlotsInv, Place PROVE SlotsInv'
<1> USE DEF SlotsInv
<1>1. PICK o \in Placed : /\ sent[o] = "none" /\ sent' = [sent EXCEPT ![o] = "sent"]
                          /\ task' = [task EXCEPT !["consumer"] = Awaiting("place", o)]
  BY DEF Place
<1>2. /\ started /\ task["consumer"].op = "none" /\ work = Empty
      /\ UNCHANGED <<work, started, filled, told, news, outrun>>
  BY DEF Place, Consuming
<1>3. Awaiting("place", o) \in Awaits /\ Awaiting("place", o).op = "place" /\ Awaiting("place", o).o = o
  BY SlotRecords DEF Ops
<1>4. /\ task' \in [Tasks -> Awaits] /\ task'["consumer"].op = "place" /\ task'["consumer"].o = o
      /\ task'["housekeeping"] = task["housekeeping"]
  BY <1>1, <1>3 DEF SlotTypes, Tasks
<1>5. /\ sent' \in [Placed -> {"none", "sent", "live", "over", "refused"}] /\ sent'[o] = "sent"
      /\ \A p \in Placed : p # o => sent'[p] = sent[p]
  BY <1>1 DEF SlotTypes
<1>6. SlotTypes'
  BY <1>2, <1>4, <1>5 DEF SlotTypes
<1>7. ExchangeTrue'
  BY <1>1, <1>2, <1>5 DEF ExchangeTrue
<1>8. NewsTrue'
  <2>1. \A i \in DOMAIN news : news[i].o \in Placed
    BY NewsOf
  <2> QED BY <1>1, <1>2, <1>5, <2>1 DEF NewsTrue
<1>9. RecordTrue'
  BY <1>2, SlotRecords DEF RecordTrue
<1>10. AnswersTrue'
  BY <1>1, <1>4, <1>5 DEF AnswersTrue
<1>11. Owned'
  <2>1. \A p \in Placed \ outrun : ~Pending(p)
    BY <1>2, SlotRecords, PlacedOrders DEF Owned, Owner, Placing
  <2>2. \A p \in Placed : p # o => (Pending(p)' <=> Pending(p))
    BY <1>2, <1>5 DEF Pending, Behind
  <2> QED BY <1>2, <1>4, <2>1, <2>2 DEF Owned, Owner, Placing
<1>12. OneOwner'
  BY <1>2, SlotRecords, PlacedOrders DEF OneOwner
<1>13. Unstarted'
  BY <1>2 DEF Unstarted
<1> QED BY <1>6, <1>7, <1>8, <1>9, <1>10, <1>11, <1>12, <1>13

\* The answer to the placement, or none.
LEMMA PlacedKeeps ==
  ASSUME SlotsInv, PlaceAnswered \/ PlaceRefused \/ PlaceUnconfirmed
  PROVE  SlotsInv'
<1> USE DEF SlotsInv
<1> DEFINE p == task["consumer"].o
<1>1. Placing /\ started /\ UNCHANGED <<started, outrun, sent, filled, told, news>>
  BY DEF PlaceAnswered, PlaceRefused, PlaceUnconfirmed, Exchange, Placing, Unstarted
<1>2. p \in Placed /\ sent[p] # "none" /\ "consumer" \in Tasks /\ "housekeeping" \in Tasks \ {"consumer"}
  BY <1>1 DEF AnswersTrue, Placing, Tasks
<1>3. /\ task'["consumer"].op = "none" /\ task' \in [Tasks -> Awaits]
      /\ task'["housekeeping"].op = task["housekeeping"].op
      /\ task["housekeeping"].op # "none" => /\ task'["housekeeping"].o = task["housekeeping"].o
                                             /\ task'["housekeeping"].view = task["housekeeping"].view
  BY <1>2, ReturnsTask, ReplacesTask DEF PlaceAnswered, PlaceRefused, PlaceUnconfirmed
<1>4. AnswersTrue'
  <2>1. \A u \in Tasks : u = "consumer" \/ u = "housekeeping"
    BY DEF Tasks
  <2>2. sent' = sent /\ \A u \in Tasks : \/ task'[u].op = "none"
                                         \/ task'[u].op = task[u].op /\ task'[u].o = task[u].o /\ task'[u].view = task[u].view
    BY <1>1, <1>3, <2>1
  <2> QED BY <2>2, AnswersKept
<1>5. OneOwner'
  BY <1>3 DEF OneOwner, Placing
<1>6. CASE PlaceAnswered
  <2>1. work' = Tracked(p, 0) /\ sent[p] \in {"live", "over"}
    BY <1>6 DEF PlaceAnswered
  <2>2. work' \in Works /\ work'.o = p /\ work'.filled = 0 /\ work'.settling = 0
    BY <1>2, <2>1, SlotRecords
  <2>3. SlotTypes'
    BY <1>1, <1>3, <2>2 DEF SlotTypes
  <2>4. RecordTrue'
    <3>1. told[p] \in Nat /\ p # 0
      BY <1>2, PlacedOrders DEF SlotTypes
    <3>2. sent'[work'.o] = sent[p] /\ told'[work'.o] = told[p]
      BY <1>1, <2>2
    <3> QED BY <2>1, <2>2, <3>1, <3>2 DEF RecordTrue
  <2>5. \A o \in Placed \ outrun' : Pending(o) /\ Owner(o) => Owner(o)'
    BY <1>1, <1>2, <2>2, PlacedOrders DEF OneOwner, Owner
  <2> QED BY <1>1, <1>4, <1>5, <2>3, <2>4, <2>5, BookKeeps
<1>7. CASE PlaceRefused
  <2>1. work' = work /\ sent[p] = "refused"
    BY <1>7 DEF PlaceRefused
  <2>2. SlotTypes'
    BY <1>1, <1>3, <2>1 DEF SlotTypes
  <2>3. RecordTrue'
    BY <1>1, <2>1 DEF RecordTrue
  <2>4. ~Pending(p)
    BY <1>2, <2>1 DEF Pending, Behind, ExchangeTrue, SlotTypes
  <2>5. \A o \in Placed \ outrun' : Pending(o) /\ Owner(o) => Owner(o)'
    BY <1>1, <2>1, <2>4 DEF Owner
  <2> QED BY <1>1, <1>4, <1>5, <2>2, <2>3, <2>5, BookKeeps
<1>8. CASE PlaceUnconfirmed
  <2>1. work' = [Empty EXCEPT !.o = p, !.unconfirmed = TRUE]
    BY <1>8 DEF PlaceUnconfirmed
  <2>2. work' \in Works /\ work'.o = p /\ work'.filled = 0 /\ work'.settling = 0 /\ work'.unconfirmed
    BY <1>2, <2>1 DEF Empty, Works
  <2>3. SlotTypes'
    BY <1>1, <1>3, <2>2 DEF SlotTypes
  <2>4. RecordTrue'
    <3>1. told[p] \in Nat /\ p # 0
      BY <1>2, PlacedOrders DEF SlotTypes
    <3>2. sent'[work'.o] = sent[p] /\ told'[work'.o] = told[p]
      BY <1>1, <2>2
    <3> QED BY <1>2, <2>2, <3>1, <3>2 DEF RecordTrue
  <2>5. \A o \in Placed \ outrun' : Pending(o) /\ Owner(o) => Owner(o)'
    BY <1>1, <1>2, <2>2, PlacedOrders DEF OneOwner, Owner
  <2> QED BY <1>1, <1>4, <1>5, <2>3, <2>4, <2>5, BookKeeps
<1> QED BY <1>6, <1>7, <1>8

\* A fill is booked; a record that ends with it has nothing under way.
LEMMA FillKeeps == ASSUME SlotsInv, NEW o \in Placed, FillPushed(o) PROVE SlotsInv'
<1> USE DEF SlotsInv
<1> DEFINE w == [work EXCEPT !.filled = @ + 1]
<1>1. /\ started /\ task["consumer"].op = "none" /\ told[o] < filled[o] /\ told' = [told EXCEPT ![o] = @ + 1]
      /\ work' = (IF work.o # o THEN work ELSE IF Done(w) THEN Empty ELSE w)
      /\ UNCHANGED <<task, started, sent, filled, news, outrun>>
  BY DEF FillPushed, Consuming, Behind
<1>2. /\ told[o] \in Nat /\ filled[o] \in Nat /\ Sizes[o] \in Nat \ {0} /\ work.o \in Placed \union {0}
      /\ work.filled \in Nat /\ work.settling \in Nat
  BY PlacedOrders DEF SlotTypes, Works
<1>3. /\ told' \in [Placed -> Nat] /\ told'[o] = told[o] + 1 /\ \A p \in Placed : p # o => told'[p] = told[p]
  BY <1>1, <1>2 DEF SlotTypes
<1>4. /\ w \in Works /\ w.o = work.o /\ w.filled = work.filled + 1 /\ w.settling = work.settling
      /\ w.unconfirmed = work.unconfirmed
  <2>1. work.filled + 1 \in Nat /\ work \in Works
    BY <1>2 DEF SlotTypes
  <2> QED BY <2>1 DEF Works
<1>5. work' \in Works
  BY <1>1, <1>4, SlotRecords DEF SlotTypes
<1>6. SlotTypes'
  BY <1>1, <1>3, <1>5 DEF SlotTypes
<1>7. ExchangeTrue'
  BY <1>1, <1>2, <1>3 DEF ExchangeTrue
<1>8. NewsTrue' /\ AnswersTrue' /\ Unstarted'
  BY <1>1 DEF NewsTrue, AnswersTrue, Unstarted
<1>9. OneOwner'
  BY <1>1 DEF OneOwner, Placing
<1>10. \A p \in Placed : Pending(p)' => Pending(p)
  BY <1>1, <1>2, <1>3 DEF Pending, Behind
<1> HIDE DEF w
<1>11. RecordTrue'
  <2>1. CASE work.o # o
    <3>1. work' = work
      BY <1>1, <2>1
    <3>2. work.o \in Placed => told'[work.o] = told[work.o]
      BY <1>3, <2>1
    <3> QED BY <1>1, <1>2, <3>1, <3>2 DEF RecordTrue
  <2>2. CASE work.o = o /\ Done(w)
    BY <1>1, <2>2, SlotRecords DEF RecordTrue
  <2>3. CASE work.o = o /\ ~Done(w)
    <3>1. work' = w /\ o # 0
      BY <1>1, <2>3, PlacedOrders
    <3>2. o \in outrun \/ work.filled <= told[o]
      BY <2>3, <3>1 DEF RecordTrue
    <3>3. o \in outrun \/ w.filled <= told'[o]
      BY <1>2, <1>3, <1>4, <3>2
    <3> QED BY <1>1, <1>4, <2>3, <3>1, <3>3 DEF RecordTrue
  <2> QED BY <2>1, <2>2, <2>3
<1>12. Owned'
  <2>1. CASE ~(work.o = o /\ Done(w))
    <3>1. work'.o = work.o
      BY <1>1, <1>4, <2>1
    <3> QED BY <1>1, <1>10, <3>1 DEF Owned, Owner, Placing
  <2>2. CASE work.o = o /\ Done(w)
    <3>1. o # 0
      BY PlacedOrders
    <3>2. /\ work.filled <= told[o] \/ o \in outrun
          /\ work.settling > 0 => sent[o] = "over" /\ work.settling >= filled[o]
      BY <2>2, <3>1 DEF RecordTrue
    <3>3. w.filled >= Sizes[o] \/ (w.settling > 0 /\ w.filled >= w.settling)
      BY <1>4, <2>2 DEF Done
    <3>4. /\ filled[o] <= Sizes[o] /\ sent[o] \in {"none", "sent", "live", "over", "refused"}
          /\ (sent[o] \in {"none", "sent", "refused"} => filled[o] = 0) /\ (sent[o] = "live" => filled[o] < Sizes[o])
      BY DEF ExchangeTrue, SlotTypes
    <3>5. o \notin outrun => told'[o] >= filled[o] /\ sent[o] = "over"
      BY <1>1, <1>2, <1>3, <1>4, <3>2, <3>3, <3>4
    <3>6. o \notin outrun => ~Pending(o)'
      BY <1>1, <1>2, <1>3, <3>5 DEF Pending, Behind
    <3> QED BY <1>1, <1>10, <2>2, <3>6 DEF Owned, Owner, Placing
  <2> QED BY <2>1, <2>2
<1> QED BY <1>6, <1>7, <1>8, <1>9, <1>11, <1>12

\* A push about an order: its end frees the slot once the fills it counts are booked.
LEMMA OrderPushedKeeps == ASSUME SlotsInv, OrderPushed PROVE SlotsInv'
<1> USE DEF SlotsInv
<1> DEFINE r == Head(news)
           w == [work EXCEPT !.known = TRUE, !.unconfirmed = FALSE]
<1>1. /\ started /\ task["consumer"].op = "none" /\ news # <<>> /\ news' = Tail(news)
      /\ UNCHANGED <<started, sent, filled, told>>
      /\ \/ work.o = r.o /\ work' = (IF r.final THEN AfterFinal(w, r.acc) ELSE w) /\ UNCHANGED <<task, outrun>>
         \/ /\ work.o # r.o /\ work = Empty /\ ~r.final
            /\ work' = Tracked(r.o, r.acc) /\ Replaces("consumer")
            /\ outrun' = outrun \union (IF told[r.o] # r.acc THEN {r.o} ELSE {})
         \/ UNCHANGED <<work, task, outrun>>
  <2>1. started /\ task["consumer"].op = "none" /\ news # <<>> /\ news' = Tail(news) /\ UNCHANGED <<started, sent, filled, told>>
    BY DEF OrderPushed, Consuming
  <2>2. r.o # Empty.o
    <3>1. 1 \in DOMAIN news /\ r = news[1]
      BY <2>1 DEF SlotTypes
    <3>2. r.o \in Placed
      BY <3>1, NewsOf
    <3> QED BY <3>2, SlotRecords, PlacedOrders
  <2>3. CASE work.o = r.o
    <3>1. work # Empty
      BY <2>2, <2>3
    <3> QED BY <2>1, <2>3, <3>1 DEF OrderPushed
  <2>4. CASE work.o # r.o /\ work = Empty /\ ~r.final
    BY <2>1, <2>4 DEF OrderPushed
  <2>5. CASE work.o # r.o /\ ~(work = Empty /\ ~r.final)
    BY <2>1, <2>5 DEF OrderPushed
  <2> QED BY <2>3, <2>4, <2>5
<1>2. 1 \in DOMAIN news /\ r = news[1] /\ Tail(news) \in Seq(News)
  BY <1>1 DEF SlotTypes
<1>3. /\ r.o \in Placed /\ r.acc \in Nat /\ sent[r.o] \in {"live", "over"} /\ r.acc <= filled[r.o]
      /\ r.final \in BOOLEAN /\ (r.final => sent[r.o] = "over" /\ r.acc = filled[r.o])
  <2>1. r.o \in Placed /\ r.acc \in Nat /\ r.final \in BOOLEAN
    BY <1>2, NewsOf
  <2>2. news[1].final => sent[news[1].o] = "over" /\ news[1].acc = filled[news[1].o]
    BY <1>2 DEF NewsTrue
  <2>3. sent[news[1].o] \in {"live", "over"} /\ news[1].acc <= filled[news[1].o]
    BY <1>2 DEF NewsTrue
  <2> QED BY <1>2, <2>1, <2>2, <2>3
<1> HIDE DEF r
<1>4. /\ w \in Works /\ w.o = work.o /\ w.filled = work.filled /\ w.settling = work.settling
      /\ work.filled \in Nat /\ work.settling \in Nat /\ work.o \in Placed \union {0}
  BY DEF SlotTypes, Works
<1>5. /\ task'["consumer"].op = "none" /\ task' \in [Tasks -> Awaits]
      /\ task'["housekeeping"].op = task["housekeeping"].op
      /\ task["housekeeping"].op # "none" => /\ task'["housekeeping"].o = task["housekeeping"].o
                                             /\ task'["housekeeping"].view = task["housekeeping"].view
  <2>1. CASE UNCHANGED task
    BY <1>1, <2>1 DEF SlotTypes
  <2>2. CASE Replaces("consumer")
    BY <2>2, ReplacesTask DEF Tasks
  <2> QED BY <1>1, <2>1, <2>2
<1>6. outrun \subseteq outrun' /\ outrun' \in SUBSET Placed
  BY <1>1, <1>3 DEF SlotTypes
<1>7. AnswersTrue'
  <2>1. \A u \in Tasks : u = "consumer" \/ u = "housekeeping"
    BY DEF Tasks
  <2>2. sent' = sent /\ \A u \in Tasks : \/ task'[u].op = "none"
                                         \/ task'[u].op = task[u].op /\ task'[u].o = task[u].o /\ task'[u].view = task[u].view
    BY <1>1, <1>5, <2>1
  <2> QED BY <2>2, AnswersKept
<1>8. OneOwner' /\ Unstarted' /\ ExchangeTrue'
  BY <1>1, <1>5 DEF OneOwner, Placing, Unstarted, ExchangeTrue
<1>9. NewsTrue'
  <2>1. \A i \in DOMAIN news' : i + 1 \in DOMAIN news /\ news'[i] = news[i + 1]
    BY <1>1 DEF SlotTypes
  <2> QED BY <1>1, <2>1 DEF NewsTrue
<1>10. \A p \in Placed : Pending(p)' = Pending(p)
  BY <1>1 DEF Pending, Behind
<1>11. SUFFICES work' \in Works /\ RecordTrue' /\ \A p \in Placed \ outrun' : Pending(p) /\ Owner(p) => Owner(p)'
  <2> SUFFICES ASSUME work' \in Works, RecordTrue', \A p \in Placed \ outrun' : Pending(p) /\ Owner(p) => Owner(p)'
               PROVE  SlotsInv'
    OBVIOUS
  <2>1. SlotTypes'
    BY <1>1, <1>2, <1>5, <1>6 DEF SlotTypes
  <2>2. Owned'
    BY <1>1, <1>6, <1>10 DEF Owned
  <2> QED BY <1>7, <1>8, <1>9, <2>1, <2>2
<1>12. \A p \in Placed : Owner(p) <=> work.o = p
  BY <1>1 DEF Owner, Placing
<1>13. CASE work.o = r.o
  <2>1. /\ r.o # 0 /\ outrun' = outrun
        /\ work' = (IF r.final THEN AfterFinal(w, r.acc) ELSE w) \/ work' = work
    BY <1>1, <1>3, <1>13, PlacedOrders
  <2>2. /\ sent[r.o] # "none" /\ (r.o \in outrun \/ work.filled <= told[r.o])
        /\ (work.settling > 0 => sent[r.o] = "over" /\ work.settling >= filled[r.o])
    BY <1>13, <2>1 DEF RecordTrue
  <2>3. CASE work' = work
    BY <1>1, <1>12, <2>1, <2>3 DEF RecordTrue, SlotTypes, Owner
  <2>4. CASE ~r.final /\ work' = w
    <3>1. RecordTrue'
      BY <1>1, <1>3, <1>4, <1>13, <2>1, <2>2, <2>4 DEF RecordTrue
    <3> QED BY <1>4, <1>12, <2>4, <3>1 DEF Owner
  <2>5. CASE r.final /\ work' = AfterFinal(w, r.acc) /\ r.acc > work.filled
    <3>1. /\ work' = [w EXCEPT !.settling = r.acc]
      BY <1>4, <2>5 DEF AfterFinal
    <3>2. work' \in Works /\ work'.o = r.o /\ work'.filled = work.filled /\ work'.settling = r.acc
      BY <1>3, <1>4, <1>13, <3>1 DEF Works
    <3>3. RecordTrue'
      BY <1>1, <1>3, <2>1, <2>2, <2>5, <3>2 DEF RecordTrue
    <3> QED BY <1>12, <1>13, <3>2, <3>3 DEF Owner
  <2>6. CASE r.final /\ work' = AfterFinal(w, r.acc) /\ ~(r.acc > work.filled)
    <3>1. work' = Empty
      BY <1>4, <2>6 DEF AfterFinal
    <3>2. work' \in Works /\ RecordTrue'
      BY <3>1, SlotRecords DEF RecordTrue
    <3>3. r.o \notin outrun => ~Pending(r.o)
      <4>1. told[r.o] \in Nat /\ filled[r.o] \in Nat
        BY <1>3 DEF SlotTypes
      <4> QED BY <1>3, <1>4, <2>2, <2>6, <4>1 DEF Pending, Behind
    <3> QED BY <1>12, <1>13, <2>1, <3>2, <3>3
  <2> QED BY <1>3, <2>1, <2>3, <2>4, <2>5, <2>6
<1>14. CASE work.o # r.o /\ work' = Tracked(r.o, r.acc)
            /\ outrun' = outrun \union (IF told[r.o] # r.acc THEN {r.o} ELSE {}) /\ work = Empty
  <2>1. work' \in Works /\ work'.o = r.o /\ work'.filled = r.acc /\ work'.settling = 0
    BY <1>3, <1>14, SlotRecords
  <2>2. r.o # 0 /\ told[r.o] \in Nat /\ (r.o \in outrun' \/ r.acc <= told[r.o])
    BY <1>3, <1>14, PlacedOrders DEF SlotTypes
  <2>3. RecordTrue'
    BY <1>1, <1>3, <2>1, <2>2 DEF RecordTrue
  <2>4. \A p \in Placed : ~Owner(p)
    BY <1>12, <1>14, SlotRecords, PlacedOrders
  <2> QED BY <2>1, <2>3, <2>4
<1>15. CASE work' = work /\ outrun' = outrun
  BY <1>1, <1>12, <1>15 DEF RecordTrue, SlotTypes, Owner
<1> QED BY <1>1, <1>13, <1>14, <1>15

\* A cancel is asked for, now or when the identifier is known.
LEMMA CancelStartsKeeps == ASSUME SlotsInv, NEW t \in Tasks, CancelStarts(t) PROVE SlotsInv'
<1> USE DEF SlotsInv
<1>1. /\ started /\ task[t].op = "none" /\ UNCHANGED <<started, outrun, Exchange>>
      /\ \/ task' = [task EXCEPT ![t] = Awaiting("cancel", work.o)] /\ work' = work
         \/ work' = [work EXCEPT !.wish = TRUE] /\ task' = task
      /\ work # Empty
  BY DEF CancelStarts, Consuming, Keeping, Tasks
<1>2. Awaiting("cancel", work.o) \in Awaits /\ Awaiting("cancel", work.o).op = "cancel"
  <2>1. work.o \in Placed \union {0} /\ "cancel" \in Ops
    BY DEF SlotTypes, Works, Ops
  <2> QED BY <2>1, SlotRecords
<1>3. UNCHANGED <<sent, filled, told, news>>
  BY <1>1 DEF Exchange
<1>4. /\ work' \in Works /\ work'.o = work.o /\ work'.filled = work.filled /\ work'.settling = work.settling
      /\ work'.unconfirmed = work.unconfirmed
  BY <1>1 DEF SlotTypes, Works
<1>5. work.o # 0
  BY <1>1 DEF RecordTrue
<1>6. RecordTrue'
  BY <1>1, <1>3, <1>4, <1>5 DEF RecordTrue
<1>7. /\ task' \in [Tasks -> Awaits]
      /\ \A u \in Tasks : task'[u] = task[u] \/ (task'[u].op = "cancel" /\ task'[u].o \in Placed)
  <2>1. Awaiting("cancel", work.o).o \in Placed
    <3>1. work.o \in Placed \union {0} /\ "cancel" \in Ops
      BY DEF SlotTypes, Works, Ops
    <3> QED BY <1>5, <3>1, SlotRecords
  <2> QED BY <1>1, <1>2, <2>1 DEF SlotTypes
<1>8. AnswersTrue'
  BY <1>1, <1>3, <1>7 DEF AnswersTrue, Tasks
<1>9. SlotTypes'
  BY <1>1, <1>3, <1>4, <1>7 DEF SlotTypes
<1>10. Placing' <=> Placing
  BY <1>1, <1>2, <1>7 DEF Placing, Tasks, SlotTypes, CancelStarts, Consuming
<1>11. Placing => task'["consumer"] = task["consumer"]
  BY <1>1, <1>7, <1>10 DEF Placing, Tasks
<1>12. OneOwner'
  BY <1>1, <1>3, <1>4, <1>10, <1>11 DEF OneOwner, Pending, Behind
<1>13. \A o \in Placed \ outrun' : Pending(o) /\ Owner(o) => Owner(o)'
  BY <1>4, <1>10, <1>11 DEF Owner
<1> QED BY <1>1, <1>3, <1>6, <1>8, <1>9, <1>12, <1>13, BookKeeps

\* Its answer.
LEMMA CancelKeeps ==
  ASSUME SlotsInv, NEW t \in Tasks, CancelAccepted(t) \/ CancelGone(t) \/ CancelFails(t)
  PROVE  SlotsInv'
<1> USE DEF SlotsInv
<1>1. /\ task[t].op = "cancel" /\ Returns(t) /\ UNCHANGED <<started, outrun, Exchange>>
      /\ \/ work' = work
         \/ work.o = task[t].o /\ work' = [work EXCEPT !.pend = TRUE]
         \/ work.o = task[t].o /\ sent[task[t].o] = "over" /\ work' = [work EXCEPT !.settling = Sizes[work.o], !.pend = FALSE]
  BY DEF CancelAccepted, CancelGone, CancelFails, Canceling, Holds
<1>2. started /\ task[t].o \in Placed
  BY <1>1 DEF Unstarted, AnswersTrue, Tasks
<1>3. UNCHANGED <<sent, filled, told, news>>
  BY <1>1 DEF Exchange
<1>4. task'[t].op = "none" /\ task' \in [Tasks -> Awaits] /\ \A u \in Tasks \ {t} : task'[u] = task[u]
  BY <1>1, ReturnsTask
<1>5. /\ work \in Works /\ work.settling \in Nat /\ work.o \in Placed \union {0}
      /\ \A o \in Placed : Sizes[o] \in Nat \ {0} /\ filled[o] <= Sizes[o] /\ o # 0
  BY PlacedOrders DEF SlotTypes, Works, ExchangeTrue
<1>6. /\ work' \in Works /\ work'.o = work.o /\ work'.filled = work.filled /\ work'.unconfirmed = work.unconfirmed
      /\ work' = work \/ work.o # 0
      /\ work'.settling = work.settling \/ (sent[work.o] = "over" /\ work'.settling = Sizes[work.o])
  <2>1. CASE work' = work
    BY <1>5, <2>1
  <2>2. CASE work.o = task[t].o /\ work' = [work EXCEPT !.pend = TRUE]
    BY <1>2, <1>5, <2>2 DEF Works
  <2>3. CASE work.o = task[t].o /\ sent[task[t].o] = "over" /\ work' = [work EXCEPT !.settling = Sizes[work.o], !.pend = FALSE]
    <3>1. Sizes[work.o] \in Nat
      BY <1>2, <1>5, <2>3
    <3> QED BY <1>2, <1>5, <2>3, <3>1 DEF Works
  <2> QED BY <1>1, <2>1, <2>2, <2>3
<1>7. RecordTrue'
  BY <1>1, <1>3, <1>5, <1>6 DEF RecordTrue
<1>8. AnswersTrue'
  <2>1. \A u \in Tasks : task'[u].op = "none" \/ task'[u] = task[u]
    BY <1>4
  <2>2. sent' = sent /\ \A u \in Tasks : \/ task'[u].op = "none"
                                         \/ task'[u].op = task[u].op /\ task'[u].o = task[u].o /\ task'[u].view = task[u].view
    BY <1>3, <2>1
  <2> QED BY <2>2, AnswersKept
<1>9. SlotTypes'
  BY <1>1, <1>3, <1>4, <1>6 DEF SlotTypes
<1>10. (Placing' <=> Placing) /\ (Placing => task'["consumer"] = task["consumer"])
  BY <1>1, <1>4 DEF Placing, Tasks
<1>11. OneOwner'
  BY <1>1, <1>3, <1>6, <1>10 DEF OneOwner, Pending, Behind
<1>12. \A o \in Placed \ outrun' : Pending(o) /\ Owner(o) => Owner(o)'
  BY <1>6, <1>10 DEF Owner
<1> QED BY <1>1, <1>2, <1>3, <1>7, <1>8, <1>9, <1>11, <1>12, BookKeeps

\* Housekeeping asks for something it will be told later.
LEMMA AsksKeep ==
  ASSUME SlotsInv, Looks \/ Asks
  PROVE  SlotsInv'
<1> USE DEF SlotsInv
<1>1. PICK op \in {"look", "ask"}, b \in BOOLEAN :
        /\ task' = [task EXCEPT !["housekeeping"] = [Awaiting(op, work.o) EXCEPT !.view = <<b>>]]
        /\ b => (op = "look" /\ sent[work.o] = "live") \/ (op = "ask" /\ sent[work.o] = "over")
        /\ started /\ (work.unconfirmed \/ work.pend)
        /\ UNCHANGED <<work, started, outrun, Exchange>>
  <2>1. CASE Looks
    <3>1. (sent[work.o] = "live") \in BOOLEAN
      OBVIOUS
    <3> QED BY <2>1, <3>1 DEF Looks, Keeping
  <2>2. CASE Asks
    <3>1. (sent[work.o] = "over") \in BOOLEAN
      OBVIOUS
    <3> QED BY <2>2, <3>1 DEF Asks, Keeping
  <2> QED BY <2>1, <2>2
<1>2. UNCHANGED <<sent, filled, told, news>>
  BY <1>1 DEF Exchange
<1>3. work.o \in Placed
  BY <1>1 DEF RecordTrue, Empty, SlotTypes, Works
<1> DEFINE a == [Awaiting(op, work.o) EXCEPT !.view = <<b>>]
<1>4. a \in Awaits /\ a.op = op /\ a.o = work.o /\ a.view = <<b>> /\ a.view \in {<<TRUE>>, <<FALSE>>}
  <2>1. op \in Ops /\ work.o \in Placed \union {0}
    BY <1>3 DEF Ops
  <2>2. b = TRUE \/ b = FALSE
    OBVIOUS
  <2>3. b \in BOOLEAN
    OBVIOUS
  <2>4. a \in Awaits /\ a.op = op /\ a.o = work.o /\ a.view = <<b>>
    BY <2>1, <2>3, SlotRecords
  <2> HIDE DEF a
  <2> QED BY <2>2, <2>4
<1>5. /\ task' \in [Tasks -> Awaits] /\ task'["housekeeping"] = a /\ task'["consumer"] = task["consumer"]
  BY <1>1, <1>4 DEF SlotTypes, Tasks
<1>6. AnswersTrue'
  <2>1. \A t \in Tasks : task'[t].op = "cancel" => task'[t].o \in Placed
    <3>1. \A t \in Tasks : t = "consumer" \/ t = "housekeeping"
      BY DEF Tasks
    <3> QED BY <1>4, <1>5, <3>1 DEF AnswersTrue
  <2>2. a.view[1] => b
    BY <1>4
  <2> HIDE DEF a
  <2> QED BY <1>1, <1>2, <1>3, <1>4, <1>5, <2>1, <2>2 DEF AnswersTrue
<1>7. SlotTypes' /\ RecordTrue'
  BY <1>1, <1>2, <1>5 DEF SlotTypes, RecordTrue
<1>8. OneOwner' /\ \A o \in Placed \ outrun' : Pending(o) /\ Owner(o) => Owner(o)'
  BY <1>1, <1>2, <1>5 DEF OneOwner, Owner, Placing, Pending, Behind
<1> QED BY <1>1, <1>2, <1>6, <1>7, <1>8, BookKeeps

\* What it was told: an order found, or given up and thereby nobody's.
LEMMA LookedKeeps == ASSUME SlotsInv, Looked PROVE SlotsInv'
<1> USE DEF SlotsInv
<1> DEFINE h == task["housekeeping"]
<1>1. /\ h.op = "look" /\ UNCHANGED <<started, Exchange>>
      /\ \/ /\ h.view[1] /\ UNCHANGED outrun
            /\ work' = IF Holds("housekeeping") THEN [work EXCEPT !.known = TRUE, !.unconfirmed = FALSE] ELSE work
            /\ task' = [task EXCEPT !["housekeeping"] =
                          IF work.wish /\ Holds("housekeeping") THEN Awaiting("cancel", work.o) ELSE NoTask]
         \/ ~h.view[1] /\ Returns("housekeeping") /\ UNCHANGED <<work, outrun>>
         \/ /\ ~h.view[1] /\ Returns("housekeeping") /\ work' = Empty
            /\ outrun' = outrun \union ({work.o, h.o} \ {0})
  BY DEF Looked
<1>2. started /\ h.o \in Placed /\ (h.view[1] => sent[h.o] \in {"live", "over"}) /\ UNCHANGED <<sent, filled, told, news>>
  BY <1>1 DEF Unstarted, AnswersTrue, Exchange
<1>3. work \in Works /\ work.o \in Placed \union {0} /\ 0 \notin Placed /\ outrun \in SUBSET Placed
  BY PlacedOrders DEF SlotTypes, Works
<1>4. CASE h.view[1]
  <2>1. \/ work' = work
        \/ work.o = h.o /\ work' = [work EXCEPT !.known = TRUE, !.unconfirmed = FALSE]
    BY <1>1, <1>4 DEF Holds
  <2>2. /\ work' \in Works /\ work'.o = work.o /\ work'.filled = work.filled /\ work'.settling = work.settling
        /\ work' = work \/ (work.o # 0 /\ sent[work.o] # "sent")
    BY <1>2, <1>3, <1>4, <2>1 DEF Works
  <2>3. /\ task' \in [Tasks -> Awaits] /\ task'["consumer"] = task["consumer"]
        /\ task'["housekeeping"].op \in {"none", "cancel"}
        /\ task'["housekeeping"].op = "cancel" => task'["housekeeping"].o \in Placed
    <3>1. /\ NoTask \in Awaits /\ NoTask.op = "none"
          /\ Awaiting("cancel", work.o) \in Awaits /\ Awaiting("cancel", work.o).op = "cancel"
          /\ Awaiting("cancel", work.o).o = work.o
      BY <1>3, SlotRecords DEF Ops
    <3>2. /\ task'["housekeeping"] = IF work.wish /\ Holds("housekeeping") THEN Awaiting("cancel", work.o) ELSE NoTask
          /\ task' \in [Tasks -> Awaits] /\ task'["consumer"] = task["consumer"]
      BY <1>1, <1>4, <3>1 DEF SlotTypes, Tasks
    <3> QED BY <1>2, <3>1, <3>2 DEF Holds
  <2>4. AnswersTrue'
    <3>1. \A t \in Tasks : t = "consumer" \/ t = "housekeeping"
      BY DEF Tasks
    <3>2. \A t \in Tasks : task'[t].op = "cancel" => task'[t].o \in Placed
      BY <2>3, <3>1 DEF AnswersTrue
    <3> QED BY <1>2, <2>3, <3>2 DEF AnswersTrue
  <2>5. RecordTrue'
    BY <1>1, <1>2, <1>4, <2>2 DEF RecordTrue
  <2>6. SlotTypes'
    BY <1>1, <1>2, <1>4, <2>2, <2>3 DEF SlotTypes
  <2>7. OneOwner' /\ \A o \in Placed \ outrun' : Pending(o) /\ Owner(o) => Owner(o)'
    BY <1>1, <1>2, <1>4, <2>2, <2>3 DEF OneOwner, Owner, Placing, Pending, Behind
  <2> QED BY <1>1, <1>2, <1>4, <2>4, <2>5, <2>6, <2>7, BookKeeps
<1>5. CASE ~h.view[1]
  <2>1. /\ task' \in [Tasks -> Awaits] /\ task'["consumer"] = task["consumer"] /\ task'["housekeeping"].op = "none"
        /\ \A u \in Tasks : task'[u].op = "none" \/ task'[u] = task[u]
    <3>1. Returns("housekeeping")
      BY <1>1, <1>5
    <3> QED BY <3>1, ReturnsTask DEF Tasks
  <2>2. AnswersTrue'
    <3>1. sent' = sent /\ \A u \in Tasks : \/ task'[u].op = "none"
                                           \/ task'[u].op = task[u].op /\ task'[u].o = task[u].o /\ task'[u].view = task[u].view
      BY <1>2, <2>1
    <3> QED BY <3>1, AnswersKept
  <2>3. \/ work' = work /\ outrun' = outrun
        \/ work' = Empty /\ outrun' = outrun \union ({work.o, h.o} \ {0})
    BY <1>1, <1>5
  <2>4. work' \in Works /\ outrun' \in SUBSET Placed /\ outrun \subseteq outrun'
    BY <1>2, <1>3, <2>3, SlotRecords
  <2>5. SlotTypes' /\ RecordTrue'
    BY <1>1, <1>2, <2>1, <2>3, <2>4, SlotRecords DEF SlotTypes, RecordTrue
  <2>6. OneOwner'
    BY <1>2, <2>1, <2>3, <2>4, SlotRecords, PlacedOrders DEF OneOwner, Placing, Pending, Behind
  <2>7. \A o \in Placed \ outrun' : Pending(o) /\ Owner(o) => Owner(o)'
    BY <1>3, <2>1, <2>3, <2>4, SlotRecords DEF Owner, Placing
  <2> QED BY <1>1, <1>2, <2>2, <2>4, <2>5, <2>6, <2>7, BookKeeps
<1> QED BY <1>4, <1>5

\* A canceled order that is over, with its fills counted: what is not booked is nobody's.
LEMMA AskedKeeps == ASSUME SlotsInv, Asked PROVE SlotsInv'
<1> USE DEF SlotsInv
<1> DEFINE h == task["housekeeping"]
<1>1. /\ h.op = "ask" /\ Returns("housekeeping") /\ UNCHANGED <<started, Exchange>>
      /\ \/ /\ h.view[1] /\ work' = Empty
            /\ outrun' = outrun \union {o \in {work.o, h.o} \ {0} : Behind(o) \/ o # h.o}
         \/ /\ outrun' = outrun
            /\ work' = work \/ (work.o = h.o /\ work' = [work EXCEPT !.pend = FALSE])
  BY DEF Asked, Holds
<1>2. started /\ h.o \in Placed /\ (h.view[1] => sent[h.o] = "over") /\ UNCHANGED <<sent, filled, told, news>>
  BY <1>1 DEF Unstarted, AnswersTrue, Exchange
<1>3. work \in Works /\ work.o \in Placed \union {0} /\ 0 \notin Placed /\ outrun \in SUBSET Placed
  BY PlacedOrders DEF SlotTypes, Works
<1>4. /\ task' \in [Tasks -> Awaits] /\ task'["consumer"] = task["consumer"] /\ task'["housekeeping"].op = "none"
      /\ \A u \in Tasks : task'[u].op = "none" \/ task'[u] = task[u]
  BY <1>1, ReturnsTask DEF Tasks
<1>5. AnswersTrue'
  <2>1. sent' = sent /\ \A u \in Tasks : \/ task'[u].op = "none"
                                         \/ task'[u].op = task[u].op /\ task'[u].o = task[u].o /\ task'[u].view = task[u].view
    BY <1>2, <1>4
  <2> QED BY <2>1, AnswersKept
<1>6. CASE /\ h.view[1] /\ work' = Empty
           /\ outrun' = outrun \union {o \in {work.o, h.o} \ {0} : Behind(o) \/ o # h.o}
  <2>1. work' \in Works /\ outrun' \in SUBSET Placed /\ outrun \subseteq outrun'
    BY <1>2, <1>3, <1>6, SlotRecords
  <2>2. SlotTypes' /\ RecordTrue'
    BY <1>1, <1>2, <1>4, <1>6, <2>1, SlotRecords DEF SlotTypes, RecordTrue
  <2>3. OneOwner'
    BY <1>3, <1>6, SlotRecords DEF OneOwner
  <2>4. \A o \in Placed \ outrun' : Pending(o) /\ Owner(o) => Owner(o)'
    <3> SUFFICES ASSUME NEW o \in Placed \ outrun', Pending(o), work.o = o PROVE FALSE
      BY <1>4 DEF Owner, Placing
    <3>1. o # 0 /\ ~Behind(o) /\ o = h.o
      BY <1>3, <1>6
    <3> QED BY <1>2, <1>6, <3>1 DEF Pending
  <2> QED BY <1>1, <1>2, <1>5, <2>1, <2>2, <2>3, <2>4, BookKeeps
<1>7. CASE outrun' = outrun /\ (work' = work \/ (work.o = h.o /\ work' = [work EXCEPT !.pend = FALSE]))
  <2>1. /\ work' \in Works /\ work'.o = work.o /\ work'.filled = work.filled /\ work'.settling = work.settling
        /\ work'.unconfirmed = work.unconfirmed /\ (work' = work \/ work.o # 0)
    BY <1>2, <1>3, <1>7 DEF Works
  <2>2. SlotTypes' /\ RecordTrue'
    BY <1>1, <1>2, <1>4, <1>7, <2>1 DEF SlotTypes, RecordTrue
  <2>3. OneOwner' /\ \A o \in Placed \ outrun' : Pending(o) /\ Owner(o) => Owner(o)'
    BY <1>1, <1>2, <1>4, <1>7, <2>1 DEF OneOwner, Owner, Placing, Pending, Behind
  <2> QED BY <1>1, <1>2, <1>5, <1>7, <2>2, <2>3, BookKeeps
<1> QED BY <1>1, <1>6, <1>7

\* The list a resync asks for: no other order works when it is answered.
LEMMA ResyncsKeeps == ASSUME SlotsInv, Resyncs PROVE SlotsInv'
<1> USE DEF SlotsInv
<1> DEFINE v == [o \in Placed |-> IF sent[o] = "live" THEN filled[o] ELSE -1]
           a == [NoTask EXCEPT !.op = "resync", !.view = v]
<1>1. /\ task["housekeeping"].op = "none" /\ task' = [task EXCEPT !["housekeeping"] = a]
      /\ UNCHANGED <<work, started, outrun, sent, filled, told, news>>
  BY DEF Resyncs, Exchange
<1>2. v \in [Placed -> Int] /\ \A o \in Placed : v[o] >= 0 <=> sent[o] = "live"
  BY DEF SlotTypes
<1>3. a \in Awaits /\ a.op = "resync" /\ a.view = v
  <2> HIDE DEF v
  <2>1. v \in Views
    BY <1>2 DEF Views
  <2> HIDE DEF Views
  <2> QED BY <2>1 DEF NoTask, Awaits, Ops
<1> HIDE DEF a, v
<1>4. /\ task' \in [Tasks -> Awaits] /\ task'["housekeeping"] = a /\ task'["consumer"] = task["consumer"]
  BY <1>1, <1>3 DEF SlotTypes, Tasks
<1>5. AnswersTrue'
  <2>1. \A t \in Tasks : task'[t].op = "cancel" => task'[t].o \in Placed
    <3>1. \A t \in Tasks : t = "consumer" \/ t = "housekeeping"
      BY DEF Tasks
    <3> QED BY <1>3, <1>4, <3>1 DEF AnswersTrue
  <2> QED BY <1>1, <1>2, <1>3, <1>4, <2>1 DEF AnswersTrue
<1>6. SlotTypes' /\ ExchangeTrue' /\ NewsTrue' /\ RecordTrue'
  BY <1>1, <1>4 DEF SlotTypes, ExchangeTrue, NewsTrue, RecordTrue
<1>7. Owned' /\ OneOwner'
  BY <1>1, <1>4 DEF Owned, OneOwner, Owner, Placing, Pending, Behind
<1>8. Unstarted'
  BY <1>1, <1>2, <1>3, <1>4 DEF Unstarted, RemainderNotReordered, Pending, Behind
<1> QED BY <1>5, <1>6, <1>7, <1>8

\* A restart forgets what was asked for, and remembers no order.
LEMMA RestartKeeps == ASSUME SlotsInv, Restart PROVE SlotsInv'
<1> USE DEF SlotsInv
<1>1. /\ started /\ started' = FALSE /\ work' = Empty /\ task' = [t \in Tasks |-> NoTask]
      /\ told' \in {told, filled} /\ news' = <<>> /\ UNCHANGED <<sent, filled>>
      /\ outrun' = outrun \union {o \in Placed : sent[o] = "sent"}
  BY DEF Restart
<1>2. /\ task' \in [Tasks -> Awaits] /\ task'["consumer"].op = "none" /\ task'["housekeeping"].op = "none"
      /\ \A t \in Tasks : task'[t].op = "none"
  BY <1>1, SlotRecords DEF Tasks
<1>3. \A o \in Placed : told[o] <= told'[o] /\ told'[o] <= filled[o] /\ told[o] \in Nat /\ told'[o] \in Nat /\ filled[o] \in Nat
  BY <1>1 DEF SlotTypes, ExchangeTrue
<1>4. SlotTypes'
  <2>1. told' \in [Placed -> Nat] /\ outrun' \in SUBSET Placed /\ news' \in Seq(News)
    <3> HIDE DEF News
    <3> QED BY <1>1 DEF SlotTypes
  <2>2. work' \in Works /\ started' \in BOOLEAN
    BY <1>1, SlotRecords
  <2> QED BY <1>1, <1>2, <2>1, <2>2 DEF SlotTypes
<1>5. ExchangeTrue' /\ NewsTrue' /\ RecordTrue' /\ AnswersTrue'
  <2>1. ExchangeTrue'
    BY <1>1, <1>3 DEF ExchangeTrue
  <2>2. NewsTrue'
    BY <1>1 DEF NewsTrue
  <2>3. RecordTrue'
    BY <1>1, SlotRecords DEF RecordTrue
  <2>4. AnswersTrue'
    BY <1>2 DEF AnswersTrue
  <2> QED BY <2>1, <2>2, <2>3, <2>4
<1>6. Owned' /\ OneOwner'
  BY <1>1, <1>2 DEF Owned, OneOwner, Placing
<1>7. \A o \in Placed : Pending(o)' => Pending(o)
  BY <1>1, <1>3 DEF Pending, Behind
<1>8. RemainderNotReordered'
  <2>1. RemainderNotReordered
    BY <1>1, OwnersAreOne
  <2> QED BY <1>1, <1>7, <2>1 DEF RemainderNotReordered
<1>9. Unstarted'
  BY <1>1, <1>2, <1>8 DEF Unstarted
<1> QED BY <1>4, <1>5, <1>6, <1>9

\* Canceled orders are over, and their last push is under way.
LEMMA ExtraCanceled ==
  ASSUME SlotTypes, ExchangeTrue, NewsTrue, NEW listed \in SUBSET Placed, NEW keep, NEW gone,
         CancelsExtra(listed, keep, gone), UNCHANGED <<filled, told>>
  PROVE  /\ sent' \in [Placed -> {"none", "sent", "live", "over", "refused"}] /\ news' \in Seq(News)
         /\ ExchangeTrue' /\ NewsTrue'
         /\ \A o \in Placed : \/ sent'[o] = sent[o]
                              \/ sent[o] = "live" /\ sent'[o] = "over" /\ o # keep
<1>1. PICK c \in SUBSET {o \in listed \ {keep} : sent[o] = "live"} :
        /\ sent' = [o \in Placed |-> IF o \in c THEN "over" ELSE sent[o]]
        /\ news' = news \o SetToSeq({[o |-> o, final |-> TRUE, acc |-> filled[o]] : o \in c})
  BY DEF CancelsExtra
<1> DEFINE last == [o \in c |-> [o |-> o, final |-> TRUE, acc |-> filled[o]]]
           S == {last[o] : o \in c}
           s == SetToSeq(S)
<1>2. c \in SUBSET Placed /\ \A o \in c : sent[o] = "live" /\ o # keep
  OBVIOUS
<1>3. \A o \in c : last[o] \in News /\ last[o].o = o /\ last[o].acc = filled[o]
  BY <1>2 DEF SlotTypes, News
<1>4. {[o |-> o, final |-> TRUE, acc |-> filled[o]] : o \in c} = S
  OBVIOUS
<1>5. last = [o \in c |-> last[o]]
  OBVIOUS
<1> HIDE DEF last
<1>6. S \in SUBSET News /\ IsFiniteSet(S)
  <2>1. IsFiniteSet(c)
    BY <1>2, PlacedOrders, FS_Subset
  <2>2. last \in Surjection(c, S)
    BY <1>5 DEF Surjection
  <2>3. IsFiniteSet(S)
    BY <2>1, <2>2, FS_Surjection
  <2> QED BY <1>3, <2>3
<1>7. \A x \in S : x.o \in c /\ x.acc = filled[x.o]
  BY <1>3
<1> HIDE DEF S
<1>8. s \in Seq(S)
  BY <1>6, SetToSeqOf
<1>9. news' = news \o s /\ news \in Seq(News)
  BY <1>1, <1>4 DEF SlotTypes
<1> HIDE DEF s
<1>10. news' \in Seq(News)
  <2> HIDE DEF News
  <2>1. s \in Seq(News)
    BY <1>6, <1>8
  <2> QED BY <1>9, <2>1
<1>11. sent' \in [Placed -> {"none", "sent", "live", "over", "refused"}]
  BY <1>1 DEF SlotTypes
<1>12. \A o \in Placed : /\ o \in c => sent[o] = "live" /\ sent'[o] = "over" /\ o # keep
                         /\ o \notin c => sent'[o] = sent[o]
  BY <1>1, <1>2
<1>13. ExchangeTrue'
  BY <1>12 DEF ExchangeTrue
<1>14. NewsTrue'
  <2> SUFFICES ASSUME NEW i \in DOMAIN news'
               PROVE  /\ sent'[news'[i].o] \in {"live", "over"} /\ news'[i].acc <= filled'[news'[i].o]
                      /\ news'[i].final => sent'[news'[i].o] = "over" /\ news'[i].acc = filled'[news'[i].o]
    BY DEF NewsTrue
  <2>1. (i \in DOMAIN news /\ news'[i] = news[i]) \/ news'[i] \in S
    <3> HIDE DEF News
    <3> QED BY <1>8, <1>9
  <2>2. CASE i \in DOMAIN news /\ news'[i] = news[i]
    <3>1. news[i].o \in Placed
      BY <2>2, NewsOf
    <3> QED BY <1>12, <2>2, <3>1 DEF NewsTrue
  <2>3. CASE news'[i] \in S
    <3>1. news'[i].o \in Placed /\ sent'[news'[i].o] = "over" /\ news'[i].acc = filled[news'[i].o]
      BY <1>2, <1>7, <1>12, <2>3
    <3>2. filled[news'[i].o] \in Nat
      BY <3>1 DEF SlotTypes
    <3> QED BY <3>1, <3>2
  <2> QED BY <2>1, <2>2, <2>3
<1> QED BY <1>10, <1>11, <1>12, <1>13, <1>14

\* Afterwards the record holds the order that works, or none does that anyone should track.
LEMMA ResyncedKeeps == ASSUME SlotsInv, Resynced PROVE SlotsInv'
<1> USE DEF SlotsInv
<1> DEFINE h == task["housekeeping"]
           kept == work.o
           listed == {o \in Placed : h.view[o] >= 0}
<1>1. PICK keep, gone :
        /\ CancelsExtra(listed, keep, gone)
        /\ \/ /\ keep \in listed /\ kept \in {0, keep} /\ gone = (IF told[keep] # h.view[keep] THEN {keep} ELSE {})
              /\ work' = Tracked(keep, h.view[keep]) /\ Replaces("housekeeping")
           \/ /\ IF kept = 0 THEN listed = {} ELSE kept \notin listed
              /\ keep = kept /\ gone = {} /\ work' = work /\ Returns("housekeeping")
           \/ /\ kept # 0 /\ kept \notin listed /\ ~work.unconfirmed
              /\ keep = 0 /\ gone = (IF sent[kept] = "live" THEN {kept} ELSE {})
              /\ work' = Empty /\ Returns("housekeeping")
  BY DEF Resynced
<1>2. h.op = "resync" /\ started' = TRUE /\ UNCHANGED <<filled, told>>
  BY DEF Resynced
<1>3. h.view \in [Placed -> Int] /\ \A o \in Placed : h.view[o] >= 0 => sent[o] \in {"live", "over"}
  BY <1>2 DEF AnswersTrue
<1>4. /\ work \in Works /\ kept \in Placed \union {0} /\ 0 \notin Placed /\ outrun \in SUBSET Placed
      /\ listed \in SUBSET Placed /\ \A o \in listed : h.view[o] \in Nat /\ sent[o] \in {"live", "over"}
  BY <1>3, PlacedOrders DEF SlotTypes, Works
<1>5. \A o \in Placed : ~started /\ o \notin outrun /\ sent[o] = "live" => o \in listed
  BY <1>2 DEF Unstarted
<1>6. /\ sent' \in [Placed -> {"none", "sent", "live", "over", "refused"}] /\ news' \in Seq(News)
      /\ ExchangeTrue' /\ NewsTrue'
      /\ \A o \in Placed : sent'[o] = sent[o] \/ (sent[o] = "live" /\ sent'[o] = "over" /\ o # keep)
  BY <1>1, <1>2, <1>4, ExtraCanceled
<1>7. outrun' = outrun \union Unseen(keep) \union {o \in listed \ {keep} : sent'[o] = "live"} \union gone
  BY <1>1 DEF CancelsExtra
<1>8. "housekeeping" \in Tasks /\ "consumer" \in Tasks \ {"housekeeping"} /\ \A t \in Tasks : t = "consumer" \/ t = "housekeeping"
  BY DEF Tasks
<1>9. /\ task' \in [Tasks -> Awaits] /\ task'["housekeeping"].op = "none"
      /\ task'["consumer"].op = task["consumer"].op
      /\ task["consumer"].op # "none" => /\ task'["consumer"].o = task["consumer"].o
                                         /\ task'["consumer"].view = task["consumer"].view
  BY <1>1, <1>8, ReturnsTask, ReplacesTask
<1> HIDE DEF listed, h
<1>10. gone \subseteq Placed
  BY <1>1, <1>4
<1>11. outrun' \in SUBSET Placed /\ outrun \subseteq outrun'
  BY <1>4, <1>7, <1>10 DEF Unseen
<1>12. \A o \in Placed : Pending(o)' => Pending(o)
  BY <1>2, <1>6 DEF Pending, Behind
<1>13. \A o \in Placed \ outrun' : /\ Behind(o) => o = keep
                                   /\ sent'[o] = "live" /\ o # keep => o \notin listed
                                   /\ o \notin gone
  BY <1>7 DEF Unseen
<1>14. AnswersTrue'
  <2>1. \A t \in Tasks : task'[t].op = "cancel" => task'[t].o \in Placed
    BY <1>8, <1>9 DEF AnswersTrue
  <2>2. Placing' => task'["consumer"].o \in Placed /\ sent'[task'["consumer"].o] # "none"
    BY <1>6, <1>9 DEF AnswersTrue, Placing
  <2>3. task'["consumer"].op \in {"none", "place", "cancel"}
    BY <1>9 DEF AnswersTrue
  <2> QED BY <1>9, <2>1, <2>2, <2>3 DEF AnswersTrue, Placing
<1>15. OneOwner'
  <2> SUFFICES ASSUME Placing', work'.o \in Placed \ outrun', work'.o # task'["consumer"].o, Pending(work.o)'
               PROVE  FALSE
    BY DEF OneOwner
  <2>1. Placing /\ started /\ task'["consumer"].o = task["consumer"].o
    BY <1>9 DEF Placing, Unstarted
  <2>2. PICK o \in Placed : o = work'.o
    OBVIOUS
  <2>3. Pending(o) /\ o \notin outrun
    <3>1. Pending(o)'
      BY <2>2 DEF Pending, Behind
    <3> QED BY <1>11, <1>12, <2>2, <3>1
  <2> QED BY <2>1, <2>2, <2>3 DEF Owned, Owner, OneOwner
<1>16. work' \in Works /\ RecordTrue'
  <2>1. CASE /\ keep \in listed /\ kept \in {0, keep} /\ gone = (IF told[keep] # h.view[keep] THEN {keep} ELSE {})
             /\ work' = Tracked(keep, h.view[keep])
    <3>1. keep \in Placed /\ h.view[keep] \in Nat /\ keep # 0
      BY <1>4, <2>1
    <3>2. work' \in Works /\ work'.o = keep /\ work'.filled = h.view[keep] /\ work'.settling = 0
      BY <2>1, <3>1, SlotRecords
    <3>3. sent'[keep] \in {"live", "over"} /\ told'[keep] = told[keep] /\ told[keep] \in Nat
      BY <1>2, <1>4, <1>6, <2>1, <3>1 DEF SlotTypes
    <3>4. keep \in outrun' \/ h.view[keep] <= told'[keep]
      BY <1>7, <2>1, <3>1, <3>3
    <3> QED BY <3>1, <3>2, <3>3, <3>4 DEF RecordTrue
  <2>2. CASE keep = kept /\ work' = work
    <3>1. kept # 0 => sent'[kept] = sent[kept]
      BY <1>4, <1>6, <2>2
    <3> QED BY <1>2, <1>4, <1>11, <2>2, <3>1 DEF RecordTrue
  <2>3. CASE work' = Empty
    BY <2>3, SlotRecords DEF RecordTrue
  <2> QED BY <1>1, <2>1, <2>2, <2>3
<1>17. Owned'
  <2> SUFFICES ASSUME NEW o \in Placed \ outrun', Pending(o)' PROVE Owner(o)'
    BY DEF Owned
  <2>1. o \notin outrun /\ Pending(o) /\ o # 0 /\ (Behind(o) \/ sent'[o] \in {"sent", "live"})
    BY <1>2, <1>4, <1>11, <1>12 DEF Pending, Behind
  <2>2. CASE started
    <3>1. Owner(o)
      BY <2>1, <2>2 DEF Owned
    <3>2. CASE Placing /\ task["consumer"].o = o
      BY <1>9, <3>2 DEF Placing, Owner
    <3>3. CASE kept = o
      <4>1. CASE work' = Tracked(keep, h.view[keep]) /\ keep \in listed /\ kept \in {0, keep}
        <5>1. keep = o /\ h.view[keep] \in Nat /\ keep \in Placed
          BY <1>4, <2>1, <3>3, <4>1
        <5> QED BY <4>1, <5>1, SlotRecords DEF Owner
      <4>2. CASE work' = work
        BY <3>3, <4>2 DEF Owner
      <4>3. CASE keep = 0 /\ ~work.unconfirmed /\ gone = (IF sent[kept] = "live" THEN {kept} ELSE {})
        <5>1. sent[o] # "live" /\ ~Behind(o)
          BY <1>13, <2>1, <3>3, <4>3
        <5>2. sent[o] # "sent"
          BY <2>1, <3>3, <4>3 DEF RecordTrue
        <5>3. sent'[o] = sent[o]
          BY <1>6, <5>1
        <5> QED BY <2>1, <5>1, <5>2, <5>3
      <4> QED BY <1>1, <4>1, <4>2, <4>3
    <3> QED BY <3>1, <3>2, <3>3 DEF Owner
  <2>3. CASE ~started
    <3>1. kept = 0 /\ sent[o] # "sent" /\ (sent[o] = "live" => o \in listed)
      BY <1>5, <2>1, <2>3, SlotRecords DEF Unstarted
    <3>2. o = keep
      BY <1>6, <1>13, <2>1, <3>1
    <3>3. keep \in listed /\ work' = Tracked(keep, h.view[keep])
      BY <1>1, <2>1, <3>1, <3>2
    <3>4. h.view[keep] \in Nat /\ keep \in Placed
      BY <1>4, <3>3
    <3> QED BY <3>2, <3>3, <3>4, SlotRecords DEF Owner
  <2> QED BY <2>2, <2>3
<1>18. SlotTypes'
  BY <1>2, <1>6, <1>9, <1>11, <1>16 DEF SlotTypes
<1>19. Unstarted'
  BY <1>2 DEF Unstarted
<1> QED BY <1>6, <1>14, <1>15, <1>16, <1>17, <1>18, <1>19

\* At first nothing was placed, and a resync is due.
LEMMA SlotsStart == SlotsInit => SlotsInv
<1> SUFFICES ASSUME SlotsInit PROVE SlotsInv
  OBVIOUS
<1>1. /\ work = Empty /\ task = [t \in Tasks |-> NoTask] /\ started = FALSE
      /\ sent = [o \in Placed |-> "none"] /\ filled = [o \in Placed |-> 0]
      /\ told = [o \in Placed |-> 0] /\ news = <<>> /\ outrun = {}
  BY DEF SlotsInit
<1>2. \A t \in Tasks : task[t] \in Awaits /\ task[t].op = "none"
  BY <1>1, SlotRecords
<1>3. "consumer" \in Tasks /\ "housekeeping" \in Tasks
  BY DEF Tasks
<1>4. SlotTypes
  <2>1. news \in Seq(News)
    <3> HIDE DEF News
    <3> QED BY <1>1
  <2>2. task \in [Tasks -> Awaits]
    BY <1>1, <1>2
  <2> QED BY <1>1, <2>1, <2>2, SlotRecords DEF SlotTypes
<1>5. ExchangeTrue
  BY <1>1, PlacedOrders DEF ExchangeTrue
<1>6. NewsTrue /\ RecordTrue /\ Owned
  BY <1>1, SlotRecords DEF NewsTrue, RecordTrue, Owned
<1>7. AnswersTrue /\ OneOwner
  BY <1>2, <1>3 DEF AnswersTrue, OneOwner, Placing
<1>8. Unstarted
  BY <1>1, <1>2, <1>3 DEF Unstarted, RemainderNotReordered, Pending, Behind
<1> QED BY <1>4, <1>5, <1>6, <1>7, <1>8 DEF SlotsInv

\* What does nothing changes nothing.
LEMMA SlotsRest == ASSUME SlotsInv, UNCHANGED slotVars PROVE SlotsInv'
<1>1. UNCHANGED <<work, task, started, sent, filled, told, news, outrun>>
  BY DEF slotVars
<1>2. SlotTypes' /\ ExchangeTrue' /\ NewsTrue' /\ RecordTrue' /\ AnswersTrue'
  <2>1. SlotTypes'
    BY <1>1 DEF SlotsInv, SlotTypes
  <2>2. ExchangeTrue' /\ NewsTrue' /\ RecordTrue'
    BY <1>1 DEF SlotsInv, ExchangeTrue, NewsTrue, RecordTrue
  <2>3. AnswersTrue'
    BY <1>1 DEF SlotsInv, AnswersTrue
  <2> QED BY <2>1, <2>2, <2>3
<1>3. Owned' /\ OneOwner' /\ Unstarted'
  BY <1>1 DEF SlotsInv, Owned, Owner, OneOwner, Unstarted, RemainderNotReordered, Placing, Pending, Behind
<1> QED BY <1>2, <1>3 DEF SlotsInv

\* The record knows who may still fill: every handler keeps it.
THEOREM SlotsHold == SlotsSpec => []SlotsInv
<1>1. SlotsInv /\ [SlotsNext]_slotVars => SlotsInv'
  <2> SUFFICES ASSUME SlotsInv, [SlotsNext]_slotVars PROVE SlotsInv'
    OBVIOUS
  <2>1. CASE Place
    BY <2>1, PlaceKeeps
  <2>2. CASE PlaceAnswered \/ PlaceRefused \/ PlaceUnconfirmed
    BY <2>2, PlacedKeeps
  <2>3. ASSUME NEW t \in Tasks, CancelStarts(t) PROVE SlotsInv'
    BY <2>3, CancelStartsKeeps
  <2>4. ASSUME NEW t \in Tasks, CancelAccepted(t) \/ CancelGone(t) \/ CancelFails(t) PROVE SlotsInv'
    BY <2>4, CancelKeeps
  <2>5. CASE OrderPushed
    BY <2>5, OrderPushedKeeps
  <2>6. CASE FeedDrops \/ \E o \in Placed : Arrives(o) \/ Fills(o) \/ Ends(o)
    BY <2>6, ExchangeKeeps
  <2>7. CASE Looks \/ Asks
    BY <2>7, AsksKeep
  <2>8. CASE Looked
    BY <2>8, LookedKeeps
  <2>9. CASE Asked
    BY <2>9, AskedKeeps
  <2>10. CASE Resyncs
    BY <2>10, ResyncsKeeps
  <2>11. CASE Resynced
    BY <2>11, ResyncedKeeps
  <2>12. CASE Restart
    BY <2>12, RestartKeeps
  <2>13. ASSUME NEW o \in Placed, FillPushed(o) PROVE SlotsInv'
    BY <2>13, FillKeeps
  <2>14. CASE UNCHANGED slotVars
    BY <2>14, SlotsRest
  <2> QED BY <2>1, <2>2, <2>3, <2>4, <2>5, <2>6, <2>7, <2>8, <2>9, <2>10, <2>11, <2>12, <2>13, <2>14 DEF SlotsNext
<1> QED BY <1>1, SlotsStart, PTL DEF SlotsSpec

\* A role never has two orders on the way, working, or executed without being booked.
THEOREM SlotsKeepOneOrder == SlotsSpec => []RemainderNotReordered
<1>1. SlotsInv => RemainderNotReordered
  <2> SUFFICES ASSUME SlotsInv PROVE RemainderNotReordered
    OBVIOUS
  <2>1. CASE started
    BY <2>1, OwnersAreOne DEF SlotsInv
  <2>2. CASE ~started
    BY <2>2 DEF SlotsInv, Unstarted
  <2> QED BY <2>1, <2>2
<1> QED BY <1>1, SlotsHold, PTL

----------------------------------------------------------------------------
(* Strategy.                                                               *)

Arms == [size : Nat, filled : Nat, left : Nat]
Pulls == [on : BOOLEAN, target : Int, age : Nat, exit : BOOLEAN, floor : BOOLEAN]
Moods == [verdict : BOOLEAN, leaving : Int, last : Nat, most : Nat]
RestingOrders == [rests : Nat, ending : BOOLEAN]

StrategyTypes ==
  /\ held \in Nat /\ arm \in Arms /\ pull \in Pulls /\ mood \in Moods
  /\ entry \in RestingOrders /\ sale \in RestingOrders /\ market \in Nat

\* What is armed is not yet filled, and has time.
ArmOpen == arm = NoArm \/ (arm.filled < arm.size /\ arm.left > 0)

\* A pull is for what was held at the last reading or less, and an exit sells it all.
PullTrue ==
  /\ pull.on => held <= mood.last
  /\ pull.exit => pull.on /\ pull.target = 0
  /\ pull.floor => pull.exit /\ pull.age = TakerAfter

StrategyInv == StrategyTypes /\ ArmOpen /\ PullTrue /\ EntriesWithinLadder

----------------------------------------------------------------------------
\* The constants are positive numbers.
LEMMA StrategyNumbers ==
  /\ Unit \in Nat \ {0} /\ Rungs \in Nat \ {0} /\ EntryLasts \in Nat \ {0}
  /\ TakerAfter \in Nat \ {0} /\ ExitAfter \in Nat \ {0} /\ Ladder \in Nat
<1>1. Unit \in Nat \ {0} /\ Rungs \in Nat \ {0} /\ EntryLasts \in Nat \ {0}
      /\ TakerAfter \in Nat \ {0} /\ ExitAfter \in Nat \ {0}
  BY LadderAssumption
<1>2. \A a, b \in Nat : a * b \in Nat
  OBVIOUS
<1> QED BY <1>1, <1>2 DEF Ladder

\* A signal buys a part of the ladder, and nothing when it withdraws an entry.
LEMMA DipIsNat == \A r \in Dips : r.dip \in Nat
BY StrategyNumbers DEF Dips

\* What a reading leaves armed is open and fits the ladder.
LEMMA ArmFits ==
  ASSUME NEW r \in Dips, NEW h \in Nat, NEW a \in [size : Nat, filled : Nat, left : Int], a = NoArm \/ a.left >= 0
  PROVE  /\ ArmAfter(r, h, a) \in Arms
         /\ \/ ArmAfter(r, h, a) = NoArm
            \/ ArmAfter(r, h, a).filled < ArmAfter(r, h, a).size /\ ArmAfter(r, h, a).left > 0
         /\ ArmAfter(r, h, a) # NoArm => h + (ArmAfter(r, h, a).size - ArmAfter(r, h, a).filled) <= Ladder
<1> DEFINE kept == IF a.filled >= a.size THEN NoArm ELSE a
           armed == IF kept = NoArm /\ r.dip > 0 /\ Fits(h, r.dip)
                    THEN [size |-> r.dip, filled |-> 0, left |-> EntryLasts] ELSE kept
<1>1. r.dip \in Nat /\ EntryLasts \in Nat \ {0} /\ Ladder \in Nat
  BY DipIsNat, StrategyNumbers
<1>2. kept \in Arms /\ (kept = NoArm \/ kept.filled < kept.size)
  BY DEF Arms, NoArm
<1>3. armed \in Arms /\ (armed = NoArm \/ armed.filled < armed.size)
  BY <1>1, <1>2 DEF Arms, NoArm
<1>4. ArmAfter(r, h, a) = IF r.off \/ armed.left = 0 \/ ~Fits(h, armed.size - armed.filled) THEN NoArm ELSE armed
  BY DEF ArmAfter
<1>5. NoArm \in Arms
  BY DEF NoArm, Arms
<1> HIDE DEF armed, kept
<1>6. CASE r.off \/ armed.left = 0 \/ ~Fits(h, armed.size - armed.filled)
  BY <1>4, <1>5, <1>6
<1>7. CASE ~(r.off \/ armed.left = 0 \/ ~Fits(h, armed.size - armed.filled))
  BY <1>3, <1>4, <1>7 DEF Fits, Arms
<1> QED BY <1>6, <1>7

\* An order that rests is left, withdrawn, or gives place to one of the size wished.
LEMMA MakerKeeps ==
  ASSUME NEW o \in RestingOrders, NEW n \in Nat, NEW x \in Maker(o, n)
  PROVE  x \in RestingOrders /\ (x.rests = o.rests \/ x.rests = n)
BY DEF Maker, Cancel, NoOrder, RestingOrders

\* What a reading decides to sell: of the types, and true to the position read.
LEMMA SalesTrue ==
  ASSUME NEW h \in Nat, NEW p \in Pulls, NEW m \in [verdict : BOOLEAN, leaving : Int, last : Nat, most : Nat],
         p.exit => p.on /\ p.target = 0, p.floor => p.exit /\ p.age = TakerAfter,
         p.on => p.target \in Int,
         NEW d \in Sales(h, p, m)
  PROVE  /\ d.pull \in Pulls /\ d.mood \in Moods
         /\ d.pull.on => h <= d.mood.last
         /\ d.pull.exit => d.pull.on /\ d.pull.target = 0
         /\ d.pull.floor => d.pull.exit /\ d.pull.age = TakerAfter
         /\ d.trim.n \in Nat
<1>0. TakerAfter \in Nat \ {0} /\ Staying \in Int /\ NoPull \in Pulls
  BY StrategyNumbers DEF Staying, NoPull, Pulls
<1>1. CASE h = 0
  <2>1. d = [pull |-> NoPull, trim |-> NoTrim, mood |-> Fresh]
    BY <1>1 DEF Sales
  <2>2. Fresh \in Moods
    BY <1>0 DEF Fresh, Moods
  <2>3. d.pull = NoPull /\ d.mood = Fresh /\ d.trim.n = 0
    BY <2>1 DEF NoTrim
  <2> QED BY <1>0, <1>1, <2>2, <2>3 DEF NoPull
<1>2. CASE h # 0
  <2>1. PICK r \in Tops(h) : d = DecidesPull(r, h, p, m)
    BY <1>2 DEF Sales
  <2>2. r.top \in Int /\ r.top <= h
    BY DEF Tops
  <2> DEFINE verdict == m.verdict \/ r.lead = "verdict"
             leaving == verdict \/ r.lead = "told"
             since == IF ~leaving THEN Staying ELSE IF m.leaving = Staying THEN 0 ELSE m.leaving
             most == IF m.most > h THEN m.most ELSE h
             stands == Standing(p, h, m.last)
             lot == Pulled(r, h, stands)
             all == IF leaving THEN Leaves(r, lot, since) ELSE IF lot.exit THEN NoPull ELSE lot
             now == PullGated(r, all)
             Good(q) == /\ q \in Pulls
                        /\ q.exit => q.on /\ q.target = 0
                        /\ q.floor => q.exit /\ q.age = TakerAfter
                        /\ q.on => q.target < h
  <2>3. d = [pull |-> now, trim |-> Trim(r, h, now, most),
             mood |-> [verdict |-> verdict, leaving |-> since, last |-> h, most |-> most]]
    BY <2>1 DEF DecidesPull
  <2>4. since \in Int /\ most \in Nat /\ h <= most /\ verdict \in BOOLEAN
    BY <1>0
  <2>5. Good(NoPull) /\ Good(ExitPull(0, FALSE)) /\ Good(ExitPull(TakerAfter, TRUE))
    BY <1>0, <1>2 DEF NoPull, ExitPull, Pulls
  <2>6. Good(stands)
    <3>1. CASE p.on /\ (h <= p.target \/ h > m.last)
      BY <2>5, <3>1 DEF Standing
    <3>2. CASE ~(p.on /\ (h <= p.target \/ h > m.last))
      BY <3>2 DEF Standing, Pulls
    <3> QED BY <3>1, <3>2
  <2>7. Good(lot)
    <3> HIDE DEF stands
    <3>1. CASE r.top > 0 /\ ~stands.on
      <4>1. lot = [on |-> TRUE, target |-> h - r.top, age |-> 0, exit |-> FALSE, floor |-> FALSE]
        BY <3>1 DEF Pulled, NoPull
      <4> QED BY <4>1, <3>1, <2>2 DEF Pulls
    <3>2. CASE ~(r.top > 0 /\ ~stands.on)
      BY <3>2, <2>6 DEF Pulled
    <3> QED BY <3>1, <3>2
  <2>8. Good(all)
    <3> HIDE DEF lot, leaving, since, Good
    <3> QED BY <2>5, <2>7 DEF Leaves
  <2>9. Good(now)
    <3> HIDE DEF all, Good
    <3> QED BY <2>5, <2>8 DEF PullGated
  <2>10. Trim(r, h, now, most).n \in Nat
    <3> HIDE DEF all, now, most
    <3>1. now.target \in Int /\ (now.on => now.target < h)
      BY <2>9 DEF Pulls
    <3>2. most \div 2 \in Int
      BY <2>4
    <3> HIDE DEF Good
    <3> QED BY <3>1, <3>2, <2>4 DEF Trim, BlowOff
  <2>11. d.pull = now /\ d.mood = [verdict |-> verdict, leaving |-> since, last |-> h, most |-> most]
         /\ d.trim = Trim(r, h, now, most)
    BY <2>3
  <2> HIDE DEF now, most, since, verdict
  <2> QED BY <2>4, <2>9, <2>10, <2>11 DEF Moods
<1> QED BY <1>1, <1>2

\* A book that holds something decides by a reading.
LEMMA SecondDecides ==
  ASSUME NEW h \in Nat, h # 0, NEW p, NEW m, NEW d \in Sales(h, p, m)
  PROVE  \E r \in Tops(h) : d = DecidesPull(r, h, p, m)
BY DEF Sales

\* A tick with the position h, wherever it comes from, keeps the books of the strategy.
LEMMA TickKeeps ==
  ASSUME NEW signals \in SUBSET Dips, NEW h \in Nat, NEW a \in [size : Nat, filled : Nat, left : Int],
         a = NoArm \/ a.left >= 0,
         NEW p \in Pulls, p.exit => p.on /\ p.target = 0, p.floor => p.exit /\ p.age = TakerAfter,
         NEW m \in [verdict : BOOLEAN, leaving : Int, last : Nat, most : Nat],
         NEW e \in RestingOrders, NEW s \in RestingOrders, NEW k \in Nat,
         h + e.rests <= Ladder,
         Ticks(signals, h, a, p, m, e, s, k)
  PROVE  StrategyInv'
<1>1. PICK r \in signals, d \in Sales(h, p, m) :
        /\ held' = h /\ pull' = d.pull /\ mood' = d.mood /\ asked' = d.trim
        /\ Reconciles(ArmAfter(r, h, a), d, e, s, k)
  BY DEF Ticks
<1>2. r \in Dips
  OBVIOUS
<1> DEFINE b == ArmAfter(r, h, a)
<1>3. /\ b \in Arms /\ (b = NoArm \/ (b.filled < b.size /\ b.left > 0))
      /\ b # NoArm => h + (b.size - b.filled) <= Ladder
  BY <1>2, ArmFits
<1>4. /\ d.pull \in Pulls /\ d.mood \in Moods /\ (d.pull.on => h <= d.mood.last)
      /\ d.pull.exit => d.pull.on /\ d.pull.target = 0
      /\ d.pull.floor => d.pull.exit /\ d.pull.age = TakerAfter
      /\ d.trim.n \in Nat
  <2>1. p.target \in Int
    BY DEF Pulls
  <2> QED BY <2>1, SalesTrue
<1>5. NoArm \in Arms /\ NoArm.size - NoArm.filled = 0 /\ Ladder \in Nat
  BY StrategyNumbers DEF NoArm, Arms
<1> HIDE DEF b
<1>6. b.size - b.filled \in Nat /\ h + (b.size - b.filled) <= Ladder
  <2>1. CASE b = NoArm
    <3>1. e.rests \in Nat
      BY DEF RestingOrders
    <3> QED BY <2>1, <3>1, <1>5
  <2>2. CASE b # NoArm
    BY <2>2, <1>3 DEF Arms
  <2> QED BY <2>1, <2>2
<1>7. arm' \in Arms /\ ArmOpen' /\ entry' \in RestingOrders /\ h + entry'.rests <= Ladder
  <2>1. CASE arm' = b /\ entry' \in Maker(e, b.size - b.filled)
    BY <2>1, <1>3, <1>6, MakerKeeps DEF ArmOpen
  <2>2. CASE b # NoArm /\ e = NoOrder /\ arm' = NoArm /\ entry' = e
    BY <2>2, <1>5 DEF ArmOpen
  <2> QED BY <1>1, <2>1, <2>2 DEF Reconciles, b
<1>8. sale' \in RestingOrders /\ market' \in Nat
  <2>1. CASE d.trim.how = "taker"
    <3>1. sale' = Takes(s, k, d.trim.n)[1] /\ market' = Takes(s, k, d.trim.n)[2]
      BY <1>1, <2>1 DEF Reconciles
    <3> QED BY <3>1, <1>4 DEF Takes, Cancel, RestingOrders
  <2>2. CASE d.trim.how # "taker"
    <3>1. sale' \in Maker(s, d.trim.n) /\ market' = k
      BY <1>1, <2>2 DEF Reconciles
    <3> QED BY <3>1, <1>4, MakerKeeps
  <2> QED BY <2>1, <2>2
<1>9. StrategyTypes'
  BY <1>1, <1>4, <1>7, <1>8 DEF StrategyTypes
<1>10. PullTrue'
  BY <1>1, <1>4 DEF PullTrue
<1>11. EntriesWithinLadder'
  BY <1>1, <1>7 DEF EntriesWithinLadder
<1> QED BY <1>7, <1>9, <1>10, <1>11 DEF StrategyInv

\* The initial state.
LEMMA InitStrategy == StrategyABInit => StrategyInv
<1> SUFFICES ASSUME StrategyABInit PROVE StrategyInv
  OBVIOUS
<1>1. StrategyTypes
  BY DEF StrategyABInit, StrategyTypes, NoArm, NoPull, Fresh, NoOrder, Staying, Arms, Pulls, Moods, RestingOrders
<1> QED BY <1>1, StrategyNumbers DEF StrategyInv, StrategyABInit, ArmOpen, PullTrue, EntriesWithinLadder, NoPull, NoOrder

\* Time makes an age no type it was not.
LEMMA OlderIs ==
  ASSUME NEW n \in Int, NEW bound \in Nat
  PROVE  /\ Older(n, bound) \in Int /\ (n \in Nat => Older(n, bound) \in Nat)
         /\ Older(bound, bound) = bound
BY DEF Older

\* One unit of an order is filled.
LEMMA LessIs ==
  ASSUME NEW o \in RestingOrders, o.rests > 0
  PROVE  Less(o) \in RestingOrders /\ Less(o).rests = o.rests - 1
BY DEF Less, NoOrder, RestingOrders

\* Every step.
LEMMA NextStrategy == StrategyInv /\ [StrategyABNext]_strategyABVars => StrategyInv'
<1> SUFFICES ASSUME StrategyInv, [StrategyABNext]_strategyABVars PROVE StrategyInv'
  OBVIOUS
<1>0. /\ held \in Nat /\ arm \in Arms /\ pull \in Pulls /\ mood \in Moods
      /\ entry \in RestingOrders /\ sale \in RestingOrders /\ market \in Nat
      /\ entry.rests \in Nat /\ Ladder \in Nat /\ TakerAfter \in Nat /\ ExitAfter \in Nat
      /\ held + entry.rests <= Ladder
  BY StrategyNumbers DEF StrategyInv, StrategyTypes, RestingOrders, EntriesWithinLadder
<1>1. /\ pull.exit => pull.on /\ pull.target = 0
      /\ pull.floor => pull.exit /\ pull.age = TakerAfter
      /\ arm \in [size : Nat, filled : Nat, left : Int] /\ (arm = NoArm \/ arm.left >= 0)
      /\ mood \in [verdict : BOOLEAN, leaving : Int, last : Nat, most : Nat]
  BY <1>0 DEF StrategyInv, PullTrue, Arms, Moods
<1>2. CASE Second
  <2> DEFINE a == IF arm = NoArm THEN arm ELSE [arm EXCEPT !.left = @ - 1]
             p == IF pull.on THEN [pull EXCEPT !.age = Older(@, TakerAfter)] ELSE pull
             m == [mood EXCEPT !.leaving = Older(@, ExitAfter)]
  <2>1. a \in [size : Nat, filled : Nat, left : Int] /\ (a = NoArm \/ a.left >= 0)
    BY <1>0, <1>1 DEF StrategyInv, ArmOpen, Arms
  <2>2. p \in Pulls /\ (p.exit => p.on /\ p.target = 0) /\ (p.floor => p.exit /\ p.age = TakerAfter)
    BY <1>0, <1>1, OlderIs DEF Pulls
  <2>3. m \in [verdict : BOOLEAN, leaving : Int, last : Nat, most : Nat]
    BY <1>0, <1>1, OlderIs
  <2>4. Ticks(Dips, held, a, p, m, entry, sale, market)
    BY <1>2 DEF Second
  <2> HIDE DEF a, p, m
  <2> QED BY <2>1, <2>2, <2>3, <2>4, <1>0, TickKeeps
<1>3. CASE EntryFillTold
  <2> DEFINE a == IF arm = NoArm THEN arm ELSE [arm EXCEPT !.filled = @ + 1]
  <2>1. a \in [size : Nat, filled : Nat, left : Int] /\ (a = NoArm \/ a.left >= 0)
    BY <1>0, <1>1 DEF Arms
  <2>2. Less(entry) \in RestingOrders /\ held + 1 + Less(entry).rests <= Ladder
    BY <1>0, <1>3, LessIs DEF EntryFillTold
  <2>3. Ticks({r \in Dips : r.dip = 0}, held + 1, a, pull, mood, Less(entry), sale, market)
    BY <1>3 DEF EntryFillTold, AfterFill
  <2>4. {r \in Dips : r.dip = 0} \in SUBSET Dips /\ held + 1 \in Nat
    BY <1>0
  <2> HIDE DEF a
  <2> QED BY <2>1, <2>2, <2>3, <2>4, <1>0, <1>1, TickKeeps
<1>4. CASE SaleFillTold
  <2>1. Less(sale) \in RestingOrders /\ held - 1 \in Nat /\ held - 1 + entry.rests <= Ladder
    BY <1>0, <1>4, LessIs DEF SaleFillTold
  <2>2. Ticks({r \in Dips : r.dip = 0}, held - 1, arm, pull, mood, entry, Less(sale), market)
    BY <1>4 DEF SaleFillTold, AfterFill
  <2> QED BY <2>1, <2>2, <1>0, <1>1, TickKeeps
<1>5. CASE MarketFillTold
  <2>1. market - 1 \in Nat /\ held - 1 \in Nat /\ held - 1 + entry.rests <= Ladder
    BY <1>0, <1>5 DEF MarketFillTold
  <2>2. Ticks({r \in Dips : r.dip = 0}, held - 1, arm, pull, mood, entry, sale, market - 1)
    BY <1>5 DEF MarketFillTold, AfterFill
  <2> QED BY <2>1, <2>2, <1>0, <1>1, TickKeeps
<1>6. CASE EntryGone
  BY <1>0, <1>6 DEF EntryGone, StrategyInv, StrategyTypes, ArmOpen, PullTrue, EntriesWithinLadder, NoOrder, RestingOrders
<1>7. CASE SaleGone
  BY <1>0, <1>7 DEF SaleGone, StrategyInv, StrategyTypes, ArmOpen, PullTrue, EntriesWithinLadder, NoOrder, RestingOrders
<1>8. CASE StopHits
  <2>1. entry' \in RestingOrders /\ entry'.rests = entry.rests /\ sale' \in RestingOrders
    BY <1>0, <1>8 DEF StopHits, Cancel, NoOrder, RestingOrders
  <2>2. mood.last \in Nat
    BY <1>0 DEF Moods
  <2>3. held' = 0 /\ market' = 0 /\ UNCHANGED <<arm, pull, mood>>
    BY <1>8 DEF StopHits
  <2> QED BY <2>1, <2>2, <2>3, <1>0 DEF StrategyInv, StrategyTypes, ArmOpen, PullTrue, EntriesWithinLadder
<1>9. CASE StrategyRestarts
  <2>1. arm' \in Arms /\ pull' \in Pulls /\ mood' \in Moods
    <3>1. mood.most \in Nat
      BY <1>0 DEF Moods
    <3>2. mood' = [verdict |-> FALSE, leaving |-> -1, last |-> 0, most |-> IF held > 0 THEN mood.most ELSE 0]
      BY <1>9 DEF StrategyRestarts, Fresh, Staying
    <3> QED BY <3>1, <3>2, <1>9 DEF StrategyRestarts, NoArm, NoPull, Arms, Pulls, Moods
  <2> QED BY <2>1, <1>9 DEF StrategyRestarts, StrategyInv, StrategyTypes, ArmOpen, PullTrue, EntriesWithinLadder, NoPull
<1>10. CASE UNCHANGED strategyABVars
  BY <1>10 DEF strategyABVars, StrategyInv, StrategyTypes, ArmOpen, PullTrue, EntriesWithinLadder
<1> QED BY <1>2, <1>3, <1>4, <1>5, <1>6, <1>7, <1>8, <1>9, <1>10 DEF StrategyABNext

\* Whatever fills late, is withdrawn, refused, armed again, stopped out or forgotten by a
\* restart, what is held and what rests to be bought fit the ladder, for any ladder and times.
THEOREM LadderHolds == StrategyABSpec => []EntriesWithinLadder
<1>1. StrategyInv => EntriesWithinLadder
  BY DEF StrategyInv
<1> QED BY <1>1, InitStrategy, NextStrategy, PTL DEF StrategyABSpec

\* A late exit at the next reading: the pull that stands is for all that is held, since
\* what was bought was seen by its own reading, and the taker's age is due.
LEMMA LateExit ==
  ASSUME StrategyInv, Second, mood.leaving = ExitAfter, pull.exit, mood'.leaving # Staying
  PROVE  asked' = [n |-> held, how |-> "taker"]
<1> DEFINE p == [pull EXCEPT !.age = Older(@, TakerAfter)]
           m == [mood EXCEPT !.leaving = Older(@, ExitAfter)]
<1>0. /\ held \in Nat /\ pull \in Pulls /\ mood \in Moods /\ TakerAfter \in Nat \ {0} /\ ExitAfter \in Nat \ {0}
      /\ pull.on /\ pull.target = 0 /\ held <= mood.last /\ (pull.floor => pull.age = TakerAfter)
  BY StrategyNumbers DEF StrategyInv, StrategyTypes, PullTrue
<1>1. PICK d \in Sales(held, p, m) : mood' = d.mood /\ asked' = d.trim
  BY <1>0 DEF Second, Ticks
<1>2. /\ m.leaving = ExitAfter /\ m.last = mood.last
      /\ p.on /\ p.exit /\ p.target = 0 /\ p.floor = pull.floor /\ (p.floor => p.age = TakerAfter)
  BY <1>0, OlderIs DEF Pulls, Moods
<1>3. held # 0
  <2> SUFFICES ASSUME held = 0 PROVE FALSE
    OBVIOUS
  <2>1. d.mood = Fresh
    BY <1>1 DEF Sales
  <2> QED BY <2>1, <1>1 DEF Fresh
<1>4. PICK r \in Tops(held) : d = DecidesPull(r, held, p, m)
  BY <1>0, <1>3, SecondDecides
<1> HIDE DEF p, m
<1> DEFINE verdict == m.verdict \/ r.lead = "verdict"
           leaving == verdict \/ r.lead = "told"
           since == IF ~leaving THEN Staying ELSE IF m.leaving = Staying THEN 0 ELSE m.leaving
           most == IF m.most > held THEN m.most ELSE held
           lot == Pulled(r, held, Standing(p, held, m.last))
           all == IF leaving THEN Leaves(r, lot, since) ELSE IF lot.exit THEN NoPull ELSE lot
           now == PullGated(r, all)
<1>5. d.trim = Trim(r, held, now, most) /\ d.mood.leaving = since
  BY <1>4 DEF DecidesPull
<1>6. leaving /\ since = ExitAfter
  BY <1>0, <1>1, <1>2, <1>5 DEF Staying
<1>7. lot = p
  <2>1. Standing(p, held, m.last) = p
    <3>1. mood.last \in Nat
      BY <1>0 DEF Moods
    <3> QED BY <3>1, <1>0, <1>2, <1>3 DEF Standing
  <2> QED BY <2>1, <1>2 DEF Pulled
<1>8. all.on /\ all.exit /\ all.target = 0 /\ all.age = TakerAfter
  <2>1. all = Leaves(r, p, ExitAfter)
    BY <1>6, <1>7
  <2>2. ExitAfter >= ExitAfter
    BY <1>0
  <2> HIDE DEF all
  <2> QED BY <2>1, <2>2, <1>2 DEF Leaves, ExitPull
<1>9. now = all
  BY <1>8 DEF PullGated
<1>10. Trim(r, held, all, most) = [n |-> held, how |-> "taker"]
  <2>1. held - 0 = held /\ TakerAfter >= TakerAfter
    BY <1>0
  <2> HIDE DEF all, most
  <2> QED BY <2>1, <1>8 DEF Trim
<1> QED BY <1>1, <1>5, <1>9, <1>10

\* An exit whose time is over rests as a maker's order for one reading at most: at the
\* next all that is held is taken to the market, whatever happened in between.
THEOREM LateExitsEnd == StrategyABSpec => LateExitIsTaken
<1>1. StrategyInv /\ [StrategyABNext]_strategyABVars
        => [Second /\ mood.leaving = ExitAfter /\ pull.exit /\ mood'.leaving # Staying
              => asked' = [n |-> held, how |-> "taker"]]_strategyABVars
  BY LateExit
<1> QED BY <1>1, InitStrategy, NextStrategy, PTL DEF StrategyABSpec, LateExitIsTaken

----------------------------------------------------------------------------
(* Hunt.                                                                   *)

\* What is on file has its parts, and the books are of coins.
OnFile ==
  /\ memory = [held |-> memory.held, streak |-> memory.streak, xstreak |-> memory.xstreak,
               rstreak |-> memory.rstreak, cool |-> memory.cool]
  /\ books = [c \in HeldBooks |-> books[c]] /\ HeldBooks \subseteq Coins

HuntInv == OnFile /\ CoolingStaysOut

\* Whoever is chosen is a confirmed candidate, and so not cooling.
LEMMA ChosenAreFree ==
  ASSUME NEW rows, NEW chosen \in Chosen(rows, Leaving(rows), Streaks(rows, Candidates(rows, Leaving(rows)))),
         NEW c \in chosen
  PROVE  c \in Coins \ memory.cool
<1> DEFINE candidates == Candidates(rows, Leaving(rows))
           streaks == Streaks(rows, candidates)
           confirmed == {x \in Coins : \E d \in Directions : streaks[x][d] >= Confirm}
<1>1. chosen \subseteq confirmed
  <2> HIDE DEF confirmed
  <2> QED BY DEF Chosen, kSubset, confirmed
<1>2. PICK d \in Directions : streaks[c][d] >= Confirm
  BY <1>1
<1>3. c \in Coins
  BY <1>1
<1>4. streaks[c][d] = IF c \in candidates /\ DirectionOf(rows[c]) = d THEN CountTo(memory.streak[c][d] + 1) ELSE 0
  BY <1>3 DEF Streaks
<1>5. ~(0 >= Confirm)
  BY HuntAssumption
<1>6. c \in candidates
  <2> HIDE DEF candidates, streaks
  <2> QED BY <1>2, <1>4, <1>5
<1> QED BY <1>3, <1>6 DEF Candidates

\* What a turn decides: which books are added and which go.
LEMMA DecidedAre ==
  ASSUME NEW after \in Decisions
  PROVE  \E rows \in Scans, adds \in SUBSET Coins, gone \in SUBSET HeldBooks :
           /\ after.memory.cool = memory.cool \union {c \in gone : LeavesCoin(ExitOf(c, rows[c]))}
           /\ after.memory = [held |-> after.memory.held, streak |-> after.memory.streak,
                xstreak |-> after.memory.xstreak, rstreak |-> after.memory.rstreak, cool |-> after.memory.cool]
           /\ after.books = [c \in DOMAIN after.books |-> after.books[c]]
           /\ DOMAIN after.books = (HeldBooks \ gone) \union adds
           /\ adds \intersect memory.cool = {}
           /\ \A c \in adds \intersect gone : ~LeavesCoin(ExitOf(c, rows[c]))
           /\ HeldBooks # {} => DOMAIN after.books # {}
<1>1. PICK rows \in Scans : after \in Outcomes(rows)
  BY DEF Decisions
<1> DEFINE leaving == Leaving(rows)
           streaks == Streaks(rows, Candidates(rows, leaving))
<1> DEFINE Outcome(adds, gone) ==
             [books |-> BooksAfter(rows, adds \ (HeldBooks \ gone), HeldBooks \ gone),
              memory |-> MemoryAfter(rows, streaks, adds \ (HeldBooks \ gone), gone)]
           Results(adds, flats) == {Outcome(adds, gone) : gone \in Droppable(adds, flats)}
           Offers(flats) == {Results(Openable(chosen, rows, flats), flats) : chosen \in Chosen(rows, leaving, streaks)}
<1>a. Outcomes(rows) = UNION {UNION Offers(flats) : flats \in SUBSET leaving}
  BY Zenon DEF Outcomes
<1>b. PICK flats \in SUBSET leaving : after \in UNION Offers(flats)
  <2> HIDE DEF Offers, leaving
  <2> QED BY <1>1, <1>a
<1>c. PICK chosen \in Chosen(rows, leaving, streaks) : after \in Results(Openable(chosen, rows, flats), flats)
  <2> HIDE DEF Results, leaving, streaks
  <2> QED BY <1>b
<1> DEFINE adds == Openable(chosen, rows, flats)
<1>3. PICK gone \in Droppable(adds, flats) :
          after = [books |-> BooksAfter(rows, adds \ (HeldBooks \ gone), HeldBooks \ gone),
                   memory |-> MemoryAfter(rows, streaks, adds \ (HeldBooks \ gone), gone)]
  <2> HIDE DEF adds, leaving, streaks
  <2>1. after \in Results(adds, flats)
    BY <1>c DEF adds
  <2> QED BY <2>1
<1> DEFINE new == adds \ (HeldBooks \ gone)
           kept == HeldBooks \ gone
<1>4. adds \subseteq Coins \ memory.cool
  BY ChosenAreFree DEF Openable
<1>5. leaving \subseteq HeldBooks
  BY DEF Leaving
<1>6. gone \subseteq flats /\ (gone = HeldBooks /\ HeldBooks # {} => adds # {})
  <2> HIDE DEF adds, leaving
  <2> QED BY <1>5 DEF Droppable
<1>7. \A c \in adds \intersect HeldBooks : ~LeavesCoin(ExitOf(c, rows[c]))
  BY DEF Openable
<1>8. after.books = BooksAfter(rows, new, kept) /\ after.memory = MemoryAfter(rows, streaks, new, gone)
  BY <1>3
<1> HIDE DEF adds, leaving, streaks
<1>9. after.books = [c \in kept \union new |-> after.books[c]] /\ DOMAIN after.books = kept \union new
  BY <1>8 DEF BooksAfter
<1>10. /\ after.memory.cool = memory.cool \union {c \in gone : LeavesCoin(ExitOf(c, rows[c]))}
       /\ after.memory = [held |-> after.memory.held, streak |-> after.memory.streak,
            xstreak |-> after.memory.xstreak, rstreak |-> after.memory.rstreak, cool |-> after.memory.cool]
  BY <1>8 DEF MemoryAfter
<1>11. kept \union new = kept \union adds
  OBVIOUS
<1>12. HeldBooks # {} => kept \union new # {}
  BY <1>5, <1>6
<1>13. gone \in SUBSET HeldBooks /\ new \in SUBSET Coins
  BY <1>4, <1>5, <1>6
<1>14. \A c \in new \intersect gone : ~LeavesCoin(ExitOf(c, rows[c]))
  BY <1>7, <1>13
<1>15. new \intersect memory.cool = {}
  BY <1>4
<1> QED BY <1>9, <1>10, <1>12, <1>13, <1>14, <1>15

\* Every step.
LEMMA NextHunt == HuntInv /\ [HuntNext]_huntVars => HuntInv'
<1> SUFFICES ASSUME HuntInv, [HuntNext]_huntVars PROVE HuntInv'
  OBVIOUS
<1>1. CASE Turn
  <2>1. PICK after \in Decisions : memory' = after.memory /\ (Saves(after) \/ DiesInBetween(after))
    BY <1>1 DEF Turn
  <2>2. PICK rows \in Scans, adds \in SUBSET Coins, gone \in SUBSET HeldBooks :
           /\ after.memory.cool = memory.cool \union {c \in gone : LeavesCoin(ExitOf(c, rows[c]))}
           /\ after.memory = [held |-> after.memory.held, streak |-> after.memory.streak,
                xstreak |-> after.memory.xstreak, rstreak |-> after.memory.rstreak, cool |-> after.memory.cool]
           /\ after.books = [c \in DOMAIN after.books |-> after.books[c]]
           /\ DOMAIN after.books = (HeldBooks \ gone) \union adds
           /\ adds \intersect memory.cool = {}
           /\ \A c \in adds \intersect gone : ~LeavesCoin(ExitOf(c, rows[c]))
    BY DecidedAre
  <2>3. HeldBooks \subseteq Coins /\ (memory.cool \ torn) \intersect HeldBooks = {}
    BY DEF HuntInv, OnFile, CoolingStaysOut
  <2>4. CASE Saves(after)
    <3>1. books' = after.books /\ torn' = torn \intersect DOMAIN after.books
      BY <2>4 DEF Saves
    <3>2. OnFile'
      BY <2>1, <2>2, <2>3, <3>1 DEF OnFile, HeldBooks
    <3>3. CoolingStaysOut'
      BY <2>1, <2>2, <2>3, <3>1 DEF CoolingStaysOut, HeldBooks
    <3> QED BY <3>2, <3>3 DEF HuntInv
  <2>5. CASE DiesInBetween(after)
    <3>1. books' = books /\ torn' = torn \union (HeldBooks \ DOMAIN after.books)
      BY <2>5 DEF DiesInBetween
    <3>2. OnFile'
      BY <2>1, <2>2, <3>1 DEF HuntInv, OnFile, HeldBooks
    <3>3. CoolingStaysOut'
      BY <2>1, <2>2, <2>3, <3>1 DEF CoolingStaysOut, HeldBooks
    <3> QED BY <3>2, <3>3 DEF HuntInv
  <2> QED BY <2>1, <2>4, <2>5
<1>2. ASSUME NEW c \in Coins, CooldownEnds(c) PROVE HuntInv'
  BY <1>2 DEF CooldownEnds, HuntInv, OnFile, CoolingStaysOut, HeldBooks
<1>3. CASE UNCHANGED huntVars
  BY <1>3 DEF huntVars, HuntInv, OnFile, CoolingStaysOut, HeldBooks
<1> QED BY <1>1, <1>2, <1>3 DEF HuntNext

\* The initial state.
LEMMA InitHunt == HuntInit => HuntInv
BY DEF HuntInit, HuntInv, OnFile, CoolingStaysOut, HeldBooks, Blank

\* A coin whose episode ended has no book while it cools down, for any coins, limits and
\* numbers of scans, but for one that a death between the two saves left on file.
THEOREM CoolingHolds == HuntSpec => []CoolingStaysOut
<1>1. HuntInv => CoolingStaysOut
  BY DEF HuntInv
<1> QED BY <1>1, InitHunt, NextHunt, PTL DEF HuntSpec

\* No basket but the empty one has no books.
LEMMA EmptyBasket == OnFile => (books # <<>> => HeldBooks # {})
<1> SUFFICES ASSUME OnFile, HeldBooks = {} PROVE books = <<>>
  OBVIOUS
<1>1. books = [c \in {} |-> books[c]]
  BY DEF OnFile
<1>2. [c \in {} |-> books[c]] = <<>>
  OBVIOUS
<1> QED BY <1>1, <1>2

\* A basket that has books never becomes empty, however its coins go flat and are replaced.
THEOREM BasketNeverEmpty == HuntSpec => NeverEmpty
<1>1. HuntInv /\ [HuntNext]_huntVars => [books # <<>> => books' # <<>>]_books
  <2> SUFFICES ASSUME HuntInv, [HuntNext]_huntVars, books # <<>>, books' # books PROVE books' # <<>>
    OBVIOUS
  <2>1. HeldBooks # {}
    BY EmptyBasket DEF HuntInv
  <2>2. CASE Turn
    <3>1. PICK after \in Decisions : Saves(after)
      BY <2>2 DEF Turn, DiesInBetween
    <3>2. DOMAIN after.books # {}
      BY <2>1, DecidedAre
    <3>3. DOMAIN <<>> = {}
      OBVIOUS
    <3> QED BY <3>1, <3>2, <3>3 DEF Saves
  <2>3. ASSUME NEW c \in Coins, CooldownEnds(c) PROVE FALSE
    BY <2>3 DEF CooldownEnds
  <2>4. CASE UNCHANGED huntVars
    BY <2>4 DEF huntVars
  <2> QED BY <2>2, <2>3, <2>4 DEF HuntNext
<1> QED BY <1>1, InitHunt, NextHunt, PTL DEF HuntSpec, NeverEmpty

----------------------------------------------------------------------------
(* The stops.                                                              *)

Fill == [kind : {"entry", "trim", "close"}, plan : Nat]
Close == [plan : Nat, n : Nat]
APlan == [kind : {"none", "preset", "position"}, st : {"none", "live", "gone", "fired"}]
AlgoNews == [plan : Plans, ev : {"none", "live", "gone", "fired"}]
APass == [at : {"out", "begun", "awaits"}, list : Seq(Close), keep : Seq(Close), same : BOOLEAN]

StopTypes ==
  /\ lots \in Nat /\ position \in Nat
  /\ fills \in Seq(Fill) /\ unmatched \in Seq(Close)
  /\ pass \in [Keepers -> APass]
  /\ count \in [entries : Nat, hands : Nat, listed : Nat]
  /\ plans \in [Plans -> APlan] /\ algo \in Seq(AlgoNews)
  /\ IsFiniteSet(hit) /\ settled \subseteq Nat
  /\ named \subseteq Plans     \* never a close by hand

\* The closes that are listed and not booked, and those by hand.
Open == {x \in Range(unmatched) : x.n \notin settled}
ByHand == {x \in Range(unmatched) : x.plan = Hand}

\* One fill moves the position, or is one of those by hand.
LotsMove == [r \in Fill |-> IF r.kind = "entry" THEN 1 ELSE -1]
HandsMove == [r \in Fill |-> IF r.kind = "close" /\ r.plan = Hand THEN 1 ELSE 0]

\* From a to b, by what f says of each of the fills s, and never below zero.
Leads(s, f, a, b) == \E h \in [0..Len(s) -> Nat] :
  /\ h[0] = a /\ h[Len(s)] = b
  /\ \A i \in 1..Len(s) : h[i] = h[i - 1] + f[s[i]]

\* The fills under way lead from what is booked or listed to what the exchange holds,
\* and from the closes by hand that are listed to all there were.
FillsFollow ==
  /\ Leads(fills, LotsMove, lots - Cardinality(Open), position)
  /\ Leads(fills, HandsMove, Cardinality(ByHand), count.hands)

\* The closes are listed in the order they came, and none by hand was booked.
Ascending(s) == \A i, j \in DOMAIN s : i < j => s[i].n < s[j].n
ListInOrder ==
  /\ Ascending(unmatched)
  /\ \A n \in settled : n < count.listed
  /\ \A x \in Range(unmatched) : x.n < count.listed /\ (x.plan = Hand => x.n \notin settled)

\* A pass over the list as it is has all of it that is not booked; one whose list was
\* replaced has at least no close that is gone.
PassTrue(r) ==
  /\ r.at = "out" => ~r.same
  /\ \A x \in Range(r.list) : x.n \notin settled => x \in Range(unmatched)
  /\ r.same =>
       /\ Ascending(r.keep) /\ Ascending(r.list)
       /\ \A x \in Range(r.keep), y \in Range(r.list) : x.n < y.n
       /\ \A x \in Range(r.keep) \union Range(r.list) : x \in Range(unmatched)
       /\ Open \subseteq Range(r.keep) \union Range(r.list)

StopsTrue ==
  /\ StopTypes /\ FillsFollow /\ ListInOrder
  /\ \A t \in Keepers : PassTrue(pass[t])
  /\ hits = Cardinality(hit)

\* A book that is halted, or booked a close twice, is left to its owner.
StopsInv == bookHalted \in BOOLEAN /\ twice \in BOOLEAN /\ (bookHalted \/ twice \/ StopsTrue)

----------------------------------------------------------------------------

\* What a fill may add.
LEMMA FillsAdd ==
    /\ \A r \in Fill : LotsMove[r] \in {1, -1} /\ HandsMove[r] \in {0, 1}
    /\ LotsMove \in [Fill -> Int] /\ HandsMove \in [Fill -> Int]
  BY DEF LotsMove, HandsMove

\* The first of the fills under way.
LEMMA FirstFill ==
    ASSUME NEW s \in Seq(Fill), s # <<>>, NEW f \in [Fill -> Int], NEW a \in Int, NEW b \in Int,
           Leads(s, f, a, b)
    PROVE  /\ Head(s) \in Fill
           /\ Leads(Tail(s), f, a + f[Head(s)], b)
           /\ a \in Nat /\ a + f[Head(s)] \in Nat
<1> DEFINE n == Len(s)
           t == Tail(s)
           m == Len(t)
<1>1. n \in Nat \ {0} /\ m = n - 1 /\ Head(s) = s[1] /\ s[1] \in Fill
      /\ \A i \in 1..m : t[i] = s[i + 1]
  OBVIOUS
<1>2. PICK h \in [0..n -> Nat] : /\ h[0] = a /\ h[n] = b
                                 /\ \A i \in 1..n : h[i] = h[i - 1] + f[s[i]]
  BY DEF Leads
<1> HIDE DEF n, t, m
<1>3. h[1] = a + f[s[1]]
  BY <1>1, <1>2
<1> DEFINE k == [i \in 0..m |-> h[i + 1]]
<1>4. k \in [0..m -> Nat] /\ k[0] = h[1] /\ k[m] = h[n]
  BY <1>1, <1>2
<1>5. ASSUME NEW i \in 1..m PROVE k[i] = k[i - 1] + f[t[i]]
  <2>1. i + 1 \in 1..n /\ i - 1 \in 0..m /\ (i - 1) + 1 = i /\ (i + 1) - 1 = i /\ i \in 0..m
    BY <1>1
  <2>2. h[i + 1] = h[i] + f[s[i + 1]]
    BY <1>2, <2>1
  <2> QED BY <1>1, <2>1, <2>2
<1> HIDE DEF k
<1>6. Leads(t, f, a + f[s[1]], b)
  BY <1>2, <1>3, <1>4, <1>5 DEF Leads, m
<1>7. h[0] \in Nat /\ h[1] \in Nat
  BY <1>1, <1>2
<1> QED BY <1>1, <1>2, <1>3, <1>6, <1>7 DEF t

\* n more fills of the kind r.
LEMMA MoreFills ==
    ASSUME NEW s \in Seq(Fill), NEW r \in Fill, NEW n \in Nat, NEW f \in [Fill -> Int],
           NEW a \in Int, NEW b \in Int, Leads(s, f, a, b),
           NEW e \in [0..n -> Nat], e[0] = b, \A i \in 1..n : e[i] = e[i - 1] + f[r]
    PROVE  Leads(s \o [k \in 1..n |-> r], f, a, e[n])
<1> DEFINE q == [k \in 1..n |-> r]
           t == s \o q
           l == Len(s)
<1>1. /\ l \in Nat /\ q \in Seq(Fill) /\ Len(q) = n /\ Len(t) = l + n
      /\ \A i \in 1..l : t[i] = s[i]
      /\ \A i \in l + 1..l + n : t[i] = r
  <2>1. q \in Seq(Fill) /\ Len(q) = n /\ l \in Nat
    OBVIOUS
  <2>2. Len(t) = l + n /\ (\A i \in 1..l : t[i] = s[i])
    BY <2>1
  <2>3. ASSUME NEW i \in l + 1..l + n PROVE t[i] = r
    <3>1. i - l \in 1..n
      BY <2>1
    <3>2. t[i] = q[i - l]
      BY <2>1, <3>1
    <3> QED BY <3>1, <3>2
  <2> QED BY <2>1, <2>2, <2>3
<1> HIDE DEF q, t
<1>2. PICK h \in [0..l -> Nat] : /\ h[0] = a /\ h[l] = b
                                 /\ \A i \in 1..l : h[i] = h[i - 1] + f[s[i]]
  BY DEF Leads
<1> HIDE DEF l
<1> DEFINE k == [i \in 0..l + n |-> IF i <= l THEN h[i] ELSE e[i - l]]
<1>3. \A i \in 0..l : k[i] = h[i]
  BY <1>1
<1>4. \A i \in 0..n : k[l + i] = e[i]
  <2> TAKE i \in 0..n
  <2>1. CASE i = 0
    BY <1>1, <1>2, <2>1
  <2>2. CASE i # 0
    <3>1. l + i \in 0..l + n /\ ~(l + i <= l) /\ (l + i) - l = i
      BY <1>1, <2>2
    <3> QED BY <3>1
  <2> QED BY <2>1, <2>2
<1>5. k \in [0..l + n -> Nat]
  <2> SUFFICES ASSUME NEW i \in 0..l + n PROVE (IF i <= l THEN h[i] ELSE e[i - l]) \in Nat
    OBVIOUS
  <2>1. i <= l => i \in 0..l
    BY <1>1
  <2>2. ~(i <= l) => i - l \in 0..n
    BY <1>1
  <2> QED BY <1>2, <2>1, <2>2
<1> HIDE DEF k
<1>6. ASSUME NEW i \in 1..l + n PROVE k[i] = k[i - 1] + f[t[i]]
  <2>1. CASE i <= l
    <3>1. i \in 1..l /\ i \in 0..l /\ i - 1 \in 0..l
      BY <1>1, <2>1
    <3> QED BY <1>1, <1>2, <1>3, <3>1
  <2>2. CASE ~(i <= l)
    <3>1. /\ i \in l + 1..l + n /\ i - l \in 1..n /\ i - l \in 0..n /\ (i - l) - 1 \in 0..n
          /\ l + (i - l) = i /\ l + ((i - l) - 1) = i - 1
      BY <1>1, <2>2
    <3>2. k[i] = e[i - l] /\ k[i - 1] = e[(i - l) - 1]
      BY <1>4, <3>1
    <3>3. e[i - l] = e[(i - l) - 1] + f[r] /\ t[i] = r
      BY <1>1, <3>1
    <3> QED BY <3>2, <3>3
  <2> QED BY <2>1, <2>2
<1>7. k[0] = a /\ k[l + n] = e[n]
  BY <1>1, <1>2, <1>3, <1>4
<1>8. Leads(t, f, a, e[n])
  BY <1>1, <1>5, <1>6, <1>7 DEF Leads
<1> QED BY <1>8 DEF t, q

\* How many of the fills are in a set.
HowMany(s, S) == Cardinality({i \in 1..Len(s) : s[i] \in S})

\* f counts what is in U up and what is in D down.
Tells(f, U, D) ==
  /\ U \intersect D = {}
  /\ \A r \in Fill : f[r] = (IF r \in U THEN 1 ELSE IF r \in D THEN -1 ELSE 0)

\* How far the fills lead, when each leads one up, one down or nowhere.
LEMMA LeadsBy ==
    ASSUME NEW s \in Seq(Fill), NEW f \in [Fill -> Int], NEW U, NEW D, Tells(f, U, D),
           NEW a \in Int, NEW b \in Int, Leads(s, f, a, b)
    PROVE  b = a + HowMany(s, U) - HowMany(s, D)
<1> DEFINE n == Len(s)
           of(S, k) == Cardinality({i \in 1..k : s[i] \in S})
<1>1. n \in Nat /\ \A i \in 1..n : s[i] \in Fill
  OBVIOUS
<1>2. PICK h \in [0..n -> Nat] : /\ h[0] = a /\ h[n] = b
                                 /\ \A i \in 1..n : h[i] = h[i - 1] + f[s[i]]
  BY DEF Leads
<1> HIDE DEF n
<1>3. ASSUME NEW S PROVE /\ of(S, 0) = 0
                         /\ \A k \in 0..n : of(S, k) \in Nat
                         /\ \A k \in 1..n : of(S, k) = of(S, k - 1) + (IF s[k] \in S THEN 1 ELSE 0)
  <2>1. {i \in 1..0 : s[i] \in S} = {}
    OBVIOUS
  <2>2. ASSUME NEW k \in 0..n PROVE IsFiniteSet({i \in 1..k : s[i] \in S}) /\ of(S, k) \in Nat
    <3>1. IsFiniteSet(1..k)
      BY <1>1, FS_Interval
    <3>2. IsFiniteSet({i \in 1..k : s[i] \in S})
      BY <3>1, FS_Subset
    <3> QED BY <3>2, FS_CardinalityType
  <2>3. ASSUME NEW k \in 1..n PROVE of(S, k) = of(S, k - 1) + (IF s[k] \in S THEN 1 ELSE 0)
    <3> DEFINE R == {i \in 1..(k - 1) : s[i] \in S}
               T == {i \in 1..k : s[i] \in S}
    <3>1. k - 1 \in 0..n /\ k \notin R /\ T = IF s[k] \in S THEN R \union {k} ELSE R
      BY <1>1
    <3>2. IsFiniteSet(R) /\ Cardinality(R) \in Nat
      BY <2>2, <3>1
    <3> HIDE DEF R, T
    <3>3. Cardinality(T) = Cardinality(R) + (IF s[k] \in S THEN 1 ELSE 0)
      <4>1. CASE s[k] \in S
        <5>1. T = R \union {k}
          BY <3>1, <4>1
        <5>2. Cardinality(R \union {k}) = Cardinality(R) + 1
          BY <3>1, <3>2, FS_AddElement
        <5> QED BY <4>1, <5>1, <5>2
      <4>2. CASE s[k] \notin S
        <5>1. T = R
          BY <3>1, <4>2
        <5> QED BY <3>2, <4>2, <5>1
      <4> QED BY <4>1, <4>2
    <3> QED BY <3>3 DEF R, T
  <2> QED BY <2>1, <2>2, <2>3, FS_EmptySet
<1> HIDE DEF of
<1> DEFINE Bad == {k \in 1..n : h[k] # a + of(U, k) - of(D, k)}
<1>4. Bad = {}
  <2> SUFFICES ASSUME Bad # {} PROVE FALSE
    OBVIOUS
  <2> DEFINE k == Min(Bad)
  <2>1. k \in Bad /\ \A j \in Bad : k <= j
    BY <1>1, LeastElement
  <2> HIDE DEF k
  <2>2. k \in 1..n /\ k - 1 \in 0..n /\ k - 1 \notin Bad
    BY <1>1, <2>1
  <2>3. h[k - 1] = a + of(U, k - 1) - of(D, k - 1)
    <3>1. CASE k = 1
      BY <1>2, <1>3, <3>1
    <3>2. CASE k # 1
      <4>1. k - 1 \in 1..n
        BY <1>1, <2>2, <3>2
      <4> QED BY <2>2, <4>1
    <3> QED BY <3>1, <3>2
  <2>4. s[k] \in Fill /\ h[k] = h[k - 1] + f[s[k]]
    BY <1>1, <1>2, <2>2
  <2>5. f[s[k]] = (IF s[k] \in U THEN 1 ELSE 0) - (IF s[k] \in D THEN 1 ELSE 0)
    BY <2>4 DEF Tells
  <2>6. /\ of(U, k) = of(U, k - 1) + (IF s[k] \in U THEN 1 ELSE 0)
        /\ of(D, k) = of(D, k - 1) + (IF s[k] \in D THEN 1 ELSE 0)
        /\ of(U, k - 1) \in Nat /\ of(D, k - 1) \in Nat
    BY <1>3, <2>2
  <2>7. h[k] = a + of(U, k) - of(D, k)
    <3> DEFINE u == IF s[k] \in U THEN 1 ELSE 0
               d == IF s[k] \in D THEN 1 ELSE 0
    <3>1. u \in Int /\ d \in Int
      OBVIOUS
    <3>2. /\ f[s[k]] = u - d /\ of(U, k) = of(U, k - 1) + u /\ of(D, k) = of(D, k - 1) + d
      BY <2>5, <2>6
    <3> HIDE DEF u, d
    <3>3. h[k] = a + of(U, k - 1) - of(D, k - 1) + (u - d)
      BY <2>3, <2>4, <3>2
    <3> QED BY <2>6, <3>1, <3>2, <3>3
  <2> QED BY <2>1, <2>7
<1>5. h[n] = a + of(U, n) - of(D, n)
  <2>1. CASE n = 0
    BY <1>2, <1>3, <2>1
  <2>2. CASE n # 0
    <3>1. n \in 1..n
      BY <1>1, <2>2
    <3> QED BY <1>4, <3>1
  <2> QED BY <2>1, <2>2
<1> QED BY <1>2, <1>5 DEF of, n, HowMany

\* All of a finite set, in some order.
LEMMA InSomeOrder == ASSUME NEW S, IsFiniteSet(S) PROVE SetToSeq(S) \in Seq(S)
<1>1. Cardinality(S) \in Nat /\ \E f \in [1..Cardinality(S) -> S] : IsInjective(f)
  BY FS_CardinalityType DEF ExistsBijection, Bijection, Injection
<1>2. SetToSeq(S) \in [1..Cardinality(S) -> S]
  BY <1>1 DEF SetToSeq
<1> QED BY <1>1, <1>2

\* Whatever becomes of the plans, the algo channel tells of plans.
LEMMA SaysNews ==
    ASSUME algo \in Seq(AlgoNews), NEW before, NEW after \in [Plans -> APlan], Says(before, after)
    PROVE  algo' \in Seq(AlgoNews)
<1> DEFINE R == {r \in Plans : before[r] # after[r]}
           f == [p \in R |-> [plan |-> p, ev |-> after[p].st]]
           S == {[plan |-> p, ev |-> after[p].st] : p \in R}
<1>1. IsFiniteSet(R)
  <2>1. IsFiniteSet(Plans)
    BY FS_Interval, StopsAssumption DEF Plans, StopsAssumption
  <2> QED BY <2>1, FS_Subset
<1>2. S \subseteq AlgoNews
  BY DEF AlgoNews, APlan
<1>3. f \in Surjection(R, S)
  BY DEF Surjection
<1>4. IsFiniteSet(S)
  <2> HIDE DEF R, f, S
  <2> QED BY <1>1, <1>3, FS_Surjection
<1>5. algo' = algo \o SetToSeq(S)
  BY DEF Says
<1> HIDE DEF S
<1>6. SetToSeq(S) \in Seq(AlgoNews)
  <2>1. SetToSeq(S) \in Seq(S)
    BY <1>4, InSomeOrder
  <2> QED BY <1>2, <2>1
<1> QED BY <1>5, <1>6

\* The exchange alone moves: the book and what it was told stay.
LEMMA BookStays ==
    ASSUME StopsTrue, UNCHANGED <<lots, unmatched, pass, Marks>>,
           position' \in Nat, fills' \in Seq(Fill), plans' \in [Plans -> APlan], algo' \in Seq(AlgoNews),
           count' \in [entries : Nat, hands : Nat, listed : Nat], count'.listed = count.listed,
           Leads(fills', LotsMove, lots - Cardinality(Open), position'),
           Leads(fills', HandsMove, Cardinality(ByHand), count'.hands)
    PROVE  StopsTrue'
<1>1. UNCHANGED <<named, hit, hits, settled>>
  BY DEF Marks
<1>2. Open' = Open /\ ByHand' = ByHand
  BY <1>1 DEF Open, ByHand
<1>3. StopTypes'
  BY <1>1 DEF StopsTrue, StopTypes
<1>4. FillsFollow'
  BY <1>2 DEF FillsFollow
<1>5. ListInOrder' /\ \A t \in Keepers : PassTrue(pass[t])'
  BY <1>1, <1>2 DEF StopsTrue, ListInOrder, PassTrue
<1>6. (hits = Cardinality(hit))'
  BY <1>1 DEF StopsTrue
<1> QED BY <1>3, <1>4, <1>5, <1>6 DEF StopsTrue

\* What the counts of a book are.
LEMMA BookNumbers ==
    ASSUME StopsTrue
    PROVE  /\ IsFiniteSet(Open) /\ IsFiniteSet(ByHand)
           /\ Cardinality(Open) \in Nat /\ Cardinality(ByHand) \in Nat
           /\ lots - Cardinality(Open) \in Int
<1>1. unmatched \in Seq(Close) /\ lots \in Nat
  BY DEF StopsTrue, StopTypes
<1> DEFINE n == Len(unmatched)
           f == [i \in 1..n |-> unmatched[i]]
<1>2. f \in Surjection(1..n, Range(unmatched)) /\ n \in Nat
  <2>1. DOMAIN unmatched = 1..n /\ n \in Nat
    BY <1>1
  <2> HIDE DEF n
  <2>2. f \in [1..n -> Range(unmatched)] /\ \A x \in Range(unmatched) : \E i \in 1..n : f[i] = x
    BY <2>1 DEF Range
  <2> HIDE DEF f
  <2> QED BY <2>1, <2>2 DEF Surjection
<1>3. IsFiniteSet(Range(unmatched))
  <2>1. IsFiniteSet(1..n)
    BY <1>2, FS_Interval
  <2> HIDE DEF n, f
  <2> QED BY <1>2, <2>1, FS_Surjection
<1>4. IsFiniteSet(Open) /\ IsFiniteSet(ByHand)
  BY <1>3, FS_Subset DEF Open, ByHand
<1>5. Cardinality(Open) \in Nat /\ Cardinality(ByHand) \in Nat
  BY <1>4, FS_CardinalityType
<1> QED BY <1>1, <1>4, <1>5

\* An entry, a trim, a close by hand and a stop that fires.
LEMMA VenueSteps ==
    ASSUME StopsTrue, \/ UnitBought \/ TrimFills \/ HandCloses \/ \E p \in Plans : Fires(p)
    PROVE  StopsTrue'
<1>0. /\ position \in Nat /\ fills \in Seq(Fill) /\ plans \in [Plans -> APlan]
      /\ algo \in Seq(AlgoNews) /\ count \in [entries : Nat, hands : Nat, listed : Nat]
      /\ count.hands \in Nat /\ count.entries \in Nat
  BY DEF StopsTrue, StopTypes
<1>1. ASSUME NEW n \in Nat, NEW r \in Fill, NEW ps \in [Plans -> APlan],
             UNCHANGED <<lots, unmatched, pass, Marks>>,
             fills' = fills \o [k \in 1..n |-> r], plans' = ps, Says(plans, plans'),
             count' \in [entries : Nat, hands : Nat, listed : Nat], count'.listed = count.listed,
             \/ position' = position - n /\ n <= position /\ LotsMove[r] = -1
             \/ position' = position + 1 /\ n = 1 /\ LotsMove[r] = 1,
             \/ count'.hands = count.hands /\ HandsMove[r] = 0
             \/ count'.hands = count.hands + 1 /\ n = 1 /\ HandsMove[r] = 1
      PROVE  StopsTrue'
  <2>1. algo' \in Seq(AlgoNews) /\ plans' \in [Plans -> APlan]
    BY <1>0, <1>1, SaysNews
  <2>2. fills' \in Seq(Fill)
    <3>1. [k \in 1..n |-> r] \in Seq(Fill)
      BY <1>1
    <3> QED BY <1>0, <1>1, <3>1
  <2>3. position' \in Nat
    BY <1>0, <1>1
  <2>4. Leads(fills, LotsMove, lots - Cardinality(Open), position)
        /\ Leads(fills, HandsMove, Cardinality(ByHand), count.hands)
    BY DEF StopsTrue, FillsFollow
  <2> DEFINE a == lots - Cardinality(Open)
             b == Cardinality(ByHand)
  <2>7. a \in Int /\ b \in Int /\ LotsMove \in [Fill -> Int] /\ HandsMove \in [Fill -> Int]
        /\ Leads(fills, LotsMove, a, position) /\ Leads(fills, HandsMove, b, count.hands)
    BY <2>4, BookNumbers, FillsAdd
  <2>8. position \in Int /\ count.hands \in Int
    BY <1>0
  <2> HIDE DEF a, b
  <2>5. Leads(fills', LotsMove, lots - Cardinality(Open), position')
    <3>1. CASE position' = position - n /\ n <= position /\ LotsMove[r] = -1
      <4> DEFINE d == [i \in 0..n |-> position - i]
      <4>1. d \in [0..n -> Nat] /\ d[0] = position /\ d[n] = position'
        BY <1>0, <3>1
      <4>2. \A i \in 1..n : d[i] = d[i - 1] + LotsMove[r]
        BY <1>0, <3>1
      <4> HIDE DEF d
      <4>3. Leads(fills \o [k \in 1..n |-> r], LotsMove, a, d[n])
        BY <1>0, <1>1, <2>7, <2>8, <4>1, <4>2, MoreFills, Zenon
      <4> QED BY <1>1, <4>1, <4>3 DEF a
    <3>2. CASE position' = position + 1 /\ n = 1 /\ LotsMove[r] = 1
      <4> DEFINE d == [i \in 0..n |-> position + i]
      <4>1. d \in [0..n -> Nat] /\ d[0] = position /\ d[n] = position'
        BY <1>0, <3>2
      <4>2. \A i \in 1..n : d[i] = d[i - 1] + LotsMove[r]
        BY <1>0, <3>2
      <4> HIDE DEF d
      <4>3. Leads(fills \o [k \in 1..n |-> r], LotsMove, a, d[n])
        BY <1>0, <1>1, <2>7, <2>8, <4>1, <4>2, MoreFills, Zenon
      <4> QED BY <1>1, <4>1, <4>3 DEF a
    <3> QED BY <1>1, <3>1, <3>2
  <2>6. Leads(fills', HandsMove, Cardinality(ByHand), count'.hands)
    <3>1. CASE count'.hands = count.hands /\ HandsMove[r] = 0
      <4> DEFINE d == [i \in 0..n |-> count.hands]
      <4>1. d \in [0..n -> Nat] /\ d[0] = count.hands /\ d[n] = count'.hands
        BY <1>0, <3>1
      <4>2. \A i \in 1..n : d[i] = d[i - 1] + HandsMove[r]
        BY <1>0, <3>1
      <4> HIDE DEF d
      <4>3. Leads(fills \o [k \in 1..n |-> r], HandsMove, b, d[n])
        BY <1>0, <1>1, <2>7, <2>8, <4>1, <4>2, MoreFills, Zenon
      <4> QED BY <1>1, <4>1, <4>3 DEF b
    <3>2. CASE count'.hands = count.hands + 1 /\ n = 1 /\ HandsMove[r] = 1
      <4> DEFINE d == [i \in 0..n |-> count.hands + i]
      <4>1. d \in [0..n -> Nat] /\ d[0] = count.hands /\ d[n] = count'.hands
        BY <1>0, <3>2
      <4>2. \A i \in 1..n : d[i] = d[i - 1] + HandsMove[r]
        BY <1>0, <3>2
      <4> HIDE DEF d
      <4>3. Leads(fills \o [k \in 1..n |-> r], HandsMove, b, d[n])
        BY <1>0, <1>1, <2>7, <2>8, <4>1, <4>2, MoreFills, Zenon
      <4> QED BY <1>1, <4>1, <4>3 DEF b
    <3> QED BY <1>1, <3>1, <3>2
  <2> QED BY <1>1, <2>1, <2>2, <2>3, <2>5, <2>6, BookStays
<1>2. CASE UnitBought
  <2> DEFINE r == [kind |-> "entry", plan |-> 0]
  <2>1. /\ count' = [count EXCEPT !.entries = @ + 1] /\ position' = position + 1
        /\ fills' = Append(fills, r)
        /\ \/ plans' = plans
           \/ \E p \in Plans : plans' = [plans EXCEPT ![p] = [kind |-> "preset", st |-> "live"]]
        /\ Says(plans, plans') /\ UNCHANGED <<lots, unmatched, pass, Marks>>
    BY <1>2 DEF UnitBought, BookOnly
  <2>2. r \in Fill /\ LotsMove[r] = 1 /\ HandsMove[r] = 0
    BY DEF Fill, LotsMove, HandsMove
  <2>3. fills' = fills \o [k \in 1..1 |-> r]
    BY <1>0, <2>1, <2>2
  <2>4. plans' \in [Plans -> APlan]
    <3>1. [kind |-> "preset", st |-> "live"] \in APlan
      BY DEF APlan
    <3> QED BY <1>0, <2>1, <3>1
  <2>5. count' \in [entries : Nat, hands : Nat, listed : Nat] /\ count'.listed = count.listed
        /\ count'.hands = count.hands
    BY <1>0, <2>1
  <2> HIDE DEF r
  <2> QED BY <1>1, <2>1, <2>2, <2>3, <2>4, <2>5
<1>3. ASSUME NEW n \in Nat, NEW r \in Fill, NEW ps \in [Plans -> APlan], r.kind # "entry",
             n <= position, Closes(n, r.kind, r.plan, ps),
             \/ count' = count /\ HandsMove[r] = 0
             \/ count' = [count EXCEPT !.hands = @ + 1] /\ n = 1 /\ HandsMove[r] = 1
      PROVE  StopsTrue'
  <2> DEFINE q == After(ps, position - n)
  <2>1. /\ position' = position - n /\ plans' = q /\ Says(plans, plans')
        /\ fills' = fills \o [k \in 1..n |-> [kind |-> r.kind, plan |-> r.plan]]
        /\ UNCHANGED <<lots, unmatched, pass, Marks>>
    BY <1>3 DEF Closes, BookOnly
  <2>2. [kind |-> r.kind, plan |-> r.plan] = r /\ LotsMove[r] = -1
    BY <1>3 DEF Fill, LotsMove
  <2>3. q \in [Plans -> APlan]
    BY <1>3 DEF After, APlan
  <2>4. count' \in [entries : Nat, hands : Nat, listed : Nat] /\ count'.listed = count.listed
        /\ (count'.hands = count.hands \/ count'.hands = count.hands + 1)
        /\ (count' = count => count'.hands = count.hands)
        /\ (count' # count => count'.hands = count.hands + 1)
    BY <1>0, <1>3
  <2>5. \/ count'.hands = count.hands /\ HandsMove[r] = 0
        \/ count'.hands = count.hands + 1 /\ n = 1 /\ HandsMove[r] = 1
    BY <1>0, <1>3
  <2> HIDE DEF q
  <2> QED BY <1>1, <1>3, <2>1, <2>2, <2>3, <2>4, <2>5
<1>4. CASE TrimFills
  <2> DEFINE r == [kind |-> "trim", plan |-> 0]
  <2>1. r \in Fill /\ HandsMove[r] = 0 /\ r.kind = "trim" /\ r.plan = 0
    BY DEF Fill, HandsMove
  <2>2. Closes(1, r.kind, r.plan, plans) /\ count' = count /\ 1 <= position
    BY <1>0, <1>4, <2>1 DEF TrimFills
  <2> HIDE DEF r
  <2> QED BY <1>0, <1>3, <2>1, <2>2
<1>5. CASE HandCloses
  <2> DEFINE r == [kind |-> "close", plan |-> Hand]
  <2>1. r \in Fill /\ HandsMove[r] = 1 /\ r.kind = "close" /\ r.plan = Hand
    BY DEF Fill, HandsMove, Hand
  <2>2. Closes(1, r.kind, r.plan, plans) /\ count' = [count EXCEPT !.hands = @ + 1] /\ 1 <= position
    BY <1>0, <1>5, <2>1 DEF HandCloses
  <2> HIDE DEF r
  <2> QED BY <1>0, <1>3, <2>1, <2>2
<1>6. ASSUME NEW p \in Plans, Fires(p) PROVE StopsTrue'
  <2> DEFINE r == [kind |-> "close", plan |-> p]
             n == IF plans[p].kind = "preset" THEN 1 ELSE position
             ps == [plans EXCEPT ![p].st = "fired"]
  <2>1. r \in Fill /\ HandsMove[r] = 0 /\ r.kind = "close" /\ r.plan = p
    BY DEF Fill, HandsMove, Hand, Plans
  <2>2. Closes(n, r.kind, r.plan, ps) /\ count' = count /\ 1 <= position
    BY <1>0, <1>6, <2>1 DEF Fires
  <2>3. n \in Nat /\ n <= position
    BY <1>0, <2>2
  <2>4. ps \in [Plans -> APlan]
    BY <1>0 DEF APlan
  <2> HIDE DEF r, n, ps
  <2> QED BY <1>3, <2>1, <2>2, <2>3, <2>4
<1> QED BY <1>2, <1>4, <1>5, <1>6

\* Setting a stop, and dropping one, move no position.
LEMMA StopSteps ==
    ASSUME StopsTrue, SetsStop \/ DropsPreset
    PROVE  StopsTrue'
<1>0. /\ position \in Nat /\ fills \in Seq(Fill) /\ plans \in [Plans -> APlan]
      /\ algo \in Seq(AlgoNews) /\ count \in [entries : Nat, hands : Nat, listed : Nat]
  BY DEF StopsTrue, StopTypes
<1>1. /\ UNCHANGED <<lots, unmatched, pass, Marks, count, position, fills>>
      /\ plans' \in [Plans -> APlan] /\ algo' \in Seq(AlgoNews)
  <2>1. CASE SetsStop
    <3>1. /\ UNCHANGED <<lots, unmatched, pass, Marks, count, position, fills>>
          /\ \/ plans' = plans /\ algo' = algo
             \/ /\ \E p \in Plans : plans' = [plans EXCEPT ![p] = [kind |-> "position", st |-> "live"]]
                /\ Says(plans, plans')
      BY <2>1 DEF SetsStop, Venue
    <3>2. [kind |-> "position", st |-> "live"] \in APlan
      BY DEF APlan
    <3>3. plans' \in [Plans -> APlan]
      BY <1>0, <3>1, <3>2
    <3> QED BY <1>0, <3>1, <3>3, SaysNews
  <2>2. CASE DropsPreset
    <3>1. /\ UNCHANGED <<lots, unmatched, pass, Marks, count, position, fills>>
          /\ plans' = [plans EXCEPT ![preset].st = "gone"] /\ Says(plans, plans')
      BY <2>2 DEF DropsPreset
    <3>2. plans' \in [Plans -> APlan]
      BY <1>0, <3>1 DEF APlan
    <3> QED BY <1>0, <3>1, <3>2, SaysNews
  <2> QED BY <2>1, <2>2
<1>2. Leads(fills, LotsMove, lots - Cardinality(Open), position)
      /\ Leads(fills, HandsMove, Cardinality(ByHand), count.hands)
  BY DEF StopsTrue, FillsFollow
<1> QED BY <1>0, <1>1, <1>2, BookStays

----------------------------------------------------------------------------

\* Lists of closes, in the order they came.
LEMMA JoinLists ==
    ASSUME NEW s \in Seq(Close), NEW t \in Seq(Close), Ascending(s), Ascending(t),
           \A x \in Range(s), y \in Range(t) : x.n < y.n
    PROVE  /\ s \o t \in Seq(Close) /\ Ascending(s \o t)
           /\ Range(s \o t) = Range(s) \union Range(t)
<1> DEFINE u == s \o t
           n == Len(s)
           m == Len(t)
<1>1. /\ u \in Seq(Close) /\ n \in Nat /\ m \in Nat /\ DOMAIN u = 1..n + m
      /\ DOMAIN s = 1..n /\ DOMAIN t = 1..m
      /\ \A i \in 1..n : u[i] = s[i]
      /\ \A i \in n + 1..n + m : u[i] = t[i - n]
  OBVIOUS
<1> HIDE DEF u, n, m
<1>2. \A j \in 1..m : n + j \in n + 1..n + m /\ u[n + j] = t[j]
  <2> TAKE j \in 1..m
  <2>1. n + j \in n + 1..n + m /\ (n + j) - n = j
    BY <1>1
  <2> QED BY <1>1, <2>1
<1>3. Range(u) = Range(s) \union Range(t)
  <2>1. ASSUME NEW x \in Range(u) PROVE x \in Range(s) \union Range(t)
    <3>1. PICK i \in 1..n + m : x = u[i]
      BY <1>1, <2>1 DEF Range
    <3>2. i \in 1..n \/ (i \in n + 1..n + m /\ i - n \in 1..m)
      BY <1>1
    <3> QED BY <1>1, <3>1, <3>2 DEF Range
  <2>2. ASSUME NEW x \in Range(s) \union Range(t) PROVE x \in Range(u)
    <3>1. CASE x \in Range(s)
      <4>1. PICK i \in 1..n : x = s[i]
        BY <1>1, <3>1 DEF Range
      <4>2. i \in 1..n + m /\ x = u[i]
        BY <1>1, <4>1
      <4> QED BY <1>1, <4>2 DEF Range
    <3>2. CASE x \in Range(t)
      <4>1. PICK j \in 1..m : x = t[j]
        BY <1>1, <3>2 DEF Range
      <4>2. n + j \in 1..n + m /\ x = u[n + j]
        BY <1>1, <1>2, <4>1
      <4> QED BY <1>1, <4>2 DEF Range
    <3> QED BY <2>2, <3>1, <3>2
  <2> QED BY <2>1, <2>2
<1>4. Ascending(u)
  <2> SUFFICES ASSUME NEW i \in 1..n + m, NEW j \in 1..n + m, i < j PROVE u[i].n < u[j].n
    BY <1>1 DEF Ascending
  <2>1. CASE j <= n
    <3>1. i \in 1..n /\ j \in 1..n
      BY <1>1, <2>1
    <3> QED BY <1>1, <3>1 DEF Ascending
  <2>2. CASE i > n
    <3>1. i - n \in 1..m /\ j - n \in 1..m /\ i - n < j - n
          /\ i \in n + 1..n + m /\ j \in n + 1..n + m
      BY <1>1, <2>2
    <3> QED BY <1>1, <3>1 DEF Ascending
  <2>3. CASE i <= n /\ j > n
    <3>1. i \in 1..n /\ j - n \in 1..m /\ j \in n + 1..n + m
      BY <1>1, <2>3
    <3>2. u[i] \in Range(s) /\ u[j] \in Range(t)
      BY <1>1, <3>1 DEF Range
    <3> QED BY <3>2
  <2> QED BY <1>1, <2>1, <2>2, <2>3
<1> QED BY <1>1, <1>3, <1>4 DEF u

\* One element taken out of a list.
LEMMA SplitList ==
    ASSUME NEW s \in Seq(Close), NEW k \in 1..Len(s)
    PROVE  LET before == SubSeq(s, 1, k - 1)
               after == SubSeq(s, k + 1, Len(s))
           IN /\ before \in Seq(Close) /\ after \in Seq(Close) /\ s[k] \in Range(s)
              /\ Range(s) = Range(before) \union {s[k]} \union Range(after)
              /\ Ascending(s) => /\ Ascending(before) /\ Ascending(after)
                                 /\ \A x \in Range(before), y \in Range(after) : x.n < y.n
<1> DEFINE b == SubSeq(s, 1, k - 1)
           a == SubSeq(s, k + 1, Len(s))
           n == Len(s)
<1>1. n \in Nat /\ DOMAIN s = 1..n /\ k \in 1..n
  OBVIOUS
<1>2. b \in Seq(Close) /\ DOMAIN b = 1..k - 1 /\ \A i \in 1..k - 1 : b[i] = s[i]
  OBVIOUS
<1>3. a \in Seq(Close) /\ DOMAIN a = 1..n - k /\ \A i \in 1..n - k : a[i] = s[k + i]
  OBVIOUS
<1> HIDE DEF b, a, n
<1>4. Range(s) = Range(b) \union {s[k]} \union Range(a)
  <2>1. ASSUME NEW x \in Range(s) PROVE x \in Range(b) \union {s[k]} \union Range(a)
    <3>1. PICK i \in 1..n : x = s[i]
      BY <1>1, <2>1 DEF Range
    <3>2. \/ i \in 1..k - 1 \/ i = k \/ (i - k \in 1..n - k /\ k + (i - k) = i)
      BY <1>1
    <3> QED BY <1>2, <1>3, <3>1, <3>2 DEF Range
  <2>2. ASSUME NEW x \in Range(b) PROVE x \in Range(s)
    <3>1. PICK i \in 1..k - 1 : x = b[i]
      BY <1>2, <2>2 DEF Range
    <3>2. i \in 1..n /\ x = s[i]
      BY <1>1, <1>2, <3>1
    <3> QED BY <1>1, <3>2 DEF Range
  <2>3. ASSUME NEW x \in Range(a) PROVE x \in Range(s)
    <3>1. PICK i \in 1..n - k : x = a[i]
      BY <1>3, <2>3 DEF Range
    <3>2. k + i \in 1..n /\ x = s[k + i]
      BY <1>1, <1>3, <3>1
    <3> QED BY <1>1, <3>2 DEF Range
  <2>4. s[k] \in Range(s)
    BY <1>1 DEF Range
  <2> QED BY <2>1, <2>2, <2>3, <2>4
<1>5. ASSUME Ascending(s)
      PROVE  /\ Ascending(b) /\ Ascending(a)
             /\ \A x \in Range(b), y \in Range(a) : x.n < y.n
  <2>1. \A i, j \in 1..n : i < j => s[i].n < s[j].n
    BY <1>1, <1>5 DEF Ascending
  <2>2. Ascending(b)
    <3> SUFFICES ASSUME NEW i \in 1..k - 1, NEW j \in 1..k - 1, i < j PROVE b[i].n < b[j].n
      BY <1>2 DEF Ascending
    <3>1. i \in 1..n /\ j \in 1..n
      BY <1>1
    <3> QED BY <1>2, <2>1, <3>1
  <2>3. Ascending(a)
    <3> SUFFICES ASSUME NEW i \in 1..n - k, NEW j \in 1..n - k, i < j PROVE a[i].n < a[j].n
      BY <1>3 DEF Ascending
    <3>1. k + i \in 1..n /\ k + j \in 1..n /\ k + i < k + j
      BY <1>1
    <3> QED BY <1>3, <2>1, <3>1
  <2>4. ASSUME NEW x \in Range(b), NEW y \in Range(a) PROVE x.n < y.n
    <3>1. PICK i \in 1..k - 1 : x = b[i]
      BY <1>2 DEF Range
    <3>2. PICK j \in 1..n - k : y = a[j]
      BY <1>3 DEF Range
    <3>3. i \in 1..n /\ k + j \in 1..n /\ i < k + j
      BY <1>1
    <3> QED BY <1>2, <1>3, <2>1, <3>1, <3>2, <3>3
  <2> QED BY <2>2, <2>3, <2>4
<1>6. s[k] \in Range(s)
  BY <1>1 DEF Range
<1> QED BY <1>2, <1>3, <1>4, <1>5, <1>6 DEF b, a, n

\* One more close at the end of a list.
LEMMA LongerList ==
    ASSUME NEW s \in Seq(Close), NEW x \in Close
    PROVE  /\ Append(s, x) \in Seq(Close) /\ Range(Append(s, x)) = Range(s) \union {x}
           /\ Ascending(s) /\ (\A y \in Range(s) : y.n < x.n) => Ascending(Append(s, x))
<1> DEFINE t == <<x>>
<1>1. t \in Seq(Close) /\ Append(s, x) = s \o t /\ DOMAIN t = {1} /\ t[1] = x
  OBVIOUS
<1>2. Ascending(t) /\ Range(t) = {x}
  BY <1>1 DEF Ascending, Range
<1> HIDE DEF t
<1>3. Append(s, x) \in Seq(Close) /\ Range(Append(s, x)) = Range(s) \union {x}
  <2> DEFINE n == Len(s)
             u == Append(s, x)
  <2>1. u \in Seq(Close) /\ n \in Nat /\ DOMAIN u = 1..n + 1 /\ DOMAIN s = 1..n /\ u[n + 1] = x
        /\ \A i \in 1..n : u[i] = s[i]
    OBVIOUS
  <2> HIDE DEF n, u
  <2>2. 1..n + 1 = (1..n) \union {n + 1}
    BY <2>1
  <2>3. Range(u) = Range(s) \union {x}
    BY <2>1, <2>2 DEF Range
  <2> QED BY <2>1, <2>3 DEF u
<1>4. ASSUME Ascending(s), \A y \in Range(s) : y.n < x.n PROVE Ascending(Append(s, x))
  BY <1>1, <1>2, <1>4, JoinLists
<1> QED BY <1>3, <1>4

\* Who is first in a list of which one is wanted.
LEMMA FirstOf ==
    ASSUME NEW n \in Nat, NEW S \in SUBSET (1..n), S # {}
    PROVE  (CHOOSE i \in S : \A j \in S : i <= j) \in S
<1>1. Min(S) \in S /\ \A j \in S : Min(S) <= j
  BY LeastElement
<1> QED BY <1>1

----------------------------------------------------------------------------

\* A task that has no pass under way relies on nothing.
LEMMA NoPassTrue == NoPass \in APass /\ PassTrue(NoPass)
<1>1. Range(<<>>) = {} /\ <<>> \in Seq(Close)
  BY DEF Range
<1> QED BY <1>1 DEF NoPass, APass, PassTrue

\* Sums of what is booked and listed.
LEMMA Shifts ==
    /\ \A l, o \in Int : (l + 1) - o = (l - o) + 1 /\ (l - 1) - o = (l - o) + (-1)
    /\ \A l, o \in Int : l - (o + 1) = (l - o) + (-1) /\ (l - 1) - (o - 1) = l - o
  OBVIOUS

\* The first fill under way takes the book one step on.
LEMMA NextFill ==
    ASSUME StopsTrue, fills # <<>>
    PROVE  LET r == Head(fills)
               a == lots - Cardinality(Open)
               b == Cardinality(ByHand)
           IN /\ r \in Fill /\ Tail(fills) \in Seq(Fill) /\ a \in Nat /\ b \in Nat
              /\ a + LotsMove[r] \in Nat /\ Leads(Tail(fills), LotsMove, a + LotsMove[r], position)
              /\ Leads(Tail(fills), HandsMove, b + HandsMove[r], count.hands)
<1> SUFFICES ASSUME NEW a, a = lots - Cardinality(Open), NEW b, b = Cardinality(ByHand)
             PROVE  /\ Head(fills) \in Fill /\ Tail(fills) \in Seq(Fill) /\ a \in Nat /\ b \in Nat
                    /\ a + LotsMove[Head(fills)] \in Nat
                    /\ Leads(Tail(fills), LotsMove, a + LotsMove[Head(fills)], position)
                    /\ Leads(Tail(fills), HandsMove, b + HandsMove[Head(fills)], count.hands)
  OBVIOUS
<1>1. fills \in Seq(Fill) /\ position \in Int /\ count.hands \in Int /\ Tail(fills) \in Seq(Fill)
  BY DEF StopsTrue, StopTypes
<1>2. a \in Int /\ b \in Nat /\ b \in Int
  <2>1. Cardinality(ByHand) \in Nat /\ lots - Cardinality(Open) \in Int
    BY BookNumbers
  <2>2. \A n \in Nat : n \in Int
    OBVIOUS
  <2> QED BY <2>1, <2>2, Zenon
<1>3. Leads(fills, LotsMove, a, position) /\ Leads(fills, HandsMove, b, count.hands)
  BY DEF StopsTrue, FillsFollow
<1>4. /\ Head(fills) \in Fill /\ Leads(Tail(fills), LotsMove, a + LotsMove[Head(fills)], position)
      /\ a \in Nat /\ a + LotsMove[Head(fills)] \in Nat
  BY <1>1, <1>2, <1>3, FillsAdd, FirstFill, Zenon
<1>5. Leads(Tail(fills), HandsMove, b + HandsMove[Head(fills)], count.hands)
  BY <1>1, <1>2, <1>3, FillsAdd, FirstFill, Zenon
<1> QED BY <1>1, <1>2, <1>4, <1>5

\* A fill that is booked at once: an entry, a trim, a stop whose plan is known.
LEMMA BookedFill ==
    ASSUME StopsTrue, fills # <<>>, fills' = Tail(fills),
           UNCHANGED <<unmatched, pass, count, named, settled, position, plans, algo>>,
           \/ lots' = lots + 1 /\ LotsMove[Head(fills)] = 1
           \/ lots' = lots - 1 /\ LotsMove[Head(fills)] = -1,
           HandsMove[Head(fills)] = 0,
           IsFiniteSet(hit'), hits' = Cardinality(hit')
    PROVE  StopsTrue'
<1> DEFINE r == Head(fills)
<1>1. PICK a, o, b :
        /\ o = Cardinality(Open) /\ b = Cardinality(ByHand) /\ a = lots - o
        /\ o \in Nat /\ a \in Nat /\ b \in Nat
        /\ a + LotsMove[r] \in Nat /\ Leads(Tail(fills), LotsMove, a + LotsMove[r], position)
        /\ Leads(Tail(fills), HandsMove, b + HandsMove[r], count.hands) /\ Tail(fills) \in Seq(Fill)
  BY NextFill, BookNumbers
<1>2. lots \in Nat
  BY DEF StopsTrue, StopTypes
<1> HIDE DEF r
<1>3. Open' = Open /\ ByHand' = ByHand
  BY DEF Open, ByHand
<1>4. lots' - o = a + LotsMove[r] /\ lots' \in Nat
  <2>1. CASE lots' = lots + 1 /\ LotsMove[r] = 1
    <3>1. lots + 1 \in Nat /\ (lots + 1) - o = a + 1
      BY <1>1, <1>2
    <3> QED BY <2>1, <3>1, Zenon
  <2>2. CASE lots' = lots - 1 /\ LotsMove[r] = -1
    <3>1. a + (-1) \in Nat
      BY <1>1, <2>2, Zenon
    <3>2. lots - 1 \in Nat /\ (lots - 1) - o = a + (-1)
      BY <1>1, <1>2, <3>1
    <3> QED BY <2>2, <3>2, Zenon
  <2> QED BY <2>1, <2>2 DEF r
<1>5. b + HandsMove[r] = b
  <2>1. HandsMove[r] = 0
    BY DEF r
  <2>2. b + 0 = b
    BY <1>1
  <2> QED BY <2>1, <2>2, Zenon
<1>6. FillsFollow'
  <2>1. Leads(fills', LotsMove, lots' - o, position')
    BY <1>1, <1>4, Zenon
  <2>2. Leads(fills', HandsMove, b, count'.hands)
    BY <1>1, <1>5, Zenon
  <2>3. Cardinality(Open)' = o /\ Cardinality(ByHand)' = b
    BY <1>1, <1>3
  <2> QED BY <2>1, <2>2, <2>3 DEF FillsFollow
<1>7. StopTypes'
  <2> QED BY <1>1, <1>4 DEF StopsTrue, StopTypes
<1>8. ListInOrder' /\ \A t \in Keepers : PassTrue(pass[t])'
  BY <1>3 DEF StopsTrue, ListInOrder, PassTrue
<1>9. (hits = Cardinality(hit))'
  OBVIOUS
<1> QED BY <1>6, <1>7, <1>8, <1>9 DEF StopsTrue

\* A close of an order the book does not know is listed, for every pass under way too.
LEMMA ListedFill ==
    ASSUME StopsTrue, fills # <<>>, fills' = Tail(fills), Head(fills).kind = "close",
           Lists(Head(fills).plan),
           UNCHANGED <<lots, hit, hits, named, settled, position, plans, algo>>
    PROVE  StopsTrue'
<1> DEFINE r == Head(fills)
           x == [plan |-> r.plan, n |-> count.listed]
<1>0. PICK a, o, b :
        /\ o = Cardinality(Open) /\ b = Cardinality(ByHand) /\ a = lots - o
        /\ o \in Nat /\ a \in Nat /\ b \in Nat /\ IsFiniteSet(Open) /\ IsFiniteSet(ByHand)
        /\ Leads(Tail(fills), LotsMove, a + LotsMove[r], position) /\ r \in Fill
        /\ Leads(Tail(fills), HandsMove, b + HandsMove[r], count.hands) /\ Tail(fills) \in Seq(Fill)
  BY NextFill, BookNumbers
<1>1. /\ lots \in Nat /\ unmatched \in Seq(Close) /\ pass \in [Keepers -> APass]
      /\ count \in [entries : Nat, hands : Nat, listed : Nat]
  BY DEF StopsTrue, StopTypes
<1>2. count.listed \in Nat
  BY <1>1
<1>3. /\ unmatched' = Append(unmatched, x) /\ count' = [count EXCEPT !.listed = @ + 1]
      /\ pass' = [t \in Keepers |-> IF pass[t].same THEN [pass[t] EXCEPT !.list = Append(@, x)]
                                    ELSE pass[t]]
  BY DEF Lists
<1>4. x \in Close /\ x.n = count.listed /\ x.plan = r.plan
      /\ LotsMove[r] = -1 /\ HandsMove[r] = IF r.plan = Hand THEN 1 ELSE 0
  BY <1>0, <1>2 DEF Close, Fill, LotsMove, HandsMove
<1>5. /\ Ascending(unmatched) /\ \A n \in settled : n < count.listed
      /\ \A y \in Range(unmatched) : y.n < count.listed /\ (y.plan = Hand => y.n \notin settled)
      /\ \A n \in settled : n # count.listed
      /\ \A y \in Range(unmatched) : y # x
  <2>1. /\ Ascending(unmatched) /\ \A n \in settled : n < count.listed
        /\ \A y \in Range(unmatched) : y.n < count.listed /\ (y.plan = Hand => y.n \notin settled)
    BY DEF StopsTrue, ListInOrder
  <2>2. ~(count.listed < count.listed)
    BY <1>2
  <2> QED BY <1>4, <2>1, <2>2
<1> HIDE DEF x
<1>6. /\ unmatched' \in Seq(Close) /\ Range(unmatched') = Range(unmatched) \union {x}
      /\ Ascending(unmatched')
  BY <1>1, <1>3, <1>4, <1>5, LongerList
<1>7. count' \in [entries : Nat, hands : Nat, listed : Nat] /\ count'.listed = count.listed + 1
      /\ count'.hands = count.hands
  <2>1. count.listed + 1 \in Nat
    BY <1>2
  <2> DEFINE c == count.listed + 1
  <2>2. count' = [count EXCEPT !.listed = c] /\ c \in Nat
    BY <1>3, <2>1
  <2> HIDE DEF c
  <2>3. count' \in [entries : Nat, hands : Nat, listed : Nat] /\ count'.listed = c /\ count'.hands = count.hands
    BY <1>1, <2>2
  <2> QED BY <2>3 DEF c
<1>8. Open' = Open \union {x} /\ x \notin Open /\ ByHand' = (IF r.plan = Hand THEN ByHand \union {x} ELSE ByHand)
      /\ x \notin ByHand
  <2>1. x.n \notin settled
    BY <1>4, <1>5
  <2> QED BY <1>4, <1>5, <1>6, <2>1 DEF Open, ByHand
<1>9. Cardinality(Open') = o + 1 /\ Cardinality(ByHand') = b + HandsMove[r]
  <2>1. Cardinality(Open \union {x}) = o + 1
    BY <1>0, <1>8, FS_AddElement
  <2>2. Cardinality(ByHand \union {x}) = b + 1
    BY <1>0, <1>8, FS_AddElement
  <2>3. b + 0 = b
    BY <1>0
  <2> HIDE DEF r
  <2> QED BY <1>0, <1>4, <1>8, <2>1, <2>2, <2>3, Zenon
<1>10. FillsFollow'
  <2>1. lots - (o + 1) = a + LotsMove[r]
    <3>1. lots - (o + 1) = a + (-1)
      BY <1>0, <1>1
    <3> QED BY <1>4, <3>1, Zenon
  <2>2. Leads(fills', LotsMove, lots' - Cardinality(Open'), position')
    <3>1. Leads(Tail(fills), LotsMove, lots - (o + 1), position)
      BY <1>0, <2>1, Zenon
    <3> QED BY <1>9, <3>1, Zenon
  <2>3. Leads(fills', HandsMove, Cardinality(ByHand'), count'.hands)
    BY <1>0, <1>7, <1>9, Zenon
  <2> QED BY <2>2, <2>3 DEF FillsFollow
<1>11. ASSUME NEW t \in Keepers
       PROVE  pass'[t] \in APass /\ PassTrue(pass[t])'
  <2> DEFINE q == pass[t]
  <2>0. q \in APass /\ PassTrue(q) /\ q.list \in Seq(Close) /\ q.keep \in Seq(Close)
    BY <1>1 DEF StopsTrue, APass
  <2>1. CASE ~q.same
    <3>1. pass'[t] = q
      BY <1>3, <2>1
    <3>2. Range(unmatched) \subseteq Range(unmatched')
      BY <1>6
    <3> QED BY <2>0, <2>1, <3>1, <3>2 DEF PassTrue
  <2>2. CASE q.same
    <3>1. pass'[t] = [q EXCEPT !.list = Append(@, x)]
      BY <1>3, <2>2
    <3>2. /\ Ascending(q.keep) /\ Ascending(q.list) /\ q.at # "out"
          /\ \A y \in Range(q.keep), z \in Range(q.list) : y.n < z.n
          /\ \A y \in Range(q.keep) \union Range(q.list) : y \in Range(unmatched)
          /\ Open \subseteq Range(q.keep) \union Range(q.list)
      BY <2>0, <2>2 DEF PassTrue
    <3>3. \A y \in Range(q.keep) \union Range(q.list) : y.n < x.n
      BY <1>4, <1>5, <3>2
    <3>4. /\ Append(q.list, x) \in Seq(Close) /\ Range(Append(q.list, x)) = Range(q.list) \union {x}
          /\ Ascending(Append(q.list, x))
      BY <1>4, <2>0, <3>2, <3>3, LongerList
    <3> HIDE DEF q
    <3>5. /\ pass'[t].list = Append(q.list, x) /\ pass'[t].keep = q.keep /\ pass'[t].at = q.at
          /\ pass'[t].same = q.same /\ pass'[t] \in APass
      BY <2>0, <3>1, <3>4 DEF APass
    <3> QED BY <1>6, <1>8, <3>2, <3>3, <3>4, <3>5 DEF PassTrue
  <2> QED BY <2>1, <2>2
<1>12. StopTypes'
  <2>1. Tail(fills) \in Seq(Fill)
    BY <1>0
  <2>2. pass' \in [Keepers -> APass]
    BY <1>3, <1>11
  <2> QED BY <1>6, <1>7, <2>1, <2>2 DEF StopsTrue, StopTypes
<1>13. ListInOrder'
  <2>1. \A n \in Int : n < count.listed => n < count.listed + 1
    BY <1>2
  <2>2. count.listed < count.listed + 1
    BY <1>2
  <2>3. /\ \A n \in settled : n < count'.listed
        /\ \A y \in Range(unmatched') : y.n < count'.listed
    <3>1. \A y \in Range(unmatched) : y.n \in Int
      <4>1. \A i \in DOMAIN unmatched : unmatched[i] \in Close
        BY <1>1
      <4>2. \A y \in Close : y.n \in Int
        BY DEF Close
      <4> QED BY <4>1, <4>2 DEF Range
    <3>2. \A n \in settled : n \in Int
      BY DEF StopsTrue, StopTypes
    <3> QED BY <1>4, <1>5, <1>6, <1>7, <2>1, <2>2, <3>1, <3>2
  <2>4. \A y \in Range(unmatched') : y.plan = Hand => y.n \notin settled
    BY <1>4, <1>5, <1>6
  <2> QED BY <1>6, <2>3, <2>4 DEF ListInOrder
<1>14. (hits = Cardinality(hit))'
  BY DEF StopsTrue
<1> QED BY <1>10, <1>11, <1>12, <1>13, <1>14 DEF StopsTrue

\* A fill the consumer takes.
LEMMA FillStep ==
    ASSUME StopsTrue, StopFillPushed, ~bookHalted'
    PROVE  StopsTrue'
<1> DEFINE r == Head(fills)
<1>1. /\ fills # <<>> /\ fills' = Tail(fills)
      /\ UNCHANGED <<preset, named, settled, twice, position, plans, algo>>
  BY DEF StopFillPushed
<1>2. PICK a, o :
        /\ r \in Fill /\ o \in Nat /\ a = lots - o /\ a + LotsMove[r] \in Nat
  BY <1>1, NextFill, BookNumbers
<1>3. lots \in Nat /\ IsFiniteSet(hit) /\ hits = Cardinality(hit) /\ hits \in Nat
  BY FS_CardinalityType DEF StopsTrue, StopTypes
<1>4. /\ r.kind \in {"entry", "trim", "close"}
      /\ LotsMove[r] = (IF r.kind = "entry" THEN 1 ELSE -1)
      /\ HandsMove[r] = (IF r.kind = "close" /\ r.plan = Hand THEN 1 ELSE 0)
  BY <1>2 DEF Fill, LotsMove, HandsMove
<1> HIDE DEF r
<1>5. CASE r.kind = "entry"
  <2>1. lots' = lots + 1 /\ UNCHANGED <<hits, hit, unmatched, pass, count>>
    BY <1>5 DEF StopFillPushed, r
  <2>2. LotsMove[r] = 1 /\ HandsMove[r] = 0
    BY <1>4, <1>5
  <2> QED BY <1>1, <1>3, <2>1, <2>2, BookedFill DEF r
<1>6. CASE r.kind = "trim"
  <2>1. lots' = (IF lots > 0 THEN lots - 1 ELSE 0) /\ UNCHANGED <<hits, hit, unmatched, pass, count>>
    BY <1>6 DEF StopFillPushed, r
  <2>2. LotsMove[r] = -1 /\ HandsMove[r] = 0
    BY <1>4, <1>6
  <2>3. lots > 0
    <3>1. a + (-1) \in Nat
      BY <1>2, <2>2, Zenon
    <3> QED BY <1>2, <1>3, <3>1
  <2> QED BY <1>1, <1>3, <2>1, <2>2, <2>3, BookedFill DEF r
<1>7. CASE r.kind = "close" /\ lots > 0 /\ r.plan # Hand /\ Known(r.plan)
  <2>1. Hits(r.plan) /\ UNCHANGED <<unmatched, pass, count>>
    BY <1>3, <1>7 DEF StopFillPushed, r
  <2>2. LotsMove[r] = -1 /\ HandsMove[r] = 0
    BY <1>4, <1>7
  <2>3. lots' = lots - 1 /\ IsFiniteSet(hit') /\ hits' = Cardinality(hit')
    <3>1. /\ lots' = lots - 1 /\ hit' = hit \union {r.plan}
          /\ hits' = (IF r.plan \in hit THEN hits ELSE hits + 1)
      BY <2>1 DEF Hits
    <3>2. IsFiniteSet(hit \union {r.plan})
          /\ Cardinality(hit \union {r.plan}) = IF r.plan \in hit THEN Cardinality(hit) ELSE Cardinality(hit) + 1
      BY <1>3, FS_AddElement
    <3> QED BY <1>3, <3>1, <3>2
  <2> QED BY <1>1, <2>1, <2>2, <2>3, BookedFill DEF r
<1>8. CASE r.kind = "close" /\ lots > 0 /\ ~(r.plan # Hand /\ Known(r.plan))
  <2>1. Lists(r.plan) /\ UNCHANGED <<lots, hit, hits>>
    BY <1>3, <1>8 DEF StopFillPushed, r
  <2> QED BY <1>1, <1>8, <2>1, ListedFill DEF r
<1>9. CASE r.kind = "close" /\ ~(lots > 0)
  <2>1. lots = 0
    BY <1>3, <1>9
  <2>2. bookHalted' = TRUE
    BY <1>9, <2>1 DEF StopFillPushed, r
  <2> QED BY <2>2
<1> QED BY <1>4, <1>5, <1>6, <1>7, <1>8, <1>9

----------------------------------------------------------------------------
(* The passes over the list.                                               *)

\* A close is known by its number.
LEMMA OneNumber ==
    ASSUME StopsTrue, NEW x \in Range(unmatched), NEW y \in Range(unmatched), x.n = y.n
    PROVE  x = y
<1>1. unmatched \in Seq(Close) /\ Ascending(unmatched)
  BY DEF StopsTrue, StopTypes, ListInOrder
<1>2. DOMAIN unmatched = 1..Len(unmatched) /\ Len(unmatched) \in Nat
  BY <1>1
<1>3. PICK i \in 1..Len(unmatched) : x = unmatched[i]
  BY <1>2 DEF Range
<1>4. PICK j \in 1..Len(unmatched) : y = unmatched[j]
  BY <1>2 DEF Range
<1>5. x.n \in Int
  <2>1. unmatched[i] \in Close
    BY <1>1, <1>2
  <2> QED BY <1>3, <2>1 DEF Close
<1>6. ~(x.n < x.n)
  BY <1>5
<1>7. ~(i < j) /\ ~(j < i)
  BY <1>1, <1>2, <1>3, <1>4, <1>6 DEF Ascending
<1>8. i = j
  BY <1>2, <1>7
<1> QED BY <1>3, <1>4, <1>8

\* A pass that found nothing more puts back what it kept, which is all that is open.
LEMMA PassEnds ==
    ASSUME StopsTrue, NEW t \in Keepers, pass[t].same,
           unmatched' = pass[t].keep \o pass[t].list,
           pass' = [u \in Keepers |-> IF u = t THEN NoPass ELSE [pass[u] EXCEPT !.same = FALSE]],
           UNCHANGED <<lots, hit, hits, settled, named, Venue, count>>
    PROVE  StopsTrue'
<1> DEFINE r == pass[t]
<1>1. /\ unmatched \in Seq(Close) /\ pass \in [Keepers -> APass] /\ r \in APass /\ PassTrue(r)
      /\ r.keep \in Seq(Close) /\ r.list \in Seq(Close)
      /\ UNCHANGED <<position, plans, fills, algo>>
  BY DEF StopsTrue, StopTypes, APass, Venue
<1> HIDE DEF r
<1>2. /\ Ascending(r.keep) /\ Ascending(r.list)
      /\ \A x \in Range(r.keep), y \in Range(r.list) : x.n < y.n
      /\ \A x \in Range(r.keep) \union Range(r.list) : x \in Range(unmatched)
      /\ Open \subseteq Range(r.keep) \union Range(r.list)
  BY <1>1 DEF PassTrue, r
<1>3. /\ unmatched' \in Seq(Close) /\ Ascending(unmatched')
      /\ Range(unmatched') = Range(r.keep) \union Range(r.list)
  <2>1. unmatched' = r.keep \o r.list
    BY DEF r
  <2> QED BY <1>1, <1>2, <2>1, JoinLists
<1>4. ListInOrder
  BY DEF StopsTrue
<1>5. Open' = Open /\ ByHand' = ByHand
  <2>1. \A x \in ByHand : x \in Open
    BY <1>4 DEF ListInOrder, ByHand, Open
  <2> QED BY <1>2, <1>3, <2>1 DEF ByHand, Open
<1>6. FillsFollow'
  BY <1>1, <1>5 DEF StopsTrue, FillsFollow
<1>7. ListInOrder'
  BY <1>2, <1>3, <1>4 DEF ListInOrder
<1>8. ASSUME NEW u \in Keepers PROVE pass'[u] \in APass /\ PassTrue(pass[u])'
  <2>1. CASE u = t
    <3>1. pass'[u] = NoPass
      BY <2>1
    <3>2. PassTrue(NoPass)'
      BY NoPassTrue, PTL DEF NoPass
    <3> QED BY <3>1, <3>2, NoPassTrue
  <2>2. CASE u # t
    <3> DEFINE q == pass[u]
    <3>1. q \in APass /\ PassTrue(q)
      BY <1>1 DEF StopsTrue
    <3>2. pass'[u] = [q EXCEPT !.same = FALSE]
      BY <2>2
    <3> HIDE DEF q
    <3>3. pass'[u].list = q.list /\ pass'[u].same = FALSE /\ pass'[u] \in APass
      BY <3>1, <3>2 DEF APass
    <3>4. \A x \in Range(q.list) : x.n \notin settled => x \in Range(unmatched')
      BY <1>2, <1>3, <3>1 DEF PassTrue, Open
    <3> QED BY <3>3, <3>4 DEF PassTrue
  <2> QED BY <2>1, <2>2
<1>9. StopTypes'
  <2>1. pass' \in [Keepers -> APass]
    BY <1>8
  <2> QED BY <1>1, <1>3, <2>1 DEF StopsTrue, StopTypes
<1>10. (hits = Cardinality(hit))'
  BY DEF StopsTrue
<1> QED BY <1>6, <1>7, <1>8, <1>9, <1>10 DEF StopsTrue

\* The close of a named plan that a pass found is booked, once.
LEMMA PassBooks ==
    ASSUME StopsTrue, NEW t \in Keepers, pass[t].at # "out", NEW k \in 1..Len(pass[t].list),
           pass[t].list[k].plan \in named, pass[t].list[k].n \notin settled, lots # 0,
           Hits(pass[t].list[k].plan), settled' = settled \union {pass[t].list[k].n},
           pass' = [pass EXCEPT ![t] = [pass[t] EXCEPT
                      !.at = "awaits", !.keep = @ \o SubSeq(pass[t].list, 1, k - 1),
                      !.list = SubSeq(@, k + 1, Len(@))]],
           UNCHANGED <<unmatched, named, Venue, count>>
    PROVE  StopsTrue'
<1> DEFINE r == pass[t]
           x == r.list[k]
           before == SubSeq(r.list, 1, k - 1)
           after == SubSeq(r.list, k + 1, Len(r.list))
<1>1. /\ unmatched \in Seq(Close) /\ pass \in [Keepers -> APass] /\ r \in APass /\ PassTrue(r)
      /\ r.keep \in Seq(Close) /\ r.list \in Seq(Close)
      /\ UNCHANGED <<position, plans, fills, algo>>
      /\ lots \in Nat /\ lots - 1 \in Nat
      /\ IsFiniteSet(hit) /\ hits = Cardinality(hit) /\ hits \in Nat
  <2>1. lots \in Nat /\ IsFiniteSet(hit) /\ hits = Cardinality(hit)
    BY DEF StopsTrue, StopTypes
  <2>2. hits \in Nat
    BY <2>1, FS_CardinalityType
  <2> QED BY <2>1, <2>2 DEF StopsTrue, StopTypes, APass, Venue
<1>2. /\ before \in Seq(Close) /\ after \in Seq(Close) /\ x \in Range(r.list)
      /\ Range(r.list) = Range(before) \union {x} \union Range(after)
      /\ Ascending(r.list) => /\ Ascending(before) /\ Ascending(after)
                              /\ \A y \in Range(before), z \in Range(after) : y.n < z.n
  BY <1>1, SplitList
<1>3. /\ x.plan \in named /\ x.n \notin settled /\ settled' = settled \union {x.n}
      /\ lots' = lots - 1 /\ hit' = hit \union {x.plan}
      /\ hits' = (IF x.plan \in hit THEN hits ELSE hits + 1)
  BY DEF Hits
<1>4. /\ pass'[t] = [r EXCEPT !.at = "awaits", !.keep = @ \o before, !.list = after]
      /\ \A u \in Keepers \ {t} : pass'[u] = pass[u]
      /\ DOMAIN pass' = Keepers /\ r.at # "out"
  BY <1>1
<1> HIDE DEF r, x, before, after
<1>5. x \in Range(unmatched) /\ x \in Open
  BY <1>1, <1>2, <1>3 DEF PassTrue, Open
<1>6. x.plan # Hand
  <2>1. x.plan \in Plans
    BY <1>3 DEF StopsTrue, StopTypes
  <2> QED BY <2>1, StopsAssumption DEF Plans, Hand, StopsAssumption
<1>7. \A y \in Range(unmatched) : y.n = x.n => y = x
  BY <1>5, OneNumber
<1>8. Open' = Open \ {x} /\ ByHand' = ByHand
  BY <1>3, <1>5, <1>7 DEF Open, ByHand
<1>9. FillsFollow'
  <2>1. PICK o : o = Cardinality(Open) /\ o \in Nat /\ IsFiniteSet(Open)
    BY BookNumbers
  <2>2. Cardinality(Open') = o - 1
    BY <1>5, <1>8, <2>1, FS_RemoveElement
  <2>3. (lots - 1) - (o - 1) = lots - o
    BY <1>1, <2>1
  <2>4. lots' - Cardinality(Open') = lots - Cardinality(Open)
    BY <1>3, <2>1, <2>2, <2>3, Zenon
  <2> QED BY <1>1, <1>8, <2>4 DEF StopsTrue, FillsFollow
<1>10. ListInOrder'
  <2>1. ListInOrder
    BY DEF StopsTrue
  <2>2. \A y \in Range(unmatched) : y.plan = Hand => y.n # x.n
    BY <1>6, <1>7
  <2> QED BY <1>3, <1>5, <2>1, <2>2 DEF ListInOrder
<1>11. pass'[t] \in APass /\ PassTrue(pass[t])'
  <2>1. r.keep \o before \in Seq(Close)
    BY <1>1, <1>2
  <2>2. /\ pass'[t].at = "awaits" /\ pass'[t].keep = r.keep \o before /\ pass'[t].list = after
        /\ pass'[t].same = r.same /\ pass'[t] \in APass
    BY <1>1, <1>2, <1>4, <2>1 DEF APass
  <2>3. \A y \in Range(after) : y.n \notin settled' => y \in Range(unmatched)
    BY <1>1, <1>2, <1>3 DEF PassTrue
  <2>4. ASSUME r.same
        PROVE  /\ Ascending(r.keep \o before) /\ Ascending(after)
               /\ \A y \in Range(r.keep \o before), z \in Range(after) : y.n < z.n
               /\ \A y \in Range(r.keep \o before) \union Range(after) : y \in Range(unmatched)
               /\ Open \ {x} \subseteq Range(r.keep \o before) \union Range(after)
    <3>1. /\ Ascending(r.keep) /\ Ascending(r.list)
          /\ \A y \in Range(r.keep), z \in Range(r.list) : y.n < z.n
          /\ \A y \in Range(r.keep) \union Range(r.list) : y \in Range(unmatched)
          /\ Open \subseteq Range(r.keep) \union Range(r.list)
      BY <1>1, <2>4 DEF PassTrue
    <3>2. /\ Ascending(r.keep \o before)
          /\ Range(r.keep \o before) = Range(r.keep) \union Range(before)
      BY <1>1, <1>2, <3>1, JoinLists
    <3> QED BY <1>2, <3>1, <3>2
  <2> QED BY <1>8, <2>2, <2>3, <2>4 DEF PassTrue
<1>12. ASSUME NEW u \in Keepers \ {t} PROVE pass'[u] \in APass /\ PassTrue(pass[u])'
  <2>1. pass'[u] = pass[u] /\ pass[u] \in APass /\ PassTrue(pass[u])
    BY <1>1, <1>4 DEF StopsTrue
  <2> QED BY <1>3, <1>8, <2>1 DEF PassTrue
<1>13. StopTypes'
  <2>1. pass' \in [Keepers -> APass]
    <3>1. pass' = [u \in Keepers |-> pass'[u]]
      BY <1>1
    <3> QED BY <1>11, <1>12, <3>1
  <2>2. settled' \subseteq Nat
    <3>1. x.n \in Nat
      <4>1. x \in Close
        <5>1. \A i \in DOMAIN r.list : r.list[i] \in Close
          BY <1>1
        <5> QED BY <1>2, <5>1 DEF Range
      <4> QED BY <4>1 DEF Close
    <3> QED BY <1>3, <3>1 DEF StopsTrue, StopTypes
  <2>3. IsFiniteSet(hit')
    BY <1>1, <1>3, FS_AddElement
  <2> QED BY <1>1, <1>3, <2>1, <2>2, <2>3 DEF StopsTrue, StopTypes
<1>14. (hits = Cardinality(hit))'
  <2>1. Cardinality(hit \union {x.plan}) = IF x.plan \in hit THEN Cardinality(hit) ELSE Cardinality(hit) + 1
    BY <1>1, FS_AddElement
  <2> QED BY <1>1, <1>3, <2>1
<1> QED BY <1>9, <1>10, <1>11, <1>12, <1>13, <1>14 DEF StopsTrue

\* A step of settle_close_fills.
LEMMA SettleStep ==
    ASSUME StopsTrue, NEW t \in Keepers, Settles(t), ~bookHalted', ~twice'
    PROVE  StopsTrue'
<1> DEFINE r == pass[t]
           matched == {i \in DOMAIN r.list : IsNamed(r.list[i])}
           next == CHOOSE i \in matched : \A j \in matched : i <= j
           over == IF matched = {} THEN r.list ELSE SubSeq(r.list, 1, next - 1)
<1>1. /\ r.at # "out" /\ UNCHANGED <<preset, named, Venue, count>>
      /\ IF matched = {}
         THEN /\ unmatched' = r.keep \o over
              /\ pass' = [u \in Keepers |-> IF u = t THEN NoPass ELSE [pass[u] EXCEPT !.same = FALSE]]
              /\ twice' = (twice \/ ~r.same)
              /\ UNCHANGED <<lots, stop, hits, hit, settled>>
         ELSE IF lots = 0
         THEN /\ pass' = [pass EXCEPT ![t] = NoPass]
              /\ UNCHANGED <<unmatched, twice, lots, stop, hits, hit, settled>>
         ELSE /\ Hits(r.list[next].plan) /\ settled' = settled \union {r.list[next].n}
              /\ twice' = (twice \/ r.list[next].n \in settled)
              /\ pass' = [pass EXCEPT ![t] = [r EXCEPT !.at = "awaits", !.keep = @ \o over,
                                                       !.list = SubSeq(@, next + 1, Len(@))]]
              /\ UNCHANGED unmatched
  BY DEF Settles
<1>2. /\ pass \in [Keepers -> APass] /\ r.list \in Seq(Close)
      /\ DOMAIN r.list = 1..Len(r.list) /\ Len(r.list) \in Nat
  BY DEF StopsTrue, StopTypes, APass
<1>3. CASE matched = {}
  <2>1. over = r.list
    BY <1>3
  <2>2. r.same
    BY <1>1, <1>3
  <2> HIDE DEF matched, next, over
  <2> QED BY <1>1, <1>3, <2>1, <2>2, PassEnds
<1>4. CASE matched # {} /\ lots = 0
  <2>1. /\ pass' = [pass EXCEPT ![t] = NoPass]
        /\ UNCHANGED <<unmatched, lots, hits, hit, settled, named, Venue, count>>
    BY <1>1, <1>4
  <2>2. UNCHANGED <<position, plans, fills, algo>>
    BY <2>1 DEF Venue
  <2> HIDE DEF r, matched, next, over
  <2>3. Open' = Open /\ ByHand' = ByHand
    BY <2>1 DEF Open, ByHand
  <2>4. ASSUME NEW u \in Keepers PROVE pass'[u] \in APass /\ PassTrue(pass[u])'
    <3>1. CASE u = t
      <4>1. pass'[u] = NoPass
        BY <1>2, <2>1, <3>1
      <4>2. PassTrue(NoPass)'
        BY NoPassTrue, PTL DEF NoPass
      <4> QED BY <4>1, <4>2, NoPassTrue
    <3>2. CASE u # t
      <4>1. pass'[u] = pass[u] /\ pass[u] \in APass /\ PassTrue(pass[u])
        BY <1>2, <2>1, <3>2 DEF StopsTrue
      <4> QED BY <2>1, <2>3, <4>1 DEF PassTrue
    <3> QED BY <3>1, <3>2
  <2>5. StopTypes'
    <3>1. pass' \in [Keepers -> APass]
      <4>1. pass' = [u \in Keepers |-> pass'[u]]
        BY <1>2, <2>1
      <4> QED BY <2>4, <4>1
    <3> QED BY <2>1, <2>2, <3>1 DEF StopsTrue, StopTypes
  <2>6. FillsFollow' /\ ListInOrder' /\ (hits = Cardinality(hit))'
    BY <2>1, <2>2, <2>3 DEF StopsTrue, FillsFollow, ListInOrder
  <2> QED BY <2>4, <2>5, <2>6 DEF StopsTrue
<1>5. CASE matched # {} /\ lots # 0
  <2>1. over = SubSeq(r.list, 1, next - 1)
    BY <1>5
  <2>2. next \in matched
    <3>1. matched \in SUBSET (1..Len(r.list))
      BY <1>2
    <3> HIDE DEF matched, r
    <3> QED BY <1>2, <1>5, <3>1, FirstOf
  <2>3. next \in 1..Len(r.list) /\ r.list[next].plan \in named
    BY <1>2, <2>2 DEF IsNamed
  <2> HIDE DEF matched, next, over
  <2>4. /\ Hits(r.list[next].plan) /\ settled' = settled \union {r.list[next].n}
        /\ twice' = (twice \/ r.list[next].n \in settled)
        /\ pass' = [pass EXCEPT ![t] = [r EXCEPT !.at = "awaits", !.keep = @ \o over,
                                                 !.list = SubSeq(@, next + 1, Len(@))]]
        /\ UNCHANGED unmatched
    BY <1>1, <1>5
  <2>5. r.list[next].n \notin settled
    BY <2>4
  <2> QED BY <1>1, <1>5, <2>1, <2>3, <2>4, <2>5, PassBooks
<1> QED BY <1>3, <1>4, <1>5

\* A pass that begins has the whole list.
LEMMA BeginsTrue ==
    ASSUME StopsTrue
    PROVE  Begins \in APass /\ PassTrue(Begins)
<1>1. unmatched \in Seq(Close) /\ Ascending(unmatched)
  BY DEF StopsTrue, StopTypes, ListInOrder
<1>2. /\ Begins.at = "begun" /\ Begins.list = unmatched /\ Begins.keep = <<>> /\ Begins.same = TRUE
      /\ Begins \in APass
  BY <1>1 DEF Begins, APass
<1>3. Range(<<>>) = {} /\ Ascending(<<>>)
  BY DEF Range, Ascending
<1> QED BY <1>1, <1>2, <1>3 DEF PassTrue, Open

\* Housekeeping begins a pass.
LEMMA HousekeepingBegins == StopsTrue /\ HousekeepingSettles => StopsTrue'
<1> SUFFICES ASSUME StopsTrue, HousekeepingSettles PROVE StopsTrue'
  OBVIOUS
<1>1. /\ pass' = [pass EXCEPT !["housekeeping"] = Begins]
      /\ UNCHANGED <<lots, unmatched, count, named, hit, hits, settled, position, plans, fills, algo>>
  BY DEF HousekeepingSettles, Marks, Venue
<1>2. Open' = Open /\ ByHand' = ByHand
  BY <1>1 DEF Open, ByHand
<1>3. pass \in [Keepers -> APass] /\ "housekeeping" \in Keepers
  BY DEF StopsTrue, StopTypes, Keepers
<1>4. ASSUME NEW t \in Keepers PROVE pass'[t] \in APass /\ PassTrue(pass[t])'
  <2>1. pass'[t] \in APass /\ PassTrue(pass'[t])
    <3>1. pass'[t] = IF t = "housekeeping" THEN Begins ELSE pass[t]
      BY <1>1, <1>3
    <3> QED BY <1>3, <3>1, BeginsTrue DEF StopsTrue
  <2> QED BY <1>1, <1>2, <2>1 DEF PassTrue
<1>5. StopTypes'
  <2>1. pass' \in [Keepers -> APass]
    <3>1. pass' = [u \in Keepers |-> pass'[u]]
      BY <1>1, <1>3
    <3> QED BY <1>4, <3>1
  <2> QED BY <1>1, <2>1 DEF StopsTrue, StopTypes
<1>6. FillsFollow' /\ ListInOrder' /\ (hits = Cardinality(hit))'
  BY <1>1, <1>2 DEF StopsTrue, FillsFollow, ListInOrder
<1> QED BY <1>4, <1>5, <1>6 DEF StopsTrue

\* The algo channel tells of a plan; if it fired, a pass begins.
LEMMA AlgoTells == StopsTrue /\ AlgoPushed => StopsTrue'
<1> SUFFICES ASSUME StopsTrue, AlgoPushed PROVE StopsTrue'
  OBVIOUS
<1> DEFINE p == Head(algo).plan
<1>1. /\ algo # <<>> /\ algo' = Tail(algo)
      /\ \/ named' = named \union {p} /\ pass' = [pass EXCEPT !["consumer"] = Begins]
         \/ UNCHANGED <<named, pass>>
      /\ UNCHANGED <<lots, hit, hits, unmatched, position, plans, fills, count, settled>>
  BY DEF AlgoPushed
<1>2. p \in Plans /\ Tail(algo) \in Seq(AlgoNews)
  <2>1. algo \in Seq(AlgoNews)
    BY DEF StopsTrue, StopTypes
  <2>2. Head(algo) \in AlgoNews /\ Tail(algo) \in Seq(AlgoNews)
    BY <1>1, <2>1
  <2> QED BY <2>2 DEF AlgoNews
<1> HIDE DEF p
<1>3. Open' = Open /\ ByHand' = ByHand
  BY <1>1 DEF Open, ByHand
<1>4. pass \in [Keepers -> APass] /\ "consumer" \in Keepers
  BY DEF StopsTrue, StopTypes, Keepers
<1>5. ASSUME NEW t \in Keepers PROVE pass'[t] \in APass /\ PassTrue(pass[t])'
  <2>1. pass'[t] \in APass /\ PassTrue(pass'[t])
    <3>1. pass'[t] = Begins \/ pass'[t] = pass[t]
      BY <1>1, <1>4
    <3> QED BY <1>4, <3>1, BeginsTrue DEF StopsTrue
  <2> QED BY <1>1, <1>3, <2>1 DEF PassTrue
<1>6. StopTypes'
  <2>1. pass' \in [Keepers -> APass]
    <3>1. pass' = [u \in Keepers |-> pass'[u]]
      BY <1>1, <1>4
    <3> QED BY <1>5, <3>1
  <2>2. named' \subseteq Plans
    BY <1>1, <1>2 DEF StopsTrue, StopTypes
  <2> QED BY <1>1, <1>2, <2>1, <2>2 DEF StopsTrue, StopTypes
<1>7. FillsFollow' /\ ListInOrder' /\ (hits = Cardinality(hit))'
  BY <1>1, <1>3 DEF StopsTrue, FillsFollow, ListInOrder
<1> QED BY <1>5, <1>6, <1>7 DEF StopsTrue

\* No step gives the book a false count, unless it halts it or is told by twice.
LEMMA NextStops == StopsInv /\ [StopsNext]_stopVars => StopsInv'
<1> SUFFICES ASSUME StopsInv, [StopsNext]_stopVars PROVE StopsInv'
  OBVIOUS
<1>0. bookHalted \in BOOLEAN /\ twice \in BOOLEAN /\ (bookHalted \/ twice \/ StopsTrue)
  BY DEF StopsInv
<1>1. CASE UNCHANGED stopVars
  <2>1. UNCHANGED <<lots, position, fills, unmatched, pass, count, plans, algo, hit, hits,
                    settled, named, bookHalted, twice>>
    BY <1>1 DEF stopVars
  <2>2. Open' = Open /\ ByHand' = ByHand
    BY <2>1 DEF Open, ByHand
  <2>3. StopsTrue => StopsTrue'
    BY <2>1, <2>2 DEF StopsTrue, StopTypes, FillsFollow, ListInOrder, PassTrue
  <2> QED BY <1>0, <2>1, <2>3 DEF StopsInv
<1>2. ASSUME UNCHANGED <<bookHalted, twice>>, StopsTrue => StopsTrue' PROVE StopsInv'
  BY <1>0, <1>2 DEF StopsInv
<1>3. CASE UnitBought \/ TrimFills \/ HandCloses \/ \E p \in Plans : Fires(p)
  <2>1. UNCHANGED <<bookHalted, twice>>
    BY <1>3 DEF UnitBought, TrimFills, HandCloses, Fires, Closes, BookOnly, Marks
  <2> QED BY <1>2, <1>3, <2>1, VenueSteps
<1>4. CASE SetsStop \/ DropsPreset
  <2>1. UNCHANGED <<bookHalted, twice>>
    BY <1>4 DEF SetsStop, DropsPreset, Marks
  <2> QED BY <1>2, <1>4, <2>1, StopSteps
<1>5. CASE HousekeepingSettles
  <2>1. UNCHANGED <<bookHalted, twice>>
    BY <1>5 DEF HousekeepingSettles, Marks
  <2> QED BY <1>2, <1>5, <2>1, HousekeepingBegins
<1>6. CASE AlgoPushed
  <2>1. UNCHANGED <<bookHalted, twice>>
    BY <1>6 DEF AlgoPushed
  <2> QED BY <1>2, <1>6, <2>1, AlgoTells
<1>7. CASE StopFillPushed
  <2>1. twice' = twice /\ (bookHalted' = bookHalted \/ bookHalted' = TRUE)
    BY <1>7 DEF StopFillPushed
  <2>2. bookHalted' \in BOOLEAN
    BY <1>0, <2>1, Zenon
  <2>3. StopsTrue /\ ~bookHalted' => StopsTrue'
    BY <1>7, FillStep
  <2>4. ~bookHalted' => ~bookHalted
    BY <1>0, <2>1, Zenon
  <2> QED BY <1>0, <2>1, <2>2, <2>3, <2>4, Zenon DEF StopsInv
<1>8. CASE \E t \in Keepers : Settles(t)
  <2>1. PICK t \in Keepers : Settles(t)
    BY <1>8
  <2>2. (\E a : bookHalted' = (bookHalted \/ a)) /\ (twice' = twice \/ \E a : twice' = (twice \/ a))
    BY <2>1 DEF Settles
  <2>3. \A b \in BOOLEAN : \A a, c : c = (b \/ a) => c \in BOOLEAN /\ (~c => ~b)
    OBVIOUS
  <2>5. bookHalted' \in BOOLEAN /\ (~bookHalted' => ~bookHalted)
    BY <1>0, <2>2, <2>3, Zenon
  <2>6. twice' \in BOOLEAN /\ (~twice' => ~twice)
    BY <1>0, <2>2, <2>3, Zenon
  <2>4. StopsTrue /\ ~bookHalted' /\ ~twice' => StopsTrue'
    BY <2>1, SettleStep
  <2> QED BY <1>0, <2>4, <2>5, <2>6, Zenon DEF StopsInv
<1> QED BY <1>1, <1>3, <1>4, <1>5, <1>6, <1>7, <1>8 DEF StopsNext

\* Nothing is booked or listed at first.
LEMMA InitStops == StopsInit => StopsInv
<1> SUFFICES ASSUME StopsInit PROVE StopsInv
  OBVIOUS
<1>1. /\ lots = 0 /\ named = {} /\ hit = {} /\ hits = 0 /\ unmatched = <<>>
      /\ pass = [t \in Keepers |-> NoPass] /\ bookHalted = FALSE /\ position = 0
      /\ plans = [p \in Plans |-> NoPlan] /\ fills = <<>> /\ algo = <<>>
      /\ count = [entries |-> 0, hands |-> 0, listed |-> 0] /\ settled = {} /\ twice = FALSE
  BY DEF StopsInit
<1>2. Range(<<>>) = {} /\ Ascending(<<>>)
  BY DEF Range, Ascending
<1>3. Open = {} /\ ByHand = {} /\ Cardinality({}) = 0 /\ IsFiniteSet({})
  BY <1>1, <1>2, FS_EmptySet DEF Open, ByHand
<1>4. StopTypes
  BY <1>1, <1>3, NoPassTrue DEF StopTypes, APlan, NoPlan
<1>5. \A f : Leads(<<>>, f, 0, 0)
  <2> TAKE f
  <2> DEFINE h == [i \in 0..0 |-> 0]
  <2>1. h \in [0..0 -> Nat] /\ h[0] = 0
    OBVIOUS
  <2>2. 1..0 = {} /\ Len(<<>>) = 0
    OBVIOUS
  <2> HIDE DEF h
  <2> QED BY <2>1, <2>2 DEF Leads
<1>6. FillsFollow
  <2>1. 0 - 0 = 0
    OBVIOUS
  <2> QED BY <1>1, <1>3, <1>5, <2>1 DEF FillsFollow
<1>7. ListInOrder /\ \A t \in Keepers : PassTrue(pass[t])
  BY <1>1, <1>2, NoPassTrue DEF ListInOrder
<1> QED BY <1>1, <1>3, <1>4, <1>6, <1>7 DEF StopsInv, StopsTrue

\* As many places of the list are unbooked as there are unbooked closes.
LEMMA PlacesOfOpen == ASSUME StopsTrue PROVE Cardinality(Listed) = Cardinality(Open)
<1>1. unmatched \in Seq(Close) /\ DOMAIN unmatched = 1..Len(unmatched) /\ Len(unmatched) \in Nat
  BY DEF StopsTrue, StopTypes
<1>2. \A i, j \in 1..Len(unmatched) : i < j => unmatched[i] # unmatched[j]
  <2>1. \A c \in Close : ~(c.n < c.n)
    BY DEF Close
  <2>2. \A i \in 1..Len(unmatched) : unmatched[i] \in Close
    BY <1>1
  <2> QED BY <1>1, <2>1, <2>2 DEF StopsTrue, ListInOrder, Ascending
<1>3. \A i, j \in 1..Len(unmatched) : unmatched[i] = unmatched[j] => i = j
  <2>1. \A i, j \in 1..Len(unmatched) : i < j \/ j < i \/ i = j
    BY <1>1
  <2> QED BY <1>2, <2>1, Zenon
<1> DEFINE f == [i \in Listed |-> unmatched[i]]
<1>4. Listed \subseteq 1..Len(unmatched)
  BY <1>1 DEF Listed
<1>5. f \in Bijection(Listed, Open)
  <2>1. f \in [Listed -> Open]
    BY <1>1 DEF Listed, Open, Range
  <2>2. \A i, j \in Listed : f[i] = f[j] => i = j
    BY <1>3, <1>4
  <2>3. \A x \in Open : \E i \in Listed : f[i] = x
    BY <1>1 DEF Listed, Open, Range
  <2> HIDE DEF f
  <2> QED BY <2>1, <2>2, <2>3 DEF Bijection, Injection, Surjection, IsInjective
<1>6. IsFiniteSet(Listed)
  <2>1. IsFiniteSet(1..Len(unmatched))
    BY <1>1, FS_Interval
  <2> QED BY <1>4, <2>1, FS_Subset
<1> HIDE DEF f
<1> QED BY <1>5, <1>6, FS_Bijection DEF ExistsBijection

\* The counts of a book that is not halted.
LEMMA CountsAddUp == StopsInv => ClosesClassified
<1> SUFFICES ASSUME StopsTrue
             PROVE  /\ lots + UnderWay({"entry"}) - UnderWay({"trim", "close"}) - Cardinality(Listed) = position
                    /\ Cardinality(ByHand)
                         + Cardinality({i \in DOMAIN fills : fills[i].kind = "close" /\ fills[i].plan = Hand})
                         = count.hands
                    /\ hits = Cardinality(hit)
  BY DEF StopsInv, ClosesClassified, LotsFollow, ByHand
<1>1. /\ fills \in Seq(Fill) /\ lots \in Nat /\ position \in Int /\ count.hands \in Int
      /\ DOMAIN fills = 1..Len(fills) /\ Len(fills) \in Nat
  BY DEF StopsTrue, StopTypes
<1>2. \A i \in 1..Len(fills) : fills[i] \in Fill
  BY <1>1
<1>3. \A S : HowMany(fills, S) \in Nat
  <2> TAKE S
  <2>1. IsFiniteSet(1..Len(fills))
    BY <1>1, FS_Interval
  <2>2. IsFiniteSet({i \in 1..Len(fills) : fills[i] \in S})
    BY <2>1, FS_Subset
  <2> QED BY <2>2, FS_CardinalityType DEF HowMany
<1>4. FillsFollow
  BY DEF StopsTrue
<1>5. lots + UnderWay({"entry"}) - UnderWay({"trim", "close"}) - Cardinality(Listed) = position
  <2> DEFINE U == {r \in Fill : r.kind = "entry"}
             D == {r \in Fill : r.kind # "entry"}
             u == HowMany(fills, U)
             d == HowMany(fills, D)
             a == lots - Cardinality(Open)
  <2>1. Tells(LotsMove, U, D)
    BY DEF LotsMove, Tells
  <2>2. UnderWay({"entry"}) = u /\ UnderWay({"trim", "close"}) = d
    <3>1. \A r \in Fill : r.kind \in {"entry", "trim", "close"}
      BY DEF Fill
    <3>2. /\ {i \in DOMAIN fills : fills[i].kind \in {"entry"}} = {i \in 1..Len(fills) : fills[i] \in U}
          /\ {i \in DOMAIN fills : fills[i].kind \in {"trim", "close"}} = {i \in 1..Len(fills) : fills[i] \in D}
      BY <1>1, <1>2, <3>1
    <3> QED BY <3>2 DEF UnderWay, HowMany
  <2>3. a \in Int /\ Leads(fills, LotsMove, a, position)
    BY <1>4, BookNumbers DEF FillsFollow
  <2>4. Cardinality(Open) \in Nat /\ u \in Nat /\ d \in Nat
    BY <1>3, BookNumbers
  <2> HIDE DEF U, D, a
  <2>5. position = a + u - d
    <3>1. fills \in Seq(Fill) /\ LotsMove \in [Fill -> Int] /\ a \in Int /\ position \in Int
      BY <1>1, <2>3, FillsAdd
    <3>2. position = a + HowMany(fills, U) - HowMany(fills, D)
      BY <2>1, <2>3, <3>1, LeadsBy
    <3> QED BY <3>2
  <2>6. Cardinality(Listed) = Cardinality(Open)
    BY PlacesOfOpen
  <2> HIDE DEF u, d
  <2> QED BY <1>1, <2>2, <2>4, <2>5, <2>6 DEF a
<1>6. Cardinality(ByHand) + Cardinality({i \in DOMAIN fills : fills[i].kind = "close" /\ fills[i].plan = Hand})
        = count.hands
  <2> DEFINE U == {r \in Fill : r.kind = "close" /\ r.plan = Hand}
             D == {r \in Fill : FALSE}
             u == HowMany(fills, U)
             d == HowMany(fills, D)
             b == Cardinality(ByHand)
  <2>1. Tells(HandsMove, U, D)
    BY DEF HandsMove, Tells
  <2>2. {i \in DOMAIN fills : fills[i].kind = "close" /\ fills[i].plan = Hand} = {i \in 1..Len(fills) : fills[i] \in U}
    BY <1>1, <1>2
  <2>3. b \in Nat /\ Leads(fills, HandsMove, b, count.hands)
    BY <1>4, BookNumbers DEF FillsFollow
  <2>4. u \in Nat /\ d = 0
    <3>1. {i \in 1..Len(fills) : fills[i] \in D} = {}
      OBVIOUS
    <3> QED BY <1>3, <3>1, FS_EmptySet DEF HowMany
  <2>7. count.hands \in Int /\ b \in Int
    BY <1>1, <2>3
  <2> HIDE DEF U, D, b
  <2>5. count.hands = b + u - d
    <3>1. fills \in Seq(Fill) /\ HandsMove \in [Fill -> Int]
      BY <1>1, FillsAdd
    <3>2. count.hands = b + HowMany(fills, U) - HowMany(fills, D)
      BY <2>1, <2>3, <2>7, <3>1, LeadsBy
    <3> QED BY <3>2
  <2> HIDE DEF u, d
  <2>6. b + u = count.hands
    BY <2>3, <2>4, <2>5
  <2> QED BY <2>2, <2>6 DEF u, b, HowMany
<1>7. hits = Cardinality(hit)
  BY DEF StopsTrue
<1> QED BY <1>5, <1>6, <1>7

\* Whatever the order of the channels and the turns of the tasks: unless the book
\* is halted or a close was told twice, its lots are the position but for the fills
\* under way or listed, no close by hand is taken for a stop, and a stop counts once.
THEOREM StopsHold == StopsSpec => []ClosesClassified
<1>1. StopsInit => StopsInv
  BY InitStops
<1>2. StopsInv /\ [StopsNext]_stopVars => StopsInv'
  BY NextStops
<1>3. StopsInv => ClosesClassified
  BY CountsAddUp
<1> QED BY <1>1, <1>2, <1>3, PTL DEF StopsSpec

----------------------------------------------------------------------------
(* The basket.                                                             *)

Reasons == {"no", "wind", "evicted", "ended"}
BasketBook == [probe : BOOLEAN, promote : BOOLEAN, leave : Reasons, share : Nat]

\* Books of the symbols, at most one of them a probe.
GoodBooks(bs) ==
  /\ DOMAIN bs \subseteq Symbols /\ bs = [s \in DOMAIN bs |-> bs[s]]
  /\ \A s \in DOMAIN bs : bs[s] \in BasketBook
  /\ \A s, t \in Probes(bs) : s = t

SharesOf(bs) == SumFunctionOnSet([s \in DOMAIN bs |-> bs[s].share], DOMAIN bs)

\* Shares of one wallet, each off by half a part at most.
FitsWallet(bs) == 2 * SharesOf(bs) <= 2 * Wallet + Cardinality(DOMAIN bs)

\* What is set aside is on file or forgotten, and what is on file is not in the basket:
\* SetAside could not be kept without it, for a reason to leave may pass.
SelectInv ==
  /\ slots \in SlotCounts /\ loaded \in SlotCounts \union {0}
  /\ GoodBooks(basket) /\ DOMAIN basket # {} /\ FitsWallet(basket)
  /\ "cool" \in DOMAIN selectState /\ selectState.cool \intersect DOMAIN basket = {}
  /\ due \subseteq selectState.cool \union forgot

\* A share of a pool, taken no more often than it was divided, fits the pool but for half
\* a part each time.
LEMMA NearestFits ==
    ASSUME NEW p \in Nat, NEW n \in Nat \ {0}, NEW k \in Nat, k <= n
    PROVE  Nearest(p, n) \in Nat /\ 2 * (k * Nearest(p, n)) <= 2 * p + k
<1> DEFINE x == 2 * p + n
           m == 2 * n
           c == x \div m
<1>1. x \in Nat /\ m \in Nat \ {0}
  OBVIOUS
<1>2. c \in Nat /\ m * c <= x
  <2> HIDE DEF x, m
  <2> QED BY <1>1, SMT
<1>3. c = Nearest(p, n)
  BY DEF Nearest
<1> HIDE DEF c
<1>4. CASE c = 0
  BY <1>3, <1>4
<1>5. CASE c # 0
  <2> DEFINE e == 2 * c - 1
  <2>1. e \in Nat /\ 2 * c = e + 1
    BY <1>2, <1>5
  <2>2. m * c = n * (2 * c)
    BY <1>2
  <2> HIDE DEF e, m
  <2>3. n * (2 * c) = n * e + n
    BY <2>1
  <2>4. n * e <= 2 * p
    <3>1. n * e \in Nat
      BY <2>1
    <3> QED BY <1>2, <2>2, <2>3, <3>1
  <2>5. k * e <= n * e /\ k * e \in Nat /\ n * e \in Nat
    BY <2>1
  <2>6. 2 * (k * c) = k * (2 * c) /\ k * (2 * c) = k * e + k
    BY <1>2, <2>1
  <2>7. 2 * (k * c) <= 2 * p + k
    BY <2>4, <2>5, <2>6
  <2> QED BY <1>2, <1>3, <2>7
<1> QED BY <1>4, <1>5

\* What a scan finds of a symbol has an edge.
LEMMA EdgeIsInt ==
    ASSUME NEW rows \in SelectScans, NEW s \in Symbols
    PROVE  Edge(rows, s) \in Int
<1>1. PICK x \in Symbols, f \in Findings : rows = [t \in Symbols |-> IF t = x THEN f ELSE Usual]
  BY DEF SelectScans
<1>2. rows[s] = f \/ rows[s] = Usual
  BY <1>1
<1>3. Usual.ev.edge \in Int /\ f.ev.edge \in Int
  BY DEF Findings, Usual, Absent, NoEvidence
<1> QED BY <1>2, <1>3 DEF Edge

\* One main book leads, or none.
LEMMA OneLeader ==
    ASSUME NEW rows \in SelectScans, NEW bs, DOMAIN bs \subseteq Symbols
    PROVE  /\ Leader(rows, bs) \subseteq Mains(bs)
           /\ \A s, t \in Leader(rows, bs) : s = t
<1> DEFINE m == {s \in Mains(bs) : ~IsLeaving(bs, s) /\ HasFull(rows, s)}
<1>1. Leader(rows, bs) \subseteq {s \in m : \A r \in m \ {s} : Edge(rows, s) > Edge(rows, r)}
  BY DEF Leader
<1>2. m \subseteq Mains(bs) /\ Mains(bs) \subseteq Symbols
  BY DEF Mains
<1> HIDE DEF m
<1>3. ASSUME NEW s \in Leader(rows, bs), NEW t \in Leader(rows, bs), s # t PROVE FALSE
  <2>1. Edge(rows, s) > Edge(rows, t) /\ Edge(rows, t) > Edge(rows, s)
    BY <1>1, <1>3
  <2>2. Edge(rows, s) \in Int /\ Edge(rows, t) \in Int
    BY <1>1, <1>2, EdgeIsInt
  <2> HIDE DEF Edge
  <2> QED BY <2>1, <2>2
<1> QED BY <1>1, <1>2, <1>3

\* The symbols are few.
LEMMA FewBooks ==
    ASSUME NEW S, S \subseteq Symbols
    PROVE  IsFiniteSet(S) /\ Cardinality(S) \in Nat
<1>1. IsFiniteSet(S)
  BY SelectAssumption, FS_Subset DEF SelectAssumption
<1> QED BY <1>1, FS_CardinalityType

\* What comes first of a set is of it.
LEMMA ForemostIn ==
    ASSUME NEW S, NEW room, NEW W \in Foremost(S, room)
    PROVE  W \subseteq S
BY DEF Foremost, kSubset

\* Where there is room, something comes first.
LEMMA ForemostOf ==
    ASSUME NEW S, S \subseteq Symbols, NEW room \in Int, NEW W \in Foremost(S, room)
    PROVE  /\ room > 0 /\ S # {} => W # {}
           /\ room <= 1 => \A s, t \in W : s = t
<1>1. IsFiniteSet(S) /\ Cardinality(S) \in Nat
  BY FewBooks
<1>2. CASE room <= 0
  BY <1>2 DEF Foremost
<1>3. CASE room > 0 /\ room >= Cardinality(S)
  <2>1. W = S
    BY <1>3 DEF Foremost
  <2>2. room <= 1 => Cardinality(S) = 0 \/ Cardinality(S) = 1
    BY <1>1, <1>3
  <2>3. Cardinality(S) = 0 => S = {}
    BY <1>1, FS_EmptySet
  <2>4. Cardinality(S) = 1 => \E x : S = {x}
    BY <1>1, FS_Singleton
  <2> QED BY <2>1, <2>2, <2>3, <2>4
<1>4. CASE room > 0 /\ ~(room >= Cardinality(S))
  <2>1. W \subseteq S /\ Cardinality(W) = room
    BY <1>4 DEF Foremost, kSubset
  <2>2. IsFiniteSet(W) /\ Cardinality({}) = 0
    BY <2>1, FewBooks, FS_EmptySet
  <2>3. W # {}
    BY <1>4, <2>1, <2>2
  <2>4. room <= 1 => Cardinality(W) = 1
    BY <1>4, <2>1
  <2>5. Cardinality(W) = 1 => \E x : W = {x}
    BY <2>2, FS_Singleton
  <2> QED BY <2>1, <2>3, <2>4, <2>5
<1> QED BY <1>2, <1>3, <1>4

\* What a scan opens is neither in the basket nor set aside, and is one probe at most.
LEMMA OpensNew ==
    ASSUME NEW rows, NEW leaving, NEW ended, NEW o \in Openings(rows, leaving, ended)
    PROVE  /\ o.adds \subseteq Candidate(rows, leaving) /\ o.probe \subseteq Candidate(rows, leaving)
           /\ \A s, t \in o.probe : s = t
<1> DEFINE cand == Candidate(rows, leaving)
           rest == PerDay - selectState.opens
           Count(streaks, top) == [s \in Symbols |-> IF s \in top THEN Counted(streaks[s]) ELSE 0]
           NextProbe(top) ==
             IF ProbePart = 0 \/ ended # {} \/ \E s \in Probes(basket) : ~IsLeaving(basket, s) THEN {{}}
             ELSE Foremost(cand \ top, 1)
           Sure(top) == {s \in top : Count(selectState.streak, top)[s] >= Proofs}
           room == loaded - Cardinality(Mains(basket))
<1> DEFINE One(top, adds, next) ==
             [streak |-> Count(selectState.streak, top), pstreak |-> Count(selectState.pstreak, next), adds |-> adds,
              probe |-> {s \in next : Count(selectState.pstreak, next)[s] >= Proofs /\ rest > Cardinality(adds)}]
           Some(top) == {One(top, adds, next) : adds \in Foremost(Sure(top), rest), next \in NextProbe(top)}
<1>0. Openings(rows, leaving, ended) = UNION {Some(top) : top \in Foremost(cand, room)}
  BY DEF Openings
<1>1. PICK top \in Foremost(cand, room) : o \in Some(top)
  <2> HIDE DEF Some, cand, room
  <2> QED BY <1>0
<1>2. PICK adds \in Foremost(Sure(top), rest), next \in NextProbe(top) : o = One(top, adds, next)
  <2> HIDE DEF NextProbe, Sure, One, rest
  <2> QED BY <1>1
<1>3. o.adds = adds /\ o.probe \subseteq next
  BY <1>2
<1>4. cand \subseteq Symbols
  BY DEF Candidate
<1>5. top \subseteq cand
  BY <1>1, ForemostIn
<1>6. adds \subseteq Sure(top)
  BY <1>2, ForemostIn
<1>7. Sure(top) \subseteq top
  OBVIOUS
<1> HIDE DEF Sure, Count, rest, room, One, Some
<1>8. next \subseteq cand /\ \A s, t \in next : s = t
  <2>1. CASE next \in Foremost(cand \ top, 1)
    <3> DEFINE S == cand \ top
    <3>1. S \subseteq Symbols /\ next \in Foremost(S, 1)
      BY <1>4, <2>1
    <3> HIDE DEF S
    <3>2. \A s, t \in next : s = t
      BY <3>1, ForemostOf
    <3>3. next \subseteq S
      BY <3>1, ForemostIn
    <3> QED BY <3>2, <3>3 DEF S
  <2>2. CASE next \in {{}}
    BY <2>2
  <2> QED BY <2>1, <2>2
<1> QED BY <1>3, <1>5, <1>6, <1>7, <1>8 DEF cand

\* One probe at most.
LEMMA OneProbe ==
    ASSUME NEW bs, GoodBooks(bs)
    PROVE  Cardinality(Probes(bs)) \in 0..1
<1> DEFINE P == Probes(bs)
<1>1. P \subseteq Symbols /\ \A s, t \in P : s = t
  BY DEF GoodBooks, Probes
<1> HIDE DEF P
<1>2. ASSUME P = {}
      PROVE  Cardinality(P) \in 0..1
  <2>1. Cardinality({}) = 0
    BY FS_EmptySet
  <2> QED BY <1>2, <2>1
<1>3. ASSUME P # {}
      PROVE  Cardinality(P) \in 0..1
  <2>1. PICK s \in P : TRUE
    BY <1>3
  <2>2. P = {s}
    BY <1>1, <2>1
  <2>3. Cardinality({s}) = 1
    BY FS_Singleton
  <2> QED BY <2>2, <2>3
<1>4. Cardinality(P) \in 0..1
  BY <1>2, <1>3
<1> QED BY <1>4 DEF P

\* What a main book is given of the pool.
PoolShare(s, M, L, pool, n, lead) ==
  IF s \notin M THEN 0
  ELSE IF L = {} THEN Nearest(pool, n)
  ELSE IF s \in L THEN lead ELSE Nearest(pool - lead, n - 1)

\* h gives the main books M of S their shares, the leader L his, if there is one.
PoolShared(h, S, M, L, pool, n, lead) ==
  /\ IsFiniteSet(S) /\ M \subseteq S /\ L \subseteq M /\ \A s, t \in L : s = t
  /\ pool \in Nat /\ n \in Nat \ {0} /\ Cardinality(M) <= n
  /\ lead \in Nat /\ lead <= pool /\ (L # {} => n > 1)
  /\ \A s \in S : h[s] = PoolShare(s, M, L, pool, n, lead)

\* The shares of the main books, leader or none, fit their pool but for half a part each.
LEMMA PoolFits ==
    ASSUME NEW S, NEW M, NEW L, NEW pool, NEW n, NEW lead, NEW h, PoolShared(h, S, M, L, pool, n, lead)
    PROVE  /\ 2 * SumFunctionOnSet(h, S) <= 2 * pool + Cardinality(M)
           /\ SumFunctionOnSet(h, S) \in Int /\ \A s \in S : h[s] \in Nat
<1>0. /\ IsFiniteSet(S) /\ M \in SUBSET S /\ L \in SUBSET M /\ \A s, t \in L : s = t
      /\ pool \in Nat /\ n \in Nat \ {0} /\ Cardinality(M) <= n
      /\ lead \in Nat /\ lead <= pool /\ (L # {} => n > 1)
      /\ \A s \in S : h[s] = PoolShare(s, M, L, pool, n, lead)
  BY DEF PoolShared
<1>1. IsFiniteSet(M) /\ Cardinality(M) \in Nat
  BY <1>0, FS_Subset, FS_CardinalityType
<1> USE <1>0
<1>2. CASE L = {}
  <2> DEFINE k == Nearest(pool, n)
  <2>1. k \in Nat /\ 2 * (Cardinality(M) * k) <= 2 * pool + Cardinality(M)
    BY <1>1, NearestFits
  <2>2. \A s \in S : h[s] = IF s \in M THEN k ELSE 0
    BY <1>2 DEF PoolShare
  <2> HIDE DEF k
  <2>3. \A s \in S : h[s] \in Int /\ h[s] \in Nat /\ h[s] <= (IF s \in M THEN k ELSE 0)
    BY <2>1, <2>2
  <2>4. SumFunctionOnSet(h, S) <= Cardinality(M) * k
    BY <2>1, <2>3, SumBounded
  <2>5. SumFunctionOnSet(h, S) \in Int
    BY <2>3, SumIsInt
  <2>6. Cardinality(M) * k \in Int
    BY <1>1, <2>1
  <2> QED BY <1>1, <2>1, <2>3, <2>4, <2>5, <2>6
<1>3. CASE L # {}
  <2>1. PICK l \in L : TRUE
    BY <1>3
  <2> DEFINE T == M \ {l}
             rest == pool - lead
             k == Nearest(rest, n - 1)
             f == [s \in S |-> IF s = l THEN lead ELSE 0]
             g == [s \in S |-> h[s] - f[s]]
  <2>2. rest \in Nat /\ n - 1 \in Nat \ {0}
    BY <1>3
  <2>3. Cardinality(T) \in Nat /\ Cardinality(T) = Cardinality(M) - 1
    BY <1>1, <2>1, FS_RemoveElement, FS_CardinalityType
  <2>4. k \in Nat /\ 2 * (Cardinality(T) * k) <= 2 * rest + Cardinality(T)
    <3>1. Cardinality(T) <= n - 1
      BY <1>1, <2>3
    <3> HIDE DEF T, rest
    <3> QED BY <2>2, <2>3, <3>1, NearestFits
  <2>5. \A s \in S : h[s] = IF s = l THEN lead ELSE IF s \in T THEN k ELSE 0
    BY <1>3, <2>1 DEF PoolShare
  <2> HIDE DEF k, rest, T
  <2>6. \A s \in S : h[s] \in Int /\ h[s] \in Nat /\ f[s] \in Int /\ g[s] = h[s] - f[s]
    BY <2>4, <2>5
  <2>7. l \in S /\ l \notin T /\ T \in SUBSET S
    BY <2>1 DEF T
  <2>8. \A s \in S : g[s] \in Int /\ g[s] <= (IF s \in T THEN k ELSE 0)
    BY <2>4, <2>5, <2>7
  <2>9. f[l] = lead /\ \A s \in S \ {l} : f[s] = 0
    BY <2>7
  <2> HIDE DEF f, g
  <2>10. SumFunctionOnSet(f, S) = lead
    BY <2>6, <2>7, <2>9, SumOfOne
  <2>11. SumFunctionOnSet(g, S) <= Cardinality(T) * k
    BY <2>4, <2>7, <2>8, SumBounded
  <2>12. SumFunctionOnSet(g, S) = SumFunctionOnSet(h, S) - SumFunctionOnSet(f, S)
    BY <2>6, SumDifference
  <2>13. SumFunctionOnSet(h, S) \in Int /\ SumFunctionOnSet(g, S) \in Int
    BY <2>6, <2>8, SumIsInt
  <2>14. Cardinality(T) * k \in Int
    BY <2>3, <2>4
  <2>15. 2 * SumFunctionOnSet(h, S) <= 2 * pool + Cardinality(M)
    BY <1>1, <2>2, <2>3, <2>4, <2>10, <2>11, <2>12, <2>13, <2>14 DEF rest
  <2> QED BY <2>6, <2>13, <2>15
<1> QED BY <1>2, <1>3

\* A scan's shares leave the books what they are and fit the wallet.
LEMMA SharesGood ==
    ASSUME NEW rows \in SelectScans, NEW bs, GoodBooks(bs), loaded \in Nat \ {0}
    PROVE  GoodBooks(Shares(rows, bs)) /\ DOMAIN Shares(rows, bs) = DOMAIN bs
           /\ FitsWallet(Shares(rows, bs))
<1> DEFINE S == DOMAIN bs
           M == Mains(bs)
           P == Probes(bs)
           n == Max({loaded, Cardinality(M)})
           pool == Wallet - ProbePart
           L == IF n > 1 THEN Leader(rows, bs) ELSE {}
           new == Shares(rows, bs)
           f == [s \in S |-> new[s].share]
           g == [s \in S |-> IF s \in P THEN ProbePart ELSE 0]
           h == [s \in S |-> f[s] - g[s]]
<1>1. S \subseteq Symbols /\ M \in SUBSET S /\ P = S \ M /\ IsFiniteSet(S) /\ Cardinality(M) \in Nat
      /\ M \subseteq Symbols /\ P \subseteq Symbols
  <2>1. S \subseteq Symbols /\ M \subseteq S /\ P = S \ M
    BY DEF GoodBooks, Mains, Probes
  <2> HIDE DEF S, M, P
  <2> QED BY <2>1, FewBooks
<1>2. n \in Nat \ {0} /\ Cardinality(M) <= n
  <2> DEFINE N == {loaded, Cardinality(M)}
  <2>1. IsFiniteSet(N) /\ N # {} /\ \A x \in N : x \in Nat
    <3>1. IsFiniteSet({loaded}) /\ IsFiniteSet({loaded} \union {Cardinality(M)})
      BY FS_EmptySet, FS_AddElement, FS_Singleton
    <3>2. N = {loaded} \union {Cardinality(M)}
      OBVIOUS
    <3> HIDE DEF M
    <3> QED BY <1>1, <3>1, <3>2
  <2> HIDE DEF N, M
  <2>2. Max(N) \in N /\ \A y \in N : y <= Max(N)
    BY <2>1, GreatestElement
  <2>3. loaded \in N /\ Cardinality(M) \in N
    BY DEF N
  <2>4. Max(N) \in Nat /\ loaded <= Max(N) /\ Cardinality(M) <= Max(N)
    BY <2>1, <2>2, <2>3
  <2>5. n = Max(N)
    BY DEF N
  <2> HIDE DEF n
  <2> QED BY <2>4, <2>5
<1>3. pool \in Nat /\ LeadPart \in Nat /\ ProbePart \in Nat /\ LeadPart <= pool /\ Wallet \in Nat
  BY SelectAssumption DEF SelectAssumption
<1>4. L \in SUBSET M /\ (\A s, t \in L : s = t) /\ (L # {} => n > 1)
  BY <1>1, OneLeader
<1>5. new = [s \in S |-> [bs[s] EXCEPT !.share =
           IF bs[s].probe THEN ProbePart
           ELSE IF L = {} THEN Nearest(pool, n)
           ELSE IF s \in L THEN LeadPart ELSE Nearest(pool - LeadPart, n - 1)]]
  BY DEF Shares
<1>6. \A s \in S : bs[s] \in BasketBook /\ (bs[s].probe <=> s \notin M)
  BY DEF GoodBooks, Mains
<1> HIDE DEF n, pool, L, new
<1>7. \A s \in S : f[s] = IF s \notin M THEN ProbePart
                          ELSE IF L = {} THEN Nearest(pool, n)
                          ELSE IF s \in L THEN LeadPart ELSE Nearest(pool - LeadPart, n - 1)
  <2> HIDE DEF M
  <2> QED BY <1>5, <1>6 DEF BasketBook
<1>8. \A s \in S : h[s] = IF s \notin M THEN 0
                          ELSE IF L = {} THEN Nearest(pool, n)
                          ELSE IF s \in L THEN LeadPart ELSE Nearest(pool - LeadPart, n - 1)
  <2>1. Nearest(pool, n) \in Int
    BY <1>2, <1>3, NearestFits
  <2>2. L # {} => Nearest(pool - LeadPart, n - 1) \in Int
    <3> SUFFICES ASSUME L # {} PROVE Nearest(pool - LeadPart, n - 1) \in Int
      OBVIOUS
    <3>1. pool - LeadPart \in Nat /\ n - 1 \in Nat \ {0}
      BY <1>2, <1>3, <1>4
    <3> DEFINE p == pool - LeadPart
               k == n - 1
    <3>2. p \in Nat /\ k \in Nat \ {0} /\ k <= k
      BY <3>1
    <3> HIDE DEF p, k
    <3>3. Nearest(p, k) \in Nat
      BY <3>2, NearestFits
    <3> QED BY <3>3 DEF p, k
  <2>3. \A s \in S : (s \in P <=> s \notin M) /\ h[s] = f[s] - (IF s \in P THEN ProbePart ELSE 0)
    BY <1>1
  <2> HIDE DEF h, f, M, P
  <2> QED BY <1>3, <1>7, <2>1, <2>2, <2>3
<1>9. h = [s \in S |-> f[s] - g[s]] /\ (\A s \in S : g[s] = IF s \in P THEN ProbePart ELSE 0)
  OBVIOUS
<1> HIDE DEF h, M, P, g
<1>10. /\ 2 * SumFunctionOnSet(h, S) <= 2 * pool + Cardinality(M)
       /\ SumFunctionOnSet(h, S) \in Int /\ \A s \in S : h[s] \in Nat
  <2>1. \A s \in S : h[s] = PoolShare(s, M, L, pool, n, LeadPart)
    BY <1>8 DEF PoolShare
  <2>2. PoolShared(h, S, M, L, pool, n, LeadPart)
    <3> HIDE DEF f, S
    <3> QED BY <1>1, <1>2, <1>3, <1>4, <2>1 DEF PoolShared
  <2> HIDE DEF f, S
  <2> QED BY <2>2, PoolFits
<1>11. SumFunctionOnSet(g, S) <= ProbePart /\ SumFunctionOnSet(g, S) \in Int
  <2>1. \A s \in S : g[s] \in Int /\ g[s] <= (IF s \in P THEN ProbePart ELSE 0)
    BY <1>3, <1>9
  <2>2. Cardinality(P) = 0 \/ Cardinality(P) = 1
    BY OneProbe DEF P
  <2>3. P \in SUBSET S
    BY <1>1
  <2> HIDE DEF S
  <2>4. SumFunctionOnSet(g, S) <= Cardinality(P) * ProbePart
    BY <1>1, <1>3, <2>1, <2>3, SumBounded
  <2>5. SumFunctionOnSet(g, S) \in Int
    BY <1>1, <2>1, SumIsInt
  <2> QED BY <1>3, <2>2, <2>4, <2>5
<1>12. \A s \in S : f[s] \in Nat /\ g[s] \in Int /\ h[s] = f[s] - g[s]
  <2>1. \A s \in S : h[s] \in Nat /\ (IF s \in M THEN f[s] = h[s] ELSE f[s] = ProbePart)
    BY <1>7, <1>8, <1>10
  <2>2. \A s \in S : f[s] \in Nat /\ g[s] \in Int
    BY <1>3, <1>9, <2>1
  <2> QED BY <1>9, <2>2
<1>13. 2 * SumFunctionOnSet(f, S) <= 2 * Wallet + Cardinality(S)
  <2> HIDE DEF f, S
  <2>1. SumFunctionOnSet(h, S) = SumFunctionOnSet(f, S) - SumFunctionOnSet(g, S)
    <3>1. \A s \in S : f[s] \in Int /\ g[s] \in Int /\ h[s] = f[s] - g[s]
      BY <1>12
    <3> QED BY <1>1, <3>1, SumDifference
  <2>2. SumFunctionOnSet(f, S) \in Int
    <3>1. \A s \in S : f[s] \in Int
      BY <1>12
    <3> QED BY <1>1, <3>1, SumIsInt
  <2>3. Cardinality(M) <= Cardinality(S) /\ Cardinality(S) \in Nat
    BY <1>1, FS_Subset, FS_CardinalityType
  <2>4. 2 * SumFunctionOnSet(f, S) <= 2 * pool + 2 * ProbePart + Cardinality(M)
    BY <1>1, <1>3, <1>10, <1>11, <2>1, <2>2
  <2> QED BY <1>1, <1>3, <2>2, <2>3, <2>4 DEF pool
<1>14. DOMAIN new = S
  BY <1>5
<1>15. FitsWallet(new)
  BY <1>13, <1>14 DEF SharesOf, FitsWallet
<1>16. GoodBooks(new)
  <2>1. \A s \in S : new[s] = [bs[s] EXCEPT !.share = f[s]]
    BY <1>5, <1>6 DEF BasketBook
  <2>2. \A s \in S : new[s] \in BasketBook /\ new[s].probe = bs[s].probe
    <3> HIDE DEF f
    <3> QED BY <1>6, <1>12, <2>1 DEF BasketBook
  <2>3. Probes(new) = Probes(bs)
    BY <1>14, <2>2 DEF Probes, Mains
  <2>4. new = [s \in DOMAIN new |-> new[s]]
    BY <1>5
  <2> QED BY <1>1, <1>14, <2>2, <2>3, <2>4 DEF GoodBooks
<1> QED BY <1>14, <1>15, <1>16 DEF new

\* A scan marks books, and leaves them the books they are.
LEMMA MarkedGood ==
    ASSUME GoodBooks(basket), NEW rows, NEW out, NEW trial
    PROVE  GoodBooks(Marked(rows, out, trial)) /\ DOMAIN Marked(rows, out, trial) = DOMAIN basket
<1> DEFINE new == Marked(rows, out, trial)
           leave(s) == IF basket[s].leave = "no"
                  THEN (IF s \in Flagged(rows) THEN "wind"
                        ELSE IF s \in out THEN "evicted"
                        ELSE IF s \in trial.end THEN "ended" ELSE "no")
                  ELSE IF basket[s].leave = "wind" /\ rows[s].row \in {"entry", "closed"} THEN "no" ELSE basket[s].leave
           up(s) == basket[s].promote \/ s \in trial.up
<1>1. new = [s \in DOMAIN basket |-> [basket[s] EXCEPT !.leave = leave(s), !.promote = up(s)]]
  BY Zenon DEF Marked
<1>2. \A s \in DOMAIN basket : basket[s] \in BasketBook
  BY DEF GoodBooks
<1>3. \A s \in DOMAIN basket : leave(s) \in Reasons /\ up(s) \in BOOLEAN
  BY <1>2 DEF BasketBook, Reasons
<1> HIDE DEF leave, up, new
<1>4. DOMAIN new = DOMAIN basket /\ \A s \in DOMAIN basket : new[s] \in BasketBook /\ new[s].probe = basket[s].probe
  BY <1>1, <1>2, <1>3 DEF BasketBook
<1>5. Probes(new) = Probes(basket) /\ new = [s \in DOMAIN new |-> new[s]]
  BY <1>1, <1>4 DEF Probes, Mains
<1> QED BY <1>4, <1>5 DEF GoodBooks, new

\* Some of the books are books.
LEMMA RestrictGood ==
    ASSUME NEW bs, GoodBooks(bs), NEW D, D \subseteq DOMAIN bs
    PROVE  GoodBooks(Restrict(bs, D)) /\ DOMAIN Restrict(bs, D) = D
<1> DEFINE new == Restrict(bs, D)
<1>1. new = [s \in D |-> bs[s]]
  BY DEF Restrict
<1> HIDE DEF new
<1>2. DOMAIN new = D /\ (\A s \in D : new[s] = bs[s]) /\ Probes(new) \subseteq Probes(bs)
  BY <1>1 DEF Probes, Mains
<1>3. new = [s \in DOMAIN new |-> new[s]]
  BY <1>1
<1> QED BY <1>2, <1>3 DEF GoodBooks, new

\* What is filled up is made of the books that stayed and of what opens, and of something.
LEMMA FilledGood ==
    ASSUME NEW bs, GoodBooks(bs), loaded \in Nat \ {0}, NEW adds, NEW probe,
           adds \subseteq Symbols, probe \subseteq Symbols, \A s, t \in probe : s = t,
           NEW fresh \in Filled(bs, adds, probe)
    PROVE  /\ GoodBooks(fresh) /\ DOMAIN fresh \subseteq DOMAIN bs \union adds \union probe
           /\ DOMAIN bs # {} \/ adds # {} \/ probe # {} => DOMAIN fresh # {}
<1> DEFINE free == loaded - Cardinality(Mains(bs))
           raised == {s \in Probes(bs) : bs[s].promote /\ free > 0}
           risen == [s \in DOMAIN bs |->
                    IF s \in raised THEN [bs[s] EXCEPT !.probe = FALSE, !.promote = FALSE] ELSE bs[s]]
           begun == IF Probes(risen) = {} THEN probe ELSE {}
           room == free - Cardinality(raised)
           With(new) == [s \in DOMAIN bs \union new \union begun |->
                           IF s \in new THEN MainBook ELSE IF s \in begun THEN ProbeBook ELSE risen[s]]
<1>1. Filled(bs, adds, probe) = {With(new) : new \in Foremost(adds, room)}
  BY Zenon DEF Filled
<1>2. PICK new \in Foremost(adds, room) : fresh = With(new)
  <2> HIDE DEF With, room
  <2> QED BY <1>1
<1>3. new \subseteq adds
  BY <1>2, ForemostIn
<1>4. \A s \in DOMAIN bs : bs[s] \in BasketBook
  BY DEF GoodBooks
<1> HIDE DEF raised, room
<1>5. DOMAIN risen = DOMAIN bs /\ \A s \in DOMAIN bs : risen[s] \in BasketBook /\ (risen[s].probe => bs[s].probe)
  BY <1>4 DEF BasketBook
<1>6. Probes(risen) \subseteq Probes(bs)
  BY <1>5 DEF Probes, Mains
<1> HIDE DEF risen
<1>7. begun \subseteq probe /\ (Probes(risen) # {} => begun = {}) /\ (Probes(risen) = {} => begun = probe)
  OBVIOUS
<1> HIDE DEF begun
<1>8. DOMAIN fresh = DOMAIN bs \union new \union begun
      /\ \A s \in DOMAIN fresh : fresh[s] = IF s \in new THEN MainBook ELSE IF s \in begun THEN ProbeBook ELSE risen[s]
  BY <1>2
<1>9. MainBook \in BasketBook /\ ProbeBook \in BasketBook /\ ~MainBook.probe /\ ProbeBook.probe
  BY DEF MainBook, ProbeBook, BasketBook, Reasons
<1>10. \A s \in DOMAIN fresh : fresh[s] \in BasketBook
  BY <1>5, <1>8, <1>9
<1>11. Probes(fresh) \subseteq begun \union Probes(risen)
  BY <1>5, <1>8, <1>9 DEF Probes, Mains
<1>12. \A s, t \in Probes(fresh) : s = t
  BY <1>6, <1>7, <1>11 DEF GoodBooks
<1>13. fresh = [s \in DOMAIN fresh |-> fresh[s]]
  BY <1>2
<1>14. DOMAIN fresh \subseteq Symbols
  BY <1>3, <1>7, <1>8 DEF GoodBooks
<1>15. ASSUME DOMAIN bs = {}, adds # {} \/ probe # {} PROVE DOMAIN fresh # {}
  <2>1. Mains(bs) = {} /\ Probes(bs) = {} /\ raised = {}
    BY <1>15 DEF Mains, Probes, raised
  <2>2. Cardinality({}) = 0
    BY FS_EmptySet
  <2>3. room \in Int /\ room > 0
    BY <2>1, <2>2 DEF room
  <2>4. adds # {} => new # {}
    BY <1>2, <2>3, ForemostOf
  <2>5. begun = probe
    BY <1>6, <1>7, <2>1
  <2> QED BY <1>8, <1>15, <2>4, <2>5
<1> QED BY <1>3, <1>7, <1>8, <1>10, <1>12, <1>13, <1>14, <1>15 DEF GoodBooks

\* The last book goes only where another opens.
LEMMA DroppedLeaves ==
    ASSUME NEW bs, NEW flats, flats \subseteq DOMAIN bs, NEW opening, NEW gone \in Dropped(bs, flats, opening)
    PROVE  gone \subseteq DOMAIN bs /\ (gone = DOMAIN bs => DOMAIN bs = {} \/ opening # {})
BY DEF Dropped

\* What a scan puts on file, from the symbols it marks, drops and opens.
LEMMA ScanLeaves ==
    ASSUME SelectInv, loaded # 0, NEW after \in Found
    PROVE  /\ GoodBooks(after.books) /\ DOMAIN after.books # {} /\ FitsWallet(after.books)
           /\ "cool" \in DOMAIN after.state /\ after.state.cool = selectState.cool \union after.aside
           /\ after.state.cool \intersect DOMAIN after.books = {}
           /\ selectState.cool \intersect DOMAIN after.books = {}
<1>1. PICK rows \in SelectScans : after \in Settlements(rows)
  BY DEF Found
<1> DEFINE Out(surplus, trial) == Evicted(rows) \union surplus \union trial.out
           Books(surplus, trial) == Marked(rows, Out(surplus, trial), trial)
           Leavers(m) == {s \in DOMAIN m : IsLeaving(m, s)}
           Outcome(m, o, gone, fresh) ==
             [books |-> Shares(rows, fresh), aside |-> {s \in gone : m[s].leave # "wind"},
              state |->
               [streak |-> IF DOMAIN fresh \ DOMAIN m = {} THEN o.streak ELSE Zero,
                pstreak |-> IF DOMAIN fresh \ DOMAIN m = {} THEN o.pstreak ELSE Zero,
                evict |-> [s \in Symbols |-> EvictStreak(rows, s)],
                opens |-> selectState.opens + Cardinality(DOMAIN fresh \ DOMAIN m),
                cool |-> selectState.cool \union {s \in gone : m[s].leave # "wind"}]]
           OnGone(m, o, gone) ==
             {Outcome(m, o, gone, fresh) : fresh \in Filled(Restrict(m, DOMAIN m \ gone), o.adds, o.probe)}
           Gone(m, o) == UNION {Dropped(m, flats, o.adds \union o.probe) : flats \in SUBSET Leavers(m)}
           OnOpen(m, o) == UNION {OnGone(m, o, gone) : gone \in Gone(m, o)}
           Offers(surplus, trial) == Openings(rows, Flagged(rows) \union Out(surplus, trial), trial.end)
           OnTrial(surplus, trial) == UNION {OnOpen(Books(surplus, trial), o) : o \in Offers(surplus, trial)}
<1>2. Settlements(rows) = UNION {OnTrial(surplus, trial) :
         surplus \in Surplus(rows), trial \in UNION {Trials(rows, aged) : aged \in BOOLEAN}}
  BY DEF Settlements
<1>3. PICK surplus \in Surplus(rows), trial \in UNION {Trials(rows, aged) : aged \in BOOLEAN} :
         after \in OnTrial(surplus, trial)
  <2> HIDE DEF OnTrial
  <2> QED BY <1>1, <1>2
<1>4. PICK o \in Offers(surplus, trial) : after \in OnOpen(Books(surplus, trial), o)
  <2> HIDE DEF OnOpen, Offers, Books
  <2> QED BY <1>3
<1> DEFINE m == Books(surplus, trial)
<1>5. PICK gone \in Gone(m, o) : after \in OnGone(m, o, gone)
  <2> HIDE DEF OnGone, Gone, m
  <2>1. after \in OnOpen(m, o)
    BY <1>4 DEF m
  <2> QED BY <2>1
<1>6. PICK fresh \in Filled(Restrict(m, DOMAIN m \ gone), o.adds, o.probe) : after = Outcome(m, o, gone, fresh)
  <2> HIDE DEF Outcome, m
  <2> QED BY <1>5
<1>7. PICK flats \in SUBSET Leavers(m) : gone \in Dropped(m, flats, o.adds \union o.probe)
  <2> HIDE DEF Leavers, m
  <2> QED BY <1>5
<1> DEFINE B == DOMAIN basket
           cand == Candidate(rows, Flagged(rows) \union Out(surplus, trial))
<1>8. GoodBooks(basket) /\ B # {} /\ selectState.cool \intersect B = {} /\ loaded \in Nat \ {0}
  BY SelectAssumption DEF SelectInv, SelectAssumption
<1>9. GoodBooks(m) /\ DOMAIN m = B
  BY <1>8, MarkedGood
<1>10. /\ o.adds \subseteq cand /\ o.probe \subseteq cand /\ (\A s, t \in o.probe : s = t)
  <2> HIDE DEF cand, Out
  <2> QED BY <1>4, OpensNew DEF cand
<1>11. cand \subseteq Symbols /\ cand \intersect B = {} /\ cand \intersect selectState.cool = {}
  BY DEF Candidate
<1> HIDE DEF m, cand
<1>12. gone \subseteq B /\ (gone = B => o.adds # {} \/ o.probe # {})
  <2>1. flats \subseteq DOMAIN m
    OBVIOUS
  <2>2. gone \subseteq DOMAIN m /\ (gone = DOMAIN m => DOMAIN m = {} \/ o.adds \union o.probe # {})
    BY <1>7, <2>1, DroppedLeaves
  <2> QED BY <1>8, <1>9, <2>2
<1> DEFINE rest == Restrict(m, DOMAIN m \ gone)
<1>13. GoodBooks(rest) /\ DOMAIN rest = B \ gone
  BY <1>9, <1>12, RestrictGood
<1> HIDE DEF rest
<1>14. /\ GoodBooks(fresh) /\ DOMAIN fresh \subseteq (B \ gone) \union o.adds \union o.probe
       /\ B \ gone # {} \/ o.adds # {} \/ o.probe # {} => DOMAIN fresh # {}
  <2>1. fresh \in Filled(rest, o.adds, o.probe)
    BY <1>6 DEF rest
  <2>2. o.adds \subseteq Symbols /\ o.probe \subseteq Symbols
    BY <1>10, <1>11
  <2>3. /\ GoodBooks(fresh) /\ DOMAIN fresh \subseteq DOMAIN rest \union o.adds \union o.probe
        /\ DOMAIN rest # {} \/ o.adds # {} \/ o.probe # {} => DOMAIN fresh # {}
    BY <1>8, <1>10, <1>13, <2>1, <2>2, FilledGood
  <2> QED BY <1>13, <2>3
<1>15. DOMAIN fresh # {}
  BY <1>8, <1>12, <1>14
<1>16. /\ after.books = Shares(rows, fresh) /\ "cool" \in DOMAIN after.state
       /\ after.state.cool = selectState.cool \union after.aside /\ after.aside \subseteq gone
  BY <1>6
<1>17. GoodBooks(after.books) /\ DOMAIN after.books = DOMAIN fresh /\ FitsWallet(after.books)
  BY <1>8, <1>14, <1>16, SharesGood
<1>18. DOMAIN after.books \intersect (selectState.cool \union gone) = {}
  BY <1>8, <1>10, <1>11, <1>12, <1>14, <1>17
<1> QED BY <1>15, <1>16, <1>17, <1>18

\* The basket from its first book to every turn of the job.
LEMMA SelectStarts == SelectInit => SelectInv
<1> SUFFICES ASSUME SelectInit PROVE SelectInv
  OBVIOUS
<1>1. PICK s \in Symbols : basket = [x \in {s} |-> MainBook]
  BY DEF SelectInit
<1>2. DOMAIN basket = {s} /\ \A x \in DOMAIN basket : basket[x] = MainBook
  BY <1>1
<1>3. GoodBooks(basket)
  <2>1. MainBook \in BasketBook /\ ~MainBook.probe
    BY DEF MainBook, BasketBook, Reasons
  <2>2. Probes(basket) = {}
    BY <1>2, <2>1 DEF Probes, Mains
  <2>3. basket = [x \in DOMAIN basket |-> basket[x]]
    BY <1>1
  <2> QED BY <1>2, <2>1, <2>2, <2>3 DEF GoodBooks
<1>4. SharesOf(basket) = 0
  <2> DEFINE f == [x \in DOMAIN basket |-> basket[x].share]
  <2>1. \A x \in DOMAIN basket : f[x] = 0
    BY <1>2 DEF MainBook
  <2>2. IsFiniteSet(DOMAIN basket)
    BY <1>2, FewBooks
  <2> HIDE DEF f
  <2>3. SumFunctionOnSet(f, DOMAIN basket) = 0
    BY <2>1, <2>2, SumOfZeros
  <2> QED BY <2>3 DEF SharesOf, f
<1>5. Wallet \in Nat
  BY SelectAssumption DEF SelectAssumption
<1>6. FitsWallet(basket)
  <2>1. Cardinality(DOMAIN basket) \in Nat
    BY <1>2, FewBooks
  <2> QED BY <1>4, <1>5, <2>1 DEF FitsWallet
<1> QED BY <1>2, <1>3, <1>6 DEF SelectInit, SelectInv

\* A turn of the job keeps what the strengthening says.
LEMMA SelectSteps == SelectInv /\ [SelectNext]_selectVars => SelectInv'
<1> SUFFICES ASSUME SelectInv, [SelectNext]_selectVars PROVE SelectInv'
  OBVIOUS
<1>1. CASE Loads
  BY <1>1 DEF Loads, SelectInv, asideVars, GoodBooks, FitsWallet, SharesOf, Probes, Mains
<1>2. CASE SettlesScan
  <2>1. PICK after \in Found : WritesParams(after.books) /\ due' = due \union after.aside
                             /\ (Keeps(after) \/ Dies(after))
    BY <1>2 DEF SettlesScan
  <2>2. /\ GoodBooks(after.books) /\ DOMAIN after.books # {} /\ FitsWallet(after.books)
        /\ "cool" \in DOMAIN after.state /\ after.state.cool = selectState.cool \union after.aside
        /\ after.state.cool \intersect DOMAIN after.books = {}
        /\ selectState.cool \intersect DOMAIN after.books = {}
    BY <1>2, ScanLeaves DEF SettlesScan
  <2>3. basket' = after.books /\ loaded' = 0 /\ slots' \in SlotCounts
    BY <1>2, <2>1 DEF WritesParams, SettlesScan, SelectInv
  <2>4. GoodBooks(basket)' /\ (DOMAIN basket)' # {} /\ FitsWallet(basket)'
    BY <2>2, <2>3 DEF GoodBooks, FitsWallet, SharesOf, Probes, Mains
  <2>5. selectState' = after.state \/ selectState' = selectState
    BY <2>1 DEF Keeps, Dies
  <2>6. "cool" \in DOMAIN selectState' /\ selectState'.cool \intersect DOMAIN basket' = {}
    BY <2>2, <2>3, <2>5 DEF SelectInv
  <2>7. due' \subseteq selectState'.cool \union forgot'
    BY <2>1, <2>2 DEF Keeps, Dies, SelectInv
  <2> QED BY <2>3, <2>4, <2>6, <2>7 DEF SelectInv
<1>3. CASE OwnerEdits
  BY <1>3 DEF OwnerEdits, SelectInv, asideVars, GoodBooks, FitsWallet, SharesOf, Probes, Mains
<1>4. CASE DayTurns
  BY <1>4 DEF DayTurns, SelectInv, asideVars, GoodBooks, FitsWallet, SharesOf, Probes, Mains
<1>5. ASSUME NEW s \in Symbols, CoolingEnds(s) PROVE SelectInv'
  BY <1>5 DEF CoolingEnds, SelectInv, asideVars, GoodBooks, FitsWallet, SharesOf, Probes, Mains
<1>6. CASE UNCHANGED selectVars
  BY <1>6 DEF selectVars, SelectInv, asideVars, GoodBooks, FitsWallet, SharesOf, Probes, Mains
<1> QED BY <1>1, <1>2, <1>3, <1>4, <1>5, <1>6 DEF SelectNext

\* The basket is never empty, its books' shares add up to no more than the wallet and
\* their rounding, and what was set aside trades nothing new before its cooldown is over,
\* but for what a death forgot; whatever the slots, the symbols, the shares and what a
\* scan finds.
THEOREM WalletHolds == SelectSpec => []BasketShared
<1>1. SelectInv => BasketShared
  <2> SUFFICES ASSUME SelectInv PROVE BasketShared
    OBVIOUS
  <2>1. Cardinality(Probes(basket)) <= 1
    <3>1. Cardinality(Probes(basket)) \in 0..1
      BY OneProbe DEF SelectInv
    <3> QED BY <3>1
  <2>2. 2 * SumFunctionOnSet([s \in DOMAIN basket |-> basket[s].share], DOMAIN basket)
          <= 2 * Wallet + Cardinality(DOMAIN basket)
    BY DEF SelectInv, FitsWallet, SharesOf
  <2>3. SetAside
    BY DEF SelectInv, SetAside, StaysOut
  <2> QED BY <2>1, <2>2, <2>3 DEF SelectInv, WalletShared, BasketShared
<1> QED BY <1>1, SelectStarts, SelectSteps, PTL DEF SelectSpec
=============================================================================
