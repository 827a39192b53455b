------------------------------ MODULE ArxSizing ------------------------------
(***************************************************************************)
(* How much of an entry the aggregate risk approves: RiskEngine.assess in  *)
(* track_special/arx_campaign/risk/engine.py, for one book and one         *)
(* candidate.  Money and quantities are integers with the step as unit;    *)
(* fees and funding are given per unit, which makes the scaling of a       *)
(* candidate's totals exact, and margins are kept times the leverage.  The *)
(* reasons that refuse an entry whatever its size are one flag, and every  *)
(* reservation is of the candidate's stage.                                *)
(***************************************************************************)
EXTENDS Integers, FiniteSetsExt, Functions

CONSTANTS Requests   \* the books with their candidates and limits

VARIABLES request,        \* the one assessed
          lower, upper,   \* between which steps the search still looks
          answer          \* the approved quantity, -1 before the assessment

sizingVars == <<request, lower, upper, answer>>

\* A request: the filled long lots and the active reservations, the campaign's realized
\* and current net result; the candidate (quantity, worst fill, fee and funding a unit),
\* the stressed stop and the mark, the cost of selling a unit at the stop, the fixed exit
\* fee and the funding of what is held; the bounds of the order; the limits.
Sizes == {"quantity", "price", "fee", "funding", "stop", "mark", "exitCost", "exitFee",
          "heldFunding", "stageFilled", "maximum", "minimum", "minNotional", "leverage"}
Limits == {"available", "lossCap", "firstCap", "givebackCap", "grossCap", "notionalCap",
           "marginCap", "stageCap", "fundingCap"}

ASSUME SizingAssumption ==
  \A r \in Requests :
    /\ IsFiniteSet(DOMAIN r.lots) /\ IsFiniteSet(DOMAIN r.reserved)
    /\ \A i \in DOMAIN r.lots : r.lots[i].quantity \in Nat /\ r.lots[i].price \in Nat
    /\ \A i \in DOMAIN r.reserved, f \in {"quantity", "price", "fee", "funding"} : r.reserved[i][f] \in Nat
    /\ \A f \in Sizes \union Limits : r[f] \in Nat
    /\ r.realized \in Int /\ r.current \in Int

AtLeast0(n) == IF n < 0 THEN 0 ELSE n
LargerOf(a, b) == IF a > b THEN a ELSE b
SmallerOf(a, b) == IF a < b THEN a ELSE b

Sum(F(_), s) == SumFunctionOnSet([i \in DOMAIN s |-> F(s[i])], DOMAIN s)

Candidate(r, approved) ==
  [quantity |-> approved, price |-> r.price, fee |-> r.fee, funding |-> r.funding]

\* totals(approved): everything filled, everything reserved at its worst fill,
\* and the candidate, all sold at the stop.
Totals(r, approved) ==
  LET empty == r.lots = <<>> /\ r.reserved = <<>>
      heldFunding == IF r.lots = <<>> THEN 0 ELSE r.heldFunding
      exitFee == IF approved = 0 /\ empty THEN 0 ELSE r.exitFee
      candidate == Candidate(r, approved)
      LotGain(x) == x.quantity * (r.stop - x.price - r.exitCost)
      LotLoss(x) == x.quantity * (AtLeast0(x.price - r.stop) + r.exitCost)
      OwnCost(x) == x.fee + x.funding + r.exitCost
      Gain(x) == x.quantity * (r.stop - x.price - OwnCost(x))
      Loss(x) == x.quantity * (AtLeast0(x.price - r.stop) + OwnCost(x))
      Notional(x) == x.quantity * r.mark
      Margin(x) == x.quantity * LargerOf(r.mark, x.price)
      Commitment(x) == Margin(x) + r.leverage * (x.quantity * x.fee)
      Funding(x) == x.quantity * x.funding
      Spent(x) == x.quantity * x.price
      Pending(F(_)) == Sum(F, r.reserved) + F(candidate)
      pnl == r.realized - heldFunding + Sum(LotGain, r.lots) + Pending(Gain) - exitFee
  IN [ principal |-> AtLeast0(-pnl),
       first     |-> IF empty THEN AtLeast0(-pnl) ELSE 0,
       giveback  |-> AtLeast0(r.current - pnl),
       gross     |-> heldFunding + Sum(LotLoss, r.lots) + Pending(Loss) + exitFee,
       notional  |-> Sum(Notional, r.lots) + Pending(Notional),
       margin    |-> Sum(Notional, r.lots) + Pending(Margin),
       stage     |-> r.stageFilled + Pending(Spent),
       funding   |-> heldFunding + Pending(Funding),
       committed |-> Pending(Commitment) ]

\* failures(approved), without the minimum notional and the liquidation price.
CapsExceeded(r, t) ==
  {cap \in {"loss", "first", "giveback", "gross", "notional", "margin", "stage", "funding", "available"} :
     \/ cap = "loss" /\ t.principal > r.lossCap
     \/ cap = "first" /\ t.first > r.firstCap
     \/ cap = "giveback" /\ t.giveback > r.givebackCap
     \/ cap = "gross" /\ t.gross > r.grossCap
     \/ cap = "notional" /\ t.notional > r.notionalCap
     \/ cap = "margin" /\ t.margin > r.marginCap * r.leverage
     \/ cap = "stage" /\ t.stage > r.stageCap
     \/ cap = "funding" /\ t.funding > r.fundingCap
     \/ cap = "available" /\ t.committed > r.available * r.leverage}

\* A mutant: an entry may fill the margin that is reserved already.
FailuresFree(r, approved) == CapsExceeded(r, Totals([r EXCEPT !.reserved = <<>>], approved))

Failures(r, approved) == CapsExceeded(r, Totals(r, approved))

Units(r) == SmallerOf(r.quantity, r.maximum)

SizingInit == request \in Requests /\ lower = 0 /\ upper = Units(request) /\ answer = -1

\* The binary search over the steps.
Halves ==
  /\ answer = -1 /\ lower < upper
  /\ LET middle == (lower + upper + 1) \div 2
     IN IF Failures(request, middle) = {}
        THEN lower' = middle /\ UNCHANGED upper
        ELSE upper' = middle - 1 /\ UNCHANGED lower
  /\ UNCHANGED <<request, answer>>

\* What was found is tested once more, now with the bounds from below.
Assesses ==
  /\ answer = -1 /\ lower = upper
  /\ answer' = IF \/ request.refused \/ lower < request.minimum
                  \/ lower * request.price < request.minNotional
                  \/ Failures(request, lower) # {}
               THEN 0 ELSE lower
  /\ UNCHANGED <<request, lower, upper>>

SizingNext == Halves \/ Assesses

SizingSpec == SizingInit /\ [][SizingNext]_sizingVars

----------------------------------------------------------------------------
\* What the campaign loses from here when the part q of the candidate and the parts
\* fill[i] of the reservations are bought and all is sold at the stop.
Shortfall(r, q, fill) ==
  LET PerUnit(x) == x.price - r.stop + x.fee + x.funding + r.exitCost
      LotShort(x) == x.quantity * (x.price - r.stop + r.exitCost)
  IN r.exitFee + (IF r.lots = <<>> THEN 0 ELSE r.heldFunding) + Sum(LotShort, r.lots)
     + SumFunctionOnSet([i \in DOMAIN r.reserved |-> fill[i] * PerUnit(r.reserved[i])], DOMAIN r.reserved)
     + q * PerUnit(Candidate(r, q))

\* The margin, times the leverage, and the fees that these purchases take.
Taken(r, q, fill) ==
  LET PerUnit(x) == x.price + r.leverage * x.fee
  IN SumFunctionOnSet([i \in DOMAIN r.reserved |-> fill[i] * PerUnit(r.reserved[i])], DOMAIN r.reserved)
     + q * PerUnit(Candidate(r, q))

AllFilled(r) == [i \in DOMAIN r.reserved |-> r.reserved[i].quantity]

PartialFills(r) ==
  {f \in [DOMAIN r.reserved -> 0..Max({0} \union Range(AllFilled(r)))] :
     \A i \in DOMAIN f : f[i] <= r.reserved[i].quantity}

\* An approval is safe whatever fills: no part of the candidate and of the reservations,
\* sold at the stop, loses more than the gross cap or takes more than what is available,
\* and the whole loses no more of the campaign's principal than its cap.  And it is not
\* smaller than it must be: one step more, within the candidate and the quantity limits,
\* would violate a cap.
ApprovalIsLargestSafe ==
  LET r == request
      approved == answer
  IN approved > 0 =>
       /\ \A q \in 0..approved, fill \in PartialFills(r) :
            Shortfall(r, q, fill) <= r.grossCap /\ Taken(r, q, fill) <= r.available * r.leverage
       /\ Shortfall(r, approved, AllFilled(r)) - r.realized <= r.lossCap
       /\ approved <= Units(r)
       /\ approved < Units(r) => Failures(r, approved + 1) # {}
=============================================================================
