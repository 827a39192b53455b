-------------------------------- MODULE MCArx --------------------------------
\* The components of the ARX campaign side by side, the promise of an order ledger and the
\* strategy of a book of the A/B engine.
\* They share no state: part says which one runs, so the state space is the sum of theirs.
EXTENDS ArxEngine, ArxRisk, ArxSizing, ArxLedger, ArxStrategy, ArxPaper, OrderLedger,
  Strategy, TLC

CONSTANTS e1, r1, r2

VARIABLE part

EngineQuantity == e1 :> 2 @@ r1 :> 1 @@ r2 :> 2

LedgerBills ==
  { [kind |-> "REALIZED_PNL", ref |-> "t1", amount |-> 3],
    [kind |-> "REALIZED_PNL", ref |-> "t2", amount |-> -2],
    [kind |-> "FEE", ref |-> "t1", amount |-> -1] }

\* Books and candidates under wide limits, and what each limit may be instead.
SizingBooks ==
  [ lots : {<<>>, << [quantity |-> 2, price |-> 10] >>},
    reserved : {<<>>, << [quantity |-> 2, price |-> 11, fee |-> 1, funding |-> 0] >>,
                << [quantity |-> 1, price |-> 7, fee |-> 0, funding |-> 1],
                   [quantity |-> 1, price |-> 12, fee |-> 1, funding |-> 0] >>},
    realized : {-3, 2}, current : {0}, heldFunding : {1}, stageFilled : {6},
    quantity : {3, 5}, price : {12}, fee : {1}, funding : {0, 1}, stop : {8, 9}, mark : {11},
    exitCost : {1}, exitFee : {2}, refused : {FALSE},
    maximum : {4}, minimum : {2}, minNotional : {0, 30}, leverage : {2},
    available : {99}, lossCap : {99}, firstCap : {99}, givebackCap : {99}, grossCap : {99},
    notionalCap : {99}, marginCap : {99}, stageCap : {99}, fundingCap : {99} ]

Tight ==
  [ available |-> 30, lossCap |-> 26, firstCap |-> 24, givebackCap |-> 28, grossCap |-> 32,
    notionalCap |-> 60, marginCap |-> 30, stageCap |-> 50, fundingCap |-> 3 ]

\* One limit of the nine is tight, or two.
SizingRequests ==
  { [r EXCEPT ![f] = Tight[f], ![g] = Tight[g]] : r \in SizingBooks, f, g \in Limits }

Parts == {"engine", "risk", "sizing", "ledger", "strategy", "paper", "promise", "pull"}

MCInit ==
  /\ part \in Parts
  /\ EngineInit /\ RiskInit /\ LedgerInit /\ StrategyInit /\ PaperInit /\ Init
  /\ StrategyABInit
  /\ IF part = "sizing" THEN SizingInit
     ELSE request = (CHOOSE r \in SizingRequests : TRUE) /\ lower = 0 /\ upper = 0 /\ answer = -1

Still(p) ==
  CASE p = "engine"   -> UNCHANGED engineVars
    [] p = "risk"     -> UNCHANGED riskVars
    [] p = "sizing"   -> UNCHANGED sizingVars
    [] p = "ledger"   -> UNCHANGED ledgerVars
    [] p = "strategy" -> UNCHANGED strategyVars
    [] p = "paper"    -> UNCHANGED paperVars
    [] p = "promise"  -> UNCHANGED vars
    [] OTHER          -> UNCHANGED strategyABVars

MCNext ==
  /\ \A p \in Parts \ {part} : Still(p)
  /\ part' = part
  /\ \/ part = "engine" /\ EngineNext
     \/ part = "risk" /\ RiskNext
     \/ part = "sizing" /\ SizingNext
     \/ part = "ledger" /\ LedgerNext
     \/ part = "strategy" /\ StrategyNext
     \/ part = "paper" /\ PaperNext
     \/ part = "promise" /\ Next
     \/ part = "pull" /\ StrategyABNext

MCSpec == MCInit /\ [][MCNext]_<<part, engineVars, riskVars, sizingVars, ledgerVars,
                                 strategyVars, paperVars, vars,
                                 strategyABVars>>
=============================================================================
