------------------------------- MODULE MCLoops -------------------------------
\* Three loops side by side: that of the Track A-2 runtime, and those of the jobs that
\* choose the coins of Tracks A and B.  They share no state: part says which one runs.
\* Identifiers of orders are uuids and so interchangeable; so are two coins.
EXTENDS A2Drive, Hunt, Select, TLC

CONSTANTS c1, c2, c3

VARIABLE part

\* c1 and c2 move together, c3 on its own.
Clusters == c1 :> "x" @@ c2 :> "x" @@ c3 :> "y"

MCInit ==
  /\ part \in {"runtime", "hunt", "select"} /\ Init /\ HuntInit /\ SelectInit
  /\ part # "select" => slots = Max(SlotCounts) /\ DOMAIN basket = {c3}

MCNext ==
  /\ part' = part
  /\ \/ part = "runtime" /\ Next /\ UNCHANGED <<huntVars, selectVars>>
     \/ part = "hunt" /\ HuntNext /\ UNCHANGED <<vars, selectVars>>
     \/ part = "select" /\ SelectNext /\ UNCHANGED <<vars, huntVars>>

MCSpec == MCInit /\ [][MCNext]_<<part, vars, huntVars, selectVars>>

Pair == Permutations({c1, c2})
=============================================================================
