------------------------------- MODULE MCBooks -------------------------------
\* The money of Track A-2, and the pool of the A/B processes beside it.  They share no
\* state: part says which one runs, so the state space is the sum of theirs.  Two engines
\* are interchangeable.
EXTENDS MCA2Ledger, Pool, TLC

VARIABLE part

MCInit == part \in {"money", "pool"} /\ (part # "pool" => cap = 1) /\ BooksInit /\ PoolInit

MCNext ==
  /\ part' = part
  /\ \/ part = "money" /\ BooksNext /\ UNCHANGED poolVars
     \/ part = "pool" /\ PoolNext /\ UNCHANGED booksVars

MCSpec == MCInit /\ [][MCNext]_<<part, booksVars, poolVars>>

EngineSymmetry == Permutations(Engines)
=============================================================================
