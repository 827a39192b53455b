------------------------------- MODULE MCA2Oms -------------------------------
\* The orders of Track A-2, and the order slot of the A/B engine beside them.  They share
\* no state: part says which one runs, so the state space is the sum of theirs.
\* Identifiers are uuids and so interchangeable.
EXTENDS A2Oms, MCCycleSlots, TLC

VARIABLE part

MCInit == part \in {"orders", "slot"} /\ Init /\ SlotsInit

MCNext ==
  /\ part' = part
  /\ \/ part = "orders" /\ Next /\ UNCHANGED slotVars
     \/ part = "slot" /\ SlotsNext /\ UNCHANGED vars

MCSpec == MCInit /\ [][MCNext]_<<part, vars, slotVars>>

AnyOrder == Permutations(Ids)
=============================================================================
