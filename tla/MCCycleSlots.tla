----------------------------- MODULE MCCycleSlots -----------------------------
\* CycleSlots with an order of two steps and one of a single step.
EXTENDS CycleSlots

OrderSizes == <<2, 1>>
=============================================================================
