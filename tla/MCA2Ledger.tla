----------------------------- MODULE MCA2Ledger -----------------------------
(* A2Ledger for TLC: three orders, each with a price of its own, so that    *)
(* sales gain or lose and the average differs from every lot's price.       *)
EXTENDS A2Ledger

MCPrice == <<5, 2, 3>>
=============================================================================
