------------------------------ MODULE MCA2Drive ------------------------------
(* A2Drive on a few orders; identifiers are uuids, so they are interchangeable. *)
EXTENDS A2Drive, TLC

AnyOrder == Permutations(Ids)
=============================================================================
