--------------------------- MODULE OrderLedgerProofs ---------------------------
(***************************************************************************)
(* That any order manager which implements OrderLedger keeps the promise,   *)
(* for every set of identifiers and sides.                                  *)
(***************************************************************************)
EXTENDS OrderLedger, TLAPS

\* The promise is inductive once two more things are said: an order the venue
\* has never seen has nothing executed, and each side has one owned order.
NothingBeforeAccept == \A c \in Ids : atVenue[c] = "never" => done[c] = 0 /\ booked[c] = 0

OneOwnedPerSide ==
    \A c, d \in Ids : slot[c] = "owned" /\ slot[d] = "owned" /\ side[c] = side[d] => c = d

Inv == TypeOK /\ LiveIsOwned /\ BooksAreHonest /\ NothingBeforeAccept /\ OneOwnedPerSide

\* The first states of the contract keep it.
LEMMA InitInv == Init => Inv
  BY PromiseAssumption DEF Init, Inv, TypeOK, LiveIsOwned, BooksAreHonest,
     NothingBeforeAccept, OneOwnedPerSide, PromiseAssumption

\* Each step of the contract keeps it.
LEMMA NextInv == Inv /\ [Next]_vars => Inv'
<1> USE PromiseAssumption DEF PromiseAssumption
<1> SUFFICES ASSUME Inv, [Next]_vars PROVE Inv'
  OBVIOUS
<1>1. CASE UNCHANGED vars
  BY <1>1 DEF vars, Inv, TypeOK, LiveIsOwned, BooksAreHonest, NothingBeforeAccept, OneOwnedPerSide
<1>2. ASSUME NEW c \in Ids, NEW s \in Sides, Commit(c, s) PROVE Inv'
  <2>1. (TypeOK /\ LiveIsOwned /\ BooksAreHonest /\ NothingBeforeAccept)'
    BY <1>2 DEF Commit, Inv, TypeOK, LiveIsOwned, BooksAreHonest, NothingBeforeAccept
  <2>2. OneOwnedPerSide'
    BY <1>2 DEF Commit, Inv, TypeOK, OneOwnedPerSide
  <2> QED BY <2>1, <2>2 DEF Inv
<1>3. ASSUME NEW c \in Ids, Accept(c) \/ Execute(c) \/ End(c) PROVE Inv'
  <2>1. CASE Accept(c)
    BY <2>1 DEF Accept, Inv, TypeOK, LiveIsOwned, BooksAreHonest, NothingBeforeAccept, OneOwnedPerSide
  <2>2. CASE Execute(c)
    BY <2>2 DEF Execute, Inv, TypeOK, LiveIsOwned, BooksAreHonest, NothingBeforeAccept, OneOwnedPerSide
  <2>3. CASE End(c)
    BY <2>3 DEF End, Inv, TypeOK, LiveIsOwned, BooksAreHonest, NothingBeforeAccept, OneOwnedPerSide
  <2> QED BY <1>3, <2>1, <2>2, <2>3
<1>4. ASSUME NEW c \in Ids, Book(c) PROVE Inv'
  <2>1. (TypeOK /\ LiveIsOwned /\ BooksAreHonest /\ NothingBeforeAccept)'
    BY <1>4 DEF Book, Inv, TypeOK, LiveIsOwned, BooksAreHonest, NothingBeforeAccept
  <2>2. OneOwnedPerSide'
    BY <1>4 DEF Book, Inv, TypeOK, OneOwnedPerSide
  <2> QED BY <2>1, <2>2 DEF Inv
<1>5. ASSUME NEW c \in Ids, Drop(c) \/ Forget(c) PROVE Inv'
  <2>1. CASE Drop(c)
    BY <2>1 DEF Drop, Inv, TypeOK, LiveIsOwned, BooksAreHonest, NothingBeforeAccept, OneOwnedPerSide
  <2>2. CASE Forget(c)
    BY <2>2 DEF Forget, Inv, TypeOK, LiveIsOwned, BooksAreHonest, NothingBeforeAccept, OneOwnedPerSide
  <2> QED BY <1>5, <2>1, <2>2
<1> QED BY <1>1, <1>2, <1>3, <1>4, <1>5 DEF Next

\* The strengthening says what the contract promises.
LEMMA InvIsPromise == Inv => Promise
  BY DEF Inv, Promise, LiveIsOwned, OneLivePerSide, OneOwnedPerSide

\* Whoever keeps this contract never has two orders of a side at work at the
\* venue, never loses an execution and never books one that was not there.
THEOREM PromiseKept == Spec => []Promise
<1>1. Spec => []Inv
  BY InitInv, NextInv, PTL DEF Spec
<1> QED BY <1>1, InvIsPromise, PTL
=============================================================================
