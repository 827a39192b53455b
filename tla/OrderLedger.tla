----------------------------- MODULE OrderLedger -----------------------------
(***************************************************************************)
(* The promise an order manager makes about the orders of one coin at one   *)
(* venue, as the header of track_a_2/execution/oms.py words it: intent is   *)
(* committed before transmission, cumulative executions are applied once,   *)
(* and an order keeps its slot until the venue's own record of it is booked *)
(* to the end, whatever was or was not answered in between.                 *)
(*                                                                         *)
(* The venue and the ledger see each other only through these actions: how  *)
(* requests travel, are lost or repeated is the business of the refinement. *)
(***************************************************************************)
EXTENDS Integers

CONSTANTS
    Ids,        \* order identifiers
    Sides,      \* sides that may each have one order working
    MaxQty      \* the largest order

ASSUME PromiseAssumption == MaxQty \in Nat

VARIABLES
    slot,       \* the ledger: "free", "owned" or "released"
    side,       \* the side an owned or released order was committed for
    atVenue,    \* the venue: "never" seen, "live" or "over"
    done,       \* the venue: cumulative executed quantity
    booked      \* the ledger: cumulative quantity applied

vars == <<slot, side, atVenue, done, booked>>

NoSide == "none"

Init ==
    /\ slot = [c \in Ids |-> "free"]
    /\ side = [c \in Ids |-> NoSide]
    /\ atVenue = [c \in Ids |-> "never"]
    /\ done = [c \in Ids |-> 0]
    /\ booked = [c \in Ids |-> 0]

\* The order is written down, and takes the one slot of its side.
Commit(c, s) ==
    /\ slot[c] = "free"
    /\ \A d \in Ids : slot[d] = "owned" => side[d] # s
    /\ slot' = [slot EXCEPT ![c] = "owned"]
    /\ side' = [side EXCEPT ![c] = s]
    /\ UNCHANGED <<atVenue, done, booked>>

\* The venue takes an order only from the ledger that still owns it.
Accept(c) ==
    /\ slot[c] = "owned" /\ atVenue[c] = "never"
    /\ atVenue' = [atVenue EXCEPT ![c] = "live"]
    /\ UNCHANGED <<slot, side, done, booked>>

Execute(c) ==
    /\ atVenue[c] = "live" /\ done[c] < MaxQty
    /\ done' = [done EXCEPT ![c] = @ + 1]
    /\ UNCHANGED <<slot, side, atVenue, booked>>

End(c) ==
    /\ atVenue[c] = "live"
    /\ atVenue' = [atVenue EXCEPT ![c] = "over"]
    /\ UNCHANGED <<slot, side, done, booked>>

\* The ledger catches up with the venue, and lets go only of what is over.
Book(c) ==
    /\ slot[c] = "owned" /\ atVenue[c] # "never"
    /\ booked' = [booked EXCEPT ![c] = done[c]]
    /\ slot' = [slot EXCEPT ![c] = IF atVenue[c] = "over" THEN "released" ELSE "owned"]
    /\ UNCHANGED <<side, atVenue, done>>

\* A mutant: an order without an answer is dropped, wherever it is.
DropUnanswered(c) ==
    /\ slot[c] = "owned" /\ booked[c] = 0
    /\ slot' = [slot EXCEPT ![c] = "released"]
    /\ UNCHANGED <<side, atVenue, done, booked>>

\* The order is known never to reach the venue.
Drop(c) ==
    /\ slot[c] = "owned" /\ atVenue[c] = "never"
    /\ slot' = [slot EXCEPT ![c] = "released"]
    /\ UNCHANGED <<side, atVenue, done, booked>>

\* A settled order leaves the ledger; its identifier stands for a new one.
Forget(c) ==
    /\ slot[c] = "released"
    /\ slot' = [slot EXCEPT ![c] = "free"]
    /\ side' = [side EXCEPT ![c] = NoSide]
    /\ atVenue' = [atVenue EXCEPT ![c] = "never"]
    /\ done' = [done EXCEPT ![c] = 0]
    /\ booked' = [booked EXCEPT ![c] = 0]

Next == \E c \in Ids :
    \/ \E s \in Sides : Commit(c, s)
    \/ Accept(c) \/ Execute(c) \/ End(c) \/ Book(c) \/ Drop(c) \/ Forget(c)

Spec == Init /\ [][Next]_vars

----------------------------------------------------------------------------
(* What every ledger that keeps the promise can count on. *)

TypeOK ==
    /\ slot \in [Ids -> {"free", "owned", "released"}]
    /\ side \in [Ids -> Sides \cup {NoSide}]
    /\ atVenue \in [Ids -> {"never", "live", "over"}]
    /\ done \in [Ids -> 0..MaxQty]
    /\ booked \in [Ids -> 0..MaxQty]

\* The venue never works an order the ledger has let go of, so whatever it
\* executes will still be booked.
LiveIsOwned == \A c \in Ids : atVenue[c] = "live" => slot[c] = "owned"

\* The venue never works two orders of one side at once: a lost answer or a
\* cancel that was only asked for never lets a second one through.
OneLivePerSide ==
    \A c, d \in Ids : atVenue[c] = "live" /\ atVenue[d] = "live" /\ side[c] = side[d] => c = d

\* The ledger never books what has not been executed, and misses nothing of
\* an order it has let go of.
BooksAreHonest == \A c \in Ids :
    /\ booked[c] <= done[c]
    /\ slot[c] # "owned" => booked[c] = done[c]

\* What the users of submit(), reconcile() and cancel() rely on.
Promise == LiveIsOwned /\ OneLivePerSide /\ BooksAreHonest
=============================================================================
