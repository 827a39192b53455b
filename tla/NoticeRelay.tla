----------------------------- MODULE NoticeRelay -----------------------------
(***************************************************************************)
(* The outbox that tells a chat what the A-2 journal books (Relay in       *)
(* track_a_2/ops/notify.py; track_c/ops/notify.py keeps the same one).  A  *)
(* poll turns new journal rows into notices in one transaction with its    *)
(* cursor; fills of one order that come soon after each other share one    *)
(* notice; the oldest notice is posted until it is acknowledged.  The      *)
(* sender gives no token, so a lost acknowledgement means posting again.   *)
(* When a notice is due is a choice.                                       *)
(***************************************************************************)
EXTENDS Integers, Sequences, SequencesExt, FiniteSetsExt, Functions

CONSTANTS Orders,    \* client identifiers of orders
          MaxRows,   \* bound on the journal
          MaxTries   \* bound on the attempts to post one notice

ASSUME RelayAssumption == MaxRows \in Nat /\ MaxTries \in Nat

VARIABLES
  journal,   \* the order of each booked fill; a fill is one unit
  cursor,    \* the rows that became notices; -1 before the first poll
  from,      \* the rows that were there at the first poll
  queue,     \* the notices: whose fills, how many, how far
  relay,     \* "down", "up", "posting" or "posted" a notice, answered or not
  accepted   \* what the chat has seen: the notice and its content

relayVars == <<journal, cursor, from, queue, relay, accepted>>

RelayInit ==
  /\ journal = <<>> /\ cursor = -1 /\ from = 0
  /\ queue = <<>> /\ relay = "down" /\ accepted = {}

Books == 
  /\ Len(journal) < MaxRows
  /\ \E o \in Orders : journal' = Append(journal, o)
  /\ UNCHANGED <<cursor, from, queue, relay, accepted>>

\* A notice that may be posting when the process dies will be posted again.
StartsRelay ==
  /\ relay = "down" /\ relay' = "up"
  /\ queue' = [k \in DOMAIN queue |-> IF queue[k].st = "sending" THEN [queue[k] EXCEPT !.st = "pending"]
                                      ELSE queue[k]]
  /\ UNCHANGED <<journal, cursor, from, accepted>>

Notice(o, n) == [order |-> o, n |-> n, st |-> "pending", tries |-> 0]

\* The history of the first poll is not told; the connection is.
FirstPoll ==
  /\ relay = "up" /\ cursor = -1
  /\ cursor' = Len(journal) /\ from' = Len(journal)
  /\ queue' = Append(queue, Notice("boot", 0))
  /\ UNCHANGED <<journal, relay, accepted>>

\* A mutant: a notice that was tried before still grows.
MayGrowTried(r) == r.st = "pending"

MayGrow(r) == r.st = "pending" /\ r.tries = 0

\* _merge_fill: into the youngest notice of the order that may still grow.
Merge(q, o) ==
  LET open == {k \in DOMAIN q : q[k].order = o /\ MayGrow(q[k])}
  IN IF open # {} THEN [q EXCEPT ![Max(open)].n = @ + 1] ELSE Append(q, Notice(o, 1))

\* ingest: the rows read before the transaction; later ones wait for the next poll.
Poll ==
  /\ relay = "up" /\ cursor >= 0
  /\ \E upTo \in cursor+1..Len(journal) :
       /\ queue' = FoldLeft(Merge, queue, SubSeq(journal, cursor + 1, upTo))
       /\ cursor' = upTo
  /\ UNCHANGED <<journal, from, relay, accepted>>

\* deliver: the oldest that is not sent, when it is due; an attempt is written
\* down before it is made.
Unsent == {k \in DOMAIN queue : queue[k].st # "sent"}
Head1 == Min(Unsent)

Attempts ==
  /\ relay = "up" /\ Unsent # {} /\ queue[Head1].tries < MaxTries
  /\ queue' = [queue EXCEPT ![Head1].st = "sending", ![Head1].tries = @ + 1]
  /\ relay' = "posting"
  /\ UNCHANGED <<journal, cursor, from, accepted>>

Sees == accepted' = accepted \union {<<Head1, queue[Head1].n>>}

Acknowledged ==
  /\ relay = "posting" /\ Sees
  /\ relay' = "posted"
  /\ UNCHANGED <<journal, cursor, from, queue>>

\* Refused, or accepted without an answer.
NotAcknowledged ==
  /\ relay = "posting" /\ (Sees \/ UNCHANGED accepted)
  /\ queue' = [queue EXCEPT ![Head1].st = "pending"]
  /\ relay' = "up"
  /\ UNCHANGED <<journal, cursor, from>>

Sent ==
  /\ relay = "posted"
  /\ queue' = [queue EXCEPT ![Head1].st = "sent"]
  /\ relay' = "up"
  /\ UNCHANGED <<journal, cursor, from, accepted>>

CrashRelay ==
  /\ relay # "down" /\ relay' = "down"
  /\ UNCHANGED <<journal, cursor, from, queue, accepted>>

RelayNext ==
  \/ Books \/ StartsRelay \/ FirstPoll \/ Poll \/ Attempts \/ Acknowledged \/ NotAcknowledged
  \/ Sent \/ CrashRelay

RelaySpec == RelayInit /\ [][RelayNext]_relayVars

----------------------------------------------------------------------------
FillsOf(o) == {i \in from+1..cursor : journal[i] = o}
Told(q, o) == SumFunctionOnSet([k \in DOMAIN q |-> q[k].n], {k \in DOMAIN q : q[k].order = o})

\* Every fill booked since the relay first connected stands in one notice, once;
\* notices are acknowledged in order; and what the chat may have seen of a notice
\* is all there will ever be in it, however often it is posted again, so a reader
\* who drops repeated notices counts every fill once.
NoticesTellFills ==
  /\ \A o \in Orders : Told(queue, o) = Cardinality(FillsOf(o))
  /\ \A k \in DOMAIN queue : queue[k].st = "sent" => <<k, queue[k].n>> \in accepted
                                                     /\ \A j \in 1..k : queue[j].st = "sent"
  /\ \A a \in accepted : queue[a[1]].n = a[2]
=============================================================================
