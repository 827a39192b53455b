------------------------------ MODULE CycleSlots ------------------------------
(***************************************************************************)
(* The one resting order of a role ("buy" or "trim") in a live book of the *)
(* A/B engine (Book in common/cycle.py).  Two tasks share the slot: the    *)
(* consumer handles one push or tick at a time, housekeeping settles and   *)
(* resyncs; whatever awaits the exchange lets the other task go on.  Fills *)
(* and order news are two channels of the private feed, in no common       *)
(* order.  Prices and the passing of time are choices: whether the         *)
(* strategy wants another order, and whether a waiting time has passed.    *)
(***************************************************************************)
EXTENDS Integers, Sequences, SequencesExt, FiniteSets

CONSTANT Sizes  \* the orders that may be placed, each with its steps

ASSUME SlotAssumption == Sizes \in Seq(Nat \ {0})

Placed == DOMAIN Sizes
Tasks == {"consumer", "housekeeping"}

VARIABLES
  work,    \* self.work[role]
  task,    \* the call each task awaits
  started, \* the first resync is over
  sent,    \* the exchange: "none", "sent", "live", "over" or "refused"
  filled,  \* the exchange: executed steps of an order
  told,    \* fills of an order that were pushed, or lost with the feed
  news,    \* the orders channel: pushes under way
  outrun   \* orders whose record was released or counted from a REST answer the
           \* pushes had not caught up with, or that a resync left working untracked

slotVars == <<work, task, started, sent, filled, told, news, outrun>>

Empty == [o |-> 0, known |-> FALSE, pend |-> FALSE, unconfirmed |-> FALSE,
          settling |-> 0, filled |-> 0, wish |-> FALSE]
Tracked(o, n) == [Empty EXCEPT !.o = o, !.known = TRUE, !.filled = n]

NoTask == [op |-> "none", o |-> 0, view |-> <<>>, stale |-> FALSE]
Awaiting(op, o) == [NoTask EXCEPT !.op = op, !.o = o]

SlotsInit ==
  /\ work = Empty /\ task = [t \in Tasks |-> NoTask] /\ started = FALSE
  /\ sent = [o \in Placed |-> "none"] /\ filled = [o \in Placed |-> 0]
  /\ told = [o \in Placed |-> 0] /\ news = <<>> /\ outrun = {}

Consuming == started /\ task["consumer"].op = "none"
Keeping == started /\ task["housekeeping"].op = "none"
Exchange == <<sent, filled, told, news>>
Behind(o) == told[o] < filled[o]

\* The other task's call holds a record that is no longer the work's.
Returns(t) == task' = [u \in Tasks |-> IF u = t THEN NoTask ELSE task[u]]
Replaces(t) ==
  task' = [u \in Tasks |-> IF u = t \/ task[u].op = "none" THEN NoTask ELSE [task[u] EXCEPT !.stale = TRUE]]

----------------------------------------------------------------------------
(* place: the slot is taken only when the answer is there.                 *)

Place ==
  /\ Consuming /\ work = Empty
  /\ \E o \in Placed :
       /\ sent[o] = "none" /\ \A p \in Placed : p < o => sent[p] # "none"
       /\ sent' = [sent EXCEPT ![o] = "sent"]
       /\ task' = [task EXCEPT !["consumer"] = Awaiting("place", o)]
  /\ UNCHANGED <<work, started, filled, told, news, outrun>>

Placing == task["consumer"].op = "place"

PlaceAnswered ==
  /\ Placing /\ sent[task["consumer"].o] \in {"live", "over"}
  /\ work' = Tracked(task["consumer"].o, 0) /\ Replaces("consumer")
  /\ UNCHANGED <<started, outrun, Exchange>>

PlaceRefused ==
  /\ Placing /\ sent[task["consumer"].o] = "refused"
  /\ Returns("consumer")
  /\ UNCHANGED <<work, started, outrun, Exchange>>

PlaceUnconfirmed ==
  /\ Placing
  /\ work' = [Empty EXCEPT !.o = task["consumer"].o, !.unconfirmed = TRUE] /\ Replaces("consumer")
  /\ UNCHANGED <<started, outrun, Exchange>>

(* cancel, by a tick's reconcile (not while the order is being settled), a  *)
(* stop hit, a silent feed or a pending close; without an identifier it waits.*)

CancelStarts(t) ==
  /\ work # Empty
  /\ IF t = "consumer" THEN Consuming ELSE Keeping
  /\ IF work.known
     THEN task' = [task EXCEPT ![t] = Awaiting("cancel", work.o)] /\ UNCHANGED work
     ELSE work' = [work EXCEPT !.wish = TRUE] /\ UNCHANGED task
  /\ UNCHANGED <<started, outrun, Exchange>>

Canceling(t) == task[t].op = "cancel"
Holds(t) == work.o = task[t].o /\ ~task[t].stale

\* An accepted cancel takes effect when Ends does; fills may come before it.
CancelAccepted(t) ==
  /\ Canceling(t) /\ sent[task[t].o] = "live"
  /\ work' = IF Holds(t) THEN [work EXCEPT !.pend = TRUE] ELSE work
  /\ Returns(t) /\ UNCHANGED <<started, outrun, Exchange>>

\* Finished at the exchange: its fills, if any, are under way.
CancelGone(t) ==
  /\ Canceling(t) /\ sent[task[t].o] = "over"
  /\ work' = IF Holds(t) THEN [work EXCEPT !.settling = Sizes[work.o], !.pend = FALSE] ELSE work
  /\ Returns(t) /\ UNCHANGED <<started, outrun, Exchange>>

\* No answer; the cancel may have come through.
CancelFails(t) ==
  /\ Canceling(t)
  /\ Returns(t) /\ UNCHANGED <<work, started, outrun, Exchange>>

----------------------------------------------------------------------------
(* The private feed.                                                       *)

Done(w) == w.filled >= Sizes[w.o] \/ (w.settling > 0 /\ w.filled >= w.settling)

FillPushed(o) ==
  /\ Consuming /\ Behind(o)
  /\ told' = [told EXCEPT ![o] = @ + 1]
  /\ LET w == [work EXCEPT !.filled = @ + 1]
     IN work' = IF work.o # o THEN work ELSE IF Done(w) THEN Empty ELSE w
  /\ UNCHANGED <<task, started, sent, filled, news, outrun>>

\* A mutant: a finished order frees the work.
AfterFinalAtOnce(w, acc) == Empty

\* Finished before its fills were pushed: the slot waits for them.
AfterFinal(w, acc) == IF acc > w.filled THEN [w EXCEPT !.settling = acc] ELSE Empty

OrderPushed ==
  /\ Consuming /\ news # <<>>
  /\ news' = Tail(news)
  /\ LET r == Head(news)
         w == [work EXCEPT !.known = TRUE, !.unconfirmed = FALSE]
     IN CASE work.o = r.o ->
               /\ work' = IF r.final THEN AfterFinal(w, r.acc) ELSE w
               /\ UNCHANGED <<task, outrun>>
          [] work = Empty /\ ~r.final ->
               /\ work' = Tracked(r.o, r.acc) /\ Replaces("consumer")
               /\ outrun' = outrun \union (IF told[r.o] # r.acc THEN {r.o} ELSE {})
          [] OTHER -> UNCHANGED <<work, task, outrun>>
  /\ UNCHANGED <<started, sent, filled, told>>

\* Pushes are lost with the feed; a resync follows when it is up again.
FeedDrops ==
  /\ news' = <<>> /\ told' = filled
  /\ <<news', told'>> # <<news, told>>
  /\ UNCHANGED <<work, task, started, sent, filled, outrun>>

----------------------------------------------------------------------------
(* Housekeeping.                                                           *)

\* settle_orders: a submission without an answer is looked for by its clientOid,
\* and given up when it is not found for fifteen seconds.
Looks ==
  /\ Keeping /\ work.unconfirmed
  /\ task' = [task EXCEPT !["housekeeping"] = [Awaiting("look", work.o) EXCEPT !.view = <<sent[work.o] = "live">>]]
  /\ UNCHANGED <<work, started, outrun, Exchange>>

Looked ==
  LET h == task["housekeeping"]
  IN /\ h.op = "look"
     /\ \/ /\ h.view[1]
           /\ work' = IF Holds("housekeeping") THEN [work EXCEPT !.known = TRUE, !.unconfirmed = FALSE] ELSE work
           /\ task' = [task EXCEPT !["housekeeping"] =
                         IF work.wish /\ Holds("housekeeping") THEN Awaiting("cancel", work.o) ELSE NoTask]
           /\ UNCHANGED outrun
        \/ /\ ~h.view[1] /\ Returns("housekeeping")
           /\ \/ UNCHANGED <<work, outrun>>
              \/ /\ work' = Empty
                 /\ outrun' = outrun \union ({work.o, h.o} \ {0})
     /\ UNCHANGED <<started, Exchange>>

\* settle_orders: a cancel that was accepted is confirmed by the order's detail.
Asks ==
  /\ Keeping /\ work.pend
  /\ task' = [task EXCEPT !["housekeeping"] = [Awaiting("ask", work.o) EXCEPT !.view = <<sent[work.o] = "over">>]]
  /\ UNCHANGED <<work, started, outrun, Exchange>>

Asked ==
  LET h == task["housekeeping"]
  IN /\ h.op = "ask"
     /\ IF h.view[1]
        THEN /\ work' = Empty
             /\ outrun' = outrun \union {o \in {work.o, h.o} \ {0} : Behind(o) \/ o # h.o}
        ELSE /\ work' = IF Holds("housekeeping") THEN [work EXCEPT !.pend = FALSE] ELSE work
             /\ UNCHANGED outrun
     /\ Returns("housekeeping") /\ UNCHANGED <<started, Exchange>>

\* Executed, not pushed yet, and not the order of the work.
Unseen(keep) == {o \in Placed \ {keep} : Behind(o)}

\* resync: the orders the exchange lists, each with what was executed of it.
Resyncs ==
  /\ task["housekeeping"].op = "none"
  /\ task' = [task EXCEPT !["housekeeping"] =
       [NoTask EXCEPT !.op = "resync", !.view = [o \in Placed |-> IF sent[o] = "live" THEN filled[o] ELSE -1]]]
  /\ UNCHANGED <<work, started, outrun, Exchange>>

\* Orders besides the tracked one are canceled, where that gets through; what was
\* executed of them and not pushed yet is nobody's.
CancelsExtra(listed, keep, lost) ==
  /\ \E c \in SUBSET {o \in listed \ {keep} : sent[o] = "live"} :
       /\ sent' = [o \in Placed |-> IF o \in c THEN "over" ELSE sent[o]]
       /\ news' = news \o SetToSeq({[o |-> o, final |-> TRUE, acc |-> filled[o]] : o \in c})
  /\ outrun' = outrun \union Unseen(keep) \union {o \in listed \ {keep} : sent'[o] = "live"} \union lost

\* What becomes of the slot when the list is there: it takes an order over, unless
\* another is tracked; and it forgets an order that is neither listed nor awaited,
\* at once or, while its fills may be under way, later.
Resynced ==
  LET h == task["housekeeping"]
      listed == {o \in Placed : h.view[o] >= 0}
      kept == work.o
  IN /\ h.op = "resync" /\ started' = TRUE
     /\ \/ \E o \in listed :
             /\ kept \in {0, o}
             /\ work' = Tracked(o, h.view[o]) /\ Replaces("housekeeping")
             /\ CancelsExtra(listed, o, IF told[o] # h.view[o] THEN {o} ELSE {})
        \/ /\ IF kept = 0 THEN listed = {} ELSE kept \notin listed
           /\ work' = work /\ Returns("housekeeping")
           /\ CancelsExtra(listed, kept, {})
        \/ /\ kept # 0 /\ kept \notin listed /\ ~work.unconfirmed /\ ~work.pend
           /\ work' = Empty /\ Returns("housekeeping")
           /\ CancelsExtra(listed, 0, IF sent[kept] = "live" THEN {kept} ELSE {})
     /\ UNCHANGED <<filled, told>>

\* A restart remembers no order; requests under way are nobody's.
Restart ==
  /\ started /\ started' = FALSE
  /\ work' = Empty /\ task' = [t \in Tasks |-> NoTask]
  /\ told' \in {told, filled} /\ news' = <<>>
  /\ outrun' = outrun \union {o \in Placed : sent[o] = "sent"}
  /\ UNCHANGED <<sent, filled>>

----------------------------------------------------------------------------
(* The exchange.                                                           *)

Arrives(o) ==
  /\ sent[o] = "sent"
  /\ \/ sent' = [sent EXCEPT ![o] = "refused"] /\ UNCHANGED news
     \/ /\ sent' = [sent EXCEPT ![o] = "live"]
        /\ news' = Append(news, [o |-> o, final |-> FALSE, acc |-> 0])
  /\ UNCHANGED <<work, task, started, filled, told, outrun>>

Fills(o) ==
  /\ sent[o] = "live"
  /\ filled' = [filled EXCEPT ![o] = @ + 1]
  /\ LET over == filled'[o] = Sizes[o]
     IN /\ sent' = [sent EXCEPT ![o] = IF over THEN "over" ELSE "live"]
        /\ news' = Append(news, [o |-> o, final |-> over, acc |-> filled'[o]])
  /\ UNCHANGED <<work, task, started, told, outrun>>

\* Canceled: by a request of ours, by hand, or as post-only on arrival.
Ends(o) ==
  /\ sent[o] = "live"
  /\ sent' = [sent EXCEPT ![o] = "over"]
  /\ news' = Append(news, [o |-> o, final |-> TRUE, acc |-> filled[o]])
  /\ UNCHANGED <<work, task, started, filled, told, outrun>>

SlotsNext ==
  \/ Place \/ PlaceAnswered \/ PlaceRefused \/ PlaceUnconfirmed
  \/ \E t \in Tasks : CancelStarts(t) \/ CancelAccepted(t) \/ CancelGone(t) \/ CancelFails(t)
  \/ OrderPushed \/ FeedDrops
  \/ Looks \/ Looked \/ Asks \/ Asked \/ Resyncs \/ Resynced \/ Restart
  \/ \E o \in Placed : FillPushed(o) \/ Arrives(o) \/ Fills(o) \/ Ends(o)

SlotsSpec == SlotsInit /\ [][SlotsNext]_slotVars

----------------------------------------------------------------------------
Pending(o) == sent[o] \in {"sent", "live"} \/ Behind(o)

\* A role never has two orders on the way, working, or executed without being
\* booked: a remainder is not ordered again while its fills are under way,
\* whatever was unanswered, canceled or restarted, unless a REST answer outran
\* the pushes or a second order could not be canceled.
RemainderNotReordered ==
  \A o, p \in Placed \ outrun : Pending(o) /\ Pending(p) => o = p

\* "every fill the exchange counted is booked: the slot is free again"
FreedWhenBooked ==
  [][\A o \in Placed : FillPushed(o) /\ work.o = o /\ work'.o = 0
       => told'[o] = filled[o] /\ sent[o] = "over"]_slotVars
=============================================================================
