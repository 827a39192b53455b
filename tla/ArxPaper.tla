------------------------------ MODULE ArxPaper ------------------------------
(***************************************************************************)
(* The paper accumulation of the ARX campaign: decide() in                 *)
(* track_special/arx_campaign/strategy/accumulation.py, paper_step() and   *)
(* run() in accumulation.py, and the outbox of its notices in              *)
(* reporting/accumulation.py.  Every step is one transaction, so what a    *)
(* crash can separate is the sending of a notice.  Prices are multiples of *)
(* 20, the taker fee and the funding rate a twentieth, the leverage ten;   *)
(* time is counted in polls of a minute, and funding is due every Period   *)
(* of them.  What the bars signal is a choice.                             *)
(***************************************************************************)
EXTENDS Integers, FiniteSetsExt

CONSTANTS E0,        \* the equity frozen at the start
          Prices,    \* multiples of 20
          LastTime, Period,
          Depths,    \* what the book and the bar leave to buy
          MaxFills   \* bound on the number of fills

ASSUME PaperAssumption ==
  /\ E0 \in Nat \ {0} /\ Period \in Nat \ {0, 1} /\ LastTime \in Nat
  /\ Depths \subseteq Nat /\ MaxFills \in Nat
  /\ Prices \subseteq Nat \ {0} /\ \A p \in Prices : p % 20 = 0

VARIABLES
  paper,     \* the persisted paper_state
  time,      \* the exchange's clock, in polls
  polled,    \* the last step looked at the market at this time
  bookedFunding, \* the funding cost known at the last fill
  owed,      \* announced funding times that passed while holding, not booked
  outbox,    \* the state of the notice of each fill
  sending,   \* the process is in the middle of a send
  delivered  \* how often each notice reached the channel

paperVars == <<paper, time, polled, bookedFunding, owed, outbox, sending, delivered>>

Target == 10 * E0
\* The phases: the share of the target a phase fills up to, and its clip.
Phases ==
  [ BASE       |-> [upTo |-> Target \div 5, clip |-> (2 * Target) \div 5],
    PULLBACK   |-> [upTo |-> (3 * Target) \div 5, clip |-> (2 * Target) \div 5],
    COMPRESS   |-> [upTo |-> (4 * Target) \div 5, clip |-> (2 * Target) \div 5],
    ACCELERATE |-> [upTo |-> Target, clip |-> (3 * Target) \div 5] ]

Positive(n) == IF n < 0 THEN 0 ELSE n
Least(S) == CHOOSE x \in S : \A y \in S : x <= y

PaperInit ==
  /\ paper = [quantity |-> 0, notional |-> 0, fees |-> 0, funding |-> 0, terminal |-> FALSE,
              next |-> 0, last |-> 0, rate |-> 0, fills |-> 0]
  /\ time = 1 /\ polled = FALSE /\ bookedFunding = 0 /\ owed = {}
  /\ outbox = [k \in 1..MaxFills |-> "none"]
  /\ sending = 0
  /\ delivered = [k \in 1..MaxFills |-> 0]

\* Around a funding time the exchange may still announce the one just due.
Announced ==
  {(time \div Period + 1) * Period} \union (IF time % Period = 0 THEN {time} ELSE {})

----------------------------------------------------------------------------
(* paper_step: funding, stop, decision, fill.                              *)

\* A mutant: an interval that was not observed is passed over.
FundedBlindly(s, mark) ==
  LET due == s.next > 0 /\ time >= s.next /\ s.next > s.last /\ s.quantity > 0 /\ ~s.terminal
  IN IF ~due \/ time - s.next > 1 THEN s
     ELSE [s EXCEPT !.funding = @ + s.quantity * (mark \div 20) * s.rate, !.last = s.next]

\* A deadline that passed while holding is charged at the last rate seen, and
\* one that passed unobserved for over a minute ends the campaign.
Funded(s, mark) ==
  LET due == s.next > 0 /\ time >= s.next /\ s.next > s.last /\ s.quantity > 0 /\ ~s.terminal
  IN IF ~due THEN s
     ELSE IF time - s.next > 1 THEN [s EXCEPT !.terminal = TRUE]
     ELSE [s EXCEPT !.funding = @ + s.quantity * (mark \div 20) * s.rate, !.last = s.next]

\* A mutant: the fee of leaving is not set aside for the new quantity.
AffordableOneWay(s, worst, mark) ==
  Positive(E0 - s.notional \div 10 - s.fees - Positive(s.funding) - s.notional \div 20)
    \div (worst \div 10 + worst \div 20 + Positive(worst - mark))

\* The free part of the equity over what a unit commits: its margin, the fee of
\* buying and of selling it, and what it is bought above the mark.
Affordable(s, worst, mark) ==
  Positive(E0 - s.notional \div 10 - s.fees - Positive(s.funding) - s.notional \div 20)
    \div (worst \div 10 + 2 * (worst \div 20) + Positive(worst - mark))

\* The quantity decide() asks for; depth stands for the book's and the bar's.
Clip(s, phase, worst, mark, depth) ==
  Least({ Least({Phases[phase].clip, Positive(Phases[phase].upTo - s.notional)}) \div worst,
          Affordable(s, worst, mark),
          Positive(Target - s.notional) \div worst,
          depth })

\* A position far below its target is first brought to its base.
MayTake(s, phase) == phase = "BASE" <=> s.notional < Phases["BASE"].upTo

Bought(s, n, cost) ==
  [s EXCEPT !.quantity = @ + n, !.notional = @ + cost, !.fees = @ + cost \div 20,
            !.fills = @ + 1]

Commits(s, notices) ==
  /\ paper' = s
  /\ polled' = TRUE
  /\ owed' = IF s.last > paper.last THEN owed \ {s.last} ELSE owed
  /\ outbox' = notices
  /\ UNCHANGED <<time, sending, delivered>>

\* The state with its funding settled and the new rate and deadline noted.
Observed(mark, next, rate) ==
  [Funded(paper, mark) EXCEPT !.next = next, !.rate = rate]

StepWaits(mark, next, rate) ==
  /\ Commits(Observed(mark, next, rate), outbox)
  /\ UNCHANGED bookedFunding

\* The mark is at the stop or at the liquidation price.
StepExits(mark, next, rate) ==
  /\ Observed(mark, next, rate).quantity > 0
  /\ Commits([Observed(mark, next, rate) EXCEPT !.terminal = TRUE], outbox)
  /\ UNCHANGED bookedFunding

StepBuys(mark, next, rate, phase, worst, paid, depth) ==
  LET s == Observed(mark, next, rate)
      n == Clip(s, phase, worst, mark, depth)
  IN /\ ~s.terminal /\ s.fills < MaxFills
     /\ MayTake(s, phase)
     /\ n > 0 /\ paid <= worst
     /\ Commits(Bought(s, n, n * paid), [outbox EXCEPT ![s.fills + 1] = "pending"])
     /\ bookedFunding' = Positive(s.funding)

\* One poll of run() that succeeds; a poll that fails leaves everything as it was.
Poll ==
  /\ sending = 0 /\ ~polled
  /\ \E mark \in Prices, next \in Announced, rate \in -1..1 :
       \/ StepWaits(mark, next, rate)
       \/ StepExits(mark, next, rate)
       \/ \E phase \in DOMAIN Phases, worst, paid \in Prices, depth \in Depths :
            StepBuys(mark, next, rate, phase, worst, paid, depth)

TimePasses ==
  /\ time < LastTime
  /\ time' = time + 1
  /\ polled' = FALSE
  /\ owed' = IF time + 1 = paper.next /\ paper.quantity > 0 /\ ~paper.terminal
             THEN owed \union {time + 1} ELSE owed
  /\ UNCHANGED <<paper, bookedFunding, outbox, sending, delivered>>

----------------------------------------------------------------------------
(* The outbox: flush() sends the oldest pending notice of the runner.       *)

Pending == {k \in DOMAIN outbox : outbox[k] = "pending"}

FlushStarts ==
  /\ sending = 0 /\ Pending # {}
  /\ sending' = Least(Pending)
  /\ outbox' = [outbox EXCEPT ![Least(Pending)] = "sending"]
  /\ UNCHANGED <<paper, time, polled, bookedFunding, owed, delivered>>

FlushEnds(reached, state) ==
  /\ sending # 0
  /\ outbox' = [outbox EXCEPT ![sending] = state]
  /\ delivered' = [delivered EXCEPT ![sending] = @ + (IF reached THEN 1 ELSE 0)]
  /\ sending' = 0
  /\ UNCHANGED <<paper, time, polled, bookedFunding, owed>>

\* Only a definite refusal for now is tried again.
FlushReturns ==
  \/ FlushEnds(TRUE, "sent")
  \/ \E reached \in BOOLEAN : FlushEnds(reached, "unknown")
  \/ \E state \in {"pending", "failed"} : FlushEnds(FALSE, state)

\* A mutant: a restart sends again what it was sending.
AfterRestartAgain(state) == IF state = "sending" THEN "pending" ELSE state

AfterRestart(state) == IF state = "sending" THEN "unknown" ELSE state

\* A crash, the notice having reached the channel or not, and the restart.
CrashAndRestart ==
  /\ \E reached \in IF sending = 0 THEN {FALSE} ELSE BOOLEAN :
       delivered' = [k \in DOMAIN delivered |->
                       delivered[k] + (IF reached /\ k = sending THEN 1 ELSE 0)]
  /\ sending' = 0
  /\ outbox' = [k \in DOMAIN outbox |-> AfterRestart(outbox[k])]
  /\ UNCHANGED <<paper, time, polled, bookedFunding, owed>>

PaperNext == Poll \/ TimePasses \/ FlushStarts \/ FlushReturns \/ CrashAndRestart

PaperSpec == PaperInit /\ [][PaperNext]_paperVars

----------------------------------------------------------------------------
\* No funding is silently valued as zero: after every poll, each funding time
\* that was announced and passed while the position was held is charged, or the
\* campaign is over.
FundingSettled == polled => owed = {} \/ paper.terminal

\* The equity frozen at the start pays for the margin of everything bought, the
\* fees paid, the funding known at the last fill and the fee of selling it all.
BudgetCoversExit ==
  paper.notional \div 10 + paper.fees + paper.notional \div 20 + bookedFunding <= E0

\* Each fill has its notice, and none reaches the channel twice, whatever
\* answers are lost and wherever the runner dies.
FillsNotifiedOnce ==
  \A k \in 1..MaxFills : /\ delivered[k] <= 1
                         /\ outbox[k] # "none" <=> k <= paper.fills

\* The paper book adds up: funding, budget and notices.
PaperBooks == FundingSettled /\ BudgetCoversExit /\ FillsNotifiedOnce
=============================================================================
