------------------------------- MODULE ArxRisk -------------------------------
(***************************************************************************)
(* The durable loss state of the ARX campaign and the gate it puts before  *)
(* every entry (DurableRiskState in track_special/arx_campaign/risk/       *)
(* engine.py).  The record keeps the source's names.  Equity is a small    *)
(* integer, time is counted in days, and a week is DaysPerWeek days; the   *)
(* record is saved and loaded whole, so a restart leaves it as it is.      *)
(***************************************************************************)
EXTENDS Integers, FiniteSetsExt

CONSTANTS LastDay, DaysPerWeek,     \* bounds of the clock
          StartEquity, MaxEquity,   \* bounds of the equity
          MaxFlow,                  \* bound on the net external flow
          DailyLossCap, WeeklyLossCap, CampaignLossCap, DrawdownCap,
          LossStreakLimit,
          CooldownAfterLoss         \* in days

ASSUME RiskAssumption ==
  /\ {LastDay, DaysPerWeek, LossStreakLimit, StartEquity} \subseteq Nat \ {0}
  /\ {DailyLossCap, WeeklyLossCap, CampaignLossCap, DrawdownCap} \subseteq Nat \ {0}
  /\ {MaxEquity, MaxFlow, CooldownAfterLoss} \subseteq Nat

VARIABLES
  durable,   \* the DurableRiskState record
  today,     \* the local day
  equity,    \* the account's equity
  granted,   \* the last step approved an entry
  trips      \* what was ever tripped: the day, the week, for good, until when

riskVars == <<durable, today, equity, granted, trips>>

Never == -1
WeekOf(d) == d - (d % DaysPerWeek)
Larger(a, b) == IF a > b THEN a ELSE b

RiskInit ==
  /\ durable = [day |-> Never, week_start |-> Never, day_equity_start |-> 0,
                week_equity_start |-> 0, high_water |-> 0, consecutive_losses |-> 0,
                state |-> "NORMAL", contributions |-> 0, permanent_halt |-> FALSE,
                cooldown_until |-> Never, periodic_halt_day |-> Never,
                periodic_halt_week |-> Never]
  /\ today = 0
  /\ equity = StartEquity
  /\ granted = FALSE
  /\ trips = [day |-> Never, week |-> Never, ever |-> FALSE, until |-> Never]

\* roll: the boundaries of the day and the week, and the high water, all of the
\* equity adjusted by the contributions.
Rolled(worth, flow) ==
  LET paid == durable.contributions + flow
      adjusted == worth - paid
  IN [durable EXCEPT
        !.contributions = paid,
        !.day = today,
        !.day_equity_start = IF durable.day = today THEN @ ELSE adjusted,
        !.week_start = WeekOf(today),
        !.week_equity_start = IF durable.week_start = WeekOf(today) THEN @ ELSE adjusted,
        !.high_water = IF @ = 0 THEN adjusted ELSE Larger(@, adjusted)]

\* The limits the rolled record violates.  The campaign's net result is what
\* the adjusted equity lost or won since the start.
Reasons(d, worth) ==
  LET adjusted == worth - d.contributions
  IN {r \in {"DAILY", "WEEKLY", "CAMPAIGN", "DRAWDOWN"} :
        \/ r = "DAILY" /\ d.day_equity_start - adjusted >= DailyLossCap
        \/ r = "WEEKLY" /\ d.week_equity_start - adjusted >= WeeklyLossCap
        \/ r = "CAMPAIGN" /\ adjusted - StartEquity <= -CampaignLossCap
        \/ r = "DRAWDOWN" /\ d.high_water - adjusted >= DrawdownCap}

\* gate: a violated limit is remembered until someone may lift it.
Gated(d, reasons) ==
  IF reasons = {} THEN d
  ELSE [d EXCEPT
          !.state = "EXIT_ONLY",
          !.periodic_halt_day = IF "DAILY" \in reasons THEN today ELSE @,
          !.periodic_halt_week = IF "WEEKLY" \in reasons THEN WeekOf(today) ELSE @,
          !.permanent_halt = @ \/ reasons \intersect {"CAMPAIGN", "DRAWDOWN"} # {}]

TripsAfter(reasons) ==
  [trips EXCEPT !.day = IF "DAILY" \in reasons THEN today ELSE @,
                !.week = IF "WEEKLY" \in reasons THEN WeekOf(today) ELSE @,
                !.ever = @ \/ reasons \intersect {"CAMPAIGN", "DRAWDOWN"} # {}]

\* gate() with an external flow, or, for an entry, assess() with no flow of its
\* own: the entry goes on only when nothing is violated and nothing is kept.
Gate(flow, entry) ==
  LET d == Rolled(equity + flow, flow)
      reasons == Reasons(d, equity + flow)
  IN /\ d.contributions \in -MaxFlow..MaxFlow
     /\ equity' = equity + flow
     /\ durable' = Gated(d, reasons)
     /\ trips' = TripsAfter(reasons)
     /\ granted' = (entry /\ reasons = {} /\ durable.state = "NORMAL")
     /\ UNCHANGED today

ExternalFlow(flow) == equity + flow \in 0..MaxEquity /\ Gate(flow, FALSE)
AssessEntry == Gate(0, TRUE)

\* apply_cycle: a streak of losses stops the entries, with a cooldown only when
\* the caller gives the time.
ApplyCycle(lost, stamped) ==
  LET streak == IF lost THEN durable.consecutive_losses + 1 ELSE 0
      tripped == streak >= LossStreakLimit
      until == today + CooldownAfterLoss
  IN /\ streak <= LossStreakLimit
     /\ durable' = [durable EXCEPT
                      !.consecutive_losses = streak,
                      !.state = IF tripped THEN "EXIT_ONLY" ELSE @,
                      !.cooldown_until = IF tripped /\ stamped THEN until ELSE @]
     /\ trips' = IF tripped /\ stamped THEN [trips EXCEPT !.until = until] ELSE trips
     /\ granted' = FALSE
     /\ UNCHANGED <<today, equity>>

\* A mutant: the day of the halt itself counts as over.
MayResumeSameDay ==
  /\ ~durable.permanent_halt
  /\ today >= durable.cooldown_until
  /\ today >= durable.periodic_halt_day
  /\ durable.periodic_halt_week # Never => WeekOf(today) > durable.periodic_halt_week

MayResume ==
  /\ ~durable.permanent_halt
  /\ today >= durable.cooldown_until
  /\ durable.periodic_halt_day # Never => today > durable.periodic_halt_day
  /\ durable.periodic_halt_week # Never => WeekOf(today) > durable.periodic_halt_week

AttemptPeriodicResume ==
  /\ MayResume
  /\ durable' = [durable EXCEPT !.state = "NORMAL", !.periodic_halt_day = Never,
                                !.periodic_halt_week = Never, !.consecutive_losses = 0]
  /\ granted' = FALSE
  /\ UNCHANGED <<today, equity, trips>>

NextDay ==
  /\ today < LastDay
  /\ today' = today + 1
  /\ granted' = FALSE
  /\ UNCHANGED <<durable, equity, trips>>

MarketMoves ==
  /\ equity' \in {equity - 1, equity + 1} \intersect 0..MaxEquity
  /\ granted' = FALSE
  /\ UNCHANGED <<durable, today, trips>>

RiskNext ==
  \/ AssessEntry \/ AttemptPeriodicResume \/ NextDay \/ MarketMoves
  \/ \E flow \in {-2, 2} : ExternalFlow(flow)
  \/ \E lost, stamped \in BOOLEAN : ApplyCycle(lost, stamped)

RiskSpec == RiskInit /\ [][RiskNext]_riskVars

----------------------------------------------------------------------------
RiskTypeOK ==
  /\ durable.state \in {"NORMAL", "EXIT_ONLY"}
  /\ durable.consecutive_losses \in 0..LossStreakLimit
  /\ durable.contributions \in -MaxFlow..MaxFlow
  /\ today \in 0..LastDay /\ equity \in 0..MaxEquity /\ granted \in BOOLEAN

\* Once a limit was reached, no entry is approved for the rest of that day or
\* week, never again after a campaign or drawdown limit, and not before the
\* cooldown of a loss streak is over: whatever resumes, new days, deposits and
\* further results came in between.
NoApprovalWhileTripped ==
  granted => /\ trips.day # today
             /\ trips.week # WeekOf(today)
             /\ ~trips.ever
             /\ today >= trips.until
=============================================================================
