# Trading room: a verification development

TLA+ modules, TLC configurations and TLAPS proofs for the trading engines of
this repository.  The program runs several independent trading tracks: A and B
(futures, `common/cycle.py`), A-2 (spot, one small account, `track_a_2/`), C
(spot, several coins, `track_c/`) and the ARX campaign (paper,
`track_special/arx_campaign/`).  Each track is one long-lived process, or one
per symbol, that polls an exchange over HTTP, keeps its orders and its money in
a store of its own, and has to survive lost answers, late fills and its own
restarts.

**Track A-2** is modelled in most detail: it is the track with real money, the
most careful order journal and the most demanding recovery rules
(`track_a_2/README.md`, "Orders, accounting and recovery").  The order paths of
Track C, of the ARX engine and of the A/B engine, the capital pool the A/B
processes share, and the jobs that choose their coins have models of their own.
Paths below are relative to `src/`.

Contents: 1 inventory, 2 modules, 3 runs, 4 bounds, 5 fairness, 6 proofs,
7 where code and documents differ, 8 what is not modelled, 9 plan.

## 1. Inventory

### Track A-2 (`track_a_2/`)

| Component | State | Operations | Interacts with |
| --- | --- | --- | --- |
| Order manager, orders: `execution/oms.py` | journal of orders (status, role, quantity, cumulative fill, cancel attempts), lots, campaign, halt | `submit`, `reconcile`, `cancel`, `apply`, `finish_flat`, archive after the settlement window | client (`execution/client.py`), store (`execution/store.py`): every change is saved with its event in one transaction |
| Order manager, accounting: same file | cash, realized P&L, external flows, day counters, campaign P&L and budget, lots and cost | `apply` (buy, sell, late correction), `_record_pnl`, `sync_account`, `roll_day`, `finish_flat` | exchange balance and order detail, which may show fee and value late |
| Runtime: `runtime.py`, `live.py` | the book's plan (`desired_stop`, `exit_reason`, `cooldown_until`), `stopping` | `run`, `drive`, `refresh_account`, `shutdown_ready` | order manager, feed, strategy |
| Basket, sizing and guards: `select.py`, `_discover`, `_buy_cap`, `can_buy`, `validate_intent` | the selected and the watched coins | which coins, how much, and whether | read the whole state |
| Market data: `market/` | last books and trades | websocket frames, scans | runtime reads snapshots |
| Private stream: `execution/private_stream.py` | none durable | wakes the loop, asks for a fresh balance | runtime, account freshness |
| Notices: `ops/` | outbox with a cursor | merge, send, retry | event table of the store |
| Preflight, status, observers, replay | reports, recordings | read only or offline | — |

What is hard here: a request without an answer may have been accepted,
refused or lost; an order goes on executing while the loop decides; a cancel
is only a wish; a fee may be charged before it is reported; the process may
die between any two calls; the exit has to cancel the protection before it can
sell; the loop may only stop when what is held is protected; a scan of the
market is asked for in one turn and applied in another.  What makes it
correct: no two orders of one side, nothing sold that is not held, every fill
booked once, money explained by history, adds only behind confirmed
protection, a reason to leave never forgotten, every exposed coin driven and
paid for, inventory protected or sold again whatever goes wrong, and an orderly
stop.

### Track C (`track_c/`)

Order manager and portfolio (`execution/oms.py`, `portfolio.py`,
`accounting.py`): one campaign per coin with entry, protect, take and exit
orders, unsellable rests kept per coin, and one cash and risk ledger shared by
all coins.  The live books (`live.py`) settle a rest by adding it to the coin's
residual; the branches of the order manager that hand a residual to the next
campaign belong to a resting take mode the live plans never set.  A second
process, `ops/recover.py`, brings a coin to rest when the runtime is down.
Hard: the two saves at the end of a campaign (a crash between them leaves one
holding in the campaign and in the residual), a racing fill that leaves an
unsellable rest, several entries against one budget.  Correct when reservations
never exceed cash or risk, each holding is counted once whatever the crash, a
campaign that is over leaves nothing working, and the recovery reports the
truth.  Stream and rate limiter are the environment; learning, market features,
replay and reports are numerical or offline.

### ARX campaign (`track_special/arx_campaign/`)

The engine (`execution/engine.py`) reserves, submits, cancels and reconciles
over SQLite; the ledger (`ledger/store.py`) has idempotent event identities and
allocates new highs; risk (`risk/engine.py`) has durable day and week halts that
only a named action relaxes, and finds the largest safe size; the strategy
(`strategy/engine.py`) goes through phases with harvests; the paper accumulation
(`accumulation.py`) buys within a frozen budget and tells of its fills.  Hard: a
cancel that races a fill, restart reconciliation, retried reservations,
duplicate bills, harvests that fill in parts, notices sent twice.  Correct when
an order is sent at most once, finished means finished, overlapping reductions
fit the position, a tripped limit lets no entry through, and a posting happens
once.

### Tracks A and B (`common/`, `track_a/`, `track_b/`)

Per-symbol engine (`common/cycle.py`: books, resting orders, exchange stop,
settling of unconfirmed orders), capital pool of the basket (same file: claims
of several processes in one file under an exclusive lock, leases, sweep,
adoption), strategy state machine (`common/signal.py`), and the two jobs that
write the engines' parameters: `track_a/select.py` and `track_b/hunt.py`.  Hard:
two tasks that await the exchange over one slot, fills and order news in two
channels, a lock file left by a dead process, sweeps over a stale snapshot, two
saves of a job with a death in between.  Correct when a role never has two
orders that may fill, a close by hand is not taken for a stop, at most `cap`
campaigns are open within the limit of the day, the ladder is never exceeded, a
late exit is taken, and shares, slots and cooldowns hold.

`track_c_multivenue/` compares recordings offline.

The hazards of this code that a test would hardly reach are listed one by one,
with their source lines and the properties that catch them, in `PROJECT.json`.

## 2. Modules

```
OrderLedger            the promise: what any order manager owes its user
    ^  refinement (KeepsPromise)              ^  refinement (KeepsPromise)
A2Oms   orders of one coin, network,        TrackC    orders of one coin of
    ^   exchange, crashes                             Track C, with recovery
    |   INSTANCE (every step of A2Drive on orders is a step of A2Oms)
A2Drive     the loop of the runtime for one coin
    ^  EXTENDS
A2DriveLive the same loop with boundedly many setbacks and fairness

A2Ledger         money of one coin        TrackCPortfolio  money of several coins
A2Basket         coins and cash of A-2    NoticeRelay      outbox of notices
ArxEngine, ArxRisk, ArxSizing, ArxLedger, ArxStrategy, ArxPaper
CycleSlots, CycleStops, Pool, Strategy    the A/B engine
Hunt, Select                              the jobs that choose coins
```

`A2Oms` and `A2Ledger` are two views of the same file.  The first keeps every
call, answer and crash and knows quantities only; the second takes for granted
what the first shows (one order a side, sales within the lots) and keeps every
amount.  Together in one model they would be out of TLC's reach, and no
property needs both.

Models that share no state are checked in one run: `MCBooks`, `MCA2Oms`, `MCArx`,
`MCTrackC` and `MCLoops` choose in `part` which of theirs runs, so the state space
is the sum of the parts and not their product.  Which models share a run says
nothing of the system; the runs are of about one length.

Variables marked as ghosts below record that something went wrong which the
code cannot undo; a property then speaks of the states without it, and section 7
says what the thing is.

### OrderLedger (abstract)

Three facts per order: what the ledger thinks of its slot (free, owned,
released), what the venue does with it (never seen, live, over), and how much
is executed and booked.  The ledger may drop only an order that can no longer
reach the venue and lets go only of one booked to its end.  `Promise` says what
follows: what is live is owned, each side has at most one live order, the books
are never ahead of the venue, and never behind once an order is let go.

### A2Oms

| Model | Code |
| --- | --- |
| `ord` | `state.orders`: status, role, quantity, cumulative fill, campaign, cancel attempts; `none` after archival |
| `held` | `quantity()`, the sum of the lots |
| `campaign`, `halted` | `book.campaign_id`, `state.halt` |
| `call` | the call the worker thread is in: between the saved intent and the request (`guard`), waiting for the answer (`sent`), waiting for a cancel (`cancel`) |
| `wire`, `ex`, `coins` | requests under way, the exchange's orders and its balance (external) |
| `SubmitIntent`, `Expire`, `Transmit`, `AnswerOk/Refused/Lost` | `submit()` in its order: save the intent, guard, send, classify the answer |
| `Reconcile`, `ReconcileOverdue`, `Archive` | `reconcile()`: detail and `apply()`, halt of an overdue order, end of the settlement window |
| `CancelStart`, `CancelEnd` | `cancel()`: the attempt is saved, then sent; whatever was acknowledged, the detail decides |
| `Halt` | `halt()`, wherever the runtime calls it |
| `FinishFlat`, `Crash` | `finish_flat()`; death at any point and a restart from the store |

A detail query and the `apply()` of its answer are one step: the cumulatives of
the exchange only grow and no other thread books, so a fill between query and
apply is the same as a fill after apply.  The clocks (`reconcile_halt_s`,
`settlement_reconcile_s`, retry delays) are choices: each may be over or not
whenever it is asked.  `TRIGGERED` and `LIVE` of the journal are one status,
for nothing treats them differently.

### A2Ledger

`acct` is the account part of the state (cash, realized, flows and the day's
share), `book` the lots with quantity and cost, `camp` the campaign, `journal`
the orders with the cumulatives applied to each, `hist` the sum of the P&L
events, `exchange` the exchange with what its detail shows now and what it
still owes.  `ApplyBuy`, `ApplySell`, `ApplyCorrection` are the three ways
through `apply()`.  The fourth, a late correction for a campaign that is over,
has two saves in the code (`_record_pnl` saves its own event) and so two steps,
`SaveLatePnl` and `FinishLate`; `pend` names the order in between, and
`CrashInApply` may come there.  Decimal amounts become small integers; where
the code rounds (the basis of a partial sale, the inventory part of a
correction, the share of a budget), the model divides and rounds in the same
direction.  The account is an isolated one, as `portfolio_isolation_required`
in `track_a_2/config.json` asks.  `outside`, `late` and `cuts` are what is left
of the bounds.

### A2Drive

One turn of `run()`: reconcile and account (`pc = "turn"`), `drive()` in one
step (`Drive`) with all its branches in the order of the code (partly filled
buy, unwinding, exit, trim, stale trim, protection, entry), the one submit or
the round of cancels it ends with (`pc = "flat"`, `todo`), and `EndTurn` with
`finish_flat()` and the way out.  `ApiError` is a turn in which the balance
query raises; an escaped exception ends the process and is a `Crash`.  Prices
are a bid above or below the stop, or none; the stop is a small level that only
rises; what the strategy wants is chosen anew in every turn.  `soft` marks an
exit reason that is set in memory and not yet saved, which is the one thing a
crash can take from the plan.  The branch `stop_without_protection` of
`runtime.py` is not a disjunct of its own: the test of the bid against an
unprotected stop, earlier in `drive()`, always takes its cases first.

### A2DriveLive

`Setback` names everything that puts the loop off: an API error, an order that
expires, is refused or is ended by the exchange, a poll that is skipped, a
turn without a bid, a strategy that takes a good protection away again for a
trim.  `MaxTrouble` of them may happen, at any moment, in any order; every
other step is fair as section 5 says.  `Residual` is the remainder that no
order can be placed for (`UNSELLABLE_RESIDUAL`): the book is halted with it, and
`drive()` returns at that place in every turn, which is no setback but the end.

### A2Basket

`Discover` and `ApplyScan` are the two halves of a scan (`_discover` asks in
another thread, `_apply_scan` takes the answer), and the loop buys and sells in
between: `selected` is the basket, `watched` what is driven, `scan` the request
under way with the exposed coins it was asked for.  A turn goes through `todo`
one coin at a time: `PlanEntry` writes the intent down under `_buy_cap` and
`can_buy`, `StillValid` and `SendEntry` are `validate_intent` right before the
request, `IntentExpires`, `CancelEntry` and `SellAll` the other ends.
`entryOf` keeps of each entry what it may still buy, what was executed unseen,
and whether a snapshot of the account was taken since it was told; `account` is
that snapshot, which other engines make stale by using the same account.

### TrackC

`campaign`, `orders`, `residual` and `halt` are the saved state; `step` says
where the process stands between two calls, `process` whether it is the runtime
or the recovery command; `wire` and `venue` are the network and the exchange.
`Enter` to `EntryExpired` are `enter()`, `Sends` to `AnswerLost` `submit()`, the
actions from `DriveStarts` to `Protects` one drive of `LiveBook` in the order
of the code, `Recovery...` and `Looks` the loop of `recover.py`.  `FlatSaved`
is the second save of a carried rest, and `torn` is a ghost: a crash fell
before it.  Slot, side and sight of an order map to `OrderLedger`.

### TrackCPortfolio

`book` (pending quantity, entry and stop limit, holding, cost, mark), `kept`
rests, `cash` and the day's result.  `EnterBook` is `Portfolio.allows` with
every test on cash, risk and the day; `BuyFills`, `SaleFills`, `KeepRest`,
`BookEnds` the money side of `apply()` and `carry_residual()`; `SyncCash` takes
the exchange's balance over when nothing is open.

### ARX

* `ArxEngine`: `order` are the rows of the table, `control` the ratchet,
  `reconciled` and `process` the start and the lock file; `call` is a submission
  between its saves, `wire`, `venue` and `sends` the exchange.  `Reserve`,
  `SubmitSaved`, `SubmitSent`, the four answers, `Reconcile...`,
  `CancelEntryOrders`, `ReconcileRestart`, `SetControl` are the methods.
* `ArxRisk`: `durable` is the `DurableRiskState` record; `Gate` the test before
  an entry, `ApplyCycle` the result of a cycle, `AttemptPeriodicResume` the one
  way back.  `granted` and `trips` only record.
* `ArxSizing`: `RiskEngine.assess` for a `request`; `Halves` is a turn of its
  bisection between `lower` and `upper`, `Assesses` the last test, and the answer
  is compared with the definition of a largest safe quantity.
* `ArxLedger`: `events` with two uniqueness rules, the `reservation`, the
  `allocation` of new highs.
* `ArxStrategy`: `phase` to `floor` are the strategy's own fields, `position` to
  `stoppedOut` its caller's; `Evaluate` is one evaluation with its branches in
  order.  `taken` only counts.
* `ArxPaper`: `Poll` is one transaction of `paper_step()` (funding, exit, buys),
  `FlushStarts`, `FlushReturns` and `CrashAndRestart` the outbox.

### The A/B engine

* `CycleSlots`: `work` is the record of a role, `task` what the consumer and
  housekeeping each await; `FillPushed`, `OrderPushed` the two channels;
  `Looks`/`Looked` settling, `Asks`/`Asked`/`Resynced` the resync.  The ghost
  `outrun` collects orders whose record was released, or counted, from a REST
  answer ahead of the pushes.
* `CycleStops`: `lots`, `stop`, `named`, `hit`, `unmatched` are the book's,
  `position`, `plans`, `fills`, `algo` the exchange's.  `Begins` and `Settles`
  are a pass of `settle_close_fills` by either task.  The ghost `twice` records
  that the two passes crossed: a listed close was booked twice or dropped.
  `LotsFollow` compares lots and position, and is what such a crossing breaks.
* `Pool`: `lock` and `claims` are the files, `inside` what an engine in the lock
  will write, `mine`, `engine`, `snapshot` its own belief and state file.  The
  ghosts `stray` (a given-up order filled after all) and `carried` (a gain that
  backed reservations ended with its day) mark what no claim covers.
* `Strategy`: `arm`, `pull` and `mood` are the fields of the state machine,
  `entry`, `sale` and `market` the orders the book makes of them.  `Second` is
  one reading and its reconcile, the others are news of the exchange.

### The jobs that choose coins

`Hunt` is one scan of `hunt.py` as a step (`Turn`: verdict, apply, the two
saves), `Select` a scan in two (`Loads`, `SettlesScan`), for it decides on what it
loaded a minute before.  A death between the saves of the state and of params is
a step of each; the ghost `torn` of `Hunt` marks the coins it concerns, and `due`
and `forgot` of `Select` the symbols that were set aside and those of them whose
cooldown never reached the file.  A scan may read a coin, fail to, or have no row
of it (`Missing`), which leaves its streaks as they are.  Shares are rounded to
the nearest part, as the code rounds them to the sixth digit.

### NoticeRelay

`journal` is the event table, `cursor` and `queue` the outbox; `FirstPoll`,
`Poll` (with merging of fills), `Attempts` and its three outcomes, `CrashRelay`
and `StartsRelay`.  `accepted` is what the chat has seen.

## 3. Runs

| Run | Question | Answer |
| --- | --- | --- |
| `a2_ledger` | Do cash, lots, campaign, budget, day and history explain each other through partial fills, late fees and values, deposits, a new day and a crash between the saves?  Do the engines of the A/B pool keep its cap of open campaigns and the day's limit of loss? | yes: `CashBasis`, `InventoryOnce`, `HistoryExplainsPnl`, `DayKept`, `CampaignKept`; `CampaignsWithinCap` but for `stray`, `LossesWithinLimit` but for `stray` and `carried` (section 7) |
| `a2_oms` | Does the journal follow the exchange when requests are lost, late or refused and the process dies?  Is no remainder of the A/B engine placed again before its fills are told? | yes: `SaleWithinBooks`, `BooksMatchVenue`, `CampaignOwnsInventory`, and it implements `OrderLedger` (`KeepsPromise`); `RemainderNotReordered` but for `outrun` (section 7) |
| `loops` | Does the A-2 loop add only behind confirmed protection, keep its reason to leave, and stop only when covered?  Do the jobs that choose coins keep cooldowns, baskets and one wallet, but for what a death between two saves forgot? | yes: `AddsAreCovered`, `ExitSticks`, `StoppedIsProtected`; `CoolingStaysOut`, `NeverEmpty`, `BasketShared` |
| `a2_drive_live` | After its setbacks, is what is held protected or sold, and does a requested stop end? | yes: `Reprotected`, `ShutsDown`, when no submit request or refusal is lost, and but for a remainder no order can be placed for, which halts the book, stays unsold and unprotected, and keeps a requested stop from ending |
| `arx` | Does the campaign send, end and reduce as it says, and do halts, sizing, allocation, harvests, funding and notices hold?  Does the abstract ledger keep its promise, and does the A/B strategy keep its ladder and take a late exit? | yes: `SentAtMostOnce`, `TerminalIsTrue`, `ReductionsWithinPosition`, `NoApprovalWhileTripped`, `ApprovalIsLargestSafe`, `AllocationsAreEarned`, `HalfRides`, `PaperBooks`; `Promise`; `EntriesWithinLadder`, `LateExitIsTaken` |
| `track_c` | Do the books of a coin cover the exchange, does it implement `OrderLedger`, do several coins fit one cash and one day, and is every exposed coin of A-2 watched and paid for?  Is each fill told once, and are the closes of the A/B engine's stops told apart in any order? | yes: `SalesWithinCampaign`, `BooksCoverInventory`, `NothingLeftBehind`, `RecoveryTellsTruth`, `KeepsPromise`; `PortfolioKept`; `BasketKept`; `NoticesTellFills`; `ClosesClassified` but for `twice` (section 7) |
| `a2_ledger_crash` | Is a late correction booked once across a crash? | no (`AppliedOnce`, section 7) |
| `a2_ledger_rebase` | Is a fee charged once when cash is rebased before it is reported? | no (`ExposedCashMatches`, section 7) |
| `a2_cooldown` | Is every entry gated by the cooldown after a stop? | no (`CooldownHolds`, section 7) |
| `a2_lost_protection` | Does protection that never got through become a recovery exit? | no (`RecoveryExit`, section 7) |
| `cycle_resync` | Is a slot of the A/B engine free only when its order is over and booked? | no (`FreedWhenBooked`, section 7) |
| `cycle_stops_twice` | Does a listed close leave the lots once, whichever task settles it? | no (`ClosesLeaveOnce`, section 7) |

`CashBasis` holds in every state, also after the crash of `a2_ledger_crash`:
the correction is booked twice on both sides of the equation.  That is why
`AppliedOnce`, which compares cash with the applied cumulatives, is a property
of its own.

Every property of a passing run has a mutant beside the definition it changes
(comments "A mutant: ..."): the change a slip in that code would make, for
which TLC finds the property violated.

Deadlock is not checked: a ledger that has used up its orders, a loop that
has stopped or a clock at its bound has no step left, and all are meant to.

## 4. Bounds

| Constants | Why they are enough |
| --- | --- |
| `A2Ledger`: `MaxOrders` 3, `MaxSize` 2, `MaxInventory` 2 | an opening buy, an add and a sale, or a buy, a sale and the buy of the next campaign; two partial fills each; a sale across two lots |
| `Price` by order, `Fee` 1, `Unit` 2, `FullBudget` 4 | the average differs from every lot, so bases are rounded; budgets scale by halves |
| `MaxLate`, `MaxOutside`, `MaxCuts` 1 | one late fee or value, one deposit or change of day, one crash: each pair of them meets |
| `A2Oms`, `A2Drive`: `Ids` 2 | identifiers are used again after archival, so any number of orders follow one another; two at once are a buy and a sale, or an order that is over and not yet archived and its successor |
| `MaxQty` 2, `MaxHeld` 2, `CancelMax` 1 | partial fills, adds of one to one; a sale smaller than what is held; attempts that run out |
| `MaxCrashes` 1 | one crash, at any point; none in the live runs: a crash between intent and request leaves an order the exchange never knows, which is the case of `a2_lost_protection` |
| `MaxStop` 2, `Dust` 1 | a stop that is raised under a placed order; a holding that cannot be sold, also in the live runs (there with `MaxStop` 1) |
| `MaxTrouble` 1 | one setback, of any kind and at any moment; what follows it are the loop's own steps, and a second one would start from a state of the same kinds |
| `Losses` | `TRUE` in `loops` and `a2_lost_protection`; `FALSE` in `a2_drive_live`, whose properties fail with it for the reason `a2_lost_protection` shows |
| `A2Basket`: two coins, `Allocation` 2, `MaxFunds` 3, `MaxBooks` 2 | two entries that together want more than there is; a coin bought while a scan replaces it |
| `TrackC`: `MaxOrders` 3, `EntryQty` 2, bids 1 and 3 about a stop of 2, `Minimum` 2 | entry, protection and exit; halves filled on each; a rest below the minimum at the low bid and above it at the high one |
| `TrackCPortfolio`: two coins, cash 6, prices and limits of 1 to 3 | two entries against one cash and one day; a rest that is kept; a gain and a loss |
| `ArxEngine`: one entry, two reductions, quantities 2, 1, 2 | overlapping exits of a position that one alone would sell |
| `ArxRisk`: `LastDay` 3, `DaysPerWeek` 2, caps 1, 2, 2, 3, streak 2 | a week that ends, a halt of each kind, a cooldown across days |
| `ArxSizing`: the requests of `MCArx` | with and without lots and reservations, those that gain and those that lose at the stop; one of the nine caps tight, or two, and each of them alone stops some approval |
| `ArxLedger`: three bills, two identities; `ArxStrategy`: `Part` 4; `ArxPaper`: `E0` 20, two prices, `LastTime` 5, `Period` 2 | every bill twice; fills in quarters; two fundings, a budget that runs out |
| `CycleSlots`: orders of sizes 2 and 1 | an order filled in parts and its successor; how three orders could do more is answered by the proof, for every `Sizes` |
| `CycleStops`: `MaxUnits` 2, three entries, two plans, one close by hand | a stop that fills in parts, a second campaign with a second plan |
| `Pool`: two engines, `Caps` 1 and 2, `Limit` twice the `Risk`, `MaxGain` 1 | a race for the last place; a gain that backs a third risk |
| `NoticeRelay`: two orders, four rows, two tries | merged and separate fills; an uncertain delivery and its retry |
| `Strategy`: `Unit` 2, one rung, times 1 and 2 | partial entries and sales; each timer runs out before and after a fill |
| `Hunt`: two coins, one book, `Confirm` 2, two AI reads, one death; `Select`: three symbols in two clusters, 1 or 3 slots, a wallet of 14 parts of which the probe has 3, one edit, one death | a replacement while a book is wound down, a majority and a tie; a probe beside full slots, shares that are rounded up |

Symmetry over what the code tells apart by identity only is used in the safety
runs: identifiers (uuids), coins, engines.

## 5. Fairness

`A2DriveLive` assumes, and the code or the exchange justifies:

* the loop goes on turning (`WF` on `Loop`): `run()` has no wait without a
  timeout and every client call has one;
* the exchange takes a request that is under way, fills a market order it has
  taken, and ends an order that is filled or whose cancel it was sent (`WF` on `Served`, one per order, which leaves it to the exchange what it does first);
* all three only for steps that are no setback, so fairness never forces bad
  luck, and none for prices, triggers, strategy or the owner.

No fairness is assumed of the protective order's trigger.

## 6. Proofs

All by TLAPS, for every value of the constants that the named assumptions of
the modules allow: no bound on the number of orders, coins or engines, on
quantities, prices, crashes or attempts.  The assumptions ask for finite sets
and natural numbers and for a few relations the code's configuration has:
`A2Drive` that all that is held can be sold as one order (`MaxHeld` at most
`MaxQty`), `A2Ledger` that the budget of one step is an integer
(`BudgetAssumption`), `TrackC` that an entry is worth the exchange's minimum at
its stop limit, `A2Basket` that the allocation is there and the basket has room
for the books.

`OrderLedgerProofs`
: `PromiseKept`.  The promise becomes inductive with two more facts: an order
  the venue has never seen has nothing executed (`NothingBeforeAccept`), and
  each side has at most one *owned* order, not merely one live
  (`OneOwnedPerSide`).

`A2OmsProofs`
: The inductive invariant `Structure` relates journal, wire and venue: what
  the exchange works is active in the journal, a request under way belongs to
  an order the exchange has not seen, what is terminal is booked to the end,
  one active order a side, and the rest of a working sale is in the lots
  (`RestIsHeld`).  The last is what makes `SalesAreCovered` go through: a
  working sale is the only one of its side, and buys only add.
  `ImplementsLedger` maps each action to one action of `OrderLedger` or to a
  stutter; `Structure` supplies what the abstract guards ask, such as that
  a rejected order is not under way any more.  `BooksAreTheVenues` needs an
  equation between the balance, the lots and the executions not yet booked, per
  side (`Balance`); `TypesAreKept` follows, because that the exchange's balance
  never becomes negative is a consequence of it and not a fact of types.
  `CampaignsStayApart` strengthens with the campaign an order will open.

`A2DriveProofs`
: `LoopImplementsOms` shows that each step of the loop is a step of `A2Oms` or
  leaves it alone, so the invariants of `A2OmsProofs` carry over
  (`OmsState`).  `StopsProtected` adds what a stop leaves behind (`AtStop`): who
  has stopped was ready to and does nothing any more; that the exchange then
  holds one protective order for exactly the coins there follows from the
  balance.  `AddsNeedCover` and `ReasonsStick` are action properties: a case for
  every branch of `drive()`.  `NoticesHold` is about the outbox: a poll's rows
  are taken by a fold, which is shown to be the rows taken one by one (that the
  fold's function exists at all follows from a smallest counterexample, as in
  `Sums`), and what the chat may have seen was tried, so that no later row is
  merged into it (`SeenTried`).

`A2LedgerProofs`
: `TypeCorrect` and `CashIsExplained` by one induction (`CashInv`): the cash
  equation is inductive once every amount is an integer, and the work is in
  the operators (`DivisionBound`, `ScaledInBudget`, `BasisType`,
  `InventoryPartType`).  `HistoryIsComplete` needs `CampaignInv`: inventory
  implies an open campaign, a closed campaign carries no P&L, and every order
  names one; without these a sale or a correction could be booked to nobody.
  `InventoryCountsOnce` compares the lots and the applied fills as sums and
  rests on who owns a lot (`OwnersInv`).  `DayIsKept` counts the campaigns with
  a risk exit against the stops of the day (`StopsInv`).  `CampaignIsKept` sums
  over the orders of one campaign (`OwnBooks`), and needs that an order of an
  ended campaign can only be corrected, never filled.
  `BasketHolds` (`BasketInv`): what is exposed is watched because a scan under
  way adds what was bought meanwhile, and an entry that executes pays with what
  was reserved for it.

`TrackCProofs`
: `TrackHolds` is one induction over all steps of a coin: at most one order
  may still fill, whatever its role (`OneAtATime`), and what it has left is what
  the campaign lacks or holds (`Covered`); `StepTrue` is what the process may
  rely on between two calls, `BooksTrue` the equation of campaign, rest and
  booked fills with its two exceptions.  `SellsWithinCampaign`, `BooksCover`,
  `NothingIsLeftBehind` and `RecoveryIsTruthful` follow from it, and
  `TrackKeepsPromise` is the refinement of `OrderLedger`.  `PortfolioHolds`:
  reservations within cash, and the admission of an entry against the worst day,
  with sums over any finite set of coins.

`ArxProofs`
: `EngineInv` gives `SubmittedOnce`, `FinishedMeansFinished` and the types: an
  intention in `reserved` has left no trace anywhere, the call in progress is
  about a row saved as submitting, and the engine is never ahead of the
  exchange.  `SalesFit` needs the last in numbers: what a reduction reserves is
  at least what it may still sell, for the engine's fills are never ahead of the
  exchange's.  `HaltsAreKept` (`RiskInv`): the durable record remembers each trip
  for as long as it counts, whatever day or week it is.  `SizesAreSafe`
  (`SizingInv`): just above what is left of the search something fails, and what
  an entry that fails nothing adds up to bounds, term by term, what any part of
  it and of the reservations can lose or take.  `EarnedOnce` (`LedgerInv`): the
  net of the rows is the net of the bills behind them, each once.  `HalfIsKept`
  (`PhasesInv`): what was taken and what a take-profit order may still sell are
  at most two quarters, and a stop ends the harvest.  `PaperAddsUp` (`PaperInv`):
  the next funding owed is the next of the exchange, quantities are exact
  multiples of the frozen parts, and a notice that may have been seen is not
  sent again.

`CycleProofs`
: `PoolKeepsCap` (`ClaimsInv`): who has something to reserve for has a claim, a
  plan made inside the lock drops only flat engines, and plan and file each
  hold at most `cap` claims.  `PoolKeepsLimit` adds the budget a call inside the
  lock was granted.  `SlotsHold` (`SlotsInv`): the record, or the placement
  under way, stands for every order that may still fill; it says what each
  awaited answer still proves when it is read (`AnswersTrue`), what the record
  of a settling order knows (`RecordTrue`), and that an order put there by a
  resync under a placement is not pending (`OneOwner`).  `StopsHold`: the fills
  under way, pushed or listed, lead from what the book has to what the exchange
  holds (`FillsFollow`), and a pass over the list knows what it still has to
  look at (`PassTrue`).  `LadderHolds` and
  `LateExitsEnd` (`StrategyInv`): what is armed is open and fits the ladder
  together with what is held (`ArmOpen`); a pull that stands is for what was
  held at the last reading or less, an exit's is for all of it (`PullTrue`), so
  the next reading finds nothing that would undo it.  `CoolingHolds` and
  `BasketNeverEmpty` (`HuntInv`): who is chosen was a candidate in this scan,
  and so not cooling, and a turn drops the last books only for new ones.
  `WalletHolds` (`SelectInv`): what is set aside is not in the basket at all
  (that it is only leaving would not be inductive, for a reason to leave may
  pass; what a death kept off the file is in `forgot`), and the shares of a scan are
  those of at most one probe, at most one leader and no more main books than the
  pool was divided by, each rounded by at most half a part (`NearestFits`,
  `FitsWallet`).

`Sums`
: What all these use of `SumFunctionOnSet`: that it is an integer, that one
  changed value changes it by the difference, that it splits over a set and its
  complement, that a part of naturals sums to no more than the whole.  The induction over finite sets is not the one of the library,
  which takes an operator: a counterexample would have a smallest subset
  (`MinimalSet`, from the well-foundedness of strict inclusion).

Proving changed the models where they said too much or too little.  `DayBasis`
had been stated without its condition on the day's start, which holds on the
instance and not for all constants.  The slot of a role turned out not to be
inductive with three orders: the case (a resync that leaves an order working
untracked) was out of reach of the two of the instance, and is now in `outrun`.
`CoolingStaysOut` had allowed a cooling coin a book that only winds down, and
`HalfRides` had left out some states; the proofs do not need those exceptions,
and they are gone.  `ArxLedger` now says what it takes for granted of the
exchange, that a reference names one bill of its kind (`LedgerAssumption`).  Sums
and counts are those of the community modules where they had been recursive
(`CycleStops`, `NoticeRelay`, `Select`, `ArxSizing`), and the search of
`ArxSizing` is the loop it is in the code.

Every safety and action property of the passing runs is a theorem.  Only
model-checked are the liveness properties `Reprotected` and `ShutsDown`, for
fairness and ENABLED are beyond the prover.

## 7. Where code and documents differ

### Found by a run

* **Cooldown after a stop** (`track_a_2/execution/oms.py:603`, run
  `a2_cooldown`).  Entries are said to be gated by the cooldown after a stop
  (`common/signal.py:661`).  `finish_flat()` sets it at the end of a turn, and
  not at all while an order works; a stop that is reported at the top of a turn
  leaves that same turn free to buy.  The buy then meets the old exit reason.
* **A late correction and a crash** (`track_a_2/execution/oms.py:383`, run
  `a2_ledger_crash`).  Fills are said to be applied once; a correction of an
  ended campaign is saved before the cumulatives that mark it as applied.
* **A late fee and a rebase** (`track_a_2/execution/oms.py:806`, run
  `a2_ledger_rebase`).  While flat, the exchange's balance is taken over as it
  is; a fee already charged and not yet reported is then subtracted twice, and
  `CASH_MISMATCH` follows with the next position.
* **Protection whose request was lost** (`track_a_2/execution/oms.py:708`, run
  `a2_lost_protection`).  Such an order stays `UNKNOWN` for good: no detail
  ends it, its slot stays taken, and the promised recovery exit waits for it.
  No order is sold twice, which is what the unknown status is for; but what is
  held has neither protection nor exit until someone steps in.
* **A resync and the fills on their way** (`common/cycle.py:860`, run
  `cycle_resync`).  The resync takes the executed volume of the tracked order
  over; fills that are still queued are then counted again, and the slot is
  freed under an order that works.
* **A close booked twice** (`common/cycle.py:785`, run `cycle_stops_twice`).
  Consumer and housekeeping both go through the list of unclassified closes and
  await a cancel at each hit; when the passes cross, a close leaves the lots twice,
  or one that was listed meanwhile is forgotten.

### Recorded by the models

Ghosts keep these apart, so that the properties say what holds besides them.

* `TrackC.torn` (`track_c/live.py:111`): a crash between the two saves of a
  carried rest leaves the holding in the campaign and in the residual.
* `Pool.stray` (`common/cycle.py:552`): an order given up after 15 s may fill
  after all, and its campaign has no claim.
* `Pool.carried`: a gain of the day backs reservations beyond the limit; when
  the UTC day ends, the gain is gone and the reservations are not.
* `CycleSlots.outrun`: a REST answer ahead of the pushes, or an order the resync
  could not cancel, leaves an order outside the record.
* `CycleStops.twice` (`common/cycle.py:785`): consumer and housekeeping walk the
  list of unclassified closes at the same time.
* `A2Basket.unseen`: a restart whose metadata query fails leaves a coin that is
  held unwatched until a scan finds it.
* `Hunt.torn` (`track_b/hunt.py:548`): the state gave up a book that params
  still has.
* `Select.forgot` (`track_a/select.py:351`): a symbol was dropped and the job died
  before its cooldown was on file.
* `A2DriveLive.Residual` (`track_a_2/runtime.py:944`), no ghost but a state of the
  program: a remainder too small to sell or to protect halts the book, and
  `shutdown_ready()`, which wants all that is held behind a stop, is never true.

### Stated, and not so

Three sentences of the documents are formulas of the models that no run checks,
for the models contradict them as the code does; given to TLC as an invariant, or
the second as a property, each is violated within seconds.

* **A cooldown that is forgotten** (`track_a/select.py:351`, `NeverWhileCooling` of
  `Select`).  A symbol is said never to enter in its cooldown (line 26); params are
  written without it before the state is written with its cooldown (line 357), and
  a death in between loses the latter.  TLC shows a symbol evicted, dropped, and
  opened again while the time it was to sit out is not over.  `BasketShared`, which
  holds, speaks of the symbols whose cooldown was not forgotten.
* **A dead coin resumed** (`track_b/hunt.py:548`, `DeadNeverResumes` of `Hunt`).  A
  quiet or dead leaver is said never to resume (line 395); after a death between
  the two saves, params have its book and the state has no reason, and the book is
  resumed, in its cooldown, like one that left for its phase.
* **More active books than the limit** (`track_b/hunt.py:420`, `ActiveLimit` of
  `Hunt`).  The pool is said to keep one book or up to `max_books` (lines 382-384).
  A book that winds down gives its place to a replacement, and is resumed when its
  phase comes back.  The exit streak is not reset by the resume either.

### Seen while modelling

* `track_a/select.py:351`: what the owner edits while a scan runs is written
  over with what the scan loaded; the limit of one cluster can be exceeded by two
  openings of one scan.  Shares are rounded one by one (line 195), so that they can
  add up to a few millionths more than the wallet that is "never over-allocated".
* `common/signal.py`, `common/cycle.py`: a taker that is told more than five
  seconds late is sent again; leaving for flow does not block an add that is
  already armed; an add during a taker drops the floor of the pull.
* `track_a_2/execution/private_stream.py:83`: `sync_account()` ends by marking
  the balance fresh, also when the stream asked for a new one meanwhile.

## 8. Not modelled

* A-2: how much an entry buys (`A2Drive` and `A2Basket` let every amount and
  every refusal within the caps happen; that a guard never refuses too much is
  not shown), `recovery_only`, which only removes entries, the ten seconds of
  shutdown after an escaped exception, which `Crash` cuts short, a save of the
  state from another thread in the middle of `apply()`, recorders, replay and
  observers.
* A/B: the features of `common/signal.py` (floating-point statistics of the
  tape), the simulated fills of a dry run, the emergency close, resizing and
  reload of parameters in `cycle.py`, `max_stops` of the pool, which stops where
  the loss stops, and the scoring of coins.
* Track C: candidates, learning, recordings, replay and reports; `take_mode`
  `limit`, which no live plan sets; the comparison of venues.  `PortfolioKept` is the
  contract of the class `Portfolio` for any number of coins; the live runner uses
  it with one.
* ARX: the sale by the protective stop itself (`ArxEngine` has the orders of the
  campaign, and a position that only they change), indicators, the estimate of the liquidation price, the chart of accounts
  behind the postings, replay.
* Transports, authentication, reports and alerts, everywhere.

## 9. Plan

Done: every module of section 2, and the proofs of section 6.

Next, in this order:

1. The hazards of `PROJECT.json` that no property covers: the private stream and
   `sync_account()`, `record()` on the loop thread, the retried reservation of the
   ARX engine, the market orders of the A/B engine.
2. Notices of A-2 with more than fills (`track_a_2/ops/notices.py`), and the
   comparison with other venues.
