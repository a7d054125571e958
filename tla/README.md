# Verification of HashiBot

TLA+ models of the parts of HashiBot that keep state while several things go on
at once, the TLC runs that check small instances of them, and theorems about
them for every size, checked by TLAPS. The models are written from the code;
`PROJECT.json` maps each definition to the lines it stands for, and lists the
runs, the faulty variants used to show that each property can fail, the
hazards, the findings and the theorems.

The repository holds two systems. **V1** is a single worker
(`apps/worker/src/index.ts`) that scans markets, selects signals, trades them on
paper and reports them, driven by a web application over a shared PostgreSQL
database. **V2** (`v2/src`) is the start of a multi-customer execution core: a
durable queue of commands, a planner and manager that fill it, workers that
drain it, and exchange adapters.

## Inventory

| Component | Code | State | Operations | What is hard | What makes it correct | Modules |
|---|---|---|---|---|---|---|
| V2 command queue, worker, manager | `v2/src/execution-core/{queue,repositories,storage,worker,manager}.ts` | one JSON file: commands, dead letters, idempotency records; in memory the leased batch | enqueue, lease, mark, scheduleRetry, recover, runOnce, dispatch | each write is atomic, an operation is several; leases lapse; the process dies between writes; a worker writes after its await without looking again | one command per key; one holder of a command; every call accounted for; final is final; nothing stranded; everything settles | `CommandQueue`, `Admission` |
| V2 planner | `planner.ts` | none | plan | counters of a snapshot | what it approves can be executed and is within the limits | `Planner` |
| V2 events | `events.ts` | a list of events | publish, replay, cleanup | numbers are list lengths | a replay misses nothing | `EventLog` |
| V2 adapters | `v2/src/execution/adapters` | accepted keys, the exchange behind | openPosition, moveStopLoss, closes, with verification | retries, protection after verification, memory lost on restart | an order is placed once; what is open is protected | `Adapter` |
| V1 paper trades | `index.ts` 4167-4856, `paper-account.ts` | `SignalTrade` rows | execute a decision, manage by price, reset | rows read once and updated one by one; stop, targets, partial close and the stale policy interleave | money bounded by the plan; results honest; closed is final; stops tighten; stale trades close | `PaperTrade`, `Position` |
| V1 signal desk | `index.ts` `runWorkerCycle`, control and reset routes | `SystemControl`, `SignalEvent`, `SignalOutcome`, `SignalTrade` | cycle, set control, reset | control read once per cycle; lock and cap checked before the writes; two trackers for two modes | one signal per symbol; cap kept; banked profit kept; outcomes final; outcomes resolve | `SignalDesk` |
| V1 selection | `index.ts` 1140-1260, 1600-2010, 3283-4033, `strategy-brain.ts` | the engines selected lately | readiness, scoring, tiers, gates, ranking, diversification, arbitration | nested sorts and overrides | what is stored is free, apart and of the best tier | `Selection`, `StrategyBrain`, `CycleReport` |
| V1 paper account, allocator | `paper-account.ts`, `portfolio-allocator.ts`, `breakout-execution-policy.ts` | derived from the rows | exits, snapshot, decision, allocation, order | order of checks, snapping, budgets shared by ranks | what is accepted fits margin, risk and budget | `PaperAccount`, `Allocation` |
| V1 main loop | `index.ts` 6680-7030 | `RuntimeControlState`, `OperatorTerminalCommand`, `SignalTruthPosition`, milestones in memory, incidents | apply commands, track positions, health, incidents | memory and database written in turn; one exception skips the rest | a milestone is recorded once; the control is what was ordered; a stall is told | `MainLoop` |
| V1 control | `system-control-store.ts`, `runtime-control-config.ts`, routes | the control row and two files | save, start, stop, resolve | three places for one truth, no lock | a granted stop reaches a worker that has the database or the file | `ControlPlane` |
| Market data | `live-analysis` | a socket, caches, one status per symbol | connect, reconnect, ask the providers in turn | reconnects, stale answers, sessions | a lost socket comes back; what is stale is known to be | `MarketFeed` |
| Strategies | `packages/core/src/backtest/strategies`, `strategy-registry.ts` | none | window of candles to plan | numeric | plans have their levels in order | `Strategies` |
| Backtest engine | `backtest-engine.ts`, `trade-lifecycle.ts` | open trades, equity | process a candle, continue, open | order of stop and target within a candle | losses bounded, ledger of settlements | `Backtest`, `Ledger`, `Prices` |
| Telegram, reports | `index.ts` 1640-1770, 5750-6110 | none | send, record | lost answers | what is told is what happened | `Telegram`, `CycleReport` |
| Web API | `apps/web/app/api` | none beyond the tables | read, sum up | page sizes, several sources of one figure | figures agree with the rows | `SignalRoom`, `ControlPlane` |
| Configuration | `packages/config` | environment | parse | defaults | | values in `ControlPlane` |
| Dashboard, MQL5, scripts | `apps/web/app`, `MQL5`, `scripts` | none | render, print | | | not modelled |

The components meet in three places. The web application and the V1 worker
share rows and never call each other: an operator's request is a write that the
worker notices at its next read. Inside the worker the cycle is sequential, with
an await at every database call. The V2 manager, queue and workers share one
Node process and one file; they interleave at awaits only, but a crash falls
between any two writes.

## Modules

There are two kinds. *State machines* have variables, actions and runs:
`CommandQueue`, `PaperTrade`, `SignalDesk`, `MainLoop`, `Backtest`. *Operator
modules* have neither: the code they model computes an answer from what it is
given, so each function is an operator, stated as a theorem where it holds for
every input, and as a named assumption of an MC module, which TLC evaluates
over a bounded set of inputs, where it does not or cannot be proved.

| Module | Models | Used by |
|---|---|---|
| `CommandQueue` | V2 queue, store, worker, manager | `MCCommandQueue`, `CommandQueueProofs` |
| `Admission` | what the queue promises its callers: one command per key | instantiated by `CommandQueue` |
| `Adapter`, `Planner`, `EventLog` | what a command does on the exchange; what becomes a command; the numbered events | instantiated by `MCCommandQueue`, the first by `CommandQueueProofs` too |
| `PaperTrade` | a trade's life, V1 | `MCPaperTrade`, `PaperTradeProofs` |
| `Position` | what a trade promises its bookkeeping | instantiated by `PaperTrade` |
| `PaperAccount`, `Allocation` | the decision to trade, the account, the allocator and its orders | `CapitalProofs`, `MCPaperTrade` |
| `SignalRoom` | what the web tells of the rows | `MCPaperTrade` |
| `SignalDesk` | the worker's cycle and the operator, V1 | `MCSignalDesk`, `SignalDeskProofs` |
| `Selection`, `StrategyBrain` | from candles to the signals stored; arbitration | `SelectionProofs`, `MCSignalDesk` |
| `CycleReport`, `Telegram`, `ControlPlane` | what a cycle says of itself; its messages; who may stop it | `MCSignalDesk`; the last two `SignalDeskProofs` |
| `MainLoop` | commands, tracker, health of the worker's loop | `MCMainLoop`, `MainLoopProofs` |
| `MarketFeed` | sockets, providers, sessions, scan board | `MCMainLoop`, `MainLoopProofs` |
| `Backtest`, `Ledger`, `Prices` | the replay, what it promises its equity, levels and sides | `MCBacktest`, `BacktestProofs` |
| `Strategies` | the plans of each registered strategy | `StrategiesProofs`, `MCBacktest` |
| `MC...` | the instances TLC checks | |
| `...Proofs` | theorems | |

### CommandQueue

The sources of V2 are dense: a method is usually one line, so many definitions
map to the same few lines, and the symbol in the map says which part is meant.

State: for each command its place (`place`: nowhere, `commands`, `deadLetters`),
status, lease, retry fields and count, the idempotency records, and for each
worker and producer a program counter with what it has in memory. One turn of
the JavaScript event loop cannot be interrupted by another; `turn` says who is
inside one, and it is released at the `await` of the adapter and between the
commands of a batch. Within a turn each write of the file is a step, because the
process may die between them. `locked` itself (read, change, rename) is one step:
it is synchronous, and there is one process.

The clock is two steps of the environment: a lease lapses (`LapseLease`), a retry
delay ends. The adapter returns one of four verdicts, which stand for the results
and the classes of failures that `process` and `scheduleRetry` tell apart. A crash
clears everything in memory and keeps the file.

### PaperTrade

State: the row of each trade, with its plan, quantity, stop, realised profit,
status and outcome, and the rows the current pass has read and not yet managed.
One action per branch of the management loop, in the order of the code: stop,
second target, first target, and otherwise the stale policy (`Tighten`,
`TimeStop`) or nothing (`Hold`). The update and the result event
are one step; a crash between them is listed as a hazard. Trades are assumed
to be managed in the mode that opened them: a switch between personal and prop
looks up the decision of the trade under the other mode, which acts like
`DecisionForgotten`, except that switching back brings it back.

`Position` is the abstract form: entered whole, sold in at most two parts, money
banked only by a sale, untouched once nothing is left, dropped only while something
is. A row is a position with its size, what is left and what was realised (`Book`).

Prices and quantities are integers. The proofs hold for any, so the unit can be
as small as one likes; the rounding of a fraction is the integer division and the
properties do not depend on it.

### SignalDesk

State: the control row, the cycle under way (which step, in which mode, what it
selected, what is left of a loop, the book of open positions in memory, the entries to
send) and three rows for each signal. A candidate is a signal in waiting; which ones the
strategies produce, and which of a symbol is best, is a free choice here and computed in
`Selection`. The mode is `signal` or `paper`: personal and prop differ in sizing only.
`live` stands for `isRunning` without `killSwitchActive`, which both end the cycle
before anything is read.

The price is given as the gain over the entry in units that make R a whole number
of `1 / (Risk * PartialDen)`. How a price moves a *trade* is `PaperTrade`'s
matter; here a managed trade stays, reaches the first target or closes. How it
moves an *outcome* (`Tracked`) is modelled in full.

A reset is one transaction and may fall between any two steps; the reset that the
worker itself performs at boot under `reset_signal_mode_state_on_boot` is a crash
followed by it. The update of a row that a reset has deleted throws and ends the
cycle (`CycleFails`). A trade is deleted with its event by the foreign key.

### MainLoop

State: the control row with its flags, the queue of the operator's commands,
the pass of the loop (its step, the batch it read, whether it was frozen then,
what is held, the positions left, the one in hand with the milestones it
reached), and for each position its row, the events written and the keys
remembered in memory. The passes, the four writes of a command and the three of a
milestone are steps, so that a failed write (`WriteFails`, `RecordFails`), a
crash, the operator's two routes and a reset of the heartbeat fall between any
two of them. A failure of the scanner skips the tracker and the health check of
the pass. Whether the tracker is due is a choice (`BeginTracking` may be
postponed); incidents are told apart only as raised lately or not (`alarmed`).
What the scanner does is `SignalDesk`.

A position comes in at the price of its market; the forex stub of
`price-adapters.ts` answers 0, so a forex position is resolved at its first
look. That branch is in the theorems; the run has one crypto position. Nothing in
the applications creates these positions: their creation is external.

Seen on the way: a stop and an age that fall in one pass write two reasons, the
later of which stays (6916); a milestone whose event could not be written after
its key was remembered is not recorded until a restart, and an
`entry_triggered` that arrives then moves the status back, which is the
exception in `NeverRegresses`; commands of a batch are judged on the row read
before the batch (6736), so a resume after a clear is refused; a freeze set by
the runtime-control route is seen only at the next pass, which is the exception
in `FreezeHolds`; a tracker paused on purpose is reported as stalled.

### Backtest, Ledger, Prices, Strategies

`Backtest` replays a sequence of candles: judge the open trades, newest first,
perhaps continue one that took its first target, perhaps open one. The sequence
grows nondeterministically, so every replay over the shapes is explored. Prices
are candle units, levels thousandths of them, money `FeeUnit`-ths of those, so
that slippage and fees are exact. `Ledger` is what a replay promises: the
equity changes by settlements only, each trade is entered and settled once.
`Prices` has what levels and sides are; both it and `Strategies` rest on it.

`Strategies` gives for a window of candles the set of plans each registered
strategy may build from it: gates on averages, regimes and scores are inputs
(`w.sides`, `w.strength`), whatever places a level is exact.

Seen on the way: excursions are divided by the distance to the stop after it
moved (`trade-lifecycle.ts:139-140`); a continuation has the base stop distance 0
(`backtest-engine.ts:405`); the taker fee is charged when realism is off; a gap
through the stop is filled at the stop; the size multiplier is applied after the
cap (183-190); trades open at the end are never counted; the shadow simulation
has a stop rule of its own (753-785); `validateCandidate` of some strategies
checks a chase that the generation exempts.

### PaperAccount, Allocation, SignalRoom

`PaperAccount` is the arithmetic of one admission: the exits, the account read
back from rows, the decision and its reasons in their order, the closes.
`Allocation` is what a cycle plans for the demo connectors: the budget shared out
along the ranking, intents, orders, what the process remembers. No connector is
called: the orders are logged. `SignalRoom` is what the web API tells of the rows.

`ExitsInOrder` discharges what `PaperTrade` assumes of its plans: every
plan the worker trades (of an entry of at least 2000 units, so that rounding
keeps the levels apart) has its levels in order.

Seen on the way: the risk per trade of the personal profile has no effect
(`RiskPerTradeIgnored`, 4293), so the first signal may take all; an entry that asks
for the whole free margin is taken or refused as doubles round (`Roundings`,
`paper-account.ts:327-331`; assumption `RoundingDecides`); forex quantities
are snapped after the checks, up to the smallest lot if need be (4300); the
equity misses what a partial close realised (`paper-account.ts:233`); the kill
switch is documented as a hard safety override (`config-contract.md:103`) and
spares the personal mode (`breakout-execution-policy.ts:175-177`); caps of a
symbol are judged per signal on an exposure of zero (`portfolio-allocator.ts:140`,
`index.ts:5157`); orders refused by a connector keep their share; a plan is
recorded `dispatch_success` whatever it holds (6106-6150). In the room: figures
come from the newest page only (`OldResultsLeaveTheRoom`, `route.ts:397-403`);
a trade without its signal is of `engine1` (610); results are divided by the open
risk (1035); the engines' table reads the oldest 5000; partial wins are neither
won nor lost in the performance route.

### Selection, StrategyBrain, CycleReport, Telegram, ControlPlane

`Selection` is the way from candles to stored signals, in the order of the code:
readiness, engine, score and tier, gates, ranking, diversification, arbitration
(`StrategyBrain`), admission. `SignalDesk!Select` is its abstract form, and
`IndependentEnginesImplementSelect` relates the two. `CycleReport` extends it with
what the cycle says of itself. `Telegram` is the refinement of
`SignalDesk!Dispatch`: how a message is tried. `ControlPlane` is the control row
with the two files beside it, all handlers that write them and the worker's
reading. The worker has the web's files where both run from one directory; under
`docker-compose.yml` each has a container and no volume is shared, so the worker has
none (`OwnFile`), and runs when it reaches neither database nor queue store.

Seen on the way: the strategy the worker runs cannot reach A+, the tier it takes
for granted, so it stores nothing with a database (1200-1213,
`NothingLiveIsStored`); the brain's engine names are not the worker's, its score
is then not a number and the first ranked candidate wins (`strategy-brain.ts:98`);
the second way to override a scalp is dead (395-396); a scan that ends in an error
keeps the signals it had pushed (1618); the rejection reasons of 3702-3704 and the
configured tier are dead. Reports: the four family engines cannot reach the
configured score (`families.ts:14`); suppression is told as a low score (2527);
counters do not add up (3882); ranks are the last of a symbol (3981, 6234). A
message whose answer is lost is repeated (1749); a pause is told like an outage
(5753); some rows are told nothing (5956). Control: two saves that read the file
together overwrite a stop (`system-control-store.ts:54`); a file that cannot be
parsed runs the worker (`index.ts:913`); a request without a mode selects signal
mode (`config/route.ts:39`); a stop needs the database.

Some lines cannot run as written: 2298 uses `runtimeSymbols` before its
declaration at 2415, 2532-2534 name `symbolContext` and `candidate` that no scope
has, 5822 uses `selectedStrategyCandidate` before 5839, 5900 assigns a name out of
scope, and the list at 5926-5952 is not closed. The models take the evident meaning
of the surrounding code.

### MarketFeed

The socket with its handlers, each an operator from one record to the next; the
orchestrator that asks the providers in turn and keeps one status per symbol;
sessions; the scan board's row. Seen on the way: every cycle makes a provider and
a socket (2577); a request between a loss and its timer opens a second socket;
a cached price never expires (248); a stale answer is served and analysed (370,
2832); midnight cannot be configured (80, 96); three different intervals are
loaded as one (291, 408, 434).

### Adapter, Planner, EventLog

`Adapter` says what a command does on the exchange: a world is the account
together with the memory of the adapter in front of it, and a call maps a world,
with the fate of each of its orders, to the next. The rate limiter sends a request
up to four times (`MAX_SENDS`); the fate of an order says how many of them the
exchange handled although nothing came back, whether one was answered before the
limiter gave up, and whether what is read afterwards is answered. Binance and
Bybit differ in how they treat a client id that was used and in how a stop reads
back. `Planner` has
the gates in their order, the sizes and the walk over profiles. `EventLog` is the
list of events with replay and cleanup.

`CommandQueue` says how often `adapter.execute` is called, `Adapter` what each call
adds. Together: an entry with a stop or target is never verified, because
verification comes before protection is placed (`base.ts:20`), so it is retried and
dead-lettered; on Binance, where the id may be used again once the order was
filled, each retry adds to the position. `BYBIT_ADAPTER.md`, `BINANCE_ADAPTER.md`
and `EXECUTION_SECURITY.md` say duplicates are blocked by durable idempotency and
client ids; the accepted keys are in memory only (`base.ts:28`) and an unknown
answer makes the rate limiter repeat the order (`rate-limiter.ts:3`).

## Runs

| Run | Instance | Shows |
|---|---|---|
| `command_queue` | two workers, a manager, another caller of enqueue, three commands of which two share a key, batch 2, one retry, one lapsed lease, one crash | `TypeOK`, `OneCommandPerKey`, `Exclusive`, `AttemptsAccounted`, `FinalUnlessRecovered`, `CrashCostsOne`; the store implements `Admission` |
| `command_queue_live` | two workers, one command, two retries, two lapses, no crash, fair | `NoWorkStranded`, `NoKeyStranded`, `EverythingSettles` |
| `queue_strands_work` | two commands, one crash | **violated**: a crash after `markAcknowledged` strands the command |
| `paper_trade` | two trades, long or short, eight prices, fair | `TypeOK`, `RealizedBounded`, `NeverFlattered`, `StopRatchets`, `ClosedIsFinal`, `StaleTradesClose`; the rows implement `Position` |
| `stop_loosens` | the same | **violated**: the first target moves a tightened stop back |
| `results_before_close` | the same | **violated**: a result is published at the first target |
| `signal_desk` | two signals, on one symbol or two, five prices, cap 1, one crash | `TypeOK`, `OneSignalPerSymbol`, `ConcurrentCapKept`, `BankedNeverLost`, `OutcomesFinal` |
| `signal_desk_live` | two signals of one symbol, stop or target, one crash, fair | `TrackedOutcomesResolve` |
| `outcomes_never_time_out` | the same | **violated**: outcomes of a paper mode stay open for ever |
| `entries_never_sent` | as `signal_desk` | **violated**: signal mode closes its events without an attempt |
| `main_loop` | one crypto position with one target, two commands of two kinds, a batch of two, one patched flag, one fault, fair | `TypeOK`, `RecordedOnce`, `StatusExplained`, `ControlExplained`, `NeverRegresses`, `FreezeHolds`, `CommandsSettle`, `AgedResolve`, `StallsReported` |
| `backtest` | four candles of six shapes, a long plan of grade A with early exit, a short one of grade B | `TypeOK`, `LossBounded`, `FirstTargetPays`, `ClosedExplained`, `OneAtRisk`, `OneSignalAtATime`, `JudgedLater`; the replay implements `Ledger` |

The assumptions of the MC modules are evaluated with these runs:

| Module | Assumptions about | Inputs |
|---|---|---|
| `MCCommandQueue` | `Adapter`, `Planner`, `EventLog` | both exchanges and directions, stop and target present or not, six calls of a command, up to four sends of an order whose answers are lost, an order that cannot be read back; one profile one trade below each limit; logs of up to four events, cleaned up, and four more |
| `MCPaperTrade` | `PaperAccount`, `Allocation`, `SignalRoom` | an entry with three stops, three ATRs, four engines, three regimes; both roundings of an entry that asks for all margin; all pairs of eight setups under two modes and two caps; all subsets of five rows |
| `MCSignalDesk` | `Selection`, `StrategyBrain`, `ControlPlane`, `Telegram`, `CycleReport` | candle counts around each threshold; rankings of three over two symbols and four scores; duels of a scalp with each rival; 16 controls with row and file present or missing, on one host and in two containers; all answers to up to four calls; all plans of two entries; lists of two candidates |
| `MCMainLoop` | `MarketFeed` | every history of a socket of seven steps; all 168 hours of a week; all sets of providers that answer |
| `MCBacktest` | `Strategies` | all windows of four candles out of four shapes and their mirror images |

Why the bounds are enough to be of use:

- *Commands and keys.* The key rules concern two commands of one key and one
  beside them; leases concern two workers and one command. Three commands and two
  workers have all of it, with a batch of two so that a worker holds one command
  while it works on another.
- *Lapses, retries, crashes.* One lapse brings the second execution of a command,
  one retry brings both the retry and, with the next failure, the dead letter. One
  crash at any step with everything else under way; `CrashCostsOne`, which counts
  crashes, was also checked with two of them and two commands. `MaxLapses` and `MaxCrashes` are bounds of the
  model, `MaxRetries` is a parameter of the code.
- *Prices.* Both instances have a price at or beyond every level that the code
  compares with, on the side where the comparison changes: below the stop, at the
  tightened and protected stops, between, at the first target, beyond the second.
  `paper_trade` has `protectR` at 3/2, so that the protected stop is beyond the second
  target when it is computed from the planned stop, at the first target or at the
  entry when from a tightened one; `stop_loosens` has it at 1/4.
- *Two trades, two signals.* A pass over two rows has a row before and after each
  step, two signals are one against the lock or cap and one that holds it. The cap
  is 1, so that the second signal meets it.

- *Main loop.* One fault falls between any two writes of a command, of a milestone or
  of the boot; two commands are one against the other within a batch or in two. A
  flag is patched at most once, which is enough to part the row from the commands.
- *Replay.* Four candles hold an entry, a first target, a continuation and the end
  of both. The shapes stand still, run to a target, run through everything, gap to
  a target and gap through the stop; the balance covers two losses.

None of the safety properties of the passing runs depends on these bounds: all of
them, invariants, action properties and refinements, are proved below. Neither `MaxFaults`, `Bars` nor the sets of candles and prices occur
in an assumption of a theorem beyond being numbers and sets of the right kind.

### Fairness

`CommandQueue`: a task that can continue does (the event loop is a queue); the
host calls `runOnce` and `recover` again and again and the adapter answers, which
is how the worker is meant to be run; retry delays end. Strong fairness is needed
where another task's turn disables a step now and then. Nobody has to dispatch,
and no lease has to lapse.

`PaperTrade` and `SignalDesk`: the main loop keeps running (`while (true)` with
every exception caught), time passes, and the feed is not silent at each turn of
one particular row for ever. The last is strong fairness of managing a row: a cycle
without price skips the row and the row's turn comes again. Nothing is assumed of
the operator, which is why `TrackedOutcomesResolve` is conditional on signal mode
being on for good.

`MainLoop`: the loop never stops by itself, and everything it catches leads to the
next pass (weak fairness of `Worker`); the tracker comes due again and again,
though a failing scanner or a flag may keep it from running (strong fairness of
`BeginTracking`); a price that is asked for ever is answered now and then (strong
fairness of `Priced`). Time passes only while the loop sleeps or is down, so no
single pass lasts for ever. Nothing is assumed of the operator or the faults.

### What the violated runs show

Each is an expectation stated in the repository that the code does not meet.
`PROJECT.json` quotes it.

1. `v2/docs/COMMAND_QUEUE.md` says that crashes do not strand work, and that
   acknowledged commands are resumed. `recover` looks at leased, started and sent
   commands only.
2. `docs/config-contract.md` calls the movement of the stop at the first target
   protective. It is computed from the current stop as if that were the initial
   one. After `tighten_then_force_close` has moved the stop past the entry, it
   moves the stop back.
3. `scripts/validate-signal-paper-lifecycle-truth.ts` expects the result at the
   close. `tp1_hit` counts as a close reason, so it comes at the first target.
4. `docs/config-contract.md` gives `SIGNAL_OUTCOME_MAX_AGE_SECONDS` as the timeout
   of unresolved outcomes. They are opened in every mode and followed only in
   signal mode, and meanwhile they lock their symbols. Since a trade and its
   outcome are separate rows, the lock outlives the trade.
5. `docs/config-contract.md` documents signal-mode output over Telegram. The
   entries to send are collected by paper execution, which signal mode skips.

## Theorems

All for arbitrary constants under the named assumptions of the modules
(`...Assumption`): finitely many workers and signals, a key for every command,
plans with the stop behind the entry and the targets ahead of it, a partial close
of at most the whole. The distance of the protected stop has no upper limit in the
configuration and none here. The assumptions are evaluated by TLC in every run.

**`CommandQueueProofs`.** `TypeCorrect` from `TypeInv`, which adds that a worker past
its lease has a command in hand. `KeysAreUnique`, `LeasesAreExclusive` and
`FinalIsFinal` from one inductive invariant, `IInv`. `OneCommandPerKey` alone is not
inductive: between reserving a key and inserting the command the claim is the
producer's, so the invariant says that whatever is stored or about to be inserted is
what the record of its key names. `Exclusive` needs that a command in a worker's hands
which was never recovered is out of the reach of `lease`, and `FinalUnlessRecovered`
that such a command is in nobody's hands once it is final. `CallsAreAccounted` is by an
invariant of its own, in which the calls still to be made by workers that hold the
command are counted with those made. `ImplementsAdmission`: initial states map to
initial states, and every step to a step of `Admission` or a stutter.
`OnlyCrashesStrandWork` and `OnlyCrashesStrandKeys`: if there is no crash, no command
and no key is stranded; the violated run is the other half. `EachCrashCostsOne` says
what a crash costs: in the turn it interrupts a single command is between two writes
(`turn`), and only that one can lose its task or leave a key without a command
(`CrashLeavesOne`), so what is lost never exceeds the number of crashes. Commands
recovered before are left out: two workers may have them.

About `Adapter`: `EntriesAreNeverProtected` follows an entry through all its
attempts and, within each, through the repetitions of the rate limiter; nothing the
exchange can answer or fail to answer makes the verification find a stop or a target that is placed
after it. `EntriesAreRepeated` counts what is filled meanwhile: once per attempt on
Binance, once in all on Bybit.

**`PaperTradeProofs`.** One invariant about each row (`RowInv`). Before the first target
nothing is realised, nothing sold, and the stop is between the planned stop and the
first target; after it the profit banked and the stop are both on the winning side of
the entry, and what the rest can still earn fits the bound. The most a unit may earn
(`Best`) is the second target, or the protected stop where `protectR` puts it beyond:
the code then fills the rest at a stop no price has reached. It needs a small arithmetic
of products and shares, in lemmas. From it: `TypeCorrect`, `ProfitIsBounded`,
`WinsAreNotLosses`, `ClosedTradesAreFinal`, `StopsOnlyRatchet`. `ImplementsPosition`
adds to each row that an open one has something left and another has not (`StockInv`),
without which a reset could drop a position that has nothing left. Every step is then
one row written, one added, the active ones removed, or no row touched (`StepKinds`),
and these map to `Sell` or a stutter, `Enter`, `Drop`, and a stutter.

**`SignalDeskProofs`.** The rows do not tell why a symbol has one signal: between
the reading of the lock and the writing of rows the claim is the cycle's, in
memory. `OneClaim` counts it with the rows (`Claims`, `Pending`), and is preserved
through resets that delete rows under the cycle and mode switches that hand the
rows to another kind of cycle. `BookIsCurrent`: the book in memory is never
behind the rows, so checking the cap on it is enough. `OutcomesSound`: what is
banked is never above what the outcome resolves at. From these: `TypeCorrect`,
`SymbolsAreExclusive`, `CapIsKept`, `BankedIsKept`, `ResolvedOutcomesAreFinal`.
`GrantedStopsHold` is about `ControlPlane`: a stop granted with a database ends the next
cycle, whatever the row and the two files hold, exactly if the worker reaches
database and queue store or has the web's file. `ShownOncePerLostAnswer` is about
`Telegram`: over any sequence of answers the chat shows a message once per answer
lost, and once more exactly if it is reported as sent.

**`MainLoopProofs`.** `MilestonesOnce`: what is in the memory of a running process
covers what is in the database, and is rebuilt from it at the boot; the milestone
under way is the exception the invariant carries. `StatusHasEvent` and
`StatusMovesForward` follow the pass with the event of each status before the row.
`FreezeRespected`: the row read when the pass began is not behind the commands,
unless patched. `ControlFollowsCommands`: for each flag, the last executed command
about it, or the one whose effect was written before its mark, explains the row.
`LostSocketsReconnect` is about `MarketFeed`: any history of openings, losses,
requests and refusals leaves a lost socket with its timer running.

**`BacktestProofs`.** One invariant about each open and each closed trade: which
part of it was sold where, and which stop it has left. `LossesAreBounded`,
`FirstTargetIsKept` and `ResultsFollowOutcomes` come from it by products of a size
and a distance, `AddOnsAreSafe` and `OneSignalOpen` from how continuations refer to
their base, `JudgedOnlyLater` from where in the walk a trade is, and
`ImplementsLedger` from the sum of what was settled.

**`StrategiesProofs`.** For every window and profile: plans are in order, entries
lie in the candle, retests fill behind the close that confirmed them, reversions stop at
the value, winners of the arbitration risk at most ten price units.

**`SelectionProofs`.** The preload covers readiness; reasons and readiness agree;
no live signal is A+ and nothing live is stored; the best scored candidate decides;
what is stored is free and apart, and an allowed selection of `SignalDesk`; the
brain selects at most one, above the expected R of that one (`SelectedIsOneAndClears`);
for the worker, whose label the brain does not know, that is the first by rank that
pays 1.1 R and no score counts (`LiveArbitrationIsByRank`); the floor of 55 points
and the dead override concern the engines the brain knows.
`DiversificationReorders`: one place looked at promotes one element, which is a
reordering that leaves the first alone (`PromotionReorders`); reorderings compose
(`ReorderedTwice`), so after all places the ranking is the same, in another order.

**`CapitalProofs`.** A lemma bounds a quotient by what it was taken of; from it the
quantities are bounded, decisions fit (`DecisionsFit`), so does what the worker makes of
them but for the smallest forex lot (`AdmissionsFit`), and the open risk keeps its cap
(`OpenRiskCapped`). Amounts fit to a unit of the model; the one place where a fraction
of a unit changes the answer, the margin at equality, is `Roundings`. A share of the
allocator is bounded by the room of its symbol and by what remains, hence by the budget
(`DecisionsKeepTheBudget`), and a whole allocation of any length shares out no more than
the budget (`AllocationKeepsTheBudget`, with `OpenRiskIsNeverTheReason` from the same
induction). The rest states what the arithmetic makes of configured values: ignored,
dead, or spared.

**Loops.** The adapter's attempts, the sends of a message, the walk along a ranking
and the life of a socket are recursive functions or sequences of steps of any length.
The induction theorems of the library take an operator, so these proofs use one about
sets instead: a set of naturals that has 0 and, with a number, the next has them
all (`SetInduction`, from `WFMin` and `NatLessThanWellFounded`). With it a function
defined from its predecessor is shown to exist (`RunExists`), which is what the
`CHOOSE` behind a recursive function needs, and then the invariant of the loop is
carried along it.

Only model-checked: the liveness properties (`EverythingSettles`, `StaleTradesClose`,
`TrackedOutcomesResolve`, `CommandsSettle`, `AgedResolve`, `StallsReported`),
which are outside the reach of the prover. Of the operator modules, `SignalRoom`,
`CycleReport`, `Planner` and `EventLog` rest on the assumptions of the MC modules
alone, and `MarketFeed`, `ControlPlane`, `Telegram` and `Adapter` on them for all that
the theorems above do not state; most of these assumptions are witnesses, which say
that a case exists and have nothing to generalise, the rest filter sequences
(`SelectSeq`) or sum over sets. The violated properties are refuted by their traces.

## Hazards

`PROJECT.json` lists each with its line and the properties that cover it. Where the code
is a function of what it has read, a hazard is shown by an assumption of an MC module or
by a theorem, which its note names, instead of a property of a run. Three have neither:
the store is read as empty when it cannot be parsed, and shared by processes only
against its design; a result event lost in a crash is promised nowhere, nor is the
management of trades while the system is stopped. Of some hazards the properties cover a
part, and the note says what is left. A key reserved before a crash stays reserved:
`CrashCostsOne` bounds how many.

## Not modelled

- *Indicators and scores of candles.* Averages, regimes and ATR are inputs of the
  strategies and of the selection; the models take any result. Money and prices are
  integers in a unit as small as wanted, rounding is division, except where it decides
  (`PaperAccount!Roundings`).
- *Two processes on one V2 store.* `locked` takes no lock, so two processes may
  lose each other's writes. The models have the one process the code is run as.
- *V2 operations no command reaches*: `modifyPosition`, `startTrailing`,
  `cancelOrder`, repair, spot products, the websocket client; of the queue
  `renewLease`, `releaseLease`, `clear`.
- *Events and logs* that nothing reads back: `RuntimeEvent` rows (except the
  decisions that carry the policy of a trade), health rows.
- *Pagination of outcomes*: those of a cycle are limited to the oldest 500.
- *The backtest beside its trades*: candidate funnel, shadow trades, regret,
  analytics, loading of files. They read the replay and change nothing in it.
- *Parsing of the providers' answers, authentication, listings, wording, rendering*
  (the dashboard), *MQL5* (skeletons that print), *deployment, research scripts.*

## Plan

Done: the five state machines with their proofs and four refinements (`Admission`,
`Position`, `Ledger`, and the selection by theorem), and the operator modules. What
is left, in this order:

1. More about the operator modules: what `EventLog` replays after a cleanup, that
   every command of `Planner` passed its gates and has a key of its own, that what
   `ControlPlane` saves is within its limits. They filter sequences, so lemmas about
   `SelectSeq` come first.
2. `Adapter` as actions of `CommandQueue`, so that crashes and lapses of the queue
   meet the memory of the adapter in one state space. Both are modelled; the
   product is large, and the theorems already say what a repeated call does.
3. The write of `PaperTrade` split into row and event.
4. The backtest's candidate funnel and shadow trades, compared with `Selection`.
