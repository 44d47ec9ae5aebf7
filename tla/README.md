# GoldManager: a TLA+ verification of the trading core

GoldManager (`src/src/xauusd_bot`) is an XAUUSD bot for MetaTrader 5: five
asyncio services that talk over Redis streams, a risk layer in front of the
broker, a journal, a dashboard and a backtest. This directory models the path
of a bar to features, to a decision, to an order, to a booked close, and what is
drawn from the journal afterwards. Each module is translated from the Python
source; `PROJECT.json` names, for every definition, the lines it stands for.

Contents: [the system](#the-system), [what is hard](#what-is-hard),
[the modules](#the-modules), [the runs](#the-runs), [the proofs](#the-proofs),
[where code and documentation disagree](#where-code-and-documentation-disagree),
[what is not modelled](#what-is-not-modelled), [the plan](#the-plan).

## The system

```
 MT5 terminal <--RPC-- MT5Linux connector ----------------------------+
      |                        |                                      |
      v                        v                                      v
 data collector --bars--> feature engine --features--> decision engine
                                                              | decision events
                                                              v
   dashboard <--state-- execution engine <--- kill-switch flag, settings (Redis)
       |                   |  approve -> size -> order -> zone -> plan
       |                   |  manage loop: partials, stop, runner, weekend
       +--kill switch      v
                       journal stream --> journal writer --> database
```

Every arrow between services is a Redis stream read through one consumer group;
the kill switch, the runtime settings, the managed positions (`mgmt:pos:*`) and
the risk totals (`state:risk_tracker`) are plain Redis keys.

### Components, their state and operations

| Component | State it keeps | Operations | What makes it correct | Module |
|---|---|---|---|---|
| Stream bus (`common/messaging`) | stream entries, group cursor, pending list; the batch in the consumer's hands | publish, connect, consume, ack, run_forever, stop, restart | one entry at a time, in order, at most once; with its group there, nothing waits for ever | `RedisStream`, `OnceInOrder` |
| Risk manager (`execution/risk.py`) | daily and weekly P&L, trades, calendar keys, pause | approve, record_trade, record_pnl, roll, restore_state | caps, pauses and exposure, whatever the clocks, restarts and lost replies do | `RiskManager` |
| Emergency stop (`execution/emergency.py`) | active, paused_until, state file | is_active, manual_trigger, activate_external_pause, clear, three automatic triggers | an engaged switch takes effect; a released one lets trading resume | `KillSwitch` |
| Execution engine handler (`execution_engine.py`) | nothing of its own but `mgmt:pos:*` and the pipeline | handler, manage loop, journal close, emergency sync, state publication | no position without a plan, every close booked once | `ExecutionEngine` |
| Execution pipeline (`execution/pipeline.py`) | zone per ticket, previous close and hour | process, note_bar, on_position_closed | what is managed is what the broker holds, within the risk granted | `OrderEntry` |
| Position manager (`execution/position_manager.py`) | the `ManagedPosition` | plan | a stop that only tightens, each target banked once, flat for the weekend | `PositionManager` |
| Stop, take-profit, sizing (`execution/stops.py`, `take_profit.py`, `sizer.py`) | none | compute, trail, size | a loss within the budget | `TradePlan` |
| Zone lock (`execution/zone_lock.py`) | zones, ids, cap | can_enter, open, mark_used, note_price, on_h1_close, prune | one entry per zone, re-entry only after a re-test | `ZoneLock` |
| Order manager, connectors, bridge, safety checker | RPC session; equity peak and checks | order_send, order_modify, close, positions, account, check | failures told apart from empty answers; the session comes back | `OrderEntry` |
| Data collector, feature engine | last bar published; rolling buffers, clock offset | poll, publish, warm-up, handle | each closed bar once and in order, a buffer that lacks only what the bus lost | `MarketData` |
| Feature engines (`features/`) | none: functions of the buffer | compute | no feature looks past its bar | `Features` |
| Decision engine, LLM client, trading hours | cached AI toggle, last answer | aggregate, score, decide, retry, fall back, qualify | a qualified decision came on an allowed path in allowed hours | `DecisionEngine`, `Scoring`, `TradingWindow` |
| Journal writer and stores (`journal_writer.py`, `journal/`) | tables or dictionaries | insert, upsert, close by ticket, list, update a proposal | a close meets its own trade | `Journal` |
| Review and fitting (`review/`) | proposals in the journal | sample, ask, parse, propose, validate, approve, reject | no proposal decided outside its life cycle | `Review`, `ProposalLifecycle` |
| Dashboard (`dashboard/`) | sessions, sockets and topics, stream cursors, backtest tasks | login, refresh, logout, toggles, views, subscribe, broadcast | a logout sticks, an answer is current, the feed is in order | `Dashboard`, `Views`, `LiveFeed` |
| Backtest, exit replay, walk-forward (`backtest/`) | paper account, journal, tape | run, book, report, replay, windows | the replay agrees, the account adds up, windows are sound | `Backtest`, `WalkForward` |
| Runtime configuration | Redis keys with and without expiry | get, set | flags survive, snapshots expire | with their readers |
| Pending orders, OHLC builder, monitors | | | not constructed by any live service | |
| Notifications, health check, entry point, CLI, overlay | files | write | best-effort output | |

`PROJECT.json` lists the same components with their sources and with what is
modelled of each.

### How they interact

- The execution engine handles one decision event at a time. Within it
  `ExecutionPipeline.process` is synchronous: nothing else of the event loop
  runs between the first gate and the order. The manage loop before it and the
  publications after it are not: each Redis call is a point where the process
  may die, the broker may close a position, or another task may run.
- `_sync_emergency` (every 3 s) and `_publish_state` (every 3 s) are tasks of
  the same loop; `manual_trigger` and `clear` run in a worker thread beside it.
- The manager and the broker share the book: stops, targets and the operator
  close positions while the engine holds a snapshot.
- The handler and the journal writer share only the journal stream.
- The risk manager reads two clocks: `approve` and `record_trade` the broker's
  bar timestamps, `record_pnl` and `roll` the wall clock.
- The feature engine and the collector share the terminal: the warm-up reads
  bars from it that the stream will bring again or no more.
- Writer and dashboard each choose their store once, at start: the database if
  it answers, a private dictionary if not. From then on they may not share one.
- Requests of the dashboard, the subscriber's task and the websocket endpoints
  interleave on one event loop at every await.

## What is hard

`PROJECT.json` lists the hazards with their lines. In short:

- **Interleavings.** The worker thread of `manual_trigger` against `approve`;
  closes by the broker during the manage loop; a session's refresh against its
  logout; a broadcast against the sockets that come and go between its sends;
  two operators and a validation over one proposal.
- **Stale answers.** The kill-switch flag and the AI toggle read before an await
  and used after; an empty `positions_get` that means "failed"; a clock offset
  read once; a connection to a bridge that has restarted.
- **Crashes.** Between fill and stored plan, between booking and deletion of
  the plan, between an applied action and the stored plan; between the
  collector's publication and its memory of it.
- **Lost replies, partial fills.** An order that filled but was reported as
  rejected; a batch that Redis delivered to a connection that broke; the group
  that one failed call at the first start leaves uncreated.
- **Two calendars.** Around midnight the bar clock and the wall clock name
  different days, and each of `approve` and `record_pnl` resets the totals; a
  walk-forward adds months to dates their month may not have.
- **Limits.** Stream cap, zone cap, minimum and maximum lot, equity zero, loss
  exactly at the cap, the limit of a listing.
- **Code written twice.** Long and short in every scorer and in the trail; the
  exit loop in the engine, in the backtest and in the exit replay; the journal
  in memory and in the database.
- **Liveness.** A closed position must be finalised, an engaged switch armed, a
  weekend flat, a hanging LLM call given up, a bridge connected again.

## The modules

| Module | Models | State in TLA+ ↔ state in the code |
|---|---|---|
| `RedisStream` | one stream, its group and its consumer process | `stream`, `delivered`, `pel` ↔ Redis; `batch`, `cur`, `pc` ↔ the position inside `Consumer.consume`; `client`, `group` ↔ `_client` and whether Redis knows the group; `attempts`, `handled`, `failed`, `acked`, `stranded` are history |
| `OnceInOrder` | what a handler may rely on | abstract; `RedisStream` implements it |
| `RiskManager` | `risk.py` driven by the engine, with broker, Redis key and two clocks | `risk` ↔ `_RiskState`, `emUntil` ↔ the emergency manager's `paused_until`, `saved` ↔ `state:risk_tracker`, `open`/`closed` ↔ broker and unfinalised plans; `truth`, `lossy`, `blind`, `pauseEnd` are history |
| `KillSwitch` | flag, emergency manager, `_sync_emergency` and its thread, the entry handler | `engaged` ↔ `runtime:emergency_stop`, `active`/`until` ↔ `_state`, `sync`/`stage` ↔ where each of the two is |
| `ExecutionEngine` | handler, journal writer, broker, `mgmt:pos:*` | `plans`, `todo`, `snap`, `cur`, `pc` ↔ `_manage_positions` and the entry; `events`, `row` ↔ journal stream and table; `booked` ↔ what reached the risk totals |
| `PositionManager` | `PositionManager.plan`, `StopManager.trail`, the manage loop for one position | `plan`/`next` ↔ stored and updated `ManagedPosition`, `todo` ↔ the action list, `stop`/`lots` ↔ the broker's |
| `ZoneLock` | `ZoneRegistry` as the pipeline drives it | `zones`, `byTicket`, `lastClose` ↔ `_zones`, `_zone_by_ticket`, the pipeline's previous close |
| `TradePlan` | initial stop, targets, volume | functions, used by `OrderEntry` and `Backtest` |
| `OrderEntry` | `ExecutionPipeline.process`, safety checker, order, slippage trim, both connectors and the bridge | `client`, `server` ↔ the connection and the bridge process; `safety` ↔ the checker; `order` ↔ the locals of `process`; `book` ↔ the broker; `managed`, `zones`, `trades`, `counted` ↔ plans, registry, journal, risk; `mishaps` is history |
| `Features` | the feature engines | functions of the bars |
| `MarketData` | collector, `market_ticks`, warm-up and handler of the feature engine | `chart`, `now`, `idle` ↔ the terminal; `col.last` ↔ `last_time`; `fe.bars`, `fe.deep`, `fe.offset` ↔ the buffers and the clock offset; `taken` ↔ the group's cursor; `out` ↔ the newest event; `fe.lost` (the entries this process will never be handed) is history |
| `TradingWindow` | `trading_hours.py` | functions |
| `Scoring` | aggregator, scoring, rules, qualification | functions of the bundle |
| `DecisionEngine` | the decision service's handler | `ai` ↔ `_RuntimeAIFlag`, `cur`, `pc` ↔ the handler; `lastAi`, `usage` ↔ Redis; `event`, `row` ↔ what was published; `offFor` is history |
| `Journal` | both stores and the writer's events | a store's content is a value; `Dashboard` holds it |
| `Review` | review, sampling, proposals, validation | functions of the journal |
| `Views` | the dashboard's reading endpoints | functions of journal and streams |
| `LiveFeed` | the subscriber and the websocket hub | `cursor`, `since`, `response` ↔ `_consume`: the cursors, and of each stream where the answer stands and what it has left; `clients`, `byTopic` ↔ the hub's two maps; `got`, `shown` are history |
| `ProposalLifecycle` | what the journal promises of a proposal | abstract; `Dashboard` implements it |
| `Dashboard` | composes `Journal`, `Review`, `Views`, `LiveFeed` with sessions, switches, tasks | `backend`, `db`, `mem` ↔ each process's store; `sessions` ↔ Redis; `pc`, `copy` ↔ the requests; `past`, `lost`, `misfiled`, `left`, `raced` are history |
| `Backtest` | `BacktestEngine.run`, its report, the tape and `exit_replay` | `open`, `journal`, `balance`, `booked` ↔ positions, journal, paper account, risk manager; `entries` ↔ the tape |
| `WalkForward` | `_add_months`, window knobs, the loop over windows | one action per round of the loop |
| `Maybe` | `None` | |

Modules that look at one side of a component leave the others as a choice:
`ExecutionEngine` lets any entry through or not, because which one passes is
`RiskManager`'s and `KillSwitch`'s question; `MarketData` relies on the stream
as `OnceInOrder` states it. A step of a model is what happens between two points
where another actor may act: an await in a handler; in `KillSwitch`, where a
thread runs beside the loop, a single assignment.

`<Module>Proofs` holds the theorems about a module, `MC<Module>` its instance
for TLC. `MCMarketStream`, `MCExecution` and `MCTrade` hold two or three components
that share no variable: `part` says whose behaviour it is, and the others rest. Operators marked `\* Mutant:` are faulty variants of the definition
next to them; no specification uses them. They are what each property is
tried against: with the variant in place the property must fail.

### Refinement

- `RedisStream` implements `OnceInOrder` (`KeepsPromise`): published entries are
  numbered, `given` are those handed to the handler, `running` is the one in
  work. Checked by the run `market` and proved (`StreamKeepsPromise`).
- `Dashboard` implements `ProposalLifecycle` (`FollowsLifecycle`): the stored row
  and the versions it has had, `atomic` where the store is the one in memory. The
  abstract module says what differs between the stores: with the database's
  check-then-write a decision may be undone by a write that was checked before
  it; in memory it is final. Checked by `operations` and proved
  (`DashboardFollowsLifecycle`), so what is proved of the life cycle
  (`LifecycleDecisionIsFinal`, `LifecycleNeverReopened`) is proved of the dashboard.

### Abstractions to know

- *RedisStream.* An entry is its id; of its payload only whether it decodes.
  `MAXLEN ~` may keep more than the cap, never less. Liveness needs the
  process to be restarted; a failed read is repeated by the next loop
  iteration. A first start finds no group: `Connect` creates it, and
  `ConnectFails` leaves the consumer with its client and perhaps without a
  group, from which only a restart leads on. Redis keeps what it has
  (append-only, no eviction), so a group once created stays. `MarketData`,
  `ExecutionEngine` and the others start with their groups in place: what they
  say of a live service presumes one successful `xgroup_create` in the life of
  the installation.
- *RiskManager.* Time is in ticks longer than the 15 s life of the saved
  totals, so a process that is down for a tick has lost them; within a tick
  they may or may not have expired. Bar timestamps run `Offset` ticks ahead.
- *KillSwitch.* Dates are "future" or "past"; no property compares two of them.
  A Redis error at the gate ends the handler, as a "no" does. Order rejection,
  age and zone gates are the same step back to "idle".
- *ExecutionEngine.* `ManageLive` is one position's planning, applying and
  storing in one step; `PositionManager` splits it. The process may die at any
  await, and a call that fails is a step of its own. A Redis write whose reply
  was lost is the successful write followed by the failure of the next one.
- *PositionManager.* Prices are points from the entry, volumes are lot steps,
  one R is `InitialRisk`. Whether the structure shifted against the position is
  a Boolean of the bar.
- *ZoneLock.* The tickets are the entries in order. A restart in the code
  numbers zones from 0 again; the model counts on, since ids are only compared.
- *TradePlan.* All prices are on the signed axis of the trade, on which profit
  is up; the code branches on the side at each comparison. Volumes are lot
  steps, money is volume times distance times the contract.
- *OrderEntry.* A client remembers the life of the server it is connected to; a
  server that died and came back has another life. Gates that `ZoneLock`,
  `RiskManager` and `KillSwitch` model are passed.
- *MarketData.* A step of the clock is a minute. The stream delivers in order
  and at most once: any published entries may be lost between the cursor and
  the handler (`BusLoses`, a fault), with a process that dies, or to the cap
  of the stream (`Trim`). A lost entry is counted in `fe.lost` for the process
  that was up when it went; what went before, a warm-up makes good. `Features`
  rounds means down and leaves out percentile ranks and the momentum score.
- *DecisionEngine.* A tick is ten seconds. A bundle carries what scoring and
  qualification compare; prompts and reasoning texts are left out. An answer of
  the LLM is any valid one of a small set, whatever it was asked.
- *Journal, Dashboard.* A store that raises leaves its content as it was.
  `work` is a scenario: which requests are made, by whom, over which journal.
- *Backtest.* Whether a bar brings an entry is a choice, its side and levels come
  from the bar. Every cost model but the news-aware spread is a base and a share
  of the bar's range, and so is a chain of them; the news multiplies the spread.
- *WalkForward.* Times are days since the first day of `datetime`; the
  calendar is its calendar. A round of the loop is a step; what the backtests
  of a window find is left out.

## The runs

`CHECK_DEADLOCK FALSE` everywhere: the bounds on entries, bars, requests and
faults stop the system, and the system itself may stop trading.

| Run | Bounds | What it shows |
|---|---|---|
| `risk` | 2-tick days, 2-day weeks, offset 1, 5 ticks, 3 entries, 1 crash; caps of one and two losses | Caps, pauses, exposure and totals through day and week changes, diverging clocks, restart, lost replies and failed reads. |
| `engine` | 2 positions, 2 faults | Plans, bookings and journal rows stay right over every interleaving of handler, broker, journal writer, restart and fault. |
| `zone` | 3 prices, bands of 3 points, cap 2, 3 entries, 1 fault | One entry per zone; re-entry only after a re-test, through evictions, closes and restarts. |
| `market` | *bus:* cap 2, batch 2, 4 entries, 2 faults; *market:* 4 bars, 1 fault, pauses of 20 and 40 minutes, buffers of 2 to 4 bars, a stream capped at 2; features over 9 charts of 8 bars | *Bus:* From a first start without a group: the consumer keeps the promise of `OnceInOrder`, and once the group is there no entry waits for ever, over failed connects, poison entries, raising handlers, crashes, stops, restarts and lost replies. *Market:* What is published twice or skipped, what the buffer holds, what it lacks when the bus loses or trims entries, when a blackout is seen; cutting the future off a chart changes no feature of the past. |
| `decision` | 5 bundles, 4 answers, 2 attempts, 2 bars, 2 toggles, 1 fault, a deadline of one tick; pure parts over 7056 samples and their mirror images | No entry that is not justified end to end; the toggle takes effect within its cache; a setup and its mirror image differ by the known lean to the long side and by nothing else; the handler always returns. |
| `execution` | *switch:* 3 orders, 4 commands, 1 crash; *position:* 1R = 2 points, TPs at 1R/2R/3R, 30 %/30 % of 10 lots, 3 ATRs, 3 swings, 2 faults, both sides | *Switch:* At most one order slips past an engaged switch; engaging and releasing take effect although the manager and its thread race. *Position:* The broker's stop never loosens, targets are banked once, a weekend is flat. |
| `trade` | *live:* both bridges, 2 decisions, 2 faults, slips 0, 2 and 12 points, equities around the drawdown limit; *replay:* 4 bars of 7 shapes, 4 trades, listing limit 3; or 7 walk-forward settings from 8 dates, over up to 500 days | *Live:* What the service manages is what the broker holds, its risk is within the cap at the price of the fill, and the rpyc connection comes back. *Replay:* Replay and engine agree trade by trade; account, risk manager and journal book the same; the report adds up. The windows of a walk-forward run move on and tile the range. |
| `operations` | up to 4 requests, 6 journal events, 1 outage, 2 sockets, 2 streams, 3 entries, 1 reconnect, chosen per scenario | Closes, sessions, views, feed and proposals under every interleaving of the scenario. |
| `position_peak`, `stream_group`, `decision_structure`, `decision_veto` | the smallest that reach the case, or the sibling's | Each refutes what the code's documentation says, see below. |

Why these bounds are enough to be interesting:

- *market*, the bus: four entries against a cap of two let trimming overtake
  the reader; a batch of two lets a fault strand its second half; two faults
  let a restart be interrupted, or its connect fail.
- *risk*: with days of two ticks and an offset of one, both clocks agree in the
  first half of a day and differ in the second; five ticks cross a day twice and
  a week once. Equity 50 puts the daily cap at exactly one loss and the weekly
  at the second, 0 is the boundary case of the loss fraction.
- *execution*, the switch: engage, release and engage again is the shortest
  path to a manager with a stale date; the fourth command releases the last.
- *engine*: two positions, one finalised while another is entered or managed;
  two faults, so that the recovery of the first can fail.
- *execution*, the position: the prices reach every target but the last and
  fall back through it; the ATR widens between bars, which is what a ratchet
  must survive.
- *zone*: three entries overflow a cap of two; three prices put a close inside,
  on the edge of and outside a band.
- *decision*: two bars let an answer to the first be taken for the second's; the
  bundles pass every gate, fail each one alone, and lack every engine. One has a
  CHOCH newer than its BOS. The samples hold sessions that vote and that do not.
- *market*, collector and features: a pause puts a restart into a closed
  market; a warm-up shorter than the history lets the stream and the terminal
  overlap or leave a gap; a stream shorter than the history is trimmed ahead
  of a feature engine that is down.
- *trade*, replay: four bars reach both partial closes and the final exit; a
  stop, an adverse event, a weekend and news are shapes; four trades exceed a
  listing limit of three. A behaviour is one backtest or one walk-forward run;
  these start on the last days of months and span a leap day.
- *trade*, live: a slip of 2 can be trimmed, one of 12 cannot; two faults kill the
  bridge before and after a restart.
- *operations*: two deciders and one validation are the fewest that overwrite
  each other in the database; a trade left open, and one of a later process with
  its ticket, are what a close can be misfiled between; one close comes twice.

No symmetry is used: tickets, ids and prices are ordered.

### Fairness

- `market`: weak fairness of the bus consumer's steps and of the restart. The loop
  `run_forever` repeats as long as the process lives and the container restarts
  it. Nothing is assumed of publishers, and faults are bounded, not fair.
- `execution`, the switch: weak fairness of the handler's steps, of the worker
  thread's and of the restart, strong fairness of `Decide`. `Decide` is a
  ready task of the event loop that cannot run while `process` holds the loop;
  asyncio's ready queue is first in, first out, so it runs as soon as the loop
  is given back. Redis is assumed to answer in the end.
- `engine`: weak fairness of the handler, of the restart and of the journal
  writer. A decision event comes with every bar, and the handler runs the
  manage loop before it looks at the decision. The one exception is an event
  without a feature bundle, which skips management; bars with bundles are
  assumed to come again.
- `execution`, the position: weak fairness of the manage loop for the same
  reason. `odd` makes a bar without an action a step, so that fairness demands
  only that bars come, not that one of them is helpful. The weekend cutoff
  lies several bars before the market closes; the model says "closed in the
  end".
- `decision`: weak fairness of the handler's steps and of the clock. The LLM is
  not fair: it may never answer, and the deadline of the call is what ends it.
- `trade`: weak fairness of `PublishState`, a timer of the execution engine that
  reads the account every three seconds, and of the steps of `process`, which
  runs to its end. The bridge is not fair; `RpycComesBack` assumes that it stays
  up from some time on.

Operator commands, broker closes, failures and crashes are never fair.

## The proofs

TLAPS proves the theorems below for all values of the constants that satisfy
the module's named assumptions, where it has any. `StreamAssumption`,
`RiskAssumption`, `KillAssumption`, `EngineAssumption`, `ManagerAssumption`,
`FeedAssumption` and `PlanAssumption` say that the parameters are numbers, the
ones divided by or compared with positive. `EntriesAssumption` says that a
decision carries integer prices, and `WorksAssumption` that a scenario of the
dashboard starts with proposals nobody has touched and that a request names
things that exist. `EventsAssumption` says that events come in the order they were
published, a trade's opening before its closes, and that a ticket that comes again
is that of a later trade. `MarketAssumption` types bars and news, demands that the broker's clock is off
by whole hours, and that the blackout after news is no longer than a day: the provider
only keeps the events of the last 24 hours, and a longer blackout would not be seen. `DecisionAssumption`
types the bundles and answers, with `NoneAssumption` that `None` is none of
their values. `RunsAssumption` says that the
lengths of a walk-forward run are numbers, the in-sample one positive, which the
constructor validates; nothing validates that the other two are not negative.
`BacktestAssumption` is what the constructors of the cost models,
the exit settings and the bar validate, and that a trade's labels are those the
schemas name. `ChartsAssumption` and `SamplesAssumption` say what `PointInTime` and
`LeanIsKnown` are stated of: charts of bars in order of time, and bundles of the
shape the service reads, at any hour, where `None` is no part of one or of its
mirror. `PagesAssumption` types what the dashboard's pages read: the
times of trades, snapshots and bars, and positive limits. TLC evaluates all of
them, and checks the invariants before they are proved.

| Module | Theorems | Strengthening they rest on |
|---|---|---|
| `MarketStreamProofs` | `StreamTypeOK`, `StreamAtMostOnce`, `StreamAckOnlyDone`, `StreamTrimOnlyBehindCap`, `StreamInOrder`, `StreamKeepsPromise`; `MarketBarsAdvance`, `MarketBufferHasNoHole`, `MarketBlackoutIsSeen`, `MarketPointInTime`, `EnginesSeeNoFuture` | `Seen`: what was handed over lies behind the cursor and before what the batch still holds. `Held`: the entry in work was handed over, and handled before it is acknowledged. Order alone is not inductive, because the next delivery must be known to be newer than everything seen. For the refinement, the initial states map to initial states and each step to the abstract step of the same name or a stutter. For the market, `MarketInv`: what has been published is part of the chart in its order (`TicksOK`), the collector remembers nothing newer than it published (`CollectorOK`), a repeated or missing bar is paid for by a restart or a fault (`RepeatsPaid`, `MissingExcused`), every published bar from the buffer's oldest on is in it or in `fe.lost` (`BufferOK`, `NoHole`), whatever was lost or trimmed, and the offset is the true one where a warm-up read it from a fresh bar (`OffsetOK`). For the features, `EnginesSeeNoFuture`: two buffers that hold the same bars up to a moment, in whatever order, repeated or not, and under any clock offset, give the same features. `Until`, the cut that `filter_pit` makes, is shown to exist as a function and to add nothing for a later bar; then each of the ten engines reads the closed-bar part only through `PointInTimeBars`. |
| `RiskManagerProofs` | `RiskTypeOK`, `RiskPauseHolds`, `RiskExposureBounded`, `RiskNeverHedged`, `RiskTotalsExact`, `RiskLossCapsEnforced` | `PauseKept`: the pause owed is the pause in `risk` or lies behind the bar clock, whatever the totals and the emergency manager do. Exposure and hedging are inductive together with the type invariant: an entry that was not blind compared with the true book. `TotalsInv`: rolled over to the wall clock, the state in memory gives the true totals, and neither it nor the saved copy has booked anything under a day or week that has not begun (`NoneAhead`), though the bar clock may have rolled it there. Of the two calendars it uses only that division is monotonic. |
| `SwitchProofs` | `KillTypesHold`, `KillAtMostOneLateOrder`; `DecisionEntriesJustified`, `DecisionAiOffTakesEffect`, `DecisionLeanIsKnown`, `LeanOfBundle` | `LateBudget`: with the flag set, late orders and the handler beyond its gate add up to one at most. `Room`: a handler at work has an order left to send, which bounds the counter. For the decision engine, `JustifiedInv`: what each stage of the handler still holds of the rules' verdict (`RulesSpoke`), which gates it has passed (`PastTheGates`), and that the decision it is about to publish is backed by one or by an answer to this bar (`DecisionBacked`). `ToggleInv`: the cached flag is no older than its life, and what was read before the switch was turned off (`OffSince`, `CacheFresh`, `AskedInTime`) is used within it. `LeanOfBundle` holds for any bundle, not only the sampled ones: mirroring is one-to-one on zones, levels and events, so every count stays. One lemma per scorer says that its vote turns around (the session's, which has no side, stays) and that its value stays, but for the VWAP and the value areas, whose values are the lead apart (`ValuesLead`: both scores stay within the scale, so the clamp takes nothing away). The votes then cancel but for the session's (`NetsCancel`), conflicts and vetoes are the same of either side, and the rules, which read net vote, band and presence only, turn around where these do (`RulesTurn`). |
| `ExecutionEngineProofs` | `EngineTypeOK`, `EnginePlanKept`, `EngineBookedAtMostOnce`, `EngineEveryCloseBooked`, `EngineNeverBookedWhileOpen`, `EngineClosesFindTheirTrade` | `Settled`, `CurInWork`, `SnapIsRight` (what the snapshot lacks is closed or was misread), `BookedIsGone`: together they tie the ticket in work to the book, the plans and the totals at each await. `JournalInv`: a stored plan's trade event is out (`PlanIsTraded`), so a close in the stream lies behind its trade (`CloseFollowsTrade`), unless that was lost. |
| `PositionManagerProofs` | `PositionTypeOK`, `PositionTargetsBankedOnce`, `PositionStopOnlyTightens` | `Work` (the shape of the action list), `StopBehindPlan` (the stored stop is at least as tight as the broker's, but while an updated one awaits storing), `BankedIsMarked`. |
| `ZoneLockProofs` | `ZoneOneEntryPerZone`, `ZoneEntryOnlyOnRetest` | `Numbered` (ids and tickets are never reused), `Followed` (tickets have zones of their own, open or dead while the ticket is followed), `Banded` (a followed position's zone has its side and band), `Retested` (an armed zone was left, a broken one is dead). One entry per zone is not inductive alone: the lock compares zones, the property compares positions, and `Followed` with `Banded` ties them together. |
| `DashboardProofs` | `DashboardIndexAgrees`, `DashboardFeedInOrder`, `DashboardLogoutSticks`, `DashboardFollowsLifecycle`, `LifecycleDecisionIsFinal`, `LifecycleNeverReopened`, `DashboardDecisionIsFinal`, `DashboardNeverReopened`, `DashboardCloseFindsItsOwn`, `DashboardAnswersAreCurrent`, `ChartOfTwoStreams` | `Registers`: both maps have their shape and agree; one lemma per operation of the hub. For the feed, `Gapless` (what is shown of a stream is an interval up to its cursor) and `Position` with `Received`: the next entry of a stream lies behind what any socket it goes to has received, on this connection and over reconnects. For sessions: a request that holds a refresh in its hand belongs to a session that was alive or that raced its logout. For the refinement, `ProposalInv`: both stores hold rows of the schema, the stored row is one of the proposal's past, and so is the copy a request holds between its read and its write. `Recorded`: a version of a proposal has a status. For the closes, `JournalInv`: either store of the writer keeps a trade with the id, opening time and tickets it was opened with (`FiledAsOpened`), and an opening that was taken is filed or lost (`FiledOrLost`). A close whose trade is filed and open therefore meets the newest open trade of its ticket, which is its own. For the pages, `JournalInv` gives finitely many trades with known times, and `SnapInv` that every snapshot has one. The list reads all trades when its limit is not below their number; rounding a clock's difference to hours moves the end of a window by half an hour at most; the newest snapshot survives every cut from the other end. For the chart, from one of the newest candles on there are at most as many minutes as these candles have (an injection into candles and offsets), hence at most twice as many entries, which is what is read; and a part of the candles that has the newest ones has the same newest. |
| `TradeProofs` | `SizeWithinCap`, `PlanIsSound`, `EntryManagedAsHeld`, `EntryRiskWithinCap`; `BacktestLossWithinBudget`, `BacktestBalanceIsBooked`, `BacktestReplayMirrorsEngine`, `BacktestReportAddsUp`; `WalkForwardSound` | `Tickets` (what book, plans and zones name was decided before, and the ticket in work is in none of them too early), `InWork` (what the locals of `process` are at each stage, and what they say of the broker's position), `Covered` (what the broker holds is managed, excused or in work). The cap rests on `SizeWithinCap`, the same bound for the sizer, and on the trim's volume being a floored quotient. For the backtest, `PlanIsSound` gives each entry its shape; `TradesInv`: an open position's volume, stop and what it has realised bound its loss, and a result in the journal is within that bound. `BalanceInv`: the balance is the sum over the journal of results and of what open positions have realised; lemmas say what a sum becomes when one entry changes or one is added. `ReplayInv`: for each entry of the tape, the state of the replay after the bars so far is the open position's, or it left at the price the engine closed at. One lemma per part of the walk (partial closes, flags, ratchet, exit) shows that the two copies of the code agree on it. For the report, `DoneInv`: when the run is over nothing is open and the report is the one of the journal. A fold over a set exists and may take its members in any order, so each figure of the report becomes a `Total` over the journal, of amounts or of 0 and 1; the drawdown goes step by step. For the walk-forward, the calendar first: months follow each other, every day is in exactly one, and adding months lands in the month counted. `WalkInv`: each window is the one from its start and starts one step after the last. That the parts tested meet rests on `LaterCommutes`: on a day every month has, the order of two additions does not matter. |

`Total`, `ReplayState` and `Until` are recursive functions of a sequence, and the
report's figures are folds. What is proved of them goes by least counterexample: a
set of naturals without a least member is empty (`NoLeast`, from the
well-foundedness of `<` in the library), applied to the lengths or sizes at which
the claim fails.

Proving `AiOffTakesEffect` corrected it. As first stated, a bar was judged by
whether the switch had long been off when the bar was taken. A switch that is
turned on again before the handler asks for it refutes that, and the run with
its single toggle never did it; now the moment of asking counts, and the run
has two toggles. Proving `CloseFindsItsOwn` corrected that one too. It left out a
close that comes twice, and its run had none: the second finds its own trade
closed already and takes an older open one with the same ticket. The property now
excepts just these, and the run has one. Proving `AnswersAreCurrent` put into it
what its comments had said in words: a chart is whole as long as no bar was added
more than twice (`AddedTwiceAtMost`: an entry that cannot be read counts as one of
the two), and the totals miss nothing as long as the journal is no longer than one
query reads (`MaxRows`, 10 000 in the code; beyond it the newest trades are the
ones left out). Every scenario of the run meets both.

Each file states the inductive invariant, shows that the initial states satisfy
it and that each action preserves it (one step per action), and ends with the
temporal conclusion.

Every invariant and every safety property of a step that a run checks is also the
statement of a theorem. Only model-checked are:

- all liveness: `EveryEntrySettles`, `CommandsTakeEffect`, `ClosedIsFinalised`,
  `WeekendIsFlat`, `HandlerReturns` and `RpycComesBack`. The prover has no rule for
  fairness here, and its temporal backend none for `ENABLED`;
- `PeakIsExtreme`, which does not hold (below).

## Where code and documentation disagree

Four disagreements are runs that are expected to fail their property:

- `stream_group`: `connect` keeps its client before the group exists
  (`streams.py:197-198`). If `xgroup_create` raises on a first start, `run_forever`
  swallows it (291-293), `consume` never connects again (233-234), and
  `XREADGROUP` answers NOGROUP until the process is restarted: entries wait under
  a live consumer whose loop the code means to "keep alive". `EveryEntrySettles`
  is therefore stated from the group's creation on.
- `decision_structure`: the veto asks `last_bos or last_choch`
  (`qualification.py:278`), whatever their times. Its docstring (265-268) says it
  blocks "on the most recent BOS/CHOCH", the module's (17-18) "the last
  BOS/CHOCH". As a CHOCH_DOWN comes only after a BOS_UP and CHOCH_UP never
  (`structure.py`), a CHOCH is not consulted at all, and a long enters
  against a newer CHOCH_DOWN. `EntriesAreJustified` holds entries to the event
  the code does consult.
- `decision_veto`: where the rules say no trade and the LLM enters, the module's
  docstring (`ai_orchestrator.py:46-48`) says that the fallback "can VETO the
  LLM" and `_classify_resolution` (594) "rule wins". `decide` returns the LLM's
  decision all the same (333) and journals it as `rule_vetoed`.
- `position_peak`: the stored peak misses the extreme of bars without actions
  (`execution_engine.py:420`), although `ManagedPosition.peak` is "Highest price
  seen since entry" and `plan` asks that the returned state be persisted.

The others are written into the models as the code has them; the properties say
what still holds beside them.

*Bus.* `consume` reads with `>` only (`streams.py:240`) and nothing claims pending
entries, so an entry whose handler raised is never delivered again. The docstrings
at 228-230, at 10 and in `service.py:196-197`, and the comment at 272, promise it.
`StreamAtMostOnce` proves the opposite: no entry is handed over a second time.
`EveryEntrySettles` therefore counts such an entry as settled.

*Execution.*
- The loss caps do not survive a restart of more than 15 s, the default life of
  `state:risk_tracker` (`execution_engine.py:70` against the comment at 60-61).
- Engaging the kill switch halts entries but closes nothing: the callback of
  `pipeline.py:166` only logs, while `execution_engine.py:137` and the alert at
  147 say the book is flattened.
- An empty answer of the terminal reads as "all positions closed"
  (`mt5linux_connector.py:391`): plans of open positions are deleted, against
  `execution_engine.py:207-208`.
- A refused stop modification or partial close is taken for done
  (`execution_engine.py:421`). It is not retried on the next bar, which
  `mt5linux_connector.py:599` says it is: the plan already holds the new stop.
- A zone past the registry's cap is dropped although its position may be open,
  once it is not in the state `open`.
- The mt5linux connector never connects again after the bridge has restarted:
  `_reset` (144-146) forgets that it was initialised but keeps the dead client;
  the docstring (24-27) says it reconnects. `RpycComesBack` holds for the other one.
- An IOC order filled in part has another return code than `DONE`: it is
  reported as rejected and its position is nobody's.
- The peak equity of the drawdown check is of all time and never lowered: once
  tripped it stays so until the equity is back. `mark_broker_error` has no caller.
- The rpyc connector's `order_modify` sends the action for pending orders.

*Decision.*
- Trading hours are a "hard gate, all modes" (`ai_orchestrator.py:184-186`), but
  the pipeline does not ask them when the AI toggle is off.
- With the toggle on and `ai_layer_enabled` off every bar is vetoed. A failed LLM
  call never leaves the rules' entry standing: the fall-back is no trade.
- A scout answer without a side enters long; entries of the model on the other
  side of the rules are logged as agreement.
- `state:last_ai` younger than 20 s "belongs to this bar"
  (`decision_engine.py:174-176`): it can be of the bar before.
- The band is of the unrounded total, the published total is rounded.
- The scores lean to the long side, in three places. A session that votes
  (London, New York and their overlap, 07-21 UTC) votes long
  (`aggregator.py:128-133`); a VWAP vote adds five points when it is long and
  takes five when it is short (343); a locked profile is worth 65 above its
  value area and 45 below (386-416), in a score whose comment (437-442) wants
  it to be magnitude only, without a direction. `LeanIsKnown` says that this
  is all: every other subscore, the conflicts and the vetoes are the same for
  a setup and its mirror image, the totals are apart by just that lead, the
  votes cancel but for the session's, and the rules turn round where the lead
  crosses no band and no session votes, or they sell.

*Market data.*
- The warm-up includes the bar that is forming, whose volume is then counted
  twice. The offset is read once. The news calendar is cached and fails open.
- A locked volume profile changes once the buffer is shorter than its period,
  against `volume_range.py:9-10`. Closed H1 and M5 bars repaint while their hour
  is in the buffer only in part.

*Backtest.*
- The report lists at most 1000 trades (`engine.py:1390`, the default of
  `list_trades`); running one engine twice adds to the same journal.
- An entry on the last bar is worth nothing to the replay, which claims to
  reproduce the engine (`exit_replay.py:13-16`).
- Walk-forward: out-of-sample windows overlap from starts on the 29th to the
  31st; a run stops when the out-of-sample part would end after the range, its
  docstring says when it would start after it. The dashboard's
  walk-forward passes wrong arguments and always fails (`api.py:780-793`), and a
  backtest inside the running event loop raises (`engine.py:1490-1505`).

*Operations.*
- The engine publishes a close again if it crashed before deleting the plan. With
  its own trade closed, the journal writes the second to an older open trade that
  had the same ticket (`store.py:463-470` prefers open ones).
- `update_fitting_proposal` checks and writes in two statements: of two
  decisions the later write wins, whatever was checked. Approving again rewrites
  who decided and when.
- A session that is validated while it logs out is back
  (`auth.py:226-236`). A revoked session keeps its open websocket.
- `journal_trades` asks for the oldest rows and then sorts (`api.py:468`); the
  sampling for the review drops the newest record; decisions are filtered after
  the limit.
- The subscriber says "at-least-once" but starts from `$` and skips what came
  while it was away. Writer and dashboard may end up on different stores for
  their whole life.

## What is not modelled

- *Automatic emergency triggers* (spike, health, kill-switch file) have no
  caller in the services; the `state_file` is never configured.
- *Pending orders, the OHLC builder, the quality and spread monitors*: no live
  service constructs them.
- *`_breakeven_at_tp1`* (off by default), `zone_lock_enabled = False`, rounding
  of prices to the tick, the order manager's idempotency cache (no key comes
  twice).
- *Real-valued results*: Fibonacci levels, percentile ranks, momentum score,
  Sharpe and Sortino. Where something depends on them, they are a choice.
- *Dashboard*: the SSO verifier, web push, endpoints that only pass a value
  through, the browser's code.
- *Prompts, request bodies, wording, alerts, heartbeat, logging, drawing*:
  written only.
- *Two components at once* beyond the compositions above: for instance a bridge
  outage in the middle of the manage loop is a failed call to `ExecutionEngine`,
  whatever the connection went through.

## The plan

1. **Done:** `RedisStream`, `RiskManager`, `KillSwitch`, `ExecutionEngine`,
   `PositionManager`, `ZoneLock`; `TradePlan`, `OrderEntry`; `Features`,
   `MarketData`; `TradingWindow`, `Scoring`, `DecisionEngine`; `Journal`,
   `Review`, `Views`, `LiveFeed`, `Dashboard`; `Backtest`, `WalkForward`; both
   refinements, checked and proved; the proofs above.
2. **Done:** a theorem for every invariant and every safety property of a step.
3. An abstract life of a position (opened, managed, closed, booked) that
   `ExecutionEngine` and `OrderEntry` both implement.
4. Larger instances of `engine` (three positions) and `trade` (three decisions)
   where time allows.
