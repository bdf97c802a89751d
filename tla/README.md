# ViperTrade in TLA+

ViperTrade is one Rust binary (`viper`) that runs as one of several services:
`market-data`, `strategy`, `executor`, `api`, `monitor`, `analytics`,
`ai-analyst`. They communicate over Redis Streams, share a Postgres database and
talk to the Bybit exchange. This directory holds TLA+ modules of the parts whose
interleavings, crashes and failures are hard to test, the TLC configurations
that check them on small instances, and TLAPS proofs of what matters most.

```
tlc -workers 2 -config executor_paper.cfg MCExecutor      # one run
tlapm ExecutorProofs.tla                                  # one proof module
```

`PROJECT.json` lists every component, run, mutation, finding and theorem, and
the source lines each definition stands for.

## 1. Inventory

```
 market-data --viper:market_data--> strategy --viper:decisions--> executor --> Bybit
                                       |  ^                        |    ^
                              tupa_audit_logs  trades <------------+    | REST
                                       v                           v    |
      ai-analyst <------------------ Postgres ----------------> monitor +
          |  advice (HTTP)             ^
          +--> strategy                | system_events (control flags)
                                      api --viper:control_events--> executor
                                       ^--- viper:executor_events, DLQ --- executor
```

| component (source) | state | operations | interacts with | hard behaviours |
|---|---|---|---|---|
| **executor, decision handling** (`services/executor/src/lib.rs`, `state.rs`, `orders.rs`) | stream cursor of the group `executor`, unbounded channel, `processed_in_memory`; rows in `system_events`, `strategy_decision_audit`, `trades`, `bybit_fills` | claim, control gates, paper fill and guards, live order, fills, trade insert/close, mark, echo | strategy (stream), api (control flags), Bybit, Postgres | crash between any two awaits, statements that fail having committed, lost answers, duplicated source events |
| executor, reconciliation (`reconciliation.rs`, `risk.rs`) | drift per symbol, daily count of auto-fix orders | snapshot of local and exchange quantity, alert, auto-fix order, local reduction | races the handler on `trades` and the exchange | two reads at different times; orders outside the claim protocol |
| executor, control task (`lib.rs` 1102-1172) | none but its stream cursor | read control event, read flag, acknowledge | api | request/ack with timeout, lost acknowledgements |
| executor, Bybit client (`bybit_client.rs`) | none | sign, send, parse | Bybit | outcomes unknown to the caller; no timeout, so a call may never return |
| **strategy, main loop** (`services/strategy/src/lib.rs`) | `pending_candidates`, the decision in hand, signal channel | signal handling (open-trade and entry path), selection flush, finalisation, shutdown flush | market-data, executor, Postgres, ai-analyst | each await lets another process move; restart forgets candidates and what was published |
| strategy, persistence (`db.rs`, `audit.rs`) | `tupa_audit_logs`, `trades` columns for trailing and excursion | open trade, recent close, count, audit insert, trailing update | loop, executor | the queries are what the suppression and the slots rest on |
| strategy, trailing stop (`trailing.rs`, `trailing_config.rs`) | activation, peak, distance of a trade (persisted past a threshold) | exit evaluation per tick | loop, `trades` | state lost below the threshold, ratchet, break-even |
| strategy, thesis (`thesis.rs`, `thesis_confirmation.rs`) | `thesis_invalidations` per symbol | health score, invalidation, consecutive ticks | loop | sign of scores per side, resets of the counter |
| strategy, entry guards and confirmation (`filters.rs`, `signal_confirmation.rs`, `ai_advice.rs`) | `entry_guards`, `signal_confirmations`, cached advice | block, cooldown, await flip, confirm, veto, size | loop | long sequences of ticks; key case; stale advice |
| strategy, entry/size/funding rules (`validate_*.rs`, `smart_size.rs`, `funding.rs`, `decision.rs`, `daily_loss.rs`, `consecutive_losses.rs`, `equity_floor.rs`) | none | pure scoring of one input | pipeline | boundaries, order of rejections |
| strategy, backtest (`backtest.rs`) | simulated open trades, thesis state | replay of a corpus | ai-analyst | has to agree with the loop it mirrors |
| viper-domain (`crates/viper-domain`) | none | messages, validation, stream helpers | all | what `validate` lets through |
| market-data feeds (`lib.rs`, `exchanges.rs`) | latest signals | fetch per exchange, align candles, publish | Bybit, Binance, OKX, strategy | partial failure of a cycle |
| market-data consensus (`consensus.rs`) | side latch per symbol | aggregate, stabilise over cycles | feeds | how often a symbol is stabilised per cycle |
| market-data indicators (`indicators.rs`) | none | EMA, ATR, ADX, RSI, MACD, Bollinger | consensus | numeric edges |
| api, REST and control (`lib.rs`, `state.rs`, `position_config.rs`) | `system_events` rows | kill switch, executor switch, queries | executor control task, dashboard | acknowledgement with timeout |
| api, rate limit (`rate_limit.rs`) | sorted set per address in Redis, map in memory | admit or reject | all requests | two tiers sharing a key, same-millisecond requests |
| api, WebSocket bridge (`lib.rs` 2656-2851) | broadcast channel, dead-letter deque | forward, recover after a lag | executor events, browsers | slow receivers, recovery order |
| api, JWT (`jwt_auth.rs`) | none | issue, verify | browsers | expiry |
| monitor (`services/monitor/src/lib.rs`) | last alert per symbol and severity | drift, severity, alert with cooldown | Postgres, Bybit, Discord | cooldown and failed sends, calls without a timeout |
| analytics (`services/analytics/src/lib.rs`) | candle cache, scores, snapshot rows | fetch, merge, score | exchanges, market-data (weights) | merging, bootstrap after a failure |
| ai-analyst (`services/ai-analyst/src`) | none between requests | statistics, advice, sweeps | Postgres, api, strategy | priority of rules |
| web dashboard (`services/web`) | none | the proxy of control commands with its retries; user interface | api | requests given up and repeated |
| viper binary, scripts, compose, k8s, the external tupa engine | - | start of a role, deployment, pipeline evaluation | - | - |

What makes each of them correct:

- executor: a source event has at most one effect, whatever is repeated, crashes
  or fails; what rows, audit and trades say is what happened; paper guards hold;
  operator controls hold entries back and never a close; every event concludes, unless
  the call it waits for hangs.
- strategy loop: one close at a time per position, for the right trade; never more
  entries than slots; no candidate is forgotten.
- reconciliation: an auto-fix brings local and exchange state closer, never acts
  on a difference that is only a trade in progress, respects its daily limit.
- control plane: an acknowledged switch is in force; a timeout is reported as one.
- trailing/thesis/guards: a held trade gives back no more than its trail, counters
  count what they say, a cooldown ends, a flip is required when it was set.
- consensus: a side changes only after two confirming cycles.
- rate limit: a client exceeds its tier in a window only by what is not counted; bridge: a recovered client
  has missed nothing and sees nothing twice.
- monitor: no drift stays silent for longer than the cooldown, as long as the exchange
  and the webhook answer or fail.

`PROJECT.json` "hazards" has the list, line by line, with the properties that
would catch each going wrong.

## 2. Plan

| order | module | kind | state |
|---|---|---|---|
| 1 | `Executor`, `MCExecutor` | state machine of the handler with every await a step | done |
| 2 | `IdempotentExecution`, `ExecutorRefines` | abstract specification and refinement mapping | done |
| 3 | `ExecutorProofs` | inductive invariant, refinement, paper guards; what the operator relies on: audit, controls, kill switch | done |
| 4 | `StrategyLoop`, `MCStrategyLoop` | strategy's loop, stream and one-step executor | done |
| 5 | `StrategyLoopProofs` | types, one close in flight, closes hit their trade, the book keeps its limit | done |
| 6 | `Exits`, `Replay`, `MCExits` | exit rules of one trade over a price path, and the backtest beside them | done |
| 7 | `ControlPlane`, `RateLimiter`, `WsBridge`, composed in `MCApi` | the stateful parts of the API, with the dashboard's proxy and the executor's control task | done |
| 8 | `Positions`; `Reconciliation` and `Monitor` extend it; `MCPositions` | rows and positions that the handler and the exchange move under two watchers | done |
| 9 | `Consensus`, `MarketData` | operators of aggregation and the latch; the cycle that uses them | done |
| 10 | `Settings`, `EntryRules`, `Thesis` | layered configuration, entry rules, health score: pure operators | done |
| 11 | `EntryGate` | advice, quarantine, cooldown, confirmation, veto over sequences of signals | done |
| 12 | `Analytics`, `Analyst` | sampler with its cache and scores; diagnostics and advice | done |
| 13 | `MCSignals` | 9 to 12 from the exchanges to the queue of candidates | done |
| 14 | `DataLemmas` | least and greatest elements, induction over sets of naturals, sequences: what several proofs cite | done |
| 15 | `ExitsProofs` | types, stops, excursion, thesis; the backtest mirrors live | done |
| 16 | `ApiProofs` | control plane, both limiters, bridge | done |
| 17 | `PositionsProofs` | conservative reductions, true alerts, no repeated alert | done |
| 18 | `SignalsProofs` | freshness and latch of market-data, cache of analytics, quarantine and confirmation of the gate | done |
| 19 | `RulesProofs` | the two sides of the rules of entry and of the position advice mirror; a long outlives its entry | done |

**Composition.** `StrategyLoop` carries a one-step executor, so that what it publishes
is executed; `Replay` extends `Exits`, whose decisions are the exit choice of
`StrategyLoop`; `Reconciliation` and `Monitor` extend `Positions`, where the handler
of `Executor` is two steps; `MarketData` extends `Consensus`; `EntryRules` and
`Thesis` extend `Settings`, and the stages of `Thesis` are the input of `Exits`;
what `EntryGate` is advised is shown in `MCSignals` to be what `Analyst` says.

`MCApi`, `MCPositions` and `MCSignals` put parts side by side that share no variable:
a variable (`part`, `watcher`) says which of them runs, and the others stay at one of
their initial states. Interleavings of parts that share nothing cannot break a
property of either, so nothing is lost.

**Abstract specifications**: idempotent execution (of the executor), the live exits (of
the backtest); the longs' rules and advice, mirrored, are the reference definition
of the shorts' in `EntryRules` and `Analyst`.

## 3. Modules and the code

### Executor

One Redis reader (`DeliverNext`), the main loop (`ReceiveDecision`, `EchoEvent`)
and `handle_decision_event`, cut at every await:

| action | code |
|---|---|
| `ClaimProcessedEvent`, `UpsertClaimAudit` | `claim_processed_event`: insert into `system_events`, then audit upsert |
| `ReadExecutorFlag`, `ReadKillSwitchAndGate` | `fetch_runtime_controls` and the allowlist, in the code's order |
| `PaperFill`, `GuardSide`, `GuardCount` | `paper_fill_check`, `open_trade_side_for_symbol`, `count_open_trades` |
| `SubmitOrder`, `PersistFills`, `ConfigureTrailing` | order and fill query, `persist_bybit_fills`, `set_bybit_trailing_stop` |
| `PersistTrade`, `SelectTradeToClose`, `WriteClose` | `persist_trade`, `close_open_trade` |
| `MarkRow`, `MarkAudit` | `mark_processed` |
| `PublishDecision`, `SetKillSwitch`, `SetExecutorEnabled`, `Crash`, `Restart` | strategy, operator, process |
| `CallHangs` | a call of the reader or of the main loop never returns |

A failing statement leaves the database with or without its effect. Live orders
are refused, accepted and answered, or accepted with the answer lost; the exchange
nets per symbol and reduce-only orders never cross zero. None of the executor's calls to
Bybit has a timeout (`lib.rs` 958, `bybit_client.rs`): a task of `MayHang` may stop at any
await for ever, and only a crash ends that. `pool` may be absent in
live modes, as the code allows. Abstractions: quantities are counted in lots, an
event is named by its stream position, prices and fees are left out, fills are
asked for once as the code does. A Redis reply that is lost on a connection error
(the event is then never delivered) is not modelled: it has the same consequence
as a crash with the event in the channel, which is.

`IdempotentExecution` says what that amounts to for one source event: an owner
claims it, the owner takes effect at most once, the recorded outcome is final and
true. `ExecutorRefines` maps `system_events` rows and effects to it.

### StrategyLoop

The loop of `run` with the tick that selects candidates, the signal path and the
shutdown path; the stream `viper:decisions`; the executor in one step.

| action | code |
|---|---|
| `FetchOpenTrade(s)` | a signal of `s` arrives; `fetch_open_trade_for_symbol` and the exit rules |
| `EvaluatePipeline` | pipeline, entry guards, insertion into `pending_candidates` |
| `CheckRecentClose` | `has_recent_close_decision_for_symbol` and the suppression |
| `PersistAuditLog`, `PublishDecisionEvent` | `finalize_strategy_decision` |
| `SelectionTick`, `Shutdown`, `FlushPendingEntryCandidates` | the three places of the flush |
| `ExecuteNext` | executor, with the guards of paper mode and none in live mode |
| `Tick`, `Crash`, `Restart` | time and the process |

Abstractions: what the pipeline and the exit rules answer is a choice (enter with
some rank, hold, close). A HOLD is published like any decision but has no effect
downstream, so it is no event here. All trades of a symbol are on one side, which
is the case in which a stray close can find a trade it was not meant for. The
database is connected at boot; statements may fail later. Time is in ticks, ages
stop counting at the limit they are compared with.

`Prompt` is an assumption about timing and not about code: no tick (a fraction of
the selection window of three seconds, or of the five minutes of a close) goes by
while the loop is between two awaits or a decision waits for the executor. Runs
and theorems that rely on it say so; `strategy_candidates` does without it.

### Exits and Replay

One trade at a time of one symbol, a signal per step. `HandleSignal` is the
open-trade branch of `run` up to the decision: `WithExcursion`
(`update_excursion`, `update_trade_excursion`), `ExitTrigger`
(`evaluate_open_trade_exit`: hard stop, target, trailing stop), `WithTrailing`
(`should_persist_trailing_update`, `update_trade_trailing_state`) and `Guard`
(`enforce_open_position_thesis_guard` with its two counters). `OpenTrade` and
`CloseTrade` are the executor's rows, `SignalWithoutTrade` and `Restart` the two
events that forget the counters. The interleavings between the awaits of that branch
are the subject of `StrategyLoop`; here the two UPDATEs may fail, one by one.

`Replay` runs `simulate()` on the same signals. It keeps its own snapshot, which
starts with the live trade, and is compared only as long as it replays all there
is: no advice, no failed write, no restart, no minimum hold, no threshold for peaks, and no
entry that is carried out while live still counts thesis signals of the trade before.

Abstractions: every trade is entered at `Scale`, so fractions of the entry price are
integers; products with the advice factors are kept exact, in hundredths. Floating
point rounding is left out, prices are positive (`MarketSignal` is validated). The
advice is an input at every signal; what `valid` and `degrading_soft` do to the
counters is the same, so they are one stage. The age of a trade counts signals and may
stand still. The stage of the thesis is an input, too; how a signal determines it is in
`Thesis`. The profile, variable `cfg`, is chosen once. Variables called history
are read by properties only.

Two things the module shows that are no divergence from a doc but good to know: the
break-even rule asks for the *current* profit to be at its level, so it never closes
a trade that the trailing distance would not; and `simulate()` gives thesis exits no
minimum hold, although its comment (`backtest.rs` 86) calls it faithful.

### ControlPlane, RateLimiter, WsBridge

`ControlPlane` follows an operator's command from the dashboard's proxy
(`web/app/api/control/route.ts`) or a script through the handlers of the API to the
rows of `system_events`, and for the kill switch on to the executor's control task.

| action | code |
|---|---|
| `Issue`, `AbortRequest`, `Refuse` | the proxy, with its five seconds and its base URLs |
| `InsertEvent`, `FetchKillSwitchStatus`, `FetchExecutorStatus` | `kill_switch_handler`, `executor_control_handler`: insert, then read back |
| `PublishSync`, `ArmRead`, `BlockExpires`, `ReadAcks`, `AckTimeout` | publication and the wait: `XREAD` from `$`, repeated for five seconds |
| `ReadControl`, `FetchFlag`, `PublishAck` | the control task |
| `CrashExecutor`, `RestartExecutor` | the process |

An aborted request leaves its handler at an await, where it is dropped; an INSERT that
was under way has happened or not. A flag is represented by the row that sets it, so that
"what was read is this command or a newer one" can be said.

`RateLimiter` is one client address passing the filters of the route tree in their order;
`Admits` and `Consumed` are `check_and_consume` for both backends (in memory a time per
admitted request, in Redis one sorted set for all tiers with a member per millisecond),
`Unanswered` is its error branch: the request is let through, and the pipeline has run or
not. So in Redis a tier lets through what it does not count, and `TierRespected` says how
much: its limit, the requests of a millisecond that has one already, and those of
unanswered checks (`Uncounted`); in memory there is nothing of that kind.
The purge drains the front of a bucket up to the first time of the window (`FirstLive`,
`Since`).
`WsBridge` is the stream reader (`ReadBatch`, `KeepInDlq`, `SendToChannel`) and the task
of a browser (`Subscribe`, `Recv`, `RecoverFromDlq`, `Disconnect`) over a
broadcast channel that drops the oldest message.

### Positions, Reconciliation, Monitor

`Positions` has the rows of `trades` and the net position per symbol. The handler fills
an order and writes its row some awaits later (`FillEntry`, `InsertTrade`, `FillClose`,
`CloseOpenTrade`); the exchange closes positions by itself (`ExchangeCloses`). Two
watchers read both.

`Reconciliation` has the executor's tick in its three modes: `StartTick`, `ReadLocal`,
`ReadExchange` with the `Verdict`, `PlanReduction`, `ReduceRow`, `Reduced`, `RecordEvent`.
A reduction acts row by row on what it read before; the rows it has planned to reduce are
a set, of which it takes the newest first (`Newest`). In mode `"auto"` a small drift ends
the task: the daily count of correcting orders is locked with `blocking_lock` on a
runtime thread, which panics (`reconciliation.rs` 138), and nothing restarts the task.
`TickHangs` is a query or request that never returns: the loop awaits the tick, so it was
the last one until the process starts again.

`Monitor` has its cycle: `FetchLocalNotional`, `ResolveBybitNotional` (the exchange, or
the newest snapshot, which the cycle itself wrote), `PersistSnapshot`, `PersistEvent`,
`MaybePublishDiscordAlert`, with a clock for the cooldown, and `CycleHangs` as above. Without keys the exchange is not
asked (`credentials`), and without a webhook for a severity nobody is told (`webhooks`,
`HasWebhook`). Prices are left out: the notional of a lot is one, and only distances and
thresholds count.

### Consensus and MarketData

`Consensus` has the operators: which candles all answers share (`Aligned`), the weight of
an exchange from analytics' scores, weighted means and medians in whole numbers,
unanimity, and `stabilize_consensus_side`. `MarketData` is the cycle that uses them:
`StartCycle`, `FetchBtc` (whose failure ends the cycle and empties what is served),
`FetchSymbol`, `Serve` (the map behind `/latest-signals` is replaced as a whole),
`Publish` one by one, `EndCycle`. An answer is good, missing, lagging or without a price;
`market` moves at any time. The indicators of an answer are not modelled.

### Settings, EntryRules, Thesis

Operators, and one step that decides under the configuration loaded at the start (`Judge`:
any signal, equity and trail, of which nothing is left for the next decision; `judged` holds
what a decision was made from, so that the properties are invariants that TLC checks and theorems state). A configuration is a function from places (layer, key, side) to values;
each setting of `config.rs` is a definition with its own order of layers and its default.
`EntryRules` is `execute_strategy_step`: the strict and permissive conditions of each side,
scores with their rounding, the reason of a refusal (the first failing check in the
code's order), funding, size, levels, the gates on losses. `Thesis` has the ten
components of the health score and the stages of the two sides. Scores, fractions and
%B are in hundredths, prices are relative to a current price of 1000; `Rounded` is the
rounding of the code. The weighted components of the score are a sequence (`Contributions`)
that `Total` adds up. `PercentBLimit` is a set of at most one limit, empty where the code has
`None`. `RulesAssumption` says that signals are records of whole numbers and that the values
of a configuration have the types the code reads (a value of another type is as if absent:
`ValuesOf`). What confirms an exit, given the stage, is in `Exits`.

### EntryGate

A signal is one step (`NoEntry`, `CoolingDown`, `Propose`): advice asked for when it is
due, `sync_execution_advice_guards`, the checks of open trade and last stop-loss, which a
failing query passes, the counter of confirmations, the veto, the sizing and the
comparison with the candidate that waits. `Flush`, `Close`, `TimePasses` and
`RestartStrategy` are the world around it. Ranks and scores are the classes that the veto
tells apart. Here the awaits within a signal are not cut: the loop handles one signal at
a time and nothing else writes the gate's maps.

### Analytics and Analyst

`Analytics` is the sampler of one symbol: `Sample` (fetch, `merge_candles`, snapshot),
`ComputeScores`, `RestartAnalytics`, over a chart whose newest candle moves
(`PriceMoves`, `MinutePasses`). The RSI is computed in whole numbers, its sign is what a
snapshot predicts. `Analyst` has the diagnostics as operators on a record of closed
trades (averages are pairs of a sum and a number, compared exactly), the execution advice
they add up to and the advice for an open position, given in the step `Advise` as
decisions are in `EntryRules`.

Good to know, and no divergence from a doc: the exchanges' prices are fetched anew only
two candles at a time, so an outage of two minutes leaves an interim close in the cache
until a restart or two hundred minutes have gone by; the first snapshot after an outage
serves as "forward" price for all snapshots before it; a flat price predicts a rise; the
analyst compares the two windows on the long side only, and reads a missing signal as a
band of zero, which counts against longs; a symbol fails when one lagging exchange is
among its answers although the others would be enough.

## 4. Runs

| run | shows | bounds |
|---|---|---|
| `executor_paper` | paper mode: types; one open trade per symbol and the limit of open trades (`PaperBookIsGuarded`); at most one effect per key, verdicts final, audit never ahead of the row; queued entries do not outrun the kill switch and no close is held back by a control | three decisions out of five (one key published as an entry and as a close), three symbols, limit of two; a crash, a failing statement and a turn of a switch anywhere |
| `executor_live` | live mode: no phantom trade, rows tell the truth, refinement of `IdempotentExecution` | netting exchange, lost answers, partial reports, a crash, a fault |
| `executor_liveness` | live mode with and without Postgres: every published decision reaches a verdict, unless the task that has it hangs | decisions of every kind, either task or both hang anywhere, no crash, no fault |
| `strategy_safety` | both modes: types; one close in flight per symbol; in paper mode closes hit their trade; until a shutdown the book keeps its limit | three symbols (symmetric), four entries, limit of two, a crash and a shutdown, `Prompt`, no fault |
| `strategy_candidates` | no candidate waits for ever | two symbols, three entries, crash, shutdown and fault, time unrestricted |
| `exits_safety` | a held trade is above its hard stop and has given back no more than its widest trail and the persistence threshold; the excursion is that of the whole trade; a thesis exit was confirmed by as many signals in a row; the backtest leaves when and why live does | three profiles, both sides, five prices from below the hard stop to the last ratchet, two trades, a failed UPDATE, a restart |
| `api_safety` | control: an acknowledged switch was read by the executor, commands reach the rows in order and a confirmed one is the operator's last word there, every command concludes; limiter: a tier is exceeded by no more than what it does not count; bridge: a browser sees the stream less what the channel dropped | a web operator and a script, two URLs, two commands, a fault; tiers of three and two in a window of two ticks, an unanswered check; one browser, six messages, channel of two |
| `positions_safety` | reconciliation: no row that a reduction closes or cuts leaves less open than the exchange holds, in fix mode an excess is repaired and drifts are recorded unless the tick hangs; monitor: alerts are true, not repeated within the cooldown, and a lasting drift is alerted, given keys, a webhook and a cycle that does not hang | one symbol with both sides, two orders of one or two lots, one close by the exchange, a fault, a call that hangs; thresholds at 1, 2, 4; paper, live without keys, live with one webhook or both |
| `signals_safety` | market-data: a side changes after confirming cycles, nothing stale is served, what the exchanges agree on reaches the stream; analytics: the cache is the chart; rules: shorts are decided as mirrored longs, a long outlives the signal that enters it; analyst: position advice mirrors; gate: entries respect the longest quarantine and are confirmed | two exchanges, two symbols, a move and two faults; a chart of five minutes, a cache of three candles, three rounds; all pairs of 50 deviations from a base signal under eleven configurations; 23 records, eight positions, 82 views; four kinds of advice, one database error |

`MCSignals` also has three ASSUMEs that TLC evaluates with `signals_safety`: a setting for
longs leaves the shorts' alone (`SidesAreApart`), weighted figures lie between those of the
exchanges and no weight exceeds three times another (`FiguresAreMeans`), and the advice the
gate is given is advice the analyst gives (`AdvicesAreGiven`).

Runs that end in a violation show where code and documentation disagree:

| run | statement of the repository | what the code does |
|---|---|---|
| `strategy_double` | there is at most one open position per symbol | a candidate is flushed although its symbol has a trade by now, and live mode lets it pass |
| `market_btc` | still latched after 1 bearish cycle | Bitcoin's side is stabilised twice in a cycle, as the context and as a symbol, and flips within one |
| `entry_flip` | same-direction reentry stays blocked until the market bias flips once | the guard is inserted behind a decision that is never made; the same side is entered again when the cooldown is over |

Further statements that the code does not keep have no run of their own; where a property
states one, it is in the module and TLC refutes it when it is added to the configuration
named here:

| statement | what the code does | to see it |
|---|---|---|
| kill switch blocks all new entries immediately | live without Postgres: the flags are never read (`state.rs` 187) | `AtMostOneEntrySlips` in `executor_liveness.cfg` with `KillDecisions` and `LivePool = {FALSE}` |
| the trail only tightens | the stored distance bounds the next from below: no ratchet tightens it once stored, and it widens when the profit falls back below a ratchet | `TrailOnlyTightens` in `exits_safety.cfg` |
| ... so matching by symbol is sufficient | the close of a new trade is suppressed because of the close of the previous one | `SuppressedForSameTrade` in `strategy_safety.cfg` |
| a recent CLOSE is still pending execution | the close has been handled without effect and nothing is pending | `SuppressedWhilePending` in `strategy_safety.cfg` |
| retry with bounded backoff; critical failures surface through health | a call that hangs ends the handling of decisions for ever, and the health port goes on answering | `DecisionsConcludeAnyway` in `executor_liveness.cfg` |
| 100 and 20 requests a minute | in Redis requests of one millisecond count once, and an unanswered check lets through | `TiersAsDocumented` in `api_safety.cfg` |
| control endpoints get a stricter tier | requests for other tiers consume from the control tier | `ControlTierIsItsOwn` in `api_safety.cfg` |
| clients that briefly lag can recover without missing events | the newest entries of the queue are replayed, which need not be those that were lost | `LaggedClientsRecover` in `api_safety.cfg` |
| a short position is judged like a long one | the stages of a short compare with a HIGH health score: the signal that enters a short invalidates it | `ShortOutlivesItsEntry` in `signals_safety.cfg` |

The remaining findings (configured weights nothing reads, loss gates that always let pass,
two scales of `risk_per_trade_pct`, a reason that is never given, the correcting order, the
monitor's clients without a timeout) can be read off the definitions; `PROJECT.json` quotes both sides of each.

**Why the bounds are enough.** An unwanted second effect needs two events of one
key and one crash or fault between two statements; a broken paper guard needs one
event more than the limit, or two on a symbol; a slip past the kill switch needs
one entry in the handler and one queued; a suppressed close needs two trades of a
symbol or one lost close. The prices of `exits_safety` lie on both sides of every threshold
of its profiles, with some advice if not without, and its two trades are what a
counter needs to be carried over. A confused acknowledgement needs two commands
and one lost or late answer; an exceeded tier one request more than its limit on either
side of a window's edge, and in Redis a repeated time or one unanswered check; a lost message a channel that has overflowed once. A
reduction that goes wrong needs two rows and something that moves in between; books do not
influence one another, and two rows on two sides of one symbol net on the exchange.
A false flip of the latch needs one observation less than the constant; a wrong weight,
stage or condition shows at a threshold, and the signals of `signals_safety` take every
threshold from both sides, two of them at a time; a stale cache entry needs a candle more
than the cache holds; a forgotten quarantine needs two pieces of advice of different length.
Each property is shown to fail for a mutation of the code (`PROJECT.json` "mutants").
All counters that would grow for ever are bounded by a `Max...` constant in a
guard: decisions or entries, commands, orders, moves, faults, crashes, switch changes,
shutdowns, messages, minutes, rounds, and the length of the stream while signals are read;
ages and cooldowns stop at the limit they are compared with.

**Deadlock** is not checked: once the bounds are used up and the queues are empty
nothing is left to do (a clock alone could go on in a quiet state).
That work never gets stuck before is what the liveness properties check. `Exits` may
stop with no trade left to open and its restarts spent, `MCApi` and `MCSignals` where the
part that runs is a pure operator or has used up its bounds.

A task that hangs in the safety runs of the executor would be one that makes no
step until a crash, which their behaviours have anyway; `MayHang` is empty there.

**Fairness.** tokio polls every task that can go on, and that is all weak fairness says
here: a step that waits for an answer is fair as long as the answer comes. The clients of
the executor and of the monitor have no timeout, so in their modules an answer need not
come: `CallHangs`, `TickHangs` and `CycleHangs` disable the steps of their task until the
process starts again, and the liveness properties name that outcome (`hung`, `Hung`).
`Executor`: weak fairness of delivery, of the main loop and of the
handler's steps, and of `Restart` for the container's restart policy.
`StrategyLoop`: weak fairness of time, restart, the loop's steps and the executor;
strong fairness of `SelectionTick`, since `tokio::select!` picks at random among
its ready branches, so that steady signals (which disable the tick again and again
while they are handled) do not starve it. `ControlPlane`: weak fairness of the API's
handlers and of their timeout; none of the executor, so that a command concludes although
nobody acknowledges. `MCPositions`: weak fairness of the steps of the watcher that runs and of
the clock; none of the handler, which may stop with an order filled and no row.
`MCSignals`: weak fairness of the cycle of market-data, whose client has a timeout of eight
seconds. The timeouts in `ControlPlane` are in the code: five seconds in the proxy, five in the
API's wait.
Nothing is assumed of crashes, faults, operators, requests, signals or the market.

**Assumptions of single runs.** `DriftIsAlerted` speaks of drifts that the monitor can tell
somebody about (`Alertable`): live mode with keys for the exchange and a webhook for the
severity; and there is a monitoring cycle only if the database could be reached at boot.
The limiter is that of one instance of the API; a check reads the clock and runs its pipeline
in one step. `strategy_safety` has no failing statement: the
code publishes a close even if the check for a recent one, or the audit row, failed.
`BookWithinLimit` is claimed until the first graceful shutdown: the flush at shutdown
can follow a regular one before the executor has handled it, and then the live book
may exceed the limit. The executor's mode is a variable of `StrategyLoop` that no
step changes, so that one run covers both. `ReductionIsConservative` speaks of the steps
that change rows and not of the states between them: in a tick that reads a local quantity
which the handler changes before the exchange is asked, less may be open than the exchange
holds, and the tick then leaves the rows alone; and it speaks of handlers that have not moved
since the exchange was asked, since a row they write later is not the reduction's doing. `DriftIsReported` leaves out the mode in which the
task dies, and without an allowlist a position that has no open row, since it is not looked at.
`AckedSwitchWasRead` leaves out a read that failed, which the control task acknowledges with
the default. `LongOutlivesItsEntry` speaks of the strict rules: permissive entries are made against
the market's side on purpose.

## 5. Proofs

`ExecutorProofs`, for every number of decisions, keys, symbols, crashes and faults:

| theorem | says | assumes |
|---|---|---|
| `TypeCorrect` | `TypeOK` is invariant | - |
| `Invariance` | `IInv` is invariant | `HasPool` |
| `AtMostOnce` | `AtMostOneEffectPerKey` | `HasPool` |
| `Truthful`, `NoPhantoms` | `RowTellsTheTruth`, `NoPhantomTrade` | `HasPool` |
| `VerdictsAreFinal` | `VerdictIsFinal` | `HasPool` |
| `Refinement` | `ImplementsIdempotentExecution` | `HasPool` |
| `PaperGuards` | `PaperBookIsGuarded`: `PaperOneOpenPerSymbol` and `PaperOpenLimit` | paper mode |

`HasPool` says that the executor has its database (always in paper mode, in live
mode if `LivePool = {TRUE}`); without it a restart forgets what was processed, and the
controls are not seen either. None of
the properties is inductive: that an order is placed once follows from who owns the
claim, which handler step is under way and what the row says. `IInv` joins
`ClaimInv` (only the owner of a claim is past the claim step, and nothing of an
event that was not taken has happened), `EffectInv` (what has taken effect at which
step), `TradeInv` (a local trade has its effect) and `VerdictInv` (the status about
to be recorded is one the effect justifies). `PaperInv` carries what the guards
have read across the awaits until the insert. The refinement maps each step to a
claim, an effect, a conclusion or a stutter.

What the operator relies on is proved in the same module:

| theorem | says | assumes |
|---|---|---|
| `AuditFollowsRow` | `AuditNeverAhead` | - |
| `ClosesPassTheControls` | `ControlsNeverHoldBackAClose` | - |
| `KillSwitchHolds` | `AtMostOneEntrySlips` | `HasPool` |

`HandlerInv` says which row a handler that holds a claim will write the audit after, and that
a verdict of the controls is never that of a close. `SlipInv` says that the kill switch
leaves a handler that has passed the gate, and only one, room for an entry (`MayStillSlip`).

`StrategyLoopProofs`, for every number of symbols, entries, crashes and shutdowns:

| theorem | says | assumes |
|---|---|---|
| `TypeCorrect` | `TypeOK` is invariant | - |
| `OneCloseInFlight` | `NoDuplicateExit` | `Prompt`, no failing statement |
| `ClosesHitTheirTrade` | `CloseHitsItsTrade` | `Prompt`, no failing statement, paper mode |
| `BookStaysWithinLimit` | `BookWithinLimit` | `Prompt`, no failing statement |

`CloseInv` ties the stream to the audit rows: a close in the stream has a row of age
zero, a close at hand after the check has none of its symbol in the stream, and a
flush holds entries only. `TradeInv` adds that the trade a close was decided for is
still the only open one of its symbol until that close is handled. `LimitInv` counts for the
limit what is not in the book yet: the trades that are open, the entries in the stream and
the entries of a flush that is under way (`Committed`) do not exceed `MaxOpen`, because a
flush takes as many candidates as slots were free when it counted, and no other
flush starts before the executor has handled what the last one published (`Ripe`, with
`Prompt`). A shutdown flushes without waiting, which is why the property ends there.

`ExitsProofs`, for every profile, price bound and number of trades:

| theorem | says | about |
|---|---|---|
| `ExitTypes` | `TypeOK` | - |
| `StopsHold` | `HeldWithinStops` | hard stop, trail and what was not stored of a peak |
| `ExcursionHolds` | `ExcursionIsTruthful` | - |
| `ThesisIsConfirmed` | `ThesisExitIsConfirmed` | - |
| `BacktestMirrorsLive` | `ReplayMirrorsLive` | - |

`TrailingInv` bounds the distance that is stored and how far the stored peak lags behind the
best price, `CountInv` ties the counters of the thesis to the end of the row of signals.
`ReplayInv` says that the snapshot of the backtest is the live row, but for what it does not
look at. Prices are below twice the entry, as in the runs.

`ApiProofs`, for any number of operators and browsers, any limits and capacities:

| theorem | says | why it is inductive |
|---|---|---|
| `AcknowledgedIsRead` | `AckedSwitchWasRead` | a request id is used once (`IdsInv`), so an acknowledgement with the id at hand was written after the row of the command (`RowsInv`) |
| `CommandsInOrder` | `LastWordWins` | a handler that still works on its row is its operator's newest |
| `TiersHold` | `TierRespected` | in memory each request served is covered by a time in the bucket, the newest first (`Covered`); in Redis the time of each request that was answered for is a member of the set, so the distinct times are within the limit, and what is left are repeats and unanswered checks |
| `StreamIsSeen` | `BrowserSeesTheStream` | what a browser has passed it has handed out, or the channel no longer holds it (`Passed`) |

`PositionsProofs`, for any symbols, sizes, thresholds, orders and faults:

| theorem | says | why it is inductive |
|---|---|---|
| `ReductionsAreConservative` | `ReductionIsConservative` | while the handler does not move, the exchange holds at most what it said (`HeldAsSaid`), the rows planned are open as they were read (`PlanIsCurrent`), and what is open is at least what the exchange said and what is left to reduce (`EnoughOpen`) |
| `AlertsAreNotRepeated` | `OneAlertPerCooldown` | an alert in the history is at least as old as the time since its symbol and severity were sent (`AlertsAreRecent`) |
| `AlertsAreTrue` | `AlertIsTrue` | what a cycle has read is what there is until something moves (`LocalAsRead`, `ExchangeAsRead`) |

Sums over rows are defined by a recursive function over the number of the row; that it
exists and how one row changes it is shown by induction (`SumsExist`, `TotalChange`).

`SignalsProofs`, for any exchanges, symbols, thresholds, depths and faults:

| theorem | says | why it is inductive |
|---|---|---|
| `ServesNothingStale` | `NothingStaleIsServed` | what is being collected is of this cycle, what is served at most of the one before (`FreshInv`) |
| `LatchConfirms` | `SideIsConfirmed` | a symbol is stabilised once in a cycle (`OncePerCycle`), so the latch counts no more than the cycles in a row (`LatchCounts`); Bitcoin is left out, for which that is wrong (`market_btc`) |
| `CacheTellsTheChart` | `CacheIsTheChart` | a cache is in order and no longer than the depth, and holds the final close of every minute it reaches back to in whose successor an answer came (`Known`, in `CandlesInv`); an answer holds the last two candles, so it corrects the one that was stored while it moved |
| `QuarantineHolds` | `EntryRespectsQuarantine` | a guard lasts at least as long as the longest quarantine asked for |
| `EntriesAreConfirmed` | `EntryIsConfirmed` | the counter of a symbol is the length of its row of proposals for one side (`ConfirmationInv`) |

`RulesProofs`, for every signal, configuration, equity, trail, record and position:

| theorem | says | assumes |
|---|---|---|
| `RulesMirror` | `ShortMirrorsLong` | - |
| `LongOutlives` | `LongOutlivesItsEntry` | every configuration has its thresholds for longs below 40 (`LowThresholds`) |
| `AdviceMirrors` | `PositionAdviceMirrors` | - |

Here the invariant is only that what was judged is a signal under a configuration; the work
is in the operators. `RulesMirror` goes the way the code goes: a mirrored configuration holds
at each place what the original holds at the mirror image (`MirroredValue`), so the first one
of several layers is the first one again (`FirstMirrored`, `FirstTurned` for the bounds of RSI
and the limit of %B, which turn from x into 100 - x); then the conditions
(`ConditionsMirrored`), the contributions one by one (`ContributionsMirrored`), the checks in
their order (`ChecksMirrored`), size and decision. `LongOutlives` adds up what a strict entry
guarantees of the ten components of health: consensus and Bybit alone give 50, price and
averages are on the right side, and what the others can take away leaves 40, which no default
threshold reaches; nothing is assumed of a short, for which the claim is wrong. In
`AdviceMirrors` a position is turned by exchanging prices, which multiplies both sides of each
comparison alike (`ScaledAlike`, `QuotientAlike`).

The inductive invariants were checked by TLC on the instances of the runs before they were
proved.

`DataLemmas` has what several modules cite: least and greatest elements of sets of
naturals, and induction over the naturals for a *set* of numbers (`SetInduction`, from
the library's well-founded relations; its own induction theorem takes an operator, which
cannot be instantiated here).

Only model-checked: the liveness properties `EveryDecisionConcludes`, `CandidatesAreSettled`,
`EveryCommandConcludes`, `DriftIsRepaired`, `DriftIsReported`, `DriftIsAlerted` and
`MarketIsFollowed`, since fairness and ENABLED are beyond the prover (the theorems of `ExecutorProofs` and
`PositionsProofs` hold with calls that hang at any step); and what the
recursive functions of `Consensus` and `Analytics` (medians, weighted sums, RSI, scores)
compute for every input, since that takes induction over an operator; `SidesAreApart`,
`FiguresAreMeans` and `AdvicesAreGiven` are evaluated on the instance of `signals_safety`.
Every safety invariant
and action property of the runs that hold is stated by a theorem.

## 6. Not modelled

- **indicators** of market-data (EMA, ATR, ADX, MACD, Bollinger bands): floating-point series
  without state; their results are inputs of `EntryRules`. Floating-point rounding in general
  is left out, except where the code rounds to whole scores.
- **reconciliation's correcting order** and its daily limit: never reached, because the limit's
  lock panics first (see findings).
- **ai-analyst** beyond the advice: recommendations, hypotheses, the language-model agent, the
  parameter sweep and the tuning grid. No trading component reads them.
- **earlier forms** of the rules of entry (`execute_*` of `validate_entry.rs`,
  `validate_size.rs`, `funding.rs`, `smart_size.rs`, `decision.rs`, `daily_loss.rs`, `consecutive_losses.rs`):
  called by nothing.
- **api**: queries without state, JWT (one check of a token per request), risk limits and position
  triggers (written in one statement and read by no control flow modelled here).
- **the strategy without its decision logic**: `STRATEGY_REAL_DECISIONS` is off by default in
  the binary and on in `compose/docker-compose.yml`; what the placeholder decides when it is
  off (HOLD for every signal) is not modelled.
- **HTTP, signing, JSON parsing**, configuration files and environment, the `viper` binary that
  starts one role, the dashboard's user interface, scripts and deployment, the external tupa engine.

Redis is taken to keep what was appended, Postgres to execute one statement atomically.
