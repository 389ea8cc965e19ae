# GHOST ORACLE in TLA+

This directory is a verification project for the program in this repository: TLA+ models of its
components, the TLC configurations that check them on small instances, and theorems about them
whose proofs the TLA+ proof system checks. Paths below are relative to the repository's root.

    tlc -config MCLiveOrder.cfg MCLiveOrder.tla      # one run
    tlapm LiveOrderProofs.tla                        # the proofs of one module

## 1. The system

Four agents and a Redis server that keeps nothing on disk. The agents share no memory; they talk
through Redis streams, two hashes and one kind of lock key, and through the file `.env`.

| component | state it keeps | operations | talks to |
|---|---|---|---|
| ingestion (`1_ingestion_agents`, Go) | an order book per exchange, the current Polymarket market, a volume accumulator | connect / reconnect, snapshot, delta, rollover, publish | adds to `stream:cex_l2`, `stream:polymarket`, `stream:whale`, `stream:dex`, `stream:chainlink` |
| brain (`2_brain_engine`) | the last value of each feed, the price to beat, slots and bets of the paper trade and of two what-if simulators, three meters | one turn of the main loop per CEX quote; a task per feed | reads the ingestion streams and polymarket.com; adds to `stream:entries`, `stream:trades`, `stream:pnl`, `stream:signals`, ... |
| execution agent (`3_execution_agent`) | a stream cursor, the start-up value of `LIVE_ARMED` | read a batch, drop what is stale, `handle_signal`: guards, lock, submission, report | reads `stream:entries` (or `stream:signals`), `stream:polymarket`, `state:live`, `state:risk`; sets `state:order_lock:<window>`; adds to `stream:executions` |
| dashboard (`4_dashboard`) | connected sockets, a cursor per stream | pump and broadcast, connect, disconnect, arm, disarm | reads the streams; writes `.env`, `state:live`, `stream:control` |
| deployment (`deploy/run.sh`, `docker-compose.yml`) | the session | start, stop, copy `.env` to `state:live` | everything |

What ties them together is a market window: five minutes, named by its start time. The brain bets
on at most one side per window; the execution agent may turn the bet into at most one order; the
result comes from Polymarket's page some time after the window has closed.

### What is hard

* **Interleaving.** Every agent is asynchronous. In the brain the price-to-beat task runs at any
  await of the main loop; in the execution agent an order's SDK thread outlives the `wait_for`
  around it; two execution agents overlap during a restart; the operator flips the switch at any
  moment.
* **Time.** A batch's age is measured once for all its entries; the lock's life is computed from a
  clock read before it is taken; the brain's `sec_left` is older than the entry's `ts`.
* **Two clocks for one window.** Entry and market snapshot come from two agents that roll over at
  different times; bets are keyed by a window's start and results by its end.
* **Loss.** Redis restarts empty, each XADD can raise, one record is two XADDs, and a process that
  ends forgets its bets, its cursor and its threads.

### What makes each component correct

* *Execution agent*: at most one live order per window; no order too early or on a token of another
  market; no order without a row; the loop never stalls; a disarmed system sends nothing.
* *Paper trade*: every bet is settled exactly once, by its own window's result, and the published
  account and streams agree with what was bet; bets do not starve.
* *Feeds*: a price belongs to the market and the window it is used for; no trade is in two records
  or forgotten, and the sum misses nothing recent; the agent ends up on the current market.
* *Order book*: every record is the exchange's book of one moment, also after a reconnect; once the
  exchange is quiet, the last record is of its current book.
* *Meters and simulators*: each bet is settled once, a sample twice only after a turn that overran
  its window, and counts are conserved.
* *Dashboard*: `.env`, `state:live` and the pages agree after a change of the switch; a slow or
  vanishing client neither loses others' messages nor stops the pump; past and present join.

The hazards behind these are listed one by one, each at its line, in `PROJECT.json`.

## 2. Modules

| module | what it is |
|---|---|
| `LiveOrder` | the execution agent, with Redis, the operator and the brain's publications as its environment |
| `OrderLedger` | abstract specification: claims on slots, at most one each |
| `MCLiveOrder` | `LiveOrder` for TLC (settings, each rich in some of what may happen) |
| `LiveOrderProofs` | its inductive invariant and theorems |
| `PriceToBeatFeed` | the settlement source: a component with its own state, Init and actions |
| `PaperBrain` | the brain's paper trade, composed with `PriceToBeatFeed` (which it EXTENDS) |
| `PaperLedger` | abstract specification: bets opened once, settled once, with their window's outcome |
| `MCPaperBrain` | `PaperBrain` for TLC (what may fail with each strategy) |
| `PaperBrainProofs` | its two inductive invariants and theorems |
| `WhatIf` | the two what-if simulators and the meters of the brain, composed with `PriceToBeatFeed`; implements `PaperLedger` too |
| `WhatIfProofs` | its inductive invariant and theorems |
| `StraddleMeter` | the straddle meter, with the record of its ticks beside it |
| `MCStraddle` | `StraddleMeter` for TLC (which readings a tick may bring) |
| `StraddleProofs` | its three inductive invariants and theorems |
| `OrderBook` | one exchange, the connection to it, an adapter with its book, and the record it publishes |
| `MCOrderBook` | `OrderBook` for TLC (the first book) |
| `OrderBookProofs` | its two inductive invariants and theorems |
| `LiveSwitch` | arm, disarm and the deployment: `.env`, `state:live` and `stream:control`, a write a step |
| `Dashboard` | the dashboard server: pump, broadcast and a handler per page, composed with `LiveSwitch` (which it EXTENDS) |
| `MCDashboard` | `Dashboard` for TLC (first lines of `.env`, and mixes of what the environment may do) |
| `DashboardProofs` | the inductive invariants of switch and server, and the theorems |
| `StreamTail` | operators: a trimmed Redis stream and a task that follows it with XREAD |
| `MarketFeed` | the Polymarket agent and the brain's `PolyFeed`, over `StreamTail` |
| `WhaleFlow` | the whale agent and the brain's `WhaleFeed`, over `StreamTail` |
| `BrainFeeds` | the two feeds on one clock |
| `MCBrainFeeds` | `BrainFeeds` for TLC (which agents are on, and what may fail) |
| `FeedProofs` | their inductive invariants and theorems |
| `CommonLemmas` | lemmas the proofs share: folds and sums, sequences, windows of a clock |

### LiveOrder

One member of `Proc` is one run of `main_execution.py`; a restart is the next member starting, and
two may overlap. `pc` says where a run is, and each value is a suspension point of the code:

| `pc` | the code is waiting for | left by |
|---|---|---|
| `new`, `read` | XREAD (`new`: the cursor is still `"$"`) | `ReadBatch`, `Resolve`, `Stop`, `ReadFails` |
| `next` | nothing: top of the inner loop | `TakeUp`, `BatchDone` |
| `gas` | `compute_gas`, then HGETALL `state:live` | `ReadArmed` |
| `poly` | XREVRANGE `stream:polymarket`, HGETALL `state:risk` | `ReadPoly` |
| `lock` | SET NX EX, then build and sign | `TakeLock`, `LockRefused` |
| `submit` | `wait_for(to_thread(SDK))` | `ThreadEnds`, `SubmitTimeout` |
| `report` | XADD `stream:executions` | `Report` |

`Kill` can happen at every one of them. `started`, `threads`, `posted` and `rows` are history: the
orders handed to an SDK thread, those whose thread still runs, those that reached the exchange, and
the rows about orders. `Post` is the moment the exchange takes an order, and it may come after
`SubmitTimeout`.

Abstractions, and why they are sound for the properties:

* A Polymarket record is a window and a `Quote`: no mid; a price within the limits; one that ran
  away from the entry's (the drift guard); one above the cap. The code compares the price with
  nothing else.
* `fit` stands for the reasons of `_live_block_reason` that only depend on the configuration, on
  `p_cex` (slippage) and on `state:risk`. No agent writes `daily_loss_usdc` or `open_positions`, so
  that read tells nothing but the configuration. `fit` may be either, at every entry.
* `last_order_*` of `state:risk` is written after a submission and read by nobody;
  `_record_live_order_state` catches its own exceptions. The call is part of `ThreadEnds`.
* `LIVE_FILLED` is a `LIVE_SENT` with another word. The call of `_runtime_live_armed` for a stale
  entry only fills a column of the row.
* A snapshot may be of any market that has opened, including one that is over, or be missing.
* `POLYMARKET_TOKEN_ID` is taken to be unset, as deployed: set, it replaces the token of the
  snapshot, and `TokenOfItsWindow` would say nothing about the code.
* Redis may come back empty (`RedisRestart`), and a call may raise (`CallFails`). Eviction of a
  single key under `allkeys-lru` is not modelled.
* Arm and disarm are one step each; `LiveSwitch` takes their three writes apart.

One thing the code does that no run is about: `ReadBatch` takes the clock once for the whole batch
(`main_execution.py:492`) and `IsStale` compares every entry with that reading, so an entry that
waited behind another's handler may be applied older than the limit that line 50 states. What
follows for orders is in `BatchMax`, which the lock's assumption below counts.

Time is one clock. It passes while a process waits for entries, for gas or for the CLOB (up to
`GasMax` and `SubmitMax`), and not while it waits for a single Redis reply. Two assumptions on the
timing are stated in `LiveOrderAssumption` and not derived:

* `Stale + BatchMax + Lag < LockTail + MinLeft` — in seconds, 2 + (BatchMax + Lag) < 30 + 5. The
  lock lives 330 s after its window's start, 30 s past the end; an entry is at least 5 s before the
  end by its own `sec_left`, and at most 2 s old when its batch is read. So a batch and the brain's
  lag together must stay below 33 s. With one order per window a batch holds at most one
  submission (`TX_TIMEOUT_SEC`, 3 s by default) per window; the gas call is cached for seconds.
* `Lag` bounds the time between the brain's reading of the clock and the `ts` of the entry. Between
  the two are awaits on Redis with no timeout of their own, so this is an assumption on Redis and
  not a property of the code.

### PriceToBeatFeed and PaperBrain

`PriceToBeatFeed` is the task of `pricetobeat_feed.py`. `FetchDone(asked, served, named)` is one
request: the window is taken from the clock at `asked`, the page is of time `served`, and the result
is applied now. `named` says whether the page names the open price of the window asked for; if not,
the close of the window that ended there serves. What a page says of a closed window is final, so
`closed` is the set of windows known, keyed as in the code by the time they *end*.

`PaperBrain` adds the main loop of `main_brain.py` around `PaperTrader`:

| `loop` | the code is | left by |
|---|---|---|
| `idle` | waiting for a quote | `Sample`: clock, window, strike |
| `sampled` | at the awaits before `PaperTrader.update` | `Update`: settle, rotate, decide |
| `drain` | publishing the records, one XADD at a time | `PublishEntry`, `PublishTrade`, `PublishFails`, `TurnDone` |

The feed's step and the clock may come between any two of these, and so may `Restart`.

* `slot` is `open_trade`, `pending` the bets that wait for a result, `outbox` the list that
  `drain` returned. `entries` and `trades` are what the *current* run of the brain added:
  a restart starts them anew, because the promises are about one run.
* `Market` is what the loop's readings come to: quote present or not, which side is cheap and its
  price, which side leads, which side the book leans to, near or far. Every combination may occur.
* A strike is represented by the window it is the beat of, so that "the wrong strike" can be seen.
  The fixed `PRICE_TO_BEAT` override is taken to be 0, its default.
* Prices are in cents and chosen so that the divisions of `Profit` are exact; the code uses floats.
* The dashboard records and the generic signal that the same turn publishes change nothing that the
  paper trade reads; they are left out. `FeedTick` assumes that one request ends per clock unit
  (a unit is longer than the 10 s time limit of a request, and shorter than a window).

### WhatIf

The same loop and the same feed, seen by `StrongObiSimulator`, `SpotObiSimulator`, `SignalMeter`
and `ObiCompareMeter`. Unlike the paper trade, these settle first and rotate nothing: a bet is known
by `open_windows` and `settled_windows`, a sample only by being pending.

* A behaviour has one simulator (`sim`), because the two share no state; the meters run beside it.
* `Market` is again what the loop's readings come to. `Enters` is the cascade of early returns of
  the simulator; with `ReversalOnly` false, the instance admits more entries than the default does.
* A turn is `Sample`, `Update`, `PublishRow` (or `RowFails`) per row, `TurnDone`. `LoopMax` is how
  long it may take: awaits on Redis lie between the clock reading and the update.
* `overran` is history: windows that had ended when a turn that began in them updated. In such a
  turn a meter settles the sample of the window it believes to be in, drops it, and samples the
  window again, to count it once more. The comment at `signal_meter.py:35` says once: `SampledOnce`
  states that and is violated, a finding. `RecountedOnlyOverrun` says what holds besides: without
  such a turn a window is counted once, and never more than twice.
* The bands of `_add_band` are three of the code's labels; the boundaries are in the instance.
* `counted` says how often a meter counted each window; the code keeps the sum of it, `total`.

### StraddleMeter

`Update(at, r)` is one call of `StraddleMeter.update`: rotate, settle, buffer the spot, then every
bucket. A reading is the spot, the price to beat and UP's price, each of which may be missing
(`NoPrice`, `None`): a spot without a price to beat is buffered and decides no zone. DOWN's price is
what UP's leaves of a dollar, as in the code. The buffer is cut from the front, as `popleft` cuts it,
and only when a spot comes: what is old stays in it over a gap.

The state of the code is a handful of values per bucket: the lowest and highest price, two timers
and two flags. `ticks` and `orders` are history: the whole record of the window being watched, and
the orders ever placed. The properties say that the incremental values are what somebody reading
the record would conclude, which no test of a single call shows.

* `Learn` gives a window's result at any time after its end, in any order, from the feed's task.
* `pending` is a set of windows: the code's list has one entry per window too, and the order in
  which it is walked only matters for the display.
* `at` may be older than `now` by `Lag`, and does not run backwards: the loop reads it once a turn.
* The strings of the snapshot and the lists kept for it only display the state and are left out.

### OrderBook

One exchange and one adapter; the adapters share nothing but `stream:cex_l2`, which takes their
records as they come. `past` is every book the exchange has had, and a message carries the version
it tells (`ver`): neither is in the program, they are how a record can be compared with the truth.

| action | code |
|---|---|
| `Connect` | `connectCEX`: dial, subscribe. The exchange answers with its book. |
| `Drop` | the read fails, `RunCEX` dials again; the adapter's closure keeps its book |
| `Restart` | the process ends and starts: `newBookState` |
| `Receive` | `ReadMessage`, `Parse` (reset or apply, the guards), `Publish` |
| `Change`, `Heartbeat` | the exchange |

Bybit, Kraken and Coinbase are `"delta"`; OKX is `"full"`; Binance is `"pooled"`: it alone does not
clear the struct it takes from the pool. `sync.Pool.Get` may return any struct put back before, or
make a new one, so `pool` is the set of all that were ever parsed into a struct of this process, and a
message without levels is published with the levels of any of these (`Parsed`, `Keep`). How old
they are nobody can say; `ShownIsPast` shows that they are those of one moment and never mixed, as
long as a message has both lists or neither. `astray` is history: why the last record in the stream
is not that of the last message with levels — it failed, it came from the pool, or it was late.

An XADD that fails may be tried again by the client, and may be carried out later (`late`, `Land`),
after newer records; `Add` is one publication with its tries.

The comment at `cex_client.go:163` says that a one-sided delta is skipped. It is not: a parser
refuses a message only if the book it leaves has an empty side. `Converges` holds for the code and
fails for the comment's behaviour, which is the mutant `PublishesBothSides`; the difference is a
finding.

External, from how the adapters use it: messages arrive in order and complete until the connection
breaks; a subscription is answered by the whole book before any change; every change is sent. A
price names a level in one spelling, and a list of best levels is sorted as the adapters expect. An
exchange's prices are finitely many and its
books never crossed (`OrderBookAssumption`, `FirstBookAssumption` and the guard of `Change`): that
is the exchange's contract, not the adapter's code, which checks neither.

### LiveSwitch and Dashboard

`LiveSwitch` is one flag in three places. `env` is the list of the `LIVE_ARMED` lines of `.env`,
because the two programs that use the file differ: the dashboard reads the first line with the key
and rewrites all of them, `get_env_kv` of the deployment reads the last and `set_env_kv` rewrites
the first. `call[o]` is the handler of an operator's request, and its values are the awaits of
`_publish_live_state`:

| action | code |
|---|---|
| `Ask` | `live_arm`, `live_disarm`: `.env` is written before the first await |
| `WriteHash`, `Tell` | HSET `state:live`, XADD `stream:control` |
| `HashFails`, `TellFails` | one of them raises, before or after it took effect; the request ends |
| `DeployReads` ... `DeployTells` | `ensure_live_defaults`, whose two Redis calls ignore errors |
| `SwitchKill`, `SwitchRedisRestart` | the server ends; Redis comes back empty |

Two requests, or a request and a deployment, may leave the three places different for good, and so
may a single failure: no code promises otherwise. `SwitchAgrees` says what does hold after a
change that ran by itself to its end, and `alone` and `whole` are the history it needs: after a
request the hash, the record and every line of `.env` say the same; after a deployment the hash and
the record say what the last line does. If somebody has left two lines that differ, the deployment
copies the last and the dashboard goes on showing the first, until the next request rewrites both.
`deploy/README_DEPLOY.md:96` says no more than that the deployment syncs `.env` into Redis.
The deployment syncs before it stops the old session, so the two really overlap.

`Dashboard` is the server around it. One event loop runs the pump and a handler per page; a step
goes from one await to the next:

| action | code |
|---|---|
| `Read`, `ReadTimesOut`, `ReadFails`, `Wakes` | `redis_pump`: XREAD, and the pause after an exception |
| `Begin`, `SendEnds` | one `send_text` of `broadcast`, and all that follows up to the next |
| `Connect`, `SendStatus`, `Fetch`, `FetchFails`, `SendPast`, `Leave` | `ws_endpoint` of one page |
| `Vanish`, `HubKill`, `HubRedisRestart` | a page's connection ends; the server or Redis restarts |
| `Publish` | an XADD to a stream, by an agent or by a request of `LiveSwitch` |

What the model makes visible, and `lost` names:

* Until a stream's first record its cursor is `"$"`, which each XREAD resolves anew. Records added
  between two calls, while the pump is busy with another stream or with nothing, are passed over
  (`server.py:222`).
* `broadcast` iterates over the set that `connect` and `disconnect` change. A set of another size
  raises, so those the iteration had not come to miss that record; the rest of the response is read
  again after a second, unless it has been trimmed. A set that changed and has its old size again
  makes the iteration undefined, and `Rests` lets it go on with any connections.
* The docstring of the pump (`server.py:217`) says that every record is broadcast. For either of
  these two reasons it is not so: `EveryRecordBroadcast` states it and is violated, a finding.
  `HubDelivers` says what holds besides, that a connected page misses a record for these two causes
  and for trimming only, and gets the others once and in order.
* The status is sent outside of any `try`: if it raises, the handler ends and the page stays in
  `active` until a broadcast to it fails.
* The past is an XRANGE with a count from the start, i.e. the *oldest* records. `HistoryJoinsLive`
  is about what is left of "past and present join" with that: no trade falls in between. A trade may
  reach a page both ways, and the live one first; the property says nothing about that.

Of the past only the trades are modelled; the other streams are read the same way. Authentication,
the status request and the pages change no state that is read here.

### StreamTail, MarketFeed, WhaleFlow, BrainFeeds

`StreamTail` holds what both feeds share: `AfterAdd` is an XADD with an approximate MAXLEN, which
may trim or not, and a reader is where its task is (`idle`, `blocked` in XREAD, `answered`), its
cursor, and whether the cursor is still `"$"`. A failing XREAD is one that returns nothing.

`MarketFeed` names a market by its window; market 0 is that of a static token.

| `agent.at` | the agent is | left by |
|---|---|---|
| `top` | at the top of `RunPolymarketAgent`'s loop | `Begin` (window from the clock) |
| `resolve` | in a request to the gamma API | `ResolveEnds`, `ResolveFails` |
| `dial` | connecting, in a context that ends with the window | `Dial`, `DialTooLate`, `Broken` |
| `open` | in `ReadMessage` | `Receive`, `RollOver`, `Broken` |
| `publish` | in the XADD of a book | `Added`, `AddFails`, `AddTooLate` |
| `pause` | sleeping | `PauseEnds` |

`AskQuotes`, `NoQuotes` and `TakeQuotes` are `PolyFeed.run`; `ForWindow` is `for_window`. Two facts
worth knowing: with a static token `window_ts` is 0, so `for_window` never gives the brain its
price, although the agent's header describes that setting; and a token may be resolved for a window
that is over by then, which costs a dial that fails and its pause.

`WhaleFlow` has one flush goroutine per connection ever made. `Flush` takes and clears the
accumulator under the lock; `Sent` or `SendFails` ends the publication; a goroutine whose
connection is closed sees that only afterwards and may tick once more first (`select` chooses among
what is ready). `FlusherEnds` drops what is left. An accumulator is the set of trades it sums, so
that "published twice" and "left behind" can be seen; the volumes, the largest trades and the count
are functions of it. `Pruned` and `Summed` are `WhaleFeed`'s deque and `signal`.

**How long an XADD takes.** `memory_pub.go` makes the go-redis client (v9.7.0) without
`ContextTimeoutEnabled`: the 500 ms of a publication's context keep a new try from beginning, but do
not end the waiting on the socket, which has its own timeouts of seconds; an attempt that failed
early is made again by the client; and a command whose answer did not come may still be executed.
So nothing is assumed about when a publication ends or takes effect. A failed attempt leaves its
record in `doubtful` (in `adrift` for the prices), from where Redis may execute it at any time
(`Land`, `LandQuote`), before or after the client has tried again; and the goroutine of a closed
connection may publish however long after the next connection was made (`belated`).

What is then left is what the properties say. `TradesAccounted`: every trade heard is in one place,
and the stream holds a record twice only if an attempt to add it failed. `SignalExact`: the sum
misses no recent record that the brain has read, and holds nothing unread; but popping from the
front leaves an old record in the sum when one of `belated` or `doubtful` stands before it (or is
it). Neither exception can be dropped: without either, TLC finds the sum holding an old record.

Left out: restarts of the agents and of the brain here (a restart forgets both sides of what is
compared), shutdown through `ctx.Done`, the keepalive, the choice of the best levels. The reader's
`now_ms` is taken to be the clock.

## 3. Runs

| run | instance | shows |
|---|---|---|
| `live_orders` | five settings: 2 runs of the agent with 2 entries of a window, or with 1 and a Redis restart; 1 run with 2 entries and a restart; 1 run on either stream over 2 windows with the switch, and 1 failing call, in LIVE or in DRY_RUN | `TypeOK`, `OneOrderPerWindow`, `LockOutlivesMarket`, `NotEarly`, `TokenOfItsWindow`, `NoSilentOrder`, `OrderLedger` implemented, and under fairness `HandlerReturns` |
| `live_rejected` | 1 run | **violated**: `LIVE_REJECTED` and the order stands |
| `live_armed` | 1 run, 1 Redis restart | **violated**: disarmed, and armed again by the restart |
| `paper_bets` | 2 windows, `obi` with 1 failing XADD and `dip`, 1 failing request, restarts, a feed that remembers two windows | `TypeOK`, `BetsAccounted`, `SettledByItsWindow`, `EntriesOncePerWindow`, `AccountAddsUp`, `RowsInOrder`, `PaperLedger` implemented, and under fairness `BetsSettle` |
| `paper_strike` | `dip`, 2 windows, 1 failing request, a feed that remembers one window | **violated**: a bet judged by the beat of an earlier window |
| `what_if` | either simulator, 2 windows, prices on the bands' boundaries, 1 failing XADD, restarts, a loop that stalls past the window's end | `TypeOK`, `JudgedAfterItsWindow`, `NetsAddUp`, `RecountedOnlyOverrun`, and `PaperLedger` implemented |
| `what_if_once` | one simulator, 2 windows, a turn that overruns one | **violated**: a window counted and sampled again |
| `straddle` | 2 windows, 2 buckets, 5 ticks with prices, gaps in quotes and spot | `TypeOK`, `AsRecorded`, `NestedBuckets`, `CountsAddUp` |
| `order_book` | each kind of adapter, 3 books of up to 6 levels, changes of 1 or 2 levels, 1 lost connection or restart, 1 heartbeat, 1 XADD that fails and may come late | `TypeOK`, `ShownIsPast`, `BookIsPast`, `RecordSane`, and under fairness `Converges` |
| `dashboard` | 2 operators, up to 3 pages, `.env` without the line or with two that differ, eight mixes of trades, requests, deployments, vanishing pages and failures | `TypeOK`, `SwitchAgrees`, `HubDelivers`, `HistoryJoinsLive`, and under fairness `PumpCatchesUp` |
| `dashboard_every` | the same mixes, 1 operator, nothing trimmed | **violated**: a record added between two calls of the pump reaches nobody |
| `feeds` | either agent or both, over a rollover; 3 books or trades, or 2 and 2 failures | `TypeOK`, `QuoteOfItsMarket`, `TradesAccounted`, `SignalExact`, and under fairness `FollowsMarket` |

The five violated properties quote what a comment or a document of the repository says; the
counterexample is what the code does. A sixth finding is of a run that passes (`order_book`).
`PROJECT.json` has the quotations. With two workers the passing runs take from one to three and a
half minutes each.

**Bounds.** The properties about locks need two competing entries of one window and two runs, and a
clock that reaches past any entry of the window: `Stale + BatchMax + Lag` is one below
`LockTail + MinLeft`, the largest the assumption allows, so the last entry of a window is handled
when its lock is about to expire. A
mutant whose lock is one unit too short is caught, so the boundary is really met. The rollover
properties need two windows. The paper runs need two windows, a third in which the second is
settled, and a feed that prunes. `KeepClosed` is 2 in `paper_bets`: with 1 a result may be pruned
before the bet has even been moved from its slot, and `BetsSettle` fails; the code keeps 50. Every
action fires in some run. What the bounds leave out (more runs, windows, entries) the theorems
cover.

The straddle run needs a tick on which orders are placed, two that start and complete a dwell, one
that breaks it, and one without a quote or a spot in between: five, in a window of four
seconds of which the last three are the zone. The second window is there for the rotation and the
settlement, and has few ticks and readings (`FullUntil`, `FewTicks`, `FewReadings`). The order book needs a change lost with
a connection and one after the reconnect, which is three versions; a change of two levels can move
an order from one price to another or empty a side.

The dashboard's hazards need few records and several actors, so `Settings` is a set of mixes, each
rich in some of these: two requests and a deployment with a failure; three connections of which one
comes while another's record is being sent; two trades, a request and a failure; more trades than
one response holds (`Count` 2) in a stream that is trimmed to one (`Keep` 1). In the feeds, a window
of 4 is longer than a resolution and a dial and shorter than both with their pauses, `Horizon` 11
has one rollover with two attempts after it, and the faults of the market stop early enough
(`LastFault`) for what must follow to follow. The setting of the whale with two failures begins at 6:
what matters there is the order of the records and not the clock's beginning.

`LastEmit`, `LastBet`, `LastWin`, `MaxVersions`, `MaxOther`, `MaxDrops`, `Horizon`, `MaxEntries`,
`MaxLosses`, `MaxFails`, `Failures`, `MaxFaults`, `MaxSock`, `MaxConn`, `LastFault` and the counts
of `Settings` only bound the instance; each is a guard of one action.
The clock stops at `Horizon`, so the runs say `CHECK_DEADLOCK FALSE`: the system may come to rest there.

**Fairness.** `LiveOrder`: weak fairness of the clock and of each process's own steps, because
asyncio runs every ready task and each of these steps stays enabled until it is taken. No fairness
for `Post` and `ThreadEnds`: nothing makes an SDK thread end, and `HandlerReturns` must hold
without it. `PaperBrain`: weak fairness of the clock, of the feed's task and of the loop's steps;
the last one includes `Sample`, i.e. quotes keep coming. None for failures and restarts.
`BetsSettle` also needs the feed not to be silent for as long as `KeepClosed` windows (50, over four hours), which is what `MaxFails` says in the instance.
`Dashboard`: weak fairness of `PumpStep`, because asyncio runs the pump whenever it can go on and
every XREAD and every send ends; none for pages, operators, failures or the deployment.
`BrainFeeds`: weak fairness of the clock and of the Polymarket agent's own steps (a request, a dial
and a publication end, the last by the timeouts of its socket; a sleep is over; the end of the
context is noticed), which Go's scheduler runs; none for the
market, the trades, the goroutines or the failures. `FollowsMarket` holds even if
the market falls silent, because only the context's deadline ends that wait. `OrderBook`:
weak fairness of `Connect`, since `RunCEX` dials for ever, and of `Receive`, since the reader loops
without a condition; none for the exchange. `Converges` has the exceptions that the code makes: a
book with one side only is not published, a record whose XADD failed is not tried again by the
agent, and after the current book's record one of a pooled struct or of a late XADD may come. It
also rests on a broken connection being noticed: `ReadMessage` has no deadline.

## 4. Proofs

Every safety property that a passing run checks is also a theorem, for every value of the constants
within the assumptions. What stays with TLC is liveness.

`LiveOrderProofs` proves, for every number of processes, windows, entries and restarts and every
timing within `LiveOrderAssumption`: `TypeOK`, `OneOrderPerWindow`, `LockOutlivesMarket`, `NotEarly`,
`TokenOfItsWindow`, `NoSilentOrder`, and that `LiveOrder` implements `OrderLedger`.

None of these is inductive. The invariant adds what the later steps rely on:

* `Cursors`: the cursor of a run stays within its batch and the batch within the stream.
* `Entries`: an entry names the window its publication fell in and a `left` at most `Lag` older than
  its `ts`.
* `Fresh`: what is in hand was at most `Stale` old when its batch was read, and the batch is at most
  `BatchMax` old.
* `Ready`: a run about to lock holds an entry and a snapshot that passed the guards.
* `Locked`: every order of this Redis life has a lock that ends no earlier than `LockTail` after its
  window — or its window is so far past that no entry of it can still be in hand.

From `Locked`, `Fresh` and `Entries` with the assumption on the constants it follows that when a run
takes a lock, no order of the same window and epoch exists: either its lock is held, or more time
has passed than an entry can survive. That is the one step (`TakeLock`) that can break
`OneOrderPerWindow`, and the refinement's only interesting step. `NoSilentOrder` is carried by
`Reported`: an order in hand is either inside `wait_for`, or its run is about to report and holds one
of the two verdicts of a sent order — that no other verdict can follow a submission is what has to
be shown of every step.

`PaperBrainProofs` proves `TypeOK`, `BetsAccounted`, `SettledByItsWindow`, `EntriesOncePerWindow`,
`AccountAddsUp`, `RowsInOrder`, and that `PaperBrain` implements `PaperLedger`, for all strategies,
prices, stakes, page lengths and prunings. The invariant behind the bets (`IInv`) adds that the feed
knows only windows that have ended (`FeedOK`), the types of slots and bets (`BetsTyped`), and
`Ordered`: pending and settled bets are on windows before the slot's, and the slot's window is no
later than the clock's. It rests on the clock being monotone (`WindowMonotone`).

What is published needs a second one (`JInv`), because between an update and the end of its turn the
streams are behind the account by the records still in hand. `OutboxOK`: an OPEN record is the last
of them and about the slot's bet, a SETTLED one is about an earlier bet. `EntriesOK`: no entry is
about a later window than the slot's, and there is one about the slot's own only while its OPEN
record is next or gone — so the next entry is of a new window. `RowsOK`: while nothing failed, the
OPEN row of every bet is in the stream or in hand. `AccountOK`: the account is a sum over the set of
settled bets (`Total`), and an update adds the sum over those it settles, in whatever order
`ByWindow` lists them; that a win is the payout less the stake is a fact about rounding down
(`WinIsPayoutLessStake`).

`WhatIfProofs` proves `TypeOK`, `JudgedAfterItsWindow`, `NetsAddUp`, `RecountedOnlyOverrun`, and that `WhatIf`
implements `PaperLedger`, for any window length, page, prices, stake and number of windows.
`BetsInOrder` is the paper trade's argument again. `MeterOK` relates a window's sample, its count and
the turns that overran it: a turn that began in a window that is over by now is the only one that can
count it twice, and a later turn is in a later window. `RowsChain`: every row shows the net of the
row before it and what it adds, from the first row of the stream to the last in hand, which shows
the account; with it `NetsAddUp` is a sum over the rows, and one over the bands for the same bets.

`StraddleProofs` proves `TypeOK`, `NestedBuckets`, `CountsAddUp` and `AsRecorded`, for all buckets,
limits, dwells, lookbacks, readings and any number of ticks and windows, and that the conservative
model fills no leg that the optimistic one does not. Three invariants:

* Nestedness of the fills is not inductive: whether a wider bucket is filled depends on its lower
  low, its higher high and its earlier timers, so the first compares these (`Wider`), for every pair
  of buckets of every window watched or waiting. `BucketOK` relates one bucket's timers and flags to
  what it has seen, and `Blank` says that nothing is seen before the orders are placed — which is why
  a bucket placed later starts behind, never ahead.
* `CountsOK`: a settled window goes from `pending` into the counts, so placed orders are counted as
  those of the counts, of the windows waiting and of the one watched; the three are disjoint since
  what waits is earlier than what is watched. A settlement adds the windows in the order of the fold,
  which is unknown but the same for the two models (`SettledCounts`), so the conservative model can
  be compared with the optimistic one window by window.
* `RecordOK`: the buffer holds every price of the record within the lookback, and nothing the record
  does not (`BufOK`), so the spread of the buffer after a tick with a spot is the largest difference
  of two such ticks (`ZoneNow`); and a timer shows when the stretch of quotes at the limit began that
  lasts until the last tick (`TimerOf`), so a new quote completes a dwell exactly if some stretch of
  the record is as long (`QuoteAtLimit`, `QuoteElsewhere`).

`OrderBookProofs` proves `TypeOK`, `ShownIsPast`, `BookIsPast` and `RecordSane`, for all books,
levels, adapters and any number of reconnects, restarts and messages. What a change does to the local book depends on the
book it was made for, so the invariant is about the wire: its messages form a chain from the version
the adapter heard to the exchange's current one (`Chain`), each true to the books of its version
(`MessageOK`), and before the first snapshot of a connection nothing is read that would be published
(`NotYet`). For the pooled adapter it says of everything in the pool, and of every record shown or
late, that it is one of the books of the exchange as it was told (`Past`, `Shows`), which is all that
`ShownIsPast` needs: it does not matter which struct the pool gives. `ChainAppend` and `ChainTail` are the two lemmas about sequences it comes down to;
`SnapshotTells` and `ChangeTells` those about books. `RecordSane` needs in addition that no book of
the exchange is crossed and that a record is made of a book with two sides (`Sane`); the best levels
of an uncrossed book are uncrossed, and a wider band sums over a larger set.

`DashboardProofs` proves `TypeOK`, `SwitchAgrees`, `HubDelivers` and `HistoryJoinsLive`, for any
number of operators, pages, records and failures, and any lines of `.env` to begin with. `SwitchInv` says what holds in the middle of a
change that has been alone so far: nobody else is in a handler; in a request every line of `.env`
already says the new value, in a deployment the last line does; and the hash does once the record is
due (`CallInv`, `DeployInv`). For the server,
what a page has been sent depends on where the broadcast is, so the invariant follows the record in
hand: a page of the iteration has it or is still to come (`cur`, `todo`), unless the set was stirred
and the record is in `lost`; everything between a page's joining and the cursor it has, and nothing
after. The past is joined to this by the count of records there were when it was read.

`FeedProofs` proves `TypeOK`, `QuoteOfItsMarket`, `TradesAccounted` and `SignalExact`, for all
lengths of windows, pauses and time limits, any `MAXLEN` and `Count`, and any
number of connections, trades and failures. The market's side is about labels: what the agent holds,
has added and the brain keeps names the window of its own market (`Holds`, `Labels`), and a stamp is
never before the window's start because the clock is monotone (`WindowMonotone`), nor after its end
because a record stamped later is never begun. The whale's side has three parts. Places:
`TradesAccounted` with `LinkOK` (one record on its way per goroutine) and `NotYet` (what is on its
way is in the stream only if an attempt at it failed). Order: `InOrder` says that of the records not
astray the later is the newer, and that what an open connection has on its way is newer than all of
them — from the goroutine publishing one record after the other and the next connection's first
record being taken after it was made; nothing is needed of how long anything takes. Reading:
`ReaderInv` says that the deque holds only records read and not missed, and all of these that are
recent; trimming and `"$"` are the two ways to miss one. What stands in the deque before an old
record and is recent was added earlier and is newer, so one of the two is astray.

**Sums, folds and sequences.** The library's induction theorems take a predicate as a parameter,
which the provers here cannot instantiate. `CommonLemmas` does without: it takes the *set* of the
subsets (or lengths) at which a claim fails and cites that a non-empty one has a minimal member
(`MinimalSet`, `LeastNat`). With these, the folds of the community modules, which are CHOOSE'd
functions on the subsets of a finite set, are shown to exist (`FoldExists`, `SumExists`) and to be
what their names say (`TotalTake`, `TotalUnion`, `TotalReindex`, `LeftSum`). `SelectSeq` and
`SortSeq` are opaque to the prover, so the models define what they need by a fold, a CHOOSE or a
function and the lemmas show that there is one (`Selected`, `SortedCovers`).

**Assumptions.** The theorems rest on the named ASSUMEs of the modules, which TLC evaluates on every
run: types and positive lengths of windows; the inequality about timing discussed above; the
price of a bet between 1 and 99 cents; the straddle's limit between 1 and 100 cents; finitely many
prices and an uncrossed first book.

Only model-checked: `HandlerReturns`, `BetsSettle`, `Converges`, `PumpCatchesUp` and `FollowsMarket`:
they are liveness properties under fairness, out of this prover's reach.

## 5. Not modelled, and the plan

Order of the work, most important behaviour first:

1. *done* — execution agent: `LiveOrder`, `OrderLedger`, proofs.
2. *done* — paper trade and settlement: `PriceToBeatFeed`, `PaperBrain`, `PaperLedger`, proofs.
3. *done* — `WhatIf`: the simulators against `PaperLedger` again, and the meters; proofs.
4. *done* — `StraddleMeter`; proofs.
5. *done* — `OrderBook`: the adapters against the exchange's book, over reconnects; proofs.
6. *done* — `LiveSwitch` and `Dashboard`: the switch in three places, and the broadcast over a set
   that connections change; proofs.
7. *done* — `MarketFeed`: the Polymarket agent's rollover, composed with the brain's reader; proofs.
8. *done* — `WhaleFlow`: the whale agent's accumulator over reconnects and failed publications,
   composed with the brain's reader; proofs.
9. *done* — proofs that `WhatIf` implements `PaperLedger`, of what the paper trade publishes
   (`EntriesOncePerWindow`, `AccountAddsUp`, `RowsInOrder`), of the straddle meter's counts and record.
10. Open: the dashboard's and the feeds' parts one by one against abstract specifications of their
    own (a channel that loses only what it names; a window sum).

Hazards that no property covers, with the reason in `PROJECT.json`: a disarm between the reading of
the switch and the submission (the code promises nothing there), an exchange that goes silent on
an open connection (no read deadline, so nothing can be promised), a result whose XADD fails (it is
logged and the row is lost), and the age of the later entries of a batch.

Not modelled, with the reason:

* the arithmetic of the brain: floating-point averages without control flow, whose results are
  nondeterministic inputs of `PaperBrain` and `WhatIf`;
* `RedisConsumer` of the brain: it reads like the tasks of `StreamTail` and drops what is older than
  a second; what it passes on are the quotes that `PaperBrain` takes at any time;
* the DEX and Chainlink agents, and the brain's DEX, USDT and Chainlink feeds: a connection loop
  like the others' and one last value, shown on the page and used by the arithmetic;
* `poly_router.py` and `env_alias.py`: a connection and a mapping of names at start-up;
* the pages of the dashboard: presentation;
* the deployment beyond the switch and the restarts it causes: installing, building, sessions.
