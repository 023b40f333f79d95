# Verification of exchange-apiws

TLA+ models, TLC runs and TLAPS proofs for `exchange-apiws`, a Rust library of
REST and WebSocket clients for crypto exchanges (KuCoin, Binance, Bybit, Kraken,
OKX, Coinbase, Crypto.com). `PROJECT.json` lists the components, the runs, the
theorems, the hazards and, per definition, the lines of the source it models.

Run from this directory:

    tlc -workers 2 -config OrderBook.cfg MCLocalOrderBook     # a run
    tlapm LocalOrderBook_proofs.tla                           # the proofs

## 1. The system

| Part | State it keeps | Operations | Who calls whom |
|---|---|---|---|
| WebSocket order client (`ws/orders.rs`) | bounded queue (256), map clientOid -> oneshot, closed flag, shutdown watch, two tasks | `place_order`, `cancel_order`, `send_raw`, `close`, drop of the last clone | many callers, one writer task, one reader task; answers are matched by clientOid |
| Local order book (`book.rs`) | two `BTreeMap`s, last update ID, synced flag | `apply`, readers, `snapshot` | fed by the consumer with what a connector parsed |
| Feed runner (`ws/runner.rs`: `run_feed`, `single_session`) | attempt counter, socket, ping and idle timers, rate guard | connect, subscribe, receive, forward, ping, reconnect | sends to a bounded channel, obeys a shutdown watch, parses through an `ExchangeConnector` |
| Supervisor (`run_feed_supervised`) | cycle counter, current endpoint | refresh the token, restart the runner | calls `run_feed` and the caller's `refresh` closure |
| Rate guard (`WsMsgGuard`) | sliding window of send times | `check` | runner and order client, before each send |
| Connectors (`ws/feed.rs`, `*/ws.rs`) | none, except the IDs in the frames | parse, subscribe strings, stamping of update IDs | called by the runner |
| REST transport (`http.rs`, `client.rs`) | retry and 429 counters of one request | `send_with_retry`, `execute_with_retries`, `PublicRestClient::get` | used by every REST client |
| Nonce sources (`kraken/private.rs`, `cryptocom/private.rs`) | an atomic counter with the clock as floor | `next_nonce` | concurrent REST calls, each of their attempts |
| Server clock (`rest/market.rs`, `client.rs`) | an atomic offset shared by all clones | `sync_server_time`, `refresh_server_time` | a REST call with its retries; read by every signature |
| REST endpoints, auth, types | none | request building, deserialising, paging of klines | callers |

What is hard here: callers, tasks and teardown interleave around the pending
map; an order whose call failed may still be executed; deltas are lost, repeated
and reordered around snapshots; shutdown, timeouts, backoff and backpressure
share one task; a stale token has to surface although nothing reports it. What
makes each part correct:

* **order client** - an ack reaches its own call or none; a fail-fast error means
  that nothing was sent; every call returns; teardown releases those who wait;
* **order book** - a synced book is the exchange's book at the ID it names;
* **runner** - paced connects, an exact retry budget, obedience to shutdown;
* **supervisor** - stale tokens are renewed, no renewal after a shutdown request;
* **connectors** - what a venue's own fields become carries the right IDs, sides,
  statuses and "no news", so that the book, a fill count, a quote or a set of closed
  candles built from the messages is the venue's;
* **rate guard** - never more messages in a window than the venue allows;
* **REST** - an order under a client key is placed once whatever is lost or resent,
  any other request once per attempt; calls return;
* **nonces, clock, paging** - nonces unique and rising, an offset that is wrong by a
  bounded amount, no candle twice and few missing.

## 2. Modules

| Module | Models | Composition |
|---|---|---|
| `OrderEntry` | what the order client promises: each call opened once, settled once, and what "answered", "refused" and "unknown" say about the exchange | abstract specification |
| `WsOrderClient` | `ws/orders.rs` | implements `OrderEntry` (`Entry == INSTANCE ... WITH`) |
| `LocalOrderBook` | `book.rs` and an exchange with any lossy feed | |
| `FeedRunner` | `run_feed`, `single_session` | |
| `SupervisedFeed` | `run_feed_supervised` | extends `FeedRunner`, whose steps are its steps while the runner runs |
| `RateGuard` | `WsMsgGuard` | |
| `Connectors` | `parse_message` of every venue, public and private: a function from a frame to messages; abstracted to the fields a property reads | |
| `BookFeed` | ten book channels: venue, sessions, wire, REST seed, connector, book | extends `LocalOrderBook`, instantiates `Connectors`; each step is a step of `LocalOrderBook` or a stutter |
| `AccountFeed` | one order on a private feed of five venues, and a consumer | extends `Connectors` |
| `TapeFeed` | trades, quotes, candles and funding of seven venues, and a consumer | extends `Connectors` |
| `Endpoints` | what each REST method asks of its venue: reads, settings and acts, and under which client key | |
| `RestClient` | the retry loops, the nonce source, the network and an exchange | extends `Endpoints` |
| `ServerClock` | `sync_server_time`, `refresh_server_time` | |
| `KlinePages` | `fetch_klines_extended` | |
| `MC*` | constants of the TLC runs; `MCParts` puts six modules without common state side by side, one of them moving per behaviour | |
| `*_proofs` | theorems about the module of that name; `SupervisedFeed_proofs` holds those about `FeedRunner` too, `Parts_proofs` those about `RateGuard`, `ServerClock` and `KlinePages` | extend the module and TLAPS |

### WsOrderClient

`pc[r]` is where call `r` stands in `send_and_await`: the closed check (`Begin`),
the insert under the lock (`Insert`), `try_send` (`EnqueueOk`, `EnqueueFails`),
the wait on the oneshot (`Answered`, `SenderDropped`, `TimeOut`) and the cleanup
(`Remove`). A caller may drop the future at any await (`Cancel`). The lock is held
between two awaits only, so a critical section is one step. The writer takes a
frame, paces and sends it (`WriterTake`, `WriterSends`), or leaves and, two steps
later, drops the queue (`WriterLeaves`, `WriterEnds`). The reader routes answers,
leaves and drains (`ReaderRoutes`, `ReaderLeaves`, `ReaderDrains`). The `select!`s
are unbiased, so a ready branch may always be passed over. Frames are abstracted
to the call they belong to; an answer is a kind and the frame it answers, and the
reader sees only its clientOid. `sent`, `placed` and `answered` record what the
wire and the exchange have seen; only the exchange's actions and the properties
read them. A frame `parse_inbound` ignores is a frame that never arrived.

### LocalOrderBook

The exchange numbers its book's states; `history[i]` is the state after update
`i`. `DeliverSnapshot` and `DeliverDelta` hand over any past snapshot or range of
updates at any time, so loss, duplication and reordering need no actions of their
own. A delta holds the absolute quantity of each level that changed in its range,
as the venues send it. A missing level is quantity 0. Venues without update IDs get
no sequence check from the code and no promise from the model. `Reseed` lets one
book's `snapshot()` seed another.

### FeedRunner and SupervisedFeed

One task, so `phase` is its program counter. Time passes in ticks; a due timer
fires before the next tick, work without a timer takes any time. `age` counts from
`session_start`, before the connect, as in the code. While the watch has an unseen
send, only `ObserveShutdown` runs in the receive loop: that is the `biased`
`select!`. `Forward` is `tx.send(msg).await`, outside the `select!`. Authentication,
throttling and subscribing take at most `SubscribeTime`. The supervisor only looks
at clones of its receiver, so a clone reports a change once the watch was ever sent
to; a send of `false` therefore ends each later refresh delay at once
(`DelayInterrupted`).

### RestClient and Endpoints

The three loops (`execute_with_retries`, `send_with_retry`, `PublicRestClient::get`)
have one control: a network error uses an attempt, a 429 does not but is counted on
its own, any other response ends the loop. `Endpoints` gives for each method the
requests it may make: a query, a setting (repeating it changes nothing), or an act
without key, with one minted inside the method, or with the caller's. `Start` picks one.
The clients differ in what they make of an answer (`Unwrap*`), in nonces, in timeouts
and in whether they retry; `client` picks one of seven. `NetworkError` may strike
while the request is in flight: it stays in `flight`, and the exchange may carry it out
later, or never. `RaiseFloor` and `DrawAndSend` are the two atomic operations of
`next_nonce`; the draw that `Start` makes is thrown away by the code too. A restart
kills the calls and the counter, not the requests in flight. `ClassifySubmit` is
`classify_submit`.

### ServerClock and KlinePages

The offset is represented by its error: the offset in force minus the right one.
Between reading the local clock and the server's lie the attempts, timeouts, backoffs
and 429 sleeps of `get` (`SyncRequestFails`, `SyncRateLimited`, `Resend`); the answer
may be late too. `LocalClockSteps` is a correction of the local clock, after which an
older measurement is stale (`measured`). `KlinePages` lets the exchange have any set of
candles up to a bound, one of them possibly malformed, and runs the loop page by page;
a window is closed at both ends. Sorting is stated by its result: a page is the one
increasing arrangement of its candles, and `Fetched` holds the places of `all` that
fewer than `total` others precede in the sorted order, which are those that survive `truncate`.

### Connectors, BookFeed, AccountFeed, TapeFeed

A frame is a record with a topic and the venue's own field names. `Parse*` follows the
dispatch of each `parse_message` and returns the messages with the fields that matter:
IDs, levels, sides, statuses, sizes. Prices and quantities are small numbers; a missing
or malformed number is what `Amount` makes of it (0.0, as `str_f64` does). Each feed
model plays a venue that pushes such frames and a consumer that does what the
documentation tells it to.

* `BookFeed` gives each venue's numbering (`U..u`, `prevSeqId`, `pu`, `sequence`, `u`),
  its opening snapshot or the REST snapshot instead, sessions that lose the wire, and
  frames the parser refuses (`SkipFrame`). `contains` and `missed` only serve the properties.
* `AccountFeed` keeps the consumer contract of `OrderUpdate` in `actors.rs`: fills are
  counted by `trade_id`; status and filled size come from events without match fields
  where fills have a topic of their own (Bybit, Crypto.com). Binance, Kraken and KuCoin put
  both in one event, so by that rule a consumer would never learn of a fill
  there; the consumer of the model follows every event on those.
* `TapeFeed`'s consumer records trades by `trade_id`, takes a 0.0 in a ticker for "no
  news", which is what partial Bybit tickers need, and keeps candles flagged closed.

### RateGuard

`check` prunes (`Drops`), passes or sleeps (`Throttle`), and stamps. After the sleep
the expired stamp stays in the window (`Wake`), as in the code. One task owns a guard.
An `Instant` counts nanoseconds, so two messages never share one.

## 3. Runs

| Run | Instance | What it shows |
|---|---|---|
| `OrderClientSafety` | 2 calls sharing one clientOid, queue of 1 | refusals are final, waiters are reachable, no entry is left, `OrderEntry` is implemented, `IInv` holds |
| `OrderClientLive` | 2 calls, own clientOids, queue of 1 | acks go to their own call, a dropped sender needs a reused clientOid; closing releases parked calls although the writer may hang; every call returns if its timer fires |
| `OrderClientStranded` | as above | violated: a call can register after the drain and wait for its timeout |
| `OrderBook` | 2 books, 2 prices, 3 updates | a synced book is exact; only snapshots rewind or resynchronise |
| `Feed` | budget 2, backoff 1/2/3, stable 4, idle 4, ping 2, channel of 1 | paced connects, exact budget, shutdown ends the feed, unstable feeds surface |
| `FeedForever` | no budget | violated: an unreachable server makes the feed ignore shutdown for ever |
| `FeedPing` | as `Feed` | violated: a slow consumer starves the ping |
| `FeedSilent` | as `Feed` | violated: a silent session counts as a successful one |
| `Supervised` | runner budget 1, one cycle or no bound on cycles | quiet stop only on request, no refresh after shutdown, shutdown obeyed, stale token renewed |
| `Rest` | KuCoin, Bybit, Binance, listen key, public; 2 calls, 2 attempts, one 429 | a permanent key acts once; once per attempt; calls with a timeout return |
| `Nonces` | Kraken, Crypto.com; 2 calls, 2 attempts, a clock of 2 ms, a restart | nonces unique; a call never overtakes itself |
| `Parts` | 10 book channels with 3 updates, 2 sessions; an order of size 3 on 5 venues; 7 tapes; a quota of 3 per 5 ticks; 2 syncs with 2 tries and one 429; 6 candles, pages up to 3 | stamped feeds implement `LocalOrderBook`; lossless books are exact; executions count once; the consumer catches up; the tape is the venue's; the quota holds; the offset error stays within the retry loop; a page boundary loses one candle at most |

Bounds. The queue length, the number of calls and the clientOids are
the smallest at which the queue is full, two calls share a clientOid and two calls
do not. Three updates give a contiguous delta, an overlap, a gap, a stale delta and
a late snapshot. In the feed runs one tick stands for about 15 s: stable and idle
time are equal as in the defaults (60 s), ping is below idle, connect and subscribe
together stay below the stable time. `MaxSignals` bounds the sends on the watch,
`MaxBatch` the messages of a frame, `AgeCap` merges ages no comparison tells apart,
and the counter of an unbounded feed stops at 5, where the backoff stops growing.
In `Rest`, `Nonces` and `Parts` two attempts are a first one and a resend, one 429 a
resend that keeps the attempt, two calls a race; the code's limits are 3 and 5, and the
proofs cover them. Pages of 1 to 3 candles and totals up to 5 give whole pages, a short
last page and a single one; six candles with any gaps give an empty window and a candle on
either end. Two sessions give one reconnect, three updates a delta over two, a gap and a
late REST snapshot; a quota of three in five ticks lets the window outgrow the quota.

The model stops when all calls are over, the feed returned or the exchange's
updates are used up, so deadlock is not checked.

Fairness. `WsOrderClient`: calls and reader are scheduled; the writer is not (it may
hang in a write on a half-open socket), nor is the exchange; timers are assumed only
in `EveryCallResolves`, as its premise. `FeedRunner`: time passes, due timers fire,
ready steps of the task run, the consumer reads or drops its receiver; the server
owes nothing. `Tick` is strongly fair because a server cannot send for ever within
one tick. `SupervisedFeed` adds that the refresh closure, a REST call with a
timeout, returns. `RestClient`: a call that can go on is polled (`GoesOn`), and a request
whose client has a timeout ends in an answer or an error (weakly fair `NetworkError` under
`HasTimeout`). Binance's signed client and its listen-key client are built without one:
nothing is promised for them. The other modules state safety only.

## 4. Proofs

For every value of the constants that the named assumptions allow:

* **WsOrderClient** - `IInv` is inductive: a sender in the map belongs to a live call
  of that clientOid with an empty oneshot (`SenderIsLive`) and a parked empty call is in
  the map (`RegisteredIsReachable`); results follow the program counter; a frame in hand
  belongs to a call that was not refused (`QueuedIsNotRefused`); whatever travels to a
  call came from the exchange for its clientOid (`AnswersAreGenuine`). The safety
  properties follow, and `Refinement` shows `Spec => Entry!Spec`: each action is a step of
  `OrderEntry` or a stutter. Without `SenderIsLive` a routed answer could overwrite
  another; without `QueuedIsNotRefused` a refused frame could still be in the queue.
* **LocalOrderBook** - `LevelsMatchId`, which also holds for a book that lost sync, is
  what makes the invariant inductive: the sequence check then gives a delta whose range
  covers the step from that state, and `ApplyDeltaIsExact` shows that applying it yields
  the state at its last ID.
* **FeedRunner** - in a backoff the age of the last session plus the remaining sleep
  covers the delay, and a start without backoff follows a stable session
  (`BackoffCompletesDelay`). Pacing and exactness of the budget follow.

* **SupervisedFeed** - `SupervisorInv` joins the runner's invariant with the supervisor's
  types and the quiet stop; the runner's part is needed because the supervisor reads what
  `run_feed` returned, and its steps are the runner's steps while it runs.
* **RateGuard** - `GuardInv`: the window is a suffix of what was sent, in order, and the
  stamps before it have expired, so that a message `MaxMsgs` further on is a window later
  although the expired stamp stays; the window is at most one stamp too long.
* **RestClient** - four invariants, each on top of the types. `NonceInv`: every nonce in flight is below the
  counter, and that of the attempt a call waits for is the newest of that call. `AttemptInv`: before an attempt is
  sent nothing of it is in flight or executed, and at most one request of an attempt is alive, because a 429
  means the previous one is gone. `KeyInv`: a call's requests carry its own key, and once one acted the venue
  holds the key.
* **ServerClock** - `ClockInv` adds to the bound that the time since the local clock was
  read fits the attempts and 429s used up so far plus the time spent in the present
  phase (`Budgets`); the bound alone is not inductive.
* **BookFeed** - `FeedInv` says what may be on the wire: only snapshots and deltas of past
  updates, each as the venue's fields spell them. The lemmas `ParseOfSnapshot` and
  `ParseOfDelta` show that each connector turns those into the snapshot or delta of
  `LocalOrderBook` with the right range, `DeliveryImplements` that applying the message is
  a `Deliver*` step of it. `FeedRefinesOrderBook` follows, and with it, by the proofs about
  `LocalOrderBook`, `FedBooksAreExact`. For KuCoin's incremental channel each update must
  change one level, which is how KuCoin numbers them (`OneLevelEach`).

  The second theorem, `LosslessBooksAreExact`, covers the streams without update IDs, where no
  refinement holds and only the order of the wire protects the book: each frame is newer than
  those before it and than the book (`WireInOrder`), so that a book that missed nothing is
  the venue's state at `contains` (`BookFollows`).
* **AccountFeed** - `AccountInv`: the consumer's count is that of the executions on its record
  (`Counting`), every report in a queue is one the venue wrote and says what the order was at
  that moment (`QueuesAreTrue`), an end is real (`EndIsReal`), nothing is queued outside a
  session (`Sessions`), and the last report of each kind in a queue, or where there is none the
  consumer's own knowledge, is the present truth (`TruthInSight`). The last part is what
  "after everything was read" needs: `ConsumerCatchesUp` alone says nothing while a queue
  holds a frame.
* **TapeFeed** - `TapeInv`: every frame on the wire says something true of the venue
  (`WireIsTrue`; lemmas `TradeSays`, `TickerSays`, `FundingSays`, `KlineSays` run it through
  each connector), and a field that a partial ticker leaves out equals that of the ticker
  before it, on the wire or read last (`WireFollows`). Without the second part a merge of
  partial tickers could not be shown right; a reconnect keeps it because the next session
  opens with a full one.
* **KlinePages** - `PagingInv`: what was collected is distinct, listed and above the next
  window (`CollectedAbove`), and of what the windows passed at most one candle per boundary
  is not in it (`OnePerBoundary`), for between the ends of two windows lies less than one
  granularity (`OneCandleBetween`). What the cut takes is then counted.

Assumptions are those the modules name (`*Assumption`): bounds are naturals, a model value
is not a number, prices are integers, a quote has a positive bid no higher than its ask and
a positive last price (a venue does not quote 0; the code reads 0.0 as "absent").

`SyncedIsNotCrossed` is proved and no run checks it: it follows from `SyncedIsExact` and a
venue whose own book is never crossed.

Every invariant and action property that a passing run checks is also proved. Only
model-checked: liveness (`EveryCallResolves`, `CloseReleasesWaiters`, `CloseStopsReader`,
`ShutdownReturns`, `CascadeSurfaces`, `SupervisorShutsDown`, `StaleTokenIsRenewed`,
`EveryCallReturns`), which needs fairness and ENABLED and is out of the prover's reach, and
the violations of section 5, which are counterexamples.

## 5. Findings

Four statements of the documentation that the code does not keep, each shown by a
violation run: a call stranded by a racing teardown, a shutdown ignored during
backoff and connect, a ping starved by backpressure, a silent session that resets
the retry budget. `PROJECT.json` quotes the lines.

Met on the way, and not shown by a run of its own:

* `ErrorClass::Retriable` is "safe to retry the same request" (`error.rs:88`), and a gateway
  error of a POST without a client key gets it although the exchange may have
  executed the request. The loops themselves also resend such a POST after a network error.
* A duplicate key is recognised in KuCoin's wording only; Bybit's and Kraken's are `Fatal`, as is
  a body that fails to decode after the order was accepted, and Kraken's
  `EAPI:Rate limit exceeded`.
* "A 'not found' code means it never did" (`rest/orders.rs:393-400`) does not hold while a request whose
  answer was lost is still in flight.
* `sync_server_time` calls the round trip negligible ("Sub-second RTT"); with retries and 429
  sleeps the two clock readings can lie minutes apart.
* `fetch_klines_extended` drops one candle per page boundary where both neighbours exist, and
  `truncate` keeps the oldest, not the newest, `total`.
* `calc_contracts` returns 0 contracts when `max_contracts` is 0.
* Rule 3 of `OrderUpdate`'s contract cannot be kept on venues with one stream (see `AccountFeed`),
  and KuCoin's `done` says neither filled nor canceled.
* `create_listen_key` documents a Json error for an undecodable body; it is an Http error.
* REST candles are always flagged closed (`binance/rest.rs:161`), the one still forming included.
* Bybit's `parse_ticker_funding` has no caller on the parse path.
* Across a restart the nonce counter relies on the wall clock alone, so `NoncesUnique` and
  `OnlyOthersOvertake` speak of one process.

## 6. Plan

1. done: `WsOrderClient` with `OrderEntry`, `LocalOrderBook`, `FeedRunner`,
   `SupervisedFeed`, with proofs.
2. done: `RateGuard`, `RestClient` with `Endpoints` and nonces, `ServerClock`, `KlinePages`,
   `Connectors` with `BookFeed`, `AccountFeed` and `TapeFeed`; proofs for each of them.
3. open: OKX's sequence reset; `BookFeed` under `FeedRunner`'s own sessions instead of its
   abstract ones; a caller that reacts to `ErrorClass`.

## 7. Not modelled

Signatures, URLs, number and text formats, response types, logging, `RunnerEvent`s and TLS.
Of the connectors: timestamps, volumes, fees and KuCoin's price-band events; text is taken to
be well formed or missing. OKX's reset of `seqId` to a smaller value, after which the book
calls every delta stale and stays synced on an old state: the model of the venue numbers its
updates densely. Coinbase subscribes each channel with a message of its own, of which
`BookFeed` takes the book's. Panics and process death lose all state of this library, which
persists nothing; a restart matters to the nonces only and is modelled there.
