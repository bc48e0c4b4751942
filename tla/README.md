# dwizzyBRAIN: a verification project

TLA+ models of dwizzyBRAIN's core, checked with TLC on small instances and, for
what matters most, proved with TLAPS for every value of the constants. Paths are
relative to `src/` unless they name a module of this directory.

1. [The system](#1-the-system) · 2. [Modules](#2-modules) ·
3. [Runs](#3-runs-and-their-bounds) · 4. [Fairness](#4-fairness) ·
5. [Proofs](#5-proofs) · 6. [Where code and documents part](#6-where-code-and-documents-part) ·
7. [Not modelled](#7-not-modelled-and-why) · 8. [Plan](#8-plan)

## 1. The system

dwizzyBRAIN is a Go backend of three programs over one Postgres/Timescale
database and one Valkey (Redis), with two Cloudflare workers, a Solidity
contract and a Python quant service around it:

| program | source | what it does |
|---|---|---|
| IRAG gateway | `irag/` | an HTTP gateway that answers one path from a chain of upstream REST APIs, with a circuit breaker per upstream and a Redis response cache |
| engine | `engine/` | an errgroup of jobs that collect market, news and DeFi data and write them to the database and to Valkey |
| API | `api/` | accounts and sessions; read-only queries over what the engine wrote |

### Components, their state and their operations

| component | state | operations | hard because |
|---|---|---|---|
| circuit breaker `irag/circuit.go` | `failures`, `openUntil` per upstream, under a mutex | `Allow`, `Success`, `Failure` | check and result of a call are apart: results of calls begun before it opened come in afterwards |
| routing tables `irag/service.go`, `download.go` | none | `routeSpecForPath`, `upstreamPathAndQuery` and the families it hands over to | two long switches over prefixes, apart from each other, have to agree |
| request path `irag/service.go`, `cache.go` | cache entries; per request its position in the chain and its last error | `serveRoute`, `proxyWithFallback`, `attemptProvider`, `writeResponse`, `writeCached`, `writeFailure` | concurrent misses of one key, attempts with deadlines, clients that hang up, shutdown |
| agent router `engine/agent` | a Redis key per resource | `Ask` (SETNX, providers in order, DEL) | the key expires under a running call; nobody knows whose key it deletes |
| ticker aggregator `engine/market/ticker/aggregator.go` | the latest ticker by coin and exchange, under a mutex | `Update`, `Snapshot(s)` | late tickers, stale quotes, the random order of Go maps |
| ticker ingest `ingest.go`, `publisher.go`, `ticker/runtime.go` | price cache with 10 s expiry | stream batches, polls of tickers, two SETs per ticker | two goroutines bring tickers of one exchange; every write can fail |
| Binance client `ws/binance.go` | connection, session context | `Connect`, `ReadMessage`, `Close` | a blocking read does not see its context |
| arbitrage scanner `engine/market/arbitrage` | cooldown keys, alert rows, configuration rows | `Scan` | row and key are two writes; Redis errors are dropped; rows change under it |
| supervisor `engine/cmd/engine/main.go` | errgroup context | one goroutine per job | the first error cancels all; every job must notice |
| symbol mapping `engine/market/mapping` | `coin_exchange_mappings` | `SyncExchange` = build + validate; `GetPrimaryMapping` | row by row without a transaction; any step may be the last |
| OHLCV sync `engine/market/ohlcv` | table `ohlcv`, a capped Valkey list per symbol | `IncrementalSync` | a candle changes while it forms; a sync may end between table and list |
| coverage, spread, CoinGecko | rows of their tables | fetch or compute, then upsert | partial failure only |
| news fetch and analysis `engine/news`, `news/ai` | `news_articles` with metadata and entities; the sources' marks | one job pulls the feeds, one analyses what is not processed | edits in between; two unique keys and one ON CONFLICT; any statement the last |
| news archive `news/archive` | the drive, export rows | upload, then a row | two stores; articles that always fail |
| news impact `news/impact` | impact rows, their history | candidates, pending rows, snapshots | articles dated anew while a row waits; a job that lists by query what it has left half done |
| DeFi `engine/defi` | rows of its tables | fetch, upsert | partial failure only |
| storage, bridges `engine/storage`, `storage_ext` | `schema_migrations`; Telegram table and its mirror | `ApplyDir`; `Get`, `Put`, `Touch` | two stores for one fact |
| accounts `api/auth/service.go`, `web3.go` | users, identities, sessions, refresh tokens, nonces | `RequestWeb3Nonce`, `VerifyWeb3Signature`, `CompleteDiscord`, `Refresh`, `Logout`, `Me` | read-then-write across transactions; reuse; errors that are dropped |
| entitlements `api/auth/subscription.go`, `middleware` | plan cache, `users.plan_override`, the chains' subscriptions | `RequirePlan`, `Entitlement`, `ResolveEntitlement` | two readings of one user, several chains any of which may fail, a cache that keeps what it was told |
| read services `api/market`, ... | none | queries | none |
| workers `cloudflare/` | none | proxies | fallback order |
| contract `contracts/` | expiry per wallet | set, revoke | none |
| quant `quant/` | signal rows | floating-point scores | numeric, not temporal |

How they interact. The stream and the poll jobs resolve symbols through the rows
the mapping sync writes, write the price cache, and hand tickers to **one**
aggregator; the arbitrage scanner and the spread recorder read its snapshots.
The OHLCV sync resolves its symbols through the same rows. Every job runs under
the supervisor's context and ends it when it fails. The gateway shares nothing
with the engine but the Redis server. The API reads what the engine wrote.

What makes each of them correct, in words; the definitions are in the modules:

* **breaker**: closed exactly while its failures are below the threshold; the
  count bounded however late failures come in; an open breaker opens up again;
  inside a back-off window calls begin only after a success.
* **requests**: every one answered, by a provider that serves the path with a
  status worth passing on, by a cached answer of that kind no older than the
  route allows, or by an error of the gateway's own.
* **agent router**: calls on one resource overlap only after one outlasted its
  key; keys do not stay; every `Ask` returns.
* **tickers**: the aggregator has the youngest ticker it was given; best prices
  and opportunities are right in any map order.
* **arbitrage**: no second alert within a cooldown unless Redis or Postgres
  failed; no silence without an alert; scans end.
* **supervisor**: a connection is never leaked; no job is missing while the
  engine runs; the engine stops when told.
* **mapping**: after a sync the rows say what the exchange said, one primary
  each, best quote first.
* **OHLCV**: no holes, only the newest candle unsettled, whatever was cut short.
* **routes**: each provider of a chain is asked what the client asked, under
  whichever name, but for the names that only one of them reads; a route is sent
  to somebody who knows it, but for those nobody does; its aliases are it.
* **accounts**: what is spent, revoked or over buys nothing; a session has one
  live token, and one more only per overlapping rotation; reuse revokes; racing
  first sign-ins leave one user.
* **entitlements**: premium was had while it was resolved; free has a cause; no
  answer is older than the cache time.
* **news**: articles arrive, and are analysed as a whole; an export names a file
  that is there, for good; snapshots are of the dates their row claims; whatever
  keeps failing does not hold up the others.

## 2. Modules

```
GatewayPromise            what a client of the gateway may see
      ^ implemented by (INSTANCE ... WITH, PROPERTY KeepsPromise)
IragGateway  --EXTENDS--> IragCircuit         request path over the breaker
      ^ EXTENDS
IragBreakerAudit          the same system with a memory, for the back-off
IragRoutes --> IragRouteBook --> IragDownload --> IragUpstreamTools
   --> IragUpstreamMedia --> IragUpstreams --> IragRouteSpecs --> RouteText
                          (EXTENDS: requests, then the tables they go through)
AgentRouter               Ask over its Redis lock
TickerFeed --EXTENDS--> TickerAggregator      feeds, price cache and aggregator
ArbitrageScan             the scanner between Redis and Postgres
EngineJobs                supervisor, periodic jobs, stream and connection
SymbolMapping             mapping sync of one exchange and the primary lookup
CandleSeries              what the readers of a candle table may rely on
      ^ implemented by (PROPERTY KeepsSeries)
OhlcvSync                 one series: exchange, table and Valkey list
SessionBook               who is whom, and which sessions are open
      ^ implemented by (KeepsBook, proved)
AuthSessions              sign-in, refresh tokens, sessions
Entitlements              a user's plan: cache, override, chains
Api --EXTENDS--> AuthSessions, Entitlements      the API server
NewsPipeline              feeds into articles into analyses
NewsArchive               articles onto the drive
NewsImpact                articles against prices
X_proofs                  theorems about X and their proofs
MCX                       instances for TLC; MCX.cfg and its variants the runs
```

Three instances are sums: `MCIragGateway` (gateway or routes), `MCEngineJobs`
(supervisor or one of the three news systems) and `MCApi` (sessions or plans)
start in a state of one of their systems, the variables of the others at rest,
and no step moves two. The systems share no state, so that nothing is lost, and a
property of one holds trivially where another moves. A behaviour of
`MCTickerFeed` is one of the feeds or, where `alone` holds, of their aggregator
handed any tickers by whoever has them.

Each module begins with what it abstracts. Operators a module names as *slips*
are deliberate mistakes (a dropped guard, a missing reset) that no action uses:
each property has been seen to fail with one of them in place of the definition
it alters.

**IragCircuit** (`irag/circuit.go`). `failures[p]`, and `openFor[p]`, the time
left until `openUntil` (`NotOpen` for its zero value). `Allow`, `Deny`,
`Success`, `Failure` are the methods, each under the mutex and so one step. An
expired window is cleared by `Allow` alone, so 0 (expired) differs from
`NotOpen`.

**IragGateway** (`irag/service.go`, `cache.go`). A request goes `idle` → `lookup`
→ `select` → `calling` → ... → `answered`. `Arrive` finds the route (`NotFound`
without one), `CacheHit`/`CacheMiss` is the lookup, `SkipOpen`, `Call`, `GiveUp`
are the head of the fallback loop, `ReplyUsable`, `ReplyRetryable`, `CallFails`,
`CallTimesOut`, `CallCancelled`, `CallUnavailable` the ends of an attempt, each
with what it tells the breaker. `Deliver` stores and writes. `HangUp` ends the
request's context; `Restart` is the end of the process, which the cache
survives. Status classes are kept as far as `shouldRetryStatus` tells them
apart; bodies are not.

**RouteText, IragRouteSpecs, IragUpstreams, IragUpstreamMedia,
IragUpstreamTools, IragDownload** (`irag/service.go`, `download.go`) are pure: a
switch of the code is a sequence of rules of which the first that matches gives
the outcome, a query a function from parameters to what they are worth.
`routeSpecForPath` gives the chain of a path, `upstreamPathAndQuery` what one
provider is asked. **IragRouteBook** is the requests: every route that is served
and that the switches, the tests or the documents name, one path for each
placeholder, and for what it needs every name that the case of any provider reads
it from. Options that go by one name wherever they are read (`page`, `limit`,
`model`, `lang` and the like) are left out; whether each provider passes them on
is not looked at. **IragRoutes** sends one of these requests, with one of the
names, down its chain while every provider fails.
`lastSent` is what the last one was asked, `own` telling its own path from the
gateway's passed on; `knew` remembers whether any had a path for it.

**GatewayPromise**: questions and answers without breaker, clock or position.
`IragGateway` implements it with `stageBar`, `shelfBar`, `key` and `answer`.

**IragBreakerAudit** adds history: the window since a failure last opened a
breaker, whether a success came in during it, failures a provider itself caused.

**AgentRouter** (`engine/agent/router.go`). `lock[x]` is the key's time to live.
`LockUnanswered` is a SETNX whose answer is lost (the key may be set),
`ProviderRetryable` goes on to the next provider, `ProviderDecides` ends the
loop, `Release` may fail, `Crash` leaves keys behind.

**TickerAggregator** (`aggregator.go`, `detectOpportunity`). `Walk` is the loop
over the exchanges in a given order, a recursive function of how far it got, and
`Snapshot` its end; `MapOrders` is all orders the map may give.

**TickerFeed** (`ingest.go`, `publisher.go`, `runtime.go`). A feed goes through
`symbol` (first SET), `coin` (second SET) for each ticker of its batch and
`aggregate`. `Fail` is any failing write: a stream drops the ticker, a poll ends
its target. Times are the exchange's: a batch may be late.

**ArbitrageScan** (`arbitrage/engine.go`). Phases `config`, `check`, `insert`,
`mark` are the calls of `Scan` for one coin; each may fail, and an `INSERT` or
`SET` that fails may have been done. `Reconfigure` changes a row at any time,
`Restart` begins again.

**EngineJobs** (`main.go`, `runtime.go`, `ws/binance.go`). A periodic job runs,
waits and, when its timer and its context are both ready, chooses as Go's
`select` does. The stream is followed from `top` to `retry` over the client's
connection, session age and inbox. The context is looked at only where the code
looks at it.

**SymbolMapping** (`mapping/`, `mapping_sync.go`). `Begin` loads markets and
coins, `Upsert` writes one candidate row, in any order (Go's map), `ListRows`
and `Check` are the validator, `Fail` ends the sync anywhere, as an error and a
crash do. `older` orders rows by `verified_at`, `updated_at`. A market is
`trading`, `halted` (`isSpotMarket`, not `isMarketActive`) or `absent`; coins
that share a ticker symbol are chosen from freely, since `ListCoins` has no
ORDER BY and the builder keeps the first it sees.

**OhlcvSync** (`ohlcv/`, `publisher.go`, `ccxt.go`). Time is counted in candles;
candle `t` forms while `now = t`. `Begin` reads the newest stored candle and
resolves the symbol, `Poll` takes a page, `Store` is the batch (one implicit
transaction), `Push` is LPUSH, LTRIM, PUBLISH of one candle, `PushUntrimmed`
its failing in the middle, `Abandon` an error or crash anywhere else.

**CandleSeries**: the candles held and those that are settled, without exchange,
limits, list or failures; a step brings a row of candles at the newer end, from
the newest held one on. `OhlcvSync` implements it with `Held` and `Settled`.

**AuthSessions** (`api/auth/service.go`, `web3.go`). A request is a slot `req[r]`
that reads one row per step and writes in transactions. `Refresh` is
`ReadToken`, `ReadSession`, `Rotate`: the transaction consumes, touches and
inserts whether or not its UPDATE changed a row. A consumed token revokes its
session in a statement whose error is dropped; `Logout` returns it. The wallet's
sign-in is one transaction that holds the nonce's row, Discord's are two. An
identity is unique: the second of two racing transactions fails and leaves
nothing. Ghosts: `late` (a request begun after what it relies on was over),
`lost` (a revocation that failed), `forks` of a session (rotations of a token
already consumed).

**SessionBook**: the user of each identity, and of each session its user, whether
it is open and how many tokens can continue it, without requests, statements,
nonces or clock. Users are enrolled for good, sessions are opened for who is
enrolled and never reopened, and a fork leaves one token more. `AuthSessions`
implements it with `owner`, `Holders`, `OpenSessions` and `LiveCounts`.

**Entitlements** (`api/auth/subscription.go`, `middleware/auth.go`,
`SubscriptionManager.sol`). A gated request resolves the plan twice, in `Me` and
in `Entitlement`, each time user, cache, override, then wallet by wallet and
chain by chain; a chain may fail, and the rest are asked. Meanwhile
subscriptions begin, end and are revoked and the override changes. Ghosts:
`steady` (what has been in force throughout, forgotten once a call failed),
`paid` and `since`; an answer carries `earned`, `cause` and `fresh`.

**Api** puts the two together: their handlers interleave and share no variable.

**NewsPipeline** (`engine/news`, `news/ai`). `Publish` moves a source to its next
edition; the puller takes sources in order and inserts item by item, upserting
on the source's id and refused where the address belongs to another row; the
analyst reads a page of unprocessed articles and writes metadata, entities and
the mark of each. Every statement may fail, be done without an answer, or be the
last before a restart.

**NewsArchive** and **NewsImpact** follow `RunOnce` of their services: the
listing query with its LIMIT and order, then row by row, any statement failing
in the same three ways, while articles are written, edited, analysed and dated
anew. In all three a page is a set, cut by its LIMIT at every place its ORDER BY
allows, and the row at hand leaves it. An article of the archive is its title and whether it was analysed; a price
is the time it was asked for. Ghost: `unrecorded`, the rows a failure separated
from their history.

## 3. Runs and their bounds

All runs are exhaustive over their instance. `*` marks a run that is expected to
violate its one property (section 6).

| run | instance | properties | why the instance is enough |
|---|---|---|---|
| gateway | 2 symmetric requests; a cached and a strict uncached route over two providers, one of them not configured, in either order, and a path without a route; statuses 200, 400, 503; threshold 2, cooldown 2 ticks. Or one request of `RouteBook` or `BareRoutes`: 1165 over 327 paths and 89 names, of which 90 give nothing but a path | `BreakerConsistent` `CacheSound` `KeepsPromise` `QuestionCarried` `RoutesKnown` | two requests give every race of a result with a check and of two misses; the three statuses are the three classes `shouldRetryStatus` tells apart; `RouteBook` has every name the builders read but the options of a single name; the requests for which a property does not hold are not left out but named (`LostNames`, `NobodysRoutes`), and as both properties are equivalences TLC finds each of them |
| breaker | 2 requests, one route over a provider that is not configured and one that is; deadline 1, threshold 2, cooldown 2 | `FailuresBounded` `BackoffUnlessPardoned` `NothingWaits` | one call can be late while the other opens the breaker; no symmetry, as liveness is checked |
| opened_by_provider* | 2 requests of one provider | `OpenedByProvider` | |
| agent_router | 3 callers of one resource, 2 providers, key of 2 ticks | `OverlapNeedsOverrun` `CallersGetThrough` | the third caller is the one a late delete lets in |
| ticker_feed | stream and poll of one exchange, two pairs of one coin, batches of 1 or 2, clock to 1. Or 1 coin on 3 exchanges, quotes that tie, are missing, cross those of another exchange or their own, clock to 3 | `LatestIsYoungest` `PricesRight` `BatchesFinish` | a batch of 2 has a ticker before and after a failing one; two times tell young from old; three exchanges are the least in which fold order can matter beyond a swap |
| arbitrage | 2 coins, 1 pair, cooldowns 0 to 2 | `RealertNeedsTrouble` `QuietOnlyAfterAlert` `ScansFinish` | the second coin lets time pass inside a scan; 0 is the cooldown that is off |
| engine | 2 periodic jobs and the stream, session limit 2. Or 2 sources with an undated, an edited and a same-address item, runs of 2 articles, 1 fault. Or 3 articles, 1 that never uploads, runs of 2, 1 fault. Or 2 articles, 2 coins, 1 without candles, one article dated anew, runs of 2, 6 ticks, 2 faults | `ConnectionTracked` `NoJobMissing` `EngineEnds` `AnalysisSound` `NewsFlows` `ExportsSound` `OthersExported` `PricesAligned` `HistoryBacked` `RowsComplete` | a job that fails and one that must notice; each way an item can get in another's way; a run's limit is one more than what never succeeds; two faults keep a row without a price over two runs |
| engine_silent* | jobs and stream, Binance may fall silent | `SessionsEnd` | |
| mapping | 3 quotes of one base asset that two coins share | `SyncedIsTrue` `PrimaryRight` | the least in which a worse, a better and a best quote compete and coins change hands |
| mapping_preferred* | the same | `PreferredQuote` | |
| ohlcv | 2 pairs, 4 candles, pages of 2, list cap 2, untrimmed list up to 3 | `SettledBehindNewest` `NoHoles` `BufferNewestFirst` `BufferBackedByStore` `KeepsSeries` | an outage may outlast a page, and a list its cap |
| api | 2 symmetric requests, 1 wallet, 1 Discord profile, 3 tokens, 1 nonce, lifetimes of 1 and 0 ticks, clock to 2. Or 2 that ask for a plan, 1 of them gated, 1 wallet on 2 chains, override off or premium, cache of 1 tick, subscriptions that last until revoked | `PartsTypeOK` `EndsAreFinal` `LiveTokensCounted` `ReuseRevokes` `AccountsBacked` `PlanJustified` `AnswersFresh` | two requests race every read with every write; the third token is the one a second rotation adds; two chains make one that fails before one that answers; an end in time is, to the resolver, a revocation |

The type invariants of the modules with proofs are theorems (section 5) and not
run again, but for `PartsTypeOK`, in which `Api` joins those of its two parts.
Several
properties are conjunctions of two that are stated and commented by themselves:
`NothingWaits` (`EveryRequestAnswered`, `CooldownEnds`), `RoutesKnown`
(`KnownToSomeone`, `AliasesAlike`), `CallersGetThrough` (`KeysGoAway`,
`EveryAskReturns`), `PricesRight` (`BestQuotesRight`, `OpportunitiesReal`), `EngineEnds` (`StopsWhenTold`, `SessionsEnd`), `AnalysisSound`
(`OneAnalysis`, `SuccessIsWhole`), `NewsFlows` (`FeedsArrive`,
`ArticlesAnalysed`),
`PricesAligned` (`SnapshotsAligned`, `BaseNotEarly`), `HistoryBacked`
(`ImpactBacked`, `CompletedRecorded`), `PrimaryRight` (`OnePrimaryEach`,
`BestUnlessHalted`), `EndsAreFinal` (`LateComersRefused`, `LifetimeKept`),
`PlanJustified` (`PremiumEarned`, `FreeForACause`).

What the passing runs show:

* **gateway, breaker.** The two fields of the breaker never disagree; late
  failures carry the count past the threshold by no more than the other calls in
  flight; a call inside a back-off window follows a success inside that window;
  an opened breaker always lets calls through again; each request is answered as
  `GatewayPromise` allows, and answered at last, whatever the providers do; the
  cache never serves what the gateway itself counts as a failure.
* **agent_router.** As long as no call outlasts its key, the key does its work
  through lost replies, failed deletes and crashes.
* **ticker_feed.** Map order and lateness never change what best
  prices are; a bad ticker ends neither its batch nor its feed, unless the feed
  is one that gives up.
* **arbitrage.** Whoever is alerted on twice within a cooldown can blame an
  unanswered check or a key that was not written; no key exists for an alert that
  was never made.
* **engine.** The read loop's paths out (cut, garbage, expired session, signal)
  all close the connection; one failing job brings the whole engine down, and
  all of it.
* **mapping.** Whatever earlier syncs left half written, a complete one repairs.
* **routes.** Every route but the few listed in `NobodysRoutes` meets a provider
  that knows it. What a client gave under one name reaches a provider under every
  name it would have had for the usual one, but for the routes, names and
  providers of `LostNames`, with which it does not (section 6). An alias asks what
  its route asks.
* **api.** Two refreshes that overlap may both rotate one token, and a session
  then has as many live tokens more; nothing else multiplies them, and nobody who
  comes after a token, nonce or session is over gets anything for it. A gated
  answer is always backed by a subscription or an override at some time while it
  was resolved; a refusal by a failed call or a plan that was not there throughout.
* **news.** An edit between metadata and entities, a failure anywhere, never
  leaves two analyses mixed in a processed article; refused items stand in the
  way of what is behind them in their own source only; an upload that is repeated
  never becomes the export of another text; a row is completed in the end though
  others never are, as long as those are fewer than a run takes.
* **ohlcv.** Cut-short syncs never leave a gap or an unsettled candle behind the
  newest; the list may miss candles, but never claims what the table has not. A
  table grows at its newer end alone, a page at once, and settles what it has.

## 4. Fairness

Safety is checked without fairness. Liveness assumes what schedules the code:

* goroutines that can run do (`WF` on each request, caller, feed, scan, job and
  on the stream) — the Go scheduler;
* the clock goes on (`WF` on `Tick` in the gateway and the router), since
  deadlines, expiry and cooldowns are timers;
* each provider call of the agent router ends, since `newJSONClient` sets a
  timeout, and each attempt of the gateway at its deadline; no *answer* is
  assumed of any provider, client or exchange;
* a periodic job's `select` does not take a due timer for ever while its context
  is done (`SF` on `Leave`): Go chooses among ready cases at random;
* the news jobs go on at the ticks of their timers (`WF` on `PullStep`,
  `AnalystStep`, `ArchiveStep`, `TrackerStep`) and the clock goes on
  (`ClockTick`). What they make is never taken back, so "in the end" is stated as
  `[]<>`;
* in `engine` alone, Binance sends something from time to time (`TalkingSpec`).
  `StopsWhenTold` rests on it: a read that waits does not see the context.
  `engine_silent` drops it.

Hanging up, failing, restarts, reconfiguration, publications, edits and signals
are never fair: they may happen or not. The faults of the news systems are
bounded by constants: what fails for ever is a member of `Broken` or `Priceless`.

## 5. Proofs

Eight modules of theorems, checked by `tlapm` with Z3, Zenon and LS4. They hold
for all constants that satisfy the assumptions named in the modules: positive
thresholds, timeouts, expiries, sizes and limits; at least one wallet and one
chain; finitely many API requests, identities and exchanges, whose quotes are
integers of any sign; finitely many articles and coins for the price impact, which
only the rank of its runs needs; a spread threshold that is not negative (only the default of
0.30 % is ever written); batches of at least one ticker, for nothing calls the
sinks without one; sources with at least one edition; ids of articles and coins
that are numbers, as the database gives them; and that maps have their types.

| module | theorems | inductive invariant, and why it is needed |
|---|---|---|
| `IragGateway_proofs` | `TypeCorrect`, `BreakerAlwaysConsistent`, `CacheAlwaysSound`, `FailuresAlwaysBounded`, `GatewayKeepsPromise`, `BackoffHoldsUnlessPardoned`, `RequestsAlwaysWearDown`, `CooldownsAlwaysWearDown` | `Inv` adds `RequestsInPlace`: a request that calls or delivers is within its chain and has a status it may pass on, without which the entry it stores need not be sound. The bound counts the calls in flight together with the failures: a call that ends moves from one to the other. For the promise, initial states map to initial states and each action to a step or a stutter; `Routed`: a pending request has a chain, so that `NotFound` is given on arrival only. For the back-off, over the audited system, `WindowCovered`: without a pardon the breaker stays open at least as long as the window; the action property follows as `Allow` needs a closed breaker. A request's rank is what its chain has left, two steps a provider, and `InRoom` keeps its place within the chain; an open breaker begins no calls, so that only those under way can put its end off, each once |
| `AgentRouter_proofs` | `TypeCorrect`, `OverlapAlwaysNeedsOverrun`, `AsksAndKeysWearDown` | `Covering`: while no call on a resource has overrun, its worker is alone and the key has exactly the time left that the worker has. An Ask ranks by the providers it has left |
| `TickerFeed_proofs` | `TypeCorrect`, `LatestAlwaysYoungest`, `PricesAlwaysRight`, `OrderNeverMatters`, `BatchesWearDown` | `WorkAtHand`: a feed at work has a ticker in hand; a batch only makes the aggregator younger (`AggregateIsMonotone`). Prices need no more than types: `Found` is the invariant of the loop, that the best so far is that of the fresh exchanges seen so far, by the least place where it would fail (`LeastNatural`), and in the same way the recursive `Walk` exists (`WalkExists`). The best two prices then have the widest gap (`SpreadWidens`), and one exchange cannot be both unless its own quotes cross. A batch ranks by its tickers left and the place in the one at hand |
| `ArbitrageScan_proofs` | `TypeCorrect`, `RealertAlwaysNeedsTrouble`, `QuietAlwaysAfterAlert`, `ScansWearDown` | `Covered`: every alert whose key was written is still covered by it, or is the one about to be written, with a cooldown as long as what is owed; `CheckHolds`: an answered check stays true until the alert. A scan ranks by four calls a coin it has left, and what is left of the one at hand |
| `EngineJobs_proofs` | `TypeCorrect`, `ConnectionAlwaysTracked`, `NoJobEverMissing`, `ExitAlwaysClean`; `NewsTypeCorrect`, `AnalysisAlwaysSound`, `AnalysisIsFinal`; `ArchiveTypeCorrect`, `ExportsAlwaysSound`, `RunsReachOthers`; `ImpactTypeCorrect`, `PricesAlwaysAligned`, `HistoryAlwaysBacked`, `PricesAreFinal`, `RunsReachPriced` | Supervisor: `CanceledIsStopping`, a read loop left because the context was done leaves it done; what `group.Wait` returns on is then final. News: `BatchOpen`, `ThisOpen`, nothing the analyst still has to do has been marked meanwhile, as it alone marks; `DoneAnalysed`, what it has yet to mark has metadata and entities of one reading, which an edit does not touch. Archive: `ListingOpen`, `CurrentOpen`, what is left of a listing is still not exported, and a file waiting for its row is on the drive; `ExportedOnDrive`, with that no upload writes over an export. Impact: `CandidatesOpen`, `BaseFirst`, `RowsCurrent`, what the tracker still has to do is as it read it, since it alone writes those rows; `ThisCurrent`, the row at hand differs from the table in windows whose history failed, and those are in `unrecorded`. The two `...Final` theorems are of steps: what an earlier article is read or priced for is never replaced. `AnalysisIsFinal` is what `NewsImpact` takes of the analyst, that an article's analysis is replaced only until it is processed; `PricedOnly`, a priced row has a coin with prices, is the invariant the other needs. The two `RunsReach...` are of runs: a rank falls at each step (three steps an article; six a row, one a candidate, which may add a row), and a page has a row that can be done. Of those that can, the least ahead in the order has only ones that cannot ahead of it (`FirstPageReaches`), and they are fewer than a page. `ListingFinite` and `TrackFinite`, what is listed is finite, make the ranks numbers; for the tracker, `Incomplete` is finite because the pairs are |
| `OhlcvSync_proofs` | `TypeCorrect`, `AlwaysSettledBehindNewest`, `NeverHoles`, `BufferAlwaysBacked`, `BufferAlwaysNewestFirst`, `SyncKeepsSeries` | `SyncInPlace`: the newest stored candle cannot change between the reading of it and the upsert, the page begins there and ends no later than now; `FinalInPast`: no list claims final values for a candle a waiting page saw forming; `ListsBehindPage`: nothing in a list is newer than the candle to be pushed next, as the page begins at the newest stored one and the table backs the lists. For `CandleSeries` each action is a step or a stutter; only `Store` is more than a stutter |
| `SymbolMapping_proofs` | `TypeCorrect`, `SyncedAlwaysTrue`, `PrimaryAlwaysRight` | `ChosenWell`, `BuiltSoFar`, `CheckedSoFar`: what was chosen stays the choice of markets and coins, the candidates behind the loop have the row it made of them, the rows behind the validator are live as their markets are. `PrimaryAlwaysRight` assumes that two pairs some coin is named after alike have one base asset (a coin has one ticker symbol) |
| `Api_proofs` | `TypeCorrect`, `EndsAlwaysFinal`, `LiveTokensAlwaysCounted`, `ReuseAlwaysRevokes`, `AccountsAlwaysBacked`; `PlanTypeCorrect`, `PlanAlwaysJustified`, `AnswersAlwaysFresh`; `RowsOnlyGoOn`; `SignInKeepsBook`; `PartsTypeCorrect` | Sessions: per request, at each statement: `InPlace`, the rows it has in hand are there; `NotLate`, one that came late has what it presents still spent, as rows only go on (`Onward`), until the statement that refuses it; `InTime` and `Caught` for what was answered. `RotationCounted`: a rotation removes its token from the live ones unless another did, and adds one. Plans: `Backed`, while a plan is resolved what is in `steady` is still in force and is of no chain asked already, and whatever is in force is in `paid`; `CacheTrue`, the age an entry is believed to have is its true one. An answer from the cache was justified when it was stored. For the book, `LiveByForks`, the count of live tokens is one more than the forks, tells a rotation that stutters from one that forks. The two together: every behaviour of `Api` is one of each part (`ServerIsBoth`) |

Only model-checked: liveness (`NothingWaits`, `CallersGetThrough`,
`BatchesFinish`, `ScansFinish`, `EngineEnds`, `NewsFlows`, `OthersExported`,
`RowsComplete`), which needs ENABLED and is beyond the prover. Half of the
argument is proved for the gateway, the router, the feeds, the scanner
(`...WearDown`), the archive and the tracker (`RunsReach...`): a rank that is a
natural number falls at every step of who is waited for and is raised by nobody
else, for any number of them and however deadlines, failures and restarts come
in. For the archive and the tracker it is also proved that each run comes to an
article or a pair that can be done, however many are in its way short of a page. That the next step is enabled and, by
fairness, taken is the other half, and TLC's. Also only model-checked are the routes
(`QuestionCarried`, `RoutesKnown`). Their tables are concrete strings that
prefixes are cut from, to the provers uninterpreted values, and they have no
constants: the run goes through every request of `RouteBook` and every provider
of its chain, and a theorem would say no more. Where a proof goes over a length it takes the least
number that fails (`WFMin`, with the library's `NatLessThanWellFounded`) instead
of the library's induction theorems, whose operator parameter the provers cannot
instantiate.

`KeepsBook` is proved and in no run: with it the `api` run explores the same
states in twice the time. Theorems that no run checks were seen to hold on the
runs' instances before they were proved.

## 6. Where code and documents part

Three divergences have a run that shows them.

* **A silent connection outlives its session** (`engine_silent`). PRD.md:219 asks
  for a 23-hour context "to force a clean reconnect"; `ReadMessage` looks at it
  before a read without a deadline.
* **Clients open a provider's breaker** (`opened_by_provider`).
  docs/irag-wrapper-prd.docx.md:722 opens it after failures of the provider;
  `proxyWithFallback` counts the cancellation of a client as one.
* **A halted market is the preferred one** (`mapping_preferred`).
  migrations/005_coin_exchange_mappings.sql:48 gives the order of quotes;
  the builder prefers a halted market, the validator delists it, and the coin is
  left to the order in which rows were written.

Others were met on the way and have no run:

* docs/irag-gateway.md:12 promises one envelope; a cached answer is written
  without it (`writeCached`, irag/service.go:1243).
* docs/irag-wrapper-prd.docx.md:723 wants a back-off of 60 s; a late success ends
  it (irag/circuit.go:49). `BackoffUnlessPardoned` states what holds instead.
* migrations/038_irag_request_log.sql:13 has a state `circuit_open`; it is never
  logged.
* PRD.md:276 wants duplicate LLM requests locked out; a call over several
  providers may outlast its key. `OverlapNeedsOverrun` states what holds.
* docs/dwizzyOS_market_unified.md:199 calls the price cache the latest; the SETs
  do not compare times (engine/market/publisher.go:52).
* migrations/013_arbitrage_config.sql:17 promises no second alert within a
  cooldown; `RealertNeedsTrouble` states when there is one. The migration names
  the column `cooldown_seconds`, the code `alert_cooldown_sec`, and no migration
  has the `gross_spread_pct` that `SignalStore.Insert` writes.
* migrations/010_ohlcv_hypertable.sql:20 says an unclosed candle is the forming
  one; a candle that ends between poll and upsert is marked closed with the
  values of the poll, until the next sync (engine/market/ohlcv/service.go:169).
  `SettledBehindNewest` states what holds of all the others.
* PRD.md:236 wants 200 candles in Valkey; the list has the last 200 pushes, and
  the newest candle is pushed by every sync.
* docs/irag-wrapper-gap-checklist.md:62 marks `/v1/ai/pollinations` as done; the
  gateway does not serve it. `/v1/media` is served, but the case for it is
  unreachable (`HasPrefix "/v1/media/"`).
* `/v1/news/cnn` and `/v1/lk21` are documented as nexure's; Kanata is asked first,
  with a path it has no case for. Chains of anime and tools include Ryzumi without
  a case. `tinyurl`, `shortlink/bypass`, `satudata`, `tv`, `tempmail` of the tools
  `khutbah` and `sholat` of islamic, `info` and `character` of weebs are known to
  no provider (`NobodysRoutes`); docs/irag-wrapper-gap-checklist.md:201 has a
  translation of `khutbah/detail` for Kanata that `upstreamPathAndQuery` has not.
* In `routeSpecForPath` the prefix of the tools takes what the later cases of
  `/v1/tools/cctv` and `/v1/tools/upscale` were written for, and in `toolsChain`
  "/qr" what "/qris-converter" was. groq and mistral are asked differently as text
  and directly.
* docs/irag-wrapper-gap-checklist.md:15-17 puts ytdlp first for powerbrain, felo
  and deepai-chat; `aiTextChain` (irag/service.go:1491) has no ytdlp for them and
  begins with nexure, which asks its `gpt`.
* docs/irag-gateway.md:70 says the long tail of searches keeps "canonical query
  aliases preserved". Some names are read by the case of one provider and lost on
  another (`LostNames`, irag/service.go). `city` of weather (550) and `kota`,
  `city` of jadwal-sholat (488), `title` of pixiv, wallpaper, anime, manga, film,
  drama and bstation, `name` of mahasiswa and pddikti, `image_url` and `imgUrl` of
  lens (496) are read in Ryzumi's cases; Nexure's query (608, `buildSearchQuery`
  672), and Kanata's, then has neither `q` nor `query` (for lens, no `url`). `ask`
  and `text` of weather and jadwal-sholat are a question to Nexure and no city to
  Ryzumi. `itag` of `/v1/youtube/download`, which
  docs/irag-wrapper-gap-checklist.md:174 lists, is read for ytdlp alone, and
  Chocomilk, the first, is not told; nor is it of `lang`.
* `Refresh` does not look at the row count of the UPDATE that consumes
  (api/auth/service.go:372), which is where a second live token comes from.
  `Me` and `Entitlement` look at a session's status and expiry and not at its
  idle time; `verifyJWT` reads Exp only to see that it is there.
* `ResolveEntitlement` answers from the cache after a chain has failed, and caches
  what it found then, without the error (api/auth/subscription.go:228).
* migrations have `url_hash` unique; the upsert's ON CONFLICT names
  `(external_id, source)` only (engine/news/store.go:80).
* An article that is edited after it was processed stays processed. It may be
  exported before it is analysed, and the export is final. Undated items are
  dated anew at every fetch. Nothing sets `is_active` to FALSE.
* `price_at_publish` may be of a later date than the `published_at` of its row:
  LEAST keeps the date, COALESCE the price (engine/news/impact/store.go:79). A
  complete row whose history insert failed is never put right.
* The stream's symbols (`BTCUSDT`) never equal the ones the builder stores
  (`BTC/USDT`), so its tickers resolve only through rows of another origin.
* `ConfigStore.Upsert`, `AgentRouter`, `UnknownSymbolResolver`,
  `TelegramBridge`, `Migrator`, `BackfillOHLCV` and the coverage tiers have no
  caller outside tests.

## 7. Not modelled, and why

* Of the gateway: `handleToBase64`, `normalizePlate`, the body rewriting of
  upscale, `normalize.go`, headers: conversions of bodies no property is about.
* Coverage tiers, the scores of `news/ai/rules.go`, signal scores: pure functions,
  planned. `render.go` and the choice among exchanges in `impact/price.go` are
  abstracted to what they are made from.
* Telegram bridge (table and mirror): planned.
* CoinGecko, DeFi, spread recorder: loops of fetch and upsert without shared
  state; a model would restate them.
* Request log, read services, rclone bridges, connections: input and output.
* Workers: stateless proxies. Of the contract, `transferOwnership` and the
  owner's check; the rest is the environment of `Entitlements`.
* Quant: floating point.

Within modelled components: bodies, headers, wording and logs; pub/sub messages,
which nobody keeps; prices beyond a few ordered values. Exchanges stamp tickers
no later than now, so a clock that runs ahead is outside `TickerFeed`.

## 8. Plan

Done: breaker, request path and its promise, routing tables; agent router;
aggregator and feeds; arbitrage; supervisor; OHLCV sync; symbol mapping;
sessions; entitlements; and the news jobs. All their safety properties are proved,
but for those of the routes.

| next | module | abstract specification | theorems |
|---|---|---|---|
| 1 | `TelegramFiles`: table and mirror | one record per key | mirror holds what the table has held |
| 2 | pure algorithms: tiers, signals, against reference definitions | — | lemmas on the operators |
| 3 | `TickerFeed` composed with `ArbitrageScan` and `SymbolMapping` | the aggregator as the scanner's environment | alerts come from tickers the feeds brought |

Pairs are what these races need: two requests of one session, two uploads of one
key. Where a new run would repeat the question of an old one, the instances are
joined as in section 2.
