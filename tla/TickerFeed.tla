----------------------------- MODULE TickerFeed -----------------------------
(***************************************************************************)
(* Ticker ingestion of the engine: the Binance stream and the CCXT poll    *)
(* job (src/engine/market/ticker/runtime.go) feed the same Redis price     *)
(* cache (src/engine/market/publisher.go) and the same aggregator          *)
(* (TickerAggregator).                                                     *)
(*                                                                         *)
(* A feed takes a batch of tickers through IngestionService one after the  *)
(* other, each with two separate SETs, and only then hands those that came *)
(* through to the aggregator.  A ticker's time is its exchange's, so it    *)
(* may reach the engine late and after a younger one.                      *)
(*                                                                         *)
(* applied is history: the youngest ticker the aggregator was given.       *)
(* FailStaying is a slip the properties must notice; no action uses it.    *)
(***************************************************************************)
EXTENDS TickerAggregator

CONSTANTS
    Feeds,          \* the goroutines that ingest tickers
    BestEffort,     \* the streams: they skip a ticker they cannot ingest
    Symbols,
    CoinOf,         \* the coin a symbol is mapped to
    Source,         \* the exchanges of each feed
    PriceTTL,       \* priceTTL in ticks: 10 s
    Messages        \* bound: the batches of tickers the feeds receive

ASSUME CoinOfAssumption == CoinOf \in [Symbols -> Coins]
ASSUME SourceAssumption == Source \in [Feeds -> SUBSET Exchanges]
ASSUME PriceTTLAssumption == PriceTTL \in Nat \ {0}

Ticker == [symbol : Symbols, exchange : Exchanges, ts : Times, quote : Quotes]

ASSUME MessagesAssumption == Messages \subseteq Seq(Ticker) \ {<<>>}

VARIABLES
    phase,          \* what each feed does next
    todo,           \* the tickers of its batch it has not ingested yet
    resolved,       \* those it has yet to hand to the aggregator
    price,          \* the Redis cache: what each key holds, and for how long
    applied         \* the youngest time the aggregator was given, or Never

feedVars == <<phase, todo, resolved>>
vars == <<now, feedVars, price, latest, applied>>

Never == -1

Keys == (Symbols \cup Coins) \X Exchanges
NoPrice == [of |-> NoTicker, left |-> 0]

Slot(t) == <<CoinOf[t.symbol], t.exchange>>

Init ==
    /\ AggregatorInit
    /\ phase = [f \in Feeds |-> "idle"]
    /\ todo = [f \in Feeds |-> <<>>]
    /\ resolved = [f \in Feeds |-> <<>>]
    /\ price = [k \in Keys |-> NoPrice]
    /\ applied = [s \in Slots |-> Never]

(* A message of the stream, or the one ticker of a poll: what the exchange *)
(* saw some time ago.                                                      *)
Receive(f, batch) ==
    /\ phase[f] = "idle"
    /\ f \notin BestEffort => Len(batch) = 1
    /\ \A i \in DOMAIN batch : batch[i].exchange \in Source[f] /\ batch[i].ts <= now
    /\ phase' = [phase EXCEPT ![f] = "symbol"]
    /\ todo' = [todo EXCEPT ![f] = batch]
    /\ UNCHANGED <<now, resolved, price, latest, applied>>

(* Once the batch is used up its good tickers go to the aggregator.        *)
AfterTicker(f, rest, good) ==
    /\ todo' = [todo EXCEPT ![f] = rest]
    /\ resolved' = [resolved EXCEPT ![f] = good]
    /\ phase' = [phase EXCEPT ![f] = IF rest # <<>> THEN "symbol"
                                     ELSE IF good # <<>> THEN "aggregate" ELSE "idle"]

Cached(t) == [of |-> t, left |-> PriceTTL]

(* PublishTicker: SET price:symbol:exchange.                               *)
PublishSymbol(f) ==
    LET t == Head(todo[f])
    IN  /\ phase[f] = "symbol"
        /\ price' = [price EXCEPT ![<<t.symbol, t.exchange>>] = Cached(t)]
        /\ phase' = [phase EXCEPT ![f] = "coin"]
        /\ UNCHANGED <<now, todo, resolved, latest, applied>>

(* PublishResolvedTicker: SET price:coin:exchange.                         *)
PublishCoin(f) ==
    LET t == Head(todo[f])
    IN  /\ phase[f] = "coin"
        /\ price' = [price EXCEPT ![Slot(t)] = Cached(t)]
        /\ AfterTicker(f, Tail(todo[f]), Append(resolved[f], t))
        /\ UNCHANGED <<now, latest, applied>>

(* The symbol is not mapped, or a SET fails.  A poll job gives up for good *)
(* and takes the engine down with it; the stream goes on with the rest.    *)
FailStaying(f) ==
    /\ phase[f] \in {"symbol", "coin"}
    /\ f \in BestEffort
    /\ AfterTicker(f, todo[f], resolved[f])
    /\ UNCHANGED <<now, price, latest, applied>>

Fail(f) ==
    /\ phase[f] \in {"symbol", "coin"}
    /\ \/ /\ f \in BestEffort
          /\ AfterTicker(f, Tail(todo[f]), resolved[f])
       \/ /\ f \notin BestEffort
          /\ phase' = [phase EXCEPT ![f] = "down"]
          /\ todo' = [todo EXCEPT ![f] = <<>>]
          /\ resolved' = [resolved EXCEPT ![f] = <<>>]
    /\ UNCHANGED <<now, price, latest, applied>>

(* A target's symbol cannot be resolved or its ticker not be polled.       *)
PollFails(f) ==
    /\ phase[f] = "idle"
    /\ f \notin BestEffort
    /\ phase' = [phase EXCEPT ![f] = "down"]
    /\ UNCHANGED <<now, todo, resolved, price, latest, applied>>

(* The tickers that came through go to the aggregator one by one.          *)
Note(t) == applied' = [applied EXCEPT ![Slot(t)] = IF @ > t.ts THEN @ ELSE t.ts]

Aggregate(f) ==
    /\ phase[f] = "aggregate"
    /\ Update(Slot(Head(resolved[f])), Head(resolved[f]))
    /\ Note(Head(resolved[f]))
    /\ resolved' = [resolved EXCEPT ![f] = Tail(@)]
    /\ phase' = [phase EXCEPT ![f] = IF Tail(resolved[f]) = <<>> THEN "idle" ELSE @]
    /\ UNCHANGED <<now, todo, price>>

Faded(e) == IF e.left > 1 THEN [of |-> e.of, left |-> e.left - 1] ELSE NoPrice

Tick ==
    /\ PassTime
    /\ price' = [k \in Keys |-> Faded(price[k])]
    /\ UNCHANGED <<feedVars, applied>>

(* The engine stops and is started again: only Redis remembers.            *)
Restart ==
    /\ phase' = [f \in Feeds |-> "idle"]
    /\ todo' = [f \in Feeds |-> <<>>]
    /\ resolved' = [f \in Feeds |-> <<>>]
    /\ Reset
    /\ applied' = [s \in Slots |-> Never]
    /\ UNCHANGED price

Proceed(f) == PublishSymbol(f) \/ PublishCoin(f) \/ Fail(f) \/ Aggregate(f)

Next ==
    \/ \E f \in Feeds, batch \in Messages : Receive(f, batch)
    \/ \E f \in Feeds : Proceed(f) \/ PollFails(f)
    \/ Tick
    \/ Restart

Spec == Init /\ [][Next]_vars

(* The feeds' goroutines run; nothing is assumed of the exchanges.         *)
FairSpec == Spec /\ \A f \in Feeds : WF_vars(Proceed(f))

-----------------------------------------------------------------------------
TypeOK ==
    /\ now \in Times
    /\ phase \in [Feeds -> {"idle", "symbol", "coin", "aggregate", "down"}]
    /\ todo \in [Feeds -> Seq(Ticker)]
    /\ resolved \in [Feeds -> Seq(Ticker)]
    /\ price \in [Keys -> [of : Ticker \cup {NoTicker}, left : 0 .. PriceTTL]]
    /\ latest \in [Slots -> Ticker \cup {NoTicker}]
    /\ applied \in [Slots -> Never .. MaxClock]

(* A feed at work has something to work on.                                *)
WorkAtHand ==
    \A f \in Feeds :
        /\ phase[f] \in {"symbol", "coin"} => todo[f] # <<>>
        /\ phase[f] = "aggregate" => resolved[f] # <<>>

(***************************************************************************)
(* However the feeds interleave and however late their tickers are, the    *)
(* aggregator holds, of every coin and exchange, a ticker as young as any  *)
(* it was given, and one of that coin and exchange.                        *)
(***************************************************************************)
LatestIsYoungest ==
    \A s \in Slots :
        /\ latest[s].ts = applied[s]
        /\ latest[s] # NoTicker => Slot(latest[s]) = s

(***************************************************************************)
(* No ticker, however bad, keeps a feed from finishing its batch or, if it *)
(* is strict, from giving up.                                              *)
(***************************************************************************)
BatchesFinish == \A f \in Feeds : (phase[f] = "symbol") ~> (phase[f] \in {"idle", "down"})
=============================================================================
