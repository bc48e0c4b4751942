---------------------------- MODULE MCTickerFeed ----------------------------
(* The Binance stream and a poll job that both bring Binance tickers of a  *)
(* coin, under the symbols of two pairs of it.  Or an aggregator by itself *)
(* (alone) that is handed tickers of one pair from three exchanges, in     *)
(* whatever order: their quotes may be missing, tie or cross those of      *)
(* another exchange or their own.  A behaviour of the instance is one of   *)
(* either.                                                                 *)
EXTENDS TickerFeed, TLC

CONSTANTS stream, poll, binance, kraken, okx, btcusdt, btcusdc, bitcoin

Mapped == (btcusdt :> bitcoin @@ btcusdc :> bitcoin)
BothFromBinance == (stream :> {binance} @@ poll :> {binance})

Narrow == [bid |-> 1, ask |-> 2]
QuoteSet == {Narrow, [bid |-> 2, ask |-> 3], [bid |-> 0, ask |-> 2],
             [bid |-> 4, ask |-> 5], [bid |-> 3, ask |-> 0], [bid |-> 3, ask |-> 2]}

\* The clock goes less far while the feeds are at work.
FeedClock == 1
FeedTickers == [symbol : Symbols, exchange : {binance}, ts : 0 .. FeedClock, quote : {Narrow}]
OneOrTwo == {<<t>> : t \in FeedTickers} \cup (FeedTickers \X FeedTickers)

VARIABLE alone      \* whether it is the aggregator by itself

MCInit == Init /\ alone \in BOOLEAN

Hand(t) ==
    /\ t.ts <= now
    /\ Update(Slot(t), t) /\ Note(t)
    /\ UNCHANGED <<now, feedVars, price>>

MCNext ==
    /\ UNCHANGED alone
    /\ \/ ~alone /\ Next /\ now' <= FeedClock
       \/ alone /\ \/ \E t \in Ticker : t.symbol = btcusdt /\ Hand(t)
                   \/ Tick
                   \/ Restart

MCSpec == MCInit /\ [][MCNext]_<<vars, alone>> /\ \A f \in Feeds : WF_vars(Proceed(f))
=============================================================================
