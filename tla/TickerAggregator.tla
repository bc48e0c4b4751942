-------------------------- MODULE TickerAggregator --------------------------
(***************************************************************************)
(* The in-memory ticker aggregator (src/engine/market/ticker/aggregator.go)*)
(* and what the arbitrage engine reads out of it (detectOpportunity and    *)
(* findSides in src/engine/market/arbitrage/engine.go).                    *)
(*                                                                         *)
(* Every method holds the mutex, so each is one step.  A snapshot ranges   *)
(* over a Go map, in an order that differs from call to call: it is an     *)
(* operator of that order, and what must not depend on it is stated for    *)
(* every order.                                                            *)
(*                                                                         *)
(* UpdateAlways and SpreadEitherWay are slips the properties must notice;  *)
(* nothing else uses them.                                                 *)
(***************************************************************************)
EXTENDS Integers, FiniteSets, SequencesExt

CONSTANTS
    Exchanges, Coins,
    Quotes,         \* the [bid, ask] tickers carry, 0 for none
    Deep,           \* exchanges whose volume meets MinDepthUSD
    MinSpread,      \* MinSpreadPct of the coins' configuration, in percent
    MaxAge,         \* maxAge in ticks: 15 s
    MaxClock        \* bound: how far the clock goes

ASSUME ExchangesAssumption == IsFiniteSet(Exchanges)
ASSUME QuotesAssumption == Quotes \subseteq [bid : Int, ask : Int]
ASSUME MaxAgeAssumption == MaxAge \in Nat
ASSUME MaxClockAssumption == MaxClock \in Nat

(* Nothing in the engine writes another threshold than the default's 0.30. *)
ASSUME MinSpreadAssumption == MinSpread \in Nat

VARIABLES
    now,            \* the clock tickers are stamped with
    latest          \* Aggregator.latest

Slots == Coins \X Exchanges
Times == 0 .. MaxClock

NoTicker == [ts |-> -1]     \* nothing known: older than every ticker

(***************************************************************************)
(* Aggregator.Update: an older ticker is dropped, one of the same time     *)
(* replaces what is there.                                                 *)
(***************************************************************************)
UpdateAlways(s, t) == latest' = [latest EXCEPT ![s] = t]

Update(s, t) == latest' = [latest EXCEPT ![s] = IF latest[s].ts > t.ts THEN latest[s] ELSE t]

Empty == latest' = [s \in Slots |-> NoTicker]

-----------------------------------------------------------------------------
(***************************************************************************)
(* snapshotLocked                                                          *)
(***************************************************************************)
Known(c) == {e \in Exchanges : latest[<<c, e>>] # NoTicker}
IsStale(c, e) == MaxAge > 0 /\ latest[<<c, e>>].ts < now - MaxAge
Fresh(c) == {e \in Known(c) : ~IsStale(c, e)}
Bid(c, e) == latest[<<c, e>>].quote.bid
Ask(c, e) == latest[<<c, e>>].quote.ask

Nowhere == "nowhere"
NoBest == [bid |-> 0, bidAt |-> Nowhere, ask |-> 0, askAt |-> Nowhere]

WithBid(c, best, e) ==
    IF Bid(c, e) > best.bid THEN [best EXCEPT !.bid = Bid(c, e), !.bidAt = e] ELSE best
WithAsk(c, best, e) ==
    IF Ask(c, e) > 0 /\ (best.ask = 0 \/ Ask(c, e) < best.ask)
    THEN [best EXCEPT !.ask = Ask(c, e), !.askAt = e]
    ELSE best

Consider(c, best, e) ==
    IF IsStale(c, e) THEN best ELSE WithAsk(c, WithBid(c, best, e), e)

\* The best quotes after so many exchanges.
Walk(c, order) ==
    LET walk[i \in 0 .. Len(order)] ==
            IF i = 0 THEN NoBest ELSE Consider(c, walk[i - 1], order[i])
    IN  walk

Snapshot(c, order) == Walk(c, order)[Len(order)]

MapOrders(c) == SetToSeqs(Known(c))

(***************************************************************************)
(* detectOpportunity: the sides come from the two best exchanges alone.    *)
(***************************************************************************)
Spread(bid, ask) == 100 * (bid - ask) >= MinSpread * ask

SpreadEitherWay(best) ==
    /\ best.ask > 0 /\ best.bid > 0
    /\ best.bidAt # best.askAt
    /\ Spread(best.bid, best.ask) \/ Spread(best.ask, best.bid)
    /\ {best.bidAt, best.askAt} \subseteq Deep

Detected(best) ==
    /\ best.ask > 0 /\ best.bid > 0
    /\ best.bidAt # best.askAt
    /\ Spread(best.bid, best.ask)
    /\ {best.bidAt, best.askAt} \subseteq Deep

-----------------------------------------------------------------------------
(***************************************************************************)
(* What becomes of the aggregator otherwise: time passes, and a restarted  *)
(* engine makes an empty one.                                              *)
(***************************************************************************)
AggregatorInit ==
    /\ now = 0
    /\ latest = [s \in Slots |-> NoTicker]

PassTime ==
    /\ now < MaxClock
    /\ now' = now + 1
    /\ UNCHANGED latest

Reset == Empty /\ UNCHANGED now

-----------------------------------------------------------------------------
(***************************************************************************)
(* Whatever order the map is walked in, the best bid and ask are those of  *)
(* the fresh tickers that have one, and are credited to an exchange that   *)
(* quotes them.                                                            *)
(***************************************************************************)
BestQuotesRight ==
    \A c \in Coins : \A order \in MapOrders(c) :
        LET best == Snapshot(c, order)
            asking == {e \in Fresh(c) : Ask(c, e) > 0}
        IN  /\ \A e \in Fresh(c) : Bid(c, e) <= best.bid
            /\ best.bid > 0 => best.bidAt \in Fresh(c) /\ Bid(c, best.bidAt) = best.bid
            /\ \A e \in asking : best.ask > 0 /\ best.ask <= Ask(c, e)
            /\ best.ask > 0 => best.askAt \in asking /\ Ask(c, best.askAt) = best.ask

(***************************************************************************)
(* An opportunity is one to buy and sell at two different exchanges, at    *)
(* prices neither of which is stale; and where the best two exchanges are  *)
(* deep enough and no exchange's own quotes cross, none goes unseen        *)
(* because only those two are looked at.                                   *)
(***************************************************************************)
OwnQuotesCross(c) == \E e \in Fresh(c) : Ask(c, e) > 0 /\ Bid(c, e) >= Ask(c, e)

Real(c, buy, sell) ==
    /\ buy # sell
    /\ Ask(c, buy) > 0 /\ Bid(c, sell) > 0
    /\ Spread(Bid(c, sell), Ask(c, buy))

OpportunitiesReal ==
    \A c \in Coins : \A order \in MapOrders(c) :
        LET best == Snapshot(c, order)
        IN  /\ Detected(best) =>
                 /\ {best.askAt, best.bidAt} \subseteq Fresh(c)
                 /\ Real(c, best.askAt, best.bidAt)
            /\ (\E buy, sell \in Fresh(c) : Real(c, buy, sell))
                   /\ {best.askAt, best.bidAt} \subseteq Deep /\ ~OwnQuotesCross(c)
                 => Detected(best)

(***************************************************************************)
(* Both: what the arbitrage engine reads out of a snapshot does not depend *)
(* on the order Go walks the map in.                                       *)
(***************************************************************************)
PricesRight == BestQuotesRight /\ OpportunitiesReal
=============================================================================
