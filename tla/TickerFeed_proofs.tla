-------------------------- MODULE TickerFeed_proofs --------------------------
(***************************************************************************)
(* Proofs about ticker ingestion, for any feeds, exchanges, symbols, quotes*)
(* and messages, expiry and clock.                                         *)
(***************************************************************************)
EXTENDS TickerFeed, FiniteSetTheorems, WellFoundedInduction, TLAPS

USE CoinOfAssumption, SourceAssumption, PriceTTLAssumption,
    MaxAgeAssumption, MaxClockAssumption
    DEF CoinOfAssumption, SourceAssumption, PriceTTLAssumption,
        MaxAgeAssumption, MaxClockAssumption, Times, Never

IInv == TypeOK /\ WorkAtHand

LEMMA SlotIsSlot ==
    ASSUME NEW t \in Ticker
    PROVE  Slot(t) \in Slots /\ Slot(t) \in Keys /\ <<t.symbol, t.exchange>> \in Keys
  BY DEF Slot, Slots, Keys, Ticker

LEMMA RestIsSequence ==
    ASSUME NEW s \in Seq(Ticker), s # <<>>
    PROVE  Head(s) \in Ticker /\ Tail(s) \in Seq(Ticker)
  OBVIOUS

-----------------------------------------------------------------------------
LEMMA ReceiveKeeps ==
    ASSUME IInv, NEW f \in Feeds, NEW batch \in Messages, Receive(f, batch)
    PROVE  IInv'
  BY MessagesAssumption DEF MessagesAssumption, IInv, TypeOK, WorkAtHand, Receive

LEMMA PublishSymbolKeeps ==
    ASSUME IInv, NEW f \in Feeds, PublishSymbol(f)
    PROVE  IInv'
<1> DEFINE t == Head(todo[f])
<1>1. t \in Ticker
  BY RestIsSequence DEF IInv, TypeOK, WorkAtHand, PublishSymbol
<1>2. Cached(t) \in [of : Ticker \cup {NoTicker}, left : 0 .. PriceTTL]
  BY <1>1 DEF Cached
<1> HIDE DEF t
<1>3. price' = [price EXCEPT ![<<t.symbol, t.exchange>>] = Cached(t)]
  BY DEF PublishSymbol, t
<1> QED
  BY <1>1, <1>2, <1>3 DEF IInv, TypeOK, WorkAtHand, PublishSymbol

LEMMA AfterTickerKeeps ==
    ASSUME IInv, NEW f \in Feeds, NEW rest \in Seq(Ticker), NEW good \in Seq(Ticker),
           AfterTicker(f, rest, good)
    PROVE  /\ phase' \in [Feeds -> {"idle", "symbol", "coin", "aggregate", "down"}]
           /\ todo' \in [Feeds -> Seq(Ticker)]
           /\ resolved' \in [Feeds -> Seq(Ticker)]
           /\ WorkAtHand'
  BY DEF IInv, TypeOK, WorkAtHand, AfterTicker

LEMMA PublishCoinKeeps ==
    ASSUME IInv, NEW f \in Feeds, PublishCoin(f)
    PROVE  IInv'
<1> DEFINE t == Head(todo[f])
<1>1. t \in Ticker /\ Tail(todo[f]) \in Seq(Ticker)
  BY RestIsSequence DEF IInv, TypeOK, WorkAtHand, PublishCoin
<1>2. Cached(t) \in [of : Ticker \cup {NoTicker}, left : 0 .. PriceTTL]
  BY <1>1 DEF Cached
<1>3. Append(resolved[f], t) \in Seq(Ticker)
  BY <1>1 DEF IInv, TypeOK
<1>4. AfterTicker(f, Tail(todo[f]), Append(resolved[f], t))
  BY DEF PublishCoin
<1> HIDE DEF t
<1>5. price' = [price EXCEPT ![Slot(t)] = Cached(t)]
  BY DEF PublishCoin, t
<1>6. price' \in [Keys -> [of : Ticker \cup {NoTicker}, left : 0 .. PriceTTL]]
  BY <1>1, <1>2, <1>5 DEF IInv, TypeOK
<1>7. UNCHANGED <<now, latest, applied>>
  BY DEF PublishCoin
<1> QED
  BY <1>1, <1>3, <1>4, <1>6, <1>7, AfterTickerKeeps DEF IInv, TypeOK

LEMMA FailKeeps ==
    ASSUME IInv, NEW f \in Feeds, Fail(f)
    PROVE  IInv'
<1>1. Tail(todo[f]) \in Seq(Ticker) /\ resolved[f] \in Seq(Ticker)
  BY RestIsSequence DEF IInv, TypeOK, WorkAtHand, Fail
<1>2. CASE AfterTicker(f, Tail(todo[f]), resolved[f])
  BY <1>1, <1>2, AfterTickerKeeps DEF IInv, TypeOK, Fail
<1>3. CASE /\ phase' = [phase EXCEPT ![f] = "down"]
           /\ todo' = [todo EXCEPT ![f] = <<>>]
           /\ resolved' = [resolved EXCEPT ![f] = <<>>]
  <2>1. UNCHANGED <<now, price, latest, applied>>
    BY DEF Fail
  <2>2. <<>> \in Seq(Ticker)
    OBVIOUS
  <2> QED
    BY <1>3, <2>1, <2>2 DEF IInv, TypeOK, WorkAtHand
<1> QED
  BY <1>2, <1>3 DEF Fail

LEMMA PollFailsKeeps ==
    ASSUME IInv, NEW f \in Feeds, PollFails(f)
    PROVE  IInv'
  BY DEF IInv, TypeOK, WorkAtHand, PollFails

LEMMA AggregateKeeps ==
    ASSUME IInv, NEW f \in Feeds, Aggregate(f)
    PROVE  IInv'
<1> DEFINE t == Head(resolved[f])
<1>1. t \in Ticker /\ Tail(resolved[f]) \in Seq(Ticker)
  BY RestIsSequence DEF IInv, TypeOK, WorkAtHand, Aggregate
<1>2. UNCHANGED <<now, todo, price>>
  BY DEF Aggregate
<1>3. /\ resolved' = [resolved EXCEPT ![f] = Tail(@)]
      /\ phase' = [phase EXCEPT ![f] = IF Tail(resolved[f]) = <<>> THEN "idle" ELSE @]
      /\ phase[f] = "aggregate"
  BY DEF Aggregate
<1>4. Update(Slot(t), t) /\ Note(t)
  BY DEF Aggregate
<1> HIDE DEF t
<1>5. latest' \in [Slots -> Ticker \cup {NoTicker}]
  BY <1>1, <1>4, SlotIsSlot DEF IInv, TypeOK, Update
<1>6. t.ts \in Never .. MaxClock
  BY <1>1 DEF Ticker
<1>7. applied' \in [Slots -> Never .. MaxClock]
  BY <1>4, <1>6 DEF IInv, TypeOK, Note
<1>8. /\ phase' \in [Feeds -> {"idle", "symbol", "coin", "aggregate", "down"}]
      /\ resolved' \in [Feeds -> Seq(Ticker)]
  BY <1>1, <1>3 DEF IInv, TypeOK
<1>9. WorkAtHand'
  BY <1>1, <1>2, <1>3 DEF IInv, TypeOK, WorkAtHand
<1> QED
  BY <1>2, <1>5, <1>7, <1>8, <1>9 DEF IInv, TypeOK

LEMMA TickKeeps ==
    ASSUME IInv, Tick PROVE IInv'
<1>1. now' \in Times
  BY DEF IInv, TypeOK, Tick, PassTime
<1>2. \A k \in Keys : Faded(price[k]) \in [of : Ticker \cup {NoTicker}, left : 0 .. PriceTTL]
  BY DEF IInv, TypeOK, Faded, NoPrice
<1>3. price' \in [Keys -> [of : Ticker \cup {NoTicker}, left : 0 .. PriceTTL]]
  BY <1>2 DEF Tick
<1> QED
  BY <1>1, <1>3 DEF IInv, TypeOK, WorkAtHand, Tick, PassTime, feedVars

LEMMA RestartKeeps ==
    ASSUME IInv, Restart PROVE IInv'
  BY DEF IInv, TypeOK, WorkAtHand, Restart, Reset, Empty

(* No step takes the last ticker from a feed that is still at work.        *)
THEOREM AlwaysWorkAtHand == Spec => []IInv
<1>1. Init => IInv
  BY DEF Init, AggregatorInit, IInv, TypeOK, WorkAtHand, NoPrice
<1>2. IInv /\ [Next]_vars => IInv'
  <2> SUFFICES ASSUME IInv, [Next]_vars PROVE IInv'
    OBVIOUS
  <2>1. CASE UNCHANGED vars
    BY <2>1 DEF IInv, TypeOK, WorkAtHand, vars, feedVars
  <2>2. CASE Next
    BY <2>2, ReceiveKeeps, PublishSymbolKeeps, PublishCoinKeeps, FailKeeps,
       PollFailsKeeps, AggregateKeeps, TickKeeps, RestartKeeps DEF Next, Proceed
  <2> QED
    BY <2>1, <2>2
<1> QED
  BY <1>1, <1>2, PTL DEF Spec

(* Every step of a feed, of the clock and of a restart of the engine keeps *)
(* the types.                                                              *)
THEOREM TypeCorrect == Spec => []TypeOK
<1>1. IInv => TypeOK
  BY DEF IInv
<1> QED
  BY <1>1, AlwaysWorkAtHand, PTL

-----------------------------------------------------------------------------
LEMMA AggregateIsMonotone ==
    ASSUME IInv, LatestIsYoungest, NEW f \in Feeds, Aggregate(f)
    PROVE  LatestIsYoungest'
<1> DEFINE t == Head(resolved[f])
<1>1. t \in Ticker
  BY RestIsSequence DEF IInv, TypeOK, WorkAtHand, Aggregate
<1>2. Update(Slot(t), t) /\ Note(t)
  BY DEF Aggregate
<1> HIDE DEF t
<1>3. Slot(t) \in Slots
  BY <1>1, SlotIsSlot
<1>4. t.ts \in Int
  BY <1>1 DEF Ticker
<1> SUFFICES ASSUME NEW s \in Slots
             PROVE  (/\ latest[s].ts = applied[s]
                     /\ latest[s] # NoTicker => Slot(latest[s]) = s)'
  BY DEF LatestIsYoungest
<1>5. CASE s # Slot(t)
  BY <1>2, <1>5 DEF IInv, TypeOK, LatestIsYoungest, Update, Note
<1>6. CASE s = Slot(t)
  <2>1. latest[s].ts = applied[s] /\ applied[s] \in Int
    BY DEF IInv, TypeOK, LatestIsYoungest
  <2>2. CASE latest[s].ts > t.ts
    BY <1>2, <1>3, <1>4, <1>6, <2>1, <2>2 DEF IInv, TypeOK, LatestIsYoungest, Update, Note
  <2>3. CASE ~(latest[s].ts > t.ts)
    BY <1>2, <1>3, <1>4, <1>6, <2>1, <2>3 DEF IInv, TypeOK, Update, Note
  <2> QED
    BY <2>2, <2>3
<1> QED
  BY <1>5, <1>6

(* However many feeds report a coin's price at an exchange, in whatever    *)
(* order, the aggregator never steps back to an older one.                 *)
THEOREM LatestAlwaysYoungest == Spec => []LatestIsYoungest
<1>1. Init => LatestIsYoungest
  BY DEF Init, AggregatorInit, LatestIsYoungest, NoTicker
<1>2. IInv /\ LatestIsYoungest /\ [Next]_vars => LatestIsYoungest'
  <2> SUFFICES ASSUME IInv, LatestIsYoungest, [Next]_vars PROVE LatestIsYoungest'
    OBVIOUS
  <2>1. CASE UNCHANGED <<latest, applied>>
    BY <2>1 DEF LatestIsYoungest, Slot
  <2>2. CASE Restart
    BY <2>2 DEF LatestIsYoungest, Restart, Reset, Empty, NoTicker
  <2>3. ASSUME NEW f \in Feeds, Aggregate(f) PROVE LatestIsYoungest'
    BY <2>3, AggregateIsMonotone
  <2>4. CASE UNCHANGED vars
    BY <2>1, <2>4 DEF vars
  <2>5. ASSUME NEW f \in Feeds, NEW batch \in Messages, Receive(f, batch)
        PROVE  UNCHANGED <<latest, applied>>
    BY <2>5 DEF Receive
  <2>6. ASSUME NEW f \in Feeds, PublishSymbol(f) \/ PublishCoin(f) \/ Fail(f) \/ PollFails(f)
        PROVE  UNCHANGED <<latest, applied>>
    BY <2>6 DEF PublishSymbol, PublishCoin, Fail, PollFails
  <2>7. ASSUME Tick PROVE UNCHANGED <<latest, applied>>
    BY <2>7 DEF Tick, PassTime
  <2> QED
    BY <2>1, <2>2, <2>3, <2>4, <2>5, <2>6, <2>7 DEF Next, Proceed
<1> QED
  BY <1>1, <1>2, AlwaysWorkAtHand, PTL DEF Spec

-----------------------------------------------------------------------------
(* The walk over the map.  A recursive function is a CHOOSE until a        *)
(* function is shown to satisfy its equation: the least length without one *)
(* is neither 0 nor one more than a length that has one.                   *)

LEMMA LeastNatural ==
    ASSUME NEW T \in SUBSET Nat, T # {}
    PROVE  \E k \in T : \A j \in T : k <= j
<1>1. PICK x \in T : \A y \in T : ~ (<<y, x>> \in OpToRel(<, Nat))
  BY NatLessThanWellFounded, WFMin
<1>2. \A y \in T : <<y, x>> \in Nat \X Nat /\ <<y, x>>[1] = y /\ <<y, x>>[2] = x
  OBVIOUS
<1>3. \A y \in T : ~(y < x)
  BY <1>1, <1>2 DEF OpToRel
<1> QED
  BY <1>3

IsWalk(c, order, n, f) ==
    f = [i \in 0 .. n |-> IF i = 0 THEN NoBest ELSE Consider(c, f[i - 1], order[i])]

LEMMA WalkExists ==
    ASSUME NEW c, NEW order, NEW n \in Nat
    PROVE  \E f : IsWalk(c, order, n, f)
<1> DEFINE T == {m \in Nat : ~ \E f : IsWalk(c, order, m, f)}
<1> SUFFICES T = {}
  OBVIOUS
<1> SUFFICES ASSUME T # {} PROVE FALSE
  OBVIOUS
<1>1. PICK k \in T : \A j \in T : k <= j
  BY LeastNatural
<1>2. k # 0
  <2>1. IsWalk(c, order, 0, [i \in 0 .. 0 |-> NoBest])
    BY DEF IsWalk
  <2> QED
    BY <2>1
<1>3. k - 1 \in Nat /\ k - 1 \notin T
  BY <1>1, <1>2
<1>4. PICK g : IsWalk(c, order, k - 1, g)
  BY <1>3
<1> DEFINE f == [i \in 0 .. k |-> IF i = k THEN Consider(c, g[k - 1], order[k]) ELSE g[i]]
<1>5. ASSUME NEW i \in 0 .. k
      PROVE  f[i] = IF i = 0 THEN NoBest ELSE Consider(c, f[i - 1], order[i])
  <2>1. CASE i = k
    <3>1. f[k] = Consider(c, g[k - 1], order[k]) /\ f[k - 1] = g[k - 1]
      BY <1>1, <1>2
    <3> QED
      BY <2>1, <3>1, <1>2
  <2>2. CASE i # k
    <3>1. i \in 0 .. k - 1 /\ f[i] = g[i]
      BY <1>1, <2>2
    <3>2. g[i] = IF i = 0 THEN NoBest ELSE Consider(c, g[i - 1], order[i])
      BY <1>4, <3>1 DEF IsWalk
    <3>3. i # 0 => f[i - 1] = g[i - 1]
      BY <1>1, <3>1
    <3> QED
      BY <3>1, <3>2, <3>3
  <2> QED
    BY <2>1, <2>2
<1> HIDE DEF f
<1>6. IsWalk(c, order, k, f)
  <2>1. f = [i \in 0 .. k |-> f[i]]
    BY DEF f
  <2> QED
    BY <1>5, <2>1 DEF IsWalk
<1> QED
  BY <1>1, <1>6

LEMMA WalkIsWalk ==
    ASSUME NEW c, NEW order, Len(order) \in Nat
    PROVE  IsWalk(c, order, Len(order), Walk(c, order))
  BY WalkExists DEF Walk, IsWalk

-----------------------------------------------------------------------------
(* What the walk has found: the best quotes of those it has seen, credited *)
(* to one of them.                                                         *)
Found(c, seen, best) ==
    /\ best \in [bid : Nat, bidAt : Exchanges \cup {Nowhere},
                 ask : Nat, askAt : Exchanges \cup {Nowhere}]
    /\ \A e \in seen : Bid(c, e) <= best.bid
    /\ best.bid > 0 => best.bidAt \in seen /\ Bid(c, best.bidAt) = best.bid
    /\ \A e \in seen : Ask(c, e) > 0 => best.ask > 0 /\ best.ask <= Ask(c, e)
    /\ best.ask > 0 => best.askAt \in seen /\ Ask(c, best.askAt) = best.ask

LEMMA KnownQuotes ==
    ASSUME TypeOK, NEW c \in Coins, NEW e \in Known(c)
    PROVE  e \in Exchanges /\ Bid(c, e) \in Int /\ Ask(c, e) \in Int
<1>1. <<c, e>> \in Slots /\ e \in Exchanges /\ latest[<<c, e>>] \in Ticker
  BY DEF TypeOK, Known, Slots
<1>2. latest[<<c, e>>].quote \in Quotes
  BY <1>1 DEF Ticker
<1> QED
  BY <1>1, <1>2, QuotesAssumption DEF QuotesAssumption, Bid, Ask

LEMMA ConsiderFinds ==
    ASSUME TypeOK, NEW c \in Coins, NEW e \in Known(c),
           NEW seen \in SUBSET Known(c), NEW best, Found(c, seen, best)
    PROVE  Found(c, seen \cup ({e} \cap Fresh(c)), Consider(c, best, e))
<1>1. CASE IsStale(c, e)
  <2>1. seen \cup ({e} \cap Fresh(c)) = seen
    BY <1>1 DEF Fresh
  <2> QED
    BY <1>1, <2>1 DEF Consider
<1>2. CASE ~IsStale(c, e)
  <2>1. seen \cup ({e} \cap Fresh(c)) = seen \cup {e}
    BY <1>2 DEF Fresh
  <2>2. \A x \in seen \cup {e} : x \in Exchanges /\ Bid(c, x) \in Int /\ Ask(c, x) \in Int
    BY KnownQuotes
  <2> DEFINE mid == WithBid(c, best, e)
             new == WithAsk(c, mid, e)
  <2>3. /\ mid \in [bid : Nat, bidAt : Exchanges \cup {Nowhere},
                    ask : Nat, askAt : Exchanges \cup {Nowhere}]
        /\ mid.ask = best.ask /\ mid.askAt = best.askAt
        /\ \A x \in seen \cup {e} : Bid(c, x) <= mid.bid
        /\ mid.bid > 0 => mid.bidAt \in seen \cup {e} /\ Bid(c, mid.bidAt) = mid.bid
    <3>1. CASE Bid(c, e) > best.bid
      <4>1. mid = [best EXCEPT !.bid = Bid(c, e), !.bidAt = e]
        BY <3>1 DEF WithBid
      <4>2. /\ mid.bid = Bid(c, e) /\ mid.bidAt = e
            /\ mid.ask = best.ask /\ mid.askAt = best.askAt
        BY <4>1 DEF Found
      <4>3. mid \in [bid : Nat, bidAt : Exchanges \cup {Nowhere},
                    ask : Nat, askAt : Exchanges \cup {Nowhere}]
        <5>1. Bid(c, e) \in Nat /\ e \in Exchanges
          BY <2>2, <3>1 DEF Found
        <5> QED
          BY <4>1, <5>1 DEF Found
      <4> HIDE DEF mid
      <4> QED
        BY <2>2, <3>1, <4>2, <4>3 DEF Found
    <3>2. CASE ~(Bid(c, e) > best.bid)
      <4>1. mid = best
        BY <3>2 DEF WithBid
      <4> HIDE DEF mid
      <4> QED
        BY <2>2, <3>2, <4>1 DEF Found
    <3> QED
      BY <3>1, <3>2
  <2>4. /\ \A x \in seen : Ask(c, x) > 0 => mid.ask > 0 /\ mid.ask <= Ask(c, x)
        /\ mid.ask > 0 => mid.askAt \in seen /\ Ask(c, mid.askAt) = mid.ask
    BY <2>3 DEF Found
  <2> HIDE DEF mid
  <2>5. /\ new \in [bid : Nat, bidAt : Exchanges \cup {Nowhere},
                    ask : Nat, askAt : Exchanges \cup {Nowhere}]
        /\ new.bid = mid.bid /\ new.bidAt = mid.bidAt
        /\ \A x \in seen \cup {e} : Ask(c, x) > 0 => new.ask > 0 /\ new.ask <= Ask(c, x)
        /\ new.ask > 0 => new.askAt \in seen \cup {e} /\ Ask(c, new.askAt) = new.ask
    <3>1. CASE Ask(c, e) > 0 /\ (mid.ask = 0 \/ Ask(c, e) < mid.ask)
      <4>1. new = [mid EXCEPT !.ask = Ask(c, e), !.askAt = e]
        BY <3>1 DEF WithAsk
      <4>2. /\ new.ask = Ask(c, e) /\ new.askAt = e
            /\ new.bid = mid.bid /\ new.bidAt = mid.bidAt
        BY <2>3, <4>1
      <4>3. new \in [bid : Nat, bidAt : Exchanges \cup {Nowhere},
                    ask : Nat, askAt : Exchanges \cup {Nowhere}]
        <5>1. Ask(c, e) \in Nat /\ e \in Exchanges
          BY <2>2, <3>1
        <5> QED
          BY <2>3, <4>1, <5>1
      <4> HIDE DEF new
      <4> QED
        BY <2>2, <2>3, <2>4, <3>1, <4>2, <4>3
    <3>2. CASE ~(Ask(c, e) > 0 /\ (mid.ask = 0 \/ Ask(c, e) < mid.ask))
      <4>1. new = mid
        BY <3>2 DEF WithAsk
      <4> HIDE DEF new
      <4> QED
        BY <2>2, <2>3, <2>4, <3>2, <4>1
    <3> QED
      BY <3>1, <3>2
  <2> HIDE DEF new
  <2>6. Consider(c, best, e) = new
    BY <1>2 DEF Consider, new, mid
  <2> QED
    BY <2>1, <2>3, <2>5, <2>6 DEF Found
<1> QED
  BY <1>1, <1>2

(* Whatever the order, the walk's end has seen every fresh ticker.         *)
LEMMA OrderIsComplete ==
    ASSUME NEW c \in Coins, NEW order \in MapOrders(c)
    PROVE  /\ Len(order) \in Nat
           /\ \A i \in 1 .. Len(order) : order[i] \in Known(c)
           /\ \A e \in Known(c) : \E i \in 1 .. Len(order) : order[i] = e
<1> DEFINE n == Cardinality(Known(c))
<1>1. IsFiniteSet(Known(c)) /\ n \in Nat
  BY ExchangesAssumption, FS_Subset, FS_CardinalityType DEF ExchangesAssumption, Known
<1>2. order \in [1 .. n -> Known(c)] /\ \A i, j \in 1 .. n : i # j => order[i] # order[j]
  BY DEF MapOrders, SetToSeqs
<1>3. IsFiniteSet(1 .. n) /\ Cardinality(1 .. n) = n
  BY <1>1, FS_Interval
<1> HIDE DEF n
<1>4. order \in Injection(1 .. n, Known(c))
  BY <1>2 DEF Injection, IsInjective
<1>5. order \in Surjection(1 .. n, Known(c))
  BY <1>1, <1>3, <1>4, FS_Injection DEF n
<1>6. Len(order) = n
  BY <1>1, <1>2
<1> QED
  BY <1>1, <1>2, <1>5, <1>6 DEF Surjection

LEMMA WalkFinds ==
    ASSUME TypeOK, NEW c \in Coins, NEW order \in MapOrders(c)
    PROVE  Found(c, Fresh(c), Snapshot(c, order))
<1> DEFINE n == Len(order)
           walk == Walk(c, order)
           Seen(i) == {order[j] : j \in 1 .. i} \cap Fresh(c)
           T == {i \in 0 .. n : ~Found(c, Seen(i), walk[i])}
<1>1. /\ n \in Nat
      /\ \A i \in 1 .. n : order[i] \in Known(c)
      /\ \A e \in Known(c) : \E i \in 1 .. n : order[i] = e
  BY OrderIsComplete
<1>2. \A i \in 0 .. n : walk[i] = IF i = 0 THEN NoBest ELSE Consider(c, walk[i - 1], order[i])
  BY <1>1, WalkIsWalk DEF IsWalk
<1> HIDE DEF walk, n
<1>3. T = {}
  <2> SUFFICES ASSUME T # {} PROVE FALSE
    OBVIOUS
  <2>1. PICK k \in T : \A j \in T : k <= j
    <3>1. T \in SUBSET Nat
      BY <1>1
    <3> QED
      BY <3>1, LeastNatural
  <2>2. k # 0
    <3>1. Seen(0) = {}
      BY DEF Fresh
    <3>2. walk[0] = NoBest
      BY <1>1, <1>2
    <3> QED
      BY <3>1, <3>2 DEF Found, NoBest
  <2>3. k - 1 \in 0 .. n /\ k - 1 \notin T
    <3>1. k \in 0 .. n /\ k - 1 \in 0 .. n /\ ~(k <= k - 1)
      BY <1>1, <2>1, <2>2
    <3> HIDE DEF T
    <3> QED
      BY <2>1, <3>1
  <2>4. Found(c, Seen(k - 1), walk[k - 1])
    BY <2>3
  <2>5. order[k] \in Known(c) /\ Seen(k - 1) \in SUBSET Known(c)
    BY <1>1, <2>1, <2>2 DEF Fresh
  <2>6. Seen(k) = Seen(k - 1) \cup ({order[k]} \cap Fresh(c))
    <3>1. 1 .. k = (1 .. k - 1) \cup {k}
      BY <2>1, <2>2
    <3> QED
      BY <3>1
  <2>7. walk[k] = Consider(c, walk[k - 1], order[k])
    BY <1>2, <2>1, <2>2
  <2> QED
    BY <2>1, <2>4, <2>5, <2>6, <2>7, ConsiderFinds
<1>4. Found(c, Seen(n), walk[n])
  <2>1. n \in 0 .. n
    BY <1>1
  <2>2. \A i \in 0 .. n : i \notin T
    BY <1>3
  <2>3. \A i \in 0 .. n : Found(c, Seen(i), walk[i])
    <3> HIDE DEF Seen
    <3> QED
      BY <2>2
  <2> QED
    BY <2>1, <2>3
<1>5. Seen(n) = Fresh(c)
  BY <1>1 DEF Fresh
<1> QED
  BY <1>4, <1>5 DEF Snapshot, walk, n

-----------------------------------------------------------------------------
(* A wider gap between better prices is a spread as well.                  *)
LEMMA SpreadWidens ==
    ASSUME NEW bid \in Int, NEW ask \in Int, NEW high \in Int, NEW low \in Int,
           high >= bid, low <= ask, Spread(bid, ask)
    PROVE  Spread(high, low)
<1> USE MinSpreadAssumption DEF MinSpreadAssumption
<1>1. PICK d \in Nat : ask = low + d
  <2>1. ask - low \in Nat /\ ask = low + (ask - low)
    OBVIOUS
  <2> QED
    BY <2>1
<1>2. MinSpread * ask = MinSpread * low + MinSpread * d
  BY <1>1
<1>3. MinSpread * d >= 0
  OBVIOUS
<1>4. MinSpread * low \in Int /\ MinSpread * d \in Int
  OBVIOUS
<1>5. 100 * (bid - ask) <= 100 * (high - low)
  OBVIOUS
<1> QED
  BY <1>2, <1>3, <1>4, <1>5 DEF Spread

LEMMA SpreadIsGain ==
    ASSUME NEW bid \in Int, NEW ask \in Nat, Spread(bid, ask)
    PROVE  bid >= ask
<1>1. MinSpread * ask >= 0 /\ MinSpread * ask \in Int
  BY MinSpreadAssumption DEF MinSpreadAssumption
<1> QED
  BY <1>1 DEF Spread

LEMMA PricesRightHere ==
    ASSUME TypeOK PROVE PricesRight
<1> SUFFICES ASSUME NEW c \in Coins, NEW order \in MapOrders(c)
             PROVE  LET best == Snapshot(c, order)
                        asking == {e \in Fresh(c) : Ask(c, e) > 0}
                    IN  /\ \A e \in Fresh(c) : Bid(c, e) <= best.bid
                        /\ best.bid > 0 => best.bidAt \in Fresh(c) /\ Bid(c, best.bidAt) = best.bid
                        /\ \A e \in asking : best.ask > 0 /\ best.ask <= Ask(c, e)
                        /\ best.ask > 0 => best.askAt \in asking /\ Ask(c, best.askAt) = best.ask
                        /\ Detected(best) =>
                              /\ {best.askAt, best.bidAt} \subseteq Fresh(c)
                              /\ Real(c, best.askAt, best.bidAt)
                        /\ (\E buy, sell \in Fresh(c) : Real(c, buy, sell))
                               /\ {best.askAt, best.bidAt} \subseteq Deep /\ ~OwnQuotesCross(c)
                             => Detected(best)
  BY DEF PricesRight, BestQuotesRight, OpportunitiesReal
<1> DEFINE best == Snapshot(c, order)
<1>1. Found(c, Fresh(c), best)
  BY WalkFinds
<1>2. \A e \in Fresh(c) : Bid(c, e) \in Int /\ Ask(c, e) \in Int
  BY KnownQuotes DEF Fresh
<1> HIDE DEF best
<1>3. ASSUME Detected(best)
      PROVE  /\ {best.askAt, best.bidAt} \subseteq Fresh(c)
             /\ Real(c, best.askAt, best.bidAt)
  BY <1>1, <1>3 DEF Found, Detected, Real
<1>4. ASSUME NEW buy \in Fresh(c), NEW sell \in Fresh(c), Real(c, buy, sell),
             {best.askAt, best.bidAt} \subseteq Deep, ~OwnQuotesCross(c)
      PROVE  Detected(best)
  <2>1. /\ best.bid \in Nat /\ Bid(c, sell) <= best.bid /\ best.bid > 0
        /\ best.ask \in Nat /\ best.ask <= Ask(c, buy) /\ best.ask > 0
    BY <1>1, <1>2, <1>4 DEF Found, Real
  <2>2. Spread(best.bid, best.ask)
    BY <1>2, <1>4, <2>1, SpreadWidens DEF Real
  <2>3. best.bidAt # best.askAt
    <3> SUFFICES ASSUME best.bidAt = best.askAt PROVE FALSE
      OBVIOUS
    <3>1. best.bidAt \in Fresh(c) /\ Bid(c, best.bidAt) = best.bid /\ Ask(c, best.bidAt) = best.ask
      BY <1>1, <2>1 DEF Found
    <3>2. best.bid >= best.ask
      BY <2>1, <2>2, SpreadIsGain
    <3> QED
      BY <1>4, <2>1, <3>1, <3>2 DEF OwnQuotesCross
  <2> QED
    BY <1>4, <2>1, <2>2, <2>3 DEF Detected
<1> QED
  BY <1>1, <1>3, <1>4 DEF Found, best

(* Best bid and ask are those of the fresh tickers, whatever order Go      *)
(* walks its map in (aggregator.go snapshotLocked), and the arbitrage      *)
(* engine, which looks at these two exchanges alone (engine.go             *)
(* detectOpportunity), sees only real opportunities and misses none        *)
(* between deep ones that do not cross themselves: for any exchanges,      *)
(* quotes, ages and thresholds.                                            *)
THEOREM PricesAlwaysRight == Spec => []PricesRight
  BY TypeCorrect, PricesRightHere, PTL

(***************************************************************************)
(* What the order of the map can change is the exchange a price is said to *)
(* be of, where quotes tie (aggregator.go snapshotLocked): the prices      *)
(* themselves never, nor whether an opportunity is seen, as long as all    *)
(* that is fresh is deep and no exchange's own quotes cross.               *)
(***************************************************************************)
OrderFree ==
    \A c \in Coins : \A order, other \in MapOrders(c) :
        LET best == Snapshot(c, order)
            same == Snapshot(c, other)
        IN  /\ best.bid = same.bid /\ best.ask = same.ask
            /\ Fresh(c) \subseteq Deep /\ ~OwnQuotesCross(c)
                 => (Detected(best) <=> Detected(same))

LEMMA SamePrices ==
    ASSUME NEW c \in Coins, NEW best, NEW same, TypeOK,
           Found(c, Fresh(c), best), Found(c, Fresh(c), same)
    PROVE  best.bid = same.bid /\ best.ask = same.ask
<1>1. \A e \in Fresh(c) : Bid(c, e) \in Int /\ Ask(c, e) \in Int
  BY KnownQuotes DEF Fresh
<1> QED
  BY <1>1 DEF Found

LEMMA SameOpportunity ==
    ASSUME NEW c \in Coins, NEW order \in MapOrders(c), NEW other \in MapOrders(c),
           TypeOK, Fresh(c) \subseteq Deep, ~OwnQuotesCross(c), Detected(Snapshot(c, order))
    PROVE  Detected(Snapshot(c, other))
<1> DEFINE best == Snapshot(c, order)
           same == Snapshot(c, other)
<1>1. Found(c, Fresh(c), best) /\ Found(c, Fresh(c), same)
  BY WalkFinds
<1>2. same.bid = best.bid /\ same.ask = best.ask
  <2> HIDE DEF best, same
  <2> QED
    BY <1>1, SamePrices
<1>3. /\ Detected(best) => {best.askAt, best.bidAt} \subseteq Fresh(c) /\ Real(c, best.askAt, best.bidAt)
      /\ (\E buy, sell \in Fresh(c) : Real(c, buy, sell))
             /\ {same.askAt, same.bidAt} \subseteq Deep /\ ~OwnQuotesCross(c)
           => Detected(same)
  BY PricesRightHere DEF PricesRight, OpportunitiesReal
<1>4. same.bid > 0 /\ same.ask > 0
  <2> HIDE DEF best, same
  <2>1. Detected(best)
    BY DEF best
  <2> QED
    BY <1>2, <2>1 DEF Detected
<1> HIDE DEF best, same
<1>5. {same.askAt, same.bidAt} \subseteq Fresh(c)
  BY <1>1, <1>4 DEF Found
<1>6. Detected(best)
  BY DEF best
<1>7. Detected(same)
  BY <1>3, <1>5, <1>6
<1> QED
  BY <1>7 DEF same

(* In every state, for any two orders of the map, as OrderFree says.       *)
THEOREM OrderNeverMatters == Spec => []OrderFree
<1>1. TypeOK => OrderFree
  <2> SUFFICES ASSUME TypeOK, NEW c \in Coins,
                      NEW order \in MapOrders(c), NEW other \in MapOrders(c)
               PROVE  /\ Snapshot(c, order).bid = Snapshot(c, other).bid
                      /\ Snapshot(c, order).ask = Snapshot(c, other).ask
                      /\ Fresh(c) \subseteq Deep /\ ~OwnQuotesCross(c)
                           => (Detected(Snapshot(c, order)) <=> Detected(Snapshot(c, other)))
    BY DEF OrderFree
  <2>1. Found(c, Fresh(c), Snapshot(c, order)) /\ Found(c, Fresh(c), Snapshot(c, other))
    BY WalkFinds
  <2> QED
    BY <2>1, SamePrices, SameOpportunity
<1> QED
  BY <1>1, TypeCorrect, PTL

-----------------------------------------------------------------------------
(* What a feed has before it at most: two SETs and a hand-over for every   *)
(* ticker it has not ingested, a hand-over for every one it has.           *)
Working == {"symbol", "coin", "aggregate"}

Queued(f) == Len(todo[f])
Ready(f) == Len(resolved[f])
HalfDone(f) == IF phase[f] = "coin" THEN 1 ELSE 0

StepsLeft(f) ==
    IF phase[f] \in Working
    THEN 3 * Queued(f) + Ready(f) - HalfDone(f)
    ELSE 0

WearsDown ==
    \A f \in Feeds :
        /\ Proceed(f) => StepsLeft(f)' < StepsLeft(f)
        /\ phase[f] # "idle" => StepsLeft(f)' <= StepsLeft(f)

LEMMA StepsLeftIs ==
    ASSUME IInv, NEW f \in Feeds
    PROVE  /\ Queued(f) \in Nat /\ Ready(f) \in Nat
           /\ phase[f] \in {"symbol", "coin"} => Queued(f) >= 1
           /\ phase[f] = "aggregate" => Ready(f) >= 1
           /\ StepsLeft(f) \in Nat
           /\ phase[f] \in Working => StepsLeft(f) > 0
<1>1. /\ Queued(f) \in Nat /\ Ready(f) \in Nat
      /\ phase[f] \in {"symbol", "coin"} => Queued(f) >= 1
      /\ phase[f] = "aggregate" => Ready(f) >= 1
  <2>1. todo[f] \in Seq(Ticker) /\ resolved[f] \in Seq(Ticker)
    BY DEF IInv, TypeOK
  <2>2. /\ phase[f] \in {"symbol", "coin"} => todo[f] # <<>>
        /\ phase[f] = "aggregate" => resolved[f] # <<>>
    BY DEF IInv, WorkAtHand
  <2> QED
    BY <2>1, <2>2 DEF Queued, Ready
<1>2. HalfDone(f) \in {0, 1} /\ (HalfDone(f) = 1 => Queued(f) >= 1)
  BY <1>1 DEF HalfDone
<1> QED
  BY <1>1, <1>2 DEF StepsLeft, Working

(* Done with a ticker, whether it came through or not, a feed has less to  *)
(* do than before it.                                                      *)
LEMMA AfterTickerWears ==
    ASSUME IInv, NEW f \in Feeds, phase[f] \in {"symbol", "coin"}, NEW good \in Seq(Ticker),
           AfterTicker(f, Tail(todo[f]), good),
           Len(good) <= Ready(f) + HalfDone(f)
    PROVE  StepsLeft(f)' < StepsLeft(f)
<1>1. /\ Queued(f) \in Nat /\ Ready(f) \in Nat /\ Queued(f) >= 1
      /\ StepsLeft(f) = 3 * Queued(f) + Ready(f) - HalfDone(f)
      /\ HalfDone(f) \in {0, 1}
  BY StepsLeftIs DEF StepsLeft, Working, HalfDone
<1>2. /\ todo'[f] = Tail(todo[f]) /\ resolved'[f] = good
      /\ phase'[f] \in {"symbol", "aggregate", "idle"}
  BY DEF AfterTicker, IInv, TypeOK
<1>3. Queued(f)' = Queued(f) - 1 /\ Ready(f)' = Len(good) /\ Ready(f)' \in Nat
  <2>1. todo[f] \in Seq(Ticker) /\ todo[f] # <<>>
    BY DEF IInv, TypeOK, WorkAtHand
  <2>2. Len(Tail(todo[f])) = Len(todo[f]) - 1 /\ Len(good) \in Nat
    BY <2>1
  <2> QED
    BY <1>2, <2>2 DEF Queued, Ready
<1>4. CASE phase'[f] = "idle"
  <2>1. StepsLeft(f)' = 0
    BY <1>4 DEF StepsLeft, Working
  <2> QED
    BY <1>1, <2>1
<1>5. CASE phase'[f] \in {"symbol", "aggregate"}
  <2>1. StepsLeft(f)' = 3 * Queued(f)' + Ready(f)'
    <3>1. HalfDone(f)' = 0
      BY <1>5 DEF HalfDone
    <3>2. StepsLeft(f)' = 3 * Queued(f)' + Ready(f)' - HalfDone(f)'
      BY <1>5 DEF StepsLeft, Working
    <3> QED
      BY <1>1, <1>3, <3>1, <3>2
  <2>2. Ready(f)' <= Ready(f) + HalfDone(f)
    BY <1>3
  <2> QED
    BY <1>1, <1>3, <2>1, <2>2
<1> QED
  BY <1>2, <1>4, <1>5

LEMMA ProceedWears ==
    ASSUME IInv, NEW f \in Feeds, Proceed(f) PROVE StepsLeft(f)' < StepsLeft(f)
<1>0. /\ Queued(f) \in Nat /\ Ready(f) \in Nat
      /\ StepsLeft(f) \in Nat /\ (phase[f] \in Working => StepsLeft(f) > 0)
      /\ phase[f] \in Working => StepsLeft(f) = 3 * Queued(f) + Ready(f) - HalfDone(f)
      /\ HalfDone(f) = IF phase[f] = "coin" THEN 1 ELSE 0
  BY StepsLeftIs DEF StepsLeft, HalfDone
<1>1. CASE PublishSymbol(f)
  <2>1. /\ phase[f] = "symbol" /\ phase'[f] = "coin"
        /\ Queued(f)' = Queued(f) /\ Ready(f)' = Ready(f)
    BY <1>1 DEF PublishSymbol, IInv, TypeOK, Queued, Ready
  <2>2. StepsLeft(f)' = 3 * Queued(f)' + Ready(f)' - HalfDone(f)' /\ HalfDone(f)' = 1
    BY <2>1 DEF StepsLeft, Working, HalfDone
  <2>3. HalfDone(f) = 0 /\ phase[f] \in Working
    BY <1>0, <2>1 DEF Working
  <2> QED
    BY <1>0, <2>1, <2>2, <2>3
<1>2. CASE PublishCoin(f)
  <2>1. Head(todo[f]) \in Ticker /\ phase[f] = "coin" /\ resolved[f] \in Seq(Ticker)
    BY <1>2, RestIsSequence DEF IInv, TypeOK, WorkAtHand, PublishCoin
  <2> DEFINE good == Append(resolved[f], Head(todo[f]))
  <2>2. good \in Seq(Ticker) /\ Len(good) = Ready(f) + 1
    BY <2>1 DEF Ready
  <2>3. AfterTicker(f, Tail(todo[f]), good)
    BY <1>2 DEF PublishCoin
  <2> HIDE DEF good
  <2>4. Len(good) <= Ready(f) + HalfDone(f)
    BY <1>0, <2>1, <2>2
  <2> QED
    BY <2>1, <2>2, <2>3, <2>4, AfterTickerWears
<1>3. CASE Fail(f)
  <2>1. phase[f] \in {"symbol", "coin"}
    BY <1>3 DEF Fail
  <2>2. CASE AfterTicker(f, Tail(todo[f]), resolved[f])
    <3>1. resolved[f] \in Seq(Ticker) /\ Len(resolved[f]) = Ready(f)
      BY DEF IInv, TypeOK, Ready
    <3>2. Ready(f) <= Ready(f) + HalfDone(f)
      BY <1>0
    <3> QED
      BY <2>1, <2>2, <3>1, <3>2, AfterTickerWears
  <2>3. CASE phase' = [phase EXCEPT ![f] = "down"]
    <3>1. phase'[f] = "down"
      BY <2>3 DEF IInv, TypeOK
    <3>2. StepsLeft(f)' = 0
      BY <3>1 DEF StepsLeft, Working
    <3> QED
      BY <1>0, <2>1, <3>2 DEF Working
  <2> QED
    BY <1>3, <2>2, <2>3 DEF Fail
<1>4. CASE Aggregate(f)
  <2>1. /\ phase[f] = "aggregate" /\ phase'[f] \in {"aggregate", "idle"}
        /\ todo' = todo /\ resolved'[f] = Tail(resolved[f])
    BY <1>4 DEF Aggregate, IInv, TypeOK
  <2>2. Queued(f)' = Queued(f) /\ Ready(f)' = Ready(f) - 1
    <3>1. resolved[f] \in Seq(Ticker) /\ resolved[f] # <<>>
      BY <2>1 DEF IInv, TypeOK, WorkAtHand
    <3>2. Len(Tail(resolved[f])) = Len(resolved[f]) - 1
      BY <3>1
    <3> QED
      BY <2>1, <3>2 DEF Queued, Ready
  <2>3. HalfDone(f) = 0 /\ phase[f] \in Working
    BY <1>0, <2>1 DEF Working
  <2>4. CASE phase'[f] = "idle"
    <3>1. StepsLeft(f)' = 0
      BY <2>4 DEF StepsLeft, Working
    <3> QED
      BY <1>0, <2>3, <3>1
  <2>5. CASE phase'[f] = "aggregate"
    <3>1. StepsLeft(f)' = 3 * Queued(f)' + Ready(f)' - HalfDone(f)' /\ HalfDone(f)' = 0
      BY <2>5 DEF StepsLeft, Working, HalfDone
    <3> QED
      BY <1>0, <2>2, <2>3, <3>1
  <2> QED
    BY <2>1, <2>4, <2>5
<1> QED
  BY <1>1, <1>2, <1>3, <1>4 DEF Proceed

(* Every step of a feed, be the ticker good or bad, brings it nearer the   *)
(* end of its batch; no other feed, exchange, restart or passing time puts *)
(* it off.                                                                 *)
THEOREM BatchesWearDown ==
    Spec => [](\A f \in Feeds : StepsLeft(f) \in Nat) /\ [][WearsDown]_vars
<1> DEFINE Bounded == \A f \in Feeds : StepsLeft(f) \in Nat
<1>1. IInv /\ Bounded /\ Bounded' /\ [Next]_vars => [WearsDown]_vars
  <2> SUFFICES ASSUME IInv, Bounded, Bounded', Next, NEW f \in Feeds
               PROVE  /\ Proceed(f) => StepsLeft(f)' < StepsLeft(f)
                      /\ phase[f] # "idle" => StepsLeft(f)' <= StepsLeft(f)
    BY DEF WearsDown
  <2>0. StepsLeft(f) \in Nat /\ StepsLeft(f)' \in Nat
    OBVIOUS
  <2>1. Proceed(f) => StepsLeft(f)' < StepsLeft(f)
    BY ProceedWears
  <2>2. CASE Proceed(f)
    BY <2>0, <2>1, <2>2
  <2>3. CASE phase[f] # "idle" /\ phase'[f] = phase[f]
             /\ todo'[f] = todo[f] /\ resolved'[f] = resolved[f]
    <3>1. StepsLeft(f)' = StepsLeft(f)
      BY <2>3 DEF StepsLeft, HalfDone, Queued, Ready
    <3> QED
      BY <2>0, <2>1, <3>1
  <2>4. CASE Restart
    <3>1. phase'[f] = "idle"
      BY <2>4 DEF Restart
    <3>2. StepsLeft(f)' = 0
      BY <3>1 DEF StepsLeft, Working
    <3> QED
      BY <2>0, <2>1, <3>2
  <2>5. CASE phase[f] = "idle"
    BY <2>1, <2>5
  <2>6. CASE phase[f] # "idle" /\ ~Proceed(f) /\ ~Restart
    <3>1. \/ UNCHANGED feedVars
          \/ \E g \in Feeds \ {f} : Proceed(g) \/ PollFails(g) \/ \E batch \in Messages : Receive(g, batch)
      BY <2>6 DEF Next, Tick, Receive, PollFails
    <3>2. phase'[f] = phase[f] /\ todo'[f] = todo[f] /\ resolved'[f] = resolved[f]
      BY <3>1 DEF IInv, TypeOK, feedVars, Proceed, PublishSymbol, PublishCoin, AfterTicker,
                  Fail, Aggregate, PollFails, Receive
    <3> QED
      BY <2>3, <2>6, <3>2
  <2> QED
    BY <2>2, <2>4, <2>5, <2>6
<1>2. IInv => Bounded
  BY StepsLeftIs
<1> QED
  BY <1>1, <1>2, AlwaysWorkAtHand, PTL DEF Spec
=============================================================================
