----------------------------- MODULE OhlcvSync -----------------------------
(***************************************************************************)
(* Candles of one coin, exchange and timeframe (src/engine/market/ohlcv):  *)
(* the scheduler's incremental sync asks the store for its newest candle,  *)
(* polls the exchange from there, upserts the page and pushes every candle *)
(* of it to a capped Valkey list.  Time is counted in candles: candle t is *)
(* forming while now = t and has its final values afterwards.              *)
(***************************************************************************)
EXTENDS Integers, Sequences

CONSTANTS
    Pairs,          \* the exchange symbols the coin may be resolved to
    PageSize,       \* candles in a page: the request's or the exchange's own limit
    BufferCap,      \* ohlcvListLimit + 1
    Horizon,        \* bound of the model: the last candle of the run
    MaxBuffer       \* bound of the model: entries left in a list never trimmed

ASSUME PageSizeAssumption == PageSize \in Nat \ {0}
ASSUME BufferCapAssumption == BufferCap \in Nat \ {0}
ASSUME HorizonAssumption == Horizon \in Nat

Times == 0 .. Horizon
NoTime == -1
Never == [pair |-> "none"]   \* no row for that candle

VARIABLES
    now,            \* the candle that is forming at the exchange
    stored,         \* rows of the ohlcv table by candle
    buffer,         \* the Valkey list of each pair, newest push first
    pc,             \* where the sync stands
    since,          \* newest stored candle when the sync began
    pair,           \* symbol the coin was resolved to
    from, to,       \* candles of the page still to be dealt with
    polledAt        \* the candle that was forming when the page was made

syncVars == <<pc, since, pair, from, to, polledAt>>
vars == <<now, stored, buffer, syncVars>>

Candle == [pair : Pairs, final : BOOLEAN, closed : BOOLEAN]
Entry == [at : Times, final : BOOLEAN]

Held == {t \in Times : stored[t] # Never}

(* LatestTimestamp's answer, NoTime for an empty table.                    *)
Latest(s) ==
    \/ s \in Held /\ \A t \in Held : t <= s
    \/ s = NoTime /\ Held = {}

Init ==
    /\ now = 0
    /\ stored = [t \in Times |-> Never]
    /\ buffer = [p \in Pairs |-> <<>>]
    /\ pc = "idle"
    /\ since = NoTime
    /\ pair \in Pairs
    /\ from = 0
    /\ to = 0
    /\ polledAt = 0

-----------------------------------------------------------------------------
(* The scheduler comes to this target: newest candle and symbol are read.  *)
BeginAfter ==
    /\ pc = "idle"
    /\ \E s \in Times \cup {NoTime} : Latest(s) /\ since' = s + 1
    /\ pair' \in Pairs
    /\ pc' = "poll"
    /\ UNCHANGED <<now, stored, buffer, from, to, polledAt>>

BeginAnew ==
    /\ pc = "idle"
    /\ since' = NoTime
    /\ pair' \in Pairs
    /\ pc' = "poll"
    /\ UNCHANGED <<now, stored, buffer, from, to, polledAt>>

Begin ==
    /\ pc = "idle"
    /\ \E s \in Times \cup {NoTime} : Latest(s) /\ since' = s
    /\ pair' \in Pairs
    /\ pc' = "poll"
    /\ UNCHANGED <<now, stored, buffer, from, to, polledAt>>

(* The sync returns: its locals are gone.                                  *)
Return ==
    /\ pc' = "idle"
    /\ since' = NoTime
    /\ from' = 0
    /\ to' = 0
    /\ polledAt' = 0
    /\ UNCHANGED pair

(***************************************************************************)
(* A page of candles: from since on, or the latest ones; the exchange may  *)
(* not list the forming candle yet.  An empty page ends the sync.          *)
(***************************************************************************)
PageStart(last) ==
    IF since # NoTime THEN since
    ELSE IF last >= PageSize THEN last - PageSize + 1 ELSE 0

PollCached ==
    /\ pc = "poll"
    /\ \E made \in {now - 1, now} \cap Times : \E last \in {made - 1, made} :
          \/ /\ PageStart(last) <= last
             /\ from' = PageStart(last)
             /\ to' = IF last - from' < PageSize THEN last ELSE from' + PageSize - 1
             /\ polledAt' = made
             /\ pc' = "store"
             /\ UNCHANGED <<since, pair>>
          \/ /\ PageStart(last) > last
             /\ Return
    /\ UNCHANGED <<now, stored, buffer>>

Poll ==
    /\ pc = "poll"
    /\ \E last \in {now - 1, now} :
          \/ /\ PageStart(last) <= last
             /\ from' = PageStart(last)
             /\ to' = IF last - from' < PageSize THEN last ELSE from' + PageSize - 1
             /\ polledAt' = now
             /\ pc' = "store"
             /\ UNCHANGED <<since, pair>>
          \/ /\ PageStart(last) > last
             /\ Return
    /\ UNCHANGED <<now, stored, buffer>>

(* One transaction upserts the page.  A candle is marked closed by the     *)
(* clock of this moment, not of the poll.                                  *)
Store ==
    /\ pc = "store"
    /\ stored' = [t \in Times |->
                     IF t \in from .. to
                     THEN [pair |-> pair, final |-> t < polledAt, closed |-> t < now]
                     ELSE stored[t]]
    /\ pc' = "push"
    /\ UNCHANGED <<now, buffer, since, pair, from, to, polledAt>>

(* PublishOHLCV of the next candle: LPUSH, LTRIM, and a message.           *)
Version(t) == [at |-> t, final |-> t < polledAt]

Trimmed(list) == IF Len(list) > BufferCap THEN SubSeq(list, 1, BufferCap) ELSE list

PushLast ==
    /\ pc = "push"
    /\ buffer' = [buffer EXCEPT ![pair] = Trimmed(<<Version(to)>> \o @)]
    /\ \/ from = to /\ Return
       \/ from # to /\ to' = to - 1 /\ UNCHANGED <<pc, since, pair, from, polledAt>>
    /\ UNCHANGED <<now, stored>>

PushBeforeStore ==
    /\ pc = "store"
    /\ buffer' = [buffer EXCEPT ![pair] = Trimmed(<<Version(from)>> \o @)]
    /\ Return
    /\ UNCHANGED <<now, stored>>

Push ==
    /\ pc = "push"
    /\ buffer' = [buffer EXCEPT ![pair] = Trimmed(<<Version(from)>> \o @)]
    /\ \/ from = to /\ Return
       \/ from # to /\ from' = from + 1 /\ UNCHANGED <<pc, since, pair, to, polledAt>>
    /\ UNCHANGED <<now, stored>>

(* LPUSH went through, LTRIM failed: the sync returns that error.          *)
PushUntrimmed ==
    /\ pc = "push"
    /\ Len(buffer[pair]) < MaxBuffer
    /\ buffer' = [buffer EXCEPT ![pair] = <<Version(from)>> \o @]
    /\ Return
    /\ UNCHANGED <<now, stored>>

(* Any other error of a step ends the sync, the scheduler and the engine;  *)
(* so does a crash.  What was stored and pushed stays; the next engine     *)
(* begins again.                                                           *)
Abandon ==
    /\ pc # "idle"
    /\ Return
    /\ UNCHANGED <<now, stored, buffer>>

Tick ==
    /\ now < Horizon
    /\ now' = now + 1
    /\ UNCHANGED <<stored, buffer, syncVars>>

Next == Begin \/ Poll \/ Store \/ Push \/ PushUntrimmed \/ Abandon \/ Tick

Spec == Init /\ [][Next]_vars

-----------------------------------------------------------------------------
TypeOK ==
    /\ now \in Times
    /\ stored \in [Times -> Candle \cup {Never}]
    /\ buffer \in [Pairs -> Seq(Entry)]
    /\ pc \in {"idle", "poll", "store", "push"}
    /\ since \in Times \cup {NoTime}
    /\ pair \in Pairs
    /\ from \in Times
    /\ to \in Times
    /\ polledAt \in Times

(***************************************************************************)
(* Only the newest candle of the table may be one that was still forming:  *)
(* all older ones have their final values and are marked closed, whatever  *)
(* syncs were cut short and whichever pair the coin was resolved to.       *)
(***************************************************************************)
SettledBehindNewest ==
    \A t, u \in Held : t < u => stored[t].final /\ stored[t].closed

(* The table has no holes, however long the engine was down.               *)
NoHoles ==
    \A t, u \in Held : \A v \in t .. u : v \in Held

(***************************************************************************)
(* A pair's list runs from newer to older candles, the later version of a  *)
(* candle before the earlier one: who reads it from its head sees every    *)
(* candle's best version first.                                            *)
(***************************************************************************)
BufferNewestFirst ==
    \A p \in Pairs : \A i, j \in 1 .. Len(buffer[p]) :
        LET e == buffer[p][i]
            f == buffer[p][j]
        IN  i < j => e.at > f.at \/ (e.at = f.at /\ (f.final => e.final))

(* What is pushed is in the table, in a version at least as late.          *)
BufferBackedByStore ==
    \A p \in Pairs : \A i \in 1 .. Len(buffer[p]) :
        LET e == buffer[p][i]
        IN  e.at \in Held /\ (e.final => stored[e.at].final)

(***************************************************************************)
(* For its readers the table is a series of candles that grows at its      *)
(* newer end only, a page at a time from its newest candle on: no sync,    *)
(* finished, failed or repeated after a crash, takes back final values.    *)
(***************************************************************************)
Settled == {t \in Held : stored[t].final /\ stored[t].closed}

Series == INSTANCE CandleSeries WITH held <- Held, settled <- Settled

KeepsSeries == Series!SeriesSpec
=============================================================================
