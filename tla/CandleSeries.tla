---------------------------- MODULE CandleSeries ----------------------------
(***************************************************************************)
(* What the OHLCV sync promises those who read a series from the table,    *)
(* without exchange, pages, lists or failures: a row of candles that grows *)
(* at its newer end alone, all at once, from its newest candle on.  What   *)
(* has its final values keeps them, and only the newest may lack them.     *)
(***************************************************************************)
EXTENDS Integers

VARIABLES
    held,           \* the candles there are
    settled         \* those that have their final values

seriesVars == <<held, settled>>

SeriesInit == held = {} /\ settled = {}

(* Candles first to last come in, the newest known one among them.         *)
Grow(first, last) ==
    /\ first <= last
    /\ held # {} => first \in held /\ \A t \in held : t <= first
    /\ held' = held \cup (first .. last)
    /\ settled' \in {settled \cup (first .. last - 1), settled \cup (first .. last)}

SeriesNext == \E first, last \in held' : Grow(first, last)

SeriesSpec == SeriesInit /\ [][SeriesNext]_seriesVars
=============================================================================
