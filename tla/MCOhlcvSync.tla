---------------------------- MODULE MCOhlcvSync ----------------------------
(* Two pairs of one coin over a handful of candles.                        *)
EXTENDS OhlcvSync, TLC

CONSTANTS btcusdt, btcusdc

PairSymmetry == Permutations(Pairs)
=============================================================================
