--------------------------- MODULE MCArbitrageScan ---------------------------
(* Two coins, one pair of exchanges, cooldowns of one or two ticks.        *)
EXTENDS ArbitrageScan

CONSTANT pair
=============================================================================
