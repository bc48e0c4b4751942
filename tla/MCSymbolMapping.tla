-------------------------- MODULE MCSymbolMapping --------------------------
(* Three quotes of one base asset, whose symbol two coins share.           *)
EXTENDS SymbolMapping, TLC

CONSTANTS usdt, usdc, eur, bitcoin, batcat

BothCoins == [p \in Pairs |-> {bitcoin, batcat}]
OneBase == [p \in Pairs |-> "BTC"]
Priority == usdt :> 0 @@ usdc :> 1 @@ eur :> 100
CoinSymmetry == Permutations(Coins)
=============================================================================
