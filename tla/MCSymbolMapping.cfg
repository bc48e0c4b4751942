\* One base asset, three quotes, two coins of one symbol.
CONSTANTS
    usdt = usdt
    usdc = usdc
    eur = eur
    bitcoin = bitcoin
    batcat = batcat
    Pairs = {usdt, usdc, eur}
    Coins = {bitcoin, batcat}
    Named <- BothCoins
    Quote <- Priority
    Base <- OneBase
SPECIFICATION Spec
SYMMETRY CoinSymmetry
INVARIANT SyncedIsTrue
INVARIANT PrimaryRight
