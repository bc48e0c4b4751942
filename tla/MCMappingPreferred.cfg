\* A halted market that the builder still prefers.
CONSTANTS
    usdt = usdt
    usdc = usdc
    eur = eur
    bitcoin = bitcoin
    batcat = batcat
    Pairs = {usdt, usdc, eur}
    Coins = {bitcoin, batcat}
    Named <- BothCoins
    Quote <- Priority
    Base <- OneBase
SPECIFICATION Spec
SYMMETRY CoinSymmetry
INVARIANT PreferredQuote
