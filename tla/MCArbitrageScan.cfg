\* Two coins whose rows an operator may change at any time.
CONSTANTS
    pair = pair
    Pairs = {pair}
    NumCoins = 2
    MaxCooldown = 2
SPECIFICATION FairSpec
INVARIANT RealertNeedsTrouble
INVARIANT QuietOnlyAfterAlert
PROPERTY ScansFinish
