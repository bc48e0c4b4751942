\* Pages shorter than an outage, lists shorter than the run.
CONSTANTS
    btcusdt = btcusdt
    btcusdc = btcusdc
    Pairs = {btcusdt, btcusdc}
    PageSize = 2
    BufferCap = 2
    Horizon = 3
    MaxBuffer = 3
SPECIFICATION Spec
SYMMETRY PairSymmetry
INVARIANT SettledBehindNewest
INVARIANT NoHoles
INVARIANT BufferNewestFirst
INVARIANT BufferBackedByStore
PROPERTY KeepsSeries
