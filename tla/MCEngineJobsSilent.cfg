\* Nothing is assumed of Binance: it may fall silent.
CONSTANTS
    Jobs = {arbitrage, news}
    SessionLimit = 2
SPECIFICATION FairSpec
\* The engine stops for good once it has exited.
CHECK_DEADLOCK FALSE
PROPERTY SessionsEnd
