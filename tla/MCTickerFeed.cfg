\* Two feeds of one exchange, two pairs of one coin; three exchanges.
CONSTANTS
    stream = stream
    poll = poll
    binance = binance
    kraken = kraken
    okx = okx
    btcusdt = btcusdt
    btcusdc = btcusdc
    bitcoin = bitcoin
    Feeds = {stream, poll}
    BestEffort = {stream}
    Exchanges = {binance, kraken, okx}
    Symbols = {btcusdt, btcusdc}
    Coins = {bitcoin}
    CoinOf <- Mapped
    Source <- BothFromBinance
    Quotes <- QuoteSet
    Deep = {binance, kraken}
    MinSpread = 50
    MaxAge = 1
    PriceTTL = 1
    Messages <- OneOrTwo
    MaxClock = 3
SPECIFICATION MCSpec
INVARIANT LatestIsYoungest
INVARIANT PricesRight
PROPERTY BatchesFinish
