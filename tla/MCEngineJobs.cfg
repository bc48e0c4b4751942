\* Two periodic jobs beside a stream that is never silent for good; or the
\* jobs of the news, with one fault of each, and two of the price impact.
CONSTANTS
    arbitrage = arbitrage
    news = news
    Jobs = {arbitrage, news}
    SessionLimit = 2
    FeedOrder <- MCOrder
    Telegrams = {"channel"}
    Editions <- MCEditions
    MaxItems = 3
    BatchLimit = 2
    PullFaults = 1
    Drafts = {1, 2, 3}
    Broken = {3}
    ArchiveLimit = 2
    ArchiveFaults = 1
    Mentions <- MCMentions
    Dates <- MCDates
    Priceless = {1}
    TrackLimit = 2
    Horizon = 6
    ImpactFaults = 2
SPECIFICATION MCSpec
INVARIANT ConnectionTracked
INVARIANT NoJobMissing
INVARIANT AnalysisSound
INVARIANT PricesAligned
INVARIANT HistoryBacked
PROPERTY EngineEnds
PROPERTY NewsFlows
PROPERTY ExportsSound
PROPERTY OthersExported
PROPERTY RowsComplete
\* The engine stops for good once it has exited.
CHECK_DEADLOCK FALSE
