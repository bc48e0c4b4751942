\* Two concurrent requests over a two-provider chain with a cache,
\* or one request on its way down the chain of its route.
CONSTANTS
    r1 = r1
    r2 = r2
    ryzumi = ryzumi
    nexure = nexure
    search = search
    islamic = islamic
    unknown = unknown
    Requests <- TwoRequests
    Providers = {ryzumi, nexure}
    Enabled = {ryzumi}
    Keys = {search, islamic, unknown}
    Chain <- FallbackChain
    Timeout <- OneTick
    CacheTTL <- SearchCached
    StrictKeys = {islamic}
    Statuses = {200, 400, 503}
    FailThreshold = 2
    Cooldown = 2
SPECIFICATION MCSpec
SYMMETRY RequestSymmetry
INVARIANT BreakerConsistent
INVARIANT CacheSound
INVARIANT QuestionCarried
INVARIANT RoutesKnown
PROPERTY KeepsPromise
