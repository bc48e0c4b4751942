\* Late results of two callers race the breaker of one upstream.
CONSTANTS
    r1 = r1
    r2 = r2
    kanata = kanata
    ryzumi = ryzumi
    search = search
    Requests <- TwoRequests
    Providers = {kanata, ryzumi}
    Enabled = {ryzumi}
    Keys = {search}
    Chain <- KanataFirst
    Timeout <- OneTick
    CacheTTL <- NothingCached
    StrictKeys <- NoKeys
    Statuses = {200, 503}
    FailThreshold = 2
    Cooldown = 2
SPECIFICATION FairAuditSpec
INVARIANT FailuresBounded
PROPERTY BackoffUnlessPardoned
PROPERTY NothingWaits
