\* Clients that hang up against the breaker of an upstream that does not fail.
CONSTANTS
    r1 = r1
    r2 = r2
    kanata = kanata
    ryzumi = ryzumi
    search = search
    Requests <- TwoRequests
    Providers = {ryzumi}
    Enabled = {ryzumi}
    Keys = {search}
    Chain <- RyzumiAlone
    Timeout <- OneTick
    CacheTTL <- NothingCached
    StrictKeys <- NoKeys
    Statuses = {200, 503}
    FailThreshold = 2
    Cooldown = 2
SPECIFICATION AuditSpec
SYMMETRY RequestSymmetry
INVARIANT OpenedByProvider
