\* Three callers of one resource: a late delete can hit a third one's key.
CONSTANTS
    c1 = c1
    c2 = c2
    c3 = c3
    article = article
    Callers = {c1, c2, c3}
    Resources = {article}
    NumProviders = 2
    TTL = 2
SPECIFICATION FairSpec
INVARIANT OverlapNeedsOverrun
PROPERTY CallersGetThrough
