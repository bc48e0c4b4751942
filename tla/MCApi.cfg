\* Two requests that overlap on one session, one nonce, one first sign-in;
\* two for the plan of one user, whose subscriptions come and go.
CONSTANTS
    r1 = r1
    r2 = r2
    a1 = a1
    a2 = a2
    wallet = wallet
    profile = profile
    polygon = polygon
    base = base
    Requests = {r1, r2}
    Wallets = {wallet}
    Profiles = {profile}
    RefreshTTL = 1
    RefreshIdle = 1
    NonceTTL = 0
    MaxTokens = 3
    MaxNonces = 1
    Horizon = 2
    Askers = {a1, a2}
    Gated = {a1}
    Overrides = {"", "premium"}
    Linked <- OneWallet
    Chains <- TwoChains
    CacheTTL = 1
    MaxTerm = 0
SYMMETRY RequestSymmetry
SPECIFICATION MCSpec
INVARIANT PartsTypeOK
INVARIANT EndsAreFinal
INVARIANT LiveTokensCounted
INVARIANT ReuseRevokes
INVARIANT AccountsBacked
INVARIANT PlanJustified
INVARIANT AnswersFresh
