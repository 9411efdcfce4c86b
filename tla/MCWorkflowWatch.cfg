SPECIFICATION MCSpec
CONSTANTS
    p1 = p1
    p2 = p2
    p3 = p3
    w1 = w1
    w2 = w2
    Process = {p1, p2, p3}
    WorkerId = {w1, w2}
    NameOf <- MCNameOf
    NoWorker = NoWorker
    Last = 2
    MaxFence = 4
    MaxTrouble = 2
    e1 = e1
    e2 = e2
    Episode = {e1, e2}
    regime = regime
    market = market
    research = research
    critic = critic
    Step = {regime, market, research, critic}
    Critic = critic
    Rank <- MCRank
    Deps <- MCDeps
    Results = {"COMPLETED", "FAILED"}
    MaxParallel = 1
    DeadlineAt <- MCDeadlineAt
    ExpiresAt <- MCExpiresAt
    Horizon = 2
    Watcher = {a1, a2}
    Watched = {x1}
    MaxWatchTrouble = 1
INVARIANT RequestedIsReduced
CHECK_DEADLOCK FALSE
