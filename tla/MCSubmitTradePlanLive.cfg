SPECIFICATION FairSpec
CONSTANTS
    big = big
    early = early
    None = None
    Attempts = {a1, a2}
    Plans = {big}
    Snapshots = {late}
    LossOf <- Losses
    ExpiryOf <- Expiries
    Ceiling = 2
    Horizon = 1
    MaxVersion = 1
    MaxEpoch = 1
PROPERTY SubmissionsEnd
PROPERTY PausesEnd
PROPERTY ImplementsAuthority
