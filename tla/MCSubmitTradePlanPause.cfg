SPECIFICATION Spec
CONSTANTS
    big = big
    early = early
    None = None
    Attempts = {a1, a2}
    Plans = {small, big}
    Snapshots = {early, late}
    LossOf <- Losses
    ExpiryOf <- Expiries
    Ceiling = 2
    Horizon = 1
    MaxVersion = 2
    MaxEpoch = 0
SYMMETRY AttemptSymmetry
PROPERTY PausedMandateCreatesNoOrder
