SPECIFICATION LedgerSpec
CONSTANTS
    Keys = {k1, k2, k3}
    Ceiling = 2
    Horizon = 2
    MaxVersion = 2
SYMMETRY KeySymmetry
INVARIANT UsedAndHeldWithinCeiling
