SPECIFICATION MCSpec
CONSTANTS
    Keys = {x1, x2, x3}
    Ceiling = 2
    Horizon = 2
    MaxVersion = 2
    Orders = {o1}
    Ids = {x1, x2, x3}
    Quantity = 2
    MaxSequence = 4
    None = None
SYMMETRY KernelSymmetry
INVARIANTS HeldWithinCeiling FillsAddUp TerminalIsLast NoSequenceTwice
PROPERTIES SettledStaysSettled ImplementsInbox
