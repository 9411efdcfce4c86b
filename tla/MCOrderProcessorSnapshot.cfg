SPECIFICATION Spec
CONSTANTS
    Orders = {o1}
    Ids = {c1, c2, c3}
    Quantity = 2
    MaxSequence = 4
    None = None
SYMMETRY IdSymmetry
INVARIANT SnapshotRestorable
