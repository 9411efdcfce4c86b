SPECIFICATION Spec
CONSTANTS
    Orders = {o1}
    Ids = {c1, c2}
    Quantity = 2
    Processes = {p1, p2}
    Inputs <- Commands
    MaxSequence = 2
    None = None
SYMMETRY Symmetry
INVARIANT AckedIsDurable
PROPERTY FileStaysRestorable
PROPERTY ReplacesExactlyOnce
