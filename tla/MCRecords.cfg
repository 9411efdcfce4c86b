SPECIFICATION MCSpec
CONSTANTS
    a1 = a1
    x1 = x1
    f1 = f1
    f2 = f2
    t1 = t1
    t2 = t2
    trader = trader
    k1 = k1
    e1 = e1
    s1 = s1
    s2 = s2
    r1 = r1
    r2 = r2
    Plan = {a1}
    Exception = {x1}
    Fixture = {f1, f2}
    Txn = {t1, t2}
    Loss <- MCLoss
    Budget = 1
    MaxMandate = 3
    Trader = trader
    Clerk = {k1}
    Episode = {e1}
    InitialCash = 20
    FillFact <- MCFillFact
    Mark = {10, 13}
    Date = {1, 2}
    Amount = {5}
    MaxEvents = 3
    MaxFaults = 1
    Store = {s1, s2}
    NoStore = NoStore
    MaxMishaps = 2
    Key = {r1, r2}
    MaxValidations = 4
    MaxFailures = 3
SYMMETRY MCSymmetry
INVARIANTS
    ChainsWhole
    BudgetHeld
    StoppedHoldsNothing
    OneOrderPerPlan
    EquityKept
    EpisodesWhole
    Reconciles
    ShadowRunsOnce
    OneActionPerRequest
PROPERTIES
    StoppedCreatesNoOrder
CHECK_DEADLOCK FALSE
