------------------------- MODULE MCRiskBudgetLedger -------------------------
\* Model values and symmetry for checking RiskBudgetLedger: the operations
\* treat all reservation keys alike.
EXTENDS RiskBudgetLedger, TLC

KeySymmetry == Permutations(Keys)
=============================================================================
