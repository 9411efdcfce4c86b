-------------------------- MODULE MCSubmitTradePlan --------------------------
\* A small account for SubmitTradePlan: a plan that fills a ceiling of two by
\* itself and one that does not, evidence that expires early and late.
EXTENDS SubmitTradePlan, TLC

CONSTANTS big, early

Losses     == [p \in Plans |-> IF p = big THEN 2 ELSE 1]
Expiries   == [s \in Snapshots |-> IF s = early THEN 1 ELSE Horizon]
AttemptSymmetry == Permutations(Attempts)
=============================================================================
