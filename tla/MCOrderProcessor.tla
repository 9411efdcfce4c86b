-------------------------- MODULE MCOrderProcessor --------------------------
\* Command identities are interchangeable.
EXTENDS OrderProcessor, TLC

IdSymmetry == Permutations(Ids)
=============================================================================
