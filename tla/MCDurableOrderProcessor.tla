----------------------- MODULE MCDurableOrderProcessor -----------------------
\* Two processes and the commands whose order matters: the two fills of an
\* order of two, a cancel, and the transition that raises in between.
EXTENDS DurableOrderProcessor, TLC

Commands == {[order |-> o, target |-> t, quantity |-> 0] :
                o \in Orders, t \in {"CANCELLED", "FILLED"}}
       \cup {[order |-> o, target |-> "FILL", quantity |-> 1] : o \in Orders}
Symmetry == Permutations(Ids) \cup Permutations(Processes)
=============================================================================
