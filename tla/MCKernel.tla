------------------------------ MODULE MCKernel ------------------------------
(***************************************************************************)
(* The risk budget ledger and the order command processor.  The two share  *)
(* no state, so a behaviour works on the one or on the other: the run      *)
(* checks both at the cost of their sum.  Each treats its keys, and its    *)
(* command identities, alike.  The two sets have the same members here:    *)
(* one of the two parts is always empty, so that one permutation of them   *)
(* is as good as one for each.                                             *)
(***************************************************************************)
EXTENDS RiskBudgetLedger, OrderProcessor, TLC

KernelSymmetry == Permutations(Keys)

MCInit == LedgerInit /\ Init
MCNext ==
    \/ proc = Empty /\ LedgerNext /\ UNCHANGED proc
    \/ LedgerInit /\ Next /\ UNCHANGED rows
MCSpec == MCInit /\ [][MCNext]_<<rows, proc>>
=============================================================================
