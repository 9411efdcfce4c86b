------------------------------ MODULE MCRecords ------------------------------
(***************************************************************************)
(* Model values for the four stores of durable facts: the submission chain *)
(* in PostgreSQL, the audited account, the manual test approvals and the   *)
(* protective actions.  They share nothing and are checked side by side,   *)
(* each one alone, with the other three in their initial states: the       *)
(* states of the run are those of the four, not their product.             *)
(*                                                                         *)
(* The submission: a plan in the scope of the mandate and one outside it,  *)
(* two fixtures and a budget for one of them, so that a reservation, an    *)
(* order, an approval, a pause and a manual run compete.                   *)
(* The account: two longs opened on two dates, a short that may close one  *)
(* of them or stand against both, a settlement between any two of them,    *)
(* and an episode that another process writes into the same file.          *)
(***************************************************************************)
EXTENDS DurableSubmission, AuditedAccount, ManualApprovals, ProtectiveActions

CONSTANTS a1, x1, f1, f2, t1, t2, trader, k1, e1, s1, s2, r1, r2

Fill(id, direction, quantity, price, fee, date) ==
    [id |-> id, direction |-> direction, quantity |-> quantity, price |-> price, fee |-> fee, date |-> date]

MCLoss == [p \in Plan \union Exception \union Fixture |-> 1]
MCFillFact == {Fill(1, "LONG", 2, 10, 1, 1), Fill(2, "LONG", 1, 12, 0, 2), Fill(3, "SHORT", 1, 11, 0, 2)}
MCSymmetry == Permutations(Txn) \union Permutations(Fixture)

MCInit == SubmissionInit /\ AuditInit /\ ApprovalInit /\ ProtectionInit

MCNext ==
    \/ AuditInit /\ ApprovalInit /\ ProtectionInit /\ SubmissionNext
       /\ UNCHANGED <<auditVars, approvalVars, protectionVars>>
    \/ SubmissionInit /\ ApprovalInit /\ ProtectionInit /\ AuditNext
       /\ UNCHANGED <<submissionVars, approvalVars, protectionVars>>
    \/ SubmissionInit /\ AuditInit /\ ProtectionInit /\ ApprovalNext
       /\ UNCHANGED <<submissionVars, auditVars, protectionVars>>
    \/ SubmissionInit /\ AuditInit /\ ApprovalInit /\ ProtectionNext
       /\ UNCHANGED <<submissionVars, auditVars, approvalVars>>

MCSpec == MCInit /\ [][MCNext]_<<submissionVars, auditVars, approvalVars, protectionVars>>
=============================================================================
