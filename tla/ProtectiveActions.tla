-------------------------- MODULE ProtectiveActions --------------------------
(***************************************************************************)
(* The DurableProtectiveActionRegistry of execution_simulation/            *)
(* protection.py in the one process that owns its file: an action for each *)
(* idempotency key, in memory and, with every call that returns, on disk.  *)
(*                                                                         *)
(* An action is a number: its id is made from its validation's, which is   *)
(* new for each validation.  A key that comes with another request raises  *)
(* and leaves everything as it is.                                         *)
(***************************************************************************)
EXTENDS Naturals, FiniteSets

CONSTANTS Key,           \* the idempotency keys of the reduction requests
          MaxValidations, \* bound: the validations made
          MaxFailures    \* bound: failed writes and restarts

ASSUME ProtectionAssumption == MaxValidations \in Nat /\ MaxFailures \in Nat

VARIABLES actions,       \* the registry in memory, 0 where there is no action
          stored,        \* the registry in the file
          issued,        \* the actions callers were given for each key
          validations,   \* the validations made so far
          failures       \* failed writes and restarts so far

protectionVars == <<actions, stored, issued, validations, failures>>

ProtectionInit ==
    /\ actions = [k \in Key |-> 0]
    /\ stored = actions
    /\ issued = [k \in Key |-> {}]
    /\ validations = 0
    /\ failures = 0

\* ProtectiveActionRegistry.issue(): a new validation makes a new action,
\* where there is none yet.
WithAction(k) == IF actions[k] = 0 THEN [actions EXCEPT ![k] = validations + 1] ELSE actions

Validates ==
    /\ validations < MaxValidations
    /\ validations' = validations + 1

\* MUTANT of Persisted: only a call that has made an action writes the file.
PersistedWhenNew(k) == IF actions[k] = 0 THEN WithAction(k) ELSE stored
Persisted(k) == WithAction(k)

Issue(k) ==
    /\ Validates
    /\ actions' = WithAction(k)
    /\ stored' = Persisted(k)
    /\ issued' = [issued EXCEPT ![k] = @ \union {actions'[k]}]
    /\ UNCHANGED failures

\* The file cannot be written: issue() raises and the memory keeps the action.
IssueFails(k) ==
    /\ Validates
    /\ actions' = WithAction(k)
    /\ failures < MaxFailures /\ failures' = failures + 1
    /\ UNCHANGED <<stored, issued>>

Restart ==
    /\ failures < MaxFailures /\ failures' = failures + 1
    /\ actions' = stored
    /\ UNCHANGED <<stored, issued, validations>>

ProtectionNext == Restart \/ \E k \in Key : Issue(k) \/ IssueFails(k)
ProtectionSpec == ProtectionInit /\ [][ProtectionNext]_protectionVars
-----------------------------------------------------------------------------
(***************************************************************************)
(* A request that was answered keeps its action: every later answer names  *)
(* the same one, through failed writes and restarts.                       *)
(* (DurableProtectiveActionRegistry.issue writes on every call.)           *)
(***************************************************************************)
OneActionPerRequest ==
    \A k \in Key : issued[k] # {} => issued[k] = {stored[k]} /\ actions[k] = stored[k]
=============================================================================
