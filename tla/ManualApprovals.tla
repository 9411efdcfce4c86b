--------------------------- MODULE ManualApprovals ---------------------------
(***************************************************************************)
(* One approval in the ManualTestApprovalStore of decision/manual_test.py, *)
(* the file behind the manual-test commands of cli.py.  Every operation    *)
(* takes the file's flock, reloads the file when there is one, changes the *)
(* record in memory and replaces the file by what the memory holds.  The   *)
(* stores of several processes live on between operations, with what they  *)
(* last loaded.                                                            *)
(*                                                                         *)
(* The scope, the report and the times are left out: the approval lapses   *)
(* at some point, seen by all callers alike.                               *)
(***************************************************************************)
EXTENDS Naturals, FiniteSets

CONSTANTS Store,         \* the processes, each with a store of its own
          NoStore,       \* the flock is free
          MaxMishaps     \* bound: crashes and failed writes

ASSUME ApprovalAssumption == NoStore \notin Store /\ MaxMishaps \in Nat

VARIABLES record,        \* the file: the approval's status and its shadow's
          lapsed,        \* the approval's time has passed
          known,         \* the record each store has in memory
          consumed,      \* the stores whose registry has emitted the basis
          flock,         \* who holds the file's lock
          command,       \* what each process is doing
          runs,          \* the shadow episodes that were let run
          mishaps        \* crashes and failed writes so far

approvalVars == <<record, lapsed, known, consumed, flock, command, runs, mishaps>>

NoRecord == [status |-> "NONE", shadow |-> "NONE"]
InStatus(status) == [status |-> status, shadow |-> "NONE"]
Shadowed(shadow) == [status |-> "CONSUMED", shadow |-> shadow]
Commands == {"request", "GRANTED", "REJECTED", "expire", "consume", "claim"}

ApprovalInit ==
    /\ record = NoRecord
    /\ lapsed = FALSE
    /\ known = [s \in Store |-> NoRecord]
    /\ consumed = {}
    /\ flock = NoStore
    /\ command = [s \in Store |-> "none"]
    /\ runs = 0
    /\ mishaps = 0

Lapse == ~lapsed /\ lapsed' = TRUE /\ UNCHANGED <<record, known, consumed, flock, command, runs, mishaps>>

\* MUTANT of Refreshed: the store goes by what it loaded before.
NotRefreshed(s) == known[s]
Refreshed(s) == IF record = NoRecord THEN known[s] ELSE record

\* _process_locked: the lock and the reload before the method.  A shadow is
\* begun only by a store that has seen the approval consumed.
Begin(s, method) ==
    /\ flock = NoStore
    /\ IF command[s] = "run" THEN method = "complete" ELSE command[s] = "none" /\ method \in Commands
    /\ method = "claim" => known[s].status = "CONSUMED"
    /\ flock' = s
    /\ known' = [known EXCEPT ![s] = Refreshed(s)]
    /\ command' = [command EXCEPT ![s] = method]
    /\ UNCHANGED <<record, lapsed, consumed, runs, mishaps>>

\* A lapsed approval is expired by the next call that finds it; the registry
\* of a store that has emitted the basis before raises or refuses instead.
Lapsed(s) == lapsed /\ known[s].status \in {"REQUESTED", "GRANTED"}
Expires(s) == Lapsed(s) /\ (command[s] = "consume" => s \notin consumed)

Claimable(r) == r = InStatus("CONSUMED")

\* The record after a method, the same one when it refuses, replays or raises.
After(s) ==
    LET r == known[s]
        method == command[s]
    IN  IF method = "request" /\ r = NoRecord THEN InStatus("REQUESTED")
        ELSE IF method \in {"GRANTED", "REJECTED"} /\ r.status = "REQUESTED" /\ ~lapsed THEN InStatus(method)
        ELSE IF method \in {"expire", "consume"} /\ Expires(s) THEN InStatus("EXPIRED")
        ELSE IF method = "consume" /\ r.status = "GRANTED" /\ ~lapsed THEN InStatus("CONSUMED")
        ELSE IF method = "claim" /\ Claimable(r) THEN Shadowed("CLAIMED")
        ELSE IF method = "complete" /\ r.shadow = "CLAIMED" THEN Shadowed("COMPLETED")
        ELSE r

Emitted(s) ==
    IF command[s] = "consume" /\ After(s) = InStatus("CONSUMED") THEN consumed \union {s} ELSE consumed
Changes(s) == After(s) # known[s]

\* The method returns: the caller of a granted claim runs the shadow episode.
Answer(s) ==
    /\ flock = s
    /\ known' = [known EXCEPT ![s] = After(s)]
    /\ record' = IF Changes(s) THEN After(s) ELSE record
    /\ consumed' = Emitted(s)
    /\ LET granted == command[s] = "claim" /\ Changes(s)
       IN  /\ command' = [command EXCEPT ![s] = IF granted THEN "run" ELSE "none"]
           /\ runs' = IF granted THEN runs + 1 ELSE runs
    /\ flock' = NoStore
    /\ UNCHANGED <<lapsed, mishaps>>

\* The file cannot be written: the call raises, the memory stays ahead of it.
AnswerFails(s) ==
    /\ flock = s /\ Changes(s)
    /\ mishaps < MaxMishaps /\ mishaps' = mishaps + 1
    /\ known' = [known EXCEPT ![s] = After(s)]
    /\ consumed' = Emitted(s)
    /\ command' = [command EXCEPT ![s] = "none"]
    /\ flock' = NoStore
    /\ UNCHANGED <<record, lapsed, runs>>

\* A process dies, before or after it has replaced the file, and starts again.
Killed(s) ==
    /\ command[s] # "none"
    /\ mishaps < MaxMishaps /\ mishaps' = mishaps + 1
    /\ record' \in IF flock = s /\ Changes(s) THEN {record, After(s)} ELSE {record}
    /\ known' = [known EXCEPT ![s] = record']
    /\ consumed' = consumed \ {s}
    /\ command' = [command EXCEPT ![s] = "none"]
    /\ flock' = IF flock = s THEN NoStore ELSE flock
    /\ UNCHANGED <<lapsed, runs>>

ApprovalNext ==
    \/ Lapse
    \/ \E s \in Store :
          \/ \E method \in Commands \union {"complete"} : Begin(s, method)
          \/ Answer(s) \/ AnswerFails(s) \/ Killed(s)

ApprovalSpec == ApprovalInit /\ [][ApprovalNext]_approvalVars
-----------------------------------------------------------------------------
(***************************************************************************)
(* A consumed approval lets one shadow episode run, for good: not another  *)
(* one after a crash, from a store with an old memory, or because a later  *)
(* command has written the record anew.  (claim_shadow, complete_shadow.)  *)
(***************************************************************************)
ShadowRunsOnce ==
    /\ runs <= 1
    /\ runs = 1 => record.status = "CONSUMED" /\ record.shadow # "NONE"
    /\ record.shadow = "COMPLETED" => runs = 1
=============================================================================
