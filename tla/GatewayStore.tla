---------------------------- MODULE GatewayStore ----------------------------
(***************************************************************************)
(* The gateway's tables and the transactions of PostgresGatewayStore       *)
(* (channel_gateway/durable.py): the inbox and its task queue with fenced  *)
(* leases, and the outbox with its log of delivery attempts.               *)
(*                                                                         *)
(* Each action is one transaction, except complete_task: its UPDATE reads  *)
(* the lease in the snapshot it started with and then waits for the row,   *)
(* so that the caller of Complete passes what the lease said before.       *)
(*                                                                         *)
(* Every gateway process uses the worker names "gateway-inbound" and       *)
(* "gateway-outbox", so a lease is told apart by its fencing token only,   *)
(* and a delivery lease not at all.  Claims take every claimable row: the  *)
(* limit of ten and SKIP LOCKED only defer a row to the next claim.        *)
(***************************************************************************)
EXTENDS Integers, Sequences

CONSTANTS Events,       \* channel events, by deduplication key
          Bodies,       \* what a notification can say
          MaxAttempts,  \* fao.outbox.max_attempts
          None

VARIABLES task,         \* event -> task_state, "NONE" before ingest
          lease,        \* event -> its fao.task_lease row or None
          outbox,       \* notification -> its fao.outbox row or None
          log           \* notification -> its fao.outbox_delivery_attempt states

tasks  == <<task, lease>>
notices == <<outbox, log>>
store  == <<task, lease, outbox, log>>

ASSUME AttemptsAssumption == MaxAttempts \in Nat \ {0}

\* The idempotency keys an event's task can give a notification.
Notices == Events \X {"reply", "failed"}

TaskStates    == {"NONE", "QUEUED", "RUNNING", "COMPLETED", "FAILED"}
Lease         == [token : Nat \ {0}, lapsed : BOOLEAN]
NoticeStates  == {"PENDING", "IN_FLIGHT", "RETRY", "DELIVERED", "DEAD"}
Notice        == [state : NoticeStates, body : Bodies, attempts : Nat,
                  lease : {"none", "live", "lapsed"}, due : BOOLEAN]
AttemptStates == {"IN_FLIGHT", "DELIVERED", "RETRY", "DEAD", "LOST_LEASE"}

\* A row that is not there is told apart from every row.
ASSUME AbsentAssumption == None \notin Lease /\ None \notin Notice

Init ==
    /\ task = [e \in Events |-> "NONE"]
    /\ lease = [e \in Events |-> None]
    /\ outbox = [n \in Notices |-> None]
    /\ log = [n \in Notices |-> << >>]

InFlight(n) == outbox[n] # None /\ outbox[n].state = "IN_FLIGHT"

-----------------------------------------------------------------------------
(* The inbox and its tasks *)

\* ingest(): the inbox row and its task, once; a redelivered event finds both.
Ingest(e) ==
    /\ task' = IF task[e] = "NONE" THEN [task EXCEPT ![e] = "QUEUED"] ELSE task
    /\ UNCHANGED <<lease, notices>>

Claimable == {e \in Events : /\ task[e] = "QUEUED"
                             /\ lease[e] # None => lease[e].lapsed}
NextToken(e) == IF lease[e] = None THEN 1 ELSE lease[e].token + 1

ClaimTasks ==
    /\ task' = [e \in Events |-> IF e \in Claimable THEN "RUNNING" ELSE task[e]]
    /\ lease' = [e \in Events |-> IF e \in Claimable
                                  THEN [token |-> NextToken(e), lapsed |-> FALSE]
                                  ELSE lease[e]]
    /\ UNCHANGED notices

Leased(e, token) == lease[e] # None /\ lease[e].token = token

\* MUTANT of Complete: the lease is deleted whoever holds it.
CompleteForeign(e, token, held, state) ==
    /\ task' = IF held THEN [task EXCEPT ![e] = state] ELSE task
    /\ lease' = [lease EXCEPT ![e] = None]
    /\ UNCHANGED notices

\* complete_task(): the update goes by the lease as it was, the deletion by
\* the lease as it is.
Complete(e, token, held, state) ==
    /\ task' = IF held THEN [task EXCEPT ![e] = state] ELSE task
    /\ lease' = IF held /\ Leased(e, token) THEN [lease EXCEPT ![e] = None] ELSE lease
    /\ UNCHANGED notices

-----------------------------------------------------------------------------
(* The outbox *)

\* enqueue_notification(): inserted once; another body under its key raises.
Conflicts(n, body) == outbox[n] # None /\ outbox[n].body # body
Enqueue(n, body) ==
    /\ outbox' = IF outbox[n] # None THEN outbox
                 ELSE [outbox EXCEPT ![n] = [state |-> "PENDING", body |-> body, attempts |-> 0,
                                             lease |-> "none", due |-> TRUE]]
    /\ UNCHANGED <<tasks, log>>

Deliverable == {n \in Notices : /\ outbox[n] # None
                                /\ outbox[n].state \in {"PENDING", "RETRY"} /\ outbox[n].due}

ClaimOutbox ==
    /\ outbox' = [n \in Notices |->
          IF n \in Deliverable
          THEN [outbox[n] EXCEPT !.state = "IN_FLIGHT", !.attempts = @ + 1, !.lease = "live"]
          ELSE outbox[n]]
    /\ log' = [n \in Notices |-> IF n \in Deliverable THEN Append(log[n], "IN_FLIGHT") ELSE log[n]]
    /\ UNCHANGED tasks

\* The row leaves flight, and so does the attempt of its number in the log.
Landed(n, state, due) ==
    /\ outbox' = [outbox EXCEPT ![n] = [@ EXCEPT !.state = state, !.lease = "none", !.due = due]]
    /\ log' = [log EXCEPT ![n][outbox[n].attempts] = IF @ = "IN_FLIGHT" THEN state ELSE @]

MarkDelivered(n) ==
    /\ IF InFlight(n) THEN Landed(n, "DELIVERED", TRUE) ELSE UNCHANGED notices
    /\ UNCHANGED tasks

\* MUTANT of MarkFailed: the delivery state is not looked at.
MarkFailedLanded(n) ==
    /\ IF outbox[n].attempts >= MaxAttempts THEN Landed(n, "DEAD", TRUE)
       ELSE Landed(n, "RETRY", FALSE)
    /\ UNCHANGED tasks

\* mark_failed(): dead after the last attempt, otherwise due again later.
MarkFailed(n) ==
    /\ IF ~ InFlight(n) THEN UNCHANGED notices
       ELSE IF outbox[n].attempts >= MaxAttempts THEN Landed(n, "DEAD", TRUE)
       ELSE Landed(n, "RETRY", FALSE)
    /\ UNCHANGED tasks

\* The backoff of a failed delivery passes.
BecomeDue(n) ==
    /\ outbox[n] # None /\ ~ outbox[n].due
    /\ outbox' = [outbox EXCEPT ![n] = [@ EXCEPT !.due = TRUE]]
    /\ UNCHANGED <<tasks, log>>

-----------------------------------------------------------------------------
(* Leases lapse, and recovery returns what they covered *)

LapseTask(e) ==
    /\ lease[e] # None /\ ~ lease[e].lapsed
    /\ lease' = [lease EXCEPT ![e] = [@ EXCEPT !.lapsed = TRUE]]
    /\ UNCHANGED <<task, notices>>

LapseNotice(n) ==
    /\ outbox[n] # None /\ outbox[n].lease = "live"
    /\ outbox' = [outbox EXCEPT ![n] = [@ EXCEPT !.lease = "lapsed"]]
    /\ UNCHANGED <<tasks, log>>

Lost == {n \in Notices : InFlight(n) /\ outbox[n].lease = "lapsed"}
Requeued == [e \in Events |-> IF task[e] = "RUNNING" /\ lease[e] # None /\ lease[e].lapsed
                              THEN "QUEUED" ELSE task[e]]
Returned == [n \in Notices |-> IF n \in Lost
                               THEN [outbox[n] EXCEPT !.state = "RETRY", !.lease = "none"]
                               ELSE outbox[n]]
Closed == [n \in Notices |-> IF n \in Lost THEN [log[n] EXCEPT ![outbox[n].attempts] = "LOST_LEASE"]
                             ELSE log[n]]

\* MUTANT of RecoverExpired: the attempt of a lost lease stays open.
RecoverUnlogged ==
    /\ outbox' = Returned /\ task' = Requeued
    /\ UNCHANGED <<log, lease>>

\* MUTANT of RecoverExpired: only the outbox is recovered.
RecoverNotices ==
    /\ outbox' = Returned /\ log' = Closed
    /\ UNCHANGED tasks

\* MUTANT of RecoverExpired: only the tasks are recovered.
RecoverTasks ==
    /\ task' = Requeued
    /\ UNCHANGED <<lease, notices>>

\* recover_expired(): the task keeps its lease row, for the next token.
RecoverExpired ==
    /\ outbox' = Returned
    /\ log' = Closed
    /\ task' = Requeued
    /\ UNCHANGED lease
=============================================================================
