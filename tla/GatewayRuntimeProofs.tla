------------------------ MODULE GatewayRuntimeProofs ------------------------
(***************************************************************************)
(* Theorems about GatewayRuntime, for any number of events and processes,  *)
(* any number of attempts and any number of faults.                        *)
(***************************************************************************)
EXTENDS GatewayRuntime, SequenceTheorems, TLAPS

(***************************************************************************)
(* One row of the outbox, r, with its log of attempts, l.                  *)
(*                                                                         *)
(* The log is not inductive by itself: landing a row that is in flight     *)
(* closes the attempt of its number, which must be there and be the last;  *)
(* and a settled row stays only because it is due, and hence not waiting   *)
(* for a backoff to pass.                                                  *)
(***************************************************************************)
Logged(r, l) ==
    /\ Len(l) = r.attempts
    /\ \A i \in 1 .. Len(l) : l[i] = "IN_FLIGHT" <=> r.state = "IN_FLIGHT" /\ i = Len(l)

Row(r, l) ==
    /\ r \in Notice \cup {None} /\ l \in Seq(AttemptStates)
    /\ r = None => l = << >>
    /\ r # None =>
          /\ Logged(r, l)
          /\ r.state = "IN_FLIGHT" <=> r.lease # "none"
          /\ r.state = "IN_FLIGHT" => r.attempts # 0
          /\ r.state \in {"DELIVERED", "DEAD"} => r.due

\* What the transactions do to a row.
Posted(r, l, r2, l2) ==
    /\ r = None /\ l2 = l
    /\ \E body \in Bodies : r2 = [state |-> "PENDING", body |-> body, attempts |-> 0,
                                  lease |-> "none", due |-> TRUE]

Taken(r, l, r2, l2) ==
    /\ r # None /\ r.state \in {"PENDING", "RETRY"}
    /\ r2 = [r EXCEPT !.state = "IN_FLIGHT", !.attempts = @ + 1, !.lease = "live"]
    /\ l2 = Append(l, "IN_FLIGHT")

Closing(r, l, r2, l2) ==
    /\ r # None /\ r.state = "IN_FLIGHT"
    /\ \E state \in {"DELIVERED", "DEAD", "RETRY"}, due \in BOOLEAN,
          entry \in AttemptStates \ {"IN_FLIGHT"} :
          /\ state = "RETRY" \/ due
          /\ r2 = [r EXCEPT !.state = state, !.lease = "none", !.due = due]
          /\ l2 = [l EXCEPT ![r.attempts] = entry]

Waiting(r, l, r2, l2) ==
    /\ r # None /\ ~ r.due
    /\ r2 = [r EXCEPT !.due = TRUE] /\ l2 = l

Lapsing(r, l, r2, l2) ==
    /\ r # None /\ r.lease = "live"
    /\ r2 = [r EXCEPT !.lease = "lapsed"] /\ l2 = l

Same(r, l, r2, l2) == r2 = r /\ l2 = l

RowMoves(r, l, r2, l2) ==
    \/ Same(r, l, r2, l2) \/ Posted(r, l, r2, l2) \/ Taken(r, l, r2, l2)
    \/ Closing(r, l, r2, l2) \/ Waiting(r, l, r2, l2) \/ Lapsing(r, l, r2, l2)

LEMMA NoticeFields ==
    ASSUME NEW r \in Notice
    PROVE  /\ r # None
           /\ r.state \in NoticeStates /\ r.body \in Bodies /\ r.attempts \in Nat
           /\ r.lease \in {"none", "live", "lapsed"} /\ r.due \in BOOLEAN
BY AbsentAssumption DEF Notice

LEMMA PostedRow ==
    ASSUME NEW r, NEW l, Row(r, l), NEW r2, NEW l2, Posted(r, l, r2, l2)
    PROVE  r2 # None /\ Row(r2, l2)
<1>1. PICK body \in Bodies : r2 = [state |-> "PENDING", body |-> body, attempts |-> 0,
                                   lease |-> "none", due |-> TRUE]
  BY DEF Posted
<1>2. /\ r2 \in Notice /\ r2 # None
      /\ r2.state = "PENDING" /\ r2.attempts = 0 /\ r2.lease = "none"
  <2>1. r2 \in Notice
    BY <1>1 DEF Notice, NoticeStates
  <2> QED BY <1>1, <2>1, AbsentAssumption
<1>3. l2 = << >> /\ l2 \in Seq(AttemptStates) /\ Len(l2) = 0
  BY DEF Posted, Row
<1> QED BY <1>2, <1>3 DEF Row, Logged

LEMMA TakenRow ==
    ASSUME NEW r, NEW l, Row(r, l), NEW r2, NEW l2, Taken(r, l, r2, l2)
    PROVE  /\ r2 # None /\ Row(r2, l2)
           /\ r.state \notin {"DELIVERED", "DEAD"}
<1>1. /\ r \in Notice /\ r.state \in {"PENDING", "RETRY"}
      /\ l \in Seq(AttemptStates) /\ Logged(r, l)
      /\ r2 = [r EXCEPT !.state = "IN_FLIGHT", !.attempts = @ + 1, !.lease = "live"]
      /\ l2 = Append(l, "IN_FLIGHT")
  BY DEF Row, Taken
<1>2. r2 = [state |-> "IN_FLIGHT", body |-> r.body, attempts |-> r.attempts + 1,
            lease |-> "live", due |-> r.due]
  BY <1>1 DEF Notice
<1>3. /\ r2 \in Notice /\ r2 # None /\ r.attempts \in Nat
      /\ r2.state = "IN_FLIGHT" /\ r2.attempts = r.attempts + 1 /\ r2.lease = "live"
  <2>1. r.body \in Bodies /\ r.attempts \in Nat /\ r.due \in BOOLEAN
    BY <1>1 DEF Notice
  <2>2. r2 \in Notice
    BY <1>2, <2>1 DEF Notice, NoticeStates
  <2> QED BY <1>2, <2>1, <2>2, AbsentAssumption
<1>4. /\ l2 \in Seq(AttemptStates) /\ Len(l2) = Len(l) + 1
      /\ l2[Len(l) + 1] = "IN_FLIGHT"
      /\ \A i \in 1 .. Len(l) : l2[i] = l[i]
  BY <1>1 DEF AttemptStates
<1>5. \A i \in 1 .. Len(l) : l[i] # "IN_FLIGHT"
  BY <1>1 DEF Logged
<1>6. Logged(r2, l2)
  <2>1. Len(l) \in Nat /\ Len(l) = r.attempts
    BY <1>1 DEF Logged
  <2>2. \A i \in 1 .. Len(l2) : l2[i] = "IN_FLIGHT" <=> i = Len(l2)
    BY <1>4, <1>5, <2>1
  <2> QED BY <1>3, <1>4, <2>1, <2>2 DEF Logged
<1>7. r2.attempts # 0
  BY <1>3
<1> QED BY <1>1, <1>3, <1>4, <1>6, <1>7 DEF Row

LEMMA ClosingRow ==
    ASSUME NEW r, NEW l, Row(r, l), NEW r2, NEW l2, Closing(r, l, r2, l2)
    PROVE  /\ r2 # None /\ Row(r2, l2)
           /\ r.state \notin {"DELIVERED", "DEAD"}
<1>1. PICK state \in {"DELIVERED", "DEAD", "RETRY"}, due \in BOOLEAN,
           entry \in AttemptStates \ {"IN_FLIGHT"} :
           /\ state = "RETRY" \/ due
           /\ r2 = [r EXCEPT !.state = state, !.lease = "none", !.due = due]
           /\ l2 = [l EXCEPT ![r.attempts] = entry]
  BY DEF Closing
<1>2. /\ r \in Notice /\ r.state = "IN_FLIGHT" /\ r.attempts # 0
      /\ l \in Seq(AttemptStates) /\ Logged(r, l)
  BY DEF Row, Closing
<1>3. r2 = [state |-> state, body |-> r.body, attempts |-> r.attempts, lease |-> "none", due |-> due]
  BY <1>1, <1>2 DEF Notice
<1>4. /\ r2 \in Notice /\ r2 # None
      /\ r2.state = state /\ r2.attempts = r.attempts /\ r2.lease = "none" /\ r2.due = due
  BY <1>2, <1>3, AbsentAssumption DEF Notice, NoticeStates
<1>5. /\ l2 \in Seq(AttemptStates) /\ Len(l2) = Len(l)
      /\ \A i \in 1 .. Len(l) : l2[i] = IF i = r.attempts THEN entry ELSE l[i]
  <2>1. r.attempts \in 1 .. Len(l)
    BY <1>2, NoticeFields DEF Logged
  <2> QED BY <1>1, <1>2, <2>1, ExceptSeq
<1>6. \A i \in 1 .. Len(l) : l2[i] # "IN_FLIGHT"
  BY <1>2, <1>5 DEF Logged
<1>7. Logged(r2, l2)
  BY <1>1, <1>2, <1>4, <1>5, <1>6 DEF Logged
<1> QED BY <1>1, <1>2, <1>4, <1>5, <1>7 DEF Row

LEMMA WaitingRow ==
    ASSUME NEW r, NEW l, Row(r, l), NEW r2, NEW l2, Waiting(r, l, r2, l2)
    PROVE  /\ r2 # None /\ Row(r2, l2)
           /\ r.state \notin {"DELIVERED", "DEAD"}
<1>1. /\ r \in Notice /\ ~ r.due /\ r2 = [r EXCEPT !.due = TRUE] /\ l2 = l
      /\ l \in Seq(AttemptStates) /\ Logged(r, l)
      /\ r.state = "IN_FLIGHT" <=> r.lease # "none"
      /\ r.state = "IN_FLIGHT" => r.attempts # 0
      /\ r.state \in {"DELIVERED", "DEAD"} => r.due
  BY DEF Row, Waiting
<1>2. r2 = [state |-> r.state, body |-> r.body, attempts |-> r.attempts, lease |-> r.lease, due |-> TRUE]
  BY <1>1 DEF Notice
<1>3. /\ r2 \in Notice /\ r2 # None
      /\ r2.state = r.state /\ r2.attempts = r.attempts /\ r2.lease = r.lease /\ r2.due
  BY <1>1, <1>2, AbsentAssumption DEF Notice
<1> QED BY <1>1, <1>3 DEF Row, Logged

LEMMA LapsingRow ==
    ASSUME NEW r, NEW l, Row(r, l), NEW r2, NEW l2, Lapsing(r, l, r2, l2)
    PROVE  /\ r2 # None /\ Row(r2, l2)
           /\ r.state \notin {"DELIVERED", "DEAD"}
<1>1. /\ r \in Notice /\ r.lease = "live" /\ r2 = [r EXCEPT !.lease = "lapsed"] /\ l2 = l
      /\ l \in Seq(AttemptStates) /\ Logged(r, l)
      /\ r.state = "IN_FLIGHT"
      /\ r.attempts # 0
  BY DEF Row, Lapsing
<1>2. r2 = [state |-> r.state, body |-> r.body, attempts |-> r.attempts, lease |-> "lapsed", due |-> r.due]
  BY <1>1 DEF Notice
<1>3. /\ r2 \in Notice /\ r2 # None
      /\ r2.state = r.state /\ r2.attempts = r.attempts /\ r2.lease = "lapsed"
  BY <1>1, <1>2, AbsentAssumption DEF Notice
<1> QED BY <1>1, <1>3 DEF Row, Logged

\* A row stays a good one, is never deleted, and never moves once settled.
LEMMA RowMoved ==
    ASSUME NEW r, NEW l, Row(r, l), NEW r2, NEW l2, RowMoves(r, l, r2, l2)
    PROVE  /\ Row(r2, l2)
           /\ r # None => r2 # None
           /\ r # None /\ r.state \in {"DELIVERED", "DEAD"} => r2 = r
<1>1. CASE Same(r, l, r2, l2)
  BY <1>1 DEF Same
<1>2. CASE Posted(r, l, r2, l2)
  BY <1>2, PostedRow DEF Posted
<1> QED BY <1>1, <1>2, TakenRow, ClosingRow, WaitingRow, LapsingRow DEF RowMoves

(***************************************************************************)
(* The inductive invariant.  A task that is decided was one in a process's *)
(* hands, which had put the answer into the outbox before: Pending carries *)
(* that from the one transaction to the other.                             *)
(***************************************************************************)
Rows == /\ log \in [Notices -> Seq(AttemptStates)]
        /\ \A n \in Notices : Row(outbox[n], log[n])

Held == \A e \in Events : task[e] = "RUNNING" => lease[e] # None

\* With this outbox, a task of event e that is decided has been answered.
Told(box, e, state) ==
    /\ state = "COMPLETED" => box[<<e, "reply">>] # None
    /\ state = "FAILED" => box[<<e, "failed">>] # None

Pending ==
    \A p \in Processes :
        /\ proc[p].pc \in {"complete", "update"} =>
              /\ proc[p].claim \in Events \X Nat
              /\ proc[p].result \in {"COMPLETED", "FAILED"}
              /\ Told(outbox, proc[p].claim[1], proc[p].result)
        /\ proc[p].pc = "mark" => proc[p].mail \in Notices

Inv == TypeOK /\ Rows /\ Held /\ Pending /\ DecidedIsAnswered

\* What a transaction does to the outbox and its log, row by row ...
NoticesMove ==
    /\ outbox' = [n \in Notices |-> outbox'[n]]
    /\ log' = [n \in Notices |-> log'[n]]
    /\ \A n \in Notices : RowMoves(outbox[n], log[n], outbox'[n], log'[n])

\* ... and to the tasks: none becomes decided.
TasksMove ==
    /\ task' \in [Events -> TaskStates]
    /\ lease' \in [Events -> Lease \cup {None}]
    /\ \A e \in Events : task'[e] \in {"COMPLETED", "FAILED"} => task[e] = task'[e]
    /\ Held'

LEMMA NoticesSame == ASSUME Inv, UNCHANGED notices PROVE NoticesMove
BY DEF Inv, TypeOK, Rows, notices, NoticesMove, RowMoves, Same

LEMMA TasksSame == ASSUME Inv, UNCHANGED tasks PROVE TasksMove
BY DEF Inv, TypeOK, Held, tasks, TasksMove

LEMMA NoticesMoved ==
    ASSUME Inv, NoticesMove
    PROVE  /\ Rows'
           /\ outbox' \in [Notices -> Notice \cup {None}]
           /\ \A n \in Notices : log'[n] \in Seq(AttemptStates)
           /\ \A n \in Notices : outbox[n] # None => outbox'[n] # None
           /\ \A n \in Notices : outbox[n] # None /\ outbox[n].state \in {"DELIVERED", "DEAD"}
                 => outbox'[n] = outbox[n]
<1>1. ASSUME NEW n \in Notices
      PROVE  /\ Row(outbox'[n], log'[n])
             /\ outbox[n] # None => outbox'[n] # None
             /\ outbox[n] # None /\ outbox[n].state \in {"DELIVERED", "DEAD"}
                   => outbox'[n] = outbox[n]
  BY RowMoved DEF NoticesMove, Inv, Rows
<1>2. \A n \in Notices : /\ outbox'[n] \in Notice \cup {None}
                         /\ log'[n] \in Seq(AttemptStates)
  BY <1>1 DEF Row
<1>3. /\ outbox' \in [Notices -> Notice \cup {None}]
      /\ log' \in [Notices -> Seq(AttemptStates)]
  BY <1>2 DEF NoticesMove
<1> QED BY <1>1, <1>2, <1>3 DEF Rows

\* A row changed in place.
LEMMA OneRow ==
    ASSUME Inv, NEW n \in Notices, NEW r, NEW l,
           outbox' = [outbox EXCEPT ![n] = r], log' = [log EXCEPT ![n] = l],
           RowMoves(outbox[n], log[n], r, l)
    PROVE  NoticesMove
<1>1. /\ outbox' = [m \in Notices |-> IF m = n THEN r ELSE outbox[m]]
      /\ log' = [m \in Notices |-> IF m = n THEN l ELSE log[m]]
  BY DEF Inv, TypeOK, Rows
<1>2. \A m \in Notices : m # n => RowMoves(outbox[m], log[m], outbox'[m], log'[m])
  BY <1>1 DEF RowMoves, Same
<1> QED BY <1>1, <1>2 DEF NoticesMove

\* The same when only the row changes.
LEMMA OneRowQuiet ==
    ASSUME Inv, NEW n \in Notices, NEW r,
           outbox' = [outbox EXCEPT ![n] = r], log' = log,
           RowMoves(outbox[n], log[n], r, log[n])
    PROVE  NoticesMove
<1>1. log' = [log EXCEPT ![n] = log[n]]
  BY DEF Inv, Rows
<1> QED BY <1>1, OneRow

(***************************************************************************)
(* The transactions on the outbox.                                         *)
(***************************************************************************)
LEMMA EnqueueMoves ==
    ASSUME Inv, NEW n \in Notices, NEW body \in Bodies, Enqueue(n, body)
    PROVE  /\ NoticesMove /\ TasksMove
           /\ outbox'[n] # None
<1>1. TasksMove
  BY TasksSame DEF Enqueue
<1>2. CASE outbox[n] # None
  <2>1. UNCHANGED notices
    BY <1>2 DEF Enqueue, notices
  <2> QED BY <1>1, <1>2, <2>1, NoticesSame DEF notices
<1>3. CASE outbox[n] = None
  <2> DEFINE r == [state |-> "PENDING", body |-> body, attempts |-> 0, lease |-> "none", due |-> TRUE]
  <2>1. outbox' = [outbox EXCEPT ![n] = r] /\ log' = log
    BY <1>3 DEF Enqueue
  <2>2. Posted(outbox[n], log[n], r, log[n])
    BY <1>3 DEF Posted
  <2>3. Row(outbox[n], log[n])
    BY DEF Inv, Rows
  <2>4. r # None
    BY <2>2, <2>3, PostedRow
  <2> HIDE DEF r
  <2>5. NoticesMove
    BY <2>1, <2>2, OneRowQuiet DEF RowMoves
  <2>6. outbox'[n] = r
    BY <2>1 DEF Inv, TypeOK
  <2> QED BY <1>1, <2>4, <2>5, <2>6
<1> QED BY <1>2, <1>3

LEMMA ClaimOutboxMoves == ASSUME Inv, ClaimOutbox PROVE NoticesMove /\ TasksMove
<1>1. TasksMove
  BY TasksSame DEF ClaimOutbox
<1>2. /\ outbox' = [n \in Notices |-> outbox'[n]]
      /\ log' = [n \in Notices |-> log'[n]]
  BY DEF ClaimOutbox
<1>3. ASSUME NEW n \in Notices
      PROVE  RowMoves(outbox[n], log[n], outbox'[n], log'[n])
  <2>1. CASE n \in Deliverable
    <3>1. /\ outbox'[n] = [outbox[n] EXCEPT !.state = "IN_FLIGHT", !.attempts = @ + 1, !.lease = "live"]
          /\ log'[n] = Append(log[n], "IN_FLIGHT")
          /\ outbox[n] # None /\ outbox[n].state \in {"PENDING", "RETRY"}
      BY <2>1 DEF ClaimOutbox, Deliverable
    <3> QED BY <3>1 DEF Taken, RowMoves
  <2>2. CASE n \notin Deliverable
    BY <2>2 DEF ClaimOutbox, Same, RowMoves
  <2> QED BY <2>1, <2>2
<1> QED BY <1>1, <1>2, <1>3 DEF NoticesMove

LEMMA LandedMoves ==
    ASSUME Inv, NEW n \in Notices, InFlight(n),
           NEW state \in {"DELIVERED", "DEAD", "RETRY"}, NEW due \in BOOLEAN,
           state = "RETRY" \/ due, Landed(n, state, due)
    PROVE  NoticesMove
<1> DEFINE r == [outbox[n] EXCEPT !.state = state, !.lease = "none", !.due = due]
           entry == IF log[n][outbox[n].attempts] = "IN_FLIGHT" THEN state
                    ELSE log[n][outbox[n].attempts]
           l == [log[n] EXCEPT ![outbox[n].attempts] = entry]
<1>1. outbox[n] # None /\ outbox[n].state = "IN_FLIGHT"
  BY DEF InFlight
<1>2. Row(outbox[n], log[n]) /\ outbox[n] \in Notice
  BY <1>1 DEF Inv, Rows, Row
<1>3. log[n][outbox[n].attempts] = "IN_FLIGHT"
  <2>1. outbox[n].attempts \in Nat /\ outbox[n].attempts # 0 /\ Len(log[n]) = outbox[n].attempts
    BY <1>1, <1>2, NoticeFields DEF Row, Logged
  <2> QED BY <1>1, <1>2, <2>1 DEF Row, Logged
<1>4. entry \in AttemptStates \ {"IN_FLIGHT"}
  BY <1>3 DEF AttemptStates
<1>5. /\ outbox' = [outbox EXCEPT ![n] = r]
      /\ log' = [log EXCEPT ![n] = l]
  <2>1. outbox' = [outbox EXCEPT ![n] = r]
    BY DEF Landed
  <2>2. log' = [log EXCEPT ![n] = l]
    BY DEF Landed
  <2> QED BY <2>1, <2>2
<1>6. Closing(outbox[n], log[n], r, l)
  <2> HIDE DEF entry
  <2> QED BY <1>1, <1>4 DEF Closing
<1> HIDE DEF r, l, entry
<1> QED BY <1>5, <1>6, OneRow DEF RowMoves

LEMMA MarkMoves ==
    ASSUME Inv, NEW n \in Notices, MarkDelivered(n) \/ MarkFailed(n)
    PROVE  NoticesMove /\ TasksMove
<1>1. TasksMove
  BY TasksSame DEF MarkDelivered, MarkFailed
<1>2. CASE UNCHANGED notices
  BY <1>1, <1>2, NoticesSame
<1>3. CASE InFlight(n) /\ (Landed(n, "DELIVERED", TRUE) \/ Landed(n, "DEAD", TRUE))
  BY <1>1, <1>3, LandedMoves
<1>4. CASE InFlight(n) /\ Landed(n, "RETRY", FALSE)
  BY <1>1, <1>4, LandedMoves
<1> QED BY <1>2, <1>3, <1>4 DEF MarkDelivered, MarkFailed

LEMMA BecomeDueMoves ==
    ASSUME Inv, NEW n \in Notices, BecomeDue(n)
    PROVE  NoticesMove /\ TasksMove
<1> DEFINE r == [outbox[n] EXCEPT !.due = TRUE]
<1>1. outbox' = [outbox EXCEPT ![n] = r] /\ log' = log
  BY DEF BecomeDue
<1>2. Waiting(outbox[n], log[n], r, log[n])
  BY DEF BecomeDue, Waiting
<1> HIDE DEF r
<1>3. NoticesMove
  BY <1>1, <1>2, OneRowQuiet DEF RowMoves
<1> QED BY <1>3, TasksSame DEF BecomeDue

LEMMA LapseNoticeMoves ==
    ASSUME Inv, NEW n \in Notices, LapseNotice(n)
    PROVE  NoticesMove /\ TasksMove
<1> DEFINE r == [outbox[n] EXCEPT !.lease = "lapsed"]
<1>1. outbox' = [outbox EXCEPT ![n] = r] /\ log' = log
  BY DEF LapseNotice
<1>2. Lapsing(outbox[n], log[n], r, log[n])
  BY DEF LapseNotice, Lapsing
<1> HIDE DEF r
<1>3. NoticesMove
  BY <1>1, <1>2, OneRowQuiet DEF RowMoves
<1> QED BY <1>3, TasksSame DEF LapseNotice

LEMMA RecoverMoves == ASSUME Inv, RecoverExpired PROVE NoticesMove /\ TasksMove
<1>1. TasksMove
  BY DEF RecoverExpired, Requeued, TasksMove, Inv, TypeOK, Held, TaskStates
<1>2. /\ outbox' = [n \in Notices |-> outbox'[n]]
      /\ log' = [n \in Notices |-> log'[n]]
  BY DEF RecoverExpired, Returned, Closed
<1>3. ASSUME NEW n \in Notices
      PROVE  RowMoves(outbox[n], log[n], outbox'[n], log'[n])
  <2>1. CASE n \in Lost
    <3>1. /\ outbox'[n] = [outbox[n] EXCEPT !.state = "RETRY", !.lease = "none"]
          /\ log'[n] = [log[n] EXCEPT ![outbox[n].attempts] = "LOST_LEASE"]
          /\ outbox[n] # None /\ outbox[n].state = "IN_FLIGHT"
      BY <2>1 DEF RecoverExpired, Returned, Closed, Lost, InFlight
    <3>2. outbox[n] \in Notice
      BY <3>1 DEF Inv, TypeOK
    <3>3. /\ outbox'[n] = [outbox[n] EXCEPT !.state = "RETRY", !.lease = "none", !.due = outbox[n].due]
          /\ outbox[n].due \in BOOLEAN
      BY <3>1, <3>2 DEF Notice
    <3>4. "LOST_LEASE" \in AttemptStates \ {"IN_FLIGHT"}
      BY DEF AttemptStates
    <3>5. Closing(outbox[n], log[n], outbox'[n], log'[n])
      BY <3>1, <3>3, <3>4 DEF Closing
    <3> QED BY <3>5 DEF RowMoves
  <2>2. CASE n \notin Lost
    BY <2>2 DEF RecoverExpired, Returned, Closed, Same, RowMoves
  <2> QED BY <2>1, <2>2
<1> QED BY <1>1, <1>2, <1>3 DEF NoticesMove

(***************************************************************************)
(* The transactions on the tasks, but for the decision.                    *)
(***************************************************************************)
LEMMA IngestMoves ==
    ASSUME Inv, NEW e \in Events, Ingest(e)
    PROVE  NoticesMove /\ TasksMove
<1>1. TasksMove
  BY DEF Ingest, TasksMove, Inv, TypeOK, Held, TaskStates
<1> QED BY <1>1, NoticesSame DEF Ingest

LEMMA ClaimTasksMoves == ASSUME Inv, ClaimTasks PROVE NoticesMove /\ TasksMove
<1>1. ASSUME NEW e \in Events
      PROVE  /\ [token |-> NextToken(e), lapsed |-> FALSE] \in Lease
             /\ [token |-> NextToken(e), lapsed |-> FALSE] # None
  <2>1. NextToken(e) \in Nat \ {0}
    BY DEF NextToken, Inv, TypeOK, Lease
  <2>2. [token |-> NextToken(e), lapsed |-> FALSE] \in Lease
    BY <2>1 DEF Lease
  <2> QED BY <2>2, AbsentAssumption
<1>2. lease' \in [Events -> Lease \cup {None}] /\ task' \in [Events -> TaskStates]
  BY <1>1 DEF ClaimTasks, Inv, TypeOK, TaskStates
<1>3. Held'
  BY <1>1 DEF ClaimTasks, Inv, Held
<1>4. \A e \in Events : task'[e] \in {"COMPLETED", "FAILED"} => task[e] = task'[e]
  BY DEF ClaimTasks
<1> QED BY <1>2, <1>3, <1>4, NoticesSame DEF ClaimTasks, TasksMove

LEMMA LapseTaskMoves ==
    ASSUME Inv, NEW e \in Events, LapseTask(e)
    PROVE  NoticesMove /\ TasksMove
<1>1. /\ lease[e] \in Lease
      /\ lease' = [lease EXCEPT ![e] = [lease[e] EXCEPT !.lapsed = TRUE]]
      /\ task' = task
  BY DEF LapseTask, Inv, TypeOK
<1>2. [lease[e] EXCEPT !.lapsed = TRUE] \in Lease
  BY <1>1 DEF Lease
<1>3. TasksMove
  BY <1>1, <1>2, AbsentAssumption DEF TasksMove, Inv, TypeOK, Held
<1> QED BY <1>3, NoticesSame DEF LapseTask

(***************************************************************************)
(* The rounds of the processes.                                            *)
(***************************************************************************)
LEMMA InitInv == RuntimeInit => Inv
<1> SUFFICES ASSUME RuntimeInit PROVE Inv
  OBVIOUS
<1>1. << >> \in Seq(AttemptStates)
  OBVIOUS
<1>2. Rows
  BY <1>1 DEF RuntimeInit, Init, Rows, Row
<1>3. TypeOK
  BY <1>1, FaultsAssumption DEF RuntimeInit, Init, TypeOK, TaskStates, Start, Round
<1>4. Held /\ Pending /\ DecidedIsAnswered
  BY DEF RuntimeInit, Init, Held, Pending, Start, DecidedIsAnswered
<1> QED BY <1>2, <1>3, <1>4 DEF Inv

LEMMA Rests ==
    ASSUME NEW p \in Processes, NEW claims \in SUBSET (Events \X Nat),
           NEW mails \in SUBSET Notices,
           \/ Answering(p, claims) \/ Delivering(p, mails)
           \/ Go(p, Start) \/ Go(p, [Start EXCEPT !.pc = "inbound"])
    PROVE  \E r \in Round : Go(p, r) /\ r.pc \notin {"complete", "update", "mark"}
<1>1. CASE Answering(p, claims)
  <2>1. PICK pc \in {"outbox", "handle"} : Go(p, [Start EXCEPT !.pc = pc, !.claims = claims])
    BY <1>1 DEF Answering
  <2>2. /\ [Start EXCEPT !.pc = pc, !.claims = claims] \in Round
        /\ [Start EXCEPT !.pc = pc, !.claims = claims].pc = pc
    BY DEF Start, Round
  <2> QED BY <2>1, <2>2
<1>2. CASE Delivering(p, mails)
  <2>1. PICK pc \in {"recover", "send"} : Go(p, [Start EXCEPT !.pc = pc, !.mails = mails])
    BY <1>2 DEF Delivering
  <2>2. /\ [Start EXCEPT !.pc = pc, !.mails = mails] \in Round
        /\ [Start EXCEPT !.pc = pc, !.mails = mails].pc = pc
    BY DEF Start, Round
  <2> QED BY <2>1, <2>2
<1>3. CASE Go(p, Start)
  <2>1. Start \in Round /\ Start.pc = "recover"
    BY DEF Start, Round
  <2> QED BY <1>3, <2>1
<1>4. CASE Go(p, [Start EXCEPT !.pc = "inbound"])
  <2>1. [Start EXCEPT !.pc = "inbound"] \in Round /\ [Start EXCEPT !.pc = "inbound"].pc = "inbound"
    BY DEF Start, Round
  <2> QED BY <1>4, <2>1
<1> QED BY <1>1, <1>2, <1>3, <1>4

\* What was answered stays answered.
LEMMA ToldStays ==
    ASSUME Inv, NoticesMove, NEW e \in Events, NEW state, Told(outbox, e, state)
    PROVE  Told(outbox', e, state)
<1>1. <<e, "reply">> \in Notices /\ <<e, "failed">> \in Notices
  BY DEF Notices
<1> QED BY <1>1, NoticesMoved DEF Told

LEMMA DecidedStays ==
    ASSUME Inv, NoticesMove, NEW e \in Events,
           task'[e] \in {"COMPLETED", "FAILED"} => task[e] = task'[e]
    PROVE  Told(outbox', e, task'[e])
<1>1. CASE task'[e] \in {"COMPLETED", "FAILED"}
  <2>1. Told(outbox, e, task'[e])
    BY <1>1 DEF Inv, DecidedIsAnswered, Told
  <2> QED BY <2>1, ToldStays DEF Told
<1>2. CASE task'[e] \notin {"COMPLETED", "FAILED"}
  BY <1>2 DEF Told
<1> QED BY <1>1, <1>2

\* The invariant after a transaction, by what the process does next.
LEMMA StoreInv ==
    ASSUME Inv, NoticesMove, TasksMove, proc' \in [Processes -> Round], Pending',
           sent' \subseteq Notices, faults' \in 0 .. MaxFaults
    PROVE  Inv'
<1>1. DecidedIsAnswered'
  <2>1. \A e \in Events : Told(outbox', e, task'[e])
    BY DecidedStays DEF TasksMove
  <2> QED BY <2>1 DEF DecidedIsAnswered, Told
<1>2. TypeOK'
  BY NoticesMoved DEF TypeOK, TasksMove
<1> QED BY <1>1, <1>2, NoticesMoved DEF Inv, TasksMove

LEMMA OthersInv ==
    ASSUME Inv, NoticesMove, TasksMove, proc' = proc,
           sent' \subseteq Notices, faults' \in 0 .. MaxFaults
    PROVE  Inv'
<1>1. proc' \in [Processes -> Round]
  BY DEF Inv, TypeOK
<1>2. Pending'
  <2> SUFFICES ASSUME NEW p \in Processes, proc[p].pc \in {"complete", "update"}
               PROVE  /\ proc[p].claim \in Events \X Nat
                      /\ proc[p].result \in {"COMPLETED", "FAILED"}
                      /\ Told(outbox', proc[p].claim[1], proc[p].result)
    BY DEF Inv, Pending
  <2>1. /\ proc[p].claim \in Events \X Nat
        /\ proc[p].result \in {"COMPLETED", "FAILED"}
        /\ Told(outbox, proc[p].claim[1], proc[p].result)
    BY DEF Inv, Pending
  <2>2. proc[p].claim[1] \in Events
    BY <2>1
  <2> QED BY <2>1, <2>2, ToldStays
<1> QED BY <1>1, <1>2, StoreInv

LEMMA RoundsMoved ==
    ASSUME Inv, NoticesMove, NEW p \in Processes, NEW r \in Round, Go(p, r),
           r.pc \in {"complete", "update"} =>
               /\ r.claim \in Events \X Nat
               /\ r.result \in {"COMPLETED", "FAILED"}
               /\ Told(outbox', r.claim[1], r.result),
           r.pc = "mark" => r.mail \in Notices
    PROVE  proc' \in [Processes -> Round] /\ Pending'
<1>1. /\ proc' \in [Processes -> Round]
      /\ proc'[p] = r
      /\ \A x \in Processes : x # p => proc'[x] = proc[x]
  BY DEF Go, Inv, TypeOK
<1>2. ASSUME NEW x \in Processes, proc'[x].pc \in {"complete", "update"}
      PROVE  /\ proc'[x].claim \in Events \X Nat
             /\ proc'[x].result \in {"COMPLETED", "FAILED"}
             /\ Told(outbox', proc'[x].claim[1], proc'[x].result)
  <2>1. CASE x = p
    BY <1>1, <1>2, <2>1 DEF Told
  <2>2. CASE x # p
    <3>1. /\ proc'[x] = proc[x]
          /\ proc[x].claim \in Events \X Nat
          /\ proc[x].result \in {"COMPLETED", "FAILED"}
          /\ Told(outbox, proc[x].claim[1], proc[x].result)
      BY <1>1, <1>2, <2>2 DEF Inv, Pending
    <3>2. proc[x].claim[1] \in Events
      BY <3>1
    <3>3. Told(outbox', proc[x].claim[1], proc[x].result)
      BY <3>1, <3>2, ToldStays
    <3> QED BY <3>1, <3>3 DEF Told
  <2> QED BY <2>1, <2>2
<1>3. ASSUME NEW x \in Processes, proc'[x].pc = "mark"
      PROVE  proc'[x].mail \in Notices
  BY <1>1, <1>3 DEF Inv, Pending
<1> QED BY <1>1, <1>2, <1>3 DEF Pending

LEMMA ProcTypes ==
    ASSUME Inv, NEW p \in Processes
    PROVE  /\ proc[p] \in Round
           /\ proc[p].claims \in SUBSET (Events \X Nat)
           /\ proc[p].mails \in SUBSET Notices
           /\ sent \subseteq Notices /\ faults \in 0 .. MaxFaults
BY DEF Inv, TypeOK, Round

\* A process that then has nothing in hand.
LEMMA RestsInv ==
    ASSUME Inv, NoticesMove, TasksMove, NEW p \in Processes,
           NEW claims \in SUBSET (Events \X Nat), NEW mails \in SUBSET Notices,
           \/ Answering(p, claims) \/ Delivering(p, mails)
           \/ Go(p, Start) \/ Go(p, [Start EXCEPT !.pc = "inbound"]),
           sent' \subseteq Notices, faults' \in 0 .. MaxFaults
    PROVE  Inv'
<1>1. PICK r \in Round : Go(p, r) /\ r.pc \notin {"complete", "update", "mark"}
  BY Rests
<1>2. proc' \in [Processes -> Round] /\ Pending'
  BY <1>1, RoundsMoved
<1> QED BY <1>2, StoreInv

LEMMA RecoverInv == ASSUME Inv, NEW p \in Processes, Recover(p) PROVE Inv'
<1>1. /\ NoticesMove /\ TasksMove
      /\ Go(p, [Start EXCEPT !.pc = "inbound"])
      /\ sent' \subseteq Notices /\ faults' \in 0 .. MaxFaults
  BY RecoverMoves, ProcTypes DEF Recover
<1> QED BY <1>1, ProcTypes, RestsInv

LEMMA InboundInv == ASSUME Inv, NEW p \in Processes, Inbound(p) PROVE Inv'
<1> DEFINE claims == {<<e, NextToken(e)>> : e \in Claimable}
<1>1. claims \in SUBSET (Events \X Nat)
  BY DEF Claimable, NextToken, Inv, TypeOK, Lease
<1>2. /\ NoticesMove /\ TasksMove
      /\ Answering(p, claims)
      /\ sent' \subseteq Notices /\ faults' \in 0 .. MaxFaults
  BY ClaimTasksMoves, ProcTypes DEF Inbound
<1> HIDE DEF claims
<1> QED BY <1>1, <1>2, ProcTypes, RestsInv

\* The answer is in the outbox before the task is in hand to be decided.
LEMMA HandledInv ==
    ASSUME Inv, NEW p \in Processes, NEW claim \in Events \X Nat,
           NEW result \in {"COMPLETED", "FAILED"}, NEW n \in Notices, NEW body \in Bodies,
           Enqueue(n, body), Handled(p, claim, result),
           n = <<claim[1], IF result = "COMPLETED" THEN "reply" ELSE "failed">>,
           UNCHANGED <<sent, faults>>
    PROVE  Inv'
<1> DEFINE r == [proc[p] EXCEPT !.pc = "complete", !.claim = claim, !.result = result]
<1>1. NoticesMove /\ TasksMove /\ outbox'[n] # None
  BY EnqueueMoves
<1>2. Told(outbox', claim[1], result)
  BY <1>1 DEF Told
<1>3. r \in Round /\ r.pc = "complete" /\ r.claim = claim /\ r.result = result
  BY ProcTypes DEF Round
<1>4. Go(p, r)
  BY DEF Handled
<1> HIDE DEF r
<1>5. proc' \in [Processes -> Round] /\ Pending'
  BY <1>1, <1>2, <1>3, <1>4, RoundsMoved
<1> QED BY <1>1, <1>5, ProcTypes, StoreInv

LEMMA FailureNoticeInv ==
    ASSUME Inv, NEW p \in Processes, NEW claim \in Events \X Nat, NEW error \in Bodies,
           FailureNotice(p, claim, error), UNCHANGED <<sent, faults>>
    PROVE  Inv'
<1> DEFINE n == <<claim[1], "failed">>
<1>1. claim[1] \in Events /\ n \in Notices
  BY DEF Notices
<1>2. CASE Conflicts(n, error)
  <2>1. NoticesMove /\ TasksMove
    BY <1>2, NoticesSame, TasksSame DEF FailureNotice, store, notices, tasks
  <2>2. Go(p, Start)
    BY <1>2 DEF FailureNotice
  <2> QED BY <2>1, <2>2, ProcTypes, RestsInv
<1>3. CASE ~ Conflicts(n, error)
  <2>1. Enqueue(n, error) /\ Handled(p, claim, "FAILED")
    BY <1>3 DEF FailureNotice
  <2>2. n = <<claim[1], IF "FAILED" = "COMPLETED" THEN "reply" ELSE "failed">>
    OBVIOUS
  <2> QED BY <1>1, <2>1, <2>2, HandledInv
<1> QED BY <1>2, <1>3

LEMMA HandleInv == ASSUME Inv, NEW p \in Processes, Handle(p) PROVE Inv'
<1>1. PICK claim \in proc[p].claims :
         \/ \E body \in Replies :
               IF Conflicts(<<claim[1], "reply">>, body) THEN FailureNotice(p, claim, Conflict)
               ELSE Enqueue(<<claim[1], "reply">>, body) /\ Handled(p, claim, "COMPLETED")
         \/ \E error \in Errors : FailureNotice(p, claim, error)
  BY DEF Handle
<1>2. claim \in Events \X Nat /\ claim[1] \in Events /\ <<claim[1], "reply">> \in Notices
  BY ProcTypes DEF Notices
<1>3. UNCHANGED <<sent, faults>>
  BY DEF Handle
<1>4. Replies \subseteq Bodies /\ Errors \subseteq Bodies /\ Conflict \in Bodies
  BY BodiesAssumption
<1>5. ASSUME NEW body \in Replies, Enqueue(<<claim[1], "reply">>, body),
             Handled(p, claim, "COMPLETED")
      PROVE  Inv'
  <2>1. <<claim[1], "reply">>
           = <<claim[1], IF "COMPLETED" = "COMPLETED" THEN "reply" ELSE "failed">>
    OBVIOUS
  <2> QED BY <1>2, <1>3, <1>4, <1>5, <2>1, HandledInv
<1>6. ASSUME NEW error \in Bodies, FailureNotice(p, claim, error)
      PROVE  Inv'
  BY <1>2, <1>3, <1>6, FailureNoticeInv
<1> QED BY <1>1, <1>4, <1>5, <1>6

LEMMA StartCompleteInv == ASSUME Inv, NEW p \in Processes, StartComplete(p) PROVE Inv'
<1> DEFINE held == Leased(proc[p].claim[1], proc[p].claim[2])
           r == [proc[p] EXCEPT !.pc = "update", !.held = held]
<1>1. NoticesMove /\ TasksMove
  BY NoticesSame, TasksSame DEF StartComplete, store, notices, tasks
<1>2. held \in BOOLEAN
  BY DEF Leased
<1>3. /\ proc[p].claim \in Events \X Nat /\ proc[p].claim[1] \in Events
      /\ proc[p].result \in {"COMPLETED", "FAILED"}
      /\ Told(outbox, proc[p].claim[1], proc[p].result)
  <2>1. proc[p].pc = "complete"
    BY DEF StartComplete, At
  <2> QED BY <2>1 DEF Inv, Pending
<1>4. Told(outbox', proc[p].claim[1], proc[p].result)
  BY <1>1, <1>3, ToldStays
<1>5. Go(p, r)
  BY DEF StartComplete
<1> HIDE DEF held
<1>6. r \in Round /\ r.pc = "update" /\ r.claim = proc[p].claim /\ r.result = proc[p].result
  BY <1>2, ProcTypes DEF Round
<1> HIDE DEF r
<1>7. proc' \in [Processes -> Round] /\ Pending'
  BY <1>1, <1>3, <1>4, <1>5, <1>6, RoundsMoved
<1> QED BY <1>1, <1>7, ProcTypes, StoreInv DEF StartComplete

\* The decision: of a task whose answer is in the outbox, and of nobody
\* else's lease.
LEMMA FinishCompleteInv == ASSUME Inv, NEW p \in Processes, FinishComplete(p) PROVE Inv'
<1> DEFINE e == proc[p].claim[1]
           token == proc[p].claim[2]
           held == proc[p].held
           result == proc[p].result
<1>1. e \in Events /\ result \in {"COMPLETED", "FAILED"} /\ Told(outbox, e, result)
  <2>1. proc[p].pc = "update"
    BY DEF FinishComplete, At
  <2> QED BY <2>1 DEF Inv, Pending
<1>2. /\ task' = IF held THEN [task EXCEPT ![e] = result] ELSE task
      /\ lease' = IF held /\ Leased(e, token) THEN [lease EXCEPT ![e] = None] ELSE lease
      /\ UNCHANGED notices /\ UNCHANGED <<sent, faults>>
  BY DEF FinishComplete, Complete
<1>3. NoticesMove
  BY <1>2, NoticesSame
<1> HIDE DEF e, token, held, result
<1>4. task' \in [Events -> TaskStates] /\ lease' \in [Events -> Lease \cup {None}]
  BY <1>1, <1>2 DEF Inv, TypeOK, TaskStates
<1>5. Held'
  BY <1>1, <1>2 DEF Inv, TypeOK, Held
<1>6. DecidedIsAnswered'
  BY <1>1, <1>2 DEF Inv, TypeOK, DecidedIsAnswered, Told, notices
<1>7. proc' \in [Processes -> Round] /\ Pending'
  <2>1. Answering(p, proc[p].claims \ {proc[p].claim})
    BY DEF FinishComplete
  <2>2. proc[p].claims \ {proc[p].claim} \in SUBSET (Events \X Nat) /\ {} \in SUBSET Notices
    BY ProcTypes
  <2>3. PICK r \in Round : Go(p, r) /\ r.pc \notin {"complete", "update", "mark"}
    BY <2>1, <2>2, Rests
  <2> QED BY <1>3, <2>3, RoundsMoved
<1>8. TypeOK'
  BY <1>2, <1>3, <1>4, <1>7, NoticesMoved DEF Inv, TypeOK
<1> QED BY <1>3, <1>5, <1>6, <1>7, <1>8, NoticesMoved DEF Inv

LEMMA OutboundInv == ASSUME Inv, NEW p \in Processes, Outbound(p) PROVE Inv'
<1>1. /\ NoticesMove /\ TasksMove
      /\ Delivering(p, Deliverable)
      /\ sent' \subseteq Notices /\ faults' \in 0 .. MaxFaults
  BY ClaimOutboxMoves, ProcTypes DEF Outbound
<1>2. Deliverable \in SUBSET Notices
  BY DEF Deliverable
<1> QED BY <1>1, <1>2, ProcTypes, RestsInv

LEMMA SendInv == ASSUME Inv, NEW p \in Processes, Send(p) PROVE Inv'
<1>1. PICK n \in proc[p].mails, accepted \in BOOLEAN :
         /\ Go(p, [proc[p] EXCEPT !.pc = "mark", !.mail = n, !.held = accepted])
         /\ sent' = IF accepted THEN sent \cup {n} ELSE sent
  BY DEF Send
<1> DEFINE r == [proc[p] EXCEPT !.pc = "mark", !.mail = n, !.held = accepted]
<1>2. n \in Notices
  BY ProcTypes
<1>3. NoticesMove /\ TasksMove
  BY NoticesSame, TasksSame DEF Send, store, notices, tasks
<1>4. r \in Round /\ r.pc = "mark" /\ r.mail = n
  BY <1>2, ProcTypes DEF Round
<1>5. Go(p, r)
  BY <1>1
<1> HIDE DEF r
<1>6. proc' \in [Processes -> Round] /\ Pending'
  BY <1>2, <1>3, <1>4, <1>5, RoundsMoved
<1>7. sent' \subseteq Notices /\ faults' \in 0 .. MaxFaults
  BY <1>1, <1>2, ProcTypes DEF Send
<1> QED BY <1>3, <1>6, <1>7, StoreInv

LEMMA MarkInv == ASSUME Inv, NEW p \in Processes, Mark(p) PROVE Inv'
<1>1. proc[p].mail \in Notices
  BY DEF Mark, At, Inv, Pending
<1>2. NoticesMove /\ TasksMove
  BY <1>1, MarkMoves DEF Mark
<1>3. Delivering(p, proc[p].mails \ {proc[p].mail})
  BY DEF Mark
<1>4. proc[p].mails \ {proc[p].mail} \in SUBSET Notices /\ {} \in SUBSET (Events \X Nat)
  BY ProcTypes
<1>5. sent' \subseteq Notices /\ faults' \in 0 .. MaxFaults
  BY ProcTypes DEF Mark
<1> QED BY <1>2, <1>3, <1>4, <1>5, RestsInv

LEMMA CrashInv == ASSUME Inv, NEW p \in Processes, Crash(p) PROVE Inv'
<1>1. NoticesMove /\ TasksMove
  BY NoticesSame, TasksSame DEF Crash, store, notices, tasks
<1>2. Go(p, Start) /\ sent' \subseteq Notices /\ faults' \in 0 .. MaxFaults
  BY ProcTypes, FaultsAssumption DEF Crash
<1> QED BY <1>1, <1>2, ProcTypes, RestsInv

\* The channel and the clock leave the processes where they are.
LEMMA WorldInv ==
    ASSUME Inv,
           \/ \E e \in Events : Receive(e)
           \/ \E n \in Notices : Wait(n)
           \/ Lapse \/ Overrun
    PROVE  Inv'
<1>1. NoticesMove /\ TasksMove
  BY IngestMoves, BecomeDueMoves, LapseTaskMoves, LapseNoticeMoves
     DEF Receive, Wait, Lapse, Overrun
<1>2. proc' = proc /\ sent' = sent
  BY DEF Receive, Wait, Lapse, Overrun
<1>3. sent' \subseteq Notices /\ faults' \in 0 .. MaxFaults
  BY <1>2, FaultsAssumption DEF Receive, Wait, Lapse, Overrun, Inv, TypeOK
<1> QED BY <1>1, <1>2, <1>3, OthersInv

LEMMA NextInv == Inv /\ [Next]_vars => Inv'
<1> SUFFICES ASSUME Inv, [Next]_vars PROVE Inv'
  OBVIOUS
<1>1. CASE UNCHANGED vars
  <2>1. NoticesMove /\ TasksMove
    BY <1>1, NoticesSame, TasksSame DEF vars, store, notices, tasks
  <2>2. proc' = proc /\ sent' \subseteq Notices /\ faults' \in 0 .. MaxFaults
    BY <1>1 DEF vars, Inv, TypeOK
  <2> QED BY <2>1, <2>2, OthersInv
<1>2. ASSUME NEW p \in Processes, Step(p)
      PROVE  Inv'
  BY <1>2, RecoverInv, InboundInv, HandleInv, StartCompleteInv, FinishCompleteInv, OutboundInv,
     SendInv, MarkInv DEF Step
<1> QED BY <1>1, <1>2, CrashInv, WorldInv DEF Next

LEMMA SpecInv == Spec => []Inv
BY InitInv, NextInv, PTL DEF Spec

\* The tables, the log and the rounds of the processes stay well-formed.
THEOREM GatewayTypeOK == Spec => []TypeOK
<1>1. Inv => TypeOK
  BY DEF Inv
<1> QED BY SpecInv, <1>1, PTL

\* Whatever a process has in its hands is in recovery's reach, for any number
\* of processes, attempts and faults.
THEOREM GatewayNothingStranded == Spec => []NothingStranded
<1>1. Inv => NothingStranded
  <2> SUFFICES ASSUME Inv PROVE NothingStranded
    OBVIOUS
  <2>1. \A n \in Notices : InFlight(n) <=> outbox[n] # None /\ outbox[n].lease # "none"
    BY DEF Inv, Rows, Row, InFlight
  <2> QED BY <2>1 DEF Inv, Held, NothingStranded
<1> QED BY SpecInv, <1>1, PTL

\* One entry of the log for every claim of a notification, and only the last
\* one open.
THEOREM GatewayAttemptsAreLogged == Spec => []AttemptsAreLogged
<1>1. Inv => AttemptsAreLogged
  BY DEF Inv, Rows, Row, Logged, InFlight, AttemptsAreLogged
<1> QED BY SpecInv, <1>1, PTL

\* No task is decided before its answer is in the outbox.
THEOREM GatewayDecidedIsAnswered == Spec => []DecidedIsAnswered
<1>1. Inv => DecidedIsAnswered
  BY DEF Inv
<1> QED BY SpecInv, <1>1, PTL

(***************************************************************************)
(* What a step does to a row.                                              *)
(***************************************************************************)
LEMMA HandleMoves == ASSUME Inv, NEW p \in Processes, Handle(p) PROVE NoticesMove
<1>1. ASSUME NEW claim \in Events \X Nat, NEW error \in Bodies, FailureNotice(p, claim, error)
      PROVE  NoticesMove
  <2>1. claim[1] \in Events /\ <<claim[1], "failed">> \in Notices
    BY DEF Notices
  <2>2. CASE Conflicts(<<claim[1], "failed">>, error)
    BY <1>1, <2>2, NoticesSame DEF FailureNotice, store, notices
  <2>3. CASE ~ Conflicts(<<claim[1], "failed">>, error)
    BY <1>1, <2>1, <2>3, EnqueueMoves DEF FailureNotice
  <2> QED BY <2>2, <2>3
<1>2. ASSUME NEW claim \in Events \X Nat, NEW body \in Bodies, Enqueue(<<claim[1], "reply">>, body)
      PROVE  NoticesMove
  <2>1. claim[1] \in Events /\ <<claim[1], "reply">> \in Notices
    BY DEF Notices
  <2> QED BY <1>2, <2>1, EnqueueMoves
<1>3. proc[p].claims \subseteq Events \X Nat
  BY ProcTypes
<1>4. Replies \subseteq Bodies /\ Errors \subseteq Bodies /\ Conflict \in Bodies
  BY BodiesAssumption
<1> QED BY <1>1, <1>2, <1>3, <1>4 DEF Handle

LEMMA StepMoves == ASSUME Inv, [Next]_vars PROVE NoticesMove
<1>1. ASSUME NEW p \in Processes, Step(p)
      PROVE  NoticesMove
  <2>1. CASE Recover(p)
    BY <2>1, RecoverMoves DEF Recover
  <2>2. CASE Inbound(p)
    BY <2>2, ClaimTasksMoves DEF Inbound
  <2>3. CASE Handle(p)
    BY <2>3, HandleMoves
  <2>4. CASE StartComplete(p) \/ FinishComplete(p) \/ Send(p)
    BY <2>4, NoticesSame DEF StartComplete, FinishComplete, Complete, Send, store, notices
  <2>5. CASE Outbound(p)
    BY <2>5, ClaimOutboxMoves DEF Outbound
  <2>6. CASE Mark(p)
    <3>1. proc[p].mail \in Notices
      BY <2>6 DEF Mark, At, Inv, Pending
    <3> QED BY <2>6, <3>1, MarkMoves DEF Mark
  <2> QED BY <1>1, <2>1, <2>2, <2>3, <2>4, <2>5, <2>6 DEF Step
<1>2. ASSUME NEW p \in Processes, Crash(p)
      PROVE  NoticesMove
  BY <1>2, NoticesSame DEF Crash, store, notices
<1>3. ASSUME NEW e \in Events, Receive(e)
      PROVE  NoticesMove
  BY <1>3, IngestMoves DEF Receive
<1>4. ASSUME NEW n \in Notices, Wait(n)
      PROVE  NoticesMove
  BY <1>4, BecomeDueMoves DEF Wait
<1>5. CASE Lapse \/ Overrun
  BY <1>5, LapseTaskMoves, LapseNoticeMoves DEF Lapse, Overrun
<1>6. CASE UNCHANGED vars
  BY <1>6, NoticesSame DEF vars, store, notices
<1> QED BY <1>1, <1>2, <1>3, <1>4, <1>5, <1>6 DEF Next

\* A delivered or dead notification never moves again, whichever late sender
\* reports and whatever recovery finds.
THEOREM GatewaySettledStaysSettled == Spec => SettledStaysSettled
<1>1. Inv /\ [Next]_vars
         => [\A n \in Notices : outbox[n] # None /\ outbox[n].state \in {"DELIVERED", "DEAD"}
                => outbox'[n] = outbox[n]]_vars
  BY StepMoves, NoticesMoved
<1> QED BY SpecInv, <1>1, PTL DEF Spec, SettledStaysSettled
=============================================================================
