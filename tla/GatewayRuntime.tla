--------------------------- MODULE GatewayRuntime ---------------------------
(***************************************************************************)
(* Gateway processes over one store: channel_gateway/runtime.py            *)
(* (GatewayRuntime.process_once), operator_commands.py                     *)
(* (GatewayInboundWorker) and durable.py (OutboxWorker).                   *)
(*                                                                         *)
(* A process goes round: recover what lapsed, claim the waiting tasks and  *)
(* answer them one by one, claim the waiting notifications and deliver     *)
(* them one by one.  A process that hangs past its leases and the one      *)
(* started in its place do so side by side.                                *)
(***************************************************************************)
EXTENDS GatewayStore

CONSTANTS Processes,
          Replies,      \* what the handler may answer, by the state it reads
          Errors,       \* exception classes of a failing handler
          Conflict,     \* the class of "conflicting replay for outbound notification"
          MaxFaults     \* bound: crashes, and lapses of leases still worked on

VARIABLES proc,         \* process -> where it is in its round
          sent,         \* the notifications a channel accepted
          faults        \* faults so far

vars == <<store, proc, sent, faults>>

ASSUME BodiesAssumption == Replies \cup Errors \cup {Conflict} \subseteq Bodies
ASSUME FaultsAssumption == MaxFaults \in Nat

\* The claimed work still to do, and what is in hand with what was found out
\* about it: the state to complete a task with, whether its lease was held.
Round == [pc : {"recover", "inbound", "handle", "complete", "update", "outbox", "send", "mark"},
          claims : SUBSET (Events \X Nat), mails : SUBSET Notices,
          claim : (Events \X Nat) \cup {None}, mail : Notices \cup {None},
          result : {"COMPLETED", "FAILED", None}, held : BOOLEAN]
Start == [pc |-> "recover", claims |-> {}, mails |-> {}, claim |-> None, mail |-> None,
          result |-> None, held |-> FALSE]

At(p, pc) == proc[p].pc = pc
Go(p, round) == proc' = [proc EXCEPT ![p] = round]

\* On with the claims or the mails still to do, or with the next stage.
Answering(p, claims) ==
    Go(p, [Start EXCEPT !.pc = IF claims = {} THEN "outbox" ELSE "handle", !.claims = claims])
Delivering(p, mails) ==
    Go(p, [Start EXCEPT !.pc = IF mails = {} THEN "recover" ELSE "send", !.mails = mails])

RuntimeInit ==
    /\ Init
    /\ proc = [p \in Processes |-> Start]
    /\ sent = {}
    /\ faults = 0

-----------------------------------------------------------------------------
(* process_once() *)

Recover(p) ==
    /\ At(p, "recover")
    /\ RecoverExpired
    /\ Go(p, [Start EXCEPT !.pc = "inbound"])
    /\ UNCHANGED <<sent, faults>>

Inbound(p) ==
    /\ At(p, "inbound")
    /\ ClaimTasks
    /\ Answering(p, {<<e, NextToken(e)>> : e \in Claimable})
    /\ UNCHANGED <<sent, faults>>

Handled(p, claim, result) ==
    Go(p, [proc[p] EXCEPT !.pc = "complete", !.claim = claim, !.result = result])

\* MUTANT of FailureNotice: a failed command is completed without a notice.
FailureNoticeSilent(p, claim, error) ==
    /\ Handled(p, claim, "FAILED")
    /\ UNCHANGED store

\* The handler raised, or its reply conflicted with an earlier one.  A notice
\* that conflicts in its turn ends the process.
FailureNotice(p, claim, error) ==
    LET n == <<claim[1], "failed">>
    IN  IF Conflicts(n, error)
        THEN Go(p, Start) /\ UNCHANGED store
        ELSE Enqueue(n, error) /\ Handled(p, claim, "FAILED")

Handle(p) ==
    /\ At(p, "handle")
    /\ \E claim \in proc[p].claims :
        \/ \E body \in Replies :
              LET n == <<claim[1], "reply">>
              IN  IF Conflicts(n, body) THEN FailureNotice(p, claim, Conflict)
                  ELSE Enqueue(n, body) /\ Handled(p, claim, "COMPLETED")
        \/ \E error \in Errors : FailureNotice(p, claim, error)
    /\ UNCHANGED <<sent, faults>>

\* complete_task() starts, and its statement sees the lease as it is now ...
StartComplete(p) ==
    /\ At(p, "complete")
    /\ Go(p, [proc[p] EXCEPT !.pc = "update", !.held = Leased(proc[p].claim[1], proc[p].claim[2])])
    /\ UNCHANGED <<store, sent, faults>>

\* ... and updates the task row once it has it.
FinishComplete(p) ==
    /\ At(p, "update")
    /\ Complete(proc[p].claim[1], proc[p].claim[2], proc[p].held, proc[p].result)
    /\ Answering(p, proc[p].claims \ {proc[p].claim})
    /\ UNCHANGED <<sent, faults>>

Outbound(p) ==
    /\ At(p, "outbox")
    /\ ClaimOutbox
    /\ Delivering(p, Deliverable)
    /\ UNCHANGED <<sent, faults>>

\* The channel takes the notification, or the call to it fails.
Send(p) ==
    /\ At(p, "send")
    /\ \E n \in proc[p].mails, accepted \in BOOLEAN :
        /\ Go(p, [proc[p] EXCEPT !.pc = "mark", !.mail = n, !.held = accepted])
        /\ sent' = IF accepted THEN sent \cup {n} ELSE sent
    /\ UNCHANGED <<store, faults>>

Mark(p) ==
    /\ At(p, "mark")
    /\ IF proc[p].held THEN MarkDelivered(proc[p].mail) ELSE MarkFailed(proc[p].mail)
    /\ Delivering(p, proc[p].mails \ {proc[p].mail})
    /\ UNCHANGED <<sent, faults>>

Step(p) == \/ Recover(p) \/ Inbound(p) \/ Handle(p) \/ StartComplete(p) \/ FinishComplete(p)
           \/ Outbound(p) \/ Send(p) \/ Mark(p)

-----------------------------------------------------------------------------
(* The channel, time, and faults *)

Receive(e) == Ingest(e) /\ UNCHANGED <<proc, sent, faults>>

Working(e) == \E p \in Processes : <<e, lease[e].token>> \in proc[p].claims
Sending(n) == \E p \in Processes : n \in proc[p].mails

\* The lease of work nobody does any more lapses; a lease that lapses under a
\* working process is a fault.
Lapse ==
    /\ \/ \E e \in Events : lease[e] # None /\ ~ Working(e) /\ LapseTask(e)
       \/ \E n \in Notices : ~ Sending(n) /\ LapseNotice(n)
    /\ UNCHANGED <<proc, sent, faults>>

Overrun ==
    /\ faults < MaxFaults
    /\ \/ \E e \in Events : lease[e] # None /\ Working(e) /\ LapseTask(e)
       \/ \E n \in Notices : Sending(n) /\ LapseNotice(n)
    /\ faults' = faults + 1
    /\ UNCHANGED <<proc, sent>>

Crash(p) ==
    /\ faults < MaxFaults
    /\ proc[p] # Start
    /\ Go(p, Start)
    /\ faults' = faults + 1
    /\ UNCHANGED <<store, sent>>

Wait(n) == BecomeDue(n) /\ UNCHANGED <<proc, sent, faults>>

Next ==
    \/ \E p \in Processes : Step(p) \/ Crash(p)
    \/ \E e \in Events : Receive(e)
    \/ \E n \in Notices : Wait(n)
    \/ Lapse \/ Overrun

Spec == RuntimeInit /\ [][Next]_vars

\* A process keeps going round, and time passes.
Fairness == /\ \A p \in Processes : WF_vars(Step(p))
            /\ \A n \in Notices : WF_vars(Wait(n))
            /\ WF_vars(Lapse)

FairSpec == Spec /\ Fairness

-----------------------------------------------------------------------------
(* Properties *)

TypeOK ==
    /\ task \in [Events -> TaskStates]
    /\ lease \in [Events -> Lease \cup {None}]
    /\ outbox \in [Notices -> Notice \cup {None}]
    /\ \A n \in Notices : log[n] \in Seq(AttemptStates)
    /\ proc \in [Processes -> Round]
    /\ sent \subseteq Notices
    /\ faults \in 0 .. MaxFaults

\* Whatever is in somebody's hands is in recovery's reach: a RUNNING task has
\* a lease and an IN_FLIGHT notification one that can lapse.  A completion of
\* a stale attempt, however late it gets the row, takes away nobody's lease.
NothingStranded ==
    /\ \A e \in Events : task[e] = "RUNNING" => lease[e] # None
    /\ \A n \in Notices : InFlight(n) <=> outbox[n] # None /\ outbox[n].lease # "none"

\* The delivery log tells the truth, attempt by attempt: one entry for every
\* claim of a notification, of which only the last is open, exactly while the
\* notification is in flight.
AttemptsAreLogged ==
    \A n \in Notices : outbox[n] # None =>
        /\ Len(log[n]) = outbox[n].attempts
        /\ \A i \in 1 .. Len(log[n]) :
              log[n][i] = "IN_FLIGHT" <=> InFlight(n) /\ i = Len(log[n])

\* No command is dropped in silence: a task is decided only after its answer
\* is in the outbox, the reply of a completed one, the notice of a failed one.
DecidedIsAnswered ==
    \A e \in Events :
        /\ task[e] = "COMPLETED" => outbox[<<e, "reply">>] # None
        /\ task[e] = "FAILED" => outbox[<<e, "failed">>] # None

\* DELIVERED and DEAD are final, whichever late sender reports: the row of a
\* delivered notification is not claimed again and no dead letter comes back.
\* (A sender whose lease has lapsed may still send what another has delivered.)
SettledStaysSettled ==
    [][\A n \in Notices : outbox[n] # None /\ outbox[n].state \in {"DELIVERED", "DEAD"}
          => outbox'[n] = outbox[n]]_vars

\* Every event taken in is decided, through crashes and lost leases ...
EveryEventDecided ==
    \A e \in Events : task[e] = "QUEUED" ~> task[e] \in {"COMPLETED", "FAILED"}

\* ... and every notification is delivered or dead in the end.
EveryNoticeSettles ==
    \A n \in Notices : outbox[n] # None
        ~> outbox[n] # None /\ outbox[n].state \in {"DELIVERED", "DEAD"}

\* ROADMAP.md: one event produces at most one outbox reply.
OneReplyPerEvent ==
    \A e \in Events : outbox[<<e, "reply">>] = None \/ outbox[<<e, "failed">>] = None
=============================================================================
