--------------------------- MODULE AutonomyWorkflow ---------------------------
(***************************************************************************)
(* One durable run of the autonomous cycle                                 *)
(* (agent_orchestration/v3_durable.py): its row and its history table in   *)
(* PostgreSQL, and the processes that call run() on it.  A process loads   *)
(* the row, takes the lease, has the owner of the next stage execute it    *)
(* and writes a checkpoint, stage after stage.  Between any two of these   *)
(* steps its lease can lapse, another process can take the run over, or    *)
(* the process can die.                                                    *)
(*                                                                         *)
(* A stage is its place in STAGE_ORDER.  The payloads, the references and  *)
(* the clock are left out: whether a lease has lapsed is what the caller's *)
(* clock says when it asks, a choice of the step, which costs one unit of  *)
(* trouble as crashes and interruptions do.                                *)
(***************************************************************************)
EXTENDS Naturals, Sequences

CONSTANTS Process,       \* the callers of run()
          WorkerId,      \* the names they pass as worker_id
          NameOf,        \* which process passes which name
          NoWorker,      \* no lease is held
          Last,          \* the index of the last stage
          MaxFence,      \* bound: the claims of a run
          MaxTrouble     \* bound: crashes, lapsed leases, interruptions

ASSUME WorkflowAssumption ==
    /\ NameOf \in [Process -> WorkerId]
    /\ NoWorker \notin WorkerId
    /\ Last \in Nat \ {0}
    /\ MaxFence \in Nat
    /\ MaxTrouble \in Nat

VARIABLES run,           \* the row of v3_autonomy_workflow_run
          history,       \* the rows of v3_autonomy_workflow_history, as inserted
          executed,      \* the stages some owner has executed
          call,          \* what each process is about to do
          copy,          \* the run each process holds in its local variable
          trouble        \* the trouble so far

runVars == <<run, history, executed, call, copy, trouble>>

Ended == {"COMPLETED", "DEFERRED", "FAILED"}
RunStatus == {"ACTIVE", "INTERRUPTED"} \union Ended
Run == [status: RunStatus \union {"NONE"}, stage: 0..Last, version: Nat, fence: Nat,
        owner: WorkerId \union {NoWorker}]
Row(status, stage, version, fence, owner) ==
    [status |-> status, stage |-> stage, version |-> version, fence |-> fence, owner |-> owner]
NoRun == Row("NONE", 0, 0, 0, NoWorker)
Calls == {"idle", "loaded", "running", "advance"} \union (RunStatus \ {"ACTIVE"})

RunTypeOK ==
    /\ run \in Run
    /\ history \in Seq([version: Nat, stage: 1..Last])
    /\ executed \subseteq 1..Last
    /\ call \in [Process -> Calls]
    /\ copy \in [Process -> Run]
    /\ trouble \in 0..MaxTrouble

RunInit ==
    /\ run = NoRun
    /\ history = <<>>
    /\ executed = {}
    /\ call = [p \in Process |-> "idle"]
    /\ copy = [p \in Process |-> NoRun]
    /\ trouble = 0

Goes(p, to) == call' = [call EXCEPT ![p] = to]

(***************************************************************************)
(* trigger(): a row for the key, or the row that is there (an equal        *)
(* payload), or an error (another payload): only the first one changes     *)
(* anything.                                                               *)
(***************************************************************************)
Trigger ==
    /\ run.status = "NONE"
    /\ run' = Row("ACTIVE", 0, 1, 0, NoWorker)
    /\ UNCHANGED <<history, executed, call, copy, trouble>>

(***************************************************************************)
(* load() returns and _revalidate() passes; an ended run is handed back,   *)
(* and a stale reference raises: both leave everything as it is.           *)
(***************************************************************************)
Load(p) ==
    /\ call[p] = "idle"
    /\ run.status \in {"ACTIVE", "INTERRUPTED"}
    /\ Goes(p, "loaded")
    /\ UNCHANGED <<run, history, executed, copy, trouble>>

(***************************************************************************)
(* What the WHERE of checkpoint() and of finish() compares with the row.   *)
(***************************************************************************)
\* MUTANT of Current: the owner alone, not the version and the fence.
CurrentOwner(p) == run.owner = NameOf[p]
Current(p) ==
    /\ run.version = copy[p].version
    /\ run.fence = copy[p].fence
    /\ run.owner = NameOf[p]

(***************************************************************************)
(* claim(), in one transaction on the locked row.  It asks for the lease   *)
(* only: a run that ended since it was loaded is made ACTIVE again.  A     *)
(* lease is taken from a process still at work under it when it lapsed, or *)
(* when both processes go by one name.                                     *)
(***************************************************************************)
Claimed(p) == Row("ACTIVE", run.stage, run.version + 1, run.fence + 1, NameOf[p])
AtWork(p) == call[p] \notin {"idle", "loaded"} /\ Current(p)

\* MUTANT of TakesLease: a lease is never taken over.
TakesUnheldLease(p) == run.owner = NoWorker /\ UNCHANGED trouble
\* The lease is free, held under the caller's name, or lapsed.
TakesLease(p) ==
    IF \E q \in Process \ {p} : AtWork(q)
    THEN trouble < MaxTrouble /\ trouble' = trouble + 1
    ELSE UNCHANGED trouble

Claim(p) ==
    /\ call[p] = "loaded"
    /\ run.fence < MaxFence
    /\ TakesLease(p)
    /\ run' = Claimed(p)
    /\ copy' = [copy EXCEPT ![p] = run']
    /\ Goes(p, "running")
    /\ UNCHANGED <<history, executed>>

ClaimRefused(p) ==
    /\ call[p] = "loaded"
    /\ run.owner \notin {NoWorker, NameOf[p]}
    /\ Goes(p, "idle")
    /\ UNCHANGED <<run, history, executed, copy, trouble>>

(***************************************************************************)
(* The owner executes the stage after the one in the process's copy, under *)
(* a key made of run and stage: executing it again has no second effect.   *)
(* It advances, defers or fails the run, or interrupts it (an exception    *)
(* out of the owner, or out of the checks of its result, does the same).   *)
(***************************************************************************)
Execute(p) ==
    /\ call[p] = "running"
    /\ copy[p].stage < Last
    /\ executed' = executed \union {copy[p].stage + 1}
    /\ \/ \E to \in {"advance", "DEFERRED", "FAILED"} : Goes(p, to) /\ UNCHANGED trouble
       \/ Goes(p, "INTERRUPTED") /\ trouble < MaxTrouble /\ trouble' = trouble + 1
    /\ UNCHANGED <<run, history, copy>>

Complete(p) ==
    /\ call[p] = "running"
    /\ copy[p].stage = Last
    /\ Goes(p, "COMPLETED")
    /\ UNCHANGED <<run, history, executed, copy, trouble>>

Advanced(p) == Row(run.status, copy[p].stage + 1, run.version + 1, run.fence, run.owner)

\* MUTANT of Checkpoint: that no row was updated goes unnoticed.
CheckpointUnchecked(p) ==
    /\ call[p] = "advance"
    /\ run' = IF Current(p) THEN Advanced(p) ELSE run
    /\ history' = IF Current(p) THEN Append(history, [version |-> run'.version, stage |-> run'.stage]) ELSE history
    /\ copy' = [copy EXCEPT ![p].stage = @ + 1]
    /\ Goes(p, "running")
    /\ UNCHANGED <<executed, trouble>>

Checkpoint(p) ==
    /\ call[p] = "advance"
    /\ Current(p)
    /\ run' = Advanced(p)
    /\ history' = Append(history, [version |-> run'.version, stage |-> run'.stage])
    /\ copy' = [copy EXCEPT ![p] = run']
    /\ Goes(p, "running")
    /\ UNCHANGED <<executed, trouble>>

\* A stale copy, or a lease that lapsed: the exception ends the run INTERRUPTED.
CheckpointRefused(p) ==
    /\ call[p] = "advance"
    /\ \/ ~Current(p) /\ UNCHANGED trouble
       \/ Current(p) /\ trouble < MaxTrouble /\ trouble' = trouble + 1
    /\ Goes(p, "INTERRUPTED")
    /\ UNCHANGED <<run, history, executed, copy>>

Finished(p) == Row(call[p], run.stage, run.version + 1, run.fence, NoWorker)

(***************************************************************************)
(* finish(): it asks for version, fence and owner, never for the expiry of *)
(* the lease.  A stale one raises out of run() and changes nothing.        *)
(***************************************************************************)
Finish(p) ==
    /\ call[p] \in RunStatus
    /\ run' = IF Current(p) THEN Finished(p) ELSE run
    /\ copy' = [copy EXCEPT ![p] = NoRun]
    /\ Goes(p, "idle")
    /\ UNCHANGED <<history, executed, trouble>>

\* The process dies between two steps and forgets what it held.
Crash(p) ==
    /\ call[p] # "idle"
    /\ trouble < MaxTrouble
    /\ trouble' = trouble + 1
    /\ copy' = [copy EXCEPT ![p] = NoRun]
    /\ Goes(p, "idle")
    /\ UNCHANGED <<run, history, executed>>

Work(p) ==
    \/ Load(p) \/ Claim(p) \/ Execute(p) \/ Complete(p)
    \/ Checkpoint(p) \/ CheckpointRefused(p) \/ Finish(p)

RunNext == Trigger \/ \E p \in Process : Work(p) \/ ClaimRefused(p) \/ Crash(p)

(***************************************************************************)
(* The scheduler calls run() again while the run has not ended, and a call *)
(* goes on.                                                                *)
(***************************************************************************)
RunFairness == \A p \in Process : WF_runVars(Work(p))
RunSpec == RunInit /\ [][RunNext]_runVars /\ RunFairness

-----------------------------------------------------------------------------
(***************************************************************************)
(* The history is one path through the stages: every stage up to the run's *)
(* own is there once, in order, under versions that rise and that the run  *)
(* has reached; a run is COMPLETED only at the last one.  (checkpoint():   *)
(* the version, fence and owner in its WHERE.)                             *)
(***************************************************************************)
OnePath ==
    /\ Len(history) = run.stage
    /\ \A i \in DOMAIN history : history[i].stage = i /\ history[i].version <= run.version
    /\ \A i, j \in DOMAIN history : i < j => history[i].version < history[j].version
    /\ run.status = "COMPLETED" => run.stage = Last

(***************************************************************************)
(* No owner executes a stage before the one in front of it is in the       *)
(* checkpoint, whoever else holds the run meanwhile: what has been         *)
(* executed is what the checkpoint says, and at most the stage after it.   *)
(* (run(): a refused checkpoint ends the call.)                            *)
(***************************************************************************)
EffectsAreCheckpointed == executed \subseteq 1..(run.stage + 1)

(***************************************************************************)
(* A triggered run ends, through crashes, lapsed leases and interruptions, *)
(* while run() is called again.  (claim(): a lapsed lease is taken over,   *)
(* and an INTERRUPTED run is resumed.)                                     *)
(***************************************************************************)
RunEnds == (run.status = "ACTIVE" /\ run.fence = 0) ~> (run.status \in Ended)
=============================================================================
