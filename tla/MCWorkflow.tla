----------------------------- MODULE MCWorkflow -----------------------------
(***************************************************************************)
(* The durable run of an autonomy cycle, its task graph, and the watch     *)
(* queue beside them.  The three share no state, so a behaviour works on   *)
(* one of them: the run checks all at the cost of their sum.               *)
(***************************************************************************)
EXTENDS AutonomyWorkflow, WorkflowOrchestrator, WatchQueue, TLC

CONSTANTS p1, p2, p3, w1, w2, e1, e2, regime, market, research, critic

\* p1 and p3 were started with one worker_id.
MCNameOf == p1 :> w1 @@ p2 :> w2 @@ p3 :> w1

\* The chain market, research, critic, and a step on its own.
MCRank == market :> 1 @@ research :> 2 @@ critic :> 3 @@ regime :> 4
MCDeps == market :> {} @@ research :> {market} @@ critic :> {research} @@ regime :> {}
MCDeadlineAt == market :> 1 @@ research :> 2 @@ critic :> 2 @@ regime :> 2
MCExpiresAt == e1 :> 1 @@ e2 :> 2

MCInit == RunInit /\ GraphInit /\ WatchInit
MCNext ==
    \/ cycle = "NONE" /\ WatchInit /\ RunNext /\ UNCHANGED <<graphVars, watchVars>>
    \/ run = NoRun /\ WatchInit /\ GraphNext /\ UNCHANGED <<runVars, watchVars>>
    \/ run = NoRun /\ cycle = "NONE" /\ WatchNext /\ UNCHANGED <<runVars, graphVars>>
MCSpec ==
    /\ MCInit /\ [][MCNext]_<<runVars, graphVars, watchVars>>
    /\ RunFairness /\ WatchFairness
=============================================================================
