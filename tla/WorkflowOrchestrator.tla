------------------------- MODULE WorkflowOrchestrator -------------------------
(***************************************************************************)
(* The task graph of one autonomy cycle (agent_orchestration/workflow.py): *)
(* its decision episodes, the delegation plan each of them may accept, and *)
(* the tasks of the plan.  Every handler runs under one lock and is one    *)
(* action here, with the sweep for deadlines it begins with; the sweep     *)
(* stays done when the handler then refuses.  Callers hand in the time, so *)
(* it may run backwards from one call to the next.                         *)
(*                                                                         *)
(* All plans have the steps, dependencies and deadlines the constants      *)
(* give.  Artifacts are left out but for one bit: whether the inputs of a  *)
(* task hold the results of the tasks it depends on.                       *)
(***************************************************************************)
EXTENDS Naturals, FiniteSets

CONSTANTS Episode,       \* the candidates of the cycle
          Step,          \* the steps of a delegation plan
          Rank,          \* their places in the plan
          Deps,          \* what each step depends on
          Results,       \* the statuses a worker reports
          Critic,        \* the step of the Pre-Trade Critic
          MaxParallel,   \* max_parallel_tasks of the plan's budget
          DeadlineAt,    \* when each step times out
          ExpiresAt,     \* when each episode expires
          Horizon        \* bound: the latest time, when the cycle expires

ASSUME GraphAssumption ==
    /\ IsFiniteSet(Step)
    /\ Rank \in [Step -> Nat]
    /\ \A s, r \in Step : Rank[s] = Rank[r] => s = r
    /\ Deps \in [Step -> SUBSET Step]
    /\ \A s \in Step : \A d \in Deps[s] : d # s
    /\ Critic \in Step /\ Deps[Critic] # {}
    /\ Results \subseteq {"COMPLETED", "DEFERRED", "FAILED", "SKIPPED"}
    /\ MaxParallel \in Nat \ {0}
    /\ Horizon \in Nat
    /\ DeadlineAt \in [Step -> 0..Horizon]
    /\ ExpiresAt \in [Episode -> 0..Horizon]

VARIABLES cycle,         \* the status of the cycle
          episode,       \* the status of each episode
          task,          \* the status of each task of each episode
          resolved,      \* the tasks whose inputs hold their dependencies' results
          rejected       \* the episodes whose Critic said REJECT

graphVars == <<cycle, episode, task, resolved, rejected>>

TerminalTasks == {"COMPLETED", "DEFERRED", "FAILED", "CANCELLED", "TIMED_OUT", "SKIPPED"}
TaskStatus == {"PENDING", "RUNNING"} \union TerminalTasks
TerminalEpisodes == {"COMPLETED", "DEFERRED", "CANCELLED", "TIMED_OUT"}
Failed == TerminalTasks \ {"COMPLETED"}

GraphTypeOK ==
    /\ cycle \in {"NONE", "RUNNING", "COMPLETED", "DEFERRED", "TIMED_OUT"}
    /\ episode \in [Episode -> {"NONE", "RUNNING"} \union TerminalEpisodes]
    /\ task \in [Episode -> [Step -> {"NONE"} \union TaskStatus]]
    /\ resolved \in [Episode -> SUBSET Step]
    /\ rejected \subseteq Episode

GraphInit ==
    /\ cycle = "NONE"
    /\ episode = [e \in Episode |-> "NONE"]
    /\ task = [e \in Episode |-> [s \in Step |-> "NONE"]]
    /\ resolved = [e \in Episode |-> {}]
    /\ rejected = {}

Times == 0..Horizon
All(t, S) == \A s \in Step : t[s] \in S
Planned(t) == \E s \in Step : t[s] # "NONE"
Live(t) == {s \in Step : t[s] \in {"PENDING", "RUNNING"}}
Deadline(e, s) == IF DeadlineAt[s] < ExpiresAt[e] THEN DeadlineAt[s] ELSE ExpiresAt[e]
Marked(t, S, status) == [s \in Step |-> IF s \in S THEN status ELSE t[s]]

(***************************************************************************)
(* _propagate_terminal_dependencies: the loop skips the pending tasks with *)
(* a failed dependency, and those that depend on them, until a round finds *)
(* none; there are no more rounds than pending tasks.                      *)
(***************************************************************************)
InStatus(t, S) == {s \in Step : t[s] \in S}
Pending(t) == InStatus(t, {"PENDING"})
Hit(pending, ended) == {s \in pending : Deps[s] \intersect ended # {}}
Skipped(pending, failed) ==
    LET skipped[n \in 0..Cardinality(pending)] ==
            IF n = 0 THEN {} ELSE Hit(pending, failed \union skipped[n - 1])
    IN  skipped
\* MUTANT of Doomed: one pass of the loop, the end of a chain is left waiting.
DoomedOnce(pending, failed) == Hit(pending, failed)
Doomed(pending, failed) ==
    IF failed = {} THEN {} ELSE Skipped(pending, failed)[Cardinality(pending)]
Propagated(t) == Marked(t, Doomed(Pending(t), InStatus(t, Failed)), "SKIPPED")

\* _close_episode_if_terminal: the status of a running episode with tasks t.
\* MUTANT of Closed: the Critic's REJECT, a task that is COMPLETED, is not looked at.
ClosedOnTasks(t, rej) ==
    IF ~Planned(t) \/ ~All(t, TerminalTasks) THEN "RUNNING"
    ELSE IF All(t, {"COMPLETED"}) THEN "COMPLETED" ELSE "DEFERRED"
Closed(t, rej) ==
    IF ~Planned(t) \/ ~All(t, TerminalTasks) THEN "RUNNING"
    ELSE IF ~rej /\ All(t, {"COMPLETED"}) THEN "COMPLETED" ELSE "DEFERRED"

\* _close_cycle_if_done, called when an episode closes.
Started(eps) == {e \in Episode : eps[e] # "NONE"}
CycleAfter(eps) ==
    IF cycle # "RUNNING" \/ \E e \in Started(eps) : eps[e] \notin TerminalEpisodes THEN cycle
    ELSE IF \A e \in Started(eps) : eps[e] = "COMPLETED" THEN "COMPLETED" ELSE "DEFERRED"

(***************************************************************************)
(* _timeout: tasks past their deadline, then what depends on them, then    *)
(* the episode by its tasks, then the episode by its own expiry, which     *)
(* takes the tasks that are left with it.                                  *)
(***************************************************************************)
\* MUTANT of TimedOut: a task that has ended times out as well.
TimedOutAny(e, now) == Marked(task[e], {s \in Step : task[e][s] # "NONE" /\ now >= Deadline(e, s)}, "TIMED_OUT")
TimedOut(e, now) == Marked(task[e], {s \in Live(task[e]) : now >= Deadline(e, s)}, "TIMED_OUT")

Swept(e, now) ==
    IF episode[e] # "RUNNING" THEN [tasks |-> TimedOut(e, now), status |-> episode[e]]
    ELSE LET t == Propagated(TimedOut(e, now))
             closed == Closed(t, e \in rejected)
         IN  IF closed = "RUNNING" /\ now >= ExpiresAt[e]
             THEN [tasks |-> Marked(t, Live(t), "TIMED_OUT"), status |-> "TIMED_OUT"]
             ELSE [tasks |-> t, status |-> closed]

(***************************************************************************)
(* Every operation on an episode begins with the sweep at its own clock:   *)
(* the actions take its outcome w.  Episode e ends up with tasks t and     *)
(* status st, and the cycle follows.                                       *)
(***************************************************************************)
Becomes(e, t, st) ==
    LET eps == [episode EXCEPT ![e] = st]
    IN  /\ task' = [task EXCEPT ![e] = t]
        /\ episode' = eps
        /\ cycle' = IF st # episode[e] THEN CycleAfter(eps) ELSE cycle

Sweeps(e, w) == Becomes(e, w.tasks, w.status)

-----------------------------------------------------------------------------
\* An equal trigger returns the cycle, another fact under its key is refused.
StartCycle ==
    /\ cycle = "NONE"
    /\ cycle' = "RUNNING"
    /\ UNCHANGED <<episode, task, resolved, rejected>>

StartEpisode(e) ==
    /\ cycle = "RUNNING"
    /\ episode[e] = "NONE"
    /\ episode' = [episode EXCEPT ![e] = "RUNNING"]
    /\ UNCHANGED <<cycle, task, resolved, rejected>>

\* The plan an episode has is returned, and a second one refused.
AcceptPlan(e) ==
    /\ episode[e] = "RUNNING"
    /\ ~Planned(task[e])
    /\ task' = [task EXCEPT ![e] = [s \in Step |-> "PENDING"]]
    /\ UNCHANGED <<cycle, episode, resolved, rejected>>

(***************************************************************************)
(* ready_tasks: of the tasks whose dependencies are COMPLETED the first    *)
(* ones, as many as there are slots; all of them get their inputs.         *)
(***************************************************************************)
Running(t) == {s \in Step : t[s] = "RUNNING"}
Ready(t) == {s \in Pending(t) : \A d \in Deps[s] : t[d] = "COMPLETED"}
Offered(t) ==
    LET ready == Ready(t)
    IN  {s \in ready :
            Cardinality({r \in ready : Rank[r] < Rank[s]}) + Cardinality(Running(t)) < MaxParallel}

Resolves(e, S) == resolved' = [resolved EXCEPT ![e] = @ \union S]

ReadyTasks(e, w) ==
    /\ episode[e] # "NONE"
    /\ Sweeps(e, w)
    /\ Resolves(e, IF w.status = "RUNNING" THEN Ready(w.tasks) ELSE {})
    /\ UNCHANGED rejected

\* claim_ready_tasks: any number of the first ones becomes RUNNING.
ClaimReadyTasks(e, w, limit) ==
    LET offered == Offered(w.tasks)
        first == {s \in offered : Cardinality({r \in offered : Rank[r] < Rank[s]}) < limit}
    IN  /\ w.status = "RUNNING"
        /\ Becomes(e, Marked(w.tasks, first, "RUNNING"), "RUNNING")
        /\ Resolves(e, Ready(w.tasks))
        /\ UNCHANGED rejected

(***************************************************************************)
(* _complete_task: a running task, or a pending one that ready_tasks would *)
(* offer.  The pending one keeps the inputs it was read with, whatever     *)
(* ready_tasks has just written to its row.                                *)
(***************************************************************************)
Completes(t, s) == t[s] = "RUNNING" \/ s \in Offered(t)

Completed(e, s, w, status, rej) ==
    LET ready == IF w.status = "RUNNING" /\ w.tasks[s] = "PENDING" THEN Ready(w.tasks) ELSE {}
        done == Propagated(Marked(w.tasks, {s}, status))
    IN  IF w.status = "RUNNING" /\ Completes(w.tasks, s)
        THEN /\ Becomes(e, done, Closed(done, rej \/ e \in rejected))
             /\ Resolves(e, ready \ {s})
             /\ rejected' = IF rej THEN rejected \union {e} ELSE rejected
        ELSE Sweeps(e, w) /\ Resolves(e, ready) /\ UNCHANGED rejected

CompleteTask(e, s, w, status) ==
    /\ s # Critic
    /\ Planned(task[e])
    /\ Completed(e, s, w, status, FALSE)

(***************************************************************************)
(* complete_critic_task: the Critic's verdict on the live artifacts its    *)
(* inputs name; PASS and REJECT complete the task, REVISE and DEFER defer. *)
(***************************************************************************)
CompleteCriticTask(e, w, verdict) ==
    /\ task[e][Critic] \in {"PENDING", "RUNNING"}
    /\ Critic \in resolved[e]
    /\ Completed(e, Critic, w, IF verdict = "DEFER" THEN "DEFERRED" ELSE "COMPLETED",
                 verdict = "REJECT")

\* cancel_episode; an episode the sweep has ended is returned as it is.
CancelEpisode(e, w) ==
    /\ episode[e] # "NONE"
    /\ IF w.status = "RUNNING"
       THEN Becomes(e, Marked(w.tasks, Live(w.tasks), "CANCELLED"), "CANCELLED")
       ELSE Sweeps(e, w)
    /\ UNCHANGED <<resolved, rejected>>

\* recover: a sweep of every episode; a cycle without one ends at its expiry.
Recover(now) ==
    /\ UNCHANGED <<resolved, rejected>>
    /\ LET w == [e \in Episode |-> Swept(e, now)]
           eps == [e \in Episode |-> w[e].status]
       IN  /\ episode' = eps
           /\ task' = [e \in Episode |-> w[e].tasks]
           /\ cycle' = IF eps # episode THEN CycleAfter(eps)
                       ELSE IF cycle = "RUNNING" /\ Started(eps) = {} /\ now >= Horizon
                       THEN "TIMED_OUT" ELSE cycle

GraphNext ==
    \/ StartCycle
    \/ \E e \in Episode : StartEpisode(e) \/ AcceptPlan(e)
    \/ \E now \in Times : Recover(now)
    \/ \E e \in Episode, now \in Times :
          LET w == Swept(e, now)
          IN  \/ ReadyTasks(e, w) \/ CancelEpisode(e, w)
              \/ \E limit \in 1..MaxParallel : ClaimReadyTasks(e, w, limit)
              \/ \E s \in Step, status \in Results : CompleteTask(e, s, w, status)
              \/ \E verdict \in {"PASS", "REJECT", "DEFER"} : CompleteCriticTask(e, w, verdict)

GraphSpec == GraphInit /\ [][GraphNext]_graphVars

-----------------------------------------------------------------------------
(***************************************************************************)
(* Nothing runs or completes ahead of what it depends on; what depends on  *)
(* a failure does not wait for ever; no more run than the budget allows;   *)
(* and what runs, and the Critic's verdict, rest on the results they were  *)
(* to be given.  (ready_tasks, _propagate_terminal_dependencies,           *)
(* complete_critic_task.)                                                  *)
(***************************************************************************)
DependenciesFirst ==
    \A e \in Episode :
        /\ \A s \in Step, d \in Step : d \in Deps[s] =>
              /\ task[e][s] \in {"RUNNING", "COMPLETED"} => task[e][d] = "COMPLETED"
              /\ task[e][s] = "PENDING" => task[e][d] \notin Failed
        /\ Cardinality(Running(task[e])) <= MaxParallel
        /\ Running(task[e]) \subseteq resolved[e]
        /\ task[e][Critic] = "COMPLETED" => Critic \in resolved[e]

(***************************************************************************)
(* Cycle, episode and tasks tell one story: an episode with a plan runs    *)
(* exactly while a task of it does, is COMPLETED only when all its tasks   *)
(* are and its Critic did not reject, and the cycle closes with the last   *)
(* of its episodes.  (_close_episode_if_terminal, _close_cycle_if_done.)   *)
(***************************************************************************)
EpisodesAgree ==
    /\ \A e \in Episode :
          /\ Planned(task[e]) => (episode[e] = "RUNNING" <=> Live(task[e]) # {})
          /\ episode[e] = "COMPLETED" => All(task[e], {"COMPLETED"}) /\ e \notin rejected
          /\ episode[e] = "TIMED_OUT" => ~Planned(task[e])
    /\ cycle \in {"COMPLETED", "DEFERRED"} <=>
          /\ Started(episode) # {}
          /\ \A e \in Started(episode) : episode[e] \in TerminalEpisodes
    /\ cycle = "COMPLETED" => \A e \in Started(episode) : episode[e] = "COMPLETED"

(***************************************************************************)
(* What has ended, task, episode or cycle, stays as it ended, through late *)
(* completions, cancellations and sweeps with any clock.  (_timeout,       *)
(* _complete_task, cancel_episode.)                                        *)
(***************************************************************************)
EndedStaysEnded ==
    [][/\ cycle \notin {"NONE", "RUNNING"} => cycle' = cycle
       /\ \A e \in Episode :
             /\ episode[e] \in TerminalEpisodes => episode'[e] = episode[e]
             /\ \A s \in Step : task[e][s] \in TerminalTasks => task'[e][s] = task[e][s]]_graphVars
=============================================================================
