----------------------------- MODULE WatchQueue -----------------------------
(***************************************************************************)
(* The durable watch queue: the watch rows of fao.agent_task with their    *)
(* leases (channel_gateway/durable.py) and the workers that drain them     *)
(* through a WatchCoordinator (agent_orchestration/v3_runtime.py).         *)
(*                                                                         *)
(* A worker claims a batch, asks the owner about one event after another,  *)
(* hands the owner's reduction request to the reduction handler, and       *)
(* decides the row.  The workers run under one worker_id, as a worker and  *)
(* the one restarted in its place do, so that only the fencing token tells *)
(* them apart.  The owners' answers are inputs; cooldown and the limit on  *)
(* what is in flight are left at their defaults, which refuse nothing to a *)
(* worker that takes one event at a time, and a RETRY is due at once.      *)
(***************************************************************************)
EXTENDS Naturals

CONSTANTS Watcher,          \* worker processes
          Watched,          \* watch events, which are the keys of their rows
          MaxWatchTrouble   \* bound: deaths, lapses under a worker, failed hand-overs

VARIABLES watch,            \* task_state of each row, "NONE" before it exists
          watchLease,       \* task_lease of each row
          batch,            \* the token each worker holds for a row, 0 for none
          turn,             \* the event a worker is busy with
          seen,             \* DeterministicWatch._seen of each worker's process
          asked, reduced,   \* history: requests owners made, and handlers took
          watchTroubles

rowVars == <<watch, watchLease>>
watchVars == <<watch, watchLease, batch, turn, seen, asked, reduced, watchTroubles>>

Decided == {"COMPLETED", "FAILED"}
Unleased == [token |-> 0, lapsed |-> TRUE]
NoTurn == [step |-> "free", event |-> "none", answer |-> "none", saw |-> FALSE]
Turn(step, e, answer, saw) == [step |-> step, event |-> e, answer |-> answer, saw |-> saw]

WatchInit ==
    /\ watch = [e \in Watched |-> "NONE"]
    /\ watchLease = [e \in Watched |-> Unleased]
    /\ batch = [w \in Watcher |-> [e \in Watched |-> 0]]
    /\ turn = [w \in Watcher |-> NoTurn]
    /\ seen = [w \in Watcher |-> {}]
    /\ asked = {} /\ reduced = {} /\ watchTroubles = 0

Trouble == /\ watchTroubles < MaxWatchTrouble
           /\ watchTroubles' = watchTroubles + 1

-----------------------------------------------------------------------------
\* enqueue_watch_event(): the event is the key, and a replay changes nothing.
EnqueueWatch(e) ==
    /\ watch[e] = "NONE"
    /\ watch' = [watch EXCEPT ![e] = "QUEUED"]
    /\ UNCHANGED <<watchLease, batch, turn, seen, asked, reduced, watchTroubles>>

\* MUTANT of Due: only the rows nobody worked on yet.
DueQueued == {e \in Watched : watch[e] = "QUEUED" /\ watchLease[e].lapsed}
Due == {e \in Watched : watch[e] \in {"QUEUED", "RETRY"} /\ watchLease[e].lapsed}

\* claim_watch_events(): every due row, with the token after its lease's.
ClaimWatches(w) ==
    /\ turn[w] = NoTurn /\ \A e \in Watched : batch[w][e] = 0
    /\ Due # {}
    /\ watch' = [e \in Watched |-> IF e \in Due THEN "RUNNING" ELSE watch[e]]
    /\ watchLease' = [e \in Watched |->
          IF e \in Due THEN [token |-> watchLease[e].token + 1, lapsed |-> FALSE] ELSE watchLease[e]]
    /\ batch' = [batch EXCEPT ![w] = [e \in Watched |-> IF e \in Due THEN watchLease'[e].token ELSE 0]]
    /\ UNCHANGED <<turn, seen, asked, reduced, watchTroubles>>

\* process_with_retry(): an event this process has seen is not asked about
\* again.  Otherwise the owner makes a request or none, and the event is seen;
\* an owner that keeps failing is given up without an exception, whatever it
\* raises, since WatchCoordinator.process_with_retry catches it.
Ask(w, e) ==
    /\ turn[w] = NoTurn /\ batch[w][e] > 0
    /\ \/ /\ e \in seen[w]
          /\ turn' = [turn EXCEPT ![w] = Turn("deciding", e, "COMPLETED", FALSE)]
          /\ UNCHANGED <<seen, asked>>
       \/ /\ e \notin seen[w]
          /\ turn' = [turn EXCEPT ![w] = Turn("handing", e, "none", FALSE)]
          /\ seen' = [seen EXCEPT ![w] = @ \cup {e}]
          /\ asked' = asked \cup {e}
       \/ /\ e \notin seen[w]
          /\ turn' = [turn EXCEPT ![w] = Turn("deciding", e, "COMPLETED", FALSE)]
          /\ seen' \in {seen, [seen EXCEPT ![w] = @ \cup {e}]}
          /\ UNCHANGED asked
    /\ UNCHANGED <<rowVars, batch, reduced, watchTroubles>>

\* reduction_handler(): taken, failing for now (taken or not), or refused.
Hand(w) ==
    /\ turn[w].step = "handing"
    /\ \E answer \in {"COMPLETED", "RETRY", "FAILED"} :
          /\ IF answer = "RETRY" THEN Trouble ELSE UNCHANGED watchTroubles
          /\ turn' = [turn EXCEPT ![w] = Turn("deciding", turn[w].event, answer, FALSE)]
          /\ reduced' \in CASE answer = "COMPLETED" -> {reduced \cup {turn[w].event}}
                            [] answer = "RETRY" -> {reduced, reduced \cup {turn[w].event}}
                            [] answer = "FAILED" -> {reduced}
    /\ UNCHANGED <<rowVars, batch, seen, asked>>

Matches(w) == watchLease[turn[w].event].token = batch[w][turn[w].event]

\* complete_task() and retry_task() begin: the update's snapshot of the lease.
StartDecision(w) ==
    /\ turn[w].step = "deciding"
    /\ turn' = [turn EXCEPT ![w] = Turn("writing", turn[w].event, turn[w].answer, Matches(w))]
    /\ UNCHANGED <<rowVars, batch, seen, asked, reduced, watchTroubles>>

\* MUTANT of Changes: retry_task() does not look at the state of the row.
ChangesAny(w) == turn[w].saw
\* The update reads the row anew once it has its lock, and not the lease; a
\* completion does not look at the state.
Changes(w) == turn[w].saw /\ (turn[w].answer = "RETRY" => watch[turn[w].event] = "RUNNING")

\* The update, and the deletion of the lease it went by.
Decide(w) ==
    LET e == turn[w].event
    IN  /\ turn[w].step = "writing"
        /\ watch' = IF Changes(w) THEN [watch EXCEPT ![e] = turn[w].answer] ELSE watch
        /\ watchLease' = IF Changes(w) /\ Matches(w) THEN [watchLease EXCEPT ![e] = Unleased]
                         ELSE watchLease
        /\ batch' = [batch EXCEPT ![w] = [@ EXCEPT ![e] = 0]]
        /\ turn' = [turn EXCEPT ![w] = NoTurn]
        /\ UNCHANGED <<seen, asked, reduced, watchTroubles>>

-----------------------------------------------------------------------------
Lost == {e \in Watched : watch[e] = "RUNNING" /\ watchLease[e] # Unleased /\ watchLease[e].lapsed}

\* recover_expired(), which the gateway's runtime calls in every round.
RecoverWatches ==
    /\ Lost # {}
    /\ watch' = [e \in Watched |-> IF e \in Lost THEN "QUEUED" ELSE watch[e]]
    /\ UNCHANGED <<watchLease, batch, turn, seen, asked, reduced, watchTroubles>>

Abandoned(e) == \A w \in Watcher : batch[w][e] # watchLease[e].token
Lapses(e) ==
    /\ ~ watchLease[e].lapsed
    /\ watchLease' = [watchLease EXCEPT ![e] = [@ EXCEPT !.lapsed = TRUE]]
    /\ IF Abandoned(e) THEN UNCHANGED watchTroubles ELSE Trouble
    /\ UNCHANGED <<watch, batch, turn, seen, asked, reduced>>

\* An exception run_once() does not catch, or the end of the process, which
\* forgets what was seen.
Dies(w) ==
    /\ \E e \in Watched : batch[w][e] > 0
    /\ Trouble
    /\ batch' = [batch EXCEPT ![w] = [e \in Watched |-> 0]]
    /\ turn' = [turn EXCEPT ![w] = NoTurn]
    /\ seen' \in {seen, [seen EXCEPT ![w] = {}]}
    /\ UNCHANGED <<rowVars, asked, reduced>>

WatchStep(w) ==
    \/ ClaimWatches(w)
    \/ \E e \in Watched : Ask(w, e)
    \/ Hand(w) \/ StartDecision(w) \/ Decide(w)

WatchNext ==
    \/ \E e \in Watched : EnqueueWatch(e) \/ Lapses(e)
    \/ \E w \in Watcher : WatchStep(w) \/ Dies(w)
    \/ RecoverWatches

\* The workers' loops and the gateway's rounds go on, and time passes.
WatchFairness ==
    /\ \A w \in Watcher : WF_watchVars(WatchStep(w))
    /\ \A e \in Watched : WF_watchVars(Lapses(e) /\ Abandoned(e))
    /\ WF_watchVars(RecoverWatches)

WatchSpec == WatchInit /\ [][WatchNext]_watchVars /\ WatchFairness

-----------------------------------------------------------------------------
(* Properties *)

\* A decided event is never queued again: neither a late retry_task() of an
\* attempt that lost its lease, nor recovery, nor a token that was given out
\* twice brings back a row that another attempt has decided.
DecidedStaysDecided ==
    [][\A e \in Watched : watch[e] \in Decided => watch'[e] \in Decided]_watchVars

\* Every event is decided at last, whatever dies, lapses or fails in between.
WatchesSettle == \A e \in Watched : watch[e] = "QUEUED" ~> watch[e] \in Decided

\* "Return a leased task to RETRY after a transient worker failure": the retry
\* makes up for the failure, so that an event is COMPLETED, and nobody at work
\* on it, only when the reduction its owner asked for was handed over.
RequestedIsReduced ==
    \A e \in Watched :
        watch[e] = "COMPLETED" /\ e \in asked /\ (\A w \in Watcher : batch[w][e] = 0)
        => e \in reduced
=============================================================================
