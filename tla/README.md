# A specification of futures-agent-os

TLA+ modules, TLC configurations and TLAPS proofs for the parts of
futures-agent-os whose correctness depends on the order in which things happen:
who may reserve risk budget, which authorization may become an order, which
command an order has seen, which message was answered. Source paths below are
relative to `src/futures_agent_os/`.

1. [The system](#1-the-system) – inventory of components
2. [What is hard in it](#2-what-is-hard-in-it)
3. [Modules and the code they model](#3-modules-and-the-code-they-model)
4. [Runs](#4-runs): bounds, fairness, results
5. [Disagreements](#5-disagreements-between-code-and-documents)
6. [Proofs](#6-proofs)
7. [What is not modelled](#7-what-is-not-modelled)
8. [Plan](#8-plan)

## 1. The system

The program researches futures strategies and trades them *in simulation*. A
deterministic kernel owns risk, orders and the ledger; language-model agents only
propose. No real orders are sent.

| Component | State | Operations | Talks to |
|---|---|---|---|
| Risk budget ledger (`portfolio_risk/reservation_contracts.py`) | reservations by id and by key, under one RLock | `reserve`, `release`, `shrink`, `consume`, `consume_with_commit`, `reconcile`, `expire` | called by the submission service and by the pause coordinator; calls back into the receipt registry while holding its lock |
| Autonomy contracts (`decision/autonomy_contracts.py`) | registries: bases, approvals, receipts (issued, invalidated, consumed), tracked artifacts, each under its own lock; mandates and bindings are immutable versions | issue, final gate, mark consumed, invalidate; composite pause, resume | the ledger |
| Trade plan submission (`decision/submit_trade_plan.py`, `submission.py`) | none of its own; a call captures clock, plan, evidence and mandate | `submit`: validate, preflight, size, reserve, gate, issue the receipt, consume both | ledger, registries; optionally PostgreSQL |
| PostgreSQL repository (`decision/postgres_repository.py`, `migrations/`) | mandates, bindings, bases, receipts, reservations, execution facts | owner functions with row locks | the durable form of the same chain |
| Manual tests (`decision/manual_application.py`, `manual_test.py`) | append-only approval events | `request`, `decide`, `run` | submission, execution, audit log |
| Order processor (`execution_simulation/order_processor.py`, `Order` of `decision/trade_contracts.py`) | orders, command outcomes, fingerprints, last event sequence | `register`, `transition`, `apply_fill`, `snapshot`, `restore` | fed by the execution engine and the paper adapter |
| Durable order processor (same file) | the above in a JSON file behind `flock` | the same, each: lock, reload, apply, replace the file | other processes, through the file |
| Protection (`execution_simulation/protection.py`) | protective actions by idempotency key, optionally a file | trigger, validate, issue | orders, positions |
| Paper adapter (`execution_simulation/paper_adapter.py`) | none | reconcile an external execution, import fills | order processor |
| Execution and fill models (`engine.py`, `fill_model.py`, `l2_model.py`, replays) | none across calls | fills from bars, books and ticks | order processor |
| Simulation account (`accounting_settlement/ledger.py`) | cash, margin, lots, fills and settlements seen | `apply_fill`, `close`, `settle`, `mark_to_market`, margin | audit log |
| Audit log (`accounting_settlement/durable.py`) | hash-chained events in a file behind `flock` | append, append an episode, correct, verify, replay, reconcile | account |
| Channel gateway (`channel_gateway/`) | PostgreSQL inbox, tasks with leases, outbox with its attempt log, control callbacks | ingest, claim, complete, retry, enqueue, deliver, recover, dispatch a control | Feishu SDK, operator command handler |
| Agent orchestration (`agent_orchestration/`) | workflow tasks with leases and fencing, checkpoints, agent catalog and tool permissions | claim, heartbeat, complete, resume a cycle | PostgreSQL, model adapters |
| Governance, learning, operations, security | immutable registries, projections, evidence | publish, review, drill | everything |
| Reference and market data, market intelligence | immutable versioned data | resolve as of a date, compute features | research, decision |
| Research (`research_experiment/`, half of the source) | experiment records | offline evaluation | data, model adapters |

What makes each of the modelled ones correct:

* **ledger** – HELD losses never exceed the ceiling for any interleaving of callers
  and any clocks they pass; a settled reservation never comes back;
* **submission** – one order per authorization, nothing revoked is spent, receipt and
  reservation are consumed together or not at all, no rejected call keeps budget;
* **order processor** – every command has one outcome and one effect, the fills of an
  order add up, a terminal status is final;
* **its durable form** – an answered command survives crashes and other processes, and
  the file can always be loaded again;
* **gateway** – every event is answered and every notification ends, whatever lapses
  or crashes; a decided watch event stays decided;
* **PostgreSQL chain** – a chain is stored whole or not at all and agrees with the approval it
  consumed, stopping a mandate leaves nothing issued under it, and a plan has one order over
  all its retries;
* **manual tests** – a consumed approval runs one episode;
* **account and audit log** – profit is conserved however fills, closes and settlements are
  ordered, episodes are in the file whole, and the file replays to the account;
* **protection** – a request that was answered keeps its action;
* **workflow** – the checkpoints of a run are one path through its stages, cycle, episodes
  and tasks tell one story, and runs end.

## 2. What is hard in it

`PROJECT.json` lists the hazards line by line. They come in seven families.

*Locks taken in turn.* `submit()` is a chain of calls into four registries with a lock
each. Only `consume_with_commit` spans two of them. Between any two steps other
submissions, a pause or the ledger's owner may run.

*Captured arguments.* A call reads its clock, evidence, mandate and health once. The
ledger sees times that run backwards; nothing sees a mandate twice.

*Replays.* Each operation is meant to be retried: a reservation, a receipt, a command,
an event, a notification. A replay must be told apart from a conflict and from a
repeat of something that has ended since.

*Half-done operations.* A constructor that raises after the sequence was consumed, a
gate that fails after the reservation was made, a file that cannot be written after
memory changed.

*Crashes and several processes.* The order file and the gateway's tables are shared.
Leases lapse under a process that is merely slow, and its work is done twice.

*Stale claims.* A worker that lost its lease, a transaction that waited for a row, a store
that loaded its file long ago: each acts on what it saw, and only a token, a version or a
check under the lock tells it that it is late.

*Limits.* The ceiling, the last fill of an order, the last delivery attempt.

## 3. Modules and the code they model

| Module | Models |
|---|---|
| `RiskBudgetLedger` | `RiskBudgetLedger`; one action per operation, one row per reservation key |
| `OrderAuthority` | abstract: a grant is open, then revoked for ever or spent once, and a spent grant creates exactly one order |
| `SubmitTradePlan` | concurrent `submit()` calls, pauses and resumes over an instance of `RiskBudgetLedger`; implements `OrderAuthority` |
| `OrderCommands` | orders and the processor as values: what each call answers and leaves behind |
| `OrderInbox` | abstract: an identity is executed once and moves one order along its life cycle |
| `OrderProcessor` | `OrderCommandProcessor` in memory; implements `OrderInbox` |
| `DurableOrderProcessor` | processes, the state file, its lock, failing writes and crashes; its file is an `OrderInbox` |
| `GatewayStore` | the tables and transactions of `PostgresGatewayStore` |
| `GatewayRuntime` | `GatewayRuntime.process_once` with its inbound and outbox workers, over `GatewayStore` |
| `WatchQueue` | the watch rows of the same store, `DurableWatchWorker` and the coordinator's memory of what it has seen |
| `DurableSubmission` | the transactions of the PostgreSQL repository and of `ManualTestApplication`, row lock by row lock |
| `SimulationAccount` | the account projection, as functions from an account to an account |
| `AuditedAccount` | `DurableAuditLog` over the account: several writers, one file, corrections, replay and reconciliation |
| `ManualApprovals` | `ManualTestApprovalStore`: one approval, several stores on one file |
| `ProtectiveActions` | `DurableProtectiveActionRegistry` in the one process that owns its file |
| `AutonomyWorkflow` | one durable run of the autonomous cycle: leases, fencing, checkpoints |
| `WorkflowOrchestrator` | episodes, delegation plans and tasks under deadlines |
| `WorkflowProofs` | theorems about `WorkflowOrchestrator`, `AutonomyWorkflow` and `WatchQueue` |
| `RecordsProofs` | theorems about `DurableSubmission`, `AuditedAccount`, `ManualApprovals` and `ProtectiveActions` |
| other `...Proofs` | theorems about the module they are named after; `GatewayRuntimeProofs` also about `GatewayStore` |
| `MC...` | model values, symmetry and composition for TLC |

`MCKernel`, `MCWorkflow` and `MCRecords` put components side by side that share no state.
Each step of a behaviour is a step of one component, taken while the others are in their
initial states, so that the states of the run are the sum and not the product of theirs.
Components that do interact are composed by `INSTANCE` and `EXTENDS`: the chain and its
ledger, the durable processor and the commands, the runtime and its store, the log and its
account.

Operators named in a comment `MUTANT of X` are wrong versions of `X`, each with a bug
of the kind a change to that code could bring in. Nothing uses them; putting one in
the place of `X` must break the property `PROJECT.json` names, which shows that the
property depends on the code.

**RiskBudgetLedger.** `rows` is `_reservations`, keyed by `(plan, version, basis)`. A
reservation id is a digest of the key and the first contents, so a second reservation
with a key is the same row or a conflict; `Admits` is the answer of `reserve()`. Each
operation takes whatever `now` its caller has. A constitution mismatch returns before
anything is touched and is a stutter. Losses are small naturals for `Decimal`s: the
code only adds and compares them.

**SubmitTradePlan.** An attempt is one call of `submit()`; its program counter is where
the call stands between two lock releases:

| Action | Code |
|---|---|
| `Begin` | plan validation and preflight; captures the arguments |
| `Reserve` | `_reservation()` and `ledger.reserve()` |
| `GateCheck` | `AutonomyGate.final_gate` up to the registry |
| `IssueReceipt` | `ReceiptIssuanceRegistry.issue` |
| `ReleaseRejected` | the release after a gate without a receipt |
| `Prepare` | `TradePlanSubmitter.submit`, `Order.from_execution_plan`; may stop at the authorization, raise, or give no execution plan |
| `EnterConsume`, `MarkConsumed`, `CommitConsume` | `consume_with_commit` around `mark_consumed` |
| `Track`, `Pause`, `InvalidateTracked`, `ReleaseTracked`, `Resume` | `BindingArtifactCoordinator`, `CompositePause`, `CompositeResume` |
| `LedgerOwner` | `shrink`, `reconcile`, `expire` by others |

A basis is deterministic in its plan and its source, so it is a pair of the two. A
receipt is known by the evidence snapshot, the only part of its fingerprint that two
calls with one basis can differ in. The `RISK_DECISION_STALE` branch compares two
results of one deterministic function on the same arguments and cannot be taken. That
`TradePlanSubmitter.submit` gives no execution plan can happen when the gate finds the receipt
of an earlier call and it has expired since: a manual test whose caller passes a binding.
`Prepare` allows it of every call.

**OrderCommands, OrderProcessor.** The processor's four dictionaries are a record. A
payload is a fill of a quantity or a transition to a status; `Answer` and `Executed`
follow `_begin_command` (recorded, conflict, gap, new) and then `transition` or
`apply_fill`. `Raises` is the case in which `Order.transition` reaches the checks of
`Order.__post_init__` with a filled quantity that does not fit.

**DurableOrderProcessor.** `Register` and `Apply` stand for the lock, the reload and the
change in memory, `Replace` for `os.replace`, `Return` for the release of the lock and
the answer, `PersistFails` for an exception while writing, `Crash` for the death of a
process anywhere, whose lock the kernel releases and whose successor loads the file.

**GatewayStore, GatewayRuntime.** One action per transaction. `complete_task` is two
steps, because under PostgreSQL's READ COMMITTED its UPDATE reads the lease in the
snapshot it started with, waits for the row, and re-checks only the row. The workers of
every runtime have the same two names, so names are left out: a task lease is known by
its token, a delivery lease not at all. A claim takes every claimable row; the limit of
ten and SKIP LOCKED defer rows to a later claim. A dead letter is written in the
transaction that makes the row DEAD, and DEAD is where the model records it. The other
statements are taken as atomic.

**WatchQueue.** `ClaimWatches` is `claim_watch_events` with the budget check of
`claim_tasks`, `Ask` is `process_with_retry` (the event is in `_seen` from then on), `Hand`
the reduction handler with its three outcomes, `StartDecision` and `Decide` the two halves of
`complete_task` or `retry_task` (the lease read before the row is locked), `RecoverWatches`
is `recover_expired`. `retry_task` deletes the lease, so tokens start again at 1. An owner that
raises `TypeError` or `ValueError` does not make its row FAILED:
`WatchCoordinator.process_with_retry` catches both and answers as if there were no request, so
with that coordinator only the reduction handler reaches the `except` of the worker.

**DurableSubmission.** A transaction is the list of the rows it locks, in the order of its
statements (`Script`). `Lock` takes the next row and checks it as the statement's WHERE or the
SQL function does (`Passes`), `Commit` makes everything visible at once, `Rollback` ends it at
any point. Rows that are waited for are seen as they are when the lock is granted (READ
COMMITTED). The deadlock of `consume` (receipt first) with a pause (mandate first) is in the
model, broken by the rollback of either.

| Operation | Code |
|---|---|
| `authorize`, `submit` | `persist_authorization_chain`, `persist_submission_chain` of an agent's plan |
| `consume` | `consume_receipt_and_reservation` and `append_execution_facts` of an authorized one |
| `run` | `ManualTestApplication.run` |
| `request`, `decide` | `request_agent_plan_approval`; `grant_plan_approval` and `ManualTestApplication.decide` |
| `pause`, `resume` | `composite_pause`, `composite_resume` |
| `halt` | `transition_simulation_autonomy_mandate` out of ACTIVE |
| `mode`, `retire` | `pause_autonomy_mode`, `retire_autonomy_mode_binding` |

A basis is a plan and its source: a version of the mandate, or the approval of that one plan.
An approval is given to a manual test (`Fixture`) or to an agent whose plan is outside the scope
of its mandate (`Exception`): preflight escalates, the agent requests, a person grants, and the
chain that finds the grant consumes it with its own basis (`Source`, `Approves`). A receipt keeps
the version of the binding it was issued under (`bound`). What a control ends is not the same
set throughout (`Sweeps`): a change of the mode makes stale the *receipts* that name the binding,
a change of the mandate those of its bases, and both make stale and release only bases and
reservations *of the mandate*. The shared locks of `request` are modelled as exclusive ones: it
writes neither row, and more of its interleavings are then rollbacks or waits. A binding is
retired as SUPERSEDED, since nothing expires. A call whose first statement is refused has no
effect and is left out (`Opens`).

**SimulationAccount, AuditedAccount.** Prices and quantities are small integers; the
multiplier is 1. `ApplyFill`, `CloseFill` (FIFO, today's lots only for CLOSE_TODAY),
`MarkToMarket`, `Settle` (which rebases the lots), and the margin calls are functions; a call
that raises returns the account. `AuditedAccount` follows the log's `_locked` section:
`Enter` (flock and reload), `Write` or `WriteFails`, `Return`, `Crash`. The place of an event
in the file stands for its sequence and hashes. `Replay` folds the events over the account as
`replay()` does, with the last correction of each fill in the place of what it corrects
(`Redone`).

**ManualApprovals, ProtectiveActions.** Every store operation is flock, reload if there is a
file, change in memory, replace the file; `known` is a store's memory between operations. The
protective registry has no flock: its contract is one process, and that is what is modelled.

**AutonomyWorkflow.** `Load`, `Claim`, `Execute`, `Checkpoint`, `Complete` and `Finish` are the
steps of `run()`; what `Current` compares is the WHERE of `checkpoint()` and `finish()`.
Whether a lease has lapsed is a choice of the step that asks, paid from `MaxTrouble`.

**WorkflowOrchestrator.** Each handler runs under one lock and is one action, with the sweep
for deadlines (`Swept`) it begins with; the sweep stays done when the handler refuses. The
time is the caller's and may run backwards. A failure is propagated as the handlers do it,
one round over the plan at a time: `Hit` are the tasks a round skips, `Skipped` the statuses
after it.

## 4. Runs

| Run | Bounds | Result |
|---|---|---|
| `kernel` | ledger: 3 keys, ceiling 2, clocks 0–2, versions up to 2 + 2; processor: 1 order of quantity 2, 3 command identities, sequences to 4, every payload including fills of 0 and 3 | 58 thousand states |
| `submit` | 2 calls, a plan that fills the budget and one that does not, evidence that expires early and late, clock 0–1, one pause | 2.6 million states; the safety properties of the chain |
| `submit_live` | 2 calls of one plan, a resume (two mandate versions), no symmetry | 107 thousand states; liveness, and the refinement of `OrderAuthority` with its fairness |
| `order_durable` | 2 processes, 2 commands out of cancel, fill of 1 and the raising transition, crashes and failing writes without a bound | 550 thousand states |
| `gateway` | 1 event, 2 processes, two possible replies, 2 delivery attempts, 2 faults | 260 thousand states; safety and liveness |
| `workflow` | durable run: 3 callers of which two share a worker name, 2 stages, 4 claims, 2 troubles; orchestrator: 2 episodes of a four-step plan, one slot, clock 0–2; watch queue: 2 workers, 1 event, 4 troubles | 153 thousand states; safety and liveness |
| `records` | PostgreSQL chain: 1 plan of the mandate, 1 that needs an approval, 2 fixtures, a budget for one, 2 connections, mandate versions to 3; account and log: 3 fills, 2 dates, 2 marks, 2 writers, 3 events, 1 fault; approvals: 2 stores, 2 mishaps; protection: 2 keys, 4 validations, 3 failures | 1.2 million states; safety |
| `ledger_used`, `submit_pause`, `order_snapshot`, `gateway_reply`, `watch_lost` | as above; `watch_lost` with 1 trouble | a counterexample each, see section 5 |

*Why the bounds suffice.* Three reservations against a budget of two give every way to
overfill it: together, by one, and by one after another lapsed. Two calls are the two
parties of every race over a basis, and the ledger's other callers and the pause are
actions of their own. Three commands are a fill, a competing command and the repeat of
one of them; quantity 2 has a partial fill, an exact last fill and one too large. Two
processes are the one that holds a stale view and the one that made it stale. In the
gateway two faults give a lapsed lease and then a crash of whoever took over; the two
replies are what the handler says before and after an operator changed the control
state. On a durable run the third caller shares the name of the first, the one case in
which the owner column tells nobody apart; four claims and two troubles let each of them
lose the run once. In the task graph one slot makes ready steps compete, and the chain
market–research–critic is long enough for a failure to be propagated twice. One watch event
is enough because several share only the batch they are claimed in, and a row that waits in
a batch is the row of a worker that has the lease and no turn; four troubles give a retry,
the loss of the token that was handed out again, and a late answer of both. Two connections
are the two parties of every race between transactions; a plan of each kind and a budget for
one make every kind of chain compete with every other and with the controls; with mandate
versions to 3 a mandate is stopped and resumed under a call. Three fills are two lots of two dates and a
fill that closes one, both or neither. `MaxVersion`, `MaxSequence`, `MaxEpoch`, `MaxMandate`,
`MaxFence`, `MaxEvents`, `MaxValidations` and the counts of faults, mishaps, failures and
troubles are guards on actions that could repeat for ever.

*Deadlock.* The runs check for it, except `workflow`, `watch_lost` and `records`: a run, a
cycle, an approval and a watch event end, and then nothing is left to do.

*Fairness.* In `SubmitTradePlan` a running call and a running pause take their next step
(weak fairness): both are threads that wait for nothing but short locks. Callers, time
and the ledger's owner promise nothing. In `GatewayRuntime` a process keeps going round
(`GatewayRuntime.run`, restarted when it dies), backoffs and the leases of abandoned work
run out with time, and faults are finite; whether a channel takes a message or the
handler succeeds is left open. One class of handler failure is assumed: see section 5. In
`AutonomyWorkflow` the scheduler calls `run()` again while the run has not ended, and a call
goes on. In `WatchQueue` the workers' loops and the gateway's recovery rounds go on, and the
leases of workers that gave up lapse with time.

*Main properties.*

* `HeldWithinCeiling`, `SettledStaysSettled` (ledger)
* `ReceiptAndRowAgree`: whenever the ledger's lock is free, a receipt is consumed exactly
  when its reservation is
* `RevokedNeverSpent`, `PausedHoldsNothing`, `RejectedHoldsNothing`
* `ImplementsAuthority`: all registries together are one single-use grant; that a basis has
  one order at most is part of it
* `FillsAddUp`, `TerminalIsLast`, `NoSequenceTwice`, `ImplementsInbox`
* `AckedIsDurable`, `FileStaysRestorable`, `ReplacesExactlyOnce`
* `NothingStranded`, `AttemptsAreLogged`, `DecidedIsAnswered`, and that the rows of delivered
  and dead notifications stay so (delivery itself is at least once: a sender whose lease lapsed
  may send what another has delivered)
* `ChainsWhole`, `BudgetHeld`, `StoppedHoldsNothing`, `StoppedCreatesNoOrder`,
  `OneOrderPerPlan` (PostgreSQL chain). `ChainsWhole` admits one way for a chain to come apart,
  the stale receipt over a held reservation of section 5; `StoppedHoldsNothing` is about the
  bases of the mandate; `StoppedCreatesNoOrder` asks of every agent's order that its binding
  still stands, and of one on the mandate that the mandate does
* `EquityKept`, `EpisodesWhole`, `Reconciles` (account and log), `ShadowRunsOnce`,
  `OneActionPerRequest`
* `OnePath`, `EffectsAreCheckpointed`, `DependenciesFirst`, `EpisodesAgree`, `EndedStaysEnded`,
  `DecidedStaysDecided`
* `SubmissionsEnd`, `PausesEnd`, `EveryEventDecided`, `EveryNoticeSettles`, `RunEnds`,
  `WatchesSettle`

The type invariants document the variables and are proved, as theorems of their own or as
parts of the inductive invariants of section 6. `HeldWithinCeiling` and `FillsAddUp` are
checked in the run of the component that owns them.

## 5. Disagreements between code and documents

The first five are each the counterexample of a run.

1. **Used risk is not counted** (`ledger_used`). `reserve()` sums the HELD rows. Once a
   reservation is consumed its loss leaves the sum, although its order may be working.
   `docs/PRD.md:599` wants used and reserved risk together within the budget.
2. **A pause does not reach a submission on its way** (`submit_pause`). Only tracked bases
   are invalidated, `submit()` tracks none, and nothing looks at the mandate again after
   preflight. `docs/PRD.md:1041` wants no order after the pause.
3. **A half-done command spoils the snapshot** (`order_snapshot`). A WORKING order asked to
   become FILLED or PARTIALLY_FILLED raises after its sequence was consumed; the snapshot
   has a sequence without an outcome, which `restore()` rejects, and a retry with the same
   sequence gets a gap. The durable processor heals this by reloading its file before each
   operation, so the file stays restorable (`FileStaysRestorable`). It cannot while there
   is no file yet: if the first write fails, a command then raises and `register()` is
   called, the first file written can never be loaded. The durable properties therefore
   speak of the time from the first restorable file on.
4. **One event, two answers** (`gateway_reply`). `docs/ROADMAP.md:36` wants at most one
   reply per event; the failure notice and the reply have different keys and may come
   from two attempts.

5. **A retried watch event is dropped** (`watch_lost`). The coordinator marks an event as seen
   before its reduction was handed over. When the handler fails for the moment the row goes to
   RETRY, the same process claims it again, finds it seen, and completes it: the reduction is
   never handed over. A worker that died and was restarted, or a second process, has not seen
   it and hands it over.

Two more follow from the PostgreSQL chain on an agent's approval. They have no run of their own:
the properties of `records` are worded so that they hold, and say where they stop.

6. **A pause leaves what an agent holds on an approval.** `docs/PRD.md:581` and `:382` want the
   pause to end every unconsumed receipt and to release its reservation. `composite_pause`
   goes by `basis_kind='MANDATE'`: the receipt on an approval stays ISSUED and its reservation
   HELD. `pause_autonomy_mode` and `retire_autonomy_mode_binding` make that receipt STALE,
   because it names the binding, and still release only reservations of the mandate: the budget
   is held, by a receipt nobody can consume, until it expires. No order comes of either, for
   the binding has a new version (`StoppedCreatesNoOrder`).
7. **A halted mandate does not stop them.** `docs/PRD.md:382` forbids new risk unless the mandate
   is ACTIVE. `transition_simulation_autonomy_mandate` leaves the binding as it is, and
   `consume_autonomy_gate_receipt` asks for the mandate only of a basis of the mandate: a receipt
   on an approval, issued before the halt, is consumed after it and its order is created. (A new
   chain is turned away, by the preflight.)

More consequences of what is modelled, which no document denies:

* A failure notice that conflicts with an earlier attempt's notice of another exception class
  is an exception in the exception handler: it ends the process, and again after each
  restart, so `EveryEventDecided` is checked with one class of failure.
* A stale `complete_task` may decide a task that another worker holds or has decided;
  `NothingStranded` shows that no lease is lost that way.
* Owners of a watch that keep failing are given up, and their event is COMPLETED as well.
* `claim()` of a durable run looks at the lease and not at the status: a run that ended since
  it was loaded is made ACTIVE again. Its stages are executed under the keys of the first time.
* `consume_autonomy_gate_receipt` and a pause lock the same rows in opposite orders; the victim
  gets the database's error and nothing retries a pause.
* A task that is completed while PENDING keeps the inputs it was read with, unresolved.
* Correcting the price of a fill that a settlement came after leaves the difference in the
  replayed cash; corrections in the model change the fee.
* Margin is no recorded fact: a log replays to the account without it, and `reconcile` of an
  account with frozen margin does not balance.
* The mandate's row lock already serialises the chains of one mandate, so `BudgetHeld` turns
  on the authority's lock only for chains of different sources.
* An approval whose shadow was claimed by a process that died stays CLAIMED, by intent.

## 6. Proofs

The theorems hold for every value of the constants: every set of keys, calls, plans, orders,
commands, processes, workers, stores, connections and events, every task graph without a
cycle, every ceiling, quantity and bound.

| Module | Theorem | Statement |
|---|---|---|
| `RiskBudgetLedgerProofs` | `LedgerTypeOK` | `LedgerSpec => []RowsTypeOK` |
| | `LedgerNeverOversold` | `LedgerSpec => []HeldWithinCeiling` |
| | `LedgerSettledStaysSettled` | `LedgerSpec => SettledStaysSettled` |
| `SubmitTradePlanProofs` | `ChainIsLedger` | `Spec => Ledger!LedgerSpec` |
| | `ChainNeverOversold` | `Spec => []HeldWithinCeiling` |
| | `ReceiptsAgree` | `Spec => []ReceiptAndRowAgree` |
| | `PausesHoldNothing` | `Spec => []PausedHoldsNothing` |
| | `RejectionsHoldNothing` | `Spec => []RejectedHoldsNothing` |
| | `RevokedStaysUnspent` | `Spec => RevokedNeverSpent` |
| | `ChainIsAuthority` | `Spec => Authority!Spec` |
| `OrderProcessorProofs` | `ProcessorTypeOK` | `Spec => []TypeOK` |
| | `ProcessorFillsAddUp` | `Spec => []FillsAddUp` |
| | `ProcessorTerminalIsLast` | `Spec => []TerminalIsLast` |
| | `ProcessorNoSequenceTwice` | `Spec => []NoSequenceTwice` |
| | `ProcessorImplementsInbox` | `Spec => ImplementsInbox` |
| `DurableOrderProcessorProofs` | `DurableTypeOK` | `Spec => []TypeOK` |
| | `DurableAckedIsDurable` | `Spec => []AckedIsDurable` |
| | `DurableFillsAddUp` | `Spec => []FillsAddUp` |
| | `DurableFileStaysRestorable` | `Spec => FileStaysRestorable` |
| | `DurableReplacesExactlyOnce` | `Spec => ReplacesExactlyOnce` |
| `GatewayRuntimeProofs` | `GatewayTypeOK` | `Spec => []TypeOK` |
| | `GatewayNothingStranded` | `Spec => []NothingStranded` |
| | `GatewayAttemptsAreLogged` | `Spec => []AttemptsAreLogged` |
| | `GatewayDecidedIsAnswered` | `Spec => []DecidedIsAnswered` |
| | `GatewaySettledStaysSettled` | `Spec => SettledStaysSettled` |
| `WorkflowProofs` | `GraphInductive` | `GraphSpec => []GraphInv` |
| | `GraphTyped` | `GraphSpec => []GraphTypeOK` |
| | `GraphDependenciesFirst` | `GraphSpec => []DependenciesFirst` |
| | `GraphEpisodesAgree` | `GraphSpec => []EpisodesAgree` |
| | `GraphEndedStaysEnded` | `GraphSpec => EndedStaysEnded` |
| | `HistoryIsOnePath` | `RunSpec => []OnePath` |
| | `NoEffectAhead` | `RunSpec => []EffectsAreCheckpointed` |
| | `WatchesStayDecided` | `WatchSpec => DecidedStaysDecided` |
| `RecordsProofs` | `SubmissionInductive` | `SubmissionSpec => []SubmissionInv` |
| | `SubmissionChainsWhole` | `SubmissionSpec => []ChainsWhole` |
| | `SubmissionBudgetHeld` | `SubmissionSpec => []BudgetHeld` |
| | `SubmissionStoppedHoldsNothing` | `SubmissionSpec => []StoppedHoldsNothing` |
| | `SubmissionOneOrderPerPlan` | `SubmissionSpec => []OneOrderPerPlan` |
| | `SubmissionStoppedCreatesNoOrder` | `SubmissionSpec => StoppedCreatesNoOrder` |
| | `AuditInductive` | `AuditSpec => []EpisodesInv` |
| | `AuditEpisodesWhole` | `AuditSpec => []EpisodesWhole` |
| | `AuditReconcilesInductive` | `AuditSpec => []ReconcilesInv` |
| | `AuditReconciles` | `AuditSpec => []Reconciles` |
| | `AuditEquityInductive` | `AuditSpec => []EquityInv` |
| | `AuditEquityKept` | `AuditSpec => []EquityKept` |
| | `OneShadow` | `ApprovalSpec => []ShadowRunsOnce` |
| | `AnswersAgree` | `ProtectionSpec => []OneActionPerRequest` |

*Assumptions.* The named assumptions of the modules say what the constants are: finitely
many keys, plans or steps, natural bounds, a positive quantity and at least one mandate
version, losses and expiries in range, and names for what is absent that name nothing else: a
`None` that is no process, payload, processor, lease or notification, a `Free` lock that is no
writer, a trader whose account is neither a clerk's nor an episode's. The trader may be given
finitely many fills, each under an id of its own, with whole prices and fees of either sign
(`ProperFills`); marks are whole numbers. Nothing else is assumed.

*Counting.* `Total` and `FillUnits` count: a loss or a fill of n is n units, and the sum is the
number of units. `TotalLaws` proves from the theory of finite sets that this is addition: the
sum of nothing is zero, replacing one loss moves the sum by the difference, dropping losses
does not raise it. `UnitsDone` and `FillsDone` do the same for one more fill, and `HeldLoss`
counts the PostgreSQL reservations in this way.

*Recursion.* The library's induction theorems take a predicate as a parameter, which the
provers cannot instantiate. Induction over a *set* of numbers can be stated without one:
`LeastNat` draws the least element of a set from the well-foundedness of the naturals, and
`Induction` says that a set with zero that is closed under successor is all of them. With it
a recursive function is shown to exist and to satisfy its equation (`RoundsExist` and
`SkippedRounds` for the rounds of a failure, `UptoExists` and `ReplayIs` for the replay of a
log), and an equation is carried along a log.

*The ledger.* `HeldWithinCeiling` is not inductive: the effect of a step on the sum needs the
types of the rows, and the version bound needs that only rows below `MaxVersion` are shrunk.
`Inv` is `RowsTypeOK`, `VersionsBounded` and `HeldWithinCeiling`. `SweptHeld` shows that the
sweep never raises the sum and `ReplacedHeld` what replacing one row does to it; with them
each action is a few lines. `SettledStaysSettled` follows from `EveryRowStep`, which says what a
step can do to one row.

*The submission chain.* `Typed` is the part of its type that the arguments of the ledger's
operations need, and every step of the chain is then a step of the ledger (`RowsStep`), so
the ledger's invariant holds of the chain's rows without being proved again. `Coupled` adds
that exactly the caller with the lock is inside `consume_with_commit`, that its row is HELD,
and that a receipt is consumed when its row is spent or about to be: the last disjunct is
why the agreement needs the lock. `Walked` says that a tracked basis has a row and that the
rows of invalidated bases, but the one the pause is at, are over; it turns on `reserve()` never
arming a row that was let go (`RowsLast`). `Owed` joins both and adds what each call relies
on after its gate: its row, while HELD, has its own expiry, which the clock it captured has
not reached, and the receipt is for its own evidence. A call that is inside then fails
only where its row is gone or a pause is at it (`CallLeavesHeld`), which is why a rejection
without a release leaks nothing. For `OrderAuthority`, `Resulting` says that a submission's
row is spent, hence a row about to be consumed has no order yet. Its fairness, which
`ImplementsAuthority` includes, stays with TLC.

*The order processor.* `Steps` reduces every call to one of four effects: nothing, an order
opened, a command half done, a command done. `Inv` adds to the properties that an accepted
command's order is known and, after a terminal command, still stands where that command left
it (`AcceptedStands`: without it a later command could be accepted), and that the fills of a
known order are finitely many, add up, and fit the conditions of its constructor
(`FillsCounted`). For the refinement `MovesOn` shows that what `transition()` and
`apply_fill()` construct is a step of the abstract life cycle; it needs that the order was
well-formed before, which is why a half-done command must leave the order alone. These facts
are stated of a processor as a value (`OrderCommandsProofs`, `Sound`), so that the durable
processor uses them for its memories and its file alike.

*The durable order processor.* `Inv` is that the file, if there is one, and every memory
satisfy the processor's invariant (`Clean`), that the memory of a call under way is the file or one command ahead of it
(`Ahead`), that the answer a call is about to give is the one its command has in that memory
(`Owed`), and what was answered is in the file (`AckedIsDurable`). A crash takes the memory,
never the file; a failed write leaves a memory ahead that the next call's reload forgets,
which is why `EnterLoads` starts every call from the file. The file is then only ever
replaced by what one call that answered did to it (`Moved`): `MovedRestorable` gives
`FileStaysRestorable`, and `MovesOn` gives `ReplacesExactlyOnce`.

*The gateway.* A row of the outbox and its attempt log are in step (`Row`, `Logged`: as many
entries as attempts, open only the last one of a notification in flight); every transaction
moves each row by one of the `RowMoves`. `Pending` says that a process about to complete a task
has told its answer (`Told`), which holds although the lease may be another's by then, because
rows of the outbox are never deleted: `DecidedIsAnswered` needs no lease at all. `Held` is what
the two halves of `complete_task` could break: a stale completion ends the task before it
removes the lease.

*The orchestrator.* Inside a handler the graph is only `Ordered`: a task may wait for one that
has just failed. At its end it is `Unblocked` again, because the rounds of the propagation
end: `DoomedClosed` shows by induction over the rounds that as many rounds as there are
waiting tasks leave nothing to skip, for any finite graph. `GraphInv` is `TasksGood` for each
episode, `Agrees` between an episode and its tasks, and `CycleAgrees`. The parallel limit is a
count of finite sets (`OfferedFit`).

*The durable run.* `RunInv` adds to the two properties that a process at work is never ahead
of the row and that one whose copy has the row's version has its stage (`Abreast`): every
statement that writes the row raises the version, so a copy once behind stays behind and the
WHERE of `checkpoint()` refuses it, whoever shares its worker name.

*The PostgreSQL chain.* The invariant is the lock protocol. `Exclusive`: no row is locked
twice. `Stands`: what a transaction found when it was granted a row is still so for as long as
it holds it, mandate and binding in force, approval granted, receipt issued, the budget
sufficient under the authority's lock. `Frozen` says what a commit leaves alone, namely all
rows that it does not hold; with `Exclusive` no other transaction's checks are disturbed.
`WholeChains` gives the five states a chain can be in: not there, issued, consumed, ended with
its mandate, and, for an agent's approval only, a stale receipt over a held reservation; the
fifth carries that the binding has moved on since. `ApprovalsAgree` ties the approval to its
basis. `HeldUnderMandate` makes a pause complete: what is HELD on a mandate is held under the
version in force, under a receipt that names the binding in force, and the pause that replaces
either holds its row, so that no chain of that mandate is half way and a change of the mode
misses no receipt of it.
`Sole` and `Begun` give one order per plan: a chain begins only where no earlier mandate's
chain of the plan has its order. `CommitEffect` lists what a commit does to the rows of its
basis, and the theorems follow from it row by row.

*Account and log.* `EpisodesInv` says of every list of events, the file and each memory, that
an episode is in it as one block or not at all; a block survives an append, and a retry is
recognised by its stages. `ReconcilesInv` has to speak of the moments in which file and account
differ: the file replays to the account, or to the account before the one fact that is due, or
a correction has been written and the trader has yet to replay; a call under way goes on from
the file as it is, because it reloaded under the lock (without the lock, or without the reload,
the proof of `Write` fails, as it should); before there is a file a fact that could not be
written may lie in the trader's memory any number of times. The last case needs that a fact
counts once (`FactCountsOnce`), which holds of each of the four kinds of fact because account
fills and dates are sets. That margin is no recorded fact is set aside by `Unreserved`.

*Conservation.* `EquityKept` is an equation between three sums: over lots, over the lots that a
closing fill uses up, and over the fills seen. `SummedIs` says that a sum is what any way of
adding up from the left arrives at, and the laws (one number more, two sums together, one
number moved) each exhibit such a way. `RebasedWorth` is what a settlement does to the worth of
the lots: what it takes away at any price is what it realizes at its own. `ClosedBrings` follows
the loop of `_close_locked` lot by lot: the worth of the lots kept and what was realized so far,
less what the closed part of the fill has brought in, stays the same, and what remains of the
fill is what the lots so far could not cover, so that nothing remains at the end when the check
of `available` has passed (without that check the proof ends there). Each fill and settlement
thus keeps `Balanced` and `Profits`, of the account itself. A replay after a correction builds
another account: `EquityInv` adds that every log is `Known` (a correction differs from its fill
in the fee alone), that the trader corrects a fact as it was recorded although it loads the file
again before it writes, and that a replay it has yet to take over has the account's `Position`
(`CorrectionKeepsPosition`, an induction along the log): profit depends on no more than that.

*The stores.* `Answered` (watch queue): a worker about to write has an answer, and only a
retry could bring a row back, whose update looks at the row's state. `ApprovalInv`: under the
lock a store knows what the file says, and whoever runs a shadow was granted it in the file.
`ProtectionInv`: memory may be ahead of the file, never beside it, and an answer was in the
file when it was given.

Each inductive invariant was checked by TLC, as an invariant of the run of its component,
before it was proved.

*Only model-checked:* everything that is liveness, `SubmissionsEnd`, `PausesEnd`,
`EveryEventDecided`, `EveryNoticeSettles`, `RunEnds`, `WatchesSettle` and the fairness part of
`ImplementsAuthority`. These provers reason about neither ENABLED nor fairness. Every safety
property of a passing run is a theorem.

## 7. What is not modelled

* what a check or a state machine reads but no property tells apart: prices, limits and
  reasons of a risk decision, scopes and reports of approvals, payloads of tasks and
  messages; calls that validation or preflight turns away, which touch nothing;
* the expiry of bases, receipts and reservations in the PostgreSQL chain: nothing expires
  while its transactions run; a new binding after a retirement, and the return of a halted
  mandate through RECOVERING;
* two processes on one file of the protective registry: it has no lock between processes and
  the later one overwrites the earlier one's actions;
* control callbacks (one transaction under a row lock), escalations of overdue notifications
  and the cooldown of watches in the gateway;
* the orchestrator's projection into PostgreSQL and the stage owners of the autonomous
  runtime (`v3_runtime.py`, `v3_parallel.py`); whether a stage's references are still valid
  when it is loaded (`v3_durable.py` does not check at TRIGGERED);
* the paper adapter, the execution engine and the fill models: functions of their inputs
  whose effects go through the order processor;
* the circuit breaker and the capacity guard of `operations/reliability.py`: counters behind
  one lock each;
* agents and adapters, reference and market data, market intelligence, governance, learning,
  observability, security, command line: I/O, or pure functions over immutable data and
  append-only registries, with no protocol between concurrent parties;
* research experiments and the scripts that run them, about half of the source: offline
  pipelines over fixed data. The modules map a small share of all lines for this reason; they
  cover the code whose correctness depends on what happens in between.

## 8. Plan

Done: the ledger, the chain in memory and in PostgreSQL, the order processors, the gateway and
its watch queue, account and log, approvals, protection, the durable run and the orchestrator,
with the proofs above. What would come next:

1. Control callbacks and escalations on `GatewayStore`.
2. Expiry in `DurableSubmission`.
3. Paper reconciliation as operators against a reference definition, its fills imported
   through `OrderProcessor`.
4. The circuit breaker with its half-open probe.
