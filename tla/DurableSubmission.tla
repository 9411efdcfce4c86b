-------------------------- MODULE DurableSubmission --------------------------
(***************************************************************************)
(* The submission chain in PostgreSQL: the transactions of                 *)
(* decision/postgres_repository.py and of decision/manual_application.py,  *)
(* and the SQL functions of the migrations they call.  The transactions    *)
(* run READ COMMITTED and lock, one after the other, the rows they go by.  *)
(*                                                                         *)
(* A transaction is the list of the rows it locks, in the order of its     *)
(* SELECT ... FOR UPDATE and UPDATE statements: it checks a row when it    *)
(* has locked it, gives everything up when a check fails, and what it      *)
(* wrote appears with its commit.  It can be rolled back at any point: by  *)
(* its caller, with its process, or as the victim of a deadlock.           *)
(*                                                                         *)
(* A basis is named by its source and plan: a mandate version, or the      *)
(* approval of that one plan (version 0 stands for it), given to a manual  *)
(* test or, as an exception, to an agent whose plan is outside the scope   *)
(* of its mandate.  Nothing expires meanwhile.                             *)
(***************************************************************************)
EXTENDS Naturals, Sequences, FiniteSets

CONSTANTS Plan,          \* plans submitted under the autonomy mandate
          Exception,     \* an agent's plans outside its scope, which need an approval each
          Fixture,       \* plans of manual tests, which need one too
          Txn,           \* the connections
          Loss,          \* the worst-case loss of each plan, sized by risk
          Budget,        \* the ceiling of the risk budget authority
          MaxMandate     \* bound: the version of the mandate

ASSUME SubmissionAssumption ==
    /\ Plan \intersect (Exception \union Fixture) = {} /\ Exception \intersect Fixture = {}
    /\ Budget \in Nat
    /\ Loss \in [Plan \union Exception \union Fixture -> 0..Budget]
    /\ MaxMandate \in Nat \ {0}

VARIABLES mandate,       \* its version and status
          binding,       \* the mode binding: version, mode, mandate version
          approval,      \* the plan approval of each exception and fixture
          basis,         \* the status of each authorization basis
          reservation,   \* ... of its risk budget reservation
          receipt,       \* ... of its gate receipt
          bound,         \* the version of the binding the receipt names
          order,         \* the Order (and LedgerEntry) facts of each basis
          txn,           \* what each connection's transaction is for
          holds          \* the rows it has locked

chain == <<basis, reservation, receipt, bound, order>>
sources == <<mandate, binding, approval>>
submissionVars == <<chain, sources, txn, holds>>

Mandated == Plan \X (1..MaxMandate)
Excepted == Exception \X {0}
Basis == Mandated \union Excepted \union Fixture \X {0}

Mandate == <<"mandate">>
Binding == <<"binding">>
Authority == <<"authority">>
Approval(f) == <<"approval", f>>
BasisRow(b) == <<"basis", b>>
ReservationRow(b) == <<"reservation", b>>
ReceiptRow(b) == <<"receipt", b>>

Idle == [op |-> "idle"]

SubmissionInit ==
    /\ mandate = [version |-> 1, status |-> "ACTIVE"]
    /\ binding = [version |-> 1, mode |-> "AUTONOMOUS", mandate |-> 1]
    /\ approval = [f \in Exception \union Fixture |-> IF f \in Fixture THEN "REQUESTED" ELSE "NONE"]
    /\ basis = [b \in Basis |-> "NONE"]
    /\ reservation = [b \in Basis |-> "NONE"]
    /\ receipt = [b \in Basis |-> "NONE"]
    /\ bound = [b \in Basis |-> 0]
    /\ order = [b \in Basis |-> 0]
    /\ txn = [t \in Txn |-> Idle]
    /\ holds = [t \in Txn |-> {}]

-----------------------------------------------------------------------------
(***************************************************************************)
(* The rows each transaction locks.  A chain finds the basis, reservation  *)
(* and receipt of an earlier call, or inserts them: nobody else asks for   *)
(* the rows it has inserted before it commits.                             *)
(***************************************************************************)
Of(m) == {b \in Mandated : b[2] = m}

\* A change of the mode ends the receipts that name this version of the
\* binding, a change of the mandate those of its bases; either one only the
\* bases and reservations of the mandate.
Named(c) == IF c.op \in {"mode", "retire"} THEN {b \in Basis : bound[b] = c.binding} ELSE Of(c.mandate)
StaleReceipts(c) == {b \in Named(c) : receipt[b] = "ISSUED"}
StaleBases(c) == {b \in Of(c.mandate) : basis[b] = "ACTIVE"}
FreedReservations(c) == {b \in Of(c.mandate) : reservation[b] = "HELD"}

StaleRows(c) == {ReceiptRow(b) : b \in StaleReceipts(c)}
BasisRows(c) == {BasisRow(b) : b \in StaleBases(c)}
FreedRows(c) == {ReservationRow(b) : b \in FreedReservations(c)}

\* What authorizes the basis of an agent.
Source(c) == IF c.basis \in Mandated THEN Mandate ELSE Approval(c.basis[1])

Script(c) ==
    CASE c.op = "authorize" -> <<{Source(c)}, {Authority}, {BasisRow(c.basis)},
                                 {ReservationRow(c.basis)}, {Binding}>>
      [] c.op = "submit"    -> <<{Source(c)}, {Authority}, {BasisRow(c.basis)},
                                 {ReservationRow(c.basis)}, {Binding}, {ReceiptRow(c.basis)}>>
      [] c.op = "consume"   -> <<{ReceiptRow(c.basis)}, {BasisRow(c.basis)}, {ReservationRow(c.basis)},
                                 {Authority}, {Mandate} \intersect {Source(c)}, {Binding}>>
      [] c.op = "run"       -> <<{Approval(c.basis[1])}, {Authority}, {BasisRow(c.basis)},
                                 {ReservationRow(c.basis)}, {ReceiptRow(c.basis)}>>
      [] c.op = "request"   -> <<{Mandate}, {Binding}, {Approval(c.basis[1])}>>
      [] c.op = "decide"    -> <<{Approval(c.basis[1])}>>
      [] c.op = "pause"     -> <<{Mandate}, {Binding}, BasisRows(c), StaleRows(c), FreedRows(c)>>
      [] c.op = "halt"      -> <<{Mandate}, BasisRows(c), StaleRows(c), FreedRows(c)>>
      [] c.op \in {"mode", "retire"} -> <<{Binding}, StaleRows(c), BasisRows(c), FreedRows(c)>>
      [] c.op = "resume"    -> <<{Mandate}, {Binding}>>

\* The rows the next statement locks, none when the transaction may commit.
NextRows(t) ==
    LET script == Script(txn[t])
        ahead == {i \in DOMAIN script : ~(script[i] \subseteq holds[t])}
    IN  IF ahead = {} THEN {}
        ELSE script[CHOOSE i \in ahead : \A j \in ahead : i <= j] \ holds[t]

-----------------------------------------------------------------------------
(***************************************************************************)
(* What a statement asks of the row it has locked.  The captured versions  *)
(* name the mandate and the binding the caller was given; a chain may find *)
(* its own basis and reservation, and a receipt issued for the very same   *)
(* evidence and clock (with another one it is refused: rolled back).       *)
(***************************************************************************)
HeldLoss ==
    Cardinality({u \in Basis \X (1..Budget) : reservation[u[1]] = "HELD" /\ u[2] <= Loss[u[1][1]]})

Chaining == {"authorize", "submit", "run"}

\* MUTANT of Affordable: what is held already is not added to the new loss.
AffordableAlone(b) == reservation[b] = "HELD" \/ (reservation[b] = "NONE" /\ Loss[b[1]] <= Budget)
Affordable(b) == reservation[b] = "HELD" \/ (reservation[b] = "NONE" /\ HeldLoss + Loss[b[1]] <= Budget)

\* A fixture's account has run no manual episode yet.
\* MUTANT of Unused: only an episode of the same approval counts.
UnusedBy(f) == order[<<f, 0>>] = 0
Unused(f) == \A g \in Fixture : order[<<g, 0>>] = 0

Modes(c) ==
    CASE c.op = "resume" -> {"PAUSED"}
      [] c.op = "retire" -> {"AUTONOMOUS", "PAUSED"}
      [] OTHER           -> {"AUTONOMOUS"}

\* A receipt on an approval goes by the binding alone, whose mandate it does not compare.
\* MUTANTS of MandateIs and BindingIs: what the caller was given is not compared again.
MandateWas(c, status) == mandate.version >= c.mandate
BindingWas(c) == binding.version >= c.binding
MandateIs(c, status) == mandate = [version |-> c.mandate, status |-> status]
BindingIs(c) ==
    /\ binding.version = c.binding
    /\ binding.mode \in Modes(c)
    /\ c.mandate # 0 => binding.mandate = c.mandate

\* The approval each transaction looks for; a retried chain finds its own, consumed.
Wanted(c) ==
    CASE c.op = "request" -> {"NONE", "REQUESTED"}
      [] c.op = "decide"  -> IF c.decision = "EXPIRED" THEN {"REQUESTED", "GRANTED", "REJECTED", "EXPIRED"}
                                                       ELSE {"REQUESTED"}
      [] c.op = "run"     -> {"GRANTED"}
      [] OTHER            -> {"GRANTED", "CONSUMED"}

\* A basis has one receipt: a chain that finds one asks that it names the same binding.
Passes(c, row) ==
    /\ row = Mandate => MandateIs(c, IF c.op = "resume" THEN "SUSPENDED" ELSE "ACTIVE")
    /\ row = Binding => BindingIs(c)
    /\ row[1] = "approval" => approval[c.basis[1]] \in Wanted(c)
    /\ c.op = "run" /\ row = Authority => Unused(c.basis[1])
    /\ c.op \in Chaining =>
          /\ row[1] = "basis" => basis[c.basis] \in {"NONE", "ACTIVE"} /\ Affordable(c.basis)
          /\ row = Binding => bound[c.basis] \in {0, c.binding}
          /\ row[1] = "receipt" => receipt[c.basis] \in {"NONE", "ISSUED"}
    /\ c.op = "consume" =>
          /\ row[1] = "receipt" => receipt[c.basis] = "ISSUED"
          /\ row[1] = "basis" => basis[c.basis] = "ACTIVE"
          /\ row[1] = "reservation" => reservation[c.basis] = "HELD"

-----------------------------------------------------------------------------
\* A call whose first statement would be refused ends without an effect.
Opens(t, c) ==
    /\ txn[t] = Idle
    /\ \A row \in Script(c)[1] : Passes(c, row)
    /\ txn' = [txn EXCEPT ![t] = c]
    /\ UNCHANGED <<chain, sources, holds>>

\* load_completed_submission: a completed chain of the plan is handed back.
Completed(b) == \E a \in Basis : a[1] = b[1] /\ order[a] > 0

Autonomous(op, b, version) == [op |-> op, basis |-> b, mandate |-> b[2], binding |-> version]

Operating == mandate.status = "ACTIVE" /\ binding.mode = "AUTONOMOUS" /\ binding.mandate = mandate.version

\* persist_submission_chain and persist_authorization_chain, after a preflight
\* of the mandate and the binding the caller has read: it allows a plan in the
\* mandate's scope, and escalates one outside it, which goes on once approved.
SubmitOpen(t, op, p) ==
    LET b == IF p \in Plan THEN <<p, mandate.version>> ELSE <<p, 0>>
    IN  /\ op \in {"authorize", "submit"}
        /\ Operating
        /\ ~Completed(b)
        /\ Opens(t, Autonomous(op, b, binding.version))

\* consume_receipt_and_reservation and append_execution_facts for a receipt
\* that was authorized: it names the binding that is looked for.
ConsumeOpen(t, b) == Opens(t, Autonomous("consume", b, bound[b]))

\* request_agent_plan_approval, with the mandate and the binding that escalated.
RequestOpen(t, e) ==
    /\ Operating
    /\ Opens(t, [op |-> "request", basis |-> <<e, 0>>, mandate |-> mandate.version, binding |-> binding.version])

\* ManualTestApplication.run and decide; grant_plan_approval.
RunOpen(t, f) ==
    /\ ~Completed(<<f, 0>>)
    /\ Opens(t, [op |-> "run", basis |-> <<f, 0>>])
DecideOpen(t, f, decision) ==
    /\ f \in Exception => decision = "GRANTED"
    /\ Opens(t, [op |-> "decide", basis |-> <<f, 0>>, decision |-> decision])

\* composite_pause, transition_simulation_autonomy_mandate out of ACTIVE,
\* pause_autonomy_mode, retire_autonomy_mode_binding and composite_resume, on
\* the versions the caller knows.
ControlOpen(t, op) ==
    /\ op \in {"pause", "halt", "mode", "retire", "resume"}
    /\ mandate.version < MaxMandate
    /\ Opens(t, [op |-> op, binding |-> binding.version,
                 mandate |-> IF op \in {"mode", "retire"} THEN binding.mandate ELSE mandate.version])

Lock(t) ==
    /\ txn[t] # Idle
    /\ \E row \in NextRows(t) :
          /\ \A u \in Txn : row \notin holds[u]
          /\ Passes(txn[t], row)
          /\ holds' = [holds EXCEPT ![t] = @ \union {row}]
    /\ UNCHANGED <<chain, sources, txn>>

Set(f, S, value) == [x \in DOMAIN f |-> IF x \in S THEN value ELSE f[x]]

Ends(t) ==
    /\ txn' = [txn EXCEPT ![t] = Idle]
    /\ holds' = [holds EXCEPT ![t] = {}]

\* MUTANT of Rollback: no savepoint, a refused chain leaves what it inserted.
RollbackKeeping(t) ==
    LET c == txn[t]
        inserted(row) == IF c.op \in Chaining /\ row \in holds[t] THEN {c.basis} ELSE {}
    IN  /\ c # Idle
        /\ Ends(t)
        /\ basis' = IF c.op \in Chaining THEN Set(basis, inserted(BasisRow(c.basis)), "ACTIVE") ELSE basis
        /\ reservation' = IF c.op \in Chaining THEN Set(reservation, inserted(ReservationRow(c.basis)), "HELD") ELSE reservation
        /\ UNCHANGED <<receipt, bound, order, sources>>

Rollback(t) ==
    /\ txn[t] # Idle
    /\ Ends(t)
    /\ UNCHANGED <<chain, sources>>

Writes(c, state) ==
    /\ basis' = Set(basis, {c.basis}, "ACTIVE")
    /\ receipt' = Set(receipt, {c.basis}, IF state = "CONSUMED" THEN state ELSE "ISSUED")
    /\ bound' = IF c.op = "run" THEN bound ELSE Set(bound, {c.basis}, c.binding)
    /\ reservation' = Set(reservation, {c.basis}, state)
    /\ order' = IF state = "CONSUMED" THEN [order EXCEPT ![c.basis] = @ + 1] ELSE order

\* consume_plan_approval: the approval, if one is the source, goes with its basis.
Approves(c) ==
    /\ approval' = Set(approval, {c.basis[1]}, "CONSUMED")
    /\ UNCHANGED <<mandate, binding>>

Sweeps(c) ==
    /\ basis' = Set(basis, StaleBases(c), "STALE")
    /\ receipt' = Set(receipt, StaleReceipts(c), "STALE")
    /\ reservation' = Set(reservation, FreedReservations(c), "RELEASED")
    /\ UNCHANGED <<bound, order>>

Moves(status, mode, version) ==
    /\ mandate' = [version |-> version, status |-> status]
    /\ binding' = [version |-> binding.version + 1, mode |-> mode, mandate |-> version]

Committed(c) ==
    \/ c.op = "authorize" /\ Writes(c, "HELD") /\ Approves(c)
    \/ c.op \in {"submit", "run"} /\ Writes(c, "CONSUMED") /\ Approves(c)
    \/ c.op = "consume" /\ Writes(c, "CONSUMED") /\ UNCHANGED sources
    \/ /\ c.op \in {"request", "decide"}
       /\ approval' = [approval EXCEPT ![c.basis[1]] = IF c.op = "request" THEN "REQUESTED" ELSE c.decision]
       /\ UNCHANGED <<chain, mandate, binding>>
    \/ /\ c.op = "pause"
       /\ Sweeps(c) /\ Moves("SUSPENDED", "PAUSED", c.mandate + 1)
       /\ UNCHANGED approval
    \/ /\ c.op = "halt"
       /\ Sweeps(c) /\ mandate' = [version |-> c.mandate + 1, status |-> "HALTED"]
       /\ UNCHANGED <<binding, approval>>
    \/ /\ c.op \in {"mode", "retire"}
       /\ Sweeps(c)
       /\ binding' = [binding EXCEPT !.version = @ + 1, !.mode = IF c.op = "mode" THEN "PAUSED" ELSE "RETIRED"]
       /\ UNCHANGED <<mandate, approval>>
    \/ /\ c.op = "resume"
       /\ Moves("ACTIVE", "AUTONOMOUS", c.mandate + 1)
       /\ UNCHANGED <<chain, approval>>

Commit(t) ==
    /\ txn[t] # Idle
    /\ NextRows(t) = {}
    /\ Committed(txn[t])
    /\ Ends(t)

SubmissionNext == \E t \in Txn :
    \/ \E op \in {"authorize", "submit"}, p \in Plan \union Exception : SubmitOpen(t, op, p)
    \/ \E b \in Mandated \union Excepted : ConsumeOpen(t, b)
    \/ \E e \in Exception : RequestOpen(t, e)
    \/ \E f \in Fixture : RunOpen(t, f)
    \/ \E f \in Exception \union Fixture, decision \in {"GRANTED", "REJECTED", "EXPIRED"} :
          DecideOpen(t, f, decision)
    \/ \E op \in {"pause", "halt", "mode", "retire", "resume"} : ControlOpen(t, op)
    \/ Lock(t) \/ Commit(t) \/ Rollback(t)

SubmissionSpec == SubmissionInit /\ [][SubmissionNext]_submissionVars
-----------------------------------------------------------------------------
(***************************************************************************)
(* A chain is there as a whole or not at all: an order exactly with its    *)
(* consumed receipt and reservation, an issued receipt with its held       *)
(* reservation and its active basis, no basis without the other two.  The  *)
(* one exception is an agent's chain on an approval, whose receipt a       *)
(* change of the mode makes stale while its reservation stays held, since  *)
(* only bases of the mandate release theirs.  The approval of a manual     *)
(* test is consumed exactly by its order, that of an exception exactly by  *)
(* its basis.  (persist_authorization_chain, persist_submission_chain: the *)
(* savepoint; pause_autonomy_mode, retire_autonomy_mode_binding.)          *)
(***************************************************************************)
ChainsWhole ==
    /\ \A b \in Basis :
          /\ (order[b] = 1) <=> (receipt[b] = "CONSUMED")
          /\ (receipt[b] = "CONSUMED") <=> (reservation[b] = "CONSUMED")
          /\ receipt[b] = "ISSUED" => reservation[b] = "HELD" /\ basis[b] = "ACTIVE"
          /\ reservation[b] = "HELD" =>
                \/ receipt[b] = "ISSUED"
                \/ b \in Excepted /\ receipt[b] = "STALE" /\ bound[b] < binding.version
          /\ (basis[b] = "NONE") <=> (receipt[b] = "NONE")
          /\ (basis[b] = "NONE") <=> (reservation[b] = "NONE")
    /\ \A f \in Fixture : (approval[f] = "CONSUMED") <=> (order[<<f, 0>>] = 1)
    /\ \A e \in Exception : (approval[e] = "CONSUMED") <=> (basis[<<e, 0>>] # "NONE")

(***************************************************************************)
(* The reservations the database holds stay within the budget of their     *)
(* account, however chains that authorize, submit and run by hand          *)
(* interleave with the pauses that release them.  (reserve_risk_budget.)   *)
(***************************************************************************)
BudgetHeld == HeldLoss <= Budget

(***************************************************************************)
(* While the mandate or the mode is stopped nothing issued or held on a    *)
(* basis of the mandate is left, not by the calls that were under way when *)
(* it was stopped either.  What an agent holds on the approval of a single *)
(* plan is outside this: no stop releases it.  (composite_pause,           *)
(* pause_autonomy_mode, retire_autonomy_mode_binding,                      *)
(* transition_simulation_autonomy_mandate.)                                *)
(***************************************************************************)
StoppedHoldsNothing ==
    mandate.status # "ACTIVE" \/ binding.mode # "AUTONOMOUS" =>
        \A b \in Mandated : receipt[b] # "ISSUED" /\ reservation[b] # "HELD"

(***************************************************************************)
(* No agent's order is created once the mode has been stopped, or stopped  *)
(* and resumed, since its receipt was issued, on whatever basis; and none  *)
(* on a basis of a mandate that has been stopped or replaced since.        *)
(* (consume_autonomy_gate_receipt checks and locks every source again.)    *)
(***************************************************************************)
StoppedCreatesNoOrder ==
    [][\A b \in Mandated \union Excepted : order'[b] # order[b] =>
          /\ binding.mode = "AUTONOMOUS" /\ binding.version = bound'[b]
          /\ b \in Mandated => mandate = [version |-> b[2], status |-> "ACTIVE"]]_submissionVars

(***************************************************************************)
(* One order for a plan, under all the mandate versions and retries it may *)
(* be submitted with, and one manual episode for the account of the        *)
(* fixtures.  (load_completed_submission; ManualTestApplication.run.)      *)
(***************************************************************************)
OneOrderPerPlan ==
    /\ \A b \in Basis : order[b] <= 1
    /\ \A a, b \in Basis :
          (order[a] = 1 /\ order[b] = 1 /\ (a[1] = b[1] \/ {a[1], b[1]} \subseteq Fixture)) => a = b
=============================================================================
