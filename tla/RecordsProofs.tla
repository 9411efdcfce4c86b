---------------------------- MODULE RecordsProofs ----------------------------
(***************************************************************************)
(* Theorems about the four stores of durable facts: the submission chain   *)
(* in PostgreSQL (DurableSubmission), the audit file and its account       *)
(* (AuditedAccount), the approvals of manual tests (ManualApprovals) and   *)
(* the protective actions (ProtectiveActions).  They share no state and    *)
(* each is proved of its own specification, for every value of the         *)
(* constants.                                                              *)
(***************************************************************************)
EXTENDS DurableSubmission, AuditedAccount, ManualApprovals, ProtectiveActions,
        SequenceTheorems, FiniteSetTheorems, WellFoundedInduction, TLAPS

-----------------------------------------------------------------------------
(***************************************************************************)
(* Induction on the naturals, for sets of them: the library's theorem      *)
(* takes a predicate as an operator, which the provers do not instantiate, *)
(* but a set has a least element because the order is well-founded.        *)
(***************************************************************************)
LEMMA LeastNat ==
    ASSUME NEW T \in SUBSET Nat, T # {}
    PROVE  \E n \in T : \A m \in T : n <= m
<1> DEFINE Less == OpToRel(<, Nat)
<1>1. IsWellFoundedOn(Less, Nat)
  BY NatLessThanWellFounded
<1>2. \A x, y \in Nat : <<x, y>> \in Less <=> x < y
  BY DEF OpToRel
<1> HIDE DEF Less
<1>3. PICK n \in T : \A m \in T : ~ (<<m, n>> \in Less)
  BY <1>1, WFMin
<1>4. ASSUME NEW m \in T PROVE n <= m
  <2>1. m \in Nat /\ n \in Nat /\ ~ (m < n)
    BY <1>2, <1>3
  <2> QED BY <2>1
<1> QED BY <1>4

LEMMA Induction ==
    ASSUME NEW P \in SUBSET Nat, 0 \in P, \A n \in P : n + 1 \in P
    PROVE  P = Nat
<1> SUFFICES ASSUME P # Nat PROVE FALSE
  OBVIOUS
<1>1. Nat \ P \in SUBSET Nat /\ Nat \ P # {}
  OBVIOUS
<1>2. PICK n \in Nat \ P : \A m \in Nat \ P : n <= m
  BY <1>1, LeastNat
<1>3. n # 0 /\ n - 1 \in Nat /\ n - 1 \in P
  BY <1>2
<1> QED BY <1>2, <1>3

-----------------------------------------------------------------------------
(***************************************************************************)
(* The rows of a transaction.                                              *)
(***************************************************************************)
Ops == {"authorize", "submit", "consume", "run", "request", "decide", "pause", "halt", "mode", "retire", "resume"}

Agents == Mandated \union Excepted
Asking == {"request", "decide"}

CallOK(c) ==
    /\ c.op \in Ops \/ c = Idle
    /\ c.op \in {"authorize", "submit", "consume"} => c.basis \in Agents /\ c.mandate = c.basis[2]
    /\ c.op = "run" => c.basis \in Fixture \X {0}
    /\ c.op = "request" => c.basis \in Excepted
    /\ c.op = "decide" => /\ c.basis \in Excepted \union Fixture \X {0}
                          /\ c.decision \in {"GRANTED", "REJECTED", "EXPIRED"}
    /\ c.op \in {"pause", "halt", "resume"} => c.mandate \in Nat /\ c.mandate < MaxMandate
    /\ c.op \in {"mode", "retire"} => c.mandate \in 1 .. MaxMandate

LEMMA ScriptDomain ==
    ASSUME NEW c, c.op \in Ops
    PROVE  DOMAIN Script(c) \in SUBSET Nat
<1>1. CASE c.op \in {"authorize", "submit", "consume"}
  BY <1>1 DEF Script
<1>2. CASE c.op \in {"run", "request", "decide", "pause"}
  BY <1>2 DEF Script
<1>3. CASE c.op \in {"halt", "mode", "retire", "resume"}
  BY <1>3 DEF Script
<1> QED BY <1>1, <1>2, <1>3 DEF Ops

\* The rows a statement asks for are those of the first step that lacks one.
LEMMA NextStep ==
    ASSUME NEW t, txn[t].op \in Ops
    PROVE  LET script == Script(txn[t]) IN
           \/ NextRows(t) = {} /\ \A i \in DOMAIN script : script[i] \subseteq holds[t]
           \/ \E i \in DOMAIN script :
                 /\ NextRows(t) = script[i] \ holds[t] /\ NextRows(t) # {}
                 /\ \A j \in DOMAIN script : j < i => script[j] \subseteq holds[t]
<1> DEFINE script == Script(txn[t])
           ahead == {i \in DOMAIN script : ~ (script[i] \subseteq holds[t])}
           first == CHOOSE i \in ahead : \A j \in ahead : i <= j
<1>1. DOMAIN script \in SUBSET Nat
  BY ScriptDomain
<1>2. NextRows(t) = IF ahead = {} THEN {} ELSE script[first] \ holds[t]
  BY DEF NextRows
<1>3. CASE ahead = {}
  <2> HIDE DEF script, first
  <2>1. \A i \in DOMAIN script : script[i] \subseteq holds[t]
    BY <1>3
  <2>2. NextRows(t) = {}
    BY <1>2, <1>3
  <2> QED BY <2>1, <2>2 DEF script
<1>4. CASE ahead # {}
  <2> HIDE DEF script
  <2>1. ahead \in SUBSET Nat
    BY <1>1
  <2>2. \E i \in ahead : \A j \in ahead : i <= j
    <3> HIDE DEF ahead
    <3> QED BY <1>4, <2>1, LeastNat
  <2>3. first \in ahead /\ \A j \in ahead : first <= j
    <3> HIDE DEF ahead
    <3> QED BY <2>2, Zenon
  <2> HIDE DEF first
  <2>4. NextRows(t) = script[first] \ holds[t]
    BY <1>2, <1>4
  <2>5. first \in DOMAIN script /\ ~ (script[first] \subseteq holds[t])
    BY <2>3
  <2>6. ASSUME NEW j \in DOMAIN script, j < first PROVE script[j] \subseteq holds[t]
    <3> SUFFICES ASSUME j \in ahead PROVE FALSE
      OBVIOUS
    <3>1. first <= j /\ first \in Nat /\ j \in Nat
      BY <2>1, <2>3
    <3> HIDE DEF ahead
    <3> QED BY <2>6, <3>1
  <2>7. NextRows(t) # {}
    BY <2>4, <2>5
  <2> HIDE DEF ahead
  <2> QED BY <2>4, <2>5, <2>6, <2>7 DEF script
<1> HIDE DEF script, ahead
<1> QED BY <1>3, <1>4 DEF script

\* The rows each transaction holds when it commits.
LEMMA RowsHeld ==
    ASSUME NEW t, txn[t].op \in Ops, NextRows(t) = {}
    PROVE  LET c == txn[t] IN
           /\ c.op \in {"authorize", "submit", "consume"} =>
                 {Binding, Authority, BasisRow(c.basis), ReservationRow(c.basis)} \subseteq holds[t]
           /\ c.op \in {"authorize", "submit"} => Source(c) \in holds[t]
           /\ c.op = "consume" /\ Source(c) = Mandate => Mandate \in holds[t]
           /\ c.op \in {"submit", "consume"} => ReceiptRow(c.basis) \in holds[t]
           /\ c.op = "run" =>
                 {Approval(c.basis[1]), Authority, BasisRow(c.basis), ReservationRow(c.basis),
                  ReceiptRow(c.basis)} \subseteq holds[t]
           /\ c.op \in {"request", "decide"} => Approval(c.basis[1]) \in holds[t]
           /\ c.op \in {"pause", "halt", "resume"} => Mandate \in holds[t]
           /\ c.op \in {"pause", "mode", "retire", "resume"} => Binding \in holds[t]
           /\ c.op \in {"pause", "halt", "mode", "retire"} =>
                 BasisRows(c) \union StaleRows(c) \union FreedRows(c) \subseteq holds[t]
<1> DEFINE c == txn[t]
           script == Script(c)
<1>1. \A i \in DOMAIN script : script[i] \subseteq holds[t]
  BY NextStep
<1>2. CASE c.op \in {"authorize", "submit", "consume"}
  <2>1. CASE c.op = "authorize"
    <3>1. script = <<{Source(c)}, {Authority}, {BasisRow(c.basis)}, {ReservationRow(c.basis)}, {Binding}>>
      BY <2>1 DEF Script
    <3> QED BY <1>1, <2>1, <3>1
  <2>2. CASE c.op = "submit"
    <3>1. script = <<{Source(c)}, {Authority}, {BasisRow(c.basis)}, {ReservationRow(c.basis)}, {Binding},
                     {ReceiptRow(c.basis)}>>
      BY <2>2 DEF Script
    <3> QED BY <1>1, <2>2, <3>1
  <2>3. CASE c.op = "consume"
    <3>1. script = <<{ReceiptRow(c.basis)}, {BasisRow(c.basis)}, {ReservationRow(c.basis)}, {Authority},
                     {Mandate} \intersect {Source(c)}, {Binding}>>
      BY <2>3 DEF Script
    <3>2. /\ {ReceiptRow(c.basis)} \subseteq holds[t] /\ {BasisRow(c.basis)} \subseteq holds[t]
          /\ {ReservationRow(c.basis)} \subseteq holds[t] /\ {Authority} \subseteq holds[t]
          /\ {Mandate} \intersect {Source(c)} \subseteq holds[t] /\ {Binding} \subseteq holds[t]
      BY <1>1, <3>1
    <3> QED BY <2>3, <3>2
  <2> QED BY <1>2, <2>1, <2>2, <2>3
<1>3. CASE c.op \in {"run", "request", "decide"}
  <2>1. CASE c.op = "run"
    <3>1. script = <<{Approval(c.basis[1])}, {Authority}, {BasisRow(c.basis)}, {ReservationRow(c.basis)},
                     {ReceiptRow(c.basis)}>>
      BY <2>1 DEF Script
    <3> QED BY <1>1, <2>1, <3>1
  <2>2. CASE c.op = "decide"
    <3>1. script = <<{Approval(c.basis[1])}>>
      BY <2>2 DEF Script
    <3> QED BY <1>1, <2>2, <3>1
  <2>3. CASE c.op = "request"
    <3>1. script = <<{Mandate}, {Binding}, {Approval(c.basis[1])}>>
      BY <2>3 DEF Script
    <3> QED BY <1>1, <2>3, <3>1
  <2> QED BY <1>3, <2>1, <2>2, <2>3
<1>4. CASE c.op \in {"pause", "halt", "mode", "retire", "resume"}
  <2>1. CASE c.op = "pause"
    <3>1. script = <<{Mandate}, {Binding}, BasisRows(c), StaleRows(c), FreedRows(c)>>
      BY <2>1 DEF Script
    <3>2. {Mandate} \subseteq holds[t] /\ {Binding} \subseteq holds[t] /\ BasisRows(c) \subseteq holds[t]
          /\ StaleRows(c) \subseteq holds[t] /\ FreedRows(c) \subseteq holds[t]
      BY <1>1, <3>1
    <3> QED BY <2>1, <3>2
  <2>2. CASE c.op = "halt"
    <3>1. script = <<{Mandate}, BasisRows(c), StaleRows(c), FreedRows(c)>>
      BY <2>2 DEF Script
    <3>2. {Mandate} \subseteq holds[t] /\ BasisRows(c) \subseteq holds[t]
          /\ StaleRows(c) \subseteq holds[t] /\ FreedRows(c) \subseteq holds[t]
      BY <1>1, <3>1
    <3> QED BY <2>2, <3>2
  <2>3. CASE c.op \in {"mode", "retire"}
    <3>1. script = <<{Binding}, StaleRows(c), BasisRows(c), FreedRows(c)>>
      BY <2>3 DEF Script
    <3>2. {Binding} \subseteq holds[t] /\ BasisRows(c) \subseteq holds[t]
          /\ StaleRows(c) \subseteq holds[t] /\ FreedRows(c) \subseteq holds[t]
      BY <1>1, <3>1
    <3> QED BY <2>3, <3>2
  <2>4. CASE c.op = "resume"
    <3>1. script = <<{Mandate}, {Binding}>>
      BY <2>4 DEF Script
    <3> QED BY <1>1, <2>4, <3>1
  <2> QED BY <1>4, <2>1, <2>2, <2>3, <2>4
<1> QED BY <1>2, <1>3, <1>4 DEF Ops

\* A chain asks for its basis when it holds the risk budget authority.
LEMMA AuthorityFirst ==
    ASSUME NEW t, txn[t].op \in Chaining, BasisRow(txn[t].basis) \in NextRows(t)
    PROVE  Authority \in holds[t]
<1> DEFINE c == txn[t]
           script == Script(c)
           row == BasisRow(c.basis)
<1>0. c.op \in Ops
  BY DEF Chaining, Ops
<1>1. PICK i \in DOMAIN script : /\ row \in script[i]
                                 /\ \A j \in DOMAIN script : j < i => script[j] \subseteq holds[t]
  BY <1>0, NextStep
<1>2. /\ row[1] = "basis" /\ Authority[1] = "authority" /\ Mandate[1] = "mandate"
      /\ Binding[1] = "binding" /\ ReceiptRow(c.basis)[1] = "receipt"
      /\ ReservationRow(c.basis)[1] = "reservation" /\ Approval(c.basis[1])[1] = "approval"
      /\ Source(c)[1] \in {"mandate", "approval"}
  BY DEF BasisRow, Authority, Mandate, Binding, ReceiptRow, ReservationRow, Approval, Source
<1> HIDE DEF row
<1>3. CASE c.op = "authorize"
  <2>1. script = <<{Source(c)}, {Authority}, {row}, {ReservationRow(c.basis)}, {Binding}>>
    BY <1>3 DEF Script, row
  <2> HIDE DEF script
  <2>2. i \in 1 .. 5 /\ 2 \in DOMAIN script /\ script[2] = {Authority}
    BY <2>1
  <2>3. i = 3
    BY <1>1, <1>2, <2>1, <2>2
  <2> QED BY <1>1, <2>2, <2>3
<1>4. CASE c.op = "submit"
  <2>1. script = <<{Source(c)}, {Authority}, {row}, {ReservationRow(c.basis)}, {Binding}, {ReceiptRow(c.basis)}>>
    BY <1>4 DEF Script, row
  <2> HIDE DEF script
  <2>2. i \in 1 .. 6 /\ 2 \in DOMAIN script /\ script[2] = {Authority}
    BY <2>1
  <2>3. i = 3
    BY <1>1, <1>2, <2>1, <2>2
  <2> QED BY <1>1, <2>2, <2>3
<1>5. CASE c.op = "run"
  <2>1. script = <<{Approval(c.basis[1])}, {Authority}, {row}, {ReservationRow(c.basis)}, {ReceiptRow(c.basis)}>>
    BY <1>5 DEF Script, row
  <2> HIDE DEF script
  <2>2. i \in 1 .. 5 /\ 2 \in DOMAIN script /\ script[2] = {Authority}
    BY <2>1
  <2>3. i = 3
    BY <1>1, <1>2, <2>1, <2>2
  <2> QED BY <1>1, <2>2, <2>3
<1> QED BY <1>3, <1>4, <1>5 DEF Chaining

(***************************************************************************)
(* What the rows say, whoever is at work on them.                          *)
(***************************************************************************)
RowsTyped ==
    /\ mandate \in [version : 1 .. MaxMandate, status : {"ACTIVE", "SUSPENDED", "HALTED"}]
    /\ binding \in [version : Nat \ {0}, mode : {"AUTONOMOUS", "PAUSED", "RETIRED"}, mandate : 1 .. MaxMandate]
    /\ approval \in [Exception \union Fixture ->
                        {"NONE", "REQUESTED", "GRANTED", "REJECTED", "EXPIRED", "CONSUMED"}]
    /\ basis \in [Basis -> {"NONE", "ACTIVE", "STALE"}]
    /\ reservation \in [Basis -> {"NONE", "HELD", "CONSUMED", "RELEASED"}]
    /\ receipt \in [Basis -> {"NONE", "ISSUED", "CONSUMED", "STALE"}]
    /\ bound \in [Basis -> Nat]
    /\ order \in [Basis -> 0 .. 1]

\* A basis and what hangs on it: absent, authorized, consumed or swept; or, on
\* an exception's approval, held with a receipt that a change of the mode ended.
WholeChain(b) ==
    \/ basis[b] = "NONE" /\ receipt[b] = "NONE" /\ reservation[b] = "NONE" /\ order[b] = 0
    \/ basis[b] = "ACTIVE" /\ receipt[b] = "ISSUED" /\ reservation[b] = "HELD" /\ order[b] = 0
    \/ basis[b] \in {"ACTIVE", "STALE"} /\ receipt[b] = "CONSUMED" /\ reservation[b] = "CONSUMED" /\ order[b] = 1
    \/ basis[b] = "STALE" /\ receipt[b] = "STALE" /\ reservation[b] = "RELEASED" /\ order[b] = 0
    \/ /\ b \in Excepted /\ bound[b] < binding.version
       /\ basis[b] = "ACTIVE" /\ receipt[b] = "STALE" /\ reservation[b] = "HELD" /\ order[b] = 0

WholeChains == \A b \in Basis : WholeChain(b)

\* What is held under a mandate is held under the one in force, on a receipt
\* that names the binding in force; a manual receipt names none.
HeldUnderMandate ==
    /\ \A b \in Mandated : reservation[b] = "HELD" =>
          /\ mandate.version = b[2] /\ mandate.status = "ACTIVE"
          /\ binding.mode = "AUTONOMOUS" /\ binding.mandate = b[2] /\ binding.version = bound[b]
    /\ \A f \in Fixture : bound[<<f, 0>>] = 0

Units == {u \in Basis \X (1..Budget) : reservation[u[1]] = "HELD" /\ u[2] <= Loss[u[1][1]]}

LEMMA BasisParts ==
    ASSUME NEW b \in Basis
    PROVE  /\ b = <<b[1], b[2]>> /\ b[1] \in Plan \union Exception \union Fixture
           /\ Loss[b[1]] \in 0 .. Budget /\ Budget \in Nat
           /\ b \in Mandated \/ b \in Excepted \/ b \in Fixture \X {0}
           /\ ~ (b \in Mandated /\ b \in Fixture \X {0}) /\ ~ (b \in Mandated /\ b \in Excepted)
           /\ ~ (b \in Excepted /\ b \in Fixture \X {0})
BY SubmissionAssumption DEF Basis, Mandated, Excepted

LEMMA AgentParts ==
    ASSUME NEW b \in Agents
    PROVE  /\ b \in Basis /\ b \notin Fixture \X {0}
           /\ b \in Mandated => /\ b[1] \in Plan /\ b[1] \notin Exception \union Fixture
                               /\ b[2] \in 1 .. MaxMandate /\ b[2] \in Nat /\ b[2] # 0
           /\ b \in Excepted => b[1] \in Exception /\ b[1] \notin Fixture /\ b = <<b[1], 0>> /\ b[2] = 0
           /\ b \notin Mandated => b \in Excepted
<1>1. b \in Basis
  BY DEF Agents, Basis
<1> QED BY <1>1, BasisParts, SubmissionAssumption DEF Agents, Mandated, Excepted

\* What a chain writes for its basis.
LEMMA WritesEffect ==
    ASSUME RowsTyped, WholeChains, NEW c, c.basis \in Basis, NEW state \in {"HELD", "CONSUMED"},
           reservation[c.basis] \in {"NONE", "HELD"}, Writes(c, state),
           binding' = binding, c.op = "run" \/ c.binding \in Nat
    PROVE  /\ basis' \in [Basis -> {"NONE", "ACTIVE", "STALE"}]
           /\ reservation' \in [Basis -> {"NONE", "HELD", "CONSUMED", "RELEASED"}]
           /\ receipt' \in [Basis -> {"NONE", "ISSUED", "CONSUMED", "STALE"}]
           /\ order' \in [Basis -> 0 .. 1]
           /\ bound' \in [Basis -> Nat]
           /\ bound'[c.basis] = IF c.op = "run" THEN bound[c.basis] ELSE c.binding
           /\ basis'[c.basis] = "ACTIVE" /\ reservation'[c.basis] = state
           /\ receipt'[c.basis] = IF state = "CONSUMED" THEN "CONSUMED" ELSE "ISSUED"
           /\ order'[c.basis] = IF state = "CONSUMED" THEN 1 ELSE 0
           /\ \A b \in Basis : b # c.basis =>
                 /\ basis'[b] = basis[b] /\ reservation'[b] = reservation[b]
                 /\ receipt'[b] = receipt[b] /\ order'[b] = order[b] /\ bound'[b] = bound[b]
           /\ WholeChains'
<1> DEFINE B == c.basis
<1>1. WholeChain(B) /\ B \in Basis
  BY DEF WholeChains
<1>2. order[B] = 0
  BY <1>1 DEF WholeChain
<1>3. /\ basis' = Set(basis, {B}, "ACTIVE")
      /\ receipt' = Set(receipt, {B}, IF state = "CONSUMED" THEN state ELSE "ISSUED")
      /\ reservation' = Set(reservation, {B}, state)
      /\ order' = IF state = "CONSUMED" THEN [order EXCEPT ![B] = order[B] + 1] ELSE order
      /\ bound' = IF c.op = "run" THEN bound ELSE Set(bound, {B}, c.binding)
  BY DEF Writes
<1> HIDE DEF B
<1>4. /\ basis' = [x \in Basis |-> IF x \in {B} THEN "ACTIVE" ELSE basis[x]]
      /\ receipt' = [x \in Basis |-> IF x \in {B} THEN (IF state = "CONSUMED" THEN state ELSE "ISSUED") ELSE receipt[x]]
      /\ reservation' = [x \in Basis |-> IF x \in {B} THEN state ELSE reservation[x]]
      /\ bound' = IF c.op = "run" THEN bound
                  ELSE [x \in Basis |-> IF x \in {B} THEN c.binding ELSE bound[x]]
  BY <1>3 DEF RowsTyped, Set
<1>5. /\ basis' \in [Basis -> {"NONE", "ACTIVE", "STALE"}]
      /\ reservation' \in [Basis -> {"NONE", "HELD", "CONSUMED", "RELEASED"}]
      /\ receipt' \in [Basis -> {"NONE", "ISSUED", "CONSUMED", "STALE"}]
  BY <1>4 DEF RowsTyped
<1>6. /\ order' \in [Basis -> 0 .. 1]
      /\ order'[B] = IF state = "CONSUMED" THEN 1 ELSE 0
      /\ \A b \in Basis : b # B => order'[b] = order[b]
  BY <1>1, <1>2, <1>3 DEF RowsTyped
<1>7. /\ basis'[B] = "ACTIVE" /\ reservation'[B] = state
      /\ receipt'[B] = IF state = "CONSUMED" THEN "CONSUMED" ELSE "ISSUED"
      /\ \A b \in Basis : b # B =>
            basis'[b] = basis[b] /\ reservation'[b] = reservation[b] /\ receipt'[b] = receipt[b]
  BY <1>1, <1>4
<1>8. /\ bound' \in [Basis -> Nat]
      /\ bound'[B] = IF c.op = "run" THEN bound[B] ELSE c.binding
      /\ \A b \in Basis : b # B => bound'[b] = bound[b]
  BY <1>1, <1>4 DEF RowsTyped
<1>9. WholeChains'
  <2> SUFFICES ASSUME NEW b \in Basis PROVE WholeChain(b)'
    BY DEF WholeChains
  <2>1. WholeChain(b)
    BY DEF WholeChains
  <2> QED BY <1>6, <1>7, <1>8, <2>1 DEF WholeChain
<1> QED BY <1>5, <1>6, <1>7, <1>8, <1>9 DEF B

\* Whether c stops the mandate in force, or the mode of the binding in force.
Stops(c) ==
    \/ /\ c.op \in {"pause", "halt"} /\ mandate.version = c.mandate
       /\ binding.version <= binding'.version
    \/ /\ c.op \in {"mode", "retire"} /\ c.binding = binding.version /\ c.mandate = binding.mandate
       /\ binding.version < binding'.version

\* A sweep leaves every row of its type.
LEMMA SweptTyped ==
    ASSUME RowsTyped, NEW c, Sweeps(c), approval' = approval,
           mandate' \in [version : 1 .. MaxMandate, status : {"ACTIVE", "SUSPENDED", "HALTED"}],
           binding' \in [version : Nat \ {0}, mode : {"AUTONOMOUS", "PAUSED", "RETIRED"}, mandate : 1 .. MaxMandate]
    PROVE  RowsTyped'
<1>1. /\ basis' = [x \in Basis |-> IF x \in StaleBases(c) THEN "STALE" ELSE basis[x]]
      /\ receipt' = [x \in Basis |-> IF x \in StaleReceipts(c) THEN "STALE" ELSE receipt[x]]
      /\ reservation' = [x \in Basis |-> IF x \in FreedReservations(c) THEN "RELEASED" ELSE reservation[x]]
      /\ order' = order /\ bound' = bound
  BY DEF RowsTyped, Sweeps, Set
<1>2. /\ basis' \in [Basis -> {"NONE", "ACTIVE", "STALE"}]
      /\ receipt' \in [Basis -> {"NONE", "ISSUED", "CONSUMED", "STALE"}]
      /\ reservation' \in [Basis -> {"NONE", "HELD", "CONSUMED", "RELEASED"}]
  BY <1>1 DEF RowsTyped
<1> QED BY <1>1, <1>2 DEF RowsTyped

\* What a pause, a halt or a change of mode sweeps.
LEMMA SweepsEffect ==
    ASSUME RowsTyped, RowsTyped', WholeChains, HeldUnderMandate, NEW c, Stops(c), Sweeps(c)
    PROVE  /\ order' = order /\ bound' = bound
           /\ \A b \in Basis :
                 /\ reservation'[b] = IF b \in FreedReservations(c) THEN "RELEASED" ELSE reservation[b]
                 /\ receipt'[b] = IF b \in StaleReceipts(c) THEN "STALE" ELSE receipt[b]
                 /\ basis'[b] = "NONE" <=> basis[b] = "NONE"
           /\ \A b \in Mandated : reservation'[b] # "HELD"
           /\ WholeChains'
<1>1. Of(c.mandate) \subseteq Mandated /\ Mandated \subseteq Basis
  BY DEF Of, Mandated, Basis
<1>2. /\ basis' = [x \in Basis |-> IF x \in StaleBases(c) THEN "STALE" ELSE basis[x]]
      /\ receipt' = [x \in Basis |-> IF x \in StaleReceipts(c) THEN "STALE" ELSE receipt[x]]
      /\ reservation' = [x \in Basis |-> IF x \in FreedReservations(c) THEN "RELEASED" ELSE reservation[x]]
      /\ order' = order /\ bound' = bound
  BY DEF RowsTyped, Sweeps, Set
<1>3. \A b \in Basis :
         /\ basis'[b] = IF b \in StaleBases(c) THEN "STALE" ELSE basis[b]
         /\ receipt'[b] = IF b \in StaleReceipts(c) THEN "STALE" ELSE receipt[b]
         /\ reservation'[b] = IF b \in FreedReservations(c) THEN "RELEASED" ELSE reservation[b]
  BY <1>2
<1>4. \A b \in StaleBases(c) : b \in Mandated /\ basis[b] = "ACTIVE"
  BY <1>1 DEF StaleBases
<1>5. /\ binding.version \in Nat \ {0} /\ binding'.version \in Nat \ {0}
      /\ binding.version <= binding'.version
  BY DEF RowsTyped, Stops
<1>6. ASSUME NEW b \in Mandated, reservation[b] = "HELD"
      PROVE  b \in FreedReservations(c) /\ b \in Named(c) /\ b \in Of(c.mandate)
  <2>1. mandate.version = b[2] /\ binding.mandate = b[2] /\ binding.version = bound[b]
    BY <1>6 DEF HeldUnderMandate
  <2>2. b \in Of(c.mandate)
    BY <2>1 DEF Stops, Of
  <2>3. b \in Named(c)
    BY <1>1, <2>1, <2>2 DEF Stops, Named
  <2> QED BY <1>6, <2>2, <2>3 DEF FreedReservations
<1>7. ASSUME NEW b \in Basis, b \in StaleReceipts(c), b \notin Mandated
      PROVE  b \in Excepted /\ bound[b] < binding'.version /\ receipt[b] = "ISSUED"
  <2>1. c.op \in {"mode", "retire"} /\ bound[b] = c.binding /\ receipt[b] = "ISSUED"
    BY <1>1, <1>7 DEF StaleReceipts, Named
  <2>2. c.binding = binding.version /\ binding.version < binding'.version
    BY <2>1 DEF Stops
  <2>3. b \notin Fixture \X {0}
    BY <1>5, <2>1, <2>2 DEF HeldUnderMandate
  <2> QED BY <1>7, <2>1, <2>2, <2>3, BasisParts
<1>8. WholeChains'
  <2> SUFFICES ASSUME NEW b \in Basis PROVE WholeChain(b)'
    BY DEF WholeChains
  <2>1. WholeChain(b)
    BY DEF WholeChains
  <2>2. bound'[b] = bound[b] /\ order'[b] = order[b] /\ bound[b] \in Nat
    BY <1>2 DEF RowsTyped
  <2>3. CASE b \in Mandated /\ reservation[b] = "HELD"
    <3>1. basis[b] = "ACTIVE" /\ receipt[b] = "ISSUED" /\ order[b] = 0
      BY <2>1, <2>3, BasisParts DEF WholeChain
    <3>2. b \in StaleBases(c) /\ b \in StaleReceipts(c) /\ b \in FreedReservations(c)
      BY <1>6, <2>3, <3>1 DEF StaleBases, StaleReceipts
    <3> QED BY <1>3, <2>2, <3>1, <3>2 DEF WholeChain
  <2>4. CASE b \in Mandated /\ reservation[b] # "HELD"
    <3>1. receipt[b] # "ISSUED"
      BY <2>1, <2>4 DEF WholeChain
    <3>2. b \notin StaleReceipts(c) /\ b \notin FreedReservations(c)
      BY <2>4, <3>1 DEF StaleReceipts, FreedReservations
    <3>3. receipt'[b] = receipt[b] /\ reservation'[b] = reservation[b]
          /\ (basis'[b] = basis[b] \/ (basis[b] = "ACTIVE" /\ basis'[b] = "STALE"))
      BY <1>3, <1>4, <3>2
    <3> QED BY <2>1, <2>2, <2>4, <3>3 DEF WholeChain
  <2>5. CASE b \notin Mandated
    <3>1. b \notin StaleBases(c) /\ b \notin FreedReservations(c)
      BY <1>1, <2>5 DEF StaleBases, FreedReservations
    <3>2. basis'[b] = basis[b] /\ reservation'[b] = reservation[b]
      BY <1>3, <3>1
    <3>3. CASE b \in StaleReceipts(c)
      <4>1. b \in Excepted /\ bound[b] < binding'.version /\ receipt[b] = "ISSUED" /\ receipt'[b] = "STALE"
        BY <1>3, <1>7, <2>5, <3>3
      <4> QED BY <2>1, <2>2, <3>2, <4>1 DEF WholeChain
    <3>4. CASE b \notin StaleReceipts(c)
      <4>1. receipt'[b] = receipt[b]
        BY <1>3, <3>4
      <4>2. bound[b] < binding.version => bound[b] < binding'.version
        BY <1>5, <2>2
      <4> QED BY <2>1, <2>2, <3>2, <4>1, <4>2 DEF WholeChain
    <3> QED BY <3>3, <3>4
  <2> QED BY <2>3, <2>4, <2>5
<1>9. \A b \in Basis : basis'[b] = "NONE" <=> basis[b] = "NONE"
  BY <1>3, <1>4
<1>10. \A b \in Mandated : reservation'[b] # "HELD"
  BY <1>1, <1>3, <1>6
<1> QED BY <1>2, <1>3, <1>8, <1>9, <1>10

\* Reservations that end make room, ...
LEMMA UnitsShrink ==
    ASSUME IsFiniteSet(Units), \A b \in Basis : reservation'[b] = "HELD" => reservation[b] = "HELD"
    PROVE  /\ IsFiniteSet(Units') /\ HeldLoss' <= HeldLoss
           /\ HeldLoss \in Nat /\ HeldLoss' \in Nat
<1>1. Units' \subseteq Units
  BY DEF Units
<1>2. /\ IsFiniteSet(Units') /\ Cardinality(Units') <= Cardinality(Units)
      /\ Cardinality(Units) \in Nat /\ Cardinality(Units') \in Nat
  BY <1>1, FS_Subset, FS_CardinalityType
<1>3. HeldLoss = Cardinality(Units) /\ HeldLoss' = Cardinality(Units')
  BY DEF HeldLoss, Units
<1> QED BY <1>2, <1>3

\* ... and one that is made takes its loss.
LEMMA UnitsGrow ==
    ASSUME IsFiniteSet(Units), NEW a \in Basis, reservation[a] = "NONE", reservation'[a] = "HELD",
           \A b \in Basis : b # a => reservation'[b] = reservation[b]
    PROVE  /\ IsFiniteSet(Units') /\ HeldLoss' = HeldLoss + Loss[a[1]]
           /\ HeldLoss \in Nat
<1> DEFINE T == 1 .. Loss[a[1]]
           new == {a} \X T
<1>1. Loss[a[1]] \in Nat /\ Loss[a[1]] <= Budget /\ Budget \in Nat
  BY BasisParts
<1>2. IsFiniteSet(T) /\ Cardinality(T) = Loss[a[1]]
  <2>1. Loss[a[1]] \in Int /\ 1 \in Int
    BY <1>1
  <2>2. /\ IsFiniteSet(T)
        /\ Cardinality(T) = IF 1 > Loss[a[1]] THEN 0 ELSE Loss[a[1]] - 1 + 1
    BY <2>1, FS_Interval
  <2> HIDE DEF T
  <2> QED BY <1>1, <2>2
<1>3. IsFiniteSet({a}) /\ Cardinality({a}) = 1
  BY FS_Singleton
<1> HIDE DEF T
<1>4. IsFiniteSet(new) /\ Cardinality(new) = 1 * Cardinality(T)
  BY <1>2, <1>3, FS_Product
<1>5. Units' = Units \union new
  <2>1. ASSUME NEW u \in Units' PROVE u \in Units \union new
    <3>1. u \in Basis \X (1..Budget) /\ reservation'[u[1]] = "HELD" /\ u[2] <= Loss[u[1][1]]
      BY DEF Units
    <3>2. CASE u[1] = a
      <4>1. u[2] \in T
        BY <1>1, <3>1, <3>2 DEF T
      <4> QED BY <3>1, <3>2, <4>1
    <3>3. CASE u[1] # a
      BY <3>1, <3>3 DEF Units
    <3> QED BY <3>2, <3>3
  <2>2. ASSUME NEW u \in Units \union new PROVE u \in Units'
    <3>1. CASE u \in Units
      <4>1. u[1] # a /\ u[1] \in Basis
        BY <3>1 DEF Units
      <4> QED BY <3>1, <4>1 DEF Units
    <3>2. CASE u \in new
      <4>1. u[1] = a /\ u[2] \in 1 .. Budget /\ u[2] <= Loss[a[1]] /\ u \in Basis \X (1..Budget)
        BY <1>1, <3>2 DEF T
      <4> QED BY <4>1 DEF Units
    <3> QED BY <3>1, <3>2
  <2> QED BY <2>1, <2>2
<1>6. Units \intersect new = {}
  BY DEF Units
<1> HIDE DEF new
<1>7. /\ IsFiniteSet(Units') /\ Cardinality(Units) \in Nat
      /\ Cardinality(Units') = Cardinality(Units) + Cardinality(new) - Cardinality({})
  <2>1. /\ IsFiniteSet(Units \union new)
        /\ Cardinality(Units \union new)
              = Cardinality(Units) + Cardinality(new) - Cardinality(Units \intersect new)
    BY <1>4, FS_Union
  <2>2. Cardinality(Units) \in Nat
    BY FS_CardinalityType
  <2> QED BY <1>5, <1>6, <2>1, <2>2
<1>8. HeldLoss = Cardinality(Units) /\ HeldLoss' = Cardinality(Units')
  BY DEF HeldLoss, Units
<1> QED BY <1>1, <1>2, <1>4, <1>7, <1>8, FS_EmptySet

(***************************************************************************)
(* The rows at any moment; what a commit may change of a row that it does  *)
(* not hold; and what it may not do to the mandates that came before.      *)
(***************************************************************************)
ApprovalsAgree ==
    /\ \A f \in Fixture : approval[f] = "CONSUMED" <=> order[<<f, 0>>] = 1
    /\ \A e \in Exception : approval[e] = "CONSUMED" <=> basis[<<e, 0>>] # "NONE"

OneRun == \A f, g \in Fixture : order[<<f, 0>>] = 1 /\ order[<<g, 0>>] = 1 => f = g

RowsInv ==
    /\ RowsTyped
    /\ WholeChains
    /\ ApprovalsAgree
    /\ OneRun
    /\ HeldUnderMandate
    /\ IsFiniteSet(Units)
    /\ HeldLoss <= Budget

Frozen(u) ==
    /\ Mandate \notin holds[u] => mandate' = mandate
    /\ Binding \notin holds[u] => binding' = binding
    /\ \A f \in Exception \union Fixture : Approval(f) \notin holds[u] => approval'[f] = approval[f]
    /\ \A b \in Basis : BasisRow(b) \notin holds[u] => reservation'[b] = reservation[b]
    /\ \A b \in Basis : ReceiptRow(b) \notin holds[u] /\ receipt[b] = "ISSUED" => receipt'[b] = "ISSUED"
    /\ Authority \notin holds[u] => /\ HeldLoss' <= HeldLoss
                                    /\ \A f \in Fixture : order'[<<f, 0>>] = order[<<f, 0>>]

Forward(u) ==
    /\ mandate.version <= mandate'.version
    /\ \A b \in Agents : order'[b] # order[b] =>
          /\ binding.mode = "AUTONOMOUS" /\ binding.version = bound'[b]
          /\ b \in Mandated => mandate = [version |-> b[2], status |-> "ACTIVE"]
    /\ \A b \in Mandated : basis'[b] # "NONE" =>
          basis[b] # "NONE" \/ (txn[u].op \in {"authorize", "submit"} /\ b = txn[u].basis)

Effect(u) == RowsInv' /\ Frozen(u) /\ Forward(u)

LEMMA FixtureBasis ==
    ASSUME NEW f \in Fixture
    PROVE  <<f, 0>> \in Basis /\ <<f, 0>> \notin Agents
<1>1. <<f, 0>> \in Fixture \X {0}
  OBVIOUS
<1> QED BY <1>1, BasisParts DEF Basis, Agents

LEMMA MandateFields ==
    ASSUME RowsTyped
    PROVE  /\ mandate = [version |-> mandate.version, status |-> mandate.status]
           /\ mandate.version \in Nat /\ mandate.version \in 1 .. MaxMandate
           /\ binding.version \in Nat /\ binding.version # 0 /\ binding.mandate \in 1 .. MaxMandate
           /\ MaxMandate \in Nat
BY SubmissionAssumption DEF RowsTyped

LEMMA MandateStands ==
    ASSUME NEW c, NEW status, MandateIs(c, status)
    PROVE  mandate.version = c.mandate /\ mandate.status = status
<1>1. /\ [version |-> c.mandate, status |-> status].version = c.mandate
      /\ [version |-> c.mandate, status |-> status].status = status
  OBVIOUS
<1> QED BY <1>1 DEF MandateIs

\* Setting the approval of a basis, if it has one.
LEMMA ApprovalSet ==
    ASSUME RowsTyped, NEW p, approval' = Set(approval, {p}, "CONSUMED")
    PROVE  /\ approval' \in [Exception \union Fixture ->
                                {"NONE", "REQUESTED", "GRANTED", "REJECTED", "EXPIRED", "CONSUMED"}]
           /\ \A f \in Exception \union Fixture : approval'[f] = IF f = p THEN "CONSUMED" ELSE approval[f]
BY DEF Set, RowsTyped

\* A chain of an agent: authorized, or consumed at once or later.
LEMMA AgentEffect ==
    ASSUME RowsInv, NEW u, NEW state \in {"HELD", "CONSUMED"},
           txn[u].basis \in Agents, txn[u].mandate = txn[u].basis[2], txn[u].op # "run",
           {Authority, BasisRow(txn[u].basis)} \subseteq holds[u],
           state = "CONSUMED" => ReceiptRow(txn[u].basis) \in holds[u],
           txn[u].basis \in Mandated => MandateIs(txn[u], "ACTIVE"),
           BindingIs(txn[u]), binding.mode = "AUTONOMOUS",
           reservation[txn[u].basis] \in {"NONE", "HELD"},
           state = "HELD" => Affordable(txn[u].basis),
           txn[u].op \in {"authorize", "submit"} \/ reservation[txn[u].basis] = "HELD",
           Writes(txn[u], state), mandate' = mandate, binding' = binding,
           \/ /\ approval' = Set(approval, {txn[u].basis[1]}, "CONSUMED")
              /\ txn[u].basis \in Excepted => Approval(txn[u].basis[1]) \in holds[u]
           \/ approval' = approval /\ reservation[txn[u].basis] = "HELD"
    PROVE  Effect(u)
<1> DEFINE c == txn[u]
           B == c.basis
<1>1. /\ RowsTyped /\ WholeChains /\ ApprovalsAgree /\ OneRun /\ HeldUnderMandate
      /\ IsFiniteSet(Units) /\ HeldLoss <= Budget
  BY DEF RowsInv
<1>2. B \in Agents /\ B \in Basis
  BY AgentParts
<1>3. binding.version = c.binding /\ binding.version \in Nat
  BY <1>1, MandateFields DEF BindingIs
<1>4. /\ basis' \in [Basis -> {"NONE", "ACTIVE", "STALE"}]
      /\ reservation' \in [Basis -> {"NONE", "HELD", "CONSUMED", "RELEASED"}]
      /\ receipt' \in [Basis -> {"NONE", "ISSUED", "CONSUMED", "STALE"}]
      /\ order' \in [Basis -> 0 .. 1]
      /\ bound' \in [Basis -> Nat] /\ bound'[B] = c.binding
      /\ basis'[B] = "ACTIVE" /\ reservation'[B] = state
      /\ receipt'[B] = IF state = "CONSUMED" THEN "CONSUMED" ELSE "ISSUED"
      /\ order'[B] = IF state = "CONSUMED" THEN 1 ELSE 0
      /\ \A b \in Basis : b # B =>
            /\ basis'[b] = basis[b] /\ reservation'[b] = reservation[b]
            /\ receipt'[b] = receipt[b] /\ order'[b] = order[b] /\ bound'[b] = bound[b]
      /\ WholeChains'
  BY <1>1, <1>2, <1>3, WritesEffect
<1>5. B \in Mandated => /\ mandate.version = B[2] /\ mandate.status = "ACTIVE"
                        /\ binding.mode = "AUTONOMOUS" /\ binding.mandate = B[2]
  BY AgentParts, MandateStands DEF BindingIs
<1>6. \A f \in Exception \union Fixture : approval'[f] = approval[f] \/ (f = B[1] /\ approval'[f] = "CONSUMED")
  <2>1. CASE approval' = Set(approval, {B[1]}, "CONSUMED")
    <3>1. \A f \in Exception \union Fixture : approval'[f] = IF f = B[1] THEN "CONSUMED" ELSE approval[f]
      BY <1>1, <2>1, ApprovalSet
    <3> QED BY <3>1
  <2>2. CASE approval' = approval
    BY <2>2
  <2> QED BY <2>1, <2>2
<1>7. RowsTyped'
  <2>1. approval' \in [Exception \union Fixture ->
                         {"NONE", "REQUESTED", "GRANTED", "REJECTED", "EXPIRED", "CONSUMED"}]
    BY <1>1, ApprovalSet DEF RowsTyped
  <2> QED BY <1>1, <1>4, <2>1 DEF RowsTyped
<1>8. \A f \in Fixture : /\ order'[<<f, 0>>] = order[<<f, 0>>] /\ bound'[<<f, 0>>] = bound[<<f, 0>>]
                         /\ approval'[f] = approval[f]
  <2> SUFFICES ASSUME NEW f \in Fixture
               PROVE  /\ order'[<<f, 0>>] = order[<<f, 0>>] /\ bound'[<<f, 0>>] = bound[<<f, 0>>]
                      /\ approval'[f] = approval[f]
    OBVIOUS
  <2>1. <<f, 0>> \in Basis /\ <<f, 0>> # B
    BY <1>2, FixtureBasis
  <2>2. f # B[1]
    BY <1>2, AgentParts
  <2> QED BY <1>4, <1>6, <2>1, <2>2
<1>9. OneRun'
  BY <1>1, <1>8 DEF OneRun
<1>10. ApprovalsAgree'
  <2>1. ASSUME NEW f \in Fixture PROVE approval'[f] = "CONSUMED" <=> order'[<<f, 0>>] = 1
    BY <1>1, <1>8 DEF ApprovalsAgree
  <2>2. ASSUME NEW e \in Exception PROVE approval'[e] = "CONSUMED" <=> basis'[<<e, 0>>] # "NONE"
    <3>1. <<e, 0>> \in Basis /\ <<e, 0>> \in Agents /\ <<e, 0>> \in Excepted
      BY DEF Agents, Excepted, Basis
    <3>2. CASE <<e, 0>> = B
      <4>1. basis'[<<e, 0>>] = "ACTIVE" /\ e = B[1]
        BY <1>4, <3>2
      <4>2. reservation[B] = "HELD" => basis[B] # "NONE"
        BY <1>1, <1>2 DEF WholeChains, WholeChain
      <4>3. reservation[B] = "HELD" => approval[e] = "CONSUMED"
        BY <1>1, <3>2, <4>2 DEF ApprovalsAgree
      <4>4. approval'[e] = "CONSUMED"
        BY <1>1, <4>1, <4>3, ApprovalSet
      <4> QED BY <4>1, <4>4
    <3>3. CASE <<e, 0>> # B
      <4>1. e # B[1]
        <5> SUFFICES ASSUME e = B[1] PROVE FALSE
          OBVIOUS
        <5>1. B \in Excepted
          BY <1>2, AgentParts, SubmissionAssumption
        <5> QED BY <1>2, <3>3, <5>1, AgentParts
      <4>2. approval'[e] = approval[e] /\ basis'[<<e, 0>>] = basis[<<e, 0>>]
        BY <1>4, <1>6, <3>1, <3>3, <4>1
      <4> QED BY <1>1, <4>2 DEF ApprovalsAgree
    <3> QED BY <3>2, <3>3
  <2> QED BY <2>1, <2>2 DEF ApprovalsAgree
<1>11. HeldUnderMandate'
  <2>1. ASSUME NEW b \in Mandated, reservation'[b] = "HELD"
        PROVE  /\ mandate'.version = b[2] /\ mandate'.status = "ACTIVE"
               /\ binding'.mode = "AUTONOMOUS" /\ binding'.mandate = b[2] /\ binding'.version = bound'[b]
    <3>1. CASE b = B
      BY <1>3, <1>4, <1>5, <2>1, <3>1
    <3>2. CASE b # B
      <4>1. b \in Basis /\ reservation[b] = "HELD" /\ bound'[b] = bound[b]
        BY <1>4, <2>1, <3>2 DEF Mandated, Basis
      <4> QED BY <1>1, <2>1, <4>1 DEF HeldUnderMandate
    <3> QED BY <3>1, <3>2
  <2> QED BY <1>1, <1>8, <2>1 DEF HeldUnderMandate
<1>12. IsFiniteSet(Units') /\ HeldLoss' <= Budget
  <2>1. CASE state = "CONSUMED" \/ reservation[B] = "HELD"
    <3>1. \A b \in Basis : reservation'[b] = "HELD" => reservation[b] = "HELD"
      BY <1>4, <2>1
    <3>2. /\ IsFiniteSet(Units') /\ HeldLoss' <= HeldLoss
          /\ HeldLoss \in Nat /\ HeldLoss' \in Nat
      BY <1>1, <3>1, UnitsShrink
    <3> QED BY <1>1, <3>2, SubmissionAssumption
  <2>2. CASE state = "HELD" /\ reservation[B] = "NONE"
    <3>1. reservation'[B] = "HELD" /\ \A b \in Basis : b # B => reservation'[b] = reservation[b]
      BY <1>4, <2>2
    <3>2. IsFiniteSet(Units') /\ HeldLoss' = HeldLoss + Loss[B[1]]
      BY <1>1, <1>2, <2>2, <3>1, UnitsGrow
    <3>3. HeldLoss + Loss[B[1]] <= Budget
      BY <2>2 DEF Affordable
    <3> QED BY <3>2, <3>3
  <2> QED BY <2>1, <2>2
<1>13. RowsInv'
  BY <1>4, <1>7, <1>9, <1>10, <1>11, <1>12 DEF RowsInv
<1>14. Frozen(u)
  <2>1. \A b \in Basis : BasisRow(b) \notin holds[u] => reservation'[b] = reservation[b]
    BY <1>4
  <2>2. \A b \in Basis : ReceiptRow(b) \notin holds[u] /\ receipt[b] = "ISSUED" => receipt'[b] = "ISSUED"
    BY <1>4
  <2>3. ASSUME NEW f \in Exception \union Fixture, Approval(f) \notin holds[u] PROVE approval'[f] = approval[f]
    <3>1. CASE f = B[1] /\ B \in Excepted
      BY <1>1, <1>6, <2>3, <3>1
    <3>2. CASE f = B[1] /\ B \notin Excepted
      BY <1>2, <3>2, AgentParts
    <3>3. CASE f # B[1]
      BY <1>6, <3>3
    <3> QED BY <3>1, <3>2, <3>3
  <2> QED BY <1>8, <2>1, <2>2, <2>3 DEF Frozen
<1>15. Forward(u)
  <2>1. mandate.version <= mandate'.version
    BY <1>1, MandateFields
  <2>2. ASSUME NEW b \in Agents, order'[b] # order[b]
        PROVE  /\ binding.mode = "AUTONOMOUS" /\ binding.version = bound'[b]
               /\ b \in Mandated => mandate = [version |-> b[2], status |-> "ACTIVE"]
    <3>1. b = B
      BY <1>4, <2>2, AgentParts
    <3> QED BY <1>1, <1>3, <1>4, <1>5, <3>1, MandateFields
  <2>3. ASSUME NEW b \in Mandated, basis'[b] # "NONE", basis[b] = "NONE"
        PROVE  c.op \in {"authorize", "submit"} /\ b = B
    <3>1. b = B
      BY <1>4, <2>3 DEF Mandated, Basis
    <3>2. WholeChain(B)
      BY <1>1, <1>2 DEF WholeChains
    <3>3. reservation[B] = "NONE"
      BY <2>3, <3>1, <3>2 DEF WholeChain
    <3> QED BY <3>1, <3>3
  <2> QED BY <2>1, <2>2, <2>3 DEF Forward
<1> QED BY <1>13, <1>14, <1>15 DEF Effect

\* A manual run: its approval is consumed with its own order.
LEMMA RunEffect ==
    ASSUME RowsInv, NEW u, txn[u].op = "run", txn[u].basis \in Fixture \X {0},
           {Approval(txn[u].basis[1]), Authority, BasisRow(txn[u].basis), ReceiptRow(txn[u].basis)} \subseteq holds[u],
           Unused(txn[u].basis[1]), reservation[txn[u].basis] \in {"NONE", "HELD"},
           Writes(txn[u], "CONSUMED"),
           approval' = Set(approval, {txn[u].basis[1]}, "CONSUMED"),
           mandate' = mandate, binding' = binding
    PROVE  Effect(u)
<1> DEFINE B == txn[u].basis
           f == B[1]
<1>1. /\ RowsTyped /\ WholeChains /\ ApprovalsAgree /\ OneRun /\ HeldUnderMandate
      /\ IsFiniteSet(Units) /\ HeldLoss <= Budget
  BY DEF RowsInv
<1>2. f \in Fixture /\ B = <<f, 0>> /\ B \in Basis /\ B \notin Agents
  <2>1. f \in Fixture /\ B = <<f, 0>>
    OBVIOUS
  <2> HIDE DEF B, f
  <2> QED BY <2>1, FixtureBasis
<1>3. /\ basis' \in [Basis -> {"NONE", "ACTIVE", "STALE"}]
      /\ reservation' \in [Basis -> {"NONE", "HELD", "CONSUMED", "RELEASED"}]
      /\ receipt' \in [Basis -> {"NONE", "ISSUED", "CONSUMED", "STALE"}]
      /\ order' \in [Basis -> 0 .. 1]
      /\ bound' \in [Basis -> Nat]
      /\ basis'[B] = "ACTIVE" /\ reservation'[B] = "CONSUMED"
      /\ receipt'[B] = "CONSUMED" /\ order'[B] = 1
      /\ \A b \in Basis : b # B =>
            /\ basis'[b] = basis[b] /\ reservation'[b] = reservation[b]
            /\ receipt'[b] = receipt[b] /\ order'[b] = order[b]
      /\ WholeChains'
  BY <1>1, <1>2, WritesEffect
<1>4. bound' = bound
  BY DEF Writes
<1>5. /\ approval' \in [Exception \union Fixture ->
                           {"NONE", "REQUESTED", "GRANTED", "REJECTED", "EXPIRED", "CONSUMED"}]
      /\ approval'[f] = "CONSUMED" /\ \A g \in Exception \union Fixture : g # f => approval'[g] = approval[g]
  BY <1>1, <1>2, ApprovalSet
<1>6. RowsTyped'
  BY <1>1, <1>3, <1>5 DEF RowsTyped
<1>7. \A g \in Fixture : order'[<<g, 0>>] = IF g = f THEN 1 ELSE 0
  <2> SUFFICES ASSUME NEW g \in Fixture PROVE order'[<<g, 0>>] = IF g = f THEN 1 ELSE 0
    OBVIOUS
  <2>1. CASE g = f
    BY <1>2, <1>3, <2>1
  <2>2. CASE g # f
    <3>1. <<g, 0>> # B /\ <<g, 0>> \in Basis
      BY <1>2, <2>2, FixtureBasis
    <3>2. order[<<g, 0>>] = 0
      BY DEF Unused
    <3> QED BY <1>3, <2>2, <3>1, <3>2
  <2> QED BY <2>1, <2>2
<1>8. ApprovalsAgree'
  <2>1. ASSUME NEW g \in Fixture PROVE approval'[g] = "CONSUMED" <=> order'[<<g, 0>>] = 1
    <3>1. order[<<g, 0>>] = 0
      BY DEF Unused
    <3> QED BY <1>1, <1>5, <1>7, <3>1 DEF ApprovalsAgree
  <2>2. ASSUME NEW e \in Exception PROVE approval'[e] = "CONSUMED" <=> basis'[<<e, 0>>] # "NONE"
    <3>1. <<e, 0>> \in Agents /\ <<e, 0>> \in Basis /\ e # f
      BY <1>2, SubmissionAssumption DEF Agents, Excepted, Basis
    <3>2. <<e, 0>> # B
      BY <1>2, <3>1
    <3>3. basis'[<<e, 0>>] = basis[<<e, 0>>] /\ approval'[e] = approval[e]
      BY <1>3, <1>5, <3>1, <3>2
    <3> QED BY <1>1, <3>3 DEF ApprovalsAgree
  <2> QED BY <2>1, <2>2 DEF ApprovalsAgree
<1>9. OneRun'
  BY <1>7 DEF OneRun
<1>10. \A b \in Basis : reservation'[b] = "HELD" => reservation[b] = "HELD"
  BY <1>3
<1>11. IsFiniteSet(Units') /\ HeldLoss' <= Budget
  <2>1. /\ IsFiniteSet(Units') /\ HeldLoss' <= HeldLoss
        /\ HeldLoss \in Nat /\ HeldLoss' \in Nat
    BY <1>1, <1>10, UnitsShrink
  <2> QED BY <1>1, <2>1, SubmissionAssumption
<1>12. HeldUnderMandate'
  BY <1>1, <1>4, <1>10 DEF HeldUnderMandate, Mandated, Basis
<1>13. RowsInv'
  BY <1>3, <1>6, <1>8, <1>9, <1>11, <1>12 DEF RowsInv
<1>14. Frozen(u)
  <2>1. \A b \in Basis : BasisRow(b) \notin holds[u] => reservation'[b] = reservation[b]
    BY <1>3
  <2>2. \A b \in Basis : ReceiptRow(b) \notin holds[u] /\ receipt[b] = "ISSUED" => receipt'[b] = "ISSUED"
    BY <1>3
  <2>3. \A g \in Exception \union Fixture : Approval(g) \notin holds[u] => approval'[g] = approval[g]
    BY <1>5
  <2> QED BY <2>1, <2>2, <2>3 DEF Frozen
<1>15. Forward(u)
  <2>1. mandate.version <= mandate'.version
    BY <1>1, MandateFields
  <2>2. \A b \in Agents : order'[b] = order[b] /\ basis'[b] = basis[b]
    BY <1>2, <1>3, AgentParts
  <2> QED BY <2>1, <2>2 DEF Forward, Agents
<1> QED BY <1>13, <1>14, <1>15 DEF Effect

\* The mandate or the mode is stopped: what was held under it goes with it.
LEMMA StopEffect ==
    ASSUME RowsInv, RowsTyped', NEW u, NEW c, Stops(c),
           BasisRows(c) \union StaleRows(c) \union FreedRows(c) \subseteq holds[u],
           Sweeps(c), approval' = approval,
           mandate.version <= mandate'.version,
           mandate' = mandate \/ Mandate \in holds[u],
           binding' = binding \/ Binding \in holds[u]
    PROVE  Effect(u)
<1>1. /\ RowsTyped /\ WholeChains /\ ApprovalsAgree /\ OneRun /\ HeldUnderMandate
      /\ IsFiniteSet(Units) /\ HeldLoss <= Budget
  BY DEF RowsInv
<1>2. /\ order' = order /\ bound' = bound
      /\ \A b \in Basis :
            /\ reservation'[b] = IF b \in FreedReservations(c) THEN "RELEASED" ELSE reservation[b]
            /\ receipt'[b] = IF b \in StaleReceipts(c) THEN "STALE" ELSE receipt[b]
            /\ basis'[b] = "NONE" <=> basis[b] = "NONE"
      /\ \A b \in Mandated : reservation'[b] # "HELD"
      /\ WholeChains'
  BY <1>1, SweepsEffect
<1>3. ApprovalsAgree' /\ OneRun'
  <2>1. \A e \in Exception : <<e, 0>> \in Basis
    BY DEF Excepted, Basis
  <2> QED BY <1>1, <1>2, <2>1 DEF ApprovalsAgree, OneRun
<1>4. HeldUnderMandate'
  BY <1>1, <1>2 DEF HeldUnderMandate
<1>5. \A b \in Basis : reservation'[b] = "HELD" => reservation[b] = "HELD"
  BY <1>2
<1>6. IsFiniteSet(Units') /\ HeldLoss' <= Budget /\ HeldLoss' <= HeldLoss
  <2>1. /\ IsFiniteSet(Units') /\ HeldLoss' <= HeldLoss
        /\ HeldLoss \in Nat /\ HeldLoss' \in Nat
    BY <1>1, <1>5, UnitsShrink
  <2> QED BY <1>1, <2>1, SubmissionAssumption
<1>7. RowsInv'
  BY <1>2, <1>3, <1>4, <1>6 DEF RowsInv
<1>8. Frozen(u)
  <2>1. ASSUME NEW b \in Basis, BasisRow(b) \notin holds[u] PROVE reservation'[b] = reservation[b]
    <3> SUFFICES ASSUME b \in FreedReservations(c) PROVE FALSE
      BY <1>2
    <3>1. b \in Of(c.mandate) /\ reservation[b] = "HELD" /\ b \in Mandated
      BY DEF FreedReservations, Of
    <3>2. WholeChain(b) /\ b \notin Excepted
      BY <1>1, <3>1, BasisParts DEF WholeChains
    <3>3. basis[b] = "ACTIVE"
      BY <3>1, <3>2 DEF WholeChain
    <3>4. BasisRow(b) \in BasisRows(c)
      BY <3>1, <3>3 DEF BasisRows, StaleBases
    <3> QED BY <2>1, <3>4
  <2>2. ASSUME NEW b \in Basis, ReceiptRow(b) \notin holds[u], receipt[b] = "ISSUED"
        PROVE  receipt'[b] = "ISSUED"
    <3> SUFFICES ASSUME b \in StaleReceipts(c) PROVE FALSE
      BY <1>2, <2>2
    <3>1. ReceiptRow(b) \in StaleRows(c)
      BY DEF StaleRows
    <3> QED BY <2>2, <3>1
  <2> QED BY <1>2, <1>6, <2>1, <2>2 DEF Frozen
<1>9. Forward(u)
  <2>1. \A b \in Mandated : basis'[b] # "NONE" => basis[b] # "NONE"
    BY <1>2 DEF Mandated, Basis
  <2> QED BY <1>2, <2>1 DEF Forward
<1> QED BY <1>7, <1>8, <1>9 DEF Effect

\* The chains stay as they are: an approval is decided, or the mandate resumed.
LEMMA QuietEffect ==
    ASSUME RowsInv, NEW u, UNCHANGED chain, RowsTyped', ApprovalsAgree', HeldUnderMandate',
           mandate.version <= mandate'.version, binding.version <= binding'.version,
           mandate' = mandate \/ Mandate \in holds[u],
           binding' = binding \/ Binding \in holds[u],
           \A f \in Exception \union Fixture : Approval(f) \notin holds[u] => approval'[f] = approval[f]
    PROVE  Effect(u)
<1>1. /\ RowsTyped /\ WholeChains /\ OneRun /\ IsFiniteSet(Units) /\ HeldLoss <= Budget
  BY DEF RowsInv
<1>2. /\ basis' = basis /\ reservation' = reservation /\ receipt' = receipt
      /\ order' = order /\ bound' = bound
  BY DEF chain
<1>3. WholeChains' /\ OneRun'
  <2>1. ASSUME NEW b \in Basis PROVE WholeChain(b)'
    <3>1. WholeChain(b)
      BY <1>1 DEF WholeChains
    <3>2. bound[b] < binding.version => bound[b] < binding'.version
      <4>1. bound[b] \in Nat /\ binding.version \in Nat /\ binding'.version \in Nat
        BY <1>1 DEF RowsTyped
      <4> QED BY <4>1
    <3> QED BY <1>2, <3>1, <3>2 DEF WholeChain
  <2> QED BY <1>1, <1>2, <2>1 DEF WholeChains, OneRun
<1>4. /\ IsFiniteSet(Units') /\ HeldLoss' <= HeldLoss
      /\ HeldLoss \in Nat /\ HeldLoss' \in Nat
  BY <1>1, <1>2, UnitsShrink
<1>5. HeldLoss' <= Budget
  BY <1>1, <1>4, SubmissionAssumption
<1>6. RowsInv'
  BY <1>3, <1>4, <1>5 DEF RowsInv
<1>7. Frozen(u)
  BY <1>2, <1>4 DEF Frozen
<1>8. Forward(u)
  BY <1>2 DEF Forward
<1> QED BY <1>6, <1>7, <1>8 DEF Effect

(***************************************************************************)
(* The lock protocol: no row is held twice, and what a transaction has     *)
(* checked of a row it holds is still so, because whoever would change it  *)
(* has to hold the row as well.                                            *)
(***************************************************************************)
Stands(t) ==
    LET c == txn[t] IN
    /\ c.op = "idle" => holds[t] = {}
    /\ Mandate \in holds[t] => MandateIs(c, IF c.op = "resume" THEN "SUSPENDED" ELSE "ACTIVE")
    /\ Binding \in holds[t] => BindingIs(c)
    /\ c.op \in Asking /\ Approval(c.basis[1]) \in holds[t] => approval[c.basis[1]] \in Wanted(c)
    /\ c.op = "run" /\ Authority \in holds[t] => Unused(c.basis[1])
    /\ c.op \in Chaining /\ BasisRow(c.basis) \in holds[t] => Authority \in holds[t] /\ Affordable(c.basis)
    /\ c.op = "consume" /\ ReceiptRow(c.basis) \in holds[t] => receipt[c.basis] = "ISSUED"

\* The mandates that came before b's have no order of its plan, nor will have.
Sole(b) ==
    /\ b[2] <= mandate.version
    /\ \A a \in Mandated : a[1] = b[1] /\ a[2] < b[2] => order[a] = 0

Begun ==
    /\ \A b \in Mandated : basis[b] # "NONE" => Sole(b)
    /\ \A t \in Txn : txn[t].op \in {"authorize", "submit"} /\ txn[t].basis \in Mandated => Sole(txn[t].basis)

Exclusive == \A t, u \in Txn : t # u => holds[t] \intersect holds[u] = {}

SubmissionInv ==
    /\ RowsInv
    /\ txn = [t \in Txn |-> txn[t]] /\ holds = [t \in Txn |-> holds[t]]
    /\ \A t \in Txn : CallOK(txn[t]) /\ Stands(t)
    /\ Begun
    /\ Exclusive

LEMMA CommitEffect ==
    ASSUME SubmissionInv, NEW u \in Txn, Commit(u)
    PROVE  Effect(u)
<1> DEFINE c == txn[u]
           B == c.basis
<1>1. /\ RowsInv /\ CallOK(c) /\ Stands(u)
      /\ RowsTyped /\ WholeChains /\ ApprovalsAgree /\ HeldUnderMandate
  BY DEF SubmissionInv, RowsInv
<1>2. NextRows(u) = {} /\ Committed(c)
  BY DEF Commit
<1>3. c.op \in Ops
  BY <1>2 DEF Committed, Ops
<1>4. /\ mandate.version \in Nat /\ binding.version \in Nat /\ MaxMandate \in Nat
      /\ mandate.version \in 1 .. MaxMandate /\ binding.mandate \in 1 .. MaxMandate
  BY <1>1, MandateFields
<1>5. CASE c.op \in {"authorize", "submit", "consume"}
  <2>1. B \in Agents /\ c.mandate = B[2]
    BY <1>1, <1>5 DEF CallOK
  <2>2. /\ {Binding, Authority, BasisRow(B)} \subseteq holds[u]
        /\ c.op \in {"authorize", "submit"} => Source(c) \in holds[u]
        /\ c.op = "consume" /\ Source(c) = Mandate => Mandate \in holds[u]
        /\ c.op \in {"submit", "consume"} => ReceiptRow(B) \in holds[u]
    BY <1>2, <1>3, <1>5, RowsHeld
  <2>3. B \in Mandated => MandateIs(c, "ACTIVE")
    <3> SUFFICES ASSUME B \in Mandated PROVE MandateIs(c, "ACTIVE")
      OBVIOUS
    <3>1. Source(c) = Mandate
      BY DEF Source
    <3>2. Mandate \in holds[u]
      BY <1>5, <2>2, <3>1
    <3> QED BY <1>1, <1>5, <3>2 DEF Stands
  <2>4. B \in Excepted /\ c.op # "consume" => Approval(B[1]) \in holds[u]
    <3> SUFFICES ASSUME B \in Excepted, c.op # "consume" PROVE Approval(B[1]) \in holds[u]
      OBVIOUS
    <3>1. B \notin Mandated
      BY <2>1, AgentParts, BasisParts
    <3>2. Source(c) = Approval(B[1])
      BY <3>1 DEF Source
    <3> QED BY <1>5, <2>2, <3>2
  <2>5. BindingIs(c) /\ binding.mode = "AUTONOMOUS"
    BY <1>1, <1>5, <2>2 DEF Stands, BindingIs, Modes
  <2>6. c.op # "consume" => Affordable(B)
    BY <1>1, <1>5, <2>2 DEF Stands, Chaining
  <2>7. reservation[B] \in {"NONE", "HELD"} /\ (c.op = "consume" => reservation[B] = "HELD")
    <3>1. CASE c.op = "consume"
      <4>1. receipt[B] = "ISSUED"
        BY <1>1, <2>2, <3>1 DEF Stands
      <4>2. WholeChain(B)
        BY <1>1, <2>1, AgentParts DEF WholeChains
      <4> QED BY <4>1, <4>2 DEF WholeChain
    <3>2. CASE c.op # "consume"
      BY <2>6, <3>2 DEF Affordable
    <3> QED BY <3>1, <3>2
  <2>8. CASE c.op = "authorize"
    <3>1. Writes(c, "HELD") /\ Approves(c)
      BY <1>2, <2>8 DEF Committed
    <3>2. approval' = Set(approval, {B[1]}, "CONSUMED") /\ mandate' = mandate /\ binding' = binding
      BY <3>1 DEF Approves
    <3> QED BY <1>1, <2>1, <2>2, <2>3, <2>4, <2>5, <2>6, <2>7, <2>8, <3>1, <3>2, AgentEffect
  <2>9. CASE c.op = "submit"
    <3>1. Writes(c, "CONSUMED") /\ Approves(c)
      BY <1>2, <2>9 DEF Committed
    <3>2. approval' = Set(approval, {B[1]}, "CONSUMED") /\ mandate' = mandate /\ binding' = binding
      BY <3>1 DEF Approves
    <3> QED BY <1>1, <2>1, <2>2, <2>3, <2>4, <2>5, <2>7, <2>9, <3>1, <3>2, AgentEffect
  <2>10. CASE c.op = "consume"
    <3>1. Writes(c, "CONSUMED") /\ mandate' = mandate /\ binding' = binding /\ approval' = approval
      BY <1>2, <2>10 DEF Committed, sources
    <3> QED BY <1>1, <2>1, <2>2, <2>3, <2>5, <2>7, <2>10, <3>1, AgentEffect
  <2> QED BY <1>5, <2>8, <2>9, <2>10
<1>6. CASE c.op = "run"
  <2>1. B \in Fixture \X {0}
    BY <1>1, <1>6 DEF CallOK
  <2>2. {Approval(B[1]), Authority, BasisRow(B), ReceiptRow(B)} \subseteq holds[u]
    BY <1>2, <1>3, <1>6, RowsHeld
  <2>3. Unused(B[1]) /\ reservation[B] \in {"NONE", "HELD"}
    BY <1>1, <1>6, <2>2 DEF Stands, Chaining, Affordable
  <2>4. /\ Writes(c, "CONSUMED")
        /\ approval' = Set(approval, {B[1]}, "CONSUMED")
        /\ mandate' = mandate /\ binding' = binding
    BY <1>2, <1>6 DEF Committed, Approves
  <2> QED BY <1>1, <1>6, <2>1, <2>2, <2>3, <2>4, RunEffect
<1>7. CASE c.op \in {"request", "decide"}
  <2> DEFINE f == B[1]
             verdict == IF c.op = "request" THEN "REQUESTED" ELSE c.decision
  <2>1. f \in Exception \union Fixture /\ verdict \in {"REQUESTED", "GRANTED", "REJECTED", "EXPIRED"}
    BY <1>1, <1>7 DEF CallOK, Excepted
  <2>2. Approval(f) \in holds[u]
    BY <1>2, <1>3, <1>7, RowsHeld
  <2>3. /\ approval[f] # "CONSUMED"
        /\ approval' = [approval EXCEPT ![f] = verdict]
        /\ UNCHANGED <<chain, mandate, binding>>
    <3>1. approval[f] \in Wanted(c)
      BY <1>1, <1>7, <2>2 DEF Stands, Asking
    <3>2. approval[f] # "CONSUMED"
      BY <1>7, <3>1 DEF Wanted
    <3> QED BY <1>2, <1>7, <3>2 DEF Committed
  <2> HIDE DEF f, verdict
  <2>4. approval \in [Exception \union Fixture ->
                         {"NONE", "REQUESTED", "GRANTED", "REJECTED", "EXPIRED", "CONSUMED"}]
    BY <1>1 DEF RowsTyped
  <2>5. /\ approval' \in [Exception \union Fixture ->
                             {"NONE", "REQUESTED", "GRANTED", "REJECTED", "EXPIRED", "CONSUMED"}]
        /\ approval'[f] # "CONSUMED"
        /\ \A g \in Exception \union Fixture : g # f => approval'[g] = approval[g]
    BY <2>1, <2>3, <2>4
  <2>6. /\ basis' = basis /\ reservation' = reservation /\ receipt' = receipt
        /\ order' = order /\ bound' = bound
        /\ mandate' = mandate /\ binding' = binding
    BY <2>3 DEF chain
  <2>7. RowsTyped' /\ HeldUnderMandate'
    BY <1>1, <2>5, <2>6 DEF RowsTyped, HeldUnderMandate
  <2>8. ApprovalsAgree'
    <3>1. \A g \in Exception \union Fixture : approval'[g] = "CONSUMED" <=> approval[g] = "CONSUMED"
      BY <2>3, <2>5
    <3> QED BY <1>1, <2>6, <3>1 DEF ApprovalsAgree
  <2>9. mandate.version <= mandate'.version /\ binding.version <= binding'.version
    BY <1>4, <2>6
  <2> QED BY <1>1, <2>2, <2>3, <2>5, <2>6, <2>7, <2>8, <2>9, QuietEffect
<1>8. CASE c.op \in {"pause", "halt"}
  <2>1. c.mandate \in Nat /\ c.mandate < MaxMandate
    BY <1>1, <1>8 DEF CallOK
  <2>2. /\ Mandate \in holds[u] /\ (c.op = "pause" => Binding \in holds[u])
        /\ BasisRows(c) \union StaleRows(c) \union FreedRows(c) \subseteq holds[u]
    BY <1>2, <1>3, <1>8, RowsHeld
  <2>3. MandateIs(c, "ACTIVE")
    BY <1>1, <1>8, <2>2 DEF Stands
  <2>4. mandate.version = c.mandate
    BY <2>3, MandateStands
  <2>5. /\ Sweeps(c) /\ approval' = approval
        /\ \/ mandate' = [version |-> c.mandate + 1, status |-> "SUSPENDED"]
           \/ mandate' = [version |-> c.mandate + 1, status |-> "HALTED"]
        /\ \/ binding' = binding
           \/ /\ c.op = "pause"
              /\ binding' = [version |-> binding.version + 1, mode |-> "PAUSED", mandate |-> c.mandate + 1]
    BY <1>2, <1>8 DEF Committed, Moves
  <2>6. c.mandate + 1 \in 1 .. MaxMandate /\ binding.version + 1 \in Nat \ {0}
    BY <1>4, <2>1
  <2>7. /\ mandate' \in [version : 1 .. MaxMandate, status : {"ACTIVE", "SUSPENDED", "HALTED"}]
        /\ mandate'.version = c.mandate + 1
    BY <2>5, <2>6
  <2>8. /\ binding' \in [version : Nat \ {0}, mode : {"AUTONOMOUS", "PAUSED", "RETIRED"}, mandate : 1 .. MaxMandate]
        /\ binding.version <= binding'.version
    <3>1. CASE binding' = binding
      BY <1>1, <1>4, <3>1 DEF RowsTyped
    <3>2. CASE binding' = [version |-> binding.version + 1, mode |-> "PAUSED", mandate |-> c.mandate + 1]
      BY <1>4, <2>6, <3>2
    <3> QED BY <2>5, <3>1, <3>2
  <2>9. mandate.version <= mandate'.version
    BY <2>1, <2>4, <2>7
  <2>10. Stops(c)
    BY <1>8, <2>4, <2>8 DEF Stops
  <2>11. RowsTyped'
    BY <1>1, <2>5, <2>7, <2>8, SweptTyped
  <2> QED BY <1>1, <2>2, <2>5, <2>9, <2>10, <2>11, StopEffect
<1>9. CASE c.op \in {"mode", "retire"}
  <2>1. /\ Binding \in holds[u]
        /\ BasisRows(c) \union StaleRows(c) \union FreedRows(c) \subseteq holds[u]
    BY <1>2, <1>3, <1>9, RowsHeld
  <2>2. BindingIs(c) /\ c.mandate \in 1 .. MaxMandate
    BY <1>1, <1>9, <2>1 DEF Stands, CallOK
  <2>3. binding.mandate = c.mandate /\ binding.version = c.binding
    <3>1. c.mandate # 0
      BY <1>4, <2>2
    <3> QED BY <2>2, <3>1 DEF BindingIs
  <2>4. /\ Sweeps(c) /\ mandate' = mandate /\ approval' = approval
        /\ \/ binding' = [binding EXCEPT !.version = binding.version + 1, !.mode = "PAUSED"]
           \/ binding' = [binding EXCEPT !.version = binding.version + 1, !.mode = "RETIRED"]
    BY <1>2, <1>9 DEF Committed
  <2>5. /\ binding' \in [version : Nat \ {0}, mode : {"AUTONOMOUS", "PAUSED", "RETIRED"}, mandate : 1 .. MaxMandate]
        /\ binding.version < binding'.version
    <3>1. binding \in [version : Nat \ {0}, mode : {"AUTONOMOUS", "PAUSED", "RETIRED"}, mandate : 1 .. MaxMandate]
      BY <1>1 DEF RowsTyped
    <3>2. binding.version + 1 \in Nat \ {0} /\ binding.version < binding.version + 1
      BY <1>4
    <3> QED BY <2>4, <3>1, <3>2
  <2>6. RowsTyped'
    BY <1>1, <2>4, <2>5, SweptTyped DEF RowsTyped
  <2>7. mandate.version <= mandate'.version
    BY <1>4, <2>4
  <2>8. Stops(c)
    BY <1>9, <2>3, <2>5 DEF Stops
  <2> QED BY <1>1, <2>1, <2>4, <2>6, <2>7, <2>8, StopEffect
<1>10. CASE c.op = "resume"
  <2>1. c.mandate \in Nat /\ c.mandate < MaxMandate
    BY <1>1, <1>10 DEF CallOK
  <2>2. Mandate \in holds[u] /\ Binding \in holds[u]
    BY <1>2, <1>3, <1>10, RowsHeld
  <2>3. MandateIs(c, "SUSPENDED")
    BY <1>1, <1>10, <2>2 DEF Stands
  <2>4. mandate.version = c.mandate /\ mandate.status = "SUSPENDED"
    BY <2>3, MandateStands
  <2>5. /\ mandate' = [version |-> c.mandate + 1, status |-> "ACTIVE"]
        /\ binding' = [version |-> binding.version + 1, mode |-> "AUTONOMOUS", mandate |-> c.mandate + 1]
        /\ UNCHANGED <<chain, approval>>
    BY <1>2, <1>10 DEF Committed, Moves
  <2>6. c.mandate + 1 \in 1 .. MaxMandate /\ binding.version + 1 \in Nat \ {0}
    BY <1>4, <2>1
  <2>7. /\ mandate' \in [version : 1 .. MaxMandate, status : {"ACTIVE", "SUSPENDED", "HALTED"}]
        /\ binding' \in [version : Nat \ {0}, mode : {"AUTONOMOUS", "PAUSED", "RETIRED"}, mandate : 1 .. MaxMandate]
        /\ mandate'.version = c.mandate + 1 /\ binding'.version = binding.version + 1
    BY <2>5, <2>6
  <2>8. /\ basis' = basis /\ reservation' = reservation /\ receipt' = receipt
        /\ order' = order /\ bound' = bound /\ approval' = approval
    BY <2>5 DEF chain
  <2>9. RowsTyped' /\ ApprovalsAgree'
    BY <1>1, <2>7, <2>8 DEF RowsTyped, ApprovalsAgree
  <2>10. HeldUnderMandate'
    BY <1>1, <2>4, <2>8 DEF HeldUnderMandate
  <2>11. mandate.version <= mandate'.version /\ binding.version <= binding'.version
    BY <1>4, <2>1, <2>4, <2>7
  <2> QED BY <1>1, <2>2, <2>5, <2>8, <2>9, <2>10, <2>11, QuietEffect
<1> QED BY <1>3, <1>5, <1>6, <1>7, <1>8, <1>9, <1>10 DEF Ops

\* Another transaction's rows are as it found them.
LEMMA StandsFrozen ==
    ASSUME SubmissionInv, NEW u \in Txn, NEW t \in Txn, t # u, Effect(u),
           txn'[t] = txn[t], holds'[t] = holds[t]
    PROVE  Stands(t)'
<1> DEFINE c == txn[t]
           B == c.basis
<1>1. /\ Stands(t) /\ CallOK(c) /\ RowsInv /\ RowsInv' /\ Frozen(u)
      /\ holds[t] \intersect holds[u] = {}
  BY DEF SubmissionInv, Exclusive, Effect
<1>2. c.op \in Chaining \union {"consume"} => B \in Basis
  BY <1>1, AgentParts DEF CallOK, Chaining, Basis
<1>3. Mandate \in holds[t] => mandate' = mandate
  BY <1>1 DEF Frozen
<1>4. Binding \in holds[t] => binding' = binding
  BY <1>1 DEF Frozen
<1>5. Mandate \in holds[t] => MandateIs(c, IF c.op = "resume" THEN "SUSPENDED" ELSE "ACTIVE")'
  BY <1>1, <1>3 DEF Stands, MandateIs
<1>6. Binding \in holds[t] => BindingIs(c)'
  BY <1>1, <1>4 DEF Stands, BindingIs
<1>7. ASSUME c.op \in Asking, Approval(B[1]) \in holds[t] PROVE approval'[B[1]] \in Wanted(c)
  <2>1. B[1] \in Exception \union Fixture
    BY <1>1, <1>7 DEF CallOK, Asking, Excepted
  <2>2. Approval(B[1]) \notin holds[u]
    BY <1>1, <1>7
  <2>3. approval'[B[1]] = approval[B[1]]
    BY <1>1, <2>1, <2>2 DEF Frozen
  <2> QED BY <1>1, <1>7, <2>3 DEF Stands
<1>8. ASSUME c.op = "run", Authority \in holds[t] PROVE Unused(B[1])'
  <2>1. Authority \notin holds[u]
    BY <1>1, <1>8
  <2>2. \A f \in Fixture : order'[<<f, 0>>] = order[<<f, 0>>]
    BY <1>1, <2>1 DEF Frozen
  <2> QED BY <1>1, <1>8, <2>2 DEF Stands, Unused
<1>9. ASSUME c.op \in Chaining, BasisRow(B) \in holds[t]
      PROVE  Authority \in holds[t] /\ Affordable(B)'
  <2>1. Authority \in holds[t] /\ Affordable(B)
    BY <1>1, <1>9 DEF Stands
  <2>2. HeldLoss' <= HeldLoss /\ reservation'[B] = reservation[B]
    BY <1>1, <1>2, <1>9, <2>1 DEF Frozen
  <2>3. HeldLoss \in Nat /\ HeldLoss' \in Nat
    <3>1. IsFiniteSet(Units) /\ IsFiniteSet(Units')
      BY <1>1 DEF RowsInv
    <3>2. Cardinality(Units) \in Nat /\ Cardinality(Units') \in Nat
      BY <3>1, FS_CardinalityType
    <3> QED BY <3>2 DEF HeldLoss, Units
  <2>4. Loss[B[1]] \in Nat /\ Budget \in Nat
    BY <1>2, <1>9, BasisParts
  <2>5. HeldLoss + Loss[B[1]] <= Budget => HeldLoss' + Loss[B[1]] <= Budget
    BY <2>2, <2>3, <2>4
  <2> QED BY <2>1, <2>2, <2>5 DEF Affordable
<1>10. ASSUME c.op = "consume", ReceiptRow(B) \in holds[t] PROVE receipt'[B] = "ISSUED"
  <2>1. B \in Basis
    BY <1>2, <1>10
  <2> QED BY <1>1, <1>10, <2>1 DEF Stands, Frozen
<1>11. c.op = "idle" => holds'[t] = {}
  BY <1>1 DEF Stands
<1> HIDE DEF B
<1>12. Wanted(c)' = Wanted(c)
  BY DEF Wanted
<1> QED BY <1>5, <1>6, <1>7, <1>8, <1>9, <1>10, <1>11, <1>12 DEF Stands, B

LEMMA SoleStays ==
    ASSUME RowsTyped, RowsTyped', NEW u, Forward(u), NEW b \in Mandated, Sole(b)
    PROVE  Sole(b)'
<1>1. mandate.version <= mandate'.version /\ mandate.version \in Nat /\ mandate'.version \in Nat
  BY SubmissionAssumption DEF Forward, RowsTyped
<1>2. b[2] \in Nat
  BY SubmissionAssumption DEF Mandated
<1>3. ASSUME NEW a \in Mandated, a[1] = b[1], a[2] < b[2] PROVE order'[a] = 0
  <2>1. order[a] = 0
    BY <1>3 DEF Sole
  <2> SUFFICES ASSUME order'[a] # order[a] PROVE FALSE
    BY <2>1
  <2>2. mandate = [version |-> a[2], status |-> "ACTIVE"]
    BY DEF Forward, Agents
  <2>3. mandate.version = a[2]
    BY <2>2
  <2>4. a[2] \in Nat
    BY SubmissionAssumption DEF Mandated
  <2> QED BY <1>1, <1>2, <1>3, <2>3, <2>4 DEF Sole
<1> QED BY <1>1, <1>2, <1>3 DEF Sole

LEMMA IdleOK == CallOK(Idle) /\ Idle.op = "idle" /\ "idle" \notin Ops
BY DEF CallOK, Idle, Ops

\* A transaction ends: what it has written, if anything, is there.
LEMMA EndsGood ==
    ASSUME SubmissionInv, NEW u \in Txn, Ends(u), Effect(u)
    PROVE  SubmissionInv'
<1>1. /\ txn = [t \in Txn |-> txn[t]] /\ holds = [t \in Txn |-> holds[t]]
      /\ \A t \in Txn : CallOK(txn[t]) /\ Stands(t)
      /\ Begun /\ Exclusive /\ RowsInv /\ RowsInv' /\ Forward(u)
  BY DEF SubmissionInv, Effect
<1>2. /\ txn' = [txn EXCEPT ![u] = Idle] /\ holds' = [holds EXCEPT ![u] = {}]
  BY DEF Ends
<1>3. /\ txn' = [t \in Txn |-> txn'[t]] /\ holds' = [t \in Txn |-> holds'[t]]
      /\ txn'[u] = Idle /\ holds'[u] = {}
      /\ \A t \in Txn : t # u => txn'[t] = txn[t] /\ holds'[t] = holds[t]
  BY <1>1, <1>2
<1>4. ASSUME NEW t \in Txn PROVE CallOK(txn[t])' /\ Stands(t)'
  <2>1. CASE t = u
    <3>1. txn'[t] = Idle /\ holds'[t] = {}
      BY <1>3, <2>1
    <3> QED BY <3>1, IdleOK DEF Stands, CallOK, Chaining, Asking
  <2>2. CASE t # u
    <3>1. txn'[t] = txn[t] /\ holds'[t] = holds[t]
      BY <1>3, <2>2
    <3> QED BY <1>1, <2>2, <3>1, StandsFrozen DEF CallOK
  <2> QED BY <2>1, <2>2
<1>5. Begun'
  <2>1. RowsTyped /\ RowsTyped'
    BY <1>1 DEF RowsInv
  <2>2. ASSUME NEW b \in Mandated, basis'[b] # "NONE" PROVE Sole(b)'
    <3>1. Sole(b)
      BY <1>1, <2>2 DEF Forward, Begun
    <3> QED BY <1>1, <2>1, <3>1, SoleStays
  <2>3. ASSUME NEW t \in Txn, txn'[t].op \in {"authorize", "submit"}, txn'[t].basis \in Mandated
        PROVE  Sole(txn[t].basis)' /\ txn'[t] = txn[t]
    <3>1. t # u
      BY <1>3, <2>3, IdleOK
    <3>2. txn'[t] = txn[t]
      BY <1>3, <3>1
    <3>3. txn[t].basis \in Mandated /\ Sole(txn[t].basis)
      BY <1>1, <2>3, <3>2 DEF Begun
    <3>4. PICK b \in Mandated : b = txn[t].basis
      BY <3>3
    <3>5. Sole(b)'
      BY <1>1, <2>1, <3>3, <3>4, SoleStays
    <3>6. b = txn'[t].basis
      BY <3>2, <3>4
    <3> QED BY <3>2, <3>5, <3>6 DEF Sole
  <2> QED BY <2>2, <2>3 DEF Begun, Sole
<1>6. Exclusive'
  BY <1>1, <1>3 DEF Exclusive
<1> QED BY <1>1, <1>3, <1>4, <1>5, <1>6 DEF SubmissionInv

\* A transaction begins: nothing is held or checked yet.
LEMMA OpensGood ==
    ASSUME SubmissionInv, NEW t \in Txn, NEW c, CallOK(c), Opens(t, c),
           c.op \in {"authorize", "submit"} /\ c.basis \in Mandated => Sole(c.basis)
    PROVE  SubmissionInv'
<1>1. /\ txn = [u \in Txn |-> txn[u]] /\ holds = [u \in Txn |-> holds[u]]
      /\ \A u \in Txn : CallOK(txn[u]) /\ Stands(u)
      /\ Begun /\ Exclusive /\ RowsInv
  BY DEF SubmissionInv
<1>2. /\ txn[t] = Idle /\ txn' = [txn EXCEPT ![t] = c] /\ holds' = holds
      /\ basis' = basis /\ reservation' = reservation /\ receipt' = receipt /\ order' = order /\ bound' = bound
      /\ mandate' = mandate /\ binding' = binding /\ approval' = approval
  BY DEF Opens, chain, sources
<1>3. /\ txn' = [u \in Txn |-> txn'[u]] /\ txn'[t] = c
      /\ \A u \in Txn : u # t => txn'[u] = txn[u]
  BY <1>1, <1>2
<1>4. holds[t] = {}
  BY <1>1, <1>2, IdleOK DEF Stands
<1>5. RowsInv'
  <2>1. HeldLoss' = HeldLoss /\ Units' = Units
    BY <1>2 DEF HeldLoss, Units
  <2> QED BY <1>1, <1>2, <2>1
       DEF RowsInv, RowsTyped, WholeChains, WholeChain, ApprovalsAgree, OneRun, HeldUnderMandate
<1>6. ASSUME NEW u \in Txn PROVE CallOK(txn[u])' /\ Stands(u)'
  <2>1. CASE u = t
    BY <1>2, <1>3, <1>4, <2>1 DEF CallOK, Stands
  <2>2. CASE u # t
    <3>1. txn'[u] = txn[u] /\ holds'[u] = holds[u] /\ CallOK(txn[u]) /\ Stands(u)
      BY <1>1, <1>2, <1>3, <2>2
    <3>2. HeldLoss' = HeldLoss
      BY <1>2 DEF HeldLoss
    <3> QED BY <1>2, <3>1, <3>2 DEF CallOK, Stands, MandateIs, BindingIs, Affordable, Unused
  <2> QED BY <2>1, <2>2
<1>7. Begun'
  <2>1. ASSUME NEW b \in Mandated, basis'[b] # "NONE" PROVE Sole(b)'
    BY <1>1, <1>2, <2>1 DEF Begun, Sole
  <2>2. ASSUME NEW u \in Txn, txn'[u].op \in {"authorize", "submit"}, txn'[u].basis \in Mandated
        PROVE  Sole(txn[u].basis)'
    BY <1>1, <1>2, <1>3, <2>2 DEF Begun, Sole
  <2> QED BY <2>1, <2>2 DEF Begun
<1>8. Exclusive' /\ holds' = [u \in Txn |-> holds'[u]]
  BY <1>1, <1>2 DEF Exclusive
<1> QED BY <1>3, <1>5, <1>6, <1>7, <1>8 DEF SubmissionInv

LEMMA LockGood ==
    ASSUME SubmissionInv, NEW t \in Txn, Lock(t)
    PROVE  SubmissionInv'
<1> DEFINE c == txn[t]
           B == c.basis
<1>1. /\ txn = [u \in Txn |-> txn[u]] /\ holds = [u \in Txn |-> holds[u]]
      /\ \A u \in Txn : CallOK(txn[u]) /\ Stands(u)
      /\ Begun /\ Exclusive /\ RowsInv
  BY DEF SubmissionInv
<1>2. PICK row : /\ row \in NextRows(t) /\ Passes(c, row)
                 /\ \A u \in Txn : row \notin holds[u]
                 /\ holds' = [holds EXCEPT ![t] = holds[t] \union {row}]
  BY DEF Lock
<1>3. /\ c # Idle /\ txn' = txn
      /\ basis' = basis /\ reservation' = reservation /\ receipt' = receipt /\ order' = order /\ bound' = bound
      /\ mandate' = mandate /\ binding' = binding /\ approval' = approval
  BY DEF Lock, chain, sources
<1>4. c.op \in Ops /\ c.op # "idle"
  BY <1>1, <1>3 DEF CallOK, Ops
<1>5. /\ holds' = [u \in Txn |-> holds'[u]] /\ holds'[t] = holds[t] \union {row}
      /\ \A u \in Txn : u # t => holds'[u] = holds[u]
  BY <1>1, <1>2
<1>6. HeldLoss' = HeldLoss /\ Units' = Units
  BY <1>3 DEF HeldLoss, Units
<1>7. RowsInv'
  BY <1>1, <1>3, <1>6
     DEF RowsInv, RowsTyped, WholeChains, WholeChain, ApprovalsAgree, OneRun, HeldUnderMandate
<1>8. Stands(t)'
  <2>1. Mandate \in holds'[t] => MandateIs(c, IF c.op = "resume" THEN "SUSPENDED" ELSE "ACTIVE")
    BY <1>1, <1>2, <1>5 DEF Stands, Passes
  <2>2. Binding \in holds'[t] => BindingIs(c)
    BY <1>1, <1>2, <1>5 DEF Stands, Passes
  <2>3. c.op \in Asking /\ Approval(B[1]) \in holds'[t] => approval[B[1]] \in Wanted(c)
    BY <1>1, <1>2, <1>5 DEF Stands, Passes, Approval
  <2>4. c.op = "run" /\ Authority \in holds'[t] => Unused(B[1])
    BY <1>1, <1>2, <1>5 DEF Stands, Passes
  <2>5. ASSUME c.op \in Chaining, BasisRow(B) \in holds'[t]
        PROVE  Authority \in holds'[t] /\ Affordable(B)
    <3>1. CASE BasisRow(B) \in holds[t]
      BY <1>1, <1>5, <2>5, <3>1 DEF Stands
    <3>2. CASE row = BasisRow(B)
      <4>1. Authority \in holds[t]
        BY <1>2, <2>5, <3>2, AuthorityFirst
      <4>2. row[1] = "basis"
        BY <3>2 DEF BasisRow
      <4> QED BY <1>2, <1>5, <2>5, <4>1, <4>2 DEF Passes
    <3> QED BY <1>5, <2>5, <3>1, <3>2
  <2>6. c.op = "consume" /\ ReceiptRow(B) \in holds'[t] => receipt[B] = "ISSUED"
    BY <1>1, <1>2, <1>5 DEF Stands, Passes, ReceiptRow
  <2>7. /\ MandateIs(c, IF c.op = "resume" THEN "SUSPENDED" ELSE "ACTIVE")'
              <=> MandateIs(c, IF c.op = "resume" THEN "SUSPENDED" ELSE "ACTIVE")
        /\ BindingIs(c)' <=> BindingIs(c)
        /\ Unused(B[1])' <=> Unused(B[1])
        /\ Affordable(B)' <=> Affordable(B)
    BY <1>3, <1>6 DEF MandateIs, BindingIs, Unused, Affordable
  <2> QED BY <1>3, <1>4, <2>1, <2>2, <2>3, <2>4, <2>5, <2>6, <2>7 DEF Stands
<1>9. ASSUME NEW u \in Txn PROVE CallOK(txn[u])' /\ Stands(u)'
  <2>1. CallOK(txn[u])'
    BY <1>1, <1>3 DEF CallOK
  <2>2. CASE u # t
    <3>1. holds'[u] = holds[u] /\ Stands(u)
      BY <1>1, <1>5, <2>2
    <3> QED BY <1>3, <1>6, <2>1, <3>1 DEF Stands, MandateIs, BindingIs, Affordable, Unused
  <2> QED BY <1>8, <2>1, <2>2
<1>10. Begun'
  BY <1>1, <1>3 DEF Begun, Sole
<1>11. Exclusive'
  BY <1>1, <1>2, <1>5 DEF Exclusive
<1> QED BY <1>1, <1>3, <1>5, <1>7, <1>9, <1>10, <1>11 DEF SubmissionInv

LEMMA RollbackGood ==
    ASSUME SubmissionInv, NEW t \in Txn, Rollback(t)
    PROVE  SubmissionInv'
<1>1. Ends(t) /\ UNCHANGED <<chain, sources>>
  BY DEF Rollback
<1>2. /\ basis' = basis /\ reservation' = reservation /\ receipt' = receipt /\ order' = order /\ bound' = bound
      /\ mandate' = mandate /\ binding' = binding /\ approval' = approval
  BY <1>1 DEF chain, sources
<1>3. RowsInv
  BY DEF SubmissionInv
<1>4. RowsTyped' /\ ApprovalsAgree' /\ HeldUnderMandate'
  BY <1>2, <1>3 DEF RowsInv, RowsTyped, ApprovalsAgree, HeldUnderMandate
<1>5. mandate.version <= mandate'.version /\ binding.version <= binding'.version
  BY <1>2, <1>3, MandateFields DEF RowsInv
<1>6. Effect(t)
  BY <1>1, <1>2, <1>3, <1>4, <1>5, QuietEffect
<1> QED BY <1>1, <1>6, EndsGood

LEMMA SubmitOpenGood ==
    ASSUME SubmissionInv, NEW t \in Txn, NEW op \in {"authorize", "submit"}, NEW p \in Plan \union Exception,
           SubmitOpen(t, op, p)
    PROVE  SubmissionInv'
<1> DEFINE b == IF p \in Plan THEN <<p, mandate.version>> ELSE <<p, 0>>
           c == Autonomous(op, b, binding.version)
<1>1. /\ mandate.version \in 1 .. MaxMandate /\ mandate.version \in Nat
  BY MandateFields DEF SubmissionInv, RowsInv
<1>2. ~ Completed(b) /\ Opens(t, c)
  BY DEF SubmitOpen
<1>3. /\ b \in Agents /\ b[1] = p
      /\ b \in Mandated => b[2] = mandate.version
  BY <1>1, SubmissionAssumption DEF Agents, Mandated, Excepted
<1> HIDE DEF b
<1>4. c.op = op /\ c.basis = b /\ c.mandate = b[2]
  BY DEF Autonomous
<1> HIDE DEF c
<1>5. CallOK(c)
  BY <1>3, <1>4 DEF CallOK, Ops
<1>6. b \in Mandated => Sole(b)
  <2> SUFFICES ASSUME b \in Mandated PROVE Sole(b)
    OBVIOUS
  <2>1. ASSUME NEW a \in Mandated, a[1] = b[1] PROVE order[a] = 0
    <3>1. a \in Basis /\ ~ (order[a] > 0)
      BY <1>2, <2>1 DEF Completed, Mandated, Basis
    <3>2. order[a] \in 0 .. 1
      BY <3>1 DEF SubmissionInv, RowsInv, RowsTyped
    <3> QED BY <3>1, <3>2
  <2> QED BY <1>1, <1>3, <2>1 DEF Sole
<1> QED BY <1>2, <1>4, <1>5, <1>6, OpensGood

LEMMA OtherOpensGood ==
    ASSUME SubmissionInv, NEW t \in Txn,
           \/ \E b \in Mandated \union Excepted : ConsumeOpen(t, b)
           \/ \E e \in Exception : RequestOpen(t, e)
           \/ \E f \in Fixture : RunOpen(t, f)
           \/ \E f \in Exception \union Fixture, decision \in {"GRANTED", "REJECTED", "EXPIRED"} :
                 DecideOpen(t, f, decision)
           \/ \E op \in {"pause", "halt", "mode", "retire", "resume"} : ControlOpen(t, op)
    PROVE  SubmissionInv'
<1>1. ASSUME NEW b \in Mandated \union Excepted, ConsumeOpen(t, b) PROVE SubmissionInv'
  <2> DEFINE c == Autonomous("consume", b, bound[b])
  <2>1. Opens(t, c)
    BY <1>1 DEF ConsumeOpen
  <2>2. c.op = "consume" /\ c.basis = b /\ c.mandate = b[2]
    BY DEF Autonomous
  <2> HIDE DEF c
  <2>3. CallOK(c)
    BY <2>2 DEF CallOK, Ops, Agents
  <2> QED BY <2>1, <2>2, <2>3, OpensGood
<1>2. ASSUME NEW f \in Fixture, RunOpen(t, f) PROVE SubmissionInv'
  <2> DEFINE c == [op |-> "run", basis |-> <<f, 0>>]
  <2>1. Opens(t, c)
    BY <1>2 DEF RunOpen
  <2>2. c.op = "run" /\ c.basis = <<f, 0>>
    OBVIOUS
  <2> HIDE DEF c
  <2>3. CallOK(c)
    BY <2>2 DEF CallOK, Ops
  <2> QED BY <2>1, <2>2, <2>3, OpensGood
<1>3. ASSUME NEW f \in Exception \union Fixture, NEW decision \in {"GRANTED", "REJECTED", "EXPIRED"},
             DecideOpen(t, f, decision)
      PROVE  SubmissionInv'
  <2> DEFINE c == [op |-> "decide", basis |-> <<f, 0>>, decision |-> decision]
  <2>1. Opens(t, c)
    BY <1>3 DEF DecideOpen
  <2>2. c.op = "decide" /\ c.basis = <<f, 0>> /\ c.decision = decision
    OBVIOUS
  <2> HIDE DEF c
  <2>3. CallOK(c)
    BY <2>2 DEF CallOK, Ops, Excepted
  <2> QED BY <2>1, <2>2, <2>3, OpensGood
<1>4. ASSUME NEW op \in {"pause", "halt", "mode", "retire", "resume"}, ControlOpen(t, op) PROVE SubmissionInv'
  <2> DEFINE c == [op |-> op, binding |-> binding.version,
                   mandate |-> IF op \in {"mode", "retire"} THEN binding.mandate ELSE mandate.version]
  <2>1. Opens(t, c) /\ mandate.version < MaxMandate
    BY <1>4 DEF ControlOpen
  <2>2. c.op = op /\ c.mandate = IF op \in {"mode", "retire"} THEN binding.mandate ELSE mandate.version
    OBVIOUS
  <2>3. mandate.version \in Nat /\ binding.mandate \in 1 .. MaxMandate
    BY MandateFields DEF SubmissionInv, RowsInv
  <2> HIDE DEF c
  <2>4. CallOK(c)
    BY <2>1, <2>2, <2>3 DEF CallOK, Ops
  <2> QED BY <2>1, <2>2, <2>4, OpensGood
<1>5. ASSUME NEW e \in Exception, RequestOpen(t, e) PROVE SubmissionInv'
  <2> DEFINE c == [op |-> "request", basis |-> <<e, 0>>, mandate |-> mandate.version, binding |-> binding.version]
  <2>1. Opens(t, c)
    BY <1>5 DEF RequestOpen
  <2>2. c.op = "request" /\ c.basis = <<e, 0>>
    OBVIOUS
  <2> HIDE DEF c
  <2>3. CallOK(c)
    BY <2>2 DEF CallOK, Ops, Excepted
  <2> QED BY <2>1, <2>2, <2>3, OpensGood
<1> QED BY <1>1, <1>2, <1>3, <1>4, <1>5

LEMMA SubmissionStart == ASSUME SubmissionInit PROVE SubmissionInv
<1>1. /\ \A b \in Basis : /\ basis[b] = "NONE" /\ receipt[b] = "NONE" /\ reservation[b] = "NONE"
                          /\ order[b] = 0 /\ bound[b] = 0
      /\ \A t \in Txn : txn[t] = Idle /\ holds[t] = {}
      /\ \A f \in Exception \union Fixture : approval[f] \in {"NONE", "REQUESTED"}
      /\ txn = [t \in Txn |-> Idle] /\ holds = [t \in Txn |-> {}]
      /\ mandate = [version |-> 1, status |-> "ACTIVE"]
      /\ binding = [version |-> 1, mode |-> "AUTONOMOUS", mandate |-> 1]
  BY DEF SubmissionInit
<1>2. 1 \in 1 .. MaxMandate /\ 1 \in Nat /\ mandate.version = 1
  BY <1>1, SubmissionAssumption
<1>3. RowsTyped
  <2>1. /\ mandate \in [version : 1 .. MaxMandate, status : {"ACTIVE", "SUSPENDED", "HALTED"}]
        /\ binding \in [version : Nat \ {0}, mode : {"AUTONOMOUS", "PAUSED", "RETIRED"}, mandate : 1 .. MaxMandate]
    BY <1>1, <1>2
  <2> QED BY <2>1 DEF SubmissionInit, RowsTyped
<1>4. WholeChains
  BY <1>1 DEF WholeChains, WholeChain
<1>5. /\ \A f \in Fixture : order[<<f, 0>>] = 0 /\ bound[<<f, 0>>] = 0
      /\ \A e \in Exception : basis[<<e, 0>>] = "NONE"
  BY <1>1, FixtureBasis DEF Basis, Excepted
<1>6. ApprovalsAgree /\ OneRun
  BY <1>1, <1>5 DEF ApprovalsAgree, OneRun
<1>7. \A b \in Basis : reservation[b] # "HELD"
  BY <1>1
<1>8. HeldUnderMandate
  BY <1>5, <1>7 DEF HeldUnderMandate, Mandated, Basis
<1>9. Units = {}
  BY <1>7 DEF Units
<1>10. IsFiniteSet(Units) /\ HeldLoss <= Budget
  <2>1. HeldLoss = Cardinality(Units)
    BY DEF HeldLoss, Units
  <2> QED BY <1>9, <2>1, FS_EmptySet, SubmissionAssumption
<1>11. \A t \in Txn : CallOK(txn[t]) /\ Stands(t)
  BY <1>1, IdleOK DEF Stands, CallOK, Chaining, Asking
<1>12. Begun
  <2>1. \A b \in Mandated : basis[b] = "NONE"
    BY <1>1 DEF Mandated, Basis
  <2> QED BY <1>1, <2>1, IdleOK DEF Begun
<1>13. Exclusive
  BY <1>1 DEF Exclusive
<1> QED BY <1>1, <1>3, <1>4, <1>6, <1>8, <1>10, <1>11, <1>12, <1>13 DEF SubmissionInv, RowsInv

LEMMA SubmissionStep == ASSUME SubmissionInv, [SubmissionNext]_submissionVars PROVE SubmissionInv'
<1>1. ASSUME NEW t \in Txn, NEW op \in {"authorize", "submit"}, NEW p \in Plan \union Exception,
             SubmitOpen(t, op, p)
      PROVE  SubmissionInv'
  BY <1>1, SubmitOpenGood
<1>2. ASSUME NEW t \in Txn,
             \/ \E b \in Mandated \union Excepted : ConsumeOpen(t, b)
             \/ \E e \in Exception : RequestOpen(t, e)
             \/ \E f \in Fixture : RunOpen(t, f)
             \/ \E f \in Exception \union Fixture, decision \in {"GRANTED", "REJECTED", "EXPIRED"} :
                   DecideOpen(t, f, decision)
             \/ \E op \in {"pause", "halt", "mode", "retire", "resume"} : ControlOpen(t, op)
      PROVE  SubmissionInv'
  BY <1>2, OtherOpensGood
<1>3. ASSUME NEW t \in Txn, Lock(t) PROVE SubmissionInv'
  BY <1>3, LockGood
<1>4. ASSUME NEW t \in Txn, Commit(t) PROVE SubmissionInv'
  <2>1. Effect(t) /\ Ends(t)
    BY <1>4, CommitEffect DEF Commit
  <2> QED BY <2>1, EndsGood
<1>5. ASSUME NEW t \in Txn, Rollback(t) PROVE SubmissionInv'
  BY <1>5, RollbackGood
<1>6. CASE UNCHANGED submissionVars
  <2>1. /\ basis' = basis /\ reservation' = reservation /\ receipt' = receipt
        /\ order' = order /\ bound' = bound
        /\ mandate' = mandate /\ binding' = binding /\ approval' = approval
        /\ txn' = txn /\ holds' = holds
    BY <1>6 DEF submissionVars, chain, sources
  <2>2. HeldLoss' = HeldLoss /\ Units' = Units
    BY <2>1 DEF HeldLoss, Units
  <2>3. RowsInv'
    BY <2>1, <2>2 DEF SubmissionInv, RowsInv, RowsTyped, WholeChains, WholeChain, ApprovalsAgree, OneRun,
                      HeldUnderMandate
  <2>4. \A t \in Txn : CallOK(txn[t])' /\ Stands(t)'
    BY <2>1, <2>2 DEF SubmissionInv, CallOK, Stands, MandateIs, BindingIs, Affordable, Unused
  <2>5. Begun' /\ Exclusive'
    BY <2>1 DEF SubmissionInv, Begun, Sole, Exclusive
  <2>6. txn' = [t \in Txn |-> txn'[t]] /\ holds' = [t \in Txn |-> holds'[t]]
    BY <2>1 DEF SubmissionInv
  <2> QED BY <2>3, <2>4, <2>5, <2>6 DEF SubmissionInv
<1> QED BY <1>1, <1>2, <1>3, <1>4, <1>5, <1>6 DEF SubmissionNext

(***************************************************************************)
(* Whatever a transaction has checked of a row it holds the lock of still  *)
(* stands until it commits or rolls back, and what is committed is a whole *)
(* chain: the row locks of the owner functions carry all that follows.     *)
(***************************************************************************)
THEOREM SubmissionInductive == SubmissionSpec => []SubmissionInv
<1>1. SubmissionInit => SubmissionInv
  BY SubmissionStart
<1>2. SubmissionInv /\ [SubmissionNext]_submissionVars => SubmissionInv'
  BY SubmissionStep
<1> QED BY <1>1, <1>2, PTL DEF SubmissionSpec

(***************************************************************************)
(* A chain is there as a whole or not at all, and with its approval if it  *)
(* goes by one; what is held with a receipt that is stale is an agent's,   *)
(* on the approval of one plan, given before the mode was changed.  For    *)
(* any number of plans, exceptions, fixtures and connections.              *)
(***************************************************************************)
THEOREM SubmissionChainsWhole == SubmissionSpec => []ChainsWhole
<1>1. SubmissionInv => ChainsWhole
  <2> SUFFICES ASSUME SubmissionInv PROVE ChainsWhole
    OBVIOUS
  <2>1. WholeChains /\ ApprovalsAgree
    BY DEF SubmissionInv, RowsInv
  <2>2. ASSUME NEW b \in Basis
        PROVE  /\ (order[b] = 1) <=> (receipt[b] = "CONSUMED")
               /\ (receipt[b] = "CONSUMED") <=> (reservation[b] = "CONSUMED")
               /\ receipt[b] = "ISSUED" => reservation[b] = "HELD" /\ basis[b] = "ACTIVE"
               /\ reservation[b] = "HELD" =>
                     \/ receipt[b] = "ISSUED"
                     \/ b \in Excepted /\ receipt[b] = "STALE" /\ bound[b] < binding.version
               /\ (basis[b] = "NONE") <=> (receipt[b] = "NONE")
               /\ (basis[b] = "NONE") <=> (reservation[b] = "NONE")
    BY <2>1 DEF WholeChains, WholeChain
  <2> QED BY <2>1, <2>2 DEF ChainsWhole, ApprovalsAgree
<1> QED BY <1>1, SubmissionInductive, PTL

(***************************************************************************)
(* What is held fits the budget, whatever the losses of the plans are: the *)
(* row of the risk budget authority is locked from the check to the commit.*)
(***************************************************************************)
THEOREM SubmissionBudgetHeld == SubmissionSpec => []BudgetHeld
<1>1. SubmissionInv => BudgetHeld
  BY DEF SubmissionInv, RowsInv, BudgetHeld
<1> QED BY <1>1, SubmissionInductive, PTL

(***************************************************************************)
(* Nothing issued or held on a basis of the mandate outlives its stop.     *)
(***************************************************************************)
THEOREM SubmissionStoppedHoldsNothing == SubmissionSpec => []StoppedHoldsNothing
<1>1. SubmissionInv => StoppedHoldsNothing
  <2> SUFFICES ASSUME SubmissionInv, mandate.status # "ACTIVE" \/ binding.mode # "AUTONOMOUS", NEW b \in Mandated
               PROVE  receipt[b] # "ISSUED" /\ reservation[b] # "HELD"
    BY DEF StoppedHoldsNothing
  <2>1. reservation[b] # "HELD"
    BY DEF SubmissionInv, RowsInv, HeldUnderMandate
  <2>2. WholeChain(b)
    BY DEF SubmissionInv, RowsInv, WholeChains, Mandated, Basis
  <2> QED BY <2>1, <2>2 DEF WholeChain
<1> QED BY <1>1, SubmissionInductive, PTL

(***************************************************************************)
(* One order for a plan and one manual episode, under all the versions of  *)
(* the mandate: an order is created under the version in force, and a      *)
(* chain is begun under it when the plan has none.                         *)
(***************************************************************************)
THEOREM SubmissionOneOrderPerPlan == SubmissionSpec => []OneOrderPerPlan
<1>1. SubmissionInv => OneOrderPerPlan
  <2> SUFFICES ASSUME SubmissionInv PROVE OneOrderPerPlan
    OBVIOUS
  <2>1. RowsTyped /\ WholeChains /\ OneRun /\ Begun
    BY DEF SubmissionInv, RowsInv
  <2>2. \A b \in Basis : order[b] <= 1
    BY <2>1 DEF RowsTyped
  <2>3. ASSUME NEW a \in Mandated, NEW b \in Mandated, order[a] = 1, order[b] = 1, a[1] = b[1], a[2] < b[2]
        PROVE  FALSE
    <3>1. b \in Basis /\ WholeChain(b)
      BY <2>1 DEF WholeChains, Mandated, Basis
    <3>2. Sole(b)
      BY <2>1, <2>3, <3>1 DEF WholeChain, Begun
    <3> QED BY <2>3, <3>2 DEF Sole
  <2>4. ASSUME NEW a \in Basis, NEW b \in Basis, order[a] = 1, order[b] = 1,
               a[1] = b[1] \/ {a[1], b[1]} \subseteq Fixture
        PROVE  a = b
    <3>1. CASE a \in Mandated /\ b \in Mandated
      <4>1. a[1] \in Plan /\ b[1] \in Plan /\ a[2] \in Nat /\ b[2] \in Nat /\ a = <<a[1], a[2]>> /\ b = <<b[1], b[2]>>
        BY <3>1, SubmissionAssumption DEF Mandated
      <4>2. a[1] = b[1]
        BY <2>4, <4>1, SubmissionAssumption
      <4>3. a[2] = b[2]
        <5>1. a[2] < b[2] \/ b[2] < a[2] \/ a[2] = b[2]
          BY <4>1
        <5> QED BY <2>3, <2>4, <3>1, <4>2, <5>1
      <4> QED BY <4>1, <4>2, <4>3
    <3>2. CASE a \in Fixture \X {0} /\ b \in Fixture \X {0}
      <4>1. PICK f \in Fixture, g \in Fixture : a = <<f, 0>> /\ b = <<g, 0>>
        BY <3>2
      <4> QED BY <2>1, <2>4, <4>1 DEF OneRun
    <3>3. CASE a \in Excepted /\ b \in Excepted
      <4>1. PICK e \in Exception, d \in Exception : a = <<e, 0>> /\ b = <<d, 0>>
        BY <3>3 DEF Excepted
      <4> QED BY <2>4, <4>1, SubmissionAssumption
    <3>4. \/ a[1] \in Plan /\ b[1] \in Plan
          \/ a[1] \in Exception /\ b[1] \in Exception
          \/ a[1] \in Fixture /\ b[1] \in Fixture
      BY <2>4, BasisParts, SubmissionAssumption
    <3>5. \A d \in {a, b} : /\ d[1] \in Plan => d \in Mandated
                            /\ d[1] \in Exception => d \in Excepted
                            /\ d[1] \in Fixture => d \in Fixture \X {0}
      BY SubmissionAssumption DEF Basis, Mandated, Excepted
    <3> QED BY <3>1, <3>2, <3>3, <3>4, <3>5
  <2> QED BY <2>2, <2>4 DEF OneOrderPerPlan
<1> QED BY <1>1, SubmissionInductive, PTL

(***************************************************************************)
(* No agent's order once the mode was changed since its receipt, or, on a  *)
(* basis of the mandate, once that was stopped or replaced: an order is    *)
(* committed by who holds the binding and the source.                      *)
(***************************************************************************)
THEOREM SubmissionStoppedCreatesNoOrder == SubmissionSpec => StoppedCreatesNoOrder
<1> DEFINE Creates ==
        \A b \in Mandated \union Excepted : order'[b] # order[b] =>
           /\ binding.mode = "AUTONOMOUS" /\ binding.version = bound'[b]
           /\ b \in Mandated => mandate = [version |-> b[2], status |-> "ACTIVE"]
<1>1. SubmissionInv /\ [SubmissionNext]_submissionVars => [Creates]_submissionVars
  <2> SUFFICES ASSUME SubmissionInv, SubmissionNext PROVE Creates
    OBVIOUS
  <2>1. ASSUME NEW t \in Txn, Commit(t) PROVE Creates
    BY <2>1, CommitEffect DEF Effect, Forward, Agents
  <2>2. ASSUME order' = order PROVE Creates
    BY <2>2
  <2>3. \/ order' = order
        \/ \E t \in Txn : Commit(t)
    <3> HIDE DEF Creates
    <3>1. ASSUME NEW t \in Txn, Lock(t) \/ Rollback(t) PROVE order' = order
      BY <3>1 DEF Lock, Rollback, chain
    <3>2. ASSUME NEW t \in Txn, NEW op, NEW p, SubmitOpen(t, op, p) PROVE order' = order
      BY <3>2 DEF SubmitOpen, Opens, chain
    <3>3. ASSUME NEW t \in Txn, NEW b, ConsumeOpen(t, b) PROVE order' = order
      BY <3>3 DEF ConsumeOpen, Opens, chain
    <3>4. ASSUME NEW t \in Txn, NEW f, RunOpen(t, f) PROVE order' = order
      BY <3>4 DEF RunOpen, Opens, chain
    <3>5. ASSUME NEW t \in Txn, NEW f, NEW decision, DecideOpen(t, f, decision) PROVE order' = order
      BY <3>5 DEF DecideOpen, Opens, chain
    <3>6. ASSUME NEW t \in Txn, NEW op, ControlOpen(t, op) PROVE order' = order
      BY <3>6 DEF ControlOpen, Opens, chain
    <3>7. ASSUME NEW t \in Txn, NEW e, RequestOpen(t, e) PROVE order' = order
      BY <3>7 DEF RequestOpen, Opens, chain
    <3> QED BY <3>1, <3>2, <3>3, <3>4, <3>5, <3>6, <3>7 DEF SubmissionNext
  <2> HIDE DEF Creates
  <2> QED BY <2>1, <2>2, <2>3
<1>2. SubmissionSpec => [][Creates]_submissionVars
  BY <1>1, SubmissionInductive, PTL DEF SubmissionSpec
<1> QED BY <1>2, PTL DEF StoppedCreatesNoOrder

-----------------------------------------------------------------------------
(***************************************************************************)
(* What append_trade_episode() means to leave of an episode in a log: the  *)
(* seven stages side by side and nothing of it anywhere else, or nothing.  *)
(* It is a fact about a log, and it is kept of the file and of what every  *)
(* process has in memory: a process writes what it has in memory, and a    *)
(* failed write leaves or takes back only what keeps it.                   *)
(***************************************************************************)
Stage(c, k) == [type |-> Stages[k], account |-> c]
Away(log, c) == \A j \in DOMAIN log : log[j].account # c
Block(log, c, i) ==
    /\ \A k \in 1..7 : i + k - 1 \in DOMAIN log /\ log[i + k - 1] = Stage(c, k)
    /\ \A j \in DOMAIN log : log[j].account = c => \E k \in 1..7 : j = i + k - 1
IsLog(log) == log = [i \in 1..Len(log) |-> log[i]] /\ Len(log) \in Nat
Whole(log) ==
    /\ IsLog(log)
    /\ \A c \in Episode : Away(log, c) \/ \E i \in DOMAIN log : Block(log, c, i)

Asked(call) ==
    /\ call.step = "append" => call.event.account = Trader
    /\ call.step = "episode" => call.of \in Episode

EpisodesInv ==
    /\ due = <<>> \/ (due = <<due[1]>> /\ due[1].account = Trader)
    /\ Whole(file)
    /\ memory = [w \in Writer |-> memory[w]]
    /\ \A w \in Writer : Whole(memory[w])
    /\ writing = [w \in Writer |-> writing[w]]
    /\ \A w \in Writer : Asked(writing[w])

-----------------------------------------------------------------------------
\* The stages of an episode are seven.
LEMMA SevenStages ==
    /\ DOMAIN Stages = 1..7 /\ Len(Stages) = 7
    /\ \A c : Facts(c) = [k \in 1..7 |-> Stage(c, k)] /\ Len(Facts(c)) = 7
<1>1. DOMAIN Stages = 1..7 /\ Len(Stages) = 7
  BY DEF Stages
<1>2. ASSUME NEW c PROVE Facts(c) = [k \in 1..7 |-> Stage(c, k)]
  BY <1>1 DEF Facts, Stage
<1>3. ASSUME NEW c PROVE Len(Facts(c)) = 7
  BY <1>2
<1>4. QED
  BY <1>1, <1>2, <1>3

LEMMA SequenceIs ==
    ASSUME NEW S, NEW s \in Seq(S)
    PROVE  s = [i \in 1..Len(s) |-> s[i]] /\ Len(s) \in Nat
  OBVIOUS

\* What has been appended to a log follows what was there.
LEMMA Longer ==
    ASSUME NEW log, IsLog(log), NEW event
    PROVE  /\ IsLog(Append(log, event))
           /\ Len(Append(log, event)) = Len(log) + 1
           /\ \A i \in 1..Len(log) : Append(log, event)[i] = log[i]
           /\ Append(log, event)[Len(log) + 1] = event
<1> DEFINE S == {log[i] : i \in 1..Len(log)} \union {event}
<1>1. log \in Seq(S)
  BY Z3 DEF IsLog
<1> HIDE DEF S
<1>2. event \in S
  BY DEF S
<1>3. Append(log, event) \in Seq(S) /\ Len(Append(log, event)) = Len(log) + 1
  BY <1>1, <1>2
<1>4. IsLog(Append(log, event))
  BY <1>3, SequenceIs DEF IsLog
<1>5. \A i \in 1..Len(log) : Append(log, event)[i] = log[i]
  BY <1>1, <1>2
<1>6. Append(log, event)[Len(log) + 1] = event
  BY <1>1, <1>2
<1>7. QED
  BY <1>3, <1>4, <1>5, <1>6

LEMMA Joined ==
    ASSUME NEW log, IsLog(log), NEW c
    PROVE  /\ IsLog(log \o Facts(c))
           /\ Len(log \o Facts(c)) = Len(log) + 7
           /\ \A i \in 1..Len(log) : (log \o Facts(c))[i] = log[i]
           /\ \A k \in 1..7 : (log \o Facts(c))[Len(log) + k] = Stage(c, k)
<1> DEFINE S == {log[i] : i \in 1..Len(log)} \union {Stage(c, k) : k \in 1..7}
<1>0. Facts(c) = [k \in 1..7 |-> Stage(c, k)] /\ Len(Facts(c)) = 7
  BY SevenStages
<1>1. log \in Seq(S)
  BY Z3 DEF IsLog
<1>2. Facts(c) \in Seq(S)
  <2>1. \A k \in 1..7 : Stage(c, k) \in S
    OBVIOUS
  <2> HIDE DEF S
  <2>2. QED
    BY <2>1, <1>0, Z3
<1> HIDE DEF S
<1>3. log \o Facts(c) \in Seq(S)
  BY <1>1, <1>2
<1>4. IsLog(log \o Facts(c))
  BY <1>3, SequenceIs DEF IsLog
<1>5. /\ Len(log \o Facts(c)) = Len(log) + 7
      /\ \A i \in 1..Len(log) : (log \o Facts(c))[i] = log[i]
      /\ \A k \in 1..7 : (log \o Facts(c))[Len(log) + k] = Stage(c, k)
  BY <1>0, <1>1, <1>2
<1>6. QED
  BY <1>4, <1>5

\* An event of the trader's leaves every episode as it was.
LEMMA AppendKeepsWhole ==
    ASSUME AuditAssumption, NEW log, Whole(log), NEW event, event.account = Trader
    PROVE  Whole(Append(log, event))
<1> DEFINE longer == Append(log, event)
<1>1. /\ longer = [i \in 1..Len(longer) |-> longer[i]]
      /\ Len(longer) = Len(log) + 1 /\ Len(log) \in Nat
      /\ \A i \in 1..Len(log) : longer[i] = log[i]
      /\ longer[Len(log) + 1] = event
      /\ log = [i \in 1..Len(log) |-> log[i]]
  <2>1. IsLog(log)
    BY DEF Whole
  <2>2. /\ IsLog(longer) /\ Len(longer) = Len(log) + 1
        /\ \A i \in 1..Len(log) : longer[i] = log[i]
        /\ longer[Len(log) + 1] = event
    BY <2>1, Longer
  <2> HIDE DEF longer
  <2>3. longer = [i \in 1..Len(longer) |-> longer[i]]
    BY <2>2, Zenon DEF IsLog
  <2>4. log = [i \in 1..Len(log) |-> log[i]] /\ Len(log) \in Nat
    BY <2>1, Zenon DEF IsLog
  <2>5. QED
    BY <2>2, <2>3, <2>4, Zenon
<1> HIDE DEF longer
<1>2. DOMAIN log = 1..Len(log) /\ DOMAIN longer = 1..(Len(log) + 1)
  BY <1>1
<1>3. ASSUME NEW c \in Episode PROVE Away(longer, c) \/ \E i \in DOMAIN longer : Block(longer, c, i)
  <2>1. event.account # c
    BY DEF AuditAssumption
  <2>2. CASE Away(log, c)
    BY <2>1, <2>2, <1>1, <1>2 DEF Away
  <2>3. ASSUME NEW i \in DOMAIN log, Block(log, c, i) PROVE i \in DOMAIN longer /\ Block(longer, c, i)
    <3>1. ASSUME NEW k \in 1..7 PROVE i + k - 1 \in DOMAIN longer /\ longer[i + k - 1] = Stage(c, k)
      <4>1. i + k - 1 \in DOMAIN log /\ log[i + k - 1] = Stage(c, k)
        BY <2>3 DEF Block
      <4>2. QED
        BY <4>1, <1>1, <1>2
    <3>2. ASSUME NEW j \in DOMAIN longer, longer[j].account = c PROVE \E k \in 1..7 : j = i + k - 1
      <4>1. j \in DOMAIN log
        BY <2>1, <3>2, <1>1, <1>2
      <4>2. log[j].account = c
        BY <3>2, <4>1, <1>1, <1>2
      <4>3. QED
        BY <4>1, <4>2, <2>3 DEF Block
    <3>3. QED
      BY <3>1, <3>2, <1>1, <1>2 DEF Block
  <2>4. QED
    BY <2>2, <2>3 DEF Whole, IsLog
<1>4. QED
  BY <1>1, <1>3 DEF Whole, IsLog, longer

\* append_trade_episode() finds an episode that is there, and does not write
\* it once more: of one that it does not find, nothing is in the log.
LEMMA FoundWhole ==
    ASSUME NEW log, Whole(log), NEW c \in Episode, ~Recorded(log, c)
    PROVE  Away(log, c)
<1>1. ASSUME NEW i \in DOMAIN log, Block(log, c, i) PROVE Recorded(log, c)
  <2>1. ASSUME NEW k \in 1..7 PROVE \E j \in DOMAIN log : log[j] = Facts(c)[k]
    BY <1>1, SevenStages DEF Block
  <2>2. QED
    BY <2>1, SevenStages DEF Recorded
<1>2. QED
  BY <1>1 DEF Whole, IsLog

LEMMA EpisodeKeepsWhole ==
    ASSUME NEW log, Whole(log), NEW c \in Episode, ~Recorded(log, c)
    PROVE  Whole(log \o Facts(c))
<1> DEFINE longer == log \o Facts(c)
<1>1. /\ longer = [i \in 1..Len(longer) |-> longer[i]]
      /\ Len(longer) = Len(log) + 7 /\ Len(log) \in Nat
      /\ \A i \in 1..Len(log) : longer[i] = log[i]
      /\ \A k \in 1..7 : longer[Len(log) + k] = Stage(c, k)
      /\ log = [i \in 1..Len(log) |-> log[i]]
  <2>1. IsLog(log)
    BY DEF Whole
  <2>2. /\ IsLog(longer) /\ Len(longer) = Len(log) + 7
        /\ \A i \in 1..Len(log) : longer[i] = log[i]
        /\ \A k \in 1..7 : longer[Len(log) + k] = Stage(c, k)
    BY <2>1, Joined
  <2> HIDE DEF longer
  <2>3. longer = [i \in 1..Len(longer) |-> longer[i]]
    BY <2>2, Zenon DEF IsLog
  <2>4. log = [i \in 1..Len(log) |-> log[i]] /\ Len(log) \in Nat
    BY <2>1, Zenon DEF IsLog
  <2>5. QED
    BY <2>2, <2>3, <2>4, Zenon
<1> HIDE DEF longer
<1>2. DOMAIN log = 1..Len(log) /\ DOMAIN longer = 1..(Len(log) + 7)
  BY <1>1
<1>0. ASSUME NEW j \in DOMAIN longer, j \notin 1..Len(log)
      PROVE  \E k \in 1..7 : j = Len(log) + k /\ longer[j] = Stage(c, k)
  <2>1. j \in 1..(Len(log) + 7) /\ j \notin 1..Len(log) /\ Len(log) \in Nat
    BY <1>0, <1>1, <1>2
  <2>2. j - Len(log) \in 1..7 /\ j = Len(log) + (j - Len(log))
    BY <2>1
  <2>3. longer[Len(log) + (j - Len(log))] = Stage(c, j - Len(log))
    BY <2>2, <1>1
  <2>4. QED
    BY <2>2, <2>3
<1>a. ASSUME NEW k \in 1..7 PROVE Stage(c, k).account = c
  BY DEF Stage
<1>3. ASSUME NEW d \in Episode PROVE Away(longer, d) \/ \E i \in DOMAIN longer : Block(longer, d, i)
  <2>1. CASE d = c
    <3>1. Away(log, c)
      BY FoundWhole
    <3>2. Block(longer, c, Len(log) + 1)
      <4>1. ASSUME NEW k \in 1..7
            PROVE  (Len(log) + 1) + k - 1 \in DOMAIN longer /\ longer[(Len(log) + 1) + k - 1] = Stage(c, k)
        <5>1. (Len(log) + 1) + k - 1 = Len(log) + k /\ Len(log) + k \in 1..(Len(log) + 7)
          BY <1>1
        <5>2. QED
          BY <5>1, <1>1, <1>2
      <4>2. ASSUME NEW j \in DOMAIN longer, longer[j].account = c
            PROVE  \E k \in 1..7 : j = (Len(log) + 1) + k - 1
        <5>1. j \notin 1..Len(log)
          BY <3>1, <4>2, <1>1, <1>2 DEF Away
        <5>2. PICK k \in 1..7 : j = Len(log) + k
          BY <5>1, <1>0
        <5>3. j = (Len(log) + 1) + k - 1
          BY <5>2, <1>1
        <5>4. QED
          BY <5>3
      <4>3. QED
        BY <4>1, <4>2 DEF Block
    <3>3. Len(log) + 1 \in DOMAIN longer
      BY <1>1, <1>2
    <3>4. QED
      BY <2>1, <3>2, <3>3
  <2>2. CASE d # c /\ Away(log, d)
    <3>1. ASSUME NEW j \in DOMAIN longer PROVE longer[j].account # d
      <4>1. CASE j \in 1..Len(log)
        BY <4>1, <2>2, <1>1, <1>2 DEF Away
      <4>2. CASE j \notin 1..Len(log)
        BY <4>2, <2>2, <1>0, <1>a
      <4>3. QED
        BY <4>1, <4>2
    <3>2. QED
      BY <3>1 DEF Away
  <2>3. ASSUME NEW i \in DOMAIN log, d # c, Block(log, d, i) PROVE i \in DOMAIN longer /\ Block(longer, d, i)
    <3>1. ASSUME NEW k \in 1..7 PROVE i + k - 1 \in DOMAIN longer /\ longer[i + k - 1] = Stage(d, k)
      <4>1. i + k - 1 \in DOMAIN log /\ log[i + k - 1] = Stage(d, k)
        BY <2>3 DEF Block
      <4>2. QED
        BY <4>1, <1>1, <1>2
    <3>2. ASSUME NEW j \in DOMAIN longer, longer[j].account = d PROVE \E k \in 1..7 : j = i + k - 1
      <4>1. j \in 1..Len(log)
        BY <2>3, <3>2, <1>0, <1>a
      <4>2. j \in DOMAIN log /\ log[j].account = d
        BY <4>1, <3>2, <1>1, <1>2
      <4>3. QED
        BY <4>2, <2>3 DEF Block
    <3>3. QED
      BY <3>1, <3>2, <1>1, <1>2 DEF Block
  <2>4. QED
    BY <2>1, <2>2, <2>3 DEF Whole, IsLog
<1>4. QED
  BY <1>1, <1>3 DEF Whole, IsLog, longer

\* What a call leaves in memory.
LEMMA ExtendedWhole ==
    ASSUME AuditAssumption, NEW log, Whole(log), NEW call, Asked(call),
           call.step \in {"append", "correct", "episode"}
    PROVE  Whole(Extended(call, log))
<1>1. CASE call.step = "append"
  <2>1. Extended(call, log) = Append(log, call.event)
    BY <1>1 DEF Extended
  <2>2. QED
    BY <2>1, <1>1, AppendKeepsWhole DEF Asked
<1>2. CASE call.step = "correct"
  <2>1. Extended(call, log) = Append(log, Correction(call))
    BY <1>2 DEF Extended
  <2>2. Correction(call).account = Trader
    BY DEF Correction
  <2>3. QED
    BY <2>1, <2>2, AppendKeepsWhole
<1>3. CASE call.step = "episode"
  <2>1. Extended(call, log) = IF Recorded(log, call.of) THEN log ELSE log \o Facts(call.of)
    BY <1>3 DEF Extended
  <2>2. CASE Recorded(log, call.of)
    BY <2>1, <2>2
  <2>3. CASE ~Recorded(log, call.of)
    BY <2>1, <2>3, <1>3, EpisodeKeepsWhole DEF Asked
  <2>4. QED
    BY <2>2, <2>3
<1>4. QED
  BY <1>1, <1>2, <1>3

-----------------------------------------------------------------------------
\* Whoever crashed, failed to write or tried again, every log is whole.
LEMMA EpisodesInit == AuditAssumption /\ AuditInit => EpisodesInv
<1> SUFFICES ASSUME AuditAssumption, AuditInit PROVE EpisodesInv
  OBVIOUS
<1>1. Whole(<<>>)
  BY DEF Whole, IsLog, Away
<1>2. Asked(AtRest)
  BY DEF Asked, AtRest
<1>3. QED
  BY <1>1, <1>2 DEF AuditInit, EpisodesInv

LEMMA AppliesKeepsEpisodes ==
    ASSUME EpisodesInv, NEW event, event.account = Trader, Applies(event)
    PROVE  EpisodesInv'
<1>1. due' = <<event>> /\ due'[1] = event
  BY DEF Applies
<1>2. UNCHANGED <<exists, file, memory, locked, writing>>
  BY DEF Applies
<1>3. QED
  BY <1>1, <1>2 DEF EpisodesInv

LEMMA EnterKeepsEpisodes ==
    ASSUME EpisodesInv, NEW w \in Writer, NEW call, Asked(call), Enter(w, call)
    PROVE  EpisodesInv'
<1>1. Whole(Reloaded(w))
  BY DEF EpisodesInv, Reloaded
<1>2. UNCHANGED <<due, file>>
  BY DEF Enter
<1>3. memory' = [memory EXCEPT ![w] = Reloaded(w)] /\ writing' = [writing EXCEPT ![w] = call]
  BY DEF Enter
<1>4. memory' = [v \in Writer |-> memory'[v]] /\ writing' = [v \in Writer |-> writing'[v]]
  BY <1>3 DEF EpisodesInv
<1>5. ASSUME NEW v \in Writer PROVE Whole(memory'[v]) /\ Asked(writing'[v])
  BY <1>1, <1>3 DEF EpisodesInv
<1>6. QED
  BY <1>2, <1>4, <1>5 DEF EpisodesInv

\* The end of a call, however it ends.
LEMMA LeaveKeepsEpisodes ==
    ASSUME EpisodesInv, NEW w \in Writer, NEW log, Whole(log), NEW call, Asked(call),
           memory' = [memory EXCEPT ![w] = log] \/ memory' = memory,
           writing' = [writing EXCEPT ![w] = call],
           Whole(file'), due' = due \/ (due # <<>> /\ due' = Tail(due))
    PROVE  EpisodesInv'
<1>1. memory' = [v \in Writer |-> memory'[v]] /\ writing' = [v \in Writer |-> writing'[v]]
  BY DEF EpisodesInv
<1>2. ASSUME NEW v \in Writer PROVE Whole(memory'[v]) /\ Asked(writing'[v])
  BY DEF EpisodesInv
<1>3. due' = <<>> \/ (due' = <<due'[1]>> /\ due'[1].account = Trader)
  <2>1. CASE due' = due
    BY <2>1 DEF EpisodesInv
  <2>2. CASE due # <<>> /\ due' = Tail(due)
    <3>1. due = <<due[1]>>
      BY <2>2 DEF EpisodesInv
    <3>2. Tail(<<due[1]>>) = <<>>
      OBVIOUS
    <3>3. QED
      BY <3>1, <3>2, <2>2
  <2>3. QED
    BY <2>1, <2>2
<1>4. QED
  BY <1>1, <1>2, <1>3 DEF EpisodesInv

\* The whole invariant, of every step.
LEMMA EpisodesStep ==
    AuditAssumption /\ EpisodesInv /\ [AuditNext]_auditVars => EpisodesInv'
<1> SUFFICES ASSUME AuditAssumption, EpisodesInv, [AuditNext]_auditVars PROVE EpisodesInv'
  OBVIOUS
<1>0. Trader \in Writer /\ Asked(AtRest)
  BY DEF Writer, Asked, AtRest
<1>1. ASSUME NEW type, NEW fact, Applies(Event(type, fact)) PROVE EpisodesInv'
  <2>1. Event(type, fact).account = Trader
    BY DEF Event
  <2>2. QED
    BY <1>1, <2>1, AppliesKeepsEpisodes
<1>2. ASSUME NEW f \in FillFact, Open(f) PROVE EpisodesInv'
  BY <1>1, <1>2 DEF Open
<1>3. ASSUME NEW f \in FillFact, NEW today \in BOOLEAN, Close(f, today) PROVE EpisodesInv'
  BY <1>1, <1>3 DEF Close
<1>4. ASSUME NEW date \in Date, NEW price \in Mark, MarkAndSettle(date, price) PROVE EpisodesInv'
  BY <1>1, <1>4 DEF MarkAndSettle
<1>5. ASSUME NEW amount \in Amount, Reserve(amount) \/ Release(amount) PROVE EpisodesInv'
  <2>1. UNCHANGED <<due, file, memory, writing>>
    BY <1>5 DEF Reserve, Release
  <2>2. QED
    BY <2>1 DEF EpisodesInv
<1>6. ASSUME AppendDue PROVE EpisodesInv'
  <2>1. Head(due) = due[1] /\ due[1].account = Trader
    BY <1>6 DEF AppendDue, EpisodesInv
  <2>2. Asked([step |-> "append", event |-> Head(due)])
    BY <2>1 DEF Asked
  <2>3. QED
    BY <1>6, <1>0, <2>2, EnterKeepsEpisodes DEF AppendDue
<1>7. ASSUME NEW i \in 1..MaxEvents, CorrectFact(i) PROVE EpisodesInv'
  <2>1. Asked([step |-> "correct", target |-> i, of |-> memory[Trader][i]])
    BY DEF Asked
  <2>2. QED
    BY <1>7, <1>0, <2>1, EnterKeepsEpisodes DEF CorrectFact
<1>8. ASSUME NEW w \in Clerk, NEW c \in Episode, RecordEpisode(w, c) PROVE EpisodesInv'
  <2>1. Asked([step |-> "episode", of |-> c]) /\ w \in Writer
    BY DEF Asked, Writer
  <2>2. QED
    BY <1>8, <2>1, EnterKeepsEpisodes DEF RecordEpisode
<1>9. ASSUME NEW w \in Writer, Write(w) PROVE EpisodesInv'
  <2>1. Whole(Extended(writing[w], memory[w]))
    BY <1>9, ExtendedWhole DEF EpisodesInv, Write, Calling
  <2>2. memory' = [memory EXCEPT ![w] = Extended(writing[w], memory[w])]
    BY <1>9 DEF Write
  <2>3. memory'[w] = Extended(writing[w], memory[w])
    BY <2>2 DEF EpisodesInv
  <2>4. Whole(file')
    BY <1>9, <2>1, <2>3 DEF Write, EpisodesInv
  <2>5. Asked([step |-> "written", of |-> writing[w].step])
    BY DEF Asked
  <2>6. writing' = [writing EXCEPT ![w] = [step |-> "written", of |-> writing[w].step]] /\ due' = due
    BY <1>9 DEF Write
  <2>7. QED
    BY <2>1, <2>2, <2>4, <2>5, <2>6, LeaveKeepsEpisodes
<1>10. ASSUME NEW w \in Writer, WriteFails(w) PROVE EpisodesInv'
  <2>1. Whole(Extended(writing[w], memory[w])) /\ Whole(memory[w]) /\ Whole(file)
    BY <1>10, ExtendedWhole DEF EpisodesInv, WriteFails, Calling
  <2>2. writing' = [writing EXCEPT ![w] = AtRest] /\ due' = due
    BY <1>10 DEF WriteFails, Leaves
  <2>3. CASE writing[w].step = "episode"
    <3>1. Whole(file') /\ memory' = memory
      BY <1>10, <2>1, <2>3 DEF WriteFails
    <3>2. QED
      BY <3>1, <2>1, <2>2, <1>0, LeaveKeepsEpisodes
  <2>4. CASE writing[w].step # "episode"
    <3>1. Whole(file') /\ memory' = [memory EXCEPT ![w] = Extended(writing[w], memory[w])]
      BY <1>10, <2>1, <2>4 DEF WriteFails
    <3>2. QED
      BY <3>1, <2>1, <2>2, <1>0, LeaveKeepsEpisodes
  <2>5. QED
    BY <2>3, <2>4
<1>11. ASSUME NEW w \in Writer, Return(w) PROVE EpisodesInv'
  <2>1. writing' = [writing EXCEPT ![w] = AtRest] /\ UNCHANGED <<file, memory>>
    BY <1>11 DEF Return, Leaves
  <2>2. Whole(file') /\ Whole(memory[w])
    BY <2>1 DEF EpisodesInv
  <2>3. due' = due \/ (due # <<>> /\ due' = Tail(due))
    BY <1>11 DEF Return, EpisodesInv
  <2>4. QED
    BY <2>1, <2>2, <2>3, <1>0, LeaveKeepsEpisodes
<1>12. ASSUME NEW w \in Writer, Crash(w) PROVE EpisodesInv'
  <2>1. /\ memory' = [memory EXCEPT ![w] = file] /\ writing' = [writing EXCEPT ![w] = AtRest]
        /\ UNCHANGED <<due, file>>
    BY <1>12 DEF Crash
  <2>2. Whole(file) /\ Whole(file')
    BY <2>1 DEF EpisodesInv
  <2>3. QED
    BY <2>1, <2>2, <1>0, LeaveKeepsEpisodes
<1>13. ASSUME UNCHANGED auditVars PROVE EpisodesInv'
  BY <1>13 DEF auditVars, EpisodesInv
<1>14. QED
  BY <1>2, <1>3, <1>4, <1>5, <1>6, <1>7, <1>8, <1>9, <1>10, <1>11, <1>12, <1>13 DEF AuditNext

\* What a whole log says of the places of an episode.
LEMMA WholeIsWhole == AuditAssumption /\ Whole(file) => EpisodesWhole
<1> SUFFICES ASSUME Whole(file), NEW c \in Episode, NEW i \in DOMAIN file, Block(file, c, i)
             PROVE  LET places == {j \in DOMAIN file : file[j].account = c}
                    IN  /\ Cardinality(places) = Len(Stages)
                        /\ \E j \in places : SubSeq(file, j, j + Len(Stages) - 1) = Facts(c)
  <2>1. ASSUME NEW c \in Episode, Away(file, c)
        PROVE  {j \in DOMAIN file : file[j].account = c} = {}
    BY <2>1 DEF Away
  <2>2. QED
    BY <2>1 DEF Whole, IsLog, EpisodesWhole
<1> DEFINE places == {j \in DOMAIN file : file[j].account = c}
<1>1. file = [j \in 1..Len(file) |-> file[j]] /\ Len(file) \in Nat
  BY DEF Whole, IsLog
<1>0. i \in Int
  BY <1>1
<1>2. \A k \in 1..7 : i + k - 1 \in DOMAIN file /\ file[i + k - 1] = Stage(c, k)
  BY DEF Block
<1>3. i \in 1..Len(file) /\ i + 6 \in 1..Len(file)
  <2>1. i + 1 - 1 \in DOMAIN file /\ i + 7 - 1 \in DOMAIN file
    BY <1>2
  <2>2. i + 1 - 1 = i /\ i + 7 - 1 = i + 6 /\ DOMAIN file = 1..Len(file)
    BY <1>1
  <2>3. QED
    BY <2>1, <2>2
<1>4. places = i..(i + 6)
  <2>1. ASSUME NEW j \in i..(i + 6) PROVE j \in places
    <3>1. j - i + 1 \in 1..7 /\ i + (j - i + 1) - 1 = j
      BY <1>0
    <3>2. j \in DOMAIN file /\ file[j] = Stage(c, j - i + 1)
      BY <3>1, <1>2
    <3>3. QED
      BY <3>2 DEF Stage
  <2>2. ASSUME NEW j \in places PROVE j \in i..(i + 6)
    <3>1. PICK k \in 1..7 : j = i + k - 1
      BY DEF Block
    <3>2. QED
      BY <1>0, <3>1
  <2>3. QED
    BY <2>1, <2>2
<1>5. Cardinality(places) = 7
  <2>1. Cardinality(i..(i + 6)) = 7
    BY <1>0, FS_Interval
  <2>2. QED
    BY <2>1, <1>4
<1>6. i \in places
  BY <1>0, <1>4
<1>7. SubSeq(file, i, i + 6) = Facts(c)
  <2> DEFINE S == {file[j] : j \in 1..Len(file)}
  <2>1. file \in Seq(S)
    BY <1>1, Z3
  <2> HIDE DEF S
  <2>2. i + 6 \in Int /\ i <= i + 6 /\ (i + 6) - i + 1 = 7 /\ \A j \in i..(i + 6) : file[j] \in S
    BY <1>0, <1>1, <1>3, <2>1
  <2>7. SubSeq(file, i, i + 6) \in Seq(S) /\ Len(SubSeq(file, i, i + 6)) = 7
        /\ \A k \in 1..7 : SubSeq(file, i, i + 6)[k] = file[i + k - 1]
    <3>1. PICK n \in Int : n = i + 6 /\ i <= n /\ n - i + 1 = 7 /\ \A j \in i..n : file[j] \in S
      BY <2>2
    <3>2. /\ SubSeq(file, i, n) \in Seq(S)
          /\ Len(SubSeq(file, i, n)) = IF i <= n THEN n - i + 1 ELSE 0
          /\ \A k \in 1 .. n - i + 1 : SubSeq(file, i, n)[k] = file[i + k - 1]
      BY <1>0, <3>1, SubSeqProperties
    <3>3. QED
      BY <3>1, <3>2
  <2>3. SubSeq(file, i, i + 6) = [k \in 1..7 |-> SubSeq(file, i, i + 6)[k]]
    BY <2>7, SequenceIs
  <2>4. \A k \in 1..7 : SubSeq(file, i, i + 6)[k] = Stage(c, k)
    BY <2>7, <1>2
  <2>5. Facts(c) = [k \in 1..7 |-> Stage(c, k)]
    BY SevenStages
  <2>6. QED
    BY <2>3, <2>4, <2>5
<1>8. QED
  BY <1>5, <1>6, <1>7, SevenStages

(***************************************************************************)
(* Every list of events that can be seen, the file's and each writer's in  *)
(* memory, holds an episode whole or not at all: append_trade_episode()    *)
(* writes its seven stages with one replacement of the file.               *)
(***************************************************************************)
THEOREM AuditInductive == AuditSpec => []EpisodesInv
<1>1. AuditInit => EpisodesInv
  BY AuditAssumption, EpisodesInit
<1>2. EpisodesInv /\ [AuditNext]_auditVars => EpisodesInv'
  BY AuditAssumption, EpisodesStep
<1>3. QED
  BY <1>1, <1>2, PTL DEF AuditSpec

(***************************************************************************)
(* An episode is in the audit file as a whole, once and in one piece, or   *)
(* not at all, for any number of processes, crashes and failed writes.     *)
(* (append_trade_episode.)                                                 *)
(***************************************************************************)
THEOREM AuditEpisodesWhole == AuditSpec => []EpisodesWhole
<1>1. EpisodesInv => EpisodesWhole
  BY AuditAssumption, WholeIsWhole DEF EpisodesInv
<1>2. QED
  BY <1>1, AuditInductive, PTL

-----------------------------------------------------------------------------
(***************************************************************************)
(* What a fact does to an account: as a function of the account it sets    *)
(* the margin aside, and a fact that is given twice counts once.           *)
(***************************************************************************)
Types == {"FILL", "CLOSE_FILL", "CLOSE_TODAY_FILL", "SETTLEMENT"}
IsAccount(a) ==
    a = [cash |-> a.cash, margin |-> a.margin, realized |-> a.realized, fees |-> a.fees,
         lots |-> a.lots, fills |-> a.fills, dates |-> a.dates, adjustment |-> a.adjustment]
Unreserved(a) == [a EXCEPT !.margin = 0]

LEMMA FillSetsMarginAside ==
    ASSUME NEW a, IsAccount(a), NEW f
    PROVE  /\ IsAccount(ApplyFill(a, f)) /\ ApplyFill(a, f).margin = a.margin
           /\ ApplyFill(Unreserved(a), f) = Unreserved(ApplyFill(a, f))
           /\ ApplyFill(ApplyFill(a, f), f) = ApplyFill(a, f)
  BY DEF IsAccount, ApplyFill, Unreserved

CloseAny(a, f) == CloseFill(a, f, FALSE)
CloseToday(a, f) == CloseFill(a, f, TRUE)

LEMMA CloseAnySetsMarginAside ==
    ASSUME NEW a, IsAccount(a), NEW f
    PROVE  /\ IsAccount(CloseAny(a, f)) /\ CloseAny(a, f).margin = a.margin
           /\ CloseAny(Unreserved(a), f) = Unreserved(CloseAny(a, f))
           /\ CloseAny(CloseAny(a, f), f) = CloseAny(a, f)
  BY DEF IsAccount, CloseFill, CloseAny, Unreserved

LEMMA CloseTodaySetsMarginAside ==
    ASSUME NEW a, IsAccount(a), NEW f
    PROVE  /\ IsAccount(CloseToday(a, f)) /\ CloseToday(a, f).margin = a.margin
           /\ CloseToday(Unreserved(a), f) = Unreserved(CloseToday(a, f))
           /\ CloseToday(CloseToday(a, f), f) = CloseToday(a, f)
  BY DEF IsAccount, CloseFill, CloseToday, Unreserved

LEMMA SettleSetsMarginAside ==
    ASSUME NEW a, IsAccount(a), NEW s
    PROVE  /\ IsAccount(Settle(a, s)) /\ Settle(a, s).margin = a.margin
           /\ Settle(Unreserved(a), s) = Unreserved(Settle(a, s))
           /\ Settle(Settle(a, s), s) = Settle(a, s)
  BY DEF IsAccount, Settle, Unreserved

LEMMA FactCountsOnce ==
    ASSUME NEW type \in Types, NEW a, IsAccount(a), NEW fact
    PROVE  /\ IsAccount(Replayed(type, a, fact)) /\ Replayed(type, a, fact).margin = a.margin
           /\ Replayed(type, Unreserved(a), fact) = Unreserved(Replayed(type, a, fact))
           /\ Replayed(type, Replayed(type, a, fact), fact) = Replayed(type, a, fact)
<1>1. CASE type = "FILL"
  <2>1. \A b : Replayed(type, b, fact) = ApplyFill(b, fact)
    BY <1>1 DEF Replayed
  <2>2. QED
    BY <2>1, FillSetsMarginAside
<1>2. CASE type = "CLOSE_FILL"
  <2>1. \A b : Replayed(type, b, fact) = CloseAny(b, fact)
    BY <1>2 DEF Replayed, CloseAny
  <2>2. QED
    BY <2>1, CloseAnySetsMarginAside
<1>3. CASE type = "CLOSE_TODAY_FILL"
  <2>1. \A b : Replayed(type, b, fact) = CloseToday(b, fact)
    BY <1>3 DEF Replayed, CloseToday
  <2>2. QED
    BY <2>1, CloseTodaySetsMarginAside
<1>4. CASE type = "SETTLEMENT"
  <2>1. \A b : Replayed(type, b, fact) = Settle(b, fact)
    BY <1>4 DEF Replayed
  <2>2. QED
    BY <2>1, SettleSetsMarginAside
<1>5. QED
  BY <1>1, <1>2, <1>3, <1>4 DEF Types

LEMMA NewIsUnreserved ==
    IsAccount(NewAccount) /\ NewAccount.margin = 0
  BY DEF NewAccount, IsAccount

LEMMA UnreservedIs ==
    ASSUME NEW a, IsAccount(a)
    PROVE  /\ IsAccount(Unreserved(a)) /\ Unreserved(a).margin = 0
           /\ (a.margin = 0 => Unreserved(a) = a)
           /\ \A m : IsAccount([a EXCEPT !.margin = m]) /\ Unreserved([a EXCEPT !.margin = m]) = Unreserved(a)
<1>1. IsAccount(Unreserved(a)) /\ Unreserved(a).margin = 0
  BY DEF IsAccount, Unreserved
<1>2. ASSUME a.margin = 0 PROVE Unreserved(a) = a
  BY <1>2 DEF IsAccount, Unreserved
<1>3. ASSUME NEW m PROVE IsAccount([a EXCEPT !.margin = m])
  BY DEF IsAccount
<1>4. ASSUME NEW m PROVE Unreserved([a EXCEPT !.margin = m]) = Unreserved(a)
  BY DEF IsAccount, Unreserved
<1>5. QED
  BY <1>1, <1>2, <1>3, <1>4

-----------------------------------------------------------------------------
(***************************************************************************)
(* replay() as the solution of its recursion.                              *)
(***************************************************************************)
Upto(after, events, last) ==
    after = [n \in 0..last |-> IF n = 0 THEN NewAccount ELSE Redone(events, n, after[n - 1])]
Solves(after, events) == Upto(after, events, Len(events))

LEMMA ReplayIsChosen ==
    ASSUME NEW events
    PROVE  Replay(events) = (CHOOSE after : Solves(after, events))[Len(events)]
  BY DEF Replay, Solves, Upto

LEMMA UptoExists ==
    ASSUME NEW events, NEW last \in Nat
    PROVE  \E after : Upto(after, events, last)
<1> DEFINE P == {n \in Nat : \E after : Upto(after, events, n)}
<1>1. 0 \in P
  <2>1. Upto([n \in 0..0 |-> NewAccount], events, 0)
    BY DEF Upto
  <2>2. QED
    BY <2>1
<1>2. ASSUME NEW n \in P PROVE n + 1 \in P
  <2>1. n \in Nat
    OBVIOUS
  <2>2. PICK f : Upto(f, events, n)
    OBVIOUS
  <2> DEFINE g == [k \in 0..(n + 1) |-> IF k = n + 1 THEN Redone(events, n + 1, f[n]) ELSE f[k]]
  <2>3. ASSUME NEW k \in 0..(n + 1)
        PROVE  g[k] = IF k = 0 THEN NewAccount ELSE Redone(events, k, g[k - 1])
    <3>1. CASE k = 0
      <4>1. f[0] = NewAccount
        BY <2>1, <2>2 DEF Upto
      <4>2. QED
        BY <3>1, <4>1, <2>1
    <3>2. CASE k \in 1..n
      <4>1. f[k] = Redone(events, k, f[k - 1])
        BY <2>1, <2>2, <3>2 DEF Upto
      <4>2. g[k] = f[k] /\ g[k - 1] = f[k - 1] /\ k # 0
        BY <2>1, <3>2
      <4>3. QED
        BY <4>1, <4>2
    <3>3. CASE k = n + 1
      <4>1. g[k] = Redone(events, k, f[k - 1]) /\ g[k - 1] = f[k - 1] /\ k # 0
        BY <2>1, <3>3
      <4>2. QED
        BY <4>1
    <3>4. QED
      BY <2>1, <3>1, <3>2, <3>3
  <2>4. g = [k \in 0..(n + 1) |-> g[k]]
    OBVIOUS
  <2> HIDE DEF g
  <2>5. Upto(g, events, n + 1)
    BY <2>3, <2>4 DEF Upto
  <2>6. QED
    BY <2>1, <2>5
<1> HIDE DEF P
<1>3. P \in SUBSET Nat
  BY DEF P
<1>4. P = Nat
  BY <1>1, <1>2, <1>3, Induction
<1>5. QED
  BY <1>4 DEF P

LEMMA ReplayIs ==
    ASSUME NEW events, Len(events) \in Nat
    PROVE  \E after : Solves(after, events) /\ Replay(events) = after[Len(events)]
<1> DEFINE after == CHOOSE f : Solves(f, events)
<1>1. \E f : Solves(f, events)
  BY UptoExists DEF Solves
<1>2. Solves(after, events)
  BY <1>1, Zenon
<1>3. Replay(events) = after[Len(events)]
  BY ReplayIsChosen, Zenon
<1> HIDE DEF after
<1>4. QED
  BY <1>2, <1>3

\* Logs that begin alike are replayed alike.
LEMMA UptoAgrees ==
    ASSUME NEW log, NEW longer, NEW m \in Nat, NEW n \in Nat, m <= n,
           NEW f, Upto(f, log, m), NEW g, Upto(g, longer, n),
           \A k \in 1..m : \A b : Redone(longer, k, b) = Redone(log, k, b)
    PROVE  \A k \in 0..m : g[k] = f[k]
<1> DEFINE P == {k \in Nat : k <= m => g[k] = f[k]}
<1>1. 0 \in P
  BY DEF Upto
<1>2. ASSUME NEW k \in P PROVE k + 1 \in P
  <2>1. SUFFICES ASSUME k + 1 <= m PROVE g[k + 1] = f[k + 1]
    OBVIOUS
  <2>2. k \in Nat /\ k <= m /\ g[k] = f[k] /\ k + 1 \in 1..m /\ k + 1 \in 1..n /\ (k + 1) - 1 = k
    BY <2>1
  <2>3. f[k + 1] = Redone(log, k + 1, f[k])
    BY <2>2 DEF Upto
  <2>4. g[k + 1] = Redone(longer, k + 1, g[k])
    BY <2>2 DEF Upto
  <2>5. QED
    BY <2>2, <2>3, <2>4
<1>3. P \in SUBSET Nat
  OBVIOUS
<1> HIDE DEF P
<1>4. P = Nat
  BY <1>1, <1>2, <1>3, Induction
<1>5. QED
  BY <1>4 DEF P

LEMMA ReplayGoesOn ==
    ASSUME NEW log, NEW longer, Len(log) \in Nat, Len(longer) \in Nat, Len(log) <= Len(longer),
           \A k \in 1..Len(log) : \A b : Redone(longer, k, b) = Redone(log, k, b)
    PROVE  \E after : /\ Solves(after, longer)
                      /\ after[Len(log)] = Replay(log)
                      /\ after[Len(longer)] = Replay(longer)
<1>1. PICK f : Solves(f, log) /\ Replay(log) = f[Len(log)]
  BY ReplayIs
<1>2. PICK g : Solves(g, longer) /\ Replay(longer) = g[Len(longer)]
  BY ReplayIs
<1>3. Upto(f, log, Len(log)) /\ Upto(g, longer, Len(longer))
  BY <1>1, <1>2 DEF Solves
<1>4. \A k \in 0..Len(log) : g[k] = f[k]
  BY <1>3, UptoAgrees
<1>5. QED
  BY <1>1, <1>2, <1>4

-----------------------------------------------------------------------------
(***************************************************************************)
(* What the log may hold of the trader's: its facts, and corrections of    *)
(* places that come before them.                                           *)
(***************************************************************************)
Told(log) ==
    \A j \in DOMAIN log :
        IF log[j].type = "CORRECTION" THEN log[j].target \in 1..(j - 1)
        ELSE Own(log[j]) => log[j].type \in Types

LEMMA LatestIs ==
    ASSUME NEW n \in Nat, NEW places \in SUBSET (1..n), places # {}
    PROVE  Latest(places) \in places
<1> DEFINE T == {n - j : j \in places}
<1>1. T \in SUBSET Nat /\ T # {}
  <2>1. ASSUME NEW j \in places PROVE n - j \in Nat
    <3>1. j \in 1..n
      OBVIOUS
    <3>2. QED
      BY <3>1
  <2>2. QED
    BY <2>1
<1>2. PICK d \in T : \A m \in T : d <= m
  BY <1>1, LeastNat
<1>3. PICK j \in places : d = n - j
  BY <1>2
<1>4. \A k \in places : k <= j
  BY <1>2, <1>3
<1>5. \E i \in places : \A k \in places : k <= i
  BY <1>4
<1>6. QED
  BY <1>5, Zenon DEF Latest

\* As long as no correction is added, a fact is redone as before.
LEMMA RedoneAsBefore ==
    ASSUME NEW log, IsLog(log), NEW longer, IsLog(longer), Len(log) <= Len(longer),
           \A i \in 1..Len(log) : longer[i] = log[i],
           \A i \in DOMAIN longer : i > Len(log) => longer[i].type # "CORRECTION"
    PROVE  \A k \in 1..Len(log) : \A b : Redone(longer, k, b) = Redone(log, k, b)
<1>1. DOMAIN log = 1..Len(log) /\ DOMAIN longer = 1..Len(longer) /\ Len(log) \in Nat /\ Len(longer) \in Nat
  BY DEF IsLog
<1>2. ASSUME NEW k \in 1..Len(log) PROVE Corrected(longer, k) = Corrected(log, k)
  <2>1. Corrections(longer, k) = Corrections(log, k)
    BY <1>1 DEF Corrections
  <2>2. CASE Corrections(log, k) = {}
    BY <2>1, <2>2 DEF Corrected
  <2>3. CASE Corrections(log, k) # {}
    <3>1. Corrections(log, k) \in SUBSET (1..Len(log))
      BY <1>1 DEF Corrections
    <3>2. PICK i : i = Latest(Corrections(log, k))
      OBVIOUS
    <3>3. i \in 1..Len(log)
      BY <3>1, <3>2, <2>3, <1>1, LatestIs
    <3>4. Corrected(log, k) = log[i].fact /\ Corrected(longer, k) = longer[i].fact
      BY <2>1, <2>3, <3>2 DEF Corrected
    <3>5. QED
      BY <3>3, <3>4
  <2>4. QED
    BY <2>2, <2>3
<1>3. QED
  BY <1>2 DEF Redone

\* A fact that is appended is applied last.
LEMMA AppendedIsApplied ==
    ASSUME NEW log, IsLog(log), Told(log), NEW event, event.account = Trader, event.type \in Types
    PROVE  /\ IsLog(Append(log, event)) /\ Told(Append(log, event))
           /\ Replay(Append(log, event)) = Replayed(event.type, Replay(log), event.fact)
<1> DEFINE longer == Append(log, event)
<1>1. /\ IsLog(longer) /\ Len(longer) = Len(log) + 1 /\ Len(log) \in Nat
      /\ \A i \in 1..Len(log) : longer[i] = log[i]
      /\ longer[Len(log) + 1] = event
  <2>1. /\ IsLog(longer) /\ Len(longer) = Len(log) + 1
        /\ \A i \in 1..Len(log) : longer[i] = log[i]
        /\ longer[Len(log) + 1] = event
    BY Longer
  <2>2. Len(log) \in Nat
    BY DEF IsLog
  <2>3. QED
    BY <2>1, <2>2
<1> HIDE DEF longer
<1>2. DOMAIN log = 1..Len(log) /\ DOMAIN longer = 1..(Len(log) + 1)
  BY <1>1 DEF IsLog
<1>3. event.type # "CORRECTION"
  BY DEF Types
<1>4. Told(longer)
  <2>1. ASSUME NEW j \in DOMAIN longer
        PROVE  IF longer[j].type = "CORRECTION" THEN longer[j].target \in 1..(j - 1)
               ELSE Own(longer[j]) => longer[j].type \in Types
    <3>1. CASE j \in 1..Len(log)
      BY <3>1, <1>1, <1>2 DEF Told
    <3>2. CASE j = Len(log) + 1
      BY <3>2, <1>1, <1>3
    <3>3. QED
      BY <3>1, <3>2, <1>1, <1>2
  <2>2. QED
    BY <2>1 DEF Told
<1>5. \A i \in DOMAIN longer : i > Len(log) => longer[i].type # "CORRECTION"
  BY <1>1, <1>2, <1>3
<1>6. PICK after : /\ Solves(after, longer)
                   /\ after[Len(log)] = Replay(log)
                   /\ after[Len(longer)] = Replay(longer)
  <2>1. Len(log) <= Len(longer) /\ Len(longer) \in Nat
    BY <1>1
  <2>2. \A k \in 1..Len(log) : \A b : Redone(longer, k, b) = Redone(log, k, b)
    BY <1>1, <1>5, <2>1, RedoneAsBefore
  <2>3. QED
    BY <1>1, <2>1, <2>2, ReplayGoesOn
<1>7. after[Len(log) + 1] = Redone(longer, Len(log) + 1, after[Len(log)])
  <2>1. Len(log) + 1 \in 0..Len(longer) /\ Len(log) + 1 # 0 /\ (Len(log) + 1) - 1 = Len(log)
    BY <1>1
  <2>2. QED
    BY <1>6, <2>1 DEF Solves, Upto
<1>8. Corrections(longer, Len(log) + 1) = {}
  <2>1. ASSUME NEW j \in DOMAIN longer, longer[j].type = "CORRECTION"
        PROVE  longer[j].target # Len(log) + 1
    <3>1. longer[j].target \in 1..(j - 1)
      BY <2>1, <1>4 DEF Told
    <3>2. j \in 1..(Len(log) + 1)
      BY <1>2
    <3>3. QED
      BY <3>1, <3>2, <1>1
  <2>2. QED
    BY <2>1 DEF Corrections
<1>9. Redone(longer, Len(log) + 1, after[Len(log)]) = Replayed(event.type, Replay(log), event.fact)
  <2>1. Corrected(longer, Len(log) + 1) = event.fact
    BY <1>1, <1>8 DEF Corrected
  <2>2. Own(longer[Len(log) + 1])
    BY <1>1 DEF Own
  <2>3. QED
    BY <2>1, <2>2, <1>1, <1>3, <1>6 DEF Redone
<1>10. Replay(longer) = Replayed(event.type, Replay(log), event.fact)
  BY <1>1, <1>6, <1>7, <1>9
<1>11. QED
  BY <1>1, <1>4, <1>10 DEF longer

\* An episode of another account does not count.
LEMMA EpisodeIsNotReplayed ==
    ASSUME AuditAssumption, NEW log, IsLog(log), Told(log), NEW c \in Episode
    PROVE  /\ IsLog(log \o Facts(c)) /\ Told(log \o Facts(c))
           /\ Replay(log \o Facts(c)) = Replay(log)
<1> DEFINE longer == log \o Facts(c)
<1>1. /\ IsLog(longer) /\ Len(longer) = Len(log) + 7 /\ Len(log) \in Nat
      /\ \A i \in 1..Len(log) : longer[i] = log[i]
      /\ \A k \in 1..7 : longer[Len(log) + k] = Stage(c, k)
  <2>1. /\ IsLog(longer) /\ Len(longer) = Len(log) + 7
        /\ \A i \in 1..Len(log) : longer[i] = log[i]
        /\ \A k \in 1..7 : longer[Len(log) + k] = Stage(c, k)
    BY Joined
  <2>2. Len(log) \in Nat
    BY DEF IsLog
  <2> HIDE DEF longer
  <2>3. QED
    BY <2>1, <2>2
<1> HIDE DEF longer
<1>2. DOMAIN log = 1..Len(log) /\ DOMAIN longer = 1..(Len(log) + 7)
  BY <1>1 DEF IsLog
<1>3. ASSUME NEW k \in 1..7 PROVE ~Own(Stage(c, k)) /\ Stage(c, k).type # "CORRECTION"
  BY DEF Own, Stage, Stages, AuditAssumption
<1>4. ASSUME NEW j \in DOMAIN longer, j > Len(log)
      PROVE  ~Own(longer[j]) /\ longer[j].type # "CORRECTION"
  <2>1. j - Len(log) \in 1..7 /\ Len(log) + (j - Len(log)) = j
    <3>1. j \in 1..(Len(log) + 7) /\ j > Len(log) /\ Len(log) \in Nat
      BY <1>4, <1>1, <1>2
    <3>2. QED
      BY <3>1
  <2>2. longer[j] = Stage(c, j - Len(log))
    BY <2>1, <1>1
  <2>3. QED
    BY <2>1, <2>2, <1>3
<1>5. Told(longer)
  <2>1. ASSUME NEW j \in DOMAIN longer
        PROVE  IF longer[j].type = "CORRECTION" THEN longer[j].target \in 1..(j - 1)
               ELSE Own(longer[j]) => longer[j].type \in Types
    <3>1. CASE j \in 1..Len(log)
      BY <3>1, <1>1, <1>2 DEF Told
    <3>2. CASE j > Len(log)
      BY <3>2, <1>4
    <3>3. QED
      BY <3>1, <3>2, <1>1, <1>2
  <2>2. QED
    BY <2>1 DEF Told
<1>6. PICK after : /\ Solves(after, longer)
                   /\ after[Len(log)] = Replay(log)
                   /\ after[Len(longer)] = Replay(longer)
  <2>1. Len(log) <= Len(longer) /\ Len(longer) \in Nat
    BY <1>1
  <2>2. \A k \in 1..Len(log) : \A b : Redone(longer, k, b) = Redone(log, k, b)
    BY <1>1, <1>4, <2>1, RedoneAsBefore
  <2>3. QED
    BY <1>1, <2>1, <2>2, ReplayGoesOn
<1>7. ASSUME NEW k \in 1..7 PROVE after[Len(log) + k] = after[Len(log) + (k - 1)]
  <2>1. Len(log) + k \in 0..Len(longer) /\ Len(log) + k # 0 /\ (Len(log) + k) - 1 = Len(log) + (k - 1)
    BY <1>1
  <2>2. after[Len(log) + k] = Redone(longer, Len(log) + k, after[Len(log) + (k - 1)])
    BY <1>6, <2>1 DEF Solves, Upto
  <2>3. ~Own(longer[Len(log) + k])
    BY <1>1, <1>3
  <2>4. QED
    BY <2>2, <2>3 DEF Redone
<1>8. after[Len(log) + 7] = after[Len(log) + 0]
  <2>1. /\ after[Len(log) + 7] = after[Len(log) + 6] /\ after[Len(log) + 6] = after[Len(log) + 5]
        /\ after[Len(log) + 5] = after[Len(log) + 4] /\ after[Len(log) + 4] = after[Len(log) + 3]
        /\ after[Len(log) + 3] = after[Len(log) + 2] /\ after[Len(log) + 2] = after[Len(log) + 1]
        /\ after[Len(log) + 1] = after[Len(log) + 0]
    BY <1>7
  <2>2. QED
    BY <2>1
<1>9. Replay(longer) = Replay(log)
  BY <1>1, <1>6, <1>8
<1>10. QED
  BY <1>1, <1>5, <1>9 DEF longer

\* A replay leaves the margin to the account.
LEMMA ReplayReservesNothing ==
    ASSUME NEW log, IsLog(log), Told(log)
    PROVE  IsAccount(Replay(log)) /\ Replay(log).margin = 0
<1>1. Len(log) \in Nat /\ DOMAIN log = 1..Len(log)
  BY DEF IsLog
<1>2. PICK after : Solves(after, log) /\ Replay(log) = after[Len(log)]
  BY <1>1, ReplayIs
<1> DEFINE P == {k \in Nat : k <= Len(log) => IsAccount(after[k]) /\ after[k].margin = 0}
<1>3. 0 \in P
  <2>1. after[0] = NewAccount
    BY <1>1, <1>2 DEF Solves, Upto
  <2>2. QED
    BY <2>1, NewIsUnreserved
<1>4. ASSUME NEW k \in P PROVE k + 1 \in P
  <2>1. SUFFICES ASSUME k + 1 <= Len(log) PROVE IsAccount(after[k + 1]) /\ after[k + 1].margin = 0
    OBVIOUS
  <2>2. k \in Nat /\ k + 1 \in 0..Len(log) /\ k + 1 # 0 /\ (k + 1) - 1 = k /\ k + 1 \in DOMAIN log /\ k <= Len(log)
    BY <2>1, <1>1
  <2>3. after[k + 1] = Redone(log, k + 1, after[k])
    BY <2>2, <1>2 DEF Solves, Upto
  <2>4. IsAccount(after[k]) /\ after[k].margin = 0
    BY <2>2
  <2>5. CASE Own(log[k + 1]) /\ log[k + 1].type # "CORRECTION"
    <3>1. log[k + 1].type \in Types
      BY <2>2, <2>5 DEF Told
    <3>2. after[k + 1] = Replayed(log[k + 1].type, after[k], Corrected(log, k + 1))
      BY <2>3, <2>5 DEF Redone
    <3>3. QED
      BY <2>4, <3>1, <3>2, FactCountsOnce
  <2>6. CASE ~(Own(log[k + 1]) /\ log[k + 1].type # "CORRECTION")
    BY <2>3, <2>4, <2>6 DEF Redone
  <2>7. QED
    BY <2>5, <2>6
<1> HIDE DEF P
<1>5. P \in SUBSET Nat
  BY DEF P
<1>6. P = Nat
  BY <1>3, <1>4, <1>5, Induction
<1>7. QED
  BY <1>1, <1>2, <1>6 DEF P

LEMMA CorrectionIsTold ==
    ASSUME NEW log, IsLog(log), Told(log), NEW call, call.target \in DOMAIN log
    PROVE  IsLog(Append(log, Correction(call))) /\ Told(Append(log, Correction(call)))
<1> DEFINE longer == Append(log, Correction(call))
<1>1. /\ IsLog(longer) /\ Len(longer) = Len(log) + 1 /\ Len(log) \in Nat
      /\ \A i \in 1..Len(log) : longer[i] = log[i]
      /\ longer[Len(log) + 1] = Correction(call)
  <2>1. /\ IsLog(longer) /\ Len(longer) = Len(log) + 1
        /\ \A i \in 1..Len(log) : longer[i] = log[i]
        /\ longer[Len(log) + 1] = Correction(call)
    BY Longer
  <2>2. Len(log) \in Nat
    BY DEF IsLog
  <2>3. QED
    BY <2>1, <2>2
<1> HIDE DEF longer
<1>2. DOMAIN log = 1..Len(log) /\ DOMAIN longer = 1..(Len(log) + 1)
  BY <1>1 DEF IsLog
<1>3. Correction(call).type = "CORRECTION" /\ Correction(call).target \in 1..((Len(log) + 1) - 1)
  BY <1>1, <1>2 DEF Correction
<1>4. ASSUME NEW j \in DOMAIN longer
      PROVE  IF longer[j].type = "CORRECTION" THEN longer[j].target \in 1..(j - 1)
             ELSE Own(longer[j]) => longer[j].type \in Types
  <2>1. CASE j \in 1..Len(log)
    BY <2>1, <1>1, <1>2 DEF Told
  <2>2. CASE j = Len(log) + 1
    BY <2>2, <1>1, <1>3
  <2>3. QED
    BY <2>1, <2>2, <1>1, <1>2
<1>5. QED
  BY <1>1, <1>4 DEF Told, longer

-----------------------------------------------------------------------------
(***************************************************************************)
(* Why a replay of the file gives the trader its account.  What the file   *)
(* says is the account, or the account before the one fact that is due, or *)
(* a correction has just been written that the trader has yet to replay;   *)
(* a call goes on from the file as it is, because the lock is its own; and *)
(* before there is a file, a fact that could not be written may lie in the *)
(* trader's memory, which counts once however often it lies there.         *)
(***************************************************************************)
DueInv == due = <<>> \/ (due = <<due[1]>> /\ due[1].account = Trader /\ due[1].type \in Types)

LogsInv ==
    /\ IsLog(file) /\ Told(file)
    /\ memory = [w \in Writer |-> memory[w]]
    /\ \A w \in Writer : IsLog(memory[w]) /\ Told(memory[w])

TraderCalls(call) ==
    /\ exists => memory[Trader] = file
    /\ \/ call.step = "append" /\ due # <<>> /\ call.event = due[1]
       \/ call.step = "correct" /\ due = <<>> /\ exists /\ call.target \in DOMAIN file
       \/ call.step = "written" /\ exists /\ (IF due # <<>> THEN call.of = "append" ELSE call.of = "correct")
ClerkCalls(w, call) ==
    \/ call.step = "episode" /\ call.of \in Episode /\ (exists => memory[w] = file)
    \/ call.step = "written" /\ call.of = "episode"
InTurn(w) ==
    locked = w /\ (IF w = Trader THEN TraderCalls(writing[w]) ELSE ClerkCalls(w, writing[w]))
TurnsInv ==
    /\ writing = [w \in Writer |-> writing[w]]
    /\ \A w \in Writer : writing[w] = AtRest \/ InTurn(w)

AbsentInv ==
    ~exists => /\ file = <<>>
               /\ \A w \in Clerk : memory[w] = <<>>
               /\ due = <<>> => memory[Trader] = <<>>
               /\ due # <<>> => Replay(memory[Trader]) \in
                                    {NewAccount, Replayed(due[1].type, NewAccount, due[1].fact)}

PlacesInv ==
    due = <<>> => \A j \in DOMAIN memory[Trader] :
                      memory[Trader][j].type # "CORRECTION" => j \in DOMAIN file

Entered == writing[Trader].step = "written"
BalanceInv ==
    /\ IsAccount(account)
    /\ due = <<>> /\ ~Entered => Replay(file) = Unreserved(account)
    /\ due # <<>> /\ Entered => Replay(file) = Unreserved(account)
    /\ due # <<>> /\ ~Entered =>
           Replayed(due[1].type, Replay(file), due[1].fact) = Unreserved(account)

ReconcilesInv == DueInv /\ LogsInv /\ TurnsInv /\ AbsentInv /\ PlacesInv /\ BalanceInv

LEMMA WriterIs ==
    ASSUME AuditAssumption
    PROVE  /\ Trader \in Writer /\ Trader \notin Clerk /\ Trader \notin Episode /\ Free \notin Writer
           /\ \A w \in Writer : w # Trader <=> w \in Clerk
  BY DEF AuditAssumption, Writer

LEMMA ReplayOfNone == Replay(<<>>) = NewAccount /\ IsLog(<<>>) /\ Told(<<>>)
<1>1. PICK after : Solves(after, <<>>) /\ Replay(<<>>) = after[0]
  BY ReplayIs
<1>2. after[0] = NewAccount
  BY <1>1 DEF Solves, Upto
<1>3. QED
  BY <1>1, <1>2 DEF IsLog, Told

LEMMA ReconcilesInit == AuditAssumption /\ AuditInit => ReconcilesInv
<1> SUFFICES ASSUME AuditAssumption, AuditInit PROVE ReconcilesInv
  OBVIOUS
<1>1. DueInv /\ LogsInv
  BY ReplayOfNone DEF AuditInit, DueInv, LogsInv
<1>2. TurnsInv
  BY DEF AuditInit, TurnsInv
<1>3. AbsentInv /\ PlacesInv
  BY WriterIs DEF AuditInit, AbsentInv, PlacesInv, Writer
<1>4. BalanceInv
  <2>1. IsAccount(NewAccount) /\ Unreserved(NewAccount) = NewAccount
    BY NewIsUnreserved, UnreservedIs
  <2>2. ~Entered
    BY WriterIs DEF AuditInit, Entered, AtRest
  <2>3. QED
    BY <2>1, <2>2, ReplayOfNone DEF AuditInit, BalanceInv
<1>5. QED
  BY <1>1, <1>2, <1>3, <1>4 DEF ReconcilesInv

\* At rest, or when another process has the lock, the trader has no call.
LEMMA QuietIsNotEntered ==
    ASSUME writing[Trader] = AtRest
    PROVE  ~Entered
  BY DEF Entered, AtRest

LEMMA AppliesKeepsReconciles ==
    ASSUME AuditAssumption, ReconcilesInv, NEW type \in Types, NEW fact, Applies(Event(type, fact))
    PROVE  ReconcilesInv'
<1> DEFINE event == Event(type, fact)
<1>1. event.account = Trader /\ event.type = type /\ event.fact = fact
  BY DEF Event
<1>2. /\ due = <<>> /\ writing[Trader] = AtRest
      /\ account' = Replayed(type, account, fact) /\ due' = <<event>>
      /\ UNCHANGED <<exists, file, memory, locked, writing>>
  BY <1>1 DEF Applies, Quiet
<1> HIDE DEF event
<1>3. due' # <<>> /\ due'[1] = event
  BY <1>2
<1>4. DueInv' /\ LogsInv'
  BY <1>1, <1>2, <1>3 DEF ReconcilesInv, DueInv, LogsInv
<1>5. TurnsInv'
  <2>1. ASSUME NEW w \in Writer PROVE writing'[w] = AtRest \/ InTurn(w)'
    BY <1>2 DEF ReconcilesInv, TurnsInv, InTurn, ClerkCalls
  <2>2. QED
    BY <1>2, <2>1 DEF ReconcilesInv, TurnsInv
<1>6. AbsentInv' /\ PlacesInv'
  BY <1>2, <1>3, ReplayOfNone DEF ReconcilesInv, AbsentInv, PlacesInv
<1>7. BalanceInv'
  <2>1. IsAccount(account) /\ Replay(file) = Unreserved(account)
    BY <1>2, QuietIsNotEntered DEF ReconcilesInv, BalanceInv
  <2>2. IsAccount(account') /\ Replayed(type, Unreserved(account), fact) = Unreserved(account')
    BY <2>1, <1>2, FactCountsOnce
  <2>3. ~Entered'
    BY <1>2, QuietIsNotEntered DEF Entered
  <2>4. Replayed(due'[1].type, Replay(file'), due'[1].fact) = Unreserved(account')
    BY <2>1, <2>2, <1>1, <1>2, <1>3
  <2>5. QED
    BY <2>2, <2>3, <2>4, <1>3 DEF BalanceInv
<1>8. QED
  BY <1>4, <1>5, <1>6, <1>7 DEF ReconcilesInv

LEMMA MarginKeepsReconciles ==
    ASSUME AuditAssumption, ReconcilesInv, NEW amount, Reserve(amount) \/ Release(amount)
    PROVE  ReconcilesInv'
<1>1. UNCHANGED <<due, exists, file, memory, locked, writing>>
  BY DEF Reserve, Release
<1>2. account' = account \/ \E m : account' = [account EXCEPT !.margin = m]
  BY DEF Reserve, Release, ReserveMargin, ReleaseMargin
<1>3. IsAccount(account') /\ Unreserved(account') = Unreserved(account)
  <2>1. IsAccount(account)
    BY DEF ReconcilesInv, BalanceInv
  <2>2. ASSUME NEW m, account' = [account EXCEPT !.margin = m]
        PROVE  IsAccount(account') /\ Unreserved(account') = Unreserved(account)
    BY <2>1, <2>2, UnreservedIs
  <2>3. QED
    BY <1>2, <2>1, <2>2
<1>4. DueInv' /\ LogsInv' /\ TurnsInv' /\ AbsentInv' /\ PlacesInv'
  BY <1>1 DEF ReconcilesInv, DueInv, LogsInv, TurnsInv, InTurn, TraderCalls, ClerkCalls, AbsentInv, PlacesInv
<1>5. BalanceInv'
  BY <1>1, <1>3 DEF ReconcilesInv, BalanceInv, Entered
<1>6. QED
  BY <1>4, <1>5 DEF ReconcilesInv

\* A call begins, and its process has the file before it.
LEMMA EnterKeepsReconciles ==
    ASSUME AuditAssumption, ReconcilesInv, NEW w \in Writer, NEW call, Enter(w, call),
           call.step # "written", InTurn(w)'
    PROVE  ReconcilesInv'
<1>1. /\ writing[w] = AtRest /\ locked = Free /\ locked' = w
      /\ memory' = [memory EXCEPT ![w] = Reloaded(w)]
      /\ writing' = [writing EXCEPT ![w] = call]
      /\ UNCHANGED <<account, due, exists, file>>
  BY DEF Enter
<1>2. Reloaded(w) = IF exists THEN file ELSE memory[w]
  BY DEF Reloaded
<1>3. /\ memory' = [v \in Writer |-> memory'[v]]
      /\ \A v \in Writer : memory'[v] = IF v = w THEN Reloaded(w) ELSE memory[v]
  BY <1>1 DEF ReconcilesInv, LogsInv
<1>4. DueInv'
  BY <1>1 DEF ReconcilesInv, DueInv
<1>5. LogsInv'
  BY <1>1, <1>2, <1>3 DEF ReconcilesInv, LogsInv
<1>6. /\ writing' = [v \in Writer |-> writing'[v]]
      /\ \A v \in Writer : writing'[v] = IF v = w THEN call ELSE writing[v]
  BY <1>1 DEF ReconcilesInv, TurnsInv
<1>7. TurnsInv'
  <2>1. ASSUME NEW v \in Writer, v # w PROVE writing'[v] = AtRest
    BY <2>1, <1>1, <1>6, WriterIs DEF ReconcilesInv, TurnsInv, InTurn
  <2>2. QED
    BY <2>1, <1>6 DEF TurnsInv
<1>8. AbsentInv'
  <2>1. ASSUME ~exists PROVE memory' = memory
    BY <2>1, <1>2, <1>3 DEF ReconcilesInv, LogsInv
  <2>2. QED
    BY <2>1, <1>1 DEF ReconcilesInv, AbsentInv
<1>9. PlacesInv'
  <2>1. memory'[Trader] = memory[Trader] \/ memory'[Trader] = file
    BY <1>2, <1>3, WriterIs
  <2>2. QED
    BY <2>1, <1>1 DEF ReconcilesInv, PlacesInv
<1>10. BalanceInv'
  <2>1. Entered' <=> Entered
    BY <1>1, <1>6, WriterIs DEF Entered, AtRest
  <2>2. QED
    BY <2>1, <1>1 DEF ReconcilesInv, BalanceInv
<1>11. QED
  BY <1>4, <1>5, <1>7, <1>8, <1>9, <1>10 DEF ReconcilesInv

LEMMA AppendDueKeepsReconciles ==
    ASSUME AuditAssumption, ReconcilesInv, AppendDue
    PROVE  ReconcilesInv'
<1> DEFINE call == [step |-> "append", event |-> Head(due)]
<1>1. Enter(Trader, call) /\ due # <<>>
  BY DEF AppendDue
<1>2. call.step = "append" /\ call.event = due[1]
  BY <1>1 DEF ReconcilesInv, DueInv
<1> HIDE DEF call
<1>3. InTurn(Trader)'
  <2>1. /\ locked' = Trader /\ UNCHANGED <<due, exists, file>>
        /\ writing'[Trader] = call /\ memory'[Trader] = Reloaded(Trader)
    BY <1>1, WriterIs DEF Enter, ReconcilesInv, TurnsInv, LogsInv
  <2>2. QED
    BY <2>1, <1>1, <1>2 DEF InTurn, TraderCalls, Reloaded
<1>4. QED
  BY <1>1, <1>2, <1>3, WriterIs, EnterKeepsReconciles

LEMMA CorrectFactKeepsReconciles ==
    ASSUME AuditAssumption, ReconcilesInv, NEW i, CorrectFact(i)
    PROVE  ReconcilesInv'
<1> DEFINE call == [step |-> "correct", target |-> i, of |-> memory[Trader][i]]
<1>1. Enter(Trader, call) /\ due = <<>> /\ i \in DOMAIN memory[Trader] /\ memory[Trader][i].type # "CORRECTION"
  BY DEF CorrectFact, Quiet
<1>2. call.step = "correct" /\ call.target = i
  OBVIOUS
<1> HIDE DEF call
<1>3. i \in DOMAIN file
  BY <1>1 DEF ReconcilesInv, PlacesInv
<1>4. exists
  BY <1>1 DEF ReconcilesInv, AbsentInv
<1>5. InTurn(Trader)'
  <2>1. /\ locked' = Trader /\ UNCHANGED <<due, exists, file>>
        /\ writing'[Trader] = call /\ memory'[Trader] = Reloaded(Trader)
    BY <1>1, WriterIs DEF Enter, ReconcilesInv, TurnsInv, LogsInv
  <2>2. QED
    BY <2>1, <1>1, <1>2, <1>3, <1>4 DEF InTurn, TraderCalls, Reloaded
<1>6. QED
  BY <1>1, <1>2, <1>5, WriterIs, EnterKeepsReconciles

LEMMA RecordEpisodeKeepsReconciles ==
    ASSUME AuditAssumption, ReconcilesInv, NEW w \in Clerk, NEW c \in Episode, RecordEpisode(w, c)
    PROVE  ReconcilesInv'
<1> DEFINE call == [step |-> "episode", of |-> c]
<1>1. Enter(w, call)
  BY DEF RecordEpisode
<1>2. call.step = "episode" /\ call.of = c /\ w \in Writer /\ w # Trader
  BY WriterIs DEF Writer
<1> HIDE DEF call
<1>3. InTurn(w)'
  <2>1. /\ locked' = w /\ UNCHANGED <<due, exists, file>>
        /\ writing'[w] = call /\ memory'[w] = Reloaded(w)
    BY <1>1, <1>2 DEF Enter, ReconcilesInv, TurnsInv, LogsInv
  <2>2. QED
    BY <2>1, <1>1, <1>2 DEF InTurn, ClerkCalls, Reloaded
<1>4. QED
  BY <1>1, <1>2, <1>3, EnterKeepsReconciles

\* A call that is under way is the only one.
LEMMA InTurnAlone ==
    ASSUME ReconcilesInv, NEW w \in Writer, writing[w].step # "idle"
    PROVE  /\ InTurn(w)
           /\ \A v \in Writer : v # w => writing[v] = AtRest
<1>1. writing[w] # AtRest
  BY DEF AtRest
<1>2. InTurn(w) /\ locked = w
  BY <1>1 DEF ReconcilesInv, TurnsInv, InTurn
<1>3. ASSUME NEW v \in Writer, v # w PROVE writing[v] = AtRest
  BY <1>2, <1>3 DEF ReconcilesInv, TurnsInv, InTurn
<1>4. QED
  BY <1>2, <1>3

\* The end of a call: its process and no other has the lock no longer.
LEMMA LeavesTurns ==
    ASSUME ReconcilesInv, NEW w \in Writer, writing[w].step # "idle" \/ writing[w] = AtRest,
           writing' = [writing EXCEPT ![w] = AtRest],
           \A v \in Writer \ {w} : InTurn(v) => InTurn(v)'
    PROVE  TurnsInv'
<1>1. /\ writing' = [v \in Writer |-> writing'[v]]
      /\ \A v \in Writer : writing'[v] = IF v = w THEN AtRest ELSE writing[v]
  BY DEF ReconcilesInv, TurnsInv
<1>2. ASSUME NEW v \in Writer PROVE writing'[v] = AtRest \/ InTurn(v)'
  BY <1>1 DEF ReconcilesInv, TurnsInv
<1>3. QED
  BY <1>1, <1>2 DEF TurnsInv

LEMMA TraderAppends ==
    ASSUME AuditAssumption, ReconcilesInv, writing[Trader].step = "append", Write(Trader)
    PROVE  ReconcilesInv'
<1> DEFINE e == due[1]
           longer == Append(memory[Trader], e)
<1>0. Trader \in Writer /\ InTurn(Trader) /\ (\A v \in Writer : v # Trader => writing[v] = AtRest)
  BY WriterIs, InTurnAlone
<1>1. /\ due = <<due[1]>> /\ due # <<>> /\ e.account = Trader /\ e.type \in Types
      /\ writing[Trader].event = e /\ (exists => memory[Trader] = file)
      /\ locked = Trader /\ ~Entered
  BY <1>0 DEF InTurn, TraderCalls, ReconcilesInv, DueInv, Entered
<1>2. Extended(writing[Trader], memory[Trader]) = longer
  BY <1>1 DEF Extended
<1> HIDE DEF e
<1>3. /\ IsLog(longer) /\ Told(longer)
      /\ Replay(longer) = Replayed(e.type, Replay(memory[Trader]), e.fact)
      /\ longer # memory[Trader]
  <2>1. IsLog(memory[Trader]) /\ Told(memory[Trader])
    BY <1>0 DEF ReconcilesInv, LogsInv
  <2>2. Len(longer) = Len(memory[Trader]) + 1 /\ Len(memory[Trader]) \in Nat
    <3>1. Len(longer) = Len(memory[Trader]) + 1
      BY <2>1, Longer
    <3>2. Len(memory[Trader]) \in Nat
      BY <2>1 DEF IsLog
    <3>3. QED
      BY <3>1, <3>2
  <2>3. longer # memory[Trader]
    BY <2>2
  <2>4. QED
    BY <2>1, <2>3, <1>1, AppendedIsApplied
<1> HIDE DEF longer
<1>4. /\ memory' = [memory EXCEPT ![Trader] = longer]
      /\ memory' = [v \in Writer |-> memory'[v]]
      /\ \A v \in Writer : memory'[v] = IF v = Trader THEN longer ELSE memory[v]
      /\ UNCHANGED <<account, due, locked>>
  BY <1>2 DEF Write, ReconcilesInv, LogsInv
<1>5. exists' /\ file' = longer /\ memory'[Trader] = longer
  BY <1>0, <1>3, <1>4 DEF Write
<1>6. /\ writing' = [writing EXCEPT ![Trader] = [step |-> "written", of |-> "append"]]
      /\ writing' = [v \in Writer |-> writing'[v]]
      /\ \A v \in Writer : writing'[v] = IF v = Trader THEN [step |-> "written", of |-> "append"] ELSE writing[v]
  BY DEF Write, ReconcilesInv, TurnsInv
<1>7. DueInv' /\ LogsInv'
  BY <1>3, <1>4, <1>5 DEF ReconcilesInv, DueInv, LogsInv
<1>8. TurnsInv'
  <2>1. InTurn(Trader)'
    BY <1>0, <1>1, <1>4, <1>5, <1>6 DEF InTurn, TraderCalls
  <2>2. QED
    BY <2>1, <1>0, <1>6 DEF TurnsInv
<1>9. AbsentInv' /\ PlacesInv'
  BY <1>1, <1>4, <1>5 DEF AbsentInv, PlacesInv
<1>10. BalanceInv'
  <2>1. Replayed(e.type, Replay(file), e.fact) = Unreserved(account) /\ IsAccount(account)
    BY <1>1 DEF ReconcilesInv, BalanceInv, e
  <2>2. Replayed(e.type, Replay(memory[Trader]), e.fact) = Replayed(e.type, Replay(file), e.fact)
    <3>1. CASE exists
      BY <3>1, <1>1
    <3>2. CASE ~exists
      <4>1. /\ Replay(file) = NewAccount
            /\ Replay(memory[Trader]) \in {NewAccount, Replayed(e.type, NewAccount, e.fact)}
        BY <3>2, <1>1, ReplayOfNone DEF ReconcilesInv, AbsentInv, e
      <4>2. QED
        BY <4>1, <1>1, NewIsUnreserved, FactCountsOnce
    <3>3. QED
      BY <3>1, <3>2
  <2>3. Entered'
    BY <1>0, <1>6 DEF Entered
  <2>4. Replay(file') = Unreserved(account')
    BY <2>1, <2>2, <1>3, <1>4, <1>5
  <2>5. QED
    BY <2>1, <2>3, <2>4, <1>1, <1>4 DEF BalanceInv
<1>11. QED
  BY <1>7, <1>8, <1>9, <1>10 DEF ReconcilesInv

LEMMA TraderCorrects ==
    ASSUME AuditAssumption, ReconcilesInv, writing[Trader].step = "correct", Write(Trader)
    PROVE  ReconcilesInv'
<1> DEFINE longer == Append(memory[Trader], Correction(writing[Trader]))
<1>0. Trader \in Writer /\ InTurn(Trader) /\ (\A v \in Writer : v # Trader => writing[v] = AtRest)
  BY WriterIs, InTurnAlone
<1>1. /\ due = <<>> /\ writing[Trader].target \in DOMAIN file /\ exists /\ memory[Trader] = file
      /\ locked = Trader
  BY <1>0 DEF InTurn, TraderCalls
<1>2. Extended(writing[Trader], memory[Trader]) = longer
  BY DEF Extended
<1>3. IsLog(longer) /\ Told(longer) /\ longer # memory[Trader]
  <2>1. IsLog(memory[Trader]) /\ Told(memory[Trader])
    BY <1>0 DEF ReconcilesInv, LogsInv
  <2>2. Len(longer) = Len(memory[Trader]) + 1 /\ Len(memory[Trader]) \in Nat
    <3>1. Len(longer) = Len(memory[Trader]) + 1
      BY <2>1, Longer
    <3>2. Len(memory[Trader]) \in Nat
      BY <2>1 DEF IsLog
    <3>3. QED
      BY <3>1, <3>2
  <2>3. longer # memory[Trader]
    BY <2>2
  <2>4. QED
    BY <2>1, <2>3, <1>1, CorrectionIsTold
<1> HIDE DEF longer
<1>4. /\ memory' = [memory EXCEPT ![Trader] = longer]
      /\ memory' = [v \in Writer |-> memory'[v]]
      /\ \A v \in Writer : memory'[v] = IF v = Trader THEN longer ELSE memory[v]
      /\ UNCHANGED <<account, due, locked>>
  BY <1>2 DEF Write, ReconcilesInv, LogsInv
<1>5. exists' /\ file' = longer /\ memory'[Trader] = longer
  BY <1>0, <1>3, <1>4 DEF Write
<1>6. /\ writing' = [writing EXCEPT ![Trader] = [step |-> "written", of |-> "correct"]]
      /\ writing' = [v \in Writer |-> writing'[v]]
      /\ \A v \in Writer : writing'[v] = IF v = Trader THEN [step |-> "written", of |-> "correct"] ELSE writing[v]
  BY DEF Write, ReconcilesInv, TurnsInv
<1>7. DueInv' /\ LogsInv'
  BY <1>3, <1>4, <1>5 DEF ReconcilesInv, DueInv, LogsInv
<1>8. TurnsInv'
  <2>1. InTurn(Trader)'
    BY <1>0, <1>1, <1>4, <1>5, <1>6 DEF InTurn, TraderCalls
  <2>2. QED
    BY <2>1, <1>0, <1>6 DEF TurnsInv
<1>9. AbsentInv' /\ PlacesInv'
  BY <1>5 DEF AbsentInv, PlacesInv
<1>10. BalanceInv'
  BY <1>0, <1>1, <1>4, <1>6 DEF ReconcilesInv, BalanceInv, Entered
<1>11. QED
  BY <1>7, <1>8, <1>9, <1>10 DEF ReconcilesInv

LEMMA ClerkWrites ==
    ASSUME AuditAssumption, ReconcilesInv, NEW w \in Clerk, Write(w)
    PROVE  ReconcilesInv'
<1>0. w \in Writer /\ w # Trader /\ Trader \in Writer
  BY WriterIs DEF Writer
<1>1. /\ writing[w].step = "episode" /\ writing[w].of \in Episode
      /\ locked = w /\ writing[Trader] = AtRest /\ (\A v \in Writer : v # w => writing[v] = AtRest)
      /\ memory[w] = file
  <2>1. writing[w].step \in {"append", "correct", "episode"}
    BY DEF Write, Calling
  <2>2. InTurn(w) /\ \A v \in Writer : v # w => writing[v] = AtRest
    BY <1>0, <2>1, InTurnAlone
  <2>3. writing[w].step = "episode" /\ writing[w].of \in Episode /\ (exists => memory[w] = file) /\ locked = w
    BY <1>0, <2>1, <2>2 DEF InTurn, ClerkCalls
  <2>4. ~exists => memory[w] = file
    BY DEF ReconcilesInv, AbsentInv
  <2>5. QED
    BY <1>0, <2>2, <2>3, <2>4
<1> DEFINE left == Extended(writing[w], memory[w])
<1>2. IsLog(left) /\ Told(left) /\ Replay(left) = Replay(file)
      /\ \A j \in DOMAIN file : j \in DOMAIN left
  <2>1. left = IF Recorded(file, writing[w].of) THEN file ELSE file \o Facts(writing[w].of)
    BY <1>1 DEF Extended
  <2>2. IsLog(file) /\ Told(file)
    BY DEF ReconcilesInv, LogsInv
  <2>3. /\ Len(file \o Facts(writing[w].of)) = Len(file) + 7 /\ Len(file) \in Nat
        /\ DOMAIN file = 1..Len(file)
    <3>1. file = [i \in 1..Len(file) |-> file[i]] /\ Len(file) \in Nat
      BY <2>2 DEF IsLog
    <3>2. Len(file \o Facts(writing[w].of)) = Len(file) + 7
      BY <2>2, Joined
    <3>3. DOMAIN file = 1..Len(file)
      BY <3>1
    <3>4. QED
      BY <3>1, <3>2, <3>3
  <2>4. /\ IsLog(file \o Facts(writing[w].of)) /\ Told(file \o Facts(writing[w].of))
        /\ Replay(file \o Facts(writing[w].of)) = Replay(file)
    BY <2>2, <1>1, EpisodeIsNotReplayed
  <2>5. DOMAIN (file \o Facts(writing[w].of)) = 1..(Len(file) + 7)
    BY <2>3, <2>4 DEF IsLog
  <2>6. \A j \in DOMAIN file : j \in DOMAIN (file \o Facts(writing[w].of))
    BY <2>3, <2>5
  <2>7. QED
    BY <2>1, <2>2, <2>4, <2>6
<1> HIDE DEF left
<1>3. /\ memory' = [memory EXCEPT ![w] = left]
      /\ memory' = [v \in Writer |-> memory'[v]]
      /\ \A v \in Writer : memory'[v] = IF v = w THEN left ELSE memory[v]
      /\ UNCHANGED <<account, due, locked>>
  BY DEF Write, ReconcilesInv, LogsInv, left
<1>4. memory'[w] = left /\ file' = left /\ (exists \/ left # file <=> exists')
  BY <1>0, <1>1, <1>3 DEF Write
<1>5. /\ writing' = [writing EXCEPT ![w] = [step |-> "written", of |-> "episode"]]
      /\ writing' = [v \in Writer |-> writing'[v]]
      /\ \A v \in Writer : writing'[v] = IF v = w THEN [step |-> "written", of |-> "episode"] ELSE writing[v]
  BY <1>1 DEF Write, ReconcilesInv, TurnsInv
<1>6. DueInv' /\ LogsInv'
  BY <1>2, <1>3, <1>4 DEF ReconcilesInv, DueInv, LogsInv
<1>7. TurnsInv'
  <2>1. InTurn(w)'
    BY <1>0, <1>1, <1>3, <1>5 DEF InTurn, ClerkCalls
  <2>2. QED
    BY <2>1, <1>1, <1>5 DEF TurnsInv
<1>8. AbsentInv'
  <2>1. ASSUME ~exists' PROVE ~exists /\ file' = file /\ memory' = memory
    BY <2>1, <1>1, <1>3, <1>4 DEF ReconcilesInv, LogsInv
  <2>2. QED
    BY <2>1, <1>3 DEF ReconcilesInv, AbsentInv
<1>9. PlacesInv'
  BY <1>0, <1>2, <1>3, <1>4 DEF ReconcilesInv, PlacesInv
<1>10. BalanceInv'
  <2>1. writing'[Trader] = writing[Trader] /\ Replay(file') = Replay(file) /\ UNCHANGED <<account, due>>
    BY <1>0, <1>2, <1>3, <1>4, <1>5
  <2>2. QED
    BY <2>1 DEF ReconcilesInv, BalanceInv, Entered
<1>11. QED
  BY <1>6, <1>7, <1>8, <1>9, <1>10 DEF ReconcilesInv

LEMMA WriteKeepsReconciles ==
    ASSUME AuditAssumption, ReconcilesInv, NEW w \in Writer, Write(w)
    PROVE  ReconcilesInv'
<1>1. CASE w = Trader
  <2>1. writing[Trader].step \in {"append", "correct", "episode"}
    BY <1>1 DEF Write, Calling
  <2>2. InTurn(Trader)
    BY <1>1, <2>1, InTurnAlone
  <2>3. writing[Trader].step \in {"append", "correct"}
    BY <2>1, <2>2 DEF InTurn, TraderCalls
  <2>4. QED
    BY <1>1, <2>3, TraderAppends, TraderCorrects
<1>2. CASE w # Trader
  BY <1>2, WriterIs, ClerkWrites
<1>3. QED
  BY <1>1, <1>2

LEMMA TraderWriteFails ==
    ASSUME AuditAssumption, ReconcilesInv, WriteFails(Trader)
    PROVE  ReconcilesInv'
<1> DEFINE longer == Extended(writing[Trader], memory[Trader])
<1>1. /\ Trader \in Writer /\ InTurn(Trader) /\ (\A v \in Writer : v # Trader => writing[v] = AtRest)
      /\ writing[Trader].step \in {"append", "correct"}
      /\ (exists => memory[Trader] = file) /\ ~Entered
  <2>1. writing[Trader].step \in {"append", "correct", "episode"}
    BY DEF WriteFails, Calling
  <2>2. /\ Trader \in Writer /\ InTurn(Trader) /\ (\A v \in Writer : v # Trader => writing[v] = AtRest)
    BY <2>1, WriterIs, InTurnAlone
  <2>3. QED
    BY <2>1, <2>2 DEF InTurn, TraderCalls, Entered
<1>2. /\ writing' = [writing EXCEPT ![Trader] = AtRest]
      /\ memory' = [memory EXCEPT ![Trader] = longer]
      /\ UNCHANGED <<account, due, exists, file>>
  BY <1>1 DEF WriteFails, Leaves
<1>3. IsLog(memory[Trader]) /\ Told(memory[Trader])
  BY <1>1 DEF ReconcilesInv, LogsInv
<1>4. /\ IsLog(longer) /\ Told(longer)
      /\ writing[Trader].step = "append" =>
            /\ due # <<>>
            /\ Replay(longer) = Replayed(due[1].type, Replay(memory[Trader]), due[1].fact)
      /\ writing[Trader].step = "correct" =>
            /\ due = <<>> /\ exists
            /\ \A j \in DOMAIN longer : longer[j].type # "CORRECTION" => j \in DOMAIN file
  <2>1. CASE writing[Trader].step = "append"
    <3>1. /\ due # <<>> /\ due[1].account = Trader /\ due[1].type \in Types
          /\ writing[Trader].event = due[1]
      BY <1>1, <2>1 DEF InTurn, TraderCalls, ReconcilesInv, DueInv
    <3>2. longer = Append(memory[Trader], due[1])
      BY <2>1, <3>1 DEF Extended
    <3> HIDE DEF longer
    <3>3. QED
      BY <2>1, <3>1, <3>2, <1>3, AppendedIsApplied
  <2>2. CASE writing[Trader].step = "correct"
    <3>1. due = <<>> /\ exists /\ writing[Trader].target \in DOMAIN memory[Trader] /\ memory[Trader] = file
      BY <1>1, <2>2 DEF InTurn, TraderCalls
    <3>2. longer = Append(memory[Trader], Correction(writing[Trader]))
      BY <2>2 DEF Extended
    <3> HIDE DEF longer
    <3>3. IsLog(longer) /\ Told(longer)
      BY <3>1, <3>2, <1>3, CorrectionIsTold
    <3>4. /\ Len(longer) = Len(file) + 1 /\ Len(file) \in Nat /\ longer[Len(file) + 1].type = "CORRECTION"
      <4>1. Len(longer) = Len(file) + 1 /\ longer[Len(file) + 1] = Correction(writing[Trader])
        BY <3>1, <3>2, <1>3, Longer
      <4>2. Len(file) \in Nat
        BY <3>1, <1>3 DEF IsLog
      <4>3. QED
        BY <4>1, <4>2 DEF Correction
    <3>5. DOMAIN longer = 1..(Len(file) + 1) /\ DOMAIN file = 1..Len(file)
      BY <3>1, <3>3, <3>4, <1>3 DEF IsLog
    <3>6. QED
      BY <2>2, <3>1, <3>3, <3>4, <3>5
  <2>3. QED
    BY <2>1, <2>2, <1>1
<1> HIDE DEF longer
<1>5. /\ memory' = [v \in Writer |-> memory'[v]]
      /\ \A v \in Writer : memory'[v] = IF v = Trader THEN longer ELSE memory[v]
  BY <1>2 DEF ReconcilesInv, LogsInv
<1>6. DueInv' /\ LogsInv'
  BY <1>2, <1>4, <1>5 DEF ReconcilesInv, DueInv, LogsInv
<1>7. TurnsInv'
  <2>1. /\ writing' = [v \in Writer |-> writing'[v]]
        /\ \A v \in Writer : writing'[v] = IF v = Trader THEN AtRest ELSE writing[v]
    BY <1>2 DEF ReconcilesInv, TurnsInv
  <2>2. QED
    BY <2>1, <1>1 DEF TurnsInv
<1>8. AbsentInv'
  <2>1. SUFFICES ASSUME ~exists PROVE AbsentInv'
    BY <1>2 DEF AbsentInv
  <2>2. /\ writing[Trader].step = "append" /\ due # <<>> /\ due[1].type \in Types
        /\ Replay(longer) = Replayed(due[1].type, Replay(memory[Trader]), due[1].fact)
    BY <2>1, <1>1, <1>4 DEF ReconcilesInv, DueInv
  <2>3. Replay(memory[Trader]) \in {NewAccount, Replayed(due[1].type, NewAccount, due[1].fact)}
    BY <2>1, <2>2 DEF ReconcilesInv, AbsentInv
  <2>4. Replay(longer) = Replayed(due[1].type, NewAccount, due[1].fact)
    BY <2>2, <2>3, NewIsUnreserved, FactCountsOnce
  <2>5. file = <<>> /\ \A v \in Clerk : memory'[v] = <<>>
    BY <2>1, <1>5, WriterIs DEF ReconcilesInv, AbsentInv, Writer
  <2>6. QED
    BY <2>2, <2>4, <2>5, <1>1, <1>2, <1>5 DEF AbsentInv
<1>9. PlacesInv'
  BY <1>1, <1>2, <1>4, <1>5 DEF PlacesInv
<1>10. BalanceInv'
  <2>1. ~Entered'
    BY <1>1, <1>2 DEF Entered, AtRest, ReconcilesInv, TurnsInv
  <2>2. QED
    BY <2>1, <1>1, <1>2 DEF ReconcilesInv, BalanceInv
<1>11. QED
  BY <1>6, <1>7, <1>8, <1>9, <1>10 DEF ReconcilesInv

\* A clerk that cannot write its episode leaves the file as it was.
LEMMA ClerkWriteFails ==
    ASSUME AuditAssumption, ReconcilesInv, NEW w \in Clerk, WriteFails(w)
    PROVE  ReconcilesInv'
<1>0. w \in Writer /\ w # Trader /\ Trader \in Writer
  BY WriterIs DEF Writer
<1>1. /\ writing[w].step = "episode" /\ memory[w] = file
      /\ \A v \in Writer : v # w => writing[v] = AtRest
  <2>1. writing[w].step \in {"append", "correct", "episode"}
    BY DEF WriteFails, Calling
  <2>2. InTurn(w) /\ \A v \in Writer : v # w => writing[v] = AtRest
    BY <1>0, <2>1, InTurnAlone
  <2>3. writing[w].step = "episode" /\ (exists => memory[w] = file)
    BY <1>0, <2>1, <2>2 DEF InTurn, ClerkCalls
  <2>4. ~exists => memory[w] = file
    BY DEF ReconcilesInv, AbsentInv
  <2>5. QED
    BY <2>2, <2>3, <2>4
<1>2. /\ writing' = [writing EXCEPT ![w] = AtRest]
      /\ UNCHANGED <<account, due, file, memory>> /\ (exists => exists')
  BY <1>1 DEF WriteFails, Leaves
<1>3. /\ writing' = [v \in Writer |-> writing'[v]]
      /\ \A v \in Writer : writing'[v] = IF v = w THEN AtRest ELSE writing[v]
  BY <1>2 DEF ReconcilesInv, TurnsInv
<1>4. DueInv' /\ LogsInv' /\ AbsentInv' /\ PlacesInv'
  BY <1>2 DEF ReconcilesInv, DueInv, LogsInv, AbsentInv, PlacesInv
<1>5. TurnsInv'
  BY <1>1, <1>3 DEF TurnsInv
<1>6. BalanceInv'
  BY <1>0, <1>2, <1>3 DEF ReconcilesInv, BalanceInv, Entered
<1>7. QED
  BY <1>4, <1>5, <1>6 DEF ReconcilesInv

LEMMA TraderReturns ==
    ASSUME AuditAssumption, ReconcilesInv, Return(Trader)
    PROVE  ReconcilesInv'
<1>1. /\ Trader \in Writer /\ (\A v \in Writer : v # Trader => writing[v] = AtRest)
      /\ Entered /\ exists /\ memory[Trader] = file
      /\ (IF due # <<>> THEN writing[Trader].of = "append" ELSE writing[Trader].of = "correct")
  <2>1. writing[Trader].step = "written"
    BY DEF Return
  <2>2. Trader \in Writer /\ InTurn(Trader) /\ (\A v \in Writer : v # Trader => writing[v] = AtRest)
    BY <2>1, WriterIs, InTurnAlone
  <2>3. QED
    BY <2>1, <2>2 DEF InTurn, TraderCalls, Entered
<1>2. /\ writing' = [writing EXCEPT ![Trader] = AtRest]
      /\ UNCHANGED <<exists, file, memory>>
      /\ due' = IF writing[Trader].of = "append" THEN Tail(due) ELSE due
      /\ account' = IF writing[Trader].of = "correct"
                    THEN [Replay(memory[Trader]) EXCEPT !.margin = account.margin] ELSE account
  BY DEF Return, Leaves
<1>3. due' = <<>>
  <2>1. CASE due # <<>>
    <3>1. due = <<due[1]>>
      BY <2>1 DEF ReconcilesInv, DueInv
    <3>2. Tail(<<due[1]>>) = <<>>
      OBVIOUS
    <3>3. QED
      BY <3>1, <3>2, <2>1, <1>1, <1>2
  <2>2. CASE due = <<>>
    BY <2>2, <1>1, <1>2
  <2>3. QED
    BY <2>1, <2>2
<1>4. IsAccount(account') /\ Replay(file) = Unreserved(account')
  <2>1. CASE due # <<>>
    BY <2>1, <1>1, <1>2 DEF ReconcilesInv, BalanceInv
  <2>2. CASE due = <<>>
    <3>1. IsAccount(Replay(file)) /\ Replay(file).margin = 0
      BY ReplayReservesNothing DEF ReconcilesInv, LogsInv
    <3>2. account' = [Replay(file) EXCEPT !.margin = account.margin]
      BY <2>2, <1>1, <1>2
    <3>3. QED
      BY <3>1, <3>2, UnreservedIs
  <2>3. QED
    BY <2>1, <2>2
<1>5. /\ writing' = [v \in Writer |-> writing'[v]]
      /\ \A v \in Writer : writing'[v] = IF v = Trader THEN AtRest ELSE writing[v]
  BY <1>2 DEF ReconcilesInv, TurnsInv
<1>6. DueInv' /\ LogsInv'
  BY <1>2, <1>3 DEF ReconcilesInv, DueInv, LogsInv
<1>7. TurnsInv'
  BY <1>1, <1>5 DEF TurnsInv
<1>8. AbsentInv' /\ PlacesInv'
  BY <1>1, <1>2 DEF AbsentInv, PlacesInv
<1>9. BalanceInv'
  BY <1>2, <1>3, <1>4 DEF BalanceInv
<1>10. QED
  BY <1>6, <1>7, <1>8, <1>9 DEF ReconcilesInv

LEMMA ClerkReturns ==
    ASSUME AuditAssumption, ReconcilesInv, NEW w \in Clerk, Return(w)
    PROVE  ReconcilesInv'
<1>0. w \in Writer /\ w # Trader /\ Trader \in Writer
  BY WriterIs DEF Writer
<1>1. writing[w].of = "episode" /\ \A v \in Writer : v # w => writing[v] = AtRest
  <2>1. writing[w].step = "written"
    BY DEF Return
  <2>2. InTurn(w) /\ \A v \in Writer : v # w => writing[v] = AtRest
    BY <1>0, <2>1, InTurnAlone
  <2>3. QED
    BY <1>0, <2>1, <2>2 DEF InTurn, ClerkCalls
<1>2. /\ writing' = [writing EXCEPT ![w] = AtRest]
      /\ UNCHANGED <<account, due, exists, file, memory>>
  BY <1>1 DEF Return, Leaves
<1>3. /\ writing' = [v \in Writer |-> writing'[v]]
      /\ \A v \in Writer : writing'[v] = IF v = w THEN AtRest ELSE writing[v]
  BY <1>2 DEF ReconcilesInv, TurnsInv
<1>4. DueInv' /\ LogsInv' /\ AbsentInv' /\ PlacesInv'
  BY <1>2 DEF ReconcilesInv, DueInv, LogsInv, AbsentInv, PlacesInv
<1>5. TurnsInv'
  BY <1>1, <1>3 DEF TurnsInv
<1>6. BalanceInv'
  BY <1>0, <1>2, <1>3 DEF ReconcilesInv, BalanceInv, Entered
<1>7. QED
  BY <1>4, <1>5, <1>6 DEF ReconcilesInv

\* Whoever else has the lock keeps it when a process dies.
LEMMA CrashKeepsTurns ==
    ASSUME AuditAssumption, ReconcilesInv, NEW w \in Writer, Crash(w)
    PROVE  TurnsInv'
<1>1. /\ memory' = [memory EXCEPT ![w] = file] /\ writing' = [writing EXCEPT ![w] = AtRest]
      /\ locked' = IF locked = w THEN Free ELSE locked
      /\ UNCHANGED <<due, exists, file>>
  BY DEF Crash
<1>2. /\ writing' = [v \in Writer |-> writing'[v]]
      /\ \A v \in Writer : writing'[v] = IF v = w THEN AtRest ELSE writing[v]
  BY <1>1 DEF ReconcilesInv, TurnsInv
<1>3. \A v \in Writer : v # w => memory'[v] = memory[v]
  BY <1>1 DEF ReconcilesInv, LogsInv
<1>4. ASSUME NEW v \in Writer, v # w, InTurn(v) PROVE InTurn(v)'
  <2>1. locked' = locked /\ writing'[v] = writing[v] /\ memory'[v] = memory[v]
    BY <1>1, <1>2, <1>3, <1>4 DEF InTurn
  <2>2. QED
    BY <2>1, <1>1, <1>4 DEF InTurn, TraderCalls, ClerkCalls
<1>5. QED
  BY <1>2, <1>4 DEF ReconcilesInv, TurnsInv

LEMMA CrashKeepsReconciles ==
    ASSUME AuditAssumption, ReconcilesInv, NEW w \in Writer, Crash(w)
    PROVE  ReconcilesInv'
<1>1. /\ memory' = [memory EXCEPT ![w] = file] /\ writing' = [writing EXCEPT ![w] = AtRest]
      /\ UNCHANGED <<due, exists, file>>
      /\ account' = IF w # Trader THEN account
                    ELSE IF due = <<>> THEN Replay(file)
                    ELSE Replayed(Head(due).type, Replay(file), Head(due).fact)
  BY DEF Crash
<1>2. /\ memory' = [v \in Writer |-> memory'[v]]
      /\ \A v \in Writer : memory'[v] = IF v = w THEN file ELSE memory[v]
      /\ \A v \in Writer : writing'[v] = IF v = w THEN AtRest ELSE writing[v]
  BY <1>1 DEF ReconcilesInv, LogsInv, TurnsInv
<1>3. DueInv' /\ LogsInv'
  BY <1>1, <1>2 DEF ReconcilesInv, DueInv, LogsInv
<1>4. AbsentInv'
  <2>1. SUFFICES ASSUME ~exists PROVE AbsentInv'
    BY <1>1 DEF AbsentInv
  <2>2. file = <<>> /\ Replay(file) = NewAccount
    BY <2>1, ReplayOfNone DEF ReconcilesInv, AbsentInv
  <2>3. \A v \in Clerk : memory'[v] = <<>>
    BY <2>1, <2>2, <1>2 DEF ReconcilesInv, AbsentInv, Writer
  <2>4. memory'[Trader] = memory[Trader] \/ memory'[Trader] = <<>>
    BY <2>2, <1>2, WriterIs
  <2>5. QED
    BY <2>1, <2>2, <2>3, <2>4, <1>1 DEF ReconcilesInv, AbsentInv
<1>5. PlacesInv'
  <2>1. memory'[Trader] = memory[Trader] \/ memory'[Trader] = file
    BY <1>2, WriterIs
  <2>2. QED
    BY <2>1, <1>1 DEF ReconcilesInv, PlacesInv
<1>6. BalanceInv'
  <2>1. CASE w # Trader
    BY <2>1, <1>1, <1>2, WriterIs DEF ReconcilesInv, BalanceInv, Entered
  <2>2. CASE w = Trader
    <3>1. IsAccount(Replay(file)) /\ Replay(file).margin = 0
      BY ReplayReservesNothing DEF ReconcilesInv, LogsInv
    <3>2. ~Entered'
      BY <2>2, <1>2, WriterIs DEF Entered, AtRest
    <3>3. CASE due = <<>>
      BY <2>2, <3>1, <3>2, <3>3, <1>1, UnreservedIs DEF BalanceInv
    <3>4. CASE due # <<>>
      <4>1. Head(due) = due[1] /\ due[1].type \in Types
        BY <3>4 DEF ReconcilesInv, DueInv
      <4>2. account' = Replayed(due[1].type, Replay(file), due[1].fact)
        BY <2>2, <3>4, <4>1, <1>1
      <4>3. IsAccount(account') /\ account'.margin = 0
        BY <3>1, <4>1, <4>2, FactCountsOnce
      <4>4. Unreserved(account') = account'
        BY <4>3, UnreservedIs
      <4>5. QED
        BY <3>2, <3>4, <4>2, <4>3, <4>4, <1>1 DEF BalanceInv
    <3>5. QED
      BY <3>3, <3>4
  <2>3. QED
    BY <2>1, <2>2
<1>7. QED
  BY <1>3, <1>4, <1>5, <1>6, CrashKeepsTurns DEF ReconcilesInv

-----------------------------------------------------------------------------
LEMMA ReconcilesStep ==
    AuditAssumption /\ ReconcilesInv /\ [AuditNext]_auditVars => ReconcilesInv'
<1> SUFFICES ASSUME AuditAssumption, ReconcilesInv, [AuditNext]_auditVars PROVE ReconcilesInv'
  OBVIOUS
<1>1. ASSUME NEW f \in FillFact, Open(f) PROVE ReconcilesInv'
  BY <1>1, AppliesKeepsReconciles DEF Open, Types
<1>2. ASSUME NEW f \in FillFact, NEW today \in BOOLEAN, Close(f, today) PROVE ReconcilesInv'
  <2>1. PICK type \in Types : Applies(Event(type, f))
    BY <1>2 DEF Close, Types
  <2>2. QED
    BY <2>1, AppliesKeepsReconciles
<1>3. ASSUME NEW date \in Date, NEW price \in Mark, MarkAndSettle(date, price) PROVE ReconcilesInv'
  BY <1>3, AppliesKeepsReconciles DEF MarkAndSettle, Types
<1>4. ASSUME NEW amount \in Amount, Reserve(amount) \/ Release(amount) PROVE ReconcilesInv'
  BY <1>4, MarginKeepsReconciles
<1>5. ASSUME NEW w \in Writer, WriteFails(w) PROVE ReconcilesInv'
  BY <1>5, WriterIs, TraderWriteFails, ClerkWriteFails
<1>6. ASSUME NEW w \in Writer, Return(w) PROVE ReconcilesInv'
  BY <1>6, WriterIs, TraderReturns, ClerkReturns
<1>7. ASSUME UNCHANGED auditVars PROVE ReconcilesInv'
  <2>1. UNCHANGED <<account, due, exists, file, memory, locked, writing>>
    BY <1>7 DEF auditVars
  <2>2. TurnsInv'
    BY <2>1 DEF ReconcilesInv, TurnsInv, InTurn, TraderCalls, ClerkCalls
  <2>3. QED
    BY <2>1, <2>2 DEF ReconcilesInv, DueInv, LogsInv, AbsentInv, PlacesInv, BalanceInv, Entered
<1>8. QED
  BY <1>1, <1>2, <1>3, <1>4, <1>5, <1>6, <1>7, AppendDueKeepsReconciles, CorrectFactKeepsReconciles,
     RecordEpisodeKeepsReconciles, WriteKeepsReconciles, CrashKeepsReconciles DEF AuditNext

(***************************************************************************)
(* The file replays to the account, or to the account before the one fact  *)
(* that is still due; a call under way goes on from the file as it is, since*)
(* it reloads under the lock; a fact recorded twice counts once.           *)
(***************************************************************************)
THEOREM AuditReconcilesInductive == AuditSpec => []ReconcilesInv
<1>1. AuditInit => ReconcilesInv
  BY AuditAssumption, ReconcilesInit
<1>2. ReconcilesInv /\ [AuditNext]_auditVars => ReconcilesInv'
  BY AuditAssumption, ReconcilesStep
<1>3. QED
  BY <1>1, <1>2, PTL DEF AuditSpec

(***************************************************************************)
(* When nothing is left to append, a replay of the file gives the trader   *)
(* its account, for any fills, prices, other writers, crashes and failed   *)
(* writes.  (DurableAuditLog.replay and reconcile.)                        *)
(***************************************************************************)
THEOREM AuditReconciles == AuditSpec => []Reconciles
<1>1. ReconcilesInv => Reconciles
  BY QuietIsNotEntered DEF ReconcilesInv, BalanceInv, Reconciles, Quiet, Unreserved
<1>2. QED
  BY <1>1, AuditReconcilesInductive, PTL

-----------------------------------------------------------------------------
(***************************************************************************)
(* Sums of sequences: of nothing, of one more, of two at once, and of one  *)
(* number changed.  A sum is what every way of adding up from the left     *)
(* arrives at (SummedIs), so each law exhibits one.                        *)
(***************************************************************************)
Numbers(s) == IsLog(s) /\ \A i \in 1..Len(s) : s[i] \in Int
Adds(upto, s, last) == upto = [n \in 0..last |-> IF n = 0 THEN 0 ELSE upto[n - 1] + s[n]]

LEMMA SummedIsChosen ==
    ASSUME NEW s
    PROVE  Summed(s) = (CHOOSE upto : Adds(upto, s, Len(s)))[Len(s)]
  BY DEF Summed, Adds

LEMMA AddsExists ==
    ASSUME NEW s, NEW last \in Nat
    PROVE  \E upto : Adds(upto, s, last)
<1> DEFINE P == {n \in Nat : \E upto : Adds(upto, s, n)}
<1>1. 0 \in P
  <2>1. Adds([n \in 0..0 |-> 0], s, 0)
    BY DEF Adds
  <2> QED BY <2>1
<1>2. ASSUME NEW n \in P PROVE n + 1 \in P
  <2>1. n \in Nat
    OBVIOUS
  <2>2. PICK f : Adds(f, s, n)
    OBVIOUS
  <2> DEFINE g == [k \in 0..(n + 1) |-> IF k = n + 1 THEN f[n] + s[n + 1] ELSE f[k]]
  <2>3. ASSUME NEW k \in 0..(n + 1)
        PROVE  g[k] = IF k = 0 THEN 0 ELSE g[k - 1] + s[k]
    <3>1. CASE k = 0
      <4>1. f[0] = 0
        BY <2>1, <2>2 DEF Adds
      <4> QED BY <3>1, <4>1, <2>1
    <3>2. CASE k \in 1..n
      <4>1. f[k] = f[k - 1] + s[k]
        BY <2>1, <2>2, <3>2 DEF Adds
      <4>2. g[k] = f[k] /\ g[k - 1] = f[k - 1] /\ k # 0
        BY <2>1, <3>2
      <4> QED BY <4>1, <4>2
    <3>3. CASE k = n + 1
      <4>1. g[k] = f[n] + s[k] /\ g[k - 1] = f[n] /\ k # 0
        BY <2>1, <3>3
      <4> QED BY <4>1
    <3> QED BY <2>1, <3>1, <3>2, <3>3
  <2>4. g = [k \in 0..(n + 1) |-> g[k]]
    OBVIOUS
  <2> HIDE DEF g
  <2>5. Adds(g, s, n + 1)
    BY <2>3, <2>4 DEF Adds
  <2> QED BY <2>1, <2>5
<1> HIDE DEF P
<1>3. P \in SUBSET Nat
  BY DEF P
<1>4. P = Nat
  BY <1>1, <1>2, <1>3, Induction
<1> QED BY <1>4 DEF P

LEMMA SummedAdds ==
    ASSUME NEW s, Len(s) \in Nat
    PROVE  \E upto : Adds(upto, s, Len(s)) /\ Summed(s) = upto[Len(s)]
<1> DEFINE upto == CHOOSE f : Adds(f, s, Len(s))
<1>1. \E f : Adds(f, s, Len(s))
  BY AddsExists
<1>2. Adds(upto, s, Len(s))
  BY <1>1, Zenon
<1>3. Summed(s) = upto[Len(s)]
  BY SummedIsChosen, Zenon
<1> HIDE DEF upto
<1> QED BY <1>2, <1>3

\* Whatever starts at zero and grows by the numbers in turn ends at their sum.
Climbs(g, s) == g[0] = 0 /\ \A k \in 1..Len(s) : g[k] = g[k - 1] + s[k]

LEMMA SummedIs ==
    ASSUME NEW s, Len(s) \in Nat, NEW g, Climbs(g, s)
    PROVE  Summed(s) = g[Len(s)]
<1>1. PICK upto : Adds(upto, s, Len(s)) /\ Summed(s) = upto[Len(s)]
  BY SummedAdds
<1> DEFINE P == {k \in Nat : k <= Len(s) => upto[k] = g[k]}
<1>2. 0 \in P
  <2>1. 0 \in 0..Len(s)
    OBVIOUS
  <2>2. upto[0] = 0
    BY <1>1, <2>1 DEF Adds
  <2> QED BY <2>2 DEF Climbs
<1>3. ASSUME NEW k \in P PROVE k + 1 \in P
  <2>1. SUFFICES ASSUME k + 1 <= Len(s) PROVE upto[k + 1] = g[k + 1]
    OBVIOUS
  <2>2. k \in Nat /\ k + 1 \in 0..Len(s) /\ k + 1 \in 1..Len(s) /\ (k + 1) - 1 = k /\ k + 1 # 0 /\ k <= Len(s)
    BY <2>1
  <2>3. upto[k + 1] = upto[k] + s[k + 1]
    BY <1>1, <2>2 DEF Adds
  <2>4. g[k + 1] = g[k] + s[k + 1]
    BY <2>2 DEF Climbs
  <2> QED BY <2>2, <2>3, <2>4
<1> HIDE DEF P
<1>4. P \in SUBSET Nat
  BY DEF P
<1>5. P = Nat
  BY <1>2, <1>3, <1>4, Induction
<1> QED BY <1>1, <1>5 DEF P

\* The partial sums of whole numbers are whole numbers.
LEMMA SummedClimbs ==
    ASSUME NEW s, Numbers(s)
    PROVE  \E g \in [0..Len(s) -> Int] : Climbs(g, s) /\ Summed(s) = g[Len(s)]
<1>0. Len(s) \in Nat
  BY DEF Numbers, IsLog
<1>1. PICK upto : Adds(upto, s, Len(s)) /\ Summed(s) = upto[Len(s)]
  BY <1>0, SummedAdds
<1>2. Climbs(upto, s)
  <2>1. 0 \in 0..Len(s) /\ \A k \in 1..Len(s) : k \in 0..Len(s) /\ k # 0
    BY <1>0
  <2> QED BY <1>1, <2>1 DEF Adds, Climbs
<1> DEFINE P == {k \in Nat : k <= Len(s) => upto[k] \in Int}
<1>3. 0 \in P
  BY <1>2 DEF Climbs
<1>4. ASSUME NEW k \in P PROVE k + 1 \in P
  <2>1. SUFFICES ASSUME k + 1 <= Len(s) PROVE upto[k + 1] \in Int
    OBVIOUS
  <2>2. k \in Nat /\ k + 1 \in 1..Len(s) /\ (k + 1) - 1 = k /\ k <= Len(s)
    BY <2>1, <1>0
  <2>3. upto[k + 1] = upto[k] + s[k + 1] /\ s[k + 1] \in Int
    BY <1>2, <2>2 DEF Climbs, Numbers
  <2> QED BY <2>2, <2>3
<1> HIDE DEF P
<1>5. P \in SUBSET Nat
  BY DEF P
<1>6. P = Nat
  BY <1>3, <1>4, <1>5, Induction
<1>7. \A k \in 0..Len(s) : upto[k] \in Int
  BY <1>0, <1>6 DEF P
<1>8. upto = [k \in 0..Len(s) |-> upto[k]]
  BY <1>1 DEF Adds
<1>9. upto \in [0..Len(s) -> Int]
  BY <1>7, <1>8
<1> QED BY <1>1, <1>2, <1>9

LEMMA SummedInt ==
    ASSUME NEW s, Numbers(s)
    PROVE  Summed(s) \in Int
<1>1. Len(s) \in 0..Len(s)
  BY DEF Numbers, IsLog
<1> QED BY <1>1, SummedClimbs

LEMMA SummedOfNothing ==
    ASSUME NEW s, IsLog(s), \A i \in 1..Len(s) : s[i] = 0
    PROVE  Summed(s) = 0
<1> DEFINE g == [k \in 0..Len(s) |-> 0]
<1>1. Len(s) \in Nat
  BY DEF IsLog
<1>2. Climbs(g, s)
  <2>1. ASSUME NEW k \in 1..Len(s) PROVE g[k] = g[k - 1] + s[k]
    BY <1>1
  <2> QED BY <1>1, <2>1 DEF Climbs
<1>3. g[Len(s)] = 0
  BY <1>1
<1> HIDE DEF g
<1> QED BY <1>1, <1>2, <1>3, SummedIs

\* One more number at the end.
LEMMA SummedOneMore ==
    ASSUME NEW s, Numbers(s), NEW t, Numbers(t), Len(t) = Len(s) + 1,
           \A i \in 1..Len(s) : t[i] = s[i]
    PROVE  Summed(t) = Summed(s) + t[Len(t)]
<1>1. PICK f \in [0..Len(s) -> Int] : Climbs(f, s) /\ Summed(s) = f[Len(s)]
  BY SummedClimbs
<1> DEFINE g == [k \in 0..Len(t) |-> IF k = Len(t) THEN f[Len(s)] + t[Len(t)] ELSE f[k]]
<1>2. Len(s) \in Nat /\ Len(t) \in Nat
  BY DEF Numbers, IsLog
<1>3. Climbs(g, t)
  <2>1. ASSUME NEW k \in 1..Len(t) PROVE g[k] = g[k - 1] + t[k]
    <3>1. CASE k = Len(t)
      <4>1. g[k] = f[Len(s)] + t[k] /\ g[k - 1] = f[Len(s)]
        BY <1>2, <3>1
      <4> QED BY <4>1
    <3>2. CASE k # Len(t)
      <4>1. k \in 1..Len(s) /\ k \in 0..Len(t) /\ k - 1 \in 0..Len(t) /\ k - 1 # Len(t)
        BY <1>2, <3>2
      <4>2. f[k] = f[k - 1] + s[k] /\ t[k] = s[k]
        BY <1>1, <4>1 DEF Climbs
      <4> QED BY <3>2, <4>1, <4>2
    <3> QED BY <3>1, <3>2
  <2>2. g[0] = 0
    BY <1>1, <1>2 DEF Climbs
  <2> QED BY <2>1, <2>2 DEF Climbs
<1>4. g[Len(t)] = Summed(s) + t[Len(t)]
  BY <1>1, <1>2
<1> HIDE DEF g
<1> QED BY <1>2, <1>3, <1>4, SummedIs

\* Two sequences added number by number.
LEMMA SummedTogether ==
    ASSUME NEW s, Numbers(s), NEW t, Numbers(t), NEW u, Numbers(u),
           Len(t) = Len(s), Len(u) = Len(s), \A i \in 1..Len(s) : u[i] = s[i] + t[i]
    PROVE  Summed(u) = Summed(s) + Summed(t)
<1>1. PICK f \in [0..Len(s) -> Int] : Climbs(f, s) /\ Summed(s) = f[Len(s)]
  BY SummedClimbs
<1>2. PICK h \in [0..Len(s) -> Int] : Climbs(h, t) /\ Summed(t) = h[Len(s)]
  BY SummedClimbs
<1> DEFINE g == [k \in 0..Len(s) |-> f[k] + h[k]]
<1>3. Len(s) \in Nat
  BY DEF Numbers, IsLog
<1>4. Climbs(g, u)
  <2>1. ASSUME NEW k \in 1..Len(s) PROVE g[k] = g[k - 1] + u[k]
    <3>1. k \in 0..Len(s) /\ k - 1 \in 0..Len(s)
      BY <1>3
    <3>2. f[k] = f[k - 1] + s[k] /\ h[k] = h[k - 1] + t[k] /\ u[k] = s[k] + t[k]
      BY <1>1, <1>2 DEF Climbs
    <3>3. /\ f[k - 1] \in Int /\ h[k - 1] \in Int /\ s[k] \in Int /\ t[k] \in Int
          /\ g[k] = f[k] + h[k] /\ g[k - 1] = f[k - 1] + h[k - 1]
      BY <3>1 DEF Numbers
    <3> QED BY <3>2, <3>3
  <2>2. g[0] = 0
    BY <1>1, <1>2, <1>3 DEF Climbs
  <2> QED BY <2>1, <2>2 DEF Climbs
<1>5. g[Len(s)] = Summed(s) + Summed(t)
  BY <1>1, <1>2, <1>3
<1> HIDE DEF g
<1> QED BY <1>3, <1>4, <1>5, SummedIs

\* One number moved.
LEMMA SummedOneMoved ==
    ASSUME NEW s, Numbers(s), NEW t, Numbers(t), Len(t) = Len(s),
           NEW i \in 1..Len(s), NEW d \in Int, t[i] = s[i] + d,
           \A j \in 1..Len(s) : j # i => t[j] = s[j]
    PROVE  Summed(t) = Summed(s) + d
<1>1. PICK f \in [0..Len(s) -> Int] : Climbs(f, s) /\ Summed(s) = f[Len(s)]
  BY SummedClimbs
<1> DEFINE g == [k \in 0..Len(s) |-> IF i <= k THEN f[k] + d ELSE f[k]]
<1>2. Len(s) \in Nat /\ i \in Nat /\ 0 < i /\ i <= Len(s)
  BY DEF Numbers, IsLog
<1>3. Climbs(g, t)
  <2>1. ASSUME NEW k \in 1..Len(s) PROVE g[k] = g[k - 1] + t[k]
    <3>1. k \in 0..Len(s) /\ k - 1 \in 0..Len(s)
      BY <1>2
    <3>2. f[k] = f[k - 1] + s[k]
      BY <1>1 DEF Climbs
    <3>3. f[k - 1] \in Int /\ s[k] \in Int
      BY <3>1 DEF Numbers
    <3>4. CASE k < i
      BY <1>2, <3>1, <3>2, <3>3, <3>4
    <3>5. CASE k = i
      <4>1. g[k] = f[k] + d /\ g[k - 1] = f[k - 1] /\ t[k] = s[k] + d
        BY <1>2, <3>1, <3>5
      <4> QED BY <3>2, <3>3, <4>1
    <3>6. CASE i < k
      <4>1. g[k] = f[k] + d /\ g[k - 1] = f[k - 1] + d /\ t[k] = s[k]
        BY <1>2, <3>1, <3>6
      <4> QED BY <3>2, <3>3, <4>1
    <3> QED BY <1>2, <3>4, <3>5, <3>6
  <2>2. g[0] = 0
    BY <1>1, <1>2 DEF Climbs
  <2> QED BY <2>1, <2>2 DEF Climbs
<1>4. g[Len(s)] = Summed(s) + d
  BY <1>1, <1>2
<1> HIDE DEF g
<1> QED BY <1>2, <1>3, <1>4, SummedIs

-----------------------------------------------------------------------------
(***************************************************************************)
(* The lots of an account, and what closing some of them leaves.           *)
(***************************************************************************)
Sides == {"LONG", "SHORT"}
IsLot(l) ==
    /\ l = [fill |-> l.fill, direction |-> l.direction, quantity |-> l.quantity,
            price |-> l.price, date |-> l.date]
    /\ l.direction \in Sides /\ l.quantity \in Nat /\ l.price \in Int
IsLots(lots) == IsLog(lots) /\ \A i \in 1..Len(lots) : IsLot(lots[i])
IsFill(f) ==
    /\ f = [id |-> f.id, direction |-> f.direction, quantity |-> f.quantity,
            price |-> f.price, fee |-> f.fee, date |-> f.date]
    /\ f.direction \in Sides /\ f.quantity \in Nat /\ f.price \in Int /\ f.fee \in Int

Worth(l, mark) == (mark - l.price) * l.quantity * Sign(l.direction)
Value(lots, mark) == Summed(Valued(lots, mark))

LEMMA SignIs == \A d : Sign(d) \in {-1, 1}
  BY DEF Sign

LEMMA WorthInt == ASSUME NEW l, IsLot(l), NEW mark \in Int PROVE Worth(l, mark) \in Int
<1>1. mark - l.price \in Int /\ l.quantity \in Int /\ Sign(l.direction) \in Int
  BY SignIs DEF IsLot
<1>2. (mark - l.price) * l.quantity \in Int
  BY <1>1
<1> QED BY <1>1, <1>2 DEF Worth

LEMMA ValuedIs ==
    ASSUME NEW lots, IsLots(lots), NEW mark \in Int
    PROVE  /\ Numbers(Valued(lots, mark)) /\ Len(Valued(lots, mark)) = Len(lots)
           /\ \A i \in 1..Len(lots) : Valued(lots, mark)[i] = Worth(lots[i], mark)
           /\ Value(lots, mark) \in Int
<1>1. DOMAIN lots = 1..Len(lots) /\ Len(lots) \in Nat
  BY DEF IsLots, IsLog
<1>2. Valued(lots, mark) = [i \in 1..Len(lots) |-> Worth(lots[i], mark)]
  BY <1>1 DEF Valued, Worth
<1>3. \A i \in 1..Len(lots) : Worth(lots[i], mark) \in Int
  BY WorthInt DEF IsLots
<1>4. Valued(lots, mark) \in Seq(Int) /\ Len(Valued(lots, mark)) = Len(lots)
  BY <1>1, <1>2, <1>3
<1>5. Numbers(Valued(lots, mark))
  BY <1>1, <1>2, <1>3, <1>4 DEF Numbers, IsLog
<1> QED BY <1>2, <1>4, <1>5, SummedInt DEF Value

LEMMA OneMoreLot ==
    ASSUME NEW lots, IsLots(lots), NEW l, IsLot(l), NEW mark \in Int
    PROVE  /\ IsLots(Append(lots, l))
           /\ Value(Append(lots, l), mark) = Value(lots, mark) + Worth(l, mark)
<1> DEFINE longer == Append(lots, l)
<1>0. IsLog(lots) /\ Len(lots) \in Nat
  BY DEF IsLots, IsLog
<1>1. /\ IsLog(longer) /\ Len(longer) = Len(lots) + 1
      /\ \A i \in 1..Len(lots) : longer[i] = lots[i]
      /\ longer[Len(lots) + 1] = l
  BY <1>0, Longer
<1> HIDE DEF longer
<1>2. IsLots(longer)
  <2>1. ASSUME NEW i \in 1..Len(longer) PROVE IsLot(longer[i])
    <3>1. i \in 1..Len(lots) \/ i = Len(lots) + 1
      BY <1>0, <1>1
    <3> QED BY <1>1, <3>1 DEF IsLots
  <2> QED BY <1>1, <2>1 DEF IsLots
<1>3. /\ Numbers(Valued(lots, mark)) /\ Len(Valued(lots, mark)) = Len(lots)
      /\ \A i \in 1..Len(lots) : Valued(lots, mark)[i] = Worth(lots[i], mark)
  BY ValuedIs
<1>4. /\ Numbers(Valued(longer, mark)) /\ Len(Valued(longer, mark)) = Len(longer)
      /\ \A i \in 1..Len(longer) : Valued(longer, mark)[i] = Worth(longer[i], mark)
  BY <1>2, ValuedIs
<1>5. /\ \A i \in 1..Len(lots) : Valued(longer, mark)[i] = Valued(lots, mark)[i]
      /\ Valued(longer, mark)[Len(longer)] = Worth(l, mark)
  <2>1. \A i \in 1..Len(lots) : i \in 1..Len(longer)
    BY <1>0, <1>1
  <2>2. Len(lots) + 1 \in 1..Len(longer)
    BY <1>0, <1>1
  <2> QED BY <1>1, <1>3, <1>4, <2>1, <2>2
<1>6. Value(longer, mark) = Value(lots, mark) + Worth(l, mark)
  BY <1>1, <1>3, <1>4, <1>5, SummedOneMore DEF Value
<1> QED BY <1>2, <1>6 DEF longer

LEMMA NoLots == IsLots(<<>>) /\ \A mark \in Int : Value(<<>>, mark) = 0
<1>1. IsLog(<<>>) /\ Len(<<>>) = 0
  BY DEF IsLog
<1>2. IsLots(<<>>)
  BY <1>1 DEF IsLots
<1>3. ASSUME NEW mark \in Int PROVE Value(<<>>, mark) = 0
  <2>1. Numbers(Valued(<<>>, mark)) /\ Len(Valued(<<>>, mark)) = 0
    BY <1>1, <1>2, ValuedIs
  <2>2. IsLog(Valued(<<>>, mark)) /\ \A i \in 1..Len(Valued(<<>>, mark)) : Valued(<<>>, mark)[i] = 0
    BY <2>1 DEF Numbers
  <2> QED BY <2>2, SummedOfNothing DEF Value
<1> QED BY <1>2, <1>3

\* What settling at a price moves from the lots to the realized profit.
LEMMA SettledWorth ==
    ASSUME NEW l, IsLot(l), NEW mark \in Int, NEW price \in Int
    PROVE  /\ IsLot([l EXCEPT !.price = price])
           /\ Worth(l, mark) = Worth([l EXCEPT !.price = price], mark) + Worth(l, price)
<1> DEFINE m == [l EXCEPT !.price = price]
<1>1. IsLot(m) /\ m.price = price /\ m.quantity = l.quantity /\ m.direction = l.direction
  BY DEF IsLot
<1> HIDE DEF m
<1>2. PICK s \in {-1, 1} : s = Sign(l.direction)
  BY SignIs
<1>3. PICK p \in Int, q \in Int : p = l.price /\ q = l.quantity
  BY DEF IsLot
<1>4. (mark - p) * q * s = (mark - price) * q * s + (price - p) * q * s
  <2>1. (mark - p) * q = (mark - price) * q + (price - p) * q
    OBVIOUS
  <2>2. CASE s = 1
    BY <2>1, <2>2
  <2>3. CASE s = -1
    BY <2>1, <2>3
  <2> QED BY <2>2, <2>3
<1>5. Worth(l, mark) = Worth(m, mark) + Worth(l, price)
  BY <1>1, <1>2, <1>3, <1>4 DEF Worth
<1> QED BY <1>1, <1>5 DEF m

LEMMA RebasedWorth ==
    ASSUME NEW lots, IsLots(lots), NEW mark \in Int, NEW price \in Int
    PROVE  /\ IsLots(Rebased(lots, price))
           /\ Value(lots, mark) = Value(Rebased(lots, price), mark) + Value(lots, price)
<1> DEFINE rebased == Rebased(lots, price)
<1>1. DOMAIN lots = 1..Len(lots) /\ Len(lots) \in Nat
  BY DEF IsLots, IsLog
<1>2. rebased = [i \in 1..Len(lots) |-> [lots[i] EXCEPT !.price = price]]
  BY <1>1 DEF Rebased
<1>3. \A i \in 1..Len(lots) : IsLot(lots[i])
  BY DEF IsLots
<1>4. Len(rebased) = Len(lots)
  <2>1. rebased \in Seq({rebased[i] : i \in 1..Len(lots)})
    BY <1>1, <1>2
  <2> QED BY <1>1, <1>2, <2>1
<1>5. \A i \in 1..Len(lots) : rebased[i] = [lots[i] EXCEPT !.price = price]
  BY <1>2
<1>6. rebased = [i \in 1..Len(rebased) |-> rebased[i]]
  BY <1>2, <1>4
<1> HIDE DEF rebased
<1>7. ASSUME NEW i \in 1..Len(lots) PROVE IsLot(rebased[i])
  <2>1. IsLot(lots[i]) /\ rebased[i] = [lots[i] EXCEPT !.price = price]
    BY <1>3, <1>5
  <2> QED BY <2>1, SettledWorth
<1>8. IsLots(rebased)
  BY <1>1, <1>4, <1>6, <1>7 DEF IsLots, IsLog
<1>9. /\ Numbers(Valued(lots, mark)) /\ Len(Valued(lots, mark)) = Len(lots)
      /\ \A i \in 1..Len(lots) : Valued(lots, mark)[i] = Worth(lots[i], mark)
      /\ Numbers(Valued(lots, price)) /\ Len(Valued(lots, price)) = Len(lots)
      /\ \A i \in 1..Len(lots) : Valued(lots, price)[i] = Worth(lots[i], price)
  BY ValuedIs
<1>10. /\ Numbers(Valued(rebased, mark)) /\ Len(Valued(rebased, mark)) = Len(lots)
       /\ \A i \in 1..Len(lots) : Valued(rebased, mark)[i] = Worth(rebased[i], mark)
  BY <1>4, <1>8, ValuedIs
<1>11. \A i \in 1..Len(lots) : Worth(lots[i], mark) = Worth(rebased[i], mark) + Worth(lots[i], price)
  BY <1>3, <1>5, SettledWorth
<1>12. Value(lots, mark) = Value(rebased, mark) + Value(lots, price)
  <2>1. \A i \in 1..Len(lots) : Valued(lots, mark)[i] = Valued(rebased, mark)[i] + Valued(lots, price)[i]
    BY <1>9, <1>10, <1>11
  <2> QED BY <1>9, <1>10, <2>1, SummedTogether DEF Value
<1> QED BY <1>8, <1>12 DEF rebased

-----------------------------------------------------------------------------
(***************************************************************************)
(* _close_locked() as the solution of its recursion over the lots.         *)
(***************************************************************************)
Start(f) == [remaining |-> f.quantity, realized |-> 0, lots |-> <<>>]
Closes(upto, lots, f, today, last) ==
    upto = [n \in 0..last |-> IF n = 0 THEN Start(f) ELSE CloseLot(f, today, upto[n - 1], lots[n])]

LEMMA ClosedIsChosen ==
    ASSUME NEW lots, NEW f, NEW today
    PROVE  Closed(lots, f, today) = (CHOOSE upto : Closes(upto, lots, f, today, Len(lots)))[Len(lots)]
  BY DEF Closed, Closes, Start

LEMMA ClosesExists ==
    ASSUME NEW lots, NEW f, NEW today, NEW last \in Nat
    PROVE  \E upto : Closes(upto, lots, f, today, last)
<1> DEFINE P == {n \in Nat : \E upto : Closes(upto, lots, f, today, n)}
<1>1. 0 \in P
  <2>1. Closes([n \in 0..0 |-> Start(f)], lots, f, today, 0)
    BY DEF Closes
  <2> QED BY <2>1
<1>2. ASSUME NEW n \in P PROVE n + 1 \in P
  <2>1. n \in Nat
    OBVIOUS
  <2>2. PICK h : Closes(h, lots, f, today, n)
    OBVIOUS
  <2> DEFINE g == [k \in 0..(n + 1) |-> IF k = n + 1 THEN CloseLot(f, today, h[n], lots[n + 1]) ELSE h[k]]
  <2>3. ASSUME NEW k \in 0..(n + 1)
        PROVE  g[k] = IF k = 0 THEN Start(f) ELSE CloseLot(f, today, g[k - 1], lots[k])
    <3>1. CASE k = 0
      <4>1. h[0] = Start(f)
        BY <2>1, <2>2 DEF Closes
      <4> QED BY <3>1, <4>1, <2>1
    <3>2. CASE k \in 1..n
      <4>1. h[k] = CloseLot(f, today, h[k - 1], lots[k])
        BY <2>1, <2>2, <3>2 DEF Closes
      <4>2. g[k] = h[k] /\ g[k - 1] = h[k - 1] /\ k # 0
        BY <2>1, <3>2
      <4> QED BY <4>1, <4>2
    <3>3. CASE k = n + 1
      <4>1. g[k] = CloseLot(f, today, h[k - 1], lots[k]) /\ g[k - 1] = h[k - 1] /\ k # 0
        BY <2>1, <3>3
      <4> QED BY <4>1
    <3> QED BY <2>1, <3>1, <3>2, <3>3
  <2>4. g = [k \in 0..(n + 1) |-> g[k]]
    OBVIOUS
  <2> HIDE DEF g
  <2>5. Closes(g, lots, f, today, n + 1)
    BY <2>3, <2>4 DEF Closes
  <2> QED BY <2>1, <2>5
<1> HIDE DEF P
<1>3. P \in SUBSET Nat
  BY DEF P
<1>4. P = Nat
  BY <1>1, <1>2, <1>3, Induction
<1> QED BY <1>4 DEF P

LEMMA ClosedIs ==
    ASSUME NEW lots, NEW f, NEW today, Len(lots) \in Nat
    PROVE  \E upto : Closes(upto, lots, f, today, Len(lots)) /\ Closed(lots, f, today) = upto[Len(lots)]
<1> DEFINE upto == CHOOSE g : Closes(g, lots, f, today, Len(lots))
<1>1. \E g : Closes(g, lots, f, today, Len(lots))
  BY ClosesExists
<1>2. Closes(upto, lots, f, today, Len(lots))
  BY <1>1, Zenon
<1>3. Closed(lots, f, today) = upto[Len(lots)]
  BY ClosedIsChosen, Zenon
<1> HIDE DEF upto
<1> QED BY <1>2, <1>3

-----------------------------------------------------------------------------
(***************************************************************************)
(* What a fill has brought in, of n of its contracts.                      *)
(***************************************************************************)
Profit(f, n, mark) == (mark - f.price) * n * Sign(f.direction)

LEMMA ProfitAdds ==
    ASSUME NEW f, IsFill(f), NEW mark \in Int, NEW m \in Int, NEW n \in Int
    PROVE  /\ Profit(f, m, mark) \in Int /\ Profit(f, 0, mark) = 0
           /\ Profit(f, m + n, mark) = Profit(f, m, mark) + Profit(f, n, mark)
<1>1. PICK s \in {-1, 1} : s = Sign(f.direction)
  BY SignIs
<1>2. PICK c \in Int : c = mark - f.price
  BY DEF IsFill
<1>3. c * m \in Int /\ c * n \in Int /\ c * 0 = 0 /\ c * (m + n) = c * m + c * n
  OBVIOUS
<1>4. (c * m) * s \in Int /\ (c * 0) * s = 0 /\ (c * (m + n)) * s = (c * m) * s + (c * n) * s
  <2>1. CASE s = 1
    BY <1>3, <2>1
  <2>2. CASE s = -1
    BY <1>3, <2>2
  <2> QED BY <2>1, <2>2
<1> QED BY <1>1, <1>2, <1>4 DEF Profit

\* One lot, and as much of it as is closed.
LEMMA PartlyClosed ==
    ASSUME NEW f, IsFill(f), NEW l, IsLot(l), NEW m \in 0..l.quantity, NEW mark \in Int,
           m = 0 \/ l.direction # f.direction
    PROVE  LET rest == [l EXCEPT !.quantity = @ - m]
               gain == (f.price - l.price) * m * Sign(l.direction)
           IN  /\ IsLot(rest) /\ gain \in Int /\ rest.quantity = l.quantity - m
               /\ rest.quantity = 0 => Worth(rest, mark) = 0
               /\ Worth(rest, mark) + gain = Worth(l, mark) + Profit(f, m, mark)
<1> DEFINE rest == [l EXCEPT !.quantity = @ - m]
           gain == (f.price - l.price) * m * Sign(l.direction)
<1>1. /\ IsLot(rest) /\ rest.price = l.price /\ rest.quantity = l.quantity - m
      /\ rest.direction = l.direction
  BY DEF IsLot
<1> HIDE DEF rest
<1>2. PICK p \in Int, q \in Nat, r \in Int : p = l.price /\ q = l.quantity /\ r = f.price
  BY DEF IsLot, IsFill
<1>3. PICK s \in {-1, 1} : s = Sign(l.direction)
  BY SignIs
<1>4. PICK t \in {-1, 1} : t = Sign(f.direction)
  BY SignIs
<1>5. m \in Int /\ (m = 0 \/ t = -s)
  <2>1. l.direction # f.direction => t = -s
    BY <1>3, <1>4 DEF Sign, IsLot, IsFill, Sides
  <2> QED BY <2>1, <1>2
<1>6. (mark - p) * (q - m) + (r - p) * m = (mark - p) * q - (mark - r) * m
  <2>1. (mark - p) * (q - m) = (mark - p) * q - (mark - p) * m
    BY <1>5
  <2>2. (mark - p) * m = (mark - r) * m + (r - p) * m
    BY <1>5
  <2>3. (mark - p) * q \in Int /\ (mark - p) * m \in Int /\ (mark - r) * m \in Int /\ (r - p) * m \in Int
    BY <1>5
  <2> QED BY <2>1, <2>2, <2>3
<1>7. /\ ((r - p) * m) * s \in Int
      /\ ((mark - p) * (q - m)) * s + ((r - p) * m) * s = ((mark - p) * q) * s + ((mark - r) * m) * t
  <2>1. /\ (mark - p) * q \in Int /\ (mark - r) * m \in Int /\ (r - p) * m \in Int
        /\ (mark - p) * (q - m) \in Int
    BY <1>5
  <2>2. m = 0 => (mark - r) * m = 0
    BY <1>5
  <2>3. CASE s = 1
    <3>1. CASE t = 1
      BY <1>5, <1>6, <2>1, <2>2, <2>3, <3>1
    <3>2. CASE t = -1
      BY <1>6, <2>1, <2>3, <3>2
    <3> QED BY <3>1, <3>2
  <2>4. CASE s = -1
    <3>1. CASE t = -1
      BY <1>5, <1>6, <2>1, <2>2, <2>4, <3>1
    <3>2. CASE t = 1
      BY <1>6, <2>1, <2>4, <3>2
    <3> QED BY <3>1, <3>2
  <2> QED BY <2>3, <2>4
<1>8. /\ Worth(rest, mark) = ((mark - p) * (q - m)) * s /\ gain = ((r - p) * m) * s
      /\ Worth(l, mark) = ((mark - p) * q) * s /\ Profit(f, m, mark) = ((mark - r) * m) * t
  BY <1>1, <1>2, <1>3, <1>4 DEF Worth, Profit
<1>9. rest.quantity = 0 => Worth(rest, mark) = 0
  <2>1. (mark - p) * 0 = 0 /\ 0 * s = 0
    OBVIOUS
  <2> QED BY <1>1, <1>2, <1>8, <2>1
<1> QED BY <1>1, <1>7, <1>8, <1>9 DEF rest

Taken(f, today, l) == IF Closable(f, today, l) THEN l.quantity ELSE 0
Closing(acc) == acc.remaining \in Nat /\ acc.realized \in Int /\ IsLots(acc.lots)

LEMMA LotClosed ==
    ASSUME NEW f, IsFill(f), NEW today, NEW acc, Closing(acc), NEW l, IsLot(l), NEW mark \in Int,
           NEW next, next = CloseLot(f, today, acc, l)
    PROVE  /\ Closing(next)
           /\ next.remaining = acc.remaining - LeastOf(Taken(f, today, l), acc.remaining)
           /\ Value(next.lots, mark) + next.realized =
                  Value(acc.lots, mark) + acc.realized + Worth(l, mark)
                  + Profit(f, acc.remaining - next.remaining, mark)
<1> DEFINE m == IF Closable(f, today, l) THEN LeastOf(l.quantity, acc.remaining) ELSE 0
           rest == [l EXCEPT !.quantity = @ - m]
           gain == (f.price - l.price) * m * Sign(l.direction)
<1>1. /\ m \in 0..l.quantity /\ m <= acc.remaining
      /\ m = 0 \/ l.direction # f.direction
      /\ m = LeastOf(Taken(f, today, l), acc.remaining)
  BY DEF Closable, LeastOf, Taken, IsLot, Closing
<1>2. /\ next.remaining = acc.remaining - m
      /\ next.realized = acc.realized + gain
      /\ next.lots = IF rest.quantity = 0 THEN acc.lots ELSE Append(acc.lots, rest)
  BY DEF CloseLot
<1> HIDE DEF m
<1>3. /\ IsLot(rest) /\ gain \in Int /\ rest.quantity = l.quantity - m
      /\ rest.quantity = 0 => Worth(rest, mark) = 0
      /\ Worth(rest, mark) + gain = Worth(l, mark) + Profit(f, m, mark)
  BY <1>1, PartlyClosed
<1> HIDE DEF rest, gain
<1>4. IsLots(next.lots) /\ Value(next.lots, mark) = Value(acc.lots, mark) + Worth(rest, mark)
  <2>1. IsLots(acc.lots) /\ Value(acc.lots, mark) \in Int
    BY ValuedIs DEF Closing
  <2>2. CASE rest.quantity = 0
    BY <1>2, <1>3, <2>1, <2>2
  <2>3. CASE rest.quantity # 0
    BY <1>2, <1>3, <2>1, <2>3, OneMoreLot
  <2> QED BY <2>2, <2>3
<1>5. /\ acc.remaining \in Nat /\ acc.realized \in Int /\ m \in Nat
      /\ Value(acc.lots, mark) \in Int /\ Worth(l, mark) \in Int /\ Worth(rest, mark) \in Int
      /\ Profit(f, m, mark) \in Int
  BY <1>1, <1>3, ValuedIs, WorthInt, ProfitAdds DEF Closing
<1>6. acc.remaining - next.remaining = m /\ next.remaining \in Nat
  BY <1>1, <1>2, <1>5
<1>7. Closing(next)
  BY <1>2, <1>3, <1>4, <1>5, <1>6 DEF Closing
<1>8. Value(next.lots, mark) + next.realized =
          Value(acc.lots, mark) + acc.realized + Worth(l, mark) + Profit(f, m, mark)
  BY <1>2, <1>3, <1>4, <1>5
<1> QED BY <1>1, <1>2, <1>6, <1>7, <1>8

Availables(lots, f, today) ==
    [i \in DOMAIN lots |-> IF Closable(f, today, lots[i]) THEN lots[i].quantity ELSE 0]

LEMMA AvailableIs ==
    ASSUME NEW lots, IsLots(lots), NEW f, NEW today
    PROVE  /\ Available(lots, f, today) = Summed(Availables(lots, f, today))
           /\ Numbers(Availables(lots, f, today)) /\ Len(Availables(lots, f, today)) = Len(lots)
           /\ \A i \in 1..Len(lots) : /\ Availables(lots, f, today)[i] = Taken(f, today, lots[i])
                                      /\ Taken(f, today, lots[i]) \in Nat
<1> DEFINE s == Availables(lots, f, today)
<1>1. DOMAIN lots = 1..Len(lots) /\ Len(lots) \in Nat
  BY DEF IsLots, IsLog
<1>2. s = [i \in 1..Len(lots) |-> Taken(f, today, lots[i])]
  BY <1>1 DEF Availables, Taken
<1>3. \A i \in 1..Len(lots) : Taken(f, today, lots[i]) \in Nat
  BY DEF IsLots, IsLot, Taken
<1>4. s \in Seq(Nat) /\ Len(s) = Len(lots)
  BY <1>1, <1>2, <1>3
<1>5. Numbers(s)
  BY <1>1, <1>2, <1>3, <1>4 DEF Numbers, IsLog
<1>6. Available(lots, f, today) = Summed(s)
  BY DEF Available, Availables
<1> QED BY <1>2, <1>3, <1>4, <1>5, <1>6

\* What is closed of a fill is what there was to close of it, and the profit
\* that it realizes, with the worth of the lots it leaves, is what the lots
\* were worth and what it has brought in.
LEMMA ClosedBrings ==
    ASSUME NEW lots, IsLots(lots), NEW f, IsFill(f), NEW today, NEW mark \in Int,
           ~ (f.quantity > Available(lots, f, today))
    PROVE  /\ Closed(lots, f, today).realized \in Int /\ IsLots(Closed(lots, f, today).lots)
           /\ Value(Closed(lots, f, today).lots, mark) + Closed(lots, f, today).realized
                  = Value(lots, mark) + Brought(f, mark)
<1> DEFINE N == Len(lots)
           Q == f.quantity
<1>0. N \in Nat /\ Q \in Nat /\ \A i \in 1..N : IsLot(lots[i])
  BY DEF IsLots, IsLog, IsFill
<1>1. PICK upto : Closes(upto, lots, f, today, N) /\ Closed(lots, f, today) = upto[N]
  BY <1>0, ClosedIs
<1>2. PICK av \in [0..N -> Int] : /\ Climbs(av, Availables(lots, f, today))
                                  /\ Available(lots, f, today) = av[N]
  BY AvailableIs, SummedClimbs
<1>3. PICK val \in [0..N -> Int] : Climbs(val, Valued(lots, mark)) /\ Value(lots, mark) = val[N]
  BY ValuedIs, SummedClimbs DEF Value
<1> DEFINE Kept(k) ==
              /\ Closing(upto[k])
              /\ upto[k].remaining = (IF av[k] < Q THEN Q - av[k] ELSE 0)
              /\ Value(upto[k].lots, mark) + upto[k].realized
                     = val[k] + Profit(f, Q - upto[k].remaining, mark)
              /\ av[k] >= 0
           P == {k \in Nat : k <= N => Kept(k)}
<1>4. 0 \in P
  <2>1. upto[0] = Start(f) /\ av[0] = 0 /\ val[0] = 0
    BY <1>0, <1>1, <1>2, <1>3 DEF Closes, Climbs
  <2>2. Start(f).remaining = Q /\ Start(f).realized = 0 /\ Start(f).lots = <<>>
    BY DEF Start
  <2>3. Closing(Start(f)) /\ Value(<<>>, mark) = 0
    BY <1>0, <2>2, NoLots DEF Closing
  <2>4. Profit(f, Q - Q, mark) = 0
    BY <1>0, ProfitAdds
  <2>5. Kept(0)
    BY <1>0, <2>1, <2>2, <2>3, <2>4
  <2> QED BY <2>5
<1>5. ASSUME NEW k \in P PROVE k + 1 \in P
  <2>1. SUFFICES ASSUME k + 1 <= N PROVE Kept(k + 1)
    BY <1>5
  <2>2. /\ k \in Nat /\ k <= N /\ k \in 0..N /\ k + 1 \in 0..N /\ k + 1 \in 1..N
        /\ k + 1 # 0 /\ (k + 1) - 1 = k
    BY <1>0, <2>1
  <2>3. Kept(k)
    BY <2>2
  <2> DEFINE acc == upto[k]
             l == lots[k + 1]
             next == upto[k + 1]
             taken == Taken(f, today, l)
  <2>4. next = CloseLot(f, today, acc, l) /\ IsLot(l)
    BY <1>0, <1>1, <2>2 DEF Closes
  <2>5. /\ av[k + 1] = av[k] + taken /\ taken \in Nat
        /\ val[k + 1] = val[k] + Worth(l, mark)
    <3>1. Availables(lots, f, today)[k + 1] = taken /\ Len(Availables(lots, f, today)) = N /\ taken \in Nat
      BY <2>2, AvailableIs
    <3>2. Valued(lots, mark)[k + 1] = Worth(l, mark) /\ Len(Valued(lots, mark)) = N
      BY <2>2, ValuedIs
    <3> QED BY <1>2, <1>3, <2>2, <3>1, <3>2 DEF Climbs
  <2>6. /\ Closing(acc) /\ acc.remaining = (IF av[k] < Q THEN Q - av[k] ELSE 0)
        /\ Value(acc.lots, mark) + acc.realized = val[k] + Profit(f, Q - acc.remaining, mark)
        /\ av[k] >= 0 /\ av[k] \in Int /\ val[k] \in Int
    BY <1>2, <1>3, <2>2, <2>3
  <2> HIDE DEF acc, next, l, taken
  <2>7. /\ Closing(next)
        /\ next.remaining = acc.remaining - LeastOf(taken, acc.remaining)
        /\ Value(next.lots, mark) + next.realized =
               Value(acc.lots, mark) + acc.realized + Worth(l, mark)
               + Profit(f, acc.remaining - next.remaining, mark)
    BY <2>4, <2>6, LotClosed DEF taken
  <2>8. /\ acc.remaining \in Nat /\ next.remaining \in Nat
        /\ next.remaining = (IF av[k] + taken < Q THEN Q - (av[k] + taken) ELSE 0)
        /\ av[k] + taken >= 0
    <3>1. acc.remaining \in Nat /\ next.remaining \in Nat
      BY <2>6, <2>7 DEF Closing
    <3>2. PICK a \in Int, t \in Nat, q \in Nat, r \in Nat :
              a = av[k] /\ t = taken /\ q = Q /\ r = acc.remaining
      BY <1>0, <2>5, <2>6, <3>1
    <3>3. r = (IF a < q THEN q - a ELSE 0) /\ a >= 0
      BY <2>6, <3>2
    <3>4. r - LeastOf(t, r) = (IF a + t < q THEN q - (a + t) ELSE 0)
      <4>1. a \in Int /\ t \in Nat /\ q \in Nat /\ r \in Nat
        OBVIOUS
      <4>2. CASE t < r
        <5>1. LeastOf(t, r) = t
          BY <4>2 DEF LeastOf
        <5> QED BY <3>3, <4>1, <4>2, <5>1
      <4>3. CASE ~ (t < r)
        <5>1. LeastOf(t, r) = r
          BY <4>3 DEF LeastOf
        <5> QED BY <3>3, <4>1, <4>3, <5>1
      <4> QED BY <4>2, <4>3
    <3> QED BY <2>7, <3>1, <3>2, <3>3, <3>4
  <2>9. Profit(f, Q - next.remaining, mark)
            = Profit(f, Q - acc.remaining, mark) + Profit(f, acc.remaining - next.remaining, mark)
    <3>1. /\ Q - acc.remaining \in Int /\ acc.remaining - next.remaining \in Int
          /\ (Q - acc.remaining) + (acc.remaining - next.remaining) = Q - next.remaining
      BY <1>0, <2>8
    <3>2. PICK m \in Int, n \in Int : m = Q - acc.remaining /\ n = acc.remaining - next.remaining
      BY <3>1
    <3>3. Profit(f, m + n, mark) = Profit(f, m, mark) + Profit(f, n, mark)
      BY ProfitAdds
    <3> QED BY <3>1, <3>2, <3>3
  <2>10. Value(next.lots, mark) + next.realized
             = (val[k] + Worth(l, mark)) + Profit(f, Q - next.remaining, mark)
    <3>1. /\ Profit(f, Q - acc.remaining, mark) \in Int
          /\ Profit(f, acc.remaining - next.remaining, mark) \in Int
      <4>1. PICK m \in Int, n \in Int : m = Q - acc.remaining /\ n = acc.remaining - next.remaining
        BY <1>0, <2>8
      <4>2. Profit(f, m, mark) \in Int /\ Profit(f, n, mark) \in Int
        BY ProfitAdds
      <4> QED BY <4>1, <4>2
    <3>2. Worth(l, mark) \in Int
      BY <2>4, WorthInt
    <3>3. Value(acc.lots, mark) \in Int /\ acc.realized \in Int
      BY <2>6, ValuedIs DEF Closing
    <3> QED BY <2>6, <2>7, <2>9, <3>1, <3>2, <3>3
  <2> QED BY <2>5, <2>7, <2>8, <2>10 DEF next
<1> HIDE DEF P
<1>6. P \in SUBSET Nat
  BY DEF P
<1>7. P = Nat
  BY <1>4, <1>5, <1>6, Induction
<1>8. Kept(N)
  BY <1>0, <1>7 DEF P
<1>9. upto[N].remaining = 0
  BY <1>0, <1>2, <1>8
<1>10. Profit(f, Q - 0, mark) = Brought(f, mark)
  BY <1>0 DEF Profit, Brought
<1> QED BY <1>1, <1>3, <1>8, <1>9, <1>10 DEF Closing

-----------------------------------------------------------------------------
(***************************************************************************)
(* Two versions of a fill that differ in nothing but the fee.              *)
(***************************************************************************)
ButForFee(f, g) ==
    /\ f.id = g.id /\ f.direction = g.direction /\ f.quantity = g.quantity
    /\ f.price = g.price /\ f.date = g.date

LEMMA CloseLotFeeless ==
    ASSUME NEW f, NEW g, ButForFee(f, g), NEW today, NEW acc, NEW l
    PROVE  CloseLot(f, today, acc, l) = CloseLot(g, today, acc, l)
<1>1. Closable(f, today, l) = Closable(g, today, l)
  BY DEF Closable, ButForFee
<1> QED BY <1>1 DEF CloseLot, ButForFee

LEMMA ClosedFeeless ==
    ASSUME NEW f, NEW g, ButForFee(f, g), NEW today, NEW lots, IsLots(lots)
    PROVE  /\ Closed(lots, f, today) = Closed(lots, g, today)
           /\ Available(lots, f, today) = Available(lots, g, today)
<1>0. Len(lots) \in Nat
  BY DEF IsLots, IsLog
<1>1. PICK x : Closes(x, lots, f, today, Len(lots)) /\ Closed(lots, f, today) = x[Len(lots)]
  BY <1>0, ClosedIs
<1>2. PICK y : Closes(y, lots, g, today, Len(lots)) /\ Closed(lots, g, today) = y[Len(lots)]
  BY <1>0, ClosedIs
<1> DEFINE P == {k \in Nat : k <= Len(lots) => x[k] = y[k]}
<1>3. 0 \in P
  <2>1. x[0] = Start(f) /\ y[0] = Start(g)
    BY <1>0, <1>1, <1>2 DEF Closes
  <2> QED BY <2>1 DEF Start, ButForFee
<1>4. ASSUME NEW k \in P PROVE k + 1 \in P
  <2>1. SUFFICES ASSUME k + 1 <= Len(lots) PROVE x[k + 1] = y[k + 1]
    OBVIOUS
  <2>2. k \in Nat /\ k <= Len(lots) /\ k + 1 \in 0..Len(lots) /\ k + 1 # 0 /\ (k + 1) - 1 = k
    BY <1>0, <2>1
  <2>3. x[k + 1] = CloseLot(f, today, x[k], lots[k + 1])
    BY <1>1, <2>2 DEF Closes
  <2>4. y[k + 1] = CloseLot(g, today, y[k], lots[k + 1])
    BY <1>2, <2>2 DEF Closes
  <2> QED BY <2>2, <2>3, <2>4, CloseLotFeeless
<1> HIDE DEF P
<1>5. P \in SUBSET Nat
  BY DEF P
<1>6. P = Nat
  BY <1>3, <1>4, <1>5, Induction
<1>7. Closed(lots, f, today) = Closed(lots, g, today)
  BY <1>0, <1>1, <1>2, <1>6 DEF P
<1>8. Availables(lots, f, today) = Availables(lots, g, today)
  BY DEF Availables, Closable, ButForFee
<1>9. Available(lots, f, today) = Available(lots, g, today)
  BY <1>8, AvailableIs
<1> QED BY <1>7, <1>9

-----------------------------------------------------------------------------
(***************************************************************************)
(* What the fills that were seen have brought in: each counts once.        *)
(***************************************************************************)
LEMMA GivenIs ==
    ASSUME AuditAssumption
    PROVE  /\ Len(Given) \in Nat /\ DOMAIN Given = 1..Len(Given)
           /\ \A i \in 1..Len(Given) : Given[i] \in FillFact
           /\ \A f \in FillFact : \E i \in 1..Len(Given) : Given[i] = f
           /\ \A i, j \in 1..Len(Given) : Given[i] = Given[j] => i = j
<1> DEFINE N == Cardinality(FillFact)
           ss == CHOOSE f \in [1..N -> FillFact] : IsInjective(f)
<1>1. IsFiniteSet(FillFact) /\ N \in Nat /\ ExistsBijection(1..N, FillFact)
  BY FS_CardinalityType DEF AuditAssumption, ProperFills
<1>2. \E f \in [1..N -> FillFact] : IsInjective(f)
  BY <1>1 DEF ExistsBijection, Bijection, Injection
<1>3. ss \in [1..N -> FillFact] /\ IsInjective(ss)
  BY <1>2, Zenon
<1>4. Given = ss
  BY Zenon DEF Given, SetToSeq
<1> HIDE DEF ss
<1>5. ss \in Injection(1..N, FillFact)
  BY <1>3 DEF Injection
<1>6. Cardinality(1..N) = N
  <2>1. PICK n \in Nat : n = N
    BY <1>1
  <2>2. PICK a \in Int, b \in Int : a = 1 /\ b = n
    OBVIOUS
  <2>3. Cardinality(a..b) = IF a > b THEN 0 ELSE b - a + 1
    BY FS_Interval
  <2>4. Cardinality(1..n) = n
    BY <2>2, <2>3
  <2> QED BY <2>1, <2>4
<1> HIDE DEF N
<1>7. ss \in Surjection(1..N, FillFact)
  BY <1>1, <1>5, <1>6, FS_Injection DEF N
<1>8. Len(ss) = N
  BY <1>1, <1>3
<1>9. \A f \in FillFact : \E i \in 1..N : ss[i] = f
  BY <1>7 DEF Surjection
<1>10. \A i, j \in 1..N : ss[i] = ss[j] => i = j
  BY <1>3 DEF IsInjective
<1> QED BY <1>1, <1>3, <1>4, <1>8, <1>9, <1>10

LEMMA FillFactIs ==
    ASSUME AuditAssumption, NEW f \in FillFact
    PROVE  IsFill(f) /\ \A g \in FillFact : f.id = g.id => f = g
<1>1. f \in [id : {f.id}, direction : {"LONG", "SHORT"}, quantity : Nat,
             price : Int, fee : Int, date : {f.date}]
  BY DEF AuditAssumption, ProperFills
<1> QED BY <1>1 DEF AuditAssumption, ProperFills, IsFill, Sides

Earnings(fills, mark) ==
    [i \in DOMAIN Given |-> IF Given[i].id \in fills THEN Brought(Given[i], mark) ELSE 0]

LEMMA BroughtInt == ASSUME NEW f, IsFill(f), NEW mark \in Int PROVE Brought(f, mark) \in Int
<1>1. PICK n \in Int : n = f.quantity
  BY DEF IsFill
<1>2. Profit(f, n, mark) \in Int
  BY ProfitAdds
<1> QED BY <1>1, <1>2 DEF Profit, Brought

LEMMA EarningsAre ==
    ASSUME AuditAssumption, NEW fills, NEW mark \in Int
    PROVE  /\ Earned(fills, mark) = Summed(Earnings(fills, mark))
           /\ Numbers(Earnings(fills, mark)) /\ Len(Earnings(fills, mark)) = Len(Given)
           /\ \A i \in 1..Len(Given) : Earnings(fills, mark)[i] =
                  IF Given[i].id \in fills THEN Brought(Given[i], mark) ELSE 0
<1> DEFINE s == Earnings(fills, mark)
<1>1. Len(Given) \in Nat /\ DOMAIN Given = 1..Len(Given) /\ \A i \in 1..Len(Given) : Given[i] \in FillFact
  BY GivenIs
<1>2. s = [i \in 1..Len(Given) |-> IF Given[i].id \in fills THEN Brought(Given[i], mark) ELSE 0]
  BY <1>1 DEF Earnings
<1>3. \A i \in 1..Len(Given) : s[i] \in Int
  BY <1>1, <1>2, FillFactIs, BroughtInt
<1>4. Earned(fills, mark) = Summed(s)
  BY DEF Earned, Earnings
<1>5. s = [i \in 1..Len(Given) |-> s[i]]
  BY <1>2
<1>6. \A i \in 1..Len(Given) : s[i] = IF Given[i].id \in fills THEN Brought(Given[i], mark) ELSE 0
  BY <1>2
<1> HIDE DEF s
<1>7. s \in Seq(Int) /\ Len(s) = Len(Given)
  BY <1>1, <1>3, <1>5
<1>8. Numbers(s)
  BY <1>1, <1>3, <1>5, <1>7 DEF Numbers, IsLog
<1> QED BY <1>4, <1>6, <1>7, <1>8 DEF s

LEMMA EarnedOfNothing ==
    ASSUME AuditAssumption, NEW mark \in Int PROVE Earned({}, mark) = 0
<1>1. /\ Earned({}, mark) = Summed(Earnings({}, mark)) /\ Numbers(Earnings({}, mark))
      /\ Len(Earnings({}, mark)) = Len(Given)
      /\ \A i \in 1..Len(Given) : Earnings({}, mark)[i] =
             IF Given[i].id \in {} THEN Brought(Given[i], mark) ELSE 0
  BY EarningsAre
<1>2. \A i \in 1..Len(Earnings({}, mark)) : Earnings({}, mark)[i] = 0
  BY <1>1
<1> QED BY <1>1, <1>2, SummedOfNothing DEF Numbers

LEMMA EarnedOnce ==
    ASSUME AuditAssumption, NEW fills, NEW f \in FillFact, f.id \notin fills, NEW mark \in Int
    PROVE  Earned(fills \union {f.id}, mark) = Earned(fills, mark) + Brought(f, mark)
<1> DEFINE more == fills \union {f.id}
<1>1. /\ Earned(fills, mark) = Summed(Earnings(fills, mark)) /\ Numbers(Earnings(fills, mark))
      /\ Len(Earnings(fills, mark)) = Len(Given)
      /\ \A i \in 1..Len(Given) : Earnings(fills, mark)[i] =
             IF Given[i].id \in fills THEN Brought(Given[i], mark) ELSE 0
  BY EarningsAre
<1>2. /\ Earned(more, mark) = Summed(Earnings(more, mark)) /\ Numbers(Earnings(more, mark))
      /\ Len(Earnings(more, mark)) = Len(Given)
      /\ \A i \in 1..Len(Given) : Earnings(more, mark)[i] =
             IF Given[i].id \in more THEN Brought(Given[i], mark) ELSE 0
  BY EarningsAre
<1>3. PICK i \in 1..Len(Given) : Given[i] = f
  BY GivenIs
<1>4. ASSUME NEW j \in 1..Len(Given), j # i PROVE Given[j].id # f.id
  <2>1. Given[j] \in FillFact /\ Given[j] # f
    BY <1>3, <1>4, GivenIs
  <2> QED BY <2>1, FillFactIs
<1>5. PICK d \in Int : d = Brought(f, mark)
  BY FillFactIs, BroughtInt
<1>6. Earnings(more, mark)[i] = Earnings(fills, mark)[i] + d
  <2>1. Earnings(fills, mark)[i] = 0
    BY <1>1, <1>3
  <2>2. Earnings(more, mark)[i] = d
    BY <1>2, <1>3, <1>5
  <2> QED BY <2>1, <2>2
<1>7. \A j \in 1..Len(Given) : j # i => Earnings(more, mark)[j] = Earnings(fills, mark)[j]
  BY <1>1, <1>2, <1>4
<1>8. Summed(Earnings(more, mark)) = Summed(Earnings(fills, mark)) + d
  <2>1. PICK s, t : s = Earnings(fills, mark) /\ t = Earnings(more, mark)
    OBVIOUS
  <2>2. Numbers(s) /\ Numbers(t) /\ Len(t) = Len(s) /\ i \in 1..Len(s) /\ t[i] = s[i] + d
    BY <1>1, <1>2, <1>3, <1>6, <2>1
  <2>3. \A j \in 1..Len(s) : j # i => t[j] = s[j]
    BY <1>1, <1>7, <2>1
  <2>4. Summed(t) = Summed(s) + d
    BY <2>2, <2>3, SummedOneMoved
  <2> QED BY <2>1, <2>4
<1> QED BY <1>1, <1>2, <1>5, <1>8

-----------------------------------------------------------------------------
(***************************************************************************)
(* What keeps the books of an account balanced, and its profit conserved.  *)
(***************************************************************************)
Balanced(a) ==
    /\ IsAccount(a) /\ IsLots(a.lots)
    /\ a.cash \in Int /\ a.realized \in Int /\ a.fees \in Int /\ a.adjustment \in Int
    /\ Residual(a) = 0
Profits(a) == \A mark \in Mark : a.realized + Value(a.lots, mark) = Earned(a.fills, mark)

IsSettlement(s) == s.price \in Int /\ s.delta \in Int /\ s.realized \in Int /\ s.fees \in Int
FactOK(type, fact) == IF type = "SETTLEMENT" THEN IsSettlement(fact) ELSE IsFill(fact)

LEMMA NewBalances == ASSUME AuditAssumption PROVE Balanced(NewAccount) /\ Profits(NewAccount)
<1>1. /\ NewAccount.lots = <<>> /\ NewAccount.realized = 0 /\ NewAccount.fills = {}
      /\ NewAccount.cash = InitialCash /\ NewAccount.fees = 0 /\ NewAccount.adjustment = 0
  BY DEF NewAccount
<1>2. Balanced(NewAccount)
  BY <1>1, NoLots, NewIsUnreserved DEF Balanced, Residual, AuditAssumption
<1>3. Profits(NewAccount)
  BY <1>1, NoLots, EarnedOfNothing DEF Profits, AuditAssumption
<1> QED BY <1>2, <1>3

LEMMA LotOfFill ==
    ASSUME NEW f, IsFill(f), NEW mark \in Int
    PROVE  IsLot(Lot(f)) /\ Worth(Lot(f), mark) = Brought(f, mark)
<1>1. IsLot(Lot(f))
  BY DEF IsFill, IsLot, Lot
<1>2. Worth(Lot(f), mark) = Brought(f, mark)
  BY DEF Worth, Lot, Brought
<1> QED BY <1>1, <1>2

LEMMA FillBalances ==
    ASSUME NEW a, Balanced(a), NEW f, IsFill(f)
    PROVE  Balanced(ApplyFill(a, f))
<1>1. CASE f.id \in a.fills
  BY <1>1 DEF ApplyFill
<1>2. CASE f.id \notin a.fills
  <2> DEFINE b == ApplyFill(a, f)
  <2>1. /\ b.cash = a.cash - f.fee /\ b.fees = a.fees + f.fee /\ b.realized = a.realized
        /\ b.adjustment = a.adjustment /\ b.lots = Append(a.lots, Lot(f))
    BY <1>2 DEF ApplyFill, Balanced, IsAccount
  <2>2. IsAccount(b)
    BY FillSetsMarginAside DEF Balanced
  <2> HIDE DEF b
  <2>3. IsLots(b.lots)
    <3>1. IsLot(Lot(f)) /\ 0 \in Int
      BY LotOfFill
    <3> QED BY <2>1, <3>1, OneMoreLot DEF Balanced
  <2>4. /\ a.cash \in Int /\ a.realized \in Int /\ a.fees \in Int /\ a.adjustment \in Int
        /\ Residual(a) = 0 /\ f.fee \in Int
    BY DEF Balanced, IsFill
  <2>5. Residual(b) = Residual(a)
    <3>1. PICK c \in Int, x \in Int, n \in Int, r \in Int, d \in Int, k \in Int :
              /\ c = a.cash /\ x = f.fee /\ n = a.fees /\ r = a.realized /\ d = a.adjustment
              /\ k = InitialCash
      BY <2>4, AuditAssumption DEF AuditAssumption
    <3>2. Residual(a) = c - (k + r + d - n) /\ Residual(b) = (c - x) - (k + r + d - (n + x))
      BY <2>1, <3>1 DEF Residual
    <3> QED BY <3>2
  <2> QED BY <2>1, <2>2, <2>3, <2>4, <2>5 DEF Balanced, b
<1> QED BY <1>1, <1>2

LEMMA CloseBalances ==
    ASSUME NEW a, Balanced(a), NEW f, IsFill(f), NEW today
    PROVE  Balanced(CloseFill(a, f, today))
<1>1. CASE f.id \in a.fills \/ f.quantity > Available(a.lots, f, today)
  BY <1>1 DEF CloseFill
<1>2. CASE ~ (f.id \in a.fills \/ f.quantity > Available(a.lots, f, today))
  <2> DEFINE b == CloseFill(a, f, today)
             c == Closed(a.lots, f, today)
  <2>1. c.realized \in Int /\ IsLots(c.lots)
    BY <1>2, ClosedBrings DEF Balanced
  <2>2. /\ b.cash = a.cash + c.realized - f.fee /\ b.fees = a.fees + f.fee
        /\ b.realized = a.realized + c.realized
        /\ b.adjustment = a.adjustment /\ b.lots = c.lots
    BY <1>2 DEF CloseFill, Balanced, IsAccount
  <2>3. IsAccount(b)
    BY <1>2 DEF CloseFill, Balanced, IsAccount
  <2> HIDE DEF b, c
  <2>4. /\ a.cash \in Int /\ a.realized \in Int /\ a.fees \in Int /\ a.adjustment \in Int
        /\ Residual(a) = 0 /\ f.fee \in Int
    BY DEF Balanced, IsFill
  <2>5. Residual(b) = Residual(a)
    BY <2>1, <2>2, <2>4, AuditAssumption DEF Residual, AuditAssumption
  <2> QED BY <2>1, <2>2, <2>3, <2>4, <2>5 DEF Balanced, b
<1> QED BY <1>1, <1>2

LEMMA SettleBalances ==
    ASSUME NEW a, Balanced(a), NEW s, IsSettlement(s)
    PROVE  Balanced(Settle(a, s))
<1>1. CASE s.id \in a.dates
  BY <1>1 DEF Settle
<1>2. CASE s.id \notin a.dates
  <2> DEFINE b == Settle(a, s)
  <2>1. /\ b.cash = a.cash + s.delta /\ b.fees = a.fees + s.fees
        /\ b.realized = a.realized + s.realized
        /\ b.adjustment = a.adjustment + s.delta - s.realized + s.fees
        /\ b.lots = Rebased(a.lots, s.price)
    BY <1>2 DEF Settle, Balanced, IsAccount
  <2>2. IsAccount(b)
    BY SettleSetsMarginAside DEF Balanced
  <2>3. IsLots(Rebased(a.lots, s.price))
    <3>1. 0 \in Int /\ s.price \in Int /\ IsLots(a.lots)
      BY DEF IsSettlement, Balanced
    <3> QED BY <3>1, RebasedWorth
  <2> HIDE DEF b
  <2>4. /\ a.cash \in Int /\ a.realized \in Int /\ a.fees \in Int /\ a.adjustment \in Int
        /\ Residual(a) = 0 /\ s.delta \in Int /\ s.realized \in Int /\ s.fees \in Int
    BY DEF Balanced, IsSettlement
  <2>5. Residual(b) = Residual(a)
    BY <2>1, <2>4, AuditAssumption DEF Residual, AuditAssumption
  <2> QED BY <2>1, <2>2, <2>3, <2>4, <2>5 DEF Balanced, b
<1> QED BY <1>1, <1>2

LEMMA FactBalances ==
    ASSUME NEW type \in Types, NEW a, Balanced(a), NEW fact, FactOK(type, fact)
    PROVE  Balanced(Replayed(type, a, fact))
<1>1. CASE type = "FILL"
  BY <1>1, FillBalances DEF Replayed, FactOK
<1>2. CASE type = "CLOSE_FILL"
  <2>1. PICK today : today = FALSE
    OBVIOUS
  <2>2. Balanced(CloseFill(a, fact, today))
    BY <1>2, CloseBalances DEF FactOK
  <2>3. Replayed(type, a, fact) = CloseFill(a, fact, today)
    BY <1>2, <2>1 DEF Replayed
  <2> QED BY <2>2, <2>3
<1>3. CASE type = "CLOSE_TODAY_FILL"
  <2>1. PICK today : today = TRUE
    OBVIOUS
  <2>2. Balanced(CloseFill(a, fact, today))
    BY <1>3, CloseBalances DEF FactOK
  <2>3. Replayed(type, a, fact) = CloseFill(a, fact, today)
    BY <1>3, <2>1 DEF Replayed
  <2> QED BY <2>2, <2>3
<1>4. CASE type = "SETTLEMENT"
  BY <1>4, SettleBalances DEF Replayed, FactOK
<1> QED BY <1>1, <1>2, <1>3, <1>4 DEF Types

-----------------------------------------------------------------------------
(***************************************************************************)
(* A fill, a closing fill and a settlement conserve the profit.            *)
(***************************************************************************)
LEMMA MarkIsInt == ASSUME AuditAssumption, NEW mark \in Mark PROVE mark \in Int
  BY DEF AuditAssumption

LEMMA FillConserves ==
    ASSUME AuditAssumption, NEW a, Balanced(a), Profits(a), NEW f \in FillFact
    PROVE  Profits(ApplyFill(a, f))
<1>0. IsFill(f)
  BY FillFactIs
<1>1. CASE f.id \in a.fills
  BY <1>1 DEF ApplyFill
<1>2. CASE f.id \notin a.fills
  <2> DEFINE b == ApplyFill(a, f)
  <2>1. /\ b.realized = a.realized /\ b.lots = Append(a.lots, Lot(f))
        /\ b.fills = a.fills \union {f.id}
    BY <1>2 DEF ApplyFill, Balanced, IsAccount
  <2> HIDE DEF b
  <2>2. ASSUME NEW mark \in Mark
        PROVE  b.realized + Value(b.lots, mark) = Earned(b.fills, mark)
    <3>1. mark \in Int
      BY MarkIsInt
    <3>2. IsLots(a.lots) /\ a.realized \in Int /\ a.realized + Value(a.lots, mark) = Earned(a.fills, mark)
      BY DEF Balanced, Profits
    <3>3. IsLot(Lot(f)) /\ Worth(Lot(f), mark) = Brought(f, mark) /\ Brought(f, mark) \in Int
      BY <1>0, <3>1, LotOfFill, BroughtInt
    <3>4. Value(b.lots, mark) = Value(a.lots, mark) + Brought(f, mark) /\ Value(a.lots, mark) \in Int
      BY <2>1, <3>1, <3>2, <3>3, OneMoreLot, ValuedIs
    <3>5. Earned(b.fills, mark) = Earned(a.fills, mark) + Brought(f, mark)
      BY <1>2, <2>1, <3>1, EarnedOnce
    <3> QED BY <2>1, <3>2, <3>3, <3>4, <3>5
  <2> QED BY <2>2 DEF Profits, b
<1> QED BY <1>1, <1>2

LEMMA CloseConserves ==
    ASSUME AuditAssumption, NEW a, Balanced(a), Profits(a), NEW f \in FillFact, NEW today
    PROVE  Profits(CloseFill(a, f, today))
<1>0. IsFill(f)
  BY FillFactIs
<1>1. CASE f.id \in a.fills \/ f.quantity > Available(a.lots, f, today)
  BY <1>1 DEF CloseFill
<1>2. CASE ~ (f.id \in a.fills \/ f.quantity > Available(a.lots, f, today))
  <2> DEFINE b == CloseFill(a, f, today)
             c == Closed(a.lots, f, today)
  <2>1. /\ b.realized = a.realized + c.realized /\ b.lots = c.lots
        /\ b.fills = a.fills \union {f.id}
    BY <1>2 DEF CloseFill, Balanced, IsAccount
  <2> HIDE DEF b
  <2>2. ASSUME NEW mark \in Mark
        PROVE  b.realized + Value(b.lots, mark) = Earned(b.fills, mark)
    <3>1. mark \in Int
      BY MarkIsInt
    <3>2. IsLots(a.lots) /\ a.realized \in Int /\ a.realized + Value(a.lots, mark) = Earned(a.fills, mark)
      BY DEF Balanced, Profits
    <3>3. /\ c.realized \in Int /\ IsLots(c.lots)
          /\ Value(c.lots, mark) + c.realized = Value(a.lots, mark) + Brought(f, mark)
      BY <1>0, <1>2, <3>1, <3>2, ClosedBrings
    <3>4. Brought(f, mark) \in Int /\ Value(a.lots, mark) \in Int /\ Value(c.lots, mark) \in Int
      BY <1>0, <3>1, <3>2, <3>3, BroughtInt, ValuedIs
    <3>5. Earned(b.fills, mark) = Earned(a.fills, mark) + Brought(f, mark)
      BY <1>2, <2>1, <3>1, EarnedOnce
    <3> HIDE DEF c
    <3> QED BY <2>1, <3>2, <3>3, <3>4, <3>5
  <2> QED BY <2>2 DEF Profits, b
<1> QED BY <1>1, <1>2

LEMMA MarkedIs ==
    ASSUME AuditAssumption, NEW a, Balanced(a), NEW date, NEW price \in Mark,
           NEW s, s = MarkToMarket(a, date, price)
    PROVE  IsSettlement(s) /\ s.realized = Value(a.lots, price) /\ s.price = price
<1>1. price \in Int /\ Value(a.lots, price) \in Int
  BY MarkIsInt, ValuedIs DEF Balanced
<1>2. Unrealized(a, price) = Value(a.lots, price)
  BY DEF Unrealized, Value
<1> QED BY <1>1, <1>2 DEF MarkToMarket, IsSettlement

LEMMA SettleConserves ==
    ASSUME AuditAssumption, NEW a, Balanced(a), Profits(a), NEW date, NEW price \in Mark,
           NEW s, s = MarkToMarket(a, date, price)
    PROVE  Profits(Settle(a, s))
<1>0. IsSettlement(s) /\ s.realized = Value(a.lots, price) /\ s.price = price
  BY MarkedIs
<1>1. CASE s.id \in a.dates
  BY <1>1 DEF Settle
<1>2. CASE s.id \notin a.dates
  <2> DEFINE b == Settle(a, s)
  <2>1. /\ b.realized = a.realized + s.realized /\ b.lots = Rebased(a.lots, s.price)
        /\ b.fills = a.fills
    BY <1>2 DEF Settle, Balanced, IsAccount
  <2> HIDE DEF b
  <2>2. ASSUME NEW mark \in Mark
        PROVE  b.realized + Value(b.lots, mark) = Earned(b.fills, mark)
    <3>1. mark \in Int /\ price \in Int
      BY MarkIsInt
    <3>2. IsLots(a.lots) /\ a.realized \in Int /\ a.realized + Value(a.lots, mark) = Earned(a.fills, mark)
      BY DEF Balanced, Profits
    <3>3. /\ IsLots(Rebased(a.lots, price))
          /\ Value(a.lots, mark) = Value(Rebased(a.lots, price), mark) + Value(a.lots, price)
      BY <3>1, <3>2, RebasedWorth
    <3>4. /\ Value(a.lots, mark) \in Int /\ Value(a.lots, price) \in Int
          /\ Value(Rebased(a.lots, price), mark) \in Int
      BY <3>1, <3>2, <3>3, ValuedIs
    <3> QED BY <1>0, <2>1, <3>2, <3>3, <3>4
  <2> QED BY <2>2 DEF Profits, b
<1> QED BY <1>1, <1>2

-----------------------------------------------------------------------------
(***************************************************************************)
(* What an account has besides its cash: a correction of a fee leaves it.  *)
(***************************************************************************)
Position(a) == <<a.realized, a.lots, a.fills, a.dates>>
ButForFeeOf(type, f, g) == IF type = "SETTLEMENT" THEN f = g ELSE ButForFee(f, g)

LEMMA FillFeeless ==
    ASSUME NEW a, NEW b, IsAccount(a), IsAccount(b), Position(a) = Position(b),
           NEW f, NEW g, ButForFee(f, g)
    PROVE  Position(ApplyFill(a, f)) = Position(ApplyFill(b, g))
<1>1. a.realized = b.realized /\ a.lots = b.lots /\ a.fills = b.fills /\ a.dates = b.dates
  BY DEF Position
<1>2. Lot(f) = Lot(g) /\ f.id = g.id
  BY DEF Lot, ButForFee
<1>3. CASE f.id \in a.fills
  BY <1>1, <1>2, <1>3 DEF ApplyFill, Position
<1>4. CASE f.id \notin a.fills
  <2>1. Position(ApplyFill(a, f)) = <<a.realized, Append(a.lots, Lot(f)), a.fills \union {f.id}, a.dates>>
    BY <1>4 DEF ApplyFill, Position, IsAccount
  <2>2. Position(ApplyFill(b, g)) = <<b.realized, Append(b.lots, Lot(g)), b.fills \union {g.id}, b.dates>>
    BY <1>1, <1>2, <1>4 DEF ApplyFill, Position, IsAccount
  <2> QED BY <1>1, <1>2, <2>1, <2>2
<1> QED BY <1>3, <1>4

LEMMA CloseFeeless ==
    ASSUME NEW a, NEW b, IsAccount(a), IsAccount(b), Position(a) = Position(b), IsLots(a.lots),
           NEW f, NEW g, ButForFee(f, g), NEW today
    PROVE  Position(CloseFill(a, f, today)) = Position(CloseFill(b, g, today))
<1>1. a.realized = b.realized /\ a.lots = b.lots /\ a.fills = b.fills /\ a.dates = b.dates
  BY DEF Position
<1>2. /\ Closed(b.lots, g, today) = Closed(a.lots, f, today)
      /\ Available(b.lots, g, today) = Available(a.lots, f, today)
      /\ f.id = g.id /\ f.quantity = g.quantity
  BY <1>1, ClosedFeeless DEF ButForFee
<1>3. CASE f.id \in a.fills \/ f.quantity > Available(a.lots, f, today)
  BY <1>1, <1>2, <1>3 DEF CloseFill, Position
<1>4. CASE ~ (f.id \in a.fills \/ f.quantity > Available(a.lots, f, today))
  <2>1. Position(CloseFill(a, f, today)) =
            <<a.realized + Closed(a.lots, f, today).realized, Closed(a.lots, f, today).lots,
              a.fills \union {f.id}, a.dates>>
    BY <1>4 DEF CloseFill, Position, IsAccount
  <2>2. Position(CloseFill(b, g, today)) =
            <<b.realized + Closed(b.lots, g, today).realized, Closed(b.lots, g, today).lots,
              b.fills \union {g.id}, b.dates>>
    BY <1>1, <1>2, <1>4 DEF CloseFill, Position, IsAccount
  <2> QED BY <1>1, <1>2, <2>1, <2>2
<1> QED BY <1>3, <1>4

LEMMA SettleFeeless ==
    ASSUME NEW a, NEW b, IsAccount(a), IsAccount(b), Position(a) = Position(b), NEW s
    PROVE  Position(Settle(a, s)) = Position(Settle(b, s))
<1>1. a.realized = b.realized /\ a.lots = b.lots /\ a.fills = b.fills /\ a.dates = b.dates
  BY DEF Position
<1>2. CASE s.id \in a.dates
  BY <1>1, <1>2 DEF Settle, Position
<1>3. CASE s.id \notin a.dates
  <2>1. Position(Settle(a, s)) =
            <<a.realized + s.realized, Rebased(a.lots, s.price), a.fills, a.dates \union {s.id}>>
    BY <1>3 DEF Settle, Position, IsAccount
  <2>2. Position(Settle(b, s)) =
            <<b.realized + s.realized, Rebased(b.lots, s.price), b.fills, b.dates \union {s.id}>>
    BY <1>1, <1>3 DEF Settle, Position, IsAccount
  <2> QED BY <1>1, <2>1, <2>2
<1> QED BY <1>2, <1>3

LEMMA FactFeeless ==
    ASSUME NEW type \in Types, NEW a, NEW b, IsAccount(a), IsAccount(b), IsLots(a.lots),
           Position(a) = Position(b), NEW f, NEW g, ButForFeeOf(type, f, g)
    PROVE  Position(Replayed(type, a, f)) = Position(Replayed(type, b, g))
<1>1. CASE type = "FILL"
  BY <1>1, FillFeeless DEF Replayed, ButForFeeOf
<1>2. CASE type = "CLOSE_FILL"
  <2>1. PICK today : today = FALSE
    OBVIOUS
  <2>2. Position(CloseFill(a, f, today)) = Position(CloseFill(b, g, today))
    BY <1>2, CloseFeeless DEF ButForFeeOf
  <2>3. Replayed(type, a, f) = CloseFill(a, f, today) /\ Replayed(type, b, g) = CloseFill(b, g, today)
    BY <1>2, <2>1 DEF Replayed
  <2> QED BY <2>2, <2>3
<1>3. CASE type = "CLOSE_TODAY_FILL"
  <2>1. PICK today : today = TRUE
    OBVIOUS
  <2>2. Position(CloseFill(a, f, today)) = Position(CloseFill(b, g, today))
    BY <1>3, CloseFeeless DEF ButForFeeOf
  <2>3. Replayed(type, a, f) = CloseFill(a, f, today) /\ Replayed(type, b, g) = CloseFill(b, g, today)
    BY <1>3, <2>1 DEF Replayed
  <2> QED BY <2>2, <2>3
<1>4. CASE type = "SETTLEMENT"
  BY <1>4, SettleFeeless DEF Replayed, ButForFeeOf
<1> QED BY <1>1, <1>2, <1>3, <1>4 DEF Types

-----------------------------------------------------------------------------
(***************************************************************************)
(* What the log may hold for the books to balance: proper fills and        *)
(* settlements, and corrections that change a fill in nothing but the fee. *)
(***************************************************************************)
FillTypes == {"FILL", "CLOSE_FILL", "CLOSE_TODAY_FILL"}
KnownAt(log, j) ==
    IF log[j].type = "CORRECTION"
    THEN /\ Own(log[log[j].target]) /\ log[log[j].target].type \in FillTypes
         /\ ButForFee(log[log[j].target].fact, log[j].fact) /\ IsFill(log[j].fact)
    ELSE Own(log[j]) => FactOK(log[j].type, log[j].fact)
Known(log) == \A j \in DOMAIN log : KnownAt(log, j)

LEMMA KnownGrows ==
    ASSUME NEW log, IsLog(log), Told(log), Known(log), NEW longer, IsLog(longer),
           Len(log) <= Len(longer), \A i \in 1..Len(log) : longer[i] = log[i],
           \A j \in DOMAIN longer : j > Len(log) => KnownAt(longer, j)
    PROVE  Known(longer)
<1>1. /\ DOMAIN log = 1..Len(log) /\ DOMAIN longer = 1..Len(longer)
      /\ Len(log) \in Nat /\ Len(longer) \in Nat
  BY DEF IsLog
<1>2. ASSUME NEW j \in 1..Len(log) PROVE KnownAt(longer, j)
  <2>1. j \in DOMAIN log /\ longer[j] = log[j] /\ KnownAt(log, j)
    BY <1>1 DEF Known
  <2>2. CASE log[j].type = "CORRECTION"
    <3>1. log[j].target \in 1..(j - 1)
      BY <2>1, <2>2 DEF Told
    <3>2. log[j].target \in 1..Len(log)
      BY <3>1, <1>1
    <3>3. longer[log[j].target] = log[log[j].target]
      BY <3>2
    <3> QED BY <2>1, <2>2, <3>3 DEF KnownAt
  <2>3. CASE log[j].type # "CORRECTION"
    BY <2>1, <2>3 DEF KnownAt
  <2> QED BY <2>2, <2>3
<1>3. ASSUME NEW j \in DOMAIN longer PROVE KnownAt(longer, j)
  <2>1. j \in 1..Len(log) \/ j > Len(log)
    BY <1>1
  <2> QED BY <2>1, <1>2
<1> QED BY <1>3 DEF Known

LEMMA FactIsKnown ==
    ASSUME NEW log, IsLog(log), Told(log), Known(log),
           NEW event, event.type \in Types, FactOK(event.type, event.fact)
    PROVE  Known(Append(log, event))
<1> DEFINE longer == Append(log, event)
<1>1. /\ IsLog(longer) /\ Len(longer) = Len(log) + 1
      /\ \A i \in 1..Len(log) : longer[i] = log[i]
      /\ longer[Len(log) + 1] = event
  BY Longer
<1> HIDE DEF longer
<1>2. Len(log) \in Nat /\ DOMAIN longer = 1..(Len(log) + 1)
  BY <1>1 DEF IsLog
<1>3. ASSUME NEW j \in DOMAIN longer, j > Len(log) PROVE KnownAt(longer, j)
  <2>1. j = Len(log) + 1
    BY <1>2, <1>3
  <2>2. longer[j] = event
    BY <1>1, <2>1
  <2>3. event.type # "CORRECTION"
    BY DEF Types
  <2> QED BY <2>2, <2>3 DEF KnownAt
<1>4. Len(log) <= Len(longer)
  BY <1>1, <1>2
<1> QED BY <1>1, <1>3, <1>4, KnownGrows DEF longer

LEMMA EpisodeIsKnown ==
    ASSUME AuditAssumption, NEW log, IsLog(log), Told(log), Known(log), NEW c \in Episode
    PROVE  Known(log \o Facts(c))
<1>0. /\ IsLog(log \o Facts(c))
      /\ Len(log \o Facts(c)) = Len(log) + 7
      /\ \A i \in 1..Len(log) : (log \o Facts(c))[i] = log[i]
      /\ \A k \in 1..7 : (log \o Facts(c))[Len(log) + k] = Stage(c, k)
  BY Joined
<1> DEFINE longer == log \o Facts(c)
<1>1. /\ IsLog(longer) /\ Len(longer) = Len(log) + 7
      /\ \A i \in 1..Len(log) : longer[i] = log[i]
      /\ \A k \in 1..7 : longer[Len(log) + k] = Stage(c, k)
  BY <1>0
<1> HIDE DEF longer
<1>2. Len(log) \in Nat /\ DOMAIN longer = 1..(Len(log) + 7)
  BY <1>1 DEF IsLog
<1>3. ASSUME NEW k \in 1..7 PROVE ~Own(Stage(c, k)) /\ Stage(c, k).type # "CORRECTION"
  BY DEF Own, Stage, Stages, AuditAssumption
<1>4. ASSUME NEW j \in DOMAIN longer, j > Len(log) PROVE KnownAt(longer, j)
  <2>1. j - Len(log) \in 1..7 /\ Len(log) + (j - Len(log)) = j
    <3>1. j \in 1..(Len(log) + 7) /\ j > Len(log) /\ Len(log) \in Nat
      BY <1>4, <1>2
    <3> QED BY <3>1
  <2>2. longer[j] = Stage(c, j - Len(log))
    BY <2>1, <1>1
  <2> QED BY <2>1, <2>2, <1>3 DEF KnownAt
<1>5. Len(log) <= Len(longer)
  BY <1>1, <1>2
<1> QED BY <1>1, <1>4, <1>5, KnownGrows DEF longer

LEMMA FeeOnly ==
    ASSUME NEW f, IsFill(f), NEW g, g = [f EXCEPT !.fee = @ + 1]
    PROVE  IsFill(g) /\ ButForFee(f, g)
<1>1. /\ f.id = g.id /\ f.direction = g.direction /\ f.quantity = g.quantity
      /\ f.price = g.price /\ f.date = g.date /\ g.fee = f.fee + 1
      /\ g = [id |-> g.id, direction |-> g.direction, quantity |-> g.quantity,
              price |-> g.price, fee |-> g.fee, date |-> g.date]
  BY DEF IsFill
<1>2. g.fee \in Int
  BY <1>1 DEF IsFill
<1> QED BY <1>1, <1>2 DEF IsFill, ButForFee

\* A correction that was asked of a fill in the log.
Corrects(log, call) ==
    /\ call.target \in DOMAIN log /\ call.of = log[call.target]
    /\ Own(call.of) /\ call.of.type \in FillTypes

LEMMA CorrectionIsKnown ==
    ASSUME NEW log, IsLog(log), Told(log), Known(log), NEW call, Corrects(log, call)
    PROVE  Known(Append(log, Correction(call)))
<1> DEFINE longer == Append(log, Correction(call))
<1>1. /\ IsLog(longer) /\ Len(longer) = Len(log) + 1
      /\ \A i \in 1..Len(log) : longer[i] = log[i]
      /\ longer[Len(log) + 1] = Correction(call)
  BY Longer
<1> HIDE DEF longer
<1>2. Len(log) \in Nat /\ DOMAIN longer = 1..(Len(log) + 1) /\ DOMAIN log = 1..Len(log)
  BY <1>1 DEF IsLog
<1>3. IsFill(call.of.fact)
  BY DEF Corrects, Known, KnownAt, FactOK, FillTypes
<1>4. IsFill(Correction(call).fact) /\ ButForFee(call.of.fact, Correction(call).fact)
  <2>1. PICK g : g = [call.of.fact EXCEPT !.fee = @ + 1]
    OBVIOUS
  <2>2. Correction(call).fact = g
    BY <2>1 DEF Correction
  <2> QED BY <1>3, <2>1, <2>2, FeeOnly
<1>5. Correction(call).type = "CORRECTION" /\ Correction(call).target = call.target
  BY DEF Correction
<1>6. ASSUME NEW j \in DOMAIN longer, j > Len(log) PROVE KnownAt(longer, j)
  <2>1. j = Len(log) + 1
    BY <1>2, <1>6
  <2>2. longer[j] = Correction(call) /\ longer[call.target] = call.of
    BY <1>1, <1>2, <2>1 DEF Corrects
  <2> QED BY <1>4, <1>5, <2>2 DEF KnownAt, Corrects
<1>7. Len(log) <= Len(longer)
  BY <1>1, <1>2
<1> QED BY <1>1, <1>6, <1>7, KnownGrows DEF longer

\* A fact as it was last corrected is a proper one, and the recorded one but
\* for the fee.
LEMMA CorrectedIsKnown ==
    ASSUME NEW log, IsLog(log), Told(log), Known(log), NEW k \in DOMAIN log,
           Own(log[k]), log[k].type # "CORRECTION"
    PROVE  /\ log[k].type \in Types
           /\ FactOK(log[k].type, Corrected(log, k))
           /\ ButForFeeOf(log[k].type, log[k].fact, Corrected(log, k))
<1>1. log[k].type \in Types /\ FactOK(log[k].type, log[k].fact)
  BY DEF Told, Known, KnownAt
<1>2. CASE Corrections(log, k) = {}
  BY <1>1, <1>2 DEF Corrected, ButForFeeOf, ButForFee
<1>3. CASE Corrections(log, k) # {}
  <2>1. Corrections(log, k) \in SUBSET (1..Len(log)) /\ Len(log) \in Nat
    BY DEF Corrections, IsLog
  <2>2. PICK i : i = Latest(Corrections(log, k))
    OBVIOUS
  <2>3. i \in Corrections(log, k)
    BY <1>3, <2>1, <2>2, LatestIs
  <2>4. Corrected(log, k) = log[i].fact
    BY <1>3, <2>2 DEF Corrected
  <2>5. i \in DOMAIN log /\ log[i].type = "CORRECTION" /\ log[i].target = k
    BY <2>3 DEF Corrections
  <2>6. log[k].type \in FillTypes /\ ButForFee(log[k].fact, log[i].fact) /\ IsFill(log[i].fact)
    BY <2>5 DEF Known, KnownAt
  <2> QED BY <1>1, <2>4, <2>6 DEF FactOK, ButForFeeOf, FillTypes
<1> QED BY <1>2, <1>3

LEMMA ReplayBalances ==
    ASSUME AuditAssumption, NEW log, IsLog(log), Told(log), Known(log),
           NEW after, Solves(after, log)
    PROVE  \A k \in 0..Len(log) : Balanced(after[k])
<1>1. Len(log) \in Nat /\ DOMAIN log = 1..Len(log)
  BY DEF IsLog
<1> DEFINE P == {k \in Nat : k <= Len(log) => Balanced(after[k])}
<1>3. 0 \in P
  <2>1. after[0] = NewAccount
    BY <1>1 DEF Solves, Upto
  <2>2. Balanced(NewAccount)
    BY NewBalances
  <2> QED BY <2>1, <2>2
<1>4. ASSUME NEW k \in P PROVE k + 1 \in P
  <2>1. SUFFICES ASSUME k + 1 <= Len(log) PROVE Balanced(after[k + 1])
    OBVIOUS
  <2>2. k \in Nat /\ k + 1 \in 0..Len(log) /\ k + 1 # 0 /\ (k + 1) - 1 = k /\ k + 1 \in DOMAIN log /\ k <= Len(log)
    BY <2>1, <1>1
  <2>3. after[k + 1] = Redone(log, k + 1, after[k])
    BY <2>2 DEF Solves, Upto
  <2>4. Balanced(after[k])
    BY <2>2
  <2>5. CASE Own(log[k + 1]) /\ log[k + 1].type # "CORRECTION"
    <3>1. log[k + 1].type \in Types /\ FactOK(log[k + 1].type, Corrected(log, k + 1))
      BY <2>2, <2>5, CorrectedIsKnown
    <3>2. after[k + 1] = Replayed(log[k + 1].type, after[k], Corrected(log, k + 1))
      BY <2>3, <2>5 DEF Redone
    <3> QED BY <2>4, <3>1, <3>2, FactBalances
  <2>6. CASE ~(Own(log[k + 1]) /\ log[k + 1].type # "CORRECTION")
    BY <2>3, <2>4, <2>6 DEF Redone
  <2> QED BY <2>5, <2>6
<1> HIDE DEF P
<1>5. P \in SUBSET Nat
  BY DEF P
<1>6. P = Nat
  BY <1>3, <1>4, <1>5, Induction
<1> QED BY <1>1, <1>6 DEF P

LEMMA ReplayIsBalanced ==
    ASSUME AuditAssumption, NEW log, IsLog(log), Told(log), Known(log)
    PROVE  Balanced(Replay(log))
<1>1. Len(log) \in Nat
  BY DEF IsLog
<1>2. PICK after : Solves(after, log) /\ Replay(log) = after[Len(log)]
  BY <1>1, ReplayIs
<1>3. Balanced(after[Len(log)])
  BY <1>1, <1>2, ReplayBalances
<1> QED BY <1>2, <1>3

\* A correction of a fee leaves what is owned and what was earned.
LEMMA CorrectionKeepsPosition ==
    ASSUME AuditAssumption, NEW log, IsLog(log), Told(log), Known(log), NEW call, Corrects(log, call)
    PROVE  Position(Replay(Append(log, Correction(call)))) = Position(Replay(log))
<1> DEFINE longer == Append(log, Correction(call))
           N == Len(log)
<1>1. /\ IsLog(longer) /\ Len(longer) = N + 1
      /\ \A i \in 1..N : longer[i] = log[i]
      /\ longer[N + 1] = Correction(call)
  BY Longer
<1>2. Told(longer) /\ Known(longer)
  BY CorrectionIsTold, CorrectionIsKnown DEF Corrects
<1> HIDE DEF longer
<1>3. /\ N \in Nat /\ N + 1 \in Nat /\ DOMAIN log = 1..N /\ DOMAIN longer = 1..(N + 1)
      /\ Len(longer) \in Nat
  BY <1>1 DEF IsLog
<1>4. PICK f : Solves(f, log) /\ Replay(log) = f[N]
  BY <1>3, ReplayIs
<1>5. PICK g : Solves(g, longer) /\ Replay(longer) = g[N + 1]
  BY <1>1, <1>3, ReplayIs
<1>6. /\ \A k \in 0..N : Balanced(f[k])
      /\ \A k \in 0..(N + 1) : Balanced(g[k])
  <2>1. \A k \in 0..N : Balanced(f[k])
    BY <1>4, ReplayBalances
  <2>2. \A k \in 0..Len(longer) : Balanced(g[k])
    BY <1>1, <1>2, <1>5, ReplayBalances
  <2> QED BY <1>1, <2>1, <2>2
<1> HIDE DEF N
<1> DEFINE P == {k \in Nat : k <= N => Position(g[k]) = Position(f[k])}
<1>7. 0 \in P
  <2>1. f[0] = NewAccount /\ g[0] = NewAccount
    BY <1>1, <1>3, <1>4, <1>5 DEF Solves, Upto, N
  <2> QED BY <2>1
<1>8. ASSUME NEW k \in P PROVE k + 1 \in P
  <2>1. SUFFICES ASSUME k + 1 <= N PROVE Position(g[k + 1]) = Position(f[k + 1])
    OBVIOUS
  <2>2. /\ k \in Nat /\ k + 1 \in 0..N /\ k + 1 \in 0..(N + 1) /\ k + 1 # 0 /\ (k + 1) - 1 = k
        /\ k + 1 \in DOMAIN log /\ k + 1 \in DOMAIN longer /\ k + 1 \in 1..N
        /\ k <= N /\ k \in 0..N /\ k \in 0..(N + 1)
    BY <2>1, <1>3
  <2>3. f[k + 1] = Redone(log, k + 1, f[k]) /\ g[k + 1] = Redone(longer, k + 1, g[k])
    <3>1. f = [n \in 0..N |-> IF n = 0 THEN NewAccount ELSE Redone(log, n, f[n - 1])]
      BY <1>4 DEF Solves, Upto, N
    <3>2. g = [n \in 0..(N + 1) |-> IF n = 0 THEN NewAccount ELSE Redone(longer, n, g[n - 1])]
      BY <1>1, <1>5 DEF Solves, Upto
    <3>3. f[k + 1] = Redone(log, k + 1, f[k])
      BY <2>2, <3>1
    <3>4. g[k + 1] = Redone(longer, k + 1, g[k])
      BY <2>2, <3>2
    <3> QED BY <3>3, <3>4
  <2>4. Position(g[k]) = Position(f[k]) /\ Balanced(f[k]) /\ Balanced(g[k])
    BY <1>6, <2>2
  <2>5. longer[k + 1] = log[k + 1]
    BY <1>1, <2>2
  <2> DEFINE type == log[k + 1].type
  <2>6. CASE Own(log[k + 1]) /\ type # "CORRECTION"
    <3>1. /\ type \in Types
          /\ ButForFeeOf(type, log[k + 1].fact, Corrected(log, k + 1))
          /\ ButForFeeOf(type, log[k + 1].fact, Corrected(longer, k + 1))
      BY <1>1, <1>2, <2>2, <2>5, <2>6, CorrectedIsKnown
    <3>2. ButForFeeOf(type, Corrected(longer, k + 1), Corrected(log, k + 1))
      BY <3>1 DEF ButForFeeOf, ButForFee
    <3>3. /\ f[k + 1] = Replayed(type, f[k], Corrected(log, k + 1))
          /\ g[k + 1] = Replayed(type, g[k], Corrected(longer, k + 1))
      BY <2>3, <2>5, <2>6 DEF Redone
    <3>4. IsAccount(f[k]) /\ IsAccount(g[k]) /\ IsLots(g[k].lots)
      BY <2>4 DEF Balanced
    <3> HIDE DEF type
    <3> QED BY <2>4, <3>1, <3>2, <3>3, <3>4, FactFeeless
  <2>7. CASE ~ (Own(log[k + 1]) /\ type # "CORRECTION")
    BY <2>3, <2>4, <2>5, <2>7 DEF Redone
  <2> QED BY <2>6, <2>7
<1> HIDE DEF P
<1>9. P \in SUBSET Nat
  BY DEF P
<1>10. P = Nat
  BY <1>7, <1>8, <1>9, Induction
<1>11. Position(g[N]) = Position(f[N])
  BY <1>3, <1>10 DEF P
<1>12. g[N + 1] = g[N]
  <2>1. N + 1 \in 0..Len(longer) /\ N + 1 # 0 /\ (N + 1) - 1 = N
    BY <1>1, <1>3 DEF N
  <2>2. g[N + 1] = Redone(longer, N + 1, g[N])
    BY <1>5, <2>1 DEF Solves, Upto
  <2>3. longer[N + 1].type = "CORRECTION"
    BY <1>1 DEF Correction
  <2> QED BY <2>2, <2>3 DEF Redone
<1> QED BY <1>4, <1>5, <1>11, <1>12 DEF longer

-----------------------------------------------------------------------------
(***************************************************************************)
(* Why no profit is lost or made up.  The facts in the logs and the one    *)
(* that is due are proper, and a fact that is due is in the account; what  *)
(* the trader corrects is a fill as it was recorded; and the account is    *)
(* balanced, its profit what its fills have brought in, and a replay that  *)
(* it has yet to take over, after a correction, leaves its position.       *)
(***************************************************************************)
KnownInv ==
    /\ Known(file) /\ \A w \in Writer : Known(memory[w])
    /\ due # <<>> => FactOK(due[1].type, due[1].fact)

AsRecordedInv ==
    /\ writing[Trader].step = "correct" => Corrects(memory[Trader], writing[Trader])
    /\ due = <<>> => \A j \in DOMAIN memory[Trader] :
                         memory[Trader][j].type # "CORRECTION" => memory[Trader][j] = file[j]

BooksInv ==
    /\ Balanced(account) /\ Profits(account)
    /\ due # <<>> => Replayed(due[1].type, account, due[1].fact) = account
    /\ due = <<>> /\ Entered => Position(Replay(file)) = Position(account)

EquityInv == KnownInv /\ AsRecordedInv /\ BooksInv

LEMMA EquityInit == AuditAssumption /\ AuditInit => EquityInv
<1> SUFFICES ASSUME AuditAssumption, AuditInit PROVE EquityInv
  OBVIOUS
<1>1. Known(<<>>)
  BY DEF Known
<1>2. writing[Trader] = AtRest /\ memory[Trader] = <<>> /\ \A w \in Writer : memory[w] = <<>>
  BY WriterIs DEF AuditInit
<1>3. KnownInv /\ AsRecordedInv
  BY <1>1, <1>2 DEF AuditInit, KnownInv, AsRecordedInv, AtRest
<1>4. BooksInv
  BY <1>2, NewBalances, QuietIsNotEntered DEF AuditInit, BooksInv
<1> QED BY <1>3, <1>4 DEF EquityInv

\* The margin is no part of what is conserved, nor is anything but the
\* position part of the profit.
LEMMA MarginIsAside ==
    ASSUME NEW a, Balanced(a), NEW m, NEW b, b = [a EXCEPT !.margin = m]
    PROVE  Balanced(b) /\ Position(b) = Position(a)
<1>1. IsAccount(a)
  BY DEF Balanced
<1>2. /\ b.cash = a.cash /\ b.realized = a.realized /\ b.fees = a.fees /\ b.lots = a.lots
      /\ b.fills = a.fills /\ b.dates = a.dates /\ b.adjustment = a.adjustment
      /\ IsAccount(b)
  BY <1>1, UnreservedIs DEF IsAccount
<1> QED BY <1>2 DEF Balanced, Position, Residual

LEMMA ProfitsOfPosition ==
    ASSUME NEW a, NEW b, Position(a) = Position(b), Profits(a)
    PROVE  Profits(b)
<1>1. a.realized = b.realized /\ a.lots = b.lots /\ a.fills = b.fills
  BY DEF Position
<1> QED BY <1>1 DEF Profits

\* A new fact of the trader's.
LEMMA AppliesKeepsEquity ==
    ASSUME AuditAssumption, ReconcilesInv, EquityInv, NEW type \in Types, NEW fact,
           Applies(Event(type, fact)), FactOK(type, fact), Profits(Replayed(type, account, fact))
    PROVE  EquityInv'
<1> DEFINE event == Event(type, fact)
<1>1. event.account = Trader /\ event.type = type /\ event.fact = fact
  BY DEF Event
<1>2. /\ due = <<>> /\ writing[Trader] = AtRest
      /\ account' = Replayed(type, account, fact) /\ due' = <<event>>
      /\ UNCHANGED <<exists, file, memory, locked, writing>>
  BY <1>1 DEF Applies, Quiet
<1> HIDE DEF event
<1>3. due' # <<>> /\ due'[1] = event
  BY <1>2
<1>4. KnownInv'
  BY <1>1, <1>2, <1>3 DEF EquityInv, KnownInv
<1>5. AsRecordedInv'
  BY <1>2, <1>3 DEF AsRecordedInv, AtRest
<1>6. BooksInv'
  <2>1. Balanced(account) /\ IsAccount(account)
    BY DEF EquityInv, BooksInv, Balanced
  <2>2. Balanced(account') /\ Profits(account')
    BY <1>2, <2>1, FactBalances
  <2>3. Replayed(type, account', fact) = account'
    BY <1>2, <2>1, FactCountsOnce
  <2> QED BY <1>1, <1>3, <2>2, <2>3 DEF BooksInv
<1> QED BY <1>4, <1>5, <1>6 DEF EquityInv

LEMMA OpensKeepsEquity ==
    ASSUME AuditAssumption, ReconcilesInv, EquityInv, NEW f \in FillFact, Open(f)
    PROVE  EquityInv'
<1>1. "FILL" \in Types /\ Replayed("FILL", account, f) = ApplyFill(account, f)
  BY DEF Types, Replayed
<1>2. FactOK("FILL", f)
  BY FillFactIs DEF FactOK
<1>3. Profits(Replayed("FILL", account, f))
  BY <1>1, FillConserves DEF EquityInv, BooksInv
<1> QED BY <1>1, <1>2, <1>3, AppliesKeepsEquity DEF Open

LEMMA ClosesKeepsEquity ==
    ASSUME AuditAssumption, ReconcilesInv, EquityInv, NEW f \in FillFact, NEW today \in BOOLEAN,
           Close(f, today)
    PROVE  EquityInv'
<1>1. PICK type \in {"CLOSE_FILL", "CLOSE_TODAY_FILL"} :
          type = (IF today THEN "CLOSE_TODAY_FILL" ELSE "CLOSE_FILL")
  OBVIOUS
<1>2. type \in Types /\ Applies(Event(type, f)) /\ FactOK(type, f)
  BY <1>1, FillFactIs DEF Types, Close, FactOK
<1>3. \A d \in BOOLEAN : Profits(CloseFill(account, f, d))
  BY CloseConserves DEF EquityInv, BooksInv
<1>4. Profits(Replayed(type, account, f))
  <2>1. CASE type = "CLOSE_FILL"
    <3>1. Replayed(type, account, f) = CloseFill(account, f, FALSE)
      BY <2>1 DEF Replayed
    <3>2. FALSE \in BOOLEAN
      OBVIOUS
    <3>3. Profits(CloseFill(account, f, FALSE))
      BY <1>3, <3>2, Zenon
    <3> QED BY <3>1, <3>3, Zenon
  <2>2. CASE type = "CLOSE_TODAY_FILL"
    <3>1. Replayed(type, account, f) = CloseFill(account, f, TRUE)
      BY <2>2 DEF Replayed
    <3>2. TRUE \in BOOLEAN
      OBVIOUS
    <3>3. Profits(CloseFill(account, f, TRUE))
      BY <1>3, <3>2, Zenon
    <3> QED BY <3>1, <3>3, Zenon
  <2> QED BY <1>1, <2>1, <2>2
<1> QED BY <1>2, <1>4, AppliesKeepsEquity

LEMMA SettlesKeepsEquity ==
    ASSUME AuditAssumption, ReconcilesInv, EquityInv, NEW date \in Date, NEW price \in Mark,
           MarkAndSettle(date, price)
    PROVE  EquityInv'
<1>1. PICK s : s = MarkToMarket(account, date, price)
  OBVIOUS
<1>2. "SETTLEMENT" \in Types /\ Replayed("SETTLEMENT", account, s) = Settle(account, s)
  BY DEF Types, Replayed
<1>3. IsSettlement(s) /\ Profits(Settle(account, s))
  BY <1>1, MarkedIs, SettleConserves DEF EquityInv, BooksInv
<1>4. FactOK("SETTLEMENT", s)
  BY <1>3 DEF FactOK
<1>5. Applies(Event("SETTLEMENT", s))
  BY <1>1 DEF MarkAndSettle
<1> QED BY <1>2, <1>3, <1>4, <1>5, AppliesKeepsEquity

LEMMA MarginKeepsEquity ==
    ASSUME AuditAssumption, ReconcilesInv, EquityInv, NEW amount, Reserve(amount) \/ Release(amount)
    PROVE  EquityInv'
<1>1. UNCHANGED <<due, exists, file, memory, locked, writing>> /\ due = <<>> /\ writing[Trader] = AtRest
  BY DEF Reserve, Release, Quiet
<1>2. account' = account \/ \E m : account' = [account EXCEPT !.margin = m]
  BY DEF Reserve, Release, ReserveMargin, ReleaseMargin
<1>3. Balanced(account) /\ Profits(account)
  BY DEF EquityInv, BooksInv
<1>4. Balanced(account') /\ Position(account') = Position(account)
  <2>1. ASSUME NEW m, account' = [account EXCEPT !.margin = m]
        PROVE  Balanced(account') /\ Position(account') = Position(account)
    BY <1>3, <2>1, MarginIsAside
  <2> QED BY <1>2, <1>3, <2>1
<1>5. Profits(account')
  BY <1>3, <1>4, ProfitsOfPosition
<1>6. ~Entered'
  BY <1>1, QuietIsNotEntered DEF Entered
<1>7. KnownInv' /\ AsRecordedInv'
  BY <1>1 DEF EquityInv, KnownInv, AsRecordedInv
<1>8. BooksInv'
  BY <1>1, <1>4, <1>5, <1>6 DEF BooksInv
<1> QED BY <1>7, <1>8 DEF EquityInv

\* A call begins.
LEMMA EnterKeepsEquity ==
    ASSUME AuditAssumption, ReconcilesInv, EquityInv, NEW w \in Writer, NEW call, Enter(w, call),
           call.step # "written",
           w = Trader /\ call.step = "correct" => Corrects(Reloaded(w), call)
    PROVE  EquityInv'
<1>1. /\ writing[w] = AtRest
      /\ memory' = [memory EXCEPT ![w] = Reloaded(w)]
      /\ writing' = [writing EXCEPT ![w] = call]
      /\ UNCHANGED <<account, due, exists, file>>
  BY DEF Enter
<1>2. Reloaded(w) \in {file, memory[w]}
  BY DEF Reloaded
<1>3. /\ \A v \in Writer : memory'[v] = IF v = w THEN Reloaded(w) ELSE memory[v]
      /\ \A v \in Writer : writing'[v] = IF v = w THEN call ELSE writing[v]
  BY <1>1 DEF ReconcilesInv, LogsInv, TurnsInv
<1>4. KnownInv'
  BY <1>1, <1>2, <1>3 DEF EquityInv, KnownInv
<1>5. AsRecordedInv'
  <2>1. writing'[Trader].step = "correct" => Corrects(memory'[Trader], writing'[Trader])
    BY <1>3, WriterIs DEF EquityInv, AsRecordedInv
  <2>2. memory'[Trader] = memory[Trader] \/ memory'[Trader] = file
    BY <1>2, <1>3, WriterIs
  <2> QED BY <1>1, <2>1, <2>2 DEF EquityInv, AsRecordedInv
<1>6. BooksInv'
  <2>1. Entered' <=> Entered
    BY <1>1, <1>3, WriterIs DEF Entered, AtRest
  <2> QED BY <1>1, <2>1 DEF EquityInv, BooksInv
<1> QED BY <1>4, <1>5, <1>6 DEF EquityInv

LEMMA CorrectFactKeepsEquity ==
    ASSUME AuditAssumption, ReconcilesInv, EquityInv, NEW i, CorrectFact(i)
    PROVE  EquityInv'
<1> DEFINE call == [step |-> "correct", target |-> i, of |-> memory[Trader][i]]
<1>1. /\ Enter(Trader, call) /\ due = <<>> /\ i \in DOMAIN memory[Trader]
      /\ Own(memory[Trader][i]) /\ memory[Trader][i].type \in FillTypes
  BY DEF CorrectFact, Quiet, FillTypes
<1>2. call.step = "correct" /\ call.target = i /\ call.of = memory[Trader][i]
  OBVIOUS
<1> HIDE DEF call
<1>3. memory[Trader][i].type # "CORRECTION"
  BY <1>1 DEF FillTypes
<1>4. i \in DOMAIN file /\ memory[Trader][i] = file[i]
  BY <1>1, <1>3 DEF ReconcilesInv, PlacesInv, EquityInv, AsRecordedInv
<1>5. Corrects(Reloaded(Trader), call)
  BY <1>1, <1>2, <1>4 DEF Corrects, Reloaded
<1> QED BY <1>1, <1>2, <1>5, WriterIs, EnterKeepsEquity

LEMMA AppendDueKeepsEquity ==
    ASSUME AuditAssumption, ReconcilesInv, EquityInv, AppendDue
    PROVE  EquityInv'
<1>1. PICK call : call = [step |-> "append", event |-> Head(due)]
  OBVIOUS
<1>2. Enter(Trader, call) /\ call.step = "append"
  BY <1>1 DEF AppendDue
<1> QED BY <1>2, WriterIs, EnterKeepsEquity

LEMMA RecordEpisodeKeepsEquity ==
    ASSUME AuditAssumption, ReconcilesInv, EquityInv, NEW w \in Clerk, NEW c \in Episode,
           RecordEpisode(w, c)
    PROVE  EquityInv'
<1>1. PICK call : call = [step |-> "episode", of |-> c]
  OBVIOUS
<1>2. Enter(w, call) /\ call.step = "episode" /\ w \in Writer
  BY <1>1 DEF RecordEpisode, Writer
<1> QED BY <1>2, EnterKeepsEquity

\* The events a process is left with: proper ones, and for the trader what
\* it had before and the fact that is due, or a correction.
LEMMA ExtendedKnown ==
    ASSUME AuditAssumption, ReconcilesInv, EquityInv, NEW w \in Writer, Calling(w)
    PROVE  /\ Known(Extended(writing[w], memory[w]))
           /\ writing[w].step # "correct" => (w = Trader => due # <<>>)
           /\ writing[w].step = "correct" =>
                 /\ w = Trader /\ due = <<>> /\ exists /\ memory[Trader] = file
                 /\ Position(Replay(Extended(writing[w], memory[w]))) = Position(Replay(file))
                 /\ Len(file) \in Nat /\ DOMAIN Extended(writing[w], memory[w]) = 1..(Len(file) + 1)
                 /\ \A j \in 1..Len(file) : Extended(writing[w], memory[w])[j] = file[j]
                 /\ Extended(writing[w], memory[w])[Len(file) + 1].type = "CORRECTION"
<1> DEFINE log == memory[w]
           call == writing[w]
<1>1. IsLog(log) /\ Told(log) /\ Known(log)
  BY DEF ReconcilesInv, LogsInv, EquityInv, KnownInv
<1>2. call.step \in {"append", "correct", "episode"} /\ InTurn(w)
  BY InTurnAlone DEF Calling
<1>3. CASE call.step = "append"
  <2>1. /\ w = Trader /\ due # <<>> /\ call.event = due[1] /\ due[1].type \in Types
        /\ FactOK(due[1].type, due[1].fact)
    BY <1>2, <1>3 DEF InTurn, TraderCalls, ClerkCalls, ReconcilesInv, DueInv, EquityInv, KnownInv
  <2>2. Extended(call, log) = Append(log, due[1])
    BY <1>3, <2>1 DEF Extended
  <2> QED BY <1>1, <1>3, <2>1, <2>2, FactIsKnown
<1>4. CASE call.step = "correct"
  <2>1. w = Trader /\ due = <<>> /\ exists /\ memory[Trader] = file
    BY <1>2, <1>4 DEF InTurn, TraderCalls, ClerkCalls
  <2>2. Corrects(log, call)
    BY <1>4, <2>1 DEF EquityInv, AsRecordedInv
  <2>3. Extended(call, log) = Append(log, Correction(call)) /\ log = file
    BY <1>4, <2>1 DEF Extended
  <2> HIDE DEF call, log
  <2>4. Known(Append(log, Correction(call))) /\ IsLog(Append(log, Correction(call)))
    BY <1>1, <2>2, CorrectionIsKnown, CorrectionIsTold DEF Corrects
  <2>5. Position(Replay(Append(log, Correction(call)))) = Position(Replay(log))
    BY <1>1, <2>2, CorrectionKeepsPosition
  <2>6. /\ Len(Append(log, Correction(call))) = Len(log) + 1
        /\ \A j \in 1..Len(log) : Append(log, Correction(call))[j] = log[j]
        /\ Append(log, Correction(call))[Len(log) + 1] = Correction(call)
    BY <1>1, Longer
  <2>7. Len(log) \in Nat /\ DOMAIN Append(log, Correction(call)) = 1..(Len(log) + 1)
    BY <1>1, <2>4, <2>6 DEF IsLog
  <2>8. Correction(call).type = "CORRECTION"
    BY DEF Correction
  <2> QED BY <1>4, <2>1, <2>3, <2>4, <2>5, <2>6, <2>7, <2>8 DEF call, log
<1>5. CASE call.step = "episode"
  <2>1. w # Trader /\ call.of \in Episode
    BY <1>2, <1>5 DEF InTurn, TraderCalls, ClerkCalls
  <2>2. Extended(call, log) = IF Recorded(log, call.of) THEN log ELSE log \o Facts(call.of)
    BY <1>5 DEF Extended
  <2>3. Known(log \o Facts(call.of))
    BY <1>1, <2>1, EpisodeIsKnown
  <2> QED BY <1>1, <1>5, <2>1, <2>2, <2>3
<1> QED BY <1>2, <1>3, <1>4, <1>5

LEMMA WriteKeepsEquity ==
    ASSUME AuditAssumption, ReconcilesInv, EquityInv, NEW w \in Writer, Write(w)
    PROVE  EquityInv'
<1> DEFINE left == Extended(writing[w], memory[w])
<1>0. ReconcilesInv' /\ Trader \in Writer
  BY WriteKeepsReconciles, WriterIs
<1>1. /\ Calling(w) /\ memory' = [memory EXCEPT ![w] = left]
      /\ file' = (IF memory'[w] # memory[w] THEN memory'[w] ELSE file)
      /\ writing' = [writing EXCEPT ![w] = [step |-> "written", of |-> writing[w].step]]
      /\ UNCHANGED <<account, due>>
  BY DEF Write
<1>2. /\ \A v \in Writer : memory'[v] = IF v = w THEN left ELSE memory[v]
      /\ \A v \in Writer : writing'[v] = IF v = w THEN [step |-> "written", of |-> writing[w].step]
                                         ELSE writing[v]
  BY <1>1 DEF ReconcilesInv, LogsInv, TurnsInv
<1>3. Known(left)
  BY <1>1, ExtendedKnown
<1>4. file' \in {file, left} /\ (writing[w].step = "correct" => file' = left)
  <2>1. memory'[w] = left
    BY <1>2
  <2>2. writing[w].step = "correct" => memory[w] = file
    BY <1>1, ExtendedKnown
  <2> QED BY <1>1, <2>1, <2>2
<1>5. KnownInv'
  BY <1>1, <1>2, <1>3, <1>4 DEF EquityInv, KnownInv
<1>6. CASE w = Trader
  <2>1. Entered' /\ writing'[Trader].step = "written"
    BY <1>0, <1>2, <1>6 DEF Entered
  <2>2. CASE writing[w].step # "correct"
    <3>1. due' # <<>>
      BY <1>1, <1>6, <2>2, ExtendedKnown
    <3>2. AsRecordedInv'
      BY <2>1, <3>1 DEF AsRecordedInv
    <3>3. BooksInv'
      BY <1>1, <3>1 DEF EquityInv, BooksInv
    <3> QED BY <1>5, <3>2, <3>3 DEF EquityInv
  <2>3. CASE writing[w].step = "correct"
    <3>1. /\ due = <<>> /\ Position(Replay(left)) = Position(Replay(file)) /\ file' = left
          /\ memory'[Trader] = left
      BY <1>1, <1>2, <1>4, <1>6, <2>3, ExtendedKnown
    <3>2. AsRecordedInv'
      BY <2>1, <3>1 DEF AsRecordedInv
    <3>3. ~Entered
      BY <1>6, <2>3 DEF Entered
    <3>4. Replay(file) = Unreserved(account)
      BY <3>1, <3>3 DEF ReconcilesInv, BalanceInv
    <3>5. Position(Unreserved(account)) = Position(account)
      BY MarginIsAside DEF Unreserved, EquityInv, BooksInv
    <3>6. BooksInv'
      <4>1. account' = account /\ due' = due
        BY <1>1
      <4>2. Position(Replay(file')) = Position(account)
        BY <3>1, <3>4, <3>5
      <4> QED BY <3>1, <4>1, <4>2 DEF EquityInv, BooksInv
    <3> QED BY <1>5, <3>2, <3>6 DEF EquityInv
  <2> QED BY <2>2, <2>3
<1>7. CASE w # Trader
  <2>1. memory'[Trader] = memory[Trader] /\ writing'[Trader] = writing[Trader]
    BY <1>0, <1>2, <1>7
  <2>2. w \in Clerk /\ writing[Trader] = AtRest /\ writing[w].step = "episode" /\ memory[w] = file
    <3>1. writing[w].step \in {"append", "correct", "episode"}
      BY <1>1 DEF Calling
    <3>2. InTurn(w) /\ writing[Trader] = AtRest
      BY <1>0, <1>7, <3>1, InTurnAlone
    <3>3. w \in Clerk
      BY <1>7, WriterIs
    <3>4. writing[w].step = "episode" /\ (exists => memory[w] = file)
      BY <1>7, <3>1, <3>2 DEF InTurn, ClerkCalls
    <3>5. ~exists => memory[w] = file
      BY <3>3 DEF ReconcilesInv, AbsentInv
    <3> QED BY <3>2, <3>3, <3>4, <3>5
  <2>3. \A j \in DOMAIN file : file'[j] = file[j]
    <3>1. IsLog(file) /\ DOMAIN file = 1..Len(file)
      BY DEF ReconcilesInv, LogsInv, IsLog
    <3>2. left \in {file, file \o Facts(writing[w].of)}
      BY <2>2 DEF Extended
    <3>3. \A j \in 1..Len(file) : (file \o Facts(writing[w].of))[j] = file[j]
      BY <3>1, Joined
    <3> HIDE DEF left
    <3> QED BY <1>4, <3>1, <3>2, <3>3
  <2>4. AsRecordedInv'
    <3>1. due = <<>> => \A j \in DOMAIN memory[Trader] :
              memory[Trader][j].type # "CORRECTION" => j \in DOMAIN file /\ memory[Trader][j] = file[j]
      BY DEF ReconcilesInv, PlacesInv, EquityInv, AsRecordedInv
    <3> QED BY <1>1, <2>1, <2>2, <2>3, <3>1 DEF AsRecordedInv, AtRest
  <2>5. ~Entered /\ ~Entered'
    BY <2>1, <2>2 DEF Entered, AtRest
  <2>6. BooksInv'
    BY <1>1, <2>5 DEF EquityInv, BooksInv
  <2> QED BY <1>5, <2>4, <2>6 DEF EquityInv
<1> QED BY <1>6, <1>7

LEMMA WriteFailsKeepsEquity ==
    ASSUME AuditAssumption, ReconcilesInv, EquityInv, NEW w \in Writer, WriteFails(w)
    PROVE  EquityInv'
<1> DEFINE left == Extended(writing[w], memory[w])
<1>0. Trader \in Writer /\ Calling(w) /\ writing[w].step \in {"append", "correct", "episode"}
  BY WriterIs DEF WriteFails, Calling
<1>1. /\ writing' = [writing EXCEPT ![w] = AtRest]
      /\ UNCHANGED <<account, due>>
      /\ writing[w].step = "episode" => memory' = memory /\ file' \in {file, memory[w]}
      /\ writing[w].step # "episode" => memory' = [memory EXCEPT ![w] = left] /\ file' = file
  BY DEF WriteFails, Leaves
<1>2. /\ \A v \in Writer : writing'[v] = IF v = w THEN AtRest ELSE writing[v]
      /\ \A v \in Writer : v # w => memory'[v] = memory[v]
      /\ writing[w].step # "episode" => memory'[w] = left
  BY <1>1 DEF ReconcilesInv, LogsInv, TurnsInv
<1>3. InTurn(w) /\ \A v \in Writer : v # w => writing[v] = AtRest
  BY <1>0, InTurnAlone
<1>4. writing'[Trader] = AtRest /\ ~Entered /\ ~Entered'
  <2>1. writing'[Trader] = AtRest
    BY <1>0, <1>2, <1>3
  <2>2. ~Entered
    BY <1>0, <1>3 DEF Entered, AtRest
  <2> QED BY <2>1, <2>2 DEF Entered, AtRest
<1>5. BooksInv'
  BY <1>1, <1>4 DEF EquityInv, BooksInv
<1>6. CASE writing[w].step = "episode"
  <2>1. w \in Clerk /\ (exists => memory[w] = file)
    BY <1>3, <1>6, WriterIs DEF InTurn, TraderCalls, ClerkCalls
  <2>2. memory[w] = file
    BY <2>1 DEF ReconcilesInv, AbsentInv
  <2>3. memory' = memory /\ file' = file
    BY <1>1, <1>6, <2>2
  <2>4. KnownInv' /\ AsRecordedInv'
    BY <1>1, <1>4, <2>3 DEF EquityInv, KnownInv, AsRecordedInv, AtRest
  <2> QED BY <1>5, <2>4 DEF EquityInv
<1>7. CASE writing[w].step # "episode"
  <2>1. w = Trader
    BY <1>0, <1>3, <1>7 DEF InTurn, ClerkCalls
  <2>2. Known(left) /\ memory'[Trader] = left /\ file' = file
    BY <1>0, <1>1, <1>2, <1>7, <2>1, ExtendedKnown
  <2>3. KnownInv'
    BY <1>1, <1>2, <2>1, <2>2 DEF EquityInv, KnownInv
  <2>4. ASSUME due = <<>>, NEW j \in DOMAIN left, left[j].type # "CORRECTION"
        PROVE  left[j] = file[j]
    <3>1. writing[w].step = "correct"
      BY <1>0, <2>1, <2>4, ExtendedKnown
    <3>2. /\ Len(file) \in Nat /\ DOMAIN left = 1..(Len(file) + 1)
          /\ \A k \in 1..Len(file) : left[k] = file[k]
          /\ left[Len(file) + 1].type = "CORRECTION"
      BY <1>0, <3>1, ExtendedKnown
    <3> HIDE DEF left
    <3>3. j \in 1..Len(file)
      <4>1. j \in 1..(Len(file) + 1) /\ j # Len(file) + 1
        BY <2>4, <3>2
      <4> QED BY <3>2, <4>1
    <3> QED BY <3>2, <3>3
  <2> HIDE DEF left
  <2>5. AsRecordedInv'
    BY <1>1, <1>4, <2>2, <2>4 DEF AsRecordedInv, AtRest
  <2> QED BY <1>5, <2>3, <2>5 DEF EquityInv
<1> QED BY <1>6, <1>7

LEMMA ReturnKeepsEquity ==
    ASSUME AuditAssumption, ReconcilesInv, EquityInv, NEW w \in Writer, Return(w)
    PROVE  EquityInv'
<1>0. Trader \in Writer /\ writing[w].step = "written"
  BY WriterIs DEF Return
<1>1. InTurn(w) /\ \A v \in Writer : v # w => writing[v] = AtRest
  BY <1>0, InTurnAlone
<1>2. /\ writing' = [writing EXCEPT ![w] = AtRest]
      /\ UNCHANGED <<exists, file, memory>>
      /\ due' = IF writing[w].of = "append" THEN Tail(due) ELSE due
      /\ account' = IF writing[w].of = "correct"
                    THEN [Replay(memory[w]) EXCEPT !.margin = account.margin] ELSE account
  BY DEF Return, Leaves
<1>3. writing'[Trader] = AtRest /\ ~Entered'
  <2>1. \A v \in Writer : writing'[v] = IF v = w THEN AtRest ELSE writing[v]
    BY <1>2 DEF ReconcilesInv, TurnsInv
  <2>2. writing'[Trader] = AtRest
    BY <1>0, <1>1, <2>1
  <2> QED BY <2>2 DEF Entered, AtRest
<1>4. CASE w = Trader
  <2>1. /\ exists /\ memory[Trader] = file /\ Entered
        /\ (IF due # <<>> THEN writing[Trader].of = "append" ELSE writing[Trader].of = "correct")
    BY <1>0, <1>1, <1>4 DEF InTurn, TraderCalls, Entered
  <2>2. due' = <<>>
    <3>1. CASE due # <<>>
      <4>1. due = <<due[1]>>
        BY <3>1 DEF ReconcilesInv, DueInv
      <4>2. Tail(<<due[1]>>) = <<>>
        OBVIOUS
      <4> QED BY <1>2, <1>4, <2>1, <3>1, <4>1, <4>2
    <3>2. CASE due = <<>>
      BY <1>2, <1>4, <2>1, <3>2
    <3> QED BY <3>1, <3>2
  <2>3. KnownInv'
    BY <1>2, <2>2 DEF EquityInv, KnownInv
  <2>4. AsRecordedInv'
    BY <1>2, <1>3, <2>1, <2>2 DEF AsRecordedInv, AtRest
  <2>5. Balanced(account') /\ Profits(account')
    <3>1. Balanced(account) /\ Profits(account)
      BY DEF EquityInv, BooksInv
    <3>2. CASE due # <<>>
      BY <1>2, <1>4, <2>1, <3>1, <3>2
    <3>3. CASE due = <<>>
      <4>1. account' = [Replay(file) EXCEPT !.margin = account.margin]
        BY <1>2, <1>4, <2>1, <3>3
      <4>2. Balanced(Replay(file))
        BY ReplayIsBalanced DEF ReconcilesInv, LogsInv, EquityInv, KnownInv
      <4>3. Position(Replay(file)) = Position(account)
        BY <2>1, <3>3 DEF EquityInv, BooksInv
      <4>4. Balanced(account') /\ Position(account') = Position(account)
        BY <4>1, <4>2, <4>3, MarginIsAside
      <4> QED BY <3>1, <4>4, ProfitsOfPosition
    <3> QED BY <3>2, <3>3
  <2>6. BooksInv'
    BY <1>3, <2>2, <2>5 DEF BooksInv
  <2> QED BY <2>3, <2>4, <2>6 DEF EquityInv
<1>5. CASE w # Trader
  <2>1. writing[w].of = "episode" /\ ~Entered
    BY <1>0, <1>1, <1>5 DEF InTurn, ClerkCalls, Entered, AtRest
  <2>2. UNCHANGED <<account, due, exists, file, memory>>
    BY <1>2, <2>1
  <2>3. KnownInv' /\ AsRecordedInv'
    BY <1>3, <2>2 DEF EquityInv, KnownInv, AsRecordedInv, AtRest
  <2>4. BooksInv'
    BY <1>3, <2>2 DEF EquityInv, BooksInv
  <2> QED BY <2>3, <2>4 DEF EquityInv
<1> QED BY <1>4, <1>5

\* What a process knows after a crash is in the file; the fact that is due
\* is given to the account again, and counts once.
LEMMA CrashKeepsEquity ==
    ASSUME AuditAssumption, ReconcilesInv, EquityInv, NEW w \in Writer, Crash(w)
    PROVE  EquityInv'
<1>0. Trader \in Writer
  BY WriterIs
<1>1. /\ memory' = [memory EXCEPT ![w] = file] /\ writing' = [writing EXCEPT ![w] = AtRest]
      /\ UNCHANGED <<due, exists, file>>
      /\ account' = IF w # Trader THEN account
                    ELSE IF due = <<>> THEN Replay(file)
                    ELSE Replayed(Head(due).type, Replay(file), Head(due).fact)
  BY DEF Crash
<1>2. /\ \A v \in Writer : memory'[v] = IF v = w THEN file ELSE memory[v]
      /\ \A v \in Writer : writing'[v] = IF v = w THEN AtRest ELSE writing[v]
  BY <1>1 DEF ReconcilesInv, LogsInv, TurnsInv
<1>3. KnownInv'
  BY <1>1, <1>2 DEF EquityInv, KnownInv
<1>4. CASE w # Trader
  <2>1. memory'[Trader] = memory[Trader] /\ writing'[Trader] = writing[Trader]
        /\ UNCHANGED <<account, due, file>>
    BY <1>0, <1>1, <1>2, <1>4
  <2>2. AsRecordedInv' /\ BooksInv'
    BY <2>1 DEF EquityInv, AsRecordedInv, BooksInv, Entered
  <2> QED BY <1>3, <2>2 DEF EquityInv
<1>5. CASE w = Trader
  <2>1. writing'[Trader] = AtRest /\ memory'[Trader] = file /\ ~Entered'
    BY <1>0, <1>2, <1>5 DEF Entered, AtRest
  <2>2. AsRecordedInv'
    BY <1>1, <2>1 DEF AsRecordedInv, AtRest
  <2>3. Balanced(account) /\ Profits(account) /\ IsAccount(account)
    BY DEF EquityInv, BooksInv, Balanced
  <2>4. Balanced(Unreserved(account)) /\ Position(Unreserved(account)) = Position(account)
    BY <2>3, MarginIsAside DEF Unreserved
  <2>5. CASE due = <<>>
    <3>1. account' = Replay(file)
      BY <1>1, <1>5, <2>5
    <3>2. Balanced(Replay(file))
      BY ReplayIsBalanced DEF ReconcilesInv, LogsInv, EquityInv, KnownInv
    <3>3. Position(Replay(file)) = Position(account)
      <4>1. CASE Entered
        BY <2>5, <4>1 DEF EquityInv, BooksInv
      <4>2. CASE ~Entered
        BY <2>4, <2>5, <4>2 DEF ReconcilesInv, BalanceInv
      <4> QED BY <4>1, <4>2
    <3>4. Profits(account')
      BY <2>3, <3>1, <3>3, ProfitsOfPosition
    <3>5. BooksInv'
      BY <1>1, <2>1, <2>5, <3>1, <3>2, <3>4 DEF BooksInv
    <3> QED BY <1>3, <2>2, <3>5 DEF EquityInv
  <2>6. CASE due # <<>>
    <3> DEFINE type == due[1].type
               fact == due[1].fact
    <3>1. Head(due) = due[1] /\ type \in Types
      BY <2>6 DEF ReconcilesInv, DueInv
    <3>2. account' = Replayed(type, Replay(file), fact)
      BY <1>1, <1>5, <2>6, <3>1
    <3>3. Replayed(type, account, fact) = account
      BY <2>6 DEF EquityInv, BooksInv
    <3>4. account' = Unreserved(account)
      <4>1. CASE Entered
        <5>1. Replay(file) = Unreserved(account)
          BY <2>6, <4>1 DEF ReconcilesInv, BalanceInv
        <5>2. Replayed(type, Unreserved(account), fact) = Unreserved(Replayed(type, account, fact))
          BY <2>3, <3>1, FactCountsOnce
        <5> QED BY <3>2, <3>3, <5>1, <5>2
      <4>2. CASE ~Entered
        BY <2>6, <3>2, <4>2 DEF ReconcilesInv, BalanceInv
      <4> QED BY <4>1, <4>2
    <3>5. Replayed(type, account', fact) = account'
      <4>1. Replayed(type, Unreserved(account), fact) = Unreserved(Replayed(type, account, fact))
        BY <2>3, <3>1, FactCountsOnce
      <4> QED BY <3>3, <3>4, <4>1
    <3>6. Profits(account')
      BY <2>3, <2>4, <3>4, ProfitsOfPosition
    <3>7. BooksInv'
      <4>1. due' = due
        BY <1>1
      <4> QED BY <2>4, <2>6, <3>4, <3>5, <3>6, <4>1 DEF BooksInv
    <3> QED BY <1>3, <2>2, <3>7 DEF EquityInv
  <2> QED BY <2>5, <2>6
<1> QED BY <1>4, <1>5

LEMMA EquityStep ==
    AuditAssumption /\ ReconcilesInv /\ EquityInv /\ [AuditNext]_auditVars => EquityInv'
<1> SUFFICES ASSUME AuditAssumption, ReconcilesInv, EquityInv, [AuditNext]_auditVars PROVE EquityInv'
  OBVIOUS
<1>1. ASSUME UNCHANGED auditVars PROVE EquityInv'
  <2>1. UNCHANGED <<account, due, exists, file, memory, locked, writing>>
    BY <1>1 DEF auditVars
  <2> QED BY <2>1 DEF EquityInv, KnownInv, AsRecordedInv, BooksInv, Entered
<1> QED BY <1>1, OpensKeepsEquity, ClosesKeepsEquity, SettlesKeepsEquity, MarginKeepsEquity,
       AppendDueKeepsEquity, CorrectFactKeepsEquity, RecordEpisodeKeepsEquity, WriteKeepsEquity,
       WriteFailsKeepsEquity, ReturnKeepsEquity, CrashKeepsEquity DEF AuditNext

(***************************************************************************)
(* The account is balanced and its profit is what its fills have brought   *)
(* in; a fact that was given and not yet recorded is in it; and a replay   *)
(* after a correction of a fee gives the position it had.                  *)
(***************************************************************************)
THEOREM AuditEquityInductive == AuditSpec => []EquityInv
<1>1. AuditInit => EquityInv
  BY AuditAssumption, EquityInit
<1>2. ReconcilesInv /\ EquityInv /\ [AuditNext]_auditVars => EquityInv'
  BY AuditAssumption, EquityStep
<1>3. QED
  BY <1>1, <1>2, AuditReconcilesInductive, PTL DEF AuditSpec

(***************************************************************************)
(* No profit is lost or made up, at any price, by any closing of lots,     *)
(* settlement, correction, crash or replay, and the cash is accounted for. *)
(* (SimulationAccount.close, settle and assert_conservation.)              *)
(***************************************************************************)
THEOREM AuditEquityKept == AuditSpec => []EquityKept
<1>1. EquityInv => EquityKept
  BY DEF EquityInv, BooksInv, Balanced, Profits, EquityKept, Unrealized, Value
<1>2. QED
  BY <1>1, AuditEquityInductive, PTL

-----------------------------------------------------------------------------
(***************************************************************************)
(* ManualApprovals, for every number of processes, commands and mishaps.   *)
(***************************************************************************)
Record == [status: {"NONE", "REQUESTED", "GRANTED", "REJECTED", "EXPIRED", "CONSUMED"},
           shadow: {"NONE", "CLAIMED", "COMPLETED"}]

(***************************************************************************)
(* Under the lock a store knows what the file says, once there is a file;  *)
(* and whoever runs a shadow, or is about to complete one, was granted it: *)
(* then there is a file, and its record cannot go back.                    *)
(***************************************************************************)
ApprovalInv ==
    /\ record \in Record
    /\ known \in [Store -> Record]
    /\ command \in [Store -> Commands \cup {"none", "run", "complete"}]
    /\ runs \in Nat
    /\ flock \in Store \cup {NoStore}
    /\ flock # NoStore /\ record # NoRecord => known[flock] = record
    /\ \A s \in Store : command[s] \in {"run", "complete"} => runs = 1
    /\ ShadowRunsOnce

LEMMA InitApprovalInv == ApprovalInit => ApprovalInv
BY DEF ApprovalInit, ApprovalInv, Record, NoRecord, Commands, ShadowRunsOnce

\* What a method makes of the record its store knows.
LEMMA AfterType == ASSUME ApprovalInv, NEW s \in Store PROVE After(s) \in Record
<1>1. known[s] \in Record
  BY DEF ApprovalInv
<1>2. \A status \in {"REQUESTED", "GRANTED", "REJECTED", "EXPIRED", "CONSUMED"} : InStatus(status) \in Record
  BY DEF InStatus, Record
<1>3. Shadowed("CLAIMED") \in Record /\ Shadowed("COMPLETED") \in Record
  BY DEF Shadowed, Record
<1> QED BY <1>1, <1>2, <1>3 DEF After

\* A claimed shadow can only be completed, and only by a "complete".
LEMMA AfterClaim ==
    ASSUME NEW s \in Store, known[s].status = "CONSUMED", known[s].shadow # "NONE"
    PROVE  \/ After(s) = known[s]
           \/ command[s] = "complete" /\ After(s) = Shadowed("COMPLETED")
<1>1. known[s] # NoRecord /\ ~ Claimable(known[s])
  BY DEF NoRecord, Claimable, InStatus
<1>2. ~ Expires(s)
  BY DEF Expires, Lapsed
<1> QED BY <1>1, <1>2 DEF After

\* A record gets its shadow by a claim; and it is completed by a "complete".
LEMMA AfterShadow ==
    ASSUME NEW s \in Store, known[s] \in Record, After(s) # known[s]
    PROVE  /\ command[s] = "claim" => After(s) = Shadowed("CLAIMED") /\ known[s] = InStatus("CONSUMED")
           /\ After(s).shadow = "COMPLETED" => command[s] = "complete"
           /\ After(s).shadow \in {"NONE", "CLAIMED", "COMPLETED"}
<1>1. \A status : InStatus(status).shadow = "NONE"
  BY DEF InStatus
<1>2. Shadowed("CLAIMED").shadow = "CLAIMED" /\ Shadowed("COMPLETED").shadow = "COMPLETED"
  BY DEF Shadowed
<1> QED BY <1>1, <1>2 DEF After, Claimable

(***************************************************************************)
(* What a changed record means for the file it is written to.              *)
(***************************************************************************)
LEMMA WrittenRecord ==
    ASSUME ApprovalInv, NEW s \in Store, flock = s, Changes(s)
    PROVE  /\ After(s) \in Record
           /\ runs = 1 => After(s).status = "CONSUMED" /\ After(s).shadow # "NONE"
           /\ After(s).shadow = "COMPLETED" => runs = 1
           /\ command[s] = "claim" => runs = 0 /\ After(s) = Shadowed("CLAIMED")
<1>1. runs = 1 => known[s] = record /\ record.status = "CONSUMED" /\ record.shadow # "NONE"
  <2>1. s # NoStore
    BY ApprovalAssumption
  <2>2. runs = 1 => record # NoRecord
    BY DEF ApprovalInv, ShadowRunsOnce, NoRecord
  <2> QED BY <2>1, <2>2 DEF ApprovalInv, ShadowRunsOnce
<1>2. /\ command[s] = "claim" => After(s) = Shadowed("CLAIMED") /\ known[s] = InStatus("CONSUMED")
      /\ After(s).shadow = "COMPLETED" => command[s] = "complete"
  BY AfterShadow DEF ApprovalInv, Changes
<1>3. runs = 1 => After(s) = Shadowed("COMPLETED")
  BY <1>1, AfterClaim DEF Changes
<1>4. Shadowed("COMPLETED").status = "CONSUMED" /\ Shadowed("COMPLETED").shadow = "COMPLETED"
  BY DEF Shadowed
<1>5. command[s] = "claim" => runs # 1
  BY <1>1, <1>2 DEF InStatus
<1>6. runs \in {0, 1}
  BY DEF ApprovalInv, ShadowRunsOnce
<1> QED BY <1>2, <1>3, <1>4, <1>5, <1>6, AfterType DEF ApprovalInv

LEMMA BeginKeeps ==
    ASSUME ApprovalInv, NEW s \in Store, NEW method \in Commands \cup {"complete"}, Begin(s, method)
    PROVE  ApprovalInv'
<1>1. Refreshed(s) \in Record /\ (record # NoRecord => Refreshed(s) = record)
  BY DEF ApprovalInv, Refreshed
<1>2. method = "complete" => command[s] = "run"
  BY DEF Begin, Commands
<1>3. known' \in [Store -> Record] /\ known'[s] = Refreshed(s)
  BY <1>1 DEF Begin, ApprovalInv
<1>4. command' = [command EXCEPT ![s] = method] /\ UNCHANGED <<record, runs>> /\ flock' = s
  BY DEF Begin
<1>5. \A t \in Store : command'[t] \in {"run", "complete"} => runs = 1
  BY <1>2, <1>4 DEF ApprovalInv, Commands
<1>6. /\ command' \in [Store -> Commands \cup {"none", "run", "complete"}]
      /\ ShadowRunsOnce'
  BY <1>4 DEF ApprovalInv, ShadowRunsOnce
<1> QED BY <1>1, <1>3, <1>4, <1>5, <1>6 DEF ApprovalInv

\* A claim that is granted is the first run; any other write lets none run.
LEMMA AnswerKeeps == ASSUME ApprovalInv, NEW s \in Store, Answer(s) PROVE ApprovalInv'
<1>1. known' \in [Store -> Record] /\ flock' = NoStore
  BY AfterType DEF Answer, ApprovalInv
<1> DEFINE granted == command[s] = "claim" /\ Changes(s)
<1>2. /\ command' = [command EXCEPT ![s] = IF granted THEN "run" ELSE "none"]
      /\ runs' = IF granted THEN runs + 1 ELSE runs
      /\ record' = IF Changes(s) THEN After(s) ELSE record
      /\ flock = s
  BY DEF Answer
<1>3. granted => runs = 0 /\ record' = Shadowed("CLAIMED")
  BY <1>2, WrittenRecord
<1>4. Shadowed("CLAIMED").status = "CONSUMED" /\ Shadowed("CLAIMED").shadow = "CLAIMED"
  BY DEF Shadowed
<1>5. record' \in Record /\ runs' \in Nat
  BY <1>2, WrittenRecord DEF ApprovalInv
<1>6. command' \in [Store -> Commands \cup {"none", "run", "complete"}]
  BY <1>2 DEF ApprovalInv
<1>7. \A t \in Store : command'[t] \in {"run", "complete"} => runs' = 1
  <2>1. CASE granted
    BY <1>2, <1>3, <2>1
  <2>2. CASE ~ granted
    BY <1>2, <2>2 DEF ApprovalInv
  <2> QED BY <2>1, <2>2
<1>8. ShadowRunsOnce'
  <2>1. CASE granted
    BY <1>2, <1>3, <1>4, <2>1 DEF ShadowRunsOnce
  <2>2. CASE ~ granted /\ Changes(s)
    BY <1>2, <2>2, WrittenRecord DEF ApprovalInv, ShadowRunsOnce
  <2>3. CASE ~ Changes(s)
    BY <1>2, <2>3 DEF ApprovalInv, ShadowRunsOnce
  <2> QED BY <2>1, <2>2, <2>3
<1> HIDE DEF granted
<1> QED BY <1>1, <1>5, <1>6, <1>7, <1>8 DEF ApprovalInv

LEMMA AnswerFailsKeeps == ASSUME ApprovalInv, NEW s \in Store, AnswerFails(s) PROVE ApprovalInv'
<1>1. known' \in [Store -> Record] /\ flock' = NoStore
  BY AfterType DEF AnswerFails, ApprovalInv
<1>2. command' = [command EXCEPT ![s] = "none"] /\ UNCHANGED <<record, runs>>
  BY DEF AnswerFails
<1> QED BY <1>1, <1>2 DEF ApprovalInv, ShadowRunsOnce

\* The file may have been written before the process died: a claim that
\* nobody was told of lets nothing run.
LEMMA KilledKeeps == ASSUME ApprovalInv, NEW s \in Store, Killed(s) PROVE ApprovalInv'
<1>1. /\ command' = [command EXCEPT ![s] = "none"] /\ UNCHANGED runs
      /\ known' = [known EXCEPT ![s] = record']
      /\ flock' = IF flock = s THEN NoStore ELSE flock
  BY DEF Killed
<1>2. record' = record \/ (flock = s /\ Changes(s) /\ record' = After(s))
  BY DEF Killed
<1>3. CASE record' = record
  <2>1. known' \in [Store -> Record] /\ command' \in [Store -> Commands \cup {"none", "run", "complete"}]
    BY <1>1, <1>3 DEF ApprovalInv
  <2> QED BY <1>1, <1>3, <2>1 DEF ApprovalInv, ShadowRunsOnce
<1>4. CASE flock = s /\ Changes(s) /\ record' = After(s)
  <2>1. record' \in Record /\ ShadowRunsOnce'
    BY <1>1, <1>4, WrittenRecord DEF ApprovalInv, ShadowRunsOnce
  <2>2. known' \in [Store -> Record] /\ command' \in [Store -> Commands \cup {"none", "run", "complete"}]
    BY <1>1, <2>1 DEF ApprovalInv
  <2> QED BY <1>1, <1>4, <2>1, <2>2 DEF ApprovalInv
<1> QED BY <1>2, <1>3, <1>4

LEMMA NextApprovalInv == ApprovalInv /\ [ApprovalNext]_approvalVars => ApprovalInv'
<1> SUFFICES ASSUME ApprovalInv, [ApprovalNext]_approvalVars PROVE ApprovalInv'
  OBVIOUS
<1>1. CASE Lapse
  BY <1>1 DEF Lapse, ApprovalInv, ShadowRunsOnce
<1>2. CASE UNCHANGED approvalVars
  BY <1>2 DEF approvalVars, ApprovalInv, ShadowRunsOnce
<1> QED BY <1>1, <1>2, BeginKeeps, AnswerKeeps, AnswerFailsKeeps, KilledKeeps DEF ApprovalNext

(***************************************************************************)
(* One shadow episode for a consumed approval, by any number of processes: *)
(* claim_shadow() writes the claim under the file's lock, after a reload.  *)
(***************************************************************************)
THEOREM OneShadow == ApprovalSpec => []ShadowRunsOnce
<1>1. ApprovalInv => ShadowRunsOnce
  BY DEF ApprovalInv
<1> QED BY <1>1, InitApprovalInv, NextApprovalInv, PTL DEF ApprovalSpec

-----------------------------------------------------------------------------
(***************************************************************************)
(* ProtectiveActions, for every set of idempotency keys and any number of  *)
(* validations, failed writes and restarts.                                *)
(***************************************************************************)
(***************************************************************************)
(* An action in the file is the one in memory, and the one every caller    *)
(* was given: memory may be ahead of the file, never beside it.            *)
(***************************************************************************)
ProtectionInv ==
    /\ actions \in [Key -> Nat] /\ stored \in [Key -> Nat] /\ validations \in Nat
    /\ issued \in [Key -> SUBSET Nat]
    /\ \A k \in Key :
          /\ stored[k] # 0 => actions[k] = stored[k]
          /\ issued[k] # {} => issued[k] = {stored[k]} /\ stored[k] # 0

LEMMA InitProtectionInv == ProtectionInit => ProtectionInv
BY DEF ProtectionInit, ProtectionInv

\* A new action is never 0, and an action that is there stays.
LEMMA WithActionType ==
    ASSUME ProtectionInv, NEW k \in Key
    PROVE  /\ WithAction(k) \in [Key -> Nat] /\ WithAction(k)[k] # 0
           /\ \A j \in Key : actions[j] # 0 => WithAction(k)[j] = actions[j]
BY DEF ProtectionInv, WithAction

LEMMA IssueKeeps == ASSUME ProtectionInv, NEW k \in Key, Issue(k) PROVE ProtectionInv'
<1>1. /\ actions' = WithAction(k) /\ stored' = actions' /\ validations' = validations + 1
      /\ issued' = [issued EXCEPT ![k] = @ \cup {actions'[k]}]
  BY DEF Issue, Validates, Persisted
<1>2. /\ actions' \in [Key -> Nat] /\ actions'[k] # 0
      /\ \A j \in Key : actions[j] # 0 => actions'[j] = actions[j]
  BY <1>1, WithActionType
<1>3. validations' \in Nat /\ stored' \in [Key -> Nat] /\ issued' \in [Key -> SUBSET Nat]
  <2>1. actions'[k] \in Nat
    BY <1>2
  <2>2. issued[k] \cup {actions'[k]} \in SUBSET Nat
    BY <2>1 DEF ProtectionInv
  <2>3. issued' \in [Key -> SUBSET Nat]
    BY <1>1, <2>2 DEF ProtectionInv
  <2> QED BY <1>1, <1>2, <2>3 DEF ProtectionInv
<1>4. ASSUME NEW j \in Key, issued'[j] # {} PROVE issued'[j] = {stored'[j]} /\ stored'[j] # 0
  <2>1. issued[j] # {} => issued[j] = {actions'[j]} /\ actions'[j] # 0
    BY <1>2 DEF ProtectionInv
  <2>2. issued'[j] = IF j = k THEN issued[k] \cup {actions'[k]} ELSE issued[j]
    BY <1>1 DEF ProtectionInv
  <2> QED BY <1>1, <1>2, <1>4, <2>1, <2>2
<1> QED BY <1>1, <1>2, <1>3, <1>4 DEF ProtectionInv

LEMMA IssueFailsKeeps == ASSUME ProtectionInv, NEW k \in Key, IssueFails(k) PROVE ProtectionInv'
<1>1. actions' = WithAction(k) /\ validations' = validations + 1 /\ UNCHANGED <<stored, issued>>
  BY DEF IssueFails, Validates
<1> QED BY <1>1, WithActionType DEF ProtectionInv

LEMMA NextProtectionInv == ProtectionInv /\ [ProtectionNext]_protectionVars => ProtectionInv'
<1> SUFFICES ASSUME ProtectionInv, [ProtectionNext]_protectionVars PROVE ProtectionInv'
  OBVIOUS
<1>1. CASE Restart
  BY <1>1 DEF Restart, ProtectionInv
<1>2. CASE UNCHANGED protectionVars
  BY <1>2 DEF protectionVars, ProtectionInv
<1> QED BY <1>1, <1>2, IssueKeeps, IssueFailsKeeps DEF ProtectionNext

(***************************************************************************)
(* A request that was answered has one action for good, through failed     *)
(* writes and restarts: issue() writes the file before it returns.         *)
(***************************************************************************)
THEOREM AnswersAgree == ProtectionSpec => []OneActionPerRequest
<1>1. ProtectionInv => OneActionPerRequest
  BY DEF ProtectionInv, OneActionPerRequest
<1> QED BY <1>1, InitProtectionInv, NextProtectionInv, PTL DEF ProtectionSpec
=============================================================================
