--------------------------- MODULE WorkflowProofs ---------------------------
(***************************************************************************)
(* Theorems about the three parts of agent_orchestration that are modelled *)
(* beside each other: the task graph of a cycle (WorkflowOrchestrator),    *)
(* its durable run (AutonomyWorkflow) and the watch queue (WatchQueue).    *)
(* They share no state and each is proved of its own specification, for    *)
(* every value of the constants.                                           *)
(***************************************************************************)
EXTENDS AutonomyWorkflow, WorkflowOrchestrator, WatchQueue,
        SequenceTheorems, FiniteSetTheorems, WellFoundedInduction, TLAPS

-----------------------------------------------------------------------------
(***************************************************************************)
(* Induction on the naturals, for sets of them: the library's theorem      *)
(* takes a predicate as an operator, which the provers do not instantiate, *)
(* but a set has a least element because the order is well-founded.        *)
(***************************************************************************)
LEMMA LeastNat ==
    ASSUME NEW T \in SUBSET Nat, T # {}
    PROVE  \E n \in T : \A m \in T : n <= m
<1> DEFINE Less == OpToRel(<, Nat)
<1>1. IsWellFoundedOn(Less, Nat)
  BY NatLessThanWellFounded
<1>2. \A x, y \in Nat : <<x, y>> \in Less <=> x < y
  BY DEF OpToRel
<1> HIDE DEF Less
<1>3. PICK n \in T : \A m \in T : ~ (<<m, n>> \in Less)
  BY <1>1, WFMin
<1>4. ASSUME NEW m \in T PROVE n <= m
  <2>1. m \in Nat /\ n \in Nat /\ ~ (m < n)
    BY <1>2, <1>3
  <2> QED BY <2>1
<1> QED BY <1>4

LEMMA Induction ==
    ASSUME NEW P \in SUBSET Nat, 0 \in P, \A n \in P : n + 1 \in P
    PROVE  P = Nat
<1> SUFFICES ASSUME P # Nat PROVE FALSE
  OBVIOUS
<1>1. Nat \ P \in SUBSET Nat /\ Nat \ P # {}
  OBVIOUS
<1>2. PICK n \in Nat \ P : \A m \in Nat \ P : n <= m
  BY <1>1, LeastNat
<1>3. n # 0 /\ n - 1 \in Nat /\ n - 1 \in P
  BY <1>2
<1> QED BY <1>2, <1>3

(***************************************************************************)
(* The loop of _propagate_terminal_dependencies.  As many rounds as there  *)
(* are pending tasks are enough: every round but the last adds a task.     *)
(***************************************************************************)
Rounds(f, N, pending, failed) ==
    /\ f = [n \in 0 .. N |-> f[n]]
    /\ f[0] = {}
    /\ \A n \in 1 .. N : f[n] = Hit(pending, failed \union f[n - 1])

LEMMA RoundsExist ==
    ASSUME NEW pending, NEW failed, NEW N \in Nat
    PROVE  \E f : Rounds(f, N, pending, failed)
<1> DEFINE P == {m \in Nat : \E f : Rounds(f, m, pending, failed)}
<1>1. 0 \in P
  <2> DEFINE g == [n \in 0 .. 0 |-> {}]
  <2>1. Rounds(g, 0, pending, failed)
    BY DEF Rounds
  <2> QED BY <2>1
<1>2. ASSUME NEW m \in P PROVE m + 1 \in P
  <2>1. m \in Nat
    OBVIOUS
  <2>2. PICK f : Rounds(f, m, pending, failed)
    OBVIOUS
  <2> DEFINE g == [n \in 0 .. m + 1 |->
                      IF n = m + 1 THEN Hit(pending, failed \union f[m]) ELSE f[n]]
  <2>3. /\ \A n \in 0 .. m : g[n] = f[n]
        /\ g[m + 1] = Hit(pending, failed \union f[m])
        /\ g = [n \in 0 .. m + 1 |-> g[n]]
    BY <2>1
  <2> HIDE DEF g
  <2>4. ASSUME NEW n \in 1 .. m + 1
        PROVE  g[n] = Hit(pending, failed \union g[n - 1])
    <3>1. CASE n = m + 1
      <4>1. n - 1 = m /\ m \in 0 .. m
        BY <2>1, <3>1
      <4> QED BY <2>3, <3>1, <4>1
    <3>2. CASE n # m + 1
      <4>1. n \in 1 .. m /\ n \in 0 .. m /\ n - 1 \in 0 .. m
        BY <2>1, <3>2
      <4> QED BY <2>2, <2>3, <4>1 DEF Rounds
    <3> QED BY <3>1, <3>2
  <2>5. g[0] = {}
    <3>1. 0 \in 0 .. m
      BY <2>1
    <3> QED BY <2>2, <2>3, <3>1 DEF Rounds
  <2>6. Rounds(g, m + 1, pending, failed)
    BY <2>3, <2>4, <2>5 DEF Rounds
  <2> QED BY <2>1, <2>6
<1> HIDE DEF P
<1>3. P = Nat
  <2>1. P \in SUBSET Nat
    BY DEF P
  <2> QED BY <1>1, <1>2, <2>1, Induction
<1> QED BY <1>3 DEF P

LEMMA SkippedRounds ==
    ASSUME NEW pending, NEW failed, Cardinality(pending) \in Nat
    PROVE  Rounds(Skipped(pending, failed), Cardinality(pending), pending, failed)
<1> DEFINE N == Cardinality(pending)
           Body(f) == [n \in 0 .. N |->
                          IF n = 0 THEN {} ELSE Hit(pending, failed \union f[n - 1])]
<1>1. \E f : f = Body(f)
  <2>1. PICK f : Rounds(f, N, pending, failed)
    BY RoundsExist
  <2> HIDE DEF N
  <2>2. \A n \in 0 .. N : n # 0 => n \in 1 .. N
    BY DEF N
  <2>3. \A n \in 0 .. N : f[n] = IF n = 0 THEN {} ELSE Hit(pending, failed \union f[n - 1])
    BY <2>1, <2>2 DEF Rounds
  <2>4. f = Body(f)
    BY <2>1, <2>3 DEF Rounds
  <2> QED BY <2>4
<1> DEFINE skipped == Skipped(pending, failed)
<1>2. skipped = Body(skipped)
  BY <1>1 DEF Skipped
<1> HIDE DEF skipped
<1>3. \A n \in 0 .. N : skipped[n] = IF n = 0 THEN {} ELSE Hit(pending, failed \union skipped[n - 1])
  BY <1>2
<1>4. skipped = [n \in 0 .. N |-> skipped[n]]
  BY <1>2
<1> HIDE DEF N
<1>5. /\ 0 \in 0 .. N
      /\ \A n \in 1 .. N : n \in 0 .. N /\ n # 0
  BY DEF N
<1>6. Rounds(skipped, N, pending, failed)
  BY <1>3, <1>4, <1>5 DEF Rounds
<1> QED BY <1>6 DEF skipped, N

\* Which is why nothing that waits is left behind a failure.
LEMMA DoomedClosed ==
    ASSUME NEW pending, IsFiniteSet(pending), NEW failed
    PROVE  /\ Doomed(pending, failed) \subseteq pending
           /\ Hit(pending, failed \union Doomed(pending, failed)) \subseteq Doomed(pending, failed)
<1> DEFINE N == Cardinality(pending)
           f == Skipped(pending, failed)
<1>1. N \in Nat
  BY FS_CardinalityType
<1>2. CASE failed = {}
  BY <1>2 DEF Doomed, Hit
<1>3. CASE failed # {}
  <2>1. Rounds(f, N, pending, failed)
    BY <1>1, SkippedRounds
  <2>2. Doomed(pending, failed) = f[N]
    BY <1>3 DEF Doomed
  <2> DEFINE next(D) == Hit(pending, failed \union D)
             Q(n) == n <= N => /\ f[n] \subseteq pending /\ f[n] \subseteq next(f[n])
                               /\ Cardinality(f[n]) >= n \/ f[n] = next(f[n])
             P == {n \in Nat : Q(n)}
  <2> HIDE DEF f
  <2>3. 0 \in P
    <3>1. f[0] = {} /\ Cardinality({}) = 0
      BY <2>1, FS_EmptySet DEF Rounds
    <3> QED BY <3>1
  <2>4. ASSUME NEW n \in P PROVE n + 1 \in P
    <3>0. n \in Nat /\ Q(n)
      OBVIOUS
    <3> SUFFICES ASSUME n + 1 <= N PROVE Q(n + 1)
      BY <3>0
    <3>1. n \in Nat /\ n <= N /\ f[n + 1] = next(f[n])
      <4>1. n + 1 \in 1 .. N /\ (n + 1) - 1 = n
        BY <1>1, <3>0
      <4>2. f[n + 1] = Hit(pending, failed \union f[(n + 1) - 1])
        <5> HIDE DEF N
        <5> QED BY <2>1, <4>1 DEF Rounds
      <4>3. n <= N
        BY <1>1, <3>0
      <4> QED BY <3>0, <4>1, <4>2, <4>3
    <3>2. f[n + 1] \subseteq pending /\ f[n] \subseteq f[n + 1]
      BY <3>1 DEF Hit
    <3>3. f[n + 1] \subseteq next(f[n + 1])
      BY <3>1, <3>2 DEF Hit
    <3>4. CASE f[n] = next(f[n])
      BY <3>1, <3>2, <3>3, <3>4
    <3>5. CASE f[n] # next(f[n])
      <4>1. Cardinality(f[n]) >= n /\ f[n] # f[n + 1]
        BY <3>1, <3>5
      <4>2. IsFiniteSet(f[n + 1]) /\ IsFiniteSet(f[n])
        BY <3>2, FS_Subset
      <4>3. Cardinality(f[n]) < Cardinality(f[n + 1])
        BY <3>2, <4>1, <4>2, FS_Subset, FS_CardinalityType
      <4>4. Cardinality(f[n]) \in Nat /\ Cardinality(f[n + 1]) \in Nat
        BY <4>2, FS_CardinalityType
      <4> HIDE DEF next
      <4>5. Cardinality(f[n + 1]) >= n + 1
        BY <3>1, <4>1, <4>3, <4>4
      <4> QED BY <3>2, <3>3, <4>5
    <3> QED BY <3>4, <3>5
  <2>5. P = Nat
    <3> HIDE DEF Q
    <3> QED BY <2>3, <2>4, Induction
  <2>6. Q(N)
    BY <1>1, <2>5
  <2>7. CASE Cardinality(f[N]) >= N
    <3>1. f[N] \subseteq pending
      BY <1>1, <2>6
    <3>2. f[N] = pending
      BY <1>1, <2>7, <3>1, FS_Subset, FS_CardinalityType
    <3> QED BY <2>2, <3>2 DEF Hit
  <2>8. CASE f[N] = next(f[N])
    <3>1. f[N] \subseteq pending
      BY <1>1, <2>6
    <3> QED BY <2>2, <2>8, <3>1
  <2> QED BY <1>1, <2>6, <2>7, <2>8
<1> QED BY <1>2, <1>3

(***************************************************************************)
(* The tasks t of an episode, the inputs resolved for them, its status and *)
(* whether its Critic rejected, as values.  Between a failure and the loop *)
(* that propagates it a task may wait for what will never come: Ordered    *)
(* holds at every moment of a handler, Unblocked only at its end.          *)
(***************************************************************************)
Whole(t) ==
    /\ t \in [Step -> {"NONE"} \union TaskStatus]
    /\ (\A s \in Step : t[s] = "NONE") \/ (\A s \in Step : t[s] # "NONE")

Ordered(t) ==
    \A s \in Step, d \in Step :
        d \in Deps[s] /\ t[s] \in {"RUNNING", "COMPLETED"} => t[d] = "COMPLETED"

Unblocked(t) ==
    \A s \in Step, d \in Step : d \in Deps[s] /\ t[s] = "PENDING" => t[d] \notin Failed

Backed(t, inputs) ==
    /\ Running(t) \subseteq inputs
    /\ t[Critic] = "COMPLETED" => Critic \in inputs

InOrder(t, inputs) ==
    /\ Whole(t) /\ Ordered(t) /\ Backed(t, inputs)
    /\ Cardinality(Running(t)) <= MaxParallel

TasksGood(t, inputs) == InOrder(t, inputs) /\ Unblocked(t)

Agrees(t, st, rej) ==
    /\ st \in {"NONE", "RUNNING"} \union TerminalEpisodes
    /\ Planned(t) => (st = "RUNNING" <=> Live(t) # {})
    /\ st = "COMPLETED" => All(t, {"COMPLETED"}) /\ ~ rej
    /\ st \in {"NONE", "TIMED_OUT"} => ~ Planned(t)

\* What has ended stays as it ended.
Kept(t, t2) == \A s \in Step : t[s] \in TerminalTasks => t2[s] = t[s]

LEMMA StepsFinite ==
    ASSUME NEW t
    PROVE  /\ IsFiniteSet(Running(t)) /\ Cardinality(Running(t)) \in Nat
           /\ IsFiniteSet(Pending(t))
<1>1. Running(t) \in SUBSET Step /\ Pending(t) \in SUBSET Step
  BY DEF Running, Pending, InStatus
<1> QED BY <1>1, GraphAssumption, FS_Subset, FS_CardinalityType

LEMMA MarkedTasks ==
    ASSUME NEW t, Whole(t), NEW S, S \subseteq Live(t), NEW status \in TaskStatus
    PROVE  /\ Whole(Marked(t, S, status))
           /\ \A s \in Step : Marked(t, S, status)[s] = IF s \in S THEN status ELSE t[s]
           /\ Kept(t, Marked(t, S, status))
           /\ Planned(Marked(t, S, status)) <=> Planned(t)
<1> DEFINE m == Marked(t, S, status)
<1>1. \A s \in Step : m[s] = IF s \in S THEN status ELSE t[s]
  BY DEF Marked
<1>2. status # "NONE"
  BY DEF TaskStatus, TerminalTasks
<1>3. \A s \in S : s \in Step /\ t[s] \in {"PENDING", "RUNNING"}
  BY DEF Live
<1>4. m \in [Step -> {"NONE"} \union TaskStatus]
  BY DEF Marked, Whole
<1>5. Kept(t, m)
  BY <1>1, <1>3 DEF Kept, TerminalTasks
<1> HIDE DEF m
<1>6. Whole(m) /\ (Planned(m) <=> Planned(t))
  BY <1>1, <1>2, <1>3, <1>4 DEF Whole, Planned
<1> QED BY <1>1, <1>5, <1>6 DEF m

\* Ending live tasks without a result.
LEMMA FailingTasks ==
    ASSUME NEW t, NEW inputs, InOrder(t, inputs), NEW S, S \subseteq Live(t), NEW status \in Failed
    PROVE  InOrder(Marked(t, S, status), inputs)
<1> DEFINE m == Marked(t, S, status)
<1>1. status \in TaskStatus /\ status \notin {"RUNNING", "COMPLETED"}
  BY DEF Failed, TaskStatus, TerminalTasks
<1>2. Whole(m) /\ \A s \in Step : m[s] = IF s \in S THEN status ELSE t[s]
  BY <1>1, MarkedTasks DEF InOrder
<1> HIDE DEF m
<1>3. \A s \in S : t[s] # "COMPLETED"
  BY DEF Live
<1>4. Ordered(m)
  BY <1>1, <1>2, <1>3 DEF Ordered, InOrder
<1>5. Running(m) \subseteq Running(t)
  BY <1>1, <1>2 DEF Running
<1>6. Cardinality(Running(m)) <= MaxParallel
  <2>1. Cardinality(Running(m)) <= Cardinality(Running(t))
    BY <1>5, StepsFinite, FS_Subset
  <2> QED BY <2>1, StepsFinite, GraphAssumption DEF InOrder
<1>7. Backed(m, inputs)
  BY <1>1, <1>2, <1>5, GraphAssumption DEF Backed, InOrder
<1> QED BY <1>2, <1>4, <1>6, <1>7 DEF InOrder, m

LEMMA PropagatedTasks ==
    ASSUME NEW t, NEW inputs, InOrder(t, inputs)
    PROVE  /\ TasksGood(Propagated(t), inputs)
           /\ Kept(t, Propagated(t))
           /\ Planned(Propagated(t)) <=> Planned(t)
           /\ Live(Propagated(t)) \subseteq Live(t)
<1> DEFINE S == Doomed(Pending(t), InStatus(t, Failed))
           m == Marked(t, S, "SKIPPED")
<1>1. /\ S \subseteq Pending(t)
      /\ Hit(Pending(t), InStatus(t, Failed) \union S) \subseteq S
  BY StepsFinite, DoomedClosed
<1>2. S \subseteq Live(t)
  BY <1>1 DEF Pending, InStatus, Live
<1>3. "SKIPPED" \in Failed /\ "SKIPPED" \in TaskStatus
  BY DEF Failed, TaskStatus, TerminalTasks
<1>4. Propagated(t) = m
  BY DEF Propagated
<1> HIDE DEF S
<1>5. InOrder(m, inputs)
  BY <1>2, <1>3, FailingTasks
<1>6. /\ \A s \in Step : m[s] = IF s \in S THEN "SKIPPED" ELSE t[s]
      /\ Kept(t, m)
      /\ Planned(m) <=> Planned(t)
  BY <1>2, <1>3, MarkedTasks DEF InOrder
<1> HIDE DEF m
<1>7. Unblocked(m)
  <2> SUFFICES ASSUME NEW s \in Step, NEW d \in Step, d \in Deps[s], m[s] = "PENDING", m[d] \in Failed
               PROVE  FALSE
    BY DEF Unblocked
  <2>1. s \notin S /\ s \in Pending(t)
    BY <1>6 DEF Pending, InStatus
  <2>2. d \in InStatus(t, Failed) \union S
    BY <1>6 DEF InStatus
  <2>3. s \in Hit(Pending(t), InStatus(t, Failed) \union S)
    BY <2>1, <2>2 DEF Hit
  <2> QED BY <1>1, <2>1, <2>3
<1>8. Live(m) \subseteq Live(t)
  BY <1>6 DEF Live
<1> QED BY <1>4, <1>5, <1>6, <1>7, <1>8 DEF TasksGood

\* However many tasks are ready, no more are offered than there are slots.
LEMMA OfferedFit ==
    ASSUME NEW t, Cardinality(Running(t)) <= MaxParallel
    PROVE  /\ Offered(t) \subseteq Ready(t) /\ IsFiniteSet(Offered(t))
           /\ Cardinality(Offered(t)) \in Nat
           /\ Cardinality(Offered(t)) + Cardinality(Running(t)) <= MaxParallel
<1> DEFINE ready == Ready(t)
           n == Cardinality(Running(t))
           S == Offered(t)
           Before(s) == {r \in ready : Rank[r] < Rank[s]}
           index == [s \in S |-> Cardinality(Before(s))]
<1>1. ready \subseteq Step /\ S \subseteq ready /\ IsFiniteSet(ready)
  <2>1. ready \in SUBSET Step
    BY DEF Ready, Pending, InStatus
  <2> QED BY <2>1, GraphAssumption, FS_Subset DEF Offered
<1>2. IsFiniteSet(S) /\ Cardinality(S) \in Nat
  BY <1>1, FS_Subset, FS_CardinalityType
<1>3. n \in Nat /\ n <= MaxParallel /\ MaxParallel \in Nat
  BY StepsFinite, GraphAssumption
<1>4. ASSUME NEW s \in ready
      PROVE  IsFiniteSet(Before(s)) /\ Cardinality(Before(s)) \in Nat
  BY <1>1, FS_Subset, FS_CardinalityType
<1>5. \A s \in S : Cardinality(Before(s)) + n < MaxParallel
  BY DEF Offered
<1> DEFINE T == 0 .. MaxParallel - n - 1
<1>6. IsFiniteSet(T) /\ Cardinality(T) = MaxParallel - n
  <2>1. 0 \in Int /\ MaxParallel - n - 1 \in Int
    BY <1>3
  <2>2. IsFiniteSet(T) /\ Cardinality(T)
           = IF 0 > MaxParallel - n - 1 THEN 0 ELSE (MaxParallel - n - 1) - 0 + 1
    BY <2>1, FS_Interval
  <2> QED BY <1>3, <2>2
<1>7. index \in [S -> T]
  <2>1. ASSUME NEW s \in S PROVE Cardinality(Before(s)) \in T
    <3>1. Cardinality(Before(s)) \in Nat /\ Cardinality(Before(s)) + n < MaxParallel
      BY <1>1, <1>4, <1>5
    <3> HIDE DEF Before
    <3> QED BY <1>3, <3>1
  <2> HIDE DEF Before, T
  <2> QED BY <2>1
<1>8. ASSUME NEW s \in S, NEW r \in S, Rank[s] < Rank[r]
      PROVE  index[s] # index[r]
  <2>1. /\ s \in Step /\ r \in Step /\ s \in ready /\ r \in ready
        /\ Rank[s] \in Nat /\ Rank[r] \in Nat
    BY <1>1, GraphAssumption
  <2>2. Before(s) \subseteq Before(r) /\ s \in Before(r) /\ s \notin Before(s)
    BY <1>1, <1>8, <2>1, GraphAssumption
  <2>3. IsFiniteSet(Before(r)) /\ IsFiniteSet(Before(s))
    BY <1>4, <2>1
  <2> HIDE DEF Before
  <2>4. Cardinality(Before(s)) # Cardinality(Before(r))
    BY <2>2, <2>3, FS_Subset
  <2> QED BY <2>4
<1>9. \A s, r \in S : s # r => index[s] # index[r]
  <2> SUFFICES ASSUME NEW s \in S, NEW r \in S, s # r PROVE index[s] # index[r]
    OBVIOUS
  <2>1. Rank[s] \in Nat /\ Rank[r] \in Nat /\ Rank[s] # Rank[r]
    BY <1>1, GraphAssumption
  <2>2. Rank[s] < Rank[r] \/ Rank[r] < Rank[s]
    BY <2>1
  <2> HIDE DEF index
  <2> QED BY <1>8, <2>2
<1>10. ~ (Cardinality(T) < Cardinality(S))
  <2> HIDE DEF index, T, S
  <2> QED BY <1>2, <1>6, <1>7, <1>9, FS_PigeonHole
<1>11. Cardinality(S) + n <= MaxParallel
  <2> HIDE DEF n, S, T
  <2> QED BY <1>2, <1>3, <1>6, <1>10
<1> QED BY <1>1, <1>2, <1>11

\* Starting tasks that are offered.
LEMMA ClaimedTasks ==
    ASSUME NEW t, NEW inputs, TasksGood(t, inputs), NEW S, S \subseteq Offered(t)
    PROVE  /\ TasksGood(Marked(t, S, "RUNNING"), inputs \union Ready(t))
           /\ Kept(t, Marked(t, S, "RUNNING"))
           /\ Planned(Marked(t, S, "RUNNING")) <=> Planned(t)
           /\ Live(Marked(t, S, "RUNNING")) = Live(t)
<1> DEFINE m == Marked(t, S, "RUNNING")
<1>0. Whole(t) /\ Ordered(t) /\ Backed(t, inputs) /\ Unblocked(t)
  BY DEF TasksGood, InOrder
<1>1. /\ Offered(t) \subseteq Ready(t) /\ IsFiniteSet(Offered(t))
      /\ Cardinality(Offered(t)) \in Nat
      /\ Cardinality(Offered(t)) + Cardinality(Running(t)) <= MaxParallel
  BY OfferedFit DEF TasksGood, InOrder
<1>2. \A s \in S : /\ s \in Step /\ t[s] = "PENDING" /\ s \in Ready(t)
                   /\ \A d \in Deps[s] : t[d] = "COMPLETED"
  BY <1>1 DEF Ready, Pending, InStatus
<1>3. S \subseteq Live(t) /\ "RUNNING" \in TaskStatus
  BY <1>2 DEF Live, TaskStatus
<1>4. /\ Whole(m) /\ Kept(t, m)
      /\ \A s \in Step : m[s] = IF s \in S THEN "RUNNING" ELSE t[s]
      /\ Planned(m) <=> Planned(t)
  BY <1>0, <1>3, MarkedTasks
<1> HIDE DEF m
<1>5. Ordered(m)
  BY <1>0, <1>2, <1>4 DEF Ordered
<1>6. Unblocked(m)
  BY <1>0, <1>4 DEF Unblocked, Failed, TerminalTasks
<1>7. Running(m) = Running(t) \union S
  BY <1>2, <1>4 DEF Running
<1>8. Backed(m, inputs \union Ready(t))
  BY <1>0, <1>2, <1>4, <1>7, GraphAssumption DEF Backed
<1>9. Cardinality(Running(m)) <= MaxParallel
  <2>1. IsFiniteSet(S) /\ Cardinality(S) <= Cardinality(Offered(t)) /\ Cardinality(S) \in Nat
    BY <1>1, FS_Subset, FS_CardinalityType
  <2>2. Running(t) \intersect S = {}
    BY <1>2 DEF Running
  <2>3. Cardinality(Running(m)) = Cardinality(Running(t)) + Cardinality(S) - Cardinality({})
    BY <1>7, <2>1, <2>2, StepsFinite, FS_Union
  <2> QED BY <1>1, <2>1, <2>3, StepsFinite, FS_EmptySet, GraphAssumption
<1>10. Live(m) = Live(t)
  BY <1>2, <1>4 DEF Live
<1> QED BY <1>4, <1>5, <1>6, <1>8, <1>9, <1>10 DEF TasksGood, InOrder, m

\* Completing a task that runs or is offered.
LEMMA DoneTasks ==
    ASSUME NEW t, NEW inputs, TasksGood(t, inputs), NEW s \in Step, Completes(t, s),
           s = Critic => s \in inputs
    PROVE  InOrder(Marked(t, {s}, "COMPLETED"), inputs)
<1> DEFINE m == Marked(t, {s}, "COMPLETED")
<1>0. /\ Whole(t) /\ Ordered(t) /\ Backed(t, inputs)
      /\ Cardinality(Running(t)) <= MaxParallel
  BY DEF TasksGood, InOrder
<1>1. s \in Live(t) /\ \A d \in Deps[s] : t[d] = "COMPLETED"
  BY <1>0, OfferedFit, GraphAssumption DEF Completes, Ready, Pending, InStatus, Live, Ordered
<1>2. {s} \subseteq Live(t) /\ "COMPLETED" \in TaskStatus
  BY <1>1 DEF TaskStatus, TerminalTasks
<1>3. Whole(m) /\ \A x \in Step : m[x] = IF x = s THEN "COMPLETED" ELSE t[x]
  BY <1>0, <1>2, MarkedTasks
<1> HIDE DEF m
<1>4. Ordered(m)
  BY <1>0, <1>1, <1>3 DEF Ordered
<1>5. Running(m) \subseteq Running(t)
  BY <1>3 DEF Running
<1>6. Cardinality(Running(m)) <= MaxParallel
  <2>1. Cardinality(Running(m)) <= Cardinality(Running(t))
    BY <1>5, StepsFinite, FS_Subset
  <2> QED BY <1>0, <2>1, StepsFinite, GraphAssumption
<1>7. Backed(m, inputs)
  BY <1>0, <1>3, <1>5, GraphAssumption DEF Backed
<1> QED BY <1>3, <1>4, <1>6, <1>7 DEF InOrder, m

\* Inputs are only ever added.
LEMMA MoreInputs ==
    ASSUME NEW t, NEW inputs, TasksGood(t, inputs), NEW more
    PROVE  TasksGood(t, inputs \union more)
BY DEF TasksGood, InOrder, Backed

\* The status an episode gets by its tasks is the one that agrees with them.
LEMMA ClosedAgrees ==
    ASSUME NEW t, Whole(t), NEW rej
    PROVE  /\ Agrees(t, Closed(t, rej), rej)
           /\ Planned(t) => (Closed(t, rej) = "RUNNING" <=> Live(t) # {})
           /\ ~ Planned(t) => Closed(t, rej) = "RUNNING"
<1>1. Critic \in Step
  BY GraphAssumption
<1>2. CASE ~ Planned(t)
  BY <1>2 DEF Closed, Agrees
<1>3. CASE Planned(t)
  <2>1. \A s \in Step : t[s] \in TaskStatus
    BY <1>3 DEF Whole, Planned
  <2>2. Live(t) # {} <=> ~ All(t, TerminalTasks)
    BY <2>1 DEF Live, All, TaskStatus, TerminalTasks
  <2>3. Closed(t, rej) = "RUNNING" <=> ~ All(t, TerminalTasks)
    BY <1>3 DEF Closed
  <2>4. /\ Closed(t, rej) \in {"RUNNING", "COMPLETED", "DEFERRED"}
        /\ Closed(t, rej) = "COMPLETED" => All(t, {"COMPLETED"}) /\ ~ rej
    BY DEF Closed
  <2> QED BY <1>3, <2>2, <2>3, <2>4 DEF Agrees, TerminalEpisodes
<1> QED BY <1>2, <1>3

(***************************************************************************)
(* The graph.                                                              *)
(***************************************************************************)
CycleAgrees ==
    /\ cycle \in {"COMPLETED", "DEFERRED"} <=>
          /\ Started(episode) # {}
          /\ \A e \in Started(episode) : episode[e] \in TerminalEpisodes
    /\ cycle = "COMPLETED" => \A e \in Started(episode) : episode[e] = "COMPLETED"
    /\ cycle \in {"NONE", "TIMED_OUT"} => Started(episode) = {}

GraphInv ==
    /\ GraphTypeOK
    /\ \A e \in Episode : TasksGood(task[e], resolved[e]) /\ Agrees(task[e], episode[e], e \in rejected)
    /\ CycleAgrees

\* What a handler that ends with w has made of episode e.
Handled(e, w, inputs, rej) ==
    /\ TasksGood(w.tasks, inputs)
    /\ Agrees(w.tasks, w.status, rej)
    /\ Kept(task[e], w.tasks)
    /\ episode[e] # "RUNNING" => w.status = episode[e]
    /\ w.status # "NONE" \/ episode[e] = "NONE"

LEMMA SweptGood ==
    ASSUME GraphInv, NEW e \in Episode, NEW now \in Times
    PROVE  LET w == Swept(e, now) IN
           /\ Handled(e, w, resolved[e], e \in rejected)
           /\ w.status = "RUNNING" => episode[e] = "RUNNING"
<1> DEFINE t == TimedOut(e, now)
           w == Swept(e, now)
           S == {s \in Live(task[e]) : now >= Deadline(e, s)}
           rej == e \in rejected
<1>1. /\ InOrder(task[e], resolved[e]) /\ Whole(task[e])
      /\ TasksGood(task[e], resolved[e])
      /\ Agrees(task[e], episode[e], rej)
  BY DEF GraphInv, TasksGood, InOrder
<1>2. S \subseteq Live(task[e]) /\ "TIMED_OUT" \in Failed /\ "TIMED_OUT" \in TaskStatus
  BY DEF Failed, TaskStatus, TerminalTasks
<1>3. t = Marked(task[e], S, "TIMED_OUT")
  BY DEF TimedOut
<1> HIDE DEF t, S
<1>4. /\ InOrder(t, resolved[e]) /\ Kept(task[e], t)
      /\ Planned(t) <=> Planned(task[e])
      /\ \A s \in Step : t[s] = IF s \in S THEN "TIMED_OUT" ELSE task[e][s]
  BY <1>1, <1>2, <1>3, FailingTasks, MarkedTasks
<1>5. CASE episode[e] # "RUNNING"
  <2>1. w.tasks = t /\ w.status = episode[e]
    BY <1>5 DEF Swept, t
  <2>2. Live(task[e]) = {}
    BY <1>1, <1>5 DEF Agrees, Planned, Live
  <2>3. t = task[e]
    <3>1. S = {}
      BY <1>2, <2>2
    <3> QED BY <1>1, <1>3, <3>1 DEF Marked, Whole
  <2> HIDE DEF w
  <2>4. Handled(e, w, resolved[e], rej)
    BY <1>1, <1>4, <2>1, <2>3 DEF Handled
  <2> QED BY <1>5, <2>1, <2>4 DEF w
<1>6. CASE episode[e] = "RUNNING"
  <2> DEFINE p == Propagated(t)
             closed == Closed(p, rej)
  <2>1. /\ TasksGood(p, resolved[e]) /\ Whole(p) /\ Kept(t, p)
        /\ Planned(p) <=> Planned(t)
        /\ Live(p) \subseteq Live(t)
    BY <1>4, PropagatedTasks DEF TasksGood, InOrder
  <2>2. Kept(task[e], p)
    BY <1>4, <2>1 DEF Kept
  <2>3. /\ Agrees(p, closed, rej)
        /\ Planned(p) => (closed = "RUNNING" <=> Live(p) # {})
    BY <2>1, ClosedAgrees
  <2>4. closed # "NONE"
    BY DEF Closed
  <2>5. CASE closed = "RUNNING" /\ now >= ExpiresAt[e]
    <3>1. w.tasks = Marked(p, Live(p), "TIMED_OUT") /\ w.status = "TIMED_OUT"
      BY <1>6, <2>5 DEF Swept, t
    <3>2. ~ Planned(p)
      <4> SUFFICES ASSUME Planned(p) PROVE FALSE
        OBVIOUS
      <4>1. PICK s \in Step : s \in Live(p)
        BY <2>3, <2>5 DEF Live
      <4>2. s \in Live(t)
        BY <2>1, <4>1
      <4>3. t[s] # "TIMED_OUT"
        BY <4>2 DEF Live
      <4>4. s \notin S /\ s \in Live(task[e])
        BY <1>4, <4>2, <4>3 DEF Live
      <4>5. now >= Deadline(e, s)
        <5>1. /\ now \in Nat /\ DeadlineAt[s] \in Nat /\ ExpiresAt[e] \in Nat
          BY GraphAssumption DEF Times
        <5> QED BY <2>5, <5>1 DEF Deadline
      <4> QED BY <4>4, <4>5 DEF S
    <3>3. Live(p) = {}
      BY <3>2 DEF Planned, Live
    <3>4. w.tasks = p
      BY <2>1, <3>1, <3>3 DEF Marked, Whole
    <3> HIDE DEF w, p, closed
    <3>5. Agrees(p, "TIMED_OUT", rej)
      BY <3>2 DEF Agrees, TerminalEpisodes
    <3>6. Handled(e, w, resolved[e], rej)
      BY <1>6, <2>1, <2>2, <3>1, <3>4, <3>5 DEF Handled
    <3> QED BY <1>6, <3>6 DEF w
  <2>6. CASE ~ (closed = "RUNNING" /\ now >= ExpiresAt[e])
    <3>1. w.tasks = p /\ w.status = closed
      BY <1>6, <2>6 DEF Swept, t
    <3> HIDE DEF w, p, closed
    <3>2. Handled(e, w, resolved[e], rej)
      BY <1>6, <2>1, <2>2, <2>3, <2>4, <3>1 DEF Handled
    <3> QED BY <1>6, <3>2 DEF w
  <2> QED BY <2>5, <2>6
<1> QED BY <1>5, <1>6

\* What has ended, task, episode or cycle, stays.
GraphKept ==
    /\ cycle \notin {"NONE", "RUNNING"} => cycle' = cycle
    /\ \A e \in Episode :
          /\ episode[e] \in TerminalEpisodes => episode'[e] = episode[e]
          /\ \A s \in Step : task[e][s] \in TerminalTasks => task'[e][s] = task[e][s]

\* The cycle after its episodes moved, none of them out of an ended status.
CycleMoves ==
    /\ \A e \in Episode :
          /\ episode'[e] \in {"NONE", "RUNNING"} \union TerminalEpisodes
          /\ episode[e] # "RUNNING" => episode'[e] = episode[e]
          /\ episode'[e] # "NONE" \/ episode[e] = "NONE"
    /\ \/ cycle' = IF episode' # episode THEN CycleAfter(episode') ELSE cycle
       \/ /\ cycle = "RUNNING" /\ cycle' = "TIMED_OUT"
          /\ Started(episode') = {} /\ episode' = episode

LEMMA CycleMoved ==
    ASSUME GraphInv, CycleMoves, episode' \in [Episode -> {"NONE", "RUNNING"} \union TerminalEpisodes]
    PROVE  /\ CycleAgrees'
           /\ cycle' \in {"NONE", "RUNNING", "COMPLETED", "DEFERRED", "TIMED_OUT"}
           /\ cycle \notin {"NONE", "RUNNING"} => cycle' = cycle
<1>1. /\ CycleAgrees
      /\ cycle \in {"NONE", "RUNNING", "COMPLETED", "DEFERRED", "TIMED_OUT"}
      /\ episode \in [Episode -> {"NONE", "RUNNING"} \union TerminalEpisodes]
  BY DEF GraphInv, GraphTypeOK
<1>2. CASE episode' = episode /\ cycle' = cycle
  BY <1>1, <1>2 DEF CycleAgrees, Started
<1>3. CASE episode' = episode /\ cycle = "RUNNING" /\ cycle' = "TIMED_OUT" /\ Started(episode') = {}
  BY <1>1, <1>3 DEF CycleAgrees
<1>4. CASE episode' # episode /\ cycle' = CycleAfter(episode')
  <2>1. PICK e \in Episode : episode'[e] # episode[e]
    BY <1>1, <1>4
  <2>2. episode[e] = "RUNNING" /\ e \in Started(episode)
    BY <2>1 DEF CycleMoves, Started
  <2>3. cycle = "RUNNING"
    BY <1>1, <2>2 DEF CycleAgrees, TerminalEpisodes
  <2>4. Started(episode') = Started(episode)
    BY DEF CycleMoves, Started
  <2> QED BY <1>1, <1>4, <2>2, <2>3, <2>4 DEF CycleAfter, CycleAgrees
<1> QED BY <1>2, <1>3, <1>4 DEF CycleMoves

\* A handler that ends with w in episode e, and leaves the others alone, ...
Moved(w) ==
    /\ \A e \in Episode :
          /\ Handled(e, w[e], resolved'[e], e \in rejected')
          /\ w[e].tasks \in [Step -> {"NONE"} \union TaskStatus]
    /\ episode' = [e \in Episode |-> w[e].status]
    /\ task' = [e \in Episode |-> w[e].tasks]
    /\ \/ cycle' = IF episode' # episode THEN CycleAfter(episode') ELSE cycle
       \/ /\ cycle = "RUNNING" /\ cycle' = "TIMED_OUT"
          /\ Started(episode') = {} /\ episode' = episode
    /\ resolved' \in [Episode -> SUBSET Step]
    /\ rejected' \subseteq Episode

LEMMA MovedGood == ASSUME GraphInv, NEW w, Moved(w) PROVE GraphInv' /\ GraphKept
<1>1. \A e \in Episode :
         /\ episode'[e] = w[e].status /\ task'[e] = w[e].tasks
         /\ TasksGood(w[e].tasks, resolved'[e])
         /\ Agrees(w[e].tasks, w[e].status, e \in rejected')
         /\ Kept(task[e], w[e].tasks)
         /\ episode[e] # "RUNNING" => w[e].status = episode[e]
         /\ w[e].status # "NONE" \/ episode[e] = "NONE"
  BY DEF Moved, Handled
<1>2. \A e \in Episode : w[e].status \in {"NONE", "RUNNING"} \union TerminalEpisodes
  BY <1>1 DEF Agrees
<1>3. /\ episode' \in [Episode -> {"NONE", "RUNNING"} \union TerminalEpisodes]
      /\ task' \in [Episode -> [Step -> {"NONE"} \union TaskStatus]]
  BY <1>2 DEF Moved
<1>4. CycleMoves
  BY <1>1, <1>2 DEF CycleMoves, Moved
<1>5. /\ CycleAgrees'
      /\ cycle' \in {"NONE", "RUNNING", "COMPLETED", "DEFERRED", "TIMED_OUT"}
      /\ cycle \notin {"NONE", "RUNNING"} => cycle' = cycle
  BY <1>3, <1>4, CycleMoved
<1>6. GraphTypeOK'
  BY <1>3, <1>5 DEF GraphTypeOK, Moved
<1>7. \A e \in Episode : TasksGood(task'[e], resolved'[e]) /\ Agrees(task'[e], episode'[e], e \in rejected')
  BY <1>1
<1>8. GraphKept
  BY <1>1, <1>5 DEF GraphKept, Kept, TerminalEpisodes
<1> QED BY <1>5, <1>6, <1>7, <1>8 DEF GraphInv

LEMMA BecomesGood ==
    ASSUME GraphInv, NEW e \in Episode, NEW t, NEW st, Becomes(e, t, st),
           NEW inputs \in SUBSET Step, resolved' = [resolved EXCEPT ![e] = inputs],
           rejected' \subseteq Episode, \A x \in Episode \ {e} : x \in rejected' <=> x \in rejected,
           Handled(e, [tasks |-> t, status |-> st], inputs, e \in rejected')
    PROVE  GraphInv' /\ GraphKept
<1> DEFINE own == [tasks |-> t, status |-> st]
           w == [x \in Episode |-> IF x = e THEN own ELSE [tasks |-> task[x], status |-> episode[x]]]
<1>1. /\ task \in [Episode -> [Step -> {"NONE"} \union TaskStatus]]
      /\ episode \in [Episode -> {"NONE", "RUNNING"} \union TerminalEpisodes]
      /\ resolved \in [Episode -> SUBSET Step]
  BY DEF GraphInv, GraphTypeOK
<1>2. own.tasks = t /\ own.status = st
  OBVIOUS
<1> HIDE DEF own
<1>3. /\ resolved' \in [Episode -> SUBSET Step] /\ resolved'[e] = inputs
      /\ \A x \in Episode \ {e} : resolved'[x] = resolved[x]
  BY <1>1
<1>4. ASSUME NEW x \in Episode
      PROVE  /\ Handled(x, w[x], resolved'[x], x \in rejected')
             /\ w[x].tasks \in [Step -> {"NONE"} \union TaskStatus]
             /\ w[x].status = IF x = e THEN st ELSE episode[x]
             /\ w[x].tasks = IF x = e THEN t ELSE task[x]
  <2>1. CASE x = e
    <3>1. w[x] = own /\ resolved'[x] = inputs
      BY <1>3, <2>1
    <3>2. Handled(x, own, inputs, x \in rejected')
      BY <2>1 DEF own
    <3>3. t \in [Step -> {"NONE"} \union TaskStatus]
      BY <1>2, <3>2 DEF Handled, TasksGood, InOrder, Whole
    <3> QED BY <1>2, <2>1, <3>1, <3>2, <3>3
  <2>2. CASE x # e
    <3> DEFINE same == [tasks |-> task[x], status |-> episode[x]]
    <3>1. w[x] = same /\ resolved'[x] = resolved[x] /\ (x \in rejected' <=> x \in rejected)
      BY <1>3, <2>2
    <3>2. same.tasks = task[x] /\ same.status = episode[x]
      OBVIOUS
    <3>3. TasksGood(task[x], resolved[x]) /\ Agrees(task[x], episode[x], x \in rejected)
      BY DEF GraphInv
    <3> HIDE DEF same, w
    <3>4. Agrees(task[x], episode[x], x \in rejected')
      BY <3>1, <3>3 DEF Agrees
    <3>5. Kept(task[x], task[x])
      BY DEF Kept
    <3> QED BY <1>1, <2>2, <3>1, <3>2, <3>3, <3>4, <3>5 DEF Handled
  <2> QED BY <2>1, <2>2
<1>5. /\ episode' = [episode EXCEPT ![e] = st] /\ task' = [task EXCEPT ![e] = t]
      /\ cycle' = IF st # episode[e] THEN CycleAfter(episode') ELSE cycle
  BY DEF Becomes
<1> HIDE DEF w
<1>6. /\ episode' = [x \in Episode |-> w[x].status]
      /\ task' = [x \in Episode |-> w[x].tasks]
  BY <1>1, <1>4, <1>5
<1>7. st # episode[e] <=> episode' # episode
  BY <1>1, <1>5
<1>8. Moved(w)
  BY <1>3, <1>4, <1>5, <1>6, <1>7 DEF Moved
<1> QED BY <1>8, MovedGood

LEMMA HandledMore ==
    ASSUME GraphInv, NEW e \in Episode, NEW now \in Times, NEW more \in SUBSET Step
    PROVE  LET w == Swept(e, now) IN
           Handled(e, [tasks |-> w.tasks, status |-> w.status], resolved[e] \union more, e \in rejected)
<1> DEFINE w == Swept(e, now)
           v == [tasks |-> w.tasks, status |-> w.status]
<1>1. Handled(e, w, resolved[e], e \in rejected)
  BY SweptGood
<1>2. v.tasks = w.tasks /\ v.status = w.status
  OBVIOUS
<1> HIDE DEF w, v
<1>3. TasksGood(w.tasks, resolved[e] \union more)
  BY <1>1, MoreInputs DEF Handled
<1>4. Handled(e, v, resolved[e] \union more, e \in rejected)
  BY <1>1, <1>2, <1>3 DEF Handled
<1> QED BY <1>4 DEF w, v

\* The sweep alone, and the inputs a handler resolves after it.
LEMMA SweepsGood ==
    ASSUME GraphInv, NEW e \in Episode, NEW now \in Times, NEW more \in SUBSET Step,
           Sweeps(e, Swept(e, now)), Resolves(e, more), UNCHANGED rejected
    PROVE  GraphInv' /\ GraphKept
<1> DEFINE w == Swept(e, now)
           inputs == resolved[e] \union more
<1>1. resolved \in [Episode -> SUBSET Step] /\ rejected \subseteq Episode
  BY DEF GraphInv, GraphTypeOK
<1>2. inputs \in SUBSET Step /\ resolved' = [resolved EXCEPT ![e] = inputs]
  BY <1>1 DEF Resolves
<1>3. Handled(e, [tasks |-> w.tasks, status |-> w.status], inputs, e \in rejected')
  BY HandledMore
<1>4. Becomes(e, w.tasks, w.status)
  BY DEF Sweeps
<1> HIDE DEF w, inputs
<1> QED BY <1>1, <1>2, <1>3, <1>4, BecomesGood

LEMMA ReadyTasksGood ==
    ASSUME GraphInv, NEW e \in Episode, NEW now \in Times, ReadyTasks(e, Swept(e, now))
    PROVE  GraphInv' /\ GraphKept
<1> DEFINE w == Swept(e, now)
           more == IF w.status = "RUNNING" THEN Ready(w.tasks) ELSE {}
<1>1. more \in SUBSET Step
  BY DEF Ready, Pending, InStatus
<1>2. Sweeps(e, Swept(e, now)) /\ Resolves(e, more) /\ UNCHANGED rejected
  BY DEF ReadyTasks
<1> HIDE DEF more
<1> QED BY <1>1, <1>2, SweepsGood

LEMMA ClaimReadyTasksGood ==
    ASSUME GraphInv, NEW e \in Episode, NEW now \in Times, NEW limit \in Nat,
           ClaimReadyTasks(e, Swept(e, now), limit)
    PROVE  GraphInv' /\ GraphKept
<1> DEFINE w == Swept(e, now)
           offered == Offered(w.tasks)
           first == {s \in offered : Cardinality({r \in offered : Rank[r] < Rank[s]}) < limit}
           inputs == resolved[e] \union Ready(w.tasks)
           m == Marked(w.tasks, first, "RUNNING")
           v == [tasks |-> m, status |-> "RUNNING"]
<1>1. /\ Handled(e, w, resolved[e], e \in rejected)
      /\ w.status = "RUNNING" => episode[e] = "RUNNING"
  BY SweptGood
<1>2. /\ w.status = "RUNNING" /\ Becomes(e, m, "RUNNING")
      /\ Resolves(e, Ready(w.tasks)) /\ UNCHANGED rejected
  BY DEF ClaimReadyTasks
<1>3. first \subseteq Offered(w.tasks) /\ Ready(w.tasks) \subseteq Step
  BY DEF Ready, Pending, InStatus
<1>4. resolved \in [Episode -> SUBSET Step] /\ rejected \subseteq Episode
  BY DEF GraphInv, GraphTypeOK
<1>5. inputs \in SUBSET Step /\ resolved' = [resolved EXCEPT ![e] = inputs]
  BY <1>2, <1>3, <1>4 DEF Resolves
<1> HIDE DEF first, w
<1>6. /\ TasksGood(m, inputs) /\ Kept(w.tasks, m)
      /\ Planned(m) <=> Planned(w.tasks)
      /\ Live(m) = Live(w.tasks)
  BY <1>1, <1>3, ClaimedTasks DEF Handled
<1>7. v.tasks = m /\ v.status = "RUNNING"
  OBVIOUS
<1> HIDE DEF m, v, inputs
<1>8. Kept(task[e], m)
  BY <1>1, <1>6 DEF Handled, Kept
<1>9. Agrees(m, "RUNNING", e \in rejected')
  BY <1>1, <1>2, <1>6 DEF Handled, Agrees
<1>10. Handled(e, v, inputs, e \in rejected')
  BY <1>1, <1>2, <1>6, <1>7, <1>8, <1>9 DEF Handled
<1>11. Handled(e, [tasks |-> m, status |-> "RUNNING"], inputs, e \in rejected')
  BY <1>10 DEF v
<1> QED BY <1>2, <1>4, <1>5, <1>11, BecomesGood

LEMMA CompletedGood ==
    ASSUME GraphInv, NEW e \in Episode, NEW s \in Step, NEW now \in Times,
           NEW status \in {"COMPLETED"} \union Failed, NEW rej \in BOOLEAN,
           s = Critic => s \in resolved[e],
           Completed(e, s, Swept(e, now), status, rej)
    PROVE  GraphInv' /\ GraphKept
<1> DEFINE w == Swept(e, now)
           ready == IF w.status = "RUNNING" /\ w.tasks[s] = "PENDING" THEN Ready(w.tasks) ELSE {}
           marked == Marked(w.tasks, {s}, status)
           done == Propagated(marked)
           st == Closed(done, rej \/ e \in rejected)
           inputs == resolved[e] \union (ready \ {s})
           v == [tasks |-> done, status |-> st]
<1>1. /\ Handled(e, w, resolved[e], e \in rejected)
      /\ w.status = "RUNNING" => episode[e] = "RUNNING"
  BY SweptGood
<1>2. resolved \in [Episode -> SUBSET Step] /\ rejected \subseteq Episode
  BY DEF GraphInv, GraphTypeOK
<1>3. ready \subseteq Step
  BY DEF Ready, Pending, InStatus
<1>4. CASE ~ (w.status = "RUNNING" /\ Completes(w.tasks, s))
  <2>1. Sweeps(e, w) /\ Resolves(e, ready) /\ UNCHANGED rejected
    BY <1>4 DEF Completed
  <2> HIDE DEF ready
  <2> QED BY <1>3, <2>1, SweepsGood
<1>5. CASE w.status = "RUNNING" /\ Completes(w.tasks, s)
  <2>1. /\ Becomes(e, done, st) /\ Resolves(e, ready \ {s})
        /\ rejected' = IF rej THEN rejected \union {e} ELSE rejected
    BY <1>5 DEF Completed
  <2>2. inputs \in SUBSET Step /\ resolved' = [resolved EXCEPT ![e] = inputs]
    BY <1>2, <1>3, <2>1 DEF Resolves
  <2>3. /\ rejected' \subseteq Episode
        /\ \A x \in Episode \ {e} : x \in rejected' <=> x \in rejected
        /\ e \in rejected' <=> (rej \/ e \in rejected)
    BY <1>2, <2>1
  <2> HIDE DEF w, ready
  <2>4. TasksGood(w.tasks, resolved[e]) /\ InOrder(w.tasks, resolved[e]) /\ Whole(w.tasks)
    BY <1>1 DEF Handled, TasksGood, InOrder
  <2>5. {s} \subseteq Live(w.tasks) /\ status \in TaskStatus
    <3>1. Offered(w.tasks) \subseteq Ready(w.tasks)
      BY DEF Offered
    <3> QED BY <1>5, <3>1 DEF Completes, Ready, Pending, InStatus, Live, Failed, TaskStatus, TerminalTasks
  <2>6. InOrder(marked, resolved[e])
    <3>1. CASE status = "COMPLETED"
      BY <1>5, <2>4, <3>1, DoneTasks
    <3>2. CASE status \in Failed
      BY <2>4, <2>5, <3>2, FailingTasks
    <3> QED BY <3>1, <3>2
  <2>7. Kept(w.tasks, marked) /\ (Planned(marked) <=> Planned(w.tasks))
    BY <2>4, <2>5, MarkedTasks
  <2>8. Planned(w.tasks)
    BY <2>5 DEF Live, Planned
  <2> HIDE DEF marked
  <2>9. TasksGood(done, resolved[e]) /\ Whole(done) /\ Kept(marked, done) /\ Planned(done)
    BY <2>6, <2>7, <2>8, PropagatedTasks DEF TasksGood, InOrder
  <2> HIDE DEF done
  <2>10. TasksGood(done, inputs)
    BY <2>9, MoreInputs
  <2>11. Agrees(done, st, rej \/ e \in rejected)
    BY <2>9, ClosedAgrees
  <2>12. st # "NONE"
    BY DEF Closed
  <2>13. v.tasks = done /\ v.status = st
    OBVIOUS
  <2> HIDE DEF st, v, inputs
  <2>14. Agrees(done, st, e \in rejected')
    BY <2>3, <2>11 DEF Agrees
  <2>15. Kept(task[e], done)
    BY <1>1, <2>7, <2>9 DEF Handled, Kept
  <2>16. Handled(e, v, inputs, e \in rejected')
    BY <1>1, <1>5, <2>10, <2>12, <2>13, <2>14, <2>15 DEF Handled
  <2>17. Handled(e, [tasks |-> done, status |-> st], inputs, e \in rejected')
    BY <2>16 DEF v
  <2> QED BY <2>1, <2>2, <2>3, <2>17, BecomesGood
<1> QED BY <1>4, <1>5

LEMMA CompleteTaskGood ==
    ASSUME GraphInv, NEW e \in Episode, NEW s \in Step, NEW now \in Times, NEW status \in Results,
           CompleteTask(e, s, Swept(e, now), status)
    PROVE  GraphInv' /\ GraphKept
<1>1. s # Critic /\ Completed(e, s, Swept(e, now), status, FALSE)
  BY DEF CompleteTask
<1>2. status \in {"COMPLETED"} \union Failed
  BY GraphAssumption DEF Failed, TerminalTasks
<1> QED BY <1>1, <1>2, CompletedGood

LEMMA CompleteCriticTaskGood ==
    ASSUME GraphInv, NEW e \in Episode, NEW now \in Times, NEW verdict,
           CompleteCriticTask(e, Swept(e, now), verdict)
    PROVE  GraphInv' /\ GraphKept
<1> DEFINE status == IF verdict = "DEFER" THEN "DEFERRED" ELSE "COMPLETED"
           rej == verdict = "REJECT"
<1>1. Critic \in resolved[e] /\ Completed(e, Critic, Swept(e, now), status, rej)
  BY DEF CompleteCriticTask
<1>2. status \in {"COMPLETED"} \union Failed /\ rej \in BOOLEAN /\ Critic \in Step
  BY GraphAssumption DEF Failed, TerminalTasks
<1> HIDE DEF status, rej
<1> QED BY <1>1, <1>2, CompletedGood

LEMMA CancelEpisodeGood ==
    ASSUME GraphInv, NEW e \in Episode, NEW now \in Times, CancelEpisode(e, Swept(e, now))
    PROVE  GraphInv' /\ GraphKept
<1> DEFINE w == Swept(e, now)
           S == Live(w.tasks)
           m == Marked(w.tasks, S, "CANCELLED")
           v == [tasks |-> m, status |-> "CANCELLED"]
<1>1. /\ Handled(e, w, resolved[e], e \in rejected)
      /\ w.status = "RUNNING" => episode[e] = "RUNNING"
  BY SweptGood
<1>2. /\ resolved \in [Episode -> SUBSET Step] /\ rejected \subseteq Episode
      /\ resolved' = resolved /\ rejected' = rejected
  BY DEF GraphInv, GraphTypeOK, CancelEpisode
<1>3. resolved' = [resolved EXCEPT ![e] = resolved[e]] /\ resolved[e] \in SUBSET Step
  BY <1>2
<1>4. CASE w.status # "RUNNING"
  <2>1. Sweeps(e, w)
    BY <1>4 DEF CancelEpisode
  <2>2. Resolves(e, {})
    BY <1>2, <1>3 DEF Resolves
  <2> QED BY <1>2, <2>1, <2>2, SweepsGood
<1>5. CASE w.status = "RUNNING"
  <2>1. Becomes(e, m, "CANCELLED")
    BY <1>5 DEF CancelEpisode
  <2> HIDE DEF w
  <2>2. InOrder(w.tasks, resolved[e]) /\ Whole(w.tasks) /\ Unblocked(w.tasks)
    BY <1>1 DEF Handled, TasksGood, InOrder
  <2>3. "CANCELLED" \in Failed /\ "CANCELLED" \in TaskStatus
    BY DEF Failed, TaskStatus, TerminalTasks
  <2>4. InOrder(m, resolved[e])
    BY <2>2, <2>3, FailingTasks
  <2>5. /\ Kept(w.tasks, m) /\ (Planned(m) <=> Planned(w.tasks))
        /\ \A s \in Step : m[s] = IF s \in S THEN "CANCELLED" ELSE w.tasks[s]
    BY <2>2, <2>3, MarkedTasks
  <2>6. v.tasks = m /\ v.status = "CANCELLED"
    OBVIOUS
  <2> HIDE DEF m, v
  <2>7. \A s \in Step : m[s] \notin {"PENDING", "RUNNING"}
    BY <2>5 DEF Live
  <2>8. Live(m) = {} /\ Unblocked(m)
    BY <2>7 DEF Live, Unblocked
  <2>9. Agrees(m, "CANCELLED", e \in rejected')
    BY <2>8 DEF Agrees, TerminalEpisodes
  <2>10. Kept(task[e], m)
    BY <1>1, <2>5 DEF Handled, Kept
  <2>11. Handled(e, v, resolved[e], e \in rejected')
    BY <1>1, <1>5, <2>4, <2>6, <2>8, <2>9, <2>10 DEF Handled, TasksGood
  <2>12. Handled(e, [tasks |-> m, status |-> "CANCELLED"], resolved[e], e \in rejected')
    BY <2>11 DEF v
  <2> QED BY <1>2, <1>3, <2>1, <2>12, BecomesGood
<1> QED BY <1>4, <1>5

LEMMA RecoverGood ==
    ASSUME GraphInv, NEW now \in Times, Recover(now)
    PROVE  GraphInv' /\ GraphKept
<1> DEFINE w == [e \in Episode |-> Swept(e, now)]
           eps == [e \in Episode |-> w[e].status]
<1>1. /\ resolved' = resolved /\ rejected' = rejected
      /\ resolved \in [Episode -> SUBSET Step] /\ rejected \subseteq Episode
  BY DEF Recover, GraphInv, GraphTypeOK
<1>2. /\ episode' = eps /\ task' = [e \in Episode |-> w[e].tasks]
      /\ cycle' = IF eps # episode THEN CycleAfter(eps)
                  ELSE IF cycle = "RUNNING" /\ Started(eps) = {} /\ now >= Horizon
                  THEN "TIMED_OUT" ELSE cycle
  BY DEF Recover
<1>3. ASSUME NEW e \in Episode
      PROVE  /\ Handled(e, w[e], resolved'[e], e \in rejected')
             /\ w[e].tasks \in [Step -> {"NONE"} \union TaskStatus]
  <2>1. w[e] = Swept(e, now)
    OBVIOUS
  <2> HIDE DEF w
  <2>2. Handled(e, w[e], resolved[e], e \in rejected)
    BY <2>1, SweptGood
  <2>3. w[e].tasks \in [Step -> {"NONE"} \union TaskStatus]
    BY <2>2 DEF Handled, TasksGood, InOrder, Whole
  <2> QED BY <1>1, <2>2, <2>3
<1> HIDE DEF w
<1>4. Moved(w)
  BY <1>1, <1>2, <1>3 DEF Moved
<1> QED BY <1>4, MovedGood

LEMMA AcceptPlanGood ==
    ASSUME GraphInv, NEW e \in Episode, AcceptPlan(e)
    PROVE  GraphInv' /\ GraphKept
<1> DEFINE t == [s \in Step |-> "PENDING"]
           v == [tasks |-> t, status |-> "RUNNING"]
<1>1. /\ task \in [Episode -> [Step -> {"NONE"} \union TaskStatus]]
      /\ episode \in [Episode -> {"NONE", "RUNNING"} \union TerminalEpisodes]
      /\ resolved \in [Episode -> SUBSET Step] /\ rejected \subseteq Episode
      /\ TasksGood(task[e], resolved[e])
  BY DEF GraphInv, GraphTypeOK
<1>2. /\ episode[e] = "RUNNING" /\ ~ Planned(task[e])
      /\ task' = [task EXCEPT ![e] = t]
      /\ UNCHANGED <<cycle, episode, resolved, rejected>>
  BY DEF AcceptPlan
<1>3. \A s \in Step : t[s] = "PENDING"
  OBVIOUS
<1>4. t \in [Step -> {"NONE"} \union TaskStatus]
  BY DEF TaskStatus
<1>5. v.tasks = t /\ v.status = "RUNNING"
  OBVIOUS
<1> HIDE DEF t, v
<1>6. Running(t) = {} /\ Live(t) # {}
  BY <1>3, GraphAssumption DEF Running, Live
<1>7. Cardinality(Running(t)) <= MaxParallel
  BY <1>6, FS_EmptySet, GraphAssumption
<1>8. TasksGood(t, resolved[e])
  BY <1>3, <1>4, <1>6, <1>7, GraphAssumption
     DEF TasksGood, InOrder, Whole, Ordered, Unblocked, Backed, Failed, TerminalTasks
<1>9. Agrees(t, "RUNNING", e \in rejected')
  BY <1>6 DEF Agrees
<1>10. Kept(task[e], t)
  BY <1>2 DEF Planned, Kept, TerminalTasks
<1>11. Handled(e, v, resolved[e], e \in rejected')
  BY <1>2, <1>5, <1>8, <1>9, <1>10 DEF Handled
<1>12. Handled(e, [tasks |-> t, status |-> "RUNNING"], resolved[e], e \in rejected')
  BY <1>11 DEF v
<1>13. Becomes(e, t, "RUNNING")
  BY <1>1, <1>2 DEF Becomes
<1>14. resolved' = [resolved EXCEPT ![e] = resolved[e]] /\ resolved[e] \in SUBSET Step
  BY <1>1, <1>2
<1> QED BY <1>1, <1>2, <1>12, <1>13, <1>14, BecomesGood

LEMMA StartGood ==
    ASSUME GraphInv, StartCycle \/ \E e \in Episode : StartEpisode(e)
    PROVE  GraphInv' /\ GraphKept
<1>1. GraphTypeOK /\ CycleAgrees
  BY DEF GraphInv
<1>2. CASE StartCycle
  <2>1. /\ cycle = "NONE" /\ cycle' = "RUNNING"
        /\ UNCHANGED <<episode, task, resolved, rejected>>
    BY <1>2 DEF StartCycle
  <2>2. CycleAgrees' /\ GraphTypeOK'
    BY <1>1, <2>1 DEF CycleAgrees, GraphTypeOK, Started
  <2>3. \A e \in Episode : TasksGood(task'[e], resolved'[e]) /\ Agrees(task'[e], episode'[e], e \in rejected')
    BY <2>1 DEF GraphInv
  <2> QED BY <2>1, <2>2, <2>3 DEF GraphInv, GraphKept
<1>3. ASSUME NEW e \in Episode, StartEpisode(e) PROVE GraphInv' /\ GraphKept
  <2>1. /\ cycle = "RUNNING" /\ episode[e] = "NONE"
        /\ episode' = [episode EXCEPT ![e] = "RUNNING"]
        /\ UNCHANGED <<cycle, task, resolved, rejected>>
    BY <1>3 DEF StartEpisode
  <2>2. /\ episode' \in [Episode -> {"NONE", "RUNNING"} \union TerminalEpisodes]
        /\ episode'[e] = "RUNNING" /\ \A x \in Episode \ {e} : episode'[x] = episode[x]
    BY <1>1, <2>1 DEF GraphTypeOK
  <2>3. e \in Started(episode') /\ episode'[e] \notin TerminalEpisodes
    BY <2>2 DEF Started, TerminalEpisodes
  <2>4. CycleAgrees' /\ GraphTypeOK'
    BY <1>1, <2>1, <2>2, <2>3 DEF CycleAgrees, GraphTypeOK
  <2>5. ASSUME NEW x \in Episode
        PROVE  TasksGood(task'[x], resolved'[x]) /\ Agrees(task'[x], episode'[x], x \in rejected')
    <3>1. TasksGood(task[x], resolved[x]) /\ Agrees(task[x], episode[x], x \in rejected)
      BY DEF GraphInv
    <3>2. CASE x # e
      BY <2>1, <2>2, <3>1, <3>2
    <3>3. CASE x = e
      <4>1. ~ Planned(task[x])
        BY <2>1, <3>1, <3>3 DEF Agrees
      <4> QED BY <2>1, <2>2, <3>1, <3>3, <4>1 DEF Agrees
    <3> QED BY <3>2, <3>3
  <2>6. GraphKept
    BY <2>1, <2>2 DEF GraphKept, TerminalEpisodes
  <2> QED BY <2>4, <2>5, <2>6 DEF GraphInv
<1> QED BY <1>2, <1>3

LEMMA GraphInvInit == ASSUME GraphInit PROVE GraphInv
<1>1. /\ cycle = "NONE" /\ rejected = {}
      /\ \A e \in Episode : /\ episode[e] = "NONE" /\ resolved[e] = {}
                            /\ \A s \in Step : task[e][s] = "NONE"
  BY DEF GraphInit
<1>2. GraphTypeOK
  BY DEF GraphInit, GraphTypeOK
<1>3. ASSUME NEW e \in Episode
      PROVE  TasksGood(task[e], resolved[e]) /\ Agrees(task[e], episode[e], e \in rejected)
  <2>1. Running(task[e]) = {} /\ ~ Planned(task[e])
    BY <1>1 DEF Running, Planned
  <2>2. Cardinality(Running(task[e])) <= MaxParallel
    BY <2>1, FS_EmptySet, GraphAssumption
  <2>3. task[e] \in [Step -> {"NONE"} \union TaskStatus]
    BY <1>2 DEF GraphTypeOK
  <2>4. TasksGood(task[e], resolved[e])
    BY <1>1, <2>1, <2>2, <2>3, GraphAssumption DEF TasksGood, InOrder, Whole, Ordered, Unblocked, Backed
  <2>5. Agrees(task[e], episode[e], e \in rejected)
    BY <1>1, <2>1 DEF Agrees
  <2> QED BY <2>4, <2>5
<1>4. CycleAgrees
  BY <1>1 DEF CycleAgrees, Started
<1> QED BY <1>2, <1>3, <1>4 DEF GraphInv

LEMMA GraphStep == ASSUME GraphInv, [GraphNext]_graphVars PROVE GraphInv' /\ GraphKept
<1>1. CASE StartCycle \/ \E e \in Episode : StartEpisode(e)
  BY <1>1, StartGood
<1>2. ASSUME NEW e \in Episode, AcceptPlan(e) PROVE GraphInv' /\ GraphKept
  BY <1>2, AcceptPlanGood
<1>3. ASSUME NEW now \in Times, Recover(now) PROVE GraphInv' /\ GraphKept
  BY <1>3, RecoverGood
<1>4. ASSUME NEW e \in Episode, NEW now \in Times,
             \/ ReadyTasks(e, Swept(e, now)) \/ CancelEpisode(e, Swept(e, now))
             \/ \E limit \in 1..MaxParallel : ClaimReadyTasks(e, Swept(e, now), limit)
             \/ \E s \in Step, status \in Results : CompleteTask(e, s, Swept(e, now), status)
             \/ \E verdict \in {"PASS", "REJECT", "DEFER"} : CompleteCriticTask(e, Swept(e, now), verdict)
      PROVE  GraphInv' /\ GraphKept
  <2>1. CASE ReadyTasks(e, Swept(e, now))
    BY <2>1, ReadyTasksGood
  <2>2. CASE CancelEpisode(e, Swept(e, now))
    BY <2>2, CancelEpisodeGood
  <2>3. ASSUME NEW limit \in 1..MaxParallel, ClaimReadyTasks(e, Swept(e, now), limit)
        PROVE  GraphInv' /\ GraphKept
    <3>1. limit \in Nat
      BY GraphAssumption
    <3> QED BY <2>3, <3>1, ClaimReadyTasksGood
  <2>4. ASSUME NEW s \in Step, NEW status \in Results, CompleteTask(e, s, Swept(e, now), status)
        PROVE  GraphInv' /\ GraphKept
    BY <2>4, CompleteTaskGood
  <2>5. ASSUME NEW verdict \in {"PASS", "REJECT", "DEFER"}, CompleteCriticTask(e, Swept(e, now), verdict)
        PROVE  GraphInv' /\ GraphKept
    BY <2>5, CompleteCriticTaskGood
  <2> QED BY <1>4, <2>1, <2>2, <2>3, <2>4, <2>5
<1>5. CASE UNCHANGED graphVars
  <2>1. UNCHANGED <<cycle, episode, task, resolved, rejected>>
    BY <1>5 DEF graphVars
  <2> QED BY <2>1 DEF GraphInv, GraphTypeOK, CycleAgrees, Started, GraphKept
<1> QED BY <1>1, <1>2, <1>3, <1>4, <1>5 DEF GraphNext

(***************************************************************************)
(* The task graph is in order at every moment, and when a handler returns no*)
(* task waits for one that has failed and every episode and cycle is closed*)
(* that can be: the sweep of each handler reaches its fixpoint.            *)
(***************************************************************************)
THEOREM GraphInductive == GraphSpec => []GraphInv
<1>1. GraphInit => GraphInv
  BY GraphInvInit
<1>2. GraphInv /\ [GraphNext]_graphVars => GraphInv'
  BY GraphStep
<1> QED BY <1>1, <1>2, PTL DEF GraphSpec

(***************************************************************************)
(* Every variable of the graph keeps its type.                             *)
(***************************************************************************)
THEOREM GraphTyped == GraphSpec => []GraphTypeOK
<1>1. GraphInv => GraphTypeOK
  BY DEF GraphInv
<1> QED BY <1>1, GraphInductive, PTL

(***************************************************************************)
(* Nothing runs or completes ahead of what it depends on, nothing waits    *)
(* behind a failure, and no more run than the budget allows, for every     *)
(* plan without a step that depends on itself.                             *)
(***************************************************************************)
THEOREM GraphDependenciesFirst == GraphSpec => []DependenciesFirst
<1>1. GraphInv => DependenciesFirst
  BY DEF GraphInv, DependenciesFirst, TasksGood, InOrder, Ordered, Unblocked, Backed
<1> QED BY <1>1, GraphInductive, PTL

(***************************************************************************)
(* Cycle, episode and tasks tell one story (the closes at the end of every *)
(* handler).                                                               *)
(***************************************************************************)
THEOREM GraphEpisodesAgree == GraphSpec => []EpisodesAgree
<1>1. GraphInv => EpisodesAgree
  BY DEF GraphInv, EpisodesAgree, Agrees, CycleAgrees
<1> QED BY <1>1, GraphInductive, PTL

(***************************************************************************)
(* What has ended stays as it ended, through late completions and sweeps.  *)
(***************************************************************************)
THEOREM GraphEndedStaysEnded == GraphSpec => EndedStaysEnded
<1>1. GraphInv /\ [GraphNext]_graphVars => [GraphKept]_graphVars
  BY GraphStep
<1>2. GraphSpec => [][GraphKept]_graphVars
  BY <1>1, GraphInductive, PTL DEF GraphSpec
<1> QED BY <1>2, PTL DEF EndedStaysEnded, GraphKept

-----------------------------------------------------------------------------
(***************************************************************************)
(* Theorems about AutonomyWorkflow, for every set of processes and worker  *)
(* ids, any number of stages, claims, crashes and lapsed leases.           *)
(***************************************************************************)
Working(p) == call[p] \notin {"idle", "loaded"}

(***************************************************************************)
(* What makes the compare-and-set of checkpoint() enough: a process at     *)
(* work is never ahead of the row, and one that holds the row's version    *)
(* holds its stage.  Every statement that writes the row raises the        *)
(* version, so that a copy once behind stays behind.                       *)
(***************************************************************************)
Abreast(p) ==
    /\ copy[p].version <= run.version
    /\ copy[p].stage <= run.stage
    /\ copy[p].version = run.version => copy[p].stage = run.stage
    /\ call[p] = "advance" => copy[p].stage < Last
    /\ call[p] = "COMPLETED" => copy[p].stage = Last

RunInv ==
    /\ RunTypeOK
    /\ OnePath
    /\ EffectsAreCheckpointed
    /\ run.status = "NONE" => run = NoRun
    /\ \A p \in Process : Working(p) => Abreast(p)

LEMMA RowIsRun ==
    ASSUME NEW status \in RunStatus \cup {"NONE"}, NEW stage \in 0 .. Last, NEW version \in Nat,
           NEW fence \in Nat, NEW owner \in WorkerId \cup {NoWorker}
    PROVE  /\ Row(status, stage, version, fence, owner) \in Run
           /\ Row(status, stage, version, fence, owner).status = status
           /\ Row(status, stage, version, fence, owner).stage = stage
           /\ Row(status, stage, version, fence, owner).version = version
           /\ Row(status, stage, version, fence, owner).fence = fence
           /\ Row(status, stage, version, fence, owner).owner = owner
BY DEF Row, Run

LEMMA RunFields ==
    ASSUME NEW r \in Run
    PROVE  /\ r.status \in RunStatus \cup {"NONE"} /\ r.stage \in 0 .. Last
           /\ r.version \in Nat /\ r.fence \in Nat /\ r.owner \in WorkerId \cup {NoWorker}
BY DEF Run

LEMMA NoRunIsRun ==
    /\ NoRun \in Run
    /\ NoRun.status = "NONE" /\ NoRun.stage = 0 /\ NoRun.version = 0
<1>1. 0 \in 0 .. Last /\ 0 \in Nat
  BY WorkflowAssumption
<1> QED BY <1>1, RowIsRun DEF NoRun

LEMMA HistoryEntries ==
    ASSUME RunTypeOK
    PROVE  /\ Len(history) \in Nat /\ DOMAIN history = 1 .. Len(history)
           /\ \A i \in DOMAIN history : history[i].version \in Nat
<1> DEFINE Entry == [version: Nat, stage: 1 .. Last]
<1>1. \A r \in Entry : r.version \in Nat
  OBVIOUS
<1>2. history \in Seq(Entry)
  BY DEF RunTypeOK
<1> HIDE DEF Entry
<1>3. \A i \in 1 .. Len(history) : history[i] \in Entry
  BY <1>2, ElementOfSeq
<1>4. Len(history) \in Nat /\ DOMAIN history = 1 .. Len(history)
  BY <1>2, LenProperties
<1> QED BY <1>1, <1>3, <1>4

LEMMA InitRunInv == RunInit => RunInv
<1> SUFFICES ASSUME RunInit PROVE RunInv
  OBVIOUS
<1>1. RunTypeOK
  BY NoRunIsRun, WorkflowAssumption DEF RunInit, RunTypeOK, Calls
<1>2. OnePath
  <2>1. Len(history) = 0 /\ run.stage = 0 /\ run.status = "NONE"
    BY NoRunIsRun DEF RunInit
  <2> QED BY <2>1 DEF RunInit, OnePath
<1>3. EffectsAreCheckpointed
  BY DEF RunInit, EffectsAreCheckpointed
<1>4. \A p \in Process : ~ Working(p)
  BY DEF RunInit, Working
<1> QED BY <1>1, <1>2, <1>3, <1>4 DEF RunInv, RunInit

(***************************************************************************)
(* A step that leaves the row alone: of the others nothing moves, and the  *)
(* process that moves is still abreast.                                    *)
(***************************************************************************)
LEMMA RowUntouched ==
    ASSUME RunInv, UNCHANGED <<run, history>>, RunTypeOK', EffectsAreCheckpointed',
           NEW p \in Process,
           \A q \in Process \ {p} : call'[q] = call[q] /\ copy'[q] = copy[q],
           Working(p)' => Abreast(p)'
    PROVE  RunInv'
<1>1. OnePath'
  BY DEF RunInv, OnePath
<1>2. run'.status = "NONE" => run' = NoRun
  BY DEF RunInv
<1>3. ASSUME NEW q \in Process, Working(q)' PROVE Abreast(q)'
  BY <1>3 DEF RunInv, Working, Abreast
<1> QED BY <1>1, <1>2, <1>3 DEF RunInv

LEMMA TriggerKeeps == RunInv /\ Trigger => RunInv'
<1> SUFFICES ASSUME RunInv, Trigger PROVE RunInv'
  OBVIOUS
<1>1. run = NoRun /\ run.stage = 0
  BY NoRunIsRun DEF RunInv, Trigger
<1>2. /\ run' \in Run /\ run'.status = "ACTIVE" /\ run'.stage = 0 /\ run'.version = 1
  <2>1. "ACTIVE" \in RunStatus /\ 0 \in 0 .. Last /\ 1 \in Nat /\ 0 \in Nat
    BY WorkflowAssumption DEF RunStatus
  <2> QED BY <2>1, RowIsRun DEF Trigger
<1>3. RunTypeOK'
  BY <1>2 DEF RunInv, RunTypeOK, Trigger
<1>4. OnePath'
  <2>1. Len(history) = 0 /\ history = <<>>
    BY <1>1 DEF RunInv, OnePath, RunTypeOK
  <2> QED BY <1>2, <2>1 DEF OnePath, Trigger
<1>5. EffectsAreCheckpointed'
  BY <1>1, <1>2 DEF RunInv, EffectsAreCheckpointed, Trigger
<1>6. ASSUME NEW p \in Process, Working(p)' PROVE Abreast(p)'
  <2>1. copy'[p] = copy[p] /\ call'[p] = call[p] /\ Abreast(p)
    BY <1>6 DEF Working, Trigger, RunInv
  <2>2. copy[p].version <= 0 /\ copy[p].version \in Nat /\ copy[p].stage <= 0
    BY <1>1, <2>1, NoRunIsRun, RunFields DEF Abreast, RunInv, RunTypeOK
  <2> QED BY <1>2, <2>1, <2>2 DEF Abreast
<1> QED BY <1>2, <1>3, <1>4, <1>5, <1>6 DEF RunInv

LEMMA LoadKeeps == ASSUME NEW p \in Process, RunInv, Load(p) PROVE RunInv'
<1>1. RunTypeOK'
  BY DEF RunInv, RunTypeOK, Load, Goes, Calls
<1>2. EffectsAreCheckpointed'
  BY DEF RunInv, EffectsAreCheckpointed, Load
<1>3. ~ Working(p)'
  BY DEF RunInv, RunTypeOK, Load, Goes, Working
<1> QED BY <1>1, <1>2, <1>3, RowUntouched DEF Load, Goes, RunInv, RunTypeOK

LEMMA ClaimRefusedKeeps == ASSUME NEW p \in Process, RunInv, ClaimRefused(p) PROVE RunInv'
<1>1. RunTypeOK'
  BY DEF RunInv, RunTypeOK, ClaimRefused, Goes, Calls
<1>2. EffectsAreCheckpointed'
  BY DEF RunInv, EffectsAreCheckpointed, ClaimRefused
<1>3. ~ Working(p)'
  BY DEF RunInv, RunTypeOK, ClaimRefused, Goes, Working
<1> QED BY <1>1, <1>2, <1>3, RowUntouched DEF ClaimRefused, Goes, RunInv, RunTypeOK

LEMMA CrashKeeps == ASSUME NEW p \in Process, RunInv, Crash(p) PROVE RunInv'
<1>1. RunTypeOK'
  BY NoRunIsRun, WorkflowAssumption DEF RunInv, RunTypeOK, Crash, Goes, Calls
<1>2. EffectsAreCheckpointed'
  BY DEF RunInv, EffectsAreCheckpointed, Crash
<1>3. ~ Working(p)'
  BY DEF RunInv, RunTypeOK, Crash, Goes, Working
<1> QED BY <1>1, <1>2, <1>3, RowUntouched DEF Crash, Goes, RunInv, RunTypeOK

LEMMA CompleteKeeps == ASSUME NEW p \in Process, RunInv, Complete(p) PROVE RunInv'
<1>1. RunTypeOK'
  BY DEF RunInv, RunTypeOK, Complete, Goes, Calls, RunStatus, Ended
<1>2. EffectsAreCheckpointed'
  BY DEF RunInv, EffectsAreCheckpointed, Complete
<1>3. Abreast(p)'
  BY DEF RunInv, RunTypeOK, Complete, Goes, Working, Abreast
<1> QED BY <1>1, <1>2, <1>3, RowUntouched DEF Complete, Goes, RunInv, RunTypeOK

LEMMA CheckpointRefusedKeeps == ASSUME NEW p \in Process, RunInv, CheckpointRefused(p) PROVE RunInv'
<1>1. RunTypeOK'
  BY WorkflowAssumption DEF RunInv, RunTypeOK, CheckpointRefused, Goes, Calls, RunStatus
<1>2. EffectsAreCheckpointed'
  BY DEF RunInv, EffectsAreCheckpointed, CheckpointRefused
<1>3. Abreast(p)'
  BY DEF RunInv, RunTypeOK, CheckpointRefused, Goes, Working, Abreast
<1> QED BY <1>1, <1>2, <1>3, RowUntouched DEF CheckpointRefused, Goes, RunInv, RunTypeOK

\* The stage a process executes comes right after one the row has reached.
LEMMA ExecuteKeeps == ASSUME NEW p \in Process, RunInv, Execute(p) PROVE RunInv'
<1>1. /\ Abreast(p) /\ copy[p].stage \in 0 .. Last /\ run.stage \in 0 .. Last
      /\ copy[p].stage < Last /\ Last \in Nat
  BY RunFields, WorkflowAssumption DEF RunInv, RunTypeOK, Working, Execute
<1>2. \E to \in {"advance", "DEFERRED", "FAILED", "INTERRUPTED"} : Goes(p, to)
  BY DEF Execute
<1>3. trouble' \in 0 .. MaxTrouble
  BY WorkflowAssumption DEF RunInv, RunTypeOK, Execute
<1>4. copy[p].stage + 1 \in 1 .. Last /\ copy[p].stage + 1 \in 1 .. (run.stage + 1)
  BY <1>1 DEF Abreast
<1>5. RunTypeOK'
  BY <1>2, <1>3, <1>4 DEF RunInv, RunTypeOK, Execute, Goes, Calls, RunStatus, Ended
<1>6. EffectsAreCheckpointed'
  BY <1>4 DEF RunInv, EffectsAreCheckpointed, Execute
<1>7. Abreast(p)'
  BY <1>1, <1>2 DEF RunInv, RunTypeOK, Execute, Goes, Abreast
<1>8. \A q \in Process \ {p} : call'[q] = call[q] /\ copy'[q] = copy[q]
  BY <1>2 DEF Execute, Goes, RunInv, RunTypeOK
<1> QED BY <1>5, <1>6, <1>7, <1>8, RowUntouched DEF Execute

(***************************************************************************)
(* A step that writes the row raises its version: whoever else is at work  *)
(* is behind from then on.                                                 *)
(***************************************************************************)
LEMMA OthersFallBehind ==
    ASSUME RunInv, NEW p \in Process, NEW q \in Process \ {p},
           run' \in Run, run'.version = run.version + 1, run.stage <= run'.stage,
           call'[q] = call[q], copy'[q] = copy[q], Working(q)'
    PROVE  Abreast(q)'
<1>1. Abreast(q)
  BY DEF RunInv, Working
<1>2. /\ run.version \in Nat /\ copy[q].version \in Nat /\ run'.version \in Nat
      /\ run.stage \in 0 .. Last /\ run'.stage \in 0 .. Last /\ copy[q].stage \in 0 .. Last
  BY RunFields DEF RunInv, RunTypeOK
<1>3. copy[q].version <= run'.version /\ copy[q].version # run'.version
  BY <1>1, <1>2 DEF Abreast
<1>4. copy[q].stage <= run'.stage
  BY <1>1, <1>2, WorkflowAssumption DEF Abreast
<1> QED BY <1>1, <1>3, <1>4 DEF Abreast

LEMMA ClaimKeeps == ASSUME NEW p \in Process, RunInv, Claim(p) PROVE RunInv'
<1>1. /\ run' \in Run /\ run'.status = "ACTIVE" /\ run'.stage = run.stage
      /\ run'.version = run.version + 1
  <2>1. "ACTIVE" \in RunStatus
    BY DEF RunStatus
  <2>2. /\ run.stage \in 0 .. Last /\ run.version + 1 \in Nat /\ run.fence + 1 \in Nat
        /\ NameOf[p] \in WorkerId
    BY RunFields, WorkflowAssumption DEF RunInv, RunTypeOK
  <2> QED BY <2>1, <2>2, RowIsRun DEF Claim, Claimed
<1>2. trouble' \in 0 .. MaxTrouble
  BY WorkflowAssumption DEF RunInv, RunTypeOK, Claim, TakesLease
<1>3. RunTypeOK'
  BY <1>1, <1>2 DEF RunInv, RunTypeOK, Claim, Goes, Calls
<1>4. run.version \in Nat /\ run.stage \in 0 .. Last
  BY RunFields DEF RunInv, RunTypeOK
<1>5. OnePath'
  <2>1. \A i \in DOMAIN history : history[i].version \in Nat
    BY HistoryEntries DEF RunInv
  <2> QED BY <1>1, <1>4, <2>1 DEF RunInv, OnePath, Claim
<1>6. EffectsAreCheckpointed'
  BY <1>1 DEF RunInv, EffectsAreCheckpointed, Claim
<1>7. ASSUME NEW q \in Process, Working(q)' PROVE Abreast(q)'
  <2>1. CASE q = p
    <3>1. copy'[p] = run' /\ call'[p] = "running"
      BY DEF Claim, Goes, RunInv, RunTypeOK
    <3> QED BY <1>1, <1>4, <2>1, <3>1 DEF Abreast
  <2>2. CASE q # p
    <3>1. call'[q] = call[q] /\ copy'[q] = copy[q]
      BY <2>2 DEF Claim, Goes, RunInv, RunTypeOK
    <3> QED BY <1>1, <1>4, <1>7, <2>2, <3>1, OthersFallBehind
  <2> QED BY <2>1, <2>2
<1> QED BY <1>1, <1>3, <1>5, <1>6, <1>7 DEF RunInv

\* The copy agrees with the row, so the stage is the next one of the row.
LEMMA CheckpointKeeps == ASSUME NEW p \in Process, RunInv, Checkpoint(p) PROVE RunInv'
<1>1. /\ copy[p].stage = run.stage /\ run.stage < Last
      /\ run.version \in Nat /\ run.stage \in 0 .. Last /\ Last \in Nat
  <2>1. Abreast(p)
    BY DEF RunInv, Working, Checkpoint
  <2> QED BY <2>1, RunFields, WorkflowAssumption DEF RunInv, RunTypeOK, Abreast, Checkpoint, Current
<1>2. /\ run' \in Run /\ run'.status = run.status /\ run'.stage = run.stage + 1
      /\ run'.version = run.version + 1
  <2>1. run.stage + 1 \in 0 .. Last /\ run.version + 1 \in Nat
    BY <1>1
  <2>2. /\ run.status \in RunStatus \cup {"NONE"} /\ run.fence \in Nat
        /\ run.owner \in WorkerId \cup {NoWorker}
    BY RunFields DEF RunInv, RunTypeOK
  <2>3. run' = Row(run.status, run.stage + 1, run.version + 1, run.fence, run.owner)
    BY <1>1 DEF Checkpoint, Advanced
  <2> QED BY <2>1, <2>2, <2>3, RowIsRun
<1>3. run.status \notin {"NONE", "COMPLETED"}
  <2>1. run.status # "COMPLETED"
    BY <1>1 DEF RunInv, OnePath
  <2>2. run.owner # NoWorker
    BY WorkflowAssumption DEF Checkpoint, Current
  <2>3. NoRun.owner = NoWorker
    BY DEF NoRun, Row
  <2> QED BY <2>1, <2>2, <2>3 DEF RunInv
<1>4. DEFINE new == [version |-> run.version + 1, stage |-> run.stage + 1]
<1>5. /\ new \in [version: Nat, stage: 1 .. Last]
      /\ new.version = run.version + 1 /\ new.stage = run.stage + 1
      /\ history' = Append(history, new)
  BY <1>1, <1>2 DEF Checkpoint
<1> HIDE DEF new
<1>6. history \in Seq([version: Nat, stage: 1 .. Last])
  BY DEF RunInv, RunTypeOK
<1>7. RunTypeOK'
  <2>1. history' \in Seq([version: Nat, stage: 1 .. Last])
    BY <1>5, <1>6
  <2> QED BY <1>2, <2>1 DEF RunInv, RunTypeOK, Checkpoint, Goes, Calls
<1>8. OnePath'
  <2>1. /\ Len(history) = run.stage
        /\ \A i \in 1 .. Len(history) :
              history[i].stage = i /\ history[i].version <= run.version /\ history[i].version \in Nat
        /\ \A i, j \in 1 .. Len(history) : i < j => history[i].version < history[j].version
    BY HistoryEntries DEF RunInv, OnePath
  <2>2. /\ DOMAIN history' = 1 .. run.stage + 1 /\ Len(history') = run.stage + 1
        /\ \A i \in 1 .. run.stage : history'[i] = history[i]
        /\ history'[run.stage + 1] = new
    BY <1>5, <1>6, <2>1
  <2>3. ASSUME NEW i \in 1 .. run.stage + 1
        PROVE  history'[i].stage = i /\ history'[i].version <= run'.version
    BY <1>1, <1>2, <1>5, <2>1, <2>2
  <2>4. ASSUME NEW i \in 1 .. run.stage + 1, NEW j \in 1 .. run.stage + 1, i < j
        PROVE  history'[i].version < history'[j].version
    BY <1>1, <1>5, <2>1, <2>2, <2>4
  <2> QED BY <1>2, <1>3, <2>2, <2>3, <2>4 DEF OnePath
<1>9. EffectsAreCheckpointed'
  BY <1>1, <1>2 DEF RunInv, EffectsAreCheckpointed, Checkpoint
<1>10. ASSUME NEW q \in Process, Working(q)' PROVE Abreast(q)'
  <2>1. CASE q = p
    <3>1. copy'[p] = run' /\ call'[p] = "running"
      BY DEF Checkpoint, Goes, RunInv, RunTypeOK
    <3> QED BY <1>1, <1>2, <2>1, <3>1 DEF Abreast
  <2>2. CASE q # p
    <3>1. call'[q] = call[q] /\ copy'[q] = copy[q]
      BY <2>2 DEF Checkpoint, Goes, RunInv, RunTypeOK
    <3> QED BY <1>1, <1>2, <1>10, <2>2, <3>1, OthersFallBehind
  <2> QED BY <2>1, <2>2
<1> QED BY <1>2, <1>3, <1>7, <1>8, <1>9, <1>10 DEF RunInv

\* A process that says COMPLETED and holds the row's version is at its last stage.
LEMMA FinishKeeps == ASSUME NEW p \in Process, RunInv, Finish(p) PROVE RunInv'
<1>1. run.version \in Nat /\ run.stage \in 0 .. Last /\ Last \in Nat
  BY RunFields, WorkflowAssumption DEF RunInv, RunTypeOK
<1>2. copy' = [copy EXCEPT ![p] = NoRun] /\ call' = [call EXCEPT ![p] = "idle"]
  BY DEF Finish, Goes
<1>3. /\ ~ Working(p)'
      /\ \A q \in Process \ {p} : call'[q] = call[q] /\ copy'[q] = copy[q]
  BY <1>2 DEF Working, RunInv, RunTypeOK
<1>4. CASE ~ Current(p)
  <2>1. UNCHANGED run
    BY <1>4 DEF Finish
  <2>2. RunTypeOK'
    BY <1>2, <2>1, NoRunIsRun DEF RunInv, RunTypeOK, Finish, Calls
  <2>3. EffectsAreCheckpointed'
    BY <2>1 DEF RunInv, EffectsAreCheckpointed, Finish
  <2> QED BY <1>3, <2>1, <2>2, <2>3, RowUntouched DEF Finish
<1>5. CASE Current(p)
  <2>1. /\ run' \in Run /\ run'.status = call[p] /\ run'.stage = run.stage
        /\ run'.version = run.version + 1 /\ call[p] \in RunStatus
    <3>1. call[p] \in RunStatus /\ run.version + 1 \in Nat
      BY <1>1 DEF Finish
    <3> QED BY <1>5, <3>1, RunFields, RowIsRun DEF RunInv, RunTypeOK, Finish, Finished
  <2>2. call[p] = "COMPLETED" => run.stage = Last
    <3>1. call[p] = "COMPLETED" => Abreast(p)
      BY DEF RunInv, Working
    <3> QED BY <1>5, <3>1 DEF Abreast, Current
  <2>3. RunTypeOK'
    BY <1>2, <2>1, NoRunIsRun DEF RunInv, RunTypeOK, Finish, Calls
  <2>4. OnePath'
    <3>1. \A i \in DOMAIN history : history[i].version \in Nat
      BY HistoryEntries DEF RunInv
    <3> QED BY <1>1, <2>1, <2>2, <3>1 DEF RunInv, OnePath, Finish
  <2>5. EffectsAreCheckpointed'
    BY <2>1 DEF RunInv, EffectsAreCheckpointed, Finish
  <2>6. ASSUME NEW q \in Process, Working(q)' PROVE Abreast(q)'
    <3>1. q # p
      BY <1>3, <2>6
    <3> QED BY <1>1, <1>3, <2>1, <2>6, <3>1, OthersFallBehind
  <2>7. run'.status # "NONE"
    BY <2>1 DEF RunStatus, Ended
  <2> QED BY <2>3, <2>4, <2>5, <2>6, <2>7 DEF RunInv
<1> QED BY <1>4, <1>5

LEMMA NextRunInv == RunInv /\ [RunNext]_runVars => RunInv'
<1> SUFFICES ASSUME RunInv, [RunNext]_runVars PROVE RunInv'
  OBVIOUS
<1>1. CASE Trigger
  BY <1>1, TriggerKeeps
<1>2. ASSUME NEW p \in Process, Work(p) PROVE RunInv'
  BY <1>2, LoadKeeps, ClaimKeeps, ExecuteKeeps, CompleteKeeps, CheckpointKeeps,
     CheckpointRefusedKeeps, FinishKeeps DEF Work
<1>3. ASSUME NEW p \in Process, ClaimRefused(p) PROVE RunInv'
  BY <1>3, ClaimRefusedKeeps
<1>4. ASSUME NEW p \in Process, Crash(p) PROVE RunInv'
  BY <1>4, CrashKeeps
<1>5. CASE UNCHANGED runVars
  BY <1>5 DEF runVars, RunInv, RunTypeOK, OnePath, EffectsAreCheckpointed, Working, Abreast
<1> QED BY <1>1, <1>2, <1>3, <1>4, <1>5 DEF RunNext

LEMMA RunInvHolds == RunSpec => []RunInv
BY InitRunInv, NextRunInv, PTL DEF RunSpec

(***************************************************************************)
(* The history of a run is one path through the stages, whoever wrote it:  *)
(* the compare-and-set of checkpoint() on version, fence and owner.        *)
(***************************************************************************)
THEOREM HistoryIsOnePath == RunSpec => []OnePath
<1>1. RunInv => OnePath
  BY DEF RunInv
<1> QED BY <1>1, RunInvHolds, PTL

(***************************************************************************)
(* No stage is executed more than one ahead of the checkpoint, by stale    *)
(* processes neither: a refused checkpoint() ends the call of run().       *)
(***************************************************************************)
THEOREM NoEffectAhead == RunSpec => []EffectsAreCheckpointed
<1>1. RunInv => EffectsAreCheckpointed
  BY DEF RunInv
<1> QED BY <1>1, RunInvHolds, PTL

-----------------------------------------------------------------------------
(***************************************************************************)
(* A decided watch event stays decided, for any workers, events and bound  *)
(* on what goes wrong.  Only a retry could bring a row back, and its       *)
(* update looks at the state of the row; what has to be known beside that  *)
(* is that a worker about to write brings an answer and nothing else.      *)
(***************************************************************************)
RowStates == {"NONE", "QUEUED", "RUNNING", "RETRY"} \cup Decided
Answers == {"COMPLETED", "RETRY", "FAILED"}

\* A turn at work is at work on an event, and one about to decide has an answer.
Sound(t) ==
    /\ t.step # "free" => t.event \in Watched
    /\ t.step \in {"deciding", "writing"} => t.answer \in Answers

Answered ==
    /\ watch \in [Watched -> RowStates]
    /\ DOMAIN turn = Watcher
    /\ \A w \in Watcher : Sound(turn[w])

LEMMA SoundTurns ==
    /\ Sound(NoTurn)
    /\ \A e \in Watched : \A answer, saw : Sound(Turn("handing", e, answer, saw))
    /\ \A step \in {"deciding", "writing"}, e \in Watched, answer \in Answers : \A saw :
          Sound(Turn(step, e, answer, saw))
  BY DEF Sound, Turn, NoTurn

LEMMA AnsweredInit == WatchInit => Answered
  BY SoundTurns DEF WatchInit, Answered, RowStates

\* A worker's turn becomes a sound one, and the rows keep their states.
LEMMA TurnTaken ==
    ASSUME Answered, NEW w \in Watcher, NEW t, Sound(t),
           turn' = [turn EXCEPT ![w] = t], watch' \in [Watched -> RowStates]
    PROVE  Answered'
  BY DEF Answered, Sound

\* Every step leaves answers where answers are written from.
LEMMA AnsweredStep == Answered /\ [WatchNext]_watchVars => Answered'
<1> SUFFICES ASSUME Answered, [WatchNext]_watchVars PROVE Answered'
    OBVIOUS
<1>t. watch \in [Watched -> RowStates] /\ \A w \in Watcher : Sound(turn[w])
    BY DEF Answered
<1>1. ASSUME NEW e \in Watched, EnqueueWatch(e) PROVE Answered'
    BY <1>1 DEF EnqueueWatch, Answered, RowStates, Sound
<1>2. ASSUME NEW e \in Watched, Lapses(e) PROVE Answered'
    BY <1>2 DEF Lapses, Answered, Sound
<1>3. ASSUME NEW w \in Watcher, ClaimWatches(w) PROVE Answered'
    BY <1>3 DEF ClaimWatches, Answered, RowStates, Sound
<1>4. ASSUME NEW w \in Watcher, NEW e \in Watched, Ask(w, e) PROVE Answered'
  <2>1. watch' = watch
      BY <1>4 DEF Ask, rowVars
  <2>2. \/ turn' = [turn EXCEPT ![w] = Turn("deciding", e, "COMPLETED", FALSE)]
        \/ turn' = [turn EXCEPT ![w] = Turn("handing", e, "none", FALSE)]
      BY <1>4 DEF Ask
  <2>3. /\ Sound(Turn("deciding", e, "COMPLETED", FALSE))
        /\ Sound(Turn("handing", e, "none", FALSE))
      BY SoundTurns DEF Answers
  <2>4. QED BY <2>1, <2>2, <2>3, <1>t, TurnTaken
<1>5. ASSUME NEW w \in Watcher, Hand(w) PROVE Answered'
  <2>1. PICK answer \in Answers :
            turn' = [turn EXCEPT ![w] = Turn("deciding", turn[w].event, answer, FALSE)]
      BY <1>5 DEF Hand, Answers
  <2>2. watch' = watch /\ turn[w].event \in Watched
      BY <1>5, <1>t DEF Hand, Sound, rowVars
  <2>3. Sound(Turn("deciding", turn[w].event, answer, FALSE))
      BY <2>2, SoundTurns
  <2>4. QED BY <2>1, <2>2, <2>3, <1>t, TurnTaken
<1>6. ASSUME NEW w \in Watcher, StartDecision(w) PROVE Answered'
  <2>1. /\ watch' = watch
        /\ turn' = [turn EXCEPT ![w] = Turn("writing", turn[w].event, turn[w].answer, Matches(w))]
      BY <1>6 DEF StartDecision, rowVars
  <2>2. turn[w].event \in Watched /\ turn[w].answer \in Answers
      BY <1>6, <1>t DEF StartDecision, Sound
  <2>3. Sound(Turn("writing", turn[w].event, turn[w].answer, Matches(w)))
      BY <2>2, SoundTurns
  <2>4. QED BY <2>1, <2>3, <1>t, TurnTaken
<1>7. ASSUME NEW w \in Watcher, Decide(w) PROVE Answered'
  <2>1. turn' = [turn EXCEPT ![w] = NoTurn]
      BY <1>7 DEF Decide
  <2>2. watch' = watch \/ watch' = [watch EXCEPT ![turn[w].event] = turn[w].answer]
      BY <1>7 DEF Decide
  <2>3. turn[w].answer \in RowStates
      BY <1>7, <1>t DEF Decide, Sound, Answers, RowStates, Decided
  <2>4. watch' \in [Watched -> RowStates]
      BY <2>2, <2>3, <1>t
  <2>5. QED BY <2>1, <2>4, SoundTurns, TurnTaken
<1>8. ASSUME NEW w \in Watcher, Dies(w) PROVE Answered'
  <2>1. watch' = watch /\ turn' = [turn EXCEPT ![w] = NoTurn]
      BY <1>8 DEF Dies, rowVars
  <2>2. QED BY <2>1, <1>t, SoundTurns, TurnTaken
<1>9. CASE RecoverWatches
    BY <1>9 DEF RecoverWatches, Answered, RowStates, Sound
<1>10. CASE UNCHANGED watchVars
    BY <1>10 DEF watchVars, Answered, Sound
<1>11. QED
    BY <1>1, <1>2, <1>3, <1>4, <1>5, <1>6, <1>7, <1>8, <1>9, <1>10 DEF WatchNext, WatchStep

\* No step takes a decided row out of its decision.
LEMMA DecidedStep ==
    ASSUME Answered, [WatchNext]_watchVars, NEW e \in Watched, watch[e] \in Decided
    PROVE  watch'[e] \in Decided
<1>t. watch \in [Watched -> RowStates] /\ \A w \in Watcher : Sound(turn[w])
    BY DEF Answered
<1>s. watch[e] \notin {"NONE", "QUEUED", "RUNNING", "RETRY"}
    BY DEF Decided
<1>1. ASSUME NEW d \in Watched, EnqueueWatch(d) PROVE watch'[e] \in Decided
    BY <1>1, <1>t, <1>s DEF EnqueueWatch
<1>2. ASSUME NEW w \in Watcher, ClaimWatches(w) PROVE watch'[e] \in Decided
    BY <1>2, <1>s DEF ClaimWatches, Due
<1>3. ASSUME NEW w \in Watcher, Decide(w) PROVE watch'[e] \in Decided
  <2>1. CASE e # turn[w].event \/ ~ Changes(w)
      BY <2>1, <1>3, <1>t DEF Decide
  <2>2. CASE e = turn[w].event /\ Changes(w)
    <3>1. turn[w].answer \in Answers
        BY <1>3, <1>t DEF Decide, Sound
    <3>2. turn[w].answer # "RETRY"
        BY <2>2, <1>s DEF Changes
    <3>3. watch'[e] = turn[w].answer
        BY <2>2, <1>3, <1>t DEF Decide
    <3>4. QED BY <3>1, <3>2, <3>3 DEF Answers, Decided
  <2>3. QED BY <2>1, <2>2
<1>4. CASE RecoverWatches
    BY <1>4, <1>s DEF RecoverWatches, Lost
<1>5. ASSUME \/ \E d \in Watched : Lapses(d)
             \/ \E w \in Watcher : Dies(w) \/ Hand(w) \/ StartDecision(w)
             \/ \E w \in Watcher, d \in Watched : Ask(w, d)
             \/ UNCHANGED watchVars
      PROVE  watch'[e] \in Decided
    BY <1>5 DEF Lapses, Dies, Hand, StartDecision, Ask, rowVars, watchVars
<1>6. QED
    BY <1>1, <1>2, <1>3, <1>4, <1>5 DEF WatchNext, WatchStep

\* DecidedStaysDecided, for any workers, events and bound: no retry_task(),
\* claim or recovery brings a row back that complete_task() decided.
THEOREM WatchesStayDecided == WatchSpec => DecidedStaysDecided
<1>1. Answered /\ [WatchNext]_watchVars
        => [\A e \in Watched : watch[e] \in Decided => watch'[e] \in Decided]_watchVars
    BY DecidedStep
<1>2. QED
    BY <1>1, AnsweredInit, AnsweredStep, PTL DEF WatchSpec, DecidedStaysDecided
=============================================================================
