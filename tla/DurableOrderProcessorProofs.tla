--------------------- MODULE DurableOrderProcessorProofs ---------------------
(***************************************************************************)
(* Theorems about DurableOrderProcessor, for any number of processes and   *)
(* commands, with crashes and failed writes anywhere.                      *)
(***************************************************************************)
EXTENDS DurableOrderProcessor, OrderCommandsProofs

(***************************************************************************)
(* What a call that returns something has done, as a value.                *)
(***************************************************************************)
LEMMA MovedKeeps ==
    ASSUME NEW p \in Processor, NEW q, Moved(p, q), NEW c \in Ids, p.commands[c] # None
    PROVE  q.commands[c] = p.commands[c]
<1>1. CASE q = p
  BY <1>1
<1>2. ASSUME NEW o \in Orders, NEW status \in {"CREATED", "WORKING"}, Opened(p, q, o, status)
      PROVE  q.commands[c] = p.commands[c]
  BY <1>2 DEF Opened, Becomes
<1>3. ASSUME NEW d \in Ids, NEW payload \in Payload, Done(p, q, d, payload)
      PROVE  q.commands[c] = p.commands[c]
  <2>1. p.commands[d] = None /\ q.commands = [p.commands EXCEPT ![d] = Result(p, payload)]
    BY <1>3 DEF Done, Becomes
  <2> QED BY <2>1, Fields
<1> QED BY <1>1, <1>2, <1>3 DEF Moved

\* Who answers what, case by case.
LEMMA AnswerCases ==
    ASSUME NEW p, NEW c, NEW payload, NEW sequence
    PROVE  /\ Begins(p, c, sequence) /\ Raises(p, payload)
                 => Answer(p, c, payload, sequence) = None
           /\ Begins(p, c, sequence) /\ ~ Raises(p, payload)
                 => Answer(p, c, payload, sequence) = Applied(p, c, payload).commands[c]
           /\ ~ Begins(p, c, sequence)
                 => \/ Answer(p, c, payload, sequence) = p.commands[c]
                    \/ Answer(p, c, payload, sequence).reason
                          \in {"COMMAND_ID_CONFLICT", "EVENT_SEQUENCE_GAP"}
<1> DEFINE begins == Begins(p, c, sequence)
           raises == Raises(p, payload)
           recorded == Recorded(p, c)
           applied == Applied(p, c, payload).commands[c]
           repeated == p.prints[c] = payload \/ sequence = 0
           conflict == [accepted |-> FALSE, order |-> p.commands[c].order,
                        reason |-> "COMMAND_ID_CONFLICT", sequence |-> p.commands[c].sequence]
           gap == [accepted |-> FALSE, order |-> None, reason |-> "EVENT_SEQUENCE_GAP",
                   sequence |-> sequence]
<1>1. Answer(p, c, payload, sequence)
          = CASE begins -> IF raises THEN None ELSE applied
              [] recorded -> IF repeated THEN p.commands[c] ELSE conflict
              [] OTHER -> gap
  BY DEF Answer
<1>2. conflict.reason = "COMMAND_ID_CONFLICT" /\ gap.reason = "EVENT_SEQUENCE_GAP"
  OBVIOUS
<1>3. begins => ~ recorded
  BY DEF Begins
<1> HIDE DEF begins, raises, recorded, applied, repeated, conflict, gap
<1>4. /\ begins /\ raises => Answer(p, c, payload, sequence) = None
      /\ begins /\ ~ raises => Answer(p, c, payload, sequence) = applied
      /\ ~ begins /\ recorded /\ repeated => Answer(p, c, payload, sequence) = p.commands[c]
      /\ ~ begins /\ recorded /\ ~ repeated => Answer(p, c, payload, sequence) = conflict
      /\ ~ begins /\ ~ recorded => Answer(p, c, payload, sequence) = gap
  BY <1>1, <1>3
<1> QED BY <1>2, <1>4 DEF begins, raises, applied

\* A call that gave an answer left nothing half done, and the outcome it
\* answered is the one on record.
LEMMA AnswerOnRecord ==
    ASSUME NEW p \in Processor, NEW c \in Ids, NEW payload \in Payload, NEW sequence, NEW q,
           q = Executed(p, c, payload, sequence), Answer(p, c, payload, sequence) # None
    PROVE  /\ Moved(p, q)
           /\ Answer(p, c, payload, sequence) \in Outcome
                 => q.commands[c] = Answer(p, c, payload, sequence)
<1>1. CASE Begins(p, c, sequence) /\ Raises(p, payload)
  BY <1>1, AnswerCases
<1>2. CASE Begins(p, c, sequence) /\ ~ Raises(p, payload)
  <2>1. Done(p, q, c, payload)
    BY <1>2, CommandEffect
  <2>2. q = Applied(p, c, payload)
    BY <1>2 DEF Executed
  <2>3. Answer(p, c, payload, sequence) = Applied(p, c, payload).commands[c]
    BY <1>2, AnswerCases
  <2>4. Moved(p, q)
    BY <2>1 DEF Moved
  <2> QED BY <2>2, <2>3, <2>4
<1>3. CASE ~ Begins(p, c, sequence)
  <2>1. q = p
    BY <1>3, CommandEffect
  <2>2. Moved(p, q)
    BY <2>1 DEF Moved
  <2>3. \/ Answer(p, c, payload, sequence) = p.commands[c]
        \/ Answer(p, c, payload, sequence).reason
              \in {"COMMAND_ID_CONFLICT", "EVENT_SEQUENCE_GAP"}
    BY <1>3, AnswerCases
  <2>4. Answer(p, c, payload, sequence) \in Outcome
           => Answer(p, c, payload, sequence) = p.commands[c]
    BY <2>3 DEF Outcome
  <2> QED BY <2>1, <2>2, <2>4
<1> QED BY <1>1, <1>2, <1>3

\* Registering an order that is not there, or that is there as it is.
LEMMA RegisteredMoves ==
    ASSUME NEW p \in Processor, NEW o \in Orders, NEW status \in {"CREATED", "WORKING"},
           p.orders[o] \in {None, [status |-> status, filled |-> 0]}
    PROVE  Moved(p, Registered(p, o, status))
<1>1. CASE p.orders[o] = None
  <2>1. Opened(p, Registered(p, o, status), o, status)
    BY <1>1, RegisterEffect
  <2> QED BY <2>1 DEF Moved
<1>2. CASE p.orders[o] = [status |-> status, filled |-> 0]
  <2>1. [p.orders EXCEPT ![o] = [status |-> status, filled |-> 0]] = p.orders
    BY <1>2, Fields
  <2>2. Registered(p, o, status) = p
    BY <2>1 DEF Registered, Processor
  <2> QED BY <2>2 DEF Moved
<1> QED BY <1>1, <1>2

\* A step that leaves nothing half done leaves a snapshot that restore()
\* accepts as it found it.
LEMMA MovedRestorable ==
    ASSUME NEW p, Sound(p), NEW q, Moved(p, q), Restorable(p)
    PROVE  Restorable(q)
<1> DEFINE done(r) == {c \in Ids : r.commands[c] # None}
<1>0. p \in Processor
  BY DEF Sound
<1>1. CASE q = p
  BY <1>1
<1>2. ASSUME NEW o \in Orders, NEW status \in {"CREATED", "WORKING"}, Opened(p, q, o, status)
      PROVE  Restorable(q)
  <2>1. q.commands = p.commands /\ q.prints = p.prints /\ q.last = p.last
    BY <1>2 DEF Opened, Becomes
  <2> QED BY <2>1 DEF Restorable
<1>3. ASSUME NEW c \in Ids, NEW payload \in Payload, Done(p, q, c, payload)
      PROVE  Restorable(q)
  <2>1. /\ p.commands[c] = None
        /\ q.commands = [p.commands EXCEPT ![c] = Result(p, payload)]
        /\ q.prints = [p.prints EXCEPT ![c] = payload]
        /\ q.last = p.last + 1
    BY <1>3 DEF Done, Becomes
  <2>2. /\ Result(p, payload).sequence = p.last + 1
        /\ Result(p, payload) # None
        /\ payload # None
        /\ p.last \in Nat
    BY <1>0, ResultType, Fields, AbsentAssumption DEF Result
  <2>3. /\ q.commands[c] = Result(p, payload) /\ q.prints[c] = payload
        /\ \A d \in Ids : d # c => q.commands[d] = p.commands[d] /\ q.prints[d] = p.prints[d]
    BY <1>0, <2>1, Fields
  <2>4. done(q) = done(p) \cup {c} /\ c \notin done(p)
    BY <2>1, <2>2, <2>3
  <2>5. /\ \A c1, c2 \in done(p) : c1 # c2 => p.commands[c1].sequence # p.commands[c2].sequence
        /\ {p.commands[d].sequence : d \in done(p)} = 1 .. p.last
        /\ done(p) = {d \in Ids : p.prints[d] # None}
    BY DEF Restorable
  <2>6. \A d \in done(p) : /\ q.commands[d].sequence = p.commands[d].sequence
                           /\ p.commands[d].sequence \in 1 .. p.last
    BY <2>3, <2>4, <2>5
  <2>7. {d \in Ids : q.prints[d] # None} = done(q)
    BY <2>2, <2>3, <2>4, <2>5
  <2>8. q.commands[c].sequence = p.last + 1
    BY <2>2, <2>3
  <2> HIDE DEF done
  <2>9. \A c1, c2 \in done(q) : c1 # c2 => q.commands[c1].sequence # q.commands[c2].sequence
    BY <2>2, <2>4, <2>5, <2>6, <2>8
  <2>10. {q.commands[d].sequence : d \in done(q)} = 1 .. q.last
    <3>1. {q.commands[d].sequence : d \in done(q)}
              = {p.commands[d].sequence : d \in done(p)} \cup {p.last + 1}
      BY <2>4, <2>6, <2>8
    <3>2. 1 .. p.last + 1 = (1 .. p.last) \cup {p.last + 1}
      BY <2>2
    <3> QED BY <2>1, <2>5, <3>1, <3>2
  <2> QED BY <2>7, <2>9, <2>10 DEF Restorable, done
<1> QED BY <1>1, <1>2, <1>3 DEF Moved

(***************************************************************************)
(* The inductive invariant.  That what was acknowledged is on file says    *)
(* nothing about the file that is about to replace it: while the lock is   *)
(* held, the memory to be written is one step ahead of the file, and the   *)
(* answer to be returned is on record in what was or will be written.      *)
(***************************************************************************)
Clean ==
    /\ file # None => Sound(file)
    /\ \A p \in Processes : Sound(memory[p])

Ahead == \A p \in Processes : pc[p] = "applied" /\ file # None => Moved(file, memory[p])

Owed ==
    /\ answer = [p \in Processes |-> answer[p]]
    /\ \A p \in Processes : answer[p].outcome \in Outcome =>
          /\ answer[p].command \in Ids
          /\ pc[p] = "applied"  => memory[p].commands[answer[p].command] = answer[p].outcome
          /\ pc[p] = "replaced" => /\ file # None
                                   /\ file.commands[answer[p].command] = answer[p].outcome

Inv == TypeOK /\ Clean /\ Ahead /\ Owed /\ AckedIsDurable

LEMMA InitInv == Init => Inv
<1> SUFFICES ASSUME Init PROVE Inv
  OBVIOUS
<1>1. Empty \in Processor
  BY EmptySound DEF Sound
<1>2. TypeOK
  BY <1>1, AbsentAssumption DEF Init, TypeOK
<1>3. Clean
  BY EmptySound DEF Init, Clean
<1>4. Owed
  BY NoneAssumption DEF Init, Owed, Nothing
<1>5. Ahead /\ AckedIsDurable
  BY DEF Init, Ahead, AckedIsDurable
<1> QED BY <1>2, <1>3, <1>4, <1>5 DEF Inv

\* An operation that gets the lock works on a sound processor, which is the
\* file's if there is one.
LEMMA EnterLoads ==
    ASSUME Inv, NEW p \in Processes, Enter(p)
    PROVE  /\ Sound(Loaded(p)) /\ Loaded(p) \in Processor
           /\ file # None => Loaded(p) = file
           /\ \A r \in Processes : pc[r] = "idle"
BY AbsentAssumption DEF Inv, Clean, Enter, Loaded, Sound, TypeOK

\* Such an operation either ends at once, with whatever it did in memory, or
\* goes on to write what it did, with the answer it will give.
Works(p, done, owed) ==
    /\ \A r \in Processes : pc[r] = "idle"
    /\ Sound(done)
    /\ memory' = [memory EXCEPT ![p] = done]
    /\ \/ UNCHANGED <<holder, pc, answer>>
       \/ /\ holder' = p
          /\ pc' = [pc EXCEPT ![p] = "applied"]
          /\ answer' = [answer EXCEPT ![p] = owed]
          /\ file # None => Moved(file, done)
          /\ owed.outcome \in Outcome =>
                /\ owed.command \in Ids
                /\ done.commands[owed.command] = owed.outcome
    /\ UNCHANGED <<file, acked>>

LEMMA RegisterWorks ==
    ASSUME Inv, NEW p \in Processes, NEW o \in Orders, NEW status \in {"CREATED", "WORKING"},
           Register(p, o, status)
    PROVE  \E done : Works(p, done, Nothing)
<1>1. /\ Sound(Loaded(p)) /\ Loaded(p) \in Processor
      /\ file # None => Loaded(p) = file
      /\ \A r \in Processes : pc[r] = "idle"
  BY EnterLoads DEF Register
<1>2. CASE Loaded(p).orders[o] \in {None, [status |-> status, filled |-> 0]}
  <2> DEFINE done == Registered(Loaded(p), o, status)
  <2>1. Moved(Loaded(p), done)
    BY <1>1, <1>2, RegisteredMoves
  <2>2. Sound(done)
    BY <1>1, <2>1, SteppedSound DEF Stepped
  <2>3. /\ memory' = [memory EXCEPT ![p] = done]
        /\ holder' = p
        /\ pc' = [pc EXCEPT ![p] = "applied"]
        /\ answer' = [answer EXCEPT ![p] = Nothing]
        /\ UNCHANGED <<file, acked>>
    BY <1>2 DEF Register
  <2>4. Nothing.outcome \notin Outcome
    BY NoneAssumption DEF Nothing
  <2> HIDE DEF done
  <2> QED BY <1>1, <2>1, <2>2, <2>3, <2>4 DEF Works
<1>3. CASE Loaded(p).orders[o] \notin {None, [status |-> status, filled |-> 0]}
  <2>1. /\ memory' = [memory EXCEPT ![p] = Loaded(p)]
        /\ UNCHANGED <<holder, pc, answer>>
        /\ UNCHANGED <<file, acked>>
    BY <1>3 DEF Register
  <2> QED BY <1>1, <2>1 DEF Works
<1> QED BY <1>2, <1>3

LEMMA ApplyWorks ==
    ASSUME Inv, NEW p \in Processes, NEW c \in Ids, NEW payload \in Inputs, NEW sequence,
           Apply(p, c, payload, sequence)
    PROVE  \E done, owed : Works(p, done, owed)
<1> DEFINE done == Executed(Loaded(p), c, payload, sequence)
           result == Answer(Loaded(p), c, payload, sequence)
           owed == [command |-> c, outcome |-> result]
<1>1. /\ Sound(Loaded(p)) /\ Loaded(p) \in Processor
      /\ file # None => Loaded(p) = file
      /\ \A r \in Processes : pc[r] = "idle"
  BY EnterLoads DEF Apply
<1>2. payload \in Payload
  BY InputsAssumption
<1>3. Stepped(Loaded(p), done)
  BY <1>1, <1>2, CommandEffect DEF Stepped, Moved
<1>4. Sound(done)
  BY <1>1, <1>3, SteppedSound
<1>5. result # None => /\ Moved(Loaded(p), done)
                       /\ result \in Outcome => done.commands[c] = result
  BY <1>1, <1>2, AnswerOnRecord
<1>6. /\ memory' = [memory EXCEPT ![p] = done]
      /\ result = None => UNCHANGED <<holder, pc, answer>>
      /\ result # None => /\ holder' = p
                          /\ pc' = [pc EXCEPT ![p] = "applied"]
                          /\ answer' = [answer EXCEPT ![p] = owed]
      /\ UNCHANGED <<file, acked>>
  BY DEF Apply
<1>7. owed.command = c /\ owed.outcome = result
  OBVIOUS
<1> HIDE DEF done, result, owed
<1> QED BY <1>1, <1>4, <1>5, <1>6, <1>7 DEF Works

LEMMA WorksInv ==
    ASSUME Inv, NEW p \in Processes, NEW done, NEW owed, Works(p, done, owed)
    PROVE  Inv'
<1> USE DEF Inv, Works
<1>1. done \in Processor
  BY DEF Sound
<1>2. /\ memory'[p] = done
      /\ \A r \in Processes : r # p => memory'[r] = memory[r]
      /\ memory' \in [Processes -> Processor]
  BY <1>1 DEF TypeOK
<1>3. Clean'
  BY <1>2 DEF Clean
<1>4. AckedIsDurable'
  BY DEF AckedIsDurable, Snapshot
<1>5. CASE UNCHANGED <<holder, pc, answer>>
  <2>1. TypeOK'
    BY <1>2, <1>5 DEF TypeOK
  <2>2. Ahead' /\ Owed'
    BY <1>2, <1>5 DEF Ahead, Owed
  <2> QED BY <1>3, <1>4, <2>1, <2>2
<1>6. CASE ~ UNCHANGED <<holder, pc, answer>>
  <2>1. /\ holder' = p /\ pc'[p] = "applied" /\ answer'[p] = owed
        /\ \A r \in Processes : r # p => pc'[r] = "idle" /\ answer'[r] = answer[r]
        /\ pc' \in [Processes -> {"idle", "applied", "replaced"}]
        /\ answer' = [r \in Processes |-> answer'[r]]
    BY <1>6 DEF TypeOK, Owed
  <2>2. TypeOK'
    BY <1>2, <2>1, AbsentAssumption DEF TypeOK
  <2>3. Ahead'
    BY <1>2, <1>6, <2>1 DEF Ahead
  <2>4. Owed'
    BY <1>2, <1>6, <2>1 DEF Owed
  <2> QED BY <1>3, <1>4, <2>2, <2>3, <2>4
<1> QED BY <1>5, <1>6

LEMMA ReplaceInv == ASSUME Inv, NEW p \in Processes, Replace(p) PROVE Inv'
<1> USE DEF Inv
<1>1. /\ pc[p] = "applied" /\ file' = memory[p]
      /\ pc'[p] = "replaced"
      /\ \A r \in Processes : r # p => pc'[r] = pc[r]
      /\ pc' \in [Processes -> {"idle", "applied", "replaced"}]
      /\ UNCHANGED <<memory, holder, answer, acked>>
  BY DEF Replace, TypeOK
<1>2. \A r \in Processes : r # p => pc[r] = "idle"
  BY <1>1 DEF TypeOK
<1>3. memory[p] \in Processor /\ memory[p] # None /\ Sound(memory[p])
  BY AbsentAssumption DEF TypeOK, Clean
<1>4. TypeOK'
  BY <1>1, <1>3 DEF TypeOK
<1>5. Clean'
  BY <1>1, <1>3 DEF Clean
<1>6. Ahead'
  BY <1>1, <1>2 DEF Ahead
<1>7. Owed'
  BY <1>1, <1>2, <1>3 DEF Owed
<1>8. AckedIsDurable'
  <2> SUFFICES ASSUME NEW c \in Ids, acked[c] # None PROVE memory[p].commands[c] = acked[c]
    BY <1>1, <1>3 DEF AckedIsDurable, Snapshot
  <2>1. Snapshot.commands[c] = acked[c]
    BY DEF AckedIsDurable
  <2>2. file # None /\ file.commands[c] = acked[c]
    BY <2>1 DEF Snapshot, Empty
  <2>3. Moved(file, memory[p])
    BY <1>1, <2>2 DEF Ahead
  <2> QED BY <2>2, <2>3, MovedKeeps DEF TypeOK
<1> QED BY <1>4, <1>5, <1>6, <1>7, <1>8

\* Giving the lock back, or dying, leaves a process with nothing to write.
LEMMA IdleInv ==
    ASSUME Inv, NEW p \in Processes, NEW held,
           memory' = [memory EXCEPT ![p] = held], Sound(held),
           holder' = IF holder = p THEN None ELSE holder,
           pc' = [pc EXCEPT ![p] = "idle"],
           answer' = [answer EXCEPT ![p] = Nothing],
           UNCHANGED file,
           acked' \in [Ids -> Outcome \cup {None}], AckedIsDurable'
    PROVE  Inv'
<1> USE DEF Inv
<1>1. /\ memory' \in [Processes -> Processor] /\ memory'[p] = held
      /\ \A r \in Processes : r # p => memory'[r] = memory[r]
  BY DEF TypeOK, Sound
<1>2. /\ pc' \in [Processes -> {"idle", "applied", "replaced"}] /\ pc'[p] = "idle"
      /\ \A r \in Processes : r # p => pc'[r] = pc[r]
  BY DEF TypeOK
<1>3. /\ answer' = [r \in Processes |-> answer'[r]] /\ answer'[p] = Nothing
      /\ \A r \in Processes : r # p => answer'[r] = answer[r]
  BY DEF Owed
<1>4. TypeOK'
  BY <1>1, <1>2, AbsentAssumption DEF TypeOK
<1>5. Clean'
  BY <1>1 DEF Clean
<1>6. Ahead'
  BY <1>1, <1>2 DEF Ahead
<1>7. Owed'
  <2>1. Nothing.outcome \notin Outcome
    BY NoneAssumption DEF Nothing
  <2> QED BY <1>1, <1>2, <1>3, <2>1 DEF Owed
<1> QED BY <1>4, <1>5, <1>6, <1>7

LEMMA EndsInv ==
    ASSUME Inv, NEW p \in Processes, PersistFails(p) \/ Return(p) \/ Crash(p)
    PROVE  Inv'
<1> USE DEF Inv
<1>1. /\ memory[p] \in Processor /\ Sound(memory[p])
      /\ memory = [memory EXCEPT ![p] = memory[p]]
      /\ pc[p] # "idle" => holder = p
  BY DEF TypeOK, Clean
<1>2. CASE PersistFails(p)
  <2>1. AckedIsDurable' /\ acked' \in [Ids -> Outcome \cup {None}]
    BY <1>2 DEF PersistFails, AckedIsDurable, Snapshot, TypeOK
  <2> QED BY <1>1, <1>2, <2>1, IdleInv DEF PersistFails
<1>3. CASE Return(p)
  <2>1. pc[p] = "replaced" /\ UNCHANGED file
    BY <1>3 DEF Return
  <2>2. CASE answer[p].outcome \in Outcome
    <3> DEFINE c == answer[p].command
    <3>1. /\ c \in Ids /\ file # None
          /\ file.commands[c] = answer[p].outcome
      BY <2>1, <2>2 DEF Owed
    <3>2. acked' = [acked EXCEPT ![c] = answer[p].outcome]
      BY <1>3, <2>2 DEF Return
    <3>3. acked' \in [Ids -> Outcome \cup {None}]
      BY <2>2, <3>1, <3>2 DEF TypeOK
    <3>4. \A d \in Ids : acked'[d] = IF d = c THEN answer[p].outcome ELSE acked[d]
      BY <3>1, <3>2 DEF TypeOK
    <3>5. AckedIsDurable'
      <4> HIDE DEF c
      <4> QED BY <2>1, <3>1, <3>4 DEF AckedIsDurable, Snapshot
    <3> QED BY <1>1, <1>3, <3>3, <3>5, IdleInv DEF Return
  <2>3. CASE answer[p].outcome \notin Outcome
    <3>1. acked' = acked
      BY <1>3, <2>3 DEF Return
    <3>2. AckedIsDurable' /\ acked' \in [Ids -> Outcome \cup {None}]
      BY <2>1, <3>1 DEF AckedIsDurable, Snapshot, TypeOK
    <3> QED BY <1>1, <1>3, <3>2, IdleInv DEF Return
  <2> QED BY <2>2, <2>3
<1>4. CASE Crash(p)
  <2> DEFINE held == IF file = None THEN Empty ELSE file
  <2>1. Sound(held)
    BY EmptySound DEF Clean
  <2>2. AckedIsDurable' /\ acked' \in [Ids -> Outcome \cup {None}]
    BY <1>4 DEF Crash, AckedIsDurable, Snapshot, TypeOK
  <2>3. memory' = [memory EXCEPT ![p] = held]
    BY <1>4 DEF Crash
  <2> HIDE DEF held
  <2> QED BY <1>4, <2>1, <2>2, <2>3, IdleInv DEF Crash
<1> QED BY <1>2, <1>3, <1>4

LEMMA NextInv == Inv /\ [Next]_vars => Inv'
<1> SUFFICES ASSUME Inv, [Next]_vars PROVE Inv'
  OBVIOUS
<1>1. ASSUME NEW p \in Processes, NEW o \in Orders, NEW status \in {"CREATED", "WORKING"},
             Register(p, o, status)
      PROVE  Inv'
  BY <1>1, RegisterWorks, WorksInv
<1>2. ASSUME NEW p \in Processes, NEW c \in Ids, NEW payload \in Inputs,
             NEW sequence \in 0 .. MaxSequence, Apply(p, c, payload, sequence)
      PROVE  Inv'
  BY <1>2, ApplyWorks, WorksInv
<1>3. CASE UNCHANGED vars
  BY <1>3 DEF vars, Inv, TypeOK, Clean, Ahead, Owed, AckedIsDurable, Snapshot
<1> QED BY <1>1, <1>2, <1>3, ReplaceInv, EndsInv DEF Next

LEMMA SpecInv == Spec => []Inv
BY InitInv, NextInv, PTL DEF Spec

\* At most one process is between its lock and its return, whatever crashes.
THEOREM DurableTypeOK == Spec => []TypeOK
<1>1. Inv => TypeOK
  BY DEF Inv
<1> QED BY SpecInv, <1>1, PTL

\* What a client was told of a command is what the file says of it from then
\* on, for any number of processes and commands and any crashes.
THEOREM DurableAckedIsDurable == Spec => []AckedIsDurable
<1>1. Inv => AckedIsDurable
  BY DEF Inv
<1> QED BY SpecInv, <1>1, PTL

\* The fills on file add up, however often each was applied in memory.
THEOREM DurableFillsAddUp == Spec => []FillsAddUp
<1>1. Inv => FillsAddUp
  <2> SUFFICES ASSUME Inv PROVE FillsAddUp
    OBVIOUS
  <2>1. Sound(Snapshot)
    BY EmptySound DEF Inv, Clean, Snapshot
  <2> QED BY <2>1 DEF Sound, FillsCounted, FillsAddUp
<1> QED BY SpecInv, <1>1, PTL

(***************************************************************************)
(* What a step does to the file that is there.                             *)
(***************************************************************************)
LEMMA FileSteps ==
    ASSUME Inv, [Next]_vars, file # None
    PROVE  /\ Sound(file) /\ file' # None
           /\ Moved(file, file')
<1>1. Sound(file)
  BY DEF Inv, Clean
<1>2. CASE file' = file
  BY <1>1, <1>2 DEF Moved
<1>3. ASSUME NEW p \in Processes, Replace(p)
      PROVE  file' # None /\ Moved(file, file')
  <2>1. pc[p] = "applied" /\ file' = memory[p] /\ memory[p] \in Processor
    BY <1>3 DEF Replace, Inv, TypeOK
  <2> QED BY <2>1, AbsentAssumption DEF Inv, Ahead
<1>4. (\E p \in Processes : Replace(p)) \/ file' = file
  BY DEF Next, vars, Register, Apply, PersistFails, Return, Crash
<1> QED BY <1>1, <1>2, <1>3, <1>4

\* A restorable state file is only ever replaced by a restorable one: nothing
\* half done reaches the disk once there is a file to reload.
THEOREM DurableFileStaysRestorable == Spec => FileStaysRestorable
<1>1. Inv /\ [Next]_vars => [file # None /\ Restorable(file) => Restorable(file')]_vars
  BY FileSteps, MovedRestorable
<1> QED BY SpecInv, <1>1, PTL DEF Spec, FileStaysRestorable

\* From the first state file on, each replacement of the file is one step of
\* the exactly-once inbox, or one that it does not see.
THEOREM DurableReplacesExactlyOnce == Spec => ReplacesExactlyOnce
<1>1. ASSUME Inv, [Next]_vars, file # None
      PROVE  Inbox!Next \/ UNCHANGED Inbox!vars
  <2>1. Sound(file) /\ file' # None /\ Moved(file, file')
    BY <1>1, FileSteps
  <2>2. Snapshot = file /\ Snapshot' = file'
    BY <1>1, <2>1 DEF Snapshot
  <2>3. CASE InboxUnchanged(file, file')
    BY <2>2, <2>3 DEF InboxUnchanged, Inbox!vars, Outcomes
  <2>4. ASSUME NEW o \in Orders, InboxRegisters(file, file', o)
        PROVE  Inbox!Next
    <3>1. Inbox!Register(o)
      BY <2>2, <2>4 DEF InboxRegisters, Inbox!Register, Outcomes
    <3> QED BY <3>1 DEF Inbox!Next
  <2>5. ASSUME NEW c \in Ids, InboxAccepts(file, file', c)
        PROVE  Inbox!Next
    <3>1. Inbox!Accept(c)
      BY <2>2, <2>5
         DEF InboxAccepts, Inbox!Accept, Inbox!Order, Life!Order, Inbox!MayBecome, Life!MayBecome
    <3> QED BY <3>1 DEF Inbox!Next
  <2>6. ASSUME NEW c \in Ids, InboxRefuses(file, file', c)
        PROVE  Inbox!Next
    <3>1. Inbox!Refuse(c)
      BY <2>2, <2>6 DEF InboxRefuses, Inbox!Refuse, Inbox!Refused, Life!Refused
    <3> QED BY <3>1 DEF Inbox!Next
  <2> QED BY <2>1, <2>3, <2>4, <2>5, <2>6, SteppedInbox DEF Stepped
<1>2. Inv /\ [Next]_vars => [file # None => Inbox!Next \/ UNCHANGED Inbox!vars]_vars
  BY <1>1
<1> QED BY SpecInv, <1>2, PTL DEF Spec, ReplacesExactlyOnce
=============================================================================
