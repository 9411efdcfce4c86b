------------------------ MODULE DurableOrderProcessor ------------------------
(***************************************************************************)
(* DurableOrderCommandProcessor: the order commands behind one file shared *)
(* by several processes, any of which may crash or fail to write.          *)
(*                                                                         *)
(* An operation takes the advisory file lock, reloads the file if there is *)
(* one, applies the command in memory, writes a temporary file, replaces   *)
(* the state file by it in one step, gives the lock back and returns.      *)
(* The kernel releases the lock of a process that dies.                    *)
(***************************************************************************)
EXTENDS OrderCommands

CONSTANTS Processes,
          Inputs,       \* bound: the payloads the clients send
          MaxSequence   \* bound: the stream of events ends here

VARIABLES file,         \* the snapshot in the state file, None before the first
          memory,       \* process -> its in-memory processor
          holder,       \* the process holding the file lock, or None
          pc,           \* process -> "idle", "applied" or "replaced"
          answer,       \* process -> what the running operation will return
          acked         \* command -> the outcome last returned to a client

vars == <<file, memory, holder, pc, answer, acked>>

ASSUME InputsAssumption   == Inputs \subseteq Payload
ASSUME SequenceAssumption == MaxSequence \in Nat

\* Nobody, no command and no processor are told apart from those there are.
ASSUME AbsentAssumption   == None \notin Processes /\ None \notin Payload /\ None \notin Processor

\* The answer of an operation that returns no outcome.
Nothing == [command |-> None, outcome |-> None]

Init ==
    /\ file = None
    /\ memory = [p \in Processes |-> Empty]
    /\ holder = None
    /\ pc = [p \in Processes |-> "idle"]
    /\ answer = [p \in Processes |-> Nothing]
    /\ acked = [c \in Ids |-> None]

\* MUTANT of Loaded: the file is read by the constructor only.
LoadedOnce(p) == memory[p]

\* _load() when the state file exists; a process keeps what it has otherwise.
Loaded(p) == IF file = None THEN memory[p] ELSE file

\* MUTANT of Enter: the processes do not exclude each other.
EnterUnlocked(p) == pc[p] = "idle" /\ (file # None => Restorable(file))

Enter(p) == /\ pc[p] = "idle" /\ holder = None
            /\ file # None => Restorable(file)

\* register(): repeated for the order as it is, refused for one that moved on.
Register(p, o, status) ==
    LET current == Loaded(p)
        order   == [status |-> status, filled |-> 0]
    IN  /\ Enter(p)
        /\ IF current.orders[o] \in {None, order}
           THEN /\ memory' = [memory EXCEPT ![p] = Registered(current, o, status)]
                /\ holder' = p
                /\ pc' = [pc EXCEPT ![p] = "applied"]
                /\ answer' = [answer EXCEPT ![p] = Nothing]
           ELSE /\ memory' = [memory EXCEPT ![p] = current]
                /\ UNCHANGED <<holder, pc, answer>>
        /\ UNCHANGED <<file, acked>>

\* transition() and apply_fill() up to _persist(): an exception ends the
\* operation here, with the memory it left behind.
Apply(p, c, payload, sequence) ==
    LET current == Loaded(p)
        result  == Answer(current, c, payload, sequence)
    IN  /\ Enter(p)
        /\ memory' = [memory EXCEPT ![p] = Executed(current, c, payload, sequence)]
        /\ memory'[p].last <= MaxSequence
        /\ IF result = None
           THEN UNCHANGED <<holder, pc, answer>>
           ELSE /\ holder' = p
                /\ pc' = [pc EXCEPT ![p] = "applied"]
                /\ answer' = [answer EXCEPT ![p] = [command |-> c, outcome |-> result]]
        /\ UNCHANGED <<file, acked>>

\* os.replace: the new state file is there at once or not at all.
Replace(p) ==
    /\ pc[p] = "applied"
    /\ file' = memory[p]
    /\ pc' = [pc EXCEPT ![p] = "replaced"]
    /\ UNCHANGED <<memory, holder, answer, acked>>

\* Writing or replacing raises: the caller gets the error, not the answer.
PersistFails(p) ==
    /\ pc[p] = "applied"
    /\ holder' = None
    /\ pc' = [pc EXCEPT ![p] = "idle"]
    /\ answer' = [answer EXCEPT ![p] = Nothing]
    /\ UNCHANGED <<file, memory, acked>>

Return(p) ==
    /\ pc[p] = "replaced"
    /\ acked' = IF answer[p].outcome \in Outcome
                THEN [acked EXCEPT ![answer[p].command] = answer[p].outcome] ELSE acked
    /\ holder' = None
    /\ pc' = [pc EXCEPT ![p] = "idle"]
    /\ answer' = [answer EXCEPT ![p] = Nothing]
    /\ UNCHANGED <<file, memory>>

\* A process dies wherever it is, and a new one takes its place.
Crash(p) ==
    /\ memory' = [memory EXCEPT ![p] = IF file = None THEN Empty ELSE file]
    /\ holder' = IF holder = p THEN None ELSE holder
    /\ pc' = [pc EXCEPT ![p] = "idle"]
    /\ answer' = [answer EXCEPT ![p] = Nothing]
    /\ UNCHANGED <<file, acked>>

Next == \E p \in Processes :
    \/ \E o \in Orders, status \in {"CREATED", "WORKING"} : Register(p, o, status)
    \/ \E c \in Ids, payload \in Inputs, sequence \in 0 .. MaxSequence :
          Apply(p, c, payload, sequence)
    \/ Replace(p) \/ PersistFails(p) \/ Return(p) \/ Crash(p)

Spec == Init /\ [][Next]_vars

-----------------------------------------------------------------------------
(* Properties *)

Snapshot == IF file = None THEN Empty ELSE file

TypeOK ==
    /\ file \in Processor \cup {None}
    /\ memory \in [Processes -> Processor]
    /\ holder \in Processes \cup {None}
    /\ pc \in [Processes -> {"idle", "applied", "replaced"}]
    /\ \A p \in Processes : pc[p] # "idle" <=> holder = p
    /\ acked \in [Ids -> Outcome \cup {None}]

\* "A returned command survives a new process and cannot create a second
\* effect": what a client was told about a command is what the file says of
\* it from then on, through crashes, failed writes and calls of other
\* processes.
AckedIsDurable ==
    \A c \in Ids : acked[c] # None => Snapshot.commands[c] = acked[c]

\* A state file that restore() accepts is only ever replaced by another one:
\* an exception in the middle of a command leaves a memory that no snapshot of
\* could be restored, and the reload keeps that memory off the disk.  (Before
\* there is a file nothing reloads it.)
FileStaysRestorable ==
    [][file # None /\ Restorable(file) => Restorable(file')]_vars

\* The fills on file add up for every order, although each may have been
\* applied in memory several times before a write went through.
FillsAddUp ==
    \A o \in Orders : Snapshot.orders[o] # None =>
        Snapshot.orders[o].filled = Cardinality(FillUnits(Snapshot, o))

\* From the first state file on, the processes and the file are together one
\* exactly-once inbox, whose step is the replacement of the file.
Inbox == INSTANCE OrderInbox WITH orders <- Snapshot.orders, outcomes <- Outcomes(Snapshot)
ReplacesExactlyOnce ==
    [][file # None => Inbox!Next \/ UNCHANGED Inbox!vars]_vars
=============================================================================
