--------------------------- MODULE OrderProcessor ---------------------------
(***************************************************************************)
(* OrderCommandProcessor in memory: a single logical writer under one      *)
(* RLock, called with commands that may be repeated, reordered, or reuse   *)
(* an identity for another payload.                                        *)
(***************************************************************************)
EXTENDS OrderCommands

CONSTANT MaxSequence    \* bound: the stream of events ends here

VARIABLE proc

ASSUME SequenceAssumption == MaxSequence \in Nat

Init == proc = Empty

\* Callers register the orders they create, and working ones they import.
Register(o, status) ==
    /\ proc.orders[o] = None
    /\ proc' = Registered(proc, o, status)

Command(c, payload, sequence) ==
    /\ proc' = Executed(proc, c, payload, sequence)
    /\ proc'.last <= MaxSequence

Next ==
    \/ \E o \in Orders, status \in {"CREATED", "WORKING"} : Register(o, status)
    \/ \E c \in Ids, payload \in Payload, sequence \in 0 .. MaxSequence :
          Command(c, payload, sequence)

Spec == Init /\ [][Next]_proc

-----------------------------------------------------------------------------
(* Properties *)

TypeOK == proc \in Processor

\* No fill is applied twice or lost: the filled quantity of an order is the
\* sum of the fill commands it accepted, whatever was repeated or reordered,
\* and it never exceeds the order (ROADMAP V2-004).
FillsAddUp ==
    \A o \in Orders : proc.orders[o] # None =>
        /\ proc.orders[o].filled = Cardinality(FillUnits(proc, o))
        /\ WellFormed(proc.orders[o])

\* Whichever of a cancel and a fill has the lower sequence wins: after an
\* order reached a terminal status no later command on it is accepted.
TerminalIsLast ==
    \A o \in Orders : \A c1, c2 \in Ids :
        /\ Accepted(proc, c1, o) /\ proc.commands[c1].order.status \in Terminal
        /\ Accepted(proc, c2, o) /\ c1 # c2
        => proc.commands[c2].sequence < proc.commands[c1].sequence

\* A sequence belongs to one command: no two outcomes carry the same one, and
\* none is ahead of the stream.
NoSequenceTwice ==
    \A c1 \in Ids : proc.commands[c1] # None =>
        /\ proc.commands[c1].sequence <= proc.last
        /\ \A c2 \in Ids : proc.commands[c2] # None /\ c1 # c2
              => proc.commands[c1].sequence # proc.commands[c2].sequence

\* Repeats, gaps, reused identities and exceptions included, the processor is
\* an exactly-once inbox.
Inbox == INSTANCE OrderInbox WITH orders <- proc.orders, outcomes <- Outcomes(proc)
ImplementsInbox == Inbox!Spec

\* "Durable-ready state for crash recovery": at every moment restore() accepts
\* the snapshot the processor would give.
SnapshotRestorable == Restorable(proc)
=============================================================================
