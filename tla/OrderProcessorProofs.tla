------------------------ MODULE OrderProcessorProofs ------------------------
(***************************************************************************)
(* Theorems about OrderProcessor, for every set of orders and commands,    *)
(* every quantity and every length of the stream.  The inductive invariant *)
(* is that the processor is a sound one.                                   *)
(***************************************************************************)
EXTENDS OrderProcessor, OrderCommandsProofs

\* Every step is one of the calls.
LEMMA NextSteps == ASSUME Sound(proc), [Next]_proc PROVE Stepped(proc, proc')
<1>0. proc \in Processor
  BY DEF Sound
<1>1. CASE proc' = proc
  BY <1>1 DEF Stepped, Moved
<1>2. ASSUME NEW o \in Orders, NEW status \in {"CREATED", "WORKING"}, Register(o, status)
      PROVE  Stepped(proc, proc')
  <2>1. Opened(proc, proc', o, status)
    BY <1>0, <1>2, RegisterEffect DEF Register
  <2> QED BY <2>1 DEF Stepped, Moved
<1>3. ASSUME NEW c \in Ids, NEW payload \in Payload, NEW sequence \in 0 .. MaxSequence,
             Command(c, payload, sequence)
      PROVE  Stepped(proc, proc')
  <2>1. proc' = proc \/ HalfDone(proc, proc', c, payload) \/ Done(proc, proc', c, payload)
    BY <1>0, <1>3, CommandEffect DEF Command
  <2> QED BY <2>1 DEF Stepped, Moved
<1> QED BY <1>1, <1>2, <1>3 DEF Next

LEMMA SpecSound == Spec => []Sound(proc)
<1>1. Init => Sound(proc)
  BY EmptySound DEF Init
<1>2. Sound(proc) /\ [Next]_proc => Sound(proc)'
  <2> SUFFICES ASSUME Sound(proc), [Next]_proc PROVE Sound(proc')
    OBVIOUS
  <2> QED BY NextSteps, SteppedSound
<1> QED BY <1>1, <1>2, PTL DEF Spec

\* The processor is always a processor.
THEOREM ProcessorTypeOK == Spec => []TypeOK
<1>1. Sound(proc) => TypeOK
  BY DEF Sound, TypeOK
<1> QED BY SpecSound, <1>1, PTL

\* A fill is neither applied twice nor lost, whatever is repeated, reordered
\* or interrupted by an exception, for any quantity and any stream.
THEOREM ProcessorFillsAddUp == Spec => []FillsAddUp
<1>1. Sound(proc) => FillsAddUp
  BY DEF Sound, FillsCounted, FillsAddUp
<1> QED BY SpecSound, <1>1, PTL

\* Of a cancel and a fill that race, the one sequenced first decides.
THEOREM ProcessorTerminalIsLast == Spec => []TerminalIsLast
<1>1. Sound(proc) => TerminalIsLast
  BY DEF Sound, TerminalLast, TerminalIsLast
<1> QED BY SpecSound, <1>1, PTL

\* No two commands are recorded under one sequence.
THEOREM ProcessorNoSequenceTwice == Spec => []NoSequenceTwice
<1>1. Sound(proc) => NoSequenceTwice
  BY DEF Sound, SequencesOnce, NoSequenceTwice
<1> QED BY SpecSound, <1>1, PTL

(***************************************************************************)
(* The refinement: every step of the processor is a step of the inbox.     *)
(***************************************************************************)
LEMMA InboxStep == Sound(proc) /\ [Next]_proc => [Inbox!Next]_(Inbox!vars)
<1> SUFFICES ASSUME Sound(proc), [Next]_proc PROVE [Inbox!Next]_(Inbox!vars)
  OBVIOUS
<1>1. CASE InboxUnchanged(proc, proc')
  BY <1>1 DEF InboxUnchanged, Inbox!vars, Outcomes
<1>2. ASSUME NEW o \in Orders, InboxRegisters(proc, proc', o)
      PROVE  Inbox!Next
  <2>1. Inbox!Register(o)
    BY <1>2 DEF InboxRegisters, Inbox!Register, Outcomes
  <2> QED BY <2>1 DEF Inbox!Next
<1>3. ASSUME NEW c \in Ids, InboxAccepts(proc, proc', c)
      PROVE  Inbox!Next
  <2>1. Inbox!Accept(c)
    BY <1>3 DEF InboxAccepts, Inbox!Accept, Inbox!Order, Life!Order, Inbox!MayBecome, Life!MayBecome
  <2> QED BY <2>1 DEF Inbox!Next
<1>4. ASSUME NEW c \in Ids, InboxRefuses(proc, proc', c)
      PROVE  Inbox!Next
  <2>1. Inbox!Refuse(c)
    BY <1>4 DEF InboxRefuses, Inbox!Refuse, Inbox!Refused, Life!Refused
  <2> QED BY <2>1 DEF Inbox!Next
<1> QED BY <1>1, <1>2, <1>3, <1>4, NextSteps, SteppedInbox

\* The command processor is an exactly-once inbox: repeats, gaps, reused
\* identities and half-done commands do not show in its orders and outcomes.
THEOREM ProcessorImplementsInbox == Spec => ImplementsInbox
<1>1. Init => Inbox!Init
  BY DEF Init, Empty, Inbox!Init, Outcomes
<1> QED BY SpecSound, InboxStep, <1>1, PTL DEF Spec, ImplementsInbox, Inbox!Spec
=============================================================================
