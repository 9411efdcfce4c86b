------------------------- MODULE OrderCommandsProofs -------------------------
(***************************************************************************)
(* Lemmas about the operators of OrderCommands, for every processor value: *)
(* what a call makes of it, that a sound one stays sound, and that the     *)
(* call is one step of an exactly-once inbox.  The theorems about the      *)
(* processor in memory and about the one behind a file both rest on them.  *)
(***************************************************************************)
EXTENDS OrderCommands, FiniteSetTheorems, TLAPS


(***************************************************************************)
(* What the operators of OrderCommands return.                             *)
(***************************************************************************)

\* A command that is not refused finds its order, in a status that has
\* somewhere to go; a fill finds room.
LEMMA NotRefused ==
    ASSUME NEW current \in Order \cup {None}, NEW payload \in Payload,
           Refusal(current, payload) = "NONE"
    PROVE  /\ current \in Order
           /\ Takes(current, payload)
           /\ current.status \notin Terminal
           /\ current.filled \in 0 .. Quantity
           /\ IsFill(payload) => /\ payload.quantity \in 1 .. Quantity
                                 /\ current.filled + payload.quantity \in 0 .. Quantity
<1>1. current # None /\ Takes(current, payload)
  BY DEF Refusal
<1>2. current \in Order
  BY <1>1
<1>3. /\ current.status \in Statuses
      /\ current.filled \in 0 .. Quantity
      /\ payload.quantity \in 0 .. Quantity + 1
  BY <1>2 DEF Order, Payload
<1>4. CASE IsFill(payload)
  <2>1. /\ current.status \in Fillable
        /\ payload.quantity > 0
        /\ current.filled + payload.quantity <= Quantity
    BY <1>1, <1>4 DEF Takes
  <2>2. /\ payload.quantity \in 1 .. Quantity
        /\ current.filled + payload.quantity \in 0 .. Quantity
    BY <1>3, <2>1, QuantityAssumption
  <2>3. current.status \notin Terminal
    BY <2>1 DEF Fillable, Terminal
  <2> QED BY <1>1, <1>2, <1>3, <2>2, <2>3
<1>5. CASE ~ IsFill(payload)
  <2>1. <<current.status, payload.target>> \in Transitions
    BY <1>1, <1>5 DEF Takes
  <2>2. current.status \notin Terminal
    BY <2>1 DEF Transitions, Terminal, Fillable
  <2> QED BY <1>1, <1>2, <1>3, <1>5, <2>2
<1> QED BY <1>4, <1>5

LEMMA OrderType ==
    ASSUME NEW status \in Statuses, NEW filled \in 0 .. Quantity
    PROVE  [status |-> status, filled |-> filled] \in Order
BY DEF Order

\* The order a command constructs is an order.
LEMMA UpdatedType ==
    ASSUME NEW current \in Order \cup {None}, NEW payload \in Payload,
           Refusal(current, payload) = "NONE"
    PROVE  Updated(current, payload) \in Order
<1>1. /\ current.filled \in 0 .. Quantity
      /\ IsFill(payload) => current.filled + payload.quantity \in 0 .. Quantity
  BY NotRefused
<1>2. CASE IsFill(payload)
  <2> DEFINE filled == current.filled + payload.quantity
             status == IF filled = Quantity THEN "FILLED" ELSE "PARTIALLY_FILLED"
  <2>1. filled \in 0 .. Quantity /\ status \in Statuses
    BY <1>1, <1>2 DEF Statuses
  <2>2. Updated(current, payload) = [status |-> status, filled |-> filled]
    BY <1>2 DEF Updated
  <2> HIDE DEF filled, status
  <2> QED BY <2>1, <2>2, OrderType
<1>3. CASE ~ IsFill(payload)
  <2>1. payload.target \in Statuses
    BY <1>3 DEF IsFill, Payload
  <2>2. Updated(current, payload) = [status |-> payload.target, filled |-> current.filled]
    BY <1>3 DEF Updated
  <2> QED BY <1>1, <2>1, <2>2, OrderType
<1> QED BY <1>2, <1>3

(***************************************************************************)
(* What a command does: the processor p before it and q after it.          *)
(***************************************************************************)

\* The order as a command that began and did not raise leaves it.
Reached(p, payload) ==
    LET current == p.orders[payload.order]
    IN  IF Refusal(current, payload) = "NONE" THEN Updated(current, payload) ELSE current

Result(p, payload) ==
    [accepted |-> Refusal(p.orders[payload.order], payload) = "NONE",
     order    |-> Reached(p, payload),
     reason   |-> Refusal(p.orders[payload.order], payload),
     sequence |-> p.last + 1]

Becomes(q, orders, commands, prints, last) ==
    /\ q = [orders |-> orders, commands |-> commands, prints |-> prints, last |-> last]
    /\ q.orders = orders /\ q.commands = commands
    /\ q.prints = prints /\ q.last = last

\* A new command raises: it leaves its fingerprint and its sequence ...
HalfDone(p, q, c, payload) ==
    /\ p.commands[c] = None
    /\ Becomes(q, p.orders, p.commands, [p.prints EXCEPT ![c] = payload], p.last + 1)

\* ... or is executed, and its outcome recorded under the next sequence.
Done(p, q, c, payload) ==
    /\ p.commands[c] = None
    /\ ~ Raises(p, payload)
    /\ Becomes(q, [p.orders EXCEPT ![payload.order] = Reached(p, payload)],
               [p.commands EXCEPT ![c] = Result(p, payload)],
               [p.prints EXCEPT ![c] = payload], p.last + 1)

Opened(p, q, o, status) ==
    /\ p.orders[o] = None
    /\ Becomes(q, [p.orders EXCEPT ![o] = [status |-> status, filled |-> 0]],
               p.commands, p.prints, p.last)

\* A step that leaves nothing half done, ...
Moved(p, q) ==
    \/ q = p
    \/ \E o \in Orders, status \in {"CREATED", "WORKING"} : Opened(p, q, o, status)
    \/ \E c \in Ids, payload \in Payload : Done(p, q, c, payload)

\* ... and any step.
Stepped(p, q) == Moved(p, q) \/ \E c \in Ids, payload \in Payload : HalfDone(p, q, c, payload)

LEMMA CommandEffect ==
    ASSUME NEW p \in Processor, NEW q, NEW c \in Ids, NEW payload \in Payload, NEW sequence,
           q = Executed(p, c, payload, sequence)
    PROVE  /\ q = p \/ HalfDone(p, q, c, payload) \/ Done(p, q, c, payload)
           /\ Begins(p, c, sequence) /\ ~ Raises(p, payload) => Done(p, q, c, payload)
           /\ ~ Begins(p, c, sequence) => q = p
<1>2. CASE ~ Begins(p, c, sequence)
  BY <1>2 DEF Executed
<1>3. CASE Begins(p, c, sequence) /\ Raises(p, payload)
  <2>1. p.commands[c] = None
    BY <1>3 DEF Begins, Recorded
  <2>2. q = Begun(p, c, payload)
    BY <1>3 DEF Executed
  <2>3. q = [orders |-> p.orders, commands |-> p.commands,
                 prints |-> [p.prints EXCEPT ![c] = payload], last |-> p.last + 1]
    BY <2>2 DEF Begun, Processor
  <2> QED BY <1>3, <2>1, <2>3 DEF HalfDone, Becomes
<1>4. CASE Begins(p, c, sequence) /\ ~ Raises(p, payload)
  <2>1. p.commands[c] = None
    BY <1>4 DEF Begins, Recorded
  <2>2. q = Applied(p, c, payload)
    BY <1>4 DEF Executed
  <2>3. q = [orders   |-> [p.orders EXCEPT ![payload.order] = Reached(p, payload)],
                 commands |-> [p.commands EXCEPT ![c] = Result(p, payload)],
                 prints   |-> [p.prints EXCEPT ![c] = payload],
                 last     |-> p.last + 1]
    BY <2>2 DEF Applied, Reached, Result
  <2> QED BY <1>4, <2>1, <2>3 DEF Done, Becomes
<1> QED BY <1>2, <1>3, <1>4

LEMMA RegisterEffect ==
    ASSUME NEW p \in Processor, NEW q, NEW o \in Orders, NEW status,
           p.orders[o] = None, q = Registered(p, o, status)
    PROVE  Opened(p, q, o, status)
<1>1. q = [orders |-> [p.orders EXCEPT ![o] = [status |-> status, filled |-> 0]],
           commands |-> p.commands, prints |-> p.prints, last |-> p.last]
  BY DEF Registered, Processor
<1> QED BY <1>1 DEF Opened, Becomes

LEMMA ResultType ==
    ASSUME NEW p \in Processor, NEW payload \in Payload
    PROVE  /\ p.orders[payload.order] \in Order \cup {None}
           /\ payload.order \in Orders
           /\ Reached(p, payload) \in Order \cup {None}
           /\ Result(p, payload) \in Outcome
           /\ Result(p, payload) # None
<1> DEFINE current == p.orders[payload.order]
<1>1. payload.order \in Orders /\ p.last \in Nat
  BY DEF Payload, Processor
<1>2. current \in Order \cup {None}
  BY <1>1 DEF Processor
<1>3. Reached(p, payload) \in Order \cup {None}
  BY <1>2, UpdatedType DEF Reached
<1>4. /\ Refusal(current, payload)
            \in {"NONE", "UNKNOWN_ORDER", "INVALID_TRANSITION", "INVALID_FILL"}
      /\ p.last + 1 \in Nat \ {0}
  BY <1>1 DEF Refusal
<1>5. Result(p, payload) \in Outcome
  <2> DEFINE refusal == Refusal(current, payload)
             accepted == refusal = "NONE"
             order == Reached(p, payload)
             sequence == p.last + 1
  <2>1. Result(p, payload) = [accepted |-> accepted, order |-> order, reason |-> refusal,
                           sequence |-> sequence]
    BY DEF Result
  <2>2. /\ accepted \in BOOLEAN
        /\ order \in Order \cup {None}
        /\ refusal \in {"NONE", "UNKNOWN_ORDER", "INVALID_TRANSITION", "INVALID_FILL"}
        /\ sequence \in Nat \ {0}
    BY <1>3, <1>4
  <2> HIDE DEF refusal, accepted, order, sequence
  <2> QED BY <2>1, <2>2 DEF Outcome
<1> QED BY <1>1, <1>2, <1>3, <1>5, NoneAssumption

LEMMA Fields ==
    ASSUME NEW p \in Processor
    PROVE  /\ p.orders \in [Orders -> Order \cup {None}]
           /\ p.commands \in [Ids -> Outcome \cup {None}]
           /\ p.prints \in [Ids -> Payload \cup {None}]
           /\ p.last \in Nat
BY DEF Processor

LEMMA BecomesType ==
    ASSUME NEW orders \in [Orders -> Order \cup {None}],
           NEW commands \in [Ids -> Outcome \cup {None}],
           NEW prints \in [Ids -> Payload \cup {None}],
           NEW last \in Nat,
           NEW q, Becomes(q, orders, commands, prints, last)
    PROVE  q \in Processor
BY DEF Becomes, Processor

LEMMA SteppedType == ASSUME NEW p \in Processor, NEW q, Stepped(p, q) PROVE q \in Processor
<1>1. CASE q = p
  BY <1>1
<1>2. ASSUME NEW o \in Orders, NEW status \in {"CREATED", "WORKING"}, Opened(p, q, o, status)
      PROVE  q \in Processor
  <2>1. [status |-> status, filled |-> 0] \in Order
    BY OrderType, QuantityAssumption DEF Statuses
  <2>2. [p.orders EXCEPT ![o] = [status |-> status, filled |-> 0]]
            \in [Orders -> Order \cup {None}]
    BY <2>1, Fields
  <2> QED BY <1>2, <2>2, Fields, BecomesType DEF Opened
<1>3. ASSUME NEW c \in Ids, NEW payload \in Payload
      PROVE  /\ [p.prints EXCEPT ![c] = payload] \in [Ids -> Payload \cup {None}]
             /\ p.last + 1 \in Nat
  BY Fields
<1>4. ASSUME NEW c \in Ids, NEW payload \in Payload, HalfDone(p, q, c, payload)
      PROVE  q \in Processor
  BY <1>3, <1>4, Fields, BecomesType DEF HalfDone
<1>5. ASSUME NEW c \in Ids, NEW payload \in Payload, Done(p, q, c, payload)
      PROVE  q \in Processor
  <2>1. Reached(p, payload) \in Order \cup {None} /\ Result(p, payload) \in Outcome
    BY ResultType
  <2>2. /\ [p.orders EXCEPT ![payload.order] = Reached(p, payload)]
              \in [Orders -> Order \cup {None}]
        /\ [p.commands EXCEPT ![c] = Result(p, payload)] \in [Ids -> Outcome \cup {None}]
    BY <2>1, Fields
  <2> QED BY <1>3, <1>5, <2>2, Fields, BecomesType DEF Done
<1> QED BY <1>1, <1>2, <1>4, <1>5 DEF Stepped, Moved


(***************************************************************************)
(* What makes a processor sound.  The properties are not inductive: that   *)
(* no command follows a terminal one needs that the order still stands     *)
(* where that command left it, and the sum of the fills needs that there   *)
(* are finitely many and none before the order is known.                   *)
(***************************************************************************)
SequencesOnce(p) ==
    \A c1 \in Ids : p.commands[c1] # None =>
        /\ p.commands[c1].sequence <= p.last
        /\ \A c2 \in Ids : p.commands[c2] # None /\ c1 # c2
              => p.commands[c1].sequence # p.commands[c2].sequence

TerminalLast(p) ==
    \A o \in Orders : \A c1, c2 \in Ids :
        /\ Accepted(p, c1, o) /\ p.commands[c1].order.status \in Terminal
        /\ Accepted(p, c2, o) /\ c1 # c2
        => p.commands[c2].sequence < p.commands[c1].sequence

AcceptedStands(p) ==
    \A o \in Orders, c \in Ids : Accepted(p, c, o) =>
        /\ p.orders[o] # None
        /\ p.commands[c].order.status \in Terminal => p.orders[o] = p.commands[c].order

FillsCounted(p) ==
    \A o \in Orders : p.orders[o] # None =>
        /\ IsFiniteSet(FillUnits(p, o))
        /\ p.orders[o].filled = Cardinality(FillUnits(p, o))
        /\ WellFormed(p.orders[o])

Sound(p) == /\ p \in Processor
            /\ SequencesOnce(p) /\ TerminalLast(p) /\ AcceptedStands(p) /\ FillsCounted(p)

LEMMA EmptySound == Sound(Empty)
<1>1. /\ \A o \in Orders : Empty.orders[o] = None
      /\ \A c \in Ids : Empty.commands[c] = None
      /\ Empty \in Processor
  BY DEF Empty, Processor
<1> QED BY <1>1
        DEF Sound, SequencesOnce, TerminalLast, AcceptedStands, FillsCounted, Accepted

\* Who has accepted what after a step that records nothing ...
LEMMA AcceptedSame ==
    ASSUME NEW p \in Processor, NEW q, q.commands = p.commands,
           \A d \in Ids : p.commands[d] # None => q.prints[d] = p.prints[d],
           NEW o \in Orders
    PROVE  /\ \A d \in Ids : Accepted(q, d, o) <=> Accepted(p, d, o)
           /\ FillUnits(q, o) = FillUnits(p, o)
BY DEF Accepted, FillUnits

\* ... and after one that records the outcome of a command.
LEMMA AcceptedDone ==
    ASSUME NEW p \in Processor, NEW q, NEW c \in Ids, NEW payload \in Payload, Done(p, q, c, payload),
           NEW d \in Ids, NEW o \in Orders
    PROVE  /\ ~ Accepted(p, c, o)
           /\ d # c => /\ Accepted(q, d, o) <=> Accepted(p, d, o)
                       /\ q.commands[d] = p.commands[d]
                       /\ q.prints[d] = p.prints[d]
           /\ Accepted(q, c, o)
                 <=> /\ Refusal(p.orders[payload.order], payload) = "NONE"
                     /\ payload.order = o
           /\ q.commands[c] = Result(p, payload)
           /\ q.prints[c] = payload
<1>1. /\ p.commands[c] = None
      /\ q.commands = [p.commands EXCEPT ![c] = Result(p, payload)]
      /\ q.prints = [p.prints EXCEPT ![c] = payload]
  BY DEF Done, Becomes
<1>2. Result(p, payload) # None
  BY ResultType
<1>3. /\ q.commands[c] = Result(p, payload)
      /\ q.prints[c] = payload
      /\ d # c => q.commands[d] = p.commands[d] /\ q.prints[d] = p.prints[d]
  BY <1>1, Fields
<1>4. Result(p, payload).accepted <=> Refusal(p.orders[payload.order], payload) = "NONE"
  BY DEF Result
<1> QED BY <1>1, <1>2, <1>3, <1>4 DEF Accepted

\* A step that records nothing and leaves the known orders alone.
LEMMA SoundQuiet ==
    ASSUME NEW p, Sound(p), NEW q \in Processor, q.commands = p.commands,
           \A d \in Ids : p.commands[d] # None => q.prints[d] = p.prints[d],
           q.last >= p.last,
           \A o \in Orders : \/ q.orders[o] = p.orders[o]
                             \/ /\ p.orders[o] = None
                                /\ q.orders[o].filled = 0
                                /\ q.orders[o].status \in {"CREATED", "WORKING"}
                                /\ q.orders[o] # None
    PROVE  Sound(q)
<1>0. p \in Processor
  BY DEF Sound
<1>1. \A o \in Orders :
         /\ \A d \in Ids : Accepted(q, d, o) <=> Accepted(p, d, o)
         /\ FillUnits(q, o) = FillUnits(p, o)
  BY <1>0, AcceptedSame
<1>2. SequencesOnce(q)
  <2>1. /\ p.last \in Nat /\ q.last \in Nat
        /\ \A d \in Ids : p.commands[d] # None => p.commands[d].sequence \in Nat
    BY <1>0, Fields DEF Processor, Outcome
  <2> QED BY <2>1 DEF Sound, SequencesOnce
<1>3. TerminalLast(q)
  BY <1>1 DEF Sound, TerminalLast
<1>4. AcceptedStands(q)
  BY <1>1 DEF Sound, AcceptedStands
<1>5. ASSUME NEW o \in Orders, q.orders[o] # None
      PROVE  /\ IsFiniteSet(FillUnits(q, o))
             /\ q.orders[o].filled = Cardinality(FillUnits(q, o))
             /\ WellFormed(q.orders[o])
  <2>1. CASE q.orders[o] = p.orders[o]
    BY <1>1, <1>5, <2>1 DEF Sound, FillsCounted
  <2>2. CASE /\ p.orders[o] = None
             /\ q.orders[o].filled = 0
             /\ q.orders[o].status \in {"CREATED", "WORKING"}
    <3>1. FillUnits(p, o) = {}
      BY <2>2 DEF Sound, AcceptedStands, FillUnits
    <3> QED BY <1>1, <2>2, <3>1, FS_EmptySet DEF WellFormed
  <2> QED BY <2>1, <2>2
<1>6. FillsCounted(q)
  BY <1>5 DEF FillsCounted
<1> QED BY <1>2, <1>3, <1>4, <1>6 DEF Sound

\* What an accepted command finds and makes of its order.
LEMMA DoneOrder ==
    ASSUME NEW p, Sound(p), NEW q, NEW c \in Ids, NEW payload \in Payload, Done(p, q, c, payload)
    PROVE  LET o == payload.order
           IN  /\ o \in Orders
               /\ \A x \in Orders : x # o => q.orders[x] = p.orders[x]
               /\ q.orders[o] = Reached(p, payload)
               /\ Refusal(p.orders[o], payload) # "NONE" => Reached(p, payload) = p.orders[o]
               /\ Refusal(p.orders[o], payload) = "NONE" =>
                     /\ p.orders[o] \in Order /\ p.orders[o] # None
                     /\ p.orders[o].status \notin Terminal
                     /\ Reached(p, payload) = Updated(p.orders[o], payload)
                     /\ Reached(p, payload) \in Order /\ Reached(p, payload) # None
                     /\ WellFormed(Reached(p, payload))
<1> DEFINE o == payload.order
<1>1. p \in Processor
  BY DEF Sound
<1>2. o \in Orders /\ p.orders[o] \in Order \cup {None}
  BY <1>1, ResultType
<1>3. q.orders = [p.orders EXCEPT ![o] = Reached(p, payload)]
  BY DEF Done, Becomes
<1>4. /\ q.orders[o] = Reached(p, payload)
      /\ \A x \in Orders : x # o => q.orders[x] = p.orders[x]
  BY <1>1, <1>2, <1>3, Fields
<1>5. ASSUME Refusal(p.orders[o], payload) = "NONE"
      PROVE  /\ p.orders[o] \in Order /\ p.orders[o] # None
             /\ p.orders[o].status \notin Terminal
             /\ Reached(p, payload) = Updated(p.orders[o], payload)
             /\ Reached(p, payload) \in Order /\ Reached(p, payload) # None
             /\ WellFormed(Reached(p, payload))
  <2>1. p.orders[o] \in Order /\ p.orders[o].status \notin Terminal
    BY <1>2, <1>5, NotRefused
  <2>2. Updated(p.orders[o], payload) \in Order
    BY <1>2, <1>5, UpdatedType
  <2>3. Reached(p, payload) = Updated(p.orders[o], payload)
    BY <1>5 DEF Reached
  <2>4. WellFormed(Updated(p.orders[o], payload))
    BY <1>5 DEF Done, Raises
  <2> QED BY <2>1, <2>2, <2>3, <2>4, NoneAssumption
<1>6. Refusal(p.orders[o], payload) # "NONE" => Reached(p, payload) = p.orders[o]
  BY DEF Reached
<1> QED BY <1>2, <1>4, <1>5, <1>6

\* An executed command takes the next sequence, and no command of its order
\* was the last one.
LEMMA OrderDone ==
    ASSUME NEW p, Sound(p), NEW q, NEW c \in Ids, NEW payload \in Payload, Done(p, q, c, payload)
    PROVE  SequencesOnce(q) /\ TerminalLast(q) /\ AcceptedStands(q)
<1>0. p \in Processor
  BY DEF Sound
<1>1. /\ p.last \in Nat
      /\ q.last = p.last + 1
      /\ Result(p, payload).sequence = p.last + 1
      /\ Result(p, payload).order = Reached(p, payload)
      /\ \A d \in Ids : p.commands[d] # None =>
            p.commands[d].sequence \in Nat /\ p.commands[d].sequence <= p.last
  BY <1>0, Fields DEF Done, Becomes, Result, Sound, SequencesOnce, Outcome
<1>2. /\ q.commands[c] = Result(p, payload)
      /\ q.orders[payload.order] = Reached(p, payload)
  BY <1>0, Fields, ResultType DEF Done, Becomes
<1>3. \A d \in Ids : d # c => q.commands[d] = p.commands[d]
  BY <1>0, Fields DEF Done, Becomes
<1>8. ASSUME NEW o \in Orders
      PROVE  /\ ~ Accepted(p, c, o)
             /\ Accepted(q, c, o) <=> /\ Refusal(p.orders[payload.order], payload) = "NONE"
                                      /\ payload.order = o
             /\ q.prints[c] = payload
             /\ \A d \in Ids : d # c =>
                   /\ Accepted(q, d, o) <=> Accepted(p, d, o)
                   /\ q.prints[d] = p.prints[d]
  BY <1>0, AcceptedDone
<1>9. /\ \A o \in Orders : o # payload.order => q.orders[o] = p.orders[o]
      /\ Refusal(p.orders[payload.order], payload) # "NONE"
            => Reached(p, payload) = p.orders[payload.order]
      /\ Refusal(p.orders[payload.order], payload) = "NONE"
            => p.orders[payload.order].status \notin Terminal /\ Reached(p, payload) # None
  BY DoneOrder
<1>4. SequencesOnce(q)
  BY <1>1, <1>2, <1>3 DEF Sound, SequencesOnce
<1>5. ASSUME NEW o \in Orders, NEW d \in Ids, Accepted(p, d, o), d # c,
             p.commands[d].order.status \in Terminal
      PROVE  ~ Accepted(q, c, o)
  <2>1. p.orders[o].status \in Terminal
    BY <1>5 DEF Sound, AcceptedStands
  <2> QED BY <1>5, <1>8, <1>9, <2>1
<1>6. TerminalLast(q)
  <2> SUFFICES ASSUME NEW o \in Orders, NEW c1 \in Ids, NEW c2 \in Ids, c1 # c2,
                      Accepted(q, c1, o), Accepted(q, c2, o),
                      q.commands[c1].order.status \in Terminal
               PROVE  q.commands[c2].sequence < q.commands[c1].sequence
    BY DEF TerminalLast
  <2>1. CASE c1 # c /\ c2 # c
    BY <1>3, <1>8, <2>1 DEF Sound, TerminalLast
  <2>2. CASE c1 = c
    <3>1. Accepted(p, c2, o) /\ q.commands[c2] = p.commands[c2]
      BY <1>3, <1>8, <2>2
    <3>2. p.commands[c2] # None
      BY <3>1 DEF Accepted
    <3> QED BY <1>1, <1>2, <2>2, <3>1, <3>2
  <2>3. CASE c2 = c
    <3>1. Accepted(p, c1, o) /\ q.commands[c1] = p.commands[c1]
      BY <1>3, <1>8, <2>3
    <3> QED BY <1>5, <2>3, <3>1
  <2> QED BY <2>1, <2>2, <2>3
<1>7. AcceptedStands(q)
  <2> SUFFICES ASSUME NEW o \in Orders, NEW d \in Ids, Accepted(q, d, o)
               PROVE  /\ q.orders[o] # None
                      /\ q.commands[d].order.status \in Terminal
                            => q.orders[o] = q.commands[d].order
    BY DEF AcceptedStands
  <2>1. CASE d = c
    <3>1. Refusal(p.orders[o], payload) = "NONE" /\ payload.order = o
      BY <1>8, <2>1
    <3>2. q.orders[o] = Reached(p, payload) /\ Reached(p, payload) # None
      BY <1>2, <1>9, <3>1
    <3> QED BY <1>1, <1>2, <2>1, <3>2
  <2>2. CASE d # c
    <3>1. Accepted(p, d, o) /\ q.commands[d] = p.commands[d]
      BY <1>3, <1>8, <2>2
    <3>2. /\ p.orders[o] # None
          /\ p.commands[d].order.status \in Terminal => p.orders[o] = p.commands[d].order
      BY <3>1 DEF Sound, AcceptedStands
    <3>3. CASE q.orders[o] = p.orders[o]
      BY <3>1, <3>2, <3>3
    <3>4. CASE o = payload.order /\ Refusal(p.orders[o], payload) = "NONE"
      <4>1. Accepted(q, c, o)
        BY <1>8, <3>4
      <4>2. p.commands[d].order.status \notin Terminal
        BY <1>5, <2>2, <3>1, <4>1
      <4>3. q.orders[o] # None
        BY <1>2, <1>9, <3>4
      <4> QED BY <3>1, <4>2, <4>3
    <3> QED BY <1>2, <1>9, <3>3, <3>4
  <2> QED BY <2>1, <2>2
<1> QED BY <1>4, <1>6, <1>7

\* An accepted fill adds its units, and no other command adds any.
LEMMA UnitsDone ==
    ASSUME NEW p, Sound(p), NEW q, NEW c \in Ids, NEW payload \in Payload, Done(p, q, c, payload), NEW o \in Orders
    PROVE  /\ ~ (/\ o = payload.order /\ IsFill(payload)
                 /\ Refusal(p.orders[o], payload) = "NONE")
              => FillUnits(q, o) = FillUnits(p, o)
           /\ (/\ o = payload.order /\ IsFill(payload)
               /\ Refusal(p.orders[o], payload) = "NONE")
              => /\ FillUnits(q, o) = FillUnits(p, o) \cup ({c} \X (1 .. payload.quantity))
                 /\ FillUnits(p, o) \cap ({c} \X (1 .. payload.quantity)) = {}
<1>0. p \in Processor
  BY DEF Sound
<1>1. /\ ~ Accepted(p, c, o)
      /\ Accepted(q, c, o) <=> /\ Refusal(p.orders[payload.order], payload) = "NONE"
                                  /\ payload.order = o
      /\ q.prints[c] = payload
      /\ \A d \in Ids : d # c =>
            /\ Accepted(q, d, o) <=> Accepted(p, d, o)
            /\ q.prints[d] = p.prints[d]
  BY <1>0, AcceptedDone
<1>2. CASE ~ (o = payload.order /\ IsFill(payload) /\ Refusal(p.orders[o], payload) = "NONE")
  BY <1>1, <1>2 DEF FillUnits
<1>3. CASE o = payload.order /\ IsFill(payload) /\ Refusal(p.orders[o], payload) = "NONE"
  <2>1. payload.quantity \in 1 .. Quantity
    BY <1>0, <1>3, ResultType, NotRefused
  <2>2. 1 .. payload.quantity \subseteq 1 .. Quantity + 1
    BY <2>1, QuantityAssumption
  <2>3. \A i \in 1 .. Quantity + 1 : i <= payload.quantity <=> i \in 1 .. payload.quantity
    BY <2>1, QuantityAssumption
  <2>4. Accepted(q, c, o)
    BY <1>1, <1>3
  <2>5. ASSUME NEW d \in Ids, NEW i \in 1 .. Quantity + 1
        PROVE  <<d, i>> \in FillUnits(q, o)
                  <=> <<d, i>> \in FillUnits(p, o) \/ (d = c /\ i \in 1 .. payload.quantity)
    <3>1. CASE d = c
      BY <1>1, <1>3, <2>3, <2>4, <3>1 DEF FillUnits
    <3>2. CASE d # c
      BY <1>1, <3>2 DEF FillUnits
    <3> QED BY <3>1, <3>2
  <2>6. /\ FillUnits(p, o) \subseteq Ids \X (1 .. Quantity + 1)
        /\ FillUnits(q, o) \subseteq Ids \X (1 .. Quantity + 1)
    BY DEF FillUnits
  <2>7. {c} \X (1 .. payload.quantity) \subseteq Ids \X (1 .. Quantity + 1)
    BY <2>2
  <2>8. FillUnits(q, o) = FillUnits(p, o) \cup ({c} \X (1 .. payload.quantity))
    <3> HIDE DEF FillUnits
    <3> QED BY <2>5, <2>6, <2>7
  <2>9. FillUnits(p, o) \cap ({c} \X (1 .. payload.quantity)) = {}
    BY <1>1 DEF FillUnits
  <2> QED BY <1>3, <2>8, <2>9
<1> QED BY <1>2, <1>3

\* A fill of n has n units.
LEMMA UnitsOfOne ==
    ASSUME NEW c, NEW n \in Nat
    PROVE  IsFiniteSet({c} \X (1 .. n)) /\ Cardinality({c} \X (1 .. n)) = n
<1>1. IsFiniteSet(1 .. n) /\ Cardinality(1 .. n) = n
  <2>1. 1 \in Int /\ n \in Int
    OBVIOUS
  <2>2. IsFiniteSet(1 .. n) /\ Cardinality(1 .. n) = IF 1 > n THEN 0 ELSE n - 1 + 1
    BY <2>1, FS_Interval
  <2>3. (IF 1 > n THEN 0 ELSE n - 1 + 1) = n
    OBVIOUS
  <2> QED BY <2>2, <2>3
<1>2. IsFiniteSet({c}) /\ Cardinality({c}) = 1
  BY FS_Singleton
<1>3. IsFiniteSet({c} \X (1 .. n)) /\ Cardinality({c} \X (1 .. n)) = 1 * n
  BY <1>1, <1>2, FS_Product
<1> QED BY <1>3

LEMMA FillsDone ==
    ASSUME NEW p, Sound(p), NEW q, NEW c \in Ids, NEW payload \in Payload, Done(p, q, c, payload)
    PROVE  FillsCounted(q)
<1>0. p \in Processor
  BY DEF Sound
<1> SUFFICES ASSUME NEW o \in Orders, q.orders[o] # None
             PROVE  /\ IsFiniteSet(FillUnits(q, o))
                    /\ q.orders[o].filled = Cardinality(FillUnits(q, o))
                    /\ WellFormed(q.orders[o])
  BY DEF FillsCounted
<1>1. ASSUME p.orders[o] # None
      PROVE  /\ IsFiniteSet(FillUnits(p, o))
             /\ p.orders[o].filled = Cardinality(FillUnits(p, o))
             /\ WellFormed(p.orders[o])
  BY <1>1 DEF Sound, FillsCounted
<1>2. CASE ~ (o = payload.order /\ Refusal(p.orders[o], payload) = "NONE")
  <2>1. q.orders[o] = p.orders[o]
    BY <1>2, DoneOrder
  <2>2. FillUnits(q, o) = FillUnits(p, o)
    BY <1>2, UnitsDone
  <2> QED BY <1>1, <2>1, <2>2
<1>3. CASE o = payload.order /\ Refusal(p.orders[o], payload) = "NONE"
  <2>0. /\ q.orders[payload.order] = Reached(p, payload)
        /\ Refusal(p.orders[payload.order], payload) = "NONE" =>
              /\ p.orders[payload.order] \in Order /\ p.orders[payload.order] # None
              /\ Reached(p, payload) = Updated(p.orders[payload.order], payload)
              /\ WellFormed(Reached(p, payload))
    BY DoneOrder
  <2>1. /\ p.orders[o] \in Order /\ p.orders[o] # None
        /\ q.orders[o] = Updated(p.orders[o], payload)
        /\ WellFormed(q.orders[o])
    BY <1>3, <2>0
  <2>2. CASE ~ IsFill(payload)
    <3>1. q.orders[o].filled = p.orders[o].filled
      BY <2>1, <2>2 DEF Updated
    <3>2. FillUnits(q, o) = FillUnits(p, o)
      BY <2>2, UnitsDone
    <3> QED BY <1>1, <2>1, <3>1, <3>2
  <2>3. CASE IsFill(payload)
    <3> DEFINE own == {c} \X (1 .. payload.quantity)
               old == FillUnits(p, o)
    <3>1. q.orders[o].filled = p.orders[o].filled + payload.quantity
      BY <2>1, <2>3 DEF Updated
    <3>2. payload.quantity \in 1 .. Quantity /\ p.orders[o].filled \in 0 .. Quantity
      BY <1>3, <2>1, <2>3, NotRefused
    <3>3. IsFiniteSet(own) /\ Cardinality(own) = payload.quantity
      <4>1. payload.quantity \in Nat
        BY <3>2, QuantityAssumption
      <4> QED BY <4>1, UnitsOfOne
    <3>4. IsFiniteSet(old) /\ p.orders[o].filled = Cardinality(old)
      BY <1>1, <2>1
    <3>5. FillUnits(q, o) = old \cup own /\ old \cap own = {}
      BY <1>3, <2>3, UnitsDone
    <3>6. Cardinality(old \cap own) = 0
      BY <3>5, FS_EmptySet
    <3>7. /\ IsFiniteSet(old \cup own)
          /\ Cardinality(old \cup own) = Cardinality(old) + Cardinality(own) - Cardinality(old \cap own)
      BY <3>3, <3>4, FS_Union
    <3> HIDE DEF own, old
    <3>8. /\ p.orders[o].filled \in Int /\ payload.quantity \in Int
      BY <3>2
    <3> QED BY <2>1, <3>1, <3>3, <3>4, <3>5, <3>6, <3>7, <3>8
  <2> QED BY <2>2, <2>3
<1> QED BY <1>2, <1>3

LEMMA SteppedSound == ASSUME NEW p, Sound(p), NEW q, Stepped(p, q) PROVE Sound(q)
<1>0. p \in Processor /\ q \in Processor
  BY SteppedType DEF Sound
<1>1. p.last \in Nat /\ q.last \in Nat
  BY <1>0 DEF Processor
<1>2. CASE q = p
  BY <1>0, <1>1, <1>2, SoundQuiet
<1>3. ASSUME NEW o \in Orders, NEW status \in {"CREATED", "WORKING"}, Opened(p, q, o, status)
      PROVE  Sound(q)
  <2> DEFINE order == [status |-> status, filled |-> 0]
  <2>1. order \in Order /\ order # None /\ order.status = status /\ order.filled = 0
    BY OrderType, QuantityAssumption, NoneAssumption DEF Statuses
  <2>2. /\ p.orders[o] = None
        /\ q.orders = [p.orders EXCEPT ![o] = order]
        /\ q.commands = p.commands
        /\ q.prints = p.prints
        /\ q.last = p.last
    BY <1>3 DEF Opened, Becomes
  <2> HIDE DEF order
  <2>3. ASSUME NEW x \in Orders
        PROVE  \/ q.orders[x] = p.orders[x]
               \/ /\ p.orders[x] = None
                  /\ q.orders[x].filled = 0
                  /\ q.orders[x].status \in {"CREATED", "WORKING"}
                  /\ q.orders[x] # None
    BY <1>0, <2>1, <2>2, Fields
  <2>4. /\ \A d \in Ids : p.commands[d] # None => q.prints[d] = p.prints[d]
        /\ q.last >= p.last
    BY <1>1, <2>2
  <2> QED BY <1>0, <2>2, <2>3, <2>4, SoundQuiet
<1>4. ASSUME NEW c \in Ids, NEW payload \in Payload, HalfDone(p, q, c, payload)
      PROVE  Sound(q)
  <2>1. /\ p.commands[c] = None
        /\ q.orders = p.orders
        /\ q.commands = p.commands
        /\ q.prints = [p.prints EXCEPT ![c] = payload]
        /\ q.last = p.last + 1
    BY <1>4 DEF HalfDone, Becomes
  <2>2. \A d \in Ids : p.commands[d] # None => q.prints[d] = p.prints[d]
    BY <1>0, <2>1, Fields
  <2>3. q.last >= p.last
    BY <1>1, <2>1
  <2>4. \A o \in Orders : q.orders[o] = p.orders[o]
    BY <2>1
  <2> QED BY <1>0, <2>1, <2>2, <2>3, <2>4, SoundQuiet
<1>5. ASSUME NEW c \in Ids, NEW payload \in Payload, Done(p, q, c, payload)
      PROVE  Sound(q)
  BY <1>0, <1>5, OrderDone, FillsDone DEF Sound
<1> QED BY <1>0, <1>2, <1>3, <1>4, <1>5 DEF Stepped, Moved

(***************************************************************************)
(* A step as the exactly-once inbox sees it.  The life cycle of an order   *)
(* does not depend on the inbox's variables.                               *)
(***************************************************************************)
Life == INSTANCE OrderInbox WITH orders <- None, outcomes <- None

InboxRegisters(p, q, o) ==
    /\ p.orders[o] = None
    /\ \E status \in {"CREATED", "WORKING"} :
          q.orders = [p.orders EXCEPT ![o] = [status |-> status, filled |-> 0]]
    /\ Outcomes(q) = Outcomes(p)

InboxAccepts(p, q, c) ==
    /\ Outcomes(p)[c] = None
    /\ \E o \in Orders, next \in Life!Order :
        /\ p.orders[o] # None
        /\ Life!MayBecome(p.orders[o], next)
        /\ q.orders = [p.orders EXCEPT ![o] = next]
        /\ Outcomes(q) = [Outcomes(p) EXCEPT ![c] = next]

InboxRefuses(p, q, c) ==
    /\ Outcomes(p)[c] = None
    /\ Outcomes(q) = [Outcomes(p) EXCEPT ![c] = Life!Refused]
    /\ q.orders = p.orders

InboxUnchanged(p, q) == q.orders = p.orders /\ Outcomes(q) = Outcomes(p)

\* An accepted command moves a well-formed order along the life cycle.
LEMMA MovesOn ==
    ASSUME NEW current \in Order, NEW payload \in Payload,
           Refusal(current, payload) = "NONE", WellFormed(current),
           WellFormed(Updated(current, payload)), Updated(current, payload) \in Order
    PROVE  Life!MayBecome(current, Updated(current, payload))
<1>1. /\ Takes(current, payload)
      /\ current.filled \in 0 .. Quantity
      /\ IsFill(payload) => payload.quantity \in 1 .. Quantity
  BY NotRefused
<1>2. CASE IsFill(payload)
  <2> DEFINE filled == current.filled + payload.quantity
  <2>1. /\ current.status \in Fillable
        /\ filled <= Quantity
    BY <1>1, <1>2 DEF Takes
  <2>2. /\ Updated(current, payload).filled = filled
        /\ Updated(current, payload).status
              = IF filled = Quantity THEN "FILLED" ELSE "PARTIALLY_FILLED"
    BY <1>2 DEF Updated
  <2>3. filled # Quantity => filled \in current.filled + 1 .. Quantity - 1
    BY <1>1, <1>2, <2>1, QuantityAssumption
  <2> HIDE DEF filled
  <2> QED BY <2>1, <2>2, <2>3 DEF Life!MayBecome, Fillable
<1>3. CASE ~ IsFill(payload)
  <2> DEFINE next == Updated(current, payload)
  <2>1. <<current.status, payload.target>> \in Transitions
    BY <1>1, <1>3 DEF Takes
  <2>2. next = [status |-> payload.target, filled |-> current.filled]
    BY <1>3 DEF Updated
  <2>3. next.status = payload.target /\ next.filled = current.filled
    BY <2>2
  <2>4. CASE current.status \in {"CREATED", "ACCEPTED"}
    BY <2>1, <2>3, <2>4 DEF Life!MayBecome, Transitions, Fillable, WellFormed
  <2>5. CASE /\ current.status \in Fillable
             /\ payload.target \in {"CANCELLED", "EXPIRED"}
    BY <2>3, <2>5 DEF Life!MayBecome, Fillable
  <2>6. CASE current.status \in Fillable /\ payload.target = "FILLED"
    BY <2>3, <2>6 DEF Life!MayBecome, Fillable, WellFormed
  <2>7. CASE current.status \in Fillable /\ payload.target = "PARTIALLY_FILLED"
    <3>1. current.status # "WORKING"
      BY <1>1, <2>3, <2>7, QuantityAssumption DEF WellFormed
    <3>2. current.status = "PARTIALLY_FILLED"
      BY <2>7, <3>1 DEF Fillable
    <3>3. current = [status |-> current.status, filled |-> current.filled]
      BY DEF Order
    <3>4. next = current
      BY <2>2, <2>7, <3>2, <3>3
    <3> QED BY <3>2, <3>4 DEF Life!MayBecome
  <2> QED BY <2>1, <2>4, <2>5, <2>6, <2>7 DEF Transitions
<1> QED BY <1>2, <1>3

LEMMA InboxOfDone ==
    ASSUME NEW p, Sound(p), NEW q, NEW c \in Ids, NEW payload \in Payload, Done(p, q, c, payload)
    PROVE  InboxAccepts(p, q, c) \/ InboxRefuses(p, q, c)
<1> DEFINE o == payload.order
           refusal == Refusal(p.orders[o], payload)
           outcome == IF refusal = "NONE" THEN Reached(p, payload) ELSE Life!Refused
<1>0. p \in Processor
  BY DEF Sound
<1>1. /\ p.commands[c] = None
      /\ q.commands = [p.commands EXCEPT ![c] = Result(p, payload)]
      /\ q.orders = [p.orders EXCEPT ![o] = Reached(p, payload)]
  BY DEF Done, Becomes
<1>2. /\ Result(p, payload) # None
      /\ Result(p, payload).accepted <=> refusal = "NONE"
      /\ Result(p, payload).order = Reached(p, payload)
  BY <1>0, ResultType DEF Result
<1>3. Outcomes(p)[c] = None
  BY <1>1 DEF Outcomes
<1>4. Outcomes(q) = [Outcomes(p) EXCEPT ![c] = outcome]
  <2>1. /\ q.commands[c] = Result(p, payload)
        /\ \A d \in Ids : d # c => q.commands[d] = p.commands[d]
    BY <1>0, <1>1, Fields
  <2>2. Life!Refused = [status |-> "REFUSED", filled |-> 0]
    BY DEF Life!Refused
  <2>3. /\ Outcomes(q)[c] = outcome
        /\ \A d \in Ids : d # c => Outcomes(q)[d] = Outcomes(p)[d]
    BY <1>2, <2>1, <2>2 DEF Outcomes
  <2> HIDE DEF outcome
  <2> QED BY <2>3 DEF Outcomes
<1>5. CASE refusal = "NONE"
  <2>1. /\ o \in Orders /\ p.orders[o] \in Order /\ p.orders[o] # None
        /\ Reached(p, payload) = Updated(p.orders[o], payload)
        /\ Reached(p, payload) \in Order
        /\ WellFormed(Reached(p, payload))
    BY <1>5, DoneOrder
  <2>2. WellFormed(p.orders[o])
    BY <2>1 DEF Sound, FillsCounted
  <2>3. Life!MayBecome(p.orders[o], Reached(p, payload))
    BY <1>5, <2>1, <2>2, MovesOn
  <2>4. Reached(p, payload) \in Life!Order
    BY <2>1 DEF Order, Statuses, Life!Order
  <2>5. Outcomes(q) = [Outcomes(p) EXCEPT ![c] = Reached(p, payload)]
    BY <1>4, <1>5
  <2> HIDE DEF o
  <2> QED BY <1>1, <1>3, <2>1, <2>3, <2>4, <2>5 DEF InboxAccepts
<1>6. CASE refusal # "NONE"
  <2>1. Outcomes(q) = [Outcomes(p) EXCEPT ![c] = Life!Refused]
    BY <1>4, <1>6
  <2>2. Reached(p, payload) = p.orders[o]
    BY <1>6, DoneOrder
  <2>3. q.orders = p.orders
    BY <1>0, <1>1, <2>2, Fields
  <2> QED BY <1>3, <2>1, <2>3 DEF InboxRefuses
<1> QED BY <1>5, <1>6

\* Every step of a sound processor is a step of the inbox, or not seen there.
LEMMA SteppedInbox ==
    ASSUME NEW p, Sound(p), NEW q, Stepped(p, q)
    PROVE  \/ InboxUnchanged(p, q)
           \/ \E o \in Orders : InboxRegisters(p, q, o)
           \/ \E c \in Ids : InboxAccepts(p, q, c) \/ InboxRefuses(p, q, c)
<1>1. CASE q = p
  BY <1>1 DEF InboxUnchanged
<1>2. ASSUME NEW o \in Orders, NEW status \in {"CREATED", "WORKING"}, Opened(p, q, o, status)
      PROVE  InboxRegisters(p, q, o)
  <2>1. /\ p.orders[o] = None
        /\ q.orders = [p.orders EXCEPT ![o] = [status |-> status, filled |-> 0]]
        /\ q.commands = p.commands
    BY <1>2 DEF Opened, Becomes
  <2>2. Outcomes(q) = Outcomes(p)
    BY <2>1 DEF Outcomes
  <2> QED BY <2>1, <2>2 DEF InboxRegisters
<1>3. ASSUME NEW c \in Ids, NEW payload \in Payload, HalfDone(p, q, c, payload)
      PROVE  InboxUnchanged(p, q)
  BY <1>3 DEF HalfDone, Becomes, InboxUnchanged, Outcomes
<1>4. ASSUME NEW c \in Ids, NEW payload \in Payload, Done(p, q, c, payload)
      PROVE  InboxAccepts(p, q, c) \/ InboxRefuses(p, q, c)
  BY <1>4, InboxOfDone
<1> QED BY <1>1, <1>2, <1>3, <1>4 DEF Stepped, Moved
=============================================================================
