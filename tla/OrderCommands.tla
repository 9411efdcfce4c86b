---------------------------- MODULE OrderCommands ----------------------------
(***************************************************************************)
(* Orders and the processor that applies commands to them, as values:      *)
(* decision/trade_contracts.py (Order) and                                 *)
(* execution_simulation/order_processor.py (OrderCommandProcessor).        *)
(*                                                                         *)
(* The operators give the processor that a call leaves behind and the      *)
(* answer it returns; OrderProcessor runs them in memory and               *)
(* DurableOrderProcessor behind a file.                                    *)
(***************************************************************************)
EXTENDS Integers, FiniteSets

CONSTANTS Orders,       \* order identities
          Ids,          \* command identities
          Quantity,     \* the quantity of every order
          None

ASSUME QuantityAssumption == Quantity \in Nat \ {0}

Statuses == {"CREATED", "ACCEPTED", "WORKING", "PARTIALLY_FILLED", "FILLED",
             "CANCELLED", "EXPIRED", "REJECTED"}
Fillable == {"WORKING", "PARTIALLY_FILLED"}
Terminal == {"FILLED", "CANCELLED", "EXPIRED", "REJECTED"}

\* _TRANSITIONS, which Order.transition() repeats.
Transitions == ({"CREATED"} \X {"ACCEPTED", "REJECTED"})
         \cup ({"ACCEPTED"} \X {"WORKING", "EXPIRED"})
         \cup (Fillable \X {"PARTIALLY_FILLED", "FILLED", "CANCELLED", "EXPIRED"})

Order == [status : Statuses, filled : 0 .. Quantity]

\* Order.__post_init__: what a constructed order satisfies.
WellFormed(order) ==
    /\ order.status \in {"CREATED", "ACCEPTED", "WORKING"} => order.filled = 0
    /\ order.status = "PARTIALLY_FILLED" => 0 < order.filled /\ order.filled < Quantity
    /\ order.status = "FILLED" => order.filled = Quantity

\* The fingerprint of a command: a fill of a quantity, or a transition to a
\* target status.  Quantities that no order has room for are among the inputs.
Payload == {payload \in [order : Orders, target : (Statuses \ {"CREATED"}) \cup {"FILL"},
                         quantity : 0 .. Quantity + 1] :
               payload.target # "FILL" => payload.quantity = 0}
IsFill(payload) == payload.target = "FILL"

Outcome == [accepted : BOOLEAN, order : Order \cup {None}, reason : {"NONE", "UNKNOWN_ORDER",
            "INVALID_TRANSITION", "INVALID_FILL"}, sequence : Nat \ {0}]

\* OrderCommandProcessor's fields, which are also those of its snapshot.
Processor == [orders : [Orders -> Order \cup {None}], commands : [Ids -> Outcome \cup {None}],
              prints : [Ids -> Payload \cup {None}], last : Nat]
Empty == [orders   |-> [o \in Orders |-> None], commands |-> [c \in Ids |-> None],
          prints   |-> [c \in Ids |-> None],    last     |-> 0]

\* Nothing is recorded under an order or a command that is not there.
ASSUME NoneAssumption == None \notin Order /\ None \notin Outcome

-----------------------------------------------------------------------------
\* MUTANT of Takes: a fill is taken in any status.
TakesAnyStatus(order, payload) ==
    IF IsFill(payload)
    THEN payload.quantity > 0 /\ order.filled + payload.quantity <= Quantity
    ELSE <<order.status, payload.target>> \in Transitions

\* The command is one for the order as it stands.
Takes(order, payload) ==
    IF IsFill(payload)
    THEN /\ order.status \in Fillable
         /\ payload.quantity > 0
         /\ order.filled + payload.quantity <= Quantity
    ELSE <<order.status, payload.target>> \in Transitions

\* Why a command is refused with a recorded outcome, "NONE" when it is not.
Refusal(current, payload) ==
    IF current = None THEN "UNKNOWN_ORDER"
    ELSE IF Takes(current, payload) THEN "NONE"
    ELSE IF IsFill(payload) THEN "INVALID_FILL" ELSE "INVALID_TRANSITION"

\* MUTANT of Updated: a fill sets the filled quantity instead of adding to it.
UpdatedToFill(current, payload) ==
    IF IsFill(payload)
    THEN [status |-> IF payload.quantity = Quantity THEN "FILLED" ELSE "PARTIALLY_FILLED",
          filled |-> payload.quantity]
    ELSE [status |-> payload.target, filled |-> current.filled]

\* The order replace() is asked to construct.
Updated(current, payload) ==
    IF IsFill(payload)
    THEN LET filled == current.filled + payload.quantity
         IN  [status |-> IF filled = Quantity THEN "FILLED" ELSE "PARTIALLY_FILLED",
              filled |-> filled]
    ELSE [status |-> payload.target, filled |-> current.filled]

\* Order.transition() moves the status and not the filled quantity, so that a
\* transition into a fill status can fail in __post_init__; the exception
\* leaves the command half done.
Raises(p, payload) ==
    LET current == p.orders[payload.order]
    IN  Refusal(current, payload) = "NONE" /\ ~ WellFormed(Updated(current, payload))

\* _begin_command for a command without an outcome: event sequence 0 stands
\* for a caller that gives none.
Recorded(p, c) == p.commands[c] # None
Follows(p, sequence) == sequence \in {0, p.last + 1}
\* MUTANT of Begins: an identity reused in the event stream is executed again.
BeginsConflicting(p, c, sequence) ==
    (~ Recorded(p, c) \/ sequence = p.last + 1) /\ Follows(p, sequence)

Begins(p, c, sequence) == ~ Recorded(p, c) /\ Follows(p, sequence)
Begun(p, c, payload) == [p EXCEPT !.last = p.last + 1, !.prints = [@ EXCEPT ![c] = payload]]

\* MUTANT of Applied: a refusal does not consume its sequence.
AppliedRefusedFree(p, c, payload) ==
    LET current == p.orders[payload.order]
        refusal == Refusal(current, payload)
        order   == IF refusal = "NONE" THEN Updated(current, payload) ELSE current
    IN  [orders   |-> [p.orders EXCEPT ![payload.order] = order],
         commands |-> [p.commands EXCEPT ![c] =
                          [accepted |-> refusal = "NONE", order |-> order, reason |-> refusal,
                           sequence |-> p.last + 1]],
         prints   |-> [p.prints EXCEPT ![c] = payload],
         last     |-> IF refusal = "NONE" THEN p.last + 1 ELSE p.last]

\* transition() and apply_fill() of a command that began and did not raise.
Applied(p, c, payload) ==
    LET current == p.orders[payload.order]
        refusal == Refusal(current, payload)
        order   == IF refusal = "NONE" THEN Updated(current, payload) ELSE current
    IN  [orders   |-> [p.orders EXCEPT ![payload.order] = order],
         commands |-> [p.commands EXCEPT ![c] =
                          [accepted |-> refusal = "NONE", order |-> order, reason |-> refusal,
                           sequence |-> p.last + 1]],
         prints   |-> [p.prints EXCEPT ![c] = payload],
         last     |-> p.last + 1]

\* The processor after transition() or apply_fill() ...
Executed(p, c, payload, sequence) ==
    IF ~ Begins(p, c, sequence) THEN p
    ELSE IF Raises(p, payload) THEN Begun(p, c, payload) ELSE Applied(p, c, payload)

\* ... and what the caller gets: the outcome recorded now or before, one of
\* two refusals that leave no trace, or an exception and hence no result.
Answer(p, c, payload, sequence) ==
    LET recorded == p.commands[c]
        refused(order, reason, number) ==
            [accepted |-> FALSE, order |-> order, reason |-> reason, sequence |-> number]
    IN  CASE Begins(p, c, sequence) ->
                IF Raises(p, payload) THEN None ELSE Applied(p, c, payload).commands[c]
          [] Recorded(p, c) ->
                IF p.prints[c] = payload \/ sequence = 0 THEN recorded
                ELSE refused(recorded.order, "COMMAND_ID_CONFLICT", recorded.sequence)
          [] OTHER -> refused(None, "EVENT_SEQUENCE_GAP", sequence)

\* register() of an order the caller constructed.
Registered(p, o, status) ==
    [p EXCEPT !.orders = [@ EXCEPT ![o] = [status |-> status, filled |-> 0]]]

\* What restore() requires of a snapshot.
Restorable(p) ==
    LET done == {c \in Ids : p.commands[c] # None}
    IN  /\ \A c1, c2 \in done : c1 # c2 => p.commands[c1].sequence # p.commands[c2].sequence
        /\ {p.commands[c].sequence : c \in done} = 1 .. p.last
        /\ done = {c \in Ids : p.prints[c] # None}

-----------------------------------------------------------------------------
(* For the properties: what the recorded commands say of an order. *)

Accepted(p, c, o) ==
    p.commands[c] # None /\ p.commands[c].accepted /\ p.prints[c].order = o

\* The fills an order accepted, unit by unit.
FillUnits(p, o) ==
    {u \in Ids \X (1 .. Quantity + 1) :
        Accepted(p, u[1], o) /\ IsFill(p.prints[u[1]]) /\ u[2] <= p.prints[u[1]].quantity}

\* The command stream as the abstract inbox sees it.
Outcomes(p) == [c \in Ids |-> IF p.commands[c] = None THEN None
                              ELSE IF p.commands[c].accepted THEN p.commands[c].order
                              ELSE [status |-> "REFUSED", filled |-> 0]]
=============================================================================
