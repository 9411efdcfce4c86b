----------------------------- MODULE OrderInbox -----------------------------
(***************************************************************************)
(* What an order command inbox promises, however it is built: a command    *)
(* identity is executed once, its outcome never changes, and an accepted   *)
(* command moves one order along its life cycle, by the fills it received. *)
(***************************************************************************)
EXTENDS Naturals

CONSTANTS Orders, Ids, Quantity, None

VARIABLES orders,       \* o -> [status, filled] or None
          outcomes      \* c -> the order after the command, Refused or None

Refused == [status |-> "REFUSED", filled |-> 0]

Order == [status : {"CREATED", "ACCEPTED", "WORKING", "PARTIALLY_FILLED", "FILLED",
                    "CANCELLED", "EXPIRED", "REJECTED"},
          filled : 0 .. Quantity]

\* The life cycle of an order: a working one is ended as far as it is filled,
\* or filled further (an order may be told once more that it is partly filled).
MayBecome(order, next) ==
    \/ /\ \/ order.status = "CREATED"  /\ next.status \in {"ACCEPTED", "REJECTED"}
          \/ order.status = "ACCEPTED" /\ next.status \in {"WORKING", "EXPIRED"}
       /\ next.filled = 0
    \/ /\ order.status \in {"WORKING", "PARTIALLY_FILLED"}
       /\ \/ next.status \in {"CANCELLED", "EXPIRED"} /\ next.filled = order.filled
          \/ next.status = "PARTIALLY_FILLED" /\ next.filled \in order.filled + 1 .. Quantity - 1
          \/ next.status = "FILLED" /\ next.filled = Quantity
    \/ order.status = "PARTIALLY_FILLED" /\ next = order

vars == <<orders, outcomes>>

Init == /\ orders = [o \in Orders |-> None]
        /\ outcomes = [c \in Ids |-> None]

Register(o) ==
    /\ orders[o] = None
    /\ \E status \in {"CREATED", "WORKING"} :
          orders' = [orders EXCEPT ![o] = [status |-> status, filled |-> 0]]
    /\ UNCHANGED outcomes

Accept(c) ==
    /\ outcomes[c] = None
    /\ \E o \in Orders, next \in Order :
        /\ orders[o] # None
        /\ MayBecome(orders[o], next)
        /\ orders' = [orders EXCEPT ![o] = next]
        /\ outcomes' = [outcomes EXCEPT ![c] = next]

Refuse(c) ==
    /\ outcomes[c] = None
    /\ outcomes' = [outcomes EXCEPT ![c] = Refused]
    /\ UNCHANGED orders

Next == (\E o \in Orders : Register(o)) \/ (\E c \in Ids : Accept(c) \/ Refuse(c))

Spec == Init /\ [][Next]_vars
=============================================================================
