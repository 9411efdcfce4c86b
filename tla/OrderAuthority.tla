--------------------------- MODULE OrderAuthority ---------------------------
(***************************************************************************)
(* What the authorization chain promises, with none of its registries: a   *)
(* grant to create an order is open until it is either revoked, for ever,  *)
(* or spent, once; a spent grant creates exactly one order, and nothing    *)
(* else creates one.                                                       *)
(***************************************************************************)
EXTENDS Naturals

CONSTANT Grants

VARIABLES grant,        \* "open", "revoked" or "spent"
          orders        \* how many orders were created under a grant

Init == /\ grant = [g \in Grants |-> "open"]
        /\ orders = [g \in Grants |-> 0]

Revoke(g) == /\ grant[g] = "open"
             /\ grant' = [grant EXCEPT ![g] = "revoked"]
             /\ UNCHANGED orders

Spend(g) == /\ grant[g] = "open"
            /\ grant' = [grant EXCEPT ![g] = "spent"]
            /\ UNCHANGED orders

CreateOrder(g) == /\ grant[g] = "spent" /\ orders[g] = 0
                  /\ orders' = [orders EXCEPT ![g] = 1]
                  /\ UNCHANGED grant

Next == \E g \in Grants : Revoke(g) \/ Spend(g) \/ CreateOrder(g)

Spec == Init /\ [][Next]_<<grant, orders>>

FairSpec == Spec /\ \A g \in Grants : WF_<<grant, orders>>(CreateOrder(g))
=============================================================================
