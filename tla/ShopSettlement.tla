--------------------------- MODULE ShopSettlement ---------------------------
(***************************************************************************)
(* What the Shop promises about one paid order after the sale               *)
(* (docs/SHOP_PRODUCTION_READINESS_PHASE5E.md, "SAV, annulation et          *)
(* adresse"), without requests, refund attempts, carriers or webhooks:      *)
(* a cancellation gives all the money back and puts the whole basket back,  *)
(* in one step, and only while the goods are still here; after-sales files  *)
(* give back at most what was paid and put back at most what was bought.    *)
(***************************************************************************)
EXTENDS Integers

CONSTANTS Products, Basket, Total

VARIABLES
    goods,     \* HERE, SENT or BACK (the order was cancelled)
    refunded,  \* cents the shop has recorded as given back
    putBack    \* units of the order that returned to the shelf

settlementVars == <<goods, refunded, putBack>>

Init ==
    /\ goods = "HERE"
    /\ refunded = 0
    /\ putBack = [p \in Products |-> 0]

Send ==
    /\ goods = "HERE"
    /\ goods' = "SENT"
    /\ UNCHANGED <<refunded, putBack>>

\* The whole sale is undone at once, and only if no part of it was undone before.
Cancel ==
    /\ goods = "HERE"
    /\ refunded = 0
    /\ putBack = [p \in Products |-> 0]
    /\ goods' = "BACK"
    /\ refunded' = Total
    /\ putBack' = Basket

\* After-sales files refund and restock independently of each other.
GiveBack ==
    /\ goods # "BACK"
    /\ refunded' \in refunded..Total
    /\ putBack' \in [Products -> Nat]
    /\ \A p \in Products : putBack'[p] \in putBack[p]..Basket[p]
    /\ UNCHANGED goods

Next == Send \/ Cancel \/ GiveBack

SettlementSpec == Init /\ [][Next]_settlementVars
=============================================================================
