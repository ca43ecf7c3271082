------------------------------ MODULE ShopSale ------------------------------
(***************************************************************************)
(* What the Shop promises about money and goods, without attempts,          *)
(* providers, reservations or clocks (docs/SHOP_PAYMENTS.md, "Confirmation  *)
(* atomique du stock" and "Expiration, échec et revue humaine"):            *)
(* an order is offered once; money that arrives either buys the whole       *)
(* basket of an order that is on offer, was never paid and is not held, or  *)
(* holds the order for a human; nothing else takes goods for an order.      *)
(***************************************************************************)
EXTENDS Integers

CONSTANTS Orders, Products

VARIABLES
    phase,    \* NEW, OFFERED, SOLD or CLOSED
    basket,   \* quantity of each product
    held,     \* orders that wait for a human
    paidFor,  \* orders for which the shop has recorded money
    shelf     \* units in stock

saleVars == <<phase, basket, held, paidFor, shelf>>

Init ==
    /\ phase = [o \in Orders |-> "NEW"]
    /\ basket = [o \in Orders |-> [p \in Products |-> 0]]
    /\ held = {}
    /\ paidFor = {}
    /\ shelf \in [Products -> Nat]

Offer(o) ==
    /\ phase[o] = "NEW"
    /\ phase' = [phase EXCEPT ![o] = "OFFERED"]
    /\ basket' \in [Orders -> [Products -> Nat]]
    /\ \A other \in Orders \ {o} : basket'[other] = basket[other]
    /\ UNCHANGED <<held, paidFor, shelf>>

\* Cancellation and expiry: never of an order that was paid or is held.
Close(closing) ==
    /\ \A o \in closing : phase[o] = "OFFERED" /\ o \notin held /\ o \notin paidFor
    /\ phase' = [o \in Orders |-> IF o \in closing THEN "CLOSED" ELSE phase[o]]
    /\ UNCHANGED <<basket, held, paidFor, shelf>>

\* The one payment that buys the order, and the whole basket with it.
Sell(o) ==
    /\ phase[o] = "OFFERED" /\ o \notin held /\ o \notin paidFor
    /\ phase' = [phase EXCEPT ![o] = "SOLD"]
    /\ paidFor' = paidFor \cup {o}
    /\ shelf' = [p \in Products |-> shelf[p] - basket[o][p]]
    /\ UNCHANGED <<basket, held>>

\* Any other payment, and any doubt: the order is held, for good.
Hold(o) ==
    /\ phase[o] # "NEW"
    /\ held' = held \cup {o}
    /\ paidFor' \in {paidFor, paidFor \cup {o}}
    /\ UNCHANGED <<phase, basket, shelf>>

\* An administrator counts the stock of a product again.
Recount(p) ==
    /\ shelf' \in [Products -> Nat]
    /\ \A other \in Products \ {p} : shelf'[other] = shelf[other]
    /\ UNCHANGED <<phase, basket, held, paidFor>>

Next ==
    \/ \E o \in Orders : Offer(o) \/ Sell(o) \/ Hold(o)
    \/ \E closing \in SUBSET Orders : Close(closing)
    \/ \E p \in Products : Recount(p)

Spec == Init /\ [][Next]_saleVars
=============================================================================
