--------------------------- MODULE MCShopPayments ---------------------------
(* Small instances of ShopPayments for TLC. *)
EXTENDS ShopPayments, TLC

Interchangeable ==
    Permutations(Orders) \cup Permutations(Products) \cup Permutations(Attempts)

\* Declined cards and contradictory evidence are looked at one at a time, and only when
\* every attempt is one of Stripe.
OneComplication ==
    LET declined == {e \in sent : e.via = "INTENT"}
        contradictory == {e \in sent : ~e.consistent}
    IN  /\ declined = {} \/ contradictory = {}
        /\ declined \cup contradictory # {} => \A a \in Attempts : IsStripe(a)
=============================================================================
