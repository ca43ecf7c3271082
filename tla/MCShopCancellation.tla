------------------------- MODULE MCShopCancellation -------------------------
(* Small instances of ShopCancellation for TLC. *)
EXTENDS ShopCancellation, TLC

OneOfEach == [p \in Products |-> 1]

Interchangeable ==
    Permutations(Requests) \cup Permutations(Corrections) \cup Permutations(Products)

\* A run looks at one complication at a time: the order is being prepared, the provider
\* leaves out or garbles the reference of a refund, there are after-sales files, or a
\* second request.  Files may meet an unclear reference.
Prepared == order.fulfilment \notin {"PENDING", "CANCELLED"} \/ \E c \in Corrections : corrections[c] # "NONE"
Unreferenced == \E e \in answers \cup sent : e.match # "MATCH"
Filed == returns.disposition \/ (order.status = "OPEN" /\ GaveBack)
Several == Cardinality({r \in Requests : requests[r] # "NONE"}) > 1

OneComplication ==
    /\ ~(Prepared /\ Unreferenced)
    /\ ~(Prepared /\ Several)
    /\ ~(Prepared /\ Filed)
    /\ ~(Several /\ Filed)
    /\ ~(Unreferenced /\ Several)
=============================================================================
