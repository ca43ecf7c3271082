-------------------------- MODULE MCMusicPayments --------------------------
(* Small instances of MusicPayments for TLC. *)
EXTENDS MusicPayments, FiniteSets, TLC

Interchangeable == Permutations(Prices)

\* A run has at most two requests under way at any time, one of them at most closing a
\* checkout.
TwoRequests ==
    /\ Cardinality(closing) <= 1
    /\ Cardinality({a \in Attempts : checkout[a] # "IDLE"}) + Cardinality(closing) <= 2
=============================================================================
