---------------------------- MODULE MCShopOrders ----------------------------
(* Small instances of ShopOrders for TLC. *)
EXTENDS ShopOrders, TLC

Interchangeable == Permutations(Orders) \cup Permutations(Products)
=============================================================================
