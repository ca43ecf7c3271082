------------------------ MODULE MCNotificationOutbox ------------------------
(* Small instances of NotificationOutbox for TLC. *)
EXTENDS NotificationOutbox, TLC

\* Every row is for the same address.
OneAddress == [n \in Notices |-> CHOOSE r \in Recipients : TRUE]

Interchangeable == Permutations(Workers) \cup Permutations(Notices)
=============================================================================
