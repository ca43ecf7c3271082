--------------------------- MODULE MCShopReturns ---------------------------
(* Small instances of ShopReturns for TLC. *)
EXTENDS ShopReturns, TLC

OneOfEach == [p \in Products |-> 1]
TwoOfEach == [p \in Products |-> 2]

Interchangeable == Permutations(Files)

\* The files of an order that nobody prepares, disputes or asks to cancel: no action of
\* a file reads the preparation of the order, and returns_money has the other two.
FilesOnly == (Init /\ FilesInit) /\ [][FileNext]_<<vars, fileVars>>

\* While a known and unsettled refund is looked up, the other file has asked for nothing.
LookupsAlone ==
    \A x \in fileAnswers :
        fileRefund[x.request].known /\ fileRefund[x.request].status \notin Terminal =>
            \A g \in Files \ {x.request} : fileRefund[g].status = "NONE"

\* Files that were just approved, for goods that need not come back.
ApprovedFiles ==
    /\ Init
    /\ files = [f \in Files |-> [AbsentFile EXCEPT !.status = "APPROVED", !.requested = OneOfEach,
                                                  !.authorized = OneOfEach, !.refundable = OneOfEach]]
    /\ fileRefund = [f \in Files |-> AbsentRefund]
    /\ fileCalls = {} /\ fileAnswers = {} /\ fileDeferred = {} /\ fileWaiting = {} /\ fileReceipts = {}
    /\ fileGateway = [f \in Files |-> "NONE"]
    /\ fileSent = {}

\* The webhooks of the files, or those of a cancellation when there are no files.
Filed == \E f \in Files : files[f].status # "NONE"

RefundsHeard ==
    /\ ApprovedFiles \/ (Init /\ FilesInit)
    /\ [][(Filed /\ FileNext) \/ (~Filed /\ OrderNext)]_<<vars, fileVars>>
    /\ Webhooks /\ FileWebhooks
=============================================================================
