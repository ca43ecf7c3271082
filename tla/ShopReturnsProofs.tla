-------------------------- MODULE ShopReturnsProofs --------------------------
(***************************************************************************)
(* Proofs about ShopReturns, for every set of files, basket and price: the  *)
(* files keep their types, the refunded amount is what the attempts         *)
(* confirm, no more money or units come back than were paid and bought,     *)
(* and beside its files the order does only what ShopCancellation does.     *)
(***************************************************************************)
EXTENDS ShopReturns, ShopCancellationProofs, FiniteSetTheorems

-----------------------------------------------------------------------------
(* Sums over files, counted unit by unit.                                      *)

(* The units of these files, of which each has at most m. *)
Units(fs, h, m) == {u \in fs \X (1..m) : u[2] <= h[u[1]]}

LEMMA UnitsFinite ==
    ASSUME NEW m \in Nat, NEW S, S \subseteq Files \X (1..m)
    PROVE  IsFiniteSet(S) /\ Cardinality(S) \in Nat
<1>1. IsFiniteSet(1..m)
  BY FS_Interval
<1>2. IsFiniteSet(Files \X (1..m))
  BY <1>1, FilesAssumption, FS_Product
<1>3. IsFiniteSet(S)
  BY <1>2, FS_Subset
<1> QED
  BY <1>3, FS_CardinalityType

LEMMA UnitsAre ==
    ASSUME NEW fs \in SUBSET Files, NEW h, NEW m
    PROVE  Units(fs, h, m) \subseteq Files \X (1..m) /\ SumOf(fs, h, m) = Cardinality(Units(fs, h, m))
BY DEF Units, SumOf

LEMMA SumIsNat ==
    ASSUME NEW fs \in SUBSET Files, NEW h, NEW m \in Nat
    PROVE  SumOf(fs, h, m) \in Nat
BY UnitsFinite, UnitsAre

(* More files, and more in each of them: more in all. *)
LEMMA SumGrows ==
    ASSUME NEW fs \in SUBSET Files, NEW gs \in SUBSET Files, fs \subseteq gs, NEW m \in Nat,
           NEW h, NEW k, \A f \in fs : h[f] \in Nat /\ k[f] \in Nat /\ h[f] <= k[f]
    PROVE  SumOf(fs, h, m) <= SumOf(gs, k, m)
<1>1. \A f \in fs : \A i \in 1..m : i <= h[f] => i <= k[f]
  BY SMT
<1>2. Units(fs, h, m) \subseteq Units(gs, k, m)
  BY <1>1 DEF Units
<1>3. IsFiniteSet(Units(gs, k, m))
  BY UnitsAre, UnitsFinite
<1> QED
  BY <1>2, <1>3, UnitsAre, FS_Subset

(* Only what the files themselves have counts. *)
LEMMA SumSame ==
    ASSUME NEW fs \in SUBSET Files, NEW h, NEW k, NEW m, \A f \in fs : h[f] = k[f]
    PROVE  SumOf(fs, h, m) = SumOf(fs, k, m)
<1>1. {u \in fs \X (1..m) : u[2] <= h[u[1]]} = {u \in fs \X (1..m) : u[2] <= k[u[1]]}
  OBVIOUS
<1> QED
  BY <1>1 DEF SumOf

(* Two sets of files without a common one. *)
LEMMA SumSplits ==
    ASSUME NEW fs \in SUBSET Files, NEW gs \in SUBSET Files, fs \cap gs = {}, NEW h, NEW m \in Nat
    PROVE  SumOf(fs \cup gs, h, m) = SumOf(fs, h, m) + SumOf(gs, h, m)
<1> DEFINE A == Units(fs, h, m)
           B == Units(gs, h, m)
<1>1. Units(fs \cup gs, h, m) = A \cup B
  BY DEF Units
<1>2. A \cap B = {}
  BY DEF Units
<1>3. IsFiniteSet(A) /\ IsFiniteSet(B) /\ Cardinality(A) \in Nat /\ Cardinality(B) \in Nat
  BY UnitsAre, UnitsFinite
<1>4. SumOf(fs \cup gs, h, m) = Cardinality(A \cup B) /\ SumOf(fs, h, m) = Cardinality(A) /\ SumOf(gs, h, m) = Cardinality(B)
  BY <1>1, UnitsAre
<1> HIDE DEF A, B
<1>5. Cardinality(A \cup B) = Cardinality(A) + Cardinality(B) - Cardinality(A \cap B)
  BY <1>3, FS_Union
<1>6. Cardinality(A \cap B) = 0
  BY <1>2, FS_EmptySet
<1> QED
  BY <1>3, <1>4, <1>5, <1>6

LEMMA SumEmpty ==
    ASSUME NEW fs \in SUBSET Files, NEW h, NEW m \in Nat, \A f \in fs : h[f] = 0
    PROVE  SumOf(fs, h, m) = 0
<1>1. Units(fs, h, m) = {}
  BY DEF Units
<1> QED
  BY <1>1, UnitsAre, FS_EmptySet

(* A file alone. *)
LEMMA UnitsOfOne ==
    ASSUME NEW f \in Files, NEW m \in Nat, NEW n \in 0..m
    PROVE  Cardinality({f} \X (1..n)) = n /\ \A i : i \in 1..m /\ i <= n <=> i \in 1..n
<1>0. n \in Int /\ n >= 0 /\ n <= m
  OBVIOUS
<1>1. IsFiniteSet(1..n) /\ Cardinality(1..n) = n
  BY <1>0, FS_Interval
<1>2. IsFiniteSet({f}) /\ Cardinality({f}) = 1
  BY FS_Singleton
<1>3. Cardinality({f} \X (1..n)) = 1 * n
  BY <1>1, <1>2, FS_Product
<1> QED
  BY <1>0, <1>3

LEMMA SumOne ==
    ASSUME NEW f \in Files, NEW h, NEW m \in Nat, NEW n \in 0..m, h[f] = n
    PROVE  SumOf({f}, h, m) = n
<1>1. Units({f}, h, m) = {f} \X (1..n)
  <2>1. \A i : i \in 1..m /\ i <= n <=> i \in 1..n
    BY UnitsOfOne
  <2>2. ASSUME NEW u \in Units({f}, h, m)
        PROVE  u \in {f} \X (1..n)
    <3>1. u \in {f} \X (1..m) /\ u[2] <= h[u[1]]
      BY DEF Units
    <3>2. PICK i \in 1..m : u = <<f, i>>
      BY <3>1
    <3>3. i <= n
      BY <3>1, <3>2
    <3> QED
      BY <2>1, <3>2, <3>3
  <2>3. ASSUME NEW u \in {f} \X (1..n)
        PROVE  u \in Units({f}, h, m)
    <3>1. PICK i \in 1..n : u = <<f, i>>
      OBVIOUS
    <3>2. i \in 1..m /\ i <= h[f]
      BY <2>1
    <3> QED
      BY <3>1, <3>2 DEF Units
  <2> QED
    BY <2>2, <2>3
<1>2. SumOf({f}, h, m) = Cardinality(Units({f}, h, m))
  BY UnitsAre
<1> QED
  BY <1>1, <1>2, UnitsOfOne

LEMMA SumWith ==
    ASSUME NEW fs \in SUBSET Files, NEW f \in Files, f \notin fs, NEW h, NEW m \in Nat,
           NEW n \in 0..m, h[f] = n
    PROVE  SumOf(fs \cup {f}, h, m) = SumOf(fs, h, m) + n
<1>1. {f} \in SUBSET Files /\ fs \cap {f} = {}
  OBVIOUS
<1>2. SumOf({f}, h, m) = n
  BY SumOne
<1> QED
  BY <1>1, <1>2, SumSplits

(* One file has something else than before. *)
LEMMA SumChanges ==
    ASSUME NEW fs \in SUBSET Files, NEW f \in fs, NEW h, NEW k, NEW m \in Nat,
           \A g \in fs \ {f} : h[g] = k[g],
           NEW i \in 0..m, h[f] = i, NEW j \in 0..m, k[f] = j
    PROVE  SumOf(fs, k, m) = SumOf(fs, h, m) - i + j
<1> DEFINE gs == fs \ {f}
<1>1. gs \in SUBSET Files /\ f \notin gs /\ gs \cup {f} = fs /\ f \in Files
  OBVIOUS
<1>2. SumOf(gs, h, m) = SumOf(gs, k, m) /\ SumOf(gs, h, m) \in Nat
  BY SumSame, SumIsNat
<1> HIDE DEF gs
<1>3. SumOf(fs, h, m) = SumOf(gs, h, m) + i
  BY <1>1, SumWith
<1>4. SumOf(fs, k, m) = SumOf(gs, k, m) + j
  BY <1>1, SumWith
<1> QED
  BY <1>2, <1>3, <1>4

(* Something in all is something in one of them. *)
LEMMA SumFrom ==
    ASSUME NEW fs \in SUBSET Files, NEW h, NEW m \in Nat, SumOf(fs, h, m) # 0
    PROVE  \E f \in fs : h[f] # 0
BY SumEmpty

-----------------------------------------------------------------------------
(* The inductive invariant.                                                    *)

(* A file asks for units of the basket only once for each, however it goes on: those   *)
(* that are closed count only when they were restocked.                                 *)
Claims(file) == file.status \notin {"NONE", "REJECTED", "CANCELLED", "CLOSED"} \/ file.restocked # Zero
Claimed == {f \in Files : Claims(files[f])}

Requested(p) == [f \in Files |-> files[f].requested[p]]
Restocked(p) == [f \in Files |-> files[f].restocked[p]]

(* The provider has the money of the file, or may still be asked for it. *)
Owed(f) == f \in fileCalls \/ fileGateway[f] \in {"PENDING", "SUCCEEDED"}
RequestOwed(r) == r \in calls \/ gateway[r] \in {"PENDING", "SUCCEEDED"}

(* One file on its own. *)
FileSane(file, attempt) ==
    /\ \A p \in Products :
        file.restockable[p] <= file.received[p] /\ file.received[p] <= file.authorized[p]
        /\ file.authorized[p] <= file.requested[p]
    /\ file.restocked \in {Zero, file.restockable}
    /\ file.received # Zero =>
        file.status \in {"RETURN_RECEIVED", "INSPECTED", "REFUND_PENDING", "REFUNDED", "CLOSED"}
    /\ file.restockable # Zero => file.status \in {"INSPECTED", "REFUND_PENDING", "REFUNDED", "CLOSED"}
    /\ file.status = "NONE" => file.requested = Zero
    /\ attempt.status = "NONE" => file.status \notin {"REFUND_PENDING", "REFUNDED"}
    /\ attempt.status = "SUCCEEDED" => file.status \in {"REFUNDED", "CLOSED"}
    /\ attempt.status \in ActiveRefund \cup {"FAILED"} => file.status = "REFUND_PENDING"

FileAsked(e) ==
    /\ e.request \in Files
    /\ fileRefund[e.request].status # "NONE"
    /\ e.request \notin fileCalls
    /\ e.status \in {"SUCCEEDED", "FAILED"} => fileGateway[e.request] = e.status
    /\ e.status = "REFUSED" => fileGateway[e.request] = "NONE"

FilesAgree ==
    /\ \A f \in Files : FileSane(files[f], fileRefund[f])
    /\ returns = Seen(files, fileRefund)

FileFlightAgrees ==
    /\ \A e \in fileAnswers \cup fileSent : FileAsked(e)
    /\ \A w \in fileWaiting : FileAsked(w.notice)
    /\ \A f \in Files :
        /\ f \in fileCalls => fileGateway[f] = "NONE"
        /\ fileRefund[f].status = "NONE" => fileGateway[f] = "NONE"
        /\ Owed(f) => fileRefund[f].status \in ActiveRefund \cup {"SUCCEEDED"}

MoneyAgrees ==
    /\ RefundedAccounted
    /\ AmountOf({f \in Files : Owed(f)}) <= Total
    /\ \A r \in Requests, f \in Files : ~(RequestOwed(r) /\ Owed(f))

UnitsAgree ==
    /\ UnitsAccounted
    /\ \A p \in Products : SumOf(Claimed, Requested(p), Basket[p]) <= Basket[p]

Cancelled ==
    order.status = "CANCELLED" =>
        \A f \in Files : ~Owed(f) /\ fileRefund[f].status # "SUCCEEDED" /\ files[f].restocked = Zero

ReturnsInv == FilesTypeOK /\ FilesAgree /\ FileFlightAgrees /\ MoneyAgrees /\ UnitsAgree /\ Cancelled

LEMMA QuantityIs ==
    ASSUME NEW q \in Quantities, NEW p \in Products
    PROVE  q[p] \in 0..Basket[p] /\ Basket[p] \in Nat
BY OrderAssumption DEF Quantities

LEMMA ZeroIs == Zero \in Quantities /\ \A p \in Products : Zero[p] = 0
BY OrderAssumption DEF Quantities, Zero

(* What a file has of a product, or of the money. *)
LEMMA FileIs ==
    ASSUME FilesTypeOK, NEW f \in Files
    PROVE  /\ files[f] \in FileRows /\ fileRefund[f] \in RefundRows
           /\ files[f].amount \in 0..Total /\ Total \in Nat
           /\ \A p \in Products :
                /\ files[f].requested[p] \in 0..Basket[p]
                /\ files[f].restocked[p] \in 0..Basket[p]
                /\ files[f].restockable[p] \in 0..Basket[p]
<1>1. files[f] \in FileRows /\ fileRefund[f] \in RefundRows
  BY DEF FilesTypeOK
<1>2. /\ files[f].requested \in Quantities /\ files[f].restocked \in Quantities
      /\ files[f].restockable \in Quantities /\ files[f].amount \in 0..Total
  BY <1>1 DEF FileRows
<1> QED
  BY <1>1, <1>2, QuantityIs, OrderAssumption

LEMMA CentsAre ==
    ASSUME NEW attempts, NEW statuses
    PROVE  CentsOf(attempts, statuses) \in Nat
BY SumIsNat, OrderAssumption DEF CentsOf, AmountOf

LEMMA ReturnsInit == Init /\ FilesInit => ReturnsInv
<1> SUFFICES ASSUME Init, FilesInit
             PROVE  ReturnsInv
  OBVIOUS
<1>1. FilesTypeOK
  <2>1. AbsentFile \in FileRows
    BY ZeroIs, OrderAssumption DEF AbsentFile, FileRows, FileStatuses
  <2>2. AbsentRefund \in RefundRows
    BY DEF AbsentRefund, RefundRows, RefundStatuses, Codes
  <2> QED
    BY <2>1, <2>2 DEF FilesInit, FilesTypeOK
<1>2. \A f \in Files : files[f] = AbsentFile /\ fileRefund[f] = AbsentRefund
  BY DEF FilesInit
<1>3. FilesAgree
  <2>1. \A f \in Files : FileSane(files[f], fileRefund[f])
    BY <1>2, ZeroIs DEF FileSane, AbsentFile, AbsentRefund, ActiveRefund
  <2>2. returns = Seen(files, fileRefund)
    <3>1. \A f \in Files : ~HoldsGoods(files[f], fileRefund[f]) /\ fileRefund[f].status \notin ActiveRefund
      BY <1>2 DEF HoldsGoods, AbsentFile, AbsentRefund, ActiveRefund
    <3> QED
      BY <3>1, Zenon DEF Init, Seen
  <2> QED
    BY <2>1, <2>2 DEF FilesAgree
<1>4. FileFlightAgrees
  BY DEF FilesInit, FileFlightAgrees, Owed
<1>5. MoneyAgrees
  <2>1. CentsOf(fileRefund, {"SUCCEEDED"}) = 0
    <3>1. {f \in Files : fileRefund[f].status \in {"SUCCEEDED"}} = {}
      BY <1>2 DEF AbsentRefund
    <3> QED
      BY <3>1, SumEmpty, OrderAssumption DEF CentsOf, AmountOf
  <2>2. RefundedAccounted
    BY <2>1 DEF RefundedAccounted, Confirmed, Init, AbsentRefund
  <2>3. \A f \in Files : ~Owed(f)
    BY DEF FilesInit, Owed
  <2>4. {f \in Files : Owed(f)} = {}
    BY <2>3
  <2>5. AmountOf({}) = 0
    BY SumEmpty, OrderAssumption DEF AmountOf
  <2> QED
    BY <2>2, <2>3, <2>4, <2>5, OrderAssumption DEF MoneyAgrees
<1>6. UnitsAgree
  <2>1. Claimed = {}
    BY <1>2 DEF Claimed, Claims, AbsentFile
  <2>2. \A p \in Products : SumOf({}, Requested(p), Basket[p]) = 0
    BY SumEmpty, OrderAssumption
  <2>3. \A p \in Products, f \in Files : Restocked(p)[f] = 0
    BY <1>2, ZeroIs DEF Restocked, AbsentFile
  <2>4. \A p \in Products : SumOf(Files, Restocked(p), Basket[p]) = 0
    BY <2>3, SumEmpty, OrderAssumption
  <2>5. UnitsAccounted
    BY <2>4, OrderAssumption DEF UnitsAccounted, Init, Restocked
  <2> QED
    BY <2>1, <2>2, <2>5, OrderAssumption DEF UnitsAgree
<1>7. Cancelled
  BY DEF Init, Cancelled
<1> QED
  BY <1>1, <1>3, <1>4, <1>5, <1>6, <1>7 DEF ReturnsInv

-----------------------------------------------------------------------------
(* The cancellation sees what the files gave back.                             *)

BackIsSeen ==
    /\ FilesTypeOK /\ UnitsAccounted /\ RefundedAccounted
    /\ order.status # "CANCELLED"
    /\ \A r \in Requests : refund[r].status # "SUCCEEDED"
    /\ payment.refunded # 0 \/ \E p \in Products : putBack[p] # 0
    => \E f \in Files : HoldsGoods(files[f], fileRefund[f])

LEMMA GivenBackIsSeen == BackIsSeen
<1> SUFFICES ASSUME FilesTypeOK, UnitsAccounted, RefundedAccounted,
                    order.status # "CANCELLED",
                    \A r \in Requests : refund[r].status # "SUCCEEDED",
                    payment.refunded # 0 \/ \E p \in Products : putBack[p] # 0
             PROVE  \E f \in Files : HoldsGoods(files[f], fileRefund[f])
  BY Zenon DEF BackIsSeen
<1>1. CASE payment.refunded # 0
  <2> DEFINE paid == {f \in Files : fileRefund[f].status \in {"SUCCEEDED"}}
             h == [f \in Files |-> files[f].amount]
  <2>1. Confirmed(fileRefund) = CentsOf(fileRefund, {"SUCCEEDED"}) + 0
    BY Zenon DEF Confirmed
  <2>2. SumOf(paid, h, Total) # 0
    BY <1>1, <2>1, CentsAre DEF RefundedAccounted, CentsOf, AmountOf
  <2>3. \E f \in paid : h[f] # 0
    BY <2>2, SumFrom, OrderAssumption
  <2> QED
    BY <2>3 DEF HoldsGoods
<1>2. CASE \E p \in Products : putBack[p] # 0
  <2>1. PICK p \in Products : putBack[p] # 0
    BY <1>2
  <2> DEFINE h == [f \in Files |-> files[f].restocked[p]]
  <2>2. SumOf(Files, h, Basket[p]) \in Nat /\ putBack[p] = SumOf(Files, h, Basket[p]) + 0
    BY SumIsNat, OrderAssumption DEF UnitsAccounted
  <2>3. SumOf(Files, h, Basket[p]) # 0 /\ Basket[p] \in Nat
    BY <2>1, <2>2, OrderAssumption
  <2> HIDE DEF h
  <2>4. PICK f \in Files : h[f] # 0
    BY <2>3, SumFrom
  <2>5. files[f].restocked # Zero
    BY <2>4, ZeroIs DEF h
  <2> QED
    BY <2>5 DEF HoldsGoods
<1> QED
  BY <1>1, <1>2

LEMMA GivenBackIsSeenNext == BackIsSeen'
BY GivenBackIsSeen, PTL

(* A step of a file that keeps the books and respects the cancellation is one that    *)
(* the cancellation expects.                                                          *)
LEMMA ExpectedStep ==
    ASSUME CancelInv, ReturnsInv, ReturnsInv',
           UNCHANGED <<requests, corrections, refund, inFlight, carrier, provider>>,
           order' \in {order, [order EXCEPT !.review = TRUE]},
           payment' \in PaymentRows,
           payment'.status \in {payment.status, "REFUND_PENDING", SettledStatus(payment'.refunded)},
           payment'.refunded >= payment.refunded,
           \A p \in Products : putBack'[p] \in Nat /\ putBack'[p] >= putBack[p],
           putBack' \in [Products -> Nat],
           payment'.refunded # payment.refunded => order.status = "OPEN" /\ returns.active,
           putBack' # putBack => order.status = "OPEN" /\ ~Barrier
    PROVE  ReturnsStep
<1>0. TypeOK /\ order.status \in {"OPEN", "CANCELLED"} /\ order'.status = order.status
  BY DEF CancelInv, TypeOK
<1>1. returns' = Seen(files', fileRefund')
  BY DEF ReturnsInv, FilesAgree
<1>2. returns' \in [disposition : BOOLEAN, active : BOOLEAN] /\ (returns'.active => returns'.disposition)
  BY <1>1, Zenon DEF Seen, HoldsGoods
<1>3. \E cents \in payment.refunded..Total :
        payment' \in [status : {payment.status, "REFUND_PENDING", SettledStatus(cents)}, refunded : {cents}]
  <2>1. payment'.refunded \in payment.refunded..Total
    BY <1>0, OrderAssumption DEF TypeOK, PaymentRows
  <2>2. payment' \in [status : {payment.status, "REFUND_PENDING", SettledStatus(payment'.refunded)},
                      refunded : {payment'.refunded}]
    BY DEF PaymentRows
  <2> QED
    BY <2>1, <2>2
<1>4. \A p \in Products : putBack'[p] \in putBack[p]..Basket[p]
  <2>1. \A p \in Products : putBack'[p] <= Basket[p]
    BY Zenon DEF ReturnsInv, UnitsAgree, UnitsAccounted
  <2> QED
    BY <1>0, <2>1, OrderAssumption DEF TypeOK
<1>5. putBack' \in [Products -> UNION {0..Basket[p] : p \in Products}]
  <2>1. \A p \in Products : putBack'[p] \in 0..Basket[p]
    BY <1>0, <1>4, OrderAssumption DEF TypeOK
  <2> QED
    BY <2>1
<1>6. order.status = "OPEN" => \A r \in Requests : refund'[r].status # "SUCCEEDED"
  BY DEF CancelInv, SaleAgrees, CancellationWhole
<1>7. ASSUME order.status = "OPEN", payment'.refunded # 0 \/ \E p \in Products : putBack'[p] # 0
      PROVE  returns'.disposition
  <2>1. \E f \in Files : HoldsGoods(files'[f], fileRefund'[f])
    BY <1>0, <1>6, <1>7, GivenBackIsSeenNext DEF BackIsSeen, ReturnsInv, MoneyAgrees, UnitsAgree
  <2> QED
    BY <1>1, <2>1, Zenon DEF Seen
<1>8. payment.refunded \in Nat /\ payment'.refunded \in Nat /\ putBack \in [Products -> Nat]
  BY <1>0 DEF TypeOK, PaymentRows
<1>9. payment'.refunded # payment.refunded \/ putBack' # putBack => returns'.disposition
  <2>1. CASE payment'.refunded # payment.refunded
    BY <1>7, <1>8, <2>1
  <2>2. CASE putBack' # putBack
    <3>1. PICK p \in Products : putBack'[p] # putBack[p]
      BY <1>8, <2>2
    <3>2. putBack'[p] # 0
      BY <1>8, <3>1
    <3> QED
      BY <1>7, <2>2, <3>2
  <2> QED
    BY <2>1, <2>2
<1>10. returns.disposition /\ order.status = "OPEN" /\ GaveBack => returns'.disposition
  BY <1>7, <1>8 DEF GaveBack
<1> QED
  BY <1>2, <1>3, <1>4, <1>5, <1>9, <1>10 DEF ReturnsStep

-----------------------------------------------------------------------------
(* The units of the files.                                                     *)

(* What was restocked was claimed. *)
RestockedIsClaimed ==
    FilesTypeOK /\ (\A f \in Files : FileSane(files[f], fileRefund[f])) =>
        \A p \in Products : SumOf(Files, Restocked(p), Basket[p]) <= SumOf(Claimed, Requested(p), Basket[p])

LEMMA RestockedClaimed == RestockedIsClaimed
<1> SUFFICES ASSUME FilesTypeOK, \A f \in Files : FileSane(files[f], fileRefund[f]), NEW p \in Products
             PROVE  SumOf(Files, Restocked(p), Basket[p]) <= SumOf(Claimed, Requested(p), Basket[p])
  BY DEF RestockedIsClaimed
<1> DEFINE others == Files \ Claimed
<1>0. Basket[p] \in Nat /\ Claimed \in SUBSET Files /\ others \in SUBSET Files
      /\ Claimed \cap others = {} /\ Claimed \cup others = Files
  BY OrderAssumption DEF Claimed
<1>1. \A f \in others : Restocked(p)[f] = 0
  BY ZeroIs DEF Claimed, Claims, Restocked
<1>2. \A f \in Claimed : /\ Restocked(p)[f] \in Nat /\ Requested(p)[f] \in Nat
                         /\ Restocked(p)[f] <= Requested(p)[f]
  <2> TAKE f \in Claimed
  <2>1. f \in Files
    BY <1>0
  <2>2. files[f] \in FileRows /\ FileSane(files[f], fileRefund[f])
    BY <2>1, FileIs
  <2>3. /\ files[f].restocked[p] \in Nat /\ files[f].requested[p] \in Nat /\ files[f].authorized[p] \in Nat
        /\ files[f].received[p] \in Nat /\ files[f].restockable[p] \in Nat
    BY <2>2, QuantityIs DEF FileRows
  <2>4. files[f].restocked[p] = 0 \/ files[f].restocked[p] = files[f].restockable[p]
    BY <2>2, ZeroIs DEF FileSane
  <2>5. /\ files[f].restockable[p] <= files[f].received[p] /\ files[f].received[p] <= files[f].authorized[p]
        /\ files[f].authorized[p] <= files[f].requested[p]
    BY <2>2 DEF FileSane
  <2>6. files[f].restocked[p] <= files[f].requested[p]
    BY <2>3, <2>4, <2>5
  <2> QED
    BY <2>1, <2>3, <2>6 DEF Restocked, Requested
<1> HIDE DEF others
<1>3. SumOf(Files, Restocked(p), Basket[p]) =
        SumOf(Claimed, Restocked(p), Basket[p]) + SumOf(others, Restocked(p), Basket[p])
  BY <1>0, SumSplits
<1>4. SumOf(others, Restocked(p), Basket[p]) = 0
  BY <1>0, <1>1, SumEmpty
<1>5. SumOf(Claimed, Restocked(p), Basket[p]) <= SumOf(Claimed, Requested(p), Basket[p])
  BY <1>0, <1>2, SumGrows
<1>6. SumOf(Claimed, Restocked(p), Basket[p]) \in Nat
  BY <1>0, SumIsNat
<1> QED
  BY <1>3, <1>4, <1>5, <1>6

LEMMA RestockedClaimedNext == RestockedIsClaimed'
BY RestockedClaimed, PTL

(* A file moves on, is restocked, or both; its attempt and its amount stay. *)
FileMoves(f) ==
    /\ f \in Files
    /\ files' \in [Files -> FileRows]
    /\ \A g \in Files \ {f} : files'[g] = files[g]
    /\ files'[f].amount = files[f].amount
    /\ FileSane(files'[f], fileRefund[f])
    /\ returns' = Seen(files', fileRefund)
    /\ UNCHANGED <<order, OfOrder, payment, fileRefund, fileFlight, fileProvider>>
    /\ \A p \in Products : SumOf(Claimed', Requested(p)', Basket[p]) <= Basket[p]
    /\ \/ files'[f].restocked = files[f].restocked /\ UNCHANGED putBack
       \/ /\ files[f].restocked = Zero /\ order.status = "OPEN" /\ ~Barrier
          /\ putBack' = [p \in Products |-> putBack[p] + files'[f].restocked[p]]

LEMMA AmountsSame ==
    ASSUME \A f \in Files : files'[f].amount = files[f].amount
    PROVE  \A fs \in SUBSET Files : AmountOf(fs)' = AmountOf(fs)
<1> TAKE fs \in SUBSET Files
<1>1. \A f \in fs : [g \in Files |-> files[g].amount][f] = [g \in Files |-> files'[g].amount][f]
  OBVIOUS
<1> QED
  BY <1>1, SumSame DEF AmountOf

LEMMA MovesKeep ==
    ASSUME CancelInv, ReturnsInv, NEW f, FileMoves(f)
    PROVE  ReturnsInv' /\ ReturnsStep
<1> USE DEF ReturnsInv
<1>0. f \in Files /\ files' \in [Files -> FileRows]
      /\ UNCHANGED <<order, requests, corrections, refund, inFlight, carrier, provider, payment, fileRefund>>
      /\ UNCHANGED <<fileCalls, fileAnswers, fileDeferred, fileWaiting, fileReceipts, fileGateway, fileSent>>
  BY DEF FileMoves, OfOrder, fileFlight, fileProvider
<1>1. FilesTypeOK'
  BY <1>0 DEF FilesTypeOK
<1>2. FilesAgree'
  BY <1>0 DEF FileMoves, FilesAgree
<1>3. FileFlightAgrees'
  BY <1>0 DEF FileFlightAgrees, FileAsked, Owed
<1>4. \A g \in Files : files'[g].amount = files[g].amount
  BY <1>0 DEF FileMoves
<1>5. \A g \in Files : Owed(g)' = Owed(g)
  BY <1>0 DEF Owed
<1>6. MoneyAgrees'
  <2>1. CentsOf(fileRefund, {"SUCCEEDED"})' = CentsOf(fileRefund, {"SUCCEEDED"})
    BY <1>0, <1>4, AmountsSame DEF CentsOf
  <2>2. RefundedAccounted'
    BY <1>0, <2>1 DEF RefundedAccounted, Confirmed, MoneyAgrees
  <2>3. {g \in Files : Owed(g)}' = {g \in Files : Owed(g)}
    BY <1>5
  <2>4. AmountOf({g \in Files : Owed(g)})' <= Total
    BY <1>4, <2>3, AmountsSame DEF MoneyAgrees
  <2>5. \A r \in Requests : RequestOwed(r)' = RequestOwed(r)
    BY <1>0 DEF RequestOwed, inFlight, provider
  <2> QED
    BY <1>5, <2>2, <2>4, <2>5 DEF MoneyAgrees
<1>7. \A p \in Products : SumOf(Files, Restocked(p)', Basket[p]) <= Basket[p]
  <2> TAKE p \in Products
  <2>1. SumOf(Files, Restocked(p)', Basket[p]) <= SumOf(Claimed', Requested(p)', Basket[p])
    BY <1>1, <1>2, RestockedClaimedNext DEF RestockedIsClaimed, FilesAgree
  <2>2. SumOf(Claimed', Requested(p)', Basket[p]) <= Basket[p]
    BY DEF FileMoves
  <2>3. SumOf(Files, Restocked(p)', Basket[p]) \in Nat /\ SumOf(Claimed', Requested(p)', Basket[p]) \in Nat
        /\ Basket[p] \in Nat
    BY SumIsNat, OrderAssumption DEF Claimed
  <2> QED
    BY <2>1, <2>2, <2>3
<1>8. ASSUME NEW p \in Products
      PROVE  /\ Restocked(p)'[f] = files'[f].restocked[p] /\ Restocked(p)[f] = files[f].restocked[p]
             /\ \A g \in Files \ {f} : Restocked(p)[g] = Restocked(p)'[g]
             /\ files[f].restocked[p] \in 0..Basket[p] /\ files'[f].restocked[p] \in 0..Basket[p]
             /\ Basket[p] \in Nat /\ putBack[p] \in Nat
             /\ SumOf(Files, Restocked(p), Basket[p]) \in Nat
  <2>1. files'[f].restocked \in Quantities
    BY <1>0 DEF FileRows
  <2>2. files[f].restocked[p] \in 0..Basket[p] /\ files'[f].restocked[p] \in 0..Basket[p]
    BY <1>0, <2>1, FileIs, QuantityIs
  <2> QED
    BY <1>0, <2>2, SumIsNat, OrderAssumption DEF Restocked, FileMoves, CancelInv, TypeOK
<1>9. ASSUME NEW p \in Products
      PROVE  SumOf(Files, Restocked(p)', Basket[p]) =
                SumOf(Files, Restocked(p), Basket[p]) - files[f].restocked[p] + files'[f].restocked[p]
  BY <1>0, <1>8, SumChanges
<1>10. /\ UnitsAccounted'
       /\ putBack' \in [Products -> Nat]
       /\ \A p \in Products : putBack'[p] >= putBack[p]
  <2>0. putBack \in [Products -> Nat]
    BY DEF CancelInv, TypeOK
  <2>1. \A p \in Products : putBack[p] = SumOf(Files, Restocked(p), Basket[p])
                                        + (IF order.status = "CANCELLED" THEN Basket[p] ELSE 0)
                           /\ putBack[p] <= Basket[p]
    BY DEF UnitsAgree, UnitsAccounted, Restocked
  <2>2. CASE files'[f].restocked = files[f].restocked /\ UNCHANGED putBack
    <3>1. \A p \in Products : SumOf(Files, Restocked(p)', Basket[p]) = SumOf(Files, Restocked(p), Basket[p])
      BY <1>8, <1>9, <2>2
    <3>2. \A p \in Products : putBack'[p] = SumOf(Files, Restocked(p)', Basket[p])
                                           + (IF order'.status = "CANCELLED" THEN Basket[p] ELSE 0)
                            /\ putBack'[p] <= Basket[p]
      BY <1>0, <2>1, <2>2, <3>1
    <3>3. UnitsAccounted'
      BY <3>2 DEF UnitsAccounted, Restocked
    <3>4. \A p \in Products : putBack'[p] >= putBack[p]
      BY <2>0, <2>2
    <3> QED
      BY <2>0, <2>2, <3>3, <3>4
  <2>3. CASE /\ files[f].restocked = Zero /\ order.status = "OPEN"
             /\ putBack' = [p \in Products |-> putBack[p] + files'[f].restocked[p]]
    <3>1. \A p \in Products : putBack[p] = SumOf(Files, Restocked(p), Basket[p]) + 0
      BY <2>1, <2>3
    <3>2. \A p \in Products : files[f].restocked[p] = 0
      BY <2>3, ZeroIs
    <3>3. \A p \in Products : /\ putBack'[p] = SumOf(Files, Restocked(p)', Basket[p])
                             /\ putBack'[p] \in Nat /\ putBack'[p] >= putBack[p]
      <4> TAKE p \in Products
      <4>1. putBack'[p] = putBack[p] + files'[f].restocked[p]
        BY <2>3
      <4>2. putBack[p] = SumOf(Files, Restocked(p), Basket[p])
        BY <1>8, <3>1
      <4> QED
        BY <1>8, <1>9, <3>2, <4>1, <4>2
    <3>4. \A p \in Products : putBack'[p] = SumOf(Files, Restocked(p)', Basket[p]) + 0 /\ putBack'[p] <= Basket[p]
      BY <1>7, <3>3
    <3>5. UnitsAccounted'
      BY <1>0, <2>3, <3>4 DEF UnitsAccounted, Restocked
    <3> QED
      BY <2>3, <3>3, <3>5
  <2> QED
    BY <2>2, <2>3 DEF FileMoves
<1>11. UnitsAgree'
  BY <1>10 DEF UnitsAgree, FileMoves
<1>12. Cancelled'
  <2>1. order.status = "CANCELLED" => files'[f].restocked = files[f].restocked
    BY DEF FileMoves
  <2>2. \A g \in Files : order.status = "CANCELLED" => files'[g].restocked = files[g].restocked
    BY <2>1 DEF FileMoves
  <2> QED
    BY <1>0, <1>5, <2>2 DEF Cancelled
<1>13. ReturnsInv'
  BY <1>1, <1>2, <1>3, <1>6, <1>11, <1>12
<1>14. ReturnsStep
  <2>1. payment \in PaymentRows
    BY DEF CancelInv, TypeOK, PaymentRows
  <2>2. putBack' # putBack => order.status = "OPEN" /\ ~Barrier
    BY DEF FileMoves
  <2>3. payment.refunded \in Nat
    BY <2>1 DEF PaymentRows
  <2>4. \A p \in Products : putBack'[p] \in Nat
    BY <1>10
  <2> HIDE DEF ReturnsInv
  <2> QED
    BY <1>0, <1>10, <1>13, <2>1, <2>2, <2>3, <2>4, ExpectedStep
<1> QED
  BY <1>13, <1>14

-----------------------------------------------------------------------------
(* The file, from its request to its inspection and its restocking.            *)

LEMMA PutMoves ==
    ASSUME ReturnsInv, NEW f \in Files, NEW row \in FileRows, Put(f, row), UNCHANGED putBack,
           row.amount = files[f].amount, row.restocked = files[f].restocked,
           FileSane(row, fileRefund[f]),
           \/ row.requested = files[f].requested /\ (Claims(row) => Claims(files[f]))
           \/ \A p \in Products : SumOf(Claimed', Requested(p)', Basket[p]) <= Basket[p]
    PROVE  FileMoves(f)
<1>1. files \in [Files -> FileRows]
  BY DEF ReturnsInv, FilesTypeOK
<1>2. files' = [files EXCEPT ![f] = row]
  BY DEF Put
<1>3. files' \in [Files -> FileRows] /\ files'[f] = row /\ \A g \in Files \ {f} : files'[g] = files[g]
  BY <1>1, <1>2
<1>4. ASSUME row.requested = files[f].requested, Claims(row) => Claims(files[f]), NEW p \in Products
      PROVE  SumOf(Claimed', Requested(p)', Basket[p]) <= Basket[p]
  <2>1. Claimed' \subseteq Claimed /\ Claimed \in SUBSET Files /\ Claimed' \in SUBSET Files
    BY <1>3, <1>4 DEF Claimed, Claims
  <2>2. \A g \in Files : files'[g].requested = files[g].requested
    BY <1>3, <1>4
  <2>3. \A g \in Claimed' : /\ Requested(p)'[g] = Requested(p)[g] /\ Requested(p)[g] \in Nat
    <3>1. \A g \in Files : files[g].requested[p] \in 0..Basket[p]
      BY FileIs DEF ReturnsInv
    <3> QED
      BY <2>1, <2>2, <3>1, OrderAssumption DEF Requested
  <2>4. SumOf(Claimed', Requested(p)', Basket[p]) <= SumOf(Claimed, Requested(p), Basket[p])
    BY <2>1, <2>3, SumGrows, OrderAssumption
  <2>5. SumOf(Claimed, Requested(p), Basket[p]) <= Basket[p]
    BY DEF ReturnsInv, UnitsAgree
  <2>6. SumOf(Claimed', Requested(p)', Basket[p]) \in Nat /\ SumOf(Claimed, Requested(p), Basket[p]) \in Nat
        /\ Basket[p] \in Nat
    BY <2>1, SumIsNat, OrderAssumption
  <2> QED
    BY <2>4, <2>5, <2>6
<1>5. \A p \in Products : SumOf(Claimed', Requested(p)', Basket[p]) <= Basket[p]
  BY <1>4
<1> QED
  BY <1>3, <1>5 DEF FileMoves, Put

(* What a transition says of the status it leaves. *)
LEMMA Leaves ==
    ASSUME NEW f, files[f].status \in FileStatuses
    PROVE  /\ May(f, "APPROVED") \/ May(f, "AWAITING_RETURN") => files[f].status \in {"REQUESTED", "UNDER_REVIEW"}
           /\ May(f, "RETURN_RECEIVED") => files[f].status = "AWAITING_RETURN"
           /\ May(f, "INSPECTED") => files[f].status = "RETURN_RECEIVED"
           /\ May(f, "CLOSED") => files[f].status \in {"APPROVED", "REJECTED", "INSPECTED", "REFUNDED"}
           /\ May(f, "UNDER_REVIEW") \/ May(f, "CANCELLED") => files[f].status = "REQUESTED"
           /\ May(f, "REJECTED") => files[f].status \in {"REQUESTED", "UNDER_REVIEW"}
BY DEF May, Transitions, FileStatuses

(* A file that was neither refunded nor closed has no attempt. *)
LEMMA NoAttempt ==
    ASSUME ReturnsInv, NEW f \in Files, files[f].status \notin {"REFUND_PENDING", "REFUNDED", "CLOSED"}
    PROVE  fileRefund[f].status = "NONE"
BY FileIs DEF ReturnsInv, FilesAgree, FileSane, RefundRows, RefundStatuses

LEMMA CreateMoves ==
    ASSUME ReturnsInv, NEW f \in Files, NEW q \in Quantities, CreateFile(f, q)
    PROVE  FileMoves(f)
<1> DEFINE row == [files[f] EXCEPT !.status = "REQUESTED", !.requested = q]
<1>1. files[f] \in FileRows /\ FileSane(files[f], fileRefund[f]) /\ files[f].status = "NONE"
  BY FileIs DEF ReturnsInv, FilesAgree, CreateFile
<1>2. row \in FileRows
  BY <1>1 DEF FileRows, FileStatuses
<1>3. /\ row.status = "REQUESTED" /\ row.requested = q /\ row.authorized = files[f].authorized
      /\ row.received = files[f].received /\ row.restockable = files[f].restockable
      /\ row.restocked = files[f].restocked /\ row.amount = files[f].amount
  BY <1>1 DEF FileRows
<1>4. Put(f, row) /\ UNCHANGED putBack
  BY DEF CreateFile
<1> HIDE DEF row
<1>5. fileRefund[f].status = "NONE"
  BY <1>1, NoAttempt
<1>6. files[f].restocked = Zero /\ files[f].restockable = Zero /\ files[f].received = Zero
  BY <1>1 DEF FileSane
<1>7. \A p \in Products : files[f].authorized[p] = 0 /\ q[p] \in 0..Basket[p] /\ Basket[p] \in Nat
  <2> TAKE p \in Products
  <2>1. files[f].authorized[p] <= 0
    BY <1>1, ZeroIs DEF FileSane
  <2>2. files[f].authorized[p] \in Nat
    BY <1>1, QuantityIs DEF FileRows
  <2> QED
    BY <2>1, <2>2, QuantityIs
<1>8. FileSane(row, fileRefund[f])
  BY <1>3, <1>5, <1>6, <1>7, ZeroIs DEF FileSane, ActiveRefund
<1>9. files \in [Files -> FileRows] /\ files' = [files EXCEPT ![f] = row]
  BY <1>4 DEF Put, ReturnsInv, FilesTypeOK
<1>10. f \notin Claimed /\ Claimed' = Claimed \cup {f} /\ Claimed \in SUBSET Files
  BY <1>1, <1>3, <1>6, <1>9 DEF Claimed, Claims
<1>11. ASSUME NEW p \in Products
       PROVE  SumOf(Claimed', Requested(p)', Basket[p]) <= Basket[p]
  <2> DEFINE used == {g \in Files : files[g].status \notin {"NONE", "REJECTED", "CANCELLED"}}
  <2>1. Requested(p)'[f] = q[p] /\ \A g \in Claimed : Requested(p)'[g] = Requested(p)[g]
    BY <1>3, <1>9, <1>10 DEF Requested
  <2>2. SumOf(Claimed', Requested(p)', Basket[p]) = SumOf(Claimed, Requested(p)', Basket[p]) + q[p]
    BY <1>7, <1>10, <2>1, SumWith
  <2>3. SumOf(Claimed, Requested(p)', Basket[p]) = SumOf(Claimed, Requested(p), Basket[p])
    BY <1>10, <2>1, SumSame
  <2>4. SumOf(Claimed, Requested(p), Basket[p]) \in Nat /\ SumOf(Claimed, Requested(p), Basket[p]) <= Basket[p]
    BY <1>7, <1>10, SumIsNat DEF ReturnsInv, UnitsAgree
  <2>5. SumOf(Claimed, Requested(p), Basket[p]) <= Used(p) /\ Used(p) \in Nat
    <3>1. Claimed \subseteq used /\ used \in SUBSET Files
      <4>1. \A g \in Files : files[g].restocked # Zero =>
                files[g].status \in {"INSPECTED", "REFUND_PENDING", "REFUNDED", "CLOSED"}
        BY DEF ReturnsInv, FilesAgree, FileSane
      <4> QED
        BY <4>1 DEF Claimed, Claims
    <3>2. \A g \in Claimed : Requested(p)[g] \in Nat
      <4>1. \A g \in Files : files[g].requested[p] \in 0..Basket[p]
        BY FileIs DEF ReturnsInv
      <4> QED
        BY <1>7, <1>10, <4>1 DEF Requested
    <3>3. Used(p) = SumOf(used, Requested(p), Basket[p])
      BY DEF Used, Requested
    <3> HIDE DEF used
    <3> QED
      BY <1>7, <1>10, <3>1, <3>2, <3>3, SumGrows, SumIsNat
  <2>6. q[p] > 0 => Used(p) + q[p] <= Basket[p]
    BY DEF CreateFile
  <2> QED
    BY <1>7, <2>2, <2>3, <2>4, <2>5, <2>6
<1> QED
  BY <1>2, <1>3, <1>4, <1>8, <1>11, PutMoves

LEMMA MoveFileMoves ==
    ASSUME ReturnsInv, NEW f \in Files, NEW to, MoveFile(f, to)
    PROVE  FileMoves(f)
<1> DEFINE row == [files[f] EXCEPT !.status = to]
<1>1. files[f] \in FileRows /\ FileSane(files[f], fileRefund[f]) /\ files[f].status \in FileStatuses
  BY FileIs DEF ReturnsInv, FilesAgree, FileRows
<1>2. to \in {"CANCELLED", "UNDER_REVIEW", "REJECTED", "CLOSED"} /\ May(f, to) /\ Put(f, row) /\ UNCHANGED putBack
  BY DEF MoveFile
<1>3. row \in FileRows
  BY <1>1, <1>2 DEF FileRows, FileStatuses
<1>4. /\ row.status = to /\ row.requested = files[f].requested /\ row.authorized = files[f].authorized
      /\ row.received = files[f].received /\ row.restockable = files[f].restockable
      /\ row.restocked = files[f].restocked /\ row.amount = files[f].amount
  BY <1>1 DEF FileRows
<1> HIDE DEF row
<1>5. \/ to \in {"CANCELLED", "UNDER_REVIEW", "REJECTED"} /\ files[f].status \in {"REQUESTED", "UNDER_REVIEW"}
      \/ to = "CLOSED" /\ files[f].status \in {"APPROVED", "REJECTED", "INSPECTED", "REFUNDED"}
  BY <1>1, <1>2, Leaves
<1>6. FileSane(row, fileRefund[f])
  <2>1. CASE to \in {"CANCELLED", "UNDER_REVIEW", "REJECTED"} /\ files[f].status \in {"REQUESTED", "UNDER_REVIEW"}
    <3>1. fileRefund[f].status = "NONE"
      BY <2>1, NoAttempt
    <3> QED
      BY <1>1, <1>4, <2>1, <3>1 DEF FileSane, ActiveRefund
  <2>2. CASE to = "CLOSED" /\ files[f].status \in {"APPROVED", "REJECTED", "INSPECTED", "REFUNDED"}
    BY <1>1, <1>4, <2>2 DEF FileSane
  <2> QED
    BY <1>5, <2>1, <2>2
<1>7. Claims(row) => Claims(files[f])
  BY <1>4, <1>5 DEF Claims
<1> QED
  BY <1>2, <1>3, <1>4, <1>6, <1>7, PutMoves

LEMMA ApproveMoves ==
    ASSUME ReturnsInv, NEW f \in Files, NEW q \in UpTo(files[f].requested), NEW physical \in BOOLEAN,
           ApproveFile(f, q, physical)
    PROVE  FileMoves(f)
<1> DEFINE to == IF physical THEN "AWAITING_RETURN" ELSE "APPROVED"
           row == [files[f] EXCEPT !.status = to, !.authorized = q, !.physical = physical,
                                   !.refundable = IF physical THEN Zero ELSE q]
<1>1. files[f] \in FileRows /\ FileSane(files[f], fileRefund[f]) /\ files[f].status \in FileStatuses
  BY FileIs DEF ReturnsInv, FilesAgree, FileRows
<1>2. May(f, to) /\ Put(f, row) /\ UNCHANGED putBack
  BY DEF ApproveFile
<1>3. q \in Quantities /\ (\A p \in Products : q[p] <= files[f].requested[p]) /\ Zero \in Quantities
  BY ZeroIs DEF UpTo
<1>4. to \in {"AWAITING_RETURN", "APPROVED"}
  OBVIOUS
<1>5. row \in FileRows
  BY <1>1, <1>3, <1>4 DEF FileRows, FileStatuses
<1>6. /\ row.status = to /\ row.requested = files[f].requested /\ row.authorized = q
      /\ row.received = files[f].received /\ row.restockable = files[f].restockable
      /\ row.restocked = files[f].restocked /\ row.amount = files[f].amount
  BY <1>1 DEF FileRows
<1> HIDE DEF row, to
<1>7. files[f].status \in {"REQUESTED", "UNDER_REVIEW"}
  BY <1>1, <1>2, <1>4, Leaves
<1>8. fileRefund[f].status = "NONE" /\ files[f].received = Zero
  BY <1>1, <1>7, NoAttempt DEF FileSane
<1>9. FileSane(row, fileRefund[f])
  <2>1. \A p \in Products : files[f].received[p] <= q[p]
    BY <1>3, <1>8, ZeroIs, QuantityIs
  <2> QED
    BY <1>1, <1>3, <1>4, <1>6, <1>7, <1>8, <2>1 DEF FileSane, ActiveRefund
<1>10. Claims(files[f])
  BY <1>7 DEF Claims
<1> QED
  BY <1>2, <1>5, <1>6, <1>9, <1>10, PutMoves

LEMMA ReceiveMoves ==
    ASSUME ReturnsInv, NEW f \in Files, NEW q \in UpTo(files[f].authorized), ReceiveFile(f, q)
    PROVE  FileMoves(f)
<1> DEFINE row == [files[f] EXCEPT !.status = "RETURN_RECEIVED", !.received = q]
<1>1. files[f] \in FileRows /\ FileSane(files[f], fileRefund[f]) /\ files[f].status \in FileStatuses
  BY FileIs DEF ReturnsInv, FilesAgree, FileRows
<1>2. May(f, "RETURN_RECEIVED") /\ Put(f, row) /\ UNCHANGED putBack
  BY DEF ReceiveFile
<1>3. q \in Quantities /\ (\A p \in Products : q[p] <= files[f].authorized[p])
  BY DEF UpTo
<1>4. row \in FileRows
  BY <1>1, <1>3 DEF FileRows, FileStatuses
<1>5. /\ row.status = "RETURN_RECEIVED" /\ row.requested = files[f].requested
      /\ row.authorized = files[f].authorized
      /\ row.received = q /\ row.restockable = files[f].restockable
      /\ row.restocked = files[f].restocked /\ row.amount = files[f].amount
  BY <1>1 DEF FileRows
<1> HIDE DEF row
<1>6. files[f].status = "AWAITING_RETURN"
  BY <1>1, <1>2, Leaves
<1>7. fileRefund[f].status = "NONE" /\ files[f].restockable = Zero
  BY <1>1, <1>6, NoAttempt DEF FileSane
<1>8. FileSane(row, fileRefund[f])
  <2>1. \A p \in Products : files[f].restockable[p] <= q[p]
    BY <1>3, <1>7, ZeroIs, QuantityIs
  <2> QED
    BY <1>1, <1>3, <1>5, <1>6, <1>7, <2>1 DEF FileSane, ActiveRefund
<1>9. Claims(files[f])
  BY <1>6 DEF Claims
<1> QED
  BY <1>2, <1>4, <1>5, <1>8, <1>9, PutMoves

LEMMA InspectMoves ==
    ASSUME ReturnsInv, NEW f \in Files, NEW q \in UpTo(files[f].received), NEW s \in UpTo(files[f].received),
           InspectFile(f, q, s)
    PROVE  FileMoves(f)
<1> DEFINE row == [files[f] EXCEPT !.status = "INSPECTED", !.refundable = q, !.restockable = s]
<1>1. files[f] \in FileRows /\ FileSane(files[f], fileRefund[f]) /\ files[f].status \in FileStatuses
  BY FileIs DEF ReturnsInv, FilesAgree, FileRows
<1>2. May(f, "INSPECTED") /\ Put(f, row) /\ UNCHANGED putBack
  BY DEF InspectFile
<1>3. q \in Quantities /\ s \in Quantities /\ (\A p \in Products : s[p] <= files[f].received[p])
  BY DEF UpTo
<1>4. row \in FileRows
  BY <1>1, <1>3 DEF FileRows, FileStatuses
<1>5. /\ row.status = "INSPECTED" /\ row.requested = files[f].requested
      /\ row.authorized = files[f].authorized
      /\ row.received = files[f].received /\ row.restockable = s
      /\ row.restocked = files[f].restocked /\ row.amount = files[f].amount
  BY <1>1 DEF FileRows
<1> HIDE DEF row
<1>6. files[f].status = "RETURN_RECEIVED"
  BY <1>1, <1>2, Leaves
<1>7. fileRefund[f].status = "NONE" /\ files[f].restocked = Zero
  BY <1>1, <1>6, NoAttempt DEF FileSane
<1>8. FileSane(row, fileRefund[f])
  BY <1>1, <1>3, <1>5, <1>6, <1>7 DEF FileSane, ActiveRefund
<1>9. Claims(files[f])
  BY <1>6 DEF Claims
<1> QED
  BY <1>2, <1>4, <1>5, <1>8, <1>9, PutMoves

(* A file restocks once: nothing of it was put back before. *)
LEMMA RestockMoves ==
    ASSUME CancelInv, ReturnsInv, NEW f \in Files, Restock(f)
    PROVE  FileMoves(f)
<1> DEFINE row == [files[f] EXCEPT !.restocked = files[f].restockable]
<1>1. files[f] \in FileRows /\ FileSane(files[f], fileRefund[f]) /\ files \in [Files -> FileRows]
  BY FileIs DEF ReturnsInv, FilesAgree, FilesTypeOK
<1>2. /\ files[f].status \in {"INSPECTED", "REFUND_PENDING", "REFUNDED"}
      /\ files[f].restocked # files[f].restockable
      /\ order.status # "CANCELLED" /\ ~Barrier /\ Put(f, row)
      /\ putBack' = [p \in Products |-> putBack[p] + files[f].restockable[p] - files[f].restocked[p]]
  BY DEF Restock
<1>3. row \in FileRows
  BY <1>1 DEF FileRows
<1>4. /\ row.status = files[f].status /\ row.requested = files[f].requested
      /\ row.authorized = files[f].authorized
      /\ row.received = files[f].received /\ row.restockable = files[f].restockable
      /\ row.restocked = files[f].restockable /\ row.amount = files[f].amount
  BY <1>1 DEF FileRows
<1> HIDE DEF row
<1>5. files' = [files EXCEPT ![f] = row] /\ files' \in [Files -> FileRows] /\ files'[f] = row
      /\ \A g \in Files \ {f} : files'[g] = files[g]
  BY <1>1, <1>2, <1>3 DEF Put
<1>6. files[f].restocked = Zero
  BY <1>1, <1>2 DEF FileSane
<1>7. FileSane(row, fileRefund[f])
  BY <1>1, <1>2, <1>4 DEF FileSane
<1>8. ASSUME NEW p \in Products
      PROVE  SumOf(Claimed', Requested(p)', Basket[p]) <= Basket[p]
  <2>1. Claimed' = Claimed
    BY <1>2, <1>4, <1>5 DEF Claimed, Claims
  <2>2. Requested(p)' = Requested(p)
    <3>1. \A g \in Files : files'[g].requested = files[g].requested
      BY <1>4, <1>5
    <3> QED
      BY <3>1 DEF Requested
  <2> QED
    BY <2>1, <2>2 DEF ReturnsInv, UnitsAgree
<1>9. putBack' = [p \in Products |-> putBack[p] + files'[f].restocked[p]]
  <2>1. \A p \in Products : putBack[p] + files[f].restockable[p] - files[f].restocked[p]
                           = putBack[p] + files'[f].restocked[p]
    BY <1>4, <1>5, <1>6, ZeroIs, FileIs, OrderAssumption DEF ReturnsInv, CancelInv, TypeOK
  <2> QED
    BY <1>2, <2>1
<1>10. order.status = "OPEN"
  BY <1>2 DEF CancelInv, TypeOK
<1> QED
  BY <1>2, <1>4, <1>5, <1>6, <1>7, <1>8, <1>9, <1>10 DEF FileMoves, Put

-----------------------------------------------------------------------------
(* The provider and the servers that wait for it.                              *)

LEMMA FileReadsAreEvidence ==
    ASSUME NEW f \in Files, NEW status \in {"PENDING", "SUCCEEDED", "FAILED"}, NEW n \in Reads(f, status)
    PROVE  n \in FileEvidence /\ n.request = f /\ n.status = status
BY OrderAssumption DEF Reads, FileEvidence

LEMMA FileVerdicts ==
    ASSUME NEW f \in Files
    PROVE  /\ Unclear(f) \in FileAnswers /\ Unclear(f).request = f /\ Unclear(f).status = "AMBIGUOUS"
           /\ Refused(f) \in FileAnswers /\ Refused(f).request = f /\ Refused(f).status = "REFUSED"
BY DEF Unclear, Refused, FileAnswers

(* Nothing is written, and no file is owed that was not. *)
LEMMA FlightKeeps ==
    ASSUME ReturnsInv, UNCHANGED <<vars, fileRows>>, FilesTypeOK', FileFlightAgrees',
           \A f \in Files : Owed(f)' => Owed(f)
    PROVE  ReturnsInv'
<1> USE DEF ReturnsInv
<1>1. UNCHANGED <<order, refund, payment, putBack, returns, calls, gateway, files, fileRefund>>
  BY DEF vars, rows, inFlight, provider, fileRows
<1>2. FilesAgree'
  BY <1>1 DEF FilesAgree
<1>3. MoneyAgrees'
  <2>1. RefundedAccounted'
    BY <1>1 DEF MoneyAgrees, RefundedAccounted, Confirmed, CentsOf, AmountOf
  <2>2. {f \in Files : Owed(f)'} \subseteq {f \in Files : Owed(f)}
    OBVIOUS
  <2>3. AmountOf({f \in Files : Owed(f)'}) <= AmountOf({f \in Files : Owed(f)})
    <3>1. \A f \in Files : [g \in Files |-> files[g].amount][f] \in Nat
      BY FileIs
    <3> QED
      BY <2>2, <3>1, SumGrows, OrderAssumption DEF AmountOf
  <2>4. AmountOf({f \in Files : Owed(f)})' = AmountOf({f \in Files : Owed(f)'})
    BY <1>1 DEF AmountOf
  <2>5. AmountOf({f \in Files : Owed(f)'}) \in Nat /\ AmountOf({f \in Files : Owed(f)}) \in Nat
    BY SumIsNat, OrderAssumption DEF AmountOf
  <2>6. AmountOf({f \in Files : Owed(f)})' <= Total
    BY <2>3, <2>4, <2>5, OrderAssumption DEF MoneyAgrees
  <2>7. \A r \in Requests, f \in Files : ~(RequestOwed(r)' /\ Owed(f)')
    BY <1>1 DEF MoneyAgrees, RequestOwed
  <2> QED
    BY <2>1, <2>6, <2>7 DEF MoneyAgrees
<1>4. UnitsAgree'
  BY <1>1 DEF UnitsAgree, UnitsAccounted, Claimed, Claims, Requested
<1>5. Cancelled'
  BY <1>1 DEF Cancelled
<1> QED
  BY <1>2, <1>3, <1>4, <1>5

LEMMA AskKeeps ==
    ASSUME ReturnsInv, NEW f \in Files, AskFileRefund(f)
    PROVE  ReturnsInv' /\ UNCHANGED vars
<1>0. UNCHANGED vars
  BY DEF AskFileRefund, vars
<1>1. /\ fileGateway[f] = "NONE" /\ f \in fileCalls /\ fileRefund[f].status # "NONE"
      /\ fileCalls' = fileCalls \ {f}
      /\ UNCHANGED <<files, fileRefund, fileDeferred, fileWaiting, fileReceipts>>
  <2>1. f \in fileCalls
    BY DEF AskFileRefund
  <2>2. fileGateway[f] = "NONE" /\ fileRefund[f].status # "NONE"
    BY <2>1 DEF ReturnsInv, FileFlightAgrees, Owed, ActiveRefund
  <2> QED
    BY <2>1, <2>2 DEF AskFileRefund, fileRows
<1>2. PICK status \in {"NONE", "PENDING", "SUCCEEDED", "FAILED"} :
        /\ fileGateway' = [fileGateway EXCEPT ![f] = status]
        /\ fileSent' \subseteq FileEvidence /\ fileAnswers' \subseteq FileAnswers
        /\ \A e \in (fileAnswers' \cup fileSent') \ (fileAnswers \cup fileSent) :
            /\ e.request = f
            /\ e.status \in {"SUCCEEDED", "FAILED"} => status = e.status
            /\ e.status = "REFUSED" => status = "NONE"
  <2>0. fileSent \subseteq FileEvidence /\ fileAnswers \subseteq FileAnswers
    BY DEF ReturnsInv, FilesTypeOK
  <2>1. ASSUME NEW status \in {"PENDING", "SUCCEEDED", "FAILED"},
               fileGateway' = [fileGateway EXCEPT ![f] = status],
               NEW n \in Reads(f, status), fileSent' = fileSent \cup {n},
               NEW x \in Reads(f, status) \cup {Unclear(f)}, fileAnswers' = fileAnswers \cup {x}
        PROVE  /\ fileSent' \subseteq FileEvidence /\ fileAnswers' \subseteq FileAnswers
               /\ \A e \in (fileAnswers' \cup fileSent') \ (fileAnswers \cup fileSent) :
                   e.request = f /\ e.status \in {status, "AMBIGUOUS"}
    <3>1. n \in FileEvidence /\ n.request = f /\ n.status = status
      BY FileReadsAreEvidence
    <3>2. x \in FileAnswers /\ x.request = f /\ x.status \in {status, "AMBIGUOUS"}
      BY FileReadsAreEvidence, FileVerdicts DEF FileAnswers
    <3>3. \A e \in (fileAnswers' \cup fileSent') \ (fileAnswers \cup fileSent) : e = n \/ e = x
      BY <2>1
    <3> QED
      BY <2>0, <2>1, <3>1, <3>2, <3>3
  <2>2. ASSUME NEW x \in {Refused(f), Unclear(f)}, fileAnswers' = fileAnswers \cup {x},
               UNCHANGED <<fileGateway, fileSent>>
        PROVE  /\ fileGateway' = [fileGateway EXCEPT ![f] = "NONE"]
               /\ fileSent' \subseteq FileEvidence /\ fileAnswers' \subseteq FileAnswers
               /\ \A e \in (fileAnswers' \cup fileSent') \ (fileAnswers \cup fileSent) :
                   e.request = f /\ e.status \in {"REFUSED", "AMBIGUOUS"}
    <3>1. fileGateway' = [fileGateway EXCEPT ![f] = "NONE"]
      BY <1>1, <2>2 DEF ReturnsInv, FilesTypeOK
    <3>2. x \in FileAnswers /\ x.request = f /\ x.status \in {"REFUSED", "AMBIGUOUS"}
      BY FileVerdicts
    <3>3. \A e \in (fileAnswers' \cup fileSent') \ (fileAnswers \cup fileSent) : e = x
      BY <2>2
    <3>4. fileSent' \subseteq FileEvidence /\ fileAnswers' \subseteq FileAnswers
      BY <2>0, <2>2, <3>2
    <3> QED
      BY <3>1, <3>2, <3>3, <3>4
  <2>3. \/ \E status \in {"PENDING", "SUCCEEDED", "FAILED"} :
            /\ fileGateway' = [fileGateway EXCEPT ![f] = status]
            /\ \E n \in Reads(f, status) : fileSent' = fileSent \cup {n}
            /\ \E x \in Reads(f, status) \cup {Unclear(f)} : fileAnswers' = fileAnswers \cup {x}
        \/ \E x \in {Refused(f), Unclear(f)} : fileAnswers' = fileAnswers \cup {x} /\ UNCHANGED <<fileGateway, fileSent>>
    BY DEF AskFileRefund
  <2>4. CASE \E x \in {Refused(f), Unclear(f)} : fileAnswers' = fileAnswers \cup {x} /\ UNCHANGED <<fileGateway, fileSent>>
    BY <2>2, <2>4
  <2>5. ASSUME NEW status \in {"PENDING", "SUCCEEDED", "FAILED"},
               fileGateway' = [fileGateway EXCEPT ![f] = status],
               \E n \in Reads(f, status) : fileSent' = fileSent \cup {n},
               \E x \in Reads(f, status) \cup {Unclear(f)} : fileAnswers' = fileAnswers \cup {x}
        PROVE  \E st \in {"NONE", "PENDING", "SUCCEEDED", "FAILED"} :
                /\ fileGateway' = [fileGateway EXCEPT ![f] = st]
                /\ fileSent' \subseteq FileEvidence /\ fileAnswers' \subseteq FileAnswers
                /\ \A e \in (fileAnswers' \cup fileSent') \ (fileAnswers \cup fileSent) :
                    /\ e.request = f
                    /\ e.status \in {"SUCCEEDED", "FAILED"} => st = e.status
                    /\ e.status = "REFUSED" => st = "NONE"
    <3>1. /\ fileSent' \subseteq FileEvidence /\ fileAnswers' \subseteq FileAnswers
          /\ \A e \in (fileAnswers' \cup fileSent') \ (fileAnswers \cup fileSent) :
              e.request = f /\ e.status \in {status, "AMBIGUOUS"}
      BY <2>1, <2>5
    <3>2. \A e \in (fileAnswers' \cup fileSent') \ (fileAnswers \cup fileSent) :
              /\ e.request = f
              /\ e.status \in {"SUCCEEDED", "FAILED"} => status = e.status
              /\ e.status = "REFUSED" => status = "NONE"
      BY <3>1
    <3> QED
      BY <2>5, <3>1, <3>2
  <2> QED
    BY <2>3, <2>4, <2>5
<1>3. FilesTypeOK'
  BY <1>1, <1>2 DEF ReturnsInv, FilesTypeOK
<1>4. /\ fileGateway'[f] = status
      /\ \A g \in Files \ {f} : fileGateway'[g] = fileGateway[g]
  BY <1>2 DEF ReturnsInv, FilesTypeOK
<1>5. ASSUME NEW e, FileAsked(e)
      PROVE  FileAsked(e)'
  BY <1>1, <1>4, <1>5 DEF FileAsked
<1>6. FileFlightAgrees'
  <2>1. \A e \in fileAnswers' \cup fileSent' : FileAsked(e)'
    <3> TAKE e \in fileAnswers' \cup fileSent'
    <3>1. CASE e \in fileAnswers \cup fileSent
      BY <1>5, <3>1 DEF ReturnsInv, FileFlightAgrees
    <3>2. CASE e \notin fileAnswers \cup fileSent
      BY <1>1, <1>2, <1>4, <3>2 DEF FileAsked
    <3> QED
      BY <3>1, <3>2
  <2>2. \A w \in fileWaiting' : FileAsked(w.notice)'
    BY <1>1, <1>5 DEF ReturnsInv, FileFlightAgrees
  <2>3. fileRefund[f].status \in ActiveRefund \cup {"SUCCEEDED"}
    BY <1>1 DEF ReturnsInv, FileFlightAgrees, Owed
  <2> QED
    BY <1>1, <1>4, <2>1, <2>2, <2>3 DEF ReturnsInv, FileFlightAgrees, Owed
<1>7. \A g \in Files : Owed(g)' => Owed(g)
  BY <1>1, <1>4 DEF Owed
<1> QED
  BY <1>0, <1>1, <1>3, <1>6, <1>7, FlightKeeps DEF fileRows

LEMMA SettleFileKeeps ==
    ASSUME ReturnsInv, NEW f \in Files, ProviderSettlesFile(f)
    PROVE  ReturnsInv' /\ UNCHANGED vars
<1>0. UNCHANGED vars /\ UNCHANGED <<fileRows, fileFlight>>
  BY DEF ProviderSettlesFile, vars
<1>1. fileGateway[f] = "PENDING"
  BY DEF ProviderSettlesFile
<1>2. PICK status \in {"SUCCEEDED", "FAILED"} :
        fileGateway' = [fileGateway EXCEPT ![f] = status] /\ \E n \in Reads(f, status) : fileSent' = fileSent \cup {n}
  BY DEF ProviderSettlesFile
<1>3. PICK n \in Reads(f, status) : fileSent' = fileSent \cup {n}
  BY <1>2
<1>4. n \in FileEvidence /\ n.request = f /\ n.status = status
  BY <1>2, <1>3, FileReadsAreEvidence
<1>5. UNCHANGED <<files, fileRefund, fileCalls, fileAnswers, fileDeferred, fileWaiting, fileReceipts>>
  BY <1>0 DEF fileRows, fileFlight
<1>6. FilesTypeOK'
  BY <1>2, <1>3, <1>4, <1>5 DEF ReturnsInv, FilesTypeOK
<1>7. fileGateway'[f] = status /\ \A g \in Files \ {f} : fileGateway'[g] = fileGateway[g]
  BY <1>2 DEF ReturnsInv, FilesTypeOK
<1>8. ASSUME NEW e, FileAsked(e)
      PROVE  FileAsked(e)'
  BY <1>1, <1>5, <1>7, <1>8 DEF FileAsked
<1>9. f \notin fileCalls /\ fileRefund[f].status # "NONE" /\ Owed(f)
  BY <1>1 DEF ReturnsInv, FileFlightAgrees, Owed
<1>10. FileFlightAgrees'
  <2>1. FileAsked(n)'
    BY <1>2, <1>4, <1>5, <1>7, <1>9 DEF FileAsked
  <2>2. /\ \A e \in fileAnswers' \cup fileSent' : FileAsked(e)'
        /\ \A w \in fileWaiting' : FileAsked(w.notice)'
    BY <1>3, <1>5, <1>8, <2>1 DEF ReturnsInv, FileFlightAgrees
  <2> QED
    BY <1>5, <1>7, <1>9, <2>2 DEF ReturnsInv, FileFlightAgrees, Owed
<1>11. \A g \in Files : Owed(g)' => Owed(g)
  BY <1>5, <1>7, <1>9 DEF Owed
<1> QED
  BY <1>0, <1>6, <1>10, <1>11, FlightKeeps

(* Servers that die, look a refund up, or choose the attempt of a webhook. *)
LEMMA FileServersKeep ==
    ASSUME ReturnsInv, UNCHANGED <<vars, fileRows, fileProvider, fileDeferred, fileReceipts>>,
           fileCalls' \subseteq fileCalls, fileAnswers' \subseteq FileAnswers,
           fileWaiting' \subseteq [notice : FileEvidence, decision : {"MATCH", "DEFER", "REVIEW"}],
           \A e \in fileAnswers' : e \in fileAnswers \/ FileAsked(e),
           \A w \in fileWaiting' : w \in fileWaiting \/ w.notice \in fileSent
    PROVE  ReturnsInv'
<1>1. UNCHANGED <<files, fileRefund, fileGateway, fileSent, fileDeferred, fileReceipts>>
  BY DEF fileRows, fileProvider
<1>2. FilesTypeOK'
  BY <1>1 DEF ReturnsInv, FilesTypeOK
<1>3. FileFlightAgrees'
  BY <1>1 DEF ReturnsInv, FileFlightAgrees, FileAsked, Owed
<1>4. \A g \in Files : Owed(g)' => Owed(g)
  BY <1>1 DEF Owed
<1> QED
  BY <1>2, <1>3, <1>4, FlightKeeps

LEMMA RetrieveFileKeeps ==
    ASSUME ReturnsInv, NEW f \in Files, RetrieveFileRefund(f)
    PROVE  ReturnsInv' /\ UNCHANGED vars
<1>1. fileGateway[f] \in {"PENDING", "SUCCEEDED", "FAILED"} /\ f \notin fileCalls /\ fileRefund[f].status # "NONE"
  BY DEF RetrieveFileRefund, ReturnsInv, FilesTypeOK, FileFlightAgrees
<1>2. PICK x \in Reads(f, fileGateway[f]) \cup {Unclear(f)} : fileAnswers' = fileAnswers \cup {x}
  BY DEF RetrieveFileRefund
<1>3. x \in FileAnswers /\ FileAsked(x)
  <2>1. CASE x = Unclear(f)
    BY <1>1, <2>1, FileVerdicts DEF FileAsked
  <2>2. CASE x \in Reads(f, fileGateway[f])
    <3>1. x \in FileEvidence /\ x.request = f /\ x.status = fileGateway[f]
      BY <1>1, <2>2, FileReadsAreEvidence
    <3> QED
      BY <1>1, <3>1 DEF FileAnswers, FileAsked
  <2> QED
    BY <1>2, <2>1, <2>2
<1>4. fileAnswers' \subseteq FileAnswers /\ \A e \in fileAnswers' : e \in fileAnswers \/ FileAsked(e)
  BY <1>2, <1>3 DEF ReturnsInv, FilesTypeOK
<1>5. UNCHANGED vars /\ UNCHANGED <<fileRows, fileProvider, fileDeferred, fileReceipts, fileCalls, fileWaiting>>
  BY DEF RetrieveFileRefund, vars
<1> QED
  BY <1>4, <1>5, FileServersKeep DEF ReturnsInv, FilesTypeOK

LEMMA FileServerDiesKeeps ==
    ASSUME ReturnsInv, FileServerDies
    PROVE  ReturnsInv' /\ UNCHANGED vars
<1>1. UNCHANGED vars /\ UNCHANGED <<fileRows, fileProvider, fileDeferred, fileReceipts, fileWaiting>>
  BY DEF FileServerDies, vars
<1>2. fileCalls' \subseteq fileCalls /\ fileAnswers' \subseteq fileAnswers
  BY DEF FileServerDies
<1> QED
  BY <1>1, <1>2, FileServersKeep DEF ReturnsInv, FilesTypeOK

LEMMA CorrelateFileKeeps ==
    ASSUME ReturnsInv, NEW n \in fileSent, CorrelateFile(n)
    PROVE  ReturnsInv' /\ UNCHANGED vars
<1>1. FileDecision(n.request, n) \in {"MATCH", "DEFER", "REVIEW"}
  BY DEF FileDecision, Decision
<1>2. fileWaiting' = fileWaiting \cup {[notice |-> n, decision |-> FileDecision(n.request, n)]}
  BY DEF CorrelateFile
<1>3. UNCHANGED vars /\ UNCHANGED <<fileRows, fileProvider, fileDeferred, fileReceipts, fileCalls, fileAnswers>>
  BY DEF CorrelateFile, vars
<1>4. n \in FileEvidence
  BY DEF ReturnsInv, FilesTypeOK
<1> QED
  BY <1>1, <1>2, <1>3, <1>4, FileServersKeep DEF ReturnsInv, FilesTypeOK

-----------------------------------------------------------------------------
(* The reservation of a refund.                                                *)

LEMMA UnitsSame ==
    ASSUME UnitsAgree, UNCHANGED putBack, order'.status = order.status,
           \A f \in Files : /\ files'[f].requested = files[f].requested
                           /\ files'[f].restocked = files[f].restocked
                           /\ Claims(files'[f]) = Claims(files[f])
    PROVE  UnitsAgree'
<1>1. Claimed' = Claimed
  BY DEF Claimed, Claims
<1>2. \A p \in Products : Requested(p)' = Requested(p)
  BY DEF Requested
<1>3. \A p \in Products : [f \in Files |-> files'[f].restocked[p]] = [f \in Files |-> files[f].restocked[p]]
  OBVIOUS
<1>4. UnitsAccounted'
  BY <1>3 DEF UnitsAgree, UnitsAccounted
<1> QED
  BY <1>1, <1>2, <1>4 DEF UnitsAgree

(* The refund of the cancellation is not owed while nothing holds the goods for it,    *)
(* and the files are owed no more than what is active or was given back.               *)
LEMMA OwedIsBooked ==
    ASSUME ReturnsInv
    PROVE  /\ AmountOf({g \in Files : Owed(g)}) <= CentsOf(fileRefund, ActiveRefund) + CentsOf(fileRefund, {"SUCCEEDED"})
           /\ AmountOf({g \in Files : Owed(g)}) \in Nat
<1> DEFINE owed == {g \in Files : Owed(g)}
           active == {g \in Files : fileRefund[g].status \in ActiveRefund}
           paid == {g \in Files : fileRefund[g].status \in {"SUCCEEDED"}}
           h == [g \in Files |-> files[g].amount]
<1>1. owed \subseteq active \cup paid
  BY DEF ReturnsInv, FileFlightAgrees
<1>2. active \cap paid = {}
  BY DEF ActiveRefund
<1>3. \A g \in Files : h[g] \in Nat
  BY FileIs DEF ReturnsInv
<1>4. /\ owed \in SUBSET Files /\ active \in SUBSET Files /\ paid \in SUBSET Files /\ Total \in Nat
      /\ active \cup paid \in SUBSET Files
  BY OrderAssumption
<1>5. /\ CentsOf(fileRefund, ActiveRefund) = SumOf(active, h, Total)
      /\ CentsOf(fileRefund, {"SUCCEEDED"}) = SumOf(paid, h, Total)
      /\ AmountOf(owed) = SumOf(owed, h, Total)
  BY DEF CentsOf, AmountOf
<1> HIDE DEF owed, active, paid, h
<1>6. SumOf(owed, h, Total) <= SumOf(active \cup paid, h, Total)
  BY <1>1, <1>3, <1>4, SumGrows
<1>7. SumOf(active \cup paid, h, Total) = SumOf(active, h, Total) + SumOf(paid, h, Total)
  BY <1>2, <1>4, SumSplits
<1>8. SumOf(owed, h, Total) \in Nat
  BY <1>4, SumIsNat
<1> QED
  BY <1>5, <1>6, <1>7, <1>8 DEF owed

LEMMA ReserveFileKeeps ==
    ASSUME CancelInv, ReturnsInv, NEW f \in Files, NEW cents \in 1..Total, ReserveFileRefund(f, cents)
    PROVE  ReturnsInv' /\ ReturnsStep
<1> DEFINE row == [files[f] EXCEPT !.status = "REFUND_PENDING", !.amount = cents]
           attempt == [fileRefund[f] EXCEPT !.status = "PROCESSING"]
<1>1. files \in [Files -> FileRows] /\ fileRefund \in [Files -> RefundRows]
      /\ files[f] \in FileRows /\ fileRefund[f] \in RefundRows /\ FileSane(files[f], fileRefund[f])
  BY FileIs DEF ReturnsInv, FilesTypeOK, FilesAgree
<1>2. /\ Paid /\ ~Barrier /\ fileRefund[f].status = "NONE" /\ files[f].status \in {"APPROVED", "INSPECTED"}
      /\ cents \in 1..Available
      /\ returns' = Seen(files', fileRefund') /\ payment' = [payment EXCEPT !.status = "REFUND_PENDING"]
      /\ fileCalls' = fileCalls \cup {f}
      /\ UNCHANGED <<order, OfOrder, putBack, fileAnswers, fileDeferred, fileWaiting, fileReceipts, fileProvider>>
  BY DEF ReserveFileRefund
<1>3. files' = [files EXCEPT ![f] = row] /\ fileRefund' = [fileRefund EXCEPT ![f] = attempt]
  BY <1>1 DEF ReserveFileRefund, FileRows, RefundRows
<1>4. row \in FileRows /\ attempt \in RefundRows
  <2>1. cents \in 0..Total
    BY OrderAssumption
  <2>2. row \in FileRows
    BY <1>1, <2>1 DEF FileRows, FileStatuses
  <2>3. attempt \in RefundRows
    BY <1>1 DEF RefundRows, RefundStatuses, ActiveRefund
  <2> QED
    BY <2>2, <2>3
<1>5. /\ row.status = "REFUND_PENDING" /\ row.requested = files[f].requested
      /\ row.authorized = files[f].authorized
      /\ row.received = files[f].received /\ row.restockable = files[f].restockable
      /\ row.restocked = files[f].restocked /\ row.amount = cents
      /\ attempt.status = "PROCESSING"
  BY <1>1 DEF FileRows, RefundRows
<1> HIDE DEF row, attempt
<1>6. /\ files' \in [Files -> FileRows] /\ fileRefund' \in [Files -> RefundRows]
      /\ files'[f] = row /\ fileRefund'[f] = attempt
      /\ \A g \in Files \ {f} : files'[g] = files[g] /\ fileRefund'[g] = fileRefund[g]
  BY <1>1, <1>3, <1>4
<1>7. UNCHANGED <<requests, corrections, refund, inFlight, carrier, provider, fileGateway, fileSent>>
  BY <1>2 DEF OfOrder, fileProvider
<1>8. FilesTypeOK'
  BY <1>2, <1>6, <1>7 DEF ReturnsInv, FilesTypeOK
<1>9. FilesAgree'
  <2>1. FileSane(row, attempt)
    BY <1>1, <1>2, <1>5 DEF FileSane, ActiveRefund
  <2>2. \A g \in Files : FileSane(files'[g], fileRefund'[g])
    BY <1>6, <2>1 DEF ReturnsInv, FilesAgree
  <2> QED
    BY <1>2, <2>2 DEF FilesAgree
<1>10. fileGateway[f] = "NONE" /\ ~Owed(f)
  BY <1>2 DEF ReturnsInv, FileFlightAgrees, ActiveRefund
<1>11. ASSUME NEW e, FileAsked(e)
       PROVE  FileAsked(e)'
  BY <1>2, <1>6, <1>7, <1>11 DEF FileAsked
<1>12. FileFlightAgrees'
  <2>1. /\ \A e \in fileAnswers' \cup fileSent' : FileAsked(e)'
        /\ \A w \in fileWaiting' : FileAsked(w.notice)'
    BY <1>2, <1>7, <1>11 DEF ReturnsInv, FileFlightAgrees
  <2>2. \A g \in Files \ {f} : Owed(g)' = Owed(g)
    BY <1>2, <1>7 DEF Owed
  <2> QED
    BY <1>2, <1>5, <1>6, <1>7, <1>10, <2>1, <2>2 DEF ReturnsInv, FileFlightAgrees, ActiveRefund
<1>13. {g \in Files : Owed(g)}' = {g \in Files : Owed(g)} \cup {f}
  BY <1>2, <1>7 DEF Owed
<1> DEFINE owed == {g \in Files : Owed(g)}
           paid == {g \in Files : fileRefund[g].status \in {"SUCCEEDED"}}
           h == [g \in Files |-> files[g].amount]
           k == [g \in Files |-> files'[g].amount]
<1>14. /\ f \notin owed /\ f \notin paid /\ owed \in SUBSET Files /\ paid \in SUBSET Files
       /\ Total \in Nat /\ cents \in 0..Total
       /\ k[f] = cents /\ \A g \in Files \ {f} : k[g] = h[g]
  BY <1>2, <1>5, <1>6, <1>10, OrderAssumption
<1>15. /\ paid' = paid /\ owed' = owed \cup {f} /\ h' = k
       /\ CentsOf(fileRefund, {"SUCCEEDED"}) = SumOf(paid, h, Total)
       /\ AmountOf(owed) = SumOf(owed, h, Total)
  BY <1>2, <1>5, <1>6, <1>13 DEF CentsOf, AmountOf
<1>16. CentsOf(fileRefund, {"SUCCEEDED"})' = SumOf(paid', h', Total) /\ AmountOf(owed)' = SumOf(owed', h', Total)
  BY DEF CentsOf, AmountOf
<1> HIDE DEF owed, paid, h, k
<1>17. SumOf(paid, k, Total) = SumOf(paid, h, Total) /\ SumOf(owed, k, Total) = SumOf(owed, h, Total)
  BY <1>14, SumSame
<1>18. SumOf(owed \cup {f}, k, Total) = SumOf(owed, h, Total) + cents
  BY <1>14, <1>17, SumWith
<1>19. payment \in PaymentRows /\ payment'.refunded = payment.refunded /\ payment' \in PaymentRows
       /\ payment'.status = "REFUND_PENDING"
  BY <1>2 DEF CancelInv, TypeOK, PaymentRows
<1>20. RefundedAccounted'
  <2>1. CentsOf(fileRefund, {"SUCCEEDED"})' = CentsOf(fileRefund, {"SUCCEEDED"})
    BY <1>15, <1>16, <1>17
  <2> QED
    BY <1>7, <1>19, <2>1 DEF RefundedAccounted, Confirmed, ReturnsInv, MoneyAgrees
<1>21. AmountOf(owed)' <= Total
  <2>1. cents <= Total - payment.refunded - CentsOf(fileRefund, ActiveRefund) /\ cents \in Nat
    BY <1>2 DEF Available
  <2>2. payment.refunded >= CentsOf(fileRefund, {"SUCCEEDED"}) /\ payment.refunded \in Nat
    <3>1. payment.refunded = Confirmed(fileRefund)
      BY DEF ReturnsInv, MoneyAgrees, RefundedAccounted
    <3>2. CentsOf(fileRefund, {"SUCCEEDED"}) \in Nat /\ Total \in Nat
      BY CentsAre, OrderAssumption
    <3> QED
      BY <3>1, <3>2 DEF Confirmed
  <2>3. AmountOf(owed) <= CentsOf(fileRefund, ActiveRefund) + CentsOf(fileRefund, {"SUCCEEDED"}) /\ AmountOf(owed) \in Nat
    BY OwedIsBooked DEF owed
  <2>4. CentsOf(fileRefund, {"SUCCEEDED"}) \in Nat /\ CentsOf(fileRefund, ActiveRefund) \in Nat
    BY CentsAre
  <2>5. AmountOf(owed)' = AmountOf(owed) + cents
    BY <1>15, <1>16, <1>18
  <2> QED
    BY <1>14, <2>1, <2>2, <2>3, <2>4, <2>5
<1>22. MoneyAgrees'
  <2>1. \A r \in Requests : ~RequestOwed(r)
    BY <1>2, BarrierIsUp DEF RequestOwed
  <2>2. \A r \in Requests : ~RequestOwed(r)'
    BY <1>7, <2>1 DEF RequestOwed, inFlight, provider
  <2> QED
    BY <1>20, <1>21, <2>2 DEF MoneyAgrees, owed
<1>23. UnitsAgree'
  <2>1. \A g \in Files : /\ files'[g].requested = files[g].requested
                        /\ files'[g].restocked = files[g].restocked
                        /\ Claims(files'[g]) = Claims(files[g])
    BY <1>2, <1>5, <1>6 DEF Claims
  <2> QED
    BY <1>2, <2>1, UnitsSame DEF ReturnsInv
<1>24. order.status = "OPEN" /\ UNCHANGED order
  BY <1>2 DEF Paid
<1>25. Cancelled'
  BY <1>24 DEF Cancelled
<1>26. ReturnsInv'
  BY <1>8, <1>9, <1>12, <1>22, <1>23, <1>25 DEF ReturnsInv
<1>27. putBack \in [Products -> Nat] /\ UNCHANGED putBack
  BY <1>2 DEF CancelInv, TypeOK
<1>28. ReturnsStep
  <2>1. \A p \in Products : putBack'[p] \in Nat /\ putBack'[p] >= putBack[p]
    BY <1>27
  <2>2. payment.refunded \in Nat
    BY <1>19 DEF PaymentRows
  <2> QED
    BY <1>7, <1>19, <1>24, <1>26, <1>27, <2>1, <2>2, ExpectedStep
<1> QED
  BY <1>26, <1>28

-----------------------------------------------------------------------------
(* What evidence does to the attempt of a file.                                *)

PaymentMay ==
    /\ payment' \in PaymentRows /\ payment'.refunded = payment.refunded
    /\ payment'.status \in {payment.status, "REFUND_PENDING", SettledStatus(payment.refunded)}

(* Short of completing the refund. *)
FilePart(f) ==
    /\ fileRefund' \in [Files -> RefundRows]
    /\ \A g \in Files \ {f} : fileRefund'[g] = fileRefund[g]
    /\ fileRefund'[f].status # "NONE"
    /\ fileRefund'[f].status = "SUCCEEDED" <=> fileRefund[f].status = "SUCCEEDED"
    /\ fileRefund'[f].status = "FAILED" => fileRefund[f].status = "FAILED" \/ ~Owed(f)
    /\ returns' = Seen(files, fileRefund')
    /\ UNCHANGED files
    /\ PaymentMay

(* The attempt is one that exists. *)
FileOpen(f) ==
    /\ f \in Files
    /\ fileRefund \in [Files -> RefundRows] /\ fileRefund[f] \in RefundRows
    /\ fileRefund[f].status # "NONE"
    /\ payment \in PaymentRows
    /\ returns = Seen(files, fileRefund)
    /\ RefundedAccounted

LEMMA FileOpenIs ==
    ASSUME CancelInv, ReturnsInv, NEW f \in Files, fileRefund[f].status # "NONE"
    PROVE  FileOpen(f)
BY FileIs DEF CancelInv, TypeOK, PaymentRows, ReturnsInv, FilesTypeOK, FilesAgree, MoneyAgrees, FileOpen

LEMMA FilePays ==
    ASSUME payment \in PaymentRows, UNCHANGED payment \/ HoldPayment
    PROVE  PaymentMay
BY DEF PaymentRows, HoldPayment, PaymentMay

LEMMA AttemptMoves ==
    ASSUME NEW f, FileOpen(f), NEW row \in RefundRows, SetAttempt(f, row),
           row.status # "NONE", row.status = "SUCCEEDED" <=> fileRefund[f].status = "SUCCEEDED",
           row.status = "FAILED" => fileRefund[f].status = "FAILED" \/ ~Owed(f),
           PaymentMay
    PROVE  FilePart(f)
<1>1. fileRefund' = [fileRefund EXCEPT ![f] = row] /\ returns' = Seen(files, fileRefund') /\ UNCHANGED files
  BY DEF SetAttempt
<1>2. fileRefund' \in [Files -> RefundRows] /\ fileRefund'[f] = row
      /\ \A g \in Files \ {f} : fileRefund'[g] = fileRefund[g]
  BY <1>1 DEF FileOpen
<1> QED
  BY <1>1, <1>2 DEF FilePart

LEMMA NothingMoves ==
    ASSUME NEW f, FileOpen(f), Nothing
    PROVE  FilePart(f)
<1>1. UNCHANGED <<files, fileRefund, returns, payment>>
  BY DEF Nothing
<1>2. returns' = Seen(files, fileRefund')
  BY <1>1 DEF FileOpen
<1>3. PaymentMay
  BY <1>1, FilePays DEF FileOpen
<1> QED
  BY <1>1, <1>2, <1>3 DEF FilePart, FileOpen

LEMMA FileReviewMoves ==
    ASSUME NEW f, FileOpen(f), NEW code \in Codes, NEW e, FileReview(f, code, e)
    PROVE  FilePart(f)
<1>1. CASE Nothing
  BY <1>1, NothingMoves
<1>2. CASE fileRefund[f].status # "SUCCEEDED" /\ SetAttempt(f, Reviewed(fileRefund[f], code, e)) /\ HoldPayment
  <2>1. /\ Reviewed(fileRefund[f], code, e) \in RefundRows
        /\ Reviewed(fileRefund[f], code, e).status = "REQUIRES_REVIEW"
    BY ReviewedRow DEF FileOpen
  <2>2. PaymentMay
    BY <1>2, FilePays DEF FileOpen
  <2> QED
    BY <1>2, <2>1, <2>2, AttemptMoves
<1> QED
  BY <1>1, <1>2 DEF FileReview

LEMMA AcceptFileMoves ==
    ASSUME NEW f, FileOpen(f), fileRefund[f].status # "SUCCEEDED", AcceptFile(f)
    PROVE  FilePart(f)
<1>1. /\ Accepted(fileRefund[f]) \in RefundRows
      /\ Accepted(fileRefund[f]).status \in {"PENDING", "REQUIRES_REVIEW"}
  BY AcceptedRow DEF FileOpen
<1>2. PaymentMay
  BY FilePays DEF AcceptFile, FileOpen
<1> QED
  BY <1>1, <1>2, AttemptMoves DEF AcceptFile

(* The payment, recomputed although no refund was confirmed. *)
LEMMA RecomputedMay ==
    ASSUME NEW f, FileOpen(f), NEW row \in RefundRows, row.status # "SUCCEEDED",
           fileRefund[f].status # "SUCCEEDED", fileRefund' = [fileRefund EXCEPT ![f] = row],
           payment' = Recomputed(fileRefund')
    PROVE  PaymentMay
<1>1. \A g \in Files : fileRefund'[g].status = "SUCCEEDED" <=> fileRefund[g].status = "SUCCEEDED"
  BY DEF FileOpen
<1>2. {g \in Files : fileRefund'[g].status \in {"SUCCEEDED"}} = {g \in Files : fileRefund[g].status \in {"SUCCEEDED"}}
  BY <1>1
<1>3. CentsOf(fileRefund', {"SUCCEEDED"}) = CentsOf(fileRefund, {"SUCCEEDED"})
  BY <1>2 DEF CentsOf
<1>4. Confirmed(fileRefund') = payment.refunded
  BY <1>3 DEF Confirmed, FileOpen, RefundedAccounted
<1>5. payment' = [status |-> IF Unresolved(fileRefund') THEN "REFUND_PENDING" ELSE SettledStatus(payment.refunded),
                  refunded |-> payment.refunded]
  BY <1>4 DEF Recomputed
<1>6. SettledStatus(payment.refunded) \in {"SUCCEEDED", "REFUNDED", "PARTIALLY_REFUNDED"}
  BY DEF SettledStatus
<1>7. payment.refunded \in 0..Total
  BY DEF FileOpen, PaymentRows
<1> QED
  BY <1>5, <1>6, <1>7 DEF PaymentMay, PaymentRows

LEMMA FailFileMoves ==
    ASSUME NEW f, FileOpen(f), fileRefund[f].status # "SUCCEEDED", ~Owed(f), FailFile(f)
    PROVE  FilePart(f)
<1> DEFINE row == [status |-> "FAILED", code |-> "FAILED", known |-> TRUE, confirmed |-> FALSE, bound |-> TRUE]
<1>1. row \in RefundRows /\ row.status = "FAILED"
  BY DEF RefundRows, RefundStatuses, Codes
<1>2. CASE Nothing
  BY <1>2, NothingMoves
<1>3. CASE SetAttempt(f, row) /\ payment' = Recomputed(fileRefund')
  <2> HIDE DEF row
  <2>1. PaymentMay
    BY <1>1, <1>3, RecomputedMay DEF SetAttempt
  <2> QED
    BY <1>1, <1>3, <2>1, AttemptMoves
<1> QED
  BY <1>2, <1>3 DEF FailFile

LEMMA PersistFileMoves ==
    ASSUME NEW f, FileOpen(f), NEW e, PersistFileReview(f, e)
    PROVE  FilePart(f)
<1>1. /\ Persisted(fileRefund[f], e) \in RefundRows
      /\ Settled(fileRefund[f], e) => Persisted(fileRefund[f], e).status = fileRefund[f].status
      /\ ~Settled(fileRefund[f], e) =>
            Persisted(fileRefund[f], e).status =
                IF fileRefund[f].status = "SUCCEEDED" THEN "SUCCEEDED" ELSE "REQUIRES_REVIEW"
  BY PersistedRow DEF FileOpen
<1>2. PaymentMay
  BY FilePays DEF PersistFileReview, FileOpen
<1>3. SetAttempt(f, Persisted(fileRefund[f], e))
  BY DEF PersistFileReview
<1>4. fileRefund[f].status # "NONE"
  BY DEF FileOpen
<1> QED
  BY <1>1, <1>2, <1>3, <1>4, AttemptMoves

LEMMA AmbiguousFileMoves ==
    ASSUME NEW f, FileOpen(f), MarkFileAmbiguous(f)
    PROVE  FilePart(f)
<1> DEFINE row == IF fileRefund[f].status = "REQUIRES_REVIEW" THEN fileRefund[f]
                  ELSE [fileRefund[f] EXCEPT !.status = "REQUIRES_REVIEW", !.code = "AMBIGUOUS"]
<1>1. row \in RefundRows /\ row.status = "REQUIRES_REVIEW"
  BY DEF FileOpen, RefundRows, RefundStatuses, ActiveRefund, Codes, LiftedByFailure, LiftedBySuccess
<1>2. CASE Nothing
  BY <1>2, NothingMoves
<1>3. CASE fileRefund[f].status \notin Terminal /\ SetAttempt(f, row) /\ HoldPayment
  <2> HIDE DEF row
  <2>1. PaymentMay
    BY <1>3, FilePays DEF FileOpen
  <2> QED
    BY <1>1, <1>3, <2>1, AttemptMoves DEF Terminal
<1> QED
  BY <1>2, <1>3 DEF MarkFileAmbiguous

LEMMA RefusedFileMoves ==
    ASSUME NEW f, FileOpen(f), ~Owed(f), MarkFileFailed(f)
    PROVE  FilePart(f)
<1> DEFINE a == fileRefund[f]
           held == [a EXCEPT !.status = "REQUIRES_REVIEW", !.code = IF @ = "NONE" THEN "CONFLICT" ELSE @]
           failed == [a EXCEPT !.status = "FAILED", !.code = "FAILED", !.bound = TRUE]
<1>1. held \in RefundRows /\ held.status = "REQUIRES_REVIEW"
  BY DEF FileOpen, RefundRows, RefundStatuses, ActiveRefund, Codes
<1>2. failed \in RefundRows /\ failed.status = "FAILED"
  BY DEF FileOpen, RefundRows, RefundStatuses, Codes
<1>3. CASE Nothing
  BY <1>3, NothingMoves
<1>4. CASE a.status \notin Terminal /\ SetAttempt(f, held) /\ HoldPayment
  <2> HIDE DEF held
  <2>1. PaymentMay
    BY <1>4, FilePays DEF FileOpen
  <2> QED
    BY <1>1, <1>4, <2>1, AttemptMoves DEF Terminal
<1>5. CASE a.status \notin Terminal /\ SetAttempt(f, failed) /\ payment' = Recomputed(fileRefund')
  <2> HIDE DEF failed
  <2>1. PaymentMay
    BY <1>2, <1>5, RecomputedMay DEF SetAttempt, Terminal
  <2> QED
    BY <1>2, <1>5, <2>1, AttemptMoves DEF Terminal
<1> HIDE DEF held, failed
<1> QED
  BY <1>3, <1>4, <1>5 DEF MarkFileFailed, held, failed

LEMMA ContestedFileMoves ==
    ASSUME NEW f, FileOpen(f), NEW n, fileRefund[f].status \in Terminal,
           SetAttempt(f, Contested(fileRefund[f], n)), HoldPayment
    PROVE  FilePart(f)
<1>1. /\ Contested(fileRefund[f], n) \in RefundRows
      /\ Contested(fileRefund[f], n).status =
            IF fileRefund[f].status = "FAILED" THEN "REQUIRES_REVIEW" ELSE fileRefund[f].status
  BY ContestedRow DEF FileOpen
<1>2. PaymentMay
  BY FilePays DEF FileOpen
<1> QED
  BY <1>1, <1>2, AttemptMoves DEF Terminal

LEMMA DeferralFileMoves ==
    ASSUME NEW f, FileOpen(f), fileRefund[f].status \in ActiveRefund,
           SetAttempt(f, Deferral(fileRefund[f])), HoldPayment
    PROVE  FilePart(f)
<1>1. Deferral(fileRefund[f]) \in RefundRows /\ Deferral(fileRefund[f]).status = "REQUIRES_REVIEW"
  BY DeferralRow DEF FileOpen
<1>2. PaymentMay
  BY FilePays DEF FileOpen
<1> QED
  BY <1>1, <1>2, AttemptMoves DEF ActiveRefund

(* The money came back, and the payment can bear it. *)
FileCompletes(f) ==
    /\ fileRefund[f].status \in ActiveRefund
    /\ Confirmed(fileRefund) + files[f].amount <= Total
    /\ CompleteFile(f)

LEMMA FileEvidenceMoves ==
    ASSUME NEW f, FileOpen(f), NEW e, e.status = "FAILED" => ~Owed(f), TakeFileEvidence(f, e)
    PROVE  /\ fileDeferred' \subseteq fileDeferred
           /\ FilePart(f) \/ (FileCompletes(f) /\ e.status = "SUCCEEDED")
<1>1. CASE PersistFileReview(f, e)
  BY <1>1, PersistFileMoves DEF PersistFileReview
<1>2. "CONFLICT" \in Codes
  BY DEF Codes
<1>3. CASE ApplyFileEvidence(f, e) /\ e.match # "MATCH"
  <2>1. (IF e.match = "MISSING" THEN "CORRELATION_REQUIRED" ELSE "EVIDENCE_MISMATCH") \in Codes
    BY DEF Codes, LiftedByFailure, LiftedBySuccess
  <2> QED
    BY <1>3, <2>1, FileReviewMoves DEF ApplyFileEvidence
<1>4. CASE ApplyFileEvidence(f, e) /\ e.match = "MATCH"
  <2>1. fileDeferred' \subseteq fileDeferred
    BY <1>4 DEF ApplyFileEvidence
  <2>2. CASE FileReview(f, "CONFLICT", e)
    BY <1>2, <2>1, <2>2, FileReviewMoves
  <2>3. CASE Nothing
    BY <2>1, <2>3, NothingMoves
  <2>4. CASE fileRefund[f].status # "SUCCEEDED" /\ AcceptFile(f)
    BY <2>1, <2>4, AcceptFileMoves
  <2>5. CASE fileRefund[f].status # "SUCCEEDED" /\ e.status = "FAILED" /\ FailFile(f)
    BY <2>1, <2>5, FailFileMoves
  <2>6. CASE /\ fileRefund[f].status # "SUCCEEDED" /\ e.status = "SUCCEEDED" /\ ~Contradicts(fileRefund[f], e)
             /\ Confirmed(fileRefund) + files[f].amount <= Total /\ CompleteFile(f)
    <3>1. fileRefund[f].status \in ActiveRefund
      BY <2>6 DEF Contradicts, FileOpen, RefundRows, RefundStatuses
    <3> QED
      BY <2>1, <2>6, <3>1 DEF FileCompletes
  <2> QED
    BY <1>4, <2>2, <2>3, <2>4, <2>5, <2>6 DEF ApplyFileEvidence
<1> QED
  BY <1>1, <1>3, <1>4 DEF TakeFileEvidence

(* The answers and webhooks that are recorded, in one form. *)
FileRecordStep(f) ==
    /\ FileOpen(f)
    /\ fileDeferred' \subseteq FileEvidence /\ fileReceipts' \subseteq FileEvidence
    /\ fileAnswers' \subseteq fileAnswers /\ fileWaiting' \subseteq fileWaiting
    /\ UNCHANGED OfFileRecord
    /\ \/ FilePart(f) /\ order' \in {order, [order EXCEPT !.review = TRUE]}
       \/ FileCompletes(f) /\ fileGateway[f] = "SUCCEEDED" /\ UNCHANGED order

LEMMA FileAskedIs ==
    ASSUME CancelInv, ReturnsInv, NEW e, FileAsked(e)
    PROVE  /\ FileOpen(e.request)
           /\ e.status \in {"FAILED", "REFUSED"} => ~Owed(e.request)
BY FileOpenIs DEF FileAsked, Owed

LEMMA FileAnswerSteps ==
    ASSUME CancelInv, ReturnsInv, NEW x \in fileAnswers, RecordFileAnswer(x)
    PROVE  FileRecordStep(x.request)
<1> DEFINE f == x.request
<1>1. FileAsked(x)
  BY DEF ReturnsInv, FileFlightAgrees
<1>2. FileOpen(f) /\ (x.status \in {"FAILED", "REFUSED"} => ~Owed(f))
  BY <1>1, FileAskedIs
<1>3. /\ fileAnswers' \subseteq fileAnswers /\ UNCHANGED <<order, OfFileRecord, fileWaiting, fileReceipts>>
      /\ fileDeferred \subseteq FileEvidence /\ fileReceipts \subseteq FileEvidence
  BY DEF RecordFileAnswer, ReturnsInv, FilesTypeOK
<1>4. CASE x.status = "AMBIGUOUS" /\ MarkFileAmbiguous(f)
  <2>1. FilePart(f) /\ UNCHANGED fileDeferred
    BY <1>2, <1>4, AmbiguousFileMoves DEF MarkFileAmbiguous
  <2> QED
    BY <1>2, <1>3, <2>1 DEF FileRecordStep
<1>5. CASE x.status = "REFUSED" /\ MarkFileFailed(f)
  <2>1. FilePart(f) /\ UNCHANGED fileDeferred
    BY <1>2, <1>5, RefusedFileMoves DEF MarkFileFailed
  <2> QED
    BY <1>2, <1>3, <2>1 DEF FileRecordStep
<1>6. CASE x \in FileEvidence /\ TakeFileEvidence(f, x)
  <2>1. fileDeferred' \subseteq fileDeferred /\ (FilePart(f) \/ (FileCompletes(f) /\ x.status = "SUCCEEDED"))
    BY <1>2, <1>6, FileEvidenceMoves
  <2>2. x.status = "SUCCEEDED" => fileGateway[f] = "SUCCEEDED"
    BY <1>1 DEF FileAsked
  <2> QED
    BY <1>2, <1>3, <2>1, <2>2 DEF FileRecordStep
<1> HIDE DEF f
<1> QED
  BY <1>4, <1>5, <1>6 DEF RecordFileAnswer, f

LEMMA UnknownSteps ==
    ASSUME CancelInv, ReturnsInv, NEW f \in Files, ReconcileUnknown(f)
    PROVE  FileRecordStep(f)
<1>1. fileRefund[f].status # "NONE" /\ MarkFileAmbiguous(f)
      /\ UNCHANGED <<order, OfFileRecord, fileAnswers, fileWaiting, fileReceipts>>
  BY DEF ReconcileUnknown
<1>2. FileOpen(f)
  BY <1>1, FileOpenIs
<1>3. FilePart(f) /\ UNCHANGED fileDeferred
  BY <1>1, <1>2, AmbiguousFileMoves DEF MarkFileAmbiguous
<1>4. fileDeferred \subseteq FileEvidence /\ fileReceipts \subseteq FileEvidence
  BY DEF ReturnsInv, FilesTypeOK
<1> QED
  BY <1>1, <1>2, <1>3, <1>4 DEF FileRecordStep

LEMMA FileWebhookSteps ==
    ASSUME CancelInv, ReturnsInv, NEW w \in fileWaiting, RecordFileWebhook(w)
    PROVE  FileRecordStep(w.notice.request)
<1> DEFINE n == w.notice
           f == n.request
<1>1. FileAsked(n) /\ n \in FileEvidence
  BY DEF ReturnsInv, FileFlightAgrees, FilesTypeOK
<1>2. FileOpen(f) /\ (n.status \in {"FAILED", "REFUSED"} => ~Owed(f))
  BY <1>1, FileAskedIs
<1>3. Authentic(n).status = n.status
  BY <1>1 DEF Authentic, FileEvidence
<1>4. n.status = "SUCCEEDED" => fileGateway[f] = "SUCCEEDED"
  BY <1>1 DEF FileAsked
<1>5. fileDeferred \subseteq FileEvidence /\ fileReceipts \subseteq FileEvidence
  BY DEF ReturnsInv, FilesTypeOK
<1>6. ReceiveFileNotice(w) =>
        /\ fileReceipts' \subseteq FileEvidence /\ fileAnswers' \subseteq fileAnswers
        /\ fileWaiting' \subseteq fileWaiting /\ UNCHANGED OfFileRecord
  BY <1>1, <1>5 DEF ReceiveFileNotice
<1>7. TakeFileEvidence(f, Authentic(n)) =>
        /\ fileDeferred' \subseteq fileDeferred
        /\ FilePart(f) \/ (FileCompletes(f) /\ fileGateway[f] = "SUCCEEDED")
  BY <1>2, <1>3, <1>4, FileEvidenceMoves
<1>8. ASSUME ReceiveFileNotice(w), TakeFileEvidence(f, Authentic(n)), UNCHANGED order
      PROVE  FileRecordStep(f)
  BY <1>2, <1>5, <1>6, <1>7, <1>8 DEF FileRecordStep
<1>9. ASSUME ReceiveFileNotice(w), FilePart(f), fileDeferred' \subseteq FileEvidence,
             order' \in {order, [order EXCEPT !.review = TRUE]}
      PROVE  FileRecordStep(f)
  BY <1>2, <1>6, <1>9 DEF FileRecordStep
<1>10. CASE RecordFileMatched(w)
  <2>1. CASE ReceiveFileNotice(w) /\ TakeFileEvidence(f, Authentic(n))
    BY <1>8, <1>10, <2>1 DEF RecordFileMatched
  <2>2. CASE /\ PersistFileReview(f, Authentic(n))
             /\ fileWaiting' = fileWaiting \ {w}
             /\ UNCHANGED <<OfFileRecord, fileAnswers, fileReceipts>>
    <3>1. FilePart(f) /\ UNCHANGED <<order, fileDeferred>>
      BY <1>2, <1>10, <2>2, PersistFileMoves DEF PersistFileReview, RecordFileMatched
    <3> QED
      BY <1>2, <1>5, <2>2, <3>1 DEF FileRecordStep
  <2> QED
    BY <1>10, <2>1, <2>2 DEF RecordFileMatched
<1>11. CASE RecordFileReviewed(w)
  <2>1. FilePart(f)
    BY <1>2, <1>11, NothingMoves DEF RecordFileReviewed
  <2> QED
    BY <1>5, <1>9, <1>11, <2>1 DEF RecordFileReviewed, HoldOrder
<1>12. CASE RecordFileDeferred(w)
  <2>0. ReceiveFileNotice(w)
    BY <1>12 DEF RecordFileDeferred
  <2>1. CASE Nothing /\ UNCHANGED fileDeferred /\ (UNCHANGED order \/ HoldOrder)
    <3>1. FilePart(f)
      BY <1>2, <2>1, NothingMoves
    <3> QED
      BY <1>5, <1>9, <2>0, <2>1, <3>1 DEF HoldOrder
  <2>2. CASE /\ fileRefund[f].status \in Terminal /\ UNCHANGED fileDeferred
             /\ SetAttempt(f, Contested(fileRefund[f], n)) /\ HoldPayment /\ HoldOrder
    <3>1. FilePart(f)
      BY <1>2, <2>2, ContestedFileMoves
    <3> QED
      BY <1>5, <1>9, <2>0, <2>2, <3>1 DEF HoldOrder
  <2>3. CASE TakeFileEvidence(f, Authentic(n)) /\ UNCHANGED order
    BY <1>8, <2>0, <2>3
  <2>4. CASE /\ fileRefund[f].status \in ActiveRefund /\ UNCHANGED order
             /\ SetAttempt(f, Deferral(fileRefund[f])) /\ HoldPayment
             /\ fileDeferred' = fileDeferred \cup {n}
    <3>1. FilePart(f)
      BY <1>2, <2>4, DeferralFileMoves
    <3> QED
      BY <1>1, <1>5, <1>9, <2>0, <2>4, <3>1
  <2> HIDE DEF f, n
  <2> QED
    BY <1>12, <2>1, <2>2, <2>3, <2>4 DEF RecordFileDeferred, f, n
<1> QED
  BY <1>10, <1>11, <1>12 DEF RecordFileWebhook

(* Nothing else is owed when answers and webhooks are recorded. *)
LEMMA RecordedFlight ==
    ASSUME ReturnsInv, NEW f, FileRecordStep(f), fileRefund' \in [Files -> RefundRows],
           \A g \in Files \ {f} : fileRefund'[g] = fileRefund[g],
           fileRefund'[f].status # "NONE",
           fileRefund'[f].status = "FAILED" => fileRefund[f].status = "FAILED" \/ ~Owed(f)
    PROVE  FileFlightAgrees' /\ \A g \in Files : Owed(g)' = Owed(g)
<1>1. /\ f \in Files /\ UNCHANGED <<fileCalls, fileGateway, fileSent>>
      /\ fileAnswers' \subseteq fileAnswers /\ fileWaiting' \subseteq fileWaiting
  BY DEF FileRecordStep, FileOpen, OfFileRecord, fileProvider
<1>2. \A g \in Files : Owed(g)' = Owed(g)
  BY <1>1 DEF Owed
<1>3. \A g \in Files : fileRefund[g].status # "NONE" => fileRefund'[g].status # "NONE"
  BY <1>1
<1>4. ASSUME NEW e, FileAsked(e)
      PROVE  FileAsked(e)'
  BY <1>1, <1>3, <1>4 DEF FileAsked
<1>5. /\ \A e \in fileAnswers' \cup fileSent' : FileAsked(e)'
      /\ \A w \in fileWaiting' : FileAsked(w.notice)'
  BY <1>1, <1>4 DEF ReturnsInv, FileFlightAgrees
<1>6. \A g \in Files : Owed(g) => fileRefund'[g].status \in ActiveRefund \cup {"SUCCEEDED"}
  <2>1. fileRefund'[f].status \in RefundStatuses
    BY <1>1 DEF RefundRows
  <2>2. Owed(f) => fileRefund[f].status # "FAILED"
    BY <1>1 DEF ReturnsInv, FileFlightAgrees, ActiveRefund
  <2>3. Owed(f) => fileRefund'[f].status \in ActiveRefund \cup {"SUCCEEDED"}
    BY <2>1, <2>2 DEF RefundStatuses
  <2> QED
    BY <2>3 DEF ReturnsInv, FileFlightAgrees
<1>7. \A g \in Files : fileRefund'[g].status = "NONE" => fileRefund[g].status = "NONE"
  BY <1>1
<1>8. \A g \in Files : /\ g \in fileCalls' => fileGateway'[g] = "NONE"
                       /\ fileRefund'[g].status = "NONE" => fileGateway'[g] = "NONE"
                       /\ Owed(g)' => fileRefund'[g].status \in ActiveRefund \cup {"SUCCEEDED"}
  BY <1>1, <1>2, <1>6, <1>7 DEF ReturnsInv, FileFlightAgrees
<1>9. FileFlightAgrees'
  BY <1>5, <1>8 DEF FileFlightAgrees
<1> QED
  BY <1>2, <1>9

LEMMA OwedSame ==
    ASSUME MoneyAgrees, \A f \in Files : Owed(f)' = Owed(f) /\ files'[f].amount = files[f].amount,
           \A r \in Requests : RequestOwed(r)' = RequestOwed(r), RefundedAccounted'
    PROVE  MoneyAgrees'
<1>1. {g \in Files : Owed(g)}' = {g \in Files : Owed(g)}
  OBVIOUS
<1>2. AmountOf({g \in Files : Owed(g)})' <= Total
  BY <1>1, AmountsSame DEF MoneyAgrees
<1> QED
  BY <1>2 DEF MoneyAgrees

LEMMA FilePartKeeps ==
    ASSUME CancelInv, ReturnsInv, NEW f, FileRecordStep(f), FilePart(f),
           order' \in {order, [order EXCEPT !.review = TRUE]}
    PROVE  ReturnsInv' /\ ReturnsStep
<1>0. TypeOK /\ order'.status = order.status
  BY DEF CancelInv, TypeOK
<1>1. /\ f \in Files /\ fileRefund \in [Files -> RefundRows]
      /\ fileRefund' \in [Files -> RefundRows]
      /\ \A g \in Files \ {f} : fileRefund'[g] = fileRefund[g]
      /\ fileRefund'[f].status # "NONE" /\ fileRefund[f].status # "NONE"
      /\ fileRefund'[f].status = "SUCCEEDED" <=> fileRefund[f].status = "SUCCEEDED"
      /\ fileRefund'[f].status = "FAILED" => fileRefund[f].status = "FAILED" \/ ~Owed(f)
      /\ returns' = Seen(files, fileRefund')
      /\ UNCHANGED <<files, requests, corrections, refund, inFlight, carrier, provider>>
      /\ UNCHANGED <<putBack, fileCalls, fileGateway, fileSent>>
      /\ fileDeferred' \subseteq FileEvidence /\ fileReceipts' \subseteq FileEvidence
      /\ fileAnswers' \subseteq fileAnswers /\ fileWaiting' \subseteq fileWaiting
      /\ PaymentMay
  BY DEF FileRecordStep, FilePart, FileOpen, OfFileRecord, OfOrder, fileProvider
<1>2. FilesTypeOK'
  BY <1>1 DEF ReturnsInv, FilesTypeOK
<1>3. FilesAgree'
  <2>1. FileSane(files[f], fileRefund[f])
    BY <1>1 DEF ReturnsInv, FilesAgree
  <2>2. fileRefund'[f].status \in RefundStatuses /\ fileRefund[f].status \in RefundStatuses
    BY <1>1 DEF RefundRows
  <2>3. FileSane(files[f], fileRefund'[f])
    BY <1>1, <2>1, <2>2 DEF FileSane, RefundStatuses, ActiveRefund
  <2>4. \A g \in Files : FileSane(files'[g], fileRefund'[g])
    BY <1>1, <2>3 DEF ReturnsInv, FilesAgree
  <2> QED
    BY <1>1, <2>4 DEF FilesAgree
<1>4. FileFlightAgrees' /\ \A g \in Files : Owed(g)' = Owed(g)
  BY <1>1, RecordedFlight
<1>5. \A g \in Files : fileRefund'[g].status = "SUCCEEDED" <=> fileRefund[g].status = "SUCCEEDED"
  BY <1>1
<1>6. payment' \in PaymentRows /\ payment'.refunded = payment.refunded
      /\ payment'.status \in {payment.status, "REFUND_PENDING", SettledStatus(payment.refunded)}
  BY <1>1 DEF PaymentMay
<1>7. MoneyAgrees'
  <2>1. {g \in Files : fileRefund'[g].status \in {"SUCCEEDED"}} = {g \in Files : fileRefund[g].status \in {"SUCCEEDED"}}
    BY <1>5
  <2>2. CentsOf(fileRefund, {"SUCCEEDED"})' = CentsOf(fileRefund, {"SUCCEEDED"})
    BY <1>1, <2>1 DEF CentsOf, AmountOf
  <2>3. RefundedAccounted'
    BY <1>1, <1>6, <2>2 DEF RefundedAccounted, Confirmed, ReturnsInv, MoneyAgrees
  <2>4. \A r \in Requests : RequestOwed(r)' = RequestOwed(r)
    BY <1>1 DEF RequestOwed, inFlight, provider
  <2> QED
    BY <1>1, <1>4, <2>3, <2>4, OwedSame DEF ReturnsInv
<1>8. UnitsAgree'
  BY <1>0, <1>1, UnitsSame DEF ReturnsInv
<1>9. Cancelled'
  BY <1>0, <1>1, <1>4, <1>5 DEF ReturnsInv, Cancelled
<1>10. ReturnsInv'
  BY <1>2, <1>3, <1>4, <1>7, <1>8, <1>9 DEF ReturnsInv
<1>11. ReturnsStep
  <2>1. putBack \in [Products -> Nat] /\ \A p \in Products : putBack'[p] \in Nat /\ putBack'[p] >= putBack[p]
    BY <1>0, <1>1 DEF TypeOK
  <2>2. payment.refunded \in Nat
    BY <1>0 DEF TypeOK
  <2> QED
    BY <1>1, <1>6, <1>10, <2>1, <2>2, ExpectedStep
<1> QED
  BY <1>10, <1>11

LEMMA FileCompletesKeeps ==
    ASSUME CancelInv, ReturnsInv, NEW f, FileRecordStep(f), FileCompletes(f), fileGateway[f] = "SUCCEEDED",
           UNCHANGED order
    PROVE  ReturnsInv' /\ ReturnsStep
<1> DEFINE won == [status |-> "SUCCEEDED", code |-> "NONE", known |-> TRUE, confirmed |-> TRUE, bound |-> TRUE]
           row == [files[f] EXCEPT !.status = "REFUNDED"]
<1>0. TypeOK /\ payment \in PaymentRows /\ putBack \in [Products -> Nat]
  BY DEF CancelInv, TypeOK, PaymentRows
<1>1. /\ f \in Files /\ files \in [Files -> FileRows] /\ fileRefund \in [Files -> RefundRows]
      /\ files[f] \in FileRows /\ fileRefund[f].status \in ActiveRefund
      /\ FileSane(files[f], fileRefund[f])
      /\ Confirmed(fileRefund) + files[f].amount <= Total
      /\ files[f].amount \in 0..Total /\ Total \in Nat
  BY FileIs DEF FileRecordStep, FileOpen, FileCompletes, ReturnsInv, FilesTypeOK, FilesAgree
<1>2. files[f].status = "REFUND_PENDING"
  BY <1>1 DEF FileSane
<1>3. /\ fileRefund' = [fileRefund EXCEPT ![f] = won] /\ files' = [files EXCEPT ![f] = row]
      /\ returns' = Seen(files', fileRefund') /\ payment' = Recomputed(fileRefund')
  BY <1>1 DEF FileCompletes, CompleteFile, FileRows
<1>4. row \in FileRows /\ won \in RefundRows
  BY <1>1 DEF FileRows, FileStatuses, RefundRows, RefundStatuses, Codes
<1>5. /\ row.status = "REFUNDED" /\ row.requested = files[f].requested
      /\ row.authorized = files[f].authorized /\ row.received = files[f].received
      /\ row.restockable = files[f].restockable /\ row.restocked = files[f].restocked
      /\ row.amount = files[f].amount
      /\ won.status = "SUCCEEDED"
  BY <1>1 DEF FileRows
<1> HIDE DEF row, won
<1>6. /\ files' \in [Files -> FileRows] /\ fileRefund' \in [Files -> RefundRows]
      /\ files'[f] = row /\ fileRefund'[f] = won
      /\ \A g \in Files \ {f} : files'[g] = files[g] /\ fileRefund'[g] = fileRefund[g]
  BY <1>1, <1>3, <1>4
<1>7. /\ UNCHANGED <<requests, corrections, refund, inFlight, carrier, provider>>
      /\ UNCHANGED <<putBack, fileCalls, fileGateway, fileSent>>
      /\ fileDeferred' \subseteq FileEvidence /\ fileReceipts' \subseteq FileEvidence
      /\ fileAnswers' \subseteq fileAnswers /\ fileWaiting' \subseteq fileWaiting
  BY DEF FileRecordStep, OfFileRecord, OfOrder, fileProvider
<1>8. FilesTypeOK'
  BY <1>6, <1>7 DEF ReturnsInv, FilesTypeOK
<1>9. FilesAgree'
  <2>1. FileSane(row, won)
    BY <1>1, <1>2, <1>5 DEF FileSane, ActiveRefund
  <2>2. \A g \in Files : FileSane(files'[g], fileRefund'[g])
    BY <1>6, <2>1 DEF ReturnsInv, FilesAgree
  <2> QED
    BY <1>3, <2>2 DEF FilesAgree
<1>10. FileFlightAgrees' /\ \A g \in Files : Owed(g)' = Owed(g)
  BY <1>5, <1>6, RecordedFlight
<1>11. order.status = "OPEN" /\ Owed(f)
  <2>1. Owed(f)
    BY DEF Owed
  <2> QED
    BY <1>0, <1>1, <2>1 DEF ReturnsInv, Cancelled, TypeOK
<1>12. \A r \in Requests : refund[r].status # "SUCCEEDED"
  BY <1>11 DEF CancelInv, SaleAgrees, CancellationWhole
<1> DEFINE paid == {g \in Files : fileRefund[g].status \in {"SUCCEEDED"}}
           h == [g \in Files |-> files[g].amount]
<1>13. /\ f \notin paid /\ paid \in SUBSET Files /\ h[f] = files[f].amount
       /\ {g \in Files : fileRefund'[g].status \in {"SUCCEEDED"}} = paid \cup {f}
       /\ [g \in Files |-> files'[g].amount] = h
  BY <1>1, <1>5, <1>6 DEF ActiveRefund
<1>14. /\ CentsOf(fileRefund, {"SUCCEEDED"}) = SumOf(paid, h, Total)
       /\ CentsOf(fileRefund', {"SUCCEEDED"}) = SumOf(paid \cup {f}, h, Total)
       /\ CentsOf(fileRefund, {"SUCCEEDED"})' = SumOf(paid \cup {f}, h, Total)
  BY <1>13 DEF CentsOf, AmountOf
<1> HIDE DEF paid, h
<1>15. SumOf(paid \cup {f}, h, Total) = SumOf(paid, h, Total) + files[f].amount
  BY <1>1, <1>13, SumWith
<1>16. SumOf(paid, h, Total) \in Nat
  BY <1>13, SumIsNat, OrderAssumption
<1>17. /\ Confirmed(fileRefund) = SumOf(paid, h, Total)
       /\ Confirmed(fileRefund') = SumOf(paid, h, Total) + files[f].amount
       /\ Confirmed(fileRefund)' = SumOf(paid, h, Total) + files[f].amount
  <2>1. Confirmed(fileRefund) = CentsOf(fileRefund, {"SUCCEEDED"}) + 0
    BY <1>12, Zenon DEF Confirmed
  <2>2. Confirmed(fileRefund') = CentsOf(fileRefund', {"SUCCEEDED"}) + 0
    BY <1>12, Zenon DEF Confirmed
  <2>3. Confirmed(fileRefund)' = CentsOf(fileRefund, {"SUCCEEDED"})' + 0
    BY <1>7, <1>12 DEF Confirmed
  <2> QED
    BY <1>1, <1>14, <1>15, <1>16, <2>1, <2>2, <2>3
<1>18. payment.refunded = SumOf(paid, h, Total)
  BY <1>17 DEF ReturnsInv, MoneyAgrees, RefundedAccounted
<1>19. /\ payment'.refunded = payment.refunded + files[f].amount
       /\ payment'.refunded \in 0..Total /\ payment.refunded \in Nat
       /\ payment'.refunded >= payment.refunded
  BY <1>1, <1>3, <1>16, <1>17, <1>18 DEF Recomputed
<1>20. payment' = [status |-> IF Unresolved(fileRefund') THEN "REFUND_PENDING" ELSE SettledStatus(payment'.refunded),
                   refunded |-> payment'.refunded]
  BY <1>3 DEF Recomputed
<1>21. /\ payment' \in PaymentRows
       /\ payment'.status \in {"REFUND_PENDING", SettledStatus(payment'.refunded)}
  <2>1. SettledStatus(payment'.refunded) \in {"SUCCEEDED", "REFUNDED", "PARTIALLY_REFUNDED"}
    BY DEF SettledStatus
  <2> QED
    BY <1>19, <1>20, <2>1 DEF PaymentRows
<1>22. MoneyAgrees'
  <2>1. RefundedAccounted'
    BY <1>17, <1>18, <1>19 DEF RefundedAccounted
  <2>2. \A r \in Requests : RequestOwed(r)' = RequestOwed(r)
    BY <1>7 DEF RequestOwed, inFlight, provider
  <2>3. \A g \in Files : files'[g].amount = files[g].amount
    BY <1>5, <1>6
  <2> QED
    BY <1>10, <2>1, <2>2, <2>3, OwedSame DEF ReturnsInv
<1>23. UnitsAgree'
  <2>1. \A g \in Files : /\ files'[g].requested = files[g].requested
                        /\ files'[g].restocked = files[g].restocked
                        /\ Claims(files'[g]) = Claims(files[g])
    BY <1>2, <1>5, <1>6 DEF Claims
  <2> QED
    BY <1>7, <2>1, UnitsSame DEF ReturnsInv
<1>24. Cancelled'
  BY <1>11 DEF Cancelled
<1>25. ReturnsInv'
  BY <1>8, <1>9, <1>10, <1>22, <1>23, <1>24 DEF ReturnsInv
<1>26. ReturnsStep
  <2>1. returns.active
    BY <1>1 DEF ReturnsInv, FilesAgree, Seen
  <2>2. \A p \in Products : putBack'[p] \in Nat /\ putBack'[p] >= putBack[p]
    BY <1>0, <1>7
  <2> QED
    BY <1>0, <1>7, <1>11, <1>19, <1>21, <1>25, <2>1, <2>2, ExpectedStep
<1> QED
  BY <1>25, <1>26

LEMMA FileRecordKeeps ==
    ASSUME CancelInv, ReturnsInv, NEW f, FileRecordStep(f)
    PROVE  ReturnsInv' /\ ReturnsStep
BY FilePartKeeps, FileCompletesKeeps DEF FileRecordStep

LEMMA FilesKeep ==
    ASSUME CancelInv, ReturnsInv, FileNext
    PROVE  ReturnsInv' /\ (ReturnsStep \/ UNCHANGED vars)
<1>1. ASSUME NEW f \in Files, NEW q \in Quantities, CreateFile(f, q)
      PROVE  ReturnsInv' /\ ReturnsStep
  BY <1>1, CreateMoves, MovesKeep
<1>2. ASSUME NEW f \in Files, NEW to \in FileStatuses, MoveFile(f, to)
      PROVE  ReturnsInv' /\ ReturnsStep
  BY <1>2, MoveFileMoves, MovesKeep
<1>3. ASSUME NEW f \in Files, NEW q \in UpTo(files[f].requested), NEW physical \in BOOLEAN, ApproveFile(f, q, physical)
      PROVE  ReturnsInv' /\ ReturnsStep
  BY <1>3, ApproveMoves, MovesKeep
<1>4. ASSUME NEW f \in Files, NEW q \in UpTo(files[f].authorized), ReceiveFile(f, q)
      PROVE  ReturnsInv' /\ ReturnsStep
  BY <1>4, ReceiveMoves, MovesKeep
<1>5. ASSUME NEW f \in Files, NEW q \in UpTo(files[f].received), NEW s \in UpTo(files[f].received), InspectFile(f, q, s)
      PROVE  ReturnsInv' /\ ReturnsStep
  BY <1>5, InspectMoves, MovesKeep
<1>6. ASSUME NEW f \in Files, Restock(f)
      PROVE  ReturnsInv' /\ ReturnsStep
  BY <1>6, RestockMoves, MovesKeep
<1>7. ASSUME NEW f \in Files, NEW cents \in 1..Total, ReserveFileRefund(f, cents)
      PROVE  ReturnsInv' /\ ReturnsStep
  BY <1>7, ReserveFileKeeps
<1>8. ASSUME NEW f \in Files, AskFileRefund(f) \/ ProviderSettlesFile(f) \/ RetrieveFileRefund(f)
      PROVE  ReturnsInv' /\ UNCHANGED vars
  BY <1>8, AskKeeps, SettleFileKeeps, RetrieveFileKeeps
<1>9. ASSUME NEW f \in Files, ReconcileUnknown(f)
      PROVE  ReturnsInv' /\ ReturnsStep
  BY <1>9, UnknownSteps, FileRecordKeeps
<1>10. CASE FileServerDies
  BY <1>10, FileServerDiesKeeps
<1>11. ASSUME NEW x \in fileAnswers, RecordFileAnswer(x)
       PROVE  ReturnsInv' /\ ReturnsStep
  BY <1>11, FileAnswerSteps, FileRecordKeeps
<1>12. ASSUME NEW n \in fileSent, CorrelateFile(n)
       PROVE  ReturnsInv' /\ UNCHANGED vars
  BY <1>12, CorrelateFileKeeps
<1>13. ASSUME NEW w \in fileWaiting, RecordFileWebhook(w)
       PROVE  ReturnsInv' /\ ReturnsStep
  BY <1>13, FileWebhookSteps, FileRecordKeeps
<1> QED
  BY <1>1, <1>2, <1>3, <1>4, <1>5, <1>6, <1>7, <1>8, <1>9, <1>10, <1>11, <1>12, <1>13, Zenon DEF FileNext

-----------------------------------------------------------------------------
(* The order beside its files.                                                 *)

(* A step of the order that gives nothing back; its cancellation is reserved only while *)
(* no file holds the goods.                                                              *)
Calm ==
    /\ UNCHANGED <<returns, putBack>>
    /\ payment'.refunded = payment.refunded
    /\ order'.status = order.status
    /\ \A r \in Requests : refund'[r].status = "SUCCEEDED" <=> refund[r].status = "SUCCEEDED"
    /\ \A r \in Requests : RequestOwed(r)' => RequestOwed(r) \/ ~returns.disposition

LEMMA RecordCalm ==
    ASSUME CancelInv, NEW r, RecordStep(r)
    PROVE  Calm \/ (r \in Requests /\ Undone(r))
<1>1. r \in Requests /\ UNCHANGED <<returns, calls, gateway>>
  BY DEF RecordStep, Open, provider
<1>2. CASE Part(r) /\ order' \in {order, [order EXCEPT !.review = TRUE]}
  <2>1. payment'.refunded = payment.refunded /\ UNCHANGED putBack
        /\ \A q \in Requests : refund'[q].status = "SUCCEEDED" <=> refund[q].status = "SUCCEEDED"
    BY <1>2 DEF Part
  <2>2. order'.status = order.status
    BY <1>2 DEF CancelInv, TypeOK
  <2> QED
    BY <1>1, <2>1, <2>2 DEF Calm, RequestOwed
<1>3. CASE Cancellable(r) /\ Complete(r)
  BY <1>1, <1>3 DEF Undone
<1> QED
  BY <1>2, <1>3 DEF RecordStep

LEMMA ReserveCalm ==
    ASSUME CancelInv, NEW r \in Requests, ReserveRefund(r)
    PROVE  Calm
<1>1. refund[r].status = "NONE" /\ refund \in [Requests -> RefundRows]
  BY DEF ReserveRefund, CancelInv, RequestsAgree, TypeOK
<1>2. refund[r] \in RefundRows
  BY <1>1
<1>3. refund'[r].status = "PROCESSING" /\ \A q \in Requests \ {r} : refund'[q] = refund[q]
  BY <1>1, <1>2 DEF ReserveRefund, RefundRows
<1>4. ~returns.disposition /\ UNCHANGED <<returns, putBack, order, gateway>>
  BY DEF ReserveRefund, Untouched, provider
<1>5. payment'.refunded = payment.refunded
  BY DEF ReserveRefund, CancelInv, TypeOK
<1> QED
  BY <1>1, <1>3, <1>4, <1>5 DEF Calm

LEMMA OrderKinds ==
    ASSUME CancelInv, ShippingNext \/ RequestNext \/ RefundNext
    PROVE  Calm \/ \E r \in Requests : Undone(r)
<1>0. TypeOK
  BY DEF CancelInv
<1>1. ASSUME UNCHANGED <<requests, refund, payment, putBack, returns, calls, gateway>>, order'.status = order.status
      PROVE  Calm
  BY <1>1 DEF Calm, RequestOwed
<1>2. CASE ShippingNext
  <2>1. UNCHANGED <<requests, refund, payment, putBack, returns, calls, gateway>>
    BY <1>2 DEF ShippingNext, Prepare, RecordTracking, MarkShipped, RequestShipment, ReconcileShipment,
                CarrierAnswers, CarrierCallLost, rows, inFlight, provider
  <2>2. order'.status = order.status
    BY <1>0, <1>2 DEF TypeOK, ShippingNext, Prepare, RecordTracking, MarkShipped, RequestShipment,
                      ReconcileShipment, CarrierAnswers, CarrierCallLost, rows
  <2> QED
    BY <1>1, <2>1, <2>2
<1>3. CASE RequestNext
  <2>1. ASSUME NEW r \in Requests, ReserveRefund(r)
        PROVE  Calm
    BY <2>1, ReserveCalm
  <2>2. CASE \/ \E r \in Requests : CreateRequest(r) \/ RejectRequest(r)
             \/ \E c \in Corrections : CreateCorrection(c) \/ RejectCorrection(c) \/ ApproveAddress(c)
    <3>1. UNCHANGED <<order, refund, payment, putBack, returns, calls, gateway>>
      BY <2>2 DEF CreateRequest, RejectRequest, CreateCorrection, RejectCorrection, ApproveAddress, inFlight, provider
    <3> QED
      BY <3>1 DEF Calm, RequestOwed
  <2> QED
    BY <1>3, <2>1, <2>2 DEF RequestNext
<1>4. CASE RefundNext
  <2>1. ASSUME NEW r \in Requests, CallAccepted(r) \/ CallRejected(r)
        PROVE  Calm
    <3>1. UNCHANGED <<order, refund, payment, putBack, returns>>
      BY <2>1 DEF CallAccepted, CallRejected, rows
    <3>2. r \in calls /\ calls' \subseteq calls /\ \A q \in Requests \ {r} : gateway'[q] = gateway[q]
      BY <1>0, <2>1 DEF CallAccepted, CallRejected, TypeOK
    <3>3. \A q \in Requests : RequestOwed(q)' => RequestOwed(q)
      BY <3>2 DEF RequestOwed
    <3> QED
      BY <3>1, <3>3 DEF Calm
  <2>2. ASSUME NEW r \in Requests, ProviderSettles(r)
        PROVE  Calm
    <3>1. UNCHANGED <<order, refund, payment, putBack, returns, calls>>
      BY <2>2 DEF ProviderSettles, rows, inFlight
    <3>2. gateway[r] = "PENDING" /\ \A q \in Requests \ {r} : gateway'[q] = gateway[q]
      BY <1>0, <2>2 DEF ProviderSettles, TypeOK
    <3>3. \A q \in Requests : RequestOwed(q)' => RequestOwed(q)
      BY <3>1, <3>2 DEF RequestOwed
    <3> QED
      BY <3>1, <3>3 DEF Calm
  <2>3. CASE (\E r \in Requests : Retrieve(r)) \/ ServerDies \/ \E n \in sent : Correlate(n)
    <3>1. UNCHANGED <<order, refund, payment, putBack, returns, gateway>> /\ calls' \subseteq calls
      BY <2>3 DEF Retrieve, ServerDies, Correlate, rows, provider
    <3> QED
      BY <3>1 DEF Calm, RequestOwed
  <2>4. CASE RecordIncident
    <3>1. UNCHANGED <<requests, refund, payment, putBack, returns, calls, gateway>>
      BY <2>4 DEF RecordIncident, inFlight, provider
    <3>2. order'.status = order.status
      BY <1>0, <2>4 DEF TypeOK, RecordIncident
    <3> QED
      BY <1>1, <3>1, <3>2
  <2>5. ASSUME NEW x \in answers, RecordAnswer(x)
        PROVE  Calm \/ \E q \in Requests : Undone(q)
    BY <2>5, AnswerSteps, RecordCalm
  <2>6. ASSUME NEW w \in waiting, RecordWebhook(w)
        PROVE  Calm \/ \E q \in Requests : Undone(q)
    BY <2>6, WebhookSteps, RecordCalm
  <2> QED
    BY <1>4, <2>1, <2>2, <2>3, <2>4, <2>5, <2>6 DEF RefundNext
<1> QED
  BY <1>2, <1>3, <1>4

(* What the cancellation does not see as disposition, no file has. *)
LEMMA NothingHeld ==
    ASSUME ReturnsInv, ~returns.disposition, NEW f \in Files
    PROVE  /\ files[f].restocked = Zero
           /\ fileRefund[f].status \notin ActiveRefund \cup {"SUCCEEDED"}
           /\ ~Owed(f)
<1>1. ~HoldsGoods(files[f], fileRefund[f])
  BY Zenon DEF ReturnsInv, FilesAgree, Seen
<1> QED
  BY <1>1 DEF HoldsGoods, ReturnsInv, FileFlightAgrees

(* What the order does not touch. *)
LEMMA FilesStay ==
    ASSUME ReturnsInv, UNCHANGED <<fileVars, returns>>
    PROVE  /\ FilesTypeOK' /\ FilesAgree' /\ FileFlightAgrees'
           /\ \A fs \in SUBSET Files : AmountOf(fs)' = AmountOf(fs)
           /\ \A f \in Files : Owed(f)' = Owed(f)
           /\ CentsOf(fileRefund, {"SUCCEEDED"})' = CentsOf(fileRefund, {"SUCCEEDED"})
<1>1. /\ UNCHANGED <<files, fileRefund, fileCalls, fileAnswers, fileDeferred, fileWaiting, fileReceipts>>
      /\ UNCHANGED <<fileGateway, fileSent, returns>>
  BY DEF fileVars, fileRows, fileFlight, fileProvider
<1>2. FilesTypeOK'
  BY <1>1 DEF ReturnsInv, FilesTypeOK
<1>3. FilesAgree'
  BY <1>1 DEF ReturnsInv, FilesAgree
<1>4. FileFlightAgrees'
  BY <1>1 DEF ReturnsInv, FileFlightAgrees, FileAsked, Owed
<1>5. /\ \A fs \in SUBSET Files : AmountOf(fs)' = AmountOf(fs)
      /\ \A f \in Files : Owed(f)' = Owed(f)
      /\ CentsOf(fileRefund, {"SUCCEEDED"})' = CentsOf(fileRefund, {"SUCCEEDED"})
  BY <1>1 DEF AmountOf, CentsOf, Owed
<1> QED
  BY <1>2, <1>3, <1>4, <1>5

LEMMA CalmKeeps ==
    ASSUME ReturnsInv, UNCHANGED fileVars, Calm
    PROVE  ReturnsInv'
<1>1. /\ FilesTypeOK' /\ FilesAgree' /\ FileFlightAgrees'
      /\ \A fs \in SUBSET Files : AmountOf(fs)' = AmountOf(fs)
      /\ \A f \in Files : Owed(f)' = Owed(f)
      /\ CentsOf(fileRefund, {"SUCCEEDED"})' = CentsOf(fileRefund, {"SUCCEEDED"})
  BY FilesStay DEF Calm
<1>2. UNCHANGED <<files, fileRefund>>
  BY DEF fileVars, fileRows
<1>3. MoneyAgrees'
  <2>1. RefundedAccounted'
    BY <1>1 DEF Calm, RefundedAccounted, Confirmed, ReturnsInv, MoneyAgrees
  <2>2. {f \in Files : Owed(f)}' = {f \in Files : Owed(f)}
    BY <1>1
  <2>3. AmountOf({f \in Files : Owed(f)})' <= Total
    BY <1>1, <2>2 DEF ReturnsInv, MoneyAgrees
  <2>4. ASSUME NEW r \in Requests, NEW f \in Files
        PROVE  ~(RequestOwed(r)' /\ Owed(f)')
    <3>1. ~returns.disposition => ~Owed(f)
      BY NothingHeld
    <3>2. ~(RequestOwed(r) /\ Owed(f))
      BY DEF ReturnsInv, MoneyAgrees
    <3> QED
      BY <1>1, <3>1, <3>2 DEF Calm
  <2> QED
    BY <2>1, <2>3, <2>4 DEF MoneyAgrees
<1>4. UnitsAgree'
  BY <1>2, UnitsSame DEF Calm, ReturnsInv
<1>5. Cancelled'
  BY <1>1, <1>2 DEF Calm, ReturnsInv, Cancelled
<1> QED
  BY <1>1, <1>3, <1>4, <1>5 DEF ReturnsInv

LEMMA UndoneKeeps ==
    ASSUME CancelInv, ReturnsInv, UNCHANGED fileVars, NEW r \in Requests, Undone(r)
    PROVE  ReturnsInv'
<1>1. ~returns.disposition /\ order.status = "OPEN" /\ payment.refunded = 0
  BY DEF Undone, Cancellable, Paid, Untouched
<1>2. UNCHANGED <<returns, calls, gateway>>
  BY DEF Undone, RecordStep, provider
<1>3. order'.status = "CANCELLED" /\ payment'.refunded = Total /\ refund'[r].status = "SUCCEEDED"
  BY DEF Undone, Complete, CancelInv, TypeOK
<1>4. \A p \in Products : putBack'[p] = Basket[p]
  <2>1. \A p \in Products : putBack[p] = 0 /\ Basket[p] \in Nat
    BY <1>1, OrderAssumption DEF CancelInv, SaleAgrees
  <2> QED
    BY <2>1 DEF Undone, Complete
<1>5. /\ FilesTypeOK' /\ FilesAgree' /\ FileFlightAgrees'
      /\ \A fs \in SUBSET Files : AmountOf(fs)' = AmountOf(fs)
      /\ \A f \in Files : Owed(f)' = Owed(f)
      /\ CentsOf(fileRefund, {"SUCCEEDED"})' = CentsOf(fileRefund, {"SUCCEEDED"})
  BY <1>2, FilesStay
<1>6. UNCHANGED <<files, fileRefund>>
  BY DEF fileVars, fileRows
<1>7. \A f \in Files : /\ files[f].restocked = Zero
                       /\ fileRefund[f].status \notin ActiveRefund \cup {"SUCCEEDED"}
                       /\ ~Owed(f)
  BY <1>1, NothingHeld
<1>8. MoneyAgrees'
  <2>1. CentsOf(fileRefund, {"SUCCEEDED"}) = 0
    <3>1. {f \in Files : fileRefund[f].status \in {"SUCCEEDED"}} = {}
      BY <1>7
    <3> QED
      BY <3>1, SumEmpty, OrderAssumption DEF CentsOf, AmountOf
  <2>2. Confirmed(fileRefund)' = CentsOf(fileRefund, {"SUCCEEDED"})' + Total
    BY <1>3, Zenon DEF Confirmed
  <2>3. RefundedAccounted'
    BY <1>3, <1>5, <2>1, <2>2, OrderAssumption DEF RefundedAccounted
  <2>4. {f \in Files : Owed(f)}' = {f \in Files : Owed(f)}
    BY <1>5
  <2>5. AmountOf({f \in Files : Owed(f)})' <= Total
    BY <1>5, <2>4 DEF ReturnsInv, MoneyAgrees
  <2>6. \A q \in Requests, f \in Files : ~(RequestOwed(q)' /\ Owed(f)')
    BY <1>5, <1>7
  <2> QED
    BY <2>3, <2>5, <2>6 DEF MoneyAgrees
<1>9. UnitsAgree'
  <2>1. \A p \in Products : SumOf(Files, Restocked(p), Basket[p]) = 0 /\ Basket[p] \in Nat
    <3> TAKE p \in Products
    <3>1. \A f \in Files : Restocked(p)[f] = 0
      BY <1>7, ZeroIs DEF Restocked
    <3> QED
      BY <3>1, SumEmpty, OrderAssumption
  <2>2. \A p \in Products : putBack'[p] = SumOf(Files, Restocked(p), Basket[p]) + Basket[p] /\ putBack'[p] <= Basket[p]
    BY <1>4, <2>1
  <2>3. UnitsAccounted'
    BY <1>3, <1>6, <2>2 DEF UnitsAccounted, Restocked
  <2>4. Claimed' = Claimed /\ \A p \in Products : Requested(p)' = Requested(p)
    BY <1>6 DEF Claimed, Claims, Requested
  <2> QED
    BY <2>3, <2>4 DEF UnitsAgree, ReturnsInv
<1>10. Cancelled'
  BY <1>5, <1>6, <1>7 DEF Cancelled
<1> QED
  BY <1>5, <1>8, <1>9, <1>10 DEF ReturnsInv

-----------------------------------------------------------------------------
(* The order and its files together.                                           *)

AfterSalesInv == CancelInv /\ ReturnsInv

LEMMA NothingHappens ==
    ASSUME CancelInv, UNCHANGED vars
    PROVE  CancelInv'
BY DEF vars, rows, inFlight, carrier, provider, CancelInv, TypeOK, FlightAgrees, Asked, RequestsAgree, Live,
       SaleAgrees, CancellationWhole, GoodsAgree

LEMMA AfterSalesStep ==
    ASSUME AfterSalesInv, AfterSalesNext
    PROVE  AfterSalesInv' /\ (Next \/ UNCHANGED vars)
<1>0. CancelInv /\ ReturnsInv
  BY DEF AfterSalesInv
<1>1. CASE OrderNext
  <2>1. (ShippingNext \/ RequestNext \/ RefundNext) /\ UNCHANGED fileVars
    BY <1>1 DEF OrderNext
  <2>2. CancelInv'
    BY <1>0, <2>1, ShippingKeeps, RequestsKeep, RefundsKeep
  <2>3. ReturnsInv'
    BY <1>0, <2>1, OrderKinds, CalmKeeps, UndoneKeeps
  <2> QED
    BY <2>1, <2>2, <2>3 DEF AfterSalesInv, Next
<1>2. CASE FileNext
  <2>1. ReturnsInv' /\ (ReturnsStep \/ UNCHANGED vars)
    BY <1>0, <1>2, FilesKeep
  <2>2. CancelInv'
    BY <1>0, <2>1, ReturnsKeep, NothingHappens
  <2> QED
    BY <2>1, <2>2 DEF AfterSalesInv, Next
<1> QED
  BY <1>1, <1>2 DEF AfterSalesNext

LEMMA AfterSalesInvariant == AfterSalesSpec => []AfterSalesInv
<1>1. Init /\ FilesInit => AfterSalesInv
  BY CancelInit, ReturnsInit DEF AfterSalesInv
<1>2. AfterSalesInv /\ UNCHANGED <<vars, fileVars>> => AfterSalesInv'
  <2> SUFFICES ASSUME CancelInv, ReturnsInv, UNCHANGED <<vars, fileVars>>
               PROVE  AfterSalesInv'
    BY DEF AfterSalesInv
  <2>1. CancelInv'
    BY NothingHappens
  <2>2. Calm
    BY DEF Calm, vars, rows, inFlight, provider, RequestOwed
  <2> QED
    BY <2>1, <2>2, CalmKeeps DEF AfterSalesInv
<1>3. AfterSalesInv /\ [AfterSalesNext]_<<vars, fileVars>> => AfterSalesInv'
  BY <1>2, AfterSalesStep
<1> QED
  BY <1>1, <1>3, PTL DEF AfterSalesSpec

-----------------------------------------------------------------------------
(* What the runs check, for every order and every set of files.                *)

(* Every file, attempt and message keeps its type: no quantity exceeds the basket and no *)
(* amount the total.                                                                      *)
THEOREM FilesTypeCorrect == AfterSalesSpec => []FilesTypeOK
<1>1. AfterSalesInv => FilesTypeOK
  BY DEF AfterSalesInv, ReturnsInv
<1> QED
  BY <1>1, AfterSalesInvariant, PTL

(* The refunded amount of the payment is what the attempts of the files and of the       *)
(* cancellation confirm, in whatever order they are settled                               *)
(* (applyShopReturnRefundEvidenceInTransaction recomputes it).                            *)
THEOREM RefundsAreAccounted == AfterSalesSpec => []RefundedAccounted
<1>1. AfterSalesInv => RefundedAccounted
  BY DEF AfterSalesInv, ReturnsInv, MoneyAgrees
<1> QED
  BY <1>1, AfterSalesInvariant, PTL

(* Every unit back in stock was put back by a file or by the cancellation, never by both, *)
(* and no more than were sold (restockShopReturn).                                        *)
THEOREM UnitsAreAccounted == AfterSalesSpec => []UnitsAccounted
<1>1. AfterSalesInv => UnitsAccounted
  BY DEF AfterSalesInv, ReturnsInv, UnitsAgree
<1> QED
  BY <1>1, AfterSalesInvariant, PTL

(* The provider never gives back more than the order cost, files and cancellation         *)
(* together (reserveShopRefund, reserveCancellationRefund).                               *)
THEOREM MoneyIsBounded == AfterSalesSpec => []MoneyBounded
<1>1. ASSUME AfterSalesInv
      PROVE  MoneyBounded
  <2> DEFINE given == {f \in Files : fileGateway[f] \in {"PENDING", "SUCCEEDED"}}
             owed == {f \in Files : Owed(f)}
             asked_ == \E r \in Requests : gateway[r] \in {"PENDING", "SUCCEEDED"}
             h == [f \in Files |-> files[f].amount]
  <2>1. MoneyAgrees /\ FilesTypeOK
    BY <1>1 DEF AfterSalesInv, ReturnsInv
  <2>2. given \subseteq owed /\ given \in SUBSET Files /\ owed \in SUBSET Files
    BY DEF Owed
  <2>3. \A f \in Files : h[f] \in Nat
    BY <2>1, FileIs
  <2>4. AmountOf(owed) <= Total
    BY <2>1 DEF MoneyAgrees
  <2>5. asked_ => given = {}
    BY <2>1 DEF MoneyAgrees, RequestOwed, Owed
  <2>6. AmountOf(given) = SumOf(given, h, Total) /\ AmountOf(owed) = SumOf(owed, h, Total)
    BY DEF AmountOf
  <2>7. MoneyBounded <=> AmountOf(given) + (IF asked_ THEN Total ELSE 0) <= Total
    BY Zenon DEF MoneyBounded
  <2> HIDE DEF given, owed, asked_, h
  <2>8. /\ SumOf(given, h, Total) <= SumOf(owed, h, Total) /\ Total \in Nat
        /\ SumOf(given, h, Total) \in Nat /\ SumOf(owed, h, Total) \in Nat
    BY <2>2, <2>3, SumGrows, SumIsNat, OrderAssumption
  <2>9. given = {} => SumOf(given, h, Total) = 0
    BY <2>8, SumEmpty
  <2>10. CASE asked_
    <3>1. AmountOf(given) + Total <= Total
      BY <2>5, <2>6, <2>8, <2>9, <2>10
    <3> QED
      BY <2>7, <2>10, <3>1
  <2>11. CASE ~asked_
    <3>1. AmountOf(given) + 0 <= Total
      BY <2>4, <2>6, <2>8
    <3> QED
      BY <2>7, <2>11, <3>1
  <2> QED
    BY <2>10, <2>11
<1> QED
  BY <1>1, AfterSalesInvariant, PTL

(* To the order, its files do only what its cancellation expects of them (ReturnsStep),   *)
(* so every theorem about ShopCancellation holds beside them.                             *)
THEOREM FilesKeepCancellation == AfterSalesSpec => KeepsCancellation
<1>1. AfterSalesInv /\ [AfterSalesNext]_<<vars, fileVars>> => [Next]_vars
  BY AfterSalesStep
<1> QED
  BY <1>1, AfterSalesInvariant, PTL DEF AfterSalesSpec, KeepsCancellation, Spec

(* Beside its files a cancellation stays whole, goods and money never both leave, and the *)
(* order settles as ShopSettlement promises: at once and whole, or file by file.          *)
THEOREM AfterSalesSettle == AfterSalesSpec => []CancellationWhole /\ []NeverShippedAndRefunded /\ ImplementsSettlement
<1>1. Spec => []CancellationWhole /\ []NeverShippedAndRefunded /\ ImplementsSettlement
  BY CancellationIsWhole, GoodsOrMoney, CancellationImplementsSettlement
<1> QED
  BY <1>1, FilesKeepCancellation DEF KeepsCancellation
=============================================================================
