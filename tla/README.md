# A verification project for LNXBeats

LNXBeats (`src/`) is a Next.js application over PostgreSQL (Prisma): a shop of physical goods, a
shop of music and licences, member accounts, an administration, a notification outbox and the
payment flows through Stripe and PayPal that connect them. This directory holds TLA+ models of its
transactional core, the TLC configurations that check them on small instances, and theorems that
TLAPS proves for every size.

All servers share one database and nothing else, so the hard part of the program is what happens
between transactions: two requests of one member, a webhook that overtakes the answer of the call
that caused it, a job that runs while an administrator edits, a process that dies between a
provider call and the transaction that records it.

## 1. Inventory

| Part | State | Operations | What must hold |
|---|---|---|---|
| Shop orders and stock (`lib/shop/order-service.ts`, `order-domain.ts`, `readiness-scheduler.ts`) | `shop_orders`, `shop_order_items`, `stock_reservations`, `products.stock` | create, cancel, two expiry jobs | no oversell; exact stock ledger; closed orders stay closed |
| Shop payments (`payment-service.ts`, `payment-repository.ts`, `payment-domain.ts`, `payment-webhooks.ts`) | `payments`, `provider_events`, terms and review flag of the order | checkout, capture, reconcile | one winner; no lost money; paid evidence is immutable; stock moves once |
| Product administration (`product-service.ts`) | `products`, `product_stock_adjustments` | stock edit and adjustment, publication | stock never below the live reservations |
| Provider financial events (`lib/payments/provider-financial-events.ts`) | receipts, refund evidence, review flags | refund webhook, dispute, reversal | a refund is heard of; a dispute blocks |
| Cancellation and refunds (`customer-request-service.ts`, `refund-finalization-service.ts`, `refund-accounting-safety.ts`, `order-coordination.ts`) | customer requests, `refund_attempts` | request, decide, call, evidence, finalise | refunded once, whole, and never beside a shipment |
| Fulfilment and carriers (`fulfillment-service.ts`, `shipping-provider-service.ts`) | fulfilment status, shipping attempts | prepare, track, ship | excluded by the cancellation barrier |
| Returns (`after-sales-service.ts`) | after-sales files, refund attempts, dispositions | receive, inspect, refund, restock | never more money or units than were sold |
| Music order payments (`lib/payments/service.ts`, `webhook.ts`, `paypal-service.ts`) | `orders`, `payments`, receipts | checkout, edit, cancel, reconcile | one winner, at the price of the order |
| Music deliveries (`lib/orders/delivery*.ts`, the media worker) | deliverables, upload sessions, objects at the storage | upload, recover, validate, clean, remove, publish | no file lost, no room used twice, every session ends |
| Notification outbox (`lib/notifications`) | `order_notifications`, events, suppressions | claim, send, mark, webhook | one mail per row; a row only moves forward |
| Rights, digital purchases, creations (`lib/rights`, `lib/digital`, `lib/creations`) | contracts, entitlements, media | workflows and media workers | section 9 |
| Accounts, administration, billing documents, presentation | - | - | not modelled, see section 8 |

How the parts interact: a payment transaction locks the notification, then the attempt, then the
order, and writes the order, its reservations and the products through the same helpers as the
order service. Everything that happens to a paid Shop order takes `lockShopOrderForMutation` first:
cancellation, files, carriers and refund webhooks meet there. Jobs and administrators lock the
order row or the product. Business transactions write outbox rows; the workers of the outbox, the
providers, the carrier and the object storage are called outside every transaction.
`PROJECT.json` lists the hazards, each at the line where it bites.

## 2. Modules

| Module | Models | Its promise |
|---|---|---|
| `ShopOrders` | orders, lines, reservations, product stock | ledger and coverage invariants |
| `ShopPayments` (extends `ShopOrders`) | attempts, checkout requests, captures, receipts, the providers | implements `ShopOrders` and `ShopSale` |
| `ShopSale` | abstract: money and goods of an order on offer | - |
| `ShopCancellation` | a paid order: preparation, carrier, requests, the refund of a cancellation | implements `ShopSettlement` |
| `ShopSettlement` | abstract: goods HERE, SENT or BACK, money and units given back | - |
| `ShopReturns` (extends `ShopCancellation`) | the after-sales files of the same order | implements `ShopCancellation` |
| `NotificationOutbox` | rows, workers, suppressions, the mail provider | its invariants |
| `MusicPayments` | attempts of a music order that may be edited and repriced | its invariants |
| `MusicDeliveries` | uploads of deliverables, the media worker, publication | its invariants |
| `MC*` | symmetry, baskets and constraints of the small instances | - |
| `*Proofs` (eight) | theorems, section 7 | - |

A transaction under a lock is one atomic action. A request is split into actions exactly where the
code leaves its transaction, and there it may die; nothing obliges it to go on.

### ShopOrders

Each operation of the code is one READ COMMITTED transaction that begins with an advisory lock or a
`FOR UPDATE`, so one atomic action stands for it.

* `orders[o]` is one row of `shop_orders`; an element of `Orders` is a creation token, so a second
  call with the same token finds the row and changes nothing. `deadline` is
  `reservationExpiresAt`, which every reservation of the order shares. `review` is
  `paymentReviewAt # null`; `terms` are the accepted terms.
* `quantity` are the order lines, `reservation` their `stock_reservations` (`NONE` when the line
  does not exist). Lines of untracked products have no reservation and are not represented: a
  basket of them is the basket that is 0 everywhere.
* `supplied` is a history variable: the initial stock plus the `delta` of every administrator's
  `ProductStockAdjustment`.
* `CreateOrder`, `CancelOrder`, `ExpireReservations`, `SetStock` are `createShopOrder`,
  `releaseShopOrderReservation` (called by `cancelMemberShopOrder`), both expiry jobs, and
  `updateAdminProduct` / `adjustAdminProductStock`. The jobs select with `SKIP LOCKED` and a
  `LIMIT`, so a batch is any non-empty set of overdue orders.
* `AcceptTerms`, `ConfirmSale`, `HoldOrder` are the three ways in which payment transactions touch
  an order.
* A reading of the clock taken before a lock wait may be old: `ReadInstants` are the readings a
  transaction that commits now may hold. `LockWait = 0` is the ideal in which locks are free.

### ShopPayments

`attempts[a]` is a row of `payments` (`session`: `providerCheckoutId` is stored; `paid`: `paidAt` is
stored). A checkout request is split where the code leaves its transaction:
`StartAttempt`/`ResumeAttempt` (`reserveAttempt`), `ObtainSession` (the provider call),
`ReadForSession` and `WriteSession` (`recordSession`). The last is two actions because it locks
only its own attempt: a transaction under the lock of the *order* (the review or the sale of a
sibling) may run between its read and its write. `RevivalConflict` is the partial unique index that
then refuses the write, and `RetryRecordSession` the retry of `inLockedPaymentTransaction`.
`AbandonCheckout` is a crash, an error or a time-out at any step.

`gateway`, `sent` and the actions under "External" are Stripe, PayPal and the customer. A
notification in `sent` is never removed, so it is delivered late, in any order and any number of
times. A capture is announced twice: by the answer of the capture call and by a webhook, under
different event ids. `consistent = FALSE` stands for every contradiction that
`sourceMismatch` looks for other than a session the row does not hold. The customer pays only on
the page that `recordSession` has committed; a session the shop never recorded can still expire.

`Reconcile(e, now)` is `reconcile`: `Plan` is `planShopPaymentReconciliation` with its early
returns in order, followed by the checks of terms and stock; `ReviewLoser`, `ReviewCapture`,
`RecordPending`, `RecordFailure`, `RecordReceipt` and `Confirm` are its branches. `WaitForLocks`
records that a reconciliation took its clock and waits.

`ShopSale`: an order is offered once; money that arrives buys the whole basket of an order on
offer, or holds the order for a human; nothing else takes goods. `KeepsSalePromise` says that
`ShopPayments` implements it under the mapping at the end of that module.

### ShopCancellation

One order after its sale; its reservations are taken as CONFIRMED, which `ShopPayments` shows.

* `order`, `requests`, `corrections`, `refund`, `payment`, `putBack` are rows: the order with its
  review flag, fulfilment and tracking source; the members' requests to cancel or to correct the
  address; the refund attempt of each cancellation; the winning payment; the units back in stock.
  `returns` is what a cancellation reads of the after-sales files.
* `calls` are requests whose refund is reserved (`reserveCancellationRefund`) and not yet asked
  for, `answers` what the provider told a server that has not recorded it; either server may die.
  `deferred` are receipts kept until an answer proves the refund; `waiting` are webhooks that
  chose their attempt before they took the lock of the order; `receipts` are stored notifications.
* `shipment` and `carrierCalls` are the carrier attempt and the requests under way at the carrier;
  its late answer meets the barrier of a cancellation.
* `gateway`, `asked`, `sent` are external. Evidence says of its origin `MATCH` (the application's
  reference and the provider's fields agree), `MISSING` (the right refund without the reference)
  or `MISMATCH` (the fields differ).
* The barrier is `findShopCancellationBarrier`, its converse
  `findUnresolvedShopShippingIntent`. The finaliser is
  `applyShopCustomerCancellationEvidenceInTransaction`.

`ShopSettlement` says in three actions what is promised: a cancellation gives all the money and the
whole basket back in one step and only while the goods are here; files give back part by part.

### ShopReturns

A file goes from request to closing (`Transitions` is `assertTransition`); receipt, inspection,
refund and restock are transactions of their own. Each file owns one refund attempt; calls,
answers, deferred receipts and webhooks work as for a cancellation and reuse its row operators, but
the capacity of the payment is shared (`reserveShopRefund`). Sums of quantities and of cents are
counted unit by unit (`SumOf`); the code sums them with `groupBy` and `aggregate`.
`KeepsCancellation` states that the composition implements `ShopCancellation`, whose `ReturnsStep`
is what it expects of the files.

### NotificationOutbox

`rows` are `order_notifications`; `Enqueue`, `Select`, `Claim`, `Send`, `MarkSent`, `MarkFailed` are
the scheduler's batch, the claim under the advisory lock of the row, the provider call, and the two
result transactions. `WorkerDies` may happen anywhere, and a worker whose lease ran out still acts.
`handled` and `unmatched` are the provider's events (an event may arrive before its row knows the
mail it is about); `suppressed` the addresses. Durations are abstracted to what they decide: a
lease is held or expired, a row is due or not, the first claim is recent (under twelve hours) or
not. Dates that are compared are ticks of a clock that advances with the provider's events.
`kept` says for which rows the provider still knows the idempotency key.

### MusicPayments

One order with its price and status, and its attempts in creation order; each keeps the amount it
was created with. `checkout` is split like that of the Shop. `closing` are requests that close a
Stripe session: `prepareOrderForEditing` before an edit, or after a cancellation. `IndexHolds` is
the partial unique index of active attempts, which refuses a write that would revive a second one.
The index of succeeded payments is left out: `OneWinner` is proved without it. The reconciliations
of Stripe (`webhook.ts`) and of PayPal (`paypal-service.ts`) differ and are separate actions: only
the latter compares with the current price of the order.

### MusicDeliveries

`order` is MAKING (paid, in production), HELD (a refund is under way), DELIVERED or CLOSED.
`sessions` are the rows of direct uploads; `jobs` is what the request of a session, a
single-request upload or a media worker is doing, step by step: every statement or transaction is
an action and the calls to the storage lie between them. The transaction that attaches a file is
two actions, `BeginAttach` (the lock of the order, the unlocked reading of the lease at
`delivery-direct-worker.ts:55`, the room) and `CommitAttach` (the write by id at `:68`), because the
claim, the heartbeat, the end of a validation, the expiry and the clean-up do not take that lock and
fall between them; what does take it waits (`OrderFree`). `AbandonAttach` is a rollback. `overtaken`
is a history variable: sessions that another worker claimed in that gap. `multipart` and `objects`
are what the storage holds; the attaching transaction never asks for the object. A worker recovers uploads whose browser left, validates files in quarantine under a
lease with a token, and cleans terminal sessions; it may hang past its lease, overlap with another
worker, or die. `removing` are detached deliverables whose object is to be deleted.

## 3. Runs

| Run | Bounds | Question |
|---|---|---|
| `orders_stock` | 2 orders, 2 products, stock and quantities up to 2, 3 instants, `LockWait = 1` | Do two baskets, edits and jobs, with old clock readings, ever take promised goods, or break the ledger? |
| `payments_race` | 1 order, 2 attempts, Stripe and PayPal; declined cards and contradictory evidence one at a time, with Stripe attempts | Can an order have two winners, a winner that settles nothing, or lose paid evidence; is `ShopSale` kept? |
| `payments_slow` | 1 attempt, `LockWait = 1`, fair | Are the orders' rules kept with old readings; does money reach the order; do offers end? |
| `cancellation` | 2 cancellation requests, 1 correction, every kind of evidence, a carrier | Is the order refunded once, whole, never beside a shipment; is `ShopSettlement` kept? |
| `returns_money` | 1 cancellation request, 1 file, a shipping fee, no lookups of refunds | Do a file and a cancellation ever refund or restock the same thing twice? |
| `returns_files` | 2 files, 2 units | Do two files share the payment's capacity exactly? |
| `refunds_heard` | 2 approved files, or 1 cancellation; only `MISSING` references; no lookups; fair | Is a refund that only webhooks tell of heard? |
| `outbox` | 1 row, 2 workers, 2 attempts, 2 provider events, fair | Is a mail sent twice, an event lost, a row set back, or stuck? |
| `music_payments` | 2 attempts, 2 prices, both providers, at most two requests under way | Can an edited order be paid twice, at a wrong PayPal price, or lose money? |
| `music_deliveries` | 1 place, 1 direct and 1 single-request upload, 2 workers, fair | Is a file lost, a place used twice, a publication changed, a session open for ever? |
| `late_sale` (violation) | `LockWait = 1` | A tracked unit sold after the deadline. |
| `unpaid_frozen` (violation) | 1 Stripe attempt, fair | An unpaid reservation that stays ACTIVE for ever. |

Why the bounds suffice. Two orders are what a conflict over stock needs, two products what a partly
sold basket needs; quantity 2 tells "a unit" from "a line". Two attempts of one order cover every
rule that relates siblings. Orders share nothing in `ShopPayments` but stock, which `orders_stock`
covers through the same actions and `ImplementsOrders` carries over. `Ttl = 1` gives the instants
before and at the deadline, and `MaxTime` caps the clock. Two requests, two files or two workers
are what each exclusion relates. The outbox locks row by row, and rows share only the suppression of
an address, which the theorems cover for any number of rows. One place for two uploads is the race
for the last place; the theorems cover every number of each.

The constraints, all in the MC modules, leave out products of complications that no action relates:
`MCShopPayments!OneComplication`, `MCShopCancellation!OneComplication` (preparation, unclear
references, files, a second request), `LookupsAlone`, `TwoRequests`, and `OneWorkerBesideUploads`
(no worker deals with a single-request upload, so one worker beside it is enough; two workers
overlap when none is there). The theorems of section 7 have none of them. A constraint only removes
behaviours, so a safety property is checked for those that remain; in `music_deliveries`, the
only run with a constraint and a liveness property, it removes the interleavings of a second worker
beside a single-request upload and nothing else. Symmetry is used only in runs without liveness
properties. `CHECK_DEADLOCK FALSE`: with bounded time, orders, attempts and files the models stop.

The type invariants of `ShopOrders`, `ShopPayments`, `ShopCancellation`, `MusicPayments` and
`MusicDeliveries` are theorems and no property of a run. Each property of a run has a mutant: a
plausible error in one definition that makes TLC find it violated (the operators marked "Mutant
of").

## 4. Properties

Shop sale:

* `StockLedger`: shelf plus confirmed units is what was supplied. `PromisesKept`: however old the
  clock readings are, no creation, edit, expiry or sale takes goods that are promised to a live
  reservation, except a sale after its deadline (finding 1), and that takes its own units at most.
* `StockFollowsPayment`: a line is CONFIRMED exactly when its order is PAID.
* `OneWinnerPerOrder`, `OneActivePerProvider`: the transactions alone keep what the two partial
  unique indexes also forbid, so no receipt is ever lost to a P2002.
* `PaidOrderBacked`, `WinnerSettlesOrder`, `CapturedMoneyAccounted`: sales and winners, money and
  reviews correspond. `PaidEvidenceKept`: paid evidence survives everything that arrives later.
* `ImplementsOrders`, `KeepsSalePromise`: refinement, below and above.
* `MoneyReachesOrder`, `OffersEnd`: liveness.

Shop after the sale:

* `CancellationWhole`: an order is cancelled exactly when its refund succeeded and its request is
  completed, and then all the money and the whole basket came back.
* `NeverShippedAndRefunded`: once the provider may give the money back, nothing is shipped or
  tracked. `FailureProven`: an attempt is FAILED, which frees the goods, only when the provider
  certainly did not pay. `AskedOnce`: the provider is asked for one refund, once.
* `ConfirmationKept`: a stored confirmation is never lost nor contradicted.
* `MoneyBounded`, `UnitsAccounted`, `RefundedAccounted`: cancellation and files together never give
  back more money or units than were sold, and the payment's refunded amount is their sum.
* `ImplementsSettlement`, `KeepsCancellation`: refinement.
* `RefundHeard`, `FileRefundHeard`: money the provider gave back ends in a refunded request or a
  review. `GoodsStay` (a theorem only): while a refund is contested the preparation stands still.

Outbox: `AtMostOneMail`, `NoneLeftBehind` (an event that came too early is applied later),
`SuppressionCurrent`, `MovesForward`, `SettledOrExhausted` (every row ends, unless the worker of its
last attempt dies: section 6).

Music: `OneWinner`, `MoneyAccounted`, `PaypalAtCurrentPrice`; `FileLostOnlyIfOvertaken` (the file of
a deliverable is in the storage, unless its session was claimed by a second worker in the gap of the
first one's transaction: finding 5), `CleanedIsGone`, `WithinLimit`, `PublishedStands`,
`SessionsEnd`.

## 5. Fairness

* `WF(PassTime)`: clocks advance.
* `WebhooksArrive`, `Webhooks`, `FileWebhooks`: providers redeliver a webhook until it is
  acknowledged. The first is strong fairness, since a handler that loses a lock is called again;
  the others are weak fairness of choosing the attempt and of recording. The answer of a call is
  delivered at most once and gets no fairness; the webhook of the same event makes up for it.
* `TransactionsEnd`: a `recordSession` that holds the lock of its attempt ends (a transaction has
  a time-out). Nothing obliges a request to get as far as its session: a crash is always allowed.
* `ExpiryJobRuns`: the job is invoked again and again. This is an assumption about operations: the
  repository leaves the cadence of the maintenance job to the deployment
  (`docs/SHOP_PRODUCTION_READINESS_PHASE5E.md:17`).
* `Dispatching`: the scheduler runs the dispatcher every five minutes, a live worker goes on,
  leases and delays run out. Claims are strongly fair: workers do not all die, time after time,
  between selecting a row and claiming it. A worker may die after each claim, and then
  `SettledOrExhausted` rests on the count of attempts.
* `FairSpec` of `MusicDeliveries`: the worker polls every three seconds. A validation ends: the abort
  signal of five minutes bounds its download, ffmpeg runs under a time-out of its own
  (`lib/catalog/ffmpeg.ts`), the other inspections read one local file, and Prisma ends a
  transaction that lasts too long. A worker may die, but not at every try: beginning, going on,
  storing and ending with a session are strongly fair over all workers together, because the status
  of a session allows a recovery, a validation or a clean-up to begin and never two of them.
  Browsers get no fairness.

## 6. What the runs found

Two disagreements of the code with its documents have a run:

1. `late_sale`. `reconcile` takes `now = new Date()` before it waits for three locks, and uses it
   to decide whether the reservation is still valid. A sale, of a tracked unit in the trace, can
   therefore commit after the deadline, which `docs/SHOP_INVENTORY.md:132-133` excludes. The stock
   check still prevents a negative stock, but the unit may already be promised to another live
   reservation: that is the exception in `PromisesKept`.
2. `unpaid_frozen`. If the process dies between the provider call and `recordSession`, the session
   exists at Stripe and not in the row. Its expiry notification is then a mismatch and puts the
   *unpaid* order under review; the expiry jobs and the cancellation skip orders under review, so
   the reservation stays ACTIVE in the table. It stops counting as reserved after its deadline, so
   stock is not lost.

Three more are stated as definitions that no run lists; name them as the `INVARIANT` of the
configuration in brackets (with `SPECIFICATION Spec`) to see TLC's trace:

3. `SessionAtCurrentPrice` (`music_payments.cfg`). `docs/CHECKOUT.md:63` says that a session at the
   old amount never stays payable after an edit. A Stripe session that was asked for before
   `prepareOrderForEditing` and is recorded after it (`lib/payments/service.ts:375`, `:436`) is
   payable at the old amount, and the Stripe webhook compares with the amount of the attempt only:
   the order is confirmed at a price it no longer has. PayPal compares with the order, and
   `PaypalAtCurrentPrice` holds.
4. `AttachedAndReserved` (`music_deliveries.cfg`). `docs/order-delivery-direct-r2.md:15` speaks of
   "eight attached/reserved deliveries per order". `initializeDeliveryUpload` counts both;
   `persistOrderDelivery` of the single-request upload (`lib/orders/delivery.ts:183`) counts
   deliverables only. It can take the reserved place, and the direct upload is rejected after it was
   sent in full. The limit itself is never passed (`WithinLimit`).
5. `FileBehindDelivery` (`music_deliveries.cfg`). `docs/order-delivery-direct-r2.md:29` says that
   "READY objects are never targeted by this cleanup". A worker reads its lease without locking the
   row (`delivery-direct-worker.ts:55`), stalls, and writes READY by id (`:68`). When its lease has
   run out in between, another worker may have claimed and rejected the session and read it for its
   clean-up, which then deletes the object of an attached deliverable: 19 states. The lease lasts ten
   minutes and is renewed every minute, and the gap is one transaction, so the renewals must have
   failed for as long before. A write that asked for the token again would close it.

Traces worth knowing, found while modelling:

* `notifications/service.ts:954`: when the worker of the fifth claim dies, the row stays PROCESSING
  for ever, for the claim query wants `attempts < MAXIMUM_NOTIFICATION_ATTEMPTS`
  (`docs/NOTIFICATION_OUTBOX.md:13` promises a final state). That is why the liveness property has
  the alternative `Exhausted`. A stale worker's `markFailed` may also end a newer worker's claim,
  without a second mail.
* `customer-request-service.ts:385`: `markCancellationAmbiguous` overwrites the failure code of a
  mismatch, so that the next matching webhook lifts a review which
  `docs/SHOP_PAYMENTS_LIVE_READINESS_V1.1.0.md:26` wants to keep. A PENDING answer recorded after a
  deferred SUCCEEDED webhook leaves a CONFLICT review for good; a process that dies before the
  provider call leaves the barrier raised for good. Neither loses money or goods.
* `paypal-service.ts:472`: Stripe attempt 1 and PayPal attempt 2 are pending and 2 is reserved for
  capture; an edit cancels 2; PayPal attempt 3 is created and its `recordSession` reads CREATED;
  attempt 1 is paid, confirms and cancels 3; the stale write revives 3 to PENDING. The success of 2
  must become REQUIRES_REVIEW, which `payments_one_active_per_order_idx` refuses at every
  redelivery: the captured money has no receipt (`docs/PAYMENTS.md:38`). It needs three attempts;
  `MoneyAccounted` speaks of successes that have a receipt.
* `orders/delivery.ts:300`: when the answer to the commit of `persistOrderDelivery` is lost, the
  compensation deletes the file of a deliverable that is attached (`docs/DELIVERY.md:47`). The
  model has it, and `FileLostOnlyIfOvertaken` speaks of direct uploads only.
* `resend-webhook.ts:204`: a manual suppression survives the provider's removal, as
  `scripts/test-notifications-runtime.ts:890` expects, unless the provider reported a bounce or a
  complaint in between: that replaces the reason MANUAL, and the removal then lifts it.
* After-sales: a file whose refund FAILED stays REFUND_PENDING; a REJECTED file that was CLOSED
  counts again in the sum of quantities; an address correction is allowed after a carrier attempt.
* Music: a FAILED attempt that cannot be retried blocks editing for good; a declined card while a
  PayPal attempt is open sends the Stripe attempt to review; a revived PENDING attempt may stay open
  on a paid order. A direct upload still under way when the order is published ends REJECTED. The
  clean-up takes the ten oldest rows, so ten whose abort keeps failing would starve the others.

## 7. Proofs

Eight modules hold theorems, for every value of the constants that the named assumptions allow. The
assumptions say that bounds are naturals, sets of orders and rows finite, quantities positive,
providers Stripe and PayPal, and identifiers of different kinds distinct; TLC evaluates them in
every run.

| Theorem | States | Argument |
|---|---|---|
| `OrdersTypeCorrect` | `OrdersTypeOK`, so no negative stock | `StockSuffices` guards the decrement |
| `GoodsFollowMoney` | `StockFollowsPayment` | invariant `OrdersInv` |
| `ClosedOrdersStay` | `ClosedForGood` | from `OrdersInv`, action by action |
| `LedgerExact` | `StockLedger` | a sale adds exactly the line's units (`LedgerStep`) |
| `ReservationsHold` | `PromisesKept`, for every `LockWait` | `CreateOrderKeeps` (an older reading reserves more), `ConfirmSaleKeeps`, `FewerLive` |
| `PaymentsTypeCorrect` | `TypeOK` | invariant `PaymentsInv` |
| `PaymentsImplementOrders` | `ImplementsOrders` | `NextSimulates`, under `PaymentsInv` |
| `PaymentsKeepGoods` | `StockFollowsPayment`, `ClosedForGood` of the whole system | the two theorems about orders, through the simulation |
| `OneWinner`, `OneActive`, `SalesAreBacked`, `MoneyIsAccounted`, `WinnersSettle` | the five payment invariants | invariant `MoneyInv` |
| `SalePromise` | `KeepsSalePromise` | every step maps to Offer, Close, Sell, Hold, Recount or a stutter, under `MoneyInv` |
| `EvidenceIsKept` | `PaidEvidenceKept` | from `MoneyInv`, action by action |
| `CancellationTypeCorrect`, `CancellationIsWhole`, `FailuresAreProven`, `GoodsOrMoney`, `ProviderAskedOnce` | `TypeOK`, `CancellationWhole`, `FailureProven`, `NeverShippedAndRefunded`, `AskedOnce` | invariant `CancelInv` |
| `ConfirmationsAreKept`, `GoodsStayPut` | `ConfirmationKept`, `GoodsStay` | from `CancelInv`, action by action |
| `CancellationImplementsSettlement` | `ImplementsSettlement` | every step maps to Send, Cancel, GiveBack or a stutter |
| `FilesTypeCorrect`, `RefundsAreAccounted`, `UnitsAreAccounted`, `MoneyIsBounded` | `FilesTypeOK`, `RefundedAccounted`, `UnitsAccounted`, `MoneyBounded` | invariant `AfterSalesInv`: `CancelInv` and `ReturnsInv` |
| `FilesKeepCancellation` | `KeepsCancellation` | every step of a file maps to `ReturnsStep` or a stutter, under `AfterSalesInv` |
| `AfterSalesSettle` | `CancellationWhole`, `NeverShippedAndRefunded`, `ImplementsSettlement`, beside the files | the theorems about the cancellation, through that refinement |
| `OutboxTypeCorrect` | `TypeOK` of the outbox | least failing date of a fold |
| `RowsMoveForward` | `MovesForward` | action by action, from `OutboxTypeCorrect` |
| `MailSentOnce` | `AtMostOneMail` | invariant `MailInv` |
| `EarlyEventsApplied` | `NoneLeftBehind` | `Shape` and `EarlyAgrees` |
| `SuppressionsStand` | `SuppressionCurrent` | invariant `SuppressionInv` |
| `MusicTypeCorrect`, `OneMusicWinner`, `MusicMoneyAccounted`, `PaypalPriceCurrent` | `MusicTypeOK`, `OneWinner`, `MoneyAccounted`, `PaypalAtCurrentPrice` | invariant `MusicInv` |
| `DeliveriesTypeCorrect`, `FilesStayBehindDeliveries`, `CleanedStaysGone` | `DeliveriesTypeOK`, `FileLostOnlyIfOvertaken`, `CleanedIsGone` | invariant `FilesInv` |
| `LimitKept`, `PublishedDeliveriesStand` | `WithinLimit`, `PublishedStands` | `DeliverySteps`: how a step may change the deliverables, under `FilesInv` |

**`OrdersInv`** is needed because `StockFollowsPayment` is silent about an order under review,
whose lines must still be ACTIVE while it is unpaid, and about the lines of an order that does not
exist: `OrdersAgree` and `LinesFollowOrder` add both.

**`PaymentsInv`** adds to the types that a row that exists has an order that exists and accepted
terms (`RowsAgree`), and that every notification is about such a row and every clock reading is
recent (`NoticesAgree`). Without them a reconciliation could hold an order that does not exist, and
the simulation of the orders would fail.

**`MoneyInv`** is `PaymentsInv`, `OrdersInv` and `MoneyAgrees`. The invariants of the runs are not
inductive one by one: a sale has no second winner because a paid attempt implies a sold or held
order (`AttemptsAgree`), which in turn needs `PaidOrderBacked`; and the revival in `WriteSession`
is harmless only because an attempt that a checkout request has *read* as in progress cannot be
paid before the request writes, since `reconcile` needs the lock of the attempt. That is the last
conjunct of `AttemptsAgree`. There is one lemma per action that writes attempts; `QuietStep` covers
the others. The unique index of active attempts is used once, in `RevivalConflict`; the index of
winners nowhere.

**`CancelInv`** adds to the types that what is under way tells the truth about the provider and was
asked for once (`FlightAgrees`), that at most one request is live (`RequestsAgree`), that units or
money returned through a file are visible to the cancellation (`SaleAgrees`), and that goods stay
while money may leave (`GoodsAgree`). The barrier itself is no invariant argument: an attempt that
failed for certain may come under review again after the goods were shipped.

**`MailInv`**: a second mail needs a provider that forgot the key and a worker that still sends. The
first means that the first claim is old, and an old claim is refused. The model lets the provider
forget only then, so the theorem assumes that no provider call lasts twelve hours.
**`SuppressionInv`**: events have distinct dates, and a suppression is as new as the newest event
that asks for it.

**`TypeOK` and `MovesForward` of the outbox**: a row that learns its mail applies the early events
one after the other, in a recursive function. Its result is typed, and no further back than the
row, by a least-number argument: if it were not, there would be a first event (`LeastNumber`, from
the well-foundedness of the naturals) at which that fails, and the event before it refutes it. So a
claim about the function at one date needs no induction.

**`ReturnsInv`**: what the runs check is not inductive one by one.
* A file may enter `requested` units of the basket once. `createMemberShopReturn` sums the files
  that are neither REJECTED nor CANCELLED, and a REJECTED file that was CLOSED counts again, so that
  sum may pass the basket. `Claimed` counts CLOSED files only when they were restocked; its sum
  stays within the basket (`UnitsAgree`), and a unit is restocked only out of it.
* A file is `Owed` when its provider call is still to come or its money is gone or on its way. The
  amounts of the owed files stay within the total, and a request and a file are never owed at the
  same time (`MoneyAgrees`), because each reservation sees the other's attempt under the same lock.
* Messages tell the truth about the provider (`FileFlightAgrees`), and an order that is CANCELLED
  owes nothing to a file (`Cancelled`).
* `GivenBackIsSeen`: what files gave back is visible to `findShopReturnDispositionBarrier`. It makes
  a step of the files a `ReturnsStep`. Steps of the order either give nothing back and reserve only
  while no file holds the goods (`Calm`), or complete a cancellation (`Undone`).

**`MusicInv`** adds `StaleReads`: an attempt that `recordSession` has read as in progress can only
have been cancelled since, because `reconcile` waits for the lock of the attempt. Every
notification either confirms the order (`Wins`) or moves its own attempt (`Moves`), and every other
step is `Quiet`.

**`FilesInv`**: an object is deleted by a worker that read a terminal status some steps ago and
attached by one that read VALIDATING. `LockAgrees` says what a worker between its check and its
commit can rely on: it is the only one, the order and the room are as it found them, and its session
is still its own or was overtaken. `StoredAgree` says that a file in validation is stored, although
nobody asks for it then. `AttachedAgree` says that READY is final, `CleaningAgrees` what a worker in the middle of a clean-up relies on, `UploadsAgree` that a full multipart upload is
always stored in its row, so that a recovery cannot bring back what was cleaned.

**Sums of units.** In `ShopOrdersProofs` a unit is a pair (order, index), so a sum of quantities is
the cardinality of a set and a line of n units is {o} × 1..n: the ledger and the promises of the
reservations need unions and differences of finite sets, and no induction. `ShopReturns` counts
units and cents of files the same way (`SumGrows`, `SumWith`, `SumSplits`); its cap on what one file
has, the basket or the total, never bites, by `FilesTypeOK`.

Only model-checked: liveness (`MoneyReachesOrder`, `OffersEnd`, `RefundHeard`, `FileRefundHeard`,
`SettledOrExhausted`, `SessionsEnd`), which is out of the prover's reach. Every invariant and every
action or refinement property of a passing run is a theorem. The theorems about files hold for
whatever amount `reserveShopRefund` admits within the capacity; the price of the units itself
(`Cents`) is a sum over the products that no proof opens.

## 8. Not modelled, and why

Amounts, currencies, addresses, names and numbers are abstracted: whether evidence agrees with the
row is one Boolean (three values for refunds). Idempotency of writes inside one transaction,
logging, invoices, credit notes and the enqueueing of e-mails inside the sale have no effect on
this state. Inventory tracking switched off while an order is open only makes `stockCanBeConfirmed`
fail; the model has no such switch. `recordUnmatched` writes a receipt for a payment that does not
exist. Rate limits and environment checks refuse requests and are subsumed by requests that never
come. Authentication is taken as given. Stripe's idempotency keys of checkout calls are taken as
lasting. Locks are not visible: a deadlock aborts one transaction, which runs again.

Per module:

* `ShopCancellation`: a file that is also looking for the webhook of a cancellation's refund;
  the immediate refund of the test environment is a step of its own.
* `ShopReturns`: untracked products, evidence files and labels; `refundStatus`, which repeats the
  status of the attempt. `markAmbiguousRefund` and `markFailedRefund` of a file do not take the lock
  of the order; each is one transaction and one action.
* `NotificationOutbox`: the capture transport, disabled audiences, invalid payloads and a missing
  recipient (all end FAILED_FINAL), environments, the limit of a batch. A claim is atomic with the
  check of the suppression.
* `MusicPayments`: drafts, refunds, price formulas, consents.
* `MusicDeliveries`: the contents of files (a validation accepts, rejects or fails), the
  production statuses, members' attachments. DELIVERED is final; HELD and CLOSED stand for refunds
  and cancellations.

Presentation, search, feeds, translations, catalogue, accounts and read-only administration hold no
protocol state of their own. Rights, digital purchases and creations are on the plan.

## 9. Plan

Done: the modules and proofs above. What is left, in this order:

1. Refunds of music orders (`lib/payments/refund.ts`), with their webhooks.
2. Direct video uploads of creations, whose sessions and worker follow `MusicDeliveries`.
3. Rights requests, then digital purchases with their entitlements and media workers.
4. A model with one step per lock for `order-coordination.ts`, whose two modules hash the key of a
   product differently.
