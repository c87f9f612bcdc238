# BookShop: specifications of orders, stock, payments, after-sales, accounts and assets

This directory holds TLA+ models of the BookShop backend (`src/backend`, an
Express and MongoDB application), the TLC configurations that check them on
small instances, and theorems about them that TLAPS checks for every value of
the constants. All paths below are relative to the repository.

## 1. The system and its parts

Several instances of one Node process serve an HTTP API over one MongoDB
replica set. Each also runs timer jobs. State lives in MongoDB documents and
nothing is shared in memory between instances, apart from caches. Three outside
parties act on their own: payment gateways (MoMo, VNPay), the carrier (GHN) and
the customers. Three rules decide what can interleave:

* `runInTransaction` makes a function one snapshot transaction: two transactions
  that write the same document conflict and one of them is retried. A
  transaction is therefore **one step** of a model.
* A handler outside a transaction is a sequence of awaited queries. What it read
  before an `await` may be old when it writes: each query is a step, and the
  model tests what was read where the code does and what is stored where the
  filter of the update does.
* A call to a gateway, to the carrier or to the image provider is never inside
  a transaction. It lies **between** two steps, the second of which must look
  again at what the first one saw. Locks are fields with an expiry date and a
  token, so a holder may outlive its lock.

| Part | State | Operations | Works with | What makes it correct |
|---|---|---|---|---|
| Order state machine (`models/Order.js`, `orderService.js`) | `status`, `payment.status`, markers such as `inventoryRestoredAt` and `shippedAt` | checkout, payment success and failure, approval, dispatch, delivery, cancellation, expiry, refund, two sweeps | all the others | holdings are given back exactly once, captured money is answered for, no illegal transition |
| Stock and ledger (`inventoryService.js`) | `Book.stock`, `Book.reserved`, `Book.costPrice`, ledger rows | `applyMovement` (9 types), `setStockTo` | orders, warehouse documents, reshipments | `reserved` is what open orders hold; the ledger explains both counters |
| Vouchers (`voucherReservationService.js`) | `usedCount`, usage per customer | consume at checkout, release when an order dies | orders, gifts | limits hold, no use leaks or is released twice |
| Loyalty points (`loyaltyService.js`) | balance, debt, points ledger | redeem, refund, earn, claw back in parts, adjust | orders, returns, tickets | points are conserved; partial claw-backs converge |
| Loyalty gifts and tiers (`loyaltyService.js`, `loyaltyAdmin.js`, `loyaltyTier.js`) | `issuedCount`, `stock`, tier and grace date | redeem a gift, edit the catalogue, judge a tier | points, delivered orders | the issued number is the redemptions'; tiers settle |
| Refunds (`orderService.js`, `returnRequestService.js`, `paymentGateway.js`) | reference, key, lock, history, retries | queue, claim, submit, record, query, resubmit, callback, close by hand | gateway, orders, returns | the customer is paid once; every refund ends or reaches staff |
| Payment attempts (`retryPayment` and the callbacks) | `payment.attempts`, `retryLockUntil`, checkout URL | claim, open a session, record, callbacks, duplicate refunds | gateway | every captured payment is kept or returned, never both |
| Shipping (`shippingService.js`) | `shipment.*` | book, attach, discard, cancel, webhook, hand-over | carrier, orders | no live parcel for a closed order |
| Cancellation outbox (`orderCancellationService.js`) | `OrderOutboxEvent` | request, claim, finalise, back off, park, re-queue, confirm | shipping, orders | order and event agree; every cancellation ends or reaches staff |
| Warehouse documents (receipts, issues, counts) | document states, frozen count sheets, average cost | draft, edit, confirm, cancel, count, refresh, complete | stock | a document moves the stock once; a count tells the truth |
| Return requests (`returnRequestService.js`) | requested and received quantities, refund | request, verdict, receive, close | refunds, stock, points, tickets | no line is compensated twice |
| Support resolutions (`supportResolutionService.js`) | `resolution` of a ticket, refund counters of the order | refund, reship, return, recover, reconcile, close by hand | refunds, stock, points, orders | refund counters are the sums over the documents; no payment is forgotten |
| Sessions and credentials (`authService.js`, `accountTokenService.js`, `socketAuthService.js`) | `AuthSession`, `tokenVersion`, cookies, sockets | sign in, rotate, revoke, change a credential, revalidate a socket | HTTP layer | a changed password ends old sign-ins; at most ten sessions |
| Uploaded assets (`assetLifecycleService.js`) | `UploadedAsset`, files at the provider | upload, attach, release, expire, delete | books, posts, reviews, returns, tickets | no used image is deleted, no unused one stays but a stranded claim |
| Roles, cart, newsletter, alerts | permission cache, schedules | mail-outs | e-mail | outside the models (section 6) |
| HTTP layer, catalogue, analytics, frontend | none of interest | parsing, permissions, queries, pages | all | a matter of tests, not of interleavings |

Hard behaviours, and where they are listed: `PROJECT.json` names each hazard at
its line. They are, in short: callbacks that come late, twice or in any order;
answers that are lost after the effect has happened; locks that expire under
their holder; a check on a document read earlier; jobs that race customers and
staff; a process that dies between two steps; counters shared by many orders;
two compensations of one line through two channels; rounding that adds up.

## 2. The modules

| Module | Models | Notes |
|---|---|---|
| `Inventory` | `inventoryService.js`: the counters and the ledger of each book | the ledger is kept as two sums, the ones `reconcileStock` compares |
| `Tally` | sums over a finite set | each is the size of a set of units, so that facts about cardinality apply |
| `OrderLifecycle` | the transactions of `orderService.js`, with vouchers and points | EXTENDS `Inventory`, `Tally`; the core module |
| `Fulfilment` | abstract contract: where an order's copies and money are | `OrderLifecycle` INSTANCEs it and is shown to implement it |
| `RefundGateway` | *external*: the gateway's refund interface, as `paymentGateway.js` uses it | a key is executed at most once |
| `RefundFlow` | one refund, of an order, of a second capture or of a return: locking, submission, answers, queries, resubmission, callbacks | EXTENDS `RefundGateway` |
| `Carrier` | *external*: GHN, as `shippingService.js` uses it | a parcel and what the carrier may do with it |
| `Shipment` | `shippingService.js` and the hand-over of `routes/admin.js` for one order | EXTENDS `Carrier`; each request is a process |
| `CancellationOutbox` | `orderCancellationService.js` beside everything in `Shipment` | EXTENDS `Shipment` |
| `PaymentFlow` | payment attempts, sessions and callbacks of one order | |
| `AfterSales` | `returnRequestService.js` and `supportResolutionService.js` for one dispatched order | EXTENDS `Inventory`, `Tally` |
| `Warehouse` | `stockReceiptService.js`, `stockIssueService.js`, `stockCountService.js`, the manual correction and the average cost | EXTENDS `Inventory` |
| `Accounts` | `authService.js`, `accountTokenService.js`, `socketAuthService.js` and the handlers of `routes/auth.js`, `routes/users.js` that change a credential | |
| `Assets` | `assetLifecycleService.js`, its job, and the five ways documents take their images | |
| `Loyalty` | gifts, the catalogue's edits and the tier job | |
| `MC...` | instances for TLC | carts, prices, ladders and symmetries |
| `StockTheorems` | theorems about `Tally` and `Inventory` | cited by the proofs about orders, after-sales, the warehouse and gifts |
| `OrderLifecycle_proofs`, `PaymentFlow_proofs`, `RefundFlow_proofs`, `CancellationOutbox_proofs`, `AfterSales_proofs`, `Warehouse_proofs` | theorems about the module of that name | section 5 |
| `Customers_proofs` | theorems about `Accounts`, `Assets` and `Loyalty` | EXTENDS the three, which share no state and no name |

**How they fit together.** `OrderLifecycle` has many orders and takes every
transaction as a step, but leaves out what happens between transactions. The
flows take one order, refund, document or account and spell that out. They
collapse statuses that they cannot tell apart: `PAID` in `PaymentFlow` is any
order with a standing payment, `CLOSED` in `Shipment` is `CANCELLED`,
`REFUNDING` or `REFUNDED`. Both `OrderLifecycle`, `Warehouse` and `AfterSales`
move copies through the one `applyMovement` of `Inventory`, as the code does;
in `Warehouse` orders are the movements they make, and in `OrderLifecycle` the
warehouse documents are. Time never is a number: a date is *past* or not, and
an action moves it, so any interleaving of deadlines is covered.

**State and code.** Variables carry the names of the document fields. A marker
date (`inventoryRestoredAt`, `voucherReleasedAt`, ...) is a set of orders. Actions
carry the names of the functions; the `map` in `PROJECT.json` gives the lines. In
the modules with processes, the place between two database operations or calls
is `pc[p]` (or the field `at` or `pc` of the process's record), and `note`,
`using`, `seen`, `answer`, `job`, `clerks`, `editor`, `judge` and `req` are what
the function read earlier and uses later. Where the code tests a variable it
read before an `await`, the model tests the remembered value; where it repeats
the test in the filter of an update, the model tests the present one.

Operators whose name starts with `Mut` are deliberate faults: each is a plausible bug,
put in place of the definition that follows it to see that a property notices.

## 3. What the runs check

Ten runs that must pass and two that show a disagreement between code and
comment (section 4). Numbers are distinct states.

**Lifecycle** (45,600). Four orders of two customers, two of them COD orders of
one customer of whom one may wait at a time, three copies of one book, two uses
of a voucher, points, and a customer in debt. `MarkersMatchStatus`,
`ReservedIsOpenOrders`, `LedgerExplainsStock`, `VoucherUseIsHeld`,
`PointsConserved`, `DeadOrdersReleased`, `CapturedMoneyIsAnswered`,
`PendingCodWithinLimit`, the refinement `ImplementsFulfilment`, and
`OverdueIsSwept`: no overdue order keeps its copies for ever. The bounds make
orders compete: the carts hold five copies against three in stock
(`Deliveries`, the bound on restocking, keeps them scarce), three orders want
two voucher uses, and one delivery is split between debt and balance. Four
orders suffice to have two of one customer and two of different customers fail,
wait, ship and be refunded side by side; orders interact only through the
shared counters, and the theorems of section 5 take the counters to any number
of orders. Fairness: weak fairness of the sweep of each order, which a timer
runs every minute over a hundred matches, so that none is left out for ever.

**Refund** (364,395). A refund of each owner, two workers, three submissions (a
first one, a replacement and a replacement of that), one crash; lost answers
and expired locks at any time. `SettledIsPaid` and `PaidOnce`. The bank may pay
what it had reported failed: the code says so (`handleRefundSuccess`), and in
that case only, an order's or a duplicate's refund may be paid twice. Two
workers are what it takes for one to overtake another. Deadlock is not checked:
a settled refund has nothing left to do.

**RefundEnds** (4,288). One worker, two crashes, two submissions.
`RefundSettles`: every refund is settled or handed to staff. Fairness: workers
carry on, the gateway answers some calls (a call is cut off after 35 s and a
lock lives for a minute or more, so a worker is in time again and again: strong
fairness of the steps taken in time), the bank decides in the end, and dates
pass. Nobody is bound to do what is left to staff.

**Cancellation** (293,974). Two processes, each of which may be a request of
staff, a webhook or a pass of the job, two attempts before parking, and two
faults: a process that dies, a booking without an answer, or a pass that
outlives its lock. `EventFollowsOrder`, `ClosedParcelIsDead`,
`ClosedStaysClosed` and `CancellationSettles`. Two processes are what it takes
for one to overtake another; a third could only repeat the part of one of them,
since a process that stands between two steps holds nothing but its lock and its
note. Fairness: the job runs every 5 seconds, so a queued event is met by a pass
again and again (strong fairness of `claimEvent`), and processes carry on unless
they die. Nothing is assumed of the carrier's answers, of transactions (which may
abort each time) or of staff.

**Payments** (526,432). Two concurrent requests of the customer, a limit of two
attempts and room for three (the third is the one over the limit that section 4
reports), one crash, and callbacks of every session in any order and any number
of times. `CapturedIsAccounted`, `KeptPaymentIsNotReturned`, and `PaidIsRecorded`
under the assumption that the gateway repeats the callback of a payment until it
is accepted.

**AfterSales** (1,390,426). One order of two copies that cost 8 each, with a
delivery fee of 2, a discount of 3 and 3 redeemed points, so that nothing divides
evenly; two tickets, one return request, one agent that may die at any step, one
courier, and payment by COD, VNPay (settles later, can be queried) and MoMo
(settles at once, cannot). A query names the payment only: its answer may be about
any refund of that payment with the amount in question (`OtherVerdicts`), another
ticket's, an earlier one of the same ticket or a return's, and here every single copy costs the
same. `writtenOff` counts the money of refunds that the bank pays or may pay and that the
shop released on such an answer; it stays within the price of one copy
(`MaxWrittenOff`), and one amount of a replaced refund is remembered (`MaxEarlier`), which
is what one mistake takes. `EntitlementHeld`, `RefundsAccounted`, `MoneyOutIsAccounted`,
`ReservedIsPromised`, `PaidBackOrderIsClosed`, `PointsConverge`. Two copies and
three documents are what it takes for two channels to compensate one copy and a
third to take the rest. One agent suffices: agents carry only `job[a]`, and what
may overtake an agent between reading and committing is there as well in the
customer's requests, the desk, the jobs and the courier.

**Warehouse** (1,438,330). One book with one copy to begin with, a receipt, an
issue, a stocktake, one clerk with an edit under way, up to three copies owned
and one copy missing from or turning up on the shelf. `DocumentMovesOnce`,
`CountIsTrue`, `ReversalRestoresCost`. Documents only meet in the counters and
the cost of a book, so one of each kind around the same book is where they
interfere.

**Accounts** (409,958). Two sign-ins, two tabs of one browser that share
cookies, one socket, two handlers that change a credential; at most two handlers
under way at once (`MaxBusy`), a cap of one session in place of ten, one
rotation. `PasswordEndsSignIns`, `SessionsBounded`, `JarIsNewest`,
`SocketsFollowSessions`. Two of each are what a race takes. Fairness: the
timer of an open socket keeps firing and an admitted connection is set up.

**Assets** (282,504). Two images, two documents, two requests, one pass of the
job, an edit and a failure, for each of the five kinds of document.
`UsedImageIsKept` for books, reviews and return requests (posts, categories and
tickets have windows of their own, section 4), `UnusedImageGoes` for all: a
recorded image that no stored document shows is deleted in the end, unless a
document takes it or a return request's handler died with a claim on it
(`Stranded`, section 4). Requests may die at any step. Fairness: dates come, the
job's passes carry on and a request goes on or dies; the provider may refuse.

**Loyalty**. One customer with two points, two orders, a ladder of three tiers
with a grace period, a gift of stock one or unlimited, one editor, the job and
one evaluation by staff. `IssuedIsRedeemed`, `TierSettles`. A gift and a tier
concern one customer at a time but for the gift's stock, on which two
redemptions of one customer compete as those of two do. Fairness: the job runs
every hour and a user's evaluation by it does not fail every time; days pass.

`CHECK_DEADLOCK FALSE` is set in every run but Lifecycle: a closed order, a
settled refund or a cancelled document really has nothing left to do, and most
bounds (crashes, changes, rotations) are ends of their own. In `OrderLifecycle`
deadlock is checked, which says little, as the warehouse can nearly always move a
copy.

## 4. Disagreements between the code and what it says of itself

Two are runs that TLC ends with a counterexample:

* **OverRefund**: `coversAllOutstandingLines` counts copies that are being shipped
  again as covered, so the refund of the last *other* copy of a lost parcel takes
  the price of the whole order, delivery fee included.
* **ReturnPaidTwice**: the update that re-arms a return's refund after the gateway
  reported it failed does not repeat the reference the verdict was about (orders'
  and duplicates' refunds do). A slow pass re-arms a refund whose replacement is
  already accepted, and both are paid.

Others were met while modelling. They have no run of their own:

* `retryPayment` renews an expired order without counting it, so the limit on
  waiting online orders is exceeded (`orderService.js:1523`); it checks the number of
  attempts on a document read before the claim, so two requests may pass the
  limit together (`:1442`).
* `unreleasedOrderFilter` selects dead orders with points and no voucher for ever
  (`:2819`).
* `handleRefundSuccess` alerts staff of a possible double refund, but not while
  the replacement is at the gateway and not yet recorded (`:2480`).
* An outbox event that two confirmations in a row put back is `PENDING` without a
  date, and neither the job nor staff pick it up (`orderCancellationService.js:303`).
* A booking whose answer is lost leaves a live parcel beside a closed order; its
  webhooks are refused before anyone is told (`shippingService.js:964`).
* A ticket's VNPay refund whose handler died before it submitted is taken over as
  `REFUND_PROCESSING` and asked about for ever (`supportResolutionService.js:1052`); a
  ticket whose handler died in `createReturnResolution` stays `INITIATING`, and one whose
  linking failed is `FAILED` beside a return that lives (`:198`).
* VNPay's `querydr` is asked about the payment, not the refund: of two equal
  partial refunds of one payment it cannot tell which it reports
  (`paymentGateway.js:484`). So a ticket's refund may be released, and granted again, on the failure
  of another one, although the bank has paid it or still may; or settled on the payment of another
  one. The comments in `supportResolutionService.js` that an attempt in flight is never exposed as retryable
  (`:258`) and at `:929` do not hold then. `AfterSales` models it: `MoneyOutIsAccounted` says that what the books
  lack is the money released that way (`writtenOff`) and no more. `RefundFlow` has a single
  refund of its payment, where the question does not arise.
* The update that releases a ticket's refund repeats its status, not its key
  (`supportResolutionService.js:1160`): a pass that stalls between VNPay's answer and its transaction could release a
  refund that another instance's pass has released before and staff have granted again. `AfterSales` takes the
  answer and its record as one step (section 6).
* The delivery route looks for open claims before its transaction, so a refund for
  a lost parcel may be granted on an order that is delivered a moment later
  (`routes/admin.js:776`).
* `reverseMovingAverageCost` promises the "exact prior cost"; two roundings may move it,
  and goods without a cost keep the price of the cancelled receipt. `ReversalRestoresCost`
  states what does hold.
* The comment over `completeCount` says that a sale during the count aborts it; a
  sale leaves `stock + reserved` as it was. `CountIsTrue` shows that the count
  is right all the same.
* A `LOST_REFUND` is not subtracted from the spend that counts for a tier, though the
  comment over `computeSpendWindowBatch` says that support refunds are; `recalcTier` writes
  unconditionally what it computed from an older reading, which may cut a grace period
  short until the next evaluation.
* Deleting a gift on a count read before may orphan a redemption
  (`loyaltyAdmin.js:418`), and lowering its stock below `issuedCount` makes every later save
  invalid.
* A post or category keeps a thumbnail that was read before the transaction and may
  have been queued for deletion (`posts.js:465`); a ticket's attachments are attached
  without a check that all of them were (`supportTickets.js:365`). Hence the proviso of
  `UsedImageIsKept`.
* A return request claims its images for an id before the request is stored
  (`returnRequestService.js:304`). If the process dies in between, or the release fails (its error is
  swallowed, `:352`), they stay attached to an id that no document has, and no job looks for them
  (`assetLifecycleService.js:181`): the proviso `Stranded` of `UnusedImageGoes`. A process that dies between
  `storeImage` and `registerUploadedAsset` leaves a file without a record, of which nothing in the
  database tells; the property begins where an image is recorded.
* `savePassword` raises the version it had read, so two changes at once raise it by
  one (`routes/auth.js:479`): the proviso of `PasswordEndsSignIns`. Two tabs that refresh
  at once may sign the browser out, since the loser's answer clears the cookies (`:328`).

## 5. What is proved

TLAPS checks the following for *every* finite set of orders and every set of
books, customers and vouchers, with carts, points and limits that are natural
numbers (the `ASSUME`s of `OrderLifecycle`, which the code's schema validation and
checkout justify); for the other modules, for every set of requests, workers, documents,
tickets, tabs, images, gifts and so on, and every bound. **Every invariant and every action property
that a passing run checks is a theorem.**

* `StockTheorems` holds lemmas only: sums over finite sets, and what a movement does to the
  counters and the ledger.
  The library's induction theorems take an operator, which the prover cannot instantiate, so a sum
  is defined as the cardinality of a set of pairs, and most facts follow from the library's theorems on
  cardinality. The few that are inductive (`TotalPlus`, `TotalTimes`, `TotalLess`, `TotalConstant`) use
  `GrowsToAll`: a *collection* of parts of a finite set that has the empty part, and with a part every
  part larger by one, has the whole. It is a statement about sets, which follows from the existence of a
  minimal element among the complements.
* `TypeCorrect`: `TypeOK` is inductive by itself. It says that no counter goes
  below zero; each decrement is guarded by the filter of its update.
* `ReservedCorrect`, `MarkersCorrect`, `ReleaseCorrect`: `ReservedIsOpenOrders` is not inductive
  alone. A payment that comes for a closed order moves it to `REFUNDING`, and completing that
  refund must not return the copies again: only the markers tell, so the
  invariant is `GoodsInv == TypeOK /\ MarkersMatchStatus /\ ReservedIsOpenOrders`. Per transaction, `Holding`
  gains one order (checkout), loses one (release, dispatch) or stays the same, and
  the sum over it changes by that order's cart. `ReleaseAlwaysFits` follows, as a summand is at
  most the sum.
* `LedgerCorrect`: `LedgerExplainsStock`, as each movement writes the rows that
  account for it.
* `PaymentTypeCorrect`, `AccountedCorrect`, `KeptCorrect` (`PaymentFlow_proofs`): every captured
  payment is kept or returned and the kept one is not returned. The strengthening `MoneyInv` adds that no
  attempt has succeeded while the order waits or is closed unpaid, which is why a claim can never
  displace a kept payment.
* `ContractKept`: **`OrderLifecycle` implements `Fulfilment`**, for any number of orders. A
  step of an order stays or moves along an `Edge`, and the edges are fewer than
  `TRANSITIONS` allows, because each handler tests more than the state machine. The
  invariant `ContractInv` makes `payment.status` a function of `status` and method: an
  order paid online is paid from `PAID` on, a COD order at the door, and a COD order never
  comes near the refund workflow. With the markers, every edge is then a move of the contract.
* `CapturedCorrect`, `ReleasedCorrect`: both follow from `ContractInv`.
* `PendingCorrect`, `PointsCorrect`, `VouchersCorrect`: the set that is counted (waiting
  orders, orders that pay or earn points, holders of a voucher) gains or loses the one order of the step, and the
  counters move by as much. With them every safety property of the Lifecycle run is a theorem.
* `SettledCorrect`, `PaidOnceCorrect` (`RefundFlow_proofs`): for any number of workers,
  submissions and crashes. What is hard is that a worker submits a key that it
  read long ago. `OnceInv` says that keys are handed out in order, that a new one is handed
  out only after the gateway reported the newest one failed, and that whoever holds an older
  key holds one that has failed. Hence an order's or duplicate's refund is paid twice only if the bank takes its
  verdict back. For returns the invariant is false, which is the disagreement of ReturnPaidTwice.
* `EventFollowsOrderCorrect`, `ClosedParcelIsDeadCorrect`, `ClosedStaysClosedCorrect`
  (`CancellationOutbox_proofs`): for any number of processes and attempts. `OutboxInv` adds
  that only an order asked to be cancelled is worked on by passes, and that what a pass found out about the attached
  parcel stays true even if it loses its lock, because a cancelled parcel stays cancelled.
* `ProtocolCorrect`, `BooksBalance` (`AfterSales_proofs`): for any order, tickets, requests, handlers and
  crashes. The properties of the run are sums, and no sum is inductive without the protocol around it: a handler
  reserves in one transaction and submits, records or links in later ones, while a job may
  take the ticket over. `ProtocolInv` says what may be relied on in between: what a ticket's status tells of its type
  and of its refund at the gateway (`TicketFits`, `GatewayFits`), that who is about to
  submit has a pending refund of just that amount which the gateway has not seen, and that nobody else is
  at the same refund or link (`JobFits`, `Apart`). A refund that the bank has paid or may pay is on an open or a
  settled ticket, or disowned: released on an answer about another one. What a verdict can come to is the lemma `Verdicts`. `SumsInv` then states each counter as a sum over all
  documents and `OrderClosed` when an order is closed as paid back; a step changes the facets of one ticket
  or request, and the counters by as much. From the three follow `RefundsAreAccounted`, `LinesCompensatedOnce`,
  `ReservedForReships`, `AfterSalesLedger`, `PaidBackIsClosed` and `MoneyOutOnTheBooks`.
* `PointsShared`, `PointsDoConverge` (`AfterSales_proofs`): for all prices, quantities, discounts, earn
  rates, and any number of returns and damage refunds in any order. `PointsInv` says that the points taken
  back are `share(earned, refunded goods)` and those given back `share(Spent, returned or lost goods)`: a
  movement adds the difference of two shares, and its own document is not among the earlier ones
  (`PriorsAre`), so the differences telescope. `Priced` adds that a partial refund has kept the
  price it was granted at since its handler computed it, and `PointsInv` that what was earned is worth no more
  than the goods that were paid for. Three facts about numbers then give the bound: a refund of some of the goods
  falls short of its share of their price by half a unit at most (`RefundShort`), the goods of all documents
  together are worth what all copies are (`GrossOfAll`), and a shortfall of n halves costs less than one point
  more than those n halves earn (`Rounding`). So n movements that give up the whole order at full price
  leave at most `1 + (n - 1) \div (2 * EarnRate)` points: one, as long as n is at most `2 * EarnRate`.
* `WarehouseCorrect` and its consequences (`Warehouse_proofs`): for any books, documents, sheets and clerks. `WarehouseInv`
  relates what a clerk has loaded to what it came from (`ClerkFits`: only a version that is still fresh tells the
  status), each document's lines to its ledger rows (`RowFits`), the books to the shelf (`ShelfFits`), and the average
  cost to the last receipt (`LastFits`). `DocumentsMoveOnce` is `RowFits`; `CountsAreTrue` and
  `EndedSheetsStay` are about steps from it; `ReversalsRestoreCost` needs `LastFits` and the lemmas on rounded
  quotients, which bound both roundings for all prices and quantities and not just those of the run.
* `PasswordEndsSignInsCorrect` (`Customers_proofs`): for any finite set of sign-ins and handlers.
  `PasswordInv` adds that nobody carries a version above the number of changes, and that a handler
  whose version is that number has read the account after the last change; so two changes at once
  never bring the version level with their number again.
* `SessionsAreBounded`: a session past the limit is in the list of a sign-in that is about to revoke it, or a
  sign-in has yet to read the list (`PastLimitIsListed`). Sessions are numbered as they are created; if more than
  the limit were live, the least of them would be past it (a set of numbers has a least element).
* `JarStaysNewest`: `JarInv` says that a token read or granted is never newer than its session's, that
  the one granted last is newer than any other under way and than the jar's, and that nobody
  refreshes a session whose sign-in has not answered yet. The jar then holds the newest token or the
  newest is on its way, until an answer is lost.
* `UsedImagesAreKept`: for any images, documents, requests and passes. `UsedImageIsKept` says nothing of what a
  pass has claimed. `FilesAreThere` adds that what can still be taken has its file and that what a pass is
  about to delete cannot be taken any more, and `ReturnsFiled` that a return request's id is its handler's
  alone and that it has all its images when it is about to be saved.
* `IssuedAreRedeemed`: for any finite set of users, gifts and editors. A save writes the fields that changed, so no
  older number goes back; the invariant adds that nobody has redeemed or loaded a gift that was never created.

**Only model-checked:** all liveness properties (`OverdueIsSwept`, `RefundSettles`, `CancellationSettles`,
`PaidIsRecorded`, `SocketsFollowSessions`, `UnusedImageGoes`, `TierSettles`), since fairness and ENABLED are
beyond the prover.

## 6. Abstractions, and what is not modelled

* Amounts, discounts, fees, addresses, signatures and texts are left out, except
  where a property is about them (refunds and points of `AfterSales`, costs of
  `Warehouse`). A callback's amount and signature are taken to be those of the
  attempt it names; staff who confirm a cancellation by hand are taken to be right.
* `AfterSales`: the 30-day window, a ticket's thread and SLA clock, and the operational
  resolutions (which call `orderService`) are left out. A return's refund is paid in one
  step; its protocol is `RefundFlow`'s. Points taken back and points written down as debt
  are one number. Three assumptions: a handler submits within its 35 s, long before
  the 15 minutes after which its ticket is taken over; a pass of the reconciliation records an answer
  before staff could grant that refund anew; and staff who close a refund by
  hand pay only what the gateway's portal does not show, as the note tells them.
* `Warehouse`: totals, suppliers and codes are left out; an ended sheet keeps only its status.
* `Accounts`: mailed links are a step of the credential handlers; expiry is left to chance.
* `Assets`: one kind of document per behaviour and one owner; dates are due or not.
* `Loyalty`: changes of the programme's configuration and announcements are left out.
  `GraceEnds` also ages a reading under way, as a copy of the same date.
* An order from before payment attempts were recorded is left out, and so is the sandbox
  simulation of the carrier, which plays the carrier's part in tests.
* Not modelled: the role cache (a process-local copy with a fixed lifetime on which no
  protocol depends), cart reminders, newsletter and alerts (mail-outs), the HTTP layer but for
  the handlers named above, catalogue, search, analytics and reports (queries), and the
  frontend but for its refresh of a session. Most of the repository's lines are of these
  kinds: pages, serialisers, validation, read-only queries and texts. They have no state whose
  interleavings matter.

## 7. Plan

1. *Extend.* The hand-over race of `routes/admin.js` as a property of `Shipment`; the sandbox
   simulation; tickets' operational resolutions on top of `OrderLifecycle`.
