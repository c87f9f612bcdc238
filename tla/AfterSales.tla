----------------------------- MODULE AfterSales -----------------------------
(***************************************************************************)
(* What the shop does about a dispatched order that went wrong: return     *)
(* requests (returnRequestService) and the resolutions of support tickets  *)
(* (supportResolutionService).  Both draw on the same two pots of the      *)
(* order: each line can be compensated once, and no more money can go back *)
(* than the order cost.                                                    *)
(*                                                                         *)
(* A transaction is one action.  Between what an agent reads to decide and *)
(* the transaction it then commits, and between the gateway's answer and   *)
(* its record, the other agents, the jobs and the carrier take their steps;*)
(* job[a] holds what agent a carries from one step to the next.  The       *)
(* protocol by which a return's refund reaches the bank is RefundFlow's;   *)
(* here it is paid in one step.                                            *)
(***************************************************************************)
EXTENDS Inventory, Tally

CONSTANTS
    Qty,        \* copies of each book in the order
    Price,      \* unit price of each book
    Fee,        \* delivery fee in the total
    Discount,   \* what the voucher and the redeemed points took off the goods
    Spent,      \* points redeemed on the order
    EarnRate,   \* goods value that earns one point
    Shelf,      \* copies of each book for sale besides the order's
    Tickets, Requests,
    Agents,     \* handlers of support staff's requests, and the refund job
    Couriers,   \* handlers of the delivery route and of the carrier's webhook
    Methods,    \* payment methods considered
    Restocked,  \* whether returned goods may go back to the shelf: BOOLEAN or less
    MaxEarlier,   \* bound for TLC: amounts of refunds replaced by others
    MaxWrittenOff \* bound for TLC: money given up by mistake

Handlers == Agents \union Couriers
NoTicket == "no ticket"
NoRequest == "no request"
Nothing == [b \in Books |-> 0]

Gross(items) == Total(Books, [b \in Books |-> Price[b] * items[b]])

Subtotal == Gross(Qty)
TotalAmount == Subtotal - Discount + Fee
eligibleAmountForOrder == Subtotal - Discount

ASSUME OrderAssumption ==
    /\ Books # {} /\ IsFiniteSet(Books)
    /\ Qty \in [Books -> Nat \ {0}] /\ Price \in [Books -> Nat \ {0}]
    /\ Shelf \in [Books -> Nat]
    /\ {Fee, Discount, Spent, MaxEarlier, MaxWrittenOff} \subseteq Nat /\ EarnRate \in Nat \ {0}
    /\ Discount < Subtotal
    /\ Methods \subseteq {"COD", "VNPAY", "MOMO"} /\ Restocked \subseteq BOOLEAN
    /\ IsFiniteSet(Tickets) /\ NoTicket \notin Tickets
    /\ IsFiniteSet(Requests) /\ NoRequest \notin Requests

(* What normalizeItems and normalizeReturnItems let through.               *)
Baskets == {items \in [Books -> UNION {0..Qty[b] : b \in Books}] :
                items # Nothing /\ \A b \in Books : items[b] <= Qty[b]}

LOST_IN_TRANSIT_TYPES == {"LOST_IN_TRANSIT_REFUND", "LOST_IN_TRANSIT_RESHIP"}
LINE_COMPENSATION_TYPES == {"PARTIAL_REFUND", "RESHIP"} \union LOST_IN_TRANSIT_TYPES
RETURN_CONSUMING_TYPES == LINE_COMPENSATION_TYPES \ {"LOST_IN_TRANSIT_RESHIP"}
RefundTypes == {"PARTIAL_REFUND", "LOST_IN_TRANSIT_REFUND"}
ReshipTypes == {"RESHIP", "LOST_IN_TRANSIT_RESHIP"}
Types == {"RETURN_REFUND"} \union LINE_COMPENSATION_TYPES

Released == {"FAILED", "REFUND_FAILED", "CANCELLED"}
OpenRefund == {"REFUND_PENDING", "REFUND_PROCESSING", "REFUND_MANUAL_REQUIRED"}

VARIABLES
    method,          \* payment.method
    status,          \* the order's
    refunded,        \* supportCompensation.refundedAmount
    reservedAmount,  \* supportCompensation.reservedRefundAmount
    earned,          \* pointsEarned
    clawed,          \* of those, points taken back (or written down as debt)
    givenBack,       \* of Spent, points given back
    returns,         \* the return requests
    resolution,      \* the tickets' resolutions
    gateway,         \* gateway[t]: what became of the current key of t's refund: none,
                     \* pending, paid or failed at the bank, or disowned by the shop
    paidOut,         \* money that has left, or is on its way for a disowned refund
    earlier,         \* amounts of refunds whose tickets were granted another
    writtenOff,      \* money of disowned refunds
    job              \* what each agent is in the middle of

moneyVars == <<refunded, reservedAmount>>
pointVars == <<earned, clawed, givenBack>>
mistakeVars == <<earlier, writtenOff>>
gatewayVars == <<gateway, paidOut, mistakeVars>>
vars == <<method, status, moneyVars, pointVars, returns, resolution, gatewayVars, job, stockVars>>

Idle == [pc |-> "idle", ticket |-> NoTicket, type |-> "NONE", items |-> Nothing, amount |-> 0,
         req |-> NoRequest, answer |-> "none"]
NoReturn == [status |-> "NONE", items |-> Nothing, amount |-> 0]
NoResolution == [type |-> "NONE", status |-> "NONE", items |-> Nothing, amount |-> 0,
                 req |-> NoRequest]

Init ==
    /\ method \in Methods
    /\ status = "SHIPPED"
    /\ refunded = 0 /\ reservedAmount = 0
    /\ earned = 0 /\ clawed = 0 /\ givenBack = 0
    /\ returns = [r \in Requests |-> NoReturn]
    /\ resolution = [t \in Tickets |-> NoResolution]
    /\ gateway = [t \in Tickets |-> "none"]
    /\ paidOut = 0
    /\ earlier = {} /\ writtenOff = 0
    /\ job = [a \in Handlers |-> Idle]
    /\ stock = Shelf
    /\ reserved = Nothing
    /\ ledger = [b \in Books |-> [sellable |-> Shelf[b], physical |-> Shelf[b]]]

Paid == status \in {"SHIPPED", "DELIVERED"} /\ (method # "COD" \/ status = "DELIVERED")

at(a, pc) == job[a].pc = pc
goto(a, pc) == job' = [job EXCEPT ![a].pc = pc]
finish(a) == job' = [job EXCEPT ![a] = Idle]

-----------------------------------------------------------------------------
(* Entitlements: a line is compensated once.                               *)

LiveReturns == {r \in Requests : returns[r].status \notin {"NONE", "REJECTED"}}

(* findSupportLineCompensations                                            *)
LiveCompensations(types) ==
    {t \in Tickets : resolution[t].type \in types /\ resolution[t].status \notin Released}

Returned(b) == Total(LiveReturns, [r \in Requests |-> returns[r].items[b]])
Compensated(b, tickets) == Total(tickets, [t \in Tickets |-> resolution[t].items[b]])

(* assertLineEntitlements, for a resolution of ticket t                    *)
LineEntitlements(t, items) ==
    \A b \in Books :
        items[b] + Returned(b) + Compensated(b, LiveCompensations(LINE_COMPENSATION_TYPES) \ {t})
            <= Qty[b]

(* getReturnEligibility                                                    *)
ReturnEligible(items) ==
    /\ status = "DELIVERED"
    /\ \A b \in Books :
           items[b] + Returned(b) + Compensated(b, LiveCompensations(RETURN_CONSUMING_TYPES))
               <= Qty[b]

coversAllOutstandingLines(t, items) ==
    \A b \in Books :
        LET outstanding ==
                Qty[b] - Compensated(b, LiveCompensations(LINE_COMPENSATION_TYPES) \ {t})
        IN  outstanding <= 0 \/ items[b] = outstanding

-----------------------------------------------------------------------------
(* Prices.                                                                 *)

Larger(x, y) == IF x < y THEN y ELSE x
Smaller(x, y) == IF x < y THEN x ELSE y

(* Math.round of a quotient of natural numbers                             *)
RoundedQuotient(x, y) == (2 * x + y) \div (2 * y)

calculateRefundAmount(items) ==
    IF items = Qty THEN TotalAmount
    ELSE Larger(0, Gross(items) - RoundedQuotient(Discount * Gross(items), Subtotal))

Headroom == Larger(0, TotalAmount - refunded - reservedAmount)

share(total, amount, basis) == (total * Smaller(amount, basis)) \div basis

cumulativeShare(total, prior, current, basis) ==
    share(total, prior + current, basis) - share(total, prior, basis)

(* priorPartialAmounts, the movements of `r` and of `t` themselves left    *)
(* out.                                                                    *)
PriorReturns(r) == {q \in Requests \ {r} : returns[q].status \in {"RECEIVED", "CLOSED"}}
PriorTickets(t, type) ==
    {u \in Tickets \ {t} : resolution[u].type = type /\ resolution[u].status = "REFUND_COMPLETED"}

refundedGoods(t, r) ==
    Total(PriorReturns(r), [q \in Requests |-> returns[q].amount])
    + Total(PriorTickets(t, "PARTIAL_REFUND"), [u \in Tickets |-> resolution[u].amount])

returnedGross(t, r) ==
    Total(PriorReturns(r), [q \in Requests |-> Gross(returns[q].items)])
    + Total(PriorTickets(t, "LOST_IN_TRANSIT_REFUND"), [u \in Tickets |-> Gross(resolution[u].items)])

(* Mutation: every movement is rounded down on its own.                    *)
MutRevokePartial(t, r, amount) ==
    clawed' = clawed + share(earned, amount, eligibleAmountForOrder)

(* The points clawed back for `amount` of goods refunded.                  *)
revokeOrderPointsPartial(t, r, amount) ==
    clawed' = clawed + cumulativeShare(earned, refundedGoods(t, r), amount, eligibleAmountForOrder)

refundOrderPointsPartial(t, r, items) ==
    givenBack' = givenBack + cumulativeShare(Spent, returnedGross(t, r), Gross(items), Subtotal)

-----------------------------------------------------------------------------
(* Return requests.                                                        *)

createReturnRequest(r, items) ==
    /\ returns[r].status = "NONE"
    /\ ReturnEligible(items)
    /\ returns' = [returns EXCEPT ![r] = [status |-> "PENDING", items |-> items, amount |-> 0]]

ask(r, items) ==
    /\ createReturnRequest(r, items)
    /\ UNCHANGED <<method, status, moneyVars, pointVars, resolution, gatewayVars, job,
                   stockVars>>

resolveReturnRequest(r, verdict) ==
    /\ returns[r].status = "PENDING"
    /\ returns' = [returns EXCEPT ![r].status = verdict]

answer(r, verdict) ==
    /\ resolveReturnRequest(r, verdict)
    /\ UNCHANGED <<method, status, moneyVars, pointVars, resolution, gatewayVars, job,
                   stockVars>>

(* syncLinkedTicket, once r is CLOSED                                      *)
syncLinkedTicket(r) ==
    resolution' = [t \in Tickets |->
        IF resolution[t].type = "RETURN_REFUND" /\ resolution[t].req = r
        THEN [resolution[t] EXCEPT !.status = "RETURN_COMPLETED"] ELSE resolution[t]]

(* The goods are back: what is still owed for them is reserved in the same *)
(* transaction, and a return that is owed nothing is closed in it.         *)
receiveReturnRequest(r, restock) ==
    LET amount == Smaller(calculateRefundAmount(returns[r].items), Headroom)
    IN  /\ returns[r].status = "RETURNING"
        /\ IF restock THEN applyMovement("RETURN_IN", returns[r].items) ELSE UNCHANGED stockVars
        /\ reservedAmount' = reservedAmount + amount
        /\ returns' = [returns EXCEPT ![r].status = IF amount = 0 THEN "CLOSED" ELSE "RECEIVED",
                                      ![r].amount = amount]
        /\ IF amount = 0 THEN syncLinkedTicket(r) ELSE UNCHANGED resolution
        /\ revokeOrderPointsPartial(NoTicket, r, amount)
        /\ refundOrderPointsPartial(NoTicket, r, returns[r].items)
        /\ UNCHANGED <<method, status, refunded, earned, gatewayVars, job>>

(* settleReturnRefundReservation, with the close.  The refund is paid once *)
(* here; RefundFlow has its protocol.                                      *)
closeReturn(r) ==
    /\ returns[r].status = "RECEIVED"
    /\ returns' = [returns EXCEPT ![r].status = "CLOSED"]
    /\ reservedAmount' = reservedAmount - returns[r].amount
    /\ refunded' = refunded + returns[r].amount
    /\ paidOut' = paidOut + returns[r].amount

(* closeManualReturn and completeReturnRefund: the linked ticket follows   *)
(* in the same transaction.                                                *)
closeReturnAndTicket(r) ==
    /\ closeReturn(r)
    /\ syncLinkedTicket(r)
    /\ UNCHANGED <<method, status, pointVars, gateway, mistakeVars, job, stockVars>>

(* executeReturnRefund, paid at once: the linked ticket follows after the  *)
(* transaction.                                                            *)
executeReturnRefund(a, r) ==
    /\ at(a, "idle")
    /\ method # "COD"
    /\ closeReturn(r)
    /\ job' = [job EXCEPT ![a] = [Idle EXCEPT !.pc = "sync", !.req = r]]
    /\ UNCHANGED <<method, status, pointVars, resolution, gateway, mistakeVars, stockVars>>

syncAfterRefund(a) ==
    /\ at(a, "sync")
    /\ syncLinkedTicket(job[a].req)
    /\ finish(a)
    /\ UNCHANGED <<method, status, moneyVars, pointVars, returns, gatewayVars, stockVars>>

-----------------------------------------------------------------------------
(* Resolutions.                                                            *)

(* The statuses from which a ticket takes a new resolution                 *)
Free(t, statuses) == resolution[t].status \in {"NONE", "FAILED"} \union statuses

(* The amount a lost parcel's refund is worth: the last outstanding lines  *)
(* take the balance, delivery fee included.                                *)
lostRefundAmount(t, items) ==
    IF coversAllOutstandingLines(t, items) THEN Headroom ELSE calculateRefundAmount(items)

RefundAmount(t, type, items) ==
    IF type = "LOST_IN_TRANSIT_REFUND" THEN lostRefundAmount(t, items)
    ELSE calculateRefundAmount(items)

(* What each kind of resolution asks of the order, as it was read.         *)
OrderAllows(type) ==
    /\ type \in LOST_IN_TRANSIT_TYPES => status = "SHIPPED"
    /\ type \in {"PARTIAL_REFUND", "RESHIP"} => status = "DELIVERED"
    /\ type \in RefundTypes => Paid

FirstStep(type) ==
    IF type = "RETURN_REFUND" THEN "initialize"
    ELSE IF type \in RefundTypes THEN "reserve" ELSE "prepare"

(* createResolution up to its transaction: everything that is decided on   *)
(* the order as it was read.                                               *)
createResolution(a, t, type, items) ==
    LET amount == IF type \in RefundTypes THEN RefundAmount(t, type, items) ELSE 0
    IN  /\ at(a, "idle")
        /\ OrderAllows(type)
        /\ LineEntitlements(t, items)
        /\ type \in RefundTypes => amount > 0
        /\ job' = [job EXCEPT ![a] = [Idle EXCEPT !.pc = FirstStep(type), !.ticket = t,
                                        !.type = type, !.items = items, !.amount = amount]]
        /\ UNCHANGED <<method, status, moneyVars, pointVars, returns, resolution, gatewayVars, stockVars>>

resolve(a, newStatus) ==
    resolution' = [resolution EXCEPT ![job[a].ticket] =
        [NoResolution EXCEPT !.type = job[a].type, !.status = newStatus, !.items = job[a].items,
                             !.amount = job[a].amount]]

(* A new resolution replaces the ticket's refund with its key, which VNPay *)
(* remembers if it has seen it.                                            *)
forgetRefund(t) ==
    /\ gateway' = [gateway EXCEPT ![t] = "none"]
    /\ earlier' = IF gateway[t] = "none" THEN earlier
                  ELSE earlier \union {resolution[t].amount}
    /\ Cardinality(earlier') <= MaxEarlier
    /\ UNCHANGED <<paidOut, writtenOff>>

(* Timing: a handler submits within its 35 s, long before the 15 minutes   *)
(* after which its ticket is taken over, so nobody starts a new refund of  *)
(* the ticket while it is at it.                                           *)
Submitting(t) == \E a \in Agents : job[a].ticket = t /\ job[a].pc \in {"submit", "record"}

(* Mutation: only the entitlements read before the transaction count.      *)
MutReserveAllowed(a) ==
    /\ refunded + reservedAmount + job[a].amount <= TotalAmount
    /\ Free(job[a].ticket, {"REFUND_FAILED"})

ReserveAllowed(a) ==
    /\ LineEntitlements(job[a].ticket, job[a].items)
    /\ refunded + reservedAmount + job[a].amount <= TotalAmount
    /\ Free(job[a].ticket, {"REFUND_FAILED"})

reserveRefundAndResolution(a) ==
    /\ at(a, "reserve") /\ ReserveAllowed(a)
    /\ ~Submitting(job[a].ticket)
    /\ reservedAmount' = reservedAmount + job[a].amount
    /\ forgetRefund(job[a].ticket)
    /\ IF method = "COD"
       THEN resolve(a, "REFUND_MANUAL_REQUIRED") /\ finish(a)
       ELSE resolve(a, "REFUND_PENDING") /\ goto(a, "submit")
    /\ UNCHANGED <<method, status, refunded, pointVars, returns, stockVars>>

PrepareAllowed(a) ==
    /\ LineEntitlements(job[a].ticket, job[a].items)
    /\ job[a].type = "LOST_IN_TRANSIT_RESHIP"
           => coversAllOutstandingLines(job[a].ticket, job[a].items)
    /\ MovementFits("SALE_OUT", job[a].items)
    /\ Free(job[a].ticket, {"CANCELLED"})

(* The transaction of createLostReshipResolution and createReshipResolution*)
prepareReship(a) ==
    /\ at(a, "prepare") /\ PrepareAllowed(a)
    /\ applyMovement("SALE_OUT", job[a].items)
    /\ resolve(a, "PREPARING")
    /\ finish(a)
    /\ UNCHANGED <<method, status, moneyVars, pointVars, returns, gatewayVars>>

initializeResolution(a) ==
    /\ at(a, "initialize") /\ Free(job[a].ticket, {"REFUND_FAILED"})
    /\ resolve(a, "INITIATING")
    /\ forgetRefund(job[a].ticket)
    /\ goto(a, "create")
    /\ UNCHANGED <<method, status, moneyVars, pointVars, returns, stockVars>>

(* A transaction that throws leaves nothing behind.                        *)
refuse(a) ==
    /\ \/ at(a, "reserve") /\ ~ReserveAllowed(a)
       \/ at(a, "prepare") /\ ~PrepareAllowed(a)
       \/ at(a, "initialize") /\ ~Free(job[a].ticket, {"REFUND_FAILED"})
    /\ finish(a)
    /\ UNCHANGED <<method, status, moneyVars, pointVars, returns, resolution, gatewayVars, stockVars>>

(* createReturnResolution, step by step; any of its calls may throw.       *)
createLinkedReturn(a, r) ==
    /\ at(a, "create")
    /\ createReturnRequest(r, job[a].items)
    /\ job' = [job EXCEPT ![a].pc = "approve", ![a].req = r]
    /\ UNCHANGED <<method, status, moneyVars, pointVars, resolution, gatewayVars,
                   stockVars>>

approveLinkedReturn(a) ==
    /\ at(a, "approve")
    /\ resolveReturnRequest(job[a].req, "RETURNING")
    /\ goto(a, "link")
    /\ UNCHANGED <<method, status, moneyVars, pointVars, resolution, gatewayVars,
                   stockVars>>

(* Linked, and told the customer or not.                                   *)
linkReturn(a) ==
    /\ at(a, "link")
    /\ \E outcome \in {"RETURNING", "FAILED"} :
           resolution' = [resolution EXCEPT ![job[a].ticket].status = outcome,
                                            ![job[a].ticket].req = job[a].req]
    /\ finish(a)
    /\ UNCHANGED <<method, status, moneyVars, pointVars, returns, gatewayVars, stockVars>>

(* The catch: the ticket is marked FAILED, whatever became of the request. *)
giveUp(a) ==
    /\ job[a].pc \in {"create", "approve", "link"}
    /\ resolution' = [resolution EXCEPT ![job[a].ticket].status = "FAILED"]
    /\ finish(a)
    /\ UNCHANGED <<method, status, moneyVars, pointVars, returns, gatewayVars, stockVars>>

-----------------------------------------------------------------------------
(* A ticket's refund at the gateway.                                       *)

(* requestRefund: accepted and answered, refused, or without an answer,    *)
(* with effect or without.  MoMo pays at once.                             *)
submit(a) ==
    /\ at(a, "submit")
    /\ \E effect \in {"none", "pending", "paid"}, heard \in BOOLEAN :
        /\ method = "MOMO" => effect # "pending"
        /\ gateway' = [gateway EXCEPT ![job[a].ticket] = effect]
        /\ paidOut' = IF effect = "paid" THEN paidOut + job[a].amount ELSE paidOut
        /\ job' = [job EXCEPT ![a].pc = "record",
                              ![a].answer = IF ~heard THEN "unknown"
                                            ELSE IF effect = "none" THEN "refused" ELSE effect]
    /\ UNCHANGED <<method, status, moneyVars, pointVars, returns, resolution, mistakeVars,
                   stockVars>>

(* The bank pays an accepted refund, or gives it up.                       *)
bankDecides(t) ==
    /\ gateway[t] = "pending"
    /\ \/ gateway' = [gateway EXCEPT ![t] = "failed"] /\ UNCHANGED paidOut
       \/ gateway' = [gateway EXCEPT ![t] = "paid"] /\ paidOut' = paidOut + resolution[t].amount
    /\ UNCHANGED <<method, status, moneyVars, pointVars, returns, resolution, mistakeVars, job, stockVars>>

release(t) ==
    /\ resolution' = [resolution EXCEPT ![t].status = "REFUND_FAILED"]
    /\ reservedAmount' = reservedAmount - resolution[t].amount
    /\ UNCHANGED <<status, refunded, pointVars>>

(* Mutation: judged by this ticket's amount alone.                         *)
MutLostOrderPaidBack(t) ==
    /\ resolution[t].type = "LOST_IN_TRANSIT_REFUND"
    /\ status = "SHIPPED"
    /\ resolution[t].amount >= TotalAmount

(* closeLostOrderWhenFullyRefunded                                         *)
LostOrderPaidBack(t) ==
    /\ resolution[t].type = "LOST_IN_TRANSIT_REFUND"
    /\ status = "SHIPPED"
    /\ refunded + resolution[t].amount >= TotalAmount

(* revokeSupportRefundPoints; closing the order (completeLostInTransitRefund, *)
(* completeRefund) gives back the rest of the redeemed points.             *)
settlePoints(t) ==
    IF resolution[t].type = "PARTIAL_REFUND"
    THEN revokeOrderPointsPartial(t, NoRequest, resolution[t].amount) /\ UNCHANGED givenBack
    ELSE /\ IF LostOrderPaidBack(t) THEN givenBack' = Spent
            ELSE refundOrderPointsPartial(t, NoRequest, resolution[t].items)
         /\ UNCHANGED clawed

settle(t) ==
    /\ resolution' = [resolution EXCEPT ![t].status = "REFUND_COMPLETED"]
    /\ reservedAmount' = reservedAmount - resolution[t].amount
    /\ refunded' = refunded + resolution[t].amount
    /\ settlePoints(t)
    /\ status' = IF LostOrderPaidBack(t) THEN "REFUNDED" ELSE status
    /\ UNCHANGED earned

(* Mutation: a late answer is recorded without the claim.                  *)
MutOwnsTicket(a) == at(a, "record")

(* executeOnlineRefund's claim: the recovery has not taken the refund over.*)
OwnsTicket(a) == resolution[job[a].ticket].status = "REFUND_PENDING"

(* executeOnlineRefund's end                                               *)
recordAnswer(a) ==
    LET t == job[a].ticket
    IN  /\ at(a, "record")
        /\ IF ~OwnsTicket(a)
           THEN UNCHANGED <<status, moneyVars, pointVars, resolution>>
           ELSE CASE job[a].answer = "paid" -> settle(t)
                  [] job[a].answer = "refused" -> release(t)
                  [] OTHER ->
                      /\ resolution' = [resolution EXCEPT ![t].status = "REFUND_PROCESSING"]
                      /\ UNCHANGED <<status, moneyVars, pointVars>>
        /\ finish(a)
        /\ UNCHANGED <<method, returns, gatewayVars, stockVars>>

(* recoverStaleRefundPending, after the 15 minutes: the handler has        *)
(* submitted by then, or died.                                             *)
recoverStaleRefundPending(t) ==
    /\ resolution[t].status = "REFUND_PENDING"
    /\ ~\E a \in Agents : job[a].ticket = t /\ at(a, "submit")
    /\ resolution' = [resolution EXCEPT ![t].status = "REFUND_PROCESSING"]
    /\ UNCHANGED <<method, status, moneyVars, pointVars, returns, gatewayVars, job,
                   stockVars>>

(* Mutation: a refund the bank is still working on is taken for failed.    *)
MutQuery(t) ==
    IF method = "MOMO" THEN "paid" ELSE IF gateway[t] = "pending" THEN "failed" ELSE gateway[t]

(* queryRefundStatus, if the answer is about this refund: VNPay says what  *)
(* it knows; for MoMo the answer is always "completed".                    *)
Query(t) == IF method = "MOMO" THEN "paid" ELSE gateway[t]

(* The answer is taken to be about t's refund if the payment and the       *)
(* amount agree (the type of the transaction follows from the amount).     *)
matchesVnpayRefundIdentity(t, amount) == method = "VNPAY" /\ amount = resolution[t].amount

(* queryVnpayRefund names the payment and no refund of it, so the answer   *)
(* may be about another one: another ticket's, an earlier one (which the   *)
(* bank may have paid after all), or a return's at any stage.              *)
OtherVerdicts(t) ==
    {v \in {"failed", "paid"} :
        \/ \E u \in Tickets \ {t} :
               gateway[u] \in {v, "disowned"} /\ matchesVnpayRefundIdentity(t, resolution[u].amount)
        \/ \E amount \in earlier : matchesVnpayRefundIdentity(t, amount)
        \/ \E r \in Requests : /\ returns[r].status \in {"RECEIVED", "CLOSED"}
                               /\ matchesVnpayRefundIdentity(t, returns[r].amount)}

moveToManualRefund(t) ==
    /\ resolution' = [resolution EXCEPT ![t].status = "REFUND_MANUAL_REQUIRED"]
    /\ UNCHANGED <<status, moneyVars, pointVars>>

(* MoMo's answer has no reference of the refund, and a refund that MoMo    *)
(* answered with one is settled at once.                                   *)
settleProcessingRefund(t) ==
    IF method # "MOMO" THEN settle(t) ELSE moveToManualRefund(t)

takeVerdict(t, verdict) ==
    \/ verdict = "failed" /\ release(t)
    \/ verdict = "paid" /\ settleProcessingRefund(t)

(* The verdict on another refund is taken for this one's.  If this one is  *)
(* paid or may be, and is released, the shop has disowned it: its money    *)
(* counts as gone from here on, and VNPay may report it either way.        *)
mistakeVerdict(t, verdict) ==
    /\ takeVerdict(t, verdict)
    /\ IF verdict = "failed" /\ gateway[t] \in {"pending", "paid"}
       THEN /\ gateway' = [gateway EXCEPT ![t] = "disowned"]
            /\ paidOut' = IF gateway[t] = "pending" THEN paidOut + resolution[t].amount ELSE paidOut
            /\ writtenOff' = writtenOff + resolution[t].amount
            /\ writtenOff' <= MaxWrittenOff
       ELSE UNCHANGED <<gateway, paidOut, writtenOff>>

(* A refund still pending, or never received, is asked about again.        *)
(* Timing: a pass records an answer at once, long before staff could grant *)
(* the refund anew on the word of another pass.                            *)
reconcileProcessingRefund(t) ==
    /\ resolution[t].status = "REFUND_PROCESSING"
    /\ \/ takeVerdict(t, Query(t)) /\ UNCHANGED <<gateway, paidOut, writtenOff>>
       \/ \E verdict \in OtherVerdicts(t) \ {Query(t)} : mistakeVerdict(t, verdict)
    /\ UNCHANGED <<method, returns, earlier, job, stockVars>>

(* completeManualRefund: staff look at the gateway's portal, as the note   *)
(* of moveToManualRefund tells them, and pay only what it has not.         *)
completeManualRefund(t) ==
    /\ resolution[t].status = "REFUND_MANUAL_REQUIRED"
    /\ paidOut' = IF gateway[t] = "paid" THEN paidOut ELSE paidOut + resolution[t].amount
    /\ settle(t)
    /\ UNCHANGED <<method, returns, gateway, mistakeVars, job, stockVars>>

-----------------------------------------------------------------------------
(* Reships and deliveries.                                                 *)

(* updateReship to SHIPPED: the parcel is booked, then a transaction hands *)
(* the copies over.                                                        *)
bookReship(a, t) ==
    /\ at(a, "idle")
    /\ resolution[t].type \in ReshipTypes /\ resolution[t].status = "PREPARING"
    /\ job' = [job EXCEPT ![a] = [Idle EXCEPT !.pc = "dispatch", !.ticket = t]]
    /\ UNCHANGED <<method, status, moneyVars, pointVars, returns, resolution, gatewayVars, stockVars>>

StillPreparing(a) == resolution[job[a].ticket].status = "PREPARING"

dispatchReship(a) ==
    LET t == job[a].ticket
    IN  /\ at(a, "dispatch")
        /\ IF StillPreparing(a) /\ MovementFits("SHIP_OUT", resolution[t].items)
           THEN /\ applyMovement("SHIP_OUT", resolution[t].items)
                /\ resolution' = [resolution EXCEPT ![t].status = "SHIPPED"]
           ELSE UNCHANGED <<resolution, stockVars>>
        /\ finish(a)
        /\ UNCHANGED <<method, status, moneyVars, pointVars, returns, gatewayVars>>

(* Mutation: the copies go back for sale but stay promised.                *)
MutRestoreItems(items) == applyMovement("CANCEL_IN", items)

restoreItems(items) == applyMovement("RESERVE_IN", items)

cancelReship(t) ==
    /\ resolution[t].type \in ReshipTypes /\ resolution[t].status = "PREPARING"
    /\ restoreItems(resolution[t].items)
    /\ resolution' = [resolution EXCEPT ![t].status = "CANCELLED"]
    /\ UNCHANGED <<method, status, moneyVars, pointVars, returns, gatewayVars, job>>

lostRefundedGross ==
    Total(LiveCompensations({"LOST_IN_TRANSIT_REFUND"}),
          [t \in Tickets |-> Gross(resolution[t].items)])

(* earnForOrder, through recognizeDelivery: lines refunded as lost earn    *)
(* nothing.                                                                *)
earnForOrder ==
    LET delivered == Subtotal - Smaller(lostRefundedGross, Subtotal)
    IN  earned' = ((eligibleAmountForOrder * delivered) \div Subtotal) \div EarnRate

becomeDelivered ==
    /\ status = "SHIPPED"
    /\ status' = "DELIVERED"
    /\ earnForOrder
    /\ UNCHANGED <<clawed, givenBack>>

(* A lost parcel's reship delivers the order it stands for.                *)
deliverReship(t) ==
    /\ resolution[t].type \in ReshipTypes /\ resolution[t].status = "SHIPPED"
    /\ resolution' = [resolution EXCEPT ![t].status = "DELIVERED"]
    /\ IF resolution[t].type = "LOST_IN_TRANSIT_RESHIP" THEN becomeDelivered
       ELSE UNCHANGED <<status, pointVars>>
    /\ UNCHANGED <<method, moneyVars, returns, gatewayVars, job, stockVars>>

ActiveLostClaims == LiveCompensations(LOST_IN_TRANSIT_TYPES)
UnsettledLostClaims ==
    {t \in ActiveLostClaims : resolution[t].status \notin {"REFUND_COMPLETED", "DELIVERED"}}

(* The delivery route (assertNoActiveLostClaim, or parseDeliveryOverride   *)
(* once the claims are settled) and the carrier's webhook: the claims are  *)
(* looked at before the transaction that delivers.                         *)
checkDelivery(a) ==
    /\ at(a, "idle")
    /\ status = "SHIPPED"
    /\ UnsettledLostClaims = {}
    /\ goto(a, "deliver")
    /\ UNCHANGED <<method, status, moneyVars, pointVars, returns, resolution, gatewayVars, stockVars>>

adminMarkDelivered(a) ==
    /\ at(a, "deliver")
    /\ IF status = "SHIPPED" THEN becomeDelivered ELSE UNCHANGED <<status, pointVars>>
    /\ finish(a)
    /\ UNCHANGED <<method, moneyVars, returns, resolution, gatewayVars, stockVars>>

-----------------------------------------------------------------------------

(* The process dies.                                                       *)
crash(a) ==
    /\ ~at(a, "idle")
    /\ finish(a)
    /\ UNCHANGED <<method, status, moneyVars, pointVars, returns, resolution, gatewayVars,
                   stockVars>>

Customer == \E r \in Requests, items \in Baskets : ask(r, items)

Staff(a) ==
    \/ \E t \in Tickets, type \in Types, items \in Baskets : createResolution(a, t, type, items)
    \/ \E t \in Tickets : bookReship(a, t)

Handler(a) ==
    \/ \E r \in Requests : createLinkedReturn(a, r) \/ executeReturnRefund(a, r)
    \/ syncAfterRefund(a)
    \/ reserveRefundAndResolution(a) \/ submit(a) \/ recordAnswer(a)
    \/ prepareReship(a) \/ dispatchReship(a)
    \/ initializeResolution(a) \/ approveLinkedReturn(a) \/ linkReturn(a)
    \/ giveUp(a) \/ refuse(a)

Courier(c) == checkDelivery(c) \/ adminMarkDelivered(c)

Desk ==
    \/ \E r \in Requests, verdict \in {"RETURNING", "REJECTED"} : answer(r, verdict)
    \/ \E r \in Requests, restock \in Restocked : receiveReturnRequest(r, restock)
    \/ \E r \in Requests : closeReturnAndTicket(r)
    \/ \E t \in Tickets : cancelReship(t) \/ deliverReship(t)

Refunds(t) ==
    \/ recoverStaleRefundPending(t) \/ reconcileProcessingRefund(t)
    \/ bankDecides(t) \/ completeManualRefund(t)

Next ==
    \/ Customer \/ Desk
    \/ \E a \in Agents : Staff(a) \/ Handler(a) \/ crash(a)
    \/ \E c \in Couriers : Courier(c)
    \/ \E t \in Tickets : Refunds(t)

Spec == Init /\ [][Next]_vars

-----------------------------------------------------------------------------
(* Properties.                                                             *)

(* Whatever the customer asks and staff grant at the same time, no copy is *)
(* both returned and compensated, or compensated twice (a replacement for  *)
(* a lost parcel is the first real delivery of its lines).                 *)
EntitlementHeld ==
    \A b \in Books :
        Returned(b) + Compensated(b, LiveCompensations(RETURN_CONSUMING_TYPES)) <= Qty[b]

OpenTickets == {t \in Tickets : resolution[t].status \in OpenRefund}
DoneTickets == {t \in Tickets : resolution[t].status = "REFUND_COMPLETED"}
TicketAmounts(tickets) == Total(tickets, [t \in Tickets |-> resolution[t].amount])
ReturnAmounts(st) ==
    Total({r \in Requests : returns[r].status = st}, [r \in Requests |-> returns[r].amount])

(* The order's two refund counters are the sums over its documents, and    *)
(* together within what it cost, across handlers, jobs and both channels.  *)
RefundsAccounted ==
    /\ reservedAmount = TicketAmounts(OpenTickets) + ReturnAmounts("RECEIVED")
    /\ refunded = TicketAmounts(DoneTickets) + ReturnAmounts("CLOSED")
    /\ refunded + reservedAmount <= TotalAmount

(* Money that a ticket's refund has paid, or that the bank may yet pay, is *)
(* not written off and granted again, through crashes, take-overs and lost *)
(* answers: the books lack what was released on VNPay's word about another *)
(* refund of that amount, and not a coin more.  (A return's refund is paid *)
(* once here: see closeReturn.)                                            *)
MoneyOutIsAccounted ==
    paidOut + Total({t \in Tickets : gateway[t] = "pending"},
                    [t \in Tickets |-> resolution[t].amount])
        <= refunded + reservedAmount + writtenOff

(* The copies kept on the shelf are those of the reships in preparation,   *)
(* through cancellations that race a dispatch.                             *)
ReservedIsPromised ==
    \A b \in Books :
        reserved[b] = Compensated(b, {t \in Tickets : resolution[t].status = "PREPARING"})

(* The order whose price has been paid back over any number of tickets as  *)
(* lost in transit does not stay SHIPPED for ever, and all the points      *)
(* redeemed on it are back.                                                *)
PaidBackOrderIsClosed ==
    refunded = TotalAmount => /\ status # "SHIPPED"
                              /\ status = "REFUNDED" => givenBack = Spent

BackAtShop(b) ==
    Total({r \in Requests : returns[r].status \in {"RECEIVED", "CLOSED"}},
          [r \in Requests |-> returns[r].items[b]])

(* The movements that have taken points back                               *)
Movements ==
    Cardinality(PriorReturns(NoRequest)) + Cardinality(PriorTickets(NoTicket, "PARTIAL_REFUND"))

(* No more points are taken back than the order earned, or given back than *)
(* were redeemed on it.  Copies returned or refunded one by one, each for  *)
(* its full price, give up all that the order earned, but for what rounding*)
(* the discount's shares can cost: one point, and half a unit of money for *)
(* every movement.  Returning everything gives back all that was redeemed. *)
PointsConverge ==
    /\ clawed <= earned /\ givenBack <= Spent
    /\ (/\ \A b \in Books :
              BackAtShop(b) + Compensated(b, PriorTickets(NoTicket, "PARTIAL_REFUND")) = Qty[b]
        /\ \A r \in LiveReturns : returns[r].amount = calculateRefundAmount(returns[r].items))
           => earned - clawed <= 1 + (Movements - 1) \div (2 * EarnRate)
    /\ (\A b \in Books : BackAtShop(b) = Qty[b]) => givenBack = Spent

(* Claimed by the comments on createLostRefundResolution and               *)
(* coversAllOutstandingLines: only the refund that leaves nothing else of  *)
(* the order takes what is left of its price.                              *)
WholePriceForWholeOrder ==
    refunded = TotalAmount
        => \A b \in Books :
               Returned(b) + Compensated(b, LiveCompensations(RefundTypes)) = Qty[b]

=============================================================================
