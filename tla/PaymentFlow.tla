----------------------------- MODULE PaymentFlow -----------------------------
(***************************************************************************)
(* The online payment of one order: requests that open payment sessions at *)
(* the gateway (retryPayment, which also opens the first one), sessions    *)
(* that customers pay or let fail, and the gateway's callbacks, which come *)
(* late, repeatedly and in any order.  Several sessions of one order may   *)
(* be paid: one payment is kept, the others are duplicates to be returned. *)
(*                                                                         *)
(* The order is reduced to what its payment depends on: "PAID" stands for  *)
(* every status of an order whose payment is PAID (OrderLifecycle tells    *)
(* them apart).  How a refund gets to the bank is RefundFlow's matter.     *)
(* Left out: orders from before attempts were recorded, and the amount and *)
(* signature of a callback, which are those of the attempt it names.       *)
(***************************************************************************)
EXTENDS Naturals

CONSTANTS
    Requests,                        \* requests of the customer, possibly at once
    MAX_PAYMENT_ATTEMPTS_PER_ORDER,
    MaxAttempts,                     \* bound for TLC: attempts in all
    MaxCrashes                       \* bound for TLC: requests that die in the middle

ASSUME LimitAssumption ==
    /\ MAX_PAYMENT_ATTEMPTS_PER_ORDER \in Nat /\ MaxAttempts \in Nat
    /\ MAX_PAYMENT_ATTEMPTS_PER_ORDER <= MaxAttempts
    /\ MaxCrashes \in Nat

Attempts == 1..MaxAttempts
NoAttempt == 0

VARIABLES
    status,
    count,            \* length of payment.attempts; attempt n is the n-th
    attempt,          \* attempt[a].status, "NONE" before it is claimed
    duplicateRefund,  \* attempt[a].duplicateRefund.status, or "NONE"
    providerOrderId,  \* the order's current or kept attempt, or NoAttempt
    checkoutUrl,      \* the attempt whose session the customer is sent to, or NoAttempt
    retryLock,        \* retryLockUntil: "free", "held" or "past"
    overdue,          \* expiresAt is past
    cooling,          \* the last attempt is younger than PAYMENT_RETRY_COOLDOWN_MS
    pc,               \* pc[r]: where request r stands
    past,             \* past[r]: which times were past when r looked
    mine,             \* mine[r]: the attempt r claimed
    session,          \* session[a]: the gateway's session
    crashes

orderVars == <<status, overdue>>
attemptVars == <<count, attempt, providerOrderId, checkoutUrl, retryLock, cooling>>
requestVars == <<pc, past, mine>>
vars == <<orderVars, attemptVars, duplicateRefund, requestVars, session, crashes>>

Goto(r, place) == pc' = [pc EXCEPT ![r] = place]

SetAttempt(a, to) == attempt' = [attempt EXCEPT ![a] = to]

-----------------------------------------------------------------------------
(* retryPayment.                                                           *)

(* The order is read: it waits for its payment and has no session that can *)
(* still be used (which would just be returned again), the limit on its    *)
(* attempts is not reached and the last one did not just fail.             *)
retryPayment(r) ==
    /\ pc[r] = "idle"
    /\ status = "PENDING"
    /\ checkoutUrl = NoAttempt \/ overdue
    /\ count < MAX_PAYMENT_ATTEMPTS_PER_ORDER
    /\ ~(cooling /\ count > 0 /\ attempt[count] = "FAILED")
    /\ past' = [past EXCEPT ![r] = (IF overdue THEN {"order"} ELSE {})
                                   \cup (IF retryLock = "past" THEN {"lock"} ELSE {})]
    /\ Goto(r, "claim")
    /\ UNCHANGED <<orderVars, attemptVars, duplicateRefund, mine, session, crashes>>

(* Whether the order is still to be paid, by nobody else, and needs a      *)
(* session; times are compared with the moment the request began.          *)
Claimable(r) ==
    /\ status = "PENDING"
    /\ retryLock = "free" \/ (retryLock = "past" /\ "lock" \in past[r])
    /\ checkoutUrl = NoAttempt \/ (overdue /\ "order" \in past[r])

(* Mutation: only the read before looks at the order's status.             *)
MutClaim(r) ==
    /\ pc[r] = "claim" /\ count < MaxAttempts
    /\ retryLock = "free" \/ (retryLock = "past" /\ "lock" \in past[r])
    /\ checkoutUrl = NoAttempt \/ (overdue /\ "order" \in past[r])
    /\ count' = count + 1
    /\ SetAttempt(count', "CREATING")
    /\ providerOrderId' = count' /\ checkoutUrl' = NoAttempt
    /\ retryLock' = "held" /\ overdue' = FALSE /\ cooling' = TRUE
    /\ mine' = [mine EXCEPT ![r] = count']
    /\ Goto(r, "open")
    /\ UNCHANGED <<status, duplicateRefund, past, session, crashes>>

claim(r) ==
    /\ pc[r] = "claim" /\ count < MaxAttempts
    /\ Claimable(r)
    /\ count' = count + 1
    /\ SetAttempt(count', "CREATING")
    /\ providerOrderId' = count' /\ checkoutUrl' = NoAttempt
    /\ retryLock' = "held" /\ overdue' = FALSE /\ cooling' = TRUE
    /\ mine' = [mine EXCEPT ![r] = count']
    /\ Goto(r, "open")
    /\ UNCHANGED <<status, duplicateRefund, past, session, crashes>>

claimRefused(r) ==
    /\ pc[r] = "claim" /\ ~Claimable(r)
    /\ Goto(r, "idle")
    /\ UNCHANGED <<orderVars, attemptVars, duplicateRefund, past, mine, session, crashes>>

sessionOpened(r) ==
    /\ pc[r] = "open"
    /\ session' = [session EXCEPT ![mine[r]] = "open"]
    /\ Goto(r, "record")
    /\ UNCHANGED <<orderVars, attemptVars, duplicateRefund, past, mine, crashes>>

(* createPaymentUrl fails, whether or not the gateway opened the session.  *)
openingFails(r) ==
    /\ pc[r] = "open"
    /\ session' \in {session, [session EXCEPT ![mine[r]] = "open"]}
    /\ Goto(r, "fail")
    /\ UNCHANGED <<orderVars, attemptVars, duplicateRefund, past, mine, crashes>>

StillMine(r) ==
    status = "PENDING" /\ providerOrderId = mine[r] /\ attempt[mine[r]] = "CREATING"

(* The session is stored and returned, if the order still waits for it.    *)
record(r) ==
    /\ pc[r] = "record"
    /\ IF StillMine(r)
       THEN /\ SetAttempt(mine[r], "PENDING")
            /\ checkoutUrl' = mine[r] /\ retryLock' = "free"
            /\ Goto(r, "idle")
       ELSE Goto(r, "fail") /\ UNCHANGED <<attempt, checkoutUrl, retryLock>>
    /\ UNCHANGED <<orderVars, count, providerOrderId, cooling, duplicateRefund, past, mine,
                   session, crashes>>

recordFailure(r) ==
    /\ pc[r] = "fail"
    /\ IF StillMine(r)
       THEN SetAttempt(mine[r], "FAILED") /\ checkoutUrl' = NoAttempt /\ retryLock' = "free"
       ELSE UNCHANGED <<attempt, checkoutUrl, retryLock>>
    /\ Goto(r, "idle")
    /\ UNCHANGED <<orderVars, count, providerOrderId, cooling, duplicateRefund, past, mine,
                   session, crashes>>

-----------------------------------------------------------------------------
(* The gateway's callbacks, each one transaction.                          *)

KeepPayment(a) ==
    /\ providerOrderId' = a /\ checkoutUrl' = NoAttempt /\ retryLock' = "free"
    /\ overdue' = FALSE
    /\ UNCHANGED duplicateRefund

(* Mutation: the duplicate is given the status of a whole order's refund.  *)
MutReturnDuplicate(a) ==
    /\ duplicateRefund' = IF a # providerOrderId /\ duplicateRefund[a] # "REFUNDED"
                          THEN [duplicateRefund EXCEPT ![a] = "REFUNDING"]
                          ELSE duplicateRefund
    /\ UNCHANGED <<status, overdue, providerOrderId, checkoutUrl, retryLock>>

(* Mutation: a callback that is repeated is taken for a second payment.    *)
MutReturnRepeated(a) ==
    /\ duplicateRefund' = IF duplicateRefund[a] # "REFUNDED"
                          THEN [duplicateRefund EXCEPT ![a] = "PENDING"]
                          ELSE duplicateRefund
    /\ UNCHANGED <<status, overdue, providerOrderId, checkoutUrl, retryLock>>

(* prepareDuplicatePaymentRefund: a payment beside the kept one goes back. *)
ReturnDuplicate(a) ==
    /\ duplicateRefund' = IF a # providerOrderId /\ duplicateRefund[a] # "REFUNDED"
                          THEN [duplicateRefund EXCEPT ![a] = "PENDING"]
                          ELSE duplicateRefund
    /\ UNCHANGED <<status, overdue, providerOrderId, checkoutUrl, retryLock>>

(* Mutation: a payment that comes while the order is refunded is refused.  *)
MutPaymentRefused(a) ==
    /\ session[a] = "paid"
    /\ SetAttempt(a, "SUCCEEDED")
    /\ \/ status = "PAID" /\ ReturnDuplicate(a)
       \/ status \in {"CANCELLED", "FAILED"} /\ status' = "REFUNDING" /\ KeepPayment(a)
       \/ status = "PENDING" /\ status' = "PAID" /\ KeepPayment(a)
    /\ UNCHANGED <<count, cooling, requestVars, session, crashes>>

handlePaymentSuccess(a) ==
    /\ session[a] = "paid"
    /\ SetAttempt(a, "SUCCEEDED")
    /\ \/ status \in {"PAID", "REFUNDING", "REFUNDED"} /\ ReturnDuplicate(a)
       \/ status \in {"CANCELLED", "FAILED"} /\ status' = "REFUNDING" /\ KeepPayment(a)
       \/ status = "PENDING" /\ status' = "PAID" /\ KeepPayment(a)
    /\ UNCHANGED <<count, cooling, requestVars, session, crashes>>

(* A failed session closes the order only if it is the current one.        *)
handlePaymentFailed(a) ==
    /\ session[a] = "failed"
    /\ attempt[a] # "SUCCEEDED"
    /\ SetAttempt(a, "FAILED")
    /\ IF status = "PENDING" /\ a = providerOrderId
       THEN /\ status' = "FAILED" /\ overdue' = FALSE
            /\ checkoutUrl' = NoAttempt /\ retryLock' = "free"
       ELSE UNCHANGED <<orderVars, checkoutUrl, retryLock>>
    /\ UNCHANGED <<count, providerOrderId, cooling, duplicateRefund, requestVars, session,
                   crashes>>

-----------------------------------------------------------------------------
(* What else happens to the order: it is cancelled or swept before it is   *)
(* paid, or refunded after; the refund of a duplicate is completed.        *)

cancelPendingOrder ==
    /\ status = "PENDING" /\ status' = "CANCELLED"
    /\ overdue' = FALSE
    /\ UNCHANGED <<attemptVars, duplicateRefund, requestVars, session, crashes>>

prepareRefundRequest ==
    /\ status = "PAID" /\ status' = "REFUNDING"
    /\ UNCHANGED <<overdue, attemptVars, duplicateRefund, requestVars, session, crashes>>

completeRefund ==
    /\ status = "REFUNDING" /\ status' = "REFUNDED"
    /\ UNCHANGED <<overdue, attemptVars, duplicateRefund, requestVars, session, crashes>>

settleDuplicatePaymentRefund(a) ==
    /\ duplicateRefund[a] = "PENDING"
    /\ duplicateRefund' = [duplicateRefund EXCEPT ![a] = "REFUNDED"]
    /\ UNCHANGED <<orderVars, attemptVars, requestVars, session, crashes>>

-----------------------------------------------------------------------------
(* The customer, who can pay a session that was handed out however old it  *)
(* is, the gateway and the clock.                                          *)

Pay(a) ==
    /\ session[a] = "open" /\ attempt[a] = "PENDING"
    /\ session' = [session EXCEPT ![a] = "paid"]
    /\ UNCHANGED <<orderVars, attemptVars, duplicateRefund, requestVars, crashes>>

SessionFails(a) ==
    /\ session[a] = "open"
    /\ session' = [session EXCEPT ![a] = "failed"]
    /\ UNCHANGED <<orderVars, attemptVars, duplicateRefund, requestVars, crashes>>

OrderExpires ==
    /\ status = "PENDING" /\ ~overdue
    /\ overdue' = TRUE
    /\ UNCHANGED <<status, attemptVars, duplicateRefund, requestVars, session, crashes>>

LockExpires ==
    /\ retryLock = "held"
    /\ retryLock' = "past"
    /\ UNCHANGED <<orderVars, count, attempt, providerOrderId, checkoutUrl, cooling,
                   duplicateRefund, requestVars, session, crashes>>

CooldownEnds ==
    /\ cooling
    /\ cooling' = FALSE
    /\ UNCHANGED <<orderVars, count, attempt, providerOrderId, checkoutUrl, retryLock,
                   duplicateRefund, requestVars, session, crashes>>

Crash(r) ==
    /\ pc[r] # "idle" /\ crashes < MaxCrashes
    /\ Goto(r, "idle")
    /\ crashes' = crashes + 1
    /\ UNCHANGED <<orderVars, attemptVars, duplicateRefund, past, mine, session>>

-----------------------------------------------------------------------------
Init ==
    /\ status = "PENDING" /\ overdue = FALSE
    /\ count = 0 /\ attempt = [a \in Attempts |-> "NONE"]
    /\ providerOrderId = NoAttempt /\ checkoutUrl = NoAttempt
    /\ retryLock = "free" /\ cooling = FALSE
    /\ duplicateRefund = [a \in Attempts |-> "NONE"]
    /\ pc = [r \in Requests |-> "idle"]
    /\ past = [r \in Requests |-> {}]
    /\ mine = [r \in Requests |-> NoAttempt]
    /\ session = [a \in Attempts |-> "none"]
    /\ crashes = 0

RequestStep(r) ==
    \/ retryPayment(r) \/ claim(r) \/ claimRefused(r) \/ sessionOpened(r) \/ openingFails(r)
    \/ record(r) \/ recordFailure(r) \/ Crash(r)
GatewayStep(a) ==
    \/ Pay(a) \/ SessionFails(a) \/ handlePaymentSuccess(a) \/ handlePaymentFailed(a)
    \/ settleDuplicatePaymentRefund(a)

Next ==
    \/ \E r \in Requests : RequestStep(r)
    \/ \E a \in Attempts : GatewayStep(a)
    \/ cancelPendingOrder \/ prepareRefundRequest \/ completeRefund
    \/ OrderExpires \/ LockExpires \/ CooldownEnds

Spec == Init /\ [][Next]_vars

(* The gateway repeats the callback of a payment until it is accepted.     *)
FairSpec == Spec /\ \A a \in Attempts : WF_vars(handlePaymentSuccess(a))

-----------------------------------------------------------------------------
(* Properties.                                                             *)

TypeOK ==
    /\ status \in {"PENDING", "PAID", "CANCELLED", "FAILED", "REFUNDING", "REFUNDED"}
    /\ count \in 0..MaxAttempts
    /\ attempt \in [Attempts -> {"NONE", "CREATING", "PENDING", "FAILED", "SUCCEEDED"}]
    /\ duplicateRefund \in [Attempts -> {"NONE", "PENDING", "REFUNDED"}]
    /\ providerOrderId \in 0..count /\ checkoutUrl \in 0..count
    /\ retryLock \in {"free", "held", "past"}
    /\ overdue \in BOOLEAN /\ cooling \in BOOLEAN
    /\ pc \in [Requests -> {"idle", "claim", "open", "record", "fail"}]
    /\ past \in [Requests -> SUBSET {"order", "lock"}]
    /\ mine \in [Requests -> 0..count]
    /\ session \in [Attempts -> {"none", "open", "paid", "failed"}]
    /\ crashes \in 0..MaxCrashes

(* All captured money is accounted for: a payment that came in is the one  *)
(* the order keeps or goes back as a duplicate, and an order that is paid  *)
(* or refunded keeps one that came in.                                     *)
CapturedIsAccounted ==
    /\ \A a \in Attempts : attempt[a] = "SUCCEEDED" =>
           a = providerOrderId \/ duplicateRefund[a] # "NONE"
    /\ status \in {"PAID", "REFUNDING", "REFUNDED"} <=>
           \E a \in Attempts : a = providerOrderId /\ attempt[a] = "SUCCEEDED"

(* The payment an order keeps is never returned as a duplicate as well,    *)
(* however callbacks repeat and requests for another session drag on.      *)
KeptPaymentIsNotReturned ==
    \A a \in Attempts : duplicateRefund[a] # "NONE" =>
        a # providerOrderId /\ attempt[a] = "SUCCEEDED"

(* A payment is recorded some time, whatever became of the order.          *)
PaidIsRecorded == \A a \in Attempts : session[a] = "paid" ~> attempt[a] = "SUCCEEDED"

=============================================================================
