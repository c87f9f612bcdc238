----------------------------- MODULE RefundFlow -----------------------------
(***************************************************************************)
(* One refund on its way to the bank, from the moment its identity is      *)
(* saved (prepareRefundRequest, prepareDuplicatePaymentRefund,             *)
(* receiveReturnRequest) until it is settled: request handlers and the     *)
(* jobs' passes that claim it under a lock, submit it, lose their answers  *)
(* or their lock, query it, resubmit it under a new key, and the gateway's *)
(* callbacks.                                                              *)
(*                                                                         *)
(* owner tells which refund it is:                                         *)
(*  "ORDER"      of a whole order (payment.refund...): queried without a   *)
(*               lock, acted upon if its reference is still the one queried*)
(*  "DUPLICATE"  of a second captured payment (an attempt's                *)
(*               duplicateRefund): queried under the lock it is submitted  *)
(*               under                                                     *)
(*  "RETURN"     of goods sent back (a return request's refund): queried   *)
(*               without a lock, acted upon if some reference is stored.   *)
(*               Its refund.status is derived: PENDING, PROCESSING, and    *)
(*               MANUAL_REQUIRED is manual, COMPLETED is settled.          *)
(***************************************************************************)
EXTENDS RefundGateway

NoRef == 0
NoOne == "nobody"

CONSTANTS
    Owners,                 \* the kinds of refund considered
    Workers,                \* request handlers and passes of the jobs, on any instance
    MAX_REFUND_SUBMISSIONS,
    MAX_AUTOMATIC_REFUND_RETRIES,   \* failed submissions of a return's refund
    MaxKeys,                \* bound for TLC: keys a refund is ever given
    MaxCrashes              \* bound for TLC: workers that die in the middle

ASSUME SubmissionsAssumption ==
    /\ Owners \subseteq {"ORDER", "DUPLICATE", "RETURN"}
    /\ MAX_REFUND_SUBMISSIONS \in Nat \ {0}
    /\ MAX_AUTOMATIC_REFUND_RETRIES \in Nat \ {0}
    /\ MaxKeys \in Nat /\ MaxKeys >= MAX_REFUND_SUBMISSIONS
    /\ Keys = 1..MaxKeys
    /\ MaxCrashes \in Nat
    /\ NoOne \notin Workers

VARIABLES
    owner,
    settled,     \* the order is REFUNDED, or the duplicate refund is
    reference,   \* refundTransactionId, or NoRef
    history,     \* references reported failed and replaced
    key,         \* refundIdempotencyKey: the n-th one given to this refund
    resubmits,   \* refundResubmitCount
    retries,     \* a return's refund.retryCount
    manual,      \* refundManualRequired
    due,         \* refundNextRetryAt is null or past
    lock,        \* whose refundRetryLockToken is stored, or NoOne
    expired,     \* refundRetryLockUntil is past
    pc,          \* pc[w]: where worker w stands
    using,       \* using[w]: the key it submits or the reference it asks about
    seen,        \* seen[w]: the refundResubmitCount it read together with the reference
    answer,      \* answer[w]: what the gateway told it
    byHand,      \* staff closed it with a payment of their own
    crashes

lockVars == <<lock, expired>>
documentVars == <<settled, reference, history, key, resubmits, retries, manual, due, lockVars,
                  byHand>>
workerVars == <<pc, using, seen, answer>>
vars == <<owner, documentVars, workerVars, gatewayVars, crashes>>

LockFree == lock = NoOne \/ expired

Goto(w, place) == pc' = [pc EXCEPT ![w] = place]

(* The worker is done, and keeps nothing.                                  *)
finish(w) ==
    /\ Goto(w, "idle")
    /\ using' = [using EXCEPT ![w] = 1]
    /\ seen' = [seen EXCEPT ![w] = 0]
    /\ answer' = [answer EXCEPT ![w] = "unknown"]

Read(w, ref) ==
    /\ using' = [using EXCEPT ![w] = ref]
    /\ seen' = [seen EXCEPT ![w] = resubmits]

unlock == lock' = NoOne /\ expired' = FALSE

-----------------------------------------------------------------------------
(* Submission.                                                             *)

(* Mutation: a lock is never taken over, not even an expired one.          *)
MutClaimable ==
    /\ ~settled /\ ~manual /\ due /\ lock = NoOne
    /\ owner # "DUPLICATE" => reference = NoRef

Claimable ==
    /\ ~settled /\ ~manual /\ due /\ LockFree
    /\ owner # "DUPLICATE" => reference = NoRef

(* The claim of executePendingRefund, executeDuplicatePaymentRefund or     *)
(* executeReturnRefund.  A duplicate refund that was already accepted is   *)
(* asked about instead.                                                    *)
claim(w) ==
    /\ pc[w] = "idle"
    /\ Claimable
    /\ lock' = w /\ expired' = FALSE
    /\ IF reference = NoRef
       THEN Goto(w, "submit") /\ Read(w, key)
       ELSE Goto(w, "ask") /\ Read(w, reference)
    /\ UNCHANGED <<owner, settled, reference, history, key, resubmits, retries, manual, due,
                   byHand, answer, gatewayVars, crashes>>

(* requestRefund, answered: a key that the gateway knows is answered with  *)
(* what became of it, at least if that is final and good.                  *)
accepted(w) ==
    /\ pc[w] = "submit"
    /\ receive(using[w]) \/ receiveAndPay(using[w])
    /\ answer' = [answer EXCEPT ![w] = IF gateway'[using[w]] = "paid" THEN "paid" ELSE "pending"]
    /\ Goto(w, "record")
    /\ UNCHANGED <<owner, documentVars, using, seen, crashes>>

(* requestRefund, without an answer: refused before it took effect, or     *)
(* timed out with or without effect.                                       *)
unanswered(w) ==
    /\ pc[w] = "submit"
    /\ UNCHANGED gatewayVars \/ receive(using[w]) \/ receiveAndPay(using[w])
    /\ Goto(w, "fail")
    /\ UNCHANGED <<owner, documentVars, using, seen, answer, crashes>>

(* Mutation: an accepted refund is taken for a completed one.              *)
MutRecord(w) ==
    /\ pc[w] = "record"
    /\ IF ~settled /\ lock = w
       THEN reference' = using[w] /\ due' = (owner # "DUPLICATE") /\ unlock /\ settled' = TRUE
       ELSE UNCHANGED <<reference, due, lockVars, settled>>
    /\ finish(w)
    /\ UNCHANGED <<owner, history, key, resubmits, retries, manual, byHand,
                   gatewayVars, crashes>>

(* The answer is recorded if the refund is still open and the lock is      *)
(* still this worker's; otherwise it is dropped.                           *)
record(w) ==
    /\ pc[w] = "record"
    /\ IF ~settled /\ lock = w
       THEN /\ reference' = using[w]
            /\ due' = (owner # "DUPLICATE")
            /\ unlock
            /\ settled' = (answer[w] = "paid")
       ELSE UNCHANGED <<reference, due, lockVars, settled>>
    /\ finish(w)
    /\ UNCHANGED <<owner, history, key, resubmits, retries, manual, byHand,
                   gatewayVars, crashes>>

(* The transaction that records the answer fails.  An order's refund takes *)
(* it for a failed submission, a return's lets the error pass and keeps    *)
(* its lock.                                                               *)
recordAborts(w) ==
    /\ pc[w] = "record" /\ owner # "DUPLICATE"
    /\ IF owner = "ORDER" THEN Goto(w, "fail") /\ UNCHANGED <<using, seen, answer>> ELSE finish(w)
    /\ UNCHANGED <<owner, documentVars, gatewayVars, crashes>>

(* recordRefundAttemptFailure, recordDuplicateRefundFailure and            *)
(* recordReturnRefundFailure, the only one that gives up.                  *)
recordFailure(w) ==
    /\ pc[w] = "fail"
    /\ IF ~settled /\ lock = w
       THEN /\ unlock
            /\ retries' = IF owner = "RETURN" THEN retries + 1 ELSE retries
            /\ manual' = (manual \/ retries' >= MAX_AUTOMATIC_REFUND_RETRIES)
            /\ due' = manual'
       ELSE UNCHANGED <<due, lockVars, retries, manual>>
    /\ finish(w)
    /\ UNCHANGED <<owner, settled, reference, history, key, resubmits, byHand,
                   gatewayVars, crashes>>

-----------------------------------------------------------------------------
(* Reconciliation of an accepted refund.                                   *)

(* The passes over accepted refunds: an order's and a return's are read,   *)
(* not locked, and only an order's waits until it is due.                  *)
ask(w) ==
    /\ pc[w] = "idle" /\ owner # "DUPLICATE"
    /\ ~settled /\ reference # NoRef /\ (owner = "ORDER" => due)
    /\ Goto(w, "ask")
    /\ Read(w, reference)
    /\ UNCHANGED <<owner, documentVars, answer, gatewayVars, crashes>>

(* queryRefundStatus; a lookup that fails is no evidence of anything.      *)
queryRefundStatus(w) ==
    /\ pc[w] = "ask"
    /\ answer' = [answer EXCEPT ![w] = gateway[using[w]]]
    /\ Goto(w, "act")
    /\ UNCHANGED <<owner, documentVars, using, seen, gatewayVars, crashes>>

queryFails(w) ==
    /\ pc[w] = "ask"
    /\ answer' = [answer EXCEPT ![w] = "unknown"]
    /\ Goto(w, "act")
    /\ UNCHANGED <<owner, documentVars, using, seen, gatewayVars, crashes>>

(* Mutation: the update is not tied to the reference that was asked about. *)
MutStillAsked(w) == ~settled

(* The condition of the updates that follow a query.                       *)
StillAsked(w) ==
    /\ ~settled
    /\ CASE owner = "ORDER" -> reference = using[w]
         [] owner = "DUPLICATE" -> lock = w
         [] owner = "RETURN" -> reference # NoRef

unlockDuplicate == IF owner = "DUPLICATE" THEN unlock ELSE UNCHANGED lockVars

(* rearmFailedRefund and its counterparts: a refund reported failed goes   *)
(* back into the queue under a new key, or waits for staff when its        *)
(* submissions are used up.                                                *)
rearmFailedRefund(w) ==
    LET failedSubmissions == seen[w] + 1
        exhausted == failedSubmissions >= MAX_REFUND_SUBMISSIONS
    IN  /\ history' = history \cup {using[w]}
        /\ reference' = NoRef
        /\ resubmits' = failedSubmissions
        /\ IF exhausted
           THEN manual' = TRUE /\ due' = TRUE /\ UNCHANGED key
           ELSE key < MaxKeys /\ key' = key + 1 /\ due' = FALSE /\ UNCHANGED manual
        /\ unlockDuplicate

(* deferRefundQuery and its counterpart for duplicate refunds.  A return's *)
(* refund is asked about again in the next pass.                           *)
deferRefundQuery(w) ==
    /\ due' = IF owner = "RETURN" THEN due ELSE FALSE
    /\ unlockDuplicate
    /\ UNCHANGED <<history, reference, key, resubmits, manual>>

afterQuery(w) ==
    /\ pc[w] = "act" /\ answer[w] # "paid"
    /\ IF ~StillAsked(w) THEN UNCHANGED documentVars
       ELSE /\ UNCHANGED <<settled, retries, byHand>>
            /\ IF answer[w] = "failed" THEN rearmFailedRefund(w) ELSE deferRefundQuery(w)
    /\ finish(w)
    /\ UNCHANGED <<owner, gatewayVars, crashes>>

-----------------------------------------------------------------------------
(* Settlement.                                                             *)

Known(ref) == ref = reference \/ ref \in history

(* handleRefundSuccess, settleDuplicatePaymentRefund and                   *)
(* completeReturnRefund.  A reference that is neither current nor replaced *)
(* is refused.  What the admins are told of is left out.                   *)
handleRefundSuccess(ref) ==
    /\ IF Known(ref) /\ ~settled
       THEN settled' = TRUE /\ reference' = ref /\ manual' = FALSE
       ELSE UNCHANGED <<settled, reference, manual>>

(* What settling does to the queue and the lock.                           *)
dequeue ==
    IF settled' = settled THEN UNCHANGED <<due, lockVars>>
    ELSE CASE owner = "ORDER" -> UNCHANGED <<due, lockVars>>
           [] owner = "DUPLICATE" -> due' = TRUE /\ UNCHANGED lockVars
           [] owner = "RETURN" -> due' = TRUE /\ unlock

(* A query that found the refund paid.  The duplicate refund is settled by *)
(* the update that releases its lock, the others through the same function *)
(* as a callback.                                                          *)
settleQueried(w) ==
    /\ pc[w] = "act" /\ answer[w] = "paid"
    /\ IF owner # "DUPLICATE"
       THEN handleRefundSuccess(using[w]) /\ dequeue
       ELSE /\ IF StillAsked(w)
               THEN settled' = TRUE /\ due' = TRUE /\ unlock
               ELSE UNCHANGED <<settled, due, lockVars>>
            /\ UNCHANGED <<reference, manual>>
    /\ finish(w)
    /\ UNCHANGED <<owner, history, key, resubmits, retries, byHand, gatewayVars, crashes>>

(* The refund webhook; the gateway may call it any number of times.        *)
callback(ref) ==
    /\ gateway[ref] = "paid"
    /\ handleRefundSuccess(ref)
    /\ dequeue
    /\ UNCHANGED <<owner, history, key, resubmits, retries, byHand, workerVars, gatewayVars,
                   crashes>>

(* Staff close a return they have paid themselves.                         *)
closeManualReturn ==
    /\ owner = "RETURN" /\ manual /\ ~settled
    /\ settled' = TRUE /\ manual' = FALSE /\ byHand' = TRUE
    /\ UNCHANGED <<owner, reference, history, key, resubmits, retries, due, lockVars, workerVars,
                   gatewayVars, crashes>>

-----------------------------------------------------------------------------
(* Time and failure.                                                       *)

BackoffEnds ==
    /\ ~due
    /\ due' = TRUE
    /\ UNCHANGED <<owner, settled, reference, history, key, resubmits, retries, manual, lockVars,
                   byHand, workerVars, gatewayVars, crashes>>

LockExpires ==
    /\ lock # NoOne /\ ~expired
    /\ expired' = TRUE
    /\ UNCHANGED <<owner, settled, reference, history, key, resubmits, retries, manual, due, lock,
                   byHand, workerVars, gatewayVars, crashes>>

(* A process dies and leaves its lock behind.                              *)
Crash(w) ==
    /\ pc[w] # "idle" /\ crashes < MaxCrashes
    /\ finish(w)
    /\ crashes' = crashes + 1
    /\ UNCHANGED <<owner, documentVars, gatewayVars>>

BankDecides ==
    /\ \E k \in Keys : BankPays(k) \/ BankFails(k)
    /\ UNCHANGED <<owner, documentVars, workerVars, crashes>>

BankReverses ==
    /\ \E k \in Keys : BankPaysAfterAll(k)
    /\ UNCHANGED <<owner, documentVars, workerVars, crashes>>

-----------------------------------------------------------------------------
Init ==
    /\ owner \in Owners
    /\ settled = FALSE /\ reference = NoRef /\ history = {}
    /\ key = 1 /\ resubmits = 0 /\ retries = 0 /\ manual = FALSE /\ due = TRUE
    /\ lock = NoOne /\ expired = FALSE /\ byHand = FALSE
    /\ pc = [w \in Workers |-> "idle"]
    /\ using = [w \in Workers |-> 1]
    /\ seen = [w \in Workers |-> 0]
    /\ answer = [w \in Workers |-> "unknown"]
    /\ gateway = [k \in Keys |-> "none"] /\ reversed = {}
    /\ crashes = 0

Submission(w) == claim(w) \/ accepted(w) \/ unanswered(w) \/ record(w) \/ recordAborts(w)
                 \/ recordFailure(w)
Reconciliation(w) == ask(w) \/ queryRefundStatus(w) \/ queryFails(w) \/ afterQuery(w)
                     \/ settleQueried(w)

Next ==
    \/ \E w \in Workers : Submission(w) \/ Reconciliation(w) \/ Crash(w)
    \/ \E ref \in Keys : callback(ref)
    \/ closeManualReturn
    \/ BackoffEnds \/ LockExpires \/ BankDecides \/ BankReverses

Spec == Init /\ [][Next]_vars

(* The jobs run every minute or half minute and a worker carries on unless *)
(* its process dies; times come to pass; a gateway that is asked again and *)
(* again answers some time, and settles or fails what it accepted.  A lock *)
(* lives for a minute or two and a call for 35 seconds, so again and again *)
(* a worker is done before its lock expires.  Nobody is bound to do what   *)
(* is left to staff.                                                       *)
InTime(w) == lock = w \/ (owner # "DUPLICATE" /\ pc[w] \in {"ask", "act"})

Fairness ==
    /\ \A w \in Workers :
        /\ WF_vars(claim(w) \/ ask(w))
        /\ WF_vars(accepted(w) \/ unanswered(w)) /\ SF_vars(accepted(w) /\ InTime(w))
        /\ WF_vars(record(w) \/ recordAborts(w)) /\ SF_vars(record(w) /\ InTime(w))
        /\ WF_vars(queryRefundStatus(w) \/ queryFails(w))
        /\ SF_vars(queryRefundStatus(w) /\ InTime(w))
        /\ WF_vars(recordFailure(w) \/ afterQuery(w) \/ settleQueried(w))
        /\ SF_vars((afterQuery(w) \/ settleQueried(w)) /\ InTime(w))
    /\ WF_vars(BackoffEnds) /\ WF_vars(LockExpires)
    /\ WF_vars(BankDecides)

FairSpec == Spec /\ Fairness

-----------------------------------------------------------------------------
(* Properties.                                                             *)

(* A refund is closed only when the customer has the money: from the       *)
(* gateway, or from staff who say so.                                      *)
SettledIsPaid == settled => Paid # {} \/ byHand

(* The customer is paid once, whatever answers are lost, locks expire and  *)
(* workers die: unless the bank pays what it had reported failed, no two   *)
(* submissions of one refund are paid.                                     *)
PaidOnce == reversed = {} /\ owner # "RETURN" => Cardinality(Paid) <= 1

(* What the comment over the return's rearming promises: a retry replaces  *)
(* an attempt the gateway reported failed.  So without a reversal a return *)
(* is not paid twice either.                                               *)
ReturnPaidOnce == reversed = {} /\ owner = "RETURN" => Cardinality(Paid) <= 1

(* A refund does not stay open for ever: it is paid or handed to staff.    *)
RefundSettles == ~settled ~> (settled \/ manual)

=============================================================================
