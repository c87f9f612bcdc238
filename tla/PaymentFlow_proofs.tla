------------------------- MODULE PaymentFlow_proofs -------------------------
(***************************************************************************)
(* Which captured payment is kept and which go back, for every number of   *)
(* concurrent requests, attempts and sessions.  The argument: while the    *)
(* order waits, or is closed unpaid, no attempt has succeeded, so a claim  *)
(* or a payment that replaces providerOrderId displaces no payment; once   *)
(* one came in, providerOrderId does not change any more.                  *)
(***************************************************************************)
EXTENDS PaymentFlow, TLAPS

PaidStatuses == {"PAID", "REFUNDING", "REFUNDED"}

(* The gateway knows only sessions of attempts that were claimed.          *)
SessionsAreClaimed == \A a \in Attempts : session[a] # "none" => a <= count

PaymentInv == TypeOK /\ SessionsAreClaimed

(* No payment came in before the order is paid.                            *)
NothingCapturedYet ==
    status \notin PaidStatuses => \A a \in Attempts : attempt[a] # "SUCCEEDED"

MoneyInv == CapturedIsAccounted /\ KeptPaymentIsNotReturned /\ NothingCapturedYet

-----------------------------------------------------------------------------
(* Types, step by step.                                                    *)

(* An updated function has its type.                                       *)
LEMMA UpdatedFunction ==
    ASSUME NEW S, NEW T, NEW f \in [S -> T], NEW x, NEW y \in T
    PROVE  [f EXCEPT ![x] = y] \in [S -> T]
  OBVIOUS

(* The steps of a request keep the types.                                  *)
LEMMA RequestStepType ==
    ASSUME PaymentInv, NEW r \in Requests, RequestStep(r)
    PROVE  PaymentInv'
<1> USE LimitAssumption DEF PaymentInv, TypeOK, SessionsAreClaimed, Attempts, NoAttempt,
        orderVars, attemptVars, requestVars
<1>a. ASSUME NEW x, NEW y \in {"NONE", "CREATING", "PENDING", "FAILED", "SUCCEEDED"},
             SetAttempt(x, y)
      PROVE  attempt' \in [Attempts -> {"NONE", "CREATING", "PENDING", "FAILED", "SUCCEEDED"}]
  BY <1>a, UpdatedFunction DEF SetAttempt
<1>b. \A place \in {"idle", "claim", "open", "record", "fail"} : Goto(r, place) =>
          pc' \in [Requests -> {"idle", "claim", "open", "record", "fail"}]
  BY UpdatedFunction DEF Goto
<1>c. mine[r] \in 0..count
  OBVIOUS
<1>1. CASE retryPayment(r)
  BY <1>1, <1>b DEF retryPayment
<1>2. CASE claim(r)
  <2>1. count' = count + 1 /\ count' \in 0..MaxAttempts
    BY <1>2 DEF claim
  <2>2. attempt' \in [Attempts -> {"NONE", "CREATING", "PENDING", "FAILED", "SUCCEEDED"}]
    BY <1>2, <1>a DEF claim
  <2>3. mine' \in [Requests -> 0..count']
    <3>1. mine \in [Requests -> 0..count'] /\ count' \in 0..count'
      BY <2>1
    <3> QED  BY <1>2, <3>1, UpdatedFunction DEF claim
  <2>4. providerOrderId' \in 0..count' /\ checkoutUrl' \in 0..count'
    BY <1>2, <2>1 DEF claim
  <2>5. SessionsAreClaimed'
    BY <1>2, <2>1 DEF claim
  <2> QED  BY <1>2, <1>b, <2>1, <2>2, <2>3, <2>4, <2>5 DEF claim
<1>3. CASE claimRefused(r)
  BY <1>3, <1>b DEF claimRefused
<1>4. CASE sessionOpened(r)
  <2>1. session' = [session EXCEPT ![mine[r]] = "open"]
    BY <1>4 DEF sessionOpened
  <2>2. session' \in [Attempts -> {"none", "open", "paid", "failed"}]
    BY <2>1, UpdatedFunction
  <2>3. \A a \in Attempts : session'[a] # "none" => a <= count
    BY <2>1, <1>c
  <2> QED  BY <1>4, <1>b, <2>2, <2>3 DEF sessionOpened
<1>5. CASE openingFails(r)
  <2>1. session' \in {session, [session EXCEPT ![mine[r]] = "open"]}
    BY <1>5 DEF openingFails
  <2>2. session' \in [Attempts -> {"none", "open", "paid", "failed"}]
    BY <2>1, UpdatedFunction
  <2>3. \A a \in Attempts : session'[a] # "none" => a <= count
    BY <2>1, <1>c
  <2> QED  BY <1>5, <1>b, <2>2, <2>3 DEF openingFails
<1>6. CASE record(r)
  BY <1>6, <1>a, <1>b, <1>c DEF record
<1>7. CASE recordFailure(r)
  BY <1>7, <1>a, <1>b DEF recordFailure
<1>8. CASE Crash(r)
  BY <1>8, <1>b DEF Crash
<1> QED  BY <1>1, <1>2, <1>3, <1>4, <1>5, <1>6, <1>7, <1>8 DEF RequestStep

(* The steps of the gateway keep the types.                                *)
LEMMA GatewayStepType ==
    ASSUME PaymentInv, NEW a \in Attempts, GatewayStep(a)
    PROVE  PaymentInv'
<1> USE LimitAssumption DEF PaymentInv, TypeOK, SessionsAreClaimed, Attempts, NoAttempt,
        orderVars, attemptVars, requestVars
<1>a. \A y \in {"FAILED", "SUCCEEDED"} : SetAttempt(a, y) =>
          attempt' \in [Attempts -> {"NONE", "CREATING", "PENDING", "FAILED", "SUCCEEDED"}]
  BY UpdatedFunction DEF SetAttempt
<1>1. CASE Pay(a)
  BY <1>1 DEF Pay
<1>2. CASE SessionFails(a)
  BY <1>2 DEF SessionFails
<1>3. CASE handlePaymentSuccess(a)
  <2>1. attempt' \in [Attempts -> {"NONE", "CREATING", "PENDING", "FAILED", "SUCCEEDED"}]
    BY <1>3, <1>a DEF handlePaymentSuccess
  <2>2. a \in 0..count
    BY <1>3 DEF handlePaymentSuccess
  <2>3. CASE ReturnDuplicate(a)
    BY <1>3, <2>1, <2>3 DEF handlePaymentSuccess, ReturnDuplicate
  <2>4. CASE KeepPayment(a) /\ status' \in {"PAID", "REFUNDING"}
    <3>1. providerOrderId' \in 0..count /\ checkoutUrl' \in 0..count
      BY <2>2, <2>4 DEF KeepPayment
    <3>2. UNCHANGED <<count, cooling, requestVars, session, crashes, duplicateRefund>>
          /\ retryLock' = "free" /\ overdue' = FALSE
      BY <1>3, <2>4 DEF handlePaymentSuccess, KeepPayment
    <3> QED  BY <2>1, <2>4, <3>1, <3>2
  <2> QED  BY <1>3, <2>3, <2>4 DEF handlePaymentSuccess
<1>4. CASE handlePaymentFailed(a)
  <2>1. attempt' \in [Attempts -> {"NONE", "CREATING", "PENDING", "FAILED", "SUCCEEDED"}]
    BY <1>4, <1>a DEF handlePaymentFailed
  <2>2. checkoutUrl' \in {checkoutUrl, 0} /\ checkoutUrl' \in 0..count
    BY <1>4 DEF handlePaymentFailed
  <2>3. status' \in {status, "FAILED"} /\ overdue' \in BOOLEAN
        /\ retryLock' \in {"free", "held", "past"}
    BY <1>4 DEF handlePaymentFailed
  <2> QED  BY <1>4, <2>1, <2>2, <2>3 DEF handlePaymentFailed
<1>5. CASE settleDuplicatePaymentRefund(a)
  BY <1>5 DEF settleDuplicatePaymentRefund
<1> QED  BY <1>1, <1>2, <1>3, <1>4, <1>5 DEF GatewayStep

OrderStep ==
    cancelPendingOrder \/ prepareRefundRequest \/ completeRefund
    \/ OrderExpires \/ LockExpires \/ CooldownEnds

(* The steps of the order keep the types.                                  *)
LEMMA OrderStepType == PaymentInv /\ OrderStep => PaymentInv'
  BY DEF PaymentInv, TypeOK, SessionsAreClaimed, OrderStep, cancelPendingOrder,
         prepareRefundRequest, completeRefund, OrderExpires, LockExpires, CooldownEnds,
         orderVars, attemptVars, requestVars

(* The types hold in every reachable state.                                *)
LEMMA PaymentInvHolds == Spec => []PaymentInv
<1>1. Init => PaymentInv
  <2> SUFFICES ASSUME Init PROVE PaymentInv
    OBVIOUS
  <2>1. 0 \in 0..MaxAttempts /\ 0 \in 0..MaxCrashes /\ 0 \in 0..0
    BY LimitAssumption
  <2>2. count \in 0..MaxAttempts /\ crashes \in 0..MaxCrashes
        /\ providerOrderId \in 0..count /\ checkoutUrl \in 0..count
    BY <2>1 DEF Init, NoAttempt
  <2>3. mine \in [Requests -> 0..count]
    BY <2>1 DEF Init, NoAttempt
  <2> QED  BY <2>2, <2>3 DEF Init, PaymentInv, TypeOK, SessionsAreClaimed
<1>2. PaymentInv /\ [Next]_vars => PaymentInv'
  <2> SUFFICES ASSUME PaymentInv, [Next]_vars PROVE PaymentInv'
    OBVIOUS
  <2>1. CASE \E r \in Requests : RequestStep(r)
    BY <2>1, RequestStepType
  <2>2. CASE \E a \in Attempts : GatewayStep(a)
    BY <2>2, GatewayStepType
  <2>3. CASE OrderStep
    BY <2>3, OrderStepType
  <2>4. CASE UNCHANGED vars
    BY <2>4 DEF PaymentInv, TypeOK, SessionsAreClaimed, vars, orderVars, attemptVars,
                requestVars
  <2> QED  BY <2>1, <2>2, <2>3, <2>4 DEF Next, OrderStep
<1> QED  BY <1>1, <1>2, PTL DEF Spec

(* Type correctness: the current attempt and the one the customer is sent  *)
(* to are always attempts that were claimed.                               *)
THEOREM PaymentTypeCorrect == Spec => []TypeOK
<1>1. PaymentInv => TypeOK
  BY DEF PaymentInv
<1> QED  BY <1>1, PaymentInvHolds, PTL

-----------------------------------------------------------------------------
(* The steps of a request leave captured payments where they are.          *)
LEMMA RequestStepMoney ==
    ASSUME PaymentInv, MoneyInv, NEW r \in Requests, RequestStep(r)
    PROVE  MoneyInv'
<1> USE DEF MoneyInv, CapturedIsAccounted, KeptPaymentIsNotReturned, NothingCapturedYet,
        PaidStatuses, PaymentInv, TypeOK, SetAttempt, orderVars, attemptVars
<1>1. CASE claim(r)
  <2>1. /\ status = "PENDING" /\ status' = "PENDING"
        /\ attempt' = [attempt EXCEPT ![count + 1] = "CREATING"]
        /\ UNCHANGED duplicateRefund
    BY <1>1 DEF claim, Claimable
  <2>2. \A a \in Attempts : attempt'[a] # "SUCCEEDED"
    BY <2>1
  <2> QED  BY <2>1, <2>2
<1>2. CASE record(r)
  BY <1>2 DEF record, StillMine
<1>3. CASE recordFailure(r)
  BY <1>3 DEF recordFailure, StillMine
<1>4. CASE retryPayment(r) \/ claimRefused(r) \/ sessionOpened(r) \/ openingFails(r)
           \/ Crash(r)
  BY <1>4 DEF retryPayment, claimRefused, sessionOpened, openingFails, Crash
<1> QED  BY <1>1, <1>2, <1>3, <1>4 DEF RequestStep

(* A success callback keeps the payment or queues its return.              *)
LEMMA PaymentSuccessMoney ==
    ASSUME PaymentInv, MoneyInv, NEW a \in Attempts, handlePaymentSuccess(a)
    PROVE  MoneyInv'
<1> USE DEF MoneyInv, CapturedIsAccounted, KeptPaymentIsNotReturned, NothingCapturedYet,
        PaidStatuses, PaymentInv, TypeOK
<1>1. attempt' = [attempt EXCEPT ![a] = "SUCCEEDED"]
  BY DEF handlePaymentSuccess, SetAttempt
<1>2. CASE status \in PaidStatuses /\ ReturnDuplicate(a)
  BY <1>1, <1>2 DEF ReturnDuplicate
<1>3. CASE status \notin PaidStatuses /\ KeepPayment(a) /\ status' \in PaidStatuses
  <2>1. \A b \in Attempts : attempt[b] # "SUCCEEDED" /\ duplicateRefund[b] = "NONE"
    BY <1>3
  <2> QED  BY <1>1, <1>3, <2>1 DEF KeepPayment
<1> QED  BY <1>2, <1>3 DEF handlePaymentSuccess

(* The steps of the gateway keep every captured payment accounted for.     *)
LEMMA GatewayStepMoney ==
    ASSUME PaymentInv, MoneyInv, NEW a \in Attempts, GatewayStep(a)
    PROVE  MoneyInv'
<1> USE DEF MoneyInv, CapturedIsAccounted, KeptPaymentIsNotReturned, NothingCapturedYet,
        PaidStatuses, PaymentInv, TypeOK, orderVars, attemptVars
<1>1. CASE handlePaymentSuccess(a)
  BY <1>1, PaymentSuccessMoney
<1>2. CASE handlePaymentFailed(a)
  BY <1>2 DEF handlePaymentFailed, SetAttempt
<1>3. CASE settleDuplicatePaymentRefund(a)
  BY <1>3 DEF settleDuplicatePaymentRefund
<1>4. CASE Pay(a) \/ SessionFails(a)
  BY <1>4 DEF Pay, SessionFails
<1> QED  BY <1>1, <1>2, <1>3, <1>4 DEF GatewayStep

(* The steps of the order keep every captured payment accounted for.       *)
LEMMA OrderStepMoney == MoneyInv /\ OrderStep => MoneyInv'
  BY DEF MoneyInv, CapturedIsAccounted, KeptPaymentIsNotReturned, NothingCapturedYet,
         PaidStatuses, OrderStep, cancelPendingOrder, prepareRefundRequest, completeRefund,
         OrderExpires, LockExpires, CooldownEnds, orderVars, attemptVars

(* The invariant holds in every reachable state.                           *)
LEMMA MoneyInvHolds == Spec => []MoneyInv
<1>1. Init => MoneyInv
  BY DEF Init, MoneyInv, CapturedIsAccounted, KeptPaymentIsNotReturned, NothingCapturedYet,
         PaidStatuses
<1>2. PaymentInv /\ MoneyInv /\ [Next]_vars => MoneyInv'
  <2> SUFFICES ASSUME PaymentInv, MoneyInv, [Next]_vars PROVE MoneyInv'
    OBVIOUS
  <2>1. CASE \E r \in Requests : RequestStep(r)
    BY <2>1, RequestStepMoney
  <2>2. CASE \E a \in Attempts : GatewayStep(a)
    BY <2>2, GatewayStepMoney
  <2>3. CASE OrderStep
    BY <2>3, OrderStepMoney
  <2>4. CASE UNCHANGED vars
    BY <2>4 DEF MoneyInv, CapturedIsAccounted, KeptPaymentIsNotReturned,
                NothingCapturedYet, vars, orderVars, attemptVars
  <2> QED  BY <2>1, <2>2, <2>3, <2>4 DEF Next, OrderStep
<1> QED  BY <1>1, <1>2, PaymentInvHolds, PTL DEF Spec

(* Every captured payment is the kept one or goes back, and a paid order   *)
(* keeps one that came in.                                                 *)
THEOREM AccountedCorrect == Spec => []CapturedIsAccounted
<1>1. MoneyInv => CapturedIsAccounted
  BY DEF MoneyInv
<1> QED  BY <1>1, MoneyInvHolds, PTL

(* The payment an order keeps is never returned as a duplicate as well.    *)
THEOREM KeptCorrect == Spec => []KeptPaymentIsNotReturned
<1>1. MoneyInv => KeptPaymentIsNotReturned
  BY DEF MoneyInv
<1> QED  BY <1>1, MoneyInvHolds, PTL
=============================================================================
