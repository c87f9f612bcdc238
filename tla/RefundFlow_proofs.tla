------------------------- MODULE RefundFlow_proofs -------------------------
(***************************************************************************)
(* One refund is closed only over money the customer has, and is paid      *)
(* once, for every number of workers, submissions and crashes.  The        *)
(* argument for the second: keys are given out one after the other, each   *)
(* only when the gateway has reported its predecessor failed, so among all *)
(* keys but the newest none is paid unless the bank reverses a failure.    *)
(* What has to be shown is that a verdict which re-arms the refund is about*)
(* the newest key: an order's is because the update repeats the reference, *)
(* a duplicate's because its worker still holds the lock.                  *)
(***************************************************************************)
EXTENDS RefundFlow, FiniteSetTheorems, TLAPS

Places == {"idle", "submit", "record", "fail", "ask", "act"}
Answers == {"unknown", "none", "pending", "failed", "paid"}
GatewayStates == {"none", "pending", "failed", "paid"}

RefundTypeOK ==
    /\ owner \in {"ORDER", "DUPLICATE", "RETURN"}
    /\ settled \in BOOLEAN
    /\ reference \in {NoRef} \cup Keys
    /\ history \subseteq Keys
    /\ key \in Keys
    /\ lock \in {NoOne} \cup Workers
    /\ pc \in [Workers -> Places]
    /\ using \in [Workers -> Keys]
    /\ answer \in [Workers -> Answers]
    /\ gateway \in [Keys -> GatewayStates]
    /\ reversed \subseteq Keys

(* What a worker was told of the gateway stays true.                       *)
ToldPaid ==
    \A w \in Workers : pc[w] \in {"record", "act"} /\ answer[w] = "paid" =>
                           gateway[using[w]] = "paid"

SettledInv == RefundTypeOK /\ ToldPaid /\ SettledIsPaid

Failed(k) == gateway[k] = "failed" \/ k \in reversed

ToldFailed ==
    \A w \in Workers : pc[w] = "act" /\ answer[w] = "failed" => Failed(using[w])

UsingIssued == \A w \in Workers : using[w] <= key

(* Each key is given out once its predecessor has failed.                  *)
KeysInOrder ==
    \A k \in Keys : /\ k < key => Failed(k)
                    /\ k > key => gateway[k] = "none"

(* What an open refund stores, and what the holder of its lock works on,   *)
(* is the newest key.                                                      *)
NewestKey ==
    ~settled =>
        /\ reference \in {NoRef, key}
        /\ \A w \in Workers : lock = w =>
            /\ pc[w] \in {"submit", "record"} => reference = NoRef /\ using[w] = key
            /\ pc[w] \in {"ask", "act"} /\ owner = "DUPLICATE" => using[w] = key

OnceInv ==
    owner \in {"ORDER", "DUPLICATE"} => ToldFailed /\ UsingIssued /\ KeysInOrder /\ NewestKey

-----------------------------------------------------------------------------
(* Keys are numbers from 1 on, and no key is the missing reference.        *)
LEMMA KeysAreNaturals ==
    /\ Keys \subseteq Nat \ {0}
    /\ 1 \in Keys
    /\ NoRef \notin Keys
    /\ IsFiniteSet(Keys)
<1>1. Keys = 1..MaxKeys /\ MaxKeys \in Nat /\ MaxKeys >= 1
  BY SubmissionsAssumption
<1>2. IsFiniteSet(1..MaxKeys)
  BY <1>1, FS_Interval
<1> QED  BY <1>1, <1>2 DEF NoRef

(* An updated function has its type.                                       *)
LEMMA UpdatedFunction ==
    ASSUME NEW S, NEW T, NEW f \in [S -> T], NEW x, NEW y \in T
    PROVE  [f EXCEPT ![x] = y] \in [S -> T]
  OBVIOUS

(* A step that leaves every worker but w where it stands.                  *)
LEMMA Finished ==
    ASSUME RefundTypeOK, NEW w \in Workers, finish(w)
    PROVE  /\ pc' \in [Workers -> Places] /\ using' \in [Workers -> Keys]
           /\ answer' \in [Workers -> Answers]
           /\ pc'[w] = "idle" /\ using'[w] = 1
           /\ \A v \in Workers \ {w} :
                 pc'[v] = pc[v] /\ using'[v] = using[v] /\ answer'[v] = answer[v]
<1>1. 1 \in Keys /\ "idle" \in Places /\ "unknown" \in Answers
  BY KeysAreNaturals DEF Places, Answers
<1> QED  BY <1>1 DEF finish, Goto, RefundTypeOK

(* Going to a place moves one worker.                                      *)
LEMMA Moved ==
    ASSUME RefundTypeOK, NEW w \in Workers, NEW place \in Places, Goto(w, place)
    PROVE  /\ pc' \in [Workers -> Places]
           /\ pc'[w] = place
           /\ \A v \in Workers \ {w} : pc'[v] = pc[v]
  BY DEF Goto, RefundTypeOK

(* What the gateway does with a submission.                                *)
LEMMA Received ==
    ASSUME RefundTypeOK, NEW k \in Keys, receive(k) \/ receiveAndPay(k) \/ UNCHANGED gatewayVars
    PROVE  /\ gateway' \in [Keys -> GatewayStates] /\ reversed' = reversed
           /\ \A j \in Keys : gateway[j] # "none" => gateway'[j] = gateway[j]
           /\ \A j \in Keys \ {k} : gateway'[j] = gateway[j]
  BY DEF RefundTypeOK, receive, receiveAndPay, gatewayVars, GatewayStates

-----------------------------------------------------------------------------
(* Types.                                                                  *)
LEMMA InitType == Init => RefundTypeOK
<1> SUFFICES ASSUME Init PROVE RefundTypeOK
  OBVIOUS
<1>1. 1 \in Keys /\ "idle" \in Places /\ "unknown" \in Answers /\ "none" \in GatewayStates
  BY KeysAreNaturals DEF Places, Answers, GatewayStates
<1>2. /\ pc \in [Workers -> Places] /\ using \in [Workers -> Keys]
      /\ answer \in [Workers -> Answers] /\ gateway \in [Keys -> GatewayStates]
  BY <1>1 DEF Init
<1>3. owner \in {"ORDER", "DUPLICATE", "RETURN"}
  BY SubmissionsAssumption DEF Init
<1> QED  BY <1>1, <1>2, <1>3 DEF Init, RefundTypeOK

(* The steps of a submission keep the types.                               *)
LEMMA SubmissionType ==
    ASSUME RefundTypeOK, NEW w \in Workers, Submission(w)
    PROVE  RefundTypeOK'
<1>0. /\ {"idle", "submit", "record", "fail", "ask", "act"} \subseteq Places
      /\ {"paid", "pending", "unknown"} \subseteq Answers
      /\ using[w] \in Keys
  BY DEF Places, Answers, RefundTypeOK
<1>1. CASE claim(w)
  <2>1. pc' \in [Workers -> Places] /\ using' \in [Workers -> Keys]
    BY <1>0, <1>1 DEF claim, Goto, Read, RefundTypeOK
  <2> QED  BY <1>1, <2>1 DEF claim, RefundTypeOK, gatewayVars
<1>2. CASE accepted(w)
  <2>1. pc' \in [Workers -> Places] /\ answer' \in [Workers -> Answers]
    BY <1>0, <1>2 DEF accepted, Goto, RefundTypeOK
  <2>2. gateway' \in [Keys -> GatewayStates] /\ reversed' = reversed
    BY <1>0, <1>2, Received DEF accepted
  <2> QED  BY <1>2, <2>1, <2>2 DEF accepted, RefundTypeOK, documentVars, lockVars
<1>3. CASE unanswered(w)
  <2>1. pc' \in [Workers -> Places]
    BY <1>0, <1>3 DEF unanswered, Goto, RefundTypeOK
  <2>2. gateway' \in [Keys -> GatewayStates] /\ reversed' = reversed
    BY <1>0, <1>3, Received DEF unanswered
  <2> QED  BY <1>3, <2>1, <2>2 DEF unanswered, RefundTypeOK, documentVars, lockVars
<1>4. CASE record(w)
  <2>1. pc' \in [Workers -> Places] /\ using' \in [Workers -> Keys]
        /\ answer' \in [Workers -> Answers]
    BY <1>4, Finished DEF record
  <2> QED  BY <1>0, <1>4, <2>1 DEF record, RefundTypeOK, unlock, lockVars, gatewayVars
<1>5. CASE recordAborts(w)
  <2>1. pc' \in [Workers -> Places] /\ using' \in [Workers -> Keys]
        /\ answer' \in [Workers -> Answers]
    BY <1>0, <1>5, Finished DEF recordAborts, Goto, RefundTypeOK
  <2> QED  BY <1>5, <2>1 DEF recordAborts, RefundTypeOK, documentVars, lockVars, gatewayVars
<1>6. CASE recordFailure(w)
  <2>1. pc' \in [Workers -> Places] /\ using' \in [Workers -> Keys]
        /\ answer' \in [Workers -> Answers]
    BY <1>6, Finished DEF recordFailure
  <2> QED  BY <1>6, <2>1 DEF recordFailure, RefundTypeOK, unlock, lockVars, gatewayVars
<1> QED  BY <1>1, <1>2, <1>3, <1>4, <1>5, <1>6 DEF Submission

(* The steps of a reconciliation keep the types.                           *)
LEMMA ReconciliationType ==
    ASSUME RefundTypeOK, NEW w \in Workers, Reconciliation(w)
    PROVE  RefundTypeOK'
<1>0. /\ {"idle", "ask", "act"} \subseteq Places
      /\ "unknown" \in Answers /\ GatewayStates \subseteq Answers
      /\ using[w] \in Keys /\ gateway[using[w]] \in GatewayStates
  BY DEF Places, Answers, GatewayStates, RefundTypeOK
<1>1. CASE ask(w)
  <2>1. pc' \in [Workers -> Places] /\ using' \in [Workers -> Keys]
    BY <1>0, <1>1 DEF ask, Goto, Read, RefundTypeOK
  <2> QED  BY <1>1, <2>1 DEF ask, RefundTypeOK, documentVars, lockVars, gatewayVars
<1>2. CASE queryRefundStatus(w) \/ queryFails(w)
  <2>1. pc' \in [Workers -> Places] /\ answer' \in [Workers -> Answers]
    BY <1>0, <1>2 DEF queryRefundStatus, queryFails, Goto, RefundTypeOK
  <2> QED
    BY <1>2, <2>1
    DEF queryRefundStatus, queryFails, RefundTypeOK, documentVars, lockVars, gatewayVars
<1>3. CASE afterQuery(w)
  <2>1. pc' \in [Workers -> Places] /\ using' \in [Workers -> Keys]
        /\ answer' \in [Workers -> Answers]
    BY <1>3, Finished DEF afterQuery
  <2>2. key' \in Keys /\ reference' \in {NoRef} \cup Keys /\ history' \subseteq Keys
        /\ lock' \in {NoOne} \cup Workers /\ settled' = settled
    <3>1. lock' \in {NoOne} \cup Workers /\ settled' = settled
      BY <1>3
      DEF afterQuery, rearmFailedRefund, deferRefundQuery, unlockDuplicate, unlock,
          RefundTypeOK, documentVars, lockVars
    <3>2. CASE UNCHANGED <<history, reference, key>>
      BY <3>1, <3>2 DEF RefundTypeOK
    <3>3. CASE rearmFailedRefund(w)
      <4>1. key < MaxKeys => key + 1 \in Keys
        BY SubmissionsAssumption DEF RefundTypeOK
      <4> QED  BY <1>0, <3>1, <3>3, <4>1 DEF rearmFailedRefund, RefundTypeOK
    <3> QED  BY <1>3, <3>2, <3>3 DEF afterQuery, deferRefundQuery, documentVars
  <2> QED  BY <1>3, <2>1, <2>2 DEF afterQuery, RefundTypeOK, gatewayVars
<1>4. CASE settleQueried(w)
  <2>1. pc' \in [Workers -> Places] /\ using' \in [Workers -> Keys]
        /\ answer' \in [Workers -> Answers]
    BY <1>4, Finished DEF settleQueried
  <2>2. settled' \in BOOLEAN /\ reference' \in {NoRef} \cup Keys
        /\ lock' \in {NoOne} \cup Workers
    BY <1>0, <1>4
    DEF settleQueried, handleRefundSuccess, dequeue, unlock, lockVars, RefundTypeOK
  <2> QED  BY <1>4, <2>1, <2>2 DEF settleQueried, RefundTypeOK, gatewayVars
<1> QED  BY <1>1, <1>2, <1>3, <1>4 DEF Reconciliation

(* Gateway, staff, clock and crashes keep the types.                       *)
LEMMA EnvironmentType ==
    ASSUME RefundTypeOK,
           \/ \E w \in Workers : Crash(w)
           \/ \E ref \in Keys : callback(ref)
           \/ closeManualReturn \/ BackoffEnds \/ LockExpires \/ BankDecides \/ BankReverses
    PROVE  RefundTypeOK'
<1>1. CASE \E w \in Workers : Crash(w)
  <2> PICK w \in Workers : Crash(w)
    BY <1>1
  <2>1. pc' \in [Workers -> Places] /\ using' \in [Workers -> Keys]
        /\ answer' \in [Workers -> Answers]
    BY Finished DEF Crash
  <2> QED  BY <2>1 DEF Crash, RefundTypeOK, documentVars, lockVars, gatewayVars
<1>2. CASE \E ref \in Keys : callback(ref)
  <2> PICK ref \in Keys : callback(ref)
    BY <1>2
  <2>1. settled' \in BOOLEAN /\ reference' \in {NoRef} \cup Keys
        /\ lock' \in {NoOne} \cup Workers
    BY DEF callback, handleRefundSuccess, dequeue, unlock, lockVars, RefundTypeOK
  <2> QED  BY <2>1 DEF callback, RefundTypeOK, workerVars, gatewayVars
<1>3. CASE closeManualReturn \/ BackoffEnds \/ LockExpires
  BY <1>3
  DEF closeManualReturn, BackoffEnds, LockExpires, RefundTypeOK, lockVars, workerVars, gatewayVars
<1>4. CASE BankDecides \/ BankReverses
  <2>1. gateway' \in [Keys -> GatewayStates] /\ reversed' \subseteq Keys
    BY <1>4
    DEF BankDecides, BankReverses, BankPays, BankFails, BankPaysAfterAll, RefundTypeOK,
        GatewayStates
  <2> QED
    BY <1>4, <2>1 DEF BankDecides, BankReverses, RefundTypeOK, documentVars, lockVars, workerVars
<1> QED  BY <1>1, <1>2, <1>3, <1>4

(* Every step keeps the types.                                             *)
LEMMA TypeStep == RefundTypeOK /\ [Next]_vars => RefundTypeOK'
<1> SUFFICES ASSUME RefundTypeOK, [Next]_vars PROVE RefundTypeOK'
  OBVIOUS
<1>1. CASE UNCHANGED vars
  BY <1>1 DEF vars, documentVars, lockVars, workerVars, gatewayVars, RefundTypeOK
<1> QED  BY <1>1, SubmissionType, ReconciliationType, EnvironmentType DEF Next

-----------------------------------------------------------------------------
(* What the gateway has paid stays paid, and what it has failed stays      *)
(* failed or is reversed.                                                  *)
LEMMA GatewayKeeps ==
    ASSUME RefundTypeOK, [Next]_vars, NEW k \in Keys
    PROVE  /\ gateway[k] = "paid" => gateway'[k] = "paid"
           /\ Failed(k) => Failed(k)'
<1>1. CASE UNCHANGED gatewayVars
  BY <1>1 DEF gatewayVars, Failed
<1>2. CASE \E w \in Workers : accepted(w) \/ unanswered(w)
  <2> PICK w \in Workers : accepted(w) \/ unanswered(w)
    BY <1>2
  <2>1. using[w] \in Keys
    BY DEF RefundTypeOK
  <2> QED  BY <2>1, Received DEF accepted, unanswered, Failed
<1>3. CASE BankDecides \/ BankReverses
  BY <1>3
  DEF BankDecides, BankReverses, BankPays, BankFails, BankPaysAfterAll, RefundTypeOK, Failed
<1>4. UNCHANGED gatewayVars \/ (\E w \in Workers : accepted(w) \/ unanswered(w))
      \/ BankDecides \/ BankReverses
  BY DEF Next, Submission, Reconciliation, claim, record, recordAborts, recordFailure, ask,
         queryRefundStatus, queryFails, afterQuery, settleQueried, callback, closeManualReturn,
         BackoffEnds, LockExpires, Crash, vars
<1> QED  BY <1>1, <1>2, <1>3, <1>4

(* A step of w that is not told anything leaves what the workers know.     *)
LEMMA KnowledgeKept ==
    ASSUME RefundTypeOK, ToldPaid, [Next]_vars, NEW w \in Workers,
           \A v \in Workers \ {w} :
               pc'[v] = pc[v] /\ using'[v] = using[v] /\ answer'[v] = answer[v],
           pc'[w] \in {"record", "act"} /\ answer'[w] = "paid" => gateway'[using'[w]] = "paid"
    PROVE  ToldPaid'
<1> SUFFICES ASSUME NEW v \in Workers, pc'[v] \in {"record", "act"}, answer'[v] = "paid"
             PROVE  gateway'[using'[v]] = "paid"
  BY DEF ToldPaid
<1>1. CASE v = w
  BY <1>1
<1>2. CASE v # w
  <2>1. using[v] \in Keys /\ gateway[using[v]] = "paid" /\ using'[v] = using[v]
    BY <1>2 DEF RefundTypeOK, ToldPaid
  <2> QED  BY <2>1, GatewayKeeps
<1> QED  BY <1>1, <1>2

(* A refund that the gateway has paid stays paid.                          *)
LEMMA PaidGrows ==
    ASSUME RefundTypeOK, [Next]_vars, Paid # {} \/ byHand, byHand' = byHand
    PROVE  Paid' # {} \/ byHand'
  BY GatewayKeeps DEF Paid

(* What a worker was told of a payment stays true.                         *)
LEMMA ToldPaidWorkers ==
    ASSUME RefundTypeOK, ToldPaid, [Next]_vars, NEW w \in Workers,
           Submission(w) \/ Reconciliation(w) \/ Crash(w)
    PROVE  ToldPaid'
<1>1. CASE finish(w)
  BY <1>1, Finished, KnowledgeKept
<1>2. CASE claim(w) \/ ask(w)
  <2>1. /\ pc'[w] \in {"submit", "ask"} /\ answer' = answer
        /\ \A v \in Workers \ {w} : pc'[v] = pc[v] /\ using'[v] = using[v]
    BY <1>2 DEF claim, ask, Goto, Read, RefundTypeOK
  <2> QED  BY <2>1, KnowledgeKept
<1>3. CASE accepted(w)
  <2>1. /\ using' = using
        /\ answer'[w] = "paid" => gateway'[using[w]] = "paid"
        /\ \A v \in Workers \ {w} : pc'[v] = pc[v] /\ answer'[v] = answer[v]
    BY <1>3 DEF accepted, Goto, RefundTypeOK
  <2> QED  BY <2>1, KnowledgeKept
<1>4. CASE unanswered(w) \/ (recordAborts(w) /\ owner = "ORDER")
  <2>1. /\ using' = using /\ answer' = answer /\ pc'[w] = "fail"
        /\ \A v \in Workers \ {w} : pc'[v] = pc[v]
    BY <1>4 DEF unanswered, recordAborts, Goto, RefundTypeOK
  <2> QED  BY <2>1, KnowledgeKept
<1>5. CASE queryRefundStatus(w) \/ queryFails(w)
  <2>1. /\ using' = using /\ UNCHANGED gatewayVars
        /\ answer'[w] = "paid" => gateway[using[w]] = "paid"
        /\ \A v \in Workers \ {w} : pc'[v] = pc[v] /\ answer'[v] = answer[v]
    BY <1>5 DEF queryRefundStatus, queryFails, Goto, RefundTypeOK
  <2> QED  BY <2>1, KnowledgeKept DEF gatewayVars
<1> QED
  BY <1>1, <1>2, <1>3, <1>4, <1>5
  DEF Submission, Reconciliation, record, recordAborts, recordFailure, afterQuery, settleQueried,
      Crash

(* Every step keeps a settled refund paid.                                 *)
LEMMA SettledStep == SettledInv /\ [Next]_vars => SettledInv'
<1> SUFFICES ASSUME RefundTypeOK, ToldPaid, SettledIsPaid, [Next]_vars
             PROVE  SettledInv'
  BY DEF SettledInv
<1>1. RefundTypeOK'
  BY TypeStep
<1>2. ToldPaid'
  <2>1. CASE \E w \in Workers : Submission(w) \/ Reconciliation(w) \/ Crash(w)
    BY <2>1, ToldPaidWorkers
  <2>2. CASE UNCHANGED workerVars
    <3> SUFFICES ASSUME NEW v \in Workers, pc'[v] \in {"record", "act"}, answer'[v] = "paid"
                 PROVE  gateway'[using'[v]] = "paid"
      BY DEF ToldPaid
    <3>1. using[v] \in Keys /\ gateway[using[v]] = "paid" /\ using'[v] = using[v]
      BY <2>2 DEF RefundTypeOK, ToldPaid, workerVars
    <3> QED  BY <3>1, GatewayKeeps
  <2> QED
    BY <2>1, <2>2
    DEF Next, callback, closeManualReturn, BackoffEnds, LockExpires, BankDecides, BankReverses,
        vars
<1>3. SettledIsPaid'
  <2>1. CASE settled' = settled /\ byHand' = byHand
    BY <2>1, PaidGrows DEF SettledIsPaid
  <2>2. CASE \E w \in Workers : record(w)
    <3> PICK w \in Workers : record(w)
      BY <2>2
    <3>1. CASE ~settled /\ lock = w
      <4>1. settled' => answer[w] = "paid" /\ pc[w] = "record" /\ using[w] \in Keys
        BY <3>1 DEF record, RefundTypeOK
      <4>2. settled' => using[w] \in Paid /\ byHand' = byHand /\ Paid' = Paid
        BY <4>1 DEF ToldPaid, Paid, record, gatewayVars
      <4> QED  BY <4>2 DEF SettledIsPaid
    <3>2. CASE ~(~settled /\ lock = w)
      BY <2>1, <3>2 DEF record
    <3> QED  BY <3>1, <3>2
  <2>3. CASE \E w \in Workers : settleQueried(w)
    <3> PICK w \in Workers : settleQueried(w)
      BY <2>3
    <3>1. pc[w] = "act" /\ answer[w] = "paid" /\ using[w] \in Keys
      BY DEF settleQueried, RefundTypeOK
    <3>2. using[w] \in Paid /\ Paid' = Paid
      BY <3>1 DEF ToldPaid, Paid, settleQueried, gatewayVars
    <3> QED  BY <3>2 DEF SettledIsPaid
  <2>4. CASE \E ref \in Keys : callback(ref)
    <3>1. Paid # {} /\ Paid' = Paid
      BY <2>4 DEF callback, Paid, gatewayVars
    <3> QED  BY <3>1 DEF SettledIsPaid
  <2>5. CASE closeManualReturn
    BY <2>5 DEF closeManualReturn, SettledIsPaid
  <2>6. CASE \E w \in Workers : afterQuery(w)
    BY <2>1, <2>6 DEF afterQuery, documentVars
  <2> QED
    BY <2>1, <2>2, <2>3, <2>4, <2>5, <2>6
    DEF Next, Submission, Reconciliation, claim, accepted, unanswered, recordAborts,
        recordFailure, ask, queryRefundStatus, queryFails, Crash, BackoffEnds,
        LockExpires, BankDecides, BankReverses, documentVars, vars
<1> QED  BY <1>1, <1>2, <1>3 DEF SettledInv

(* The invariant holds in every reachable state.                           *)
LEMMA SettledInvHolds == Spec => []SettledInv
<1>1. Init => SettledInv
  BY InitType DEF Init, SettledInv, ToldPaid, SettledIsPaid
<1> QED  BY <1>1, SettledStep, PTL DEF Spec

(* A refund is closed only over money the customer has: whichever worker,  *)
(* query or callback closes it (handleRefundSuccess,                       *)
(* settleDuplicatePaymentRefund, completeReturnRefund) acts on an answer   *)
(* that is still true, however late it is acted upon.                      *)
THEOREM SettledCorrect == Spec => []SettledIsPaid
<1>1. SettledInv => SettledIsPaid
  BY DEF SettledInv
<1> QED  BY <1>1, SettledInvHolds, PTL

-----------------------------------------------------------------------------
(* Paid once.                                                              *)

Once == owner \in {"ORDER", "DUPLICATE"} /\ ToldFailed /\ UsingIssued /\ KeysInOrder /\ NewestKey

(* A refund never changes its owner.                                       *)
LEMMA OwnerKept == [Next]_vars => owner' = owner
  BY DEF Next, Submission, Reconciliation, claim, accepted, unanswered, record, recordAborts,
         recordFailure, ask, queryRefundStatus, queryFails, afterQuery, settleQueried, callback,
         closeManualReturn, BackoffEnds, LockExpires, Crash, BankDecides, BankReverses, vars

(* A worker about to act knows what it knew, or has just asked.            *)
LEMMA ToldFailedStep ==
    ASSUME RefundTypeOK, Once, [Next]_vars
    PROVE  ToldFailed'
<1> SUFFICES ASSUME NEW v \in Workers, pc'[v] = "act", answer'[v] = "failed"
             PROVE  Failed(using[v])' /\ using'[v] = using[v]
  BY DEF ToldFailed, Failed
<1>0. using[v] \in Keys
  BY DEF RefundTypeOK
<1>1. CASE pc[v] = "act" /\ answer[v] = "failed" /\ using'[v] = using[v]
  BY <1>0, <1>1, GatewayKeeps DEF Once, ToldFailed, Failed
<1>2. CASE queryRefundStatus(v)
  BY <1>0, <1>2, GatewayKeeps DEF queryRefundStatus, Goto, RefundTypeOK, Failed
<1>3. CASE UNCHANGED workerVars
  BY <1>1, <1>3 DEF workerVars
<1>4. ASSUME NEW w \in Workers, Submission(w) \/ Reconciliation(w) \/ Crash(w)
      PROVE  (pc[v] = "act" /\ answer[v] = "failed" /\ using'[v] = using[v])
             \/ queryRefundStatus(v)
  <2>1. CASE finish(w)
    BY <2>1, Finished
  <2>2. CASE claim(w) \/ ask(w)
    BY <2>2 DEF claim, ask, Goto, Read, RefundTypeOK
  <2>3. CASE accepted(w) \/ unanswered(w) \/ (recordAborts(w) /\ owner = "ORDER")
    BY <2>3 DEF accepted, unanswered, recordAborts, Goto, RefundTypeOK
  <2>4. CASE queryRefundStatus(w) \/ queryFails(w)
    BY <2>4 DEF queryRefundStatus, queryFails, Goto, RefundTypeOK
  <2> QED
    BY <1>4, <2>1, <2>2, <2>3, <2>4
    DEF Submission, Reconciliation, record, recordAborts, recordFailure, afterQuery,
        settleQueried, Crash
<1> QED
  BY <1>1, <1>2, <1>3, <1>4
  DEF Next, callback, closeManualReturn, BackoffEnds, LockExpires, BankDecides, BankReverses, vars

(* The verdict that re-arms a refund is about its newest key.              *)
LEMMA VerdictOnNewest ==
    ASSUME RefundTypeOK, Once, NEW w \in Workers, pc[w] = "act", StillAsked(w)
    PROVE  using[w] = key /\ ~settled
<1>1. using[w] \in Keys /\ NoRef \notin Keys
  BY KeysAreNaturals DEF RefundTypeOK
<1> QED  BY <1>1 DEF StillAsked, Once, NewestKey

(* A new key is given out only after the newest one has failed.            *)
LEMMA KeyStep ==
    ASSUME RefundTypeOK, Once, [Next]_vars
    PROVE  key' = key \/ (key' = key + 1 /\ Failed(key))
<1>1. CASE \E w \in Workers : afterQuery(w)
  <2> PICK w \in Workers : afterQuery(w)
    BY <1>1
  <2>1. key' # key => pc[w] = "act" /\ answer[w] = "failed" /\ StillAsked(w) /\ key' = key + 1
    BY DEF afterQuery, rearmFailedRefund, deferRefundQuery, documentVars
  <2>2. key' # key => using[w] = key /\ Failed(using[w])
    BY <2>1, VerdictOnNewest DEF Once, ToldFailed
  <2> QED  BY <2>1, <2>2
<1> QED
  BY <1>1
  DEF Next, Submission, Reconciliation, claim, accepted, unanswered, record, recordAborts,
      recordFailure, ask, queryRefundStatus, queryFails, settleQueried, callback,
      closeManualReturn, BackoffEnds, LockExpires, Crash, BankDecides, BankReverses,
      documentVars, vars

(* No worker uses a key that was not handed out.                           *)
LEMMA UsingStep ==
    ASSUME RefundTypeOK, Once, [Next]_vars
    PROVE  UsingIssued'
<1> SUFFICES ASSUME NEW v \in Workers PROVE using'[v] <= key'
  BY DEF UsingIssued
<1>1. key \in Nat /\ key >= 1 /\ using[v] \in Nat /\ using[v] <= key
  <2>1. key \in Keys /\ using[v] \in Keys
    BY DEF RefundTypeOK
  <2>2. key \in Nat \ {0} /\ using[v] \in Nat \ {0}
    BY <2>1, KeysAreNaturals
  <2>3. using[v] <= key
    BY DEF Once, UsingIssued
  <2> QED  BY <2>2, <2>3
<1>3. key' = key \/ key' = key + 1
  BY KeyStep
<1>2. using'[v] \in {1, using[v], key}
  <2>1. ASSUME NEW w \in Workers, Submission(w) \/ Reconciliation(w) \/ Crash(w)
        PROVE  using'[v] \in {1, using[v], key}
    <3>1. CASE finish(w)
      BY <3>1, Finished
    <3>2. CASE claim(w) \/ ask(w)
      <4>1. ~settled /\ reference \in {NoRef, key}
        BY <3>2 DEF claim, Claimable, ask, Once, NewestKey
      <4> QED  BY <3>2, <4>1 DEF claim, ask, Read, RefundTypeOK
    <3>3. CASE UNCHANGED using
      BY <3>3
    <3> QED
      BY <2>1, <3>1, <3>2, <3>3
      DEF Submission, Reconciliation, accepted, unanswered, queryRefundStatus, queryFails,
          record, recordAborts, recordFailure, afterQuery, settleQueried, Crash
  <2> QED
    BY <2>1
    DEF Next, callback, closeManualReturn, BackoffEnds, LockExpires, BankDecides, BankReverses,
        workerVars, vars
<1> QED  BY <1>1, <1>2, <1>3

(* Every step hands out keys in their order.                               *)
LEMMA OrderStep ==
    ASSUME RefundTypeOK, Once, [Next]_vars
    PROVE  KeysInOrder'
<1> SUFFICES ASSUME NEW k \in Keys
             PROVE  (k < key' => Failed(k)') /\ (k > key' => gateway'[k] = "none")
  BY DEF KeysInOrder, Failed
<1>1. key \in Nat /\ k \in Nat
  BY KeysAreNaturals DEF RefundTypeOK
<1>2. k < key' => Failed(k)'
  <2>1. k < key' => k < key \/ (k = key /\ Failed(key))
    BY <1>1, KeyStep
  <2>2. k < key' => Failed(k)
    BY <2>1 DEF Once, KeysInOrder
  <2> QED  BY <2>2, GatewayKeeps
<1>3. k > key' => gateway'[k] = "none"
  <2> SUFFICES ASSUME k > key' PROVE gateway'[k] = "none"
    OBVIOUS
  <2>1. k > key /\ gateway[k] = "none"
    BY <1>1, KeyStep DEF Once, KeysInOrder
  <2>2. CASE \E w \in Workers : accepted(w) \/ unanswered(w)
    <3> PICK w \in Workers : accepted(w) \/ unanswered(w)
      BY <2>2
    <3>1. using[w] \in Keys /\ using[w] # k
      BY <1>1, <2>1, KeysAreNaturals DEF RefundTypeOK, Once, UsingIssued
    <3> QED  BY <2>1, <3>1, Received DEF accepted, unanswered
  <2>3. CASE BankDecides \/ BankReverses
    BY <2>1, <2>3
    DEF BankDecides, BankReverses, BankPays, BankFails, BankPaysAfterAll, RefundTypeOK
  <2>4. CASE UNCHANGED gateway
    BY <2>1, <2>4
  <2> QED
    BY <2>2, <2>3, <2>4
    DEF Next, Submission, Reconciliation, claim, record, recordAborts, recordFailure, ask,
        queryRefundStatus, queryFails, afterQuery, settleQueried, callback, closeManualReturn,
        BackoffEnds, LockExpires, Crash, gatewayVars, vars
<1> QED  BY <1>2, <1>3

(* Whoever holds the lock of an open refund works on its newest key.       *)
HolderOnNewest(v) ==
    lock = v => /\ pc[v] \in {"submit", "record"} => reference = NoRef /\ using[v] = key
                /\ pc[v] \in {"ask", "act"} /\ owner = "DUPLICATE" => using[v] = key

(* A settled refund stays settled.                                         *)
LEMMA ReopensNever == RefundTypeOK /\ [Next]_vars /\ ~settled' => ~settled
  BY DEF Next, Submission, Reconciliation, claim, accepted, unanswered, record, recordAborts,
         recordFailure, ask, queryRefundStatus, queryFails, afterQuery, settleQueried, callback,
         closeManualReturn, BackoffEnds, LockExpires, Crash, BankDecides, BankReverses,
         handleRefundSuccess, documentVars, vars, RefundTypeOK

(* A submission stores the newest key.                                     *)
LEMMA NewestSubmission ==
    ASSUME RefundTypeOK, Once, ~settled, ~settled', NEW w \in Workers, Submission(w)
    PROVE  reference' \in {NoRef, key'} /\ \A v \in Workers : HolderOnNewest(v)'
<1>0. /\ reference \in {NoRef, key} /\ \A v \in Workers : HolderOnNewest(v)
      /\ NoOne \notin Workers
  BY SubmissionsAssumption DEF Once, NewestKey, HolderOnNewest
<1>1. CASE claim(w)
  <2>1. /\ lock' = w /\ reference' = reference /\ key' = key /\ owner' = owner
        /\ IF reference = NoRef THEN pc'[w] = "submit" /\ using'[w] = key
                                ELSE pc'[w] = "ask" /\ using'[w] = reference
    BY <1>1 DEF claim, Goto, Read, RefundTypeOK
  <2> QED  BY <1>0, <2>1 DEF HolderOnNewest
<1>2. CASE accepted(w)
  <2>1. /\ pc[w] = "submit" /\ pc'[w] = "record" /\ using' = using
        /\ UNCHANGED <<lock, reference, key, owner>>
        /\ \A v \in Workers \ {w} : pc'[v] = pc[v]
    BY <1>2 DEF accepted, Goto, documentVars, lockVars, RefundTypeOK
  <2> QED  BY <1>0, <2>1 DEF HolderOnNewest
<1>3. CASE unanswered(w) \/ (recordAborts(w) /\ owner = "ORDER")
  <2>1. /\ pc'[w] = "fail" /\ using' = using
        /\ UNCHANGED <<lock, reference, key, owner>>
        /\ \A v \in Workers \ {w} : pc'[v] = pc[v]
    BY <1>3 DEF unanswered, recordAborts, Goto, documentVars, lockVars, RefundTypeOK
  <2> QED  BY <1>0, <2>1 DEF HolderOnNewest
<1>4. CASE record(w)
  <2>1. /\ key' = key /\ owner' = owner
        /\ \/ lock = w /\ reference' = using[w] /\ lock' = NoOne
           \/ lock' = lock /\ reference' = reference /\ lock # w
        /\ pc[w] = "record"
        /\ \A v \in Workers \ {w} : pc'[v] = pc[v] /\ using'[v] = using[v]
    BY <1>4, Finished DEF record, unlock, lockVars
  <2> QED  BY <1>0, <2>1 DEF HolderOnNewest
<1>5. CASE recordFailure(w) \/ (recordAborts(w) /\ owner # "ORDER")
  <2>1. /\ key' = key /\ owner' = owner /\ reference' = reference /\ lock' \in {lock, NoOne}
        /\ pc'[w] = "idle"
        /\ \A v \in Workers \ {w} : pc'[v] = pc[v] /\ using'[v] = using[v]
    BY <1>5, Finished DEF recordFailure, recordAborts, unlock, documentVars, lockVars
  <2> QED  BY <1>0, <2>1 DEF HolderOnNewest
<1> QED  BY <1>1, <1>2, <1>3, <1>4, <1>5 DEF Submission

(* A reconciliation acts on the newest key.                                *)
LEMMA NewestReconciliation ==
    ASSUME RefundTypeOK, Once, ~settled, ~settled', NEW w \in Workers, Reconciliation(w)
    PROVE  reference' \in {NoRef, key'} /\ \A v \in Workers : HolderOnNewest(v)'
<1>0. /\ reference \in {NoRef, key} /\ \A v \in Workers : HolderOnNewest(v)
      /\ NoOne \notin Workers /\ owner \in {"ORDER", "DUPLICATE"}
  BY SubmissionsAssumption DEF Once, NewestKey, HolderOnNewest
<1>1. CASE ask(w)
  <2>1. /\ pc'[w] = "ask" /\ owner = "ORDER" /\ UNCHANGED <<lock, reference, key, owner>>
        /\ \A v \in Workers \ {w} : pc'[v] = pc[v] /\ using'[v] = using[v]
    BY <1>0, <1>1 DEF ask, Goto, Read, documentVars, lockVars, RefundTypeOK
  <2> QED  BY <1>0, <2>1 DEF HolderOnNewest
<1>2. CASE queryRefundStatus(w) \/ queryFails(w)
  <2>1. /\ pc[w] = "ask" /\ pc'[w] = "act" /\ using' = using
        /\ UNCHANGED <<lock, reference, key, owner>>
        /\ \A v \in Workers \ {w} : pc'[v] = pc[v]
    BY <1>2 DEF queryRefundStatus, queryFails, Goto, documentVars, lockVars, RefundTypeOK
  <2> QED  BY <1>0, <2>1 DEF HolderOnNewest
<1>3. CASE afterQuery(w) \/ settleQueried(w)
  <2>0. /\ pc[w] = "act" /\ pc'[w] = "idle" /\ owner' = owner
        /\ \A v \in Workers \ {w} : pc'[v] = pc[v] /\ using'[v] = using[v]
    BY <1>3, Finished DEF afterQuery, settleQueried
  <2>1. CASE UNCHANGED <<reference, key>> /\ lock' \in {lock, NoOne}
    BY <1>0, <2>0, <2>1 DEF HolderOnNewest
  <2>2. CASE afterQuery(w) /\ rearmFailedRefund(w) /\ StillAsked(w)
    <3>1. reference' = NoRef
      BY <2>2 DEF rearmFailedRefund
    <3>2. CASE owner = "ORDER"
      <4>1. reference # NoRef /\ lock' = lock
        BY <2>2, <3>2, KeysAreNaturals
        DEF StillAsked, rearmFailedRefund, unlockDuplicate, lockVars, RefundTypeOK
      <4> QED  BY <1>0, <2>0, <3>1, <3>2, <4>1 DEF HolderOnNewest
    <3>3. CASE owner = "DUPLICATE"
      <4>1. lock' = NoOne
        BY <2>2, <3>3 DEF rearmFailedRefund, unlockDuplicate, unlock
      <4> QED  BY <1>0, <3>1, <4>1 DEF HolderOnNewest
    <3> QED  BY <1>0, <3>2, <3>3
  <2>3. CASE settleQueried(w)
    <3>1. UNCHANGED <<reference, key>> /\ lock' \in {lock, NoOne}
      BY <1>0, <2>3
      DEF settleQueried, handleRefundSuccess, dequeue, unlock, lockVars, RefundTypeOK
    <3> QED  BY <2>1, <3>1
  <2> QED
    BY <1>3, <2>1, <2>2, <2>3
    DEF afterQuery, deferRefundQuery, unlockDuplicate, unlock, documentVars, lockVars
<1> QED  BY <1>1, <1>2, <1>3 DEF Reconciliation

(* Every step keeps what is stored the newest key.                         *)
LEMMA NewestStep ==
    ASSUME RefundTypeOK, Once, [Next]_vars
    PROVE  NewestKey'
<1> SUFFICES ASSUME ~settled'
             PROVE  reference' \in {NoRef, key'} /\ \A v \in Workers : HolderOnNewest(v)'
  BY DEF NewestKey, HolderOnNewest
<1>0. /\ ~settled /\ reference \in {NoRef, key} /\ \A v \in Workers : HolderOnNewest(v)
      /\ owner \in {"ORDER", "DUPLICATE"}
  BY ReopensNever DEF Once, NewestKey, HolderOnNewest
<1>1. CASE \E w \in Workers : Submission(w) \/ Reconciliation(w)
  BY <1>0, <1>1, NewestSubmission, NewestReconciliation
<1>2. CASE \E w \in Workers : Crash(w)
  <2> PICK w \in Workers : Crash(w)
    BY <1>2
  <2>1. /\ pc'[w] = "idle" /\ UNCHANGED <<lock, reference, key, owner>>
        /\ \A v \in Workers \ {w} : pc'[v] = pc[v] /\ using'[v] = using[v]
    BY Finished DEF Crash, documentVars, lockVars
  <2> QED  BY <1>0, <2>1 DEF HolderOnNewest
<1>3. CASE UNCHANGED <<lock, reference, key, owner, pc, using>>
  BY <1>0, <1>3 DEF HolderOnNewest
<1>4. CASE \E ref \in Keys : callback(ref)
  BY <1>3, <1>4
  DEF callback, handleRefundSuccess, dequeue, lockVars, workerVars, RefundTypeOK
<1>5. CASE closeManualReturn
  BY <1>0, <1>5 DEF closeManualReturn
<1> QED
  BY <1>1, <1>2, <1>3, <1>4, <1>5
  DEF Next, BackoffEnds, LockExpires, BankDecides, BankReverses, documentVars, lockVars,
      workerVars, vars

(* Every step keeps the invariant.                                         *)
LEMMA OnceStep == SettledInv /\ OnceInv /\ [Next]_vars => OnceInv'
<1> SUFFICES ASSUME RefundTypeOK, OnceInv, [Next]_vars, owner \in {"ORDER", "DUPLICATE"}
             PROVE  ToldFailed' /\ UsingIssued' /\ KeysInOrder' /\ NewestKey'
  BY OwnerKept DEF SettledInv, OnceInv
<1>1. Once
  BY DEF Once, OnceInv
<1> QED  BY <1>1, ToldFailedStep, UsingStep, OrderStep, NewestStep

(* The invariant holds in every reachable state.                           *)
LEMMA OnceInvHolds == Spec => [](SettledInv /\ OnceInv)
<1>1. Init => SettledInv /\ OnceInv
  <2> SUFFICES ASSUME Init PROVE SettledInv /\ OnceInv
    OBVIOUS
  <2>1. SettledInv
    BY InitType DEF Init, SettledInv, ToldPaid, SettledIsPaid
  <2>2. ToldFailed /\ UsingIssued /\ NewestKey
    BY SubmissionsAssumption DEF Init, ToldFailed, UsingIssued, NewestKey
  <2>3. KeysInOrder
    BY KeysAreNaturals DEF Init, KeysInOrder
  <2> QED  BY <2>1, <2>2, <2>3 DEF OnceInv
<1>2. SettledInv /\ OnceInv /\ [Next]_vars => (SettledInv /\ OnceInv)'
  BY SettledStep, OnceStep
<1> QED  BY <1>1, <1>2, PTL DEF Spec

(* No order and no second captured payment is refunded twice, however many *)
(* passes and handlers submit and query it, lose their answers or their    *)
(* locks and die, unless the bank itself pays what it had reported failed: *)
(* rearmFailedRefund and its counterpart give out a new idempotency key    *)
(* only for a verdict on the newest one.                                   *)
THEOREM PaidOnceCorrect == Spec => []PaidOnce
<1>1. SettledInv /\ OnceInv => PaidOnce
  <2> SUFFICES ASSUME RefundTypeOK, OnceInv, reversed = {}, owner # "RETURN"
               PROVE  Cardinality(Paid) <= 1
    BY DEF SettledInv, PaidOnce
  <2>1. KeysInOrder /\ key \in Nat /\ Keys \subseteq Nat
    BY KeysAreNaturals DEF RefundTypeOK, OnceInv
  <2>2. ASSUME NEW k \in Keys, gateway[k] = "paid"
        PROVE  k = key
    BY <2>1, <2>2 DEF KeysInOrder, Failed
  <2>3. Paid \subseteq {key}
    BY <2>2 DEF Paid
  <2>4. IsFiniteSet({key}) /\ Cardinality({key}) = 1
    BY FS_Singleton
  <2> QED  BY <2>3, <2>4, FS_Subset
<1> QED  BY <1>1, OnceInvHolds, PTL
=============================================================================
