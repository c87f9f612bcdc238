------------------------- MODULE CancellationOutbox -------------------------
(***************************************************************************)
(* orderCancellationService: the cancellation of an order that may have a  *)
(* parcel.  The request moves the order to CANCELLING and leaves an event  *)
(* in the outbox in one transaction; passes of the job claim the event     *)
(* under a lock, cancel the parcel at the carrier and close the order;     *)
(* failures are retried with a growing delay and in the end parked for     *)
(* staff, who queue the event again or confirm that the parcel is          *)
(* cancelled.  All of it runs beside the requests of Shipment.             *)
(***************************************************************************)
EXTENDS Shipment

CONSTANT MAX_ATTEMPTS

ASSUME AttemptsAssumption == MAX_ATTEMPTS \in Nat \ {0}

VARIABLES
    event,       \* status of the outbox event, "NONE" before there is one
    attempts,    \* counted up to MAX_ATTEMPTS, as nothing depends on more
    next,        \* nextAttemptAt: "now" (or past), "later" or "null"
    eventLock,   \* lockToken, which names the process that drew it
    expired      \* lockUntil is past

eventVars == <<event, attempts, next, eventLock, expired>>
vars == <<shopVars, eventVars, pc, note, parcel, faults>>

NoOne == "nobody"

unlock == eventLock' = NoOne /\ expired' = FALSE

Holds(p) == event = "PROCESSING" /\ eventLock = p

-----------------------------------------------------------------------------
requestCancellation ==
    /\ order = "PROCESSING"
    /\ order' = "CANCELLING"
    /\ event' = "PENDING" /\ next' = "now" /\ attempts' = 0
    /\ UNCHANGED <<shipmentVars, reported, eventLock, expired, pc, note, parcel, faults>>

(* One pass of the job (processOne).  An event that is being processed is  *)
(* taken over once its lock is past.                                       *)
claimEvent(p) ==
    /\ pc[p] = "idle"
    /\ next = "now"
    /\ event = "PENDING" \/ (event = "PROCESSING" /\ expired)
    /\ event' = "PROCESSING" /\ eventLock' = p /\ expired' = FALSE
    /\ attempts' = IF attempts < MAX_ATTEMPTS THEN attempts + 1 ELSE attempts
    /\ note' = [note EXCEPT ![p] = IF attempts' < MAX_ATTEMPTS THEN "tries" ELSE "lastTry"]
    /\ Goto(p, "carrier")
    /\ UNCHANGED <<shopVars, next, parcel, faults>>

nothingToCancel(p) ==
    /\ pc[p] = "carrier" /\ ~ToCancel
    /\ Goto(p, "finalize")
    /\ UNCHANGED <<shopVars, eventVars, note, parcel, faults>>

carrierCancels(p) ==
    /\ pc[p] = "carrier" /\ ToCancel
    /\ cancelParcel
    /\ Goto(p, "finalize")
    /\ UNCHANGED <<shopVars, eventVars, note, faults>>

(* Mutation: a refusal is taken for an answer.                             *)
MutCarrierFails(p) ==
    /\ pc[p] = "carrier" /\ ToCancel
    /\ refuseCancel \/ cancelParcel \/ UNCHANGED parcel
    /\ Goto(p, "finalize")
    /\ UNCHANGED <<shopVars, eventVars, note, faults>>

(* Refused, or no answer, with or without effect.                          *)
carrierFails(p) ==
    /\ pc[p] = "carrier" /\ ToCancel
    /\ refuseCancel \/ cancelParcel \/ UNCHANGED parcel
    /\ Goto(p, "failed")
    /\ UNCHANGED <<shopVars, eventVars, note, faults>>

(* The transaction that closes the order and the event, if this process    *)
(* still has the event.                                                    *)
finalizeShipmentCancellation(p) ==
    /\ pc[p] \in {"finalize", "confirmed"}
    /\ IF Holds(p)
       THEN /\ order' = IF order = "CANCELLING" THEN "CLOSED" ELSE order
            /\ cancelledAt' = (cancelledAt \/ (order = "CANCELLING" /\ attached))
            /\ cancelling' = (cancelling /\ ~(order = "CANCELLING" /\ attached))
            /\ event' = "COMPLETED" /\ unlock
       ELSE UNCHANGED <<order, cancelledAt, cancelling, event, eventLock, expired>>
    /\ Goto(p, "idle")
    /\ UNCHANGED <<attached, reported, attempts, next, note, parcel, faults>>

finalizeAborts(p) ==
    /\ pc[p] \in {"finalize", "confirmed"}
    /\ Goto(p, IF pc[p] = "finalize" THEN "failed" ELSE "putBack")
    /\ UNCHANGED <<shopVars, eventVars, note, parcel, faults>>

(* Mutation: a late failure overwrites whatever became of the event.       *)
MutRecordFailure(p) ==
    /\ pc[p] = "failed"
    /\ event' = IF note[p] = "lastTry" THEN "FAILED" ELSE "PENDING"
    /\ next' = IF note[p] = "lastTry" THEN "null" ELSE "later"
    /\ unlock
    /\ Goto(p, "idle")
    /\ UNCHANGED <<shopVars, attempts, note, parcel, faults>>

(* Mutation: the event is parked but stays locked in the queue.            *)
MutPark(p) ==
    /\ pc[p] = "failed"
    /\ IF Holds(p) /\ note[p] = "tries"
       THEN event' = "PENDING" /\ next' = "later" /\ unlock
       ELSE UNCHANGED <<event, next, eventLock, expired>>
    /\ Goto(p, "idle")
    /\ UNCHANGED <<shopVars, attempts, note, parcel, faults>>

recordFailure(p) ==
    /\ pc[p] = "failed"
    /\ IF Holds(p)
       THEN /\ event' = IF note[p] = "lastTry" THEN "FAILED" ELSE "PENDING"
            /\ next' = IF note[p] = "lastTry" THEN "null" ELSE "later"
            /\ unlock
       ELSE UNCHANGED <<event, next, eventLock, expired>>
    /\ Goto(p, "idle")
    /\ UNCHANGED <<shopVars, attempts, note, parcel, faults>>

-----------------------------------------------------------------------------
(* Staff.                                                                  *)

retryFailedCancellation ==
    /\ event = "FAILED"
    /\ event' = "PENDING" /\ attempts' = 0 /\ next' = "now"
    /\ unlock
    /\ UNCHANGED <<shopVars, pc, note, parcel, faults>>

(* They recall the parcel by the hotline ...                               *)
recall ==
    /\ order = "CANCELLING" \/ reported
    /\ recallParcel
    /\ UNCHANGED <<shopVars, eventVars, pc, note, faults>>

(* ... and confirm it, which they do of a parcel that is cancelled or was  *)
(* never booked.  An event that a pass is processing is left alone.        *)
confirmCancelledOutside(p) ==
    /\ pc[p] = "idle"
    /\ event \in {"FAILED", "PENDING"} \/ (event = "PROCESSING" /\ expired)
    /\ parcel \notin Live
    /\ note' = [note EXCEPT ![p] = event]
    /\ event' = "PROCESSING" /\ eventLock' = p /\ expired' = FALSE
    /\ Goto(p, "confirmed")
    /\ UNCHANGED <<shopVars, attempts, next, parcel, faults>>

(* The confirmation failed: the event gets its former status.              *)
putBack(p) ==
    /\ pc[p] = "putBack"
    /\ IF Holds(p)
       THEN /\ event' = IF note[p] = "PROCESSING" THEN "PENDING" ELSE note[p]
            /\ unlock
       ELSE UNCHANGED <<event, eventLock, expired>>
    /\ Goto(p, "idle")
    /\ UNCHANGED <<shopVars, attempts, next, note, parcel, faults>>

-----------------------------------------------------------------------------
(* A process dies; what it wrote stays.                                    *)
Crash(p) ==
    /\ pc[p] # "idle" /\ faults < MaxFaults
    /\ Goto(p, "idle")
    /\ faults' = faults + 1
    /\ UNCHANGED <<shopVars, eventVars, note, parcel>>

AtWork(p) == pc[p] \in {"carrier", "finalize", "failed", "confirmed", "putBack"}

(* The minute of a lock is over: its holder is dead, or too slow.          *)
LockExpires ==
    /\ event = "PROCESSING" /\ ~expired
    /\ IF AtWork(eventLock)
       THEN faults < MaxFaults /\ faults' = faults + 1
       ELSE UNCHANGED faults
    /\ expired' = TRUE
    /\ UNCHANGED <<shopVars, event, attempts, next, eventLock, pc, note, parcel>>

BackoffEnds ==
    /\ next = "later"
    /\ next' = "now"
    /\ UNCHANGED <<shopVars, event, attempts, eventLock, expired, pc, note, parcel, faults>>

Init ==
    /\ ShipmentInit
    /\ event = "NONE" /\ attempts = 0 /\ next = "null"
    /\ eventLock = NoOne /\ expired = FALSE

JobPass(p) == nothingToCancel(p) \/ carrierCancels(p) \/ carrierFails(p)
Finish(p) == finalizeShipmentCancellation(p) \/ finalizeAborts(p)
Record(p) == recordFailure(p) \/ putBack(p)

Next ==
    \/ \E p \in Procs :
        \/ ShipmentStep(p) /\ UNCHANGED eventVars
        \/ claimEvent(p) \/ JobPass(p) \/ Finish(p) \/ Record(p)
        \/ confirmCancelledOutside(p)
        \/ Crash(p)
    \/ requestCancellation \/ retryFailedCancellation \/ recall
    \/ LockExpires \/ BackoffEnds
    \/ CarrierMoves /\ UNCHANGED eventVars

Spec == Init /\ [][Next]_vars

(* The job passes every 5 seconds, so a queued event meets a pass again    *)
(* and again however often staff take it; a process carries on unless it   *)
(* dies, and times come to pass.  No more: the carrier need not answer,    *)
(* transactions may abort, and staff need do nothing.                      *)
FairSpec ==
    /\ Spec
    /\ SF_vars(\E p \in Procs : claimEvent(p))
    /\ \A p \in Procs :
        /\ WF_vars(ShipmentStep(p) /\ UNCHANGED eventVars /\ pc[p] # "idle")
        /\ WF_vars(JobPass(p)) /\ WF_vars(Finish(p)) /\ WF_vars(Record(p))
    /\ WF_vars(LockExpires) /\ WF_vars(BackoffEnds)

-----------------------------------------------------------------------------
(* Properties.                                                             *)

(* The outbox and the order never drift apart: an order is being cancelled *)
(* exactly while its event is open, and closed exactly when it is done.    *)
EventFollowsOrder ==
    /\ order = "CANCELLING" <=> event \in {"PENDING", "PROCESSING", "FAILED"}
    /\ order = "CLOSED" <=> event = "COMPLETED"

(* A closed order, whose copies and money went back, has no parcel under   *)
(* way: the one attached to it is cancelled at the carrier, whichever of   *)
(* the calls and answers were lost, repeated or late.                      *)
ClosedParcelIsDead == order = "CLOSED" /\ attached => parcel = "cancelled"

(* Whoever was still on its way when an order was closed finds it closed:  *)
(* nothing of the order, its parcel's record and its event changes again.  *)
ClosedStaysClosed ==
    [][order = "CLOSED" => UNCHANGED <<order, attached, cancelledAt, event>>]_vars

(* Every cancellation gets somewhere without staff's help: the order is    *)
(* closed or, after the last attempt, taken out of the queue for staff.    *)
CancellationSettles == order = "CANCELLING" ~> (order = "CLOSED" \/ next = "null")

=============================================================================
