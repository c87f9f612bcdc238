--------------------- MODULE CancellationOutbox_proofs ---------------------
(***************************************************************************)
(* The cancellation of an order with a parcel, for every number of         *)
(* requests, passes and faults.  An order never leaves CANCELLING but to   *)
(* be closed, so from the request on no parcel is attached; what a pass    *)
(* found out about the attached parcel therefore stays true, because a     *)
(* cancelled parcel stays cancelled, even if the pass loses its lock and   *)
(* another one closes the order.                                           *)
(***************************************************************************)
EXTENDS CancellationOutbox, TLAPS

OpenEvent == {"PENDING", "PROCESSING", "FAILED"}
ShipmentPlaces == {"idle", "book", "attach", "discard", "cancel", "record", "unmark", "sync",
                   "handOver"}
Places == ShipmentPlaces \cup {"carrier", "finalize", "failed", "confirmed", "putBack"}
Parcels == {"none", "ready", "moving", "delivered", "cancelled"}
Notes == Parcels \cup OpenEvent \cup {"tries", "lastTry"}

(* A confirmation that fails puts back what it found.                      *)
NotesAreEvents ==
    \A p \in Procs : pc[p] \in {"confirmed", "putBack"} => note[p] \in OpenEvent

EventInv ==
    /\ pc \in [Procs -> Places] /\ note \in [Procs -> Notes] /\ parcel \in Parcels
    /\ NotesAreEvents
    /\ EventFollowsOrder

(* The passes are at work on an order that was asked to be cancelled.      *)
ClosingOnly ==
    \A p \in Procs : AtWork(p) => order \in {"CANCELLING", "CLOSED"}

(* What a process found out about the parcel.                              *)
KnowsParcel(p) ==
    /\ pc[p] = "attach" => parcel # "none"
    /\ pc[p] = "record" => parcel = "cancelled"
    /\ pc[p] \in {"finalize", "confirmed"} /\ attached => parcel = "cancelled"

(* What is attached was booked, and what is recorded as cancelled, by      *)
(* staff or by a pass, is.                                                 *)
ParcelRecords ==
    /\ attached \in BOOLEAN /\ cancelledAt \in BOOLEAN
    /\ attached => parcel # "none"
    /\ cancelledAt => parcel = "cancelled"
    /\ \A p \in Procs : KnowsParcel(p)

OutboxInv == EventInv /\ ClosingOnly /\ ParcelRecords /\ ClosedParcelIsDead

-----------------------------------------------------------------------------
(* Goto moves one process.                                                 *)
LEMMA Went ==
    ASSUME pc \in [Procs -> Places], NEW p \in Procs, NEW place \in Places, Goto(p, place)
    PROVE  /\ pc' \in [Procs -> Places]
           /\ pc'[p] = place
           /\ \A q \in Procs \ {p} : pc'[q] = pc[q]
  BY DEF Goto

(* A parcel that was cancelled stays so, whatever the carrier does.        *)
LEMMA CarrierSteps ==
    /\ bookParcel => parcel' # "none" /\ (parcel = "cancelled" => parcel' = "cancelled")
    /\ cancelParcel \/ recallParcel => parcel' = "cancelled" /\ parcel # "none"
    /\ moveParcel => parcel # "cancelled" /\ parcel' # "none"
    /\ parcel \in Parcels /\ (bookParcel \/ cancelParcel \/ recallParcel \/ moveParcel)
          => parcel' \in Parcels
  BY DEF bookParcel, cancelParcel, recallParcel, moveParcel, Parcels

(* A step of Shipment: where it may lead, and what it may do to the order. *)
LEMMA ShipmentFrame ==
    ASSUME EventInv, NEW p \in Procs, ShipmentStep(p)
    PROVE  /\ pc' \in [Procs -> Places] /\ note' \in [Procs -> Notes] /\ parcel' \in Parcels
           /\ \A q \in Procs \ {p} : pc'[q] = pc[q] /\ note'[q] = note[q]
           /\ pc'[p] \in ShipmentPlaces
           /\ order' = order \/ (order \in {"PROCESSING", "SHIPPED"}
                                 /\ order' \in {"SHIPPED", "DELIVERED"})
<1>0. pc \in [Procs -> Places] /\ note \in [Procs -> Notes] /\ parcel \in Parcels
  BY DEF EventInv
<1>1. CASE \/ createGhnShipment(p) \/ booked(p) \/ bookingUnanswered(p) \/ attach(p)
           \/ discarded(p) \/ discardFails(p) \/ cancelGhnShipment(p) \/ cancelNothing(p)
           \/ cancelAnswered(p) \/ cancelFails(p) \/ unmark(p) \/ recordCancelled(p)
           \/ assertNoActiveGhnShipment(p)
  <2>1. (\E place \in ShipmentPlaces : Goto(p, place)) /\ note' = note /\ order' = order
    BY <1>1
    DEF createGhnShipment, booked, bookingUnanswered, attach, discarded, discardFails,
        cancelGhnShipment, cancelNothing, cancelAnswered, cancelFails, unmark, recordCancelled,
        assertNoActiveGhnShipment, shopVars, ShipmentPlaces
  <2>2. parcel' = parcel \/ bookParcel \/ cancelParcel
    BY <1>1
    DEF createGhnShipment, booked, bookingUnanswered, attach, discarded, discardFails,
        cancelGhnShipment, cancelNothing, cancelAnswered, cancelFails, unmark, recordCancelled,
        assertNoActiveGhnShipment, refuseCancel
  <2> QED  BY <1>0, <2>1, <2>2, CarrierSteps, Went DEF Places
<1>2. CASE verifyGhnWebhook(p)
  BY <1>0, <1>2, Went DEF verifyGhnWebhook, shopVars, ShipmentPlaces, Places, Notes
<1>3. CASE syncGhnWebhook(p)
  <2>1. Goto(p, "idle") \/ (pc' = pc /\ pc[p] = "sync")
    BY <1>3 DEF syncGhnWebhook
  <2> QED  BY <1>0, <1>3, <2>1, Went DEF syncGhnWebhook, ShipmentPlaces, Places
<1>4. CASE adminMarkShipped(p) \/ adminMarkDelivered(p)
  BY <1>0, <1>4, Went DEF adminMarkShipped, adminMarkDelivered, ShipmentPlaces, Places
<1> QED  BY <1>1, <1>2, <1>3, <1>4 DEF ShipmentStep

-----------------------------------------------------------------------------
(* The order and its event.                                                *)

(* A step of Shipment leaves the notes of confirmations alone.             *)
LEMMA NotesKept ==
    ASSUME EventInv, NEW p \in Procs, note' = note,
           NEW place \in Places \ {"confirmed", "putBack"}, Goto(p, place)
    PROVE  pc' \in [Procs -> Places] /\ note' \in [Procs -> Notes] /\ NotesAreEvents'
<1>1. /\ pc' \in [Procs -> Places] /\ pc'[p] \notin {"confirmed", "putBack"}
      /\ \A q \in Procs \ {p} : pc'[q] = pc[q]
  BY Went DEF EventInv
<1> QED  BY <1>1 DEF EventInv, NotesAreEvents

(* Every step keeps the event in line with the order.                      *)
LEMMA EventStep == EventInv /\ [Next]_vars => EventInv'
<1> SUFFICES ASSUME EventInv, [Next]_vars PROVE EventInv'
  OBVIOUS
<1>0. pc \in [Procs -> Places] /\ note \in [Procs -> Notes] /\ parcel \in Parcels
  BY DEF EventInv
<1>1. ASSUME NEW p \in Procs, ShipmentStep(p), UNCHANGED eventVars
      PROVE  EventInv'
  <2>1. NotesAreEvents'
    BY <1>1, ShipmentFrame DEF NotesAreEvents, EventInv, ShipmentPlaces
  <2>2. EventFollowsOrder'
    BY <1>1, ShipmentFrame DEF EventFollowsOrder, EventInv, eventVars
  <2> QED  BY <1>1, <2>1, <2>2, ShipmentFrame DEF EventInv
<1>2. ASSUME NEW p \in Procs, claimEvent(p)
      PROVE  EventInv'
  <2>1. /\ pc' \in [Procs -> Places] /\ note' \in [Procs -> Notes] /\ pc'[p] = "carrier"
        /\ \A q \in Procs \ {p} : pc'[q] = pc[q] /\ note'[q] = note[q]
    BY <1>0, <1>2, Went DEF claimEvent, Places, Notes
  <2> QED
    BY <1>0, <1>2, <2>1 DEF claimEvent, EventInv, NotesAreEvents, EventFollowsOrder, shopVars
<1>3. ASSUME NEW p \in Procs, JobPass(p) \/ Crash(p)
      PROVE  EventInv'
  <2>1. \E place \in {"finalize", "failed", "idle"} : Goto(p, place)
    BY <1>3 DEF JobPass, nothingToCancel, carrierCancels, carrierFails, Crash
  <2>2. parcel' \in Parcels
    BY <1>0, <1>3, CarrierSteps
    DEF JobPass, nothingToCancel, carrierCancels, carrierFails, Crash, refuseCancel
  <2>3. UNCHANGED <<note, order, event>>
    BY <1>3
    DEF JobPass, nothingToCancel, carrierCancels, carrierFails, Crash, shopVars, eventVars
  <2>4. EventFollowsOrder'
    BY <2>3 DEF EventInv, EventFollowsOrder
  <2>5. {"idle", "finalize", "failed"} \subseteq Places \ {"confirmed", "putBack"}
    BY DEF Places, ShipmentPlaces
  <2>6. pc' \in [Procs -> Places] /\ note' \in [Procs -> Notes] /\ NotesAreEvents'
    BY <2>1, <2>3, <2>5, NotesKept
  <2> QED  BY <2>1, <2>2, <2>3, <2>4, <1>0, <2>6 DEF EventInv
<1>4. ASSUME NEW p \in Procs, finalizeShipmentCancellation(p)
      PROVE  EventInv'
  <2>1. EventFollowsOrder'
    BY <1>4 DEF finalizeShipmentCancellation, Holds, EventInv, EventFollowsOrder
  <2>2. Goto(p, "idle") /\ UNCHANGED <<note, parcel>>
    BY <1>4 DEF finalizeShipmentCancellation
  <2>5. {"idle", "finalize", "failed"} \subseteq Places \ {"confirmed", "putBack"}
    BY DEF Places, ShipmentPlaces
  <2>6. pc' \in [Procs -> Places] /\ note' \in [Procs -> Notes] /\ NotesAreEvents'
    BY <2>2, <2>5, NotesKept
  <2> QED  BY <1>0, <2>1, <2>2, <1>0, <2>6 DEF EventInv
<1>5. ASSUME NEW p \in Procs, finalizeAborts(p)
      PROVE  EventInv'
  <2>1. EventFollowsOrder'
    BY <1>5 DEF finalizeAborts, shopVars, eventVars, EventInv, EventFollowsOrder
  <2>2. CASE pc[p] = "finalize"
    BY <1>0, <1>5, <2>1, <2>2, Went DEF finalizeAborts, EventInv, NotesAreEvents, Places
  <2>3. CASE pc[p] = "confirmed"
    BY <1>0, <1>5, <2>1, <2>3, Went DEF finalizeAborts, EventInv, NotesAreEvents, Places
  <2> QED  BY <1>5, <2>2, <2>3 DEF finalizeAborts
<1>6. ASSUME NEW p \in Procs, Record(p)
      PROVE  EventInv'
  <2>1. Goto(p, "idle") /\ UNCHANGED <<order, note, parcel>>
    BY <1>6 DEF Record, recordFailure, putBack, shopVars
  <2>2. event' = event \/ (event = "PROCESSING" /\ event' \in OpenEvent)
    BY <1>6
    DEF Record, recordFailure, putBack, Holds, EventInv, NotesAreEvents, OpenEvent
  <2>3. EventFollowsOrder'
    BY <2>1, <2>2 DEF EventInv, EventFollowsOrder, OpenEvent
  <2>5. {"idle", "finalize", "failed"} \subseteq Places \ {"confirmed", "putBack"}
    BY DEF Places, ShipmentPlaces
  <2>6. pc' \in [Procs -> Places] /\ note' \in [Procs -> Notes] /\ NotesAreEvents'
    BY <2>1, <2>5, NotesKept
  <2> QED  BY <1>0, <2>1, <2>3, <1>0, <2>6 DEF EventInv
<1>7. ASSUME NEW p \in Procs, confirmCancelledOutside(p)
      PROVE  EventInv'
  <2>1. /\ pc' \in [Procs -> Places] /\ pc'[p] = "confirmed"
        /\ note' \in [Procs -> Notes] /\ note'[p] = event /\ event \in OpenEvent
        /\ \A q \in Procs \ {p} : pc'[q] = pc[q] /\ note'[q] = note[q]
    BY <1>0, <1>7, Went DEF confirmCancelledOutside, OpenEvent, Places, Notes
  <2> QED
    BY <1>0, <1>7, <2>1
    DEF confirmCancelledOutside, EventInv, NotesAreEvents, EventFollowsOrder, OpenEvent, shopVars
<1>8. CASE requestCancellation \/ retryFailedCancellation
  BY <1>8
  DEF requestCancellation, retryFailedCancellation, EventInv, NotesAreEvents, EventFollowsOrder,
      shopVars
<1>9. CASE recall \/ LockExpires \/ BackoffEnds \/ (CarrierMoves /\ UNCHANGED eventVars)
           \/ UNCHANGED vars
  <2>1. UNCHANGED <<pc, note, order, event>>
    BY <1>9
    DEF recall, LockExpires, BackoffEnds, CarrierMoves, shopVars, eventVars, vars
  <2>2. parcel' \in Parcels
    BY <1>0, <1>9, CarrierSteps DEF recall, LockExpires, BackoffEnds, CarrierMoves, vars
  <2> QED  BY <2>1, <2>2 DEF EventInv, NotesAreEvents, EventFollowsOrder
<1> QED
  BY <1>1, <1>2, <1>3, <1>4, <1>5, <1>6, <1>7, <1>8, <1>9 DEF Next, Finish

-----------------------------------------------------------------------------
(* The order and its parcel.                                               *)

(* Only a guarded save attaches a parcel.                                  *)
LEMMA Attaching ==
    ASSUME ParcelRecords, [Next]_vars
    PROVE  attached' \in BOOLEAN /\ (attached' => attached \/ order = "PROCESSING")
                                /\ (attached' => attached \/ parcel # "none")
<1>1. CASE attached' = attached
  BY <1>1 DEF ParcelRecords
<1>2. CASE \E p \in Procs : attach(p)
  BY <1>2 DEF attach, ParcelRecords, KnowsParcel
<1> QED
  BY <1>1, <1>2
  DEF Next, ShipmentStep, createGhnShipment, booked, bookingUnanswered, discarded, discardFails,
      cancelGhnShipment, cancelNothing, cancelAnswered, cancelFails, unmark, recordCancelled,
      verifyGhnWebhook, syncGhnWebhook, assertNoActiveGhnShipment, adminMarkShipped,
      adminMarkDelivered, shopVars, shipmentVars, claimEvent, JobPass, nothingToCancel,
      carrierCancels, carrierFails, Finish, finalizeShipmentCancellation, finalizeAborts, Record,
      recordFailure, putBack, confirmCancelledOutside, Crash, requestCancellation,
      retryFailedCancellation, recall, LockExpires, BackoffEnds, CarrierMoves, vars

(* What the other processes know of the parcel stays true.                 *)
LEMMA ParcelStays ==
    ASSUME [Next]_vars
    PROVE  /\ parcel = "cancelled" => parcel' = "cancelled"
           /\ parcel # "none" => parcel' # "none"
<1>1. parcel' = parcel \/ bookParcel \/ cancelParcel \/ moveParcel \/ recallParcel
  BY DEF Next, ShipmentStep, createGhnShipment, booked, bookingUnanswered, attach, discarded,
         discardFails, cancelGhnShipment, cancelNothing, cancelAnswered, cancelFails, unmark,
         recordCancelled, verifyGhnWebhook, syncGhnWebhook, assertNoActiveGhnShipment,
         adminMarkShipped, adminMarkDelivered, claimEvent, JobPass, nothingToCancel,
         carrierCancels, carrierFails, Finish, finalizeShipmentCancellation, finalizeAborts,
         Record, recordFailure, putBack, confirmCancelledOutside, Crash, requestCancellation,
         retryFailedCancellation, recall, LockExpires, BackoffEnds, CarrierMoves, refuseCancel,
         vars
<1> QED  BY <1>1 DEF bookParcel, cancelParcel, moveParcel, recallParcel

(* What the others know stays true.                                        *)
LEMMA OthersKnow ==
    ASSUME ClosingOnly, ParcelRecords, [Next]_vars, NEW q \in Procs, pc'[q] = pc[q]
    PROVE  KnowsParcel(q)'
<1>1. KnowsParcel(q)
  BY DEF ParcelRecords
<1>2. pc[q] \in {"finalize", "confirmed"} /\ attached' => attached
  BY Attaching DEF ClosingOnly, AtWork
<1> QED  BY <1>1, <1>2, ParcelStays DEF KnowsParcel

(* A parcel recorded as cancelled is cancelled.                            *)
LEMMA RecordedAsCancelled ==
    ASSUME ParcelRecords, [Next]_vars
    PROVE  cancelledAt' \in BOOLEAN /\ (cancelledAt' => parcel' = "cancelled")
<1>1. CASE cancelledAt' = cancelledAt
  BY <1>1, ParcelStays DEF ParcelRecords
<1>2. CASE \E p \in Procs : recordCancelled(p) \/ finalizeShipmentCancellation(p)
  <2> PICK p \in Procs : recordCancelled(p) \/ finalizeShipmentCancellation(p)
    BY <1>2
  <2>1. KnowsParcel(p) /\ cancelledAt \in BOOLEAN /\ attached \in BOOLEAN
        /\ (cancelledAt => parcel = "cancelled")
    BY DEF ParcelRecords
  <2> QED  BY <2>1 DEF recordCancelled, finalizeShipmentCancellation, KnowsParcel
<1> QED
  BY <1>1, <1>2
  DEF Next, ShipmentStep, createGhnShipment, booked, bookingUnanswered, attach, discarded,
      discardFails, cancelGhnShipment, cancelNothing, cancelAnswered, cancelFails, unmark,
      verifyGhnWebhook, syncGhnWebhook, assertNoActiveGhnShipment, adminMarkShipped,
      adminMarkDelivered, shopVars, shipmentVars, claimEvent, JobPass, nothingToCancel,
      carrierCancels, carrierFails, Finish, finalizeAborts, Record, recordFailure, putBack,
      confirmCancelledOutside, Crash, requestCancellation, retryFailedCancellation, recall,
      LockExpires, BackoffEnds, CarrierMoves, vars

(* What the process that moves finds out is true.                          *)
LEMMA MoverKnows ==
    ASSUME EventInv, ParcelRecords, NEW p \in Procs, [Next]_vars,
           \/ ShipmentStep(p) \/ claimEvent(p) \/ JobPass(p) \/ Finish(p) \/ Record(p)
           \/ confirmCancelledOutside(p) \/ Crash(p)
    PROVE  KnowsParcel(p)' \/ pc'[p] = pc[p]
<1>0. /\ pc \in [Procs -> Places] /\ KnowsParcel(p)
      /\ attached => parcel # "none"
      /\ cancelledAt => parcel = "cancelled"
  BY DEF EventInv, ParcelRecords
<1>1. CASE booked(p)
  BY <1>0, <1>1, CarrierSteps DEF booked, Goto, KnowsParcel
<1>2. CASE cancelAnswered(p) \/ carrierCancels(p)
  BY <1>0, <1>2, CarrierSteps DEF cancelAnswered, carrierCancels, Goto, KnowsParcel
<1>3. CASE nothingToCancel(p)
  BY <1>0, <1>3 DEF nothingToCancel, ToCancel, Goto, KnowsParcel, shopVars, shipmentVars
<1>4. CASE confirmCancelledOutside(p)
  <2>1. parcel \in {"none", "cancelled"}
    BY <1>4 DEF confirmCancelledOutside, Live, EventInv, Parcels
  <2> QED
    BY <1>0, <1>4, <2>1 DEF confirmCancelledOutside, Goto, KnowsParcel, shopVars, shipmentVars
<1>5. CASE pc'[p] \notin {"attach", "record", "finalize", "confirmed"}
  BY <1>5 DEF KnowsParcel
<1> QED
  BY <1>0, <1>1, <1>2, <1>3, <1>4, <1>5
  DEF ShipmentStep, createGhnShipment, bookingUnanswered, attach, discarded, discardFails,
      cancelGhnShipment, cancelNothing, cancelFails, unmark, recordCancelled, verifyGhnWebhook,
      syncGhnWebhook, assertNoActiveGhnShipment, adminMarkShipped, adminMarkDelivered, Goto,
      claimEvent, JobPass, carrierFails, Finish, finalizeShipmentCancellation, finalizeAborts,
      Record, recordFailure, putBack, Crash

(* A step moves one process, or none.                                      *)
LEMMA OneMoves ==
    ASSUME EventInv, [Next]_vars
    PROVE  \/ pc' = pc
           \/ \E p \in Procs :
                 /\ \A q \in Procs \ {p} : pc'[q] = pc[q]
                 /\ \/ ShipmentStep(p) \/ claimEvent(p) \/ JobPass(p) \/ Finish(p) \/ Record(p)
                    \/ confirmCancelledOutside(p) \/ Crash(p)
<1>1. ASSUME NEW p \in Procs,
             claimEvent(p) \/ JobPass(p) \/ Finish(p) \/ Record(p) \/ confirmCancelledOutside(p)
             \/ Crash(p)
      PROVE  \A q \in Procs \ {p} : pc'[q] = pc[q]
  <2>1. \E place \in Places : Goto(p, place)
    BY <1>1
    DEF claimEvent, JobPass, nothingToCancel, carrierCancels, carrierFails, Finish,
        finalizeShipmentCancellation, finalizeAborts, Record, recordFailure, putBack,
        confirmCancelledOutside, Crash, Places, ShipmentPlaces
  <2> QED  BY <2>1, Went DEF EventInv
<1> QED
  BY <1>1, ShipmentFrame
  DEF Next, requestCancellation, retryFailedCancellation, recall, LockExpires, BackoffEnds,
      CarrierMoves, vars

(* Every step keeps the records of the parcel true.                        *)
LEMMA ParcelStep ==
    ASSUME EventInv, ClosingOnly, ParcelRecords, [Next]_vars
    PROVE  ParcelRecords'
<1>1. \A q \in Procs : KnowsParcel(q)'
  BY OneMoves, OthersKnow, MoverKnows
<1>2. attached' => parcel' # "none"
  BY Attaching, ParcelStays DEF ParcelRecords
<1> QED  BY <1>1, <1>2, Attaching, RecordedAsCancelled DEF ParcelRecords

(* An order that is being cancelled is closed or stays.                    *)
LEMMA ClosingStays ==
    ASSUME EventInv, [Next]_vars
    PROVE  order \in {"CANCELLING", "CLOSED"} => order' \in {"CANCELLING", "CLOSED"}
<1>1. ASSUME NEW p \in Procs, ShipmentStep(p)
      PROVE  order \in {"CANCELLING", "CLOSED"} => order' = order
  BY <1>1, ShipmentFrame
<1> QED
  BY <1>1
  DEF Next, claimEvent, JobPass, nothingToCancel, carrierCancels, carrierFails, Finish,
      finalizeShipmentCancellation, finalizeAborts, Record, recordFailure, putBack,
      confirmCancelledOutside, Crash, requestCancellation, retryFailedCancellation, recall,
      LockExpires, BackoffEnds, CarrierMoves, shopVars, vars

(* Every step leaves the passes at work on a closing order only.           *)
LEMMA ClosingStep ==
    ASSUME EventInv, ClosingOnly, [Next]_vars
    PROVE  ClosingOnly'
<1> SUFFICES ASSUME NEW p \in Procs, AtWork(p)'
             PROVE  order \in {"CANCELLING", "CLOSED"}
  BY ClosingStays DEF ClosingOnly, AtWork
<1>1. CASE AtWork(p)
  BY <1>1 DEF ClosingOnly
<1>2. CASE claimEvent(p) \/ confirmCancelledOutside(p)
  BY <1>2 DEF claimEvent, confirmCancelledOutside, EventInv, EventFollowsOrder
<1>3. CASE pc'[p] = pc[p]
  BY <1>1, <1>3 DEF AtWork
<1>4. CASE ShipmentStep(p)
  BY <1>4, ShipmentFrame DEF AtWork, ShipmentPlaces
<1>5. CASE JobPass(p) \/ Finish(p) \/ Record(p) \/ Crash(p)
  <2>1. CASE Crash(p)
    BY <2>1 DEF Crash, Goto, EventInv, AtWork
  <2> QED
    BY <1>1, <1>5, <2>1
    DEF JobPass, nothingToCancel, carrierCancels, carrierFails, Finish,
        finalizeShipmentCancellation, finalizeAborts, Record, recordFailure, putBack, AtWork
<1> QED  BY <1>2, <1>3, <1>4, <1>5, OneMoves

(* No step leaves a live parcel attached to a closed order.                *)
LEMMA DeadStep ==
    ASSUME EventInv, ParcelRecords, ClosedParcelIsDead, [Next]_vars
    PROVE  ClosedParcelIsDead'
<1>1. CASE order = "CLOSED"
  BY <1>1, Attaching, ParcelStays DEF ClosedParcelIsDead
<1>2. CASE \E p \in Procs : finalizeShipmentCancellation(p)
  <2> PICK p \in Procs : finalizeShipmentCancellation(p)
    BY <1>2
  <2>1. KnowsParcel(p)
    BY DEF ParcelRecords
  <2> QED
    BY <2>1 DEF finalizeShipmentCancellation, KnowsParcel, ClosedParcelIsDead
<1>3. CASE order # "CLOSED" /\ order' # "CLOSED"
  BY <1>3 DEF ClosedParcelIsDead
<1>4. ASSUME NEW p \in Procs, ShipmentStep(p)
      PROVE  order' = order \/ order' # "CLOSED"
  BY <1>4, ShipmentFrame
<1> QED
  BY <1>1, <1>2, <1>3, <1>4
  DEF Next, claimEvent, JobPass, nothingToCancel, carrierCancels, carrierFails, Finish,
      finalizeAborts, Record, recordFailure, putBack, confirmCancelledOutside, Crash,
      requestCancellation, retryFailedCancellation, recall, LockExpires, BackoffEnds,
      CarrierMoves, shopVars, vars

(* The invariant holds in every reachable state.                           *)
LEMMA OutboxInvHolds == Spec => []OutboxInv
<1>1. Init => OutboxInv
  BY DEF Init, ShipmentInit, OutboxInv, EventInv, NotesAreEvents, EventFollowsOrder, ClosingOnly,
         AtWork, ParcelRecords, KnowsParcel, ClosedParcelIsDead, Places, ShipmentPlaces, Notes,
         Parcels
<1>2. OutboxInv /\ [Next]_vars => OutboxInv'
  BY EventStep, ClosingStep, ParcelStep, DeadStep DEF OutboxInv
<1> QED  BY <1>1, <1>2, PTL DEF Spec

(* The outbox (orderCancellationService) and the order never drift apart,  *)
(* whatever passes and staff do to the event at the same time.             *)
THEOREM EventFollowsOrderCorrect == Spec => []EventFollowsOrder
<1>1. OutboxInv => EventFollowsOrder
  BY DEF OutboxInv, EventInv
<1> QED  BY <1>1, OutboxInvHolds, PTL

(* No order is closed (finalizeShipmentCancellation) while the parcel that *)
(* is attached to it is under way.                                         *)
THEOREM ClosedParcelIsDeadCorrect == Spec => []ClosedParcelIsDead
<1>1. OutboxInv => ClosedParcelIsDead
  BY DEF OutboxInv
<1> QED  BY <1>1, OutboxInvHolds, PTL

(* Once closed, an order, its parcel's record and its event stay as they   *)
(* are, whoever still comes with an answer of the carrier.                 *)
THEOREM ClosedStaysClosedCorrect == Spec => ClosedStaysClosed
<1>1. OutboxInv /\ [Next]_vars
          => [order = "CLOSED" => UNCHANGED <<order, attached, cancelledAt, event>>]_vars
  <2> SUFFICES ASSUME OutboxInv, [Next]_vars, order = "CLOSED"
               PROVE  UNCHANGED <<order, attached, cancelledAt, event>>
    OBVIOUS
  <2>0. EventInv /\ event = "COMPLETED"
    BY DEF OutboxInv, EventInv, EventFollowsOrder
  <2>1. ASSUME NEW p \in Procs, ShipmentStep(p), UNCHANGED eventVars
        PROVE  UNCHANGED <<order, attached, cancelledAt, event>>
    <3>1. order' = order /\ event' = event
      BY <2>1, <2>0, ShipmentFrame DEF eventVars
    <3>2. attached' = attached /\ cancelledAt' = cancelledAt
      BY <2>1
      DEF ShipmentStep, createGhnShipment, booked, bookingUnanswered, attach, discarded,
          discardFails, cancelGhnShipment, cancelNothing, cancelAnswered, cancelFails, unmark,
          recordCancelled, verifyGhnWebhook, syncGhnWebhook, assertNoActiveGhnShipment,
          adminMarkShipped, adminMarkDelivered, shopVars, shipmentVars
    <3> QED  BY <3>1, <3>2
  <2> QED
    BY <2>0, <2>1
    DEF Next, claimEvent, JobPass, nothingToCancel, carrierCancels, carrierFails, Finish,
        finalizeShipmentCancellation, finalizeAborts, Record, recordFailure, putBack, Holds,
        confirmCancelledOutside, Crash, requestCancellation, retryFailedCancellation, recall,
        LockExpires, BackoffEnds, CarrierMoves, shopVars, shipmentVars, eventVars, vars
<1> QED  BY <1>1, OutboxInvHolds, PTL DEF Spec, ClosedStaysClosed
=============================================================================
