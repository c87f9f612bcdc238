------------------------------ MODULE Shipment ------------------------------
(***************************************************************************)
(* shippingService: one GHN order from the moment staff start to prepare   *)
(* it, and the parcel the shop attaches to it.  A call to the carrier lies *)
(* between two steps on the order, so each request is a process that walks *)
(* through its steps while others walk through theirs.                     *)
(*                                                                         *)
(* The order is reduced to where a parcel matters: CANCELLED, REFUNDING    *)
(* and REFUNDED are all "CLOSED" here (OrderLifecycle tells them apart),   *)
(* and finalizeShipmentCancellation, which closes it, is in                *)
(* CancellationOutbox.  A PAID order, still without a parcel, is closed     *)
(* along the same path.  Left out: the sandbox simulation, which plays the *)
(* carrier's part in tests, tracking events and notifications.             *)
(***************************************************************************)
EXTENDS Carrier

CONSTANTS
    Procs,      \* requests of staff, webhooks and passes of the jobs
    MaxFaults   \* bound for TLC: processes that die, bookings that get no answer
                \* and passes that outlive their lock

VARIABLES
    order,         \* status
    attached,      \* shipment.providerOrderCode is set
    cancelledAt,   \* shipment.cancelledAt is set
    cancelling,    \* shipment.providerStatus is CANCEL_IN_PROGRESS
    pc,            \* pc[p]: where process p stands
    note,          \* note[p]: what p read earlier and uses later
    reported,      \* staff were told of a parcel to cancel by hand
    faults

shipmentVars == <<attached, cancelledAt, cancelling>>
shopVars == <<order, shipmentVars, reported>>

Goto(p, place) == pc' = [pc EXCEPT ![p] = place]

-----------------------------------------------------------------------------
(* createGhnShipment.                                                      *)

(* The order is read: it waits for a parcel and has none.                  *)
createGhnShipment(p) ==
    /\ pc[p] = "idle"
    /\ order = "PROCESSING" /\ ~attached
    /\ Goto(p, "book")
    /\ UNCHANGED <<shopVars, note, parcel, faults>>

(* The carrier has the parcel, new or found by the client code.            *)
booked(p) ==
    /\ pc[p] = "book"
    /\ bookParcel
    /\ Goto(p, "attach")
    /\ UNCHANGED <<shopVars, note, faults>>

(* Neither the booking nor the query after it is answered: the error goes  *)
(* to staff, and the parcel may be there.                                  *)
bookingUnanswered(p) ==
    /\ pc[p] = "book" /\ faults < MaxFaults
    /\ bookParcel \/ UNCHANGED parcel
    /\ Goto(p, "idle")
    /\ faults' = faults + 1
    /\ UNCHANGED <<shopVars, note>>

(* Mutation: the parcel is attached to whatever the order has become.      *)
MutAttach(p) ==
    /\ pc[p] = "attach"
    /\ IF ~attached
       THEN attached' = TRUE /\ cancelling' = FALSE /\ Goto(p, "idle")
       ELSE UNCHANGED <<attached, cancelling>> /\ Goto(p, "idle")
    /\ UNCHANGED <<order, cancelledAt, reported, note, parcel, faults>>

(* The guarded save.  If it finds no order, the order has a parcel by now  *)
(* or has moved on; a parcel nobody waits for is cancelled.                *)
attach(p) ==
    /\ pc[p] = "attach"
    /\ IF order = "PROCESSING" /\ ~attached
       THEN attached' = TRUE /\ cancelling' = FALSE
       ELSE UNCHANGED <<attached, cancelling>>
    /\ Goto(p, IF order = "PROCESSING" THEN "idle" ELSE "discard")
    /\ UNCHANGED <<order, cancelledAt, reported, note, parcel, faults>>

discarded(p) ==
    /\ pc[p] = "discard"
    /\ cancelParcel
    /\ Goto(p, "idle")
    /\ UNCHANGED <<shopVars, note, faults>>

(* GHN_ORPHAN_SHIPMENT: refused, or no answer.                             *)
discardFails(p) ==
    /\ pc[p] = "discard"
    /\ refuseCancel \/ cancelParcel \/ UNCHANGED parcel
    /\ reported' = TRUE
    /\ Goto(p, "idle")
    /\ UNCHANGED <<order, shipmentVars, note, faults>>

-----------------------------------------------------------------------------
(* cancelGhnShipment: staff cancel the parcel and keep the order.          *)

cancelGhnShipment(p) ==
    /\ pc[p] = "idle"
    /\ order = "PROCESSING" /\ ~cancelledAt /\ ~cancelling
    /\ cancelling' = TRUE
    /\ Goto(p, "cancel")
    /\ UNCHANGED <<order, attached, cancelledAt, reported, note, parcel, faults>>

ToCancel == attached /\ ~cancelledAt

(* There is no parcel to cancel; the marker stays.                         *)
cancelNothing(p) ==
    /\ pc[p] = "cancel" /\ ~ToCancel
    /\ Goto(p, "idle")
    /\ UNCHANGED <<shopVars, note, parcel, faults>>

cancelAnswered(p) ==
    /\ pc[p] = "cancel" /\ ToCancel
    /\ cancelParcel
    /\ Goto(p, "record")
    /\ UNCHANGED <<shopVars, note, faults>>

(* Refused, or no answer to the request and to the query after it.         *)
cancelFails(p) ==
    /\ pc[p] = "cancel" /\ ToCancel
    /\ refuseCancel \/ cancelParcel \/ UNCHANGED parcel
    /\ Goto(p, "unmark")
    /\ UNCHANGED <<shopVars, note, faults>>

unmark(p) ==
    /\ pc[p] = "unmark"
    /\ cancelling' = FALSE
    /\ Goto(p, "idle")
    /\ UNCHANGED <<order, attached, cancelledAt, reported, note, parcel, faults>>

(* The cancellation is recorded unless the order has moved on.             *)
recordCancelled(p) ==
    /\ pc[p] = "record"
    /\ IF order = "PROCESSING"
       THEN cancelledAt' = TRUE /\ cancelling' = FALSE
       ELSE UNCHANGED <<cancelledAt, cancelling>>
    /\ Goto(p, "idle")
    /\ UNCHANGED <<order, attached, reported, note, parcel, faults>>

-----------------------------------------------------------------------------
(* The carrier's webhook: the order's parcel is looked up at the carrier,  *)
(* and only then is the order touched.                                     *)

verifyGhnWebhook(p) ==
    /\ pc[p] = "idle"
    /\ attached
    /\ note' = [note EXCEPT ![p] = parcel]
    /\ Goto(p, "sync")
    /\ UNCHANGED <<shopVars, parcel, faults>>

(* The order follows the parcel it was told of where a transition allows   *)
(* it; then the status is written down, unless this event was before.      *)
syncGhnWebhook(p) ==
    /\ pc[p] = "sync"
    /\ \/ /\ note[p] \in {"moving", "delivered"} /\ order = "PROCESSING"
          /\ order' = "SHIPPED"
          /\ UNCHANGED <<cancelling, pc>>
       \/ /\ note[p] = "delivered" /\ order = "SHIPPED"
          /\ order' = "DELIVERED"
          /\ UNCHANGED <<cancelling, pc>>
       \/ /\ ~(note[p] \in {"moving", "delivered"} /\ order = "PROCESSING")
          /\ ~(note[p] = "delivered" /\ order = "SHIPPED")
          /\ cancelling' \in {FALSE, cancelling}
          /\ Goto(p, "idle")
          /\ UNCHANGED order
    /\ UNCHANGED <<attached, cancelledAt, reported, note, parcel, faults>>

-----------------------------------------------------------------------------
(* Staff hand an order to a carrier of their own, or confirm its delivery. *)

assertNoActiveGhnShipment(p) ==
    /\ pc[p] = "idle"
    /\ ~ToCancel
    /\ Goto(p, "handOver")
    /\ UNCHANGED <<shopVars, note, parcel, faults>>

adminMarkShipped(p) ==
    /\ pc[p] = "handOver"
    /\ order' = IF order = "PROCESSING" THEN "SHIPPED" ELSE order
    /\ Goto(p, "idle")
    /\ UNCHANGED <<shipmentVars, reported, note, parcel, faults>>

adminMarkDelivered(p) ==
    /\ pc[p] = "handOver"
    /\ order' = IF order = "SHIPPED" THEN "DELIVERED" ELSE order
    /\ Goto(p, "idle")
    /\ UNCHANGED <<shipmentVars, reported, note, parcel, faults>>

-----------------------------------------------------------------------------
CarrierMoves == moveParcel /\ UNCHANGED <<shopVars, pc, note, faults>>

ShipmentInit ==
    /\ parcel = "none"
    /\ order = "PROCESSING"
    /\ attached = FALSE /\ cancelledAt = FALSE /\ cancelling = FALSE
    /\ reported = FALSE
    /\ pc = [p \in Procs |-> "idle"]
    /\ note = [p \in Procs |-> "none"]
    /\ faults = 0

ShipmentStep(p) ==
    \/ createGhnShipment(p) \/ booked(p) \/ bookingUnanswered(p) \/ attach(p)
    \/ discarded(p) \/ discardFails(p)
    \/ cancelGhnShipment(p) \/ cancelNothing(p) \/ cancelAnswered(p) \/ cancelFails(p)
    \/ unmark(p) \/ recordCancelled(p)
    \/ verifyGhnWebhook(p) \/ syncGhnWebhook(p)
    \/ assertNoActiveGhnShipment(p) \/ adminMarkShipped(p) \/ adminMarkDelivered(p)
=============================================================================
