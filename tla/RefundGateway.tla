--------------------------- MODULE RefundGateway ---------------------------
(***************************************************************************)
(* The bank side of refunds, outside the repository, as paymentGateway     *)
(* uses it.  A refund is submitted under an idempotency key; the gateway   *)
(* derives one reference from a key and executes a key at most once, so a  *)
(* submission that is repeated, or whose answer was lost, changes nothing. *)
(* A key stands for its reference too.                                     *)
(*                                                                         *)
(* gateway[k]  "none"     never received                                   *)
(*             "pending"  accepted, not settled at the bank                *)
(*             "failed"   reported as terminally failed                    *)
(*             "paid"     the customer has the money                       *)
(* reversed    references that were paid after having been reported failed *)
(***************************************************************************)
EXTENDS Integers, FiniteSets

CONSTANT Keys

VARIABLES gateway, reversed

gatewayVars == <<gateway, reversed>>

Paid == {k \in Keys : gateway[k] = "paid"}

(* A submission arrives.  VNPay queues it; MoMo settles it at once.        *)
receive(k) ==
    /\ gateway' = IF gateway[k] = "none"
                  THEN [gateway EXCEPT ![k] = "pending"] ELSE gateway
    /\ UNCHANGED reversed

receiveAndPay(k) ==
    /\ gateway[k] = "none"
    /\ gateway' = [gateway EXCEPT ![k] = "paid"]
    /\ UNCHANGED reversed

BankPays(k) ==
    /\ gateway[k] = "pending"
    /\ gateway' = [gateway EXCEPT ![k] = "paid"]
    /\ UNCHANGED reversed

BankFails(k) ==
    /\ gateway[k] = "pending"
    /\ gateway' = [gateway EXCEPT ![k] = "failed"]
    /\ UNCHANGED reversed

(* What handleRefundSuccess and the refund webhook are written for: "a     *)
(* reference that was reported failed and replaced may still be paid by    *)
(* the bank later".                                                        *)
BankPaysAfterAll(k) ==
    /\ gateway[k] = "failed"
    /\ gateway' = [gateway EXCEPT ![k] = "paid"]
    /\ reversed' = reversed \cup {k}
=============================================================================
