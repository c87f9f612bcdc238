---------------------------- MODULE MCRefundFlow ----------------------------
(***************************************************************************)
(* Instances of RefundFlow for TLC.                                        *)
(***************************************************************************)
EXTENDS RefundFlow

AllKeys == 1..MaxKeys
=============================================================================
