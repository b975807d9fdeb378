---------------------------- MODULE MCOrderInbox ----------------------------
(* OrderInbox on a small instance: the payment, the refund and the          *)
(* cancellation of one order, delivered and processed in any order.         *)
EXTENDS OrderInbox, TLC

CONSTANTS o1, paid1, refund1, cancel1

MCTypeOf ==
  [e \in Events |-> CASE e = refund1 -> "OrderRefunded"
                      [] e = cancel1 -> "OrderCancelled"
                      [] OTHER -> "OrderFullyPaid"]
MCOrderOf == [e \in Events |-> o1]
=============================================================================
