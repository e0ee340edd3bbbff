----------------------- MODULE MCTransactionalDelivery -----------------------
(* Constants of the delivery pipeline's instances, whose messages are all to *)
(* one contact.                                                              *)
EXTENDS TransactionalDelivery

CONSTANTS m1, m2, c1, w1, w2

MCContactOf == [m \in Message |-> c1]
=============================================================================
