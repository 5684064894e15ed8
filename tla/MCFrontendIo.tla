---------------------------- MODULE MCFrontendIo ----------------------------
(* FrontendIo on small instances. *)
EXTENDS FrontendIo

CONSTANTS b1, b2, a, x, y

\* b2 announces more than b1, and more than a buffer of two services holds.
GrowingOffer == [b \in Backend |-> IF b = b1 THEN <<a>> ELSE <<a, x, y>>]
=============================================================================
