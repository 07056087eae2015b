--------------------------- MODULE MCIdempotency ---------------------------
(* Instances of Idempotency for TLC: the requests, keys and bodies of the  *)
(* configurations are model values.                                        *)
EXTENDS Idempotency

=============================================================================
