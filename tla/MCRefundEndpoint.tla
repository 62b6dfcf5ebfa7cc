-------------------------- MODULE MCRefundEndpoint --------------------------
(***************************************************************************)
(* RefundEndpoint for TLC: two keys that callers use for one order, so     *)
(* that neither the lock nor the cache of one key keeps the other out.     *)
(***************************************************************************)
EXTENDS RefundEndpoint

CONSTANT o1

SameOrder == [k \in Keys |-> o1]
=============================================================================
