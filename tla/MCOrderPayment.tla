--------------------------- MODULE MCOrderPayment ---------------------------
(***************************************************************************)
(* Instances of OrderPayment for TLC.                                      *)
(***************************************************************************)
EXTENDS OrderPayment, TLC

\* Handlers and the ids the gateway hands out are interchangeable.
Symmetry == Permutations(Procs) \cup Permutations(Gids) \cup Permutations(Pays)
              \cup Permutations(Refs)
=============================================================================
