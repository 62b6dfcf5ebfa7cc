--------------------------- MODULE MCSubscription ---------------------------
(***************************************************************************)
(* Instances of Subscription for TLC.                                      *)
(***************************************************************************)
EXTENDS Subscription, TLC

\* Handlers, pods and all ids are interchangeable.
Symmetry == Permutations(Procs) \cup Permutations(Pods) \cup Permutations(Gids)
              \cup Permutations(Pays) \cup Permutations(Sids)
=============================================================================
