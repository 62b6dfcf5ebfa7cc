--------------------------- MODULE MCOutboxRelay ----------------------------
(***************************************************************************)
(* Instances of OutboxRelay for TLC: two pods with one run each, or the    *)
(* first with two.                                                         *)
(***************************************************************************)
EXTENDS OutboxRelay, TLC

CONSTANTS podA, podB, a1, a2, b1

ThreeRuns  == {a1, a2, b1}
ThreePodOf == (a1 :> podA) @@ (a2 :> podA) @@ (b1 :> podB)

TwoRuns  == {a1, b1}
TwoPodOf == (a1 :> podA) @@ (b1 :> podB)

\* The two runs of a pod are interchangeable.
Symmetry == Permutations({a1, a2})
=============================================================================
