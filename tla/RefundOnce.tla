----------------------------- MODULE RefundOnce -----------------------------
(***************************************************************************)
(* What the refund endpoint promises its callers, whatever happens inside: *)
(* the gateway has at most one refund of an order that has not failed, and *)
(* a caller is told of a refund only when it is recorded and is a refund   *)
(* of the order the caller's idempotency key stands for.  Two answers to   *)
(* one key name the same refund, unless one of the two failed.             *)
(***************************************************************************)
CONSTANTS Orders, Keys, Refs, OrderOf, Null

VARIABLES
    made,       \* the order a refund is of, or Null
    failed,     \* refunds the gateway gave up
    recorded,   \* refunds in payment_refunds
    told        \* the refunds a 200 answer to a key has named

once == <<made, failed, recorded, told>>

Init ==
    /\ made     = [r \in Refs |-> Null]
    /\ failed   = {}
    /\ recorded = {}
    /\ told     = [k \in Keys |-> {}]

Make(r, o) ==
    /\ made[r] = Null
    /\ \A q \in Refs : made[q] = o => q \in failed
    /\ made' = [made EXCEPT ![r] = o]
    /\ UNCHANGED <<failed, recorded, told>>

Fail(r) ==
    /\ made[r] # Null
    /\ failed' = failed \cup {r}
    /\ UNCHANGED <<made, recorded, told>>

Record(r) ==
    /\ made[r] # Null
    /\ recorded' = recorded \cup {r}
    /\ UNCHANGED <<made, failed, told>>

Tell(k, r) ==
    /\ r \in recorded
    /\ made[r] = OrderOf[k]
    /\ \A q \in told[k] \ {r} : {q, r} \cap failed # {}
    /\ told' = [told EXCEPT ![k] = @ \cup {r}]
    /\ UNCHANGED <<made, failed, recorded>>

Next ==
    \E r \in Refs :
        \/ \E o \in Orders : Make(r, o)
        \/ Fail(r)
        \/ Record(r)
        \/ \E k \in Keys : Tell(k, r)

Spec == Init /\ [][Next]_once
=============================================================================
