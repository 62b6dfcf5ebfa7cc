------------------------ MODULE SubscriptionProofs -------------------------
(***************************************************************************)
(* Proofs of the safety properties of Subscription, for any number of      *)
(* restaurants, plans, orders, payments, subscriptions, handlers, expiry   *)
(* jobs and aborts.                                                        *)
(***************************************************************************)
EXTENDS Subscription, FiniteSetTheorems, WellFoundedInduction, TLAPS

Creating   == {"createRow", "createInvoice"}
Activating == {"activateRead", "activateWrite"}

Rows == {g \in Gids : tx[g] # Null}

\* What must be in the database before a webhook event may be answered.
Safe(e) ==
    /\ e.type = "order.paid" => activated[e.id] > 0
    /\ e.type = "payment.captured" =>
          attempt[e.id] # Null /\ activated[attempt[e.id].gid] > 0

\* What a handler may rely on at the step it is at.
HandlerOK(h) ==
    /\ h.pc \in {"pendingRead", "createCall"} => h.ask \in GwOrder
    /\ h.pc \in Activating \cup {"reset", "markFailed", "createInvoice"} => h.gid \in Rows
    /\ h.pc \in Activating =>
          /\ Succeeded(h.gid, h.pay)
          /\ h.pay \in Pays
          /\ h.ev \in {Null, [type |-> "payment.captured", id |-> h.pay],
                       [type |-> "order.paid", id |-> h.gid]}
    /\ h.pc = "markFailed" => h.ev \in Events /\ h.ev.type = "payment.failed"
    /\ h.pc = "syncRefund" => h.ev \in Events /\ h.ev.type = "refund.processed"
    /\ h.pc = "reply" /\ h.ev # Null => Safe(h.ev)

Handlers == \A p \in Procs : HandlerOK(req[p])

\* One handler creates an order, and it has no row or invoice before.
Creators ==
    /\ \A p \in Procs : req[p].pc = "createRow" =>
          req[p].gid \in Gids \ Rows /\ gwOrder[req[p].gid] # Null
    /\ \A p \in Procs : req[p].pc = "createInvoice" => invoice[req[p].gid]["order"] = "none"
    /\ \A p, q \in Procs :
          req[p].pc \in Creating /\ req[q].pc \in Creating /\ req[p].gid = req[q].gid => p = q
    /\ \A g \in Rows : gwOrder[g] # Null
    /\ \A g \in Gids \ Rows : invoice[g]["order"] = "none"

\* Whatever is paid, offered, reusable or past due exists.
References ==
    /\ \A g \in Rows : tx[g].status = "SUCCESS" => tx[g].paymentId \in Pays
    /\ offered \subseteq Rows
    /\ fresh \subseteq Rows
    /\ \A k \in Pays : attempt[k] # Null => attempt[k].gid \in offered
    /\ \A d \in Pods : \A s \in job[d] : sub[s] # Null /\ sub[s].due

\* There is a newest row among any: born is bounded by the number of rows.
RowCount ==
    /\ IsFiniteSet(Rows)
    /\ \A g \in Rows : tx[g].born <= Cardinality(Rows)

Claims ==
    /\ \A g \in Gids : IsFiniteSet(SubsOf(g))
    /\ ActivationClaimedOnce

Expiries ==
    /\ ExpiryAnnounced
    /\ \A s \in Sids : sub[s] = Null => expired[s] = 0

AckedSafe == \A e \in acked : Safe(e)

\* The inductive invariant.
Inv ==
    /\ TypeOK /\ Handlers /\ Creators /\ References /\ RowCount
    /\ SuccessIsComplete /\ Claims /\ Expiries /\ AckedSafe

-----------------------------------------------------------------------------
\* What no step takes back.
Grow ==
    /\ \A k \in Pays : attempt[k] # Null => attempt'[k] = attempt[k]
    /\ Rows \subseteq Rows'
    /\ \A g \in Gids : activated[g] > 0 => activated'[g] > 0

\* Events, and what they identify.
LEMMA EventTypes ==
    ASSUME NEW e \in Events
    PROVE  /\ e # Null
           /\ e.type = "order.paid" => e.id \in Gids
           /\ e.type = "payment.captured" => e.id \in Pays
BY RecordAssumption DEF Events, CapturedEvents

LEMMA SafeStays ==
    ASSUME TypeOK, Grow, NEW e \in Events, Safe(e)
    PROVE  Safe(e)'
<1>1. ASSUME NEW k \in Pays, attempt[k] # Null PROVE attempt[k].gid \in Gids
    BY <1>1 DEF TypeOK, Attempt
<1> QED BY <1>1, EventTypes DEF Safe, Grow

LEMMA HandlerStays ==
    ASSUME TypeOK, Grow, NEW h \in Request, HandlerOK(h)
    PROVE  HandlerOK(h)'
<1>1. h.pc \in Activating => Succeeded(h.gid, h.pay)'
    <2> SUFFICES ASSUME h.pc \in Activating PROVE attempt'[h.pay] = [gid |-> h.gid, ok |-> TRUE]
        BY DEF Succeeded
    <2>1. h.pay \in Pays /\ h.gid \in Gids /\ attempt[h.pay] = [gid |-> h.gid, ok |-> TRUE]
        BY DEF HandlerOK, Succeeded, Rows
    <2>2. attempt[h.pay] # Null
        <3>1. [gid |-> h.gid, ok |-> TRUE] \in Attempt
            BY <2>1 DEF Attempt
        <3> QED BY <2>1, <3>1, RecordAssumption
    <2> QED BY <2>1, <2>2 DEF Grow
<1>2. h.gid \in Rows => (h.gid \in Rows)'
    BY DEF Grow
<1>3. h.pc = "reply" /\ h.ev # Null => Safe(h.ev)'
    BY SafeStays DEF HandlerOK, Request
<1> QED BY <1>1, <1>2, <1>3 DEF HandlerOK

\* A request record without primes, so that HandlerStays applies to it.
LEMMA HandlersStay ==
    ASSUME TypeOK, Handlers, Grow, UNCHANGED req
    PROVE  Handlers'
<1> SUFFICES ASSUME NEW q \in Procs PROVE HandlerOK(req[q])'
    BY DEF Handlers
<1>1. PICK x : x = req[q]
    OBVIOUS
<1>2. x \in Request /\ HandlerOK(x)
    BY <1>1 DEF TypeOK, Handlers
<1>3. HandlerOK(x)'
    BY <1>2, HandlerStays
<1>4. x = req'[q]
    BY <1>1
<1> QED BY <1>3, <1>4 DEF HandlerOK, Safe, Succeeded

\* The handlers after a step that takes p to h.
LEMMA HandlersStep ==
    ASSUME TypeOK, Handlers, Grow, NEW p \in Procs, NEW h,
           req' = [req EXCEPT ![p] = h], HandlerOK(h)'
    PROVE  Handlers'
<1> SUFFICES ASSUME NEW q \in Procs PROVE HandlerOK(req[q])'
    BY DEF Handlers
<1>1. PICK x : x = req'[q]
    OBVIOUS
<1>2. HandlerOK(x)'
    <2>1. CASE q = p
        BY <1>1, <2>1 DEF TypeOK
    <2>2. CASE q # p
        <3>1. x = req[q] /\ x \in Request
            BY <1>1, <2>2 DEF TypeOK
        <3>2. HandlerOK(x)
            BY <3>1 DEF Handlers
        <3> QED BY <3>1, <3>2, HandlerStays
    <2> QED BY <2>1, <2>2
<1> QED BY <1>1, <1>2 DEF HandlerOK, Safe, Succeeded

LEMMA AckedStays ==
    ASSUME TypeOK, Grow, AckedSafe, UNCHANGED acked
    PROVE  AckedSafe'
BY SafeStays DEF AckedSafe, TypeOK

-----------------------------------------------------------------------------
(* What a step leaves alone when it leaves its state alone.                *)

\* No order is created: the rows that exist stay the same rows.
LEMMA CreatorsStay ==
    ASSUME TypeOK, Handlers, Creators, UNCHANGED gwOrder, Rows' = Rows,
           \A g \in Gids : invoice[g]["order"] = "none" => invoice'[g]["order"] = "none",
           \/ UNCHANGED req
           \/ \E p \in Procs : \E h : req' = [req EXCEPT ![p] = h] /\ h.pc \notin Creating
    PROVE  Creators'
<1>1. \A q \in Procs : req'[q].pc \in Creating => req'[q] = req[q]
    BY DEF TypeOK
<1>2. \A q \in Procs : req'[q].pc = "createRow" => req[q].pc = "createRow" /\ req'[q] = req[q]
    BY <1>1 DEF Creating
<1>3. \A q \in Procs : req'[q].pc = "createInvoice" =>
          req[q].pc = "createInvoice" /\ req'[q] = req[q]
    BY <1>1 DEF Creating
<1>4. \A q \in Procs : req[q].pc = "createInvoice" => req[q].gid \in Gids
    BY DEF Handlers, HandlerOK, Rows
<1>5. Rows \subseteq Gids
    BY DEF Rows
<1> QED BY <1>1, <1>2, <1>3, <1>4, <1>5 DEF Creators

\* The same rows with the same numbers.
LEMMA RowCountStays ==
    ASSUME RowCount, Rows' = Rows, \A g \in Rows : tx'[g].born = tx[g].born
    PROVE  RowCount'
<1>1. IsFiniteSet(Rows') /\ Cardinality(Rows') = Cardinality(Rows)
    BY DEF RowCount
<1>2. \A g \in Rows' : tx'[g].born <= Cardinality(Rows')
    BY <1>1 DEF RowCount
<1> QED BY <1>1, <1>2 DEF RowCount

\* No transaction enters or leaves SUCCESS and no subscription is made.
LEMMA SuccessStays ==
    ASSUME TypeOK, References, SuccessIsComplete,
           \A g \in Gids : tx'[g] # Null /\ tx'[g].status = "SUCCESS" =>
              /\ tx'[g] = tx[g] /\ invoice'[g] = invoice[g]
              /\ activated'[g] = activated[g],
           \A k \in Pays : attempt[k] # Null => attempt'[k] = attempt[k],
           \A s \in Sids : sub[s] # Null => sub'[s] # Null /\ sub'[s].gid = sub[s].gid
    PROVE  SuccessIsComplete'
<1> SUFFICES ASSUME NEW g \in Gids, tx'[g] # Null, tx'[g].status = "SUCCESS"
             PROVE  /\ Succeeded(g, tx[g].paymentId)'
                    /\ (tx[g].sub \in SubsOf(g))'
                    /\ (\E m \in Makers : invoice[g][m] = "PAID")'
                    /\ (activated[g] > 0)'
    BY DEF SuccessIsComplete
<1>1. /\ Succeeded(g, tx[g].paymentId)
      /\ tx[g].sub \in SubsOf(g)
      /\ \E m \in Makers : invoice[g][m] = "PAID"
      /\ activated[g] > 0
      /\ tx'[g] = tx[g] /\ tx[g] # Null
    BY DEF SuccessIsComplete
<1>2. /\ invoice'[g] = invoice[g]
      /\ activated'[g] = activated[g]
    OBVIOUS
<1>3. Succeeded(g, tx[g].paymentId)'
    <2> DEFINE k == tx[g].paymentId
    <2>1. attempt[k] = [gid |-> g, ok |-> TRUE] /\ [gid |-> g, ok |-> TRUE] \in Attempt
        BY <1>1 DEF Succeeded, Attempt
    <2>2. attempt[k] # Null
        BY <2>1, RecordAssumption
    <2>3. k \in Pays
        BY <1>1 DEF References, Rows
    <2> QED BY <1>1, <2>1, <2>2, <2>3 DEF Succeeded
<1>4. (tx[g].sub \in SubsOf(g))'
    BY <1>1 DEF SubsOf
<1> QED BY <1>1, <1>2, <1>3, <1>4

LEMMA ClaimsStay ==
    ASSUME TypeOK, Claims, UNCHANGED activated,
           \A s \in Sids : sub'[s] = Null <=> sub[s] = Null,
           \A s \in Sids : sub[s] # Null => sub'[s].gid = sub[s].gid,
           \A g \in Gids : undone'[g] + (IF tx'[g] # Null /\ tx'[g].status = "SUCCESS" THEN 1 ELSE 0)
              >= undone[g] + (IF tx[g] # Null /\ tx[g].status = "SUCCESS" THEN 1 ELSE 0),
           undone' \in [Gids -> Nat]
    PROVE  Claims'
<1> SUFFICES ASSUME NEW g \in Gids
             PROVE  /\ IsFiniteSet(SubsOf(g)')
                    /\ activated'[g] = Cardinality(SubsOf(g)')
                    /\ activated'[g] <= undone'[g] +
                         (IF tx'[g] # Null /\ tx'[g].status = "SUCCESS" THEN 1 ELSE 0)
    BY DEF Claims, ActivationClaimedOnce
<1>1. SubsOf(g)' = SubsOf(g)
    BY DEF SubsOf
<1>2. /\ IsFiniteSet(SubsOf(g)) /\ activated[g] = Cardinality(SubsOf(g))
      /\ activated[g] <= undone[g] + (IF tx[g] # Null /\ tx[g].status = "SUCCESS" THEN 1 ELSE 0)
    BY DEF Claims, ActivationClaimedOnce
<1>3. activated'[g] <= undone'[g] + (IF tx'[g] # Null /\ tx'[g].status = "SUCCESS" THEN 1 ELSE 0)
    BY <1>2 DEF TypeOK
<1> QED BY <1>1, <1>2, <1>3

-----------------------------------------------------------------------------
(* Steps that change only what a handler knows, what was offered and what  *)
(* was acknowledged.                                                       *)

LEMMA LocalStep ==
    ASSUME Inv, NEW p \in Procs, NEW h \in Request, req' = [req EXCEPT ![p] = h],
           HandlerOK(h), h.pc \notin Creating,
           UNCHANGED <<gwVars, tx, fresh, invoice, subVars, job, undone>>, aborts' \in Nat,
           offered \subseteq offered', offered' \subseteq Rows,
           acked' \subseteq Events, \A e \in acked' : Safe(e)
    PROVE  Inv'
<1> USE DEF Inv, gwVars, subVars
<1>1. Grow /\ Rows' = Rows
    BY DEF Grow, Rows
<1>2. TypeOK'
    BY <1>1 DEF TypeOK, Rows
<1>3. Handlers'
    <2>1. HandlerOK(h)'
        BY <1>1, HandlerStays
    <2> QED BY <1>1, <2>1, HandlersStep
<1>4. Creators'
    BY <1>1, CreatorsStay
<1>5. References'
    BY <1>1 DEF References, Rows
<1>6. RowCount'
    BY <1>1, RowCountStays
<1>7. SuccessIsComplete'
    BY SuccessStays
<1>8. Claims' /\ Expiries'
    BY DEF Claims, ActivationClaimedOnce, SubsOf, Expiries, ExpiryAnnounced
<1>9. AckedSafe'
    BY DEF AckedSafe, Safe
<1> QED BY <1>2, <1>3, <1>4, <1>5, <1>6, <1>7, <1>8, <1>9

\* A handler that is done relies on nothing.
LEMMA IdleOK == Idle \in Request /\ HandlerOK(Idle) /\ Idle.pc \notin Creating
BY DEF Idle, Request, Steps, HandlerOK, Activating, Creating

\* Among rows there is a newest one.
LEMMA NewestExists ==
    ASSUME TypeOK, RowCount, NEW S \in SUBSET Rows, S # {}
    PROVE  Newest(S) \in S
<1>1. PICK n \in Nat : \A g \in S : tx[g].born \in Nat /\ tx[g].born <= n
    <2>1. Cardinality(Rows) \in Nat
        BY FS_CardinalityType DEF RowCount
    <2>2. \A g \in S : tx[g].born \in Nat /\ tx[g].born <= Cardinality(Rows)
        BY DEF RowCount, Rows, TypeOK, TxRow
    <2> QED BY <2>1, <2>2
<1> DEFINE D == {n - tx[g].born : g \in S}
<1>2. D \subseteq Nat /\ D # {}
    BY <1>1
<1>3. PICK x \in D : \A y \in D : ~(<<y, x>> \in OpToRel(<, Nat))
    <2> HIDE DEF D
    <2> QED BY <1>2, NatLessThanWellFounded, WFMin, Zenon
<1>4. PICK g \in S : x = n - tx[g].born
    OBVIOUS
<1>5. \A h \in S : tx[h].born <= tx[g].born
    <2> TAKE h \in S
    <2>1. n - tx[h].born \in Nat /\ x \in Nat /\ n - tx[h].born \in D
        BY <1>2
    <2>2. ~(n - tx[h].born < x)
        BY <1>3, <2>1 DEF OpToRel
    <2> QED BY <1>1, <1>4, <2>1, <2>2
<1> QED BY <1>5 DEF Newest

\* Reading handlers, which change only what they know.
LEMMA ReadSteps ==
    ASSUME Inv, NEW p \in Procs,
           \/ \E r \in Restaurants, n \in Plans : CreateCheck(p, r, n)
           \/ CreateCallFails(p) \/ Abort(p)
           \/ \E g \in Gids, k \in Pays : VerifyRead(p, g, k)
           \/ \E k \in Pays : WebhookRefund(p, k)
    PROVE  Inv'
<1> USE DEF gwVars, payVars, subVars, auxVars
<1>0. offered \subseteq Rows /\ acked \subseteq Events /\ (\A e \in acked : Safe(e)) /\ aborts \in Nat
    BY DEF Inv, References, AckedSafe, TypeOK
<1>1. ASSUME NEW r \in Restaurants, NEW n \in Plans, CreateCheck(p, r, n) PROVE Inv'
    <2> DEFINE h == [Idle EXCEPT !.pc = "pendingRead", !.ask = [rest |-> r, plan |-> n]]
    <2>1. h \in Request /\ HandlerOK(h) /\ h.pc \notin Creating
        BY DEF Idle, Request, Steps, HandlerOK, Activating, Creating, GwOrder
    <2>2. req' = [req EXCEPT ![p] = h]
        BY <1>1 DEF CreateCheck
    <2> HIDE DEF h
    <2> QED BY <1>0, <1>1, <2>1, <2>2, LocalStep DEF CreateCheck
<1>2. CASE CreateCallFails(p)
    BY <1>0, <1>2, IdleOK, LocalStep DEF CreateCallFails
<1>3. CASE Abort(p)
    <2>1. aborts' \in Nat /\ req' = [req EXCEPT ![p] = Idle]
        BY <1>0, <1>3 DEF Abort
    <2> QED BY <1>0, <1>3, <2>1, IdleOK, LocalStep DEF Abort
<1>4. ASSUME NEW g \in Gids, NEW k \in Pays, VerifyRead(p, g, k) PROVE Inv'
    <2> DEFINE h == [Idle EXCEPT !.pc = "activateRead", !.gid = g, !.pay = k]
    <2>1. h \in Request /\ HandlerOK(h) /\ h.pc \notin Creating
        BY <1>4 DEF VerifyRead, Idle, Request, Steps, HandlerOK, Activating, Creating, Rows
    <2>2. req' = [req EXCEPT ![p] = h]
        BY <1>4 DEF VerifyRead
    <2> HIDE DEF h
    <2> QED BY <1>0, <1>4, <2>1, <2>2, LocalStep DEF VerifyRead
<1>5. ASSUME NEW k \in Pays, WebhookRefund(p, k) PROVE Inv'
    <2> DEFINE e == [type |-> "refund.processed", id |-> k]
    <2> DEFINE h == [Idle EXCEPT !.pc = "syncRefund", !.ev = e, !.pay = k]
    <2>1. h \in Request /\ HandlerOK(h) /\ h.pc \notin Creating
        BY DEF Idle, Request, Steps, HandlerOK, Activating, Creating, Events
    <2>2. req' = [req EXCEPT ![p] = h]
        BY <1>5 DEF WebhookRefund
    <2> HIDE DEF h
    <2> QED BY <1>0, <1>5, <2>1, <2>2, LocalStep DEF WebhookRefund
<1> QED BY <1>1, <1>2, <1>3, <1>4, <1>5

\* Handlers that read the row of their order.
LEMMA RowReadSteps ==
    ASSUME Inv, NEW p \in Procs,
           \/ PendingRead(p) \/ ActivateRead(p) \/ ActivateClaimed(p)
           \/ \E e \in CapturedEvents, g \in Gids, k \in Pays : WebhookCaptured(p, e, g, k)
           \/ \E k \in Pays : WebhookFailed(p, k)
           \/ Reply(p)
    PROVE  Inv'
<1> USE DEF gwVars, payVars, subVars, auxVars
<1>0. /\ offered \subseteq Rows /\ acked \subseteq Events /\ aborts \in Nat
      /\ \A e \in acked : Safe(e)
      /\ req[p] \in Request /\ HandlerOK(req[p])
    BY DEF Inv, References, AckedSafe, TypeOK, Handlers
\* Who finds the order complete finds it activated.
<1>1. ASSUME NEW g \in Rows, Complete(g) PROVE activated[g] > 0
    BY <1>1 DEF Inv, SuccessIsComplete, Complete, Rows
<1>2. ASSUME NEW e \in CapturedEvents, NEW g \in Gids, NEW k \in Pays, Succeeded(g, k), g \in Rows,
             e \in {[type |-> "payment.captured", id |-> k], [type |-> "order.paid", id |-> g]},
             activated[g] > 0
      PROVE  Safe(e)
    <2>1. attempt[k].gid = g /\ attempt[k] # Null
        <3>1. [gid |-> g, ok |-> TRUE] \in Attempt
            BY DEF Attempt
        <3>2. attempt[k] = [gid |-> g, ok |-> TRUE]
            BY <1>2 DEF Succeeded
        <3>3. attempt[k] # Null
            BY <3>1, <3>2, RecordAssumption
        <3>4. attempt[k].gid = g
            BY <3>2
        <3> QED BY <3>3, <3>4
    <2> QED BY <1>2, <2>1 DEF Safe
<1>3. CASE PendingRead(p)
    <2> DEFINE S == Reusable(req[p].ask)
    <2> DEFINE n == Newest(S)
    <2>1. S \subseteq Rows
        BY DEF Reusable, Inv, References
    <2>2. S # {} => n \in S /\ n \in Rows
        <3> HIDE DEF S
        <3> QED BY <2>1, NewestExists DEF Inv
    <2> DEFINE h == CASE S = {} -> [req[p] EXCEPT !.pc = "createCall"]
                      [] S # {} /\ tx[n].status = "FAILED" ->
                            [req[p] EXCEPT !.pc = "reset", !.gid = n]
                      [] OTHER -> Idle
    <2>3. req' = [req EXCEPT ![p] = h]
        BY <1>3 DEF PendingRead, Inv, TypeOK
    <2>4. h \in Request /\ HandlerOK(h) /\ h.pc \notin Creating
        <3>1. req[p].ask \in GwOrder
            BY <1>0, <1>3 DEF PendingRead, HandlerOK
        <3>2. CASE S = {}
            <4>1. h = [req[p] EXCEPT !.pc = "createCall"]
                BY <3>2
            <4> QED BY <1>0, <3>1, <4>1 DEF Request, Steps, HandlerOK, Activating, Creating
        <3>3. CASE S # {} /\ tx[n].status = "FAILED"
            <4>1. h = [req[p] EXCEPT !.pc = "reset", !.gid = n]
                BY <3>3
            <4>2. n \in Rows /\ n \in Gids
                BY <2>2, <3>3 DEF Rows
            <4> HIDE DEF n, S, h
            <4> QED BY <1>0, <4>1, <4>2 DEF Request, Steps, HandlerOK, Activating, Creating
        <3>4. CASE S # {} /\ tx[n].status # "FAILED"
            <4>1. h = Idle
                BY <3>4
            <4> QED BY <4>1, IdleOK
        <3> QED BY <3>2, <3>3, <3>4
    <2>5. offered \subseteq offered' /\ offered' \subseteq Rows
        BY <1>0, <1>3, <2>2 DEF PendingRead
    <2>6. UNCHANGED <<gwVars, acked, tx, fresh, invoice, subVars, job, auxVars>>
        BY <1>3 DEF PendingRead
    <2> HIDE DEF h, n, S
    <2> QED BY <1>0, <2>3, <2>4, <2>5, <2>6, LocalStep
<1>4. CASE ActivateRead(p)
    <2> DEFINE h == [req[p] EXCEPT !.pc = IF Complete(req[p].gid) THEN "reply" ELSE "activateWrite"]
    <2>1. req' = [req EXCEPT ![p] = h]
        BY <1>4 DEF ActivateRead, Inv, TypeOK
    <2>2. h \in Request /\ HandlerOK(h) /\ h.pc \notin Creating
        <3>1. /\ req[p].gid \in Rows /\ req[p].gid \in Gids /\ req[p].pay \in Pays
              /\ Succeeded(req[p].gid, req[p].pay)
              /\ req[p].ev \in {Null, [type |-> "payment.captured", id |-> req[p].pay],
                                [type |-> "order.paid", id |-> req[p].gid]}
            BY <1>0, <1>4 DEF ActivateRead, HandlerOK, Activating, Rows
        <3>2. CASE Complete(req[p].gid)
            <4>1. h = [req[p] EXCEPT !.pc = "reply"]
                BY <3>2
            <4>2. req[p].ev # Null => Safe(req[p].ev)
                BY <1>1, <1>2, <3>1, <3>2 DEF CapturedEvents
            <4> QED BY <1>0, <4>1, <4>2 DEF Request, Steps, HandlerOK, Activating, Creating
        <3>3. CASE ~Complete(req[p].gid)
            <4>1. h = [req[p] EXCEPT !.pc = "activateWrite"]
                BY <3>3
            <4> QED BY <1>0, <3>1, <4>1 DEF Request, Steps, HandlerOK, Activating, Creating
        <3> QED BY <3>2, <3>3
    <2> HIDE DEF h
    <2> QED BY <1>0, <1>4, <2>1, <2>2, LocalStep DEF ActivateRead
<1>5. CASE ActivateClaimed(p)
    <2> DEFINE h == [req[p] EXCEPT !.pc = "reply"]
    <2>1. req' = [req EXCEPT ![p] = h]
        BY <1>5 DEF ActivateClaimed, Inv, TypeOK
    <2>2. h \in Request /\ HandlerOK(h) /\ h.pc \notin Creating
        <3>1. /\ req[p].gid \in Rows /\ req[p].gid \in Gids /\ req[p].pay \in Pays
              /\ Succeeded(req[p].gid, req[p].pay) /\ Complete(req[p].gid)
              /\ req[p].ev \in {Null, [type |-> "payment.captured", id |-> req[p].pay],
                                [type |-> "order.paid", id |-> req[p].gid]}
            BY <1>0, <1>5 DEF ActivateClaimed, HandlerOK, Activating, Rows
        <3>2. req[p].ev # Null => Safe(req[p].ev)
            BY <1>1, <1>2, <3>1 DEF CapturedEvents
        <3> QED BY <1>0, <3>2 DEF Request, Steps, HandlerOK, Activating, Creating
    <2> HIDE DEF h
    <2> QED BY <1>0, <1>5, <2>1, <2>2, LocalStep DEF ActivateClaimed
<1>6. ASSUME NEW e \in CapturedEvents, NEW g \in Gids, NEW k \in Pays, WebhookCaptured(p, e, g, k)
      PROVE  Inv'
    <2>1. g \in Rows
        <3>1. attempt[k] = [gid |-> g, ok |-> TRUE] /\ [gid |-> g, ok |-> TRUE] \in Attempt
            BY <1>6 DEF WebhookCaptured, Succeeded, Attempt
        <3>2. attempt[k].gid \in offered
            BY <3>1, RecordAssumption DEF Inv, References
        <3> QED BY <1>0, <3>1, <3>2
    <2>2. \E h \in Request : /\ req' = [req EXCEPT ![p] = h]
                             /\ HandlerOK(h) /\ h.pc \notin Creating
        <3>1. CASE Complete(g)
            <4> DEFINE h == [Idle EXCEPT !.pc = "reply", !.ev = e]
            <4>1. req' = [req EXCEPT ![p] = h]
                BY <1>6, <3>1 DEF WebhookCaptured
            <4>2. Safe(e)
                BY <1>1, <1>2, <1>6, <2>1, <3>1 DEF WebhookCaptured
            <4>3. h \in Request /\ HandlerOK(h) /\ h.pc \notin Creating
                BY <4>2 DEF Idle, Request, Steps, Events, HandlerOK, Activating, Creating
            <4> QED BY <4>1, <4>3
        <3>2. CASE ~Complete(g)
            <4> DEFINE h == [Idle EXCEPT !.pc = "activateRead", !.ev = e, !.gid = g, !.pay = k]
            <4>1. req' = [req EXCEPT ![p] = h]
                BY <1>6, <2>1, <3>2 DEF WebhookCaptured, Rows
            <4>2. h \in Request /\ HandlerOK(h) /\ h.pc \notin Creating
                BY <1>6, <2>1 DEF WebhookCaptured, Idle, Request, Steps, Events, HandlerOK,
                       Activating, Creating
            <4> QED BY <4>1, <4>2
        <3> QED BY <3>1, <3>2
    <2> QED BY <1>0, <1>6, <2>2, LocalStep DEF WebhookCaptured
<1>7. ASSUME NEW k \in Pays, WebhookFailed(p, k) PROVE Inv'
    <2> DEFINE g == attempt[k].gid
    <2> DEFINE e == [type |-> "payment.failed", id |-> k]
    <2>1. e \in Events /\ Safe(e) /\ g \in Gids /\ e.type = "payment.failed"
        BY <1>7 DEF WebhookFailed, Events, Safe, Inv, TypeOK, Attempt
    <2>2. \E h \in Request : /\ req' = [req EXCEPT ![p] = h]
                             /\ HandlerOK(h) /\ h.pc \notin Creating
        <3>1. CASE req' = [req EXCEPT ![p] = [Idle EXCEPT !.pc = "reply", !.ev = e]]
            <4> HIDE DEF e
            <4>1. [Idle EXCEPT !.pc = "reply", !.ev = e] \in Request
                BY <2>1 DEF Idle, Request, Steps
            <4>2. HandlerOK([Idle EXCEPT !.pc = "reply", !.ev = e])
                BY <2>1 DEF Idle, HandlerOK, Activating
            <4> QED BY <3>1, <4>1, <4>2 DEF Idle, Creating
        <3>2. CASE /\ tx[g] # Null
                   /\ req' = [req EXCEPT ![p] = [Idle EXCEPT !.pc = "markFailed", !.ev = e, !.gid = g]]
            <4> HIDE DEF e, g
            <4>1. [Idle EXCEPT !.pc = "markFailed", !.ev = e, !.gid = g] \in Request
                BY <2>1 DEF Idle, Request, Steps
            <4>2. HandlerOK([Idle EXCEPT !.pc = "markFailed", !.ev = e, !.gid = g])
                BY <2>1, <3>2 DEF Idle, HandlerOK, Activating, Rows
            <4> QED BY <3>2, <4>1, <4>2 DEF Idle, Creating
        <3> QED BY <1>7, <3>1, <3>2 DEF WebhookFailed
    <2> QED BY <1>0, <1>7, <2>2, LocalStep DEF WebhookFailed
<1>8. CASE Reply(p)
    <2>1. acked' \subseteq Events /\ \A e \in acked' : Safe(e)
        BY <1>0, <1>8 DEF Reply, HandlerOK, Request
    <2> QED BY <1>0, <1>8, <2>1, IdleOK, LocalStep DEF Reply
<1> QED BY <1>3, <1>4, <1>5, <1>6, <1>7, <1>8

-----------------------------------------------------------------------------
(* The gateway, the clock and the expiry job.                              *)

\* A step that leaves orders, rows and handlers alone.
LEMMA WorldStep ==
    ASSUME Inv, TypeOK', References', Expiries',
           \A k \in Pays : attempt[k] # Null => attempt'[k] = attempt[k],
           UNCHANGED <<gwOrder, acked, tx, invoice, activated, req, undone>>,
           \A s \in Sids : sub'[s] = Null <=> sub[s] = Null,
           \A s \in Sids : sub[s] # Null => sub'[s].gid = sub[s].gid
    PROVE  Inv'
<1> USE DEF Inv
<1>1. Grow /\ Rows' = Rows
    BY DEF Grow, Rows
<1>2. Handlers' /\ AckedSafe'
    BY <1>1, HandlersStay, AckedStays
<1>3. Creators'
    BY <1>1, CreatorsStay
<1>4. RowCount'
    BY <1>1, RowCountStays
<1>5. SuccessIsComplete'
    BY SuccessStays
<1>6. Claims'
    <2>1. \A g \in Gids : undone'[g] + (IF tx'[g] # Null /\ tx'[g].status = "SUCCESS" THEN 1 ELSE 0)
              >= undone[g] + (IF tx[g] # Null /\ tx[g].status = "SUCCESS" THEN 1 ELSE 0)
        BY DEF TypeOK
    <2>2. undone' \in [Gids -> Nat]
        BY DEF TypeOK
    <2> QED BY <2>1, <2>2, ClaimsStay
<1> QED BY <1>2, <1>3, <1>4, <1>5, <1>6

LEMMA WorldSteps == Inv /\ World => Inv'
<1> SUFFICES ASSUME Inv, World PROVE Inv'
    OBVIOUS
<1> USE DEF gwVars, payVars, subVars, auxVars
<1>1. ASSUME NEW k \in Pays, NEW g \in Gids, NEW ok \in BOOLEAN, RestaurantPays(k, g, ok) PROVE Inv'
    <2>1. /\ attempt' = [attempt EXCEPT ![k] = [gid |-> g, ok |-> ok]]
          /\ attempt[k] = Null /\ g \in offered /\ [gid |-> g, ok |-> ok] \in Attempt
          /\ UNCHANGED <<gwOrder, returned, acked, tx, fresh, invoice, offered, sub, activated,
                         expired, req, job, aborts, undone>>
        BY <1>1 DEF RestaurantPays, Attempt
    <2>2. TypeOK'
        BY <2>1 DEF Inv, TypeOK
    <2>3. \A j \in Pays : attempt'[j] = IF j = k THEN [gid |-> g, ok |-> ok] ELSE attempt[j]
        BY <2>1 DEF Inv, TypeOK
    <2>4. References'
        BY <2>1, <2>3 DEF Inv, References, Rows
    <2>5. Expiries'
        BY <2>1 DEF Inv, Expiries, ExpiryAnnounced
    <2> QED BY <2>1, <2>2, <2>3, <2>4, <2>5, WorldStep
<1>2. ASSUME NEW k \in Pays, DashboardRefund(k) PROVE Inv'
    <2>1. /\ returned' \subseteq Pays
          /\ UNCHANGED <<gwOrder, attempt, acked, tx, fresh, invoice, offered, sub, activated,
                         expired, req, job, aborts, undone>>
        BY <1>2 DEF DashboardRefund, Inv, TypeOK
    <2>2. TypeOK'
        BY <2>1 DEF Inv, TypeOK
    <2>3. References' /\ Expiries'
        BY <2>1 DEF Inv, References, Rows, Expiries, ExpiryAnnounced
    <2> QED BY <2>1, <2>2, <2>3, WorldStep
<1>3. ASSUME NEW g \in Gids, WindowCloses(g) PROVE Inv'
    <2>1. /\ fresh' \subseteq fresh
          /\ UNCHANGED <<gwOrder, attempt, returned, acked, tx, invoice, offered, sub, activated,
                         expired, req, job, aborts, undone>>
        BY <1>3 DEF WindowCloses
    <2>2. TypeOK'
        BY <2>1 DEF Inv, TypeOK
    <2>3. References' /\ Expiries'
        BY <2>1 DEF Inv, References, Rows, Expiries, ExpiryAnnounced
    <2> QED BY <2>1, <2>2, <2>3, WorldStep
<1>4. ASSUME NEW s \in Sids, PeriodEnds(s) PROVE Inv'
    <2>1. /\ sub' = [sub EXCEPT ![s].due = TRUE] /\ sub[s] \in SubRow
          /\ UNCHANGED <<gwOrder, attempt, returned, acked, tx, fresh, invoice, offered, activated,
                         expired, req, job, aborts, undone>>
        BY <1>4 DEF PeriodEnds, Inv, TypeOK
    <2>2. sub'[s] \in SubRow /\ sub'[s] = [sub[s] EXCEPT !.due = TRUE]
        BY <2>1 DEF Inv, TypeOK, SubRow
    <2>3. \A j \in Sids : j # s => sub'[j] = sub[j]
        BY <2>1 DEF Inv, TypeOK
    <2>4. sub' \in [Sids -> SubRow \cup {Null}]
        BY <2>1, <2>2 DEF Inv, TypeOK
    <2>5. TypeOK'
        BY <2>1, <2>4 DEF Inv, TypeOK
    <2>6. sub[s] # Null /\ sub'[s] # Null
        BY <2>1, <2>2, RecordAssumption
    <2>7. /\ sub'[s].gid = sub[s].gid /\ sub'[s].status = sub[s].status
          /\ sub'[s].due
        BY <2>1, <2>2 DEF SubRow
    <2>8. References'
        <3>1. \A d \in Pods : \A j \in job'[d] : sub'[j] # Null /\ sub'[j].due
            BY <2>1, <2>3, <2>6, <2>7 DEF Inv, References, TypeOK
        <3> QED BY <2>1, <3>1 DEF Inv, References, Rows
    <2>9. Expiries'
        BY <2>1, <2>3, <2>6, <2>7 DEF Inv, Expiries, ExpiryAnnounced
    <2> QED BY <2>1, <2>3, <2>5, <2>6, <2>7, <2>8, <2>9, WorldStep
<1> QED BY <1>1, <1>2, <1>3, <1>4 DEF World

\* The job works on what it loaded: it was past due then and still is.
LEMMA ExpirySteps ==
    ASSUME Inv, NEW d \in Pods, ExpiryRead(d) \/ ExpiryWrite(d) \/ ExpiryAborts(d)
    PROVE  Inv'
<1> USE DEF gwVars, payVars, subVars, auxVars
<1>1. CASE ExpiryRead(d) \/ ExpiryAborts(d)
    <2>0. job \in [Pods -> SUBSET Sids] /\ aborts \in Nat /\ PastDue \subseteq Sids
        BY DEF Inv, TypeOK, PastDue
    <2>1. /\ job' \in [Pods -> SUBSET Sids] /\ aborts' \in Nat
          /\ UNCHANGED <<gwOrder, attempt, returned, acked, tx, fresh, invoice, offered, sub,
                         activated, expired, req, undone>>
        <3>1. CASE ExpiryRead(d)
            BY <2>0, <3>1 DEF ExpiryRead
        <3>2. CASE ExpiryAborts(d)
            BY <2>0, <3>2 DEF ExpiryAborts
        <3> QED BY <1>1, <3>1, <3>2
    <2>2. \A c \in Pods : \A s \in job'[c] : sub[s] # Null /\ sub[s].due
        BY <1>1 DEF ExpiryRead, ExpiryAborts, PastDue, Inv, TypeOK, References
    <2>3. TypeOK'
        BY <2>1 DEF Inv, TypeOK
    <2>4. References' /\ Expiries'
        BY <2>1, <2>2 DEF Inv, References, Rows, Expiries, ExpiryAnnounced
    <2> QED BY <2>1, <2>3, <2>4, WorldStep
<1>2. CASE ExpiryWrite(d)
    <2>1. /\ sub' = [s \in Sids |-> IF s \in job[d] THEN [sub[s] EXCEPT !.status = "EXPIRED"]
                                                    ELSE sub[s]]
          /\ expired' = [s \in Sids |-> IF s \in job[d] THEN expired[s] + 1 ELSE expired[s]]
          /\ job' = [job EXCEPT ![d] = {}]
          /\ UNCHANGED <<gwOrder, attempt, returned, acked, tx, fresh, invoice, offered, activated,
                         req, aborts, undone>>
        BY <1>2 DEF ExpiryWrite
    <2>2. \A s \in job[d] : s \in Sids /\ sub[s] \in SubRow /\ sub[s].due
        BY DEF Inv, TypeOK, References
    <2>3. ASSUME NEW s \in job[d]
          PROVE  /\ sub'[s] \in SubRow /\ sub'[s] # Null /\ sub[s] # Null
                 /\ sub'[s].gid = sub[s].gid /\ sub'[s].due /\ sub'[s].status = "EXPIRED"
                 /\ expired'[s] = expired[s] + 1
        <3>1. sub'[s] = [sub[s] EXCEPT !.status = "EXPIRED"] /\ expired'[s] = expired[s] + 1
            BY <2>1, <2>2
        <3> QED BY <2>2, <3>1, RecordAssumption DEF SubRow
    <2>4. \A s \in Sids \ job[d] : sub'[s] = sub[s] /\ expired'[s] = expired[s]
        BY <2>1
    <2>5. sub' \in [Sids -> SubRow \cup {Null}] /\ expired' \in [Sids -> Nat]
        <3>1. \A s \in Sids : sub'[s] \in SubRow \cup {Null}
            BY <2>3, <2>4 DEF Inv, TypeOK
        <3>2. \A s \in Sids : expired'[s] \in Nat
            BY <2>3, <2>4 DEF Inv, TypeOK
        <3> QED BY <2>1, <3>1, <3>2
    <2>6. TypeOK'
        BY <2>1, <2>5 DEF Inv, TypeOK
    <2>7. References'
        <3>1. \A c \in Pods : \A s \in job'[c] : s \in job[c] /\ s \in Sids
            BY <2>1 DEF Inv, TypeOK
        <3>2. \A c \in Pods : \A s \in job'[c] : sub'[s] # Null /\ sub'[s].due
            BY <2>3, <2>4, <3>1 DEF Inv, References
        <3> QED BY <2>1, <3>2 DEF Inv, References, Rows
    <2>8. Expiries'
        <3> SUFFICES ASSUME NEW s \in Sids
                     PROVE  /\ sub'[s] # Null =>
                                 /\ sub'[s].status = "EXPIRED" => expired'[s] > 0 /\ sub'[s].due
                                 /\ sub'[s].status = "ACTIVE" => expired'[s] = 0
                            /\ sub'[s] = Null => expired'[s] = 0
            BY DEF Expiries, ExpiryAnnounced
        <3>1. CASE s \in job[d]
            <4>1. expired[s] \in Nat
                BY DEF Inv, TypeOK
            <4> QED BY <2>3, <3>1, <4>1
        <3>2. CASE s \notin job[d]
            BY <2>4, <3>2 DEF Inv, Expiries, ExpiryAnnounced
        <3> QED BY <3>1, <3>2
    <2> QED BY <2>1, <2>3, <2>4, <2>6, <2>7, <2>8, WorldStep
<1> QED BY <1>1, <1>2

-----------------------------------------------------------------------------
(* Writes of the payment tables.                                           *)

\* A status other than SUCCESS is written, whatever the status was: if it was
\* SUCCESS, that is counted.
LEMMA StatusStep ==
    ASSUME Inv, NEW p \in Procs, NEW h \in Request, req' = [req EXCEPT ![p] = h],
           HandlerOK(h), h.pc \notin Creating,
           NEW g \in Rows, NEW c \in PaymentStatus \ {"SUCCESS"},
           tx' = [tx EXCEPT ![g].status = c], Undo(g),
           invoice' \in [Gids -> [Makers -> InvoiceStatus]],
           \A j \in Gids \ {g} : invoice'[j] = invoice[j],
           invoice[g]["order"] = "none" => invoice'[g]["order"] = "none",
           offered \subseteq offered', offered' \subseteq Rows,
           UNCHANGED <<gwVars, acked, fresh, subVars, job, aborts>>
    PROVE  Inv'
<1> USE DEF gwVars, subVars
<1>1. g \in Gids /\ tx[g] \in TxRow
    BY DEF Rows, Inv, TypeOK
<1>2. tx'[g] = [tx[g] EXCEPT !.status = c] /\ \A j \in Gids \ {g} : tx'[j] = tx[j]
    BY <1>1 DEF Inv, TypeOK
<1>3. /\ tx'[g] \in TxRow /\ tx'[g] # Null /\ tx'[g].status = c
      /\ tx'[g].born = tx[g].born
    BY <1>1, <1>2, RecordAssumption DEF TxRow
<1>4. Rows' = Rows
    BY <1>2, <1>3 DEF Rows
<1>5. /\ undone' \in [Gids -> Nat]
      /\ \A j \in Gids \ {g} : undone'[j] = undone[j]
      /\ undone'[g] = undone[g] + (IF tx[g].status = "SUCCESS" THEN 1 ELSE 0)
    <2>1. undone \in [Gids -> Nat]
        BY DEF Inv, TypeOK
    <2>2. CASE tx[g].status = "SUCCESS"
        BY <1>1, <2>1, <2>2 DEF Undo
    <2>3. CASE tx[g].status # "SUCCESS"
        BY <1>1, <2>1, <2>3 DEF Undo
    <2> QED BY <2>2, <2>3
<1>6. TypeOK'
    <2>1. tx' \in [Gids -> TxRow \cup {Null}]
        BY <1>1, <1>2, <1>3 DEF Inv, TypeOK
    <2>2. offered' \subseteq Gids
        BY DEF Rows
    <2> QED BY <1>5, <2>1, <2>2 DEF Inv, TypeOK
<1>7. Grow
    BY <1>4 DEF Grow
<1>8. Handlers'
    <2>1. HandlerOK(h)'
        BY <1>7, HandlerStays DEF Inv
    <2> QED BY <1>7, <2>1, HandlersStep DEF Inv
<1>9. Creators'
    <2>1. \A j \in Gids : invoice[j]["order"] = "none" => invoice'[j]["order"] = "none"
        OBVIOUS
    <2> QED BY <1>4, <2>1, CreatorsStay DEF Inv
<1>10. References'
    <2>1. \A j \in Rows' : tx'[j].status = "SUCCESS" => tx'[j].paymentId \in Pays
        BY <1>2, <1>3, <1>4 DEF Inv, References, Rows
    <2> QED BY <1>4, <2>1 DEF Inv, References
<1>11. RowCount'
    <2>1. \A j \in Rows : tx'[j].born = tx[j].born
        BY <1>2, <1>3 DEF Rows
    <2> QED BY <1>4, <2>1, RowCountStays DEF Inv
<1>12. SuccessIsComplete'
    <2>1. \A j \in Gids : tx'[j] # Null /\ tx'[j].status = "SUCCESS" =>
              tx'[j] = tx[j] /\ invoice'[j] = invoice[j] /\ activated'[j] = activated[j]
        BY <1>2, <1>3
    <2> QED BY <2>1, SuccessStays DEF Inv
<1>13. Claims'
    <2>1. \A j \in Gids : undone'[j] + (IF tx'[j] # Null /\ tx'[j].status = "SUCCESS" THEN 1 ELSE 0)
              >= undone[j] + (IF tx[j] # Null /\ tx[j].status = "SUCCESS" THEN 1 ELSE 0)
        BY <1>2, <1>3, <1>5 DEF Inv, TypeOK
    <2> QED BY <1>5, <2>1, ClaimsStay DEF Inv
<1>14. Expiries'
    BY DEF Inv, Expiries, ExpiryAnnounced
<1>15. AckedSafe'
    BY <1>7, AckedStays DEF Inv
<1> QED BY <1>6, <1>8, <1>9, <1>10, <1>11, <1>12, <1>13, <1>14, <1>15 DEF Inv

LEMMA StatusSteps ==
    ASSUME Inv, NEW p \in Procs, ResetToCreated(p) \/ MarkFailed(p) \/ SyncRefund(p)
    PROVE  Inv'
<1> USE DEF gwVars, subVars
<1>0. /\ offered \subseteq Rows /\ req[p] \in Request /\ HandlerOK(req[p])
      /\ invoice \in [Gids -> [Makers -> InvoiceStatus]]
      /\ req \in [Procs -> Request]
    BY DEF Inv, References, TypeOK, Handlers
<1>1. CASE ResetToCreated(p)
    <2>1. req[p].gid \in Rows
        BY <1>0, <1>1 DEF ResetToCreated, HandlerOK
    <2> DEFINE g == req[p].gid
    <2>2. "CREATED" \in PaymentStatus \ {"SUCCESS"}
        BY DEF PaymentStatus
    <2>3. /\ tx' = [tx EXCEPT ![g].status = "CREATED"] /\ Undo(g)
          /\ offered \subseteq offered' /\ offered' \subseteq Rows
          /\ req' = [req EXCEPT ![p] = Idle] /\ invoice' = invoice
          /\ UNCHANGED <<gwVars, acked, fresh, subVars, job, aborts>>
        BY <1>0, <1>1, <2>1 DEF ResetToCreated
    <2>4. g \in Rows
        BY <2>1
    <2> HIDE DEF g
    <2> QED BY <1>0, <2>1, <2>2, <2>3, <2>4, IdleOK, StatusStep
<1>2. ASSUME NEW e \in Events, e = req[p].ev, e.type \in {"payment.failed", "refund.processed"}
      PROVE  LET h == [req[p] EXCEPT !.pc = "reply"] IN
             h \in Request /\ HandlerOK(h) /\ h.pc \notin Creating
    <2>1. Safe(e)
        BY <1>2 DEF Safe
    <2> QED BY <1>0, <1>2, <2>1 DEF Request, Steps, HandlerOK, Activating, Creating
<1>3. CASE MarkFailed(p)
    <2> DEFINE h == [req[p] EXCEPT !.pc = "reply"]
    <2>1. req[p].gid \in Rows
        BY <1>0, <1>3 DEF MarkFailed, HandlerOK
    <2>2. req[p].ev \in Events /\ req[p].ev.type = "payment.failed"
        BY <1>0, <1>3 DEF MarkFailed, HandlerOK
    <2>3. h \in Request /\ HandlerOK(h) /\ h.pc \notin Creating
        BY <1>2, <2>2
    <2>4. req' = [req EXCEPT ![p] = h]
        BY <1>0, <1>3 DEF MarkFailed
    <2> DEFINE g == req[p].gid
    <2>5. "FAILED" \in PaymentStatus \ {"SUCCESS"}
        BY DEF PaymentStatus
    <2>6. /\ tx' = [tx EXCEPT ![g].status = "FAILED"] /\ Undo(g)
          /\ offered' = offered /\ invoice' = invoice
          /\ UNCHANGED <<gwVars, acked, fresh, subVars, job, aborts>>
        BY <1>3 DEF MarkFailed
    <2>7. g \in Rows
        BY <2>1
    <2> HIDE DEF h, g
    <2> QED BY <1>0, <2>3, <2>4, <2>5, <2>6, <2>7, StatusStep
<1>4. CASE SyncRefund(p)
    <2> DEFINE h == [req[p] EXCEPT !.pc = "reply"]
    <2> DEFINE T == {g \in Gids : tx[g] # Null /\ tx[g].paymentId = req[p].pay}
    <2>1. req[p].ev \in Events /\ req[p].ev.type = "refund.processed"
        BY <1>0, <1>4 DEF SyncRefund, HandlerOK
    <2>2. h \in Request /\ HandlerOK(h) /\ h.pc \notin Creating
        BY <1>2, <2>1
    <2>3. req' = [req EXCEPT ![p] = h]
        BY <1>0, <1>4 DEF SyncRefund
    <2>4. CASE T = {}
        <3>1. UNCHANGED <<gwVars, acked, tx, fresh, invoice, offered, subVars, job, aborts, undone>>
            BY <1>4, <2>4 DEF SyncRefund
        <3>2. aborts' \in Nat /\ acked' \subseteq Events /\ \A e \in acked' : Safe(e)
            BY <3>1 DEF Inv, TypeOK, AckedSafe
        <3> HIDE DEF h
        <3> QED BY <1>0, <2>2, <2>3, <3>1, <3>2, LocalStep
    <2>5. CASE T # {}
        <3>1. PICK g \in T :
                /\ tx' = [tx EXCEPT ![g].status = "REFUNDED"]
                /\ invoice' = [invoice EXCEPT ![g] =
                     [m \in Makers |-> IF invoice[g][m] = "none" THEN "none" ELSE "VOID"]]
                /\ Undo(g)
            BY <1>4, <2>5 DEF SyncRefund
        <3>2. g \in Rows /\ g \in Gids
            BY DEF Rows
        <3>3. invoice'[g] = [m \in Makers |-> IF invoice[g][m] = "none" THEN "none" ELSE "VOID"]
            BY <1>0, <3>1, <3>2
        <3>4. \A j \in Gids \ {g} : invoice'[j] = invoice[j]
            BY <1>0, <3>1
        <3>5. invoice' \in [Gids -> [Makers -> InvoiceStatus]]
            <4>1. [m \in Makers |-> IF invoice[g][m] = "none" THEN "none" ELSE "VOID"]
                     \in [Makers -> InvoiceStatus]
                BY DEF InvoiceStatus
            <4> QED BY <1>0, <3>1, <4>1
        <3>6. invoice[g]["order"] = "none" => invoice'[g]["order"] = "none"
            BY <3>3 DEF Makers
        <3>7. UNCHANGED <<gwVars, acked, fresh, offered, subVars, job, aborts>>
            BY <1>4 DEF SyncRefund
        <3> HIDE DEF h, T
        <3> QED BY <1>0, <2>2, <2>3, <3>1, <3>2, <3>4, <3>5, <3>6, <3>7, StatusStep DEF PaymentStatus
    <2> QED BY <2>4, <2>5
<1> QED BY <1>1, <1>3, <1>4
-----------------------------------------------------------------------------
(* Creating an order, and activating it.                                   *)

\* The order that the gateway makes is a new one.
LEMMA CreateCallStep ==
    ASSUME Inv, NEW p \in Procs, NEW g \in Gids, CreateCall(p, g)
    PROVE  Inv'
<1> USE DEF payVars, subVars, auxVars
<1> PICK h : h = [req[p] EXCEPT !.pc = "createRow", !.gid = g]
    OBVIOUS
<1>0. /\ req \in [Procs -> Request] /\ req[p] \in Request /\ req[p].ask \in GwOrder
      /\ gwOrder \in [Gids -> GwOrder \cup {Null}]
    BY DEF Inv, TypeOK, Handlers, HandlerOK, CreateCall
<1>1. /\ gwOrder[g] = Null /\ gwOrder' = [gwOrder EXCEPT ![g] = req[p].ask]
      /\ UNCHANGED <<attempt, returned, acked, tx, fresh, invoice, offered, sub, activated,
                     expired, job, aborts, undone>>
    BY DEF CreateCall
<1>2. req' = [req EXCEPT ![p] = h]
    BY <1>0 DEF CreateCall
<1>3. h \in Request /\ h.pc = "createRow" /\ h.gid = g
    BY <1>0 DEF Request, Steps
<1>4. gwOrder'[g] # Null /\ \A j \in Gids : gwOrder[j] # Null => gwOrder'[j] # Null
    BY <1>0, <1>1, RecordAssumption
<1>5. /\ Rows' = Rows /\ Grow
      /\ req'[p] = h /\ \A q \in Procs \ {p} : req'[q] = req[q]
    BY <1>0, <1>1, <1>2 DEF Rows, Grow
<1>6. TypeOK'
    <2>1. req' \in [Procs -> Request]
        BY <1>0, <1>2, <1>3
    <2>2. gwOrder' \in [Gids -> GwOrder \cup {Null}]
        BY <1>0, <1>1
    <2> QED BY <1>1, <2>1, <2>2 DEF Inv, TypeOK
<1>7. Handlers'
    <2>1. HandlerOK(h)'
        BY <1>3 DEF HandlerOK, Activating
    <2> QED BY <1>2, <1>5, <2>1, HandlersStep DEF Inv
<1>8. Creators'
    <2>1. g \notin Rows
        BY <1>1 DEF Inv, Creators
    <2>2. ASSUME NEW q \in Procs, req[q].pc \in Creating
          PROVE  req[q].gid \in Gids /\ gwOrder[req[q].gid] # Null
        BY <2>2 DEF Inv, Handlers, HandlerOK, Creators, Creating, Rows
    <2>3. \A q \in Procs : req'[q].pc = "createRow" =>
              req'[q].gid \in Gids \ Rows /\ gwOrder'[req'[q].gid] # Null
        <3> SUFFICES ASSUME NEW q \in Procs, req'[q].pc = "createRow"
                     PROVE  req'[q].gid \in Gids \ Rows /\ gwOrder'[req'[q].gid] # Null
            OBVIOUS
        <3>1. CASE q = p
            BY <1>3, <1>4, <1>5, <2>1, <3>1
        <3>2. CASE q # p
            BY <1>4, <1>5, <3>2 DEF Inv, Creators
        <3> QED BY <3>1, <3>2
    <2>4. \A q \in Procs : req'[q].pc = "createInvoice" => invoice'[req'[q].gid]["order"] = "none"
        BY <1>1, <1>3, <1>5 DEF Inv, Creators
    <2>5. \A q \in Procs \ {p} : req[q].pc \in Creating => req[q].gid # g
        BY <1>1, <2>2
    <2>6. \A q, r \in Procs :
              req'[q].pc \in Creating /\ req'[r].pc \in Creating /\ req'[q].gid = req'[r].gid => q = r
        <3> SUFFICES ASSUME NEW q \in Procs, NEW r \in Procs, q # r,
                            req'[q].pc \in Creating, req'[r].pc \in Creating,
                            req'[q].gid = req'[r].gid
                     PROVE  FALSE
            OBVIOUS
        <3>1. CASE q = p
            BY <1>3, <1>5, <2>5, <3>1
        <3>2. CASE r = p
            BY <1>3, <1>5, <2>5, <3>2
        <3>3. CASE q # p /\ r # p
            BY <1>5, <3>3 DEF Inv, Creators
        <3> QED BY <3>1, <3>2, <3>3
    <2>7. /\ \A j \in Rows : gwOrder'[j] # Null
          /\ \A j \in Gids \ Rows : invoice'[j]["order"] = "none"
        BY <1>1, <1>4 DEF Inv, Creators, Rows
    <2> QED BY <1>5, <2>3, <2>4, <2>6, <2>7 DEF Creators
<1>9. References' /\ RowCount'
    BY <1>1, <1>5, RowCountStays DEF Inv, References
<1>10. SuccessIsComplete'
    BY <1>1 DEF Inv, SuccessIsComplete, Succeeded, SubsOf
<1>11. Claims' /\ Expiries'
    BY <1>1 DEF Inv, Claims, ActivationClaimedOnce, SubsOf, Expiries, ExpiryAnnounced
<1>12. AckedSafe'
    BY <1>1, <1>5, AckedStays DEF Inv
<1> QED BY <1>6, <1>7, <1>8, <1>9, <1>10, <1>11, <1>12 DEF Inv

\* The row of an order is inserted once.
LEMMA CreateRowStep ==
    ASSUME Inv, NEW p \in Procs, CreateRow(p)
    PROVE  Inv'
<1> USE DEF gwVars, subVars, auxVars
<1> DEFINE g == req[p].gid
           row == [status |-> "CREATED", paymentId |-> Null, sub |-> Null,
                   born |-> Cardinality(Rows)]
<1> PICK h : h = [req[p] EXCEPT !.pc = "createInvoice"]
    OBVIOUS
<1>0. /\ req \in [Procs -> Request] /\ req[p] \in Request
      /\ tx \in [Gids -> TxRow \cup {Null}]
      /\ g \in Gids \ Rows /\ gwOrder[g] # Null
      /\ IsFiniteSet(Rows)
    BY DEF Inv, TypeOK, Creators, CreateRow, RowCount
<1>1. /\ tx' = [tx EXCEPT ![g] = row] /\ fresh' = fresh \cup {g}
      /\ UNCHANGED <<gwOrder, attempt, returned, acked, invoice, offered, sub, activated,
                     expired, job, aborts, undone>>
    BY DEF CreateRow, Rows
<1>2. req' = [req EXCEPT ![p] = h] /\ req[p].pc = "createRow"
    BY <1>0 DEF CreateRow
<1>3. h \in Request /\ h.pc = "createInvoice" /\ h.gid = g
    BY <1>0 DEF Request, Steps
<1>4. Cardinality(Rows) \in Nat
    BY <1>0, FS_CardinalityType
<1>5. row \in TxRow /\ row # Null
    BY <1>4, RecordAssumption DEF TxRow, PaymentStatus
<1>6. row.status = "CREATED" /\ row.born = Cardinality(Rows)
    OBVIOUS
<1> HIDE DEF row
<1>7. tx'[g] = row /\ \A j \in Gids \ {g} : tx'[j] = tx[j]
    BY <1>0, <1>1
<1>8. Rows' = Rows \cup {g}
    BY <1>0, <1>5, <1>7 DEF Rows
<1>9. Grow
    BY <1>1, <1>8 DEF Grow
<1>10. req'[p] = h /\ \A q \in Procs \ {p} : req'[q] = req[q]
    BY <1>0, <1>2
<1>11. g \in Gids /\ tx[g] = Null
    BY <1>0 DEF Rows
<1>12. TypeOK'
    <2>1. req' \in [Procs -> Request]
        BY <1>0, <1>2, <1>3
    <2>2. tx' \in [Gids -> TxRow \cup {Null}]
        BY <1>0, <1>1, <1>5
    <2>3. fresh' \subseteq Gids
        BY <1>1, <1>11 DEF Inv, TypeOK
    <2> HIDE DEF g
    <2> QED BY <1>1, <2>1, <2>2, <2>3 DEF Inv, TypeOK
<1>13. Handlers'
    <2>1. HandlerOK(h)'
        BY <1>3, <1>8 DEF HandlerOK, Activating
    <2> QED BY <1>2, <1>9, <2>1, HandlersStep DEF Inv
<1>14. Creators'
    <2>1. \A q \in Procs \ {p} : req[q].pc \in Creating => req[q].gid # g
        BY <1>2 DEF Inv, Creators, Creating
    <2>2. \A q \in Procs : req'[q].pc = "createRow" =>
              req'[q].gid \in Gids \ Rows' /\ gwOrder'[req'[q].gid] # Null
        BY <1>1, <1>3, <1>8, <1>10, <2>1 DEF Inv, Creators, Creating
    <2>3. invoice[g]["order"] = "none"
        BY <1>0 DEF Inv, Creators
    <2>4. \A q \in Procs : req'[q].pc = "createInvoice" => invoice'[req'[q].gid]["order"] = "none"
        <3> SUFFICES ASSUME NEW q \in Procs, req'[q].pc = "createInvoice"
                     PROVE  invoice[req'[q].gid]["order"] = "none"
            BY <1>1
        <3>1. CASE q = p
            BY <1>3, <1>10, <2>3, <3>1
        <3>2. CASE q # p
            BY <1>10, <3>2 DEF Inv, Creators
        <3> QED BY <3>1, <3>2
    <2>5. \A q, r \in Procs :
              req'[q].pc \in Creating /\ req'[r].pc \in Creating /\ req'[q].gid = req'[r].gid => q = r
        <3> SUFFICES ASSUME NEW q \in Procs, NEW r \in Procs, q # r,
                            req'[q].pc \in Creating, req'[r].pc \in Creating,
                            req'[q].gid = req'[r].gid
                     PROVE  FALSE
            OBVIOUS
        <3>1. CASE q = p
            BY <1>3, <1>10, <2>1, <3>1
        <3>2. CASE r = p
            BY <1>3, <1>10, <2>1, <3>2
        <3>3. CASE q # p /\ r # p
            BY <1>10, <3>3 DEF Inv, Creators
        <3> QED BY <3>1, <3>2, <3>3
    <2>6. /\ \A j \in Rows' : gwOrder'[j] # Null
          /\ \A j \in Gids \ Rows' : invoice'[j]["order"] = "none"
        BY <1>0, <1>1, <1>8 DEF Inv, Creators
    <2> QED BY <2>2, <2>4, <2>5, <2>6 DEF Creators
<1>15. References'
    <2>1. \A j \in Rows' : tx'[j].status = "SUCCESS" => tx'[j].paymentId \in Pays
        BY <1>6, <1>7, <1>8 DEF Inv, References, Rows
    <2> QED BY <1>1, <1>8, <2>1 DEF Inv, References
<1>16. RowCount'
    <2>1. IsFiniteSet(Rows') /\ Cardinality(Rows') = Cardinality(Rows) + 1
        BY <1>0, <1>8, FS_AddElement
    <2>2. \A j \in Rows : tx'[j].born = tx[j].born /\ tx[j].born <= Cardinality(Rows)
        BY <1>0, <1>7 DEF Inv, RowCount, Rows
    <2>3. \A j \in Rows : tx[j].born \in Nat
        BY <1>0 DEF Rows, TxRow
    <2>4. \A j \in Rows' : tx'[j].born <= Cardinality(Rows')
        BY <1>4, <1>6, <1>7, <1>8, <2>1, <2>2, <2>3
    <2> QED BY <2>1, <2>4 DEF RowCount
<1>17. SuccessIsComplete'
    <2>1. \A j \in Gids : tx'[j] # Null /\ tx'[j].status = "SUCCESS" =>
              tx'[j] = tx[j] /\ invoice'[j] = invoice[j] /\ activated'[j] = activated[j]
        BY <1>1, <1>6, <1>7
    <2> QED BY <1>1, <2>1, SuccessStays DEF Inv
<1>18. Claims'
    <2>1. \A j \in Gids : undone'[j] + (IF tx'[j] # Null /\ tx'[j].status = "SUCCESS" THEN 1 ELSE 0)
              >= undone[j] + (IF tx[j] # Null /\ tx[j].status = "SUCCESS" THEN 1 ELSE 0)
        BY <1>1, <1>6, <1>7, <1>11 DEF Inv, TypeOK
    <2>2. undone' \in [Gids -> Nat]
        BY <1>12 DEF TypeOK
    <2> QED BY <1>1, <2>1, <2>2, ClaimsStay DEF Inv
<1>19. Expiries'
    BY <1>1 DEF Inv, Expiries, ExpiryAnnounced
<1>20. AckedSafe'
    BY <1>1, <1>9, AckedStays DEF Inv
<1> QED BY <1>12, <1>13, <1>14, <1>15, <1>16, <1>17, <1>18, <1>19, <1>20 DEF Inv
\* The draft invoice of an order is the first of its maker: an invoice that an
\* activation paid stays paid.
LEMMA CreateInvoiceStep ==
    ASSUME Inv, NEW p \in Procs, CreateInvoice(p)
    PROVE  Inv'
<1> USE DEF gwVars, subVars, auxVars
<1> PICK g : g = req[p].gid
    OBVIOUS
<1>0. /\ req \in [Procs -> Request] /\ req[p].pc = "createInvoice"
      /\ invoice \in [Gids -> [Makers -> InvoiceStatus]]
      /\ g \in Rows /\ g \in Gids
      /\ invoice[g]["order"] = "none"
    BY DEF Inv, TypeOK, Handlers, HandlerOK, Creators, CreateInvoice, Rows
<1>1. /\ invoice' = [invoice EXCEPT ![g]["order"] = "DRAFT"] /\ offered' = offered \cup {g}
      /\ req' = [req EXCEPT ![p] = Idle]
      /\ UNCHANGED <<gwOrder, attempt, returned, acked, tx, fresh, sub, activated,
                     expired, job, aborts, undone>>
    BY DEF CreateInvoice
<1>2. /\ invoice' \in [Gids -> [Makers -> InvoiceStatus]]
      /\ \A j \in Gids \ {g} : invoice'[j] = invoice[j]
      /\ \A m \in Makers : invoice[g][m] = "PAID" => invoice'[g][m] = "PAID"
    <2>1. invoice'[g] = [invoice[g] EXCEPT !["order"] = "DRAFT"]
        BY <1>0, <1>1
    <2>2. [invoice[g] EXCEPT !["order"] = "DRAFT"] \in [Makers -> InvoiceStatus]
        BY <1>0 DEF InvoiceStatus
    <2>3. invoice' \in [Gids -> [Makers -> InvoiceStatus]]
        BY <1>0, <1>1, <2>2
    <2>4. \A j \in Gids \ {g} : invoice'[j] = invoice[j]
        BY <1>0, <1>1
    <2>5. \A m \in Makers : m # "order" => invoice'[g][m] = invoice[g][m]
        BY <1>0, <2>1
    <2> QED BY <1>0, <2>3, <2>4, <2>5
<1>3. Rows' = Rows /\ Grow
    BY <1>1 DEF Rows, Grow
<1>4. req'[p] = Idle /\ \A q \in Procs \ {p} : req'[q] = req[q]
    BY <1>0, <1>1
<1>5. TypeOK'
    <2>1. req' \in [Procs -> Request]
        BY <1>0, <1>1, IdleOK
    <2>2. offered' \subseteq Gids
        BY <1>0, <1>1 DEF Inv, TypeOK
    <2> QED BY <1>1, <1>2, <2>1, <2>2 DEF Inv, TypeOK
<1>6. Handlers'
    <2>1. HandlerOK(Idle)'
        BY <1>3, IdleOK, HandlerStays DEF Inv
    <2> QED BY <1>1, <1>3, <2>1, HandlersStep DEF Inv
<1>7. Creators'
    <2>1. ASSUME NEW q \in Procs, req'[q].pc \in Creating
          PROVE  q # p /\ req'[q] = req[q] /\ req[q].gid # g
        <3>1. q # p
            BY <1>4, <2>1, IdleOK
        <3>2. req'[q] = req[q]
            BY <1>4, <3>1
        <3>3. req[q].gid # g
            BY <1>0, <2>1, <3>1, <3>2 DEF Inv, Creators, Creating
        <3> QED BY <3>1, <3>2, <3>3
    <2>2. \A q \in Procs : req'[q].pc = "createRow" =>
              req'[q].gid \in Gids \ Rows /\ gwOrder'[req'[q].gid] # Null
        BY <1>1, <2>1 DEF Inv, Creators, Creating
    <2>3. ASSUME NEW q \in Procs, req'[q].pc = "createInvoice"
          PROVE  invoice'[req'[q].gid]["order"] = "none"
        <3>1. req'[q] = req[q] /\ req[q].gid # g
            BY <2>1, <2>3 DEF Creating
        <3>2. req[q].gid \in Gids /\ invoice[req[q].gid]["order"] = "none"
            BY <2>3, <3>1 DEF Inv, Handlers, HandlerOK, Rows, Creators
        <3> QED BY <1>2, <3>1, <3>2
    <2>4. \A q, r \in Procs :
              req'[q].pc \in Creating /\ req'[r].pc \in Creating /\ req'[q].gid = req'[r].gid => q = r
        BY <2>1 DEF Inv, Creators
    <2>5. /\ \A j \in Rows : gwOrder'[j] # Null
          /\ \A j \in Gids \ Rows : invoice'[j]["order"] = "none"
        BY <1>0, <1>1, <1>2 DEF Inv, Creators
    <2> QED BY <1>3, <2>2, <2>3, <2>4, <2>5 DEF Creators
<1>8. References' /\ RowCount'
    <2>1. offered' \subseteq Rows /\ offered \subseteq offered'
        BY <1>0, <1>1 DEF Inv, References
    <2>2. RowCount'
        BY <1>1, <1>3, RowCountStays DEF Inv
    <2> QED BY <1>1, <1>3, <2>1, <2>2 DEF Inv, References
<1>9. SuccessIsComplete'
    <2>1. ASSUME NEW j \in Gids, NEW m \in Makers, invoice[j][m] = "PAID" PROVE invoice'[j][m] = "PAID"
        BY <1>2, <2>1
    <2> QED BY <1>1, <2>1 DEF Inv, SuccessIsComplete, Succeeded, SubsOf
<1>10. Claims' /\ Expiries'
    BY <1>1 DEF Inv, Claims, ActivationClaimedOnce, SubsOf, Expiries, ExpiryAnnounced
<1>11. AckedSafe'
    BY <1>1, <1>3, AckedStays DEF Inv
<1> QED BY <1>5, <1>6, <1>7, <1>8, <1>9, <1>10, <1>11 DEF Inv

\* The claim, the subscription, the invoice and the event commit together, and
\* only for a transaction that is not SUCCESS.
LEMMA ActivateWriteStep ==
    ASSUME Inv, NEW p \in Procs, NEW s \in Sids, NEW m \in Makers, ActivateWrite(p, s, m)
    PROVE  Inv'
<1> USE DEF gwVars, subVars, auxVars
<1> PICK g : g = req[p].gid
    OBVIOUS
<1> PICK k : k = req[p].pay
    OBVIOUS
<1> PICK h : h = [req[p] EXCEPT !.pc = "reply"]
    OBVIOUS
<1> PICK row : row = [tx[g] EXCEPT !.status = "SUCCESS", !.paymentId = k, !.sub = s]
    OBVIOUS
<1> PICK new : new = [gid |-> g, status |-> "ACTIVE", due |-> FALSE]
    OBVIOUS
<1>0. /\ req \in [Procs -> Request] /\ req[p] \in Request /\ req[p].pc = "activateWrite"
      /\ invoice \in [Gids -> [Makers -> InvoiceStatus]]
      /\ tx \in [Gids -> TxRow \cup {Null}]
      /\ sub \in [Sids -> SubRow \cup {Null}]
      /\ activated \in [Gids -> Nat]
      /\ undone \in [Gids -> Nat]
    BY DEF Inv, TypeOK, ActivateWrite
<1>1. /\ g \in Rows /\ g \in Gids /\ tx[g] # Null /\ tx[g] \in TxRow
      /\ k \in Pays /\ Succeeded(g, k)
      /\ req[p].ev \in {Null, [type |-> "payment.captured", id |-> k],
                        [type |-> "order.paid", id |-> g]}
    BY <1>0 DEF Inv, Handlers, HandlerOK, Activating, Rows
<1>2. /\ tx' = [tx EXCEPT ![g] = row]
      /\ sub' = [sub EXCEPT ![s] = new]
      /\ invoice' = [invoice EXCEPT ![g][m] = "PAID"]
      /\ activated' = [activated EXCEPT ![g] = activated[g] + 1]
      /\ UNCHANGED <<gwOrder, attempt, returned, acked, fresh, offered, expired, job, aborts, undone>>
    BY <1>0, <1>1 DEF ActivateWrite
<1>3. req' = [req EXCEPT ![p] = h]
    BY <1>0 DEF ActivateWrite
<1>4. sub[s] = Null /\ m \in InvoiceOf(g) /\ ~Complete(g)
    BY DEF ActivateWrite
<1>5. row \in TxRow /\ row # Null
    BY <1>1, RecordAssumption DEF TxRow, PaymentStatus
<1>6. row.status = "SUCCESS" /\ row.paymentId = k /\ row.sub = s /\ row.born = tx[g].born
    BY <1>1 DEF TxRow
<1>7. new \in SubRow /\ new # Null
    <2>1. new \in SubRow
        BY <1>1 DEF SubRow
    <2> QED BY <2>1, RecordAssumption
<1>8. new.gid = g /\ new.status = "ACTIVE"
    OBVIOUS
<1>9. tx'[g] = row /\ \A j \in Gids \ {g} : tx'[j] = tx[j]
    BY <1>0, <1>1, <1>2
<1>10. sub'[s] = new /\ \A j \in Sids \ {s} : sub'[j] = sub[j]
    BY <1>0, <1>2
<1>11. /\ activated'[g] = activated[g] + 1 /\ activated[g] \in Nat
       /\ \A j \in Gids \ {g} : activated'[j] = activated[j]
    BY <1>0, <1>1, <1>2
<1>12. /\ invoice' \in [Gids -> [Makers -> InvoiceStatus]]
       /\ invoice'[g][m] = "PAID"
       /\ \A j \in Gids \ {g} : invoice'[j] = invoice[j]
       /\ invoice[g]["order"] = "none" => invoice'[g]["order"] = "none"
    <2>1. invoice'[g] = [invoice[g] EXCEPT ![m] = "PAID"]
        BY <1>0, <1>1, <1>2
    <2>2. [invoice[g] EXCEPT ![m] = "PAID"] \in [Makers -> InvoiceStatus]
        BY <1>0, <1>1 DEF InvoiceStatus
    <2>3. invoice' \in [Gids -> [Makers -> InvoiceStatus]]
        BY <1>0, <1>2, <2>2
    <2>4. \A j \in Gids \ {g} : invoice'[j] = invoice[j]
        BY <1>0, <1>2
    <2>5. invoice'[g][m] = "PAID" /\ \A n \in Makers \ {m} : invoice'[g][n] = invoice[g][n]
        BY <1>0, <1>1, <2>1
    <2>6. invoice[g]["order"] = "none" => m # "order"
        BY <1>4 DEF InvoiceOf
    <2> QED BY <2>3, <2>4, <2>5, <2>6 DEF Makers
<1>13. tx[g].status # "SUCCESS"
    BY <1>1, <1>4, NullAssumption DEF Complete, Inv, SuccessIsComplete, SubsOf
<1>14. Rows' = Rows
    BY <1>1, <1>5, <1>9 DEF Rows
<1>15. Grow
    BY <1>2, <1>11, <1>14 DEF Grow
<1>16. TypeOK'
    <2>1. h \in Request
        BY <1>0 DEF Request, Steps
    <2>2. req' \in [Procs -> Request]
        BY <1>0, <1>3, <2>1
    <2>3. tx' \in [Gids -> TxRow \cup {Null}] /\ sub' \in [Sids -> SubRow \cup {Null}]
        BY <1>0, <1>2, <1>5, <1>7
    <2>4. activated' \in [Gids -> Nat]
        BY <1>0, <1>1, <1>2
    <2> QED BY <1>2, <1>12, <2>2, <2>3, <2>4 DEF Inv, TypeOK
<1>17. Handlers'
    <2>1. h.pc = "reply" /\ h.ev = req[p].ev
        BY <1>0 DEF Request
    <2>2. attempt'[k] # Null /\ attempt'[k].gid = g
        <3>1. attempt[k] = [gid |-> g, ok |-> TRUE] /\ [gid |-> g, ok |-> TRUE] \in Attempt
            BY <1>1 DEF Succeeded, Attempt
        <3>2. attempt[k] # Null
            BY <3>1, RecordAssumption
        <3>3. attempt[k].gid = g
            BY <3>1
        <3> QED BY <1>2, <3>2, <3>3
    <2>3. activated'[g] > 0
        BY <1>11
    <2>4. h.ev # Null => Safe(h.ev)'
        BY <1>1, <2>1, <2>2, <2>3 DEF Safe
    <2>5. HandlerOK(h)'
        BY <2>1, <2>4 DEF HandlerOK, Activating
    <2> QED BY <1>3, <1>15, <2>5, HandlersStep DEF Inv
<1>18. Creators'
    <2>1. \A j \in Gids : invoice[j]["order"] = "none" => invoice'[j]["order"] = "none"
        BY <1>12
    <2>2. h.pc \notin Creating
        BY <1>0 DEF Request, Creating
    <2> QED BY <1>2, <1>3, <1>14, <2>1, <2>2, CreatorsStay DEF Inv
<1>19. References'
    <2>1. \A j \in Rows' : tx'[j].status = "SUCCESS" => tx'[j].paymentId \in Pays
        <3> SUFFICES ASSUME NEW j \in Rows, tx'[j].status = "SUCCESS" PROVE tx'[j].paymentId \in Pays
            BY <1>14
        <3>1. CASE j = g
            BY <1>1, <1>6, <1>9, <3>1
        <3>2. CASE j # g
            BY <1>9, <3>2 DEF Inv, References, Rows
        <3> QED BY <3>1, <3>2
    <2>2. \A d \in Pods : \A i \in job'[d] : sub'[i] # Null /\ sub'[i].due
        <3> SUFFICES ASSUME NEW d \in Pods, NEW i \in job[d]
                     PROVE  sub'[i] # Null /\ sub'[i].due
            BY <1>2
        <3>1. i \in Sids /\ sub[i] # Null /\ sub[i].due
            BY DEF Inv, TypeOK, References
        <3> QED BY <1>4, <1>10, <3>1
    <2> QED BY <1>2, <1>14, <2>1, <2>2 DEF Inv, References
<1>20. RowCount'
    <2>1. \A j \in Rows : tx'[j].born = tx[j].born
        BY <1>6, <1>9 DEF Rows
    <2> QED BY <1>14, <2>1, RowCountStays DEF Inv
<1>21. ASSUME NEW j \in Gids \ {g} PROVE SubsOf(j)' = SubsOf(j)
    BY <1>4, <1>7, <1>8, <1>10 DEF SubsOf
<1>22. SubsOf(g)' = SubsOf(g) \cup {s} /\ s \notin SubsOf(g)
    BY <1>4, <1>7, <1>8, <1>10 DEF SubsOf
<1>23. SuccessIsComplete'
    <2> SUFFICES ASSUME NEW j \in Gids, tx'[j] # Null, tx'[j].status = "SUCCESS"
                 PROVE  /\ Succeeded(j, tx'[j].paymentId)
                        /\ tx'[j].sub \in SubsOf(j)'
                        /\ \E n \in Makers : invoice'[j][n] = "PAID"
                        /\ activated'[j] > 0
        BY <1>2 DEF SuccessIsComplete, Succeeded
    <2>1. CASE j = g
        <3>1. tx'[j].paymentId = k /\ tx'[j].sub = s
            BY <1>6, <1>9, <2>1
        <3>2. activated'[j] > 0
            BY <1>11, <2>1
        <3> QED BY <1>1, <1>12, <1>22, <2>1, <3>1, <3>2
    <2>2. CASE j # g
        BY <1>9, <1>11, <1>12, <1>21, <2>2 DEF Inv, SuccessIsComplete
    <2> QED BY <2>1, <2>2
<1>24. Claims'
    <2> SUFFICES ASSUME NEW j \in Gids
                 PROVE  /\ IsFiniteSet(SubsOf(j)')
                        /\ activated'[j] = Cardinality(SubsOf(j)')
                        /\ activated'[j] <= undone'[j] +
                             (IF tx'[j] # Null /\ tx'[j].status = "SUCCESS" THEN 1 ELSE 0)
        BY DEF Claims, ActivationClaimedOnce
    <2>1. /\ IsFiniteSet(SubsOf(j)) /\ activated[j] = Cardinality(SubsOf(j))
          /\ activated[j] <= undone[j] + (IF tx[j] # Null /\ tx[j].status = "SUCCESS" THEN 1 ELSE 0)
        BY DEF Inv, Claims, ActivationClaimedOnce
    <2>2. CASE j = g
        <3>1. IsFiniteSet(SubsOf(g)') /\ Cardinality(SubsOf(g)') = Cardinality(SubsOf(g)) + 1
            BY <1>22, <2>1, <2>2, FS_AddElement
        <3>2. activated[g] <= undone[g]
            BY <1>0, <1>1, <1>13, <2>1, <2>2
        <3>3. activated'[g] <= undone'[g] + 1
            BY <1>0, <1>1, <1>2, <1>11, <3>2
        <3> QED BY <1>5, <1>6, <1>9, <1>11, <2>1, <2>2, <3>1, <3>3
    <2>3. CASE j # g
        <3>1. SubsOf(j)' = SubsOf(j) /\ activated'[j] = activated[j] /\ tx'[j] = tx[j] /\ undone' = undone
            BY <1>2, <1>9, <1>11, <1>21, <2>3
        <3> QED BY <2>1, <3>1
    <2> QED BY <2>2, <2>3
<1>25. Expiries'
    <2>1. expired'[s] = 0
        BY <1>2, <1>4 DEF Inv, Expiries
    <2>2. \A j \in Sids \ {s} : sub'[j] = sub[j] /\ expired'[j] = expired[j]
        BY <1>2, <1>10
    <2> QED BY <1>7, <1>8, <1>10, <2>1, <2>2 DEF Inv, Expiries, ExpiryAnnounced
<1>26. AckedSafe'
    BY <1>2, <1>15, AckedStays DEF Inv
<1> QED BY <1>16, <1>17, <1>18, <1>19, <1>20, <1>23, <1>24, <1>25, <1>26 DEF Inv
-----------------------------------------------------------------------------
LEMMA InitInv == Init => Inv
<1> SUFFICES ASSUME Init PROVE Inv
    OBVIOUS
<1> USE DEF Init
<1>1. TypeOK
    <2>1. [m \in Makers |-> "none"] \in [Makers -> InvoiceStatus]
        BY DEF InvoiceStatus
    <2> QED BY <2>1, IdleOK DEF TypeOK
<1>2. Handlers
    BY IdleOK DEF Handlers
<1>3. Rows = {} /\ \A g \in Gids : SubsOf(g) = {}
    BY DEF Rows, SubsOf
<1>4. Creators
    BY <1>3, IdleOK DEF Creators, Creating, Makers
<1>5. References
    BY <1>3 DEF References
<1>6. RowCount
    BY <1>3, FS_EmptySet DEF RowCount
<1>7. SuccessIsComplete
    BY DEF SuccessIsComplete
<1>8. Claims
    <2>1. ASSUME NEW g \in Gids
          PROVE  /\ IsFiniteSet(SubsOf(g)) /\ activated[g] = Cardinality(SubsOf(g))
                 /\ tx[g] = Null /\ activated[g] = 0 /\ undone[g] = 0
        BY <1>3, FS_EmptySet
    <2> QED BY <2>1 DEF Claims, ActivationClaimedOnce
<1>9. Expiries /\ AckedSafe
    BY DEF Expiries, ExpiryAnnounced, AckedSafe
<1> QED BY <1>1, <1>2, <1>4, <1>5, <1>6, <1>7, <1>8, <1>9 DEF Inv

LEMMA NextInv == Inv /\ [Next]_vars => Inv'
<1> SUFFICES ASSUME Inv, [Next]_vars PROVE Inv'
    OBVIOUS
<1>1. CASE World
    BY <1>1, WorldSteps
<1>2. ASSUME NEW p \in Procs, Client(p) \/ Continue(p) \/ Abort(p) PROVE Inv'
    <2>1. CASE Client(p)
        BY <2>1, ReadSteps DEF Client
    <2>2. CASE Abort(p)
        BY <2>2, ReadSteps
    <2>3. CASE Continue(p)
        BY <2>3, ReadSteps, RowReadSteps, StatusSteps, CreateCallStep, CreateRowStep,
           CreateInvoiceStep, ActivateWriteStep DEF Continue
    <2> QED BY <1>2, <2>1, <2>2, <2>3
<1>3. ASSUME NEW e \in CapturedEvents, DeliverCaptured(e) PROVE Inv'
    BY <1>3, RowReadSteps DEF DeliverCaptured
<1>4. ASSUME NEW k \in Pays, DeliverFailed(k) \/ DeliverRefund(k) PROVE Inv'
    BY <1>4, ReadSteps, RowReadSteps DEF DeliverFailed, DeliverRefund
<1>5. ASSUME NEW d \in Pods, ExpiryRead(d) \/ ExpiryWrite(d) \/ ExpiryAborts(d) PROVE Inv'
    BY <1>5, ExpirySteps
<1>6. CASE UNCHANGED vars
    <2> USE <1>6 DEF vars
    <2>1. TypeOK' /\ References' /\ Expiries'
        BY DEF Inv, TypeOK, References, Rows, Expiries, ExpiryAnnounced
    <2> QED BY <2>1, WorldStep
<1> QED BY <1>1, <1>2, <1>3, <1>4, <1>5, <1>6 DEF Next

LEMMA Invariance == Spec => []Inv
BY InitInv, NextInv, PTL DEF Spec

\* Every variable keeps its type, whatever handlers, webhooks and expiry jobs
\* run together.
THEOREM TypeCorrect == Spec => []TypeOK
<1>1. Inv => TypeOK
    BY DEF Inv
<1> QED BY <1>1, Invariance, PTL

\* activateSubscriptionWithOutbox is all or nothing: a SUCCESS transaction has
\* its captured payment, its own subscription, a PAID invoice and an ACTIVATED
\* event, however many handlers race for it or die.
THEOREM SuccessComplete == Spec => []SuccessIsComplete
<1>1. Inv => SuccessIsComplete
    BY DEF Inv
<1> QED BY <1>1, Invariance, PTL

\* The conditional update claims a transaction once for every time that it was
\* not SUCCESS, and each claim makes one subscription and announces it.
THEOREM ClaimedOnce == Spec => []ActivationClaimedOnce
<1>1. Inv => ActivationClaimedOnce
    BY DEF Inv, Claims
<1> QED BY <1>1, Invariance, PTL

\* A payment.captured or order.paid webhook is answered with 200 only when the
\* subscription that it pays for was activated and announced.
THEOREM AckedActivated == Spec => []AckedIsActivated
<1>1. Inv => AckedIsActivated
    <2> SUFFICES ASSUME Inv, NEW e \in acked, NEW g \in Gids, NEW k \in Pays, Succeeded(g, k),
                        e \in {[type |-> "payment.captured", id |-> k],
                               [type |-> "order.paid", id |-> g]}
                 PROVE  activated[g] > 0
        BY DEF AckedIsActivated
    <2>1. Safe(e) /\ attempt[k].gid = g
        BY DEF Inv, AckedSafe, Succeeded
    <2>2. CASE e = [type |-> "payment.captured", id |-> k]
        BY <2>1, <2>2 DEF Safe
    <2>3. CASE e = [type |-> "order.paid", id |-> g]
        BY <2>1, <2>3 DEF Safe
    <2> QED BY <2>2, <2>3
<1> QED BY <1>1, Invariance, PTL

\* The expiry job announces what it expires, and expires only what is past due:
\* also when the job of another pod works on the same subscriptions, or dies.
THEOREM ExpiriesAnnounced == Spec => []ExpiryAnnounced
<1>1. Inv => ExpiryAnnounced
    BY DEF Inv, Expiries
<1> QED BY <1>1, Invariance, PTL

-----------------------------------------------------------------------------
(* The expiry jobs of several pods.                                        *)

\* The pods whose job has loaded subscription s.
Loaded(s) == {d \in Pods : s \in job[d]}

\* A pod that announces a subscription had loaded it while it was ACTIVE, and
\* nothing makes it ACTIVE again.
Announcers == \A s \in Sids : expired[s] + Cardinality(Loaded(s)) <= Cardinality(Pods)

LEMMA LoadedFinite ==
    ASSUME NEW s
    PROVE  /\ IsFiniteSet(Loaded(s)) /\ Cardinality(Loaded(s)) \in Nat
           /\ IsFiniteSet(Loaded(s)') /\ Cardinality(Loaded(s)') \in Nat
           /\ Cardinality(Loaded(s)') <= Cardinality(Pods)
           /\ Cardinality(Pods) \in Nat
<1>1. Loaded(s) \subseteq Pods /\ Loaded(s)' \subseteq Pods
    BY DEF Loaded
<1> QED BY <1>1, PodsAssumption, FS_Subset, FS_CardinalityType

LEMMA AnnouncersStep ==
    ASSUME Inv, Announcers, [Next]_vars
    PROVE  Announcers'
<1> USE DEF gwVars, payVars, subVars, auxVars
<1>0. job \in [Pods -> SUBSET Sids] /\ expired \in [Sids -> Nat]
    BY DEF Inv, TypeOK
<1>1. CASE UNCHANGED <<expired, job>>
    BY <1>1 DEF Announcers, Loaded
<1>2. ASSUME NEW d \in Pods, ExpiryRead(d) PROVE Announcers'
    <2>1. job[d] = {} /\ job' = [job EXCEPT ![d] = PastDue] /\ expired' = expired
        BY <1>2 DEF ExpiryRead
    <2>2. ASSUME NEW s \in Sids
          PROVE  expired'[s] + Cardinality(Loaded(s)') <= Cardinality(Pods)
        <3>1. CASE s \in PastDue
            <4>1. expired'[s] = 0
                BY <2>1, <3>1 DEF PastDue, Inv, Expiries, ExpiryAnnounced
            <4> QED BY <4>1, LoadedFinite
        <3>2. CASE s \notin PastDue
            <4>1. Loaded(s)' = Loaded(s)
                BY <1>0, <2>1, <3>2 DEF Loaded
            <4> QED BY <2>1, <4>1 DEF Announcers
        <3> QED BY <3>1, <3>2
    <2> QED BY <2>2 DEF Announcers
<1>3. ASSUME NEW d \in Pods, ExpiryAborts(d) PROVE Announcers'
    <2>1. job' = [job EXCEPT ![d] = {}] /\ expired' = expired
        BY <1>3 DEF ExpiryAborts
    <2>2. ASSUME NEW s \in Sids
          PROVE  expired'[s] + Cardinality(Loaded(s)') <= Cardinality(Pods)
        <3>1. Loaded(s)' \subseteq Loaded(s)
            BY <1>0, <2>1 DEF Loaded
        <3>2. Cardinality(Loaded(s)') <= Cardinality(Loaded(s))
            BY <3>1, LoadedFinite, FS_Subset
        <3>3. expired[s] + Cardinality(Loaded(s)) <= Cardinality(Pods) /\ expired[s] \in Nat
            BY <1>0 DEF Announcers
        <3> QED BY <2>1, <3>2, <3>3, LoadedFinite
    <2> QED BY <2>2 DEF Announcers
<1>4. ASSUME NEW d \in Pods, ExpiryWrite(d) PROVE Announcers'
    <2>1. /\ job' = [job EXCEPT ![d] = {}]
          /\ \A s \in Sids : expired'[s] = IF s \in job[d] THEN expired[s] + 1 ELSE expired[s]
        BY <1>4 DEF ExpiryWrite
    <2>2. ASSUME NEW s \in Sids
          PROVE  expired'[s] + Cardinality(Loaded(s)') <= Cardinality(Pods)
        <3>1. expired[s] + Cardinality(Loaded(s)) <= Cardinality(Pods) /\ expired[s] \in Nat
            BY <1>0 DEF Announcers
        <3>2. CASE s \in job[d]
            <4>1. Loaded(s)' = Loaded(s) \ {d} /\ d \in Loaded(s)
                BY <1>0, <2>1, <3>2 DEF Loaded
            <4>2. Cardinality(Loaded(s)') = Cardinality(Loaded(s)) - 1
                BY <4>1, LoadedFinite, FS_RemoveElement
            <4>3. expired'[s] = expired[s] + 1
                BY <2>1, <3>2
            <4> QED BY <3>1, <4>2, <4>3, LoadedFinite
        <3>3. CASE s \notin job[d]
            <4>1. Loaded(s)' = Loaded(s)
                BY <1>0, <2>1, <3>3 DEF Loaded
            <4>2. expired'[s] = expired[s]
                BY <2>1, <3>3
            <4> QED BY <3>1, <4>1, <4>2
        <3> QED BY <3>2, <3>3
    <2> QED BY <2>2 DEF Announcers
<1>5. ASSUME NEW p \in Procs, Client(p) \/ Continue(p) \/ Abort(p) PROVE Announcers'
    <2>1. CASE Client(p) \/ Abort(p)
        BY <1>1, <2>1 DEF Client, CreateCheck, VerifyRead, Abort
    <2>2. CASE Continue(p)
        BY <1>1, <2>2 DEF Continue, PendingRead, ResetToCreated, CreateCall,
           CreateCallFails, CreateRow, CreateInvoice, ActivateRead, ActivateClaimed, ActivateWrite,
           MarkFailed, SyncRefund, Reply
    <2> QED BY <1>5, <2>1, <2>2
<1>6. CASE World
    BY <1>1, <1>6 DEF World, RestaurantPays, DashboardRefund, WindowCloses, PeriodEnds
<1>7. ASSUME NEW e \in CapturedEvents, DeliverCaptured(e) PROVE Announcers'
    BY <1>1, <1>7 DEF DeliverCaptured, WebhookCaptured
<1>8. ASSUME NEW k \in Pays, DeliverFailed(k) \/ DeliverRefund(k) PROVE Announcers'
    BY <1>1, <1>8 DEF DeliverFailed, DeliverRefund, WebhookFailed, WebhookRefund
<1>9. CASE UNCHANGED vars
    BY <1>1, <1>9 DEF vars
<1> QED BY <1>2, <1>3, <1>4, <1>5, <1>6, <1>7, <1>8, <1>9 DEF Next

\* However the jobs of several pods overlap, each pod announces a subscription as
\* expired at most once: isRunning keeps the runs of its job apart, and a
\* subscription it has written is never ACTIVE again.
THEOREM EachPodExpiresOnce == Spec => []ExpiredOncePerPod
<1> DEFINE InvPods == Inv /\ Announcers
<1>1. Init => InvPods
    <2> SUFFICES ASSUME Init PROVE Inv /\ Announcers
        OBVIOUS
    <2>1. ASSUME NEW s \in Sids PROVE expired[s] + Cardinality(Loaded(s)) <= Cardinality(Pods)
        <3>1. expired[s] = 0 /\ Loaded(s) = {}
            BY DEF Init, Loaded
        <3>2. Cardinality(Loaded(s)) = 0
            BY <3>1, FS_EmptySet
        <3> QED BY <3>1, <3>2, LoadedFinite
    <2> QED BY <2>1, InitInv DEF Announcers
<1>2. InvPods /\ [Next]_vars => InvPods'
    BY NextInv, AnnouncersStep
<1>3. InvPods => ExpiredOncePerPod
    <2> SUFFICES ASSUME Inv, Announcers, NEW s \in Sids PROVE expired[s] <= Cardinality(Pods)
        BY DEF ExpiredOncePerPod
    <2>1. expired[s] + Cardinality(Loaded(s)) <= Cardinality(Pods) /\ expired[s] \in Nat
        BY DEF Announcers, Inv, TypeOK
    <2> QED BY <2>1, LoadedFinite
<1> HIDE DEF InvPods
<1> QED BY <1>1, <1>2, <1>3, PTL DEF Spec
=============================================================================
