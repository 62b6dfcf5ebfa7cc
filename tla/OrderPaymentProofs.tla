------------------------- MODULE OrderPaymentProofs -------------------------
(***************************************************************************)
(* Proofs of the safety properties of OrderPayment, for any number of      *)
(* orders, payments, refunds, handlers and aborts.                         *)
(***************************************************************************)
EXTENDS OrderPayment, SequenceTheorems, TLAPS

CaptureSteps == {"captureRead", "captureWrite"}
FailSteps    == {"failRead", "failWrite"}
RefundSteps  == {"refundCall", "refundRead", "refundWrite"}
SyncSteps    == {"syncUpdate", "syncCreate"}

FailedAttempt(g, k) == attempt[k] = [gid |-> g, ok |-> FALSE]

\* What a 200 for event e means: its effect is committed.
Safe(e) ==
    /\ e \in CapturedEvents =>
         /\ e.type = "payment.captured" => attempt[e.id] # Null
         /\ Announced(GidOf(e), "ORDER_CAPTURED")
    /\ e \in FailedEvents =>
         attempt[e.id] # Null /\ outbox[attempt[e.id].gid] # <<>>
    /\ e \in RefundEvents /\ ~BareOrderPaid =>
         /\ refund[e.id] # Null
         /\ gwRefund[e.id] # Null
         /\ gwRefund[e.id].status # "PENDING"
         /\ refund[e.id].status = gwRefund[e.id].status

\* What a handler in local state h may rely on.
Creating(h) ==
    /\ h.pc \in {"createCall", "createRow"} => h.ask # Null
    /\ h.pc = "createRow" => h.gid # Null /\ gwOrder[h.gid] # Null

Capturing(h) == h.pc \in CaptureSteps =>
    /\ h.gid # Null /\ h.ent # Null
    /\ tx[h.gid] # Null
    /\ h.ent.status = "CAPTURED"
    /\ Paid(h.gid)
    /\ h.ent.paymentId # Null => Succeeded(h.gid, h.ent.paymentId)
    /\ ~BareOrderPaid => h.ent.paymentId # Null
    /\ h.ev # Null => /\ h.ev \in CapturedEvents
                      /\ h.ev.type = "payment.captured" => attempt[h.ev.id] # Null
                      /\ GidOf(h.ev) = h.gid

Failing(h) == h.pc \in FailSteps =>
    /\ h.gid # Null /\ h.ent # Null
    /\ tx[h.gid] # Null
    /\ h.ent.status = "FAILED"
    /\ h.ev \in FailedEvents
    /\ FailedAttempt(h.gid, h.ev.id)

Refunding(h) ==
    /\ h.pc \in RefundSteps =>
         /\ h.gid # Null /\ h.ent # Null
         /\ tx[h.gid] # Null
         /\ h.ent.paymentId # Null
         /\ Succeeded(h.gid, h.ent.paymentId)
         /\ Announced(h.gid, "ORDER_CAPTURED")
         /\ ~BareOrderPaid => tx[h.gid].paymentId = h.ent.paymentId
    /\ h.pc \in {"refundRead", "refundWrite"} =>
         /\ h.ref # Null /\ h.rst # Null
         /\ h.ent.status = "REFUNDED"
         /\ gwRefund[h.ref] # Null
         /\ gwRefund[h.ref].pay = h.ent.paymentId
         /\ h.rst # "PENDING" => h.rst = gwRefund[h.ref].status

Syncing(h) ==
    /\ h.pc \in SyncSteps =>
         /\ h.ref # Null
         /\ h.rst \in {"PROCESSED", "FAILED"}
         /\ h.ev \in RefundEvents
         /\ h.ev.id = h.ref
         /\ gwRefund[h.ref] # Null
         /\ gwRefund[h.ref].status = h.rst
    /\ h.pc = "syncUpdate" => refund[h.ref] # Null

HandlerOK(h) ==
    /\ Creating(h)
    /\ Capturing(h)
    /\ Failing(h)
    /\ Refunding(h)
    /\ Syncing(h)
    /\ h.pc = "reply" => Safe(h.ev)

Handlers == \A p \in Procs : HandlerOK(req[p])

\* A gateway order that create made has no row yet, and belongs to one handler.
FreshRow ==
    /\ \A p \in Procs : req[p].pc = "createRow" => tx[req[p].gid] = Null
    /\ \A p, q \in Procs :
         req[p].pc = "createRow" /\ req[q].pc = "createRow" /\ req[p].gid = req[q].gid
           => p = q

\* References between the tables and the gateway.
References ==
    /\ \A g \in Gids : tx[g] # Null => gwOrder[g] # Null
    /\ \A k \in Pays : attempt[k] # Null => tx[attempt[k].gid] # Null
    /\ \A o \in Orders : latest[o] # Null => tx[latest[o]] # Null
    /\ \A g \in Gids : tx[g] = Null => outbox[g] = <<>>

\* The gateway takes the money of an order once.
PaidOnce == \A g \in Gids : \A k, l \in Pays : Succeeded(g, k) /\ Succeeded(g, l) => k = l

\* A stored payment id is that of a payment that was captured and announced.
TxFacts ==
    \A g \in Gids : tx[g] # Null =>
        /\ tx[g].status # "SUCCESS"
        /\ tx[g].paymentId # Null =>
              Succeeded(g, tx[g].paymentId) /\ Announced(g, "ORDER_CAPTURED")

RefundFacts ==
    /\ \A r \in Refs : refund[r] # Null =>
         tx[refund[r].gid] # Null /\ Announced(refund[r].gid, "ORDER_CAPTURED")
    /\ ~BareOrderPaid => \A r \in Refs : gwRefund[r] # Null =>
         TxOfPayment(gwRefund[r].pay) # {}

AckedSafe == \A e \in acked : Safe(e)

Inv ==
    /\ TypeOK
    /\ Handlers
    /\ FreshRow
    /\ References
    /\ PaidOnce
    /\ TxFacts
    /\ RefundFacts
    /\ AckedSafe
    /\ StatusAnnounced
    /\ CaptureBacked
    /\ RefundLedger

\* What no step takes back.
Grow ==
    /\ \A g \in Gids : gwOrder[g] # Null => gwOrder'[g] # Null
    /\ \A k \in Pays : attempt[k] # Null => attempt'[k] = attempt[k]
    /\ \A g \in Gids : tx[g] # Null => tx'[g] # Null
    /\ ~BareOrderPaid => \A g \in Gids : tx[g] # Null /\ tx[g].paymentId # Null =>
          tx'[g].paymentId = tx[g].paymentId
    /\ \A g \in Gids : \A t \in PAYMENT_EVENTS : Announced(g, t) => Announced(g, t)'
    /\ \A g \in Gids : outbox[g] # <<>> => outbox'[g] # <<>>
    /\ \A r \in Refs : gwRefund[r] # Null =>
          /\ gwRefund'[r] # Null
          /\ gwRefund'[r].pay = gwRefund[r].pay
          /\ gwRefund[r].status # "PENDING" => gwRefund'[r].status = gwRefund[r].status
    /\ \A r \in Refs : refund[r] # Null =>
          /\ refund'[r] # Null
          /\ refund'[r].gid = refund[r].gid
          /\ (/\ gwRefund[r] # Null
              /\ gwRefund[r].status # "PENDING"
              /\ refund[r].status = gwRefund[r].status)
             => refund'[r].status = refund[r].status

-----------------------------------------------------------------------------
(***************************************************************************)
(* What stays true while tables and gateway grow.                          *)
(***************************************************************************)
\* Where the ids of webhook events come from.
LEMMA EventIds ==
    /\ \A e \in CapturedEvents :
         \/ e.type = "payment.captured" /\ e.id \in Pays
         \/ e.type = "order.paid" /\ e.id \in Gids
    /\ \A e \in FailedEvents : e.type = "payment.failed" /\ e.id \in Pays
    /\ \A e \in RefundEvents : /\ e.type \in {"refund.processed", "refund.failed"}
                               /\ e.id \in Refs
  BY DEF CapturedEvents, FailedEvents, RefundEvents

\* The three kinds of events are disjoint.
LEMMA EventKinds ==
    /\ CapturedEvents \cap FailedEvents = {}
    /\ CapturedEvents \cap RefundEvents = {}
    /\ FailedEvents \cap RefundEvents = {}
    /\ Null \notin CapturedEvents /\ Null \notin FailedEvents /\ Null \notin RefundEvents
<1>1. Null \notin CapturedEvents /\ Null \notin FailedEvents /\ Null \notin RefundEvents
  BY RecordAssumption DEF Events
<1> QED
  BY <1>1, EventIds

\* Payment attempts are never taken back.
LEMMA AttemptsStay ==
    ASSUME TypeOK, Grow, NEW g \in Gids
    PROVE  /\ \A k \in Pays : Succeeded(g, k) => Succeeded(g, k)'
           /\ \A k \in Pays : FailedAttempt(g, k) => FailedAttempt(g, k)'
           /\ Paid(g) => Paid(g)'
<1>1. \A ok \in BOOLEAN : [gid |-> g, ok |-> ok] # Null
  BY RecordAssumption DEF Attempt
<1>2. \A k \in Pays : Succeeded(g, k) => Succeeded(g, k)'
  BY <1>1 DEF Succeeded, Grow
<1>3. \A k \in Pays : FailedAttempt(g, k) => FailedAttempt(g, k)'
  BY <1>1 DEF FailedAttempt, Grow
<1> QED
  BY <1>2, <1>3 DEF Paid

\* The order that a payment event is about does not change.
LEMMA GidOfStays ==
    ASSUME TypeOK, Grow, NEW e \in CapturedEvents,
           e.type = "payment.captured" => attempt[e.id] # Null
    PROVE  /\ GidOf(e) \in Gids
           /\ GidOf(e)' = GidOf(e)
           /\ e.type = "payment.captured" => attempt'[e.id] # Null
<1>1. CASE e.type = "order.paid" /\ e.id \in Gids
  BY <1>1 DEF GidOf
<1>2. CASE e.type = "payment.captured" /\ e.id \in Pays
  BY <1>2 DEF GidOf, Grow, TypeOK, Attempt
<1> QED
  BY <1>1, <1>2, EventIds

\* What was safe to acknowledge stays safe.
LEMMA SafeStays ==
    ASSUME TypeOK, Grow, NEW e, Safe(e)
    PROVE  Safe(e)'
<1>1. ASSUME e \in CapturedEvents
      PROVE  /\ e.type = "payment.captured" => attempt'[e.id] # Null
             /\ Announced(GidOf(e), "ORDER_CAPTURED")'
  <2>1. /\ e.type = "payment.captured" => attempt[e.id] # Null
        /\ Announced(GidOf(e), "ORDER_CAPTURED")
    BY <1>1 DEF Safe
  <2>2. /\ GidOf(e) \in Gids
        /\ GidOf(e)' = GidOf(e)
        /\ e.type = "payment.captured" => attempt'[e.id] # Null
    BY <1>1, <2>1, GidOfStays
  <2>3. PICK g \in Gids : g = GidOf(e)
    BY <2>2
  <2>4. Announced(g, "ORDER_CAPTURED")'
    BY <2>1, <2>3 DEF Grow, PAYMENT_EVENTS
  <2> QED
    BY <2>2, <2>3, <2>4 DEF Announced
<1>2. ASSUME e \in FailedEvents
      PROVE  attempt'[e.id] # Null /\ outbox'[attempt'[e.id].gid] # <<>>
  <2>1. attempt[e.id] # Null /\ outbox[attempt[e.id].gid] # <<>> /\ e.id \in Pays
    BY <1>2, EventIds DEF Safe
  <2>2. attempt'[e.id] = attempt[e.id] /\ attempt[e.id].gid \in Gids
    BY <2>1 DEF Grow, TypeOK, Attempt
  <2> QED
    BY <2>1, <2>2 DEF Grow
<1>3. ASSUME e \in RefundEvents, ~BareOrderPaid
      PROVE  /\ refund'[e.id] # Null
             /\ gwRefund'[e.id] # Null
             /\ gwRefund'[e.id].status # "PENDING"
             /\ refund'[e.id].status = gwRefund'[e.id].status
  <2>1. /\ e.id \in Refs
        /\ refund[e.id] # Null
        /\ gwRefund[e.id] # Null
        /\ gwRefund[e.id].status # "PENDING"
        /\ refund[e.id].status = gwRefund[e.id].status
    BY <1>3, EventIds DEF Safe
  <2> QED
    BY <2>1 DEF Grow
<1> QED
  BY <1>1, <1>2, <1>3 DEF Safe

\* What a handler relies on stays true while others work.
LEMMA HandlerStays ==
    ASSUME TypeOK, Grow, NEW h \in Request, HandlerOK(h)
    PROVE  HandlerOK(h)'
<1>0. /\ h.gid # Null => h.gid \in Gids
      /\ h.ref # Null => h.ref \in Refs
      /\ h.ent # Null => h.ent \in TxRow
  BY DEF Request
<1>1. Creating(h)'
  BY <1>0 DEF HandlerOK, Creating, Grow
<1>2. Capturing(h)'
  <2> SUFFICES ASSUME h.pc \in CaptureSteps
               PROVE  Capturing(h)'
    BY DEF Capturing
  <2>1. h.gid \in Gids /\ h.ent \in TxRow /\ Capturing(h)
    BY <1>0 DEF HandlerOK, Capturing
  <2>2. tx'[h.gid] # Null /\ Paid(h.gid)'
    BY <2>1, AttemptsStay DEF Capturing, Grow
  <2>3. h.ent.paymentId # Null => Succeeded(h.gid, h.ent.paymentId)'
    BY <2>1, AttemptsStay DEF Capturing, TxRow
  <2>4. h.ev # Null => /\ h.ev \in CapturedEvents
                       /\ h.ev.type = "payment.captured" => attempt'[h.ev.id] # Null
                       /\ GidOf(h.ev)' = h.gid
    BY <2>1, GidOfStays DEF Capturing
  <2> QED
    BY <2>1, <2>2, <2>3, <2>4 DEF Capturing
<1>3. Failing(h)'
  <2> SUFFICES ASSUME h.pc \in FailSteps
               PROVE  Failing(h)'
    BY DEF Failing
  <2>1. h.gid \in Gids /\ h.ev.id \in Pays /\ Failing(h)
    BY <1>0, EventIds DEF HandlerOK, Failing
  <2>2. tx'[h.gid] # Null /\ FailedAttempt(h.gid, h.ev.id)'
    BY <2>1, AttemptsStay DEF Failing, Grow
  <2> QED
    BY <2>1, <2>2 DEF Failing
<1>4. Refunding(h)'
  <2> SUFFICES ASSUME h.pc \in RefundSteps
               PROVE  Refunding(h)'
    BY DEF Refunding, RefundSteps
  <2>1. h.gid \in Gids /\ h.ent \in TxRow /\ h.ent.paymentId \in Pays /\ Refunding(h)
    BY <1>0 DEF HandlerOK, Refunding, TxRow
  <2>2. /\ tx'[h.gid] # Null
        /\ Announced(h.gid, "ORDER_CAPTURED")'
        /\ ~BareOrderPaid => tx'[h.gid].paymentId = h.ent.paymentId
    BY <2>1 DEF Refunding, Grow, PAYMENT_EVENTS
  <2>3. Succeeded(h.gid, h.ent.paymentId)'
    BY <2>1, AttemptsStay DEF Refunding
  <2>4. h.pc \in {"refundRead", "refundWrite"} =>
          /\ h.ref # Null /\ h.rst # Null
          /\ h.ent.status = "REFUNDED"
          /\ gwRefund'[h.ref] # Null
          /\ gwRefund'[h.ref].pay = h.ent.paymentId
          /\ h.rst # "PENDING" => h.rst = gwRefund'[h.ref].status
    BY <1>0, <2>1 DEF Refunding, Grow
  <2> QED
    BY <2>1, <2>2, <2>3, <2>4 DEF Refunding
<1>5. Syncing(h)'
  BY <1>0 DEF HandlerOK, Syncing, SyncSteps, Grow
<1>6. h.pc = "reply" => Safe(h.ev)'
  BY SafeStays DEF HandlerOK
<1> QED
  BY <1>1, <1>2, <1>3, <1>4, <1>5, <1>6 DEF HandlerOK

\* The handlers after a step that takes p to h.
LEMMA HandlersStep ==
    ASSUME TypeOK, Handlers, Grow, NEW p \in Procs, NEW h,
           req' = [req EXCEPT ![p] = h],
           HandlerOK(h)'
    PROVE  Handlers'
<1> SUFFICES ASSUME NEW q \in Procs
             PROVE  HandlerOK(req[q])'
  BY DEF Handlers
<1>1. PICK x : x = req'[q]
  OBVIOUS
<1>2. HandlerOK(x)'
  <2>1. CASE q = p
    BY <1>1, <2>1 DEF TypeOK
  <2>2. CASE q # p
    <3>1. x = req[q] /\ x \in Request
      BY <1>1, <2>2 DEF TypeOK
    <3>2. HandlerOK(x)
      BY <3>1 DEF Handlers
    <3> QED
      BY <3>1, <3>2, HandlerStays
  <2> QED
    BY <2>1, <2>2
<1> QED
  BY <1>1, <1>2 DEF HandlerOK, Creating, Capturing, Failing, Refunding, Syncing, Safe

\* A step that changes nothing lets everything grow.
LEMMA NoChangeGrows ==
    ASSUME UNCHANGED <<gwVars, dbVars>>
    PROVE  Grow
  BY DEF Grow, gwVars, dbVars, Announced

\* A step that changes only what its handler knows.
LEMMA LocalStep ==
    ASSUME Inv, UNCHANGED <<gwVars, dbVars, acked>>, aborts' \in Nat,
           NEW p \in Procs, NEW h \in Request, req' = [req EXCEPT ![p] = h],
           HandlerOK(h), h.pc # "createRow"
    PROVE  Inv'
<1> USE DEF gwVars, dbVars
<1>1. Grow
  BY NoChangeGrows
<1>2. TypeOK'
  BY DEF Inv, TypeOK
<1>3. Handlers'
  <2>1. HandlerOK(h)'
    BY <1>1, HandlerStays DEF Inv
  <2> QED
    BY <1>1, <2>1, HandlersStep DEF Inv
<1>4. FreshRow'
  BY DEF Inv, FreshRow, TypeOK
<1>5. References' /\ PaidOnce' /\ TxFacts'
  BY DEF Inv, References, PaidOnce, TxFacts, Succeeded, Announced
<1>6. RefundFacts'
  BY DEF Inv, RefundFacts, Announced, TxOfPayment
<1>7. AckedSafe'
  BY <1>1, SafeStays DEF Inv, AckedSafe
<1>8. StatusAnnounced' /\ CaptureBacked'
  BY DEF Inv, StatusAnnounced, CaptureBacked, LastEvent, Announced, Paid, Succeeded
<1>9. RefundLedger'
  BY DEF Inv, RefundLedger, Succeeded
<1> QED
  BY <1>2, <1>3, <1>4, <1>5, <1>6, <1>7, <1>8, <1>9 DEF Inv

\* A handler that is done, or was never started, relies on nothing.
LEMMA IdleOK == Idle \in Request /\ HandlerOK(Idle) /\ Idle.pc # "createRow"
  BY DEF Idle, Request, Steps, HandlerOK, Creating, Capturing, Failing, Refunding, Syncing,
         CaptureSteps, FailSteps, RefundSteps, SyncSteps

-----------------------------------------------------------------------------
(***************************************************************************)
(* The steps that change only the local state of a handler.                *)
(***************************************************************************)
\* The decision to create a gateway order.
LEMMA CreateReadStep ==
    ASSUME Inv, NEW p \in Procs, NEW o \in Orders, NEW a \in Amounts, CreateRead(p, o, a)
    PROVE  Inv'
<1> DEFINE ask == [order |-> o, amount |-> a]
           h   == [Idle EXCEPT !.pc = "createCall", !.ask = ask]
<1>0. ask \in GwOrder /\ ask # Null
  BY RecordAssumption DEF GwOrder
<1> HIDE DEF ask
<1>1. h \in Request /\ h.pc = "createCall" /\ h.ask # Null
  BY <1>0 DEF Idle, Request, Steps
<1>2. /\ req' = [req EXCEPT ![p] = h]
      /\ UNCHANGED <<gwVars, dbVars, acked>>
      /\ aborts' \in Nat
  BY DEF CreateRead, Inv, TypeOK, ask
<1> HIDE DEF h
<1>3. HandlerOK(h)
  BY <1>1 DEF HandlerOK, Creating, Capturing, Failing, Refunding, Syncing,
              CaptureSteps, FailSteps, RefundSteps, SyncSteps
<1> QED
  BY <1>1, <1>2, <1>3, LocalStep

\* Error answers and dying handlers.
LEMMA GiveUpStep ==
    ASSUME Inv, NEW p \in Procs, CreateCallFails(p) \/ RefundRefused(p) \/ Abort(p)
    PROVE  Inv'
<1>1. /\ req' = [req EXCEPT ![p] = Idle]
      /\ UNCHANGED <<gwVars, dbVars, acked>>
      /\ aborts' \in Nat
  BY DEF CreateCallFails, RefundRefused, Abort, Inv, TypeOK
<1> QED
  BY <1>1, IdleOK, LocalStep

\* capture() makes a row captured, by the payment it is given if there is one.
LEMMA CaptureRow ==
    ASSUME NEW row \in TxRow, NEW k \in Pays \cup {Null}, row.status # "CAPTURED"
    PROVE  /\ capture(row, k) \in TxRow
           /\ capture(row, k).status = "CAPTURED"
           /\ capture(row, k).paymentId = IF k # Null THEN k ELSE row.paymentId
  BY DEF capture, TxRow, PaymentStatus

\* A verify call or a captured webhook that loaded a transaction which is not
\* captured yet.
LEMMA CaptureStart ==
    ASSUME Inv, NEW p \in Procs, NEW g \in Gids, NEW k \in Pays \cup {Null},
           tx[g] # Null, tx[g].status # "CAPTURED",
           Paid(g), k # Null => Succeeded(g, k), ~BareOrderPaid => k # Null,
           NEW h \in Request,
           h.pc = "captureRead", h.gid = g, h.ent = capture(tx[g], k),
           h.ev # Null => /\ h.ev \in CapturedEvents
                          /\ h.ev.type = "payment.captured" => attempt[h.ev.id] # Null
                          /\ GidOf(h.ev) = g,
           req' = [req EXCEPT ![p] = h],
           UNCHANGED <<gwVars, dbVars, acked, aborts>>
    PROVE  Inv'
<1>1. tx[g] \in TxRow
  BY DEF Inv, TypeOK
<1>2. /\ h.ent \in TxRow
      /\ h.ent.status = "CAPTURED"
      /\ h.ent.paymentId = IF k # Null THEN k ELSE tx[g].paymentId
  BY <1>1, CaptureRow
<1>3. h.ent.paymentId # Null => Succeeded(g, h.ent.paymentId)
  BY <1>2 DEF Inv, TxFacts
<1>4. h.ent # Null /\ g # Null
  BY <1>2, RecordAssumption, NullAssumption
<1>5. HandlerOK(h)
  <2>1. Capturing(h)
    BY <1>2, <1>3, <1>4 DEF Capturing
  <2> QED
    BY <2>1 DEF HandlerOK, Creating, Failing, Refunding, Syncing,
                FailSteps, RefundSteps, SyncSteps
<1>6. aborts' \in Nat
  BY DEF Inv, TypeOK
<1> QED
  BY <1>5, <1>6, LocalStep

\* The verify call: the signature proves a successful payment of this order.
LEMMA VerifyReadStep ==
    ASSUME Inv, NEW p \in Procs, NEW g \in Gids, NEW k \in Pays, VerifyRead(p, g, k)
    PROVE  Inv'
<1>1. /\ tx[g] # Null
      /\ tx[g].status # "CAPTURED"
      /\ Succeeded(g, k)
      /\ Paid(g)
      /\ k # Null
  BY NullAssumption DEF VerifyRead, verifyPaymentSignature, Paid
<1> DEFINE c == capture(tx[g], k)
           h == [Idle EXCEPT !.pc = "captureRead", !.gid = g, !.ent = c]
<1>2. c \in TxRow
  BY <1>1, CaptureRow DEF Inv, TypeOK
<1>3. req' = [req EXCEPT ![p] = h] /\ UNCHANGED <<gwVars, dbVars, acked, aborts>>
  BY DEF VerifyRead
<1> HIDE DEF c
<1>4. h \in Request /\ h.pc = "captureRead" /\ h.gid = g /\ h.ent = c /\ h.ev = Null
  BY <1>2 DEF Idle, Request, Steps
<1> HIDE DEF h
<1> QED
  BY <1>1, <1>3, <1>4, CaptureStart DEF c

\* A handler that acknowledges its event.
LEMMA ReplyStart ==
    ASSUME Inv, NEW p \in Procs, NEW e \in Events, Safe(e),
           req' = [req EXCEPT ![p] = [Idle EXCEPT !.pc = "reply", !.ev = e]],
           UNCHANGED <<gwVars, dbVars, acked, aborts>>
    PROVE  Inv'
<1> DEFINE h == [Idle EXCEPT !.pc = "reply", !.ev = e]
<1>1. h \in Request /\ h.pc = "reply" /\ h.ev = e
  BY DEF Idle, Request, Steps
<1>2. req' = [req EXCEPT ![p] = h]
  OBVIOUS
<1> HIDE DEF h
<1>3. HandlerOK(h)
  BY <1>1 DEF HandlerOK, Creating, Capturing, Failing, Refunding, Syncing,
              CaptureSteps, FailSteps, RefundSteps, SyncSteps
<1>4. aborts' \in Nat
  BY DEF Inv, TypeOK
<1> QED
  BY <1>1, <1>2, <1>3, <1>4, LocalStep

\* A captured webhook is about an order that was paid and has a row.
LEMMA WebhookCapturedStep ==
    ASSUME Inv, NEW p \in Procs, NEW e \in CapturedEvents, WebhookCaptured(p, e)
    PROVE  Inv'
<1>1. /\ GidOf(e) \in Gids
      /\ Paid(GidOf(e))
      /\ e.type = "payment.captured" => attempt[e.id] # Null
      /\ e.type = "payment.captured" => Succeeded(GidOf(e), e.id)
  <2>1. Occurred(e)
    BY DEF WebhookCaptured
  <2>2. CASE e.type = "order.paid" /\ e.id \in Gids
    BY <2>1, <2>2 DEF Occurred, GidOf
  <2>3. CASE e.type = "payment.captured" /\ e.id \in Pays
    <3>1. attempt[e.id] # Null /\ attempt[e.id].ok
      BY <2>1, <2>3 DEF Occurred
    <3>2. attempt[e.id] \in Attempt
      BY <2>3, <3>1 DEF Inv, TypeOK
    <3>3. attempt[e.id] = [gid |-> attempt[e.id].gid, ok |-> TRUE] /\ attempt[e.id].gid \in Gids
      BY <3>1, <3>2 DEF Attempt
    <3> QED
      BY <2>3, <3>1, <3>3 DEF GidOf, Paid, Succeeded
  <2> QED
    BY <2>2, <2>3, EventIds
<1>2. PICK g \in Gids : g = GidOf(e)
  BY <1>1
<1>3. tx[g] # Null
  <2>1. PICK k \in Pays : Succeeded(g, k)
    BY <1>1, <1>2 DEF Paid
  <2>2. attempt[k] \in Attempt /\ attempt[k].gid = g
    BY <2>1 DEF Succeeded, Attempt
  <2> QED
    BY <2>2, RecordAssumption DEF Inv, References
<1>4. CASE tx[g].status = "CAPTURED"
  <2>1. Announced(g, "ORDER_CAPTURED")
    <3>1. outbox[g] \in Seq(PAYMENT_EVENTS) /\ outbox[g] # <<>> /\ LastEvent(g) = "ORDER_CAPTURED"
      BY <1>3, <1>4 DEF Inv, StatusAnnounced, TypeOK
    <3>2. Len(outbox[g]) \in 1..Len(outbox[g])
      BY <3>1
    <3> QED
      BY <3>1, <3>2 DEF Announced, LastEvent
  <2>2. Safe(e)
    BY <1>1, <1>2, <2>1, EventKinds DEF Safe
  <2> QED
    BY <1>2, <1>4, <2>2, ReplyStart DEF WebhookCaptured, Events
<1>5. CASE tx[g].status # "CAPTURED"
  <2>1. PICK k \in PayloadOf(e) :
          /\ req' = [req EXCEPT ![p] = [Idle EXCEPT !.pc  = "captureRead",
                                                    !.ev  = e,
                                                    !.gid = g,
                                                    !.ent = capture(tx[g], k)]]
          /\ UNCHANGED <<gwVars, dbVars, acked, aborts>>
    BY <1>2, <1>3, <1>5 DEF WebhookCaptured
  <2>2. /\ k \in Pays \cup {Null}
        /\ k # Null => Succeeded(g, k)
        /\ ~BareOrderPaid => k # Null
    <3>1. CASE e.type = "order.paid" /\ e.id \in Gids
      BY <1>2, <2>1, <3>1, NullAssumption DEF PayloadOf, GidOf
    <3>2. CASE e.type = "payment.captured" /\ e.id \in Pays
      BY <1>1, <1>2, <2>1, <3>2, NullAssumption DEF PayloadOf
    <3> QED
      BY <3>1, <3>2, EventIds
  <2> DEFINE c == capture(tx[g], k)
             h == [Idle EXCEPT !.pc = "captureRead", !.ev = e, !.gid = g, !.ent = c]
  <2>3. c \in TxRow
    BY <1>3, <1>5, <2>2, CaptureRow DEF Inv, TypeOK
  <2>4. req' = [req EXCEPT ![p] = h]
    BY <2>1
  <2> HIDE DEF c
  <2>5. h \in Request /\ h.pc = "captureRead" /\ h.ev = e /\ h.gid = g /\ h.ent = c
    BY <2>3 DEF Idle, Request, Steps, Events
  <2> HIDE DEF h
  <2>6. Paid(g) /\ h.ent = capture(tx[g], k)
    BY <1>1, <1>2, <2>5 DEF c
  <2>7. h.ev # Null => /\ h.ev \in CapturedEvents
                       /\ h.ev.type = "payment.captured" => attempt[h.ev.id] # Null
                       /\ GidOf(h.ev) = g
    BY <1>1, <1>2, <2>5
  <2>8. UNCHANGED <<gwVars, dbVars, acked, aborts>>
    BY <2>1
  <2>9. h \in Request /\ h.pc = "captureRead" /\ h.gid = g
    BY <2>5
  <2> QED
    BY <1>3, <1>5, <2>2, <2>4, <2>6, <2>7, <2>8, <2>9, CaptureStart
<1> QED
  BY <1>4, <1>5

\* A step to the next await of the same handler.
LEMMA PcStep ==
    ASSUME Inv, NEW p \in Procs, NEW s \in Steps, s # "createRow",
           req' = [req EXCEPT ![p].pc = s],
           HandlerOK([req[p] EXCEPT !.pc = s]),
           UNCHANGED <<gwVars, dbVars, acked, aborts>>
    PROVE  Inv'
<1>1. PICK h : h = [req[p] EXCEPT !.pc = s]
  OBVIOUS
<1>2. req[p] \in Request /\ aborts' \in Nat
  BY DEF Inv, TypeOK
<1>3. h \in Request /\ h.pc = s
  BY <1>1, <1>2 DEF Request
<1>4. req' = [req EXCEPT ![p] = h]
  BY <1>1
<1> QED
  BY <1>1, <1>2, <1>3, <1>4, LocalStep

\* A captured row was announced.
LEMMA CapturedAnnounced ==
    ASSUME Inv, NEW g \in Gids, tx[g] # Null, tx[g].status = "CAPTURED"
    PROVE  Announced(g, "ORDER_CAPTURED")
<1>1. outbox[g] \in Seq(PAYMENT_EVENTS) /\ outbox[g] # <<>> /\ LastEvent(g) = "ORDER_CAPTURED"
  BY DEF Inv, StatusAnnounced, TypeOK
<1>2. Len(outbox[g]) \in 1..Len(outbox[g])
  BY <1>1
<1> QED
  BY <1>1, <1>2 DEF Announced, LastEvent

\* captureOrderPaymentWithOutbox, the read: a captured row is acknowledged.
LEMMA CaptureReadStep ==
    ASSUME Inv, NEW p \in Procs, CaptureRead(p)
    PROVE  Inv'
<1>0. PICK h \in Request : h = req[p]
  BY DEF Inv, TypeOK
<1>1. /\ h.pc = "captureRead" /\ h.gid \in Gids /\ Capturing(h)
      /\ UNCHANGED <<gwVars, dbVars, acked, aborts>>
  BY <1>0 DEF CaptureRead, Inv, Handlers, HandlerOK, Capturing, CaptureSteps, Request
<1>2. CASE tx[h.gid].status = "CAPTURED"
  <2>1. PICK n : n = [h EXCEPT !.pc = "reply"]
    OBVIOUS
  <2>2. n.pc = "reply" /\ n.ev = h.ev
    BY <2>1 DEF Request
  <2>3. Safe(h.ev)
    BY <1>1, <1>2, CapturedAnnounced, EventKinds DEF Safe, Capturing, CaptureSteps
  <2>4. HandlerOK(n)
    BY <2>2, <2>3 DEF HandlerOK, Creating, Capturing, Failing, Refunding, Syncing,
                      CaptureSteps, FailSteps, RefundSteps, SyncSteps
  <2>5. req' = [req EXCEPT ![p].pc = "reply"]
    BY <1>0, <1>2 DEF CaptureRead
  <2> QED
    BY <1>0, <1>1, <2>1, <2>4, <2>5, PcStep DEF Steps
<1>3. CASE tx[h.gid].status # "CAPTURED"
  <2>1. PICK n : n = [h EXCEPT !.pc = "captureWrite"]
    OBVIOUS
  <2>2. n.pc = "captureWrite" /\ n.ev = h.ev /\ n.gid = h.gid /\ n.ent = h.ent
    BY <2>1 DEF Request
  <2>3. Capturing(n)
    BY <1>1, <2>2 DEF Capturing, CaptureSteps
  <2>4. HandlerOK(n)
    BY <2>2, <2>3 DEF HandlerOK, Creating, Failing, Refunding, Syncing,
                      FailSteps, RefundSteps, SyncSteps
  <2>5. req' = [req EXCEPT ![p].pc = "captureWrite"]
    BY <1>0, <1>3 DEF CaptureRead
  <2> QED
    BY <1>0, <1>1, <2>1, <2>4, <2>5, PcStep DEF Steps
<1> QED
  BY <1>2, <1>3

\* The failed webhook: the attempt failed, and markFailed gives a FAILED entity
\* unless the row is captured.
LEMMA WebhookFailedStep ==
    ASSUME Inv, NEW p \in Procs, NEW e \in FailedEvents, WebhookFailed(p, e)
    PROVE  Inv'
<1>1. /\ attempt[e.id] # Null
      /\ attempt[e.id].gid \in Gids
      /\ FailedAttempt(attempt[e.id].gid, e.id)
  <2>1. e.id \in Pays /\ attempt[e.id] # Null /\ ~attempt[e.id].ok
    BY EventIds DEF WebhookFailed, Occurred
  <2>2. attempt[e.id] \in Attempt
    BY <2>1 DEF Inv, TypeOK
  <2> QED
    BY <2>1, <2>2 DEF FailedAttempt, Attempt
<1>2. PICK g \in Gids : g = attempt[e.id].gid
  BY <1>1
<1>3. tx[g] # Null /\ tx[g] \in TxRow /\ tx[g].status # "SUCCESS"
  BY <1>1, <1>2, EventIds DEF Inv, References, TypeOK, TxFacts
<1>4. CASE tx[g].status = "CAPTURED"
  <2>1. Safe(e)
    BY <1>1, <1>2, <1>3, <1>4, EventKinds DEF Safe, Inv, StatusAnnounced
  <2>2. /\ req' = [req EXCEPT ![p] = [Idle EXCEPT !.pc = "reply", !.ev = e]]
        /\ UNCHANGED <<gwVars, dbVars, acked, aborts>>
    BY <1>2, <1>4 DEF WebhookFailed
  <2> QED
    BY <2>1, <2>2, ReplyStart DEF Events
<1>5. CASE tx[g].status # "CAPTURED"
  <2> DEFINE c == markFailed(tx[g])
             h == [Idle EXCEPT !.pc = "failRead", !.ev = e, !.gid = g, !.ent = c]
  <2>1. c \in TxRow /\ c.status = "FAILED"
    BY <1>3, <1>5 DEF markFailed, TxRow, PaymentStatus
  <2>2. req' = [req EXCEPT ![p] = h] /\ UNCHANGED <<gwVars, dbVars, acked, aborts>>
    BY <1>2, <1>3, <1>5 DEF WebhookFailed
  <2> HIDE DEF c
  <2>3. h \in Request /\ h.pc = "failRead" /\ h.ev = e /\ h.gid = g /\ h.ent = c
    BY <2>1 DEF Idle, Request, Steps, Events
  <2> HIDE DEF h
  <2>4. Failing(h)
    BY <1>1, <1>2, <1>3, <2>1, <2>3, RecordAssumption, NullAssumption DEF Failing
  <2>5. HandlerOK(h)
    BY <2>3, <2>4 DEF HandlerOK, Creating, Capturing, Refunding, Syncing,
                      CaptureSteps, RefundSteps, SyncSteps
  <2>6. aborts' \in Nat
    BY <2>2 DEF Inv, TypeOK
  <2> QED
    BY <2>2, <2>3, <2>5, <2>6, LocalStep
<1> QED
  BY <1>4, <1>5

\* failOrderPaymentWithOutbox, the read: a settled row is acknowledged.
LEMMA FailReadStep ==
    ASSUME Inv, NEW p \in Procs, FailRead(p)
    PROVE  Inv'
<1>0. PICK h \in Request : h = req[p]
  BY DEF Inv, TypeOK
<1>1. /\ h.pc = "failRead" /\ h.gid \in Gids /\ Failing(h)
      /\ UNCHANGED <<gwVars, dbVars, acked, aborts>>
  BY <1>0 DEF FailRead, Inv, Handlers, HandlerOK, Failing, FailSteps, Request
<1>2. CASE tx[h.gid].status \in {"CAPTURED", "SUCCESS", "FAILED"}
  <2>1. PICK n : n = [h EXCEPT !.pc = "reply"]
    OBVIOUS
  <2>2. n.pc = "reply" /\ n.ev = h.ev
    BY <2>1 DEF Request
  <2>3. outbox[h.gid] # <<>> /\ h.ev \in FailedEvents /\ FailedAttempt(h.gid, h.ev.id)
    BY <1>1, <1>2 DEF Failing, FailSteps, Inv, StatusAnnounced, TxFacts
  <2>4. attempt[h.ev.id] # Null /\ attempt[h.ev.id].gid = h.gid
    <3>1. [gid |-> h.gid, ok |-> FALSE] \in Attempt
      BY <1>1 DEF Attempt
    <3>2. attempt[h.ev.id] = [gid |-> h.gid, ok |-> FALSE]
      BY <2>3 DEF FailedAttempt
    <3>3. attempt[h.ev.id].gid = h.gid
      BY <3>2
    <3> QED
      BY <3>1, <3>2, <3>3, RecordAssumption, Zenon
  <2>5. Safe(h.ev)
    BY <2>3, <2>4, EventKinds DEF Safe
  <2>6. HandlerOK(n)
    BY <2>2, <2>5 DEF HandlerOK, Creating, Capturing, Failing, Refunding, Syncing,
                      CaptureSteps, FailSteps, RefundSteps, SyncSteps
  <2>7. req' = [req EXCEPT ![p].pc = "reply"]
    BY <1>0, <1>2 DEF FailRead
  <2> QED
    BY <1>0, <1>1, <2>1, <2>6, <2>7, PcStep DEF Steps
<1>3. CASE tx[h.gid].status \notin {"CAPTURED", "SUCCESS", "FAILED"}
  <2>1. PICK n : n = [h EXCEPT !.pc = "failWrite"]
    OBVIOUS
  <2>2. n.pc = "failWrite" /\ n.ev = h.ev /\ n.gid = h.gid /\ n.ent = h.ent
    BY <2>1 DEF Request
  <2>3. Failing(n)
    BY <1>1, <2>2 DEF Failing, FailSteps
  <2>4. HandlerOK(n)
    BY <2>2, <2>3 DEF HandlerOK, Creating, Capturing, Refunding, Syncing,
                      CaptureSteps, RefundSteps, SyncSteps
  <2>5. req' = [req EXCEPT ![p].pc = "failWrite"]
    BY <1>0, <1>3 DEF FailRead
  <2> QED
    BY <1>0, <1>1, <2>1, <2>4, <2>5, PcStep DEF Steps
<1> QED
  BY <1>2, <1>3

\* The refund request: a captured transaction with a payment id was paid and
\* announced.
LEMMA RefundReadStep ==
    ASSUME Inv, NEW p \in Procs, NEW o \in Orders, RefundRead(p, o)
    PROVE  Inv'
<1>1. PICK g \in Gids : g = latest[o]
  BY DEF RefundRead, Inv, TypeOK
<1>2. tx[g] # Null
  BY <1>1, NullAssumption DEF Inv, References
<1>3. PICK c \in TxRow : c = tx[g]
  BY <1>2 DEF Inv, TypeOK
<1>4. /\ c.paymentId # Null
      /\ Succeeded(g, c.paymentId)
      /\ Announced(g, "ORDER_CAPTURED")
  BY <1>1, <1>2, <1>3 DEF RefundRead, assertCanRefund, Inv, TxFacts
<1> DEFINE h == [Idle EXCEPT !.pc = "refundCall", !.gid = g, !.ent = c]
<1>5. req' = [req EXCEPT ![p] = h] /\ UNCHANGED <<gwVars, dbVars, acked, aborts>>
  BY <1>1, <1>3 DEF RefundRead
<1>6. h \in Request /\ h.pc = "refundCall" /\ h.gid = g /\ h.ent = c
  BY DEF Idle, Request, Steps
<1> HIDE DEF h
<1>7. c # Null /\ g # Null
  BY RecordAssumption, NullAssumption
<1>8. Refunding(h)
  BY <1>2, <1>3, <1>4, <1>6, <1>7 DEF Refunding
<1>9. HandlerOK(h)
  BY <1>6, <1>8 DEF HandlerOK, Creating, Capturing, Failing, Syncing,
                    CaptureSteps, FailSteps, SyncSteps
<1>10. aborts' \in Nat
  BY <1>5 DEF Inv, TypeOK
<1> QED
  BY <1>5, <1>6, <1>9, <1>10, LocalStep

\* processOrderRefund, the read.
LEMMA RefundTxReadStep ==
    ASSUME Inv, NEW p \in Procs, RefundTxRead(p)
    PROVE  Inv'
<1>0. PICK h \in Request : h = req[p]
  BY DEF Inv, TypeOK
<1>1. /\ h.pc = "refundRead" /\ h.gid \in Gids /\ Refunding(h)
      /\ UNCHANGED <<gwVars, dbVars, acked, aborts>>
  BY <1>0 DEF RefundTxRead, Inv, Handlers, HandlerOK, Refunding, RefundSteps, Request
<1>2. CASE tx[h.gid].status = "REFUNDED"
  <2>1. req' = [req EXCEPT ![p] = Idle] /\ aborts' \in Nat
    BY <1>0, <1>1, <1>2 DEF RefundTxRead, Inv, TypeOK
  <2> QED
    BY <1>1, <2>1, IdleOK, LocalStep
<1>3. CASE tx[h.gid].status # "REFUNDED"
  <2>1. PICK n : n = [h EXCEPT !.pc = "refundWrite"]
    OBVIOUS
  <2>2. /\ n.pc = "refundWrite" /\ n.gid = h.gid /\ n.ent = h.ent
        /\ n.ref = h.ref /\ n.rst = h.rst
    BY <2>1 DEF Request
  <2>3. Refunding(n)
    BY <1>1, <2>2 DEF Refunding, RefundSteps
  <2>4. HandlerOK(n)
    BY <2>2, <2>3 DEF HandlerOK, Creating, Capturing, Failing, Syncing,
                      CaptureSteps, FailSteps, SyncSteps
  <2>5. req' = [req EXCEPT ![p].pc = "refundWrite"]
    BY <1>0, <1>3 DEF RefundTxRead
  <2> QED
    BY <1>0, <1>1, <2>1, <2>4, <2>5, PcStep DEF Steps
<1> QED
  BY <1>2, <1>3

\* The refund webhooks carry the final status of a refund of the gateway.
LEMMA WebhookRefundStep ==
    ASSUME Inv, NEW p \in Procs, NEW e \in RefundEvents, WebhookRefund(p, e)
    PROVE  Inv'
<1> DEFINE s == IF refund[e.id] # Null THEN "syncUpdate" ELSE "syncCreate"
           f == IF e.type = "refund.processed" THEN "PROCESSED" ELSE "FAILED"
           h == [Idle EXCEPT !.pc = s, !.ev = e, !.ref = e.id, !.rst = f]
<1>1. e.id \in Refs /\ gwRefund[e.id] # Null /\ gwRefund[e.id].status = f
  BY EventIds DEF WebhookRefund, Occurred
<1>2. req' = [req EXCEPT ![p] = h] /\ UNCHANGED <<gwVars, dbVars, acked, aborts>>
  BY DEF WebhookRefund
<1>3. /\ s \in SyncSteps
      /\ s = "syncUpdate" => refund[e.id] # Null
      /\ f \in {"PROCESSED", "FAILED"}
  BY DEF SyncSteps
<1> HIDE DEF s, f
<1>4. h \in Request /\ h.pc = s /\ h.ev = e /\ h.ref = e.id /\ h.rst = f
  BY <1>1, <1>3 DEF Idle, Request, Steps, Events, RefundStatus, SyncSteps
<1> HIDE DEF h
<1>5. Syncing(h)
  BY <1>1, <1>3, <1>4, NullAssumption DEF Syncing
<1>6. HandlerOK(h)
  BY <1>3, <1>4, <1>5 DEF HandlerOK, Creating, Capturing, Failing, Refunding,
                          CaptureSteps, FailSteps, RefundSteps, SyncSteps
<1>7. aborts' \in Nat /\ h.pc # "createRow"
  BY <1>2, <1>3, <1>4 DEF Inv, TypeOK, SyncSteps
<1> QED
  BY <1>2, <1>4, <1>6, <1>7, LocalStep

\* The answer: what is acknowledged is safe.
LEMMA ReplyStep ==
    ASSUME Inv, NEW p \in Procs, Reply(p)
    PROVE  Inv'
<1>0. PICK h \in Request : h = req[p]
  BY DEF Inv, TypeOK
<1>1. /\ h.pc = "reply" /\ Safe(h.ev) /\ h.ev \in Events \cup {Null}
      /\ acked' = IF h.ev = Null THEN acked ELSE acked \cup {h.ev}
      /\ req' = [req EXCEPT ![p] = Idle]
      /\ UNCHANGED <<gwVars, dbVars, aborts>>
  BY <1>0 DEF Reply, Inv, Handlers, HandlerOK, Request
<1> USE DEF gwVars, dbVars
<1>2. Grow
  BY <1>1, NoChangeGrows
<1>3. TypeOK'
  BY <1>1, IdleOK DEF Inv, TypeOK
<1>4. Handlers'
  BY <1>1, <1>2, IdleOK, HandlerStays, HandlersStep DEF Inv
<1>5. FreshRow'
  BY <1>1, IdleOK DEF Inv, FreshRow, TypeOK
<1>6. References' /\ PaidOnce' /\ TxFacts'
  BY <1>1 DEF Inv, References, PaidOnce, TxFacts, Succeeded, Announced
<1>7. RefundFacts'
  BY <1>1 DEF Inv, RefundFacts, Announced, TxOfPayment
<1>8. AckedSafe'
  BY <1>1, <1>2, SafeStays DEF Inv, AckedSafe
<1>9. StatusAnnounced' /\ CaptureBacked'
  BY <1>1 DEF Inv, StatusAnnounced, CaptureBacked, LastEvent, Announced, Paid, Succeeded
<1>10. RefundLedger'
  BY <1>1 DEF Inv, RefundLedger, Succeeded
<1> QED
  BY <1>3, <1>4, <1>5, <1>6, <1>7, <1>8, <1>9, <1>10 DEF Inv

-----------------------------------------------------------------------------
(***************************************************************************)
(* The steps of the gateway.                                               *)
(***************************************************************************)
\* A new gateway order belongs to the handler that asked for it.
LEMMA CreateCallStep ==
    ASSUME Inv, NEW p \in Procs, NEW g \in Gids, CreateCall(p, g)
    PROVE  Inv'
<1>0. PICK h \in Request : h = req[p]
  BY DEF Inv, TypeOK
<1>1. /\ h.pc = "createCall" /\ h.ask # Null /\ h.ask \in GwOrder
      /\ gwOrder[g] = Null
      /\ gwOrder' = [gwOrder EXCEPT ![g] = h.ask]
      /\ req' = [req EXCEPT ![p].pc = "createRow", ![p].gid = g]
      /\ UNCHANGED <<attempt, gwRefund, acked, tx, latest, refund, outbox, aborts>>
  BY <1>0 DEF CreateCall, Inv, Handlers, HandlerOK, Creating, Request, dbVars
<1>2. PICK n : n = [h EXCEPT !.pc = "createRow", !.gid = g]
  OBVIOUS
<1>3. n \in Request /\ n.pc = "createRow" /\ n.gid = g /\ n.ask = h.ask
  BY <1>2 DEF Request, Steps
<1>4. req' = [req EXCEPT ![p] = n]
  BY <1>0, <1>1, <1>2 DEF Inv, TypeOK, Request
<1>5. Grow
  BY <1>1 DEF Grow, Announced, Inv, TypeOK
<1>6. TypeOK'
  BY <1>1, <1>3, <1>4 DEF Inv, TypeOK
<1>7. HandlerOK(n)'
  <2>1. gwOrder'[g] # Null /\ g # Null
    BY <1>1, NullAssumption DEF Inv, TypeOK
  <2> QED
    BY <1>1, <1>3, <2>1 DEF HandlerOK, Creating, Capturing, Failing, Refunding, Syncing,
                            CaptureSteps, FailSteps, RefundSteps, SyncSteps
<1>8. Handlers'
  BY <1>4, <1>5, <1>7, HandlersStep DEF Inv
<1>9. FreshRow'
  <2>1. tx[g] = Null
    BY <1>1 DEF Inv, References
  <2>2. \A q \in Procs : req[q].pc = "createRow" => req[q].gid # g
    BY <1>1 DEF Inv, Handlers, HandlerOK, Creating
  <2>3. \A q \in Procs \ {p} : req'[q] = req[q]
    BY <1>4 DEF Inv, TypeOK
  <2>4. req'[p].gid = g
    BY <1>3, <1>4 DEF Inv, TypeOK
  <2>5. ASSUME NEW q \in Procs, req'[q].pc = "createRow"
        PROVE  tx'[req'[q].gid] = Null
    BY <1>1, <2>1, <2>3, <2>4, <2>5 DEF Inv, FreshRow
  <2>6. ASSUME NEW q \in Procs, NEW v \in Procs,
               req'[q].pc = "createRow", req'[v].pc = "createRow", req'[q].gid = req'[v].gid
        PROVE  q = v
    <3>1. CASE q # p /\ v # p
      BY <2>3, <2>6, <3>1 DEF Inv, FreshRow
    <3>2. CASE q = p \/ v = p
      BY <2>2, <2>3, <2>4, <2>6, <3>2
    <3> QED
      BY <3>1, <3>2
  <2> QED
    BY <2>5, <2>6 DEF FreshRow
<1>10. References'
  BY <1>1, <1>5 DEF Inv, References, Grow
<1>11. PaidOnce' /\ TxFacts'
  BY <1>1 DEF Inv, PaidOnce, TxFacts, Succeeded, Announced
<1>12. RefundFacts'
  BY <1>1 DEF Inv, RefundFacts, Announced, TxOfPayment
<1>13. AckedSafe'
  BY <1>1, <1>5, SafeStays DEF Inv, AckedSafe
<1>14. StatusAnnounced' /\ CaptureBacked'
  BY <1>1 DEF Inv, StatusAnnounced, CaptureBacked, LastEvent, Announced, Paid, Succeeded
<1>15. RefundLedger'
  BY <1>1 DEF Inv, RefundLedger, Succeeded
<1> QED
  BY <1>6, <1>8, <1>9, <1>10, <1>11, <1>12, <1>13, <1>14, <1>15 DEF Inv

\* Handlers after a step in which no handler moves.
LEMMA HandlersRest ==
    ASSUME TypeOK, Handlers, Grow, req' = req
    PROVE  Handlers'
<1> SUFFICES ASSUME NEW q \in Procs
             PROVE  HandlerOK(req[q])'
  BY DEF Handlers
<1>1. PICK x \in Request : x = req[q]
  BY DEF TypeOK
<1>2. HandlerOK(x)'
  BY <1>1, HandlerStays DEF Handlers
<1> QED
  BY <1>1, <1>2 DEF HandlerOK, Creating, Capturing, Failing, Refunding, Syncing, Safe

\* An attempt is made on an order that has a row and was not paid.
LEMMA CustomerPaysStep ==
    ASSUME Inv, NEW k \in Pays, NEW g \in Gids, NEW ok \in BOOLEAN, CustomerPays(k, g, ok)
    PROVE  Inv'
<1>1. /\ attempt[k] = Null /\ tx[g] # Null /\ ~Paid(g)
      /\ attempt' = [attempt EXCEPT ![k] = [gid |-> g, ok |-> ok]]
      /\ UNCHANGED <<gwOrder, gwRefund, acked, tx, latest, refund, outbox, req, aborts>>
  BY DEF CustomerPays, dbVars
<1>2. PICK a \in Attempt : a = [gid |-> g, ok |-> ok]
  BY DEF Attempt
<1>3. attempt' = [attempt EXCEPT ![k] = a] /\ a.gid = g /\ a # Null
  BY <1>1, <1>2, RecordAssumption
<1>4. Grow
  BY <1>1, <1>3 DEF Grow, Announced, Inv, TypeOK
<1>5. TypeOK'
  BY <1>1, <1>3 DEF Inv, TypeOK
<1>6. Handlers'
  BY <1>1, <1>4, HandlersRest DEF Inv
<1>7. FreshRow'
  BY <1>1 DEF Inv, FreshRow
<1>8. References'
  BY <1>1, <1>3 DEF Inv, References, TypeOK
<1>9. PaidOnce'
  <2> SUFFICES ASSUME NEW x \in Gids, NEW l \in Pays, NEW m \in Pays,
                      Succeeded(x, l)', Succeeded(x, m)', l # m
               PROVE  FALSE
    BY DEF PaidOnce
  <2>1. ASSUME NEW y \in Pays \ {k}, Succeeded(x, y)'
        PROVE  Succeeded(x, y)
    BY <1>3, <2>1 DEF Succeeded, Inv, TypeOK
  <2>2. ASSUME Succeeded(x, k)'
        PROVE  x = g
    <3>1. a = [gid |-> x, ok |-> TRUE]
      BY <1>3, <2>2 DEF Succeeded, Inv, TypeOK
    <3> QED
      BY <1>3, <3>1
  <2>3. CASE l # k /\ m # k
    BY <2>1, <2>3 DEF Inv, PaidOnce
  <2>4. CASE l = k \/ m = k
    BY <1>1, <2>1, <2>2, <2>4 DEF Paid
  <2> QED
    BY <2>3, <2>4
<1>10. TxFacts'
  <2> SUFFICES ASSUME NEW x \in Gids, tx[x] # Null, tx[x].paymentId # Null
               PROVE  Succeeded(x, tx[x].paymentId)' /\ Announced(x, "ORDER_CAPTURED")'
    BY <1>1 DEF Inv, TxFacts
  <2>1. PICK y \in Pays : y = tx[x].paymentId
    BY DEF Inv, TypeOK, TxRow
  <2>2. Succeeded(x, y)' /\ Announced(x, "ORDER_CAPTURED")'
    BY <1>1, <1>4, <2>1, AttemptsStay DEF Inv, TxFacts, Announced
  <2> QED
    BY <1>1, <2>1, <2>2 DEF Succeeded
<1>11. RefundFacts'
  BY <1>1 DEF Inv, RefundFacts, Announced, TxOfPayment
<1>12. AckedSafe'
  BY <1>1, <1>4, SafeStays DEF Inv, AckedSafe
<1>13. StatusAnnounced'
  BY <1>1 DEF Inv, StatusAnnounced, LastEvent, Announced
<1>14. CaptureBacked'
  <2> SUFFICES ASSUME NEW x \in Gids
               PROVE  /\ Announced(x, "ORDER_CAPTURED")' => Paid(x)'
                      /\ Announced(x, "ORDER_FAILED")' => \E y \in Pays : FailedAttempt(x, y)'
                      /\ tx'[x] # Null /\ tx'[x].status \in {"CAPTURED", "REFUNDED"} => Paid(x)'
                      /\ tx'[x] # Null /\ tx'[x].paymentId # Null => Succeeded(x, tx[x].paymentId)'
    BY DEF CaptureBacked, FailedAttempt
  <2>1. Paid(x) => Paid(x)'
    BY <1>4, AttemptsStay DEF Inv
  <2>2. \A y \in Pays : FailedAttempt(x, y) => FailedAttempt(x, y)'
    BY <1>4, AttemptsStay DEF Inv
  <2>3. tx'[x] # Null /\ tx'[x].paymentId # Null => Succeeded(x, tx[x].paymentId)'
    BY <1>10 DEF TxFacts
  <2> QED
    BY <1>1, <2>1, <2>2, <2>3 DEF Inv, CaptureBacked, Announced, FailedAttempt
<1>15. RefundLedger'
  <2> SUFFICES ASSUME NEW r \in Refs, refund[r] # Null
               PROVE  Succeeded(refund[r].gid, gwRefund[r].pay)'
    BY <1>1 DEF Inv, RefundLedger
  <2>1. PICK x \in Gids, y \in Pays : x = refund[r].gid /\ y = gwRefund[r].pay
    BY DEF Inv, RefundLedger, TypeOK, RefundRow, GwRefund
  <2>2. Succeeded(x, y)'
    BY <1>4, <2>1, AttemptsStay DEF Inv, RefundLedger
  <2> QED
    BY <1>1, <2>1, <2>2 DEF Succeeded
<1> QED
  BY <1>5, <1>6, <1>7, <1>8, <1>9, <1>10, <1>11, <1>12, <1>13, <1>14, <1>15 DEF Inv

\* Refunds at the gateway are made and settled: the tables do not change.
LEMMA GatewayRefundStep ==
    ASSUME Inv, TypeOK', Grow, Handlers', FreshRow',
           ~BareOrderPaid => \A r \in Refs : gwRefund'[r] # Null =>
               TxOfPayment(gwRefund'[r].pay) # {},
           UNCHANGED <<gwOrder, attempt, acked, tx, latest, refund, outbox>>
    PROVE  Inv'
<1>1. References' /\ PaidOnce' /\ TxFacts'
  BY DEF Inv, References, PaidOnce, TxFacts, Succeeded, Announced
<1>2. RefundFacts'
  BY DEF Inv, RefundFacts, Announced, TxOfPayment
<1>3. AckedSafe'
  BY SafeStays DEF Inv, AckedSafe
<1>4. StatusAnnounced' /\ CaptureBacked'
  BY DEF Inv, StatusAnnounced, CaptureBacked, LastEvent, Announced, Paid, Succeeded
<1>5. RefundLedger'
  <2> SUFFICES ASSUME NEW r \in Refs, refund[r] # Null
               PROVE  /\ gwRefund'[r] # Null
                      /\ Succeeded(refund[r].gid, gwRefund'[r].pay)
                      /\ refund[r].status # "PENDING" => refund[r].status = gwRefund'[r].status
    BY DEF Inv, RefundLedger, Succeeded
  <2>1. /\ gwRefund[r] # Null
        /\ Succeeded(refund[r].gid, gwRefund[r].pay)
        /\ refund[r].status # "PENDING" => refund[r].status = gwRefund[r].status
    BY DEF Inv, RefundLedger
  <2>2. /\ gwRefund'[r] # Null
        /\ gwRefund'[r].pay = gwRefund[r].pay
        /\ gwRefund[r].status # "PENDING" => gwRefund'[r].status = gwRefund[r].status
    BY <2>1 DEF Grow
  <2> QED
    BY <2>1, <2>2
<1> QED
  BY <1>1, <1>2, <1>3, <1>4, <1>5 DEF Inv

\* A pending refund settles.
LEMMA RefundSettlesStep ==
    ASSUME Inv, NEW r \in Refs, NEW s \in {"PROCESSED", "FAILED"}, RefundSettles(r, s)
    PROVE  Inv'
<1>1. /\ gwRefund[r] # Null /\ gwRefund[r].status = "PENDING"
      /\ gwRefund' = [gwRefund EXCEPT ![r].status = s]
      /\ UNCHANGED <<gwOrder, attempt, acked, tx, latest, refund, outbox, req, aborts>>
  BY DEF RefundSettles, dbVars
<1>2. PICK old \in GwRefund : old = gwRefund[r]
  BY <1>1 DEF Inv, TypeOK
<1>3. PICK new : new = [old EXCEPT !.status = s]
  OBVIOUS
<1>4. new \in GwRefund /\ new.pay = old.pay /\ new # Null
  <2>1. new \in GwRefund /\ new.pay = old.pay
    BY <1>3 DEF GwRefund, RefundStatus
  <2> QED
    BY <2>1, RecordAssumption
<1>5. gwRefund' = [gwRefund EXCEPT ![r] = new]
  BY <1>1, <1>2, <1>3
<1>6. TypeOK'
  BY <1>1, <1>4, <1>5 DEF Inv, TypeOK
<1>7. \A x \in Refs : gwRefund[x] # Null =>
          /\ gwRefund'[x] # Null
          /\ gwRefund'[x].pay = gwRefund[x].pay
          /\ gwRefund[x].status # "PENDING" => gwRefund'[x].status = gwRefund[x].status
  BY <1>1, <1>2, <1>4, <1>5 DEF Inv, TypeOK
<1>8. Grow
  BY <1>1, <1>7 DEF Grow, Announced
<1>9. Handlers'
  BY <1>1, <1>8, HandlersRest DEF Inv
<1>10. FreshRow'
  BY <1>1 DEF Inv, FreshRow
<1>11. \A x \in Refs : gwRefund'[x] # Null =>
          gwRefund[x] # Null /\ gwRefund'[x].pay = gwRefund[x].pay
  BY <1>1, <1>2, <1>4, <1>5 DEF Inv, TypeOK
<1>12. ~BareOrderPaid => \A x \in Refs : gwRefund'[x] # Null =>
          TxOfPayment(gwRefund'[x].pay) # {}
  BY <1>11 DEF Inv, RefundFacts
<1> QED
  BY <1>1, <1>6, <1>8, <1>9, <1>10, <1>12, GatewayRefundStep

\* The gateway makes a refund of the payment that the handler loaded.
LEMMA RefundMade ==
    ASSUME Inv, NEW p \in Procs, NEW r \in Refs, NEW s \in RefundStatus,
           req[p].pc = "refundCall", gwRefund[r] = Null,
           gwRefund' = [gwRefund EXCEPT ![r] = [pay |-> req[p].ent.paymentId, status |-> s]],
           UNCHANGED <<gwOrder, attempt, acked, tx, latest, refund, outbox, aborts>>
    PROVE  /\ Grow
           /\ gwRefund' \in [Refs -> GwRefund \cup {Null}]
           /\ gwRefund'[r] # Null
           /\ gwRefund'[r].pay = req[p].ent.paymentId
           /\ gwRefund'[r].status = s
           /\ ~BareOrderPaid => \A x \in Refs : gwRefund'[x] # Null =>
                  TxOfPayment(gwRefund'[x].pay) # {}
<1>0. PICK h \in Request : h = req[p]
  BY DEF Inv, TypeOK
<1>1. h.gid \in Gids /\ h.ent \in TxRow /\ h.ent.paymentId # Null /\ Refunding(h)
  BY <1>0 DEF Inv, Handlers, HandlerOK, Refunding, RefundSteps, Request
<1>2. PICK k \in Pays : k = h.ent.paymentId
  BY <1>1 DEF TxRow
<1>3. PICK new \in GwRefund : new = [pay |-> k, status |-> s]
  BY DEF GwRefund
<1>4. new.pay = k /\ new.status = s /\ new # Null
  BY <1>3, RecordAssumption
<1>5. gwRefund' = [gwRefund EXCEPT ![r] = new]
  BY <1>0, <1>2, <1>3
<1>6. gwRefund' \in [Refs -> GwRefund \cup {Null}] /\ gwRefund'[r] = new
  BY <1>5 DEF Inv, TypeOK
<1>7. \A x \in Refs \ {r} : gwRefund'[x] = gwRefund[x]
  BY <1>5 DEF Inv, TypeOK
<1>8. Grow
  BY <1>7 DEF Grow, Announced
<1>9. ~BareOrderPaid => h.gid \in TxOfPayment(k)
  BY <1>0, <1>1, <1>2 DEF Refunding, RefundSteps, TxOfPayment
<1>10. ~BareOrderPaid => \A x \in Refs : gwRefund'[x] # Null =>
          TxOfPayment(gwRefund'[x].pay) # {}
  BY <1>4, <1>6, <1>7, <1>9 DEF Inv, RefundFacts
<1> QED
  BY <1>0, <1>2, <1>4, <1>6, <1>8, <1>10

\* createRefund throws although the refund was made.
LEMMA RefundAnswerLostStep ==
    ASSUME Inv, NEW p \in Procs, NEW r \in Refs, RefundAnswerLost(p, r)
    PROVE  Inv'
<1>1. /\ req[p].pc = "refundCall" /\ gwRefund[r] = Null
      /\ gwRefund' = [gwRefund EXCEPT ![r] = [pay    |-> req[p].ent.paymentId,
                                              status |-> "PENDING"]]
      /\ req' = [req EXCEPT ![p] = Idle]
      /\ UNCHANGED <<gwOrder, attempt, acked, tx, latest, refund, outbox, aborts>>
  BY DEF RefundAnswerLost, dbVars
<1>2. /\ Grow
      /\ gwRefund' \in [Refs -> GwRefund \cup {Null}]
      /\ ~BareOrderPaid => \A x \in Refs : gwRefund'[x] # Null =>
              TxOfPayment(gwRefund'[x].pay) # {}
  BY <1>1, RefundMade DEF RefundStatus
<1>3. TypeOK'
  BY <1>1, <1>2, IdleOK DEF Inv, TypeOK
<1>4. Handlers'
  BY <1>1, <1>2, IdleOK, HandlerStays, HandlersStep DEF Inv
<1>5. FreshRow'
  BY <1>1, IdleOK DEF Inv, FreshRow, TypeOK
<1> QED
  BY <1>1, <1>2, <1>3, <1>4, <1>5, GatewayRefundStep

\* createRefund answers.
LEMMA RefundCallStep ==
    ASSUME Inv, NEW p \in Procs, NEW r \in Refs, NEW s \in RefundStatus, RefundCall(p, r, s)
    PROVE  Inv'
<1>0. PICK h \in Request : h = req[p]
  BY DEF Inv, TypeOK
<1> DEFINE f == IF s = "PROCESSED" THEN "PROCESSED" ELSE "PENDING"
<1>1. /\ req[p].pc = "refundCall" /\ h.pc = "refundCall" /\ gwRefund[r] = Null
      /\ gwRefund' = [gwRefund EXCEPT ![r] = [pay |-> req[p].ent.paymentId, status |-> s]]
      /\ UNCHANGED <<gwOrder, attempt, acked, tx, latest, refund, outbox, aborts>>
  BY <1>0 DEF RefundCall, dbVars
<1>2. /\ Grow
      /\ gwRefund' \in [Refs -> GwRefund \cup {Null}]
      /\ gwRefund'[r] # Null
      /\ gwRefund'[r].pay = h.ent.paymentId
      /\ gwRefund'[r].status = s
      /\ ~BareOrderPaid => \A x \in Refs : gwRefund'[x] # Null =>
              TxOfPayment(gwRefund'[x].pay) # {}
  BY <1>0, <1>1, RefundMade
<1>3. h.gid \in Gids /\ h.ent \in TxRow /\ HandlerOK(h)
  BY <1>0, <1>1 DEF Inv, Handlers, HandlerOK, Refunding, RefundSteps, Request
<1>4. PICK c : c = markRefunded(h.ent)
  OBVIOUS
<1>5. c \in TxRow /\ c.status = "REFUNDED" /\ c.paymentId = h.ent.paymentId /\ c # Null
  <2>1. c \in TxRow /\ c.status = "REFUNDED" /\ c.paymentId = h.ent.paymentId
    BY <1>3, <1>4 DEF markRefunded, TxRow, PaymentStatus
  <2> QED
    BY <2>1, RecordAssumption
<1>6. PICK n : n = [h EXCEPT !.pc = "refundRead", !.ref = r, !.rst = f, !.ent = c]
  OBVIOUS
<1>7. req' = [req EXCEPT ![p] = n]
  BY <1>0, <1>4, <1>6 DEF RefundCall, markRefunded
<1>8. /\ n \in Request /\ n.pc = "refundRead" /\ n.gid = h.gid /\ n.ent = c
      /\ n.ref = r /\ n.rst = f
  BY <1>5, <1>6 DEF Request, Steps, RefundStatus
<1>9. HandlerOK(n)'
  <2>1. Refunding(h)'
    BY <1>2, <1>3, HandlerStays DEF HandlerOK, Inv
  <2>2. f # Null /\ r # Null /\ (f # "PENDING" => f = s)
    BY RecordAssumption, NullAssumption DEF RefundStatus
  <2>3. Refunding(n)'
    BY <1>1, <1>2, <1>5, <1>8, <2>1, <2>2 DEF Refunding, RefundSteps
  <2> QED
    BY <1>8, <2>3 DEF HandlerOK, Creating, Capturing, Failing, Syncing,
                      CaptureSteps, FailSteps, SyncSteps
<1>10. TypeOK'
  BY <1>1, <1>2, <1>7, <1>8 DEF Inv, TypeOK
<1>11. Handlers'
  BY <1>2, <1>7, <1>9, HandlersStep DEF Inv
<1>12. FreshRow'
  BY <1>1, <1>7, <1>8 DEF Inv, FreshRow, TypeOK
<1> QED
  BY <1>1, <1>2, <1>10, <1>11, <1>12, GatewayRefundStep

-----------------------------------------------------------------------------
(***************************************************************************)
(* The steps that commit.                                                  *)
(***************************************************************************)
\* What is known of refunds stays, and holds of new rows if it is shown of them.
LEMMA RefundFactsStay ==
    ASSUME TypeOK, Grow, RefundFacts, gwRefund' = gwRefund,
           \A r \in Refs : refund'[r] # Null /\ refund[r] = Null =>
               tx'[refund'[r].gid] # Null /\ Announced(refund[r].gid, "ORDER_CAPTURED")'
    PROVE  RefundFacts'
<1>1. ASSUME NEW r \in Refs, refund'[r] # Null
      PROVE  tx'[refund'[r].gid] # Null /\ Announced(refund[r].gid, "ORDER_CAPTURED")'
  <2>1. CASE refund[r] = Null
    BY <1>1, <2>1
  <2>2. CASE refund[r] # Null
    <3>1. PICK g \in Gids : g = refund[r].gid
      BY <2>2 DEF TypeOK, RefundRow
    <3>2. refund'[r].gid = g /\ tx[g] # Null /\ Announced(g, "ORDER_CAPTURED")
      BY <2>2, <3>1 DEF Grow, RefundFacts
    <3>3. tx'[g] # Null /\ Announced(g, "ORDER_CAPTURED")'
      BY <3>2 DEF Grow, PAYMENT_EVENTS
    <3> QED
      BY <3>2, <3>3 DEF Announced
  <2> QED
    BY <2>1, <2>2
<1>2. ASSUME ~BareOrderPaid, NEW r \in Refs, gwRefund[r] # Null
      PROVE  TxOfPayment(gwRefund[r].pay)' # {}
  <2>1. PICK k \in Pays : k = gwRefund[r].pay
    BY <1>2 DEF TypeOK, GwRefund
  <2>2. PICK g \in Gids : tx[g] # Null /\ tx[g].paymentId = k
    BY <1>2, <2>1 DEF RefundFacts, TxOfPayment
  <2>3. tx'[g] # Null /\ tx'[g].paymentId = k
    BY <1>2, <2>2, NullAssumption DEF Grow
  <2> QED
    BY <2>1, <2>3 DEF TxOfPayment
<1> QED
  BY <1>1, <1>2 DEF RefundFacts

\* A commit that makes no row.  What is left to show of it is what it does to
\* statuses, announcements and refunds.
LEMMA CommitStep ==
    ASSUME Inv, TypeOK', Grow,
           NEW p \in Procs, NEW h \in Request, req' = [req EXCEPT ![p] = h],
           HandlerOK(h)', h.pc # "createRow",
           UNCHANGED <<gwOrder, attempt, gwRefund, acked, latest>>,
           \A g \in Gids : tx[g] = Null => tx'[g] = Null /\ outbox'[g] = outbox[g],
           \A r \in Refs : refund'[r] # Null /\ refund[r] = Null =>
               tx'[refund'[r].gid] # Null /\ Announced(refund[r].gid, "ORDER_CAPTURED")',
           TxFacts', StatusAnnounced', CaptureBacked', RefundLedger'
    PROVE  Inv'
<1>1. Handlers'
  BY HandlersStep DEF Inv
<1>2. FreshRow'
  <2>1. \A q \in Procs \ {p} : req'[q] = req[q]
    BY DEF Inv, TypeOK
  <2>2. req'[p].pc # "createRow"
    BY DEF Inv, TypeOK
  <2>3. ASSUME NEW q \in Procs, req'[q].pc = "createRow"
        PROVE  tx'[req'[q].gid] = Null
    <3>1. q # p /\ req[q].pc = "createRow" /\ req'[q] = req[q]
      BY <2>1, <2>2, <2>3
    <3>2. req[q].gid \in Gids /\ tx[req[q].gid] = Null
      BY <3>1 DEF Inv, Handlers, HandlerOK, Creating, TypeOK, Request, FreshRow
    <3> QED
      BY <3>1, <3>2
  <2>4. \A q, v \in Procs : req'[q].pc = "createRow" /\ req'[v].pc = "createRow"
                              /\ req'[q].gid = req'[v].gid => q = v
    BY <2>1, <2>2 DEF Inv, FreshRow
  <2> QED
    BY <2>3, <2>4 DEF FreshRow
<1>3. References'
  <2>1. \A x \in Gids : tx'[x] # Null => gwOrder'[x] # Null
    BY DEF Inv, References
  <2>2. \A k \in Pays : attempt'[k] # Null => tx'[attempt'[k].gid] # Null
    BY DEF Inv, References, Grow, TypeOK, Attempt
  <2>3. \A x \in Orders : latest'[x] # Null => tx'[latest'[x]] # Null
    BY DEF Inv, References, Grow, TypeOK
  <2>4. \A x \in Gids : tx'[x] = Null => outbox'[x] = <<>>
    BY DEF Inv, References, Grow
  <2> QED
    BY <2>1, <2>2, <2>3, <2>4 DEF References
<1>4. PaidOnce'
  BY DEF Inv, PaidOnce, Succeeded
<1>5. RefundFacts'
  BY RefundFactsStay DEF Inv
<1>6. AckedSafe'
  BY SafeStays DEF Inv, AckedSafe
<1> QED
  BY <1>1, <1>2, <1>3, <1>4, <1>5, <1>6 DEF Inv

\* paymentTransactionRepository.create makes the row of a fresh gateway order.
LEMMA CreateRowStep ==
    ASSUME Inv, NEW p \in Procs, CreateRow(p)
    PROVE  Inv'
<1>0. PICK h \in Request : h = req[p]
  BY DEF Inv, TypeOK
<1>1. /\ h.pc = "createRow" /\ h.gid # Null /\ h.gid \in Gids
      /\ h.ask \in GwOrder /\ gwOrder[h.gid] # Null /\ tx[h.gid] = Null
      /\ \A q \in Procs : req[q].pc = "createRow" /\ req[q].gid = h.gid => q = p
  BY <1>0 DEF CreateRow, Inv, Handlers, HandlerOK, Creating, Request, FreshRow
<1>2. PICK g \in Gids : g = h.gid
  BY <1>1
<1>3. PICK new \in TxRow : new = [status |-> "CREATED", paymentId |-> Null]
  BY DEF TxRow, PaymentStatus
<1>4. new # Null /\ new.status = "CREATED" /\ new.paymentId = Null
  BY <1>3, RecordAssumption
<1>5. PICK o \in Orders : o = h.ask.order
  BY <1>1 DEF GwOrder
<1>6. /\ tx' = [tx EXCEPT ![g] = new]
      /\ latest' = [latest EXCEPT ![o] = g]
      /\ req' = [req EXCEPT ![p] = Idle]
      /\ UNCHANGED <<gwOrder, attempt, gwRefund, acked, refund, outbox, aborts>>
  BY <1>0, <1>2, <1>3, <1>5 DEF CreateRow, gwVars
<1>7. /\ tx'[g] = new
      /\ \A x \in Gids \ {g} : tx'[x] = tx[x]
      /\ tx[g] = Null
  BY <1>1, <1>2, <1>6 DEF Inv, TypeOK
<1>8. TypeOK'
  BY <1>6, IdleOK DEF Inv, TypeOK
<1>9. Grow
  BY <1>4, <1>6, <1>7 DEF Grow, Announced
<1>10. Handlers'
  BY <1>6, <1>9, IdleOK, HandlerStays, HandlersStep DEF Inv
<1>11. FreshRow'
  <2>1. \A q \in Procs \ {p} : req'[q] = req[q]
    BY <1>6 DEF Inv, TypeOK
  <2>2. req'[p].pc # "createRow"
    BY <1>6, IdleOK DEF Inv, TypeOK
  <2>3. ASSUME NEW q \in Procs, req'[q].pc = "createRow"
        PROVE  tx'[req'[q].gid] = Null
    <3>1. q # p /\ req[q].pc = "createRow" /\ req'[q] = req[q]
      BY <2>1, <2>2, <2>3
    <3>2. req[q].gid \in Gids
      BY <3>1 DEF Inv, Handlers, HandlerOK, Creating, TypeOK, Request
    <3>3. req[q].gid # g /\ tx[req[q].gid] = Null
      BY <1>1, <1>2, <3>1 DEF Inv, FreshRow
    <3> QED
      BY <1>7, <3>1, <3>2, <3>3
  <2>4. \A q, v \in Procs : req'[q].pc = "createRow" /\ req'[v].pc = "createRow"
                              /\ req'[q].gid = req'[v].gid => q = v
    BY <2>1, <2>2 DEF Inv, FreshRow
  <2> QED
    BY <2>3, <2>4 DEF FreshRow
<1>12. References'
  <2>1. \A x \in Gids : tx'[x] # Null => gwOrder'[x] # Null
    BY <1>1, <1>2, <1>6, <1>7 DEF Inv, References
  <2>2. \A k \in Pays : attempt'[k] # Null => tx'[attempt'[k].gid] # Null
    BY <1>4, <1>6, <1>9 DEF Inv, References, Grow, TypeOK, Attempt
  <2>3. \A x \in Orders : latest'[x] # Null => tx'[latest'[x]] # Null
    BY <1>4, <1>6, <1>7, <1>9 DEF Inv, References, Grow, TypeOK
  <2>4. \A x \in Gids : tx'[x] = Null => outbox'[x] = <<>>
    BY <1>4, <1>6, <1>7 DEF Inv, References
  <2> QED
    BY <2>1, <2>2, <2>3, <2>4 DEF References
<1>13. PaidOnce'
  BY <1>6 DEF Inv, PaidOnce, Succeeded
<1>14. TxFacts'
  BY <1>4, <1>6, <1>7 DEF Inv, TxFacts, Succeeded, Announced
<1>15. RefundFacts'
  BY <1>6, <1>9, RefundFactsStay DEF Inv
<1>16. AckedSafe'
  BY <1>6, <1>9, SafeStays DEF Inv, AckedSafe
<1>17. StatusAnnounced'
  <2>1. outbox[g] = <<>>
    BY <1>7 DEF Inv, References
  <2> QED
    BY <1>4, <1>6, <1>7, <2>1 DEF Inv, StatusAnnounced, LastEvent, Announced
<1>18. CaptureBacked'
  BY <1>4, <1>6, <1>7 DEF Inv, CaptureBacked, Announced, Paid, Succeeded
<1>19. RefundLedger'
  BY <1>4, <1>6, <1>7 DEF Inv, RefundLedger, Succeeded
<1> QED
  BY <1>8, <1>10, <1>11, <1>12, <1>13, <1>14, <1>15, <1>16, <1>17, <1>18, <1>19 DEF Inv

\* An outbox insert appends to what was announced of one order.
LEMMA Announcing ==
    ASSUME TypeOK, NEW g \in Gids, NEW t \in PAYMENT_EVENTS,
           outbox' = [outbox EXCEPT ![g] = Append(outbox[g], t)]
    PROVE  /\ outbox' \in [Gids -> Seq(PAYMENT_EVENTS)]
           /\ \A x \in Gids \ {g} : outbox'[x] = outbox[x]
           /\ outbox'[g] # <<>> /\ LastEvent(g)' = t /\ Announced(g, t)'
           /\ \A x \in Gids : \A u \in PAYMENT_EVENTS : Announced(x, u) => Announced(x, u)'
           /\ \A x \in Gids : \A u \in PAYMENT_EVENTS :
                  Announced(x, u)' => Announced(x, u) \/ (x = g /\ u = t)
<1>1. PICK s \in Seq(PAYMENT_EVENTS) : s = outbox[g]
  BY DEF TypeOK
<1>2. PICK n : n = Append(s, t)
  OBVIOUS
<1>3. /\ n \in Seq(PAYMENT_EVENTS)
      /\ Len(n) = Len(s) + 1
      /\ n[Len(n)] = t
      /\ \A i \in 1..Len(s) : n[i] = s[i]
  BY <1>2
<1>4. Len(n) \in 1..Len(n) /\ n # <<>> /\ Len(s) \in Nat
  BY <1>3
<1>5. /\ outbox'[g] = n
      /\ outbox' \in [Gids -> Seq(PAYMENT_EVENTS)]
      /\ \A x \in Gids \ {g} : outbox'[x] = outbox[x]
  BY <1>1, <1>2, <1>3 DEF TypeOK
<1>6. outbox'[g] # <<>> /\ LastEvent(g)' = t /\ Announced(g, t)'
  BY <1>3, <1>4, <1>5 DEF LastEvent, Announced
<1>7. ASSUME NEW x \in Gids, NEW u \in PAYMENT_EVENTS, Announced(x, u)
      PROVE  Announced(x, u)'
  <2>1. CASE x = g
    <3>1. PICK i \in 1..Len(s) : s[i] = u
      BY <1>1, <1>7, <2>1 DEF Announced
    <3>2. i \in 1..Len(n) /\ n[i] = u
      BY <1>3, <1>4, <3>1
    <3> QED
      BY <1>5, <2>1, <3>2 DEF Announced
  <2>2. CASE x # g
    BY <1>5, <1>7, <2>2 DEF Announced
  <2> QED
    BY <2>1, <2>2
<1>8. ASSUME NEW x \in Gids, NEW u \in PAYMENT_EVENTS, Announced(x, u)'
      PROVE  Announced(x, u) \/ (x = g /\ u = t)
  <2>1. CASE x = g
    <3>1. PICK i \in 1..Len(n) : n[i] = u
      BY <1>5, <1>8, <2>1 DEF Announced
    <3>2. CASE i = Len(n)
      BY <1>3, <2>1, <3>1, <3>2
    <3>3. CASE i # Len(n)
      <4>1. i \in 1..Len(s)
        BY <1>3, <1>4, <3>1, <3>3
      <4> QED
        BY <1>1, <1>3, <2>1, <3>1, <4>1 DEF Announced
    <3> QED
      BY <3>2, <3>3
  <2>2. CASE x # g
    BY <1>5, <1>8, <2>2 DEF Announced
  <2> QED
    BY <2>1, <2>2
<1> QED
  BY <1>5, <1>6, <1>7, <1>8

\* captureOrderPaymentWithOutbox, the writes: an old entity may be written over a
\* newer row, but it is always a captured one of a paid order.
LEMMA CaptureWriteStep ==
    ASSUME Inv, NEW p \in Procs, CaptureWrite(p)
    PROVE  Inv'
<1>0. PICK h \in Request : h = req[p]
  BY DEF Inv, TypeOK
<1>1. /\ h.pc = "captureWrite" /\ h.gid \in Gids /\ h.ent \in TxRow
      /\ Capturing(h) /\ tx[h.gid] # Null
  BY <1>0 DEF CaptureWrite, Inv, Handlers, HandlerOK, Capturing, CaptureSteps, Request
<1>2. PICK g \in Gids : g = h.gid
  BY <1>1
<1>3. PICK c \in TxRow : c = h.ent
  BY <1>1
<1>4. /\ c # Null /\ c.status = "CAPTURED" /\ Paid(g)
      /\ c.paymentId # Null => Succeeded(g, c.paymentId)
      /\ ~BareOrderPaid => c.paymentId # Null
  BY <1>1, <1>2, <1>3, RecordAssumption DEF Capturing, CaptureSteps
<1>5. PICK n : n = [h EXCEPT !.pc = "reply"]
  OBVIOUS
<1>6. n \in Request /\ n.pc = "reply" /\ n.ev = h.ev
  BY <1>5 DEF Request, Steps
<1>7. /\ tx' = [tx EXCEPT ![g] = c]
      /\ outbox' = [outbox EXCEPT ![g] = Append(outbox[g], "ORDER_CAPTURED")]
      /\ req' = [req EXCEPT ![p] = n]
      /\ UNCHANGED <<gwOrder, attempt, gwRefund, acked, latest, refund, aborts>>
  BY <1>0, <1>2, <1>3, <1>5 DEF CaptureWrite, gwVars
<1>8. /\ outbox' \in [Gids -> Seq(PAYMENT_EVENTS)]
      /\ \A x \in Gids \ {g} : outbox'[x] = outbox[x]
      /\ outbox'[g] # <<>> /\ LastEvent(g)' = "ORDER_CAPTURED"
      /\ Announced(g, "ORDER_CAPTURED")'
      /\ \A x \in Gids : \A u \in PAYMENT_EVENTS : Announced(x, u) => Announced(x, u)'
      /\ \A x \in Gids : \A u \in PAYMENT_EVENTS :
             Announced(x, u)' => Announced(x, u) \/ (x = g /\ u = "ORDER_CAPTURED")
  <2>1. "ORDER_CAPTURED" \in PAYMENT_EVENTS /\ TypeOK
    BY DEF PAYMENT_EVENTS, Inv
  <2> QED
    BY <1>7, <2>1, Announcing
<1>9. /\ tx'[g] = c
      /\ \A x \in Gids \ {g} : tx'[x] = tx[x]
      /\ tx[g] # Null
  BY <1>1, <1>2, <1>7 DEF Inv, TypeOK
<1>10. TypeOK'
  BY <1>6, <1>7, <1>8 DEF Inv, TypeOK
<1>11. ~BareOrderPaid => (tx[g].paymentId # Null => c.paymentId = tx[g].paymentId)
  <2> SUFFICES ASSUME ~BareOrderPaid, tx[g].paymentId # Null
               PROVE  c.paymentId = tx[g].paymentId
    OBVIOUS
  <2>1. Succeeded(g, tx[g].paymentId) /\ Succeeded(g, c.paymentId)
    BY <1>4, <1>9 DEF Inv, TxFacts
  <2>2. tx[g].paymentId \in Pays /\ c.paymentId \in Pays
    BY <1>4, <1>9 DEF Inv, TypeOK, TxRow
  <2> QED
    BY <2>1, <2>2 DEF Inv, PaidOnce
<1>12. \A x \in Gids : outbox[x] # <<>> => outbox'[x] # <<>>
  BY <1>8
<1>13. Grow
  BY <1>4, <1>7, <1>8, <1>9, <1>11, <1>12 DEF Grow
<1>14. HandlerOK(n)'
  <2>1. HandlerOK(h)' /\ HandlerOK(h)
    BY <1>0, <1>13, HandlerStays DEF Inv, Handlers
  <2>2. h.ev # Null => /\ h.ev \in CapturedEvents
                       /\ h.ev.type = "payment.captured" => attempt'[h.ev.id] # Null
                       /\ GidOf(h.ev)' = g
    BY <1>1, <1>2, <2>1 DEF HandlerOK, Capturing, CaptureSteps
  <2>3. Safe(h.ev)'
    <3>1. CASE h.ev = Null
      BY <3>1, EventKinds DEF Safe
    <3>2. CASE h.ev # Null
      <4>1. Announced(GidOf(h.ev), "ORDER_CAPTURED")'
        BY <1>8, <2>2, <3>2 DEF Announced
      <4> QED
        BY <2>2, <3>2, <4>1, EventKinds DEF Safe
    <3> QED
      BY <3>1, <3>2
  <2> QED
    BY <1>6, <2>3 DEF HandlerOK, Creating, Capturing, Failing, Refunding, Syncing,
                      CaptureSteps, FailSteps, RefundSteps, SyncSteps
<1>15. TxFacts'
  <2> SUFFICES ASSUME NEW x \in Gids, tx'[x] # Null
               PROVE  /\ tx'[x].status # "SUCCESS"
                      /\ tx'[x].paymentId # Null =>
                            Succeeded(x, tx[x].paymentId)' /\ Announced(x, "ORDER_CAPTURED")'
    BY DEF TxFacts
  <2>1. CASE x = g
    BY <1>4, <1>7, <1>8, <1>9, <2>1 DEF Succeeded
  <2>2. CASE x # g
    BY <1>7, <1>8, <1>9, <2>2 DEF Inv, TxFacts, Succeeded, PAYMENT_EVENTS
  <2> QED
    BY <2>1, <2>2
<1>16. StatusAnnounced'
  <2> SUFFICES ASSUME NEW x \in Gids, tx'[x] # Null
               PROVE  /\ tx'[x].status = "CREATED"  => outbox'[x] = <<>>
                      /\ tx'[x].status = "CAPTURED" =>
                            outbox'[x] # <<>> /\ LastEvent(x)' = "ORDER_CAPTURED"
                      /\ tx'[x].status = "FAILED"   =>
                            outbox'[x] # <<>> /\ LastEvent(x)' = "ORDER_FAILED"
                      /\ tx'[x].status = "REFUNDED" => Announced(x, "ORDER_CAPTURED")'
    BY DEF StatusAnnounced
  <2>1. CASE x = g
    BY <1>4, <1>8, <1>9, <2>1
  <2>2. CASE x # g
    BY <1>8, <1>9, <2>2 DEF Inv, StatusAnnounced, LastEvent, PAYMENT_EVENTS
  <2> QED
    BY <2>1, <2>2
<1>17. CaptureBacked'
  <2> SUFFICES ASSUME NEW x \in Gids
               PROVE  /\ Announced(x, "ORDER_CAPTURED")' => Paid(x)'
                      /\ Announced(x, "ORDER_FAILED")' => \E y \in Pays : FailedAttempt(x, y)'
                      /\ tx'[x] # Null /\ tx'[x].status \in {"CAPTURED", "REFUNDED"} => Paid(x)'
                      /\ tx'[x] # Null /\ tx'[x].paymentId # Null => Succeeded(x, tx[x].paymentId)'
    BY DEF CaptureBacked, FailedAttempt
  <2>1. Paid(x)' = Paid(x) /\ \A y \in Pays : FailedAttempt(x, y)' = FailedAttempt(x, y)
    BY <1>7 DEF Paid, Succeeded, FailedAttempt
  <2>2. Announced(x, "ORDER_CAPTURED")' => Paid(x)
    BY <1>4, <1>8 DEF PAYMENT_EVENTS, Inv, CaptureBacked
  <2>3. Announced(x, "ORDER_FAILED")' => \E y \in Pays : FailedAttempt(x, y)
    BY <1>8 DEF PAYMENT_EVENTS, Inv, CaptureBacked, FailedAttempt
  <2>4. tx'[x] # Null /\ tx'[x].status \in {"CAPTURED", "REFUNDED"} => Paid(x)
    BY <1>4, <1>9 DEF Inv, CaptureBacked
  <2>5. tx'[x] # Null /\ tx'[x].paymentId # Null => Succeeded(x, tx[x].paymentId)'
    BY <1>15 DEF TxFacts
  <2> QED
    BY <2>1, <2>2, <2>3, <2>4, <2>5
<1>18. RefundLedger'
  BY <1>4, <1>7, <1>9 DEF Inv, RefundLedger, Succeeded
<1> QED
  BY <1>6, <1>7, <1>8, <1>9, <1>10, <1>13, <1>14, <1>15, <1>16, <1>17, <1>18, CommitStep

\* failOrderPaymentWithOutbox, the writes: even over a row that was captured
\* after it was read, the status that is written is announced.
LEMMA FailWriteStep ==
    ASSUME Inv, NEW p \in Procs, FailWrite(p)
    PROVE  Inv'
<1>0. PICK h \in Request : h = req[p]
  BY DEF Inv, TypeOK
<1>1. /\ h.pc = "failWrite" /\ h.gid \in Gids /\ h.ent.status = "FAILED"
      /\ tx[h.gid] # Null
      /\ h.ev \in FailedEvents /\ FailedAttempt(h.gid, h.ev.id)
  BY <1>0 DEF FailWrite, Inv, Handlers, HandlerOK, Failing, FailSteps, Request
<1>2. PICK g \in Gids : g = h.gid
  BY <1>1
<1>3. PICK old \in TxRow : old = tx[g]
  BY <1>1, <1>2 DEF Inv, TypeOK
<1>4. PICK c : c = [old EXCEPT !.status = "FAILED"]
  OBVIOUS
<1>5. c \in TxRow /\ c # Null /\ c.status = "FAILED" /\ c.paymentId = old.paymentId
  <2>1. c \in TxRow /\ c.status = "FAILED" /\ c.paymentId = old.paymentId
    BY <1>4 DEF TxRow, PaymentStatus
  <2> QED
    BY <2>1, RecordAssumption
<1>6. PICK n : n = [h EXCEPT !.pc = "reply"]
  OBVIOUS
<1>7. n \in Request /\ n.pc = "reply" /\ n.ev = h.ev
  BY <1>6 DEF Request, Steps
<1>8. /\ tx' = [tx EXCEPT ![g] = c]
      /\ outbox' = [outbox EXCEPT ![g] = Append(outbox[g], "ORDER_FAILED")]
      /\ req' = [req EXCEPT ![p] = n]
      /\ UNCHANGED <<gwOrder, attempt, gwRefund, acked, latest, refund, aborts>>
  BY <1>0, <1>1, <1>2, <1>3, <1>4, <1>6 DEF FailWrite, gwVars
<1>9. /\ outbox' \in [Gids -> Seq(PAYMENT_EVENTS)]
      /\ \A x \in Gids \ {g} : outbox'[x] = outbox[x]
      /\ outbox'[g] # <<>> /\ LastEvent(g)' = "ORDER_FAILED"
      /\ \A x \in Gids : \A u \in PAYMENT_EVENTS : Announced(x, u) => Announced(x, u)'
      /\ \A x \in Gids : \A u \in PAYMENT_EVENTS :
             Announced(x, u)' => Announced(x, u) \/ (x = g /\ u = "ORDER_FAILED")
  <2>1. "ORDER_FAILED" \in PAYMENT_EVENTS /\ TypeOK
    BY DEF PAYMENT_EVENTS, Inv
  <2> QED
    BY <1>8, <2>1, Announcing
<1>10. /\ tx'[g] = c
       /\ \A x \in Gids \ {g} : tx'[x] = tx[x]
       /\ tx[g] # Null /\ tx[g].paymentId = c.paymentId
  BY <1>1, <1>2, <1>3, <1>5, <1>8 DEF Inv, TypeOK
<1>11. TypeOK'
  BY <1>5, <1>7, <1>8, <1>9 DEF Inv, TypeOK
<1>12. \A x \in Gids : outbox[x] # <<>> => outbox'[x] # <<>>
  BY <1>9
<1>13. Grow
  BY <1>5, <1>8, <1>9, <1>10, <1>12 DEF Grow
<1>14. HandlerOK(n)'
  <2>1. PICK a : a = [gid |-> g, ok |-> FALSE]
    OBVIOUS
  <2>2. a \in Attempt /\ a.gid = g
    BY <2>1 DEF Attempt
  <2>3. attempt'[h.ev.id] = a /\ a # Null
    BY <1>1, <1>2, <1>8, <2>1, <2>2, RecordAssumption DEF FailedAttempt
  <2>4. Safe(h.ev)'
    BY <1>1, <1>9, <2>2, <2>3, EventKinds DEF Safe
  <2> QED
    BY <1>7, <2>4 DEF HandlerOK, Creating, Capturing, Failing, Refunding, Syncing,
                      CaptureSteps, FailSteps, RefundSteps, SyncSteps
<1>15. TxFacts'
  <2> SUFFICES ASSUME NEW x \in Gids, tx'[x] # Null
               PROVE  /\ tx'[x].status # "SUCCESS"
                      /\ tx'[x].paymentId # Null =>
                            Succeeded(x, tx[x].paymentId)' /\ Announced(x, "ORDER_CAPTURED")'
    BY DEF TxFacts
  <2>1. tx[x] # Null /\ tx'[x].paymentId = tx[x].paymentId
    BY <1>10
  <2>2. tx'[x].status # "SUCCESS"
    BY <1>5, <1>10, <2>1 DEF Inv, TxFacts
  <2> QED
    BY <1>8, <1>9, <2>1, <2>2 DEF Inv, TxFacts, Succeeded, PAYMENT_EVENTS
<1>16. StatusAnnounced'
  <2> SUFFICES ASSUME NEW x \in Gids, tx'[x] # Null
               PROVE  /\ tx'[x].status = "CREATED"  => outbox'[x] = <<>>
                      /\ tx'[x].status = "CAPTURED" =>
                            outbox'[x] # <<>> /\ LastEvent(x)' = "ORDER_CAPTURED"
                      /\ tx'[x].status = "FAILED"   =>
                            outbox'[x] # <<>> /\ LastEvent(x)' = "ORDER_FAILED"
                      /\ tx'[x].status = "REFUNDED" => Announced(x, "ORDER_CAPTURED")'
    BY DEF StatusAnnounced
  <2>1. CASE x = g
    BY <1>5, <1>9, <1>10, <2>1
  <2>2. CASE x # g
    BY <1>9, <1>10, <2>2 DEF Inv, StatusAnnounced, LastEvent, PAYMENT_EVENTS
  <2> QED
    BY <2>1, <2>2
<1>17. CaptureBacked'
  <2> SUFFICES ASSUME NEW x \in Gids
               PROVE  /\ Announced(x, "ORDER_CAPTURED")' => Paid(x)'
                      /\ Announced(x, "ORDER_FAILED")' => \E y \in Pays : FailedAttempt(x, y)'
                      /\ tx'[x] # Null /\ tx'[x].status \in {"CAPTURED", "REFUNDED"} => Paid(x)'
                      /\ tx'[x] # Null /\ tx'[x].paymentId # Null => Succeeded(x, tx[x].paymentId)'
    BY DEF CaptureBacked, FailedAttempt
  <2>1. Paid(x)' = Paid(x) /\ \A y \in Pays : FailedAttempt(x, y)' = FailedAttempt(x, y)
    BY <1>8 DEF Paid, Succeeded, FailedAttempt
  <2>2. Announced(x, "ORDER_CAPTURED")' => Paid(x)
    BY <1>9 DEF PAYMENT_EVENTS, Inv, CaptureBacked
  <2>3. Announced(x, "ORDER_FAILED")' => \E y \in Pays : FailedAttempt(x, y)
    BY <1>1, <1>2, <1>9, EventIds DEF PAYMENT_EVENTS, Inv, CaptureBacked, FailedAttempt
  <2>4. tx'[x] # Null /\ tx'[x].status \in {"CAPTURED", "REFUNDED"} => Paid(x)
    BY <1>5, <1>10 DEF Inv, CaptureBacked
  <2>5. tx'[x] # Null /\ tx'[x].paymentId # Null => Succeeded(x, tx[x].paymentId)'
    BY <1>15 DEF TxFacts
  <2> QED
    BY <2>1, <2>2, <2>3, <2>4, <2>5
<1>18. RefundLedger'
  BY <1>5, <1>8, <1>10 DEF Inv, RefundLedger, Succeeded
<1> QED
  BY <1>7, <1>8, <1>9, <1>10, <1>11, <1>13, <1>14, <1>15, <1>16, <1>17, <1>18, CommitStep

\* A commit that sets refund row r, and the status of its transaction g or not.
\* Its handler is done, or answers the webhook that told of r.
RecordsRefund(p, r, g, row, n) ==
    /\ row.gid = g /\ tx[g] # Null /\ Announced(g, "ORDER_CAPTURED")
    /\ gwRefund[r] # Null /\ Succeeded(g, gwRefund[r].pay)
    /\ row.status # "PENDING" => row.status = gwRefund[r].status
    /\ refund[r] # Null => refund[r].gid = g /\ row.status = gwRefund[r].status
    /\ refund' = [refund EXCEPT ![r] = row]
    /\ tx' = tx \/ tx' = [tx EXCEPT ![g].status = "REFUNDED"]
    /\ req' = [req EXCEPT ![p] = n]
    /\ \/ n = Idle
       \/ n.pc = "reply" /\ n.ev \in RefundEvents /\ n.ev.id = r /\ row.status # "PENDING"
    /\ UNCHANGED <<gwOrder, attempt, gwRefund, acked, latest, outbox, aborts>>

\* Such a commit keeps the invariant.
LEMMA RefundCommit ==
    ASSUME Inv, NEW p \in Procs, NEW r \in Refs, NEW g \in Gids, NEW row \in RefundRow,
           NEW n \in Request, RecordsRefund(p, r, g, row, n)
    PROVE  Inv'
<1> USE DEF RecordsRefund
<1>1. PICK old \in TxRow : old = tx[g]
  BY DEF Inv, TypeOK
<1>2. PICK c : c = [old EXCEPT !.status = "REFUNDED"]
  OBVIOUS
<1>3. c \in TxRow /\ c # Null /\ c.status = "REFUNDED" /\ c.paymentId = old.paymentId
  <2>1. c \in TxRow /\ c.status = "REFUNDED" /\ c.paymentId = old.paymentId
    BY <1>2 DEF TxRow, PaymentStatus
  <2> QED
    BY <2>1, RecordAssumption
<1>4. /\ tx' \in [Gids -> TxRow \cup {Null}]
      /\ \A x \in Gids \ {g} : tx'[x] = tx[x]
      /\ tx'[g] = tx[g] \/ tx'[g] = c
  <2>1. /\ tx \in [Gids -> TxRow \cup {Null}]
        /\ tx' = tx \/ tx' = [tx EXCEPT ![g].status = "REFUNDED"]
    BY DEF Inv, TypeOK
  <2>2. CASE tx' = tx
    BY <2>1, <2>2
  <2>3. CASE tx' = [tx EXCEPT ![g].status = "REFUNDED"]
    <3> HIDE DEF RecordsRefund
    <3>1. tx' = [tx EXCEPT ![g] = c]
      BY <1>1, <1>2, <2>1, <2>3
    <3> QED
      BY <1>3, <2>1, <3>1
  <2> QED
    BY <2>1, <2>2, <2>3
<1>5. \A x \in Gids : /\ (tx'[x] = Null) = (tx[x] = Null)
                      /\ tx[x] # Null => tx'[x].paymentId = tx[x].paymentId
                      /\ tx'[x] = tx[x] \/ (x = g /\ tx'[x].status = "REFUNDED")
  BY <1>1, <1>3, <1>4
<1>6. /\ row # Null
      /\ refund'[r] = row
      /\ \A x \in Refs \ {r} : refund'[x] = refund[x]
  BY RecordAssumption DEF Inv, TypeOK
<1>7. TypeOK'
  BY <1>4 DEF Inv, TypeOK
<1>8. Grow
  <2>1. \A x \in Refs : refund[x] # Null =>
          /\ refund'[x] # Null
          /\ refund'[x].gid = refund[x].gid
          /\ (/\ gwRefund[x] # Null
              /\ gwRefund[x].status # "PENDING"
              /\ refund[x].status = gwRefund[x].status)
             => refund'[x].status = refund[x].status
    BY <1>6
  <2> QED
    BY <1>5, <2>1 DEF Grow, Announced
<1>9. HandlerOK(n)' /\ n.pc # "createRow"
  <2>1. CASE n = Idle
    BY <1>8, <2>1, IdleOK, HandlerStays DEF Inv
  <2>2. CASE /\ n.pc = "reply" /\ n.ev \in RefundEvents /\ n.ev.id = r
             /\ row.status # "PENDING"
    <3>1. Safe(n.ev)'
      BY <1>6, <2>2, EventKinds DEF Safe
    <3> QED
      BY <2>2, <3>1 DEF HandlerOK, Creating, Capturing, Failing, Refunding, Syncing,
                        CaptureSteps, FailSteps, RefundSteps, SyncSteps
  <2> QED
    BY <2>1, <2>2
<1>10. \A x \in Gids : \A t \in PAYMENT_EVENTS : Announced(x, t)' = Announced(x, t)
  BY DEF Announced
<1>11. \A x \in Gids : \A k : Succeeded(x, k)' = Succeeded(x, k)
  BY DEF Succeeded
<1>12. TxFacts'
  <2> SUFFICES ASSUME NEW x \in Gids, tx'[x] # Null
               PROVE  /\ tx'[x].status # "SUCCESS"
                      /\ tx'[x].paymentId # Null =>
                            Succeeded(x, tx[x].paymentId)' /\ Announced(x, "ORDER_CAPTURED")'
    BY DEF TxFacts
  <2>1. tx[x] # Null /\ tx'[x].paymentId = tx[x].paymentId
    BY <1>5
  <2>2. tx'[x].status # "SUCCESS"
    BY <1>5, <2>1 DEF Inv, TxFacts
  <2> QED
    BY <1>10, <2>1, <2>2 DEF Inv, TxFacts, Succeeded, PAYMENT_EVENTS
<1>13. StatusAnnounced'
  <2> SUFFICES ASSUME NEW x \in Gids, tx'[x] # Null
               PROVE  /\ tx'[x].status = "CREATED"  => outbox'[x] = <<>>
                      /\ tx'[x].status = "CAPTURED" =>
                            outbox'[x] # <<>> /\ LastEvent(x)' = "ORDER_CAPTURED"
                      /\ tx'[x].status = "FAILED"   =>
                            outbox'[x] # <<>> /\ LastEvent(x)' = "ORDER_FAILED"
                      /\ tx'[x].status = "REFUNDED" => Announced(x, "ORDER_CAPTURED")'
    BY DEF StatusAnnounced
  <2>1. CASE tx'[x] = tx[x]
    BY <1>10, <2>1 DEF Inv, StatusAnnounced, LastEvent, PAYMENT_EVENTS
  <2>2. CASE x = g /\ tx'[x].status = "REFUNDED"
    BY <1>10, <2>2 DEF PAYMENT_EVENTS
  <2> QED
    BY <1>5, <2>1, <2>2
<1>14. CaptureBacked'
  <2> SUFFICES ASSUME NEW x \in Gids
               PROVE  /\ Announced(x, "ORDER_CAPTURED")' => Paid(x)'
                      /\ Announced(x, "ORDER_FAILED")' => \E y \in Pays : FailedAttempt(x, y)'
                      /\ tx'[x] # Null /\ tx'[x].status \in {"CAPTURED", "REFUNDED"} => Paid(x)'
                      /\ tx'[x] # Null /\ tx'[x].paymentId # Null => Succeeded(x, tx[x].paymentId)'
    BY DEF CaptureBacked, FailedAttempt
  <2>1. Paid(x)' = Paid(x) /\ \A y \in Pays : FailedAttempt(x, y)' = FailedAttempt(x, y)
    BY DEF Paid, Succeeded, FailedAttempt
  <2>2. /\ Announced(x, "ORDER_CAPTURED")' => Paid(x)
        /\ Announced(x, "ORDER_FAILED")' => \E y \in Pays : FailedAttempt(x, y)
    BY <1>10 DEF PAYMENT_EVENTS, Inv, CaptureBacked, FailedAttempt
  <2>3. tx'[x] # Null /\ tx'[x].status \in {"CAPTURED", "REFUNDED"} => Paid(x)
    BY <1>5 DEF Inv, CaptureBacked
  <2>4. tx'[x] # Null /\ tx'[x].paymentId # Null => Succeeded(x, tx[x].paymentId)'
    BY <1>12 DEF TxFacts
  <2> QED
    BY <2>1, <2>2, <2>3, <2>4
<1>15. RefundLedger'
  <2>1. ASSUME NEW x \in Refs, refund'[x] # Null
        PROVE  /\ gwRefund'[x] # Null
               /\ Succeeded(refund[x].gid, gwRefund[x].pay)'
               /\ refund'[x].status # "PENDING" => refund'[x].status = gwRefund'[x].status
    <3>1. CASE x = r
      BY <1>6, <3>1 DEF Succeeded
    <3>2. CASE x # r
      BY <1>6, <2>1, <3>2 DEF Inv, RefundLedger, Succeeded
    <3> QED
      BY <3>1, <3>2
  <2>2. ASSUME NEW x \in Gids, tx'[x] # Null, tx'[x].status = "REFUNDED"
        PROVE  \E y \in Refs : refund'[y] # Null /\ refund'[y].gid = x
    <3>1. CASE x = g
      BY <1>6, <3>1
    <3>2. CASE x # g
      <4>1. tx[x] # Null /\ tx[x].status = "REFUNDED"
        BY <1>4, <2>2, <3>2
      <4>2. PICK y \in Refs : refund[y] # Null /\ refund[y].gid = x
        BY <4>1 DEF Inv, RefundLedger
      <4>3. y # r /\ refund'[y] = refund[y]
        BY <1>6, <3>2, <4>2
      <4> QED
        BY <4>2, <4>3
    <3> QED
      BY <3>1, <3>2
  <2> QED
    BY <2>1, <2>2 DEF RefundLedger
<1>16. \A x \in Refs : refund'[x] # Null /\ refund[x] = Null =>
           tx'[refund'[x].gid] # Null /\ Announced(refund[x].gid, "ORDER_CAPTURED")'
  BY <1>5, <1>6 DEF Announced
<1>17. \A x \in Gids : tx[x] = Null => tx'[x] = Null /\ outbox'[x] = outbox[x]
  BY <1>5
<1> QED
  BY <1>7, <1>8, <1>9, <1>12, <1>13, <1>14, <1>15, <1>16, <1>17, CommitStep

\* processOrderRefund, the writes: the row of a refund that the gateway made.
LEMMA RefundWriteStep ==
    ASSUME Inv, NEW p \in Procs, RefundWrite(p)
    PROVE  Inv'
<1>0. PICK h \in Request : h = req[p]
  BY DEF Inv, TypeOK
<1>1. /\ h.pc = "refundWrite" /\ h.gid \in Gids /\ h.ref \in Refs
      /\ h.ent.status = "REFUNDED" /\ h.rst \in RefundStatus
      /\ tx[h.gid] # Null /\ Announced(h.gid, "ORDER_CAPTURED")
      /\ gwRefund[h.ref] # Null /\ Succeeded(h.gid, gwRefund[h.ref].pay)
      /\ h.rst # "PENDING" => h.rst = gwRefund[h.ref].status
  BY <1>0 DEF RefundWrite, Inv, Handlers, HandlerOK, Refunding, RefundSteps, Request
<1>2. PICK g \in Gids : g = h.gid
  BY <1>1
<1>3. PICK r \in Refs : r = h.ref
  BY <1>1
<1>4. /\ req' = [req EXCEPT ![p] = Idle]
      /\ UNCHANGED <<gwOrder, attempt, gwRefund, acked, latest, outbox, aborts>>
      /\ IF refund[r] # Null
           THEN UNCHANGED <<tx, refund>>
           ELSE /\ tx' = [tx EXCEPT ![g].status = "REFUNDED"]
                /\ refund' = [refund EXCEPT ![r] = [gid |-> g, status |-> h.rst]]
  BY <1>0, <1>1, <1>2, <1>3 DEF RefundWrite, gwVars
<1>5. CASE refund[r] # Null
  <2>1. UNCHANGED <<gwVars, dbVars, acked>> /\ aborts' \in Nat
    BY <1>4, <1>5 DEF gwVars, dbVars, Inv, TypeOK
  <2> QED
    BY <1>4, <2>1, IdleOK, LocalStep
<1>6. CASE refund[r] = Null
  <2>1. PICK row : row = [gid |-> g, status |-> h.rst]
    OBVIOUS
  <2>2. row \in RefundRow /\ row.gid = g /\ row.status = h.rst
    BY <1>1, <2>1 DEF RefundRow
  <2>3. refund' = [refund EXCEPT ![r] = row] /\ tx' = [tx EXCEPT ![g].status = "REFUNDED"]
    BY <1>4, <1>6, <2>1
  <2>4. RecordsRefund(p, r, g, row, Idle)
    BY <1>1, <1>2, <1>3, <1>4, <1>6, <2>2, <2>3 DEF RecordsRefund
  <2> QED
    BY <2>2, <2>4, IdleOK, RefundCommit
<1> QED
  BY <1>5, <1>6

\* What a handler of a refund webhook relies on, and its local state as it answers.
LEMMA SyncHandler ==
    ASSUME Inv, NEW p \in Procs, NEW h \in Request, h = req[p], h.pc \in SyncSteps
    PROVE  /\ h.ref \in Refs /\ h.rst \in {"PROCESSED", "FAILED"}
           /\ h.ev \in RefundEvents /\ h.ev.id = h.ref
           /\ gwRefund[h.ref] # Null /\ gwRefund[h.ref].status = h.rst
           /\ h.pc = "syncUpdate" => refund[h.ref] # Null
           /\ [h EXCEPT !.pc = "reply"] \in Request
           /\ [h EXCEPT !.pc = "reply"].pc = "reply"
           /\ [h EXCEPT !.pc = "reply"].ev = h.ev
<1>1. Syncing(h)
  BY DEF Inv, Handlers, HandlerOK
<1>2. /\ [h EXCEPT !.pc = "reply"] \in Request
      /\ [h EXCEPT !.pc = "reply"].pc = "reply"
      /\ [h EXCEPT !.pc = "reply"].ev = h.ev
  BY DEF Request, Steps
<1>3. h.ref \in Refs \cup {Null}
  BY DEF Request
<1> QED
  BY <1>1, <1>2, <1>3 DEF Syncing

\* syncRefundFromWebhook, the update: the row takes the gateway's final status.
LEMMA SyncUpdateStep ==
    ASSUME Inv, NEW p \in Procs, SyncUpdate(p)
    PROVE  Inv'
<1>0. PICK h \in Request : h = req[p]
  BY DEF Inv, TypeOK
<1>1. h.pc = "syncUpdate" /\ h.pc \in SyncSteps
  BY <1>0 DEF SyncUpdate, SyncSteps
<1>2. PICK n : n = [h EXCEPT !.pc = "reply"]
  OBVIOUS
<1>3. PICK r : r = h.ref
  OBVIOUS
<1>4. /\ r \in Refs /\ h.rst \in {"PROCESSED", "FAILED"}
      /\ h.ev \in RefundEvents /\ h.ev.id = r
      /\ gwRefund[r] # Null /\ gwRefund[r].status = h.rst
      /\ refund[r] # Null
      /\ n \in Request /\ n.pc = "reply" /\ n.ev = h.ev
  BY <1>0, <1>1, <1>2, <1>3, SyncHandler
<1>5. PICK old \in RefundRow : old = refund[r]
  BY <1>4 DEF Inv, TypeOK
<1>6. PICK row : row = [old EXCEPT !.status = h.rst]
  OBVIOUS
<1>7. row \in RefundRow /\ row.gid = old.gid /\ row.status = h.rst
  BY <1>4, <1>6 DEF RefundRow, RefundStatus
<1>8. PICK g \in Gids : g = old.gid
  BY <1>5 DEF RefundRow
<1>9. tx[g] # Null /\ Announced(g, "ORDER_CAPTURED") /\ Succeeded(g, gwRefund[r].pay)
  BY <1>4, <1>5, <1>8 DEF Inv, RefundFacts, RefundLedger
<1>10. /\ refund' = [refund EXCEPT ![r] = row]
       /\ tx' = tx \/ tx' = [tx EXCEPT ![g].status = "REFUNDED"]
       /\ req' = [req EXCEPT ![p] = n]
       /\ UNCHANGED <<gwOrder, attempt, gwRefund, acked, latest, outbox, aborts>>
  BY <1>0, <1>2, <1>3, <1>5, <1>6, <1>8 DEF SyncUpdate, TxAfterRefund, gwVars
<1>11. /\ row.gid = g /\ row.status = gwRefund[r].status /\ row.status # "PENDING"
       /\ refund[r].gid = g /\ n.ev \in RefundEvents /\ n.ev.id = r
  BY <1>4, <1>5, <1>7, <1>8
<1>12. RecordsRefund(p, r, g, row, n)
  BY <1>4, <1>9, <1>10, <1>11 DEF RecordsRefund
<1> QED
  BY <1>4, <1>7, <1>12, RefundCommit

\* syncRefundFromWebhook, the insert: the transaction is found by payment id.  A
\* refund whose transaction is not found is acknowledged unrecorded, which needs
\* an order.paid that erased the payment id.
LEMMA SyncCreateStep ==
    ASSUME Inv, NEW p \in Procs, SyncCreate(p)
    PROVE  Inv'
<1>0. PICK h \in Request : h = req[p]
  BY DEF Inv, TypeOK
<1>1. h.pc = "syncCreate" /\ h.pc \in SyncSteps
  BY <1>0 DEF SyncCreate, SyncSteps
<1>2. PICK n : n = [h EXCEPT !.pc = "reply"]
  OBVIOUS
<1>3. PICK r : r = h.ref
  OBVIOUS
<1>4. /\ r \in Refs /\ h.rst \in {"PROCESSED", "FAILED"}
      /\ h.ev \in RefundEvents /\ h.ev.id = r
      /\ gwRefund[r] # Null /\ gwRefund[r].status = h.rst
      /\ n \in Request /\ n.pc = "reply" /\ n.ev = h.ev
  BY <1>0, <1>1, <1>2, <1>3, SyncHandler
<1>5. UNCHANGED <<gwOrder, attempt, gwRefund, acked, latest, outbox, aborts>>
  BY DEF SyncCreate, gwVars
<1>6. CASE /\ TxOfPayment(gwRefund[r].pay) = {}
           /\ req' = [req EXCEPT ![p] = n]
           /\ UNCHANGED <<tx, refund>>
  <2>1. BareOrderPaid
    BY <1>4, <1>6, BareAssumption DEF Inv, RefundFacts
  <2>2. Safe(n.ev)
    BY <1>4, <2>1, EventKinds DEF Safe
  <2>3. HandlerOK(n) /\ n.pc # "createRow"
    BY <1>4, <2>2 DEF HandlerOK, Creating, Capturing, Failing, Refunding, Syncing,
                      CaptureSteps, FailSteps, RefundSteps, SyncSteps
  <2>4. UNCHANGED <<gwVars, dbVars, acked>> /\ aborts' \in Nat
    BY <1>5, <1>6 DEF gwVars, dbVars, Inv, TypeOK
  <2> QED
    BY <1>4, <1>6, <2>3, <2>4, LocalStep
<1>7. CASE req' = [req EXCEPT ![p] = Idle] /\ UNCHANGED <<tx, refund>>
  <2>1. UNCHANGED <<gwVars, dbVars, acked>> /\ aborts' \in Nat
    BY <1>5, <1>7 DEF gwVars, dbVars, Inv, TypeOK
  <2> QED
    BY <1>7, <2>1, IdleOK, LocalStep
<1>8. ASSUME NEW g \in TxOfPayment(gwRefund[r].pay),
             refund[r] = Null,
             refund' = [refund EXCEPT ![r] = [gid |-> g, status |-> h.rst]],
             tx' = TxAfterRefund(g, h.rst),
             req' = [req EXCEPT ![p] = n]
      PROVE  Inv'
  <2>1. PICK row : row = [gid |-> g, status |-> h.rst]
    OBVIOUS
  <2>2. g \in Gids /\ tx[g] # Null /\ tx[g].paymentId = gwRefund[r].pay
    BY <1>8 DEF TxOfPayment
  <2>3. gwRefund[r].pay \in Pays /\ gwRefund[r].pay # Null
    BY <1>4, NullAssumption DEF Inv, TypeOK, GwRefund
  <2>4. Succeeded(g, gwRefund[r].pay) /\ Announced(g, "ORDER_CAPTURED")
    BY <2>2, <2>3 DEF Inv, TxFacts
  <2>5. row \in RefundRow /\ row.gid = g /\ row.status = h.rst
    BY <1>4, <2>1, <2>2 DEF RefundRow, RefundStatus
  <2>6. /\ refund' = [refund EXCEPT ![r] = row]
        /\ tx' = tx \/ tx' = [tx EXCEPT ![g].status = "REFUNDED"]
    BY <1>8, <2>1 DEF TxAfterRefund
  <2>7. /\ row.status = gwRefund[r].status /\ row.status # "PENDING"
        /\ n.ev \in RefundEvents /\ n.ev.id = r
    BY <1>4, <2>5
  <2>8. RecordsRefund(p, r, g, row, n)
    BY <1>4, <1>5, <1>8, <2>2, <2>4, <2>5, <2>6, <2>7 DEF RecordsRefund
  <2> QED
    BY <1>4, <2>2, <2>5, <2>8, RefundCommit
<1>9. \/ /\ TxOfPayment(gwRefund[r].pay) = {}
         /\ req' = [req EXCEPT ![p] = n]
         /\ UNCHANGED <<tx, refund>>
      \/ req' = [req EXCEPT ![p] = Idle] /\ UNCHANGED <<tx, refund>>
      \/ \E g \in TxOfPayment(gwRefund[r].pay) :
            /\ refund[r] = Null
            /\ refund' = [refund EXCEPT ![r] = [gid |-> g, status |-> h.rst]]
            /\ tx' = TxAfterRefund(g, h.rst)
            /\ req' = [req EXCEPT ![p] = n]
  BY <1>0, <1>2, <1>3 DEF SyncCreate
<1> QED
  BY <1>6, <1>7, <1>8, <1>9

-----------------------------------------------------------------------------
(***************************************************************************)
(* The theorems.                                                           *)
(***************************************************************************)
\* No handler runs and no table has a row at the start.
LEMMA InitInv == Init => Inv
<1> SUFFICES ASSUME Init
             PROVE  Inv
  OBVIOUS
<1>1. TypeOK
  <2>1. Idle \in Request
    BY IdleOK
  <2> QED
    BY <2>1 DEF Init, TypeOK
<1>2. Handlers
  BY IdleOK DEF Init, Handlers
<1>3. FreshRow
  BY IdleOK DEF Init, FreshRow
<1>4. References /\ PaidOnce /\ TxFacts
  <2>1. \A g \in Gids, k \in Pays : ~Succeeded(g, k)
    <3> SUFFICES ASSUME NEW g \in Gids, NEW k \in Pays, Succeeded(g, k)
                 PROVE  FALSE
      OBVIOUS
    <3>1. [gid |-> g, ok |-> TRUE] \in Attempt
      BY DEF Attempt
    <3> QED
      BY <3>1, RecordAssumption DEF Init, Succeeded
  <2> QED
    BY <2>1 DEF Init, References, PaidOnce, TxFacts
<1>5. RefundFacts /\ AckedSafe /\ StatusAnnounced /\ RefundLedger
  BY DEF Init, RefundFacts, AckedSafe, StatusAnnounced, RefundLedger
<1>6. CaptureBacked
  BY DEF Init, CaptureBacked, Announced
<1> QED
  BY <1>1, <1>2, <1>3, <1>4, <1>5, <1>6 DEF Inv

\* Every step keeps the invariant.
LEMMA NextInv == Inv /\ [Next]_vars => Inv'
<1> SUFFICES ASSUME Inv, [Next]_vars
             PROVE  Inv'
  OBVIOUS
<1>1. CASE Gateway
  BY <1>1, CustomerPaysStep, RefundSettlesStep DEF Gateway
<1>2. ASSUME NEW p \in Procs, Client(p)
      PROVE  Inv'
  BY <1>2, CreateReadStep, VerifyReadStep, RefundReadStep DEF Client
<1>3. ASSUME NEW p \in Procs, Continue(p)
      PROVE  Inv'
  BY <1>3, CreateCallStep, GiveUpStep, CreateRowStep, CaptureReadStep, CaptureWriteStep,
     FailReadStep, FailWriteStep, RefundCallStep, RefundAnswerLostStep, RefundTxReadStep,
     RefundWriteStep, SyncUpdateStep, SyncCreateStep, ReplyStep DEF Continue
<1>4. ASSUME NEW p \in Procs, Abort(p)
      PROVE  Inv'
  BY <1>4, GiveUpStep
<1>5. ASSUME NEW p \in Procs, NEW e \in Events, Deliver(p, e)
      PROVE  Inv'
  BY <1>5, WebhookCapturedStep, WebhookFailedStep, WebhookRefundStep DEF Deliver
<1>6. CASE UNCHANGED vars
  <2>1. UNCHANGED <<gwVars, dbVars, acked, req, aborts>>
    BY <1>6 DEF vars, gwVars, dbVars
  <2> USE DEF gwVars, dbVars
  <2>2. Grow
    BY <2>1, NoChangeGrows
  <2>3. TypeOK' /\ FreshRow' /\ References' /\ PaidOnce' /\ TxFacts'
    BY <2>1 DEF Inv, TypeOK, FreshRow, References, PaidOnce, TxFacts, Succeeded, Announced
  <2>4. Handlers'
    BY <2>1, <2>2, HandlersRest DEF Inv
  <2>5. RefundFacts'
    BY <2>1 DEF Inv, RefundFacts, Announced, TxOfPayment
  <2>6. AckedSafe'
    BY <2>1, <2>2, SafeStays DEF Inv, AckedSafe
  <2>7. StatusAnnounced' /\ CaptureBacked'
    BY <2>1 DEF Inv, StatusAnnounced, CaptureBacked, LastEvent, Announced, Paid, Succeeded
  <2>8. RefundLedger'
    BY <2>1 DEF Inv, RefundLedger, Succeeded
  <2> QED
    BY <2>3, <2>4, <2>5, <2>6, <2>7, <2>8 DEF Inv
<1> QED
  BY <1>1, <1>2, <1>3, <1>4, <1>5, <1>6 DEF Next

\* The inductive invariant holds in every reachable state.
THEOREM Safety == Spec => []Inv
  BY InitInv, NextInv, PTL DEF Spec

\* Every variable keeps its type: no handler writes a status, an id or an entity
\* that the tables and the gateway do not have.
THEOREM TypeCorrect == Spec => []TypeOK
<1>1. Inv => TypeOK
  BY DEF Inv
<1> QED
  BY <1>1, Safety, PTL

\* Whatever races with them, captureOrderPaymentWithOutbox and
\* failOrderPaymentWithOutbox leave the outbox in agreement with the status of
\* the transaction.
THEOREM StatusIsAnnounced == Spec => []StatusAnnounced
<1>1. Inv => StatusAnnounced
  BY DEF Inv
<1> QED
  BY <1>1, Safety, PTL

\* Nothing is captured, announced or made refundable without a payment of that
\* order at the gateway: verify and the webhooks never mix up two orders.
THEOREM CaptureIsBacked == Spec => []CaptureBacked
<1>1. Inv => CaptureBacked
  BY DEF Inv
<1> QED
  BY <1>1, Safety, PTL

\* A webhook that was answered with 200 has its event in the outbox.
THEOREM AckedAnnounced == Spec => []AckedIsAnnounced
<1>1. Inv => AckedIsAnnounced
  <2> SUFFICES ASSUME Inv
               PROVE  AckedIsAnnounced
    OBVIOUS
  <2>1. \A e \in acked : Safe(e)
    BY DEF Inv, AckedSafe
  <2>2. \A e \in acked \cap CapturedEvents : Announced(GidOf(e), "ORDER_CAPTURED")
    BY <2>1 DEF Safe
  <2>3. \A e \in acked \cap FailedEvents : outbox[GidOf(e)] # <<>>
    BY <2>1, EventIds DEF Safe, GidOf
  <2> QED
    BY <2>2, <2>3 DEF AckedIsAnnounced
<1> QED
  BY <1>1, Safety, PTL

\* payment_refunds never tells of a refund, or of a final status of one, that
\* the gateway does not have, and a REFUNDED transaction has its refund row.
THEOREM RefundsAgree == Spec => []RefundLedger
<1>1. Inv => RefundLedger
  BY DEF Inv
<1> QED
  BY <1>1, Safety, PTL

\* A refund webhook that was answered with 200 is recorded with its final status
\* (if order.paid always carries its payment entity).
THEOREM AckedRefundsRecorded == Spec => []AckedRefundRecorded
<1>1. Inv => AckedRefundRecorded
  BY DEF Inv, AckedSafe, Safe, AckedRefundRecorded
<1> QED
  BY <1>1, Safety, PTL
=============================================================================
