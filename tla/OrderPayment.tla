---------------------------- MODULE OrderPayment ----------------------------
(***************************************************************************)
(* The payment of a food order: creating the gateway order, verifying the  *)
(* payment, the Razorpay webhooks, and refunds.                            *)
(*                                                                         *)
(* Every HTTP handler is a process that takes one action per awaited call. *)
(* What the handler computes between two awaits is part of the action; the *)
(* PaymentTransaction entity it loaded stays in its local state and may be *)
(* stale when it is written back.  A Prisma $transaction runs at Postgres' *)
(* default READ COMMITTED: its findUnique takes no lock, so it is a step   *)
(* of its own, and its writes and commit are one step, because the row     *)
(* lock is held from the first write to the commit.                        *)
(*                                                                         *)
(* The gateway is external: it holds orders, payment attempts and refunds, *)
(* and delivers a webhook for each fact until the service acknowledges it, *)
(* in any order and possibly to several handlers at once.                  *)
(***************************************************************************)
EXTENDS Naturals, Sequences, FiniteSets

CONSTANTS
    Orders,         \* food orders
    Amounts,        \* amounts in paise a client asks for
    Gids,           \* Razorpay order ids
    Pays,           \* Razorpay payment ids (payment attempts)
    Refs,           \* Razorpay refund ids
    Procs,          \* request handlers that may run at the same time
    Null,
    MaxAborts,      \* how many handlers die (crash, lost answer, db error)
    BareOrderPaid   \* whether order.paid may come without its payment entity

ASSUME NullAssumption ==
    Null \notin Orders \cup Amounts \cup Gids \cup Pays \cup Refs
ASSUME MaxAbortsAssumption == MaxAborts \in Nat
ASSUME BareAssumption == BareOrderPaid \in BOOLEAN

VARIABLES
    gwOrder,    \* gateway: the order behind each id, or Null
    attempt,    \* gateway: the payment attempt behind each id, or Null
    gwRefund,   \* gateway: the refund behind each id, or Null
    acked,      \* gateway: webhook events answered with a 2xx
    tx,         \* payment_transactions, keyed by razorpayOrderId (unique)
    latest,     \* the newest transaction of each food order (createdAt desc)
    refund,     \* payment_refunds, keyed by razorpayRefundId (unique)
    outbox,     \* outbox_events of each transaction, in commit order
    req,        \* the local state of each handler
    aborts      \* handlers that died so far

gwVars == <<gwOrder, attempt, gwRefund>>
dbVars == <<tx, latest, refund, outbox>>
vars   == <<gwOrder, attempt, gwRefund, acked, tx, latest, refund, outbox,
            req, aborts>>

-----------------------------------------------------------------------------
(***************************************************************************)
(* Data.                                                                   *)
(***************************************************************************)
PaymentStatus == {"CREATED", "CAPTURED", "SUCCESS", "FAILED", "REFUNDED"}
RefundStatus  == {"PENDING", "PROCESSED", "FAILED"}

\* An order as the gateway keeps it.
GwOrder == [order : Orders, amount : Amounts]

\* A payment attempt on a gateway order; ok when the money was captured.
Attempt == [gid : Gids, ok : BOOLEAN]

\* A refund of a payment at the gateway.
GwRefund == [pay : Pays, status : RefundStatus]

\* The columns of payment_transactions that the handlers branch on.  The food
\* order and the amount are those of the gateway order.
TxRow == [status : PaymentStatus, paymentId : Pays \cup {Null}]

RefundRow == [gid : Gids, status : RefundStatus]

PAYMENT_EVENTS == {"ORDER_CAPTURED", "ORDER_FAILED"}

\* Webhook events, each about one object of the gateway.
CapturedEvents ==
    [type : {"payment.captured"}, id : Pays] \cup [type : {"order.paid"}, id : Gids]
FailedEvents   == [type : {"payment.failed"}, id : Pays]
RefundEvents   == [type : {"refund.processed", "refund.failed"}, id : Refs]
Events         == CapturedEvents \cup FailedEvents \cup RefundEvents

Steps == {"idle", "createCall", "createRow", "captureRead", "captureWrite",
          "failRead", "failWrite", "refundCall", "refundRead", "refundWrite",
          "syncUpdate", "syncCreate", "reply"}

\* A handler: where it is, the webhook event it answers, the order it is asked
\* to create, the transaction it works on with the entity it loaded, and the
\* refund it records with the status it got for it.
Request == [pc  : Steps,
            ev  : Events \cup {Null},
            ask : GwOrder \cup {Null},
            gid : Gids \cup {Null},
            ent : TxRow \cup {Null},
            ref : Refs \cup {Null},
            rst : RefundStatus \cup {Null}]

Idle == [pc |-> "idle", ev |-> Null, ask |-> Null, gid |-> Null, ent |-> Null,
         ref |-> Null, rst |-> Null]

ASSUME RecordAssumption ==
    /\ Null \notin GwOrder /\ Null \notin Attempt /\ Null \notin GwRefund
    /\ Null \notin TxRow /\ Null \notin RefundRow /\ Null \notin Events
    /\ Null \notin RefundStatus

Init ==
    /\ gwOrder  = [g \in Gids |-> Null]
    /\ attempt  = [k \in Pays |-> Null]
    /\ gwRefund = [r \in Refs |-> Null]
    /\ acked    = {}
    /\ tx       = [g \in Gids |-> Null]
    /\ latest   = [o \in Orders |-> Null]
    /\ refund   = [r \in Refs |-> Null]
    /\ outbox   = [g \in Gids |-> <<>>]
    /\ req      = [p \in Procs |-> Idle]
    /\ aborts   = 0

-----------------------------------------------------------------------------
(***************************************************************************)
(* The PaymentTransaction entity.                                          *)
(***************************************************************************)
\* capture() throws InvalidPaymentStateTransitionError for a FAILED payment.
canCapture(row) == row.status # "FAILED"

capture(row, k) ==
    IF row.status = "CAPTURED"
      THEN row
      ELSE [status    |-> "CAPTURED",
            paymentId |-> IF k # Null THEN k ELSE row.paymentId]

\* Mutant of markFailed: a status that the schema does not have.
markFailedTypo(row) == [row EXCEPT !.status = "failed"]

markFailed(row) ==
    IF row.status \in {"CAPTURED", "SUCCESS"}
      THEN row
      ELSE [row EXCEPT !.status = "FAILED"]

\* A refund is always of the full amount: assertCanRefund rejects any other.
assertCanRefund(row) ==
    /\ row.status \in {"CAPTURED", "SUCCESS"}
    /\ row.paymentId # Null

markRefunded(row) == [row EXCEPT !.status = "REFUNDED"]

-----------------------------------------------------------------------------
(***************************************************************************)
(* The gateway (external).                                                 *)
(***************************************************************************)
Succeeded(g, k) == attempt[k] = [gid |-> g, ok |-> TRUE]
Paid(g)         == \E k \in Pays : Succeeded(g, k)

\* Mutant of verifyPaymentSignature: the order id is left out of the signature.
verifyPaymentOnly(g, k) == attempt[k] # Null /\ attempt[k].ok

\* The HMAC over "orderId|paymentId" exists only for a payment that succeeded.
verifyPaymentSignature(g, k) == Succeeded(g, k)

\* The facts that the gateway tells the service of.
Occurred(e) ==
    CASE e.type = "payment.captured" -> attempt[e.id] # Null /\ attempt[e.id].ok
      [] e.type = "order.paid"       -> Paid(e.id)
      [] e.type = "payment.failed"   -> attempt[e.id] # Null /\ ~attempt[e.id].ok
      [] e.type = "refund.processed" ->
            gwRefund[e.id] # Null /\ gwRefund[e.id].status = "PROCESSED"
      [] e.type = "refund.failed"    ->
            gwRefund[e.id] # Null /\ gwRefund[e.id].status = "FAILED"

\* The customer pays, or fails to, in the checkout of an order that the create
\* call returned, so after its row exists.  The gateway takes the money of an
\* order once; failed attempts may be repeated.
CustomerPays(k, g, ok) ==
    /\ attempt[k] = Null
    /\ tx[g] # Null
    /\ ~Paid(g)
    /\ attempt' = [attempt EXCEPT ![k] = [gid |-> g, ok |-> ok]]
    /\ UNCHANGED <<gwOrder, gwRefund, acked, dbVars, req, aborts>>

\* A pending refund reaches its final status.
RefundSettles(r, s) ==
    /\ gwRefund[r] # Null
    /\ gwRefund[r].status = "PENDING"
    /\ gwRefund' = [gwRefund EXCEPT ![r].status = s]
    /\ UNCHANGED <<gwOrder, attempt, acked, dbVars, req, aborts>>

\* A full refund exists once: the gateway refuses a second one unless the
\* first failed.
Refundable(k) == \A r \in Refs : gwRefund[r] # Null => 
                    gwRefund[r].pay # k \/ gwRefund[r].status = "FAILED"

-----------------------------------------------------------------------------
(***************************************************************************)
(* CreateOrderPaymentUseCase.                                              *)
(***************************************************************************)
\* findByCustomerOrderId and the decision to make a new gateway order.  The
\* other outcomes answer without changing anything: a captured order is an
\* error, and a CREATED one of the same amount is returned again.
CreateRead(p, o, a) ==
    LET g == latest[o] IN
    /\ req[p].pc = "idle"
    /\ g # Null =>
         /\ tx[g].status \notin {"CAPTURED", "SUCCESS"}
         /\ ~(tx[g].status = "CREATED" /\ gwOrder[g].amount = a)
    /\ req' = [req EXCEPT ![p] =
                 [Idle EXCEPT !.pc = "createCall", !.ask = [order |-> o, amount |-> a]]]
    /\ UNCHANGED <<gwVars, acked, dbVars, aborts>>

\* paymentGateway.createOrder.
CreateCall(p, g) ==
    /\ req[p].pc = "createCall"
    /\ gwOrder[g] = Null
    /\ gwOrder' = [gwOrder EXCEPT ![g] = req[p].ask]
    /\ req' = [req EXCEPT ![p].pc = "createRow", ![p].gid = g]
    /\ UNCHANGED <<attempt, gwRefund, acked, dbVars, aborts>>

\* paymentGateway.createOrder throws: the error answer, and nothing was made.
CreateCallFails(p) ==
    /\ req[p].pc = "createCall"
    /\ req' = [req EXCEPT ![p] = Idle]
    /\ UNCHANGED <<gwVars, acked, dbVars, aborts>>

\* paymentTransactionRepository.create.
CreateRow(p) ==
    LET g == req[p].gid IN
    /\ req[p].pc = "createRow"
    /\ tx' = [tx EXCEPT ![g] = [status |-> "CREATED", paymentId |-> Null]]
    /\ latest' = [latest EXCEPT ![req[p].ask.order] = g]
    /\ req' = [req EXCEPT ![p] = Idle]
    /\ UNCHANGED <<gwVars, acked, refund, outbox, aborts>>

-----------------------------------------------------------------------------
(***************************************************************************)
(* Capturing: VerifyOrderPaymentUseCase and the captured webhooks.         *)
(***************************************************************************)
\* The customer's client asks to verify payment k of order g.  A captured
\* transaction, an invalid signature and a FAILED transaction answer without
\* changing anything.
VerifyRead(p, g, k) ==
    /\ req[p].pc = "idle"
    /\ tx[g] # Null
    /\ tx[g].status # "CAPTURED"
    /\ verifyPaymentSignature(g, k)
    /\ canCapture(tx[g])
    /\ req' = [req EXCEPT ![p] = [Idle EXCEPT !.pc  = "captureRead",
                                              !.gid = g,
                                              !.ent = capture(tx[g], k)]]
    /\ UNCHANGED <<gwVars, acked, dbVars, aborts>>

\* The payment ids that a captured webhook may carry.
PayloadOf(e) ==
    IF e.type = "payment.captured"
      THEN {e.id}
      ELSE {k \in Pays : Succeeded(e.id, k)}
             \cup (IF BareOrderPaid THEN {Null} ELSE {})

GidOf(e) == IF e.type = "order.paid" THEN e.id ELSE attempt[e.id].gid

\* Mutant of WebhookCaptured: every transaction that is not CREATED is
\* acknowledged as settled.
WebhookCapturedAcksSettled(p, e) ==
    LET g == GidOf(e) IN
    /\ req[p].pc = "idle"
    /\ Occurred(e)
    /\ e \notin acked
    /\ IF tx[g].status # "CREATED"
         THEN req' = [req EXCEPT ![p] = [Idle EXCEPT !.pc = "reply", !.ev = e]]
         ELSE \E k \in PayloadOf(e) :
                req' = [req EXCEPT ![p] = [Idle EXCEPT !.pc  = "captureRead",
                                                       !.ev  = e,
                                                       !.gid = g,
                                                       !.ent = capture(tx[g], k)]]
    /\ UNCHANGED <<gwVars, acked, dbVars, aborts>>

\* payment.captured and order.paid.  An unknown or a captured transaction is
\* acknowledged at once; a FAILED one makes capture() throw, and the error
\* answer makes the gateway deliver the event again.
WebhookCaptured(p, e) ==
    LET g == GidOf(e) IN
    /\ req[p].pc = "idle"
    /\ Occurred(e)
    /\ e \notin acked
    /\ IF tx[g] = Null \/ tx[g].status = "CAPTURED"
         THEN req' = [req EXCEPT ![p] = [Idle EXCEPT !.pc = "reply", !.ev = e]]
         ELSE /\ canCapture(tx[g])
              /\ \E k \in PayloadOf(e) :
                   req' = [req EXCEPT ![p] = [Idle EXCEPT !.pc  = "captureRead",
                                                          !.ev  = e,
                                                          !.gid = g,
                                                          !.ent = capture(tx[g], k)]]
    /\ UNCHANGED <<gwVars, acked, dbVars, aborts>>

\* captureOrderPaymentWithOutbox: the read that opens the transaction.
CaptureRead(p) ==
    /\ req[p].pc = "captureRead"
    /\ req' = [req EXCEPT ![p].pc = IF tx[req[p].gid].status = "CAPTURED"
                                      THEN "reply"
                                      ELSE "captureWrite"]
    /\ UNCHANGED <<gwVars, acked, dbVars, aborts>>

\* Mutant of CaptureWrite: the entity is changed and never saved.
CaptureWriteUnsaved(p) ==
    /\ req[p].pc = "captureWrite"
    /\ outbox' = [outbox EXCEPT ![req[p].gid] = Append(@, "ORDER_CAPTURED")]
    /\ req' = [req EXCEPT ![p].pc = "reply"]
    /\ UNCHANGED <<gwVars, acked, tx, latest, refund, aborts>>

\* captureOrderPaymentWithOutbox: the update by id and the outbox insert.
CaptureWrite(p) ==
    LET g == req[p].gid IN
    /\ req[p].pc = "captureWrite"
    /\ tx' = [tx EXCEPT ![g] = req[p].ent]
    /\ outbox' = [outbox EXCEPT ![g] = Append(@, "ORDER_CAPTURED")]
    /\ req' = [req EXCEPT ![p].pc = "reply"]
    /\ UNCHANGED <<gwVars, acked, latest, refund, aborts>>

-----------------------------------------------------------------------------
(***************************************************************************)
(* The payment.failed webhook.                                             *)
(***************************************************************************)
WebhookFailed(p, e) ==
    LET g == attempt[e.id].gid IN
    /\ req[p].pc = "idle"
    /\ Occurred(e)
    /\ e \notin acked
    /\ req' = [req EXCEPT ![p] =
                 IF tx[g] = Null \/ tx[g].status \in {"SUCCESS", "CAPTURED"}
                   THEN [Idle EXCEPT !.pc = "reply", !.ev = e]
                   ELSE [Idle EXCEPT !.pc  = "failRead",
                                     !.ev  = e,
                                     !.gid = g,
                                     !.ent = markFailed(tx[g])]]
    /\ UNCHANGED <<gwVars, acked, dbVars, aborts>>

\* failOrderPaymentWithOutbox: the read that opens the transaction.
FailRead(p) ==
    /\ req[p].pc = "failRead"
    /\ req' = [req EXCEPT ![p].pc =
                 IF tx[req[p].gid].status \in {"CAPTURED", "SUCCESS", "FAILED"}
                   THEN "reply"
                   ELSE "failWrite"]
    /\ UNCHANGED <<gwVars, acked, dbVars, aborts>>

\* Mutant of FailWrite: the status is committed without its outbox event.
FailWriteSilent(p) ==
    /\ req[p].pc = "failWrite"
    /\ tx' = [tx EXCEPT ![req[p].gid].status = req[p].ent.status]
    /\ req' = [req EXCEPT ![p].pc = "reply"]
    /\ UNCHANGED <<gwVars, acked, latest, refund, outbox, aborts>>

\* failOrderPaymentWithOutbox: the update writes the status, not the payment id.
FailWrite(p) ==
    LET g == req[p].gid IN
    /\ req[p].pc = "failWrite"
    /\ tx' = [tx EXCEPT ![g].status = req[p].ent.status]
    /\ outbox' = [outbox EXCEPT ![g] = Append(@, "ORDER_FAILED")]
    /\ req' = [req EXCEPT ![p].pc = "reply"]
    /\ UNCHANGED <<gwVars, acked, latest, refund, aborts>>

-----------------------------------------------------------------------------
(***************************************************************************)
(* ProcessOrderRefundUseCase.                                              *)
(***************************************************************************)
\* The newest transaction of the food order is the one that is refunded.
RefundRead(p, o) ==
    LET g == latest[o] IN
    /\ req[p].pc = "idle"
    /\ g # Null
    /\ assertCanRefund(tx[g])
    /\ req' = [req EXCEPT ![p] =
                 [Idle EXCEPT !.pc = "refundCall", !.gid = g, !.ent = tx[g]]]
    /\ UNCHANGED <<gwVars, acked, dbVars, aborts>>

\* paymentGateway.createRefund answers; every status but processed is taken for
\* PENDING.
RefundCall(p, r, s) ==
    LET k == req[p].ent.paymentId IN
    /\ req[p].pc = "refundCall"
    /\ gwRefund[r] = Null
    /\ Refundable(k)
    /\ gwRefund' = [gwRefund EXCEPT ![r] = [pay |-> k, status |-> s]]
    /\ req' = [req EXCEPT ![p] =
                 [req[p] EXCEPT !.pc  = "refundRead",
                                !.ref = r,
                                !.rst = IF s = "PROCESSED" THEN "PROCESSED" ELSE "PENDING",
                                !.ent = markRefunded(req[p].ent)]]
    /\ UNCHANGED <<gwOrder, attempt, acked, dbVars, aborts>>

\* paymentGateway.createRefund throws although the gateway made the refund.
RefundAnswerLost(p, r) ==
    LET k == req[p].ent.paymentId IN
    /\ req[p].pc = "refundCall"
    /\ gwRefund[r] = Null
    /\ Refundable(k)
    /\ gwRefund' = [gwRefund EXCEPT ![r] = [pay |-> k, status |-> "PENDING"]]
    /\ req' = [req EXCEPT ![p] = Idle]
    /\ UNCHANGED <<gwOrder, attempt, acked, dbVars, aborts>>

\* paymentGateway.createRefund throws: refused or unreachable.
RefundRefused(p) ==
    /\ req[p].pc = "refundCall"
    /\ req' = [req EXCEPT ![p] = Idle]
    /\ UNCHANGED <<gwVars, acked, dbVars, aborts>>

\* processOrderRefund: the read that opens the transaction; a REFUNDED row
\* throws PaymentAlreadyRefundedError.
RefundTxRead(p) ==
    /\ req[p].pc = "refundRead"
    /\ req' = IF tx[req[p].gid].status = "REFUNDED"
                THEN [req EXCEPT ![p] = Idle]
                ELSE [req EXCEPT ![p].pc = "refundWrite"]
    /\ UNCHANGED <<gwVars, acked, dbVars, aborts>>

\* Mutant of RefundWrite: a refund the gateway accepted is taken as processed.
RefundWriteOptimistic(p) ==
    LET g == req[p].gid
        r == req[p].ref IN
    /\ req[p].pc = "refundWrite"
    /\ IF refund[r] # Null
         THEN UNCHANGED <<tx, refund>>
         ELSE /\ tx' = [tx EXCEPT ![g].status = req[p].ent.status]
              /\ refund' = [refund EXCEPT ![r] = [gid |-> g, status |-> "PROCESSED"]]
    /\ req' = [req EXCEPT ![p] = Idle]
    /\ UNCHANGED <<gwVars, acked, latest, outbox, aborts>>

\* processOrderRefund: the writes.  A refund row with this id violates the
\* unique key and rolls the transaction back.  Food orders have no invoice.
RefundWrite(p) ==
    LET g == req[p].gid
        r == req[p].ref IN
    /\ req[p].pc = "refundWrite"
    /\ IF refund[r] # Null
         THEN UNCHANGED <<tx, refund>>
         ELSE /\ tx' = [tx EXCEPT ![g].status = req[p].ent.status]
              /\ refund' = [refund EXCEPT ![r] = [gid |-> g, status |-> req[p].rst]]
    /\ req' = [req EXCEPT ![p] = Idle]
    /\ UNCHANGED <<gwVars, acked, latest, outbox, aborts>>

-----------------------------------------------------------------------------
(***************************************************************************)
(* The refund.processed and refund.failed webhooks: syncRefundFromWebhook. *)
(***************************************************************************)
WebhookRefund(p, e) ==
    /\ req[p].pc = "idle"
    /\ Occurred(e)
    /\ e \notin acked
    /\ req' = [req EXCEPT ![p] =
                 [Idle EXCEPT !.pc  = IF refund[e.id] # Null
                                        THEN "syncUpdate"
                                        ELSE "syncCreate",
                              !.ev  = e,
                              !.ref = e.id,
                              !.rst = IF e.type = "refund.processed"
                                        THEN "PROCESSED"
                                        ELSE "FAILED"]]
    /\ UNCHANGED <<gwVars, acked, dbVars, aborts>>

\* A processed refund makes its transaction REFUNDED; a failed one leaves it.
TxAfterRefund(g, s) ==
    IF s = "PROCESSED" THEN [tx EXCEPT ![g].status = "REFUNDED"] ELSE tx

\* The refund row exists: set its status.
SyncUpdate(p) ==
    LET r == req[p].ref IN
    /\ req[p].pc = "syncUpdate"
    /\ refund' = [refund EXCEPT ![r].status = req[p].rst]
    /\ tx' = TxAfterRefund(refund[r].gid, req[p].rst)
    /\ req' = [req EXCEPT ![p].pc = "reply"]
    /\ UNCHANGED <<gwVars, acked, latest, outbox, aborts>>

TxOfPayment(k) == {g \in Gids : tx[g] # Null /\ tx[g].paymentId = k}

\* Mutant of SyncCreate: the unique key violation is swallowed and acknowledged.
SyncCreateSwallows(p) ==
    LET r == req[p].ref
        T == TxOfPayment(gwRefund[r].pay) IN
    /\ req[p].pc = "syncCreate"
    /\ IF T = {} \/ refund[r] # Null
         THEN UNCHANGED <<tx, refund>>
         ELSE \E g \in T :
                /\ refund' = [refund EXCEPT ![r] = [gid |-> g, status |-> req[p].rst]]
                /\ tx' = TxAfterRefund(g, req[p].rst)
    /\ req' = [req EXCEPT ![p].pc = "reply"]
    /\ UNCHANGED <<gwVars, acked, latest, outbox, aborts>>

\* The refund row did not exist: find the transaction by payment id and insert
\* it.  No such transaction: acknowledged.  A row inserted meanwhile violates
\* the unique key, and the error answer makes the gateway deliver again.
SyncCreate(p) ==
    LET r == req[p].ref
        T == TxOfPayment(gwRefund[r].pay) IN
    /\ req[p].pc = "syncCreate"
    /\ \/ /\ T = {}
          /\ req' = [req EXCEPT ![p].pc = "reply"]
          /\ UNCHANGED <<tx, refund>>
       \/ /\ T # {}
          /\ refund[r] # Null
          /\ req' = [req EXCEPT ![p] = Idle]
          /\ UNCHANGED <<tx, refund>>
       \/ \E g \in T :
            /\ refund[r] = Null
            /\ refund' = [refund EXCEPT ![r] = [gid |-> g, status |-> req[p].rst]]
            /\ tx' = TxAfterRefund(g, req[p].rst)
            /\ req' = [req EXCEPT ![p].pc = "reply"]
    /\ UNCHANGED <<gwVars, acked, latest, outbox, aborts>>

-----------------------------------------------------------------------------
\* The answer: a webhook is acknowledged with 200.
Reply(p) ==
    /\ req[p].pc = "reply"
    /\ acked' = IF req[p].ev = Null THEN acked ELSE acked \cup {req[p].ev}
    /\ req' = [req EXCEPT ![p] = Idle]
    /\ UNCHANGED <<gwVars, dbVars, aborts>>

\* A handler dies between two steps: the pod crashes, the database aborts the
\* transaction (a deadlock victim, a lost connection), the answer is lost.
Abort(p) ==
    /\ req[p].pc # "idle"
    /\ aborts < MaxAborts
    /\ aborts' = aborts + 1
    /\ req' = [req EXCEPT ![p] = Idle]
    /\ UNCHANGED <<gwVars, acked, dbVars>>

Deliver(p, e) ==
    \/ e \in CapturedEvents /\ WebhookCaptured(p, e)
    \/ e \in FailedEvents /\ WebhookFailed(p, e)
    \/ e \in RefundEvents /\ WebhookRefund(p, e)

\* The steps a running handler takes without anyone's choice.
Continue(p) ==
    \/ \E g \in Gids : CreateCall(p, g)
    \/ CreateCallFails(p)
    \/ CreateRow(p)
    \/ CaptureRead(p) \/ CaptureWrite(p)
    \/ FailRead(p) \/ FailWrite(p)
    \/ \E r \in Refs, s \in RefundStatus : RefundCall(p, r, s)
    \/ \E r \in Refs : RefundAnswerLost(p, r)
    \/ RefundRefused(p)
    \/ RefundTxRead(p) \/ RefundWrite(p)
    \/ SyncUpdate(p) \/ SyncCreate(p)
    \/ Reply(p)

Client(p) ==
    \/ \E o \in Orders, a \in Amounts : CreateRead(p, o, a)
    \/ \E g \in Gids, k \in Pays : VerifyRead(p, g, k)
    \/ \E o \in Orders : RefundRead(p, o)

Gateway ==
    \/ \E k \in Pays, g \in Gids, ok \in BOOLEAN : CustomerPays(k, g, ok)
    \/ \E r \in Refs, s \in {"PROCESSED", "FAILED"} : RefundSettles(r, s)

Next ==
    \/ Gateway
    \/ \E p \in Procs : Client(p) \/ Continue(p) \/ Abort(p)
    \/ \E p \in Procs, e \in Events : Deliver(p, e)

Spec == Init /\ [][Next]_vars

\* The gateway delivers every event it has until it is acknowledged, and every
\* handler that was started goes on to its end unless it aborts.  Clients are
\* free to ask or not, and the gateway to settle a refund or not.
FairSpec ==
    /\ Spec
    /\ \A p \in Procs : WF_vars(Continue(p))
    /\ \A e \in Events : SF_vars(\E p \in Procs : Deliver(p, e))

-----------------------------------------------------------------------------
(***************************************************************************)
(* Properties.                                                             *)
(***************************************************************************)
\* Every variable keeps its type.
TypeOK ==
    /\ gwOrder  \in [Gids -> GwOrder \cup {Null}]
    /\ attempt  \in [Pays -> Attempt \cup {Null}]
    /\ gwRefund \in [Refs -> GwRefund \cup {Null}]
    /\ acked    \in SUBSET Events
    /\ tx       \in [Gids -> TxRow \cup {Null}]
    /\ latest   \in [Orders -> Gids \cup {Null}]
    /\ refund   \in [Refs -> RefundRow \cup {Null}]
    /\ outbox   \in [Gids -> Seq(PAYMENT_EVENTS)]
    /\ req      \in [Procs -> Request]
    /\ aborts   \in Nat

Announced(g, t) == \E i \in 1..Len(outbox[g]) : outbox[g][i] = t

LastEvent(g) == outbox[g][Len(outbox[g])]

\* What the other services are told agrees with the database: the last outbox
\* event of a CAPTURED or FAILED transaction is the event of that status, a
\* CREATED one has none, and a REFUNDED one was announced as captured.  Every
\* status write of captureOrderPaymentWithOutbox and
\* failOrderPaymentWithOutbox commits with its event, whatever races with it.
StatusAnnounced ==
    \A g \in Gids : tx[g] # Null =>
        /\ tx[g].status = "CREATED"  => outbox[g] = <<>>
        /\ tx[g].status = "CAPTURED" =>
              outbox[g] # <<>> /\ LastEvent(g) = "ORDER_CAPTURED"
        /\ tx[g].status = "FAILED"   =>
              outbox[g] # <<>> /\ LastEvent(g) = "ORDER_FAILED"
        /\ tx[g].status = "REFUNDED" => Announced(g, "ORDER_CAPTURED")

\* Nothing is captured, announced or made refundable without the customer's
\* money: a captured status, a captured event and a stored payment id of an
\* order each have a successful payment of that same order at the gateway, and
\* a failed event has a failed attempt.
CaptureBacked ==
    \A g \in Gids :
        /\ Announced(g, "ORDER_CAPTURED") => Paid(g)
        /\ Announced(g, "ORDER_FAILED") =>
              \E k \in Pays : attempt[k] = [gid |-> g, ok |-> FALSE]
        /\ tx[g] # Null /\ tx[g].status \in {"CAPTURED", "REFUNDED"} => Paid(g)
        /\ tx[g] # Null /\ tx[g].paymentId # Null =>
              Succeeded(g, tx[g].paymentId)

\* The gateway is told 200 only when the fact is safe: once a captured webhook
\* is acknowledged its ORDER_CAPTURED event is in the outbox, and once a failed
\* one is, the order has a captured or a failed event.  A handler that dies or
\* throws must not acknowledge.
AckedIsAnnounced ==
    /\ \A e \in acked \cap CapturedEvents : Announced(GidOf(e), "ORDER_CAPTURED")
    /\ \A e \in acked \cap FailedEvents : outbox[GidOf(e)] # <<>>

\* payment_refunds tells what the gateway did: every row is a refund of a
\* payment of its transaction's order, a row is PROCESSED or FAILED only when
\* the gateway's refund is, and a REFUNDED transaction has a refund row.
RefundLedger ==
    /\ \A r \in Refs : refund[r] # Null =>
         /\ gwRefund[r] # Null
         /\ Succeeded(refund[r].gid, gwRefund[r].pay)
         /\ refund[r].status # "PENDING" => refund[r].status = gwRefund[r].status
    /\ \A g \in Gids : tx[g] # Null /\ tx[g].status = "REFUNDED" =>
         \E r \in Refs : refund[r] # Null /\ refund[r].gid = g

\* A refund webhook that was acknowledged is in payment_refunds with its final
\* status, whether the refund request recorded the row before it, died before
\* it could, or raced with it.  (An order.paid without a payment entity can
\* erase the payment id that the webhook is matched by.)
AckedRefundRecorded ==
    ~BareOrderPaid =>
      \A e \in acked \cap RefundEvents :
        /\ refund[e.id] # Null
        /\ refund[e.id].status = gwRefund[e.id].status

\* The webhook safety net: a payment that the gateway captured ends as a
\* captured (or already refunded) transaction, even if the client never calls
\* verify and handlers die.
SafetyNet ==
    \A k \in Pays, g \in Gids :
        attempt[k] = [gid |-> g, ok |-> TRUE]
            ~> (tx[g] # Null /\ tx[g].status \in {"CAPTURED", "REFUNDED"})

\* A refund that the gateway finished is eventually recorded as finished, even
\* if the refund request died between the gateway's answer and its transaction.
RefundReconciled ==
    \A r \in Refs, s \in {"PROCESSED", "FAILED"} :
        (gwRefund[r] # Null /\ gwRefund[r].status = s)
            ~> (refund[r] # Null /\ refund[r].status = s)

-----------------------------------------------------------------------------
(***************************************************************************)
(* What the tests say, and the interleavings refute.                       *)
(***************************************************************************)
\* Verify and webhook do not create a duplicate outbox event
\* (test/order-payment-api.test.ts, AC5).
NoDuplicateCapturedEvent ==
    \A g \in Gids : \A i, j \in 1..Len(outbox[g]) :
        outbox[g][i] = "ORDER_CAPTURED" /\ outbox[g][j] = "ORDER_CAPTURED" => i = j
=============================================================================
