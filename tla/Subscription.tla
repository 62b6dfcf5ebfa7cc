---------------------------- MODULE Subscription ----------------------------
(***************************************************************************)
(* Restaurant subscriptions: ordering a plan, activating it from the       *)
(* verify call or from a webhook, payments that fail or are refunded, and  *)
(* the job that expires subscriptions.                                     *)
(*                                                                         *)
(* As in OrderPayment, a handler takes one action per awaited call, a      *)
(* database transaction is a read step and a commit step, and the gateway  *)
(* delivers each webhook until it is acknowledged.                         *)
(***************************************************************************)
EXTENDS Naturals, FiniteSets

CONSTANTS
    Restaurants,
    Plans,
    Gids,           \* Razorpay order ids
    Pays,           \* Razorpay payment ids
    Sids,           \* subscription ids
    Procs,          \* request handlers that may run at the same time
    Pods,           \* pods, each with one expiry job
    MaxAborts,      \* handlers and jobs that die
    Null

ASSUME NullAssumption == Null \notin Restaurants \cup Plans \cup Gids \cup Pays \cup Sids
ASSUME MaxAbortsAssumption == MaxAborts \in Nat
ASSUME PodsAssumption == IsFiniteSet(Pods)

VARIABLES
    gwOrder,    \* gateway: the restaurant and plan of each order, or Null
    attempt,    \* gateway: the payment attempt behind each id, or Null
    offered,    \* orders that a create call returned to the restaurant
    returned,   \* gateway: payments refunded from its dashboard
    acked,      \* gateway: webhook events answered with a 2xx
    tx,         \* payment_transactions, keyed by razorpayOrderId
    fresh,      \* transactions younger than PENDING_ORDER_REUSE_WINDOW_MS
    invoice,    \* billing_invoices of each transaction, by who made them
    sub,        \* subscriptions
    activated,  \* outbox: ACTIVATED events of each transaction
    expired,    \* outbox: EXPIRED events of each subscription
    req,        \* the local state of each handler
    job,        \* the past due subscriptions each expiry job loaded
    aborts,
    undone      \* history: how often a transaction left SUCCESS

gwVars   == <<gwOrder, attempt, returned>>
payVars  == <<tx, fresh, invoice, offered>>
subVars  == <<sub, activated, expired>>
auxVars  == <<aborts, undone>>
vars     == <<gwOrder, attempt, offered, returned, acked, tx, fresh, invoice,
              sub, activated, expired, req, job, aborts, undone>>

-----------------------------------------------------------------------------
PaymentStatus == {"CREATED", "CAPTURED", "SUCCESS", "FAILED", "REFUNDED"}
InvoiceStatus == {"none", "DRAFT", "PAID", "VOID"}
Makers        == {"order", "activation"}

GwOrder == [rest : Restaurants, plan : Plans]
Attempt == [gid : Gids, ok : BOOLEAN]

\* born numbers the rows by createdAt.
TxRow == [status : PaymentStatus, paymentId : Pays \cup {Null},
          sub : Sids \cup {Null}, born : Nat]

\* due: currentPeriodEnd has passed.
SubRow == [gid : Gids, status : {"ACTIVE", "EXPIRED"}, due : BOOLEAN]

CapturedEvents ==
    [type : {"payment.captured"}, id : Pays] \cup [type : {"order.paid"}, id : Gids]
Events ==
    CapturedEvents \cup [type : {"payment.failed", "refund.processed"}, id : Pays]

Steps == {"idle", "pendingRead", "reset", "createCall", "createRow",
          "createInvoice", "activateRead", "activateWrite", "markFailed",
          "syncRefund", "reply"}

Request == [pc  : Steps,
            ev  : Events \cup {Null},
            ask : GwOrder \cup {Null},
            gid : Gids \cup {Null},
            pay : Pays \cup {Null}]

Idle == [pc |-> "idle", ev |-> Null, ask |-> Null, gid |-> Null, pay |-> Null]

ASSUME RecordAssumption ==
    /\ Null \notin GwOrder /\ Null \notin Attempt /\ Null \notin Events
    /\ Null \notin TxRow /\ Null \notin SubRow

Init ==
    /\ gwOrder   = [g \in Gids |-> Null]
    /\ attempt   = [k \in Pays |-> Null]
    /\ offered   = {}
    /\ returned  = {}
    /\ acked     = {}
    /\ tx        = [g \in Gids |-> Null]
    /\ fresh     = {}
    /\ invoice   = [g \in Gids |-> [m \in Makers |-> "none"]]
    /\ sub       = [s \in Sids |-> Null]
    /\ activated = [g \in Gids |-> 0]
    /\ expired   = [s \in Sids |-> 0]
    /\ req       = [p \in Procs |-> Idle]
    /\ job       = [d \in Pods |-> {}]
    /\ aborts    = 0
    /\ undone    = [g \in Gids |-> 0]

-----------------------------------------------------------------------------
(***************************************************************************)
(* The gateway and the clock (external).                                   *)
(***************************************************************************)
Succeeded(g, k) == attempt[k] = [gid |-> g, ok |-> TRUE]
Paid(g)         == \E k \in Pays : Succeeded(g, k)

\* An order is payable once a create call returned it; the gateway takes its
\* money once, however old the order is.
RestaurantPays(k, g, ok) ==
    /\ attempt[k] = Null
    /\ g \in offered
    /\ ~Paid(g)
    /\ attempt' = [attempt EXCEPT ![k] = [gid |-> g, ok |-> ok]]
    /\ UNCHANGED <<gwOrder, returned, acked, payVars, subVars, req, job, auxVars>>

\* A subscription payment is refunded from the gateway's dashboard only.
DashboardRefund(k) ==
    /\ attempt[k] # Null /\ attempt[k].ok
    /\ k \notin returned
    /\ returned' = returned \cup {k}
    /\ UNCHANGED <<gwOrder, attempt, acked, payVars, subVars, req, job, auxVars>>

\* Fifteen minutes have passed since the transaction was created.
WindowCloses(g) ==
    /\ g \in fresh
    /\ fresh' = fresh \ {g}
    /\ UNCHANGED <<gwVars, acked, tx, invoice, offered, subVars, req, job, auxVars>>

PeriodEnds(s) ==
    /\ sub[s] # Null
    /\ ~sub[s].due
    /\ sub' = [sub EXCEPT ![s].due = TRUE]
    /\ UNCHANGED <<gwVars, acked, payVars, activated, expired, req, job, auxVars>>

-----------------------------------------------------------------------------
(***************************************************************************)
(* CreateSubscriptionOrderUseCase.                                         *)
(***************************************************************************)
\* findActiveByRestaurantId.
HasActive(r) ==
    \E s \in Sids : /\ sub[s] # Null
                    /\ gwOrder[sub[s].gid].rest = r
                    /\ sub[s].status = "ACTIVE"
                    /\ ~sub[s].due

\* An active subscription is an error and changes nothing.
CreateCheck(p, r, n) ==
    /\ req[p].pc = "idle"
    /\ ~HasActive(r)
    /\ req' = [req EXCEPT ![p] = [Idle EXCEPT !.pc  = "pendingRead",
                                              !.ask = [rest |-> r, plan |-> n]]]
    /\ UNCHANGED <<gwVars, acked, payVars, subVars, job, auxVars>>

\* findPendingByRestaurantAndPlan, newest first.
Reusable(ask) ==
    {g \in fresh : /\ gwOrder[g] = ask
                   /\ tx[g].sub = Null
                   /\ tx[g].status \in {"CREATED", "FAILED"}}

Newest(S) == CHOOSE g \in S : \A h \in S : tx[h].born <= tx[g].born

\* A CREATED order is returned as it is, a FAILED one is reset first.
PendingRead(p) ==
    LET S == Reusable(req[p].ask)
        g == Newest(S) IN
    /\ req[p].pc = "pendingRead"
    /\ req' = [req EXCEPT ![p] =
                 CASE S = {} -> [@ EXCEPT !.pc = "createCall"]
                   [] S # {} /\ tx[g].status = "FAILED" ->
                        [@ EXCEPT !.pc = "reset", !.gid = g]
                   [] OTHER -> Idle]
    /\ offered' = IF S # {} /\ tx[g].status = "CREATED"
                    THEN offered \cup {g}
                    ELSE offered
    /\ UNCHANGED <<gwVars, acked, tx, fresh, invoice, subVars, job, auxVars>>

\* What a status write does to the record of how often SUCCESS was undone.
Undo(g) ==
    undone' = IF tx[g].status = "SUCCESS" THEN [undone EXCEPT ![g] = @ + 1] ELSE undone

\* resetToCreated: an update by order id, whatever the status is by now.
ResetToCreated(p) ==
    LET g == req[p].gid IN
    /\ req[p].pc = "reset"
    /\ tx' = [tx EXCEPT ![g].status = "CREATED"]
    /\ Undo(g)
    /\ offered' = offered \cup {g}
    /\ req' = [req EXCEPT ![p] = Idle]
    /\ UNCHANGED <<gwVars, acked, fresh, invoice, subVars, job, aborts>>

\* paymentGateway.createOrder.
CreateCall(p, g) ==
    /\ req[p].pc = "createCall"
    /\ gwOrder[g] = Null
    /\ gwOrder' = [gwOrder EXCEPT ![g] = req[p].ask]
    /\ req' = [req EXCEPT ![p].pc = "createRow", ![p].gid = g]
    /\ UNCHANGED <<attempt, returned, acked, payVars, subVars, job, auxVars>>

\* paymentGateway.createOrder throws.
CreateCallFails(p) ==
    /\ req[p].pc = "createCall"
    /\ req' = [req EXCEPT ![p] = Idle]
    /\ UNCHANGED <<gwVars, acked, payVars, subVars, job, auxVars>>

\* paymentTransactionRepository.create.
CreateRow(p) ==
    LET g == req[p].gid IN
    /\ req[p].pc = "createRow"
    /\ tx' = [tx EXCEPT ![g] =
                [status |-> "CREATED", paymentId |-> Null, sub |-> Null,
                 born |-> Cardinality({h \in Gids : tx[h] # Null})]]
    /\ fresh' = fresh \cup {g}
    /\ req' = [req EXCEPT ![p].pc = "createInvoice"]
    /\ UNCHANGED <<gwVars, acked, invoice, offered, subVars, job, auxVars>>

\* billingInvoiceRepository.create, a third write outside any transaction.
CreateInvoice(p) ==
    /\ req[p].pc = "createInvoice"
    /\ invoice' = [invoice EXCEPT ![req[p].gid]["order"] = "DRAFT"]
    /\ offered' = offered \cup {req[p].gid}
    /\ req' = [req EXCEPT ![p] = Idle]
    /\ UNCHANGED <<gwVars, acked, tx, fresh, subVars, job, auxVars>>

-----------------------------------------------------------------------------
(***************************************************************************)
(* Activation: VerifyPaymentUseCase and the captured webhooks.             *)
(***************************************************************************)
\* Mutant of Complete: every order that is no longer CREATED is taken as settled.
NotCreated(g) == tx[g].status # "CREATED"

Complete(g) == tx[g].status = "SUCCESS" /\ tx[g].sub # Null

\* The verify call of payment k of order g.  An invalid signature and a
\* completed transaction answer without changing anything.
VerifyRead(p, g, k) ==
    /\ req[p].pc = "idle"
    /\ Succeeded(g, k)
    /\ tx[g] # Null
    /\ ~Complete(g)
    /\ req' = [req EXCEPT ![p] =
                 [Idle EXCEPT !.pc = "activateRead", !.gid = g, !.pay = k]]
    /\ UNCHANGED <<gwVars, acked, payVars, subVars, job, auxVars>>

\* Mutant of WebhookCaptured: every transaction that is not CREATED is
\* acknowledged as settled.
WebhookCapturedAcksSettled(p, e, g, k) ==
    /\ req[p].pc = "idle"
    /\ e \notin acked
    /\ e \in {[type |-> "payment.captured", id |-> k], [type |-> "order.paid", id |-> g]}
    /\ Succeeded(g, k)
    /\ req' = [req EXCEPT ![p] =
                 IF tx[g].status # "CREATED"
                   THEN [Idle EXCEPT !.pc = "reply", !.ev = e]
                   ELSE [Idle EXCEPT !.pc  = "activateRead",
                                     !.ev  = e,
                                     !.gid = g,
                                     !.pay = k]]
    /\ UNCHANGED <<gwVars, acked, payVars, subVars, job, auxVars>>

\* payment.captured and order.paid, which carries its payment.  An unknown and a
\* completed transaction are acknowledged at once.
WebhookCaptured(p, e, g, k) ==
    /\ req[p].pc = "idle"
    /\ e \notin acked
    /\ e \in {[type |-> "payment.captured", id |-> k], [type |-> "order.paid", id |-> g]}
    /\ Succeeded(g, k)
    /\ req' = [req EXCEPT ![p] =
                 IF tx[g] = Null \/ Complete(g)
                   THEN [Idle EXCEPT !.pc = "reply", !.ev = e]
                   ELSE [Idle EXCEPT !.pc  = "activateRead",
                                     !.ev  = e,
                                     !.gid = g,
                                     !.pay = k]]
    /\ UNCHANGED <<gwVars, acked, payVars, subVars, job, auxVars>>

\* activateSubscriptionWithOutbox: the read that opens the transaction.
ActivateRead(p) ==
    /\ req[p].pc = "activateRead"
    /\ req' = [req EXCEPT ![p].pc = IF Complete(req[p].gid)
                                      THEN "reply"
                                      ELSE "activateWrite"]
    /\ UNCHANGED <<gwVars, acked, payVars, subVars, job, auxVars>>

\* The invoice that findFirst returns, or the one that is made when there is none.
InvoiceOf(g) ==
    LET M == {m \in Makers : invoice[g][m] # "none"} IN
    IF M = {} THEN {"activation"} ELSE M

\* activateSubscriptionWithOutbox: updateMany claims the row only if it is not
\* SUCCESS (the condition is evaluated under the row lock).  A row claimed by
\* another transaction is answered with that one's subscription.
ActivateClaimed(p) ==
    /\ req[p].pc = "activateWrite"
    /\ Complete(req[p].gid)
    /\ req' = [req EXCEPT ![p].pc = "reply"]
    /\ UNCHANGED <<gwVars, acked, payVars, subVars, job, auxVars>>

\* Mutant of ActivateWrite: the updateMany does not ask for status not SUCCESS.
ActivateWriteUnclaimed(p, s, m) ==
    LET g == req[p].gid IN
    /\ req[p].pc = "activateWrite"
    /\ sub[s] = Null
    /\ m \in InvoiceOf(g)
    /\ tx' = [tx EXCEPT ![g] = [@ EXCEPT !.status = "SUCCESS",
                                         !.paymentId = req[p].pay,
                                         !.sub = s]]
    /\ sub' = [sub EXCEPT ![s] = [gid |-> g, status |-> "ACTIVE", due |-> FALSE]]
    /\ invoice' = [invoice EXCEPT ![g][m] = "PAID"]
    /\ activated' = [activated EXCEPT ![g] = @ + 1]
    /\ req' = [req EXCEPT ![p].pc = "reply"]
    /\ UNCHANGED <<gwVars, acked, fresh, offered, expired, job, auxVars>>

\* Otherwise the claim, the subscription, the invoice and the event commit
\* together.
ActivateWrite(p, s, m) ==
    LET g == req[p].gid IN
    /\ req[p].pc = "activateWrite"
    /\ ~Complete(g)
    /\ sub[s] = Null
    /\ m \in InvoiceOf(g)
    /\ tx' = [tx EXCEPT ![g] = [@ EXCEPT !.status = "SUCCESS",
                                         !.paymentId = req[p].pay,
                                         !.sub = s]]
    /\ sub' = [sub EXCEPT ![s] = [gid |-> g, status |-> "ACTIVE", due |-> FALSE]]
    /\ invoice' = [invoice EXCEPT ![g][m] = "PAID"]
    /\ activated' = [activated EXCEPT ![g] = @ + 1]
    /\ req' = [req EXCEPT ![p].pc = "reply"]
    /\ UNCHANGED <<gwVars, acked, fresh, offered, expired, job, auxVars>>

-----------------------------------------------------------------------------
(***************************************************************************)
(* The payment.failed and refund.processed webhooks.                       *)
(***************************************************************************)
WebhookFailed(p, k) ==
    LET g == attempt[k].gid
        e == [type |-> "payment.failed", id |-> k] IN
    /\ req[p].pc = "idle"
    /\ attempt[k] # Null /\ ~attempt[k].ok
    /\ e \notin acked
    /\ req' = [req EXCEPT ![p] =
                 IF tx[g] = Null \/ tx[g].status \in {"SUCCESS", "CAPTURED"}
                   THEN [Idle EXCEPT !.pc = "reply", !.ev = e]
                   ELSE [Idle EXCEPT !.pc = "markFailed", !.ev = e, !.gid = g]]
    /\ UNCHANGED <<gwVars, acked, payVars, subVars, job, auxVars>>

\* Mutant of MarkFailed: a status that the schema does not have.
MarkFailedTypo(p) ==
    LET g == req[p].gid IN
    /\ req[p].pc = "markFailed"
    /\ tx' = [tx EXCEPT ![g].status = "failed"]
    /\ Undo(g)
    /\ req' = [req EXCEPT ![p].pc = "reply"]
    /\ UNCHANGED <<gwVars, acked, fresh, invoice, offered, subVars, job, aborts>>

\* markFailed: an update by order id, whatever the status is by now.
MarkFailed(p) ==
    LET g == req[p].gid IN
    /\ req[p].pc = "markFailed"
    /\ tx' = [tx EXCEPT ![g].status = "FAILED"]
    /\ Undo(g)
    /\ req' = [req EXCEPT ![p].pc = "reply"]
    /\ UNCHANGED <<gwVars, acked, fresh, invoice, offered, subVars, job, aborts>>

WebhookRefund(p, k) ==
    LET e == [type |-> "refund.processed", id |-> k] IN
    /\ req[p].pc = "idle"
    /\ k \in returned
    /\ e \notin acked
    /\ req' = [req EXCEPT ![p] =
                 [Idle EXCEPT !.pc = "syncRefund", !.ev = e, !.pay = k]]
    /\ UNCHANGED <<gwVars, acked, payVars, subVars, job, auxVars>>

\* Mutant of SyncRefund: the invoices are voided, the transaction is not touched.
SyncRefundInvoicesOnly(p) ==
    LET T == {g \in Gids : tx[g] # Null /\ tx[g].paymentId = req[p].pay} IN
    /\ req[p].pc = "syncRefund"
    /\ invoice' = [g \in Gids |-> [m \in Makers |->
                     IF g \in T /\ invoice[g][m] # "none" THEN "VOID" ELSE invoice[g][m]]]
    /\ req' = [req EXCEPT ![p].pc = "reply"]
    /\ UNCHANGED <<gwVars, acked, tx, fresh, offered, subVars, job, auxVars>>

\* syncRefundFromWebhook: the transaction is found by payment id, or the event
\* is dropped.  The refund rows are modelled in OrderPayment.
SyncRefund(p) ==
    LET T == {g \in Gids : tx[g] # Null /\ tx[g].paymentId = req[p].pay} IN
    /\ req[p].pc = "syncRefund"
    /\ IF T = {}
         THEN UNCHANGED <<tx, invoice, undone>>
         ELSE \E g \in T :
                /\ tx' = [tx EXCEPT ![g].status = "REFUNDED"]
                /\ invoice' = [invoice EXCEPT ![g] =
                     [m \in Makers |-> IF @[m] = "none" THEN "none" ELSE "VOID"]]
                /\ Undo(g)
    /\ req' = [req EXCEPT ![p].pc = "reply"]
    /\ UNCHANGED <<gwVars, acked, fresh, offered, subVars, job, aborts>>

\* The answer: a webhook is acknowledged with 200.
Reply(p) ==
    /\ req[p].pc = "reply"
    /\ acked' = IF req[p].ev = Null THEN acked ELSE acked \cup {req[p].ev}
    /\ req' = [req EXCEPT ![p] = Idle]
    /\ UNCHANGED <<gwVars, payVars, subVars, job, auxVars>>

\* A handler dies between two steps.
Abort(p) ==
    /\ req[p].pc # "idle"
    /\ aborts < MaxAborts
    /\ aborts' = aborts + 1
    /\ req' = [req EXCEPT ![p] = Idle]
    /\ UNCHANGED <<gwVars, acked, payVars, subVars, job, undone>>

-----------------------------------------------------------------------------
(***************************************************************************)
(* PaymentSubscriptionExpiryService.expirePastDueSubscriptions.            *)
(***************************************************************************)
\* Mutant of PastDue: the query does not ask for status ACTIVE.
PastDueAnyStatus == {s \in Sids : sub[s] # Null /\ sub[s].due}

PastDue == {s \in Sids : sub[s] # Null /\ sub[s].status = "ACTIVE" /\ sub[s].due}

\* Mutant of ExpiryRead: a single past due subscription is not worked on.
ExpiryReadSeveral(d) ==
    /\ job[d] = {}
    /\ Cardinality(PastDue) > 1
    /\ job' = [job EXCEPT ![d] = PastDue]
    /\ UNCHANGED <<gwVars, acked, payVars, subVars, req, auxVars>>

\* The findMany outside the transaction; isRunning keeps a pod to one job.
ExpiryRead(d) ==
    /\ job[d] = {}
    /\ PastDue # {}
    /\ job' = [job EXCEPT ![d] = PastDue]
    /\ UNCHANGED <<gwVars, acked, payVars, subVars, req, auxVars>>

\* Mutant of ExpiryWrite: the update selects by date again instead of by the ids
\* that were loaded.
ExpiryWriteByDate(d) ==
    /\ job[d] # {}
    /\ sub' = [s \in Sids |-> IF s \in PastDue
                                THEN [sub[s] EXCEPT !.status = "EXPIRED"]
                                ELSE sub[s]]
    /\ expired' = [s \in Sids |-> IF s \in job[d] THEN expired[s] + 1 ELSE expired[s]]
    /\ job' = [job EXCEPT ![d] = {}]
    /\ UNCHANGED <<gwVars, acked, payVars, activated, req, auxVars>>

\* The transaction: an update by ids and an event for each loaded subscription.
ExpiryWrite(d) ==
    /\ job[d] # {}
    /\ sub' = [s \in Sids |-> IF s \in job[d]
                                THEN [sub[s] EXCEPT !.status = "EXPIRED"]
                                ELSE sub[s]]
    /\ expired' = [s \in Sids |-> IF s \in job[d] THEN expired[s] + 1 ELSE expired[s]]
    /\ job' = [job EXCEPT ![d] = {}]
    /\ UNCHANGED <<gwVars, acked, payVars, activated, req, auxVars>>

\* The job dies or its transaction rolls back; finally resets isRunning.
ExpiryAborts(d) ==
    /\ job[d] # {}
    /\ aborts < MaxAborts
    /\ aborts' = aborts + 1
    /\ job' = [job EXCEPT ![d] = {}]
    /\ UNCHANGED <<gwVars, acked, payVars, subVars, req, undone>>

-----------------------------------------------------------------------------
Client(p) ==
    \/ \E r \in Restaurants, n \in Plans : CreateCheck(p, r, n)
    \/ \E g \in Gids, k \in Pays : VerifyRead(p, g, k)

DeliverCaptured(e) ==
    \E p \in Procs, g \in Gids, k \in Pays : WebhookCaptured(p, e, g, k)
DeliverFailed(k) == \E p \in Procs : WebhookFailed(p, k)
DeliverRefund(k) == \E p \in Procs : WebhookRefund(p, k)

Continue(p) ==
    \/ PendingRead(p) \/ ResetToCreated(p)
    \/ \E g \in Gids : CreateCall(p, g)
    \/ CreateCallFails(p) \/ CreateRow(p) \/ CreateInvoice(p)
    \/ ActivateRead(p) \/ ActivateClaimed(p)
    \/ \E s \in Sids, m \in Makers : ActivateWrite(p, s, m)
    \/ MarkFailed(p) \/ SyncRefund(p) \/ Reply(p)

World ==
    \/ \E k \in Pays, g \in Gids, ok \in BOOLEAN : RestaurantPays(k, g, ok)
    \/ \E k \in Pays : DashboardRefund(k)
    \/ \E g \in Gids : WindowCloses(g)
    \/ \E s \in Sids : PeriodEnds(s)

Next ==
    \/ World
    \/ \E p \in Procs : Client(p) \/ Continue(p) \/ Abort(p)
    \/ \E e \in CapturedEvents : DeliverCaptured(e)
    \/ \E k \in Pays : DeliverFailed(k) \/ DeliverRefund(k)
    \/ \E d \in Pods : ExpiryRead(d) \/ ExpiryWrite(d) \/ ExpiryAborts(d)

Spec == Init /\ [][Next]_vars

\* Handlers run on, captured webhooks are delivered until acknowledged, and the
\* expiry timer of every pod keeps firing.
FairSpec ==
    /\ Spec
    /\ \A p \in Procs : WF_vars(Continue(p))
    /\ \A e \in CapturedEvents : SF_vars(DeliverCaptured(e))
    /\ \A d \in Pods : WF_vars(ExpiryRead(d)) /\ WF_vars(ExpiryWrite(d))

-----------------------------------------------------------------------------
(***************************************************************************)
(* Properties.                                                             *)
(***************************************************************************)
\* Every variable keeps its type.
TypeOK ==
    /\ gwOrder   \in [Gids -> GwOrder \cup {Null}]
    /\ attempt   \in [Pays -> Attempt \cup {Null}]
    /\ offered   \in SUBSET Gids
    /\ returned  \in SUBSET Pays
    /\ acked     \in SUBSET Events
    /\ tx        \in [Gids -> TxRow \cup {Null}]
    /\ fresh     \in SUBSET Gids
    /\ invoice   \in [Gids -> [Makers -> InvoiceStatus]]
    /\ sub       \in [Sids -> SubRow \cup {Null}]
    /\ activated \in [Gids -> Nat]
    /\ expired   \in [Sids -> Nat]
    /\ req       \in [Procs -> Request]
    /\ job       \in [Pods -> SUBSET Sids]
    /\ aborts    \in Nat
    /\ undone    \in [Gids -> Nat]

SubsOf(g) == {s \in Sids : sub[s] # Null /\ sub[s].gid = g}

\* A SUCCESS transaction is complete: its money was captured for this order,
\* its subscription is one that was made for it, it has a PAID invoice and its
\* activation was announced.  activateSubscriptionWithOutbox commits all of it
\* or nothing, whichever handlers race and die.
SuccessIsComplete ==
    \A g \in Gids : tx[g] # Null /\ tx[g].status = "SUCCESS" =>
        /\ Succeeded(g, tx[g].paymentId)
        /\ tx[g].sub \in SubsOf(g)
        /\ \E m \in Makers : invoice[g][m] = "PAID"
        /\ activated[g] > 0

\* One payment activates one subscription, unless the transaction was taken out
\* of SUCCESS by markFailed, resetToCreated or a refund: concurrent verify calls
\* and webhooks alone never activate twice, and each activation is announced
\* exactly once.
ActivationClaimedOnce ==
    \A g \in Gids :
        /\ activated[g] = Cardinality(SubsOf(g))
        /\ activated[g] <= undone[g] +
             (IF tx[g] # Null /\ tx[g].status = "SUCCESS" THEN 1 ELSE 0)

\* A captured webhook is acknowledged only after the subscription it pays for
\* was activated and announced.
AckedIsActivated ==
    \A e \in acked, g \in Gids, k \in Pays :
        /\ Succeeded(g, k)
        /\ e \in {[type |-> "payment.captured", id |-> k], [type |-> "order.paid", id |-> g]}
        => activated[g] > 0

\* A subscription that is EXPIRED was announced as expired, and one that is not
\* past due is never expired.
ExpiryAnnounced ==
    \A s \in Sids : sub[s] # Null =>
        /\ sub[s].status = "EXPIRED" => expired[s] > 0 /\ sub[s].due
        /\ sub[s].status = "ACTIVE" => expired[s] = 0

\* No pod announces a subscription as expired twice: isRunning keeps the runs of
\* its job apart, and what one run has written the next one does not load.  Jobs
\* of different pods overlap, and each may announce it.
ExpiredOncePerPod == \A s \in Sids : expired[s] <= Cardinality(Pods)

\* A captured payment eventually activates its subscription, also when an
\* earlier attempt on the same order failed and no client calls verify.
PaidIsActivated == \A g \in Gids : Paid(g) ~> activated[g] > 0

\* A past due subscription is eventually expired.
PastDueIsExpired ==
    \A s \in Sids : (s \in PastDue) ~> (sub[s] # Null /\ sub[s].status = "EXPIRED")

-----------------------------------------------------------------------------
(***************************************************************************)
(* What the code says of itself, and the interleavings refute.             *)
(***************************************************************************)
\* Verifying a payment again returns idempotently
\* (verify-payment.use-case.ts, "Returning idempotently").
ActivatedOnce == \A g \in Gids : activated[g] <= 1
=============================================================================
