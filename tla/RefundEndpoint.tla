--------------------------- MODULE RefundEndpoint ---------------------------
(***************************************************************************)
(* POST /refund as its caller sees it: the idempotency middleware with its *)
(* cache and lock in Redis around ProcessOrderRefundUseCase.  A request    *)
(* takes one action per awaited call.  The cached answer is looked up      *)
(* before the lock and not again after it; the lock lives for 15 s, is     *)
(* granted when Redis fails, is deleted without looking at its owner, and  *)
(* is given up as soon as the caller's connection closes, although the     *)
(* handler goes on.  Whatever the lock lets through meets the checks of    *)
(* the use case and of its database transaction.                           *)
(*                                                                         *)
(* Every order has one captured transaction of the full amount here; how   *)
(* it got there, and every other interleaving with verify calls and        *)
(* webhooks, is OrderPayment's subject.  A request rejected before the     *)
(* middleware (authentication, body, missing key) changes nothing.         *)
(***************************************************************************)
EXTENDS Naturals, FiniteSets

CONSTANTS
    Orders,
    Keys,           \* X-Idempotency-Key values
    OrderOf,        \* the order a caller uses a key for
    Procs,          \* requests under way at the same time
    Refs,           \* Razorpay refund ids
    MaxFaults,      \* crashes, lost answers and refusals without a reason
    Null

ASSUME OrderOfAssumption == OrderOf \in [Keys -> Orders]
ASSUME NullAssumption    == Null \notin Orders \cup Keys \cup Procs \cup Refs
ASSUME FaultAssumption   == MaxFaults \in Nat

VARIABLES
    cache,      \* Redis: the refund in the answer cached for a key, or Null
    lock,       \* Redis: the request whose SET NX made the lock, or Null
    gwRefund,   \* gateway: [order, failed] of each refund, or Null
    row,        \* payment_transactions.status of each order's transaction
    refund,     \* payment_refunds: the recorded razorpayRefundIds
    req,        \* the requests under way
    told,       \* history: the refunds that 200 answers to a key named
    disturbed,  \* history: keys whose lock was lost while its request ran
    faults

redis == <<cache, lock>>
db    == <<row, refund>>
hist  == <<told, disturbed, faults>>
vars  == <<cache, lock, gwRefund, row, refund, req, told, disturbed, faults>>

Steps == {"idle", "lock", "read", "call", "commitRead", "commitWrite",
          "respond", "store", "release"}

\* The handler runs between the lock and the answer; the lock is held until
\* the release after it.
Inside  == {"read", "call", "commitRead", "commitWrite", "respond"}
Holding == Inside \cup {"store", "release"}

\* open: the caller is still connected and the lock not yet given up.
Request == [pc : Steps, key : Keys \cup {Null}, ref : Refs \cup {Null},
            open : BOOLEAN]

Idle == [pc |-> "idle", key |-> Null, ref |-> Null, open |-> TRUE]

GwRefund == [order : Orders, failed : BOOLEAN]

ASSUME RecordAssumption == Null \notin GwRefund

Init ==
    /\ cache     = [k \in Keys |-> Null]
    /\ lock      = [k \in Keys |-> Null]
    /\ gwRefund  = [r \in Refs |-> Null]
    /\ row       = [o \in Orders |-> "CAPTURED"]
    /\ refund    = {}
    /\ req       = [p \in Procs |-> Idle]
    /\ told      = [k \in Keys |-> {}]
    /\ disturbed = {}
    /\ faults    = 0

-----------------------------------------------------------------------------
At(p, step) == req[p].pc = step

Goto(p, step) == req' = [req EXCEPT ![p].pc = step]

Order(p) == OrderOf[req[p].key]

Made(r) == gwRefund[r] # Null

\* The request ends; its connection and its place are gone.
Done(p) == req' = [req EXCEPT ![p] = Idle]

\* The answer is out: what is left is the release on 'finish'.
Finish(p) == req' = [req EXCEPT ![p].pc = "release", ![p].ref = Null]

\* An error answer is not cached.
Reject(p) == Finish(p)

Answer(k, r) == told' = [told EXCEPT ![k] = @ \cup {r}]

\* `${keyPrefix}${idempotencyKey}`
cacheKey(k) == k

-----------------------------------------------------------------------------
(* idempotencyMiddleware                                                   *)

\* cache.get finds an answer: replay it.
Replay(p, k) ==
    /\ At(p, "idle")
    /\ cache[cacheKey(k)] # Null
    /\ Answer(k, cache[cacheKey(k)])
    /\ UNCHANGED <<redis, gwRefund, db, req, disturbed, faults>>

\* cache.get finds nothing, or Redis fails and it answers null.
Miss(p, k) ==
    /\ At(p, "idle")
    /\ req' = [req EXCEPT ![p] = [Idle EXCEPT !.pc = "lock", !.key = k]]
    /\ UNCHANGED <<redis, gwRefund, db, hist>>

\* Mutant of Acquire: SET without NX.
AcquireAlways(p) ==
    /\ At(p, "lock")
    /\ lock' = [lock EXCEPT ![req[p].key] = p]
    /\ Goto(p, "read")
    /\ UNCHANGED <<cache, gwRefund, db, hist>>

\* acquireLock: SET NX EX 15.
Acquire(p) ==
    /\ At(p, "lock")
    /\ lock[req[p].key] = Null
    /\ lock' = [lock EXCEPT ![req[p].key] = p]
    /\ Goto(p, "read")
    /\ UNCHANGED <<cache, gwRefund, db, hist>>

\* acquireLock answers true when Redis is unreachable.
AcquireOpen(p) ==
    /\ At(p, "lock")
    /\ disturbed' = disturbed \cup {req[p].key}
    /\ Goto(p, "read")
    /\ UNCHANGED <<redis, gwRefund, db, told, faults>>

\* The lock is held: 409.
Busy(p) ==
    /\ At(p, "lock")
    /\ lock[req[p].key] # Null
    /\ Done(p)
    /\ UNCHANGED <<redis, gwRefund, db, hist>>

\* The response's 'close' before its 'finish': the caller timed out.  The lock
\* is released (releaseLockSafely does it once), the handler goes on.
CallerGone(p) ==
    /\ req[p].pc \in Inside
    /\ req[p].open
    /\ req' = [req EXCEPT ![p].open = FALSE]
    /\ lock' = [lock EXCEPT ![req[p].key] = Null]
    /\ disturbed' = disturbed \cup {req[p].key}
    /\ UNCHANGED <<cache, gwRefund, db, told, faults>>

\* res.json with status 200: cache.set is issued and not awaited, the answer
\* goes out if someone still waits for it.
Respond(p) ==
    /\ At(p, "respond")
    /\ IF req[p].open THEN Answer(req[p].key, req[p].ref) ELSE UNCHANGED told
    /\ Goto(p, "store")
    /\ UNCHANGED <<redis, gwRefund, db, disturbed, faults>>

\* Redis executes the SET, before the DEL that the same client sends later.
Store(p) ==
    /\ At(p, "store")
    /\ cache' = [cache EXCEPT ![cacheKey(req[p].key)] = req[p].ref]
    /\ Finish(p)
    /\ UNCHANGED <<lock, gwRefund, db, hist>>

\* cache.set swallows an error.
StoreFails(p) ==
    /\ At(p, "store")
    /\ Finish(p)
    /\ UNCHANGED <<redis, gwRefund, db, hist>>

\* 'finish' after the whole answer was sent: DEL, whoever owns the lock by now.
Release(p) ==
    /\ At(p, "release")
    /\ IF req[p].open THEN lock' = [lock EXCEPT ![req[p].key] = Null]
                      ELSE UNCHANGED lock
    /\ Done(p)
    /\ UNCHANGED <<cache, gwRefund, db, hist>>

\* releaseLock swallows an error: the lock waits for its time to live.
ReleaseFails(p) ==
    /\ At(p, "release")
    /\ Done(p)
    /\ UNCHANGED <<redis, gwRefund, db, hist>>

\* A lock reaches its time to live, its request still under way or not.
ExpireLock(k) ==
    LET p == lock[k] IN
    /\ p # Null
    /\ lock' = [lock EXCEPT ![k] = Null]
    /\ disturbed' = IF req[p].key = k /\ req[p].pc \in Holding
                      THEN disturbed \cup {k} ELSE disturbed
    /\ UNCHANGED <<cache, gwRefund, db, req, told, faults>>

\* A cached answer reaches its 24 h.
ExpireCache(k) ==
    /\ cache[k] # Null
    /\ cache' = [cache EXCEPT ![k] = Null]
    /\ UNCHANGED <<lock, gwRefund, db, req, hist>>

-----------------------------------------------------------------------------
(* OrderPaymentController.processRefund, ProcessOrderRefundUseCase.        *)

\* findByCustomerOrderId and assertCanRefund; a REFUNDED transaction is a 409.
Read(p) ==
    /\ At(p, "read")
    /\ IF row[Order(p)] = "CAPTURED" THEN Goto(p, "call") ELSE Reject(p)
    /\ UNCHANGED <<redis, gwRefund, db, hist>>

\* The gateway allows a full refund unless one exists that has not failed.
Refundable(o) == \A r \in Refs : Made(r) /\ gwRefund[r].order = o => gwRefund[r].failed

createRefund(r, o) ==
    /\ ~Made(r)
    /\ Refundable(o)
    /\ gwRefund' = [gwRefund EXCEPT ![r] = [order |-> o, failed |-> FALSE]]

Call(p, r) ==
    /\ At(p, "call")
    /\ createRefund(r, Order(p))
    /\ req' = [req EXCEPT ![p].pc = "commitRead", ![p].ref = r]
    /\ UNCHANGED <<redis, db, hist>>

\* The gateway makes the refund and its answer is lost: PaymentGatewayError.
CallLost(p, r) ==
    /\ At(p, "call")
    /\ faults < MaxFaults
    /\ faults' = faults + 1
    /\ createRefund(r, Order(p))
    /\ Reject(p)
    /\ UNCHANGED <<redis, db, told, disturbed>>

\* The gateway refuses: a refund exists.
CallRefused(p) ==
    /\ At(p, "call")
    /\ ~Refundable(Order(p))
    /\ Reject(p)
    /\ UNCHANGED <<redis, gwRefund, db, hist>>

\* The gateway cannot be reached.
CallFails(p) ==
    /\ At(p, "call")
    /\ faults < MaxFaults
    /\ faults' = faults + 1
    /\ Reject(p)
    /\ UNCHANGED <<redis, gwRefund, db, told, disturbed>>

\* processOrderRefund: the unlocked read that opens the transaction.
CommitRead(p) ==
    /\ At(p, "commitRead")
    /\ IF row[Order(p)] = "REFUNDED" THEN Reject(p) ELSE Goto(p, "commitWrite")
    /\ UNCHANGED <<redis, gwRefund, db, hist>>

\* Mutant of CommitWrite: only the refund is written.
CommitRefundOnly(p) ==
    /\ At(p, "commitWrite")
    /\ refund' = refund \cup {req[p].ref}
    /\ Goto(p, "respond")
    /\ UNCHANGED <<redis, gwRefund, row, hist>>

\* Mutant of CommitWrite: the row is marked and the refund's insert forgotten.
CommitRowOnly(p) ==
    /\ At(p, "commitWrite")
    /\ row' = [row EXCEPT ![Order(p)] = "REFUNDED"]
    /\ Goto(p, "respond")
    /\ UNCHANGED <<redis, gwRefund, refund, hist>>

\* processOrderRefund: the writes.  A webhook that recorded this refund first
\* makes the insert violate the unique razorpayRefundId, and all is undone.
CommitWrite(p) ==
    /\ At(p, "commitWrite")
    /\ IF req[p].ref \in refund
         THEN Reject(p) /\ UNCHANGED db
         ELSE /\ refund' = refund \cup {req[p].ref}
              /\ row' = [row EXCEPT ![Order(p)] = "REFUNDED"]
              /\ Goto(p, "respond")
    /\ UNCHANGED <<redis, gwRefund, hist>>

\* The pod dies; its lock stays.
Crash(p) ==
    /\ ~At(p, "idle")
    /\ faults < MaxFaults
    /\ faults' = faults + 1
    /\ Done(p)
    /\ UNCHANGED <<redis, gwRefund, db, told, disturbed>>

-----------------------------------------------------------------------------
(* The gateway on its own.                                                 *)

RefundFails(r) ==
    /\ Made(r)
    /\ ~gwRefund[r].failed
    /\ faults < MaxFaults
    /\ faults' = faults + 1
    /\ gwRefund' = [gwRefund EXCEPT ![r].failed = TRUE]
    /\ UNCHANGED <<redis, db, req, told, disturbed>>

\* Mutant of Webhook: a refund without a row is not looked for.
WebhookOfKnown(r) ==
    /\ Made(r)
    /\ ~gwRefund[r].failed
    /\ r \in refund
    /\ row' = [row EXCEPT ![gwRefund[r].order] = "REFUNDED"]
    /\ UNCHANGED <<redis, gwRefund, refund, req, hist>>

\* syncRefundFromWebhook on refund.processed records the refund and marks its
\* transaction; it is delivered until it is acknowledged.
Webhook(r) ==
    /\ Made(r)
    /\ ~gwRefund[r].failed
    /\ refund' = refund \cup {r}
    /\ row' = [row EXCEPT ![gwRefund[r].order] = "REFUNDED"]
    /\ UNCHANGED <<redis, gwRefund, req, hist>>

-----------------------------------------------------------------------------
Progress(p) ==
    \/ Acquire(p) \/ AcquireOpen(p) \/ Busy(p)
    \/ Read(p)
    \/ \E r \in Refs : Call(p, r) \/ CallLost(p, r)
    \/ CallRefused(p) \/ CallFails(p)
    \/ CommitRead(p) \/ CommitWrite(p)
    \/ Respond(p) \/ Store(p) \/ StoreFails(p)
    \/ Release(p) \/ ReleaseFails(p)

Next ==
    \/ \E p \in Procs :
        \/ \E k \in Keys : Replay(p, k) \/ Miss(p, k)
        \/ Progress(p)
        \/ CallerGone(p)
        \/ Crash(p)
    \/ \E k \in Keys : ExpireLock(k) \/ ExpireCache(k)
    \/ \E r \in Refs : RefundFails(r) \/ Webhook(r)

Spec == Init /\ [][Next]_vars

\* A request that has started goes on, Redis keeps its times to live, and the
\* gateway delivers its webhook until it is acknowledged.  That a caller asks
\* again, as long as its order is not refunded, is an assumption on it.
Retry(p, k) == row[OrderOf[k]] # "REFUNDED" /\ Miss(p, k)

FairSpec ==
    /\ Spec
    /\ \A p \in Procs : WF_vars(Progress(p))
    /\ \A k \in Keys : WF_vars(ExpireLock(k)) /\ SF_vars(\E p \in Procs : Retry(p, k))
    /\ \A r \in Refs : WF_vars(Webhook(r))

-----------------------------------------------------------------------------
\* The shape of Redis, the tables and the requests, as the middleware, the
\* schema and the use case use them: inside the handler a request has a key,
\* and from the gateway's answer on a refund of that key's order.
TypeOK ==
    /\ cache     \in [Keys -> Refs \cup {Null}]
    /\ lock      \in [Keys -> Procs \cup {Null}]
    /\ gwRefund  \in [Refs -> GwRefund \cup {Null}]
    /\ row       \in [Orders -> {"CAPTURED", "REFUNDED"}]
    /\ refund    \subseteq {r \in Refs : Made(r)}
    /\ req       \in [Procs -> Request]
    /\ told      \in [Keys -> SUBSET refund]
    /\ disturbed \subseteq Keys
    /\ faults    \in 0..MaxFaults
    /\ \A p \in Procs :
        /\ ~At(p, "idle") => req[p].key # Null
        /\ req[p].pc \in {"commitRead", "commitWrite", "respond", "store"} =>
              req[p].ref # Null /\ gwRefund[req[p].ref].order = Order(p)

\* Two requests with one key are inside the handler together only if the lock
\* of that key was granted without Redis, ran out under its request, or was
\* given up for a caller that had gone.
OverlapNeedsFault ==
    \A k \in Keys \ disturbed :
        Cardinality({p \in Procs : req[p].key = k /\ req[p].pc \in Inside}) <= 1

\* All 200 answers to a key name one refund as long as its lock held, even if
\* the cached answer expired and the refund failed at the gateway meanwhile.
AnswersAgree ==
    \A k \in Keys \ disturbed : Cardinality(told[k]) <= 1

\* Whatever the lock lets through, callers see what RefundOnce promises.
Once == INSTANCE RefundOnce WITH
            made     <- [r \in Refs |-> IF Made(r) THEN gwRefund[r].order ELSE Null],
            failed   <- {r \in Refs : Made(r) /\ gwRefund[r].failed},
            recorded <- refund

ImplementsRefundOnce == Once!Spec

\* A caller that keeps asking gets its order refunded: no lock, no crash and no
\* lost answer stands in the way for ever.
RetrySettles ==
    \A k \in Keys : []<>(row[OrderOf[k]] = "REFUNDED")
=============================================================================
