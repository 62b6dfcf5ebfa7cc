------------------------ MODULE RefundEndpointProofs ------------------------
(***************************************************************************)
(* RefundEndpoint keeps its types and implements RefundOnce, for any       *)
(* number of orders, keys, concurrent requests, refunds and faults, and    *)
(* whatever becomes of the lock.  A key whose lock held has at most one    *)
(* request in the handler, and all its answers name the same refund.       *)
(***************************************************************************)
EXTENDS RefundEndpoint, FiniteSetTheorems, TLAPS

Carrying == {"commitRead", "commitWrite", "respond", "store"}

Fits(r, k) == Made(r) /\ gwRefund[r].order = OrderOf[k]

\* What a request may rely on at the step it is at: from the gateway's answer
\* on it carries a refund of its own order, and an answer names a recorded one.
RequestOK(s) ==
    /\ s.pc # "idle" => s.key \in Keys
    /\ s.pc \in Carrying => s.ref \in Refs /\ Fits(s.ref, s.key)
    /\ s.pc \in {"respond", "store"} => s.ref \in refund

Requests ==
    /\ req \in [Procs -> Request]
    /\ \A p \in Procs : RequestOK(req[p])

\* At most one refund of an order has not failed.
OneLive ==
    \A q, r \in Refs :
        Made(q) /\ Made(r) /\ q # r /\ gwRefund[q].order = gwRefund[r].order =>
            gwRefund[q].failed \/ gwRefund[r].failed

Ledger ==
    /\ gwRefund \in [Refs -> GwRefund \cup {Null}]
    /\ row \in [Orders -> {"CAPTURED", "REFUNDED"}]
    /\ refund \subseteq {r \in Refs : Made(r)}
    /\ OneLive

Redis ==
    /\ cache \in [Keys -> Refs \cup {Null}]
    /\ lock \in [Keys -> Procs \cup {Null}]
    /\ \A k \in Keys : cache[k] # Null => cache[k] \in refund /\ Fits(cache[k], k)

History ==
    /\ told \in [Keys -> SUBSET refund]
    /\ \A k \in Keys : \A r \in told[k] : Fits(r, k)
    /\ disturbed \subseteq Keys
    /\ faults \in 0..MaxFaults

\* The inductive invariant.
Inv == Requests /\ Ledger /\ Redis /\ History

-----------------------------------------------------------------------------
\* What no step takes back: the order of a refund that was made, and a record.
Grow ==
    /\ \A r \in Refs : Made(r) => Made(r)' /\ gwRefund'[r].order = gwRefund[r].order
    /\ refund \subseteq refund'

LEMMA InvImpliesType == Inv => TypeOK
BY NullAssumption DEF Inv, Requests, RequestOK, Ledger, Redis, History, TypeOK,
     Carrying, Fits, At, Order, Request

LEMMA InitInv == Init => Inv
<1> SUFFICES ASSUME Init PROVE Inv
    OBVIOUS
<1>1. Requests
    BY DEF Init, Requests, RequestOK, Idle, Request, Steps, Carrying
<1>2. Ledger
    BY DEF Init, Ledger, OneLive, Made
<1>3. Redis
    BY DEF Init, Redis
<1>4. History
    BY FaultAssumption DEF Init, History
<1> QED BY <1>1, <1>2, <1>3, <1>4 DEF Inv

-----------------------------------------------------------------------------
(* What a request relies on survives every step that satisfies Grow.       *)

LEMMA RequestsStay ==
    ASSUME Inv, Grow, UNCHANGED req
    PROVE  Requests'
<1>1. ASSUME NEW p \in Procs PROVE RequestOK(req[p])'
    <2>1. req[p] \in Request /\ RequestOK(req[p]) /\ req'[p] = req[p]
        BY DEF Inv, Requests
    <2> QED BY <2>1 DEF Grow, RequestOK, Fits, Request, Made
<1> QED BY <1>1 DEF Inv, Requests

LEMMA RequestMoves ==
    ASSUME Inv, Grow, NEW p \in Procs, NEW s \in Request,
           req' = [req EXCEPT ![p] = s],
           s.pc # "idle" => s.key \in Keys,
           s.pc \in Carrying => s.ref \in Refs /\ Made(s.ref)' /\ gwRefund'[s.ref].order = OrderOf[s.key],
           s.pc \in {"respond", "store"} => s.ref \in refund'
    PROVE  Requests'
<1>1. req' \in [Procs -> Request]
    BY DEF Inv, Requests
<1>2. ASSUME NEW q \in Procs PROVE RequestOK(req[q])'
    <2>1. req[q] \in Request /\ RequestOK(req[q]) /\ req'[q] = IF q = p THEN s ELSE req[q]
        BY DEF Inv, Requests
    <2> QED BY <2>1 DEF Grow, RequestOK, Fits, Request, Made
<1> QED BY <1>1, <1>2 DEF Requests

LEMMA RedisStays ==
    ASSUME Inv, Grow, lock' \in [Keys -> Procs \cup {Null}],
           cache' \in [Keys -> Refs \cup {Null}],
           \A k \in Keys : cache'[k] \in {cache[k], Null}
    PROVE  Redis'
BY NullAssumption DEF Inv, Redis, Ledger, Grow, Fits, Made

LEMMA HistoryStays ==
    ASSUME Inv, Grow, UNCHANGED told,
           disturbed' \subseteq Keys, faults' \in 0..MaxFaults
    PROVE  History'
<1>1. told' \in [Keys -> SUBSET refund']
    BY DEF Inv, History, Grow
<1>2. ASSUME NEW k \in Keys, NEW r \in told[k] PROVE Fits(r, k)'
    BY DEF Inv, History, Ledger, Grow, Fits, Made
<1> QED BY <1>1, <1>2 DEF History

LEMMA LedgerStays ==
    ASSUME Inv, UNCHANGED <<gwRefund, row, refund>>
    PROVE  Ledger' /\ Grow
BY DEF Inv, Ledger, OneLive, Made, Grow

-----------------------------------------------------------------------------
(* The steps of a request that write neither tables nor gateway.           *)

\* A request moves on, with the key and the refund it has, to a step that relies
\* on no more than it did, or ends.
Downhill(p, s) ==
    /\ s = Idle \/ (s.key = req[p].key /\ s.pc \in Steps /\ s.open \in BOOLEAN)
    /\ s.pc \in Carrying => s.ref = req[p].ref /\ req[p].pc \in Carrying
    /\ s.pc \in {"respond", "store"} => req[p].pc \in {"respond", "store"}

LEMMA LocalStep ==
    ASSUME Inv, NEW p \in Procs, NEW s \in Request,
           req[p].pc # "idle", Downhill(p, s),
           req' = [req EXCEPT ![p] = s],
           UNCHANGED <<gwRefund, row, refund, told>>,
           lock' \in [Keys -> Procs \cup {Null}],
           cache' \in [Keys -> Refs \cup {Null}],
           \A k \in Keys : cache'[k] \in {cache[k], Null},
           disturbed' \subseteq Keys, faults' \in 0..MaxFaults
    PROVE  Inv'
<1>1. Ledger' /\ Grow
    BY LedgerStays
<1>2. Requests'
    <2>1. req[p] \in Request /\ RequestOK(req[p])
        BY DEF Inv, Requests
    <2>2. s.pc # "idle" => s.key \in Keys
        BY <2>1 DEF Downhill, RequestOK, Idle
    <2>3. s.pc \in Carrying => s.ref \in Refs /\ Made(s.ref)' /\ gwRefund'[s.ref].order = OrderOf[s.key]
        BY <2>1 DEF Downhill, RequestOK, Idle, Fits, Made, Carrying
    <2>4. s.pc \in {"respond", "store"} => s.ref \in refund'
        BY <2>1 DEF Downhill, RequestOK, Carrying
    <2> QED BY <1>1, <2>2, <2>3, <2>4, RequestMoves
<1>3. Redis'
    BY <1>1, RedisStays
<1>4. History'
    BY <1>1, HistoryStays
<1> QED BY <1>1, <1>2, <1>3, <1>4 DEF Inv

-----------------------------------------------------------------------------
(* One lemma per group of actions.                                         *)

LEMMA TypesOf ==
    ASSUME Inv, NEW p \in Procs
    PROVE  /\ req[p] \in Request /\ RequestOK(req[p])
           /\ lock \in [Keys -> Procs \cup {Null}]
           /\ cache \in [Keys -> Refs \cup {Null}]
           /\ disturbed \subseteq Keys /\ faults \in 0..MaxFaults
BY DEF Inv, Requests, Redis, History

\* The ways in which a request moves on without new knowledge.
Moved(p) ==
    \/ Done(p)
    \/ Finish(p)
    \/ req' = [req EXCEPT ![p].open = FALSE]
    \/ \E step \in Steps :
        /\ Goto(p, step)
        /\ step \in Carrying => req[p].pc \in Carrying
        /\ step \in {"respond", "store"} => req[p].pc \in {"respond", "store"}

LEMMA MovedIsDownhill ==
    ASSUME Inv, NEW p \in Procs, Moved(p)
    PROVE  \E s \in Request : req' = [req EXCEPT ![p] = s] /\ Downhill(p, s)
<1>1. req[p] \in Request /\ req \in [Procs -> Request]
    BY DEF Inv, Requests
<1>2. CASE Done(p)
    <2>1. Idle \in Request /\ Downhill(p, Idle)
        BY DEF Idle, Request, Steps, Downhill, Carrying
    <2> QED BY <1>2, <2>1 DEF Done
<1>3. CASE Finish(p)
    <2> DEFINE s == [req[p] EXCEPT !.pc = "release", !.ref = Null]
    <2>1. s \in Request /\ Downhill(p, s)
        BY <1>1 DEF Request, Steps, Downhill, Carrying
    <2>2. req' = [req EXCEPT ![p] = s]
        BY <1>1, <1>3 DEF Finish
    <2> QED BY <2>1, <2>2
<1>4. CASE req' = [req EXCEPT ![p].open = FALSE]
    <2> DEFINE s == [req[p] EXCEPT !.open = FALSE]
    <2>1. s \in Request /\ Downhill(p, s)
        BY <1>1 DEF Request, Downhill
    <2>2. req' = [req EXCEPT ![p] = s]
        BY <1>1, <1>4
    <2> QED BY <2>1, <2>2
<1>5. ASSUME NEW step \in Steps, Goto(p, step),
             step \in Carrying => req[p].pc \in Carrying,
             step \in {"respond", "store"} => req[p].pc \in {"respond", "store"}
      PROVE  \E s \in Request : req' = [req EXCEPT ![p] = s] /\ Downhill(p, s)
    <2> DEFINE s == [req[p] EXCEPT !.pc = step]
    <2>1. s \in Request /\ Downhill(p, s)
        BY <1>1, <1>5 DEF Request, Downhill
    <2>2. req' = [req EXCEPT ![p] = s]
        BY <1>1, <1>5 DEF Goto
    <2> QED BY <2>1, <2>2
<1> QED BY <1>2, <1>3, <1>4, <1>5 DEF Moved

LEMMA MoveStep ==
    ASSUME Inv, NEW p \in Procs, req[p].pc # "idle", Moved(p),
           UNCHANGED <<gwRefund, row, refund, told, cache>>,
           lock' \in [Keys -> Procs \cup {Null}],
           disturbed' \subseteq Keys, faults' \in 0..MaxFaults
    PROVE  Inv'
<1>1. PICK s \in Request : req' = [req EXCEPT ![p] = s] /\ Downhill(p, s)
    BY MovedIsDownhill
<1>2. cache' \in [Keys -> Refs \cup {Null}] /\ \A k \in Keys : cache'[k] \in {cache[k], Null}
    BY TypesOf
<1> QED BY <1>1, <1>2, LocalStep

\* The middleware's lock, its release and the caller that goes.
LEMMA LockSteps ==
    ASSUME Inv, NEW p \in Procs,
           \/ Acquire(p) \/ AcquireOpen(p) \/ Busy(p) \/ CallerGone(p)
           \/ Release(p) \/ ReleaseFails(p) \/ StoreFails(p)
    PROVE  Inv'
<1> USE TypesOf DEF redis, db, hist
<1>1. req[p].pc # "idle" /\ req[p].key \in Keys
    BY DEF Acquire, AcquireOpen, Busy, CallerGone, Release, ReleaseFails, StoreFails,
           At, Inside, RequestOK
<1>2. Moved(p)
    BY DEF Acquire, AcquireOpen, Busy, CallerGone, Release, ReleaseFails, StoreFails,
           Moved, Steps, Carrying
<1>3. /\ lock' \in [Keys -> Procs \cup {Null}]
      /\ UNCHANGED <<gwRefund, row, refund, told, cache>>
      /\ disturbed' \subseteq Keys /\ faults' \in 0..MaxFaults
    BY <1>1 DEF Acquire, AcquireOpen, Busy, CallerGone, Release, ReleaseFails, StoreFails
<1> QED BY <1>1, <1>2, <1>3, MoveStep

\* The steps of the use case that end in an error or only read, and a crash.
LEMMA LocalUseCaseSteps ==
    ASSUME Inv, NEW p \in Procs,
           Read(p) \/ CallRefused(p) \/ CallFails(p) \/ CommitRead(p) \/ Crash(p)
    PROVE  Inv'
<1> USE TypesOf DEF redis, db, hist
<1>1. req[p].pc # "idle"
    BY DEF Read, CallRefused, CallFails, CommitRead, Crash, At
<1>2. Moved(p)
    BY DEF Read, CallRefused, CallFails, CommitRead, Crash, At, Reject, Moved, Steps, Carrying
<1>3. /\ UNCHANGED <<gwRefund, row, refund, told, cache, lock>>
      /\ disturbed' \subseteq Keys /\ faults' \in 0..MaxFaults
    BY FaultAssumption DEF Read, CallRefused, CallFails, CommitRead, Crash
<1> QED BY <1>1, <1>2, <1>3, MoveStep

LEMMA RedisSteps ==
    ASSUME Inv, NEW k \in Keys, ExpireLock(k) \/ ExpireCache(k)
    PROVE  Inv'
<1> USE DEF redis, db, hist
<1>1. UNCHANGED <<gwRefund, row, refund, req, told, faults>>
    BY DEF ExpireLock, ExpireCache
<1>2. Ledger' /\ Grow
    BY <1>1, LedgerStays
<1>3. Redis'
    <2>1. /\ lock' \in [Keys -> Procs \cup {Null}]
          /\ cache' \in [Keys -> Refs \cup {Null}]
          /\ \A j \in Keys : cache'[j] \in {cache[j], Null}
        BY DEF ExpireLock, ExpireCache, Inv, Redis
    <2> QED BY <1>2, <2>1, RedisStays
<1>4. History'
    <2>1. disturbed' \subseteq Keys /\ faults' \in 0..MaxFaults
        BY <1>1 DEF ExpireLock, ExpireCache, Inv, History
    <2> QED BY <1>1, <1>2, <2>1, HistoryStays
<1> QED BY <1>1, <1>2, <1>3, <1>4, RequestsStay DEF Inv

LEMMA MissStep ==
    ASSUME Inv, NEW p \in Procs, NEW k \in Keys, Miss(p, k)
    PROVE  Inv'
<1> USE DEF redis, db, hist
<1> DEFINE s == [Idle EXCEPT !.pc = "lock", !.key = k]
<1>1. /\ UNCHANGED <<cache, lock, gwRefund, row, refund, told, disturbed, faults>>
      /\ req' = [req EXCEPT ![p] = s]
    BY DEF Miss
<1>2. Ledger' /\ Grow
    BY <1>1, LedgerStays
<1>3. s \in Request /\ s.pc = "lock" /\ s.key = k
    BY DEF Idle, Request, Steps
<1>4. Requests'
    <2> HIDE DEF s
    <2> QED BY <1>1, <1>2, <1>3, RequestMoves DEF Carrying
<1>5. Redis' /\ History'
    BY <1>1, <1>2, RedisStays, HistoryStays DEF Inv, Redis, History
<1> QED BY <1>2, <1>4, <1>5 DEF Inv

\* An answer names a recorded refund of the key's order.
LEMMA AnswerStep ==
    ASSUME Inv, NEW k \in Keys, NEW r \in refund, Fits(r, k), Answer(k, r),
           UNCHANGED <<cache, lock, gwRefund, row, refund, disturbed, faults>>
    PROVE  Ledger' /\ Grow /\ Redis' /\ History'
<1>1. Ledger' /\ Grow
    BY LedgerStays
<1>2. Redis'
    BY <1>1, RedisStays DEF Inv, Redis
<1>3. History'
    BY DEF Inv, History, Answer, Fits, Made
<1> QED BY <1>1, <1>2, <1>3

LEMMA ReplayStep ==
    ASSUME Inv, NEW p \in Procs, NEW k \in Keys, Replay(p, k)
    PROVE  Inv' /\ cache[k] \in refund /\ Fits(cache[k], k)
<1> USE DEF redis, db, hist
<1>1. /\ cache[k] \in refund /\ Fits(cache[k], k) /\ Answer(k, cache[k])
      /\ UNCHANGED <<cache, lock, gwRefund, row, refund, req, disturbed, faults>>
    BY DEF Replay, cacheKey, Inv, Redis
<1> QED BY <1>1, AnswerStep, RequestsStay DEF Inv

LEMMA RespondStep ==
    ASSUME Inv, NEW p \in Procs, Respond(p)
    PROVE  Inv' /\ req[p].key \in Keys /\ req[p].ref \in refund /\ Fits(req[p].ref, req[p].key)
<1> USE DEF redis, db, hist
<1>1. req[p] \in Request /\ req \in [Procs -> Request] /\ RequestOK(req[p]) /\ req[p].pc = "respond"
    BY DEF Inv, Requests, Respond, At
<1>2. req[p].key \in Keys /\ req[p].ref \in refund /\ Fits(req[p].ref, req[p].key)
    BY <1>1 DEF RequestOK, Carrying
<1>3. UNCHANGED <<cache, lock, gwRefund, row, refund, disturbed, faults>>
    BY DEF Respond
<1>4. Ledger' /\ Grow /\ Redis' /\ History'
    <2>1. CASE Answer(req[p].key, req[p].ref)
        BY <1>2, <1>3, <2>1, AnswerStep
    <2>2. CASE UNCHANGED told
        BY <1>3, <2>2, LedgerStays, RedisStays, HistoryStays DEF Inv, Redis, History
    <2>3. Answer(req[p].key, req[p].ref) \/ UNCHANGED told
        BY Zenon DEF Respond
    <2> QED BY <2>1, <2>2, <2>3
<1>5. PICK s \in Request :
        req' = [req EXCEPT ![p] = s] /\ s.pc = "store" /\ s.key = req[p].key /\ s.ref = req[p].ref
    <2>1. [req[p] EXCEPT !.pc = "store"] \in Request
        BY <1>1 DEF Request, Steps
    <2> QED BY <1>1, <2>1 DEF Respond, Goto, Request
<1>6. Requests'
    <2>1. s.ref \in refund' /\ s.ref \in Refs /\ Made(s.ref)' /\ gwRefund'[s.ref].order = OrderOf[s.key]
        BY <1>2, <1>3, <1>5 DEF Inv, Ledger, Fits, Made
    <2> QED BY <1>2, <1>4, <1>5, <2>1, RequestMoves
<1> QED BY <1>2, <1>4, <1>6 DEF Inv

LEMMA StoreStep ==
    ASSUME Inv, NEW p \in Procs, Store(p)
    PROVE  Inv'
<1> USE DEF redis, db, hist
<1>1. req[p] \in Request /\ req \in [Procs -> Request] /\ RequestOK(req[p]) /\ req[p].pc = "store"
    BY DEF Inv, Requests, Store, At
<1>2. req[p].key \in Keys /\ req[p].ref \in refund /\ Fits(req[p].ref, req[p].key) /\ req[p].ref \in Refs
    BY <1>1 DEF RequestOK, Carrying
<1>3. UNCHANGED <<lock, gwRefund, row, refund, told, disturbed, faults>>
    BY DEF Store
<1>4. Ledger' /\ Grow
    BY <1>3, LedgerStays
<1>5. PICK s \in Request : req' = [req EXCEPT ![p] = s] /\ s.pc = "release" /\ s.key = req[p].key
    <2>1. [req[p] EXCEPT !.pc = "release", !.ref = Null] \in Request
        BY <1>1 DEF Request, Steps
    <2> QED BY <1>1, <2>1 DEF Store, Finish, Request
<1>6. Requests'
    BY <1>2, <1>4, <1>5, RequestMoves DEF Carrying
<1>7. Redis'
    BY <1>2, <1>3 DEF Inv, Redis, Store, cacheKey, Fits, Made
<1>8. History'
    BY <1>3, <1>4, HistoryStays DEF Inv, History
<1> QED BY <1>4, <1>6, <1>7, <1>8 DEF Inv

-----------------------------------------------------------------------------
(* The steps that write tables or gateway.                                 *)

\* createRefund adds a refund to an order all of whose refunds have failed.
LEMMA RefundMade ==
    ASSUME Inv, NEW r \in Refs, NEW o \in Orders, createRefund(r, o), UNCHANGED <<row, refund>>
    PROVE  /\ Ledger' /\ Grow
           /\ Made(r)' /\ gwRefund'[r].order = o
<1>1. /\ gwRefund \in [Refs -> GwRefund \cup {Null}] /\ ~Made(r)
      /\ gwRefund' = [gwRefund EXCEPT ![r] = [order |-> o, failed |-> FALSE]]
    BY DEF Inv, Ledger, createRefund
<1>2. [order |-> o, failed |-> FALSE] \in GwRefund
    BY DEF GwRefund
<1>3. Made(r)' /\ gwRefund'[r].order = o /\ \A q \in Refs \ {r} : gwRefund'[q] = gwRefund[q]
    BY <1>1, <1>2, RecordAssumption DEF Made
<1>4. Grow
    BY <1>1, <1>3 DEF Grow, Made
<1>5. OneLive'
    <2> SUFFICES ASSUME NEW q1 \in Refs, NEW q2 \in Refs,
                        Made(q1)', Made(q2)', q1 # q2,
                        gwRefund'[q1].order = gwRefund'[q2].order
                 PROVE  gwRefund'[q1].failed \/ gwRefund'[q2].failed
        BY DEF OneLive
    <2>1. ASSUME NEW q \in Refs, q # r, Made(q)', gwRefund'[q].order = o PROVE gwRefund'[q].failed
        BY <1>3, <2>1 DEF createRefund, Refundable, Made
    <2>2. CASE q1 # r /\ q2 # r
        BY <1>3, <2>2 DEF Inv, Ledger, OneLive, Made
    <2> QED BY <1>3, <2>1, <2>2
<1>6. Ledger'
    BY <1>1, <1>2, <1>4, <1>5 DEF Inv, Ledger, Grow, Made
<1> QED BY <1>3, <1>4, <1>6

LEMMA CallSteps ==
    ASSUME Inv, NEW p \in Procs, NEW r \in Refs, Call(p, r) \/ CallLost(p, r)
    PROVE  Inv' /\ Order(p) \in Orders
<1> USE DEF redis, db, hist
<1>1. /\ req[p] \in Request /\ req \in [Procs -> Request] /\ RequestOK(req[p])
      /\ req[p].pc = "call"
    BY DEF Inv, Requests, Call, CallLost, At
<1>2. req[p].key \in Keys /\ Order(p) \in Orders
    BY <1>1, OrderOfAssumption DEF RequestOK, Order
<1>3. /\ createRefund(r, Order(p))
      /\ UNCHANGED <<cache, lock, row, refund, told, disturbed>>
      /\ faults' \in 0..MaxFaults
    BY FaultAssumption DEF Call, CallLost, Inv, History
<1>4. Ledger' /\ Grow /\ Made(r)' /\ gwRefund'[r].order = Order(p)
    BY <1>2, <1>3, RefundMade
<1>5. PICK s \in Request :
        /\ req' = [req EXCEPT ![p] = s] /\ s.key = req[p].key
        /\ s.pc = "release" \/ (s.pc = "commitRead" /\ s.ref = r)
    <2>1. CASE Call(p, r)
        <3>1. [req[p] EXCEPT !.pc = "commitRead", !.ref = r] \in Request
            BY <1>1 DEF Request, Steps
        <3> QED BY <1>1, <2>1, <3>1 DEF Call, Request
    <2>2. CASE CallLost(p, r)
        <3>1. [req[p] EXCEPT !.pc = "release", !.ref = Null] \in Request
            BY <1>1 DEF Request, Steps
        <3> QED BY <1>1, <2>2, <3>1 DEF CallLost, Reject, Finish, Request
    <2> QED BY <2>1, <2>2
<1>6. Requests'
    <2>1. s.pc \in Carrying => s.ref \in Refs /\ Made(s.ref)' /\ gwRefund'[s.ref].order = OrderOf[s.key]
        BY <1>4, <1>5 DEF Carrying, Order
    <2> QED BY <1>2, <1>4, <1>5, <2>1, RequestMoves
<1>7. Redis' /\ History'
    BY <1>3, <1>4, RedisStays, HistoryStays DEF Inv, Redis, History
<1> QED BY <1>2, <1>4, <1>6, <1>7 DEF Inv

\* A refund that was made is recorded, its transaction marked or not.
LEMMA RefundRecorded ==
    ASSUME Inv, NEW r \in Refs, Made(r), UNCHANGED gwRefund,
           refund' = refund \cup {r},
           row' \in [Orders -> {"CAPTURED", "REFUNDED"}]
    PROVE  Ledger' /\ Grow
BY DEF Inv, Ledger, OneLive, Made, Grow

LEMMA CommitWriteStep ==
    ASSUME Inv, NEW p \in Procs, CommitWrite(p)
    PROVE  /\ Inv' /\ Made(req[p].ref) /\ req[p].ref \in Refs
           /\ refund' \in {refund, refund \cup {req[p].ref}}
<1> USE DEF redis, db, hist
<1>1. /\ req[p] \in Request /\ req \in [Procs -> Request] /\ RequestOK(req[p])
      /\ req[p].pc = "commitWrite"
    BY DEF Inv, Requests, CommitWrite, At
<1>2. /\ req[p].key \in Keys /\ Order(p) \in Orders
      /\ req[p].ref \in Refs /\ Fits(req[p].ref, req[p].key)
    BY <1>1, OrderOfAssumption DEF RequestOK, Order, Carrying
<1>3. UNCHANGED <<cache, lock, gwRefund, told, disturbed, faults>>
    BY DEF CommitWrite
<1>4. CASE req[p].ref \in refund
    <2>1. Reject(p) /\ UNCHANGED <<row, refund>>
        BY <1>4 DEF CommitWrite
    <2>2. Moved(p)
        BY <2>1 DEF Reject, Moved
    <2> QED BY <1>1, <1>2, <1>3, <2>1, <2>2, MoveStep, TypesOf DEF Fits
<1>5. CASE req[p].ref \notin refund
    <2>1. /\ refund' = refund \cup {req[p].ref}
          /\ row' = [row EXCEPT ![Order(p)] = "REFUNDED"]
          /\ Goto(p, "respond")
        BY <1>5 DEF CommitWrite
    <2>2. Ledger' /\ Grow
        <3>1. row' \in [Orders -> {"CAPTURED", "REFUNDED"}]
            BY <1>2, <2>1 DEF Inv, Ledger
        <3> QED BY <1>2, <1>3, <2>1, <3>1, RefundRecorded DEF Fits
    <2>3. PICK s \in Request :
            req' = [req EXCEPT ![p] = s] /\ s.pc = "respond" /\ s.key = req[p].key /\ s.ref = req[p].ref
        <3>1. [req[p] EXCEPT !.pc = "respond"] \in Request
            BY <1>1 DEF Request, Steps
        <3> QED BY <1>1, <2>1, <3>1 DEF Goto, Request
    <2>4. Requests'
        <3>1. s.ref \in refund' /\ s.ref \in Refs /\ Made(s.ref)' /\ gwRefund'[s.ref].order = OrderOf[s.key]
            BY <1>2, <1>3, <2>1, <2>3 DEF Fits, Made
        <3> QED BY <1>2, <2>2, <2>3, <3>1, RequestMoves
    <2>5. Redis' /\ History'
        BY <1>3, <2>2, RedisStays, HistoryStays DEF Inv, Redis, History
    <2> QED BY <1>2, <2>1, <2>2, <2>4, <2>5 DEF Inv, Fits
<1> QED BY <1>4, <1>5

LEMMA GatewaySteps ==
    ASSUME Inv, NEW r \in Refs, RefundFails(r) \/ Webhook(r)
    PROVE  Inv'
<1> USE DEF redis, db, hist
<1>1. UNCHANGED <<cache, lock, req, told, disturbed>> /\ faults' \in 0..MaxFaults /\ Made(r)
    BY FaultAssumption DEF RefundFails, Webhook, Inv, History
<1>2. gwRefund \in [Refs -> GwRefund \cup {Null}] /\ gwRefund[r] \in GwRefund
    BY <1>1 DEF Inv, Ledger, Made
<1>3. Ledger' /\ Grow
    <2>1. CASE RefundFails(r)
        <3>1. /\ gwRefund' = [gwRefund EXCEPT ![r].failed = TRUE]
              /\ UNCHANGED <<row, refund>>
            BY <2>1 DEF RefundFails
        <3>2. [gwRefund[r] EXCEPT !.failed = TRUE] \in GwRefund
            BY <1>2 DEF GwRefund
        <3>3. /\ gwRefund' \in [Refs -> GwRefund \cup {Null}]
              /\ gwRefund'[r] \in GwRefund /\ gwRefund'[r].failed
              /\ gwRefund'[r].order = gwRefund[r].order
              /\ \A q \in Refs \ {r} : gwRefund'[q] = gwRefund[q]
            BY <1>2, <3>1, <3>2 DEF GwRefund
        <3>4. Grow /\ \A q \in Refs : Made(q)' => Made(q)
            BY <1>1, <3>1, <3>3, RecordAssumption DEF Grow, Made
        <3>5. OneLive'
            BY <3>3, <3>4 DEF OneLive, Inv, Ledger, Grow
        <3> QED BY <3>1, <3>3, <3>4, <3>5 DEF Inv, Ledger, Grow
    <2>2. CASE Webhook(r)
        <3>1. /\ UNCHANGED gwRefund /\ refund' = refund \cup {r}
              /\ row' = [row EXCEPT ![gwRefund[r].order] = "REFUNDED"]
            BY <2>2 DEF Webhook
        <3>2. gwRefund[r].order \in Orders
            BY <1>2 DEF GwRefund
        <3>3. row' \in [Orders -> {"CAPTURED", "REFUNDED"}]
            BY <3>1, <3>2 DEF Inv, Ledger
        <3> QED BY <1>1, <3>1, <3>3, RefundRecorded
    <2> QED BY <2>1, <2>2
<1>4. Requests'
    BY <1>1, <1>3, RequestsStay
<1>5. Redis' /\ History'
    BY <1>1, <1>3, RedisStays, HistoryStays DEF Inv, Redis, History
<1> QED BY <1>3, <1>4, <1>5 DEF Inv

-----------------------------------------------------------------------------
(* Every step keeps the invariant.                                         *)

LEMMA NextInv == Inv /\ [Next]_vars => Inv'
<1> SUFFICES ASSUME Inv, [Next]_vars PROVE Inv'
    OBVIOUS
<1>1. CASE UNCHANGED vars
    <2>1. UNCHANGED <<cache, lock, gwRefund, row, refund, req, told, disturbed, faults>>
        BY <1>1 DEF vars
    <2> QED BY <2>1, LedgerStays, RequestsStay, RedisStays, HistoryStays DEF Inv, Redis, History
<1>2. ASSUME NEW p \in Procs, NEW k \in Keys, Replay(p, k) \/ Miss(p, k) PROVE Inv'
    BY <1>2, ReplayStep, MissStep
<1>3. ASSUME NEW p \in Procs, Progress(p) PROVE Inv'
    BY <1>3, LockSteps, LocalUseCaseSteps, CallSteps, CommitWriteStep, RespondStep, StoreStep
       DEF Progress
<1>4. ASSUME NEW p \in Procs, CallerGone(p) \/ Crash(p) PROVE Inv'
    BY <1>4, LockSteps, LocalUseCaseSteps
<1>5. ASSUME NEW k \in Keys, ExpireLock(k) \/ ExpireCache(k) PROVE Inv'
    BY <1>5, RedisSteps
<1>6. ASSUME NEW r \in Refs, RefundFails(r) \/ Webhook(r) PROVE Inv'
    BY <1>6, GatewaySteps
<1> QED BY <1>1, <1>2, <1>3, <1>4, <1>5, <1>6 DEF Next

\* Redis, the tables and the requests keep their shapes; from the gateway's
\* answer on a request carries a refund of its own order, and callers are told
\* of recorded refunds only, however crashes, expiring locks and retries
\* interleave in idempotencyMiddleware and ProcessOrderRefundUseCase.
THEOREM TypeCorrect == Spec => []TypeOK
<1>1. Init => Inv
    BY InitInv
<1>2. Inv /\ [Next]_vars => Inv'
    BY NextInv
<1>3. Inv => TypeOK
    BY InvImpliesType
<1> QED BY <1>1, <1>2, <1>3, PTL DEF Spec

-----------------------------------------------------------------------------
(* The refinement.                                                         *)

LEMMA InitRefines == Init => Once!Init
BY DEF Init, Once!Init, Made

LEMMA QuietStep ==
    ASSUME UNCHANGED <<gwRefund, refund, told>>
    PROVE  UNCHANGED Once!once
BY DEF Once!once, Made

\* A 200 answer is a Tell: two refunds of one order are never both alive.
LEMMA AnswerTells ==
    ASSUME Inv, NEW k \in Keys, NEW r \in refund, Fits(r, k), Answer(k, r),
           UNCHANGED <<gwRefund, refund>>
    PROVE  Once!Tell(k, r) /\ r \in Refs
<1>1. r \in Refs
    BY DEF Inv, Ledger
<1>2. ASSUME NEW q \in told[k] \ {r}
      PROVE  {q, r} \cap {x \in Refs : Made(x) /\ gwRefund[x].failed} # {}
    <2>1. q \in Refs /\ Fits(q, k)
        BY DEF Inv, History, Ledger
    <2>2. gwRefund[q].failed \/ gwRefund[r].failed
        BY <1>1, <2>1 DEF Inv, Ledger, OneLive, Fits
    <2> QED BY <1>1, <2>1, <2>2 DEF Fits
<1> QED BY <1>1, <1>2 DEF Once!Tell, Answer, Fits, Made

LEMMA CallMakes ==
    ASSUME Inv, NEW r \in Refs, NEW o \in Orders, createRefund(r, o), UNCHANGED <<refund, told>>
    PROVE  Once!Make(r, o)
<1>1. /\ gwRefund \in [Refs -> GwRefund \cup {Null}] /\ ~Made(r)
      /\ gwRefund' = [gwRefund EXCEPT ![r] = [order |-> o, failed |-> FALSE]]
      /\ \A q \in Refs : Made(q) /\ gwRefund[q].order = o => gwRefund[q].failed
    BY DEF Inv, Ledger, createRefund, Refundable
<1>2. [order |-> o, failed |-> FALSE] \in GwRefund
    BY DEF GwRefund
<1>3. /\ Made(r)' /\ gwRefund'[r].order = o /\ gwRefund'[r].failed = FALSE
      /\ \A q \in Refs \ {r} : gwRefund'[q] = gwRefund[q]
    BY <1>1, <1>2, RecordAssumption DEF Made
<1>4. [q \in Refs |-> IF Made(q) THEN gwRefund[q].order ELSE Null]'
        = [[q \in Refs |-> IF Made(q) THEN gwRefund[q].order ELSE Null] EXCEPT ![r] = o]
    BY <1>3 DEF Made
<1>5. {q \in Refs : Made(q) /\ gwRefund[q].failed}' = {q \in Refs : Made(q) /\ gwRefund[q].failed}
    <2>1. \A q \in Refs : (Made(q)' /\ gwRefund'[q].failed) <=> (Made(q) /\ gwRefund[q].failed)
        BY <1>1, <1>3 DEF Made
    <2> QED BY <2>1
<1>6. \A q \in Refs : (IF Made(q) THEN gwRefund[q].order ELSE Null) = o
        => q \in {x \in Refs : Made(x) /\ gwRefund[x].failed}
    BY <1>1, NullAssumption
<1> QED BY <1>1, <1>4, <1>5, <1>6 DEF Once!Make

LEMMA RecordRecords ==
    ASSUME Inv, NEW r \in Refs, Made(r), UNCHANGED <<gwRefund, told>>, refund' = refund \cup {r}
    PROVE  Once!Record(r)
BY NullAssumption DEF Once!Record, Made, Inv, Ledger, GwRefund

LEMMA FailureFails ==
    ASSUME Inv, NEW r \in Refs, RefundFails(r)
    PROVE  Once!Fail(r)
<1>1. /\ gwRefund \in [Refs -> GwRefund \cup {Null}] /\ Made(r)
      /\ gwRefund' = [gwRefund EXCEPT ![r].failed = TRUE]
      /\ UNCHANGED <<refund, told>>
    BY DEF Inv, Ledger, RefundFails, db
<1>2. gwRefund[r] \in GwRefund /\ [gwRefund[r] EXCEPT !.failed = TRUE] \in GwRefund
    BY <1>1 DEF Made, GwRefund
<1>3. /\ Made(r)' /\ gwRefund'[r].order = gwRefund[r].order /\ gwRefund'[r].failed = TRUE
      /\ \A q \in Refs \ {r} : gwRefund'[q] = gwRefund[q]
    BY <1>1, <1>2, RecordAssumption DEF Made, GwRefund
<1>4. [q \in Refs |-> IF Made(q) THEN gwRefund[q].order ELSE Null]'
        = [q \in Refs |-> IF Made(q) THEN gwRefund[q].order ELSE Null]
    BY <1>1, <1>3 DEF Made
<1>5. {q \in Refs : Made(q) /\ gwRefund[q].failed}' = {q \in Refs : Made(q) /\ gwRefund[q].failed} \cup {r}
    <2>1. \A q \in Refs \ {r} : (Made(q)' /\ gwRefund'[q].failed) <=> (Made(q) /\ gwRefund[q].failed)
        BY <1>3 DEF Made
    <2> QED BY <1>3, <2>1
<1>6. (IF Made(r) THEN gwRefund[r].order ELSE Null) # Null
    BY <1>1, <1>2, NullAssumption DEF GwRefund
<1> QED BY <1>1, <1>4, <1>5, <1>6 DEF Once!Fail

LEMMA StepRefines == Inv /\ [Next]_vars => [Once!Next]_(Once!once)
<1> SUFFICES ASSUME Inv, [Next]_vars PROVE Once!Next \/ UNCHANGED Once!once
    OBVIOUS
<1> USE DEF redis, db, hist
<1>1. CASE UNCHANGED vars
    BY <1>1, QuietStep DEF vars
<1>2. ASSUME NEW p \in Procs, NEW k \in Keys, Replay(p, k) PROVE Once!Next
    <2>1. cache[k] \in refund /\ Fits(cache[k], k) /\ Answer(k, cache[k]) /\ UNCHANGED <<gwRefund, refund>>
        BY <1>2, ReplayStep DEF Replay, cacheKey
    <2> QED BY <2>1, AnswerTells DEF Once!Next
<1>3. ASSUME NEW p \in Procs, Respond(p) PROVE Once!Next \/ UNCHANGED Once!once
    <2>1. /\ req[p].key \in Keys /\ req[p].ref \in refund /\ Fits(req[p].ref, req[p].key)
          /\ UNCHANGED <<gwRefund, refund>>
        BY <1>3, RespondStep DEF Respond
    <2>2. Answer(req[p].key, req[p].ref) \/ UNCHANGED told
        BY <1>3, Zenon DEF Respond
    <2>3. CASE Answer(req[p].key, req[p].ref)
        BY <2>1, <2>3, AnswerTells DEF Once!Next
    <2>4. CASE UNCHANGED told
        BY <2>1, <2>4, QuietStep
    <2> QED BY <2>2, <2>3, <2>4
<1>4. ASSUME NEW p \in Procs, NEW r \in Refs, Call(p, r) \/ CallLost(p, r) PROVE Once!Next
    <2>1. Order(p) \in Orders /\ createRefund(r, Order(p)) /\ UNCHANGED <<refund, told>>
        BY <1>4, CallSteps DEF Call, CallLost
    <2> QED BY <2>1, CallMakes DEF Once!Next
<1>5. ASSUME NEW p \in Procs, CommitWrite(p) PROVE Once!Next \/ UNCHANGED Once!once
    <2>1. /\ Made(req[p].ref) /\ req[p].ref \in Refs
          /\ refund' \in {refund, refund \cup {req[p].ref}}
          /\ UNCHANGED <<gwRefund, told>>
        BY <1>5, CommitWriteStep DEF CommitWrite
    <2> QED BY <2>1, RecordRecords, QuietStep DEF Once!Next
<1>6. ASSUME NEW r \in Refs, RefundFails(r) PROVE Once!Next
    BY <1>6, FailureFails DEF Once!Next
<1>7. ASSUME NEW r \in Refs, Webhook(r) PROVE Once!Next
    BY <1>7, RecordRecords DEF Webhook, Once!Next
<1>8. ASSUME NEW p \in Procs,
             \/ \E k \in Keys : Miss(p, k)
             \/ Acquire(p) \/ AcquireOpen(p) \/ Busy(p) \/ CallerGone(p)
             \/ Release(p) \/ ReleaseFails(p) \/ Store(p) \/ StoreFails(p)
             \/ Read(p) \/ CallRefused(p) \/ CallFails(p) \/ CommitRead(p) \/ Crash(p)
      PROVE  UNCHANGED Once!once
    BY <1>8, QuietStep
       DEF Miss, Acquire, AcquireOpen, Busy, CallerGone, Release, ReleaseFails, Store, StoreFails,
           Read, CallRefused, CallFails, CommitRead, Crash
<1>9. ASSUME NEW k \in Keys, ExpireLock(k) \/ ExpireCache(k) PROVE UNCHANGED Once!once
    BY <1>9, QuietStep DEF ExpireLock, ExpireCache
<1> HIDE DEF redis, db, hist
<1> QED
    BY <1>1, <1>2, <1>3, <1>4, <1>5, <1>6, <1>7, <1>8, <1>9 DEF Next, Progress

\* Whatever becomes of the lock and of the cache, the refund endpoint does what
\* RefundOnce says: one live refund per order, recorded before a caller is told
\* of it, and the same one for every answer to a key unless it failed.
THEOREM RefundsOnce == Spec => ImplementsRefundOnce
<1>1. Init => Inv
    BY InitInv
<1>2. Inv /\ [Next]_vars => Inv'
    BY NextInv
<1>3. Init => Once!Init
    BY InitRefines
<1>4. Inv /\ [Next]_vars => [Once!Next]_(Once!once)
    BY StepRefines
<1> QED BY <1>1, <1>2, <1>3, <1>4, PTL DEF Spec, ImplementsRefundOnce, Once!Spec

-----------------------------------------------------------------------------
(* What the lock is good for while it is not disturbed.                    *)

\* A request between lock and release owns the lock of its key.
Owned ==
    \A p \in Procs :
        req[p].pc \in Holding /\ req[p].key \notin disturbed => lock[req[p].key] = p

\* What a step does to the requests: p is at step pc with the key it had, the
\* others are as they were.
Lands(p, pc) ==
    /\ req'[p].pc = pc /\ req'[p].key = req[p].key
    /\ \A q \in Procs \ {p} : req'[q] = req[q]

LEMMA GotoLands ==
    ASSUME Inv, NEW p \in Procs, NEW step \in Steps, Goto(p, step)
    PROVE  Lands(p, step) /\ req'[p].ref = req[p].ref
BY DEF Inv, Requests, Request, Goto, Lands

LEMMA FinishLands ==
    ASSUME Inv, NEW p \in Procs, Finish(p)
    PROVE  Lands(p, "release")
BY DEF Inv, Requests, Request, Finish, Lands

LEMMA DoneLands ==
    ASSUME Inv, NEW p \in Procs, Done(p)
    PROVE  req'[p].pc = "idle" /\ \A q \in Procs \ {p} : req'[q] = req[q]
BY DEF Inv, Requests, Done, Idle

\* A request that held its lock goes on, or one that did not ends.
LEMMA OwnedStays ==
    ASSUME Inv, Owned, NEW p \in Procs, NEW pc \in Steps,
           \/ Lands(p, pc) /\ (pc \in Holding => req[p].pc \in Holding)
           \/ (req'[p].pc = "idle" /\ \A q \in Procs \ {p} : req'[q] = req[q]),
           UNCHANGED <<lock, disturbed>>
    PROVE  Owned'
BY DEF Owned, Lands, Holding, Inside

LEMMA OwnedNext == Inv /\ Owned /\ [Next]_vars => Owned'
<1> SUFFICES ASSUME Inv, Owned, [Next]_vars PROVE Owned'
    OBVIOUS
<1> USE DEF redis, db, hist
<1>1. CASE UNCHANGED vars
    BY <1>1 DEF vars, Owned
<1>2. ASSUME NEW p \in Procs, NEW k \in Keys, Replay(p, k) PROVE Owned'
    BY <1>2 DEF Replay, Owned
<1>3. ASSUME NEW p \in Procs, NEW k \in Keys, Miss(p, k) PROVE Owned'
    <2>1. req'[p].pc = "lock" /\ (\A q \in Procs \ {p} : req'[q] = req[q]) /\ UNCHANGED <<lock, disturbed>>
        BY <1>3 DEF Miss, Idle, Inv, Requests
    <2> QED BY <2>1 DEF Owned, Holding, Inside
<1>4. ASSUME NEW p \in Procs, Acquire(p) PROVE Owned'
    <2>1. Lands(p, "read") /\ req[p].key \in Keys
        BY <1>4, GotoLands DEF Acquire, Steps, At, Inv, Requests, RequestOK
    <2>2. /\ lock[req[p].key] = Null /\ lock' = [lock EXCEPT ![req[p].key] = p]
          /\ UNCHANGED disturbed
        BY <1>4 DEF Acquire
    <2>3. lock \in [Keys -> Procs \cup {Null}] /\ \A q \in Procs : q # Null
        BY NullAssumption DEF Inv, Redis
    <2>4. \A q \in Procs : req[q].pc \in Holding => req[q].key \in Keys
        BY DEF Inv, Requests, RequestOK, Holding, Inside
    <2> QED BY <2>1, <2>2, <2>3, <2>4 DEF Owned, Lands
<1>5. ASSUME NEW p \in Procs, AcquireOpen(p) PROVE Owned'
    <2>1. Lands(p, "read") /\ disturbed' = disturbed \cup {req[p].key} /\ UNCHANGED lock
        BY <1>5, GotoLands DEF AcquireOpen, Steps
    <2> QED BY <2>1 DEF Owned, Lands
<1>6. ASSUME NEW p \in Procs, CallerGone(p) PROVE Owned'
    <2>1. /\ req' = [req EXCEPT ![p].open = FALSE]
          /\ lock' = [lock EXCEPT ![req[p].key] = Null]
          /\ disturbed' = disturbed \cup {req[p].key}
        BY <1>6 DEF CallerGone
    <2>2. \A q \in Procs : req'[q].pc = req[q].pc /\ req'[q].key = req[q].key
        BY <2>1 DEF Inv, Requests, Request
    <2>3. \A j \in Keys : j # req[p].key => lock'[j] = lock[j]
        BY <2>1 DEF Inv, Redis
    <2>4. \A q \in Procs : req[q].pc \in Holding => req[q].key \in Keys
        BY DEF Inv, Requests, RequestOK, Holding, Inside
    <2> QED BY <2>1, <2>2, <2>3, <2>4 DEF Owned
<1>7. ASSUME NEW p \in Procs, Release(p) PROVE Owned'
    <2>1. req'[p].pc = "idle" /\ (\A q \in Procs \ {p} : req'[q] = req[q]) /\ UNCHANGED disturbed
        BY <1>7, DoneLands DEF Release
    <2>2. lock' = [lock EXCEPT ![req[p].key] = Null] \/ UNCHANGED lock
        BY <1>7, Zenon DEF Release
    <2>3. req[p].pc \in Holding
        BY <1>7 DEF Release, At, Holding
    <2>4. \A q \in Procs : req[q].pc \in Holding => req[q].key \in Keys
        BY DEF Inv, Requests, RequestOK, Holding, Inside
    <2>5. \A j \in Keys : j # req[p].key => lock'[j] = lock[j]
        BY <2>2 DEF Inv, Redis
    <2>6. ASSUME NEW q \in Procs \ {p}, req[q].pc \in Holding, req[q].key \notin disturbed
          PROVE  req[q].key # req[p].key
        BY <2>3, <2>6 DEF Owned
    <2> QED BY <2>1, <2>4, <2>5, <2>6 DEF Owned, Holding, Inside
<1>8. ASSUME NEW p \in Procs, Busy(p) \/ ReleaseFails(p) \/ Crash(p) PROVE Owned'
    <2>1. req'[p].pc = "idle" /\ (\A q \in Procs \ {p} : req'[q] = req[q]) /\ UNCHANGED <<lock, disturbed>>
        BY <1>8, DoneLands DEF Busy, ReleaseFails, Crash
    <2> QED BY <2>1 DEF Owned, Holding, Inside
<1>9. ASSUME NEW p \in Procs,
             \/ Read(p) \/ (\E r \in Refs : Call(p, r) \/ CallLost(p, r))
             \/ CallRefused(p) \/ CallFails(p) \/ CommitRead(p) \/ CommitWrite(p)
             \/ Respond(p) \/ Store(p) \/ StoreFails(p)
      PROVE  Owned'
    <2>1. req[p].pc \in Holding /\ UNCHANGED <<lock, disturbed>>
        BY <1>9 DEF Read, Call, CallLost, CallRefused, CallFails, CommitRead, CommitWrite,
             Respond, Store, StoreFails, At, Holding, Inside
    <2>2. \/ Finish(p)
          \/ \E step \in Steps : Goto(p, step)
          \/ \E r \in Refs : req' = [req EXCEPT ![p].pc = "commitRead", ![p].ref = r]
        BY <1>9 DEF Read, Call, CallLost, CallRefused, CallFails, CommitRead, CommitWrite,
             Respond, Store, StoreFails, Reject, Steps
    <2>3. \E pc \in Steps : Lands(p, pc)
        <3>1. CASE \E r \in Refs : req' = [req EXCEPT ![p].pc = "commitRead", ![p].ref = r]
            BY <3>1 DEF Lands, Steps, Inv, Requests, Request
        <3> QED BY <2>2, <3>1, FinishLands, GotoLands DEF Steps
    <2> QED BY <2>1, <2>3, OwnedStays
<1>10. ASSUME NEW k \in Keys, ExpireLock(k) PROVE Owned'
    <2>1. /\ lock' = [lock EXCEPT ![k] = Null] /\ UNCHANGED req
          /\ lock[k] # Null
          /\ disturbed' = IF req[lock[k]].key = k /\ req[lock[k]].pc \in Holding
                            THEN disturbed \cup {k} ELSE disturbed
        BY <1>10 DEF ExpireLock
    <2>2. \A j \in Keys : j # k => lock'[j] = lock[j]
        BY <2>1 DEF Inv, Redis
    <2>3. \A q \in Procs : req[q].pc \in Holding => req[q].key \in Keys
        BY DEF Inv, Requests, RequestOK, Holding, Inside
    <2> QED BY <2>1, <2>2, <2>3 DEF Owned
<1>11. ASSUME NEW k \in Keys, ExpireCache(k) PROVE Owned'
    BY <1>11 DEF ExpireCache, Owned
<1>12. ASSUME NEW r \in Refs, RefundFails(r) \/ Webhook(r) PROVE Owned'
    BY <1>12 DEF RefundFails, Webhook, Owned
<1> HIDE DEF redis, db, hist
<1> QED
    BY <1>1, <1>2, <1>3, <1>4, <1>5, <1>6, <1>7, <1>8, <1>9, <1>10, <1>11, <1>12
       DEF Next, Progress

LEMMA OwnedExcludes == Inv /\ Owned => OverlapNeedsFault
<1> SUFFICES ASSUME Inv, Owned, NEW k \in Keys \ disturbed
             PROVE  Cardinality({p \in Procs : req[p].key = k /\ req[p].pc \in Inside}) <= 1
    BY DEF OverlapNeedsFault
<1> DEFINE S == {p \in Procs : req[p].key = k /\ req[p].pc \in Inside}
<1>1. \A p \in S : lock[k] = p
    BY DEF Owned, Holding
<1>2. CASE S = {}
    BY <1>2, FS_EmptySet
<1>3. ASSUME NEW p \in S PROVE Cardinality(S) <= 1
    <2>1. S = {p}
        BY <1>1, <1>3
    <2> HIDE DEF S
    <2>2. Cardinality({p}) = 1
        BY FS_Singleton
    <2> QED BY <2>1, <2>2
<1> QED BY <1>2, <1>3

\* Two requests with one key are inside the refund handler together only if the
\* lock of idempotencyMiddleware was granted without Redis, ran out, or was given
\* up for a caller that had gone: deleting it without looking at its owner does
\* no harm before that.
THEOREM LockExcludes == Spec => []OverlapNeedsFault
<1>1. Init => Inv /\ Owned
    BY InitInv DEF Init, Owned, Idle, Holding, Inside
<1>2. Inv /\ Owned /\ [Next]_vars => (Inv /\ Owned)'
    BY NextInv, OwnedNext
<1>3. Inv /\ Owned => OverlapNeedsFault
    BY OwnedExcludes
<1> QED BY <1>1, <1>2, <1>3, PTL DEF Spec

-----------------------------------------------------------------------------
(* All answers to a key agree while its lock is not disturbed.             *)

\* Before a transaction is REFUNDED nothing was answered or cached; a request
\* that will make a refund runs before any answer; one that has its refund
\* answers what was answered and cached before, if anything was.
Consistent(k) ==
    /\ \A q, r \in told[k] : q = r
    /\ cache[k] # Null => told[k] \subseteq {cache[k]}
    /\ row[OrderOf[k]] # "REFUNDED" => told[k] = {} /\ cache[k] = Null
    /\ \A p \in Procs : req[p].key = k =>
        /\ req[p].pc \in {"call", "commitRead", "commitWrite"} => told[k] = {} /\ cache[k] = Null
        /\ req[p].pc \in {"respond", "store"} =>
              /\ row[OrderOf[k]] = "REFUNDED"
              /\ told[k] \subseteq {req[p].ref} /\ cache[k] \in {Null, req[p].ref}

Agreement == \A k \in Keys \ disturbed : Consistent(k)

\* Nothing of a key is answered or cached in a step, and its requests know no
\* more than before.
LEMMA ConsistentStays ==
    ASSUME NEW k \in Keys, Consistent(k),
           told'[k] = told[k], cache'[k] \in {cache[k], Null},
           row'[OrderOf[k]] \in {row[OrderOf[k]], "REFUNDED"},
           \A p \in Procs : req'[p].key = k =>
              \/ req'[p].pc \notin {"call", "commitRead", "commitWrite", "respond", "store"}
              \/ /\ req[p].key = k
                 /\ \/ /\ req[p].pc \in {"call", "commitRead", "commitWrite"}
                       /\ req'[p].pc \in {"call", "commitRead", "commitWrite"}
                    \/ /\ req[p].pc \in {"respond", "store"}
                       /\ req'[p].pc \in {"respond", "store"} /\ req'[p].ref = req[p].ref
              \/ req[p].pc = "read" /\ req'[p].pc = "call" /\ row[OrderOf[k]] # "REFUNDED"
    PROVE  Consistent(k)'
<1>1. /\ \A q, r \in told'[k] : q = r
      /\ cache'[k] # Null => told'[k] \subseteq {cache'[k]}
      /\ row'[OrderOf[k]] # "REFUNDED" => told'[k] = {} /\ cache'[k] = Null
    BY DEF Consistent
<1>2. ASSUME NEW p \in Procs, req'[p].key = k, req'[p].pc \in {"call", "commitRead", "commitWrite"}
      PROVE  told'[k] = {} /\ cache'[k] = Null
    BY <1>2 DEF Consistent
<1>3. ASSUME NEW p \in Procs, req'[p].key = k, req'[p].pc \in {"respond", "store"}
      PROVE  /\ row'[OrderOf[k]] = "REFUNDED"
             /\ told'[k] \subseteq {req'[p].ref} /\ cache'[k] \in {Null, req'[p].ref}
    BY <1>3 DEF Consistent
<1> QED BY <1>1, <1>2, <1>3 DEF Consistent

\* The steps that neither answer nor store nor write the tables.
LEMMA AgreementStays ==
    ASSUME Inv, Agreement, UNCHANGED told, disturbed \subseteq disturbed',
           \A k \in Keys : cache'[k] \in {cache[k], Null},
           \A o \in Orders : row'[o] \in {row[o], "REFUNDED"},
           \A p \in Procs :
              \/ req'[p].pc \notin {"call", "commitRead", "commitWrite", "respond", "store"}
              \/ /\ req'[p].key = req[p].key
                 /\ \/ /\ req[p].pc \in {"call", "commitRead", "commitWrite"}
                       /\ req'[p].pc \in {"call", "commitRead", "commitWrite"}
                    \/ /\ req[p].pc \in {"respond", "store"}
                       /\ req'[p].pc \in {"respond", "store"} /\ req'[p].ref = req[p].ref
                    \/ /\ req[p].pc = "read" /\ req'[p].pc = "call"
                       /\ row[OrderOf[req[p].key]] # "REFUNDED"
    PROVE  Agreement'
<1> SUFFICES ASSUME NEW k \in Keys \ disturbed' PROVE Consistent(k)'
    BY DEF Agreement
<1>1. Consistent(k) /\ OrderOf[k] \in Orders
    BY OrderOfAssumption DEF Agreement
<1> QED BY <1>1, ConsistentStays

LEMMA AgreementNext == Inv /\ Owned /\ Agreement /\ [Next]_vars => Agreement'
<1> SUFFICES ASSUME Inv, Owned, Agreement, [Next]_vars PROVE Agreement'
    OBVIOUS
<1> USE DEF redis, db, hist
<1> DEFINE Making    == {"call", "commitRead", "commitWrite"}
<1> DEFINE Answering == {"respond", "store"}
<1>1. CASE UNCHANGED vars
    BY <1>1 DEF vars, Agreement, Consistent
<1>2. ASSUME NEW p \in Procs, NEW k \in Keys, Replay(p, k) PROVE Agreement'
    <2>1. /\ cache[k] # Null /\ told' = [told EXCEPT ![k] = @ \cup {cache[k]}]
          /\ UNCHANGED <<cache, row, req, disturbed>>
        BY <1>2 DEF Replay, cacheKey, Answer
    <2>2. \A j \in Keys : told'[j] = IF j = k THEN told[k] \cup {cache[k]} ELSE told[j]
        BY <2>1 DEF Inv, History
    <2> QED BY <2>1, <2>2 DEF Agreement, Consistent
<1>3. ASSUME NEW p \in Procs, NEW k \in Keys, Miss(p, k) PROVE Agreement'
    <2>1. /\ req'[p].pc = "lock" /\ \A q \in Procs \ {p} : req'[q] = req[q]
          /\ UNCHANGED <<cache, row, told, disturbed>>
        BY <1>3 DEF Miss, Idle, Inv, Requests
    <2> QED BY <2>1, AgreementStays
<1>4. ASSUME NEW p \in Procs, Acquire(p) \/ AcquireOpen(p) PROVE Agreement'
    <2>1. Lands(p, "read") /\ UNCHANGED <<cache, row, told>> /\ disturbed \subseteq disturbed'
        BY <1>4, GotoLands DEF Acquire, AcquireOpen, Steps
    <2> QED BY <2>1, AgreementStays DEF Lands
<1>5. ASSUME NEW p \in Procs, Busy(p) \/ Release(p) \/ ReleaseFails(p) \/ Crash(p) PROVE Agreement'
    <2>1. /\ req'[p].pc = "idle" /\ \A q \in Procs \ {p} : req'[q] = req[q]
          /\ UNCHANGED <<cache, row, told, disturbed>>
        BY <1>5, DoneLands DEF Busy, Release, ReleaseFails, Crash
    <2> QED BY <2>1, AgreementStays
<1>6. ASSUME NEW p \in Procs, CallerGone(p) PROVE Agreement'
    <2>1. /\ req' = [req EXCEPT ![p].open = FALSE]
          /\ disturbed \subseteq disturbed' /\ UNCHANGED <<cache, row, told>>
        BY <1>6 DEF CallerGone
    <2>2. \A q \in Procs : req'[q].pc = req[q].pc /\ req'[q].key = req[q].key /\ req'[q].ref = req[q].ref
        BY <2>1 DEF Inv, Requests, Request
    <2> QED BY <2>1, <2>2, AgreementStays
<1>7. ASSUME NEW p \in Procs, Read(p) PROVE Agreement'
    <2>1. /\ req[p].pc = "read" /\ UNCHANGED <<cache, row, told, disturbed>>
          /\ Lands(p, "release") \/ (Lands(p, "call") /\ row[Order(p)] = "CAPTURED")
        BY <1>7, GotoLands, FinishLands DEF Read, At, Reject, Steps
    <2> QED BY <2>1, AgreementStays DEF Lands, Order
<1>8. ASSUME NEW p \in Procs,
             \/ (\E r \in Refs : Call(p, r) \/ CallLost(p, r))
             \/ CallRefused(p) \/ CallFails(p) \/ CommitRead(p) \/ StoreFails(p)
      PROVE  Agreement'
    <2>1. UNCHANGED <<cache, row, told, disturbed>>
        BY <1>8 DEF Call, CallLost, CallRefused, CallFails, CommitRead, StoreFails
    <2>2. \/ Lands(p, "release")
          \/ /\ req[p].pc \in Making /\ req'[p].pc \in Making /\ req'[p].key = req[p].key
             /\ \A q \in Procs \ {p} : req'[q] = req[q]
        <3>1. ASSUME NEW r \in Refs, Call(p, r)
              PROVE  /\ req[p].pc \in Making /\ req'[p].pc \in Making /\ req'[p].key = req[p].key
                     /\ \A q \in Procs \ {p} : req'[q] = req[q]
            BY <3>1 DEF Call, At, Inv, Requests, Request
        <3>2. CASE CommitRead(p)
            BY <3>2, GotoLands, FinishLands DEF CommitRead, At, Reject, Steps, Lands
        <3> QED BY <1>8, <3>1, <3>2, FinishLands DEF CallLost, CallRefused, CallFails, StoreFails, Reject
    <2> QED BY <2>1, <2>2, AgreementStays DEF Lands
<1>9. ASSUME NEW p \in Procs, CommitWrite(p) PROVE Agreement'
    <2>1. /\ req[p].pc = "commitWrite" /\ req[p].key \in Keys
          /\ UNCHANGED <<cache, told, disturbed, lock>>
        BY <1>9 DEF CommitWrite, At, Inv, Requests, RequestOK
    <2>2. CASE req[p].ref \in refund
        <3>1. Lands(p, "release") /\ UNCHANGED row
            BY <1>9, <2>2, FinishLands DEF CommitWrite, Reject
        <3> QED BY <2>1, <3>1, AgreementStays DEF Lands
    <2>3. CASE req[p].ref \notin refund
        <3>1. /\ Lands(p, "respond") /\ req'[p].ref = req[p].ref
              /\ row' = [row EXCEPT ![Order(p)] = "REFUNDED"]
            BY <1>9, <2>3, GotoLands DEF CommitWrite, Steps
        <3>2. row'[Order(p)] = "REFUNDED" /\ \A o \in Orders : row'[o] \in {row[o], "REFUNDED"}
            BY <2>1, <3>1, OrderOfAssumption DEF Order, Inv, Ledger
        <3> SUFFICES ASSUME NEW k \in Keys \ disturbed PROVE Consistent(k)'
            BY <2>1 DEF Agreement
        <3>3. Consistent(k) /\ OrderOf[k] \in Orders
            BY OrderOfAssumption DEF Agreement
        <3>4. CASE k # req[p].key
            <4>1. told'[k] = told[k] /\ cache'[k] = cache[k]
                BY <2>1
            <4>2. \A q \in Procs : req'[q].key = k => req'[q] = req[q]
                BY <3>1, <3>4 DEF Lands
            <4> QED BY <3>2, <3>3, <4>1, <4>2, ConsistentStays
        <3>5. CASE k = req[p].key
            <4>1. told[k] = {} /\ cache[k] = Null
                BY <2>1, <3>3, <3>5 DEF Consistent
            <4> QED BY <2>1, <3>1, <3>2, <3>5, <4>1 DEF Consistent, Order, Lands
        <3> QED BY <3>4, <3>5
    <2> QED BY <2>2, <2>3
<1>10. ASSUME NEW p \in Procs, req[p].pc \in Answering, NEW k \in Keys \ disturbed, k = req[p].key
      PROVE  /\ \A q \in Procs \ {p} : req[q].key = k => req[q].pc \notin Making \cup Answering
             /\ row[OrderOf[k]] = "REFUNDED"
             /\ told[k] \subseteq {req[p].ref} /\ cache[k] \in {Null, req[p].ref}
             /\ req[p].ref # Null
    <2>1. \A q \in Procs : req[q].key = k /\ req[q].pc \in Holding => lock[k] = q
        BY <1>10 DEF Owned
    <2>2. Consistent(k)
        BY DEF Agreement
    <2>3. req[p].ref # Null
        BY <1>10, NullAssumption DEF Inv, Requests, RequestOK, Carrying
    <2> QED BY <1>10, <2>1, <2>2, <2>3 DEF Consistent, Holding, Inside
<1>11. ASSUME NEW p \in Procs, Respond(p) PROVE Agreement'
    <2>1. /\ req[p].pc \in Answering /\ UNCHANGED <<cache, row, disturbed>>
          /\ Lands(p, "store") /\ req'[p].ref = req[p].ref
        BY <1>11, GotoLands DEF Respond, At, Steps
    <2>2. \A j \in Keys : \/ told'[j] = told[j]
                          \/ j = req[p].key /\ told'[j] = told[j] \cup {req[p].ref}
        BY <1>11 DEF Respond, Answer, Inv, History
    <2> SUFFICES ASSUME NEW k \in Keys \ disturbed PROVE Consistent(k)'
        BY <2>1 DEF Agreement
    <2>3. Consistent(k)
        BY DEF Agreement
    <2>4. CASE k # req[p].key
        <3>1. told'[k] = told[k] /\ \A q \in Procs : req'[q].key = k => req'[q] = req[q]
            BY <2>1, <2>2, <2>4 DEF Lands
        <3> QED BY <2>1, <2>3, <3>1, ConsistentStays
    <2>5. CASE k = req[p].key
        <3>1. /\ \A q \in Procs \ {p} : req'[q].key = k => req'[q].pc \notin Making \cup Answering
              /\ row'[OrderOf[k]] = "REFUNDED"
              /\ told'[k] \subseteq {req'[p].ref} /\ cache'[k] \in {Null, req'[p].ref}
              /\ req'[p].pc = "store"
            BY <1>10, <2>1, <2>2, <2>5 DEF Lands
        <3> QED BY <3>1 DEF Consistent
    <2> QED BY <2>4, <2>5
<1>12. ASSUME NEW p \in Procs, Store(p) PROVE Agreement'
    <2>1. /\ req[p].pc \in Answering /\ UNCHANGED <<told, row, disturbed>>
          /\ Lands(p, "release")
        BY <1>12, FinishLands DEF Store, At
    <2>2. cache' = [cache EXCEPT ![req[p].key] = req[p].ref]
        BY <1>12 DEF Store, cacheKey
    <2>3. \A j \in Keys : cache'[j] = IF j = req[p].key THEN req[p].ref ELSE cache[j]
        BY <2>2 DEF Inv, Redis
    <2> SUFFICES ASSUME NEW k \in Keys \ disturbed PROVE Consistent(k)'
        BY <2>1 DEF Agreement
    <2>4. Consistent(k)
        BY DEF Agreement
    <2>5. CASE k # req[p].key
        <3>1. cache'[k] = cache[k] /\ \A q \in Procs : req'[q].key = k => req'[q] = req[q]
            BY <2>1, <2>3, <2>5 DEF Lands
        <3> QED BY <2>1, <2>4, <3>1, ConsistentStays
    <2>6. CASE k = req[p].key
        <3>1. /\ \A q \in Procs : req'[q].key = k => req'[q].pc \notin Making \cup Answering
              /\ row'[OrderOf[k]] = "REFUNDED"
              /\ told'[k] \subseteq {cache'[k]}
            BY <1>10, <2>1, <2>3, <2>6 DEF Lands
        <3> QED BY <3>1 DEF Consistent
    <2> QED BY <2>5, <2>6
<1>13. ASSUME NEW k \in Keys, ExpireLock(k) \/ ExpireCache(k) PROVE Agreement'
    <2>1. /\ UNCHANGED <<row, told, req>> /\ disturbed \subseteq disturbed'
          /\ \A j \in Keys : cache'[j] \in {cache[j], Null}
        BY <1>13 DEF ExpireLock, ExpireCache, Inv, Redis
    <2> QED BY <2>1, AgreementStays
<1>14. ASSUME NEW r \in Refs, RefundFails(r) \/ Webhook(r) PROVE Agreement'
    <2>1. /\ UNCHANGED <<cache, told, req, disturbed>>
          /\ \A o \in Orders : row'[o] \in {row[o], "REFUNDED"}
        BY <1>14 DEF RefundFails, Webhook, Inv, Ledger
    <2> QED BY <2>1, AgreementStays
<1> HIDE DEF redis, db, hist
<1> QED
    BY <1>1, <1>2, <1>3, <1>4, <1>5, <1>6, <1>7, <1>8, <1>9, <1>11, <1>12, <1>13, <1>14
       DEF Next, Progress

LEMMA AgreementAnswers == Inv /\ Agreement => AnswersAgree
<1> SUFFICES ASSUME Inv, Agreement, NEW k \in Keys \ disturbed
             PROVE  Cardinality(told[k]) <= 1
    BY DEF AnswersAgree
<1>1. CASE told[k] = {}
    BY <1>1, FS_EmptySet
<1>2. ASSUME NEW r \in told[k] PROVE Cardinality(told[k]) <= 1
    <2>1. told[k] = {r}
        BY <1>2 DEF Agreement, Consistent
    <2>2. Cardinality({r}) = 1
        BY FS_Singleton
    <2> QED BY <2>1, <2>2
<1> QED BY <1>1, <1>2

\* All 200 answers of POST /refund to one idempotency key name the same refund as
\* long as the key's lock held, whatever cached answers expired, refunds failed
\* at the gateway and pods died meanwhile.
THEOREM AnswersAgreeAlways == Spec => []AnswersAgree
<1>1. Init => Inv /\ Owned /\ Agreement
    <2>1. Init => Owned
        BY DEF Init, Owned, Idle, Holding, Inside
    <2>2. Init => Agreement
        BY OrderOfAssumption DEF Init, Agreement, Consistent, Idle
    <2> QED BY <2>1, <2>2, InitInv
<1>2. Inv /\ Owned /\ Agreement /\ [Next]_vars => (Inv /\ Owned /\ Agreement)'
    BY NextInv, OwnedNext, AgreementNext
<1>3. Inv /\ Agreement => AnswersAgree
    BY AgreementAnswers
<1> QED BY <1>1, <1>2, <1>3, PTL DEF Spec
=============================================================================
