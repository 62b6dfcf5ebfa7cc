------------------------- MODULE OutboxRelayProofs --------------------------
(***************************************************************************)
(* Proofs of the safety properties of OutboxRelay, for any number of pods, *)
(* runs, events, faults and replays.                                       *)
(***************************************************************************)
EXTENDS OutboxRelay, FiniteSetTheorems, WellFoundedInduction, TLAPS

\* The steps of the loop over the batch.
Looping == {"publish", "mark", "failRead", "failWrite"}

\* A run inside the loop has an event to work on.
BatchLoaded == \A w \in Runs : pc[w] \in Looping => todo[w] # {}

-----------------------------------------------------------------------------
\* The oldest event of a batch exists and is the least: the loop of
\* processPendingEvents goes through its events by createdAt.
LEMMA OldestIsLeast ==
    ASSUME NEW S \in SUBSET Ids, S # {}
    PROVE  Oldest(S) \in S /\ \A f \in S : Oldest(S) <= f
<1>1. Ids \subseteq Nat
  BY SizeAssumption DEF Ids
<1>2. PICK x \in S : \A y \in S : ~(<<y, x>> \in OpToRel(<, Nat))
  <2>1. S \subseteq Nat
    BY <1>1
  <2> QED
    BY <2>1, NatLessThanWellFounded, WFMin, Zenon
<1>3. \A y \in S : x <= y
  <2> TAKE y \in S
  <2>1. x \in Nat /\ y \in Nat
    BY <1>1
  <2>2. ~(y < x)
    BY <1>2, <2>1 DEF OpToRel
  <2> QED
    BY <2>1, <2>2
<1> QED
  BY <1>3 DEF Oldest

\* Init gives every variable its type.
LEMMA InitTypeOK == Init => TypeOK /\ BatchLoaded
  BY SizeAssumption DEF Init, TypeOK, BatchLoaded, Looping, Steps

\* The shape of Advance: the run leaves the event it worked on.
LEMMA AdvanceType ==
    ASSUME TypeOK, NEW w \in Runs, Advance(w)
    PROVE  /\ todo' \in [Runs -> SUBSET Ids]
           /\ pc' \in [Runs -> Steps]
           /\ BatchLoaded => BatchLoaded'
  BY DEF TypeOK, Advance, BatchLoaded, Looping, Steps

\* Every action keeps the types, and a run enters the loop only with a batch.
LEMMA NextTypeOK ==
    TypeOK /\ BatchLoaded /\ [Next]_vars => TypeOK' /\ BatchLoaded'
<1> SUFFICES ASSUME TypeOK, BatchLoaded, [Next]_vars
             PROVE  TypeOK' /\ BatchLoaded'
  OBVIOUS
<1> USE DEF TypeOK, event, run
<1>1. CASE UNCHANGED vars
  BY <1>1 DEF vars, BatchLoaded
<1>2. ASSUME NEW e \in Ids, Insert(e) \/ ReplayDeadLetter(e)
      PROVE  TypeOK' /\ BatchLoaded'
  BY <1>2 DEF Insert, ReplayDeadLetter, BatchLoaded
<1>3. CASE LockExpires
  BY <1>3 DEF LockExpires, BatchLoaded
<1>4. ASSUME NEW d \in Pods, Crash(d)
      PROVE  TypeOK' /\ BatchLoaded'
  BY <1>4 DEF Crash, BatchLoaded, Looping, Steps
<1>5. ASSUME NEW w \in Runs, Start(w) \/ Continue(w)
      PROVE  TypeOK' /\ BatchLoaded'
  <2> USE DEF BatchLoaded, Looping, Steps
  <2>0. pc[w] \in Looping => Oldest(todo[w]) \in Ids
    BY OldestIsLeast
  <2>1. CASE Start(w)
    BY <2>1 DEF Start
  <2>2. CASE Acquire(w)
    BY <2>2 DEF Acquire, acquireLock
  <2>3. CASE Skip(w)
    BY <2>3 DEF Skip
  <2>4. CASE Find(w)
    BY <2>4 DEF Find, findPendingEvents, Pending
  <2>5. CASE Publish(w)
    BY <2>0, <2>5 DEF Publish
  <2>6. CASE PublishFails(w)
    BY <2>0, <2>6 DEF PublishFails
  <2>7. CASE PublishUnsure(w)
    BY <2>0, <2>7 DEF PublishUnsure
  <2>8. CASE MarkPublished(w)
    BY <2>8, AdvanceType DEF MarkPublished
  <2>9. CASE MarkFails(w)
    BY <2>0, <2>9 DEF MarkFails
  <2>10. CASE RecordFailureRead(w)
    BY <2>0, <2>10 DEF RecordFailureRead
  <2>11. CASE RecordFailure(w)
    BY <2>0, <2>11, AdvanceType DEF RecordFailure
  <2>12. CASE Throw(w)
    BY <2>12 DEF Throw
  <2>13. CASE Finish(w)
    BY <2>13 DEF Finish
  <2>14. CASE Release(w)
    BY <2>14 DEF Release, releaseLock
  <2> QED
    BY <1>5, <2>1, <2>2, <2>3, <2>4, <2>5, <2>6, <2>7, <2>8, <2>9, <2>10, <2>11,
       <2>12, <2>13, <2>14 DEF Continue
<1> QED
  BY <1>1, <1>2, <1>3, <1>4, <1>5 DEF Next

\* The outbox row, the lock, the flags and the local state of every run keep
\* their types in every behaviour of the relay.
THEOREM TypeCorrect == Spec => []TypeOK
<1>1. Spec => [](TypeOK /\ BatchLoaded)
  BY InitTypeOK, NextTypeOK, PTL DEF Spec
<1> QED
  BY <1>1, PTL

-----------------------------------------------------------------------------
(***************************************************************************)
(* The order of deliveries.  OrderInv is what a run knows of the events it *)
(* has passed, whatever the lock did.                                      *)
(***************************************************************************)
Tried(e) == delivered[e] > 0 \/ failures[e] > 0

\* Events are inserted one after the other.
InsertedInOrder ==
    \A e, f \in Ids : e < f /\ status[f] # "none" => status[e] # "none"

\* markPublished is only reached after the broker accepted the event ...
MarkDelivered ==
    \A w \in Runs : pc[w] = "mark" => delivered[Oldest(todo[w])] > 0

\* ... and recordFailure after an attempt failed.
RecordFailed ==
    \A w \in Runs : pc[w] \in {"failRead", "failWrite"} => failures[Oldest(todo[w])] > 0

\* A run has a batch of inserted events without gaps: what is older than an
\* event of the batch is in the batch too or was tried.
BatchInOrder ==
    \A w \in Runs : pc[w] \in Looping =>
        \A f \in todo[w] :
            /\ status[f] # "none"
            /\ \A e \in Ids : e < f => e \in todo[w] \/ Tried(e)

\* An event that is no longer pending was tried.
SettledTried ==
    \A e \in Ids : /\ status[e] = "PUBLISHED" => delivered[e] > 0
                   /\ status[e] = "FAILED" => failures[e] > 0

OrderInv == /\ InsertedInOrder
            /\ MarkDelivered
            /\ RecordFailed
            /\ BatchInOrder
            /\ SettledTried
            /\ OvertakeNeedsFailure

\* findPendingEvents passes over no pending event that is older than one it
\* returns.
LEMMA BatchIsOldest ==
    ASSUME NEW e \in findPendingEvents, NEW f \in Ids, f < e
    PROVE  f \in findPendingEvents \/ status[f] # "PENDING"
<1> DEFINE Before(x) == {g \in Pending : g < x}
<1>1. e \in Ids /\ Cardinality(Before(e)) < BatchSize
  BY DEF findPendingEvents, Pending
<1>2. IsFiniteSet(Before(e))
  <2>1. IsFiniteSet(Ids) /\ Before(e) \subseteq Ids
    BY SizeAssumption, FS_Interval DEF Ids, Pending
  <2> QED
    BY <2>1, FS_Subset
<1>3. Before(f) \subseteq Before(e)
  <2> SUFFICES ASSUME NEW g \in Pending, g < f
               PROVE  g < e
    OBVIOUS
  <2> QED
    BY <1>1, SizeAssumption DEF Pending, Ids
<1>4. /\ Cardinality(Before(f)) <= Cardinality(Before(e))
      /\ Cardinality(Before(f)) \in Nat
      /\ Cardinality(Before(e)) \in Nat
  BY <1>2, <1>3, FS_Subset, FS_CardinalityType
<1>5. Cardinality(Before(f)) < BatchSize
  <2> HIDE DEF Before
  <2> QED
    BY <1>1, <1>4, SizeAssumption
<1> QED
  BY <1>5 DEF findPendingEvents, Pending

\* Every event older than one that findPendingEvents returns is returned as well,
\* or was tried and settled.
LEMMA BatchHasNoGap ==
    ASSUME TypeOK, InsertedInOrder, SettledTried,
           NEW f \in findPendingEvents, NEW e \in Ids, e < f
    PROVE  e \in findPendingEvents \/ Tried(e)
<1>1. f \in Ids /\ status[f] = "PENDING"
  BY DEF findPendingEvents, Pending
<1>2. status[e] \in {"PENDING", "PUBLISHED", "FAILED"}
  BY <1>1 DEF InsertedInOrder, TypeOK
<1>3. CASE status[e] = "PENDING"
  BY <1>3, BatchIsOldest
<1>4. CASE status[e] \in {"PUBLISHED", "FAILED"}
  BY <1>4 DEF SettledTried, Tried
<1> QED
  BY <1>2, <1>3, <1>4

\* A history counter that is increased at one event.
LEMMA Increase ==
    ASSUME NEW f \in [Ids -> Nat], NEW x \in Ids, NEW g,
           g = [f EXCEPT ![x] = f[x] + 1]
    PROVE  /\ g[x] > 0
           /\ \A y \in Ids : f[y] > 0 => g[y] > 0
  OBVIOUS

\* Every action keeps OrderInv.
LEMMA NextOrderInv ==
    TypeOK /\ BatchLoaded /\ OrderInv /\ [Next]_vars => OrderInv'
<1> SUFFICES ASSUME TypeOK, BatchLoaded, OrderInv, [Next]_vars
             PROVE  OrderInv'
  OBVIOUS
<1>0. Ids \subseteq Nat
  BY SizeAssumption DEF Ids
<1> USE <1>0 DEF TypeOK, event, Looping
<1>1. CASE UNCHANGED vars
  BY <1>1 DEF vars, OrderInv, InsertedInOrder, MarkDelivered, RecordFailed, BatchInOrder,
          SettledTried, OvertakeNeedsFailure, Tried
<1>2. ASSUME NEW e \in Ids, Insert(e) \/ ReplayDeadLetter(e)
      PROVE  OrderInv'
  BY <1>2 DEF Insert, ReplayDeadLetter, run, OrderInv, InsertedInOrder, MarkDelivered, RecordFailed, BatchInOrder,
          SettledTried, OvertakeNeedsFailure, Tried
<1>3. CASE LockExpires
  BY <1>3 DEF LockExpires, run, OrderInv, InsertedInOrder, MarkDelivered, RecordFailed, BatchInOrder,
          SettledTried, OvertakeNeedsFailure, Tried
<1>4. ASSUME NEW d \in Pods, Crash(d)
      PROVE  OrderInv'
  BY <1>4 DEF Crash, OrderInv, InsertedInOrder, MarkDelivered, RecordFailed, BatchInOrder,
          SettledTried, OvertakeNeedsFailure, Tried
<1>5. ASSUME NEW w \in Runs, Start(w) \/ Continue(w)
      PROVE  OrderInv'
  <2>0. \A v \in Runs : pc[v] \in Looping =>
          /\ Oldest(todo[v]) \in todo[v]
          /\ Oldest(todo[v]) \in Ids
          /\ \A f \in todo[v] : Oldest(todo[v]) <= f
    BY OldestIsLeast DEF BatchLoaded
  <2>1. CASE Start(w)
    BY <2>1 DEF Start, OrderInv, InsertedInOrder, MarkDelivered, RecordFailed, BatchInOrder,
          SettledTried, OvertakeNeedsFailure, Tried
  <2>2. CASE Acquire(w)
    BY <2>2 DEF Acquire, OrderInv, InsertedInOrder, MarkDelivered, RecordFailed, BatchInOrder,
          SettledTried, OvertakeNeedsFailure, Tried
  <2>3. CASE Skip(w)
    BY <2>3 DEF Skip, OrderInv, InsertedInOrder, MarkDelivered, RecordFailed, BatchInOrder,
          SettledTried, OvertakeNeedsFailure, Tried
  <2>4. CASE Find(w)
    BY <2>4, BatchHasNoGap DEF Find, findPendingEvents, Pending, OrderInv, InsertedInOrder, MarkDelivered, RecordFailed, BatchInOrder,
          SettledTried, OvertakeNeedsFailure, Tried
  <2>5. CASE Publish(w)
    <3>0. pc[w] \in Looping
      BY <2>5 DEF Publish
    <3>1. InsertedInOrder'
      BY <2>0, <2>5, <3>0 DEF Publish, OrderInv, InsertedInOrder, BatchInOrder
    <3>2. MarkDelivered'
      <4> SUFFICES ASSUME NEW v \in Runs, pc'[v] = "mark"
                   PROVE  delivered'[Oldest(todo[v])] > 0
        BY <2>5 DEF Publish, MarkDelivered
      <4>1. Oldest(todo[v]) \in Ids /\ Oldest(todo[w]) \in Ids
        BY <2>0, <2>5, <3>0 DEF Publish
      <4>2. CASE v = w
        BY <2>5, <4>1, <4>2, Increase DEF Publish
      <4>3. CASE v # w
        BY <2>5, <4>1, <4>3, Increase DEF Publish, OrderInv, MarkDelivered
      <4> QED
        BY <4>2, <4>3
    <3>3. RecordFailed'
      BY <2>0, <2>5, <3>0 DEF Publish, OrderInv, RecordFailed
    <3>4. BatchInOrder'
      BY <2>0, <2>5, <3>0 DEF Publish, OrderInv, BatchInOrder, MarkDelivered, RecordFailed, Tried
    <3>5. SettledTried'
      BY <2>0, <2>5, <3>0 DEF Publish, OrderInv, SettledTried, MarkDelivered, RecordFailed
    <3>6. OvertakeNeedsFailure'
      BY <2>0, <2>5, <3>0 DEF Publish, OrderInv, OvertakeNeedsFailure, BatchInOrder, Tried
    <3> QED
      BY <3>1, <3>2, <3>3, <3>4, <3>5, <3>6 DEF OrderInv
  <2>6. CASE PublishFails(w)
    <3>0. pc[w] \in Looping
      BY <2>6 DEF PublishFails
    <3>1. InsertedInOrder'
      BY <2>0, <2>6, <3>0 DEF PublishFails, OrderInv, InsertedInOrder, BatchInOrder
    <3>2. MarkDelivered'
      BY <2>0, <2>6, <3>0 DEF PublishFails, OrderInv, MarkDelivered
    <3>3. RecordFailed'
      <4> SUFFICES ASSUME NEW v \in Runs, pc'[v] \in {"failRead", "failWrite"}
                   PROVE  failures'[Oldest(todo[v])] > 0
        BY <2>6 DEF PublishFails, RecordFailed
      <4>1. Oldest(todo[v]) \in Ids /\ Oldest(todo[w]) \in Ids
        BY <2>0, <2>6, <3>0 DEF PublishFails
      <4>2. CASE v = w
        BY <2>6, <4>1, <4>2, Increase DEF PublishFails
      <4>3. CASE v # w
        BY <2>6, <4>1, <4>3, Increase DEF PublishFails, OrderInv, RecordFailed
      <4> QED
        BY <4>2, <4>3
    <3>4. BatchInOrder'
      BY <2>0, <2>6, <3>0 DEF PublishFails, OrderInv, BatchInOrder, MarkDelivered, RecordFailed, Tried
    <3>5. SettledTried'
      BY <2>0, <2>6, <3>0 DEF PublishFails, OrderInv, SettledTried, MarkDelivered, RecordFailed
    <3>6. OvertakeNeedsFailure'
      BY <2>0, <2>6, <3>0 DEF PublishFails, OrderInv, OvertakeNeedsFailure, BatchInOrder, Tried
    <3> QED
      BY <3>1, <3>2, <3>3, <3>4, <3>5, <3>6 DEF OrderInv
  <2>7. CASE PublishUnsure(w)
    <3>0. pc[w] \in Looping
      BY <2>7 DEF PublishUnsure
    <3>1. InsertedInOrder'
      BY <2>0, <2>7, <3>0 DEF PublishUnsure, OrderInv, InsertedInOrder, BatchInOrder
    <3>2. MarkDelivered'
      <4> SUFFICES ASSUME NEW v \in Runs, pc'[v] = "mark"
                   PROVE  delivered'[Oldest(todo[v])] > 0
        BY <2>7 DEF PublishUnsure, MarkDelivered
      <4>1. Oldest(todo[v]) \in Ids /\ Oldest(todo[w]) \in Ids
        BY <2>0, <2>7, <3>0 DEF PublishUnsure
      <4>2. CASE v = w
        BY <2>7, <4>1, <4>2, Increase DEF PublishUnsure
      <4>3. CASE v # w
        BY <2>7, <4>1, <4>3, Increase DEF PublishUnsure, OrderInv, MarkDelivered
      <4> QED
        BY <4>2, <4>3
    <3>3. RecordFailed'
      <4> SUFFICES ASSUME NEW v \in Runs, pc'[v] \in {"failRead", "failWrite"}
                   PROVE  failures'[Oldest(todo[v])] > 0
        BY <2>7 DEF PublishUnsure, RecordFailed
      <4>1. Oldest(todo[v]) \in Ids /\ Oldest(todo[w]) \in Ids
        BY <2>0, <2>7, <3>0 DEF PublishUnsure
      <4>2. CASE v = w
        BY <2>7, <4>1, <4>2, Increase DEF PublishUnsure
      <4>3. CASE v # w
        BY <2>7, <4>1, <4>3, Increase DEF PublishUnsure, OrderInv, RecordFailed
      <4> QED
        BY <4>2, <4>3
    <3>4. BatchInOrder'
      BY <2>0, <2>7, <3>0 DEF PublishUnsure, OrderInv, BatchInOrder, MarkDelivered, RecordFailed, Tried
    <3>5. SettledTried'
      BY <2>0, <2>7, <3>0 DEF PublishUnsure, OrderInv, SettledTried, MarkDelivered, RecordFailed
    <3>6. OvertakeNeedsFailure'
      BY <2>0, <2>7, <3>0 DEF PublishUnsure, OrderInv, OvertakeNeedsFailure, BatchInOrder, Tried
    <3> QED
      BY <3>1, <3>2, <3>3, <3>4, <3>5, <3>6 DEF OrderInv
  <2>8. CASE MarkPublished(w)
    <3>0. pc[w] \in Looping
      BY <2>8 DEF MarkPublished
    <3>1. InsertedInOrder'
      BY <2>0, <2>8, <3>0 DEF MarkPublished, Advance, OrderInv, InsertedInOrder, BatchInOrder
    <3>2. MarkDelivered'
      BY <2>0, <2>8, <3>0 DEF MarkPublished, Advance, OrderInv, MarkDelivered
    <3>3. RecordFailed'
      BY <2>0, <2>8, <3>0 DEF MarkPublished, Advance, OrderInv, RecordFailed
    <3>4. BatchInOrder'
      BY <2>0, <2>8, <3>0 DEF MarkPublished, Advance, OrderInv, BatchInOrder, MarkDelivered, RecordFailed, Tried
    <3>5. SettledTried'
      BY <2>0, <2>8, <3>0 DEF MarkPublished, Advance, OrderInv, SettledTried, MarkDelivered, RecordFailed
    <3>6. OvertakeNeedsFailure'
      BY <2>0, <2>8, <3>0 DEF MarkPublished, Advance, OrderInv, OvertakeNeedsFailure, BatchInOrder, Tried
    <3> QED
      BY <3>1, <3>2, <3>3, <3>4, <3>5, <3>6 DEF OrderInv
  <2>9. CASE MarkFails(w)
    <3>0. pc[w] \in Looping
      BY <2>9 DEF MarkFails
    <3>1. InsertedInOrder'
      BY <2>0, <2>9, <3>0 DEF MarkFails, OrderInv, InsertedInOrder, BatchInOrder
    <3>2. MarkDelivered'
      BY <2>0, <2>9, <3>0 DEF MarkFails, OrderInv, MarkDelivered
    <3>3. RecordFailed'
      <4> SUFFICES ASSUME NEW v \in Runs, pc'[v] \in {"failRead", "failWrite"}
                   PROVE  failures'[Oldest(todo[v])] > 0
        BY <2>9 DEF MarkFails, RecordFailed
      <4>1. Oldest(todo[v]) \in Ids /\ Oldest(todo[w]) \in Ids
        BY <2>0, <2>9, <3>0 DEF MarkFails
      <4>2. CASE v = w
        BY <2>9, <4>1, <4>2, Increase DEF MarkFails
      <4>3. CASE v # w
        BY <2>9, <4>1, <4>3, Increase DEF MarkFails, OrderInv, RecordFailed
      <4> QED
        BY <4>2, <4>3
    <3>4. BatchInOrder'
      BY <2>0, <2>9, <3>0 DEF MarkFails, OrderInv, BatchInOrder, MarkDelivered, RecordFailed, Tried
    <3>5. SettledTried'
      BY <2>0, <2>9, <3>0 DEF MarkFails, OrderInv, SettledTried, MarkDelivered, RecordFailed
    <3>6. OvertakeNeedsFailure'
      BY <2>0, <2>9, <3>0 DEF MarkFails, OrderInv, OvertakeNeedsFailure, BatchInOrder, Tried
    <3> QED
      BY <3>1, <3>2, <3>3, <3>4, <3>5, <3>6 DEF OrderInv
  <2>10. CASE RecordFailureRead(w)
    <3>0. pc[w] \in Looping
      BY <2>10 DEF RecordFailureRead
    <3>1. InsertedInOrder'
      BY <2>0, <2>10, <3>0 DEF RecordFailureRead, OrderInv, InsertedInOrder, BatchInOrder
    <3>2. MarkDelivered'
      BY <2>0, <2>10, <3>0 DEF RecordFailureRead, OrderInv, MarkDelivered
    <3>3. RecordFailed'
      BY <2>0, <2>10, <3>0 DEF RecordFailureRead, OrderInv, RecordFailed
    <3>4. BatchInOrder'
      BY <2>0, <2>10, <3>0 DEF RecordFailureRead, OrderInv, BatchInOrder, MarkDelivered, RecordFailed, Tried
    <3>5. SettledTried'
      BY <2>0, <2>10, <3>0 DEF RecordFailureRead, OrderInv, SettledTried, MarkDelivered, RecordFailed
    <3>6. OvertakeNeedsFailure'
      BY <2>0, <2>10, <3>0 DEF RecordFailureRead, OrderInv, OvertakeNeedsFailure, BatchInOrder, Tried
    <3> QED
      BY <3>1, <3>2, <3>3, <3>4, <3>5, <3>6 DEF OrderInv
  <2>11. CASE RecordFailure(w)
    <3>0. pc[w] \in Looping
      BY <2>11 DEF RecordFailure
    <3>1. InsertedInOrder'
      BY <2>0, <2>11, <3>0 DEF RecordFailure, Advance, OrderInv, InsertedInOrder, BatchInOrder
    <3>2. MarkDelivered'
      BY <2>0, <2>11, <3>0 DEF RecordFailure, Advance, OrderInv, MarkDelivered
    <3>3. RecordFailed'
      BY <2>0, <2>11, <3>0 DEF RecordFailure, Advance, OrderInv, RecordFailed
    <3>4. BatchInOrder'
      BY <2>0, <2>11, <3>0 DEF RecordFailure, Advance, OrderInv, BatchInOrder, MarkDelivered, RecordFailed, Tried
    <3>5. SettledTried'
      BY <2>0, <2>11, <3>0 DEF RecordFailure, Advance, OrderInv, SettledTried, MarkDelivered, RecordFailed
    <3>6. OvertakeNeedsFailure'
      BY <2>0, <2>11, <3>0 DEF RecordFailure, Advance, OrderInv, OvertakeNeedsFailure, BatchInOrder, Tried
    <3> QED
      BY <3>1, <3>2, <3>3, <3>4, <3>5, <3>6 DEF OrderInv
  <2>12. CASE Throw(w)
    BY <2>12 DEF Throw, OrderInv, InsertedInOrder, MarkDelivered, RecordFailed, BatchInOrder,
          SettledTried, OvertakeNeedsFailure, Tried
  <2>13. CASE Finish(w)
    BY <2>13 DEF Finish, OrderInv, InsertedInOrder, MarkDelivered, RecordFailed, BatchInOrder,
          SettledTried, OvertakeNeedsFailure, Tried
  <2>14. CASE Release(w)
    BY <2>14 DEF Release, OrderInv, InsertedInOrder, MarkDelivered, RecordFailed, BatchInOrder,
          SettledTried, OvertakeNeedsFailure, Tried
  <2> QED
    BY <1>5, <2>1, <2>2, <2>3, <2>4, <2>5, <2>6, <2>7, <2>8, <2>9, <2>10, <2>11,
       <2>12, <2>13, <2>14 DEF Continue
<1> QED
  BY <1>1, <1>2, <1>3, <1>4, <1>5 DEF Next

-----------------------------------------------------------------------------
(***************************************************************************)
(* The retry count.  A run that is in recordFailure has a failure that is  *)
(* not counted yet, so the counts stay below the failures by at least the  *)
(* number of those runs.                                                   *)
(***************************************************************************)
InFlight(e) ==
    {w \in Runs : pc[w] \in {"failRead", "failWrite"} /\ Oldest(todo[w]) = e}

Counted ==
    \A e \in Ids :
        /\ IsFiniteSet(InFlight(e))
        /\ retryCount[e] + Cardinality(InFlight(e)) <= failures[e]
        /\ \A w \in InFlight(e) : pc[w] = "failWrite" =>
                count[w] + Cardinality(InFlight(e)) <= failures[e]

\* A step that counts nothing and takes no run into recordFailure.
LEMMA CountedKept ==
    ASSUME TypeOK, TypeOK', Counted,
           \A e \in Ids : InFlight(e)' \subseteq InFlight(e),
           \A e \in Ids : retryCount'[e] <= retryCount[e],
           failures' = failures,
           \A w \in Runs : pc'[w] = "failWrite" => pc[w] = "failWrite" /\ count'[w] = count[w]
    PROVE  Counted'
<1> SUFFICES ASSUME NEW e \in Ids
             PROVE  /\ IsFiniteSet(InFlight(e)')
                    /\ retryCount'[e] + Cardinality(InFlight(e)') <= failures'[e]
                    /\ \A w \in InFlight(e)' : pc'[w] = "failWrite" =>
                            count'[w] + Cardinality(InFlight(e)') <= failures'[e]
  BY DEF Counted
<1>1. IsFiniteSet(InFlight(e)) /\ InFlight(e)' \subseteq InFlight(e)
  BY DEF Counted
<1>2. /\ IsFiniteSet(InFlight(e)')
      /\ Cardinality(InFlight(e)') <= Cardinality(InFlight(e))
      /\ Cardinality(InFlight(e)') \in Nat
      /\ Cardinality(InFlight(e)) \in Nat
  BY <1>1, FS_Subset, FS_CardinalityType
<1> DEFINE n == Cardinality(InFlight(e))
           m == Cardinality(InFlight(e)')
<1>3. m <= n /\ m \in Nat /\ n \in Nat
  BY <1>2
<1>4. retryCount[e] + n <= failures[e]
  BY DEF Counted
<1> HIDE DEF n, m
<1>5. retryCount'[e] + m <= failures'[e]
  BY <1>3, <1>4 DEF TypeOK
<1>6. ASSUME NEW w \in InFlight(e)', pc'[w] = "failWrite"
      PROVE  count'[w] + m <= failures'[e]
  <2>1. w \in Runs /\ w \in InFlight(e)
    BY <1>1, <1>6 DEF InFlight
  <2>2. count[w] + n <= failures[e]
    BY <2>1, <1>6 DEF Counted, n
  <2> QED
    BY <1>3, <1>6, <2>1, <2>2 DEF TypeOK
<1> QED
  BY <1>2, <1>5, <1>6 DEF m

\* A failed attempt takes its run into recordFailure and is one more failure.
LEMMA CountedFailure ==
    ASSUME TypeOK, TypeOK', BatchLoaded, Counted,
           NEW w \in Runs, pc[w] \in {"publish", "mark"},
           pc' = [pc EXCEPT ![w] = "failRead"],
           failures' = [failures EXCEPT ![Oldest(todo[w])] = @ + 1],
           UNCHANGED <<retryCount, todo, count>>
    PROVE  Counted'
<1> DEFINE o == Oldest(todo[w])
<1>1. o \in Ids
  BY OldestIsLeast DEF BatchLoaded, Looping, TypeOK
<1> HIDE DEF o
<1>2. failures'[o] = failures[o] + 1 /\ \A e \in Ids \ {o} : failures'[e] = failures[e]
  BY <1>1 DEF TypeOK, o
<1> SUFFICES ASSUME NEW e \in Ids
             PROVE  /\ IsFiniteSet(InFlight(e)')
                    /\ retryCount'[e] + Cardinality(InFlight(e)') <= failures'[e]
                    /\ \A v \in InFlight(e)' : pc'[v] = "failWrite" =>
                            count'[v] + Cardinality(InFlight(e)') <= failures'[e]
  BY DEF Counted
<1>3. /\ IsFiniteSet(InFlight(e))
      /\ Cardinality(InFlight(e)) \in Nat
      /\ retryCount[e] + Cardinality(InFlight(e)) <= failures[e]
      /\ \A v \in InFlight(e) : pc[v] = "failWrite" =>
              count[v] + Cardinality(InFlight(e)) <= failures[e]
  BY FS_CardinalityType DEF Counted
<1>4. CASE e = o
  <2>1. InFlight(e)' = InFlight(e) \cup {w} /\ w \notin InFlight(e)
    BY <1>4 DEF InFlight, o, TypeOK
  <2>2. /\ IsFiniteSet(InFlight(e)')
        /\ Cardinality(InFlight(e)') = Cardinality(InFlight(e)) + 1
    BY <1>3, <2>1, FS_AddElement
  <2>3. \A v \in InFlight(e)' : pc'[v] = "failWrite" =>
            v \in Runs /\ v \in InFlight(e) /\ pc[v] = "failWrite"
    BY <2>1 DEF InFlight, TypeOK
  <2>4. failures'[e] = failures[e] + 1
    BY <1>2, <1>4
  <2> QED
    BY <1>3, <2>2, <2>3, <2>4 DEF TypeOK
<1>5. CASE e # o
  <2>1. InFlight(e)' = InFlight(e)
    BY <1>5 DEF InFlight, o, TypeOK
  <2>2. \A v \in InFlight(e)' : pc'[v] = "failWrite" =>
            v \in Runs /\ v \in InFlight(e) /\ pc[v] = "failWrite"
    BY <2>1 DEF InFlight, TypeOK
  <2>3. failures'[e] = failures[e]
    BY <1>2, <1>5
  <2> QED
    BY <1>3, <2>1, <2>2, <2>3 DEF TypeOK
<1> QED
  BY <1>4, <1>5

\* The read of recordFailure.
LEMMA CountedRead ==
    ASSUME TypeOK, TypeOK', BatchLoaded, Counted, NEW w \in Runs, RecordFailureRead(w)
    PROVE  Counted'
<1> USE DEF RecordFailureRead, event
<1> SUFFICES ASSUME NEW e \in Ids
             PROVE  /\ IsFiniteSet(InFlight(e)')
                    /\ retryCount'[e] + Cardinality(InFlight(e)') <= failures'[e]
                    /\ \A v \in InFlight(e)' : pc'[v] = "failWrite" =>
                            count'[v] + Cardinality(InFlight(e)') <= failures'[e]
  BY DEF Counted
<1>1. InFlight(e)' = InFlight(e)
  BY DEF InFlight, TypeOK
<1>2. /\ IsFiniteSet(InFlight(e))
      /\ retryCount[e] + Cardinality(InFlight(e)) <= failures[e]
      /\ \A v \in InFlight(e) : pc[v] = "failWrite" =>
              count[v] + Cardinality(InFlight(e)) <= failures[e]
  BY DEF Counted
<1>3. ASSUME NEW v \in InFlight(e), pc'[v] = "failWrite"
      PROVE  count'[v] + Cardinality(InFlight(e)) <= failures[e]
  <2>1. v \in Runs /\ Oldest(todo[v]) = e
    BY DEF InFlight
  <2>2. CASE v = w
    <3>1. count'[v] = retryCount[e]
      BY <2>1, <2>2 DEF TypeOK
    <3> QED
      BY <1>2, <3>1
  <2>3. CASE v # w
    <3>1. count'[v] = count[v] /\ pc[v] = "failWrite"
      BY <1>3, <2>1, <2>3 DEF TypeOK
    <3> QED
      BY <1>2, <3>1
  <2> QED
    BY <2>2, <2>3
<1> QED
  BY <1>1, <1>2, <1>3

\* The update of recordFailure counts one failure, and its run is done with it.
LEMMA CountedWrite ==
    ASSUME TypeOK, TypeOK', BatchLoaded, Counted, DeadLetterEarned,
           NEW w \in Runs, RecordFailure(w)
    PROVE  Counted' /\ DeadLetterEarned'
<1>0. PICK o \in Ids : o = Oldest(todo[w])
  BY OldestIsLeast DEF BatchLoaded, Looping, TypeOK, RecordFailure
<1>a. /\ retryCount' = [retryCount EXCEPT ![o] = count[w] + 1]
      /\ status' = [status EXCEPT ![o] = IF count[w] + 1 >= MaxRetries
                                           THEN "FAILED"
                                           ELSE "PENDING"]
      /\ failures' = failures
  BY <1>0 DEF RecordFailure
<1>b. w \in InFlight(o)
  BY <1>0 DEF RecordFailure, InFlight
<1>1. ASSUME NEW e \in Ids
      PROVE  /\ IsFiniteSet(InFlight(e))
             /\ Cardinality(InFlight(e)) \in Nat
             /\ retryCount[e] + Cardinality(InFlight(e)) <= failures[e]
             /\ \A v \in InFlight(e) : pc[v] = "failWrite" =>
                     count[v] + Cardinality(InFlight(e)) <= failures[e]
  BY FS_CardinalityType DEF Counted
<1>c. \A v \in Runs \ {w} : pc'[v] = pc[v] /\ todo'[v] = todo[v]
  BY DEF RecordFailure, Advance, TypeOK
<1>d. pc'[w] \in {"finish", "publish"}
  BY DEF RecordFailure, Advance, TypeOK
<1>2. InFlight(o)' = InFlight(o) \ {w}
  BY <1>c, <1>d DEF InFlight
<1>3. \A e \in Ids \ {o} : InFlight(e)' = InFlight(e)
  BY <1>0, <1>c, <1>d DEF InFlight
<1>4. /\ IsFiniteSet(InFlight(o)')
      /\ Cardinality(InFlight(o)') = Cardinality(InFlight(o)) - 1
  <2>1. IsFiniteSet(InFlight(o))
    BY <1>1
  <2> QED
    BY <2>1, <1>2, <1>b, FS_RemoveElement
<1>5. count[w] + Cardinality(InFlight(o)) <= failures[o]
  BY <1>0, <1>1, <1>b DEF RecordFailure
<1>6. \A v \in Runs : pc'[v] = "failWrite" =>
          v # w /\ pc[v] = "failWrite" /\ count'[v] = count[v]
  BY DEF RecordFailure, Advance, TypeOK
<1>7. Counted'
  <2> SUFFICES ASSUME NEW e \in Ids
               PROVE  /\ IsFiniteSet(InFlight(e)')
                      /\ retryCount'[e] + Cardinality(InFlight(e)') <= failures'[e]
                      /\ \A v \in InFlight(e)' : pc'[v] = "failWrite" =>
                              count'[v] + Cardinality(InFlight(e)') <= failures'[e]
    BY DEF Counted
  <2>1. InFlight(e)' \subseteq InFlight(e) /\ InFlight(e) \subseteq Runs
    BY <1>2, <1>3 DEF InFlight
  <2>2. CASE e = o
    <3>1. retryCount'[e] = count[w] + 1
      BY <1>a, <2>2 DEF TypeOK
    <3>2. \A v \in Runs : count[v] \in Nat
      BY DEF TypeOK
    <3>3. failures[e] \in Nat
      BY DEF TypeOK
    <3> QED
      BY <1>a, <1>1, <1>4, <1>5, <1>6, <2>1, <2>2, <3>1, <3>2, <3>3
  <2>3. CASE e # o
    <3>1. retryCount'[e] = retryCount[e]
      BY <1>a, <2>3 DEF TypeOK
    <3> QED
      BY <1>a, <1>1, <1>3, <1>6, <2>1, <2>3, <3>1
  <2> QED
    BY <2>2, <2>3
<1>8. DeadLetterEarned'
  <2>1. Cardinality(InFlight(o)) >= 1
    <3>1. Cardinality(InFlight(o)) # 0
      BY <1>0, <1>1, <1>b, FS_EmptySet
    <3> QED
      BY <3>1, <1>0, <1>1
  <2>2. count[w] + 1 <= failures[o]
    BY <1>0, <1>1, <1>5, <2>1 DEF TypeOK
  <2>3. count[w] \in Nat /\ failures[o] \in Nat
    BY <1>0 DEF TypeOK
  <2>4. status'[o] = "FAILED" => failures[o] >= MaxRetries
    BY <1>0, <1>a, <2>2, <2>3, SizeAssumption DEF TypeOK
  <2>5. \A e \in Ids \ {o} : status'[e] = status[e]
    BY <1>a DEF TypeOK
  <2> QED
    BY <1>a, <2>4, <2>5 DEF DeadLetterEarned
<1> QED
  BY <1>7, <1>8

\* Every action keeps Counted, and an event becomes a dead letter only with
\* MaxRetries failures.
LEMMA NextCounted ==
    ASSUME TypeOK, TypeOK', BatchLoaded, Counted, DeadLetterEarned, [Next]_vars
    PROVE  Counted' /\ DeadLetterEarned'
<1> DEFINE Kept == /\ \A e \in Ids : InFlight(e)' \subseteq InFlight(e)
                   /\ \A e \in Ids : retryCount'[e] <= retryCount[e]
                   /\ failures' = failures
                   /\ \A w \in Runs : pc'[w] = "failWrite" =>
                           pc[w] = "failWrite" /\ count'[w] = count[w]
           NoDeadLetter == /\ \A e \in Ids : status'[e] = "FAILED" => status[e] = "FAILED"
                           /\ \A e \in Ids : failures'[e] >= failures[e]
<1>a. Kept => Counted'
  BY CountedKept
<1>b. NoDeadLetter => DeadLetterEarned'
  BY SizeAssumption DEF DeadLetterEarned, TypeOK
<1> HIDE DEF Kept, NoDeadLetter
<1>1. CASE UNCHANGED vars
  BY <1>1, <1>a, <1>b DEF Kept, NoDeadLetter, vars, InFlight, TypeOK
<1>2. ASSUME NEW e \in Ids, Insert(e) \/ ReplayDeadLetter(e)
      PROVE  Kept /\ NoDeadLetter
  BY <1>2 DEF Kept, NoDeadLetter, Insert, ReplayDeadLetter, run, InFlight, TypeOK
<1>3. CASE LockExpires
  BY <1>3, <1>a, <1>b DEF Kept, NoDeadLetter, LockExpires, event, run, InFlight, TypeOK
<1>4. ASSUME NEW d \in Pods, Crash(d)
      PROVE  Kept /\ NoDeadLetter
  BY <1>4 DEF Kept, NoDeadLetter, Crash, event, InFlight, TypeOK
<1>5. ASSUME NEW w \in Runs,
             Start(w) \/ Acquire(w) \/ Skip(w) \/ Find(w) \/ Finish(w) \/ Release(w)
      PROVE  Kept /\ NoDeadLetter
  BY <1>5 DEF Kept, NoDeadLetter, Start, Acquire, Skip, Find, Finish, Release, event,
              InFlight, TypeOK
<1>6. ASSUME NEW w \in Runs, Publish(w) \/ Throw(w)
      PROVE  Kept /\ NoDeadLetter
  BY <1>6 DEF Kept, NoDeadLetter, Publish, Throw, event, InFlight, TypeOK
<1>7. ASSUME NEW w \in Runs, MarkPublished(w)
      PROVE  Kept /\ NoDeadLetter
  BY <1>7 DEF Kept, NoDeadLetter, MarkPublished, Advance, InFlight, TypeOK
<1>8. ASSUME NEW w \in Runs, PublishFails(w) \/ PublishUnsure(w) \/ MarkFails(w)
      PROVE  Counted' /\ NoDeadLetter
  <2>1. Counted'
    BY <1>8, CountedFailure DEF PublishFails, PublishUnsure, MarkFails, event
  <2>2. NoDeadLetter
    <3>1. PICK o \in Ids : o = Oldest(todo[w])
      BY <1>8, OldestIsLeast
         DEF PublishFails, PublishUnsure, MarkFails, BatchLoaded, Looping, TypeOK
    <3>2. failures' = [failures EXCEPT ![o] = failures[o] + 1] /\ status' = status
      BY <1>8, <3>1 DEF PublishFails, PublishUnsure, MarkFails, event
    <3> QED
      BY <3>2 DEF NoDeadLetter, TypeOK
  <2> QED
    BY <2>1, <2>2
<1>9. ASSUME NEW w \in Runs, RecordFailureRead(w)
      PROVE  Counted' /\ NoDeadLetter
  <2>1. Counted'
    BY <1>9, CountedRead
  <2>2. NoDeadLetter
    BY <1>9 DEF NoDeadLetter, RecordFailureRead, event, TypeOK
  <2> QED
    BY <2>1, <2>2
<1>10. ASSUME NEW w \in Runs, RecordFailure(w)
       PROVE  Counted' /\ DeadLetterEarned'
  BY <1>10, CountedWrite
<1> QED
  BY <1>a, <1>b, <1>1, <1>2, <1>3, <1>4, <1>5, <1>6, <1>7, <1>8, <1>9, <1>10
     DEF Next, Continue

\* Nothing is in flight, tried or counted at first.
LEMMA InitInv == Init => OrderInv /\ Counted /\ DeadLetterEarned
<1> SUFFICES ASSUME Init PROVE OrderInv /\ Counted /\ DeadLetterEarned
  OBVIOUS
<1>1. OrderInv
  BY SizeAssumption
     DEF Init, OrderInv, InsertedInOrder, MarkDelivered, RecordFailed, BatchInOrder,
         SettledTried, OvertakeNeedsFailure, Tried, Looping
<1>2. \A e \in Ids : InFlight(e) = {}
  BY DEF Init, InFlight
<1>3. Counted
  <2> SUFFICES ASSUME NEW e \in Ids
               PROVE  /\ IsFiniteSet(InFlight(e))
                      /\ retryCount[e] + Cardinality(InFlight(e)) <= failures[e]
                      /\ \A w \in InFlight(e) : pc[w] = "failWrite" =>
                              count[w] + Cardinality(InFlight(e)) <= failures[e]
    BY DEF Counted
  <2>1. IsFiniteSet(InFlight(e)) /\ Cardinality(InFlight(e)) = 0
    BY <1>2, FS_EmptySet
  <2> QED
    BY <1>2, <2>1 DEF Init
<1>4. DeadLetterEarned
  BY DEF Init, DeadLetterEarned
<1> QED
  BY <1>1, <1>3, <1>4

SafetyInv == TypeOK /\ BatchLoaded /\ OrderInv /\ Counted /\ DeadLetterEarned

\* SafetyInv holds in every behaviour, with or without an intact lock.
LEMMA Safety == Spec => []SafetyInv
<1>1. Init => SafetyInv
  BY InitTypeOK, InitInv DEF SafetyInv
<1>2. SafetyInv /\ [Next]_vars => SafetyInv'
  BY NextTypeOK, NextOrderInv, NextCounted DEF SafetyInv
<1> QED
  BY <1>1, <1>2, PTL DEF Spec

\* markPublished never hides an event that no broker accepted, even when the
\* Redis lock fails and runs overlap.
THEOREM NoSilentDrop == Spec => []PublishedWasDelivered
<1>1. SafetyInv => PublishedWasDelivered
  BY DEF SafetyInv, OrderInv, SettledTried, PublishedWasDelivered
<1> QED
  BY <1>1, Safety, PTL

\* Batches are oldest first and are worked off in order: however many runs
\* overlap, an event is overtaken only after an attempt at it failed.
THEOREM OldestFirst == Spec => []OvertakeNeedsFailure
<1>1. SafetyInv => OvertakeNeedsFailure
  BY DEF SafetyInv, OrderInv
<1> QED
  BY <1>1, Safety, PTL

\* recordFailure's read and update may interleave with those of other runs and
\* lose increments, but an event becomes a dead letter only after
\* MAX_OUTBOX_RETRIES failed attempts.
THEOREM DeadLettersAreEarned == Spec => []DeadLetterEarned
<1>1. SafetyInv => DeadLetterEarned
  BY DEF SafetyInv
<1> QED
  BY <1>1, Safety, PTL

-----------------------------------------------------------------------------
(***************************************************************************)
(* The Redis lock.  What follows assumes it intact: no run outlives the    *)
(* lock's time to live (~SlowRuns) and Redis answers (~RedisFails).  The   *)
(* run relay_overlap shows what is left without these assumptions.         *)
(***************************************************************************)
Guarded == {"find", "publish", "mark", "failRead", "failWrite", "finish", "unlock"}

\* A run between acquireLock and releaseLock made the key that is in Redis.
HoldsLock == \A w \in Runs : pc[w] \in Guarded => lock = w

\* Every action keeps the lock with the run that needs it: keys expire and are
\* deleted only when no other run relies on them.
LEMMA NextHoldsLock ==
    ASSUME ~SlowRuns, ~RedisFails, TypeOK, HoldsLock, [Next]_vars
    PROVE  HoldsLock'
<1> USE DEF TypeOK, HoldsLock, Guarded, Steps
<1>1. CASE UNCHANGED vars
  BY <1>1 DEF vars
<1>2. ASSUME NEW e \in Ids, Insert(e) \/ ReplayDeadLetter(e)
      PROVE  HoldsLock'
  BY <1>2 DEF Insert, ReplayDeadLetter, run
<1>3. CASE LockExpires
  BY <1>3 DEF LockExpires, run
<1>4. ASSUME NEW d \in Pods, Crash(d)
      PROVE  HoldsLock'
  BY <1>4 DEF Crash
<1>5. ASSUME NEW w \in Runs, Start(w) \/ Skip(w) \/ Find(w) \/ Throw(w) \/ Finish(w)
      PROVE  HoldsLock'
  BY <1>5 DEF Start, Skip, Find, Throw, Finish
<1>6. ASSUME NEW w \in Runs, Acquire(w)
      PROVE  HoldsLock'
  BY <1>6, NullAssumption DEF Acquire, acquireLock
<1>7. ASSUME NEW w \in Runs, Publish(w) \/ PublishFails(w) \/ PublishUnsure(w)
      PROVE  HoldsLock'
  BY <1>7 DEF Publish, PublishFails, PublishUnsure
<1>8. ASSUME NEW w \in Runs, MarkPublished(w) \/ MarkFails(w)
      PROVE  HoldsLock'
  BY <1>8 DEF MarkPublished, MarkFails, Advance
<1>9. ASSUME NEW w \in Runs, RecordFailureRead(w) \/ RecordFailure(w)
      PROVE  HoldsLock'
  BY <1>9 DEF RecordFailureRead, RecordFailure, Advance
<1>10. ASSUME NEW w \in Runs, Release(w)
       PROVE  HoldsLock'
  BY <1>10 DEF Release, releaseLock
<1> QED
  BY <1>1, <1>2, <1>3, <1>4, <1>5, <1>6, <1>7, <1>8, <1>9, <1>10 DEF Next, Continue

\* HoldsLock makes runs exclusive.
LEMMA HoldsLockExcludes ==
    ASSUME HoldsLock
    PROVE  OneRelay
  BY DEF HoldsLock, Guarded, OneRelay, Working

\* What a run has left of its batch is still pending when it gets there.
BatchPending ==
    \A w \in Runs : pc[w] \in Looping => \A e \in todo[w] : status[e] = "PENDING"

\* Every action keeps BatchPending, because one run at a time settles events.
LEMMA NextBatchPending ==
    ASSUME TypeOK, BatchLoaded, HoldsLock, BatchPending, [Next]_vars
    PROVE  BatchPending'
<1> USE DEF TypeOK, BatchPending, Looping
<1>1. CASE UNCHANGED vars
  BY <1>1 DEF vars
<1>2. ASSUME NEW e \in Ids, Insert(e) \/ ReplayDeadLetter(e)
      PROVE  BatchPending'
  BY <1>2 DEF Insert, ReplayDeadLetter, run
<1>3. CASE LockExpires
  BY <1>3 DEF LockExpires, event, run
<1>4. ASSUME NEW d \in Pods, Crash(d)
      PROVE  BatchPending'
  BY <1>4 DEF Crash, event
<1>5. ASSUME NEW w \in Runs,
             Start(w) \/ Acquire(w) \/ Skip(w) \/ Throw(w) \/ Finish(w) \/ Release(w)
      PROVE  BatchPending'
  BY <1>5 DEF Start, Acquire, Skip, Throw, Finish, Release, event
<1>6. ASSUME NEW w \in Runs, Find(w)
      PROVE  BatchPending'
  BY <1>6 DEF Find, findPendingEvents, Pending, event
<1>7. ASSUME NEW w \in Runs, Publish(w) \/ PublishFails(w) \/ PublishUnsure(w)
      PROVE  BatchPending'
  BY <1>7 DEF Publish, PublishFails, PublishUnsure, event
<1>8. ASSUME NEW w \in Runs, MarkFails(w) \/ RecordFailureRead(w)
      PROVE  BatchPending'
  BY <1>8 DEF MarkFails, RecordFailureRead, event
<1>9. ASSUME NEW w \in Runs, MarkPublished(w) \/ RecordFailure(w)
      PROVE  BatchPending'
  <2>1. PICK o \in Ids : o = Oldest(todo[w])
    BY <1>9, OldestIsLeast DEF MarkPublished, RecordFailure, BatchLoaded
  <2>2. /\ \A e \in Ids \ {o} : status'[e] = status[e]
        /\ todo'[w] = todo[w] \ {o}
        /\ \A v \in Runs \ {w} : pc'[v] = pc[v] /\ todo'[v] = todo[v]
    BY <1>9, <2>1 DEF MarkPublished, RecordFailure, Advance
  <2>3. \A v \in Runs \ {w} : pc[v] \notin Looping
    BY <1>9 DEF MarkPublished, RecordFailure, HoldsLock, Guarded
  <2>4. \A e \in todo[w] : status[e] = "PENDING"
    BY <1>9 DEF MarkPublished, RecordFailure
  <2> QED
    BY <2>2, <2>3, <2>4
<1> QED
  BY <1>1, <1>2, <1>3, <1>4, <1>5, <1>6, <1>7, <1>8, <1>9 DEF Next, Continue

\* A run has delivered the event and is about to mark it.
Marking(e) == \E w \in Runs : pc[w] = "mark" /\ Oldest(todo[w]) = e

\* Until an event is published or about to be, every delivery of it is one that
\* a fault wasted.
DeliveredOnce ==
    \A e \in Ids :
        /\ delivered[e] <= 1 + faults
        /\ status[e] # "PUBLISHED" /\ ~Marking(e) => delivered[e] <= faults

\* Every action keeps DeliveredOnce: only the run that holds the lock delivers,
\* and only what is still pending.
LEMMA NextDeliveredOnce ==
    ASSUME TypeOK, BatchLoaded, HoldsLock, BatchPending, DeliveredOnce, [Next]_vars
    PROVE  DeliveredOnce'
<1> USE DEF TypeOK
<1>1. CASE UNCHANGED vars
  BY <1>1 DEF vars, DeliveredOnce, Marking
<1>2. ASSUME NEW e \in Ids, Insert(e) \/ ReplayDeadLetter(e)
      PROVE  DeliveredOnce'
  BY <1>2 DEF Insert, ReplayDeadLetter, run, DeliveredOnce, Marking
<1>3. CASE LockExpires
  BY <1>3 DEF LockExpires, event, run, DeliveredOnce, Marking
<1>4. ASSUME NEW d \in Pods, Crash(d)
      PROVE  DeliveredOnce'
  BY <1>4 DEF Crash, event, DeliveredOnce
<1>5. ASSUME NEW w \in Runs,
             Start(w) \/ Acquire(w) \/ Skip(w) \/ Find(w) \/ Finish(w) \/ Release(w)
      PROVE  DeliveredOnce'
  <2>1. \A e \in Ids : Marking(e) => Marking(e)'
    BY <1>5 DEF Marking, Start, Acquire, Skip, Find, Finish, Release
  <2>2. UNCHANGED <<status, delivered, faults>>
    BY <1>5 DEF Start, Acquire, Skip, Find, Finish, Release, event
  <2> QED
    BY <2>1, <2>2 DEF DeliveredOnce
<1>6. ASSUME NEW w \in Runs, Throw(w) \/ MarkFails(w)
      PROVE  DeliveredOnce'
  BY <1>6 DEF Throw, MarkFails, event, DeliveredOnce
<1>7. ASSUME NEW w \in Runs, PublishFails(w) \/ RecordFailureRead(w)
      PROVE  DeliveredOnce'
  <2>1. \A e \in Ids : Marking(e) => Marking(e)'
    BY <1>7 DEF Marking, PublishFails, RecordFailureRead
  <2>2. UNCHANGED <<status, delivered, faults>>
    BY <1>7 DEF PublishFails, RecordFailureRead, event
  <2> QED
    BY <2>1, <2>2 DEF DeliveredOnce
<1>8. ASSUME NEW w \in Runs,
             Publish(w) \/ PublishUnsure(w) \/ MarkPublished(w) \/ RecordFailure(w)
      PROVE  DeliveredOnce'
  <2>0. pc[w] \in Looping
    BY <1>8 DEF Publish, PublishUnsure, MarkPublished, RecordFailure, Looping
  <2>1. PICK o \in Ids : o = Oldest(todo[w]) /\ o \in todo[w]
    BY <2>0, OldestIsLeast DEF BatchLoaded
  <2>2. status[o] = "PENDING"
    BY <2>0, <2>1 DEF BatchPending
  <2>3. \A v \in Runs \ {w} : pc[v] # "mark"
    BY <2>0 DEF HoldsLock, Guarded, Looping
  <2>4. CASE Publish(w)
    <3>1. \A e \in Ids : ~Marking(e)
      BY <2>3, <2>4 DEF Publish, Marking
    <3>2. Marking(o)'
      BY <2>1, <2>4 DEF Publish, Marking
    <3>3. delivered[o] <= faults
      BY <2>2, <3>1 DEF DeliveredOnce
    <3>4. /\ delivered' = [delivered EXCEPT ![o] = delivered[o] + 1]
          /\ UNCHANGED <<status, faults>>
      BY <2>1, <2>4 DEF Publish, event
    <3> QED
      BY <3>1, <3>2, <3>3, <3>4 DEF DeliveredOnce
  <2>5. CASE PublishUnsure(w)
    <3>1. \A e \in Ids : ~Marking(e)
      BY <2>3, <2>5 DEF PublishUnsure, Marking
    <3>2. /\ delivered' = [delivered EXCEPT ![o] = delivered[o] + 1]
          /\ faults' = faults + 1
          /\ status' = status
      BY <2>1, <2>5 DEF PublishUnsure, event
    <3>3. \A e \in Ids : delivered[e] <= 1 + faults
      BY DEF DeliveredOnce
    <3>4. delivered[o] <= faults
      BY <2>2, <3>1 DEF DeliveredOnce
    <3>5. \A e \in Ids : delivered'[e] <= faults'
      BY <3>2, <3>3, <3>4
    <3> QED
      BY <3>2, <3>5 DEF DeliveredOnce
  <2>6. CASE MarkPublished(w)
    <3>1. \A e \in Ids \ {o} : ~Marking(e)
      BY <2>1, <2>3 DEF Marking
    <3>2. /\ status' = [status EXCEPT ![o] = "PUBLISHED"]
          /\ UNCHANGED <<delivered, faults>>
      BY <2>1, <2>6 DEF MarkPublished
    <3> QED
      BY <3>1, <3>2 DEF DeliveredOnce
  <2>7. CASE RecordFailure(w)
    <3>1. \A e \in Ids : ~Marking(e)
      BY <2>3, <2>7 DEF RecordFailure, Marking
    <3>2. /\ \A e \in Ids \ {o} : status'[e] = status[e]
          /\ UNCHANGED <<delivered, faults>>
      BY <2>1, <2>7 DEF RecordFailure
    <3> QED
      BY <2>2, <3>1, <3>2 DEF DeliveredOnce
  <2> QED
    BY <1>8, <2>4, <2>5, <2>6, <2>7
<1> QED
  BY <1>1, <1>2, <1>3, <1>4, <1>5, <1>6, <1>7, <1>8 DEF Next, Continue

LockInv == TypeOK /\ BatchLoaded /\ HoldsLock /\ BatchPending /\ DeliveredOnce

\* LockInv holds in every behaviour in which the lock is intact.
LEMMA LockSafety ==
    ASSUME ~SlowRuns, ~RedisFails
    PROVE  Spec => []LockInv
<1>1. Init => LockInv
  BY InitTypeOK
     DEF Init, LockInv, HoldsLock, Guarded, BatchPending, Looping, DeliveredOnce, Marking
<1>2. LockInv /\ [Next]_vars => LockInv'
  BY NextTypeOK, NextHoldsLock, NextBatchPending, NextDeliveredOnce DEF LockInv
<1> QED
  BY <1>1, <1>2, PTL DEF Spec

\* With an intact lock two runs of processPendingEvents never work on the outbox
\* at the same time, in whatever pods they are.
THEOREM LockExcludes ==
    ASSUME ~SlowRuns, ~RedisFails
    PROVE  Spec => []OneRelay
<1>1. LockInv => OneRelay
  BY HoldsLockExcludes DEF LockInv
<1> QED
  BY <1>1, LockSafety, PTL

\* With an intact lock an event reaches the brokers once, plus at most once for
\* each crash, database error or lost answer.
THEOREM DuplicatesAreFaults ==
    ASSUME ~SlowRuns, ~RedisFails
    PROVE  Spec => []DuplicateNeedsFault
<1>1. LockInv => DuplicateNeedsFault
  BY DEF LockInv, DeliveredOnce, DuplicateNeedsFault
<1> QED
  BY <1>1, LockSafety, PTL

-----------------------------------------------------------------------------
(***************************************************************************)
(* The abstract queue.  QueueInv adds to the invariants above what a run   *)
(* knows of the events before its batch: each has left the queue or was    *)
(* held back by a failed attempt.                                          *)
(***************************************************************************)
HeldBack(f) == status[f] = "PENDING" => failures[f] > 0

Passed ==
    \A w \in Runs : pc[w] \in Looping =>
        \A e \in todo[w], f \in Ids : f < e => f \in todo[w] \/ HeldBack(f)

QueueInv == SafetyInv /\ LockInv /\ Passed

\* An event that leaves a batch unsettled has failed, and a replayed one failed
\* before: no step lets an event wait behind a newer one that never was tried.
LEMMA HeldBackStays ==
    ASSUME SafetyInv, [Next]_vars, NEW f \in Ids, status[f] # "none", HeldBack(f)
    PROVE  HeldBack(f)'
<1> USE DEF HeldBack, SafetyInv, TypeOK
<1>1. CASE UNCHANGED vars
  BY <1>1 DEF vars
<1>2. ASSUME NEW e \in Ids, Insert(e) \/ ReplayDeadLetter(e)
      PROVE  HeldBack(f)'
  BY <1>2, SizeAssumption DEF Insert, ReplayDeadLetter, DeadLetterEarned
<1>3. CASE LockExpires \/ \E d \in Pods : Crash(d)
  BY <1>3 DEF LockExpires, Crash, event
<1>4. ASSUME NEW w \in Runs,
             Start(w) \/ Acquire(w) \/ Skip(w) \/ Find(w) \/ Publish(w) \/
             RecordFailureRead(w) \/ Throw(w) \/ Finish(w) \/ Release(w)
      PROVE  HeldBack(f)'
  BY <1>4 DEF Start, Acquire, Skip, Find, Publish, RecordFailureRead, Throw, Finish,
              Release, event
<1>5. ASSUME NEW w \in Runs, PublishFails(w) \/ PublishUnsure(w) \/ MarkFails(w)
      PROVE  HeldBack(f)'
  BY <1>5 DEF PublishFails, PublishUnsure, MarkFails, event
<1>6. ASSUME NEW w \in Runs, MarkPublished(w)
      PROVE  HeldBack(f)'
  BY <1>6 DEF MarkPublished
<1>7. ASSUME NEW w \in Runs, RecordFailure(w)
      PROVE  HeldBack(f)'
  <2>1. failures[Oldest(todo[w])] > 0
    BY <1>7 DEF RecordFailure, OrderInv, RecordFailed
  <2> QED
    BY <1>7, <2>1 DEF RecordFailure
<1> QED
  BY <1>1, <1>2, <1>3, <1>4, <1>5, <1>6, <1>7 DEF Next, Continue

\* Every action keeps Passed: a batch has no gap, and what is worked off is
\* settled or has failed.
LEMMA NextPassed ==
    ASSUME QueueInv, [Next]_vars
    PROVE  Passed'
<1> USE DEF QueueInv, SafetyInv, LockInv
<1>a. ASSUME NEW w \in Runs, pc[w] \in Looping, NEW e \in todo[w], NEW f \in Ids, f < e
      PROVE  f \in todo[w] \/ HeldBack(f)'
  <2>1. status[f] # "none"
    BY <1>a DEF TypeOK, BatchPending, OrderInv, InsertedInOrder
  <2> QED
    BY <1>a, <2>1, HeldBackStays DEF Passed
<1>b. ASSUME \A w \in Runs : pc'[w] \in Looping => pc[w] \in Looping /\ todo'[w] = todo[w]
      PROVE  Passed'
  BY <1>a, <1>b DEF Passed
<1>1. CASE UNCHANGED vars
  BY <1>1, <1>b DEF vars, run
<1>2. ASSUME NEW e \in Ids, Insert(e) \/ ReplayDeadLetter(e)
      PROVE  Passed'
  BY <1>2, <1>b DEF Insert, ReplayDeadLetter, run
<1>3. CASE LockExpires
  BY <1>3, <1>b DEF LockExpires, run
<1>4. ASSUME NEW d \in Pods, Crash(d)
      PROVE  Passed'
  BY <1>4, <1>b DEF Crash, Looping
<1>5. ASSUME NEW w \in Runs,
             Start(w) \/ Acquire(w) \/ Skip(w) \/ Throw(w) \/ Finish(w) \/ Release(w)
      PROVE  Passed'
  BY <1>5, <1>b
     DEF Start, Acquire, Skip, Throw, Finish, Release, TypeOK, Looping
<1>6. ASSUME NEW w \in Runs,
             Publish(w) \/ PublishFails(w) \/ PublishUnsure(w) \/ MarkFails(w) \/
             RecordFailureRead(w)
      PROVE  Passed'
  BY <1>6, <1>b
     DEF Publish, PublishFails, PublishUnsure, MarkFails, RecordFailureRead, TypeOK, Looping
<1>7. ASSUME NEW w \in Runs, Find(w)
      PROVE  Passed'
  <2>1. /\ todo'[w] = findPendingEvents
        /\ status' = status
        /\ \A v \in Runs \ {w} : pc'[v] = pc[v] /\ todo'[v] = todo[v]
    BY <1>7 DEF Find, event, TypeOK
  <2>2. \A e \in findPendingEvents, f \in Ids :
            f < e => f \in findPendingEvents \/ HeldBack(f)'
    BY <2>1, BatchIsOldest DEF HeldBack
  <2> QED
    BY <2>1, <2>2, <1>a DEF Passed
<1>8. ASSUME NEW w \in Runs, MarkPublished(w) \/ RecordFailure(w)
      PROVE  Passed'
  <2>1. PICK o \in Ids : o = Oldest(todo[w])
    BY <1>8, OldestIsLeast DEF MarkPublished, RecordFailure, BatchLoaded, TypeOK, Looping
  <2>2. /\ pc[w] \in Looping
        /\ todo'[w] = todo[w] \ {o}
        /\ \A v \in Runs \ {w} : pc'[v] = pc[v] /\ todo'[v] = todo[v]
    BY <1>8, <2>1 DEF MarkPublished, RecordFailure, Advance, TypeOK, Looping
  <2>3. HeldBack(o)'
    <3>1. CASE MarkPublished(w)
      BY <2>1, <3>1 DEF MarkPublished, HeldBack, TypeOK
    <3>2. CASE RecordFailure(w)
      BY <2>1, <3>2 DEF RecordFailure, HeldBack, OrderInv, RecordFailed, TypeOK
    <3> QED
      BY <1>8, <3>1, <3>2
  <2>4. \A e \in todo'[w], f \in Ids : f < e => f \in todo'[w] \/ HeldBack(f)'
    BY <2>1, <2>2, <2>3, <1>a
  <2> QED
    BY <2>2, <2>4, <1>a DEF Passed
<1> QED
  BY <1>1, <1>2, <1>3, <1>4, <1>5, <1>6, <1>7, <1>8 DEF Next, Continue

\* QueueInv holds in every behaviour in which the lock is intact.
LEMMA QueueSafety ==
    ASSUME ~SlowRuns, ~RedisFails
    PROVE  Spec => []QueueInv
<1>1. Init => Passed
  BY DEF Init, Passed, Looping
<1>2. QueueInv /\ [Next]_vars => Passed'
  BY NextPassed
<1> QED
  BY <1>1, <1>2, Safety, LockSafety, PTL DEF Spec, QueueInv

\* The relay starts with an empty queue.
LEMMA InitRefines == Init => Queue!Init
  BY DEF Init, Queue!Init, Ids, Queue!Ids

\* The event a run works on is at its turn, and while no run is about to mark it
\* the brokers have it only as often as faults wasted it.
LEMMA InTurn ==
    ASSUME QueueInv, NEW w \in Runs, pc[w] \in Looping
    PROVE  /\ Oldest(todo[w]) \in Ids
           /\ Queue!Turn(Oldest(todo[w]))
           /\ pc[w] # "mark" => Queue!Fresh(Oldest(todo[w]))
<1> DEFINE o == Oldest(todo[w])
<1>1. todo[w] \in SUBSET Ids /\ todo[w] # {}
  BY DEF QueueInv, SafetyInv, TypeOK, BatchLoaded
<1>2. o \in todo[w] /\ o \in Ids /\ \A f \in todo[w] : o <= f
  BY <1>1, OldestIsLeast
<1>3. status[o] = "PENDING"
  BY <1>2 DEF QueueInv, LockInv, BatchPending
<1>4. \A f \in Ids : f < o => HeldBack(f)
  <2> SUFFICES ASSUME NEW f \in Ids, f < o
               PROVE  HeldBack(f)
    OBVIOUS
  <2>1. f \notin todo[w]
    BY <1>2, SizeAssumption DEF Ids
  <2> QED
    BY <1>2, <2>1 DEF QueueInv, Passed
<1>5. Queue!Turn(o)
  BY <1>3, <1>4 DEF Queue!Turn, HeldBack, Ids, Queue!Ids
<1>6. ASSUME pc[w] # "mark"
      PROVE  Queue!Fresh(o)
  <2>1. ~Marking(o)
    BY <1>6 DEF Marking, QueueInv, LockInv, HoldsLock, Guarded, Looping
  <2> QED
    BY <1>2, <1>3, <2>1 DEF QueueInv, LockInv, DeliveredOnce, Queue!Fresh
<1> QED
  BY <1>2, <1>5, <1>6

\* A run that is about to write the failure it counted last has seen as many
\* failures of the event as it will write.
LEMMA WritesSeen ==
    ASSUME SafetyInv, NEW w \in Runs, pc[w] = "failWrite", Oldest(todo[w]) \in Ids
    PROVE  count[w] + 1 <= failures[Oldest(todo[w])]
<1> DEFINE o == Oldest(todo[w])
<1>1. w \in InFlight(o) /\ IsFiniteSet(InFlight(o))
  BY DEF InFlight, SafetyInv, Counted
<1>2. Cardinality(InFlight(o)) \in Nat \ {0}
  BY <1>1, FS_CardinalityType, FS_EmptySet
<1>3. count[w] + Cardinality(InFlight(o)) <= failures[o]
  BY <1>1 DEF SafetyInv, Counted
<1> QED
  BY <1>2, <1>3 DEF SafetyInv, TypeOK

\* Every step of the relay is a step of the queue or leaves it as it was.
LEMMA StepRefines ==
    ASSUME QueueInv, [Next]_vars
    PROVE  [Queue!Next]_(Queue!queue)
<1> USE DEF Queue!queue
<1>t. TypeOK /\ Ids = Queue!Ids
  BY DEF QueueInv, SafetyInv, Ids, Queue!Ids
<1>1. CASE UNCHANGED vars
  BY <1>1 DEF vars
<1>2. ASSUME NEW e \in Ids, Insert(e)
      PROVE  Queue!Next
  BY <1>t, <1>2 DEF Insert, Queue!Write, Queue!Next
<1>3. ASSUME NEW e \in Ids, ReplayDeadLetter(e)
      PROVE  Queue!Next
  BY <1>t, <1>3 DEF ReplayDeadLetter, Queue!Replay, Queue!Next
<1>4. CASE LockExpires
  BY <1>4 DEF LockExpires, event
<1>5. ASSUME NEW d \in Pods, Crash(d)
      PROVE  Queue!Next
  BY <1>5 DEF Crash, event, Queue!Fault, Queue!Next
<1>6. ASSUME NEW w \in Runs, Throw(w)
      PROVE  Queue!Next
  BY <1>6 DEF Throw, event, Queue!Fault, Queue!Next
<1>7. ASSUME NEW w \in Runs,
             Start(w) \/ Acquire(w) \/ Skip(w) \/ Find(w) \/ RecordFailureRead(w) \/
             Finish(w) \/ Release(w)
      PROVE  UNCHANGED Queue!queue
  BY <1>7 DEF Start, Acquire, Skip, Find, RecordFailureRead, Finish, Release, event
<1>8. ASSUME NEW w \in Runs,
             Publish(w) \/ PublishFails(w) \/ PublishUnsure(w) \/ MarkPublished(w) \/
             MarkFails(w) \/ RecordFailure(w)
      PROVE  Queue!Next \/ UNCHANGED Queue!queue
  <2> DEFINE o == Oldest(todo[w])
  <2>1. pc[w] \in Looping
    BY <1>8
       DEF Publish, PublishFails, PublishUnsure, MarkPublished, MarkFails, RecordFailure, Looping
  <2>2. o \in Queue!Ids /\ Queue!Turn(o) /\ (pc[w] # "mark" => Queue!Fresh(o))
    BY <1>t, <2>1, InTurn
  <2>3. CASE Publish(w)
    <3>1. Queue!Accept(o)
      BY <2>2, <2>3 DEF Publish, event, Queue!Accept, Queue!Count
    <3> QED
      BY <2>2, <3>1 DEF Queue!Next
  <2>4. CASE PublishFails(w)
    <3>1. Queue!Refuse(o)
      BY <2>2, <2>4 DEF PublishFails, event, Queue!Refuse, Queue!Count
    <3> QED
      BY <2>2, <3>1 DEF Queue!Next
  <2>5. CASE PublishUnsure(w)
    <3>1. Queue!Lose(o)
      BY <2>2, <2>5 DEF PublishUnsure, event, Queue!Lose, Queue!Count
    <3> QED
      BY <2>2, <3>1 DEF Queue!Next
  <2>6. CASE MarkPublished(w) \/ MarkFails(w)
    <3>1. delivered[o] > 0
      BY <2>6 DEF MarkPublished, MarkFails, QueueInv, SafetyInv, OrderInv, MarkDelivered
    <3>2. Queue!Settle(o) \/ Queue!Lose(o)
      BY <2>2, <2>6, <3>1
         DEF MarkPublished, MarkFails, event, Queue!Turn, Queue!Settle, Queue!Lose, Queue!Count
    <3> QED
      BY <2>2, <3>2 DEF Queue!Next
  <2>7. CASE RecordFailure(w)
    <3>1. status[o] = "PENDING"
      BY <2>2 DEF Queue!Turn
    <3>2. /\ status' = [status EXCEPT ![o] = IF count[w] + 1 >= MaxRetries
                                                THEN "FAILED"
                                                ELSE "PENDING"]
          /\ UNCHANGED <<delivered, failures, faults>>
      BY <2>7 DEF RecordFailure
    <3>3. CASE count[w] + 1 >= MaxRetries
      <4>1. count[w] + 1 <= failures[o]
        BY <1>t, <2>2, <2>7, WritesSeen DEF RecordFailure, QueueInv
      <4>2. failures[o] >= MaxRetries
        BY <1>t, <2>2, <3>3, <4>1, SizeAssumption DEF TypeOK
      <4>3. Queue!GiveUp(o)
        BY <3>1, <3>2, <3>3, <4>2 DEF Queue!GiveUp
      <4> QED
        BY <2>2, <4>3 DEF Queue!Next
    <3>4. CASE ~(count[w] + 1 >= MaxRetries)
      BY <1>t, <2>2, <3>1, <3>2, <3>4 DEF TypeOK
    <3> QED
      BY <3>3, <3>4
  <2> QED
    BY <1>8, <2>3, <2>4, <2>5, <2>6, <2>7
<1> QED
  BY <1>1, <1>2, <1>3, <1>4, <1>5, <1>6, <1>7, <1>8 DEF Next, Continue

\* With an intact lock the relay is the single server of OutboxQueue, however
\* many pods and runs work, crash and retry: what goes to the broker is pending
\* and at its turn, is repeated only for a fault, and stays published.
THEOREM OneServer ==
    ASSUME ~SlowRuns, ~RedisFails
    PROVE  Spec => ImplementsOutboxQueue
<1>1. Init => Queue!Init
  BY InitRefines
<1>2. QueueInv /\ [Next]_vars => [Queue!Next]_(Queue!queue)
  BY StepRefines
<1> QED
  BY <1>1, <1>2, QueueSafety, PTL DEF Spec, ImplementsOutboxQueue, Queue!Spec
=============================================================================
