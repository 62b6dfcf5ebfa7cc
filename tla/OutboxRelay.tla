---------------------------- MODULE OutboxRelay -----------------------------
(***************************************************************************)
(* The relay that moves outbox_events to the brokers.  Every pod polls on  *)
(* a timer and is also triggered by the handlers that wrote an event, so   *)
(* several runs of processPendingEvents may be under way in one pod and in *)
(* several pods.  Two guards keep them apart: the pod's isProcessing flag, *)
(* which is read before the await that sets it, and a Redis lock with a    *)
(* 10 s time to live, which is deleted without looking at who owns it and  *)
(* is granted when Redis is unreachable.                                   *)
(*                                                                         *)
(* A run takes one action per awaited call.  Events are numbered by        *)
(* createdAt, which is taken to follow the order of their commits.         *)
(***************************************************************************)
EXTENDS Naturals, FiniteSets

CONSTANTS
    Pods,
    Runs,           \* invocations of processPendingEvents
    PodOf,          \* the pod an invocation runs in
    MaxEvents,      \* events ever written to the outbox
    BatchSize,      \* findPendingEvents(20)
    MaxRetries,     \* MAX_OUTBOX_RETRIES
    MaxFaults,      \* crashes, database errors and lost broker answers
    MaxReplays,     \* replayed dead letters
    SlowRuns,       \* whether a run may outlive the lock's time to live
    RedisFails,     \* whether a Redis call may find Redis unreachable
    Null

Ids == 1..MaxEvents

ASSUME PodOfAssumption == PodOf \in [Runs -> Pods]
ASSUME NullAssumption  == Null \notin Runs
ASSUME SizeAssumption  ==
    /\ MaxEvents \in Nat /\ MaxFaults \in Nat /\ MaxReplays \in Nat
    /\ BatchSize \in Nat \ {0} /\ MaxRetries \in Nat \ {0}
ASSUME FlagAssumption  == SlowRuns \in BOOLEAN /\ RedisFails \in BOOLEAN

VARIABLES
    status,         \* outbox_events.status; "none" before the insert
    retryCount,     \* outbox_events.retryCount
    lock,           \* the run whose SET NX made the Redis key, or Null
    isProcessing,   \* the flag of each pod's OutboxRelayService
    pc,             \* where each run is
    todo,           \* what is left of the batch a run loaded; the least is next
    count,          \* the retryCount that recordFailure read
    delivered,      \* broker: how often an event was accepted
    failures,       \* history: attempts at an event that ended in an error
    faults,
    replays

event == <<status, retryCount>>
run   == <<pc, todo, count>>
vars  == <<status, retryCount, lock, isProcessing, pc, todo, count, delivered,
           failures, faults, replays>>

Steps == {"idle", "lock", "find", "publish", "mark", "failRead", "failWrite",
          "finish", "unlock"}

Init ==
    /\ status       = [e \in Ids |-> "none"]
    /\ retryCount   = [e \in Ids |-> 0]
    /\ lock         = Null
    /\ isProcessing = [d \in Pods |-> FALSE]
    /\ pc           = [w \in Runs |-> "idle"]
    /\ todo         = [w \in Runs |-> {}]
    /\ count        = [w \in Runs |-> 0]
    /\ delivered    = [e \in Ids |-> 0]
    /\ failures     = [e \in Ids |-> 0]
    /\ faults       = 0
    /\ replays      = 0

-----------------------------------------------------------------------------
\* Mutant of Oldest: the batch is worked off from its newest event.
Latest(S) == CHOOSE e \in S : \A f \in S : e >= f

Oldest(S) == CHOOSE e \in S : \A f \in S : e <= f

\* Mutant of Pending: the query does not filter by status.
AllEvents == {e \in Ids : status[e] # "none"}

Pending == {e \in Ids : status[e] = "PENDING"}

\* findPendingEvents: the oldest BatchSize of the pending events.
findPendingEvents ==
    {e \in Pending : Cardinality({f \in Pending : f < e}) < BatchSize}

\* The loop goes on with the rest of the batch.
Advance(w) ==
    LET rest == todo[w] \ {Oldest(todo[w])} IN
    /\ todo' = [todo EXCEPT ![w] = rest]
    /\ pc' = [pc EXCEPT ![w] = IF rest = {} THEN "finish" ELSE "publish"]

-----------------------------------------------------------------------------
\* A business transaction commits the next outbox event.
Insert(e) ==
    /\ status[e] = "none"
    /\ \A f \in Ids : f < e => status[f] # "none"
    /\ status' = [status EXCEPT ![e] = "PENDING"]
    /\ UNCHANGED <<retryCount, lock, isProcessing, run, delivered, failures,
                   faults, replays>>

\* The timer or a handler calls processPendingEvents.
Start(w) ==
    /\ pc[w] = "idle"
    /\ ~isProcessing[PodOf[w]]
    /\ pc' = [pc EXCEPT ![w] = "lock"]
    /\ UNCHANGED <<event, lock, isProcessing, todo, count, delivered, failures,
                   faults, replays>>

\* Mutant of acquireLock: SET without NX.
acquireLockAlways(w) == lock' = w

\* redisService.acquireLock: SET NX EX, and true when Redis is unreachable.
acquireLock(w) ==
    \/ lock = Null /\ lock' = w
    \/ RedisFails /\ UNCHANGED lock

Acquire(w) ==
    /\ pc[w] = "lock"
    /\ acquireLock(w)
    /\ isProcessing' = [isProcessing EXCEPT ![PodOf[w]] = TRUE]
    /\ pc' = [pc EXCEPT ![w] = "find"]
    /\ UNCHANGED <<event, todo, count, delivered, failures, faults, replays>>

\* Another run holds the key: skip this cycle.
Skip(w) ==
    /\ pc[w] = "lock"
    /\ lock # Null
    /\ pc' = [pc EXCEPT ![w] = "idle"]
    /\ UNCHANGED <<event, lock, isProcessing, todo, count, delivered, failures,
                   faults, replays>>

Find(w) ==
    /\ pc[w] = "find"
    /\ todo' = [todo EXCEPT ![w] = findPendingEvents]
    /\ pc' = [pc EXCEPT ![w] = IF findPendingEvents = {} THEN "finish" ELSE "publish"]
    /\ UNCHANGED <<event, lock, isProcessing, count, delivered, failures,
                   faults, replays>>

\* The broker accepts the event.  Every event that the service writes has one of
\* the four types that processPendingEvents publishes; what it does with any
\* other, which is to mark it published and warn, is left out.
Publish(w) ==
    /\ pc[w] = "publish"
    /\ delivered' = [delivered EXCEPT ![Oldest(todo[w])] = @ + 1]
    /\ pc' = [pc EXCEPT ![w] = "mark"]
    /\ UNCHANGED <<event, lock, isProcessing, todo, count, failures, faults,
                   replays>>

\* Mutant of PublishFails: the false that publishToQueue returns is ignored.
PublishFailureIgnored(w) ==
    /\ pc[w] = "publish"
    /\ pc' = [pc EXCEPT ![w] = "mark"]
    /\ UNCHANGED <<event, lock, isProcessing, todo, count, delivered, failures,
                   faults, replays>>

\* The broker refuses the event, or cannot be reached.
PublishFails(w) ==
    /\ pc[w] = "publish"
    /\ failures' = [failures EXCEPT ![Oldest(todo[w])] = @ + 1]
    /\ pc' = [pc EXCEPT ![w] = "failRead"]
    /\ UNCHANGED <<event, lock, isProcessing, todo, count, delivered, faults,
                   replays>>

\* The broker accepts the event, but its answer is lost.
PublishUnsure(w) ==
    /\ pc[w] = "publish"
    /\ faults < MaxFaults
    /\ faults' = faults + 1
    /\ delivered' = [delivered EXCEPT ![Oldest(todo[w])] = @ + 1]
    /\ failures' = [failures EXCEPT ![Oldest(todo[w])] = @ + 1]
    /\ pc' = [pc EXCEPT ![w] = "failRead"]
    /\ UNCHANGED <<event, lock, isProcessing, todo, count, replays>>

\* Mutant of MarkPublished: publishedAt is set and the status forgotten.
MarkPublishedForgets(w) ==
    /\ pc[w] = "mark"
    /\ Advance(w)
    /\ UNCHANGED <<event, lock, isProcessing, count, delivered, failures, faults,
                   replays>>

\* markPublished: an update by id, whatever the status is by now.
MarkPublished(w) ==
    /\ pc[w] = "mark"
    /\ status' = [status EXCEPT ![Oldest(todo[w])] = "PUBLISHED"]
    /\ Advance(w)
    /\ UNCHANGED <<retryCount, lock, isProcessing, count, delivered, failures,
                   faults, replays>>

\* markPublished throws, which is handled like a failed publication.
MarkFails(w) ==
    /\ pc[w] = "mark"
    /\ faults < MaxFaults
    /\ faults' = faults + 1
    /\ failures' = [failures EXCEPT ![Oldest(todo[w])] = @ + 1]
    /\ pc' = [pc EXCEPT ![w] = "failRead"]
    /\ UNCHANGED <<event, lock, isProcessing, todo, count, delivered, replays>>

\* Mutant of RecordFailure: the dead letter bound is off by one.
RecordFailureEarly(w) ==
    LET e    == Oldest(todo[w])
        next == count[w] + 1 IN
    /\ pc[w] = "failWrite"
    /\ retryCount' = [retryCount EXCEPT ![e] = next]
    /\ status' = [status EXCEPT ![e] = IF next + 1 >= MaxRetries
                                         THEN "FAILED"
                                         ELSE "PENDING"]
    /\ Advance(w)
    /\ count' = [count EXCEPT ![w] = 0]
    /\ UNCHANGED <<lock, isProcessing, delivered, failures, faults, replays>>

\* recordFailure: the read of the retry count ...
RecordFailureRead(w) ==
    /\ pc[w] = "failRead"
    /\ count' = [count EXCEPT ![w] = retryCount[Oldest(todo[w])]]
    /\ pc' = [pc EXCEPT ![w] = "failWrite"]
    /\ UNCHANGED <<event, lock, isProcessing, todo, delivered, failures, faults,
                   replays>>

\* ... and the update, which is not conditional on what was read.
RecordFailure(w) ==
    LET e    == Oldest(todo[w])
        next == count[w] + 1 IN
    /\ pc[w] = "failWrite"
    /\ retryCount' = [retryCount EXCEPT ![e] = next]
    /\ status' = [status EXCEPT ![e] = IF next >= MaxRetries
                                         THEN "FAILED"
                                         ELSE "PENDING"]
    /\ Advance(w)
    /\ count' = [count EXCEPT ![w] = 0]
    /\ UNCHANGED <<lock, isProcessing, delivered, failures, faults,
                   replays>>

\* A database error outside the inner try (findPendingEvents, recordFailure)
\* leaves the loop for the finally block.
Throw(w) ==
    /\ pc[w] \in {"find", "failRead", "failWrite"}
    /\ faults < MaxFaults
    /\ faults' = faults + 1
    /\ todo' = [todo EXCEPT ![w] = {}]
    /\ count' = [count EXCEPT ![w] = 0]
    /\ pc' = [pc EXCEPT ![w] = "finish"]
    /\ UNCHANGED <<event, lock, isProcessing, delivered, failures, replays>>

\* Mutant of Finish: isProcessing is not reset.
FinishStaysBusy(w) ==
    /\ pc[w] = "finish"
    /\ pc' = [pc EXCEPT ![w] = "unlock"]
    /\ UNCHANGED <<event, lock, isProcessing, todo, count, delivered, failures,
                   faults, replays>>

\* finally: the flag is reset before the lock is released.
Finish(w) ==
    /\ pc[w] = "finish"
    /\ isProcessing' = [isProcessing EXCEPT ![PodOf[w]] = FALSE]
    /\ pc' = [pc EXCEPT ![w] = "unlock"]
    /\ UNCHANGED <<event, lock, todo, count, delivered, failures, faults, replays>>

\* redisService.releaseLock: DEL, whoever made the key.
releaseLock ==
    \/ lock' = Null
    \/ RedisFails /\ UNCHANGED lock

Release(w) ==
    /\ pc[w] = "unlock"
    /\ releaseLock
    /\ pc' = [pc EXCEPT ![w] = "idle"]
    /\ UNCHANGED <<event, isProcessing, todo, count, delivered, failures, faults,
                   replays>>

\* Redis drops the key when its time to live is over (external).  Unless runs
\* are slow that is only after the run that made it died or failed to delete it.
LockExpires ==
    /\ lock # Null
    /\ SlowRuns \/ pc[lock] \in {"idle", "lock"}
    /\ lock' = Null
    /\ UNCHANGED <<event, isProcessing, run, delivered, failures, faults, replays>>

\* The pod dies and is started again.
Crash(d) ==
    /\ faults < MaxFaults
    /\ faults' = faults + 1
    /\ isProcessing' = [isProcessing EXCEPT ![d] = FALSE]
    /\ pc' = [w \in Runs |-> IF PodOf[w] = d THEN "idle" ELSE pc[w]]
    /\ todo' = [w \in Runs |-> IF PodOf[w] = d THEN {} ELSE todo[w]]
    /\ count' = [w \in Runs |-> IF PodOf[w] = d THEN 0 ELSE count[w]]
    /\ UNCHANGED <<event, lock, delivered, failures, replays>>

\* Mutant of ReplayDeadLetter: a status that the schema does not have.
ReplayTypo(e) ==
    /\ status[e] = "FAILED"
    /\ replays < MaxReplays
    /\ replays' = replays + 1
    /\ status' = [status EXCEPT ![e] = "RETRY"]
    /\ retryCount' = [retryCount EXCEPT ![e] = 0]
    /\ UNCHANGED <<lock, isProcessing, run, delivered, failures, faults>>

\* replayDeadLetter, called for an event of findDeadLetterEvents.
ReplayDeadLetter(e) ==
    /\ status[e] = "FAILED"
    /\ replays < MaxReplays
    /\ replays' = replays + 1
    /\ status' = [status EXCEPT ![e] = "PENDING"]
    /\ retryCount' = [retryCount EXCEPT ![e] = 0]
    /\ UNCHANGED <<lock, isProcessing, run, delivered, failures, faults>>

\* The steps of a run after it was started.
Continue(w) ==
    \/ Acquire(w) \/ Skip(w) \/ Find(w)
    \/ Publish(w) \/ PublishFails(w) \/ PublishUnsure(w)
    \/ MarkPublished(w) \/ MarkFails(w)
    \/ RecordFailureRead(w) \/ RecordFailure(w)
    \/ Throw(w) \/ Finish(w) \/ Release(w)

Next ==
    \/ \E w \in Runs : Start(w) \/ Continue(w)
    \/ \E e \in Ids : Insert(e) \/ ReplayDeadLetter(e)
    \/ LockExpires
    \/ \E d \in Pods : Crash(d)

Spec == Init /\ [][Next]_vars

\* The poll timer starts runs for ever, a started run goes on, and Redis drops
\* keys that are due.  Nothing is assumed of the broker.  A run may find the lock
\* taken again and again, hence the strong fairness of Acquire.
FairSpec ==
    /\ Spec
    /\ \A w \in Runs : WF_vars(Start(w)) /\ WF_vars(Continue(w))
    /\ \A w \in Runs : SF_vars(Acquire(w))
    /\ WF_vars(LockExpires)

-----------------------------------------------------------------------------
(***************************************************************************)
(* Properties.                                                             *)
(***************************************************************************)
\* Every variable keeps its type.
TypeOK ==
    /\ status       \in [Ids -> {"none", "PENDING", "PUBLISHED", "FAILED"}]
    /\ retryCount   \in [Ids -> Nat]
    /\ lock         \in Runs \cup {Null}
    /\ isProcessing \in [Pods -> BOOLEAN]
    /\ pc           \in [Runs -> Steps]
    /\ todo         \in [Runs -> SUBSET Ids]
    /\ count        \in [Runs -> Nat]
    /\ delivered    \in [Ids -> Nat]
    /\ failures     \in [Ids -> Nat]
    /\ faults       \in Nat
    /\ replays      \in Nat

\* An event is PUBLISHED only after a broker accepted it, however many runs work
\* on the same batch and wherever they die: nothing is dropped silently.
PublishedWasDelivered ==
    \A e \in Ids : status[e] = "PUBLISHED" => delivered[e] > 0

\* An event is given up as a dead letter only after MAX_OUTBOX_RETRIES attempts
\* at it failed, even when runs race in recordFailure (increments may be lost,
\* never invented).
DeadLetterEarned ==
    \A e \in Ids : status[e] = "FAILED" => failures[e] >= MaxRetries

\* A newer event overtakes an older one at the brokers only when an attempt at
\* the older one failed: batches are oldest first and are worked off in order.
OvertakeNeedsFailure ==
    \A e, f \in Ids : e < f /\ delivered[f] > 0 => delivered[e] > 0 \/ failures[e] > 0

Working(w) == pc[w] \in {"find", "publish", "mark", "failRead", "failWrite", "finish"}

\* The Redis lock keeps all runs of all pods apart: two never work on the outbox
\* at the same time.
OneRelay == \A v, w \in Runs : Working(v) /\ Working(w) => v = w

\* With the lock intact, pods, overlapping runs, batches and retry counts cannot be
\* told from the single server of OutboxQueue: events go to the broker in turn,
\* only while they are pending, and a published event is final.
Queue == INSTANCE OutboxQueue

ImplementsOutboxQueue == Queue!Spec

\* With the lock intact an event is delivered once, plus once for each fault:
\* concurrency alone never duplicates.
DuplicateNeedsFault == \A e \in Ids : delivered[e] <= 1 + faults

\* Every event in the outbox is eventually published or given up as a dead
\* letter, whatever crashes: no run, lock or flag stays stuck for ever.
EventuallySettled ==
    \A e \in Ids : status[e] = "PENDING" ~> status[e] \in {"PUBLISHED", "FAILED"}
=============================================================================
