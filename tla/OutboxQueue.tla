---------------------------- MODULE OutboxQueue -----------------------------
(***************************************************************************)
(* What the relay promises while its Redis lock is intact: the outbox is a *)
(* queue with one server.  An event goes to the broker only while it is    *)
(* pending, in its turn, and again only after a fault; it leaves the queue *)
(* when a broker accepted it, or after MaxRetries failed attempts.  There  *)
(* are no pods, runs, locks, batches or retry counts.                      *)
(***************************************************************************)
EXTENDS Naturals

CONSTANTS MaxEvents, MaxRetries

VARIABLES
    status,
    delivered,      \* how often a broker accepted an event
    failures,       \* attempts at an event that ended in an error
    faults          \* crashes, database errors and lost broker answers

queue == <<status, delivered, failures, faults>>

Ids == 1..MaxEvents

Init ==
    /\ status    = [e \in Ids |-> "none"]
    /\ delivered = [e \in Ids |-> 0]
    /\ failures  = [e \in Ids |-> 0]
    /\ faults    = 0

\* Every older event has left the queue or was held back by a failed attempt.
Turn(e) ==
    /\ status[e] = "PENDING"
    /\ \A f \in Ids : f < e /\ status[f] = "PENDING" => failures[f] > 0

\* No broker has the event yet, but for what a fault wasted.
Fresh(e) == delivered[e] <= faults

Count(counter, e) == [counter EXCEPT ![e] = @ + 1]

Write(e) ==
    /\ status[e] = "none"
    /\ \A f \in Ids : f < e => status[f] # "none"
    /\ status' = [status EXCEPT ![e] = "PENDING"]
    /\ UNCHANGED <<delivered, failures, faults>>

Accept(e) ==
    /\ Turn(e) /\ Fresh(e)
    /\ delivered' = Count(delivered, e)
    /\ UNCHANGED <<status, failures, faults>>

Refuse(e) ==
    /\ Turn(e)
    /\ failures' = Count(failures, e)
    /\ UNCHANGED <<status, delivered, faults>>

\* The broker accepted the event, now or before, and the relay cannot tell.
Lose(e) ==
    /\ Turn(e)
    /\ \/ Fresh(e) /\ delivered' = Count(delivered, e)
       \/ delivered[e] > 0 /\ UNCHANGED delivered
    /\ failures' = Count(failures, e)
    /\ faults' = faults + 1
    /\ UNCHANGED status

Settle(e) ==
    /\ status[e] = "PENDING"
    /\ delivered[e] > 0
    /\ status' = [status EXCEPT ![e] = "PUBLISHED"]
    /\ UNCHANGED <<delivered, failures, faults>>

GiveUp(e) ==
    /\ status[e] = "PENDING"
    /\ failures[e] >= MaxRetries
    /\ status' = [status EXCEPT ![e] = "FAILED"]
    /\ UNCHANGED <<delivered, failures, faults>>

Replay(e) ==
    /\ status[e] = "FAILED"
    /\ status' = [status EXCEPT ![e] = "PENDING"]
    /\ UNCHANGED <<delivered, failures, faults>>

Fault ==
    /\ faults' = faults + 1
    /\ UNCHANGED <<status, delivered, failures>>

Next ==
    \/ \E e \in Ids :
        \/ Write(e) \/ Accept(e) \/ Refuse(e) \/ Lose(e)
        \/ Settle(e) \/ GiveUp(e) \/ Replay(e)
    \/ Fault

Spec == Init /\ [][Next]_queue
=============================================================================
