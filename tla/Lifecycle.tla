----------------------------- MODULE Lifecycle ------------------------------
(***************************************************************************)
(* One process of the service, from bootstrap to process.exit: connections *)
(* are opened one after the other, two background jobs get their timers,   *)
(* the server listens, and on a signal the server drains, the timers stop, *)
(* the producer's queue is closed and the connections are dropped.         *)
(*                                                                         *)
(* Nothing waits for work that no connection to a caller stands for: a run *)
(* of a job when its timer is stopped, or a handler whose caller hung up.  *)
(* Such a handler may even start a run of the relay.  What becomes of the  *)
(* work of a process that dies is OutboxRelay's and Subscription's         *)
(* subject; here it is what order things are started and stopped in.       *)
(***************************************************************************)
EXTENDS Naturals, Sequences

CONSTANTS
    MaxRequests,    \* handlers under way at the same time
    MaxBreaks       \* how often a connection is lost

ASSUME BoundAssumption == MaxRequests \in Nat /\ MaxBreaks \in Nat

\* initInfrastructure connects in this order; the gateway is a client object
\* that is made when its credentials are configured and never closed.
BootOrder == <<"database", "redis", "rabbitmq", "bullmq", "gateway">>

Clients == {BootOrder[i] : i \in DOMAIN BootOrder}
Closable == Clients \ {"gateway"}

\* "none" before connect, "lost" while the library tries to connect again,
\* "dead" when it gave up, "closed" by disconnect.
ConnStates == {"none", "open", "lost", "dead", "closed"}

Jobs == {"relay", "expiry"}

\* What a run of a job calls; the relay also calls the producer's queue.
UsedBy(j) == IF j = "relay" THEN {"redis", "database", "rabbitmq"} ELSE {"database"}

VARIABLES
    pc,         \* "boot", "serving", "producer", "disconnect", "exited", "killed"
    booted,     \* clients connected so far, in BootOrder
    conn,       \* the state of each client
    settled,    \* disconnects that have ended, well or not
    timers,     \* jobs whose interval is set
    run,        \* jobs that are running
    queue,      \* the producer's BullMQ queue: "none", "open", "lost"
    callers,    \* handlers whose caller is connected
    orphans,    \* handlers whose caller hung up
    probe,      \* the last request to /health or /ready
    shutting,   \* isShuttingDown
    code,       \* the exit code, 2 when there is none
    breaks

net   == <<conn, queue, breaks>>
work  == <<timers, run, callers, orphans, probe>>
place == <<pc, booted, settled, shutting, code>>
vars  == <<place, net, work>>

\* waiting: the pings not yet answered; failed: one said no; late: Redis had
\* been given up when the probe came (history).
NoProbe == [pc |-> "none", waiting |-> {}, failed |-> FALSE, late |-> FALSE]

Init ==
    /\ pc = "boot" /\ booted = 0
    /\ conn = [c \in Clients |-> "none"]
    /\ settled = {} /\ timers = {} /\ run = {}
    /\ queue = "none"
    /\ callers = 0 /\ orphans = 0 /\ probe = NoProbe
    /\ shutting = FALSE
    /\ code = 2 /\ breaks = 0

Alive == pc \notin {"exited", "killed"}

-----------------------------------------------------------------------------
(* bootstrap and initInfrastructure                                        *)

\* Mutant of Exit: process.exitCode is set, and the process goes on.
ExitCodeOnly(n) ==
    /\ code' = n
    /\ UNCHANGED <<pc, work>>

\* process.exit: nothing of the process goes on.
Exit(n) ==
    /\ pc' = "exited"
    /\ code' = n
    /\ run' = {} /\ timers' = {}
    /\ callers' = 0 /\ orphans' = 0 /\ probe' = NoProbe

\* Mutant of Connect: a failed connect of the queue's Redis is only logged.
ConnectOrGoOn ==
    LET c == BootOrder[booted + 1] IN
    /\ pc = "boot" /\ booted < Len(BootOrder)
    /\ booted' = booted + 1
    /\ conn' \in {[conn EXCEPT ![c] = "open"], [conn EXCEPT !["bullmq"] = "none"]}
    /\ UNCHANGED <<pc, settled, shutting, code, queue, breaks, work>>

Connect ==
    LET c == BootOrder[booted + 1] IN
    /\ pc = "boot" /\ booted < Len(BootOrder)
    /\ booted' = booted + 1
    /\ conn' = [conn EXCEPT ![c] = "open"]
    /\ UNCHANGED <<pc, settled, shutting, code, queue, breaks, work>>

\* A connect that throws, or credentials that are missing.
BootFails ==
    /\ pc = "boot"
    /\ Exit(1)
    /\ UNCHANGED <<booted, settled, shutting, net>>

\* Both timers, the first expiry check, listen and the signal handlers, without
\* an await in between.
Start ==
    /\ pc = "boot" /\ booted = Len(BootOrder)
    /\ pc' = "serving"
    /\ timers' = Jobs
    /\ run' = run \cup {"expiry"}
    /\ UNCHANGED <<booted, settled, shutting, code, net, callers, orphans, probe>>

-----------------------------------------------------------------------------
(* Connections                                                             *)

\* A connection is lost, and the client library tries to connect again.
Break(c) ==
    /\ Alive /\ c # "gateway"
    /\ conn[c] = "open" /\ breaks < MaxBreaks
    /\ conn' = [conn EXCEPT ![c] = "lost"]
    /\ breaks' = breaks + 1
    /\ UNCHANGED <<place, queue, work>>

\* The queue's own connection: the producer does not share the client's.
BreakQueue ==
    /\ Alive
    /\ queue = "open" /\ breaks < MaxBreaks
    /\ queue' = "lost"
    /\ breaks' = breaks + 1
    /\ UNCHANGED <<place, conn, work>>

Reconnect(c) ==
    /\ Alive
    /\ conn[c] = "lost"
    /\ conn' = [conn EXCEPT ![c] = "open"]
    /\ UNCHANGED <<place, queue, breaks, work>>

ReconnectQueue ==
    /\ Alive
    /\ queue = "lost"
    /\ queue' = "open"
    /\ UNCHANGED <<place, conn, breaks, work>>

\* reconnectStrategy returns an error after the tenth retry: the cache's client
\* is never connected again, and the process goes on without it.
GiveUp ==
    /\ Alive
    /\ conn["redis"] = "lost"
    /\ conn' = [conn EXCEPT !["redis"] = "dead"]
    /\ UNCHANGED <<place, queue, breaks, work>>

-----------------------------------------------------------------------------
(* Requests                                                                *)


Request ==
    /\ pc = "serving" /\ ~shutting
    /\ callers + orphans < MaxRequests
    /\ callers' = callers + 1
    /\ UNCHANGED <<place, net, timers, run, orphans, probe>>

\* The handler ends, and its answer goes out.
Respond ==
    /\ callers > 0
    /\ callers' = callers - 1
    /\ UNCHANGED <<place, net, timers, run, orphans, probe>>

\* The caller gives up; nobody tells the handler.
HangUp ==
    /\ callers > 0
    /\ callers' = callers - 1
    /\ orphans' = orphans + 1
    /\ UNCHANGED <<place, net, timers, run, probe>>

OrphanEnds ==
    /\ orphans > 0
    /\ orphans' = orphans - 1
    /\ UNCHANGED <<place, net, timers, run, callers, probe>>

\* HealthService.check asks the clients side by side, RabbitMQ not at all.  The
\* gateway's answer looks at its own fields only, and is there at once.
Pinged == {"database", "redis", "bullmq"}

check ==
    /\ pc = "serving" /\ ~shutting /\ probe.pc # "asking"
    /\ probe' = [pc |-> "asking", waiting |-> Pinged, failed |-> conn["gateway"] # "open",
                 late |-> conn["redis"] = "dead"]
    /\ UNCHANGED <<place, net, timers, run, callers, orphans>>

\* A ping succeeds on an open connection only.  BullMQ's Redis has
\* maxRetriesPerRequest null: while it is lost a ping gets no answer at all.
isHealthy(c) ==
    /\ probe.pc = "asking" /\ c \in probe.waiting
    /\ ~(c = "bullmq" /\ conn[c] = "lost")
    /\ probe' = [probe EXCEPT !.waiting = @ \ {c}, !.failed = @ \/ conn[c] # "open"]
    /\ UNCHANGED <<place, net, timers, run, callers, orphans>>

answerProbe ==
    /\ probe.pc = "asking" /\ probe.waiting = {}
    /\ probe' = [probe EXCEPT !.pc = IF probe.failed THEN "DOWN" ELSE "UP"]
    /\ UNCHANGED <<place, net, timers, run, callers, orphans>>

\* The prober's own timeout.
ProbeLeaves ==
    /\ probe.pc = "asking"
    /\ probe' = NoProbe
    /\ UNCHANGED <<place, net, timers, run, callers, orphans>>

-----------------------------------------------------------------------------
(* The jobs                                                                *)

StartRun(j) ==
    /\ j \notin run
    /\ run' = run \cup {j}
    /\ UNCHANGED <<place, net, timers, callers, orphans, probe>>

\* The interval fires; one run at a time is told apart.
Fire(j) == j \in timers /\ StartRun(j)

\* A handler calls processPendingEvents when it has stored its event, and does
\* not wait for it: no timer is looked at, nor whether the process shuts down.
Trigger == callers + orphans > 0 /\ StartRun("relay")

\* getQueue makes the queue when there is none, closed before or not; its
\* connection is there at once or has yet to come.
getQueue ==
    /\ "relay" \in run
    /\ queue = "none"
    /\ queue' \in {"open", "lost"}
    /\ UNCHANGED <<place, conn, breaks, work>>

\* The run ends; errors of its calls are caught and logged.
Ended(j) ==
    /\ j \in run
    /\ run' = run \ {j}
    /\ UNCHANGED <<place, net, timers, callers, orphans, probe>>

-----------------------------------------------------------------------------
(* shutdown and shutdownInfrastructure                                     *)

\* SIGTERM or SIGINT before the handlers are there ends the process.
Kill ==
    /\ pc = "boot"
    /\ pc' = "killed"
    /\ UNCHANGED <<booted, settled, shutting, code, net, work>>

\* The first signal closes the server, later ones are ignored.
Signal ==
    /\ pc = "serving" /\ ~shutting
    /\ shutting' = TRUE
    /\ UNCHANGED <<pc, booted, settled, code, net, work>>

\* What server.close waits for: connections with a request on them.
Connected == callers > 0 \/ probe.pc = "asking"

\* Mutant of Drained: the expiry job is not stopped.
DrainedOfRelay ==
    /\ pc = "serving" /\ shutting /\ ~Connected
    /\ timers' = timers \ {"relay"}
    /\ pc' = IF queue # "none" THEN "producer" ELSE "disconnect"
    /\ UNCHANGED <<booted, settled, shutting, code, net, run, callers, orphans, probe>>

\* server.close calls back when the last connection has ended: both stop(),
\* then producer.close(), which has nothing to do without a queue.
Drained ==
    /\ pc = "serving" /\ shutting /\ ~Connected
    /\ timers' = {}
    /\ pc' = IF queue # "none" THEN "producer" ELSE "disconnect"
    /\ UNCHANGED <<booted, settled, shutting, code, net, run, callers, orphans, probe>>

\* queue.close() is back: the field is cleared.
ProducerClosed ==
    /\ pc = "producer"
    /\ queue' = "none"
    /\ pc' = "disconnect"
    /\ UNCHANGED <<booted, settled, shutting, code, conn, breaks, work>>

\* It threw: the error is caught and the field keeps the queue.
ProducerCloseFails ==
    /\ pc = "producer"
    /\ pc' = "disconnect"
    /\ UNCHANGED <<booted, settled, shutting, code, net, work>>

\* Promise.allSettled of the four disconnects, in any order, each well or not.
Disconnect(c) ==
    /\ pc = "disconnect"
    /\ c \in Closable \ settled
    /\ settled' = settled \cup {c}
    /\ conn' \in {[conn EXCEPT ![c] = "closed"], conn}
    /\ UNCHANGED <<pc, booted, shutting, code, queue, breaks, work>>

ShutDown ==
    /\ pc = "disconnect"
    /\ settled = Closable
    /\ Exit(0)
    /\ UNCHANGED <<booted, settled, shutting, net>>

-----------------------------------------------------------------------------
Next ==
    \/ Connect \/ BootFails \/ Start
    \/ \E c \in Clients : Break(c) \/ Reconnect(c)
    \/ BreakQueue \/ ReconnectQueue \/ GiveUp
    \/ Request \/ Respond \/ HangUp \/ OrphanEnds
    \/ check \/ answerProbe \/ ProbeLeaves
    \/ \E c \in Pinged : isHealthy(c)
    \/ \E j \in Jobs : Fire(j) \/ Ended(j)
    \/ Trigger \/ getQueue
    \/ Kill \/ Signal
    \/ Drained \/ ProducerClosed \/ ProducerCloseFails
    \/ \E c \in Closable : Disconnect(c)
    \/ ShutDown

Spec == Init /\ [][Next]_vars

\* No connection that shutdown needs is waited for or given up; the queue's
\* counts until it is closed.
NothingLost ==
    /\ \A c \in Clients : conn[c] \notin {"lost", "dead"}
    /\ queue = "lost" => pc = "disconnect"

\* The event loop goes on.  Calls on a connection, a handler's and a close's
\* among them, end one way or the other while nothing is lost; on a lost
\* connection they may wait for good, since none of them has a timeout.
\* Nothing is assumed of boot, of the jobs, of callers or of the network.
FairSpec ==
    /\ Spec
    /\ WF_vars(NothingLost /\ Respond)
    /\ WF_vars(NothingLost /\ \E c \in Pinged : isHealthy(c))
    /\ WF_vars(answerProbe)
    /\ WF_vars(Drained)
    /\ WF_vars(NothingLost /\ (ProducerClosed \/ ProducerCloseFails))
    /\ WF_vars(NothingLost /\ \E c \in Closable : Disconnect(c))
    /\ WF_vars(ShutDown)

-----------------------------------------------------------------------------
\* The shape of the process's state, as lifecycle.ts and its services keep it;
\* an exit code is given by exiting only.
TypeOK ==
    /\ pc \in {"boot", "serving", "producer", "disconnect", "exited", "killed"}
    /\ booted \in 0..Len(BootOrder)
    /\ conn \in [Clients -> ConnStates]
    /\ settled \subseteq Closable
    /\ timers \subseteq Jobs /\ run \subseteq Jobs
    /\ queue \in {"none", "open", "lost"}
    /\ callers \in Nat /\ orphans \in Nat /\ callers + orphans <= MaxRequests
    /\ probe \in [pc : {"none", "asking", "UP", "DOWN"}, waiting : SUBSET Pinged,
                   failed : BOOLEAN, late : BOOLEAN]
    /\ shutting \in BOOLEAN
    /\ code \in 0..2 /\ (code = 2 <=> pc # "exited")
    /\ breaks \in 0..MaxBreaks

\* A request whose caller waits, draining included, finds every client
\* connected or connecting again, but for a Redis that was given up; and a
\* probe that comes after that is never told UP, while one that is told DOWN
\* means a lost connection, never a shutdown that closed it too early.
ServedIsConnected ==
    /\ pc = "serving" \/ Connected =>
          \A c \in Clients : conn[c] \in {"open", "lost"} \/ (c = "redis" /\ conn[c] = "dead")
    /\ probe.pc = "UP" => ~probe.late
    /\ probe.pc = "DOWN" => breaks > 0

\* A run of a job that starts over a closed client is the relay's, and a
\* handler that nobody waits for started it: no timer is left, and no caller
\* is still connected, when the first connection goes.
OnlyOrphansRunLate ==
    [][\A j \in run' \ run :
         (\E c \in UsedBy(j) : conn[c] = "closed") =>
            j = "relay" /\ callers = 0 /\ orphans > 0]_vars

=============================================================================
