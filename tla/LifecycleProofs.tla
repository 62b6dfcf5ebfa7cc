-------------------------- MODULE LifecycleProofs ---------------------------
(***************************************************************************)
(* Proofs of the safety properties of Lifecycle, for any number of         *)
(* requests and of lost connections.                                       *)
(***************************************************************************)
EXTENDS Lifecycle, TLAPS

Up(c) == conn[c] \in {"open", "lost"} \/ (c = "redis" /\ conn[c] = "dead")

\* The clients that initInfrastructure has connected are not closed before the
\* first disconnect.
Booting ==
    /\ pc = "boot" => \A i \in 1..booted : Up(BootOrder[i])
    /\ pc \in {"serving", "producer"} => \A c \in Clients : Up(c)

\* Connected callers and timers belong to a serving process, runs and handlers
\* to one that has started.
Stopped ==
    /\ pc # "serving" => timers = {} /\ ~Connected
    /\ pc = "boot" => run = {} /\ orphans = 0

\* A ping that failed met a lost connection, and one to a Redis that was given
\* up has failed or is still out.
Probing ==
    /\ \A c \in Clients : conn[c] \in {"lost", "dead"} => breaks > 0
    /\ probe.pc = "asking" =>
          /\ probe.failed => breaks > 0
          /\ probe.late => conn["redis"] = "dead" /\ ("redis" \in probe.waiting \/ probe.failed)
    /\ probe.pc = "UP" => ~probe.late
    /\ probe.pc = "DOWN" => breaks > 0

\* The inductive invariant.
Inv == TypeOK /\ Booting /\ Stopped /\ Probing

Probes == [pc : {"none", "asking", "UP", "DOWN"}, waiting : SUBSET Pinged,
           failed : BOOLEAN, late : BOOLEAN]

-----------------------------------------------------------------------------
LEMMA Five ==
    /\ Len(BootOrder) = 5 /\ DOMAIN BootOrder = 1..5
    /\ Clients = {"database", "redis", "rabbitmq", "bullmq", "gateway"}
    /\ \A i \in 1..5 : BootOrder[i] \in Clients
    /\ \A c \in Clients : \E i \in 1..5 : c = BootOrder[i]
<1>1. Len(BootOrder) = 5 /\ DOMAIN BootOrder = 1..5
    BY DEF BootOrder
<1>2. /\ BootOrder[1] = "database" /\ BootOrder[2] = "redis" /\ BootOrder[3] = "rabbitmq"
      /\ BootOrder[4] = "bullmq" /\ BootOrder[5] = "gateway"
    BY DEF BootOrder
<1>3. \A i \in 1..5 : i = 1 \/ i = 2 \/ i = 3 \/ i = 4 \/ i = 5
    OBVIOUS
<1> QED BY <1>1, <1>2, <1>3 DEF Clients

LEMMA ConnType ==
    ASSUME TypeOK
    PROVE  /\ conn \in [Clients -> ConnStates] /\ probe \in Probes
           /\ callers \in Nat /\ orphans \in Nat /\ breaks \in Nat
BY BoundAssumption DEF TypeOK, Probes

LEMMA InitInv == Init => Inv
<1> SUFFICES ASSUME Init PROVE Inv
    OBVIOUS
<1>1. TypeOK
    <2>1. booted \in 0..Len(BootOrder) /\ breaks \in 0..MaxBreaks
        BY Five, BoundAssumption DEF Init
    <2>2. callers \in Nat /\ orphans \in Nat /\ callers + orphans <= MaxRequests
        BY BoundAssumption DEF Init
    <2>3. conn \in [Clients -> ConnStates] /\ queue \in {"none", "open", "lost"}
        BY DEF Init, ConnStates
    <2>4. settled \subseteq Closable /\ timers \subseteq Jobs /\ run \subseteq Jobs
        BY DEF Init
    <2>5. shutting \in BOOLEAN
        BY Zenon DEF Init
    <2>6. probe \in Probes
        BY DEF Init, NoProbe, Probes
    <2>7. pc = "boot" /\ code \in 0..2 /\ code = 2
        BY DEF Init
    <2> QED BY <2>1, <2>2, <2>3, <2>4, <2>5, <2>6, <2>7 DEF TypeOK, Probes
<1>2. Booting /\ Stopped /\ Probing
    <2>1. \A c \in Clients : conn[c] = "none"
        BY DEF Init
    <2> QED BY <2>1 DEF Init, NoProbe, Booting, Stopped, Connected, Probing
<1> QED BY <1>1, <1>2 DEF Inv

LEMMA ConnectStep == Inv /\ Connect => Inv'
<1> SUFFICES ASSUME Inv, Connect PROVE Inv'
    OBVIOUS
<1>1. /\ pc = "boot" /\ booted \in 0..4 /\ booted + 1 \in 1..5
      /\ BootOrder[booted + 1] \in Clients
    BY Five DEF Inv, TypeOK, Connect
<1>2. /\ conn \in [Clients -> ConnStates]
      /\ conn' = [conn EXCEPT ![BootOrder[booted + 1]] = "open"]
      /\ booted' = booted + 1
      /\ UNCHANGED <<pc, settled, shutting, code, queue, breaks, timers, run, callers, orphans, probe>>
    BY DEF Inv, TypeOK, Connect, work
<1>3. TypeOK'
    BY <1>1, <1>2, Five DEF Inv, TypeOK, ConnStates
<1>4. \A c \in Clients : conn'[c] = IF c = BootOrder[booted + 1] THEN "open" ELSE conn[c]
    BY <1>2
<1>5. Booting'
    <2>1. ASSUME NEW i \in 1..(booted + 1) PROVE Up(BootOrder[i])'
        <3>1. BootOrder[i] \in Clients /\ (i = booted + 1 \/ i \in 1..booted)
            BY <1>1, Five
        <3>2. CASE i = booted + 1
            BY <1>2, <1>4, <3>1, <3>2 DEF Up
        <3>3. CASE i \in 1..booted
            BY <1>1, <1>2, <1>4, <3>1, <3>3 DEF Inv, Booting, Up
        <3> QED BY <3>1, <3>2, <3>3
    <2> QED BY <1>1, <1>2, <2>1 DEF Booting
<1>6. Stopped' /\ Probing'
    <2>1. probe.pc # "asking"
        BY <1>1 DEF Inv, Stopped, Connected
    <2> QED BY <1>2, <1>4, <2>1 DEF Inv, Stopped, Connected, Probing
<1> QED BY <1>3, <1>5, <1>6 DEF Inv

LEMMA StartStep == Inv /\ Start => Inv' /\ \A c \in Clients : Up(c)
<1> SUFFICES ASSUME Inv, Start PROVE Inv' /\ \A c \in Clients : Up(c)
    OBVIOUS
<1>1. \A c \in Clients : Up(c)
    BY Five DEF Inv, TypeOK, Booting, Start
<1>2. /\ UNCHANGED <<booted, settled, shutting, code, conn, queue, breaks, callers, orphans, probe>>
      /\ pc' = "serving" /\ timers' = Jobs /\ run' = run \cup {"expiry"} /\ pc = "boot"
    BY DEF Start, net
<1>3. TypeOK'
    BY <1>2 DEF Inv, TypeOK, Jobs
<1>4. Booting' /\ Stopped' /\ Probing'
    BY <1>1, <1>2 DEF Inv, Up, Booting, Stopped, Probing
<1> QED BY <1>1, <1>3, <1>4 DEF Inv

\* Connections are lost, come back, are given up, and are dropped by a process
\* that disconnects.
LEMMA ConnectionSteps ==
    ASSUME Inv,
           \/ \E c \in Clients : Break(c) \/ Reconnect(c)
           \/ GiveUp
           \/ \E c \in Closable : Disconnect(c)
    PROVE  Inv'
<1>1. PICK c \in Clients : Break(c) \/ Reconnect(c) \/ (c = "redis" /\ GiveUp)
                           \/ (c \in Closable /\ Disconnect(c))
    BY Five DEF Closable
<1>2. /\ conn \in [Clients -> ConnStates] /\ probe \in Probes /\ breaks \in Nat
      /\ callers \in Nat /\ orphans \in Nat
    BY ConnType DEF Inv
<1>3. /\ UNCHANGED <<pc, booted, shutting, code, queue, timers, run, callers, orphans, probe>>
      /\ settled' \subseteq Closable /\ breaks' \in 0..MaxBreaks /\ breaks' >= breaks
    BY <1>1, <1>2, BoundAssumption
       DEF Break, Reconnect, GiveUp, Disconnect, place, work, Inv, TypeOK
<1>4. PICK s \in {"open", "lost", "dead", "closed"} :
          /\ conn' = [conn EXCEPT ![c] = s] \/ conn' = conn
          /\ s \in {"open", "lost"} \/ (c = "redis" /\ s = "dead") \/ pc = "disconnect"
          /\ s = "lost" => breaks' > 0
          /\ s = "dead" => conn["redis"] = "lost" /\ c = "redis"
          /\ pc = "disconnect" \/ conn[c] # "dead"
    <2>1. CASE Break(c)
        BY <1>2, <2>1 DEF Break
    <2>2. CASE Reconnect(c)
        BY <2>2 DEF Reconnect
    <2>3. CASE c = "redis" /\ GiveUp
        BY <2>3 DEF GiveUp
    <2>4. CASE Disconnect(c)
        BY <2>4 DEF Disconnect
    <2> QED BY <1>1, <2>1, <2>2, <2>3, <2>4
<1>5. conn' \in [Clients -> ConnStates]
    BY <1>2, <1>4 DEF ConnStates
<1>6. \A b \in Clients : conn'[b] = conn[b] \/ (b = c /\ conn'[b] = s)
    BY <1>2, <1>4
<1>7. TypeOK'
    BY <1>3, <1>5 DEF Inv, TypeOK
<1>8. Booting'
    <2>1. pc # "disconnect" => \A b \in Clients : Up(b) => Up(b)'
        BY <1>4, <1>6 DEF Up
    <2>2. \A i \in 1..booted : BootOrder[i] \in Clients
        BY Five DEF Inv, TypeOK
    <2> QED BY <1>3, <2>1, <2>2 DEF Inv, Booting
<1>9. Stopped'
    BY <1>3 DEF Inv, Stopped, Connected
<1>10. Probing'
    <2>1. \A b \in Clients : conn'[b] \in {"lost", "dead"} => breaks' > 0
        <3>1. breaks > 0 => breaks' > 0
            BY <1>2, <1>3
        <3>2. conn["redis"] = "lost" => breaks > 0
            BY Five DEF Inv, Probing
        <3> QED BY <1>3, <1>4, <1>6, <3>1, <3>2 DEF Inv, Probing
    <2>2. breaks > 0 => breaks' > 0
        BY <1>2, <1>3
    <2>3. pc # "disconnect" /\ conn["redis"] = "dead" => conn'["redis"] = "dead"
        BY <1>4, <1>6, Five
    <2>4. probe.pc = "asking" => pc # "disconnect"
        BY DEF Inv, Stopped, Connected
    <2> QED BY <1>3, <2>1, <2>2, <2>3, <2>4 DEF Inv, Probing
<1> QED BY <1>7, <1>8, <1>9, <1>10 DEF Inv

\* A probe asks, is answered and leaves.
LEMMA ProbeSteps ==
    ASSUME Inv, check \/ (\E c \in Pinged : isHealthy(c)) \/ answerProbe \/ ProbeLeaves
    PROVE  Inv'
<1>1. /\ conn \in [Clients -> ConnStates] /\ probe \in Probes /\ breaks \in Nat
      /\ Pinged \subseteq Clients
    BY ConnType, Five DEF Inv, Pinged
<1>2. /\ UNCHANGED <<pc, booted, settled, shutting, code, conn, queue, breaks,
                     timers, run, callers, orphans>>
      /\ pc = "serving"
    BY DEF check, isHealthy, answerProbe, ProbeLeaves, place, net, Inv, Stopped, Connected
<1>3. \A c \in Clients : Up(c)
    BY <1>2 DEF Inv, Booting
<1>4. \A c \in Clients : conn[c] # "open" => breaks > 0
    BY <1>3 DEF Up, Inv, Probing
<1>5. probe' \in Probes /\ Probing'
    <2>1. CASE check
        <3>1. /\ probe'.pc = "asking" /\ probe'.waiting = Pinged
              /\ probe'.failed = (conn["gateway"] # "open") /\ probe'.late = (conn["redis"] = "dead")
              /\ probe' \in Probes
            BY <2>1 DEF check, Probes
        <3> QED BY <1>2, <1>4, <3>1, Five DEF Inv, Probing, Pinged
    <2>2. ASSUME NEW c \in Pinged, isHealthy(c) PROVE probe' \in Probes /\ Probing'
        <3>1. /\ probe.pc = "asking" /\ probe'.pc = "asking" /\ probe'.late = probe.late
              /\ probe'.waiting = probe.waiting \ {c}
              /\ probe'.failed = (probe.failed \/ conn[c] # "open")
              /\ probe' \in Probes
            BY <1>1, <2>2 DEF isHealthy, Probes
        <3> QED BY <1>1, <1>2, <1>4, <3>1 DEF Inv, Probing
    <2>3. CASE answerProbe
        <3>1. /\ probe.pc = "asking" /\ probe.waiting = {}
              /\ probe'.pc = (IF probe.failed THEN "DOWN" ELSE "UP") /\ probe'.late = probe.late
              /\ probe' \in Probes
            BY <1>1, <2>3 DEF answerProbe, Probes
        <3> QED BY <1>2, <3>1 DEF Inv, Probing
    <2>4. CASE ProbeLeaves
        <3>1. probe'.pc = "none" /\ probe' \in Probes
            BY <2>4 DEF ProbeLeaves, NoProbe, Probes
        <3> QED BY <1>2, <3>1 DEF Inv, Probing
    <2> QED BY <2>1, <2>2, <2>3, <2>4
<1>6. TypeOK'
    BY <1>2, <1>5 DEF Inv, TypeOK, Probes
<1>7. Booting' /\ Stopped'
    BY <1>2, <1>3 DEF Booting, Up, Stopped
<1> QED BY <1>5, <1>6, <1>7 DEF Inv

\* Steps that leave the clients and the probe alone.
LEMMA OtherSteps ==
    ASSUME Inv,
           \/ BreakQueue \/ ReconnectQueue \/ getQueue
           \/ Request \/ Respond \/ HangUp \/ OrphanEnds
           \/ (\E j \in Jobs : Fire(j) \/ Ended(j)) \/ Trigger
           \/ Kill \/ Signal \/ Drained \/ ProducerClosed \/ ProducerCloseFails \/ UNCHANGED vars
    PROVE  Inv'
<1> USE DEF place, net, work
<1>1. callers \in Nat /\ orphans \in Nat /\ breaks \in Nat
    BY ConnType DEF Inv
<1>2. UNCHANGED <<booted, conn, settled, code, probe>>
    BY DEF BreakQueue, ReconnectQueue, getQueue, Request, Respond, HangUp, OrphanEnds, Fire,
           Ended, Trigger, StartRun, Kill, Signal, Drained, ProducerClosed, ProducerCloseFails, vars
<1>3. CASE BreakQueue \/ ReconnectQueue \/ getQueue
    <2>1. /\ UNCHANGED <<pc, timers, run, callers, orphans, shutting>>
          /\ queue' \in {"open", "lost"} /\ breaks' \in 0..MaxBreaks /\ breaks' >= breaks
        BY <1>1, <1>3, BoundAssumption DEF BreakQueue, ReconnectQueue, getQueue, Inv, TypeOK
    <2>2. breaks > 0 => breaks' > 0
        BY <1>1, <2>1
    <2> QED BY <1>2, <2>1, <2>2 DEF Inv, TypeOK, Booting, Up, Stopped, Connected, Probing
<1>4. CASE Request \/ Respond \/ HangUp \/ OrphanEnds
    <2>1. /\ UNCHANGED <<pc, timers, run, shutting, queue, breaks>>
          /\ callers' \in Nat /\ orphans' \in Nat /\ callers' + orphans' <= MaxRequests
          /\ callers' > 0 => pc = "serving"
          /\ pc = "boot" => orphans' = 0
        BY <1>1, <1>4, BoundAssumption
           DEF Request, Respond, HangUp, OrphanEnds, Inv, TypeOK, Stopped, Connected
    <2> QED BY <1>2, <2>1 DEF Inv, TypeOK, Booting, Up, Stopped, Connected, Probing
<1>5. CASE (\E j \in Jobs : Fire(j) \/ Ended(j)) \/ Trigger
    <2>1. /\ UNCHANGED <<pc, timers, callers, orphans, shutting, queue, breaks>>
          /\ run' \subseteq Jobs
        BY <1>5 DEF Fire, Ended, Trigger, StartRun, Inv, TypeOK, Jobs
    <2>2. pc = "boot" => run' = {}
        BY <1>1, <1>5 DEF Fire, Ended, Trigger, StartRun, Inv, Stopped, Connected
    <2> QED BY <1>2, <2>1, <2>2 DEF Inv, TypeOK, Booting, Up, Stopped, Connected, Probing
<1>6. CASE Kill \/ Signal
    <2>1. CASE Kill
        BY <1>2, <2>1 DEF Kill, Inv, TypeOK, Booting, Stopped, Connected, Probing
    <2>2. CASE Signal
        <3>1. /\ UNCHANGED <<pc, timers, run, callers, orphans, queue, breaks>>
              /\ shutting' \in BOOLEAN
            BY <2>2, Zenon DEF Signal
        <3> QED BY <1>2, <3>1 DEF Inv, TypeOK, Booting, Up, Stopped, Connected, Probing
    <2> QED BY <1>6, <2>1, <2>2
<1>7. CASE Drained
    BY <1>2, <1>7 DEF Drained, Inv, TypeOK, Booting, Up, Stopped, Connected, Probing
<1>8. CASE ProducerClosed \/ ProducerCloseFails
    BY <1>2, <1>8 DEF ProducerClosed, ProducerCloseFails, Inv, TypeOK, Booting, Stopped,
                      Connected, Probing
<1>9. CASE UNCHANGED vars
    BY <1>9 DEF vars, Inv, TypeOK, Booting, Up, Stopped, Connected, Probing
<1> QED BY <1>3, <1>4, <1>5, <1>6, <1>7, <1>8, <1>9

LEMMA ExitSteps ==
    ASSUME Inv, BootFails \/ ShutDown
    PROVE  Inv'
<1>1. /\ UNCHANGED <<booted, settled, shutting, conn, queue, breaks>>
      /\ pc' = "exited" /\ code' \in 0..1 /\ run' = {} /\ timers' = {}
      /\ callers' = 0 /\ orphans' = 0 /\ probe' = NoProbe
    BY DEF BootFails, ShutDown, Exit, net
<1>2. probe' \in Probes /\ probe'.pc = "none"
    BY <1>1 DEF NoProbe, Probes
<1>3. TypeOK'
    BY <1>1, <1>2, BoundAssumption DEF Inv, TypeOK, Probes
<1>4. Booting' /\ Stopped' /\ Probing'
    BY <1>1, <1>2 DEF Inv, Booting, Stopped, Connected, Probing
<1> QED BY <1>3, <1>4 DEF Inv

LEMMA NextInv == Inv /\ [Next]_vars => Inv'
BY ConnectStep, StartStep, ConnectionSteps, ProbeSteps, OtherSteps, ExitSteps DEF Next

LEMMA Invariance == Spec => []Inv
BY InitInv, NextInv, PTL DEF Spec

-----------------------------------------------------------------------------
\* The process's state keeps its shape, and an exit code is given by exiting only.
THEOREM TypeCorrect == Spec => []TypeOK
<1>1. Inv => TypeOK
    BY DEF Inv
<1> QED BY <1>1, Invariance, PTL

\* bootstrap connects everything before listen, and shutdown disconnects only
\* after the server has drained: a request finds no client closed, though Redis
\* may have been given up; then /ready never says UP, and it says DOWN only
\* after a connection was lost.
THEOREM ServedConnected == Spec => []ServedIsConnected
<1>1. Inv => ServedIsConnected
    <2> SUFFICES ASSUME Inv PROVE ServedIsConnected
        OBVIOUS
    <2>1. pc = "serving" \/ Connected => pc = "serving"
        BY DEF Inv, Stopped
    <2>2. pc = "serving" => \A c \in Clients : Up(c)
        BY DEF Inv, Booting
    <2> QED BY <2>1, <2>2 DEF Up, Inv, Probing, ServedIsConnected
<1> QED BY <1>1, Invariance, PTL

\* shutdown stops the timers and waits for the connected callers before the
\* first client is closed: a run that begins over a closed client is a relay
\* run that a handler without a caller triggered.
THEOREM LateRuns == Spec => OnlyOrphansRunLate
<1>1. Inv /\ [Next]_vars =>
        [\A j \in run' \ run :
            (\E c \in UsedBy(j) : conn[c] = "closed") =>
               j = "relay" /\ callers = 0 /\ orphans > 0]_vars
    <2> SUFFICES ASSUME Inv, Next, NEW j \in run' \ run, NEW c \in UsedBy(j), conn[c] = "closed"
                 PROVE  j = "relay" /\ callers = 0 /\ orphans > 0
        OBVIOUS
    <2> USE DEF place, net, work
    <2>1. c \in Clients
        BY Five DEF UsedBy
    <2>2. pc # "serving"
        BY <2>1 DEF Inv, Booting, Up
    <2>3. timers = {} /\ callers = 0
        BY <2>2, ConnType DEF Inv, Stopped, Connected
    <2>4. CASE Start
        BY <2>1, <2>4, StartStep DEF Up
    <2>5. CASE \E i \in Jobs : Fire(i)
        BY <2>3, <2>5 DEF Fire
    <2>6. CASE Trigger
        BY <2>3, <2>6, ConnType DEF Trigger, StartRun, Inv
    <2>7. CASE \/ Connect \/ BootFails \/ Request \/ Respond \/ HangUp \/ OrphanEnds
               \/ getQueue \/ BreakQueue \/ ReconnectQueue \/ GiveUp \/ Kill \/ Signal
               \/ check \/ answerProbe \/ ProbeLeaves
               \/ \E b \in Pinged : isHealthy(b)
               \/ \E i \in Jobs : Ended(i)
               \/ \E b \in Clients : Break(b) \/ Reconnect(b)
               \/ \E b \in Closable : Disconnect(b)
               \/ Drained \/ ProducerClosed \/ ProducerCloseFails \/ ShutDown
        BY <2>7 DEF Connect, BootFails, Exit, Request, Respond, HangUp, OrphanEnds, getQueue,
           BreakQueue, ReconnectQueue, GiveUp, Kill, Signal, check, answerProbe, ProbeLeaves,
           isHealthy, Ended, Break, Reconnect, Disconnect, Drained, ProducerClosed,
           ProducerCloseFails, ShutDown
    <2> QED BY <2>4, <2>5, <2>6, <2>7 DEF Next
<1> QED BY <1>1, Invariance, PTL DEF Spec, OnlyOrphansRunLate
=============================================================================
