-------------------------- MODULE VmLifecycleProofs --------------------------
(***************************************************************************)
(* Theorems about the life of VMs, for any VMs, starts, stops and          *)
(* deletions.                                                              *)
(*                                                                         *)
(* The four invariants say little about status, lock, metrics or ports:    *)
(* most actions leave alone what they are about.  StepEffect sorts the     *)
(* steps into those that leave the connections alone, those that only move *)
(* a start or a setup along, and the actions that matter.                  *)
(***************************************************************************)
EXTENDS VmLifecycle, FiniteSetTheorems, TLAPS

(* Before the setup has a connection, before its connection is counted,    *)
(* and after.                                                              *)
Early == {"unused", "inject", "boot", "running", "accept"}
Uncounted == Early \cup {"send", "mux", "gate", "ports", "serve"}
Counted == {"ssh", "client", "metrics", "emit", "done"}

(* A process is one of a start that spawned it; its monitor came with it,  *)
(* and an emitter with a setup.                                            *)
ProcShape ==
  \A n \in Boots :
    /\ pc[n] \in {"unused", "inject", "boot"} => proc[n] = "none"
    /\ monitor[n] # "none" => proc[n] # "none"
    /\ emitter[n] # "none" => pc[n] # "unused"

(* The token that waits for the next process of a VM, and the token a      *)
(* process was started with, are of starts of the same VM.                 *)
Tokens ==
  /\ \A b \in Boots : pc[b] = "boot" => fwToken[bootVm[b]] # None
  /\ \A v \in Vms : fwToken[v] # None =>
       pc[fwToken[v]] # "unused" /\ bootVm[fwToken[v]] = v
  /\ \A n \in Boots : proc[n] # "none" =>
       pc[procToken[n]] # "unused" /\ bootVm[procToken[n]] = bootVm[n]

(* A setup that has no connection yet has none; a connection goes to a     *)
(* process; whoever the agent listens to is connected to it.               *)
Links ==
  /\ \A b \in Boots : pc[b] \in Early => link[b] = "none" /\ peer[b] = None
  /\ \A b \in Boots : link[b] # "none" => peer[b] # None
  /\ \A b \in Boots : peer[b] # None => proc[peer[b]] # "none"
  /\ cid # None => proc[cid] = "alive"
  /\ \A n \in Boots : accepting[n] # None =>
       peer[accepting[n]] = n /\ pc[accepting[n]] \notin Early

(* A connection that is served presented the token of its peer.            *)
Authentic ==
  \A b \in Boots : link[b] = "served" => procToken[peer[b]] = b

(* The multiplexer of a VM in the gateway is that of a start of the VM.    *)
GateOwn ==
  \A v \in Vms : gateMux[v] # None => bootVm[gateMux[v]] = v /\ pc[gateMux[v]] # "unused"

(* The agent waits for a token only while it serves nobody.                *)
Exclusive ==
  OneConnection /\ \A n \in Boots : accepting[n] # None => mux_store[n] = None

(* A counted connection has its handler until it is closed.                *)
Count ==
  /\ connected = Cardinality(handlers)
  /\ \A b \in Boots : pc[b] \in Uncounted => b \notin handlers
  /\ \A b \in Boots : pc[b] \in Counted /\ b \notin handlers => link[b] = "closed"

LifeInv ==
  TypeOK /\ ProcShape /\ Tokens /\ Links /\ Authentic /\ GateOwn /\ Exclusive /\ Count

(* The initial state satisfies the invariant.                              *)
LEMMA LifeInit == Init => LifeInv
<1> SUFFICES ASSUME Init PROVE LifeInv
  OBVIOUS
<1>1. TypeOK
  BY LifeAssumption DEF Init, TypeOK, Types, Statuses, Pcs, Monitors, Stages, MaybeBoot
<1>2. ProcShape /\ Tokens /\ Links /\ Authentic /\ GateOwn
  BY DEF Init, ProcShape, Tokens, Links, Authentic, GateOwn, Early
<1>3. Exclusive
  BY DEF Init, Exclusive, OneConnection
<1>4. Count
  BY FS_EmptySet DEF Init, Count, Counted
<1> QED
  BY <1>1, <1>2, <1>3, <1>4 DEF LifeInv

(* QemuVmPlatform::stop keeps the types of what it changes.                *)
PlatformTypes ==
  /\ status \in [Vms -> Statuses] /\ stopTx \in [Vms -> MaybeBoot]
  /\ signalled \subseteq Boots

(* PlatformStop keeps them.                                                 *)
LEMMA StopTypes ==
  ASSUME PlatformTypes, NEW v \in Vms, PlatformStop(v) PROVE PlatformTypes'
<1>1. CASE status[v] = "Stopped"
  BY <1>1 DEF PlatformStop, PlatformTypes
<1>2. CASE status[v] # "Stopped"
  BY <1>2 DEF PlatformStop, PlatformTypes, Statuses, MaybeBoot
<1> QED
  BY <1>1, <1>2

(* Every step keeps the types, and what TypeOK says besides.               *)
LEMMA LifeTypes == LifeInv /\ [Next]_vars => TypeOK' /\ ProcShape'
<1> SUFFICES ASSUME LifeInv, [Next]_vars PROVE TypeOK' /\ ProcShape'
  OBVIOUS
<1>i. TypeOK /\ ProcShape /\ Tokens
  BY DEF LifeInv
<1> USE LifeAssumption
    DEF TypeOK, Types, ProcShape, Statuses, Pcs, Monitors, Stages, MaybeBoot,
        boot, platform, process, links, agent, instance, metrics, reverse, commands,
        Goto, At, Unlocked, Step
<1>1. ASSUME NEW b \in Boots, InjectToken(b)
      PROVE TypeOK' /\ ProcShape'
  BY <1>1, <1>i DEF InjectToken
<1>2. ASSUME NEW b \in Boots, StartPlatform(b)
      PROVE TypeOK' /\ ProcShape'
  <2>1. pc[b] = "boot" /\ bootVm[b] \in Vms /\ fwToken[bootVm[b]] \in Boots
    BY <1>2, <1>i DEF StartPlatform, Tokens
  <2>2. UNCHANGED <<bootVm, fwToken, stopTx, signalled, cid, links, agent, instance,
                    metrics, reverse, commands>>
    BY <1>2 DEF StartPlatform
  <2>3. CASE pc' = [pc EXCEPT ![b] = "failed"]
    <3>1. status' \in [Vms -> Statuses] /\ UNCHANGED <<lock, proc, procToken, monitor>>
      BY <1>2, <1>i, <2>1, <2>3 DEF StartPlatform
    <3> QED
      BY <1>i, <2>1, <2>2, <2>3, <3>1
  <2>4. CASE /\ status' = [status EXCEPT ![bootVm[b]] = "Starting"]
             /\ lock' = [lock EXCEPT ![bootVm[b]] = b]
             /\ proc' = [proc EXCEPT ![b] = "alive"]
             /\ procToken' = [procToken EXCEPT ![b] = fwToken[bootVm[b]]]
             /\ monitor' = [monitor EXCEPT ![b] = "watch"]
             /\ pc' = [pc EXCEPT ![b] = "running"]
    BY <1>i, <2>1, <2>2, <2>4
  <2> QED
    BY <1>2, <2>3, <2>4 DEF StartPlatform
<1>3. ASSUME NEW b \in Boots, PlatformRunning(b)
      PROVE TypeOK' /\ ProcShape'
  BY <1>3, <1>i DEF PlatformRunning, SpawnSetup
<1>4. ASSUME NEW b \in Boots, Accept(b)
      PROVE TypeOK' /\ ProcShape'
  <2>1. PICK l \in {"send", "failed"} : pc' = [pc EXCEPT ![b] = l] /\ pc[b] = "accept"
    BY <1>4 DEF Accept
  <2>2. /\ peer' \in [Boots -> MaybeBoot]
        /\ link' \in [Boots -> {"none", "open", "sent", "served", "closed"}]
    <3>1. CASE UNCHANGED links
      BY <1>i, <3>1
    <3>2. CASE /\ cid # None /\ peer' = [peer EXCEPT ![b] = cid]
               /\ link' = [link EXCEPT ![b] = "open"]
      BY <1>i, <3>2
    <3> QED
      BY <1>4, <3>1, <3>2 DEF Accept
  <2>3. UNCHANGED <<bootVm, platform, process, agent, instance, metrics, reverse, commands>>
    BY <1>4 DEF Accept
  <2> QED
    <3>1. Types'
      BY <1>i, <2>1, <2>2, <2>3
    <3> QED
      BY <1>i, <2>1, <2>3, <3>1
<1>5. ASSUME NEW b \in Boots, SendToken(b)
      PROVE TypeOK' /\ ProcShape'
  <2>1. PICK l \in {"mux", "failed"} : pc' = [pc EXCEPT ![b] = l] /\ pc[b] = "send"
    BY <1>5 DEF SendToken
  <2>2. link' \in [Boots -> {"none", "open", "sent", "served", "closed"}]
    BY <1>5, <1>i DEF SendToken
  <2>3. UNCHANGED <<bootVm, platform, process, peer, agent, instance, metrics, reverse,
                    commands>>
    BY <1>5 DEF SendToken
  <2> QED
    <3>1. Types'
      BY <1>i, <2>1, <2>2, <2>3
    <3> QED
      BY <1>i, <2>1, <2>3, <3>1
<1>6. ASSUME NEW b \in Boots, InstallMux(b)
      PROVE TypeOK' /\ ProcShape'
  BY <1>6, <1>i DEF InstallMux
<1>7. ASSUME NEW b \in Boots, RegisterMux(b)
      PROVE TypeOK' /\ ProcShape'
  BY <1>7, <1>i DEF RegisterMux
<1>8. ASSUME NEW b \in Boots, ApplyMappings(b)
      PROVE TypeOK' /\ ProcShape'
  BY <1>8, <1>i DEF ApplyMappings
<1>9. ASSUME NEW b \in Boots, ServeReverse(b)
      PROVE TypeOK' /\ ProcShape'
  BY <1>9, <1>i DEF ServeReverse
<1>10. ASSUME NEW b \in Boots, HandlerEnds(b) PROVE TypeOK' /\ ProcShape'
  <2>1. IsFiniteSet(handlers) /\ connected = Cardinality(handlers)
    BY <1>i, FS_Subset DEF LifeInv, Count
  <2>2. Cardinality(handlers \ {b}) = connected - 1 /\ Cardinality(handlers \ {b}) \in Nat
    BY <1>10, <2>1, FS_RemoveElement, FS_CardinalityType DEF HandlerEnds
  <2> QED
    BY <1>10, <1>i, <2>2 DEF HandlerEnds
<1>11. ASSUME NEW b \in Boots, ConnectSsh(b)
      PROVE TypeOK' /\ ProcShape'
  <2>1. PICK l \in {"client", "failed"} : pc' = [pc EXCEPT ![b] = l] /\ pc[b] = "ssh"
    BY <1>11 DEF ConnectSsh
  <2>2. UNCHANGED <<bootVm, platform, process, links, agent, instance, metrics, reverse,
                    commands>>
    BY <1>11 DEF ConnectSsh
  <2> QED
    BY <1>i, <2>1, <2>2
<1>12. ASSUME NEW b \in Boots, SetSshClient(b)
      PROVE TypeOK' /\ ProcShape'
  BY <1>12, <1>i DEF SetSshClient
<1>13. ASSUME NEW b \in Boots, StartMetrics(b)
      PROVE TypeOK' /\ ProcShape'
  BY <1>13, <1>i DEF StartMetrics
<1>14. ASSUME NEW b \in Boots, SpawnEmitter(b)
      PROVE TypeOK' /\ ProcShape'
  BY <1>14, <1>i DEF SpawnEmitter
<1>15. ASSUME NEW b \in Boots, EmitterStarts(b)
      PROVE TypeOK' /\ ProcShape'
  <2>1. /\ emitter' \in [Boots -> MaybeBoot \cup {"none", "new"}] /\ pc[b] # "unused"
        /\ \A n \in Boots \ {b} : emitter'[n] = emitter[n]
    <3>1. bootVm[b] \in Vms
      BY <1>15, <1>i DEF EmitterStarts
    <3> QED
      BY <1>i, <3>1, <1>15 DEF EmitterStarts
  <2>2. UNCHANGED <<boot, platform, process, links, agent, instance, cancelTok, cancelled,
                    collector, reverse, commands>>
    BY <1>15 DEF EmitterStarts
  <2> QED
    BY <1>i, <2>1, <2>2
<1>16. ASSUME NEW b \in Boots, EmitterEnds(b)
      PROVE TypeOK' /\ ProcShape'
  BY <1>16, <1>i DEF EmitterEnds
<1>17. ASSUME NEW b \in Boots, CollectorEnds(b)
      PROVE TypeOK' /\ ProcShape'
  BY <1>17, <1>i DEF CollectorEnds
<1>18. ASSUME NEW b \in Boots, GuestUp(b)
      PROVE TypeOK' /\ ProcShape'
  BY <1>18, <1>i DEF GuestUp
<1>19. ASSUME NEW b \in Boots, ProcessExits(b)
      PROVE TypeOK' /\ ProcShape'
  BY <1>19, <1>i DEF ProcessExits, Gone
<1>20. ASSUME NEW b \in Boots, MonitorWakes(b)
      PROVE TypeOK' /\ ProcShape'
  <2>1. PICK m \in {"stopped", "error", "kill"} :
          /\ monitor' = [monitor EXCEPT ![b] = m] /\ monitor[b] = "watch"
          /\ m # "kill" => proc[b] = "exited"
    BY <1>20 DEF MonitorWakes
  <2>2. UNCHANGED <<boot, platform, proc, procToken, cid, links, agent, instance, metrics,
                    reverse, commands>>
    BY <1>20 DEF MonitorWakes
  <2> QED
    BY <1>i, <2>1, <2>2
<1>21. ASSUME NEW b \in Boots, Killed(b)
      PROVE TypeOK' /\ ProcShape'
  BY <1>21, <1>i DEF Killed, Gone
<1>22. ASSUME NEW b \in Boots, MonitorReports(b)
      PROVE TypeOK' /\ ProcShape'
  BY <1>22, <1>i DEF MonitorReports
<1>23. ASSUME NEW b \in Boots, AgentAuthenticates(b)
      PROVE TypeOK' /\ ProcShape'
  <2>1. /\ accepting' \in [Boots -> MaybeBoot] /\ mux_store' \in [Boots -> MaybeBoot]
        /\ inbound' \in [Boots -> SUBSET Boots]
    <3>1. CASE UNCHANGED <<mux_store, inbound>>
      BY <1>23, <1>i, <3>1 DEF AgentAuthenticates
    <3>2. CASE /\ mux_store' = [mux_store EXCEPT ![b] = accepting[b]]
               /\ inbound' = [inbound EXCEPT ![b] = @ \cup {accepting[b]}]
      BY <1>23, <1>i, <3>2 DEF AgentAuthenticates
    <3> QED
      BY <1>23, <3>1, <3>2 DEF AgentAuthenticates
  <2>2. link' \in [Boots -> {"none", "open", "sent", "served", "closed"}]
    BY <1>23, <1>i DEF AgentAuthenticates
  <2>3. UNCHANGED <<boot, platform, process, peer, instance, metrics, reverse, commands>>
    BY <1>23 DEF AgentAuthenticates
  <2> QED
    BY <1>i, <2>1, <2>2, <2>3
<1>24. ASSUME NEW b \in Boots, LinkBreaks(b)
      PROVE TypeOK' /\ ProcShape'
  BY <1>24, <1>i DEF LinkBreaks
<1>25. ASSUME NEW s \in Closers, CancelMetrics(s)
      PROVE TypeOK' /\ ProcShape'
  BY <1>25, <1>i DEF CancelMetrics
<1>26. ASSUME NEW s \in Closers, RemoveMux(s)
      PROVE TypeOK' /\ ProcShape'
  BY <1>26, <1>i DEF RemoveMux
<1>27. ASSUME NEW s \in Closers, RemoveListeners(s)
      PROVE TypeOK' /\ ProcShape'
  BY <1>27, <1>i DEF RemoveListeners
<1>28. ASSUME NEW s \in Closers, ClearMux(s)
      PROVE TypeOK' /\ ProcShape'
  BY <1>28, <1>i DEF ClearMux
<1>29. ASSUME NEW s \in Closers, ClearSsh(s)
      PROVE TypeOK' /\ ProcShape'
  BY <1>29, <1>i DEF ClearSsh
<1>30. ASSUME NEW s \in Closers, DeletePlatform(s)
      PROVE TypeOK' /\ ProcShape'
  <2>1. closing[s] \in Vms
    BY <1>30, <1>i DEF DeletePlatform
  <2>2. PlatformTypes'
    BY <1>30, <1>i, <2>1, StopTypes DEF DeletePlatform, PlatformTypes
  <2>3. /\ closer' = [closer EXCEPT ![s] = "delRows"]
        /\ UNCHANGED <<boot, lock, fwToken, process, links, agent, instance, metrics,
                       reverse, vms, closing, wish>>
    BY <1>30 DEF DeletePlatform
  <2> QED
    BY <1>i, <2>1, <2>2, <2>3 DEF PlatformTypes
<1>31. ASSUME NEW s \in Closers, DeleteRows(s)
      PROVE TypeOK' /\ ProcShape'
  BY <1>31, <1>i DEF DeleteRows
<1>32. ASSUME NEW v \in Vms, ChangeMapping(v)
      PROVE TypeOK' /\ ProcShape'
  BY <1>32, <1>i DEF ChangeMapping
<1>33. ASSUME NEW v \in Vms, InstanceDropped(v)
      PROVE TypeOK' /\ ProcShape'
  BY <1>33, <1>i DEF InstanceDropped
<1>34. ASSUME NEW b \in Boots, NEW v \in Vms, StartVm(b, v)
      PROVE TypeOK' /\ ProcShape'
  BY <1>34, <1>i, SMTT(30) DEF StartVm
<1>35. ASSUME NEW b \in Boots, NEW c \in Boots, AgentAccepts(b, c)
      PROVE TypeOK' /\ ProcShape'
  <2>1. /\ accepting' \in [Boots -> MaybeBoot]
        /\ link' \in [Boots -> {"none", "open", "sent", "served", "closed"}]
    <3>1. CASE UNCHANGED accepting /\ link' = [link EXCEPT ![c] = "closed"]
      BY <1>i, <3>1
    <3>2. CASE UNCHANGED link /\ accepting' = [accepting EXCEPT ![b] = c]
      BY <1>i, <3>2
    <3> QED
      BY <1>35, <3>1, <3>2 DEF AgentAccepts
  <2>2. UNCHANGED <<boot, platform, process, peer, mux_store, inbound, instance, metrics,
                    reverse, commands>>
    BY <1>35 DEF AgentAccepts
  <2> QED
    BY <1>i, <2>1, <2>2
<1>36. ASSUME NEW b \in Boots, NEW c \in Boots, AgentCleansUp(b, c)
      PROVE TypeOK' /\ ProcShape'
  BY <1>36, <1>i DEF AgentCleansUp
<1>37. ASSUME NEW s \in Closers, NEW v \in Vms, StopVm(s, v)
      PROVE TypeOK' /\ ProcShape'
  <2>1. PlatformTypes'
    BY <1>37, <1>i, StopTypes DEF StopVm, PlatformTypes
  <2>2. /\ closer' = [closer EXCEPT ![s] = "cancel"]
        /\ closing' = [closing EXCEPT ![s] = v] /\ wish' = [wish EXCEPT ![v] = "stop"]
        /\ UNCHANGED <<boot, lock, fwToken, process, links, agent, instance, metrics,
                       reverse, vms>>
    BY <1>37 DEF StopVm
  <2> QED
    BY <1>i, <2>1, <2>2 DEF PlatformTypes
<1>38. ASSUME NEW s \in Closers, NEW v \in Vms, DeleteVm(s, v)
      PROVE TypeOK' /\ ProcShape'
  BY <1>38, <1>i DEF DeleteVm
<1>39. CASE UNCHANGED vars
  BY <1>39, <1>i DEF vars
<1> QED
  BY <1>1, <1>2, <1>3, <1>4, <1>5, <1>6, <1>7, <1>8, <1>9, <1>10, <1>11, <1>12,
     <1>13, <1>14, <1>15, <1>16, <1>17, <1>18, <1>19, <1>20, <1>21, <1>22, <1>23,
     <1>24, <1>25, <1>26, <1>27, <1>28, <1>29, <1>30, <1>31, <1>32, <1>33, <1>34,
     <1>35, <1>36, <1>37, <1>38, <1>39 DEF Next, SetupStep, MonitorStep
----------------------------------------------------------------------------
(* What a step does to the starts, the processes and their connections.    *)
core == <<bootVm, fwToken, proc, procToken, cid, links, agent, gateMux, reverse>>

(* Nothing.                                                                *)
Calm == UNCHANGED <<core, pc>>

(* It moves a start or a setup along.                                      *)
Moves(b, l) ==
  /\ pc[b] # "unused" /\ l \notin {"unused", "inject", "boot"}
  /\ l \in Early => pc[b] \in Early
  /\ l \in Uncounted => pc[b] \in Uncounted
  /\ l \in Counted => pc[b] \in Counted
  /\ pc' = [pc EXCEPT ![b] = l] /\ UNCHANGED core

(* It begins a start, stages its token, spawns its process, connects its   *)
(* setup, sends the token, registers its multiplexer.                      *)
Begins(b, v) ==
  /\ pc[b] = "unused" /\ bootVm' = [bootVm EXCEPT ![b] = v]
  /\ \E l \in {"inject", "failed"} : pc' = [pc EXCEPT ![b] = l]
  /\ UNCHANGED <<fwToken, proc, procToken, cid, links, agent, gateMux, reverse>>

Injects(b) ==
  /\ pc[b] = "inject" /\ fwToken' = [fwToken EXCEPT ![bootVm[b]] = b]
  /\ pc' = [pc EXCEPT ![b] = "boot"]
  /\ UNCHANGED <<bootVm, proc, procToken, cid, links, agent, gateMux, reverse>>

Spawns(b) ==
  /\ pc[b] = "boot" /\ pc' = [pc EXCEPT ![b] = "running"]
  /\ proc' = [proc EXCEPT ![b] = "alive"]
  /\ procToken' = [procToken EXCEPT ![b] = fwToken[bootVm[b]]]
  /\ UNCHANGED <<bootVm, fwToken, cid, links, agent, gateMux, reverse>>

Connects(b) ==
  /\ pc[b] = "accept" /\ pc' = [pc EXCEPT ![b] = "send"] /\ cid # None
  /\ peer' = [peer EXCEPT ![b] = cid] /\ link' = [link EXCEPT ![b] = "open"]
  /\ UNCHANGED <<bootVm, fwToken, proc, procToken, cid, agent, gateMux, reverse>>

Sends(b) ==
  /\ pc[b] = "send" /\ pc' = [pc EXCEPT ![b] = "mux"] /\ link[b] = "open"
  /\ link' = [link EXCEPT ![b] = "sent"]
  /\ UNCHANGED <<bootVm, fwToken, proc, procToken, cid, peer, agent, gateMux, reverse>>

Registers(b) ==
  /\ pc[b] = "gate" /\ pc' = [pc EXCEPT ![b] = "ports"]
  /\ gateMux' = [gateMux EXCEPT ![bootVm[b]] = b]
  /\ UNCHANGED <<bootVm, fwToken, proc, procToken, cid, links, agent, reverse>>

(* It counts a connection, or takes one off the count.                     *)
Counts(b) ==
  /\ pc[b] = "serve" /\ pc' = [pc EXCEPT ![b] = "ssh"]
  /\ connected' = connected + 1 /\ handlers' = handlers \cup {b}
  /\ UNCHANGED <<bootVm, fwToken, proc, procToken, cid, links, agent, gateMux>>

Uncounts(b) ==
  /\ b \in handlers /\ link[b] = "closed"
  /\ connected' = connected - 1 /\ handlers' = handlers \ {b}
  /\ UNCHANGED <<pc, bootVm, fwToken, proc, procToken, cid, links, agent, gateMux>>

(* A process gets the CID, or goes.                                        *)
Rises(n) ==
  /\ proc[n] = "alive" /\ cid' = n
  /\ UNCHANGED <<pc, bootVm, fwToken, proc, procToken, links, agent, gateMux, reverse>>

Exits(n) ==
  /\ proc[n] # "none" /\ Gone(n)
  /\ UNCHANGED <<pc, bootVm, fwToken, procToken, peer, gateMux, reverse>>

(* A connection is closed; the agent listens to one, serves it, refuses    *)
(* it, cleans up after it.                                                 *)
Closes(b) ==
  /\ link[b] # "none" /\ link' = [link EXCEPT ![b] = "closed"]
  /\ UNCHANGED <<pc, bootVm, fwToken, proc, procToken, cid, peer, agent, gateMux, reverse>>

Listens(n, b) ==
  /\ peer[b] = n /\ link[b] # "none" /\ mux_store[n] = None
  /\ accepting' = [accepting EXCEPT ![n] = b]
  /\ UNCHANGED <<pc, bootVm, fwToken, proc, procToken, cid, links, mux_store, inbound,
                 gateMux, reverse>>

Serves(n, b) ==
  /\ accepting[n] = b /\ link[b] = "sent" /\ b = procToken[n]
  /\ accepting' = [accepting EXCEPT ![n] = None]
  /\ link' = [link EXCEPT ![b] = "served"]
  /\ mux_store' = [mux_store EXCEPT ![n] = b]
  /\ inbound' = [inbound EXCEPT ![n] = @ \cup {b}]
  /\ UNCHANGED <<pc, bootVm, fwToken, proc, procToken, cid, peer, gateMux, reverse>>

Refuses(n, b) ==
  /\ accepting[n] = b
  /\ accepting' = [accepting EXCEPT ![n] = None]
  /\ link' = [link EXCEPT ![b] = "closed"]
  /\ UNCHANGED <<pc, bootVm, fwToken, proc, procToken, cid, peer, mux_store, inbound,
                 gateMux, reverse>>

Cleans(n, b) ==
  /\ b \in inbound[n]
  /\ inbound' = [inbound EXCEPT ![n] = @ \ {b}]
  /\ mux_store' = [mux_store EXCEPT ![n] = None]
  /\ UNCHANGED <<pc, bootVm, fwToken, proc, procToken, cid, links, accepting, gateMux, reverse>>

(* The gateway forgets the multiplexer of a VM.                            *)
Forgets(v) ==
  /\ gateMux' = [gateMux EXCEPT ![v] = None]
  /\ UNCHANGED <<pc, bootVm, fwToken, proc, procToken, cid, links, agent, reverse>>

Effect ==
  \/ Calm
  \/ \E b \in Boots :
       \/ \E l \in Pcs : Moves(b, l)
       \/ \E v \in Vms : Begins(b, v)
       \/ Injects(b) \/ Spawns(b) \/ Connects(b) \/ Sends(b) \/ Registers(b)
       \/ Counts(b) \/ Uncounts(b) \/ Rises(b) \/ Exits(b) \/ Closes(b)
       \/ \E n \in Boots : Listens(n, b) \/ Serves(n, b) \/ Refuses(n, b) \/ Cleans(n, b)
  \/ \E v \in Vms : Forgets(v)

(* Every step does one of these things.                                    *)
LEMMA LifeEffect == LifeInv /\ [Next]_vars => Effect
<1> SUFFICES ASSUME LifeInv, [Next]_vars PROVE Effect
  OBVIOUS
<1>i. /\ \A b \in Boots : pc[b] \in Pcs /\ accepting[b] \in MaybeBoot
      /\ \A b \in Boots : proc[b] \in {"none", "alive", "exited"}
      /\ \A s \in Closers : closer[s] # "idle" => closing[s] \in Vms
      /\ ProcShape
  BY DEF LifeInv, TypeOK, Types
<1> USE DEF Pcs, Early, Uncounted, Counted, core,
        boot, platform, process, links, agent, instance, metrics, reverse, commands,
        Goto, At, Unlocked, Step
<1>1. ASSUME NEW b \in Boots, InjectToken(b) PROVE Injects(b)
  BY <1>1, <1>i DEF InjectToken, Injects
<1>2. ASSUME NEW b \in Boots, StartPlatform(b)
      PROVE Spawns(b) \/ \E l \in Pcs : Moves(b, l)
  BY <1>2, <1>i DEF StartPlatform, Spawns, Moves
<1>3. ASSUME NEW b \in Boots, PlatformRunning(b) PROVE \E l \in Pcs : Moves(b, l)
  BY <1>3, <1>i DEF PlatformRunning, SpawnSetup, Moves
<1>4. ASSUME NEW b \in Boots, Accept(b) PROVE Connects(b) \/ \E l \in Pcs : Moves(b, l)
  BY <1>4, <1>i DEF Accept, Connects, Moves
<1>5. ASSUME NEW b \in Boots, SendToken(b) PROVE Sends(b) \/ \E l \in Pcs : Moves(b, l)
  BY <1>5, <1>i DEF SendToken, Sends, Moves
<1>6. ASSUME NEW b \in Boots, InstallMux(b) PROVE \E l \in Pcs : Moves(b, l)
  BY <1>6, <1>i DEF InstallMux, Moves
<1>7. ASSUME NEW b \in Boots, RegisterMux(b) PROVE Registers(b)
  BY <1>7, <1>i DEF RegisterMux, Registers
<1>8. ASSUME NEW b \in Boots, ApplyMappings(b) PROVE \E l \in Pcs : Moves(b, l)
  BY <1>8, <1>i DEF ApplyMappings, Moves
<1>9. ASSUME NEW b \in Boots, ServeReverse(b) PROVE Counts(b)
  BY <1>9, <1>i DEF ServeReverse, Counts
<1>10. ASSUME NEW b \in Boots, HandlerEnds(b) PROVE Uncounts(b)
  BY <1>10, <1>i DEF HandlerEnds, Uncounts
<1>11. ASSUME NEW b \in Boots, ConnectSsh(b) PROVE \E l \in Pcs : Moves(b, l)
  BY <1>11, <1>i DEF ConnectSsh, Moves
<1>12. ASSUME NEW b \in Boots, SetSshClient(b) PROVE \E l \in Pcs : Moves(b, l)
  BY <1>12, <1>i DEF SetSshClient, Moves
<1>13. ASSUME NEW b \in Boots, StartMetrics(b) PROVE \E l \in Pcs : Moves(b, l)
  BY <1>13, <1>i DEF StartMetrics, Moves
<1>14. ASSUME NEW b \in Boots, SpawnEmitter(b) PROVE \E l \in Pcs : Moves(b, l)
  BY <1>14, <1>i DEF SpawnEmitter, Moves
<1>15. ASSUME NEW b \in Boots, EmitterStarts(b) PROVE Calm
  BY <1>15, <1>i DEF EmitterStarts, Calm
<1>16. ASSUME NEW b \in Boots, EmitterEnds(b) PROVE Calm
  BY <1>16, <1>i DEF EmitterEnds, Calm
<1>17. ASSUME NEW b \in Boots, CollectorEnds(b) PROVE Calm
  BY <1>17, <1>i DEF CollectorEnds, Calm
<1>18. ASSUME NEW b \in Boots, GuestUp(b) PROVE Rises(b)
  BY <1>18, <1>i DEF GuestUp, Rises
<1>19. ASSUME NEW b \in Boots, ProcessExits(b) PROVE Exits(b)
  BY <1>19, <1>i DEF ProcessExits, Exits, ProcShape
<1>20. ASSUME NEW b \in Boots, MonitorWakes(b) PROVE Calm
  BY <1>20, <1>i DEF MonitorWakes, Calm
<1>21. ASSUME NEW b \in Boots, Killed(b) PROVE Exits(b)
  BY <1>21, <1>i DEF Killed, Exits, ProcShape
<1>22. ASSUME NEW b \in Boots, MonitorReports(b) PROVE Calm
  BY <1>22, <1>i DEF MonitorReports, Calm
<1>23. ASSUME NEW b \in Boots, AgentAuthenticates(b)
      PROVE \E c \in Boots : Serves(b, c) \/ Refuses(b, c)
  <2>1. accepting[b] \in Boots
    BY <1>23, <1>i DEF AgentAuthenticates, MaybeBoot
  <2>2. Serves(b, accepting[b]) \/ Refuses(b, accepting[b])
    BY <1>23 DEF AgentAuthenticates, Serves, Refuses
  <2> QED
    BY <2>1, <2>2
<1>24. ASSUME NEW b \in Boots, LinkBreaks(b) PROVE Closes(b)
  BY <1>24, <1>i DEF LinkBreaks, Closes
<1>25. ASSUME NEW s \in Closers, CancelMetrics(s) PROVE Calm
  BY <1>25, <1>i DEF CancelMetrics, Calm
<1>26. ASSUME NEW s \in Closers, RemoveMux(s)
      PROVE Forgets(closing[s]) /\ closing[s] \in Vms
  BY <1>26, <1>i DEF RemoveMux, Forgets
<1>27. ASSUME NEW s \in Closers, RemoveListeners(s) PROVE Calm
  BY <1>27, <1>i DEF RemoveListeners, Calm
<1>28. ASSUME NEW s \in Closers, ClearMux(s) PROVE Calm
  BY <1>28, <1>i DEF ClearMux, Calm
<1>29. ASSUME NEW s \in Closers, ClearSsh(s) PROVE Calm
  BY <1>29, <1>i DEF ClearSsh, Calm
<1>30. ASSUME NEW s \in Closers, DeletePlatform(s) PROVE Calm
  BY <1>30, <1>i DEF DeletePlatform, PlatformStop, Calm
<1>31. ASSUME NEW s \in Closers, DeleteRows(s) PROVE Calm
  BY <1>31, <1>i DEF DeleteRows, Calm
<1>32. ASSUME NEW v \in Vms, ChangeMapping(v) PROVE Calm
  BY <1>32, <1>i DEF ChangeMapping, Calm
<1>33. ASSUME NEW v \in Vms, InstanceDropped(v) PROVE Calm
  BY <1>33, <1>i DEF InstanceDropped, Calm
<1>34. ASSUME NEW b \in Boots, NEW v \in Vms, StartVm(b, v) PROVE Begins(b, v)
  BY <1>34, <1>i DEF StartVm, Begins
<1>35. ASSUME NEW b \in Boots, NEW c \in Boots, AgentAccepts(b, c)
      PROVE Closes(c) \/ Listens(b, c)
  BY <1>35, <1>i DEF AgentAccepts, Closes, Listens
<1>36. ASSUME NEW b \in Boots, NEW c \in Boots, AgentCleansUp(b, c) PROVE Cleans(b, c)
  BY <1>36, <1>i DEF AgentCleansUp, Cleans
<1>37. ASSUME NEW s \in Closers, NEW v \in Vms, StopVm(s, v) PROVE Calm
  BY <1>37, <1>i DEF StopVm, PlatformStop, Calm
<1>38. ASSUME NEW s \in Closers, NEW v \in Vms, DeleteVm(s, v) PROVE Calm
  BY <1>38, <1>i DEF DeleteVm, Calm
<1>39. CASE UNCHANGED vars
  <2>1. /\ UNCHANGED <<boot, links, agent, reverse>>
        /\ UNCHANGED <<fwToken, proc, procToken, cid, gateMux>>
    BY <1>39 DEF vars
  <2> QED
    BY <2>1 DEF Calm, Effect
<1> HIDE DEF Pcs, Early, Uncounted, Counted, core,
        boot, platform, process, links, agent, instance, metrics, reverse, commands,
        Goto, At, Unlocked, Step
<1> QED
  BY <1>1, <1>2, <1>3, <1>4, <1>5, <1>6, <1>7, <1>8, <1>9, <1>10, <1>11, <1>12,
     <1>13, <1>14, <1>15, <1>16, <1>17, <1>18, <1>19, <1>20, <1>21, <1>22, <1>23,
     <1>24, <1>25, <1>26, <1>27, <1>28, <1>29, <1>30, <1>31, <1>32, <1>33, <1>34,
     <1>35, <1>36, <1>37, <1>38, <1>39 DEF Next, SetupStep, MonitorStep, Effect
----------------------------------------------------------------------------
(* What happens to one start: it only goes forward, with its VM.           *)
Forward(x) ==
  /\ pc[x] # "unused" => pc'[x] # "unused" /\ bootVm'[x] = bootVm[x]
  /\ pc'[x] = "boot" => pc[x] = "boot" \/ Injects(x)
  /\ pc'[x] \in Early => pc[x] \in Early
  /\ pc'[x] \in Uncounted => pc[x] \in Uncounted
  /\ pc'[x] \in Counted => pc[x] \in Counted \/ Counts(x)

(* Every step moves every start forward.                                    *)
LEMMA StartsForward ==
  ASSUME LifeInv, Effect, NEW x \in Boots PROVE Forward(x)
<1>t. pc \in [Boots -> Pcs] /\ bootVm \in [Boots -> Vms \cup {NoVm}]
  BY DEF LifeInv, TypeOK, Types
<1>1. CASE Calm
  BY <1>1, <1>t DEF Calm, Forward, core, Early, Uncounted, Counted
<1>2. ASSUME NEW b \in Boots, NEW l \in Pcs, Moves(b, l) PROVE Forward(x)
  BY <1>2, <1>t DEF Moves, Forward, core, Early, Uncounted, Counted
<1>3. ASSUME NEW b \in Boots, NEW v \in Vms, Begins(b, v) PROVE Forward(x)
  BY <1>3, <1>t DEF Begins, Forward, core, Early, Uncounted, Counted
<1>4. ASSUME NEW b \in Boots, Injects(b) PROVE Forward(x)
  BY <1>4, <1>t DEF Injects, Forward, core, Early, Uncounted, Counted
<1>5. ASSUME NEW b \in Boots, Spawns(b) PROVE Forward(x)
  BY <1>5, <1>t DEF Spawns, Forward, core, Early, Uncounted, Counted
<1>6. ASSUME NEW b \in Boots, Connects(b) PROVE Forward(x)
  BY <1>6, <1>t DEF Connects, Forward, core, Early, Uncounted, Counted
<1>7. ASSUME NEW b \in Boots, Sends(b) PROVE Forward(x)
  BY <1>7, <1>t DEF Sends, Forward, core, Early, Uncounted, Counted
<1>8. ASSUME NEW b \in Boots, Registers(b) PROVE Forward(x)
  BY <1>8, <1>t DEF Registers, Forward, core, Early, Uncounted, Counted
<1>9. ASSUME NEW b \in Boots, Counts(b) PROVE Forward(x)
  BY <1>9, <1>t DEF Counts, Forward, core, Early, Uncounted, Counted
<1>10. ASSUME NEW b \in Boots, Uncounts(b) PROVE Forward(x)
  BY <1>10, <1>t DEF Uncounts, Forward, core, Early, Uncounted, Counted
<1>11. ASSUME NEW b \in Boots, Rises(b) PROVE Forward(x)
  BY <1>11, <1>t DEF Rises, Forward, core, Early, Uncounted, Counted
<1>12. ASSUME NEW b \in Boots, Exits(b) PROVE Forward(x)
  BY <1>12, <1>t DEF Exits, Forward, core, Early, Uncounted, Counted
<1>13. ASSUME NEW b \in Boots, Closes(b) PROVE Forward(x)
  BY <1>13, <1>t DEF Closes, Forward, core, Early, Uncounted, Counted
<1>14. ASSUME NEW n \in Boots, NEW b \in Boots, Listens(n, b) PROVE Forward(x)
  BY <1>14, <1>t DEF Listens, Forward, core, Early, Uncounted, Counted
<1>15. ASSUME NEW n \in Boots, NEW b \in Boots, Serves(n, b) PROVE Forward(x)
  BY <1>15, <1>t DEF Serves, Forward, core, Early, Uncounted, Counted
<1>16. ASSUME NEW n \in Boots, NEW b \in Boots, Refuses(n, b) PROVE Forward(x)
  BY <1>16, <1>t DEF Refuses, Forward, core, Early, Uncounted, Counted
<1>17. ASSUME NEW n \in Boots, NEW b \in Boots, Cleans(n, b) PROVE Forward(x)
  BY <1>17, <1>t DEF Cleans, Forward, core, Early, Uncounted, Counted
<1>18. ASSUME NEW v \in Vms, Forgets(v) PROVE Forward(x)
  BY <1>18, <1>t DEF Forgets, Forward, core, Early, Uncounted, Counted
<1> QED
  BY <1>1, <1>2, <1>3, <1>4, <1>5, <1>6, <1>7, <1>8, <1>9, <1>10, <1>11, <1>12,
     <1>13, <1>14, <1>15, <1>16, <1>17, <1>18 DEF Effect

(* A process keeps its token, and is never unmade.                         *)
Keeps(x) == proc[x] # "none" => proc'[x] # "none" /\ procToken'[x] = procToken[x]

(* Every step keeps the process of every start.                             *)
LEMMA ProcessKept ==
  ASSUME LifeInv, Effect, NEW x \in Boots PROVE Keeps(x)
<1>t. /\ proc \in [Boots -> {"none", "alive", "exited"}]
      /\ procToken \in [Boots -> MaybeBoot]
      /\ pc[x] = "boot" => proc[x] = "none"
  BY DEF LifeInv, TypeOK, Types, ProcShape
<1>1. CASE Calm
  BY <1>1, <1>t DEF Calm, Keeps, core
<1>2. ASSUME NEW b \in Boots, NEW l \in Pcs, Moves(b, l) PROVE Keeps(x)
  BY <1>2, <1>t DEF Moves, Keeps, core
<1>3. ASSUME NEW b \in Boots, NEW v \in Vms, Begins(b, v) PROVE Keeps(x)
  BY <1>3, <1>t DEF Begins, Keeps, core
<1>4. ASSUME NEW b \in Boots, Injects(b) PROVE Keeps(x)
  BY <1>4, <1>t DEF Injects, Keeps, core
<1>5. ASSUME NEW b \in Boots, Spawns(b) PROVE Keeps(x)
  BY <1>5, <1>t DEF Spawns, Keeps, core
<1>6. ASSUME NEW b \in Boots, Connects(b) PROVE Keeps(x)
  BY <1>6, <1>t DEF Connects, Keeps, core
<1>7. ASSUME NEW b \in Boots, Sends(b) PROVE Keeps(x)
  BY <1>7, <1>t DEF Sends, Keeps, core
<1>8. ASSUME NEW b \in Boots, Registers(b) PROVE Keeps(x)
  BY <1>8, <1>t DEF Registers, Keeps, core
<1>9. ASSUME NEW b \in Boots, Counts(b) PROVE Keeps(x)
  BY <1>9, <1>t DEF Counts, Keeps, core
<1>10. ASSUME NEW b \in Boots, Uncounts(b) PROVE Keeps(x)
  BY <1>10, <1>t DEF Uncounts, Keeps, core
<1>11. ASSUME NEW b \in Boots, Rises(b) PROVE Keeps(x)
  BY <1>11, <1>t DEF Rises, Keeps, core
<1>12. ASSUME NEW b \in Boots, Exits(b) PROVE Keeps(x)
  BY <1>12, <1>t DEF Exits, Keeps, core, Gone
<1>13. ASSUME NEW b \in Boots, Closes(b) PROVE Keeps(x)
  BY <1>13, <1>t DEF Closes, Keeps, core
<1>14. ASSUME NEW n \in Boots, NEW b \in Boots, Listens(n, b) PROVE Keeps(x)
  BY <1>14, <1>t DEF Listens, Keeps, core
<1>15. ASSUME NEW n \in Boots, NEW b \in Boots, Serves(n, b) PROVE Keeps(x)
  BY <1>15, <1>t DEF Serves, Keeps, core
<1>16. ASSUME NEW n \in Boots, NEW b \in Boots, Refuses(n, b) PROVE Keeps(x)
  BY <1>16, <1>t DEF Refuses, Keeps, core
<1>17. ASSUME NEW n \in Boots, NEW b \in Boots, Cleans(n, b) PROVE Keeps(x)
  BY <1>17, <1>t DEF Cleans, Keeps, core
<1>18. ASSUME NEW v \in Vms, Forgets(v) PROVE Keeps(x)
  BY <1>18, <1>t DEF Forgets, Keeps, core
<1> QED
  BY <1>1, <1>2, <1>3, <1>4, <1>5, <1>6, <1>7, <1>8, <1>9, <1>10, <1>11, <1>12,
     <1>13, <1>14, <1>15, <1>16, <1>17, <1>18 DEF Effect

(* A connection keeps its peer, is served only by Serves, and a closed one *)
(* stays closed.                                                           *)
Stays(x) ==
  /\ pc[x] \notin Early => peer'[x] = peer[x]
  /\ link'[x] = "served" => link[x] = "served" \/ \E n \in Boots : Serves(n, x)
  /\ pc[x] \notin Early /\ link[x] = "closed" => link'[x] = "closed"

(* Every step leaves the ends of every start's connection as said.          *)
LEMMA ConnectionStays ==
  ASSUME LifeInv, Effect, NEW x \in Boots PROVE Stays(x)
<1>t. /\ link \in [Boots -> {"none", "open", "sent", "served", "closed"}]
      /\ peer \in [Boots -> MaybeBoot]
  BY DEF LifeInv, TypeOK, Types
<1>1. CASE Calm
  BY <1>1, <1>t DEF Calm, Stays, core, links
<1>2. ASSUME NEW b \in Boots, NEW l \in Pcs, Moves(b, l) PROVE Stays(x)
  BY <1>2, <1>t DEF Moves, Stays, core, links
<1>3. ASSUME NEW b \in Boots, NEW v \in Vms, Begins(b, v) PROVE Stays(x)
  BY <1>3, <1>t DEF Begins, Stays, core, links
<1>4. ASSUME NEW b \in Boots, Injects(b) PROVE Stays(x)
  BY <1>4, <1>t DEF Injects, Stays, core, links
<1>5. ASSUME NEW b \in Boots, Spawns(b) PROVE Stays(x)
  BY <1>5, <1>t DEF Spawns, Stays, core, links
<1>6. ASSUME NEW b \in Boots, Connects(b) PROVE Stays(x)
  BY <1>6, <1>t DEF Connects, Stays, core, links, Early
<1>7. ASSUME NEW b \in Boots, Sends(b) PROVE Stays(x)
  BY <1>7, <1>t DEF Sends, Stays, core, links
<1>8. ASSUME NEW b \in Boots, Registers(b) PROVE Stays(x)
  BY <1>8, <1>t DEF Registers, Stays, core, links
<1>9. ASSUME NEW b \in Boots, Counts(b) PROVE Stays(x)
  BY <1>9, <1>t DEF Counts, Stays, core, links
<1>10. ASSUME NEW b \in Boots, Uncounts(b) PROVE Stays(x)
  BY <1>10, <1>t DEF Uncounts, Stays, core, links
<1>11. ASSUME NEW b \in Boots, Rises(b) PROVE Stays(x)
  BY <1>11, <1>t DEF Rises, Stays, core, links
<1>12. ASSUME NEW b \in Boots, Exits(b) PROVE Stays(x)
  BY <1>12, <1>t DEF Exits, Stays, core, links, Gone
<1>13. ASSUME NEW b \in Boots, Closes(b) PROVE Stays(x)
  BY <1>13, <1>t DEF Closes, Stays, core, links
<1>14. ASSUME NEW n \in Boots, NEW b \in Boots, Listens(n, b) PROVE Stays(x)
  BY <1>14, <1>t DEF Listens, Stays, core, links
<1>15. ASSUME NEW n \in Boots, NEW b \in Boots, Serves(n, b) PROVE Stays(x)
  BY <1>15, <1>t DEF Serves, Stays, core, links
<1>16. ASSUME NEW n \in Boots, NEW b \in Boots, Refuses(n, b) PROVE Stays(x)
  BY <1>16, <1>t DEF Refuses, Stays, core, links
<1>17. ASSUME NEW n \in Boots, NEW b \in Boots, Cleans(n, b) PROVE Stays(x)
  BY <1>17, <1>t DEF Cleans, Stays, core, links
<1>18. ASSUME NEW v \in Vms, Forgets(v) PROVE Stays(x)
  BY <1>18, <1>t DEF Forgets, Stays, core, links
<1> QED
  BY <1>1, <1>2, <1>3, <1>4, <1>5, <1>6, <1>7, <1>8, <1>9, <1>10, <1>11, <1>12,
     <1>13, <1>14, <1>15, <1>16, <1>17, <1>18 DEF Effect

----------------------------------------------------------------------------
(* Every step keeps the tokens with their VMs.                             *)
LEMMA TokensKept ==
  ASSUME LifeInv, TypeOK', Effect PROVE Tokens'
<1>t. /\ bootVm \in [Boots -> Vms \cup {NoVm}] /\ fwToken \in [Vms -> MaybeBoot]
      /\ proc \in [Boots -> {"none", "alive", "exited"}]
      /\ procToken \in [Boots -> MaybeBoot] /\ pc \in [Boots -> Pcs]
      /\ \A b \in Boots : pc[b] # "unused" => bootVm[b] \in Vms
      /\ \A n \in Boots : proc[n] # "none" => procToken[n] \in Boots /\ pc[n] # "unused"
      /\ ProcShape /\ Tokens /\ None \notin Boots
  BY LifeAssumption DEF LifeInv, TypeOK, Types
<1>f. \A b \in Boots : Forward(b) /\ Keeps(b)
  BY StartsForward, ProcessKept
<1>1. UNCHANGED fwToken \/ \E b \in Boots : Injects(b)
  BY DEF Effect, Calm, Moves, Begins, Spawns, Connects, Sends, Registers, Counts,
         Uncounts, Rises, Exits, Closes, Listens, Serves, Refuses, Cleans, Forgets, core
<1>2. ASSUME NEW v \in Vms
      PROVE  /\ fwToken[v] # None => fwToken'[v] # None
             /\ fwToken'[v] # None => pc'[fwToken'[v]] # "unused" /\ bootVm'[fwToken'[v]] = v
  <2>1. CASE UNCHANGED fwToken
    BY <1>t, <1>f, <2>1 DEF Tokens, Forward, MaybeBoot
  <2>2. ASSUME NEW b \in Boots, Injects(b)
        PROVE  /\ fwToken[v] # None => fwToken'[v] # None
               /\ fwToken'[v] # None => pc'[fwToken'[v]] # "unused" /\ bootVm'[fwToken'[v]] = v
    BY <1>t, <1>f, <2>2 DEF Tokens, Forward, MaybeBoot, Injects
  <2> QED
    BY <1>1, <2>1, <2>2
<1>3. ASSUME NEW b \in Boots, pc'[b] = "boot" PROVE fwToken'[bootVm'[b]] # None
  <2>1. CASE pc[b] = "boot"
    BY <1>t, <1>f, <1>2, <2>1 DEF Tokens, Forward
  <2>2. CASE Injects(b)
    BY <1>t, <2>2 DEF Injects
  <2> QED
    BY <1>3, <1>f, <2>1, <2>2 DEF Forward
<1>4. ASSUME NEW n \in Boots, proc'[n] # "none"
      PROVE  pc'[procToken'[n]] # "unused" /\ bootVm'[procToken'[n]] = bootVm'[n]
  <2>1. CASE proc[n] # "none"
    BY <1>t, <1>f, <2>1 DEF Tokens, Forward, Keeps
  <2>2. CASE proc[n] = "none"
    <3>1. Spawns(n)
      BY <1>4, <1>t, <2>2 DEF Effect, Calm, Moves, Begins, Injects, Spawns, Connects,
         Sends, Registers, Counts, Uncounts, Rises, Exits, Gone, Closes, Listens, Serves,
         Refuses, Cleans, Forgets, core
    <3> QED
      BY <1>t, <1>f, <3>1 DEF Tokens, Forward, Spawns, MaybeBoot
  <2> QED
    BY <2>1, <2>2
<1> QED
  BY <1>2, <1>3, <1>4 DEF Tokens

(* Every step keeps the connections with their processes.                  *)
LEMMA LinksKept ==
  ASSUME LifeInv, TypeOK', Effect PROVE Links'
<1>t. /\ link \in [Boots -> {"none", "open", "sent", "served", "closed"}]
      /\ peer \in [Boots -> MaybeBoot] /\ accepting \in [Boots -> MaybeBoot]
      /\ proc \in [Boots -> {"none", "alive", "exited"}] /\ cid \in MaybeBoot
      /\ pc \in [Boots -> Pcs] /\ ProcShape /\ Links /\ None \notin Boots
  BY LifeAssumption DEF LifeInv, TypeOK, Types
<1>f. \A b \in Boots : Forward(b) /\ Keeps(b) /\ Stays(b)
  BY StartsForward, ProcessKept, ConnectionStays
<1>1. ASSUME NEW b \in Boots
      PROVE  /\ peer'[b] = peer[b] \/ (Connects(b) /\ peer'[b] = cid)
             /\ pc[b] \in Early => link'[b] = link[b] \/ Connects(b)
             /\ link'[b] # "none" => link[b] # "none" \/ peer'[b] # None
  <2> DEFINE Fact == /\ peer'[b] = peer[b] \/ (Connects(b) /\ peer'[b] = cid)
                     /\ pc[b] \in Early => link'[b] = link[b] \/ Connects(b)
                     /\ link'[b] # "none" => link[b] # "none" \/ peer'[b] # None
  <2>1. CASE UNCHANGED links
    BY <2>1 DEF links
  <2>2. ASSUME NEW c \in Boots, Connects(c) PROVE Fact
    BY <1>t, <2>2 DEF Connects, MaybeBoot
  <2>3. ASSUME NEW c \in Boots, Sends(c) PROVE Fact
    BY <1>t, <2>3 DEF Sends, Early
  <2>4. ASSUME NEW n \in Boots, Exits(n) PROVE Fact
    BY <1>t, <2>4 DEF Exits, Gone, Links
  <2>5. ASSUME NEW c \in Boots, Closes(c) PROVE Fact
    BY <1>t, <2>5 DEF Closes, Links
  <2>6. ASSUME NEW n \in Boots, NEW c \in Boots, Serves(n, c) PROVE Fact
    BY <1>t, <2>6 DEF Serves, Links
  <2>7. ASSUME NEW n \in Boots, NEW c \in Boots, Refuses(n, c) PROVE Fact
    BY <1>t, <2>7 DEF Refuses, Links
  <2> QED
    BY <2>1, <2>2, <2>3, <2>4, <2>5, <2>6, <2>7 DEF Effect, Calm, Moves, Begins,
       Injects,
       Spawns, Registers, Counts, Uncounts, Rises, Listens, Cleans, Forgets, core
<1>2. ASSUME NEW b \in Boots
      PROVE  /\ pc'[b] \in Early => link'[b] = "none" /\ peer'[b] = None
             /\ link'[b] # "none" => peer'[b] # None
             /\ peer'[b] # None => proc'[peer'[b]] # "none"
  BY <1>1, <1>t, <1>f DEF Links, Forward, Keeps, Connects, Early, MaybeBoot
<1>3. cid' # None => proc'[cid'] = "alive"
  BY <1>t DEF Effect, Calm, Moves, Begins, Injects, Spawns, Connects, Sends, Registers,
       Counts, Uncounts, Rises, Exits, Gone, Closes, Listens, Serves, Refuses, Cleans,
       Forgets, core, links, Links, MaybeBoot
<1>4. ASSUME NEW n \in Boots, accepting'[n] # None
      PROVE  peer'[accepting'[n]] = n /\ pc'[accepting'[n]] \notin Early
  <2>1. accepting'[n] = accepting[n] \/ \E b \in Boots : Listens(n, b) /\ accepting'[n] = b
    BY <1>t, <1>4 DEF Effect, Calm, Moves, Begins, Injects, Spawns, Connects, Sends,
       Registers, Counts, Uncounts, Rises, Exits, Gone, Closes, Listens, Serves, Refuses,
       Cleans, Forgets, core, agent
  <2>2. CASE accepting'[n] = accepting[n]
    BY <1>t, <1>f, <1>4, <2>2 DEF Links, Forward, Stays, MaybeBoot
  <2>3. ASSUME NEW b \in Boots, Listens(n, b), accepting'[n] = b
        PROVE  peer'[accepting'[n]] = n /\ pc'[accepting'[n]] \notin Early
    BY <1>t, <1>f, <2>3 DEF Links, Forward, Stays, Listens, MaybeBoot
  <2> QED
    BY <2>1, <2>2, <2>3
<1> QED
  BY <1>2, <1>3, <1>4 DEF Links

(* Every step keeps what a served connection presented.                    *)
LEMMA AuthenticKept ==
  ASSUME LifeInv, Effect PROVE Authentic'
<1>t. /\ link \in [Boots -> {"none", "open", "sent", "served", "closed"}]
      /\ peer \in [Boots -> MaybeBoot] /\ accepting \in [Boots -> MaybeBoot]
      /\ Links /\ Authentic /\ None \notin Boots
  BY LifeAssumption DEF LifeInv, TypeOK, Types
<1>f. \A b \in Boots : Keeps(b) /\ Stays(b)
  BY ProcessKept, ConnectionStays
<1> SUFFICES ASSUME NEW b \in Boots, link'[b] = "served" PROVE procToken'[peer'[b]] = b
  BY DEF Authentic
<1>1. CASE link[b] = "served"
  BY <1>t, <1>f, <1>1 DEF Links, Authentic, Stays, Keeps, MaybeBoot
<1>2. ASSUME NEW n \in Boots, Serves(n, b) PROVE procToken'[peer'[b]] = b
  BY <1>t, <1>2 DEF Links, Serves
<1> QED
  BY <1>f, <1>1, <1>2 DEF Stays

(* Every step keeps the gateway's multiplexers with their VMs.             *)
LEMMA GateKept ==
  ASSUME LifeInv, Effect PROVE GateOwn'
<1>t. /\ gateMux \in [Vms -> MaybeBoot] /\ GateOwn /\ None \notin Boots
      /\ \A b \in Boots : pc[b] # "unused" => bootVm[b] \in Vms
  BY LifeAssumption DEF LifeInv, TypeOK, Types
<1>f. \A b \in Boots : Forward(b)
  BY StartsForward
<1> SUFFICES ASSUME NEW v \in Vms, gateMux'[v] # None
             PROVE  bootVm'[gateMux'[v]] = v /\ pc'[gateMux'[v]] # "unused"
  BY DEF GateOwn
<1>1. \/ gateMux'[v] = gateMux[v]
      \/ \E b \in Boots : pc[b] = "gate" /\ bootVm[b] = v /\ gateMux'[v] = b
  BY <1>t DEF Effect, Calm, Moves, Begins, Injects, Spawns, Connects, Sends, Registers,
       Counts, Uncounts, Rises, Exits, Closes, Listens, Serves, Refuses, Cleans, Forgets, core
<1>2. CASE gateMux'[v] = gateMux[v]
  BY <1>t, <1>f, <1>2 DEF GateOwn, Forward, MaybeBoot
<1>3. ASSUME NEW b \in Boots, pc[b] = "gate", bootVm[b] = v, gateMux'[v] = b
      PROVE  bootVm'[gateMux'[v]] = v /\ pc'[gateMux'[v]] # "unused"
  BY <1>f, <1>3 DEF Forward
<1> QED
  BY <1>1, <1>2, <1>3

(* Every step keeps the agent with one connection.                         *)
LEMMA ExclusiveKept ==
  ASSUME LifeInv, Effect PROVE Exclusive'
<1>t. /\ accepting \in [Boots -> MaybeBoot] /\ mux_store \in [Boots -> MaybeBoot]
      /\ inbound \in [Boots -> SUBSET Boots] /\ Exclusive /\ None \notin Boots
  BY LifeAssumption DEF LifeInv, TypeOK, Types
<1>u. USE DEF Exclusive, OneConnection
<1>1. CASE UNCHANGED agent
  BY <1>1, <1>t DEF agent
<1>2. ASSUME NEW n \in Boots, Exits(n) PROVE Exclusive'
  BY <1>2, <1>t DEF Exits, Gone
<1>3. ASSUME NEW n \in Boots, NEW b \in Boots, Listens(n, b) PROVE Exclusive'
  BY <1>3, <1>t DEF Listens
<1>4. ASSUME NEW n \in Boots, NEW b \in Boots, Serves(n, b) PROVE Exclusive'
  BY <1>4, <1>t DEF Serves
<1>5. ASSUME NEW n \in Boots, NEW b \in Boots, Refuses(n, b) PROVE Exclusive'
  BY <1>5, <1>t DEF Refuses
<1>6. ASSUME NEW n \in Boots, NEW b \in Boots, Cleans(n, b) PROVE Exclusive'
  BY <1>6, <1>t DEF Cleans
<1> QED
  BY <1>1, <1>2, <1>3, <1>4, <1>5, <1>6 DEF Effect, Calm, Moves, Begins, Injects,
     Spawns,
     Connects, Sends, Registers, Counts, Uncounts, Rises, Closes, Forgets, core

(* Every step keeps the count of the handlers.                             *)
LEMMA CountKept ==
  ASSUME LifeInv, TypeOK', Effect PROVE Count'
<1>t. /\ link \in [Boots -> {"none", "open", "sent", "served", "closed"}]
      /\ pc \in [Boots -> Pcs] /\ handlers \subseteq Boots /\ Count /\ Links
      /\ connected \in Nat
  BY DEF LifeInv, TypeOK, Types
<1>f. \A b \in Boots : Forward(b) /\ Stays(b)
  BY StartsForward, ConnectionStays
<1>g. IsFiniteSet(handlers)
  BY <1>t, LifeAssumption, FS_Subset
<1>1. UNCHANGED reverse \/ \E b \in Boots : Counts(b) \/ Uncounts(b)
  BY DEF Effect, Calm, Moves, Begins, Injects, Spawns, Connects, Sends, Registers,
       Rises, Exits, Closes, Listens, Serves, Refuses, Cleans, Forgets, core
<1>2. connected' = Cardinality(handlers')
  <2>1. ASSUME NEW b \in Boots, Counts(b) PROVE connected' = Cardinality(handlers')
    <3>1. b \notin handlers
      BY <1>t, <2>1 DEF Count, Counts, Uncounted
    <3> QED
      BY <1>g, <1>t, <2>1, <3>1, FS_AddElement DEF Count, Counts
  <2>2. ASSUME NEW b \in Boots, Uncounts(b) PROVE connected' = Cardinality(handlers')
    BY <1>g, <1>t, <2>2, FS_RemoveElement DEF Count, Uncounts
  <2>3. CASE UNCHANGED reverse
    BY <2>3, <1>t DEF reverse, Count
  <2> QED
    BY <1>1, <2>1, <2>2, <2>3
<1>3. ASSUME NEW x \in Boots
      PROVE  /\ pc'[x] \in Uncounted => x \notin handlers'
             /\ pc'[x] \in Counted /\ x \notin handlers' => link'[x] = "closed"
  <2>1. ASSUME NEW b \in Boots, Counts(b)
        PROVE  /\ pc'[x] \in Uncounted => x \notin handlers'
               /\ pc'[x] \in Counted /\ x \notin handlers' => link'[x] = "closed"
    BY <1>t, <2>1 DEF Count, Counts, Uncounted, Counted, Early, links
  <2>2. ASSUME NEW b \in Boots, Uncounts(b)
        PROVE  /\ pc'[x] \in Uncounted => x \notin handlers'
               /\ pc'[x] \in Counted /\ x \notin handlers' => link'[x] = "closed"
    BY <1>t, <2>2 DEF Count, Uncounts, links
  <2>3. CASE UNCHANGED reverse
    <3>1. /\ pc'[x] \in Uncounted => pc[x] \in Uncounted
          /\ pc'[x] \in Counted => pc[x] \in Counted \/ x \in handlers'
          /\ pc[x] \in Counted => pc[x] \notin Early
      BY <1>f DEF Forward, Counts, Counted, Early
    <3> QED
      BY <1>t, <1>f, <2>3, <3>1 DEF Count, Stays, reverse
  <2> QED
    BY <1>1, <2>1, <2>2, <2>3
<1> QED
  BY <1>2, <1>3 DEF Count

(* The invariant holds in every reachable state.                           *)
THEOREM LifeInvariant == Spec => []LifeInv
<1>1. Init => LifeInv
  BY LifeInit
<1>2. LifeInv /\ [Next]_vars => LifeInv'
  <2> SUFFICES ASSUME LifeInv, [Next]_vars PROVE LifeInv'
    OBVIOUS
  <2>1. TypeOK' /\ ProcShape'
    BY LifeTypes
  <2>2. Effect
    BY LifeEffect
  <2>3. Tokens' /\ Links' /\ Authentic' /\ GateOwn' /\ Exclusive' /\ Count'
    BY <2>1, <2>2, TokensKept, LinksKept, AuthenticKept, GateKept, ExclusiveKept,
       CountKept
  <2> QED
    BY <2>1, <2>3 DEF LifeInv
<1> QED
  BY <1>1, <1>2, PTL DEF Spec

(* The state of starts, setups, processes and agents keeps its types, and  *)
(* a live process has its monitor.                                         *)
THEOREM LifeTypeCorrect == Spec => []TypeOK
<1>1. LifeInv => TypeOK
  BY DEF LifeInv
<1> QED
  BY <1>1, LifeInvariant, PTL

(* Although all guests share a CID, no connection that an agent serves     *)
(* belongs to another VM than the agent's, whatever is started, stopped or *)
(* deleted in which order.                                                 *)
THEOREM NoCrossVmHolds == Spec => []NoCrossVm
<1>1. LifeInv => NoCrossVm
  <2> SUFFICES ASSUME LifeInv PROVE NoCrossVm
    OBVIOUS
  <2>t. /\ peer \in [Boots -> MaybeBoot] /\ gateMux \in [Vms -> MaybeBoot]
        /\ Tokens /\ Links /\ Authentic /\ GateOwn
    BY DEF LifeInv, TypeOK, Types
  <2>1. ASSUME NEW b \in Boots, link[b] = "served" PROVE bootVm[peer[b]] = bootVm[b]
    BY <2>t, <2>1 DEF Tokens, Links, Authentic, MaybeBoot
  <2>2. ASSUME NEW v \in Vms, gateMux[v] # None, link[gateMux[v]] = "served"
        PROVE  bootVm[peer[gateMux[v]]] = v
    BY <2>t, <2>1, <2>2 DEF GateOwn, MaybeBoot
  <2> QED
    BY <2>1, <2>2 DEF NoCrossVm
<1> QED
  BY <1>1, LifeInvariant, PTL

(* The agent never serves two connections, nor keeps a multiplexer whose   *)
(* connection has been cleaned up.                                         *)
THEOREM OneConnectionHolds == Spec => []OneConnection
<1>1. LifeInv => OneConnection
  BY DEF LifeInv, Exclusive
<1> QED
  BY <1>1, LifeInvariant, PTL

(* vsock_connected is the number of handlers, and not zero while a VM that *)
(* has been counted is served.                                             *)
THEOREM ConnectedCounted == Spec => []ConnectedCount
<1>1. LifeInv => ConnectedCount
  <2> SUFFICES ASSUME LifeInv PROVE ConnectedCount
    OBVIOUS
  <2>t. connected = Cardinality(handlers) /\ IsFiniteSet(handlers) /\ connected \in Nat
    BY LifeAssumption, FS_Subset DEF LifeInv, Count, TypeOK, Types
  <2>1. ASSUME NEW b \in Boots, link[b] = "served", pc[b] \in Counted
      PROVE connected > 0
    <3>1. b \in handlers
      BY <2>1 DEF LifeInv, Count
    <3>2. handlers # {}
      BY <3>1
    <3> QED
      BY <2>t, <3>2, FS_EmptySet
  <2> QED
    BY <2>t, <2>1 DEF ConnectedCount, Counted
<1> QED
  BY <1>1, LifeInvariant, PTL

(* The agent's links stay exclusive and counted, for any number of VMs,    *)
(* starts and stops.                                                       *)
THEOREM AgentLinksHold == Spec => []AgentLinks
<1>1. OneConnection /\ ConnectedCount => AgentLinks
  BY DEF AgentLinks
<1> QED
  BY <1>1, OneConnectionHolds, ConnectedCounted, PTL
=============================================================================
