-------------------------- MODULE PortGatewayProofs --------------------------
(***************************************************************************)
(* Theorems about the gateway, for any VMs, ports and number of callers.   *)
(*                                                                         *)
(* What matters of a step is what it does to the sockets: it stops a       *)
(* listener, spawns one, files a handle, drops an aborted task, or leaves  *)
(* all that alone.  StepEffect sorts the actions into these five; the      *)
(* invariant is proved for the five.                                       *)
(***************************************************************************)
EXTENDS PortGateway, TLAPS

(* The callers that have spawned a task and not filed its handle.          *)
InSpawn(c) == pc[c] \in {"insert", "ephMap", "ephInsert"}

(* Two tasks never hold a socket on the same port.                         *)
OneSocket ==
  \A t, u \in Tasks :
    taskState[t] # "free" /\ taskState[u] # "free" /\ taskPort[t] = taskPort[u] => t = u

(* A task in the hands of its spawner is live, on the port the spawner     *)
(* works on, in nobody else's hands and not in the table.                  *)
Fresh ==
  \A c \in Callers : InSpawn(c) =>
    /\ taskState[task[c]] = "live" /\ taskPort[task[c]] = port[c]
    /\ \A p \in HostPorts : listeners[p] # task[c]
    /\ \A d \in Callers : InSpawn(d) /\ task[d] = task[c] => d = c

(* A task that is not free has its port.                                   *)
Bound == \A t \in Tasks : taskState[t] # "free" => taskPort[t] \in HostPorts

SockInv == OneSocket /\ HandlesLive /\ Fresh /\ Tracked /\ Bound
GatewayInv == TypeOK /\ SockInv

(* The five things a step can do to sockets and handles.                   *)
OthersKeep(c) ==
  \A d \in Callers \ {c} : pc'[d] = pc[d] /\ task'[d] = task[d] /\ port'[d] = port[d]

Stops ==
  \E c \in Callers, p \in HostPorts :
    StopListener(p) /\ OthersKeep(c) /\ ~InSpawn(c) /\ ~InSpawn(c)'

Spawns ==
  \E c \in Callers, p \in HostPorts, t \in Tasks :
    /\ Free(p) /\ taskState[t] = "free"
    /\ taskState' = [taskState EXCEPT ![t] = "live"]
    /\ taskPort' = [taskPort EXCEPT ![t] = p]
    /\ OthersKeep(c) /\ ~InSpawn(c) /\ InSpawn(c)'
    /\ task'[c] = t /\ port'[c] = p /\ UNCHANGED listeners

Files ==
  \E c \in Callers :
    /\ InSpawn(c) /\ ~InSpawn(c)' /\ OthersKeep(c)
    /\ listeners' = [listeners EXCEPT ![port[c]] = task[c]]
    /\ UNCHANGED <<taskState, taskPort>>

Drops ==
  \E t \in Tasks :
    /\ taskState[t] = "aborted"
    /\ taskState' = [taskState EXCEPT ![t] = "free"]
    /\ taskPort' = [taskPort EXCEPT ![t] = NoPort]
    /\ UNCHANGED <<listeners, pc, task, port>>

Leaves ==
  /\ UNCHANGED <<listeners, taskState, taskPort>>
  /\ \A c \in Callers : InSpawn(c)' = InSpawn(c)
  /\ \A c \in Callers : InSpawn(c) => task'[c] = task[c] /\ port'[c] = port[c]

(* The initial state satisfies the invariant.                              *)
LEMMA GatewayInit == Init => GatewayInv
<1> SUFFICES ASSUME Init PROVE GatewayInv
  OBVIOUS
<1>1. Types /\ CallShape
  BY GatewayAssumption DEF Init, Types, CallShape, Pcs, Kinds
<1>2. overlapped \in BOOLEAN
  BY DEF Init
<1>3. SockInv
  BY GatewayAssumption
     DEF Init, SockInv, OneSocket, HandlesLive, Fresh, Tracked, Bound, InSpawn
<1>4. QED
  BY <1>1, <1>2, <1>3 DEF GatewayInv, TypeOK

(* Every step keeps the types of the tables and the shape of the calls.    *)
LEMMA ShapeStep == Types /\ CallShape /\ [Next]_vars => Types' /\ CallShape'
<1> SUFFICES ASSUME Types, CallShape, [Next]_vars PROVE Types' /\ CallShape'
  OBVIOUS
<1> USE GatewayAssumption DEF Types, CallShape, Pcs, Kinds
<1>1. ASSUME NEW c \in Callers, NEW p \in HostPorts, NEW x \in Targets,
             NEW k \in {"user", "setup", "callback"}, AddMapping(c, p, x, k)
      PROVE Types' /\ CallShape'
  BY <1>1 DEF AddMapping, Enter, Goto, tasks, world
<1>2. ASSUME NEW c \in Callers, NEW p \in HostPorts,
             NEW k \in {"user", "admin", "callback"}, RemoveMapping(c, p, k)
      PROVE Types' /\ CallShape'
  BY <1>2 DEF RemoveMapping, Enter, StopListener, Goto
<1>3. ASSUME NEW c \in Callers, NEW p \in HostPorts, NEW x \in Targets,
             EphemeralBind(c, x, p)
      PROVE Types' /\ CallShape'
  BY <1>3 DEF EphemeralBind, Enter, Spawn, Goto, world
<1>4. ASSUME NEW c \in Callers, NEW v \in Vms, CollectPorts(c, v) PROVE Types' /\ CallShape'
  BY <1>4 DEF CollectPorts, Enter, PortsOf, Goto, tasks, world, Targets
<1>5. ASSUME NEW c \in Callers, AddReuse(c) PROVE Types' /\ CallShape'
  BY <1>5 DEF AddReuse, Goto, tasks, world, args
<1>6. ASSUME NEW c \in Callers, AddStop(c) PROVE Types' /\ CallShape'
  BY <1>6 DEF AddStop, StopListener, Goto, world, args
<1>7. ASSUME NEW c \in Callers, AddBind(c) PROVE Types' /\ CallShape'
  BY <1>7, SMTT(30) DEF AddBind, Spawn, Return, Goto, tasks, world
<1>8. ASSUME NEW c \in Callers, AddInsert(c) PROVE Types' /\ CallShape'
  BY <1>8 DEF AddInsert, Goto, tasks, world, args
<1>9. ASSUME NEW c \in Callers, AddMap(c) PROVE Types' /\ CallShape'
  BY <1>9 DEF AddMap, Goto, tasks, world, args
<1>10. ASSUME NEW c \in Callers, RemoveMap(c) PROVE Types' /\ CallShape'
  BY <1>10 DEF RemoveMap, Goto, tasks, world, args
<1>11. ASSUME NEW c \in Callers, DrainPort(c) PROVE Types' /\ CallShape'
  BY <1>11 DEF DrainPort, StopListener, world
<1>12. ASSUME NEW c \in Callers, RetainOthers(c) PROVE Types' /\ CallShape'
  BY <1>12 DEF RetainOthers, Return, Goto, tasks, world
<1>13. ASSUME NEW c \in Callers, EphemeralMap(c) PROVE Types' /\ CallShape'
  BY <1>13 DEF EphemeralMap, Goto, tasks, world, args
<1>14. ASSUME NEW c \in Callers, EphemeralInsert(c) PROVE Types' /\ CallShape'
  BY <1>14 DEF EphemeralInsert, Return, Goto, tasks, world
<1>15. ASSUME NEW t \in Tasks, Reap(t) PROVE Types' /\ CallShape'
  BY <1>15 DEF Reap, world, args
<1>16. ASSUME NEW p \in HostPorts, Foreign(p) PROVE Types' /\ CallShape'
  BY <1>16 DEF Foreign, tasks, args
<1>17. ASSUME NEW c \in Callers, AfterAdd(c) PROVE Types' /\ CallShape'
  BY <1>17 DEF AfterAdd, Return, Goto, tasks
<1>18. ASSUME NEW c \in Callers, AfterRemove(c) PROVE Types' /\ CallShape'
  BY <1>18 DEF AfterRemove, Return, Goto, tasks
<1>19. CASE UNCHANGED vars
  BY <1>19 DEF vars
<1> QED
  BY <1>1, <1>2, <1>3, <1>4, <1>5, <1>6, <1>7, <1>8, <1>9, <1>10, <1>11, <1>12,
     <1>13, <1>14, <1>15, <1>16, <1>17, <1>18, <1>19 DEF Next

(* The whole of the type invariant.                                        *)
LEMMA GatewayTypes == TypeOK /\ [Next]_vars => TypeOK'
<1> SUFFICES ASSUME TypeOK, [Next]_vars PROVE TypeOK'
  OBVIOUS
<1>1. Types' /\ CallShape'
  BY ShapeStep DEF TypeOK
<1>2. overlapped' \in BOOLEAN
  <2>1. UNCHANGED overlapped \/ \E c \in Callers : Enter(c)
    <3>1. ASSUME NEW c \in Callers, NEW p \in HostPorts,
                 \/ \E x \in Targets, k \in {"user", "setup", "callback"} : AddMapping(c, p, x, k)
                 \/ \E k \in {"user", "admin", "callback"} : RemoveMapping(c, p, k)
                 \/ \E x \in Targets : EphemeralBind(c, x, p)
          PROVE  Enter(c)
      BY <3>1 DEF AddMapping, RemoveMapping, EphemeralBind
    <3>2. ASSUME NEW c \in Callers, NEW v \in Vms, CollectPorts(c, v) PROVE Enter(c)
      BY <3>2 DEF CollectPorts
    <3>3. ASSUME NEW c \in Callers,
                 AddReuse(c) \/ AddStop(c) \/ AddBind(c) \/ AddInsert(c) \/ AddMap(c) \/ AfterAdd(c)
          PROVE  UNCHANGED overlapped
      BY <3>3 DEF AddReuse, AddStop, AddBind, AddInsert, AddMap, AfterAdd, Return, args
    <3>4. ASSUME NEW c \in Callers,
                 \/ RemoveMap(c) \/ AfterRemove(c) \/ DrainPort(c) \/ RetainOthers(c)
                 \/ EphemeralMap(c) \/ EphemeralInsert(c)
          PROVE  UNCHANGED overlapped
      BY <3>4 DEF RemoveMap, AfterRemove, DrainPort, RetainOthers, EphemeralMap, EphemeralInsert, Return, args
    <3>5. ASSUME (\E t \in Tasks : Reap(t)) \/ \E p \in HostPorts : Foreign(p)
          PROVE  UNCHANGED overlapped
      BY <3>5 DEF Reap, Foreign, args
    <3>6. CASE UNCHANGED vars
      BY <3>6 DEF vars
    <3>7. QED
      BY <3>1, <3>2, <3>3, <3>4, <3>5, <3>6 DEF Next
  <2>2. QED
    BY <2>1 DEF Enter, TypeOK
<1>3. QED
  BY <1>1, <1>2 DEF TypeOK

(* Every step stops a listener, spawns one, files a handle, drops a task   *)
(* or leaves sockets and handles alone.                                    *)
LEMMA StepEffect ==
  TypeOK /\ [Next]_vars => Stops \/ Spawns \/ Files \/ Drops \/ Leaves
<1> SUFFICES ASSUME TypeOK, [Next]_vars
             PROVE  Stops \/ Spawns \/ Files \/ Drops \/ Leaves
  OBVIOUS
<1>t. /\ pc \in [Callers -> Pcs] /\ task \in [Callers -> Tasks \cup {NoTask}]
      /\ port \in [Callers -> HostPorts \cup {NoPort}] /\ CallShape
      /\ drain \in [Callers -> SUBSET HostPorts]
  BY DEF TypeOK, Types
<1>1. ASSUME NEW c \in Callers, NEW p \in HostPorts, NEW x \in Targets,
             NEW k \in {"user", "setup", "callback"}, AddMapping(c, p, x, k)
      PROVE Leaves
  BY <1>1, <1>t DEF AddMapping, Enter, Goto, tasks, Leaves, InSpawn
<1>2. ASSUME NEW c \in Callers, NEW p \in HostPorts,
             NEW k \in {"user", "admin", "callback"}, RemoveMapping(c, p, k)
      PROVE Stops
  BY <1>2, <1>t DEF RemoveMapping, Enter, Goto, Stops, InSpawn, OthersKeep
<1>3. ASSUME NEW c \in Callers, NEW p \in HostPorts, NEW x \in Targets,
             EphemeralBind(c, x, p)
      PROVE Spawns
  BY <1>3, <1>t DEF EphemeralBind, Enter, Spawn, Goto, Spawns, InSpawn, OthersKeep
<1>4. ASSUME NEW c \in Callers, NEW v \in Vms, CollectPorts(c, v) PROVE Leaves
  BY <1>4, <1>t DEF CollectPorts, Enter, Goto, tasks, Leaves, InSpawn
<1>5. ASSUME NEW c \in Callers, AddReuse(c) PROVE Leaves
  BY <1>5, <1>t DEF AddReuse, Goto, tasks, args, Leaves, InSpawn
<1>6. ASSUME NEW c \in Callers, AddStop(c) PROVE Stops
  BY <1>6, <1>t DEF AddStop, Goto, args, Stops, InSpawn, OthersKeep, CallShape
<1>7. ASSUME NEW c \in Callers, AddBind(c) PROVE Spawns \/ Leaves
  <2>1. CASE Free(port[c]) /\ Goto(c, "insert")
    BY <1>7, <2>1, <1>t
       DEF AddBind, Spawn, Goto, Return, Spawns, InSpawn, OthersKeep, CallShape
  <2>2. CASE ~Free(port[c]) /\ Return(c)
    BY <1>7, <2>2, <1>t DEF AddBind, Goto, Return, tasks, Leaves, InSpawn
  <2> QED BY <1>7, <2>1, <2>2 DEF AddBind
<1>8. ASSUME NEW c \in Callers, AddInsert(c) PROVE Files
  BY <1>8, <1>t DEF AddInsert, Goto, tasks, args, Files, InSpawn, OthersKeep
<1>9. ASSUME NEW c \in Callers, AddMap(c) PROVE Leaves
  BY <1>9, <1>t DEF AddMap, Goto, tasks, args, Leaves, InSpawn
<1>10. ASSUME NEW c \in Callers, RemoveMap(c) PROVE Leaves
  BY <1>10, <1>t DEF RemoveMap, Goto, tasks, args, Leaves, InSpawn
<1>11. ASSUME NEW c \in Callers, DrainPort(c) PROVE Stops
  BY <1>11, <1>t DEF DrainPort, Stops, InSpawn, OthersKeep
<1>12. ASSUME NEW c \in Callers, RetainOthers(c) PROVE Leaves
  BY <1>12, <1>t DEF RetainOthers, Return, Goto, tasks, Leaves, InSpawn
<1>13. ASSUME NEW c \in Callers, EphemeralMap(c) PROVE Leaves
  BY <1>13, <1>t DEF EphemeralMap, Goto, tasks, args, Leaves, InSpawn
<1>14. ASSUME NEW c \in Callers, EphemeralInsert(c) PROVE Files
  BY <1>14, <1>t DEF EphemeralInsert, Return, Goto, tasks, Files, InSpawn, OthersKeep
<1>15. ASSUME NEW t \in Tasks, Reap(t) PROVE Drops
  BY <1>15 DEF Reap, args, Drops
<1>16. ASSUME NEW p \in HostPorts, Foreign(p) PROVE Leaves
  BY <1>16 DEF Foreign, tasks, args, Leaves, InSpawn
<1>17. ASSUME NEW c \in Callers, AfterAdd(c) PROVE Leaves
  BY <1>17, <1>t DEF AfterAdd, Return, Goto, tasks, Leaves, InSpawn
<1>18. ASSUME NEW c \in Callers, AfterRemove(c) PROVE Leaves
  BY <1>18, <1>t DEF AfterRemove, Return, Goto, tasks, Leaves, InSpawn
<1>19. CASE UNCHANGED vars
  BY <1>19 DEF vars, Leaves, InSpawn
<1> QED
  BY <1>1, <1>2, <1>3, <1>4, <1>5, <1>6, <1>7, <1>8, <1>9, <1>10, <1>11, <1>12,
     <1>13, <1>14, <1>15, <1>16, <1>17, <1>18, <1>19 DEF Next

(* Types of what the invariant talks about.                                *)
SockTypes ==
  /\ listeners \in [HostPorts -> Tasks \cup {NoTask}]
  /\ taskState \in [Tasks -> {"free", "live", "aborted"}]
  /\ taskPort \in [Tasks -> HostPorts \cup {NoPort}]
  /\ \A c \in Callers : InSpawn(c) => port[c] \in HostPorts /\ task[c] \in Tasks

(* They are part of the type invariant.                                     *)
LEMMA SockTyped == TypeOK => SockTypes
BY DEF TypeOK, Types, CallShape, SockTypes, InSpawn

(* Stopping a listener keeps the invariant: the handle it takes is not     *)
(* that of a task somebody is still spawning.                              *)
LEMMA StopKeeps == SockTypes /\ SockInv /\ Stops => SockInv'
<1> SUFFICES ASSUME SockTypes, SockInv, Stops PROVE SockInv'
  OBVIOUS
<1> USE GatewayAssumption DEF SockTypes, SockInv
<1>0. PICK c \in Callers, p \in HostPorts :
        StopListener(p) /\ OthersKeep(c) /\ ~InSpawn(c) /\ ~InSpawn(c)'
  BY DEF Stops
<1>1. OneSocket'
  BY <1>0 DEF StopListener, OneSocket, HandlesLive
<1>2. HandlesLive'
  <2> SUFFICES ASSUME NEW r \in HostPorts, listeners'[r] # NoTask
               PROVE  taskState'[listeners'[r]] = "live" /\ taskPort'[listeners'[r]] = r
    BY DEF HandlesLive
  <2>1. r # p /\ listeners'[r] = listeners[r] /\ listeners[r] \in Tasks
    BY <1>0 DEF StopListener
  <2>2. taskState[listeners[r]] = "live" /\ taskPort[listeners[r]] = r
    BY <2>1 DEF HandlesLive
  <2>3. listeners[r] # listeners[p]
    BY <2>1, <2>2 DEF HandlesLive
  <2> QED BY <1>0, <2>1, <2>2, <2>3 DEF StopListener
<1>3. Fresh'
  <2> SUFFICES ASSUME NEW d \in Callers, InSpawn(d)'
               PROVE  /\ taskState'[task'[d]] = "live" /\ taskPort'[task'[d]] = port'[d]
                      /\ \A r \in HostPorts : listeners'[r] # task'[d]
                      /\ \A e \in Callers : InSpawn(e)' /\ task'[e] = task'[d] => e = d
    BY DEF Fresh
  <2>1. InSpawn(d) /\ task'[d] = task[d] /\ port'[d] = port[d] /\ task[d] \in Tasks
    BY <1>0 DEF OthersKeep, InSpawn
  <2>2. \A r \in HostPorts : listeners'[r] # task'[d]
    BY <1>0, <2>1 DEF StopListener, Fresh
  <2>3. taskState'[task'[d]] = "live" /\ taskPort'[task'[d]] = port'[d]
    BY <1>0, <2>1 DEF StopListener, Fresh
  <2>4. \A e \in Callers : InSpawn(e)' /\ task'[e] = task'[d] => e = d
    BY <1>0, <2>1 DEF OthersKeep, InSpawn, Fresh
  <2> QED BY <2>2, <2>3, <2>4
<1>4. Tracked'
  <2> SUFFICES ASSUME NEW t \in Tasks, taskState'[t] = "live"
               PROVE  \/ listeners'[taskPort'[t]] = t
                      \/ \E d \in Callers : Spawning(d, t)' /\ port'[d] = taskPort'[t]
    BY DEF Tracked
  <2>1. taskState[t] = "live" /\ taskPort'[t] = taskPort[t] /\ t # listeners[p]
    BY <1>0 DEF StopListener
  <2>2. CASE listeners[taskPort[t]] = t
    <3>1. taskPort[t] \in HostPorts
      BY <2>1 DEF Bound
    <3> QED BY <1>0, <2>1, <2>2, <3>1 DEF StopListener
  <2>3. ASSUME NEW d \in Callers, Spawning(d, t), port[d] = taskPort[t]
        PROVE  Spawning(d, t)' /\ port'[d] = taskPort'[t]
    BY <1>0, <2>1, <2>3 DEF Spawning, OthersKeep, InSpawn
  <2> QED BY <2>1, <2>2, <2>3 DEF Tracked
<1>5. Bound'
  BY <1>0 DEF StopListener, Bound, HandlesLive
<1> QED BY <1>1, <1>2, <1>3, <1>4, <1>5

(* Spawning a listener keeps the invariant: the operating system gave the  *)
(* port to nobody else, and the task is new to every table.                *)
LEMMA SpawnKeeps == SockTypes /\ SockInv /\ Spawns => SockInv'
<1> SUFFICES ASSUME SockTypes, SockInv, Spawns PROVE SockInv'
  OBVIOUS
<1> USE GatewayAssumption DEF SockTypes, SockInv
<1>0. PICK c \in Callers, p \in HostPorts, t \in Tasks :
        /\ Free(p) /\ taskState[t] = "free"
        /\ taskState' = [taskState EXCEPT ![t] = "live"]
        /\ taskPort' = [taskPort EXCEPT ![t] = p]
        /\ OthersKeep(c) /\ ~InSpawn(c) /\ InSpawn(c)'
        /\ task'[c] = t /\ port'[c] = p /\ UNCHANGED listeners
  BY DEF Spawns
<1>1. OneSocket'
  BY <1>0 DEF OneSocket, Free
<1>2. HandlesLive'
  BY <1>0 DEF HandlesLive
<1>n. \A r \in HostPorts : listeners[r] # t
  BY <1>0 DEF HandlesLive
<1>m. \A d \in Callers : InSpawn(d) => task[d] # t
  BY <1>0 DEF Fresh
<1>3. Fresh'
  <2> SUFFICES ASSUME NEW d \in Callers, InSpawn(d)'
               PROVE  /\ taskState'[task'[d]] = "live" /\ taskPort'[task'[d]] = port'[d]
                      /\ \A r \in HostPorts : listeners'[r] # task'[d]
                      /\ \A e \in Callers : InSpawn(e)' /\ task'[e] = task'[d] => e = d
    BY DEF Fresh
  <2>k. \A e \in Callers : e # c => /\ InSpawn(e)' = InSpawn(e) /\ task'[e] = task[e]
                                    /\ port'[e] = port[e]
    BY <1>0 DEF OthersKeep, InSpawn
  <2>1. CASE d = c
    BY <1>0, <1>n, <1>m, <2>1, <2>k
  <2>2. CASE d # c
    <3>1. InSpawn(d) /\ task'[d] = task[d] /\ port'[d] = port[d] /\ task[d] # t
      BY <2>2, <2>k, <1>m
    <3>2. /\ taskState[task[d]] = "live" /\ taskPort[task[d]] = port[d]
          /\ \A r \in HostPorts : listeners[r] # task[d]
          /\ \A e \in Callers : InSpawn(e) /\ task[e] = task[d] => e = d
      BY <3>1 DEF Fresh
    <3>3. \A e \in Callers : InSpawn(e)' /\ task'[e] = task'[d] => e = d
      BY <1>0, <3>1, <3>2, <2>k
    <3> QED BY <1>0, <3>1, <3>2, <3>3
  <2> QED BY <2>1, <2>2
<1>4. Tracked'
  <2> SUFFICES ASSUME NEW u \in Tasks, taskState'[u] = "live"
               PROVE  \/ listeners'[taskPort'[u]] = u
                      \/ \E d \in Callers : Spawning(d, u)' /\ port'[d] = taskPort'[u]
    BY DEF Tracked
  <2>1. CASE u = t
    BY <1>0, <2>1 DEF Spawning, InSpawn
  <2>2. CASE u # t
    <3>1. taskState[u] = "live" /\ taskPort'[u] = taskPort[u]
      BY <1>0, <2>2
    <3>2. ASSUME NEW d \in Callers, Spawning(d, u), port[d] = taskPort[u]
          PROVE  Spawning(d, u)' /\ port'[d] = taskPort'[u]
      BY <1>0, <3>1, <3>2 DEF Spawning, OthersKeep, InSpawn
    <3> QED BY <1>0, <3>1, <3>2 DEF Tracked
  <2> QED BY <2>1, <2>2
<1>5. Bound'
  BY <1>0 DEF Bound
<1> QED BY <1>1, <1>2, <1>3, <1>4, <1>5

(* Filing a handle keeps the invariant: no live task had that place in the *)
(* table, for it would hold a socket on the same port.                     *)
LEMMA FileKeeps == SockTypes /\ SockInv /\ Files => SockInv'
<1> SUFFICES ASSUME SockTypes, SockInv, Files PROVE SockInv'
  OBVIOUS
<1> USE GatewayAssumption DEF SockTypes, SockInv
<1>0. PICK c \in Callers :
        /\ InSpawn(c) /\ ~InSpawn(c)' /\ OthersKeep(c)
        /\ listeners' = [listeners EXCEPT ![port[c]] = task[c]]
        /\ UNCHANGED <<taskState, taskPort>>
  BY DEF Files
<1>f. /\ task[c] \in Tasks /\ port[c] \in HostPorts
      /\ taskState[task[c]] = "live" /\ taskPort[task[c]] = port[c]
      /\ \A d \in Callers : InSpawn(d) /\ task[d] = task[c] => d = c
  BY <1>0 DEF Fresh
<1>1. OneSocket' /\ Bound'
  BY <1>0 DEF OneSocket, Bound
<1>2. HandlesLive'
  BY <1>0, <1>f DEF HandlesLive
<1>3. Fresh'
  <2> SUFFICES ASSUME NEW d \in Callers, InSpawn(d)'
               PROVE  /\ taskState'[task'[d]] = "live" /\ taskPort'[task'[d]] = port'[d]
                      /\ \A r \in HostPorts : listeners'[r] # task'[d]
                      /\ \A e \in Callers : InSpawn(e)' /\ task'[e] = task'[d] => e = d
    BY DEF Fresh
  <2>1. InSpawn(d) /\ task'[d] = task[d] /\ port'[d] = port[d] /\ d # c
    BY <1>0 DEF OthersKeep, InSpawn
  <2>2. \A e \in Callers : InSpawn(e)' => InSpawn(e) /\ task'[e] = task[e]
    BY <1>0 DEF OthersKeep, InSpawn
  <2>3. task[d] # task[c]
    BY <1>f, <2>1
  <2>4. /\ taskState[task[d]] = "live" /\ taskPort[task[d]] = port[d]
        /\ \A r \in HostPorts : listeners[r] # task[d]
        /\ \A e \in Callers : InSpawn(e) /\ task[e] = task[d] => e = d
    BY <2>1 DEF Fresh
  <2> QED BY <1>0, <1>f, <2>1, <2>2, <2>3, <2>4
<1>4. Tracked'
  <2> SUFFICES ASSUME NEW u \in Tasks, taskState'[u] = "live"
               PROVE  \/ listeners'[taskPort'[u]] = u
                      \/ \E d \in Callers : Spawning(d, u)' /\ port'[d] = taskPort'[u]
    BY DEF Tracked
  <2>0. taskState[u] = "live" /\ taskPort'[u] = taskPort[u] /\ taskPort[u] \in HostPorts
    BY <1>0 DEF Bound
  <2>1. CASE taskPort[u] = port[c]
    <3>1. u = task[c]
      BY <2>0, <2>1, <1>f DEF OneSocket
    <3> QED BY <1>0, <1>f, <2>0, <3>1
  <2>2. CASE taskPort[u] # port[c]
    <3>1. ASSUME NEW d \in Callers, Spawning(d, u), port[d] = taskPort[u]
          PROVE  Spawning(d, u)' /\ port'[d] = taskPort'[u]
      BY <1>0, <2>0, <2>2, <3>1 DEF Spawning, OthersKeep, InSpawn
    <3> QED BY <1>0, <1>f, <2>0, <2>2, <3>1 DEF Tracked
  <2> QED BY <2>1, <2>2
<1> QED BY <1>1, <1>2, <1>3, <1>4

(* Dropping an aborted task keeps the invariant: no handle and no spawner  *)
(* refers to it.                                                           *)
LEMMA DropKeeps == SockTypes /\ SockInv /\ Drops => SockInv'
<1> SUFFICES ASSUME SockTypes, SockInv, Drops PROVE SockInv'
  OBVIOUS
<1> USE GatewayAssumption DEF SockTypes, SockInv
<1>0. PICK t \in Tasks :
        /\ taskState[t] = "aborted"
        /\ taskState' = [taskState EXCEPT ![t] = "free"]
        /\ taskPort' = [taskPort EXCEPT ![t] = NoPort]
        /\ UNCHANGED <<listeners, pc, task, port>>
  BY DEF Drops
<1>1. OneSocket' /\ Bound'
  BY <1>0 DEF OneSocket, Bound
<1>2. HandlesLive'
  BY <1>0 DEF HandlesLive
<1>3. Fresh'
  BY <1>0 DEF Fresh, InSpawn
<1>4. Tracked'
  BY <1>0 DEF Tracked, Spawning
<1> QED BY <1>1, <1>2, <1>3, <1>4

(* A step that leaves sockets and handles alone keeps the invariant.       *)
LEMMA LeaveKeeps == SockTypes /\ SockInv /\ Leaves => SockInv'
<1> SUFFICES ASSUME SockTypes, SockInv, Leaves PROVE SockInv'
  OBVIOUS
<1>1. OneSocket' /\ HandlesLive' /\ Bound'
  BY DEF Leaves, SockInv, OneSocket, HandlesLive, Bound
<1>2. Fresh'
  BY DEF Leaves, SockInv, Fresh
<1>3. Tracked'
  <2>1. \A d \in Callers, u \in Tasks : Spawning(d, u) => Spawning(d, u)' /\ port'[d] = port[d]
    BY DEF Leaves, Spawning, InSpawn
  <2> QED BY <2>1 DEF Leaves, SockInv, Tracked
<1> QED BY <1>1, <1>2, <1>3 DEF SockInv

(* The gateway's state keeps its types and its calls their shape.          *)
THEOREM GatewayTypeCorrect == Spec => []TypeOK
<1>1. Init => TypeOK
  BY GatewayInit DEF GatewayInv
<1> QED BY <1>1, GatewayTypes, PTL DEF Spec

(* Whatever the callers do at the same time, every handle in the table     *)
(* belongs to a live listener on its port, and every live listener can be  *)
(* stopped through the table or is about to be filed there.                *)
THEOREM GatewayInvariant == Spec => []GatewayInv
<1>1. GatewayInv /\ [Next]_vars => GatewayInv'
  BY GatewayTypes, StepEffect, SockTyped, StopKeeps, SpawnKeeps, FileKeeps,
     DropKeeps, LeaveKeeps DEF GatewayInv
<1> QED BY GatewayInit, <1>1, PTL DEF Spec

(* No interleaving of add_mapping, remove_mapping, remove_mappings_for_vm  *)
(* and add_mapping_ephemeral loses the handle of a listener.               *)
THEOREM ListenersTracked == Spec => []Tracked
<1>1. GatewayInv => Tracked
  BY DEF GatewayInv, SockInv
<1> QED BY GatewayInvariant, <1>1, PTL

(* The listener that add_mapping finds in the table and reuses is alive.   *)
THEOREM ReusedListenersLive == Spec => []HandlesLive
<1>1. GatewayInv => HandlesLive
  BY DEF GatewayInv, SockInv
<1> QED BY GatewayInvariant, <1>1, PTL

(* Handles and listener tasks stay one to one, for any number of callers,  *)
(* ports and listener tasks.                                               *)
THEOREM HandlesOneToOne == Spec => []HandlesTracked
<1>1. Tracked /\ HandlesLive => HandlesTracked
  BY DEF HandlesTracked
<1> QED BY ListenersTracked, ReusedListenersLive, <1>1, PTL

-----------------------------------------------------------------------------
(* The table of mappings                                                   *)

(* What the call of c has done so far agrees with what it has yet to do.   *)
CallAgrees(c) ==
  /\ pc[c] = "map" /\ listeners[port[c]] # NoTask => taskTarget[listeners[port[c]]] = target[c]
  /\ InSpawn(c) => taskTarget[task[c]] = target[c]
  /\ pc[c] = "ephInsert" => port_mapping[port[c]] = target[c]
  /\ pc[c] = "unmap" => listeners[port[c]] = NoTask
  /\ pc[c] = "drain" => \A p \in PortsOf(target[c][1]) \ drain[c] : listeners[p] = NoTask

(* A listener's port is mapped to where it forwards, or about to be.       *)
PortAgrees(p) ==
  listeners[p] # NoTask =>
    \/ port_mapping[p] = taskTarget[listeners[p]]
    \/ \E c \in Callers : pc[c] = "map" /\ port[c] = p

OneCall == \A c, d \in Callers : pc[c] # "idle" /\ pc[d] # "idle" => c = d

MapInv ==
  overlapped \/ (/\ OneCall
                 /\ \A c \in Callers : CallAgrees(c)
                 /\ \A p \in HostPorts : PortAgrees(p))

(* The only call there is takes a step.                                    *)
LEMMA LoneStep ==
  ASSUME NEW c \in Callers, \A d \in Callers : d # c => pc'[d] = "idle",
         CallAgrees(c)', \A p \in HostPorts : PortAgrees(p)'
  PROVE  MapInv'
<1>1. OneCall'
  BY DEF OneCall
<1>2. \A d \in Callers : d # c => CallAgrees(d)'
  BY DEF CallAgrees, InSpawn
<1>3. QED
  BY <1>1, <1>2 DEF MapInv

(* While no two calls have overlapped, a caller that is inside the gateway *)
(* is there alone, and so is one that enters it.                           *)
LEMMA Alone ==
  ASSUME MapInv, ~overlapped, NEW c \in Callers, pc[c] # "idle"
  PROVE  /\ \A d \in Callers : d # c => pc[d] = "idle"
         /\ CallAgrees(c) /\ \A p \in HostPorts : PortAgrees(p)
BY DEF MapInv, OneCall

(* A call that begins with no other under way finds mapping and listeners agreeing. *)
LEMMA Enters ==
  ASSUME MapInv, NEW c \in Callers, Enter(c), ~overlapped'
  PROVE  /\ ~overlapped /\ \A d \in Callers : pc[d] = "idle"
         /\ \A p \in HostPorts : listeners[p] # NoTask => port_mapping[p] = taskTarget[listeners[p]]
<1>1. ~overlapped /\ Idle
  BY DEF Enter
<1>2. \A d \in Callers : pc[d] = "idle"
  BY <1>1 DEF Idle
<1>3. QED
  BY <1>1, <1>2 DEF MapInv, PortAgrees

(* A spawner's port has no handle in the table.                            *)
LEMMA SpawnersPort ==
  ASSUME SockTypes, SockInv, NEW c \in Callers, InSpawn(c)
  PROVE  listeners[port[c]] = NoTask
<1>1. /\ port[c] \in HostPorts /\ task[c] \in Tasks
      /\ taskState[task[c]] = "live" /\ taskPort[task[c]] = port[c]
      /\ listeners[port[c]] # task[c] /\ listeners[port[c]] \in Tasks \cup {NoTask}
  BY DEF SockTypes, SockInv, Fresh
<1>2. SUFFICES ASSUME listeners[port[c]] # NoTask PROVE FALSE
  OBVIOUS
<1>3. taskState[listeners[port[c]]] = "live" /\ taskPort[listeners[port[c]]] = port[c]
  BY <1>1, <1>2 DEF SockInv, HandlesLive
<1>4. QED
  BY <1>1, <1>2, <1>3 DEF SockInv, OneSocket

(* The calls that begin.                                                   *)
LEMMA BeginMaps ==
  ASSUME TypeOK, SockInv, MapInv, ~overlapped', NEW c \in Callers,
         \/ \E p \in HostPorts, x \in Targets, k \in {"user", "setup", "callback"} : AddMapping(c, p, x, k)
         \/ \E p \in HostPorts, k \in {"user", "admin", "callback"} : RemoveMapping(c, p, k)
         \/ \E p \in HostPorts, x \in Targets : EphemeralBind(c, x, p)
         \/ \E v \in Vms : CollectPorts(c, v)
  PROVE  MapInv'
<1>t. Types
  BY DEF TypeOK
<1>0. Enter(c)
  BY DEF AddMapping, RemoveMapping, EphemeralBind, CollectPorts
<1>1. /\ ~overlapped /\ \A d \in Callers : pc[d] = "idle"
      /\ \A p \in HostPorts : listeners[p] # NoTask => port_mapping[p] = taskTarget[listeners[p]]
  BY <1>0, Enters
<1>2. ASSUME NEW p \in HostPorts, NEW x \in Targets, NEW k \in {"user", "setup", "callback"},
             AddMapping(c, p, x, k)
      PROVE  MapInv'
  <2>1. /\ UNCHANGED <<port_mapping, listeners, taskTarget>>
        /\ \A d \in Callers : d # c => pc'[d] = pc[d]
        /\ pc'[c] \in {"reuse", "stop"}
    BY <1>2, <1>t DEF AddMapping, Goto, tasks, Types
  <2>2. CallAgrees(c)'
    BY <2>1 DEF CallAgrees, InSpawn
  <2>3. \A q \in HostPorts : PortAgrees(q)'
    BY <1>1, <2>1 DEF PortAgrees
  <2>4. QED
    BY <1>1, <2>1, <2>2, <2>3, LoneStep
<1>3. ASSUME NEW p \in HostPorts, NEW k \in {"user", "admin", "callback"}, RemoveMapping(c, p, k)
      PROVE  MapInv'
  <2>1. /\ UNCHANGED <<port_mapping, taskTarget>>
        /\ \A d \in Callers : d # c => pc'[d] = pc[d]
        /\ pc'[c] = "unmap" /\ port'[c] = p
        /\ listeners' = [listeners EXCEPT ![p] = NoTask]
    BY <1>3, <1>t DEF RemoveMapping, Goto, StopListener, Types
  <2>2. listeners'[p] = NoTask /\ \A q \in HostPorts : q # p => listeners'[q] = listeners[q]
    BY <1>t, <2>1 DEF Types
  <2>3. CallAgrees(c)'
    BY <2>1, <2>2 DEF CallAgrees, InSpawn
  <2>4. \A q \in HostPorts : PortAgrees(q)'
    BY <1>1, <2>1, <2>2 DEF PortAgrees
  <2>5. QED
    BY <1>1, <2>1, <2>3, <2>4, LoneStep
<1>4. ASSUME NEW p \in HostPorts, NEW x \in Targets, EphemeralBind(c, x, p)
      PROVE  MapInv'
  <2>1. PICK t \in Tasks : Spawn(t, p, x) /\ task' = [task EXCEPT ![c] = t]
    BY <1>4 DEF EphemeralBind
  <2>2. /\ UNCHANGED <<port_mapping, listeners>>
        /\ \A d \in Callers : d # c => pc'[d] = pc[d]
        /\ pc'[c] = "ephMap" /\ target'[c] = x
    BY <1>4, <1>t DEF EphemeralBind, Goto, Types
  <2>3. /\ taskState[t] = "free" /\ taskTarget'[t] = x /\ task'[c] = t
        /\ \A u \in Tasks : u # t => taskTarget'[u] = taskTarget[u]
    BY <1>t, <2>1 DEF Spawn, Types
  <2>4. CallAgrees(c)'
    BY <2>2, <2>3 DEF CallAgrees, InSpawn
  <2>5. \A q \in HostPorts : listeners[q] # NoTask => listeners[q] \in Tasks /\ listeners[q] # t
    BY <1>t, <2>3 DEF SockInv, HandlesLive, Types
  <2>6. \A q \in HostPorts : PortAgrees(q)'
    BY <1>1, <2>2, <2>3, <2>5 DEF PortAgrees
  <2>7. QED
    BY <1>1, <2>2, <2>4, <2>6, LoneStep
<1>5. ASSUME NEW v \in Vms, CollectPorts(c, v) PROVE MapInv'
  <2>1. /\ UNCHANGED <<port_mapping, listeners, taskTarget>>
        /\ \A d \in Callers : d # c => pc'[d] = pc[d]
        /\ pc'[c] = "drain" /\ drain'[c] = PortsOf(v)
        /\ \E q \in VmPorts : target'[c] = <<v, q>>
    BY <1>5, <1>t DEF CollectPorts, Goto, tasks, Types
  <2>2. PortsOf(target[c][1])' = PortsOf(v)
    BY <2>1 DEF PortsOf
  <2>3. CallAgrees(c)'
    BY <2>1, <2>2 DEF CallAgrees, InSpawn
  <2>4. \A q \in HostPorts : PortAgrees(q)'
    BY <1>1, <2>1 DEF PortAgrees
  <2>5. QED
    BY <1>1, <2>1, <2>3, <2>4, LoneStep
<1>6. QED
  BY <1>2, <1>3, <1>4, <1>5

(* add_mapping: the listener before the mapping.                           *)
LEMMA AddMaps ==
  ASSUME TypeOK, SockInv, MapInv, ~overlapped', NEW c \in Callers,
         AddReuse(c) \/ AddStop(c) \/ AddBind(c) \/ AddInsert(c) \/ AddMap(c) \/ AfterAdd(c)
  PROVE  MapInv'
<1>t. Types /\ CallShape /\ SockTypes
  BY SockTyped DEF TypeOK
<1>0. pc[c] \notin {"idle", "drain", "unmap", "unsave"} /\ ~overlapped
  BY DEF AddReuse, AddStop, AddBind, AddInsert, AddMap, AfterAdd, Return, args
<1>1. /\ \A d \in Callers : d # c => pc[d] = "idle"
      /\ CallAgrees(c) /\ \A p \in HostPorts : PortAgrees(p)
  BY <1>0, Alone
<1>2. port[c] \in HostPorts /\ target[c] \in Targets
  BY <1>0, <1>t DEF CallShape
<1>3. \A p \in HostPorts : listeners[p] # NoTask =>
        port_mapping[p] = taskTarget[listeners[p]] \/ (pc[c] = "map" /\ port[c] = p)
  BY <1>1 DEF PortAgrees
<1>4. CASE AddReuse(c) \/ AfterAdd(c)
  <2>1. /\ UNCHANGED <<port_mapping, listeners, taskTarget>>
        /\ \A d \in Callers : d # c => pc'[d] = pc[d]
        /\ pc'[c] \in {"save", "stop", "idle"} /\ pc[c] # "map"
    BY <1>4, <1>t DEF AddReuse, AfterAdd, Return, Goto, tasks, Types
  <2>2. CallAgrees(c)'
    BY <2>1 DEF CallAgrees, InSpawn
  <2>3. \A q \in HostPorts : PortAgrees(q)'
    BY <1>3, <2>1 DEF PortAgrees
  <2>4. QED
    BY <1>1, <2>1, <2>2, <2>3, LoneStep
<1>5. CASE AddStop(c)
  <2>1. /\ UNCHANGED <<port_mapping, taskTarget>>
        /\ \A d \in Callers : d # c => pc'[d] = pc[d]
        /\ pc'[c] = "bind" /\ pc[c] # "map"
        /\ listeners' = [listeners EXCEPT ![port[c]] = NoTask]
    BY <1>5, <1>t DEF AddStop, Goto, StopListener, Types
  <2>2. \A q \in HostPorts : listeners'[q] = NoTask \/ listeners'[q] = listeners[q]
    BY <1>t, <2>1 DEF Types
  <2>3. CallAgrees(c)'
    BY <2>1 DEF CallAgrees, InSpawn
  <2>4. \A q \in HostPorts : PortAgrees(q)'
    BY <1>3, <2>1, <2>2 DEF PortAgrees
  <2>5. QED
    BY <1>1, <2>1, <2>3, <2>4, LoneStep
<1>6. CASE AddBind(c)
  <2>1. /\ UNCHANGED <<port_mapping, listeners>> /\ pc[c] = "bind"
        /\ \A d \in Callers : d # c => pc'[d] = pc[d]
    BY <1>6, <1>t DEF AddBind, Return, Goto, Types
  <2>2. CASE UNCHANGED taskTarget /\ pc'[c] = "idle"
    <3>1. CallAgrees(c)'
      BY <2>2 DEF CallAgrees, InSpawn
    <3>2. \A q \in HostPorts : PortAgrees(q)'
      BY <1>3, <2>1, <2>2 DEF PortAgrees
    <3>3. QED
      BY <1>1, <2>1, <3>1, <3>2, LoneStep
  <2>3. ASSUME NEW t \in Tasks, Spawn(t, port[c], target[c]), task' = [task EXCEPT ![c] = t],
               Goto(c, "insert"), UNCHANGED target
        PROVE  MapInv'
    <3>1. /\ taskState[t] = "free" /\ taskTarget'[t] = target[c] /\ task'[c] = t
          /\ \A u \in Tasks : u # t => taskTarget'[u] = taskTarget[u]
      BY <1>t, <2>3 DEF Spawn, Types
    <3>2. pc'[c] = "insert"
      BY <1>t, <2>3 DEF Goto, Types
    <3>3. CallAgrees(c)'
      BY <2>3, <3>1, <3>2 DEF CallAgrees, InSpawn
    <3>4. \A q \in HostPorts : listeners[q] # NoTask => listeners[q] \in Tasks /\ listeners[q] # t
      BY <1>t, <3>1 DEF SockInv, HandlesLive, Types
    <3>5. \A q \in HostPorts : PortAgrees(q)'
      BY <1>3, <2>1, <3>1, <3>4 DEF PortAgrees
    <3>6. QED
      BY <1>1, <2>1, <3>3, <3>5, LoneStep
  <2>4. CASE ~Free(port[c]) /\ Return(c) /\ UNCHANGED tasks
    BY <1>t, <2>2, <2>4 DEF Return, Goto, tasks, Types
  <2>5. QED
    BY <1>6, <2>3, <2>4 DEF AddBind
<1>7. CASE AddInsert(c)
  <2>1. /\ UNCHANGED <<port_mapping, taskTarget, port, target>> /\ InSpawn(c)
        /\ \A d \in Callers : d # c => pc'[d] = pc[d]
        /\ pc'[c] = "map" /\ listeners' = [listeners EXCEPT ![port[c]] = task[c]]
    BY <1>7, <1>t DEF AddInsert, Goto, tasks, args, Types, InSpawn
  <2>2. listeners'[port[c]] = task[c] /\ \A q \in HostPorts : q # port[c] => listeners'[q] = listeners[q]
    BY <1>2, <1>t, <2>1 DEF Types
  <2>3. CallAgrees(c)'
    BY <1>1, <2>1, <2>2 DEF CallAgrees, InSpawn
  <2>4. \A q \in HostPorts : PortAgrees(q)'
    BY <1>3, <2>1, <2>2 DEF PortAgrees, InSpawn
  <2>5. QED
    BY <1>1, <2>1, <2>3, <2>4, LoneStep
<1>8. CASE AddMap(c)
  <2>1. /\ UNCHANGED <<listeners, taskTarget>> /\ pc[c] = "map"
        /\ \A d \in Callers : d # c => pc'[d] = pc[d]
        /\ pc'[c] = "save" /\ port_mapping' = [port_mapping EXCEPT ![port[c]] = target[c]]
    BY <1>8, <1>t DEF AddMap, Goto, tasks, Types
  <2>2. /\ port_mapping'[port[c]] = target[c]
        /\ \A q \in HostPorts : q # port[c] => port_mapping'[q] = port_mapping[q]
    BY <1>2, <1>t, <2>1 DEF Types
  <2>3. CallAgrees(c)'
    BY <2>1 DEF CallAgrees, InSpawn
  <2>4. listeners[port[c]] # NoTask => taskTarget[listeners[port[c]]] = target[c]
    BY <1>1, <2>1 DEF CallAgrees
  <2>5. \A q \in HostPorts : PortAgrees(q)'
    BY <1>3, <2>1, <2>2, <2>4 DEF PortAgrees
  <2>6. QED
    BY <1>1, <2>1, <2>3, <2>5, LoneStep
<1>9. QED
  BY <1>4, <1>5, <1>6, <1>7, <1>8

(* remove_mapping, remove_mappings_for_vm and add_mapping_ephemeral.       *)
LEMMA OtherMaps ==
  ASSUME TypeOK, SockInv, MapInv, ~overlapped', NEW c \in Callers,
         \/ RemoveMap(c) \/ AfterRemove(c) \/ DrainPort(c) \/ RetainOthers(c)
         \/ EphemeralMap(c) \/ EphemeralInsert(c)
  PROVE  MapInv'
<1>t. Types /\ CallShape /\ SockTypes
  BY SockTyped DEF TypeOK
<1>0. pc[c] \notin {"idle", "map"} /\ ~overlapped
  BY DEF RemoveMap, AfterRemove, DrainPort, RetainOthers, EphemeralMap, EphemeralInsert, Return, args
<1>1. /\ \A d \in Callers : d # c => pc[d] = "idle"
      /\ CallAgrees(c) /\ \A p \in HostPorts : PortAgrees(p)
  BY <1>0, Alone
<1>2. \A p \in HostPorts : listeners[p] # NoTask => port_mapping[p] = taskTarget[listeners[p]]
  BY <1>0, <1>1 DEF PortAgrees
<1>3. pc[c] # "drain" => port[c] \in HostPorts
  BY <1>0, <1>t DEF CallShape
<1>4. CASE RemoveMap(c)
  <2>1. /\ UNCHANGED <<listeners, taskTarget>> /\ pc[c] = "unmap"
        /\ \A d \in Callers : d # c => pc'[d] = pc[d]
        /\ pc'[c] = "unsave" /\ port_mapping' = [port_mapping EXCEPT ![port[c]] = NoTarget]
    BY <1>4, <1>t DEF RemoveMap, Goto, tasks, Types
  <2>2. \A q \in HostPorts : q # port[c] => port_mapping'[q] = port_mapping[q]
    BY <1>t, <2>1 DEF Types
  <2>3. listeners[port[c]] = NoTask
    BY <1>1, <2>1 DEF CallAgrees
  <2>4. CallAgrees(c)'
    BY <2>1 DEF CallAgrees, InSpawn
  <2>5. \A q \in HostPorts : PortAgrees(q)'
    BY <1>2, <2>1, <2>2, <2>3 DEF PortAgrees
  <2>6. QED
    BY <1>1, <2>1, <2>4, <2>5, LoneStep
<1>5. CASE AfterRemove(c)
  <2>1. /\ UNCHANGED <<port_mapping, listeners, taskTarget>>
        /\ \A d \in Callers : d # c => pc'[d] = pc[d]
        /\ pc'[c] = "idle"
    BY <1>5, <1>t DEF AfterRemove, Return, Goto, tasks, Types
  <2>2. CallAgrees(c)'
    BY <2>1 DEF CallAgrees, InSpawn
  <2>3. \A q \in HostPorts : PortAgrees(q)'
    BY <1>2, <2>1 DEF PortAgrees
  <2>4. QED
    BY <1>1, <2>1, <2>2, <2>3, LoneStep
<1>6. CASE DrainPort(c)
  <2>1. PICK p \in drain[c] : StopListener(p) /\ drain' = [drain EXCEPT ![c] = drain[c] \ {p}]
    BY <1>6 DEF DrainPort
  <2>2. /\ UNCHANGED <<port_mapping, taskTarget, pc, target>> /\ pc[c] = "drain"
        /\ listeners' = [listeners EXCEPT ![p] = NoTask]
    BY <1>6, <2>1 DEF DrainPort, StopListener
  <2>3. drain'[c] = drain[c] \ {p} /\ p \in HostPorts
    BY <1>t, <2>1 DEF Types
  <2>4. listeners'[p] = NoTask /\ \A q \in HostPorts : q # p => listeners'[q] = listeners[q]
    BY <1>t, <2>2, <2>3 DEF Types
  <2>5. PortsOf(target[c][1])' = PortsOf(target[c][1]) /\ PortsOf(target[c][1]) \subseteq HostPorts
    BY <2>2 DEF PortsOf
  <2>6. \A q \in PortsOf(target[c][1]) \ drain[c] : listeners[q] = NoTask
    BY <1>1, <2>2 DEF CallAgrees
  <2>7. CallAgrees(c)'
    BY <2>2, <2>3, <2>4, <2>5, <2>6 DEF CallAgrees, InSpawn
  <2>8. \A q \in HostPorts : PortAgrees(q)'
    BY <1>2, <2>2, <2>4 DEF PortAgrees
  <2>9. QED
    BY <1>1, <2>2, <2>7, <2>8, LoneStep
<1>7. CASE RetainOthers(c)
  <2>1. /\ UNCHANGED <<listeners, taskTarget>> /\ pc[c] = "drain" /\ drain[c] = {}
        /\ \A d \in Callers : d # c => pc'[d] = pc[d]
        /\ pc'[c] = "idle"
    BY <1>7, <1>t DEF RetainOthers, Return, Goto, tasks, Types
  <2>2. \A q \in HostPorts : q \in PortsOf(target[c][1]) \/ port_mapping'[q] = port_mapping[q]
    BY <1>7 DEF RetainOthers
  <2>3. \A q \in PortsOf(target[c][1]) : listeners[q] = NoTask
    BY <1>1, <2>1 DEF CallAgrees
  <2>4. CallAgrees(c)'
    BY <2>1 DEF CallAgrees, InSpawn
  <2>5. \A q \in HostPorts : PortAgrees(q)'
    BY <1>2, <2>1, <2>2, <2>3 DEF PortAgrees
  <2>6. QED
    BY <1>1, <2>1, <2>4, <2>5, LoneStep
<1>8. CASE EphemeralMap(c)
  <2>1. /\ UNCHANGED <<listeners, taskTarget, port, target, task>> /\ InSpawn(c) /\ pc[c] # "drain"
        /\ \A d \in Callers : d # c => pc'[d] = pc[d]
        /\ pc'[c] = "ephInsert" /\ port_mapping' = [port_mapping EXCEPT ![port[c]] = target[c]]
    BY <1>8, <1>t DEF EphemeralMap, Goto, tasks, args, Types, InSpawn
  <2>2. /\ port_mapping'[port[c]] = target[c]
        /\ \A q \in HostPorts : q # port[c] => port_mapping'[q] = port_mapping[q]
    BY <1>3, <1>t, <2>1 DEF Types
  <2>3. listeners[port[c]] = NoTask
    BY <1>t, <2>1, SpawnersPort
  <2>4. CallAgrees(c)'
    BY <1>1, <2>1, <2>2 DEF CallAgrees, InSpawn
  <2>5. \A q \in HostPorts : PortAgrees(q)'
    BY <1>2, <2>1, <2>2, <2>3 DEF PortAgrees
  <2>6. QED
    BY <1>1, <2>1, <2>4, <2>5, LoneStep
<1>9. CASE EphemeralInsert(c)
  <2>1. /\ UNCHANGED <<port_mapping, taskTarget>> /\ pc[c] = "ephInsert"
        /\ \A d \in Callers : d # c => pc'[d] = pc[d]
        /\ pc'[c] = "idle" /\ listeners' = [listeners EXCEPT ![port[c]] = task[c]]
    BY <1>9, <1>t DEF EphemeralInsert, Return, Goto, tasks, Types
  <2>2. listeners'[port[c]] = task[c] /\ \A q \in HostPorts : q # port[c] => listeners'[q] = listeners[q]
    BY <1>3, <1>t, <2>1 DEF Types
  <2>3. port_mapping[port[c]] = taskTarget[task[c]]
    BY <1>1, <2>1 DEF CallAgrees, InSpawn
  <2>4. CallAgrees(c)'
    BY <2>1 DEF CallAgrees, InSpawn
  <2>5. \A q \in HostPorts : PortAgrees(q)'
    BY <1>2, <2>1, <2>2, <2>3 DEF PortAgrees
  <2>6. QED
    BY <1>1, <2>1, <2>4, <2>5, LoneStep
<1>10. QED
  BY <1>4, <1>5, <1>6, <1>7, <1>8, <1>9

(* Reap: the task that is dropped is nobody's.                             *)
LEMMA ReapMaps ==
  ASSUME TypeOK, SockInv, MapInv, NEW t \in Tasks, Reap(t)
  PROVE  MapInv'
<1>t. Types /\ SockTypes
  BY SockTyped DEF TypeOK
<1>1. /\ UNCHANGED <<port_mapping, listeners, pc, port, target, task, drain, overlapped>>
      /\ taskState[t] = "aborted" /\ \A u \in Tasks : u # t => taskTarget'[u] = taskTarget[u]
  BY <1>t DEF Reap, args, Types
<1>2. \A q \in HostPorts : listeners[q] # NoTask => taskTarget'[listeners[q]] = taskTarget[listeners[q]]
  <2>1. \A q \in HostPorts : listeners[q] # NoTask => listeners[q] \in Tasks /\ listeners[q] # t
    BY <1>t, <1>1 DEF SockInv, HandlesLive, Types
  <2>2. QED
    BY <1>1, <2>1
<1>3. \A c \in Callers : InSpawn(c) => task[c] \in Tasks /\ task[c] # t
  BY <1>t, <1>1 DEF SockTypes, SockInv, Fresh
<1>4. \A v : PortsOf(v)' = PortsOf(v)
  BY <1>1 DEF PortsOf
<1>5. \A c \in Callers : pc[c] = "map" => port[c] \in HostPorts
  BY DEF TypeOK, CallShape
<1>6. \A c \in Callers : CallAgrees(c) => CallAgrees(c)'
  <2>1. SUFFICES ASSUME NEW c \in Callers, CallAgrees(c) PROVE CallAgrees(c)'
    OBVIOUS
  <2>2. pc'[c] = "map" /\ listeners'[port'[c]] # NoTask => taskTarget'[listeners'[port'[c]]] = target'[c]
    BY <1>1, <1>2, <1>5, <2>1 DEF CallAgrees
  <2>3. InSpawn(c)' => taskTarget'[task'[c]] = target'[c]
    BY <1>1, <1>3, <2>1 DEF CallAgrees, InSpawn
  <2>4. PortsOf(target[c][1])' = PortsOf(target[c][1])
    BY <1>1 DEF PortsOf
  <2>5. QED
    BY <1>1, <2>1, <2>2, <2>3, <2>4 DEF CallAgrees
<1>7. \A q \in HostPorts : PortAgrees(q) => PortAgrees(q)'
  BY <1>1, <1>2 DEF PortAgrees
<1>8. QED
  BY <1>1, <1>6, <1>7 DEF MapInv, OneCall

(* The invariant of the table of mappings.                                 *)
LEMMA MapStep == TypeOK /\ SockInv /\ MapInv /\ [Next]_vars => MapInv'
<1> SUFFICES ASSUME TypeOK, SockInv, MapInv, [Next]_vars PROVE MapInv'
  OBVIOUS
<1>1. CASE overlapped'
  BY <1>1 DEF MapInv
<1>2. CASE ~overlapped'
  <2>1. ASSUME UNCHANGED <<port_mapping, listeners, taskTarget, pc, port, target, task, drain, overlapped>>
        PROVE  MapInv'
    BY <2>1 DEF MapInv, OneCall, CallAgrees, PortAgrees, InSpawn, PortsOf
  <2>2. CASE UNCHANGED vars
    BY <2>1, <2>2 DEF vars
  <2>3. ASSUME NEW p \in HostPorts, Foreign(p) PROVE MapInv'
    BY <2>1, <2>3 DEF Foreign, tasks, args
  <2>4. QED
    BY <1>2, <2>2, <2>3, BeginMaps, AddMaps, OtherMaps, ReapMaps DEF Next
<1>3. QED
  BY <1>1, <1>2

(* Between calls, a port on which the gateway listens is mapped, and to    *)
(* the place its listener forwards to, after any sequence of calls of      *)
(* which no two overlapped, for any VMs, ports and callers.                *)
THEOREM PortsAreMapped == Spec => []MappedBetweenCalls
<1>1. Init => MapInv
  BY DEF Init, MapInv, OneCall, CallAgrees, PortAgrees, InSpawn
<1>2. MapInv => MappedBetweenCalls
  BY DEF MapInv, MappedBetweenCalls, Idle, PortAgrees
<1>3. GatewayInv /\ MapInv /\ [Next]_vars => MapInv'
  BY MapStep DEF GatewayInv
<1>4. QED
  BY <1>1, <1>2, <1>3, GatewayInvariant, PTL DEF Spec
=============================================================================
