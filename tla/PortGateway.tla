----------------------------- MODULE PortGateway -----------------------------
(***************************************************************************)
(* The port-forwarding gateway, crates/nilbox-core/src/gateway/mod.rs: the *)
(* table of host ports, the listener tasks behind them, and the callers    *)
(* that change both at the same time: the user's commands, the start and   *)
(* the stop of a VM, the admin proxy and the OAuth callbacks, whose        *)
(* mapping a timer takes away again (service.rs, proxy/reverse_proxy.rs,   *)
(* proxy/inspect.rs).                                                      *)
(*                                                                         *)
(* The two tables have a lock each, and an operation takes and releases    *)
(* them one after the other: what it does under one lock is a step.        *)
(* A listener task owns its socket until the runtime has dropped it, some  *)
(* time after the abort.  What a listener does with a connection (look up  *)
(* the multiplexer of its VM, open a stream) is in VmLifecycle and         *)
(* StreamMux.                                                              *)
(***************************************************************************)
EXTENDS Integers, FiniteSets

CONSTANTS
  Vms,
  HostPorts,
  VmPorts,    \* ports inside a VM; the ephemeral mapping tries them on the host
  Callers,    \* tasks that may be inside the gateway at the same time
  Tasks,      \* identities of listener tasks, used again once a task is gone
  MaxTimers,  \* bound on the callback timers that run at the same time
  NoPort, NoTarget, NoTask   \* nothing: no host port, target, task

Targets == Vms \X VmPorts

ASSUME GatewayAssumption ==
  /\ VmPorts \subseteq HostPorts /\ MaxTimers \in Nat
  /\ NoPort \notin HostPorts /\ NoTarget \notin Targets /\ NoTask \notin Tasks

VARIABLES
  port_mapping,  \* host port -> (VM, port in the VM)
  listeners,     \* host port -> handle of its listener task
  taskState,     \* "free", "live", or "aborted" and not yet dropped
  taskPort,      \* the port the task's socket is bound to
  taskTarget,    \* where it forwards
  foreign,       \* host ports that other programs hold
  saved,         \* the table port_mappings: <<host port, target>>
  timers,        \* host port -> callback timers running for it
  pc,            \* where each caller is
  kind,          \* on whose behalf: "user", "setup", "callback", "stop", "admin"
  port,          \* the host port, target, task and ports it works on
  target,
  task,
  drain,
  overlapped     \* has a call ever begun while another was under way?

vars == <<port_mapping, listeners, taskState, taskPort, taskTarget, foreign,
          saved, timers, pc, kind, port, target, task, drain, overlapped>>

tasks == <<taskState, taskPort, taskTarget>>
world == <<foreign, saved, timers>>
args == <<kind, port, target, task, drain, overlapped>>

Kinds == {"user", "setup", "callback", "admin", "stop"}
Pcs == {"idle", "reuse", "stop", "bind", "insert", "map", "save", "unmap", "unsave",
        "drain", "ephMap", "ephInsert"}

Types ==
  /\ port_mapping \in [HostPorts -> Targets \cup {NoTarget}]
  /\ listeners \in [HostPorts -> Tasks \cup {NoTask}]
  /\ taskState \in [Tasks -> {"free", "live", "aborted"}]
  /\ taskPort \in [Tasks -> HostPorts \cup {NoPort}]
  /\ taskTarget \in [Tasks -> Targets \cup {NoTarget}]
  /\ foreign \subseteq HostPorts
  /\ saved \subseteq HostPorts \X Targets
  /\ timers \in [HostPorts -> Nat]
  /\ pc \in [Callers -> Pcs]
  /\ kind \in [Callers -> Kinds]
  /\ port \in [Callers -> HostPorts \cup {NoPort}]
  /\ target \in [Callers -> Targets \cup {NoTarget}]
  /\ task \in [Callers -> Tasks \cup {NoTask}]
  /\ drain \in [Callers -> SUBSET HostPorts]

Init ==
  /\ port_mapping = [p \in HostPorts |-> NoTarget]
  /\ listeners = [p \in HostPorts |-> NoTask]
  /\ taskState = [t \in Tasks |-> "free"]
  /\ taskPort = [t \in Tasks |-> NoPort]
  /\ taskTarget = [t \in Tasks |-> NoTarget]
  /\ foreign = {} /\ saved = {}
  /\ timers = [p \in HostPorts |-> 0]
  /\ pc = [c \in Callers |-> "idle"]
  /\ kind = [c \in Callers |-> "user"]
  /\ port = [c \in Callers |-> NoPort]
  /\ target = [c \in Callers |-> NoTarget]
  /\ task = [c \in Callers |-> NoTask]
  /\ drain = [c \in Callers |-> {}]
  /\ overlapped = FALSE

Idle == \A c \in Callers : pc[c] = "idle"

(* A call begins.                                                          *)
Enter(c) ==
  /\ pc[c] = "idle"
  /\ overlapped' = (overlapped \/ ~Idle)

----------------------------------------------------------------------------
(* Faults.  Each is a plausible slip in the definition it is named after.  *)

(* The handle is removed and dropped, which detaches the task.             *)
StopListenerDetaches(p) ==
  /\ listeners' = [listeners EXCEPT ![p] = NoTask]
  /\ UNCHANGED <<taskState, taskPort, taskTarget>>

(* The VM's mappings are dropped and none of its listeners is stopped.     *)
CollectPortsNone(c, v) ==
  /\ Enter(c)
  /\ \E q \in VmPorts : target' = [target EXCEPT ![c] = <<v, q>>]
  /\ kind' = [kind EXCEPT ![c] = "stop"]
  /\ pc' = [pc EXCEPT ![c] = "drain"]
  /\ UNCHANGED <<port_mapping, listeners, tasks, world, port, task, drain>>

----------------------------------------------------------------------------
(* stop_listener: take the handle out of the table and abort the task.     *)
StopListener(p) ==
  /\ listeners' = [listeners EXCEPT ![p] = NoTask]
  /\ taskState' = [t \in Tasks |->
                     IF t = listeners[p] THEN "aborted" ELSE taskState[t]]
  /\ UNCHANGED <<taskPort, taskTarget>>

(* The operating system refuses a port that a socket is bound to.          *)
Free(p) == p \notin foreign /\ \A t \in Tasks : taskState[t] # "free" => taskPort[t] # p

(* create_listener succeeds on p, for a task that forwards to x.           *)
Spawn(t, p, x) ==
  /\ taskState[t] = "free"
  /\ taskState' = [taskState EXCEPT ![t] = "live"]
  /\ taskPort' = [taskPort EXCEPT ![t] = p]
  /\ taskTarget' = [taskTarget EXCEPT ![t] = x]

Goto(c, l) == pc' = [pc EXCEPT ![c] = l]

(* The call is over, with or without an error.                             *)
Return(c) ==
  /\ Goto(c, "idle")
  /\ kind' = [kind EXCEPT ![c] = "user"]
  /\ port' = [port EXCEPT ![c] = NoPort]
  /\ target' = [target EXCEPT ![c] = NoTarget]
  /\ task' = [task EXCEPT ![c] = NoTask]
  /\ drain' = [drain EXCEPT ![c] = {}]
  /\ UNCHANGED overlapped

(* add_mapping: refused when another VM has the port (nothing changes);    *)
(* the same mapping may find its listener alive; everything else goes      *)
(* through a new listener.  A callback port is the same on both sides, and *)
(* the setup of a VM adds what is saved.                                   *)
AddMapping(c, p, x, k) ==
  /\ Enter(c)
  /\ k = "setup" => <<p, x>> \in saved
  /\ k = "callback" => x[2] = p /\ timers[p] < MaxTimers
  /\ port_mapping[p] # NoTarget => port_mapping[p][1] = x[1]
  /\ Goto(c, IF port_mapping[p] = x THEN "reuse" ELSE "stop")
  /\ kind' = [kind EXCEPT ![c] = k]
  /\ port' = [port EXCEPT ![c] = p]
  /\ target' = [target EXCEPT ![c] = x]
  /\ UNCHANGED <<port_mapping, listeners, tasks, world, task, drain>>

(* The listener of an unchanged mapping is reused if it is in the table.   *)
AddReuse(c) ==
  /\ pc[c] = "reuse"
  /\ Goto(c, IF listeners[port[c]] # NoTask THEN "save" ELSE "stop")
  /\ UNCHANGED <<port_mapping, listeners, tasks, world, args>>

AddStop(c) ==
  /\ pc[c] = "stop"
  /\ StopListener(port[c])
  /\ Goto(c, "bind")
  /\ UNCHANGED <<port_mapping, world, args>>

(* start_listener: bind and spawn, or return the error.                    *)
AddBind(c) ==
  /\ pc[c] = "bind"
  /\ \/ /\ Free(port[c])
        /\ \E t \in Tasks : /\ Spawn(t, port[c], target[c])
                            /\ task' = [task EXCEPT ![c] = t]
        /\ Goto(c, "insert")
        /\ UNCHANGED <<kind, port, target, drain, overlapped>>
     \/ ~Free(port[c]) /\ Return(c) /\ UNCHANGED tasks
  /\ UNCHANGED <<port_mapping, listeners, world>>

(* The handle goes into the table of listeners.                            *)
AddInsert(c) ==
  /\ pc[c] = "insert"
  /\ listeners' = [listeners EXCEPT ![port[c]] = task[c]]
  /\ Goto(c, "map")
  /\ UNCHANGED <<port_mapping, tasks, world, args>>

(* The mapping goes into its table, and add_mapping returns.               *)
AddMap(c) ==
  /\ pc[c] = "map"
  /\ port_mapping' = [port_mapping EXCEPT ![port[c]] = target[c]]
  /\ Goto(c, "save")
  /\ UNCHANGED <<listeners, tasks, world, args>>

(* What the callers do when it returns Ok: the user's command saves the    *)
(* mapping (INSERT OR IGNORE, unique per VM and host port), the OAuth      *)
(* paths start the timer.                                                  *)
AfterAdd(c) ==
  /\ pc[c] = "save"
  /\ saved' = IF /\ kind[c] = "user"
                 /\ \A r \in saved : r[1] = port[c] => r[2][1] # target[c][1]
              THEN saved \cup {<<port[c], target[c]>>} ELSE saved
  /\ timers' = IF kind[c] = "callback"
               THEN [timers EXCEPT ![port[c]] = @ + 1] ELSE timers
  /\ Return(c)
  /\ UNCHANGED <<port_mapping, listeners, tasks, foreign>>

----------------------------------------------------------------------------
(* remove_mapping, from the user, the admin proxy or a callback timer that *)
(* has run out: the listener first, ...                                    *)
RemoveMapping(c, p, k) ==
  /\ Enter(c)
  /\ k \in {"user", "admin", "callback"}
  /\ k = "callback" => timers[p] > 0
  /\ StopListener(p)
  /\ timers' = IF k = "callback" THEN [timers EXCEPT ![p] = @ - 1] ELSE timers
  /\ Goto(c, "unmap")
  /\ kind' = [kind EXCEPT ![c] = k]
  /\ port' = [port EXCEPT ![c] = p]
  /\ UNCHANGED <<port_mapping, foreign, saved, target, task, drain>>

(* ... then the mapping.                                                   *)
RemoveMap(c) ==
  /\ pc[c] = "unmap"
  /\ port_mapping' = [port_mapping EXCEPT ![port[c]] = NoTarget]
  /\ Goto(c, "unsave")
  /\ UNCHANGED <<listeners, tasks, world, args>>

(* The user's command deletes the saved rows of the host port, whatever    *)
(* their VM.                                                               *)
AfterRemove(c) ==
  /\ pc[c] = "unsave"
  /\ saved' = IF kind[c] = "user" THEN {r \in saved : r[1] # port[c]} ELSE saved
  /\ Return(c)
  /\ UNCHANGED <<port_mapping, listeners, tasks, foreign, timers>>

(* remove_mappings_for_vm: collect the VM's ports, stop their listeners    *)
(* one by one, drop the VM's mappings.                                     *)
PortsOf(v) == {p \in HostPorts : port_mapping[p] # NoTarget /\ port_mapping[p][1] = v}

CollectPorts(c, v) ==
  /\ Enter(c)
  /\ drain' = [drain EXCEPT ![c] = PortsOf(v)]
  /\ \E q \in VmPorts : target' = [target EXCEPT ![c] = <<v, q>>]
  /\ kind' = [kind EXCEPT ![c] = "stop"]
  /\ Goto(c, "drain")
  /\ UNCHANGED <<port_mapping, listeners, tasks, world, port, task>>

DrainPort(c) ==
  /\ pc[c] = "drain"
  /\ \E p \in drain[c] : /\ StopListener(p)
                         /\ drain' = [drain EXCEPT ![c] = @ \ {p}]
  /\ UNCHANGED <<port_mapping, world, pc, kind, port, target, task, overlapped>>

RetainOthers(c) ==
  /\ pc[c] = "drain" /\ drain[c] = {}
  /\ port_mapping' = [p \in HostPorts |->
                        IF p \in PortsOf(target[c][1]) THEN NoTarget
                                                       ELSE port_mapping[p]]
  /\ Return(c)
  /\ UNCHANGED <<listeners, tasks, world>>

(* open_admin_proxy and add_mapping_ephemeral: an existing mapping is      *)
(* returned (nothing changes); else bind the VM's port, or any other port  *)
(* if that one is taken.                                                   *)
EphemeralBind(c, x, p) ==
  /\ Enter(c)
  /\ \A r \in HostPorts : port_mapping[r] # x
  /\ Free(p) /\ (p # x[2] => ~Free(x[2]))
  /\ \E t \in Tasks : Spawn(t, p, x) /\ task' = [task EXCEPT ![c] = t]
  /\ kind' = [kind EXCEPT ![c] = "admin"]
  /\ port' = [port EXCEPT ![c] = p]
  /\ target' = [target EXCEPT ![c] = x]
  /\ Goto(c, "ephMap")
  /\ UNCHANGED <<port_mapping, listeners, world, drain>>

(* Here the mapping comes first, ...                                       *)
EphemeralMap(c) ==
  /\ pc[c] = "ephMap"
  /\ port_mapping' = [port_mapping EXCEPT ![port[c]] = target[c]]
  /\ Goto(c, "ephInsert")
  /\ UNCHANGED <<listeners, tasks, world, args>>

(* ... and the handle of the listener last.                                *)
EphemeralInsert(c) ==
  /\ pc[c] = "ephInsert"
  /\ listeners' = [listeners EXCEPT ![port[c]] = task[c]]
  /\ Return(c)
  /\ UNCHANGED <<port_mapping, tasks, world>>

----------------------------------------------------------------------------
(* The runtime drops an aborted task and with it the socket.               *)
Reap(t) ==
  /\ taskState[t] = "aborted"
  /\ taskState' = [taskState EXCEPT ![t] = "free"]
  /\ taskPort' = [taskPort EXCEPT ![t] = NoPort]
  /\ taskTarget' = [taskTarget EXCEPT ![t] = NoTarget]
  /\ UNCHANGED <<port_mapping, listeners, world, pc, args>>

(* Another program binds a port or gives it back.                          *)
Foreign(p) ==
  /\ \/ Free(p) /\ foreign' = foreign \cup {p}
     \/ p \in foreign /\ foreign' = foreign \ {p}
  /\ UNCHANGED <<port_mapping, listeners, tasks, saved, timers, pc, args>>

Next ==
  \/ \E c \in Callers :
       \/ \E p \in HostPorts :
            \/ \E x \in Targets, k \in {"user", "setup", "callback"} : AddMapping(c, p, x, k)
            \/ \E k \in {"user", "admin", "callback"} : RemoveMapping(c, p, k)
            \/ \E x \in Targets : EphemeralBind(c, x, p)
       \/ \E v \in Vms : CollectPorts(c, v)
       \/ AddReuse(c) \/ AddStop(c) \/ AddBind(c) \/ AddInsert(c) \/ AddMap(c)
       \/ AfterAdd(c) \/ RemoveMap(c) \/ AfterRemove(c) \/ DrainPort(c) \/ RetainOthers(c)
       \/ EphemeralMap(c) \/ EphemeralInsert(c)
  \/ \E t \in Tasks : Reap(t)
  \/ \E p \in HostPorts : Foreign(p)

Spec == Init /\ [][Next]_vars
----------------------------------------------------------------------------
(* The state has its types, and a call that is under way has the port, the *)
(* target and the task that its next step works on.                        *)
CallShape ==
  \A c \in Callers :
    /\ pc[c] \notin {"idle", "drain"} => port[c] \in HostPorts
    /\ pc[c] \notin {"idle", "unmap", "unsave"} => target[c] \in Targets
    /\ pc[c] \in {"insert", "ephMap", "ephInsert"} => task[c] \in Tasks

TypeOK == Types /\ CallShape /\ overlapped \in BOOLEAN

(* A listener task that has not been aborted can still be stopped: its     *)
(* handle is in the table, under the port it listens on, or the caller     *)
(* that spawned it is about to put it there.  No interleaving of the       *)
(* callers overwrites or loses a handle, which would leave the port bound  *)
(* until the application exits.                                            *)
Spawning(c, t) == task[c] = t /\ pc[c] \in {"insert", "ephMap", "ephInsert"}

Tracked ==
  \A t \in Tasks : taskState[t] = "live" =>
    \/ listeners[taskPort[t]] = t
    \/ \E c \in Callers : Spawning(c, t) /\ port[c] = taskPort[t]

(* A handle in the table is that of a live task on that port: a listener   *)
(* that add_mapping reuses does listen.                                    *)
HandlesLive ==
  \A p \in HostPorts : listeners[p] # NoTask =>
    taskState[listeners[p]] = "live" /\ taskPort[listeners[p]] = p

(* Between calls, a port on which the gateway listens is mapped, and to    *)
(* the place its listener forwards to, after any sequence of calls of      *)
(* which no two overlapped.                                                *)
MappedBetweenCalls ==
  Idle /\ ~overlapped =>
    \A p \in HostPorts : listeners[p] # NoTask => port_mapping[p] = taskTarget[listeners[p]]

(* Handles and listener tasks are one to one: none is lost, and none that  *)
(* is in the table is dead, under any interleaving of add_mapping,         *)
(* remove_mapping, remove_mappings_for_vm and add_mapping_ephemeral.       *)
HandlesTracked == Tracked /\ HandlesLive
=============================================================================
