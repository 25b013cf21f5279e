----------------------------- MODULE VmLifecycle -----------------------------
(***************************************************************************)
(* The life of a VM on a Linux host: start_vm, stop_vm and delete_vm       *)
(* (crates/nilbox-core/src/service.rs), the background task that start_vm  *)
(* leaves behind (setup_vsock_and_ssh), the QEMU platform with the task    *)
(* that watches the process (vm_platform/qemu.rs), and the accept loop of  *)
(* the agent in the VM (vm-agent/src/main.rs).                             *)
(*                                                                         *)
(* A boot is one call of start_vm: it has its own auth token, and, as far  *)
(* as it gets, its own QEMU process, monitor task, setup task, connection, *)
(* multiplexer, metrics tasks; they all go by the name of the boot.  The   *)
(* commands run in tasks of their own and hold no lock across them, except *)
(* that QemuVmPlatform::start and ::stop run under the platform's lock.    *)
(*                                                                         *)
(* Every guest has the same CID: the host reaches whichever process holds  *)
(* it.  What flows over the connection is in StreamMux, the tables of the  *)
(* gateway are in PortGateway; here a VM's saved port mappings are one     *)
(* thing, and so are their listeners.                                      *)
(***************************************************************************)
EXTENDS Integers, FiniteSets

CONSTANTS
  Vms,
  Boots,     \* bound: the calls of start_vm
  Closers,   \* bound: the calls of stop_vm and delete_vm
  Commands,  \* bound: what the user does besides starting VMs
  SshWorks,  \* bound: if FALSE, the SSH of every setup fails
  NoVm, None

ASSUME LifeAssumption ==
  /\ NoVm \notin Vms /\ None \notin Boots /\ IsFiniteSet(Boots)
  /\ Commands \subseteq {"stop", "delete", "map"} /\ SshWorks \in BOOLEAN

VARIABLES
  vms,        \* the VMs in CoreState.vms
  bootVm,     \* the VM of each boot
  pc,         \* start_vm, then setup_vsock_and_ssh, of each boot
  status,     \* QemuVmPlatform.vm_status
  lock,       \* the boot inside QemuVmPlatform::start
  fwToken,    \* fw_cfg_token_hex: the token the next process gets
  stopTx,     \* the boot whose monitor stop_tx reaches
  signalled,  \* boots whose monitor has the stop signal
  proc,       \* the QEMU process: "none", "alive", "exited"
  procToken,  \* the token it was started with
  monitor,    \* the monitor task: "none", "watch", "kill", "stopped", "error", "done"
  cid,        \* the process that holds the guest CID and whose agent listens
  peer,       \* the process a setup's connection goes to
  link,       \* the connection: "none", "open", "sent", "served", "closed"
  accepting,  \* agent: the connection whose token it waits for
  mux_store,  \* agent: mux_store
  inbound,    \* agent: connections whose inbound task runs
  instMux,    \* VmInstance.multiplexer
  gateMux,    \* Gateway.multiplexers
  mapped,     \* VMs with saved port mappings
  listening,  \* VMs whose mapped ports the gateway listens on
  ssh_client,
  cancelTok,  \* VmInstance.metrics_cancel: named after the boot that made it
  cancelled,  \* the tokens that have been cancelled
  collector,  \* boots whose metrics collection runs
  emitter,    \* boot -> token its stream emitter watches, or "new", "none"
  connected,  \* vsock_connected
  handlers,   \* boots whose reverse-proxy handler runs
  closer,     \* stop_vm, delete_vm: where each closer is
  closing,    \* the VM it works on
  wish        \* history: the last command a VM was given, "start" or "stop"

platform == <<status, lock, fwToken, stopTx, signalled>>
process == <<proc, procToken, monitor, cid>>
links == <<peer, link>>
agent == <<accepting, mux_store, inbound>>
instance == <<instMux, gateMux, mapped, listening, ssh_client>>
metrics == <<cancelTok, cancelled, collector, emitter>>
reverse == <<connected, handlers>>
commands == <<vms, closer, closing, wish>>
boot == <<bootVm, pc>>

vars == <<boot, platform, process, links, agent, instance, metrics, reverse, commands>>

Statuses == {"Stopped", "Starting", "Running", "Stopping", "Error"}
Pcs == {"unused", "inject", "boot", "running", "accept", "send", "mux", "gate",
        "ports", "serve", "ssh", "client", "metrics", "emit", "done", "failed"}
Monitors == {"none", "watch", "kill", "stopped", "error", "done"}
Stages == {"idle", "cancel", "gate", "ports", "mux", "ssh",
           "delCancel", "delPlatform", "delRows", "done"}

MaybeBoot == Boots \cup {None}

Types ==
  /\ vms \subseteq Vms /\ bootVm \in [Boots -> Vms \cup {NoVm}]
  /\ pc \in [Boots -> Pcs]
  /\ status \in [Vms -> Statuses] /\ lock \in [Vms -> MaybeBoot]
  /\ fwToken \in [Vms -> MaybeBoot] /\ stopTx \in [Vms -> MaybeBoot]
  /\ signalled \subseteq Boots
  /\ proc \in [Boots -> {"none", "alive", "exited"}]
  /\ procToken \in [Boots -> MaybeBoot]
  /\ monitor \in [Boots -> Monitors] /\ cid \in MaybeBoot
  /\ peer \in [Boots -> MaybeBoot]
  /\ link \in [Boots -> {"none", "open", "sent", "served", "closed"}]
  /\ accepting \in [Boots -> MaybeBoot] /\ mux_store \in [Boots -> MaybeBoot]
  /\ inbound \in [Boots -> SUBSET Boots]
  /\ instMux \in [Vms -> MaybeBoot] /\ gateMux \in [Vms -> MaybeBoot]
  /\ mapped \subseteq Vms /\ listening \subseteq Vms
  /\ ssh_client \in [Vms -> MaybeBoot]
  /\ cancelTok \in [Vms -> MaybeBoot] /\ cancelled \subseteq Boots
  /\ collector \subseteq Boots /\ emitter \in [Boots -> MaybeBoot \cup {"none", "new"}]
  /\ connected \in Nat /\ handlers \subseteq Boots
  /\ closer \in [Closers -> Stages] /\ closing \in [Closers -> Vms \cup {NoVm}]
  /\ wish \in [Vms -> {"none", "start", "stop"}]

(* register_vm at the start of the application, for every VM in the table. *)
Init ==
  /\ vms = Vms /\ bootVm = [b \in Boots |-> NoVm] /\ pc = [b \in Boots |-> "unused"]
  /\ status = [v \in Vms |-> "Stopped"] /\ lock = [v \in Vms |-> None]
  /\ fwToken = [v \in Vms |-> None] /\ stopTx = [v \in Vms |-> None]
  /\ signalled = {} /\ proc = [b \in Boots |-> "none"]
  /\ procToken = [b \in Boots |-> None] /\ monitor = [b \in Boots |-> "none"]
  /\ cid = None /\ peer = [b \in Boots |-> None] /\ link = [b \in Boots |-> "none"]
  /\ accepting = [b \in Boots |-> None] /\ mux_store = [b \in Boots |-> None]
  /\ inbound = [b \in Boots |-> {}]
  /\ instMux = [v \in Vms |-> None] /\ gateMux = [v \in Vms |-> None]
  /\ mapped = {} /\ listening = {} /\ ssh_client = [v \in Vms |-> None]
  /\ cancelTok = [v \in Vms |-> None] /\ cancelled = {} /\ collector = {}
  /\ emitter = [b \in Boots |-> "none"] /\ connected = 0 /\ handlers = {}
  /\ closer = [s \in Closers |-> "idle"] /\ closing = [s \in Closers |-> NoVm]
  /\ wish = [v \in Vms |-> "none"]

----------------------------------------------------------------------------
(* Faults.  Each is a plausible slip in the definition it is named after.  *)

(* The agent serves whoever sends a token.                                 *)
AgentAuthenticatesAny(n) ==
  LET b == accepting[n] IN
  /\ proc[n] = "alive" /\ b # None /\ link[b] = "sent"
  /\ accepting' = [accepting EXCEPT ![n] = None]
  /\ link' = [link EXCEPT ![b] = "served"]
  /\ mux_store' = [mux_store EXCEPT ![n] = b]
  /\ inbound' = [inbound EXCEPT ![n] = @ \cup {b}]
  /\ UNCHANGED <<boot, platform, process, peer, instance, metrics, reverse, commands>>

(* The clean-up forgets mux_store.                                         *)
AgentCleansUpKeeps(n, b) ==
  /\ proc[n] = "alive" /\ b \in inbound[n] /\ link[b] = "closed"
  /\ inbound' = [inbound EXCEPT ![n] = @ \ {b}]
  /\ UNCHANGED <<boot, platform, process, links, accepting, mux_store, instance, metrics,
                 reverse, commands>>

(* The monitor does not listen for the signal.                             *)
MonitorWakesOnExit(n) ==
  /\ monitor[n] = "watch" /\ proc[n] = "exited"
  /\ \E m \in {"stopped", "error"} : monitor' = [monitor EXCEPT ![n] = m]
  /\ UNCHANGED <<boot, platform, proc, procToken, cid, links, agent, instance, metrics,
                 reverse, commands>>

(* The wait for the connection has no timeout.                             *)
AcceptForever(b) ==
  /\ pc[b] = "accept" /\ cid # None
  /\ peer' = [peer EXCEPT ![b] = cid]
  /\ link' = [link EXCEPT ![b] = "open"]
  /\ pc' = [pc EXCEPT ![b] = "send"]
  /\ UNCHANGED <<bootVm, platform, process, agent, instance, metrics, reverse, commands>>

----------------------------------------------------------------------------
Goto(b, l) == pc' = [pc EXCEPT ![b] = l]
At(b, l) == pc[b] = l
Unlocked(v) == lock[v] = None

(* start_vm finds the instance and sees that the VM's ports are free; a    *)
(* port that is taken, by a listener of the gateway or by another program, *)
(* ends the call.                                                          *)
StartVm(b, v) ==
  /\ At(b, "unused") /\ v \in vms
  /\ \/ v \notin mapped \cap listening /\ Goto(b, "inject")
     \/ v \in mapped /\ Goto(b, "failed")
  /\ bootVm' = [bootVm EXCEPT ![b] = v]
  /\ wish' = [wish EXCEPT ![v] = "start"]
  /\ UNCHANGED <<vms, closer, closing, platform, process, links, agent, instance,
                 metrics, reverse>>

(* The new token goes to the platform, under its lock, ...                 *)
InjectToken(b) ==
  /\ At(b, "inject") /\ Unlocked(bootVm[b])
  /\ fwToken' = [fwToken EXCEPT ![bootVm[b]] = b]
  /\ Goto(b, "boot")
  /\ UNCHANGED <<bootVm, status, lock, stopTx, signalled, process, links, agent,
                 instance, metrics, reverse, commands>>

(* ... which is taken again for QemuVmPlatform::start: refused unless the  *)
(* VM is stopped; the process is spawned, or the token's file cannot be    *)
(* written (the status stays Starting), or the spawn fails (Error).        *)
StartPlatform(b) ==
  LET v == bootVm[b] IN
  /\ At(b, "boot") /\ Unlocked(v)
  /\ \/ /\ status[v] \notin {"Stopped", "Error"}
        /\ Goto(b, "failed")
        /\ UNCHANGED <<status, lock, proc, procToken, monitor>>
     \/ /\ status[v] \in {"Stopped", "Error"}
        /\ \E e \in {"Starting", "Error"} : status' = [status EXCEPT ![v] = e]
        /\ Goto(b, "failed")
        /\ UNCHANGED <<lock, proc, procToken, monitor>>
     \/ /\ status[v] \in {"Stopped", "Error"}
        /\ status' = [status EXCEPT ![v] = "Starting"]
        /\ lock' = [lock EXCEPT ![v] = b]
        /\ proc' = [proc EXCEPT ![b] = "alive"]
        /\ procToken' = [procToken EXCEPT ![b] = fwToken[v]]
        /\ monitor' = [monitor EXCEPT ![b] = "watch"]
        /\ Goto(b, "running")
  /\ UNCHANGED <<bootVm, fwToken, stopTx, signalled, cid, links, agent, instance,
                 metrics, reverse, commands>>

(* What start_vm does then: it spawns the setup task, unless the SSH keys  *)
(* or the certificate cannot be loaded.                                    *)
SpawnSetup(b) == Goto(b, "accept") \/ Goto(b, "failed")

(* The end of start, with the monitor task running: stop_tx and Running.   *)
(* A sender that stop_tx still held is dropped, which its monitor takes    *)
(* for the signal.                                                         *)
PlatformRunning(b) ==
  LET v == bootVm[b] IN
  /\ At(b, "running")
  /\ stopTx' = [stopTx EXCEPT ![v] = b]
  /\ status' = [status EXCEPT ![v] = "Running"]
  /\ lock' = [lock EXCEPT ![v] = None]
  /\ signalled' = signalled \cup ({stopTx[v]} \ {None})
  /\ SpawnSetup(b)
  /\ UNCHANGED <<bootVm, fwToken, process, links, agent, instance, metrics, reverse,
                 commands>>

----------------------------------------------------------------------------
(* setup_vsock_and_ssh: connect to whoever holds the CID, or give up.      *)
Accept(b) ==
  /\ At(b, "accept")
  /\ \/ /\ cid # None
        /\ peer' = [peer EXCEPT ![b] = cid]
        /\ link' = [link EXCEPT ![b] = "open"]
        /\ Goto(b, "send")
     \/ Goto(b, "failed") /\ UNCHANGED links
  /\ UNCHANGED <<bootVm, platform, process, agent, instance, metrics, reverse, commands>>

(* Send the token of this boot; the write may or may not notice that the   *)
(* other end has closed the connection.                                    *)
SendToken(b) ==
  /\ At(b, "send")
  /\ \/ /\ link[b] = "open"
        /\ link' = [link EXCEPT ![b] = "sent"]
        /\ Goto(b, "mux")
     \/ link[b] = "closed" /\ (Goto(b, "mux") \/ Goto(b, "failed")) /\ UNCHANGED link
  /\ UNCHANGED <<bootVm, platform, process, peer, agent, instance, metrics, reverse,
                 commands>>

InstallMux(b) ==
  /\ At(b, "mux")
  /\ instMux' = [instMux EXCEPT ![bootVm[b]] = b]
  /\ Goto(b, "gate")
  /\ UNCHANGED <<bootVm, platform, process, links, agent, gateMux, mapped, listening,
                 ssh_client, metrics, reverse, commands>>

RegisterMux(b) ==
  /\ At(b, "gate")
  /\ gateMux' = [gateMux EXCEPT ![bootVm[b]] = b]
  /\ Goto(b, "ports")
  /\ UNCHANGED <<bootVm, platform, process, links, agent, instMux, mapped, listening,
                 ssh_client, metrics, reverse, commands>>

(* The saved port mappings are applied again; an error is only logged.     *)
ApplyMappings(b) ==
  /\ At(b, "ports")
  /\ listening' \in {listening, listening \cup ({bootVm[b]} \cap mapped)}
  /\ Goto(b, "serve")
  /\ UNCHANGED <<bootVm, platform, process, links, agent, instMux, gateMux, mapped,
                 ssh_client, metrics, reverse, commands>>

(* The connection is counted and its reverse-proxy handler spawned.        *)
ServeReverse(b) ==
  /\ At(b, "serve")
  /\ connected' = connected + 1
  /\ handlers' = handlers \cup {b}
  /\ Goto(b, "ssh")
  /\ UNCHANGED <<bootVm, platform, process, links, agent, instance, metrics, commands>>

(* The handler ends with the connection.                                   *)
HandlerEnds(b) ==
  /\ b \in handlers /\ link[b] = "closed"
  /\ connected' = connected - 1
  /\ handlers' = handlers \ {b}
  /\ UNCHANGED <<boot, platform, process, links, agent, instance, metrics, commands>>

(* Key injection and SSH, at most MAX_RETRIES times: only an agent that    *)
(* serves the connection answers.  What the setup then writes in the guest *)
(* (the CA, environment variables, OAuth dummies) and the domains it       *)
(* allows are left out here.                                               *)
ConnectSsh(b) ==
  /\ At(b, "ssh")
  /\ \/ SshWorks /\ link[b] = "served" /\ Goto(b, "client")
     \/ Goto(b, "failed")
  /\ UNCHANGED <<bootVm, platform, process, links, agent, instance, metrics, reverse,
                 commands>>

SetSshClient(b) ==
  /\ At(b, "client")
  /\ ssh_client' = [ssh_client EXCEPT ![bootVm[b]] = b]
  /\ Goto(b, "metrics")
  /\ UNCHANGED <<bootVm, platform, process, links, agent, instMux, gateMux, mapped,
                 listening, metrics, reverse, commands>>

(* start_metrics_collection: a fresh token replaces whatever was there.    *)
StartMetrics(b) ==
  /\ At(b, "metrics")
  /\ cancelTok' = [cancelTok EXCEPT ![bootVm[b]] = b]
  /\ collector' = collector \cup {b}
  /\ Goto(b, "emit")
  /\ UNCHANGED <<bootVm, platform, process, links, agent, instance, cancelled, emitter,
                 reverse, commands>>

(* spawn_metrics_stream_emitter, file proxies, "ready".                    *)
SpawnEmitter(b) ==
  /\ At(b, "emit")
  /\ emitter' = [emitter EXCEPT ![b] = "new"]
  /\ Goto(b, "done")
  /\ UNCHANGED <<bootVm, platform, process, links, agent, instance, cancelTok, cancelled,
                 collector, reverse, commands>>

(* The emitter task reads the token when it first runs, and runs until     *)
(* that token is cancelled.                                                *)
EmitterStarts(b) ==
  /\ emitter[b] = "new"
  /\ emitter' = [emitter EXCEPT ![b] = cancelTok[bootVm[b]]]
  /\ UNCHANGED <<boot, platform, process, links, agent, instance, cancelTok, cancelled,
                 collector, reverse, commands>>

EmitterEnds(b) ==
  /\ emitter[b] \in cancelled
  /\ emitter' = [emitter EXCEPT ![b] = "none"]
  /\ UNCHANGED <<boot, platform, process, links, agent, instance, cancelTok, cancelled,
                 collector, reverse, commands>>

(* The collection ends when its token is cancelled, when the instance has  *)
(* no multiplexer, or when that one fails three times.                     *)
CollectorEnds(b) ==
  LET m == instMux[bootVm[b]] IN
  /\ b \in collector
  /\ b \in cancelled \/ m = None \/ (m # None /\ link[m] # "served")
  /\ collector' = collector \ {b}
  /\ UNCHANGED <<boot, platform, process, links, agent, instance, cancelTok, cancelled,
                 emitter, reverse, commands>>

----------------------------------------------------------------------------
(* The QEMU process and its monitor.  A process gets the CID unless        *)
(* another one has it; with the process its agent and connections go.      *)
GuestUp(n) ==
  /\ proc[n] = "alive" /\ cid = None
  /\ cid' = n
  /\ UNCHANGED <<boot, platform, proc, procToken, monitor, links, agent, instance,
                 metrics, reverse, commands>>

Gone(n) ==
  /\ proc' = [proc EXCEPT ![n] = "exited"]
  /\ cid' = IF cid = n THEN None ELSE cid
  /\ link' = [b \in Boots |-> IF peer[b] = n THEN "closed" ELSE link[b]]
  /\ accepting' = [accepting EXCEPT ![n] = None]
  /\ mux_store' = [mux_store EXCEPT ![n] = None]
  /\ inbound' = [inbound EXCEPT ![n] = {}]

(* The guest powers off, or QEMU fails.                                    *)
ProcessExits(n) ==
  /\ proc[n] = "alive" /\ monitor[n] # "kill"
  /\ Gone(n)
  /\ UNCHANGED <<boot, platform, procToken, monitor, peer, instance, metrics, reverse,
                 commands>>

(* The monitor sees the exit, or the signal and kills the process; either  *)
(* way the receiver of the signal is gone from then on.                    *)
MonitorWakes(n) ==
  /\ monitor[n] = "watch"
  /\ \/ proc[n] = "exited" /\ \E m \in {"stopped", "error"} : monitor' = [monitor EXCEPT ![n] = m]
     \/ n \in signalled /\ monitor' = [monitor EXCEPT ![n] = "kill"]
  /\ UNCHANGED <<boot, platform, proc, procToken, cid, links, agent, instance, metrics,
                 reverse, commands>>

Killed(n) ==
  /\ monitor[n] = "kill"
  /\ Gone(n)
  /\ monitor' = [monitor EXCEPT ![n] = "stopped"]
  /\ UNCHANGED <<boot, platform, procToken, peer, instance, metrics, reverse, commands>>

(* The monitor's last act: the status, whatever it is by now.              *)
MonitorReports(n) ==
  /\ monitor[n] \in {"stopped", "error"}
  /\ status' = [status EXCEPT ![bootVm[n]] =
                  IF monitor[n] = "stopped" THEN "Stopped" ELSE "Error"]
  /\ monitor' = [monitor EXCEPT ![n] = "done"]
  /\ UNCHANGED <<boot, lock, fwToken, stopTx, signalled, proc, procToken, cid, links,
                 agent, instance, metrics, reverse, commands>>

----------------------------------------------------------------------------
(* The agent's accept loop, one connection at a time: a second connection  *)
(* is turned away, ...                                                     *)
AgentAccepts(n, b) ==
  /\ proc[n] = "alive" /\ accepting[n] = None
  /\ peer[b] = n /\ link[b] \in {"open", "sent"}
  /\ \/ /\ mux_store[n] # None
        /\ link' = [link EXCEPT ![b] = "closed"]
        /\ UNCHANGED accepting
     \/ /\ mux_store[n] = None
        /\ accepting' = [accepting EXCEPT ![n] = b]
        /\ UNCHANGED link
  /\ UNCHANGED <<boot, platform, process, peer, mux_store, inbound, instance, metrics,
                 reverse, commands>>

(* ... and one whose token does not arrive in time, or is not the one this *)
(* VM was started with, is closed.                                         *)
AgentAuthenticates(n) ==
  LET b == accepting[n] IN
  /\ proc[n] = "alive" /\ b # None
  /\ accepting' = [accepting EXCEPT ![n] = None]
  /\ \/ /\ link[b] = "sent" /\ b = procToken[n]
        /\ link' = [link EXCEPT ![b] = "served"]
        /\ mux_store' = [mux_store EXCEPT ![n] = b]
        /\ inbound' = [inbound EXCEPT ![n] = @ \cup {b}]
     \/ /\ ~(link[b] = "sent" /\ b = procToken[n])
        /\ link' = [link EXCEPT ![b] = "closed"]
        /\ UNCHANGED <<mux_store, inbound>>
  /\ UNCHANGED <<boot, platform, process, peer, instance, metrics, reverse, commands>>

(* The task of a connection that has ended clears mux_store.               *)
AgentCleansUp(n, b) ==
  /\ proc[n] = "alive" /\ b \in inbound[n] /\ link[b] = "closed"
  /\ inbound' = [inbound EXCEPT ![n] = @ \ {b}]
  /\ mux_store' = [mux_store EXCEPT ![n] = None]
  /\ UNCHANGED <<boot, platform, process, links, accepting, instance, metrics, reverse,
                 commands>>

(* A connection breaks while both ends are there.                          *)
LinkBreaks(b) ==
  /\ link[b] \in {"sent", "served"}
  /\ link' = [link EXCEPT ![b] = "closed"]
  /\ UNCHANGED <<boot, platform, process, peer, agent, instance, metrics, reverse,
                 commands>>

----------------------------------------------------------------------------
(* QemuVmPlatform::stop: nothing to do for a stopped VM; else the signal,  *)
(* if there is a monitor to take it, and Stopped if there is none.         *)
PlatformStop(v) ==
  LET b == stopTx[v] IN
  IF status[v] = "Stopped" THEN UNCHANGED <<status, stopTx, signalled>>
  ELSE /\ stopTx' = [stopTx EXCEPT ![v] = None]
       /\ \/ /\ b # None /\ monitor[b] = "watch"
             /\ signalled' = signalled \cup {b}
             /\ status' = [status EXCEPT ![v] = "Stopping"]
          \/ /\ b = None \/ (b # None /\ monitor[b] # "watch")
             /\ status' = [status EXCEPT ![v] = "Stopped"]
             /\ UNCHANGED signalled

Step(s, l) == closer' = [closer EXCEPT ![s] = l]

(* stop_vm: the platform, then the cancellation, the gateway and the       *)
(* instance, one await after the other.                                    *)
StopVm(s, v) ==
  /\ "stop" \in Commands
  /\ closer[s] = "idle" /\ v \in vms /\ Unlocked(v)
  /\ PlatformStop(v)
  /\ closing' = [closing EXCEPT ![s] = v]
  /\ wish' = [wish EXCEPT ![v] = "stop"]
  /\ Step(s, "cancel")
  /\ UNCHANGED <<boot, lock, fwToken, process, links, agent, instance, metrics, reverse, vms>>

CancelMetrics(s) ==
  /\ closer[s] \in {"cancel", "delCancel"}
  /\ cancelled' = cancelled \cup ({cancelTok[closing[s]]} \ {None})
  /\ Step(s, IF closer[s] = "cancel" THEN "gate" ELSE "delPlatform")
  /\ UNCHANGED <<boot, platform, process, links, agent, instance, cancelTok, collector,
                 emitter, reverse, vms, closing, wish>>

RemoveMux(s) ==
  /\ closer[s] = "gate"
  /\ gateMux' = [gateMux EXCEPT ![closing[s]] = None]
  /\ Step(s, "ports")
  /\ UNCHANGED <<boot, platform, process, links, agent, instMux, mapped, listening,
                 ssh_client, metrics, reverse, vms, closing, wish>>

RemoveListeners(s) ==
  /\ closer[s] = "ports"
  /\ listening' = listening \ {closing[s]}
  /\ Step(s, "mux")
  /\ UNCHANGED <<boot, platform, process, links, agent, instMux, gateMux, mapped,
                 ssh_client, metrics, reverse, vms, closing, wish>>

ClearMux(s) ==
  /\ closer[s] = "mux"
  /\ instMux' = [instMux EXCEPT ![closing[s]] = None]
  /\ Step(s, "ssh")
  /\ UNCHANGED <<boot, platform, process, links, agent, gateMux, mapped, listening,
                 ssh_client, metrics, reverse, vms, closing, wish>>

ClearSsh(s) ==
  /\ closer[s] = "ssh"
  /\ ssh_client' = [ssh_client EXCEPT ![closing[s]] = None]
  /\ Step(s, "done")
  /\ UNCHANGED <<boot, platform, process, links, agent, instMux, gateMux, mapped,
                 listening, metrics, reverse, vms, closing, wish>>

(* delete_vm: out of the map, cancel, stop the platform if it runs, delete *)
(* the rows (port mappings with them), or fail to.                         *)
DeleteVm(s, v) ==
  /\ "delete" \in Commands
  /\ closer[s] = "idle" /\ v \in vms
  /\ vms' = vms \ {v}
  /\ closing' = [closing EXCEPT ![s] = v]
  /\ wish' = [wish EXCEPT ![v] = "stop"]
  /\ Step(s, "delCancel")
  /\ UNCHANGED <<boot, platform, process, links, agent, instance, metrics, reverse>>

DeletePlatform(s) ==
  LET v == closing[s] IN
  /\ closer[s] = "delPlatform" /\ Unlocked(v)
  /\ IF status[v] \in {"Running", "Starting"} THEN PlatformStop(v)
     ELSE UNCHANGED <<status, stopTx, signalled>>
  /\ Step(s, "delRows")
  /\ UNCHANGED <<boot, lock, fwToken, process, links, agent, instance, metrics, reverse,
                 vms, closing, wish>>

(* The last task that uses a deleted instance drops it, and stop_tx with   *)
(* it: again the monitor takes that for the signal.                        *)
InstanceDropped(v) ==
  /\ v \notin vms /\ stopTx[v] # None
  /\ \A b \in Boots : bootVm[b] = v =>
       pc[b] \in {"done", "failed"} /\ b \notin collector /\ emitter[b] = "none"
  /\ \A s \in Closers : closing[s] = v => closer[s] = "done"
  /\ signalled' = signalled \cup {stopTx[v]}
  /\ stopTx' = [stopTx EXCEPT ![v] = None]
  /\ UNCHANGED <<boot, status, lock, fwToken, process, links, agent, instance, metrics,
                 reverse, commands>>

DeleteRows(s) ==
  /\ closer[s] = "delRows"
  /\ mapped' \in {mapped, mapped \ {closing[s]}}
  /\ Step(s, "done")
  /\ UNCHANGED <<boot, platform, process, links, agent, instMux, gateMux, listening,
                 ssh_client, metrics, reverse, vms, closing, wish>>

(* The user adds or removes the port mappings of a VM, running or not.     *)
ChangeMapping(v) ==
  /\ "map" \in Commands
  /\ \/ v \in vms /\ mapped' = mapped \cup {v} /\ listening' = listening \cup {v}
     \/ v \in mapped /\ mapped' = mapped \ {v} /\ listening' = listening \ {v}
  /\ UNCHANGED <<boot, platform, process, links, agent, instMux, gateMux, ssh_client,
                 metrics, reverse, commands>>

----------------------------------------------------------------------------
SetupStep(b) ==
  \/ Accept(b) \/ SendToken(b) \/ InstallMux(b) \/ RegisterMux(b) \/ ApplyMappings(b)
  \/ ServeReverse(b) \/ ConnectSsh(b) \/ SetSshClient(b) \/ StartMetrics(b)
  \/ SpawnEmitter(b)

MonitorStep(n) == MonitorWakes(n) \/ Killed(n) \/ MonitorReports(n)

Next ==
  \/ \E b \in Boots :
       \/ \E v \in Vms : StartVm(b, v)
       \/ InjectToken(b) \/ StartPlatform(b) \/ PlatformRunning(b)
       \/ SetupStep(b) \/ MonitorStep(b)
       \/ HandlerEnds(b) \/ EmitterStarts(b) \/ EmitterEnds(b) \/ CollectorEnds(b)
       \/ GuestUp(b) \/ ProcessExits(b) \/ LinkBreaks(b)
       \/ AgentAuthenticates(b)
       \/ \E c \in Boots : AgentAccepts(b, c) \/ AgentCleansUp(b, c)
  \/ \E s \in Closers :
       \/ \E v \in Vms : StopVm(s, v) \/ DeleteVm(s, v)
       \/ CancelMetrics(s) \/ RemoveMux(s) \/ RemoveListeners(s) \/ ClearMux(s)
       \/ ClearSsh(s) \/ DeletePlatform(s) \/ DeleteRows(s)
  \/ \E v \in Vms : ChangeMapping(v) \/ InstanceDropped(v)

Spec == Init /\ [][Next]_vars

(* Tasks that are ready run, and every wait of a setup has a timeout.      *)
FairSpec ==
  Spec /\ \A b \in Boots : WF_vars(SetupStep(b)) /\ WF_vars(MonitorStep(b))
----------------------------------------------------------------------------
(* The state has its types; a task that works on a VM has one; a process   *)
(* runs with the token of some start of its VM, watched by its monitor.    *)
TypeOK ==
  /\ Types
  /\ \A b \in Boots : pc[b] # "unused" => bootVm[b] \in Vms
  /\ \A b \in Boots : proc[b] # "none" => procToken[b] \in Boots /\ pc[b] # "unused"
  /\ \A s \in Closers : closer[s] # "idle" => closing[s] \in Vms
  /\ \A n \in Boots : monitor[n] \in {"watch", "kill"} \/ proc[n] # "alive"

(* Every guest has the same CID, so a setup may reach the agent of another *)
(* VM, or that of a later start.  The tokens keep them apart: a connection *)
(* that an agent serves belongs to the VM the agent runs in, and with it   *)
(* the multiplexer of the instance and of the gateway.                     *)
NoCrossVm ==
  /\ \A b \in Boots : link[b] = "served" => bootVm[peer[b]] = bootVm[b]
  /\ \A v \in Vms : gateMux[v] # None /\ link[gateMux[v]] = "served" =>
                      bootVm[peer[gateMux[v]]] = v

(* The agent serves one connection at a time, and mux_store is the one it  *)
(* serves: the clean-up after a connection never throws out a newer one.   *)
OneConnection ==
  \A n \in Boots :
    inbound[n] = IF mux_store[n] = None THEN {} ELSE {mux_store[n]}

(* vsock_connected counts the handlers, and while a VM that has been       *)
(* counted is being served it is not zero: Chrome is killed only after the *)
(* last VM has gone.                                                       *)
ConnectedCount ==
  /\ connected = Cardinality(handlers)
  /\ \A b \in Boots : link[b] = "served" /\
       pc[b] \in {"ssh", "client", "metrics", "emit", "done"} => connected > 0

(* A VM that is being stopped stops being stopped: the signal to the       *)
(* monitor is not lost.                                                    *)
StopCompletes == \A v \in Vms : status[v] = "Stopping" ~> status[v] # "Stopping"

(* Every setup task ends, whatever happens to the VM meanwhile.            *)
SetupEnds ==
  \A b \in Boots : pc[b] \in Pcs \ {"unused", "inject", "boot", "running"}
                     ~> pc[b] \in {"done", "failed"}

(* The agent's links are exclusive and counted: one connection per agent,  *)
(* its multiplexer in mux_store, and vsock_connected the number of the     *)
(* handlers that serve one.                                                *)
AgentLinks == OneConnection /\ ConnectedCount
=============================================================================
