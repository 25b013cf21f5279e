------------------------------ MODULE McpProxy ------------------------------
(***************************************************************************)
(* The MCP servers of a VM: mcp-stdio-proxy, which keeps a listener for    *)
(* each server of its configuration and runs the server's command for each *)
(* connection (vm-agent bin/mcp_stdio_proxy.rs), the agent's               *)
(* update_mcp_config (inbound/control/file_ops.rs), and the bridge on the  *)
(* host that a client starts (nilbox-mcp-bridge).                          *)
(***************************************************************************)
EXTENDS Naturals, FiniteSets

CONSTANTS
  McpPorts,    \* ports of servers
  Entries,     \* what a server's entry may say beside its port
  Clients,     \* connections of bridges
  NoEntry,        \* no entry
  MaxConfs    \* bound: writes of the configuration

VARIABLES
  conf,      \* the file: the entry of each port; FALSE in valid when it does not parse
  changed,   \* a reload has been asked for and not begun (SIGHUP, inotify)
  wanted,    \* the entries the reload under way has still to start
  listening,    \* Daemon.listeners: the entry of each port
  old,       \* ports whose aborted listener still has the socket
  conn,      \* the connections: the listener's lock they use, and what they do
  gen,       \* listeners started on each port: each has a lock of its own
  unbound,   \* ports a reload could not bind
  up, writes

mcpVars == <<conf, changed, wanted, listening, old, conn, gen, unbound, up, writes>>

NoEntries == [p \in McpPorts |-> NoEntry]
NoSession == [pc |-> "none", port |-> NoEntry, gen |-> 0, input |-> "open"]

McpInit ==
  /\ conf = [valid |-> TRUE, entry |-> NoEntries]
  /\ changed = TRUE /\ wanted = NoEntries /\ listening = NoEntries
  /\ old = {} /\ unbound = {}
  /\ conn = [c \in Clients |-> NoSession]
  /\ gen = [p \in McpPorts |-> 0]
  /\ up = TRUE /\ writes = 0

Reloading == wanted # NoEntries

----------------------------------------------------------------------------
(* The configuration                                                       *)

\* update_mcp_config checks the text, renames it into place and signals; a file
\* edited in the guest may not parse and is noticed by inotify.
WriteConf(e, ok) ==
  /\ writes < MaxConfs
  /\ writes' = writes + 1
  /\ conf' = [valid |-> ok, entry |-> IF ok THEN e ELSE NoEntries]
  /\ changed' = TRUE
  /\ UNCHANGED <<wanted, listening, old, conn, gen, unbound, up>>

\* load_config: nothing when the file does not parse.
Desired == IF conf.valid THEN conf.entry ELSE NoEntries

\* fault: a listener whose entry has changed stays
KeepsPort(p) == Desired[p] # NoEntry

\* A listener is kept when its entry is the same.
Keeps(p) == listening[p] = Desired[p]

\* apply_config, up to its first bind: the listeners that are gone or changed are
\* aborted, which does not wait for them.
Reload ==
  /\ up /\ changed /\ ~Reloading
  /\ changed' = FALSE
  /\ LET stopped == {p \in McpPorts : listening[p] # NoEntry /\ ~Keeps(p)} IN
     /\ old' = old \cup stopped
     /\ listening' = [p \in McpPorts |-> IF p \in stopped THEN NoEntry ELSE listening[p]]
     /\ wanted' = [p \in McpPorts |-> IF listening'[p] = NoEntry THEN Desired[p] ELSE NoEntry]
  /\ unbound' = {}
  /\ UNCHANGED <<conf, conn, gen, up, writes>>

\* start_server: the bind fails while the old listener has the socket, and is not
\* tried again.
StartServer(p) ==
  /\ up /\ wanted[p] # NoEntry
  /\ wanted' = [wanted EXCEPT ![p] = NoEntry]
  /\ IF p \in old
       THEN unbound' = unbound \cup {p} /\ UNCHANGED <<listening, gen>>
       ELSE /\ listening' = [listening EXCEPT ![p] = wanted[p]]
            /\ gen' = [gen EXCEPT ![p] = @ + 1]
            /\ UNCHANGED unbound
  /\ UNCHANGED <<conf, changed, old, conn, up, writes>>

\* An aborted listener is dropped.
DropOld(p) ==
  /\ p \in old /\ old' = old \ {p}
  /\ UNCHANGED <<conf, changed, wanted, listening, conn, gen, unbound, up, writes>>

----------------------------------------------------------------------------
(* Connections                                                             *)

\* try_lock of the listener's lock.
LockFree(p) == \A c \in Clients : conn[c].pc \notin {"run", "term"} \/ conn[c].port # p \/ conn[c].gen # gen[p]

\* handle_connection: a second connection is dropped; otherwise the command is
\* started, or fails to.
AcceptConn(c, p) ==
  /\ up /\ conn[c].pc = "none" /\ (listening[p] # NoEntry \/ p \in old)
  /\ conn' = [conn EXCEPT ![c] =
                [NoSession EXCEPT !.pc = IF LockFree(p) THEN "run" ELSE "closed", !.port = p, !.gen = gen[p]]]
  /\ UNCHANGED <<conf, changed, wanted, listening, old, gen, unbound, up, writes>>

\* The bridge's input ends: it keeps the connection and waits for the server's answers.
BridgeInputEnds(c) ==
  /\ conn[c].input = "open" /\ conn[c].pc = "run"
  /\ conn' = [conn EXCEPT ![c].input = "ended"]
  /\ UNCHANGED <<conf, changed, wanted, listening, old, gen, unbound, up, writes>>

\* The client ends its bridge, and with it the connection.
BridgeGoes(c) ==
  /\ conn[c].pc = "run" /\ conn[c].input # "gone"
  /\ conn' = [conn EXCEPT ![c].input = "gone"]
  /\ UNCHANGED <<conf, changed, wanted, listening, old, gen, unbound, up, writes>>

\* Either direction ends: the bridge is gone, or the server has closed its output.
Ends(c, server) ==
  /\ conn[c].pc = "run" /\ (server \/ conn[c].input = "gone")
  /\ conn' = [conn EXCEPT ![c].pc = "term"]
  /\ UNCHANGED <<conf, changed, wanted, listening, old, gen, unbound, up, writes>>

\* fault: a server that ignores SIGTERM is waited for
ExitsByItself(c) == conn[c].input = "ended"

\* terminate_subprocess: SIGTERM, and SIGKILL after five seconds.
Exits(c) == TRUE

Terminate(c) ==
  /\ conn[c].pc = "term" /\ Exits(c)
  /\ conn' = [conn EXCEPT ![c] = [NoSession EXCEPT !.pc = "closed"]]
  /\ UNCHANGED <<conf, changed, wanted, listening, old, gen, unbound, up, writes>>

\* The client sees the end and may try again.
Closed(c) ==
  /\ conn[c].pc = "closed"
  /\ conn' = [conn EXCEPT ![c] = NoSession]
  /\ UNCHANGED <<conf, changed, wanted, listening, old, gen, unbound, up, writes>>

\* SIGTERM: the loop, between two reloads, ends; the commands are killed with it.
Shutdown ==
  /\ up /\ ~Reloading /\ up' = FALSE
  /\ listening' = NoEntries /\ old' = {} /\ unbound' = {}
  /\ conn' = [c \in Clients |-> IF conn[c].pc = "none" THEN NoSession ELSE [NoSession EXCEPT !.pc = "closed"]]
  /\ gen' = [p \in McpPorts |-> 0]
  /\ UNCHANGED <<conf, changed, wanted, writes>>

Startup ==
  /\ ~up /\ up' = TRUE /\ changed' = TRUE
  /\ UNCHANGED <<conf, wanted, listening, old, conn, gen, unbound, writes>>

McpNext ==
  \/ Reload \/ Shutdown \/ Startup
  \/ \E e \in [McpPorts -> Entries \cup {NoEntry}], ok \in BOOLEAN : WriteConf(e, ok)
  \/ \E p \in McpPorts : StartServer(p) \/ DropOld(p) \/ \E c \in Clients : AcceptConn(c, p)
  \/ \E c \in Clients : \/ BridgeInputEnds(c) \/ BridgeGoes(c) \/ Terminate(c) \/ Closed(c)
                        \/ \E server \in BOOLEAN : Ends(c, server)
\* The loop of the daemon and the tasks run, and a command that was killed goes.
McpFair ==
  /\ WF_mcpVars(Reload)
  /\ \A p \in McpPorts : WF_mcpVars(StartServer(p)) /\ WF_mcpVars(DropOld(p))
  /\ \A c \in Clients : WF_mcpVars(Ends(c, FALSE)) /\ WF_mcpVars(Terminate(c))

----------------------------------------------------------------------------
\* With no reload asked for or under way, every port has the listener of the
\* configuration's entry, unless its bind met the listener it replaces.
ServesConf ==
  up /\ ~changed /\ ~Reloading => \A p \in McpPorts : listening[p] = Desired[p] \/ p \in unbound

Running(c) == conn[c].pc \in {"run", "term"}

\* Two commands run for one port at a time only when its listener was replaced
\* between them: the first one is there until it has exited.
OneCommand ==
  \A c, d \in Clients : c # d /\ Running(c) /\ Running(d) /\ conn[c].port = conn[d].port
                          => conn[c].gen # conn[d].gen

\* A connection whose bridge is gone ends, and its command with it, so that the
\* port can be used again.
SlotFreed == \A c \in Clients : conn[c].input = "gone" ~> ~Running(c)

\* The listeners are those of the configuration, and a port runs one command at
\* a time for each of its listeners.
McpSafe == ServesConf /\ OneCommand
=============================================================================
