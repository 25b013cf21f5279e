--------------------------- MODULE ShellSessions ----------------------------
(***************************************************************************)
(* The shell sessions of the service (service.rs: open_shell, write_shell, *)
(* resize_shell, close_shell, inject_env_to_sessions).  The table of       *)
(* sessions is behind a read-write lock that serves its waiters in order;  *)
(* a call keeps the read lock while it waits for room in a session's       *)
(* command channel, and a session that ends needs the write lock.          *)
(***************************************************************************)
EXTENDS Naturals, Sequences, FiniteSets

CONSTANTS
  Sessions,      \* session ids; each is used once
  Callers,       \* tasks of the front end
  Capacity,      \* capacity of a command channel (64 in the code)
  MaxCalls       \* bound: calls

ASSUME CapacityAssumption == Capacity \in Nat \ {0}

VARIABLES
  table,     \* shell_sessions
  sess,      \* the tasks of the sessions
  commands,  \* their command channels
  call,      \* the calls
  holders,   \* calls that have the read lock
  waiting,   \* who waits for the lock, in order
  calls

shellVars == <<table, sess, commands, call, holders, waiting, calls>>

NoCall == [op |-> "none", to |-> {}, new |-> {}]

ShellInit ==
  /\ table = {}
  /\ sess = [s \in Sessions |-> "none"]
  /\ commands = [s \in Sessions |-> <<>>]
  /\ call = [c \in Callers |-> NoCall]
  /\ holders = {} /\ waiting = <<>> /\ calls = 0

----------------------------------------------------------------------------
(* Calls                                                                   *)

Calls(c, op, s) ==
  /\ call[c].op = "none" /\ calls < MaxCalls
  /\ calls' = calls + 1
  /\ call' = [call EXCEPT ![c] = [NoCall EXCEPT !.op = op, !.new = s]]
  /\ waiting' = Append(waiting, c)
  /\ UNCHANGED <<table, commands, holders>>

\* open_shell, whose channel is open: the session is to be entered in the table.
\* (Its task starts after that.)
Open(c, s) ==
  /\ sess[s] = "none" /\ Calls(c, "open", {s})
  /\ sess' = [sess EXCEPT ![s] = "opening"]

\* write_shell, resize_shell and close_shell, of a session the front end knows.
AskSession(c, op, s) ==
  /\ sess[s] \notin {"none", "opening"}
  /\ Calls(c, op, {s}) /\ UNCHANGED sess

\* inject_env_to_sessions
Inject(c) == Calls(c, "inject", {}) /\ UNCHANGED sess

\* The write lock: nobody holds the lock and c is next.
WriteTurn(c) == waiting # <<>> /\ Head(waiting) = c /\ holders = {}

Insert(c) ==
  /\ call[c].op = "open" /\ WriteTurn(c)
  /\ table' = table \cup call[c].new
  /\ sess' = [s \in Sessions |-> IF s \in call[c].new THEN "run" ELSE sess[s]]
  /\ call' = [call EXCEPT ![c] = NoCall]
  /\ waiting' = Tail(waiting)
  /\ UNCHANGED <<commands, holders, calls>>

\* The read lock is taken and the session looked up; all of the VM's for the
\* injection.  One that is not there is an error.
Lookup(c) ==
  /\ call[c].op \notin {"none", "open"} /\ waiting # <<>> /\ Head(waiting) = c
  /\ waiting' = Tail(waiting)
  /\ holders' = holders \cup {c}
  /\ call' = [call EXCEPT ![c].to = IF call[c].op = "inject" THEN table ELSE table \cap call[c].new]
  /\ UNCHANGED <<table, sess, commands, calls>>

\* A command is sent, when there is room.
Send(c, s) ==
  /\ c \in holders /\ s \in call[c].to
  /\ Len(commands[s]) < Capacity
  /\ commands' = [commands EXCEPT ![s] = Append(@, IF call[c].op = "close" THEN "close" ELSE "data")]
  /\ call' = [call EXCEPT ![c].to = @ \ {s}]
  /\ UNCHANGED <<table, sess, holders, waiting, calls>>

\* fault: the guard outlives the call
HoldersKept(c) == holders

\* The guard is dropped when the call returns.
HoldersLeft(c) == holders \ {c}

Return(c) ==
  /\ c \in holders /\ call[c].to = {}
  /\ holders' = HoldersLeft(c)
  /\ call' = [call EXCEPT ![c] = NoCall]
  /\ UNCHANGED <<table, sess, commands, waiting, calls>>

----------------------------------------------------------------------------
(* The task of a session                                                   *)

\* The loop is left: the task wants the write lock; its end of the channel stays
\* open meanwhile, and nobody reads it.
End(s) ==
  /\ sess' = [sess EXCEPT ![s] = "ending"]
  /\ waiting' = Append(waiting, s)

Receive(s) ==
  /\ sess[s] = "run" /\ commands[s] # <<>>
  /\ commands' = [commands EXCEPT ![s] = Tail(@)]
  /\ IF Head(commands[s]) = "close" THEN End(s)
     ELSE sess' = [sess EXCEPT ![s] = "sending"] /\ UNCHANGED waiting
  /\ UNCHANGED <<table, call, holders, calls>>

\* The SSH channel takes the data, or fails.
Sent(s) ==
  /\ sess[s] = "sending"
  /\ \/ sess' = [sess EXCEPT ![s] = "run"] /\ UNCHANGED waiting
     \/ End(s)
  /\ UNCHANGED <<table, commands, call, holders, calls>>

\* The guest ends the channel.
Eof(s) ==
  /\ sess[s] = "run" /\ End(s)
  /\ UNCHANGED <<table, commands, call, holders, calls>>

Remove(s) ==
  /\ sess[s] = "ending" /\ WriteTurn(s)
  /\ table' = table \ {s}
  /\ sess' = [sess EXCEPT ![s] = "gone"]
  /\ commands' = [commands EXCEPT ![s] = <<>>]
  /\ waiting' = Tail(waiting)
  /\ UNCHANGED <<call, holders, calls>>

ShellNext ==
  \/ \E c \in Callers : \/ Inject(c) \/ Insert(c) \/ Lookup(c) \/ Return(c)
                        \/ \E s \in Sessions : \/ Open(c, s) \/ Send(c, s)
                                               \/ \E op \in {"write", "close"} : AskSession(c, op, s)
  \/ \E s \in Sessions : Receive(s) \/ Sent(s) \/ Eof(s) \/ Remove(s)

\* Tasks run; the guest takes the data or ends the channel.
ShellFair ==
  /\ \A c \in Callers : /\ WF_shellVars(Insert(c)) /\ WF_shellVars(Lookup(c)) /\ WF_shellVars(Return(c))
                        /\ \A s \in Sessions : WF_shellVars(Send(c, s))
  /\ \A s \in Sessions : WF_shellVars(Receive(s)) /\ WF_shellVars(Sent(s)) /\ WF_shellVars(Remove(s))

----------------------------------------------------------------------------
\* Some call waits for room in the channel of a session that ends: it keeps the
\* read lock the session waits for, and everybody waits behind the session.
Wedged ==
  \E c \in holders : \E s \in call[c].to : Len(commands[s]) = Capacity /\ sess[s] = "ending"

\* Every call of the front end returns, unless the lock is wedged.
CallsReturn == \A c \in Callers : call[c].op # "none" ~> call[c].op = "none" \/ Wedged

\* A session that was told to close, or whose channel ended, leaves the table,
\* unless the lock is wedged.
ClosedLeaves ==
  \A s \in Sessions : sess[s] = "ending" \/ "close" \in {commands[s][i] : i \in 1 .. Len(commands[s])}
                        ~> s \notin table \/ Wedged

\* Calls return and closed sessions go, as long as the sessions' lock is not
\* wedged by a call that waits for an ending session.
SessionsLive == CallsReturn /\ ClosedLeaves
=============================================================================
