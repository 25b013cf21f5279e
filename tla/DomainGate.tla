----------------------------- MODULE DomainGate -----------------------------
(***************************************************************************)
(* proxy/domain_gate.rs: runtime access control for the VM's outbound      *)
(* connections, with the two SQLite tables behind it (config_store.rs).    *)
(*                                                                         *)
(* Each connection runs DomainGate::check as a task of its own; each user  *)
(* command (the answer to a prompt, or an edit of the lists in the UI) is  *)
(* another task.  Every lock().await is a point where tasks interleave, so *)
(* every critical section is one action.                                   *)
(*                                                                         *)
(* A watch channel is named after the request that created it: chan[r] is  *)
(* "none" until r creates it, then the value it holds; "dropped" means the *)
(* sender was dropped without a decision having been sent.                 *)
(***************************************************************************)
EXTENDS Naturals, FiniteSets

CONSTANTS
  Domains,      \* domain names, as requested and as listed
  System,       \* SYSTEM_ALLOWLIST_DOMAINS
  Seeded,       \* rows of domain_allowlist with is_system = 1
  Listed,       \* the domains the bloom-filter blocklist contains
  Covers,       \* Covers[d]: the list entries that match d (matches_domain_set)
  Requests,     \* connections that call check
  Commands,     \* invocations of user commands
  MaxRestarts,  \* bound on restarts of the application
  None

ASSUME SystemAssumption == System \subseteq Seeded /\ Seeded \subseteq Domains
ASSUME CoversAssumption == /\ Covers \in [Domains -> SUBSET Domains]
                           /\ \A d \in Domains : d \in Covers[d]
ASSUME MaxRestartsAssumption == MaxRestarts \in Nat
ASSUME NoneAssumption == None \notin Requests \cup Domains \cup Commands

VARIABLES
  allow,    \* allow_always: Mutex<HashSet<String>>
  deny,     \* deny_always
  dbAllow,  \* table domain_allowlist
  dbDeny,   \* table domain_denylist
  blocklist,\* blocklist: RwLock<Option<..>>, the names it contains
  pending,  \* pending: domain -> watch sender
  tokens,   \* pending_tokens: domain -> the command whose env_names it holds
  chan,     \* the watch channels
  pc,       \* connections: where the task stands,
  dom,      \*   the domain it asks for,
  rx,       \*   the channel it waits on,
  why,      \*   the path that led to its answer,
  got,      \*   and the token overrides it took
  cpc,      \* commands: where the task stands,
  op,       \*   what it does
  target,   \*   and to which domain
  restarts,
  banned    \* history: the completed denials that covered the domain at the start

lists == <<allow, deny, dbAllow, dbDeny>>
gate  == <<blocklist, pending, tokens, chan>>
conns == <<pc, dom, rx, why, got, banned>>
cmds  == <<cpc, op, target>>
vars  == <<lists, gate, conns, cmds, restarts>>

Decisions == {"AllowOnce", "AllowAlways", "Deny"}
Edits     == {"add_always", "remove_always", "add_deny", "remove_deny"}
Ops       == Decisions \cup Edits

\* matches_domain_set: some entry of the set covers d
matches_domain_set(set, d) == Covers[d] \cap set # {}

-----------------------------------------------------------------------------
(* DomainGate::new: the sets are loaded from the tables, seeded at install. *)

Init ==
  /\ allow = Seeded /\ dbAllow = Seeded
  /\ deny = {} /\ dbDeny = {}
  /\ blocklist = {}
  /\ pending = [d \in Domains |-> None]
  /\ tokens = [d \in Domains |-> None]
  /\ chan = [r \in Requests |-> "none"]
  /\ pc = [r \in Requests |-> "idle"]
  /\ dom = [r \in Requests |-> None]
  /\ rx = [r \in Requests |-> None]
  /\ why = [r \in Requests |-> "none"]
  /\ got = [r \in Requests |-> None]
  /\ cpc = [c \in Commands |-> "idle"]
  /\ op = [c \in Commands |-> "none"]
  /\ target = [c \in Commands |-> None]
  /\ restarts = 0
  /\ banned = [r \in Requests |-> {}]

-----------------------------------------------------------------------------
(* A connection: the callers' pre-check, then DomainGate::check.           *)

Goto(r, l) == pc' = [pc EXCEPT ![r] = l] /\ UNCHANGED why

\* the answer is known; path names what led to it
Return(r, path) ==
  /\ pc' = [pc EXCEPT ![r] = "done"]
  /\ why' = [why EXCEPT ![r] = path]

Granted(r) ==
  /\ pc[r] \in {"done", "served"}
  /\ why[r] \in {"preallowed", "system", "allow", "AllowOnce", "AllowAlways"}

\* the entries covering d whose denial has completed, and those being undone
Banned(d) ==
  {e \in Covers[d] : \E c \in Commands :
     cpc[c] = "done" /\ target[c] = e /\ op[c] \in {"Deny", "add_deny"}}

Undone(e) == \E c \in Commands : target[c] = e /\ op[c] = "remove_deny"

\* A proxied connection starts at the pre-check; the open-url handler calls check.
Connect(r, d, source) ==
  /\ pc[r] = "idle"
  /\ pc' = [pc EXCEPT ![r] = IF source = "proxy" THEN "precheck" ELSE "system"]
  /\ dom' = [dom EXCEPT ![r] = d]
  /\ banned' = [banned EXCEPT ![r] = Banned(d)]
  /\ UNCHANGED <<lists, gate, rx, why, got, cmds, restarts>>

\* ReverseProxy::handle_request: is_allowed(domain) skips the gate altogether
IsAllowed(r) ==
  /\ pc[r] = "precheck"
  /\ IF matches_domain_set(allow, dom[r]) THEN Return(r, "preallowed") ELSE Goto(r, "system")
  /\ UNCHANGED <<lists, gate, dom, rx, got, banned, cmds, restarts>>

\* 0. system domains: always allowed, cannot be denied
CheckSystem(r) ==
  /\ pc[r] = "system"
  /\ IF dom[r] \in System THEN Return(r, "system") ELSE Goto(r, "deny")
  /\ UNCHANGED <<lists, gate, dom, rx, got, banned, cmds, restarts>>

\* fault: the denylist matched by exact name only
CheckDenyExact(r) ==
  /\ pc[r] = "deny"
  /\ IF dom[r] \in deny THEN Return(r, "deny") ELSE Goto(r, "allow")
  /\ UNCHANGED <<lists, gate, dom, rx, got, banned, cmds, restarts>>

\* 1. user deny
CheckDeny(r) ==
  /\ pc[r] = "deny"
  /\ IF matches_domain_set(deny, dom[r]) THEN Return(r, "deny") ELSE Goto(r, "allow")
  /\ UNCHANGED <<lists, gate, dom, rx, got, banned, cmds, restarts>>

\* 2. user allow
CheckAllow(r) ==
  /\ pc[r] = "allow"
  /\ IF matches_domain_set(allow, dom[r]) THEN Return(r, "allow") ELSE Goto(r, "blocklist")
  /\ UNCHANGED <<lists, gate, dom, rx, got, banned, cmds, restarts>>

\* 3. blocklist
CheckBlocklist(r) ==
  /\ pc[r] = "blocklist"
  /\ IF dom[r] \in blocklist THEN Return(r, "blocklist") ELSE Goto(r, "ask")
  /\ UNCHANGED <<lists, gate, dom, rx, got, banned, cmds, restarts>>

\* 4. subscribe to the pending decision on this domain ...
Subscribe(r) ==
  /\ pc[r] = "ask" /\ pending[dom[r]] # None
  /\ rx' = [rx EXCEPT ![r] = pending[dom[r]]]
  /\ Goto(r, "wait")
  /\ UNCHANGED <<lists, gate, dom, got, banned, cmds, restarts>>

\* fault: a new channel for every waiter, replacing the one pending
PromptAlways(r) ==
  /\ pc[r] = "ask"
  /\ pending' = [pending EXCEPT ![dom[r]] = r]
  /\ chan' = [chan EXCEPT ![r] = "Pending"]
  /\ rx' = [rx EXCEPT ![r] = r]
  /\ Goto(r, "wait")
  /\ UNCHANGED <<lists, blocklist, tokens, dom, got, banned, cmds, restarts>>

\* ... or create the channel and prompt the user (domain-access-request)
Prompt(r) ==
  /\ pc[r] = "ask" /\ pending[dom[r]] = None
  /\ pending' = [pending EXCEPT ![dom[r]] = r]
  /\ chan' = [chan EXCEPT ![r] = "Pending"]
  /\ rx' = [rx EXCEPT ![r] = r]
  /\ Goto(r, "wait")
  /\ UNCHANGED <<lists, blocklist, tokens, dom, got, banned, cmds, restarts>>

\* fault: an admitted waiter removes the pending entry too
WakeAlwaysCleans(r, path) ==
  /\ pc' = [pc EXCEPT ![r] = "cleanup"]
  /\ why' = [why EXCEPT ![r] = path]

\* After the wait: a denial, of any origin, still has the cleanup to do.
Wake(r, path) ==
  /\ pc' = [pc EXCEPT ![r] = IF path \in {"AllowOnce", "AllowAlways"} THEN "done" ELSE "cleanup"]
  /\ why' = [why EXCEPT ![r] = path]

\* wait_for_decision: changed() reports a value sent, or else a dropped sender
WaitForDecision(r) ==
  /\ pc[r] = "wait"
  /\ chan[rx[r]] # "Pending"
  /\ Wake(r, chan[rx[r]])
  /\ UNCHANGED <<lists, gate, dom, rx, got, banned, cmds, restarts>>

\* faults: no timer; the timeout admits
TimeoutNever(r) == pc[r] = "wait" /\ FALSE /\ UNCHANGED vars

TimeoutAdmits(r) ==
  /\ pc[r] = "wait"
  /\ chan[rx[r]] = "Pending"
  /\ Wake(r, "AllowOnce")
  /\ UNCHANGED <<lists, gate, dom, rx, got, banned, cmds, restarts>>

\* tokio::time::timeout of 60 s: it polls the wait first, so a ready answer wins
Timeout(r) ==
  /\ pc[r] = "wait"
  /\ chan[rx[r]] = "Pending"
  /\ Wake(r, "timeout")
  /\ UNCHANGED <<lists, gate, dom, rx, got, banned, cmds, restarts>>

\* pending.remove(d): the sender found there, if any, leaves its channel with value v
TakeSender(d, v) ==
  /\ chan' = [c \in Requests |-> IF c = pending[d] THEN v ELSE chan[c]]
  /\ pending' = [pending EXCEPT ![d] = None]

\* decision == Deny: remove the domain's pending entry, whosever it is by now
Cleanup(r) ==
  /\ pc[r] = "cleanup"
  /\ TakeSender(dom[r], "dropped")
  /\ Goto(r, "done")
  /\ UNCHANGED <<lists, blocklist, tokens, dom, rx, got, banned, cmds, restarts>>

\* fault: the overrides are read and left in the map
TakeTokensKeeps(r) ==
  /\ pc[r] = "done" /\ Granted(r)
  /\ got' = [got EXCEPT ![r] = tokens[dom[r]]]
  /\ Goto(r, "served")
  /\ UNCHANGED <<lists, gate, dom, rx, banned, cmds, restarts>>

\* take_pending_tokens: an admitted request consumes the overrides of its domain
TakeTokens(r) ==
  /\ pc[r] = "done" /\ Granted(r)
  /\ got' = [got EXCEPT ![r] = tokens[dom[r]]]
  /\ tokens' = [tokens EXCEPT ![dom[r]] = None]
  /\ Goto(r, "served")
  /\ UNCHANGED <<lists, blocklist, pending, chan, dom, rx, banned, cmds, restarts>>

-----------------------------------------------------------------------------
(* User commands: resolve and the list edits.  Each first changes the set  *)
(* under its lock, then the table, then (resolve) sends the decision.      *)

\* where the command goes once any token overrides are stored
AfterTokens(o) == IF o = "AllowOnce" THEN "send" ELSE "memory"

\* the dialog offers env names with the two allowing answers only
Invoke(c, o, d, env) ==
  /\ cpc[c] = "idle"
  /\ env => o \in {"AllowOnce", "AllowAlways"}
  /\ cpc' = [cpc EXCEPT ![c] = IF env THEN "tokens" ELSE AfterTokens(o)]
  /\ op' = [op EXCEPT ![c] = o]
  /\ target' = [target EXCEPT ![c] = d]
  /\ UNCHANGED <<lists, gate, conns, restarts>>

\* resolve: env_names are stored first, replacing what the domain had
StoreTokens(c) ==
  /\ cpc[c] = "tokens"
  /\ tokens' = [tokens EXCEPT ![target[c]] = c]
  /\ cpc' = [cpc EXCEPT ![c] = AfterTokens(op[c])]
  /\ UNCHANGED <<lists, blocklist, pending, chan, conns, op, target, restarts>>

\* the in-memory set
EditMemory(c) ==
  /\ cpc[c] = "memory"
  /\ allow' = CASE op[c] \in {"AllowAlways", "add_always"} -> allow \cup {target[c]}
                [] op[c] = "remove_always" -> allow \ {target[c]}
                [] OTHER -> allow
  /\ deny' = CASE op[c] \in {"Deny", "add_deny"} -> deny \cup {target[c]}
               [] op[c] = "remove_deny" -> deny \ {target[c]}
               [] OTHER -> deny
  /\ cpc' = [cpc EXCEPT ![c] = "table"]
  /\ UNCHANGED <<dbAllow, dbDeny, gate, conns, op, target, restarts>>

\* the table; a system row cannot be deleted (the error is ignored)
EditTable(c) ==
  /\ cpc[c] = "table"
  /\ dbAllow' = CASE op[c] \in {"AllowAlways", "add_always"} -> dbAllow \cup {target[c]}
                  [] op[c] = "remove_always" -> dbAllow \ ({target[c]} \ Seeded)
                  [] OTHER -> dbAllow
  /\ dbDeny' = CASE op[c] \in {"Deny", "add_deny"} -> dbDeny \cup {target[c]}
                 [] op[c] = "remove_deny" -> dbDeny \ {target[c]}
                 [] OTHER -> dbDeny
  /\ cpc' = [cpc EXCEPT ![c] = IF op[c] \in Decisions THEN "send" ELSE "done"]
  /\ UNCHANGED <<allow, deny, gate, conns, op, target, restarts>>

\* resolve: remove the sender from the map and send the decision to its waiters
SendDecision(c) ==
  /\ cpc[c] = "send"
  /\ TakeSender(target[c], op[c])
  /\ cpc' = [cpc EXCEPT ![c] = "done"]
  /\ UNCHANGED <<lists, blocklist, tokens, conns, op, target, restarts>>

\* set_blocklist: hot swap once the download or the local build has completed
SetBlocklist ==
  /\ blocklist # Listed
  /\ blocklist' = Listed
  /\ UNCHANGED <<lists, pending, tokens, chan, conns, cmds, restarts>>

\* The application exits and starts again: only the tables survive.
Restart ==
  /\ restarts < MaxRestarts
  /\ restarts' = restarts + 1
  /\ allow' = dbAllow /\ deny' = dbDeny
  /\ blocklist' = {}
  /\ pending' = [d \in Domains |-> None]
  /\ tokens' = [d \in Domains |-> None]
  /\ pc' = [r \in Requests |-> IF pc[r] = "idle" THEN "idle" ELSE "served"]
  /\ why' = [r \in Requests |->
               IF pc[r] \in {"idle", "done", "served"} THEN why[r] ELSE "exit"]
  /\ cpc' = [c \in Commands |-> IF cpc[c] \in {"idle", "done"} THEN cpc[c] ELSE "lost"]
  /\ UNCHANGED <<dbAllow, dbDeny, chan, dom, rx, got, banned, op, target>>

-----------------------------------------------------------------------------
Check(r) ==
  \/ IsAllowed(r) \/ CheckSystem(r) \/ CheckDeny(r) \/ CheckAllow(r) \/ CheckBlocklist(r)
  \/ Subscribe(r) \/ Prompt(r) \/ WaitForDecision(r) \/ Timeout(r) \/ Cleanup(r)

RunCommand(c) == StoreTokens(c) \/ EditMemory(c) \/ EditTable(c) \/ SendDecision(c)

Next ==
  \/ \E r \in Requests :
       \/ \E d \in Domains, source \in {"proxy", "browser"} : Connect(r, d, source)
       \/ Check(r)
       \/ TakeTokens(r)
  \/ \E c \in Commands :
       \/ \E o \in Ops, d \in Domains, env \in BOOLEAN : Invoke(c, o, d, env)
       \/ RunCommand(c)
  \/ SetBlocklist
  \/ Restart

Spec == Init /\ [][Next]_vars

\* The runtime polls every ready task, and the timer of every wait expires.
FairSpec == Spec /\ \A r \in Requests : WF_vars(Check(r))
                 /\ \A c \in Commands : WF_vars(RunCommand(c))

-----------------------------------------------------------------------------
(* Properties                                                              *)

\* The type invariant.
TypeOK ==
  /\ allow \subseteq Domains /\ deny \subseteq Domains
  /\ dbAllow \subseteq Domains /\ dbDeny \subseteq Domains
  /\ blocklist \in {{}, Listed}
  /\ pending \in [Domains -> Requests \cup {None}]
  /\ tokens \in [Domains -> Commands \cup {None}]
  /\ chan \in [Requests -> {"none", "Pending", "dropped"} \cup Decisions]
  /\ pc \in [Requests -> {"idle", "precheck", "system", "deny", "allow", "blocklist",
                          "ask", "wait", "cleanup", "done", "served"}]
  /\ dom \in [Requests -> Domains \cup {None}]
  /\ rx \in [Requests -> Requests \cup {None}]
  /\ why \in [Requests -> {"none", "preallowed", "system", "deny", "allow", "blocklist",
                           "timeout", "dropped", "exit"} \cup Decisions]
  /\ got \in [Requests -> Commands \cup {None}]
  /\ cpc \in [Commands -> {"idle", "tokens", "memory", "table", "send", "done", "lost"}]
  /\ op \in [Commands -> Ops \cup {"none"}]
  /\ target \in [Commands -> Domains \cup {None}]
  /\ restarts \in 0 .. MaxRestarts
  /\ banned \in [Requests -> SUBSET Domains]

\* A waiter can always be answered: the channel it waits on has been decided
\* or dropped, or its sender is the one resolve would find in pending under
\* the waiter's own domain (domain_gate.rs, step 4 of check and the end of
\* resolve: subscription and removal happen under the same lock).
WaiterReachable ==
  \A r \in Requests : pc[r] = "wait" =>
    /\ rx[r] \in Requests
    /\ chan[rx[r]] = "Pending" => pending[dom[r]] = rx[r]

\* A connection is admitted by a prompt only if the user gave that allowing
\* answer for that very domain: one domain's answer never admits another's
\* waiter, and no denial, timeout or dropped sender turns into an admission.
AdmittedByAnswer ==
  \A r \in Requests : why[r] \in {"AllowOnce", "AllowAlways"} =>
    \E c \in Commands : cpc[c] = "done" /\ op[c] = why[r] /\ target[c] = dom[r]

\* A connection loses its prompt without an answer only after another one to
\* the same domain was denied by the user or waited its 60 s: these are the
\* only two whose clean-up takes the pending entry, whosever it is by then.
RefusalExplained ==
  \A r \in Requests : why[r] = "dropped" =>
    \E q \in Requests : dom[q] = dom[r] /\ why[q] \in {"Deny", "timeout"}

\* Once a denial has completed, and until a command begins to undo it, a new
\* connection to a domain it covers is refused on every path that consults
\* check: neither the allowlist nor a prompt nor a restart lets it through.
\* (The callers' is_allowed pre-check does not consult check: DenylistBlocks.)
DenialHolds ==
  \A r \in Requests :
    Granted(r) /\ why[r] \notin {"preallowed", "system"} => \A e \in banned[r] : Undone(e)

\* The token overrides of one answer reach at most one connection, of the
\* domain they were chosen for (take_pending_tokens: "consumed once").
TokensConsumedOnce ==
  \A r \in Requests : got[r] # None =>
    /\ target[got[r]] = dom[r]
    /\ \A s \in Requests \ {r} : got[s] # got[r]

\* Every connection gets its answer: check never waits for ever.
EveryCheckReturns ==
  \A r \in Requests : pc[r] # "idle" ~> pc[r] \in {"done", "served"}

\* What the denylist screen says ("Domains blocked from VM outbound access.
\* Remove to allow future requests."): a denied domain is never reached.
DenylistBlocks ==
  \A r \in Requests : Granted(r) /\ why[r] # "system" => \A e \in banned[r] : Undone(e)
=============================================================================
