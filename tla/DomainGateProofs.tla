-------------------------- MODULE DomainGateProofs --------------------------
(***************************************************************************)
(* Theorems about DomainGate, for any sets of domains, requests and        *)
(* commands.                                                               *)
(***************************************************************************)
EXTENDS DomainGate, TLAPS

\* Once it has started, a task knows its domain (and its operation), a waiter
\* its channel, and a sender in pending is an undecided one under the domain of
\* the task that created it: without this the type invariant is not inductive.
Started ==
  /\ \A r \in Requests : pc[r] # "idle" => dom[r] \in Domains
  /\ \A r \in Requests : pc[r] = "wait" => rx[r] \in Requests /\ chan[rx[r]] # "none"
  /\ \A d \in Domains : pending[d] # None =>
       /\ chan[pending[d]] = "Pending"
       /\ dom[pending[d]] = d /\ pc[pending[d]] # "idle"
  /\ \A c \in Commands : cpc[c] # "idle" => target[c] \in Domains /\ op[c] \in Ops
  /\ \A c \in Commands : cpc[c] = "idle" => op[c] = "none"
  /\ \A c \in Commands : cpc[c] = "send" => op[c] \in Decisions

TypeInv == TypeOK /\ Started

\* The types of the gate's state are preserved by every step of every task.
LEMMA TypeStep == TypeInv /\ [Next]_vars => TypeInv'
<1> SUFFICES ASSUME TypeInv, [Next]_vars PROVE TypeInv'
  OBVIOUS
<1> USE NoneAssumption DEF TypeInv, TypeOK, Started, lists, gate, conns, cmds
<1>1. CASE UNCHANGED vars
  BY <1>1 DEF vars
<1>2. ASSUME NEW r \in Requests, NEW d \in Domains, NEW source \in {"proxy", "browser"},
             Connect(r, d, source)
      PROVE  TypeInv'
  <2>1. Banned(d) \subseteq Domains
    BY CoversAssumption DEF Banned
  <2> QED
    BY <1>2, <2>1 DEF Connect
<1>3. ASSUME NEW r \in Requests, Check(r) PROVE TypeInv'
  <2>1. CASE IsAllowed(r)
    BY <2>1 DEF IsAllowed, Return, Goto
  <2>2. CASE CheckSystem(r)
    BY <2>2 DEF CheckSystem, Return, Goto
  <2>3. CASE CheckDeny(r)
    BY <2>3 DEF CheckDeny, Return, Goto
  <2>4. CASE CheckAllow(r)
    BY <2>4 DEF CheckAllow, Return, Goto
  <2>5. CASE CheckBlocklist(r)
    BY <2>5 DEF CheckBlocklist, Return, Goto
  <2>6. CASE Subscribe(r)
    BY <2>6 DEF Subscribe, Goto
  <2>7. CASE Prompt(r)
    BY <2>7 DEF Prompt, Goto
  <2>8. CASE WaitForDecision(r)
    BY <2>8 DEF WaitForDecision, Wake, Decisions
  <2>9. CASE Timeout(r)
    BY <2>9 DEF Timeout, Wake
  <2>10. CASE Cleanup(r)
    BY <2>10 DEF Cleanup, TakeSender, Goto
  <2> QED
    BY <1>3, <2>1, <2>2, <2>3, <2>4, <2>5, <2>6, <2>7, <2>8, <2>9, <2>10 DEF Check
<1>4. ASSUME NEW r \in Requests, TakeTokens(r) PROVE TypeInv'
  BY <1>4 DEF TakeTokens, Goto
<1>5. ASSUME NEW c \in Commands, NEW o \in Ops, NEW d \in Domains, NEW env \in BOOLEAN,
             Invoke(c, o, d, env)
      PROVE  TypeInv'
  BY <1>5 DEF Invoke, AfterTokens, Decisions
<1>6. ASSUME NEW c \in Commands, RunCommand(c) PROVE TypeInv'
  <2>1. CASE StoreTokens(c)
    BY <2>1 DEF StoreTokens, AfterTokens, Decisions
  <2>2. CASE EditMemory(c)
    BY <2>2 DEF EditMemory
  <2>3. CASE EditTable(c)
    BY <2>3 DEF EditTable
  <2>4. CASE SendDecision(c)
    BY <2>4 DEF SendDecision, TakeSender, Decisions
  <2> QED
    BY <1>6, <2>1, <2>2, <2>3, <2>4 DEF RunCommand
<1>7. CASE SetBlocklist
  BY <1>7 DEF SetBlocklist
<1>8. CASE Restart
  BY <1>8, MaxRestartsAssumption DEF Restart
<1> QED
  BY <1>1, <1>2, <1>3, <1>4, <1>5, <1>6, <1>7, <1>8 DEF Next

\* The type invariant holds in every reachable state: of the sets, the
\* tables, the channels and every task.
THEOREM TypeCorrect == Spec => []TypeOK
<1>1. Init => TypeInv
  BY SystemAssumption, MaxRestartsAssumption
  DEF Init, TypeInv, TypeOK, Started
<1>2. TypeInv => TypeOK
  BY DEF TypeInv
<1> QED
  BY <1>1, <1>2, TypeStep, PTL DEF Spec

-----------------------------------------------------------------------------
\* A request that has not asked yet has no channel; a waiter shares the domain
\* of the request that created its channel; an allowing value in a channel
\* comes from a completed answer for that domain.
Fresh ==
  \A r \in Requests :
    pc[r] \in {"idle", "precheck", "system", "deny", "allow", "blocklist", "ask"} =>
      chan[r] = "none"

ChannelAnswered ==
  \A r \in Requests : chan[r] \in {"AllowOnce", "AllowAlways"} =>
    \E c \in Commands : cpc[c] = "done" /\ op[c] = chan[r] /\ target[c] = dom[r]

SharedDomain ==
  \A r \in Requests : pc[r] = "wait" => dom[rx[r]] = dom[r] /\ pc[rx[r]] # "idle"

Unanswered ==
  \A r \in Requests : pc[r] = "idle" => why[r] = "none"

GateInv ==
  /\ TypeInv
  /\ Fresh /\ SharedDomain /\ ChannelAnswered /\ Unanswered
  /\ WaiterReachable /\ AdmittedByAnswer

\* The gate's inductive invariant is preserved by every step of every task.
LEMMA GateStep == GateInv /\ [Next]_vars => GateInv'
<1> SUFFICES ASSUME GateInv, [Next]_vars PROVE GateInv'
  OBVIOUS
<1>0. TypeInv'
  BY TypeStep DEF GateInv
<1> USE <1>0, NoneAssumption
    DEF GateInv, TypeInv, TypeOK, Started, lists, gate, conns, cmds,
        Fresh, SharedDomain, ChannelAnswered, Unanswered, WaiterReachable, AdmittedByAnswer
<1>1. CASE UNCHANGED vars
  BY <1>1 DEF vars
<1>2. ASSUME NEW r \in Requests, NEW d \in Domains, NEW source \in {"proxy", "browser"},
             Connect(r, d, source)
      PROVE  GateInv'
  BY <1>2 DEF Connect
<1>3. ASSUME NEW r \in Requests, Check(r) PROVE GateInv'
  <2>1. CASE IsAllowed(r)
    BY <2>1 DEF IsAllowed, Return, Goto
  <2>2. CASE CheckSystem(r)
    BY <2>2 DEF CheckSystem, Return, Goto
  <2>3. CASE CheckDeny(r)
    BY <2>3 DEF CheckDeny, Return, Goto
  <2>4. CASE CheckAllow(r)
    BY <2>4 DEF CheckAllow, Return, Goto
  <2>5. CASE CheckBlocklist(r)
    BY <2>5 DEF CheckBlocklist, Return, Goto
  <2>6. CASE Subscribe(r)
    BY <2>6 DEF Subscribe, Goto
  <2>7. CASE Prompt(r)
    BY <2>7 DEF Prompt, Goto
  <2>8. CASE WaitForDecision(r)
    BY <2>8 DEF WaitForDecision, Wake, Decisions
  <2>9. CASE Timeout(r)
    BY <2>9 DEF Timeout, Wake
  <2>10. CASE Cleanup(r)
    BY <2>10 DEF Cleanup, TakeSender, Goto
  <2> QED
    BY <1>3, <2>1, <2>2, <2>3, <2>4, <2>5, <2>6, <2>7, <2>8, <2>9, <2>10 DEF Check
<1>4. ASSUME NEW r \in Requests, TakeTokens(r) PROVE GateInv'
  BY <1>4 DEF TakeTokens, Goto
<1>5. ASSUME NEW c \in Commands, NEW o \in Ops, NEW d \in Domains, NEW env \in BOOLEAN,
             Invoke(c, o, d, env)
      PROVE  GateInv'
  BY <1>5 DEF Invoke, AfterTokens
<1>6. ASSUME NEW c \in Commands, RunCommand(c) PROVE GateInv'
  <2>1. CASE StoreTokens(c)
    BY <2>1 DEF StoreTokens, AfterTokens
  <2>2. CASE EditMemory(c)
    BY <2>2 DEF EditMemory
  <2>3. CASE EditTable(c)
    BY <2>3 DEF EditTable
  <2>4. CASE SendDecision(c)
    BY <2>4 DEF SendDecision, TakeSender, Decisions
  <2> QED
    BY <1>6, <2>1, <2>2, <2>3, <2>4 DEF RunCommand
<1>7. CASE SetBlocklist
  BY <1>7 DEF SetBlocklist
<1>8. CASE Restart
  BY <1>8 DEF Restart
<1> QED
  BY <1>1, <1>2, <1>3, <1>4, <1>5, <1>6, <1>7, <1>8, SMTT(30) DEF Next

\* The inductive invariant holds initially and hence always.
LEMMA GateInvariant == Spec => []GateInv
<1>1. Init => GateInv
  BY SystemAssumption, MaxRestartsAssumption
  DEF Init, GateInv, TypeInv, TypeOK, Started, Fresh, SharedDomain, ChannelAnswered,
      Unanswered, WaiterReachable, AdmittedByAnswer
<1> QED
  BY <1>1, GateStep, PTL DEF Spec

\* No waiter of the gate is ever cut off from the answer: while its channel is
\* undecided, resolve for its domain finds exactly that channel's sender.
THEOREM WaitersReachable == Spec => []WaiterReachable
<1>1. GateInv => WaiterReachable
  BY DEF GateInv
<1> QED
  BY <1>1, GateInvariant, PTL

\* Every admission by a prompt goes back to a completed user answer that allows
\* that very domain, whatever the interleaving of checks, answers, timeouts,
\* cleanups, edits and restarts.
THEOREM AdmissionsAnswered == Spec => []AdmittedByAnswer
<1>1. GateInv => AdmittedByAnswer
  BY DEF GateInv
<1> QED
  BY <1>1, GateInvariant, PTL

-----------------------------------------------------------------------------
\* Who is behind a dropped channel: a request for its domain that the user
\* denied or that timed out, and that has finished its clean-up.
Culprit(d) ==
  \E q \in Requests :
    dom[q] = d /\ why[q] \in {"Deny", "timeout"} /\ pc[q] \in {"done", "served"}

RefuseInv ==
  /\ \A r \in Requests : chan[r] = "dropped" => Culprit(dom[r])
  /\ \A r \in Requests : why[r] = "dropped" => Culprit(dom[r])
  /\ \A r \in Requests : pc[r] = "cleanup" => why[r] \in {"Deny", "timeout", "dropped"}

\* Steps that drop no channel, refuse nobody and touch no started request's
\* domain.
Harmless ==
  \A r \in Requests :
    /\ chan'[r] = "dropped" => chan[r] = "dropped"
    /\ why'[r] = "dropped" => why[r] = "dropped"
    /\ dom'[r] = dom[r] \/ pc[r] = "idle"
    /\ pc'[r] = "cleanup" => why'[r] \in {"Deny", "timeout", "dropped"}

\* A culprit stays one: nothing changes the domain and the answer of a request
\* that has finished, restarts included.
LEMMA CulpritStays ==
  ASSUME GateInv, [Next]_vars, NEW d \in Domains, Culprit(d)
  PROVE  Culprit(d)'
<1>1. PICK q \in Requests :
        dom[q] = d /\ why[q] \in {"Deny", "timeout"} /\ pc[q] \in {"done", "served"}
  BY DEF Culprit
<1>2. dom'[q] = dom[q] /\ why'[q] = why[q] /\ pc'[q] \in {"done", "served"}
  BY <1>1 DEF Next, vars, lists, gate, conns, cmds, Connect, Check, IsAllowed, CheckSystem,
     CheckDeny, CheckAllow, CheckBlocklist, Subscribe, Prompt, WaitForDecision, Timeout,
     Cleanup, TakeTokens, Invoke, RunCommand, StoreTokens, EditMemory, EditTable,
     SendDecision, SetBlocklist, Restart, Return, Goto, Wake, GateInv, TypeInv, TypeOK
<1> QED
  BY <1>1, <1>2 DEF Culprit

\* The reasons of refusals are preserved by every step of every task.
LEMMA RefuseStep == GateInv /\ RefuseInv /\ [Next]_vars => RefuseInv'
<1> SUFFICES ASSUME GateInv, RefuseInv, [Next]_vars PROVE RefuseInv'
  OBVIOUS
<1>0. \A d \in Domains : Culprit(d) => Culprit(d)'
  BY CulpritStays
<1>1. CASE Harmless
  <2>1. ASSUME NEW r \in Requests, chan[r] = "dropped" \/ why[r] = "dropped"
        PROVE  dom'[r] = dom[r] /\ dom[r] \in Domains /\ Culprit(dom[r])
    BY <1>1, <2>1 DEF Harmless, GateInv, TypeInv, Started, Fresh, Unanswered, RefuseInv
  <2> QED
    BY <1>0, <1>1, <2>1 DEF Harmless, RefuseInv, Culprit
<1> USE DEF GateInv, TypeInv, TypeOK, lists, gate, conns, cmds
<1>2. CASE UNCHANGED vars
  BY <1>1, <1>2 DEF vars, Harmless, RefuseInv
<1>3. ASSUME NEW r \in Requests, NEW d \in Domains, NEW source \in {"proxy", "browser"},
             Connect(r, d, source)
      PROVE  RefuseInv'
  BY <1>1, <1>3 DEF Connect, Harmless, RefuseInv
<1>4. ASSUME NEW r \in Requests, WaitForDecision(r) PROVE RefuseInv'
  <2>1. /\ dom' = dom /\ chan' = chan
        /\ \A q \in Requests : q # r => why'[q] = why[q] /\ pc'[q] = pc[q]
        /\ why'[r] = chan[rx[r]] /\ rx[r] \in Requests /\ dom[rx[r]] = dom[r]
        /\ chan[rx[r]] \in {"dropped", "Deny", "AllowOnce", "AllowAlways"}
    BY <1>4 DEF WaitForDecision, Wake, Started, SharedDomain, Decisions
  <2>2. pc'[r] = "cleanup" => why'[r] \in {"Deny", "timeout", "dropped"}
    BY <1>4, <2>1 DEF WaitForDecision, Wake
  <2>3. \A q \in Requests : pc[q] # "idle" => dom[q] \in Domains
    BY DEF Started
  <2>4. \A q \in Requests : chan[q] = "dropped" \/ why[q] = "dropped" => pc[q] # "idle"
    BY DEF Fresh, Unanswered
  <2>5. ASSUME NEW q \in Requests, chan'[q] = "dropped" \/ why'[q] = "dropped"
        PROVE  Culprit(dom[q]) /\ dom[q] \in Domains
    BY <2>1, <2>3, <2>4, <2>5 DEF RefuseInv
  <2>6. \A q \in Requests : pc'[q] = "cleanup" => why'[q] \in {"Deny", "timeout", "dropped"}
    BY <2>1, <2>2 DEF RefuseInv
  <2> QED
    BY <1>0, <2>1, <2>5, <2>6 DEF RefuseInv, Culprit
<1>5. ASSUME NEW r \in Requests, Cleanup(r) PROVE RefuseInv'
  <2>1. /\ dom' = dom /\ why' = why /\ pc' = [pc EXCEPT ![r] = "done"]
        /\ pc[r] = "cleanup" /\ why[r] \in {"Deny", "timeout", "dropped"}
        /\ \A q \in Requests : chan'[q] = "dropped" =>
             chan[q] = "dropped" \/ q = pending[dom[r]]
    BY <1>5 DEF Cleanup, TakeSender, Goto, RefuseInv
  <2>2. \A q \in Requests : pc[q] # "idle" => dom[q] \in Domains
    BY DEF Started
  <2>3. \A q \in Requests : chan[q] = "dropped" \/ why[q] = "dropped" => pc[q] # "idle"
    BY DEF Fresh, Unanswered
  <2>4. Culprit(dom[r])'
    <3>1. CASE why[r] = "dropped"
      BY <1>0, <2>1, <2>2, <3>1 DEF RefuseInv, Culprit
    <3>2. CASE why[r] \in {"Deny", "timeout"}
      BY <2>1, <3>2 DEF Culprit
    <3> QED
      BY <2>1, <3>1, <3>2
  <2>5. ASSUME NEW q \in Requests, chan'[q] = "dropped" PROVE Culprit(dom[q])'
    <3>1. CASE chan[q] = "dropped"
      BY <1>0, <2>1, <2>2, <2>3, <3>1 DEF RefuseInv, Culprit
    <3>2. CASE q = pending[dom[r]]
      <4>1. dom[q] = dom[r]
        BY <2>1, <2>2, <3>2, NoneAssumption DEF Started
      <4> QED
        BY <2>1, <2>4, <4>1 DEF Culprit
    <3> QED
      BY <2>1, <2>5, <3>1, <3>2
  <2>6. ASSUME NEW q \in Requests, why'[q] = "dropped" PROVE Culprit(dom[q])'
    BY <1>0, <2>1, <2>2, <2>3, <2>6 DEF RefuseInv, Culprit
  <2>7. \A q \in Requests : pc'[q] = "cleanup" => why'[q] \in {"Deny", "timeout", "dropped"}
    BY <2>1 DEF RefuseInv
  <2> QED
    BY <2>5, <2>6, <2>7 DEF RefuseInv
<1>6. ASSUME NEW r \in Requests,
             Check(r), ~WaitForDecision(r), ~Cleanup(r)
      PROVE  RefuseInv'
  BY <1>1, <1>6 DEF Check, IsAllowed, CheckSystem, CheckDeny, CheckAllow, CheckBlocklist,
     Subscribe, Prompt, Timeout, Return, Goto, Wake, Harmless, RefuseInv
<1>7. ASSUME NEW r \in Requests, TakeTokens(r) PROVE RefuseInv'
  BY <1>1, <1>7 DEF TakeTokens, Goto, Harmless, RefuseInv
<1>8. ASSUME NEW c \in Commands, NEW o \in Ops, NEW d \in Domains, NEW env \in BOOLEAN,
             Invoke(c, o, d, env)
      PROVE  RefuseInv'
  BY <1>1, <1>8 DEF Invoke, Harmless, RefuseInv
<1>9. ASSUME NEW c \in Commands, RunCommand(c) PROVE RefuseInv'
  <2>1. CASE SendDecision(c)
    BY <1>1, <2>1 DEF SendDecision, TakeSender, Started, Decisions, Harmless, RefuseInv
  <2> QED
    BY <1>1, <1>9, <2>1
    DEF RunCommand, StoreTokens, EditMemory, EditTable, Harmless, RefuseInv
<1>10. CASE SetBlocklist
  BY <1>1, <1>10 DEF SetBlocklist, Harmless, RefuseInv
<1>11. CASE Restart
  BY <1>1, <1>11 DEF Restart, Harmless, RefuseInv
<1> QED
  BY <1>2, <1>3, <1>4, <1>5, <1>6, <1>7, <1>8, <1>9, <1>10, <1>11 DEF Next

\* A connection that loses its prompt unanswered owes it to a denial or to a
\* timeout of another connection to the same domain, and to nothing else.
THEOREM RefusalsExplained == Spec => []RefusalExplained
<1>1. Init => RefuseInv
  BY DEF Init, RefuseInv
<1>2. RefuseInv => RefusalExplained
  BY DEF RefuseInv, RefusalExplained, Culprit
<1> QED
  BY <1>1, <1>2, RefuseStep, GateInvariant, PTL DEF Spec

-----------------------------------------------------------------------------
\* What a denial has written by the time it reaches each of its steps, unless
\* it is being undone; and what a request that went past the deny check knows.
DenialWritten ==
  \A c \in Commands : op[c] \in {"Deny", "add_deny"} =>
    /\ cpc[c] \in {"table", "send", "done"} => target[c] \in deny \/ Undone(target[c])
    /\ cpc[c] \in {"send", "done"} => target[c] \in dbDeny \/ Undone(target[c])

PastDenyCheck(r) ==
  \/ pc[r] \in {"allow", "blocklist", "ask", "wait", "cleanup"}
  \/ why[r] \in {"allow", "AllowOnce", "AllowAlways"}

DenialSeen ==
  \A r \in Requests :
    /\ \A e \in banned[r] :
         /\ e \in Covers[dom[r]]
         /\ (e \in deny /\ e \in dbDeny) \/ Undone(e)
         /\ PastDenyCheck(r) => Undone(e)
    /\ pc[r] \in {"idle", "precheck", "system", "deny"} => why[r] = "none"
    /\ pc[r] = "idle" => banned[r] = {}

DenyInv == TypeInv /\ DenialWritten /\ DenialSeen

\* Undoing is recorded for good.
LEMMA UndoneStays ==
  ASSUME TypeInv, [Next]_vars, NEW e \in Domains, Undone(e)
  PROVE  Undone(e)'
<1>1. PICK c \in Commands : target[c] = e /\ op[c] = "remove_deny"
  BY DEF Undone
<1>2. cpc[c] # "idle" => UNCHANGED <<target[c], op[c]>>
  BY DEF TypeInv, TypeOK, Next, vars, lists, gate, conns, cmds, Connect, Check, IsAllowed,
         CheckSystem, CheckDeny, CheckAllow, CheckBlocklist, Subscribe, Prompt,
         WaitForDecision, Timeout, Cleanup, TakeTokens, Invoke, RunCommand, StoreTokens,
         EditMemory, EditTable, SendDecision, SetBlocklist, Restart
<1> QED
  BY <1>1, <1>2 DEF Undone, TypeInv, Started

\* The invariant behind DenialHolds is preserved by every step of every task.
LEMMA DenyStep == DenyInv /\ [Next]_vars => DenyInv'
<1> SUFFICES ASSUME DenyInv, [Next]_vars PROVE DenyInv'
  OBVIOUS
<1>0. TypeInv'
  BY TypeStep DEF DenyInv
<1>u. \A e \in Domains : Undone(e) => Undone(e)'
  BY UndoneStays DEF DenyInv
<1> USE <1>0, <1>u
    DEF DenyInv, TypeInv, TypeOK, Started, lists, gate, conns, cmds,
        DenialWritten, DenialSeen, PastDenyCheck
<1>1. CASE UNCHANGED vars
  BY <1>1 DEF vars
<1>2. ASSUME NEW r \in Requests, NEW d \in Domains, NEW source \in {"proxy", "browser"},
             Connect(r, d, source)
      PROVE  DenyInv'
  <2>1. \A e \in Banned(d) : e \in Covers[d] /\ ((e \in deny /\ e \in dbDeny) \/ Undone(e))
    BY DEF Banned
  <2> QED
    BY <1>2, <2>1 DEF Connect
<1>3. ASSUME NEW r \in Requests, Check(r) PROVE DenyInv'
  <2>1. CASE IsAllowed(r)
    BY <2>1 DEF IsAllowed, Return, Goto
  <2>2. CASE CheckSystem(r)
    BY <2>2 DEF CheckSystem, Return, Goto
  <2>3. CASE CheckDeny(r)
    BY <2>3 DEF CheckDeny, Return, Goto, matches_domain_set
  <2>4. CASE CheckAllow(r)
    BY <2>4 DEF CheckAllow, Return, Goto
  <2>5. CASE CheckBlocklist(r)
    BY <2>5 DEF CheckBlocklist, Return, Goto
  <2>6. CASE Subscribe(r)
    BY <2>6 DEF Subscribe, Goto
  <2>7. CASE Prompt(r)
    BY <2>7 DEF Prompt, Goto
  <2>8. CASE WaitForDecision(r)
    BY <2>8 DEF WaitForDecision, Wake
  <2>9. CASE Timeout(r)
    BY <2>9 DEF Timeout, Wake
  <2>10. CASE Cleanup(r)
    BY <2>10 DEF Cleanup, Goto
  <2> QED
    BY <1>3, <2>1, <2>2, <2>3, <2>4, <2>5, <2>6, <2>7, <2>8, <2>9, <2>10 DEF Check
<1>4. ASSUME NEW r \in Requests, TakeTokens(r) PROVE DenyInv'
  BY <1>4 DEF TakeTokens, Goto
<1>5. ASSUME NEW c \in Commands, NEW o \in Ops, NEW d \in Domains, NEW env \in BOOLEAN,
             Invoke(c, o, d, env)
      PROVE  DenyInv'
  BY <1>5 DEF Invoke, AfterTokens
<1>6. ASSUME NEW c \in Commands, RunCommand(c) PROVE DenyInv'
  <2>0. op[c] = "remove_deny" => Undone(target[c])
    BY DEF Undone
  <2>1. CASE StoreTokens(c)
    BY <2>1 DEF StoreTokens, AfterTokens
  <2>2. CASE EditMemory(c)
    BY <2>2, <2>0 DEF EditMemory
  <2>3. CASE EditTable(c)
    BY <2>3, <2>0 DEF EditTable
  <2>4. CASE SendDecision(c)
    BY <2>4 DEF SendDecision
  <2> QED
    BY <1>6, <2>1, <2>2, <2>3, <2>4 DEF RunCommand
<1>7. CASE SetBlocklist
  BY <1>7 DEF SetBlocklist
<1>8. CASE Restart
  BY <1>8 DEF Restart
<1> QED
  BY <1>1, <1>2, <1>3, <1>4, <1>5, <1>6, <1>7, <1>8, SMTT(30) DEF Next

\* A completed denial is honoured by every later check that it covers, through
\* any interleaving of other commands and any number of restarts, until a
\* command undoes it.
THEOREM DenialsHold == Spec => []DenialHolds
<1>1. Init => DenyInv
  BY SystemAssumption, MaxRestartsAssumption
  DEF Init, DenyInv, TypeInv, TypeOK, Started, DenialWritten, DenialSeen, PastDenyCheck
<1>2. DenyInv => DenialHolds
  BY DEF DenyInv, DenialSeen, PastDenyCheck, DenialHolds, Granted
<1> QED
  BY <1>1, <1>2, DenyStep, PTL DEF Spec
-----------------------------------------------------------------------------
\* The commands whose overrides are stored or were: they will store no more.
Stored(c) == cpc[c] \notin {"idle", "tokens"}

\* Overrides in the map are those of a command that has stored them, for its
\* own domain, and nobody has taken them; those a request took were its
\* domain's, and nobody else has them.
TokensKept ==
  \A d \in Domains : tokens[d] # None =>
    /\ Stored(tokens[d]) /\ target[tokens[d]] = d
    /\ \A r \in Requests : got[r] # tokens[d]

TokensTaken ==
  \A r \in Requests : got[r] # None => pc[r] = "served" /\ Stored(got[r])

TokenInv == TypeInv /\ TokensKept /\ TokensTaken /\ TokensConsumedOnce

\* A step that neither stores overrides nor takes them leaves both where they
\* are; what is stored stays stored, and a command keeps its domain.
LEMMA TokensUntouched ==
  ASSUME TokenInv, TypeInv', UNCHANGED got,
         \A d \in Domains : tokens'[d] \in {None, tokens[d]},
         \A c \in Commands : Stored(c) => Stored(c)' /\ target'[c] = target[c],
         \A r \in Requests : pc[r] = "served" => pc'[r] = "served" /\ dom'[r] = dom[r]
  PROVE  TokenInv'
<1> USE NoneAssumption
<1>1. TypeInv /\ TokensKept /\ TokensTaken /\ TokensConsumedOnce
  BY DEF TokenInv
<1>2. \A r \in Requests : got[r] \in Commands \cup {None}
  BY <1>1 DEF TypeInv, TypeOK
<1>3. \A d \in Domains : tokens[d] \in Commands \cup {None}
  BY <1>1 DEF TypeInv, TypeOK
<1>4. TokensTaken'
  BY <1>1, <1>2 DEF TokensTaken
<1>5. TokensKept'
  BY <1>1, <1>3 DEF TokensKept
<1>6. TokensConsumedOnce'
  BY <1>1, <1>2 DEF TokensConsumedOnce, TokensTaken
<1>7. QED
  BY <1>4, <1>5, <1>6 DEF TokenInv

\* The invariant behind TokensConsumedOnce is preserved by every step of every
\* task: only StoreTokens and TakeTokens move overrides.
LEMMA TokenStep == TokenInv /\ [Next]_vars => TokenInv'
<1> SUFFICES ASSUME TokenInv, [Next]_vars PROVE TokenInv'
  OBVIOUS
<1> USE NoneAssumption
<1>1. TypeInv /\ TokensKept /\ TokensTaken /\ TokensConsumedOnce /\ TypeInv'
  BY TypeStep DEF TokenInv
<1>2. ASSUME NEW r \in Requests, TakeTokens(r) PROVE TokenInv'
  <2>1. /\ pc[r] = "done"
        /\ got' = [got EXCEPT ![r] = tokens[dom[r]]]
        /\ tokens' = [tokens EXCEPT ![dom[r]] = None]
        /\ pc' = [pc EXCEPT ![r] = "served"]
        /\ UNCHANGED <<dom, cpc, target>>
    BY <1>2 DEF TakeTokens, Goto, cmds
  <2>2. PICK d \in Domains : d = dom[r]
    BY <1>1, <2>1 DEF TypeInv, Started
  <2>3. PICK x \in Commands \cup {None} : x = tokens[d]
    BY <1>1 DEF TypeInv, TypeOK
  <2>4. /\ got'[r] = x /\ \A s \in Requests : s # r => got'[s] = got[s]
        /\ tokens'[d] = None /\ \A e \in Domains : e # d => tokens'[e] = tokens[e]
        /\ pc'[r] = "served" /\ \A s \in Requests : s # r => pc'[s] = pc[s]
    BY <1>1, <2>1, <2>2, <2>3 DEF TypeInv, TypeOK
  <2>5. x # None => /\ Stored(x) /\ target[x] = d /\ \A s \in Requests : got[s] # x
                    /\ \A e \in Domains : e # d => tokens[e] # x
    BY <1>1, <2>3 DEF TokensKept
  <2>6. TokensKept'
    BY <1>1, <2>1, <2>4, <2>5 DEF TokensKept, Stored
  <2>7. TokensTaken'
    BY <1>1, <2>1, <2>4, <2>5 DEF TokensTaken, Stored
  <2>8. TokensConsumedOnce'
    BY <1>1, <2>1, <2>2, <2>4, <2>5 DEF TokensConsumedOnce
  <2>9. QED
    BY <1>1, <2>6, <2>7, <2>8 DEF TokenInv
<1>3. ASSUME NEW c \in Commands, StoreTokens(c) PROVE TokenInv'
  <2>1. /\ cpc[c] = "tokens" /\ tokens' = [tokens EXCEPT ![target[c]] = c]
        /\ cpc' = [cpc EXCEPT ![c] = AfterTokens(op[c])]
        /\ UNCHANGED <<pc, dom, got, target>>
    BY <1>3 DEF StoreTokens, conns
  <2>2. PICK d \in Domains : d = target[c]
    BY <1>1, <2>1 DEF TypeInv, Started
  <2>3. /\ tokens'[d] = c /\ \A e \in Domains : e # d => tokens'[e] = tokens[e]
        /\ cpc'[c] \in {"send", "memory"} /\ \A b \in Commands : b # c => cpc'[b] = cpc[b]
    BY <1>1, <2>1, <2>2 DEF TypeInv, TypeOK, AfterTokens
  <2>4. \A r \in Requests : got[r] # c
    BY <1>1, <2>1 DEF TokensTaken, Stored
  <2>5. \A b \in Commands : Stored(b) => Stored(b)'
    BY <2>3 DEF Stored
  <2>6. Stored(c)'
    BY <2>3 DEF Stored
  <2>7. \A e \in Domains : tokens[e] \in Commands \cup {None}
    BY <1>1 DEF TypeInv, TypeOK
  <2>8. TokensKept'
    BY <1>1, <2>1, <2>2, <2>3, <2>4, <2>5, <2>6, <2>7 DEF TokensKept
  <2>9. \A r \in Requests : got[r] \in Commands \cup {None}
    BY <1>1 DEF TypeInv, TypeOK
  <2>10. TokensTaken'
    BY <1>1, <2>1, <2>5, <2>9 DEF TokensTaken
  <2>11. TokensConsumedOnce'
    BY <1>1, <2>1 DEF TokensConsumedOnce
  <2>12. QED
    BY <1>1, <2>8, <2>10, <2>11 DEF TokenInv
<1>4. ASSUME NEW r \in Requests, Check(r) \/ \E d \in Domains, source \in {"proxy", "browser"} : Connect(r, d, source)
      PROVE  TokenInv'
  <2>1. UNCHANGED <<got, tokens, cpc, target>>
    BY <1>4 DEF Check, Connect, IsAllowed, CheckSystem, CheckDeny, CheckAllow, CheckBlocklist, Subscribe,
                Prompt, WaitForDecision, Timeout, Cleanup, gate, cmds
  <2>2. pc[r] # "served" /\ (pc[r] # "idle" => dom' = dom)
    BY <1>4 DEF Check, Connect, IsAllowed, CheckSystem, CheckDeny, CheckAllow, CheckBlocklist, Subscribe,
                Prompt, WaitForDecision, Timeout, Cleanup
  <2>3. \A s \in Requests : s # r => pc'[s] = pc[s] /\ dom'[s] = dom[s]
    BY <1>1, <1>4 DEF Check, Connect, IsAllowed, CheckSystem, CheckDeny, CheckAllow, CheckBlocklist, Subscribe,
                Prompt, WaitForDecision, Timeout, Cleanup, Goto, Return, Wake, TypeInv, TypeOK
  <2>4. \A c \in Commands : Stored(c) => Stored(c)' /\ target'[c] = target[c]
    BY <2>1 DEF Stored
  <2>5. QED
    BY <1>1, <2>1, <2>2, <2>3, <2>4, TokensUntouched
<1>5. ASSUME NEW c \in Commands,
             \/ EditMemory(c) \/ EditTable(c) \/ SendDecision(c)
             \/ \E o \in Ops, d \in Domains, env \in BOOLEAN : Invoke(c, o, d, env)
      PROVE  TokenInv'
  <2>1. UNCHANGED <<got, tokens, pc, dom>>
    BY <1>5 DEF EditMemory, EditTable, SendDecision, Invoke, gate, conns
  <2>2. \A b \in Commands : b # c => cpc'[b] = cpc[b] /\ target'[b] = target[b]
    BY <1>1, <1>5 DEF EditMemory, EditTable, SendDecision, Invoke, TypeInv, TypeOK
  <2>3. cpc[c] # "idle" => cpc'[c] \in {"table", "send", "done"} /\ target' = target
    BY <1>1, <1>5 DEF EditMemory, EditTable, SendDecision, Invoke, TypeInv, TypeOK
  <2>4. \A b \in Commands : Stored(b) => Stored(b)' /\ target'[b] = target[b]
    BY <2>2, <2>3 DEF Stored
  <2>5. QED
    BY <1>1, <2>1, <2>4, TokensUntouched
<1>6. CASE SetBlocklist \/ UNCHANGED vars
  <2>1. UNCHANGED <<got, tokens, pc, dom, cpc, target>>
    BY <1>6 DEF SetBlocklist, vars, gate, conns, cmds
  <2>2. \A b \in Commands : Stored(b) => Stored(b)' /\ target'[b] = target[b]
    BY <2>1 DEF Stored
  <2>3. QED
    BY <1>1, <2>1, <2>2, TokensUntouched
<1>7. CASE Restart
  <2>1. /\ UNCHANGED <<got, dom, target>> /\ \A d \in Domains : tokens'[d] = None
        /\ \A r \in Requests : pc[r] = "served" => pc'[r] = "served"
        /\ \A c \in Commands : Stored(c) => cpc'[c] \in {cpc[c], "lost"}
    BY <1>7 DEF Restart
  <2>2. \A c \in Commands : Stored(c) => Stored(c)' /\ target'[c] = target[c]
    BY <2>1 DEF Stored
  <2>3. QED
    BY <1>1, <2>1, <2>2, TokensUntouched
<1>8. QED
  BY <1>2, <1>3, <1>4, <1>5, <1>6, <1>7 DEF Next, RunCommand

\* The overrides the user chose with an answer go to one connection at most,
\* and to one of the domain they were chosen for, whatever answers, edits,
\* connections and restarts come in between.
THEOREM TokensGoOnce == Spec => []TokensConsumedOnce
<1>1. Init => TypeInv
  BY SystemAssumption, MaxRestartsAssumption DEF Init, TypeInv, TypeOK, Started
<1>2. Init => TokensKept /\ TokensTaken /\ TokensConsumedOnce
  BY DEF Init, TokensKept, TokensTaken, TokensConsumedOnce
<1>3. Init => TokenInv
  BY <1>1, <1>2 DEF TokenInv
<1>4. TokenInv => TokensConsumedOnce
  BY DEF TokenInv
<1>5. QED
  BY <1>3, <1>4, TokenStep, PTL DEF Spec
=============================================================================
