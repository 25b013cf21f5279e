---------------------------- MODULE ServiceProofs ----------------------------
(***************************************************************************)
(* Theorems about the browser logins, the OAuth providers, the OAuth vault,*)
(* the start of the config database, the variables in the guest and the    *)
(* usage of tokens, for any numbers of logins, tasks, sessions, calls,     *)
(* editors, starts, requests and days.                                     *)
(***************************************************************************)
EXTENDS BrowserLogins, OAuthProviders, OAuthVault, ConfigBoot, EnvInjection, TokenUsage, FiniteSetTheorems,
        WellFoundedInduction, TLAPS

-----------------------------------------------------------------------------
(* BrowserLogins                                                           *)

LoginPcs == {"new", "gate", "sleep", "map", "open", "done"}
LoginWays == Ways \cup {"none"}
LoginVms == Guests \cup {"none"}
LoginRecord == [pc : LoginPcs, way : LoginWays, vm : LoginVms, since : Nat]

LoginTypes ==
  /\ clock \in Nat \ {0} /\ removals \in Nat /\ lastOpen \in Nat
  /\ login \in [Logins -> LoginRecord]
  /\ opened \in [Ways -> Nat] /\ missed \in BOOLEAN

(* A request that has begun came some way, and the hook is recorded; only  *)
(* the hook asks the gate.                                                 *)
HasBegun(way) == \E l \in Logins : login[l].way = way /\ login[l].pc # "new"

BegunOK ==
  /\ \A l \in Logins : /\ login[l].pc # "new" => login[l].way \in Ways
                       /\ login[l].pc = "gate" => login[l].way = "hook"
  /\ HasBegun("hook") => lastOpen > 0

(* A way that opened the URL has a request that is done.                   *)
OpenersDone ==
  \A way \in Ways : opened[way] > 0 => \E l \in Logins : login[l].way = way /\ login[l].pc = "done"

(* The terminal goes on only before any hook, or one is counted as missed. *)
ShellWon ==
  \/ opened["shell"] > 0
  \/ \E l \in Logins : login[l].way = "shell" /\ login[l].pc \in {"map", "open"}

ShellFirst == ShellWon => ~HasBegun("hook") \/ missed

LoginInv == LoginTypes /\ BegunOK /\ OpenersDone /\ ShellFirst /\ LoginPortCloses

(* The removal timers of a login's mapping.                                *)
LEMMA PortCloses ==
  ASSUME removals \in Nat, LoginPortCloses, LoginNext
  PROVE  removals' \in Nat /\ LoginPortCloses'
<1>1. CASE LoginExpires
  BY <1>1 DEF LoginExpires, LoginPortCloses, Unmapped
<1>2. CASE \E vm \in Guests : UserMaps(vm)
  BY <1>2 DEF UserMaps, LoginPortCloses, Unmapped
<1>3. ASSUME NEW l \in Logins, Map(l) PROVE removals' \in Nat /\ LoginPortCloses'
  <2>1. \/ UNCHANGED <<mapping, removals>>
        \/ removals' = removals + 1
    BY <1>3 DEF Map, MapPort, StartsTimer
  <2>2. QED
    BY <2>1 DEF LoginPortCloses
<1>4. CASE UNCHANGED <<mapping, removals>>
  BY <1>4 DEF LoginPortCloses
<1>5. QED
  BY <1>1, <1>2, <1>3, <1>4 DEF LoginNext, ClockTicks, Gate, Wake, OpenBrowser, BeginLogin

(* One request goes to another stage.                                      *)
LEMMA StepsTo ==
  ASSUME LoginTypes, NEW l \in Logins, NEW to \in LoginPcs, Step(l, to)
  PROVE  /\ login' \in [Logins -> LoginRecord]
         /\ login'[l].pc = to /\ login'[l].way = login[l].way
         /\ \A m \in Logins : m # l => login'[m] = login[m]
<1>1. login' \in [Logins -> LoginRecord]
  BY DEF LoginTypes, LoginRecord, Step
<1>2. QED
  BY <1>1 DEF LoginTypes, LoginRecord, Step

(* A step that begins nothing, opens nothing and lets no terminal through. *)
LEMMA LoginQuiet ==
  ASSUME LoginInv, LoginTypes', LoginPortCloses', UNCHANGED opened, missed => missed', lastOpen' = lastOpen,
         \A l \in Logins : /\ login'[l].way = login[l].way
                           /\ login[l].pc = "new" <=> login'[l].pc = "new"
                           /\ login[l].pc = "done" => login'[l].pc = "done"
                           /\ login'[l].pc = "gate" => login[l].pc = "gate"
                           /\ login[l].way = "shell" /\ login'[l].pc \in {"map", "open"} =>
                                login[l].pc \in {"map", "open"} \/ missed' \/ lastOpen = 0
  PROVE  LoginInv'
<1>1. LoginTypes /\ BegunOK /\ OpenersDone /\ ShellFirst
  BY DEF LoginInv
<1>2. HasBegun("hook")' <=> HasBegun("hook")
  BY DEF HasBegun
<1>3. BegunOK'
  BY <1>1, <1>2 DEF BegunOK
<1>4. OpenersDone'
  BY <1>1 DEF OpenersDone
<1>5. ShellFirst'
  <2>1. SUFFICES ASSUME ShellWon', HasBegun("hook"), ~missed'
                 PROVE  FALSE
    BY <1>2 DEF ShellFirst
  <2>2. ~missed /\ lastOpen # 0 /\ lastOpen \in Nat
    BY <1>1, <2>1 DEF BegunOK, LoginTypes
  <2>3. ShellWon
    BY <2>1, <2>2 DEF ShellWon
  <2>4. QED
    BY <1>1, <2>1, <2>2, <2>3 DEF ShellFirst
<1>6. QED
  BY <1>3, <1>4, <1>5 DEF LoginInv

(* BeginLogin: the hook records the URL, and one that is late is missed.   *)
LEMMA BeginKeeps ==
  ASSUME LoginInv, LoginPortCloses', NEW l \in Logins, NEW way \in Ways, NEW vm \in Guests,
         BeginLogin(l, way, vm)
  PROVE  LoginInv'
<1>1. LoginTypes /\ BegunOK /\ OpenersDone /\ ShellFirst
  BY DEF LoginInv
<1>2. PICK to : to = CASE way = "hook" -> "gate" [] way = "shell" -> "sleep" [] OTHER -> "map"
  OBVIOUS
<1>3. /\ to \in {"gate", "sleep", "map"} /\ to \in LoginPcs
      /\ way = "shell" => to = "sleep"
      /\ to = "gate" => way = "hook"
  BY <1>2 DEF LoginPcs, Ways
<1>4. PICK q : q = [way |-> way, vm |-> vm, since |-> clock, pc |-> to]
  OBVIOUS
<1>5. /\ login[l].pc = "new" /\ login' = [login EXCEPT ![l] = q]
      /\ lastOpen' = IF way = "hook" THEN clock ELSE lastOpen
      /\ UNCHANGED <<clock, removals, opened>>
  BY <1>2, <1>4 DEF BeginLogin
<1>6. missed' = (missed \/ (way = "hook" /\ \E m \in Logins : login[m].way = "shell" /\ login[m].pc \in {"map", "open", "done"}))
  BY DEF BeginLogin
<1>7. q \in LoginRecord
  BY <1>1, <1>3, <1>4 DEF LoginRecord, LoginWays, LoginVms, LoginTypes
<1>8. q.way = way /\ q.pc = to
  BY <1>4
<1>9. /\ login'[l].way = way /\ login'[l].pc = to
      /\ \A m \in Logins : m # l => login'[m] = login[m]
  BY <1>1, <1>5, <1>8 DEF LoginTypes
<1>10. LoginTypes'
  BY <1>1, <1>5, <1>6, <1>7 DEF LoginTypes
<1>11. BegunOK'
  <2>1. \A m \in Logins : /\ login'[m].pc # "new" => login'[m].way \in Ways
                          /\ login'[m].pc = "gate" => login'[m].way = "hook"
    BY <1>1, <1>3, <1>9 DEF BegunOK
  <2>2. HasBegun("hook")' => way = "hook" \/ HasBegun("hook")
    BY <1>9 DEF HasBegun
  <2>3. lastOpen' > 0 \/ ~HasBegun("hook")'
    BY <1>1, <1>5, <2>2 DEF BegunOK, LoginTypes
  <2>4. QED
    BY <2>1, <2>3 DEF BegunOK
<1>12. OpenersDone'
  <2>1. SUFFICES ASSUME NEW w \in Ways, opened[w] > 0
                 PROVE  \E m \in Logins : login'[m].way = w /\ login'[m].pc = "done"
    BY <1>5 DEF OpenersDone
  <2>2. PICK m \in Logins : login[m].way = w /\ login[m].pc = "done"
    BY <1>1, <2>1 DEF OpenersDone
  <2>3. m # l
    BY <1>5, <2>2
  <2>4. QED
    BY <1>9, <2>2, <2>3
<1>13. ShellFirst'
  <2>1. SUFFICES ASSUME ShellWon', HasBegun("hook")', ~missed'
                 PROVE  FALSE
    BY DEF ShellFirst
  <2>2. ~missed
    BY <1>6, <2>1
  <2>3. ShellWon
    <3>1. CASE opened["shell"] > 0
      BY <3>1 DEF ShellWon
    <3>2. CASE \E m \in Logins : login'[m].way = "shell" /\ login'[m].pc \in {"map", "open"}
      <4>1. PICK m \in Logins : login'[m].way = "shell" /\ login'[m].pc \in {"map", "open"}
        BY <3>2
      <4>2. m # l
        BY <1>3, <1>9, <4>1
      <4>3. QED
        BY <1>9, <4>1, <4>2 DEF ShellWon
    <3>3. QED
      BY <1>5, <2>1, <3>1, <3>2 DEF ShellWon
  <2>4. ~HasBegun("hook")
    BY <1>1, <2>2, <2>3 DEF ShellFirst
  <2>5. way = "hook"
    BY <1>9, <2>1, <2>4 DEF HasBegun
  <2>6. \E m \in Logins : login[m].way = "shell" /\ login[m].pc \in {"map", "open", "done"}
    <3>1. CASE opened["shell"] > 0
      BY <1>1, <3>1 DEF OpenersDone, Ways
    <3>2. CASE \E m \in Logins : login[m].way = "shell" /\ login[m].pc \in {"map", "open"}
      BY <3>2
    <3>3. QED
      BY <2>3, <3>1, <3>2 DEF ShellWon
  <2>7. QED
    BY <1>6, <2>1, <2>5, <2>6
<1>14. QED
  BY <1>10, <1>11, <1>12, <1>13 DEF LoginInv

(* OpenBrowser: it is done, and recorded.                                  *)
LEMMA OpenKeeps ==
  ASSUME LoginInv, LoginPortCloses', NEW l \in Logins, OpenBrowser(l)
  PROVE  LoginInv'
<1>1. LoginTypes /\ BegunOK /\ OpenersDone /\ ShellFirst
  BY DEF LoginInv
<1>2. /\ login[l].pc = "open" /\ Step(l, "done")
      /\ lastOpen' = IF login[l].way = "shell" THEN clock ELSE lastOpen
      /\ opened' = [opened EXCEPT ![login[l].way] = opened[login[l].way] + 1]
      /\ UNCHANGED <<clock, removals, missed>>
  BY DEF OpenBrowser
<1>3. PICK way \in Ways : way = login[l].way
  <2>1. login[l].pc # "new" => login[l].way \in Ways
    BY <1>1 DEF BegunOK
  <2>2. QED
    BY <1>2, <2>1
<1>4. /\ opened'[way] = opened[way] + 1 /\ opened' \in [Ways -> Nat]
      /\ \A w \in Ways : w # way => opened'[w] = opened[w]
  BY <1>1, <1>2, <1>3 DEF LoginTypes
<1>5. /\ login' \in [Logins -> LoginRecord]
      /\ login'[l].pc = "done" /\ login'[l].way = way
      /\ \A m \in Logins : m # l => login'[m] = login[m]
  BY <1>1, <1>2, <1>3, StepsTo DEF LoginPcs
<1>6. LoginTypes'
  BY <1>1, <1>2, <1>4, <1>5 DEF LoginTypes
<1>7. HasBegun("hook")' <=> HasBegun("hook")
  BY <1>2, <1>3, <1>5 DEF HasBegun
<1>8. BegunOK'
  <2>1. \A m \in Logins : /\ login'[m].pc # "new" => login'[m].way \in Ways
                          /\ login'[m].pc = "gate" => login'[m].way = "hook"
    BY <1>1, <1>5 DEF BegunOK
  <2>2. HasBegun("hook") => lastOpen' > 0
    BY <1>1, <1>2 DEF BegunOK, LoginTypes
  <2>3. QED
    BY <1>7, <2>1, <2>2 DEF BegunOK
<1>9. OpenersDone'
  <2>1. SUFFICES ASSUME NEW w \in Ways, opened'[w] > 0
                 PROVE  \E m \in Logins : login'[m].way = w /\ login'[m].pc = "done"
    BY DEF OpenersDone
  <2>2. CASE w = way
    BY <1>5, <2>2
  <2>3. CASE w # way
    <3>1. PICK m \in Logins : login[m].way = w /\ login[m].pc = "done"
      BY <1>1, <1>4, <2>1, <2>3 DEF OpenersDone
    <3>2. QED
      BY <1>3, <1>5, <2>3, <3>1
  <2>4. QED
    BY <2>2, <2>3
<1>10. ShellFirst'
  <2>1. ShellWon' => ShellWon
    <3>1. SUFFICES ASSUME ShellWon' PROVE ShellWon
      OBVIOUS
    <3>2. CASE way = "shell"
      BY <1>2, <1>3, <3>2 DEF ShellWon
    <3>3. CASE way # "shell"
      <4>1. opened'["shell"] = opened["shell"]
        BY <1>4, <3>3 DEF Ways
      <4>2. QED
        BY <1>5, <3>1, <3>3, <4>1 DEF ShellWon
    <3>4. QED
      BY <3>2, <3>3
  <2>2. QED
    BY <1>1, <1>2, <1>7, <2>1 DEF ShellFirst
<1>11. QED
  BY <1>6, <1>8, <1>9, <1>10 DEF LoginInv

(* The invariant of the logins is inductive.                               *)
LEMMA LoginInvStep == LoginInv /\ [LoginNext]_loginVars => LoginInv'
<1> SUFFICES ASSUME LoginInv, [LoginNext]_loginVars
             PROVE  LoginInv'
  OBVIOUS
<1>1. LoginTypes /\ BegunOK /\ LoginPortCloses
  BY DEF LoginInv
<1>2. CASE UNCHANGED loginVars
  <2>1. UNCHANGED <<clock, mapping, removals, lastOpen, login, opened, missed>>
    BY <1>2 DEF loginVars
  <2>2. LoginTypes' /\ LoginPortCloses'
    BY <1>1, <2>1 DEF LoginTypes, LoginPortCloses
  <2>3. QED
    BY <2>1, <2>2, LoginQuiet
<1>3. CASE LoginNext
  <2>1. removals' \in Nat /\ LoginPortCloses'
    BY <1>1, <1>3, PortCloses DEF LoginTypes
  <2>2. CASE LoginExpires \/ ClockTicks \/ \E vm \in Guests : UserMaps(vm)
    <3>1. /\ UNCHANGED <<lastOpen, login, opened, missed>>
          /\ clock' = clock \/ clock' = clock + 1
      BY <2>2 DEF LoginExpires, ClockTicks, UserMaps
    <3>2. LoginTypes'
      BY <1>1, <2>1, <3>1 DEF LoginTypes
    <3>3. QED
      BY <2>1, <3>1, <3>2, LoginQuiet
  <2>3. ASSUME NEW l \in Logins, Gate(l) PROVE LoginInv'
    <3>1. /\ login[l].pc = "gate" /\ UNCHANGED <<clock, lastOpen, opened, missed>>
          /\ \E to \in {"map", "done"} : Step(l, to)
      BY <2>3 DEF Gate
    <3>2. PICK to \in {"map", "done"} : Step(l, to)
      BY <3>1
    <3>3. to \in LoginPcs
      BY DEF LoginPcs
    <3>4. /\ login' \in [Logins -> LoginRecord]
          /\ login'[l].pc = to /\ login'[l].way = login[l].way
          /\ \A m \in Logins : m # l => login'[m] = login[m]
      BY <1>1, <3>2, <3>3, StepsTo
    <3>5. LoginTypes'
      BY <1>1, <2>1, <3>1, <3>4 DEF LoginTypes
    <3>6. login[l].way # "shell"
      <4>1. login[l].pc = "gate" => login[l].way = "hook"
        BY <1>1, <2>3 DEF BegunOK
      <4>2. QED
        BY <3>1, <4>1
    <3>7. QED
      BY <2>1, <3>1, <3>4, <3>5, <3>6, LoginQuiet
  <2>4. ASSUME NEW l \in Logins, Wake(l) PROVE LoginInv'
    <3>1. /\ login[l].pc = "sleep" /\ UNCHANGED <<clock, lastOpen, opened>>
          /\ Step(l, IF Recent THEN "done" ELSE "map")
      BY <2>4 DEF Wake
    <3>2. missed' = (missed \/ (lastOpen > 0 /\ clock - lastOpen >= 2))
      BY <2>4 DEF Wake
    <3>3. PICK to : to = IF Recent THEN "done" ELSE "map"
      OBVIOUS
    <3>4. to \in LoginPcs
      BY <3>3 DEF LoginPcs
    <3>5. /\ login' \in [Logins -> LoginRecord]
          /\ login'[l].pc = to /\ login'[l].way = login[l].way
          /\ \A m \in Logins : m # l => login'[m] = login[m]
      BY <1>1, <3>1, <3>3, <3>4, StepsTo
    <3>6. LoginTypes'
      BY <1>1, <2>1, <3>1, <3>2, <3>5 DEF LoginTypes
    <3>7. to \in {"map", "open"} => missed' \/ lastOpen = 0
      <4>1. to # "done" => lastOpen = 0 \/ (lastOpen > 0 /\ clock - lastOpen >= 2)
        BY <1>1, <3>3 DEF Recent, LoginTypes
      <4>2. QED
        BY <3>2, <4>1
    <3>8. missed => missed'
      BY <3>2
    <3>9. to \in {"map", "done"}
      BY <3>3
    <3>10. QED
      BY <2>1, <3>1, <3>5, <3>6, <3>7, <3>8, <3>9, LoginQuiet
  <2>5. ASSUME NEW l \in Logins, Map(l) PROVE LoginInv'
    <3>1. /\ login[l].pc = "map" /\ UNCHANGED <<clock, lastOpen, opened, missed>>
          /\ \E to \in {"open", "done"} : Step(l, to)
      BY <2>5 DEF Map
    <3>2. PICK to \in {"open", "done"} : Step(l, to)
      BY <3>1
    <3>3. to \in LoginPcs
      BY DEF LoginPcs
    <3>4. /\ login' \in [Logins -> LoginRecord]
          /\ login'[l].pc = to /\ login'[l].way = login[l].way
          /\ \A m \in Logins : m # l => login'[m] = login[m]
      BY <1>1, <3>2, <3>3, StepsTo
    <3>5. LoginTypes'
      BY <1>1, <2>1, <3>1, <3>4 DEF LoginTypes
    <3>6. QED
      BY <2>1, <3>1, <3>4, <3>5, LoginQuiet
  <2>6. ASSUME NEW l \in Logins, OpenBrowser(l) PROVE LoginInv'
    BY <2>1, <2>6, OpenKeeps
  <2>7. ASSUME NEW l \in Logins, NEW way \in Ways, NEW vm \in Guests, BeginLogin(l, way, vm)
        PROVE  LoginInv'
    BY <2>1, <2>7, BeginKeeps
  <2>8. QED
    BY <1>3, <2>2, <2>3, <2>4, <2>5, <2>6, <2>7 DEF LoginNext
<1>4. QED
  BY <1>2, <1>3

(* A login's port mapping always has a timer that will remove it, and the  *)
(* hook and the terminal do not both open the URL (but for the two         *)
(* orders in which the terminal's check cannot see the hook), for any      *)
(* number of logins, VMs and timers.                                       *)
THEOREM LoginsAreSafe == LoginSpec => []LoginsSafe
<1>1. LoginInit => LoginInv
  <2>1. SUFFICES ASSUME LoginInit PROVE LoginInv
    OBVIOUS
  <2>2. NoLogin \in LoginRecord
    BY DEF NoLogin, LoginRecord, LoginPcs, LoginWays, LoginVms
  <2>3. LoginTypes
    <3>1. login \in [Logins -> LoginRecord] /\ opened \in [Ways -> Nat]
      BY <2>1, <2>2 DEF LoginInit
    <3>2. clock \in Nat \ {0} /\ removals \in Nat /\ lastOpen \in Nat
      BY <2>1 DEF LoginInit
    <3>3. missed \in BOOLEAN
      BY <2>1 DEF LoginInit
    <3>4. QED
      BY <3>1, <3>2, <3>3 DEF LoginTypes
  <2>4. \A l \in Logins : login[l].pc = "new" /\ login[l].way = "none"
    BY <2>1 DEF LoginInit, NoLogin
  <2>5. \A w \in Ways : opened[w] = 0
    BY <2>1 DEF LoginInit
  <2>6. BegunOK /\ OpenersDone
    BY <2>4, <2>5 DEF BegunOK, HasBegun, OpenersDone
  <2>7. ShellFirst
    BY <2>4, <2>5 DEF ShellFirst, ShellWon, Ways
  <2>8. LoginPortCloses
    BY <2>1 DEF LoginInit, LoginPortCloses, Unmapped
  <2>9. QED
    BY <2>3, <2>6, <2>7, <2>8 DEF LoginInv
<1>2. LoginInv => LoginsSafe
  <2>1. SUFFICES ASSUME LoginInv PROVE OpenedOnce
    BY DEF LoginInv, LoginsSafe
  <2>2. LoginTypes /\ OpenersDone /\ ShellFirst
    BY <2>1 DEF LoginInv
  <2>3. opened["hook"] \in Nat /\ opened["shell"] \in Nat
    BY <2>2 DEF LoginTypes, Ways
  <2>4. opened["hook"] > 0 => HasBegun("hook")
    BY <2>2 DEF OpenersDone, HasBegun, Ways
  <2>5. opened["shell"] > 0 => ShellWon
    BY DEF ShellWon
  <2>6. QED
    BY <2>2, <2>3, <2>4, <2>5 DEF ShellFirst, OpenedOnce
<1>3. QED
  BY <1>1, <1>2, LoginInvStep, PTL DEF LoginSpec

-----------------------------------------------------------------------------
(* OAuthProviders                                                          *)

UpdatePcs == {"rest", "rows", "scripts", "load", "swap"}
ScriptTables == [Offered -> Scripts]
Lists == SUBSET Offered
UpdateRecord == [pc : UpdatePcs, got : ScriptTables, listed : Lists, todo : Lists,
                 saved : BOOLEAN, loaded : ScriptTables]

ProviderTypes ==
  /\ list \in [listed : Lists, script : ScriptTables] /\ lists \in Nat
  /\ scripts \in ScriptTables
  /\ upd \in [Updaters -> UpdateRecord]

(* Tasks overlap only where crossed records it.                            *)
OneTask ==
  crossed \/ \A u, v \in Updaters : upd[u].pc # "rest" /\ upd[v].pc # "rest" => u = v

(* What a lone task has seen: until it saves a script the engine in use is *)
(* current, and an engine it made but not yet put in use is current.       *)
TaskCurrent(u) ==
  /\ upd[u].pc = "rows" => inUse = Loaded
  /\ upd[u].pc = "scripts" /\ upd[u].saved = FALSE => inUse = Loaded
  /\ upd[u].pc = "swap" => upd[u].loaded = Loaded

TasksCurrent ==
  \/ crossed \/ ~served
  \/ /\ (\A u \in Updaters : upd[u].pc = "rest") => inUse = Loaded
     /\ \A u \in Updaters : TaskCurrent(u)

ProviderInv == ProviderTypes /\ OneTask /\ TasksCurrent /\ ScriptsSigned

(* An updater at rest is a record of an updater.                            *)
LEMMA NoUpdateTyped ==
  /\ NoUpdate \in UpdateRecord
  /\ NoUpdate.pc = "rest" /\ NoUpdate.saved = FALSE
<1>1. [p \in Offered |-> NoScript] \in ScriptTables
  BY OAuthAssumption DEF ScriptTables, Scripts, NoScript
<1>2. {} \in Lists
  BY DEF Lists
<1>3. QED
  BY <1>1, <1>2 DEF NoUpdate, UpdateRecord, UpdatePcs

(* One task goes on.                                                       *)
LEMMA TaskGoes ==
  ASSUME ProviderTypes, NEW u \in Updaters, NEW r \in UpdateRecord, Goes(u, r)
  PROVE  /\ upd' \in [Updaters -> UpdateRecord]
         /\ upd'[u] = r /\ \A v \in Updaters : v # u => upd'[v] = upd[v]
BY DEF ProviderTypes, Goes

(* A task begins: it is alone, or the overlap is recorded.                 *)
LEMMA BeginKeepsOne ==
  ASSUME ProviderInv, NEW u \in Updaters, Begin(u), NEW r \in UpdateRecord, Goes(u, r)
  PROVE  /\ OneTask' /\ upd' \in [Updaters -> UpdateRecord]
         /\ upd'[u] = r /\ \A v \in Updaters : v # u => upd'[v] = upd[v]
         /\ ~crossed' => ~crossed /\ \A v \in Updaters : upd[v].pc = "rest"
<1>1. ProviderTypes /\ OneTask
  BY DEF ProviderInv
<1>2. /\ upd' \in [Updaters -> UpdateRecord]
      /\ upd'[u] = r /\ \A v \in Updaters : v # u => upd'[v] = upd[v]
  BY <1>1, TaskGoes
<1>3. ~crossed' => ~crossed /\ Updating = {}
  BY DEF Begin
<1>4. ~crossed' => ~crossed /\ \A v \in Updaters : upd[v].pc = "rest"
  BY <1>3 DEF Updating
<1>5. OneTask'
  BY <1>2, <1>4 DEF OneTask
<1>6. QED
  BY <1>2, <1>4, <1>5

(* A task that begins by making the engine anew.                           *)
LEMMA BeginLoad ==
  ASSUME ProviderInv, NEW u \in Updaters, Begin(u), Goes(u, [NoUpdate EXCEPT !.pc = "load"]),
         UNCHANGED <<list, lists, scripts, inUse>>
  PROVE  ProviderInv'
<1>1. ProviderTypes /\ OneTask /\ ScriptsSigned
  BY DEF ProviderInv
<1>2. PICK r : r = [NoUpdate EXCEPT !.pc = "load"]
  OBVIOUS
<1>3. r \in UpdateRecord
  BY <1>2, NoUpdateTyped DEF UpdateRecord, UpdatePcs
<1>4. r.pc = "load"
  BY <1>2, NoUpdateTyped DEF UpdateRecord
<1>5. /\ OneTask' /\ upd' \in [Updaters -> UpdateRecord]
      /\ upd'[u] = r /\ \A v \in Updaters : v # u => upd'[v] = upd[v]
      /\ ~crossed' => ~crossed /\ \A v \in Updaters : upd[v].pc = "rest"
  BY <1>2, <1>3, BeginKeepsOne
<1>6. ProviderTypes' /\ ScriptsSigned'
  BY <1>1, <1>5 DEF ProviderTypes, ScriptsSigned
<1>7. TasksCurrent'
  BY <1>4, <1>5 DEF TasksCurrent, TaskCurrent
<1>8. QED
  BY <1>5, <1>6, <1>7 DEF ProviderInv

(* A task under way goes on, and the key store is as it was.               *)
LEMMA TaskKeeps ==
  ASSUME ProviderInv, NEW u \in Updaters, upd[u].pc # "rest", NEW r \in UpdateRecord, Goes(u, r),
         UNCHANGED <<list, lists, served, scripts, crossed>>,
         ~crossed /\ served =>
            /\ r.pc = "rest" => inUse' = Loaded
            /\ r.pc = "rows" => inUse' = Loaded
            /\ r.pc = "scripts" /\ r.saved = FALSE => inUse' = Loaded
            /\ r.pc = "swap" => r.loaded = Loaded
  PROVE  ProviderInv'
<1>1. ProviderTypes /\ OneTask /\ ScriptsSigned
  BY DEF ProviderInv
<1>2. /\ upd' \in [Updaters -> UpdateRecord]
      /\ upd'[u] = r /\ \A v \in Updaters : v # u => upd'[v] = upd[v]
  BY <1>1, TaskGoes
<1>3. ProviderTypes' /\ ScriptsSigned'
  BY <1>1, <1>2 DEF ProviderTypes, ScriptsSigned
<1>4. OneTask'
  BY <1>1, <1>2 DEF OneTask
<1>5. Loaded' = Loaded
  BY DEF Loaded
<1>6. ~crossed => \A v \in Updaters : v # u => upd[v].pc = "rest"
  BY <1>1 DEF OneTask
<1>7. TasksCurrent'
  <2>1. SUFFICES ASSUME ~crossed, served
                 PROVE  /\ (\A v \in Updaters : upd'[v].pc = "rest") => inUse' = Loaded'
                        /\ \A v \in Updaters : TaskCurrent(v)'
    BY DEF TasksCurrent
  <2>2. (\A v \in Updaters : upd'[v].pc = "rest") => inUse' = Loaded'
    BY <1>2, <1>5, <2>1
  <2>3. TaskCurrent(u)'
    BY <1>2, <1>5, <2>1 DEF TaskCurrent
  <2>4. ASSUME NEW v \in Updaters, v # u PROVE TaskCurrent(v)'
    BY <1>2, <1>6, <2>1, <2>4 DEF TaskCurrent
  <2>5. QED
    BY <2>2, <2>3, <2>4
<1>8. QED
  BY <1>3, <1>4, <1>7 DEF ProviderInv

(* FetchList: the task has changed nothing yet.                            *)
LEMMA FetchKeeps ==
  ASSUME ProviderInv, NEW u \in Updaters, FetchList(u)
  PROVE  ProviderInv'
<1>1. ProviderTypes /\ OneTask /\ ScriptsSigned /\ TasksCurrent
  BY DEF ProviderInv
<1>2. PICK r : r = [NoUpdate EXCEPT !.pc = "rows", !.listed = list.listed, !.got = list.script]
  OBVIOUS
<1>3. Begin(u) /\ Goes(u, r) /\ UNCHANGED <<served, list, lists, scripts, inUse>>
  BY <1>2 DEF FetchList
<1>4. r \in UpdateRecord
  <2>1. list.listed \in Lists /\ list.script \in ScriptTables
    BY <1>1 DEF ProviderTypes
  <2>2. QED
    BY <1>2, <2>1, NoUpdateTyped DEF UpdateRecord, UpdatePcs
<1>5. r.pc = "rows"
  BY <1>2, NoUpdateTyped DEF UpdateRecord
<1>6. /\ OneTask' /\ upd' \in [Updaters -> UpdateRecord]
      /\ upd'[u] = r /\ \A v \in Updaters : v # u => upd'[v] = upd[v]
      /\ ~crossed' => ~crossed /\ \A v \in Updaters : upd[v].pc = "rest"
  BY <1>3, <1>4, BeginKeepsOne
<1>7. ProviderTypes' /\ ScriptsSigned'
  BY <1>1, <1>3, <1>6 DEF ProviderTypes, ScriptsSigned
<1>8. Loaded' = Loaded
  BY <1>3 DEF Loaded
<1>9. ~crossed' /\ served => inUse' = Loaded'
  BY <1>1, <1>3, <1>6, <1>8 DEF TasksCurrent
<1>10. TasksCurrent'
  BY <1>3, <1>5, <1>6, <1>9 DEF TasksCurrent, TaskCurrent
<1>11. QED
  BY <1>6, <1>7, <1>10 DEF ProviderInv

(* UpdateRows: the scripts come after the rows.                            *)
LEMMA RowsKeep ==
  ASSUME ProviderInv, NEW u \in Updaters, UpdateRows(u)
  PROVE  ProviderInv'
<1>1. ProviderTypes /\ TasksCurrent
  BY DEF ProviderInv
<1>2. PICK r : r = [upd[u] EXCEPT !.pc = "scripts", !.todo = {p \in upd[u].listed : upd[u].got[p] # NoScript}]
  OBVIOUS
<1>3. upd[u].pc = "rows" /\ Goes(u, r) /\ UNCHANGED <<served, list, lists, scripts, inUse, crossed>>
  BY <1>2 DEF UpdateRows
<1>4. r \in UpdateRecord
  <2>1. upd[u] \in UpdateRecord
    BY <1>1 DEF ProviderTypes
  <2>2. {p \in upd[u].listed : upd[u].got[p] # NoScript} \in Lists
    BY <2>1 DEF UpdateRecord, Lists
  <2>3. QED
    BY <1>2, <2>1, <2>2 DEF UpdateRecord, UpdatePcs
<1>5. r.pc = "scripts"
  BY <1>1, <1>2 DEF ProviderTypes, UpdateRecord
<1>6. ~crossed /\ served => inUse' = Loaded
  BY <1>1, <1>3 DEF TasksCurrent, TaskCurrent
<1>7. QED
  BY <1>3, <1>4, <1>5, <1>6, TaskKeeps

(* SaveScript: what is saved has been verified, and the task knows it.     *)
LEMMA SaveKeeps ==
  ASSUME ProviderInv, NEW u \in Updaters, SaveScript(u)
  PROVE  ProviderInv'
<1>1. ProviderTypes /\ OneTask /\ ScriptsSigned /\ TasksCurrent
  BY DEF ProviderInv
<1>2. upd[u] \in UpdateRecord /\ upd[u].pc = "scripts" /\ UNCHANGED <<served, list, lists, inUse, crossed>>
  BY <1>1 DEF SaveScript, ProviderTypes
<1>3. PICK p \in upd[u].todo :
        \/ /\ Verifies(upd[u].got[p])
           /\ scripts' = [scripts EXCEPT ![p] = upd[u].got[p]]
           /\ Goes(u, [[upd[u] EXCEPT !.todo = upd[u].todo \ {p}] EXCEPT !.saved = TRUE])
        \/ Goes(u, [upd[u] EXCEPT !.todo = upd[u].todo \ {p}]) /\ UNCHANGED scripts
  BY DEF SaveScript
<1>4. PICK n : n = [upd[u] EXCEPT !.todo = upd[u].todo \ {p}]
  OBVIOUS
<1>5. n \in UpdateRecord /\ n.pc = "scripts" /\ n.saved = upd[u].saved
  <2>1. upd[u].todo \ {p} \in Lists
    BY <1>2 DEF UpdateRecord, Lists
  <2>2. QED
    BY <1>2, <1>4, <2>1 DEF UpdateRecord
<1>6. CASE Goes(u, n) /\ UNCHANGED scripts
  <2>1. ~crossed /\ served /\ n.saved = FALSE => inUse' = Loaded
    BY <1>1, <1>2, <1>5 DEF TasksCurrent, TaskCurrent
  <2>2. QED
    BY <1>2, <1>5, <1>6, <2>1, TaskKeeps
<1>7. CASE /\ Verifies(upd[u].got[p])
           /\ scripts' = [scripts EXCEPT ![p] = upd[u].got[p]]
           /\ Goes(u, [n EXCEPT !.saved = TRUE])
  <2>1. PICK r : r = [n EXCEPT !.saved = TRUE]
    OBVIOUS
  <2>2. r \in UpdateRecord
    BY <1>5, <2>1 DEF UpdateRecord
  <2>3. r.pc = "scripts" /\ r.saved = TRUE
    BY <1>5, <2>1 DEF UpdateRecord
  <2>4. /\ upd' \in [Updaters -> UpdateRecord]
        /\ upd'[u] = r /\ \A v \in Updaters : v # u => upd'[v] = upd[v]
    BY <1>1, <1>7, <2>1, <2>2, TaskGoes
  <2>5. p \in Offered /\ upd[u].got[p] \in Scripts /\ upd[u].got[p] # Forged
    BY <1>2, <1>7 DEF UpdateRecord, Lists, ScriptTables, Verifies
  <2>6. ProviderTypes' /\ ScriptsSigned'
    <3>1. scripts' \in ScriptTables
      BY <1>1, <1>7, <2>5 DEF ProviderTypes, ScriptTables
    <3>2. \A q \in Offered : scripts'[q] # Forged
      BY <1>1, <1>7, <2>5 DEF ProviderTypes, ScriptTables, ScriptsSigned
    <3>3. QED
      BY <1>1, <1>2, <2>4, <3>1, <3>2 DEF ProviderTypes, ScriptsSigned, Forged
  <2>7. OneTask'
    BY <1>1, <1>2, <2>4 DEF OneTask
  <2>8. TasksCurrent'
    <3>1. ~crossed => \A v \in Updaters : v # u => upd'[v].pc = "rest"
      BY <1>1, <1>2, <2>4 DEF OneTask
    <3>2. QED
      BY <1>2, <2>3, <2>4, <3>1 DEF TasksCurrent, TaskCurrent
  <2>9. QED
    BY <2>6, <2>7, <2>8 DEF ProviderInv
<1>8. QED
  BY <1>3, <1>4, <1>6, <1>7

(* ScriptsDone: a save leads to a reload.                                  *)
LEMMA DoneKeeps ==
  ASSUME ProviderInv, NEW u \in Updaters, ScriptsDone(u)
  PROVE  ProviderInv'
<1>1. ProviderTypes /\ TasksCurrent
  BY DEF ProviderInv
<1>2. /\ upd[u].pc = "scripts" /\ UNCHANGED <<served, list, lists, scripts, inUse, crossed>>
      /\ Goes(u, IF Reloads(u) THEN [NoUpdate EXCEPT !.pc = "load"] ELSE NoUpdate)
  BY DEF ScriptsDone
<1>3. upd[u].saved \in BOOLEAN
  BY <1>1 DEF ProviderTypes, UpdateRecord
<1>4. CASE upd[u].saved = TRUE
  <2>1. PICK r : r = [NoUpdate EXCEPT !.pc = "load"]
    OBVIOUS
  <2>2. r \in UpdateRecord
    BY <2>1, NoUpdateTyped DEF UpdateRecord, UpdatePcs
  <2>3. r.pc = "load"
    BY <2>1, NoUpdateTyped DEF UpdateRecord
  <2>4. Goes(u, r)
    BY <1>2, <1>4, <2>1 DEF Reloads
  <2>5. QED
    BY <1>2, <2>2, <2>3, <2>4, TaskKeeps
<1>5. CASE upd[u].saved = FALSE
  <2>1. Goes(u, NoUpdate)
    BY <1>2, <1>5 DEF Reloads
  <2>2. ~crossed /\ served => inUse' = Loaded
    BY <1>1, <1>2, <1>5 DEF TasksCurrent, TaskCurrent
  <2>3. PICK r : r = NoUpdate
    OBVIOUS
  <2>4. QED
    BY <1>2, <2>1, <2>2, <2>3, NoUpdateTyped, TaskKeeps
<1>6. QED
  BY <1>3, <1>4, <1>5

(* LoadEngine: the engine is made from the key store as it is.             *)
LEMMA LoadKeeps ==
  ASSUME ProviderInv, NEW u \in Updaters, LoadEngine(u)
  PROVE  ProviderInv'
<1>1. ProviderTypes /\ OneTask /\ ScriptsSigned /\ TasksCurrent
  BY DEF ProviderInv
<1>2. PICK r : r = [NoUpdate EXCEPT !.pc = "swap", !.loaded = Loaded]
  OBVIOUS
<1>3. upd[u].pc = "load" /\ Goes(u, r) /\ UNCHANGED <<served, list, lists, scripts, inUse>>
  BY <1>2 DEF LoadEngine
<1>4. crossed' = (crossed /\ Updating # {u})
  BY DEF LoadEngine
<1>5. Loaded \in ScriptTables
  BY <1>1, OAuthAssumption DEF ProviderTypes, Loaded, ScriptTables, Scripts, NoScript
<1>6. r \in UpdateRecord
  BY <1>2, <1>5, NoUpdateTyped DEF UpdateRecord, UpdatePcs
<1>7. r.pc = "swap" /\ r.loaded = Loaded
  BY <1>2, NoUpdateTyped DEF UpdateRecord
<1>8. /\ upd' \in [Updaters -> UpdateRecord]
      /\ upd'[u] = r /\ \A v \in Updaters : v # u => upd'[v] = upd[v]
  BY <1>1, <1>3, <1>6, TaskGoes
<1>9. ProviderTypes' /\ ScriptsSigned'
  BY <1>1, <1>3, <1>8 DEF ProviderTypes, ScriptsSigned
<1>10. ~crossed' => \A v \in Updaters : v # u => upd[v].pc = "rest"
  <2>1. CASE Updating = {u}
    BY <2>1 DEF Updating
  <2>2. CASE ~crossed
    BY <1>1, <1>3, <2>2 DEF OneTask
  <2>3. QED
    BY <1>4, <2>1, <2>2
<1>11. OneTask'
  BY <1>8, <1>10 DEF OneTask
<1>12. Loaded' = Loaded
  BY <1>3 DEF Loaded
<1>13. TasksCurrent'
  BY <1>7, <1>8, <1>10, <1>12 DEF TasksCurrent, TaskCurrent
<1>14. QED
  BY <1>9, <1>11, <1>13 DEF ProviderInv

(* SwapEngine.                                                             *)
LEMMA SwapKeeps ==
  ASSUME ProviderInv, NEW u \in Updaters, SwapEngine(u)
  PROVE  ProviderInv'
<1>1. ProviderTypes /\ TasksCurrent
  BY DEF ProviderInv
<1>2. PICK r : r = NoUpdate
  OBVIOUS
<1>3. /\ upd[u].pc = "swap" /\ Goes(u, r) /\ inUse' = upd[u].loaded
      /\ UNCHANGED <<served, list, lists, scripts, crossed>>
  BY <1>2 DEF SwapEngine
<1>4. ~crossed /\ served => inUse' = Loaded
  BY <1>1, <1>3 DEF TasksCurrent, TaskCurrent
<1>5. QED
  BY <1>2, <1>3, <1>4, NoUpdateTyped, TaskKeeps

(* The invariant of the providers is inductive.                            *)
LEMMA ProviderInvStep == ProviderInv /\ [OAuthNext]_oauthVars => ProviderInv'
<1> SUFFICES ASSUME ProviderInv, [OAuthNext]_oauthVars
             PROVE  ProviderInv'
  OBVIOUS
<1>1. ProviderTypes /\ OneTask /\ ScriptsSigned /\ TasksCurrent
  BY DEF ProviderInv
<1>2. ASSUME UNCHANGED <<served, scripts, inUse, upd, crossed>>,
             list' \in [listed : Lists, script : ScriptTables], lists' \in Nat
      PROVE  ProviderInv'
  <2>1. ProviderTypes' /\ ScriptsSigned' /\ OneTask'
    BY <1>1, <1>2 DEF ProviderTypes, ScriptsSigned, OneTask
  <2>2. Loaded' = Loaded
    BY <1>2 DEF Loaded
  <2>3. TasksCurrent'
    BY <1>1, <1>2, <2>2 DEF TasksCurrent, TaskCurrent
  <2>4. QED
    BY <2>1, <2>3 DEF ProviderInv
<1>3. CASE UNCHANGED oauthVars
  BY <1>1, <1>2, <1>3 DEF oauthVars, ProviderTypes
<1>4. ASSUME NEW s \in SUBSET Offered, NEW f \in [Offered -> {NoScript, Forged, lists + 1}],
             PublishList(s, f)
      PROVE  ProviderInv'
  <2>1. /\ lists < MaxLists /\ lists' = lists + 1 /\ UNCHANGED <<served, scripts, inUse, upd, crossed>>
        /\ list' = Published(s, [p \in Offered |-> IF p \in s THEN f[p] ELSE NoScript])
    BY <1>4 DEF PublishList
  <2>2. {NoScript, Forged, lists + 1} \subseteq Scripts /\ lists' \in Nat
    BY <1>1, <2>1, OAuthAssumption DEF ProviderTypes, NoScript, Forged, Scripts
  <2>3. [p \in Offered |-> IF p \in s THEN f[p] ELSE NoScript] \in ScriptTables
    BY <2>2 DEF ScriptTables
  <2>4. list' \in [listed : Lists, script : ScriptTables]
    BY <2>1, <2>3 DEF Published, Lists
  <2>5. QED
    BY <1>2, <2>1, <2>2, <2>4
<1>5. CASE Restart
  <2>1. /\ served' = FALSE /\ upd' = [u \in Updaters |-> NoUpdate]
        /\ UNCHANGED <<list, lists, scripts>>
    BY <1>5 DEF Restart
  <2>2. upd' \in [Updaters -> UpdateRecord] /\ \A u \in Updaters : upd'[u].pc = "rest"
    BY <2>1, NoUpdateTyped
  <2>3. ProviderTypes' /\ ScriptsSigned' /\ OneTask'
    BY <1>1, <2>1, <2>2 DEF ProviderTypes, ScriptsSigned, OneTask
  <2>4. TasksCurrent'
    BY <2>1 DEF TasksCurrent
  <2>5. QED
    BY <2>3, <2>4 DEF ProviderInv
<1>6. ASSUME NEW u \in Updaters, StartVm(u) \/ \E p \in Own : SaveOwn(u, p) \/ DeleteOwn(u, p)
      PROVE  ProviderInv'
  <2>1. /\ Begin(u) /\ Goes(u, [NoUpdate EXCEPT !.pc = "load"])
        /\ UNCHANGED <<list, lists, scripts, inUse>>
    BY <1>6 DEF StartVm, SaveOwn, DeleteOwn
  <2>2. QED
    BY <2>1, BeginLoad
<1>7. QED
  BY <1>3, <1>4, <1>5, <1>6, FetchKeeps, RowsKeep, SaveKeeps, DoneKeeps, LoadKeeps, SwapKeeps
     DEF OAuthNext

(* The engine in use is what the key store holds whenever no task is under *)
(* way and none overlapped, and the key store holds no script whose        *)
(* signature was not good, for any numbers of providers, tasks and lists.  *)
THEOREM ProvidersAreSafe == OAuthSpec => []ProvidersSafe
<1>1. OAuthInit => ProviderInv
  <2>1. SUFFICES ASSUME OAuthInit PROVE ProviderInv
    OBVIOUS
  <2>2. [p \in Offered |-> NoScript] \in ScriptTables /\ NoScript # Forged
    BY OAuthAssumption DEF ScriptTables, Scripts, NoScript, Forged
  <2>3. /\ list = Published({}, [p \in Offered |-> NoScript]) /\ lists = 0
        /\ scripts = [p \in Offered |-> NoScript] /\ served = FALSE
        /\ upd = [u \in Updaters |-> NoUpdate]
    BY <2>1 DEF OAuthInit
  <2>4. list \in [listed : Lists, script : ScriptTables]
    BY <2>2, <2>3 DEF Published, Lists
  <2>5. upd \in [Updaters -> UpdateRecord] /\ \A u \in Updaters : upd[u].pc = "rest"
    BY <2>3, NoUpdateTyped
  <2>6. ProviderTypes /\ ScriptsSigned
    BY <2>2, <2>3, <2>4, <2>5 DEF ProviderTypes, ScriptsSigned
  <2>7. OneTask /\ TasksCurrent
    BY <2>3, <2>5 DEF OneTask, TasksCurrent
  <2>8. QED
    BY <2>6, <2>7 DEF ProviderInv
<1>2. ProviderInv => ProvidersSafe
  <2>1. SUFFICES ASSUME ProviderInv, served, Updating = {}, ~crossed PROVE inUse = Loaded
    BY DEF ProviderInv, ProvidersSafe, EngineCurrent
  <2>2. \A u \in Updaters : upd[u].pc = "rest"
    BY <2>1 DEF Updating
  <2>3. QED
    BY <2>1, <2>2 DEF ProviderInv, TasksCurrent
<1>3. QED
  BY <1>1, <1>2, ProviderInvStep, PTL DEF OAuthSpec

-----------------------------------------------------------------------------
(* OAuthVault                                                              *)

CallStages == {"idle", "cache", "upstream", "answer", "store", "bind", "bindwrite", "resolve"}
CallVias == {"plain", "inspect"}
CallSessions == Sessions \cup {NoSession}
CallVms == VaultVms \cup {NoSession}
Snaps == SessionRecord \cup {NoSession}
CallRecord == [at : CallStages, via : CallVias, sess : CallSessions, dom : Bounds, vm : CallVms,
               snap : Snaps, rt : Nat, acc : Nat, new : Nat]

VaultTypes ==
  /\ vault \in [Sessions -> Snaps] /\ call \in [Calls -> CallRecord]
  /\ dummies \subseteq Sessions /\ deleted \subseteq Sessions
  /\ cleaning \in [vm : CallVms, todo : SUBSET Sessions]
  /\ issued \in Nat /\ valid \in [Sessions -> Nat] /\ sentTo \in [Sessions -> SUBSET ApiDomains]

(* A session's entry, in the keystore or read by a call, with n tokens     *)
(* issued.                                                                 *)
SessionFits(x, n) == x.access \in 1 .. n /\ x.refresh \in 0 .. n /\ x.extra = Cross

SessionsFit ==
  \A s \in Sessions : /\ valid[s] <= issued
                      /\ vault[s] # NoSession => SessionFits(vault[s], issued)
                      /\ vault[s] = NoSession => sentTo[s] = {}

(* What a call holds at each of its stages.                                *)
Answers(q) == q.at \in {"answer", "store"}

CallFits(q, n) ==
  /\ q.rt <= n /\ q.new <= n
  /\ q.at # "idle" => q.sess \in Sessions
  /\ q.at = "idle" => q.sess = NoSession
  /\ q.at \in {"cache", "upstream", "answer", "store"} => q.vm \in VaultVms
  /\ Answers(q) => q.acc \in 1 .. n
  /\ q.at \in {"bind", "bindwrite", "resolve"} => q.dom \in ApiDomains
  /\ q.snap # NoSession => SessionFits(q.snap, n)
  /\ q.at \in {"bind", "bindwrite"} => q.snap # NoSession /\ q.snap.bound = NoDomain
  /\ q.at = "resolve" /\ q.snap # NoSession => q.snap.bound \in {NoDomain, q.dom} \/ q.dom \in Cross

CallsFit == \A c \in Calls : CallFits(call[c], issued)

(* The answer to an exchange is about a session nobody else knows yet.     *)
ExchangeOK(c) ==
  Answers(call[c]) /\ call[c].rt = 0 =>
    /\ vault[call[c].sess] = NoSession
    /\ call[c].sess \notin dummies \cup deleted
    /\ valid[call[c].sess] = call[c].new
    /\ call[c].snap = NoSession
    /\ \A k \in Calls : k # c => call[k].sess # call[c].sess

(* The refresh token the provider takes is stored, or one call brings it   *)
(* and no other call has it.                                               *)
Rotates(q, s) == Answers(q) /\ q.sess = s /\ q.new # 0

TokenOK(s) ==
  vault[s] # NoSession /\ s \notin slipped =>
    /\ vault[s].refresh = valid[s] \/ \E c \in Calls : Rotates(call[c], s)
    /\ \A c \in Calls : Rotates(call[c], s) =>
         /\ call[c].new = valid[s] /\ vault[s].refresh # valid[s]
         /\ \A k \in Calls : /\ call[k].sess = s => call[k].rt # valid[s]
                             /\ Rotates(call[k], s) => k = c

SentOK(s) ==
  vault[s] # NoSession /\ s \notin slipped => sentTo[s] \subseteq {vault[s].bound} \cup Cross

VaultInv ==
  /\ VaultTypes /\ SessionsFit /\ CallsFit
  /\ \A c \in Calls : ExchangeOK(c)
  /\ \A s \in Sessions : TokenOK(s) /\ SentOK(s)
  /\ DummiesResolve

(* More tokens are issued: what a call holds still fits.                   *)
LEMMA FitsMore ==
  ASSUME NEW n \in Nat, NEW q \in CallRecord, CallFits(q, n)
  PROVE  CallFits(q, n + 1)
<1>1. q.rt \in Nat /\ q.new \in Nat /\ q.acc \in Nat
  BY DEF CallRecord
<1>2. q.rt <= n + 1 /\ q.new <= n + 1 /\ (Answers(q) => q.acc \in 1 .. n + 1)
  BY <1>1 DEF CallFits
<1>3. q.snap # NoSession => SessionFits(q.snap, n + 1)
  BY DEF CallFits, SessionFits
<1>4. QED
  BY <1>2, <1>3 DEF CallFits

(* A call that is over.                                                    *)
LEMMA IdleFits ==
  /\ IdleCall \in CallRecord
  /\ IdleCall.at = "idle" /\ IdleCall.sess = NoSession /\ IdleCall.snap = NoSession
  /\ IdleCall.rt = 0 /\ IdleCall.new = 0 /\ ~Answers(IdleCall)
  /\ \A n \in Nat : CallFits(IdleCall, n)
<1>1. /\ IdleCall \in CallRecord
      /\ IdleCall.at = "idle" /\ IdleCall.sess = NoSession /\ IdleCall.snap = NoSession
      /\ IdleCall.rt = 0 /\ IdleCall.new = 0
  BY DEF IdleCall, CallRecord, CallStages, CallVias, CallSessions, CallVms, Snaps, Bounds
<1>2. ~Answers(IdleCall)
  BY <1>1 DEF Answers
<1>3. \A n \in Nat : CallFits(IdleCall, n)
  BY <1>1, <1>2 DEF CallFits
<1>4. QED
  BY <1>1, <1>2, <1>3

(* A call goes on and writes no entry; when it ends an answer without      *)
(* storing it, its session has slipped.                                    *)
LEMMA CallMoves ==
  ASSUME VaultInv, NEW c \in Calls, call' \in [Calls -> CallRecord],
         \A k \in Calls : k # c => call'[k] = call[k],
         UNCHANGED <<vault, dummies, deleted, cleaning, issued, valid>>, slipped \subseteq slipped',
         sentTo' \in [Sessions -> SUBSET ApiDomains],
         \A s \in Sessions : SentOK(s)' /\ (vault[s] = NoSession => sentTo'[s] = {}),
         CallFits(call'[c], issued),
         Answers(call'[c]) =>
           /\ Answers(call[c]) /\ call'[c].sess = call[c].sess /\ call'[c].rt = call[c].rt
           /\ call'[c].new = call[c].new /\ (call'[c].rt = 0 => call'[c].snap = NoSession),
         Answers(call[c]) => Answers(call'[c]) \/ call[c].sess \in slipped',
         call'[c].sess \in dummies \cup {NoSession, call[c].sess},
         call'[c].sess \in Sessions =>
           \/ call'[c].rt = 0
           \/ call'[c].sess = call[c].sess /\ call'[c].rt = call[c].rt
           \/ vault[call'[c].sess] # NoSession /\ call'[c].rt = vault[call'[c].sess].refresh
  PROVE  VaultInv'
<1>1. /\ VaultTypes /\ SessionsFit /\ CallsFit /\ DummiesResolve
      /\ \A k \in Calls : ExchangeOK(k)
      /\ \A s \in Sessions : TokenOK(s) /\ SentOK(s)
  BY DEF VaultInv
<1>2. VaultTypes' /\ SessionsFit' /\ DummiesResolve'
  BY <1>1 DEF VaultTypes, SessionsFit, DummiesResolve, Stored
<1>3. CallsFit'
  BY <1>1 DEF CallsFit
<1>4. ASSUME NEW k \in Calls PROVE ExchangeOK(k)'
  <2>1. SUFFICES ASSUME Answers(call'[k]), call'[k].rt = 0
                 PROVE  /\ vault[call'[k].sess] = NoSession
                        /\ call'[k].sess \notin dummies \cup deleted
                        /\ valid[call'[k].sess] = call'[k].new
                        /\ call'[k].snap = NoSession
                        /\ \A m \in Calls : m # k => call'[m].sess # call'[k].sess
    BY DEF ExchangeOK
  <2>2. /\ Answers(call[k]) /\ call[k].rt = 0 /\ call'[k].sess = call[k].sess
        /\ call'[k].new = call[k].new
    BY <2>1
  <2>3. /\ vault[call[k].sess] = NoSession
        /\ call[k].sess \notin dummies \cup deleted
        /\ valid[call[k].sess] = call[k].new
        /\ call[k].snap = NoSession
        /\ \A m \in Calls : m # k => call[m].sess # call[k].sess
    BY <1>1, <2>2 DEF ExchangeOK
  <2>4. call'[k].snap = NoSession
    BY <2>1, <2>3
  <2>5. call[k].sess # NoSession
    <3>1. call[k].sess \in Sessions
      BY <1>1, <2>2 DEF CallsFit, CallFits, Answers
    <3>2. QED
      BY <3>1, VaultAssumption
  <2>6. \A m \in Calls : m # k => call'[m].sess # call'[k].sess
    BY <2>2, <2>3, <2>5
  <2>7. QED
    BY <2>2, <2>3, <2>4, <2>6
<1>5. ASSUME NEW s \in Sessions PROVE TokenOK(s)' /\ SentOK(s)'
  <2>1. SentOK(s)'
    BY <1>5
  <2>2. SUFFICES ASSUME vault[s] # NoSession, s \notin slipped'
                 PROVE  /\ vault[s].refresh = valid[s] \/ \E k \in Calls : Rotates(call'[k], s)
                        /\ \A k \in Calls : Rotates(call'[k], s) =>
                             /\ call'[k].new = valid[s] /\ vault[s].refresh # valid[s]
                             /\ \A m \in Calls : /\ call'[m].sess = s => call'[m].rt # valid[s]
                                                 /\ Rotates(call'[m], s) => m = k
    BY <2>1 DEF TokenOK
  <2>3. /\ vault[s].refresh = valid[s] \/ \E k \in Calls : Rotates(call[k], s)
        /\ \A k \in Calls : Rotates(call[k], s) =>
             /\ call[k].new = valid[s] /\ vault[s].refresh # valid[s]
             /\ \A m \in Calls : /\ call[m].sess = s => call[m].rt # valid[s]
                                 /\ Rotates(call[m], s) => m = k
    BY <1>1, <2>2 DEF TokenOK
  <2>4. \A k \in Calls : Rotates(call[k], s) <=> Rotates(call'[k], s)
    BY <2>2 DEF Rotates
  <2>5. \A k \in Calls : Rotates(call'[k], s) => call'[k].new = valid[s] /\ valid[s] # 0
    BY <2>3, <2>4 DEF Rotates
  <2>6. ASSUME NEW k \in Calls, Rotates(call'[k], s), NEW m \in Calls, call'[m].sess = s
        PROVE  call'[m].rt # valid[s]
    <3>1. call[m].sess = s => call[m].rt # valid[s]
      BY <2>3, <2>4, <2>6
    <3>2. vault[s].refresh # valid[s] /\ valid[s] # 0
      BY <2>3, <2>4, <2>5, <2>6
    <3>3. QED
      BY <2>6, <3>1, <3>2
  <2>7. QED
    BY <2>3, <2>4, <2>5, <2>6
<1>6. QED
  BY <1>2, <1>3, <1>4, <1>5 DEF VaultInv

(* The same, and no token is sent.                                         *)
LEMMA CallQuiet ==
  ASSUME VaultInv, NEW c \in Calls, call' \in [Calls -> CallRecord],
         \A k \in Calls : k # c => call'[k] = call[k],
         UNCHANGED <<vault, dummies, deleted, cleaning, issued, valid, sentTo>>, slipped \subseteq slipped',
         CallFits(call'[c], issued),
         Answers(call'[c]) =>
           /\ Answers(call[c]) /\ call'[c].sess = call[c].sess /\ call'[c].rt = call[c].rt
           /\ call'[c].new = call[c].new /\ (call'[c].rt = 0 => call'[c].snap = NoSession),
         Answers(call[c]) => Answers(call'[c]) \/ call[c].sess \in slipped',
         call'[c].sess \in dummies \cup {NoSession, call[c].sess},
         call'[c].sess \in Sessions =>
           \/ call'[c].rt = 0
           \/ call'[c].sess = call[c].sess /\ call'[c].rt = call[c].rt
           \/ vault[call'[c].sess] # NoSession /\ call'[c].rt = vault[call'[c].sess].refresh
  PROVE  VaultInv'
<1>1. sentTo \in [Sessions -> SUBSET ApiDomains] /\ \A s \in Sessions : vault[s] = NoSession => sentTo[s] = {}
  BY DEF VaultInv, VaultTypes, SessionsFit
<1>2. \A s \in Sessions : SentOK(s)'
  BY DEF VaultInv, SentOK
<1>3. QED
  BY <1>1, <1>2, CallMoves

(* Refresh, on either path.                                                *)
LEMMA RefreshKeeps ==
  ASSUME VaultInv, NEW c \in Calls, NEW s \in Sessions, NEW via \in CallVias, Refresh(c, s, via)
  PROVE  VaultInv'
<1>1. VaultTypes /\ SessionsFit
  BY DEF VaultInv
<1>2. /\ call[c].at = "idle" /\ s \in dummies
      /\ UNCHANGED <<vault, dummies, deleted, cleaning, issued, valid, sentTo, slipped>>
  BY DEF Refresh, tokenVars
<1>3. PICK v \in VaultVms :
        call' = [call EXCEPT ![c] = [IdleCall EXCEPT !.at = "cache", !.via = via, !.sess = s, !.vm = v,
                              !.rt = IF vault[s] = NoSession THEN 0 ELSE vault[s].refresh]]
  BY DEF Refresh
<1>4. PICK rt : rt = IF vault[s] = NoSession THEN 0 ELSE vault[s].refresh
  OBVIOUS
<1>5. rt \in Nat /\ rt <= issued /\ (rt = 0 \/ (vault[s] # NoSession /\ rt = vault[s].refresh))
  BY <1>1, <1>4 DEF VaultTypes, SessionsFit, SessionFits
<1>6. PICK r : r = [IdleCall EXCEPT !.at = "cache", !.via = via, !.sess = s, !.vm = v, !.rt = rt]
  OBVIOUS
<1>7. r \in CallRecord
  BY <1>5, <1>6, IdleFits DEF CallRecord, CallStages, CallSessions, CallVms
<1>8. r.at = "cache" /\ r.sess = s /\ r.vm = v /\ r.rt = rt /\ r.new = 0 /\ r.snap = NoSession
  BY <1>6, IdleFits DEF CallRecord
<1>9. ~Answers(r) /\ ~Answers(call[c])
  BY <1>2, <1>8 DEF Answers
<1>10. CallFits(r, issued)
  BY <1>1, <1>5, <1>8, <1>9 DEF CallFits, VaultTypes
<1>11. /\ call' \in [Calls -> CallRecord] /\ call'[c] = r
       /\ \A k \in Calls : k # c => call'[k] = call[k]
  BY <1>1, <1>3, <1>4, <1>6, <1>7 DEF VaultTypes
<1>12. QED
  BY <1>2, <1>5, <1>8, <1>9, <1>10, <1>11, CallQuiet

(* A call that ends writing nothing, without an answer or with a slip.     *)
LEMMA EndKeeps ==
  ASSUME VaultInv, NEW c \in Calls, call' = [call EXCEPT ![c] = IdleCall],
         UNCHANGED <<vault, dummies, deleted, cleaning, issued, valid, sentTo>>, slipped \subseteq slipped',
         Answers(call[c]) => call[c].sess \in slipped'
  PROVE  VaultInv'
<1>1. VaultTypes
  BY DEF VaultInv
<1>2. /\ call' \in [Calls -> CallRecord] /\ call'[c] = IdleCall
      /\ \A k \in Calls : k # c => call'[k] = call[k]
  BY <1>1, IdleFits DEF VaultTypes
<1>3. CallFits(IdleCall, issued)
  BY <1>1, IdleFits DEF VaultTypes
<1>4. QED
  BY <1>2, <1>3, IdleFits, CallQuiet

(* A call that has no answer goes to a stage at which it has none either.  *)
LEMMA StageKeeps ==
  ASSUME VaultInv, NEW c \in Calls, ~Answers(call[c]), call[c].at # "idle",
         call' \in [Calls -> CallRecord], \A k \in Calls : k # c => call'[k] = call[k],
         UNCHANGED <<vault, dummies, deleted, cleaning, issued, valid, sentTo, slipped>>,
         ~Answers(call'[c]), call'[c].sess = call[c].sess, call'[c].rt = call[c].rt,
         CallFits(call'[c], issued)
  PROVE  VaultInv'
BY CallQuiet

(* TryCached.                                                              *)
LEMMA CachedKeeps ==
  ASSUME VaultInv, NEW c \in Calls, TryCached(c)
  PROVE  VaultInv'
<1>1. VaultTypes /\ CallFits(call[c], issued)
  BY DEF VaultInv, CallsFit
<1>2. /\ call[c].at = "cache"
      /\ UNCHANGED <<vault, dummies, deleted, cleaning, issued, valid, sentTo, slipped>>
      /\ call' = [call EXCEPT ![c] = IdleCall] \/ call' = [call EXCEPT ![c].at = "upstream"]
  BY DEF TryCached, tokenVars
<1>3. ~Answers(call[c])
  BY <1>2 DEF Answers
<1>4. CASE call' = [call EXCEPT ![c] = IdleCall]
  BY <1>2, <1>3, <1>4, EndKeeps
<1>5. CASE call' = [call EXCEPT ![c].at = "upstream"]
  <2>1. call' \in [Calls -> CallRecord] /\ \A k \in Calls : k # c => call'[k] = call[k]
    BY <1>1, <1>5 DEF VaultTypes, CallRecord, CallStages
  <2>2. /\ call'[c].at = "upstream" /\ call'[c].sess = call[c].sess /\ call'[c].vm = call[c].vm
        /\ call'[c].rt = call[c].rt /\ call'[c].new = call[c].new /\ call'[c].snap = call[c].snap
    BY <1>1, <1>5 DEF VaultTypes, CallRecord
  <2>3. ~Answers(call'[c])
    BY <2>2 DEF Answers
  <2>4. CallFits(call'[c], issued)
    BY <1>1, <1>2, <2>2, <2>3 DEF CallFits
  <2>5. QED
    BY <1>2, <1>3, <2>1, <2>2, <2>3, <2>4, StageKeeps
<1>6. QED
  BY <1>2, <1>4, <1>5

(* InterceptRead.                                                          *)
LEMMA ReadKeeps ==
  ASSUME VaultInv, NEW c \in Calls, InterceptRead(c)
  PROVE  VaultInv'
<1>1. VaultTypes /\ SessionsFit /\ CallFits(call[c], issued) /\ ExchangeOK(c)
  BY DEF VaultInv, CallsFit
<1>2. /\ call[c].at = "answer"
      /\ UNCHANGED <<vault, dummies, deleted, cleaning, issued, valid, sentTo>>
  BY DEF InterceptRead, tokenVars
<1>3. \/ /\ call' = [call EXCEPT ![c].at = "store", ![c].via = "plain",
                         ![c].snap = IF IsRefresh(c) THEN vault[call[c].sess] ELSE NoSession]
         /\ UNCHANGED slipped
      \/ /\ call' = [call EXCEPT ![c] = IdleCall]
         /\ slipped' = slipped \cup {call[c].sess}
  BY DEF InterceptRead
<1>4. CASE call' = [call EXCEPT ![c] = IdleCall] /\ slipped' = slipped \cup {call[c].sess}
  BY <1>2, <1>4, EndKeeps
<1>5. CASE /\ call' = [call EXCEPT ![c].at = "store", ![c].via = "plain",
                         ![c].snap = IF IsRefresh(c) THEN vault[call[c].sess] ELSE NoSession]
           /\ UNCHANGED slipped
  <2>1. PICK x : x = IF IsRefresh(c) THEN vault[call[c].sess] ELSE NoSession
    OBVIOUS
  <2>2. call[c].sess \in Sessions
    BY <1>1, <1>2 DEF CallFits
  <2>3. /\ x \in Snaps /\ (x # NoSession => SessionFits(x, issued))
        /\ call[c].rt = 0 => x = NoSession
    BY <1>1, <2>1, <2>2 DEF VaultTypes, SessionsFit, Snaps, IsRefresh
  <2>4. call' = [call EXCEPT ![c].at = "store", ![c].via = "plain", ![c].snap = x]
    BY <1>5, <2>1
  <2>5. call' \in [Calls -> CallRecord] /\ \A k \in Calls : k # c => call'[k] = call[k]
    <3>1. "store" \in CallStages /\ "plain" \in CallVias
      BY DEF CallStages, CallVias
    <3>2. QED
      BY <1>1, <2>3, <2>4, <3>1, ZenonT(60) DEF VaultTypes, CallRecord
  <2>6. /\ call'[c].at = "store" /\ call'[c].sess = call[c].sess /\ call'[c].vm = call[c].vm
        /\ call'[c].rt = call[c].rt /\ call'[c].new = call[c].new /\ call'[c].snap = x
        /\ call'[c].acc = call[c].acc
    BY <1>1, <2>4 DEF VaultTypes, CallRecord
  <2>7. Answers(call[c]) /\ Answers(call'[c])
    BY <1>2, <2>6 DEF Answers
  <2>8. CallFits(call'[c], issued)
    BY <1>1, <1>2, <2>3, <2>6, <2>7 DEF CallFits
  <2>9. QED
    BY <1>2, <1>5, <2>3, <2>5, <2>6, <2>7, <2>8, CallQuiet
<1>6. QED
  BY <1>3, <1>4, <1>5

(* CheckAndResolve.                                                        *)
LEMMA CheckKeeps ==
  ASSUME VaultInv, NEW c \in Calls, NEW s \in Sessions, NEW d \in ApiDomains, CheckAndResolve(c, s, d)
  PROVE  VaultInv'
<1>1. VaultTypes /\ SessionsFit
  BY DEF VaultInv
<1>2. /\ call[c].at = "idle" /\ s \in dummies
      /\ UNCHANGED <<vault, dummies, deleted, cleaning, issued, valid, sentTo, slipped>>
  BY DEF CheckAndResolve, tokenVars
<1>3. PICK at \in {"resolve", "bind"} :
        /\ call' = [call EXCEPT ![c] = [IdleCall EXCEPT !.at = at, !.sess = s, !.dom = d, !.snap = vault[s]]]
        /\ at = "resolve" /\ vault[s] # NoSession => d \in {vault[s].bound} \cup vault[s].extra
        /\ at = "bind" => vault[s] # NoSession /\ vault[s].bound = NoDomain
  BY DEF CheckAndResolve
<1>4. PICK x \in Snaps : x = vault[s]
  BY <1>1 DEF VaultTypes
<1>5. PICK r : r = [IdleCall EXCEPT !.at = at, !.sess = s, !.dom = d, !.snap = x]
  OBVIOUS
<1>6. d \in Bounds
  BY DEF Bounds
<1>7. r \in CallRecord
  BY <1>4, <1>5, <1>6, IdleFits DEF CallRecord, CallStages, CallSessions
<1>8. r.at = at /\ r.sess = s /\ r.dom = d /\ r.rt = 0 /\ r.new = 0 /\ r.snap = x
  BY <1>5, IdleFits DEF CallRecord
<1>9. ~Answers(r) /\ ~Answers(call[c])
  BY <1>2, <1>8 DEF Answers
<1>10. CallFits(r, issued)
  <2>1. x # NoSession => SessionFits(x, issued)
    BY <1>1, <1>4 DEF SessionsFit
  <2>2. at = "resolve" /\ x # NoSession => x.bound \in {NoDomain, d} \/ d \in Cross
    BY <1>3, <1>4, <2>1 DEF SessionFits
  <2>3. QED
    BY <1>1, <1>3, <1>4, <1>8, <1>9, <2>1, <2>2 DEF CallFits, VaultTypes
<1>11. /\ call' \in [Calls -> CallRecord] /\ call'[c] = r
       /\ \A k \in Calls : k # c => call'[k] = call[k]
  BY <1>1, <1>3, <1>4, <1>5, <1>7 DEF VaultTypes
<1>12. QED
  BY <1>2, <1>8, <1>9, <1>10, <1>11, CallQuiet

(* BindRead, and BindWrite when the set fails.                             *)
LEMMA BindReadKeeps ==
  ASSUME VaultInv, NEW c \in Calls, BindRead(c)
  PROVE  VaultInv'
<1>1. VaultTypes /\ SessionsFit /\ CallFits(call[c], issued)
  BY DEF VaultInv, CallsFit
<1>2. /\ call[c].at = "bind"
      /\ UNCHANGED <<vault, dummies, deleted, cleaning, issued, valid, sentTo, slipped>>
  BY DEF BindRead, tokenVars
<1>3. call[c].sess \in Sessions
  BY <1>1, <1>2 DEF CallFits
<1>4. PICK x \in Snaps : x = vault[call[c].sess]
  BY <1>1, <1>3 DEF VaultTypes
<1>5. PICK at, snap :
        /\ call' = [call EXCEPT ![c].at = at, ![c].snap = snap]
        /\ \/ at = "bindwrite" /\ x # NoSession /\ x.bound = NoDomain /\ snap = x
           \/ at = "resolve" /\ snap = call[c].snap
  BY <1>4 DEF BindRead
<1>6. snap \in Snaps /\ at \in CallStages
  BY <1>1, <1>5 DEF VaultTypes, CallRecord, CallStages
<1>7. call' \in [Calls -> CallRecord] /\ \A k \in Calls : k # c => call'[k] = call[k]
  BY <1>1, <1>5, <1>6, ZenonT(60) DEF VaultTypes, CallRecord
<1>8. /\ call'[c].at = at /\ call'[c].sess = call[c].sess /\ call'[c].dom = call[c].dom
      /\ call'[c].rt = call[c].rt /\ call'[c].new = call[c].new /\ call'[c].snap = snap
  BY <1>1, <1>5 DEF VaultTypes, CallRecord
<1>9. ~Answers(call[c]) /\ ~Answers(call'[c])
  BY <1>2, <1>5, <1>8 DEF Answers
<1>10. SessionFits(x, issued) \/ x = NoSession
  BY <1>1, <1>3, <1>4 DEF SessionsFit
<1>11. CallFits(call'[c], issued)
  BY <1>1, <1>2, <1>5, <1>8, <1>9, <1>10 DEF CallFits
<1>12. QED
  BY <1>2, <1>7, <1>8, <1>9, <1>11, StageKeeps

(* Exchange: the session is new, and its refresh token the one it got.     *)
LEMMA ExchangeKeeps ==
  ASSUME VaultInv, NEW c \in Calls, NEW v \in VaultVms, NEW via \in CallVias, Exchange(c, v, via)
  PROVE  VaultInv'
<1>1. /\ VaultTypes /\ SessionsFit /\ CallsFit /\ DummiesResolve
      /\ \A k \in Calls : ExchangeOK(k)
      /\ \A s \in Sessions : TokenOK(s) /\ SentOK(s)
  BY DEF VaultInv
<1>2. /\ call[c].at = "idle" /\ issued' = issued + 1
      /\ UNCHANGED <<vault, dummies, deleted, cleaning, sentTo, slipped>>
  BY DEF Exchange, tokenVars
<1>3. PICK s \in Sessions \ (Stored \cup deleted \cup {call[k].sess : k \in Calls}), rt \in {0, issued + 1} :
        /\ call' = [call EXCEPT ![c] = [IdleCall EXCEPT !.at = "answer", !.via = via, !.sess = s, !.vm = v,
                                                       !.acc = issued + 1, !.new = rt]]
        /\ valid' = [valid EXCEPT ![s] = rt]
  BY DEF Exchange
<1>4. /\ vault[s] = NoSession /\ s \notin dummies \cup deleted
      /\ \A k \in Calls : call[k].sess # s
  BY <1>1, <1>3 DEF DummiesResolve, Stored
<1>5. issued \in Nat /\ issued + 1 \in Nat /\ rt \in Nat /\ rt <= issued + 1
  BY <1>1 DEF VaultTypes
<1>6. PICK r : r = [IdleCall EXCEPT !.at = "answer", !.via = via, !.sess = s, !.vm = v,
                                    !.acc = issued + 1, !.new = rt]
  OBVIOUS
<1>7. r \in CallRecord
  BY <1>5, <1>6, IdleFits DEF CallRecord, CallStages, CallSessions, CallVms
<1>8. /\ r.at = "answer" /\ r.sess = s /\ r.vm = v /\ r.rt = 0 /\ r.new = rt
      /\ r.acc = issued + 1 /\ r.snap = NoSession
  BY <1>6, IdleFits DEF CallRecord
<1>9. ~Answers(call[c])
  BY <1>2 DEF Answers
<1>10. /\ call' \in [Calls -> CallRecord] /\ call'[c] = r
       /\ \A k \in Calls : k # c => call'[k] = call[k]
  BY <1>1, <1>3, <1>6, <1>7 DEF VaultTypes
<1>11. /\ valid' \in [Sessions -> Nat] /\ valid'[s] = rt
       /\ \A t \in Sessions : t # s => valid'[t] = valid[t]
  BY <1>1, <1>3, <1>5 DEF VaultTypes
<1>12. VaultTypes' /\ DummiesResolve'
  BY <1>1, <1>2, <1>5, <1>10, <1>11 DEF VaultTypes, DummiesResolve, Stored
<1>13. SessionsFit'
  <2>1. \A t \in Sessions : valid'[t] <= issued + 1
    BY <1>1, <1>5, <1>11 DEF SessionsFit, VaultTypes
  <2>2. \A t \in Sessions : vault[t] # NoSession => SessionFits(vault[t], issued + 1)
    BY <1>1, <1>5 DEF SessionsFit, SessionFits
  <2>3. QED
    BY <1>1, <1>2, <2>1, <2>2 DEF SessionsFit
<1>14. CallsFit'
  <2>1. CallFits(r, issued + 1)
    BY <1>3, <1>5, <1>8 DEF CallFits
  <2>2. \A k \in Calls : CallFits(call[k], issued + 1)
    BY <1>1, <1>5, FitsMore DEF CallsFit, VaultTypes
  <2>3. QED
    BY <1>2, <1>10, <2>1, <2>2 DEF CallsFit
<1>15. ASSUME NEW k \in Calls PROVE ExchangeOK(k)'
  <2>1. CASE k = c
    BY <1>2, <1>4, <1>8, <1>10, <1>11, <2>1 DEF ExchangeOK
  <2>2. CASE k # c
    <3>1. SUFFICES ASSUME Answers(call[k]), call[k].rt = 0
                   PROVE  /\ vault[call[k].sess] = NoSession
                          /\ call[k].sess \notin dummies \cup deleted
                          /\ valid'[call[k].sess] = call[k].new
                          /\ call[k].snap = NoSession
                          /\ \A m \in Calls : m # k => call'[m].sess # call[k].sess
      BY <1>2, <1>10, <2>2 DEF ExchangeOK
    <3>2. call[k].sess \in Sessions /\ call[k].sess # s
      BY <1>1, <1>4, <3>1 DEF CallsFit, CallFits, Answers
    <3>3. QED
      BY <1>1, <1>8, <1>10, <1>11, <3>1, <3>2 DEF ExchangeOK
  <2>3. QED
    BY <2>1, <2>2
<1>16. ASSUME NEW t \in Sessions PROVE TokenOK(t)' /\ SentOK(t)'
  <2>1. CASE t = s
    BY <1>2, <1>4, <2>1 DEF TokenOK, SentOK
  <2>2. CASE t # s
    <3>1. \A k \in Calls : /\ Rotates(call'[k], t) <=> Rotates(call[k], t)
                           /\ Rotates(call'[k], t) => call'[k] = call[k]
      BY <1>8, <1>9, <1>10, <2>2 DEF Rotates
    <3>2. \A k \in Calls : call'[k].sess = t => call'[k] = call[k]
      BY <1>8, <1>10, <2>2
    <3>3. TokenOK(t)'
      BY <1>1, <1>2, <1>11, <2>2, <3>1, <3>2 DEF TokenOK
    <3>4. SentOK(t)'
      BY <1>1, <1>2 DEF SentOK
    <3>5. QED
      BY <3>3, <3>4
  <2>3. QED
    BY <2>1, <2>2
<1>17. QED
  BY <1>12, <1>13, <1>14, <1>15, <1>16 DEF VaultInv

(* Upstream: the provider takes the token only when no answer that replaces *)
(* it is on its way.                                                       *)
LEMMA UpstreamKeeps ==
  ASSUME VaultInv, NEW c \in Calls, Upstream(c)
  PROVE  VaultInv'
<1>1. /\ VaultTypes /\ SessionsFit /\ CallsFit /\ DummiesResolve
      /\ \A k \in Calls : ExchangeOK(k)
      /\ \A s \in Sessions : TokenOK(s) /\ SentOK(s)
  BY DEF VaultInv
<1>2. /\ call[c].at = "upstream"
      /\ UNCHANGED <<vault, dummies, deleted, cleaning, sentTo, slipped>>
  BY DEF Upstream, tokenVars
<1>3. ~Answers(call[c])
  BY <1>2 DEF Answers
<1>4. CASE call' = [call EXCEPT ![c] = IdleCall] /\ UNCHANGED <<issued, valid>>
  BY <1>2, <1>3, <1>4, EndKeeps
<1>5. CASE /\ call[c].rt # 0 /\ call[c].rt = valid[call[c].sess] /\ issued' = issued + 1
           /\ \E rt \in {0, issued + 1} :
                 /\ call' = [call EXCEPT ![c].at = "answer", ![c].acc = issued + 1, ![c].new = rt]
                 /\ valid' = IF rt = 0 THEN valid ELSE [valid EXCEPT ![call[c].sess] = rt]
  <2>1. PICK rt \in {0, issued + 1} :
                 /\ call' = [call EXCEPT ![c].at = "answer", ![c].acc = issued + 1, ![c].new = rt]
                 /\ valid' = IF rt = 0 THEN valid ELSE [valid EXCEPT ![call[c].sess] = rt]
    BY <1>5
  <2>2. PICK s \in Sessions : s = call[c].sess
    BY <1>1, <1>2 DEF CallsFit, CallFits
  <2>3. issued \in Nat /\ issued + 1 \in Nat /\ rt \in Nat /\ rt <= issued + 1
    BY <1>1 DEF VaultTypes
  <2>4. /\ call' \in [Calls -> CallRecord] /\ \A k \in Calls : k # c => call'[k] = call[k]
    <3>1. "answer" \in CallStages
      BY DEF CallStages
    <3>2. QED
      BY <1>1, <2>1, <2>3, <3>1, ZenonT(60) DEF VaultTypes, CallRecord
  <2>5. /\ call'[c].at = "answer" /\ call'[c].sess = s /\ call'[c].vm = call[c].vm
        /\ call'[c].rt = call[c].rt /\ call'[c].new = rt /\ call'[c].snap = call[c].snap
        /\ call'[c].acc = issued + 1
    BY <1>1, <2>1, <2>2 DEF VaultTypes, CallRecord
  <2>6. /\ valid' \in [Sessions -> Nat] /\ valid'[s] = (IF rt = 0 THEN valid[s] ELSE rt)
        /\ \A t \in Sessions : t # s => valid'[t] = valid[t]
    BY <1>1, <2>1, <2>2, <2>3 DEF VaultTypes
  <2>7. VaultTypes' /\ DummiesResolve'
    BY <1>1, <1>2, <1>5, <2>3, <2>4, <2>6 DEF VaultTypes, DummiesResolve, Stored
  <2>8. SessionsFit'
    <3>1. \A t \in Sessions : valid'[t] <= issued + 1
      BY <1>1, <2>3, <2>6 DEF SessionsFit, VaultTypes
    <3>2. \A t \in Sessions : vault[t] # NoSession => SessionFits(vault[t], issued + 1)
      BY <1>1, <2>3 DEF SessionsFit, SessionFits
    <3>3. QED
      BY <1>1, <1>2, <1>5, <3>1, <3>2 DEF SessionsFit
  <2>9. CallsFit'
    <3>1. \A k \in Calls : CallFits(call[k], issued + 1)
      BY <1>1, <2>3, FitsMore DEF CallsFit, VaultTypes
    <3>2. CallFits(call'[c], issued + 1)
      BY <1>2, <2>3, <2>5, <3>1 DEF CallFits
    <3>3. QED
      BY <1>5, <2>4, <3>1, <3>2 DEF CallsFit
  <2>10. ASSUME NEW k \in Calls PROVE ExchangeOK(k)'
    <3>1. CASE k = c
      BY <1>5, <2>5, <3>1 DEF ExchangeOK
    <3>2. CASE k # c
      <4>1. SUFFICES ASSUME Answers(call[k]), call[k].rt = 0
                     PROVE  /\ vault[call[k].sess] = NoSession
                            /\ call[k].sess \notin dummies \cup deleted
                            /\ valid'[call[k].sess] = call[k].new
                            /\ call[k].snap = NoSession
                            /\ \A m \in Calls : m # k => call'[m].sess # call[k].sess
        BY <1>2, <2>4, <3>2 DEF ExchangeOK
      <4>2. call[k].sess \in Sessions /\ call[k].sess # s
        BY <1>1, <2>2, <3>2, <4>1 DEF CallsFit, CallFits, Answers, ExchangeOK
      <4>3. QED
        BY <1>1, <2>2, <2>4, <2>5, <2>6, <4>1, <4>2 DEF ExchangeOK
    <3>3. QED
      BY <3>1, <3>2
  <2>11. ASSUME NEW t \in Sessions, t # s PROVE TokenOK(t)' /\ SentOK(t)'
    <3>1. \A k \in Calls : /\ Rotates(call'[k], t) <=> Rotates(call[k], t)
                           /\ Rotates(call'[k], t) => call'[k] = call[k]
      BY <1>3, <2>2, <2>4, <2>5, <2>11 DEF Rotates
    <3>2. \A k \in Calls : call'[k].sess = t => call'[k] = call[k]
      BY <2>4, <2>5, <2>11
    <3>3. TokenOK(t)'
      BY <1>1, <1>2, <2>6, <2>11, <3>1, <3>2 DEF TokenOK
    <3>4. SentOK(t)'
      BY <1>1, <1>2 DEF SentOK
    <3>5. QED
      BY <3>3, <3>4
  <2>12. SentOK(s)'
    BY <1>1, <1>2 DEF SentOK
  <2>13. TokenOK(s)'
    <3>1. SUFFICES ASSUME vault[s] # NoSession, s \notin slipped
                   PROVE  /\ vault[s].refresh = valid'[s] \/ \E k \in Calls : Rotates(call'[k], s)
                          /\ \A k \in Calls : Rotates(call'[k], s) =>
                               /\ call'[k].new = valid'[s] /\ vault[s].refresh # valid'[s]
                               /\ \A m \in Calls : /\ call'[m].sess = s => call'[m].rt # valid'[s]
                                                   /\ Rotates(call'[m], s) => m = k
      BY <1>2 DEF TokenOK
    <3>2. \A k \in Calls : ~Rotates(call[k], s)
      BY <1>1, <1>5, <2>2, <3>1 DEF TokenOK
    <3>3. vault[s].refresh = valid[s]
      BY <1>1, <3>1, <3>2 DEF TokenOK
    <3>4. \A k \in Calls : Rotates(call'[k], s) => k = c /\ rt # 0
      BY <2>4, <2>5, <3>2 DEF Rotates
    <3>5. CASE rt = 0
      BY <2>6, <3>3, <3>4, <3>5
    <3>6. CASE rt # 0
      <4>1. rt = issued + 1 /\ valid'[s] = rt
        BY <2>6, <3>6
      <4>2. Rotates(call'[c], s)
        BY <2>5, <3>6 DEF Rotates, Answers
      <4>3. vault[s].refresh # rt
        BY <1>1, <2>3, <3>1, <4>1 DEF SessionsFit, SessionFits
      <4>4. \A m \in Calls : call'[m].rt # rt
        <5>1. \A m \in Calls : call[m].rt \in Nat /\ call[m].rt <= issued
          BY <1>1 DEF CallsFit, CallFits, VaultTypes, CallRecord
        <5>2. \A m \in Calls : call'[m].rt = call[m].rt
          BY <2>4, <2>5
        <5>3. QED
          BY <2>3, <4>1, <5>1, <5>2
      <4>5. QED
        BY <2>5, <3>4, <4>1, <4>2, <4>3, <4>4
    <3>7. QED
      BY <3>5, <3>6
  <2>14. QED
    BY <2>7, <2>8, <2>9, <2>10, <2>11, <2>12, <2>13 DEF VaultInv
<1>6. QED
  BY <1>4, <1>5 DEF Upstream

(* A session's entry is written.  No call begins; one may end or lose its  *)
(* answer, of this session only.                                           *)
LEMMA EntryWritten ==
  ASSUME VaultInv, NEW s \in Sessions, NEW x \in SessionRecord, SessionFits(x, issued),
         vault' = [vault EXCEPT ![s] = x], call' \in [Calls -> CallRecord],
         \A k \in Calls : CallFits(call'[k], issued),
         UNCHANGED <<deleted, cleaning, issued, valid, sentTo>>,
         slipped \subseteq slipped', dummies' \subseteq dummies \cup {s},
         \A k \in Calls : \/ call'[k] = call[k]
                          \/ /\ ~Answers(call'[k]) /\ call'[k].sess \in {NoSession, call[k].sess}
                             /\ Answers(call[k]) => call[k].sess = s
                             /\ call'[k].sess = call[k].sess => call'[k].rt = call[k].rt,
         \A k \in Calls : Answers(call'[k]) /\ call'[k].rt = 0 => call'[k].sess # s,
         s \notin slipped' => sentTo[s] \subseteq {x.bound} \cup Cross,
         TokenOK(s)'
  PROVE  VaultInv'
<1>1. /\ VaultTypes /\ SessionsFit /\ CallsFit /\ DummiesResolve
      /\ \A k \in Calls : ExchangeOK(k)
      /\ \A t \in Sessions : TokenOK(t) /\ SentOK(t)
  BY DEF VaultInv
<1>2. x \in Snaps /\ x # NoSession
  BY VaultAssumption DEF Snaps
<1>3. vault' \in [Sessions -> Snaps] /\ vault'[s] = x /\ \A t \in Sessions : t # s => vault'[t] = vault[t]
  BY <1>1, <1>2 DEF VaultTypes
<1>4. VaultTypes'
  BY <1>1, <1>3 DEF VaultTypes
<1>5. SessionsFit'
  BY <1>1, <1>2, <1>3 DEF SessionsFit
<1>6. CallsFit'
  BY DEF CallsFit
<1>7. DummiesResolve'
  <2>1. Stored \cup {s} \subseteq Stored'
    BY <1>2, <1>3 DEF Stored
  <2>2. QED
    BY <1>1, <2>1 DEF DummiesResolve
<1>8. ASSUME NEW k \in Calls PROVE ExchangeOK(k)'
  <2>1. SUFFICES ASSUME Answers(call'[k]), call'[k].rt = 0
                 PROVE  /\ vault'[call'[k].sess] = NoSession
                        /\ call'[k].sess \notin dummies' \cup deleted
                        /\ valid[call'[k].sess] = call'[k].new
                        /\ call'[k].snap = NoSession
                        /\ \A m \in Calls : m # k => call'[m].sess # call'[k].sess
    BY DEF ExchangeOK
  <2>2. call'[k] = call[k] /\ call[k].sess # s
    BY <2>1
  <2>3. call[k].sess \in Sessions /\ call[k].sess # NoSession
    BY <1>1, <2>1, <2>2, VaultAssumption DEF CallsFit, CallFits, Answers
  <2>4. /\ vault[call[k].sess] = NoSession
        /\ call[k].sess \notin dummies \cup deleted
        /\ valid[call[k].sess] = call[k].new
        /\ call[k].snap = NoSession
        /\ \A m \in Calls : m # k => call[m].sess # call[k].sess
    BY <1>1, <2>1, <2>2 DEF ExchangeOK
  <2>5. \A m \in Calls : m # k => call'[m].sess # call'[k].sess
    BY <2>2, <2>3, <2>4
  <2>6. QED
    BY <1>3, <2>2, <2>3, <2>4, <2>5
<1>9. ASSUME NEW t \in Sessions, t # s PROVE TokenOK(t)' /\ SentOK(t)'
  <2>1. \A k \in Calls : /\ Rotates(call'[k], t) <=> Rotates(call[k], t)
                         /\ Rotates(call'[k], t) => call'[k] = call[k]
    BY <1>9 DEF Rotates
  <2>2. t # NoSession
    BY VaultAssumption
  <2>3. \A k \in Calls : call'[k].sess = t => call[k].sess = t /\ call'[k].rt = call[k].rt
    BY <2>2
  <2>4. TokenOK(t)'
    BY <1>1, <1>3, <1>9, <2>1, <2>3 DEF TokenOK
  <2>5. SentOK(t)'
    BY <1>1, <1>3, <1>9 DEF SentOK
  <2>6. QED
    BY <2>4, <2>5
<1>10. SentOK(s)'
  BY <1>3 DEF SentOK
<1>11. QED
  BY <1>4, <1>5, <1>6, <1>7, <1>8, <1>9, <1>10 DEF VaultInv

(* A write that keeps the refresh token, by a call with no answer to store. *)
LEMMA SameToken ==
  ASSUME VaultInv, NEW s \in Sessions, vault[s] # NoSession \/ s \in slipped',
         vault'[s].refresh = vault[s].refresh \/ s \in slipped', UNCHANGED valid, slipped \subseteq slipped',
         \A k \in Calls : \/ call'[k] = call[k]
                          \/ /\ ~Answers(call'[k]) /\ call'[k].sess \in {NoSession, call[k].sess}
                             /\ Answers(call[k]) => call[k].sess = s /\ call[k].new = 0
                             /\ call'[k].sess = call[k].sess => call'[k].rt = call[k].rt
  PROVE  TokenOK(s)'
<1>1. TokenOK(s)
  BY DEF VaultInv
<1>2. SUFFICES ASSUME s \notin slipped' PROVE TokenOK(s)'
  BY DEF TokenOK
<1>3. \A k \in Calls : /\ Rotates(call'[k], s) <=> Rotates(call[k], s)
                       /\ Rotates(call'[k], s) => call'[k] = call[k]
  BY DEF Rotates
<1>4. s # NoSession
  BY VaultAssumption
<1>5. \A k \in Calls : call'[k].sess = s => call[k].sess = s /\ call'[k].rt = call[k].rt
  BY <1>4
<1>6. QED
  BY <1>1, <1>2, <1>3, <1>5 DEF TokenOK

(* Expire.                                                                 *)
LEMMA ExpireKeeps ==
  ASSUME VaultInv, NEW s \in Sessions, Expire(s)
  PROVE  VaultInv'
<1>1. VaultTypes /\ SessionsFit /\ CallsFit /\ SentOK(s) /\ \A k \in Calls : ExchangeOK(k)
  BY DEF VaultInv
<1>2. /\ vault[s] # NoSession /\ vault' = [vault EXCEPT ![s].fresh = FALSE]
      /\ UNCHANGED <<call, dummies, deleted, cleaning, issued, valid, sentTo, slipped>>
  BY DEF Expire, tokenVars
<1>3. vault[s] \in SessionRecord /\ SessionFits(vault[s], issued)
  BY <1>1, <1>2 DEF VaultTypes, Snaps, SessionsFit
<1>4. PICK x : x = [vault[s] EXCEPT !.fresh = FALSE]
  OBVIOUS
<1>5. x \in SessionRecord
  BY <1>3, <1>4 DEF SessionRecord
<1>6. x.access = vault[s].access /\ x.refresh = vault[s].refresh /\ x.bound = vault[s].bound /\ x.extra = vault[s].extra
  BY <1>3, <1>4 DEF SessionRecord
<1>7. SessionFits(x, issued)
  BY <1>3, <1>6 DEF SessionFits
<1>8. vault' = [vault EXCEPT ![s] = x] /\ vault'[s] = x
  BY <1>1, <1>2, <1>4 DEF VaultTypes
<1>9. TokenOK(s)'
  BY <1>2, <1>6, <1>8, SameToken
<1>10. s \notin slipped' => sentTo[s] \subseteq {x.bound} \cup Cross
  BY <1>1, <1>2, <1>6 DEF SentOK
<1>11. \A k \in Calls : Answers(call'[k]) /\ call'[k].rt = 0 => call'[k].sess # s
  BY <1>1, <1>2 DEF ExchangeOK
<1>12. call' \in [Calls -> CallRecord] /\ \A k \in Calls : CallFits(call'[k], issued)
  BY <1>1, <1>2 DEF VaultTypes, CallsFit
<1>13. QED
  BY <1>2, <1>5, <1>7, <1>8, <1>9, <1>10, <1>11, <1>12, EntryWritten

(* BindWrite: the domain is bound in the entry that was read, or the       *)
(* session has slipped.                                                    *)
LEMMA BindWriteKeeps ==
  ASSUME VaultInv, NEW c \in Calls, BindWrite(c)
  PROVE  VaultInv'
<1>1. /\ VaultTypes /\ SessionsFit /\ CallsFit /\ CallFits(call[c], issued)
      /\ \A k \in Calls : ExchangeOK(k)
      /\ \A t \in Sessions : SentOK(t)
  BY DEF VaultInv, CallsFit
<1>2. /\ call[c].at = "bindwrite"
      /\ UNCHANGED <<dummies, deleted, cleaning, issued, valid, sentTo>>
  BY DEF BindWrite, tokenVars
<1>3. PICK s \in Sessions : s = call[c].sess
  BY <1>1, <1>2 DEF CallFits
<1>4. call[c].snap \in SessionRecord /\ SessionFits(call[c].snap, issued) /\ call[c].snap.bound = NoDomain
  BY <1>1, <1>2 DEF CallFits, VaultTypes, CallRecord, Snaps
<1>5. PICK x : x = [call[c].snap EXCEPT !.bound = call[c].dom]
  OBVIOUS
<1>6. call[c].dom \in ApiDomains /\ call[c].dom \in Bounds
  BY <1>1, <1>2 DEF CallFits, Bounds
<1>7. x \in SessionRecord
  BY <1>4, <1>5, <1>6 DEF SessionRecord
<1>8. /\ x.access = call[c].snap.access /\ x.refresh = call[c].snap.refresh
      /\ x.bound = call[c].dom /\ x.extra = call[c].snap.extra
  BY <1>4, <1>5 DEF SessionRecord
<1>9. SessionFits(x, issued)
  BY <1>4, <1>8 DEF SessionFits
<1>10. ~Answers(call[c])
  BY <1>2 DEF Answers
<1>11. "resolve" \in CallStages /\ x \in Snaps
  BY <1>7 DEF CallStages, Snaps
<1>12. CASE call' = [call EXCEPT ![c].at = "resolve"] /\ UNCHANGED <<vault, slipped>>
  <2>1. call' \in [Calls -> CallRecord] /\ \A k \in Calls : k # c => call'[k] = call[k]
    BY <1>1, <1>11, <1>12 DEF VaultTypes, CallRecord
  <2>2. /\ call'[c].at = "resolve" /\ call'[c].sess = s /\ call'[c].dom = call[c].dom
        /\ call'[c].rt = call[c].rt /\ call'[c].new = call[c].new /\ call'[c].snap = call[c].snap
    BY <1>1, <1>3, <1>12 DEF VaultTypes, CallRecord
  <2>3. ~Answers(call'[c])
    BY <2>2 DEF Answers
  <2>4. CallFits(call'[c], issued)
    BY <1>1, <1>2, <1>4, <2>2, <2>3 DEF CallFits
  <2>5. QED
    BY <1>2, <1>3, <1>10, <1>12, <2>1, <2>2, <2>3, <2>4, StageKeeps
<1>13. CASE /\ vault' = [vault EXCEPT ![s] = x]
            /\ slipped' = IF vault[s] # call[c].snap THEN slipped \cup {s} ELSE slipped
            /\ call' = [call EXCEPT ![c].at = "resolve", ![c].snap = x]
  <2>1. call' \in [Calls -> CallRecord] /\ \A k \in Calls : k # c => call'[k] = call[k]
    BY <1>1, <1>11, <1>13, ZenonT(60) DEF VaultTypes, CallRecord
  <2>2. /\ call'[c].at = "resolve" /\ call'[c].sess = s /\ call'[c].dom = call[c].dom
        /\ call'[c].rt = call[c].rt /\ call'[c].new = call[c].new /\ call'[c].snap = x
    BY <1>1, <1>3, <1>13 DEF VaultTypes, CallRecord
  <2>3. ~Answers(call'[c])
    BY <2>2 DEF Answers
  <2>4. CallFits(call'[c], issued)
    BY <1>1, <1>2, <1>8, <1>9, <2>2, <2>3 DEF CallFits
  <2>5. \A k \in Calls : CallFits(call'[k], issued)
    BY <1>1, <2>1, <2>4 DEF CallsFit
  <2>6. slipped \subseteq slipped' /\ (s \notin slipped' => vault[s] = call[c].snap /\ s \notin slipped)
    BY <1>13
  <2>7. call[c].snap # NoSession
    BY <1>4, VaultAssumption
  <2>8. vault'[s] = x
    BY <1>1, <1>13 DEF VaultTypes
  <2>9. TokenOK(s)'
    BY <1>2, <1>3, <1>8, <1>10, <2>1, <2>2, <2>3, <2>6, <2>7, <2>8, SameToken
  <2>10. s \notin slipped' => sentTo[s] \subseteq {x.bound} \cup Cross
    <3>1. SUFFICES ASSUME s \notin slipped' PROVE sentTo[s] \subseteq Cross
      OBVIOUS
    <3>2. sentTo[s] \subseteq {NoDomain} \cup Cross /\ sentTo[s] \subseteq ApiDomains
      BY <1>1, <1>4, <2>6, <2>7, <3>1 DEF SentOK, VaultTypes
    <3>3. QED
      BY <3>2, VaultAssumption
  <2>11. \A k \in Calls : Answers(call'[k]) /\ call'[k].rt = 0 => call'[k].sess # s
    BY <1>1, <1>3, <2>1, <2>3 DEF ExchangeOK
  <2>12. QED
    BY <1>2, <1>3, <1>7, <1>9, <1>10, <1>13, <2>1, <2>2, <2>3, <2>5, <2>6, <2>9, <2>10, <2>11, EntryWritten, ZenonT(60)
<1>14. QED
  BY <1>3, <1>5, <1>12, <1>13 DEF BindWrite

(* InterceptStore: the entry keeps the binding, and has the refresh token  *)
(* the provider takes, unless the session has slipped.                     *)
LEMMA StoreKeeps ==
  ASSUME VaultInv, NEW c \in Calls, InterceptStore(c)
  PROVE  VaultInv'
<1>1. /\ VaultTypes /\ SessionsFit /\ CallsFit /\ CallFits(call[c], issued)
      /\ \A k \in Calls : ExchangeOK(k)
      /\ \A t \in Sessions : TokenOK(t) /\ SentOK(t)
  BY DEF VaultInv, CallsFit
<1>2. /\ call[c].at = "store" /\ call' = [call EXCEPT ![c] = IdleCall]
      /\ UNCHANGED <<deleted, cleaning, issued, valid, sentTo>>
  BY DEF InterceptStore, tokenVars
<1>3. PICK s \in Sessions : s = call[c].sess
  BY <1>1, <1>2 DEF CallFits
<1>4. CASE slipped' = slipped \cup {s} /\ UNCHANGED <<vault, dummies>>
  BY <1>2, <1>3, <1>4, EndKeeps
<1>5. ASSUME NEW fresh \in BOOLEAN, vault' = [vault EXCEPT ![s] = Intercepted(c, fresh)],
             dummies' = dummies \cup {s},
             slipped' = IF IsRefresh(c) /\ (vault[s] # call[c].snap \/ vault[s] = NoSession)
                        THEN slipped \cup {s} ELSE slipped
      PROVE  VaultInv'
  <2>1. /\ call' \in [Calls -> CallRecord] /\ call'[c] = IdleCall
        /\ \A k \in Calls : k # c => call'[k] = call[k]
    BY <1>1, <1>2, IdleFits DEF VaultTypes
  <2>2. Answers(call[c]) /\ call[c] \in CallRecord
    BY <1>1, <1>2 DEF Answers, VaultTypes
  <2>3. /\ call[c].snap \in Snaps /\ (call[c].snap # NoSession => SessionFits(call[c].snap, issued))
        /\ call[c].vm \in VaultVms /\ call[c].acc \in 1 .. issued /\ call[c].acc \in Nat
        /\ call[c].new \in Nat /\ call[c].new <= issued
    BY <1>1, <1>2, <2>2 DEF CallFits, CallRecord
  <2>4. PICK refresh : refresh = IF call[c].new = 0 /\ call[c].snap # NoSession THEN call[c].snap.refresh ELSE call[c].new
    OBVIOUS
  <2>5. PICK bound : bound = IF call[c].snap = NoSession THEN NoDomain ELSE call[c].snap.bound
    OBVIOUS
  <2>6. PICK extra : extra = IF call[c].snap = NoSession THEN Cross ELSE call[c].snap.extra
    OBVIOUS
  <2>7. PICK x : x = [vm |-> call[c].vm, access |-> call[c].acc, fresh |-> fresh,
                      refresh |-> refresh, bound |-> bound, extra |-> extra]
    OBVIOUS
  <2>8. refresh \in 0 .. issued /\ refresh \in Nat
    BY <1>1, <2>3, <2>4 DEF SessionFits, VaultTypes
  <2>9. bound \in Bounds
    BY <2>3, <2>5 DEF Snaps, SessionRecord, Bounds
  <2>10. extra = Cross /\ extra \in Extras
    BY <2>3, <2>6, VaultAssumption DEF SessionFits, Extras
  <2>11. x \in SessionRecord
    BY <2>3, <2>7, <2>8, <2>9, <2>10, <1>5 DEF SessionRecord
  <2>12. x.access = call[c].acc /\ x.refresh = refresh /\ x.bound = bound /\ x.extra = Cross
    BY <2>7, <2>10
  <2>13. SessionFits(x, issued)
    BY <2>3, <2>8, <2>12 DEF SessionFits
  <2>14. Intercepted(c, fresh) = x
    BY <2>4, <2>5, <2>6, <2>7 DEF Intercepted
  <2>15. vault' = [vault EXCEPT ![s] = x] /\ vault'[s] = x
    BY <1>1, <1>5, <2>14 DEF VaultTypes
  <2>16. slipped \subseteq slipped' /\ dummies' \subseteq dummies \cup {s}
    BY <1>5
  <2>17. \A k \in Calls : CallFits(call'[k], issued)
    BY <1>1, <2>1, IdleFits DEF CallsFit, VaultTypes
  <2>18. \A k \in Calls : Answers(call'[k]) /\ call'[k].rt = 0 => call'[k].sess # s
    BY <1>1, <1>3, <2>1, IdleFits DEF ExchangeOK
  <2>19. TokenOK(s)' /\ (s \notin slipped' => sentTo[s] \subseteq {x.bound} \cup Cross)
    <3>1. CASE call[c].rt = 0
      <4>1. /\ vault[s] = NoSession /\ valid[s] = call[c].new /\ call[c].snap = NoSession
            /\ \A k \in Calls : k # c => call[k].sess # s
        BY <1>1, <1>3, <2>2, <3>1 DEF ExchangeOK
      <4>2. sentTo[s] = {}
        BY <1>1, <4>1 DEF SessionsFit
      <4>3. x.refresh = valid'[s]
        BY <1>2, <2>4, <2>12, <4>1
      <4>4. \A k \in Calls : ~Rotates(call'[k], s)
        BY <2>1, <4>1, IdleFits DEF Rotates
      <4>5. TokenOK(s)'
        BY <2>15, <4>3, <4>4 DEF TokenOK
      <4>6. QED
        BY <4>2, <4>5
    <3>2. CASE call[c].rt # 0 /\ s \in slipped'
      BY <3>2 DEF TokenOK
    <3>3. CASE call[c].rt # 0 /\ s \notin slipped'
      <4>1. vault[s] = call[c].snap /\ vault[s] # NoSession /\ s \notin slipped
        BY <1>5, <3>3 DEF IsRefresh
      <4>2. sentTo[s] \subseteq {x.bound} \cup Cross
        BY <1>1, <2>5, <2>12, <4>1 DEF SentOK
      <4>3. CASE call[c].new = 0
        <5>1. vault'[s].refresh = vault[s].refresh
          BY <2>4, <2>12, <2>15, <4>1, <4>3
        <5>2. TokenOK(s)'
          <6>1. call'[c].sess # call[c].sess
            BY <1>3, <2>1, IdleFits, VaultAssumption
          <6>2. \A k \in Calls : \/ call'[k] = call[k]
                                 \/ /\ ~Answers(call'[k]) /\ call'[k].sess \in {NoSession, call[k].sess}
                                    /\ Answers(call[k]) => call[k].sess = s /\ call[k].new = 0
                                    /\ call'[k].sess = call[k].sess => call'[k].rt = call[k].rt
            BY <1>3, <2>1, <4>3, <6>1, IdleFits
          <6>3. QED
            BY <1>2, <2>16, <4>1, <5>1, <6>2, SameToken
        <5>3. QED
          BY <4>2, <5>2
      <4>4. CASE call[c].new # 0
        <5>1. Rotates(call[c], s)
          BY <1>3, <2>2, <4>4 DEF Rotates
        <5>2. call[c].new = valid[s] /\ \A k \in Calls : Rotates(call[k], s) => k = c
          BY <1>1, <4>1, <5>1 DEF TokenOK
        <5>3. x.refresh = valid'[s]
          BY <1>2, <2>4, <2>12, <4>4, <5>2
        <5>4. \A k \in Calls : ~Rotates(call'[k], s)
          BY <2>1, <5>2, IdleFits DEF Rotates
        <5>5. TokenOK(s)'
          BY <2>15, <5>3, <5>4 DEF TokenOK
        <5>6. QED
          BY <4>2, <5>5
      <4>5. QED
        BY <4>3, <4>4
    <3>4. QED
      BY <3>1, <3>2, <3>3
  <2>20. \A k \in Calls : \/ call'[k] = call[k]
                          \/ /\ ~Answers(call'[k]) /\ call'[k].sess \in {NoSession, call[k].sess}
                             /\ Answers(call[k]) => call[k].sess = s
                             /\ call'[k].sess = call[k].sess => call'[k].rt = call[k].rt
    <3>1. s # NoSession
      BY VaultAssumption
    <3>2. QED
      BY <1>3, <2>1, <3>1, IdleFits
  <2>21. QED
    BY <1>2, <2>1, <2>11, <2>13, <2>15, <2>16, <2>17, <2>18, <2>19, <2>20, EntryWritten
<1>6. QED
  BY <1>3, <1>4, <1>5 DEF InterceptStore

(* ResolveAccess: the domain is bound or an extra one, or a slip.          *)
LEMMA ResolveKeeps ==
  ASSUME VaultInv, NEW c \in Calls, ResolveAccess(c)
  PROVE  VaultInv'
<1>1. /\ VaultTypes /\ SessionsFit /\ CallFits(call[c], issued)
      /\ \A t \in Sessions : SentOK(t)
  BY DEF VaultInv, CallsFit
<1>2. /\ call[c].at = "resolve" /\ call' = [call EXCEPT ![c] = IdleCall]
      /\ UNCHANGED <<vault, dummies, deleted, cleaning, issued, valid>>
  BY DEF ResolveAccess, tokenVars
<1>3. PICK s \in Sessions : s = call[c].sess
  BY <1>1, <1>2 DEF CallFits
<1>4. PICK d \in ApiDomains : d = call[c].dom
  BY <1>1, <1>2 DEF CallFits
<1>5. sentTo' = IF vault[s] = NoSession THEN sentTo ELSE [sentTo EXCEPT ![s] = sentTo[s] \cup {d}]
  BY <1>3, <1>4 DEF ResolveAccess
<1>6. slipped' = IF /\ vault[s] # NoSession
                    /\ call[c].snap = NoSession \/ call[c].snap.bound # vault[s].bound \/ vault[s].bound = NoDomain
                 THEN slipped \cup {s} ELSE slipped
  BY <1>3 DEF ResolveAccess
<1>7. slipped \subseteq slipped'
  BY <1>6
<1>8. sentTo' \in [Sessions -> SUBSET ApiDomains]
  BY <1>1, <1>5 DEF VaultTypes
<1>9. /\ call' \in [Calls -> CallRecord] /\ call'[c] = IdleCall
      /\ \A k \in Calls : k # c => call'[k] = call[k]
  BY <1>1, <1>2, IdleFits DEF VaultTypes
<1>10. ASSUME NEW t \in Sessions
       PROVE  SentOK(t)' /\ (vault[t] = NoSession => sentTo'[t] = {})
  <2>1. CASE t # s \/ vault[s] = NoSession
    <3>1. sentTo'[t] = sentTo[t]
      BY <1>1, <1>5, <2>1 DEF VaultTypes
    <3>2. QED
      BY <1>1, <1>2, <1>7, <3>1 DEF SentOK, SessionsFit
  <2>2. CASE t = s /\ vault[s] # NoSession
    <3>1. sentTo'[s] = sentTo[s] \cup {d}
      BY <1>1, <1>5, <2>2 DEF VaultTypes
    <3>2. SUFFICES ASSUME s \notin slipped'
                   PROVE  sentTo[s] \cup {d} \subseteq {vault[s].bound} \cup Cross
      BY <1>2, <2>2, <3>1 DEF SentOK
    <3>3. call[c].snap # NoSession /\ call[c].snap.bound = vault[s].bound /\ vault[s].bound # NoDomain
      BY <1>6, <2>2, <3>2
    <3>4. d \in {vault[s].bound} \cup Cross
      BY <1>1, <1>2, <1>4, <3>3 DEF CallFits
    <3>5. sentTo[s] \subseteq {vault[s].bound} \cup Cross
      BY <1>1, <1>7, <2>2, <3>2 DEF SentOK
    <3>6. QED
      BY <3>4, <3>5
  <2>3. QED
    BY <2>1, <2>2
<1>11. ~Answers(call[c]) /\ CallFits(IdleCall, issued)
  BY <1>1, <1>2, IdleFits DEF Answers, VaultTypes
<1>12. QED
  BY <1>2, <1>7, <1>8, <1>9, <1>10, <1>11, IdleFits, CallMoves

(* A session is removed, by the user or by the clean-up of its VM.         *)
LEMMA RemoveKeeps ==
  ASSUME VaultInv, NEW s \in Sessions, vault[s] # NoSession, Remove(s),
         UNCHANGED <<call, dummies, issued, valid, slipped>>,
         cleaning' \in [vm : CallVms, todo : SUBSET Sessions]
  PROVE  VaultInv'
<1>1. /\ VaultTypes /\ SessionsFit /\ CallsFit /\ DummiesResolve
      /\ \A k \in Calls : ExchangeOK(k)
      /\ \A t \in Sessions : TokenOK(t) /\ SentOK(t)
  BY DEF VaultInv
<1>2. /\ vault' = [vault EXCEPT ![s] = NoSession] /\ deleted' = deleted \cup {s}
      /\ sentTo' = [sentTo EXCEPT ![s] = {}]
  BY DEF Remove
<1>3. /\ vault' \in [Sessions -> Snaps] /\ vault'[s] = NoSession /\ sentTo'[s] = {}
      /\ sentTo' \in [Sessions -> SUBSET ApiDomains]
      /\ \A t \in Sessions : t # s => vault'[t] = vault[t] /\ sentTo'[t] = sentTo[t]
  BY <1>1, <1>2 DEF VaultTypes, Snaps
<1>4. VaultTypes'
  BY <1>1, <1>2, <1>3 DEF VaultTypes
<1>5. SessionsFit' /\ CallsFit'
  BY <1>1, <1>3 DEF SessionsFit, CallsFit
<1>6. DummiesResolve'
  BY <1>1, <1>2, <1>3 DEF DummiesResolve, Stored
<1>7. ASSUME NEW k \in Calls PROVE ExchangeOK(k)'
  <2>1. SUFFICES ASSUME Answers(call[k]), call[k].rt = 0
                 PROVE  vault'[call[k].sess] = NoSession /\ call[k].sess \notin dummies \cup deleted'
    BY <1>1 DEF ExchangeOK
  <2>2. vault[call[k].sess] = NoSession /\ call[k].sess \notin dummies \cup deleted
    BY <1>1, <2>1 DEF ExchangeOK
  <2>3. call[k].sess # s /\ call[k].sess \in Sessions
    BY <1>1, <2>1, <2>2 DEF CallsFit, CallFits, Answers
  <2>4. QED
    BY <1>2, <1>3, <2>2, <2>3
<1>8. ASSUME NEW t \in Sessions PROVE TokenOK(t)' /\ SentOK(t)'
  <2>1. CASE t = s
    BY <1>3, <2>1 DEF TokenOK, SentOK
  <2>2. CASE t # s
    <3>1. TokenOK(t)'
      BY <1>1, <1>3, <2>2 DEF TokenOK
    <3>2. SentOK(t)'
      BY <1>1, <1>3, <2>2 DEF SentOK
    <3>3. QED
      BY <3>1, <3>2
  <2>3. QED
    BY <2>1, <2>2
<1>9. QED
  BY <1>4, <1>5, <1>6, <1>7, <1>8 DEF VaultInv

(* Only the engine or the clean-up's list changes.                         *)
LEMMA FrameKeeps ==
  ASSUME VaultInv, UNCHANGED <<vault, call, dummies, deleted, issued, valid, sentTo, slipped>>,
         cleaning' \in [vm : CallVms, todo : SUBSET Sessions]
  PROVE  VaultInv'
<1>1. VaultTypes' /\ SessionsFit' /\ CallsFit' /\ DummiesResolve'
  BY DEF VaultInv, VaultTypes, SessionsFit, CallsFit, DummiesResolve, Stored
<1>2. \A k \in Calls : ExchangeOK(k)'
  BY DEF VaultInv, ExchangeOK
<1>3. \A t \in Sessions : TokenOK(t)'
  BY DEF VaultInv, TokenOK
<1>4. \A t \in Sessions : SentOK(t)'
  BY DEF VaultInv, SentOK
<1>5. QED
  BY <1>1, <1>2, <1>3, <1>4 DEF VaultInv

(* The invariant of the vault is inductive.                                *)
LEMMA VaultInvStep == VaultInv /\ [VaultNext]_vaultVars => VaultInv'
<1> SUFFICES ASSUME VaultInv, [VaultNext]_vaultVars
             PROVE  VaultInv'
  OBVIOUS
<1>1. VaultTypes /\ cleaning \in [vm : CallVms, todo : SUBSET Sessions]
  BY DEF VaultInv, VaultTypes
<1>2. CASE UNCHANGED vaultVars
  BY <1>1, <1>2, FrameKeeps DEF vaultVars
<1>3. CASE ReloadEngine
  BY <1>1, <1>3, FrameKeeps DEF ReloadEngine
<1>4. ASSUME NEW v \in VaultVms, CleanupList(v) PROVE VaultInv'
  <2>1. cleaning' = [vm |-> v, todo |-> Stored]
    BY <1>4 DEF CleanupList
  <2>2. v \in CallVms /\ Stored \in SUBSET Sessions
    BY DEF CallVms, Stored
  <2>3. cleaning' \in [vm : CallVms, todo : SUBSET Sessions]
    BY <2>1, <2>2
  <2>4. QED
    BY <1>4, <2>3, FrameKeeps DEF CleanupList
<1>5. ASSUME NEW s \in Sessions, DeleteSession(s) PROVE VaultInv'
  BY <1>1, <1>5, RemoveKeeps DEF DeleteSession
<1>6. ASSUME NEW s \in Sessions, CleanupOne(s) PROVE VaultInv'
  <2>1. cleaning' = IF cleaning.todo = {s} THEN [vm |-> NoSession, todo |-> {}]
                    ELSE [cleaning EXCEPT !.todo = cleaning.todo \ {s}]
    BY <1>6 DEF CleanupOne
  <2>2. NoSession \in CallVms
    BY DEF CallVms
  <2>3. cleaning' \in [vm : CallVms, todo : SUBSET Sessions]
    <3>1. CASE cleaning.todo = {s}
      BY <2>1, <2>2, <3>1
    <3>2. CASE cleaning.todo # {s}
      BY <1>1, <2>1, <3>2
    <3>3. QED
      BY <3>1, <3>2
  <2>4. CASE vault[s] # NoSession /\ Remove(s)
    BY <1>6, <2>3, <2>4, RemoveKeeps DEF CleanupOne
  <2>5. CASE UNCHANGED <<vault, deleted, sentTo>>
    BY <1>6, <2>3, <2>5, FrameKeeps DEF CleanupOne
  <2>6. QED
    BY <1>6, <2>4, <2>5 DEF CleanupOne
<1>7. ASSUME NEW c \in Calls, NEW s \in Sessions, RefreshPlain(c, s) \/ RefreshInspected(c, s) \/ RefreshPkce(c, s)
      PROVE  VaultInv'
  <2>1. PICK via \in CallVias : Refresh(c, s, via)
    BY <1>7 DEF RefreshPlain, RefreshInspected, RefreshPkce, CallVias
  <2>2. QED
    BY <2>1, RefreshKeeps
<1>8. ASSUME NEW c \in Calls, NEW v \in VaultVms, NEW via \in {"plain", "inspect"}, Exchange(c, v, via)
      PROVE  VaultInv'
  <2>1. via \in CallVias
    BY DEF CallVias
  <2>2. QED
    BY <1>8, <2>1, ExchangeKeeps
<1>9. QED
  BY <1>2, <1>3, <1>4, <1>5, <1>6, <1>7, <1>8, CachedKeeps, UpstreamKeeps, ReadKeeps, StoreKeeps,
     CheckKeeps, BindReadKeeps, BindWriteKeeps, ResolveKeeps, ExpireKeeps DEF VaultNext

(* For any numbers of sessions, calls and domains: a session's real access *)
(* token goes to the domain it is bound to and the provider's extra ones,  *)
(* no chain of refreshes loses the refresh token that the provider takes,  *)
(* and a dummy token stands for a session that is or was stored, unless a  *)
(* call wrote or used a stale copy of the session or a store failed.       *)
THEOREM VaultIsSafe == VaultSpec => []VaultSafe
<1>1. VaultInit => VaultInv
  <2>1. SUFFICES ASSUME VaultInit PROVE VaultInv
    OBVIOUS
  <2>2. /\ vault = [s \in Sessions |-> NoSession] /\ call = [c \in Calls |-> IdleCall]
        /\ dummies = {} /\ deleted = {} /\ cleaning = [vm |-> NoSession, todo |-> {}]
        /\ issued = 0 /\ valid = [s \in Sessions |-> 0] /\ sentTo = [s \in Sessions |-> {}]
    BY <2>1 DEF VaultInit
  <2>3. vault \in [Sessions -> Snaps] /\ call \in [Calls -> CallRecord]
    BY <2>2, IdleFits DEF Snaps
  <2>4. VaultTypes
    BY <2>2, <2>3 DEF VaultTypes, CallVms
  <2>5. SessionsFit /\ CallsFit /\ DummiesResolve
    BY <2>2, IdleFits DEF SessionsFit, CallsFit, DummiesResolve
  <2>6. \A c \in Calls : ExchangeOK(c)
    BY <2>2, IdleFits DEF ExchangeOK
  <2>7. \A s \in Sessions : TokenOK(s) /\ SentOK(s)
    BY <2>2 DEF TokenOK, SentOK
  <2>8. QED
    BY <2>4, <2>5, <2>6, <2>7 DEF VaultInv
<1>2. VaultInv => VaultSafe
  <2>1. SUFFICES ASSUME VaultInv PROVE VaultSafe
    OBVIOUS
  <2>2. /\ VaultTypes /\ SessionsFit /\ CallsFit /\ DummiesResolve
        /\ \A s \in Sessions : TokenOK(s) /\ SentOK(s)
    BY <2>1 DEF VaultInv
  <2>3. \A s \in Stored : s \in Sessions /\ vault[s] # NoSession /\ vault[s] \in SessionRecord /\ SessionFits(vault[s], issued)
    BY <2>2 DEF Stored, VaultTypes, Snaps, SessionsFit
  <2>4. VaultTypeOK
    <3>1. \A s \in Stored : /\ vault[s].vm \in VaultVms /\ vault[s].bound \in ApiDomains \cup {NoDomain}
                            /\ vault[s].access \in 1..issued /\ vault[s].refresh \in 0..issued
      BY <2>3 DEF SessionRecord, Bounds, SessionFits
    <3>2. dummies \subseteq Sessions /\ cleaning.todo \subseteq Sessions
      BY <2>2 DEF VaultTypes
    <3>3. \A s \in Sessions : sentTo[s] \subseteq ApiDomains /\ valid[s] \in 0..issued
      BY <2>2 DEF VaultTypes, SessionsFit
    <3>4. QED
      BY <3>1, <3>2, <3>3 DEF VaultTypeOK
  <2>5. SentWhereBound
    BY <2>2, <2>3 DEF SentWhereBound, SentOK, SessionFits
  <2>6. RefreshTokenKept
    BY <2>2, <2>3 DEF RefreshTokenKept, TokenOK, Rotates, Answers
  <2>7. QED
    BY <2>2, <2>4, <2>5, <2>6 DEF VaultSafe
<1>3. QED
  BY <1>1, <1>2, VaultInvStep, PTL DEF VaultSpec

-----------------------------------------------------------------------------
(* ConfigBoot                                                              *)

Versions == {38, 39, 40}
Upgrades == {"v40", "record40", "v39", "v39_system", "record39"}
Starts == {"create", "create_rest", "record38", "cache", "migrate", "rename", "seed", "seeding", "seeded"}
              \cup Upgrades
Cells == [mode : {"absent", "inspect", "bypass"}, system : BOOLEAN]
EditTasks == [pc : {"idle", "read", "write"}, read : SUBSET Domains]

ConfigTypes ==
  /\ pc \in Starts \cup {"down", "run", "failed"}
  /\ recorded \subseteq Versions /\ version \in Versions \cup {0} /\ columns \subseteq Added
  /\ migrated \in {0, 1}
  /\ allow \in [Domains -> Cells] /\ editor \in [Editors -> EditTasks]

(* The schema between two starts that were not cut short, and after one.    *)
Empty == tables = "none" /\ recorded = {} /\ columns = {}
Old == recorded = {38} /\ columns \in {{}, {"inspect_mode", "is_system"}}
Middle == recorded = {39} /\ columns = {"inspect_mode", "is_system"}
Whole == 40 \in recorded /\ columns = Added
NewSchema == recorded = {38} /\ columns = {"inspect_mode", "is_system"}
Partly == 40 \in recorded /\ "manifest_version" \in columns
            /\ ("is_system" \in columns => "inspect_mode" \in columns)
            /\ ("inspect_mode" \in columns => "is_system" \in columns)

SchemaOK ==
  /\ pc = "down" => Empty \/ Old \/ Middle \/ Whole
  /\ pc = "create" => Empty /\ version = 0
  /\ pc \in {"create_rest", "record38"} => recorded = {} /\ version = 0
  /\ pc = "record38" => columns = {"inspect_mode", "is_system"}
  /\ pc \in Upgrades => version # 0
  /\ pc = "v40" => \/ version = 38 /\ Old
                   \/ version = 39 /\ Middle
                   \/ version = 40 /\ Whole
  /\ pc = "record40" => \/ version = 38 /\ columns \in {{"manifest_version"}, Added}
                        \/ version = 39 /\ columns = Added
  /\ pc = "v39" => \/ version = 38 /\ Partly
                   \/ version \in {39, 40} /\ Whole
  /\ pc = "v39_system" => 40 \in recorded /\ columns = {"manifest_version", "inspect_mode"}
  /\ pc = "record39" => Whole
  /\ pc \in {"cache", "migrate", "rename", "seed", "seeding", "seeded", "run"} =>
       IF version = 0 THEN NewSchema ELSE Whole
  /\ pc # "failed"

(* The rows of the system's domains.                                       *)
SystemRows ==
  /\ unseeded \subseteq UserDomains
  /\ \A d \in SystemDomains : allow[d] = Absent \/ allow[d] = [mode |-> "bypass", system |-> TRUE]
  /\ pc = "seeded" => SystemDomains \subseteq Bypassed /\ "is_system" \in columns
  /\ pc = "seeding" => "is_system" \in columns

(* One edit at a time, unless they raced: the next to come is the one that *)
(* makes the cache what the table has.                                     *)
Current == Bypassed \subseteq cache /\ (cache \subseteq Bypassed \/ demoted)

CacheOK ==
  /\ pc # "run" => Editing = {}
  /\ pc = "run" /\ "is_system" \notin columns => Editing = {}
  /\ pc = "run" /\ "is_system" \in columns /\ ~raced =>
       \/ Editing = {} /\ Current
       \/ \E e \in Editors : /\ Editing = {e}
                             /\ \/ editor[e].pc = "read"
                                \/ editor[e].pc = "write" /\ editor[e].read = Bypassed

ConfigInv ==
  /\ ConfigTypes /\ (~cut => SchemaOK) /\ SystemRows /\ SystemBypassed /\ CacheOK
-----------------------------------------------------------------------------
(* The highest version recorded.                                           *)
LEMMA MaxOfIs ==
  ASSUME NEW s \in SUBSET Versions, s # {}
  PROVE  MaxOf(s) \in s /\ \A w \in s : w <= MaxOf(s)
<1>1. \E v \in s : \A w \in s : w <= v
  <2>1. CASE 40 \in s
    BY <2>1 DEF Versions
  <2>2. CASE 40 \notin s /\ 39 \in s
    BY <2>2 DEF Versions
  <2>3. CASE 40 \notin s /\ 39 \notin s
    <3>1. 38 \in s /\ \A w \in s : w = 38
      BY <2>3 DEF Versions
    <3> QED
      BY <3>1
  <2> QED
    BY <2>1, <2>2, <2>3
<1> QED
  BY <1>1 DEF MaxOf

(* The database before the first start.                                    *)
LEMMA ConfigInvInit == ConfigInit => ConfigInv
<1> SUFFICES ASSUME ConfigInit
             PROVE  ConfigInv
  OBVIOUS
<1>1. Absent \in Cells /\ NoEdit \in EditTasks
  BY DEF Absent, NoEdit, Cells, EditTasks
<1>2. ConfigTypes
  BY <1>1 DEF ConfigInit, ConfigTypes, Starts, Versions, Added
<1>3. SchemaOK
  BY DEF ConfigInit, SchemaOK, Empty, Old, Middle, Upgrades
<1>4. SystemRows /\ SystemBypassed
  BY DEF ConfigInit, SystemRows, SystemBypassed, Domains
<1>5. CacheOK
  BY DEF ConfigInit, CacheOK, Editing, NoEdit
<1> QED
  BY <1>2, <1>3, <1>4, <1>5 DEF ConfigInv

(* The types.                                                              *)
LEMMA ConfigTypesStep == ConfigInv /\ ConfigNext => ConfigTypes'
<1> SUFFICES ASSUME ConfigInv, ConfigNext
             PROVE  ConfigTypes'
  OBVIOUS
<1> USE DEF Data, Memory, Counts, schemaVars, At, To
<1>1. ConfigTypes /\ unseeded \subseteq Domains
  BY DEF ConfigInv, SystemRows, Domains
<1>2. Absent \in Cells /\ NoEdit \in EditTasks /\ Bypassed \in SUBSET Domains
  BY DEF Absent, NoEdit, Cells, EditTasks, Bypassed
<1>3. \A m \in {"inspect", "bypass"}, b \in BOOLEAN : [mode |-> m, system |-> b] \in Cells
  BY DEF Cells
<1>4. CASE Open
  BY <1>1, <1>4, MaxOfIs DEF Open, ConfigTypes, Starts, Upgrades
<1>5. CASE \/ CreateFirst \/ CreateRest \/ Record38 \/ V40 \/ Record40 \/ V39 \/ V39System \/ Record39
           \/ LoadCache \/ Rename \/ Seed \/ SeededCache
  <2> USE DEF ConfigTypes, Starts, Upgrades, Added, Versions, NewVersion
  <2>1. CASE CreateFirst
    BY <1>1, <2>1 DEF CreateFirst
  <2>2. CASE CreateRest
    BY <1>1, <2>2 DEF CreateRest
  <2>3. CASE Record38
    BY <1>1, <2>3 DEF Record38
  <2>4. CASE V40
    BY <1>1, <2>4 DEF V40
  <2>5. CASE Record40
    BY <1>1, <2>5 DEF Record40
  <2>6. CASE V39
    BY <1>1, <2>6 DEF V39
  <2>7. CASE V39System
    BY <1>1, <2>7 DEF V39System
  <2>8. CASE Record39
    BY <1>1, <2>8 DEF Record39
  <2>9. CASE LoadCache
    BY <1>1, <2>9 DEF LoadCache
  <2>10. CASE Rename
    BY <1>1, <2>10 DEF Rename
  <2>11. CASE Seed
    BY <1>1, <2>11 DEF Seed
  <2>12. CASE SeededCache
    BY <1>1, <2>12 DEF SeededCache
  <2> QED
    BY <1>5, <2>1, <2>2, <2>3, <2>4, <2>5, <2>6, <2>7, <2>8, <2>9, <2>10, <2>11, <2>12
<1>6. CASE Migrate
  <2>1. UNCHANGED <<recorded, version, columns, editor>>
        /\ pc' \in {"rename", "seed"} /\ migrated' \in {0, 1}
    BY <1>1, <1>6 DEF Migrate, NoVms, ConfigTypes
  <2>2. allow' \in [Domains -> Cells]
    BY <1>1, <1>3, <1>6 DEF Migrate, ConfigTypes
  <2> QED
    BY <1>1, <2>1, <2>2 DEF ConfigTypes, Starts
<1>7. CASE SeedOne
  BY <1>1, <1>3, <1>7 DEF SeedOne, ConfigTypes, Starts
<1>8. CASE SeedSystem
  <2>1. allow' \in [Domains -> Cells]
    BY <1>1, <1>3, <1>8 DEF SeedSystem, ConfigTypes
  <2> QED
    BY <1>1, <1>8, <2>1 DEF SeedSystem, ConfigTypes, Starts
<1>9. CASE DeleteVm
  BY <1>1, <1>9 DEF DeleteVm, ConfigTypes
<1>10. CASE Stop
  BY <1>1, <1>2, <1>10 DEF Stop, ConfigTypes
<1>11. ASSUME NEW e \in Editors, RefreshRead(e) \/ RefreshWrite(e)
       PROVE  ConfigTypes'
  <2>1. [pc |-> "write", read |-> Bypassed] \in EditTasks
    BY <1>2 DEF EditTasks
  <2>2. editor' \in [Editors -> EditTasks]
    BY <1>1, <1>2, <1>11, <2>1 DEF RefreshRead, RefreshWrite, ConfigTypes
  <2> QED
    BY <1>1, <1>11, <2>2 DEF RefreshRead, RefreshWrite, ConfigTypes
<1>12. ASSUME NEW e \in Editors, NEW d \in Domains, NEW m \in {"inspect", "bypass"},
              RemoveDomain(e, d) \/ AddDomain(e, d, m)
       PROVE  ConfigTypes'
  <2>1. allow' \in [Domains -> Cells]
    BY <1>1, <1>2, <1>3, <1>12 DEF RemoveDomain, AddDomain, Upsert, ConfigTypes
  <2>2. editor' \in [Editors -> EditTasks]
    <3>1. editor' = [editor EXCEPT ![e].pc = "read"] \/ editor' = [editor EXCEPT ![e].pc = "idle"]
      BY <1>12 DEF RemoveDomain, AddDomain, EditStep
    <3> QED
      BY <1>1, <3>1 DEF ConfigTypes, EditTasks
  <2> QED
    BY <1>1, <1>12, <2>1, <2>2 DEF RemoveDomain, AddDomain, EditStep, ConfigTypes
<1> QED
  BY <1>4, <1>5, <1>6, <1>7, <1>8, <1>9, <1>10, <1>11, <1>12 DEF ConfigNext

(* The schema, as long as no start has been cut short.                     *)
LEMMA SchemaStep == ConfigInv /\ ConfigNext /\ ~cut' => SchemaOK'
<1> SUFFICES ASSUME ConfigInv, ConfigNext, ~cut'
             PROVE  SchemaOK'
  OBVIOUS
<1> USE DEF Data, Memory, Counts, schemaVars, At, To
<1>1. ConfigTypes
  BY DEF ConfigInv
<1>2. ~cut
  BY DEF ConfigNext, Open, CreateFirst, CreateRest, Record38, V40, Record40, V39, V39System, Record39,
     LoadCache, Migrate, Rename, Seed, SeedOne, SeedSystem, SeededCache, DeleteVm, Stop, RefreshRead,
     RefreshWrite, RemoveDomain, AddDomain, EditStep
<1>3. SchemaOK
  BY <1>2 DEF ConfigInv
<1>4. CASE Open
  <2>1. Empty \/ Old \/ Middle \/ Whole
    BY <1>3, <1>4 DEF Open, SchemaOK
  <2>2. UNCHANGED <<tables, columns, recorded>>
    BY <1>4 DEF Open
  <2>3. CASE recorded = {}
    <3>1. pc' = "create" /\ version' = 0 /\ Empty
      BY <1>4, <2>1, <2>3 DEF Open, Old, Middle, Whole
    <3> QED
      BY <2>2, <3>1 DEF SchemaOK, Empty, Upgrades
  <2>4. CASE recorded # {}
    <3>1. pc' = "v40" /\ version' = MaxOf(recorded) /\ (Old \/ Middle \/ Whole)
      BY <1>4, <2>1, <2>4 DEF Open, Empty
    <3>2. recorded \subseteq Versions
      BY <1>1 DEF ConfigTypes
    <3>3. version' \in recorded /\ \A w \in recorded : w <= version'
      BY <2>4, <3>1, <3>2, MaxOfIs
    <3>4. CASE Old
      BY <2>2, <3>1, <3>3, <3>4 DEF SchemaOK, Old, Upgrades
    <3>5. CASE Middle
      BY <2>2, <3>1, <3>3, <3>5 DEF SchemaOK, Middle, Upgrades
    <3>6. CASE Whole
      <4>1. version' = 40
        BY <3>2, <3>3, <3>6 DEF Whole, Versions
      <4> QED
        BY <2>2, <3>1, <3>6, <4>1 DEF SchemaOK, Whole, Upgrades
    <3> QED
      BY <3>1, <3>4, <3>5, <3>6
  <2> QED
    BY <2>3, <2>4
<1>5. CASE CreateFirst \/ CreateRest \/ Record38
  BY <1>3, <1>5 DEF CreateFirst, CreateRest, Record38, NewVersion, SchemaOK, Empty, NewSchema, Upgrades
<1>6. CASE V40
  <2>1. /\ version \in {38, 39, 40} /\ UNCHANGED <<recorded, version>>
        /\ IF version = 40 THEN pc' = "v39" /\ columns' = columns
                           ELSE pc' = "record40" /\ columns' = columns \cup {"manifest_version"}
    BY <1>3, <1>6 DEF V40, Behind, SchemaOK
  <2>2. CASE version = 38
    <3>1. Old
      BY <1>3, <1>6, <2>2 DEF V40, SchemaOK
    <3>2. columns' \in {{"manifest_version"}, Added}
      BY <2>1, <2>2, <3>1 DEF Old, Added
    <3> QED
      BY <2>1, <2>2, <3>2 DEF SchemaOK, Upgrades
  <2>3. CASE version = 39
    <3>1. Middle
      BY <1>3, <1>6, <2>3 DEF V40, SchemaOK
    <3>2. columns' = Added
      BY <2>1, <2>3, <3>1 DEF Middle, Added
    <3> QED
      BY <2>1, <2>3, <3>2 DEF SchemaOK, Upgrades
  <2>4. CASE version = 40
    <3>1. Whole
      BY <1>3, <1>6, <2>4 DEF V40, SchemaOK
    <3> QED
      BY <2>1, <2>4, <3>1 DEF SchemaOK, Whole, Upgrades
  <2> QED
    BY <2>1, <2>2, <2>3, <2>4
<1>7. CASE Record40
  <2>1. /\ pc' = "v39" /\ recorded' = recorded \cup {40} /\ UNCHANGED <<version, columns>>
        /\ \/ version = 38 /\ columns \in {{"manifest_version"}, Added}
           \/ version = 39 /\ columns = Added
    BY <1>3, <1>7 DEF Record40, SchemaOK
  <2> QED
    BY <2>1 DEF SchemaOK, Partly, Whole, Added, Upgrades
<1>8. CASE V39
  <2>1. UNCHANGED <<recorded, version>> /\ pc = "v39"
    BY <1>8 DEF V39
  <2>2. CASE version = 38
    <3>1. Partly
      BY <1>3, <2>1, <2>2 DEF SchemaOK
    <3>2. \/ "inspect_mode" \in columns /\ columns' = columns /\ pc' = "record39"
          \/ /\ "inspect_mode" \notin columns /\ columns' = columns \cup {"inspect_mode"}
             /\ pc' = "v39_system"
      BY <1>8, <2>2 DEF V39, BehindV39, Behind
    <3>3. columns \subseteq Added
      BY <1>1 DEF ConfigTypes
    <3>4. CASE "inspect_mode" \in columns
      <4>1. columns = Added
        BY <3>1, <3>3, <3>4 DEF Partly, Added
      <4>2. pc' = "record39" /\ columns' = columns
        BY <3>2, <3>4
      <4>3. Whole'
        BY <2>1, <3>1, <4>1, <4>2 DEF Whole, Partly
      <4> QED
        BY <2>1, <2>2, <4>2, <4>3 DEF SchemaOK, Upgrades
    <3>5. CASE "inspect_mode" \notin columns
      <4>1. columns = {"manifest_version"}
        BY <3>1, <3>3, <3>5 DEF Partly, Added
      <4>2. pc' = "v39_system" /\ columns' = {"manifest_version", "inspect_mode"}
        BY <3>2, <3>5, <4>1
      <4> QED
        BY <2>1, <2>2, <3>1, <4>2 DEF SchemaOK, Partly, Upgrades
    <3> QED
      BY <3>4, <3>5
  <2>3. CASE version # 38
    <3>1. version \in {39, 40} /\ Whole
      BY <1>3, <2>1, <2>3 DEF SchemaOK
    <3>2. pc' = "cache" /\ columns' = columns
      BY <1>8, <3>1 DEF V39, BehindV39, Behind
    <3> QED
      BY <2>1, <3>1, <3>2 DEF SchemaOK, Whole, Upgrades
  <2> QED
    BY <2>2, <2>3
<1>9. CASE V39System
  <2>1. /\ pc' = "record39" /\ columns' = columns \cup {"is_system"} /\ UNCHANGED <<recorded, version>>
        /\ 40 \in recorded /\ columns = {"manifest_version", "inspect_mode"} /\ version # 0
    BY <1>3, <1>9 DEF V39System, SchemaOK, Upgrades
  <2>2. Whole'
    BY <2>1 DEF Whole, Added
  <2> QED
    BY <2>1, <2>2 DEF SchemaOK, Upgrades
<1>10. CASE Record39
  <2>1. /\ pc' = "cache" /\ recorded' = recorded \cup {39} /\ UNCHANGED <<columns, version>>
        /\ Whole /\ version # 0
    BY <1>3, <1>10 DEF Record39, SchemaOK, Upgrades
  <2> QED
    BY <2>1 DEF SchemaOK, Whole, Upgrades
<1>11. CASE LoadCache \/ Migrate \/ Rename \/ Seed \/ SeedOne \/ SeedSystem \/ SeededCache
  <2>1. /\ UNCHANGED <<tables, columns, recorded, version>>
        /\ pc \in {"cache", "migrate", "rename", "seed", "seeding", "seeded"}
        /\ pc' \in {"migrate", "rename", "seed", "seeding", "seeded", "run"}
    BY <1>11 DEF LoadCache, Migrate, Rename, Seed, SeedOne, SeedSystem, SeededCache
  <2>2. IF version = 0 THEN NewSchema ELSE Whole
    BY <1>3, <2>1 DEF SchemaOK
  <2> QED
    BY <2>1, <2>2 DEF SchemaOK, NewSchema, Whole, Upgrades
<1>12. CASE Stop
  <2>1. pc = "run" /\ pc' = "down" /\ UNCHANGED <<tables, columns, recorded, version>>
    BY <1>3, <1>12 DEF Stop, SchemaOK
  <2>2. IF version = 0 THEN NewSchema ELSE Whole
    BY <1>3, <2>1 DEF SchemaOK
  <2> QED
    BY <2>1, <2>2 DEF SchemaOK, NewSchema, Old, Whole, Upgrades
<1>13. CASE \/ DeleteVm
            \/ \E e \in Editors : \/ RefreshRead(e) \/ RefreshWrite(e)
                                  \/ \E d \in Domains : \/ RemoveDomain(e, d)
                                                        \/ \E m \in {"inspect", "bypass"} : AddDomain(e, d, m)
  <2>1. UNCHANGED <<tables, columns, recorded, version, pc>>
    BY <1>13 DEF DeleteVm, RefreshRead, RefreshWrite, RemoveDomain, AddDomain, EditStep
  <2> QED
    BY <1>3, <2>1 DEF SchemaOK, Empty, Old, Middle, Whole, NewSchema, Partly
<1> QED
  BY <1>4, <1>5, <1>6, <1>7, <1>8, <1>9, <1>10, <1>11, <1>12, <1>13 DEF ConfigNext

(* The system's domains keep their rows, and have them once the process     *)
(* runs.                                                                   *)
LEMMA SystemStep == ConfigInv /\ ConfigNext => SystemRows' /\ SystemBypassed'
<1> SUFFICES ASSUME ConfigInv, ConfigNext
             PROVE  SystemRows' /\ SystemBypassed'
  OBVIOUS
<1> USE DEF Data, Memory, Counts, schemaVars, At, To
<1>1. /\ ConfigTypes /\ SystemRows /\ SystemBypassed /\ SystemDomains \subseteq Domains
      /\ UserDomains \subseteq Domains /\ allow \in [Domains -> Cells]
  BY DEF ConfigInv, ConfigTypes, Domains
<1>2. \A d \in SystemDomains : allow[d] = [mode |-> "bypass", system |-> TRUE] <=> d \in Bypassed
  BY <1>1 DEF SystemRows, Bypassed, Absent
<1>3. CASE \/ Open \/ CreateFirst \/ CreateRest \/ Record38 \/ V40 \/ Record40 \/ V39 \/ V39System \/ Record39
           \/ LoadCache \/ Rename \/ Stop
  <2>1. /\ allow' = allow /\ unseeded' \in {unseeded, {}}
        /\ pc' \notin {"seeding", "seeded", "run"}
    BY <1>3 DEF Open, CreateFirst, CreateRest, Record38, V40, Record40, V39, V39System, Record39,
       LoadCache, Rename, Stop
  <2> QED
    BY <1>1, <2>1 DEF SystemRows, SystemBypassed
<1>4. CASE Migrate
  <2>1. pc' \in {"rename", "seed"} /\ unseeded' = unseeded
    BY <1>4 DEF Migrate
  <2>2. \A d \in SystemDomains : allow'[d] = allow[d]
    BY <1>1, <1>4, SeedsAssumption DEF Migrate
  <2> QED
    BY <1>1, <2>1, <2>2 DEF SystemRows, SystemBypassed
<1>5. CASE Seed
  <2>1. allow' = allow /\ columns' = columns
    BY <1>5 DEF Seed
  <2>2. \/ "is_system" \notin columns /\ pc' = "run" /\ unseeded' = unseeded
        \/ "is_system" \in columns /\ pc' = "seeding" /\ unseeded' \in {UserDomains, {}}
    BY <1>5 DEF Seed
  <2> QED
    BY <1>1, <2>1, <2>2 DEF SystemRows, SystemBypassed
<1>6. CASE SeedOne
  <2>1. /\ pc = "seeding" /\ pc' = pc /\ columns' = columns /\ unseeded' \subseteq unseeded
        /\ \E d \in unseeded : allow' = [allow EXCEPT ![d] = [mode |-> "inspect", system |-> FALSE]]
    BY <1>6 DEF SeedOne
  <2>2. \A d \in SystemDomains : allow'[d] = allow[d]
    BY <1>1, <2>1, SeedsAssumption DEF SystemRows
  <2> QED
    BY <1>1, <2>1, <2>2 DEF SystemRows, SystemBypassed
<1>7. CASE SeedSystem
  <2>1. /\ pc = "seeding" /\ pc' = "seeded" /\ columns' = columns /\ unseeded' = unseeded
        /\ allow' = [d \in Domains |->
                       IF d \in SystemDomains /\ (allow[d].mode = "absent" \/ allow[d].system)
                         THEN [mode |-> "bypass", system |-> TRUE] ELSE allow[d]]
    BY <1>7 DEF SeedSystem
  <2>2. \A d \in SystemDomains : allow[d].mode = "absent" \/ allow[d].system
    BY <1>1 DEF SystemRows, Absent
  <2>3. \A d \in SystemDomains : allow'[d] = [mode |-> "bypass", system |-> TRUE]
    BY <1>1, <2>1, <2>2
  <2>4. SystemDomains \subseteq Bypassed'
    BY <1>1, <2>3 DEF Bypassed
  <2> QED
    BY <1>1, <2>1, <2>3, <2>4 DEF SystemRows, SystemBypassed
<1>8. CASE SeededCache
  <2>1. pc = "seeded" /\ pc' = "run" /\ UNCHANGED <<columns, unseeded, allow>>
    BY <1>8 DEF SeededCache
  <2> QED
    BY <1>1, <2>1 DEF SystemRows, SystemBypassed, Bypassed
<1>9. CASE DeleteVm \/ \E e \in Editors : RefreshRead(e) \/ RefreshWrite(e)
  <2>1. UNCHANGED <<columns, unseeded, allow, pc>>
    BY <1>9 DEF DeleteVm, RefreshRead, RefreshWrite
  <2> QED
    BY <1>1, <2>1 DEF SystemRows, SystemBypassed, Bypassed
<1>10. ASSUME NEW e \in Editors, NEW d \in Domains, NEW m \in {"inspect", "bypass"},
              RemoveDomain(e, d) \/ AddDomain(e, d, m)
       PROVE  SystemRows' /\ SystemBypassed'
  <2>1. UNCHANGED <<columns, unseeded, pc>> /\ pc = "run" /\ "is_system" \in columns
    BY <1>10 DEF RemoveDomain, AddDomain, EditStep, CanEdit
  <2>2. \A x \in SystemDomains : allow[x].system
    BY <1>1, <1>2, <2>1 DEF SystemBypassed
  <2>3. \A x \in SystemDomains : allow'[x] = allow[x]
    BY <1>1, <1>10, <2>2 DEF RemoveDomain, AddDomain, Upsert
  <2>4. SystemDomains \subseteq Bypassed'
    BY <1>1, <2>1, <2>3 DEF SystemBypassed, Bypassed
  <2> QED
    BY <1>1, <2>1, <2>3, <2>4 DEF SystemRows, SystemBypassed
<1> QED
  BY <1>3, <1>4, <1>5, <1>6, <1>7, <1>8, <1>9, <1>10 DEF ConfigNext

(* The cache follows the table.                                            *)
LEMMA CacheStep == ConfigInv /\ ConfigNext => CacheOK'
<1> SUFFICES ASSUME ConfigInv, ConfigNext
             PROVE  CacheOK'
  OBVIOUS
<1> USE DEF Data, Memory, Counts, schemaVars, At, To
<1>1. ConfigTypes /\ CacheOK
  BY DEF ConfigInv
<1>2. allow \in [Domains -> Cells] /\ editor \in [Editors -> EditTasks]
  BY <1>1 DEF ConfigTypes
<1>3. CASE \/ Open \/ CreateFirst \/ CreateRest \/ Record38 \/ V40 \/ Record40 \/ V39 \/ V39System \/ Record39
           \/ LoadCache \/ Migrate \/ Rename \/ SeedOne \/ SeedSystem
  <2>1. editor' = editor /\ pc # "run" /\ pc' # "run"
    BY <1>3 DEF Open, CreateFirst, CreateRest, Record38, V40, Record40, V39, V39System, Record39,
       LoadCache, Migrate, Rename, SeedOne, SeedSystem
  <2> QED
    BY <1>1, <2>1 DEF CacheOK, Editing
<1>4. CASE Seed
  <2>1. /\ editor' = editor /\ columns' = columns /\ pc = "seed"
        /\ pc' = "run" => "is_system" \notin columns
    BY <1>4 DEF Seed
  <2> QED
    BY <1>1, <2>1 DEF CacheOK, Editing
<1>5. CASE SeededCache
  <2>1. editor' = editor /\ pc = "seeded" /\ cache' = Bypassed /\ allow' = allow
    BY <1>5 DEF SeededCache
  <2> QED
    BY <1>1, <2>1 DEF CacheOK, Editing, Current, Bypassed
<1>6. CASE Stop
  <2>1. pc' = "down" /\ editor' = [e \in Editors |-> NoEdit]
    BY <1>6 DEF Stop
  <2> QED
    BY <2>1 DEF CacheOK, Editing, NoEdit
<1>7. CASE DeleteVm
  <2>1. UNCHANGED <<editor, pc, columns, cache, allow, raced, demoted>>
    BY <1>7 DEF DeleteVm
  <2> QED
    BY <1>1, <2>1 DEF CacheOK, Editing, Current, Bypassed
<1>8. ASSUME NEW e \in Editors, RefreshRead(e)
      PROVE  CacheOK'
  <2>1. /\ UNCHANGED <<pc, columns, cache, allow>> /\ editor[e].pc = "read"
        /\ editor' = [editor EXCEPT ![e] = [pc |-> "write", read |-> Bypassed]]
        /\ raced' = (raced /\ Editing # {e})
    BY <1>8 DEF RefreshRead
  <2>2. Editing' = Editing /\ e \in Editing /\ Bypassed' = Bypassed
    BY <1>2, <2>1 DEF Editing, Bypassed
  <2>3. editor'[e].pc = "write" /\ editor'[e].read = Bypassed
    BY <1>2, <2>1
  <2>4. ~raced' /\ pc = "run" /\ "is_system" \in columns => Editing = {e}
    BY <1>1, <2>1, <2>2 DEF CacheOK
  <2> QED
    BY <1>1, <2>1, <2>2, <2>3, <2>4 DEF CacheOK
<1>9. ASSUME NEW e \in Editors, RefreshWrite(e)
      PROVE  CacheOK'
  <2>1. /\ UNCHANGED <<pc, columns, allow, raced, demoted>> /\ editor[e].pc = "write"
        /\ editor' = [editor EXCEPT ![e] = NoEdit] /\ cache' = editor[e].read
    BY <1>9 DEF RefreshWrite
  <2>2. Editing' = Editing \ {e} /\ e \in Editing /\ Bypassed' = Bypassed
    BY <1>2, <2>1 DEF Editing, Bypassed, NoEdit
  <2>3. pc = "run" /\ "is_system" \in columns
    BY <1>1, <2>2 DEF CacheOK
  <2>4. CASE ~raced
    <3>1. Editing = {e} /\ editor[e].read = Bypassed
      BY <1>1, <2>1, <2>2, <2>3, <2>4 DEF CacheOK
    <3>2. Editing' = {} /\ Current'
      BY <2>1, <2>2, <3>1 DEF Current
    <3> QED
      BY <2>1, <2>3, <3>2 DEF CacheOK
  <2>5. CASE raced
    BY <2>1, <2>3, <2>5 DEF CacheOK
  <2> QED
    BY <2>4, <2>5
<1>10. ASSUME NEW e \in Editors, NEW refresh \in BOOLEAN, EditStep(e, refresh), CanEdit(e),
              demoted => demoted',
              ~refresh => Bypassed' \subseteq Bypassed /\ (Bypassed' = Bypassed \/ demoted')
       PROVE  CacheOK'
  <2>1. /\ UNCHANGED <<pc, columns, cache>> /\ pc = "run" /\ "is_system" \in columns
        /\ editor[e].pc = "idle" /\ raced' = (raced \/ Editing # {})
        /\ editor' = [editor EXCEPT ![e].pc = IF refresh THEN "read" ELSE "idle"]
    BY <1>10 DEF EditStep, CanEdit
  <2>2. CASE raced'
    BY <2>1, <2>2 DEF CacheOK
  <2>3. CASE ~raced'
    <3>1. Editing = {} /\ Current
      BY <1>1, <2>1, <2>3 DEF CacheOK
    <3>2. CASE refresh
      <4>1. editor'[e].pc = "read" /\ \A x \in Editors : x # e => editor'[x] = editor[x]
        BY <1>2, <2>1, <3>2 DEF EditTasks
      <4>2. Editing' = {e}
        BY <3>1, <4>1 DEF Editing
      <4> QED
        BY <2>1, <4>1, <4>2 DEF CacheOK
    <3>3. CASE ~refresh
      <4>1. \A x \in Editors : editor'[x].pc = editor[x].pc
        BY <1>2, <2>1, <3>3 DEF EditTasks
      <4>2. Editing' = {}
        BY <3>1, <4>1 DEF Editing
      <4>3. Current'
        BY <1>10, <2>1, <3>1, <3>3 DEF Current
      <4> QED
        BY <2>1, <4>2, <4>3 DEF CacheOK
    <3> QED
      BY <3>2, <3>3
  <2> QED
    BY <2>2, <2>3
<1>11. ASSUME NEW e \in Editors, NEW d \in Domains, RemoveDomain(e, d)
       PROVE  CacheOK'
  BY <1>10, <1>11 DEF RemoveDomain
<1>12. ASSUME NEW e \in Editors, NEW d \in Domains, NEW m \in {"inspect", "bypass"}, AddDomain(e, d, m)
       PROVE  CacheOK'
  <2>1. EditStep(e, m = "bypass") /\ CanEdit(e) /\ (m = "bypass") \in BOOLEAN
        /\ (demoted => demoted')
    BY <1>12 DEF AddDomain, RefreshAfter
  <2>2. CASE m = "bypass"
    <3>1. EditStep(e, TRUE)
      BY <2>1, <2>2
    <3> QED
      BY <1>10, <2>1, <3>1
  <2>3. CASE m = "inspect"
    <3>1. /\ allow' = [allow EXCEPT ![d] = Upsert(d, m)]
          /\ demoted' = (demoted \/ (d \in Bypassed /\ ~allow[d].system))
      BY <1>12, <2>3 DEF AddDomain
    <3>2. CASE allow[d].system
      <4>1. allow' = allow
        BY <1>2, <3>1, <3>2 DEF Upsert
      <4>2. Bypassed' = Bypassed /\ (demoted => demoted')
        BY <3>1, <4>1 DEF Bypassed
      <4> QED
        BY <1>10, <2>1, <2>3, <4>2
    <3>3. CASE ~allow[d].system
      <4>1. Bypassed' = Bypassed \ {d}
        BY <1>2, <2>3, <3>1, <3>3 DEF Upsert, Bypassed
      <4>2. demoted => demoted'
        BY <3>1
      <4>3. CASE d \in Bypassed
        <5>1. demoted'
          BY <3>1, <3>3, <4>3
        <5> QED
          BY <1>10, <2>1, <2>3, <4>1, <5>1
      <4>4. CASE d \notin Bypassed
        <5>1. Bypassed' = Bypassed
          BY <4>1, <4>4
        <5> QED
          BY <1>10, <2>1, <2>3, <4>2, <5>1
      <4> QED
        BY <4>3, <4>4
    <3> QED
      BY <3>2, <3>3
  <2> QED
    BY <2>2, <2>3
<1> QED
  BY <1>3, <1>4, <1>5, <1>6, <1>7, <1>8, <1>9, <1>11, <1>12 DEF ConfigNext

(* A step of the start, of an edit or of the process's end keeps it all.    *)
LEMMA ConfigInvStep == ConfigInv /\ [ConfigNext]_configVars => ConfigInv'
<1> SUFFICES ASSUME ConfigInv, [ConfigNext]_configVars
             PROVE  ConfigInv'
  OBVIOUS
<1>1. CASE ConfigNext
  BY <1>1, ConfigTypesStep, SchemaStep, SystemStep, CacheStep DEF ConfigInv
<1>2. CASE UNCHANGED configVars
  BY <1>2 DEF configVars, schemaVars, ConfigInv, ConfigTypes, SchemaOK, Empty, Old, Middle, Whole,
     NewSchema, Partly, SystemRows, SystemBypassed, CacheOK, Current, Editing, Bypassed
<1> QED
  BY <1>1, <1>2

(* The database after any sequence of starts, some of them cut short       *)
(* between two statements: upgraded as a whole or refused, the old file    *)
(* migrated once, the system's domains bypassed, and the cache current     *)
(* whenever no edit is under way and none overlapped.                      *)
THEOREM ConfigIsSafe == ConfigInit /\ [][ConfigNext]_configVars => []ConfigSafe
<1>1. ConfigInv => ConfigSafe
  <2> SUFFICES ASSUME ConfigInv
               PROVE  ConfigSafe
    OBVIOUS
  <2>1. UpgradedWhole
    BY DEF ConfigInv, SchemaOK, UpgradedWhole, Whole
  <2>2. FailsOnlyAfterCut
    BY DEF ConfigInv, SchemaOK, FailsOnlyAfterCut
  <2>3. MigratedOnce
    BY DEF ConfigInv, ConfigTypes, MigratedOnce
  <2>4. SystemBypassed
    BY DEF ConfigInv
  <2>5. CacheCurrent
    BY DEF ConfigInv, CacheOK, CacheCurrent, Current
  <2> QED
    BY <2>1, <2>2, <2>3, <2>4, <2>5 DEF ConfigSafe
<1> QED
  BY <1>1, ConfigInvInit, ConfigInvStep, PTL

-----------------------------------------------------------------------------
(* EnvInjection                                                            *)

Variables == Names \cup OAuthNames
Writing == {"write", "rename"}
EnvPcs == {"rest", "upsert", "read", "open", "dummy"} \cup Writing
EnvRecord == [pc : EnvPcs, name : Names \cup {""}, on : BOOLEAN, builtin : BOOLEAN,
              read : SUBSET Variables, holds : {"none", "tmp", "file", "lost"}, waits : BOOLEAN]
RowRecord == [state : {"none", "on", "off"}, builtin : BOOLEAN]
FileRecord == [there : BOOLEAN, names : SUBSET Variables, whole : BOOLEAN]

EnvTypes ==
  /\ custom \subseteq Names /\ provided \subseteq Names /\ creds \subseteq OAuthNames
  /\ row \in [Names -> RowRecord]
  /\ task \in [Tasks -> EnvRecord]
  /\ content \in [file : FileRecord, tmp : FileRecord]

(* A command has the temporary file from its opening to its rename.        *)
Holding == \A t \in Tasks : task[t].holds # "none" <=> task[t].pc \in Writing

(* The file of a command that is the only one to write.                    *)
Stage(t) ==
  /\ task[t].holds \in {"none", "tmp"}
  /\ task[t].pc = "write" => content.tmp.there /\ content.tmp.names = {}
  /\ task[t].pc = "rename" =>
       content.tmp.there /\ content.tmp.whole /\ content.tmp.names = task[t].read

OneWriter ==
  /\ \A t \in Tasks : Stage(t)
  /\ \A t, u \in Tasks : task[t].pc \in Writing /\ task[u].pc \in Writing => t = u

OneBusy == \A t, u \in Tasks : task[t].pc # "rest" /\ task[u].pc # "rest" => t = u

FilesOK ==
  /\ Holding
  /\ overlapped \/ OneBusy
  /\ (clashed /\ overlapped) \/ OneWriter
  /\ ScriptWhole

(* What a task read is still what is enabled, and has come as far as the   *)
(* task has, unless a flag excuses it.                                     *)
Excused == overlapped \/ failed \/ unapplied
InPlace == Script.names = Enabled \/ Enabled = {}

Carries(t) ==
  /\ task[t].pc \in {"open", "write", "rename"} => task[t].waits /\ linked /\ task[t].read = Enabled
  /\ task[t].pc = "dummy" => task[t].read = Enabled /\ InPlace

Applied ==
  /\ \A t \in Tasks : Carries(t)
  /\ Settled => InPlace /\ Enabled \cap OAuthNames \subseteq secretFiles

(* A toggle that takes its name for a custom one has it, or is an orphan's. *)
TogglesKnown ==
  \A t \in Togglers : task[t].pc = "upsert" =>
    task[t].name \in Names /\ (task[t].builtin \/ task[t].name \in custom \cup orphans)

EnvInv == EnvTypes /\ FilesOK /\ (Excused \/ Applied) /\ TogglesKnown /\ NoOrphanRow
-----------------------------------------------------------------------------
(* A task's record after a step that gives it another.                     *)
LEMMA EnvGo ==
  ASSUME EnvTypes, NEW t \in Tasks, NEW r \in EnvRecord, Go(t, r)
  PROVE  /\ task' \in [Tasks -> EnvRecord]
         /\ task'[t] = r /\ \A u \in Tasks : u # t => task'[u] = task[u]
BY DEF EnvTypes, Go

(* The records that the actions give.                                      *)
LEMMA EnvRecords ==
  ASSUME EnvTypes
  PROVE  /\ Rested \in EnvRecord /\ NoFile \in FileRecord /\ NoRow \in RowRecord
         /\ Enabled \in SUBSET Variables
         /\ \A p \in EnvPcs, s \in SUBSET Variables, w \in BOOLEAN :
              [Rested EXCEPT !.read = s, !.waits = w, !.pc = p] \in EnvRecord
         /\ \A p \in EnvPcs, s \in SUBSET Variables :
              /\ [Rested EXCEPT !.read = s, !.pc = p] \in EnvRecord
              /\ [Rested EXCEPT !.pc = p, !.read = s] \in EnvRecord
         /\ \A p \in EnvPcs : [Rested EXCEPT !.pc = p] \in EnvRecord
<1>1. Rested \in EnvRecord
  BY DEF Rested, EnvRecord, EnvPcs
<1>2. NoFile \in FileRecord /\ NoRow \in RowRecord
  BY DEF NoFile, FileRecord, NoRow, RowRecord
<1>3. Enabled \in SUBSET Variables
  BY DEF Enabled, Variables, EnvTypes
<1> QED
  BY <1>1, <1>2, <1>3 DEF EnvRecord

(* The state before the first boot.                                        *)
LEMMA EnvInvInit == EnvInit => EnvInv
<1> SUFFICES ASSUME EnvInit
             PROVE  EnvInv
  OBVIOUS
<1>1. EnvTypes
  BY DEF EnvInit, EnvTypes, NoRow, RowRecord, NoFile, FileRecord, Rested, EnvRecord, EnvPcs
<1>2. \A t \in Tasks : task[t].pc = "rest" /\ task[t].holds = "none"
  BY DEF EnvInit, Rested
<1>3. FilesOK
  BY <1>2 DEF EnvInit, FilesOK, Holding, OneBusy, OneWriter, Stage, ScriptWhole, Script, NoFile, Writing
<1>4. Enabled = {}
  BY DEF EnvInit, Enabled, NoRow
<1>5. Applied
  BY <1>2, <1>4 DEF Applied, Carries, InPlace
<1>6. TogglesKnown /\ NoOrphanRow
  BY <1>2 DEF EnvInit, TogglesKnown, NoOrphanRow, NoRow, Tasks
<1> QED
  BY <1>1, <1>3, <1>5, <1>6 DEF EnvInv

(* The types.                                                              *)
LEMMA EnvTypesStep == EnvTypes /\ EnvNext => EnvTypes'
<1> SUFFICES ASSUME EnvTypes, EnvNext
             PROVE  EnvTypes'
  OBVIOUS
<1> USE DEF tableVars, guestVars, ghostVars, EditTables
<1>1. /\ custom \subseteq Names /\ provided \subseteq Names /\ creds \subseteq OAuthNames
      /\ row \in [Names -> RowRecord] /\ task \in [Tasks -> EnvRecord]
      /\ content \in [file : FileRecord, tmp : FileRecord]
  BY DEF EnvTypes
<1>2. CASE Connect
  <2>1. Boot \in Tasks /\ Go(Boot, [Rested EXCEPT !.pc = "read"]) /\ UNCHANGED <<tableVars, content>>
    BY <1>2 DEF Connect, Tasks
  <2> QED
    BY <1>1, <2>1, EnvRecords, EnvGo DEF EnvTypes, EnvPcs
<1>3. CASE LinkDown
  <2>1. UNCHANGED <<tableVars, content>>
        /\ task' = [t \in Tasks |-> IF task[t].pc \in {"open", "write", "rename", "dummy"} THEN Rested ELSE task[t]]
    BY <1>3 DEF LinkDown
  <2>2. task' \in [Tasks -> EnvRecord]
    BY <1>1, <2>1, EnvRecords
  <2> QED
    BY <1>1, <2>1, <2>2 DEF EnvTypes
<1>4. ASSUME NEW s \in SUBSET Names, UpdateProviders(s)
      PROVE  EnvTypes'
  BY <1>1, <1>4 DEF UpdateProviders, EnvTypes
<1>5. ASSUME NEW s \in SUBSET OAuthNames, SetCredentials(s)
      PROVE  EnvTypes'
  BY <1>1, <1>5 DEF SetCredentials, EnvTypes
<1>6. ASSUME NEW n \in Names, AddCustom(n)
      PROVE  EnvTypes'
  BY <1>1, <1>6 DEF AddCustom, EnvTypes
<1>7. ASSUME NEW n \in Names, RemoveCustom(n)
      PROVE  EnvTypes'
  <2>1. row' \in [Names -> RowRecord]
    BY <1>1, <1>7, EnvRecords DEF RemoveCustom, RowsCleared
  <2> QED
    BY <1>1, <1>7, <2>1 DEF RemoveCustom, EnvTypes
<1>8. ASSUME NEW t \in Togglers, UpsertRow(t)
      PROVE  EnvTypes'
  <2>1. t \in Tasks /\ Go(t, [Rested EXCEPT !.pc = "read"]) /\ UNCHANGED <<provided, custom, creds, content>>
    BY <1>8 DEF UpsertRow, Tasks
  <2>2. task' \in [Tasks -> EnvRecord]
    BY <2>1, EnvRecords, EnvGo DEF EnvPcs
  <2>3. row' \in [Names -> RowRecord]
    <3> DEFINE n == task[t].name
               s == IF task[t].on THEN "on" ELSE "off"
               r == IF row[n].state = "none" THEN [state |-> s, builtin |-> task[t].builtin]
                                             ELSE [row[n] EXCEPT !.state = s]
    <3>1. row' = [row EXCEPT ![n] = r]
      BY <1>8 DEF UpsertRow
    <3>2. s \in {"none", "on", "off"} /\ task[t].builtin \in BOOLEAN
      BY <1>1, <2>1 DEF EnvRecord
    <3>3. n \in Names => r \in RowRecord
      BY <1>1, <3>2 DEF RowRecord
    <3> QED
      BY <1>1, <3>1, <3>3
  <2> QED
    BY <1>1, <2>1, <2>2, <2>3 DEF EnvTypes
<1>9. ASSUME NEW t \in Togglers, NEW n \in Names, NEW on \in BOOLEAN, BeginToggle(t, n, on)
      PROVE  EnvTypes'
  <2> DEFINE r == [Rested EXCEPT !.pc = "upsert", !.name = n, !.on = on, !.builtin = n \notin custom]
  <2>1. t \in Tasks /\ Go(t, r) /\ UNCHANGED <<tableVars, content>>
    BY <1>9 DEF BeginToggle, Tasks
  <2>2. r \in EnvRecord
    BY DEF Rested, EnvRecord, EnvPcs
  <2> HIDE DEF r
  <2> QED
    BY <1>1, <2>1, <2>2, EnvGo DEF EnvTypes
<1>10. ASSUME NEW t \in Tasks, ReadAndSend(t)
       PROVE  EnvTypes'
  <2> DEFINE r == IF Sends(t, ReadNames(t)) THEN [Rested EXCEPT !.read = ReadNames(t), !.waits = TRUE, !.pc = "open"]
                  ELSE IF t = Boot THEN [Rested EXCEPT !.read = ReadNames(t), !.pc = "dummy"] ELSE Rested
  <2>1. Go(t, r) /\ UNCHANGED <<tableVars, content>>
    BY <1>10 DEF ReadAndSend
  <2>2. r \in EnvRecord
    BY EnvRecords DEF ReadNames, EnvPcs
  <2> HIDE DEF r
  <2> QED
    BY <1>1, <2>1, <2>2, EnvGo DEF EnvTypes
<1>11. ASSUME NEW t \in Tasks, GiveUp(t)
       PROVE  EnvTypes'
  <2>1. Go(t, [task[t] EXCEPT !.waits = FALSE]) /\ UNCHANGED <<tableVars, content>>
    BY <1>11 DEF GiveUp
  <2>2. [task[t] EXCEPT !.waits = FALSE] \in EnvRecord
    BY <1>1 DEF EnvRecord
  <2> QED
    BY <1>1, <2>1, <2>2, EnvGo DEF EnvTypes
<1>12. ASSUME NEW t \in Tasks, Dummies(t)
       PROVE  EnvTypes'
  BY <1>1, <1>12, EnvRecords, EnvGo DEF Dummies, EnvTypes
<1>13. ASSUME NEW t \in Tasks, OpenTmp(t)
       PROVE  EnvTypes'
  <2>1. /\ Go(t, [task[t] EXCEPT !.pc = "write", !.holds = "tmp"]) /\ UNCHANGED tableVars
        /\ content' = [content EXCEPT !.tmp = [NoFile EXCEPT !.there = TRUE]]
    BY <1>13 DEF OpenTmp, TmpPath
  <2>2. [task[t] EXCEPT !.pc = "write", !.holds = "tmp"] \in EnvRecord
    BY <1>1, ZenonT(30) DEF EnvRecord, EnvPcs, Writing
  <2>3. [NoFile EXCEPT !.there = TRUE] \in FileRecord
    BY DEF NoFile, FileRecord
  <2>4. content' \in [file : FileRecord, tmp : FileRecord]
    BY <1>1, <2>1, <2>3
  <2> QED
    BY <1>1, <2>1, <2>2, <2>4, EnvGo DEF EnvTypes
<1>14. ASSUME NEW t \in Tasks, WriteTmp(t)
       PROVE  EnvTypes'
  <2>1. Go(t, [task[t] EXCEPT !.pc = "rename"]) /\ UNCHANGED tableVars
    BY <1>14 DEF WriteTmp
  <2>2. [task[t] EXCEPT !.pc = "rename"] \in EnvRecord
    BY <1>1 DEF EnvRecord, EnvPcs, Writing
  <2> DEFINE h == task[t].holds
             f(o) == IF Cardinality(o.names) > Cardinality(task[t].read)
                       THEN [there |-> TRUE, names |-> task[t].read \cup o.names, whole |-> FALSE]
                       ELSE [there |-> TRUE, names |-> task[t].read, whole |-> TRUE]
  <2>3. content' = IF h = "lost" THEN content ELSE [content EXCEPT ![h] = f(content[h])]
    BY <1>14 DEF WriteTmp
  <2>4. task[t].read \in SUBSET Variables
    BY <1>1 DEF EnvRecord
  <2>5. \A o \in FileRecord : f(o) \in FileRecord
    BY <2>4 DEF FileRecord
  <2> HIDE DEF f, h
  <2>6. content' \in [file : FileRecord, tmp : FileRecord]
    <3>1. content' = content \/ content' = [content EXCEPT !.file = f(content.file)]
          \/ content' = [content EXCEPT !.tmp = f(content.tmp)] \/ (h \notin {"file", "tmp", "lost"} /\ h # "none")
          \/ (h = "none" /\ content' = [content EXCEPT !["none"] = f(content["none"])])
      BY <2>3
    <3>2. h \in {"none", "tmp", "file", "lost"}
      BY <1>1 DEF EnvRecord, h
    <3>3. [content EXCEPT !["none"] = f(content["none"])] = content
      BY <1>1
    <3> QED
      BY <1>1, <2>5, <3>1, <3>2, <3>3
  <2> QED
    BY <1>1, <2>1, <2>2, <2>6, EnvGo DEF EnvTypes
<1>15. ASSUME NEW t \in Tasks, RenameTmp(t)
       PROVE  EnvTypes'
  <2> DEFINE ok == content.tmp.there
  <2>1. /\ content' = IF ok THEN [content EXCEPT !.file = content.tmp, !.tmp = NoFile] ELSE content
        /\ task' = [u \in Tasks |-> IF u = t THEN After(t, ok)
                                   ELSE IF ok THEN [task[u] EXCEPT !.holds = Moved(task[u].holds)] ELSE task[u]]
        /\ UNCHANGED tableVars
    BY <1>15 DEF RenameTmp, TmpPath
  <2>2. content' \in [file : FileRecord, tmp : FileRecord]
    BY <1>1, <2>1, EnvRecords
  <2>3. After(t, ok) \in EnvRecord
    <3>1. task[t].read \in SUBSET Variables
      BY <1>1 DEF EnvRecord
    <3> QED
      BY <3>1, EnvRecords DEF After, EnvPcs
  <2>4. \A u \in Tasks : [task[u] EXCEPT !.holds = Moved(task[u].holds)] \in EnvRecord
    <3>1. \A h \in {"none", "tmp", "file", "lost"} : Moved(h) \in {"none", "tmp", "file", "lost"}
      BY DEF Moved
    <3> QED
      BY <1>1, <3>1, ZenonT(30) DEF EnvRecord
  <2> QED
    BY <1>1, <2>1, <2>2, <2>3, <2>4 DEF EnvTypes
<1> QED
  BY <1>2, <1>3, <1>4, <1>5, <1>6, <1>7, <1>8, <1>9, <1>10, <1>11, <1>12, <1>13, <1>14, <1>15 DEF EnvNext

(* A task that goes from outside the agent to outside it leaves the files  *)
(* to the ones that write; alone, it forgives what overlapped.             *)
LEMMA OutsideStep ==
  ASSUME EnvTypes, FilesOK, NEW t \in Tasks, NEW r \in EnvRecord, Go(t, r),
         task[t].pc \notin Writing, r.pc \notin Writing, r.holds = "none",
         content' = content, clashed' = clashed,
         \/ overlapped' = overlapped /\ (r.pc # "rest" => task[t].pc # "rest")
         \/ overlapped' = (overlapped \/ Busy # {})
         \/ Busy = {t}
  PROVE  FilesOK'
<1>1. /\ task'[t] = r /\ \A u \in Tasks : u # t => task'[u] = task[u]
  BY EnvGo
<1>2. Holding'
  BY <1>1 DEF FilesOK, Holding
<1>3. ScriptWhole'
  BY DEF FilesOK, ScriptWhole, Script
<1>4. CASE Busy = {t}
  <2>1. \A u \in Tasks : u # t => task[u].pc = "rest"
    BY <1>4 DEF Busy
  <2>2. OneBusy'
    BY <1>1, <2>1 DEF OneBusy
  <2>3. \A u \in Tasks : task'[u].pc \notin Writing /\ task'[u].holds = "none"
    BY <1>1, <2>1 DEF FilesOK, Holding, Writing
  <2>4. OneWriter'
    BY <2>3 DEF OneWriter, Stage, Writing
  <2> QED
    BY <1>2, <1>3, <2>2, <2>4 DEF FilesOK
<1>5. OneWriter => OneWriter'
  BY <1>1 DEF OneWriter, Stage, Writing
<1>6. CASE overlapped' = overlapped /\ (r.pc # "rest" => task[t].pc # "rest")
  <2>1. OneBusy => OneBusy'
    BY <1>1, <1>6 DEF OneBusy
  <2> QED
    BY <1>2, <1>3, <1>5, <1>6, <2>1 DEF FilesOK
<1>7. CASE overlapped' = (overlapped \/ Busy # {})
  <2>1. CASE Busy = {}
    <3>1. \A u \in Tasks : u # t => task'[u].pc = "rest"
      BY <1>1, <2>1 DEF Busy
    <3>2. OneBusy'
      BY <3>1 DEF OneBusy
    <3> QED
      BY <1>2, <1>3, <1>5, <1>7, <2>1, <3>2 DEF FilesOK
  <2>2. CASE Busy # {}
    BY <1>2, <1>3, <1>5, <1>7, <2>2 DEF FilesOK
  <2> QED
    BY <2>1, <2>2
<1> QED
  BY <1>4, <1>6, <1>7

(* A step that leaves the tasks where they are.                            *)
LEMMA SameStages ==
  ASSUME FilesOK, content' = content, clashed' = clashed, overlapped' = overlapped,
         \A u \in Tasks : /\ task'[u].pc = task[u].pc /\ task'[u].holds = task[u].holds
                          /\ task'[u].read = task[u].read
  PROVE  FilesOK'
<1>1. Holding' /\ (OneBusy => OneBusy') /\ (OneWriter => OneWriter')
  BY DEF FilesOK, Holding, OneBusy, OneWriter, Stage
<1> QED
  BY <1>1 DEF FilesOK, ScriptWhole, Script

(* The files, through the steps of the agent.                              *)
LEMMA FilesStep == EnvTypes /\ FilesOK /\ EnvNext => FilesOK'
<1> SUFFICES ASSUME EnvTypes, FilesOK, EnvNext
             PROVE  FilesOK'
  OBVIOUS
<1> USE DEF tableVars, guestVars, ghostVars, EditTables
<1>1. task \in [Tasks -> EnvRecord] /\ content \in [file : FileRecord, tmp : FileRecord]
  BY DEF EnvTypes
<1>2. CASE Connect
  <2>1. /\ Boot \in Tasks /\ Go(Boot, [Rested EXCEPT !.pc = "read"]) /\ task[Boot].pc = "rest"
        /\ content' = content /\ clashed' = clashed /\ overlapped' = (overlapped \/ Busy # {})
    BY <1>2 DEF Connect, Tasks
  <2>2. [Rested EXCEPT !.pc = "read"] \in EnvRecord
    BY EnvRecords DEF EnvPcs
  <2>3. [Rested EXCEPT !.pc = "read"].pc = "read" /\ [Rested EXCEPT !.pc = "read"].holds = "none"
    BY DEF Rested
  <2> QED
    BY <2>1, <2>2, <2>3, OutsideStep DEF Writing
<1>3. CASE LinkDown
  <2>1. /\ UNCHANGED <<content, clashed, overlapped>>
        /\ task' = [t \in Tasks |-> IF task[t].pc \in {"open", "write", "rename", "dummy"} THEN Rested ELSE task[t]]
    BY <1>3 DEF LinkDown
  <2>2. \A u \in Tasks : \/ task'[u].pc = "rest" /\ task'[u].holds = "none"
                         \/ task'[u] = task[u] /\ task[u].pc \notin Writing
    BY <2>1 DEF Rested, Writing
  <2>3. \A u \in Tasks : task'[u].pc \notin Writing /\ task'[u].holds = "none"
    BY <2>2 DEF FilesOK, Holding, Writing
  <2>4. Holding' /\ OneWriter'
    BY <2>3 DEF Holding, OneWriter, Stage, Writing
  <2>5. OneBusy => OneBusy'
    BY <2>2 DEF OneBusy
  <2> QED
    BY <2>1, <2>4, <2>5 DEF FilesOK, ScriptWhole, Script
<1>4. CASE \/ \E s \in SUBSET Names : UpdateProviders(s)
           \/ \E s \in SUBSET OAuthNames : SetCredentials(s)
           \/ \E n \in Names : AddCustom(n) \/ RemoveCustom(n)
  <2>1. UNCHANGED <<task, content, clashed, overlapped>>
    BY <1>4 DEF UpdateProviders, SetCredentials, AddCustom, RemoveCustom
  <2> QED
    BY <2>1, SameStages
<1>5. ASSUME NEW t \in Togglers, UpsertRow(t)
      PROVE  FilesOK'
  <2>1. /\ t \in Tasks /\ Go(t, [Rested EXCEPT !.pc = "read"]) /\ task[t].pc = "upsert"
        /\ content' = content /\ clashed' = clashed /\ overlapped' = overlapped
    BY <1>5 DEF UpsertRow, Tasks
  <2>2. [Rested EXCEPT !.pc = "read"] \in EnvRecord
    BY EnvRecords DEF EnvPcs
  <2>3. [Rested EXCEPT !.pc = "read"].pc = "read" /\ [Rested EXCEPT !.pc = "read"].holds = "none"
    BY DEF Rested
  <2> QED
    BY <2>1, <2>2, <2>3, OutsideStep DEF Writing
<1>6. ASSUME NEW t \in Togglers, NEW n \in Names, NEW on \in BOOLEAN, BeginToggle(t, n, on)
      PROVE  FilesOK'
  <2> DEFINE r == [Rested EXCEPT !.pc = "upsert", !.name = n, !.on = on, !.builtin = n \notin custom]
  <2>1. /\ t \in Tasks /\ Go(t, r) /\ task[t].pc = "rest"
        /\ content' = content /\ clashed' = clashed /\ overlapped' = (overlapped \/ Busy # {})
    BY <1>6 DEF BeginToggle, Tasks
  <2>2. r \in EnvRecord /\ r.pc = "upsert" /\ r.holds = "none"
    BY DEF Rested, EnvRecord, EnvPcs
  <2> HIDE DEF r
  <2> QED
    BY <2>1, <2>2, OutsideStep DEF Writing
<1>7. ASSUME NEW t \in Tasks, ReadAndSend(t)
      PROVE  FilesOK'
  <2> DEFINE r == IF Sends(t, ReadNames(t)) THEN [Rested EXCEPT !.read = ReadNames(t), !.waits = TRUE, !.pc = "open"]
                  ELSE IF t = Boot THEN [Rested EXCEPT !.read = ReadNames(t), !.pc = "dummy"] ELSE Rested
  <2>1. /\ Go(t, r) /\ task[t].pc = "read" /\ content' = content /\ clashed' = clashed
        /\ Busy = {t} \/ overlapped' = overlapped
    BY <1>7 DEF ReadAndSend
  <2>2. r \in EnvRecord
    BY EnvRecords DEF ReadNames, EnvPcs
  <2>3. r.pc \in {"open", "dummy", "rest"} /\ r.holds = "none"
    BY DEF Rested
  <2> HIDE DEF r
  <2> QED
    BY <2>1, <2>2, <2>3, OutsideStep DEF Writing
<1>8. ASSUME NEW t \in Tasks, GiveUp(t)
      PROVE  FilesOK'
  <2>1. /\ Go(t, [task[t] EXCEPT !.waits = FALSE])
        /\ content' = content /\ clashed' = clashed /\ overlapped' = overlapped
    BY <1>8 DEF GiveUp
  <2>2. [task[t] EXCEPT !.waits = FALSE] \in EnvRecord
    BY <1>1 DEF EnvRecord
  <2>3. \A u \in Tasks : /\ task'[u].pc = task[u].pc /\ task'[u].holds = task[u].holds
                         /\ task'[u].read = task[u].read
    <3> DEFINE r == [task[t] EXCEPT !.waits = FALSE]
    <3>1. task'[t] = r /\ \A u \in Tasks : u # t => task'[u] = task[u]
      BY <2>1, <2>2, EnvGo
    <3>2. r.pc = task[t].pc /\ r.holds = task[t].holds /\ r.read = task[t].read
      BY <1>1 DEF EnvRecord
    <3> HIDE DEF r
    <3> QED
      BY <3>1, <3>2
  <2> QED
    BY <2>1, <2>3, SameStages
<1>9. ASSUME NEW t \in Tasks, Dummies(t)
      PROVE  FilesOK'
  <2>1. /\ Go(t, Rested) /\ task[t].pc = "dummy"
        /\ content' = content /\ clashed' = clashed /\ overlapped' = overlapped
    BY <1>9 DEF Dummies
  <2>2. Rested \in EnvRecord /\ Rested.pc = "rest" /\ Rested.holds = "none"
    BY EnvRecords DEF Rested
  <2> QED
    BY <2>1, <2>2, OutsideStep DEF Writing
<1>10. ASSUME NEW t \in Tasks, OpenTmp(t)
       PROVE  FilesOK'
  <2>1. /\ Go(t, [task[t] EXCEPT !.pc = "write", !.holds = "tmp"]) /\ task[t].pc = "open"
        /\ content' = [content EXCEPT !.tmp = [NoFile EXCEPT !.there = TRUE]]
        /\ clashed' = (clashed \/ \E u \in Tasks : task[u].holds # "none") /\ overlapped' = overlapped
    BY <1>10 DEF OpenTmp, TmpPath
  <2>2. [task[t] EXCEPT !.pc = "write", !.holds = "tmp"] \in EnvRecord
    BY <1>1 DEF EnvRecord, EnvPcs, Writing
  <2>3. /\ task'[t].pc = "write" /\ task'[t].holds = "tmp"
        /\ \A u \in Tasks : u # t => task'[u] = task[u]
    <3>1. /\ task'[t] = [task[t] EXCEPT !.pc = "write", !.holds = "tmp"]
          /\ \A u \in Tasks : u # t => task'[u] = task[u]
      BY <2>1, <2>2, EnvGo
    <3>2. /\ [task[t] EXCEPT !.pc = "write", !.holds = "tmp"].pc = "write"
          /\ [task[t] EXCEPT !.pc = "write", !.holds = "tmp"].holds = "tmp"
      BY <1>1 DEF EnvRecord
    <3> QED
      BY <3>1, <3>2
  <2>4. content'.file = content.file /\ content'.tmp.there /\ content'.tmp.names = {}
    BY <1>1, <2>1 DEF NoFile
  <2>5. Holding' /\ ScriptWhole'
    BY <2>1, <2>3, <2>4 DEF FilesOK, Holding, Writing, ScriptWhole, Script
  <2>6. OneBusy => OneBusy'
    BY <2>1, <2>3 DEF OneBusy
  <2>7. CASE \E u \in Tasks : task[u].holds # "none"
    <3>1. clashed' /\ overlapped
      BY <2>1, <2>7 DEF FilesOK, Holding, OneBusy, Writing
    <3> QED
      BY <2>1, <2>5, <3>1 DEF FilesOK
  <2>8. CASE \A u \in Tasks : task[u].holds = "none"
    <3>1. \A u \in Tasks : u # t => task'[u].pc \notin Writing /\ task'[u].holds = "none"
      BY <2>3, <2>8 DEF FilesOK, Holding
    <3>2. OneWriter'
      BY <2>3, <2>4, <3>1 DEF OneWriter, Stage, Writing
    <3> QED
      BY <2>1, <2>5, <2>6, <3>2 DEF FilesOK
  <2> QED
    BY <2>7, <2>8
<1>11. ASSUME NEW t \in Tasks, WriteTmp(t)
       PROVE  FilesOK'
  <2> DEFINE h == task[t].holds
             f(o) == IF Cardinality(o.names) > Cardinality(task[t].read)
                       THEN [there |-> TRUE, names |-> task[t].read \cup o.names, whole |-> FALSE]
                       ELSE [there |-> TRUE, names |-> task[t].read, whole |-> TRUE]
  <2>1. /\ Go(t, [task[t] EXCEPT !.pc = "rename"]) /\ task[t].pc = "write"
        /\ clashed' = clashed /\ overlapped' = overlapped
        /\ content' = IF h = "lost" THEN content ELSE [content EXCEPT ![h] = f(content[h])]
    BY <1>11 DEF WriteTmp
  <2>2. [task[t] EXCEPT !.pc = "rename"] \in EnvRecord
    BY <1>1 DEF EnvRecord, EnvPcs, Writing
  <2>3. /\ task'[t].pc = "rename" /\ task'[t].holds = h /\ task'[t].read = task[t].read
        /\ \A u \in Tasks : u # t => task'[u] = task[u]
    <3>1. task'[t] = [task[t] EXCEPT !.pc = "rename"] /\ \A u \in Tasks : u # t => task'[u] = task[u]
      BY <2>1, <2>2, EnvGo
    <3>2. /\ [task[t] EXCEPT !.pc = "rename"].pc = "rename" /\ [task[t] EXCEPT !.pc = "rename"].holds = h
          /\ [task[t] EXCEPT !.pc = "rename"].read = task[t].read
      BY <1>1 DEF EnvRecord
    <3> QED
      BY <3>1, <3>2
  <2>4. Holding'
    BY <2>1, <2>3 DEF FilesOK, Holding, Writing
  <2>5. OneBusy => OneBusy'
    BY <2>1, <2>3 DEF OneBusy
  <2>6. CASE OneWriter
    <3>1. h = "tmp" /\ content.tmp.there /\ content.tmp.names = {}
      BY <2>1, <2>6 DEF OneWriter, Stage, FilesOK, Holding, Writing
    <3>2. task[t].read \in SUBSET Variables /\ IsFiniteSet(Variables)
      BY <1>1, EnvAssumption, FS_Union DEF EnvRecord, Variables
    <3>3. Cardinality(task[t].read) \in Nat /\ Cardinality({}) = 0
      BY <3>2, FS_Subset, FS_CardinalityType, FS_EmptySet
    <3>4. f(content.tmp) = [there |-> TRUE, names |-> task[t].read, whole |-> TRUE]
      BY <3>1, <3>3
    <3> HIDE DEF f
    <3>5. /\ content'.tmp = [there |-> TRUE, names |-> task[t].read, whole |-> TRUE]
          /\ content'.file = content.file
      BY <1>1, <2>1, <3>1, <3>4
    <3>6. \A u \in Tasks : u # t => task[u].pc \notin Writing
      BY <2>1, <2>6 DEF OneWriter, Writing
    <3>7. OneWriter'
      BY <2>3, <2>6, <3>1, <3>5, <3>6 DEF OneWriter, Stage, Writing
    <3> QED
      BY <2>1, <2>4, <2>5, <3>5, <3>7 DEF FilesOK, ScriptWhole, Script
  <2>7. CASE ~OneWriter
    BY <2>1, <2>4, <2>5, <2>7 DEF FilesOK, ScriptWhole
  <2> QED
    BY <2>6, <2>7
<1>12. ASSUME NEW t \in Tasks, RenameTmp(t)
       PROVE  FilesOK'
  <2> DEFINE ok == content.tmp.there
  <2>1. /\ content' = IF ok THEN [content EXCEPT !.file = content.tmp, !.tmp = NoFile] ELSE content
        /\ task' = [u \in Tasks |-> IF u = t THEN After(t, ok)
                                   ELSE IF ok THEN [task[u] EXCEPT !.holds = Moved(task[u].holds)] ELSE task[u]]
        /\ task[t].pc = "rename" /\ overlapped' = overlapped /\ clashed' = clashed
    BY <1>12 DEF RenameTmp, TmpPath
  <2>2. task'[t].pc \in {"rest", "dummy"} /\ task'[t].holds = "none"
    BY <2>1 DEF After, Rested
  <2>3. \A u \in Tasks : u # t => /\ task'[u].pc = task[u].pc
                                  /\ task'[u].holds = "none" <=> task[u].holds = "none"
    BY <1>1, <2>1 DEF EnvRecord, Moved
  <2>4. Holding'
    BY <2>2, <2>3 DEF FilesOK, Holding, Writing
  <2>5. OneBusy => OneBusy'
    BY <2>1, <2>2, <2>3 DEF OneBusy
  <2>6. CASE OneWriter
    <3>1. content.tmp.there /\ content.tmp.whole
      BY <2>1, <2>6 DEF OneWriter, Stage
    <3>2. Script' = content.tmp
      BY <1>1, <2>1, <3>1 DEF Script
    <3>3. \A u \in Tasks : u # t => task'[u].pc \notin Writing
      BY <2>1, <2>3, <2>6 DEF OneWriter, Writing
    <3>4. \A u \in Tasks : task'[u].pc \notin Writing /\ task'[u].holds = "none"
      BY <2>2, <2>4, <3>3 DEF Holding, Writing
    <3>5. OneWriter'
      BY <3>4 DEF OneWriter, Stage, Writing
    <3> QED
      BY <2>1, <2>4, <2>5, <3>1, <3>2, <3>5 DEF FilesOK, ScriptWhole
  <2>7. CASE ~OneWriter
    BY <2>1, <2>4, <2>5, <2>7 DEF FilesOK, ScriptWhole
  <2> QED
    BY <2>6, <2>7
<1> QED
  BY <1>2, <1>3, <1>4, <1>5, <1>6, <1>7, <1>8, <1>9, <1>10, <1>11, <1>12 DEF EnvNext

(* Without overlap, a task that is under way is alone.                     *)
LEMMA OthersRest ==
  ASSUME FilesOK, ~overlapped, NEW t \in Tasks, task[t].pc # "rest"
  PROVE  \A u \in Tasks : u # t => task[u].pc = "rest"
BY DEF FilesOK, OneBusy

(* A task that begins, or is about to read, owes nothing yet.              *)
LEMMA NothingOwed ==
  ASSUME NEW t \in Tasks, task'[t].pc \in {"upsert", "read"},
         \A u \in Tasks : u # t => task'[u].pc = "rest"
  PROVE  Applied'
BY DEF Applied, Carries, Settled, Busy

(* What was read is applied, or a flag tells why not.                      *)
LEMMA AppliedStep == EnvTypes /\ FilesOK /\ (Excused \/ Applied) /\ EnvNext => Excused' \/ Applied'
<1> SUFFICES ASSUME EnvTypes, FilesOK, Excused \/ Applied, EnvNext, ~Excused'
             PROVE  Applied'
  OBVIOUS
<1> USE DEF tableVars, guestVars, ghostVars, EditTables
<1>1. task \in [Tasks -> EnvRecord] /\ content \in [file : FileRecord, tmp : FileRecord]
  BY DEF EnvTypes
<1>2. ~overlapped' /\ ~failed' /\ ~unapplied'
  BY DEF Excused
<1>3. CASE Connect
  <2>1. /\ Boot \in Tasks /\ Go(Boot, [Rested EXCEPT !.pc = "read"])
        /\ Busy = {}
    BY <1>2, <1>3 DEF Connect, Tasks
  <2>2. [Rested EXCEPT !.pc = "read"] \in EnvRecord /\ [Rested EXCEPT !.pc = "read"].pc = "read"
    BY EnvRecords DEF EnvPcs, Rested
  <2>3. task'[Boot].pc = "read" /\ \A u \in Tasks : u # Boot => task'[u] = task[u]
    BY <2>1, <2>2, EnvGo
  <2> QED
    BY <2>1, <2>3, NothingOwed DEF Busy
<1>4. CASE LinkDown
  <2>1. /\ UNCHANGED <<row, creds, content, secretFiles, overlapped, unapplied>>
        /\ task' = [t \in Tasks |-> IF task[t].pc \in {"open", "write", "rename", "dummy"} THEN Rested ELSE task[t]]
        /\ task' = task /\ ~failed
    BY <1>2, <1>4 DEF LinkDown
  <2>2. \A t \in Tasks : task[t].pc \notin {"open", "write", "rename", "dummy"}
    <3> SUFFICES ASSUME NEW t \in Tasks, task[t].pc \in {"open", "write", "rename", "dummy"}
                 PROVE  FALSE
      OBVIOUS
    <3>1. task'[t] = Rested
      BY <2>1
    <3>2. task'[t] = task[t]
      BY <2>1
    <3>3. Rested.pc = "rest"
      BY DEF Rested
    <3> QED
      BY <3>1, <3>2, <3>3
  <2>3. Applied
    BY <1>2, <2>1 DEF Excused
  <2>4. Settled' = Settled /\ Enabled' = Enabled /\ Script' = Script
    BY <2>1 DEF Settled, Busy, Enabled, Script
  <2> QED
    BY <2>1, <2>2, <2>3, <2>4 DEF Applied, Carries, InPlace
<1>5. CASE \/ \E s \in SUBSET Names : UpdateProviders(s)
           \/ \E n \in Names : AddCustom(n)
  <2>1. UNCHANGED <<row, creds, linked, task, content, secretFiles, overlapped, failed, unapplied>>
    BY <1>5 DEF UpdateProviders, AddCustom
  <2> QED
    BY <1>2, <2>1 DEF Excused, Applied, Carries, InPlace, Settled, Busy, Enabled, Script
<1>6. CASE \/ \E s \in SUBSET OAuthNames : SetCredentials(s)
           \/ \E n \in Names : RemoveCustom(n)
  BY <1>2, <1>6 DEF SetCredentials, RemoveCustom
<1>7. ASSUME NEW t \in Togglers, UpsertRow(t)
      PROVE  Applied'
  <2>1. /\ t \in Tasks /\ Go(t, [Rested EXCEPT !.pc = "read"]) /\ task[t].pc = "upsert" /\ overlapped' = overlapped
    BY <1>7 DEF UpsertRow, Tasks
  <2>2. [Rested EXCEPT !.pc = "read"] \in EnvRecord /\ [Rested EXCEPT !.pc = "read"].pc = "read"
    BY EnvRecords DEF EnvPcs, Rested
  <2>3. task'[t].pc = "read" /\ \A u \in Tasks : u # t => task'[u] = task[u]
    BY <2>1, <2>2, EnvGo
  <2>4. \A u \in Tasks : u # t => task[u].pc = "rest"
    BY <1>2, <2>1, OthersRest
  <2> QED
    BY <2>1, <2>3, <2>4, NothingOwed
<1>8. ASSUME NEW t \in Togglers, NEW n \in Names, NEW on \in BOOLEAN, BeginToggle(t, n, on)
      PROVE  Applied'
  <2> DEFINE r == [Rested EXCEPT !.pc = "upsert", !.name = n, !.on = on, !.builtin = n \notin custom]
  <2>1. t \in Tasks /\ Go(t, r) /\ Busy = {}
    BY <1>2, <1>8 DEF BeginToggle, Tasks
  <2>2. r \in EnvRecord /\ r.pc = "upsert"
    BY DEF Rested, EnvRecord, EnvPcs
  <2> HIDE DEF r
  <2>3. task'[t].pc = "upsert" /\ \A u \in Tasks : u # t => task'[u] = task[u]
    BY <2>1, <2>2, EnvGo
  <2> QED
    BY <2>1, <2>3, NothingOwed DEF Busy
<1>9. ASSUME NEW t \in Tasks, ReadAndSend(t)
      PROVE  Applied'
  <2> DEFINE s == ReadNames(t)
             sent == [Rested EXCEPT !.read = s, !.waits = TRUE, !.pc = "open"]
             left == [Rested EXCEPT !.read = s, !.pc = "dummy"]
             r == IF Sends(t, s) THEN sent ELSE IF t = Boot THEN left ELSE Rested
  <2>1. /\ Go(t, r) /\ task[t].pc = "read" /\ UNCHANGED <<row, creds, linked, content>>
        /\ Busy = {t} => unapplied' = (~linked)
        /\ Busy # {t} => overlapped' = overlapped
    BY <1>9 DEF ReadAndSend
  <2>2. r \in EnvRecord
    BY EnvRecords DEF EnvPcs, ReadNames
  <2>3. /\ sent.pc = "open" /\ sent.waits /\ sent.read = s
        /\ left.pc = "dummy" /\ left.read = s
    BY DEF Rested
  <2>4. Enabled' = Enabled /\ s = Enabled /\ Script' = Script
    BY <2>1 DEF Enabled, ReadNames, Script
  <2> HIDE DEF sent, left, s
  <2>5. task'[t] = r /\ \A u \in Tasks : u # t => task'[u] = task[u]
    BY <2>1, <2>2, EnvGo
  <2>6. Busy = {t} /\ \A u \in Tasks : u # t => task[u].pc = "rest"
    <3>1. CASE Busy = {t}
      BY <3>1 DEF Busy
    <3>2. CASE Busy # {t}
      <4>1. \A u \in Tasks : u # t => task[u].pc = "rest"
        BY <1>2, <2>1, <3>2, OthersRest
      <4> QED
        BY <2>1, <3>2, <4>1 DEF Busy
    <3> QED
      BY <3>1, <3>2
  <2>7. linked
    BY <1>2, <2>1, <2>6
  <2>8. CASE Sends(t, s)
    <3>1. Carries(t)'
      BY <2>1, <2>3, <2>4, <2>5, <2>7, <2>8 DEF Carries
    <3>2. ~Settled'
      BY <2>3, <2>5, <2>8 DEF Settled, Busy
    <3> QED
      BY <2>5, <2>6, <3>1, <3>2 DEF Applied, Carries
  <2>9. CASE ~Sends(t, s)
    <3>1. t = Boot /\ s = {}
      BY <2>7, <2>9 DEF Sends
    <3>2. Carries(t)'
      BY <2>3, <2>4, <2>5, <2>9, <3>1 DEF Carries, InPlace
    <3>3. ~Settled'
      BY <2>3, <2>5, <2>9, <3>1 DEF Settled, Busy
    <3> QED
      BY <2>5, <2>6, <3>2, <3>3 DEF Applied, Carries
  <2> QED
    BY <2>8, <2>9
<1>10. ASSUME NEW t \in Tasks, GiveUp(t)
       PROVE  Applied'
  BY <1>2, <1>10 DEF GiveUp
<1>11. ASSUME NEW t \in Tasks, Dummies(t)
       PROVE  Applied'
  <2>1. /\ Go(t, Rested) /\ task[t].pc = "dummy" /\ UNCHANGED <<row, creds, content, overlapped, unapplied>>
        /\ secretFiles' = secretFiles \cup (task[t].read \cap OAuthNames) /\ ~failed
    BY <1>2, <1>11 DEF Dummies, DummyFiles
  <2>2. task'[t].pc = "rest" /\ \A u \in Tasks : u # t => task'[u] = task[u]
    <3>1. Rested.pc = "rest"
      BY DEF Rested
    <3> QED
      BY <2>1, <3>1, EnvGo, EnvRecords
  <2>3. \A u \in Tasks : u # t => task[u].pc = "rest"
    BY <1>2, <2>1, OthersRest
  <2>4. task[t].read = Enabled /\ InPlace
    BY <1>2, <2>1 DEF Excused, Applied, Carries
  <2>5. Enabled' = Enabled /\ Script' = Script
    BY <2>1 DEF Enabled, Script
  <2> QED
    BY <2>1, <2>2, <2>3, <2>4, <2>5 DEF Applied, Carries, InPlace
<1>12. ASSUME NEW t \in Tasks, OpenTmp(t) \/ WriteTmp(t)
       PROVE  Applied'
  <2>1. PICK r \in EnvRecord : /\ Go(t, r) /\ r.pc \in Writing
                               /\ r.waits = task[t].waits /\ r.read = task[t].read
    <3>1. CASE OpenTmp(t)
      <4> DEFINE r == [task[t] EXCEPT !.pc = "write", !.holds = "tmp"]
      <4>1. r \in EnvRecord /\ r.pc \in Writing /\ r.waits = task[t].waits /\ r.read = task[t].read
        BY <1>1 DEF EnvRecord, EnvPcs, Writing
      <4>2. Go(t, r)
        BY <3>1 DEF OpenTmp, TmpPath
      <4> HIDE DEF r
      <4> QED
        BY <4>1, <4>2
    <3>2. CASE WriteTmp(t)
      <4> DEFINE r == [task[t] EXCEPT !.pc = "rename"]
      <4>1. r \in EnvRecord /\ r.pc \in Writing /\ r.waits = task[t].waits /\ r.read = task[t].read
        BY <1>1 DEF EnvRecord, EnvPcs, Writing
      <4>2. Go(t, r)
        BY <3>2 DEF WriteTmp
      <4> HIDE DEF r
      <4> QED
        BY <4>1, <4>2
    <3> QED
      BY <1>12, <3>1, <3>2
  <2>2. /\ task[t].pc \in {"open", "write"}
        /\ UNCHANGED <<row, creds, linked, overlapped, failed, unapplied>>
    BY <1>12 DEF OpenTmp, WriteTmp
  <2>3. task'[t] = r /\ \A u \in Tasks : u # t => task'[u] = task[u]
    BY <2>1, EnvGo
  <2>4. \A u \in Tasks : u # t => task[u].pc = "rest"
    BY <1>2, <2>2, OthersRest
  <2>5. task[t].waits /\ linked /\ task[t].read = Enabled
    BY <1>2, <2>2 DEF Excused, Applied, Carries
  <2>6. Enabled' = Enabled
    BY <2>2 DEF Enabled
  <2>7. Carries(t)' /\ ~Settled'
    BY <2>1, <2>2, <2>3, <2>5, <2>6 DEF Carries, Settled, Busy, Writing
  <2> QED
    BY <2>3, <2>4, <2>7 DEF Applied, Carries
<1>13. ASSUME NEW t \in Tasks, RenameTmp(t)
       PROVE  Applied'
  <2> DEFINE ok == content.tmp.there
  <2>1. /\ content' = IF ok THEN [content EXCEPT !.file = content.tmp, !.tmp = NoFile] ELSE content
        /\ task' = [u \in Tasks |-> IF u = t THEN After(t, ok)
                                   ELSE IF ok THEN [task[u] EXCEPT !.holds = Moved(task[u].holds)] ELSE task[u]]
        /\ task[t].pc = "rename" /\ ok /\ ~failed /\ UNCHANGED <<row, creds, overlapped, unapplied>>
    BY <1>2, <1>13 DEF RenameTmp, TmpPath
  <2>2. task[t].waits /\ task[t].read = Enabled
    BY <1>2, <2>1 DEF Excused, Applied, Carries
  <2>3. content.tmp.names = task[t].read
    BY <1>2, <2>1 DEF FilesOK, OneWriter, Stage
  <2>4. Script' = content.tmp /\ Enabled' = Enabled
    BY <1>1, <2>1 DEF Script, Enabled
  <2>5. task'[t].pc = "dummy" /\ task'[t].read = task[t].read
    BY <2>1, <2>2 DEF After, Rested
  <2>6. \A u \in Tasks : u # t => task'[u].pc = "rest"
    BY <1>1, <1>2, <2>1, OthersRest DEF EnvRecord
  <2>7. Carries(t)' /\ ~Settled'
    BY <2>2, <2>3, <2>4, <2>5 DEF Carries, Settled, Busy, InPlace
  <2> QED
    BY <2>6, <2>7 DEF Applied, Carries
<1> QED
  BY <1>3, <1>4, <1>5, <1>6, <1>7, <1>8, <1>9, <1>10, <1>11, <1>12, <1>13 DEF EnvNext

(* A row that is no built-in's has its custom name, or an orphan's.        *)
LEMMA RowsStep == EnvTypes /\ TogglesKnown /\ NoOrphanRow /\ EnvNext => TogglesKnown' /\ NoOrphanRow'
<1> SUFFICES ASSUME EnvTypes, TogglesKnown, NoOrphanRow, EnvNext
             PROVE  TogglesKnown' /\ NoOrphanRow'
  OBVIOUS
<1> USE DEF tableVars, guestVars, ghostVars, EditTables
<1>1. row \in [Names -> RowRecord] /\ task \in [Tasks -> EnvRecord] /\ Togglers \subseteq Tasks
  BY DEF EnvTypes, Tasks
<1>2. CASE \/ Connect \/ LinkDown \/ \E t \in Tasks : \/ ReadAndSend(t) \/ GiveUp(t) \/ Dummies(t)
                                                      \/ OpenTmp(t) \/ WriteTmp(t) \/ RenameTmp(t)
  <2>1. UNCHANGED <<row, custom, orphans>>
    BY <1>2 DEF Connect, LinkDown, ReadAndSend, GiveUp, Dummies, OpenTmp, WriteTmp, RenameTmp
  <2>2. \A u \in Tasks : task'[u].pc = "upsert" => task'[u].pc = task[u].pc /\ task'[u].name = task[u].name
                                                   /\ task'[u].builtin = task[u].builtin
    <3>1. CASE Connect
      BY <1>1, <3>1 DEF Connect, Go, Rested
    <3>2. CASE LinkDown
      BY <1>1, <3>2 DEF LinkDown, Rested
    <3>3. ASSUME NEW t \in Tasks, ReadAndSend(t), NEW u \in Tasks
          PROVE  task'[u] = task[u] \/ task'[u].pc # "upsert"
      <4>1. CASE u # t
        BY <1>1, <3>3, <4>1 DEF ReadAndSend, Go
      <4>2. CASE u = t
        BY <1>1, <3>3, <4>2 DEF ReadAndSend, Go, Rested
      <4> QED
        BY <4>1, <4>2
    <3>4. ASSUME NEW t \in Tasks, GiveUp(t) \/ OpenTmp(t) \/ WriteTmp(t), NEW u \in Tasks
          PROVE  task'[u] = task[u] \/ task'[u].pc # "upsert"
      <4>1. CASE GiveUp(t)
        BY <1>1, <4>1 DEF GiveUp, Go, EnvRecord
      <4>2. CASE OpenTmp(t)
        BY <1>1, <4>2 DEF OpenTmp, Go, EnvRecord
      <4>3. CASE WriteTmp(t)
        BY <1>1, <4>3 DEF WriteTmp, Go, EnvRecord
      <4> QED
        BY <3>4, <4>1, <4>2, <4>3
    <3>5. ASSUME NEW t \in Tasks, Dummies(t), NEW u \in Tasks
          PROVE  task'[u] = task[u] \/ task'[u].pc # "upsert"
      BY <1>1, <3>5 DEF Dummies, Go, Rested
    <3>6. ASSUME NEW t \in Tasks, RenameTmp(t), NEW u \in Tasks
          PROVE  task'[u].pc = "upsert" => task'[u].pc = task[u].pc /\ task'[u].name = task[u].name
                                           /\ task'[u].builtin = task[u].builtin
      <4>1. CASE u # t
        BY <1>1, <3>6, <4>1 DEF RenameTmp, EnvRecord
      <4>2. CASE u = t
        BY <1>1, <3>6, <4>2 DEF RenameTmp, After, Rested
      <4> QED
        BY <4>1, <4>2
    <3> QED
      BY <1>2, <3>1, <3>2, <3>3, <3>4, <3>5, <3>6
  <2> QED
    BY <1>1, <2>1, <2>2 DEF TogglesKnown, NoOrphanRow
<1>3. CASE \/ \E s \in SUBSET Names : UpdateProviders(s)
           \/ \E s \in SUBSET OAuthNames : SetCredentials(s)
           \/ \E n \in Names : AddCustom(n)
  <2>1. UNCHANGED <<row, task, orphans>> /\ custom \subseteq custom'
    BY <1>3 DEF UpdateProviders, SetCredentials, AddCustom
  <2> QED
    BY <2>1 DEF TogglesKnown, NoOrphanRow
<1>4. ASSUME NEW n \in Names, RemoveCustom(n)
      PROVE  TogglesKnown' /\ NoOrphanRow'
  <2>1. /\ task' = task /\ custom' = custom \ {n} /\ row' = RowsCleared(n)
        /\ orphans' = IF \E t \in Togglers : task[t].pc = "upsert" /\ task[t].name = n
                        THEN orphans \cup {n} ELSE orphans
    BY <1>4 DEF RemoveCustom
  <2>2. TogglesKnown'
    BY <2>1 DEF TogglesKnown
  <2>3. NoOrphanRow'
    BY <1>1, <2>1 DEF NoOrphanRow, RowsCleared, NoRow
  <2> QED
    BY <2>2, <2>3
<1>5. ASSUME NEW t \in Togglers, UpsertRow(t)
      PROVE  TogglesKnown' /\ NoOrphanRow'
  <2> DEFINE n == task[t].name
             s == IF task[t].on THEN "on" ELSE "off"
             r == IF row[n].state = "none" THEN [state |-> s, builtin |-> task[t].builtin]
                                           ELSE [row[n] EXCEPT !.state = s]
  <2>1. /\ task[t].pc = "upsert" /\ Go(t, [Rested EXCEPT !.pc = "read"]) /\ UNCHANGED <<custom, orphans>>
        /\ row' = [row EXCEPT ![n] = r]
    BY <1>5 DEF UpsertRow
  <2>2. n \in Names /\ (task[t].builtin \/ n \in custom \cup orphans)
    BY <2>1 DEF TogglesKnown
  <2>3. ~r.builtin => n \in custom \cup orphans
    <3>1. CASE row[n].state = "none"
      BY <2>2, <3>1
    <3>2. CASE row[n].state # "none"
      <4>1. r.builtin = row[n].builtin
        BY <1>1, <2>2, <3>2 DEF RowRecord
      <4> QED
        BY <2>2, <3>2, <4>1 DEF NoOrphanRow
    <3> QED
      BY <3>1, <3>2
  <2> HIDE DEF r
  <2>4. NoOrphanRow'
    BY <1>1, <2>1, <2>2, <2>3 DEF NoOrphanRow
  <2>5. \A u \in Tasks : task'[u] = task[u] \/ task'[u].pc = "read"
    BY <1>1, <2>1 DEF Go, Rested
  <2> QED
    BY <1>1, <2>1, <2>4, <2>5 DEF TogglesKnown
<1>6. ASSUME NEW t \in Togglers, NEW n \in Names, NEW on \in BOOLEAN, BeginToggle(t, n, on)
      PROVE  TogglesKnown' /\ NoOrphanRow'
  <2> DEFINE r == [Rested EXCEPT !.pc = "upsert", !.name = n, !.on = on, !.builtin = n \notin custom]
  <2>1. Go(t, r) /\ UNCHANGED <<row, custom, orphans>>
    BY <1>6 DEF BeginToggle
  <2>2. r.name = n /\ (r.builtin <=> n \notin custom) /\ r \in EnvRecord
    BY DEF Rested, EnvRecord, EnvPcs
  <2> HIDE DEF r
  <2>3. task'[t] = r /\ \A u \in Tasks : u # t => task'[u] = task[u]
    BY <1>1, <2>1, <2>2, EnvGo
  <2>4. TogglesKnown'
    BY <1>1, <2>1, <2>2, <2>3 DEF TogglesKnown
  <2> QED
    BY <2>1, <2>4 DEF NoOrphanRow
<1> QED
  BY <1>2, <1>3, <1>4, <1>5, <1>6 DEF EnvNext

(* Every step of the tables, the tasks, the agent and the VM.              *)
LEMMA EnvInvStep == EnvInv /\ [EnvNext]_envVars => EnvInv'
<1> SUFFICES ASSUME EnvInv, [EnvNext]_envVars
             PROVE  EnvInv'
  OBVIOUS
<1>1. CASE EnvNext
  BY <1>1, EnvTypesStep, FilesStep, AppliedStep, RowsStep DEF EnvInv
<1>2. CASE UNCHANGED envVars
  BY <1>2 DEF envVars, EnvInv, EnvTypes, FilesOK, Holding, OneBusy, OneWriter, Stage, ScriptWhole, Script,
     Excused, Applied, Carries, InPlace, Settled, Busy, Enabled, TogglesKnown, NoOrphanRow
<1> QED
  BY <1>1, <1>2

(* The variables in the guest are the ones enabled on the host, whichever  *)
(* tasks overlap, writes are given up and boots come between: unless a     *)
(* flag says what happened since a task that was alone read them.          *)
THEOREM VariablesAreSafe == EnvInit /\ [][EnvNext]_envVars => []EnvSafe
<1>1. EnvInv => EnvSafe
  <2> SUFFICES ASSUME EnvInv
               PROVE  EnvSafe
    OBVIOUS
  <2>1. ScriptCurrent /\ ExportHasFile
    BY DEF EnvInv, ScriptCurrent, ExportHasFile, Excused, Applied, InPlace
  <2> QED
    BY <2>1 DEF EnvInv, FilesOK, EnvSafe
<1> QED
  BY <1>1, EnvInvInit, EnvInvStep, PTL

-----------------------------------------------------------------------------
(* Sums.  What a fold over a finite set computes is shown with the least   *)
(* set it would be false for, as the induction theorems of the library     *)
(* take operators.                                                         *)

Value(f, x) == IF f[x] = None THEN 0 ELSE f[x]
Choice(s) == CHOOSE x \in s : TRUE
Sums(g, f, S) ==
  g = [s \in SUBSET S |-> IF s = {} THEN 0 ELSE Value(f, Choice(s)) + g[s \ {Choice(s)}]]

(* A nonempty set of finite sets has a smallest one.                       *)
LEMMA SmallestSet ==
  ASSUME NEW S, IsFiniteSet(S), NEW C, C \subseteq SUBSET S, C # {}
  PROVE  \E m \in C : \A c \in C : c \subseteq m => c = m
<1>1. IsWellFoundedOn(StrictSubsetOrdering(S), SUBSET S)
  BY FS_StrictSubsetOrderingWellFounded, FS_FiniteSubsetsOfFinite
<1>2. PICK m \in C : \A c \in C : ~(<<c, m>> \in StrictSubsetOrdering(S))
  BY <1>1, WFMin
<1>3. ASSUME NEW c \in C, c \subseteq m, c # m
      PROVE  FALSE
  <2>1. <<c, m>> \in (SUBSET S) \X (SUBSET S)
    OBVIOUS
  <2>2. <<c, m>> \in StrictSubsetOrdering(S)
    BY <1>3, <2>1 DEF StrictSubsetOrdering
  <2> QED
    BY <1>2, <2>2
<1> QED
  BY <1>3

(* Two functions that sum the subsets of two sets agree on the common ones.*)
LEMMA SumsAgree ==
  ASSUME NEW f, NEW S, NEW T, NEW g, NEW h, IsFiniteSet(S), Sums(g, f, S), Sums(h, f, T)
  PROVE  \A s \in SUBSET (S \cap T) : g[s] = h[s]
<1> DEFINE C == {s \in SUBSET (S \cap T) : g[s] # h[s]}
<1> SUFFICES ASSUME C # {} PROVE FALSE
  OBVIOUS
<1>1. C \subseteq SUBSET S
  OBVIOUS
<1>2. PICK m \in C : \A c \in C : c \subseteq m => c = m
  <2> HIDE DEF C
  <2> QED
    BY <1>1, SmallestSet
<1>3. g[m] = IF m = {} THEN 0 ELSE Value(f, Choice(m)) + g[m \ {Choice(m)}]
  <2>1. m \in SUBSET S
    OBVIOUS
  <2> QED
    BY <2>1 DEF Sums
<1>4. h[m] = IF m = {} THEN 0 ELSE Value(f, Choice(m)) + h[m \ {Choice(m)}]
  <2>1. m \in SUBSET T
    OBVIOUS
  <2> QED
    BY <2>1 DEF Sums
<1>5. m # {} /\ g[m] # h[m]
  BY <1>3, <1>4
<1>6. Choice(m) \in m
  BY <1>5 DEF Choice
<1>7. m \ {Choice(m)} \in SUBSET (S \cap T) /\ m \ {Choice(m)} # m
  BY <1>6
<1>8. g[m \ {Choice(m)}] = h[m \ {Choice(m)}]
  BY <1>2, <1>7
<1> QED
  BY <1>3, <1>4, <1>5, <1>8

(* Every finite set has such a function.                                   *)
LEMMA SumsExist ==
  ASSUME NEW f, NEW S, IsFiniteSet(S)
  PROVE  \E g : Sums(g, f, S)
<1> DEFINE C == {s \in SUBSET S : ~ \E g : Sums(g, f, s)}
<1> SUFFICES ASSUME C # {} PROVE FALSE
  OBVIOUS
<1>1. PICK m \in C : \A c \in C : c \subseteq m => c = m
  <2>1. C \subseteq SUBSET S
    OBVIOUS
  <2> HIDE DEF C
  <2> QED
    BY <2>1, SmallestSet
<1> DEFINE G(s) == CHOOSE g : Sums(g, f, s)
<1> DEFINE r == [s \in SUBSET m |->
                   IF s = {} THEN 0
                   ELSE Value(f, Choice(s)) + G(s \ {Choice(s)})[s \ {Choice(s)}]]
<1>2. ASSUME NEW s \in SUBSET m, s # m
      PROVE  Sums(G(s), f, s)
  <2>1. \E g : Sums(g, f, s)
    BY <1>1, <1>2
  <2> QED
    BY <2>1
<1>3. ASSUME NEW s \in SUBSET m, s # m
      PROVE  r[s] = G(s)[s]
  <2>1. G(s)[s] = IF s = {} THEN 0 ELSE Value(f, Choice(s)) + G(s)[s \ {Choice(s)}]
    <3>1. Sums(G(s), f, s)
      BY <1>2, <1>3
    <3>2. s \in SUBSET s
      OBVIOUS
    <3> HIDE DEF G
    <3> QED
      BY <3>1, <3>2 DEF Sums
  <2>2. ASSUME s # {}
        PROVE  G(s)[s \ {Choice(s)}] = G(s \ {Choice(s)})[s \ {Choice(s)}]
    <3> DEFINE t == s \ {Choice(s)}
    <3>1. t \in SUBSET m /\ t # m /\ t \in SUBSET (s \cap t)
      <4>1. Choice(s) \in s
        BY <2>2 DEF Choice
      <4> QED
        BY <4>1
    <3>2. Sums(G(s), f, s) /\ Sums(G(t), f, t)
      BY <1>2, <1>3, <3>1
    <3>3. IsFiniteSet(s)
      BY FS_Subset
    <3> HIDE DEF G, t
    <3>4. G(s)[t] = G(t)[t]
      BY <3>1, <3>2, <3>3, SumsAgree
    <3> QED
      BY <3>4 DEF t
  <2> QED
    BY <2>1, <2>2
<1>4. ASSUME NEW s \in SUBSET m
      PROVE  r[s] = IF s = {} THEN 0 ELSE Value(f, Choice(s)) + r[s \ {Choice(s)}]
  <2>1. CASE s = {}
    BY <2>1
  <2>2. CASE s # {}
    <3>1. Choice(s) \in s
      BY <2>2 DEF Choice
    <3>2. s \ {Choice(s)} \in SUBSET m /\ s \ {Choice(s)} # m
      BY <3>1
    <3>3. r[s \ {Choice(s)}] = G(s \ {Choice(s)})[s \ {Choice(s)}]
      BY <1>3, <3>2
    <3> QED
      BY <2>2, <3>3
  <2> QED
    BY <2>1, <2>2
<1>5. r = [s \in SUBSET m |-> IF s = {} THEN 0 ELSE Value(f, Choice(s)) + r[s \ {Choice(s)}]]
  <2>1. r = [s \in SUBSET m |-> r[s]]
    OBVIOUS
  <2> HIDE DEF r
  <2> QED
    BY <1>4, <2>1
<1>6. Sums(r, f, m)
  <2> HIDE DEF r
  <2> QED
    BY <1>5 DEF Sums
<1> QED
  BY <1>1, <1>6

(* The total of a set is what such a function says.                        *)
LEMMA TotalIs ==
  ASSUME NEW f, NEW S
  PROVE  Total(f, S) = (CHOOSE g : Sums(g, f, S))[S]
BY DEF Total, MapThenSumSet, MapThenFoldSet, Sums, Value, Choice

Numbers(f, S) == \A x \in S : Value(f, x) \in Nat

(* The total of a set is its choice's value and the total of the rest.     *)
LEMMA TotalStep ==
  ASSUME NEW f, NEW S, IsFiniteSet(S)
  PROVE  Total(f, S) = IF S = {} THEN 0 ELSE Value(f, Choice(S)) + Total(f, S \ {Choice(S)})
<1> DEFINE g == CHOOSE h : Sums(h, f, S)
<1>1. Sums(g, f, S)
  BY SumsExist
<1>2. Total(f, S) = g[S]
  BY TotalIs
<1> DEFINE T == S \ {Choice(S)}
<1> DEFINE k == CHOOSE h : Sums(h, f, T)
<1>3. Sums(k, f, T)
  BY SumsExist, FS_RemoveElement
<1>4. Total(f, T) = k[T]
  BY TotalIs
<1> HIDE DEF g, k
<1>5. g[T] = k[T]
  BY <1>1, <1>3, SumsAgree
<1>6. g[S] = IF S = {} THEN 0 ELSE Value(f, Choice(S)) + g[T]
  <2>1. S \in SUBSET S
    OBVIOUS
  <2> QED
    BY <1>1, <2>1 DEF Sums
<1> QED
  BY <1>2, <1>4, <1>5, <1>6

(* A total is a number.                                                    *)
LEMMA TotalType ==
  ASSUME NEW f, NEW S, IsFiniteSet(S), Numbers(f, S)
  PROVE  Total(f, S) \in Nat
<1> DEFINE C == {s \in SUBSET S : Total(f, s) \notin Nat}
<1> SUFFICES ASSUME C # {} PROVE FALSE
  OBVIOUS
<1>1. PICK m \in C : \A c \in C : c \subseteq m => c = m
  <2>1. C \subseteq SUBSET S
    OBVIOUS
  <2> HIDE DEF C
  <2> QED
    BY <2>1, SmallestSet
<1>2. Total(f, m) = IF m = {} THEN 0 ELSE Value(f, Choice(m)) + Total(f, m \ {Choice(m)})
  BY TotalStep, FS_Subset
<1>3. m # {} /\ Choice(m) \in m
  BY <1>2 DEF Choice
<1>4. Total(f, m \ {Choice(m)}) \in Nat
  BY <1>1, <1>3
<1>5. Value(f, Choice(m)) \in Nat
  BY <1>3 DEF Numbers
<1> QED
  BY <1>2, <1>3, <1>4, <1>5

(* Any element can be taken first.                                         *)
LEMMA TotalRemove ==
  ASSUME NEW f, NEW S, IsFiniteSet(S), Numbers(f, S), NEW x \in S
  PROVE  Total(f, S) = Value(f, x) + Total(f, S \ {x})
<1> DEFINE C == {s \in SUBSET S : \E y \in s : Total(f, s) # Value(f, y) + Total(f, s \ {y})}
<1> SUFFICES ASSUME C # {} PROVE FALSE
  OBVIOUS
<1>1. PICK m \in C : \A c \in C : c \subseteq m => c = m
  <2>1. C \subseteq SUBSET S
    OBVIOUS
  <2> HIDE DEF C
  <2> QED
    BY <2>1, SmallestSet
<1>2. PICK y \in m : Total(f, m) # Value(f, y) + Total(f, m \ {y})
  OBVIOUS
<1> DEFINE z == Choice(m)
<1> DEFINE n == m \ {y}
<1> DEFINE k == m \ {z}
<1>3. z \in m
  BY DEF Choice
<1>4. /\ Total(f, m) = Value(f, z) + Total(f, k)
      /\ z # y
  <2>1. Total(f, m) = Value(f, z) + Total(f, k)
    BY TotalStep, FS_Subset
  <2> QED
    BY <1>2, <2>1
<1>5. Total(f, n) = Value(f, z) + Total(f, n \ {z})
  <2>1. n \in SUBSET S /\ n \subseteq m /\ n # m /\ z \in n
    BY <1>3, <1>4
  <2> QED
    BY <1>1, <2>1
<1>6. Total(f, k) = Value(f, y) + Total(f, k \ {y})
  <2>1. k \in SUBSET S /\ k \subseteq m /\ k # m /\ y \in k
    BY <1>3, <1>4
  <2> QED
    BY <1>1, <2>1
<1>7. n \ {z} = k \ {y}
  OBVIOUS
<1>8. Value(f, z) \in Nat /\ Value(f, y) \in Nat /\ Total(f, k \ {y}) \in Nat
  <2>1. z \in S /\ y \in S /\ k \ {y} \in SUBSET S
    BY <1>3
  <2>2. IsFiniteSet(k \ {y}) /\ Numbers(f, k \ {y})
    BY <2>1, FS_Subset DEF Numbers
  <2> QED
    BY <2>1, <2>2, TotalType DEF Numbers
<1> HIDE DEF z, n, k
<1> QED
  BY <1>2, <1>4, <1>5, <1>6, <1>7, <1>8 DEF n

(* A total of nothing, and of one element.                                 *)
LEMMA TotalOne ==
  ASSUME NEW f
  PROVE  /\ Total(f, {}) = 0
         /\ \A x : Value(f, x) \in Nat => Total(f, {x}) = Value(f, x)
<1>1. Total(f, {}) = 0
  BY TotalStep, FS_EmptySet
<1>2. ASSUME NEW x, Value(f, x) \in Nat
      PROVE  Total(f, {x}) = Value(f, x)
  <2>1. IsFiniteSet({x}) /\ Numbers(f, {x}) /\ {x} \ {x} = {}
    BY <1>2, FS_Singleton DEF Numbers
  <2>2. Total(f, {x}) = Value(f, x) + Total(f, {x} \ {x})
    BY <2>1, TotalRemove
  <2> QED
    BY <1>1, <1>2, <2>1, <2>2
<1> QED
  BY <1>1, <1>2

(* Larger values have the larger total, and equal ones the same.           *)
LEMMA TotalMonotone ==
  ASSUME NEW S, IsFiniteSet(S), NEW f, NEW g, Numbers(f, S), Numbers(g, S),
         \A x \in S : Value(f, x) <= Value(g, x)
  PROVE  Total(f, S) <= Total(g, S)
<1> DEFINE C == {s \in SUBSET S : ~(Total(f, s) <= Total(g, s))}
<1> SUFFICES ASSUME C # {} PROVE FALSE
  OBVIOUS
<1>1. PICK m \in C : \A c \in C : c \subseteq m => c = m
  <2>1. C \subseteq SUBSET S
    OBVIOUS
  <2> HIDE DEF C
  <2> QED
    BY <2>1, SmallestSet
<1>2. m \in SUBSET S /\ IsFiniteSet(m) /\ Numbers(f, m) /\ Numbers(g, m)
  BY FS_Subset DEF Numbers
<1>3. m # {}
  BY TotalOne
<1>4. PICK x \in m : TRUE
  BY <1>3
<1> DEFINE n == m \ {x}
<1>5. IsFiniteSet(n) /\ Numbers(f, n) /\ Numbers(g, n) /\ n \in SUBSET S /\ n \subseteq m /\ n # m
  BY <1>2, FS_RemoveElement DEF Numbers
<1>6. Total(f, n) \in Nat /\ Total(g, n) \in Nat /\ Total(f, n) <= Total(g, n)
  BY <1>1, <1>5, TotalType
<1>7. /\ Total(f, m) = Value(f, x) + Total(f, n)
      /\ Total(g, m) = Value(g, x) + Total(g, n)
  BY <1>2, TotalRemove
<1>8. x \in S /\ Value(f, x) \in Nat /\ Value(g, x) \in Nat /\ Value(f, x) <= Value(g, x)
  BY DEF Numbers
<1>9. ~(Total(f, m) <= Total(g, m))
  OBVIOUS
<1> QED
  BY <1>6, <1>7, <1>8, <1>9

(* A sum depends on its values only.                                     *)
LEMMA TotalSame ==
  ASSUME NEW S, IsFiniteSet(S), NEW f, NEW g, Numbers(f, S), Numbers(g, S),
         \A x \in S : Value(f, x) = Value(g, x)
  PROVE  Total(f, S) = Total(g, S)
<1>1. \A x \in S : Value(f, x) <= Value(g, x) /\ Value(g, x) <= Value(f, x)
  BY DEF Numbers
<1>2. Total(f, S) <= Total(g, S) /\ Total(g, S) <= Total(f, S)
  BY <1>1, TotalMonotone
<1> QED
  BY <1>2, TotalType

(* One value changes by n.                                                 *)
LEMMA TotalChange ==
  ASSUME NEW S, IsFiniteSet(S), NEW f, NEW g, Numbers(f, S), Numbers(g, S), NEW x \in S,
         \A y \in S : y # x => Value(f, y) = Value(g, y)
  PROVE  Total(g, S) = Total(f, S) + (Value(g, x) - Value(f, x))
<1> DEFINE n == S \ {x}
<1>1. IsFiniteSet(n) /\ Numbers(f, n) /\ Numbers(g, n)
  BY FS_RemoveElement DEF Numbers
<1>2. Total(f, n) = Total(g, n)
  BY <1>1, TotalSame
<1>3. Total(f, n) \in Nat /\ Value(f, x) \in Nat /\ Value(g, x) \in Nat
  BY <1>1, TotalType DEF Numbers
<1>4. Total(f, S) = Value(f, x) + Total(f, n) /\ Total(g, S) = Value(g, x) + Total(g, n)
  BY TotalRemove
<1> HIDE DEF n
<1> QED
  BY <1>2, <1>3, <1>4

(* The same of two functions that differ by n at x.                        *)
LEMMA TotalAdd ==
  ASSUME NEW S, IsFiniteSet(S), NEW f, NEW g, Numbers(f, S), Numbers(g, S), NEW n \in Nat
  PROVE  \A x \in S : /\ Value(g, x) = Value(f, x) + n
                      /\ \A y \in S : y # x => Value(g, y) = Value(f, y)
                      => Total(g, S) = Total(f, S) + n
<1> SUFFICES ASSUME NEW x \in S, Value(g, x) = Value(f, x) + n,
                    \A y \in S : y # x => Value(g, y) = Value(f, y)
             PROVE  Total(g, S) = Total(f, S) + n
  OBVIOUS
<1>1. \A y \in S : y # x => Value(f, y) = Value(g, y)
  OBVIOUS
<1>2. Total(g, S) = Total(f, S) + (Value(g, x) - Value(f, x))
  BY <1>1, TotalChange
<1>3. Value(f, x) \in Nat /\ Total(f, S) \in Nat
  BY TotalType DEF Numbers
<1> QED
  BY <1>2, <1>3

(* A part of a set, and a single element, count no more than the whole.    *)
LEMMA TotalPart ==
  ASSUME NEW S, IsFiniteSet(S), NEW f, Numbers(f, S), NEW T, T \subseteq S
  PROVE  Total(f, T) <= Total(f, S)
<1> DEFINE C == {s \in SUBSET S : T \subseteq s /\ ~(Total(f, T) <= Total(f, s))}
<1> SUFFICES ASSUME C # {} PROVE FALSE
  OBVIOUS
<1>1. PICK m \in C : \A c \in C : c \subseteq m => c = m
  <2>1. C \subseteq SUBSET S
    OBVIOUS
  <2> HIDE DEF C
  <2> QED
    BY <2>1, SmallestSet
<1>2. IsFiniteSet(m) /\ Numbers(f, m) /\ IsFiniteSet(T) /\ Numbers(f, T)
  BY FS_Subset DEF Numbers
<1>3. Total(f, T) \in Nat
  BY <1>2, TotalType
<1>4. PICK x \in m : x \notin T
  BY <1>3
<1> DEFINE n == m \ {x}
<1>5. IsFiniteSet(n) /\ Numbers(f, n) /\ n \in SUBSET S /\ n \subseteq m /\ n # m /\ T \subseteq n
  BY <1>2, <1>4, FS_RemoveElement DEF Numbers
<1>6. Total(f, n) \in Nat /\ Total(f, T) <= Total(f, n)
  BY <1>1, <1>5, TotalType
<1>7. Total(f, m) = Value(f, x) + Total(f, n) /\ Value(f, x) \in Nat
  BY <1>2, TotalRemove DEF Numbers
<1>8. ~(Total(f, T) <= Total(f, m))
  OBVIOUS
<1> QED
  BY <1>3, <1>6, <1>7, <1>8

(* No part of a sum exceeds it.                                          *)
LEMMA TotalHolds ==
  ASSUME NEW S, IsFiniteSet(S), NEW f, Numbers(f, S), NEW x \in S
  PROVE  Value(f, x) <= Total(f, S)
<1>1. Total(f, {x}) = Value(f, x)
  BY TotalOne DEF Numbers
<1>2. Total(f, {x}) <= Total(f, S)
  BY TotalPart
<1> QED
  BY <1>1, <1>2

-----------------------------------------------------------------------------
(* The calendar.                                                           *)

(* A quotient, rounded down.                                             *)
LEMMA Division ==
  ASSUME NEW a \in Int, NEW k \in Nat \ {0}
  PROVE  /\ a \div k \in Int
         /\ k * (a \div k) <= a /\ a < k * ((a \div k) + 1)
OBVIOUS

(* Division keeps the order.                                             *)
LEMMA DivisionOrder ==
  ASSUME NEW a \in Int, NEW b \in Int, NEW k \in Nat \ {0}, a <= b
  PROVE  a \div k <= b \div k
<1> DEFINE q == a \div k
           r == b \div k
<1>1. q \in Int /\ r \in Int /\ k * q <= a /\ b < k * (r + 1)
  BY Division
<1> HIDE DEF q, r
<1>2. k * q < k * (r + 1)
  BY <1>1
<1>3. ASSUME r + 1 <= q PROVE FALSE
  <2>1. PICK e \in Nat : q = r + 1 + e
    <3>1. q - (r + 1) \in Nat /\ q = r + 1 + (q - (r + 1))
      BY <1>1, <1>3
    <3> QED
      BY <3>1
  <2>2. k * q = k * (r + 1) + k * e
    BY <1>1, <2>1
  <2>3. k * e \in Nat /\ k * (r + 1) \in Int
    BY <1>1
  <2> QED
    BY <1>2, <2>2, <2>3
<1>4. q <= r
  BY <1>1, <1>3
<1> QED
  BY <1>4 DEF q, r

(* The assumption on the constants, fact by fact.                        *)
LEMMA Params ==
  /\ IsFiniteSet(Requests) /\ DayTicks \in Nat \ {0} /\ MonthDays \in Nat \ {0} /\ WeekDays \in Nat \ {0}
  /\ Retain \in Nat /\ Retain > 1
  /\ Skew \in Int /\ Skew > -DayTicks /\ Skew < DayTicks
  /\ MaxTick \in Nat /\ MaxSpent \in Nat
BY UsageAssumption

(* The dates of the model, and the order that days, months and local days  *)
(* keep.                                                                   *)
LEMMA Dates ==
  /\ Ticks \subseteq Nat /\ Days \subseteq Nat /\ IsFiniteSet(Ticks) /\ IsFiniteSet(Days)
  /\ \A t \in Ticks : UtcDay(t) \in Days /\ LocalDay(t) \in Int
  /\ \A d \in Days : Month(d) \in Months
  /\ None \notin Months /\ Months \subseteq Nat
<1>1. Ticks \subseteq Nat /\ IsFiniteSet(Ticks)
  BY Params, FS_Interval DEF Ticks
<1>2. ASSUME NEW t \in Ticks
      PROVE  UtcDay(t) \in Int /\ 0 <= UtcDay(t) /\ UtcDay(t) <= UtcDay(MaxTick)
  <2>1. t \in Int /\ 0 <= t /\ t <= MaxTick
    BY Params DEF Ticks
  <2>2. 0 \div DayTicks <= t \div DayTicks /\ t \div DayTicks <= MaxTick \div DayTicks
    BY <2>1, Params, DivisionOrder
  <2>3. t \div DayTicks \in Int
    BY <2>1, Params, Division
  <2>4. 0 \div DayTicks = 0
    BY Params
  <2> QED
    BY <2>2, <2>3, <2>4 DEF UtcDay
<1>3. UtcDay(MaxTick) \in Nat
  <2>1. MaxTick \in Ticks
    BY Params DEF Ticks
  <2> QED
    BY <1>2, <2>1
<1>4. Days \subseteq Nat /\ IsFiniteSet(Days)
  BY <1>3, FS_Interval DEF Days
<1>5. ASSUME NEW t \in Ticks
      PROVE  UtcDay(t) \in Days /\ LocalDay(t) \in Int
  <2>1. t + Skew \in Int
    BY <1>1, Params
  <2> QED
    BY <1>2, <1>3, <2>1, Params, Division DEF Days, LocalDay
<1>6. ASSUME NEW d \in Nat, d <= UtcDay(MaxTick)
      PROVE  Month(d) \in Int /\ 0 <= Month(d) /\ Month(d) <= Month(UtcDay(MaxTick))
  <2>1. 0 \div MonthDays <= d \div MonthDays /\ d \div MonthDays <= UtcDay(MaxTick) \div MonthDays
    BY <1>3, <1>6, Params, DivisionOrder
  <2>2. d \div MonthDays \in Int /\ 0 \div MonthDays = 0
    BY Params, Division
  <2> QED
    BY <2>1, <2>2 DEF Month
<1>7. Month(UtcDay(MaxTick)) \in Nat
  BY <1>3, <1>6
<1>8. ASSUME NEW d \in Days
      PROVE  Month(d) \in Months
  BY <1>3, <1>6, <1>7 DEF Days, Months
<1>9. None \notin Months /\ Months \subseteq Nat
  BY <1>7 DEF None, Months
<1> QED
  BY <1>1, <1>4, <1>5, <1>8, <1>9

(* A later day is in no earlier month.                                   *)
LEMMA MonthOrder ==
  ASSUME NEW d \in Int, NEW e \in Int, d <= e
  PROVE  Month(d) \in Int /\ Month(e) \in Int /\ Month(d) <= Month(e)
BY Params, Division, DivisionOrder DEF Month

(* A later tick is on no earlier day.                                    *)
LEMMA DayOrder ==
  ASSUME NEW t \in Nat, NEW u \in Nat, t <= u
  PROVE  UtcDay(t) <= UtcDay(u) /\ LocalDay(t) <= LocalDay(u)
<1>1. t + Skew \in Int /\ u + Skew \in Int /\ t + Skew <= u + Skew
  BY Params
<1> QED
  BY <1>1, Params, DivisionOrder DEF UtcDay, LocalDay

(* A local clock behind UTC is on no later day.                          *)
LEMMA LocalBehind ==
  ASSUME Skew <= 0, NEW t \in Nat
  PROVE  LocalDay(t) <= UtcDay(t)
<1>1. t + Skew \in Int /\ t + Skew <= t /\ t \in Int
  BY Params
<1> QED
  BY <1>1, Params, DivisionOrder DEF UtcDay, LocalDay

(* What is deleted is of a day that is over in local time as well.         *)
LEMMA DeletedOver ==
  ASSUME NEW t \in Nat, NEW u \in Nat, u < t - Retain * DayTicks
  PROVE  UtcDay(u) < LocalDay(t)
<1> DEFINE q == u \div DayTicks
           r == (t + Skew) \div DayTicks
<1>1. q \in Int /\ DayTicks * q <= u
  BY Params, Division
<1>2. r \in Int /\ t + Skew < DayTicks * (r + 1)
  <2>1. t + Skew \in Int
    BY Params
  <2> QED
    BY <2>1, Params, Division
<1>3. Retain * DayTicks >= 2 * DayTicks
  <2>1. PICK e \in Nat : Retain = 2 + e
    <3>1. Retain - 2 \in Nat /\ Retain = 2 + (Retain - 2)
      BY Params
    <3> QED
      BY <3>1
  <2>2. Retain * DayTicks = 2 * DayTicks + e * DayTicks
    BY <2>1, Params
  <2>3. e * DayTicks \in Nat
    BY <2>1, Params
  <2> QED
    BY <2>2, <2>3, Params
<1> HIDE DEF q, r
<1>4. DayTicks * q + DayTicks < DayTicks * (r + 1)
  <2>1. Retain * DayTicks \in Nat /\ DayTicks * q \in Int /\ DayTicks * (r + 1) \in Int
    BY <1>1, <1>2, Params
  <2> QED
    BY <1>1, <1>2, <1>3, <2>1, Params
<1>5. ASSUME r <= q PROVE FALSE
  <2>1. PICK e \in Nat : q = r + e
    <3>1. q - r \in Nat /\ q = r + (q - r)
      BY <1>1, <1>2, <1>5
    <3> QED
      BY <3>1
  <2>2. DayTicks * q + DayTicks = DayTicks * (r + 1) + DayTicks * e
    BY <1>2, <2>1, Params
  <2>3. DayTicks * e \in Nat /\ DayTicks * (r + 1) \in Int
    BY <1>2, <2>1, Params
  <2> QED
    BY <1>4, <2>2, <2>3
<1> QED
  BY <1>1, <1>2, <1>5 DEF q, r, UtcDay, LocalDay

(* What is summed up is a finite part of the tables.                     *)
LEMMA Parts ==
  /\ \A d : TicksOf(d) \subseteq Ticks /\ IsFiniteSet(TicksOf(d))
  /\ \A m : DaysOf(m) \subseteq Days /\ IsFiniteSet(DaysOf(m))
  /\ \A w : DaysOfWeek(w) \subseteq Days /\ IsFiniteSet(DaysOfWeek(w))
BY Dates, FS_Subset DEF TicksOf, DaysOf, DaysOfWeek

(* Zeros sum up to zero.                                                 *)
LEMMA TotalZero ==
  ASSUME NEW S, IsFiniteSet(S), NEW f, \A x \in S : Value(f, x) = 0
  PROVE  Total(f, S) = 0
<1>1. Numbers(f, S)
  BY DEF Numbers
<1> DEFINE C == {s \in SUBSET S : Total(f, s) # 0}
<1> SUFFICES ASSUME C # {} PROVE FALSE
  OBVIOUS
<1>2. PICK m \in C : \A c \in C : c \subseteq m => c = m
  <2>1. C \subseteq SUBSET S
    OBVIOUS
  <2> HIDE DEF C
  <2> QED
    BY <2>1, SmallestSet
<1>3. IsFiniteSet(m) /\ Numbers(f, m) /\ m # {}
  BY <1>1, FS_Subset, TotalOne DEF Numbers
<1>4. PICK x \in m : TRUE
  BY <1>3
<1>5. Total(f, m) = Value(f, x) + Total(f, m \ {x})
  BY <1>3, TotalRemove
<1>6. Total(f, m \ {x}) = 0
  BY <1>2
<1> QED
  BY <1>5, <1>6

(* A nonempty set of numbers has a least one, which is its Min.            *)
LEMMA LeastNumber == ASSUME NEW S, S \subseteq Nat, S # {} PROVE Min(S) \in S
<1>1. IsWellFoundedOn(OpToRel(<, Nat), Nat)
  BY NatLessThanWellFounded
<1>2. PICK m \in S : \A n \in S : ~(<<n, m>> \in OpToRel(<, Nat))
  BY <1>1, WFMin
<1>3. ASSUME NEW n \in S PROVE m <= n
  <2>1. <<n, m>> \in Nat \X Nat
    OBVIOUS
  <2>2. ~(n < m)
    BY <1>2, <2>1 DEF OpToRel
  <2> QED
    BY <2>2
<1> QED
  BY <1>3 DEF Min

-----------------------------------------------------------------------------
(* TokenUsage                                                              *)

UsageSteps == {"idle", "forward", "monthly"}
Request == [at : UsageSteps, month : Months \cup {None}, n : {0, 1}]
Maintenance == [at : {"idle", "daily", "monthly", "delete"}, dates : SUBSET Days, day : Int, month : Int]
Today == UtcDay(now)
LocalToday == LocalDay(now)
Posting(m) == {r \in Requests : req[r].n = 1 /\ req[r].month = m}
Forwarded == {r \in Requests : req[r].at = "forward"}

(* What every table holds, in numbers without a bound.                     *)
Tables ==
  /\ now \in Ticks /\ limits \in LimitRows
  /\ req \in [Requests -> Request]
  /\ \A r \in Requests : /\ req[r].at = "monthly" => req[r].month \in Months
                         /\ req[r].at # "monthly" => req[r].n = 0
  /\ logs \in [Ticks -> Nat \cup {None}]
  /\ \A t \in Ticks : logs[t] # None => t <= now
  /\ daily \in [Days -> Nat \cup {None}]
  /\ weekly \in [Weeks -> Nat \cup {None}]
  /\ monthly \in [Months -> Nat \cup {None}]
  /\ spent \in [Days -> Nat]
  /\ maint \in Maintenance

(* Nothing is spent in days to come, and no weekly total exceeds all.      *)
SpentOK ==
  /\ Total(spent, Days) <= MaxSpent
  /\ \A d \in Days : d > Today => spent[d] = 0
  /\ \A w \in Weeks : Value(weekly, w) <= MaxSpent

(* The raw rows of a day hold what was spent on it for as long as the day  *)
(* can still be folded.                                                    *)
RowsOK ==
  /\ \A d \in Days : Total(logs, TicksOf(d)) <= spent[d]
  /\ \A d \in Days : daily[d] = None /\ d >= LocalToday - Retain
                      => Total(logs, TicksOf(d)) = spent[d]

(* Only a day that is over is folded.                                      *)
FoldedOK == \A d \in Days : daily[d] # None => daily[d] = spent[d] /\ d < LocalToday

(* Dates that maintenance folds, and those it has still to fold.           *)
Foldable(day) == {d \in Days : day - Retain <= d /\ d < day}
Unfolded(d) == daily[d] = None /\ \E t \in TicksOf(d) : logs[t] # None

MaintOK ==
  /\ maint.at # "idle" => maint.day = LocalToday
  /\ maint.at = "daily" => /\ maint.dates \subseteq {d \in Foldable(LocalToday) : daily[d] = None}
                           /\ \A d \in Foldable(LocalToday) : Unfolded(d) => d \in maint.dates
  /\ maint.at \in {"monthly", "delete"} => \A d \in Foldable(LocalToday) : ~Unfolded(d)
  /\ maint.at = "monthly" => maint.month < Month(LocalToday)

(* The running total of a month, and how far finalizing it can put it out. *)
MonthsOK ==
  \A m \in Months :
    /\ m >= Month(Today) => Value(monthly, m) = SpentIn(m) - Cardinality(Posting(m))
    /\ Value(monthly, m) + Cardinality(Posting(m)) <= 2 * SpentIn(m)
    /\ Cardinality(Posting(m)) <= SpentIn(m)

(* A request that the check let through takes a place under the limit.     *)
SpentFor(l) == IF l.scope = "monthly" THEN SpentIn(Month(Today)) ELSE spent[Today]
PlacesOK ==
  \A l \in limits :
    (l.action = "block" /\ l.tokens # 0 /\ \A k \in limits : k.action = "block")
    => SpentFor(l) + Cardinality(Forwarded) <= l.tokens - 1 + Cardinality(Requests)

UsageInv == Tables /\ SpentOK /\ RowsOK /\ FoldedOK /\ MaintOK /\ MonthsOK /\ PlacesOK

(* The tables hold numbers, in every part of them.                       *)
LEMMA AllNumbers ==
  ASSUME Tables
  PROVE  /\ Numbers(logs, Ticks) /\ Numbers(spent, Days) /\ Numbers(daily, Days)
         /\ Numbers(weekly, Weeks) /\ Numbers(monthly, Months)
         /\ \A d : Numbers(logs, TicksOf(d))
         /\ \A m : Numbers(spent, DaysOf(m)) /\ Numbers(daily, DaysOf(m))
         /\ \A w : Numbers(spent, DaysOfWeek(w)) /\ Numbers(daily, DaysOfWeek(w))
<1>1. /\ Numbers(logs, Ticks) /\ Numbers(spent, Days) /\ Numbers(daily, Days)
      /\ Numbers(weekly, Weeks) /\ Numbers(monthly, Months)
  BY DEF Tables, Numbers, Value, None
<1> QED
  BY <1>1, Parts DEF Numbers

(* Their sums are numbers.                                               *)
LEMMA AllTotals ==
  ASSUME Tables
  PROVE  /\ Total(spent, Days) \in Nat
         /\ \A d : Total(logs, TicksOf(d)) \in Nat
         /\ \A m : SpentIn(m) \in Nat /\ Total(daily, DaysOf(m)) \in Nat
         /\ \A w : Total(daily, DaysOfWeek(w)) \in Nat
BY AllNumbers, Parts, Dates, TotalType DEF SpentIn

(* The dates of the present.                                             *)
LEMMA NowDates ==
  ASSUME Tables
  PROVE  /\ now \in Nat /\ Today \in Days /\ Today \in Nat /\ LocalToday \in Int
         /\ Month(Today) \in Months /\ Month(Today) \in Nat
         /\ Skew <= 0 => LocalToday <= Today
BY Dates, LocalBehind DEF Tables, Today, LocalToday

(* Every step keeps what the tables hold.                                  *)
LEMMA TablesStep ==
  ASSUME Tables, MaintOK, [UsageNext]_usageVars
  PROVE  Tables'
<1> USE DEF Tables, Request, UsageSteps
<1>1. ASSUME NEW r \in Requests, Check(r)
      PROVE  Tables'
  <2>1. logs' \in [Ticks -> Nat \cup {None}] /\ \A t \in Ticks : logs'[t] # None => t <= now
    <3>1. logs' = logs \/ logs' = [logs EXCEPT ![now] = 0]
      BY <1>1 DEF Check
    <3> QED
      BY <3>1, NowDates
  <2>2. req' = req \/ (req[r].at = "idle" /\ req' = [req EXCEPT ![r].at = "forward"])
    BY <1>1 DEF Check
  <2>3. UNCHANGED <<now, limits, daily, weekly, monthly, maint, spent>>
    BY <1>1 DEF Check
  <2> QED
    BY <2>1, <2>2, <2>3
<1>2. ASSUME NEW r \in Requests, InsertLog(r)
      PROVE  Tables'
  <2>1. UNCHANGED <<now, limits, daily, weekly, monthly, maint>>
    BY <1>2 DEF InsertLog
  <2>2. CASE req' = [req EXCEPT ![r] = Idle] /\ UNCHANGED <<logs, spent>>
    BY <2>1, <2>2 DEF Idle
  <2>3. ASSUME NEW n \in Extracted,
               logs' = [logs EXCEPT ![now] = (IF @ = None THEN 0 ELSE @) + n],
               spent' = [spent EXCEPT ![UtcDay(now)] = @ + n],
               req' = [req EXCEPT ![r] = [at |-> "monthly", month |-> Month(UtcDay(now)), n |-> n]]
        PROVE  Tables'
    <3>1. n \in {0, 1} /\ n \in Nat
      BY DEF Extracted
    <3>2. spent' \in [Days -> Nat]
      BY <2>3, <3>1, NowDates DEF Today
    <3>3. logs' \in [Ticks -> Nat \cup {None}] /\ \A t \in Ticks : logs'[t] # None => t <= now
      <4>1. (IF logs[now] = None THEN 0 ELSE logs[now]) + n \in Nat
        BY <3>1
      <4> QED
        BY <2>3, <4>1, NowDates
    <3>4. Month(UtcDay(now)) \in Months
      BY NowDates DEF Today
    <3>5. req' \in [Requests -> Request]
      BY <2>3, <3>1, <3>4
    <3>6. \A q \in Requests : /\ req'[q].at = "monthly" => req'[q].month \in Months
                              /\ req'[q].at # "monthly" => req'[q].n = 0
      BY <2>3, <3>4
    <3> QED
      BY <2>1, <3>2, <3>3, <3>5, <3>6
  <2> QED
    BY <1>2, <2>2, <2>3 DEF InsertLog
<1>3. ASSUME NEW r \in Requests, UpsertMonthly(r)
      PROVE  Tables'
  <2>1. req[r].n \in Nat /\ req[r].month \in Months
    BY <1>3 DEF UpsertMonthly
  <2>2. monthly' \in [Months -> Nat \cup {None}]
    BY <1>3, <2>1 DEF UpsertMonthly
  <2>3. /\ req' = [req EXCEPT ![r] = Idle]
        /\ UNCHANGED <<now, limits, logs, daily, weekly, maint, spent>>
    BY <1>3 DEF UpsertMonthly
  <2> QED
    BY <2>2, <2>3 DEF Idle
<1>4. CASE MaintainStart
  <2>1. maint' \in Maintenance
    BY <1>4, NowDates DEF MaintainStart, Maintenance, LocalToday, None
  <2> QED
    BY <1>4, <2>1 DEF MaintainStart
<1>5. CASE MaintainDaily
  <2>1. maint.dates \subseteq Days /\ Min(maint.dates) \in Days
    BY <1>5, Dates, LeastNumber DEF MaintainDaily, Maintenance
  <2>2. daily' \in [Days -> Nat \cup {None}]
    BY <1>5, <2>1, AllTotals DEF MaintainDaily
  <2>3. maint' \in Maintenance
    BY <1>5 DEF MaintainDaily, Maintenance
  <2> QED
    BY <1>5, <2>2, <2>3 DEF MaintainDaily
<1>6. CASE MaintainWeekly
  <2>1. weekly' \in [Weeks -> Nat \cup {None}]
    BY <1>6, AllTotals DEF MaintainWeekly
  <2>2. Month(maint.day) - 1 \in Int
    BY MonthOrder DEF Maintenance
  <2>3. maint' \in Maintenance
    BY <1>6, <2>2 DEF MaintainWeekly, Maintenance
  <2> QED
    BY <1>6, <2>1, <2>3 DEF MaintainWeekly
<1>7. CASE MaintainMonthly
  <2>1. monthly' \in [Months -> Nat \cup {None}]
    BY <1>7, AllTotals DEF MaintainMonthly
  <2>2. maint' \in Maintenance
    <3> DEFINE a == IF maint.month = Month(maint.day) - 2 THEN "delete" ELSE maint.at
    <3>1. maint.month - 1 \in Int /\ a \in {"idle", "daily", "monthly", "delete"}
      BY DEF Maintenance
    <3>2. maint' = [maint EXCEPT !.at = a, !.month = maint.month - 1]
      BY <1>7 DEF MaintainMonthly
    <3> HIDE DEF a
    <3> QED
      BY <3>1, <3>2 DEF Maintenance
  <2> QED
    BY <1>7, <2>1, <2>2 DEF MaintainMonthly
<1>8. CASE MaintainDelete
  <2>1. maint' \in Maintenance
    BY <1>8 DEF MaintainDelete, Maintenance, Resting, None
  <2>2. /\ logs' \in [Ticks -> Nat \cup {None}]
        /\ \A t \in Ticks : logs'[t] # None => t <= now
    BY <1>8 DEF MaintainDelete
  <2> QED
    BY <1>8, <2>1, <2>2 DEF MaintainDelete
<1>9. CASE Tick
  <2>1. now' = now + 1 /\ now' \in Ticks
    BY <1>9, NowDates, Params DEF Tick, Ticks
  <2>2. \A t \in Ticks : logs'[t] # None => t <= now'
    BY <1>9, <2>1, NowDates, Dates DEF Tick
  <2> QED
    BY <1>9, <2>1, <2>2 DEF Tick
<1>10. CASE UNCHANGED usageVars
  BY <1>10 DEF usageVars
<1> QED
  BY <1>1, <1>2, <1>3, <1>4, <1>5, <1>6, <1>7, <1>8, <1>9, <1>10 DEF UsageNext

(* What does not touch an invariant's tables keeps it.                     *)
LEMMA Frames ==
  /\ SpentOK /\ UNCHANGED <<now, weekly, spent>> => SpentOK'
  /\ RowsOK /\ UNCHANGED <<now, logs, daily, spent>> => RowsOK'
  /\ FoldedOK /\ UNCHANGED <<now, daily, spent>> => FoldedOK'
  /\ MonthsOK /\ UNCHANGED <<now, monthly, req, spent>> => MonthsOK'
  /\ PlacesOK /\ UNCHANGED <<now, limits, req, spent>> => PlacesOK'
<1>1. SpentOK /\ UNCHANGED <<now, weekly, spent>> => SpentOK'
  BY DEF SpentOK, Today, Value
<1>2. RowsOK /\ UNCHANGED <<now, logs, daily, spent>> => RowsOK'
  BY DEF RowsOK, LocalToday
<1>3. FoldedOK /\ UNCHANGED <<now, daily, spent>> => FoldedOK'
  BY DEF FoldedOK, LocalToday
<1>4. MonthsOK /\ UNCHANGED <<now, monthly, req, spent>> => MonthsOK'
  BY DEF MonthsOK, Today, Posting, SpentIn, Value
<1>5. PlacesOK /\ UNCHANGED <<now, limits, req, spent>> => PlacesOK'
  BY DEF PlacesOK, Today, Forwarded, SpentFor, SpentIn
<1> QED
  BY <1>1, <1>2, <1>3, <1>4, <1>5

(* Folding sums the days that are folded: never more than was spent.       *)
LEMMA FoldedSums ==
  ASSUME Tables, FoldedOK, NEW S, S \subseteq Days
  PROVE  Total(daily, S) <= Total(spent, S) /\ Total(spent, S) <= Total(spent, Days)
<1>1. IsFiniteSet(S) /\ Numbers(daily, S) /\ Numbers(spent, S)
  BY AllNumbers, Dates, FS_Subset DEF Numbers
<1>2. \A d \in S : Value(daily, d) <= Value(spent, d)
  BY DEF Value, FoldedOK, Tables, None
<1> QED
  BY <1>1, <1>2, TotalMonotone, TotalPart, AllNumbers, Dates

(* A row of n tokens: today's rows and what was spent today grow by n, and *)
(* nothing else.                                                           *)
LEMMA RowInserted ==
  ASSUME Tables, NEW n \in Nat,
         logs' = [logs EXCEPT ![now] = (IF @ = None THEN 0 ELSE @) + n],
         spent' = [spent EXCEPT ![UtcDay(now)] = @ + n]
  PROVE  /\ Total(spent', Days) = Total(spent, Days) + n
         /\ spent'[Today] = spent[Today] + n
         /\ \A d \in Days : d # Today => spent'[d] = spent[d]
         /\ \A d \in Days : Total(logs', TicksOf(d)) = Total(logs, TicksOf(d)) + (IF d = Today THEN n ELSE 0)
         /\ \A m : SpentIn(m)' = SpentIn(m) + (IF m = Month(Today) THEN n ELSE 0)
<1>1. /\ spent' \in [Days -> Nat] /\ spent'[Today] = spent[Today] + n
      /\ \A d \in Days : d # Today => spent'[d] = spent[d]
  BY NowDates DEF Tables, Today
<1>2. /\ logs' \in [Ticks -> Nat \cup {None}] /\ Value(logs', now) = Value(logs, now) + n
      /\ \A t \in Ticks : t # now => Value(logs', t) = Value(logs, t)
      /\ Value(logs, now) \in Nat
  <2>1. (IF logs[now] = None THEN 0 ELSE logs[now]) + n \in Nat
    BY DEF Tables
  <2> QED
    BY <2>1 DEF Tables, Value, None
<1>3. /\ Value(spent', Today) = Value(spent, Today) + n /\ Value(spent, Today) \in Nat
      /\ \A d \in Days : d # Today => Value(spent', d) = Value(spent, d)
  <2>1. spent[Today] \in Nat /\ spent[Today] # None /\ spent'[Today] # None
    BY <1>1, NowDates DEF Tables, None
  <2> QED
    BY <1>1, <2>1 DEF Value
<1>4. Numbers(spent', Days) /\ Numbers(logs', Ticks)
  BY <1>1, <1>2 DEF Numbers, Value, None
<1>5. Total(spent', Days) = Total(spent, Days) + n
  <2>1. IsFiniteSet(Days) /\ Numbers(spent, Days) /\ Today \in Days
    BY AllNumbers, NowDates, Dates
  <2> QED
    BY <1>3, <1>4, <2>1, TotalAdd
<1>6. ASSUME NEW d \in Days
      PROVE  Total(logs', TicksOf(d)) = Total(logs, TicksOf(d)) + (IF d = Today THEN n ELSE 0)
  <2>1. Numbers(logs', TicksOf(d)) /\ Numbers(logs, TicksOf(d)) /\ IsFiniteSet(TicksOf(d))
    BY <1>4, Parts, AllNumbers DEF Numbers
  <2>2. CASE d = Today
    <3>1. now \in TicksOf(d)
      BY <2>2 DEF TicksOf, Today, Tables
    <3>2. \A t \in TicksOf(d) : t # now => Value(logs', t) = Value(logs, t)
      BY <1>2, Parts
    <3>3. Total(logs', TicksOf(d)) = Total(logs, TicksOf(d)) + n
      <4>1. \A x \in TicksOf(d) : /\ Value(logs', x) = Value(logs, x) + n
                                  /\ \A y \in TicksOf(d) : y # x => Value(logs', y) = Value(logs, y)
                                  => Total(logs', TicksOf(d)) = Total(logs, TicksOf(d)) + n
        BY <2>1, TotalAdd
      <4> QED
        BY <1>2, <3>1, <3>2, <4>1
    <3> QED
      BY <2>2, <3>3
  <2>3. CASE d # Today
    <3>1. \A t \in TicksOf(d) : Value(logs', t) = Value(logs, t)
      BY <1>2, <2>3 DEF TicksOf, Today
    <3>2. Total(logs', TicksOf(d)) = Total(logs, TicksOf(d))
      BY <2>1, <3>1, TotalSame
    <3> QED
      BY <2>3, <3>2, AllTotals
  <2> QED
    BY <2>2, <2>3
<1>7. ASSUME NEW m
      PROVE  SpentIn(m)' = SpentIn(m) + (IF m = Month(Today) THEN n ELSE 0)
  <2>1. Numbers(spent', DaysOf(m)) /\ Numbers(spent, DaysOf(m)) /\ IsFiniteSet(DaysOf(m))
    BY <1>4, Parts, AllNumbers DEF Numbers
  <2>2. CASE m = Month(Today)
    <3>1. Today \in DaysOf(m)
      BY <2>2, NowDates DEF DaysOf
    <3>2. \A d \in DaysOf(m) : d # Today => Value(spent', d) = Value(spent, d)
      BY <1>3, Parts
    <3>3. Total(spent', DaysOf(m)) = Total(spent, DaysOf(m)) + n
      BY <1>3, <2>1, <3>1, <3>2, TotalAdd
    <3> QED
      BY <2>2, <3>3 DEF SpentIn
  <2>3. CASE m # Month(Today)
    <3>1. \A d \in DaysOf(m) : Value(spent', d) = Value(spent, d)
      BY <1>3, <2>3 DEF DaysOf
    <3>2. Total(spent', DaysOf(m)) = Total(spent, DaysOf(m))
      BY <2>1, <3>1, TotalSame
    <3> QED
      BY <2>3, <3>2, AllTotals DEF SpentIn
  <2> QED
    BY <2>2, <2>3
<1> QED
  BY <1>1, <1>5, <1>6, <1>7

(* What a response inserts, if anything.                                   *)
LEMMA Inserts ==
  ASSUME NEW r \in Requests, InsertLog(r)
  PROVE  \/ req' = [req EXCEPT ![r] = Idle] /\ UNCHANGED <<logs, spent>>
         \/ \E n \in {0, 1} :
               /\ Total(spent, Days) + n <= MaxSpent
               /\ logs' = [logs EXCEPT ![now] = (IF @ = None THEN 0 ELSE @) + n]
               /\ spent' = [spent EXCEPT ![UtcDay(now)] = @ + n]
               /\ req' = [req EXCEPT ![r] = [at |-> "monthly", month |-> Month(Today), n |-> n]]
BY DEF InsertLog, Extracted, Today

(* Time moves forward.                                                   *)
LEMMA TickOrder ==
  ASSUME Tables, Tick
  PROVE  /\ Today <= Today' /\ LocalToday <= LocalToday' /\ Today' \in Days /\ LocalToday' \in Int
         /\ Month(Today) <= Month(Today)' /\ Month(Today)' \in Int
<1>1. now \in Nat /\ now' = now + 1 /\ now' \in Nat /\ now <= now'
  BY NowDates DEF Tick
<1>2. now' \in Ticks
  BY <1>1, NowDates, Params DEF Tick, Ticks
<1>3. UtcDay(now) <= UtcDay(now') /\ LocalDay(now) <= LocalDay(now')
  BY <1>1, DayOrder
<1>4. UtcDay(now') \in Days /\ LocalDay(now') \in Int
  BY <1>2, Dates
<1>5. UtcDay(now) \in Int /\ UtcDay(now') \in Int
  <2>1. Days \subseteq Nat
    BY Dates
  <2>2. UtcDay(now) \in Days /\ UtcDay(now') \in Days
    BY <1>4, NowDates DEF Today
  <2>3. \A d \in Days : d \in Int
    BY <2>1
  <2> QED
    BY <2>2, <2>3
<1>6. Month(UtcDay(now)) <= Month(UtcDay(now')) /\ Month(UtcDay(now')) \in Int
  BY <1>3, <1>5, MonthOrder
<1> QED
  BY <1>3, <1>4, <1>6 DEF Today, LocalToday

(* Steps: nothing is spent, and no week is totalled, ahead of time.      *)
LEMMA SpentStep ==
  ASSUME Tables, Tables', SpentOK, FoldedOK, UsageNext
  PROVE  SpentOK'
<1> USE DEF SpentOK
<1>1. ASSUME NEW r \in Requests, InsertLog(r)
      PROVE  SpentOK'
  <2>1. UNCHANGED <<now, weekly>> /\ Today' = Today
    BY <1>1 DEF InsertLog, Today
  <2>2. CASE UNCHANGED spent
    BY <2>1, <2>2, Frames
  <2>3. ASSUME NEW n \in {0, 1}, Total(spent, Days) + n <= MaxSpent,
               logs' = [logs EXCEPT ![now] = (IF @ = None THEN 0 ELSE @) + n],
               spent' = [spent EXCEPT ![UtcDay(now)] = @ + n]
        PROVE  SpentOK'
    <3>1. Total(spent', Days) = Total(spent, Days) + n /\ \A d \in Days : d # Today => spent'[d] = spent[d]
      BY <2>3, RowInserted
    <3>2. \A d \in Days : d > Today => spent'[d] = 0
      BY <3>1, NowDates, Dates
    <3> QED
      BY <2>1, <2>3, <3>1, <3>2 DEF Value
  <2> QED
    BY <1>1, <2>2, <2>3, Inserts
<1>2. CASE MaintainWeekly
  <2>1. UNCHANGED <<now, spent>>
    BY <1>2 DEF MaintainWeekly
  <2>2. ASSUME NEW w \in Weeks
        PROVE  Value(weekly', w) <= MaxSpent
    <3>1. weekly'[w] = weekly[w] \/ weekly'[w] = Total(daily, DaysOfWeek(w))
      BY <1>2 DEF MaintainWeekly
    <3>2. Total(daily, DaysOfWeek(w)) <= MaxSpent /\ Total(daily, DaysOfWeek(w)) \in Nat
      <4>1. /\ Total(daily, DaysOfWeek(w)) <= Total(spent, DaysOfWeek(w))
            /\ Total(spent, DaysOfWeek(w)) <= Total(spent, Days)
        BY Parts, FoldedSums
      <4>2. Total(spent, DaysOfWeek(w)) \in Nat /\ Total(spent, Days) \in Nat
        BY AllNumbers, Parts, AllTotals, TotalType
      <4> QED
        BY <4>1, <4>2, AllTotals, Params
    <3> QED
      BY <3>1, <3>2 DEF Value, None
  <2> QED
    BY <2>1, <2>2 DEF Today
<1>3. CASE Tick
  <2>1. UNCHANGED <<spent, weekly>>
    BY <1>3 DEF Tick
  <2>2. \A d \in Days : d > Today' => d > Today
    <3>1. Today <= Today' /\ Today' \in Days
      BY <1>3, TickOrder
    <3>2. Days \subseteq Nat /\ Today \in Nat
      BY Dates, NowDates
    <3> QED
      BY <3>1, <3>2
  <2> QED
    BY <2>1, <2>2 DEF Value
<1>4. CASE UNCHANGED <<now, weekly, spent>>
  BY <1>4, Frames
<1> QED
  BY <1>1, <1>2, <1>3, <1>4 DEF UsageNext, Check, UpsertMonthly, MaintainStart, MaintainDaily,
     MaintainMonthly, MaintainDelete

(* Steps: the logs of a day not folded add up to what it spent.          *)
LEMMA UsageRowsStep ==
  ASSUME Skew <= 0, Tables, Tables', RowsOK, FoldedOK, MaintOK, UsageNext
  PROVE  RowsOK'
<1> USE DEF RowsOK
<1>1. ASSUME NEW r \in Requests, Check(r)
      PROVE  RowsOK'
  <2>1. UNCHANGED <<now, daily, spent>> /\ LocalToday' = LocalToday
    BY <1>1 DEF Check, LocalToday
  <2>2. logs' = logs \/ (logs[now] = None /\ logs' = [logs EXCEPT ![now] = 0])
    BY <1>1 DEF Check
  <2>3. \A t \in Ticks : Value(logs', t) = Value(logs, t)
    BY <2>2 DEF Value, Tables, None
  <2>4. Numbers(logs', Ticks)
    BY <2>3, AllNumbers DEF Numbers
  <2>5. ASSUME NEW d \in Days
        PROVE  Total(logs', TicksOf(d)) = Total(logs, TicksOf(d))
    <3>1. Numbers(logs', TicksOf(d)) /\ Numbers(logs, TicksOf(d)) /\ IsFiniteSet(TicksOf(d))
      BY <2>4, AllNumbers, Parts DEF Numbers
    <3> QED
      BY <2>3, <3>1, Parts, TotalSame
  <2> QED
    BY <2>1, <2>5
<1>2. ASSUME NEW r \in Requests, InsertLog(r)
      PROVE  RowsOK'
  <2>1. UNCHANGED <<now, daily>> /\ LocalToday' = LocalToday
    BY <1>2 DEF InsertLog, LocalToday
  <2>2. CASE UNCHANGED <<logs, spent>>
    BY <2>1, <2>2, Frames
  <2>3. ASSUME NEW n \in {0, 1},
               logs' = [logs EXCEPT ![now] = (IF @ = None THEN 0 ELSE @) + n],
               spent' = [spent EXCEPT ![UtcDay(now)] = @ + n]
        PROVE  RowsOK'
    <3>1. ASSUME NEW d \in Days
          PROVE  \E k \in Nat : spent'[d] = spent[d] + k
                                /\ Total(logs', TicksOf(d)) = Total(logs, TicksOf(d)) + k
      <4>1. n \in Nat
        OBVIOUS
      <4>2. /\ spent'[Today] = spent[Today] + n
            /\ \A e \in Days : e # Today => spent'[e] = spent[e]
            /\ \A e \in Days : Total(logs', TicksOf(e)) = Total(logs, TicksOf(e)) + (IF e = Today THEN n ELSE 0)
        BY <2>3, <4>1, RowInserted
      <4>3. CASE d = Today
        BY <4>1, <4>2, <4>3
      <4>4. CASE d # Today
        <5>1. spent'[d] = spent[d] + 0 /\ Total(logs', TicksOf(d)) = Total(logs, TicksOf(d)) + 0
          BY <4>2, <4>4 DEF Tables
        <5> QED
          BY <5>1
      <4> QED
        BY <4>3, <4>4
    <3>2. \A d \in Days : Total(logs, TicksOf(d)) \in Nat /\ spent[d] \in Nat
      BY AllTotals DEF Tables
    <3> QED
      BY <2>1, <3>1, <3>2
  <2> QED
    BY <1>2, <2>2, <2>3, Inserts
<1>3. CASE MaintainDaily
  <2>1. UNCHANGED <<now, logs, spent>> /\ LocalToday' = LocalToday
    BY <1>3 DEF MaintainDaily, LocalToday
  <2>2. \A d \in Days : daily'[d] = None => daily[d] = None
    BY <1>3, AllTotals DEF MaintainDaily, Tables, None
  <2> QED
    BY <2>1, <2>2
<1>4. CASE MaintainDelete
  <2>1. UNCHANGED <<now, daily, spent>> /\ LocalToday' = LocalToday
    BY <1>4 DEF MaintainDelete, LocalToday
  <2>2. logs' = [t \in Ticks |-> IF t < now - Retain * DayTicks THEN None ELSE logs[t]]
    BY <1>4 DEF MaintainDelete
  <2>3. \A t \in Ticks : Value(logs', t) \in Nat /\ Value(logs', t) <= Value(logs, t)
    BY <2>2 DEF Value, Tables, None
  <2>4. \A d : Numbers(logs', TicksOf(d))
    BY <2>3, Parts DEF Numbers
  <2>5. ASSUME NEW d \in Days
        PROVE  Total(logs', TicksOf(d)) <= spent[d]
    <3>1. Total(logs', TicksOf(d)) <= Total(logs, TicksOf(d))
      BY <2>3, <2>4, AllNumbers, Parts, TotalMonotone
    <3>2. Total(logs', TicksOf(d)) \in Nat
      BY <2>4, Parts, TotalType
    <3> QED
      BY <3>1, <3>2, AllTotals DEF Tables
  <2>6. ASSUME NEW d \in Days, daily[d] = None, d >= LocalToday - Retain
        PROVE  Total(logs', TicksOf(d)) = spent[d]
    <3>1. ASSUME NEW t \in TicksOf(d)
          PROVE  Value(logs', t) = Value(logs, t)
      <4>1. t \in Ticks /\ t \in Nat /\ UtcDay(t) = d
        BY Dates DEF TicksOf
      <4>2. CASE d < LocalToday
        <5>1. d \in Foldable(LocalToday)
          BY <2>6, <4>2, NowDates, Params, Dates DEF Foldable
        <5>2. logs[t] = None
          BY <1>4, <2>6, <5>1 DEF MaintainDelete, MaintOK, Unfolded
        <5> QED
          BY <2>2, <4>1, <5>2 DEF Value
      <4>3. CASE ~(d < LocalToday)
        <5>1. ~(t < now - Retain * DayTicks)
          BY <4>1, <4>3, NowDates, DeletedOver DEF LocalToday
        <5> QED
          BY <2>2, <4>1, <5>1 DEF Value
      <4> QED
        BY <4>2, <4>3
    <3>2. Total(logs', TicksOf(d)) = Total(logs, TicksOf(d))
      BY <2>4, <3>1, AllNumbers, Parts, TotalSame
    <3> QED
      BY <2>6, <3>2
  <2> QED
    BY <2>1, <2>5, <2>6
<1>5. CASE Tick
  <2>1. UNCHANGED <<logs, daily, spent>>
    BY <1>5 DEF Tick
  <2>2. \A d \in Days : d >= LocalToday' - Retain => d >= LocalToday - Retain
    BY <1>5, TickOrder, NowDates, Dates, Params
  <2> QED
    BY <2>1, <2>2
<1>6. CASE UNCHANGED <<now, logs, daily, spent>>
  BY <1>6, Frames
<1> QED
  BY <1>1, <1>2, <1>3, <1>4, <1>5, <1>6 DEF UsageNext, UpsertMonthly, MaintainStart,
     MaintainWeekly, MaintainMonthly

(* The date folded next has its rows, and is over.                         *)
LEMMA NextFolded ==
  ASSUME Tables, MaintOK, MaintainDaily
  PROVE  /\ Min(maint.dates) \in Foldable(LocalToday) /\ daily[Min(maint.dates)] = None
         /\ Min(maint.dates) \in Days
<1>1. maint.dates \subseteq {d \in Foldable(LocalToday) : daily[d] = None} /\ maint.dates # {}
  BY DEF MaintOK, MaintainDaily
<1>2. maint.dates \subseteq Nat
  BY <1>1, Dates DEF Foldable
<1>3. Min(maint.dates) \in maint.dates
  BY <1>1, <1>2, LeastNumber
<1> QED
  BY <1>1, <1>3 DEF Foldable

(* Steps: a folded day is over and has what was spent on it.             *)
LEMMA FoldedStep ==
  ASSUME Skew <= 0, Tables, Tables', RowsOK, FoldedOK, MaintOK, UsageNext
  PROVE  FoldedOK'
<1> USE DEF FoldedOK
<1>1. ASSUME NEW r \in Requests, InsertLog(r)
      PROVE  FoldedOK'
  <2>1. UNCHANGED <<now, daily>> /\ LocalToday' = LocalToday
    BY <1>1 DEF InsertLog, LocalToday
  <2>2. CASE UNCHANGED spent
    BY <2>1, <2>2, Frames
  <2>3. ASSUME NEW n \in {0, 1},
               logs' = [logs EXCEPT ![now] = (IF @ = None THEN 0 ELSE @) + n],
               spent' = [spent EXCEPT ![UtcDay(now)] = @ + n]
        PROVE  FoldedOK'
    <3>1. \A d \in Days : d # Today => spent'[d] = spent[d]
      BY <2>3, RowInserted
    <3>2. \A d \in Days : d < LocalToday => d # Today
      BY NowDates, Dates
    <3> QED
      BY <2>1, <3>1, <3>2
  <2> QED
    BY <1>1, <2>2, <2>3, Inserts
<1>2. CASE MaintainDaily
  <2> DEFINE e == Min(maint.dates)
  <2>1. e \in Foldable(LocalToday) /\ daily[e] = None /\ e \in Days
    BY <1>2, NextFolded
  <2>2. UNCHANGED <<now, logs, spent>> /\ LocalToday' = LocalToday
    BY <1>2 DEF MaintainDaily, LocalToday
  <2>3. \A d \in Days : d # e => daily'[d] = daily[d]
    BY <1>2 DEF MaintainDaily, Tables
  <2>4. daily'[e] = None \/ daily'[e] = Total(logs, TicksOf(e))
    BY <1>2, <2>1 DEF MaintainDaily, Tables
  <2> HIDE DEF e
  <2>5. Total(logs, TicksOf(e)) = spent[e] /\ e < LocalToday
    BY <2>1, NowDates, Params, Dates DEF RowsOK, Foldable
  <2> QED
    BY <2>2, <2>3, <2>4, <2>5
<1>3. CASE Tick
  <2>1. UNCHANGED <<daily, spent>>
    BY <1>3 DEF Tick
  <2>2. \A d \in Days : d < LocalToday => d < LocalToday'
    BY <1>3, TickOrder, NowDates, Dates
  <2> QED
    BY <2>1, <2>2
<1>4. CASE UNCHANGED <<now, daily, spent>>
  BY <1>4, Frames
<1> QED
  BY <1>1, <1>2, <1>3, <1>4 DEF UsageNext, Check, UpsertMonthly, MaintainStart,
     MaintainWeekly, MaintainMonthly, MaintainDelete

(* A row that is inserted now is of no day that maintenance folds.         *)
LEMMA NotToday ==
  ASSUME Skew <= 0, Tables, NEW d \in Foldable(LocalToday)
  PROVE  now \notin TicksOf(d)
BY NowDates, Dates DEF Foldable, TicksOf, Today

(* Steps: maintenance is about days that are over and months that follow.*)
LEMMA MaintStep ==
  ASSUME Skew <= 0, Tables, Tables', MaintOK, UsageNext
  PROVE  MaintOK'
<1> USE DEF MaintOK
<1>1. ASSUME NEW r \in Requests, Check(r) \/ InsertLog(r)
      PROVE  MaintOK'
  <2>1. UNCHANGED <<now, daily, maint>> /\ LocalToday' = LocalToday
    BY <1>1 DEF Check, InsertLog, LocalToday
  <2>2. \A t \in Ticks : t # now => logs'[t] = logs[t]
    BY <1>1 DEF Check, InsertLog, Tables
  <2>3. ASSUME NEW d \in Foldable(LocalToday)
        PROVE  Unfolded(d)' = Unfolded(d)
    <3>1. \A t \in TicksOf(d) : logs'[t] = logs[t]
      BY <2>2, Parts, NotToday
    <3> QED
      BY <2>1, <3>1 DEF Unfolded
  <2>4. Foldable(LocalToday)' = Foldable(LocalToday)
    BY <2>1 DEF Foldable
  <2> QED
    BY <2>1, <2>3, <2>4
<1>2. CASE MaintainStart
  <2>1. UNCHANGED <<now, daily, logs>> /\ LocalToday' = LocalToday
    BY <1>2 DEF MaintainStart, LocalToday
  <2>2. maint'.at = "daily" /\ maint'.day = LocalToday
    BY <1>2 DEF MaintainStart, LocalToday
  <2>3. maint'.dates = {d \in Foldable(LocalToday) : Unfolded(d)}
    <3>1. \A d \in Days : d \in (LocalToday - Retain) .. (LocalToday - 1) <=> d \in Foldable(LocalToday)
      <4>1. LocalToday \in Int /\ Retain \in Nat /\ Days \subseteq Nat
        BY NowDates, Params, Dates
      <4>2. \A d \in Nat : d \in (LocalToday - Retain) .. (LocalToday - 1)
                            <=> LocalToday - Retain <= d /\ d < LocalToday
        BY <4>1
      <4> QED
        BY <4>1, <4>2 DEF Foldable
    <3>2. maint'.dates = {d \in Days : /\ d \in (LocalToday - Retain) .. (LocalToday - 1)
                                     /\ daily[d] = None
                                     /\ \E t \in TicksOf(d) : logs[t] # None}
      BY <1>2 DEF MaintainStart, LocalToday
    <3> QED
      BY <3>1, <3>2 DEF Unfolded, Foldable
  <2> QED
    BY <2>1, <2>2, <2>3 DEF Unfolded, Foldable
<1>3. CASE MaintainDaily
  <2>0. PICK e : e = Min(maint.dates)
    OBVIOUS
  <2>1. e \in Foldable(LocalToday) /\ daily[e] = None /\ e \in Days
    BY <1>3, <2>0, NextFolded
  <2>2. UNCHANGED <<now, logs>> /\ LocalToday' = LocalToday
    BY <1>3 DEF MaintainDaily, LocalToday
  <2>3. \A d \in Days : d # e => daily'[d] = daily[d]
    BY <1>3, <2>0 DEF MaintainDaily, Tables
  <2>4. daily'[e] = IF \A t \in TicksOf(e) : logs[t] = None THEN None ELSE Total(logs, TicksOf(e))
    BY <1>3, <2>0, <2>1 DEF MaintainDaily, Tables
  <2>5. maint.at = "daily" /\ maint'.at = "daily" /\ maint'.day = maint.day /\ maint'.dates = maint.dates \ {e}
    BY <1>3, <2>0 DEF MaintainDaily, Tables, Maintenance
  <2>6. ~Unfolded(e)'
    <3>1. Total(logs, TicksOf(e)) # None
      BY AllTotals DEF None
    <3> QED
      BY <2>2, <2>4, <3>1 DEF Unfolded
  <2>7. \A d \in Days : d # e => (Unfolded(d)' <=> Unfolded(d))
    BY <2>2, <2>3 DEF Unfolded
  <2>8. maint'.dates \subseteq {d \in Foldable(LocalToday) : daily'[d] = None}
    BY <2>3, <2>5 DEF Foldable
  <2>9. \A d \in Foldable(LocalToday) : Unfolded(d)' => d \in maint'.dates
    <3>1. \A d \in Foldable(LocalToday) : Unfolded(d) => d \in maint.dates
      BY <2>5
    <3>2. \A d \in Foldable(LocalToday) : d \in Days
      BY DEF Foldable
    <3> QED
      BY <2>5, <2>6, <2>7, <3>1, <3>2
  <2> QED
    BY <2>2, <2>5, <2>8, <2>9 DEF Foldable
<1>4. CASE MaintainWeekly
  <2>1. UNCHANGED <<now, daily, logs>> /\ LocalToday' = LocalToday
    BY <1>4 DEF MaintainWeekly, LocalToday
  <2>2. /\ maint.at = "daily" /\ maint.dates = {} /\ maint'.at = "monthly" /\ maint'.day = maint.day
        /\ maint'.month = Month(maint.day) - 1
    BY <1>4 DEF MaintainWeekly, Tables, Maintenance
  <2>3. maint'.month < Month(LocalToday)
    BY <2>2, NowDates, MonthOrder
  <2> QED
    BY <2>1, <2>2, <2>3 DEF Foldable, Unfolded
<1>5. CASE MaintainMonthly
  <2>1. UNCHANGED <<now, daily, logs>> /\ LocalToday' = LocalToday
    BY <1>5 DEF MaintainMonthly, LocalToday
  <2>2. /\ maint.at = "monthly" /\ maint'.at \in {"monthly", "delete"} /\ maint'.day = maint.day
        /\ maint'.month = maint.month - 1 /\ maint.month \in Int
    BY <1>5 DEF MaintainMonthly, Tables, Maintenance
  <2>3. maint'.month < Month(LocalToday)
    BY <2>2, NowDates, MonthOrder
  <2> QED
    BY <2>1, <2>2, <2>3 DEF Foldable, Unfolded
<1>6. CASE MaintainDelete
  BY <1>6 DEF MaintainDelete, Resting
<1>7. CASE Tick
  BY <1>7 DEF Tick
<1>8. ASSUME NEW r \in Requests, UpsertMonthly(r)
      PROVE  MaintOK'
  <2>1. UNCHANGED <<now, daily, logs, maint>> /\ LocalToday' = LocalToday
    BY <1>8 DEF UpsertMonthly, LocalToday
  <2> QED
    BY <2>1 DEF Foldable, Unfolded
<1> QED
  BY <1>1, <1>2, <1>3, <1>4, <1>5, <1>6, <1>7, <1>8 DEF UsageNext

(* Two kinds of requests are no more than all of them.                     *)
LEMMA TwoKinds ==
  ASSUME NEW F, F \subseteq Requests, NEW P, P \subseteq Requests, F \cap P = {}
  PROVE  /\ IsFiniteSet(F) /\ Cardinality(F) \in Nat
         /\ IsFiniteSet(P) /\ Cardinality(P) \in Nat
         /\ Cardinality(Requests) \in Nat /\ Cardinality(F) + Cardinality(P) <= Cardinality(Requests)
<1>1. IsFiniteSet(F) /\ IsFiniteSet(P) /\ F \cup P \in SUBSET Requests
  BY Params, FS_Subset
<1>2. Cardinality(F \cup P) = Cardinality(F) + Cardinality(P) - Cardinality(F \cap P)
  BY <1>1, FS_Union
<1>3. Cardinality(F \cap P) = 0
  BY FS_EmptySet
<1>4. Cardinality(F \cup P) <= Cardinality(Requests)
  BY <1>1, Params, FS_Subset
<1> QED
  BY <1>1, <1>2, <1>3, <1>4, Params, FS_CardinalityType

(* The requests that post a total and those under way are different ones.  *)
LEMMA Counted ==
  ASSUME Tables
  PROVE  /\ IsFiniteSet(Forwarded) /\ Cardinality(Forwarded) \in Nat /\ Cardinality(Requests) \in Nat
         /\ \A m : IsFiniteSet(Posting(m)) /\ Cardinality(Posting(m)) \in Nat
<1>1. \A m : Forwarded \subseteq Requests /\ Posting(m) \subseteq Requests /\ Forwarded \cap Posting(m) = {}
  BY DEF Forwarded, Posting, Tables
<1> QED
  BY <1>1, TwoKinds

(* A response of n tokens adds n to the month's posts.                     *)
LEMMA PostBegins ==
  ASSUME Tables, NEW r \in Requests, req[r].at = "forward", NEW n \in {0, 1},
         req' = [req EXCEPT ![r] = [at |-> "monthly", month |-> Month(Today), n |-> n]]
  PROVE  \A m : Cardinality(Posting(m)') = Cardinality(Posting(m)) + (IF m = Month(Today) THEN n ELSE 0)
<1> SUFFICES ASSUME NEW m
             PROVE  Cardinality(Posting(m)') = Cardinality(Posting(m)) + (IF m = Month(Today) THEN n ELSE 0)
  OBVIOUS
<1>1. r \notin Posting(m) /\ IsFiniteSet(Posting(m)) /\ Cardinality(Posting(m)) \in Nat
  <2>1. req[r].n = 0
    BY DEF Tables
  <2>2. r \notin Posting(m)
    BY <2>1 DEF Posting
  <2> QED
    BY <2>2, Counted
<1>2. CASE m = Month(Today) /\ n = 1
  <2>1. Posting(m)' = Posting(m) \cup {r}
    BY <1>2 DEF Posting, Tables
  <2> QED
    BY <1>1, <1>2, <2>1, FS_AddElement
<1>3. CASE ~(m = Month(Today) /\ n = 1)
  <2>1. Posting(m)' = Posting(m)
    BY <1>1, <1>3 DEF Posting, Tables
  <2> QED
    BY <1>1, <1>3, <2>1
<1> QED
  BY <1>2, <1>3

(* Once it is posted it is gone.                                           *)
LEMMA PostEnds ==
  ASSUME Tables, NEW r \in Requests, req' = [req EXCEPT ![r] = Idle]
  PROVE  \A m : Cardinality(Posting(m)') = Cardinality(Posting(m)) - (IF m = req[r].month THEN req[r].n ELSE 0)
<1> SUFFICES ASSUME NEW m
             PROVE  Cardinality(Posting(m)') = Cardinality(Posting(m)) - (IF m = req[r].month THEN req[r].n ELSE 0)
  OBVIOUS
<1>1. /\ IsFiniteSet(Posting(m)) /\ Cardinality(Posting(m)) \in Nat
      /\ req[r].n \in {0, 1}
  BY Counted DEF Tables, Request
<1>a. req'[r].n = 0 /\ \A q \in Requests : q # r => req'[q] = req[q]
  BY DEF Tables, Idle
<1>2. CASE m = req[r].month /\ req[r].n = 1
  <2>1. Posting(m)' = Posting(m) \ {r} /\ r \in Posting(m)
    BY <1>a, <1>2 DEF Posting
  <2> QED
    BY <1>1, <1>2, <2>1, FS_RemoveElement, SMTT(30)
<1>3. CASE ~(m = req[r].month /\ req[r].n = 1)
  <2>1. Posting(m)' = Posting(m)
    BY <1>1, <1>a, <1>3 DEF Posting
  <2> QED
    BY <1>1, <1>3, <2>1
<1> QED
  BY <1>2, <1>3

(* Steps: a month's row lacks what the requests still have to post.      *)
LEMMA MonthsStep ==
  ASSUME Skew <= 0, Tables, Tables', FoldedOK, MaintOK, MonthsOK, UsageNext
  PROVE  MonthsOK'
<1> USE DEF MonthsOK
<1>0. \A m \in Months : /\ Value(monthly, m) \in Nat /\ SpentIn(m) \in Nat /\ m \in Nat
                        /\ Cardinality(Posting(m)) \in Nat
  BY AllNumbers, AllTotals, Counted, Dates DEF Numbers
<1>1. ASSUME NEW r \in Requests, Check(r)
      PROVE  MonthsOK'
  <2>1. UNCHANGED <<now, monthly, spent>> /\ Today' = Today
    BY <1>1 DEF Check, Today
  <2>2. req' = req \/ (req[r].at = "idle" /\ req' = [req EXCEPT ![r].at = "forward"])
    BY <1>1 DEF Check
  <2>3. \A m : Posting(m)' = Posting(m)
    <3>1. \A q \in Requests : req'[q].n = req[q].n /\ req'[q].month = req[q].month
      BY <2>2 DEF Tables, Request
    <3> QED
      BY <3>1 DEF Posting
  <2> QED
    BY <2>1, <2>3 DEF SpentIn, Value
<1>2. ASSUME NEW r \in Requests, InsertLog(r)
      PROVE  MonthsOK'
  <2>1. UNCHANGED <<now, monthly>> /\ Today' = Today /\ req[r].at = "forward"
    BY <1>2 DEF InsertLog, Today
  <2>2. CASE req' = [req EXCEPT ![r] = Idle] /\ UNCHANGED spent
    <3>1. req[r].n = 0
      BY <2>1 DEF Tables
    <3>2. \A m \in Months : Cardinality(Posting(m)') = Cardinality(Posting(m))
      <4>1. \A m : Cardinality(Posting(m)') = Cardinality(Posting(m)) - (IF m = req[r].month THEN req[r].n ELSE 0)
        BY <2>2, PostEnds
      <4> QED
        BY <1>0, <3>1, <4>1
    <3> QED
      BY <2>1, <2>2, <3>2 DEF SpentIn, Value
  <2>3. ASSUME NEW n \in {0, 1},
               logs' = [logs EXCEPT ![now] = (IF @ = None THEN 0 ELSE @) + n],
               spent' = [spent EXCEPT ![UtcDay(now)] = @ + n],
               req' = [req EXCEPT ![r] = [at |-> "monthly", month |-> Month(Today), n |-> n]]
        PROVE  MonthsOK'
    <3>1. \A m : Cardinality(Posting(m)') = Cardinality(Posting(m)) + (IF m = Month(Today) THEN n ELSE 0)
      BY <2>1, <2>3, PostBegins
    <3>2. \A m : SpentIn(m)' = SpentIn(m) + (IF m = Month(Today) THEN n ELSE 0)
      BY <2>3, RowInserted
    <3>3. \A m \in Months : Value(monthly, m)' = Value(monthly, m)
      BY <2>1 DEF Value
    <3>4. \A m \in Months : \E k \in Nat : /\ Cardinality(Posting(m)') = Cardinality(Posting(m)) + k
                                          /\ SpentIn(m)' = SpentIn(m) + k
      BY <3>1, <3>2
    <3> QED
      BY <1>0, <2>1, <3>3, <3>4
  <2> QED
    BY <1>2, <2>2, <2>3, Inserts
<1>3. ASSUME NEW r \in Requests, UpsertMonthly(r)
      PROVE  MonthsOK'
  <2> DEFINE k(m) == IF m = req[r].month THEN req[r].n ELSE 0
  <2>1. UNCHANGED <<now, spent>> /\ Today' = Today /\ req' = [req EXCEPT ![r] = Idle]
        /\ req[r].month \in Months /\ req[r].n \in Nat
    BY <1>3 DEF UpsertMonthly, Today, Tables, Request
  <2>2. monthly' = [monthly EXCEPT ![req[r].month] = (IF @ = None THEN 0 ELSE @) + req[r].n]
    BY <1>3 DEF UpsertMonthly
  <2>3. \A m \in Months : Value(monthly', m) = Value(monthly, m) + k(m)
    <3>1. (IF monthly[req[r].month] = None THEN 0 ELSE monthly[req[r].month]) + req[r].n \in Nat
      BY <2>1 DEF Tables
    <3>2. \A m \in Months : Value(monthly, m) + 0 = Value(monthly, m)
      BY <1>0
    <3> QED
      BY <2>1, <2>2, <3>1, <3>2 DEF Value, Tables, None
  <2>4. \A m : Cardinality(Posting(m)') = Cardinality(Posting(m)) - k(m)
    BY <2>1, PostEnds
  <2>5. \A m : SpentIn(m)' = SpentIn(m)
    BY <2>1 DEF SpentIn
  <2>6. \A m : k(m) \in Nat
    BY <2>1
  <2> HIDE DEF k
  <2> QED
    BY <1>0, <2>1, <2>3, <2>4, <2>5, <2>6
<1>4. CASE MaintainMonthly
  <2>1. UNCHANGED <<now, req, spent>> /\ Today' = Today /\ maint.at = "monthly"
    BY <1>4 DEF MaintainMonthly, Today
  <2>2. maint.month < Month(Today) /\ maint.month \in Int
    <3>1. maint.month < Month(LocalToday) /\ maint.month \in Int
      BY <2>1 DEF MaintOK, Tables, Maintenance
    <3>2. Month(LocalToday) <= Month(Today) /\ Month(LocalToday) \in Int /\ Month(Today) \in Int
      BY NowDates, MonthOrder
    <3> QED
      BY <3>1, <3>2
  <2>3. \A m \in Months : monthly'[m] = monthly[m]
                        \/ (m = maint.month /\ monthly'[m] = Total(daily, DaysOf(m)))
    BY <1>4 DEF MaintainMonthly, Tables
  <2>4. ASSUME NEW m \in Months
        PROVE  /\ m >= Month(Today) => Value(monthly', m) = Value(monthly, m)
               /\ Value(monthly', m) + Cardinality(Posting(m)) <= 2 * SpentIn(m)
    <3>1. CASE monthly'[m] = monthly[m]
      BY <3>1 DEF Value
    <3>2. CASE m = maint.month /\ monthly'[m] = Total(daily, DaysOf(m))
      <4>1. Value(monthly', m) = Total(daily, DaysOf(m))
        BY <3>2, AllTotals DEF Value, None
      <4>2. Total(daily, DaysOf(m)) <= SpentIn(m) /\ Total(daily, DaysOf(m)) \in Nat
        BY Parts, FoldedSums, AllTotals DEF SpentIn
      <4>3. ~(m >= Month(Today))
        BY <1>0, <2>2, <3>2, NowDates
      <4> QED
        BY <1>0, <4>1, <4>2, <4>3
    <3> QED
      BY <2>3, <3>1, <3>2
  <2>5. \A m : Posting(m)' = Posting(m) /\ SpentIn(m)' = SpentIn(m)
    BY <2>1 DEF Posting, SpentIn
  <2> QED
    BY <2>1, <2>4, <2>5
<1>5. CASE Tick
  <2>1. UNCHANGED <<req, monthly, spent>>
    BY <1>5 DEF Tick
  <2>2. \A m \in Months : m >= Month(Today)' => m >= Month(Today)
    BY <1>0, <1>5, TickOrder, NowDates
  <2>3. \A m : Posting(m)' = Posting(m) /\ SpentIn(m)' = SpentIn(m) /\ Value(monthly, m)' = Value(monthly, m)
    BY <2>1 DEF Posting, SpentIn, Value
  <2> QED
    BY <2>2, <2>3
<1>6. CASE UNCHANGED <<now, monthly, req, spent>>
  BY <1>6, Frames
<1> QED
  BY <1>1, <1>2, <1>3, <1>4, <1>5, <1>6 DEF UsageNext, MaintainStart, MaintainDaily,
     MaintainWeekly, MaintainDelete

(* The check lets a request through only below every limit, if all block.  *)
Blocking(l) == l.action = "block" /\ l.tokens # 0 /\ \A k \in limits : k.action = "block"

(* A row of the limits.                                                  *)
LEMMA LimitTokens == ASSUME Tables, NEW l \in limits PROVE l.provider \in {"p", "*"} /\ l.tokens \in Nat
BY UsageAssumption DEF Tables

(* Who passes the check is below every limit that blocks.                *)
LEMMA Passes ==
  ASSUME Tables, NEW l \in limits, Blocking(l), NEW v \in Verdicts(Provider), v # "block"
  PROVE  Used(l.scope) < l.tokens
<1>1. Exceeded(Provider) = {}
  BY DEF Verdicts, Exceeded, Blocking
<1>2. l.provider \in {Provider, "*"} /\ l.tokens \in Nat
  BY LimitTokens DEF Provider
<1>3. ~(Used(l.scope) >= l.tokens)
  BY <1>1, <1>2 DEF Exceeded, Blocking
<1>4. Used(l.scope) \in Nat
  <2>1. Total(monthly, {Month(Today)}) \in Nat
    <3>1. Numbers(monthly, {Month(Today)})
      BY AllNumbers, NowDates DEF Numbers
    <3> QED
      BY <3>1, FS_Singleton, TotalType
  <2> QED
    BY <2>1, AllTotals DEF Used, Today
<1> QED
  BY <1>2, <1>3, <1>4

(* What the check reads is what was spent, but for the totals to be posted.*)
LEMMA CheckReads ==
  ASSUME Skew <= 0, Tables, RowsOK, FoldedOK, MonthsOK, NEW l
  PROVE  Used(l.scope) = SpentFor(l) - (IF l.scope = "monthly" THEN Cardinality(Posting(Month(Today))) ELSE 0)
<1>1. CASE l.scope = "monthly"
  <2>1. Value(monthly, Month(Today)) \in Nat
    BY AllNumbers, NowDates DEF Numbers
  <2>2. Total(monthly, {Month(Today)}) = Value(monthly, Month(Today))
    BY <2>1, TotalOne
  <2>3. Value(monthly, Month(Today)) = SpentIn(Month(Today)) - Cardinality(Posting(Month(Today)))
    BY NowDates DEF MonthsOK
  <2> QED
    BY <1>1, <2>2, <2>3 DEF Used, SpentFor, Today
<1>2. CASE l.scope # "monthly"
  <2>1. daily[Today] = None /\ Today >= LocalToday - Retain
    BY NowDates, Params DEF FoldedOK
  <2>2. Total(logs, TicksOf(Today)) = spent[Today]
    BY <2>1, NowDates DEF RowsOK
  <2>3. spent[Today] \in Nat
    BY NowDates DEF Tables
  <2> QED
    BY <1>2, <2>2, <2>3 DEF Used, SpentFor, Today
<1> QED
  BY <1>1, <1>2

(* What was spent under a limit is a number.                             *)
LEMMA SpentForType == ASSUME Tables, NEW l PROVE SpentFor(l) \in Nat
BY AllTotals, NowDates DEF SpentFor, Tables

(* Nothing is spent yet in a month that is to come.                        *)
LEMMA NewMonth ==
  ASSUME Tables, SpentOK, NEW m, m > Month(Today), m \in Int
  PROVE  SpentIn(m) = 0
<1>1. ASSUME NEW d \in DaysOf(m)
      PROVE  Value(spent, d) = 0
  <2>1. d \in Days /\ d \in Nat /\ Month(d) = m
    BY Dates DEF DaysOf
  <2>2. d > Today
    <3>1. d <= Today => Month(d) <= Month(Today)
      BY <2>1, NowDates, MonthOrder
    <3> QED
      BY <2>1, <3>1, NowDates
  <2> QED
    BY <2>1, <2>2 DEF SpentOK, Value
<1> QED
  BY <1>1, Parts, TotalZero DEF SpentIn

(* Steps: each request that passed has one place left under the limits.  *)
LEMMA PlacesStep ==
  ASSUME Skew <= 0, Tables, Tables', SpentOK, RowsOK, FoldedOK, MonthsOK, PlacesOK, UsageNext
  PROVE  PlacesOK'
<1>0. \A l \in limits : Blocking(l)
        => SpentFor(l) + Cardinality(Forwarded) <= l.tokens - 1 + Cardinality(Requests)
  BY DEF PlacesOK, Blocking
<1>a. \A l \in limits : SpentFor(l) \in Nat /\ l.tokens \in Nat
  BY SpentForType, LimitTokens
<1>b. Cardinality(Forwarded) \in Nat /\ Cardinality(Requests) \in Nat
  BY Counted
<1>c. UNCHANGED limits
  BY DEF UsageNext, Check, InsertLog, UpsertMonthly, MaintainStart, MaintainDaily, MaintainWeekly,
         MaintainMonthly, MaintainDelete, Tick
<1> SUFFICES ASSUME NEW l \in limits, Blocking(l)
             PROVE  SpentFor(l)' + Cardinality(Forwarded') <= l.tokens - 1 + Cardinality(Requests)
  BY <1>c DEF PlacesOK, Blocking
<1>1. ASSUME NEW r \in Requests, Check(r)
      PROVE  SpentFor(l)' + Cardinality(Forwarded') <= l.tokens - 1 + Cardinality(Requests)
  <2>1. SpentFor(l)' = SpentFor(l)
    BY <1>1 DEF Check, SpentFor, SpentIn, Today
  <2>2. CASE req' = req
    <3>1. Forwarded' = Forwarded
      BY <2>2 DEF Forwarded
    <3> QED
      BY <1>0, <2>1, <3>1
  <2>3. ASSUME NEW v \in Verdicts(Provider), v # "block", req[r].at = "idle",
               req' = [req EXCEPT ![r].at = "forward"]
        PROVE  SpentFor(l)' + Cardinality(Forwarded') <= l.tokens - 1 + Cardinality(Requests)
    <3> DEFINE k == IF l.scope = "monthly" THEN Cardinality(Posting(Month(Today))) ELSE 0
    <3>1. SpentFor(l) - k < l.tokens
      BY <2>3, Passes, CheckReads
    <3>2. k \in Nat /\ Cardinality(Forwarded') \in Nat
          /\ Cardinality(Forwarded') + k <= Cardinality(Requests)
      <4>1. Forwarded' = Forwarded \cup {r}
        BY <2>3 DEF Forwarded, Tables
      <4>2. \A m : /\ Forwarded' \subseteq Requests /\ Posting(m) \subseteq Requests
                   /\ Forwarded' \cap Posting(m) = {}
        BY <2>3, <4>1 DEF Forwarded, Posting, Tables
      <4>3. \A m : /\ Cardinality(Posting(m)) \in Nat /\ Cardinality(Forwarded') \in Nat
                   /\ Cardinality(Forwarded') + Cardinality(Posting(m)) <= Cardinality(Requests)
        BY <4>2, TwoKinds
      <4>4. Cardinality(Forwarded') + 0 = Cardinality(Forwarded') /\ Cardinality(Forwarded') <= Cardinality(Requests)
        BY <1>b, <4>3
      <4> QED
        BY <4>3, <4>4
    <3> HIDE DEF k
    <3> QED
      BY <1>a, <1>b, <2>1, <3>1, <3>2
  <2> QED
    BY <1>1, <2>2, <2>3 DEF Check
<1>2. ASSUME NEW r \in Requests, InsertLog(r)
      PROVE  SpentFor(l)' + Cardinality(Forwarded') <= l.tokens - 1 + Cardinality(Requests)
  <2>1. UNCHANGED now /\ Today' = Today /\ req[r].at = "forward"
    BY <1>2 DEF InsertLog, Today
  <2>2. req' = [req EXCEPT ![r] = Idle] \/ \E x : req' = [req EXCEPT ![r] = x] /\ x.at = "monthly"
    BY <1>2 DEF InsertLog
  <2>3. Forwarded' = Forwarded \ {r} /\ r \in Forwarded
    BY <2>1, <2>2 DEF Forwarded, Tables, Idle
  <2>4. Cardinality(Forwarded') = Cardinality(Forwarded) - 1
    BY <2>3, Counted, FS_RemoveElement
  <2>5. \E k \in {0, 1} : SpentFor(l)' = SpentFor(l) + k
    <3>1. CASE UNCHANGED spent
      <4>1. SpentFor(l)' = SpentFor(l)
        BY <2>1, <3>1 DEF SpentFor, SpentIn
      <4>2. SpentFor(l)' = SpentFor(l) + 0
        BY <1>a, <4>1
      <4> QED
        BY <4>2
    <3>2. ASSUME NEW n \in {0, 1},
                 logs' = [logs EXCEPT ![now] = (IF @ = None THEN 0 ELSE @) + n],
                 spent' = [spent EXCEPT ![UtcDay(now)] = @ + n]
          PROVE  \E k \in {0, 1} : SpentFor(l)' = SpentFor(l) + k
      <4>1. SpentIn(Month(Today))' = SpentIn(Month(Today)) + n /\ spent'[Today] = spent[Today] + n
        BY <2>1, <3>2, RowInserted
      <4>2. SpentFor(l)' = SpentFor(l) + n
        BY <2>1, <4>1 DEF SpentFor
      <4> QED
        BY <4>2
    <3> QED
      BY <1>2, <3>1, <3>2, Inserts
  <2> QED
    BY <1>0, <1>a, <1>b, <2>4, <2>5
<1>3. CASE Tick
  <2>1. UNCHANGED <<req, spent>> /\ Forwarded' = Forwarded
    BY <1>3 DEF Tick, Forwarded
  <2>2. SpentFor(l)' = SpentFor(l) \/ SpentFor(l)' = 0
    <3>1. Today <= Today' /\ Today' \in Days /\ Month(Today) <= Month(Today)' /\ Month(Today)' \in Int
      BY <1>3, TickOrder
    <3>2. CASE l.scope = "monthly"
      <4>1. CASE Month(Today)' = Month(Today)
        BY <2>1, <3>2, <4>1 DEF SpentFor, SpentIn
      <4>2. CASE Month(Today)' # Month(Today)
        <5>1. Month(Today)' > Month(Today)
          BY <3>1, <4>2, NowDates
        <5>2. SpentIn(Month(Today)') = 0
          BY <3>1, <5>1, NewMonth
        <5> QED
          BY <2>1, <3>2, <5>2 DEF SpentFor, SpentIn
      <4> QED
        BY <4>1, <4>2
    <3>3. CASE l.scope # "monthly"
      <4>1. CASE Today' = Today
        BY <2>1, <3>3, <4>1 DEF SpentFor
      <4>2. CASE Today' # Today
        <5>1. Today' > Today
          BY <3>1, <4>2, NowDates, Dates
        <5> QED
          BY <2>1, <3>1, <3>3, <5>1 DEF SpentFor, SpentOK
      <4> QED
        BY <4>1, <4>2
    <3> QED
      BY <3>2, <3>3
  <2>3. l.tokens \in Nat /\ l.tokens # 0 /\ Cardinality(Forwarded) <= Cardinality(Requests)
    <3>1. Cardinality(Forwarded) <= Cardinality(Requests)
      BY Params, FS_Subset DEF Forwarded
    <3> QED
      BY <1>a, <3>1 DEF Blocking
  <2> QED
    BY <1>0, <1>a, <1>b, <2>1, <2>2, <2>3
<1>4. ASSUME NEW r \in Requests, UpsertMonthly(r)
      PROVE  SpentFor(l)' + Cardinality(Forwarded') <= l.tokens - 1 + Cardinality(Requests)
  <2>1. SpentFor(l)' = SpentFor(l)
    BY <1>4 DEF UpsertMonthly, SpentFor, SpentIn, Today
  <2>2. Forwarded' = Forwarded
    BY <1>4 DEF UpsertMonthly, Forwarded, Idle, Tables
  <2> QED
    BY <1>0, <2>1, <2>2
<1>5. CASE UNCHANGED <<now, req, spent>>
  <2>1. SpentFor(l)' = SpentFor(l) /\ Forwarded' = Forwarded
    BY <1>5 DEF SpentFor, SpentIn, Today, Forwarded
  <2> QED
    BY <1>0, <2>1
<1> QED
  BY <1>1, <1>2, <1>3, <1>4, <1>5 DEF UsageNext, MaintainStart, MaintainDaily,
     MaintainWeekly, MaintainMonthly, MaintainDelete

(* The invariant holds when the tables are empty.                        *)
LEMMA UsageInvInit == UsageInit => UsageInv
<1> SUFFICES ASSUME UsageInit PROVE UsageInv
  OBVIOUS
<1> USE DEF UsageInit
<1>1. now = 0 /\ 0 \in Ticks /\ UtcDay(0) \in Days
  BY Params, Dates DEF Ticks
<1>2. Tables
  BY <1>1 DEF Tables, Request, UsageSteps, Idle, Maintenance, Resting, None
<1>3. \A S : S \subseteq Days => Total(spent, S) = 0
  <2>1. \A d \in Days : Value(spent, d) = 0
    BY DEF Value
  <2> QED
    BY <2>1, Dates, FS_Subset, TotalZero
<1>4. \A d : Total(logs, TicksOf(d)) = 0
  <2>1. \A t \in Ticks : Value(logs, t) = 0
    BY DEF Value
  <2> QED
    BY <2>1, Parts, TotalZero
<1>5. SpentOK
  BY <1>3, Params DEF SpentOK, Value
<1>6. RowsOK /\ FoldedOK /\ MaintOK
  BY <1>4 DEF RowsOK, FoldedOK, MaintOK, Resting
<1>7. \A m : Posting(m) = {} /\ Cardinality(Posting(m)) = 0 /\ SpentIn(m) = 0
  <2>1. \A m : Posting(m) = {}
    BY DEF Posting, Idle
  <2> QED
    BY <1>3, <2>1, Parts, FS_EmptySet DEF SpentIn
<1>8. MonthsOK
  BY <1>7 DEF MonthsOK, Value
<1>9. PlacesOK
  <2>1. Forwarded = {} /\ Cardinality(Forwarded) = 0
    BY FS_EmptySet DEF Forwarded, Idle
  <2>2. \A l : SpentFor(l) = 0
    BY <1>1, <1>7 DEF SpentFor, Today
  <2>3. Cardinality(Requests) \in Nat
    BY Params, FS_CardinalityType
  <2>4. \A l \in limits : l.tokens \in Nat
    BY <1>2, LimitTokens
  <2> QED
    BY <2>1, <2>2, <2>3, <2>4 DEF PlacesOK
<1> QED
  BY <1>2, <1>5, <1>6, <1>8, <1>9 DEF UsageInv

(* Every step keeps it.                                                  *)
LEMMA UsageInvStep ==
  ASSUME Skew <= 0, UsageInv, [UsageNext]_usageVars
  PROVE  UsageInv'
<1>1. Tables'
  BY TablesStep DEF UsageInv
<1>2. CASE UsageNext
  BY <1>1, <1>2, SpentStep, UsageRowsStep, FoldedStep, MaintStep, MonthsStep, PlacesStep DEF UsageInv
<1>3. CASE UNCHANGED usageVars
  <2>1. UNCHANGED <<now, limits, req, logs, daily, weekly, monthly, maint, spent>>
    BY <1>3 DEF usageVars
  <2>2. SpentOK' /\ RowsOK' /\ FoldedOK' /\ MonthsOK' /\ PlacesOK'
    BY <2>1, Frames DEF UsageInv
  <2>3. MaintOK'
    BY <2>1 DEF UsageInv, MaintOK, LocalToday, Foldable, Unfolded
  <2> QED
    BY <1>1, <2>2, <2>3 DEF UsageInv
<1> QED
  BY <1>2, <1>3

(* A part of what was spent is within the bound, and so is every total.    *)
LEMMA UsageWithin ==
  ASSUME UsageInv
  PROVE  UsageTypeOK
<1> USE DEF UsageInv
<1>1. \A m \in Months : SpentIn(m) <= MaxSpent
  BY Parts, FoldedSums, AllTotals, Params DEF SpentIn, SpentOK
<1>2. \A d \in Days : spent[d] \in 0 .. MaxSpent
  <2>1. ASSUME NEW d \in Days
        PROVE  spent[d] <= Total(spent, Days)
    <3>1. Value(spent, d) = spent[d]
      BY DEF Value, Tables, None
    <3> QED
      BY <3>1, AllNumbers, Dates, TotalHolds
  <2> QED
    BY <2>1, AllTotals, Params DEF SpentOK, Tables
<1>3. ASSUME NEW t \in Ticks
      PROVE  logs[t] \in 0 .. MaxSpent \cup {None} /\ (logs[t] # None => t <= now)
  <2>1. UtcDay(t) \in Days /\ t \in TicksOf(UtcDay(t))
    BY Dates DEF TicksOf
  <2>2. Value(logs, t) <= Total(logs, TicksOf(UtcDay(t)))
    BY <2>1, AllNumbers, Parts, TotalHolds
  <2>3. Value(logs, t) <= MaxSpent /\ Value(logs, t) \in Nat
    <3>1. Total(logs, TicksOf(UtcDay(t))) <= spent[UtcDay(t)] /\ spent[UtcDay(t)] \in 0 .. MaxSpent
      BY <1>2, <2>1 DEF RowsOK
    <3>2. Total(logs, TicksOf(UtcDay(t))) \in Nat /\ Value(logs, t) \in Nat
      BY AllTotals, AllNumbers DEF Numbers
    <3> QED
      BY <2>2, <3>1, <3>2, Params
  <2> QED
    BY <2>3, Params DEF Value, Tables, None
<1>4. \A d \in Days : daily[d] \in 0 .. MaxSpent \cup {None}
  BY <1>2 DEF FoldedOK
<1>5. \A w \in Weeks : weekly[w] \in 0 .. MaxSpent \cup {None}
  BY Params DEF SpentOK, Value, Tables, None
<1>6. ASSUME NEW m \in Months
      PROVE  monthly[m] \in 0 .. (2 * MaxSpent) \cup {None}
  <2>1. /\ Value(monthly, m) + Cardinality(Posting(m)) <= 2 * SpentIn(m)
        /\ Cardinality(Posting(m)) \in Nat /\ SpentIn(m) \in Nat /\ SpentIn(m) <= MaxSpent
    BY <1>1, Counted, AllTotals DEF MonthsOK
  <2>2. Value(monthly, m) \in Nat
    BY AllNumbers DEF Numbers
  <2>3. Value(monthly, m) <= 2 * MaxSpent
    BY <2>1, <2>2, Params
  <2> QED
    BY <2>2, <2>3, Params DEF Value, Tables, None
<1>7. now \in Ticks /\ \A r \in Requests : req[r].month \in Months \cup {None}
  BY DEF Tables, Request
<1> QED
  BY <1>2, <1>3, <1>4, <1>5, <1>6, <1>7 DEF UsageTypeOK

(* What it says of the totals and of the limits.                         *)
LEMMA UsageInvExact ==
  ASSUME UsageInv
  PROVE  UsageExact /\ OverrunBounded
<1> USE DEF UsageInv
<1>1. CurrentMonthExact
  <2>1. Total(monthly, {Month(Today)}) = Value(monthly, Month(Today))
    BY AllNumbers, NowDates, TotalOne DEF Numbers
  <2>2. Value(monthly, Month(Today)) = SpentIn(Month(Today)) - Cardinality(Posting(Month(Today)))
    BY NowDates DEF MonthsOK
  <2>3. Posting(Month(Today)) = {r \in Requests : req[r].n = 1 /\ req[r].month = Month(Today)}
    BY DEF Posting
  <2> QED
    BY <2>1, <2>2, <2>3 DEF CurrentMonthExact, Unposted, Today
<1>2. DailyExact
  BY DEF DailyExact, FoldedOK
<1>3. OverrunBounded
  <2> SUFFICES ASSUME NEW l \in limits, Blocking(l)
               PROVE  SpentFor(l) <= l.tokens - 1 + Cardinality(Requests)
    BY DEF OverrunBounded, Blocking, SpentFor, Today
  <2>1. SpentFor(l) + Cardinality(Forwarded) <= l.tokens - 1 + Cardinality(Requests)
    BY DEF PlacesOK, Blocking
  <2>2. l.tokens \in Nat /\ SpentFor(l) \in Nat /\ Cardinality(Forwarded) \in Nat /\ Cardinality(Requests) \in Nat
    BY LimitTokens, SpentForType, Counted
  <2> QED
    BY <2>1, <2>2
<1> QED
  BY <1>1, <1>2, <1>3, UsageWithin DEF UsageExact

(* The totals are exact where no day begins earlier than in UTC: what the  *)
(* limits of the current month are checked against and every folded day    *)
(* count each recorded token once, through any interleaving of requests,   *)
(* maintenance and the passing of time.  (With a local clock ahead of UTC  *)
(* maintenance folds a day, and finalizes a month, that is still current.) *)
THEOREM UsageIsExact ==
  ASSUME Skew <= 0
  PROVE  UsageSpec => []UsageExact
<1>1. UsageInit => UsageInv
  BY UsageInvInit
<1>2. UsageInv /\ [UsageNext]_usageVars => UsageInv'
  BY UsageInvStep
<1>3. UsageInv => UsageExact
  BY UsageInvExact
<1> QED
  BY <1>1, <1>2, <1>3, PTL DEF UsageSpec

(* Requests that are checked before and counted after their response       *)
(* overshoot a limit by less than one response each.                       *)
THEOREM OverrunsAreBounded ==
  ASSUME Skew <= 0
  PROVE  UsageSpec => []OverrunBounded
<1>1. UsageInit => UsageInv
  BY UsageInvInit
<1>2. UsageInv /\ [UsageNext]_usageVars => UsageInv'
  BY UsageInvStep
<1>3. UsageInv => OverrunBounded
  BY UsageInvExact
<1> QED
  BY <1>1, <1>2, <1>3, PTL DEF UsageSpec

=============================================================================
