--------------------------- MODULE BrowserLogins ----------------------------
(***************************************************************************)
(* An authorization URL of a program in the VM is opened in the host's     *)
(* browser, and its loopback redirect port mapped into the VM for five     *)
(* minutes.  The URL comes by three ways: the guest's xdg-open hook        *)
(* (handle_nilbox_control), the terminal's output (open_oauth_url_from_    *)
(* shell) and an inspected GET (inspect.rs).  One URL and its port.        *)
(***************************************************************************)
EXTENDS Naturals

CONSTANTS
  Logins,      \* requests to open the URL
  Guests,      \* VMs
  MaxTime,     \* bound: seconds
  MaxRemovals  \* bound: removal timers at once

VARIABLES
  clock,     \* seconds
  mapping,   \* whose mapping the port has: a login's, the user's or none
  removals,  \* removal timers running
  lastOpen,  \* RECENT_BROWSER_OPENS: when the URL was last recorded; 0 never
  login,     \* the requests
  opened,     \* the ways by which the URL was opened, and when
  missed     \* the hook came after the terminal's check, or long before it

loginVars == <<clock, mapping, removals, lastOpen, login, opened, missed>>

Unmapped == [by |-> "nobody", vm |-> "none"]
Ways == {"hook", "shell", "inspect"}
NoLogin == [pc |-> "new", way |-> "none", vm |-> "none", since |-> 0]

LoginInit ==
  /\ clock = 1 /\ mapping = Unmapped /\ removals = 0 /\ lastOpen = 0
  /\ login = [l \in Logins |-> NoLogin]
  /\ opened = [w \in Ways |-> 0] /\ missed = FALSE

Step(l, to) == login' = [login EXCEPT ![l].pc = to]

\* fault: only the hook starts a timer
HookTimer(way) == way = "hook"

\* Which way starts the removal timer when the port was mapped.
StartsTimer(way) == TRUE

\* Gateway::add_mapping: refused while another VM has the port; kept when this VM
\* has it already.  With a success goes a timer of 300 seconds.
MapPort(way, vm) ==
  IF mapping # Unmapped /\ mapping.vm # vm THEN UNCHANGED <<mapping, removals>>
  ELSE /\ mapping' = IF mapping = Unmapped THEN [by |-> "login", vm |-> vm] ELSE mapping
       /\ removals' = IF StartsTimer(way) THEN removals + 1 ELSE removals

\* A request begins.  The hook records the URL and then asks the gate; the
\* terminal waits a second first.
BeginLogin(l, way, vm) ==
  /\ login[l].pc = "new" /\ removals < MaxRemovals
  /\ login' = [login EXCEPT ![l] = [way |-> way, vm |-> vm, since |-> clock,
                 pc |-> CASE way = "hook" -> "gate" [] way = "shell" -> "sleep" [] OTHER -> "map"]]
  /\ lastOpen' = IF way = "hook" THEN clock ELSE lastOpen
  /\ missed' = (missed \/ (way = "hook" /\ \E m \in Logins : login[m].way = "shell" /\ login[m].pc \in {"map", "open", "done"}))
  /\ UNCHANGED <<clock, mapping, removals, opened>>

\* The gate's answer.
Gate(l) ==
  /\ login[l].pc = "gate"
  /\ Step(l, "map") \/ Step(l, "done")
  /\ UNCHANGED <<clock, mapping, removals, lastOpen, opened, missed>>

\* was_recently_opened, within two seconds.
Recent == lastOpen > 0 /\ clock - lastOpen < 2

\* The terminal's request wakes and is dropped when another has had the URL.
Wake(l) ==
  /\ login[l].pc = "sleep" /\ clock > login[l].since
  /\ Step(l, IF Recent THEN "done" ELSE "map")
  /\ missed' = (missed \/ (lastOpen > 0 /\ clock - lastOpen >= 2))
  /\ UNCHANGED <<clock, mapping, removals, lastOpen, opened>>

\* The port is mapped; by the terminal not again when the VM has it.  An inspected
\* request without a state is a preflight, which opens nothing.
Map(l) ==
  /\ login[l].pc = "map" /\ removals < MaxRemovals
  /\ IF login[l].way = "shell" /\ mapping.vm = login[l].vm
       THEN UNCHANGED <<mapping, removals>>
       ELSE MapPort(login[l].way, login[l].vm)
  /\ \/ Step(l, "open")
     \/ login[l].way = "inspect" /\ Step(l, "done")
  /\ UNCHANGED <<clock, lastOpen, opened, missed>>

\* The browser is started; the terminal's way records it.
OpenBrowser(l) ==
  /\ login[l].pc = "open"
  /\ lastOpen' = IF login[l].way = "shell" THEN clock ELSE lastOpen
  /\ opened' = [opened EXCEPT ![login[l].way] = @ + 1]
  /\ Step(l, "done")
  /\ UNCHANGED <<clock, mapping, removals, missed>>

\* A timer removes whatever mapping the port has by then.
LoginExpires ==
  /\ removals > 0
  /\ removals' = removals - 1 /\ mapping' = Unmapped
  /\ UNCHANGED <<clock, lastOpen, login, opened, missed>>

\* The user maps the port of a VM, or removes a mapping.
UserMaps(vm) ==
  /\ mapping' = IF mapping = Unmapped THEN [by |-> "user", vm |-> vm] ELSE Unmapped
  /\ UNCHANGED <<clock, removals, lastOpen, login, opened, missed>>

ClockTicks ==
  /\ clock < MaxTime /\ clock' = clock + 1
  /\ UNCHANGED <<mapping, removals, lastOpen, login, opened, missed>>

LoginNext ==
  \/ LoginExpires \/ ClockTicks \/ \E vm \in Guests : UserMaps(vm)
  \/ \E l \in Logins : \/ Gate(l) \/ Wake(l) \/ Map(l) \/ OpenBrowser(l)
                       \/ \E way \in Ways, vm \in Guests : BeginLogin(l, way, vm)

LoginSpec == LoginInit /\ [][LoginNext]_loginVars

----------------------------------------------------------------------------
\* A mapping that a login opened has a timer that will remove it, whatever the
\* user and the timers of other logins did with the port in between.
LoginPortCloses == mapping.by = "login" => removals > 0

\* The URL is opened by the hook or by the terminal, not by both, unless the hook
\* came after the terminal's check or two seconds before it.
OpenedOnce == opened["hook"] = 0 \/ opened["shell"] = 0 \/ missed

\* A login's port mapping has its removal timer, and its URL is opened by the
\* xdg-open hook or by the terminal, not by both.
LoginsSafe == LoginPortCloses /\ OpenedOnce
=============================================================================
