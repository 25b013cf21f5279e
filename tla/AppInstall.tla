----------------------------- MODULE AppInstall -----------------------------
(***************************************************************************)
(* Installing applications into one VM (service.rs: store_install_app over *)
(* the control port, open_shell over an SSH terminal; vm-agent:            *)
(* app_install.rs, inbound/control.rs, bin/install.rs).  The host reads    *)
(* the manifest and registers administration URLs and function keys; the   *)
(* VM reads the manifest again, runs the task file and reports the end,    *)
(* over the control stream or as a mark in the terminal's output; the host *)
(* then records the application.                                           *)
(***************************************************************************)
EXTENDS VmSettings, Sequences

CONSTANTS
  AppInstalls,   \* installations; each is also an editor of the VM's settings
  Users,      \* tasks that edit the description meanwhile
  Apps,       \* applications; a subset of Tags
  Labels,     \* function keys in each manifest
  MaxOut,     \* bound: pieces of output on the way to the host
  MaxUrls     \* bound: administration URLs ever made

ASSUME AppAssumption == /\ AppInstalls \cup Users = Editors /\ AppInstalls \cap Users = {}
                        /\ Apps \subseteq Tags /\ "user" \notin Apps
ASSUME BoundAssumption == MaxOut \in Nat \ {0} /\ MaxUrls \in Nat

VARIABLES
  inst,       \* per installation: [pc, path, app, left, done]
  guest,      \* per installation: what runs in the VM
  stdout,        \* per installation: output on the way to the host
  ends,       \* per installation: whether its channel still delivers: "open", "cut" or "closed"
  connected,  \* the VM has a multiplexer
  keys,       \* function_keys: application -> label -> rows
  urlRows,    \* vm_admin_urls: ids, with the application they are of
  urlShown,   \* the VmInstance's list of them
  urls,       \* ids made so far
  urlTask,    \* the user's edit of the list: [op, id] or NoUrl
  installed,  \* installed_apps
  ports,      \* applications whose inbound ports are mapped
  crowded     \* applications of which two installations have registered keys at once

keyVars == <<keys, crowded>>
urlVars == <<urlRows, urlShown, urls, urlTask>>
recordVars == <<installed, ports>>
runVars == <<guest, stdout, ends, connected>>
appVars == <<inst, runVars, keyVars, urlVars, recordVars>>

NotAsked == [pc |-> "new"]
NoUrl == [op |-> "none"]

AppInit ==
  /\ SettingsInit
  /\ inst = [i \in AppInstalls |-> NotAsked]
  /\ guest = [i \in AppInstalls |-> "none"] /\ stdout = [i \in AppInstalls |-> <<>>]
  /\ ends = [i \in AppInstalls |-> "open"] /\ connected = TRUE
  /\ keys = [a \in Apps |-> [l \in Labels |-> 0]] /\ crowded = {}
  /\ urlRows = {} /\ urlShown = {} /\ urls = 0 /\ urlTask = NoUrl
  /\ installed = {} /\ ports = {}

Stages == {"fetch", "urls", "clear", "insert", "start", "accept", "reading", "record", "tag",
           "tagging", "port", "shell", "over", "refused"}

AppTypeOK ==
  /\ \A i \in AppInstalls :
       inst[i].pc # "new" => /\ inst[i].pc \in Stages /\ inst[i].path \in {"control", "terminal"}
                             /\ inst[i].app \in Apps /\ inst[i].left \subseteq Labels
                             /\ inst[i].done \in 0..2
  /\ guest \in [AppInstalls -> {"none", "fetch", "task", "ok", "failed", "unmarked", "killed"}]
  /\ \A i \in AppInstalls : Len(stdout[i]) <= MaxOut
  /\ ends \in [AppInstalls -> {"open", "cut", "closed"}]
  /\ keys \in [Apps -> [Labels -> Nat]] /\ urlRows \subseteq (1..MaxUrls) \X (Apps \cup {"user"})
  /\ installed \subseteq Apps /\ ports \subseteq installed

App(i) == inst[i].app
Terminal(i) == inst[i].path = "terminal"
Go(i, stage) == inst' = [inst EXCEPT ![i].pc = stage]

----------------------------------------------------------------------------
(* The host, until the VM is asked                                         *)

Ask(i) ==
  /\ inst[i].pc = "new"
  /\ \E p \in {"control", "terminal"}, a \in Apps :
       inst' = [inst EXCEPT ![i] = [pc |-> "fetch", path |-> p, app |-> a, left |-> {}, done |-> 0]]
  /\ UNCHANGED <<settingsVars, runVars, keyVars, urlVars, recordVars>>

\* open_shell: the SSH connection first, then the manifest with its signature, disk space and id.
FetchTerminal(i) ==
  /\ inst[i].pc = "fetch" /\ Terminal(i)
  /\ \E stage \in {"refused"} \cup {s \in {"urls"} : connected} : Go(i, stage)
  /\ UNCHANGED <<settingsVars, runVars, keyVars, urlVars, recordVars>>

\* store_install_app: the manifest; the VM is looked for later.
FetchControl(i) ==
  /\ inst[i].pc = "fetch" /\ ~Terminal(i)
  /\ \E stage \in {"refused", "urls"} : Go(i, stage)
  /\ UNCHANGED <<settingsVars, runVars, keyVars, urlVars, recordVars>>

\* Whether the list has no URL of the application yet.
UrlMissing(a) == \A u \in urlShown : u[2] # a

\* The URL is registered at once, in the table and the list, under the list's lock.
RegisterUrls(i) ==
  /\ inst[i].pc = "urls"
  /\ IF UrlMissing(App(i)) /\ urls < MaxUrls
       THEN /\ urls' = urls + 1
            /\ urlRows' = urlRows \cup {<<urls', App(i)>>}
            /\ urlShown' = urlShown \cup {<<urls', App(i)>>}
       ELSE UNCHANGED <<urls, urlRows, urlShown>>
  /\ Go(i, "clear")
  /\ UNCHANGED <<settingsVars, runVars, keyVars, recordVars, urlTask>>

RegistersKeys(i) == inst[i].pc = "insert"
SameApp(i) == {j \in AppInstalls \ {i} : RegistersKeys(j) /\ App(j) = App(i)}

\* delete_function_keys_by_app.
KeysDeleted(a) == [l \in Labels |-> 0]

\* The application's function keys are deleted and inserted anew, a statement each.
ClearKeys(i) ==
  /\ inst[i].pc = "clear"
  /\ keys' = [keys EXCEPT ![App(i)] = KeysDeleted(App(i))]
  /\ inst' = [inst EXCEPT ![i].pc = "insert", ![i].left = Labels]
  /\ crowded' = (crowded \ {App(i)}) \cup {App(j) : j \in SameApp(i)}
  /\ UNCHANGED <<settingsVars, runVars, urlVars, recordVars>>

InsertKey(i) ==
  /\ RegistersKeys(i)
  /\ \E l \in inst[i].left :
       /\ keys' = [keys EXCEPT ![App(i)][l] = @ + 1]
       /\ inst' = [inst EXCEPT ![i].left = @ \ {l},
                               ![i].pc = IF inst[i].left = {l} THEN "start" ELSE "insert"]
  /\ UNCHANGED <<settingsVars, runVars, urlVars, recordVars, crowded>>

\* The terminal's channel, with nilbox-install and the mark as its command.
StartTerminal(i) ==
  /\ inst[i].pc = "start" /\ Terminal(i)
  /\ IF connected THEN Go(i, "reading") /\ guest' = [guest EXCEPT ![i] = "fetch"]
                  ELSE Go(i, "refused") /\ UNCHANGED guest
  /\ UNCHANGED <<settingsVars, stdout, ends, connected, keyVars, urlVars, recordVars>>

\* The control stream and install_app; the agent accepts at once (handle_control_stream).
StartControl(i) ==
  /\ inst[i].pc = "start" /\ ~Terminal(i)
  /\ IF connected THEN /\ Go(i, "accept") /\ guest' = [guest EXCEPT ![i] = "fetch"]
                       /\ stdout' = [stdout EXCEPT ![i] = <<"accepted">>]
                  ELSE Go(i, "refused") /\ UNCHANGED <<guest, stdout>>
  /\ UNCHANGED <<settingsVars, ends, connected, keyVars, urlVars, recordVars>>

----------------------------------------------------------------------------
(* The VM                                                                  *)

Says(i, pieces) == /\ Len(stdout[i]) + Len(pieces) <= MaxOut
                   /\ stdout' = [stdout EXCEPT ![i] = @ \o pieces]
VmStep(i) == UNCHANGED <<settingsVars, inst, ends, connected, keyVars, urlVars, recordVars>>

\* fault: the agent reports success only
DoneIfOk(g) == IF g = "ok" THEN <<g>> ELSE <<>>

\* handle_install_app reports the end whatever it is.
DoneMessage(g) == <<g>>

\* do_install: the manifest and the task file are fetched and their hashes compared.
DoInstall(i) ==
  /\ guest[i] = "fetch" /\ ~Terminal(i)
  /\ \/ guest' = [guest EXCEPT ![i] = "task"] /\ UNCHANGED stdout
     \/ guest' = [guest EXCEPT ![i] = "failed"] /\ Says(i, DoneMessage("failed"))
  /\ VmStep(i)

\* run_install of nilbox-install, which also verifies the signature and wants a hash
\* of the task file.  Its end is told by the shell's mark.
RunInstall(i) ==
  /\ guest[i] = "fetch" /\ Terminal(i)
  /\ \/ guest' = [guest EXCEPT ![i] = "task"] /\ UNCHANGED stdout
     \/ guest' = [guest EXCEPT ![i] = "failed"] /\ Says(i, <<"failed">>)
  /\ VmStep(i)

\* A line of task install's output.
TaskLine(i) ==
  /\ guest[i] = "task" /\ stdout[i] = <<>>
  /\ Says(i, <<"line">>)
  /\ UNCHANGED guest
  /\ VmStep(i)

\* task install ends: run_task_install.
TaskEnds(i) ==
  /\ guest[i] = "task" /\ ~Terminal(i)
  /\ \E g \in {"ok", "failed"} : guest' = [guest EXCEPT ![i] = g] /\ Says(i, DoneMessage(g))
  /\ VmStep(i)

\* It ends in the terminal, where the mark may come in two pieces.
TaskEndsMarked(i) ==
  /\ guest[i] = "task" /\ Terminal(i)
  /\ \/ \E g \in {"ok", "failed"} : guest' = [guest EXCEPT ![i] = g] /\ Says(i, <<g>>)
     \/ guest' = [guest EXCEPT ![i] = "unmarked"] /\ Says(i, <<"half", "half">>)
  /\ VmStep(i)

\* The VM stops: what runs in it ends, and each channel after what it already holds.
VmStops ==
  /\ connected
  /\ connected' = FALSE
  /\ guest' = [i \in AppInstalls |-> IF guest[i] \in {"fetch", "task"} THEN "killed" ELSE guest[i]]
  /\ ends' = [i \in AppInstalls |-> IF guest[i] # "none" /\ ends[i] = "open" THEN "cut" ELSE ends[i]]
  /\ UNCHANGED <<settingsVars, inst, stdout, keyVars, urlVars, recordVars>>

VmStarts ==
  /\ ~connected /\ connected' = TRUE
  /\ UNCHANGED <<settingsVars, inst, guest, stdout, ends, keyVars, urlVars, recordVars>>

\* close_shell.
CloseTerminal(i) ==
  /\ inst[i].pc \in {"reading", "shell"} /\ Terminal(i)
  /\ ends' = [ends EXCEPT ![i] = "closed"]
  /\ Go(i, "over")
  /\ guest' = [guest EXCEPT ![i] = IF @ \in {"fetch", "task"} THEN "killed" ELSE @]
  /\ stdout' = [stdout EXCEPT ![i] = <<>>]
  /\ UNCHANGED <<settingsVars, connected, keyVars, urlVars, recordVars>>

----------------------------------------------------------------------------
(* The host, reading the end                                               *)

Takes(i, p) == stdout[i] # <<>> /\ Head(stdout[i]) = p /\ stdout' = [stdout EXCEPT ![i] = Tail(@)]
HostStep(i) == UNCHANGED <<settingsVars, guest, ends, connected, keyVars, urlVars, recordVars>>
Report(i, stage) == inst' = [inst EXCEPT ![i].pc = stage, ![i].done = @ + 1]

ReadAccepted(i) ==
  /\ inst[i].pc = "accept" /\ Takes(i, "accepted") /\ Go(i, "reading")
  /\ HostStep(i)

\* Output is passed on, also once the terminal is a plain shell.
ReadOutput(i) ==
  /\ inst[i].pc \in {"reading", "shell"} /\ \E p \in {"line", "half"} : Takes(i, p)
  /\ UNCHANGED inst
  /\ HostStep(i)

\* fault: the end is recorded whatever it was
RecordsAll(p) == TRUE

\* The application is recorded when the task file's exit code is 0.
Records(p) == p = "ok"

\* The control stream's end is reported first and recorded after.
ReadDone(i) ==
  /\ inst[i].pc = "reading" /\ ~Terminal(i)
  /\ \E p \in {"ok", "failed"} : Takes(i, p) /\ Report(i, IF Records(p) THEN "record" ELSE "over")
  /\ HostStep(i)

\* The mark is looked for in each piece of the terminal's output alone.
ReadMark(i) ==
  /\ inst[i].pc = "reading" /\ Terminal(i)
  /\ \E p \in {"ok", "failed"} :
       Takes(i, p) /\ IF Records(p) THEN Go(i, "record") ELSE Report(i, "shell")
  /\ HostStep(i)

\* A lost control stream is reported as a failure.
ReportLost(i) == Report(i, "over")

\* The channel ends.  Before it was accepted the call returns an error; the
\* terminal is only closed.
ReadEnd(i) ==
  /\ stdout[i] = <<>> /\ ends[i] = "cut"
  /\ \/ inst[i].pc = "accept" /\ Go(i, "refused")
     \/ inst[i].pc = "reading" /\ ~Terminal(i) /\ ReportLost(i)
     \/ inst[i].pc \in {"reading", "shell"} /\ Terminal(i) /\ Go(i, "over")
  /\ UNCHANGED stdout
  /\ HostStep(i)

\* upsert_installed_app.
Recorded(a) == installed \cup {a}

RecordApp(i) ==
  /\ inst[i].pc = "record"
  /\ installed' = Recorded(App(i))
  /\ Go(i, "tag")
  /\ UNCHANGED <<settingsVars, runVars, keyVars, urlVars, ports>>

\* append_vm_description: begun ...
TagApp(i) ==
  /\ inst[i].pc = "tag"
  /\ \/ HasTag(App(i)) /\ Go(i, "port") /\ UNCHANGED settingsVars
     \/ AppendTag(i, App(i)) /\ UNCHANGED edits /\ Go(i, "tagging")
  /\ UNCHANGED <<runVars, keyVars, urlVars, recordVars>>

\* ... and awaited.
Tagged(i) ==
  /\ inst[i].pc = "tagging" /\ editor[i].pc = "idle"
  /\ Go(i, "port")
  /\ UNCHANGED <<settingsVars, runVars, keyVars, urlVars, recordVars>>

\* The terminal maps an administrator's ports and reports; the control stream has reported.
MapPorts(i) ==
  /\ inst[i].pc = "port"
  /\ ports' \in IF Terminal(i) THEN {ports, ports \cup {App(i)}} ELSE {ports}
  /\ IF Terminal(i) THEN Report(i, "shell") ELSE Go(i, "over")
  /\ UNCHANGED <<settingsVars, runVars, keyVars, urlVars, installed>>

----------------------------------------------------------------------------
(* The user's edits                                                        *)

UrlStep == UNCHANGED <<settingsVars, inst, runVars, keyVars, recordVars>>

\* add_vm_admin_url: the row, then the list.
AddUrl ==
  /\ urlTask = NoUrl /\ urls < MaxUrls
  /\ urls' = urls + 1 /\ urlRows' = urlRows \cup {<<urls', "user">>}
  /\ urlTask' = [op |-> "add", id |-> <<urls', "user">>]
  /\ UNCHANGED urlShown
  /\ UrlStep

\* remove_vm_admin_url: the row, then the list.
RemoveUrl ==
  /\ urlTask = NoUrl
  /\ \E u \in urlShown : urlRows' = urlRows \ {u} /\ urlTask' = [op |-> "remove", id |-> u]
  /\ UNCHANGED <<urls, urlShown>>
  /\ UrlStep

UrlDone ==
  /\ urlTask # NoUrl
  /\ urlShown' = IF urlTask.op = "add" THEN urlShown \cup {urlTask.id} ELSE urlShown \ {urlTask.id}
  /\ urlTask' = NoUrl
  /\ UNCHANGED <<urls, urlRows>>
  /\ UrlStep

UserEdits == UNCHANGED appVars /\ \E u \in Users : UpdateDescription(u)
EditGoesOn(e) == UNCHANGED appVars /\ EditSteps(e)

HostSteps(i) == \/ FetchTerminal(i) \/ FetchControl(i) \/ RegisterUrls(i) \/ ClearKeys(i)
                \/ InsertKey(i) \/ StartTerminal(i) \/ StartControl(i) \/ ReadAccepted(i)
                \/ ReadOutput(i) \/ ReadDone(i) \/ ReadMark(i) \/ ReadEnd(i)
                \/ RecordApp(i) \/ TagApp(i) \/ Tagged(i) \/ MapPorts(i)

AppNext ==
  \/ \E i \in AppInstalls : \/ Ask(i) \/ HostSteps(i) \/ CloseTerminal(i)
                         \/ DoInstall(i) \/ RunInstall(i) \/ TaskLine(i)
                         \/ TaskEnds(i) \/ TaskEndsMarked(i)
  \/ VmStops \/ VmStarts \/ AddUrl \/ RemoveUrl \/ UrlDone \/ UserEdits \/ \E e \in Editors : EditGoesOn(e)

----------------------------------------------------------------------------
\* An application is recorded as installed only after its task file has ended in
\* the VM with success (the exit code carried by the mark or the done message).
InstalledRan ==
  \A a \in installed : \E i \in AppInstalls : inst[i].pc # "new" /\ App(i) = a /\ guest[i] = "ok"

\* Every installation over the control port that was accepted reports its end once
\* (app-install-done), and one in a terminal at most once.
ReportedOnce ==
  \A i \in AppInstalls : inst[i].pc # "new" =>
    /\ inst[i].done <= 1
    /\ inst[i].pc = "over" /\ ~Terminal(i) => inst[i].done = 1
    /\ inst[i].pc = "shell" => inst[i].done = 1

\* An application that an installation has recorded is in the description too, unless
\* two edits of the settings overlapped (append_vm_description) or the user edited it.
InstalledTagged ==
  \A i \in AppInstalls :
    inst[i].pc \in {"port", "shell"} /\ guest[i] = "ok" /\ ~overlap /\ edits = 0 =>
      App(i) \in row.description /\ App(i) \in shown.description

\* A function key is there once, whichever installations of the application there
\* were, unless two of them registered at the same time.
KeysOnce ==
  \A a \in Apps \ crowded : \A l \in Labels : keys[a][l] <= 1

\* The table of administration URLs and the list the window shows agree when the user
\* edits none of them, and an application's URL is there once.
UrlsAgree ==
  /\ urlTask = NoUrl => urlRows = urlShown
  /\ \A u, w \in urlShown : u[2] = w[2] /\ u[2] \in Apps => u = w

\* Each installation goes on while it can, and so does the VM; the task file, the
\* user and the VM's stop are left to themselves.
AppFair == \A i \in AppInstalls : WF_<<appVars, settingsVars>>(HostSteps(i)) /\ WF_<<appVars, settingsVars>>(EditGoesOn(i))

Ended(i) == inst[i].pc \in {"over", "refused"} \/ (inst[i].pc # "new" /\ inst[i].done = 1)

\* The end of a task file the VM has run is reported or the channel has ended, unless
\* the mark came in two pieces (app-install-done).
EndIsReported ==
  \A i \in AppInstalls :
    guest[i] \in {"ok", "failed"} ~> Ended(i)

\* What the database, the memory of the service and the platform hold of a VM
\* agree when nobody edits it: its settings, its default flag, its URLs.
RecordsAgree == SettingsTypeOK /\ SettingsAgree /\ DefaultStays /\ UrlsAgree

\* An installation is recorded when it has succeeded, reported once, noted in the
\* VM's description, and its function keys are there once.
AppsSafe == AppTypeOK /\ InstalledRan /\ ReportedOnce /\ InstalledTagged /\ KeysOnce
=============================================================================
