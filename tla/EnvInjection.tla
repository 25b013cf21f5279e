---------------------------- MODULE EnvInjection ----------------------------
(***************************************************************************)
(* The environment variables of a VM: the tables of names, the toggles of  *)
(* the user, and the profile script nilbox-envs.sh that the host writes    *)
(* into the guest (commands/env_injection.rs, service.rs, config_store.rs),*)
(* through the agent's write_file, which writes beside the file and        *)
(* renames (inbound/control/file_ops.rs).  The guest's disk outlives the   *)
(* connection.                                                             *)
(***************************************************************************)
EXTENDS Naturals, FiniteSets

CONSTANTS
  Names,        \* names of environment variables
  OAuthNames,   \* token paths of the OAuth providers with a secret file
  Togglers,     \* tasks of set_env_entry_enabled
  Boot,         \* the task that sets a connected VM up
  MaxEnvEdits,  \* bound: toggles and edits of the tables
  MaxBoots      \* bound: connections

\* The tables and the key store name finitely many.
ASSUME EnvAssumption == IsFiniteSet(Names) /\ IsFiniteSet(OAuthNames)

VARIABLES
  provided,   \* env_providers
  custom,     \* custom_env_vars
  row,        \* env_var_entries of the VM
  creds,      \* OAuth names whose credentials are in the key store
  linked,     \* the multiplexer is there
  task,
  content,    \* what the script and its temporary file hold
  secretFiles,    \* OAuth secret files in the guest
  envEdits, boots,
  \* Since a task that was alone last read the rows:
  overlapped, \* two tasks have been under way at once
  failed,     \* a write has failed, or was given up by the host
  unapplied,  \* rows have changed with no task to apply them
  \* And ever:
  orphans,    \* custom names removed while a toggle of them was under way
  clashed     \* two commands have had the temporary file at once

envVars == <<provided, custom, row, creds, linked, task, content, secretFiles,
             envEdits, boots, overlapped, failed, unapplied, orphans, clashed>>
tableVars == <<provided, custom, row, creds>>
guestVars == <<content, secretFiles>>
ghostVars == <<overlapped, failed, unapplied, orphans, clashed>>

Tasks == Togglers \cup {Boot}
NoRow == [state |-> "none", builtin |-> FALSE]
Rested == [pc |-> "rest", name |-> "", on |-> FALSE, builtin |-> FALSE,
           read |-> {}, holds |-> "none", waits |-> FALSE]
NoFile == [there |-> FALSE, names |-> {}, whole |-> FALSE]

EnvInit ==
  /\ provided \in SUBSET Names /\ custom = {}
  /\ row = [n \in Names |-> NoRow]
  /\ creds = {}
  /\ linked = FALSE
  /\ task = [t \in Tasks |-> Rested]
  /\ content = [file |-> NoFile, tmp |-> NoFile]
  /\ secretFiles = {}
  /\ envEdits = 0 /\ boots = 0
  /\ overlapped = FALSE /\ failed = FALSE /\ unapplied = FALSE /\ orphans = {} /\ clashed = FALSE

Enabled == {n \in Names : row[n].state = "on"} \cup creds
Busy == {t \in Tasks : task[t].pc # "rest"}
Settled == Busy = {}

Go(t, r) == task' = [task EXCEPT ![t] = r]

----------------------------------------------------------------------------
(* The tables                                                              *)

EditTables == envEdits < MaxEnvEdits /\ envEdits' = envEdits + 1

\* upsert_custom_env_var
AddCustom(n) ==
  /\ EditTables /\ n \notin custom
  /\ custom' = custom \cup {n}
  /\ UNCHANGED <<provided, row, creds, linked, task, guestVars, boots, ghostVars>>

\* The rows of a custom name that are not a built-in's.
RowsCleared(n) == IF row[n].builtin THEN row ELSE [row EXCEPT ![n] = NoRow]

\* delete_custom_env_var.  Nothing is applied.
RemoveCustom(n) ==
  /\ EditTables /\ n \in custom
  /\ custom' = custom \ {n}
  /\ row' = RowsCleared(n)
  /\ unapplied' = TRUE
  /\ orphans' = IF \E t \in Togglers : task[t].pc = "upsert" /\ task[t].name = n
                  THEN orphans \cup {n} ELSE orphans
  /\ UNCHANGED <<provided, creds, linked, task, guestVars, boots, overlapped, failed, clashed>>

\* update_env_providers_from_store and delete_env_provider: the names are replaced
\* in one transaction, the rows of the VMs stay as they are.
UpdateProviders(s) ==
  /\ EditTables /\ provided' = s /\ s # provided
  /\ UNCHANGED <<custom, row, creds, linked, task, guestVars, boots, ghostVars>>

\* The credentials of an OAuth provider are stored, or deleted.
SetCredentials(s) ==
  /\ EditTables /\ creds' = s /\ s # creds
  /\ unapplied' = TRUE
  /\ UNCHANGED <<provided, custom, row, linked, task, guestVars, boots, overlapped, failed, orphans, clashed>>

\* set_env_entry_enabled, of a name the list shows: whether it is a built-in's is
\* read first ...
BeginToggle(t, n, on) ==
  /\ EditTables /\ task[t].pc = "rest"
  /\ n \in provided \cup custom
  /\ Go(t, [Rested EXCEPT !.pc = "upsert", !.name = n, !.on = on, !.builtin = n \notin custom])
  /\ overlapped' = (overlapped \/ Busy # {})
  /\ UNCHANGED <<tableVars, linked, guestVars, boots, failed, unapplied, orphans, clashed>>

\* ... and the row written, whose builtin flag an update leaves alone.
UpsertRow(t) ==
  /\ task[t].pc = "upsert"
  /\ LET n == task[t].name
         s == IF task[t].on THEN "on" ELSE "off" IN
     row' = [row EXCEPT ![n] = IF @.state = "none" THEN [state |-> s, builtin |-> task[t].builtin]
                                                   ELSE [@ EXCEPT !.state = s]]
  /\ Go(t, [Rested EXCEPT !.pc = "read"])
  /\ UNCHANGED <<provided, custom, creds, linked, guestVars, envEdits, boots, ghostVars>>

----------------------------------------------------------------------------
(* The host's side of the injection                                        *)

\* The names to export: the enabled rows and the OAuth names with credentials.
ReadNames(t) == Enabled

\* What goes on the wire: apply_env_injection always sends the script, the boot
\* only one with a name in it.
Sends(t, s) == linked /\ (t = Boot => s # {})

\* The names are read (apply_env_injection, and the boot's copy of it) and, when
\* there is something to send, a write_file command goes to the agent.
ReadAndSend(t) ==
  /\ task[t].pc = "read"
  /\ LET s == ReadNames(t) IN
     Go(t, IF Sends(t, s) THEN [Rested EXCEPT !.read = s, !.waits = TRUE, !.pc = "open"]
           ELSE IF t = Boot THEN [Rested EXCEPT !.read = s, !.pc = "dummy"] ELSE Rested)
  /\ IF Busy = {t} THEN overlapped' = FALSE /\ failed' = FALSE /\ unapplied' = (~linked)
                   ELSE UNCHANGED <<overlapped, failed>> /\ unapplied' = (unapplied \/ ~linked)
  /\ UNCHANGED <<tableVars, linked, guestVars, envEdits, boots, orphans, clashed>>

\* The host waits 30 seconds for the answer; the agent goes on by itself.
GiveUp(t) ==
  /\ task[t].pc \in {"open", "write", "rename"} /\ task[t].waits
  /\ Go(t, [task[t] EXCEPT !.waits = FALSE])
  /\ failed' = TRUE
  /\ UNCHANGED <<tableVars, linked, guestVars, envEdits, boots, overlapped, unapplied, orphans, clashed>>

\* The secret files for the names that were read.
DummyFiles(t) == task[t].read \cap OAuthNames

\* After the script the secret files, for the names just read (an error is logged).
Dummies(t) ==
  /\ task[t].pc = "dummy"
  /\ \/ linked /\ secretFiles' = secretFiles \cup DummyFiles(t) /\ UNCHANGED failed
     \/ UNCHANGED secretFiles /\ failed' = TRUE
  /\ Go(t, Rested)
  /\ UNCHANGED <<tableVars, linked, content, envEdits, boots, overlapped, unapplied, orphans, clashed>>

----------------------------------------------------------------------------
(* The agent: handle_write_file, one task for each command                 *)

\* fault: the script is written in place
TmpPathInPlace == "file"

\* tmp_path: the file a command writes to before it renames it.
TmpPath == "tmp"

\* The temporary file, whose name is the same for every command, is made or truncated ...
OpenTmp(t) ==
  /\ task[t].pc = "open" /\ linked
  /\ content' = [content EXCEPT ![TmpPath] = [NoFile EXCEPT !.there = TRUE]]
  /\ Go(t, [task[t] EXCEPT !.pc = "write", !.holds = TmpPath])
  /\ clashed' = (clashed \/ \E u \in Tasks : task[u].holds # "none")
  /\ UNCHANGED <<tableVars, linked, secretFiles, envEdits, boots, overlapped, failed, unapplied, orphans>>

\* ... and written, wherever a rename has moved it; what another command has
\* written past the end stays.
WriteTmp(t) ==
  /\ task[t].pc = "write" /\ linked
  /\ LET h == task[t].holds
         mine == task[t].read IN
     content' = IF h = "lost" THEN content ELSE
                  [content EXCEPT ![h] =
                     IF Cardinality(@.names) > Cardinality(mine)
                       THEN [there |-> TRUE, names |-> mine \cup @.names, whole |-> FALSE]
                       ELSE [there |-> TRUE, names |-> mine, whole |-> TRUE]]
  /\ Go(t, [task[t] EXCEPT !.pc = "rename"])
  /\ UNCHANGED <<tableVars, linked, secretFiles, envEdits, boots, ghostVars>>

\* The host's task after the answer: the secret files when the write went well,
\* and for the boot in any case.
After(t, ok) ==
  IF t = Boot \/ (ok /\ task[t].waits) THEN [Rested EXCEPT !.pc = "dummy", !.read = task[t].read] ELSE Rested

\* What the others hold after a rename.
Moved(h) == CASE h = "tmp" -> "file" [] h = "file" -> "lost" [] OTHER -> h

\* The temporary file takes the script's place; the rename fails when another
\* command has taken it.
RenameTmp(t) ==
  /\ task[t].pc = "rename" /\ linked
  /\ LET ok == content[TmpPath].there IN
     /\ content' = IF ok THEN [content EXCEPT !.file = content[TmpPath], !.tmp = NoFile] ELSE content
     /\ task' = [u \in Tasks |-> IF u = t THEN After(t, ok)
                                ELSE IF ok THEN [task[u] EXCEPT !.holds = Moved(@)] ELSE task[u]]
     /\ failed' = (failed \/ ~ok)
  /\ UNCHANGED <<tableVars, linked, secretFiles, envEdits, boots, overlapped, unapplied, orphans, clashed>>

----------------------------------------------------------------------------
(* The VM                                                                  *)

\* The VM connects and is set up.
Connect ==
  /\ ~linked /\ task[Boot].pc = "rest" /\ boots < MaxBoots
  /\ linked' = TRUE /\ boots' = boots + 1
  /\ Go(Boot, [Rested EXCEPT !.pc = "read"])
  /\ overlapped' = (overlapped \/ Busy # {})
  /\ UNCHANGED <<tableVars, guestVars, envEdits, failed, unapplied, orphans, clashed>>

\* The VM goes: the commands under way get no answer, a temporary file stays on disk.
LinkDown ==
  /\ linked
  /\ linked' = FALSE
  /\ task' = [t \in Tasks |-> IF task[t].pc \in {"open", "write", "rename", "dummy"} THEN Rested ELSE task[t]]
  /\ failed' = (failed \/ task' # task)
  /\ UNCHANGED <<tableVars, guestVars, envEdits, boots, overlapped, unapplied, orphans, clashed>>

EnvNext ==
  \/ Connect \/ LinkDown
  \/ \E s \in SUBSET Names : UpdateProviders(s)
  \/ \E s \in SUBSET OAuthNames : SetCredentials(s)
  \/ \E n \in Names : AddCustom(n) \/ RemoveCustom(n)
  \/ \E t \in Togglers : \/ UpsertRow(t)
                         \/ \E n \in Names, on \in BOOLEAN : BeginToggle(t, n, on)
  \/ \E t \in Tasks : \/ ReadAndSend(t) \/ GiveUp(t) \/ Dummies(t)
                      \/ OpenTmp(t) \/ WriteTmp(t) \/ RenameTmp(t)

----------------------------------------------------------------------------
Script == content.file

\* What the guest's script exports is what is enabled, once a VM that is connected
\* has no command under way: unless tasks overlapped, a write failed, the change
\* was not to be applied, or nothing is enabled and a boot skipped the script.
ScriptCurrent ==
  Settled /\ linked /\ ~overlapped /\ ~failed /\ ~unapplied =>
    Script.names = Enabled \/ Enabled = {}

\* The script in place is a whole one whenever the VM goes, unless two commands
\* have written it at once.
ScriptWhole == Script.there => Script.whole \/ clashed

\* A variable that names a secret file is exported only with that file in the
\* guest, once nothing is under way and no write has failed.
ExportHasFile ==
  Settled /\ linked /\ ~overlapped /\ ~failed /\ ~unapplied /\ Script.names = Enabled =>
    Script.names \cap OAuthNames \subseteq secretFiles

\* A custom name that is gone leaves no row behind, unless a toggle of it was under way.
NoOrphanRow ==
  \A n \in Names : row[n].state # "none" /\ ~row[n].builtin => n \in custom \cup orphans

\* The variables in the guest are the ones enabled on the host: a whole script,
\* with the secret files it names, and no row of a name that is gone.
EnvSafe == ScriptCurrent /\ ScriptWhole /\ ExportHasFile /\ NoOrphanRow
=============================================================================
