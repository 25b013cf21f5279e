----------------------------- MODULE VmSettings -----------------------------
(***************************************************************************)
(* The settings of one VM, kept three times: its row of the database, the  *)
(* fields of its VmInstance that the window shows, and the configuration   *)
(* its platform starts it with.  Every edit reads the whole row, writes    *)
(* the whole row, then the field, then (memory and cpus) the platform, and *)
(* nothing holds the three together.                                       *)
(***************************************************************************)
EXTENDS Naturals, FiniteSets

CONSTANTS
  Editors,    \* tasks that edit the settings
  Tags,       \* names of applications, written into the description
  MaxValue,   \* bound: values memory, cpus and name take
  MaxEdits    \* bound: edits that are counted

ASSUME SettingsAssumption == MaxValue \in Nat /\ MaxEdits \in Nat

VARIABLES
  row,        \* the row of vms: [memory, cpus, name, description, default]
  shown,      \* the fields of the VmInstance: [memory, cpus, name, description]
  platform,   \* the configuration the platform has: [memory, cpus]
  booted,     \* the configuration the running VM was started with, or NotBooted
  editor,     \* per task: [pc, field, value, read]
  edits,      \* edits so far; of those AppInstall makes, the user's only
  overlap,    \* two edits, or an edit and a start, have overlapped since the launch
  moved       \* another VM has been made the default while nobody edited

settingsVars == <<row, shown, platform, booted, editor, edits, overlap, moved>>

Config == {"memory", "cpus"}
Fields == Config \cup {"name", "description"}
NotBooted == [stopped |-> TRUE]
NoEditing == [pc |-> "idle"]

ConfigOf(r) == [f \in Config |-> r[f]]
ShownOf(r) == [f \in Fields |-> r[f]]

\* create_vm: the row is the default VM's, and platform and fields are made from it.
SettingsInit ==
  /\ row = [memory |-> 0, cpus |-> 0, name |-> 0, description |-> {}, default |-> TRUE]
  /\ shown = ShownOf(row) /\ platform = ConfigOf(row) /\ booted = NotBooted
  /\ editor = [e \in Editors |-> NoEditing]
  /\ edits = 0 /\ overlap = FALSE /\ moved = FALSE

Rows == [memory : 0..MaxValue, cpus : 0..MaxValue, name : 0..MaxValue,
         description : SUBSET Tags, default : BOOLEAN]

SettingsTypeOK ==
  /\ row \in Rows
  /\ shown \in {ShownOf(r) : r \in Rows}
  /\ platform \in [Config -> 0..MaxValue]
  /\ booted \in {NotBooted} \cup [Config -> 0..MaxValue]
  /\ \A e \in Editors :
       /\ editor[e].pc \in {"idle", "get", "update", "show", "create"}
       /\ editor[e].pc \in {"update", "show", "create"} => editor[e].read \in Rows

ActiveEdits == {e \in Editors : editor[e].pc # "idle"}

\* An edit begins: memory and cpus are refused while the VM runs.
BeginEdit(e, f, v) ==
  /\ editor[e].pc = "idle"
  /\ f \in Config => booted = NotBooted
  /\ editor' = [editor EXCEPT ![e] = [pc |-> "get", field |-> f, value |-> v]]
  /\ overlap' = (overlap \/ ActiveEdits # {})
  /\ UNCHANGED <<row, shown, platform, booted, moved>>

\* get_vm: the whole row.
GetRow(e) ==
  /\ editor[e].pc = "get"
  /\ editor' = [editor EXCEPT ![e] = [pc |-> "update", field |-> @.field, value |-> @.value, read |-> row]]
  /\ UNCHANGED <<row, shown, platform, booted, overlap, moved, edits>>

Edited(e) == [editor[e].read EXCEPT ![editor[e].field] = editor[e].value]

\* What update_vm writes: the row as it was read, with the field changed.
RowWritten(e) == Edited(e)

UpdateRow(e) ==
  /\ editor[e].pc = "update"
  /\ row' = RowWritten(e)
  /\ editor' = [editor EXCEPT ![e].pc = "show"]
  /\ UNCHANGED <<shown, platform, booted, overlap, moved, edits>>

\* The field of the VmInstance.
ShowField(e) ==
  /\ editor[e].pc = "show"
  /\ shown' = [shown EXCEPT ![editor[e].field] = editor[e].value]
  /\ editor' = [editor EXCEPT ![e] = IF @.field \in Config THEN [@ EXCEPT !.pc = "create"] ELSE NoEditing]
  /\ UNCHANGED <<row, platform, booted, overlap, moved, edits>>

\* fault: the platform is given the row as it was read
NewConfigStale(e) == ConfigOf(editor[e].read)

\* The configuration the platform is given: the row that was written.
NewConfig(e) == ConfigOf(Edited(e))

CreatePlatform(e) ==
  /\ editor[e].pc = "create"
  /\ platform' = NewConfig(e)
  /\ editor' = [editor EXCEPT ![e] = NoEditing]
  /\ UNCHANGED <<row, shown, booted, overlap, moved, edits>>

Counted == edits < MaxEdits /\ edits' = edits + 1
UpdateMemory(e) == Counted /\ \E v \in 1..MaxValue : BeginEdit(e, "memory", v)
UpdateCpus(e) == Counted /\ \E v \in 1..MaxValue : BeginEdit(e, "cpus", v)
UpdateName(e) == Counted /\ \E v \in 1..MaxValue : BeginEdit(e, "name", v)
UpdateDescription(e) == Counted /\ \E d \in SUBSET Tags : BeginEdit(e, "description", d)

\* The description with the tag.
WithTag(t) == shown.description \cup {t}

\* append_vm_description: nothing to do when the shown description has the tag,
\* else the row is edited with what is shown and the tag.
HasTag(t) == t \in shown.description
AppendTag(e, t) == ~HasTag(t) /\ BeginEdit(e, "description", WithTag(t))

\* set_default_vm, for a VM that is created or installed: no other row stays default.
DefaultMoves ==
  /\ row' = [row EXCEPT !.default = FALSE]
  /\ moved' = (moved \/ ActiveEdits = {})
  /\ UNCHANGED <<shown, platform, booted, editor, overlap, edits>>

\* The platform starts the VM with the configuration it has.
Boot ==
  /\ booted = NotBooted
  /\ booted' = platform
  /\ overlap' = (overlap \/ ActiveEdits # {})
  /\ UNCHANGED <<row, shown, platform, editor, moved, edits>>

PowerOff ==
  /\ booted # NotBooted
  /\ booted' = NotBooted
  /\ UNCHANGED <<row, shown, platform, editor, overlap, moved, edits>>

\* The program ends, at any point, and is launched again: register_vm.
Relaunch ==
  /\ editor' = [e \in Editors |-> NoEditing]
  /\ shown' = ShownOf(row) /\ platform' = ConfigOf(row) /\ booted' = NotBooted
  /\ overlap' = FALSE
  /\ UNCHANGED <<row, moved, edits>>

EditSteps(e) == GetRow(e) \/ UpdateRow(e) \/ ShowField(e) \/ CreatePlatform(e)

SettingsNext ==
  \/ \E e \in Editors : \/ UpdateMemory(e) \/ UpdateCpus(e) \/ UpdateName(e)
                        \/ UpdateDescription(e) \/ EditSteps(e)
                        \/ Counted /\ \E t \in Tags : AppendTag(e, t)
  \/ DefaultMoves \/ Boot \/ PowerOff \/ Relaunch

----------------------------------------------------------------------------
\* The row, the fields and the platform agree when no edit is under way, and a
\* running VM has the settings the window shows, unless edits overlapped
\* (update_vm_memory .. update_vm_description, append_vm_description).
SettingsAgree ==
  ActiveEdits = {} /\ ~overlap =>
    /\ shown = ShownOf(row) /\ platform = ConfigOf(row)
    /\ booted \in {NotBooted, ConfigOf(row)}

\* A VM that gave up being the default stays so: no edit of another column puts
\* the flag back (update_vm writes every column).
DefaultStays == moved => ~row.default
=============================================================================
