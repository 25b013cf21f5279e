----------------------------- MODULE ConfigBoot -----------------------------
(***************************************************************************)
(* The config database from the start of the process on (config_store.rs,  *)
(* main.rs): open creates or upgrades the schema, a config.json of an old  *)
(* version is migrated, the default and system domains are seeded, and the *)
(* allowlist is then edited while the proxy reads the bypass domains from  *)
(* a cache.  Each statement outside a transaction is durable by itself,    *)
(* and the process may end between any two.                                *)
(***************************************************************************)
EXTENDS Naturals, FiniteSets

CONSTANTS
  UserDomains,     \* domains seeded on the first launch, and edited by the user
  SystemDomains,   \* SYSTEM_BYPASS_DOMAINS
  Editors,         \* tasks that edit the allowlist
  MaxOpens,        \* bound: starts of the process
  MaxEdits         \* bound: edits of the allowlist

\* None of the defaults is bypassed by the system.
ASSUME SeedsAssumption == UserDomains \cap SystemDomains = {}

VARIABLES
  tables,    \* "none", "part" or "all" of the tables are there
  columns,   \* columns added by upgrades that are there
  recorded,  \* the versions in schema_version
  json,      \* config.json: "none", "there" or "bak"
  migrated,  \* VMs the migration has inserted and that are there
  allow,     \* domain_allowlist: domain -> [mode, system]
  pc,        \* where the start of the process is; "run" after it
  version,   \* current_version, read when open began
  unseeded,  \* domains this start still has to seed
  cache,     \* bypass_cache
  editor,    \* the tasks that edit
  opens, edits,
  cut,       \* the process has ended in the middle of a start
  raced,     \* two edits have overlapped since an edit alone last read the table
  demoted    \* a bypass domain has been added again for inspection since

schemaVars == <<tables, columns, recorded, version>>
configVars == <<schemaVars, json, migrated, allow, pc, unseeded, cache, editor,
                opens, edits, cut, raced, demoted>>

Domains == UserDomains \cup SystemDomains
Added == {"manifest_version", "inspect_mode", "is_system"}
Absent == [mode |-> "absent", system |-> FALSE]
NoEdit == [pc |-> "idle", read |-> {}]

\* A new file, or the file of an earlier version.
ConfigInit ==
  /\ \/ tables = "none" /\ columns = {} /\ recorded = {} /\ json \in {"none", "there"}
     \/ /\ tables = "all" /\ json = "none"
        /\ \/ recorded = {38} /\ columns \in {{}, {"inspect_mode", "is_system"}}
           \/ recorded = {39} /\ columns = {"inspect_mode", "is_system"}
  /\ migrated = 0
  /\ allow = [d \in Domains |-> Absent]
  /\ pc = "down" /\ version = 0 /\ unseeded = {} /\ cache = {}
  /\ editor = [e \in Editors |-> NoEdit]
  /\ opens = 0 /\ edits = 0 /\ cut = FALSE /\ raced = FALSE /\ demoted = FALSE

Data == <<json, migrated, allow>>
Memory == <<cache, editor, raced, demoted>>
Counts == <<opens, edits, cut>>

\* One statement of the start of the process.
At(l) == pc = l /\ UNCHANGED <<Counts, editor, raced, demoted>>
To(l) == pc' = l

----------------------------------------------------------------------------
(* open and init_schema                                                    *)

MaxOf(s) == CHOOSE v \in s : \A w \in s : w <= v

\* open: schema_version is made when it is not there and its highest version read.
Open ==
  /\ pc = "down" /\ opens < MaxOpens
  /\ opens' = opens + 1
  /\ version' = IF recorded = {} THEN 0 ELSE MaxOf(recorded)
  /\ pc' = IF recorded = {} THEN "create" ELSE "v40"
  /\ UNCHANGED <<tables, columns, recorded, Data, Memory, unseeded, edits, cut>>

\* A new database gets its tables, one CREATE after the other and none of them
\* IF NOT EXISTS: left over from a start cut short, the first one fails and with
\* it the start.
CreateFirst ==
  /\ At("create")
  /\ IF tables = "none" THEN tables' = "part" /\ To("create_rest") ELSE To("failed") /\ UNCHANGED tables
  /\ UNCHANGED <<columns, recorded, version, Data, unseeded, cache>>

CreateRest ==
  /\ At("create_rest")
  /\ tables' = "all" /\ columns' = {"inspect_mode", "is_system"}
  /\ To("record38")
  /\ UNCHANGED <<recorded, version, Data, unseeded, cache>>

\* The version that is recorded for a new schema.
NewVersion == {38}

\* The built-in providers and settings are inserted and the version recorded.
\* The upgrades below are then skipped: version is still 0.
Record38 ==
  /\ At("record38")
  /\ recorded' = recorded \cup NewVersion
  /\ To("cache")
  /\ UNCHANGED <<tables, columns, version, Data, unseeded, cache>>

Behind(v) == 0 < version /\ version < v

\* v40: manifest_version, if it is not there, then the record.
V40 ==
  /\ At("v40")
  /\ IF Behind(40) THEN columns' = columns \cup {"manifest_version"} /\ To("record40")
                   ELSE To("v39") /\ UNCHANGED columns
  /\ UNCHANGED <<tables, recorded, version, Data, unseeded, cache>>

Record40 ==
  /\ At("record40")
  /\ recorded' = recorded \cup {40} /\ To("v39")
  /\ UNCHANGED <<tables, columns, version, Data, unseeded, cache>>

\* fault: the version is read again, after the upgrade before has recorded its own
BehindV39Now == MaxOf(recorded) < 39

\* Whether the upgrade to 39 is due, by the version read at the start.
BehindV39 == Behind(39)

\* v39, after v40: two columns, looked for by the first of them only.
V39 ==
  /\ At("v39")
  /\ IF ~BehindV39 THEN To("cache") /\ UNCHANGED columns
     ELSE IF "inspect_mode" \in columns THEN To("record39") /\ UNCHANGED columns
     ELSE columns' = columns \cup {"inspect_mode"} /\ To("v39_system")
  /\ UNCHANGED <<tables, recorded, version, Data, unseeded, cache>>

V39System ==
  /\ At("v39_system")
  /\ columns' = columns \cup {"is_system"} /\ To("record39")
  /\ UNCHANGED <<tables, recorded, version, Data, unseeded, cache>>

Record39 ==
  /\ At("record39")
  /\ recorded' = recorded \cup {39} /\ To("cache")
  /\ UNCHANGED <<tables, columns, version, Data, unseeded, cache>>

Bypassed == {d \in Domains : allow[d].mode = "bypass"}

\* The cache is loaded at the end of open; an error is ignored.
LoadCache ==
  /\ At("cache")
  /\ cache' = IF "inspect_mode" \in columns THEN Bypassed ELSE {}
  /\ To("migrate")
  /\ UNCHANGED <<schemaVars, Data, unseeded>>

----------------------------------------------------------------------------
(* The rest of the start                                                   *)

\* migrate_from_json is not done again once there are VMs.
NoVms == migrated = 0

\* migrate_from_json: the legacy VM, its mappings and its domains in one
\* transaction ...  (The domains are taken to be none of the system's: one that
\* the user has already is left as it is by all that follows.)
Migrate ==
  /\ At("migrate")
  /\ IF json = "there" /\ NoVms
       THEN /\ migrated' = migrated + 1 /\ To("rename")
            /\ \E s \in SUBSET UserDomains :
                 allow' = [d \in Domains |-> IF d \in s /\ allow[d] = Absent
                                               THEN [mode |-> "inspect", system |-> FALSE] ELSE allow[d]]
       ELSE To("seed") /\ UNCHANGED <<migrated, allow>>
  /\ UNCHANGED <<schemaVars, json, unseeded, cache>>

\* ... and then the file is renamed; an error of either is logged.
Rename ==
  /\ At("rename")
  /\ json' \in {"bak", "there"} /\ To("seed")
  /\ UNCHANGED <<schemaVars, migrated, allow, unseeded, cache>>

\* seed_default_allowlist: the defaults when no domain is the user's.  Without
\* is_system the count fails and nothing is seeded.
Seed ==
  /\ At("seed")
  /\ IF "is_system" \notin columns THEN To("run") /\ UNCHANGED unseeded
     ELSE /\ unseeded' = IF \A d \in Domains : allow[d].mode = "absent" \/ allow[d].system
                           THEN UserDomains ELSE {}
          /\ To("seeding")
  /\ UNCHANGED <<schemaVars, Data, cache>>

\* insert_allowlist_domain of one default.
SeedOne ==
  /\ At("seeding")
  /\ \E d \in unseeded : /\ allow' = [allow EXCEPT ![d] = [mode |-> "inspect", system |-> FALSE]]
                         /\ unseeded' = unseeded \ {d}
  /\ UNCHANGED <<schemaVars, json, migrated, cache, pc>>

\* seed_system_bypass_domains: inserted when absent, and set to bypass when they
\* are the system's, under one lock; the cache is loaded after it.
\* (SYSTEM_ALLOWLIST_DOMAINS, which are inspected, are left out.)
SeedSystem ==
  /\ At("seeding") /\ unseeded = {}
  /\ allow' = [d \in Domains |->
                 IF d \in SystemDomains /\ (allow[d].mode = "absent" \/ allow[d].system)
                   THEN [mode |-> "bypass", system |-> TRUE] ELSE allow[d]]
  /\ To("seeded")
  /\ UNCHANGED <<schemaVars, json, migrated, unseeded, cache>>

SeededCache ==
  /\ At("seeded")
  /\ cache' = Bypassed /\ To("run")
  /\ UNCHANGED <<schemaVars, Data, unseeded>>

----------------------------------------------------------------------------
(* Edits of the allowlist while the process runs                           *)

Editing == {e \in Editors : editor[e].pc # "idle"}
CanEdit(e) == pc = "run" /\ editor[e].pc = "idle" /\ edits < MaxEdits /\ "is_system" \in columns

EditStep(e, refresh) ==
  /\ editor' = [editor EXCEPT ![e].pc = IF refresh THEN "read" ELSE "idle"]
  /\ edits' = edits + 1
  /\ raced' = (raced \/ Editing # {})
  /\ UNCHANGED <<schemaVars, json, migrated, pc, unseeded, cache, opens, cut>>

\* INSERT ... ON CONFLICT DO UPDATE ... WHERE is_system = 0
Upsert(d, m) == IF allow[d].system THEN allow[d] ELSE [mode |-> m, system |-> FALSE]

\* The cache is loaded anew when a domain is added for bypass.
RefreshAfter(m) == m = "bypass"

\* insert_allowlist_domain_with_mode
AddDomain(e, d, m) ==
  /\ CanEdit(e)
  /\ allow' = [allow EXCEPT ![d] = Upsert(d, m)]
  /\ demoted' = (demoted \/ (d \in Bypassed /\ m = "inspect" /\ ~allow[d].system))
  /\ EditStep(e, RefreshAfter(m))

\* delete_allowlist_domain: refused for a system domain.
RemoveDomain(e, d) ==
  /\ CanEdit(e) /\ ~allow[d].system
  /\ allow' = [allow EXCEPT ![d] = Absent]
  /\ UNCHANGED demoted
  /\ EditStep(e, TRUE)

\* refresh_bypass_cache reads the table under the connection's lock ...
RefreshRead(e) ==
  /\ editor[e].pc = "read"
  /\ editor' = [editor EXCEPT ![e] = [pc |-> "write", read |-> Bypassed]]
  /\ raced' = (raced /\ Editing # {e})
  /\ demoted' = (demoted /\ Editing # {e})
  /\ UNCHANGED <<schemaVars, Data, pc, unseeded, cache, Counts>>

\* ... and writes the cache under its own.
RefreshWrite(e) ==
  /\ editor[e].pc = "write"
  /\ cache' = editor[e].read
  /\ editor' = [editor EXCEPT ![e] = NoEdit]
  /\ UNCHANGED <<schemaVars, Data, pc, unseeded, Counts, raced, demoted>>

\* The user deletes the VM the migration made.
DeleteVm ==
  /\ pc = "run" /\ migrated > 0 /\ "manifest_version" \in columns
  /\ migrated' = 0
  /\ UNCHANGED <<schemaVars, json, allow, pc, unseeded, Memory, Counts>>

\* The process ends, at any point; a start that failed has ended it.
Stop ==
  /\ pc # "down"
  /\ cut' = (cut \/ pc \notin {"run", "failed"})
  /\ pc' = "down" /\ cache' = {} /\ unseeded' = {}
  /\ editor' = [e \in Editors |-> NoEdit]
  /\ raced' = FALSE /\ demoted' = FALSE
  /\ UNCHANGED <<schemaVars, Data, opens, edits>>

ConfigNext ==
  \/ Open \/ CreateFirst \/ CreateRest \/ Record38
  \/ V40 \/ Record40 \/ V39 \/ V39System \/ Record39 \/ LoadCache
  \/ Migrate \/ Rename \/ Seed \/ SeedOne \/ SeedSystem \/ SeededCache
  \/ DeleteVm \/ Stop
  \/ \E e \in Editors : \/ RefreshRead(e) \/ RefreshWrite(e)
                        \/ \E d \in Domains : \/ RemoveDomain(e, d)
                                              \/ \E m \in {"inspect", "bypass"} : AddDomain(e, d, m)

----------------------------------------------------------------------------
\* A database that was there before this start has every column once the process
\* runs, whichever version it came from, unless some start was cut short.
UpgradedWhole == pc = "run" /\ version > 0 /\ ~cut => columns = Added

\* The start fails only on what an earlier start that was cut short left behind.
FailsOnlyAfterCut == pc = "failed" => cut

\* The VM of an old config.json is there once, however often the process ends
\* between the migration and the renaming of the file.
MigratedOnce == migrated <= 1

\* The proxy bypasses the system's domains, whatever the user adds and removes.
SystemBypassed ==
  pc = "run" /\ "is_system" \in columns => SystemDomains \subseteq Bypassed

\* While no edit is under way the cache has every domain the table bypasses, and
\* no other but one that was added again for inspection, unless edits overlapped.
CacheCurrent ==
  pc = "run" /\ "is_system" \in columns /\ Editing = {} /\ ~raced =>
    Bypassed \subseteq cache /\ (cache \subseteq Bypassed \/ demoted)

\* init_schema's promise: a new database is made with the full current schema.
FreshSchemaFull == pc = "run" /\ version = 0 => columns = Added

\* The database after any sequence of starts, some of them cut short: upgraded as
\* a whole or refused, the old file migrated once, the system's domains bypassed,
\* and the cache of the bypassed domains current.
ConfigSafe == UpgradedWhole /\ FailsOnlyAfterCut /\ MigratedOnce /\ SystemBypassed /\ CacheCurrent
=============================================================================
