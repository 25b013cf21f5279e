--------------------------- MODULE OAuthProviders ---------------------------
(***************************************************************************)
(* The OAuth providers: rows in the config database, the store's signed    *)
(* scripts in the key store, and the engine the proxy uses, which is made  *)
(* from them (commands/env_injection.rs, config_store.rs,                  *)
(* proxy/oauth_script_engine.rs).  The store publishes lists and the user  *)
(* adds providers of his own.                                              *)
(***************************************************************************)
EXTENDS Naturals, FiniteSets

CONSTANTS
  Offered,       \* providers the store may list
  Own,           \* ids of the user's providers; they begin with "custom-"
  Updaters,      \* tasks: updates from the store, saves and deletes of the user
  MaxLists,      \* bound: lists the store publishes
  MaxTasks       \* bound: tasks that begin

ASSUME OAuthAssumption == MaxLists \in Nat /\ MaxTasks \in Nat

VARIABLES
  list,      \* the list the store answers with: provider -> its script
  lists,     \* how often it has changed
  rows,      \* oauth_providers: the store's and the user's
  scripts,   \* OAUTH_SCRIPT entries of the key store
  inUse,     \* the providers of the engine in use, with their scripts
  served,    \* a VM has been started since the program was
  upd,       \* the tasks
  begun,
  crossed    \* tasks have overlapped since one alone last read the key store

oauthVars == <<list, lists, rows, scripts, inUse, served, upd, begun, crossed>>

\* A script: not there, without a valid signature, or the one of a list.
NoScript == 0
Forged == MaxLists + 1
Scripts == 0 .. MaxLists + 1

NoUpdate == [pc |-> "rest", got |-> [p \in Offered |-> NoScript], listed |-> {}, todo |-> {},
             saved |-> FALSE, loaded |-> [p \in Offered |-> NoScript]]
Published(s, f) == [listed |-> s, script |-> f]

OAuthInit ==
  /\ list = Published({}, [p \in Offered |-> NoScript]) /\ lists = 0
  /\ rows = [store |-> {}, own |-> {}]
  /\ scripts = [p \in Offered |-> NoScript]
  /\ inUse = [p \in Offered |-> NoScript] /\ served = FALSE
  /\ upd = [u \in Updaters |-> NoUpdate]
  /\ begun = 0 /\ crossed = FALSE

Updating == {u \in Updaters : upd[u].pc # "rest"}
Goes(u, r) == upd' = [upd EXCEPT ![u] = r]

\* The store publishes another list, each provider with no script, one that is
\* not signed well, or a new one.
PublishList(s, f) ==
  /\ lists < MaxLists
  /\ lists' = lists + 1
  /\ list' = Published(s, [p \in Offered |-> IF p \in s THEN f[p] ELSE NoScript])
  /\ UNCHANGED <<served, rows, scripts, inUse, upd, begun, crossed>>

Begin(u) ==
  /\ upd[u].pc = "rest" /\ begun < MaxTasks
  /\ begun' = begun + 1
  /\ crossed' = (crossed \/ Updating # {})

----------------------------------------------------------------------------
(* fetch_and_save_oauth_providers                                          *)

\* The signed list is fetched; any error ends the task.
FetchList(u) ==
  /\ Begin(u)
  /\ Goes(u, [NoUpdate EXCEPT !.pc = "rows", !.listed = list.listed, !.got = list.script])
  /\ UNCHANGED <<served, list, lists, rows, scripts, inUse>>

\* update_oauth_providers, one transaction: all but the user's rows are replaced.
RowsUpdated(s) == [rows EXCEPT !.store = s]

UpdateRows(u) ==
  /\ upd[u].pc = "rows"
  /\ rows' = RowsUpdated(upd[u].listed)
  /\ Goes(u, [upd[u] EXCEPT !.pc = "scripts",
                            !.todo = {p \in upd[u].listed : upd[u].got[p] # NoScript}])
  /\ UNCHANGED <<served, list, lists, scripts, inUse, begun, crossed>>

\* The signature of a script, checked with the store's keys.
Verifies(s) == s # Forged

\* One script after the other: skipped when its signature is bad; an error of the
\* key store is logged.
SaveScript(u) ==
  /\ upd[u].pc = "scripts"
  /\ \E p \in upd[u].todo :
       LET next == [upd[u] EXCEPT !.todo = @ \ {p}] IN
       \/ /\ Verifies(upd[u].got[p])
          /\ scripts' = [scripts EXCEPT ![p] = upd[u].got[p]]
          /\ Goes(u, [next EXCEPT !.saved = TRUE])
       \/ Goes(u, next) /\ UNCHANGED scripts
  /\ UNCHANGED <<served, list, lists, rows, inUse, begun, crossed>>

\* fault: the engine is made anew only at the next start
ReloadsNot(u) == FALSE

\* The engine is made anew when a script has been saved.
Reloads(u) == upd[u].saved

ScriptsDone(u) ==
  /\ upd[u].pc = "scripts" /\ upd[u].todo = {}
  /\ Goes(u, IF Reloads(u) THEN [NoUpdate EXCEPT !.pc = "load"] ELSE NoUpdate)
  /\ UNCHANGED <<served, list, lists, rows, scripts, inUse, begun, crossed>>

----------------------------------------------------------------------------
(* The engine                                                              *)

\* OAuthScriptEngine::load_all: every script of the key store whose signature is
\* good.  The user's scripts are compiled and dropped.
Loaded == [p \in Offered |-> IF scripts[p] = Forged THEN NoScript ELSE scripts[p]]

LoadEngine(u) ==
  /\ upd[u].pc = "load"
  /\ Goes(u, [NoUpdate EXCEPT !.pc = "swap", !.loaded = Loaded])
  /\ crossed' = (crossed /\ Updating # {u})
  /\ UNCHANGED <<served, list, lists, rows, scripts, inUse, begun>>

SwapEngine(u) ==
  /\ upd[u].pc = "swap"
  /\ inUse' = upd[u].loaded
  /\ Goes(u, NoUpdate)
  /\ UNCHANGED <<served, list, lists, rows, scripts, begun, crossed>>

\* A VM is started: the engine is made anew before its proxy serves it.
StartVm(u) ==
  /\ Begin(u)
  /\ served' = TRUE
  /\ Goes(u, [NoUpdate EXCEPT !.pc = "load"])
  /\ UNCHANGED <<list, lists, rows, scripts, inUse>>

\* The program ends, whatever is under way, and starts again with an empty engine.
Restart ==
  /\ inUse' = [p \in Offered |-> NoScript] /\ served' = FALSE
  /\ upd' = [u \in Updaters |-> NoUpdate]
  /\ crossed' = FALSE
  /\ UNCHANGED <<list, lists, rows, scripts, begun>>

----------------------------------------------------------------------------
(* The user's providers                                                    *)

\* save_custom_oauth_provider, and the engine is made anew.
SaveOwn(u, p) ==
  /\ Begin(u)
  /\ rows' = [rows EXCEPT !.own = @ \cup {p}]
  /\ Goes(u, [NoUpdate EXCEPT !.pc = "load"])
  /\ UNCHANGED <<served, list, lists, scripts, inUse>>

\* delete_custom_oauth_provider: an error when there is no such row.  (The entries
\* it clears from the key store are those of its own id.)
DeleteOwn(u, p) ==
  /\ Begin(u) /\ p \in rows.own
  /\ rows' = [rows EXCEPT !.own = @ \ {p}]
  /\ Goes(u, [NoUpdate EXCEPT !.pc = "load"])
  /\ UNCHANGED <<served, list, lists, scripts, inUse>>

OAuthNext ==
  \/ \E s \in SUBSET Offered, f \in [Offered -> {NoScript, Forged, lists + 1}] : PublishList(s, f)
  \/ Restart
  \/ \E u \in Updaters : \/ StartVm(u) \/ FetchList(u) \/ UpdateRows(u) \/ SaveScript(u) \/ ScriptsDone(u)
                         \/ LoadEngine(u) \/ SwapEngine(u)
                         \/ \E p \in Own : SaveOwn(u, p) \/ DeleteOwn(u, p)

OAuthSpec == OAuthInit /\ [][OAuthNext]_oauthVars

----------------------------------------------------------------------------
\* Once a VM has been started, the engine in use is what the key store now holds
\* when no task is under way, unless tasks overlapped: no save is left without the
\* reload, whenever the program ended before.
EngineCurrent == served /\ Updating = {} /\ ~crossed => inUse = Loaded

\* A script the key store holds is one some list of the store carried and signed.
ScriptsSigned == \A p \in Offered : scripts[p] # Forged

\* The OAuth engine serves what update_oauth_providers has verified and saved:
\* the current scripts, and none whose signature was not checked.
ProvidersSafe == EngineCurrent /\ ScriptsSigned
=============================================================================
