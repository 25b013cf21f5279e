----------------------------- MODULE OAuthVault -----------------------------
(***************************************************************************)
(* The OAuth side of the proxy: token exchanges and refreshes whose answers *)
(* are intercepted and stored in the keystore (OAuthTokenVault), the dummy   *)
(* tokens the VM gets instead, their use against a domain bound on first     *)
(* use, the deletion of sessions, and the script engine that says what a      *)
(* token endpoint is.                                                        *)
(*                                                                         *)
(* A keystore get or set is one step; everything between two of them can     *)
(* interleave with other calls on the same session.                         *)
(***************************************************************************)
EXTENDS Naturals, FiniteSets

CONSTANTS
    Sessions, ApiDomains, VaultVms, Calls,
    Cross,        \* the provider's cross_domains, allowed besides the bound one
    NoSession, NoDomain,
    MaxIssued     \* bound: tokens the provider issues

\* An entry of the keystore.
Bounds == ApiDomains \cup {NoDomain}
Extras == SUBSET ApiDomains
SessionRecord == [vm : VaultVms, access : Nat, fresh : BOOLEAN, refresh : Nat, bound : Bounds, extra : Extras]

ASSUME VaultAssumption ==
    /\ NoDomain \notin ApiDomains /\ Cross \subseteq ApiDomains /\ MaxIssued \in Nat
    /\ NoSession \notin Sessions \cup SessionRecord

VARIABLES
    vault,     \* keystore entries OAUTH_TOKEN:provider:session
    call,      \* proxied requests in flight
    dummies,   \* sessions whose dummy tokens the VM holds
    deleted,   \* sessions the user (or a clean-up) has deleted
    cleaning,  \* cleanup_vm_sessions: the VM and the accounts still to look at
    engine,    \* does the loaded engine have the provider's script?
    issued,    \* tokens issued so far; a token is its number
    valid,     \* per session, the refresh token the provider takes
    sentTo,    \* per session, the domains its real access token went to
    slipped    \* sessions on which a call went on with a stale view, or a store failed

vaultVars == <<vault, call, dummies, deleted, cleaning, engine, issued, valid, sentTo, slipped>>
tokenVars == <<deleted, cleaning, engine>>

IdleCall == [at |-> "idle", via |-> "plain", sess |-> NoSession, dom |-> NoDomain, vm |-> NoSession,
             snap |-> NoSession, rt |-> 0, acc |-> 0, new |-> 0]

VaultInit ==
    /\ vault = [s \in Sessions |-> NoSession]
    /\ call = [c \in Calls |-> IdleCall]
    /\ dummies = {} /\ deleted = {} /\ slipped = {}
    /\ cleaning = [vm |-> NoSession, todo |-> {}]
    /\ engine \in BOOLEAN
    /\ issued = 0
    /\ valid = [s \in Sessions |-> 0]
    /\ sentTo = [s \in Sessions |-> {}]

Stored == {s \in Sessions : vault[s] # NoSession}

\* load_all after a script or a secret changed: signed scripts of the keystore
\* that verify and compile; custom ones are compiled and left out.
ReloadEngine ==
    /\ engine' = ~engine
    /\ UNCHANGED <<vault, call, dummies, deleted, cleaning, issued, valid, sentTo, slipped>>

-----------------------------------------------------------------------------
(* A code exchange, or a refresh, on the plain token path or inspected.      *)

\* The provider answered an exchange with an access and maybe a refresh token.
Exchange(c, v, via) ==
    /\ call[c].at = "idle"
    /\ engine
    /\ issued < MaxIssued
    /\ \E s \in Sessions \ (Stored \cup deleted \cup {call[k].sess : k \in Calls}), rt \in {0, issued + 1} :
           /\ call' = [call EXCEPT ![c] = [IdleCall EXCEPT !.at = "answer", !.via = via, !.sess = s, !.vm = v,
                                                          !.acc = issued + 1, !.new = rt]]
           /\ valid' = [valid EXCEPT ![s] = rt]
    /\ issued' = issued + 1
    /\ UNCHANGED <<vault, dummies, sentTo, slipped, tokenVars>>

\* resolve_refresh_token: the dummy in the body becomes the real token.  A
\* session that is gone, or has none, sends the dummy or nothing upstream.
Refresh(c, s, via) ==
    /\ call[c].at = "idle"
    /\ s \in dummies
    /\ \E v \in VaultVms :
           /\ vault[s] # NoSession => v = vault[s].vm
           /\ call' = [call EXCEPT ![c] = [IdleCall EXCEPT !.at = "cache", !.via = via, !.sess = s, !.vm = v,
                              !.rt = IF vault[s] = NoSession THEN 0 ELSE vault[s].refresh]]
    /\ UNCHANGED <<vault, dummies, issued, valid, sentTo, slipped, tokenVars>>

\* On the token path of the proxy, which keeps the engine it started with.
RefreshPlain(c, s) == engine /\ Refresh(c, s, "plain")

\* Inspected: the route's scripted delegator or a placeholder in the body names
\* the provider.
RefreshInspected(c, s) == engine /\ Refresh(c, s, "inspect")

\* Inspected: a PKCE provider's endpoint, and its script takes the body for a
\* token request.
RefreshPkce(c, s) == engine /\ Refresh(c, s, "inspect")

\* An inspected request looks its provider up again at every step.
StillKnown(c) == call[c].via = "plain" \/ engine

\* try_cached_token_response: a token that is good for another minute answers
\* the refresh without the provider.
TryCached(c) ==
    /\ call[c].at = "cache"
    /\ LET x == vault[call[c].sess] IN
       call' = IF x # NoSession /\ x.fresh /\ StillKnown(c)
               THEN [call EXCEPT ![c] = IdleCall]
               ELSE [call EXCEPT ![c].at = "upstream"]
    /\ UNCHANGED <<vault, dummies, issued, valid, sentTo, slipped, tokenVars>>

\* The provider takes the refresh token it gave last, and may rotate it; it
\* refuses any other, and a call may fail.
Upstream(c) ==
    /\ call[c].at = "upstream"
    /\ LET s == call[c].sess IN
       \/ /\ call' = [call EXCEPT ![c] = IdleCall]
          /\ UNCHANGED <<issued, valid>>
       \/ /\ call[c].rt # 0 /\ call[c].rt = valid[s]
          /\ issued < MaxIssued
          /\ issued' = issued + 1
          /\ \E rt \in {0, issued + 1} :
                 /\ call' = [call EXCEPT ![c].at = "answer", ![c].acc = issued + 1, ![c].new = rt]
                 /\ valid' = IF rt = 0 THEN valid ELSE [valid EXCEPT ![s] = rt]
    /\ UNCHANGED <<vault, dummies, sentTo, slipped, tokenVars>>

IsRefresh(c) == call[c].rt # 0

\* The answer is parsed; a refresh reads the session it belongs to.  An answer
\* that does not parse, or whose provider the inspecting path no longer finds
\* in the engine, is passed to the VM as it is.
InterceptRead(c) ==
    /\ call[c].at = "answer"
    /\ \/ /\ StillKnown(c)
          /\ call' = [call EXCEPT ![c].at = "store", ![c].via = "plain",
                         ![c].snap = IF IsRefresh(c) THEN vault[call[c].sess] ELSE NoSession]
          /\ UNCHANGED slipped
       \/ /\ call' = [call EXCEPT ![c] = IdleCall]
          /\ slipped' = slipped \cup {call[c].sess}
    /\ UNCHANGED <<vault, dummies, issued, valid, sentTo, tokenVars>>

\* fault: a refresh writes what the provider sent and nothing it read
InterceptedAnew(c, fresh) ==
    [vm |-> call[c].vm, access |-> call[c].acc, fresh |-> fresh, refresh |-> call[c].new,
     bound |-> NoDomain, extra |-> Cross]

\* What the session becomes: a refresh keeps the binding, the extra domains
\* and, when the answer brings none, the refresh token it read.
Intercepted(c, fresh) ==
    LET q == call[c] IN
    [vm |-> q.vm, access |-> q.acc, fresh |-> fresh,
     refresh |-> IF q.new = 0 /\ q.snap # NoSession THEN q.snap.refresh ELSE q.new,
     bound   |-> IF q.snap = NoSession THEN NoDomain ELSE q.snap.bound,
     extra   |-> IF q.snap = NoSession THEN Cross ELSE q.snap.extra]

\* The set, then the dummy tokens for the VM; a set that fails passes the
\* original answer.  A write over a session that changed since it was read,
\* or that brings a deleted one back, is a slip.
InterceptStore(c) ==
    /\ call[c].at = "store"
    /\ LET s == call[c].sess IN
       \/ /\ \E fresh \in BOOLEAN : vault' = [vault EXCEPT ![s] = Intercepted(c, fresh)]
          /\ dummies' = dummies \cup {s}
          /\ slipped' = IF IsRefresh(c) /\ (vault[s] # call[c].snap \/ vault[s] = NoSession)
                        THEN slipped \cup {s} ELSE slipped
       \/ /\ slipped' = slipped \cup {s}
          /\ UNCHANGED <<vault, dummies>>
    /\ call' = [call EXCEPT ![c] = IdleCall]
    /\ UNCHANGED <<issued, valid, sentTo, tokenVars>>

-----------------------------------------------------------------------------
(* A request with a dummy access token. *)

\* check_and_resolve: not found, first use, match or mismatch (a 403).  In an
\* unbound session the first domain binds, even one of the extra domains.
CheckAndResolve(c, s, d) ==
    /\ call[c].at = "idle"
    /\ s \in dummies
    /\ LET x == vault[s]
           next(step) == call' = [call EXCEPT ![c] = [IdleCall EXCEPT !.at = step, !.sess = s, !.dom = d, !.snap = x]]
       IN IF x = NoSession THEN next("resolve")
          ELSE IF x.bound = NoDomain THEN next("bind")
          ELSE d \in {x.bound} \cup x.extra /\ next("resolve")
    /\ UNCHANGED <<vault, dummies, issued, valid, sentTo, slipped, tokenVars>>

\* bind_domain reads the session again, and leaves a bound one alone; the
\* caller goes on either way.
BindRead(c) ==
    /\ call[c].at = "bind"
    /\ LET x == vault[call[c].sess]
           free == x # NoSession /\ x.bound = NoDomain
       IN /\ call' = [call EXCEPT ![c].at = IF free THEN "bindwrite" ELSE "resolve",
                                  ![c].snap = IF free THEN x ELSE @]
    /\ UNCHANGED <<vault, dummies, issued, valid, sentTo, slipped, tokenVars>>

\* ... and writes it back with the domain; a failed set is ignored.
BindWrite(c) ==
    /\ call[c].at = "bindwrite"
    /\ LET s == call[c].sess
           bound == [call[c].snap EXCEPT !.bound = call[c].dom]
       IN \/ /\ vault' = [vault EXCEPT ![s] = bound]
             /\ slipped' = IF vault[s] # call[c].snap THEN slipped \cup {s} ELSE slipped
             /\ call' = [call EXCEPT ![c].at = "resolve", ![c].snap = bound]
          \/ /\ call' = [call EXCEPT ![c].at = "resolve"]
             /\ UNCHANGED <<vault, slipped>>
    /\ UNCHANGED <<dummies, issued, valid, sentTo, tokenVars>>

\* resolve_access_token: the session as it is now; the request goes out with
\* its token, or with the dummy when there is none.
ResolveAccess(c) ==
    /\ call[c].at = "resolve"
    /\ LET s == call[c].sess
           d == call[c].dom
       IN /\ sentTo' = IF vault[s] = NoSession THEN sentTo ELSE [sentTo EXCEPT ![s] = @ \cup {d}]
          /\ slipped' = IF /\ vault[s] # NoSession
                           /\ call[c].snap = NoSession \/ call[c].snap.bound # vault[s].bound \/ vault[s].bound = NoDomain
                        THEN slipped \cup {s} ELSE slipped
    /\ call' = [call EXCEPT ![c] = IdleCall]
    /\ UNCHANGED <<vault, dummies, issued, valid, tokenVars>>

Expire(s) ==
    /\ vault[s] # NoSession /\ vault[s].fresh
    /\ vault' = [vault EXCEPT ![s].fresh = FALSE]
    /\ UNCHANGED <<call, dummies, issued, valid, sentTo, slipped, tokenVars>>

-----------------------------------------------------------------------------
(* Deletion. *)

Remove(s) ==
    /\ vault' = [vault EXCEPT ![s] = NoSession]
    /\ deleted' = deleted \cup {s}
    /\ sentTo' = [sentTo EXCEPT ![s] = {}]

DeleteSession(s) ==
    /\ vault[s] # NoSession
    /\ Remove(s)
    /\ UNCHANGED <<call, dummies, cleaning, engine, issued, valid, slipped>>

\* cleanup_vm_sessions: the accounts listed, then each one read and, if it is
\* the VM's, deleted.
CleanupList(v) ==
    /\ cleaning.vm = NoSession
    /\ Stored # {}
    /\ cleaning' = [vm |-> v, todo |-> Stored]
    /\ UNCHANGED <<vault, call, dummies, deleted, engine, issued, valid, sentTo, slipped>>

CleanupOne(s) ==
    /\ s \in cleaning.todo
    /\ IF vault[s] # NoSession /\ vault[s].vm = cleaning.vm
       THEN Remove(s) ELSE UNCHANGED <<vault, deleted, sentTo>>
    /\ cleaning' = IF cleaning.todo = {s} THEN [vm |-> NoSession, todo |-> {}]
                   ELSE [cleaning EXCEPT !.todo = @ \ {s}]
    /\ UNCHANGED <<call, dummies, engine, issued, valid, slipped>>

VaultNext ==
    \/ ReloadEngine
    \/ \E c \in Calls :
          \/ \E v \in VaultVms, via \in {"plain", "inspect"} : Exchange(c, v, via)
          \/ \E s \in Sessions : RefreshPlain(c, s) \/ RefreshInspected(c, s) \/ RefreshPkce(c, s)
          \/ TryCached(c) \/ Upstream(c) \/ InterceptRead(c) \/ InterceptStore(c)
          \/ \E s \in Sessions, d \in ApiDomains : CheckAndResolve(c, s, d)
          \/ BindRead(c) \/ BindWrite(c) \/ ResolveAccess(c)
    \/ \E s \in Sessions : Expire(s) \/ DeleteSession(s) \/ CleanupOne(s)
    \/ \E v \in VaultVms : CleanupList(v)

VaultSpec == VaultInit /\ [][VaultNext]_vaultVars

-----------------------------------------------------------------------------
VaultTypeOK ==
    /\ \A s \in Stored : /\ vault[s].vm \in VaultVms /\ vault[s].bound \in ApiDomains \cup {NoDomain}
                         /\ vault[s].access \in 1..issued /\ vault[s].refresh \in 0..issued
    /\ dummies \subseteq Sessions /\ cleaning.todo \subseteq Sessions
    /\ \A s \in Sessions : sentTo[s] \subseteq ApiDomains /\ valid[s] \in 0..issued

\* A session's real access token goes to the domain it is bound to and to the
\* provider's extra domains only, through uses, refreshes and deletions, as
\* long as no call worked on a stale copy of the session and no store failed.
SentWhereBound ==
    \A s \in Stored \ slipped : sentTo[s] \subseteq {vault[s].bound} \cup vault[s].extra

\* The session keeps the refresh token the provider takes, rotated or not,
\* once no refresh of it is being stored: no chain of refreshes loses it.
RefreshTokenKept ==
    \A s \in Stored \ slipped :
        (\A c \in Calls : call[c].sess = s => call[c].at \notin {"answer", "store"})
            => vault[s].refresh = valid[s]

\* A dummy token in the VM names a session that is stored, or that was
\* deleted: it is handed out after the store, never before.
DummiesResolve == dummies \subseteq Stored \cup deleted

\* The vault's promise: a real token goes where its session is bound, the
\* refresh token that works is the one stored, a dummy stands for a session.
VaultSafe == VaultTypeOK /\ SentWhereBound /\ RefreshTokenKept /\ DummiesResolve
=============================================================================
