---------------------------- MODULE MCPortGateway ----------------------------
(***************************************************************************)
(* The gateway's ports, the OAuth logins that use them, and what the       *)
(* logins are for.  The parts share no state here, so a behaviour is of    *)
(* one of them: the gateway with two calls at a time, on one port; the     *)
(* gateway with one call at a time, on two ports with at most two saved    *)
(* rows; the browser logins; the providers and their scripts; and an OAuth *)
(* session through exchange, refreshes, uses of a domain and a cross       *)
(* domain, by two calls at a time, with its deletion when it was refreshed *)
(* at most once.                                                           *)
(***************************************************************************)
EXTENDS PortGateway, BrowserLogins, OAuthProviders, OAuthVault, TLC

CONSTANTS t1, t2, v1, v2, c1, c2

MCTasks == {t1, t2}
MCVms == {v1, v2}

VARIABLE part   \* chosen once

PortsInit ==
  /\ part \in {"calls", "ports", "login", "oauth", "vault"}
  /\ Init /\ LoginInit /\ OAuthInit
  /\ VaultInit /\ (part # "vault" => engine)

PortsNext ==
  /\ UNCHANGED part
  /\ \/ /\ part = "calls" /\ Next
        /\ \A c \in Callers : port'[c] \in {1, NoPort} /\ target'[c] \in {NoTarget} \cup Vms \X {1}
     \/ part = "ports" /\ Next /\ timers' = timers /\ pc'[c2] = "idle" /\ Cardinality(saved') <= 2
     \/ part \notin {"calls", "ports"} /\ UNCHANGED vars
  /\ \/ part = "login" /\ LoginNext
     \/ part # "login" /\ UNCHANGED loginVars
  /\ \/ part = "oauth" /\ OAuthNext
     \/ part # "oauth" /\ UNCHANGED oauthVars
  /\ \/ /\ part = "vault" /\ VaultNext
        /\ issued' < MaxIssued \/ (deleted' = {} /\ cleaning'.todo = {})
     \/ part # "vault" /\ UNCHANGED vaultVars

PortsSpec == PortsInit /\ [][PortsNext]_<<vars, loginVars, oauthVars, vaultVars, part>>

PortsSymmetry == Permutations(MCTasks) \cup Permutations(MCVms)
=============================================================================
