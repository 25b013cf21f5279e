---------------------------- MODULE RequestProxy ----------------------------
(***************************************************************************)
(* A VM's HTTP request on its way through the host: the gate, the choice of *)
(* the credential (AuthRouter, the domain's token accounts, the request's   *)
(* own header), the two prompts that can stop it (ApiKeyGate,               *)
(* TokenMismatchGate), the delegator that puts the credential in, and the   *)
(* forward.  ReverseProxy handles plain requests, forward_proxy and inspect *)
(* the CONNECT ones.  OAuth sessions are OAuthVault's, usage limits         *)
(* TokenUsage's and the admission of a domain DomainGate's: here they       *)
(* answer either way.                                                       *)
(***************************************************************************)
EXTENDS Naturals, Sequences, FiniteSets, SequencesExt

CONSTANTS
    Requests, Accounts, Domains,
    Incoming,        \* what each request may be: [dom, hdr, via]
    Picks,           \* the token lists the user may pick or map
    KeySets,         \* keystore contents a behaviour may start with
    AwsAccounts,     \* {AWS_ACCESS_KEY_ID, AWS_SECRET_ACCESS_KEY}
    Telegram,        \* {TELEGRAM_BOT_TOKEN}
    AwsHost,         \* the host behind the configured AWS path prefix
    RouteLists,      \* lists of auth routes a behaviour may start with
    Mappings,        \* domain_token_accounts tables a behaviour may start with
    Routable,        \* routes a connection setup may register
    MaxEdits,        \* bound: changes to keys, mappings and routes
    NoChannel, NoAccount, Dummy \* no channel; no auth header; an OAuth dummy access token in it

Route == [wild : BOOLEAN, labels : Seq(STRING), account : Accounts]

\* What a request can take along that is no account's key.
NoKey == {"no", "as-is", "signed", "stripped", "tunnel", "oauth"}

ASSUME ProxyAssumption ==
    /\ KeySets \subseteq SUBSET Accounts /\ Picks \subseteq SUBSET Accounts
    /\ Domains \subseteq Seq(STRING) /\ AwsHost \in Domains
    /\ Mappings \subseteq [Domains -> SUBSET Accounts]
    /\ RouteLists \subseteq Seq(Route) /\ Routable \subseteq Route
    /\ \A r \in Requests :
           Incoming[r] \subseteq [dom : Domains, hdr : Accounts \cup {NoAccount, Dummy},
                                  via : {"http", "connect", "awspath"}]
    /\ AwsAccounts \subseteq Accounts /\ Telegram \subseteq Accounts
    /\ NoAccount \notin Accounts /\ Dummy \notin Accounts /\ NoChannel \notin Requests
    /\ Accounts \cap NoKey = {}

VARIABLES
    keys,      \* accounts with a key in the keystore
    given,     \* accounts the user has ever given a key for
    submitted, \* ApiKeyGate::resolve calls between the store and the answer
    mapped,    \* domain -> token accounts (ConfigStore::list_domain_tokens)
    once,      \* domain -> tokens of an "allow once" answer, until taken
    routes,    \* AuthRouter: a list of [wild, labels, account]
    pending,   \* ApiKeyGate: account -> the channel to answer on, or none
    channel,   \* the channels, named by the request that opened them
    asking,    \* TokenMismatchGate: requests with a live entry
    req,       \* the requests
    edits

proxyVars == <<keys, given, submitted, mapped, once, routes, pending, channel, asking, req, edits>>

\* dom, hdr, via are the request; by is how the gate let it in, engine the
\* delegator,
\* tokens what the request may use, account the credential chosen, chan the
\* channel it waits on, sent what leaves the host: an account's real key,
\* the header as it came ("as-is"), nothing, or a resolved OAuth token.
NewRequest == [at |-> "new", dom |-> <<>>, hdr |-> NoAccount, via |-> "http", by |-> "none",
               tokens |-> {}, account |-> NoAccount, engine |-> "none", chan |-> NoChannel, sent |-> "no"]

ProxyInit ==
    /\ keys \in KeySets
    /\ given = keys
    /\ submitted = {}
    /\ mapped \in Mappings
    /\ once = [d \in Domains |-> {}]
    /\ routes \in RouteLists
    /\ pending = [a \in Accounts |-> NoChannel]
    /\ channel = [r \in Requests |-> "none"]
    /\ asking = {}
    /\ req = [r \in Requests |-> NewRequest]
    /\ edits = 0

Finish(r, what) == req' = [req EXCEPT ![r].at = "done", ![r].sent = what]

-----------------------------------------------------------------------------
(* AuthRouter.  A domain is its labels from the top level down. *)

\* domain_matches: a wildcard matches its suffix and everything below it.
RouteMatches(route, d) == route.labels = d \/ (route.wild /\ IsPrefix(route.labels, d))

\* resolve: the first exact route; else the longest wildcard, the first of
\* equals; else no account, and the default (bearer) delegator.
Resolve(d) ==
    LET exact   == {i \in DOMAIN routes : ~routes[i].wild /\ RouteMatches(routes[i], d)}
        wild    == {i \in DOMAIN routes : routes[i].wild /\ RouteMatches(routes[i], d)}
        longest == {i \in wild : \A j \in wild : Len(routes[j].labels) <= Len(routes[i].labels)}
    IN  CASE exact # {} -> routes[Min(exact)].account
          [] exact = {} /\ wild # {} -> routes[Min(longest)].account
          [] OTHER -> NoAccount

-----------------------------------------------------------------------------
(* Admission: handle_request up to the choice of a credential. *)

\* The first frame is read and parsed; a broken one ends the request.
Receive(r) ==
    /\ req[r].at = "new"
    /\ \E q \in Incoming[r] :
           req' = [req EXCEPT ![r] = [@ EXCEPT !.at = "gate", !.dom = q.dom, !.hdr = q.hdr, !.via = q.via]]
    /\ UNCHANGED <<keys, given, submitted, mapped, once, routes, pending, channel, asking, edits>>

\* is_allowed, and if it says no, check: DomainGate's answer.  A refusal (and
\* the metadata address) is a 403; "pre" was on the allowlist, "always" got
\* there by the answer, and "once" brings the accounts the user picked for it.
Admit(r, by) == req' = [req EXCEPT ![r].at = "route", ![r].by = by]

Gate(r) ==
    /\ req[r].at = "gate"
    /\ req[r].via # "connect"
    /\ \/ Finish(r, "no") /\ UNCHANGED once
       \/ Admit(r, "pre") /\ UNCHANGED once
       \/ \E T \in Picks :
              /\ once' = [once EXCEPT ![req[r].dom] = IF T = {} THEN @ ELSE T]
              /\ Admit(r, "once")
    /\ UNCHANGED <<keys, given, submitted, mapped, routes, pending, channel, asking, edits>>

\* handle_connect: an allowed domain is inspected, and so is one allowed once
\* for which tokens are pending; a domain that bypasses inspection, or is let
\* in once without a token, is a raw tunnel.
GateConnect(r) ==
    /\ req[r].at = "gate"
    /\ req[r].via = "connect"
    /\ \/ Finish(r, "no") /\ UNCHANGED once
       \/ \E by \in {"pre", "always"} : Admit(r, by) /\ UNCHANGED once
       \/ Finish(r, "tunnel") /\ UNCHANGED once
       \/ \E T \in Picks \cup {once[req[r].dom]} :
              /\ T # {}
              /\ once' = [once EXCEPT ![req[r].dom] = T]
              /\ Admit(r, "once")
    /\ UNCHANGED <<keys, given, submitted, mapped, routes, pending, channel, asking, edits>>

\* find_aws_proxy_route: a path prefix stands for an AWS host.  The VM's own
\* signature headers are stripped and the request signed with the keys mapped
\* to that host, or answered 502.
AwsPath(r) ==
    /\ req[r].at = "route"
    /\ req[r].via = "awspath"
    /\ IF AwsAccounts \subseteq mapped[AwsHost] \cap keys
       THEN req' = [req EXCEPT ![r].at = "forward", ![r].dom = AwsHost,
                               ![r].tokens = mapped[AwsHost], ![r].sent = "signed"]
       ELSE Finish(r, "no")
    /\ UNCHANGED <<keys, given, submitted, mapped, once, routes, pending, channel, asking, edits>>

\* The accounts a request may use, and what becomes of it when it has some:
\* the AWS pair signs, the bot token goes into the path, else the header has
\* to name one of them; one that names another is the user's to decide.
Use(r, T, step, acct, engine) ==
    req' = [req EXCEPT ![r] = [@ EXCEPT !.at = step, !.tokens = T, !.account = acct,
                                        !.engine = engine, !.sent = "as-is"]]

AsIs(r, T) == Use(r, T, "forward", NoAccount, "none")

UseMapped(r, T) ==
    LET h     == req[r].hdr
        signs == AwsAccounts # {} /\ AwsAccounts \subseteq T
        bots  == Telegram \cap T
    IN  CASE signs -> Use(r, T, "sign", NoAccount, "aws")
          [] ~signs /\ bots # {} -> \E t \in bots : Use(r, T, "apply", t, "telegram")
          [] ~signs /\ bots = {} /\ h = NoAccount -> AsIs(r, T)
          [] ~signs /\ bots = {} /\ h \in T -> Use(r, T, "apply", h, "bearer")
          [] OTHER -> Use(r, T, "mismatch", NoAccount, "none")

\* The vault's answer to a dummy token: 403 on another domain's.
UseDummy(r) == AsIs(r, {}) \/ Finish(r, "no")

TakenOnce(r) == IF Resolve(req[r].dom) = NoAccount THEN once[req[r].dom] ELSE {}

\* fault: the header's account is used whether or not it is the domain's
ChooseTrusting(r) ==
    /\ req[r].at = "route"
    /\ req[r].via = "http"
    /\ IF req[r].hdr \in Accounts
       THEN Use(r, mapped[req[r].dom], "apply", req[r].hdr, "bearer")
       ELSE AsIs(r, mapped[req[r].dom])
    /\ UNCHANGED <<keys, given, submitted, mapped, once, routes, pending, channel, asking, edits>>

\* The credential of a plain request.  A route names it; else the domain's
\* accounts do, with the ones of an "allow once" taken here; else the header
\* is the VM's own, and may still name an account if the domain is not on the
\* allowlist.  A reached token limit answers 429 before any of that.
Choose(r) ==
    /\ req[r].at = "route"
    /\ req[r].via = "http"
    /\ LET d == req[r].dom
           T == mapped[d] \cup TakenOnce(r)
       IN \/ Finish(r, "no") /\ UNCHANGED once
          \/ /\ once' = [once EXCEPT ![d] = @ \ TakenOnce(r)]
             /\ CASE Resolve(d) # NoAccount -> Use(r, mapped[d], "apply", Resolve(d), "oauth")
                  [] Resolve(d) = NoAccount /\ T # {} -> UseMapped(r, T)
                  [] Resolve(d) = NoAccount /\ T = {} /\ req[r].hdr = Dummy -> UseDummy(r)
                  [] Resolve(d) = NoAccount /\ T = {} /\ req[r].hdr \in Accounts /\ req[r].by = "once"
                         -> Use(r, T, "apply", req[r].hdr, "bearer")
                  [] OTHER -> AsIs(r, T)
    /\ UNCHANGED <<keys, given, submitted, mapped, routes, pending, channel, asking, edits>>

\* The credential of an inspected CONNECT, after the TLS handshake with the
\* VM (which may fail): the same, but a domain that was on the allowlist
\* leaves the "allow once" accounts alone, and no unmapped header is used.
ChooseInspected(r) ==
    /\ req[r].at = "route"
    /\ req[r].via = "connect"
    /\ LET d == req[r].dom
           O == IF req[r].by = "pre" THEN {} ELSE TakenOnce(r)
           T == mapped[d] \cup O
       IN \/ Finish(r, "no") /\ UNCHANGED once
          \/ /\ once' = [once EXCEPT ![d] = @ \ O]
             /\ CASE Resolve(d) # NoAccount -> Use(r, mapped[d], "apply", Resolve(d), "oauth")
                  [] Resolve(d) = NoAccount /\ T # {} -> UseMapped(r, T)
                  [] Resolve(d) = NoAccount /\ T = {} /\ req[r].hdr = Dummy -> UseDummy(r)
                  [] OTHER -> AsIs(r, T)
    /\ UNCHANGED <<keys, given, submitted, mapped, routes, pending, channel, asking, edits>>

-----------------------------------------------------------------------------
(* TokenMismatchGate: the header names an account that is not the domain's. *)

MismatchAsk(r) ==
    /\ req[r].at = "mismatch"
    /\ asking' = asking \cup {r}
    /\ req' = [req EXCEPT ![r].at = "mismatch-wait"]
    /\ UNCHANGED <<keys, given, submitted, mapped, once, routes, pending, channel, edits>>

\* fault: no timer, and a user who does not answer
MismatchEndsStays(r) ==
    /\ req[r].at = "mismatch-wait"
    /\ UNCHANGED proxyVars

\* The user's decision, or 30 seconds without one, which passes.  A block is
\* a 403; a pass forwards the header as it is, but for a dummy the vault
\* resolves.
MismatchEnds(r) ==
    /\ req[r].at = "mismatch-wait"
    /\ asking' = asking \ {r}
    /\ Finish(r, "no") \/ req' = [req EXCEPT ![r].at = "forward"]
    /\ UNCHANGED <<keys, given, submitted, mapped, once, routes, pending, channel, edits>>

-----------------------------------------------------------------------------
(* The delegators' apply_auth. *)

\* AwsSigV4: the accounts of the request, or for a plain one the domain's as
\* they are now, read one by one; a missing key (or an unknown region) fails
\* the delegation and strips the header.
Sign(r) ==
    /\ req[r].at = "sign"
    /\ LET names == IF req[r].via = "connect" THEN req[r].tokens ELSE mapped[req[r].dom]
       IN  \E s \in {"stripped"} \cup (IF AwsAccounts \subseteq names \cap keys THEN {"signed"} ELSE {}) :
               req' = [req EXCEPT ![r].at = "forward", ![r].sent = s]
    /\ UNCHANGED <<keys, given, submitted, mapped, once, routes, pending, channel, asking, edits>>

Applied(r, what) == req' = [req EXCEPT ![r].at = "forward", ![r].sent = what]

\* The bot token replaces its placeholder in the path; a path without one
\* goes out as it came.
ApplyTelegram(r) ==
    /\ req[r].at = "apply" /\ req[r].engine = "telegram"
    /\ IF req[r].account \in keys
       THEN Applied(r, req[r].account) \/ Applied(r, "as-is")
       ELSE Applied(r, "stripped")
    /\ UNCHANGED <<keys, given, submitted, mapped, once, routes, pending, channel, asking, edits>>

\* The script's substitutions in a token request; a missing secret, body,
\* JSON path or a redirect host that is not allowed fails it.
ApplyScripted(r) ==
    /\ req[r].at = "apply" /\ req[r].engine = "oauth"
    /\ \/ req[r].account \in keys /\ Applied(r, req[r].account)
       \/ Applied(r, "stripped")
    /\ UNCHANGED <<keys, given, submitted, mapped, once, routes, pending, channel, asking, edits>>

\* The bearer delegator asks ApiKeyGate.
ApplyBearer(r) ==
    /\ req[r].at = "apply" /\ req[r].engine = "bearer"
    /\ IF req[r].account \in keys
       THEN Applied(r, req[r].account)
       ELSE req' = [req EXCEPT ![r].at = "prompt"]
    /\ UNCHANGED <<keys, given, submitted, mapped, once, routes, pending, channel, asking, edits>>

\* get_or_prompt after the keystore had no key: share the account's channel
\* or open one and show the modal.
Prompt(r) ==
    /\ req[r].at = "prompt"
    /\ LET a == req[r].account
           c == IF pending[a] = NoChannel THEN r ELSE pending[a]
       IN /\ pending' = [pending EXCEPT ![a] = c]
          /\ channel' = [channel EXCEPT ![c] = "open"]
          /\ req' = [req EXCEPT ![r].at = "wait", ![r].chan = c]
    /\ UNCHANGED <<keys, given, submitted, mapped, once, routes, asking, edits>>

\* resolve: the user submits the modal of an account, or closes it.  The key
\* is stored before the waiters are told; a failed store is ignored.
ResolveStore(a) ==
    /\ edits < MaxEdits
    /\ \E stored \in {{}, {a}} : keys' = keys \cup stored
    /\ given' = given \cup {a}
    /\ submitted' = submitted \cup {a}
    /\ edits' = edits + 1
    /\ UNCHANGED <<mapped, once, routes, pending, channel, asking, req>>

ResolveSend(a, v) ==
    /\ IF v = "provided" THEN a \in submitted ELSE pending[a] # NoChannel
    /\ submitted' = submitted \ (IF v = "provided" THEN {a} ELSE {})
    /\ channel' = [c \in Requests |-> IF c = pending[a] THEN v ELSE channel[c]]
    /\ pending' = [pending EXCEPT ![a] = NoChannel]
    /\ UNCHANGED <<keys, given, mapped, once, routes, asking, req, edits>>

\* fault: any news on the channel is taken for a key
AnsweredAny(r) ==
    /\ req[r].at = "wait"
    /\ channel[req[r].chan] # "open"
    /\ req' = [req EXCEPT ![r].at = "forward", ![r].sent = req[r].account]
    /\ UNCHANGED <<keys, given, submitted, mapped, once, routes, pending, channel, asking, edits>>

\* The waiter sees the answer; "dropped" is a sender that went away.
Answered(r) ==
    /\ req[r].at = "wait"
    /\ channel[req[r].chan] = "provided"
    /\ req' = [req EXCEPT ![r].at = "forward", ![r].sent = req[r].account]
    /\ UNCHANGED <<keys, given, submitted, mapped, once, routes, pending, channel, asking, edits>>

\* A cancelled, dropped or timed-out (120 s) wait removes the account's entry,
\* whosever it is; removing it drops the sender, which wakes those who share
\* it.  The delegation fails and the header is stripped.
Cancelled(r) ==
    /\ req[r].at = "wait"
    /\ channel[req[r].chan] # "provided"
    /\ LET a == req[r].account IN
       /\ channel' = IF pending[a] = NoChannel THEN channel
                     ELSE [channel EXCEPT ![pending[a]] = "dropped"]
       /\ pending' = [pending EXCEPT ![a] = NoChannel]
    /\ req' = [req EXCEPT ![r].at = "forward", ![r].sent = "stripped"]
    /\ UNCHANGED <<keys, given, submitted, mapped, once, routes, asking, edits>>

\* A request without a chosen account may carry a dummy, which the vault
\* resolves; the store's own domain gets the store token; then the upstream
\* answers or fails, a client that goes away ends it early, and the stream is
\* closed.
Forward(r) ==
    /\ req[r].at = "forward"
    /\ req[r].via # "connect"
    /\ \/ req' = [req EXCEPT ![r].at = "done"]
       \/ req[r].sent = "as-is" /\ req[r].hdr = Dummy /\ Finish(r, "oauth")
    /\ UNCHANGED <<keys, given, submitted, mapped, once, routes, pending, channel, asking, edits>>

\* The same for an inspected CONNECT, which a reached token limit refuses only
\* here, after the credential is in.
ForwardInspected(r) ==
    /\ req[r].at = "forward"
    /\ req[r].via = "connect"
    /\ \/ req' = [req EXCEPT ![r].at = "done"]
       \/ req[r].sent = "as-is" /\ req[r].hdr = Dummy /\ Finish(r, "oauth")
    /\ UNCHANGED <<keys, given, submitted, mapped, once, routes, pending, channel, asking, edits>>

\* The user changes a domain's accounts while requests are under way.
EditMapping(d, T) ==
    /\ edits < MaxEdits
    /\ mapped[d] # T
    /\ mapped' = [mapped EXCEPT ![d] = T]
    /\ edits' = edits + 1
    /\ UNCHANGED <<keys, given, submitted, once, routes, pending, channel, asking, req>>

\* The user deletes a key from the keystore.
DeleteKey(a) ==
    /\ edits < MaxEdits
    /\ a \in keys
    /\ keys' = keys \ {a}
    /\ edits' = edits + 1
    /\ UNCHANGED <<given, submitted, mapped, once, routes, pending, channel, asking, req>>

\* add_route: every connection setup registers its OAuth providers' token
\* domains again; nothing removes a route.
AddRoute(x) ==
    /\ edits < MaxEdits
    /\ routes' = Append(routes, x)
    /\ edits' = edits + 1
    /\ UNCHANGED <<keys, given, submitted, mapped, once, pending, channel, asking, req>>

RequestStep(r) ==
    \/ Gate(r) \/ GateConnect(r) \/ AwsPath(r) \/ Choose(r) \/ ChooseInspected(r)
    \/ MismatchAsk(r) \/ MismatchEnds(r) \/ Sign(r)
    \/ ApplyTelegram(r) \/ ApplyScripted(r) \/ ApplyBearer(r) \/ Prompt(r) \/ Answered(r) \/ Cancelled(r)
    \/ Forward(r) \/ ForwardInspected(r)

ProxyNext ==
    \/ \E r \in Requests : Receive(r) \/ RequestStep(r)
    \/ \E a \in Accounts : ResolveStore(a) \/ DeleteKey(a) \/ \E v \in {"provided", "cancelled"} : ResolveSend(a, v)
    \/ \E d \in Domains, T \in Picks : EditMapping(d, T)
    \/ \E x \in Routable : AddRoute(x)

\* Every step of a request runs on its own task, and each wait has a timer.
ProxyFair == \A r \in Requests : WF_proxyVars(RequestStep(r))

ProxySpec == ProxyInit /\ [][ProxyNext]_proxyVars /\ ProxyFair

-----------------------------------------------------------------------------
ProxyTypeOK ==
    /\ keys \subseteq given /\ given \subseteq Accounts /\ submitted \subseteq given
    /\ \A r \in Requests : req[r].account \in Accounts \cup {NoAccount}
    /\ \A a \in Accounts : pending[a] \in Requests \cup {NoChannel}
    /\ \A a \in Accounts : pending[a] # NoChannel => channel[pending[a]] = "open"
    /\ asking = {r \in Requests : req[r].at = "mismatch-wait"}

\* A key leaves the host only for a domain it was mapped to when the request
\* was routed, a domain its route names, or (a plain request that was let in
\* once) under the name the VM itself put in the header: whatever the user
\* answers, stores or edits while the request waits.
KeyGoesWhereMapped ==
    \A r \in Requests : LET q == req[r] IN q.sent \in Accounts =>
        \/ q.sent \in q.tokens
        \/ q.engine = "oauth" /\ \E i \in DOMAIN routes : routes[i].account = q.sent /\ RouteMatches(routes[i], q.dom)
        \/ q.tokens = {} /\ q.sent = q.hdr /\ q.via = "http" /\ q.by = "once"

\* A header's placeholder does not leave for the upstream once the bearer
\* delegator has taken it: the prompt that fails, times out or loses its channel strips it
\* ("don't leak dummy token").
PlaceholderStripped ==
    \A r \in Requests :
        req[r].engine = "bearer" /\ req[r].at \in {"forward", "done"}
            => req[r].sent \in {req[r].account, "stripped"}

\* A request that waits for a key can still be answered: its channel is the
\* account's pending one, or has been answered, or has lost its sender.
WaiterAnswerable ==
    \A r \in Requests : req[r].at = "wait" =>
        pending[req[r].account] = req[r].chan \/ channel[req[r].chan] # "open"

\* Every request that arrives is forwarded or refused: no prompt holds it
\* longer than its timer.
EveryRequestEnds ==
    \A r \in Requests : req[r].at = "gate" ~> req[r].at = "done"

(* ApiKeyGate keeps PromptGate's promise: the delegators' get_or_prompt is a *)
(* client asking for an account, granted once the user has given its key.    *)
GateOutcome(q) ==
    IF q.account \notin Accounts THEN "none"
    ELSE IF q.at \in {"apply", "prompt", "wait"} THEN "asking"
    ELSE IF q.sent = q.account THEN "yes" ELSE "no"

KeyGate == INSTANCE PromptGate WITH
    Clients <- Requests, Subjects <- Accounts, NoSubject <- NoAccount,
    subject <- [r \in Requests |-> req[r].account],
    outcome <- [r \in Requests |-> GateOutcome(req[r])],
    granted <- given

\* The request path with its prompts, timers, shared channels and late
\* clean-ups implements the gate that answers each request once, and "yes"
\* only for an account whose key the user has given.
ImplementsPromptGate == KeyGate!Spec

\* What a request may take with it: a key only where it was mapped, never the
\* VM's placeholder past the bearer delegator; and whoever waits for a key in
\* ApiKeyGate waits on a channel that will be answered.
ProxySafe == ProxyTypeOK /\ KeyGoesWhereMapped /\ PlaceholderStripped /\ WaiterAnswerable
=============================================================================
