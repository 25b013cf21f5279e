------------------------ MODULE RequestProxyProofs ------------------------
(***************************************************************************)
(* The request path, for any requests, accounts, domains and routes: what  *)
(* a request may take along, who waits for a key and on which channel, and *)
(* that the path implements the gate that answers each request once.       *)
(***************************************************************************)
EXTENDS RequestProxy, WellFoundedInduction, TLAPS

Stages == {"new", "gate", "route", "mismatch", "mismatch-wait", "sign",
           "apply", "prompt", "wait", "forward", "done"}
(* Before a credential is applied, and while it is.                        *)
Early == {"new", "gate", "route", "mismatch", "mismatch-wait", "sign"}
Asking == {"apply", "prompt", "wait"}
(* A request that has opened or joined a channel, or has left it.          *)
Late == {"wait", "forward", "done"}

Doms == Domains \cup {<<>>}
Headers == Accounts \cup {NoAccount, Dummy}
Ways == {"http", "connect", "awspath"}
Admissions == {"none", "pre", "always", "once"}
Tokens == SUBSET Accounts
Chosen == Accounts \cup {NoAccount}
Engines == {"none", "aws", "telegram", "bearer", "oauth"}
Chans == Requests \cup {NoChannel}
Sents == Accounts \cup NoKey
ChannelStates == {"none", "open", "provided", "cancelled", "dropped"}

Request == [at : Stages, dom : Doms, hdr : Headers, via : Ways, by : Admissions,
            tokens : Tokens, account : Chosen, engine : Engines, chan : Chans, sent : Sents]

RequestsTyped == req \in [Requests -> Request]

(* The tables and the two gates have their types.                          *)
TablesTyped ==
  /\ mapped \in [Domains -> Tokens] /\ once \in [Domains -> Tokens]
  /\ routes \in Seq(Route)
  /\ pending \in [Accounts -> Chans] /\ channel \in [Requests -> ChannelStates]
  /\ keys \subseteq given /\ given \subseteq Accounts /\ submitted \subseteq given

(* The gate's asked set is what the requests say.                          *)
AskingAgrees == asking = {r \in Requests : req[r].at = "mismatch-wait"}

(* A route that names the account for the domain is in the table.          *)
Routed(a, d) == \E i \in DOMAIN routes : routes[i].account = a /\ RouteMatches(routes[i], d)

(* Why a request may use an account.                                       *)
MayUse(q, a) ==
  \/ a \in q.tokens
  \/ q.engine = "oauth" /\ Routed(a, q.dom)
  \/ q.tokens = {} /\ a = q.hdr /\ q.via = "http" /\ q.by = "once"

(* Where a request stands tells what it has chosen: nothing before the     *)
(* delegators, an account it may use in them, and the outcome after them.  *)
StageOK(q) ==
  /\ q.at # "new" => q.dom \in Domains
  /\ q.at \in Early => q.account = NoAccount
  /\ q.at \in Asking => q.account \in Accounts
  /\ q.at \in {"prompt", "wait"} => q.engine = "bearer"
  /\ q.at = "wait" => q.chan \in Requests
  /\ q.engine = "bearer" => q.account \in Accounts
  /\ q.engine = "bearer" /\ q.at \in {"forward", "done"} => q.sent \in {q.account, "stripped"}
  /\ q.sent \in Accounts => q.sent = q.account

(* A chosen account is one the request may use.                            *)
ChoiceOK(q) == q.account \in Accounts => MayUse(q, q.account)

(* A key that leaves is one the user has given.                            *)
SentOK(q) == q.sent \in Accounts => q.sent \in given

StagesOK == \A r \in Requests : StageOK(req[r])
ChoicesOK == \A r \in Requests : ChoiceOK(req[r])
SentsOK == \A r \in Requests : SentOK(req[r])

(* A pending channel is open, and its opener asks for that account.        *)
PendingOwned ==
  \A a \in Accounts : pending[a] # NoChannel =>
    channel[pending[a]] = "open" /\ req[pending[a]].account = a

(* A channel in use was opened by a request that is past its prompt, and   *)
(* an answered one was answered with a key the user has given.             *)
ChannelsOwned ==
  \A c \in Requests :
    /\ channel[c] # "none" => req[c].at \in Late
    /\ channel[c] = "provided" => req[c].account \in given

(* A waiter waits on a channel for its own account.                        *)
WaitersOwned ==
  \A r \in Requests : req[r].at = "wait" =>
    channel[req[r].chan] # "none" /\ req[req[r].chan].account = req[r].account

Gates == PendingOwned /\ ChannelsOwned /\ WaitersOwned /\ WaiterAnswerable

ProxyInv ==
  RequestsTyped /\ TablesTyped /\ AskingAgrees /\ StagesOK /\ ChoicesOK /\ SentsOK /\ Gates

-----------------------------------------------------------------------------
(* The steps of one request.                                               *)

OthersKept(r) == \A s \in Requests : s # r => req'[s] = req[s]

(* The request itself, and what it has chosen.                             *)
SameRequest(r) == req'[r].dom = req[r].dom /\ req'[r].hdr = req[r].hdr /\ req'[r].via = req[r].via
SameChoice(r) ==
  /\ req'[r].tokens = req[r].tokens /\ req'[r].account = req[r].account
  /\ req'[r].engine = req[r].engine

(* A request that only goes to another stage.                              *)
LEMMA GoesTo ==
  ASSUME RequestsTyped, NEW r \in Requests, NEW st \in Stages, req' = [req EXCEPT ![r].at = st]
  PROVE  /\ RequestsTyped' /\ OthersKept(r) /\ SameRequest(r) /\ SameChoice(r)
         /\ req'[r].at = st /\ req'[r].sent = req[r].sent
         /\ req'[r].by = req[r].by /\ req'[r].chan = req[r].chan
<1>1. RequestsTyped'
  BY DEF RequestsTyped, Request
<1>2. QED
  BY <1>1 DEF RequestsTyped, Request, OthersKept, SameRequest, SameChoice

(* A request that goes to another stage with an outcome.                   *)
LEMMA GoesWith ==
  ASSUME RequestsTyped, NEW r \in Requests, NEW st \in Stages, NEW what \in Sents,
         req' = [req EXCEPT ![r].at = st, ![r].sent = what]
  PROVE  /\ RequestsTyped' /\ OthersKept(r) /\ SameRequest(r) /\ SameChoice(r)
         /\ req'[r].at = st /\ req'[r].sent = what
         /\ req'[r].by = req[r].by /\ req'[r].chan = req[r].chan
<1>1. RequestsTyped'
  BY ZenonT(60) DEF RequestsTyped, Request
<1>2. QED
  BY <1>1 DEF RequestsTyped, Request, OthersKept, SameRequest, SameChoice

(* A request that is let in.                                               *)
LEMMA IsAdmitted ==
  ASSUME RequestsTyped, NEW r \in Requests, NEW by \in Admissions, Admit(r, by)
  PROVE  /\ RequestsTyped' /\ OthersKept(r) /\ SameRequest(r) /\ SameChoice(r)
         /\ req'[r].at = "route" /\ req'[r].sent = req[r].sent
<1>1. "route" \in Stages
  BY DEF Stages
<1>2. RequestsTyped'
  BY <1>1, ZenonT(60) DEF RequestsTyped, Request, Admit
<1>3. QED
  BY <1>2 DEF RequestsTyped, Request, Admit, OthersKept, SameRequest, SameChoice

(* A request that chooses what it will use.                                *)
LEMMA Chooses ==
  ASSUME RequestsTyped, NEW r \in Requests, NEW T \in Tokens, NEW st \in Stages,
         NEW a \in Chosen, NEW e \in Engines, Use(r, T, st, a, e)
  PROVE  /\ RequestsTyped' /\ OthersKept(r) /\ SameRequest(r)
         /\ req'[r].at = st /\ req'[r].tokens = T /\ req'[r].account = a
         /\ req'[r].engine = e /\ req'[r].sent = "as-is"
         /\ req'[r].by = req[r].by /\ req'[r].chan = req[r].chan
<1>1. "as-is" \in Sents
  BY DEF Sents, NoKey
<1>2. RequestsTyped'
  BY <1>1, ZenonT(60) DEF RequestsTyped, Request, Use
<1>3. QED
  BY <1>2 DEF RequestsTyped, Request, Use, OthersKept, SameRequest

-----------------------------------------------------------------------------
(* The routing table.                                                      *)

(* A nonempty set of numbers has a least one.                              *)
LEMMA MinExists ==
  ASSUME NEW S, S \subseteq Nat, S # {}
  PROVE  \E m \in S : \A n \in S : m <= n
<1>1. IsWellFoundedOn(OpToRel(<, Nat), Nat)
  BY NatLessThanWellFounded
<1>2. PICK m \in S : \A n \in S : ~(<<n, m>> \in OpToRel(<, Nat))
  BY <1>1, WFMin
<1>3. ASSUME NEW n \in S PROVE m <= n
  <2>1. ~(<<n, m>> \in OpToRel(<, Nat))
    BY <1>2
  <2>2. <<n, m>> \in Nat \X Nat
    OBVIOUS
  <2>3. ~(n < m)
    BY <2>1, <2>2 DEF OpToRel
  <2>4. QED
    BY <2>3
<1>4. QED
  BY <1>3

(* Min is that number.                                                     *)
LEMMA MinIn == ASSUME NEW S, S \subseteq Nat, S # {} PROVE Min(S) \in S
BY MinExists DEF Min

(* Of the sequences that match a domain one is the longest: none is longer *)
(* than the domain itself.                                                 *)
LEMMA LongestExists ==
  ASSUME NEW d \in Seq(STRING), NEW S, S # {},
         NEW f, \A i \in S : f[i] \in Nat /\ f[i] <= Len(d)
  PROVE  \E i \in S : \A j \in S : f[j] <= f[i]
<1> DEFINE R == {Len(d) - f[i] : i \in S}
<1>1. Len(d) \in Nat
  OBVIOUS
<1>2. R \subseteq Nat /\ R # {}
  BY <1>1
<1>3. PICK m \in R : \A n \in R : m <= n
  BY <1>2, MinExists
<1>4. PICK i \in S : m = Len(d) - f[i]
  BY <1>3
<1>5. ASSUME NEW j \in S PROVE f[j] <= f[i]
  <2>1. m <= Len(d) - f[j]
    BY <1>3
  <2>2. QED
    BY <2>1, <1>4, <1>1
<1>6. QED
  BY <1>5

(* resolve answers with an account that some matching route names, or with *)
(* none.                                                                   *)
LEMMA ResolveIs ==
  ASSUME routes \in Seq(Route), NEW d \in Seq(STRING)
  PROVE  Resolve(d) = NoAccount \/ (Resolve(d) \in Accounts /\ Routed(Resolve(d), d))
<1> DEFINE exact == {i \in DOMAIN routes : ~routes[i].wild /\ RouteMatches(routes[i], d)}
           wild == {i \in DOMAIN routes : routes[i].wild /\ RouteMatches(routes[i], d)}
           longest == {i \in wild : \A j \in wild : Len(routes[j].labels) <= Len(routes[i].labels)}
<1>1. DOMAIN routes \subseteq Nat /\ \A i \in DOMAIN routes : routes[i] \in Route
  OBVIOUS
<1>2. \A i \in DOMAIN routes : routes[i].account \in Accounts /\ routes[i].labels \in Seq(STRING)
  BY <1>1 DEF Route
<1>3. exact # {} => Min(exact) \in exact
  BY <1>1, MinIn
<1>4. ASSUME wild # {} PROVE Min(longest) \in longest
  <2>1. \A i \in wild : RouteMatches(routes[i], d)
    OBVIOUS
  <2>2. ASSUME NEW i \in wild PROVE Len(routes[i].labels) \in Nat /\ Len(routes[i].labels) <= Len(d)
    <3>1. PICK l \in Seq(STRING) : l = routes[i].labels
      BY <1>2
    <3>2. l = d \/ IsPrefix(l, d)
      BY <2>1, <3>1 DEF RouteMatches
    <3>3. QED
      BY <3>1, <3>2 DEF IsPrefix
  <2>3. PICK f : f = [i \in wild |-> Len(routes[i].labels)]
    OBVIOUS
  <2>4. \A i \in wild : f[i] \in Nat /\ f[i] <= Len(d)
    BY <2>2, <2>3
  <2>5. PICK i \in wild : \A j \in wild : f[j] <= f[i]
    BY <1>4, <2>4, LongestExists
  <2>6. i \in longest
    BY <2>3, <2>5
  <2>7. longest \subseteq Nat
    BY <1>1
  <2>8. QED
    BY <2>6, <2>7, MinIn
<1>5. CASE exact # {}
  <2>1. Resolve(d) = routes[Min(exact)].account
    BY <1>5 DEF Resolve
  <2>2. QED
    BY <2>1, <1>5, <1>3, <1>2 DEF Routed
<1>6. CASE exact = {} /\ wild # {}
  <2>1. Resolve(d) = routes[Min(longest)].account
    BY <1>6 DEF Resolve
  <2>2. QED
    BY <2>1, <1>6, <1>4, <1>2 DEF Routed
<1>7. CASE exact = {} /\ wild = {}
  <2>1. Resolve(d) = NoAccount
    BY <1>7 DEF Resolve
  <2>2. QED
    BY <2>1
<1>8. QED
  BY <1>5, <1>6, <1>7

-----------------------------------------------------------------------------
(* What every step of a request does to it.                                *)

(* To the gate of PromptGate it is idle, asks, or is answered.             *)
Idle(r) == req'[r].account = req[r].account /\ GateOutcome(req'[r]) = GateOutcome(req[r])
Asks(r) ==
  /\ GateOutcome(req[r]) = "none" /\ GateOutcome(req'[r]) = "asking"
  /\ req'[r].account \in Accounts
IsAnswered(r) ==
  /\ GateOutcome(req[r]) = "asking" /\ req'[r].account = req[r].account
  /\ \/ GateOutcome(req'[r]) = "no"
     \/ GateOutcome(req'[r]) = "yes" /\ req[r].account \in given

Advances(r) ==
  /\ RequestsTyped' /\ OthersKept(r)
  /\ StageOK(req'[r]) /\ ChoiceOK(req[r])' /\ SentOK(req[r])'
  /\ req[r].at \in Late => req'[r].at \in Late /\ req'[r].account = req[r].account
  /\ Idle(r) \/ Asks(r) \/ IsAnswered(r)

(* A request that waits for nobody after the step.                         *)
Settled(r) == req'[r].at \notin {"wait", "mismatch-wait"}

(* The outcome at the gate, case by case.                                  *)
LEMMA OutcomeIs ==
  ASSUME NEW q
  PROVE  /\ q.account \notin Accounts => GateOutcome(q) = "none"
         /\ q.account \in Accounts /\ q.at \in Asking => GateOutcome(q) = "asking"
         /\ q.account \in Accounts /\ q.at \notin Asking /\ q.sent = q.account => GateOutcome(q) = "yes"
         /\ q.account \in Accounts /\ q.at \notin Asking /\ q.sent # q.account => GateOutcome(q) = "no"
BY DEF GateOutcome, Asking

(* What the invariant says of one request.                                 *)
LEMMA OneRequest ==
  ASSUME ProxyInv, NEW r \in Requests
  PROVE  /\ RequestsTyped /\ TablesTyped /\ req[r] \in Request
         /\ StageOK(req[r]) /\ ChoiceOK(req[r]) /\ SentOK(req[r])
BY DEF ProxyInv, RequestsTyped, StagesOK, ChoicesOK, SentsOK

(* A request that has chosen nothing ends or goes on without a key.        *)
LEMMA EndsWithoutKey ==
  ASSUME ProxyInv, NEW r \in Requests, req[r].at \in Early, req[r].at # "new", NEW what \in NoKey,
         NEW st \in {"forward", "done"}, UNCHANGED <<given, routes>>,
         \/ req' = [req EXCEPT ![r].at = st, ![r].sent = what]
         \/ req' = [req EXCEPT ![r].at = st]
  PROVE  Advances(r) /\ Settled(r)
<1> USE ProxyAssumption
<1>1. /\ RequestsTyped /\ StageOK(req[r]) /\ ChoiceOK(req[r]) /\ SentOK(req[r]) /\ req[r] \in Request
  BY OneRequest
<1>2. st \in Stages /\ what \in Sents /\ what \notin Accounts
  BY DEF Stages, Sents
<1>3. /\ RequestsTyped' /\ OthersKept(r) /\ SameRequest(r) /\ SameChoice(r)
      /\ req'[r].at = st /\ req'[r].sent \in {what, req[r].sent}
      /\ req'[r].by = req[r].by /\ req'[r].chan = req[r].chan
  <2>1. CASE req' = [req EXCEPT ![r].at = st, ![r].sent = what]
    <3>1. /\ RequestsTyped' /\ OthersKept(r) /\ SameRequest(r) /\ SameChoice(r)
          /\ req'[r].at = st /\ req'[r].sent = what
          /\ req'[r].by = req[r].by /\ req'[r].chan = req[r].chan
      BY <1>1, <1>2, <2>1, GoesWith
    <3>2. QED
      BY <3>1
  <2>2. CASE req' = [req EXCEPT ![r].at = st]
    BY <1>1, <1>2, <2>2, GoesTo
  <2>3. QED
    BY <2>1, <2>2
<1>4. req[r].account = NoAccount /\ req'[r].account = NoAccount /\ req'[r].engine # "bearer"
  BY <1>1, <1>3 DEF StageOK, SameChoice, Early
<1>5. req'[r].sent \notin Accounts
  BY <1>1, <1>2, <1>3, <1>4 DEF StageOK
<1>6. StageOK(req'[r])
  BY <1>1, <1>3, <1>4, <1>5 DEF StageOK, SameRequest, Early, Asking
<1>7. ChoiceOK(req[r])' /\ SentOK(req[r])'
  BY <1>4, <1>5 DEF ChoiceOK, SentOK
<1>8. Idle(r)
  BY <1>4, OutcomeIs DEF Idle
<1>9. req'[r].at \in Late
  BY <1>3 DEF Late
<1>10. QED
  BY <1>3, <1>4, <1>6, <1>7, <1>8, <1>9 DEF Advances, Settled

(* Receive: the request arrives.                                           *)
LEMMA ReceiveAdvances ==
  ASSUME ProxyInv, NEW r \in Requests, Receive(r)
  PROVE  Advances(r) /\ Settled(r)
<1> USE ProxyAssumption
<1>1. /\ RequestsTyped /\ StageOK(req[r]) /\ ChoiceOK(req[r]) /\ SentOK(req[r]) /\ req[r] \in Request
  BY OneRequest
<1>2. PICK q \in Incoming[r] :
        req' = [req EXCEPT ![r] = [@ EXCEPT !.at = "gate", !.dom = q.dom, !.hdr = q.hdr, !.via = q.via]]
  BY DEF Receive
<1>3. q.dom \in Doms /\ q.dom \in Domains /\ q.hdr \in Headers /\ q.via \in Ways /\ "gate" \in Stages
  BY DEF Doms, Headers, Ways, Stages
<1>4. RequestsTyped'
  BY <1>1, <1>2, <1>3 DEF RequestsTyped, Request
<1>5. /\ OthersKept(r) /\ SameChoice(r) /\ req'[r].at = "gate" /\ req'[r].dom = q.dom
      /\ req'[r].sent = req[r].sent
  BY <1>1, <1>2, <1>3 DEF RequestsTyped, Request, OthersKept, SameChoice
<1>6. req[r].at = "new" /\ UNCHANGED given
  BY DEF Receive
<1>7. req[r].account = NoAccount /\ req'[r].account = NoAccount /\ req'[r].engine # "bearer"
  BY <1>1, <1>5, <1>6 DEF StageOK, SameChoice, Early
<1>8. req'[r].sent \notin Accounts
  BY <1>1, <1>5, <1>7 DEF StageOK
<1>9. StageOK(req'[r])
  BY <1>3, <1>5, <1>7, <1>8 DEF StageOK, Asking
<1>10. ChoiceOK(req[r])' /\ SentOK(req[r])'
  BY <1>7, <1>8 DEF ChoiceOK, SentOK
<1>11. Idle(r)
  BY <1>7, OutcomeIs DEF Idle
<1>12. req[r].at \notin Late
  BY <1>6 DEF Late
<1>13. QED
  BY <1>4, <1>5, <1>9, <1>10, <1>11, <1>12 DEF Advances, Settled

(* Gate and GateConnect: it is let in.                                     *)
LEMMA AdmitAdvances ==
  ASSUME ProxyInv, NEW r \in Requests, req[r].at = "gate", NEW by \in Admissions, Admit(r, by),
         UNCHANGED <<given, routes>>
  PROVE  Advances(r) /\ Settled(r)
<1> USE ProxyAssumption
<1>1. /\ RequestsTyped /\ StageOK(req[r]) /\ ChoiceOK(req[r]) /\ SentOK(req[r]) /\ req[r] \in Request
  BY OneRequest
<1>2. /\ RequestsTyped' /\ OthersKept(r) /\ SameRequest(r) /\ SameChoice(r)
      /\ req'[r].at = "route" /\ req'[r].sent = req[r].sent
  BY <1>1, IsAdmitted
<1>3. req[r].account = NoAccount /\ req'[r].account = NoAccount /\ req'[r].engine # "bearer"
  BY <1>1, <1>2 DEF StageOK, SameChoice, Early
<1>4. req'[r].sent \notin Accounts
  BY <1>1, <1>2, <1>3 DEF StageOK
<1>5. StageOK(req'[r])
  BY <1>1, <1>2, <1>3, <1>4 DEF StageOK, SameRequest, Asking
<1>6. ChoiceOK(req[r])' /\ SentOK(req[r])'
  BY <1>3, <1>4 DEF ChoiceOK, SentOK
<1>7. Idle(r)
  BY <1>3, OutcomeIs DEF Idle
<1>8. req[r].at \notin Late
  BY DEF Late
<1>9. QED
  BY <1>2, <1>5, <1>6, <1>7, <1>8 DEF Advances, Settled

(* AwsPath: signed with the keys of the host it stands for, or refused.    *)
LEMMA AwsPathAdvances ==
  ASSUME ProxyInv, NEW r \in Requests, AwsPath(r)
  PROVE  Advances(r) /\ Settled(r)
<1> USE ProxyAssumption
<1>1. /\ RequestsTyped /\ TablesTyped /\ StageOK(req[r]) /\ ChoiceOK(req[r]) /\ SentOK(req[r])
      /\ req[r] \in Request
  BY OneRequest
<1>2. req[r].at = "route" /\ UNCHANGED <<given, routes>>
  BY DEF AwsPath
<1>3. CASE Finish(r, "no")
  BY <1>2, <1>3, EndsWithoutKey DEF Finish, Early, NoKey
<1>4. CASE req' = [req EXCEPT ![r].at = "forward", ![r].dom = AwsHost,
                              ![r].tokens = mapped[AwsHost], ![r].sent = "signed"]
  <2>1. PICK T \in Tokens : T = mapped[AwsHost]
    BY <1>1 DEF TablesTyped
  <2>2. "forward" \in Stages /\ "signed" \in Sents /\ "signed" \notin Accounts /\ AwsHost \in Doms
    BY DEF Stages, Sents, NoKey, Doms
  <2>3. req' = [req EXCEPT ![r].at = "forward", ![r].dom = AwsHost, ![r].tokens = T, ![r].sent = "signed"]
    BY <1>4, <2>1
  <2>4. RequestsTyped'
    BY <1>1, <2>2, <2>3 DEF RequestsTyped, Request
  <2>5. /\ OthersKept(r) /\ req'[r].at = "forward" /\ req'[r].sent = "signed" /\ req'[r].dom = AwsHost
        /\ req'[r].account = req[r].account /\ req'[r].engine = req[r].engine
    BY <1>1, <2>3 DEF RequestsTyped, Request, OthersKept
  <2>6. req[r].account = NoAccount /\ req[r].engine # "bearer"
    BY <1>1, <1>2 DEF StageOK, Early
  <2>7. StageOK(req'[r])
    BY <2>2, <2>5, <2>6 DEF StageOK, Early, Asking
  <2>8. ChoiceOK(req[r])' /\ SentOK(req[r])'
    BY <2>2, <2>5, <2>6 DEF ChoiceOK, SentOK
  <2>9. Idle(r)
    BY <2>5, <2>6, OutcomeIs DEF Idle
  <2>10. req[r].at \notin Late
    BY <1>2 DEF Late
  <2>11. QED
    BY <2>4, <2>5, <2>7, <2>8, <2>9, <2>10 DEF Advances, Settled
<1>5. QED
  BY <1>3, <1>4 DEF AwsPath

(* A request that chooses: no account, or one it may use.                  *)
Permitted(r, T, a, e) ==
  \/ a \in T
  \/ e = "oauth" /\ Routed(a, req[r].dom)
  \/ T = {} /\ a = req[r].hdr /\ req[r].via = "http" /\ req[r].by = "once"

(* When no token is usable, a request goes on unsigned or is refused.       *)
LEMMA UseNothingAdvances ==
  ASSUME ProxyInv, NEW r \in Requests, req[r].at = "route", NEW T \in Tokens,
         NEW st \in {"sign", "mismatch", "forward"}, NEW e \in {"none", "aws"},
         Use(r, T, st, NoAccount, e), UNCHANGED <<given, routes>>
  PROVE  Advances(r) /\ Settled(r)
<1> USE ProxyAssumption
<1>1. /\ RequestsTyped /\ StageOK(req[r]) /\ req[r] \in Request
  BY OneRequest
<1>2. st \in Stages /\ e \in Engines /\ NoAccount \in Chosen /\ "as-is" \notin Accounts
  BY DEF Stages, Engines, Chosen, NoKey
<1>3. /\ RequestsTyped' /\ OthersKept(r) /\ SameRequest(r)
      /\ req'[r].at = st /\ req'[r].tokens = T /\ req'[r].account = NoAccount
      /\ req'[r].engine = e /\ req'[r].sent = "as-is"
  BY <1>1, <1>2, Chooses
<1>4. req[r].account = NoAccount
  BY <1>1 DEF StageOK, Early
<1>5. StageOK(req'[r])
  BY <1>1, <1>2, <1>3 DEF StageOK, SameRequest, Asking
<1>6. ChoiceOK(req[r])' /\ SentOK(req[r])'
  BY <1>2, <1>3 DEF ChoiceOK, SentOK
<1>7. Idle(r)
  BY <1>3, <1>4, OutcomeIs DEF Idle
<1>8. req[r].at \notin Late
  BY DEF Late
<1>9. QED
  BY <1>3, <1>5, <1>6, <1>7, <1>8 DEF Advances, Settled

(* A request that chooses an account it may use asks the gate.             *)
LEMMA UseAccountAdvances ==
  ASSUME ProxyInv, NEW r \in Requests, req[r].at = "route", NEW T \in Tokens,
         NEW a \in Accounts, NEW e \in {"telegram", "bearer", "oauth"}, Permitted(r, T, a, e),
         Use(r, T, "apply", a, e), UNCHANGED <<given, routes>>
  PROVE  Advances(r) /\ Settled(r)
<1> USE ProxyAssumption
<1>1. /\ RequestsTyped /\ StageOK(req[r]) /\ req[r] \in Request
  BY OneRequest
<1>2. "apply" \in Stages /\ e \in Engines /\ a \in Chosen /\ "as-is" \notin Accounts
  BY DEF Stages, Engines, Chosen, NoKey
<1>3. /\ RequestsTyped' /\ OthersKept(r) /\ SameRequest(r)
      /\ req'[r].at = "apply" /\ req'[r].tokens = T /\ req'[r].account = a
      /\ req'[r].engine = e /\ req'[r].sent = "as-is" /\ req'[r].by = req[r].by
  BY <1>1, <1>2, Chooses
<1>4. req[r].account = NoAccount
  BY <1>1 DEF StageOK, Early
<1>5. StageOK(req'[r])
  BY <1>1, <1>2, <1>3 DEF StageOK, SameRequest, Early
<1>6. ChoiceOK(req[r])'
  BY <1>3 DEF ChoiceOK, MayUse, Permitted, Routed, RouteMatches, SameRequest
<1>7. SentOK(req[r])'
  BY <1>2, <1>3 DEF SentOK
<1>8. Asks(r)
  BY <1>3, <1>4, OutcomeIs DEF Asks, Asking
<1>9. req[r].at \notin Late
  BY DEF Late
<1>10. QED
  BY <1>3, <1>5, <1>6, <1>7, <1>8, <1>9 DEF Advances, Settled

(* The accounts of the domain and of an "allow once" answer.               *)
LEMMA UseMappedAdvances ==
  ASSUME ProxyInv, NEW r \in Requests, req[r].at = "route", NEW T \in Tokens,
         UseMapped(r, T), UNCHANGED <<given, routes>>
  PROVE  Advances(r) /\ Settled(r)
<1> DEFINE h == req[r].hdr
           signs == AwsAccounts # {} /\ AwsAccounts \subseteq T
           bots == Telegram \cap T
<1>1. CASE signs
  <2>1. Use(r, T, "sign", NoAccount, "aws")
    BY <1>1 DEF UseMapped
  <2>2. QED
    BY <2>1, UseNothingAdvances
<1>2. CASE ~signs /\ bots # {}
  <2>1. PICK t \in bots : Use(r, T, "apply", t, "telegram")
    BY <1>2 DEF UseMapped
  <2>2. t \in Accounts /\ Permitted(r, T, t, "telegram")
    BY DEF Permitted, Tokens
  <2>3. QED
    BY <2>1, <2>2, UseAccountAdvances
<1>3. CASE ~signs /\ bots = {} /\ h = NoAccount
  <2>1. NoAccount \notin T
    BY ProxyAssumption DEF Tokens
  <2>2. Use(r, T, "forward", NoAccount, "none")
    BY <1>3, <2>1 DEF UseMapped, AsIs
  <2>3. QED
    BY <2>2, UseNothingAdvances
<1>4. CASE ~signs /\ bots = {} /\ h \in T
  <2>1. h # NoAccount /\ h \in Accounts
    BY <1>4, ProxyAssumption DEF Tokens
  <2>2. Use(r, T, "apply", h, "bearer")
    BY <1>4, <2>1 DEF UseMapped
  <2>3. Permitted(r, T, h, "bearer")
    BY <1>4 DEF Permitted
  <2>4. QED
    BY <2>1, <2>2, <2>3, UseAccountAdvances
<1>5. CASE ~signs /\ bots = {} /\ h # NoAccount /\ h \notin T
  <2>1. Use(r, T, "mismatch", NoAccount, "none")
    BY <1>5 DEF UseMapped
  <2>2. QED
    BY <2>1, UseNothingAdvances
<1>6. QED
  BY <1>1, <1>2, <1>3, <1>4, <1>5

(* Choose: the credential of a plain request.                              *)
LEMMA ChooseAdvances ==
  ASSUME ProxyInv, NEW r \in Requests, Choose(r)
  PROVE  Advances(r) /\ Settled(r)
<1> DEFINE d == req[r].dom
           O == TakenOnce(r)
           T == mapped[d] \cup O
<1>1. /\ RequestsTyped /\ TablesTyped /\ StageOK(req[r]) /\ req[r] \in Request
  BY OneRequest
<1>2. req[r].at = "route" /\ req[r].via = "http" /\ UNCHANGED <<given, routes>>
  BY DEF Choose
<1>3. \/ Finish(r, "no")
      \/ CASE Resolve(d) # NoAccount -> Use(r, mapped[d], "apply", Resolve(d), "oauth")
           [] Resolve(d) = NoAccount /\ T # {} -> UseMapped(r, T)
           [] Resolve(d) = NoAccount /\ T = {} /\ req[r].hdr = Dummy -> UseDummy(r)
           [] Resolve(d) = NoAccount /\ T = {} /\ req[r].hdr \in Accounts /\ req[r].by = "once"
                  -> Use(r, T, "apply", req[r].hdr, "bearer")
           [] OTHER -> AsIs(r, T)
  BY DEF Choose
<1>4. d \in Domains /\ d \in Seq(STRING) /\ mapped[d] \in Tokens /\ T \in Tokens
  BY <1>1, <1>2, ProxyAssumption DEF StageOK, TablesTyped, Tokens, TakenOnce
<1> HIDE DEF T, O
<1>5. CASE Finish(r, "no")
  BY <1>2, <1>5, EndsWithoutKey DEF Finish, Early, NoKey
<1>6. CASE ~Finish(r, "no") /\ Resolve(d) # NoAccount
  <2>1. Use(r, mapped[d], "apply", Resolve(d), "oauth")
    BY <1>3, <1>6
  <2>2. Resolve(d) \in Accounts /\ Routed(Resolve(d), d)
    BY <1>1, <1>4, <1>6, ResolveIs DEF TablesTyped
  <2>3. PICK a \in Accounts : a = Resolve(d)
    BY <2>2
  <2>4. Permitted(r, mapped[d], a, "oauth")
    BY <2>2, <2>3 DEF Permitted
  <2>5. QED
    BY <1>2, <1>4, <2>1, <2>3, <2>4, UseAccountAdvances
<1>7. CASE ~Finish(r, "no") /\ Resolve(d) = NoAccount /\ T # {}
  <2>1. UseMapped(r, T)
    BY <1>3, <1>7
  <2>2. QED
    BY <1>2, <1>4, <2>1, UseMappedAdvances
<1>8. CASE ~Finish(r, "no") /\ Resolve(d) = NoAccount /\ T = {} /\ req[r].hdr \in Accounts /\ req[r].by = "once"
  <2>1. req[r].hdr # Dummy
    BY <1>8, ProxyAssumption
  <2>2. ~(Resolve(d) # NoAccount) /\ ~(T # {})
    BY <1>8
  <2>3. Use(r, T, "apply", req[r].hdr, "bearer")
    BY <1>3, <1>8, <2>1, <2>2
  <2>4. Permitted(r, T, req[r].hdr, "bearer")
    BY <1>2, <1>8 DEF Permitted
  <2>5. QED
    BY <1>2, <1>8, <1>4, <2>3, <2>4, UseAccountAdvances
<1>9. CASE /\ ~Finish(r, "no") /\ Resolve(d) = NoAccount /\ T = {}
            /\ req[r].hdr = Dummy
  <2>1. UseDummy(r)
    BY <1>3, <1>9, ProxyAssumption
  <2>2. AsIs(r, {})
    BY <1>9, <2>1 DEF UseDummy
  <2>3. QED
    BY <1>2, <2>2, UseNothingAdvances DEF AsIs, Tokens
<1>10. CASE /\ ~Finish(r, "no") /\ Resolve(d) = NoAccount /\ T = {}
            /\ req[r].hdr # Dummy /\ ~(req[r].hdr \in Accounts /\ req[r].by = "once")
  <2>1. AsIs(r, T)
    BY <1>3, <1>10
  <2>2. QED
    BY <1>2, <1>4, <2>1, UseNothingAdvances DEF AsIs
<1>11. QED
  BY <1>5, <1>6, <1>7, <1>8, <1>9, <1>10

(* ChooseInspected: the credential of an inspected CONNECT.                *)
LEMMA ChooseInspectedAdvances ==
  ASSUME ProxyInv, NEW r \in Requests, ChooseInspected(r)
  PROVE  Advances(r) /\ Settled(r)
<1> DEFINE d == req[r].dom
           O == IF req[r].by = "pre" THEN {} ELSE TakenOnce(r)
           T == mapped[d] \cup O
<1>1. /\ RequestsTyped /\ TablesTyped /\ StageOK(req[r]) /\ req[r] \in Request
  BY OneRequest
<1>2. req[r].at = "route" /\ req[r].via = "connect" /\ UNCHANGED <<given, routes>>
  BY DEF ChooseInspected
<1>3. \/ Finish(r, "no")
      \/ CASE Resolve(d) # NoAccount -> Use(r, mapped[d], "apply", Resolve(d), "oauth")
           [] Resolve(d) = NoAccount /\ T # {} -> UseMapped(r, T)
           [] Resolve(d) = NoAccount /\ T = {} /\ req[r].hdr = Dummy -> UseDummy(r)
           [] OTHER -> AsIs(r, T)
  BY DEF ChooseInspected
<1>4. d \in Domains /\ d \in Seq(STRING) /\ mapped[d] \in Tokens /\ T \in Tokens
  BY <1>1, <1>2, ProxyAssumption DEF StageOK, TablesTyped, Tokens, TakenOnce
<1> HIDE DEF T, O
<1>5. CASE Finish(r, "no")
  BY <1>2, <1>5, EndsWithoutKey DEF Finish, Early, NoKey
<1>6. CASE ~Finish(r, "no") /\ Resolve(d) # NoAccount
  <2>1. Use(r, mapped[d], "apply", Resolve(d), "oauth")
    BY <1>3, <1>6
  <2>2. Resolve(d) \in Accounts /\ Routed(Resolve(d), d)
    BY <1>1, <1>4, <1>6, ResolveIs DEF TablesTyped
  <2>3. PICK a \in Accounts : a = Resolve(d)
    BY <2>2
  <2>4. Permitted(r, mapped[d], a, "oauth")
    BY <2>2, <2>3 DEF Permitted
  <2>5. QED
    BY <1>2, <1>4, <2>1, <2>3, <2>4, UseAccountAdvances
<1>7. CASE ~Finish(r, "no") /\ Resolve(d) = NoAccount /\ T # {}
  <2>1. UseMapped(r, T)
    BY <1>3, <1>7
  <2>2. QED
    BY <1>2, <1>4, <2>1, UseMappedAdvances
<1>9. CASE /\ ~Finish(r, "no") /\ Resolve(d) = NoAccount /\ T = {}
            /\ req[r].hdr = Dummy
  <2>1. UseDummy(r)
    BY <1>3, <1>9, ProxyAssumption
  <2>2. AsIs(r, {})
    BY <1>9, <2>1 DEF UseDummy
  <2>3. QED
    BY <1>2, <2>2, UseNothingAdvances DEF AsIs, Tokens
<1>10. CASE /\ ~Finish(r, "no") /\ Resolve(d) = NoAccount /\ T = {}
            /\ req[r].hdr # Dummy
  <2>1. AsIs(r, T)
    BY <1>3, <1>10
  <2>2. QED
    BY <1>2, <1>4, <2>1, UseNothingAdvances DEF AsIs
<1>11. QED
  BY <1>5, <1>6, <1>7, <1>9, <1>10

(* TokenMismatchGate: asking changes nothing of the choice.                *)
LEMMA MismatchAskAdvances ==
  ASSUME ProxyInv, NEW r \in Requests, MismatchAsk(r)
  PROVE  Advances(r)
<1>1. /\ RequestsTyped /\ StageOK(req[r]) /\ ChoiceOK(req[r]) /\ SentOK(req[r])
  BY OneRequest
<1>2. req[r].at = "mismatch" /\ UNCHANGED given /\ req' = [req EXCEPT ![r].at = "mismatch-wait"]
  BY DEF MismatchAsk
<1>3. "mismatch-wait" \in Stages
  BY DEF Stages
<1>4. /\ RequestsTyped' /\ OthersKept(r) /\ SameRequest(r) /\ SameChoice(r)
      /\ req'[r].at = "mismatch-wait" /\ req'[r].sent = req[r].sent
  BY <1>1, <1>2, <1>3, GoesTo
<1>5. req[r].account = NoAccount /\ req'[r].account = NoAccount
  BY <1>1, <1>2, <1>4 DEF StageOK, Early, SameChoice
<1>6. StageOK(req'[r])
  BY <1>1, <1>2, <1>4, <1>5 DEF StageOK, Early, Asking, SameRequest, SameChoice
<1>7. ChoiceOK(req[r])' /\ SentOK(req[r])'
  BY <1>1, <1>2, <1>4, <1>5, ProxyAssumption DEF ChoiceOK, SentOK
<1>8. Idle(r)
  BY <1>5, OutcomeIs, ProxyAssumption DEF Idle
<1>9. req[r].at \notin Late
  BY <1>2 DEF Late
<1>10. QED
  BY <1>4, <1>6, <1>7, <1>8, <1>9 DEF Advances

(* A mismatch prompt ends: the request fails or is forwarded as it came.    *)
LEMMA MismatchEndsAdvances ==
  ASSUME ProxyInv, NEW r \in Requests, MismatchEnds(r)
  PROVE  Advances(r) /\ Settled(r)
<1>1. /\ req[r].at = "mismatch-wait" /\ UNCHANGED <<given, routes>>
      /\ \/ req' = [req EXCEPT ![r].at = "done", ![r].sent = "no"]
         \/ req' = [req EXCEPT ![r].at = "forward"]
  BY DEF MismatchEnds, Finish
<1>2. req[r].at \in Early /\ req[r].at # "new" /\ "no" \in NoKey
  BY <1>1 DEF Early, NoKey
<1>3. CASE req' = [req EXCEPT ![r].at = "done", ![r].sent = "no"]
  BY <1>1, <1>2, <1>3, EndsWithoutKey
<1>4. CASE req' = [req EXCEPT ![r].at = "forward"]
  BY <1>1, <1>2, <1>4, EndsWithoutKey
<1>5. QED
  BY <1>1, <1>3, <1>4

(* The AWS delegator signs or strips.                                      *)
LEMMA SignAdvances ==
  ASSUME ProxyInv, NEW r \in Requests, Sign(r)
  PROVE  Advances(r) /\ Settled(r)
<1>1. /\ req[r].at = "sign" /\ UNCHANGED <<given, routes>>
      /\ \E s \in {"stripped", "signed"} : req' = [req EXCEPT ![r].at = "forward", ![r].sent = s]
  BY DEF Sign
<1>2. PICK s \in {"stripped", "signed"} : req' = [req EXCEPT ![r].at = "forward", ![r].sent = s]
  BY <1>1
<1>3. req[r].at \in Early /\ req[r].at # "new" /\ s \in NoKey
  BY <1>1 DEF Early, NoKey
<1>4. QED
  BY <1>1, <1>2, <1>3, EndsWithoutKey

(* A delegator is done with a request: its key, which the user has given,  *)
(* went in, or (but for the bearer one, which strips it) nothing did.      *)
LEMMA AppliedAdvances ==
  ASSUME ProxyInv, NEW r \in Requests, req[r].at \in Asking, UNCHANGED <<given, routes>>,
         NEW what, req' = [req EXCEPT ![r].at = "forward", ![r].sent = what],
         \/ what = req[r].account /\ what \in given
         \/ what = "stripped"
         \/ what = "as-is" /\ req[r].engine # "bearer"
  PROVE  Advances(r) /\ Settled(r)
<1> USE ProxyAssumption
<1>1. /\ RequestsTyped /\ TablesTyped /\ StageOK(req[r]) /\ ChoiceOK(req[r]) /\ SentOK(req[r])
      /\ req[r] \in Request
  BY OneRequest
<1>2. req[r].account \in Accounts
  BY <1>1 DEF StageOK
<1>3. "forward" \in Stages /\ what \in Sents /\ "stripped" \notin Accounts /\ "as-is" \notin Accounts
  BY <1>2 DEF Stages, Sents, NoKey
<1>4. /\ RequestsTyped' /\ OthersKept(r) /\ SameRequest(r) /\ SameChoice(r)
      /\ req'[r].at = "forward" /\ req'[r].sent = what
      /\ req'[r].by = req[r].by /\ req'[r].chan = req[r].chan
  BY <1>1, <1>3, GoesWith
<1>5. req[r].dom \in Domains
  BY <1>1 DEF StageOK, Asking
<1>6. StageOK(req'[r])
  BY <1>2, <1>3, <1>4, <1>5 DEF StageOK, Early, Asking, SameRequest, SameChoice
<1>7. ChoiceOK(req[r])'
  BY <1>1, <1>4, ZenonT(60) DEF ChoiceOK, MayUse, Routed, RouteMatches, SameRequest, SameChoice
<1>8. SentOK(req[r])'
  BY <1>3, <1>4 DEF SentOK
<1>9. IsAnswered(r)
  <2>1. GateOutcome(req[r]) = "asking" /\ req'[r].account = req[r].account
    BY <1>2, <1>4, OutcomeIs DEF SameChoice
  <2>2. req'[r].at \notin Asking
    BY <1>4 DEF Asking
  <2>3. CASE what = req[r].account
    BY <1>2, <1>3, <1>4, <2>1, <2>2, <2>3, OutcomeIs DEF IsAnswered
  <2>4. CASE what # req[r].account
    BY <1>2, <1>4, <2>1, <2>2, <2>4, OutcomeIs DEF IsAnswered
  <2>5. QED
    BY <2>3, <2>4
<1>10. req'[r].at \in Late /\ req'[r].account = req[r].account
  BY <1>4 DEF Late, SameChoice
<1>11. QED
  BY <1>4, <1>6, <1>7, <1>8, <1>9, <1>10 DEF Advances, Settled

(* TelegramDelegator::apply puts in a granted key, strips the token, or leaves the request. *)
LEMMA ApplyTelegramAdvances ==
  ASSUME ProxyInv, NEW r \in Requests, ApplyTelegram(r)
  PROVE  Advances(r) /\ Settled(r)
<1>1. keys \subseteq given
  BY OneRequest DEF TablesTyped
<1>2. PICK what : /\ Applied(r, what)
                  /\ \/ what = req[r].account /\ what \in given
                     \/ what = "stripped" \/ what = "as-is"
  BY <1>1 DEF ApplyTelegram
<1>3. /\ req[r].at \in Asking /\ req[r].engine # "bearer" /\ UNCHANGED <<given, routes>>
      /\ req' = [req EXCEPT ![r].at = "forward", ![r].sent = what]
  BY <1>2 DEF ApplyTelegram, Applied, Asking
<1>4. QED
  BY <1>2, <1>3, AppliedAdvances

(* A scripted delegator puts in a granted key or strips the token.          *)
LEMMA ApplyScriptedAdvances ==
  ASSUME ProxyInv, NEW r \in Requests, ApplyScripted(r)
  PROVE  Advances(r) /\ Settled(r)
<1>1. keys \subseteq given
  BY OneRequest DEF TablesTyped
<1>2. PICK what : /\ Applied(r, what)
                  /\ \/ what = req[r].account /\ what \in given
                     \/ what = "stripped"
  BY <1>1 DEF ApplyScripted
<1>3. /\ req[r].at \in Asking /\ UNCHANGED <<given, routes>>
      /\ req' = [req EXCEPT ![r].at = "forward", ![r].sent = what]
  BY <1>2 DEF ApplyScripted, Applied, Asking
<1>4. QED
  BY <1>2, <1>3, AppliedAdvances

(* The bearer delegator, and then the prompt, keep asking.                 *)
LEMMA StillAsks ==
  ASSUME ProxyInv, NEW r \in Requests, req[r].at \in Asking, req[r].engine = "bearer",
         UNCHANGED <<given, routes>>, RequestsTyped', OthersKept(r), SameRequest(r), SameChoice(r),
         req'[r].at \in {"prompt", "wait"}, req'[r].at = "wait" => req'[r].chan \in Requests,
         req'[r].sent = req[r].sent, req'[r].by = req[r].by, req[r].at \notin Late
  PROVE  Advances(r)
<1>1. /\ StageOK(req[r]) /\ ChoiceOK(req[r]) /\ SentOK(req[r])
  BY OneRequest
<1>2. req[r].account \in Accounts /\ req[r].dom \in Domains
  BY <1>1 DEF StageOK, Asking
<1>3. StageOK(req'[r])
  BY <1>1, <1>2 DEF StageOK, Early, Asking, SameRequest, SameChoice
<1>4. ChoiceOK(req[r])'
  BY <1>1 DEF ChoiceOK, MayUse, Routed, RouteMatches, SameRequest, SameChoice
<1>5. SentOK(req[r])'
  BY <1>1 DEF SentOK
<1>6. req'[r].at \in Asking
  BY DEF Asking
<1>7. Idle(r)
  BY <1>2, <1>6, OutcomeIs DEF Idle, SameChoice
<1>8. QED
  BY <1>3, <1>4, <1>5, <1>7 DEF Advances

(* BearerDelegator::apply puts in a key of the store, or asks and waits.    *)
LEMMA ApplyBearerAdvances ==
  ASSUME ProxyInv, NEW r \in Requests, ApplyBearer(r)
  PROVE  Advances(r) /\ Settled(r)
<1>1. RequestsTyped /\ keys \subseteq given
  BY OneRequest DEF TablesTyped
<1>2. /\ req[r].at = "apply" /\ req[r].engine = "bearer" /\ UNCHANGED <<given, routes>>
  BY DEF ApplyBearer
<1>3. req[r].at \in Asking /\ req[r].at \notin Late
  BY <1>2 DEF Asking, Late
<1>4. CASE req[r].account \in keys
  <2>1. req' = [req EXCEPT ![r].at = "forward", ![r].sent = req[r].account]
    BY <1>4 DEF ApplyBearer, Applied
  <2>2. PICK what : what = req[r].account
    OBVIOUS
  <2>3. QED
    BY <1>1, <1>2, <1>3, <1>4, <2>1, <2>2, AppliedAdvances
<1>5. CASE req[r].account \notin keys
  <2>1. req' = [req EXCEPT ![r].at = "prompt"] /\ "prompt" \in Stages
    BY <1>5 DEF ApplyBearer, Stages
  <2>2. /\ RequestsTyped' /\ OthersKept(r) /\ SameRequest(r) /\ SameChoice(r)
        /\ req'[r].at = "prompt" /\ req'[r].sent = req[r].sent
        /\ req'[r].by = req[r].by /\ req'[r].chan = req[r].chan
    BY <1>1, <2>1, GoesTo
  <2>3. QED
    BY <1>2, <1>3, <2>2, StillAsks DEF Settled
<1>6. QED
  BY <1>4, <1>5

(* ApiKeyGate: the request joins the account's channel or opens one.       *)
LEMMA PromptAdvances ==
  ASSUME ProxyInv, NEW r \in Requests, NEW c \in Requests, req[r].at = "prompt",
         req' = [req EXCEPT ![r].at = "wait", ![r].chan = c], UNCHANGED <<given, routes>>
  PROVE  Advances(r) /\ SameChoice(r) /\ req'[r].at = "wait" /\ req'[r].chan = c
<1>1. RequestsTyped /\ StageOK(req[r])
  BY OneRequest
<1>2. "wait" \in Stages /\ c \in Chans
  BY DEF Stages, Chans
<1>3. RequestsTyped'
  BY <1>1, <1>2, ZenonT(60) DEF RequestsTyped, Request
<1>4. /\ OthersKept(r) /\ SameRequest(r) /\ SameChoice(r)
      /\ req'[r].at = "wait" /\ req'[r].sent = req[r].sent
      /\ req'[r].by = req[r].by /\ req'[r].chan = c
  BY <1>1, <1>2 DEF RequestsTyped, Request, OthersKept, SameRequest, SameChoice
<1>5. req[r].at \in Asking /\ req[r].engine = "bearer" /\ req[r].at \notin Late
  BY <1>1 DEF StageOK, Asking, Late
<1>6. QED
  BY <1>3, <1>4, <1>5, StillAsks

(* A waiter that is told the key was given.                                *)
LEMMA AnsweredAdvances ==
  ASSUME ProxyInv, NEW r \in Requests, Answered(r)
  PROVE  Advances(r) /\ Settled(r)
<1>1. /\ req[r].at = "wait" /\ UNCHANGED <<given, routes>> /\ channel[req[r].chan] = "provided"
      /\ req' = [req EXCEPT ![r].at = "forward", ![r].sent = req[r].account]
  BY DEF Answered
<1>2. req[r].chan \in Requests
  BY <1>1, OneRequest DEF StageOK
<1>3. req[req[r].chan].account \in given /\ req[req[r].chan].account = req[r].account
  BY <1>1, <1>2 DEF ProxyInv, Gates, ChannelsOwned, WaitersOwned
<1>4. PICK what : what = req[r].account
  OBVIOUS
<1>5. req[r].at \in Asking
  BY <1>1 DEF Asking
<1>6. QED
  BY <1>1, <1>3, <1>4, <1>5, AppliedAdvances

(* The end of a request, with or without the vault's token.                *)
LEMMA EndAdvances ==
  ASSUME ProxyInv, NEW r \in Requests, req[r].at = "forward", UNCHANGED <<given, routes>>,
         \/ req' = [req EXCEPT ![r].at = "done"]
         \/ req[r].sent = "as-is" /\ Finish(r, "oauth")
  PROVE  Advances(r) /\ Settled(r)
<1> USE ProxyAssumption
<1>1. /\ RequestsTyped /\ StageOK(req[r]) /\ ChoiceOK(req[r]) /\ SentOK(req[r])
      /\ req[r] \in Request
  BY OneRequest
<1>2. "done" \in Stages /\ "oauth" \in Sents /\ "oauth" \notin Accounts /\ "as-is" \notin Accounts
  BY DEF Stages, Sents, NoKey
<1>3. /\ RequestsTyped' /\ OthersKept(r) /\ SameRequest(r) /\ SameChoice(r)
      /\ req'[r].at = "done" /\ req'[r].by = req[r].by
      /\ \/ req'[r].sent = req[r].sent
         \/ req[r].sent = "as-is" /\ req'[r].sent = "oauth"
  <2>1. CASE req' = [req EXCEPT ![r].at = "done"]
    <3>1. /\ RequestsTyped' /\ OthersKept(r) /\ SameRequest(r) /\ SameChoice(r)
          /\ req'[r].at = "done" /\ req'[r].sent = req[r].sent
          /\ req'[r].by = req[r].by /\ req'[r].chan = req[r].chan
      BY <1>1, <1>2, <2>1, GoesTo
    <3>2. QED
      BY <3>1
  <2>2. CASE req[r].sent = "as-is" /\ Finish(r, "oauth")
    <3>1. req' = [req EXCEPT ![r].at = "done", ![r].sent = "oauth"]
      BY <2>2 DEF Finish
    <3>2. /\ RequestsTyped' /\ OthersKept(r) /\ SameRequest(r) /\ SameChoice(r)
          /\ req'[r].at = "done" /\ req'[r].sent = "oauth"
          /\ req'[r].by = req[r].by /\ req'[r].chan = req[r].chan
      BY <1>1, <1>2, <3>1, GoesWith
    <3>3. QED
      BY <2>2, <3>2
  <2>3. QED
    BY <2>1, <2>2
<1>4. req[r].dom \in Domains /\ req[r].at \notin Asking /\ req'[r].at \notin Asking
  BY <1>1, <1>3 DEF StageOK, Asking
<1>5. req[r].engine = "bearer" => req[r].account \in Accounts /\ req[r].sent \in {req[r].account, "stripped"}
  BY <1>1 DEF StageOK
<1>6. StageOK(req'[r])
  BY <1>1, <1>2, <1>3, <1>4, <1>5 DEF StageOK, Early, Asking, SameRequest, SameChoice
<1>7. ChoiceOK(req[r])'
  BY <1>1, <1>3 DEF ChoiceOK, MayUse, Routed, RouteMatches, SameRequest, SameChoice
<1>8. SentOK(req[r])'
  BY <1>1, <1>2, <1>3 DEF SentOK
<1>9. Idle(r)
  <2>1. CASE req[r].account \in Accounts
    <3>1. (req'[r].sent = req'[r].account) <=> (req[r].sent = req[r].account)
      BY <1>2, <1>3, <2>1 DEF SameChoice
    <3>2. QED
      BY <1>3, <1>4, <2>1, <3>1, OutcomeIs DEF Idle, SameChoice
  <2>2. CASE req[r].account \notin Accounts
    BY <1>3, <2>2, OutcomeIs DEF Idle, SameChoice
  <2>3. QED
    BY <2>1, <2>2
<1>10. req'[r].at \in Late /\ req'[r].account = req[r].account
  BY <1>3 DEF Late, SameChoice
<1>11. QED
  BY <1>3, <1>6, <1>7, <1>8, <1>9, <1>10 DEF Advances, Settled

-----------------------------------------------------------------------------
(* From one request to all of them.                                        *)

LEMMA AllAdvance ==
  ASSUME ProxyInv, NEW r \in Requests, Advances(r), UNCHANGED <<given, routes>>
  PROVE  RequestsTyped' /\ StagesOK' /\ ChoicesOK' /\ SentsOK'
<1>1. /\ RequestsTyped' /\ OthersKept(r)
      /\ StageOK(req'[r]) /\ ChoiceOK(req[r])' /\ SentOK(req[r])'
  BY DEF Advances
<1>2. ASSUME NEW s \in Requests PROVE StageOK(req'[s]) /\ ChoiceOK(req[s])' /\ SentOK(req[s])'
  <2>1. CASE s = r
    BY <1>1, <2>1
  <2>2. CASE s # r
    <3>1. req'[s] = req[s]
      BY <1>1, <2>2 DEF OthersKept
    <3>2. StageOK(req[s]) /\ ChoiceOK(req[s]) /\ SentOK(req[s])
      BY OneRequest
    <3>3. StageOK(req'[s])
      BY <3>1, <3>2
    <3>4. ChoiceOK(req[s])'
      BY <3>1, <3>2 DEF ChoiceOK, MayUse, Routed, RouteMatches
    <3>5. SentOK(req[s])'
      BY <3>1, <3>2 DEF SentOK
    <3>6. QED
      BY <3>3, <3>4, <3>5
  <2>3. QED
    BY <2>1, <2>2
<1>3. StagesOK'
  BY <1>2 DEF StagesOK
<1>4. ChoicesOK'
  BY <1>2 DEF ChoicesOK
<1>5. SentsOK'
  BY <1>2 DEF SentsOK
<1>6. QED
  BY <1>1, <1>3, <1>4, <1>5

(* A request's step that leaves ApiKeyGate alone, and does not begin to    *)
(* wait, leaves its bookkeeping true.                                      *)
LEMMA GatesKept ==
  ASSUME ProxyInv, NEW r \in Requests, Advances(r), UNCHANGED <<given, pending, channel>>,
         req'[r].at # "wait"
  PROVE  Gates'
<1>1. /\ PendingOwned /\ ChannelsOwned /\ WaitersOwned /\ WaiterAnswerable
      /\ RequestsTyped /\ TablesTyped /\ StagesOK
  BY DEF ProxyInv, Gates
<1>2. /\ \A s \in Requests : s # r => req'[s] = req[s]
      /\ req[r].at \in Late => req'[r].at \in Late /\ req'[r].account = req[r].account
  BY DEF Advances, OthersKept
<1>3. \A c \in Requests : req[c].at \in Late => req'[c].at \in Late /\ req'[c].account = req[c].account
  BY <1>2
<1>4. PendingOwned'
  <2>1. SUFFICES ASSUME NEW a \in Accounts, pending[a] # NoChannel
                 PROVE  channel[pending[a]] = "open" /\ req'[pending[a]].account = a
    BY DEF PendingOwned
  <2>2. PICK c \in Requests : c = pending[a]
    BY <1>1, <2>1 DEF TablesTyped, Chans
  <2>3. channel[c] = "open" /\ req[c].account = a
    BY <1>1, <2>1, <2>2 DEF PendingOwned
  <2>4. req[c].at \in Late
    BY <1>1, <2>3 DEF ChannelsOwned
  <2>5. QED
    BY <1>3, <2>2, <2>3, <2>4
<1>5. ChannelsOwned'
  BY <1>1, <1>3 DEF ChannelsOwned
<1>6. \A s \in Requests : req'[s].at = "wait" => s # r /\ req'[s] = req[s] /\ req[s].at = "wait"
  BY <1>2
<1>7. WaitersOwned'
  <2>1. SUFFICES ASSUME NEW s \in Requests, req'[s].at = "wait"
                 PROVE  channel[req'[s].chan] # "none" /\ req'[req'[s].chan].account = req'[s].account
    BY DEF WaitersOwned
  <2>2. req'[s] = req[s] /\ req[s].at = "wait"
    BY <1>6, <2>1
  <2>3. PICK c \in Requests : c = req[s].chan
    BY <1>1, <2>2 DEF StagesOK, StageOK
  <2>4. channel[c] # "none" /\ req[c].account = req[s].account
    BY <1>1, <2>2, <2>3 DEF WaitersOwned
  <2>5. req[c].at \in Late
    BY <1>1, <2>4 DEF ChannelsOwned
  <2>6. QED
    BY <1>3, <2>2, <2>3, <2>4, <2>5
<1>8. WaiterAnswerable'
  BY <1>1, <1>6 DEF WaiterAnswerable
<1>9. QED
  BY <1>4, <1>5, <1>7, <1>8 DEF Gates

(* A step of a request that touches neither the tables nor a gate.         *)
LEMMA PlainStep ==
  ASSUME ProxyInv, NEW r \in Requests, Advances(r), UNCHANGED <<given, routes, pending, channel, asking>>,
         req[r].at # "mismatch-wait", Settled(r), TablesTyped'
  PROVE  ProxyInv'
<1>1. RequestsTyped' /\ StagesOK' /\ ChoicesOK' /\ SentsOK'
  BY AllAdvance
<1>2. Gates'
  BY GatesKept DEF Settled
<1>3. \A s \in Requests : s # r => req'[s] = req[s]
  BY DEF Advances, OthersKept
<1>4. AskingAgrees'
  BY <1>3 DEF ProxyInv, AskingAgrees, Settled
<1>5. QED
  BY <1>1, <1>2, <1>4 DEF ProxyInv

-----------------------------------------------------------------------------
(* The steps that touch a gate.                                            *)

(* TokenMismatchGate: who is asked about waits, and who waits is asked     *)
(* about.                                                                  *)
LEMMA MismatchAskStep ==
  ASSUME ProxyInv, NEW r \in Requests, MismatchAsk(r)
  PROVE  ProxyInv'
<1>1. Advances(r)
  BY MismatchAskAdvances
<1>2. /\ req[r].at = "mismatch" /\ asking' = asking \cup {r}
      /\ req' = [req EXCEPT ![r].at = "mismatch-wait"]
      /\ UNCHANGED <<keys, given, submitted, mapped, once, routes, pending, channel>>
  BY DEF MismatchAsk
<1>3. RequestsTyped /\ TablesTyped /\ AskingAgrees
  BY DEF ProxyInv
<1>4. req'[r].at = "mismatch-wait" /\ \A s \in Requests : s # r => req'[s] = req[s]
  BY <1>2, <1>3 DEF RequestsTyped, Request
<1>5. RequestsTyped' /\ StagesOK' /\ ChoicesOK' /\ SentsOK'
  BY <1>1, <1>2, AllAdvance
<1>6. Gates'
  BY <1>1, <1>2, <1>4, GatesKept
<1>7. TablesTyped'
  BY <1>2, <1>3 DEF TablesTyped
<1>8. AskingAgrees'
  BY <1>2, <1>3, <1>4 DEF AskingAgrees
<1>9. QED
  BY <1>5, <1>6, <1>7, <1>8 DEF ProxyInv

(* The invariant holds when a mismatch prompt ends.                         *)
LEMMA MismatchEndsStep ==
  ASSUME ProxyInv, NEW r \in Requests, MismatchEnds(r)
  PROVE  ProxyInv'
<1>1. Advances(r) /\ Settled(r)
  BY MismatchEndsAdvances
<1>2. /\ req[r].at = "mismatch-wait" /\ asking' = asking \ {r}
      /\ UNCHANGED <<keys, given, submitted, mapped, once, routes, pending, channel>>
  BY DEF MismatchEnds
<1>3. TablesTyped /\ AskingAgrees
  BY DEF ProxyInv
<1>4. \A s \in Requests : s # r => req'[s] = req[s]
  BY <1>1 DEF Advances, OthersKept
<1>5. RequestsTyped' /\ StagesOK' /\ ChoicesOK' /\ SentsOK'
  BY <1>1, <1>2, AllAdvance
<1>6. Gates'
  BY <1>1, <1>2, GatesKept DEF Settled
<1>7. TablesTyped'
  BY <1>2, <1>3 DEF TablesTyped
<1>8. AskingAgrees'
  BY <1>1, <1>2, <1>3, <1>4 DEF AskingAgrees, Settled
<1>9. QED
  BY <1>5, <1>6, <1>7, <1>8 DEF ProxyInv

(* ApiKeyGate: the request joins the pending channel of its account, whose *)
(* opener asked for the same account, or opens its own, which nobody uses. *)
LEMMA PromptStep ==
  ASSUME ProxyInv, NEW r \in Requests, Prompt(r)
  PROVE  ProxyInv' /\ Advances(r)
<1> USE ProxyAssumption
<1>1. /\ PendingOwned /\ ChannelsOwned /\ WaitersOwned /\ WaiterAnswerable
      /\ RequestsTyped /\ TablesTyped /\ StagesOK /\ AskingAgrees
  BY DEF ProxyInv, Gates
<1>2. PICK a : a = req[r].account
  OBVIOUS
<1>3. PICK c : c = IF pending[a] = NoChannel THEN r ELSE pending[a]
  OBVIOUS
<1>4. /\ req[r].at = "prompt"
      /\ pending' = [pending EXCEPT ![a] = c]
      /\ channel' = [channel EXCEPT ![c] = "open"]
      /\ req' = [req EXCEPT ![r].at = "wait", ![r].chan = c]
      /\ UNCHANGED <<keys, given, submitted, mapped, once, routes, asking>>
  BY <1>2, <1>3 DEF Prompt
<1>5. a \in Accounts
  BY <1>1, <1>2, <1>4 DEF StagesOK, StageOK, Asking
<1>6. c \in Requests
  BY <1>1, <1>3, <1>5 DEF TablesTyped, Chans
<1>7. Advances(r) /\ SameChoice(r) /\ req'[r].at = "wait" /\ req'[r].chan = c
  BY <1>4, <1>6, PromptAdvances
<1>8. RequestsTyped' /\ StagesOK' /\ ChoicesOK' /\ SentsOK'
  BY <1>4, <1>7, AllAdvance
<1>9. /\ \A s \in Requests : s # r => req'[s] = req[s]
      /\ \A s \in Requests : req'[s].account = req[s].account
  BY <1>7 DEF Advances, OthersKept, SameChoice
<1>10. \A s \in Requests : req[s].at \in Late => req'[s].at \in Late
  BY <1>7, <1>9 DEF Late
<1>11. /\ pending'[a] = c /\ \A b \in Accounts : b # a => pending'[b] = pending[b]
       /\ channel'[c] = "open" /\ \A e \in Requests : e # c => channel'[e] = channel[e]
  BY <1>1, <1>4, <1>5, <1>6 DEF TablesTyped
<1>12. TablesTyped'
  <2>1. pending' \in [Accounts -> Chans]
    BY <1>1, <1>4, <1>5, <1>6 DEF TablesTyped, Chans
  <2>2. channel' \in [Requests -> ChannelStates]
    BY <1>1, <1>4, <1>6 DEF TablesTyped, ChannelStates
  <2>3. QED
    BY <1>1, <1>4, <2>1, <2>2 DEF TablesTyped
<1>13. AskingAgrees'
  BY <1>1, <1>4, <1>7, <1>9 DEF AskingAgrees
<1>14. channel[r] = "none"
  BY <1>1, <1>4 DEF ChannelsOwned, Late
<1>15. req[c].account = a /\ (c # r => channel[c] = "open")
  BY <1>1, <1>2, <1>3, <1>5 DEF PendingOwned
<1>16. PendingOwned'
  <2>1. SUFFICES ASSUME NEW b \in Accounts, pending'[b] # NoChannel
                 PROVE  channel'[pending'[b]] = "open" /\ req'[pending'[b]].account = b
    BY DEF PendingOwned
  <2>2. CASE b = a
    BY <1>6, <1>9, <1>11, <1>15, <2>2
  <2>3. CASE b # a
    <3>1. PICK e \in Requests : e = pending[b]
      BY <1>1, <1>11, <2>1, <2>3 DEF TablesTyped, Chans
    <3>2. channel[e] = "open" /\ req[e].account = b
      BY <1>1, <1>11, <2>1, <2>3, <3>1 DEF PendingOwned
    <3>3. QED
      BY <1>9, <1>11, <2>3, <3>1, <3>2
  <2>4. QED
    BY <2>2, <2>3
<1>17. ChannelsOwned'
  <2>1. SUFFICES ASSUME NEW e \in Requests
                 PROVE  /\ channel'[e] # "none" => req'[e].at \in Late
                        /\ channel'[e] = "provided" => req'[e].account \in given'
    BY DEF ChannelsOwned
  <2>2. CASE e = c
    <3>1. req'[c].at \in Late
      <4>1. CASE c = r
        BY <1>7, <4>1 DEF Late
      <4>2. CASE c # r
        <5>1. req[c].at \in Late
          BY <1>1, <1>6, <1>15, <4>2 DEF ChannelsOwned
        <5>2. QED
          BY <1>6, <1>10, <5>1
      <4>3. QED
        BY <4>1, <4>2
    <3>2. QED
      BY <1>11, <2>2, <3>1
  <2>3. CASE e # c
    <3>1. channel'[e] = channel[e] /\ given' = given /\ req'[e].account = req[e].account
      BY <1>4, <1>9, <1>11, <2>3
    <3>2. QED
      BY <1>1, <1>10, <3>1 DEF ChannelsOwned
  <2>4. QED
    BY <2>2, <2>3
<1>18. ASSUME NEW s \in Requests, req'[s].at = "wait", s # r
       PROVE  /\ req'[s] = req[s] /\ req[s].at = "wait" /\ req[s].chan \in Requests
              /\ req[s].chan # r
  <2>1. req'[s] = req[s] /\ req[s].at = "wait"
    BY <1>9, <1>18
  <2>2. req[s].chan \in Requests
    BY <1>1, <2>1 DEF StagesOK, StageOK
  <2>3. channel[req[s].chan] # "none"
    BY <1>1, <2>1 DEF WaitersOwned
  <2>4. QED
    BY <1>14, <2>1, <2>2, <2>3
<1>19. WaitersOwned'
  <2>1. SUFFICES ASSUME NEW s \in Requests, req'[s].at = "wait"
                 PROVE  channel'[req'[s].chan] # "none" /\ req'[req'[s].chan].account = req'[s].account
    BY DEF WaitersOwned
  <2>2. CASE s = r
    BY <1>2, <1>6, <1>7, <1>9, <1>11, <1>15, <2>2
  <2>3. CASE s # r
    <3>1. req'[s] = req[s] /\ req[s].at = "wait" /\ req[s].chan \in Requests
      BY <1>18, <2>1, <2>3
    <3>2. channel[req[s].chan] # "none" /\ req[req[s].chan].account = req[s].account
      BY <1>1, <3>1 DEF WaitersOwned
    <3>3. QED
      BY <1>9, <1>11, <3>1, <3>2
  <2>4. QED
    BY <2>2, <2>3
<1>20. WaiterAnswerable'
  <2>1. SUFFICES ASSUME NEW s \in Requests, req'[s].at = "wait"
                 PROVE  pending'[req'[s].account] = req'[s].chan \/ channel'[req'[s].chan] # "open"
    BY DEF WaiterAnswerable
  <2>2. CASE s = r
    BY <1>2, <1>7, <1>9, <1>11, <2>2
  <2>3. CASE s # r
    <3>1. req'[s] = req[s] /\ req[s].at = "wait" /\ req[s].chan \in Requests /\ req[s].chan # r
      BY <1>18, <2>1, <2>3
    <3>2. req[s].account \in Accounts
      BY <1>1, <3>1 DEF StagesOK, StageOK, Asking
    <3>3. CASE channel[req[s].chan] # "open"
      <4>1. req[s].chan # c
        BY <1>15, <3>1, <3>3
      <4>2. QED
        BY <1>11, <3>1, <3>3, <4>1
    <3>4. CASE pending[req[s].account] = req[s].chan
      <4>1. CASE req[s].account # a
        BY <1>11, <3>1, <3>2, <3>4, <4>1
      <4>2. CASE req[s].account = a
        <5>1. pending[a] # NoChannel
          BY <3>1, <3>4, <4>2
        <5>2. c = pending[a]
          BY <1>3, <5>1
        <5>3. QED
          BY <1>11, <3>1, <3>4, <4>2, <5>2
      <4>3. QED
        BY <4>1, <4>2
    <3>5. QED
      BY <1>1, <3>1, <3>3, <3>4 DEF WaiterAnswerable
  <2>4. QED
    BY <2>2, <2>3
<1>21. QED
  BY <1>7, <1>8, <1>12, <1>13, <1>16, <1>17, <1>19, <1>20 DEF ProxyInv, Gates

(* The account's channel is answered, or dropped, and is no longer the     *)
(* pending one: its waiters are awake, and no other channel is touched.    *)
LEMMA ChannelCloses ==
  ASSUME ProxyInv, NEW a \in Accounts, NEW v \in {"provided", "cancelled", "dropped"},
         v = "provided" => a \in given, UNCHANGED given,
         pending' = [pending EXCEPT ![a] = NoChannel],
         \A e \in Requests : channel'[e] = IF e = pending[a] THEN v ELSE channel[e],
         \A s \in Requests : req[s].at \in Late => req'[s].at \in Late /\ req'[s].account = req[s].account,
         \A s \in Requests : req'[s].at = "wait" => req'[s] = req[s]
  PROVE  Gates' /\ pending' \in [Accounts -> Chans]
<1> USE ProxyAssumption
<1>1. /\ PendingOwned /\ ChannelsOwned /\ WaitersOwned /\ WaiterAnswerable
      /\ RequestsTyped /\ TablesTyped /\ StagesOK
  BY DEF ProxyInv, Gates
<1>2. pending'[a] = NoChannel /\ \A b \in Accounts : b # a => pending'[b] = pending[b]
  BY <1>1 DEF TablesTyped
<1>3. pending' \in [Accounts -> Chans]
  BY <1>1 DEF TablesTyped, Chans
<1>4. \A b \in Accounts : pending[b] # NoChannel =>
        /\ pending[b] \in Requests /\ channel[pending[b]] = "open" /\ req[pending[b]].account = b
        /\ req[pending[b]].at \in Late
  <2>1. SUFFICES ASSUME NEW b \in Accounts, pending[b] # NoChannel
                 PROVE  /\ pending[b] \in Requests /\ channel[pending[b]] = "open"
                        /\ req[pending[b]].account = b /\ req[pending[b]].at \in Late
    OBVIOUS
  <2>2. pending[b] \in Requests
    BY <1>1, <2>1 DEF TablesTyped, Chans
  <2>3. channel[pending[b]] = "open" /\ req[pending[b]].account = b
    BY <1>1, <2>1 DEF PendingOwned
  <2>4. req[pending[b]].at \in Late
    BY <1>1, <2>2, <2>3 DEF ChannelsOwned
  <2>5. QED
    BY <2>2, <2>3, <2>4
<1>5. PendingOwned'
  <2>1. SUFFICES ASSUME NEW b \in Accounts, pending'[b] # NoChannel
                 PROVE  channel'[pending'[b]] = "open" /\ req'[pending'[b]].account = b
    BY DEF PendingOwned
  <2>2. b # a /\ pending'[b] = pending[b]
    BY <1>2, <2>1
  <2>3. PICK e \in Requests : e = pending[b]
    BY <1>4, <2>1, <2>2
  <2>4. channel[e] = "open" /\ req[e].account = b /\ req[e].at \in Late
    BY <1>4, <2>1, <2>2, <2>3
  <2>5. e # pending[a]
    BY <1>4, <2>2, <2>4, <2>3
  <2>6. channel'[e] = "open" /\ req'[e].account = b
    BY <2>4, <2>5
  <2>7. QED
    BY <2>2, <2>3, <2>6
<1>6. ChannelsOwned'
  <2>1. SUFFICES ASSUME NEW e \in Requests
                 PROVE  /\ channel'[e] # "none" => req'[e].at \in Late
                        /\ channel'[e] = "provided" => req'[e].account \in given'
    BY DEF ChannelsOwned
  <2>2. CASE e = pending[a]
    <3>1. pending[a] # NoChannel
      BY <2>2
    <3>2. req[e].at \in Late /\ req[e].account = a
      BY <1>4, <2>2, <3>1
    <3>3. channel'[e] = v
      BY <2>2
    <3>4. QED
      BY <3>2, <3>3
  <2>3. CASE e # pending[a]
    <3>1. channel'[e] = channel[e]
      BY <2>3
    <3>2. channel[e] = "provided" => channel[e] # "none"
      OBVIOUS
    <3>3. QED
      BY <1>1, <3>1, <3>2 DEF ChannelsOwned
  <2>4. QED
    BY <2>2, <2>3
<1>7. ASSUME NEW s \in Requests, req'[s].at = "wait"
      PROVE  /\ req'[s] = req[s] /\ req[s].at = "wait" /\ req[s].chan \in Requests
             /\ req[s].account \in Accounts
  <2>1. req'[s] = req[s] /\ req[s].at = "wait"
    BY <1>7
  <2>2. req[s].chan \in Requests /\ req[s].account \in Accounts
    BY <1>1, <2>1 DEF StagesOK, StageOK, Asking
  <2>3. QED
    BY <2>1, <2>2
<1>8. WaitersOwned'
  <2>1. SUFFICES ASSUME NEW s \in Requests, req'[s].at = "wait"
                 PROVE  channel'[req'[s].chan] # "none" /\ req'[req'[s].chan].account = req'[s].account
    BY DEF WaitersOwned
  <2>2. /\ req'[s] = req[s] /\ req[s].at = "wait" /\ req[s].account \in Accounts
    BY <1>7, <2>1
  <2>3. PICK e \in Requests : e = req[s].chan
    BY <1>7, <2>1
  <2>4. channel[e] # "none" /\ req[e].account = req[s].account
    BY <1>1, <2>2, <2>3 DEF WaitersOwned
  <2>5. req[e].at \in Late
    BY <1>1, <2>4 DEF ChannelsOwned
  <2>6. channel'[e] # "none" /\ req'[e].account = req[e].account
    BY <2>4, <2>5
  <2>7. QED
    BY <2>2, <2>3, <2>4, <2>6
<1>9. WaiterAnswerable'
  <2>1. SUFFICES ASSUME NEW s \in Requests, req'[s].at = "wait"
                 PROVE  pending'[req'[s].account] = req'[s].chan \/ channel'[req'[s].chan] # "open"
    BY DEF WaiterAnswerable
  <2>2. /\ req'[s] = req[s] /\ req[s].at = "wait" /\ req[s].account \in Accounts
    BY <1>7, <2>1
  <2>3. PICK e \in Requests : e = req[s].chan
    BY <1>7, <2>1
  <2>4. PICK b \in Accounts : b = req[s].account
    BY <2>2
  <2>5. pending[b] = e \/ channel[e] # "open"
    BY <1>1, <2>2, <2>3, <2>4 DEF WaiterAnswerable
  <2>6. pending'[b] = e \/ channel'[e] # "open"
    <3>1. CASE e = pending[a]
      BY <3>1
    <3>2. CASE e # pending[a]
      BY <1>2, <2>5, <3>2
    <3>3. QED
      BY <3>1, <3>2
  <2>7. QED
    BY <2>2, <2>3, <2>4, <2>6
<1>10. QED
  BY <1>3, <1>5, <1>6, <1>8, <1>9 DEF Gates

(* A wait that is cancelled, dropped or timed out.                         *)
LEMMA CancelledStep ==
  ASSUME ProxyInv, NEW r \in Requests, Cancelled(r)
  PROVE  ProxyInv' /\ Advances(r)
<1> USE ProxyAssumption
<1>1. RequestsTyped /\ TablesTyped /\ StageOK(req[r]) /\ AskingAgrees
  BY OneRequest DEF ProxyInv
<1>2. PICK a : a = req[r].account
  OBVIOUS
<1>3. /\ req[r].at = "wait"
      /\ channel' = IF pending[a] = NoChannel THEN channel ELSE [channel EXCEPT ![pending[a]] = "dropped"]
      /\ pending' = [pending EXCEPT ![a] = NoChannel]
      /\ req' = [req EXCEPT ![r].at = "forward", ![r].sent = "stripped"]
      /\ UNCHANGED <<keys, given, submitted, mapped, once, routes, asking>>
  BY <1>2 DEF Cancelled
<1>4. req[r].at \in Asking /\ a \in Accounts
  BY <1>1, <1>2, <1>3 DEF StageOK, Asking
<1>5. Advances(r) /\ Settled(r)
  <2>1. PICK what : what = "stripped"
    OBVIOUS
  <2>2. QED
    BY <1>3, <1>4, <2>1, AppliedAdvances
<1>6. RequestsTyped' /\ StagesOK' /\ ChoicesOK' /\ SentsOK'
  BY <1>3, <1>5, AllAdvance
<1>7. \A s \in Requests : s # r => req'[s] = req[s]
  BY <1>5 DEF Advances, OthersKept
<1>8. \A s \in Requests : req[s].at \in Late => req'[s].at \in Late /\ req'[s].account = req[s].account
  BY <1>5, <1>7 DEF Advances
<1>9. \A s \in Requests : req'[s].at = "wait" => req'[s] = req[s]
  BY <1>5, <1>7 DEF Settled
<1>10. pending[a] \in Requests \/ pending[a] = NoChannel
  BY <1>1, <1>4 DEF TablesTyped, Chans
<1>11. /\ \A e \in Requests : channel'[e] = IF e = pending[a] THEN "dropped" ELSE channel[e]
       /\ channel' \in [Requests -> ChannelStates]
  <2>1. CASE pending[a] = NoChannel
    BY <1>1, <1>3, <2>1 DEF TablesTyped
  <2>2. CASE pending[a] # NoChannel
    BY <1>1, <1>3, <1>10, <2>2 DEF TablesTyped, ChannelStates
  <2>3. QED
    BY <2>1, <2>2
<1>12. Gates' /\ pending' \in [Accounts -> Chans]
  BY <1>3, <1>4, <1>8, <1>9, <1>11, ChannelCloses
<1>13. TablesTyped'
  BY <1>1, <1>3, <1>11, <1>12 DEF TablesTyped
<1>14. AskingAgrees'
  BY <1>1, <1>3, <1>5, <1>7 DEF AskingAgrees, Settled
<1>15. QED
  BY <1>5, <1>6, <1>12, <1>13, <1>14 DEF ProxyInv

-----------------------------------------------------------------------------
(* The user's steps, and the whole next-state relation.                    *)

(* The user answers an account's modal: whoever waits for it is told.      *)
LEMMA ResolveSendStep ==
  ASSUME ProxyInv, NEW a \in Accounts, NEW v \in {"provided", "cancelled"}, ResolveSend(a, v)
  PROVE  ProxyInv' /\ UNCHANGED <<req, given>>
<1> USE ProxyAssumption
<1>1. RequestsTyped /\ TablesTyped /\ StagesOK /\ ChoicesOK /\ SentsOK /\ AskingAgrees
  BY DEF ProxyInv
<1>2. /\ v = "provided" => a \in submitted
      /\ submitted' \subseteq submitted
      /\ channel' = [c \in Requests |-> IF c = pending[a] THEN v ELSE channel[c]]
      /\ pending' = [pending EXCEPT ![a] = NoChannel]
      /\ UNCHANGED <<keys, given, mapped, once, routes, asking, req>>
  BY DEF ResolveSend
<1>3. v = "provided" => a \in given
  BY <1>1, <1>2 DEF TablesTyped
<1>4. channel' \in [Requests -> ChannelStates]
  BY <1>1, <1>2 DEF TablesTyped, ChannelStates
<1>5. Gates' /\ pending' \in [Accounts -> Chans]
  <2>1. /\ \A e \in Requests : channel'[e] = IF e = pending[a] THEN v ELSE channel[e]
        /\ \A s \in Requests : req[s].at \in Late => req'[s].at \in Late /\ req'[s].account = req[s].account
        /\ \A s \in Requests : req'[s].at = "wait" => req'[s] = req[s]
    BY <1>2
  <2>2. QED
    BY <1>2, <1>3, <2>1, ChannelCloses
<1>6. TablesTyped'
  BY <1>1, <1>2, <1>4, <1>5 DEF TablesTyped
<1>7. RequestsTyped' /\ AskingAgrees' /\ StagesOK' /\ SentsOK'
  BY <1>1, <1>2 DEF RequestsTyped, AskingAgrees, StagesOK, SentsOK, SentOK
<1>8. ChoicesOK'
  BY <1>1, <1>2 DEF ChoicesOK, ChoiceOK, MayUse, Routed, RouteMatches
<1>9. QED
  BY <1>2, <1>5, <1>6, <1>7, <1>8 DEF ProxyInv

(* The other steps of the user change a table that no request has read its *)
(* choice from for good: keys come and go, routes and given keys only      *)
(* come.                                                                   *)
LEMMA TablesChange ==
  ASSUME ProxyInv, UNCHANGED <<req, pending, channel, asking>>, TablesTyped', given \subseteq given',
         routes' = routes \/ \E x \in Route : routes' = Append(routes, x)
  PROVE  ProxyInv'
<1>1. /\ RequestsTyped /\ TablesTyped /\ StagesOK /\ ChoicesOK /\ SentsOK /\ AskingAgrees
      /\ PendingOwned /\ ChannelsOwned /\ WaitersOwned /\ WaiterAnswerable
  BY DEF ProxyInv, Gates
<1>2. RequestsTyped' /\ AskingAgrees' /\ StagesOK'
  BY <1>1 DEF RequestsTyped, AskingAgrees, StagesOK
<1>3. SentsOK'
  BY <1>1 DEF SentsOK, SentOK
<1>4. \A i \in DOMAIN routes : i \in DOMAIN routes' /\ routes'[i] = routes[i]
  BY <1>1 DEF TablesTyped
<1>5. ASSUME NEW a, NEW d, Routed(a, d) PROVE Routed(a, d)'
  <2>1. PICK i \in DOMAIN routes : routes[i].account = a /\ RouteMatches(routes[i], d)
    BY <1>5 DEF Routed
  <2>2. i \in DOMAIN routes' /\ routes'[i] = routes[i]
    BY <1>4
  <2>3. routes'[i].account = a /\ RouteMatches(routes'[i], d)
    BY <2>1, <2>2
  <2>4. QED
    BY <2>2, <2>3 DEF Routed, RouteMatches
<1>6. ChoicesOK'
  <2>1. SUFFICES ASSUME NEW r \in Requests
                 PROVE  ChoiceOK(req[r])'
    BY DEF ChoicesOK
  <2>2. ChoiceOK(req[r])
    BY <1>1 DEF ChoicesOK
  <2>3. QED
    BY <1>5, <2>2 DEF ChoiceOK, MayUse
<1>7. PendingOwned' /\ WaitersOwned' /\ WaiterAnswerable'
  BY <1>1 DEF PendingOwned, WaitersOwned, WaiterAnswerable
<1>8. ChannelsOwned'
  BY <1>1 DEF ChannelsOwned
<1>9. QED
  BY <1>2, <1>3, <1>6, <1>7, <1>8 DEF ProxyInv, Gates

(* The accounts of an "allow once" answer are accounts.                    *)
LEMMA OnceTyped ==
  ASSUME ProxyInv, NEW r \in Requests,
         Gate(r) \/ GateConnect(r) \/ Choose(r) \/ ChooseInspected(r)
  PROVE  TablesTyped'
<1> USE ProxyAssumption
<1>1. TablesTyped /\ StageOK(req[r])
  BY OneRequest
<1>2. req[r].at # "new" /\ UNCHANGED <<keys, given, submitted, mapped, routes, pending, channel>>
  BY DEF Gate, GateConnect, Choose, ChooseInspected
<1>3. req[r].dom \in Domains /\ once[req[r].dom] \in Tokens
  BY <1>1, <1>2 DEF StageOK, TablesTyped
<1>4. once' = once \/ \E T \in Tokens : once' = [once EXCEPT ![req[r].dom] = T]
  <2>1. CASE Gate(r)
    BY <1>3, <2>1 DEF Gate, Tokens
  <2>2. CASE GateConnect(r)
    BY <1>3, <2>2 DEF GateConnect, Tokens
  <2>3. CASE Choose(r)
    BY <1>3, <2>3 DEF Choose, Tokens
  <2>4. CASE ChooseInspected(r)
    BY <1>3, <2>4 DEF ChooseInspected, Tokens
  <2>5. QED
    BY <2>1, <2>2, <2>3, <2>4
<1>5. once' \in [Domains -> Tokens]
  BY <1>1, <1>3, <1>4, SMTT(60) DEF TablesTyped
<1>6. QED
  BY <1>1, <1>2, <1>5 DEF TablesTyped

(* The domain gate ends a request, or admits it with the grant it was given. *)
LEMMA GateAdvances ==
  ASSUME ProxyInv, NEW r \in Requests, Gate(r) \/ GateConnect(r)
  PROVE  Advances(r) /\ Settled(r)
<1>1. req[r].at = "gate" /\ UNCHANGED <<given, routes>>
  BY DEF Gate, GateConnect
<1>2. req[r].at \in Early /\ req[r].at # "new"
  BY <1>1 DEF Early
<1>3. \/ \E what \in {"no", "tunnel"} : Finish(r, what)
      \/ \E by \in {"pre", "always", "once"} : Admit(r, by)
  BY DEF Gate, GateConnect
<1>4. CASE \E what \in {"no", "tunnel"} : Finish(r, what)
  <2>1. PICK what \in {"no", "tunnel"} : req' = [req EXCEPT ![r].at = "done", ![r].sent = what]
    BY <1>4 DEF Finish
  <2>2. what \in NoKey
    BY DEF NoKey
  <2>3. QED
    BY <1>1, <1>2, <2>1, <2>2, EndsWithoutKey
<1>5. CASE \E by \in {"pre", "always", "once"} : Admit(r, by)
  <2>1. PICK by \in {"pre", "always", "once"} : Admit(r, by)
    BY <1>5
  <2>2. by \in Admissions
    BY DEF Admissions
  <2>3. QED
    BY <1>1, <2>1, <2>2, AdmitAdvances
<1>6. QED
  BY <1>3, <1>4, <1>5

(* Every step of a request keeps the invariant and advances the request.   *)
LEMMA RequestMoves ==
  ASSUME ProxyInv, NEW r \in Requests, Receive(r) \/ RequestStep(r)
  PROVE  ProxyInv' /\ Advances(r) /\ given' = given
<1>1. TablesTyped
  BY OneRequest
<1>2. CASE Receive(r)
  <2>1. Advances(r) /\ Settled(r)
    BY <1>2, ReceiveAdvances
  <2>2. req[r].at # "mismatch-wait" /\ UNCHANGED <<given, routes, pending, channel, asking>>
    BY <1>2 DEF Receive
  <2>3. TablesTyped'
    BY <1>1, <1>2 DEF Receive, TablesTyped
  <2>4. QED
    BY <2>1, <2>2, <2>3, PlainStep
<1>3. CASE Gate(r)
  <2>1. Advances(r) /\ Settled(r)
    BY <1>3, GateAdvances
  <2>2. req[r].at # "mismatch-wait" /\ UNCHANGED <<given, routes, pending, channel, asking>>
    BY <1>3 DEF Gate
  <2>3. TablesTyped'
    BY <1>3, OnceTyped
  <2>4. QED
    BY <2>1, <2>2, <2>3, PlainStep
<1>4. CASE GateConnect(r)
  <2>1. Advances(r) /\ Settled(r)
    BY <1>4, GateAdvances
  <2>2. req[r].at # "mismatch-wait" /\ UNCHANGED <<given, routes, pending, channel, asking>>
    BY <1>4 DEF GateConnect
  <2>3. TablesTyped'
    BY <1>4, OnceTyped
  <2>4. QED
    BY <2>1, <2>2, <2>3, PlainStep
<1>5. CASE AwsPath(r)
  <2>1. Advances(r) /\ Settled(r)
    BY <1>5, AwsPathAdvances
  <2>2. req[r].at # "mismatch-wait" /\ UNCHANGED <<given, routes, pending, channel, asking>>
    BY <1>5 DEF AwsPath
  <2>3. TablesTyped'
    BY <1>1, <1>5 DEF AwsPath, TablesTyped
  <2>4. QED
    BY <2>1, <2>2, <2>3, PlainStep
<1>6. CASE Choose(r)
  <2>1. Advances(r) /\ Settled(r)
    BY <1>6, ChooseAdvances
  <2>2. req[r].at # "mismatch-wait" /\ UNCHANGED <<given, routes, pending, channel, asking>>
    BY <1>6 DEF Choose
  <2>3. TablesTyped'
    BY <1>6, OnceTyped
  <2>4. QED
    BY <2>1, <2>2, <2>3, PlainStep
<1>7. CASE ChooseInspected(r)
  <2>1. Advances(r) /\ Settled(r)
    BY <1>7, ChooseInspectedAdvances
  <2>2. req[r].at # "mismatch-wait" /\ UNCHANGED <<given, routes, pending, channel, asking>>
    BY <1>7 DEF ChooseInspected
  <2>3. TablesTyped'
    BY <1>7, OnceTyped
  <2>4. QED
    BY <2>1, <2>2, <2>3, PlainStep
<1>8. CASE Sign(r)
  <2>1. Advances(r) /\ Settled(r)
    BY <1>8, SignAdvances
  <2>2. req[r].at # "mismatch-wait" /\ UNCHANGED <<given, routes, pending, channel, asking>>
    BY <1>8 DEF Sign
  <2>3. TablesTyped'
    BY <1>1, <1>8 DEF Sign, TablesTyped
  <2>4. QED
    BY <2>1, <2>2, <2>3, PlainStep
<1>9. CASE ApplyTelegram(r)
  <2>1. Advances(r) /\ Settled(r)
    BY <1>9, ApplyTelegramAdvances
  <2>2. req[r].at # "mismatch-wait" /\ UNCHANGED <<given, routes, pending, channel, asking>>
    BY <1>9 DEF ApplyTelegram
  <2>3. TablesTyped'
    BY <1>1, <1>9 DEF ApplyTelegram, TablesTyped
  <2>4. QED
    BY <2>1, <2>2, <2>3, PlainStep
<1>10. CASE ApplyScripted(r)
  <2>1. Advances(r) /\ Settled(r)
    BY <1>10, ApplyScriptedAdvances
  <2>2. req[r].at # "mismatch-wait" /\ UNCHANGED <<given, routes, pending, channel, asking>>
    BY <1>10 DEF ApplyScripted
  <2>3. TablesTyped'
    BY <1>1, <1>10 DEF ApplyScripted, TablesTyped
  <2>4. QED
    BY <2>1, <2>2, <2>3, PlainStep
<1>11. CASE ApplyBearer(r)
  <2>1. Advances(r) /\ Settled(r)
    BY <1>11, ApplyBearerAdvances
  <2>2. req[r].at # "mismatch-wait" /\ UNCHANGED <<given, routes, pending, channel, asking>>
    BY <1>11 DEF ApplyBearer
  <2>3. TablesTyped'
    BY <1>1, <1>11 DEF ApplyBearer, TablesTyped
  <2>4. QED
    BY <2>1, <2>2, <2>3, PlainStep
<1>12. CASE Answered(r)
  <2>1. Advances(r) /\ Settled(r)
    BY <1>12, AnsweredAdvances
  <2>2. req[r].at # "mismatch-wait" /\ UNCHANGED <<given, routes, pending, channel, asking>>
    BY <1>12 DEF Answered
  <2>3. TablesTyped'
    BY <1>1, <1>12 DEF Answered, TablesTyped
  <2>4. QED
    BY <2>1, <2>2, <2>3, PlainStep
<1>13. CASE Forward(r)
  <2>1. Advances(r) /\ Settled(r)
    <3>1. /\ req[r].at = "forward" /\ UNCHANGED <<given, routes>>
          /\ \/ req' = [req EXCEPT ![r].at = "done"]
             \/ req[r].sent = "as-is" /\ Finish(r, "oauth")
      BY <1>13 DEF Forward
    <3>2. QED
      BY <3>1, EndAdvances
  <2>2. req[r].at # "mismatch-wait" /\ UNCHANGED <<given, routes, pending, channel, asking>>
    BY <1>13 DEF Forward
  <2>3. TablesTyped'
    BY <1>1, <1>13 DEF Forward, TablesTyped
  <2>4. QED
    BY <2>1, <2>2, <2>3, PlainStep
<1>14. CASE ForwardInspected(r)
  <2>1. Advances(r) /\ Settled(r)
    <3>1. /\ req[r].at = "forward" /\ UNCHANGED <<given, routes>>
          /\ \/ req' = [req EXCEPT ![r].at = "done"]
             \/ req[r].sent = "as-is" /\ Finish(r, "oauth")
      BY <1>14 DEF ForwardInspected
    <3>2. QED
      BY <3>1, EndAdvances
  <2>2. req[r].at # "mismatch-wait" /\ UNCHANGED <<given, routes, pending, channel, asking>>
    BY <1>14 DEF ForwardInspected
  <2>3. TablesTyped'
    BY <1>1, <1>14 DEF ForwardInspected, TablesTyped
  <2>4. QED
    BY <2>1, <2>2, <2>3, PlainStep
<1>15. CASE MismatchAsk(r)
  <2>1. given' = given
    BY <1>15 DEF MismatchAsk
  <2>2. QED
    BY <1>15, <2>1, MismatchAskStep, MismatchAskAdvances
<1>16. CASE MismatchEnds(r)
  <2>1. given' = given
    BY <1>16 DEF MismatchEnds
  <2>2. QED
    BY <1>16, <2>1, MismatchEndsStep, MismatchEndsAdvances
<1>17. CASE Prompt(r)
  <2>1. given' = given
    BY <1>17 DEF Prompt
  <2>2. QED
    BY <1>17, <2>1, PromptStep
<1>18. CASE Cancelled(r)
  <2>1. given' = given
    BY <1>18 DEF Cancelled
  <2>2. QED
    BY <1>18, <2>1, CancelledStep
<1>19. QED
  BY <1>2, <1>3, <1>4, <1>5, <1>6, <1>7, <1>8, <1>9, <1>10, <1>11, <1>12, <1>13, <1>14, <1>15, <1>16, <1>17, <1>18 DEF RequestStep

(* The invariant holds before the first request.                            *)
LEMMA ProxyInvInit == ProxyInit => ProxyInv
<1> SUFFICES ASSUME ProxyInit
             PROVE  ProxyInv
  OBVIOUS
<1> USE ProxyAssumption
<1>1. \A r \in Requests : req[r] = NewRequest
  BY DEF ProxyInit
<1>2. NewRequest \in Request
  BY DEF NewRequest, Request, Stages, Doms, Headers, Ways, Admissions, Tokens, Chosen, Engines,
         Chans, Sents, NoKey
<1>3. RequestsTyped
  BY <1>2 DEF ProxyInit, RequestsTyped
<1>4. TablesTyped
  BY DEF ProxyInit, TablesTyped, Tokens, Chans, ChannelStates
<1>5. AskingAgrees
  BY <1>1 DEF ProxyInit, AskingAgrees, NewRequest
<1>6. \A r \in Requests : req[r].at = "new" /\ req[r].account = NoAccount /\ req[r].sent = "no"
                         /\ req[r].engine = "none"
  BY <1>1 DEF NewRequest
<1>7. "no" \notin Accounts
  BY DEF NoKey
<1>8. StagesOK
  BY <1>6, <1>7 DEF StagesOK, StageOK, Asking
<1>9. ChoicesOK /\ SentsOK
  BY <1>6, <1>7 DEF ChoicesOK, ChoiceOK, SentsOK, SentOK
<1>10. Gates
  BY <1>6 DEF ProxyInit, Gates, PendingOwned, ChannelsOwned, WaitersOwned, WaiterAnswerable
<1>11. QED
  BY <1>3, <1>4, <1>5, <1>8, <1>9, <1>10 DEF ProxyInv

(* The four steps of the user that no request takes part in.               *)
LEMMA UserMoves ==
  ASSUME ProxyInv,
         \/ \E a \in Accounts : ResolveStore(a) \/ DeleteKey(a)
         \/ \E d \in Domains, T \in Picks : EditMapping(d, T)
         \/ \E x \in Routable : AddRoute(x)
  PROVE  /\ ProxyInv' /\ UNCHANGED req
         /\ given' = given \/ \E a \in Accounts : given' = given \cup {a}
<1> USE ProxyAssumption
<1>1. TablesTyped
  BY DEF ProxyInv
<1>2. CASE \E a \in Accounts : ResolveStore(a)
  <2>1. PICK a \in Accounts : ResolveStore(a)
    BY <1>2
  <2>2. /\ keys' \subseteq keys \cup {a} /\ given' = given \cup {a} /\ submitted' = submitted \cup {a}
        /\ UNCHANGED <<mapped, once, routes, pending, channel, asking, req>>
    BY <2>1 DEF ResolveStore
  <2>3. TablesTyped'
    BY <1>1, <2>2 DEF TablesTyped
  <2>4. QED
    BY <2>2, <2>3, TablesChange
<1>3. CASE \E a \in Accounts : DeleteKey(a)
  <2>1. PICK a \in Accounts : DeleteKey(a)
    BY <1>3
  <2>2. /\ keys' \subseteq keys
        /\ UNCHANGED <<given, submitted, mapped, once, routes, pending, channel, asking, req>>
    BY <2>1 DEF DeleteKey
  <2>3. TablesTyped'
    BY <1>1, <2>2 DEF TablesTyped
  <2>4. QED
    BY <2>2, <2>3, TablesChange
<1>4. CASE \E d \in Domains, T \in Picks : EditMapping(d, T)
  <2>1. PICK d \in Domains, T \in Picks : EditMapping(d, T)
    BY <1>4
  <2>2. /\ mapped' = [mapped EXCEPT ![d] = T]
        /\ UNCHANGED <<keys, given, submitted, once, routes, pending, channel, asking, req>>
    BY <2>1 DEF EditMapping
  <2>3. mapped' \in [Domains -> Tokens]
    BY <1>1, <2>2 DEF TablesTyped, Tokens
  <2>4. TablesTyped'
    BY <1>1, <2>2, <2>3 DEF TablesTyped
  <2>5. QED
    BY <2>2, <2>4, TablesChange
<1>5. CASE \E x \in Routable : AddRoute(x)
  <2>1. PICK x \in Routable : AddRoute(x)
    BY <1>5
  <2>2. /\ routes' = Append(routes, x) /\ x \in Route
        /\ UNCHANGED <<keys, given, submitted, mapped, once, pending, channel, asking, req>>
    BY <2>1 DEF AddRoute
  <2>3. routes' \in Seq(Route)
    BY <1>1, <2>2 DEF TablesTyped
  <2>4. TablesTyped'
    BY <1>1, <2>2, <2>3 DEF TablesTyped
  <2>5. QED
    BY <2>2, <2>4, TablesChange
<1>6. QED
  BY <1>2, <1>3, <1>4, <1>5

(* A step in which nothing happens.                                        *)
LEMMA ProxyStutter == ASSUME ProxyInv, UNCHANGED proxyVars PROVE ProxyInv'
<1>1. UNCHANGED <<req, pending, channel, asking, keys, given, submitted, mapped, once, routes>>
  BY DEF proxyVars
<1>2. TablesTyped'
  BY <1>1 DEF ProxyInv, TablesTyped
<1>3. QED
  BY <1>1, <1>2, TablesChange

(* The invariant is inductive.                                             *)
LEMMA ProxyInvStep == ProxyInv /\ [ProxyNext]_proxyVars => ProxyInv'
<1> SUFFICES ASSUME ProxyInv, [ProxyNext]_proxyVars
             PROVE  ProxyInv'
  OBVIOUS
<1>1. CASE \E r \in Requests : Receive(r) \/ RequestStep(r)
  BY <1>1, RequestMoves
<1>2. CASE \E a \in Accounts, v \in {"provided", "cancelled"} : ResolveSend(a, v)
  BY <1>2, ResolveSendStep
<1>3. CASE \/ \E a \in Accounts : ResolveStore(a) \/ DeleteKey(a)
           \/ \E d \in Domains, T \in Picks : EditMapping(d, T)
           \/ \E x \in Routable : AddRoute(x)
  BY <1>3, UserMoves
<1>4. CASE UNCHANGED proxyVars
  BY <1>4, ProxyStutter
<1>5. QED
  BY <1>1, <1>2, <1>3, <1>4 DEF ProxyNext

(* What the invariant is for.                                              *)
LEMMA ProxyInvSafe == ProxyInv => ProxySafe
<1> SUFFICES ASSUME ProxyInv
             PROVE  ProxySafe
  OBVIOUS
<1>1. /\ RequestsTyped /\ TablesTyped /\ AskingAgrees /\ StagesOK /\ ChoicesOK
      /\ PendingOwned /\ WaiterAnswerable
  BY DEF ProxyInv, Gates
<1>2. \A r \in Requests : req[r] \in Request
  BY <1>1 DEF RequestsTyped
<1>3. ProxyTypeOK
  <2>1. \A r \in Requests : req[r].account \in Accounts \cup {NoAccount}
    BY <1>2 DEF Request, Chosen
  <2>2. \A a \in Accounts : pending[a] \in Requests \cup {NoChannel}
    BY <1>1 DEF TablesTyped, Chans
  <2>3. \A a \in Accounts : pending[a] # NoChannel => channel[pending[a]] = "open"
    BY <1>1 DEF PendingOwned
  <2>4. keys \subseteq given /\ given \subseteq Accounts /\ submitted \subseteq given
    BY <1>1 DEF TablesTyped
  <2>5. asking = {r \in Requests : req[r].at = "mismatch-wait"}
    BY <1>1 DEF AskingAgrees
  <2>6. QED
    BY <2>1, <2>2, <2>3, <2>4, <2>5 DEF ProxyTypeOK
<1>4. KeyGoesWhereMapped
  <2>1. SUFFICES ASSUME NEW r \in Requests, req[r].sent \in Accounts
                 PROVE  MayUse(req[r], req[r].sent)
    BY DEF KeyGoesWhereMapped, MayUse, Routed
  <2>2. req[r].sent = req[r].account
    BY <1>1, <2>1 DEF StagesOK, StageOK
  <2>3. QED
    BY <1>1, <2>1, <2>2 DEF ChoicesOK, ChoiceOK
<1>5. PlaceholderStripped
  BY <1>1 DEF StagesOK, StageOK, PlaceholderStripped
<1>6. QED
  BY <1>1, <1>3, <1>4, <1>5 DEF ProxySafe

-----------------------------------------------------------------------------
(* The gate that PromptGate describes.                                     *)

GateSubject == [r \in Requests |-> req[r].account]
GateOutcomes == [r \in Requests |-> GateOutcome(req[r])]

(* No request has asked at the start.                                      *)
LEMMA GateInit == ProxyInit => KeyGate!Init
<1> SUFFICES ASSUME ProxyInit
             PROVE  KeyGate!Init
  OBVIOUS
<1>1. \A r \in Requests : req[r].account = NoAccount
  BY DEF ProxyInit, NewRequest
<1>2. \A r \in Requests : GateOutcome(req[r]) = "none"
  BY <1>1, ProxyAssumption, OutcomeIs
<1>3. given \subseteq Accounts
  BY ProxyAssumption DEF ProxyInit
<1>4. QED
  BY <1>1, <1>2, <1>3 DEF KeyGate!Init

(* A step of a request is a step of its client of the gate, or none.       *)
LEMMA GateFollowsRequest ==
  ASSUME NEW r \in Requests, Advances(r), UNCHANGED given
  PROVE  KeyGate!Next \/ UNCHANGED <<GateSubject, GateOutcomes, given>>
<1>1. /\ \A s \in Requests : s # r => req'[s] = req[s]
      /\ Idle(r) \/ Asks(r) \/ IsAnswered(r)
  BY DEF Advances, OthersKept
<1>2. \A s \in Requests : s # r => /\ req'[s].account = req[s].account
                                  /\ GateOutcome(req'[s]) = GateOutcome(req[s])
  BY <1>1
<1>3. CASE Idle(r)
  <2>1. \A s \in Requests : /\ req'[s].account = req[s].account
                            /\ GateOutcome(req'[s]) = GateOutcome(req[s])
    BY <1>2, <1>3 DEF Idle
  <2>2. QED
    BY <2>1 DEF GateSubject, GateOutcomes
<1>4. CASE Asks(r)
  <2>1. PICK a \in Accounts : a = req'[r].account
    BY <1>4 DEF Asks
  <2>2. GateSubject' = [GateSubject EXCEPT ![r] = a]
    BY <1>2, <2>1 DEF GateSubject
  <2>3. GateOutcomes' = [GateOutcomes EXCEPT ![r] = "asking"] /\ GateOutcomes[r] = "none"
    BY <1>2, <1>4 DEF GateOutcomes, Asks
  <2>4. KeyGate!Ask(r)
    BY <2>2, <2>3 DEF KeyGate!Ask, GateSubject, GateOutcomes
  <2>5. QED
    BY <2>4 DEF KeyGate!Next
<1>5. CASE IsAnswered(r)
  <2>1. GateSubject' = GateSubject /\ GateSubject[r] = req[r].account
    BY <1>2, <1>5 DEF GateSubject, IsAnswered
  <2>2. /\ GateOutcomes[r] = "asking"
        /\ \/ GateSubject[r] \in given /\ GateOutcomes' = [GateOutcomes EXCEPT ![r] = "yes"]
           \/ GateOutcomes' = [GateOutcomes EXCEPT ![r] = "no"]
    BY <1>2, <1>5, <2>1 DEF GateOutcomes, IsAnswered
  <2>3. KeyGate!Answer(r)
    BY <2>1, <2>2 DEF KeyGate!Answer, GateSubject, GateOutcomes
  <2>4. QED
    BY <2>3 DEF KeyGate!Next
<1>6. QED
  BY <1>1, <1>3, <1>4, <1>5

(* Every step of the request path is a step of the gate, or none.          *)
LEMMA GateStep == ProxyInv /\ [ProxyNext]_proxyVars => [KeyGate!Next]_(KeyGate!vars)
<1> SUFFICES ASSUME ProxyInv, [ProxyNext]_proxyVars
             PROVE  KeyGate!Next \/ UNCHANGED <<GateSubject, GateOutcomes, given>>
  BY DEF KeyGate!vars, GateSubject, GateOutcomes
<1>1. CASE \E r \in Requests : Receive(r) \/ RequestStep(r)
  BY <1>1, RequestMoves, GateFollowsRequest
<1>2. CASE UNCHANGED <<req, given>>
  BY <1>2 DEF GateSubject, GateOutcomes
<1>3. CASE \E a \in Accounts, v \in {"provided", "cancelled"} : ResolveSend(a, v)
  BY <1>2, <1>3, ResolveSendStep
<1>4. CASE \/ \E a \in Accounts : ResolveStore(a) \/ DeleteKey(a)
           \/ \E d \in Domains, T \in Picks : EditMapping(d, T)
           \/ \E x \in Routable : AddRoute(x)
  <2>1. /\ UNCHANGED req
        /\ given' = given \/ \E a \in Accounts : given' = given \cup {a}
    BY <1>4, UserMoves
  <2>2. UNCHANGED <<GateSubject, GateOutcomes>>
    BY <2>1 DEF GateSubject, GateOutcomes
  <2>3. CASE \E a \in Accounts : given' = given \cup {a}
    <3>1. PICK a \in Accounts : given' = given \cup {a}
      BY <2>3
    <3>2. KeyGate!Grant(a)
      BY <2>2, <3>1 DEF KeyGate!Grant, GateSubject, GateOutcomes
    <3>3. QED
      BY <3>2 DEF KeyGate!Next
  <2>4. QED
    BY <2>1, <2>2, <2>3
<1>5. CASE UNCHANGED proxyVars
  BY <1>2, <1>5 DEF proxyVars
<1>6. QED
  BY <1>1, <1>3, <1>4, <1>5 DEF ProxyNext

-----------------------------------------------------------------------------
(* In every behaviour of the request path a key goes only where it was     *)
(* mapped, routed or asked for by name, a placeholder the bearer delegator *)
(* took is stripped, and whoever waits in ApiKeyGate waits on a channel    *)
(* that is pending or answered: for any requests, accounts, domains,       *)
(* routes and edits of the user in between.                                *)
THEOREM RequestsAreSafe == ProxySpec => []ProxySafe
<1>1. ProxyInit => ProxyInv
  BY ProxyInvInit
<1>2. ProxyInv /\ [ProxyNext]_proxyVars => ProxyInv'
  BY ProxyInvStep
<1>3. ProxyInv => ProxySafe
  BY ProxyInvSafe
<1>4. QED
  BY <1>1, <1>2, <1>3, PTL DEF ProxySpec

(* The request path implements the safety part of PromptGate: a request    *)
(* asks for a key once, is answered once, and "yes" only for an account    *)
(* whose key the user has given.                                           *)
THEOREM KeysAreGranted == ProxySpec => KeyGate!Init /\ [][KeyGate!Next]_(KeyGate!vars)
<1>1. ProxyInit => ProxyInv
  BY ProxyInvInit
<1>2. ProxyInv /\ [ProxyNext]_proxyVars => ProxyInv'
  BY ProxyInvStep
<1>3. ProxyInit => KeyGate!Init
  BY GateInit
<1>4. ProxyInv /\ [ProxyNext]_proxyVars => [KeyGate!Next]_(KeyGate!vars)
  BY GateStep
<1>5. QED
  BY <1>1, <1>2, <1>3, <1>4, PTL DEF ProxySpec
=============================================================================
