--------------------------- MODULE MCRequestProxy ---------------------------
(* Two requests, a bearer key, an AWS key and a bot token; one plain domain, *)
(* one domain below it with a wildcard route, and an exact one to add.       *)
EXTENDS RequestProxy
CONSTANTS k, aws, tg, r1, r2
Api == <<"com", "api">>
Sub == <<"com", "api", "auth">>
MCDomains == {Api, Sub}
MCRoutes == {<<[wild |-> TRUE, labels |-> Sub, account |-> tg]>>}
MCRoutable == {[wild |-> FALSE, labels |-> Sub, account |-> k]}
MCMappings == {[d \in MCDomains |-> T] : T \in {{}, {aws}, {tg}}}
MCPicks == {{}, {k}}
MCKeySets == {{aws, tg}}
PlainKey == [dom |-> Api, hdr |-> k, via |-> "http"]
MCIncoming ==
    (r1 :> {PlainKey, [dom |-> Api, hdr |-> Dummy, via |-> "connect"],
            [dom |-> Api, hdr |-> NoAccount, via |-> "awspath"]}) @@
    (r2 :> {PlainKey, [dom |-> Sub, hdr |-> k, via |-> "connect"],
            [dom |-> Api, hdr |-> Dummy, via |-> "http"]})
=============================================================================
