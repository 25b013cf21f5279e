SPECIFICATION ProxySpec
CONSTANTS
    Requests = {r1, r2}
    Accounts = {k, aws, tg}
    r1 = r1
    r2 = r2
    k = k
    aws = aws
    tg = tg
    AwsAccounts = {aws}
    Telegram = {tg}
    AwsHost <- Api
    Domains <- MCDomains
    Incoming <- MCIncoming
    Picks <- MCPicks
    KeySets <- MCKeySets
    RouteLists <- MCRoutes
    Mappings <- MCMappings
    Routable <- MCRoutable
    MaxEdits = 1
    NoAccount = NoAccount
    NoChannel = NoChannel
    Dummy = Dummy
 
PROPERTIES EveryRequestEnds ImplementsPromptGate
CHECK_DEADLOCK FALSE
