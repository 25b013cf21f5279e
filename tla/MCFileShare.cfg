SPECIFICATION FilesSpec
CONSTANTS
    Roots = {r1, r2}
    NoRoot = NoRoot
    MaxFds = 2
    Names = {a, b}
    NoName = NoName
    Tasks = {k1, k2}
    MaxIno = 2
    MaxReq = 3
INVARIANTS ShareSafe 
PROPERTIES RemovedShareStops 
CHECK_DEADLOCK FALSE
