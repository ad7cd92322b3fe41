CONSTANTS
    Node = {leader}
    leader = leader
    proposer = proposer
    Handler = {h1}
    Kind = {"call", "create", "static", "log", "read"}
    None = None
    MaxExec = 3
    MaxCrash = 1
SPECIFICATION Spec
INVARIANTS TypeOK  NewestStored StateUpdatedAlone
PROPERTY ChainLinked
CHECK_DEADLOCK FALSE
