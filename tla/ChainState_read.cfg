CONSTANTS
    Node = {leader}
    leader = leader
    proposer = proposer
    Handler = {h1}
    Kind = {"read"}
    None = None
    MaxExec = 3
    MaxCrash = 0
SPECIFICATION Spec
INVARIANT StateUpdated
CHECK_DEADLOCK FALSE
