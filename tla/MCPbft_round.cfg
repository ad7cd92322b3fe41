SPECIFICATION Spec
CONSTANTS
    Node = {n0, n1, n2, n3}
    view = n0
    MaxProposals = 1
INVARIANTS TypeOK CommitBacked
SYMMETRY Followers
CHECK_DEADLOCK FALSE
