SPECIFICATION Spec
CONSTANTS
    Node = {n0, n1, n2}
    view = n0
    MaxProposals = 2
INVARIANTS Inv LeaderInOrder LeaderSurvives Agreement
PROPERTY ImplementsLog
SYMMETRY Followers
CHECK_DEADLOCK FALSE
