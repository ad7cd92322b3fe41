SPECIFICATION Spec
CONSTANTS
    Follower = {f1, f2, f3}
    MaxRounds = 2
INVARIANTS TypeOK OnlyStoreLosesWakeups
 
CHECK_DEADLOCK FALSE
