SPECIFICATION Spec
CONSTANTS
    Tx = {t1, t2, t3}
    Broker = {b1, b2}
    Value = {1, 2}
    Fee = {1, 2}
    Balance = {2, 3}
    IterNum = 2
INVARIANTS TypeOK WithinBudget AllocatedOnce PositionsRight
PROPERTY Returns
CHECK_DEADLOCK FALSE
