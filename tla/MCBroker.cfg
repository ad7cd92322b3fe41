SPECIFICATION FairSpec
CONSTANTS
    b1 = b1
    b2 = b2
    Shard = {1, 2}
    Types <- MCTypes
    Address = {b1, b2}
    FirstBrokers <- MCFirstBrokers
    Init_broker_Balance = 2
    Raw <- MCRaw
    Stake = {1, 5}
    MaxBatch = 2
    MaxApplies = 2
    MaxWithdrawals = 2
 
INVARIANTS TypeOK StakeConserved NothingNegative   DiesOnlyAfterWithdrawal
CHECK_DEADLOCK FALSE
