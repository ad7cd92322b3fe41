CONSTANTS
    user = user
    contract = contract
    fresh = fresh
    k1 = k1
    code = code
    Address = {user, contract, fresh}
    Sender = {user}
    Key = {k1}
    Word = {0, 1}
    Zero = 0
    NoCode = NoCode
    Code = {NoCode, code}
    None = None
    Amount = {0, 1}
    InitBalance = 1
    Mod64 = 4
    Mod256 = 16
    Genesis <- Accounts
    MaxJournal = 3
    MaxDepth = 2
    MaxSnapshot = 5
    MaxTx = 2
SPECIFICATION Spec
CHECK_DEADLOCK FALSE
PROPERTY CommitWritesWhatWasRead
INVARIANTS TypeOK RevertRestores OpenSnapshotsValid

