CONSTANTS
    Tx <- SomeTx
    MaxTransactions = 3
    MaxTransactionsPerAccount = 2
    MinEntranceFeePriority = 1
    MinReplacementFeeDifference = 1
SPECIFICATION Spec
CHECK_DEADLOCK FALSE
INVARIANTS
    ListsSound
    ProcessablesVerified
    PoolIndexesAgree
