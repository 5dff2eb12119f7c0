SPECIFICATION FairSpec
CONSTANTS
    Call = {c1, c2, c3}
    OperationsOf <- TwoUpserts
    C1 = c1
    C2 = c2
    Transaction = {c1, c2, c3}
    TransactionOf <- OwnTransaction
    Database = Database
    Input <- TwoInputs
    Capacity = 2
    MaxTime = 2
INVARIANTS TypeOK CommittedIsStored AuditedAsStored
PROPERTIES SeenInOrder AnswerIsStored CallsEnd
CHECK_DEADLOCK FALSE
