SPECIFICATION Spec
CONSTANTS
    Call = {c1, c2}
    OperationsOf <- Anything
    C1 = c1
    C2 = c2
    Transaction = {Database}
    TransactionOf <- OneTransaction
    Database = Database
    Input <- Inputs
    Capacity = 2
    MaxTime = 1
SYMMETRY Symmetry
INVARIANTS CommittedIsStored
CHECK_DEADLOCK FALSE
