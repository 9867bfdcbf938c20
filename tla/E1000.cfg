SPECIFICATION FairSpec
CONSTANTS
    NumTx = 3
    NumRx = 3
    PBS = 4
    TxLens = {3, 5}
    RxLens = {3}
    Data = {a, b}
    Zero = Zero
INVARIANTS
    TxAgree
    RxAgree
PROPERTIES
    ImplementsNetLink
    AcceptedIsSent
