SPECIFICATION Spec
CONSTANTS
    NumTx = 3
    NumRx = 3
    PBS = 4
    TxLens = {3}
    RxLens = {4}
    Data = {a, b}
    Zero = Zero
INVARIANT
    ReceivedIsWhole
