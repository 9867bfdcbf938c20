SPECIFICATION Spec
CONSTANTS
    Clients = {c1, c2}
    Tcp = {c2}
    Stack = tcpip
    QUEUE_SIZE = 3
    MBOXSLOTS = 1
    MaxYields = 2
    MaxPackets = 3
INVARIANTS
    NoOverflow
