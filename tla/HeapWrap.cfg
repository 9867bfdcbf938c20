SPECIFICATION HeapSpec
CONSTANTS
    PGSIZE = 16
    NPages = 8
    MBegin = 2
    MEnd = 6
    Text = {1}
    MaxMalloc = 44
    PhysPages = 3
    Sizes = {0, 3, 12, 16, 25, 44}
    MaxLive = 3
PROPERTIES
    FailsAsCommented
CHECK_DEADLOCK FALSE
