CONSTANTS
    Nodes = {1, 2, 3, 4}
    Data = {1, 2, 3}
    Keys = {1, 2}
    MaxPairs = 3
    Iterators = {1, 2}
    Addresses = {1, 2}
    Consumers = {"c1", "c2"}
    MaxItems = 3
    MaxLinks = 3
    NsPerMs = 2
    MsPerSec = 3
    Laps = {1, 2, 3, 4, 5, 7}
    MaxSec = 3
    MaxSizes = {0, 2}
    Lengths = {1, 2}
    MaxMessages = 4
    MaxAway = 1
    LogThreads = {"t1", "t2"}
    TagThreads = {"t1", "t2"}
    NbTags = 2
    Values = {"a", "b"}
    MaxPushed = 2
    DomainNames = {"x"}
    Levels = {1, 2}
    MaxCalls = 3
SPECIFICATION Spec
INVARIANTS ListIsSequence MapIterators AddressesFreed WakeupKept TreeRemoved ValuesConvert LogFilesKept TagsRestored LevelsTakeEffect
CHECK_DEADLOCK FALSE
