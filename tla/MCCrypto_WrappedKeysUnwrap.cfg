CONSTANTS
    BlockUnits = 2
    FileUnits = 5
    Files = 2
    Keys = {1, 2}
    Sizes = {1, 7, 8, 9, 16, 17}
    Secrets = 3
    XAlgos = {25519, 448}
    EdAlgos = {448}
    Numbers = 2
    Bytes = {1, 2, 3, 4, 5, 6, 7}
    Texts <- MCTexts
    Directories <- MCDirectories
    FlagSets <- MCFlagSets
    PemLengths = {0, 5, 6, 7}
    SizeMax = 7
    MaxKeys = 3
    MaxChain = 1
SPECIFICATION Spec
INVARIANT WrappedKeysUnwrap
CHECK_DEADLOCK FALSE
