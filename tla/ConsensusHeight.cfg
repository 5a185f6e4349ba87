SPECIFICATION Spec
CONSTANTS
    Scenarios <- MCScenarios
    MaxBlockSize = 11
    Kilobyte = 1
    MaxBlockSigOps = 7
    CoinbaseSigOps = 1
    MinTxFee = 1
    FreePriority = 12
    Unit = 2
    Trees <- MCTrees
    Dense = 4
    MedianSpan = 3
    HashBits = 16
    ByteBits = 2
    Mantissa = 5
    Limit = 200
    Interval = 3
    Spacing = 4
    MaxHeight = 7
    MaxTime = 25
    Threads = {t1, t2}
    Keys = {1, 2}
    NonceRange = 1
    Limits <- MCLimits
    MaxScans = 1
    WIDTH = 3
    LimbBytes = 1
    HexBits = 1
    MaxParts = 3
    nMaxNumSize = 2
    MaxOps = 4
    MaxStack = 9
    MaxElement = 3
    ChangedBytes = {0, 1, 2, 128}
    Outputs = {1, 2}
    HashTypes = {0, 1, 2, 3, 34, 129, 130, 131}
    MaxChanges = 2
INVARIANT
    HeightInCoinbase
CHECK_DEADLOCK FALSE
