SPECIFICATION Spec
CONSTANTS
    h1 = h1
    h2 = h2
    Holders <- MCHolders
    Target = 1
    MaxKeys = 5
SYMMETRY Symm
INVARIANTS
    TypeOK
    UsedKeyLeavesDisk
    OwnedOnce
    KeyUsedOnceUnlessOverwritten
PROPERTY
    NoRecordLost
