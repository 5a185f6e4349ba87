SPECIFICATION FairSpec
CONSTANTS
    r1 = r1
    r2 = r2
    gui = gui
    k1 = k1
    k2 = k2
    k3 = k3
    p1 = p1
    p2 = p2
    open = open
    Rpc = {r1, r2}
    Gui = gui
    Keys = {k1, k2, k3}
    Passphrases = {p1, p2}
    Open = open
    MayFail = {"key", "pool"}
    MaxMasterKeyID = 2
INVARIANTS
    KeyStoreConsistent
    FileLoads
    AckedPassphraseOpens
    IssuedKeysStored
PROPERTIES
    VaultSpec
    LockedAgain
