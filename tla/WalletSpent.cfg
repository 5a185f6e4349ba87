SPECIFICATION WalletSpec
CONSTANTS
    tf = tf
    ta = ta
    tb = tb
    tm = tm
    c1 = c1
    c2 = c2
    c3 = c3
    none = none
    Txs <- MCTxs
    Coins = {c1, c2, c3}
    Vin <- MCVin
    CreatedBy <- MCCreatedBy
    NoTx = none
    Senders = {s1, s2}
    MaxOrder = 4
    Importable = {"i1"}
    Change = "c"
    Script = "m"
    Maturity = 1
    Fees = {0, 1}
    CENT = 3
    MIN_TX_FEE = 2
    BytesPerInput = 300
    BytesPerOutput = 200
    MaxBytes = 1400
    FreeBytes = 15
    Users = {u1, u2}
    Records = {r1, r2, r3}
    CountedRecords = {r1, r2}
    NoEntry = NoEntry
    Threshold = 5
    NumConfirmations = 2
INVARIANT
    SpentIfSpent
CHECK_DEADLOCK FALSE
