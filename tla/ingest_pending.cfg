\* The pending rows of two accounts, and two requests that overlap.
CONSTANTS
    acc = acc
    other = other
    k0 = k0
    k1 = k1
    j0 = j0
    h1 = h1
    Accounts = {acc}
    Keys = {}
    AccountOf <- MCAccountOf
    DayOf <- MCDayOf
    Holds = {h1}
    HolderOf <- MCHolderOf
    Txs = {t1, t2}
    Overlap = 1
    Lag = 1
    Ahead = 0
    MaxDay = 0
    MaxCopies = 2
    MaxSent = 2
    DryRuns = {FALSE, TRUE}
SYMMETRY TxSymmetry
CHECK_DEADLOCK FALSE
SPECIFICATION Spec
INVARIANTS PendingIsOneSnapshot
