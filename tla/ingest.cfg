\* Two overlapping requests of one account over three days.
CONSTANTS
    acc = acc
    other = other
    k0 = k0
    k1 = k1
    j0 = j0
    h1 = h1
    Accounts = {acc}
    Keys = {k0}
    AccountOf <- MCAccountOf
    DayOf <- MCDayOf
    Holds = {}
    HolderOf <- MCHolderOf
    Txs = {t1, t2}
    Overlap = 1
    Lag = 1
    Ahead = 0
    MaxDay = 2
    MaxCopies = 2
    MaxSent = 2
    DryRuns = {FALSE}
SYMMETRY TxSymmetry
CHECK_DEADLOCK FALSE
SPECIFICATION Spec
INVARIANTS TypeOK NothingIsForgotten LedgerWithinBank
PROPERTIES WatermarkForward
