\* A refresh in which an account has no pending row left.
CONSTANTS
    acc = acc
    other = other
    k0 = k0
    k1 = k1
    j0 = j0
    h1 = h1
    Accounts = {acc}
    Keys = {}
    AccountOf <- MCAccountOf
    DayOf <- MCDayOf
    Holds = {h1}
    HolderOf <- MCHolderOf
    Txs = {t1}
    Overlap = 1
    Lag = 1
    Ahead = 0
    MaxDay = 0
    MaxCopies = 2
    MaxSent = 1
    DryRuns = {FALSE, TRUE}
CHECK_DEADLOCK FALSE
SPECIFICATION Spec
PROPERTIES PendingIsReplaced
