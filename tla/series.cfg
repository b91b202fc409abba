\* One account over three days, up to three rows and two readings, by days and by pairs of days.
CONSTANTS
    Kinds <- MCKinds
    Opening = 5
    Widths = {1, 2}
    Caps = {1, 2}
    Budgets = {2, 5}
    Null = Null
    Horizon = 2
    MaxPosts = 3
    MaxReads = 2
SPECIFICATION Spec
INVARIANTS SnapshotIsTheLastReading LedgerIsExact WindowIsASlice MismatchIsALostRow FlowsTieOut PagesAddUp BudgetIsShared
CHECK_DEADLOCK FALSE
