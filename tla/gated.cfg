\* The ticker and two concurrent callers, with the gated job alone.
CONSTANTS
    digest = digest
    finance = finance
    often = often
    rarely = rarely
    never = never
    Null = Null
    Activation <- MCActivation
    Jobs = {finance}
    Gated = {finance}
    Schedules = {rarely, never}
    MaxRuns = 2
    MaxTime = 4
    MaxFaults = 1
    RedriveAfter = 1
    RunningLease = 0
    AckLease = 1
    AckTTL = 1
    Slots = {}
    MaxRequests = 0
    Callers = {c1, c2}
SPECIFICATION Spec
INVARIANTS ApprovedBeforeStarted PushMeansClosed ExpiredNeverStarted
PROPERTIES ReapedPastItsLease ImplementsLedger
