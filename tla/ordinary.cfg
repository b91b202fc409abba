\* One ordinary job: ticker, poll loop, an administrator, one failure or crash.
CONSTANTS
    digest = digest
    finance = finance
    often = often
    rarely = rarely
    never = never
    Null = Null
    Activation <- MCActivation
    Jobs = {digest}
    Gated = {}
    Schedules = {often}
    MaxRuns = 2
    MaxTime = 2
    MaxFaults = 1
    RedriveAfter = 0
    RunningLease = 0
    AckLease = 1
    AckTTL = 1
    Slots = {s1}
    MaxRequests = 1
    Callers = {}
SPECIFICATION Spec
INVARIANTS TypeOK StartedAtMostOnce OneRunPerTick
