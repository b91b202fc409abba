\* The ticker, the poll loop, a caller that may vanish and a job of each kind,
\* under fairness.
CONSTANTS
    digest = digest
    finance = finance
    often = often
    rarely = rarely
    never = never
    Null = Null
    Activation <- MCActivation
    Jobs = {digest, finance}
    Gated = {finance}
    Schedules = {often}
    MaxRuns = 1
    MaxTime = 3
    MaxFaults = 1
    RedriveAfter = 0
    RunningLease = 0
    AckLease = 0
    AckTTL = 0
    Slots = {}
    MaxRequests = 0
    Callers = {c1}
SPECIFICATION FairSpec
INVARIANTS QueueCarriesOrdinaryRuns
PROPERTIES ScheduledRunsLeaveTheQueue ScheduledRunsClose GatedRunsClose
