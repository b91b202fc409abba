\* One day's scrape, claimed and completed by two runners while the worker
\* summarises it as well.
CONSTANTS
    d1 = d1
    d2 = d2
    s1 = s1
    s2 = s2
    l1 = l1
    l2 = l2
    Null = Null
    DayOf <- MCDayOf
    Days = {d1}
    ScrapeRuns = {s1}
    LlmRuns = {l1}
    Sources = {hn, lobsters}
    BuildDays = {}
    Modes = {"local"}
    Movable = {"scrape"}
    Runners = {n1, n2}
    Calls = {c1, c2}
    MaxBatches = 0
    MaxTime = 2
    MaxFaults = 1
    ArtifactTTL = 1
    WorkLease = 1
SYMMETRY RunnerSymmetry
SPECIFICATION Spec
INVARIANTS LiveClaimHolds ScrapeMovesTogether
PROPERTIES ClaimedWorkIsKept
