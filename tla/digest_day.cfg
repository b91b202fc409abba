\* One day without external runners: scrapes, summaries, builds, collects.
CONSTANTS
    d1 = d1
    d2 = d2
    s1 = s1
    s2 = s2
    l1 = l1
    l2 = l2
    Null = Null
    DayOf <- MCDayOf
    Days = {d1}
    ScrapeRuns = {s1, s2}
    LlmRuns = {l2}
    Sources = {hn}
    BuildDays = {d1}
    Modes = {"local", "fargate"}
    Movable = {"llm"}
    Runners = {}
    Calls = {}
    MaxBatches = 2
    MaxTime = 0
    MaxFaults = 1
    ArtifactTTL = 0
    WorkLease = 0
SPECIFICATION FairSpec
INVARIANTS OneScrapePerDigest ConsumedMeansRecorded
PROPERTIES NeverDemoted PendingDaysAreDecided
