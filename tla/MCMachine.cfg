SPECIFICATION MCSpec
CONSTANTS
    Requests <- MCRequests
    Hub <- MCHub
    Warmups <- MCWarmups
    Rates <- MCRates
    Samples = 2
    MaxRuns = 2
    MaxPolls = 1
    MaxPids = 3
    p1 = p1
    p2 = p2
    m1 = m1
    m2 = m2
    m3 = m3
    home = home
    scratch = scratch
    Procs = {p1, p2}
    Repos = {m1, m2, m3}
    Size <- MCSize
    Roots = {home, scratch}
    Default = home
    Budgets <- MCBudgets
    MaxOps = 2
INVARIANTS SizingSound SilenceMeansStopped PinsAsTold
PROPERTIES LaunchSettles EvictionKeepsPinsAndRecency
CHECK_DEADLOCK FALSE
