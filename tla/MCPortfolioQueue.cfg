SPECIFICATION RecoverySpec
CONSTANTS
    ResearchJobs = {}
    PortfolioJobs = {b1}
    Procs = {p1, p2, p3}
    Lineages = {l1, l2}
    Clients = {}
    NoProc = NoProc
    NoJob = NoJob
    TTL = 1
    MaxAttempts = 2
PROPERTIES PortfolioSettled OrphansRecovered
CHECK_DEADLOCK FALSE
