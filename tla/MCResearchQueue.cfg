SPECIFICATION LiveSpec
CONSTANTS
    ResearchJobs = {r1}
    PortfolioJobs = {}
    Procs = {p1, p2, p3}
    Lineages = {l1, l2}
    Clients = {c1}
    NoProc = NoProc
    NoJob = NoJob
    TTL = 1
    MaxAttempts = 2
INVARIANTS TypeOK OutcomeByLastClaimer AttemptsBounded CancelNotRequeued
PROPERTIES LiveLeaseKept JobsSettle
CHECK_DEADLOCK FALSE
