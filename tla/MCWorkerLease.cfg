SPECIFICATION LiveSpec
CONSTANTS
    Workers = {w1, w2}
    Writers = {o1}
    Fills = {f1}
    FundingHours = {h1}
    NoHolder = NoHolder
    TTL = 1
    MaxRevision = 4
    MaxIntents = 1
INVARIANTS TypeOK EconomicsOnce HolderIsLastAcquirer CopiesCoherent
PROPERTIES FencedIntents OtherPausesKept ImplementsAtomicBook CrashedLeaseTakenOver
