CONSTANTS Workers = {w1}
          Scoped = {}
          Tickets = {}
          Bracketed = FALSE
          Qty = 2
          SettleDelay = 2
          MaxFailures = 2
          MaxCommands = 1
          MaxCrashes = 1
          w1 = w1
SPECIFICATION Spec
INVARIANTS NothingLost BookedOnce PositionHonest
PROPERTY OnlyOperatorResumes
CHECK_DEADLOCK FALSE
