CONSTANTS Workers = {w1}
          Scoped = {}
          Tickets = {}
          Bracketed = TRUE
          Qty = 1
          SettleDelay = 1
          MaxFailures = 1
          MaxCommands = 0
          MaxCrashes = 1
          w1 = w1
SPECIFICATION FairSpec
INVARIANTS TypeOK BracketTracked WalkFailsClosed
PROPERTY FillsLand
CHECK_DEADLOCK FALSE
