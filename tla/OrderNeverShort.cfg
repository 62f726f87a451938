CONSTANTS Workers = {w1}
          Scoped = {}
          Tickets = {}
          Bracketed = TRUE
          Qty = 1
          SettleDelay = 1
          MaxFailures = 1
          MaxCommands = 0
          MaxCrashes = 0
          w1 = w1
SPECIFICATION Spec
INVARIANT NeverShort
CHECK_DEADLOCK FALSE
