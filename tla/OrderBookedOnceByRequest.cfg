CONSTANTS Workers = {w1}
          Scoped = {}
          Tickets = {t1}
          Bracketed = FALSE
          Qty = 1
          SettleDelay = 1
          MaxFailures = 0
          MaxCommands = 0
          MaxCrashes = 0
          w1 = w1
          t1 = t1
SPECIFICATION Spec
INVARIANT BookedOnce
CHECK_DEADLOCK FALSE
