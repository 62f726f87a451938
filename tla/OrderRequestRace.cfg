CONSTANTS Workers = {w1}
          Scoped = {w1}
          Tickets = {t1}
          Bracketed = FALSE
          Qty = 1
          SettleDelay = 1
          MaxFailures = 1
          MaxCommands = 0
          MaxCrashes = 0
          w1 = w1
          t1 = t1
SPECIFICATION Spec
INVARIANTS NothingLost NeverTwice
CHECK_DEADLOCK FALSE
