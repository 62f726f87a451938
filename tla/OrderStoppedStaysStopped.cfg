CONSTANTS Workers = {w1}
          Scoped = {}
          Tickets = {}
          Bracketed = TRUE
          Qty = 1
          SettleDelay = 1
          MaxFailures = 1
          MaxCommands = 1
          MaxCrashes = 0
          w1 = w1
SPECIFICATION Spec
PROPERTY StoppedStaysStopped
CHECK_DEADLOCK FALSE
