\* A position of two units in an account with one more; one command and one fault,
\* or cancel that hides executions, anywhere, and as many passes as it takes.
SPECIFICATION FairSpec
CONSTANTS
  Qty = 2
  Spare = 1
  MaxStop = 2
  MaxIdentical = 2
  MaxFaults = 1
  MaxCommands = 1
INVARIANTS TypeOK NeverOversold FlatIsFlat
PROPERTIES PassProtects FlattenSettles
