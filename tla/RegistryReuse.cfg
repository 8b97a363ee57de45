SPECIFICATION Spec
CONSTANTS
  Apps = {a1}
  Publishers = {p1}
  Low = 1
  High = 1
  MaxOpen = 2
  MaxExc = 1
INVARIANT NoCommandInvalid
CHECK_DEADLOCK FALSE
