SPECIFICATION FairSpec
CONSTANTS
  Apps = {a1, a2}
  Publishers = {p1}
  Low = 1
  High = 1
  MaxOpen = 2
  MaxExc = 1
INVARIANT RegistryMatchesPool
INVARIANT OpenIsRegistered
INVARIANT PublishOwnsId
 
CHECK_DEADLOCK FALSE
