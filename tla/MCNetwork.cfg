\* Three packets of two sizes - two overfill the smaller buffer, three large
\* ones the larger - and any three changes of conditions or switches.
SPECIFICATION Spec
CONSTANTS
  Conditions <- CalmAndRough
  Chaos <- MCChaos
  InitialSwitches <- MCSwitches
  Sizes = {400, 800}
  Pauses = {1}
  MaxSent = 3
  MaxChanges = 3
CHECK_DEADLOCK FALSE
INVARIANTS TypeOK BufferAccounts BufferBounded BurstsBounded OrderKept
