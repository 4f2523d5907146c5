\* Any three commands in sessions that publish two events each.
SPECIFICATION Spec
CONSTANTS
  Commands <- MCCommands
  Events <- MCEvents
  MaxPerStep = 2
  MaxPublished = 2
  MaxScheduled = 2
  MaxCommands = 3
CHECK_DEADLOCK FALSE
INVARIANTS TypeOK SnapshotsAreExact EventWaitedFor
PROPERTIES CommandsApplied ConnectionReleased
