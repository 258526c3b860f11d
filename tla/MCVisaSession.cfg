SPECIFICATION Spec
CONSTANTS
  Threads = {t1, t2}
  Numbers = {1, 2, 3}
INVARIANTS
  TypeOK
  ChannelsOwnSessions
  PanicOnlyIfDisorderly
  NoOrphans
PROPERTIES
  ExitClosesSessions
CHECK_DEADLOCK FALSE
