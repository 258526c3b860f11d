CONSTANTS
  Sessions <- MCSessions
  Layouts <- MCLayouts
  Thread <- MCThread
  PortOf <- MCPortOf
  Full = {"s1"}
  Lockers = {"a1", "a2", "b1", "b2", "c1"}
  ModeArgs <- MCModeArgs
  ControlArgs <- MCControlArgs
  Declinable = {"PARITY", "STOP"}
  LockArgs <- MCLockArgs
  MaxNest = 2
  Unclosable = {"a1", "b1"}
SPECIFICATION Spec
INVARIANTS TypeOK LockedModeIsWhole LastErrorExplains ModeReadsBack DeadlockOnlyOutOfOrder
PROPERTIES ImplementsPortLock CommandsReturn
