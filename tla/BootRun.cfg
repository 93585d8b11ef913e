SPECIFICATION Spec
CONSTANTS
  Proc = {p1,p2}
  None = None
  Files = 2
  Ts = {2}
  Keep = 1
  MaxSignals = 2
INVARIANTS
  LockHeldWhileOpen
  ReadyIsMigrated
  LockLeftOnlyInHaste
PROPERTIES
  BatchUndoable
CHECK_DEADLOCK FALSE
