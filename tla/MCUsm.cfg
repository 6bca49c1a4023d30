SPECIFICATION Spec
CONSTANTS
  Threads = {t1, t2}
  NoThread = NoThread
  NoState = NoState
  PrintRepeat = TRUE
  StateEnum <- MCStates
  StartingState = "M_IDLE"
  ErrorState = "M_IDLE"
  Table <- MCTable
INVARIANTS
  TypeOK
  HandlerStateStable
PROPERTIES
  EngineFrozen
  AtomicSpec
  MutexReleased
  WaitersProgress
