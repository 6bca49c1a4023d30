SPECIFICATION Spec
CONSTANTS
  Threads = {t1, t2}
  Main = Main
  NoThread = NoThread
  Script <- MCScript
  Codes <- MCCodes
  NoCode = NoCode
  EarlyReturns = {}
  MaxReports = 4
INVARIANTS
  CallbackStateAlive
CHECK_DEADLOCK FALSE
