SPECIFICATION Spec
CONSTANTS
  Threads = {t1}
  Main = Main
  Names = {1, 2}
  NoName = 0
  Tokens <- MCShortTokens
  InitPairing = {1, 2}
  InitPaired = {}
  MaxChanges = 0
  MaxConnects = 1
PROPERTIES
  RowIsStable
CHECK_DEADLOCK FALSE
