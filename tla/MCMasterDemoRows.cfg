SPECIFICATION Spec
CONSTANTS
  Threads = {t1}
  Main = Main
  Names <- MCElevenNames
  NoName = 0
  Tokens <- MCLongTokens
  InitPairing <- MCElevenNames
  InitPaired = {}
  MaxChanges = 0
  MaxConnects = 0
PROPERTIES
  NumberSelectsRow
CHECK_DEADLOCK FALSE
