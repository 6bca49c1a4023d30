SPECIFICATION Spec
CONSTANTS
  Threads = {t1}
  Main = Main
  Names = {1, 2}
  NoName = 0
  Tokens <- MCTokens
  InitPairing = {1}
  InitPaired = {2}
  MaxChanges = 2
  MaxConnects = 1
INVARIANTS
  TypeOK
  TableIsSnapshot
  OnlyUnpairedMissed
  VehiclesOutliveThreads
PROPERTIES
  TableLacksOnlyUnpaired
  CharacterSelectsRow
  ExitEnds
CHECK_DEADLOCK FALSE
