SPECIFICATION Spec
CONSTANTS
  Programs <- MCPrograms
  Words <- MCWords
  MaxWords = 3
INVARIANTS
  TypeOK
  ConfigIsJsonList
  RefusedWithoutDriver
CHECK_DEADLOCK FALSE
