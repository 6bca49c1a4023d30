SPECIFICATION Spec
CONSTANTS
  ReportDelay = 1
  MaxLost = 1
INVARIANTS
  TypeOK
  PairedInThisRun
  AutoconnectIsNew
  ConnectedAtTheEnd
  NeverStuck
  GivenUpForGood
PROPERTIES
  DialogueSpec
  AwaitSpecs
  PairTestsEnd
  OneEnds
CHECK_DEADLOCK FALSE
