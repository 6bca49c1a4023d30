SPECIFICATION TestSpec
CONSTANTS
  Threads = {udp, worker}
  PairingThreads = {udp}
  Reporter = udp
  Main = Main
  NoThread = NoThread
  Script <- MCScript
  Codes <- MCCodes
  NoCode = NoCode
  EarlyReturns = {1}
  MaxReports = 4
  Vehicles = {v1, v2}
  NoVehicle = NoVehicle
  MaxChanges = 3
INVARIANTS
  TestTypeOK
  PairingGuarded
  NoLostPairing
  NoCallbackStuck
  LockOrder
  WaitsForAVehicle
PROPERTIES
  DialogueSpec
  TestReturns
CHECK_DEADLOCK FALSE
