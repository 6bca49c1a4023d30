SPECIFICATION TestSpec
CONSTANTS
  Threads = {udp, worker}
  PairingThreads = {udp, worker}
  Reporter = udp
  Main = Main
  NoThread = NoThread
  Script <- MCScript
  Codes <- MCCodes
  NoCode = NoCode
  EarlyReturns = {1}
  MaxReports = 3
  Vehicles = {v1, v2}
  NoVehicle = NoVehicle
  MaxChanges = 2
PROPERTIES
  PairToConnects
CHECK_DEADLOCK FALSE
