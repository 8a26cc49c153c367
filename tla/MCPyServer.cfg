\* Three starts of the server, six connects of the gateway, any loss.
SPECIFICATION FairSpec
CONSTANTS
  lights = lights
  doors = doors
  Device <- MCDevice
  MaxSessions = 6
  MaxStatuses = 3
  MaxRuns = 3
INVARIANTS
  TypeOK
  AnsweredUnderOwnSession
  CommandAnswersItsStatus
  CommandNumbersGrow
  DeafOnlyAfterFault
  EveryStatusAccounted
PROPERTIES
  HandshakeCompletes
