SPECIFICATION LoopsSpec
CONSTANTS
  s1 = s1  s2 = s2
  Sessions = {s1, s2}
  HookStates <- MCStates
  MaxAutoContinues = 3
  MaxStateChanges = 2
  MaxPrompts = 1
  MaxActive = 1
  MaxEvents = 2
  MaxCollections = 2
  Steps = 2
  r1 = r1  a1 = a1  b1 = b1  srcA = srcA  srcB = srcB  none = none
  None = none
  Runners = {r1}
  Approvers = {a1}
  Builders = {b1}
  Scopes = {srcA, srcB}
  Unowned <- MCUnowned
  Stamps = {1}
  MaxPackets = 4
  MaxEdits = 1
  MaxContract = 1
  MaxCrashes = 1
INVARIANTS StuckBound AcceptedRunWasReal ReadinessInOutput NoLateError ShowsThisRun
PROPERTIES TurnsEnd CollectionEnds 
CHECK_DEADLOCK FALSE
