SPECIFICATION Spec
CONSTANTS
  r1 = r1  r2 = r2  a1 = a1  a2 = a2  b1 = b1  srcA = srcA  srcB = srcB  none = none
  None = none
  Runners = {r1}
  Approvers = {a1, a2}
  Builders = {b1}
  Scopes = {srcA}
  Unowned = {}
  Stamps = {1, 2}
  MaxPackets = 1
  MaxEdits = 1
  MaxContract = 0
  MaxCrashes = 0
INVARIANTS Readable
CHECK_DEADLOCK FALSE
