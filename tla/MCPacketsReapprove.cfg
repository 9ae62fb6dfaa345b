SPECIFICATION LiveSpec
CONSTANTS
  r1 = r1  r2 = r2  a1 = a1  a2 = a2  b1 = b1  srcA = srcA  srcB = srcB  none = none
  None = none
  Runners = {r1}
  Approvers = {a1}
  Builders = {b1}
  Scopes = {srcA}
  Unowned = {}
  Stamps = {1, 2}
  MaxPackets = 2
  MaxEdits = 1
  MaxContract = 1
  MaxCrashes = 0
PROPERTIES ReapprovalHelps
CHECK_DEADLOCK FALSE
