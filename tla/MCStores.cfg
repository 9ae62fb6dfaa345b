INIT StoresInit
NEXT StoresNext
CONSTANTS
  r1 = r1  a1 = a1  b1 = b1  srcA = srcA  srcB = srcB  none = none
  None = none
  Runners = {r1}
  Approvers = {a1}
  Builders = {b1}
  Scopes = {srcA, srcB}
  Unowned <- MCUnowned
  Stamps = {1, 2}
  MaxPackets = 3
  MaxEdits = 1
  MaxContract = 1
  MaxCrashes = 2
  o1 = o1  o2 = o2  o3 = o3
  Ops <- MCOps
  IOWork <- MCWork
  NoOp = NoOp
INVARIANTS
  TypeOK Readable BuiltAsApproved
  NeverTorn ReturnedIsDurable LogAllOrNothing
PROPERTIES PacketsLive FilesPublished
CHECK_DEADLOCK FALSE
