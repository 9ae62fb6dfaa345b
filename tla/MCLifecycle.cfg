SPECIFICATION Spec
CONSTANTS
  Legacy = FALSE
  MaxEdits = 1
  Edited = {"code"}
  MaxText = 1
  MaxRecords = 2
  Listings = {{"text"}}
  MaxVoids = 1
  MaxFaults = 1
  None = None
INVARIANTS TypeOK Founded
PROPERTY FoundationStands
