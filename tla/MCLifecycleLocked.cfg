SPECIFICATION Spec
CONSTANTS
  Legacy = TRUE
  MaxEdits = 0
  Edited = {"code"}
  MaxText = 2
  MaxRecords = 1
  Listings = {{}}
  MaxVoids = 0
  MaxFaults = 0
  None = None
PROPERTY DriftSelected
