SPECIFICATION Spec
CONSTANTS
  Legacy = FALSE
  MaxEdits = 1
  Edited = {"code"}
  MaxText = 0
  MaxRecords = 1
  Listings = {{}}
  MaxVoids = 0
  MaxFaults = 1
  None = None
PROPERTY NoRestart
