CONSTANTS
  StartModes = {"new", "full"}
  Continuous = TRUE
  MaxVersion = 3
  MaxFaults = 2

SPECIFICATION FairSpec

PROPERTIES
  EverythingIsSent
