SPECIFICATION Spec
CONSTANTS
  ConfigFiles <- MCConfigFiles
  Stem <- MCStem
  First <- MCFirst
  BadStems = {}
  Groups = {"g"}
  StemPath <- MCStemPath
  GroupPath <- MCGroupPath
  ConfigChoices <- MCConfigChoices
  Bundles <- MCBundles
  Wheels <- MCWheels
  GlobalChoices <- MCGlobalChoices
  ParamChoices <- MCParamChoices
  NameLength <- MCNameLength
  TagMax = 10
  MaxEdits = 1
  MaxKills = 1
INVARIANTS FinishedPassIsClean VettedReleaseIsWhole EveryJobIsSound RunsFollowTheRepository
PROPERTIES HandWrittenKept
CHECK_DEADLOCK FALSE
