SPECIFICATION Spec
CONSTANTS
  Dir = Dir
  HomeDir = HomeDir
  Unset = Unset
  NoText = NoText
  SpacedHost = SpacedHost
  NotANumber = NotANumber
  NoInput = NoInput
  HomeStateDir <- const_HomeStateDir
  Envs <- const_Envs
  MaxFaults = 0
  MaxEvents = 2
INVARIANT InstalledUnitsMount
CHECK_DEADLOCK FALSE
