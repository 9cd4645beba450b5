SPECIFICATION Spec
CONSTANTS
  Dir = Dir
  HomeDir = HomeDir
  Unset = Unset
  NoText = NoText
  SpacedHost = SpacedHost
  NotANumber = NotANumber
  NoInput = NoInput
  HomeStateDir <- const_HomeStateDir
  Envs <- const_Envs
  MaxFaults = 2
  MaxEvents = 3
INVARIANTS
  TypeOK
  OneshotsFirst
  MintsAlone
  KubeconfigsReachable
PROPERTIES
  NeverMissesFile
  MountsPrepared
  BootedMeansSetUp
  ComesUp
CHECK_DEADLOCK FALSE
