SPECIFICATION Spec
CONSTANTS
  Nil = Nil
  Hosts <- const_Hosts
  Docs <- const_Docs
  ExternalHosts <- const_ExternalHosts
  MaxRuns = 2
  MaxFaults = 1
  MaxWrites = 1
INVARIANTS
  TypeOK
  ReadyMeansConverged
  RoleRefRejectedOnUpgradeOnly
  KubeconfigsComeLast
PROPERTIES
  BindingsStayEffective
  QuietRunSucceeds
CHECK_DEADLOCK FALSE
