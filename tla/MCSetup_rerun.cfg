SPECIFICATION Spec
CONSTANTS
  Nil = Nil
  Hosts <- const_Hosts
  Docs <- const_Current
  ExternalHosts <- const_ExternalHosts
  MaxRuns = 2
  MaxFaults = 0
  MaxWrites = 0
PROPERTIES
  WebhooksStayReachable
CHECK_DEADLOCK FALSE
