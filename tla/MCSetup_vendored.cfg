SPECIFICATION Spec
CONSTANTS
  Nil = Nil
  Hosts <- const_Hosts
  Docs <- const_Vendored
  ExternalHosts <- const_ExternalHosts
  MaxRuns = 1
  MaxFaults = 0
  MaxWrites = 0
INVARIANTS
  VendoredWebhooksRewritable
CHECK_DEADLOCK FALSE
