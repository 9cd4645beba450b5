SPECIFICATION Spec
CONSTANTS
  NumLeaves = 2
  APIServer = 1
  HypervisorWebhook = 2
  BindHosts <- const_BindHosts
  WebhookHosts <- const_WebhookHosts
  Missing = Missing
  Torn = Torn
  MaxRuns = 3
  MaxFaults = 3
INVARIANT
  LeavesNeverOutliveCA
CHECK_DEADLOCK FALSE
