SPECIFICATION Spec
CONSTANTS
  NumLeaves = 2
  APIServer = 1
  HypervisorWebhook = 2
  BindHosts <- const_OneBindHost
  WebhookHosts <- const_TwoWebhookHosts
  Missing = Missing
  Torn = Torn
  MaxRuns = 3
  MaxFaults = 3
INVARIANT
  SANsFollowConfig
CHECK_DEADLOCK FALSE
