SPECIFICATION Spec
CONSTANTS
  Nil = Nil
  Hosts <- const_Hosts
  NumHooks = 2
  Inputs <- const_Inputs
  Ports <- RewriteWebhookPortsByNamespace
  InPod <- const_InPod
  ExternalPorts <- const_ExternalPorts
  ExternalHosts <- const_ExternalHosts
  PodCAs = {"", "pod"}
INVARIANT
  Idempotent
CHECK_DEADLOCK FALSE
