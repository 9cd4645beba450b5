-------------------------------- MODULE MCPKI --------------------------------
(* Instances of PKI: one leaf whose SANs depend on the bind address, the   *)
(* hypervisor webhook pair outside pki/, and the CA and SA pairs.          *)
EXTENDS PKI

const_BindHosts == {"127.0.0.1", "10.0.0.5"}
const_WebhookHosts == {DefaultHost}

(* Runs that differ in the override host of the hypervisor webhook only.   *)
const_OneBindHost == {"127.0.0.1"}
const_TwoWebhookHosts == {DefaultHost, "hypervisor.example.org"}
=============================================================================
