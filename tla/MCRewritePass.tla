---------------------------- MODULE MCRewritePass ----------------------------
(* RewritePass with the ports of the component table: the core manager and  *)
(* the external hypervisor manager share the number 9443.                   *)
EXTENDS RewritePass, Components

const_Hosts ==
  {"localhost", "127.0.0.1", "example.org", defaultHypervisorWebhookHost}

const_Services ==
  [ns: {"capi-system", "capd-system", "hypervisor-system", "system"},
   path: {"/validate"}]
    \cup [ns: {"capi-system"}, path: {""}]

const_URLs ==
  [host: {"localhost", "127.0.0.1", "example.org"}, port: {0, 9443, 9446},
   path: {"/validate"}]

const_Inputs ==
  {[service |-> s, url |-> Nil, ca |-> ""] : s \in const_Services}
    \cup {[service |-> Nil, url |-> u, ca |-> c] :
             u \in const_URLs, c \in {"", "stale"}}
    \cup {[service |-> Nil, url |-> Nil, ca |-> ""]}

const_InPod == DOMAIN WebhookPortsByNamespace
const_ExternalPorts == {hypervisorWebhookPort}
const_ExternalHosts == {defaultHypervisorWebhookHost, "localhost", ""}
=============================================================================
