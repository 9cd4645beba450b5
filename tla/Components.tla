------------------------------ MODULE Components ------------------------------
(***************************************************************************)
(* internal/config: the component table, and the maps                      *)
(* cmd/capishim/setup.go derives from it.  Images and name prefixes are    *)
(* left out; "" and 0 are the zero values of the fields a component does   *)
(* not set.                                                                *)
(***************************************************************************)
EXTENDS Naturals

ComponentSpec ==
  [id: STRING, ns: STRING, cn: STRING, external: BOOLEAN,
   port: Nat, health: Nat, diagnostics: Nat]

(* A component without a manager identity.                                 *)
plain(id) ==
  [id |-> id, ns |-> "", cn |-> "", external |-> FALSE,
   port |-> 0, health |-> 0, diagnostics |-> 0]

(* A provider manager of the pod.                                          *)
manager(id, ns, cn, port, health, diagnostics) ==
  [id |-> id, ns |-> ns, cn |-> cn, external |-> FALSE,
   port |-> port, health |-> health, diagnostics |-> diagnostics]

(* The one component that is not in the pod.                               *)
hypervisor ==
  [plain("hypervisor") EXCEPT !.ns = "hypervisor-system",
     !.cn = "capishim:hypervisor-manager", !.port = 9443, !.external = TRUE]

Components ==
  {plain(id) : id \in {"pki", "etcd", "apiserver", "setup"}} \cup {
  manager("core", "capi-system", "capishim:core-manager", 9443, 9451, 8451),
  manager("cabpk", "capi-kubeadm-bootstrap-system", "capishim:cabpk-manager",
          9444, 9452, 8452),
  manager("kcp", "capi-kubeadm-control-plane-system", "capishim:kcp-manager",
          9445, 9453, 8453),
  manager("capd", "capd-system", "capishim:capd-manager", 9446, 9454, 8454),
  hypervisor}

Managers == {spec \in Components : spec.cn # ""}

Component(id) == CHOOSE spec \in Components : spec.id = id

specOf(namespace) == CHOOSE spec \in Managers : spec.ns = namespace

ManagerCNByNamespace == [n \in {spec.ns : spec \in Managers} |-> specOf(n).cn]

WebhookPortsByNamespace ==
  [n \in {spec.ns : spec \in {c \in Managers : ~c.external}} |-> specOf(n).port]

RewriteWebhookPortsByNamespace ==
  [n \in {spec.ns : spec \in Managers} |-> specOf(n).port]

hypervisorWebhookPort == 9443

defaultHypervisorWebhookHost == "host.containers.internal"
=============================================================================
