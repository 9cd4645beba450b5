------------------------------- MODULE MCSetup -------------------------------
(* A manifest set with one object of every kind of treatment: a CAPI CRD    *)
(* that is narrowed, one that is dropped, a CRD that keeps its conversion   *)
(* webhook, a binding to an aggregation shell, a RoleBinding, an in-pod and *)
(* an external webhook (vendored twice), and a kind that is not applied.    *)
EXTENDS Setup

ServiceRef(ns) == [service |-> [ns |-> ns, path |-> "/p"], url |-> Nil, ca |-> ""]
URLRef(h, p)   == [service |-> Nil, url |-> [host |-> h, port |-> p, path |-> "/p"],
                   ca |-> ""]
SA(ns)         == [kind |-> "ServiceAccount", ns |-> ns, name |-> "manager"]

CRD(name, group, versions, hooks) ==
  [Object("CustomResourceDefinition", "", name) EXCEPT
     !.group = group, !.versions = versions, !.hooks = hooks]

hypervisorWebhooks ==
  [Object("ValidatingWebhookConfiguration", "", "hypervisor") EXCEPT
     !.hooks = <<URLRef("127.0.0.1", 9443)>>]

current == <<
  CRD("clusters", "cluster.x-k8s.io", {"v1beta1", "v1beta2"},
      <<ServiceRef("capi-system")>>),
  CRD("extensionconfigs", "addons.cluster.x-k8s.io", {"v1alpha1"}, <<>>),
  CRD("devclusters", "infrastructure.cluster.x-k8s.io", {"v1beta1", "v1beta2"},
      <<ServiceRef("capd-system")>>),
  [Object(clusterBinding, "", "capi-manager") EXCEPT
     !.roleRef = [prefix |-> "capi", aggregated |-> TRUE],
     !.subjects = {SA("capi-system")}],
  [Object("RoleBinding", "capd-system", "capd-leader-election") EXCEPT
     !.roleRef = [prefix |-> "capd-leader-election", aggregated |-> FALSE],
     !.subjects = {SA("capd-system")}],
  [Object("MutatingWebhookConfiguration", "", "capi") EXCEPT
     !.hooks = <<ServiceRef("capi-system")>>],
  Object("Deployment", "capi-system", "capi-controller-manager"),
  hypervisorWebhooks,
  hypervisorWebhooks>>

(* An image whose manifests give a binding another roleRef.                 *)
upgraded == << [current[4] EXCEPT !.roleRef = [@ EXCEPT !.prefix = "capi-v2"]] >>

(* The mutating webhook of hypervisorupgradeplans as it is vendored.        *)
vendored == <<
  current[3],
  [Object("MutatingWebhookConfiguration", "", "hypervisor") EXCEPT
     !.hooks = <<URLRef("127.0.0.1", 9443), ServiceRef("system")>>]>>

(* A subject whose namespace has no manager.                                *)
unknown ==
  << [current[5] EXCEPT !.subjects = {SA("default")}] >>

(* Two documents of one identity that differ.                               *)
contradictory == << current[8], [current[8] EXCEPT !.hooks = <<>>] >>

const_Docs ==
  [current |-> current, upgraded |-> upgraded, vendored |-> vendored,
   unknown |-> unknown, contradictory |-> contradictory]
const_Current  == [current |-> current]
const_Vendored == [vendored |-> vendored]

const_ExternalHosts == {defaultHypervisorWebhookHost, "10.0.0.7"}
const_Hosts == {"localhost", "127.0.0.1"} \cup const_ExternalHosts
=============================================================================
