----------------------------- MODULE RewritePass -----------------------------
(***************************************************************************)
(* RewriteAll walks the webhooks of a batch of objects in order, rewrites  *)
(* each in place, and stops at the first error with the earlier ones       *)
(* already rewritten.  A second pass over the output of a successful one   *)
(* is what the package's idempotence contract is about; setup itself loads *)
(* the manifests anew in every run.  The error for an object of a kind     *)
(* without webhooks is left out: setup selects the kinds that have them.   *)
(***************************************************************************)
EXTENDS WebhookRewrite

CONSTANTS
  NumHooks,        \* webhooks in the batch
  Inputs,          \* clientConfigs the manifests may carry
  Ports,           \* webhook port of a service namespace
  InPod,           \* namespaces whose manager listens in the pod
  ExternalPorts,   \* ports of the managers outside the pod
  ExternalHosts,   \* hosts the option may name
  PodCAs           \* contents of the pod CA file

Hook == 1..NumHooks

(* A manifest's clientConfig has a service or a URL, not both (the         *)
(* apiserver's own validation); in-pod managers share one network          *)
(* namespace, so their ports differ.                                       *)
ASSUME InputAssumption ==
  /\ Inputs \subseteq ClientConfig
  /\ \A cc \in Inputs : cc.service = Nil \/ cc.url = Nil

ASSUME PortsAssumption ==
  /\ Ports \in [DOMAIN Ports -> Nat]
  /\ InPod \subseteq DOMAIN Ports
  /\ \A m, n \in InPod : Ports[m] = Ports[n] => m = n
  /\ ExternalPorts \subseteq Nat

ASSUME NumHooksAssumption == NumHooks \in Nat

ASSUME OptionAssumption ==
  /\ ExternalHosts \subseteq Hosts \cup {""}
  /\ PodCAs \subseteq STRING

VARIABLES
  hooks,    \* the clientConfigs in memory
  orig,     \* history: the clientConfigs of the manifests
  first,    \* history: the clientConfigs after the first pass
  i,        \* the webhook the pass is at
  pass,     \* 1, or 2 for the pass over the output
  status,   \* "rewriting", "done" or "error"
  ca,       \* the pod CA
  ext       \* the option

inputs == <<orig, ca, ext>>
vars   == <<hooks, first, i, pass, status, inputs>>

TypeOK ==
  /\ hooks \in [Hook -> ClientConfig]
  /\ orig \in [Hook -> Inputs]
  /\ first \in [Hook -> ClientConfig]
  /\ i \in 1..(NumHooks + 1)
  /\ pass \in {1, 2}
  /\ status \in {"rewriting", "done", "error"}
  /\ ca \in PodCAs
  /\ ext \in [host: ExternalHosts, ports: {ExternalPorts}]

Init ==
  /\ orig \in [Hook -> Inputs]
  /\ hooks = orig
  /\ first = orig
  /\ i = 1
  /\ pass = 1
  /\ status = "rewriting"
  /\ ca \in PodCAs
  /\ ext \in [host: ExternalHosts, ports: {ExternalPorts}]

rewriteHook ==
  /\ status = "rewriting" /\ i \in Hook
  /\ rewritable(hooks[i], Ports, ca, ext)
  /\ hooks' = [hooks EXCEPT ![i] = rewriteByNamespace(hooks[i], Ports, ca, ext)]
  /\ i' = i + 1
  /\ UNCHANGED <<first, pass, status, inputs>>

rejectHook ==
  /\ status = "rewriting" /\ i \in Hook
  /\ ~rewritable(hooks[i], Ports, ca, ext)
  /\ status' = "error"
  /\ UNCHANGED <<hooks, first, i, pass, inputs>>

(* Mutant: the loop stops one webhook early. *)
finish_Early ==
  /\ status = "rewriting" /\ i >= NumHooks
  /\ status' = "done"
  /\ UNCHANGED <<hooks, first, i, pass, inputs>>

(* Mutant: the position goes past the end. *)
finish_PastEnd ==
  /\ status = "rewriting" /\ i = NumHooks + 1
  /\ status' = "done"
  /\ i' = i + 1
  /\ UNCHANGED <<hooks, first, pass, inputs>>

finish ==
  /\ status = "rewriting" /\ i = NumHooks + 1
  /\ status' = "done"
  /\ UNCHANGED <<hooks, first, i, pass, inputs>>

RewriteAll == rewriteHook \/ rejectHook \/ finish

(* RewriteAll is called again on the same objects, as the package's test   *)
(* of its idempotence does.                                                *)
Rerun ==
  /\ status = "done" /\ pass = 1
  /\ pass' = 2
  /\ first' = hooks
  /\ i' = 1
  /\ status' = "rewriting"
  /\ UNCHANGED <<hooks, inputs>>

Next == RewriteAll \/ Rerun

Spec == Init /\ [][Next]_vars

-----------------------------------------------------------------------------
(* Properties *)

servicePath(cc) == IF cc.service # Nil THEN cc.service.path ELSE cc.url.path

(* Safety.  When RewriteAll returns no error, no webhook still names a     *)
(* Service (the pod has no cluster DNS), every one carries the pod CA and  *)
(* keeps its path, whatever mix of services and URLs the batch has.        *)
DoneMeansReachable ==
  status = "done" =>
    \A h \in Hook : /\ hooks[h].service = Nil
                    /\ hooks[h].url # Nil
                    /\ hooks[h].ca = ca
                    /\ hooks[h].url.path = servicePath(orig[h])

(* Safety.  A webhook that a pass changed is authenticated by a CA, also   *)
(* when the pass fails half-way: no error path leaves a rewritten URL      *)
(* without one (RewriteClientConfig: "the webhook would otherwise be left  *)
(* unauthenticated").                                                      *)
NeverUnauthenticated ==
  \A h \in Hook : hooks[h] # orig[h] => hooks[h].ca # EmptyCA

(* A webhook of one of the managers: a Service in a namespace of the port  *)
(* table, or a loopback URL on a port of the external manager.             *)
Owned(cc) ==
  \/ cc.service # Nil /\ cc.service.ns \in DOMAIN Ports
  \/ cc.service = Nil /\ redirected(cc, ext)

(* The in-pod manager it belongs to, none for those of external ones.      *)
inPodOwner(cc) == {n \in InPod : cc.service # Nil /\ cc.service.ns = n}

(* c is a Service of an in-pod manager, d one in the namespace of an       *)
(* external manager with the same port number.                             *)
Confused(c, d) ==
  /\ c.service # Nil /\ c.service.ns \in InPod
  /\ d.service # Nil /\ d.service.ns \in DOMAIN Ports \ InPod
  /\ Ports[c.service.ns] = Ports[d.service.ns]

Authority(cc) == <<cc.url.host, cc.url.port>>

(* Safety.  After a first pass two webhooks of different managers are sent *)
(* to the same host and port in exactly one case: a Service in an external *)
(* manager's namespace goes to localhost on that manager's port, and so to *)
(* the in-pod manager with that port, which for the hypervisor is core     *)
(* (setup.go, RewriteWebhookPortsByNamespace).  No loopback URL of the     *)
(* external manager is confused with a Service of core, although the port  *)
(* numbers agree.  It needs an external host that is not a loopback name.  *)
OwnersSeparated ==
  (status = "done" /\ pass = 1 /\ ~isLoopbackAuthority(ext.host)) =>
    \A g, h \in Hook :
      /\ Owned(orig[g]) /\ Owned(orig[h])
      /\ inPodOwner(orig[g]) # inPodOwner(orig[h])
      => (Authority(hooks[g]) = Authority(hooks[h])
            <=> Confused(orig[g], orig[h]) \/ Confused(orig[h], orig[g]))

(* Safety.  A second pass changes no webhook, apart from those whose       *)
(* in-pod port is also an external one.                                    *)
IdempotentApart ==
  (status = "done" /\ pass = 2) =>
    \A h \in Hook :
      (orig[h].service # Nil => Ports[orig[h].service.ns] \notin ExternalPorts)
        => hooks[h] = first[h]

(* Documented, and violated.  A second pass changes nothing                *)
(* (webhookrewrite.go: "idempotent so re-runs on restart are no-ops").     *)
Idempotent == (status = "done" /\ pass = 2) => hooks = first
=============================================================================
