-------------------------------- MODULE Setup --------------------------------
(***************************************************************************)
(* `capishim setup` (cmd/capishim/setup.go): load the provider manifests,  *)
(* apply them without the RBAC bindings, wait for the CRDs, apply them     *)
(* again with the rewritten bindings, apply the rewritten webhooks, and    *)
(* write the kubeconfigs the managers start with.                          *)
(*                                                                         *)
(* The objects live in an apiserver that survives setup and that others    *)
(* write to: its CRD controllers set Established and other status at their *)
(* own pace.  Setup may fail at any call and be killed between any two,    *)
(* and is run again from the start, possibly with another configuration or *)
(* from an image with other manifests.                                     *)
(* The certificate inventory (PKI) and the atomic replacement of a         *)
(* kubeconfig (WriteFileAtomic) are modules of their own and one step      *)
(* here.                                                                   *)
(***************************************************************************)
EXTENDS Manifests

CONSTANTS
  Docs,           \* of every image, the documents of its manifest files
  ExternalHosts,  \* hosts the hypervisor webhook may be configured with
  MaxRuns,        \* bound: runs of setup
  MaxFaults,      \* bound: failed calls, timeouts and kills
  MaxWrites       \* bound: status writes besides Established

ASSUME BoundsAssumption ==
  MaxRuns \in Nat /\ MaxFaults \in Nat /\ MaxWrites \in Nat

ASSUME DocsAssumption ==
  /\ DOMAIN Docs # {}
  /\ \A name \in DOMAIN Docs : Docs[name] \in Seq(Objects)

(* config.Load accepts no empty host.                                      *)
ASSUME ExternalHostsAssumption ==
  ExternalHosts # {} /\ ExternalHosts \subseteq Hosts \ {""}

(* The webhooks vendored in URL form name the hypervisor manager where it  *)
(* runs by default: https://127.0.0.1:9443.                                *)
ASSUME VendoredURLsAssumption ==
  \A name \in DOMAIN Docs : \A o \in ToSet(Docs[name]) :
    \A cc \in ToSet(o.hooks) : cc.url # Nil =>
      /\ cc.service = Nil
      /\ isLoopbackAuthority(cc.url.host)
      /\ cc.url.port = hypervisorWebhookPort

podCA   == "pod"
adminCN == "capishim:admin"

(* The texts setup writes into objects are strings: said here because a    *)
(* prover knows no element of STRING.                                      *)
ASSUME TextsAssumption ==
  {podCA, adminCN, servedCAPIVersion, clusterBinding, "", "v1", "User",
   "capishim-admin", "cluster-admin"} \cup {spec.cn : spec \in Managers}
    \subseteq STRING

Kubeconfigs == {spec.id : spec \in Managers} \cup {"admin"}

(* Components() in order, then the admin kubeconfig.                       *)
kubeconfigOrder == <<"core", "cabpk", "kcp", "capd", "hypervisor", "admin">>

Phase == {"manifests", "rbac", "webhooks"}

(* The images setup is run from.  The manifests of an image never change,  *)
(* so what LoadDedupedObjects and the filters after it make of them is     *)
(* part of it: an error, or the objects of the kept kinds.                 *)
Images ==
  {[name |-> name, loads |-> loadable(Docs[name]),
    objs |-> keepObjects(RestrictCAPIVersionsToV1Beta2(LoadDedupedObjects(Docs[name])))] :
     name \in DOMAIN Docs}

WithExternalWebhookHost(host) ==
  [host |-> host, ports |-> {hypervisorWebhookPort}]

(* The objects of the three calls of Apply.                                *)
manifestObjects(objs) == WithoutRBACBindings(objs)

rbacObjects(objs) ==
  Append(RewriteRBACSubjects(objs), AdminClusterRoleBinding(adminCN))

rewrittenWebhooks(objs, h) ==
  RewriteAll(WebhookObjects(objs), RewriteWebhookPortsByNamespace, podCA,
             WithExternalWebhookHost(h))

(* No error path of setup is taken for the contents of these objects.      *)
webhooksRewritable(objs, h) ==
  allRewritable(WebhookObjects(objs), RewriteWebhookPortsByNamespace, podCA,
                WithExternalWebhookHost(h))

KeysOf(img) ==
  {applyKey(o) : o \in ToSet(img.objs)
                         \cup {AdminClusterRoleBinding(adminCN)}}
CRDsOf(img)   == CrdNamesFrom(img.objs)
Keys          == UNION {KeysOf(img) : img \in Images}
CRDs          == UNION {CRDsOf(img) : img \in Images}
crdKey(name)  == <<"", "CustomResourceDefinition", name>>

VARIABLES
  store,        \* the apiserver's objects with their resourceVersions
  established,  \* CRDs whose status says Established
  serving,      \* the apiserver answers
  kubeconfigs,  \* kubeconfigs written
  pc,           \* where setup is; "idle" between runs
  phase,        \* which of the three applies it is in
  kept,         \* the objects in memory
  batch,        \* the objects Apply was called with
  i,            \* the object, or the kubeconfig, it is at
  seen,         \* the resourceVersion of its copy of the object, 0 if none
  host,         \* the configured hypervisor webhook host
  image,        \* the image of the run, or of the last one
  result,       \* how the last run ended
  images,       \* history: the images of all runs
  runs, faults, writes

(* An object the apiserver holds.                                          *)
Entry == [obj: Objects, rv: Nat \ {0}]

ASSUME EntryAssumption == Nil \notin Entry

api     == <<store, established, serving>>
process == <<pc, phase, kept, batch, i, seen, host, image, result, images>>
bounds  == <<runs, faults, writes>>
vars    == <<api, kubeconfigs, process, bounds>>

TypeOK ==
  /\ store \in [Keys -> Entry \cup {Nil}]
  /\ \A k \in Keys : store[k] # Nil => applyKey(store[k].obj) = k
  /\ established \subseteq CRDs
  /\ serving \in BOOLEAN
  /\ kubeconfigs \subseteq Kubeconfigs
  /\ pc \in {"idle", "generate", "probe", "load", "begin", "create", "get",
             "update", "waitCRDs", "kubeconfigs"}
  /\ phase \in Phase
  /\ kept \in Seq(Objects) /\ batch \in Seq(Objects)
  /\ \A o \in ToSet(kept) \cup ToSet(batch) : applyKey(o) \in Keys
  /\ pc = "create" => i \in 1..(Len(batch) + 1) /\ seen = 0
  /\ pc \in {"get", "update"} => i \in DOMAIN batch
  /\ seen \in Nat
  /\ host \in ExternalHosts
  /\ image \in Images /\ images \subseteq Images
  /\ result \in {"none", "ready", "error", "killed", "conflict", "roleRef",
                 "rewrite"}
  /\ runs \in 0..MaxRuns /\ faults \in 0..MaxFaults /\ writes \in 0..MaxWrites

Init ==
  /\ store = [k \in Keys |-> Nil]
  /\ established = {}
  /\ serving = FALSE
  /\ kubeconfigs = {}
  /\ pc = "idle"
  /\ phase = "manifests"
  /\ kept = <<>>
  /\ batch = <<>>
  /\ i = 1
  /\ seen = 0
  /\ host = CHOOSE h \in ExternalHosts : TRUE   \* until the first run
  /\ image = CHOOSE img \in Images : TRUE
  /\ images = {}
  /\ result = "none"
  /\ runs = 0 /\ faults = 0 /\ writes = 0

-----------------------------------------------------------------------------
(* The run *)

Start(h, img) ==
  /\ pc = "idle"
  /\ runs < MaxRuns
  /\ runs' = runs + 1
  /\ pc' = "generate"
  /\ host' = h
  /\ image' = img
  /\ images' = images \cup {img}
  /\ result' = "none"
  /\ UNCHANGED <<api, kubeconfigs, phase, kept, batch, i, seen, faults, writes>>

End(how) ==
  /\ pc' = "idle"
  /\ result' = how
  /\ phase' = "manifests"
  /\ kept' = <<>>
  /\ batch' = <<>>
  /\ i' = 1
  /\ seen' = 0
  /\ UNCHANGED <<host, image, images>>

(* What every step inside a run leaves alone.                              *)
inRun == UNCHANGED <<host, image, images, result, bounds>>

(* config.Load and pki.Generate succeed.                                   *)
generate ==
  /\ pc = "generate"
  /\ pc' = "probe"
  /\ UNCHANGED <<api, kubeconfigs, phase, kept, batch, i, seen>> /\ inRun

(* Any answer of /healthz will do.                                         *)
WaitForAPIServer ==
  /\ pc = "probe"
  /\ serving
  /\ pc' = "load"
  /\ UNCHANGED <<api, kubeconfigs, phase, kept, batch, i, seen>> /\ inRun

load ==
  /\ pc = "load"
  /\ IF image.loads
     THEN /\ kept' = image.objs
          /\ pc' = "begin"
          /\ UNCHANGED <<phase, batch, i, seen>> /\ inRun
     ELSE End("error") /\ UNCHANGED bounds
  /\ UNCHANGED <<api, kubeconfigs>>

(* Apply looks at all its objects before the first call.                   *)
Apply(objs) ==
  IF applicable(objs)
  THEN /\ batch' = objs
       /\ pc' = "create"
       /\ i' = 1
       /\ UNCHANGED <<phase, kept, seen>> /\ inRun
  ELSE End("error") /\ UNCHANGED bounds

applyManifests ==
  /\ pc = "begin" /\ phase = "manifests"
  /\ Apply(manifestObjects(kept))
  /\ UNCHANGED <<api, kubeconfigs>>

applyRBAC ==
  /\ pc = "begin" /\ phase = "rbac"
  /\ IF bindable(kept)
     THEN Apply(rbacObjects(kept))
     ELSE End("error") /\ UNCHANGED bounds
  /\ UNCHANGED <<api, kubeconfigs>>

applyWebhooks ==
  /\ pc = "begin" /\ phase = "webhooks"
  /\ IF webhooksRewritable(kept, host)
     THEN Apply(rewrittenWebhooks(kept, host))
     ELSE End("rewrite") /\ UNCHANGED bounds
  /\ UNCHANGED <<api, kubeconfigs>>

atObject == i \in DOMAIN batch
key      == applyKey(batch[i])

(* Mutant: the next object inherits the resourceVersion. *)
nextObject_Leaks ==
  /\ i' = i + 1
  /\ pc' = "create"
  /\ UNCHANGED <<phase, kept, batch, seen>> /\ inRun

(* Apply works on a copy of the next object, without a resourceVersion.    *)
nextObject ==
  /\ i' = i + 1
  /\ pc' = "create"
  /\ seen' = 0
  /\ UNCHANGED <<phase, kept, batch>> /\ inRun

createNew ==
  /\ pc = "create" /\ atObject
  /\ store[key] = Nil
  /\ store' = [store EXCEPT ![key] = [obj |-> batch[i], rv |-> 1]]
  /\ nextObject
  /\ UNCHANGED <<established, serving, kubeconfigs>>

createExists ==
  /\ pc = "create" /\ atObject
  /\ store[key] # Nil
  /\ pc' = "get"
  /\ UNCHANGED <<api, kubeconfigs, phase, kept, batch, i, seen>> /\ inRun

(* Mutant: the object is updated with the resourceVersion of its creation. *)
getExisting_NoAdopt ==
  /\ pc = "get"
  /\ seen' = 1
  /\ pc' = "update"
  /\ UNCHANGED <<api, kubeconfigs, phase, kept, batch, i>> /\ inRun

getExisting ==
  /\ pc = "get"
  /\ seen' = store[key].rv
  /\ pc' = "update"
  /\ UNCHANGED <<api, kubeconfigs, phase, kept, batch, i>> /\ inRun

(* The apiserver refuses an update with another resourceVersion than the   *)
(* object's, and one that changes the roleRef of a binding; one that       *)
(* changes nothing keeps the resourceVersion.                              *)
conflicting == seen # store[key].rv
sameRoleRef == store[key].obj.roleRef = batch[i].roleRef

updateObject ==
  /\ pc = "update"
  /\ ~conflicting /\ sameRoleRef
  /\ store' = IF store[key].obj = batch[i] THEN store
              ELSE [store EXCEPT ![key] = [obj |-> batch[i], rv |-> seen + 1]]
  /\ nextObject
  /\ UNCHANGED <<established, serving, kubeconfigs>>

updateConflict ==
  /\ pc = "update"
  /\ conflicting
  /\ End("conflict")
  /\ UNCHANGED <<api, kubeconfigs, bounds>>

updateForbidden ==
  /\ pc = "update"
  /\ ~conflicting /\ ~sameRoleRef
  /\ End("roleRef")
  /\ UNCHANGED <<api, kubeconfigs, bounds>>

(* Mutant: the webhooks are applied before the bindings. *)
afterApply_WebhooksFirst ==
  [manifests |-> [pc |-> "waitCRDs", phase |-> "manifests"],
   webhooks  |-> [pc |-> "begin", phase |-> "rbac"],
   rbac      |-> [pc |-> "kubeconfigs", phase |-> "rbac"]]

(* Mutant: setup does not wait for the CRDs. *)
afterApply_NoWait ==
  [manifests |-> [pc |-> "begin", phase |-> "rbac"],
   rbac      |-> [pc |-> "begin", phase |-> "webhooks"],
   webhooks  |-> [pc |-> "kubeconfigs", phase |-> "webhooks"]]

(* The order of setup: where it goes after the Apply of a phase.           *)
afterApply ==
  [manifests |-> [pc |-> "waitCRDs", phase |-> "manifests"],
   rbac      |-> [pc |-> "begin", phase |-> "webhooks"],
   webhooks  |-> [pc |-> "kubeconfigs", phase |-> "webhooks"]]

endApply ==
  /\ pc = "create" /\ ~atObject
  /\ pc' = afterApply[phase].pc
  /\ phase' = afterApply[phase].phase
  /\ batch' = <<>>
  /\ i' = 1
  /\ UNCHANGED <<api, kubeconfigs, kept, seen>> /\ inRun

WaitForCRDEstablished ==
  /\ pc = "waitCRDs"
  /\ CrdNamesFrom(kept) \subseteq established
  /\ pc' = "begin"
  /\ phase' = "rbac"
  /\ UNCHANGED <<api, kubeconfigs, kept, batch, i, seen>> /\ inRun

WriteKubeconfigFile ==
  /\ pc = "kubeconfigs" /\ i \in DOMAIN kubeconfigOrder
  /\ kubeconfigs' = kubeconfigs \cup {kubeconfigOrder[i]}
  /\ i' = i + 1
  /\ UNCHANGED <<api, pc, phase, kept, batch, seen>> /\ inRun

ready ==
  /\ pc = "kubeconfigs" /\ i \notin DOMAIN kubeconfigOrder
  /\ End("ready")
  /\ UNCHANGED <<api, kubeconfigs, bounds>>

setup ==
  \/ generate \/ WaitForAPIServer \/ load
  \/ applyManifests \/ applyRBAC \/ applyWebhooks
  \/ createNew \/ createExists \/ getExisting
  \/ updateObject \/ updateConflict \/ updateForbidden
  \/ endApply \/ WaitForCRDEstablished
  \/ WriteKubeconfigFile \/ ready

-----------------------------------------------------------------------------
(* The apiserver *)

serve ==
  /\ ~serving
  /\ serving' = TRUE
  /\ UNCHANGED <<store, established, kubeconfigs, process, bounds>>

bumpRV(k) == store' = [store EXCEPT ![k].rv = @ + 1]

establish(name) ==
  /\ store[crdKey(name)] # Nil
  /\ name \notin established
  /\ established' = established \cup {name}
  /\ bumpRV(crdKey(name))
  /\ UNCHANGED <<serving, kubeconfigs, process, bounds>>

(* Another condition, or the stored versions, of a CRD are written.        *)
writeStatus(name) ==
  /\ writes < MaxWrites
  /\ writes' = writes + 1
  /\ store[crdKey(name)] # Nil
  /\ bumpRV(crdKey(name))
  /\ UNCHANGED <<established, serving, kubeconfigs, process, runs, faults>>

-----------------------------------------------------------------------------
(* Faults *)

(* A call fails, a wait times out, or the process is killed.               *)
Stop(how) ==
  /\ pc # "idle"
  /\ faults < MaxFaults
  /\ faults' = faults + 1
  /\ End(how)
  /\ UNCHANGED <<api, kubeconfigs, runs, writes>>

Next ==
  \/ \E h \in ExternalHosts, img \in Images : Start(h, img)
  \/ setup
  \/ serve
  \/ \E name \in CRDs : establish(name) \/ writeStatus(name)
  \/ \E how \in {"error", "killed"} : Stop(how)

(* The process is scheduled, the apiserver comes up and its controllers    *)
(* establish the CRDs; nobody has to start setup.                          *)
Fairness ==
  /\ WF_vars(setup)
  /\ WF_vars(serve)
  /\ \A name \in CRDs : WF_vars(establish(name))

Spec == Init /\ [][Next]_vars /\ Fairness

-----------------------------------------------------------------------------
(* Properties *)

(* A clientConfig the apiserver can call: in the pod, or at the configured *)
(* host, with the pod CA.                                                  *)
reachable(cc) ==
  /\ cc.service = Nil
  /\ cc.ca = podCA
  /\ \/ cc.url.host = "localhost"
        /\ \E spec \in Managers : ~spec.external /\ spec.port = cc.url.port
     \/ cc.url.host = host /\ cc.url.port = hypervisorWebhookPort

(* A binding that grants: no ServiceAccounts, which nobody authenticates   *)
(* as, and no aggregation shell, which nobody fills.                       *)
effective(o) ==
  /\ \A s \in o.subjects : s.kind # "ServiceAccount"
  /\ o.kind = clusterBinding => ~o.roleRef.aggregated

(* The apiserver holds every object of the image, with effective bindings. *)
applied(img) ==
  \A k \in KeysOf(img) :
    /\ store[k] # Nil
    /\ k[2] \in RBACBindings => effective(store[k].obj)

(* Safety.  When setup reports ready, whatever runs failed, were killed or *)
(* had another configuration or image before, the apiserver holds every    *)
(* object of the manifests, with all their webhooks reachable, all their   *)
(* bindings effective, every CRD established and the CAPI ones serving     *)
(* v1beta2 alone, and every kubeconfig is written (setup: "a repeated run  *)
(* ... converges to the same state").                                      *)
ReadyMeansConverged ==
  result = "ready" =>
    /\ applied(image)
    /\ \A k \in KeysOf(image) :
         /\ \A cc \in ToSet(store[k].obj.hooks) : reachable(cc)
         /\ isCAPICRD(store[k].obj) =>
              store[k].obj.versions \in {{servedCAPIVersion}, Nil}
    /\ CRDsOf(image) \subseteq established
    /\ kubeconfigs = Kubeconfigs

(* Safety.  A run is refused for changing a roleRef only when another      *)
(* image was run before: no run is in its own way, nor an earlier run of   *)
(* the same image, at whatever point that stopped (WithoutRBACBindings:    *)
(* "the apiserver rejects changing the roleRef of an existing binding").   *)
RoleRefRejectedOnUpgradeOnly == result = "roleRef" => images # {image}

(* Safety.  A manager that finds its kubeconfig finds its permissions and  *)
(* its CRDs too, also while a later run is under way or after it failed:   *)
(* the kubeconfigs come last (setup: "in the order the apiserver           *)
(* requires").                                                             *)
KubeconfigsComeLast ==
  kubeconfigs # {} =>
    \E img \in images : applied(img) /\ CRDsOf(img) \subseteq established

(* Action property.  A binding that grants is never taken back, not even   *)
(* for the time of a re-run: the managers keep their permissions.          *)
BindingsStayEffective ==
  [][\A k \in Keys :
       (store[k] # Nil /\ k[2] \in RBACBindings /\ effective(store[k].obj))
         => effective(store'[k].obj)]_vars

(* The bindings the apiserver holds have the roleRefs of the image.        *)
roleRefsOf(img) ==
  \A o \in ToSet(rbacObjects(img.objs)) :
    store[applyKey(o)] # Nil => store[applyKey(o)].obj.roleRef = o.roleRef

quiet ==
  /\ pc = "generate" /\ faults = MaxFaults /\ writes = MaxWrites
  /\ \A name \in CRDs : store[crdKey(name)] # Nil => name \in established

sound(img) ==
  /\ img.loads
  /\ bindable(img.objs) /\ roleRefsOf(img)
  /\ webhooksRewritable(img.objs, host)

(* Liveness.  A run of a sound image that meets no fault and no concurrent *)
(* status write ends ready, wherever and with whatever image the runs      *)
(* before it stopped: no leftover of theirs blocks it.                     *)
QuietRunSucceeds == (quiet /\ sound(image)) ~> (result = "ready")

(* Documented, and violated.  A webhook the apiserver can reach stays so   *)
(* while setup runs again (setup: "a repeated run is a no-op").            *)
WebhooksStayReachable ==
  [][\A k \in Keys :
       (/\ pc # "idle" /\ store[k] # Nil /\ k[2] \in WebhookKinds
        /\ \A cc \in ToSet(store[k].obj.hooks) : cc.service = Nil)
         => \A cc \in ToSet(store'[k].obj.hooks) : cc.service = Nil]_vars

(* Documented, and violated.  The vendored webhooks can all be rewritten   *)
(* (docs/vendored-manifests.md: the hypervisor trees have "all ten webhook *)
(* clientConfigs in URL form").                                            *)
VendoredWebhooksRewritable == result # "rewrite"
=============================================================================
