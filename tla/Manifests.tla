------------------------------- MODULE Manifests -------------------------------
(***************************************************************************)
(* The transformations setup makes of the provider manifests before it     *)
(* applies them: internal/manifests and the filters of                     *)
(* cmd/capishim/setup.go.                                                  *)
(*                                                                         *)
(* An object is one record whatever its kind; the fields a kind does not   *)
(* have are Nil or empty.  A role name is its prefix and whether its       *)
(* suffix is that of the aggregation shell; "api" is "v1" when the         *)
(* apiVersion is the one the setup container applies for the kind.         *)
(***************************************************************************)
EXTENDS WebhookRewrite, Components, Sequences, SequencesExt

Object(kind, ns, name) ==
  [api |-> "v1", kind |-> kind, ns |-> ns, name |-> name,
   group |-> "", versions |-> Nil, hooks |-> <<>>,
   roleRef |-> Nil, subjects |-> {}]

RoleRef == [prefix: STRING, aggregated: BOOLEAN]
Subject == [kind: STRING, ns: STRING, name: STRING]

servedCAPIVersion == "v1beta2"
capiServedGroups  == {"cluster.x-k8s.io", "addons.cluster.x-k8s.io"}

clusterBinding == "ClusterRoleBinding"
RBACBindings   == {"ClusterRoleBinding", "RoleBinding"}
WebhookKinds   == {"CustomResourceDefinition", "MutatingWebhookConfiguration",
                   "ValidatingWebhookConfiguration"}
Namespaced     == {"Role", "RoleBinding"}
KeptKinds      == RBACBindings \cup WebhookKinds
                    \cup {"Namespace", "ClusterRole", "Role"}

(* Only bindings have a roleRef, and none is without: it is a required     *)
(* field that cannot be added later.                                       *)
Objects ==
  {o \in [api: STRING, kind: STRING, ns: STRING, name: STRING, group: STRING,
          versions: (SUBSET STRING) \cup {Nil}, hooks: Seq(ClientConfig),
          roleRef: RoleRef \cup {Nil}, subjects: SUBSET Subject] :
     /\ o.hooks # <<>> => o.kind \in WebhookKinds
     /\ o.roleRef # Nil <=> o.kind \in RBACBindings}

ASSUME RoleRefAssumption == Nil \notin RoleRef

(* The elements of a sequence at the positions P, in their order.  It is a *)
(* recursive function of its own, and not SelectSeq, to be reasoned about. *)
Selected(s, P) ==
  LET upTo[n \in 0..Len(s)] ==
        IF n = 0 THEN <<>>
        ELSE IF n \in P THEN Append(upTo[n - 1], s[n]) ELSE upTo[n - 1]
  IN  upTo[Len(s)]

-----------------------------------------------------------------------------
(* Loading *)

objectIdentity(o) == <<o.api, o.kind, o.ns, o.name>>

(* Two documents of one identity must have the same content.               *)
loadable(docs) ==
  \A o, p \in ToSet(docs) : objectIdentity(o) = objectIdentity(p) => o = p

(* The first document of every identity.                                   *)
LoadDedupedObjects(docs) ==
  Selected(docs, {j \in DOMAIN docs : \A m \in 1..(j - 1) :
                    objectIdentity(docs[m]) # objectIdentity(docs[j])})

isCAPICRD(o) ==
  o.kind = "CustomResourceDefinition" /\ o.group \in capiServedGroups

(* A CAPI CRD whose version list is well-formed serves v1beta2 alone, and  *)
(* is dropped when it has none; a malformed one passes through.            *)
RestrictCAPIVersionsToV1Beta2(objs) ==
  LET narrowed(o) == isCAPICRD(o) /\ o.versions # Nil
      survives(o) == narrowed(o) => servedCAPIVersion \in o.versions
      restrict(o) == IF narrowed(o)
                     THEN [o EXCEPT !.versions = {servedCAPIVersion},
                                    !.hooks = <<>>]
                     ELSE o
      survivors   == Selected(objs, {j \in DOMAIN objs : survives(objs[j])})
  IN  [j \in DOMAIN survivors |-> restrict(survivors[j])]

Keep(o) == o.kind \in KeptKinds /\ o.api = "v1"

keepObjects(objs) == Selected(objs, {j \in DOMAIN objs : Keep(objs[j])})

(* Mutant: the bindings stay in the first batch. *)
WithoutRBACBindings_All(objs) == objs

(* Mutant: RoleBindings stay in the first batch. *)
WithoutRBACBindings_ClusterOnly(objs) ==
  Selected(objs, {j \in DOMAIN objs : objs[j].kind # clusterBinding})

WithoutRBACBindings(objs) ==
  Selected(objs, {j \in DOMAIN objs : objs[j].kind \notin RBACBindings})

-----------------------------------------------------------------------------
(* RBAC *)

(* Every ServiceAccount subject has a manager, every RoleBinding a         *)
(* namespace.                                                              *)
bindable(objs) ==
  \A o \in ToSet(objs) : o.kind \in RBACBindings =>
    /\ o.kind = "RoleBinding" => o.ns # ""
    /\ \A s \in o.subjects :
         s.kind = "ServiceAccount" => s.ns \in DOMAIN ManagerCNByNamespace

rewriteSubjects(subjects) ==
  {IF s.kind = "ServiceAccount"
   THEN [kind |-> "User", ns |-> "", name |-> ManagerCNByNamespace[s.ns]]
   ELSE s : s \in subjects}

redirectAggregatedManagerRoleRef(roleRef) ==
  IF roleRef = Nil THEN Nil ELSE [roleRef EXCEPT !.aggregated = FALSE]

RewriteRBACSubjects(objs) ==
  LET rewrite(o) ==
        IF o.kind = clusterBinding
        THEN [o EXCEPT !.subjects = rewriteSubjects(o.subjects),
                       !.roleRef = redirectAggregatedManagerRoleRef(o.roleRef)]
        ELSE IF o.kind = "RoleBinding"
        THEN [o EXCEPT !.subjects = rewriteSubjects(o.subjects)]
        ELSE o
  IN  [j \in DOMAIN objs |-> rewrite(objs[j])]

AdminClusterRoleBinding(cn) ==
  [Object(clusterBinding, "", "capishim-admin") EXCEPT
     !.roleRef = [prefix |-> "cluster-admin", aggregated |-> FALSE],
     !.subjects = {[kind |-> "User", ns |-> "", name |-> cn]}]

-----------------------------------------------------------------------------
(* Webhooks and CRDs *)

CrdNamesFrom(objs) ==
  {o.name : o \in {p \in ToSet(objs) : p.kind = "CustomResourceDefinition"}}

WebhookObjects(objs) ==
  Selected(objs, {j \in DOMAIN objs : objs[j].kind \in WebhookKinds})

(* RewriteAll over the webhooks of a batch (RewritePass has the loop).     *)
allRewritable(objs, ports, ca, ext) ==
  \A o \in ToSet(objs) : \A cc \in ToSet(o.hooks) : rewritable(cc, ports, ca, ext)

RewriteAll(objs, ports, ca, ext) ==
  [j \in DOMAIN objs |->
     [objs[j] EXCEPT !.hooks =
        [n \in DOMAIN objs[j].hooks |->
           rewriteByNamespace(objs[j].hooks[n], ports, ca, ext)]]]

-----------------------------------------------------------------------------
(* Applying *)

(* The namespace of a cluster-scoped object is not part of its key.        *)
applyKey(o) ==
  <<IF o.kind \in Namespaced THEN o.ns ELSE "", o.kind, o.name>>

(* The checks Apply makes before its first call.                           *)
applicable(objs) ==
  /\ \A o \in ToSet(objs) : o.kind \in KeptKinds
  /\ \A j, k \in DOMAIN objs : applyKey(objs[j]) = applyKey(objs[k]) => j = k
=============================================================================
