------------------------------ MODULE SetupProofs ------------------------------
(***************************************************************************)
(* Theorems about Setup, for any images, hosts and bounds: the type        *)
(* invariant, what a finished run and a written kubeconfig mean, and what  *)
(* no run does to the bindings of the runs before it.                      *)
(***************************************************************************)
EXTENDS Setup, WellFoundedInduction, TLAPS

-----------------------------------------------------------------------------
(* The inductive invariant *)

inApply  == pc \in {"create", "get", "update"}
inMemory == inApply \/ pc \in {"begin", "waitCRDs", "kubeconfigs"}

(* What Apply is called with in a phase, and the errors setup has passed   *)
(* when it is.                                                             *)
batchOf(img, h, ph) ==
  CASE ph = "manifests" -> manifestObjects(img.objs)
    [] ph = "rbac"      -> rbacObjects(img.objs)
    [] ph = "webhooks"  -> rewrittenWebhooks(img.objs, h)

passed(img, h, ph) ==
  /\ ph = "rbac" => bindable(img.objs)
  /\ ph = "webhooks" => webhooksRewritable(img.objs, h)

(* The process: its memory is what setup has made of its image.            *)
MemoryInv ==
  /\ pc # "idle" \/ result # "none" => image \in images
  /\ pc # "idle" => result = "none"
  /\ kept = IF inMemory THEN image.objs ELSE <<>>
  /\ inApply => /\ batch = batchOf(image, host, phase)
                /\ passed(image, host, phase) /\ applicable(batch)
  /\ ~inApply => batch = <<>>
  /\ pc \in {"get", "update"} => store[key] # Nil
  /\ pc \in {"idle", "generate", "probe", "load", "waitCRDs"} =>
       phase = "manifests"
  /\ pc = "kubeconfigs" => phase = "webhooks"
  /\ pc # "update" => seen = 0
  /\ i \in Nat \ {0}

(* The apiserver has this object, whatever its resourceVersion.            *)
holds(o) == store[applyKey(o)] # Nil /\ store[applyKey(o)].obj = o

(* Apply is through with the objects before the one it is at.              *)
BatchDone == \A j \in 1..(i - 1) : holds(batch[j])

(* The second apply is over: its webhooks may be overwritten by the third. *)
BindingsDone(img) ==
  /\ bindable(img.objs)
  /\ \A o \in ToSet(rbacObjects(img.objs)) :
       /\ store[applyKey(o)] # Nil
       /\ o.kind \notin WebhookKinds => holds(o)

WebhooksDone(img, h) ==
  /\ webhooksRewritable(img.objs, h)
  /\ \A o \in ToSet(rewrittenWebhooks(img.objs, h)) : holds(o)

(* The phases that lie behind a run have left in the apiserver what they   *)
(* apply.                                                                  *)
ProgressInv ==
  /\ inApply => BatchDone
  /\ inMemory /\ phase # "manifests" => CRDsOf(image) \subseteq established
  /\ inMemory /\ phase = "webhooks" => BindingsDone(image)
  /\ pc = "kubeconfigs" =>
       /\ WebhooksDone(image, host)
       /\ \A n \in 1..(i - 1) : kubeconfigOrder[n] \in kubeconfigs
  /\ result = "ready" =>
       /\ CRDsOf(image) \subseteq established
       /\ BindingsDone(image) /\ WebhooksDone(image, host)
       /\ kubeconfigs = Kubeconfigs

(* Every binding the apiserver holds is one that some run has rewritten.   *)
BindingsInv ==
  \A k \in Keys : (store[k] # Nil /\ k[2] \in RBACBindings) =>
    \E img \in images : /\ bindable(img.objs)
                        /\ store[k].obj \in ToSet(rbacObjects(img.objs))

(* Objects are never removed: what the kubeconfigs were written after is   *)
(* still there.                                                            *)
complete(img) ==
  /\ \A k \in KeysOf(img) : store[k] # Nil
  /\ CRDsOf(img) \subseteq established

KubeconfigsInv == kubeconfigs # {} => \E img \in images : complete(img)

IInv ==
  /\ TypeOK /\ MemoryInv /\ ProgressInv /\ BindingsInv /\ KubeconfigsInv
  /\ RoleRefRejectedOnUpgradeOnly

-----------------------------------------------------------------------------
(* Selected, by induction on the length of the sequence *)

(* The order of the naturals as a set of pairs.                            *)
LEMMA NaturalOrder ==
  \E R : /\ IsWellFoundedOn(R, Nat)
         /\ \A a, b \in Nat : a < b => <<a, b>> \in R
<1>1. IsWellFoundedOn(OpToRel(<, Nat), Nat)
  BY NatLessThanWellFounded
<1>2. \A a, b \in Nat : a < b => <<a, b>> \in OpToRel(<, Nat)
  BY Zenon DEF OpToRel
<1> QED
  BY <1>1, <1>2, Zenon

(* Induction over the naturals, for a set instead of a predicate.          *)
LEMMA InductionOnSet ==
  ASSUME NEW T, 0 \in T, \A n \in Nat : n \in T => n + 1 \in T
  PROVE  Nat \subseteq T
<1>1. PICK R : /\ IsWellFoundedOn(R, Nat)
               /\ \A a, b \in Nat : a < b => <<a, b>> \in R
  BY NaturalOrder, Zenon
<1>2. \A S : (IsWellFoundedOn(R, Nat) /\ S \subseteq Nat /\ S # {}) =>
        \E n \in S : \A m \in S : ~(<<m, n>> \in R)
  BY WFMin, Zenon
<1>3. SUFFICES ASSUME Nat \ T # {} PROVE FALSE
  OBVIOUS
<1>4. PICK n \in Nat \ T : \A m \in Nat \ T : ~(<<m, n>> \in R)
  BY <1>1, <1>2, <1>3
<1>5. \A m \in Nat \ T : ~(m < n)
  BY <1>1, <1>4
<1>6. n # 0
  BY <1>4
<1>7. n - 1 \in Nat /\ n - 1 < n /\ (n - 1) + 1 = n
  BY <1>4, <1>6
<1> QED
  BY <1>4, <1>5, <1>7

(* The recursion of Selected.                                              *)
step(s, P, n, before) ==
  IF n = 0 THEN <<>>
  ELSE IF n \in P THEN Append(before, s[n]) ELSE before

IsPrefixes(f, s, P, N) ==
  f = [n \in 0..N |-> step(s, P, n, f[n - 1])]

(* Selected is well defined: its recursion has a solution.                 *)
LEMMA PrefixesExist ==
  ASSUME NEW s, NEW P
  PROVE  \A N \in Nat : \E f : IsPrefixes(f, s, P, N)
<1> DEFINE T == {N \in Nat : \E f : IsPrefixes(f, s, P, N)}
<1>1. 0 \in T
  <2> DEFINE f == [n \in 0..0 |-> <<>>]
  <2>1. \A n \in 0..0 : step(s, P, n, f[n - 1]) = <<>>
    BY DEF step
  <2> HIDE DEF f
  <2>2. f = [n \in 0..0 |-> step(s, P, n, f[n - 1])]
    BY <2>1 DEF f
  <2> QED
    BY <2>2 DEF IsPrefixes
<1>2. ASSUME NEW N \in Nat, N \in T
      PROVE  N + 1 \in T
  <2>1. PICK f : IsPrefixes(f, s, P, N)
    BY <1>2
  <2> DEFINE g == [n \in 0..(N + 1) |->
                     IF n = N + 1 THEN step(s, P, N + 1, f[N]) ELSE f[n]]
  <2>2. ASSUME NEW n \in 0..(N + 1)
        PROVE  g[n] = step(s, P, n, g[n - 1])
    <3>1. CASE n = N + 1
      <4>1. g[n - 1] = f[N]
        BY <3>1
      <4> QED
        BY <3>1, <4>1
    <3>2. CASE n \in 0..N
      <4>1. g[n] = step(s, P, n, f[n - 1])
        BY <2>1, <3>2 DEF IsPrefixes
      <4>2. CASE n = 0
        BY <4>1, <4>2 DEF step
      <4>3. CASE n # 0
        <5>1. g[n - 1] = f[n - 1]
          BY <3>2, <4>3
        <5> QED
          BY <4>1, <5>1
      <4> QED
        BY <4>2, <4>3
    <3> QED
      BY <3>1, <3>2
  <2>3. g = [n \in 0..(N + 1) |-> g[n]]
    OBVIOUS
  <2> HIDE DEF g
  <2>4. g = [n \in 0..(N + 1) |-> step(s, P, n, g[n - 1])]
    BY <2>2, <2>3
  <2> QED
    BY <2>4 DEF IsPrefixes
<1> HIDE DEF T
<1>3. Nat \subseteq T
  BY <1>1, <1>2, InductionOnSet
<1> QED
  BY <1>3 DEF T

(* Selected is the last of its prefixes.                                   *)
LEMMA SelectedUnfolds ==
  ASSUME NEW s, NEW P, Len(s) \in Nat
  PROVE  \E f : IsPrefixes(f, s, P, Len(s)) /\ Selected(s, P) = f[Len(s)]
<1> DEFINE f == CHOOSE upTo : upTo =
                  [n \in 0..Len(s) |->
                     IF n = 0 THEN <<>>
                     ELSE IF n \in P THEN Append(upTo[n - 1], s[n])
                     ELSE upTo[n - 1]]
<1>1. Selected(s, P) = f[Len(s)]
  BY DEF Selected
<1>2. \E upTo : IsPrefixes(upTo, s, P, Len(s))
  BY PrefixesExist
<1>3. IsPrefixes(f, s, P, Len(s))
  BY <1>2, Zenon DEF IsPrefixes, step
<1> QED
  BY <1>1, <1>3, Zenon

(* The elements of a longer sequence.                                      *)
LEMMA AppendElements ==
  ASSUME NEW S, NEW s \in Seq(S), NEW e \in S
  PROVE  /\ Append(s, e) \in Seq(S)
         /\ ToSet(Append(s, e)) = ToSet(s) \cup {e}
<1>1. /\ Append(s, e) \in Seq(S) /\ Len(Append(s, e)) = Len(s) + 1
      /\ DOMAIN Append(s, e) = 1..(Len(s) + 1)
      /\ \A n \in 1..Len(s) : Append(s, e)[n] = s[n]
      /\ Append(s, e)[Len(s) + 1] = e
  OBVIOUS
<1>2. DOMAIN s = 1..Len(s) /\ Len(s) \in Nat
  OBVIOUS
<1> DEFINE r == Append(s, e)
<1> HIDE DEF r
<1>3. ASSUME NEW n \in DOMAIN r
      PROVE  r[n] \in ToSet(s) \cup {e}
  BY <1>1, <1>2 DEF ToSet, r
<1>4. \A n \in DOMAIN s : n \in DOMAIN r /\ r[n] = s[n]
  BY <1>1, <1>2 DEF r
<1>5. Len(s) + 1 \in DOMAIN r /\ r[Len(s) + 1] = e
  BY <1>1, <1>2 DEF r
<1>6. ToSet(r) = ToSet(s) \cup {e}
  BY <1>3, <1>4, <1>5 DEF ToSet
<1> QED
  BY <1>1, <1>6 DEF r

(* Selected keeps the elements at the positions, and no others.            *)
LEMMA SelectedElements ==
  ASSUME NEW S, NEW s \in Seq(S), NEW P
  PROVE  /\ Selected(s, P) \in Seq(S)
         /\ ToSet(Selected(s, P)) = {s[j] : j \in P \cap DOMAIN s}
<1>1. PICK f : IsPrefixes(f, s, P, Len(s)) /\ Selected(s, P) = f[Len(s)]
  BY SelectedUnfolds
<1> DEFINE Good(n) == /\ f[n] \in Seq(S)
                      /\ ToSet(f[n]) = {s[j] : j \in P \cap 1..n}
           T == {n \in Nat : n \in 0..Len(s) => Good(n)}
<1>2. \A n \in 0..Len(s) : f[n] = step(s, P, n, f[n - 1])
  BY <1>1 DEF IsPrefixes
<1>3. 0 \in T
  <2>1. f[0] = <<>>
    <3>1. 0 \in 0..Len(s)
      OBVIOUS
    <3>2. f[0] = step(s, P, 0, f[0 - 1])
      BY <1>2, <3>1
    <3> QED
      BY <3>2, Zenon DEF step
  <2>2. <<>> \in Seq(S) /\ ToSet(<<>>) = {}
    BY DEF ToSet
  <2>3. {s[j] : j \in P \cap 1..0} = {}
    OBVIOUS
  <2> QED
    BY <2>1, <2>2, <2>3, Zenon
<1>4. ASSUME NEW n \in Nat, n \in T
      PROVE  n + 1 \in T
  <2>1. SUFFICES ASSUME n + 1 \in 0..Len(s) PROVE Good(n + 1)
    OBVIOUS
  <2>2. Good(n) /\ f[n + 1] = step(s, P, n + 1, f[n])
    BY <1>2, <1>4, <2>1
  <2>3. s[n + 1] \in S
    BY <2>1
  <2>4. CASE n + 1 \in P
    <3>1. f[n + 1] = Append(f[n], s[n + 1])
      BY <2>2, <2>4 DEF step
    <3>2. /\ f[n + 1] \in Seq(S)
          /\ ToSet(f[n + 1]) = ToSet(f[n]) \cup {s[n + 1]}
      <4>1. f[n] \in Seq(S)
        BY <2>2
      <4> HIDE DEF Good
      <4> QED
        BY <2>3, <3>1, <4>1, AppendElements
    <3>3. P \cap 1..(n + 1) = (P \cap 1..n) \cup {n + 1}
      BY <2>4
    <3>4. {s[j] : j \in P \cap 1..(n + 1)} =
            {s[j] : j \in P \cap 1..n} \cup {s[n + 1]}
      BY <3>3
    <3> QED
      BY <2>2, <3>2, <3>4, Zenon
  <2>5. CASE n + 1 \notin P
    <3>1. f[n + 1] = f[n]
      BY <2>2, <2>5 DEF step
    <3>2. P \cap 1..(n + 1) = P \cap 1..n
      BY <2>5
    <3> QED
      BY <2>2, <3>1, <3>2
  <2> QED
    BY <2>4, <2>5
<1> HIDE DEF T
<1>5. Nat \subseteq T
  BY <1>3, <1>4, InductionOnSet
<1> HIDE DEF Good
<1>6. Good(Len(s))
  BY <1>5 DEF T
<1>7. DOMAIN s = 1..Len(s)
  OBVIOUS
<1> QED
  BY <1>1, <1>6, <1>7, Zenon DEF Good

(* The elements of a sequence by their positions.                          *)
LEMMA SequenceElements ==
  ASSUME NEW S, NEW s \in Seq(S)
  PROVE  /\ Len(s) \in Nat /\ DOMAIN s = 1..Len(s)
         /\ ToSet(s) \subseteq S
         /\ \A n \in DOMAIN s : s[n] \in S /\ s[n] \in ToSet(s)
         /\ \A e \in ToSet(s) : \E n \in DOMAIN s : e = s[n]
BY DEF ToSet

(* The selected elements, one by one.                                      *)
LEMMA SelectedSubset ==
  ASSUME NEW S, NEW s \in Seq(S), NEW P
  PROVE  /\ Selected(s, P) \in Seq(S)
         /\ \A e \in ToSet(Selected(s, P)) : e \in S /\ e \in ToSet(s)
         /\ \A e \in ToSet(Selected(s, P)) :
              \E n \in P \cap DOMAIN s : e = s[n]
         /\ \A n \in P \cap DOMAIN s : s[n] \in ToSet(Selected(s, P))
BY SelectedElements, SequenceElements

-----------------------------------------------------------------------------
(* The component table *)

(* The managers, and that the hypervisor's port is one of the pod's too.   *)
LEMMA ManagerTable ==
  /\ {spec.id : spec \in Managers} =
       {"core", "cabpk", "kcp", "capd", "hypervisor"}
  /\ \A spec \in Managers :
       /\ spec.cn \in STRING /\ spec.port \in Nat
       /\ \E pod \in Managers : ~pod.external /\ pod.port = spec.port
<1> DEFINE core  == manager("core", "capi-system", "capishim:core-manager",
                            9443, 9451, 8451)
           cabpk == manager("cabpk", "capi-kubeadm-bootstrap-system",
                            "capishim:cabpk-manager", 9444, 9452, 8452)
           kcp   == manager("kcp", "capi-kubeadm-control-plane-system",
                            "capishim:kcp-manager", 9445, 9453, 8453)
           capd  == manager("capd", "capd-system", "capishim:capd-manager",
                            9446, 9454, 8454)
           named(spec) == spec.cn # ""
<1>1. \A id : ~named(plain(id))
  BY Zenon DEF plain
<1>2. /\ core.id = "core" /\ core.port = 9443 /\ core.external = FALSE
      /\ cabpk.id = "cabpk" /\ cabpk.port = 9444 /\ cabpk.external = FALSE
      /\ kcp.id = "kcp" /\ kcp.port = 9445 /\ kcp.external = FALSE
      /\ capd.id = "capd" /\ capd.port = 9446 /\ capd.external = FALSE
      /\ hypervisor.id = "hypervisor" /\ hypervisor.port = 9443
  BY DEF manager, hypervisor, plain
<1>3. named(core) /\ named(cabpk) /\ named(kcp) /\ named(capd)
  BY DEF manager
<1>4. named(hypervisor)
  BY DEF hypervisor, plain
<1>5. /\ Components = {plain(id) : id \in {"pki", "etcd", "apiserver", "setup"}}
                       \cup {core, cabpk, kcp, capd, hypervisor}
      /\ Managers = {spec \in Components : named(spec)}
  BY DEF Components, Managers
<1> HIDE DEF core, cabpk, kcp, capd, named
<1>6. Managers = {core, cabpk, kcp, capd, hypervisor}
  BY <1>1, <1>3, <1>4, <1>5
<1>7. {spec.id : spec \in Managers} =
        {"core", "cabpk", "kcp", "capd", "hypervisor"}
  BY <1>2, <1>6
<1>8. \A spec \in Managers :
        /\ spec.port \in Nat
        /\ \E pod \in Managers : ~pod.external /\ pod.port = spec.port
  BY <1>2, <1>6
<1>9. \A spec \in Managers : spec.cn \in STRING
  BY TextsAssumption, Zenon
<1> QED
  BY <1>7, <1>8, <1>9

(* The maps that setup derives from it are defined for their namespaces.   *)
LEMMA NamespaceMaps ==
  /\ \A ns \in DOMAIN ManagerCNByNamespace :
       ManagerCNByNamespace[ns] \in STRING
  /\ \A ns \in DOMAIN RewriteWebhookPortsByNamespace :
       /\ RewriteWebhookPortsByNamespace[ns] \in Nat
       /\ \E pod \in Managers :
            /\ ~pod.external
            /\ pod.port = RewriteWebhookPortsByNamespace[ns]
<1>1. \A ns \in {spec.ns : spec \in Managers} : specOf(ns) \in Managers
  BY DEF specOf
<1> QED
  BY <1>1, ManagerTable
     DEF ManagerCNByNamespace, RewriteWebhookPortsByNamespace

(* The kubeconfigs are written in an order that has them all.              *)
LEMMA KubeconfigOrder ==
  /\ DOMAIN kubeconfigOrder = 1..6
  /\ {kubeconfigOrder[n] : n \in 1..6} = Kubeconfigs
<1>1. Kubeconfigs = {"core", "cabpk", "kcp", "capd", "hypervisor", "admin"}
  BY ManagerTable DEF Kubeconfigs
<1>2. /\ DOMAIN kubeconfigOrder = 1..6
      /\ kubeconfigOrder[1] = "core" /\ kubeconfigOrder[2] = "cabpk"
      /\ kubeconfigOrder[3] = "kcp" /\ kubeconfigOrder[4] = "capd"
      /\ kubeconfigOrder[5] = "hypervisor" /\ kubeconfigOrder[6] = "admin"
  BY DEF kubeconfigOrder
<1>3. 1..6 = {1, 2, 3, 4, 5, 6}
  OBVIOUS
<1> QED
  BY <1>1, <1>2, <1>3

-----------------------------------------------------------------------------
(* The transformations of the manifests *)

(* An object is its fields.                                                *)
LEMMA ObjectFields ==
  ASSUME NEW o
  PROVE  o \in Objects <=>
           /\ o = [api |-> o.api, kind |-> o.kind, ns |-> o.ns,
                   name |-> o.name, group |-> o.group,
                   versions |-> o.versions, hooks |-> o.hooks,
                   roleRef |-> o.roleRef, subjects |-> o.subjects]
           /\ o.api \in STRING /\ o.kind \in STRING /\ o.ns \in STRING
           /\ o.name \in STRING /\ o.group \in STRING
           /\ o.versions \in (SUBSET STRING) \cup {Nil}
           /\ o.hooks \in Seq(ClientConfig)
           /\ o.roleRef \in RoleRef \cup {Nil}
           /\ o.subjects \in SUBSET Subject
           /\ o.hooks # <<>> => o.kind \in WebhookKinds
           /\ o.roleRef # Nil <=> o.kind \in RBACBindings
BY DEF Objects

(* The webhooks, the subjects or the roleRef of an object are replaced.    *)
LEMMA NewHooks ==
  ASSUME NEW o \in Objects, NEW hooks \in Seq(ClientConfig),
         hooks # <<>> => o.kind \in WebhookKinds
  PROVE  LET p == [o EXCEPT !.hooks = hooks]
         IN  /\ p \in Objects
             /\ p.api = o.api /\ p.kind = o.kind
             /\ p.ns = o.ns /\ p.name = o.name
             /\ p.group = o.group /\ p.versions = o.versions
             /\ p.roleRef = o.roleRef /\ p.subjects = o.subjects
             /\ p.hooks = hooks
<1> DEFINE p == [o EXCEPT !.hooks = hooks]
<1>1. p = [api |-> o.api, kind |-> o.kind, ns |-> o.ns,
           name |-> o.name, group |-> o.group,
           versions |-> o.versions, hooks |-> hooks,
           roleRef |-> o.roleRef, subjects |-> o.subjects]
  BY ObjectFields
<1> HIDE DEF p
<1> QED
  BY <1>1, ObjectFields DEF p

(* An object with other subjects is an object.                             *)
LEMMA NewSubjects ==
  ASSUME NEW o \in Objects, NEW subjects \in SUBSET Subject
  PROVE  LET p == [o EXCEPT !.subjects = subjects]
         IN  /\ p \in Objects
             /\ p.kind = o.kind /\ p.ns = o.ns /\ p.name = o.name
             /\ p.group = o.group /\ p.versions = o.versions
             /\ p.hooks = o.hooks /\ p.roleRef = o.roleRef
             /\ p.subjects = subjects
<1> DEFINE p == [o EXCEPT !.subjects = subjects]
<1>1. p = [api |-> o.api, kind |-> o.kind, ns |-> o.ns,
           name |-> o.name, group |-> o.group,
           versions |-> o.versions, hooks |-> o.hooks,
           roleRef |-> o.roleRef, subjects |-> subjects]
  BY ObjectFields
<1> HIDE DEF p
<1> QED
  BY <1>1, ObjectFields DEF p

(* An object with another roleRef is an object.                            *)
LEMMA NewRoleRef ==
  ASSUME NEW o \in Objects, NEW roleRef \in RoleRef \cup {Nil},
         roleRef = Nil <=> o.roleRef = Nil
  PROVE  LET p == [o EXCEPT !.roleRef = roleRef]
         IN  /\ p \in Objects
             /\ p.kind = o.kind /\ p.ns = o.ns /\ p.name = o.name
             /\ p.group = o.group /\ p.versions = o.versions
             /\ p.hooks = o.hooks /\ p.subjects = o.subjects
             /\ p.roleRef = roleRef
<1> DEFINE p == [o EXCEPT !.roleRef = roleRef]
<1>1. p = [api |-> o.api, kind |-> o.kind, ns |-> o.ns,
           name |-> o.name, group |-> o.group,
           versions |-> o.versions, hooks |-> o.hooks,
           roleRef |-> roleRef, subjects |-> o.subjects]
  BY ObjectFields
<1> HIDE DEF p
<1> QED
  BY <1>1, ObjectFields DEF p

(* A key is that of the kind, the namespace and the name.                  *)
LEMMA SameKey ==
  ASSUME NEW o, NEW p, o.kind = p.kind, o.ns = p.ns, o.name = p.name
  PROVE  applyKey(o) = applyKey(p)
BY Zenon DEF applyKey

(* The second part of a key is the kind.                                   *)
LEMMA KindOfKey ==
  ASSUME NEW o
  PROVE  applyKey(o)[2] = o.kind
<1> DEFINE first == IF o.kind \in Namespaced THEN o.ns ELSE ""
<1>1. applyKey(o) = <<first, o.kind, o.name>>
  BY Zenon DEF applyKey
<1> HIDE DEF first
<1> QED
  BY <1>1

(* An object with other versions is an object.                             *)
LEMMA NewVersions ==
  ASSUME NEW o \in Objects, NEW versions \in SUBSET STRING
  PROVE  LET p == [o EXCEPT !.versions = versions]
         IN  /\ p \in Objects
             /\ p.api = o.api /\ p.kind = o.kind
             /\ p.ns = o.ns /\ p.name = o.name /\ p.versions = versions
<1> DEFINE p == [o EXCEPT !.versions = versions]
<1>1. p = [api |-> o.api, kind |-> o.kind, ns |-> o.ns,
           name |-> o.name, group |-> o.group,
           versions |-> versions, hooks |-> o.hooks,
           roleRef |-> o.roleRef, subjects |-> o.subjects]
  BY ObjectFields
<1> HIDE DEF p
<1> QED
  BY <1>1, ObjectFields DEF p

(* A CRD is narrowed to v1beta2, without its conversion webhooks.          *)
LEMMA Narrowed ==
  ASSUME NEW o \in Objects
  PROVE  LET p == [o EXCEPT !.versions = {servedCAPIVersion}, !.hooks = <<>>]
         IN  /\ p \in Objects
             /\ p.api = o.api /\ p.kind = o.kind
             /\ p.ns = o.ns /\ p.name = o.name
             /\ p.hooks = <<>> /\ p.versions = {servedCAPIVersion}
<1> DEFINE q == [o EXCEPT !.versions = {servedCAPIVersion}]
           p == [o EXCEPT !.versions = {servedCAPIVersion}, !.hooks = <<>>]
<1>1. servedCAPIVersion \in STRING
  BY TextsAssumption, Zenon
<1>2. /\ q \in Objects /\ q.versions = {servedCAPIVersion}
      /\ q.api = o.api /\ q.kind = o.kind
      /\ q.ns = o.ns /\ q.name = o.name
  BY <1>1, NewVersions
<1>3. p = [q EXCEPT !.hooks = <<>>]
  OBVIOUS
<1>4. <<>> \in Seq(ClientConfig)
  OBVIOUS
<1> HIDE DEF q
<1>5. LET r == [q EXCEPT !.hooks = <<>>]
      IN  /\ r \in Objects /\ r.hooks = <<>> /\ r.versions = q.versions
          /\ r.api = q.api /\ r.kind = q.kind
          /\ r.ns = q.ns /\ r.name = q.name
  BY <1>2, <1>4, NewHooks, Zenon
<1> HIDE DEF p
<1> QED
  BY <1>2, <1>3, <1>5, Zenon DEF p

(* What is left of a CAPI CRD serves v1beta2 alone; no webhook is added.   *)
LEMMA RestrictedObjects ==
  ASSUME NEW objs \in Seq(Objects)
  PROVE  LET restricted == RestrictCAPIVersionsToV1Beta2(objs)
         IN  /\ restricted \in Seq(Objects)
             /\ \A o \in ToSet(restricted) :
                  /\ isCAPICRD(o) => o.versions \in {{servedCAPIVersion}, Nil}
                  /\ o.hooks = <<>> \/ o \in ToSet(objs)
<1> DEFINE narrowed(o) == isCAPICRD(o) /\ o.versions # Nil
           survives(o) == narrowed(o) => servedCAPIVersion \in o.versions
           restrict(o) == IF narrowed(o)
                          THEN [o EXCEPT !.versions = {servedCAPIVersion},
                                         !.hooks = <<>>]
                          ELSE o
           P          == {j \in DOMAIN objs : survives(objs[j])}
           survivors  == Selected(objs, P)
           restricted == [j \in DOMAIN survivors |-> restrict(survivors[j])]
<1>1. RestrictCAPIVersionsToV1Beta2(objs) = restricted
  BY DEF RestrictCAPIVersionsToV1Beta2
<1>2. ASSUME NEW o \in Objects
      PROVE  /\ restrict(o) \in Objects
             /\ isCAPICRD(restrict(o)) =>
                  restrict(o).versions \in {{servedCAPIVersion}, Nil}
             /\ restrict(o).hooks = <<>> \/ restrict(o) = o
  <2>1. CASE narrowed(o)
    <3>1. restrict(o) = [o EXCEPT !.versions = {servedCAPIVersion},
                                  !.hooks = <<>>]
      BY <2>1
    <3> HIDE DEF restrict
    <3> QED
      BY <3>1, Narrowed
  <2>2. CASE ~narrowed(o)
    BY <2>2
  <2> QED
    BY <2>1, <2>2
<1> HIDE DEF restrict, P
<1>3. /\ survivors \in Seq(Objects)
      /\ \A o \in ToSet(survivors) : o \in ToSet(objs)
  BY SelectedSubset
<1> HIDE DEF survivors
<1>4. /\ Len(survivors) \in Nat /\ DOMAIN survivors = 1..Len(survivors)
      /\ \A j \in DOMAIN survivors :
           survivors[j] \in Objects /\ survivors[j] \in ToSet(objs)
  BY <1>3, SequenceElements
<1>5. restricted \in Seq(Objects)
  BY <1>2, <1>4
<1>6. ASSUME NEW o \in ToSet(restricted)
      PROVE  \E p \in Objects : p \in ToSet(objs) /\ o = restrict(p)
  BY <1>4, <1>6 DEF ToSet
<1> HIDE DEF restricted
<1>7. ASSUME NEW o \in ToSet(restricted)
      PROVE  /\ isCAPICRD(o) => o.versions \in {{servedCAPIVersion}, Nil}
             /\ o.hooks = <<>> \/ o \in ToSet(objs)
  <2>1. PICK p \in Objects : p \in ToSet(objs) /\ o = restrict(p)
    BY <1>6
  <2> QED
    BY <1>2, <2>1
<1> QED
  BY <1>1, <1>5, <1>7

(* The webhooks of an object as they are vendored.                         *)
vendored(o) ==
  \A cc \in ToSet(o.hooks) : cc.url # Nil =>
    /\ cc.service = Nil
    /\ isLoopbackAuthority(cc.url.host)
    /\ cc.url.port = hypervisorWebhookPort

(* What setup has in memory of an image.                                   *)
LEMMA ImageObjects ==
  ASSUME NEW img \in Images
  PROVE  /\ img.objs \in Seq(Objects)
         /\ \A o \in ToSet(img.objs) :
              /\ o.kind \in KeptKinds
              /\ isCAPICRD(o) => o.versions \in {{servedCAPIVersion}, Nil}
              /\ vendored(o)
<1>1. PICK name \in DOMAIN Docs :
        img.objs = keepObjects(RestrictCAPIVersionsToV1Beta2(
                                 LoadDedupedObjects(Docs[name])))
  BY DEF Images
<1> DEFINE loaded     == LoadDedupedObjects(Docs[name])
           restricted == RestrictCAPIVersionsToV1Beta2(loaded)
<1>2. /\ loaded \in Seq(Objects)
      /\ \A o \in ToSet(loaded) : vendored(o)
  <2>1. Docs[name] \in Seq(Objects)
    BY DocsAssumption
  <2>2. /\ loaded \in Seq(Objects)
        /\ \A o \in ToSet(loaded) : o \in ToSet(Docs[name])
    BY <2>1, SelectedSubset DEF LoadDedupedObjects
  <2>3. \A o \in ToSet(Docs[name]) : vendored(o)
    BY VendoredURLsAssumption DEF vendored
  <2> QED
    BY <2>2, <2>3
<1> HIDE DEF loaded
<1>3. /\ restricted \in Seq(Objects)
      /\ \A o \in ToSet(restricted) :
           /\ isCAPICRD(o) => o.versions \in {{servedCAPIVersion}, Nil}
           /\ vendored(o)
  <2>1. \A o : o.hooks = <<>> => vendored(o)
    BY DEF vendored, ToSet
  <2> QED
    BY <1>2, <2>1, RestrictedObjects, Zenon
<1> HIDE DEF restricted
<1>4. /\ keepObjects(restricted) \in Seq(Objects)
      /\ \A o \in ToSet(keepObjects(restricted)) :
           o \in ToSet(restricted) /\ o.kind \in KeptKinds
  <2> DEFINE P == {j \in DOMAIN restricted : Keep(restricted[j])}
  <2>1. keepObjects(restricted) = Selected(restricted, P)
    BY DEF keepObjects
  <2>2. \A j \in P : restricted[j].kind \in KeptKinds
    BY DEF Keep
  <2> HIDE DEF P
  <2> QED
    BY <1>3, <2>1, <2>2, SelectedSubset
<1> QED
  BY <1>1, <1>3, <1>4 DEF loaded, restricted

(* Of the documents of one identity, the first is kept: none is lost.      *)
LEMMA FirstOfEach ==
  ASSUME NEW docs \in Seq(Objects), NEW o \in ToSet(docs)
  PROVE  \E p \in ToSet(LoadDedupedObjects(docs)) :
           p \in ToSet(docs) /\ objectIdentity(p) = objectIdentity(o)
<1> DEFINE same(j) == j \in DOMAIN docs
                        /\ objectIdentity(docs[j]) = objectIdentity(o)
           P == {j \in DOMAIN docs : \A m \in 1..(j - 1) :
                   objectIdentity(docs[m]) # objectIdentity(docs[j])}
           T == {n \in Nat : \A j \in 1..n : ~same(j)}
<1>1. LoadDedupedObjects(docs) = Selected(docs, P)
  BY DEF LoadDedupedObjects
<1>2. Len(docs) \in Nat /\ DOMAIN docs = 1..Len(docs)
  BY SequenceElements
<1>3. PICK last \in DOMAIN docs : same(last)
  BY SequenceElements
<1>4. 0 \in T
  OBVIOUS
<1>5. last \in Nat /\ last \notin T
  BY <1>2, <1>3
<1>6. PICK n \in Nat : n \in T /\ n + 1 \notin T
  <2>1. SUFFICES ASSUME \A n \in Nat : n \in T => n + 1 \in T PROVE FALSE
    OBVIOUS
  <2> HIDE DEF T
  <2> QED
    BY <1>4, <1>5, <2>1, InductionOnSet
<1>7. same(n + 1) /\ \A j \in 1..n : ~same(j)
  <2>1. \A j \in 1..(n + 1) : j \in 1..n \/ j = n + 1
    BY <1>6
  <2> QED
    BY <1>6, <2>1
<1> HIDE DEF same, T
<1>8. n + 1 \in P
  <2>1. n + 1 \in DOMAIN docs
        /\ objectIdentity(docs[n + 1]) = objectIdentity(o)
    BY <1>7 DEF same
  <2>2. (n + 1) - 1 = n
    BY <1>6
  <2>3. ASSUME NEW m \in 1..n
        PROVE  objectIdentity(docs[m]) # objectIdentity(o)
    <3>1. m \in DOMAIN docs
      BY <1>2, <1>6, <2>1
    <3> QED
      BY <1>7, <3>1 DEF same
  <2> QED
    BY <2>1, <2>2, <2>3
<1> HIDE DEF P
<1>9. docs[n + 1] \in ToSet(Selected(docs, P)) /\ docs[n + 1] \in ToSet(docs)
  <2>1. n + 1 \in P \cap DOMAIN docs
    BY <1>7, <1>8 DEF same
  <2> QED
    BY <2>1, SelectedSubset, SequenceElements
<1> QED
  BY <1>1, <1>7, <1>9 DEF same

(* Only a CAPI CRD whose versions are known to lack v1beta2 is dropped.    *)
LEMMA RestrictedKeeps ==
  ASSUME NEW objs \in Seq(Objects), NEW o \in ToSet(objs),
         isCAPICRD(o) /\ o.versions # Nil => servedCAPIVersion \in o.versions
  PROVE  \E p \in ToSet(RestrictCAPIVersionsToV1Beta2(objs)) :
           applyKey(p) = applyKey(o) /\ p.kind = o.kind /\ p.api = o.api
<1> DEFINE narrowed(x) == isCAPICRD(x) /\ x.versions # Nil
           survives(x) == narrowed(x) => servedCAPIVersion \in x.versions
           restrict(x) == IF narrowed(x)
                          THEN [x EXCEPT !.versions = {servedCAPIVersion},
                                         !.hooks = <<>>]
                          ELSE x
           P          == {j \in DOMAIN objs : survives(objs[j])}
           survivors  == Selected(objs, P)
           restricted == [j \in DOMAIN survivors |-> restrict(survivors[j])]
<1>1. RestrictCAPIVersionsToV1Beta2(objs) = restricted
  BY DEF RestrictCAPIVersionsToV1Beta2
<1>2. o \in ToSet(survivors) /\ survivors \in Seq(Objects) /\ o \in Objects
  <2>1. PICK j \in DOMAIN objs : o = objs[j]
    BY SequenceElements
  <2>2. j \in P \cap DOMAIN objs
    BY <2>1
  <2> HIDE DEF P
  <2> QED
    BY <2>1, <2>2, SelectedSubset, SequenceElements
<1> HIDE DEF survivors
<1>3. PICK j \in DOMAIN survivors : o = survivors[j]
  BY <1>2, SequenceElements
<1>4. restrict(o) \in ToSet(restricted)
  <2> HIDE DEF restrict
  <2> QED
    BY <1>3 DEF ToSet
<1>5. /\ applyKey(restrict(o)) = applyKey(o)
      /\ restrict(o).kind = o.kind /\ restrict(o).api = o.api
  <2>1. CASE narrowed(o)
    <3>1. restrict(o) = [o EXCEPT !.versions = {servedCAPIVersion},
                                  !.hooks = <<>>]
      BY <2>1
    <3> HIDE DEF restrict
    <3> QED
      BY <1>2, <3>1, Narrowed, SameKey
  <2>2. CASE ~narrowed(o)
    BY <2>2
  <2> QED
    BY <2>1, <2>2
<1> HIDE DEF restrict, restricted
<1> QED
  BY <1>1, <1>4, <1>5

(* An object of a kept kind is in the memory of setup, and so in the       *)
(* apiserver when it is ready, unless it is a CAPI CRD without v1beta2: no *)
(* document of the manifests is lost between loading and applying.         *)
THEOREM NothingLost ==
  ASSUME NEW name \in DOMAIN Docs, loadable(Docs[name]),
         NEW o \in ToSet(Docs[name]), Keep(o),
         isCAPICRD(o) /\ o.versions # Nil => servedCAPIVersion \in o.versions
  PROVE  \E img \in Images : /\ img.name = name /\ img.loads
                             /\ applyKey(o) \in KeysOf(img)
<1> DEFINE docs       == Docs[name]
           loaded     == LoadDedupedObjects(docs)
           restricted == RestrictCAPIVersionsToV1Beta2(loaded)
           kept0      == keepObjects(restricted)
           img        == [name |-> name, loads |-> loadable(docs),
                          objs |-> kept0]
<1>1. docs \in Seq(Objects)
  BY DocsAssumption
<1>2. o \in ToSet(loaded) /\ loaded \in Seq(Objects) /\ o \in Objects
  <2>1. PICK p \in ToSet(loaded) :
          p \in ToSet(docs) /\ objectIdentity(p) = objectIdentity(o)
    BY <1>1, FirstOfEach
  <2>2. p = o
    BY <2>1, Zenon DEF loadable
  <2>3. loaded \in Seq(Objects)
    BY <1>1, SelectedSubset DEF LoadDedupedObjects
  <2> QED
    BY <1>1, <2>1, <2>2, <2>3, SequenceElements
<1> HIDE DEF loaded
<1>3. \E p \in ToSet(restricted) : /\ applyKey(p) = applyKey(o)
                                   /\ p.kind = o.kind /\ p.api = o.api
  BY <1>2, RestrictedKeeps
<1>4. restricted \in Seq(Objects)
  BY <1>2, RestrictedObjects
<1> HIDE DEF restricted
<1>5. \E p \in ToSet(kept0) : applyKey(p) = applyKey(o)
  <2>1. PICK p \in ToSet(restricted) : /\ applyKey(p) = applyKey(o)
                                       /\ p.kind = o.kind /\ p.api = o.api
    BY <1>3
  <2>2. Keep(p)
    BY <2>1 DEF Keep
  <2>3. PICK j \in DOMAIN restricted : p = restricted[j]
    BY <1>4, SequenceElements
  <2> DEFINE Q == {m \in DOMAIN restricted : Keep(restricted[m])}
  <2>4. j \in Q \cap DOMAIN restricted
    BY <2>2, <2>3
  <2>5. kept0 = Selected(restricted, Q)
    BY DEF keepObjects
  <2> HIDE DEF Q
  <2> QED
    BY <1>4, <2>1, <2>3, <2>4, <2>5, SelectedSubset
<1>6. img \in Images
  BY Zenon DEF Images, loaded, restricted
<1> HIDE DEF kept0
<1>7. img.name = name /\ img.loads /\ img.objs = kept0
  OBVIOUS
<1> HIDE DEF img
<1>8. applyKey(o) \in KeysOf(img)
  BY <1>5, <1>7 DEF KeysOf
<1> QED
  BY <1>6, <1>7, <1>8

-----------------------------------------------------------------------------
(* The bindings *)

(* The empty text has a name here: the SMT backend refuses its literal.    *)
noText == ""

(* The texts setup writes.                                                 *)
LEMMA Texts ==
  /\ noText \in STRING /\ "v1" \in STRING /\ "User" \in STRING
  /\ "capishim-admin" \in STRING /\ "cluster-admin" \in STRING
  /\ clusterBinding \in STRING /\ podCA \in STRING /\ adminCN \in STRING
<1> DEFINE texts == {podCA, adminCN, servedCAPIVersion, clusterBinding, noText,
                     "v1", "User", "capishim-admin", "cluster-admin"}
<1>1. texts \subseteq STRING
  BY TextsAssumption, Zenon DEF noText
<1>2. /\ podCA \in texts /\ adminCN \in texts /\ clusterBinding \in texts
      /\ noText \in texts /\ "v1" \in texts /\ "User" \in texts
      /\ "capishim-admin" \in texts /\ "cluster-admin" \in texts
  OBVIOUS
<1> QED
  BY <1>1, <1>2

(* Only ServiceAccounts are replaced, and none of them is left.            *)
LEMMA RewrittenSubjects ==
  ASSUME NEW subjects \in SUBSET Subject,
         \A s \in subjects :
           s.kind = "ServiceAccount" => s.ns \in DOMAIN ManagerCNByNamespace
  PROVE  /\ rewriteSubjects(subjects) \in SUBSET Subject
         /\ \A s \in rewriteSubjects(subjects) : s.kind # "ServiceAccount"
<1> DEFINE user(s) == [kind |-> "User", ns |-> noText,
                       name |-> ManagerCNByNamespace[s.ns]]
<1>1. rewriteSubjects(subjects) =
        {IF s.kind = "ServiceAccount" THEN user(s) ELSE s : s \in subjects}
  BY Zenon DEF rewriteSubjects, noText
<1>2. ASSUME NEW s \in subjects, s.kind = "ServiceAccount"
      PROVE  user(s) \in Subject /\ user(s).kind # "ServiceAccount"
  <2>1. ManagerCNByNamespace[s.ns] \in STRING
    BY <1>2, NamespaceMaps
  <2>2. noText \in STRING /\ "User" \in STRING
    BY Texts
  <2> QED
    BY <2>1, <2>2 DEF Subject
<1> HIDE DEF user
<1> QED
  BY <1>1, <1>2

(* Two fields of a record are set.                                         *)
LEMMA BoundFields ==
  ASSUME NEW o, NEW roleRef, NEW subjects,
         o = [api |-> o.api, kind |-> o.kind, ns |-> o.ns,
              name |-> o.name, group |-> o.group,
              versions |-> o.versions, hooks |-> o.hooks,
              roleRef |-> o.roleRef, subjects |-> o.subjects]
  PROVE  [o EXCEPT !.roleRef = roleRef, !.subjects = subjects] =
           [api |-> o.api, kind |-> o.kind, ns |-> o.ns,
            name |-> o.name, group |-> o.group,
            versions |-> o.versions, hooks |-> o.hooks,
            roleRef |-> roleRef, subjects |-> subjects]
<1> DEFINE p == [o EXCEPT !.roleRef = roleRef]
<1>1. p = [api |-> o.api, kind |-> o.kind, ns |-> o.ns,
           name |-> o.name, group |-> o.group,
           versions |-> o.versions, hooks |-> o.hooks,
           roleRef |-> roleRef, subjects |-> o.subjects]
  OBVIOUS
<1>2. [o EXCEPT !.roleRef = roleRef, !.subjects = subjects] =
        [p EXCEPT !.subjects = subjects]
  OBVIOUS
<1> HIDE DEF p
<1>3. [p EXCEPT !.subjects = subjects] =
        [api |-> o.api, kind |-> o.kind, ns |-> o.ns,
         name |-> o.name, group |-> o.group,
         versions |-> o.versions, hooks |-> o.hooks,
         roleRef |-> roleRef, subjects |-> subjects]
  BY <1>1
<1> QED
  BY <1>2, <1>3

(* The binding of the admin identity.                                      *)
LEMMA AdminBinding ==
  LET admin == AdminClusterRoleBinding(adminCN)
  IN  /\ admin \in Objects
      /\ admin.kind = clusterBinding
      /\ effective(admin)
<1> DEFINE roleRef  == [prefix |-> "cluster-admin", aggregated |-> FALSE]
           subjects == {[kind |-> "User", ns |-> noText, name |-> adminCN]}
           plainObject == [api |-> "v1", kind |-> clusterBinding, ns |-> noText,
                     name |-> "capishim-admin", group |-> noText,
                     versions |-> Nil, hooks |-> <<>>,
                     roleRef |-> Nil, subjects |-> {}]
           admin == [plainObject EXCEPT !.roleRef = roleRef,
                                        !.subjects = subjects]
<1>1. AdminClusterRoleBinding(adminCN) = admin
  BY Zenon DEF AdminClusterRoleBinding, Object, noText
<1>2. roleRef \in RoleRef /\ roleRef.aggregated = FALSE
  BY Texts DEF RoleRef
<1>3. /\ subjects \in SUBSET Subject
      /\ \A s \in subjects : s.kind # "ServiceAccount"
  BY Texts DEF Subject
<1> HIDE DEF roleRef, subjects
<1>4. /\ plainObject.api = "v1" /\ plainObject.kind = clusterBinding
      /\ plainObject.ns = noText /\ plainObject.name = "capishim-admin"
      /\ plainObject.group = noText /\ plainObject.versions = Nil
      /\ plainObject.hooks = <<>> /\ plainObject.roleRef = Nil
      /\ plainObject.subjects = {}
  OBVIOUS
<1>5. plainObject = [api |-> plainObject.api, kind |-> plainObject.kind,
                     ns |-> plainObject.ns, name |-> plainObject.name,
                     group |-> plainObject.group,
                     versions |-> plainObject.versions,
                     hooks |-> plainObject.hooks,
                     roleRef |-> plainObject.roleRef,
                     subjects |-> plainObject.subjects]
  OBVIOUS
<1> HIDE DEF plainObject
<1>6. admin = [api |-> plainObject.api, kind |-> plainObject.kind,
               ns |-> plainObject.ns, name |-> plainObject.name,
               group |-> plainObject.group,
               versions |-> plainObject.versions,
               hooks |-> plainObject.hooks,
               roleRef |-> roleRef, subjects |-> subjects]
  BY <1>5, BoundFields, Zenon
<1> HIDE DEF admin
<1>7. /\ admin.api = "v1" /\ admin.kind = clusterBinding
      /\ admin.ns = noText /\ admin.name = "capishim-admin"
      /\ admin.group = noText /\ admin.versions = Nil /\ admin.hooks = <<>>
      /\ admin.roleRef = roleRef /\ admin.subjects = subjects
  BY <1>4, <1>6
<1>8. roleRef # Nil /\ clusterBinding \in RBACBindings
  BY <1>2, RoleRefAssumption DEF RBACBindings, clusterBinding
<1>9. <<>> \in Seq(ClientConfig)
  OBVIOUS
<1>10. admin \in Objects
  BY <1>2, <1>3, <1>6, <1>7, <1>8, <1>9, Texts, ObjectFields
<1>11. effective(admin)
  BY <1>2, <1>3, <1>7 DEF effective
<1> QED
  BY <1>1, <1>7, <1>10, <1>11

(* What RewriteRBACSubjects makes of one object.                           *)
rebound(o) ==
  IF o.kind = clusterBinding
  THEN [o EXCEPT !.subjects = rewriteSubjects(o.subjects),
                 !.roleRef = redirectAggregatedManagerRoleRef(o.roleRef)]
  ELSE IF o.kind = "RoleBinding"
  THEN [o EXCEPT !.subjects = rewriteSubjects(o.subjects)]
  ELSE o

(* A rewritten binding is effective and keeps its key; what is no binding  *)
(* stays as it is.                                                         *)
LEMMA Rebound ==
  ASSUME NEW o \in Objects,
         o.kind \in RBACBindings => \A s \in o.subjects :
           s.kind = "ServiceAccount" => s.ns \in DOMAIN ManagerCNByNamespace
  PROVE  LET p == rebound(o)
         IN  /\ p \in Objects
             /\ p.kind = o.kind /\ p.ns = o.ns /\ p.name = o.name
             /\ o.kind \in RBACBindings => effective(p)
             /\ o.kind \notin RBACBindings => p = o
<1> DEFINE subjects == rewriteSubjects(o.subjects)
           roleRef  == redirectAggregatedManagerRoleRef(o.roleRef)
           q == [o EXCEPT !.subjects = subjects]
           r == [q EXCEPT !.roleRef = roleRef]
<1>0. /\ RBACBindings = {clusterBinding, "RoleBinding"}
      /\ clusterBinding # "RoleBinding"
  BY DEF RBACBindings, clusterBinding
<1>1. CASE o.kind \notin RBACBindings
  BY <1>0, <1>1 DEF rebound
<1>2. CASE o.kind \in RBACBindings
  <2>1. /\ subjects \in SUBSET Subject
        /\ \A s \in subjects : s.kind # "ServiceAccount"
    BY <1>2, RewrittenSubjects, ObjectFields
  <2>2. o.roleRef \in RoleRef
    BY <1>2, ObjectFields
  <2>3. roleRef \in RoleRef /\ roleRef.aggregated = FALSE
    <3>1. roleRef = [o.roleRef EXCEPT !.aggregated = FALSE]
      BY <2>2, RoleRefAssumption, Zenon DEF redirectAggregatedManagerRoleRef
    <3> QED
      BY <2>2, <3>1 DEF RoleRef
  <2> HIDE DEF subjects, roleRef
  <2>4. /\ q \in Objects
        /\ q.kind = o.kind /\ q.ns = o.ns /\ q.name = o.name
        /\ q.roleRef = o.roleRef /\ q.subjects = subjects
    BY <2>1, NewSubjects, Zenon
  <2> HIDE DEF q
  <2>5. roleRef # Nil /\ q.roleRef # Nil
    BY <2>2, <2>3, <2>4, RoleRefAssumption
  <2>6. /\ r \in Objects
        /\ r.kind = o.kind /\ r.ns = o.ns /\ r.name = o.name
        /\ r.roleRef = roleRef /\ r.subjects = subjects
    <3>1. roleRef \in RoleRef \cup {Nil}
      BY <2>3
    <3> QED
      BY <2>4, <2>5, <3>1, NewRoleRef, Zenon
  <2> HIDE DEF r
  <2>7. CASE o.kind = clusterBinding
    <3>1. rebound(o) = r
      <4>1. rebound(o) = [o EXCEPT !.subjects = subjects, !.roleRef = roleRef]
        BY <2>7, Zenon DEF rebound, subjects, roleRef
      <4>2. [o EXCEPT !.subjects = subjects, !.roleRef = roleRef] = 
              [[o EXCEPT !.subjects = subjects] EXCEPT !.roleRef = roleRef]
        OBVIOUS
      <4> QED
        BY <4>1, <4>2, Zenon DEF q, r
    <3>2. effective(r)
      BY <2>1, <2>3, <2>6 DEF effective
    <3> QED
      BY <1>2, <2>6, <3>1, <3>2
  <2>8. CASE o.kind = "RoleBinding"
    <3>1. rebound(o) = q
      BY <1>0, <2>8, Zenon DEF rebound, subjects, q
    <3>2. effective(q)
      BY <1>0, <2>1, <2>4, <2>8 DEF effective
    <3> QED
      BY <1>2, <2>4, <3>1, <3>2
  <2> QED
    BY <1>0, <1>2, <2>7, <2>8
<1> QED
  BY <1>1, <1>2

(* The second apply has every object of the image, with effective          *)
(* bindings, and the binding of the admin identity.                        *)
LEMMA RBACObjects ==
  ASSUME NEW objs \in Seq(Objects), bindable(objs)
  PROVE  /\ rbacObjects(objs) \in Seq(Objects)
         /\ \A p \in ToSet(rbacObjects(objs)) :
              /\ p.kind \in RBACBindings => effective(p)
              /\ \E o \in ToSet(objs) \cup {AdminClusterRoleBinding(adminCN)} :
                   /\ applyKey(p) = applyKey(o) /\ p.kind = o.kind
                   /\ o.kind \notin RBACBindings => p = o
         /\ \A o \in ToSet(objs) \cup {AdminClusterRoleBinding(adminCN)} :
              \E p \in ToSet(rbacObjects(objs)) :
                /\ applyKey(p) = applyKey(o) /\ p.kind = o.kind
                /\ o.kind \notin RBACBindings => p = o
<1> DEFINE admin     == AdminClusterRoleBinding(adminCN)
           rewritten == RewriteRBACSubjects(objs)
           matches(p, o) == /\ applyKey(p) = applyKey(o) /\ p.kind = o.kind
                            /\ o.kind \notin RBACBindings => p = o
<1>1. rewritten = [j \in DOMAIN objs |-> rebound(objs[j])]
  BY Zenon DEF RewriteRBACSubjects, rebound
<1>2. admin \in Objects /\ admin.kind = clusterBinding /\ effective(admin)
  BY AdminBinding
<1>3. rbacObjects(objs) = Append(rewritten, admin)
  BY DEF rbacObjects
<1>4. /\ Len(objs) \in Nat /\ DOMAIN objs = 1..Len(objs)
      /\ \A j \in DOMAIN objs : objs[j] \in Objects /\ objs[j] \in ToSet(objs)
      /\ \A o \in ToSet(objs) : \E j \in DOMAIN objs : o = objs[j]
  BY SequenceElements
<1>5. ASSUME NEW j \in DOMAIN objs
      PROVE  /\ rebound(objs[j]) \in Objects
             /\ matches(rebound(objs[j]), objs[j])
             /\ rebound(objs[j]).kind \in RBACBindings =>
                  effective(rebound(objs[j]))
  <2>1. LET p == rebound(objs[j])
        IN  /\ p \in Objects
            /\ p.kind = objs[j].kind /\ p.ns = objs[j].ns
            /\ p.name = objs[j].name
            /\ objs[j].kind \in RBACBindings => effective(p)
            /\ objs[j].kind \notin RBACBindings => p = objs[j]
    BY <1>4, Rebound, Zenon DEF bindable
  <2> QED
    BY <2>1, SameKey, Zenon
<1> HIDE DEF rewritten, admin
<1>6. /\ rewritten \in Seq(Objects)
      /\ DOMAIN rewritten = DOMAIN objs
      /\ \A j \in DOMAIN objs : rewritten[j] = rebound(objs[j])
  BY <1>1, <1>4, <1>5
<1>7. /\ rbacObjects(objs) \in Seq(Objects)
      /\ ToSet(rbacObjects(objs)) = ToSet(rewritten) \cup {admin}
  BY <1>2, <1>3, <1>6, AppendElements
<1>8. /\ \A p \in ToSet(rewritten) : \E j \in DOMAIN objs : p = rebound(objs[j])
      /\ \A j \in DOMAIN objs : rebound(objs[j]) \in ToSet(rewritten)
  BY <1>6 DEF ToSet
<1>9. matches(admin, admin)
  BY <1>2
<1> HIDE DEF matches
<1>10. \A p \in ToSet(rbacObjects(objs)) :
         /\ p.kind \in RBACBindings => effective(p)
         /\ \E o \in ToSet(objs) \cup {admin} : matches(p, o)
  BY <1>2, <1>4, <1>5, <1>7, <1>8, <1>9
<1>11. \A o \in ToSet(objs) \cup {admin} :
         \E p \in ToSet(rbacObjects(objs)) : matches(p, o)
  BY <1>4, <1>5, <1>7, <1>8, <1>9
<1> QED
  BY <1>7, <1>10, <1>11, Zenon DEF matches, admin

-----------------------------------------------------------------------------
(* The webhooks *)

(* A configured host is one, and the rewrite uses it.                      *)
LEMMA ExternalHost ==
  ASSUME NEW h \in ExternalHosts
  PROVE  /\ h \in Hosts
         /\ WithExternalWebhookHost(h).host = h
         /\ WithExternalWebhookHost(h).ports = {hypervisorWebhookPort}
         /\ active(WithExternalWebhookHost(h))
<1>1. h \in Hosts /\ h # noText
  BY ExternalHostsAssumption, Zenon DEF noText
<1>2. /\ WithExternalWebhookHost(h).host = h
      /\ WithExternalWebhookHost(h).ports = {hypervisorWebhookPort}
  BY DEF WithExternalWebhookHost
<1>3. active(WithExternalWebhookHost(h)) <=> h # noText
  BY <1>2, Zenon DEF active, noText
<1> QED
  BY <1>1, <1>2, <1>3

(* reachable, for another host than the configured one.                    *)
reachableFrom(h, cc) ==
  /\ cc.service = Nil
  /\ cc.ca = podCA
  /\ \/ cc.url.host = "localhost"
        /\ \E spec \in Managers : ~spec.external /\ spec.port = cc.url.port
     \/ cc.url.host = h /\ cc.url.port = hypervisorWebhookPort

(* What is vendored and can be rewritten is reachable afterwards.          *)
LEMMA RewrittenHook ==
  ASSUME NEW h \in ExternalHosts, NEW cc \in ClientConfig,
         cc.url # Nil => /\ cc.service = Nil
                         /\ isLoopbackAuthority(cc.url.host)
                         /\ cc.url.port = hypervisorWebhookPort,
         rewritable(cc, RewriteWebhookPortsByNamespace, podCA,
                    WithExternalWebhookHost(h))
  PROVE  LET new == rewriteByNamespace(cc, RewriteWebhookPortsByNamespace,
                                       podCA, WithExternalWebhookHost(h))
         IN  new \in ClientConfig /\ reachableFrom(h, new)
<1> DEFINE ports == RewriteWebhookPortsByNamespace
           ext   == WithExternalWebhookHost(h)
           new   == rewriteByNamespace(cc, ports, podCA, ext)
<1>1. /\ ext.host = h /\ ext.ports = {hypervisorWebhookPort}
      /\ active(ext) /\ h \in Hosts
  BY ExternalHost
<1>2. podCA \in STRING
  BY Texts
<1> HIDE DEF ext
<1>3. CASE cc.url # Nil
  <2>1. cc.url \in URL /\ cc.url.port \in Nat /\ cc.url.path \in STRING
    BY <1>3 DEF ClientConfig, URL
  <2>2. redirected(cc, ext)
    BY <1>1, <1>3 DEF redirected
  <2>3. new = [service |-> Nil,
               url |-> [host |-> h, port |-> cc.url.port, path |-> cc.url.path],
               ca |-> podCA]
    BY <1>1, <1>3, <2>2, Zenon DEF rewriteByNamespace, rewriteLoopbackURL
  <2> HIDE DEF new
  <2>4. new \in ClientConfig
    BY <1>1, <1>2, <2>1, <2>3 DEF ClientConfig, URL
  <2>5. reachableFrom(h, new)
    BY <1>3, <2>3 DEF reachableFrom
  <2> QED
    BY <2>4, <2>5 DEF new, ext
<1>4. CASE cc.url = Nil
  <2>1. ~redirected(cc, ext)
    BY <1>4 DEF redirected
  <2>2. cc.service # Nil /\ cc.service.ns \in DOMAIN ports
    BY <1>4, <2>1, Zenon DEF rewritable, ext
  <2>3. cc.service \in Service /\ cc.service.path \in STRING
    BY <2>2 DEF ClientConfig, Service
  <2> DEFINE port == ports[cc.service.ns]
  <2>4. /\ port \in Nat
        /\ \E spec \in Managers : ~spec.external /\ spec.port = port
    BY <2>2, NamespaceMaps
  <2>5. new = [service |-> Nil,
               url |-> [host |-> "localhost", port |-> port,
                        path |-> cc.service.path],
               ca |-> podCA]
    BY <2>1, <2>2, Zenon
       DEF rewriteByNamespace, RewriteClientConfig, portForClientConfig
  <2> HIDE DEF new, port
  <2>6. new \in ClientConfig
    BY <1>2, <2>3, <2>4, <2>5, HostsAssumption DEF ClientConfig, URL
  <2>7. reachableFrom(h, new)
    BY <2>4, <2>5 DEF reachableFrom
  <2> QED
    BY <2>6, <2>7 DEF new, ext
<1> QED
  BY <1>3, <1>4

(* An object and what the third apply makes of it.                         *)
rehooked(h, o) ==
  [o EXCEPT !.hooks =
     [n \in DOMAIN o.hooks |->
        rewriteByNamespace(o.hooks[n], RewriteWebhookPortsByNamespace, podCA,
                           WithExternalWebhookHost(h))]]

(* A rewritten webhook object keeps its key, and all of it is reachable.   *)
LEMMA Rehooked ==
  ASSUME NEW h \in ExternalHosts, NEW o \in Objects, vendored(o),
         \A cc \in ToSet(o.hooks) :
           rewritable(cc, RewriteWebhookPortsByNamespace, podCA,
                      WithExternalWebhookHost(h))
  PROVE  LET p == rehooked(h, o)
         IN  /\ p \in Objects
             /\ p.kind = o.kind /\ p.ns = o.ns /\ p.name = o.name
             /\ p.group = o.group /\ p.versions = o.versions
             /\ \A cc \in ToSet(p.hooks) : reachableFrom(h, cc)
<1> DEFINE new(cc) == rewriteByNamespace(cc, RewriteWebhookPortsByNamespace,
                                         podCA, WithExternalWebhookHost(h))
           hooks == [n \in DOMAIN o.hooks |-> new(o.hooks[n])]
<1>1. /\ Len(o.hooks) \in Nat /\ DOMAIN o.hooks = 1..Len(o.hooks)
      /\ \A n \in DOMAIN o.hooks :
           o.hooks[n] \in ClientConfig /\ o.hooks[n] \in ToSet(o.hooks)
  BY ObjectFields, SequenceElements
<1>2. \A n \in DOMAIN o.hooks : /\ new(o.hooks[n]) \in ClientConfig
                                /\ reachableFrom(h, new(o.hooks[n]))
  BY <1>1, RewrittenHook, Zenon DEF vendored
<1> HIDE DEF new
<1>3. hooks \in Seq(ClientConfig)
  BY <1>1, <1>2
<1>4. hooks # <<>> => o.kind \in WebhookKinds
  <2>1. o.hooks = <<>> => hooks = <<>>
    OBVIOUS
  <2> QED
    BY <2>1, ObjectFields
<1>5. \A cc \in ToSet(hooks) : reachableFrom(h, cc)
  BY <1>2 DEF ToSet
<1>6. rehooked(h, o) = [o EXCEPT !.hooks = hooks]
  BY Zenon DEF rehooked, new
<1> HIDE DEF hooks
<1>7. LET p == [o EXCEPT !.hooks = hooks]
      IN  /\ p \in Objects
          /\ p.kind = o.kind /\ p.ns = o.ns /\ p.name = o.name
          /\ p.group = o.group /\ p.versions = o.versions
          /\ p.hooks = hooks
  BY <1>3, <1>4, NewHooks, Zenon
<1> QED
  BY <1>5, <1>6, <1>7, Zenon

(* The third apply has the webhook objects of the image, all reachable.    *)
LEMMA WebhookBatch ==
  ASSUME NEW h \in ExternalHosts, NEW objs \in Seq(Objects),
         \A o \in ToSet(objs) : vendored(o), webhooksRewritable(objs, h)
  PROVE  /\ rewrittenWebhooks(objs, h) \in Seq(Objects)
         /\ \A p \in ToSet(rewrittenWebhooks(objs, h)) :
              /\ p.kind \in WebhookKinds
              /\ \A cc \in ToSet(p.hooks) : reachableFrom(h, cc)
              /\ \E o \in ToSet(objs) :
                   /\ applyKey(p) = applyKey(o) /\ p.kind = o.kind
                   /\ p.group = o.group /\ p.versions = o.versions
         /\ \A o \in ToSet(objs) : o.kind \in WebhookKinds =>
              \E p \in ToSet(rewrittenWebhooks(objs, h)) :
                applyKey(p) = applyKey(o)
<1> DEFINE webhooks == WebhookObjects(objs)
           new      == rewrittenWebhooks(objs, h)
           of(p, o) == /\ applyKey(p) = applyKey(o) /\ p.kind = o.kind
                       /\ p.group = o.group /\ p.versions = o.versions
<1>1. /\ webhooks \in Seq(Objects)
      /\ \A o \in ToSet(webhooks) : o \in ToSet(objs) /\ o.kind \in WebhookKinds
      /\ \A o \in ToSet(objs) : o.kind \in WebhookKinds => o \in ToSet(webhooks)
  <2> DEFINE P == {j \in DOMAIN objs : objs[j].kind \in WebhookKinds}
  <2>1. webhooks = Selected(objs, P)
    BY DEF WebhookObjects
  <2>2. \A j \in P \cap DOMAIN objs : objs[j].kind \in WebhookKinds
    OBVIOUS
  <2>3. \A o \in ToSet(objs) : o.kind \in WebhookKinds =>
          \E j \in P \cap DOMAIN objs : o = objs[j]
    BY SequenceElements
  <2> HIDE DEF P, webhooks
  <2> QED
    BY <2>1, <2>2, <2>3, SelectedSubset
<1>2. /\ Len(webhooks) \in Nat /\ DOMAIN webhooks = 1..Len(webhooks)
      /\ \A j \in DOMAIN webhooks :
           webhooks[j] \in Objects /\ webhooks[j] \in ToSet(webhooks)
      /\ \A o \in ToSet(webhooks) : \E j \in DOMAIN webhooks : o = webhooks[j]
  BY <1>1, SequenceElements
<1>3. new = [j \in DOMAIN webhooks |-> rehooked(h, webhooks[j])]
  BY Zenon DEF rewrittenWebhooks, RewriteAll, rehooked
<1>4. ASSUME NEW o \in ToSet(webhooks)
      PROVE  /\ rehooked(h, o) \in Objects
             /\ of(rehooked(h, o), o)
             /\ rehooked(h, o).kind \in WebhookKinds
             /\ \A cc \in ToSet(rehooked(h, o).hooks) : reachableFrom(h, cc)
  <2>1. o \in Objects /\ vendored(o) /\ o.kind \in WebhookKinds
    BY <1>1, <1>2
  <2>2. \A cc \in ToSet(o.hooks) :
          rewritable(cc, RewriteWebhookPortsByNamespace, podCA,
                     WithExternalWebhookHost(h))
    BY Zenon DEF webhooksRewritable, allRewritable
  <2>3. LET p == rehooked(h, o)
        IN  /\ p \in Objects
            /\ p.kind = o.kind /\ p.ns = o.ns /\ p.name = o.name
            /\ p.group = o.group /\ p.versions = o.versions
            /\ \A cc \in ToSet(p.hooks) : reachableFrom(h, cc)
    BY <2>1, <2>2, Rehooked, Zenon
  <2> QED
    BY <2>1, <2>3, SameKey, Zenon
<1> HIDE DEF webhooks, new
<1>5. /\ new \in Seq(Objects)
      /\ DOMAIN new = DOMAIN webhooks
      /\ \A j \in DOMAIN webhooks : new[j] = rehooked(h, webhooks[j])
  BY <1>2, <1>3, <1>4
<1>6. /\ \A p \in ToSet(new) : \E o \in ToSet(webhooks) : p = rehooked(h, o)
      /\ \A o \in ToSet(webhooks) : rehooked(h, o) \in ToSet(new)
  BY <1>2, <1>5 DEF ToSet
<1> HIDE DEF of
<1>7. \A p \in ToSet(new) :
        /\ p.kind \in WebhookKinds
        /\ \A cc \in ToSet(p.hooks) : reachableFrom(h, cc)
        /\ \E o \in ToSet(objs) : of(p, o)
  BY <1>1, <1>4, <1>6
<1>8. \A o \in ToSet(objs) : o.kind \in WebhookKinds =>
        \E p \in ToSet(new) : applyKey(p) = applyKey(o)
  BY <1>1, <1>4, <1>6 DEF of
<1> QED
  BY <1>5, <1>7, <1>8, Zenon DEF new, of

-----------------------------------------------------------------------------
(* What Apply is called with *)

(* The kinds of bindings and webhooks are not those of one another.        *)
LEMMA Kinds ==
  /\ RBACBindings \cap WebhookKinds = {}
  /\ clusterBinding \in RBACBindings
  /\ "CustomResourceDefinition" \in WebhookKinds \ Namespaced
BY DEF RBACBindings, WebhookKinds, Namespaced, clusterBinding

(* The keys of an image are keys of the apiserver, as are those of its     *)
(* CRDs.                                                                   *)
LEMMA ImageKeys ==
  ASSUME NEW img \in Images
  PROVE  KeysOf(img) \subseteq Keys /\ CRDsOf(img) \subseteq CRDs
BY Zenon DEF Keys, CRDs

(* The key by which the apiserver finds a CRD is one of its keys.          *)
LEMMA CRDKeys ==
  \A name \in CRDs : crdKey(name) \in Keys
<1> SUFFICES ASSUME NEW name \in CRDs PROVE crdKey(name) \in Keys
  OBVIOUS
<1>1. PICK img \in Images : name \in CRDsOf(img)
  BY DEF CRDs
<1>2. PICK o \in ToSet(img.objs) :
        o.kind = "CustomResourceDefinition" /\ o.name = name
  BY <1>1 DEF CRDsOf, CrdNamesFrom
<1>3. o.kind \notin Namespaced
  BY <1>2, Kinds
<1>4. applyKey(o) = crdKey(name)
  BY <1>2, <1>3, Zenon DEF applyKey, crdKey
<1>5. applyKey(o) \in KeysOf(img)
  BY <1>2 DEF KeysOf
<1> QED
  BY <1>4, <1>5, ImageKeys

(* Bindings are applied by the second apply alone, and effective ones; the *)
(* third applies only webhooks.                                            *)
LEMMA BatchObjects ==
  ASSUME NEW img \in Images, NEW h \in ExternalHosts, NEW ph \in Phase,
         passed(img, h, ph)
  PROVE  /\ batchOf(img, h, ph) \in Seq(Objects)
         /\ \A o \in ToSet(batchOf(img, h, ph)) :
              /\ applyKey(o) \in KeysOf(img)
              /\ o.kind \in RBACBindings => ph = "rbac" /\ effective(o)
              /\ ph = "webhooks" => o.kind \in WebhookKinds
<1> DEFINE objs == img.objs
           admin == AdminClusterRoleBinding(adminCN)
<1>1. /\ objs \in Seq(Objects)
      /\ \A o \in ToSet(objs) : vendored(o) /\ applyKey(o) \in KeysOf(img)
      /\ applyKey(admin) \in KeysOf(img)
  BY ImageObjects DEF KeysOf
<1> HIDE DEF objs, admin
<1>2. CASE ph = "manifests"
  <2> DEFINE P == {j \in DOMAIN objs : objs[j].kind \notin RBACBindings}
  <2>1. batchOf(img, h, ph) = Selected(objs, P)
    BY <1>2 DEF batchOf, manifestObjects, WithoutRBACBindings, objs
  <2>2. \A j \in P \cap DOMAIN objs : objs[j].kind \notin RBACBindings
    OBVIOUS
  <2> HIDE DEF P
  <2> QED
    BY <1>1, <1>2, <2>1, <2>2, SelectedSubset
<1>3. CASE ph = "rbac"
  <2>1. bindable(objs)
    BY <1>3 DEF passed, objs
  <2>2. batchOf(img, h, ph) = rbacObjects(objs)
    BY <1>3 DEF batchOf, objs
  <2>3. /\ rbacObjects(objs) \in Seq(Objects)
        /\ \A p \in ToSet(rbacObjects(objs)) :
             /\ p.kind \in RBACBindings => effective(p)
             /\ \E o \in ToSet(objs) \cup {admin} : applyKey(p) = applyKey(o)
    BY <1>1, <2>1, RBACObjects DEF admin
  <2> QED
    BY <1>1, <1>3, <2>2, <2>3
<1>4. CASE ph = "webhooks"
  <2>1. webhooksRewritable(objs, h)
    BY <1>4 DEF passed, objs
  <2>2. batchOf(img, h, ph) = rewrittenWebhooks(objs, h)
    BY <1>4 DEF batchOf, objs
  <2>3. /\ rewrittenWebhooks(objs, h) \in Seq(Objects)
        /\ \A p \in ToSet(rewrittenWebhooks(objs, h)) :
             /\ p.kind \in WebhookKinds
             /\ \E o \in ToSet(objs) : applyKey(p) = applyKey(o)
    BY <1>1, <2>1, WebhookBatch
  <2> QED
    BY <1>1, <1>4, <2>2, <2>3, Kinds
<1> QED
  BY <1>2, <1>3, <1>4 DEF Phase

-----------------------------------------------------------------------------
(* What a step does to the apiserver *)

(* The object Apply is at is now in the apiserver; no other is changed.    *)
written ==
  /\ pc \in {"create", "update"} /\ i \in DOMAIN batch
  /\ key \in Keys
  /\ store' \in [Keys -> Entry \cup {Nil}]
  /\ store'[key] # Nil /\ store'[key].obj = batch[i]
  /\ \A k \in Keys : k # key => store'[k] = store[k]

(* The apiserver has the same objects, with other resourceVersions.        *)
touched ==
  /\ store' \in [Keys -> Entry \cup {Nil}]
  /\ \A k \in Keys : /\ store'[k] # Nil <=> store[k] # Nil
                     /\ store[k] # Nil => store'[k].obj = store[k].obj

(* The object Apply is at is an object with a key of the apiserver.        *)
LEMMA BatchElement ==
  ASSUME TypeOK, i \in DOMAIN batch
  PROVE  /\ batch[i] \in Objects /\ batch[i] \in ToSet(batch)
         /\ key \in Keys /\ key = applyKey(batch[i])
<1>1. batch \in Seq(Objects) /\ \A o \in ToSet(batch) : applyKey(o) \in Keys
  BY DEF TypeOK
<1>2. batch[i] \in Objects /\ batch[i] \in ToSet(batch)
  BY <1>1, SequenceElements
<1> QED
  BY <1>1, <1>2, Zenon DEF key

(* A creation writes the object Apply is at.                               *)
LEMMA CreateWrites ==
  ASSUME TypeOK, createNew
  PROVE  written
<1>1. i \in DOMAIN batch /\ pc = "create"
  BY DEF createNew, atObject
<1>2. batch[i] \in Objects /\ key \in Keys
  BY <1>1, BatchElement
<1> DEFINE new == [obj |-> batch[i], rv |-> 1]
<1>3. new \in Entry /\ new.obj = batch[i]
  BY <1>2 DEF Entry
<1>4. store' = [store EXCEPT ![key] = new]
  BY DEF createNew
<1>5. store \in [Keys -> Entry \cup {Nil}]
  BY DEF TypeOK
<1> HIDE DEF new
<1>6. new # Nil
  BY <1>3, EntryAssumption
<1> QED
  BY <1>1, <1>2, <1>3, <1>4, <1>5, <1>6 DEF written

(* So does an update, also one that changes nothing.                       *)
LEMMA UpdateWrites ==
  ASSUME TypeOK, MemoryInv, updateObject
  PROVE  written
<1>1. pc = "update" /\ i \in DOMAIN batch /\ store[key] # Nil
  BY DEF updateObject, TypeOK, MemoryInv
<1>2. batch[i] \in Objects /\ key \in Keys
  BY <1>1, BatchElement
<1> DEFINE new == [obj |-> batch[i], rv |-> seen + 1]
<1>3. new \in Entry /\ new.obj = batch[i]
  <2>1. seen \in Nat
    BY DEF TypeOK
  <2> QED
    BY <1>2, <2>1 DEF Entry
<1>4. store' = IF store[key].obj = batch[i] THEN store
               ELSE [store EXCEPT ![key] = new]
  BY DEF updateObject
<1>5. store \in [Keys -> Entry \cup {Nil}]
  BY DEF TypeOK
<1> HIDE DEF new
<1>6. new # Nil
  BY <1>3, EntryAssumption
<1>7. CASE store[key].obj = batch[i]
  BY <1>1, <1>2, <1>4, <1>5, <1>7 DEF written
<1>8. CASE store[key].obj # batch[i]
  BY <1>1, <1>2, <1>3, <1>4, <1>5, <1>6, <1>8 DEF written
<1> QED
  BY <1>7, <1>8

(* A status write changes no object.                                       *)
LEMMA StatusTouches ==
  ASSUME TypeOK, NEW name \in CRDs,
         store[crdKey(name)] # Nil, bumpRV(crdKey(name))
  PROVE  touched
<1> DEFINE k == crdKey(name)
           new == [store[k] EXCEPT !.rv = @ + 1]
<1>1. k \in Keys
  BY CRDKeys
<1> HIDE DEF k
<1>2. store \in [Keys -> Entry \cup {Nil}] /\ store[k] # Nil
  BY DEF TypeOK, k
<1>3. store[k] \in Entry
  BY <1>1, <1>2
<1>4. new \in Entry /\ new.obj = store[k].obj
  BY <1>3 DEF Entry
<1>5. store' = [store EXCEPT ![k] = new]
  BY DEF bumpRV, k
<1> HIDE DEF new
<1>6. new # Nil
  BY <1>4, EntryAssumption
<1> QED
  BY <1>1, <1>2, <1>4, <1>5, <1>6 DEF touched

-----------------------------------------------------------------------------
(* The initial states *)

(* There is an image to run setup from.                                    *)
LEMMA SomeImage ==
  Images # {} /\ \A img \in Images : img.objs \in Seq(Objects)
BY DocsAssumption, ImageObjects DEF Images

(* The invariant holds initially: nothing is applied, no run has been.     *)
THEOREM InitHolds == Init => IInv
<1> SUFFICES ASSUME Init PROVE IInv
  OBVIOUS
<1>1. image \in Images /\ host \in ExternalHosts
  BY SomeImage, ExternalHostsAssumption, Zenon DEF Init
<1>2. \A o : o \notin ToSet(<<>>)
  BY DEF ToSet
<1>3. store = [k \in Keys |-> Nil]
  BY DEF Init
<1>4. \A k \in Keys : store[k] = Nil
  BY <1>3
<1>5. store \in [Keys -> Entry \cup {Nil}]
  BY <1>3
<1>6. TypeOK
  <2>1. /\ kept = <<>> /\ batch = <<>> /\ images = {} /\ established = {}
        /\ kubeconfigs = {} /\ serving = FALSE /\ pc = "idle" /\ seen = 0
        /\ phase = "manifests" /\ result = "none"
        /\ runs = 0 /\ faults = 0 /\ writes = 0
    BY DEF Init
  <2>2. kept \in Seq(Objects) /\ batch \in Seq(Objects)
    BY <2>1
  <2>3. \A o \in ToSet(kept) \cup ToSet(batch) : applyKey(o) \in Keys
    BY <1>2, <2>1
  <2>4. /\ runs \in 0..MaxRuns /\ faults \in 0..MaxFaults
        /\ writes \in 0..MaxWrites
    BY <2>1, BoundsAssumption
  <2> QED
    BY <1>1, <1>4, <1>5, <2>1, <2>2, <2>3, <2>4 DEF TypeOK, Phase
<1>7. MemoryInv
  BY DEF Init, MemoryInv, inMemory, inApply
<1>8. ProgressInv
  BY DEF Init, ProgressInv, inMemory, inApply
<1>9. BindingsInv
  BY <1>4 DEF BindingsInv
<1>10. KubeconfigsInv /\ RoleRefRejectedOnUpgradeOnly
  BY DEF Init, KubeconfigsInv, RoleRefRejectedOnUpgradeOnly
<1> QED
  BY <1>6, <1>7, <1>8, <1>9, <1>10 DEF IInv

-----------------------------------------------------------------------------
(* The type invariant *)

(* What an apply begins with is objects with keys of the apiserver.        *)
LEMMA BatchAtBegin ==
  ASSUME TypeOK, passed(image, host, phase)
  PROVE  /\ batchOf(image, host, phase) \in Seq(Objects)
         /\ \A o \in ToSet(batchOf(image, host, phase)) : applyKey(o) \in Keys
<1>1. image \in Images /\ host \in ExternalHosts /\ phase \in Phase
  BY DEF TypeOK
<1> QED
  BY <1>1, BatchObjects, ImageKeys

(* A run ends with nothing in memory.                                      *)
LEMMA EndType ==
  ASSUME TypeOK, NEW how, End(how),
         how \in {"ready", "error", "killed", "conflict", "roleRef", "rewrite"},
         UNCHANGED <<api, kubeconfigs, runs, writes>>,
         faults' \in 0..MaxFaults
  PROVE  TypeOK'
<1>1. /\ kept' = <<>> /\ batch' = <<>> /\ pc' = "idle" /\ seen' = 0
      /\ phase' = "manifests" /\ result' = how
      /\ UNCHANGED <<store, established, serving, kubeconfigs, host, image,
                     images, runs, writes>>
  BY DEF End, api
<1>2. kept' \in Seq(Objects) /\ batch' \in Seq(Objects)
  BY <1>1
<1>3. ToSet(kept') = {} /\ ToSet(batch') = {}
  BY <1>1 DEF ToSet
<1> QED
  BY <1>1, <1>2, <1>3 DEF TypeOK, Phase

(* An apply begins, or is refused before its first call.                   *)
LEMMA ApplyType ==
  ASSUME TypeOK, passed(image, host, phase),
         Apply(batchOf(image, host, phase)), seen = 0,
         UNCHANGED <<api, kubeconfigs>>
  PROVE  TypeOK'
<1> DEFINE objs == batchOf(image, host, phase)
<1>1. objs \in Seq(Objects) /\ \A o \in ToSet(objs) : applyKey(o) \in Keys
  BY BatchAtBegin
<1>2. CASE applicable(objs)
  <2>1. /\ batch' = objs /\ pc' = "create" /\ i' = 1
        /\ UNCHANGED <<store, established, serving, kubeconfigs, phase, kept,
                       seen, host, image, images, result, runs, faults, writes>>
    BY <1>2 DEF Apply, inRun, api, bounds
  <2> HIDE DEF objs
  <2>2. Len(objs) \in Nat
    BY <1>1
  <2> QED
    BY <1>1, <2>1, <2>2 DEF TypeOK
<1>3. CASE ~applicable(objs)
  <2>1. End("error") /\ UNCHANGED bounds
    BY <1>3 DEF Apply
  <2>2. UNCHANGED <<runs, writes>> /\ faults' \in 0..MaxFaults
    BY <2>1 DEF bounds, TypeOK
  <2> QED
    BY <2>1, <2>2, EndType
<1> QED
  BY <1>2, <1>3

(* A written object has the key it is written at.                          *)
LEMMA WriteType ==
  ASSUME TypeOK, written, nextObject,
         UNCHANGED <<established, serving, kubeconfigs>>
  PROVE  TypeOK'
<1>1. batch[i] \in Objects /\ key = applyKey(batch[i])
  BY BatchElement DEF written
<1>2. /\ store' \in [Keys -> Entry \cup {Nil}]
      /\ \A k \in Keys : store'[k] # Nil => applyKey(store'[k].obj) = k
  BY <1>1 DEF written, TypeOK
<1>3. /\ i' = i + 1 /\ pc' = "create" /\ seen' = 0
      /\ UNCHANGED <<phase, kept, batch, host, image, images, result,
                     runs, faults, writes>>
  BY DEF nextObject, inRun, bounds
<1>4. i' \in 1..(Len(batch') + 1)
  <2>1. batch \in Seq(Objects) /\ i \in DOMAIN batch
    BY DEF TypeOK, written
  <2> QED
    BY <1>3, <2>1
<1> QED
  BY <1>2, <1>3, <1>4 DEF TypeOK

(* A status write leaves the types as they are.                            *)
LEMMA TouchType ==
  ASSUME TypeOK, touched, UNCHANGED <<serving, kubeconfigs, process>>,
         established' \subseteq CRDs,
         runs' \in 0..MaxRuns, faults' \in 0..MaxFaults,
         writes' \in 0..MaxWrites
  PROVE  TypeOK'
<1>1. /\ store' \in [Keys -> Entry \cup {Nil}]
      /\ \A k \in Keys : store'[k] # Nil => applyKey(store'[k].obj) = k
  BY DEF touched, TypeOK
<1>2. UNCHANGED <<pc, phase, kept, batch, i, seen, host, image, result, images>>
  BY DEF process
<1> QED
  BY <1>1, <1>2 DEF TypeOK

(* Every step keeps the types.                                             *)
LEMMA TypeStep ==
  ASSUME TypeOK, MemoryInv, [Next]_vars
  PROVE  TypeOK'
<1>1. ASSUME NEW h \in ExternalHosts, NEW img \in Images, Start(h, img)
      PROVE  TypeOK'
  <2>1. runs' \in 0..MaxRuns
    BY <1>1, BoundsAssumption DEF Start, TypeOK
  <2> QED
    BY <1>1, <2>1 DEF Start, TypeOK, api
<1>2. CASE generate
  BY <1>2 DEF generate, inRun, bounds, api, TypeOK
<1>3. CASE WaitForAPIServer
  BY <1>3 DEF WaitForAPIServer, inRun, bounds, api, TypeOK
<1>4. CASE load
  <2>1. CASE image.loads
    <3>1. /\ kept' = image.objs /\ pc' = "begin"
          /\ UNCHANGED <<store, established, serving, kubeconfigs, phase, batch,
                         i, seen, host, image, images, result, runs, faults,
                         writes>>
      BY <1>4, <2>1 DEF load, inRun, bounds, api
    <3>2. image.objs \in Seq(Objects)
      BY ImageObjects DEF TypeOK
    <3>3. \A o \in ToSet(image.objs) : applyKey(o) \in Keys
      BY ImageKeys DEF TypeOK, KeysOf
    <3> QED
      BY <3>1, <3>2, <3>3 DEF TypeOK
  <2>2. CASE ~image.loads
    <3>1. /\ End("error")
          /\ UNCHANGED <<api, kubeconfigs, runs, writes>>
          /\ faults' \in 0..MaxFaults
      BY <1>4, <2>2 DEF load, bounds, TypeOK
    <3> QED
      BY <3>1, EndType
  <2> QED
    BY <2>1, <2>2
<1>5. CASE applyManifests
  <2>1. /\ passed(image, host, phase) /\ seen = 0
        /\ Apply(batchOf(image, host, phase)) /\ UNCHANGED <<api, kubeconfigs>>
    BY <1>5 DEF applyManifests, MemoryInv, inMemory, batchOf, passed
  <2> QED
    BY <2>1, ApplyType
<1>6. CASE applyRBAC
  <2>0. /\ pc = "begin" /\ phase = "rbac" /\ kept = image.objs /\ seen = 0
        /\ UNCHANGED <<api, kubeconfigs>>
    BY <1>6 DEF applyRBAC, MemoryInv, inMemory
  <2>1. CASE bindable(kept)
    <3>1. passed(image, host, phase) /\ Apply(batchOf(image, host, phase))
      BY <1>6, <2>0, <2>1 DEF applyRBAC, batchOf, passed
    <3> QED
      BY <2>0, <3>1, ApplyType
  <2>2. CASE ~bindable(kept)
    <3>1. /\ End("error")
          /\ UNCHANGED <<api, kubeconfigs, runs, writes>>
          /\ faults' \in 0..MaxFaults
      BY <1>6, <2>2 DEF applyRBAC, bounds, TypeOK
    <3> QED
      BY <3>1, EndType
  <2> QED
    BY <2>1, <2>2
<1>7. CASE applyWebhooks
  <2>0. /\ pc = "begin" /\ phase = "webhooks" /\ kept = image.objs /\ seen = 0
        /\ UNCHANGED <<api, kubeconfigs>>
    BY <1>7 DEF applyWebhooks, MemoryInv, inMemory
  <2>1. CASE webhooksRewritable(kept, host)
    <3>1. passed(image, host, phase) /\ Apply(batchOf(image, host, phase))
      BY <1>7, <2>0, <2>1 DEF applyWebhooks, batchOf, passed
    <3> QED
      BY <2>0, <3>1, ApplyType
  <2>2. CASE ~webhooksRewritable(kept, host)
    <3>1. /\ End("rewrite")
          /\ UNCHANGED <<api, kubeconfigs, runs, writes>>
          /\ faults' \in 0..MaxFaults
      BY <1>7, <2>2 DEF applyWebhooks, bounds, TypeOK
    <3> QED
      BY <3>1, EndType
  <2> QED
    BY <2>1, <2>2
<1>8. CASE createNew
  BY <1>8, CreateWrites, WriteType DEF createNew
<1>9. CASE createExists
  BY <1>9 DEF createExists, atObject, inRun, bounds, api, TypeOK
<1>10. CASE getExisting
  <2>1. store[key].rv \in Nat
    <3>1. store[key] # Nil /\ i \in DOMAIN batch
      BY <1>10 DEF getExisting, MemoryInv, TypeOK
    <3>2. store[key] \in Entry
      BY <3>1, BatchElement DEF TypeOK
    <3> QED
      BY <3>2 DEF Entry
  <2> QED
    BY <1>10, <2>1 DEF getExisting, inRun, bounds, api, TypeOK
<1>11. CASE updateObject
  BY <1>11, UpdateWrites, WriteType DEF updateObject
<1>12. CASE updateConflict
  <2>1. faults' \in 0..MaxFaults
    BY <1>12 DEF updateConflict, bounds, TypeOK
  <2> QED
    BY <1>12, <2>1, EndType DEF updateConflict, bounds
<1>13. CASE updateForbidden
  <2>1. faults' \in 0..MaxFaults
    BY <1>13 DEF updateForbidden, bounds, TypeOK
  <2> QED
    BY <1>13, <2>1, EndType DEF updateForbidden, bounds
<1>14. CASE endApply
  <2>1. /\ batch' = <<>> /\ i' = 1
        /\ pc' = afterApply[phase].pc /\ phase' = afterApply[phase].phase
        /\ UNCHANGED <<store, established, serving, kubeconfigs, kept, seen,
                       host, image, images, result, runs, faults, writes>>
    BY <1>14 DEF endApply, inRun, bounds, api
  <2>2. pc' \in {"waitCRDs", "begin", "kubeconfigs"} /\ phase' \in Phase
    BY <2>1 DEF TypeOK, Phase, afterApply
  <2>3. batch' \in Seq(Objects) /\ ToSet(batch') = {}
    BY <2>1 DEF ToSet
  <2> QED
    BY <2>1, <2>2, <2>3 DEF TypeOK
<1>15. CASE WaitForCRDEstablished
  BY <1>15 DEF WaitForCRDEstablished, inRun, bounds, api, TypeOK, Phase
<1>16. CASE WriteKubeconfigFile
  <2>1. kubeconfigOrder[i] \in Kubeconfigs
    BY <1>16, KubeconfigOrder DEF WriteKubeconfigFile
  <2> QED
    BY <1>16, <2>1 DEF WriteKubeconfigFile, inRun, bounds, api, TypeOK
<1>17. CASE ready
  <2>1. faults' \in 0..MaxFaults
    BY <1>17 DEF ready, bounds, TypeOK
  <2> QED
    BY <1>17, <2>1, EndType DEF ready, bounds
<1>18. CASE serve
  BY <1>18 DEF serve, process, bounds, TypeOK
<1>19. ASSUME NEW name \in CRDs, establish(name)
       PROVE  TypeOK'
  <2>1. touched
    BY <1>19, StatusTouches DEF establish
  <2> QED
    BY <1>19, <2>1, TouchType DEF establish, bounds, TypeOK
<1>20. ASSUME NEW name \in CRDs, writeStatus(name)
       PROVE  TypeOK'
  <2>1. touched
    BY <1>20, StatusTouches DEF writeStatus
  <2>2. writes' \in 0..MaxWrites
    BY <1>20, BoundsAssumption DEF writeStatus, TypeOK
  <2> QED
    BY <1>20, <2>1, <2>2, TouchType DEF writeStatus, TypeOK
<1>21. ASSUME NEW how \in {"error", "killed"}, Stop(how)
       PROVE  TypeOK'
  <2>1. faults' \in 0..MaxFaults
    BY <1>21, BoundsAssumption DEF Stop, TypeOK
  <2> QED
    BY <1>21, <2>1, EndType DEF Stop
<1>22. CASE UNCHANGED vars
  BY <1>22 DEF vars, api, process, bounds, TypeOK
<1> QED
  BY <1>1, <1>2, <1>3, <1>4, <1>5, <1>6, <1>7, <1>8, <1>9, <1>10, <1>11,
     <1>12, <1>13, <1>14, <1>15, <1>16, <1>17, <1>18, <1>19, <1>20, <1>21,
     <1>22 DEF Next, setup

-----------------------------------------------------------------------------
(* The memory of the process *)

(* A run that ends has nothing in memory, and its image is in the history. *)
LEMMA EndMemory ==
  ASSUME MemoryInv, pc # "idle", NEW how, End(how), how # "none"
  PROVE  MemoryInv'
<1>1. /\ kept' = <<>> /\ batch' = <<>> /\ pc' = "idle" /\ seen' = 0 /\ i' = 1
      /\ phase' = "manifests" /\ image' = image /\ images' = images
  BY DEF End
<1>2. image \in images
  BY DEF MemoryInv
<1> QED
  BY <1>1, <1>2 DEF MemoryInv, inMemory, inApply

(* An apply begins with what its phase makes of the image.                 *)
LEMMA ApplyMemory ==
  ASSUME MemoryInv, pc = "begin", passed(image, host, phase),
         Apply(batchOf(image, host, phase))
  PROVE  MemoryInv'
<1> DEFINE objs == batchOf(image, host, phase)
<1>1. CASE applicable(objs)
  <2>1. /\ batch' = objs /\ pc' = "create" /\ i' = 1
        /\ UNCHANGED <<phase, kept, seen, host, image, images, result>>
    BY <1>1 DEF Apply, inRun
  <2>2. batch' = batchOf(image', host', phase') /\ passed(image', host', phase')
    BY <2>1
  <2>3. applicable(batch')
    BY <1>1, <2>1
  <2> HIDE DEF objs
  <2> QED
    BY <2>1, <2>2, <2>3 DEF MemoryInv, inMemory, inApply
<1>2. CASE ~applicable(objs)
  <2>1. End("error")
    BY <1>2 DEF Apply
  <2> QED
    BY <2>1, EndMemory
<1> QED
  BY <1>1, <1>2

(* After a write the batch is the same.                                    *)
LEMMA WriteMemory ==
  ASSUME MemoryInv, pc \in {"create", "update"}, nextObject
  PROVE  MemoryInv'
<1>1. /\ i' = i + 1 /\ pc' = "create" /\ seen' = 0
      /\ UNCHANGED <<phase, kept, batch, host, image, images, result>>
  BY DEF nextObject, inRun
<1> QED
  BY <1>1 DEF MemoryInv, inMemory, inApply

(* A status write leaves the process alone.                                *)
LEMMA TouchMemory ==
  ASSUME TypeOK, MemoryInv, touched, UNCHANGED process
  PROVE  MemoryInv'
<1>1. UNCHANGED <<pc, phase, kept, batch, i, seen, host, image, result, images>>
  BY DEF process
<1>2. pc \in {"get", "update"} => store'[key] # Nil /\ key' = key
  BY <1>1, BatchElement DEF TypeOK, MemoryInv, touched, key
<1> QED
  BY <1>1, <1>2 DEF MemoryInv, inMemory, inApply

(* Every step keeps MemoryInv.                                             *)
LEMMA MemoryStep ==
  ASSUME TypeOK, MemoryInv, [Next]_vars
  PROVE  MemoryInv'
<1>1. ASSUME NEW h \in ExternalHosts, NEW img \in Images, Start(h, img)
      PROVE  MemoryInv'
  BY <1>1 DEF Start, MemoryInv, inMemory, inApply
<1>2. CASE generate
  BY <1>2 DEF generate, inRun, MemoryInv, inMemory, inApply
<1>3. CASE WaitForAPIServer
  BY <1>3 DEF WaitForAPIServer, inRun, MemoryInv, inMemory, inApply
<1>4. CASE load
  <2>1. CASE image.loads
    BY <1>4, <2>1 DEF load, inRun, MemoryInv, inMemory, inApply
  <2>2. CASE ~image.loads
    BY <1>4, <2>2, EndMemory DEF load
  <2> QED
    BY <2>1, <2>2
<1>5. CASE applyManifests
  <2>1. /\ pc = "begin" /\ passed(image, host, phase)
        /\ Apply(batchOf(image, host, phase))
    BY <1>5 DEF applyManifests, MemoryInv, inMemory, batchOf, passed
  <2> QED
    BY <2>1, ApplyMemory
<1>6. CASE applyRBAC
  <2>0. pc = "begin" /\ phase = "rbac" /\ kept = image.objs
    BY <1>6 DEF applyRBAC, MemoryInv, inMemory
  <2>1. CASE bindable(kept)
    <3>1. passed(image, host, phase) /\ Apply(batchOf(image, host, phase))
      BY <1>6, <2>0, <2>1 DEF applyRBAC, batchOf, passed
    <3> QED
      BY <2>0, <3>1, ApplyMemory
  <2>2. CASE ~bindable(kept)
    BY <1>6, <2>0, <2>2, EndMemory DEF applyRBAC
  <2> QED
    BY <2>1, <2>2
<1>7. CASE applyWebhooks
  <2>0. pc = "begin" /\ phase = "webhooks" /\ kept = image.objs
    BY <1>7 DEF applyWebhooks, MemoryInv, inMemory
  <2>1. CASE webhooksRewritable(kept, host)
    <3>1. passed(image, host, phase) /\ Apply(batchOf(image, host, phase))
      BY <1>7, <2>0, <2>1 DEF applyWebhooks, batchOf, passed
    <3> QED
      BY <2>0, <3>1, ApplyMemory
  <2>2. CASE ~webhooksRewritable(kept, host)
    BY <1>7, <2>0, <2>2, EndMemory DEF applyWebhooks
  <2> QED
    BY <2>1, <2>2
<1>8. CASE createNew
  BY <1>8, WriteMemory DEF createNew
<1>9. CASE createExists
  <2>1. /\ pc = "create" /\ pc' = "get" /\ store[key] # Nil
        /\ UNCHANGED <<store, phase, kept, batch, i, seen, host, image, images,
                       result>>
    BY <1>9 DEF createExists, inRun, api
  <2>2. store'[key'] # Nil
    BY <2>1 DEF key
  <2> QED
    BY <2>1, <2>2 DEF MemoryInv, inMemory, inApply
<1>10. CASE getExisting
  <2>1. /\ pc = "get" /\ pc' = "update"
        /\ UNCHANGED <<store, phase, kept, batch, i, host, image, images,
                       result>>
    BY <1>10 DEF getExisting, inRun, api
  <2>2. store'[key'] # Nil
    BY <2>1 DEF key, MemoryInv
  <2> QED
    BY <2>1, <2>2 DEF MemoryInv, inMemory, inApply
<1>11. CASE updateObject
  BY <1>11, WriteMemory DEF updateObject
<1>12. CASE updateConflict
  BY <1>12, EndMemory DEF updateConflict
<1>13. CASE updateForbidden
  BY <1>13, EndMemory DEF updateForbidden
<1>14. CASE endApply
  <2>1. /\ pc = "create" /\ batch' = <<>> /\ i' = 1
        /\ pc' = afterApply[phase].pc /\ phase' = afterApply[phase].phase
        /\ UNCHANGED <<kept, seen, host, image, images, result>>
    BY <1>14 DEF endApply, inRun
  <2>2. /\ pc' \in {"waitCRDs", "begin", "kubeconfigs"}
        /\ pc' = "waitCRDs" => phase' = "manifests"
        /\ pc' = "kubeconfigs" => phase' = "webhooks"
    BY <2>1 DEF TypeOK, Phase, afterApply
  <2> QED
    BY <2>1, <2>2 DEF MemoryInv, inMemory, inApply
<1>15. CASE WaitForCRDEstablished
  BY <1>15 DEF WaitForCRDEstablished, inRun, MemoryInv, inMemory, inApply
<1>16. CASE WriteKubeconfigFile
  BY <1>16 DEF WriteKubeconfigFile, inRun, MemoryInv, inMemory, inApply
<1>17. CASE ready
  BY <1>17, EndMemory DEF ready
<1>18. CASE serve
  <2>1. UNCHANGED <<store, pc, phase, kept, batch, i, seen, host, image, result,
                    images>>
    BY <1>18 DEF serve, process
  <2> QED
    BY <2>1 DEF MemoryInv, inMemory, inApply, key
<1>19. ASSUME NEW name \in CRDs, establish(name)
       PROVE  MemoryInv'
  BY <1>19, StatusTouches, TouchMemory DEF establish
<1>20. ASSUME NEW name \in CRDs, writeStatus(name)
       PROVE  MemoryInv'
  BY <1>20, StatusTouches, TouchMemory DEF writeStatus
<1>21. ASSUME NEW how \in {"error", "killed"}, Stop(how)
       PROVE  MemoryInv'
  BY <1>21, EndMemory DEF Stop
<1>22. CASE UNCHANGED vars
  <2>1. UNCHANGED <<store, pc, phase, kept, batch, i, seen, host, image, result,
                    images>>
    BY <1>22 DEF vars, api, process
  <2> QED
    BY <2>1 DEF MemoryInv, inMemory, inApply, key
<1> QED
  BY <1>1, <1>2, <1>3, <1>4, <1>5, <1>6, <1>7, <1>8, <1>9, <1>10, <1>11,
     <1>12, <1>13, <1>14, <1>15, <1>16, <1>17, <1>18, <1>19, <1>20, <1>21,
     <1>22 DEF Next, setup

-----------------------------------------------------------------------------
(* What the phases of a run leave in the apiserver *)

(* The objects of the second apply have keys of the apiserver.             *)
LEMMA BindingKeys ==
  ASSUME NEW img \in Images, bindable(img.objs)
  PROVE  \A o \in ToSet(rbacObjects(img.objs)) :
           o \in Objects /\ applyKey(o) \in Keys
<1>1. "rbac" \in Phase
  BY DEF Phase
<1>2. PICK h \in ExternalHosts : TRUE
  BY ExternalHostsAssumption, Zenon
<1>3. passed(img, h, "rbac")
  BY DEF passed
<1>4. batchOf(img, h, "rbac") = rbacObjects(img.objs)
  BY DEF batchOf
<1> QED
  BY <1>1, <1>2, <1>3, <1>4, BatchObjects, ImageKeys, SequenceElements

(* So have those of the third.                                             *)
LEMMA WebhookKeys ==
  ASSUME NEW img \in Images, NEW h \in ExternalHosts,
         webhooksRewritable(img.objs, h)
  PROVE  \A o \in ToSet(rewrittenWebhooks(img.objs, h)) : applyKey(o) \in Keys
<1>1. passed(img, h, "webhooks") /\ "webhooks" \in Phase
  BY DEF passed, Phase
<1>2. batchOf(img, h, "webhooks") = rewrittenWebhooks(img.objs, h)
  BY DEF batchOf
<1> QED
  BY <1>1, <1>2, BatchObjects, ImageKeys

(* The third apply overwrites no binding, and a status write no object.    *)
LEMMA BindingsKept ==
  ASSUME TypeOK, image' = image, BindingsDone(image),
         touched \/ (written /\ batch[i].kind \in WebhookKinds)
  PROVE  BindingsDone(image)'
<1>1. /\ bindable(image.objs)
      /\ \A o \in ToSet(rbacObjects(image.objs)) :
           /\ applyKey(o) \in Keys
           /\ store[applyKey(o)] # Nil
           /\ o.kind \notin WebhookKinds => store[applyKey(o)].obj = o
  BY BindingKeys DEF BindingsDone, holds, TypeOK
<1>2. CASE touched
  BY <1>1, <1>2 DEF touched, BindingsDone, holds
<1>3. CASE written /\ batch[i].kind \in WebhookKinds
  <2>1. key = applyKey(batch[i])
    BY <1>3, BatchElement DEF written
  <2>2. \A o : o.kind \notin WebhookKinds => applyKey(o) # key
    BY <1>3, <2>1, KindOfKey
  <2> QED
    BY <1>1, <1>3, <2>2 DEF written, BindingsDone, holds
<1> QED
  BY <1>2, <1>3

(* A status write overwrites no webhook.                                   *)
LEMMA WebhooksKept ==
  ASSUME TypeOK, image' = image, host' = host, WebhooksDone(image, host),
         touched
  PROVE  WebhooksDone(image, host)'
<1>1. /\ webhooksRewritable(image.objs, host)
      /\ \A o \in ToSet(rewrittenWebhooks(image.objs, host)) :
           /\ applyKey(o) \in Keys
           /\ store[applyKey(o)] # Nil /\ store[applyKey(o)].obj = o
  BY WebhookKeys DEF WebhooksDone, holds, TypeOK
<1> QED
  BY <1>1 DEF touched, WebhooksDone, holds

(* The objects of a batch have different keys: the ones before stay.       *)
LEMMA WriteProgress ==
  ASSUME TypeOK, MemoryInv, ProgressInv, written, nextObject,
         established' = established
  PROVE  ProgressInv'
<1>1. /\ i' = i + 1 /\ pc' = "create"
      /\ UNCHANGED <<phase, kept, batch, host, image, images, result>>
  BY DEF nextObject, inRun
<1>2. /\ inApply /\ result = "none" /\ i \in Nat \ {0}
      /\ batch = batchOf(image, host, phase)
      /\ passed(image, host, phase) /\ applicable(batch)
  BY DEF written, MemoryInv, inApply
<1>3. /\ i \in DOMAIN batch
      /\ DOMAIN batch = 1..Len(batch) /\ Len(batch) \in Nat
      /\ \A j \in DOMAIN batch :
           batch[j] \in ToSet(batch) /\ applyKey(batch[j]) \in Keys
      /\ key = applyKey(batch[i])
  BY SequenceElements, BatchElement DEF written, TypeOK
<1>4. ASSUME NEW j \in 1..i
      PROVE  /\ store'[applyKey(batch[j])] # Nil
             /\ store'[applyKey(batch[j])].obj = batch[j]
  <2>1. CASE j = i
    BY <1>3, <2>1 DEF written
  <2>2. CASE j # i
    <3>1. j \in 1..(i - 1) /\ j \in DOMAIN batch
      BY <1>2, <1>3, <2>2
    <3>2. /\ store[applyKey(batch[j])] # Nil
          /\ store[applyKey(batch[j])].obj = batch[j]
      BY <1>2, <3>1 DEF ProgressInv, BatchDone, holds
    <3>3. applyKey(batch[j]) # key
      BY <1>2, <1>3, <2>2, <3>1 DEF applicable
    <3> QED
      BY <1>3, <3>1, <3>2, <3>3 DEF written
  <2> QED
    BY <2>1, <2>2
<1>5. BatchDone'
  BY <1>1, <1>2, <1>4 DEF BatchDone, holds
<1>6. phase = "webhooks" => BindingsDone(image)'
  <2>1. SUFFICES ASSUME phase = "webhooks" PROVE BindingsDone(image)'
    OBVIOUS
  <2>2. BindingsDone(image)
    BY <1>2, <2>1 DEF ProgressInv, inMemory
  <2>3. batch[i].kind \in WebhookKinds
    BY <1>2, <1>3, <2>1, BatchObjects DEF TypeOK
  <2> QED
    BY <1>1, <2>2, <2>3, BindingsKept
<1>7. phase # "manifests" => CRDsOf(image) \subseteq established
  BY <1>2 DEF ProgressInv, inMemory
<1> QED
  BY <1>1, <1>2, <1>5, <1>6, <1>7 DEF ProgressInv, inMemory, inApply

(* A status write takes nothing back from a run.                           *)
LEMMA TouchProgress ==
  ASSUME TypeOK, MemoryInv, ProgressInv, touched, UNCHANGED process,
         established \subseteq established', kubeconfigs' = kubeconfigs
  PROVE  ProgressInv'
<1>1. UNCHANGED <<pc, phase, kept, batch, i, seen, host, image, result, images>>
  BY DEF process
<1>2. BindingsDone(image) => BindingsDone(image)'
  BY <1>1, BindingsKept
<1>3. WebhooksDone(image, host) => WebhooksDone(image, host)'
  BY <1>1, WebhooksKept
<1>4. ASSUME inApply, NEW j \in 1..(i - 1)
      PROVE  /\ store'[applyKey(batch[j])] # Nil
             /\ store'[applyKey(batch[j])].obj = batch[j]
  <2>1. /\ store[applyKey(batch[j])] # Nil
        /\ store[applyKey(batch[j])].obj = batch[j]
    BY <1>4 DEF ProgressInv, BatchDone, holds
  <2>2. j \in DOMAIN batch /\ applyKey(batch[j]) \in Keys
    <3>1. /\ batch \in Seq(Objects) /\ i \in 1..(Len(batch) + 1)
          /\ \A o \in ToSet(batch) : applyKey(o) \in Keys
      BY <1>4 DEF TypeOK, inApply
    <3>2. Len(batch) \in Nat /\ DOMAIN batch = 1..Len(batch)
      BY <3>1
    <3>3. j \in DOMAIN batch
      BY <3>1, <3>2
    <3> QED
      BY <3>1, <3>3, SequenceElements
  <2> QED
    BY <2>1, <2>2 DEF touched
<1>5. inApply => BatchDone'
  BY <1>1, <1>4 DEF BatchDone, holds
<1> QED
  BY <1>1, <1>2, <1>3, <1>5 DEF ProgressInv, inMemory, inApply

(* A run that does not end ready has nothing to show.                      *)
LEMMA EndProgress ==
  ASSUME NEW how, End(how), how # "ready"
  PROVE  ProgressInv'
BY DEF End, ProgressInv, inMemory, inApply

(* A step that leaves the apiserver alone and goes on with the same phase. *)
LEMMA SamePhaseProgress ==
  ASSUME ProgressInv, UNCHANGED <<store, established, kubeconfigs>>,
         UNCHANGED <<phase, image, host, result>>, inMemory' => inMemory,
         pc' = "kubeconfigs" => pc = "kubeconfigs" /\ i' = i,
         inApply' => \/ i' = 1
                     \/ inApply /\ UNCHANGED <<i, batch>>
  PROVE  ProgressInv'
<1>1. BindingsDone(image) => BindingsDone(image)'
  BY DEF BindingsDone, holds
<1>2. WebhooksDone(image, host) => WebhooksDone(image, host)'
  BY DEF WebhooksDone, holds
<1>3. inApply' => BatchDone'
  BY DEF ProgressInv, BatchDone, holds
<1> QED
  BY <1>1, <1>2, <1>3 DEF ProgressInv

(* A new apply keeps what the ones before it have left.                    *)
LEMMA ApplyProgress ==
  ASSUME ProgressInv, pc = "begin", NEW objs, Apply(objs),
         UNCHANGED <<api, kubeconfigs>>
  PROVE  ProgressInv'
<1>1. CASE applicable(objs)
  <2>1. /\ pc' = "create" /\ i' = 1
        /\ UNCHANGED <<store, established, kubeconfigs, phase, host, image,
                       result>>
    BY <1>1 DEF Apply, inRun, api
  <2> QED
    BY <2>1, SamePhaseProgress DEF inMemory, inApply
<1>2. CASE ~applicable(objs)
  BY <1>2, EndProgress DEF Apply
<1> QED
  BY <1>1, <1>2

(* Every step keeps ProgressInv.                                           *)
LEMMA ProgressStep ==
  ASSUME TypeOK, MemoryInv, ProgressInv, [Next]_vars
  PROVE  ProgressInv'
<1>1. ASSUME NEW h \in ExternalHosts, NEW img \in Images, Start(h, img)
      PROVE  ProgressInv'
  BY <1>1 DEF Start, ProgressInv, inMemory, inApply
<1>2. CASE generate
  BY <1>2, SamePhaseProgress DEF generate, inRun, api, inMemory, inApply
<1>3. CASE WaitForAPIServer
  BY <1>3, SamePhaseProgress DEF WaitForAPIServer, inRun, api, inMemory, inApply
<1>4. CASE load
  <2>1. CASE image.loads
    <3>1. pc' = "begin" /\ phase' = "manifests" /\ result' = "none"
      BY <1>4, <2>1 DEF load, inRun, MemoryInv
    <3> QED
      BY <3>1 DEF ProgressInv, inApply
  <2>2. CASE ~image.loads
    BY <1>4, <2>2, EndProgress DEF load
  <2> QED
    BY <2>1, <2>2
<1>5. CASE applyManifests
  BY <1>5, ApplyProgress DEF applyManifests
<1>6. CASE applyRBAC
  BY <1>6, ApplyProgress, EndProgress DEF applyRBAC
<1>7. CASE applyWebhooks
  BY <1>7, ApplyProgress, EndProgress DEF applyWebhooks
<1>8. CASE createNew
  BY <1>8, CreateWrites, WriteProgress DEF createNew
<1>9. CASE createExists
  BY <1>9, SamePhaseProgress DEF createExists, inRun, api, inMemory, inApply
<1>10. CASE getExisting
  BY <1>10, SamePhaseProgress DEF getExisting, inRun, api, inMemory, inApply
<1>11. CASE updateObject
  BY <1>11, UpdateWrites, WriteProgress DEF updateObject
<1>12. CASE updateConflict
  BY <1>12, EndProgress DEF updateConflict
<1>13. CASE updateForbidden
  BY <1>13, EndProgress DEF updateForbidden
<1>14. CASE endApply
  <2>1. /\ pc = "create" /\ i \notin DOMAIN batch /\ i' = 1
        /\ pc' = afterApply[phase].pc /\ phase' = afterApply[phase].phase
        /\ UNCHANGED <<store, established, kubeconfigs, host, image, result>>
    BY <1>14 DEF endApply, atObject, inRun, api
  <2>2. /\ phase \in Phase /\ result = "none"
        /\ batch = batchOf(image, host, phase) /\ passed(image, host, phase)
    BY <2>1 DEF TypeOK, MemoryInv, inApply
  <2>3. \A o \in ToSet(batch) :
          store[applyKey(o)] # Nil /\ store[applyKey(o)].obj = o
    <3>1. /\ batch \in Seq(Objects) /\ i \in 1..(Len(batch) + 1)
      BY <2>1 DEF TypeOK
    <3>2. /\ Len(batch) \in Nat /\ DOMAIN batch = 1..Len(batch)
          /\ \A o \in ToSet(batch) : \E j \in DOMAIN batch : o = batch[j]
      BY <3>1, SequenceElements
    <3>3. DOMAIN batch = 1..(i - 1)
      BY <2>1, <3>1, <3>2
    <3> QED
      BY <2>1, <3>2, <3>3 DEF ProgressInv, BatchDone, holds, inApply
  <2>4. CASE phase = "manifests"
    <3>1. pc' = "waitCRDs" /\ phase' = "manifests"
      BY <2>1, <2>4 DEF afterApply
    <3> QED
      BY <2>1, <2>2, <3>1 DEF ProgressInv, inApply
  <2>5. CASE phase = "rbac"
    <3>1. pc' = "begin" /\ phase' = "webhooks"
      BY <2>1, <2>5 DEF afterApply
    <3>2. BindingsDone(image)'
      BY <2>1, <2>2, <2>3, <2>5 DEF BindingsDone, holds, batchOf, passed
    <3>3. CRDsOf(image') \subseteq established'
      BY <2>1, <2>5 DEF ProgressInv, inMemory, inApply
    <3> QED
      BY <2>1, <2>2, <3>1, <3>2, <3>3 DEF ProgressInv, inApply
  <2>6. CASE phase = "webhooks"
    <3>1. pc' = "kubeconfigs" /\ phase' = "webhooks"
      BY <2>1, <2>6 DEF afterApply
    <3>2. WebhooksDone(image, host)'
      BY <2>1, <2>2, <2>3, <2>6 DEF WebhooksDone, holds, batchOf, passed
    <3>3. BindingsDone(image)'
      BY <2>1, <2>6 DEF ProgressInv, BindingsDone, holds, inMemory, inApply
    <3>4. CRDsOf(image') \subseteq established'
      BY <2>1, <2>6 DEF ProgressInv, inMemory, inApply
    <3> QED
      BY <2>1, <2>2, <3>1, <3>2, <3>3, <3>4 DEF ProgressInv, inApply
  <2> QED
    BY <2>2, <2>4, <2>5, <2>6 DEF Phase
<1>15. CASE WaitForCRDEstablished
  <2>1. /\ pc = "waitCRDs" /\ pc' = "begin" /\ phase' = "rbac"
        /\ CrdNamesFrom(kept) \subseteq established
        /\ UNCHANGED <<established, image, result>>
    BY <1>15 DEF WaitForCRDEstablished, inRun, api
  <2>2. CRDsOf(image') \subseteq established' /\ result' = "none"
    BY <2>1 DEF MemoryInv, inMemory, CRDsOf
  <2> QED
    BY <2>1, <2>2 DEF ProgressInv, inApply
<1>16. CASE WriteKubeconfigFile
  <2>1. /\ pc = "kubeconfigs" /\ pc' = "kubeconfigs" /\ i' = i + 1
        /\ kubeconfigs' = kubeconfigs \cup {kubeconfigOrder[i]}
        /\ UNCHANGED <<store, established, phase, image, host, result>>
    BY <1>16 DEF WriteKubeconfigFile, inRun, api
  <2>2. i \in Nat \ {0} /\ result = "none"
    BY <2>1 DEF MemoryInv
  <2>3. /\ \A n \in 1..(i - 1) : kubeconfigOrder[n] \in kubeconfigs
        /\ phase # "manifests" => CRDsOf(image) \subseteq established
        /\ phase = "webhooks" => BindingsDone(image)
        /\ WebhooksDone(image, host)
    BY <2>1 DEF ProgressInv, inMemory
  <2>4. \A n \in 1..(i' - 1) : kubeconfigOrder[n] \in kubeconfigs'
    <3>1. i' - 1 = i
      BY <2>1, <2>2
    <3>2. \A n \in 1..i : n = i \/ n \in 1..(i - 1)
      BY <2>2
    <3> QED
      BY <2>1, <2>3, <3>1, <3>2
  <2>5. /\ BindingsDone(image) => BindingsDone(image)'
        /\ WebhooksDone(image, host)'
    BY <2>1, <2>3 DEF BindingsDone, WebhooksDone, holds
  <2> QED
    BY <2>1, <2>2, <2>3, <2>4, <2>5 DEF ProgressInv, inApply
<1>17. CASE ready
  <2>1. /\ pc = "kubeconfigs" /\ i \notin DOMAIN kubeconfigOrder
        /\ pc' = "idle"
        /\ UNCHANGED <<store, established, kubeconfigs, image, host>>
    BY <1>17 DEF ready, End, api
  <2>2. phase = "webhooks" /\ i \in Nat \ {0}
    BY <2>1 DEF MemoryInv
  <2>3. /\ CRDsOf(image) \subseteq established
        /\ BindingsDone(image) /\ WebhooksDone(image, host)
        /\ \A n \in 1..(i - 1) : kubeconfigOrder[n] \in kubeconfigs
    BY <2>1, <2>2 DEF ProgressInv, inMemory
  <2>4. kubeconfigs = Kubeconfigs
    <3>1. 1..6 \subseteq 1..(i - 1)
      BY <2>1, <2>2, KubeconfigOrder
    <3>2. Kubeconfigs \subseteq kubeconfigs
      BY <2>3, <3>1, KubeconfigOrder
    <3> QED
      BY <3>2 DEF TypeOK
  <2>5. BindingsDone(image)' /\ WebhooksDone(image, host)'
    BY <2>1, <2>3 DEF BindingsDone, WebhooksDone, holds
  <2> QED
    BY <2>1, <2>3, <2>4, <2>5 DEF ProgressInv, inApply, inMemory
<1>18. CASE serve
  <2>1. UNCHANGED <<store, established, kubeconfigs, pc, phase, batch, i, host,
                    image, result>>
    BY <1>18 DEF serve, process
  <2> QED
    BY <2>1, SamePhaseProgress DEF inMemory, inApply
<1>19. ASSUME NEW name \in CRDs, establish(name)
       PROVE  ProgressInv'
  BY <1>19, StatusTouches, TouchProgress DEF establish
<1>20. ASSUME NEW name \in CRDs, writeStatus(name)
       PROVE  ProgressInv'
  BY <1>20, StatusTouches, TouchProgress DEF writeStatus
<1>21. ASSUME NEW how \in {"error", "killed"}, Stop(how)
       PROVE  ProgressInv'
  BY <1>21, EndProgress DEF Stop
<1>22. CASE UNCHANGED vars
  <2>1. UNCHANGED <<store, established, kubeconfigs, pc, phase, batch, i, host,
                    image, result>>
    BY <1>22 DEF vars, api, process
  <2> QED
    BY <2>1, SamePhaseProgress DEF inMemory, inApply
<1> QED
  BY <1>1, <1>2, <1>3, <1>4, <1>5, <1>6, <1>7, <1>8, <1>9, <1>10, <1>11,
     <1>12, <1>13, <1>14, <1>15, <1>16, <1>17, <1>18, <1>19, <1>20, <1>21,
     <1>22 DEF Next, setup

-----------------------------------------------------------------------------
(* The bindings, the kubeconfigs and the refusals *)

(* What any step does to what these are about: only Apply writes objects,  *)
(* nothing is removed, and only a changed roleRef is refused for it.       *)
stepEffects ==
  /\ store' = store \/ touched \/ written
  /\ images \subseteq images' /\ established \subseteq established'
  /\ kubeconfigs' = kubeconfigs \/ WriteKubeconfigFile
  /\ \/ result' # "roleRef"
     \/ UNCHANGED <<result, image, images>>
     \/ updateForbidden

(* The end of a run changes no object.                                     *)
LEMMA EndEffects ==
  ASSUME UNCHANGED <<api, kubeconfigs>>, NEW how, End(how),
         how # "roleRef" \/ updateForbidden
  PROVE  stepEffects
BY DEF stepEffects, End, api

(* Every step of setup and of the apiserver is such a step.                *)
LEMMA StepEffects ==
  ASSUME TypeOK, MemoryInv, [Next]_vars
  PROVE  stepEffects
<1>1. ASSUME NEW h \in ExternalHosts, NEW img \in Images, Start(h, img)
      PROVE  stepEffects
  BY <1>1 DEF Start, stepEffects, api
<1>2. CASE generate
  BY <1>2 DEF generate, inRun, api, stepEffects
<1>3. CASE WaitForAPIServer
  BY <1>3 DEF WaitForAPIServer, inRun, api, stepEffects
<1>4. CASE load
  <2>1. CASE image.loads
    BY <1>4, <2>1 DEF load, inRun, api, stepEffects
  <2>2. CASE ~image.loads
    BY <1>4, <2>2, EndEffects DEF load
  <2> QED
    BY <2>1, <2>2
<1>5. ASSUME NEW objs, Apply(objs), UNCHANGED <<api, kubeconfigs>>
      PROVE  stepEffects
  <2>1. CASE applicable(objs)
    BY <1>5, <2>1 DEF Apply, inRun, api, stepEffects
  <2>2. CASE ~applicable(objs)
    BY <1>5, <2>2, EndEffects DEF Apply
  <2> QED
    BY <2>1, <2>2
<1>6. CASE applyManifests
  BY <1>5, <1>6 DEF applyManifests
<1>7. CASE applyRBAC
  BY <1>5, <1>7, EndEffects DEF applyRBAC
<1>8. CASE applyWebhooks
  BY <1>5, <1>8, EndEffects DEF applyWebhooks
<1>9. CASE createNew
  <2>1. written
    BY <1>9, CreateWrites
  <2> QED
    BY <1>9, <2>1 DEF createNew, nextObject, inRun, stepEffects
<1>10. CASE createExists
  BY <1>10 DEF createExists, inRun, api, stepEffects
<1>11. CASE getExisting
  BY <1>11 DEF getExisting, inRun, api, stepEffects
<1>12. CASE updateObject
  <2>1. written
    BY <1>12, UpdateWrites
  <2> QED
    BY <1>12, <2>1 DEF updateObject, nextObject, inRun, stepEffects
<1>13. CASE updateConflict
  BY <1>13, EndEffects DEF updateConflict
<1>14. CASE updateForbidden
  BY <1>14, EndEffects DEF updateForbidden
<1>15. CASE endApply
  BY <1>15 DEF endApply, inRun, api, stepEffects
<1>16. CASE WaitForCRDEstablished
  BY <1>16 DEF WaitForCRDEstablished, inRun, api, stepEffects
<1>17. CASE WriteKubeconfigFile
  BY <1>17 DEF WriteKubeconfigFile, inRun, api, stepEffects
<1>18. CASE ready
  BY <1>18, EndEffects DEF ready
<1>19. CASE serve
  BY <1>19 DEF serve, process, stepEffects
<1>20. ASSUME NEW name \in CRDs, establish(name)
       PROVE  stepEffects
  <2>1. touched
    BY <1>20, StatusTouches DEF establish
  <2> QED
    BY <1>20, <2>1 DEF establish, process, stepEffects
<1>21. ASSUME NEW name \in CRDs, writeStatus(name)
       PROVE  stepEffects
  <2>1. touched
    BY <1>21, StatusTouches DEF writeStatus
  <2> QED
    BY <1>21, <2>1 DEF writeStatus, process, stepEffects
<1>22. ASSUME NEW how \in {"error", "killed"}, Stop(how)
       PROVE  stepEffects
  BY <1>22, EndEffects DEF Stop
<1>23. CASE UNCHANGED vars
  BY <1>23 DEF vars, api, process, stepEffects
<1> QED
  BY <1>1, <1>2, <1>3, <1>4, <1>6, <1>7, <1>8, <1>9, <1>10, <1>11,
     <1>12, <1>13, <1>14, <1>15, <1>16, <1>17, <1>18, <1>19, <1>20, <1>21,
     <1>22, <1>23 DEF Next, setup

(* A binding is written by the second apply, from the image of the run.    *)
LEMMA WrittenBinding ==
  ASSUME TypeOK, MemoryInv, pc \in {"create", "update"}, i \in DOMAIN batch,
         batch[i].kind \in RBACBindings
  PROVE  /\ image \in images /\ image \in Images
         /\ bindable(image.objs)
         /\ batch = rbacObjects(image.objs)
         /\ batch[i] \in ToSet(rbacObjects(image.objs))
         /\ effective(batch[i])
<1>1. /\ image \in images /\ image \in Images /\ host \in ExternalHosts
      /\ phase \in Phase
      /\ batch = batchOf(image, host, phase) /\ passed(image, host, phase)
  BY DEF TypeOK, MemoryInv, inApply
<1>2. batch[i] \in ToSet(batch)
  BY BatchElement
<1>3. phase = "rbac" /\ effective(batch[i])
  BY <1>1, <1>2, BatchObjects
<1> QED
  BY <1>1, <1>2, <1>3 DEF batchOf, passed

(* Every step keeps BindingsInv: only the second apply writes bindings.    *)
LEMMA BindingsStep ==
  ASSUME TypeOK, MemoryInv, BindingsInv, [Next]_vars
  PROVE  BindingsInv'
<1>1. stepEffects
  BY StepEffects
<1>2. SUFFICES ASSUME NEW k \in Keys, store'[k] # Nil, k[2] \in RBACBindings
               PROVE  \E img \in images' :
                        /\ bindable(img.objs)
                        /\ store'[k].obj \in ToSet(rbacObjects(img.objs))
  BY DEF BindingsInv
<1>3. CASE store[k] # Nil /\ store'[k].obj = store[k].obj
  BY <1>1, <1>2, <1>3 DEF BindingsInv, stepEffects
<1>4. CASE written /\ k = key
  <2>1. /\ pc \in {"create", "update"} /\ i \in DOMAIN batch
        /\ store'[k].obj = batch[i]
    BY <1>4 DEF written
  <2>2. batch[i].kind \in RBACBindings
    BY <1>2, <1>4, <2>1, BatchElement, KindOfKey
  <2> QED
    BY <1>1, <2>1, <2>2, WrittenBinding DEF stepEffects
<1> QED
  BY <1>1, <1>2, <1>3, <1>4 DEF stepEffects, touched, written

(* Every step keeps KubeconfigsInv: the kubeconfigs are written when all   *)
(* is applied, and nothing is removed.                                     *)
LEMMA KubeconfigsStep ==
  ASSUME TypeOK, MemoryInv, ProgressInv, KubeconfigsInv, [Next]_vars
  PROVE  KubeconfigsInv'
<1>1. stepEffects
  BY StepEffects
<1>2. \A k \in Keys : store[k] # Nil => store'[k] # Nil
  BY <1>1 DEF stepEffects, touched, written
<1>3. ASSUME NEW img \in images, complete(img)
      PROVE  img \in images' /\ complete(img)'
  <2>1. img \in Images
    BY DEF TypeOK
  <2> QED
    BY <1>1, <1>2, <1>3, <2>1, ImageKeys DEF complete, stepEffects
<1>4. ASSUME WriteKubeconfigFile
      PROVE  image \in images /\ complete(image)
  <2>1. pc = "kubeconfigs"
    BY <1>4 DEF WriteKubeconfigFile
  <2>2. /\ image \in images /\ image \in Images
        /\ BindingsDone(image) /\ CRDsOf(image) \subseteq established
    BY <2>1 DEF TypeOK, MemoryInv, ProgressInv, inMemory
  <2>3. image.objs \in Seq(Objects) /\ bindable(image.objs)
    BY <2>2, ImageObjects DEF BindingsDone
  <2>4. ASSUME NEW k \in KeysOf(image)
        PROVE  store[k] # Nil
    <3>1. PICK o \in ToSet(image.objs) \cup {AdminClusterRoleBinding(adminCN)} :
            k = applyKey(o)
      BY DEF KeysOf
    <3>2. PICK p \in ToSet(rbacObjects(image.objs)) : applyKey(p) = applyKey(o)
      BY <2>3, <3>1, RBACObjects
    <3> QED
      BY <2>2, <3>1, <3>2 DEF BindingsDone
  <2> QED
    BY <2>2, <2>4 DEF complete
<1> QED
  BY <1>1, <1>3, <1>4 DEF KubeconfigsInv, stepEffects

(* An update that is refused finds a binding that no run of this image has *)
(* written.                                                                *)
LEMMA RoleRefStep ==
  ASSUME TypeOK, MemoryInv, BindingsInv, RoleRefRejectedOnUpgradeOnly,
         [Next]_vars
  PROVE  RoleRefRejectedOnUpgradeOnly'
<1>1. stepEffects
  BY StepEffects
<1>2. ASSUME updateForbidden
      PROVE  images # {image}
  <2>1. /\ pc = "update" /\ i \in DOMAIN batch /\ store[key] # Nil
        /\ store[key].obj.roleRef # batch[i].roleRef
    BY <1>2 DEF updateForbidden, sameRoleRef, TypeOK, MemoryInv
  <2>2. batch[i] \in Objects /\ key \in Keys /\ key = applyKey(batch[i])
    BY <2>1, BatchElement
  <2>3. /\ store[key].obj \in Objects
        /\ applyKey(store[key].obj) = applyKey(batch[i])
    BY <2>1, <2>2 DEF TypeOK, Entry
  <2>4. store[key].obj.kind = batch[i].kind /\ key[2] = batch[i].kind
    BY <2>2, <2>3, KindOfKey
  <2>5. batch[i].kind \in RBACBindings
    BY <2>1, <2>2, <2>3, <2>4, ObjectFields
  <2>6. /\ batch = rbacObjects(image.objs) /\ applicable(batch)
        /\ batch \in Seq(Objects)
    BY <2>1, <2>5, WrittenBinding DEF TypeOK, MemoryInv, inApply
  <2>7. SUFFICES ASSUME images = {image} PROVE FALSE
    OBVIOUS
  <2>8. store[key].obj \in ToSet(batch)
    BY <2>1, <2>2, <2>4, <2>5, <2>6, <2>7 DEF BindingsInv
  <2>9. PICK j \in DOMAIN batch : store[key].obj = batch[j]
    BY <2>6, <2>8, SequenceElements
  <2>10. j = i
    BY <2>1, <2>3, <2>6, <2>9 DEF applicable
  <2> QED
    BY <2>1, <2>9, <2>10
<1>3. ASSUME updateForbidden
      PROVE  image' = image /\ images' = images
  BY <1>3 DEF updateForbidden, End
<1> QED
  BY <1>1, <1>2, <1>3 DEF RoleRefRejectedOnUpgradeOnly, stepEffects

-----------------------------------------------------------------------------
(* The theorems *)

(* The invariant is inductive.                                             *)
THEOREM StepKeepsIInv == IInv /\ [Next]_vars => IInv'
BY TypeStep, MemoryStep, ProgressStep, BindingsStep, KubeconfigsStep,
   RoleRefStep DEF IInv

(* The inductive invariant holds in every state of every behaviour.        *)
THEOREM Invariance == Spec => []IInv
BY InitHolds, StepKeepsIInv, PTL DEF Spec

(* Setup, the apiserver and its objects stay of their types: every object  *)
(* Apply sends is well-formed, under its own key.                          *)
THEOREM TypeCorrect == Spec => []TypeOK
<1>1. IInv => TypeOK
  BY DEF IInv
<1> QED
  BY <1>1, Invariance, PTL

(* A run is refused for changing a roleRef only when another image was run *)
(* before: whatever failed or was killed, no run of one image is in the    *)
(* way of another (WithoutRBACBindings keeps the bindings out of the first *)
(* apply).                                                                 *)
THEOREM RefusedOnUpgradeOnly == Spec => []RoleRefRejectedOnUpgradeOnly
<1>1. IInv => RoleRefRejectedOnUpgradeOnly
  BY DEF IInv
<1> QED
  BY <1>1, Invariance, PTL

(* All the bindings the apiserver holds grant.                             *)
LEMMA HeldBindingsEffective ==
  ASSUME TypeOK, BindingsInv,
         NEW k \in Keys, store[k] # Nil, k[2] \in RBACBindings
  PROVE  effective(store[k].obj)
<1>1. PICK img \in images : /\ bindable(img.objs)
                            /\ store[k].obj \in ToSet(rbacObjects(img.objs))
  BY DEF BindingsInv
<1>2. img.objs \in Seq(Objects)
  BY ImageObjects DEF TypeOK
<1>3. store[k].obj.kind \in RBACBindings
  BY KindOfKey DEF TypeOK
<1> QED
  BY <1>1, <1>2, <1>3, RBACObjects

(* Wherever setup is, and after any number of failed runs: if a kubeconfig *)
(* is written, some image is applied completely, its bindings are          *)
(* effective and its CRDs are established (WriteKubeconfigFile comes       *)
(* last).                                                                  *)
THEOREM KubeconfigsLast == Spec => []KubeconfigsComeLast
<1>1. ASSUME IInv
      PROVE  KubeconfigsComeLast
  <2>1. SUFFICES ASSUME kubeconfigs # {}
                 PROVE  \E img \in images :
                          applied(img) /\ CRDsOf(img) \subseteq established
    BY DEF KubeconfigsComeLast
  <2>2. PICK img \in images : complete(img)
    BY <1>1, <2>1 DEF IInv, KubeconfigsInv
  <2>3. KeysOf(img) \subseteq Keys
    BY <1>1, ImageKeys DEF IInv, TypeOK
  <2>4. applied(img)
    BY <1>1, <2>2, <2>3, HeldBindingsEffective DEF IInv, complete, applied
  <2> QED
    BY <2>2, <2>4 DEF complete
<1> QED
  BY <1>1, Invariance, PTL

(* What a finished run has left of one object of its image.                *)
LEMMA ConvergedObject ==
  ASSUME TypeOK, BindingsDone(image), WebhooksDone(image, host),
         NEW k \in KeysOf(image)
  PROVE  /\ store[k] # Nil
         /\ \A cc \in ToSet(store[k].obj.hooks) : reachable(cc)
         /\ isCAPICRD(store[k].obj) =>
              store[k].obj.versions \in {{servedCAPIVersion}, Nil}
<1>1. /\ image \in Images /\ host \in ExternalHosts
      /\ image.objs \in Seq(Objects)
      /\ \A o \in ToSet(image.objs) :
           /\ isCAPICRD(o) => o.versions \in {{servedCAPIVersion}, Nil}
           /\ vendored(o)
      /\ bindable(image.objs) /\ webhooksRewritable(image.objs, host)
  BY ImageObjects DEF TypeOK, BindingsDone, WebhooksDone
<1>2. PICK o \in ToSet(image.objs) \cup {AdminClusterRoleBinding(adminCN)} :
        k = applyKey(o)
  BY DEF KeysOf
<1>3. CASE o.kind \in WebhookKinds
  <2>1. o \in ToSet(image.objs)
    BY <1>3, AdminBinding, Kinds
  <2>2. PICK p \in ToSet(rewrittenWebhooks(image.objs, host)) :
          applyKey(p) = applyKey(o)
    BY <1>1, <1>3, <2>1, WebhookBatch
  <2>3. store[k] # Nil /\ store[k].obj = p
    BY <1>2, <2>2 DEF WebhooksDone, holds
  <2>4. /\ \A cc \in ToSet(p.hooks) : reachableFrom(host, cc)
        /\ \E q \in ToSet(image.objs) :
             p.kind = q.kind /\ p.group = q.group /\ p.versions = q.versions
    BY <1>1, WebhookBatch
  <2>5. \A cc \in ToSet(p.hooks) : reachable(cc)
    BY <2>4 DEF reachableFrom, reachable
  <2>6. isCAPICRD(p) => p.versions \in {{servedCAPIVersion}, Nil}
    BY <1>1, <2>4 DEF isCAPICRD
  <2> QED
    BY <2>3, <2>5, <2>6
<1>4. CASE o.kind \notin WebhookKinds
  <2>1. PICK p \in ToSet(rbacObjects(image.objs)) :
          applyKey(p) = applyKey(o) /\ p.kind = o.kind
    BY <1>1, <1>2, RBACObjects
  <2>2. store[k] # Nil /\ store[k].obj = p
    BY <1>2, <1>4, <2>1 DEF BindingsDone, holds
  <2>3. p.hooks = <<>> /\ ToSet(<<>>) = {}
    <3>1. p \in Objects
      BY <1>1, <2>1, BindingKeys
    <3> QED
      BY <1>4, <2>1, <3>1, ObjectFields DEF ToSet
  <2>4. ~isCAPICRD(p)
    BY <1>4, <2>1, Kinds DEF isCAPICRD
  <2> QED
    BY <2>2, <2>3, <2>4
<1> QED
  BY <1>3, <1>4

(* When setup reports ready, everything of its image is in place, whatever *)
(* the runs before it did (setup: "a repeated run ... converges to the     *)
(* same state").                                                           *)
THEOREM ReadyIsConverged == Spec => []ReadyMeansConverged
<1>1. ASSUME IInv
      PROVE  ReadyMeansConverged
  <2>1. SUFFICES ASSUME result = "ready" PROVE ReadyMeansConverged
    BY DEF ReadyMeansConverged
  <2>2. /\ CRDsOf(image) \subseteq established
        /\ BindingsDone(image) /\ WebhooksDone(image, host)
        /\ kubeconfigs = Kubeconfigs
    BY <1>1, <2>1 DEF IInv, ProgressInv
  <2>3. TypeOK /\ BindingsInv /\ KeysOf(image) \subseteq Keys
    BY <1>1, ImageKeys DEF IInv, TypeOK
  <2>4. \A k \in KeysOf(image) :
          /\ store[k] # Nil
          /\ \A cc \in ToSet(store[k].obj.hooks) : reachable(cc)
          /\ isCAPICRD(store[k].obj) =>
               store[k].obj.versions \in {{servedCAPIVersion}, Nil}
    BY <2>2, <2>3, ConvergedObject
  <2>5. applied(image)
    BY <2>3, <2>4, HeldBindingsEffective DEF applied
  <2> QED
    BY <2>2, <2>4, <2>5 DEF ReadyMeansConverged
<1> QED
  BY <1>1, Invariance, PTL

(* No step takes an effective binding back: what Apply overwrites it with  *)
(* is effective too.                                                       *)
THEOREM EffectiveBindingsStay == Spec => BindingsStayEffective
<1> DEFINE Stays == \A k \in Keys :
       (store[k] # Nil /\ k[2] \in RBACBindings /\ effective(store[k].obj))
         => effective(store'[k].obj)
<1>1. ASSUME IInv, [Next]_vars
      PROVE  Stays
  <2>1. IInv' /\ stepEffects
    BY <1>1, StepKeepsIInv, StepEffects DEF IInv
  <2>2. ASSUME NEW k \in Keys, store[k] # Nil, k[2] \in RBACBindings,
               effective(store[k].obj)
        PROVE  effective(store'[k].obj)
    <3>1. CASE store' = store \/ touched
      BY <2>2, <3>1 DEF touched
    <3>2. CASE written
      <4>1. CASE k = key
        <5>1. /\ pc \in {"create", "update"} /\ i \in DOMAIN batch
              /\ store'[k].obj = batch[i]
          BY <3>2, <4>1 DEF written
        <5>2. batch[i].kind \in RBACBindings
          BY <1>1, <2>2, <4>1, <5>1, BatchElement, KindOfKey DEF IInv
        <5> QED
          BY <1>1, <5>1, <5>2, WrittenBinding DEF IInv
      <4>2. CASE k # key
        BY <2>2, <3>2, <4>2 DEF written
      <4> QED
        BY <4>1, <4>2
    <3> QED
      BY <2>1, <3>1, <3>2 DEF stepEffects
  <2> QED
    BY <2>2
<1>2. IInv /\ [Next]_vars => [Stays]_vars
  BY <1>1
<1> QED
  BY <1>2, Invariance, PTL DEF Spec, BindingsStayEffective
=============================================================================
