------------------------------ MODULE BootProofs ------------------------------
(***************************************************************************)
(* Theorems about the composition in Boot, and about the way of the        *)
(* configuration: from the environment of the installer through the units  *)
(* to the capishim binary in a container.                                  *)
(***************************************************************************)
EXTENDS Boot, TLAPS

(* The entries of the component table, by their ids.                       *)
LEMMA ComponentsAre ==
  /\ \A spec \in Components :
       \/ spec.id \in {"pki", "etcd", "apiserver", "setup"}
            /\ spec.cn = "" /\ spec.external = FALSE
       \/ spec.id \in {"core", "cabpk", "kcp", "capd"}
            /\ spec.cn # "" /\ spec.external = FALSE
       \/ spec.external = TRUE
  /\ \A id \in {"pki", "etcd", "apiserver", "setup"} :
       \E spec \in Components : spec.id = id /\ spec.external = FALSE
  /\ \A id \in {"core", "cabpk", "kcp", "capd"} :
       \E spec \in Components :
         spec.id = id /\ spec.cn # "" /\ spec.external = FALSE
<1>1. \A id : plain(id).id = id /\ plain(id).cn = "" /\ plain(id).external = FALSE
  BY DEF plain
<1> DEFINE Entry(spec) ==
             \/ spec.id \in {"pki", "etcd", "apiserver", "setup"}
                  /\ spec.cn = "" /\ spec.external = FALSE
             \/ spec.id \in {"core", "cabpk", "kcp", "capd"}
                  /\ spec.cn # "" /\ spec.external = FALSE
             \/ spec.external = TRUE
<1>2. ASSUME NEW spec \in Components
      PROVE  Entry(spec)
  <2>1. CASE \E id \in {"pki", "etcd", "apiserver", "setup"} : spec = plain(id)
    BY <1>1, <2>1
  <2>2. CASE spec = manager("core", "capi-system", "capishim:core-manager",
                            9443, 9451, 8451)
    BY <2>2 DEF manager
  <2>3. CASE spec = manager("cabpk", "capi-kubeadm-bootstrap-system",
                            "capishim:cabpk-manager", 9444, 9452, 8452)
    BY <2>3 DEF manager
  <2>4. CASE spec = manager("kcp", "capi-kubeadm-control-plane-system",
                            "capishim:kcp-manager", 9445, 9453, 8453)
    BY <2>4 DEF manager
  <2>5. CASE spec = manager("capd", "capd-system", "capishim:capd-manager",
                            9446, 9454, 8454)
    BY <2>5 DEF manager
  <2>6. CASE spec = hypervisor
    <3>1. hypervisor.external = TRUE
      BY DEF hypervisor, plain
    <3> QED
      BY <2>6, <3>1, Zenon
  <2>7. \/ \E id \in {"pki", "etcd", "apiserver", "setup"} : spec = plain(id)
        \/ spec = manager("core", "capi-system", "capishim:core-manager",
                          9443, 9451, 8451)
        \/ spec = manager("cabpk", "capi-kubeadm-bootstrap-system",
                          "capishim:cabpk-manager", 9444, 9452, 8452)
        \/ spec = manager("kcp", "capi-kubeadm-control-plane-system",
                          "capishim:kcp-manager", 9445, 9453, 8453)
        \/ spec = manager("capd", "capd-system", "capishim:capd-manager",
                          9446, 9454, 8454)
        \/ spec = hypervisor
    BY DEF Components
  <2> HIDE DEF Entry
  <2> QED
    BY <2>1, <2>2, <2>3, <2>4, <2>5, <2>6, <2>7
<1>3. ASSUME NEW id \in {"pki", "etcd", "apiserver", "setup"}
      PROVE  \E spec \in Components : spec.id = id /\ spec.external = FALSE
  <2>1. plain(id) \in Components
    BY DEF Components
  <2> QED
    BY <1>1, <2>1
<1>4. ASSUME NEW id \in {"core", "cabpk", "kcp", "capd"}
      PROVE  \E spec \in Components :
               spec.id = id /\ spec.cn # "" /\ spec.external = FALSE
  <2>1. CASE id = "core"
    <3> DEFINE spec == manager("core", "capi-system", "capishim:core-manager",
                               9443, 9451, 8451)
    <3>1. spec.id = id /\ spec.cn # "" /\ spec.external = FALSE
      BY <2>1 DEF manager
    <3>2. spec \in Components
      BY DEF Components
    <3> HIDE DEF spec
    <3> QED
      BY <3>1, <3>2
  <2>2. CASE id = "cabpk"
    <3> DEFINE spec == manager("cabpk", "capi-kubeadm-bootstrap-system",
                               "capishim:cabpk-manager", 9444, 9452, 8452)
    <3>1. spec.id = id /\ spec.cn # "" /\ spec.external = FALSE
      BY <2>2 DEF manager
    <3>2. spec \in Components
      BY DEF Components
    <3> HIDE DEF spec
    <3> QED
      BY <3>1, <3>2
  <2>3. CASE id = "kcp"
    <3> DEFINE spec == manager("kcp", "capi-kubeadm-control-plane-system",
                               "capishim:kcp-manager", 9445, 9453, 8453)
    <3>1. spec.id = id /\ spec.cn # "" /\ spec.external = FALSE
      BY <2>3 DEF manager
    <3>2. spec \in Components
      BY DEF Components
    <3> HIDE DEF spec
    <3> QED
      BY <3>1, <3>2
  <2>4. CASE id = "capd"
    <3> DEFINE spec == manager("capd", "capd-system", "capishim:capd-manager",
                               9446, 9454, 8454)
    <3>1. spec.id = id /\ spec.cn # "" /\ spec.external = FALSE
      BY <2>4 DEF manager
    <3>2. spec \in Components
      BY DEF Components
    <3> HIDE DEF spec
    <3> QED
      BY <3>1, <3>2
  <2> QED
    BY <2>1, <2>2, <2>3, <2>4
<1> QED
  BY <1>2, <1>3, <1>4

(* The managers of the pod, from the table.                                *)
LEMMA ManagersAre ==
  PodManagers = {"core", "cabpk", "kcp", "capd"}
<1>1. ASSUME NEW id \in PodManagers
      PROVE  id \in {"core", "cabpk", "kcp", "capd"}
  BY ComponentsAre DEF PodManagers, Managers
<1>2. ASSUME NEW id \in {"core", "cabpk", "kcp", "capd"}
      PROVE  id \in PodManagers
  <2>1. PICK spec \in Components :
               spec.id = id /\ spec.cn # "" /\ spec.external = FALSE
    BY ComponentsAre
  <2> QED
    BY <2>1 DEF PodManagers, Managers
<1> QED
  BY <1>1, <1>2

(* Its containers, from the table.                                         *)
LEMMA ContainersAre ==
  Containers = {"pki", "etcd", "apiserver", "setup",
                "core", "cabpk", "kcp", "capd"}
<1>1. ASSUME NEW id \in Containers
      PROVE  id \in {"pki", "etcd", "apiserver", "setup",
                     "core", "cabpk", "kcp", "capd"}
  <2>1. PICK spec \in Components : ~spec.external /\ id = spec.id
    BY DEF Containers
  <2> QED
    BY <2>1, ComponentsAre
<1>2. ASSUME NEW id \in {"pki", "etcd", "apiserver", "setup",
                        "core", "cabpk", "kcp", "capd"}
      PROVE  id \in Containers
  <2>1. PICK spec \in Components : spec.id = id /\ spec.external = FALSE
    <3>1. CASE id \in {"pki", "etcd", "apiserver", "setup"}
      BY <3>1, ComponentsAre
    <3>2. CASE id \in {"core", "cabpk", "kcp", "capd"}
      BY <3>2, ComponentsAre
    <3> QED
      BY <3>1, <3>2
  <2> QED
    BY <2>1 DEF Containers
<1> QED
  BY <1>1, <1>2

(* What each of them requires directly.                                    *)
LEMMA RequiresAre ==
  /\ Requires \in [Containers -> SUBSET Containers]
  /\ Requires["pki"] = {} /\ Requires["etcd"] = {"pki"}
  /\ Requires["apiserver"] = {"etcd"} /\ Requires["setup"] = {"apiserver"}
  /\ \A id \in PodManagers : Requires[id] = {"setup"}
BY ContainersAre, ManagersAre DEF Requires, managerRequires

-----------------------------------------------------------------------------
(* What Dependents says, for any Requires                                  *)

Closed(S, id) ==
  \A c \in Containers : Requires[c] \cap (S \cup {id}) # {} => c \in S

(* The definition of Dependents, for one unit.                             *)
LEMMA DependentsDef ==
  ASSUME NEW id \in Containers
  PROVE  Dependents[id] =
           {d \in Containers :
              \A S \in SUBSET Containers : Closed(S, id) => d \in S}
BY DEF Dependents, Closed

(* Who requires a unit directly depends on it.                             *)
LEMMA DirectDependent ==
  ASSUME NEW c \in Containers, NEW id \in Requires[c], id \in Containers
  PROVE  c \in Dependents[id]
BY DependentsDef DEF Closed

(* Who depends on a dependent depends on the unit.                         *)
LEMMA DependentsTransitive ==
  ASSUME NEW o \in Containers, NEW r \in Dependents[o], NEW c \in Dependents[r]
  PROVE  c \in Dependents[o]
<1>1. r \in Containers /\ c \in Containers
  BY DependentsDef
<1>2. ASSUME NEW S \in SUBSET Containers, Closed(S, o)
      PROVE  c \in S
  <2>1. r \in S
    BY <1>2, DependentsDef
  <2>2. Closed(S, r)
    BY <1>2, <2>1 DEF Closed
  <2> QED
    BY <1>1, <2>2, DependentsDef
<1> QED
  BY <1>1, <1>2, DependentsDef

(* A dependent of o requires o or another dependent of o.                  *)
LEMMA DependentsStep ==
  ASSUME NEW o \in Containers, NEW c \in Dependents[o]
  PROVE  \E r \in Requires[c] : r = o \/ r \in Dependents[o]
<1> DEFINE S == {d \in Containers :
                   \E r \in Requires[d] : r = o \/ r \in Dependents[o]}
<1>1. ASSUME NEW d \in Containers, Requires[d] \cap (S \cup {o}) # {}
      PROVE  d \in S
  <2>1. PICK r \in Requires[d] : r \in S \/ r = o
    BY <1>1
  <2>2. CASE r = o
    BY <2>1, <2>2
  <2>3. CASE r \in S
    <3>1. r \in Containers
      BY <2>3
    <3>2. PICK q \in Requires[r] : q = o \/ q \in Dependents[o]
      BY <2>3
    <3>3. r \in Dependents[q] /\ q \in Containers
      BY <3>1, <3>2, RequiresAre, DirectDependent
    <3>4. r \in Dependents[o]
      BY <3>2, <3>3, DependentsTransitive
    <3> QED
      BY <2>1, <3>4
  <2> QED
    BY <2>1, <2>2, <2>3
<1>2. S \in SUBSET Containers /\ Closed(S, o)
  BY <1>1 DEF Closed
<1>3. c \in S
  BY <1>2, DependentsDef
<1> QED
  BY <1>3

(* The dependents of every unit, one by one.                               *)
LEMMA DependentsAre ==
  /\ Dependents \in [Containers -> SUBSET Containers]
  /\ requirements \in [Containers -> SUBSET Containers]
  /\ \A c \in Containers, r \in Containers :
       c \in Dependents[r] <=> r \in requirements[c]
BY DEF Dependents, requirements

(* No oneshot depends on itself.                                           *)
LEMMA OneshotsAcyclic ==
  ASSUME NEW o \in Oneshots
  PROVE  o \in Containers /\ o \notin Dependents[o]
<1>1. Oneshots = {"pki", "setup"} /\ o \in Containers
  BY ContainersAre DEF Oneshots
<1>2. \A r \in Containers : "pki" \notin Dependents[r]
  BY DependentsStep, RequiresAre
<1>3. "setup" \notin Dependents["setup"]
  <2> SUFFICES ASSUME "setup" \in Dependents["setup"]
               PROVE  FALSE
    OBVIOUS
  <2>1. "setup" \in Containers
    BY ContainersAre
  <2>2. "apiserver" \in Dependents["setup"]
    <3>1. PICK r \in Requires["setup"] : r = "setup" \/ r \in Dependents["setup"]
      BY <2>1, DependentsStep
    <3> QED
      BY <3>1, RequiresAre
  <2>3. "etcd" \in Dependents["setup"]
    <3>1. PICK r \in Requires["apiserver"] :
                 r = "setup" \/ r \in Dependents["setup"]
      BY <2>1, <2>2, DependentsStep
    <3> QED
      BY <3>1, RequiresAre
  <2>4. "pki" \in Dependents["setup"]
    <3>1. PICK r \in Requires["etcd"] : r = "setup" \/ r \in Dependents["setup"]
      BY <2>1, <2>3, DependentsStep
    <3> QED
      BY <3>1, RequiresAre
  <2> QED
    BY <1>2, <2>1, <2>4
<1> QED
  BY <1>1, <1>2, <1>3

-----------------------------------------------------------------------------
(* Inputs and roots                                                        *)

(* A port that Load accepts fits a kubeconfig.                             *)
LEMMA PortInRange ==
  ASSUME NEW env, bindAddressLoads(env)
  PROVE  bindAddressFromEnv(env).port \in 1..maxPort
<1>1. CASE env.bind # Unset
  <2>1. validateBindAddress(Trim(env.bind))
    BY <1>1 DEF bindAddressLoads
  <2>2. Trim(env.bind).port \in 1..maxPort
    BY <2>1 DEF validateBindAddress, minPort
  <2> QED
    BY <1>1, <2>2 DEF bindAddressFromEnv
<1>2. CASE env.bind = Unset
  <2>1. defaultBindAddress.port = 6443
    BY DEF defaultBindAddress, address, containerPort
  <2>2. defaultBindAddress.port \in 1..maxPort
    BY <2>1 DEF maxPort
  <2>3. bindAddressFromEnv(env) = defaultBindAddress
    BY <1>2 DEF bindAddressFromEnv
  <2> QED
    BY <2>2, <2>3
<1> QED
  BY <1>1, <1>2

(* What is rendered is an Input.                                           *)
LEMMA RenderedInput ==
  ASSUME NEW env \in GoodEnvs
  PROVE  /\ rendered(env) \in Inputs
         /\ rendered(env).bind.port \in 1..maxPort
         /\ installEnv(env).stateDir \in Roots
<1>1. bindAddressLoads(installEnv(env))
  BY DEF GoodEnvs, installable, Loads
<1>2. rendered(env).bind = bindAddressFromEnv(installEnv(env))
  BY DEF rendered, inputOf, Load
<1> QED
  BY <1>1, <1>2, PortInRange DEF Inputs, Roots

(* Every Input has a known state directory and a port in range.            *)
LEMMA InputsAre ==
  ASSUME NEW in \in Inputs
  PROVE  /\ in = [stateDir |-> in.stateDir, bind |-> in.bind]
         /\ in.bind.port \in 1..maxPort
         /\ Raw(in.stateDir) \in Roots
         /\ [in EXCEPT !.bind = defaultBindAddress] \in Inputs
         /\ [in EXCEPT !.bind = defaultBindAddress].stateDir = in.stateDir
         /\ in # NoInput
<1>1. PICK env \in GoodEnvs :
        \/ in = rendered(env)
        \/ in = [rendered(env) EXCEPT !.bind = defaultBindAddress]
  BY DEF Inputs
<1>2. rendered(env) = [stateDir |-> rendered(env).stateDir,
                       bind |-> rendered(env).bind]
  BY DEF rendered, inputOf
<1>3. defaultBindAddress.port \in 1..maxPort
  BY DEF defaultBindAddress, address, containerPort, maxPort
<1>4. in = [stateDir |-> in.stateDir, bind |-> in.bind]
  BY <1>1, <1>2
<1>5. in.bind.port \in 1..maxPort
  BY <1>1, <1>2, <1>3, RenderedInput
<1>6. [in EXCEPT !.bind = defaultBindAddress]
        = [rendered(env) EXCEPT !.bind = defaultBindAddress]
  BY <1>1, <1>2
<1>7. [in EXCEPT !.bind = defaultBindAddress] \in Inputs
  BY <1>6 DEF Inputs
<1>8. [in EXCEPT !.bind = defaultBindAddress].stateDir = in.stateDir
  BY <1>4
<1> QED
  BY <1>4, <1>5, <1>7, <1>8, InputAssumption DEF Roots

-----------------------------------------------------------------------------
(* What happens to the containers                                          *)

CtrTypeOK ==
  /\ ctr \in [Containers -> [st: State, in: Inputs \cup {NoInput}]]
  /\ \A id \in Containers : ctr[id].in = NoInput => ctr[id].st = "off"

(* The type of the containers after one changes its state.                 *)
LEMMA BecomesType ==
  ASSUME CtrTypeOK, NEW id \in Containers, ctr[id].st # "off",
         NEW st \in State, becomes(id, st)
  PROVE  /\ CtrTypeOK'
         /\ ctr'[id].st = st /\ ctr'[id].in = ctr[id].in
         /\ \A other \in Containers \ {id} : ctr'[other] = ctr[other]
BY DEF CtrTypeOK, becomes

(* The outcomes of a start are states.                                     *)
LEMMA OutcomeType ==
  ASSUME NEW id, NEW in
  PROVE  outcome(id, in) \in {"nomount", "nofile", "noport", "running"}
BY DEF outcome

(* The type of the containers after a start.                               *)
LEMMA StartType ==
  ASSUME CtrTypeOK, NEW id \in Containers, NEW in \in Inputs, start(id, in)
  PROVE  /\ CtrTypeOK'
         /\ ctr'[id].st = outcome(id, in) /\ ctr'[id].in = in
         /\ \A other \in Containers \ {id} : ctr'[other] = ctr[other]
<1>1. outcome(id, in) \in State
  BY OutcomeType DEF State, Live, Failed
<1>2. in # NoInput
  BY InputsAre
<1> QED
  BY <1>1, <1>2 DEF CtrTypeOK, start

(* The type of the containers after some are stopped.                      *)
LEMMA StoppedType ==
  ASSUME CtrTypeOK, NEW ids, ctr' = stopped(ids)
  PROVE  /\ CtrTypeOK'
         /\ \A id \in Containers :
              ctr'[id] = IF id \in ids THEN off ELSE ctr[id]
<1>1. off \in [st: State, in: Inputs \cup {NoInput}] /\ off.st = "off"
  BY DEF off, State
<1> QED
  BY <1>1 DEF CtrTypeOK, stopped

(* What it means for a container to be live, before and after a step.      *)
LEMMA LiveIs ==
  ASSUME NEW id \in Containers
  PROVE  /\ live(id) <=> ctr[id].st \in {"running", "minting", "serving", "applying"}
         /\ live(id)' <=> ctr'[id].st \in {"running", "minting", "serving", "applying"}
BY DEF live, Live

(* The capishim binary in a container reads what its unit was rendered     *)
(* from.                                                                   *)
LEMMA ConfigOf ==
  ASSUME CtrTypeOK, NEW id \in Containers, ctr[id].st # "off"
  PROVE  /\ ctr[id].in \in Inputs
         /\ rootOf(id) = Raw(ctr[id].in.stateDir)
         /\ rootOf(id) \in Roots
         /\ id = "setup" => cfgOf(id).bind = ctr[id].in.bind
<1>1. ctr[id].in \in Inputs
  BY DEF CtrTypeOK
<1> DEFINE env == Environment(id, ctr[id].in)
<1>2. /\ env.stateDir = Raw(ctr[id].in.stateDir)
      /\ id = "setup" => env.bind = Raw(ctr[id].in.bind)
  BY DEF Environment
<1>3. env.stateDir # Unset /\ (id = "setup" => env.bind # Unset)
  BY <1>1, <1>2, InputAssumption
<1>4. cfgOf(id).stateDir = stateDirFromEnv(env)
        /\ cfgOf(id).bind = bindAddressFromEnv(env)
  BY DEF cfgOf, Load
<1>5. \A text : Trim(Raw(text)) = text
  BY DEF Trim, Raw
<1>6. stateDirFromEnv(env) = ctr[id].in.stateDir
  BY <1>2, <1>3, <1>5 DEF stateDirFromEnv
<1>7. id = "setup" => bindAddressFromEnv(env) = ctr[id].in.bind
  BY <1>2, <1>3, <1>5 DEF bindAddressFromEnv
<1>8. rootOf(id) = Raw(ctr[id].in.stateDir)
  BY <1>4, <1>6 DEF rootOf
<1>9. rootOf(id) \in Roots
  BY <1>1, <1>8, InputsAre
<1> QED
  BY <1>1, <1>4, <1>7, <1>8, <1>9

(* The port that setup dials is that of its unit's bind address.           *)
LEMMA APIServerURLOf ==
  ASSUME CtrTypeOK, ctr["setup"].st # "off"
  PROVE  apiserverURL.port = ctr["setup"].in.bind.port
BY ContainersAre, ConfigOf DEF apiserverURL, APIServerURL

-----------------------------------------------------------------------------
(* Type correctness *)

HostTypeOK ==
  /\ dirs \subseteq Roots \X Subs
  /\ policy \subseteq Roots
  /\ inventory \in [Roots -> {"none", "partial", "complete"}]
  /\ kubeconfigs \in [Roots -> 0..maxPort]
  /\ initialised \subseteq Roots \X Roots

(* The parts of the type of the pod.                                       *)
LEMMA PodTypes ==
  PodTypeOK <=> /\ HostTypeOK /\ CtrTypeOK
                /\ faults \in 0..MaxFaults /\ ops \in 0..MaxEvents
BY DEF PodTypeOK, HostTypeOK, CtrTypeOK

(* Whatever an Input mounts is a known directory.                          *)
LEMMA VolumeDirs ==
  ASSUME NEW id \in Containers, NEW in \in Inputs, NEW v \in volumes(id, in)
  PROVE  v.dir \in Roots \X Subs
<1>1. PICK sub \in Subs, readOnly \in BOOLEAN : v = volume(in, sub, readOnly)
  <2>1. CASE id = "pki"
    BY <2>1 DEF volumes, Subs
  <2>2. CASE id = "etcd"
    BY <2>2 DEF volumes, Subs, etcdVolumes
  <2>3. CASE id = "apiserver"
    BY <2>3 DEF volumes, Subs
  <2>4. CASE id = "setup"
    BY <2>4 DEF volumes, Subs
  <2>5. CASE id \in PodManagers
    BY <2>5, ManagersAre DEF volumes, Subs
  <2> QED
    BY <2>1, <2>2, <2>3, <2>4, <2>5, ContainersAre, ManagersAre
<1>2. v.dir = <<Raw(in.stateDir), sub>>
  BY <1>1 DEF volume
<1>3. Raw(in.stateDir) \in Roots
  BY InputsAre
<1> QED
  BY <1>1, <1>2, <1>3

(* A live container is neither off nor done.                               *)
LEMMA RunningIs ==
  ASSUME CtrTypeOK, NEW id \in Containers, ctr[id].st \in Live
  PROVE  ctr[id].st # "off" /\ ctr[id].st # "done"
BY DEF Live

(* The processes preserve the types.                                       *)
LEMMA ProcessType ==
  ASSUME PodTypeOK, NEW ids, process(ids)
  PROVE  PodTypeOK'
<1> USE ContainersAre
<1>1. CtrTypeOK /\ HostTypeOK /\ faults \in 0..MaxFaults /\ ops \in 0..MaxEvents
  BY PodTypes
<1>2. faults' \in 0..MaxFaults /\ ops' \in 0..MaxEvents
  <2>1. UNCHANGED <<faults, ops>> \/ fault
    BY DEF process, pkiKeep, pkiRefuse, pkiMint, pkiFinish, serve,
           setupGenerateFails, setupReach, setupGiveUp, setupFinish,
           setupApplyFails
  <2> QED
    BY <1>1, <2>1, BoundAssumption DEF fault
<1> SUFFICES CtrTypeOK' /\ HostTypeOK'
  BY <1>1, <1>2 DEF PodTypeOK, HostTypeOK, CtrTypeOK
<1>3. CASE pkiKeep
  BY <1>1, <1>3, BecomesType DEF pkiKeep, host, HostTypeOK, State
<1>4. CASE pkiRefuse
  BY <1>1, <1>4, BecomesType DEF pkiRefuse, host, HostTypeOK, State, Failed
<1>5. CASE pkiMint
  <2>1. CtrTypeOK'
    BY <1>1, <1>5, BecomesType DEF pkiMint, State, Live
  <2>2. inventory' \in [Roots -> {"none", "partial", "complete"}]
    BY <1>1, <1>5 DEF pkiMint, HostTypeOK
  <2> QED
    BY <1>1, <1>5, <2>1, <2>2 DEF pkiMint, HostTypeOK
<1>6. CASE pkiFinish
  <2>1. CtrTypeOK'
    BY <1>1, <1>6, BecomesType DEF pkiFinish, State
  <2>2. inventory' \in [Roots -> {"none", "partial", "complete"}]
    BY <1>1, <1>6 DEF pkiFinish, HostTypeOK
  <2>3. rootOf("pki") \in Roots
    BY <1>1, <1>6, ConfigOf DEF pkiFinish
  <2>4. dirs' \subseteq Roots \X Subs
    BY <1>1, <1>6, <2>3 DEF pkiFinish, HostTypeOK, Subs
  <2> QED
    BY <1>1, <1>6, <2>1, <2>2, <2>4 DEF pkiFinish, HostTypeOK
<1>7. CASE serve
  BY <1>1, <1>7, BecomesType DEF serve, host, HostTypeOK, State, Live
<1>8. CASE setupGenerateFails
  BY <1>1, <1>8, BecomesType
     DEF setupGenerateFails, host, HostTypeOK, State, Failed
<1>9. CASE setupReach
  BY <1>1, <1>9, BecomesType DEF setupReach, host, HostTypeOK, State, Live
<1>10. CASE setupGiveUp(ids)
  BY <1>1, <1>10, BecomesType DEF setupGiveUp, host, HostTypeOK, State, Failed
<1>11. CASE setupFinish
  <2>1. CtrTypeOK'
    BY <1>1, <1>11, BecomesType DEF setupFinish, State
  <2>2. rootOf("setup") \in Roots
    BY <1>1, <1>11, ConfigOf DEF setupFinish
  <2>3. Raw(ctr["etcd"].in.stateDir) \in Roots
    <3>1. ctr["etcd"].st # "off"
      BY <1>11, LiveIs DEF setupFinish, backed
    <3> QED
      BY <1>1, <3>1, ConfigOf, InputsAre
  <2>4. kubeconfigPort \in 0..maxPort
    <3>1. ctr["setup"].in \in Inputs
      BY <1>1, <1>11, ConfigOf DEF setupFinish
    <3>2. kubeconfigPort = ctr["setup"].in.bind.port
      BY <1>1, <1>11, APIServerURLOf DEF setupFinish, kubeconfigPort
    <3>3. kubeconfigPort \in 1..maxPort
      BY <3>1, <3>2, InputsAre
    <3>4. maxPort \in Nat
      BY DEF maxPort
    <3> QED
      BY <3>3, <3>4
  <2>5. kubeconfigs' \in [Roots -> 0..maxPort]
    BY <1>1, <1>11, <2>4 DEF setupFinish, HostTypeOK
  <2>6. initialised' \subseteq Roots \X Roots
    BY <1>1, <1>11, <2>2, <2>3 DEF setupFinish, HostTypeOK
  <2> QED
    BY <1>1, <1>11, <2>1, <2>5, <2>6 DEF setupFinish, HostTypeOK
<1>12. CASE setupApplyFails
  BY <1>1, <1>12, BecomesType
     DEF setupApplyFails, host, HostTypeOK, State, Failed
<1> QED
  BY <1>3, <1>4, <1>5, <1>6, <1>7, <1>8, <1>9, <1>10, <1>11, <1>12 DEF process

(* So does a crash.                                                        *)
LEMMA CrashType ==
  ASSUME PodTypeOK, NEW id \in Containers, crash(id)
  PROVE  PodTypeOK'
<1>1. CtrTypeOK /\ HostTypeOK /\ faults \in 0..MaxFaults /\ ops \in 0..MaxEvents
  BY PodTypes
<1>2. CtrTypeOK'
  BY <1>1, LiveIs, BecomesType DEF crash, State, Failed
<1>3. HostTypeOK'
  BY <1>1 DEF crash, host, HostTypeOK
<1>4. faults' \in 0..MaxFaults /\ ops' \in 0..MaxEvents
  BY <1>1, BoundAssumption DEF crash, fault
<1> QED
  BY <1>2, <1>3, <1>4 DEF PodTypeOK, HostTypeOK, CtrTypeOK

(* A unit that systemd has loaded stays installed, and what has a job can  *)
(* be started.                                                             *)
JobsStartable ==
  /\ \A name \in UnitNames : loaded[name] # NoInput => units[name] # NoInput
  /\ \A id \in Containers : job[id] # "none" => startable(id)

SystemdInv == SystemdTypeOK /\ JobsStartable

(* The type of the jobs after some are enqueued or fail.                   *)
LEMMA JobsTypes ==
  ASSUME SystemdTypeOK
  PROVE  /\ \A ids : enqueued(ids) \in [Containers -> {"none", "waiting", "running"}]
         /\ \A id : jobFails(id) =>
              job' \in [Containers -> {"none", "waiting", "running"}]
BY DEF SystemdTypeOK, enqueued, jobFails

(* Unless units are loaded, what is startable stays so.                    *)
LEMMA StartableKept ==
  ASSUME UNCHANGED loaded, NEW id
  PROVE  startable(id)' <=> startable(id)
BY DEF startable

(* The type of the units after a prefix of them was installed.             *)
LEMMA InstalledUnits ==
  ASSUME SystemdTypeOK, NEW n, inst # idle, installed(n)
  PROVE  /\ units' \in [UnitNames -> Inputs \cup {NoInput}]
         /\ \A name \in UnitNames : units[name] # NoInput => units'[name] # NoInput
<1>1. rendered(inst.env) \in Inputs /\ rendered(inst.env) # NoInput
  BY RenderedInput, InputsAre DEF SystemdTypeOK
<1> QED
  BY <1>1 DEF installed, SystemdTypeOK

(* The type of the directories after a prefix of them was created.         *)
LEMMA PreparedDirs ==
  ASSUME SystemdTypeOK, HostTypeOK, NEW n \in 0..Len(preparedSubs),
         inst # idle, prepared(n)
  PROVE  dirs' \subseteq Roots \X Subs
<1>1. installEnv(inst.env).stateDir \in Roots
  BY RenderedInput DEF SystemdTypeOK
<1>2. ToSet(SubSeq(preparedSubs, 1, n)) \subseteq Subs
  <2>1. \A i \in 1..Len(preparedSubs) : preparedSubs[i] \in Subs
    BY ManagersAre DEF preparedSubs, Subs
  <2>2. \A i \in DOMAIN SubSeq(preparedSubs, 1, n) :
          SubSeq(preparedSubs, 1, n)[i] \in Subs
    BY <2>1 DEF preparedSubs
  <2> QED
    BY <2>2 DEF ToSet
<1> QED
  BY <1>1, <1>2 DEF prepared, HostTypeOK

(* The installer preserves the types.                                      *)
LEMMA InstallType ==
  ASSUME PodTypeOK, SystemdInv,
         install \/ install_killed \/ (\E env \in Envs : render_units(env))
  PROVE  PodTypeOK' /\ SystemdInv'
<1>1. CtrTypeOK /\ HostTypeOK /\ faults \in 0..MaxFaults /\ ops \in 0..MaxEvents
  BY PodTypes
<1>2. SystemdTypeOK /\ JobsStartable
  BY DEF SystemdInv
<1>3. CASE \E env \in Envs : render_units(env)
  <2>1. PICK env \in Envs : render_units(env)
    BY <1>3
  <2>2. installable(env) => env \in GoodEnvs
    BY DEF GoodEnvs
  <2>3. SystemdTypeOK'
    BY <1>2, <2>1, <2>2 DEF render_units, SystemdTypeOK, idle
  <2>4. JobsStartable'
    BY <1>2, <2>1 DEF render_units, JobsStartable, startable
  <2>5. PodTypeOK'
    BY <1>1, <2>1, BoundAssumption
       DEF render_units, host, operate, PodTypeOK, HostTypeOK, CtrTypeOK
  <2> QED
    BY <2>3, <2>4, <2>5 DEF SystemdInv
<1>4. CASE install_units
  <2>1. inst # idle /\ installed(Len(UNITS))
    BY <1>4 DEF install_units, idle
  <2>2. SystemdTypeOK'
    BY <1>2, <1>4, <2>1, InstalledUnits DEF install_units, SystemdTypeOK, idle
  <2>3. JobsStartable'
    BY <1>2, <1>4, <2>1, InstalledUnits
       DEF install_units, JobsStartable, startable
  <2>4. PodTypeOK'
    BY <1>4 DEF install_units, podVars, host, PodTypeOK
  <2> QED
    BY <2>2, <2>3, <2>4 DEF SystemdInv
<1>5. CASE reload_daemon
  <2>1. SystemdTypeOK'
    BY <1>2, <1>5 DEF reload_daemon, SystemdTypeOK, idle
  <2>2. JobsStartable'
    BY <1>2, <1>5, DependentsAre DEF reload_daemon, JobsStartable, startable, UnitNames
  <2>3. PodTypeOK'
    BY <1>5 DEF reload_daemon, podVars, host, PodTypeOK
  <2> QED
    BY <2>1, <2>2, <2>3 DEF SystemdInv
<1>6. CASE prepare_state_dirs
  <2>1. inst # idle /\ prepared(Len(preparedSubs))
          /\ Len(preparedSubs) \in 0..Len(preparedSubs)
    BY <1>6 DEF prepare_state_dirs, idle, preparedSubs
  <2>2. dirs' \subseteq Roots \X Subs
    BY <1>1, <1>2, <2>1, PreparedDirs
  <2>3. PodTypeOK'
    BY <1>1, <1>6, <2>2 DEF prepare_state_dirs, PodTypeOK, HostTypeOK, CtrTypeOK
  <2>4. SystemdTypeOK'
    BY <1>2, <1>6 DEF prepare_state_dirs, SystemdTypeOK, idle
  <2>5. JobsStartable'
    BY <1>2, <1>6 DEF prepare_state_dirs, JobsStartable, startable
  <2> QED
    BY <2>3, <2>4, <2>5 DEF SystemdInv
<1>7. CASE write_policy
  <2>1. installEnv(inst.env).stateDir \in Roots
    BY <1>2, <1>7, RenderedInput DEF write_policy, SystemdTypeOK, idle
  <2>2. PodTypeOK'
    BY <1>1, <1>7, <2>1 DEF write_policy, PodTypeOK, HostTypeOK, CtrTypeOK
  <2>3. SystemdTypeOK'
    BY <1>2, <1>7 DEF write_policy, SystemdTypeOK
  <2>4. JobsStartable'
    BY <1>2, <1>7 DEF write_policy, JobsStartable, startable
  <2> QED
    BY <2>2, <2>3, <2>4 DEF SystemdInv
<1>8. CASE install_killed
  <2>1. /\ units' \in [UnitNames -> Inputs \cup {NoInput}]
        /\ \A name \in UnitNames : units[name] # NoInput => units'[name] # NoInput
    BY <1>2, <1>8, InstalledUnits
       DEF install_killed, partlyInstalled, SystemdTypeOK
  <2>2. dirs' \subseteq Roots \X Subs
    BY <1>1, <1>2, <1>8, PreparedDirs
       DEF install_killed, partlyPrepared, HostTypeOK
  <2>3. PodTypeOK'
    BY <1>1, <1>8, <2>2, BoundAssumption
       DEF install_killed, fault, PodTypeOK, HostTypeOK, CtrTypeOK
  <2>4. SystemdTypeOK'
    BY <1>2, <1>8, <2>1 DEF install_killed, SystemdTypeOK
  <2>5. JobsStartable'
    BY <1>2, <1>8, <2>1 DEF install_killed, JobsStartable, startable
  <2> QED
    BY <2>3, <2>4, <2>5 DEF SystemdInv
<1> QED
  BY <1>3, <1>4, <1>5, <1>6, <1>7, <1>8 DEF install

(* Only startable units get a job.                                         *)
LEMMA StartsStartable ==
  ASSUME SystemdInv, NEW ids, UNCHANGED loaded, job' = enqueued(ids)
  PROVE  \A id \in Containers : job'[id] # "none" => startable(id)'
BY StartableKept DEF SystemdInv, JobsStartable, enqueued

(* systemctl preserves the types.                                          *)
LEMMA SystemctlType ==
  ASSUME PodTypeOK, SystemdInv, systemctl
  PROVE  PodTypeOK' /\ SystemdInv'
<1>1. CtrTypeOK /\ HostTypeOK /\ faults \in 0..MaxFaults /\ ops \in 0..MaxEvents
  BY PodTypes
<1>2. SystemdTypeOK /\ JobsStartable
  BY DEF SystemdInv
<1>3. CASE systemctl_start
  <2>1. SystemdTypeOK'
    BY <1>2, <1>3, JobsTypes DEF systemctl_start, SystemdTypeOK
  <2>2. JobsStartable'
    BY <1>2, <1>3, StartsStartable DEF systemctl_start, JobsStartable, SystemdInv
  <2>3. PodTypeOK'
    BY <1>1, <1>3, BoundAssumption
       DEF systemctl_start, host, operate, PodTypeOK, HostTypeOK, CtrTypeOK
  <2> QED
    BY <2>1, <2>2, <2>3 DEF SystemdInv
<1>4. ASSUME NEW target \in UnitNames, systemctl_stop(target)
      PROVE  PodTypeOK' /\ SystemdInv'
  <2>1. CtrTypeOK'
    BY <1>1, <1>4, StoppedType DEF systemctl_stop
  <2>2. PodTypeOK'
    BY <1>1, <1>4, <2>1, BoundAssumption
       DEF systemctl_stop, host, operate, PodTypeOK, HostTypeOK, CtrTypeOK
  <2>3. SystemdTypeOK'
    BY <1>2, <1>4 DEF systemctl_stop, SystemdTypeOK
  <2>4. JobsStartable'
    BY <1>2, <1>4 DEF systemctl_stop, JobsStartable, startable
  <2> QED
    BY <2>2, <2>3, <2>4 DEF SystemdInv
<1>5. ASSUME NEW target \in UnitNames, systemctl_restart(target)
      PROVE  PodTypeOK' /\ SystemdInv'
  <2>1. PICK again : ctr' = stopped(again) /\ job' = enqueued(again)
    BY <1>5 DEF systemctl_restart
  <2>2. CtrTypeOK'
    BY <1>1, <2>1, StoppedType
  <2>3. UNCHANGED <<host, units, loaded, inst>> /\ operate
    BY <1>5 DEF systemctl_restart
  <2>4. PodTypeOK'
    BY <1>1, <2>2, <2>3, BoundAssumption
       DEF host, operate, PodTypeOK, HostTypeOK, CtrTypeOK
  <2>5. SystemdTypeOK'
    BY <1>2, <2>1, <2>3, JobsTypes DEF SystemdTypeOK
  <2>6. JobsStartable'
    BY <1>2, <2>1, <2>3, StartsStartable DEF JobsStartable, SystemdInv
  <2> QED
    BY <2>4, <2>5, <2>6 DEF SystemdInv
<1>6. CASE reboot
  <2>1. CtrTypeOK'
    BY <1>1, <1>6, StoppedType DEF reboot
  <2>2. /\ units' \in [UnitNames -> Inputs \cup {NoInput}]
        /\ \A name \in UnitNames : units[name] # NoInput => units'[name] # NoInput
    BY <1>2, <1>6, InstalledUnits DEF reboot, partlyInstalled, SystemdTypeOK, idle
  <2>3. dirs' \subseteq Roots \X Subs
    BY <1>1, <1>2, <1>6, PreparedDirs DEF reboot, partlyPrepared, HostTypeOK, idle
  <2>4. PodTypeOK'
    BY <1>1, <1>6, <2>1, <2>3, BoundAssumption
       DEF reboot, operate, PodTypeOK, HostTypeOK, CtrTypeOK
  <2>5. SystemdTypeOK'
    BY <1>2, <1>6, <2>2 DEF reboot, SystemdTypeOK
  <2>6. JobsStartable'
    BY <1>6, <2>2 DEF reboot, JobsStartable
  <2> QED
    BY <2>4, <2>5, <2>6 DEF SystemdInv
<1> QED
  BY <1>3, <1>4, <1>5, <1>6 DEF systemctl

(* Running jobs preserves the types.                                       *)
LEMMA JobsRunType ==
  ASSUME PodTypeOK, SystemdInv, systemd
  PROVE  PodTypeOK' /\ SystemdInv'
<1>1. CtrTypeOK /\ HostTypeOK /\ faults \in 0..MaxFaults /\ ops \in 0..MaxEvents
  BY PodTypes
<1>2. SystemdTypeOK /\ JobsStartable
  BY DEF SystemdInv
<1>3. ASSUME CtrTypeOK', UNCHANGED <<host, faults, ops>>
      PROVE  PodTypeOK'
  BY <1>1, <1>3 DEF host, PodTypeOK, HostTypeOK, CtrTypeOK
<1>4. ASSUME UNCHANGED <<units, loaded, inst>>,
             job' \in [Containers -> {"none", "waiting", "running"}],
             \A id \in Containers : job'[id] # "none" => job[id] # "none"
      PROVE  SystemdInv'
  BY <1>2, <1>4 DEF SystemdInv, SystemdTypeOK, JobsStartable, startable
<1>5. ASSUME NEW id, jobFails(id)
      PROVE  /\ job' \in [Containers -> {"none", "waiting", "running"}]
             /\ \A c \in Containers : job'[c] # "none" => job[c] # "none"
  BY <1>2, <1>5 DEF jobFails, SystemdTypeOK
<1>6. ASSUME NEW id \in Containers, NEW to \in {"none", "running"},
             job[id] # "none", job' = [job EXCEPT ![id] = to]
      PROVE  /\ job' \in [Containers -> {"none", "waiting", "running"}]
             /\ \A c \in Containers : job'[c] # "none" => job[c] # "none"
  BY <1>2, <1>6 DEF SystemdTypeOK
<1>7. ASSUME NEW id \in Containers, runJob(id)
      PROVE  PodTypeOK' /\ SystemdInv'
  <2>1. job[id] = "waiting" /\ start(id, loaded[id])
    BY <1>7 DEF runJob, ready
  <2>2. loaded[id] \in Inputs
    BY <1>2, <2>1 DEF SystemdTypeOK, JobsStartable, startable, UnitNames
  <2>3. CtrTypeOK'
    BY <1>1, <2>1, <2>2, StartType
  <2>4. \/ jobFails(id)
        \/ \E to \in {"none", "running"} : job' = [job EXCEPT ![id] = to]
    BY <1>7 DEF runJob
  <2> QED
    BY <1>3, <1>4, <1>5, <1>6, <1>7, <2>1, <2>3, <2>4 DEF runJob
<1>8. ASSUME NEW id \in Containers, joinJob(id)
      PROVE  PodTypeOK' /\ SystemdInv'
  <2>1. job[id] = "waiting"
    BY <1>8 DEF joinJob, ready
  <2>2. \E to \in {"none", "running"} : job' = [job EXCEPT ![id] = to]
    BY <1>8 DEF joinJob
  <2>3. PodTypeOK'
    BY <1>8 DEF joinJob, podVars, host, PodTypeOK
  <2> QED
    BY <1>4, <1>6, <1>8, <2>1, <2>2, <2>3 DEF joinJob
<1>9. ASSUME NEW id \in Containers, reap(id)
      PROVE  PodTypeOK' /\ SystemdInv'
  <2>1. CtrTypeOK'
    BY <1>1, <1>9, StoppedType DEF reap, CtrTypeOK
  <2>2. /\ job' \in [Containers -> {"none", "waiting", "running"}]
        /\ \A c \in Containers : job'[c] # "none" => job[c] # "none"
    <3>1. CASE podStops
      BY <1>9, <3>1 DEF reap
    <3>2. CASE ~podStops /\ ctr[id].st = "done"
      BY <1>6, <1>9, <3>2 DEF reap
    <3>3. CASE ~podStops /\ ctr[id].st # "done"
      BY <1>5, <1>9, <3>3 DEF reap
    <3> QED
      BY <3>1, <3>2, <3>3
  <2> QED
    BY <1>3, <1>4, <1>9, <2>1, <2>2 DEF reap
<1> QED
  BY <1>7, <1>8, <1>9 DEF systemd

(* The input of the e2e driver's containers is an Input.                   *)
LEMMA ContainerInput ==
  ASSUME given \in Inputs
  PROVE  /\ containerInput \in Inputs
         /\ containerInput.stateDir = given.stateDir
         /\ root \in Roots
BY InputsAre DEF containerInput, root

(* What follows a step of boot is a step, or its end.                      *)
LEMMA NextStep ==
  ASSUME NEW step \in Steps, step \notin {"wait pki", "wait setup"}
  PROVE  next(step) \in Steps \cup {"up"}
BY ContainersAre DEF next, Steps

(* The e2e driver preserves the types.                                     *)
LEMMA E2EType ==
  ASSUME PodTypeOK, E2ETypeOK,
         boot \/ Create \/ Restart \/ podmanFails
           \/ (\E preserve \in BOOLEAN : Dispose(preserve))
  PROVE  PodTypeOK' /\ E2ETypeOK'
<1>1. CtrTypeOK /\ HostTypeOK /\ faults \in 0..MaxFaults /\ ops \in 0..MaxEvents
  BY PodTypes
<1>2. given \in Inputs /\ at \in Steps \cup {"none", "up", "panicked"}
  BY DEF E2ETypeOK
<1>3. firstStep \in Steps /\ Containers \subseteq Steps
        /\ "wait pki" \in Steps /\ "wait setup" \in Steps
  BY ContainersAre DEF firstStep, Steps
<1>4. ASSUME NEW step \in Steps \cup {"none", "up", "panicked"}, at' = step,
             UNCHANGED given
      PROVE  E2ETypeOK'
  BY <1>2, <1>4, ContainersAre DEF E2ETypeOK, Steps
<1>5. CASE Create
  <2>1. ctr' = stopped(Containers)
    BY <1>5 DEF Create, stopped
  <2>2. CtrTypeOK'
    BY <1>1, <2>1, StoppedType
  <2>3. dirs' \subseteq Roots \X Subs
    BY <1>1, <1>2, <1>5, ContainerInput, VolumeDirs
       DEF Create, ensureStateDirs, HostTypeOK
  <2>4. policy' \subseteq Roots
    BY <1>1, <1>2, <1>5, ContainerInput DEF Create, writeABACPolicy, HostTypeOK
  <2>5. PodTypeOK'
    BY <1>1, <1>5, <2>2, <2>3, <2>4, BoundAssumption
       DEF Create, operate, PodTypeOK, HostTypeOK, CtrTypeOK
  <2> QED
    BY <1>3, <1>4, <1>5, <2>5 DEF Create
<1>6. CASE Restart
  <2>1. CtrTypeOK'
    BY <1>1, <1>6, StoppedType DEF Restart, CtrTypeOK
  <2>2. PodTypeOK'
    BY <1>1, <1>6, <2>1, BoundAssumption
       DEF Restart, operate, host, PodTypeOK, HostTypeOK, CtrTypeOK
  <2> QED
    BY <1>3, <1>4, <1>6, <2>2 DEF Restart
<1>7. ASSUME NEW preserve \in BOOLEAN, Dispose(preserve)
      PROVE  PodTypeOK' /\ E2ETypeOK'
  <2>1. ctr' = stopped(Containers)
    BY <1>7 DEF Dispose, stopped
  <2>2. CtrTypeOK'
    BY <1>1, <2>1, StoppedType
  <2>3. HostTypeOK'
    <3>1. CASE preserve
      BY <1>1, <1>7, <3>1 DEF Dispose, host, HostTypeOK
    <3>2. CASE ~preserve
      <4>1. inventory' \in [Roots -> {"none", "partial", "complete"}]
        BY <1>1, <1>7, <3>2 DEF Dispose, HostTypeOK
      <4>2. kubeconfigs' \in [Roots -> 0..maxPort]
        <5>1. 0 \in 0..maxPort
          BY DEF maxPort
        <5> QED
          BY <1>1, <1>7, <3>2, <5>1 DEF Dispose, HostTypeOK
      <4> QED
        BY <1>1, <1>7, <3>2, <4>1, <4>2 DEF Dispose, HostTypeOK
    <3> QED
      BY <3>1, <3>2
  <2>4. PodTypeOK'
    BY <1>1, <1>7, <2>2, <2>3 DEF Dispose, PodTypeOK, HostTypeOK, CtrTypeOK
  <2> QED
    BY <1>4, <1>7, <2>4 DEF Dispose
<1>8. CASE startContainer
  <2>1. CtrTypeOK'
    <3>1. CASE live(at)
      BY <1>1, <1>8, <3>1 DEF startContainer, CtrTypeOK
    <3>2. CASE ~live(at)
      BY <1>1, <1>2, <1>8, <3>2, StartType, ContainerInput DEF startContainer
    <3> QED
      BY <3>1, <3>2
  <2>2. PodTypeOK'
    BY <1>1, <1>8, <2>1 DEF startContainer, host, PodTypeOK, HostTypeOK, CtrTypeOK
  <2>3. next(at) \in Steps \cup {"up"} /\ waitFor(at) \in Steps
    BY <1>3, <1>8, NextStep, ContainersAre DEF startContainer, waitFor
  <2> QED
    BY <1>4, <1>8, <2>2, <2>3 DEF startContainer, goTo
<1>9. CASE startOneshot("pki") \/ startOneshot("setup")
  <2>1. next("pki") \in Steps /\ next("setup") \in Steps
    BY ContainersAre DEF next, Steps
  <2>2. PodTypeOK'
    BY <1>9 DEF startOneshot, podVars, host, PodTypeOK
  <2> QED
    BY <1>4, <1>9, <2>1, <2>2 DEF startOneshot, goTo
<1>10. CASE waitForHealthz \/ ensureDirectManagerBindings \/ waitForRunning
  <2>1. next("healthz") \in Steps /\ next("bindings") \in Steps
          /\ next("running") = "up"
    BY ContainersAre DEF next, Steps
  <2>2. PodTypeOK'
    BY <1>10 DEF waitForHealthz, ensureDirectManagerBindings, waitForRunning,
                 podVars, host, PodTypeOK
  <2> QED
    BY <1>4, <1>10, <2>1, <2>2
       DEF waitForHealthz, ensureDirectManagerBindings, waitForRunning, goTo
<1>11. CASE podmanFails
  <2>1. PodTypeOK'
    BY <1>1, <1>11, BoundAssumption
       DEF podmanFails, fault, host, PodTypeOK, HostTypeOK, CtrTypeOK
  <2> QED
    BY <1>4, <1>11, <2>1 DEF podmanFails, goTo
<1> QED
  BY <1>5, <1>6, <1>7, <1>8, <1>9, <1>10, <1>11 DEF boot

TypeInv == TypeOK /\ JobsStartable

(* The types hold at first.                                                *)
LEMMA InitTypes == Init => TypeInv
<1> SUFFICES ASSUME Init PROVE TypeInv
  OBVIOUS
<1>1. freshHost \/ usedHost
  BY DEF Init, PodInit
<1>2. HostTypeOK
  <2>1. allDirs \subseteq Roots \X Subs
    BY VolumeDirs DEF allDirs
  <2>2. Roots \X {<<"webhook-certs">>} \subseteq Roots \X Subs
    BY DEF Subs
  <2>3. 0 \in 0..maxPort /\ containerPort \in 0..maxPort
    BY DEF maxPort, containerPort
  <2>4. CASE freshHost
    BY <2>2, <2>3, <2>4 DEF freshHost, HostTypeOK
  <2>5. CASE usedHost
    BY <2>1, <2>3, <2>5 DEF usedHost, HostTypeOK
  <2> QED
    BY <1>1, <2>4, <2>5
<1>3. CtrTypeOK
  <2>1. off \in [st: State, in: Inputs \cup {NoInput}] /\ off.st = "off"
    BY DEF off, State
  <2> QED
    BY <2>1 DEF Init, PodInit, CtrTypeOK
<1>4. PodTypeOK
  BY <1>2, <1>3, BoundAssumption, PodTypes DEF Init, PodInit
<1>5. SystemdTypeOK /\ JobsStartable
  <2>1. PICK in \in {rendered(env) : env \in GoodEnvs} \cup {NoInput} :
          units = [name \in UnitNames |-> in]
    BY DEF Init, SystemdInit
  <2>2. in \in Inputs \cup {NoInput}
    BY <2>1, RenderedInput
  <2> QED
    BY <2>1, <2>2 DEF Init, SystemdInit, SystemdTypeOK, JobsStartable, UnitNames
<1>6. E2ETypeOK /\ driver \in {"systemd", "e2e"}
  BY DEF Init, E2EInit, E2ETypeOK
<1> QED
  BY <1>4, <1>5, <1>6 DEF TypeInv, TypeOK

(* Every step preserves them.                                              *)
LEMMA StepTypes == TypeInv /\ [Next]_vars => TypeInv'
<1> SUFFICES ASSUME TypeInv, [Next]_vars PROVE TypeInv'
  OBVIOUS
<1>1. PodTypeOK /\ SystemdInv /\ E2ETypeOK /\ driver \in {"systemd", "e2e"}
  BY DEF TypeInv, TypeOK, SystemdInv
<1>2. ASSUME PodTypeOK', SystemdInv', E2ETypeOK', UNCHANGED driver
      PROVE  TypeInv'
  BY <1>1, <1>2 DEF TypeInv, TypeOK, SystemdInv
<1>3. ASSUME UNCHANGED systemdVars
      PROVE  SystemdInv'
  BY <1>1, <1>3
     DEF systemdVars, SystemdInv, SystemdTypeOK, JobsStartable, startable
<1>4. ASSUME UNCHANGED e2eVars
      PROVE  E2ETypeOK'
  BY <1>1, <1>4 DEF e2eVars, E2ETypeOK
<1>5. CASE processStep
  BY <1>1, <1>2, <1>3, <1>4, <1>5, ProcessType DEF processStep
<1>6. CASE systemdStep
  BY <1>1, <1>2, <1>4, <1>6, JobsRunType, InstallType DEF systemdStep
<1>7. CASE e2eStep
  BY <1>1, <1>2, <1>3, <1>7, E2EType DEF e2eStep
<1>8. CASE operator
  <2>1. CASE driver = "systemd"
    BY <1>1, <1>2, <1>4, <1>8, <2>1, SystemctlType, InstallType DEF operator
  <2>2. CASE driver = "e2e"
    BY <1>1, <1>2, <1>3, <1>8, <2>2, E2EType DEF operator
  <2> QED
    BY <1>1, <2>1, <2>2
<1>9. CASE crashStep
  BY <1>1, <1>2, <1>3, <1>4, <1>9, CrashType DEF crashStep
<1>10. CASE UNCHANGED vars
  <2>1. PodTypeOK'
    BY <1>1, <1>10 DEF vars, podVars, host, PodTypeOK
  <2> QED
    BY <1>2, <1>3, <1>4, <1>10, <2>1 DEF vars
<1> QED
  BY <1>5, <1>6, <1>7, <1>8, <1>9, <1>10 DEF Next

(* Whatever is installed, started, stopped or crashes, by either driver:   *)
(* the state is one of the model, no job is there without its unit and the *)
(* units it requires, and no container without the input of a unit.        *)
THEOREM BootTypes == Spec => []TypeOK
<1>1. Spec => []TypeInv
  BY InitTypes, StepTypes, PTL DEF Spec
<1>2. TypeInv => TypeOK
  BY DEF TypeInv
<1> QED
  BY <1>1, <1>2, PTL

-----------------------------------------------------------------------------
(* The configuration *)

(* No text of an environment is mistaken for a variable that is unset.     *)
UnsetIsNoText == \A text, padded : [text |-> text, padded |-> padded] # Unset

isText(raw) == raw # Unset /\ raw = [text |-> raw.text, padded |-> raw.padded]

(* Whatever the operator sets, the renderer gets texts.                    *)
LEMMA InstallEnvTexts ==
  ASSUME UnsetIsNoText, NEW env, IsEnv(env), env.home # Unset
  PROVE  isText(installEnv(env).stateDir) /\ isText(installEnv(env).bind)
<1> DEFINE sd == orDefault(env.stateDir,
                   [env.home EXCEPT !.text = HomeStateDir(env.home.text)])
           b  == orDefault(env.bind, Raw(defaultBindAddress))
<1>1. \A text, padded : isText([text |-> text, padded |-> padded])
  BY DEF UnsetIsNoText, isText
<1>2. ASSUME NEW raw, NEW default, IsRaw(raw), isText(default)
      PROVE  isText(orDefault(raw, default))
  BY <1>1, <1>2 DEF orDefault, IsRaw, isText
<1>3. env.home = [text |-> env.home.text, padded |-> env.home.padded]
  BY DEF IsEnv, IsRaw
<1>4. [env.home EXCEPT !.text = HomeStateDir(env.home.text)]
        = [text |-> HomeStateDir(env.home.text), padded |-> env.home.padded]
  BY <1>3
<1>5. isText(sd) /\ isText(b)
  BY <1>1, <1>2, <1>4 DEF IsEnv, Raw
<1>6. installEnv(env) = [env EXCEPT !.stateDir = sd, !.bind = b]
  BY DEF installEnv
<1>7. env = [home |-> env.home, stateDir |-> env.stateDir, bind |-> env.bind,
             hypervisor |-> env.hypervisor]
  BY DEF IsEnv
<1> HIDE DEF sd, b
<1>8. installEnv(env).stateDir = sd /\ installEnv(env).bind = b
  BY <1>6, <1>7
<1> QED
  BY <1>5, <1>8

(* An environment that the installer's Load accepts is rendered, never     *)
(* refused by validateInput, and its port is one; the units then give the  *)
(* binary in a container an environment that it accepts as well, and that  *)
(* it reads as the same state directory, and in setup as the same bind     *)
(* address: what render-quadlet rejects or defaults is decided once.       *)
THEOREM ReadBack ==
  ASSUME UnsetIsNoText, NEW env, IsEnv(env), installable(env), NEW id
  PROVE  LET in   == inputOf(Load(installEnv(env)))
             cenv == Environment(id, in)
         IN  /\ validateInput(in)
             /\ in.bind.port \in minPort..maxPort
             /\ Loads(cenv)
             /\ Load(cenv).stateDir = in.stateDir
             /\ id = "setup" => Load(cenv).bind = in.bind
<1> DEFINE ienv == installEnv(env)
           in   == inputOf(Load(ienv))
           cenv == Environment(id, in)
<1>1. Loads(ienv) /\ ienv.stateDir # Unset /\ ienv.bind # Unset
  BY InstallEnvTexts DEF installable, isText
<1>2. in.stateDir = Trim(ienv.stateDir) /\ in.bind = Trim(ienv.bind)
  BY <1>1 DEF inputOf, Load, stateDirFromEnv, bindAddressFromEnv
<1>3. /\ in.stateDir # NoText /\ in.bind # NoText
      /\ validateBindAddress(in.bind)
  BY <1>1, <1>2 DEF Loads, stateDirLoads, bindAddressLoads
<1>4. /\ cenv.stateDir = Raw(in.stateDir) /\ cenv.hypervisor = Unset
      /\ cenv.bind = IF id = "setup" THEN Raw(in.bind) ELSE Unset
  BY DEF Environment
<1>5. Raw(in.stateDir) # Unset /\ Raw(in.bind) # Unset
  BY DEF UnsetIsNoText, Raw
<1> HIDE DEF ienv, in, cenv
<1>6. \A text : Trim(Raw(text)) = text
  BY DEF Trim, Raw
<1>7. Loads(cenv)
  BY <1>3, <1>4, <1>5, <1>6
     DEF Loads, stateDirLoads, bindAddressLoads, hypervisorWebhookHostLoads
<1>8. Load(cenv).stateDir = in.stateDir /\ (id = "setup" => Load(cenv).bind = in.bind)
  BY <1>4, <1>5, <1>6 DEF Load, stateDirFromEnv, bindAddressFromEnv
<1>9. validateInput(in) /\ in.bind.port \in minPort..maxPort
  BY <1>3 DEF validateInput, validateBindAddress
<1> QED
  BY <1>7, <1>8, <1>9 DEF ienv, in, cenv

(* The directory that the installer prepares is the one the units mount if *)
(* and only if the value of CAPISHIM_STATE_DIR has no white space around   *)
(* it: the script uses the value as it is, render-quadlet trims it.        *)
THEOREM PreparedIsMounted ==
  ASSUME UnsetIsNoText, NEW env, IsEnv(env), installable(env)
  PROVE  Raw(inputOf(Load(installEnv(env))).stateDir) = installEnv(env).stateDir
           <=> installEnv(env).stateDir.padded = FALSE
<1>1. isText(installEnv(env).stateDir)
  BY InstallEnvTexts DEF installable
<1>2. inputOf(Load(installEnv(env))).stateDir = installEnv(env).stateDir.text
  BY <1>1 DEF inputOf, Load, stateDirFromEnv, isText, Trim
<1>3. ASSUME NEW raw, isText(raw)
      PROVE  Raw(raw.text) = raw <=> raw.padded = FALSE
  <2>1. Raw(raw.text).padded = FALSE
    BY DEF Raw
  <2> QED
    BY <1>3, <2>1 DEF isText, Raw
<1> QED
  BY <1>1, <1>2, <1>3

(* The host of the hypervisor's webhooks that an operator sets reaches no  *)
(* container: no unit carries it, and setup uses the default.              *)
THEOREM HypervisorHostIsDefault ==
  ASSUME NEW id, NEW in
  PROVE  Load(Environment(id, in)).hypervisor = defaultHypervisorWebhookHost
BY DEF Load, Environment, hypervisorWebhookHostFromEnv
=============================================================================
