--------------------------------- MODULE Pod ---------------------------------
(***************************************************************************)
(* The containers of the pod over the state directories of the host:       *)
(* what a container needs to start, what the two oneshots (`capishim pki`, *)
(* `capishim setup`), etcd and the apiserver do once they run, and how     *)
(* they fail.  Who starts and stops them is another module's: Systemd for  *)
(* the installed units, E2EDriver for the e2e suite.                       *)
(*                                                                         *)
(* The files of an inventory and the phases of setup are refined by PKI    *)
(* and Setup.  Of them the pod sees: an inventory that is none, partial or *)
(* complete, and a cluster that setup initialised before it wrote the      *)
(* kubeconfigs.                                                            *)
(***************************************************************************)
EXTENDS Quadlet, Sequences, SequencesExt

CONSTANTS
  Envs,        \* environments an operator, or the e2e suite, may have
  NoInput,     \* the input of a unit that is not there
  MaxFaults,   \* bound: crashes, failed commands, untimely timeouts
  MaxEvents    \* bound: these, and what an operator or the e2e suite does

ASSUME EnvsAssumption == \A env \in Envs : IsEnv(env)

GoodEnvs == {env \in Envs : installable(env)}

rendered(env) == inputOf(Load(installEnv(env)))

(* Every bind host with the port the e2e containers are given as well.     *)
Inputs ==
  {rendered(env) : env \in GoodEnvs}
    \cup {[rendered(env) EXCEPT !.bind = defaultBindAddress] : env \in GoodEnvs}

Roots ==
  {installEnv(env).stateDir : env \in GoodEnvs}
    \cup {Raw(in.stateDir) : in \in Inputs}

ASSUME InputAssumption ==
  /\ NoInput \notin Inputs
  /\ \A in \in Inputs : Unset \notin {Raw(in.stateDir), Raw(in.bind)}

ASSUME BoundAssumption == MaxFaults \in Nat /\ MaxEvents \in Nat

(* The directories below a state directory.                                *)
Subs ==
  {<<"pki">>, <<"etcd">>, <<"abac">>, <<"kubeconfigs">>, <<"webhook-certs">>}
    \cup {webhookDir(id) : id \in PodManagers}

Live   == {"running", "minting", "serving", "applying"}
Failed == {"nomount", "nofile", "noport", "exited"}
State  == Live \cup Failed \cup {"off", "done"}

VARIABLES
  dirs,         \* the directories there are: <<root, names below it>>
  policy,       \* the roots with an ABAC policy file
  inventory,    \* of every root: "none", "partial" or "complete"
  kubeconfigs,  \* of every root: the port its kubeconfigs name, 0 if none
  initialised,  \* <<root of setup, root of etcd>> of every finished setup
  ctr,          \* of every container its state and the input of its unit
  faults, ops   \* how many there were

host    == <<dirs, policy, inventory, kubeconfigs, initialised>>
podVars == <<host, ctr, faults, ops>>

PodTypeOK ==
  /\ dirs \subseteq Roots \X Subs
  /\ policy \subseteq Roots
  /\ inventory \in [Roots -> {"none", "partial", "complete"}]
  /\ kubeconfigs \in [Roots -> 0..maxPort]
  /\ initialised \subseteq Roots \X Roots
  /\ ctr \in [Containers -> [st: State, in: Inputs \cup {NoInput}]]
  /\ \A id \in Containers : ctr[id].in = NoInput => ctr[id].st = "off"
  /\ faults \in 0..MaxFaults /\ ops \in 0..MaxEvents

(* Something that somebody does, and something that goes wrong.            *)
operate == ops + faults < MaxEvents /\ ops' = ops + 1 /\ UNCHANGED faults

fault ==
  /\ faults < MaxFaults /\ ops + faults < MaxEvents
  /\ faults' = faults + 1 /\ UNCHANGED ops

off == [st |-> "off", in |-> NoInput]

live(id) == ctr[id].st \in Live

(* Every directory that one of the units mounts.                           *)
allDirs == {v.dir : v \in UNION {volumes(id, in) : id \in Containers,
                                                   in \in Inputs}}

(* A host that nothing of capishim is on, but webhook-certs/, which nobody *)
(* but the e2e driver creates, may have been made by hand; ...             *)
freshHost ==
  /\ dirs \in {{}, Roots \X {<<"webhook-certs">>}}
  /\ policy = {}
  /\ inventory = [root \in Roots |-> "none"]
  /\ kubeconfigs = [root \in Roots |-> 0]
  /\ initialised = {}

(* ... or one on which every root was in use before, at the default port.  *)
usedHost ==
  /\ dirs = allDirs
  /\ policy = Roots
  /\ inventory = [root \in Roots |-> "complete"]
  /\ kubeconfigs = [root \in Roots |-> containerPort]
  /\ initialised = {<<root, root>> : root \in Roots}

PodInit ==
  /\ freshHost \/ usedHost
  /\ ctr = [id \in Containers |-> off]
  /\ faults = 0 /\ ops = 0

-----------------------------------------------------------------------------
(* Starting a container *)

mounted(id, in) == \A v \in volumes(id, in) : v.dir \in dirs

(* A file of an input's root is there ...                                  *)
fileExists(in, sub) ==
  LET root == Raw(in.stateDir)
  IN  CASE sub = <<"abac">>        -> root \in policy
        [] sub = <<"kubeconfigs">> -> kubeconfigs[root] # 0
        [] OTHER                   -> inventory[root] = "complete"

(* ... and below a directory the container mounts.                         *)
fileVisible(id, in, sub) ==
  \E v \in volumes(id, in) :
    v.dir[1] = Raw(in.stateDir) /\ IsPrefix(v.dir[2], sub)

readable(id, in) ==
  \A sub \in opens(id) : fileExists(in, sub) /\ fileVisible(id, in, sub)

portsFree(id) ==
  \A other \in Containers \ {id} :
    live(other) => listens[id] \cap listens[other] = {}

(* The container runtime refuses a missing mount source; a process exits   *)
(* on a file it cannot open and on a port it cannot have.                  *)
outcome(id, in) ==
  IF ~mounted(id, in) THEN "nomount"
  ELSE IF ~readable(id, in) THEN "nofile"
  ELSE IF ~portsFree(id) THEN "noport"
  ELSE "running"

start(id, in) == ctr' = [ctr EXCEPT ![id] = [st |-> outcome(id, in), in |-> in]]

becomes(id, st) == ctr' = [ctr EXCEPT ![id].st = st]

-----------------------------------------------------------------------------
(* capishim pki *)

(* What the capishim binary in the container makes of its environment.     *)
cfgOf(id)  == Load(Environment(id, ctr[id].in))
rootOf(id) == Raw(cfgOf(id).stateDir)

(* A complete inventory is kept as it is.                                  *)
pkiKeep ==
  /\ ctr["pki"].st = "running"
  /\ inventory[rootOf("pki")] = "complete"
  /\ becomes("pki", "done")
  /\ UNCHANGED <<host, faults, ops>>

(* Half a trust anchor, left by a run that was killed, is refused.         *)
pkiRefuse ==
  /\ ctr["pki"].st = "running"
  /\ inventory[rootOf("pki")] = "partial"
  /\ becomes("pki", "exited")
  /\ UNCHANGED <<host, faults, ops>>

(* Mutant: every run issues the certificates anew. *)
pkiMint_Always ==
  /\ ctr["pki"].st = "running"
  /\ inventory' = [inventory EXCEPT ![rootOf("pki")] = "partial"]
  /\ becomes("pki", "minting")
  /\ UNCHANGED <<dirs, policy, kubeconfigs, initialised, faults, ops>>

(* The files are written in place, one after the other.                    *)
pkiMint ==
  /\ ctr["pki"].st = "running"
  /\ inventory[rootOf("pki")] # "complete"
  /\ inventory' = [inventory EXCEPT ![rootOf("pki")] = "partial"]
  /\ becomes("pki", "minting")
  /\ UNCHANGED <<dirs, policy, kubeconfigs, initialised, faults, ops>>

pkiFinish ==
  /\ ctr["pki"].st = "minting"
  /\ inventory' = [inventory EXCEPT ![rootOf("pki")] = "complete"]
  /\ dirs' = dirs \cup {<<rootOf("pki"), webhookDir(id)>> : id \in PodManagers}
  /\ becomes("pki", "done")
  /\ UNCHANGED <<policy, kubeconfigs, initialised, faults, ops>>

-----------------------------------------------------------------------------
(* etcd and the apiserver *)

(* The certificates of a root are those of its own CA.                     *)
sameCA(id, other) == ctr[id].in.stateDir = ctr[other].in.stateDir

(* The apiserver reaches etcd: it serves, or it will.                      *)
backed == live("etcd") /\ live("apiserver") /\ sameCA("apiserver", "etcd")

serve ==
  /\ ctr["apiserver"].st = "running"
  /\ backed
  /\ becomes("apiserver", "serving")
  /\ UNCHANGED <<host, faults, ops>>

-----------------------------------------------------------------------------
(* capishim setup *)

APIServerURL(bind) == [host |-> loopbackHost, port |-> bind.port]

apiserverURL == APIServerURL(cfgOf("setup").bind)

(* setup verifies the apiserver with the CA of its own inventory.          *)
trusts(root) == Raw(ctr["apiserver"].in.stateDir) = root

(* Mutant: the probe goes to the container port. *)
reachable_Container(root) == live("apiserver") /\ trusts(root)

(* An apiserver of setup's root is, or comes to be, at the URL, which is   *)
(* dialled from inside the pod.                                            *)
reachable(root) ==
  /\ live("apiserver") /\ trusts(root)
  /\ apiserverURL.port \in listens["apiserver"]

(* The inventory is not complete and pki/ is mounted read-only.            *)
setupGenerateFails ==
  /\ ctr["setup"].st = "running"
  /\ inventory[rootOf("setup")] # "complete"
  /\ becomes("setup", "exited")
  /\ UNCHANGED <<host, faults, ops>>

(* Any HTTP answer ends the wait: that of an apiserver that serves, or, as *)
(* a fault, that of one which is not ready, or has no etcd, and answers    *)
(* with an error.                                                          *)
setupReach ==
  /\ ctr["setup"].st = "running"
  /\ inventory[rootOf("setup")] = "complete"
  /\ reachable(rootOf("setup"))
  /\ \/ ctr["apiserver"].st = "serving" /\ UNCHANGED <<faults, ops>>
     \/ ctr["apiserver"].st = "running" /\ fault
  /\ becomes("setup", "applying")
  /\ UNCHANGED host

(* The timeout, when nothing that is there, or is being started, will end  *)
(* the wait.                                                               *)
setupGiveUp(starting) ==
  /\ ctr["setup"].st = "running"
  /\ starting \cap {"etcd", "apiserver"} = {}
  /\ inventory[rootOf("setup")] = "complete"
  /\ ~reachable(rootOf("setup"))
       \/ (ctr["apiserver"].st # "serving" /\ ~backed)
  /\ becomes("setup", "exited")
  /\ UNCHANGED <<host, faults, ops>>

kubeconfigPort == apiserverURL.port

(* The manifests are applied, then the kubeconfigs are written.            *)
setupFinish ==
  /\ ctr["setup"].st = "applying"
  /\ ctr["apiserver"].st = "serving" /\ backed /\ trusts(rootOf("setup"))
  /\ initialised' = initialised \cup
                      {<<rootOf("setup"), Raw(ctr["etcd"].in.stateDir)>>}
  /\ kubeconfigs' = [kubeconfigs EXCEPT ![rootOf("setup")] = kubeconfigPort]
  /\ becomes("setup", "done")
  /\ UNCHANGED <<dirs, policy, inventory, faults, ops>>

setupApplyFails ==
  /\ ctr["setup"].st = "applying"
  /\ ~(ctr["apiserver"].st = "serving" /\ backed /\ trusts(rootOf("setup")))
  /\ becomes("setup", "exited")
  /\ UNCHANGED <<host, faults, ops>>

process(starting) ==
  \/ pkiKeep \/ pkiRefuse \/ pkiMint \/ pkiFinish
  \/ serve
  \/ setupGenerateFails \/ setupReach \/ setupGiveUp(starting)
  \/ setupFinish \/ setupApplyFails

-----------------------------------------------------------------------------
(* A process dies, or setup's timeout or one of its calls fails although   *)
(* the apiserver was coming up.                                            *)
crash(id) ==
  /\ live(id)
  /\ fault
  /\ becomes(id, "exited")
  /\ UNCHANGED host

(* What is left of the containers in ids when they are stopped.            *)
stopped(ids) == [id \in Containers |-> IF id \in ids THEN off ELSE ctr[id]]
=============================================================================
