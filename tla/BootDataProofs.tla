----------------------------- MODULE BootDataProofs -----------------------------
(***************************************************************************)
(* What the containers leave on the host: a state directory's inventory,   *)
(* cluster and kubeconfigs once its oneshots are done, and                 *)
(* KubeconfigsReachable.                                                   *)
(***************************************************************************)
EXTENDS BootProofs

-----------------------------------------------------------------------------
(* The steps that a fact about the oneshots' files can depend on; in all   *)
(* others no inventory, kubeconfig or cluster changes, and no container    *)
(* becomes done or begins to apply.                                        *)

quiet ==
  /\ UNCHANGED <<inventory, kubeconfigs, initialised>>
  /\ \A id \in Containers :
       ctr'[id] = ctr[id] \/ ctr'[id].st \notin {"done", "applying"}

quietBut(id) ==
  \A other \in Containers \ {id} : ctr'[other] = ctr[other]

(* A container that starts is neither done nor applying yet.               *)
LEMMA QuietStart ==
  ASSUME CtrTypeOK, NEW id \in Containers, NEW in \in Inputs, start(id, in),
         UNCHANGED <<inventory, kubeconfigs, initialised>>
  PROVE  quiet
<1>1. ctr'[id].st \in {"nomount", "nofile", "noport", "running"}
  BY StartType, OutcomeType
<1> QED
  BY <1>1, StartType DEF quiet

(* Nor is one that exits or begins to serve.                               *)
LEMMA QuietBecomes ==
  ASSUME CtrTypeOK, NEW id \in Containers, ctr[id].st # "off",
         NEW st \in {"exited", "serving"}, becomes(id, st),
         UNCHANGED <<inventory, kubeconfigs, initialised>>
  PROVE  quiet
<1>1. st \in State
  BY DEF State, Live, Failed
<1> QED
  BY <1>1, BecomesType DEF quiet

(* Stopping containers takes no data away.                                 *)
LEMMA QuietStopped ==
  ASSUME CtrTypeOK, NEW ids, ctr' = stopped(ids),
         UNCHANGED <<inventory, kubeconfigs, initialised>>
  PROVE  quiet
BY StoppedType DEF quiet, off

(* The steps of the processes that are not quiet: those of pki, and setup  *)
(* beginning to apply or finishing.                                        *)
LEMMA ProcessKinds ==
  ASSUME CtrTypeOK, NEW ids, process(ids)
  PROVE  quiet \/ pkiKeep \/ pkiMint \/ pkiFinish \/ setupReach \/ setupFinish
<1> USE ContainersAre DEF host
<1>1. CASE pkiRefuse
  BY <1>1, QuietBecomes DEF pkiRefuse
<1>2. CASE serve
  BY <1>2, QuietBecomes DEF serve
<1>3. CASE setupGenerateFails
  BY <1>3, QuietBecomes DEF setupGenerateFails
<1>4. CASE setupGiveUp(ids)
  BY <1>4, QuietBecomes DEF setupGiveUp
<1>5. CASE setupApplyFails
  BY <1>5, QuietBecomes DEF setupApplyFails
<1> QED
  BY <1>1, <1>2, <1>3, <1>4, <1>5 DEF process

(* systemd and the installer touch no data.                                *)
LEMMA SystemdKinds ==
  ASSUME CtrTypeOK, SystemdInv,
         \/ systemd \/ install \/ systemctl \/ install_killed
         \/ \E env \in Envs : render_units(env)
  PROVE  quiet
<1> USE DEF host
<1>1. ASSUME UNCHANGED <<ctr, inventory, kubeconfigs, initialised>>
      PROVE  quiet
  BY <1>1 DEF quiet
<1>2. ASSUME NEW id \in Containers, runJob(id)
      PROVE  quiet
  <2>1. loaded[id] \in Inputs
    BY <1>2 DEF runJob, ready, SystemdInv, SystemdTypeOK, JobsStartable,
                startable, UnitNames
  <2> QED
    BY <1>2, <2>1, QuietStart DEF runJob
<1>3. ASSUME NEW id \in Containers, reap(id) \/ joinJob(id)
      PROVE  quiet
  BY <1>1, <1>3, QuietStopped DEF reap, joinJob, podVars
<1>4. CASE systemctl
  BY <1>1, <1>4, QuietStopped
     DEF systemctl, systemctl_start, systemctl_stop, systemctl_restart, reboot
<1>5. CASE install \/ install_killed \/ \E env \in Envs : render_units(env)
  BY <1>1, <1>5
     DEF install, install_units, reload_daemon, prepare_state_dirs,
         write_policy, install_killed, render_units, podVars
<1> QED
  BY <1>2, <1>3, <1>4, <1>5 DEF systemd

(* The e2e driver touches data in Dispose only.                            *)
LEMMA E2EKinds ==
  ASSUME CtrTypeOK, E2ETypeOK,
         boot \/ Create \/ Restart \/ podmanFails
           \/ (\E preserve \in BOOLEAN : Dispose(preserve))
  PROVE  quiet \/ Dispose(FALSE)
<1> USE DEF host
<1>1. ASSUME UNCHANGED <<ctr, inventory, kubeconfigs, initialised>>
      PROVE  quiet
  BY <1>1 DEF quiet
<1>2. CASE startContainer
  BY <1>1, <1>2, QuietStart, ContainerInput DEF startContainer, E2ETypeOK
<1>3. CASE Create \/ Restart
  BY <1>1, <1>3, QuietStopped DEF Create, Restart, stopped
<1>4. CASE Dispose(TRUE)
  BY <1>4, QuietStopped DEF Dispose, stopped
<1>5. CASE \/ startOneshot("pki") \/ startOneshot("setup") \/ waitForHealthz
           \/ ensureDirectManagerBindings \/ waitForRunning \/ podmanFails
  BY <1>1, <1>5
     DEF startOneshot, waitForHealthz, ensureDirectManagerBindings,
         waitForRunning, podmanFails, podVars
<1> QED
  BY <1>2, <1>3, <1>4, <1>5 DEF boot

(* Every step is quiet, or one of pki, of setup, or Dispose.               *)
LEMMA StepKinds ==
  ASSUME TypeInv, [Next]_vars
  PROVE  \/ quiet
         \/ /\ UNCHANGED <<driver, e2eVars>>
            /\ pkiKeep \/ pkiMint \/ pkiFinish \/ setupReach \/ setupFinish
         \/ driver = "e2e" /\ Dispose(FALSE)
<1>1. CtrTypeOK /\ SystemdInv /\ E2ETypeOK
  BY PodTypes DEF TypeInv, TypeOK, SystemdInv
<1>2. CASE processStep
  BY <1>1, <1>2, ProcessKinds DEF processStep
<1>3. CASE systemdStep
  BY <1>1, <1>3, SystemdKinds DEF systemdStep
<1>4. CASE e2eStep
  BY <1>1, <1>4, E2EKinds DEF e2eStep
<1>5. CASE operator
  BY <1>1, <1>5, SystemdKinds, E2EKinds DEF operator
<1>6. CASE crashStep
  <2>1. PICK id \in Containers : crash(id)
    BY <1>6 DEF crashStep
  <2>2. ctr[id].st # "off"
    BY <2>1, LiveIs DEF crash
  <2> QED
    BY <1>1, <2>1, <2>2, QuietBecomes DEF crash, host
<1>7. CASE UNCHANGED vars
  BY <1>7 DEF vars, podVars, host, quiet
<1> QED
  BY <1>2, <1>3, <1>4, <1>5, <1>6, <1>7 DEF Next

-----------------------------------------------------------------------------
(* What is on the host when a oneshot is done.                             *)

dataOf(id) == Raw(ctr[id].in.stateDir)

(* The kubeconfigs of a state directory are those of a cluster that was    *)
(* set up in it.                                                           *)
OwnClusters == \A r \in Roots : kubeconfigs[r] # 0 => <<r, r>> \in initialised

DataInv ==
  /\ ctr["pki"].st = "done" => inventory[dataOf("pki")] = "complete"
  /\ ctr["setup"].st = "done" => kubeconfigs[dataOf("setup")] # 0
  /\ ctr["setup"].st = "applying" => ctr["setup"].in.bind.port = containerPort
  /\ OwnClusters
  /\ KubeconfigsReachable

(* A quiet step preserves the invariant.                                   *)
LEMMA QuietData == TypeInv /\ DataInv /\ quiet => DataInv'
BY ContainersAre DEF DataInv, quiet, dataOf, OwnClusters, KubeconfigsReachable

(* pki is done only over a complete inventory.                             *)
LEMMA PKIData ==
  ASSUME CtrTypeOK, HostTypeOK, DataInv, pkiKeep \/ pkiMint \/ pkiFinish
  PROVE  DataInv'
<1> USE ContainersAre
<1>1. ctr["pki"].st # "off" /\ UNCHANGED <<kubeconfigs, initialised>>
  BY DEF pkiKeep, pkiMint, pkiFinish, host
<1>2. rootOf("pki") = dataOf("pki") /\ rootOf("pki") \in Roots
  BY <1>1, ConfigOf DEF dataOf
<1>3. /\ ctr'["pki"].in = ctr["pki"].in /\ ctr'["setup"] = ctr["setup"]
      /\ pkiMint => ctr'["pki"].st = "minting"
  BY <1>1, BecomesType DEF pkiKeep, pkiMint, pkiFinish, State, Live
<1>4. ctr'["pki"].st = "done" => inventory'[dataOf("pki")] = "complete"
  <2>1. CASE pkiKeep
    BY <1>2, <2>1 DEF pkiKeep, host
  <2>2. CASE pkiMint
    BY <1>3, <2>2
  <2>3. CASE pkiFinish
    BY <1>2, <2>3 DEF pkiFinish, HostTypeOK
  <2> QED
    BY <2>1, <2>2, <2>3
<1> QED
  BY <1>1, <1>3, <1>4
     DEF DataInv, dataOf, OwnClusters, KubeconfigsReachable

(* setup has found the apiserver at the port that the kubeconfigs will     *)
(* name.                                                                   *)
LEMMA ReachData ==
  ASSUME CtrTypeOK, DataInv, setupReach
  PROVE  DataInv'
<1> USE ContainersAre
<1>1. ctr["setup"].st # "off" /\ UNCHANGED <<inventory, kubeconfigs, initialised>>
  BY DEF setupReach, host
<1>2. /\ ctr'["setup"].st = "applying" /\ ctr'["setup"].in = ctr["setup"].in
      /\ ctr'["pki"] = ctr["pki"]
  BY <1>1, BecomesType DEF setupReach, State, Live
<1>3. listens["apiserver"] = {containerPort}
  BY ManagersAre DEF listens
<1>4. ctr["setup"].in.bind.port = containerPort
  BY <1>1, <1>3, APIServerURLOf DEF setupReach, reachable
<1> QED
  BY <1>1, <1>2, <1>4
     DEF DataInv, dataOf, OwnClusters, KubeconfigsReachable

(* The apiserver that setup has set up has the CA of setup's inventory,    *)
(* and its etcd has the same.                                              *)
LEMMA FinishData ==
  ASSUME CtrTypeOK, HostTypeOK, DataInv, setupFinish
  PROVE  DataInv'
<1> USE ContainersAre
<1>1. ctr["setup"].st # "off" /\ UNCHANGED inventory
  BY DEF setupFinish
<1>2. /\ ctr'["setup"].st = "done" /\ ctr'["setup"].in = ctr["setup"].in
      /\ ctr'["pki"] = ctr["pki"]
  BY <1>1, BecomesType DEF setupFinish, State
<1> DEFINE r == dataOf("setup")
<1>3. rootOf("setup") = r /\ r \in Roots
  BY <1>1, ConfigOf DEF dataOf
<1>4. kubeconfigPort = containerPort
  BY <1>1, APIServerURLOf DEF setupFinish, kubeconfigPort, DataInv
<1>5. Raw(ctr["etcd"].in.stateDir) = r
  BY <1>3 DEF setupFinish, trusts, backed, sameCA
<1> HIDE DEF r
<1>6. /\ initialised' = initialised \cup {<<r, r>>}
      /\ kubeconfigs' = [kubeconfigs EXCEPT ![r] = containerPort]
  BY <1>3, <1>4, <1>5 DEF setupFinish
<1>7. containerPort # 0
  BY DEF containerPort
<1>8. kubeconfigs'[r] = containerPort
        /\ \A q \in Roots \ {r} : kubeconfigs'[q] = kubeconfigs[q]
  BY <1>3, <1>6 DEF HostTypeOK
<1>9. OwnClusters'
  BY <1>6, <1>8 DEF DataInv, OwnClusters
<1>10. KubeconfigsReachable'
  BY <1>8 DEF DataInv, KubeconfigsReachable
<1> QED
  BY <1>1, <1>2, <1>7, <1>8, <1>9, <1>10 DEF DataInv, dataOf, r

(* Dispose empties one state directory when no container is left.          *)
LEMMA DisposeData ==
  ASSUME CtrTypeOK, HostTypeOK, E2ETypeOK, DataInv, Dispose(FALSE)
  PROVE  DataInv'
<1> USE ContainersAre
<1>1. root \in Roots
  BY ContainerInput DEF E2ETypeOK
<1>2. \A id \in Containers : ctr'[id].st = "off"
  BY DEF Dispose, off
<1>3. initialised' = {p \in initialised : p[2] # root}
  BY DEF Dispose
<1>4. kubeconfigs'[root] = 0
        /\ \A r \in Roots \ {root} : kubeconfigs'[r] = kubeconfigs[r]
  BY <1>1 DEF Dispose, HostTypeOK
<1>5. OwnClusters'
  BY <1>1, <1>3, <1>4 DEF DataInv, OwnClusters
<1>6. KubeconfigsReachable'
  BY <1>1, <1>4 DEF DataInv, KubeconfigsReachable
<1> QED
  BY <1>2, <1>5, <1>6 DEF DataInv

(* The invariant holds on a fresh and on a used host.                      *)
LEMMA InitData == Init => DataInv
<1> SUFFICES ASSUME Init PROVE DataInv
  OBVIOUS
<1>1. \A id \in Containers : ctr[id].st = "off"
  BY DEF Init, PodInit, off
<1>2. freshHost \/ usedHost
  BY DEF Init, PodInit
<1>3. OwnClusters
  BY <1>2 DEF freshHost, usedHost, OwnClusters
<1>4. KubeconfigsReachable
  BY <1>2 DEF freshHost, usedHost, KubeconfigsReachable
<1> QED
  BY <1>1, <1>3, <1>4, ContainersAre DEF DataInv

(* Every step preserves it.                                                *)
LEMMA StepData == TypeInv /\ DataInv /\ [Next]_vars => DataInv'
<1> SUFFICES ASSUME TypeInv, DataInv, [Next]_vars PROVE DataInv'
  OBVIOUS
<1>1. CtrTypeOK /\ HostTypeOK /\ E2ETypeOK
  BY PodTypes DEF TypeInv, TypeOK
<1> QED
  BY <1>1, StepKinds, QuietData, PKIData, ReachData, FinishData, DisposeData

(* So it always holds.                                                     *)
LEMMA DataHolds == Spec => []DataInv
<1>1. Spec => [](TypeInv /\ DataInv)
  BY InitTypes, StepTypes, InitData, StepData, PTL DEF Spec
<1> QED
  BY <1>1, PTL

(* Whatever the port of the bind address is, the kubeconfigs that setup    *)
(* writes name the port the apiserver listens on, since setup has called   *)
(* it there before.                                                        *)
THEOREM KubeconfigsName6443 == Spec => []KubeconfigsReachable
<1>1. DataInv => KubeconfigsReachable
  BY DEF DataInv
<1> QED
  BY <1>1, DataHolds, PTL
=============================================================================
