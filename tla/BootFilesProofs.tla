---------------------------- MODULE BootFilesProofs ----------------------------
(***************************************************************************)
(* What a container finds as it starts: NeverMissesFile and                *)
(* MountsPrepared; and what the e2e driver finds as it returns:            *)
(* BootedMeansSetUp.                                                       *)
(***************************************************************************)
EXTENDS BootOrderProofs, BootDataProofs

-----------------------------------------------------------------------------
(* The static part: what the units mount, open and require.                *)

PKIFiles   == {<<"pki">>} \cup {webhookDir(id) : id \in PodManagers}
certsDir   == <<"webhook-certs">>

preparedDirs(r) == {<<r, sub>> : sub \in ToSet(preparedSubs)}

(* The directories that prepare_state_dirs creates.                        *)
LEMMA PreparedSubsAre ==
  ToSet(preparedSubs) =
    PKIFiles \cup {<<"etcd">>, <<"kubeconfigs">>, <<"abac">>}
<1>1. ToSet(preparedSubs) =
        {<<"pki">>, <<"etcd">>, <<"kubeconfigs">>, <<"abac">>,
         webhookDir("core"), webhookDir("cabpk"), webhookDir("kcp"),
         webhookDir("capd")}
  BY DEF preparedSubs, ToSet
<1> QED
  BY <1>1, ManagersAre DEF PKIFiles

(* What a unit mounts, the installer prepares, but for webhook-certs/.     *)
LEMMA VolumesPrepared ==
  ASSUME NEW id \in Containers, NEW in \in Inputs, NEW v \in volumes(id, in)
  PROVE  v.dir \in preparedDirs(Raw(in.stateDir))
                     \cup {<<Raw(in.stateDir), certsDir>>}
<1> DEFINE subs == ToSet(preparedSubs) \cup {certsDir}
<1>1. PICK sub \in subs, readOnly \in BOOLEAN : v = volume(in, sub, readOnly)
  <2>1. CASE id = "pki"
    BY <2>1, PreparedSubsAre DEF volumes, PKIFiles, certsDir
  <2>2. CASE id = "etcd"
    BY <2>2, PreparedSubsAre DEF volumes, etcdVolumes, PKIFiles
  <2>3. CASE id = "apiserver"
    BY <2>3, PreparedSubsAre DEF volumes, PKIFiles
  <2>4. CASE id = "setup"
    BY <2>4, PreparedSubsAre DEF volumes, PKIFiles, certsDir
  <2>5. CASE id \in PodManagers
    BY <2>5, PreparedSubsAre, ManagersAre DEF volumes, PKIFiles
  <2> QED
    BY <2>1, <2>2, <2>3, <2>4, <2>5, ContainersAre, ManagersAre
<1>2. v.dir = <<Raw(in.stateDir), sub>>
  BY <1>1 DEF volume
<1> QED
  BY <1>1, <1>2 DEF preparedDirs

(* Every directory that the installer prepares is mounted by a unit.       *)
LEMMA PreparedMounted ==
  ASSUME NEW in \in Inputs
  PROVE  preparedDirs(Raw(in.stateDir)) \subseteq allDirs
<1> USE ContainersAre, ManagersAre
<1>1. ASSUME NEW id \in Containers, NEW sub, NEW readOnly \in BOOLEAN,
             volume(in, sub, readOnly) \in volumes(id, in)
      PROVE  <<Raw(in.stateDir), sub>> \in allDirs
  BY <1>1 DEF allDirs, volume
<1>2. /\ volume(in, <<"pki">>, FALSE) \in volumes("pki", in)
      /\ volume(in, <<"etcd">>, FALSE) \in volumes("etcd", in)
      /\ volume(in, <<"abac">>, TRUE) \in volumes("apiserver", in)
      /\ volume(in, <<"kubeconfigs">>, FALSE) \in volumes("setup", in)
  BY DEF volumes, etcdVolumes
<1>3. \A id \in PodManagers :
        id \in Containers /\ volume(in, webhookDir(id), TRUE) \in volumes(id, in)
  BY DEF volumes
<1>4. \A sub \in ToSet(preparedSubs) : <<Raw(in.stateDir), sub>> \in allDirs
  BY <1>1, <1>2, <1>3, PreparedSubsAre DEF PKIFiles
<1> QED
  BY <1>4 DEF preparedDirs

(* What a process opens is below a directory that its unit mounts.         *)
LEMMA OpensVisible ==
  ASSUME NEW id \in Containers, NEW in, NEW sub \in opens(id)
  PROVE  fileVisible(id, in, sub)
<1> USE ContainersAre, ManagersAre
<1>1. \E readOnly \in BOOLEAN : volume(in, sub, readOnly) \in volumes(id, in)
  BY DEF opens, volumes, etcdVolumes
<1>2. PICK v \in volumes(id, in) : v.dir = <<Raw(in.stateDir), sub>>
  BY <1>1 DEF volume
<1>3. IsPrefix(sub, sub)
  BY DEF opens, webhookDir, IsPrefix
<1> QED
  BY <1>2, <1>3 DEF fileVisible

(* What the processes open, one by one.                                    *)
LEMMA OpensAre ==
  ASSUME NEW id \in Containers, NEW sub \in opens(id)
  PROVE  /\ id # "pki"
         /\ \/ sub = <<"abac">> /\ id = "apiserver"
            \/ sub = <<"kubeconfigs">> /\ id \in PodManagers
            \/ sub \in PKIFiles
BY ContainersAre, ManagersAre DEF opens, PKIFiles

(* What each unit requires, directly or not.                               *)
LEMMA RequirementsAre ==
  /\ \A id \in Containers \ {"pki"} : "pki" \in requirements[id]
  /\ \A id \in PodManagers : "setup" \in requirements[id]
<1> USE ContainersAre, ManagersAre
<1>1. "etcd" \in Dependents["pki"]
  BY RequiresAre, DirectDependent
<1>2. "apiserver" \in Dependents["etcd"]
  BY RequiresAre, DirectDependent
<1>3. "setup" \in Dependents["apiserver"]
  BY RequiresAre, DirectDependent
<1>4. \A id \in PodManagers : id \in Dependents["setup"]
  BY RequiresAre, DirectDependent
<1>5. "apiserver" \in Dependents["pki"]
  BY <1>1, <1>2, DependentsTransitive
<1>6. "setup" \in Dependents["pki"]
  BY <1>3, <1>5, DependentsTransitive
<1>7. \A id \in PodManagers : id \in Dependents["pki"]
  BY <1>4, <1>6, DependentsTransitive
<1> QED
  BY <1>1, <1>4, <1>5, <1>6, <1>7, DependentsAre

-----------------------------------------------------------------------------
(* The e2e driver: how far boot has come.                                  *)

afterPKI   == Steps \ {"pki", "wait pki"}
afterSetup == PodManagers \cup {"bindings", "running"}

DriverInv ==
  driver = "e2e" =>
    /\ inst = idle
    /\ \A id \in Containers : ctr[id].st # "off" => ctr[id].in = containerInput
    /\ at \in afterPKI => ctr["pki"].st = "done"
    /\ at \in afterSetup => ctr["setup"].st = "done"

(* The steps of boot, one by one.                                          *)
LEMMA NextIs ==
  /\ next("pki") = "etcd" /\ next("etcd") = "apiserver"
  /\ next("apiserver") = "healthz" /\ next("healthz") = "setup"
  /\ next("setup") = "bindings" /\ next("bindings") = "core"
  /\ next("core") = "cabpk" /\ next("cabpk") = "kcp" /\ next("kcp") = "capd"
  /\ next("capd") = "running" /\ next("running") = "up"
BY DEF next

(* A container that runs changes its state, and keeps its input.           *)
LEMMA ProcessSteps ==
  ASSUME CtrTypeOK, NEW ids, process(ids) \/ \E id \in Containers : crash(id)
  PROVE  \E id \in Containers :
           /\ live(id) /\ ctr'[id].in = ctr[id].in
           /\ ctr'[id].st \in {"done", "exited", "minting", "serving", "applying"}
           /\ \A other \in Containers \ {id} : ctr'[other] = ctr[other]
<1> USE ContainersAre DEF State, Live, Failed
<1>1. PICK id \in Containers,
           st \in {"done", "exited", "minting", "serving", "applying"} :
             becomes(id, st) /\ live(id)
  BY DEF process, pkiKeep, pkiRefuse, pkiMint, pkiFinish, serve,
         setupGenerateFails, setupReach, setupGiveUp, setupFinish,
         setupApplyFails, crash, live
<1>2. ctr[id].st # "off" /\ st \in State
  BY <1>1, LiveIs
<1> QED
  BY <1>1, <1>2, BecomesType

(* A process changes no input and undoes no oneshot that is done.          *)
LEMMA ProcessDriver ==
  ASSUME CtrTypeOK, DriverInv, UNCHANGED <<driver, inst, e2eVars>>, NEW ids,
         process(ids) \/ \E id \in Containers : crash(id)
  PROVE  DriverInv'
<1> SUFFICES ASSUME driver = "e2e" PROVE DriverInv'
  BY DEF DriverInv
<1>1. PICK id \in Containers :
        /\ live(id) /\ ctr'[id].in = ctr[id].in
        /\ ctr'[id].st \in {"done", "exited", "minting", "serving", "applying"}
        /\ \A other \in Containers \ {id} : ctr'[other] = ctr[other]
  BY ProcessSteps
<1>2. ctr[id].st # "off" /\ ctr[id].st # "done"
  BY <1>1, LiveIs
<1>3. containerInput' = containerInput
  BY DEF containerInput, e2eVars
<1> QED
  BY <1>1, <1>2, <1>3, ContainersAre DEF DriverInv, e2eVars

(* The calls of the suite begin before the oneshots, or end the boot.      *)
LEMMA OperateDriver ==
  ASSUME CtrTypeOK, E2ETypeOK, DriverInv, UNCHANGED <<driver, inst>>,
         Create \/ Restart \/ podmanFails
           \/ (\E preserve \in BOOLEAN : Dispose(preserve))
  PROVE  DriverInv'
<1> SUFFICES ASSUME driver = "e2e" PROVE DriverInv'
  BY DEF DriverInv
<1>1. containerInput' = containerInput
  BY DEF containerInput, Create, Restart, podmanFails, goTo, Dispose
<1>2. at' \notin afterPKI /\ at' \notin afterSetup
  BY ContainersAre, ManagersAre
     DEF Create, Restart, podmanFails, Dispose, goTo, firstStep, afterPKI,
         afterSetup, Steps
<1>3. \A id \in Containers : ctr'[id].st = "off" \/ ctr'[id] = ctr[id]
  <2>1. (\E ids : ctr' = stopped(ids)) \/ UNCHANGED ctr
    BY DEF Create, Restart, podmanFails, Dispose, stopped
  <2> QED
    BY <2>1, StoppedType DEF off
<1> QED
  BY <1>1, <1>2, <1>3 DEF DriverInv

(* Every step of boot preserves the invariant: the oneshots' exit codes    *)
(* are looked at.                                                          *)
LEMMA BootDriver ==
  ASSUME CtrTypeOK, E2ETypeOK, DriverInv, UNCHANGED <<driver, inst>>, boot
  PROVE  DriverInv'
<1> SUFFICES ASSUME driver = "e2e" PROVE DriverInv'
  BY DEF DriverInv
<1> USE ContainersAre, ManagersAre, NextIs DEF afterPKI, afterSetup, Steps
<1>1. containerInput' = containerInput
  BY DEF containerInput, boot, startContainer, startOneshot, waitForHealthz,
         ensureDirectManagerBindings, waitForRunning, goTo
<1>2. CASE startContainer
  <2>1. at \in Containers
    BY <1>2 DEF startContainer
  <2>2. containerInput \in Inputs
    BY ContainerInput DEF E2ETypeOK
  <2>3. /\ ctr'[at] = ctr[at] \/ ctr'[at].in = containerInput
        /\ \A id \in Containers \ {at} : ctr'[id] = ctr[id]
    <3>1. CASE live(at)
      BY <1>2, <3>1 DEF startContainer
    <3>2. CASE ~live(at)
      BY <1>2, <2>1, <2>2, <3>2, StartType DEF startContainer
    <3> QED
      BY <3>1, <3>2
  <2>4. \A id \in Containers : ctr'[id].st # "off" => ctr'[id].in = containerInput
    BY <2>3 DEF DriverInv
  <2>5. at' \in {"panicked", waitFor(at), next(at)}
          /\ (at \in Oneshots => at' \in {"panicked", waitFor(at)})
    BY <1>2 DEF startContainer, goTo
  <2>6. at \in Oneshots => at' \notin afterSetup /\ (at' \in afterPKI => at = "setup")
    BY <2>5 DEF waitFor, Oneshots
  <2>7. at \notin Oneshots =>
          /\ at \in afterPKI
          /\ at' \in afterSetup => at \in afterSetup
    BY <2>1, <2>5 DEF Oneshots, waitFor
  <2>8. at' \in afterPKI => at # "pki" /\ ctr["pki"].st = "done"
    BY <2>6, <2>7 DEF DriverInv, Oneshots
  <2>9. at' \in afterSetup => at # "setup" /\ ctr["setup"].st = "done"
    BY <2>6, <2>7 DEF DriverInv, Oneshots
  <2>10. inst' = idle
    BY DEF DriverInv
  <2> QED
    BY <1>1, <2>3, <2>4, <2>8, <2>9, <2>10 DEF DriverInv
<1>3. CASE ~startContainer
  <2>1. UNCHANGED ctr
    BY <1>3 DEF boot, startOneshot, waitForHealthz, ensureDirectManagerBindings,
                waitForRunning, podVars
  <2>2. at' \in afterPKI => at \in afterPKI \/ ctr["pki"].st = "done"
    BY <1>3 DEF boot, startOneshot, waitForHealthz, ensureDirectManagerBindings,
                waitForRunning, goTo, waitFor
  <2>3. at' \in afterSetup => at \in afterSetup \/ ctr["setup"].st = "done"
    BY <1>3 DEF boot, startOneshot, waitForHealthz, ensureDirectManagerBindings,
                waitForRunning, goTo, waitFor
  <2> QED
    BY <1>1, <2>1, <2>2, <2>3 DEF DriverInv
<1> QED
  BY <1>2, <1>3

(* Every step preserves it.                                                *)
LEMMA StepDriver == TypeInv /\ DriverInv /\ [Next]_vars => DriverInv'
<1> SUFFICES ASSUME TypeInv, DriverInv, [Next]_vars PROVE DriverInv'
  OBVIOUS
<1>1. CtrTypeOK /\ E2ETypeOK
  BY PodTypes DEF TypeInv, TypeOK
<1>2. CASE processStep \/ crashStep
  BY <1>1, <1>2, ProcessDriver DEF processStep, crashStep, systemdVars
<1>3. CASE e2eStep
  BY <1>1, <1>3, BootDriver DEF e2eStep, systemdVars
<1>4. CASE systemdStep
  BY <1>4 DEF systemdStep, DriverInv
<1>5. CASE operator
  <2>1. CASE driver = "e2e"
    BY <1>1, <1>5, <2>1, OperateDriver DEF operator, systemdVars
  <2>2. CASE driver # "e2e"
    BY <1>5, <2>2 DEF operator, DriverInv
  <2> QED
    BY <2>1, <2>2
<1>6. CASE UNCHANGED vars
  BY <1>6 DEF vars, podVars, systemdVars, e2eVars, DriverInv, containerInput
<1> QED
  BY <1>2, <1>3, <1>4, <1>5, <1>6 DEF Next

(* At first no container is there.                                         *)
LEMMA InitDriver == Init => DriverInv
BY ContainersAre, ManagersAre
   DEF Init, PodInit, SystemdInit, E2EInit, off, DriverInv, afterPKI, afterSetup,
       Steps

(* Create and Restart look at the exit codes of the oneshots they started, *)
(* and a setup that has succeeded has set up the cluster of the state      *)
(* directory: when they return, pki and setup are done, all the others run *)
(* and the kubeconfigs are there, also if `podman pod stop` failed before. *)
THEOREM ReturnsWhenSetUp == Spec => BootedMeansSetUp
<1> DEFINE Booted ==
             /\ \A id \in Oneshots : ctr[id].st = "done"
             /\ \A id \in Containers \ Oneshots : live(id)
             /\ <<root, root>> \in initialised /\ kubeconfigs[root] # 0
<1>1. ASSUME TypeInv, DriverInv, DataInv, [Next]_vars, at # "up", at' = "up"
      PROVE  Booted
  <2> USE ContainersAre, ManagersAre, NextIs
  <2>1. CtrTypeOK /\ E2ETypeOK
    BY <1>1, PodTypes DEF TypeInv, TypeOK
  <2>2. driver = "e2e" /\ waitForRunning
    BY <1>1
       DEF Next, processStep, systemdStep, e2eStep, operator, crashStep, vars,
           e2eVars, Create, Restart, podmanFails, Dispose, boot, startContainer,
           startOneshot, waitForHealthz, ensureDirectManagerBindings, goTo,
           firstStep, waitFor, Oneshots
  <2>3. at = "running" /\ \A id \in Containers \ Oneshots : live(id)
    BY <1>1, <2>2 DEF waitForRunning, goTo
  <2>4. ctr["pki"].st = "done" /\ ctr["setup"].st = "done"
    BY <1>1, <2>2, <2>3 DEF DriverInv, afterPKI, afterSetup, Steps
  <2>5. dataOf("setup") = root
    BY <1>1, <2>1, <2>2, <2>4, ContainerInput DEF DriverInv, dataOf, root, E2ETypeOK
  <2>6. kubeconfigs[root] # 0 /\ <<root, root>> \in initialised
    BY <1>1, <2>1, <2>4, <2>5, ContainerInput DEF DataInv, OwnClusters, E2ETypeOK
  <2> QED
    BY <2>3, <2>4, <2>6 DEF Oneshots
<1>2. TypeInv /\ DriverInv /\ DataInv /\ [Next]_vars
        => [at # "up" /\ at' = "up" => Booted]_vars
  BY <1>1
<1>3. Spec => [](TypeInv /\ DriverInv /\ DataInv)
  BY InitTypes, StepTypes, InitData, StepData, InitDriver, StepDriver, PTL DEF Spec
<1> QED
  BY <1>2, <1>3, PTL DEF Spec, BootedMeansSetUp

-----------------------------------------------------------------------------
(* pki and the containers that were not stopped: under the e2e driver a    *)
(* container runs only over a complete inventory, and pki begins to write  *)
(* only over another.                                                      *)

othersLive == \E id \in Containers \ {"pki"} : live(id)

MintInv ==
  driver = "e2e" =>
    /\ othersLive => inventory[root] = "complete"
    /\ ctr["pki"].st = "minting" => inventory[root] # "complete"

(* A step that starts no container but pki, lets no pki begin to write and *)
(* touches no inventory preserves it.                                      *)
LEMMA MintKept ==
  ASSUME MintInv, UNCHANGED <<driver, inventory, given>>,
         othersLive' => othersLive,
         ctr'["pki"].st = "minting" => ctr["pki"].st = "minting"
  PROVE  MintInv'
BY DEF MintInv, root

(* The processes: only pki writes an inventory.                            *)
LEMMA ProcessMint ==
  ASSUME CtrTypeOK, HostTypeOK, E2ETypeOK, DriverInv, MintInv,
         UNCHANGED <<driver, e2eVars>>, NEW ids,
         process(ids) \/ \E id \in Containers : crash(id)
  PROVE  MintInv'
<1> USE ContainersAre
<1>1. PICK id \in Containers :
        /\ live(id) /\ ctr'[id].in = ctr[id].in
        /\ ctr'[id].st \in {"done", "exited", "minting", "serving", "applying"}
        /\ \A other \in Containers \ {id} : ctr'[other] = ctr[other]
  BY ProcessSteps
<1>2. \A c \in Containers : live(c)' => live(c)
  BY <1>1, LiveIs
<1>3. othersLive' => othersLive
  BY <1>2 DEF othersLive
<1>4. root' = root
  BY DEF root, e2eVars
<1>5. ASSUME driver = "e2e", pkiMint \/ pkiFinish
      PROVE  rootOf("pki") = root /\ root \in Roots
  <2>1. ctr["pki"].st # "off"
    BY <1>5 DEF pkiMint, pkiFinish
  <2>2. ctr["pki"].in = containerInput
    BY <1>5, <2>1 DEF DriverInv
  <2> QED
    BY <2>1, <2>2, ConfigOf, ContainerInput DEF E2ETypeOK, root
<1>6. CASE pkiMint
  <2>1. ctr'["pki"].st = "minting" /\ \A c \in Containers \ {"pki"} : ctr'[c] = ctr[c]
    BY <1>6, BecomesType DEF pkiMint, State, Live
  <2>2. othersLive' <=> othersLive
    BY <2>1, LiveIs DEF othersLive
  <2>3. driver = "e2e" => ~othersLive /\ inventory'[root] = "partial"
    BY <1>5, <1>6 DEF pkiMint, MintInv, HostTypeOK
  <2> QED
    BY <1>4, <2>2, <2>3 DEF MintInv
<1>7. CASE pkiFinish
  <2>1. ctr'["pki"].st = "done"
    BY <1>7, BecomesType DEF pkiFinish, State
  <2>2. driver = "e2e" => inventory'[root] = "complete"
    BY <1>5, <1>7 DEF pkiFinish, HostTypeOK
  <2> QED
    BY <1>4, <2>1, <2>2 DEF MintInv
<1>8. CASE ~pkiMint /\ ~pkiFinish
  <2>1. UNCHANGED inventory
    BY <1>8 DEF process, pkiKeep, pkiRefuse, serve, setupGenerateFails,
         setupReach, setupGiveUp, setupFinish, setupApplyFails, crash, host
  <2>2. PICK c \in Containers, st \in {"done", "exited", "serving", "applying"} :
          becomes(c, st) /\ live(c)
    BY <1>8 DEF process, pkiKeep, pkiRefuse, serve, setupGenerateFails,
         setupReach, setupGiveUp, setupFinish, setupApplyFails, crash, live, Live
  <2>3. ctr'["pki"].st = "minting" => ctr["pki"].st = "minting"
    BY <2>2, LiveIs, BecomesType DEF State, Live, Failed
  <2> QED
    BY <1>3, <2>1, <2>3, MintKept DEF e2eVars
<1> QED
  BY <1>6, <1>7, <1>8

(* The driver: what it starts after pki it starts over the inventory that  *)
(* pki was done with, and what Dispose empties nobody uses any more.       *)
LEMMA DriverMint ==
  ASSUME CtrTypeOK, E2ETypeOK, DriverInv, DataInv, MintInv, driver = "e2e",
         UNCHANGED driver,
         boot \/ Create \/ Restart \/ podmanFails
           \/ (\E preserve \in BOOLEAN : Dispose(preserve))
  PROVE  MintInv'
<1> USE ContainersAre
<1>0. UNCHANGED given
  BY DEF boot, startContainer, startOneshot, waitForHealthz,
         ensureDirectManagerBindings, waitForRunning, Create, Restart,
         podmanFails, Dispose, goTo
<1>1. CASE startContainer /\ ~live(at) /\ at # "pki"
  <2>1. at \in Containers /\ containerInput \in Inputs /\ UNCHANGED inventory
    BY <1>1, ContainerInput DEF startContainer, E2ETypeOK, host
  <2>2. ctr["pki"].st = "done" /\ dataOf("pki") = root
    <3>1. ctr["pki"].st = "done"
      BY <1>1, <2>1 DEF DriverInv, afterPKI, Steps
    <3> QED
      BY <3>1, ContainerInput DEF DriverInv, E2ETypeOK, dataOf, root
  <2>3. inventory[root] = "complete"
    BY <2>2 DEF DataInv
  <2>4. ctr'["pki"] = ctr["pki"]
    BY <1>1, <2>1, StartType DEF startContainer
  <2> QED
    BY <1>0, <2>1, <2>2, <2>3, <2>4 DEF MintInv, root
<1>2. CASE startContainer /\ ~live(at) /\ at = "pki"
  <2>1. containerInput \in Inputs /\ UNCHANGED inventory /\ start("pki", containerInput)
    BY <1>2, ContainerInput DEF startContainer, E2ETypeOK, host
  <2>2. /\ ctr'["pki"].st # "minting"
        /\ \A id \in Containers \ {"pki"} : ctr'[id] = ctr[id]
    BY <2>1, StartType, OutcomeType
  <2>3. othersLive' => othersLive
    BY <2>2, LiveIs DEF othersLive
  <2> QED
    BY <1>0, <2>1, <2>2, <2>3, MintKept
<1>3. CASE UNCHANGED <<ctr, inventory>>
  <2>1. othersLive' => othersLive
    BY <1>3 DEF othersLive, live
  <2> QED
    BY <1>0, <1>3, <2>1, MintKept
<1>4. CASE \A id \in Containers : ctr'[id].st = "off"
  <2>1. ~othersLive' /\ ctr'["pki"].st # "minting"
    BY <1>4, LiveIs DEF othersLive
  <2> QED
    BY <2>1 DEF MintInv
<1>5. \/ startContainer /\ ~live(at)
      \/ UNCHANGED <<ctr, inventory>>
      \/ \A id \in Containers : ctr'[id].st = "off"
  BY StoppedType
     DEF boot, startContainer, startOneshot, waitForHealthz,
         ensureDirectManagerBindings, waitForRunning, Create, Restart,
         podmanFails, Dispose, off, podVars, host
<1> QED
  BY <1>1, <1>2, <1>3, <1>4, <1>5

(* Every step preserves it.                                                *)
LEMMA StepMint ==
  TypeInv /\ DriverInv /\ DataInv /\ MintInv /\ [Next]_vars => MintInv'
<1> SUFFICES ASSUME TypeInv, DriverInv, DataInv, MintInv, [Next]_vars
             PROVE  MintInv'
  OBVIOUS
<1>1. CtrTypeOK /\ HostTypeOK /\ E2ETypeOK
  BY PodTypes DEF TypeInv, TypeOK
<1>2. CASE processStep \/ crashStep
  BY <1>1, <1>2, ProcessMint DEF processStep, crashStep
<1>3. CASE e2eStep
  BY <1>1, <1>3, DriverMint DEF e2eStep
<1>4. CASE systemdStep
  BY <1>4 DEF systemdStep, MintInv
<1>5. CASE operator
  <2>1. CASE driver = "e2e"
    BY <1>1, <1>5, <2>1, DriverMint DEF operator
  <2>2. CASE driver # "e2e"
    BY <1>5, <2>2 DEF operator, MintInv
  <2> QED
    BY <2>1, <2>2
<1>6. CASE UNCHANGED vars
  BY <1>6 DEF vars, podVars, host, e2eVars, MintInv, root, othersLive, live
<1> QED
  BY <1>2, <1>3, <1>4, <1>5, <1>6 DEF Next

(* At first no container is there.                                         *)
LEMMA InitMint == Init => MintInv
BY ContainersAre, LiveIs DEF Init, PodInit, off, MintInv, othersLive

(* No container of the pod runs while pki writes its files in place: not   *)
(* under systemd, since its unit stops all others and they wait for it,    *)
(* and not under the e2e driver, though containers may run on through its  *)
(* Restart, since pki then has nothing to write.                           *)
THEOREM PKIWritesAlone == Spec => []MintsAlone
<1>1. ASSUME UnitsInv, MintInv, TypeInv, ctr["pki"].st = "minting",
             NEW id \in Containers \ {"pki"}, live(id)
      PROVE  FALSE
  <2> USE ContainersAre
  <2>1. CASE driver = "systemd"
    <3>1. "pki" \in Oneshots /\ id \in Dependents["pki"]
      BY RequirementsAre, DependentsAre DEF Oneshots
    <3> QED
      BY <1>1, <2>1, <3>1, LiveStarted DEF UnitsInv, OrderInv, done
  <2>2. CASE driver = "e2e"
    BY <1>1, <2>2 DEF MintInv, othersLive
  <2> QED
    BY <1>1, <2>1, <2>2 DEF TypeInv, TypeOK
<1>2. UnitsInv /\ MintInv /\ TypeInv => MintsAlone
  BY <1>1 DEF MintsAlone
<1>3. Spec => [](TypeInv /\ UnitsInv /\ DriverInv /\ DataInv /\ MintInv)
  BY InitTypes, StepTypes, InitUnits, UnitsInvHolds, InitDriver, StepDriver,
     InitData, StepData, InitMint, StepMint, PTL DEF Spec
<1> QED
  BY <1>2, <1>3, PTL

-----------------------------------------------------------------------------
(* Who starts a container, and on what.                                    *)

startedWith(id, in) ==
  /\ start(id, in) /\ UNCHANGED host
  /\ \/ driver = "systemd" /\ ready(id)
     \/ driver = "e2e" /\ at = id /\ in = containerInput

(* Only systemd and boot start containers.                                 *)
LEMMA StartSteps ==
  ASSUME TypeInv, [Next]_vars, NEW id \in Containers,
         NEW st \in {"nomount", "nofile"}, becomesAt(id, st)
  PROVE  \E in \in Inputs : startedWith(id, in) /\ outcome(id, in) = st
<1>1. CtrTypeOK /\ SystemdInv /\ E2ETypeOK
  BY PodTypes DEF TypeInv, TypeOK, SystemdInv
<1>2. ctr'[id].st = st /\ ctr'[id] # ctr[id]
  BY DEF becomesAt
<1>3. ~(\E ids : process(ids)) /\ ~(\E c \in Containers : crash(c))
  BY <1>1, <1>2, ProcessSteps
<1>4. ~(\E ids : ctr' = stopped(ids)) /\ ctr' # ctr
  BY <1>1, <1>2, StoppedType DEF off
<1>5. \/ driver = "systemd" /\ \E c \in Containers : runJob(c)
      \/ driver = "e2e" /\ startContainer
  BY <1>3, <1>4
     DEF Next, processStep, systemdStep, e2eStep, operator, crashStep, vars,
         podVars, host, systemd, joinJob, reap, install, install_units,
         reload_daemon, prepare_state_dirs, write_policy, install_killed,
         render_units, systemctl, systemctl_start, systemctl_stop,
         systemctl_restart, reboot, boot, startOneshot, waitForHealthz,
         ensureDirectManagerBindings, waitForRunning, Create, Restart,
         podmanFails, Dispose, stopped
<1>6. ASSUME NEW c \in Containers, NEW in \in Inputs, start(c, in)
      PROVE  c = id /\ outcome(id, in) = st
  BY <1>1, <1>2, <1>6, StartType
<1>7. CASE driver = "systemd" /\ \E c \in Containers : runJob(c)
  <2>1. PICK c \in Containers : runJob(c)
    BY <1>7
  <2>2. ready(c) /\ start(c, loaded[c]) /\ UNCHANGED host
    BY <2>1 DEF runJob
  <2>3. loaded[c] \in Inputs
    BY <1>1, <2>2 DEF ready, SystemdInv, SystemdTypeOK, JobsStartable,
                      startable, UnitNames
  <2> QED
    BY <1>6, <1>7, <2>2, <2>3 DEF startedWith
<1>8. CASE driver = "e2e" /\ startContainer
  <2>1. at \in Containers /\ start(at, containerInput) /\ UNCHANGED host
    BY <1>4, <1>8 DEF startContainer
  <2>2. containerInput \in Inputs
    BY <1>1, ContainerInput DEF E2ETypeOK
  <2> QED
    BY <1>6, <1>8, <2>1, <2>2 DEF startedWith
<1> QED
  BY <1>5, <1>7, <1>8

-----------------------------------------------------------------------------
(* The directories                                                         *)

PreparedInv ==
  /\ \A in \in Inputs :
       Raw(in.stateDir) \in policy => preparedDirs(Raw(in.stateDir)) \subseteq dirs
  /\ inst.pc = "policy" =>
       preparedDirs(installEnv(inst.env).stateDir) \subseteq dirs
  /\ driver = "e2e" /\ at # "none" =>
       \A id \in Containers : mounted(id, containerInput)

(* More directories keep every mount source.                               *)
LEMMA MountedMore ==
  ASSUME dirs \subseteq dirs', NEW id, NEW in, mounted(id, in)
  PROVE  mounted(id, in)'
BY DEF mounted

(* A step that takes no directory away and finishes no preparation.        *)
LEMMA PreparedKept ==
  ASSUME PreparedInv, dirs \subseteq dirs', UNCHANGED <<policy, driver>>,
         inst'.pc = "policy" => UNCHANGED inst,
         driver = "e2e" =>
           UNCHANGED given /\ (at' # "none" => at # "none")
  PROVE  PreparedInv'
<1>1. driver = "e2e" => containerInput' = containerInput
  BY DEF containerInput
<1>2. ASSUME driver' = "e2e", at' # "none"
      PROVE  \A id \in Containers : mounted(id, containerInput)'
  <2>1. \A id \in Containers : mounted(id, containerInput)
    BY <1>2 DEF PreparedInv
  <2> QED
    BY <1>1, <1>2, <2>1, MountedMore DEF mounted
<1> QED
  BY <1>2 DEF PreparedInv, preparedDirs

(* Create makes every directory before the policy.                         *)
LEMMA CreatePrepared ==
  ASSUME E2ETypeOK, PreparedInv, UNCHANGED <<driver, inst>>, Create
  PROVE  PreparedInv'
<1>1. containerInput' = containerInput /\ containerInput \in Inputs
  BY ContainerInput DEF Create, containerInput, E2ETypeOK
<1>2. dirs \subseteq dirs' /\ policy' = policy \cup {Raw(containerInput.stateDir)}
  BY ContainerInput DEF Create, writeABACPolicy, ensureStateDirs, root, E2ETypeOK
<1>3. \A id \in Containers : \A v \in volumes(id, containerInput) : v.dir \in dirs'
  BY DEF Create, ensureStateDirs
<1>4. preparedDirs(Raw(containerInput.stateDir)) \subseteq dirs'
  <2> USE ContainersAre, ManagersAre
  <2> DEFINE in == containerInput
  <2>1. ASSUME NEW id \in Containers, NEW sub, NEW readOnly \in BOOLEAN,
               volume(in, sub, readOnly) \in volumes(id, in)
        PROVE  <<Raw(in.stateDir), sub>> \in dirs'
    BY <1>3, <2>1 DEF volume
  <2>2. /\ volume(in, <<"pki">>, FALSE) \in volumes("pki", in)
        /\ volume(in, <<"etcd">>, FALSE) \in volumes("etcd", in)
        /\ volume(in, <<"abac">>, TRUE) \in volumes("apiserver", in)
        /\ volume(in, <<"kubeconfigs">>, FALSE) \in volumes("setup", in)
    BY DEF volumes, etcdVolumes
  <2>3. \A id \in PodManagers :
          id \in Containers /\ volume(in, webhookDir(id), TRUE) \in volumes(id, in)
    BY DEF volumes
  <2> HIDE DEF in
  <2>4. \A sub \in ToSet(preparedSubs) : <<Raw(in.stateDir), sub>> \in dirs'
    BY <2>1, <2>2, <2>3, PreparedSubsAre DEF PKIFiles
  <2> QED
    BY <2>4 DEF preparedDirs, in
<1>5. \A id \in Containers : mounted(id, containerInput)'
  BY <1>1, <1>3 DEF mounted
<1> QED
  BY <1>2, <1>4, <1>5 DEF PreparedInv, preparedDirs

(* Dispose removes a state directory whole, with its policy.               *)
LEMMA DisposePrepared ==
  ASSUME E2ETypeOK, PreparedInv, DriverInv, driver = "e2e",
         UNCHANGED <<driver, inst>>, Dispose(FALSE)
  PROVE  PreparedInv'
<1>1. dirs' = {d \in dirs : d[1] # root} /\ policy' = policy \ {root} /\ at' = "none"
  BY DEF Dispose
<1>2. inst.pc # "policy"
  BY DEF DriverInv, idle
<1>3. ASSUME NEW in \in Inputs, Raw(in.stateDir) \in policy'
      PROVE  preparedDirs(Raw(in.stateDir)) \subseteq dirs'
  BY <1>1, <1>3 DEF PreparedInv, preparedDirs
<1> QED
  BY <1>1, <1>2, <1>3 DEF PreparedInv, preparedDirs

(* The prefix of full length is the whole.                                 *)
LEMMA SubSeqWhole ==
  ASSUME NEW S, NEW s \in Seq(S)
  PROVE  SubSeq(s, 1, Len(s)) = s
OBVIOUS

(* The installer's list is one of known directories.                       *)
LEMMA PreparedSubsType == preparedSubs \in Seq(Subs)
BY ManagersAre DEF preparedSubs, Subs

(* The installer writes the policy after all of its directories.           *)
LEMMA InstallPrepared ==
  ASSUME SystemdInv, PreparedInv, driver = "systemd", UNCHANGED driver,
         install \/ install_killed \/ (\E env \in Envs : render_units(env))
  PROVE  PreparedInv'
<1> USE DEF idle
<1>1. CASE prepare_state_dirs
  <2>1. /\ dirs' = dirs \cup {<<installEnv(inst.env).stateDir, sub>> :
                               sub \in ToSet(preparedSubs)}
        /\ installEnv(inst'.env).stateDir = installEnv(inst.env).stateDir
    <3>1. SubSeq(preparedSubs, 1, Len(preparedSubs)) = preparedSubs
      BY SubSeqWhole, PreparedSubsType
    <3>2. inst'.env = inst.env
      BY <1>1 DEF prepare_state_dirs, SystemdInv, SystemdTypeOK
    <3> QED
      BY <1>1, <3>1, <3>2 DEF prepare_state_dirs, prepared
  <2>2. preparedDirs(installEnv(inst'.env).stateDir) \subseteq dirs'
    BY <2>1 DEF preparedDirs
  <2>3. UNCHANGED policy /\ dirs \subseteq dirs'
    BY <1>1, <2>1 DEF prepare_state_dirs
  <2> QED
    BY <2>2, <2>3 DEF PreparedInv, preparedDirs
<1>2. CASE write_policy
  <2>1. /\ preparedDirs(installEnv(inst.env).stateDir) \subseteq dirs
        /\ policy' = policy \cup {installEnv(inst.env).stateDir}
        /\ UNCHANGED dirs /\ inst'.pc # "policy"
    BY <1>2 DEF write_policy, PreparedInv
  <2> QED
    BY <2>1 DEF PreparedInv, preparedDirs
<1>3. CASE \/ install_units \/ reload_daemon \/ install_killed
           \/ \E env \in Envs : render_units(env)
  <2>1. dirs \subseteq dirs' /\ UNCHANGED policy
    BY <1>3 DEF install_units, reload_daemon, install_killed, partlyPrepared,
                prepared, render_units, host, podVars
  <2>2. inst'.pc = "policy" => UNCHANGED inst
    BY <1>3 DEF install_units, reload_daemon, install_killed, render_units,
                SystemdInv, SystemdTypeOK
  <2> QED
    BY <2>1, <2>2, PreparedKept
<1> QED
  BY <1>1, <1>2, <1>3 DEF install

(* Nobody else removes a directory or writes a policy.                     *)
LEMMA OtherPrepared ==
  ASSUME SystemdInv, PreparedInv, UNCHANGED driver,
         \/ /\ UNCHANGED <<inst, e2eVars>>
            /\ (\E ids : process(ids)) \/ (\E id \in Containers : crash(id))
         \/ driver = "systemd" /\ UNCHANGED e2eVars /\ (systemd \/ systemctl)
         \/ /\ UNCHANGED inst
            /\ boot \/ Restart \/ podmanFails \/ Dispose(TRUE)
  PROVE  PreparedInv'
<1>1. dirs \subseteq dirs' /\ UNCHANGED policy
  <2>1. ASSUME NEW ids, process(ids)
        PROVE  dirs \subseteq dirs' /\ UNCHANGED policy
    BY <2>1 DEF process, pkiKeep, pkiRefuse, pkiMint, pkiFinish, serve,
                setupGenerateFails, setupReach, setupGiveUp, setupFinish,
                setupApplyFails, host
  <2>2. ASSUME systemctl
        PROVE  dirs \subseteq dirs' /\ UNCHANGED policy
    BY <2>2 DEF systemctl, systemctl_start, systemctl_stop, systemctl_restart,
                reboot, partlyPrepared, prepared, host
  <2>3. ASSUME \/ systemd \/ boot \/ Restart \/ podmanFails \/ Dispose(TRUE)
               \/ \E id \in Containers : crash(id)
        PROVE  dirs \subseteq dirs' /\ UNCHANGED policy
    BY <2>3 DEF systemd, runJob, joinJob, reap, boot, startContainer, startOneshot,
                waitForHealthz, ensureDirectManagerBindings, waitForRunning,
                Restart, podmanFails, Dispose, crash, host, podVars
  <2> QED
    BY <2>1, <2>2, <2>3
<1>2. inst'.pc = "policy" => UNCHANGED inst
  <2>1. CASE reboot
    BY <2>1 DEF reboot, idle
  <2>2. CASE systemd \/ (systemctl /\ ~reboot)
    BY <2>2 DEF systemd, runJob, joinJob, reap, systemctl, systemctl_start,
                systemctl_stop, systemctl_restart
  <2> QED
    BY <2>1, <2>2
<1>3. driver = "e2e" => UNCHANGED given /\ (at' # "none" => at # "none")
  BY ContainersAre
     DEF e2eVars, boot, Restart, podmanFails, Dispose, startContainer, goTo,
         startOneshot, waitForHealthz, ensureDirectManagerBindings,
         waitForRunning, booting, Steps, waitFor
<1> QED
  BY <1>1, <1>2, <1>3, PreparedKept

(* Every step preserves the invariant.                                     *)
LEMMA StepPrepared ==
  TypeInv /\ DriverInv /\ PreparedInv /\ [Next]_vars => PreparedInv'
<1> SUFFICES ASSUME TypeInv, DriverInv, PreparedInv, [Next]_vars
             PROVE  PreparedInv'
  OBVIOUS
<1>1. SystemdInv /\ E2ETypeOK
  BY DEF TypeInv, TypeOK, SystemdInv
<1>2. CASE processStep \/ crashStep
  BY <1>1, <1>2, OtherPrepared DEF processStep, crashStep, systemdVars
<1>3. CASE systemdStep
  BY <1>1, <1>3, OtherPrepared, InstallPrepared DEF systemdStep
<1>4. CASE e2eStep
  BY <1>1, <1>4, OtherPrepared DEF e2eStep, systemdVars
<1>5. CASE operator
  <2>1. CASE driver = "systemd" /\ UNCHANGED <<e2eVars, driver>>
    BY <1>1, <1>5, <2>1, OtherPrepared, InstallPrepared DEF operator
  <2>2. CASE driver = "e2e" /\ UNCHANGED <<systemdVars, driver>>
    BY <1>1, <1>5, <2>2, OtherPrepared, CreatePrepared, DisposePrepared
       DEF operator, systemdVars
  <2> QED
    BY <1>5, <2>1, <2>2 DEF operator
<1>6. CASE UNCHANGED vars
  BY <1>6, PreparedKept DEF vars, podVars, host, systemdVars, e2eVars
<1> QED
  BY <1>2, <1>3, <1>4, <1>5, <1>6 DEF Next

(* It holds on a fresh and on a used host.                                 *)
LEMMA InitPrepared == Init => PreparedInv
<1> SUFFICES ASSUME Init PROVE PreparedInv
  OBVIOUS
<1>1. policy = {} \/ dirs = allDirs
  BY DEF Init, PodInit, freshHost, usedHost
<1>2. inst.pc # "policy" /\ at = "none"
  BY DEF Init, SystemdInit, E2EInit, idle
<1> QED
  BY <1>1, <1>2, PreparedMounted DEF PreparedInv

(* The installer and the e2e driver create what the units mount: a unit    *)
(* whose state directory was prepared lacks at most webhook-certs/, and    *)
(* nothing under the e2e driver, whoever crashed or was killed before.     *)
THEOREM UnitsMount == Spec => MountsPrepared
<1> DEFINE Prepared(id) ==
             becomesAt(id, "nomount") /\ Raw(ctr'[id].in.stateDir) \in policy =>
               /\ driver = "systemd"
               /\ {v.dir : v \in volumes(id, ctr'[id].in)} \ dirs
                    = {<<Raw(ctr'[id].in.stateDir), <<"webhook-certs">>>>}
<1>1. ASSUME TypeInv, PreparedInv, [Next]_vars, NEW id \in Containers,
             becomesAt(id, "nomount"), Raw(ctr'[id].in.stateDir) \in policy
      PROVE  /\ driver = "systemd"
             /\ {v.dir : v \in volumes(id, ctr'[id].in)} \ dirs
                  = {<<Raw(ctr'[id].in.stateDir), <<"webhook-certs">>>>}
  <2>1. PICK in \in Inputs : startedWith(id, in) /\ outcome(id, in) = "nomount"
    BY <1>1, StartSteps
  <2>2. ctr'[id].in = in
    BY <1>1, <2>1, PodTypes, StartType DEF startedWith, TypeInv, TypeOK
  <2>3. ~mounted(id, in)
    BY <2>1 DEF outcome
  <2>4. preparedDirs(Raw(in.stateDir)) \subseteq dirs
    BY <1>1, <2>2 DEF PreparedInv
  <2>5. PICK v \in volumes(id, in) : v.dir \notin dirs
    BY <2>3 DEF mounted
  <2>6. \A w \in volumes(id, in) :
          w.dir \notin dirs => w.dir = <<Raw(in.stateDir), <<"webhook-certs">>>>
    BY <2>4, VolumesPrepared DEF certsDir
  <2>7. driver = "systemd"
    <3>1. ASSUME at = id, driver = "e2e", in = containerInput
          PROVE  FALSE
      <4>1. at # "none"
        BY <3>1, ContainersAre
      <4> QED
        BY <1>1, <2>3, <3>1, <4>1 DEF PreparedInv
    <3> QED
      BY <2>1, <3>1 DEF startedWith
  <2> QED
    BY <2>2, <2>5, <2>6, <2>7
<1>2. TypeInv /\ PreparedInv /\ [Next]_vars
        => [\A id \in Containers : Prepared(id)]_vars
  BY <1>1
<1>3. Spec => [](TypeInv /\ DriverInv /\ PreparedInv)
  BY InitTypes, StepTypes, InitDriver, StepDriver, InitPrepared, StepPrepared, PTL
     DEF Spec
<1> QED
  BY <1>2, <1>3, PTL DEF Spec, MountsPrepared

-----------------------------------------------------------------------------
(* The files                                                               *)

(* The oneshots before a container that is started are done, or its unit   *)
(* and theirs are of different installations.                              *)
LEMMA DoneBefore ==
  ASSUME TypeInv, UnitsInv, DriverInv, NEW id \in Containers, NEW in \in Inputs,
         startedWith(id, in)
  PROVE  /\ id # "pki" => ctr["pki"].st = "done"
         /\ id \in PodManagers => ctr["setup"].st = "done"
<1> USE ContainersAre, ManagersAre
<1>1. CASE driver = "systemd" /\ ready(id)
  BY <1>1, ReadyMeansDone, RequirementsAre, DependentsAre DEF UnitsInv, Oneshots, done
<1>2. CASE driver = "e2e" /\ at = id
  BY <1>2 DEF DriverInv, afterPKI, afterSetup, Steps
<1> QED
  BY <1>1, <1>2 DEF startedWith

(* What a container opens as it starts is written by pki or by setup,      *)
(* which are done by then, or it is the policy: it exits on a missing file *)
(* only if these ran for another state directory, or if it is the          *)
(* apiserver and the installer has not written the policy.                 *)
THEOREM FilesAreThere == Spec => NeverMissesFile
<1> DEFINE Excused(id) ==
             \/ mixed(id)'
             \/ id = "apiserver" /\ Raw(ctr'[id].in.stateDir) \notin policy'
<1>1. ASSUME TypeInv, UnitsInv, DriverInv, DataInv, [Next]_vars,
             NEW id \in Containers, becomesAt(id, "nofile")
      PROVE  Excused(id)
  <2> USE ContainersAre, ManagersAre
  <2>1. PICK in \in Inputs : startedWith(id, in) /\ outcome(id, in) = "nofile"
    BY <1>1, StartSteps
  <2>2. ctr'[id].in = in /\ \A c \in Containers \ {id} : ctr'[c] = ctr[c]
    BY <1>1, <2>1, PodTypes, StartType DEF startedWith, TypeInv, TypeOK
  <2>3. PICK sub \in opens(id) : ~fileExists(in, sub)
    BY <2>1, OpensVisible DEF outcome, readable
  <2> DEFINE Same(other) == ctr[other].in.stateDir = in.stateDir
  <2>4. ASSUME NEW other \in requirements[id], other # id,
               other \in Containers, ~Same(other)
        PROVE  Excused(id)
    BY <2>2, <2>4 DEF mixed
  <2>5. CASE sub = <<"abac">> /\ id = "apiserver"
    BY <2>1, <2>2, <2>3, <2>5 DEF fileExists, startedWith, host
  <2>6. CASE sub = <<"kubeconfigs">> /\ id \in PodManagers
    <3>1. kubeconfigs[Raw(in.stateDir)] = 0
      BY <2>3, <2>6 DEF fileExists
    <3>2. kubeconfigs[dataOf("setup")] # 0
      BY <1>1, <2>1, <2>6, DoneBefore DEF DataInv
    <3>3. ~Same("setup")
      BY <3>1, <3>2 DEF dataOf
    <3> QED
      BY <2>4, <2>6, <3>3, RequirementsAre
  <2>7. CASE sub \in PKIFiles
    <3>1. inventory[Raw(in.stateDir)] # "complete"
      BY <2>3, <2>7 DEF fileExists, PKIFiles, webhookDir
    <3>2. id # "pki"
      BY OpensAre
    <3>3. inventory[dataOf("pki")] = "complete"
      BY <1>1, <2>1, <3>2, DoneBefore DEF DataInv
    <3>4. ~Same("pki")
      BY <3>1, <3>3 DEF dataOf
    <3> QED
      BY <2>4, <3>2, <3>4, RequirementsAre
  <2> QED
    BY <2>5, <2>6, <2>7, OpensAre
<1>2. TypeInv /\ UnitsInv /\ DriverInv /\ DataInv /\ [Next]_vars
        => [\A id \in Containers : becomesAt(id, "nofile") => Excused(id)]_vars
  BY <1>1
<1>3. Spec => [](TypeInv /\ UnitsInv /\ DriverInv /\ DataInv)
  BY InitTypes, StepTypes, InitUnits, UnitsInvHolds, InitDriver, StepDriver,
     InitData, StepData, PTL DEF Spec
<1> QED
  BY <1>2, <1>3, PTL DEF Spec, NeverMissesFile
=============================================================================
