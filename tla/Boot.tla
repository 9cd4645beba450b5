--------------------------------- MODULE Boot ---------------------------------
(***************************************************************************)
(* The pod with one of its two drivers: systemd with the installed units,  *)
(* or the e2e suite.                                                       *)
(***************************************************************************)
EXTENDS Systemd, E2EDriver

VARIABLE driver

vars == <<podVars, systemdVars, e2eVars, driver>>

TypeOK ==
  /\ driver \in {"systemd", "e2e"}
  /\ PodTypeOK /\ SystemdTypeOK /\ E2ETypeOK

Init ==
  /\ driver \in {"systemd", "e2e"}
  /\ PodInit /\ SystemdInit /\ E2EInit

(* Containers whose start is under way.                                    *)
starting == {id \in Containers : job[id] # "none"}

processStep == process(starting) /\ UNCHANGED <<systemdVars, e2eVars, driver>>

systemdStep ==
  /\ driver = "systemd"
  /\ systemd \/ install
  /\ UNCHANGED <<e2eVars, driver>>

e2eStep ==
  /\ driver = "e2e"
  /\ boot
  /\ UNCHANGED <<systemdVars, driver>>

(* What somebody does, or what goes wrong; nobody has to.                  *)
operator ==
  \/ /\ driver = "systemd"
     /\ systemctl \/ (\E env \in Envs : render_units(env)) \/ install_killed
     /\ UNCHANGED <<e2eVars, driver>>
  \/ /\ driver = "e2e"
     /\ \/ Create \/ Restart \/ podmanFails
        \/ \E preserve \in BOOLEAN : Dispose(preserve)
     /\ UNCHANGED <<systemdVars, driver>>

crashStep ==
  /\ \E id \in Containers : crash(id)
  /\ UNCHANGED <<systemdVars, e2eVars, driver>>

Next == processStep \/ systemdStep \/ e2eStep \/ operator \/ crashStep

(* The machine does not stop while a process, a job of systemd, a started  *)
(* installer or a started boot can go on; which of them goes on is open.   *)
Fairness == WF_vars(processStep \/ systemdStep \/ e2eStep)

Spec == Init /\ [][Next]_vars /\ Fairness

-----------------------------------------------------------------------------
(* Properties *)

(* Safety.  Under systemd, whatever is started, stopped, restarted or      *)
(* crashes and in whatever order, no container runs while a oneshot it     *)
(* depends on is not done: none meets files that pki has not written yet,  *)
(* and no manager runs while setup applies (Requires= and After= of the    *)
(* units, RemainAfterExit=yes).                                            *)
OneshotsFirst ==
  driver = "systemd" =>
    \A oneshot \in Oneshots : \A id \in Dependents[oneshot] :
      live(id) => ctr[oneshot].st = "done"

(* Safety.  While `capishim pki` writes certificates and keys, each in     *)
(* place, no other container of the pod runs, so none reads half a file.   *)
(* Under systemd that is the order of the units.  Under the e2e driver,    *)
(* whose Restart goes on when the pod could not be stopped, it takes that  *)
(* the containers still running were started over a complete inventory,    *)
(* that nobody took it from them, and that Generate then writes nothing.   *)
MintsAlone ==
  ctr["pki"].st = "minting" => \A id \in Containers \ {"pki"} : ~live(id)

(* Safety.  A kubeconfig never names a port that nothing listens on in the *)
(* pod, although setup derives its port from the bind address and the      *)
(* apiserver does not: setup has reached the apiserver there before.       *)
KubeconfigsReachable == \A r \in Roots : kubeconfigs[r] \in {0, containerPort}

becomesAt(id, st) == ctr[id].st # st /\ ctr'[id].st = st

(* The unit of id is for another state directory than one it requires.     *)
mixed(id) ==
  \E other \in requirements[id] : ctr[other].in.stateDir # ctr[id].in.stateDir

(* Action property.  No process exits for a file that is not there,        *)
(* unless it was installed for another state directory than a unit it      *)
(* requires, or the apiserver was started before the installer wrote the   *)
(* policy: what a container opens is written by a unit before it and below *)
(* a directory it mounts.                                                  *)
NeverMissesFile ==
  [][\A id \in Containers : becomesAt(id, "nofile") =>
       \/ mixed(id)'
       \/ id = "apiserver" /\ Raw(ctr'[id].in.stateDir) \notin policy']_vars

(* Action property.  Once the state directory of a unit was prepared, by   *)
(* the installer or by the e2e driver, the unit starts but for one         *)
(* directory, which only the e2e driver creates (prepare_state_dirs,       *)
(* ensureStateDirs).                                                       *)
MountsPrepared ==
  [][\A id \in Containers :
       becomesAt(id, "nomount") /\ Raw(ctr'[id].in.stateDir) \in policy =>
         /\ driver = "systemd"
         /\ {v.dir : v \in volumes(id, ctr'[id].in)} \ dirs
              = {<<Raw(ctr'[id].in.stateDir), <<"webhook-certs">>>>}]_vars

(* Action property.  When the e2e driver's Create or Restart returns, both *)
(* oneshots of this boot have succeeded, every other container runs and    *)
(* the cluster is set up, even if containers of the last boot were never   *)
(* stopped (Restart: "returns only when the stack is ready again").        *)
BootedMeansSetUp ==
  [][at # "up" /\ at' = "up" =>
       /\ \A id \in Oneshots : ctr[id].st = "done"
       /\ \A id \in Containers \ Oneshots : live(id)
       /\ <<root, root>> \in initialised /\ kubeconfigs[root] # 0]_vars

(* No operator, no fault comes any more.                                   *)
leftAlone == ops + faults = MaxEvents

(* One complete installation is loaded, with the port of the apiserver,    *)
(* and every container is active or has a pending job: `systemctl start`   *)
(* or `restart` was called.  No inventory is half written, but by a        *)
(* running pki, and setup has not met an apiserver that is gone, or one    *)
(* that answered before it was ready: any answer ends its wait, and the    *)
(* next call fails.                                                        *)
comingUp(in) ==
  /\ driver = "systemd" /\ leftAlone
  /\ inst = idle
  /\ in.bind.port = containerPort
  /\ \A name \in UnitNames : loaded[name] = in
  /\ \A id \in Containers : mounted(id, in)
  /\ Raw(in.stateDir) \in policy
  /\ \A id \in Containers :
       \/ job[id] = "waiting"
       \/ (active(id) \/ activating(id)) /\ ctr[id].in = in
  /\ inventory[Raw(in.stateDir)] = "partial" => ctr["pki"].st = "minting"
  /\ \/ ctr["setup"].st = "done"
     \/ ctr["setup"].st # "applying" /\ ctr["apiserver"].st # "serving"
     \/ ctr["apiserver"].st = "serving" /\ backed

(* Create or Restart of the e2e driver has begun to boot, at an address    *)
(* that its probe reaches.                                                 *)
booted ==
  /\ driver = "e2e" /\ leftAlone
  /\ at = firstStep
  /\ probed
  /\ inventory[root] # "partial"

isUp ==
  /\ \A id \in Oneshots : ctr[id].st = "done"
  /\ \A id \in Containers \ Oneshots : live(id)
  /\ driver = "e2e" => at = "up"

(* Liveness.  Whatever ran, failed or was killed before, a pod that is     *)
(* started and left alone comes up, all of it: no leftover, no order of    *)
(* the jobs and no pair of listeners is in the way.                        *)
ComesUp == (booted \/ \E in \in Inputs : comingUp(in)) ~> isUp

(* Documented, and violated.  After an installation that ran to its end,   *)
(* every directory that a unit mounts is there (hack/install-quadlet.sh:   *)
(* "a clean host that runs only `make install-quadlet` boots without the   *)
(* state prep the e2e shim performs").                                     *)
InstalledUnitsMount ==
  \A id \in Containers :
    ctr[id].st = "nomount" => Raw(ctr[id].in.stateDir) \notin policy
=============================================================================
