------------------------------- MODULE Systemd -------------------------------
(***************************************************************************)
(* The pod under systemd: hack/install-quadlet.sh installs the rendered    *)
(* units and prepares the state directory, and systemd runs the services   *)
(* the quadlet generator makes of the installed units.                     *)
(*                                                                         *)
(* systemd and the generator are modelled from how the units use them:     *)
(*  - starting any of the services starts the pod, which wants all of      *)
(*    them; a unit whose requirements are not there cannot be started;     *)
(*  - a start job waits for the pending start jobs of the units the unit   *)
(*    is After; when one fails, the jobs of the units that require the     *)
(*    failed one, directly or not, fail with it;                           *)
(*  - the start job of a oneshot lasts until it exits, that of a notify    *)
(*    unit until its process runs;                                         *)
(*  - a unit that is stopped or restarted takes along those that require   *)
(*    it; one that exits by itself does not;                               *)
(*  - there is no Restart= in the units, and no [Install], so that a       *)
(*    reboot starts nothing.                                               *)
(***************************************************************************)
EXTENDS Pod

VARIABLES
  units,     \* the installed unit files: the input each was rendered from
  loaded,    \* the units as systemd has loaded them
  job,       \* of every container the state of its start job
  inst       \* the running installer

systemdVars == <<units, loaded, job, inst>>

UNITS == <<podUnitName, "pki", "etcd", "apiserver", "setup",
           "core", "cabpk", "kcp", "capd">>
UnitNames == {podUnitName} \cup Containers

(* Mutant: the installer does not create the data directory of etcd. *)
preparedSubs_NoEtcd ==
  <<<<"pki">>, <<"kubeconfigs">>, <<"abac">>, webhookDir("core"),
    webhookDir("cabpk"), webhookDir("kcp"), webhookDir("capd")>>

(* The directories of prepare_state_dirs.                                  *)
preparedSubs ==
  <<<<"pki">>, <<"etcd">>, <<"kubeconfigs">>, <<"abac">>, webhookDir("core"),
    webhookDir("cabpk"), webhookDir("kcp"), webhookDir("capd")>>

idle == [pc |-> "idle", env |-> Unset]

SystemdTypeOK ==
  /\ units \in [UnitNames -> Inputs \cup {NoInput}]
  /\ loaded \in [UnitNames -> Inputs \cup {NoInput}]
  /\ job \in [Containers -> {"none", "waiting", "running"}]
  /\ inst \in [pc: {"units", "reload", "dirs", "policy"}, env: GoodEnvs]
              \cup {idle}

(* On a host that was in use the units of one installation may be there.   *)
SystemdInit ==
  /\ \E in \in {rendered(env) : env \in GoodEnvs} \cup {NoInput} :
       /\ in # NoInput => policy = Roots
       /\ units = [name \in UnitNames |-> in]
  /\ loaded = units
  /\ job = [id \in Containers |-> "none"]
  /\ inst = idle

(* The containers that require id, directly or not: the least set closed   *)
(* under "required by" that has the ones that require it directly.         *)
Dependents ==
  [id \in Containers |->
     {d \in Containers :
        \A S \in SUBSET Containers :
          (\A c \in Containers : Requires[c] \cap (S \cup {id}) # {} => c \in S)
            => d \in S}]

requirements == [id \in Containers |-> {c \in Containers : id \in Dependents[c]}]

(* A oneshot is active once it has exited, a notify unit while it runs.    *)
active(id) ==
  IF id \in Oneshots THEN ctr[id].st = "done" /\ remainAfterExit(id)
                     ELSE live(id)

activating(id) == id \in Oneshots /\ live(id)

-----------------------------------------------------------------------------
(* hack/install-quadlet.sh *)

(* The units are rendered into a temporary directory and verified there:   *)
(* nothing is installed when render-quadlet fails.                         *)
render_units(env) ==
  /\ inst = idle
  /\ operate
  /\ IF installable(env) /\ validateInput(rendered(env))
        /\ DOMAIN Render(rendered(env)) = ToSet(UNITS)
     THEN inst' = [pc |-> "units", env |-> env]
     ELSE UNCHANGED inst
  /\ UNCHANGED <<host, ctr, units, loaded, job>>

(* The first n units are copied.                                           *)
installed(n) ==
  units' = [name \in UnitNames |->
              IF name \in ToSet(SubSeq(UNITS, 1, n)) THEN rendered(inst.env)
                                                     ELSE units[name]]

(* Mutant: CAPISHIM_STATE_DIR without its default. *)
prepared_NoDefault(n) ==
  dirs' = dirs \cup {<<inst.env.stateDir, sub>> :
                       sub \in ToSet(SubSeq(preparedSubs, 1, n))}

(* The first n directories are created.                                    *)
prepared(n) ==
  dirs' = dirs \cup {<<installEnv(inst.env).stateDir, sub>> :
                       sub \in ToSet(SubSeq(preparedSubs, 1, n))}

(* What is left when the script ends in the middle of a loop.              *)
partlyInstalled ==
  IF inst.pc = "units" THEN \E n \in 0..Len(UNITS) : installed(n)
                       ELSE UNCHANGED units

partlyPrepared ==
  IF inst.pc = "dirs" THEN \E n \in 0..Len(preparedSubs) : prepared(n)
                      ELSE UNCHANGED dirs

install_units ==
  /\ inst.pc = "units"
  /\ installed(Len(UNITS))
  /\ inst' = [inst EXCEPT !.pc = "reload"]
  /\ UNCHANGED <<podVars, loaded, job>>

reload_daemon ==
  /\ inst.pc = "reload"
  /\ loaded' = units
  /\ inst' = [inst EXCEPT !.pc = "dirs"]
  /\ UNCHANGED <<podVars, units, job>>

prepare_state_dirs ==
  /\ inst.pc = "dirs"
  /\ prepared(Len(preparedSubs))
  /\ inst' = [inst EXCEPT !.pc = "policy"]
  /\ UNCHANGED <<policy, inventory, kubeconfigs, initialised, ctr, faults, ops,
                 units, loaded, job>>

write_policy ==
  /\ inst.pc = "policy"
  /\ policy' = policy \cup {installEnv(inst.env).stateDir}
  /\ inst' = idle
  /\ UNCHANGED <<dirs, inventory, kubeconfigs, initialised, ctr, faults, ops,
                 units, loaded, job>>

(* The script is interrupted, or one of its commands fails.                *)
install_killed ==
  /\ inst # idle
  /\ fault
  /\ inst' = idle
  /\ partlyInstalled /\ partlyPrepared
  /\ UNCHANGED <<policy, inventory, kubeconfigs, initialised, ctr, loaded, job>>

install == install_units \/ reload_daemon \/ prepare_state_dirs \/ write_policy

-----------------------------------------------------------------------------
(* systemctl *)

startable(id) ==
  \A name \in requirements[id] \cup {id, podUnitName} : loaded[name] # NoInput

(* The jobs after those of the units in ids were cancelled, and one was    *)
(* enqueued for every unit that is not active then.                        *)
enqueued(ids) ==
  [id \in Containers |->
     IF (id \in ids \/ (~active(id) /\ job[id] = "none")) /\ startable(id)
     THEN "waiting"
     ELSE IF id \in ids THEN "none" ELSE job[id]]

systemctl_start ==
  /\ operate
  /\ loaded[podUnitName] # NoInput
  /\ job' = enqueued({})
  /\ UNCHANGED <<host, ctr, units, loaded, inst>>

(* Mutant: units that require the stopped one are left running. *)
stopSet_Alone(target) == IF target = podUnitName THEN Containers ELSE {target}

(* What stops with a unit.                                                 *)
stopSet(target) ==
  IF target = podUnitName THEN Containers ELSE {target} \cup Dependents[target]

systemctl_stop(target) ==
  /\ operate
  /\ ctr' = stopped(stopSet(target))
  /\ job' = [id \in Containers |->
               IF id \in stopSet(target) THEN "none" ELSE job[id]]
  /\ UNCHANGED <<host, units, loaded, inst>>

(* Of what stops with it, a restarted unit restarts what was active.       *)
systemctl_restart(target) ==
  LET again == {id \in stopSet(target) :
                  \/ id = target \/ active(id) \/ activating(id)
                  \/ job[id] # "none"}
  IN  /\ operate
      /\ loaded[podUnitName] # NoInput
      /\ target # podUnitName => startable(target)
      /\ ctr' = stopped(again)
      /\ job' = enqueued(again)
      /\ UNCHANGED <<host, units, loaded, inst>>

(* The generator runs again, on what is installed.                         *)
reboot ==
  /\ operate
  /\ ctr' = stopped(Containers)
  /\ job' = [id \in Containers |-> "none"]
  /\ partlyInstalled /\ partlyPrepared
  /\ loaded' = units'
  /\ inst' = idle
  /\ UNCHANGED <<policy, inventory, kubeconfigs, initialised>>

-----------------------------------------------------------------------------
(* Jobs *)

(* The jobs when that of id has failed.                                    *)
jobFails(id) ==
  job' = [c \in Containers |->
            IF c \in {id} \cup Dependents[id] THEN "none" ELSE job[c]]

ready(id) ==
  job[id] = "waiting" /\ \A other \in Requires[id] : job[other] = "none"

runJob(id) ==
  /\ ready(id) /\ ~active(id) /\ ~activating(id)
  /\ start(id, loaded[id])
  /\ IF outcome(id, loaded[id]) = "nomount"
     THEN jobFails(id)
     ELSE job' = [job EXCEPT ![id] = IF id \in Oneshots THEN "running" ELSE "none"]
  /\ UNCHANGED <<host, faults, ops, units, loaded, inst>>

(* A oneshot whose last job failed with another's, while its process ran.  *)
joinJob(id) ==
  /\ ready(id) /\ (active(id) \/ activating(id))
  /\ job' = [job EXCEPT ![id] = IF activating(id) THEN "running" ELSE "none"]
  /\ UNCHANGED <<podVars, units, loaded, inst>>

(* With the default ExitPolicy a pod stops with its last container.        *)
podStops == ExitPolicy = "stop" /\ \A id \in Containers : ~live(id)

(* systemd notices that a oneshot has exited.                              *)
reap(id) ==
  /\ job[id] = "running"
  /\ ~live(id)
  /\ IF podStops
     THEN /\ ctr' = stopped(Containers)
          /\ job' = [c \in Containers |-> "none"]
     ELSE /\ IF ctr[id].st = "done" THEN job' = [job EXCEPT ![id] = "none"]
                                    ELSE jobFails(id)
          /\ UNCHANGED ctr
  /\ UNCHANGED <<host, faults, ops, units, loaded, inst>>

systemd == \E id \in Containers : runJob(id) \/ joinJob(id) \/ reap(id)

systemctl ==
  \/ systemctl_start
  \/ \E target \in UnitNames : systemctl_stop(target) \/ systemctl_restart(target)
  \/ reboot
=============================================================================
