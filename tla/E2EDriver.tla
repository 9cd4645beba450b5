------------------------------ MODULE E2EDriver ------------------------------
(***************************************************************************)
(* The pod under the e2e suite's driver (e2e/shim), which runs podman      *)
(* itself: Create removes leftovers, creates the containers and boots them *)
(* in order; Restart stops the pod and boots it again; Dispose removes it, *)
(* and the state directory unless it is to be preserved.  An error is a    *)
(* panic, after which only Dispose is called.                              *)
(*                                                                         *)
(* The containers are those of the units, rendered for the driver's state  *)
(* directory and the default bind address.                                 *)
(***************************************************************************)
EXTENDS Pod

VARIABLES
  given,  \* the state directory and the bind address the driver was given
  at      \* the step of boot it is at

e2eVars == <<given, at>>

firstStep == "pki"

(* What follows a step of boot.                                            *)
next(step) ==
  CASE step = "pki"       -> "etcd"
    [] step = "etcd"      -> "apiserver"
    [] step = "apiserver" -> "healthz"
    [] step = "healthz"   -> "setup"
    [] step = "setup"     -> "bindings"
    [] step = "bindings"  -> "core"
    [] step = "core"      -> "cabpk"
    [] step = "cabpk"     -> "kcp"
    [] step = "kcp"       -> "capd"
    [] step = "capd"      -> "running"
    [] step = "running"   -> "up"

(* The step in which a oneshot that was started is waited for.             *)
waitFor(id) == IF id = "pki" THEN "wait pki" ELSE "wait setup"

Steps == Containers \cup
  {"wait pki", "healthz", "wait setup", "bindings", "running"}

(* Where boot is, or how the last call ended.                              *)
E2ETypeOK == given \in Inputs /\ at \in Steps \cup {"none", "up", "panicked"}

E2EInit == given \in Inputs /\ at = "none"

containerInput == [given EXCEPT !.bind = defaultBindAddress]

root == Raw(given.stateDir)

booting == at \in Steps

-----------------------------------------------------------------------------
(* Every directory that a container mounts.                                *)
ensureStateDirs ==
  dirs' = dirs \cup {v.dir : v \in UNION {volumes(id, containerInput) :
                                             id \in Containers}}

writeABACPolicy == policy' = policy \cup {root}

Create ==
  /\ at = "none"
  /\ operate
  /\ ensureStateDirs /\ writeABACPolicy
  /\ ctr' = [id \in Containers |-> off]
  /\ at' = firstStep
  /\ UNCHANGED <<inventory, kubeconfigs, initialised, given>>

(* The result of `podman pod stop` is not looked at.                       *)
Restart ==
  /\ at = "up"
  /\ operate
  /\ ctr' = stopped(Containers) \/ UNCHANGED ctr
  /\ at' = firstStep
  /\ UNCHANGED <<host, given>>

Dispose(preserve) ==
  /\ at \in {"up", "panicked"}
  /\ ctr' = [id \in Containers |-> off]
  /\ at' = "none"
  /\ IF preserve
     THEN UNCHANGED host
     ELSE /\ dirs' = {d \in dirs : d[1] # root}
          /\ policy' = policy \ {root}
          /\ inventory' = [inventory EXCEPT ![root] = "none"]
          /\ kubeconfigs' = [kubeconfigs EXCEPT ![root] = 0]
          /\ initialised' = {p \in initialised : p[2] # root}
  /\ UNCHANGED <<faults, ops, given>>

-----------------------------------------------------------------------------
(* boot *)

goTo(step) == at' = step /\ UNCHANGED given

(* `podman start` of a running container does nothing.                     *)
startContainer ==
  /\ at \in Containers
  /\ IF live(at) THEN UNCHANGED ctr ELSE start(at, containerInput)
  /\ goTo(IF ~live(at) /\ outcome(at, containerInput) = "nomount"
          THEN "panicked"
          ELSE IF at \in Oneshots THEN waitFor(at) ELSE next(at))
  /\ UNCHANGED <<host, faults, ops>>

(* Mutant: the exit code is not looked at. *)
startOneshot_AnyCode(id) ==
  /\ at = waitFor(id)
  /\ ~live(id)
  /\ goTo(next(id))
  /\ UNCHANGED podVars

(* `podman wait`, and the exit code.                                       *)
startOneshot(id) ==
  /\ at = waitFor(id)
  /\ ~live(id)
  /\ goTo(IF ctr[id].st = "done" THEN next(id) ELSE "panicked")
  /\ UNCHANGED podVars

(* The pod publishes its container port at the same port of the host,      *)
(* whatever the port of the bind address.                                  *)
publishPort == [host |-> given.bind.host, hostPort |-> containerPort,
                containerPort |-> containerPort]

apiserverPort == given.bind.port

(* The probe dials 127.0.0.1, whatever the host of the bind address.       *)
probed ==
  /\ publishPort.host \in {loopbackHost, "0.0.0.0"}
  /\ publishPort.hostPort = apiserverPort

answers == ctr["apiserver"].st = "serving" /\ backed /\ probed

(* The probe waits for 200, five minutes at most.                          *)
waitForHealthz ==
  /\ at = "healthz"
  /\ \/ answers /\ goTo(next(at))
     \/ (~backed \/ ~probed) /\ goTo("panicked")
  /\ UNCHANGED podVars

ensureDirectManagerBindings ==
  /\ at = "bindings"
  /\ goTo(IF ctr["apiserver"].st = "serving" /\ backed /\ kubeconfigs[root] # 0
          THEN next(at) ELSE "panicked")
  /\ UNCHANGED podVars

(* One container that is not running is an error at once.  The look at     *)
(* them and the return are one step: one that dies between is not seen.    *)
waitForRunning ==
  /\ at = "running"
  /\ goTo(IF \A id \in Containers \ Oneshots : live(id)
          THEN next(at) ELSE "panicked")
  /\ UNCHANGED podVars

(* A podman command fails, or a wait ends untimely.                        *)
podmanFails ==
  /\ booting
  /\ fault
  /\ goTo("panicked")
  /\ UNCHANGED <<host, ctr>>

boot ==
  \/ startContainer
  \/ startOneshot("pki") \/ startOneshot("setup")
  \/ waitForHealthz \/ ensureDirectManagerBindings \/ waitForRunning
=============================================================================
