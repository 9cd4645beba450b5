------------------------------- MODULE Quadlet -------------------------------
(***************************************************************************)
(* internal/quadlet and the templates in quadlet/: the units of the pod as *)
(* functions of the Input they are rendered from.  Of a container's        *)
(* command line the files it opens and the ports it listens on are kept;   *)
(* images and the other flags are left out.                                *)
(*                                                                         *)
(* A directory is a root on the host and the names below it; every volume  *)
(* is mounted at its own path.                                             *)
(***************************************************************************)
EXTENDS Config

Containers  == {spec.id : spec \in {c \in Components : ~c.external}}
PodManagers == {spec.id : spec \in {c \in Managers : ~c.external}}

podUnitName == "pod"

(* The renderer's Input; the hypervisor host is no part of any unit.       *)
inputOf(cfg) == [stateDir |-> cfg.stateDir, bind |-> cfg.bind]

validateInput(in) == in.stateDir # NoText /\ in.bind # NoText

webhookDir(id) == <<"pki", id>>

volume(in, sub, readOnly) ==
  [dir |-> <<Raw(in.stateDir), sub>>, readOnly |-> readOnly]

(* Mutant: the managers start with setup, not after it. *)
managerRequires_SkipSetup == {"apiserver"}

managerRequires == {"setup"}

(* Requires= and After= of each unit; the two lists are the same.          *)
Requires ==
  [id \in Containers |->
     CASE id = "pki"       -> {}
       [] id = "etcd"      -> {"pki"}
       [] id = "apiserver" -> {"etcd"}
       [] id = "setup"     -> {"apiserver"}
       [] OTHER            -> managerRequires]

(* Mutant: etcd does not mount the certificates. *)
etcdVolumes_DataOnly(in) == {volume(in, <<"etcd">>, FALSE)}

etcdVolumes(in) == {volume(in, <<"etcd">>, FALSE), volume(in, <<"pki">>, TRUE)}

volumes(id, in) ==
  CASE id = "pki"       -> {volume(in, <<"pki">>, FALSE),
                            volume(in, <<"webhook-certs">>, FALSE)}
    [] id = "etcd"      -> etcdVolumes(in)
    [] id = "apiserver" -> {volume(in, <<"pki">>, TRUE),
                            volume(in, <<"abac">>, TRUE)}
    [] id = "setup"     -> {volume(in, <<"pki">>, TRUE),
                            volume(in, <<"webhook-certs">>, FALSE),
                            volume(in, <<"kubeconfigs">>, FALSE)}
    [] OTHER            -> {volume(in, <<"pki">>, TRUE),
                            volume(in, <<"kubeconfigs">>, TRUE),
                            volume(in, webhookDir(id), TRUE)}

(* The directories in which a long-running process opens files as it       *)
(* starts: etcdExec, apiserverExec, managerExec.  A manager's kubeconfig   *)
(* names files in pki/.                                                    *)
opens(id) ==
  CASE id = "etcd"         -> {<<"pki">>}
    [] id = "apiserver"    -> {<<"pki">>, <<"abac">>}
    [] id \in PodManagers  -> {<<"kubeconfigs">>, webhookDir(id), <<"pki">>}
    [] OTHER               -> {}

etcdClientPort == 2379
etcdPeerPort   == 2380

(* Mutant: the health and diagnostics listeners keep their defaults. *)
managerPorts_Default(spec) == {spec.port, 9440, 8443}

managerPorts(spec) == {spec.port, spec.health, spec.diagnostics}

(* Ports a process listens on, in the one network namespace of the pod.    *)
listens ==
  [id \in Containers |->
     CASE id = "etcd"         -> {etcdClientPort, etcdPeerPort}
       [] id = "apiserver"    -> {containerPort}
       [] id \in PodManagers  -> managerPorts(Component(id))
       [] OTHER               -> {}]

(* Type=oneshot with RemainAfterExit=yes; the others are notify units.     *)
Oneshots == {"pki", "setup"}

(* Mutant: a oneshot that has exited is inactive. *)
remainAfterExit_No(id) == FALSE

remainAfterExit(id) == id \in Oneshots

(* Environment= of the two units that run the capishim binary.             *)
Environment(id, in) ==
  [home |-> Unset, stateDir |-> Raw(in.stateDir),
   bind |-> IF id = "setup" THEN Raw(in.bind) ELSE Unset,
   hypervisor |-> Unset]

(* The pod publishes the fixed container port at the bind address.         *)
PublishPort(in) == [host |-> in.bind.host, hostPort |-> in.bind.port,
                    containerPort |-> containerPort]

(* Mutant: the default of podman. *)
ExitPolicy_Default == "stop"

ExitPolicy == "continue"

RenderUnit(name, in) ==
  IF name = podUnitName
  THEN [publish |-> PublishPort(in), exitPolicy |-> ExitPolicy]
  ELSE [requires |-> Requires[name], volumes |-> volumes(name, in),
        environment |-> Environment(name, in), oneshot |-> name \in Oneshots]

(* The pod unit, and one unit per component that is not external.          *)
Render(in) == [name \in {podUnitName} \cup Containers |-> RenderUnit(name, in)]
=============================================================================
