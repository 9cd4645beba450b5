-------------------------------- MODULE Config --------------------------------
(***************************************************************************)
(* internal/config: Load, which makes a Config of an environment, and the  *)
(* defaults hack/install-quadlet.sh puts into the environment before       *)
(* render-quadlet calls Load.                                              *)
(*                                                                         *)
(* A variable of the environment is Unset or a text that may be padded     *)
(* with white space; the text of an empty or a blank value is NoText.  A   *)
(* bind address is what net.SplitHostPort makes of it.                     *)
(***************************************************************************)
EXTENDS Components

CONSTANTS
  Unset,             \* a variable that the environment does not have
  NoText,            \* the empty text
  SpacedHost,        \* a host with a space or a tab in it
  NotANumber,        \* a port that strconv.Atoi refuses
  HomeStateDir(_)    \* the state directory below a home directory

Raw(text)  == [text |-> text, padded |-> FALSE]
Empty      == Raw(NoText)
Trim(raw)  == raw.text

IsRaw(value) ==
  value = Unset \/ value = [text |-> value.text, padded |-> value.padded]

IsEnv(env) ==
  /\ env = [home |-> env.home, stateDir |-> env.stateDir, bind |-> env.bind,
            hypervisor |-> env.hypervisor]
  /\ IsRaw(env.home) /\ IsRaw(env.stateDir)
  /\ IsRaw(env.bind) /\ IsRaw(env.hypervisor)

address(host, port) == [splits |-> TRUE, host |-> host, port |-> port]

loopbackHost       == "127.0.0.1"
containerPort      == 6443
defaultBindAddress == address(loopbackHost, containerPort)
minPort            == 1
maxPort            == 65535

-----------------------------------------------------------------------------
(* Load.  Every "...Loads" says when its function returns no error.        *)

stateDirLoads(env) ==
  IF env.stateDir # Unset
  THEN Trim(env.stateDir) # NoText
  ELSE env.home # Unset /\ Trim(env.home) # NoText

stateDirFromEnv(env) ==
  IF env.stateDir # Unset THEN Trim(env.stateDir)
                          ELSE HomeStateDir(Trim(env.home))

validateBindAddress(addr) ==
  /\ addr.splits
  /\ addr.host \notin {NoText, SpacedHost}
  /\ addr.port # NotANumber
  /\ addr.port \in minPort..maxPort

bindAddressLoads(env) ==
  env.bind # Unset =>
    Trim(env.bind) # NoText /\ validateBindAddress(Trim(env.bind))

bindAddressFromEnv(env) ==
  IF env.bind # Unset THEN Trim(env.bind) ELSE defaultBindAddress

(* An empty value selects the default, a blank one is an error.            *)
hypervisorWebhookHostLoads(env) ==
  env.hypervisor \notin {Unset, Empty} => Trim(env.hypervisor) # NoText

hypervisorWebhookHostFromEnv(env) ==
  IF env.hypervisor \in {Unset, Empty}
  THEN defaultHypervisorWebhookHost
  ELSE Trim(env.hypervisor)

Loads(env) ==
  stateDirLoads(env) /\ bindAddressLoads(env) /\ hypervisorWebhookHostLoads(env)

Load(env) ==
  [stateDir |-> stateDirFromEnv(env),
   bind |-> bindAddressFromEnv(env),
   hypervisor |-> hypervisorWebhookHostFromEnv(env)]

-----------------------------------------------------------------------------
(* The installer's environment *)

(* ${NAME:-default}: an empty value counts as unset, a blank one does not. *)
orDefault(raw, default) == IF raw \in {Unset, Empty} THEN default ELSE raw

(* The shell does not trim: the script works on the padded path.           *)
installEnv(env) ==
  [env EXCEPT
     !.stateDir = orDefault(@, [env.home EXCEPT !.text = HomeStateDir(@)]),
     !.bind     = orDefault(@, Raw(defaultBindAddress))]

(* `set -u` ends the script when HOME is not set.                          *)
installable(env) == env.home # Unset /\ Loads(installEnv(env))
=============================================================================
