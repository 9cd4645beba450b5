-------------------------------- MODULE MCBoot --------------------------------
EXTENDS Boot

CONSTANTS Dir, HomeDir

const_HomeStateDir(home) == HomeDir

defaults == [home |-> Raw("home"), stateDir |-> Unset, bind |-> Unset,
             hypervisor |-> Unset]

(* The default state directory and another, a host and a port of the       *)
(* operator's own, and a bind address that is refused.                     *)
const_Envs ==
  {defaults,
   [defaults EXCEPT !.stateDir = Raw(Dir),
                    !.bind = Raw(address("10.0.0.5", containerPort))],
   [defaults EXCEPT !.stateDir = Raw(Dir),
                    !.bind = Raw(address(loopbackHost, 8443))],
   [defaults EXCEPT !.bind = Raw(address(loopbackHost, 0))]}
=============================================================================
