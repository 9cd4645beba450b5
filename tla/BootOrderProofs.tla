---------------------------- MODULE BootOrderProofs ----------------------------
(***************************************************************************)
(* The order in which systemd runs the units: OneshotsFirst.               *)
(*                                                                         *)
(* The invariant is about the pending jobs.  While a oneshot is not done   *)
(* no unit that depends on it is active, and a pending job of such a unit  *)
(* has, all the way up to the oneshot, pending jobs before it; so it       *)
(* cannot be its turn.                                                     *)
(***************************************************************************)
EXTENDS BootProofs

done(id) == ctr[id].st = "done"

started(id) == active(id) \/ activating(id)

between(o, c) ==
  {r \in requirements[c] : r = o \/ r \in Dependents[o]}

OrderInv ==
  /\ \A o \in Oneshots : \A c \in Dependents[o] : started(c) => done(o)
  /\ \A o \in Oneshots : \A c \in Dependents[o] : \A r \in between(o, c) :
       job[c] # "none" /\ ~done(o) => job[r] # "none"
  /\ \A id \in Containers : job[id] = "running" => id \in Oneshots

(* What it means for a oneshot to be active and to be started.             *)
LEMMA OneshotStarted ==
  ASSUME NEW o \in Oneshots
  PROVE  /\ active(o) <=> done(o)
         /\ started(o) <=> done(o) \/ live(o)
BY DEF active, activating, started, remainAfterExit, done

(* A running container was started.                                        *)
LEMMA LiveStarted ==
  ASSUME NEW id \in Containers
  PROVE  live(id) => started(id)
BY DEF started, active, activating

(* A container was started if it is live or a oneshot that is done.        *)
LEMMA StartedIs ==
  ASSUME NEW id
  PROVE  started(id) <=> live(id) \/ (id \in Oneshots /\ done(id))
BY DEF started, active, activating, remainAfterExit, done

(* The same, after a step.                                                 *)
LEMMA StartedNext ==
  ASSUME NEW id
  PROVE  started(id)' <=> live(id)' \/ (id \in Oneshots /\ done(id)')
BY DEF started, active, activating, remainAfterExit, done

(* The units between a oneshot and one that depends on it.                 *)
LEMMA BetweenIs ==
  ASSUME NEW o \in Containers, NEW c \in Dependents[o]
  PROVE  /\ c \in Containers
         /\ \A r \in between(o, c) :
              /\ r \in Containers /\ c \in Dependents[r]
              /\ r = o \/ r \in Dependents[o]
         /\ \E r \in between(o, c) : r \in Requires[c]
<1>1. c \in Containers
  BY DependentsAre
<1>2. ASSUME NEW r \in between(o, c)
      PROVE  /\ r \in Containers /\ c \in Dependents[r]
             /\ r = o \/ r \in Dependents[o]
  BY <1>1, DependentsAre DEF between
<1>3. \E r \in between(o, c) : r \in Requires[c]
  <2>1. PICK r \in Requires[c] : r = o \/ r \in Dependents[o]
    BY DependentsStep
  <2>2. r \in Containers
    BY <1>1, RequiresAre
  <2>3. c \in Dependents[r]
    BY <1>1, <2>1, <2>2, DirectDependent
  <2> QED
    BY <1>1, <2>1, <2>2, <2>3, DependentsAre DEF between
<1> QED
  BY <1>1, <1>2, <1>3

(* A unit whose turn it is has all its oneshots done.                      *)
LEMMA ReadyMeansDone ==
  ASSUME OrderInv, NEW o \in Oneshots, NEW c \in Dependents[o], ready(c)
  PROVE  done(o)
<1>1. o \in Containers
  BY OneshotsAcyclic
<1>2. PICK r \in between(o, c) : r \in Requires[c]
  BY <1>1, BetweenIs
<1>3. job[c] # "none" /\ job[r] = "none"
  BY <1>2 DEF ready
<1> QED
  BY <1>2, <1>3 DEF OrderInv

-----------------------------------------------------------------------------
(* Steps that change no job, ...                                           *)

(* A step that starts nothing, undoes nothing and changes no job keeps the *)
(* order.                                                                  *)
LEMMA OrderKept ==
  ASSUME OrderInv, UNCHANGED job,
         \A id \in Containers : live(id)' => live(id),
         \A id \in Containers : done(id)' => live(id) \/ done(id),
         \A id \in Containers : done(id) => done(id)'
  PROVE  OrderInv'
<1>1. \A o \in Oneshots : o \in Containers /\ Dependents[o] \subseteq Containers
  BY OneshotsAcyclic, DependentsAre
<1>2. ASSUME NEW o \in Oneshots, NEW c \in Dependents[o], started(c)'
      PROVE  done(o)'
  <2>1. c \in Containers /\ o \in Containers
    BY <1>1
  <2>2. started(c)
    BY <1>2, <2>1, StartedIs, StartedNext
  <2> QED
    BY <2>1, <2>2 DEF OrderInv
<1>3. ASSUME NEW o \in Oneshots, NEW c \in Dependents[o],
             NEW r \in between(o, c), job'[c] # "none", ~done(o)'
      PROVE  job'[r] # "none"
  BY <1>1, <1>3 DEF OrderInv
<1> QED
  BY <1>2, <1>3 DEF OrderInv, between

(* ... the failure of a job, ...                                           *)
LEMMA OrderJobFails ==
  ASSUME OrderInv, NEW id \in Containers, jobFails(id),
         \A c \in Containers : started(c)' => started(c),
         \A c \in Containers \ {id} : done(c)' <=> done(c),
         id \in Oneshots => ~done(id)
  PROVE  OrderInv'
<1>1. \A o \in Oneshots : o \in Containers /\ Dependents[o] \subseteq Containers
  BY OneshotsAcyclic, DependentsAre
<1>2. ASSUME NEW o \in Oneshots, NEW c \in Dependents[o], started(c)'
      PROVE  done(o)'
  BY <1>1, <1>2 DEF OrderInv
<1>3. ASSUME NEW o \in Oneshots, NEW c \in Dependents[o],
             NEW r \in between(o, c), job'[c] # "none", ~done(o)'
      PROVE  job'[r] # "none"
  <2>1. r \in Containers /\ c \in Containers /\ c \in Dependents[r]
    BY <1>1, BetweenIs
  <2>2. c # id /\ c \notin Dependents[id] /\ job[c] # "none"
    BY <1>3, <2>1 DEF jobFails
  <2>3. r # id /\ r \notin Dependents[id]
    BY <2>1, <2>2, DependentsTransitive
  <2>4. ~done(o)
    BY <1>1, <1>3
  <2>5. job[r] # "none"
    BY <2>2, <2>4 DEF OrderInv
  <2> QED
    BY <2>1, <2>3, <2>5 DEF jobFails
<1>4. \A c \in Containers : job'[c] = "running" => c \in Oneshots
  BY DEF OrderInv, jobFails
<1> QED
  BY <1>2, <1>3, <1>4 DEF OrderInv, between

(* ... and the end of one.                                                 *)
LEMMA OrderJobEnds ==
  ASSUME OrderInv, SystemdTypeOK, NEW id \in Containers, NEW to \in {"none", "running"},
         job[id] # "none", job' = [job EXCEPT ![id] = to],
         to = "running" => id \in Oneshots,
         to = "none" =>
           \A o \in Oneshots : (id = o \/ id \in Dependents[o]) => done(o),
         \A o \in Oneshots : \A c \in Dependents[o] : started(c)' => done(o)',
         \A o \in Oneshots : done(o) => done(o)'
  PROVE  OrderInv'
<1>1. \A o \in Oneshots : o \in Containers /\ Dependents[o] \subseteq Containers
  BY OneshotsAcyclic, DependentsAre
<1>2. \A c \in Containers : job'[c] = IF c = id THEN to ELSE job[c]
  BY DEF SystemdTypeOK
<1>3. ASSUME NEW o \in Oneshots, NEW c \in Dependents[o],
             NEW r \in between(o, c), job'[c] # "none", ~done(o)'
      PROVE  job'[r] # "none"
  <2>1. r \in Containers /\ c \in Containers /\ (r = o \/ r \in Dependents[o])
    BY <1>1, BetweenIs
  <2>2. job[c] # "none" /\ ~done(o)
    BY <1>1, <1>2, <1>3, <2>1
  <2>3. job[r] # "none"
    BY <2>2 DEF OrderInv
  <2> QED
    BY <1>2, <2>1, <2>2, <2>3
<1>4. \A c \in Containers : job'[c] = "running" => c \in Oneshots
  BY <1>2 DEF OrderInv
<1> QED
  BY <1>3, <1>4 DEF OrderInv, between

-----------------------------------------------------------------------------
(* The processes, a crash, the installer *)

(* A process exits or goes on; it never undoes a oneshot that is done.     *)
LEMMA ProcessOrder ==
  ASSUME CtrTypeOK, OrderInv, UNCHANGED job, NEW ids,
         process(ids) \/ \E id \in Containers : crash(id)
  PROVE  OrderInv'
<1> USE ContainersAre DEF State, Live, Failed
<1>1. PICK id \in Containers, st \in State :
        /\ becomes(id, st) /\ live(id)
        /\ st \notin {"off"}
  BY DEF process, pkiKeep, pkiRefuse, pkiMint, pkiFinish, serve,
         setupGenerateFails, setupReach, setupGiveUp, setupFinish,
         setupApplyFails, crash, live
<1>2. ctr[id].st # "off" /\ ctr[id].st # "done"
  BY <1>1, LiveIs
<1>3. /\ ctr'[id].st = st
      /\ \A other \in Containers \ {id} : ctr'[other] = ctr[other]
  BY <1>1, <1>2, BecomesType
<1>4. \A c \in Containers : live(c)' => live(c)
  BY <1>1, <1>3, LiveIs
<1>5. \A c \in Containers : /\ done(c)' => live(c) \/ done(c)
                            /\ done(c) => done(c)'
  BY <1>1, <1>2, <1>3 DEF done
<1> QED
  BY <1>4, <1>5, OrderKept

(* The installer touches neither containers nor jobs.                      *)
LEMMA InstallOrder ==
  ASSUME OrderInv,
         install \/ install_killed \/ (\E env \in Envs : render_units(env))
  PROVE  OrderInv'
<1>1. UNCHANGED <<ctr, job>>
  BY DEF install, install_units, reload_daemon, prepare_state_dirs, write_policy,
         install_killed, render_units, podVars
<1>2. /\ \A id \in Containers : live(id)' <=> live(id)
      /\ \A id \in Containers : done(id)' <=> done(id)
  BY <1>1 DEF live, done
<1> QED
  BY <1>1, <1>2, OrderKept

-----------------------------------------------------------------------------
(* The jobs *)

(* A job runs when none is pending between its unit and any oneshot below. *)
LEMMA RunJobOrder ==
  ASSUME CtrTypeOK, SystemdInv, OrderInv, NEW id \in Containers, runJob(id)
  PROVE  OrderInv'
<1>1. /\ ready(id) /\ job[id] = "waiting" /\ start(id, loaded[id])
      /\ ~active(id) /\ ~activating(id)
  BY DEF runJob, ready
<1>2. SystemdTypeOK /\ loaded[id] \in Inputs
  BY <1>1 DEF SystemdInv, SystemdTypeOK, JobsStartable, startable, UnitNames
<1>3. /\ ctr'[id].st = outcome(id, loaded[id])
      /\ \A other \in Containers \ {id} : ctr'[other] = ctr[other]
  BY <1>1, <1>2, StartType
<1>4. id \in Oneshots => ~done(id)
  BY <1>1, OneshotStarted
<1>5. \A c \in Containers \ {id} :
        /\ started(c)' <=> started(c)
        /\ done(c)' <=> done(c)
  BY <1>3, LiveIs, StartedIs, StartedNext DEF done
<1>6. CASE outcome(id, loaded[id]) = "nomount"
  <2>1. jobFails(id)
    BY <1>6 DEF runJob
  <2>2. ~started(id)'
    BY <1>3, <1>6, LiveIs, StartedNext DEF done
  <2> QED
    BY <1>4, <1>5, <2>1, <2>2, OrderJobFails
<1>7. CASE outcome(id, loaded[id]) # "nomount"
  <2> DEFINE to == IF id \in Oneshots THEN "running" ELSE "none"
  <2>1. job' = [job EXCEPT ![id] = to] /\ to \in {"none", "running"}
    BY <1>7 DEF runJob
  <2>2. \A o \in Oneshots : id \in Dependents[o] => done(o)
    BY <1>1, ReadyMeansDone
  <2>3. to = "running" => id \in Oneshots
    OBVIOUS
  <2>4. to = "none" =>
          \A o \in Oneshots : (id = o \/ id \in Dependents[o]) => done(o)
    BY <2>2
  <2>5. \A o \in Oneshots : done(o) => done(o)'
    BY <1>4, <1>5, OneshotsAcyclic
  <2>6. ASSUME NEW o \in Oneshots, NEW c \in Dependents[o], started(c)'
        PROVE  done(o)'
    <3>1. CASE c = id
      BY <2>2, <2>5, <3>1
    <3>2. CASE c # id
      <4>1. c \in Containers
        BY OneshotsAcyclic, DependentsAre
      <4>2. started(c)
        BY <1>5, <2>6, <3>2, <4>1
      <4> QED
        BY <2>5, <4>2 DEF OrderInv
    <3> QED
      BY <3>1, <3>2
  <2>7. job[id] # "none"
    BY <1>1
  <2> HIDE DEF to
  <2> QED
    BY <1>2, <2>1, <2>3, <2>4, <2>5, <2>6, <2>7, OrderJobEnds
<1> QED
  BY <1>6, <1>7

(* A job that finds its unit active or activating starts nothing.          *)
LEMMA JoinJobOrder ==
  ASSUME SystemdInv, OrderInv, NEW id \in Containers, joinJob(id)
  PROVE  OrderInv'
<1> DEFINE to == IF activating(id) THEN "running" ELSE "none"
<1>1. /\ ready(id) /\ job[id] # "none" /\ (active(id) \/ activating(id))
      /\ job' = [job EXCEPT ![id] = to] /\ UNCHANGED ctr
  BY DEF joinJob, ready, podVars
<1>2. SystemdTypeOK /\ to \in {"none", "running"}
  BY DEF SystemdInv
<1>3. to = "running" => id \in Oneshots
  BY DEF activating
<1>4. to = "none" =>
        \A o \in Oneshots : (id = o \/ id \in Dependents[o]) => done(o)
  BY <1>1, ReadyMeansDone, OneshotStarted
<1>5. \A c : (done(c)' <=> done(c)) /\ (started(c)' <=> started(c))
  BY <1>1 DEF done, started, active, activating, live
<1>6. \A o \in Oneshots : \A c \in Dependents[o] : started(c)' => done(o)'
  BY <1>5 DEF OrderInv
<1> HIDE DEF to
<1> QED
  BY <1>1, <1>2, <1>3, <1>4, <1>5, <1>6, OrderJobEnds

(* ExitPolicy=continue: no oneshot takes the pod along as it exits.        *)
LEMMA ReapOrder ==
  ASSUME SystemdInv, OrderInv, NEW id \in Containers, reap(id)
  PROVE  OrderInv'
<1>1. ~podStops
  BY DEF podStops, ExitPolicy
<1>2. job[id] = "running" /\ UNCHANGED ctr
  BY <1>1 DEF reap
<1>3. id \in Oneshots /\ SystemdTypeOK
  BY <1>2 DEF OrderInv, SystemdInv
<1>4. \A c : (done(c)' <=> done(c)) /\ (started(c)' <=> started(c))
  BY <1>2 DEF done, started, active, activating, live
<1>5. \A o \in Oneshots : \A c \in Dependents[o] : started(c)' => done(o)'
  BY <1>4 DEF OrderInv
<1>6. CASE done(id)
  <2>1. job' = [job EXCEPT ![id] = "none"]
    BY <1>1, <1>6 DEF reap, done
  <2>2. \A o \in Oneshots : (id = o \/ id \in Dependents[o]) => done(o)
    BY <1>3, <1>6, OneshotStarted DEF OrderInv
  <2> QED
    BY <1>2, <1>3, <1>4, <1>5, <2>1, <2>2, OrderJobEnds
<1>7. CASE ~done(id)
  <2>1. jobFails(id)
    BY <1>1, <1>7 DEF reap, done
  <2> QED
    BY <1>4, <1>7, <2>1, OrderJobFails
<1> QED
  BY <1>6, <1>7

-----------------------------------------------------------------------------
(* systemctl *)

(* What a startable unit requires is startable.                            *)
LEMMA StartableTransitive ==
  ASSUME NEW r \in Containers, NEW c \in Dependents[r], startable(c)
  PROVE  startable(r)
<1>1. c \in Containers /\ r \in requirements[c]
  BY DependentsAre
<1>2. ASSUME NEW q \in requirements[r]
      PROVE  q \in requirements[c]
  BY <1>1, DependentsAre, DependentsTransitive
<1> QED
  BY <1>1, <1>2 DEF startable

(* What stops with a unit is closed under "required by".                   *)
LEMMA StopSetClosed ==
  ASSUME NEW target \in UnitNames, NEW o \in stopSet(target), o \in Containers,
         NEW c \in Dependents[o]
  PROVE  c \in stopSet(target)
<1>1. c \in Containers
  BY DependentsAre
<1>2. CASE target = podUnitName
  BY <1>1, <1>2 DEF stopSet
<1>3. CASE target # podUnitName
  <2>1. target \in Containers
    BY <1>3 DEF UnitNames
  <2> QED
    BY <1>3, <2>1, DependentsTransitive DEF stopSet
<1> QED
  BY <1>2, <1>3

(* Units are stopped, with all that depend on them, and jobs are enqueued  *)
(* for them and for whatever is not active.                                *)
LEMMA EnqueuedOrder ==
  ASSUME CtrTypeOK, SystemdInv, OrderInv, NEW ids,
         job' = enqueued(ids), ctr' = stopped(ids),
         \A o \in ids \cap Oneshots : \A c \in Dependents[o] :
           started(c) => c \in ids
  PROVE  OrderInv'
<1>1. \A o \in Oneshots : o \in Containers /\ Dependents[o] \subseteq Containers
  BY OneshotsAcyclic, DependentsAre
<1>2. \A c \in Containers : ctr'[c] = IF c \in ids THEN off ELSE ctr[c]
  BY StoppedType
<1>3. \A c \in Containers :
        /\ started(c)' <=> started(c) /\ c \notin ids
        /\ done(c)' <=> done(c) /\ c \notin ids
  BY <1>2, LiveIs, StartedIs, StartedNext DEF done, off
<1>4. \A c \in Containers :
        job'[c] = IF (c \in ids \/ (~active(c) /\ job[c] = "none")) /\ startable(c)
                  THEN "waiting" ELSE IF c \in ids THEN "none" ELSE job[c]
  BY DEF enqueued
<1>5. ASSUME NEW o \in Oneshots, NEW c \in Dependents[o], started(c)'
      PROVE  done(o)'
  BY <1>1, <1>3, <1>5 DEF OrderInv
<1>6. ASSUME NEW o \in Oneshots, NEW c \in Dependents[o],
             NEW r \in between(o, c), job'[c] # "none", ~done(o)'
      PROVE  job'[r] # "none"
  <2>1. /\ r \in Containers /\ c \in Containers /\ c \in Dependents[r]
        /\ r = o \/ r \in Dependents[o]
    BY <1>1, BetweenIs
  <2>2. startable(c)
    BY <1>4, <1>6, <2>1 DEF SystemdInv, JobsStartable
  <2>3. startable(r)
    BY <2>1, <2>2, StartableTransitive
  <2>4. CASE r \in ids \/ job[r] # "none" \/ ~active(r)
    BY <1>4, <2>1, <2>3, <2>4
  <2>5. CASE r \notin ids /\ active(r)
    <3>1. started(r)
      BY <2>5 DEF started
    <3>2. done(o)
      BY <2>1, <2>5, <3>1, OneshotStarted DEF OrderInv
    <3>3. o \in ids
      BY <1>1, <1>3, <1>6, <3>2
    <3> QED
      BY <2>1, <2>5, <3>1, <3>3
  <2> QED
    BY <2>4, <2>5
<1>7. \A c \in Containers : job'[c] = "running" => c \in Oneshots
  BY <1>4 DEF OrderInv
<1> QED
  BY <1>5, <1>6, <1>7 DEF OrderInv, between

(* Stopping such a set keeps the order.                                    *)
LEMMA StopOrder ==
  ASSUME CtrTypeOK, OrderInv, NEW target \in UnitNames, systemctl_stop(target)
  PROVE  OrderInv'
<1> DEFINE ids == stopSet(target)
<1>1. \A o \in Oneshots : o \in Containers /\ Dependents[o] \subseteq Containers
  BY OneshotsAcyclic, DependentsAre
<1>2. \A c \in Containers : ctr'[c] = IF c \in ids THEN off ELSE ctr[c]
  BY StoppedType DEF systemctl_stop
<1>3. \A c \in Containers : job'[c] = IF c \in ids THEN "none" ELSE job[c]
  BY DEF systemctl_stop
<1>4. \A o \in Containers : \A c \in Dependents[o] : o \in ids => c \in ids
  BY StopSetClosed
<1> HIDE DEF ids
<1>5. \A c \in Containers :
        /\ started(c)' <=> started(c) /\ c \notin ids
        /\ done(c)' <=> done(c) /\ c \notin ids
  BY <1>2, LiveIs, StartedIs, StartedNext DEF done, off
<1>6. ASSUME NEW o \in Oneshots, NEW c \in Dependents[o], started(c)'
      PROVE  done(o)'
  BY <1>1, <1>4, <1>5, <1>6 DEF OrderInv
<1>7. ASSUME NEW o \in Oneshots, NEW c \in Dependents[o],
             NEW r \in between(o, c), job'[c] # "none", ~done(o)'
      PROVE  job'[r] # "none"
  <2>1. r \in Containers /\ c \in Containers /\ c \in Dependents[r]
    BY <1>1, BetweenIs
  <2>2. c \notin ids /\ job[c] # "none"
    BY <1>3, <1>7, <2>1
  <2>3. ~done(o) /\ r \notin ids
    BY <1>1, <1>4, <1>5, <1>7, <2>1, <2>2
  <2> QED
    BY <1>3, <2>1, <2>2, <2>3 DEF OrderInv
<1>8. \A c \in Containers : job'[c] = "running" => c \in Oneshots
  BY <1>3 DEF OrderInv
<1> QED
  BY <1>6, <1>7, <1>8 DEF OrderInv, between

(* So every systemctl command does.                                        *)
LEMMA SystemctlOrder ==
  ASSUME CtrTypeOK, SystemdInv, OrderInv, systemctl
  PROVE  OrderInv'
<1>1. CASE systemctl_start
  <2>1. stopped({}) = ctr
    BY DEF stopped, CtrTypeOK
  <2> QED
    BY <1>1, <2>1, EnqueuedOrder DEF systemctl_start
<1>2. ASSUME NEW target \in UnitNames, systemctl_stop(target)
      PROVE  OrderInv'
  BY <1>2, StopOrder
<1>3. ASSUME NEW target \in UnitNames, systemctl_restart(target)
      PROVE  OrderInv'
  <2> DEFINE again == {id \in stopSet(target) :
                         \/ id = target \/ active(id) \/ activating(id)
                         \/ job[id] # "none"}
  <2>1. ctr' = stopped(again) /\ job' = enqueued(again)
    BY <1>3 DEF systemctl_restart
  <2>2. ASSUME NEW o \in again \cap Oneshots, NEW c \in Dependents[o], started(c)
        PROVE  c \in again
    <3>1. c \in stopSet(target)
      BY OneshotsAcyclic, StopSetClosed
    <3> QED
      BY <2>2, <3>1 DEF started
  <2> HIDE DEF again
  <2> QED
    BY <2>1, <2>2, EnqueuedOrder
<1>4. CASE reboot
  <2>1. \A c \in Containers : ctr'[c] = off
    BY <1>4, StoppedType DEF reboot
  <2>2. \A c \in Containers : ~started(c)' /\ job'[c] = "none"
    BY <1>4, <2>1, LiveIs, StartedNext DEF reboot, done, off
  <2>3. \A o \in Oneshots : Dependents[o] \subseteq Containers
    BY OneshotsAcyclic, DependentsAre
  <2> QED
    BY <2>2, <2>3 DEF OrderInv
<1> QED
  BY <1>1, <1>2, <1>3, <1>4 DEF systemctl

-----------------------------------------------------------------------------
(* The theorem *)

UnitsInv == driver = "systemd" => OrderInv

(* Every step preserves the order.                                         *)
LEMMA UnitsInvHolds == TypeInv /\ UnitsInv /\ [Next]_vars => UnitsInv'
<1> SUFFICES ASSUME TypeInv, UnitsInv, [Next]_vars PROVE UnitsInv'
  OBVIOUS
<1>1. CtrTypeOK /\ SystemdInv
  BY PodTypes DEF TypeInv, TypeOK, SystemdInv
<1>2. CASE UNCHANGED driver /\ driver # "systemd"
  BY <1>2 DEF UnitsInv
<1>3. CASE driver = "systemd"
  <2>1. OrderInv
    BY <1>3 DEF UnitsInv
  <2>2. CASE processStep \/ crashStep
    BY <1>1, <2>1, <2>2, ProcessOrder DEF processStep, crashStep, systemdVars, UnitsInv
  <2>3. CASE systemdStep
    BY <1>1, <2>1, <2>3, RunJobOrder, JoinJobOrder, ReapOrder, InstallOrder
       DEF systemdStep, systemd, UnitsInv
  <2>4. CASE operator
    BY <1>1, <1>3, <2>1, <2>4, SystemctlOrder, InstallOrder DEF operator, UnitsInv
  <2>5. CASE UNCHANGED vars
    <3>1. UNCHANGED <<ctr, job, driver>>
      BY <2>5 DEF vars, podVars, systemdVars
    <3>2. /\ \A id \in Containers : live(id)' <=> live(id)
          /\ \A id \in Containers : done(id)' <=> done(id)
      BY <3>1 DEF live, done
    <3> QED
      BY <2>1, <3>1, <3>2, OrderKept DEF UnitsInv
  <2> QED
    BY <1>3, <2>2, <2>3, <2>4, <2>5 DEF Next, e2eStep
<1>4. UNCHANGED driver
  BY DEF Next, processStep, systemdStep, e2eStep, operator, crashStep, vars
<1> QED
  BY <1>2, <1>3, <1>4

(* At first there is neither container nor job.                            *)
LEMMA InitUnits == Init => UnitsInv
<1> SUFFICES ASSUME Init PROVE OrderInv
  BY DEF UnitsInv
<1>1. \A c \in Containers : ~started(c) /\ job[c] = "none"
  BY StartedIs DEF Init, PodInit, SystemdInit, off, live, Live, done
<1>2. \A o \in Oneshots : Dependents[o] \subseteq Containers
  BY OneshotsAcyclic, DependentsAre
<1> QED
  BY <1>1, <1>2 DEF OrderInv

(* `capishim pki` never truncates its files while another container of the *)
(* installed units runs, and no manager runs before setup is done: not     *)
(* after any sequence of start, stop, restart, reboot, installations that  *)
(* are interrupted, and crashes.                                           *)
THEOREM UnitsInOrder == Spec => []OneshotsFirst
<1>1. Spec => [](TypeInv /\ UnitsInv)
  BY InitUnits, InitTypes, StepTypes, UnitsInvHolds, PTL DEF Spec
<1>2. UnitsInv => OneshotsFirst
  <2> SUFFICES ASSUME OrderInv, NEW o \in Oneshots, NEW c \in Dependents[o], live(c)
               PROVE  ctr[o].st = "done"
    BY DEF UnitsInv, OneshotsFirst
  <2>1. c \in Containers
    BY OneshotsAcyclic, DependentsAre
  <2> QED
    BY <2>1, LiveStarted DEF OrderInv, done
<1> QED
  BY <1>1, <1>2, PTL
=============================================================================
