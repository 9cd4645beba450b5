# capishim in TLA+

capishim boots a Cluster API management cluster as one podman pod: a
certificate step, etcd, a kube-apiserver, a setup step that installs the
vendored provider manifests, and four controller managers, with a fifth manager
outside the pod. The Go binary is run three ways: `capishim pki`, `capishim
setup` (both as oneshot systemd units, and again at every restart) and
`capishim render-quadlet`.

Nearly all the code is sequential. What makes it hard is that every step runs
again at every boot, over whatever an earlier run left behind on disk and in
the apiserver, possibly with another configuration, and that it can stop
anywhere. Most of the properties below are about *sequences of runs*. What is concurrent
is the pod as a whole: systemd, which starts and stops eight containers in an
order that `Requires=` and `After=` leave partly open, an installer that may be
running at the same time, and containers that die.

## Inventory

| Component | Code | State | Operations | Talks to |
|---|---|---|---|---|
| PKI | `internal/pki/pki.go` | the pairs of files under `pki/` and `webhook-certs/` | `Generate` | called by `pki` (rw mount) and by `setup` (ro mount) |
| Component table | `internal/config/components.go` | none | `Components`, derived maps in `setup.go` | read by everything |
| Configuration | `internal/config/config.go` | none | `Load` | environment |
| Webhook rewrite | `internal/webhookrewrite` | the objects in memory | `RewriteAll` | called by `setup` |
| Manifest transformation | `internal/manifests/{manifests,rbac}.go`, filters in `setup.go` | none | load, restrict, keep, rewrite RBAC | called by `setup` |
| Apply, CRD wait | `internal/manifests/apply.go` | the apiserver's objects | `Apply`, `WaitForCRDEstablished` | apiserver |
| Setup pipeline | `cmd/capishim/setup.go` | none of its own | `setup` | all of the above |
| Kubeconfig files | `cmd/capishim/setup.go` | `kubeconfigs/` | `WriteFileAtomic` | read by the managers |
| Quadlet units, renderer | `quadlet/`, `internal/quadlet`, `quadlet_render.go` | unit files | `Render`, `renderQuadlet` | systemd, podman |
| Installed pod | the units at run time | containers, start jobs | start, stop, restart, reboot | the state directory, every container |
| Installer | `hack/install-quadlet.sh` | unit files, state directories, ABAC policy | render, install, reload, prepare | renderer, systemd |
| Vendoring scripts | `hack/vendor.sh`, `check-pins.sh`, ... | vendored files | vendor, pins | git, kustomize |
| e2e driver | `e2e/shim` | the pod's containers, a state directory | `Create`, `Restart`, `Dispose` | podman, apiserver |

What is hard in each, and what makes it correct:

- **PKI.** Seventeen pairs of files (the CA, fifteen leaves and the service
  account key), each written certificate first and key
  second, truncated in place. A crash leaves torn files, missing files and
  pairs that do not match. Correct means: a run that succeeds leaves only
  matching pairs that chain to the CA; nothing valid is ever rewritten (the
  apiserver and the managers are using it, and setup cannot write there); the
  trust anchor is never replaced, nor a damaged one repaired.
- **Webhook rewrite.** The core manager in the pod and the hypervisor manager
  outside it have the same port, 9443. Correct means: the URLs of the one are
  never taken for the Services of the other, none is left without a CA, an
  error half-way leaves nothing unsafe.
- **Setup and Apply.** Three applies over one set of objects, each call of
  which may fail, with an apiserver that keeps everything an earlier run did,
  refuses stale resourceVersions and immutable fields, and establishes CRDs at
  its own pace. Correct means: "ready" is only reported when everything is in
  place, no earlier run is ever in the way, managers never start before what
  they need is there nor lose it afterwards.
- **Kubeconfig files.** Replaced while managers may be reading them.
- **Configuration.** One value is read three times: by the shell, by the
  renderer, and by the binary in a container from what the unit hands on.
  Correct means: all three see the same, or the first one refuses.
- **The installed pod.** Two of the units are oneshots that rewrite what the
  others have open; any unit may be started, stopped, restarted or die at any
  time, and an installation may replace the units half-way. Correct means: no
  container runs before a oneshot it depends on is done; none runs while
  certificates are being written; nothing is missing that it opens; what is
  started and left alone comes up.
- **e2e driver.** Does the ordering that systemd does, by hand, over containers
  that may be left from the last time. Correct means: when `Create` or
  `Restart` returns, the stack is ready.

The full list of hazards, with the line where each one bites and the properties
about it, is in `PROJECT.json`.

## Modules

| Module | Models | Kind |
|---|---|---|
| `PKI` | `Generate`, one action per call that can fail or be interrupted | state machine |
| `PKIProofs` | theorems about `PKI` | proofs |
| `Components` | the component table and its derived maps | constants |
| `WebhookRewrite` | the rewrite of one clientConfig | operators |
| `RewritePass` | `RewriteAll` over a batch, and over its own output | state machine |
| `RewritePassProofs` | theorems about `RewritePass` | proofs |
| `AtomicFile` | what `WriteFileAtomic` promises | abstract specification |
| `WriteFileAtomic` | the temporary file, the rename, the cleanup, the readers | state machine |
| `WriteFileAtomicProofs` | theorems, with the refinement of `AtomicFile` | proofs |
| `Manifests` | what setup makes of the manifests before each apply | operators |
| `Setup` | the pipeline, Apply's calls, the apiserver | state machine |
| `SetupProofs` | theorems about `Setup` and the operators of `Manifests` | proofs |
| `Config` | `Load`, and the installer's defaults | operators |
| `Quadlet` | the renderer and the unit templates | operators |
| `Pod` | the containers over the state directories: starts, exits, pki, setup | actions |
| `Systemd` | the installer, `systemctl`, start jobs | actions |
| `E2EDriver` | `Create`, `Restart`, `Dispose`, the steps of `boot` | actions |
| `Boot` | the pod with one of its two drivers | state machine |
| `BootProofs`, `BootOrderProofs`, `BootDataProofs`, `BootFilesProofs` | theorems about `Boot`, `Config` and `Quadlet` | proofs |
| `MC*` | constants for TLC | instances |

`Setup` composes `Manifests`, `WebhookRewrite` and `Components`. The inventory
and a kubeconfig replacement are one step in `Setup`; `PKI` and
`WriteFileAtomic` are their refined views, and what `Setup` assumes of them is
what those modules establish (a successful `generate` leaves a usable
inventory; a kubeconfig is there or not, never half). `Boot` composes `Pod` with
`Systemd` and `E2EDriver`, over `Quadlet`, `Config` and `Components`; in it an
inventory is none, partial or complete, and setup is waiting, applying or
done: `PKI` and `Setup` are the refined views of those.

### PKI

State: the contents of the certificate file and the key file of every pair
(`crt`, `key`), and the memory of the running process. A content is `Missing`,
`Torn` (does not parse) or a value. A key is the number it was generated with;
a certificate is the key it certifies, the key that signed it, its SANs and the
run that dated it. `Generate` walks the pairs: `loadCAPair`, `refuseCA` or
`newCACert` for the CA, `keepPair` or `ensureLeaf` for a leaf, `keepPair` or
`ensureServiceAccountPair` at the end; a new pair goes through
`openTruncate`/`writeContent`/`chmod` twice. `Fail` and `Crash` may strike
before any of these; `Disturb` removes or damages a file between runs. `found`
(the CA files that existed when the run started) and `anchorTouched` are
history. Left out: key algorithms, extended key usages, subject names, file modes, and
directories (a failing `MkdirAll` is a `Fail`).

### WebhookRewrite and RewritePass

A clientConfig is a service reference or a URL, with a CA. The three variants
(mutating, validating, CRD conversion) are one operator; they do the same
thing. A URL that does not parse, or whose port is absent or not a number, has
port 0. `RewritePass` is the loop: `rewriteHook`, `rejectHook`, `finish`, and
`Rerun` for a second pass over the same objects, which the package's comments
promise and its test makes; setup itself loads the manifests anew in every run.
`first` and `orig` are history. Left out: the error for an object of a kind
without webhooks, as setup hands over the three kinds that have them.

### AtomicFile and WriteFileAtomic

Names point at inodes, and readers hold inodes, so that a read after a rename
sees the old content. `WriteData` leaves the file torn until it is complete.
Every step can fail (`Fail`, `FailCreate`, `FailRemove`) or be the last
(`Kill`). The abstract file is `fileContent`; a reader that has the file open
counts as having read it, which is the refinement mapping of
`ImplementsAtomicFile`. Left out: file modes (the temporary file has its final
mode from the start) and the page cache (nothing is synced, so a power loss may
lose data that the model keeps).

### Manifests and Setup

An object is its kind, name, API version and the fields setup looks at. An image is
what its manifest files load to; its objects never change, so loading is
computed once. Every filter of setup selects positions of a sequence
(`Selected`), keeps their order and may change the objects it keeps. `Setup` keeps the apiserver's objects with resourceVersions, the
set of established CRDs, the kubeconfigs written, and the process: the phase
(`manifests`, `rbac`, `webhooks`), the batch Apply is working on, and the position
in it. `createNew`, `createExists`, `getExisting`, `updateObject`,
`updateConflict` and `updateForbidden` are the calls of Apply and the
apiserver's answers; `afterApply` is the order of the pipeline. The apiserver's
own steps are `serve`, `establish` and `writeStatus`; `Stop` is any error, timeout
or kill.

### Config and Quadlet

A variable of the environment is unset or a text with or without white space
around it; a bind address is what `net.SplitHostPort` makes of it. `...Loads`
says whether a function of `config.go` returns no error, the operator with its
name what it returns. `installEnv` is what the installer's `${X:-default}`
makes of the operator's environment before the renderer reads it: it trims
nothing, and an empty value there is a default while in `Load` it is an error.
`Quadlet` has one operator per thing a template says: `Requires`, `volumes`,
`Environment`, `PublishPort`, `ExitPolicy`; of the command lines it keeps the
directories in which a process opens files and the ports it listens on.

### Pod, Systemd, E2EDriver and Boot

State of the host: the directories (`dirs`), where there is an ABAC policy
(`policy`), the inventory of every state directory, the port its kubeconfigs
name, and the pairs of state directories of setup and etcd of every setup that
finished (`initialised`, history). State of the pod: of every container what it
does and the input of the unit it was started from (`ctr`).

- `Pod`: `start` has the outcomes of a container start: no mount source, a file
  not there, a port taken, running. `pkiKeep`, `pkiRefuse`, `pkiMint` and
  `pkiFinish` are `runPKI`; `setupGenerateFails`, `setupReach`, `setupGiveUp`,
  `setupFinish` and `setupApplyFails` are `setup`, which dials from inside the
  pod the port of the bind address and verifies the apiserver with the CA of
  its own state directory. The wait ends at an apiserver that serves or, as a
  fault, at the error of one that is not ready; setup then fails. That setup
  applies and writes all the kubeconfigs is one step, `setupFinish`, or a
  failure before it; `Setup` has the steps. `crash` is the death of any
  process.
- `Systemd`: `render_units`, `install_units`, `reload_daemon`,
  `prepare_state_dirs` and `write_policy` are the steps of the installer,
  `install_killed` its end in any of them, with any prefix of a loop done.
  `systemctl_start`, `systemctl_stop`, `systemctl_restart` and `reboot` are what
  an operator does; `runJob`, `joinJob` and `reap` what systemd does about it.
  systemd, its quadlet generator and podman are not in the repository; the head
  of the module lists what is assumed of them.
- `E2EDriver`: `at` is the step of `boot`. `podmanFails` is any command that
  fails or wait that times out too early; an error is a panic, after which only
  `Dispose` is possible. `probed` says whether the health probe, which dials
  127.0.0.1 at the port of the bind address, reaches what the pod publishes.
  `waitForRunning` is one step: a container that dies between the last look
  and the return is not seen by the code either.
- `Boot`: the driver is chosen at the start. Loops of the installer are one
  step unless it is killed in them: nobody else reads the files in between
  except systemd at a `daemon-reload` or reboot, and `reboot` takes any prefix
  too.

## Runs

| Run | Instance | Shows |
|---|---|---|
| `pki` | two leaves (the two whose SANs are configurable), 3 runs, 3 faults | the PKI properties |
| `pki_refused`, `pki_lifetime` | the same | documented, violated: below |
| `pki_sans` | the same, one bind host, two hypervisor webhook hosts | documented, violated |
| `rewrite` | batches of two webhooks out of 24, real port table, 3 option values | the rewrite properties |
| `rewrite_idempotent` | the same | documented, violated |
| `kubeconfig_file` | 3 calls, 2 faults, 1 reader, 2 values, 5 inodes | refinement and the file's properties |
| `setup` | 5 images, 2 hosts, 2 runs, 1 fault, 1 status write | the setup properties |
| `setup_rerun`, `setup_vendored` | one image | documented, violated |
| `boot` | 2 state directories, bind addresses 127.0.0.1:6443, 10.0.0.5:6443, 127.0.0.1:8443 and a refused one; 3 events, at most 2 of them faults; fresh or used host; both drivers | the pod's properties |
| `boot_clean` | the same, 2 events, no faults | documented, violated |

Bounds, and why they are enough:

- *PKI.* Two leaves are one to be at, one before or after it; leaves do not
  interact. Three runs let one be interrupted, one find its leftovers and one
  find what the second made of them; three faults put one in each, or a crash in
  two and a disturbed file. The proofs then cover every value.
- *RewritePass.* Two webhooks are enough for two to be confused and for an
  error after a success. The inputs have every service namespace that matters
  (in-pod, external, unknown), loopback and other hosts, the shared port, an
  in-pod port of one manager only and no port.
- *WriteFileAtomic.* Five inodes are the old file, one a reader still holds,
  two orphans and one to write: never fewer free inodes than needed. Inodes and
  values are symmetric.
- *Setup.* One image has one object of every treatment: a CAPI CRD that is
  narrowed, one that is dropped, a CRD that keeps its conversion webhook, a
  binding to an aggregation shell, a RoleBinding, an in-pod webhook and an
  external one that is vendored twice, and a kind that is not applied. The
  other four are the ways an image fails: another roleRef, the vendored
  webhook, an unknown subject, contradictory documents. The second run is the
  one that finds leftovers; its fault may instead be spent on it.

- *Boot.* An event is what an operator or the suite does, or a fault
  (`MaxEvents` bounds both, `MaxFaults` the faults). Three events are: install
  and start and a fault or a restart of any unit in between; two installations
  of different state directories, the second killed in any of its steps, and a
  start; three commands at once over an installed pod; Create, a crash and
  Restart. The used host, with units of one installation already there, saves
  two events in half of the behaviours. Two state directories are enough to be
  mixed up; the bind addresses are the default, another host, which the e2e
  driver's probe does not reach, and another port, on which nothing listens. `joinJob` (a start job
  that meets a oneshot whose earlier job failed with another unit's) needs five
  events and does not happen within three; the theorems cover it. The proofs
  hold for any number of events, faults and environments.

`CHECK_DEADLOCK FALSE` everywhere: all these programs end, and the bounds on
runs, calls and faults are reached.

### Fairness

`PKI` and `Setup` state weak fairness of the process (a started process is
scheduled; there is no lock it could wait for) and, in `Setup`, of the
apiserver coming up and of its controller establishing each CRD. Nobody is
obliged to start a run. `CompleteAnchorSuffices` and `QuietRunSucceeds` are the
liveness properties. `RewritePass` and `WriteFileAtomic` have none.

`Boot` has one weak fairness condition, on the disjunction of the steps of the
processes, of systemd with the installer, and of the e2e driver: the machine
goes on while anything can, and nothing is assumed of which goes on. That is
less than fairness of each: `ComesUp` holds although one container may be
scheduled before another every time, because each of these steps happens
finitely often between two events. Steps that are faults (a crash, an answer of
an apiserver that is not ready) have an alternative that is none, and are never
forced. Timeouts are included (`setupGiveUp`,
`waitForHealthz`) only where nothing that is running can end the wait; an
earlier timeout is a fault. No operator and no fault ever has to come.

## What the code does and its documents do not say

Found while modelling; each is a run that TLC refutes.

- `pki_refused`: killed between writing `ca.crt` and `ca.key`, Generate leaves
  a directory that every later run refuses (`pki.go:429`); an operator has to
  delete the file.
- `pki_sans`: certificates are kept whatever their SANs, so a host configured
  later never joins them (`pki.go:564`).
- `pki_lifetime`: a leaf reissued by a later run outlives the CA
  (`pki.go:504`).
- `rewrite_idempotent`: a second pass over its own output moves the core
  manager's webhooks to the external host (`webhookrewrite.go:352`). Setup
  itself reloads the manifests and so runs one pass only.
- `setup_rerun`: repeating setup takes the rewritten webhooks back until its
  last phase, for good if it fails before (`setup.go:216`).
- `setup_vendored`: two of the vendored hypervisor webhooks still name a
  Service in namespace `system`, for which setup has no port: it fails
  (`setup.go:248`).
- `boot_clean`: the installer does not create `webhook-certs/`, which the units
  of pki and setup mount, so a clean host does not boot without it
  (`install-quadlet.sh:239`); the e2e driver creates it, and hides that.

Seen in the model, with no document that says otherwise:

- With a bind port other than 6443, setup waits at that port *inside* the pod,
  where nothing listens, and fails after its timeout; the pod never comes up.
  `KubeconfigsReachable` holds for just this reason, and `ComesUp` is stated
  for 6443.
- The e2e driver publishes host port 6443 at the bind host and probes the port
  of the bind address at 127.0.0.1: with another port, or a host that does not
  include 127.0.0.1, `Create` always times out. `ComesUp` is stated for what the
  probe reaches.
- A Service in the namespace of an external manager gets that manager's port,
  on localhost: for the hypervisor manager 9443, where core listens
  (`RewriteWebhookPortsByNamespace`, `setup.go:438`). Setup's own check of the
  result accepts it. `OwnersSeparated` says that this is the only case in which
  webhooks of two managers are sent to one listener; the vendored manifests name
  no Service there.
- Nothing starts the pod after a reboot: the units have no `[Install]`.
- The hypervisor webhook host an operator configures is in no unit
  (`HypervisorHostIsDefault` in `BootProofs`).
- White space around `CAPISHIM_STATE_DIR` makes the installer prepare one path
  and the units mount another (`PreparedIsMounted`).
- A setup that meets an apiserver which answers before it is ready, or without
  its etcd, ends its wait and fails at the next call, and nothing starts it
  again (`setupReach`; `comingUp` excludes it).
- A Restart of the e2e driver that could not stop the pod runs pki beside the
  containers of the last time. `MintsAlone` holds nevertheless: they were
  started over a complete inventory, and pki writes nothing over one.

## Proofs

Every theorem is for all values of the constants, from the named assumptions in
the modules.

- `PKIProofs`. Assumptions: at least one leaf, two different leaves with
  configurable SANs, the three sorts of content differ. None of the properties is
  inductive. The invariant `IInv` adds that every key on disk or in memory is
  among those generated so far (`KeysGenerated`), so that the key just
  generated is on disk nowhere: the moment a certificate has been replaced and its
  key not yet, the pair cannot match by accident (`WritingInv`); and that the walk has
  left only valid pairs behind it (`ProgressInv`). A run that found a CA file
  never comes to write one (`FoundInv`). From these follow
  `TypeCorrect`, `SuccessIsValid`, `ChainOfTrust`, `ReadOnlySufficient`, and with
  one more lemma (`OnlyBrokenPairsWritten`) the action properties
  `ValidPairsNeverRewritten` and `AnchorKept`.
- `RewritePassProofs`. Assumptions: a manifest's clientConfig has not both a
  service and a URL, in-pod ports differ, hosts contain the loopback names. The
  invariant says what each webhook is on either side of the position, in terms
  of `orig` and `first`; lemmas about the operators (`RewriteSettles`,
  `RewriteSettledAgain`, `AuthorityOf`) carry it. `Separation` is the theorem
  about the shared port: which webhooks of different managers meet at one
  listener, and that no others do. It needs only that the ports *in the pod*
  differ.
- `WriteFileAtomicProofs`. The invariant says that no inode that a name or a
  reader can see, other than the temporary file's, is ever written, and that the
  target is never torn. `Implementation` is the refinement: initial states map to
  initial states, `Rename` to `Replace`, a reader's `Open` and `OpenMissing` to
  `Read`, and everything else stutters.

- `BootProofs`, `BootOrderProofs`, `BootDataProofs`, `BootFilesProofs`.
  Assumptions: environments are records of raw values (`EnvsAssumption`), the
  input of a missing unit is none of theirs and no raw value is `Unset`
  (`InputAssumption`), the bounds are natural numbers. All that is proved is for
  any set of environments and any number of events and faults. The
  argument goes along six invariants, each using those before it:
  - `TypeInv`: types, and that no job is pending for a unit that systemd has not
    loaded with all it requires, which is why a started container has an input.
  - `OrderInv` (`UnitsInOrder`): while a container has a job and a oneshot it
    depends on is not done, every unit between the two has a job too. Without
    it a start job would be ready although a oneshot further down is still
    running; with it `Requires=`/`After=` of neighbours is enough for all.
  - `DataInv` (`KubeconfigsName6443`): a oneshot that is done has left what it
    makes in its state directory, a setup that applies does so at the
    apiserver's port, and one that finished was of its cluster's own state
    directory (`OwnClusters`).
  - `DriverInv` (`ReturnsWhenSetUp`): after a oneshot's step of `boot` that
    oneshot is done, and every container is of the driver's own input. It holds
    also when `Restart` has stopped nothing.
  - `MintInv` (`PKIWritesAlone`): `MintsAlone`, and that under the e2e driver
    pki writes only over an inventory that is not complete, while a container
    that runs has a complete one.
  - `PreparedInv` (`UnitsMount`): a state directory with a policy has all the
    directories the installer makes, as the policy is written last.
  `FilesAreThere` needs all of them: what a container opens was made by a
  oneshot that is done, of the same state directory.
  At the end of `BootProofs` is the way of a value from the installer into a
  container. `ReadBack`: what a container's binary loads is what the renderer
  loaded. `PreparedIsMounted`: the installer and the units agree on the path
  exactly when it is not padded. `HypervisorHostIsDefault`. They assume only
  that `Unset` is no text (`UnsetIsNoText`); TLC has nothing to add.
- `SetupProofs`. Assumptions: the documents of an image are objects
  (`DocsAssumption`: only bindings have a roleRef and none is without one, only
  webhook configurations and CRDs have clientConfigs); a configured host is not
  empty; a webhook vendored with a URL names a loopback host and port 9443
  (`VendoredURLsAssumption`: it is why the rewrite makes it reachable, and the
  vendored manifests all do); the bounds are natural numbers; the texts of the
  code are strings, and `Nil` is none of the values it stands in for. No image
  is assumed to load, to be bindable or to be rewritable: the runs of those
  that are not fail.

  None of the properties is inductive. The invariant `IInv` is the type
  invariant and
  - `MemoryInv`: what is in memory is what setup makes of its image in the phase
    it is in, and the errors of the phases before did not occur. It gives the
    objects their types and their keys.
  - `ProgressInv`: behind the position of Apply its objects are held as they
    are (`BatchDone`); behind a phase everything it applies
    (`BindingsDone`, `WebhooksDone`), the webhooks of the second apply excepted,
    which the third one overwrites. `ReadyIsConverged` is its last
    line, unfolded through what the rewrites do to one object.
  - `BindingsInv`: every binding the apiserver holds was rewritten by some run.
    As the first apply has no bindings, there is no other way in.
    `EffectiveBindingsStay` and `RefusedOnUpgradeOnly` follow: an image has one
    roleRef for a key, so a refusal needs two images.
  - `KubeconfigsInv`: some run's objects are all still there, as none is ever
    removed; with `BindingsInv` this is `KubeconfigsLast`.

  A run that is ready says nothing of the next one: `ProgressInv` speaks of
  the run in memory only, and what survives it are the last two.

  The lemmas before these are about the operators. `Selected` is a recursive
  function; that its recursion has a solution (`PrefixesExist`) and which
  elements it returns (`SelectedElements`, `SelectedSubset`) are proved by
  induction over positions. The induction theorems of the library cannot be
  used, as they take a predicate; `InductionOnSet` takes a set, and follows from
  the order of the naturals being well-founded. `NothingLost` is what they
  say of the whole chain of filters: a document of an applied kind reaches the
  apiserver, unless it is a CAPI CRD without v1beta2.

Model-checked only: the liveness properties (`CompleteAnchorSuffices`,
`QuietRunSucceeds`, `ComesUp`), which are out of the prover's reach. Every
invariant and every action property that a passing run checks is also a
theorem.

## Not modelled

- The vendoring scripts and the e2e suite's client certificate: developer and
  test tools that touch none of the pod's state.
- Of the installer: lingering, the templates it copies, the kubeconfig
  symlink. None of the units uses them. The parsing of command lines: pure.
- Images and their tags, container users, the other flags of the command lines;
  file modes, key material, YAML and JSON.
- Power loss (nothing is synced by the code); a damaged etcd.
- What the managers do once they run, and the external hypervisor manager.
- Two setups at once: `OneshotsFirst` and the single unit exclude it in the pod.

## Plan

1. `PKI`, `RewritePass`, `WriteFileAtomic`, `Setup`, with the proofs of the
   first three. Done.
2. `Config`, `Quadlet`, `Pod`, `Systemd`, `E2EDriver`, `Boot`, with their proofs.
   Done.
3. `SetupProofs`: every safety property of `Setup` for any set of images. Done.
4. Several refinements are argued here and not checked: that `Pod`'s three
   inventories and setup's two phases are abstractions of `PKI` and `Setup`.
   Each wants an abstract specification of its own (an inventory that is none,
   partial or complete; a setup that waits, applies and is done), implemented by
   the detailed one under a mapping that `PKIProofs` and `SetupProofs` can prove
   from their invariants.
