--------------------------------- MODULE PKI ---------------------------------
(***************************************************************************)
(* internal/pki: Generate brings the certificate inventory of a state      *)
(* directory into existence.  The inventory is a sequence of file pairs:   *)
(* the pod CA (pair 0), the leaf artifacts in the order of Generate's list *)
(* (1..NumLeaves) and the service-account pair (the last one).  Generate   *)
(* walks the sequence once; every file it writes is opened with O_TRUNC,   *)
(* filled and chmodded in separate steps, with no temporary file, so that  *)
(* a process killed on the way leaves a torn file behind.                  *)
(*                                                                         *)
(* A run is made by `capishim pki` (pki/ mounted read-write) or by         *)
(* `capishim setup` (pki/ mounted read-only), each with its own            *)
(* configuration.  Between runs an operator, or the disk, may remove or    *)
(* damage files.                                                           *)
(***************************************************************************)
EXTENDS Naturals

CONSTANTS
  NumLeaves,          \* number of leaf artifacts
  APIServer,          \* the leaf whose SANs carry the bind host
  HypervisorWebhook,  \* the leaf outside pki/, whose SANs carry the override
  BindHosts,          \* host parts a bind address may have; "" is unset
  WebhookHosts,       \* override hosts of the hypervisor webhook; "" is unset
  Missing,            \* content of a file that does not exist
  Torn,               \* content of a file that does not parse
  MaxRuns,            \* bound: runs of Generate
  MaxFaults           \* bound: crashes, I/O errors and operator interventions

CA   == 0
Leaf == 1..NumLeaves
SA   == NumLeaves + 1
Pair == 0..(NumLeaves + 1)

Loopback    == {"localhost", "127.0.0.1"}
DefaultHost == "host.containers.internal"
Wildcard    == {"0.0.0.0", "::"}
Names       == BindHosts \cup WebhookHosts \cup Loopback \cup {DefaultHost}

(* A certificate: the key it certifies, the key that signed it, its SANs   *)
(* and the run whose clock dates it (the validity period is constant, so   *)
(* a later run means a later NotAfter).  Keys are numbered as generated.   *)
Cert == [pub: Nat, issuer: Nat, sans: SUBSET Names, at: Nat]

Config == [bind: BindHosts, hypervisor: WebhookHosts]

Unreadable == {Missing, Torn}

ASSUME LeavesAssumption ==
  /\ NumLeaves \in Nat \ {0}
  /\ APIServer \in Leaf
  /\ HypervisorWebhook \in Leaf
  /\ APIServer # HypervisorWebhook

ASSUME ContentAssumption ==
  /\ Missing # Torn
  /\ Missing \notin Cert \cup Nat
  /\ Torn \notin Cert \cup Nat

ASSUME BoundAssumption == MaxRuns \in Nat /\ MaxFaults \in Nat

VARIABLES
  crt,      \* the certificate file of every pair
  key,      \* the key file of every pair
  pc,       \* where the running Generate is; "idle" between runs
  caller,   \* the command that runs Generate
  cfg,      \* the configuration of the run
  cur,      \* the pair Generate is at
  file,     \* the file of the pair being written
  ca,       \* the CA in the process's memory
  new,      \* the certificate in memory that is being persisted
  run,      \* runs started so far: the clock
  fresh,    \* keys generated so far
  result,   \* how the last run ended, "none" once the files were disturbed
  anchorTouched, \* history: the operator or the disk disturbed the CA pair
  found,    \* history: the CA files that existed when the run started
  faults    \* faults so far

disk   == <<crt, key>>
memory == <<caller, cfg, cur, file, ca, new>>
vars   == <<disk, pc, memory, run, fresh, result, anchorTouched, found, faults>>

TypeOK ==
  /\ crt \in [Pair -> Cert \cup Unreadable]
  /\ key \in [Pair -> Nat \cup Unreadable]
  /\ pc \in {"idle", "ensure", "open", "fill", "chmod"}
  /\ caller \in {"pki", "setup"}
  /\ cfg \in Config
  /\ cur \in Pair
  /\ file \in {"crt", "key"}
  /\ ca \in Cert \cup {Missing}
  /\ new \in Cert \cup {Missing}
  /\ run \in Nat
  /\ fresh \in Nat
  /\ result \in {"none", "ok", "error", "refused", "readonly", "crashed"}
  /\ anchorTouched \in BOOLEAN
  /\ found \subseteq {"crt", "key"}
  /\ faults \in Nat

-----------------------------------------------------------------------------
(* Reading a pair *)

(* Both files parse and the key is the certificate's.  Neither the issuer, *)
(* nor the SANs, nor the dates are looked at.                              *)
validPair(p) ==
  /\ crt[p] \notin Unreadable
  /\ key[p] \notin Unreadable
  /\ crt[p].pub = key[p]

fileExists(content) == content # Missing

apiserverSANs(host) ==
  Loopback \cup (IF host \in Wildcard \cup {""} THEN {} ELSE {host})

hypervisorWebhookSANs(override) ==
  Loopback \cup {DefaultHost} \cup (IF override = "" THEN {} ELSE {override})

leafSANs(p, c) ==
  IF p = APIServer THEN apiserverSANs(c.bind)
  ELSE IF p = HypervisorWebhook THEN hypervisorWebhookSANs(c.hypervisor)
  ELSE Loopback

(* The CA and the leaves are written certificate first, sa.key precedes    *)
(* sa.pub.                                                                 *)
firstFile(p) == IF p = SA THEN "key" ELSE "crt"

(* Mutant: the key goes to the certificate's path. *)
secondFile_SamePath(p) == firstFile(p)
secondFile(p) == IF p = SA THEN "crt" ELSE "key"

(* The quadlet of setup mounts pki/ read-only and webhook-certs/ not.      *)
writable(p) == caller = "pki" \/ p = HypervisorWebhook

-----------------------------------------------------------------------------
Init ==
  /\ crt = [p \in Pair |-> Missing]
  /\ key = [p \in Pair |-> Missing]
  /\ pc = "idle"
  /\ caller = "pki"
  /\ cfg \in Config
  /\ cur = CA
  /\ file = "crt"
  /\ ca = Missing
  /\ new = Missing
  /\ run = 0
  /\ fresh = 0
  /\ result = "none"
  /\ anchorTouched = FALSE
  /\ found = {}
  /\ faults = 0

(* The process ends and its memory is gone.                                *)
End(how) ==
  /\ pc' = "idle"
  /\ result' = how
  /\ cur' = CA
  /\ file' = "crt"
  /\ ca' = Missing
  /\ new' = Missing
  /\ found' = {}
  /\ UNCHANGED <<caller, cfg>>

Start(c, conf) ==
  /\ pc = "idle"
  /\ run < MaxRuns
  /\ run' = run + 1
  /\ pc' = "ensure"
  /\ caller' = c
  /\ cfg' = conf
  /\ result' = "none"
  /\ found' = {f \in {"crt", "key"} :
                 fileExists(IF f = "crt" THEN crt[CA] ELSE key[CA])}
  /\ UNCHANGED <<disk, cur, file, ca, new, fresh, anchorTouched, faults>>

(* Mutant: the loop runs past the last artifact. *)
Advance_PastEnd(anchor) ==
  IF cur > SA
  THEN End("ok")
  ELSE /\ cur' = cur + 1
       /\ pc' = "ensure"
       /\ ca' = anchor
       /\ UNCHANGED <<caller, cfg, file, new, result, found>>

(* The loop goes to the next pair, or Generate returns the inventory.      *)
Advance(anchor) ==
  IF cur = SA
  THEN End("ok")
  ELSE /\ cur' = cur + 1
       /\ pc' = "ensure"
       /\ ca' = anchor
       /\ UNCHANGED <<caller, cfg, file, new, result, found>>

(* A key is generated and a certificate for it signed, in memory.          *)
Issue(c) ==
  /\ fresh' = fresh + 1
  /\ new' = c
  /\ file' = firstFile(cur)
  /\ pc' = "open"
  /\ UNCHANGED <<disk, caller, cfg, cur, run, result, anchorTouched, found, faults>>

loadCAPair ==
  /\ pc = "ensure" /\ cur = CA
  /\ validPair(CA)
  /\ Advance(crt[CA])
  /\ UNCHANGED <<disk, run, fresh, anchorTouched, faults>>

(* Mutant: an existing CA is refused without looking at it. *)
refuseCA_Existing ==
  /\ pc = "ensure" /\ cur = CA
  /\ fileExists(crt[CA]) \/ fileExists(key[CA])
  /\ End("refused")
  /\ UNCHANGED <<disk, run, fresh, anchorTouched, faults>>

(* One of the two files exists, or both do and they are not a CA pair.     *)
refuseCA ==
  /\ pc = "ensure" /\ cur = CA
  /\ fileExists(crt[CA]) \/ fileExists(key[CA])
  /\ ~validPair(CA)
  /\ End("refused")
  /\ UNCHANGED <<disk, run, fresh, anchorTouched, faults>>

(* Mutant: a CA pair that does not load is regenerated. *)
newCACert_Repair ==
  /\ pc = "ensure" /\ cur = CA
  /\ ~validPair(CA)
  /\ Issue([pub |-> fresh + 1, issuer |-> fresh + 1, sans |-> {}, at |-> run])
  /\ ca' = new'

newCACert ==
  /\ pc = "ensure" /\ cur = CA
  /\ ~fileExists(crt[CA]) /\ ~fileExists(key[CA])
  /\ Issue([pub |-> fresh + 1, issuer |-> fresh + 1, sans |-> {}, at |-> run])
  /\ ca' = new'

keepPair ==
  /\ pc = "ensure" /\ cur # CA
  /\ validPair(cur)
  /\ Advance(ca)
  /\ UNCHANGED <<disk, run, fresh, anchorTouched, faults>>

(* Mutant: a pair is also regenerated when its SANs are not the configured ones. *)
ensureLeaf_RefreshSANs ==
  /\ pc = "ensure" /\ cur \in Leaf
  /\ validPair(cur) => crt[cur].sans # leafSANs(cur, cfg)
  /\ Issue([pub |-> fresh + 1, issuer |-> ca.pub,
            sans |-> leafSANs(cur, cfg), at |-> run])
  /\ UNCHANGED ca

(* Mutant: a leaf signs itself. *)
ensureLeaf_SelfSigned ==
  /\ pc = "ensure" /\ cur \in Leaf
  /\ ~validPair(cur)
  /\ Issue([pub |-> fresh + 1, issuer |-> fresh + 1,
            sans |-> leafSANs(cur, cfg), at |-> run])
  /\ UNCHANGED ca

ensureLeaf ==
  /\ pc = "ensure" /\ cur \in Leaf
  /\ ~validPair(cur)
  /\ Issue([pub |-> fresh + 1, issuer |-> ca.pub,
            sans |-> leafSANs(cur, cfg), at |-> run])
  /\ UNCHANGED ca

ensureServiceAccountPair ==
  /\ pc = "ensure" /\ cur = SA
  /\ ~validPair(cur)
  /\ Issue([pub |-> fresh + 1, issuer |-> fresh + 1, sans |-> {}, at |-> run])
  /\ UNCHANGED ca

(* writeFile: os.WriteFile opens and truncates, then writes; then Chmod.   *)
putFile(crtContent, keyContent) ==
  \/ /\ file = "crt"
     /\ crt' = [crt EXCEPT ![cur] = crtContent]
     /\ UNCHANGED key
  \/ /\ file = "key"
     /\ key' = [key EXCEPT ![cur] = keyContent]
     /\ UNCHANGED crt

openTruncate ==
  /\ pc = "open"
  /\ writable(cur)
  /\ putFile(Torn, Torn)
  /\ pc' = "fill"
  /\ UNCHANGED <<memory, run, fresh, result, anchorTouched, found, faults>>

openReadOnly ==
  /\ pc = "open"
  /\ ~writable(cur)
  /\ End("readonly")
  /\ UNCHANGED <<disk, run, fresh, anchorTouched, faults>>

writeContent ==
  /\ pc = "fill"
  /\ putFile(new, new.pub)
  /\ pc' = "chmod"
  /\ UNCHANGED <<memory, run, fresh, result, anchorTouched, found, faults>>

chmod ==
  /\ pc = "chmod"
  /\ \/ /\ file = firstFile(cur)
        /\ file' = secondFile(cur)
        /\ pc' = "open"
        /\ UNCHANGED <<caller, cfg, cur, ca, new, result, found>>
     \/ /\ file = secondFile(cur)
        /\ Advance(ca)
  /\ UNCHANGED <<disk, run, fresh, anchorTouched, faults>>

Generate ==
  \/ loadCAPair \/ refuseCA \/ newCACert
  \/ keepPair \/ ensureLeaf \/ ensureServiceAccountPair
  \/ openTruncate \/ openReadOnly \/ writeContent \/ chmod

-----------------------------------------------------------------------------
(* Faults *)

Fault == faults < MaxFaults /\ faults' = faults + 1

(* Any call may fail and Generate returns its error: a malformed bind      *)
(* address, MkdirAll, stat, key generation, open, write or chmod.          *)
Fail ==
  /\ pc # "idle"
  /\ Fault
  /\ End("error")
  /\ UNCHANGED <<disk, run, fresh, anchorTouched>>

Crash ==
  /\ pc # "idle"
  /\ Fault
  /\ End("crashed")
  /\ UNCHANGED <<disk, run, fresh, anchorTouched>>

(* Between runs a file is removed, or its content damaged.                 *)
Disturb(p, f, content) ==
  /\ pc = "idle"
  /\ Fault
  /\ \/ /\ f = "crt" /\ crt[p] \notin {Missing, content}
        /\ crt' = [crt EXCEPT ![p] = content]
        /\ UNCHANGED key
     \/ /\ f = "key" /\ key[p] \notin {Missing, content}
        /\ key' = [key EXCEPT ![p] = content]
        /\ UNCHANGED crt
  /\ result' = "none"
  /\ anchorTouched' = (anchorTouched \/ p = CA)
  /\ UNCHANGED <<pc, memory, run, fresh, found>>

Next ==
  \/ \E c \in {"pki", "setup"}, conf \in Config : Start(c, conf)
  \/ Generate
  \/ Fail
  \/ Crash
  \/ \E p \in Pair, f \in {"crt", "key"}, x \in Unreadable : Disturb(p, f, x)

(* A started process is scheduled; nobody has to start one, and faults     *)
(* need not happen.                                                        *)
Spec == Init /\ [][Next]_vars /\ WF_vars(Generate)

-----------------------------------------------------------------------------
(* Properties *)

InventoryValid == \A p \in Pair : validPair(p)

(* Safety.  Generate returns an inventory only when every pair on disk     *)
(* parses and matches, whatever torn, stale or half-replaced files earlier *)
(* crashed or failed runs left (pki.go, Generate: "Leaf artifacts are      *)
(* written only when missing or broken").                                  *)
SuccessMeansValid == result = "ok" => InventoryValid

(* Safety.  As long as nobody but Generate touched the CA files, every     *)
(* readable leaf certificate is signed by the CA on disk, and that CA is   *)
(* complete: no crash makes Generate issue leaves under an anchor that is  *)
(* later replaced (pki.go, ensureCA and ensureLeaf).                       *)
LeavesChainToCA ==
  ~anchorTouched =>
    \A l \in Leaf : crt[l] \notin Unreadable =>
      validPair(CA) /\ crt[l].issuer = crt[CA].pub

(* Safety.  On a valid inventory `capishim setup` never needs to write     *)
(* under its read-only pki/ mount: it is refused by the mount only when    *)
(* some pair is missing or broken (setup.go, pki.Generate in setup).       *)
ReadOnlyMountSuffices == result = "readonly" => ~InventoryValid

(* Action property.  Generate never changes a pair that is valid, be it    *)
(* the CA or a leaf, and in particular a run over a valid inventory writes *)
(* nothing (pki.go, Generate: "valid existing leaves are left              *)
(* byte-identical").                                                       *)
ValidPairsKept ==
  [][\A p \in Pair : pc # "idle" /\ validPair(p)
       => crt'[p] = crt[p] /\ key'[p] = key[p]]_vars

(* Action property.  A run that found either CA file when it started       *)
(* changes neither: a complete anchor is kept, and a partial or damaged    *)
(* one is refused, never completed, repaired or replaced, not even after   *)
(* several runs and crashes (pki.go, ensureCA: "the trust anchor is never  *)
(* silently replaced").                                                    *)
AnchorNeverReplaced ==
  [][pc # "idle" /\ found # {}
       => crt'[CA] = crt[CA] /\ key'[CA] = key[CA]]_vars

(* Documented, and violated.  A state directory nobody but Generate wrote  *)
(* to is never refused (setup.go: "Every step is idempotent so a re-run    *)
(* converges to the same state").                                          *)
UntouchedNeverRefused == ~anchorTouched => result # "refused"

(* Documented, and violated.  After a successful run the two certificates  *)
(* with configurable SANs carry the hosts of the run's configuration       *)
(* (pki.go, Config: "When set, it joins the serving certificate SANs").    *)
SANsFollowConfig ==
  result = "ok" => \A l \in {APIServer, HypervisorWebhook} :
                     leafSANs(l, cfg) \subseteq crt[l].sans

(* Documented, and violated.  No leaf is valid for longer than the CA that *)
(* signed it (pki.go, Generate: "A single clock for the whole run keeps    *)
(* every issued leaf from outliving the CA").                              *)
LeavesNeverOutliveCA ==
  \A l \in Leaf : /\ crt[l] \notin Unreadable /\ crt[CA] \notin Unreadable
                  /\ crt[l].issuer = crt[CA].pub
                  => crt[l].at <= crt[CA].at

(* Liveness.  A run of Generate over a complete CA pair ends, and unless   *)
(* an I/O error, a crash or the read-only mount stops it, it ends in       *)
(* success: leftovers of other runs never block it.                        *)
CompleteAnchorSuffices ==
  (pc = "ensure" /\ cur = CA /\ validPair(CA))
    ~> (pc = "idle" /\ result # "refused")
=============================================================================
