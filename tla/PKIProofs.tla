------------------------------ MODULE PKIProofs ------------------------------
(***************************************************************************)
(* Proofs about PKI: for every number of leaves, set of hosts and bound.   *)
(***************************************************************************)
EXTENDS PKI, TLAPS

Writing == pc \in {"open", "fill", "chmod"}

(* The inductive invariant beyond the types.  Keys are numbered in the     *)
(* order of generation, so the key being persisted differs from every key  *)
(* left on disk by earlier runs.                                           *)
KeysGenerated ==
  \A p \in Pair :
    /\ crt[p] \notin Unreadable => crt[p].pub <= fresh
    /\ key[p] \notin Unreadable => key[p] <= fresh

OldCrt(p) == crt[p] \notin Unreadable => crt[p].pub < fresh
OldKey(p) == key[p] \notin Unreadable => key[p] < fresh

(* How far the two files of the current pair are replaced, per place in    *)
(* writeFile; a CA file not reached yet is absent.                         *)
FirstPending ==
  /\ ~validPair(cur) /\ OldCrt(cur) /\ OldKey(cur)
  /\ cur = CA => crt[CA] = Missing /\ key[CA] = Missing

FirstTorn ==
  IF cur = SA THEN key[cur] = Torn /\ OldCrt(cur)
  ELSE /\ crt[cur] = Torn /\ OldKey(cur)
       /\ cur = CA => key[CA] = Missing

FirstWritten ==
  IF cur = SA THEN key[cur] = new.pub /\ OldCrt(cur)
  ELSE /\ crt[cur] = new /\ OldKey(cur)
       /\ cur = CA => key[CA] = Missing

SecondTorn ==
  IF cur = SA THEN key[cur] = new.pub /\ crt[cur] = Torn
  ELSE crt[cur] = new /\ key[cur] = Torn

BothWritten == crt[cur] = new /\ key[cur] = new.pub

WritingInv ==
  Writing =>
    /\ new \in Cert /\ new.pub = fresh
    /\ cur \in Leaf => new.issuer = ca.pub
    /\ cur = CA => ca = new
    /\ file = firstFile(cur) =>
         /\ pc = "open"  => FirstPending
         /\ pc = "fill"  => FirstTorn
         /\ pc = "chmod" => FirstWritten
    /\ file = secondFile(cur) =>
         /\ pc = "open"  => FirstWritten
         /\ pc = "fill"  => SecondTorn
         /\ pc = "chmod" => BothWritten

(* The pairs behind Generate are done and the CA in memory is on disk.     *)
ProgressInv ==
  pc # "idle" =>
    /\ \A p \in Pair : p < cur => validPair(p)
    /\ cur # CA => ca = crt[CA]
    /\ result = "none"

IdleInv == pc = "idle" => cur = CA

(* The files of the CA are written only in a run that found none of them.  *)
FoundInv ==
  /\ pc = "ensure" /\ cur = CA /\ crt[CA] = Missing /\ key[CA] = Missing
       => found = {}
  /\ Writing /\ cur = CA => found = {}

IInv ==
  /\ TypeOK
  /\ KeysGenerated
  /\ IdleInv
  /\ FoundInv
  /\ WritingInv
  /\ ProgressInv
  /\ LeavesChainToCA
  /\ SuccessMeansValid
  /\ ReadOnlyMountSuffices
-----------------------------------------------------------------------------
(* The two files of a pair are the two files. *)
LEMMA FilesOfPair ==
  ASSUME NEW p
  PROVE  /\ firstFile(p) # secondFile(p)
         /\ firstFile(p) \in {"crt", "key"}
         /\ secondFile(p) \in {"crt", "key"}
         /\ \A f \in {"crt", "key"} : f = firstFile(p) \/ f = secondFile(p)
  BY DEF firstFile, secondFile

(* Arithmetic of the walk over the pairs. *)
LEMMA PairFacts ==
  /\ CA \in Pair /\ SA \in Pair /\ CA # SA
  /\ Leaf \subseteq Pair
  /\ \A p \in Pair : p \in Nat
  /\ \A p \in Pair : p = CA \/ p \in Leaf \/ p = SA
  /\ \A l \in Leaf : l # CA /\ l # SA
  /\ \A p \in Pair : p # SA => p + 1 \in Pair /\ p + 1 # CA
  /\ \A p, q \in Pair : q < p + 1 => q < p \/ q = p
  /\ \A p \in Pair : p < SA \/ p = SA
  /\ \A p \in Pair : ~(p < CA)
  /\ \A p \in Pair : p # CA => CA < p
  BY LeavesAssumption DEF CA, SA, Leaf, Pair

(* The SANs newInventory computes are sets of names. *)
LEMMA SANsAreNames ==
  ASSUME NEW p \in Pair, NEW c \in Config
  PROVE  leafSANs(p, c) \in SUBSET Names
  BY DEF leafSANs, apiserverSANs, hypervisorWebhookSANs, Names, Config

(* An empty state directory satisfies the invariant. *)
LEMMA InitIInv == Init => IInv
<1> SUFFICES ASSUME Init PROVE IInv
  OBVIOUS
<1> USE PairFacts, ContentAssumption
<1>1. TypeOK
  BY DEF Init, TypeOK, Unreadable
<1>2. KeysGenerated /\ LeavesChainToCA
  BY DEF Init, KeysGenerated, LeavesChainToCA, Unreadable
<1>3. WritingInv /\ ProgressInv /\ SuccessMeansValid /\ ReadOnlyMountSuffices
  BY DEF Init, WritingInv, Writing, ProgressInv, SuccessMeansValid,
         ReadOnlyMountSuffices
<1>4. QED
  BY <1>1, <1>2, <1>3 DEF IInv, IdleInv, FoundInv, Writing, Init

(* A step that leaves the disk alone and ends the process, in another way  *)
(* than success or on the read-only mount, keeps the invariant.            *)
LEMMA EndIInv ==
  ASSUME IInv, NEW how \in {"error", "refused", "crashed"},
         End(how), UNCHANGED <<crt, key, fresh, anchorTouched>>,
         run' \in Nat, faults' \in Nat
  PROVE  IInv'
<1> USE PairFacts
<1>1. TypeOK'
  BY DEF IInv, TypeOK, End
<1>2. KeysGenerated' /\ LeavesChainToCA'
  BY DEF IInv, KeysGenerated, LeavesChainToCA, validPair
<1>3. WritingInv' /\ ProgressInv' /\ SuccessMeansValid' /\ ReadOnlyMountSuffices'
  BY DEF End, WritingInv, Writing, ProgressInv, SuccessMeansValid,
         ReadOnlyMountSuffices
<1>4. QED
  BY <1>1, <1>2, <1>3 DEF IInv, IdleInv, FoundInv, Writing, End

(* Going to the next pair, once the current one is valid on disk.          *)
LEMMA AdvanceIInv ==
  ASSUME IInv, pc # "idle", validPair(cur),
         NEW anchor, anchor = crt[CA],
         Advance(anchor), UNCHANGED <<crt, key, run, fresh, anchorTouched, faults>>
  PROVE  IInv'
<1> USE PairFacts, ContentAssumption
<1>1. validPair(CA)
  BY DEF IInv, ProgressInv, TypeOK
<1>2. \A p \in Pair : p < cur \/ p = cur => validPair(p)
  BY DEF IInv, ProgressInv
<1>3. TypeOK'
  <2>1. crt[CA] \in Cert
    BY <1>1 DEF IInv, TypeOK, validPair, Unreadable
  <2>2. CASE cur = SA
    BY <2>2 DEF IInv, TypeOK, Advance, End
  <2>3. CASE cur # SA
    <3>1. /\ cur' = cur + 1 /\ pc' = "ensure" /\ ca' = crt[CA]
          /\ UNCHANGED <<caller, cfg, file, new, result, found>>
      BY <2>3 DEF Advance
    <3>2. cur' \in Pair /\ ca' \in Cert \cup {Missing}
      BY <2>1, <2>3, <3>1 DEF IInv, TypeOK
    <3>3. QED
      BY <3>1, <3>2 DEF IInv, TypeOK
  <2>4. QED
    BY <2>2, <2>3
<1>4. KeysGenerated' /\ LeavesChainToCA'
  BY DEF IInv, KeysGenerated, LeavesChainToCA, validPair
<1>5. CASE cur = SA
  <2>1. InventoryValid'
    BY <1>2, <1>5 DEF InventoryValid, validPair
  <2>2. WritingInv' /\ ProgressInv' /\ SuccessMeansValid' /\ ReadOnlyMountSuffices'
    BY <1>5, <2>1 DEF Advance, End, WritingInv, Writing, ProgressInv,
       SuccessMeansValid, ReadOnlyMountSuffices
  <2>3. QED
    BY <1>3, <1>4, <1>5, <2>2 DEF IInv, IdleInv, FoundInv, Writing, Advance, End
<1>6. CASE cur # SA
  <2>1. cur \in Pair
    BY DEF IInv, TypeOK
  <2>2. /\ cur' = cur + 1 /\ pc' = "ensure" /\ ca' = crt[CA]
        /\ result' = "none"
    BY <1>6 DEF Advance, IInv, ProgressInv
  <2>3. \A p \in Pair : (p < cur') => validPair(p)'
    BY <1>2, <2>1, <2>2 DEF validPair
  <2>4. WritingInv' /\ ProgressInv' /\ SuccessMeansValid' /\ ReadOnlyMountSuffices'
    BY <2>2, <2>3 DEF WritingInv, Writing, ProgressInv,
       SuccessMeansValid, ReadOnlyMountSuffices
  <2>5. cur' # CA
    BY <1>6, <2>1, <2>2
  <2>6. QED
    BY <1>3, <1>4, <2>2, <2>4, <2>5 DEF IInv, IdleInv, FoundInv
<1>7. QED
  BY <1>5, <1>6

(* A new key and certificate in memory, the disk as it was.                *)
LEMMA IssueIInv ==
  ASSUME IInv, pc = "ensure", ~validPair(cur),
         NEW c \in Cert, c.pub = fresh + 1, Issue(c),
         cur \in Leaf => c.issuer = ca.pub,
         cur = CA => crt[CA] = Missing /\ key[CA] = Missing /\ ca' = c,
         cur # CA => ca' = ca
  PROVE  IInv'
<1> USE PairFacts, ContentAssumption
<1>1. TypeOK'
  BY FilesOfPair DEF IInv, TypeOK, Issue, disk
<1>2. KeysGenerated'
  BY DEF IInv, TypeOK, KeysGenerated, Issue, disk, Unreadable, Cert
<1>3. LeavesChainToCA'
  BY DEF IInv, LeavesChainToCA, Issue, disk, validPair
<1>4. FirstPending' /\ file' = firstFile(cur') /\ pc' = "open"
  BY DEF IInv, TypeOK, KeysGenerated, FirstPending, OldCrt, OldKey, Issue,
         disk, validPair, firstFile, Unreadable, Cert
<1>5. WritingInv'
  BY <1>4, FilesOfPair DEF IInv, WritingInv, Writing, Issue, disk, firstFile,
         secondFile
<1>6. ProgressInv' /\ SuccessMeansValid' /\ ReadOnlyMountSuffices'
  BY DEF IInv, ProgressInv, SuccessMeansValid, ReadOnlyMountSuffices, Issue,
         disk, validPair
<1>7. FoundInv'
  BY <1>4 DEF IInv, FoundInv, Issue, disk
<1>8. QED
  BY <1>1, <1>2, <1>3, <1>4, <1>5, <1>6, <1>7 DEF IInv, IdleInv

(* Truncating a file of the pair being replaced. *)
LEMMA OpenIInv == IInv /\ openTruncate => IInv'
<1> SUFFICES ASSUME IInv, openTruncate PROVE IInv'
  OBVIOUS
<1> USE PairFacts, ContentAssumption
<1> USE DEF openTruncate, putFile, memory
<1>1. TypeOK'
  BY DEF IInv, TypeOK, Unreadable
<1>2. KeysGenerated'
  BY DEF IInv, TypeOK, KeysGenerated, Unreadable
<1>3. ~validPair(cur) /\ cur \in Pair /\ Writing
  BY FilesOfPair DEF IInv, TypeOK, WritingInv, Writing, FirstPending,
     FirstWritten, OldKey, OldCrt, validPair, Unreadable, Cert
<1>4. \A p \in Pair : p # cur => validPair(p)' = validPair(p)
  BY <1>3 DEF validPair, IInv, TypeOK
<1>5. LeavesChainToCA'
  BY <1>3, <1>4 DEF IInv, TypeOK, LeavesChainToCA, Unreadable
<1>6. WritingInv'
  <2>1. CASE file = firstFile(cur)
    BY <1>3, <2>1 DEF IInv, TypeOK, WritingInv, Writing, FirstPending, FirstTorn,
       OldCrt, OldKey, firstFile, secondFile
  <2>2. CASE file = secondFile(cur)
    BY <1>3, <2>2 DEF IInv, TypeOK, WritingInv, Writing, FirstWritten, SecondTorn,
       firstFile, secondFile
  <2>3. QED
    BY <2>1, <2>2, FilesOfPair DEF IInv, TypeOK
<1>7. ProgressInv' /\ SuccessMeansValid' /\ ReadOnlyMountSuffices'
  <2>1. cur # CA => crt'[CA] = crt[CA]
    BY <1>3 DEF IInv, TypeOK
  <2>2. QED
    BY <1>3, <1>4, <2>1 DEF IInv, ProgressInv, SuccessMeansValid,
       ReadOnlyMountSuffices
<1>8. QED
  BY <1>1, <1>2, <1>5, <1>6, <1>7 DEF IInv, IdleInv, FoundInv, Writing

(* Filling the truncated file with the new certificate or its key. *)
LEMMA FillIInv == IInv /\ writeContent => IInv'
<1> SUFFICES ASSUME IInv, writeContent PROVE IInv'
  OBVIOUS
<1> USE PairFacts, ContentAssumption
<1> USE DEF writeContent, putFile, memory
<1>1. cur \in Pair /\ Writing /\ new \in Cert /\ new.pub = fresh /\ fresh \in Nat
  BY DEF IInv, TypeOK, WritingInv, Writing
<1>2. TypeOK'
  BY <1>1 DEF IInv, TypeOK
<1>3. KeysGenerated'
  BY <1>1 DEF IInv, TypeOK, KeysGenerated, Unreadable
<1>4. ~validPair(cur)
  BY <1>1, FilesOfPair DEF IInv, TypeOK, WritingInv, FirstTorn, SecondTorn,
     validPair, Unreadable
<1>5. \A p \in Pair : p # cur => validPair(p)' = validPair(p)
  BY <1>1 DEF validPair, IInv, TypeOK
<1>6. LeavesChainToCA'
  <2>1. CASE cur \in Leaf
    <3>1. validPair(CA) /\ ca = crt[CA] /\ new.issuer = ca.pub
      BY <1>1, <2>1 DEF IInv, ProgressInv, WritingInv, Writing
    <3>2. validPair(CA)' /\ crt'[CA] = crt[CA]
      BY <1>1, <1>5, <2>1, <3>1 DEF IInv, TypeOK
    <3>3. \A l \in Leaf : crt'[l] = crt[l] \/ crt'[l] = new
      BY <1>1 DEF IInv, TypeOK
    <3>4. QED
      BY <3>1, <3>2, <3>3 DEF IInv, LeavesChainToCA
  <2>2. CASE cur = CA
    BY <1>1, <1>4, <2>2 DEF IInv, TypeOK, LeavesChainToCA
  <2>3. CASE cur = SA
    BY <1>1, <1>5, <2>3 DEF IInv, TypeOK, LeavesChainToCA
  <2>4. QED
    BY <1>1, <2>1, <2>2, <2>3
<1>7. WritingInv'
  <2>1. CASE file = firstFile(cur)
    BY <1>1, <2>1 DEF IInv, TypeOK, WritingInv, Writing, FirstTorn, FirstWritten,
       OldCrt, OldKey, firstFile, secondFile
  <2>2. CASE file = secondFile(cur)
    BY <1>1, <2>2 DEF IInv, TypeOK, WritingInv, Writing, SecondTorn, BothWritten,
       firstFile, secondFile
  <2>3. QED
    BY <2>1, <2>2, FilesOfPair DEF IInv, TypeOK
<1>8. ProgressInv' /\ SuccessMeansValid' /\ ReadOnlyMountSuffices'
  <2>1. cur # CA => crt'[CA] = crt[CA]
    BY <1>1 DEF IInv, TypeOK
  <2>2. QED
    BY <1>1, <1>5, <2>1 DEF IInv, ProgressInv, SuccessMeansValid,
       ReadOnlyMountSuffices
<1>9. QED
  BY <1>2, <1>3, <1>6, <1>7, <1>8 DEF IInv, IdleInv, FoundInv, Writing

(* After a write: on to the second file, or the pair is complete. *)
LEMMA ChmodIInv == IInv /\ chmod => IInv'
<1> SUFFICES ASSUME IInv, chmod PROVE IInv'
  OBVIOUS
<1> USE PairFacts, ContentAssumption
<1>1. CASE file = firstFile(cur)
  <2>1. /\ file' = secondFile(cur) /\ pc = "chmod" /\ pc' = "open"
        /\ UNCHANGED <<disk, caller, cfg, cur, ca, new, result, found, run,
                       fresh, anchorTouched, faults>>
    BY <1>1, FilesOfPair DEF chmod
  <2> USE <2>1 DEF disk
  <2>2. TypeOK'
    BY FilesOfPair DEF IInv, TypeOK
  <2>3. KeysGenerated' /\ LeavesChainToCA'
    BY DEF IInv, KeysGenerated, LeavesChainToCA, validPair
  <2>4. WritingInv'
    BY <1>1 DEF IInv, WritingInv, Writing, FirstWritten, OldCrt, OldKey,
       firstFile, secondFile
  <2>5. ProgressInv' /\ SuccessMeansValid' /\ ReadOnlyMountSuffices'
    BY DEF IInv, ProgressInv, SuccessMeansValid, ReadOnlyMountSuffices, validPair
  <2>6. QED
    BY <2>2, <2>3, <2>4, <2>5 DEF IInv, IdleInv, FoundInv, Writing
<1>2. CASE file = secondFile(cur)
  <2>1. /\ Advance(ca) /\ pc = "chmod"
        /\ UNCHANGED <<crt, key, run, fresh, anchorTouched, faults>>
    BY <1>2, FilesOfPair DEF chmod, disk
  <2>2. BothWritten /\ new \in Cert
    BY <1>2, <2>1 DEF IInv, WritingInv, Writing
  <2>3. validPair(cur)
    BY <2>2 DEF BothWritten, validPair, Unreadable, Cert
  <2>4. ca = crt[CA]
    BY <2>1, <2>2 DEF IInv, ProgressInv, WritingInv, Writing, BothWritten
  <2>5. QED
    BY <2>1, <2>3, <2>4, AdvanceIInv
<1>3. QED
  BY <1>1, <1>2, FilesOfPair DEF IInv, TypeOK

(* The three steps that issue a certificate, by the pair they issue it for. *)
LEMMA EnsureIInv ==
  IInv /\ (newCACert \/ ensureLeaf \/ ensureServiceAccountPair) => IInv'
<1> USE PairFacts, ContentAssumption
<1>1. ASSUME IInv, newCACert PROVE IInv'
  <2> DEFINE c == [pub |-> fresh + 1, issuer |-> fresh + 1, sans |-> {}, at |-> run]
  <2>1. c \in Cert /\ c.pub = fresh + 1
    BY <1>1 DEF IInv, TypeOK, Cert
  <2>2. Issue(c) /\ pc = "ensure" /\ cur = CA /\ ca' = c
    BY <1>1 DEF newCACert, Issue
  <2>3. crt[CA] = Missing /\ key[CA] = Missing /\ ~validPair(cur)
    BY <1>1 DEF newCACert, fileExists, validPair, Unreadable
  <2> HIDE DEF c
  <2>4. QED
    BY <1>1, <2>1, <2>2, <2>3, IssueIInv
<1>2. ASSUME IInv, ensureLeaf PROVE IInv'
  <2> DEFINE c == [pub |-> fresh + 1, issuer |-> ca.pub,
                   sans |-> leafSANs(cur, cfg), at |-> run]
  <2>1. ca \in Cert
    BY <1>2 DEF IInv, TypeOK, ProgressInv, ensureLeaf, validPair, Unreadable
  <2>2. leafSANs(cur, cfg) \in SUBSET Names
    BY <1>2, SANsAreNames DEF IInv, TypeOK
  <2>3. c \in Cert /\ c.pub = fresh + 1 /\ c.issuer = ca.pub
    BY <1>2, <2>1, <2>2 DEF IInv, TypeOK, Cert
  <2>4. /\ Issue(c) /\ pc = "ensure" /\ cur \in Leaf /\ ca' = ca
        /\ ~validPair(cur)
    BY <1>2 DEF ensureLeaf
  <2> HIDE DEF c
  <2>5. QED
    BY <1>2, <2>3, <2>4, IssueIInv
<1>3. ASSUME IInv, ensureServiceAccountPair PROVE IInv'
  <2> DEFINE c == [pub |-> fresh + 1, issuer |-> fresh + 1, sans |-> {}, at |-> run]
  <2>1. c \in Cert /\ c.pub = fresh + 1
    BY <1>3 DEF IInv, TypeOK, Cert
  <2>2. Issue(c) /\ pc = "ensure" /\ cur = SA /\ ca' = ca /\ ~validPair(cur)
    BY <1>3 DEF ensureServiceAccountPair
  <2> HIDE DEF c
  <2>3. QED
    BY <1>3, <2>1, <2>2, IssueIInv
<1>4. QED
  BY <1>1, <1>2, <1>3

(* Reading steps that keep what they find. *)
LEMMA KeepIInv == IInv /\ (loadCAPair \/ keepPair) => IInv'
<1>1. ASSUME IInv, loadCAPair PROVE IInv'
  BY <1>1, AdvanceIInv DEF loadCAPair, disk
<1>2. ASSUME IInv, keepPair PROVE IInv'
  BY <1>2, AdvanceIInv DEF keepPair, disk, IInv, ProgressInv
<1>3. QED
  BY <1>1, <1>2

(* Steps that end a run without success. *)
LEMMA StopIInv == IInv /\ (refuseCA \/ openReadOnly \/ Fail \/ Crash) => IInv'
<1>1. ASSUME IInv, refuseCA PROVE IInv'
  BY <1>1, EndIInv DEF refuseCA, disk, IInv, TypeOK
<1>2. ASSUME IInv, openReadOnly PROVE IInv'
  <2> USE <1>2, PairFacts DEF openReadOnly, disk
  <2>1. TypeOK'
    BY DEF IInv, TypeOK, End
  <2>2. KeysGenerated' /\ LeavesChainToCA'
    BY DEF IInv, KeysGenerated, LeavesChainToCA, validPair
  <2>3. ~validPair(cur) /\ cur \in Pair
    BY FilesOfPair, ContentAssumption DEF IInv, TypeOK, WritingInv, Writing,
       FirstPending, FirstWritten, OldKey, OldCrt, validPair, Unreadable, Cert
  <2>4. ~InventoryValid'
    BY <2>3 DEF InventoryValid, validPair
  <2>5. WritingInv' /\ ProgressInv' /\ SuccessMeansValid' /\ ReadOnlyMountSuffices'
    BY <2>4 DEF End, WritingInv, Writing, ProgressInv, SuccessMeansValid,
       ReadOnlyMountSuffices
  <2>6. QED
    BY <2>1, <2>2, <2>5 DEF IInv, IdleInv, FoundInv, Writing, End
<1>3. ASSUME IInv, Fail PROVE IInv'
  BY <1>3, EndIInv DEF Fail, Fault, disk, IInv, TypeOK
<1>4. ASSUME IInv, Crash PROVE IInv'
  BY <1>4, EndIInv DEF Crash, Fault, disk, IInv, TypeOK
<1>5. QED
  BY <1>1, <1>2, <1>3, <1>4

(* A run of Generate starts with the disk as it is and an empty memory. *)
LEMMA StartIInv ==
  ASSUME IInv, NEW c \in {"pki", "setup"}, NEW conf \in Config, Start(c, conf)
  PROVE  IInv'
<1> USE PairFacts DEF Start, disk
<1>1. TypeOK' /\ KeysGenerated' /\ LeavesChainToCA'
  BY DEF IInv, TypeOK, KeysGenerated, LeavesChainToCA, validPair
<1>2. cur = CA
  BY DEF IInv, IdleInv
<1>3. WritingInv' /\ ProgressInv' /\ SuccessMeansValid' /\ ReadOnlyMountSuffices'
  BY <1>2 DEF WritingInv, Writing, ProgressInv, SuccessMeansValid,
     ReadOnlyMountSuffices
<1>4. FoundInv'
  BY DEF FoundInv, Writing, fileExists
<1>5. QED
  BY <1>1, <1>3, <1>4 DEF IInv, IdleInv

(* Files that are damaged, removed or restored between runs. *)
LEMMA DisturbIInv ==
  ASSUME IInv, NEW p \in Pair, NEW f \in {"crt", "key"}, NEW x \in Unreadable,
         Disturb(p, f, x)
  PROVE  IInv'
<1> USE PairFacts, ContentAssumption DEF Disturb, memory
<1>1. TypeOK'
  BY DEF IInv, TypeOK, Fault
<1>2. KeysGenerated'
  BY DEF IInv, TypeOK, KeysGenerated
<1>3. LeavesChainToCA'
  <2>1. SUFFICES ASSUME ~anchorTouched', NEW l \in Leaf, crt'[l] \notin Unreadable
                 PROVE  validPair(CA)' /\ crt'[l].issuer = crt'[CA].pub
    BY DEF LeavesChainToCA
  <2>2. p # CA /\ ~anchorTouched
    BY <2>1 DEF IInv, TypeOK
  <2>3. crt'[CA] = crt[CA] /\ key'[CA] = key[CA] /\ crt'[l] = crt[l]
    BY <2>1, <2>2 DEF IInv, TypeOK
  <2>4. QED
    BY <2>1, <2>2, <2>3 DEF IInv, LeavesChainToCA, validPair
<1>4. WritingInv' /\ ProgressInv' /\ SuccessMeansValid' /\ ReadOnlyMountSuffices'
  BY DEF WritingInv, Writing, ProgressInv, SuccessMeansValid,
     ReadOnlyMountSuffices
<1>5. QED
  BY <1>1, <1>2, <1>3, <1>4 DEF IInv, IdleInv, FoundInv, Writing

-----------------------------------------------------------------------------
(* The inductive step. *)
LEMMA NextIInv == IInv /\ [Next]_vars => IInv'
<1> SUFFICES ASSUME IInv, [Next]_vars PROVE IInv'
  OBVIOUS
<1>1. CASE \E c \in {"pki", "setup"}, conf \in Config : Start(c, conf)
  BY <1>1, StartIInv
<1>2. CASE Generate
  BY <1>2, EnsureIInv, KeepIInv, StopIInv, OpenIInv, FillIInv, ChmodIInv
     DEF Generate
<1>3. CASE Fail \/ Crash
  BY <1>3, StopIInv
<1>4. CASE \E p \in Pair, f \in {"crt", "key"}, x \in Unreadable : Disturb(p, f, x)
  BY <1>4, DisturbIInv
<1>5. CASE UNCHANGED vars
  BY <1>5 DEF vars, disk, memory, IInv, IdleInv, FoundInv, TypeOK, KeysGenerated, WritingInv,
     Writing, FirstPending, FirstTorn, FirstWritten, SecondTorn, BothWritten,
     OldCrt, OldKey, validPair, ProgressInv, LeavesChainToCA, SuccessMeansValid,
     ReadOnlyMountSuffices, InventoryValid, firstFile, secondFile
<1>6. QED
  BY <1>1, <1>2, <1>3, <1>4, <1>5 DEF Next

(* Every run of Generate keeps the invariant, as do crashes between two of *)
(* its writes and what happens to the files between runs.                  *)
THEOREM Invariance == Spec => []IInv
  BY InitIInv, NextIInv, PTL DEF Spec

(* The files and the memory of Generate keep their types in every run,     *)
(* crash and intervention.                                                 *)
THEOREM TypeCorrect == Spec => []TypeOK
<1>1. IInv => TypeOK
  BY DEF IInv
<1>2. QED
  BY <1>1, Invariance, PTL

(* When Generate returns an inventory, every pair on disk is valid. *)
THEOREM SuccessIsValid == Spec => []SuccessMeansValid
<1>1. IInv => SuccessMeansValid
  BY DEF IInv
<1>2. QED
  BY <1>1, Invariance, PTL

(* Unless the CA files were disturbed, every readable leaf certificate is  *)
(* signed by the complete CA on disk.                                      *)
THEOREM ChainOfTrust == Spec => []LeavesChainToCA
<1>1. IInv => LeavesChainToCA
  BY DEF IInv
<1>2. QED
  BY <1>1, Invariance, PTL

(* The read-only mount of setup stops Generate only when a pair is broken. *)
THEOREM ReadOnlySufficient == Spec => []ReadOnlyMountSuffices
<1>1. IInv => ReadOnlyMountSuffices
  BY DEF IInv
<1>2. QED
  BY <1>1, Invariance, PTL

(* While a process runs, only openTruncate and writeContent change a file, *)
(* and only one of the current pair, which is not valid at that point.     *)
LEMMA OnlyBrokenPairsWritten ==
  ASSUME IInv, [Next]_vars, pc # "idle"
  PROVE  \/ UNCHANGED disk
         \/ /\ cur \in Pair /\ ~validPair(cur)
            /\ \A p \in Pair : p # cur => crt'[p] = crt[p] /\ key'[p] = key[p]
<1> USE ContentAssumption, PairFacts
<1>1. CASE openTruncate \/ writeContent
  <2>1. cur \in Pair /\ (pc = "open" \/ pc = "fill")
    BY <1>1 DEF openTruncate, writeContent, IInv, TypeOK
  <2>2. ~validPair(cur)
    BY <2>1, FilesOfPair DEF IInv, TypeOK, WritingInv, Writing, FirstPending,
       FirstTorn, FirstWritten, SecondTorn, OldKey, OldCrt, validPair,
       Unreadable, Cert
  <2>3. \A p \in Pair : p # cur => crt'[p] = crt[p] /\ key'[p] = key[p]
    BY <1>1 DEF openTruncate, writeContent, putFile, IInv, TypeOK
  <2>4. QED
    BY <2>1, <2>2, <2>3
<1>2. CASE ~(openTruncate \/ writeContent)
  BY <1>2 DEF Next, Generate, vars, Start, loadCAPair, refuseCA, newCACert,
     keepPair, ensureLeaf, ensureServiceAccountPair, Issue, openReadOnly, chmod,
     Fail, Crash, Disturb
<1>3. QED
  BY <1>1, <1>2

(* No step of a run changes either file of a pair that is valid. *)
THEOREM ValidPairsNeverRewritten == Spec => ValidPairsKept
<1>1. IInv /\ [Next]_vars
        => [\A p \in Pair : pc # "idle" /\ validPair(p)
              => crt'[p] = crt[p] /\ key'[p] = key[p]]_vars
  BY OnlyBrokenPairsWritten DEF disk
<1>2. QED
  BY <1>1, Invariance, PTL DEF Spec, ValidPairsKept

(* A run that found a file of the CA leaves both as they are: it never     *)
(* replaces, completes or repairs a trust anchor.                          *)
THEOREM AnchorKept == Spec => AnchorNeverReplaced
<1> DEFINE Kept == pc # "idle" /\ found # {}
                     => crt'[CA] = crt[CA] /\ key'[CA] = key[CA]
<1>1. ASSUME IInv, [Next]_vars PROVE Kept
  <2> USE PairFacts
  <2>1. CASE openTruncate \/ writeContent
    <3>1. cur \in Pair /\ (cur = CA => found = {})
      BY <1>1, <2>1 DEF openTruncate, writeContent, IInv, TypeOK, FoundInv, Writing
    <3>2. cur # CA => crt'[CA] = crt[CA] /\ key'[CA] = key[CA]
      BY <1>1, <2>1, <3>1 DEF openTruncate, writeContent, putFile, IInv, TypeOK
    <3>3. QED
      BY <3>1, <3>2
  <2>2. CASE ~(openTruncate \/ writeContent)
    <3>1. pc # "idle" => UNCHANGED disk
      BY <1>1, <2>2 DEF Next, Generate, vars, Start, loadCAPair, refuseCA,
         newCACert, keepPair, ensureLeaf, ensureServiceAccountPair, Issue,
         openReadOnly, chmod, Fail, Crash, Disturb
    <3>2. QED
      BY <3>1 DEF disk
  <2>3. QED
    BY <2>1, <2>2
<1>2. IInv /\ [Next]_vars => [Kept]_vars
  BY <1>1
<1>3. QED
  BY <1>2, Invariance, PTL DEF Spec, AnchorNeverReplaced
=============================================================================
