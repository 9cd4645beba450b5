--------------------------- MODULE WriteFileAtomic ---------------------------
(***************************************************************************)
(* WriteFileAtomic (cmd/capishim/setup.go) and the managers that read the  *)
(* file.  The directory holds the file itself and the temporary files;     *)
(* each name points at an inode, and a temporary file is identified with   *)
(* its inode, as os.CreateTemp never opens an existing name.               *)
(*                                                                         *)
(* One process writes at a time (setup is one oneshot unit); it may fail   *)
(* at any call and be killed between any two.  Readers open the file and   *)
(* read it later, whatever happened to its name in between.                *)
(***************************************************************************)
EXTENDS Naturals, FiniteSets

CONSTANTS
  Values,    \* contents that are written
  Missing,   \* no file, no open file
  Torn,      \* content of a file whose write did not complete
  Inodes,    \* inodes of the file system
  Readers,   \* processes that read the file
  MaxCalls,  \* bound: calls of WriteFileAtomic
  MaxFaults  \* bound: failed calls and kills

ASSUME ValuesAssumption ==
  /\ Missing # Torn
  /\ {Missing, Torn} \cap Values = {}

ASSUME InodesAssumption == Missing \notin Inodes

ASSUME BoundsAssumption == MaxCalls \in Nat /\ MaxFaults \in Nat

VARIABLES
  target,   \* inode of the file, Missing when there is none
  tmps,     \* inodes of the temporary files in the directory
  data,     \* content of every inode
  pc,       \* where the writer is
  value,    \* what it writes
  tmp,      \* inode of its temporary file
  result,   \* how the last call ended
  before,   \* history: the file when the call started
  open,     \* inode each reader has open
  got,      \* what each reader last read
  calls,    \* calls so far
  faults,   \* faults so far
  kills     \* faults that keep the cleanup from removing the temporary file

directory == <<target, tmps>>
writer    == <<pc, value, tmp, result, before>>
readers   == <<open, got>>
vars      == <<directory, data, writer, readers, calls, faults, kills>>

TypeOK ==
  /\ target \in Inodes \cup {Missing}
  /\ tmps \subseteq Inodes
  /\ data \in [Inodes -> Values \cup {Torn}]
  /\ pc \in {"idle", "create", "write", "chmod", "rename", "cleanup"}
  /\ value \in Values \cup {Missing}
  /\ tmp \in IF pc \in {"idle", "create"} THEN {Missing} ELSE Inodes
  /\ result \in {"none", "ok", "error", "killed"}
  /\ before \in Values \cup {Missing, Torn}
  /\ open \in [Readers -> Inodes \cup {Missing}]
  /\ got \in [Readers -> Values \cup {Missing, Torn}]
  /\ calls \in Nat /\ faults \in Nat /\ kills \in Nat

fileContent == IF target = Missing THEN Missing ELSE data[target]

(* The file may have been written by the setup of an earlier boot.         *)
Init ==
  /\ \/ target = Missing /\ data = [n \in Inodes |-> Torn]
     \/ /\ target \in Inodes
        /\ \E v \in Values : data = [n \in Inodes |-> IF n = target THEN v ELSE Torn]
  /\ tmps = {}
  /\ pc = "idle"
  /\ value = Missing
  /\ tmp = Missing
  /\ result = "none"
  /\ before = Missing
  /\ open = [r \in Readers |-> Missing]
  /\ got = [r \in Readers |-> Missing]
  /\ calls = 0 /\ faults = 0 /\ kills = 0

-----------------------------------------------------------------------------
(* The writer *)

Call(v) ==
  /\ pc = "idle"
  /\ calls < MaxCalls
  /\ calls' = calls + 1
  /\ value' = v
  /\ before' = fileContent
  /\ result' = "none"
  /\ pc' = "create"
  /\ UNCHANGED <<directory, data, tmp, readers, faults, kills>>

(* Mutant: an existing file is opened and truncated in place. *)
CreateTemp_InPlace(n) ==
  /\ pc = "create"
  /\ target # Missing => n = target
  /\ tmps' = tmps \cup {n}
  /\ data' = [data EXCEPT ![n] = Torn]
  /\ tmp' = n
  /\ pc' = "write"
  /\ UNCHANGED <<target, value, result, before, readers, calls, faults, kills>>

(* Mutant: the old file is removed before the new one is there. *)
CreateTemp_RemoveFirst(n) ==
  /\ pc = "create"
  /\ n \notin tmps \cup {target} \cup {open[r] : r \in Readers}
  /\ target' = Missing
  /\ tmps' = tmps \cup {n}
  /\ data' = [data EXCEPT ![n] = Torn]
  /\ tmp' = n
  /\ pc' = "write"
  /\ UNCHANGED <<value, result, before, readers, calls, faults, kills>>

(* An inode that neither a name nor an open file holds is free.            *)
CreateTemp(n) ==
  /\ pc = "create"
  /\ n \notin tmps \cup {target} \cup {open[r] : r \in Readers}
  /\ tmps' = tmps \cup {n}
  /\ data' = [data EXCEPT ![n] = Torn]
  /\ tmp' = n
  /\ pc' = "write"
  /\ UNCHANGED <<target, value, result, before, readers, calls, faults, kills>>

(* The data is written, possibly in parts: until the last one the          *)
(* temporary file is torn.                                                 *)
WriteData ==
  /\ pc = "write"
  /\ data' = [data EXCEPT ![tmp] = value]
  /\ pc' = "chmod"
  /\ UNCHANGED <<directory, value, tmp, result, before, readers,
                 calls, faults, kills>>

Chmod ==
  /\ pc = "chmod"
  /\ pc' = "rename"
  /\ UNCHANGED <<directory, data, value, tmp, result, before, readers,
                 calls, faults, kills>>

Rename ==
  /\ pc = "rename"
  /\ target' = tmp
  /\ tmps' = tmps \ {tmp}
  /\ result' = "ok"
  /\ pc' = "cleanup"
  /\ UNCHANGED <<data, value, tmp, before, readers, calls, faults, kills>>

(* Mutant: the writer's state is not reset. *)
Cleanup_NoReset ==
  /\ pc = "cleanup"
  /\ tmps' = tmps \ {tmp}
  /\ pc' = "idle"
  /\ UNCHANGED <<target, data, value, tmp, result, before, readers,
                 calls, faults, kills>>

(* The deferred function removes the temporary name, if it is still there. *)
Cleanup ==
  /\ pc = "cleanup"
  /\ tmps' = tmps \ {tmp}
  /\ pc' = "idle"
  /\ tmp' = Missing
  /\ UNCHANGED <<target, data, value, result, before, readers,
                 calls, faults, kills>>

Fault == faults < MaxFaults /\ faults' = faults + 1

(* MkdirAll or CreateTemp fails: there is nothing to clean up.             *)
FailCreate ==
  /\ pc = "create"
  /\ Fault
  /\ result' = "error"
  /\ pc' = "idle"
  /\ UNCHANGED <<directory, data, value, tmp, before, readers, calls, kills>>

(* Mutant: the error return of a write does not run the cleanup. *)
Fail_NoCleanup ==
  /\ pc \in {"write", "chmod", "rename"}
  /\ Fault
  /\ result' = "error"
  /\ pc' = "idle"
  /\ tmp' = Missing
  /\ UNCHANGED <<directory, data, value, before, readers, calls, kills>>

(* Write, Chmod or Rename fails.                                           *)
Fail ==
  /\ pc \in {"write", "chmod", "rename"}
  /\ Fault
  /\ result' = "error"
  /\ pc' = "cleanup"
  /\ UNCHANGED <<directory, data, value, tmp, before, readers, calls, kills>>

(* Remove fails: a message on stderr, and the result stands.               *)
FailRemove ==
  /\ pc = "cleanup"
  /\ Fault
  /\ kills' = kills + 1
  /\ pc' = "idle"
  /\ tmp' = Missing
  /\ UNCHANGED <<directory, data, value, result, before, readers, calls>>

Kill ==
  /\ pc # "idle"
  /\ Fault
  /\ kills' = kills + 1
  /\ result' = "killed"
  /\ pc' = "idle"
  /\ tmp' = Missing
  /\ UNCHANGED <<directory, data, value, before, readers, calls>>

Write ==
  \/ \E n \in Inodes : CreateTemp(n)
  \/ WriteData \/ Chmod \/ Rename \/ Cleanup

-----------------------------------------------------------------------------
(* The readers: a manager container that loads its kubeconfig *)

Open(r) ==
  /\ open[r] = Missing
  /\ target # Missing
  /\ open' = [open EXCEPT ![r] = target]
  /\ UNCHANGED <<directory, data, writer, got, calls, faults, kills>>

OpenMissing(r) ==
  /\ open[r] = Missing
  /\ target = Missing
  /\ got' = [got EXCEPT ![r] = Missing]
  /\ UNCHANGED <<directory, data, writer, open, calls, faults, kills>>

ReadAll(r) ==
  /\ open[r] # Missing
  /\ got' = [got EXCEPT ![r] = data[open[r]]]
  /\ open' = [open EXCEPT ![r] = Missing]
  /\ UNCHANGED <<directory, data, writer, calls, faults, kills>>

Next ==
  \/ \E v \in Values : Call(v)
  \/ Write
  \/ FailCreate \/ Fail \/ FailRemove \/ Kill
  \/ \E r \in Readers : Open(r) \/ OpenMissing(r) \/ ReadAll(r)

Spec == Init /\ [][Next]_vars

-----------------------------------------------------------------------------
(* Properties *)

(* A reader that has the file open will read the inode it opened, so it    *)
(* has read it as far as the abstract file is concerned.                   *)
AF == INSTANCE AtomicFile WITH
        content <- fileContent,
        got <- [r \in Readers |-> IF open[r] = Missing THEN got[r]
                                                       ELSE data[open[r]]]

(* Refinement.  The file behaves as one that is replaced and read in one   *)
(* step, across failures, kills, and a replacement between a reader's open *)
(* and its read (WriteFileAtomic: "readers never observe a partial write"; *)
(* WriteKubeconfigFile: "a crash never leaves a truncated kubeconfig       *)
(* behind").                                                               *)
ImplementsAtomicFile == AF!Spec

(* Safety.  A call that returned an error left the file as it found it     *)
(* (WriteFileAtomic: "an existing file is replaced only on success"), and  *)
(* one that returned nil left its own value.                               *)
ReplacedOnlyOnSuccess ==
  pc = "idle" => /\ result = "error" => fileContent = before
                 /\ result = "ok" => fileContent = value

(* Safety.  Temporary files outlive their call only when it was killed or  *)
(* the removal itself failed: every other path that does not end in a      *)
(* rename removes its own (WriteFileAtomic).                               *)
OrphansOnlyFromKills == pc = "idle" => Cardinality(tmps) <= kills
=============================================================================
