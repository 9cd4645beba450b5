------------------------ MODULE WriteFileAtomicProofs ------------------------
(***************************************************************************)
(* WriteFileAtomic implements AtomicFile, for any number of readers,       *)
(* inodes and calls.                                                       *)
(*                                                                         *)
(* The argument: the writer only ever writes an inode that no reader has   *)
(* open and that is not the file's, so that the inode behind the file's    *)
(* name, and those behind the readers' open files, hold whole values for   *)
(* good; the rename is the one step that replaces the file, and the open   *)
(* is the step at which a reader reads it.                                 *)
(***************************************************************************)
EXTENDS WriteFileAtomic, FiniteSetTheorems, TLAPS

(* The temporary file is there until the rename, not yet the file, and     *)
(* complete from the chmod on.                                             *)
TmpInv ==
  /\ pc \in {"write", "chmod", "rename"} => tmp \in tmps
  /\ pc \in {"chmod", "rename"} => data[tmp] = value
  /\ pc # "idle" => value \in Values

TargetInv ==
  target # Missing => target \notin tmps /\ data[target] \in Values

OpenInv ==
  \A r \in Readers : open[r] # Missing =>
    open[r] \notin tmps /\ data[open[r]] \in Values

(* Until the rename the file is what it was, from then on the new value.   *)
ReplaceInv ==
  /\ pc \in {"create", "write", "chmod", "rename"} =>
       result = "none" /\ fileContent = before
  /\ pc = "cleanup" => result \in {"ok", "error"}
  /\ result = "error" => fileContent = before
  /\ result = "ok" => fileContent = value

OrphanInv ==
  /\ IsFiniteSet(tmps)
  /\ Cardinality(tmps \ {tmp}) <= kills

IInv ==
  /\ TypeOK
  /\ TmpInv
  /\ TargetInv
  /\ OpenInv
  /\ ReplaceInv
  /\ OrphanInv

-----------------------------------------------------------------------------
(* The directory is empty, or holds the file of an earlier boot. *)
LEMMA InitIInv == Init => IInv
PROOF
<1> SUFFICES ASSUME Init PROVE IInv
  OBVIOUS
<1>1. TypeOK
  <2>1. data \in [Inodes -> Values \cup {Torn}] /\ target \in Inodes \cup {Missing}
    BY DEF Init
  <2> QED
    BY <2>1 DEF Init, TypeOK
<1>2. TargetInv
  BY DEF Init, TargetInv
<1>3. OrphanInv
  <2>1. tmps \ {tmp} = {} /\ tmps = {}
    BY DEF Init
  <2> QED
    BY <2>1, FS_EmptySet DEF Init, OrphanInv
<1> QED
  BY <1>1, <1>2, <1>3 DEF Init, IInv, TmpInv, OpenInv, ReplaceInv

(* Every step of the writer, its failures and the readers keeps the        *)
(* invariant: no inode that somebody may read is ever written.             *)
LEMMA NextIInv == IInv /\ [Next]_vars => IInv'
PROOF
<1> SUFFICES ASSUME IInv, [Next]_vars PROVE IInv'
  OBVIOUS
<1> USE DEF directory, writer, readers
<1>0. /\ TypeOK /\ TmpInv /\ TargetInv /\ OpenInv /\ ReplaceInv /\ OrphanInv
      /\ Missing \notin tmps
  BY InodesAssumption DEF IInv, TypeOK
<1>1. ASSUME NEW v \in Values, Call(v) PROVE IInv'
  <2>1. tmp = Missing
    BY <1>0, <1>1 DEF Call, TypeOK
  <2>2. fileContent \in Values \cup {Missing} /\ fileContent' = fileContent
    BY <1>0, <1>1 DEF Call, TargetInv, fileContent
  <2>3. TypeOK'
    BY <1>0, <1>1, <2>1, <2>2 DEF Call, TypeOK
  <2>4. TmpInv' /\ TargetInv' /\ OpenInv' /\ OrphanInv'
    BY <1>0, <1>1 DEF Call, TmpInv, TargetInv, OpenInv, OrphanInv
  <2>5. ReplaceInv'
    BY <1>1, <2>2 DEF Call, ReplaceInv
  <2> QED
    BY <2>3, <2>4, <2>5 DEF IInv
<1>2. ASSUME NEW n \in Inodes, CreateTemp(n) PROVE IInv'
  <2>1. /\ tmp = Missing /\ tmp' = n /\ n # Missing
        /\ n \notin tmps /\ n # target
        /\ \A r \in Readers : open[r] # n
        /\ tmps' = tmps \cup {n}
        /\ data' = [data EXCEPT ![n] = Torn]
        /\ pc = "create" /\ pc' = "write"
        /\ UNCHANGED <<target, value, result, before, open, got, calls, faults, kills>>
    BY <1>0, <1>2, InodesAssumption DEF CreateTemp, TypeOK
  <2>2. \A m \in Inodes : m # n => data'[m] = data[m]
    BY <1>0, <2>1 DEF TypeOK
  <2>3. TypeOK'
    BY <1>0, <2>1 DEF TypeOK
  <2>4. TmpInv' /\ TargetInv'
    BY <1>0, <2>1, <2>2 DEF TypeOK, TmpInv, TargetInv
  <2>5. OpenInv'
    BY <1>0, <2>1, <2>2 DEF TypeOK, OpenInv
  <2>6. ReplaceInv'
    BY <1>0, <2>1, <2>2 DEF TypeOK, ReplaceInv, fileContent
  <2>7. OrphanInv'
    <3>1. tmps' \ {tmp'} = tmps /\ tmps \ {tmp} = tmps
      BY <1>0, <2>1
    <3>2. IsFiniteSet(tmps')
      BY <1>0, <2>1, FS_AddElement DEF OrphanInv
    <3> QED
      BY <1>0, <2>1, <3>1, <3>2 DEF OrphanInv
  <2> QED
    BY <2>3, <2>4, <2>5, <2>6, <2>7 DEF IInv
<1>3. CASE WriteData
  <2>1. /\ tmp \in tmps /\ tmp \in Inodes
        /\ pc = "write" /\ pc' = "chmod" /\ value \in Values
        /\ data' = [data EXCEPT ![tmp] = value]
        /\ UNCHANGED <<target, tmps, value, tmp, result, before, open, got,
                       calls, faults, kills>>
    BY <1>0, <1>3 DEF WriteData, TypeOK, TmpInv
  <2>2. data'[tmp] = value /\ \A m \in Inodes : m # tmp => data'[m] = data[m]
    BY <1>0, <2>1 DEF TypeOK
  <2>3. TypeOK'
    BY <1>0, <2>1 DEF TypeOK
  <2>4. TmpInv' /\ TargetInv'
    BY <1>0, <2>1, <2>2 DEF TypeOK, TmpInv, TargetInv
  <2>5. OpenInv'
    BY <1>0, <2>1, <2>2 DEF TypeOK, OpenInv
  <2>6. ReplaceInv'
    BY <1>0, <2>1, <2>2 DEF TypeOK, TargetInv, ReplaceInv, fileContent
  <2>7. OrphanInv'
    BY <1>0, <2>1 DEF OrphanInv
  <2> QED
    BY <2>3, <2>4, <2>5, <2>6, <2>7 DEF IInv
<1>4. CASE Chmod
  BY <1>0, <1>4 DEF Chmod, IInv, TypeOK, TmpInv, TargetInv, OpenInv,
                    ReplaceInv, OrphanInv, fileContent
<1>5. CASE Rename
  <2>1. /\ tmp \in tmps /\ tmp \in Inodes /\ data[tmp] = value
        /\ value \in Values
        /\ target' = tmp /\ tmps' = tmps \ {tmp}
        /\ result' = "ok" /\ pc = "rename" /\ pc' = "cleanup"
        /\ UNCHANGED <<data, value, tmp, before, open, got, calls, faults, kills>>
    BY <1>0, <1>5 DEF Rename, TypeOK, TmpInv
  <2>2. TypeOK' /\ TmpInv' /\ TargetInv' /\ OpenInv'
    BY <1>0, <2>1 DEF TypeOK, TmpInv, TargetInv, OpenInv
  <2>3. ReplaceInv'
    BY <2>1, InodesAssumption DEF ReplaceInv, fileContent
  <2>4. OrphanInv'
    <3>1. tmps' \ {tmp'} = tmps \ {tmp}
      BY <2>1
    <3>2. IsFiniteSet(tmps')
      BY <1>0, <2>1, FS_RemoveElement DEF OrphanInv
    <3> QED
      BY <1>0, <2>1, <3>1, <3>2 DEF OrphanInv
  <2> QED
    BY <2>2, <2>3, <2>4 DEF IInv
<1>6. CASE Cleanup
  <2>1. /\ tmps' = tmps \ {tmp} /\ pc = "cleanup" /\ pc' = "idle"
        /\ tmp' = Missing
        /\ UNCHANGED <<target, data, value, result, before, open, got,
                       calls, faults, kills>>
    BY <1>6 DEF Cleanup
  <2>2. TypeOK' /\ TmpInv' /\ TargetInv' /\ OpenInv' /\ ReplaceInv'
    BY <1>0, <2>1 DEF TypeOK, TmpInv, TargetInv, OpenInv, ReplaceInv, fileContent
  <2>3. OrphanInv'
    <3>1. tmps' \ {tmp'} = tmps \ {tmp}
      BY <1>0, <2>1
    <3>2. IsFiniteSet(tmps')
      BY <1>0, <2>1, FS_RemoveElement DEF OrphanInv
    <3> QED
      BY <1>0, <2>1, <3>1, <3>2 DEF OrphanInv
  <2> QED
    BY <2>2, <2>3 DEF IInv
<1>7. CASE FailCreate
  BY <1>0, <1>7 DEF FailCreate, Fault, IInv, TypeOK, TmpInv, TargetInv,
                    OpenInv, ReplaceInv, OrphanInv, fileContent
<1>8. CASE Fail
  BY <1>0, <1>8 DEF Fail, Fault, IInv, TypeOK, TmpInv, TargetInv,
                    OpenInv, ReplaceInv, OrphanInv, fileContent
<1>9. CASE FailRemove \/ Kill
  <2>1. /\ kills' = kills + 1 /\ kills \in Nat /\ faults' \in Nat
        /\ pc' = "idle" /\ tmp' = Missing
        /\ result' \in {result, "killed"}
        /\ UNCHANGED <<target, tmps, data, value, before, open, got, calls>>
    BY <1>0, <1>9 DEF FailRemove, Kill, Fault, TypeOK
  <2>2. TypeOK' /\ TmpInv' /\ TargetInv' /\ OpenInv'
    BY <1>0, <2>1 DEF TypeOK, TmpInv, TargetInv, OpenInv
  <2>3. ReplaceInv'
    BY <1>0, <2>1 DEF ReplaceInv, fileContent
  <2>4. OrphanInv'
    <3>1. tmps' \ {tmp'} = tmps /\ IsFiniteSet(tmps)
      BY <1>0, <2>1 DEF OrphanInv
    <3>2. Cardinality(tmps) <= Cardinality(tmps \ {tmp}) + 1
      <4>1. /\ Cardinality(tmps \ {tmp}) =
                 IF tmp \in tmps THEN Cardinality(tmps) - 1 ELSE Cardinality(tmps)
            /\ Cardinality(tmps) \in Nat
        BY <3>1, FS_RemoveElement, FS_CardinalityType
      <4> QED
        BY <4>1
    <3>3. Cardinality(tmps) \in Nat /\ Cardinality(tmps \ {tmp}) \in Nat
      BY <3>1, FS_RemoveElement, FS_CardinalityType
    <3>4. Cardinality(tmps) <= kills'
      BY <1>0, <2>1, <3>2, <3>3 DEF OrphanInv
    <3>5. Cardinality(tmps' \ {tmp'}) <= kills'
      BY <3>1, <3>4
    <3> QED
      BY <2>1, <3>1, <3>5 DEF OrphanInv
  <2> QED
    BY <2>2, <2>3, <2>4 DEF IInv
<1>10. ASSUME NEW r \in Readers, Open(r) \/ OpenMissing(r) \/ ReadAll(r)
       PROVE  IInv'
  <2>1. UNCHANGED <<target, tmps, data, pc, value, tmp, result, before,
                    calls, faults, kills>>
    BY <1>10 DEF Open, OpenMissing, ReadAll
  <2>2. TypeOK'
    <3>1. open' \in [Readers -> Inodes \cup {Missing}]
      BY <1>0, <1>10 DEF TypeOK, Open, OpenMissing, ReadAll
    <3>2. got' \in [Readers -> Values \cup {Missing, Torn}]
      BY <1>0, <1>10 DEF TypeOK, Open, OpenMissing, ReadAll
    <3> QED
      BY <1>0, <2>1, <3>1, <3>2 DEF TypeOK
  <2>3. TmpInv' /\ TargetInv' /\ ReplaceInv' /\ OrphanInv'
    BY <1>0, <2>1 DEF TmpInv, TargetInv, ReplaceInv, OrphanInv, fileContent
  <2>4. OpenInv'
    <3>1. \A q \in Readers : open'[q] \in {open[q], target, Missing}
      BY <1>0, <1>10 DEF TypeOK, Open, OpenMissing, ReadAll
    <3> QED
      BY <1>0, <2>1, <3>1 DEF OpenInv, TargetInv
  <2> QED
    BY <2>2, <2>3, <2>4 DEF IInv
<1>11. CASE UNCHANGED vars
  BY <1>0, <1>11 DEF vars, IInv, TypeOK, TmpInv, TargetInv, OpenInv,
                     ReplaceInv, OrphanInv, fileContent
<1> QED
  BY <1>1, <1>2, <1>3, <1>4, <1>5, <1>6, <1>7, <1>8, <1>9, <1>10, <1>11
     DEF Next, Write

(* The invariant of WriteFileAtomic and its readers. *)
THEOREM Invariance == Spec => []IInv
PROOF
<1> QED
  BY InitIInv, NextIInv, PTL DEF Spec

(* The types of the directory, the writer and the readers. *)
THEOREM TypeCorrect == Spec => []TypeOK
PROOF
<1>1. IInv => TypeOK
  BY DEF IInv
<1> QED
  BY <1>1, Invariance, PTL

(* A failed call leaves the file as it was, a successful one its value.    *)
THEOREM ReplacedOnSuccess == Spec => []ReplacedOnlyOnSuccess
PROOF
<1>1. IInv => ReplacedOnlyOnSuccess
  BY DEF IInv, ReplaceInv, ReplacedOnlyOnSuccess
<1> QED
  BY <1>1, Invariance, PTL

(* There are never more orphaned temporary files than kills and failed     *)
(* removals.                                                               *)
THEOREM OrphansBounded == Spec => []OrphansOnlyFromKills
PROOF
<1>1. ASSUME IInv PROVE OrphansOnlyFromKills
  <2> SUFFICES ASSUME pc = "idle" PROVE Cardinality(tmps) <= kills
    BY DEF OrphansOnlyFromKills
  <2>1. tmps \ {tmp} = tmps
    BY <1>1, InodesAssumption DEF IInv, TypeOK
  <2> QED
    BY <1>1, <2>1 DEF IInv, OrphanInv
<1> QED
  BY <1>1, Invariance, PTL

-----------------------------------------------------------------------------
(* The refinement: the rename is the abstract replacement, the open of a   *)
(* file, or the failure to open one, the abstract read; every other step   *)
(* of the writer and of the readers stutters.                              *)
THEOREM Implementation == Spec => ImplementsAtomicFile
PROOF
<1> DEFINE gotBar == [r \in Readers |-> IF open[r] = Missing THEN got[r]
                                                            ELSE data[open[r]]]
<1>1. Init => AF!Init
  <2> SUFFICES ASSUME Init PROVE AF!Init
    OBVIOUS
  <2>1. fileContent \in Values \cup {Missing}
    BY DEF Init, fileContent
  <2>2. gotBar = [r \in Readers |-> Missing]
    BY DEF Init
  <2> QED
    BY <2>1, <2>2 DEF AF!Init
<1>2. IInv /\ [Next]_vars => [AF!Next]_<<fileContent, gotBar>>
  <2> SUFFICES ASSUME IInv, [Next]_vars
               PROVE  AF!Next \/ (fileContent' = fileContent /\ gotBar' = gotBar)
    OBVIOUS
  <2> USE DEF directory, writer, readers
  <2>0. TypeOK /\ TmpInv /\ TargetInv /\ OpenInv
    BY DEF IInv
  <2>1. ASSUME UNCHANGED <<target, open, got>>,
               \A m \in Inodes : m \notin tmps' => data'[m] = data[m],
               target # Missing => target \notin tmps',
               \A r \in Readers : open[r] # Missing => open[r] \notin tmps'
        PROVE  fileContent' = fileContent /\ gotBar' = gotBar
    <3>1. fileContent' = fileContent
      BY <2>0, <2>1 DEF fileContent, TypeOK
    <3>2. \A r \in Readers : open[r] # Missing => data'[open[r]] = data[open[r]]
      BY <2>0, <2>1 DEF TypeOK
    <3> QED
      BY <2>1, <3>1, <3>2
  <2>2. ASSUME NEW n \in Inodes, CreateTemp(n)
        PROVE  fileContent' = fileContent /\ gotBar' = gotBar
    <3>1. UNCHANGED <<target, open, got>>
      BY <2>2 DEF CreateTemp
    <3>2. \A m \in Inodes : m \notin tmps' => data'[m] = data[m]
      BY <2>0, <2>2 DEF CreateTemp, TypeOK
    <3>3. target # Missing => target \notin tmps'
      BY <2>0, <2>2 DEF CreateTemp, TargetInv
    <3>4. \A r \in Readers : open[r] # Missing => open[r] \notin tmps'
      BY <2>0, <2>2 DEF CreateTemp, OpenInv
    <3> QED
      BY <2>1, <3>1, <3>2, <3>3, <3>4
  <2>3. CASE WriteData
    <3>1. UNCHANGED <<target, open, got, tmps>>
      BY <2>3 DEF WriteData
    <3>2. \A m \in Inodes : m \notin tmps' => data'[m] = data[m]
      BY <2>0, <2>3, <3>1 DEF WriteData, TypeOK, TmpInv
    <3> QED
      BY <2>0, <2>1, <3>1, <3>2 DEF TargetInv, OpenInv
  <2>4. CASE Rename
    <3>1. fileContent' = value /\ value \in Values
      BY <2>0, <2>4, InodesAssumption DEF Rename, fileContent, TypeOK, TmpInv
    <3>2. gotBar' = gotBar
      BY <2>4 DEF Rename
    <3> QED
      BY <3>1, <3>2 DEF AF!Next, AF!Replace
  <2>5. CASE \/ \E v \in Values : Call(v)
             \/ Chmod \/ Cleanup \/ FailCreate \/ Fail \/ FailRemove \/ Kill
             \/ UNCHANGED vars
    <3>1. UNCHANGED <<target, data, open, got>>
      BY <2>5 DEF Call, Chmod, Cleanup, FailCreate, Fail, FailRemove, Kill, vars
    <3> QED
      BY <3>1 DEF fileContent
  <2>6. ASSUME NEW r \in Readers, Open(r) \/ OpenMissing(r)
        PROVE  AF!Next
    <3>1. fileContent' = fileContent
      BY <2>6 DEF Open, OpenMissing, fileContent
    <3>2. gotBar' = [gotBar EXCEPT ![r] = fileContent]
      <4>1. CASE Open(r)
        BY <2>0, <4>1 DEF Open, fileContent, TypeOK
      <4>2. CASE OpenMissing(r)
        BY <2>0, <4>2 DEF OpenMissing, fileContent, TypeOK
      <4> QED
        BY <2>6, <4>1, <4>2
    <3> QED
      BY <3>1, <3>2 DEF AF!Next, AF!Read
  <2>7. ASSUME NEW r \in Readers, ReadAll(r)
        PROVE  fileContent' = fileContent /\ gotBar' = gotBar
    <3>1. fileContent' = fileContent
      BY <2>7 DEF ReadAll, fileContent
    <3>2. \A q \in Readers :
            (IF open'[q] = Missing THEN got'[q] ELSE data'[open'[q]])
              = (IF open[q] = Missing THEN got[q] ELSE data[open[q]])
      BY <2>0, <2>7 DEF ReadAll, TypeOK
    <3> QED
      BY <3>1, <3>2
  <2> QED
    BY <2>2, <2>3, <2>4, <2>5, <2>6, <2>7 DEF Next, Write
<1> QED
  BY <1>1, <1>2, Invariance, PTL DEF Spec, ImplementsAtomicFile, AF!Spec
=============================================================================
