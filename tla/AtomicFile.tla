------------------------------ MODULE AtomicFile ------------------------------
(***************************************************************************)
(* What WriteFileAtomic promises: a file whose content is absent or one    *)
(* whole value, replaced in one step, which readers read in one step.      *)
(***************************************************************************)
CONSTANTS
  Values,    \* contents that are written
  Missing,   \* no file
  Readers    \* processes that read the file

VARIABLES
  content,   \* the file
  got        \* what each reader last read

Init ==
  /\ content \in Values \cup {Missing}
  /\ got = [r \in Readers |-> Missing]

Replace(v) ==
  /\ content' = v
  /\ UNCHANGED got

Read(r) ==
  /\ got' = [got EXCEPT ![r] = content]
  /\ UNCHANGED content

Next ==
  \/ \E v \in Values : Replace(v)
  \/ \E r \in Readers : Read(r)

Spec == Init /\ [][Next]_<<content, got>>
=============================================================================
