-------------------------- MODULE MCWriteFileAtomic --------------------------
(* Two kubeconfig contents, one manager, inodes enough for the file, the    *)
(* orphans of every kill, the temporary file and the manager's open file.   *)
EXTENDS WriteFileAtomic, TLC

CONSTANTS v1, v2, r1, n1, n2, n3, n4, n5

const_Inodes  == {n1, n2, n3, n4, n5}
const_Readers == {r1}
const_Values  == {v1, v2}

symmetry == Permutations(const_Inodes) \cup Permutations(const_Values)
=============================================================================
