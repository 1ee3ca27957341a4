----------------------------- MODULE MCDirLocks -----------------------------
(***************************************************************************)
(* Instances of DirLocks for TLC.  Processes are symmetric; paths are     *)
(* symmetric when each names its own file.                                 *)
(***************************************************************************)
EXTENDS DirLocks, TLC

CONSTANTS p1, p2, p3, d1, d2, d3

MCProcs == {p1, p2, p3}

(* Three data/wallet directories, each with its own lock file. *)
DistinctPaths == {d1, d2, d3}
DistinctFileOf == [f \in DistinctPaths |-> f]

(* Two spellings of one lock file (e.g. "dir" and "dir/."). *)
AliasPaths == {d1, d2}
AliasFiles == {d1}
AliasFileOf == [f \in AliasPaths |-> d1]

ProcSymmetry == Permutations(MCProcs)
=============================================================================
