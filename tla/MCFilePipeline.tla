--------------------------- MODULE MCFilePipeline ---------------------------
(* FilePipeline on small sets of files and processors. *)
EXTENDS FilePipeline, TLC

CONSTANTS c1, c2, p1, p2

(* The processors are interchangeable. *)
ProcSymmetry == Permutations(Procs)

(* Each file has a name of its own. *)
Unique == [c \in Contents |-> c]
=============================================================================
