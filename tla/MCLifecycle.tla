----------------------------- MODULE MCLifecycle -----------------------------
(* Lifecycle with two processors and two files. *)
EXTENDS Lifecycle

CONSTANTS p1, p2, dir, kafka
=============================================================================
