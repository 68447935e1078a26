--------------------------- MODULE MCRowPublisher ---------------------------
(* RowPublisher with two processors and two topics. *)
EXTENDS RowPublisher

CONSTANTS p1, p2, ta, tb

Order == <<ta, tb>>
=============================================================================
