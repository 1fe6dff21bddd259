---------------------------- MODULE MCGraphStore ----------------------------
(* Instances of GraphStore for TLC.                                         *)
EXTENDS GraphStore, TLC

CONSTANTS v1, v2, v3, v4, e1, e2, e3, owns, plain, w1, w2

\* Ids are drawn by the database, and requests are alike.
IdSymmetry == Permutations(Edge) \union Permutations(Writer)

=============================================================================
