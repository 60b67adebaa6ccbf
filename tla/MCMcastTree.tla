---------------------------- MODULE MCMcastTree ----------------------------
(* An instance of McastTree for TLC: eight hosts, read both as two pods of  *)
(* a three-tier fabric and as a leaf-spine; trees chosen round robin, or    *)
(* all pinned to one convergence point.                                     *)
EXTENDS McastTree, Integers

Pins == {-1, 3}
=============================================================================
