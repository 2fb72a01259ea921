----------------------------- MODULE MCPixelPool ----------------------------
(* A small instance of the pixel pool for TLC.                             *)
EXTENDS PixelPool, TLC

Perms == Permutations(Owner)
=============================================================================
