----------------------------- MODULE MCBlobStore -----------------------------
(* Three payloads: two pictures that share their bytes but not their text  *)
(* (two content hashes, one blob) and a third picture of its own.          *)
EXTENDS BlobStore, TLC

CONSTANTS c1, c2, c3, b1, b2

MCBlobOf == (c1 :> b1) @@ (c2 :> b1) @@ (c3 :> b2)

Symmetry == Permutations(Actor)
=============================================================================
