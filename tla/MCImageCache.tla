---- MODULE MCImageCache ----
(* Instances of ImageCache for TLC. *)
EXTENDS ImageCache

Symmetry == Permutations(Requests)
=============================================================================
