----------------------------- MODULE MCStorage -----------------------------
(***************************************************************************)
(* A finite instance for TLC of the filesystem blob store, against the     *)
(* contract of the trait (FsBlobStoreContract).                            *)
(***************************************************************************)
EXTENDS FsBlobStoreContract, TLC

Symmetry == Permutations(Tasks) \cup Permutations(Digests)

=============================================================================
