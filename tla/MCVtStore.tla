----------------------------- MODULE MCVtStore ------------------------------
(* Instances of VtStore for TLC: blocks and magazines interchangeable.     *)
EXTENDS VtStore, TLC

StoreSymmetry == Permutations(Ptrs) \cup Permutations(Mags)
=============================================================================
