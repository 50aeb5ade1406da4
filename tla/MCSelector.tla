----------------------------- MODULE MCSelector -----------------------------
(* Instances of Selector for TLC: payload blocks and ports interchangeable.*)
EXTENDS Selector, TLC

BufSymmetry == Permutations(Bufs) \cup Permutations(Ports)
=============================================================================
