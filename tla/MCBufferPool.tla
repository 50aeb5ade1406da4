---------------------------- MODULE MCBufferPool ----------------------------
(* Instances of BufferPool for TLC: blocks are interchangeable.             *)
EXTENDS BufferPool, TLC

PoolSymmetry == Permutations(Bufs)
=============================================================================
