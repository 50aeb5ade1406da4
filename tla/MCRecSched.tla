----------------------------- MODULE MCRecSched -----------------------------
(* Instances of RecSched for TLC.                                          *)
EXTENDS RecSched

CONSTANTS e1, e2, e3

(* One entry is due at once, the others later. *)
MCStartTime == [e \in Ids |-> CASE e = e1 -> 0 [] e = e2 -> 1 [] e = e3 -> 2]
=============================================================================
