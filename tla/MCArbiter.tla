----------------------------- MODULE MCArbiter -----------------------------
(* Instances of Arbiter for TLC.                                           *)
EXTENDS Arbiter

CONSTANTS e1, e2, e4, t1, t2

(* Two recordings on one transponder, the last on another. *)
MCEntryTp == [e \in Entries |-> IF e \in {e1, e2} THEN t1 ELSE t2]
=============================================================================
