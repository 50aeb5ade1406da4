------------------------------ MODULE MCSecEx -------------------------------
(* Instances of SecEx for TLC.                                             *)
EXTENDS SecEx

(* One section within a packet, one as long as the buffer, one shorter. *)
MCSize == <<1, 4, 2>>
=============================================================================
