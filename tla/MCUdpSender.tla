----------------------------- MODULE MCUdpSender -----------------------------
(* Instances of UdpSender for TLC. *)
EXTENDS UdpSender, TLC

Symmetry == Permutations(Pushers)
=============================================================================
