------------------------------ MODULE MCIpSec ------------------------------
(* IpSec with two tunnels, so that one is started while the other ends, and
   for liveness with one.  No action tells the tunnels apart. *)
EXTENDS IpSec, TLC

TunSymmetry == Permutations(Tuns)
=============================================================================
