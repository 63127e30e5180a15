--------------------------- MODULE MCRouteTable ----------------------------
(* RouteTable with addresses of few bits; see the MCRouteTable*.cfg files. *)
EXTENDS RouteTable, TLC

\* route4 and unroute4 treat tunnels alike.
TunSymmetry == Permutations(Tuns)
=============================================================================
