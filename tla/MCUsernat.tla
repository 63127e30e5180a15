----------------------------- MODULE MCUsernat -----------------------------
(* Usernat with two flows of one source port and one to port 0; see the    *)
(* MCUsernat*.cfg files.                                                   *)
EXTENDS Usernat

MCFlows == {"f1", "f2", "f0"}
MCSourceOf == [f \in MCFlows |-> IF f = "f0" THEN "s0" ELSE "s1"]
MCPortZero == {"f0"}
=============================================================================
