------------------------------ MODULE RouteSet ------------------------------
(***************************************************************************)
(* What the route table promises, without the list: at most one tunnel per *)
(* network.  A network is a pair of an address and a prefix length.        *)
(***************************************************************************)
EXTENDS Integers

CONSTANTS Nets, Tuns, NULL

VARIABLES
    via,    \* the tunnel of each network, or NULL
    dflt    \* the tunnel of everything else, or NULL

Init ==
    /\ via = [n \in Nets |-> NULL]
    /\ dflt = NULL

\* A network is given to a tunnel; a previous owner loses exactly this one.
Assign ==
    \E n \in Nets, t \in Tuns :
        /\ via' = [via EXCEPT ![n] = t]
        /\ UNCHANGED dflt

\* A tunnel loses all its networks and the default route.
Forget ==
    \E t \in Tuns :
        /\ via' = [n \in Nets |-> IF via[n] = t THEN NULL ELSE via[n]]
        /\ dflt' = IF dflt = t THEN NULL ELSE dflt

\* The narrowest network that starts at an address is given up.
Withdraw ==
    \E n \in Nets :
        /\ via[n] # NULL
        /\ \A m \in Nets : via[m] # NULL /\ m.ip4 = n.ip4 => m.mask <= n.mask
        /\ via' = [via EXCEPT ![n] = NULL]
        /\ UNCHANGED dflt

SetDefault ==
    \E t \in Tuns :
        /\ dflt' = t
        /\ UNCHANGED via

Next == Assign \/ Forget \/ Withdraw \/ SetDefault

Spec == Init /\ [][Next]_<<via, dflt>>
=============================================================================
