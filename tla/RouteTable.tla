---------------------------- MODULE RouteTable -----------------------------
(***************************************************************************)
(* The route table of the router: the link list, its counter and the       *)
(* default route, changed by the operations of router.c, each of which     *)
(* runs under the write lock and so is one step.                           *)
(***************************************************************************)
EXTENDS Routes4

CONSTANTS
    MaxLinks,   \* bound on the length of the list
    MaxDrift    \* bound on how far the counter may fall below zero

ASSUME BoundsAssumption == MaxLinks \in Nat /\ MaxDrift \in Nat

VARIABLES
    ip4_routes,           \* the list of links
    ip4_routes_count,     \* the counter the code keeps beside it
    ip4_default_tun_ctx   \* the default route, or NULL

vars == <<ip4_routes, ip4_routes_count, ip4_default_tun_ctx, FullShiftClears>>

\* Unroute drops one from the counter per removed link and never adds what
\* route4 forgot, so the counter may go below zero.
TypeOK ==
    /\ ip4_routes \in Seq(Link)
    /\ ip4_routes_count \in Int
    /\ ip4_default_tun_ctx \in Tuns \cup {NULL}
    /\ FullShiftClears \in BOOLEAN

Init ==
    /\ ip4_routes = <<>>
    /\ ip4_routes_count = 0
    /\ ip4_default_tun_ctx = NULL
    /\ FullShiftClears \in BOOLEAN

route4(ip, mask, t) ==
    LET new == NewLink(ip, mask, t) IN
    /\ Len(ip4_routes) < MaxLinks \/ ReplacedBy(ip4_routes, new) # NULL
    /\ ip4_routes' = Route4(ip4_routes, new)
    /\ ip4_routes_count' = ip4_routes_count + CountAdded(ip4_routes, new)
    /\ UNCHANGED ip4_default_tun_ctx

unrouteKeepsDefault(t) ==
    /\ ip4_routes' = Unroute(ip4_routes, t)
    /\ ip4_routes_count' =
            ip4_routes_count - (Len(ip4_routes) - Len(Unroute(ip4_routes, t)))
    /\ ip4_routes_count' >= -MaxDrift
    /\ UNCHANGED ip4_default_tun_ctx
unroute(t) ==
    /\ ip4_routes' = Unroute(ip4_routes, t)
    /\ ip4_routes_count' =
            ip4_routes_count - (Len(ip4_routes) - Len(Unroute(ip4_routes, t)))
    /\ ip4_routes_count' >= -MaxDrift
    /\ ip4_default_tun_ctx' =
            IF ip4_default_tun_ctx = t THEN NULL ELSE ip4_default_tun_ctx

unroute4(ip) ==
    /\ ip4_routes' = Unroute4(ip4_routes, ip)
    /\ ip4_routes_count' =
            ip4_routes_count - (IF HasRoute4(ip4_routes, ip) THEN 1 ELSE 0)
    /\ ip4_routes_count' >= -MaxDrift
    /\ UNCHANGED ip4_default_tun_ctx

default4(t) ==
    /\ ip4_default_tun_ctx' = t
    /\ UNCHANGED <<ip4_routes, ip4_routes_count>>

Next ==
    /\ \/ \E ip \in Addr, mask \in 0 .. W + 1, t \in Tuns : route4(ip, mask, t)
       \/ \E t \in Tuns : unroute(t) \/ default4(t)
       \/ \E ip \in Addr : unroute4(ip)
    /\ UNCHANGED FullShiftClears

Spec == Init /\ [][Next]_vars
-----------------------------------------------------------------------------
\* The networks a link stands for, by definition and not by the code's shifts:
\* address a is in the network of r iff both agree on the first r.mask bits.
Contains(r, a) == r.ip4 \div Pow2[W - r.mask] = a \div Pow2[W - r.mask]
LinkSet == {ip4_routes[i] : i \in DOMAIN ip4_routes}
LongestMatch(a) ==
    {r \in LinkSet : /\ Contains(r, a)
                     /\ \A s \in LinkSet : Contains(s, a) => s.mask <= r.mask}
Nested == \E r, s \in LinkSet : r # s /\ Contains(r, s.ip4) /\ r.mask <= s.mask

(***************************************************************************)
(* The list is strictly descending by (address, mask): route4 keeps it     *)
(* sorted and free of duplicates whatever is replaced, inserted or removed *)
(* in between.  send4 and unroute4 stop early and rely on it.              *)
(***************************************************************************)
RoutesSorted ==
    \A i, j \in DOMAIN ip4_routes :
        i < j => Lower(ip4_routes[j], ip4_routes[i])

\* On x86 a shift by the full width does not clear the address, so that a
\* link of prefix length 0 stands for nothing sensible there.
ShiftsDefined == FullShiftClears \/ \A r \in LinkSet : r.mask > 0

(***************************************************************************)
(* When send4 takes a link and not the default route, it is the link with  *)
(* the longest prefix that contains the destination (the first match in    *)
(* the list's order is the most specific one).                             *)
(***************************************************************************)
MatchIsLongest ==
    ShiftsDefined => \A a \in Addr :
        LET k == Lookup(ip4_routes, a) IN
        k # 0 => ip4_routes[k] \in LongestMatch(a)

(***************************************************************************)
(* As long as no network lies inside another one, send4 uses the default   *)
(* route only for addresses that no link contains.                         *)
(***************************************************************************)
DisjointComplete ==
    ShiftsDefined /\ ~Nested => \A a \in Addr :
        Lookup(ip4_routes, a) = 0 => \A r \in LinkSet : ~Contains(r, a)

\* The list read as a set of routes: the tunnel of each network.
Nets == [ip4 : Addr, mask : 0 .. W]
Via ==
    [n \in Nets |->
        IF \E r \in LinkSet : SameNet(r, n)
        THEN (CHOOSE r \in LinkSet : SameNet(r, n)).tun
        ELSE NULL]

(***************************************************************************)
(* The list operations of router.c implement the abstract table: route4    *)
(* changes exactly one network, unroute takes away exactly the routes of   *)
(* one tunnel, unroute4 exactly the narrowest network of one address.      *)
(***************************************************************************)
Abstract == INSTANCE RouteSet WITH via <- Via, dflt <- ip4_default_tun_ctx
ImplementsRouteSet == Abstract!Spec
=============================================================================
