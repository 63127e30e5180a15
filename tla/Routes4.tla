------------------------------ MODULE Routes4 ------------------------------
(***************************************************************************)
(* The IPv4 route list of the native router (jni/ocpa/router.c) as         *)
(* operators on a sequence of links.  A link is a route4_link_t: a network *)
(* address, a prefix length and the tunnel it leads to.  Addresses are     *)
(* W-bit numbers; the code has W = 32.                                     *)
(***************************************************************************)
EXTENDS Integers, Sequences, FiniteSetsExt, Filtering

CONSTANTS
    W,                \* width of an address in bits
    Tuns,             \* tunnel contexts (tun_ctx_t*)
    NULL              \* the null pointer

ASSUME WAssumption == W \in Nat \ {0}
ASSUME NullAssumption == NULL \notin Tuns

\* What x >> W yields: 0 (armeabi-v7a) or x (x86).  Fixed by the build.
VARIABLE FullShiftClears

\* 1 << n
Pow2[n \in 0 .. W] == IF n = 0 THEN 1 ELSE 2 * Pow2[n - 1]

Addr == 0 .. (Pow2[W] - 1)
Link == [ip4 : Addr, mask : 0 .. W, tun : Tuns]

\* A shift by the full width is undefined in C; the two ABIs of
\* Application.mk each produce one of the two outcomes.
ShiftDownUp(ip, n) ==
    IF n = W /\ ~FullShiftClears THEN ip ELSE (ip \div Pow2[n]) * Pow2[n]

\* The prefix length is clamped before the network address is computed.
Clamp(mask) == IF mask > W THEN W ELSE mask
NewLinkUnclamped(ip, mask, t) ==
    [ip4 |-> ShiftDownUp(ip, W - Clamp(mask)), mask |-> mask, tun |-> t]
NewLink(ip, mask, t) ==
    [ip4  |-> ShiftDownUp(ip, W - Clamp(mask)),
     mask |-> Clamp(mask),
     tun  |-> t]

\* The order of the list: a link goes in front of the first lower one.
Lower(r, s) == r.ip4 < s.ip4 \/ (r.ip4 = s.ip4 /\ r.mask < s.mask)
SameNet(r, s) == r.ip4 = s.ip4 /\ r.mask = s.mask

\* Where a walk along list stops: at the first index in I, or behind the
\* last link if I is empty.
FirstIndex(list, I) == Min(I \cup {Len(list) + 1})

StopsAtSameAddress(list, new) ==
    FirstIndex(list, {i \in DOMAIN list : list[i].ip4 <= new.ip4})
StopsAt(list, new) ==
    FirstIndex(list, {i \in DOMAIN list : Lower(list[i], new) \/ SameNet(list[i], new)})

InsertBefore(list, k, new) ==
    [i \in 1 .. Len(list) + 1 |->
        IF i < k THEN list[i] ELSE IF i = k THEN new ELSE list[i - 1]]

\* route4: replace the link of the same network, otherwise insert or append.
Route4(list, new) ==
    LET k == StopsAt(list, new) IN
    IF k <= Len(list) /\ SameNet(list[k], new)
    THEN [list EXCEPT ![k] = new]
    ELSE InsertBefore(list, k, new)

\* The tunnel whose link route4 replaces, and so loses a reference.
ReplacedBy(list, new) ==
    LET k == StopsAt(list, new) IN
    IF k <= Len(list) /\ SameNet(list[k], new) THEN list[k].tun ELSE NULL

\* What route4 adds to ip4_routes_count: only insertion in front of a lower
\* link counts; the first link and a link added at the end do not.
CountAdded(list, new) ==
    LET k == StopsAt(list, new) IN
    IF k <= Len(list) /\ Lower(list[k], new) THEN 1 ELSE 0

\* unroute: every link of the tunnel goes.
Unroute(list, t) == Filter(list, {r \in Link : r.tun # t})

\* unroute4: the first link of that address goes, whatever its mask; the walk
\* stops at the first lower address.
Unroute4At(list, ip) == FirstIndex(list, {i \in DOMAIN list : list[i].ip4 <= ip})
HasRoute4(list, ip) ==
    LET k == Unroute4At(list, ip) IN k <= Len(list) /\ list[k].ip4 = ip
Unroute4(list, ip) ==
    IF HasRoute4(list, ip)
    THEN [i \in 1 .. Len(list) - 1 |->
            IF i < Unroute4At(list, ip) THEN list[i] ELSE list[i + 1]]
    ELSE list

ip4_addr_match(network, netmask, test_ip) ==
    network = ShiftDownUp(test_ip, W - netmask)

\* send4: the walk ends at the first link that matches or whose network is
\* lower than the destination; without a match the default route is used.
Matches(r, ip) == ip4_addr_match(r.ip4, r.mask, ip)
LookupStopsHigher(list, ip) ==
    LET k == FirstIndex(list, {i \in DOMAIN list : \/ Matches(list[i], ip)
                                                  \/ list[i].ip4 > ip})
    IN  IF k <= Len(list) /\ Matches(list[k], ip) THEN k ELSE 0
Lookup(list, ip) ==
    LET k == FirstIndex(list, {i \in DOMAIN list : \/ Matches(list[i], ip)
                                                  \/ list[i].ip4 < ip})
    IN  IF k <= Len(list) /\ Matches(list[k], ip) THEN k ELSE 0

NextHop(list, dflt, ip) ==
    LET k == Lookup(list, ip) IN IF k = 0 THEN dflt ELSE list[k].tun
=============================================================================
