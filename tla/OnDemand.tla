------------------------------ MODULE OnDemand ------------------------------
(***************************************************************************
 On-demand rules (VpnOnDemandConfig.java) and their match with a network
 (NetworkConfig.java), and the search of ConfigurationDelegate.java for the
 first rule that applies.

 A network is what NetworkStateListener fills in: it never sets DNS lists,
 so that of a rule's DNS lists only their presence matters.
 ***************************************************************************)
EXTENDS Naturals, Sequences, FiniteSetsExt

CONSTANTS
    Uuids,   \* profiles
    NULL,
    Ssids,   \* names of WiFi networks
    Data     \* Data[u]: whether the VPN type of profile u is one the factory
             \* knows, whether on-demand is enabled, and the rules

ANY == [any |-> TRUE]

Interfaces == {"Cellular", "WiFi", "Ethernet", "Unsupported"}

Networks ==
    [active : BOOLEAN, iface : Interfaces,
     ssid : Ssids \cup {NULL}, roaming : BOOLEAN]

Patterns ==
    {ANY} \cup
    [any : {FALSE}, iface : Interfaces \cup {NULL},
     ssid : Ssids \cup {NULL}, roaming : BOOLEAN \cup {NULL}, dns : BOOLEAN]

Rules == [net : Patterns, probe : BOOLEAN]

ASSUME NullIsNoName == NULL \notin Uuids \cup Ssids
ASSUME DataTyped ==
    \A u \in Uuids : Data[u].supported \in BOOLEAN
                  /\ Data[u].enabled \in BOOLEAN
                  /\ Data[u].rules \in Seq(Rules)

\* The name that decides is the network's, or else the pattern's; names are
\* for WiFi only.
MatchSsid(net, pat) ==
    /\ (net.ssid # NULL /\ pat.ssid # NULL) => net.ssid = pat.ssid
    /\ (net.ssid # NULL \/ pat.ssid # NULL) => net.iface = "WiFi"

\* NetworkConfig.match of a strict network and a pattern.  It is symmetric:
\* a pattern hands over to the network.
Match(net, pat) ==
    \/ pat = ANY
    \/ /\ net.active
       /\ pat.iface \in {NULL, net.iface}
       /\ MatchSsid(net, pat)
       /\ (net.iface = "Cellular" /\ pat.roaming # NULL)
             => pat.roaming = net.roaming
       /\ ~pat.dns

\* Whether rule i of profile u is chosen for a network, when the probes of
\* the rules in ok succeed; only rules with a URL are probed.
Applies(net, u, i, ok) ==
    /\ Data[u].enabled
    /\ Match(net, Data[u].rules[i].net)
    /\ Data[u].rules[i].probe => <<u, i>> \in ok

Probed ==
    UNION {{<<u, i>> : i \in {j \in DOMAIN Data[u].rules :
                                Data[u].rules[j].probe}} : u \in Uuids}

\* The first profile of the list with a rule that applies, and its first
\* such rule; NULL if there is none.
FirstRule(infos, net, ok) ==
    LET hits(u) == {i \in DOMAIN Data[u].rules : Applies(net, u, i, ok)}
        found == {k \in DOMAIN infos : hits(infos[k]) # {}}
        u == infos[Min(found)]
    IN  IF found = {} THEN NULL
        ELSE [uuid |-> u, rule |-> Data[u].rules[Min(hits(u))]]
=============================================================================
