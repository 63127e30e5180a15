------------------------------ MODULE Packets ------------------------------
(***************************************************************************
 What happens to a packet between an application and a VPN tunnel: tun.c,
 tun_dev_tun.c and the checksums of iputils.c, around send4 of router.c.

 A request is read from the device, its source becomes the address the VPN
 assigned and a virtual DNS server the real one; for the reply both are
 undone.  The router thread does this while Java threads change the settings
 it uses, one native call at a time and under no lock.

 A checksum is the pair of addresses it was computed over.  Routes, ports
 and payloads are left out, and so is what becomes of an IPv6 packet that is
 sent.
 ***************************************************************************)
EXTENDS Naturals, Sequences, FiniteSetsExt

CONSTANTS
    Addrs,     \* IPv4 addresses, 0 not among them
    Local,     \* the address of the device's interface
    Assigned,  \* addresses the VPN may assign
    NULL,
    NSlots,    \* entries for DNS servers (4 in tun_private.h)
    DnsLists,  \* lists of real servers that Java may set
    VirtualDns \* the list of virtual servers

ASSUME LocalIsAddress ==
    Local \in Addrs /\ Assigned \subseteq Addrs /\ 0 \notin Addrs
ASSUME SlotsCounted == NSlots \in Nat \ {0}
ASSUME DnsListed == DnsLists \subseteq Seq(Addrs) /\ VirtualDns \in Seq(Addrs)

VARIABLES
    dns,      \* dns_ip4 of the tunnel
    vdns,     \* virtual_dns_ip4
    masq,     \* use_masquerade4 and masquerade4
    calls,    \* native calls a Java thread has yet to make
    bufver,   \* IP version of what the router thread's buffer holds
    request,  \* the last request as the application sent it, or NULL
    sent,     \* and as it was written to the tunnel
    got,      \* the last packet that was written to the device, or NULL
    stable    \* no setting changed since the last request

vars == <<dns, vdns, masq, calls, bufver, request, sent, got, stable>>

Slots == 1..NSlots
Protos == {"TCP", "UDP", "other"}
Pairs == Addrs \X Addrs
NoSum == <<NULL, NULL>>
Packets4 == [ver : {4}, src : Addrs, dst : Addrs, proto : Protos,
             long : BOOLEAN, ipsum : Pairs, sum : Pairs \cup {NoSum}]

\* A native call: the address it sets, and where, if that is a table.
Calls == [op : {"dns", "vdns", "ip", "on"}, slot : Nat, ip : Addrs \cup {0}]

\* A packet as a host makes it; TCP packets have at least 40 bytes, and only
\* TCP and UDP have a checksum over the addresses.
Fresh(src, dst, proto, long) ==
    [ver |-> 4, src |-> src, dst |-> dst, proto |-> proto,
     long |-> (long \/ proto = "TCP"), ipsum |-> <<src, dst>>,
     sum |-> IF proto = "other" THEN NoSum ELSE <<src, dst>>]

\* The variables have the types of the fields they stand for; the tables of
\* servers keep their size, whatever lists Java sets.
TypeOK ==
    /\ dns \in [Slots -> Addrs \cup {0}]
    /\ vdns \in [Slots -> Addrs \cup {0}]
    /\ masq \in [on : BOOLEAN, ip : Addrs \cup {0}]
    /\ calls \in Seq(Calls)
    /\ bufver \in {0, 4, 6}
    /\ request \in Packets4 \cup {NULL}
    /\ sent \in Packets4 \cup {NULL}
    /\ got \in Packets4 \cup {NULL}
    /\ stable \in BOOLEAN

\* create_tun_ctx; the device masquerades from the start.
Init ==
    /\ dns = [i \in Slots |-> 0]
    /\ vdns = [i \in Slots |-> 0]
    /\ masq = [on |-> FALSE, ip |-> 0]
    /\ calls = <<>>
    /\ bufver = 0
    /\ request = NULL
    /\ sent = NULL
    /\ got = NULL
    /\ stable = TRUE

----------------------------------------------------------------------------
(* Settings. *)

Call(op, i, a) == [op |-> op, slot |-> i, ip |-> a]

\* setDnsAddrs and setVirtualDnsAddrs clear every entry, then set those of
\* the list.
SetAll(op, list) ==
    [i \in Slots |-> Call(op, i, 0)]
        \o [i \in 1..Len(list) |-> Call(op, i, list[i])]

\* The lists are set when the tunnel is activated, when it is connected and
\* when the network changes.
ConfigureDns(list) ==
    /\ calls = <<>>
    /\ calls' = SetAll("dns", list)
    /\ UNCHANGED <<dns, vdns, masq, bufver, request, sent, got, stable>>

ConfigureVirtualDns ==
    /\ calls = <<>>
    /\ calls' = SetAll("vdns", VirtualDns)
    /\ UNCHANGED <<dns, vdns, masq, bufver, request, sent, got, stable>>

\* The VPN assigned an address: setMasqueradeIp4, then its mode.
ConfigureMasquerade(a) ==
    /\ calls = <<>>
    /\ calls' = << Call("ip", 0, a), Call("on", 0, 0) >>
    /\ UNCHANGED <<dns, vdns, masq, bufver, request, sent, got, stable>>

\* A mistake: the index is not compared with the size of the table.
WithSlotUnchecked(table, c) ==
    [i \in Slots \cup {c.slot} |-> IF i = c.slot THEN c.ip ELSE table[i]]

\* set_dns_ip4 and set_virtual_dns_ip4 ignore an index past the table.
WithSlot(table, c) == [i \in Slots |-> IF i = c.slot THEN c.ip ELSE table[i]]

SetStep ==
    /\ calls # <<>>
    /\ calls' = Tail(calls)
    /\ stable' = FALSE
    /\ LET c == Head(calls) IN
       \/ c.op = "dns" /\ dns' = WithSlot(dns, c) /\ UNCHANGED <<vdns, masq>>
       \/ c.op = "vdns" /\ vdns' = WithSlot(vdns, c) /\ UNCHANGED <<dns, masq>>
       \/ /\ c.op = "ip"
          /\ masq' = [masq EXCEPT !.ip = c.ip]
          /\ UNCHANGED <<dns, vdns>>
       \/ /\ c.op = "on"
          /\ masq' = [masq EXCEPT !.on = TRUE]
          /\ UNCHANGED <<dns, vdns>>
    /\ UNCHANGED <<bufver, request, sent, got>>

----------------------------------------------------------------------------
(* Packets. *)

\* A mistake: only the checksum of the IP header is updated.
ReaddressIpOnly(p, src, dst) ==
    [p EXCEPT !.src = src, !.dst = dst, !.ipsum = <<src, dst>>]

\* Every change of an address is followed by ip4_calc_ip_checksum and the
\* checksum of the protocol.  TCP's is computed; UDP's is set to 0, "none",
\* but in packets of less than 40 bytes it stays what it was.
Readdress(p, src, dst) ==
    [p EXCEPT !.src = src, !.dst = dst, !.ipsum = <<src, dst>>,
              !.sum = IF ~p.long \/ p.proto = "other" THEN @
                      ELSE IF p.proto = "TCP" THEN <<src, dst>> ELSE NoSum]

\* masquerade_src
masquerade_src(p) == IF masq.on THEN Readdress(p, masq.ip, p.dst) ELSE p

\* The entries whose server is a, where both addresses are known
Hits(table, a) == {i \in Slots : dns[i] # 0 /\ vdns[i] # 0 /\ table[i] = a}

\* tun_ctx_send: the first entry decides.
ToRealDns(p) ==
    IF Hits(vdns, p.dst) = {} THEN p
    ELSE Readdress(p, p.src, dns[Min(Hits(vdns, p.dst))])

\* A mistake: the last entry is not looked at.
ToVirtualDnsShort(p) ==
    LET hits == Hits(dns, p.src) \ {NSlots}
    IN  IF hits = {} THEN p ELSE Readdress(p, vdns[Min(hits)], p.dst)

\* tun_ctx_recv
ToVirtualDns(p) ==
    IF Hits(dns, p.src) = {} THEN p
    ELSE Readdress(p, vdns[Min(Hits(dns, p.src))], p.dst)

\* dev_tun_recv and send4.  The version that decides is the one of the
\* buffer before the packet is read into it, unless that was no IP packet.
DevRecv(dst, proto, long) ==
    LET p == Fresh(Local, dst, proto, long) IN
    /\ bufver' = 4
    /\ IF bufver = 6 THEN UNCHANGED <<request, sent, got, stable>>
       ELSE /\ request' = p
            /\ sent' = ToRealDns(masquerade_src(p))
            /\ got' = NULL
            /\ stable' = TRUE
    /\ UNCHANGED <<dns, vdns, masq, calls>>

\* The device sends an IPv6 packet.
DevRecv6 ==
    /\ bufver' = 6
    /\ UNCHANGED <<dns, vdns, masq, calls, request, sent, got, stable>>

\* tun_ctx_recv: the reply of the host that received the request.
TunRecv ==
    /\ sent # NULL
    /\ bufver' = 4
    /\ LET p == ToVirtualDns(Fresh(sent.dst, sent.src, sent.proto, sent.long))
       IN  got' = Readdress(p, p.src, Local)
    /\ UNCHANGED <<dns, vdns, masq, calls, request, sent, stable>>

Next ==
    \/ \E list \in DnsLists : ConfigureDns(list)
    \/ ConfigureVirtualDns
    \/ \E a \in Assigned : ConfigureMasquerade(a)
    \/ SetStep
    \/ \E dst \in Addrs, proto \in Protos, long \in BOOLEAN :
         DevRecv(dst, proto, long)
    \/ DevRecv6
    \/ TunRecv

Spec == Init /\ [][Next]_vars

----------------------------------------------------------------------------
(* Properties *)

\* The checksums of a packet fit its addresses: a UDP packet may have none.
SumsFit(p) ==
    /\ p.ipsum = <<p.src, p.dst>>
    /\ p.long => \/ p.proto = "other"
                 \/ p.sum = <<p.src, p.dst>>
                 \/ p.proto = "UDP" /\ p.sum = NoSum

\* Whatever is rewritten in whatever order, while the settings change, a
\* packet that leaves for the network or the device has checksums over the
\* addresses it carries; UDP packets of less than 40 bytes are excepted,
\* which the code of ip4_calc_udp_checksum leaves as they were.
SumsCover ==
    /\ sent # NULL => SumsFit(sent)
    /\ got # NULL => SumsFit(got)

\* The reply comes to the application from the address it had sent to: what
\* is done to a request is undone for its reply, if no setting changed in
\* between, no two entries have the same real server, and the application
\* did not ask a real server itself (whose reply is taken for that of the
\* virtual one).
RoundTrip ==
    (/\ got # NULL /\ stable
     /\ \A i, j \in Slots : (dns[i] = dns[j] /\ dns[i] # 0) => i = j
     /\ \A i \in Slots : dns[i] # request.dst)
    => got.src = request.dst /\ got.dst = request.src
=============================================================================
