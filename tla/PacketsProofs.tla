--------------------------- MODULE PacketsProofs ---------------------------
(***************************************************************************)
(* Proofs about module Packets, for any addresses, lists of servers and    *)
(* size of the tables: its typing, that packets leave with checksums over  *)
(* the addresses they carry, and that replies come back from where the     *)
(* request went.                                                           *)
(***************************************************************************)
EXTENDS Packets, WellFoundedInduction, TLAPS

\* An address is set before masquerading is switched on: every call that
\* switches it on comes after one that sets the address.
MasqOK ==
    /\ masq.on => masq.ip \in Addrs
    /\ \A k \in 1..Len(calls) :
          /\ calls[k].op = "ip" => calls[k].ip \in Addrs
          /\ calls[k].op = "on" =>
               IF k = 1 THEN masq.ip \in Addrs ELSE calls[k - 1].op = "ip"

\* As long as no setting changed, what was sent is what the settings make of
\* the request.
Traced ==
    (stable /\ sent # NULL) =>
        /\ request \in Packets4 /\ SumsFit(request)
        /\ request.src = Local
        /\ sent = ToRealDns(masquerade_src(request))

\* The inductive invariant.
IInv == TypeOK /\ MasqOK /\ SumsCover /\ Traced /\ RoundTrip
-----------------------------------------------------------------------------
(* The operators. *)

\* The first of some entries is one of them.
LEMMA FirstEntry ==
    ASSUME NEW S \in SUBSET Slots, S # {}
    PROVE  Min(S) \in S
<1> DEFINE R == OpToRel(<, Nat)
<1>1. IsWellFoundedOn(R, Nat)
  BY NatLessThanWellFounded, Zenon
<1>2. S \subseteq Nat
  BY SlotsCounted DEF Slots
<1> HIDE DEF R
<1>3. PICK n \in S : \A m \in S : ~(<<m, n>> \in R)
  BY <1>1, <1>2, WFMin, Zenon
<1>4. \A m \in S : ~(m < n)
  BY <1>2, <1>3, Zenon DEF R, OpToRel
<1>5. \E x \in S : \A y \in S : x =< y
  BY <1>2, <1>4
<1> QED BY <1>5 DEF Min

\* Packets of hosts have their types and checksums.
LEMMA FreshFacts ==
    ASSUME NEW a \in Addrs, NEW b \in Addrs, NEW proto \in Protos,
           NEW long \in BOOLEAN
    PROVE  LET p == Fresh(a, b, proto, long) IN
           /\ p \in Packets4 /\ SumsFit(p)
           /\ p.src = a /\ p.dst = b
<1> DEFINE p == Fresh(a, b, proto, long)
<1>1. p.long \in BOOLEAN
  BY Zenon DEF Fresh
<1>2. p \in Packets4
  BY DEF Fresh, Packets4, Pairs
<1> QED BY <1>2 DEF Fresh, SumsFit, Protos

\* The reply to a packet, as its receiver makes it.
LEMMA ReplyFacts ==
    ASSUME NEW s \in Packets4
    PROVE  \E p \in Packets4 :
             /\ p = Fresh(s.dst, s.src, s.proto, s.long)
             /\ SumsFit(p) /\ p.src = s.dst
<1>1. /\ s.dst \in Addrs /\ s.src \in Addrs /\ s.proto \in Protos
      /\ s.long \in BOOLEAN
  BY DEF Packets4
<1>2. PICK p : p = Fresh(s.dst, s.src, s.proto, s.long)
  OBVIOUS
<1>3. p \in Packets4 /\ SumsFit(p) /\ p.src = s.dst
  BY <1>1, <1>2, FreshFacts
<1> QED BY <1>2, <1>3

\* A packet that gets new addresses keeps the rest, and its checksums are
\* over the new addresses whatever they were over before.
LEMMA ReaddressFacts ==
    ASSUME NEW p \in Packets4, NEW a \in Addrs, NEW b \in Addrs
    PROVE  LET q == Readdress(p, a, b) IN
           /\ q \in Packets4 /\ SumsFit(q)
           /\ q.src = a /\ q.dst = b
<1> DEFINE q == Readdress(p, a, b)
<1>1. q \in Packets4
  BY DEF Readdress, Packets4, Pairs
<1>2. q.src = a /\ q.dst = b /\ q.ipsum = <<a, b>>
  BY DEF Readdress, Packets4
<1>3. q.long = p.long /\ q.proto = p.proto
  BY DEF Readdress, Packets4
<1>4. p.long /\ p.proto # "other" =>
        q.sum = IF p.proto = "TCP" THEN <<a, b>> ELSE NoSum
  BY DEF Readdress, Packets4
<1>5. p.proto \in Protos
  BY DEF Packets4
<1>6. SumsFit(q)
  BY <1>2, <1>3, <1>4, <1>5 DEF SumsFit, Protos
<1> QED BY <1>1, <1>2, <1>6

\* Masquerading changes the source only.
LEMMA MasqueradeFacts ==
    ASSUME TypeOK, MasqOK, NEW p \in Packets4, SumsFit(p)
    PROVE  LET q == masquerade_src(p) IN
           /\ q \in Packets4 /\ SumsFit(q) /\ q.dst = p.dst
<1>1. p.src \in Addrs /\ p.dst \in Addrs
  BY DEF Packets4
<1>2. CASE masq.on
  <2>1. PICK a \in Addrs : a = masq.ip
    BY <1>2 DEF MasqOK
  <2>2. masquerade_src(p) = Readdress(p, a, p.dst)
    BY <1>2, <2>1 DEF masquerade_src
  <2>3. PICK q : q = Readdress(p, a, p.dst)
    OBVIOUS
  <2>4. q \in Packets4 /\ SumsFit(q) /\ q.dst = p.dst
    BY <1>1, <2>3, ReaddressFacts
  <2> QED BY <2>2, <2>3, <2>4
<1>3. CASE ~masq.on
  BY <1>3 DEF masquerade_src
<1> QED BY <1>2, <1>3

\* The entries of both tables where both are set have addresses.
LEMMA HitsFacts ==
    ASSUME TypeOK, NEW table, NEW a
    PROVE  /\ Hits(table, a) \in SUBSET Slots
           /\ \A i \in Hits(table, a) : dns[i] \in Addrs /\ vdns[i] \in Addrs
                                        /\ table[i] = a
BY DEF Hits, TypeOK

\* The translation of a request changes the destination only.
LEMMA RealFacts ==
    ASSUME TypeOK, NEW p \in Packets4, SumsFit(p)
    PROVE  LET q == ToRealDns(p)
               i == Min(Hits(vdns, p.dst)) IN
           /\ q \in Packets4 /\ SumsFit(q)
           /\ Hits(vdns, p.dst) = {} => q.dst = p.dst
           /\ Hits(vdns, p.dst) # {} =>
                /\ i \in Slots /\ dns[i] \in Addrs /\ vdns[i] = p.dst
                /\ q.dst = dns[i]
<1>1. p.src \in Addrs /\ p.dst \in Addrs
  BY DEF Packets4
<1>2. CASE Hits(vdns, p.dst) = {}
  BY <1>2 DEF ToRealDns
<1>3. CASE Hits(vdns, p.dst) # {}
  <2> DEFINE i == Min(Hits(vdns, p.dst))
  <2>1. Hits(vdns, p.dst) \in SUBSET Slots
    BY HitsFacts
  <2>2. i \in Hits(vdns, p.dst)
    BY <1>3, <2>1, FirstEntry
  <2>3. i \in Slots /\ dns[i] \in Addrs /\ vdns[i] = p.dst
    BY <2>1, <2>2, HitsFacts
  <2> HIDE DEF i
  <2>d. PICK d \in Addrs : d = dns[i]
    BY <2>3
  <2>4. ToRealDns(p) = Readdress(p, p.src, d)
    BY <1>3, <2>d DEF ToRealDns, i
  <2>q. PICK q : q = Readdress(p, p.src, d)
    OBVIOUS
  <2>5. q \in Packets4 /\ SumsFit(q) /\ q.dst = d
    BY <1>1, <2>d, <2>q, ReaddressFacts
  <2> QED BY <1>3, <2>3, <2>d, <2>4, <2>q, <2>5 DEF i
<1> QED BY <1>2, <1>3

\* The translation of a reply changes the source only.
LEMMA VirtualFacts ==
    ASSUME TypeOK, NEW p \in Packets4, SumsFit(p)
    PROVE  LET q == ToVirtualDns(p)
               i == Min(Hits(dns, p.src)) IN
           /\ q \in Packets4 /\ SumsFit(q)
           /\ Hits(dns, p.src) = {} => q.src = p.src
           /\ Hits(dns, p.src) # {} =>
                /\ i \in Slots /\ vdns[i] \in Addrs /\ dns[i] = p.src
                /\ q.src = vdns[i]
<1>1. p.src \in Addrs /\ p.dst \in Addrs
  BY DEF Packets4
<1>2. CASE Hits(dns, p.src) = {}
  BY <1>2 DEF ToVirtualDns
<1>3. CASE Hits(dns, p.src) # {}
  <2> DEFINE i == Min(Hits(dns, p.src))
  <2>1. Hits(dns, p.src) \in SUBSET Slots
    BY HitsFacts
  <2>2. i \in Hits(dns, p.src)
    BY <1>3, <2>1, FirstEntry
  <2>3. i \in Slots /\ vdns[i] \in Addrs /\ dns[i] = p.src
    BY <2>1, <2>2, HitsFacts
  <2> HIDE DEF i
  <2>d. PICK d \in Addrs : d = vdns[i]
    BY <2>3
  <2>4. ToVirtualDns(p) = Readdress(p, d, p.dst)
    BY <1>3, <2>d DEF ToVirtualDns, i
  <2>q. PICK q : q = Readdress(p, d, p.dst)
    OBVIOUS
  <2>5. q \in Packets4 /\ SumsFit(q) /\ q.src = d
    BY <1>1, <2>d, <2>q, ReaddressFacts
  <2> QED BY <1>3, <2>3, <2>d, <2>4, <2>q, <2>5 DEF i
<1> QED BY <1>2, <1>3
-----------------------------------------------------------------------------
(* The steps. *)

\* The tables start empty and nothing was sent.
LEMMA InitInv == Init => IInv
<1> SUFFICES ASSUME Init PROVE IInv
  OBVIOUS
<1>1. stable \in BOOLEAN /\ masq.on \in BOOLEAN
  BY Zenon DEF Init
<1>2. TypeOK
  BY <1>1 DEF Init, TypeOK
<1>3. MasqOK
  BY DEF Init, MasqOK
<1> QED BY <1>2, <1>3 DEF Init, IInv, SumsCover, Traced, RoundTrip

\* What a step that leaves packets and settings alone has to show.
LEMMA Configured ==
    ASSUME IInv, UNCHANGED <<dns, vdns, masq, bufver, request, sent, got, stable>>,
           calls' \in Seq(Calls), MasqOK'
    PROVE  IInv'
<1>1. TypeOK'
  BY DEF IInv, TypeOK
<1>2. SumsCover' /\ RoundTrip'
  BY DEF IInv, SumsCover, RoundTrip, SumsFit
<1>3. Traced'
  BY DEF IInv, Traced, SumsFit, ToRealDns, masquerade_src, Hits
<1> QED BY <1>1, <1>2, <1>3 DEF IInv

\* setDnsAddrs and setVirtualDnsAddrs make no other calls.
LEMMA SetAllFacts ==
    ASSUME NEW op \in {"dns", "vdns"}, NEW list \in Seq(Addrs)
    PROVE  /\ SetAll(op, list) \in Seq(Calls)
           /\ \A k \in 1..Len(SetAll(op, list)) : SetAll(op, list)[k].op = op
<1> DEFINE s == [i \in Slots |-> Call(op, i, 0)]
           t == [i \in 1..Len(list) |-> Call(op, i, list[i])]
           C == {c \in Calls : c.op = op}
<1>1. \A i \in Slots : Call(op, i, 0) \in C
  BY SlotsCounted DEF Slots, Call, Calls
<1>2. \A i \in 1..Len(list) : Call(op, i, list[i]) \in C
  BY DEF Call, Calls
<1> HIDE DEF C
<1>3. s \in Seq(C)
  BY <1>1, SlotsCounted DEF Slots
<1>4. t \in Seq(C)
  BY <1>2
<1> HIDE DEF s, t
<1>5. s \o t \in Seq(C)
  BY <1>3, <1>4
<1>6. PICK u \in Seq(C) : u = SetAll(op, list)
  BY <1>5 DEF SetAll, s, t
<1>7. \A k \in 1..Len(u) : u[k] \in C
  BY <1>6
<1>8. u \in Seq(Calls)
  BY <1>6, <1>7 DEF C
<1> QED BY <1>6, <1>7, <1>8 DEF C

\* The three configurations.
LEMMA ConfigureInv ==
    ASSUME IInv, \/ \E list \in DnsLists : ConfigureDns(list)
                 \/ ConfigureVirtualDns
                 \/ \E a \in Assigned : ConfigureMasquerade(a)
    PROVE  IInv'
<1>1. ASSUME NEW op \in {"dns", "vdns"}, NEW list \in Seq(Addrs),
             calls' = SetAll(op, list), UNCHANGED masq
      PROVE  calls' \in Seq(Calls) /\ MasqOK'
  BY <1>1, SetAllFacts DEF IInv, MasqOK
<1>2. ASSUME NEW list \in DnsLists, ConfigureDns(list)
      PROVE  IInv'
  BY <1>1, <1>2, DnsListed, Configured DEF ConfigureDns
<1>3. CASE ConfigureVirtualDns
  BY <1>1, <1>3, DnsListed, Configured DEF ConfigureVirtualDns
<1>4. ASSUME NEW a \in Assigned, ConfigureMasquerade(a)
      PROVE  IInv'
  <2>1. a \in Addrs
    BY LocalIsAddress
  <2>2. calls' \in Seq(Calls) /\ MasqOK'
    BY <1>4, <2>1 DEF ConfigureMasquerade, Call, Calls, IInv, MasqOK
  <2> QED BY <1>4, <2>2, Configured DEF ConfigureMasquerade
<1> QED BY <1>2, <1>3, <1>4

\* A setting changes: nothing is said of replies any more until the next
\* request.
LEMMA SetStepInv ==
    ASSUME IInv, SetStep
    PROVE  IInv'
<1> DEFINE c == Head(calls)
<1>1. /\ calls \in Seq(Calls) /\ calls # <<>> /\ c \in Calls
      /\ c = calls[1] /\ 1 \in 1..Len(calls)
      /\ calls' = Tail(calls) /\ calls' \in Seq(Calls)
      /\ Len(calls') = Len(calls) - 1
      /\ \A k \in 1..Len(calls') : calls'[k] = calls[k + 1]
  BY DEF SetStep, IInv, TypeOK
<1>2. dns' \in [Slots -> Addrs \cup {0}] /\ vdns' \in [Slots -> Addrs \cup {0}]
  BY <1>1 DEF SetStep, IInv, TypeOK, WithSlot, Calls
<1>3. stable' = FALSE
  BY DEF SetStep
<1>4. masq \in [on : BOOLEAN, ip : Addrs \cup {0}]
  BY DEF IInv, TypeOK
<1>5. /\ c.op = "ip" => masq' = [masq EXCEPT !.ip = c.ip]
      /\ c.op = "on" => masq' = [masq EXCEPT !.on = TRUE]
      /\ c.op \notin {"ip", "on"} => masq' = masq
  BY DEF SetStep
<1>6. masq' \in [on : BOOLEAN, ip : Addrs \cup {0}]
  BY <1>1, <1>4, <1>5 DEF Calls
<1>7. c.op = "ip" => c.ip \in Addrs
  BY <1>1 DEF IInv, MasqOK
<1>8. c.op = "on" => masq.ip \in Addrs
  BY <1>1 DEF IInv, MasqOK
<1>9. MasqOK'
  <2>1. masq'.on => masq'.ip \in Addrs
    BY <1>4, <1>5, <1>7, <1>8 DEF IInv, MasqOK
  <2>2. ASSUME NEW k \in 1..Len(calls')
        PROVE  /\ calls'[k].op = "ip" => calls'[k].ip \in Addrs
               /\ calls'[k].op = "on" =>
                    IF k = 1 THEN masq'.ip \in Addrs
                    ELSE calls'[k - 1].op = "ip"
    <3>1. k + 1 \in 1..Len(calls) /\ calls'[k] = calls[k + 1] /\ k + 1 # 1
          /\ (k + 1) - 1 = k
      BY <1>1
    <3>2. calls'[k].op = "ip" => calls'[k].ip \in Addrs
      BY <3>1 DEF IInv, MasqOK
    <3>3. calls'[k].op = "on" => calls[k].op = "ip"
      BY <3>1 DEF IInv, MasqOK
    <3>4. k = 1 /\ calls'[k].op = "on" => masq'.ip \in Addrs
      BY <1>1, <1>4, <1>5, <1>7, <3>3
    <3>5. k # 1 => calls'[k - 1] = calls[k]
      BY <1>1
    <3> QED BY <3>2, <3>3, <3>4, <3>5
  <2> QED BY <2>1, <2>2 DEF MasqOK
<1>10. TypeOK'
  <2>1. stable' \in BOOLEAN
    BY <1>3, Zenon
  <2> QED BY <1>1, <1>2, <1>6, <2>1 DEF SetStep, IInv, TypeOK
<1>11. SumsCover'
  BY DEF SetStep, IInv, SumsCover, SumsFit
<1> QED BY <1>3, <1>9, <1>10, <1>11 DEF IInv, Traced, RoundTrip

\* A request is sent, or dropped because the packet before was an IPv6
\* packet.
LEMMA DevRecvInv ==
    ASSUME IInv, NEW dst \in Addrs, NEW proto \in Protos, NEW long \in BOOLEAN,
           DevRecv(dst, proto, long)
    PROVE  IInv'
<1>1. MasqOK'
  BY DEF DevRecv, IInv, MasqOK
<1>2. CASE bufver = 6
  <2>1. TypeOK'
    BY <1>2 DEF DevRecv, IInv, TypeOK
  <2>2. SumsCover' /\ RoundTrip'
    BY <1>2 DEF DevRecv, IInv, SumsCover, RoundTrip, SumsFit
  <2>3. Traced'
    BY <1>2 DEF DevRecv, IInv, Traced, SumsFit, ToRealDns, masquerade_src, Hits
  <2> QED BY <1>1, <2>1, <2>2, <2>3 DEF IInv
<1>3. CASE bufver # 6
  <2>1. PICK p : p = Fresh(Local, dst, proto, long)
    OBVIOUS
  <2>2. p \in Packets4 /\ SumsFit(p) /\ p.src = Local
    BY <2>1, FreshFacts, LocalIsAddress
  <2>3. PICK q : q = masquerade_src(p)
    OBVIOUS
  <2>4. q \in Packets4 /\ SumsFit(q)
    BY <2>2, <2>3, MasqueradeFacts DEF IInv
  <2>5. PICK r : r = ToRealDns(q)
    OBVIOUS
  <2>6. r \in Packets4 /\ SumsFit(r)
    BY <2>4, <2>5, RealFacts DEF IInv
  <2>7. /\ request' = p /\ sent' = r /\ got' = NULL /\ stable' = TRUE
        /\ bufver' = 4 /\ UNCHANGED <<dns, vdns, masq, calls>>
    BY <1>3, <2>1, <2>3, <2>5 DEF DevRecv
  <2>8. TypeOK'
    <3>1. stable' \in BOOLEAN
      BY <2>7, Zenon
    <3> QED BY <2>2, <2>6, <2>7, <3>1 DEF IInv, TypeOK
  <2>9. SumsCover'
    BY <2>6, <2>7 DEF SumsCover, SumsFit
  <2>10. Traced'
    BY <2>2, <2>3, <2>5, <2>7 DEF Traced, SumsFit, ToRealDns, masquerade_src, Hits
  <2>11. RoundTrip'
    BY <2>7 DEF RoundTrip
  <2> QED BY <1>1, <2>8, <2>9, <2>10, <2>11 DEF IInv
<1> QED BY <1>2, <1>3

\* A packet of IPv6 changes the version in the buffer only.
LEMMA DevRecv6Inv ==
    ASSUME IInv, DevRecv6
    PROVE  IInv'
<1>1. TypeOK'
  BY DEF DevRecv6, IInv, TypeOK
<1>2. MasqOK' /\ SumsCover' /\ RoundTrip'
  BY DEF DevRecv6, IInv, MasqOK, SumsCover, RoundTrip, SumsFit
<1>3. Traced'
  BY DEF DevRecv6, IInv, Traced, SumsFit, ToRealDns, masquerade_src, Hits
<1> QED BY <1>1, <1>2, <1>3 DEF IInv

\* A reply arrives.  While the settings stay, the entry that translated the
\* request is the only one that can translate the reply.
LEMMA TunRecvInv ==
    ASSUME IInv, TunRecv
    PROVE  IInv'
<1>1. sent \in Packets4 /\ sent # NULL
  BY DEF TunRecv, IInv, TypeOK
<1>2. PICK s \in Packets4 : s = sent
  BY <1>1
<1>3. PICK p \in Packets4 :
        p = Fresh(s.dst, s.src, s.proto, s.long) /\ SumsFit(p) /\ p.src = s.dst
  BY ReplyFacts
<1>4. p \in Packets4 /\ SumsFit(p) /\ p.src = sent.dst
  BY <1>2, <1>3
<1>5. PICK q : q = ToVirtualDns(p)
  OBVIOUS
<1>6. q \in Packets4 /\ SumsFit(q)
  BY <1>4, <1>5, VirtualFacts DEF IInv
<1>7. PICK a \in Addrs : a = q.src
  BY <1>6 DEF Packets4
<1>8. PICK g : g = Readdress(q, a, Local)
  OBVIOUS
<1>9. g \in Packets4 /\ SumsFit(g) /\ g.src = q.src /\ g.dst = Local
  BY <1>6, <1>7, <1>8, ReaddressFacts, LocalIsAddress
<1>10. /\ got' = g /\ bufver' = 4
       /\ UNCHANGED <<dns, vdns, masq, calls, request, sent, stable>>
  BY <1>2, <1>3, <1>5, <1>7, <1>8 DEF TunRecv
<1>11. TypeOK'
  BY <1>9, <1>10 DEF IInv, TypeOK
<1>12. MasqOK'
  BY <1>10 DEF IInv, MasqOK
<1>13. SumsCover'
  BY <1>9, <1>10 DEF IInv, SumsCover, SumsFit
<1>14. Traced'
  BY <1>10 DEF IInv, Traced, SumsFit, ToRealDns, masquerade_src, Hits
<1>15. RoundTrip'
  <2> SUFFICES ASSUME stable,
                      \A i, j \in Slots : (dns[i] = dns[j] /\ dns[i] # 0) => i = j,
                      \A i \in Slots : dns[i] # request.dst
               PROVE  g.src = request.dst /\ g.dst = request.src
    BY <1>10 DEF RoundTrip
  <2>1. PICK rq \in Packets4 :
          rq = request /\ SumsFit(rq) /\ rq.src = Local
          /\ sent = ToRealDns(masquerade_src(rq))
    BY <1>1 DEF IInv, Traced
  <2>2. PICK r : r = masquerade_src(rq)
    OBVIOUS
  <2>3. r \in Packets4 /\ SumsFit(r) /\ r.dst = rq.dst
    BY <2>1, <2>2, MasqueradeFacts DEF IInv
  <2>4. sent = ToRealDns(r)
    BY <2>1, <2>2
  <2>5. 0 \notin Addrs /\ rq.dst \in Addrs
    BY LocalIsAddress DEF Packets4
  <2>6. CASE Hits(vdns, r.dst) = {}
    <3>1. p.src = rq.dst
      BY <1>2, <1>4, <2>3, <2>4, <2>6, RealFacts DEF IInv
    <3>2. Hits(dns, p.src) = {}
      BY <2>1, <3>1 DEF Hits
    <3>3. q.src = p.src
      BY <1>4, <1>5, <3>2, VirtualFacts DEF IInv
    <3> QED BY <1>9, <2>1, <3>1, <3>3
  <2>7. CASE Hits(vdns, r.dst) # {}
    <3>1. PICK i \in Slots : dns[i] \in Addrs /\ vdns[i] = r.dst
                             /\ sent.dst = dns[i]
      BY <2>3, <2>4, <2>7, RealFacts DEF IInv
    <3>2. p.src = dns[i]
      BY <1>2, <1>4, <3>1
    <3>3. i \in Hits(dns, p.src)
      BY <2>3, <2>5, <3>1, <3>2 DEF Hits
    <3>4. PICK j \in Slots : dns[j] = p.src /\ q.src = vdns[j]
      BY <1>4, <1>5, <3>3, VirtualFacts DEF IInv
    <3>5. j = i
      BY <2>5, <3>1, <3>2, <3>4
    <3> QED BY <1>9, <2>1, <2>3, <3>1, <3>4, <3>5
  <2> QED BY <2>6, <2>7
<1> QED BY <1>11, <1>12, <1>13, <1>14, <1>15 DEF IInv

\* Every step keeps the invariant.
LEMMA NextInv == IInv /\ [Next]_vars => IInv'
<1> SUFFICES ASSUME IInv, [Next]_vars PROVE IInv'
  OBVIOUS
<1>1. CASE UNCHANGED vars
  <2>1. TypeOK'
    BY <1>1 DEF vars, IInv, TypeOK
  <2>2. MasqOK' /\ SumsCover' /\ RoundTrip'
    BY <1>1 DEF vars, IInv, MasqOK, SumsCover, RoundTrip, SumsFit
  <2>3. Traced'
    BY <1>1 DEF vars, IInv, Traced, SumsFit, ToRealDns, masquerade_src, Hits
  <2> QED BY <2>1, <2>2, <2>3 DEF IInv
<1>2. CASE \/ \E list \in DnsLists : ConfigureDns(list)
           \/ ConfigureVirtualDns
           \/ \E a \in Assigned : ConfigureMasquerade(a)
  BY <1>2, ConfigureInv
<1>3. CASE SetStep
  BY <1>3, SetStepInv
<1>4. CASE \E dst \in Addrs, proto \in Protos, long \in BOOLEAN :
             DevRecv(dst, proto, long)
  BY <1>4, DevRecvInv
<1>5. CASE DevRecv6
  BY <1>5, DevRecv6Inv
<1>6. CASE TunRecv
  BY <1>6, TunRecvInv
<1> QED BY <1>1, <1>2, <1>3, <1>4, <1>5, <1>6 DEF Next

\* The invariant holds at all times.
THEOREM Invariance == Spec => []IInv
BY InitInv, NextInv, PTL DEF Spec

\* The variables keep their types: in particular the tables of DNS servers
\* keep their size and no packet gets the address 0, since masquerading is
\* not switched on before its address is set.
THEOREM TypeCorrect == Spec => []TypeOK
<1>1. IInv => TypeOK
  BY DEF IInv
<1> QED BY <1>1, Invariance, PTL

\* Whatever settings change between and during the rewritings, a packet
\* leaves with checksums over the addresses it carries.
THEOREM ChecksumsRight == Spec => []SumsCover
<1>1. IInv => SumsCover
  BY DEF IInv
<1> QED BY <1>1, Invariance, PTL

\* What tun_ctx_send and masquerade_src do to a request, tun_ctx_recv and
\* masquerade_dst undo for its reply.
THEOREM RepliesReturn == Spec => []RoundTrip
<1>1. IInv => RoundTrip
  BY DEF IInv
<1> QED BY <1>1, Invariance, PTL

=============================================================================
