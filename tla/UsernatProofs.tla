--------------------------- MODULE UsernatProofs ---------------------------
(***************************************************************************)
(* Proofs about module Usernat, for any flows, ports, number of links and  *)
(* packets, and any number of cycles to live.                              *)
(***************************************************************************)
EXTENDS Usernat, Lemmas, FiniteSetTheorems

\* What the types leave open: the bounds, and what the threads hold where.
Bounded == nlinks <= MaxLinks /\ npackets <= MaxPackets
JavaHas == java.at \in {"cmd", "setpid"}
InHand ==
    /\ router.at # "idle" => router.pkt = npackets /\ npackets > 0
    /\ router.at = "create" => router.flow \in Flows
    /\ router.at = "rewrite" => router.link \in Links
    /\ router.at \in {"build", "queued", "threw", "check", "failed"} =>
         router.link \in Links /\ router.link = nlinks
    /\ JavaHas => java.link \in Links

\* The newest link is the first of the list.
Descending ==
    /\ \A i, j \in 1 .. Len(links) : i < j => links[j] < links[i]
    /\ \A i \in 1 .. Len(links) : links[i] <= nlinks

\* A request of link l is under way.
Requested(l) ==
    \/ \E i \in 1 .. Len(mQueue) : mQueue[i] = l
    \/ JavaHas /\ java.link = l
    \/ router.at = "build" /\ router.link = l

\* Requests are under way in the order in which links were created.
InTurn ==
    /\ \A i, j \in 1 .. Len(mQueue) : i < j => mQueue[i] < mQueue[j]
    /\ JavaHas => \A i \in 1 .. Len(mQueue) : java.link < mQueue[i]
    /\ router.at = "build" =>
         /\ JavaHas => java.link < router.link
         /\ \A i \in 1 .. Len(mQueue) : mQueue[i] < router.link

\* A link whose request is under way, or whose build holds the lock.
Waiting(l) ==
    /\ Live(l)
    /\ link[l].socat_pid = 0 /\ link[l].enqueue_packets /\ link[l].cycles_to_live = 0
Unanswered ==
    /\ \A l \in Links : Requested(l) => Waiting(l)
    /\ router.at \in {"queued", "threw"} => Waiting(router.link)
    /\ router.at = "threw" => ~Requested(router.link)

\* The link of a build that threw, before its packet is dropped.
Thrown(l) ==
    /\ router.at \in {"check", "failed"} /\ router.link = l
    /\ Failed(l) /\ link[l].enqueue_packets /\ link[l].cycles_to_live = 0

\* Links are answered in the order of their creation.
AnsweredInTurn ==
    \A l \in Links :
        Live(l) /\ link[l].socat_pid # 0 =>
          \/ Thrown(l)
          \/ /\ ~ link[l].enqueue_packets
             /\ \A k \in Links : Requested(k) => l < k

\* A link that queues has a queue, and a request unless it is excepted.
Queues == \A l \in Links : link[l].enqueue_packets <=> link[l].queue # NULL
Asked ==
    \A l \in Links :
        Live(l) /\ link[l].enqueue_packets =>
          \/ Requested(l) \/ ~ mVpnTunnelCtx \/ link[l].flow \in PortZero
          \/ /\ router.link = l
             /\ router.at \in {"threw", "failed"} \/ (router.at = "check" /\ Failed(l))

\* The router thread's own link.
Held ==
    /\ router.at = "rewrite" => Live(router.link)
    /\ router.at = "failed" /\ Live(router.link) => Failed(router.link)

\* No two links of the list are of one flow, and no link was bound to the port
\* of an older socket that is still open.
FlowsDiffer ==
    /\ \A l \in Links : Live(l) => link[l].flow \in Flows
    /\ \A k, l \in Links : Live(k) /\ Live(l) /\ link[k].flow = link[l].flow => k = l
    /\ router.at = "create" => \A l \in Links : Live(l) => link[l].flow # router.flow
PortsDiffer ==
    \A k, l \in Links :
        Live(k) /\ l < k /\ link[l].open => link[k].hop_port # link[l].hop_port

IInv ==
    /\ TypeOK /\ Bounded /\ InHand
    /\ Descending /\ InTurn /\ Unanswered /\ AnsweredInTurn
    /\ Queues /\ Asked /\ Held
    /\ FlowsDiffer /\ PortsDiffer

-----------------------------------------------------------------------------
(* The walk of usernat_set_pid_for_link. *)

\* A live link has a place in the list.
LEMMA PositionFacts ==
    ASSUME TypeOK, NEW l, Live(l)
    PROVE  Position(l) \in 1..Len(links) /\ links[Position(l)] = l /\ l \in Links
<1>1. DOMAIN links = 1..Len(links) /\ \A i \in 1..Len(links) : links[i] \in Links
  BY DEF TypeOK
<1>2. \E i \in DOMAIN links : links[i] = l
  BY DEF Live
<1>3. Position(l) \in DOMAIN links /\ links[Position(l)] = l
  BY <1>2 DEF Position
<1> QED BY <1>1, <1>3

\* The walk to a live link passes newer ones.
LEMMA VisitedNewer ==
    ASSUME TypeOK, Descending, NEW k, NEW l, Live(k), Live(l), Position(k) <= Position(l)
    PROVE  l <= k
<1>1. PICK i \in 1..Len(links) : i = Position(k) /\ links[i] = k
  BY PositionFacts
<1>2. PICK j \in 1..Len(links) : j = Position(l) /\ links[j] = l
  BY PositionFacts
<1>3. i < j => l < k
  BY <1>1, <1>2 DEF Descending
<1>4. k \in Nat /\ l \in Nat /\ i <= j
  BY <1>1, <1>2, PositionFacts DEF Links
<1> QED BY <1>1, <1>2, <1>3, <1>4

\* What becomes of the links in the walk: deleted, answered or left.
Gone(k) ==
    /\ link'[k].flow = NULL /\ link'[k].socat_pid = 0
    /\ link'[k].enqueue_packets = FALSE /\ link'[k].queue = NULL
Told(k, p) ==
    /\ link'[k].flow = link[k].flow /\ link'[k].socat_pid = p
    /\ link'[k].enqueue_packets = FALSE /\ link'[k].queue = NULL
Left(k) ==
    /\ link'[k].flow = link[k].flow /\ link'[k].socat_pid = link[k].socat_pid
    /\ link'[k].enqueue_packets = link[k].enqueue_packets
    /\ link'[k].queue = link[k].queue
    /\ link[k].cycles_to_live = 0 => link'[k].cycles_to_live = 0

\* The walk deletes, answers or leaves each link, and touches no port.
LEMMA WalkLinks ==
    ASSUME TypeOK, NEW t \in Threads, NEW l \in Links, NEW p \in {-1, 0, 1},
           SetPidForLink(t, l, p)
    PROVE  /\ link' \in [Links -> NatLinks]
           /\ \A k \in Links :
                /\ link'[k].hop_port = link[k].hop_port /\ link'[k].open = link[k].open
                /\ Removed(k, l) => Gone(k)
                /\ k = l /\ Found(l) => Told(l, p)
                /\ ~Removed(k, l) /\ ~(k = l /\ Found(l)) => Left(k)
<1>1. ASSUME NEW k \in Links
      PROVE  /\ link'[k] \in NatLinks
             /\ link'[k].hop_port = link[k].hop_port /\ link'[k].open = link[k].open
             /\ Removed(k, l) => Gone(k)
             /\ k = l /\ Found(l) => Told(l, p)
             /\ ~Removed(k, l) /\ ~(k = l /\ Found(l)) => Left(k)
  <2>1. PICK r \in NatLinks : r = link[k]
    BY DEF TypeOK
  <2>2. Removed(k, l) => ~(k = l /\ Found(l))
    BY DEF Removed, Found
  <2>3. link'[k] = IF Removed(k, l) THEN Freed(k)
                   ELSE IF k = l /\ Found(l) THEN Answered(l, p)
                   ELSE IF Visited(k, l) THEN Aged(k) ELSE link[k]
    BY <2>2 DEF SetPidForLink
  <2>4. CASE Removed(k, l)
    <3>1. link'[k] = [NoLink EXCEPT !.hop_port = r.hop_port, !.open = r.open]
      BY <2>1, <2>3, <2>4 DEF Freed
    <3>2. link'[k] = [flow |-> NULL, hop_port |-> r.hop_port, open |-> r.open,
                      socat_pid |-> 0, enqueue_packets |-> FALSE, queue |-> NULL,
                      cycles_to_live |-> 0]
      BY <3>1 DEF NoLink
    <3>3. r.hop_port \in Ports \cup {NULL} /\ r.open \in BOOLEAN
      BY <2>1 DEF NatLinks
    <3>4. link'[k] \in NatLinks
      BY <3>2, <3>3 DEF NatLinks
    <3>5. link'[k].hop_port = r.hop_port /\ link'[k].open = r.open /\ Gone(k)
      BY <3>2 DEF Gone
    <3> QED BY <2>1, <2>2, <2>4, <3>4, <3>5
  <2>5. PICK a \in NatLinks :
          /\ a = Aged(k) /\ a.flow = r.flow /\ a.hop_port = r.hop_port /\ a.open = r.open
          /\ a.socat_pid = r.socat_pid /\ a.enqueue_packets = r.enqueue_packets
          /\ a.queue = r.queue /\ (r.cycles_to_live = 0 => a.cycles_to_live = 0)
    <3>1. PICK c \in Nat : /\ Aged(k) = [r EXCEPT !.cycles_to_live = c]
                           /\ r.cycles_to_live = 0 => c = 0
      <4>1. r.cycles_to_live \in Nat
        BY <2>1 DEF NatLinks
      <4> QED BY <2>1, <4>1 DEF Aged
    <3>2. [r EXCEPT !.cycles_to_live = c] \in NatLinks
      BY <2>1, <3>1 DEF NatLinks
    <3>3. PICK a \in NatLinks : a = [r EXCEPT !.cycles_to_live = c]
      BY <3>2
    <3>4. /\ a.flow = r.flow /\ a.hop_port = r.hop_port /\ a.open = r.open
          /\ a.socat_pid = r.socat_pid /\ a.enqueue_packets = r.enqueue_packets
          /\ a.queue = r.queue /\ a.cycles_to_live = c
      BY <2>1, <3>3 DEF NatLinks
    <3> QED BY <3>1, <3>3, <3>4
  <2>6. CASE k = l /\ Found(l)
    <3>1. PICK d : d = IF p = -1 THEN CyclesToLive ELSE a.cycles_to_live
      OBVIOUS
    <3>2. d \in Nat
      BY <2>5, <3>1, NumbersAssumption DEF NatLinks
    <3>3. link'[k] = Answered(k, p)
      BY <2>2, <2>3, <2>6
    <3>4. link'[k] = [a EXCEPT !.socat_pid = p, !.enqueue_packets = FALSE,
                               !.queue = NULL, !.cycles_to_live = d]
      BY <2>5, <3>1, <3>3 DEF Answered, NatLinks
    <3>5. [a EXCEPT !.socat_pid = p, !.enqueue_packets = FALSE,
                    !.queue = NULL, !.cycles_to_live = d] \in NatLinks
      BY <2>5, <3>2 DEF NatLinks
    <3>6. /\ link'[k].flow = a.flow /\ link'[k].hop_port = a.hop_port /\ link'[k].open = a.open
          /\ link'[k].socat_pid = p /\ link'[k].enqueue_packets = FALSE /\ link'[k].queue = NULL
      BY <2>5, <3>4 DEF NatLinks
    <3>7. Told(k, p)
      BY <2>1, <2>5, <3>6 DEF Told
    <3> QED BY <2>1, <2>2, <2>5, <2>6, <3>4, <3>5, <3>6, <3>7
  <2>7. CASE ~Removed(k, l) /\ ~(k = l /\ Found(l))
    <3>1. link'[k] = a \/ link'[k] = r
      BY <2>1, <2>3, <2>5, <2>7
    <3> QED BY <2>1, <2>5, <2>7, <3>1 DEF Left
  <2> QED BY <2>4, <2>6, <2>7
<1>2. link' = [k \in Links |-> link'[k]]
  BY DEF SetPidForLink
<1> QED BY <1>1, <1>2

\* The walk takes the deleted links out of the list and keeps its order.
LEMMA WalkList ==
    ASSUME TypeOK, Descending, UNCHANGED nlinks,
           NEW t \in Threads, NEW l \in Links, NEW p \in {-1, 0, 1},
           SetPidForLink(t, l, p)
    PROVE  /\ links' \in Seq(Links) /\ Descending'
           /\ \A k \in Links : Live(k)' <=> Live(k) /\ ~Removed(k, l)
<1> DEFINE S == {k \in Links : ~Removed(k, l)}
<1>1. links \in Seq(Links)
  BY DEF TypeOK
<1>2. PICK q \in Seq(Links) : q = links'
  BY <1>1, FilterFacts DEF SetPidForLink
<1>3. PICK h : Picks(h, q, links, S, Len(links))
  BY <1>1, <1>2, FilterFacts DEF SetPidForLink
<1>4. /\ \A i \in 1..Len(q) : h[i] \in 1..Len(links) /\ q[i] = links[h[i]] /\ q[i] \in S
      /\ \A i, j \in 1..Len(q) : i < j => h[i] < h[j]
      /\ \A n \in 1..Len(links) : links[n] \in S => \E i \in 1..Len(q) : h[i] = n
  BY <1>3 DEF Picks
<1>5. \A i, j \in 1..Len(q) : i < j => q[j] < q[i]
  <2>1. \A i, j \in 1..Len(links) : i < j => links[j] < links[i]
    BY DEF Descending
  <2> QED BY <1>4, <2>1
<1>6. \A i \in 1..Len(q) : q[i] <= nlinks
  <2>1. \A i \in 1..Len(links) : links[i] <= nlinks
    BY DEF Descending
  <2> QED BY <1>4, <2>1
<1>7. Descending'
  BY <1>2, <1>5, <1>6 DEF Descending
<1>8. DOMAIN q = 1..Len(q) /\ DOMAIN links = 1..Len(links)
  BY <1>1, <1>2
<1>9. ASSUME NEW k \in Links
      PROVE  Live(k)' <=> Live(k) /\ ~Removed(k, l)
  <2>1. Live(k)' <=> \E i \in 1..Len(q) : q[i] = k
    BY <1>2, <1>8 DEF Live
  <2>2. Live(k) <=> \E i \in 1..Len(links) : links[i] = k
    BY <1>8 DEF Live
  <2>3. k \in S <=> ~Removed(k, l)
    OBVIOUS
  <2> HIDE DEF S
  <2>4. ASSUME NEW i \in 1..Len(q), q[i] = k
        PROVE  k \in S /\ \E n \in 1..Len(links) : links[n] = k
    BY <1>4, <2>4
  <2>5. ASSUME NEW n \in 1..Len(links), links[n] = k, k \in S
        PROVE  \E i \in 1..Len(q) : q[i] = k
    <3>1. PICK i \in 1..Len(q) : h[i] = n
      BY <1>4, <2>5
    <3> QED BY <1>4, <2>5, <3>1
  <2> QED BY <2>1, <2>2, <2>3, <2>4, <2>5
<1> QED BY <1>2, <1>7, <1>9

\* The walk hands over the queue of the link it answers.
LEMMA WalkFlush ==
    ASSUME TypeOK, NEW t \in Threads, NEW l \in Links, NEW p, SetPidForLink(t, l, p)
    PROVE  flushing' \in [Threads -> Seq(Packets)]
<1>1. PICK r \in NatLinks : r = link[l]
  BY DEF TypeOK
<1>2. r.queue # NULL => r.queue \in Seq(Packets)
  BY <1>1 DEF NatLinks
<1>3. (IF Found(l) /\ link[l].queue # NULL THEN link[l].queue ELSE <<>>) \in Seq(Packets)
  BY <1>1, <1>2
<1>4. flushing \in [Threads -> Seq(Packets)]
  BY DEF TypeOK
<1> QED BY <1>3, <1>4 DEF SetPidForLink

\* What Java's walk deletes is the link of a build that threw: all others it
\* passes are newer than a link whose request is under way.
LEMMA JavaRemoves ==
    ASSUME IInv, JavaAt("setpid"), NEW k \in Links, Removed(k, java.link)
    PROVE  Thrown(k)
<1>1. Requested(java.link) /\ java.link \in Links
  BY DEF JavaAt, Requested, JavaHas, IInv, InHand
<1>2. Live(java.link) /\ link[java.link].socat_pid = 0
  BY <1>1 DEF IInv, Unanswered, Waiting
<1>3. Found(java.link)
  BY <1>2 DEF Found, Spent, Failed
<1>4. Live(k) /\ Position(k) <= Position(java.link)
  BY <1>3 DEF Removed, Visited
<1>5. java.link <= k
  BY <1>2, <1>4, VisitedNewer DEF IInv
<1>6. Live(k) /\ link[k].socat_pid # 0
  BY <1>4 DEF Removed, Spent, Failed
<1>7. Thrown(k) \/ k < java.link
  BY <1>1, <1>6 DEF IInv, AnsweredInTurn
<1>8. k \in Nat /\ java.link \in Nat
  BY <1>1 DEF Links
<1> QED BY <1>5, <1>7, <1>8

-----------------------------------------------------------------------------
(* Steps that leave the table of links alone. *)

\* Without a change of the table its links are the same.
LEMMA SameTable ==
    ASSUME UNCHANGED table
    PROVE  /\ \A l \in Links : Live(l)' <=> Live(l)
           /\ Descending => Descending'
           /\ Queues => Queues'
           /\ PortsDiffer => PortsDiffer'
<1> USE DEF table
<1>1. \A l \in Links : Live(l)' <=> Live(l)
  BY DEF Live
<1>2. Descending => Descending'
  BY DEF Descending
<1>3. Queues => Queues'
  BY DEF Queues
<1>4. PortsDiffer => PortsDiffer'
  BY <1>1 DEF PortsDiffer
<1> QED BY <1>1, <1>2, <1>3, <1>4

\* Requests go on, or are forgotten where no answer is promised.
LEMMA RequestsShrink ==
    ASSUME IInv, TypeOK', InHand', InTurn', UNCHANGED <<table, npackets, router>>,
           \A l \in Links : Requested(l)' => Requested(l),
           \A l \in Links : Requested(l) =>
             Requested(l)' \/ ~mVpnTunnelCtx' \/ link[l].flow \in PortZero,
           mVpnTunnelCtx' => mVpnTunnelCtx
    PROVE  IInv'
<1> USE DEF table
<1>1. \A l \in Links : Live(l)' <=> Live(l)
  BY SameTable
<1>2. Bounded' /\ Descending' /\ Queues' /\ PortsDiffer'
  BY SameTable DEF IInv, Bounded
<1>3. router' = router /\ link' = link
  OBVIOUS
<1>4. \A l \in Links : /\ Waiting(l) => Waiting(l)'
                       /\ Thrown(l) => Thrown(l)'
  BY <1>1, <1>3 DEF Waiting, Thrown, Failed
<1>5. Unanswered'
  <2>1. router.at \in {"queued", "threw"} => router.link \in Links
    BY DEF IInv, InHand
  <2> QED BY <1>3, <1>4, <2>1 DEF IInv, Unanswered
<1>6. AnsweredInTurn'
  BY <1>1, <1>3, <1>4 DEF IInv, AnsweredInTurn
<1>7. Asked'
  BY <1>1, <1>3 DEF IInv, Asked, Failed
<1>8. Held'
  <2>1. router.at \in {"rewrite", "failed"} => router.link \in Links
    BY DEF IInv, InHand
  <2> QED BY <1>1, <1>3, <2>1 DEF IInv, Held, Failed
<1>9. FlowsDiffer'
  BY <1>1, <1>3 DEF IInv, FlowsDiffer
<1> QED BY <1>2, <1>5, <1>6, <1>7, <1>8, <1>9 DEF IInv

\* The router's steps from and to places where it has no build under way.
Aside == {"idle", "create", "rewrite", "write"}

\* Outside of a build, only the router's own link and flow count.
LEMMA RouterAside ==
    ASSUME IInv, TypeOK', Bounded', InHand', Held',
           UNCHANGED <<table, mQueue, java, mVpnTunnelCtx>>,
           router.at \in Aside, router'.at \in Aside,
           router'.at = "create" =>
             \A l \in Links : Live(l) => link[l].flow # router'.flow
    PROVE  IInv'
<1> USE DEF table
<1>1. \A l \in Links : Live(l)' <=> Live(l)
  BY SameTable
<1>2. Descending' /\ Queues' /\ PortsDiffer'
  BY SameTable DEF IInv
<1>3. /\ link' = link /\ mQueue' = mQueue /\ java' = java
      /\ mVpnTunnelCtx' = mVpnTunnelCtx
      /\ router.at \notin {"build", "queued", "threw", "check", "failed"}
      /\ router'.at \notin {"build", "queued", "threw", "check", "failed"}
  BY DEF Aside
<1>4. \A l \in Links : Requested(l)' <=> Requested(l)
  BY <1>3 DEF Requested, JavaHas
<1>5. \A l \in Links : ~Thrown(l) /\ (Waiting(l) => Waiting(l)')
  BY <1>1, <1>3 DEF Waiting, Thrown
<1>6. InTurn'
  BY <1>3 DEF IInv, InTurn, JavaHas
<1>7. Unanswered'
  BY <1>3, <1>4, <1>5 DEF IInv, Unanswered
<1>8. AnsweredInTurn'
  BY <1>1, <1>3, <1>4, <1>5 DEF IInv, AnsweredInTurn
<1>9. Asked'
  BY <1>1, <1>3, <1>4 DEF IInv, Asked
<1>10. FlowsDiffer'
  BY <1>1, <1>3 DEF IInv, FlowsDiffer
<1> QED BY <1>2, <1>6, <1>7, <1>8, <1>9, <1>10 DEF IInv

\* find_link4 returns the first link that matches, and NULL only without one.
LEMMA FirstFacts ==
    ASSUME TypeOK, NEW I \in SUBSET (1..Len(links))
    PROVE  /\ First(I) = NULL <=> I = {}
           /\ I # {} => \E i \in I : First(I) = links[i] /\ \A j \in I : i <= j
<1>1. CASE I = {}
  BY <1>1 DEF First
<1>2. CASE I # {}
  <2>1. I \in SUBSET Nat
    OBVIOUS
  <2>2. Min(I) \in I /\ \A j \in I : Min(I) <= j
    BY <1>2, <2>1, MinFacts
  <2>3. First(I) = links[Min(I)]
    BY <1>2 DEF First
  <2>4. links[Min(I)] \in Links
    <3>1. PICK m \in 1..Len(links) : m = Min(I)
      BY <2>2
    <3>2. links \in Seq(Links)
      BY DEF TypeOK
    <3>3. links[m] \in Links
      BY <3>1, <3>2
    <3> QED BY <3>1, <3>3
  <2>5. NULL \notin Links
    BY NullAssumption DEF Links
  <2> QED BY <1>2, <2>2, <2>3, <2>4, <2>5
<1> QED BY <1>1, <1>2

\* What find_link returns is a live link.
LEMMA FirstLive ==
    ASSUME TypeOK, NEW I \in SUBSET (1..Len(links)), First(I) # NULL
    PROVE  First(I) \in Links /\ Live(First(I))
<1>1. PICK i \in 1..Len(links) : First(I) = links[i]
  BY FirstFacts
<1>2. DOMAIN links = 1..Len(links) /\ links[i] \in Links
  BY DEF TypeOK
<1> QED BY <1>1, <1>2 DEF Live

\* A packet of a link that was found goes on with it.
LEMMA TakeKeeps ==
    ASSUME IInv, NextPacket, NEW l \in Links, Live(l), Take(l),
           UNCHANGED <<table, mQueue, java, mVpnTunnelCtx, flushing, written, undefined>>
    PROVE  IInv'
<1> USE DEF table
<1>1. npackets \in Nat /\ npackets < MaxPackets /\ npackets' = npackets + 1 /\ router.at = "idle"
  BY DEF IInv, TypeOK, NextPacket, RouterAt
<1>2. npackets' \in Packets /\ npackets' \in 0..MaxPackets
  BY <1>1, NumbersAssumption DEF Packets
<1>3. router' \in RouterStates
  BY <1>2 DEF Take, RouterStates, Links
<1>4. taken' \subseteq Packets
  BY <1>2 DEF Take, IInv, TypeOK
<1>5. TypeOK'
  BY <1>1, <1>3, <1>4 DEF IInv, TypeOK
<1>6. router'.at = "rewrite" /\ router'.pkt = npackets' /\ router'.link = l
  BY DEF Take
<1>7. Bounded'
  BY <1>1, NumbersAssumption DEF IInv, Bounded
<1>8. InHand'
  BY <1>1, <1>6 DEF IInv, InHand, JavaHas
<1>9. Held'
  BY <1>6, SameTable DEF Held
<1> QED BY <1>1, <1>5, <1>6, <1>7, <1>8, <1>9, RouterAside DEF Aside

\* A packet of the device finds its link, opens one or is dropped.
LEMMA SendOutgoingKeeps ==
    ASSUME IInv, NEW f \in Flows, SendOutgoing(f)
    PROVE  IInv'
<1> USE DEF table
<1> DEFINE I == {i \in DOMAIN links : link[links[i]].flow = f}
<1>1. TypeOK /\ links \in Seq(Links) /\ DOMAIN links = 1..Len(links)
  BY DEF IInv, TypeOK
<1>2. I \in SUBSET (1..Len(links)) /\ FindOutgoing(f) = First(I)
  BY <1>1 DEF FindOutgoing
<1>3. CASE FindOutgoing(f) # NULL
  <2>1. FindOutgoing(f) \in Links /\ Live(FindOutgoing(f))
    <3> HIDE DEF I
    <3> QED BY <1>1, <1>2, <1>3, FirstLive
  <2>2. NextPacket /\ Take(FindOutgoing(f))
    BY <1>3 DEF SendOutgoing
  <2>3. UNCHANGED <<table, mQueue, java, mVpnTunnelCtx, flushing, written, undefined>>
    BY DEF SendOutgoing
  <2> QED BY <2>1, <2>2, <2>3, TakeKeeps
<1>4. CASE FindOutgoing(f) = NULL
  <2>1. npackets \in Nat /\ npackets < MaxPackets /\ npackets' = npackets + 1 /\ router.at = "idle"
    BY DEF SendOutgoing, IInv, TypeOK, NextPacket, RouterAt
  <2>2. \/ router' = Idle
        \/ router' = [at |-> "create", pkt |-> npackets', flow |-> f, link |-> 0]
    BY <1>4 DEF SendOutgoing
  <2>3. UNCHANGED <<table, mQueue, java, mVpnTunnelCtx, flushing, history, undefined>>
    BY <1>4 DEF SendOutgoing, history
  <2>4. router' \in RouterStates
    BY <2>1, <2>2, NumbersAssumption DEF RouterStates, Idle
  <2>5. TypeOK'
    BY <2>1, <2>3, <2>4 DEF IInv, TypeOK, history
  <2>6. Bounded'
    BY <2>1, <2>3, NumbersAssumption DEF IInv, Bounded
  <2>7. InHand'
    BY <2>1, <2>2, <2>3 DEF IInv, InHand, JavaHas, Idle
  <2>8. router'.at \in {"idle", "create"} /\ (router'.at = "create" => router'.flow = f)
    BY <2>2 DEF Idle
  <2>9. Held'
    BY <2>8 DEF Held
  <2>10. \A l \in Links : Live(l) => link[l].flow # f
    <3>1. I = {}
      <4> HIDE DEF I
      <4> QED BY <1>1, <1>2, <1>4, FirstFacts
    <3> QED BY <3>1 DEF Live
  <2> QED BY <2>1, <2>3, <2>5, <2>6, <2>7, <2>8, <2>9, <2>10, RouterAside DEF Aside
<1> QED BY <1>3, <1>4

\* A packet of the relay finds its link or is dropped.
LEMMA SendIncomingKeeps ==
    ASSUME IInv, NEW src, NEW hop, SendIncoming(src, hop)
    PROVE  IInv'
<1> USE DEF table
<1> DEFINE I == {i \in DOMAIN links : /\ SourceOf[link[links[i]].flow] = src
                                      /\ link[links[i]].hop_port = hop}
<1>1. TypeOK /\ links \in Seq(Links) /\ DOMAIN links = 1..Len(links)
  BY DEF IInv, TypeOK
<1>2. I \in SUBSET (1..Len(links)) /\ FindIncoming(src, hop) = First(I)
  BY <1>1 DEF FindIncoming
<1>3. CASE FindIncoming(src, hop) # NULL
  <2>1. FindIncoming(src, hop) \in Links /\ Live(FindIncoming(src, hop))
    <3> HIDE DEF I
    <3> QED BY <1>1, <1>2, <1>3, FirstLive
  <2>2. NextPacket /\ Take(FindIncoming(src, hop))
    BY <1>3 DEF SendIncoming
  <2>3. UNCHANGED <<table, mQueue, java, mVpnTunnelCtx, flushing, written, undefined>>
    BY DEF SendIncoming
  <2> QED BY <2>1, <2>2, <2>3, TakeKeeps
<1>4. CASE FindIncoming(src, hop) = NULL
  <2>1. npackets \in Nat /\ npackets < MaxPackets /\ npackets' = npackets + 1 /\ router.at = "idle"
    BY DEF SendIncoming, IInv, TypeOK, NextPacket, RouterAt
  <2>2. router' = router
    BY <1>4 DEF SendIncoming
  <2>3. UNCHANGED <<table, mQueue, java, mVpnTunnelCtx, flushing, history, undefined>>
    BY <1>4 DEF SendIncoming, history
  <2>4. TypeOK'
    BY <2>1, <2>2, <2>3 DEF IInv, TypeOK, history
  <2>5. Bounded'
    BY <2>1, <2>3, NumbersAssumption DEF IInv, Bounded
  <2>6. InHand'
    BY <2>1, <2>2, <2>3 DEF IInv, InHand, JavaHas
  <2>7. Held'
    BY <2>1, <2>2 DEF Held
  <2> QED BY <2>1, <2>2, <2>3, <2>4, <2>5, <2>6, <2>7, RouterAside DEF Aside
<1> QED BY <1>3, <1>4

\* A link that cannot be created leaves nothing behind.
LEMMA CreateFailsKeeps ==
    ASSUME IInv, CreateFails
    PROVE  IInv'
<1>1. /\ router.at = "create" /\ router' = Idle
      /\ UNCHANGED <<table, npackets, mQueue, java, mVpnTunnelCtx, flushing, history, undefined>>
  BY DEF CreateFails, RouterAt
<1>2. router' \in RouterStates
  BY <1>1, NumbersAssumption DEF RouterStates, Idle
<1>3. TypeOK' /\ Bounded'
  BY <1>1, <1>2 DEF IInv, TypeOK, Bounded, table, history
<1>4. router'.at = "idle"
  BY <1>1 DEF Idle
<1>5. InHand' /\ Held'
  BY <1>1, <1>4 DEF IInv, InHand, Held, JavaHas
<1> QED BY <1>1, <1>3, <1>4, <1>5, RouterAside DEF Aside

\* A packet written at once leaves the links alone.
LEMMA WriteKeeps ==
    ASSUME IInv, Write
    PROVE  IInv'
<1>1. /\ router.at = "write" /\ router' = Idle
      /\ UNCHANGED <<table, npackets, mQueue, java, mVpnTunnelCtx, flushing, taken, undefined>>
  BY DEF Write, RouterAt
<1>2. router' \in RouterStates
  BY <1>1, NumbersAssumption DEF RouterStates, Idle
<1>3. written' \in Seq(Packets)
  <2>1. router.pkt = npackets /\ npackets \in Packets
    BY <1>1 DEF IInv, InHand, Bounded, TypeOK, Packets
  <2> QED BY <2>1 DEF Write, IInv, TypeOK
<1>4. TypeOK' /\ Bounded'
  BY <1>1, <1>2, <1>3 DEF IInv, TypeOK, Bounded, table
<1>5. router'.at = "idle"
  BY <1>1 DEF Idle
<1>6. InHand' /\ Held'
  BY <1>1, <1>5 DEF IInv, InHand, Held, JavaHas
<1> QED BY <1>1, <1>4, <1>5, <1>6, RouterAside DEF Aside

\* Steps that change neither the table, nor the router, nor the requests.
LEMMA RequestsStay ==
    ASSUME IInv, TypeOK', UNCHANGED <<table, npackets, router, mQueue, java>>,
           mVpnTunnelCtx' => mVpnTunnelCtx
    PROVE  IInv'
<1>1. \A l \in Links : Requested(l)' <=> Requested(l)
  BY DEF Requested, JavaHas
<1>2. InHand' /\ InTurn'
  BY DEF IInv, InHand, InTurn, JavaHas, table
<1> QED BY <1>1, <1>2, RequestsShrink

\* Writing a detached queue leaves the links alone.
LEMMA FlushKeeps ==
    ASSUME IInv, NEW t \in Threads, Flush(t)
    PROVE  IInv'
<1>1. flushing \in [Threads -> Seq(Packets)] /\ written \in Seq(Packets)
  BY DEF IInv, TypeOK
<1>2. PICK q \in Seq(Packets) : q = flushing[t]
  BY <1>1
<1>3. q # <<>> /\ Head(q) \in Packets /\ Tail(q) \in Seq(Packets)
  BY <1>2 DEF Flush
<1>4. flushing' \in [Threads -> Seq(Packets)]
  BY <1>1, <1>2, <1>3 DEF Flush
<1>5. written' \in Seq(Packets)
  BY <1>1, <1>2, <1>3 DEF Flush
<1>6. UNCHANGED <<table, npackets, router, mQueue, java, mVpnTunnelCtx, taken, undefined>>
  BY DEF Flush
<1>7. TypeOK'
  BY <1>4, <1>5, <1>6 DEF IInv, TypeOK, table
<1> QED BY <1>6, <1>7, RequestsStay

\* Without a context no answer is promised.
LEMMA TerminateConnectionKeeps ==
    ASSUME IInv, TerminateConnection
    PROVE  IInv'
<1>1. TypeOK'
  BY DEF TerminateConnection, IInv, TypeOK, table, history
<1> QED BY <1>1, RequestsStay DEF TerminateConnection

\* A step that changes nothing keeps everything.
LEMMA StutterKeeps ==
    ASSUME IInv, UNCHANGED vars
    PROVE  IInv'
<1>1. TypeOK'
  BY DEF vars, IInv, TypeOK, table, history
<1> QED BY <1>1, RequestsStay DEF vars

\* Java gives up the request it has in hand.
LEMMA JavaDrops ==
    ASSUME IInv, java' \in JavaStates, java'.at \in {"poll", "ended"}, mVpnTunnelCtx' = FALSE,
           UNCHANGED <<table, npackets, router, mQueue, flushing, history, undefined>>
    PROVE  IInv'
<1>1. TypeOK'
  BY DEF IInv, TypeOK, table, history
<1>2. ~JavaHas'
  BY DEF JavaHas
<1>3. InHand' /\ InTurn'
  BY <1>2 DEF IInv, InHand, InTurn, table
<1>4. \A l \in Links : Requested(l)' => Requested(l)
  BY <1>2 DEF Requested
<1> QED BY <1>1, <1>3, <1>4, RequestsShrink

\* The end of the loop forgets the request in hand.
LEMMA JavaFailsKeeps ==
    ASSUME IInv, JavaFails
    PROVE  IInv'
<1>1. java' \in JavaStates /\ java'.at = "ended"
  BY NumbersAssumption DEF JavaFails, JavaStates
<1> QED BY <1>1, JavaDrops DEF JavaFails

\* An answer keeps the request in hand, or drops it without a context.
LEMMA JavaReplyKeeps ==
    ASSUME IInv, NEW pid \in ForkResults, JavaReply(pid)
    PROVE  IInv'
<1>0. java \in JavaStates /\ java.at = "cmd" /\ JavaHas
  BY DEF IInv, TypeOK, JavaReply, JavaAt, JavaHas
<1>1. CASE mVpnTunnelCtx
  <2>1. java' = [java EXCEPT !.at = "setpid", !.pid = pid]
    BY <1>1 DEF JavaReply
  <2>2. java' \in JavaStates /\ java'.link = java.link /\ java'.at = "setpid"
    BY <1>0, <2>1 DEF JavaStates, ForkResults
  <2>3. UNCHANGED <<table, npackets, router, mQueue, mVpnTunnelCtx, flushing, history, undefined>>
    BY DEF JavaReply
  <2>4. TypeOK'
    BY <2>2, <2>3 DEF IInv, TypeOK, table, history
  <2>5. JavaHas'
    BY <2>2 DEF JavaHas
  <2>6. \A l \in Links : Requested(l)' <=> Requested(l)
    BY <1>0, <2>2, <2>3, <2>5 DEF Requested
  <2>7. InHand' /\ InTurn'
    BY <1>0, <2>2, <2>3, <2>5 DEF IInv, InHand, InTurn, table
  <2> QED BY <2>3, <2>4, <2>6, <2>7, RequestsShrink
<1>2. CASE ~mVpnTunnelCtx
  <2>1. java' \in JavaStates /\ java'.at = "poll"
    BY <1>2, NumbersAssumption DEF JavaReply, JavaStates
  <2>2. mVpnTunnelCtx' = FALSE
    BY <1>2 DEF JavaReply, IInv, TypeOK
  <2> QED BY <2>1, <2>2, JavaDrops DEF JavaReply
<1> QED BY <1>1, <1>2

\* Java takes the oldest request, and skips one to port 0.
LEMMA JavaPollKeeps ==
    ASSUME IInv, JavaPoll
    PROVE  IInv'
<1>1. PICK q \in Seq(Links) : q = mQueue /\ q # <<>>
  BY DEF IInv, TypeOK, JavaPoll
<1>2. PICK m \in Seq(Links) : m = mQueue' /\ m = Tail(q)
  BY <1>1 DEF JavaPoll
<1>3. /\ Len(m) = Len(q) - 1 /\ Len(q) \in Nat /\ Len(q) > 0
      /\ \A i \in 1..Len(m) : i + 1 \in 1..Len(q) /\ m[i] = q[i + 1]
  BY <1>1, <1>2
<1>4. PICK h \in Links : h = Head(q) /\ h = q[1]
  BY <1>1
<1>5. java \in JavaStates /\ java.at = "poll" /\ ~JavaHas
  BY DEF IInv, TypeOK, JavaPoll, JavaAt, JavaHas
<1>6. UNCHANGED <<table, npackets, router, mVpnTunnelCtx, flushing, history, undefined>>
  BY DEF JavaPoll
<1>7. /\ \A i, j \in 1..Len(q) : i < j => q[i] < q[j]
      /\ router.at = "build" => \A i \in 1..Len(q) : q[i] < router.link
  BY <1>1 DEF IInv, InTurn
<1>8. /\ \A i, j \in 1..Len(m) : i < j => m[i] < m[j]
      /\ router.at = "build" => \A i \in 1..Len(m) : m[i] < router.link
      /\ \A i \in 1..Len(m) : h < m[i]
      /\ router.at = "build" => h < router.link
  <2>1. 1 \in 1..Len(q) /\ \A i \in 1..Len(m) : 1 < i + 1
    BY <1>3
  <2>2. \A i, j \in 1..Len(m) : i < j => i + 1 < j + 1
    BY <1>3
  <2>3. \A i, j \in 1..Len(m) : i < j => m[i] < m[j]
    BY <1>3, <1>7, <2>2
  <2>4. \A i \in 1..Len(m) : h < m[i]
    BY <1>3, <1>4, <1>7, <2>1
  <2>5. router.at = "build" => h < router.link /\ \A i \in 1..Len(m) : m[i] < router.link
    BY <1>3, <1>4, <1>7, <2>1
  <2> QED BY <2>3, <2>4, <2>5
<1>9. ASSUME NEW l \in Links
      PROVE  /\ (\E i \in 1..Len(m) : m[i] = l) => Requested(l)
             /\ Requested(l) <=> \/ h = l
                                 \/ \E i \in 1..Len(m) : m[i] = l
                                 \/ router.at = "build" /\ router.link = l
  <2>1. Requested(l) <=> \/ \E i \in 1..Len(q) : q[i] = l
                         \/ router.at = "build" /\ router.link = l
    BY <1>1, <1>5 DEF Requested
  <2>2. (\E i \in 1..Len(q) : q[i] = l) <=> h = l \/ \E i \in 1..Len(m) : m[i] = l
    <3>1. ASSUME NEW i \in 1..Len(q), q[i] = l, h # l
          PROVE  \E n \in 1..Len(m) : m[n] = l
      <4>1. i - 1 \in 1..Len(m) /\ i = (i - 1) + 1
        BY <1>3, <1>4, <3>1
      <4> QED BY <1>3, <3>1, <4>1
    <3>2. 1 \in 1..Len(q)
      BY <1>3
    <3> QED BY <1>3, <1>4, <3>1, <3>2
  <2> QED BY <2>1, <2>2
<1>10. CASE link[h].flow \in PortZero
  <2>1. java' = java
    BY <1>1, <1>4, <1>10 DEF JavaPoll
  <2>2. TypeOK'
    BY <1>2, <1>6, <2>1 DEF IInv, TypeOK, table, history
  <2>3. InHand' /\ InTurn'
    BY <1>2, <1>5, <1>6, <1>8, <2>1 DEF IInv, InHand, InTurn, JavaHas, table
  <2>4. ASSUME NEW l \in Links
        PROVE  Requested(l)' <=> \/ \E i \in 1..Len(m) : m[i] = l
                                 \/ router.at = "build" /\ router.link = l
    BY <1>2, <1>5, <1>6, <2>1 DEF Requested, JavaHas
  <2> QED BY <1>6, <1>9, <1>10, <2>2, <2>3, <2>4, RequestsShrink
<1>11. CASE link[h].flow \notin PortZero
  <2>1. java' = [java EXCEPT !.at = "cmd", !.link = h]
    BY <1>1, <1>4, <1>11 DEF JavaPoll
  <2>2. java' \in JavaStates /\ java'.at = "cmd" /\ java'.link = h
    <3>1. h \in 0..MaxLinks
      BY NumbersAssumption DEF Links
    <3> QED BY <1>5, <2>1, <3>1 DEF JavaStates
  <2>3. TypeOK'
    BY <1>2, <1>6, <2>2 DEF IInv, TypeOK, table, history
  <2>4. JavaHas'
    BY <2>2 DEF JavaHas
  <2>5. InHand' /\ InTurn'
    BY <1>2, <1>6, <1>8, <2>2, <2>4 DEF IInv, InHand, InTurn, table
  <2>6. ASSUME NEW l \in Links
        PROVE  Requested(l)' <=> \/ h = l
                                 \/ \E i \in 1..Len(m) : m[i] = l
                                 \/ router.at = "build" /\ router.link = l
    BY <1>2, <1>6, <2>2, <2>4 DEF Requested
  <2> QED BY <1>6, <1>9, <2>3, <2>5, <2>6, RequestsShrink
<1> QED BY <1>10, <1>11

-----------------------------------------------------------------------------
(* The build of a link. *)

\* A request is of a link in the list, and that of one created before.
LEMMA RequestedKnown ==
    ASSUME IInv, NEW l \in Links, Live(l) \/ Requested(l)
    PROVE  Live(l) /\ l <= nlinks
<1>1. Live(l)
  BY DEF IInv, Unanswered, Waiting
<1>2. PICK i \in 1..Len(links) : links[i] = l
  BY <1>1, PositionFacts DEF IInv
<1> QED BY <1>1, <1>2 DEF IInv, Descending

\* An element put in front of a sequence.
LEMMA Prepended ==
    ASSUME NEW U, NEW s \in Seq(U), NEW x \in U
    PROVE  /\ <<x>> \o s \in Seq(U) /\ Len(<<x>> \o s) = Len(s) + 1
           /\ (<<x>> \o s)[1] = x
           /\ \A i \in 1..Len(s) : (<<x>> \o s)[i + 1] = s[i]
<1>1. <<x>> \in Seq(U) /\ Len(<<x>>) = 1 /\ <<x>>[1] = x
  OBVIOUS
<1>2. PICK z \in Seq(U) : z = <<x>> /\ Len(z) = 1 /\ z[1] = x
  BY <1>1
<1>3. z \o s \in Seq(U) /\ Len(z \o s) = Len(s) + 1
  BY <1>2
<1>4. (z \o s)[1] = x
  BY <1>2
<1>5. ASSUME NEW i \in 1..Len(s)
      PROVE  (z \o s)[i + 1] = s[i]
  <2>1. i + 1 \in 1..(Len(z) + Len(s)) /\ i + 1 > Len(z) /\ (i + 1) - Len(z) = i
    BY <1>2
  <2> QED BY <1>2, <2>1
<1> QED BY <1>2, <1>3, <1>4, <1>5

\* The new link is the newest, with a flow and a port of its own.
LEMMA AddLinkKeeps ==
    ASSUME IInv, NEW hop \in FreePorts, AddLink(hop)
    PROVE  IInv'
<1>1. PICK n \in Links : n = nlinks' /\ n = nlinks + 1 /\ nlinks \in Nat
  BY NumbersAssumption DEF AddLink, IInv, TypeOK, Links
<1>2. /\ router \in RouterStates /\ router.at = "create" /\ router.flow \in Flows
      /\ router.pkt = npackets /\ npackets > 0
  BY DEF AddLink, RouterAt, IInv, TypeOK, InHand
<1>3. PICK r : r = NewLink(router.flow, hop)
  OBVIOUS
<1>4. /\ r.flow = router.flow /\ r.hop_port = hop /\ r.socat_pid = 0
      /\ r.enqueue_packets = TRUE /\ r.queue = <<>> /\ r.cycles_to_live = 0
  BY <1>3 DEF NewLink
<1>5. r \in NatLinks
  <2>1. hop \in Ports /\ <<>> \in Seq(Packets)
    BY DEF FreePorts
  <2> QED BY <1>2, <1>3, <2>1 DEF NewLink, NatLinks
<1>6. /\ link \in [Links -> NatLinks] /\ link' = [link EXCEPT ![n] = r]
      /\ link' \in [Links -> NatLinks]
  BY <1>1, <1>3, <1>5 DEF AddLink, IInv, TypeOK
<1>7. link'[n] = r /\ \A k \in Links : k # n => link'[k] = link[k]
  BY <1>6
<1>8. router' = [router EXCEPT !.at = "build", !.link = n, !.flow = NULL]
  BY <1>1 DEF AddLink
<1>9. /\ router' \in RouterStates /\ router'.at = "build" /\ router'.link = n
      /\ router'.pkt = router.pkt
  <2>1. n \in 0..MaxLinks
    BY NumbersAssumption DEF Links
  <2> QED BY <1>2, <1>8, <2>1 DEF RouterStates
<1>10. UNCHANGED <<npackets, mQueue, java, mVpnTunnelCtx, flushing, history, undefined>>
  BY DEF AddLink
<1>11. links \in Seq(Links) /\ links' = <<n>> \o links
  BY <1>1 DEF AddLink, IInv, TypeOK
<1>12. PICK q \in Seq(Links) :
         /\ q = links' /\ Len(q) = Len(links) + 1 /\ q[1] = n
         /\ \A i \in 1..Len(links) : q[i + 1] = links[i]
  <2>1. /\ <<n>> \o links \in Seq(Links) /\ Len(<<n>> \o links) = Len(links) + 1
        /\ (<<n>> \o links)[1] = n
        /\ \A i \in 1..Len(links) : (<<n>> \o links)[i + 1] = links[i]
    BY <1>11, Prepended
  <2> QED BY <1>11, <2>1
<1>13. /\ Len(links) \in Nat /\ 1 \in 1..Len(q) /\ DOMAIN q = 1..Len(q)
        /\ DOMAIN links = 1..Len(links)
        /\ \A i \in 1..Len(links) : i + 1 \in 1..Len(q)
  BY <1>11, <1>12
<1>14. ASSUME NEW i \in 1..Len(q), i # 1
       PROVE  \E j \in 1..Len(links) : i = j + 1 /\ q[i] = links[j]
  <2>1. PICK j \in 1..Len(links) : i = j + 1
    <3>1. i - 1 \in 1..Len(links) /\ i = (i - 1) + 1
      BY <1>12, <1>13, <1>14
    <3> QED BY <3>1
  <2> QED BY <1>12, <2>1
<1>15. TypeOK'
  BY <1>1, <1>6, <1>9, <1>10, <1>12 DEF IInv, TypeOK, history
<1>16. \A k \in Links : Live(k) \/ Requested(k) => Live(k) /\ k < n
  <2>1. \A k \in Links : k \in Nat
    BY DEF Links
  <2> QED BY <1>1, <2>1, RequestedKnown
<1>17. ASSUME NEW k \in Links
       PROVE  Live(k)' <=> Live(k) \/ k = n
  <2>1. Live(k)' <=> \E i \in 1..Len(q) : q[i] = k
    BY <1>12, <1>13 DEF Live
  <2>2. Live(k) <=> \E i \in 1..Len(links) : links[i] = k
    BY <1>13 DEF Live
  <2>3. ASSUME NEW i \in 1..Len(links), links[i] = k
        PROVE  \E j \in 1..Len(q) : q[j] = k
    BY <1>12, <1>13, <2>3
  <2>4. ASSUME NEW i \in 1..Len(q), q[i] = k, k # n
        PROVE  \E j \in 1..Len(links) : links[j] = k
    <3>1. i # 1
      BY <1>12, <2>4
    <3> QED BY <1>14, <2>4, <3>1
  <2>5. q[1] = n /\ 1 \in 1..Len(q)
    BY <1>12, <1>13
  <2> QED BY <2>1, <2>2, <2>3, <2>4, <2>5
<1>18. ASSUME NEW k \in Links
       PROVE  Requested(k)' <=> Requested(k) \/ k = n
  BY <1>2, <1>9, <1>10 DEF Requested, JavaHas
<1>19. \A k \in Links : ~Thrown(k)
  BY <1>2 DEF Thrown
<1>20. Bounded'
  BY <1>1, <1>10 DEF IInv, Bounded, Links
<1>21. InHand'
  BY <1>1, <1>2, <1>9, <1>10 DEF IInv, InHand, JavaHas
<1>22. Descending'
  <2>1. /\ \A i, j \in 1..Len(links) : i < j => links[j] < links[i]
        /\ \A i \in 1..Len(links) : links[i] <= nlinks
    BY DEF IInv, Descending
  <2>2. \A i \in 1..Len(links) : links[i] \in Nat
    <3>1. \A i \in 1..Len(links) : links[i] \in Links
      BY <1>11
    <3>2. \A k \in Links : k \in Nat
      BY DEF Links
    <3> QED BY <3>1, <3>2
  <2>3. ASSUME NEW i \in 1..Len(q)
        PROVE  q[i] <= n /\ (i # 1 => q[i] < n)
    <3>1. CASE i = 1
      BY <1>1, <1>12, <3>1
    <3>2. CASE i # 1
      <4>1. PICK j \in 1..Len(links) : q[i] = links[j]
        BY <1>14, <3>2
      <4> QED BY <1>1, <2>1, <2>2, <4>1
    <3> QED BY <3>1, <3>2
  <2>4. ASSUME NEW i \in 1..Len(q), NEW j \in 1..Len(q), i < j
        PROVE  q[j] < q[i]
    <3>1. j # 1
      BY <2>4
    <3>2. CASE i = 1
      BY <1>12, <2>3, <3>1, <3>2
    <3>3. CASE i # 1
      <4>1. PICK a \in 1..Len(links) : i = a + 1 /\ q[i] = links[a]
        BY <1>14, <3>3
      <4>2. PICK b \in 1..Len(links) : j = b + 1 /\ q[j] = links[b]
        BY <1>14, <3>1
      <4>3. a < b
        BY <2>4, <4>1, <4>2
      <4> QED BY <2>1, <4>1, <4>2, <4>3
    <3> QED BY <3>2, <3>3
  <2> QED BY <1>1, <1>12, <2>3, <2>4 DEF Descending
<1>23. InTurn'
  <2>1. mQueue \in Seq(Links)
    BY DEF IInv, TypeOK
  <2>2. \A i \in 1..Len(mQueue) : mQueue[i] \in Links /\ Requested(mQueue[i])
    BY <2>1 DEF Requested
  <2>3. JavaHas => java.link \in Links /\ Requested(java.link)
    BY DEF IInv, InHand, Requested
  <2> QED BY <1>9, <1>10, <1>16, <2>2, <2>3 DEF IInv, InTurn, JavaHas
<1>24. Unanswered'
  <2>1. ASSUME NEW k \in Links, Requested(k)'
        PROVE  Waiting(k)'
    BY <1>4, <1>7, <1>16, <1>17, <1>18, <2>1 DEF IInv, Unanswered, Waiting
  <2> QED BY <1>9, <2>1 DEF Unanswered
<1>25. AnsweredInTurn'
  BY <1>4, <1>7, <1>16, <1>17, <1>18, <1>19 DEF IInv, AnsweredInTurn
<1>26. Queues'
  <2>1. r.queue # NULL
    <3>1. <<>> \in Seq(1..MaxPackets)
      OBVIOUS
    <3> QED BY <1>4, <3>1, NullAssumption
  <2> QED BY <1>4, <1>7, <2>1 DEF IInv, Queues
<1>27. Asked'
  BY <1>2, <1>7, <1>10, <1>17, <1>18 DEF IInv, Asked
<1>28. Held'
  BY <1>9 DEF Held
<1>29. FlowsDiffer'
  <2>1. \A k \in Links : Live(k)' => link'[k].flow \in Flows
    BY <1>2, <1>4, <1>7, <1>17 DEF IInv, FlowsDiffer
  <2>2. \A k, l \in Links : Live(k)' /\ Live(l)' /\ link'[k].flow = link'[l].flow => k = l
    BY <1>2, <1>4, <1>7, <1>17 DEF IInv, FlowsDiffer
  <2> QED BY <1>9, <2>1, <2>2 DEF FlowsDiffer
<1>30. PortsDiffer'
  <2>1. ASSUME NEW k \in Links, NEW l \in Links, Live(k)', l < k, link'[l].open
        PROVE  link'[k].hop_port # link'[l].hop_port
    <3>1. k <= n /\ k \in Nat /\ l \in Nat /\ l # n
      BY <1>16, <1>17, <2>1 DEF Links
    <3>2. CASE k = n
      BY <1>4, <1>7, <2>1, <3>1, <3>2 DEF FreePorts
    <3>3. CASE k # n
      BY <1>7, <1>17, <2>1, <3>1, <3>3 DEF IInv, PortsDiffer
    <3> QED BY <3>2, <3>3
  <2> QED BY <2>1 DEF PortsDiffer
<1> QED BY <1>15, <1>20, <1>21, <1>22, <1>23, <1>24, <1>25, <1>26, <1>27, <1>28, <1>29, <1>30
     DEF IInv

\* The router moves on with its link; only whether it asks for it may change.
LEMMA RouterMoves ==
    ASSUME IInv, NEW a, a \in {"queued", "threw", "check", "failed", "rewrite"},
           router' = [router EXCEPT !.at = a], router.at \notin {"idle", "create", "rewrite"},
           router.at # "write"
    PROVE  /\ router' \in RouterStates /\ router'.at = a /\ router'.link = router.link
           /\ router'.pkt = router.pkt /\ router.pkt = npackets
           /\ router.link \in Links /\ router.link = nlinks
           /\ UNCHANGED <<nlinks, npackets, java>> => InHand'
<1>1. router \in RouterStates
  BY DEF IInv, TypeOK
<1>2. router.at \in {"build", "queued", "threw", "check", "failed"}
  BY <1>1 DEF RouterStates
<1>3. router.link \in Links /\ router.link = nlinks /\ router.pkt = npackets /\ npackets > 0
  BY <1>2 DEF IInv, InHand
<1>4. /\ router' \in RouterStates /\ router'.at = a /\ router'.link = router.link
      /\ router'.pkt = router.pkt
  BY <1>1 DEF RouterStates
<1>5. UNCHANGED <<nlinks, npackets, java>> => InHand'
  BY <1>3, <1>4 DEF IInv, InHand, JavaHas
<1> QED BY <1>3, <1>4, <1>5

\* The request of the newest link is the last of the queue.
LEMMA BuildKeeps ==
    ASSUME IInv, Build
    PROVE  IInv'
<1> USE DEF table
<1>1. router.at = "build" /\ router' = [router EXCEPT !.at = "queued"]
  BY DEF Build, RouterAt
<1>2. UNCHANGED <<table, npackets, java, mVpnTunnelCtx, flushing, history, undefined>>
  BY DEF Build
<1>3. /\ router' \in RouterStates /\ router'.at = "queued" /\ router'.link = router.link
      /\ router.link \in Links /\ InHand'
  BY <1>1, <1>2, RouterMoves
<1>4. PICK q \in Seq(Links) : q = mQueue
  BY DEF IInv, TypeOK
<1>5. PICK m \in Seq(Links) :
        /\ m = mQueue' /\ Len(m) = Len(q) + 1 /\ m[Len(q) + 1] = router.link
        /\ \A i \in 1..Len(q) : m[i] = q[i]
  BY <1>3, <1>4 DEF Build
<1>6. Len(q) \in Nat /\ \A i \in 1..Len(m) : i \in 1..Len(q) \/ i = Len(q) + 1
  BY <1>4, <1>5
<1>7. TypeOK' /\ Bounded'
  BY <1>2, <1>3, <1>5 DEF IInv, TypeOK, Bounded, history
<1>8. Descending' /\ Queues' /\ PortsDiffer' /\ \A l \in Links : Live(l)' <=> Live(l)
  BY <1>2, SameTable DEF IInv
<1>9. ASSUME NEW l \in Links
      PROVE  Requested(l)' <=> Requested(l)
  <2>1. (\E i \in 1..Len(m) : m[i] = l) <=> (\E i \in 1..Len(q) : q[i] = l) \/ router.link = l
    <3>1. Len(m) \in 1..Len(m) /\ \A i \in 1..Len(q) : i \in 1..Len(m)
      BY <1>5, <1>6
    <3> QED BY <1>5, <1>6, <3>1
  <2> QED BY <1>1, <1>2, <1>3, <1>4, <1>5, <2>1 DEF Requested, JavaHas
<1>10. InTurn'
  <2>1. /\ \A i, j \in 1..Len(q) : i < j => q[i] < q[j]
        /\ JavaHas => \A i \in 1..Len(q) : java.link < q[i]
        /\ JavaHas => java.link < router.link
        /\ \A i \in 1..Len(q) : q[i] < router.link
    BY <1>1, <1>4 DEF IInv, InTurn
  <2>2. /\ \A i, j \in 1..Len(m) : i < j => m[i] < m[j]
        /\ JavaHas => \A i \in 1..Len(m) : java.link < m[i]
    BY <1>5, <1>6, <2>1
  <2> QED BY <1>2, <1>3, <1>5, <2>2 DEF InTurn, JavaHas
<1>11. Unanswered'
  <2>1. \A l \in Links : Waiting(l) => Waiting(l)'
    BY <1>2, <1>8 DEF Waiting
  <2>2. Requested(router.link)
    BY <1>1 DEF Requested
  <2> QED BY <1>3, <1>9, <2>1, <2>2 DEF IInv, Unanswered
<1>12. AnsweredInTurn'
  <2>1. \A l \in Links : ~Thrown(l)
    BY <1>1 DEF Thrown
  <2> QED BY <1>2, <1>8, <1>9, <2>1 DEF IInv, AnsweredInTurn
<1>13. Asked'
  BY <1>1, <1>2, <1>8, <1>9 DEF IInv, Asked
<1>14. Held'
  BY <1>3 DEF Held
<1>15. FlowsDiffer'
  BY <1>2, <1>3, <1>8 DEF IInv, FlowsDiffer
<1> QED BY <1>3, <1>7, <1>8, <1>10, <1>11, <1>12, <1>13, <1>14, <1>15 DEF IInv

\* A build that threw has no request.
LEMMA BuildThrowsKeeps ==
    ASSUME IInv, BuildThrows
    PROVE  IInv'
<1> USE DEF table
<1>1. router.at = "build" /\ router' = [router EXCEPT !.at = "threw"]
  BY DEF BuildThrows, RouterAt
<1>2. UNCHANGED <<table, npackets, mQueue, java, mVpnTunnelCtx, flushing, history, undefined>>
  BY DEF BuildThrows
<1>3. /\ router' \in RouterStates /\ router'.at = "threw" /\ router'.link = router.link
      /\ router.link \in Links /\ InHand'
  BY <1>1, <1>2, RouterMoves
<1>4. TypeOK' /\ Bounded'
  BY <1>2, <1>3 DEF IInv, TypeOK, Bounded, history
<1>5. Descending' /\ Queues' /\ PortsDiffer' /\ \A l \in Links : Live(l)' <=> Live(l)
  BY <1>2, SameTable DEF IInv
<1>6. \A l \in Links : /\ Requested(l)' => Requested(l)
                       /\ Requested(l) => Requested(l)' \/ l = router.link
  BY <1>1, <1>2, <1>3 DEF Requested, JavaHas
<1>7. InTurn'
  BY <1>2, <1>3 DEF IInv, InTurn, JavaHas
<1>8. Unanswered'
  <2>1. \A l \in Links : Waiting(l) => Waiting(l)'
    BY <1>2, <1>5 DEF Waiting
  <2>2. Requested(router.link)
    BY <1>1 DEF Requested
  <2>3. ~Requested(router.link)'
    <3>1. \A k \in Links : ~(k < k)
      BY DEF Links
    <3>2. /\ JavaHas => java.link < router.link
          /\ \A i \in 1..Len(mQueue) : mQueue[i] < router.link
      BY <1>1 DEF IInv, InTurn
    <3>3. JavaHas' <=> JavaHas
      BY <1>2 DEF JavaHas
    <3> QED BY <1>2, <1>3, <3>1, <3>2, <3>3 DEF Requested
  <2> QED BY <1>3, <1>6, <2>1, <2>2, <2>3 DEF IInv, Unanswered
<1>9. AnsweredInTurn'
  <2>1. \A l \in Links : ~Thrown(l)
    BY <1>1 DEF Thrown
  <2> QED BY <1>2, <1>5, <1>6, <2>1 DEF IInv, AnsweredInTurn
<1>10. Asked'
  BY <1>1, <1>2, <1>3, <1>5, <1>6 DEF IInv, Asked
<1>11. Held'
  BY <1>3 DEF Held
<1>12. FlowsDiffer'
  BY <1>2, <1>3, <1>5 DEF IInv, FlowsDiffer
<1> QED BY <1>3, <1>4, <1>5, <1>7, <1>8, <1>9, <1>10, <1>11, <1>12 DEF IInv

\* A step that leaves the list alone keeps its order.
LEMMA SameList ==
    ASSUME UNCHANGED <<links, nlinks>>
    PROVE  (\A l \in Links : Live(l)' <=> Live(l)) /\ (Descending => Descending')
<1>1. \A l \in Links : Live(l)' <=> Live(l)
  BY DEF Live
<1>2. Descending => Descending'
  BY DEF Descending
<1> QED BY <1>1, <1>2

\* The result is stored in a link that has no answer yet.
LEMMA BuildReturnsKeeps ==
    ASSUME IInv, BuildReturns
    PROVE  IInv'
<1>1. router.at \in {"queued", "threw"} /\ router' = [router EXCEPT !.at = "check"]
  BY DEF BuildReturns, RouterAt
<1>2. UNCHANGED <<links, nlinks, npackets, mQueue, java, mVpnTunnelCtx,
                  flushing, history, undefined>>
  BY DEF BuildReturns
<1>3. /\ router' \in RouterStates /\ router'.at = "check" /\ router'.link = router.link
      /\ router.link \in Links /\ InHand'
  BY <1>1, <1>2, RouterMoves
<1>4. PICK m \in Links : m = router.link
  BY <1>3
<1>5. PICK r \in NatLinks : r = link[m]
  BY DEF IInv, TypeOK
<1>6. PICK p \in {-1, 0} : p = IF router.at = "threw" THEN -1 ELSE 0
  OBVIOUS
<1>7. PICK s \in NatLinks : s = [r EXCEPT !.socat_pid = p]
  BY <1>5 DEF NatLinks
<1>8. /\ s.flow = r.flow /\ s.hop_port = r.hop_port /\ s.open = r.open /\ s.socat_pid = p
      /\ s.enqueue_packets = r.enqueue_packets /\ s.queue = r.queue
      /\ s.cycles_to_live = r.cycles_to_live
  BY <1>5, <1>7 DEF NatLinks
<1>9. link \in [Links -> NatLinks] /\ link' = [link EXCEPT ![m] = s]
  BY <1>4, <1>5, <1>6, <1>7 DEF BuildReturns, IInv, TypeOK
<1>10. /\ link' \in [Links -> NatLinks] /\ link'[m] = s
       /\ \A k \in Links : k # m => link'[k] = link[k]
  BY <1>9
<1>11. TypeOK' /\ Bounded'
  BY <1>2, <1>3, <1>10 DEF IInv, TypeOK, Bounded, history
<1>12. Descending' /\ \A l \in Links : Live(l)' <=> Live(l)
  BY <1>2, SameList DEF IInv
<1>13. \A l \in Links : Requested(l)' <=> Requested(l)
  BY <1>1, <1>2, <1>3 DEF Requested, JavaHas
<1>14. Waiting(m)
  BY <1>1, <1>4 DEF IInv, Unanswered
<1>15. \A l \in Links : ~Thrown(l)
  BY <1>1 DEF Thrown
<1>16. InTurn'
  BY <1>2, <1>3 DEF IInv, InTurn, JavaHas
<1>17. Unanswered'
  <2>1. ASSUME NEW l \in Links, Requested(l)
        PROVE  Waiting(l)'
    <3>1. Waiting(l)
      BY <2>1 DEF IInv, Unanswered
    <3>2. CASE l # m
      BY <1>10, <1>12, <3>1, <3>2 DEF Waiting
    <3>3. CASE l = m
      <4>1. p = 0
        BY <1>4, <1>6, <2>1, <3>3 DEF IInv, Unanswered
      <4> QED BY <1>5, <1>8, <1>10, <1>12, <3>1, <3>3, <4>1 DEF Waiting
    <3> QED BY <3>2, <3>3
  <2> QED BY <1>3, <1>13, <2>1 DEF Unanswered
<1>18. AnsweredInTurn'
  <2>1. link'[m].socat_pid # 0 => Thrown(m)'
    BY <1>3, <1>4, <1>5, <1>8, <1>10, <1>14 DEF Thrown, Failed, Waiting
  <2> QED BY <1>10, <1>12, <1>13, <1>15, <2>1 DEF IInv, AnsweredInTurn
<1>19. Queues'
  BY <1>5, <1>8, <1>10 DEF IInv, Queues
<1>20. Asked'
  <2>1. ASSUME NEW l \in Links, Live(l)', link'[l].enqueue_packets
        PROVE  \/ Requested(l)' \/ ~mVpnTunnelCtx' \/ link'[l].flow \in PortZero
               \/ router'.link = l /\ router'.at = "check" /\ Failed(l)'
    <3>1. Live(l) /\ link[l].enqueue_packets /\ link'[l].flow = link[l].flow
      BY <1>5, <1>8, <1>10, <1>12, <2>1
    <3>2. \/ Requested(l) \/ ~mVpnTunnelCtx \/ link[l].flow \in PortZero
          \/ router.link = l /\ router.at = "threw"
      BY <1>1, <3>1 DEF IInv, Asked
    <3>3. router.link = l /\ router.at = "threw" => Failed(l)'
      BY <1>4, <1>6, <1>8, <1>10 DEF Failed
    <3> QED BY <1>2, <1>3, <1>13, <3>1, <3>2, <3>3
  <2> QED BY <2>1 DEF Asked
<1>21. Held'
  BY <1>3 DEF Held
<1>22. FlowsDiffer'
  <2>1. \A l \in Links : link'[l].flow = link[l].flow
    BY <1>5, <1>8, <1>10
  <2> QED BY <1>3, <1>12, <2>1 DEF IInv, FlowsDiffer
<1>23. PortsDiffer'
  <2>1. \A l \in Links : link'[l].hop_port = link[l].hop_port /\ link'[l].open = link[l].open
    BY <1>5, <1>8, <1>10
  <2> QED BY <1>12, <2>1 DEF IInv, PortsDiffer
<1> QED BY <1>3, <1>11, <1>12, <1>16, <1>17, <1>18, <1>19, <1>20, <1>21, <1>22, <1>23 DEF IInv

\* The check goes on, or closes the socket of a build that threw.
LEMMA CheckPidKeeps ==
    ASSUME IInv, CheckPid
    PROVE  IInv'
<1>1. router.at = "check" /\ router.link \in Links
  BY DEF CheckPid, RouterAt, IInv, InHand
<1>2. UNCHANGED <<links, nlinks, npackets, mQueue, java, mVpnTunnelCtx, flushing, written>>
  BY DEF CheckPid
<1>3. CASE ~Live(router.link)
  <2>1. undefined' = TRUE /\ UNCHANGED <<link, router, taken>>
    BY <1>3 DEF CheckPid
  <2>2. TypeOK'
    BY <1>2, <2>1 DEF IInv, TypeOK
  <2> QED BY <1>2, <2>1, <2>2, RequestsStay DEF table
<1>4. CASE Live(router.link) /\ Failed(router.link)
  <2>1. /\ link' = [link EXCEPT ![router.link].open = FALSE]
        /\ router' = [router EXCEPT !.at = "failed"] /\ UNCHANGED <<taken, undefined>>
    BY <1>4 DEF CheckPid
  <2>2. /\ router' \in RouterStates /\ router'.at = "failed" /\ router'.link = router.link
        /\ InHand'
    BY <1>1, <1>2, <2>1, RouterMoves
  <2>3. PICK m \in Links : m = router.link
    BY <1>1
  <2>4. PICK r \in NatLinks : r = link[m]
    BY DEF IInv, TypeOK
  <2>5. PICK s \in NatLinks : s = [r EXCEPT !.open = FALSE]
    BY <2>4 DEF NatLinks
  <2>6. /\ s.flow = r.flow /\ s.hop_port = r.hop_port /\ ~s.open /\ s.socat_pid = r.socat_pid
        /\ s.enqueue_packets = r.enqueue_packets /\ s.queue = r.queue
        /\ s.cycles_to_live = r.cycles_to_live
    BY <2>4, <2>5 DEF NatLinks
  <2>7. link \in [Links -> NatLinks] /\ link' = [link EXCEPT ![m] = s]
    BY <2>1, <2>3, <2>4, <2>5 DEF IInv, TypeOK
  <2>8. /\ link' \in [Links -> NatLinks] /\ link'[m] = s
        /\ \A k \in Links : k # m => link'[k] = link[k]
    BY <2>7
  <2>9. \A k \in Links :
          /\ link'[k].flow = link[k].flow /\ link'[k].hop_port = link[k].hop_port
          /\ link'[k].socat_pid = link[k].socat_pid
          /\ link'[k].enqueue_packets = link[k].enqueue_packets
          /\ link'[k].queue = link[k].queue /\ link'[k].cycles_to_live = link[k].cycles_to_live
          /\ link'[k].open => link[k].open
    BY <2>4, <2>6, <2>8
  <2>10. TypeOK' /\ Bounded'
    BY <1>2, <2>1, <2>2, <2>8 DEF IInv, TypeOK, Bounded
  <2>11. Descending' /\ \A l \in Links : Live(l)' <=> Live(l)
    BY <1>2, SameList DEF IInv
  <2>12. \A l \in Links : Requested(l)' <=> Requested(l)
    BY <1>1, <1>2, <2>2 DEF Requested, JavaHas
  <2>13. \A l \in Links : /\ Thrown(l) => Thrown(l)'
                          /\ Waiting(l) => Waiting(l)'
                          /\ Failed(l)' <=> Failed(l)
    BY <2>2, <2>9, <2>11 DEF Thrown, Waiting, Failed
  <2>14. InTurn'
    BY <1>2, <2>2 DEF IInv, InTurn, JavaHas
  <2>15. Unanswered'
    BY <2>2, <2>12, <2>13 DEF IInv, Unanswered
  <2>16. AnsweredInTurn'
    BY <2>9, <2>11, <2>12, <2>13 DEF IInv, AnsweredInTurn
  <2>17. Queues'
    BY <2>9 DEF IInv, Queues
  <2>18. Asked'
    BY <1>1, <1>2, <2>2, <2>9, <2>11, <2>12 DEF IInv, Asked
  <2>19. Held'
    BY <1>1, <1>4, <2>2, <2>13 DEF Held
  <2>20. FlowsDiffer'
    BY <2>2, <2>9, <2>11 DEF IInv, FlowsDiffer
  <2>21. PortsDiffer'
    BY <2>9, <2>11 DEF IInv, PortsDiffer
  <2> QED BY <2>2, <2>10, <2>11, <2>14, <2>15, <2>16, <2>17, <2>18, <2>19, <2>20, <2>21 DEF IInv
<1>5. CASE Live(router.link) /\ ~Failed(router.link)
  <2>1. /\ router' = [router EXCEPT !.at = "rewrite"]
        /\ taken' = taken \cup {router.pkt} /\ UNCHANGED <<link, undefined>>
    BY <1>5 DEF CheckPid
  <2>2. /\ router' \in RouterStates /\ router'.at = "rewrite" /\ router'.link = router.link
        /\ router.pkt = npackets /\ InHand'
    BY <1>1, <1>2, <2>1, RouterMoves
  <2>3. npackets \in Packets
    BY <1>1 DEF IInv, InHand, Bounded, TypeOK, Packets
  <2>4. TypeOK' /\ Bounded'
    BY <1>2, <2>1, <2>2, <2>3 DEF IInv, TypeOK, Bounded
  <2>5. Descending' /\ Queues' /\ PortsDiffer' /\ \A l \in Links : Live(l)' <=> Live(l)
    BY <1>2, <2>1, SameTable DEF IInv, table
  <2>6. \A l \in Links : Requested(l)' <=> Requested(l)
    BY <1>1, <1>2, <2>2 DEF Requested, JavaHas
  <2>7. \A l \in Links : ~Thrown(l) /\ (Waiting(l) => Waiting(l)')
    BY <1>5, <2>1, <2>5 DEF Thrown, Waiting
  <2>8. InTurn'
    BY <1>2, <2>2 DEF IInv, InTurn, JavaHas
  <2>9. Unanswered'
    BY <2>2, <2>6, <2>7 DEF IInv, Unanswered
  <2>10. AnsweredInTurn'
    BY <2>1, <2>5, <2>6, <2>7 DEF IInv, AnsweredInTurn
  <2>11. Asked'
    BY <1>1, <1>2, <1>5, <2>1, <2>5, <2>6 DEF IInv, Asked
  <2>12. Held'
    BY <1>1, <1>5, <2>2, <2>5 DEF Held
  <2>13. FlowsDiffer'
    BY <2>1, <2>2, <2>5 DEF IInv, FlowsDiffer
  <2> QED BY <2>2, <2>4, <2>5, <2>8, <2>9, <2>10, <2>11, <2>12, <2>13 DEF IInv
<1> QED BY <1>3, <1>4, <1>5

\* A packet is queued only in a link that queues.
LEMMA RewriteKeeps ==
    ASSUME IInv, Rewrite
    PROVE  IInv'
<1>1. router.at = "rewrite" /\ router.link \in Links /\ Live(router.link)
  BY DEF Rewrite, RouterAt, IInv, InHand, Held
<1>2. UNCHANGED <<links, nlinks, npackets, mQueue, java, mVpnTunnelCtx, flushing, history>>
  BY DEF Rewrite
<1>3. router \in RouterStates /\ router.pkt = npackets /\ npackets > 0 /\ npackets \in Packets
  BY <1>1 DEF IInv, InHand, Bounded, TypeOK, Packets
<1>4. CASE ~link[router.link].enqueue_packets
  <2>1. UNCHANGED <<undefined, link>> /\ router' = [router EXCEPT !.at = "write"]
    BY <1>1, <1>4 DEF Rewrite
  <2>2. router' \in RouterStates /\ router'.at = "write" /\ router'.pkt = router.pkt
    BY <1>3, <2>1 DEF RouterStates
  <2>3. TypeOK' /\ Bounded'
    BY <1>2, <2>1, <2>2 DEF IInv, TypeOK, Bounded, history
  <2>4. InHand' /\ Held'
    BY <1>2, <1>3, <2>2 DEF IInv, InHand, Held, JavaHas
  <2> QED BY <1>1, <1>2, <2>1, <2>2, <2>3, <2>4, RouterAside DEF Aside, table
<1>5. CASE link[router.link].enqueue_packets
  <2>1. PICK m \in Links : m = router.link
    BY <1>1
  <2>2. PICK r \in NatLinks : r = link[m]
    BY DEF IInv, TypeOK
  <2>3. r.queue # NULL /\ r.queue \in Seq(Packets)
    BY <1>5, <2>1, <2>2 DEF IInv, Queues, NatLinks
  <2>4. PICK q \in Seq(Packets) : q = Append(r.queue, router.pkt)
    <3>1. PICK z \in Seq(Packets) : z = r.queue
      BY <2>3
    <3>2. Append(z, npackets) \in Seq(Packets)
      BY <1>3, <3>1
    <3> QED BY <1>3, <3>1, <3>2
  <2>5. /\ link' = [link EXCEPT ![m].queue = q] /\ router' = Idle /\ UNCHANGED undefined
    BY <1>1, <1>5, <2>1, <2>2, <2>3, <2>4 DEF Rewrite
  <2>6. PICK s \in NatLinks : s = [r EXCEPT !.queue = q]
    BY <2>2 DEF NatLinks
  <2>7. /\ s.flow = r.flow /\ s.hop_port = r.hop_port /\ s.open = r.open
        /\ s.socat_pid = r.socat_pid /\ s.enqueue_packets = r.enqueue_packets /\ s.queue = q
        /\ s.cycles_to_live = r.cycles_to_live
    BY <2>2, <2>6 DEF NatLinks
  <2>8. link \in [Links -> NatLinks] /\ link' = [link EXCEPT ![m] = s]
    BY <2>2, <2>5, <2>6 DEF IInv, TypeOK
  <2>9. /\ link' \in [Links -> NatLinks] /\ link'[m] = s
        /\ \A k \in Links : k # m => link'[k] = link[k]
    BY <2>8
  <2>10. \A k \in Links :
          /\ link'[k].flow = link[k].flow /\ link'[k].hop_port = link[k].hop_port
          /\ link'[k].socat_pid = link[k].socat_pid
          /\ link'[k].enqueue_packets = link[k].enqueue_packets
          /\ link'[k].cycles_to_live = link[k].cycles_to_live
          /\ link'[k].open = link[k].open
    BY <2>2, <2>7, <2>9
  <2>11. router' \in RouterStates /\ router'.at = "idle"
    BY <2>5, NumbersAssumption DEF Idle, RouterStates
  <2>12. TypeOK' /\ Bounded'
    BY <1>2, <2>5, <2>9, <2>11 DEF IInv, TypeOK, Bounded, history
  <2>13. InHand' /\ Held'
    BY <1>2, <2>11 DEF IInv, InHand, Held, JavaHas
  <2>14. Descending' /\ \A l \in Links : Live(l)' <=> Live(l)
    BY <1>2, SameList DEF IInv
  <2>15. \A l \in Links : Requested(l)' <=> Requested(l)
    BY <1>1, <1>2, <2>11 DEF Requested, JavaHas
  <2>16. \A l \in Links : ~Thrown(l) /\ (Waiting(l) => Waiting(l)')
    BY <1>1, <2>10, <2>14 DEF Thrown, Waiting
  <2>17. InTurn'
    BY <1>2, <2>11 DEF IInv, InTurn, JavaHas
  <2>18. Unanswered'
    BY <2>11, <2>15, <2>16 DEF IInv, Unanswered
  <2>19. AnsweredInTurn'
    BY <2>10, <2>14, <2>15, <2>16 DEF IInv, AnsweredInTurn
  <2>20. Queues'
    <3>1. q # NULL
      BY <2>4, NullAssumption DEF Packets
    <3>2. s.enqueue_packets
      BY <1>5, <2>1, <2>2, <2>7
    <3> QED BY <2>7, <2>9, <3>1, <3>2 DEF IInv, Queues
  <2>21. Asked'
    BY <1>1, <1>2, <2>10, <2>14, <2>15 DEF IInv, Asked
  <2>22. FlowsDiffer'
    BY <2>10, <2>11, <2>14 DEF IInv, FlowsDiffer
  <2>23. PortsDiffer'
    BY <2>10, <2>14 DEF IInv, PortsDiffer
  <2> QED BY <2>12, <2>13, <2>14, <2>17, <2>18, <2>19, <2>20, <2>21, <2>22, <2>23 DEF IInv
<1> QED BY <1>4, <1>5

-----------------------------------------------------------------------------
(* The two calls of usernat_set_pid_for_link. *)

\* What a walk keeps, whoever performs it.
LEMMA WalkKeeps ==
    ASSUME IInv, UNCHANGED nlinks,
           NEW t \in Threads, NEW l \in Links, NEW p \in {-1, 0, 1}, SetPidForLink(t, l, p)
    PROVE  Queues' /\ PortsDiffer' /\ Descending'
<1>1. TypeOK /\ Descending
  BY DEF IInv
<1>2. Descending' /\ \A k \in Links : Live(k)' <=> Live(k) /\ ~Removed(k, l)
  BY <1>1, WalkList
<1>3. \A k \in Links :
        /\ link'[k].hop_port = link[k].hop_port /\ link'[k].open = link[k].open
        /\ Removed(k, l) => Gone(k)
        /\ k = l /\ Found(l) => Told(l, p)
        /\ ~Removed(k, l) /\ ~(k = l /\ Found(l)) => Left(k)
  BY <1>1, WalkLinks
<1>4. PortsDiffer'
  BY <1>2, <1>3 DEF IInv, PortsDiffer
<1>5. ASSUME NEW k \in Links
      PROVE  link'[k].enqueue_packets <=> link'[k].queue # NULL
  <2>1. Gone(k) => (link'[k].enqueue_packets <=> link'[k].queue # NULL)
    BY DEF Gone
  <2>2. Told(k, p) => (link'[k].enqueue_packets <=> link'[k].queue # NULL)
    BY DEF Told
  <2>3. Left(k) => (link'[k].enqueue_packets <=> link'[k].queue # NULL)
    BY DEF Left, IInv, Queues
  <2> QED BY <1>3, <2>1, <2>2, <2>3
<1> QED BY <1>2, <1>4, <1>5 DEF Queues

\* The oldest request is answered; what the walk deletes had none.
LEMMA JavaSetPidKeeps ==
    ASSUME IInv, JavaSetPid
    PROVE  IInv'
<1>1. TypeOK /\ Descending
  BY DEF IInv
<1>2. PICK l \in Links : l = java.link /\ Requested(l) /\ JavaHas
  BY DEF JavaSetPid, JavaAt, IInv, InHand, JavaHas, Requested
<1>3. PICK p \in {-1, 0, 1} : p = java.pid
  BY <1>1 DEF TypeOK, JavaStates
<1>4. SetPidForLink("java", l, p) /\ "java" \in Threads
  BY <1>2, <1>3 DEF JavaSetPid, Threads
<1>5. UNCHANGED <<nlinks, npackets, router, mQueue, mVpnTunnelCtx, history, undefined>>
  BY DEF JavaSetPid
<1>6. java' \in JavaStates /\ java'.at = "poll" /\ ~JavaHas'
  BY NumbersAssumption DEF JavaSetPid, JavaStates, JavaHas
<1>7. links' \in Seq(Links) /\ \A k \in Links : Live(k)' <=> Live(k) /\ ~Removed(k, l)
  BY <1>1, <1>4, <1>5, WalkList
<1>8. /\ link' \in [Links -> NatLinks]
      /\ \A k \in Links :
           /\ k = l /\ Found(l) => Told(l, p)
           /\ ~Removed(k, l) /\ ~(k = l /\ Found(l)) => Left(k)
  BY <1>1, <1>4, WalkLinks
<1>9. flushing' \in [Threads -> Seq(Packets)]
  BY <1>1, <1>4, WalkFlush
<1>10. TypeOK' /\ Bounded'
  BY <1>5, <1>6, <1>7, <1>8, <1>9 DEF IInv, TypeOK, Bounded, history
<1>11. InHand'
  BY <1>5, <1>6 DEF IInv, InHand
<1>12. Queues' /\ PortsDiffer' /\ Descending'
  BY <1>4, <1>5, WalkKeeps
<1>13. Waiting(l)
  BY <1>2 DEF IInv, Unanswered
<1>14. Told(l, p)
  BY <1>8, <1>13 DEF Waiting, Found, Spent, Failed
<1>15. \A k \in Links : Removed(k, l) => Thrown(k)
  BY <1>2, JavaRemoves DEF JavaSetPid
<1>16. \A k \in Links : k # l /\ ~Removed(k, l) => Left(k)
  BY <1>8
<1>17. ASSUME NEW k \in Links
       PROVE  Requested(k)' <=> Requested(k) /\ k # l
  <2>1. \A i \in Links : ~(i < i)
    BY DEF Links
  <2>2. /\ \A i \in 1..Len(mQueue) : l < mQueue[i]
        /\ router.at = "build" => l < router.link
    BY <1>2 DEF IInv, InTurn
  <2>3. Requested(k)' <=> \/ \E i \in 1..Len(mQueue) : mQueue[i] = k
                          \/ router.at = "build" /\ router.link = k
    BY <1>5, <1>6 DEF Requested
  <2>4. Requested(k) <=> \/ \E i \in 1..Len(mQueue) : mQueue[i] = k
                         \/ router.at = "build" /\ router.link = k
                         \/ l = k
    BY <1>2 DEF Requested
  <2> QED BY <2>1, <2>2, <2>3, <2>4
<1>18. InTurn'
  BY <1>5, <1>6 DEF IInv, InTurn
<1>19. router.at \notin {"queued", "threw"} /\ router' = router
  BY <1>5 DEF JavaSetPid, WriteLockFree
<1>20. Unanswered'
  <2>1. ASSUME NEW k \in Links, Requested(k)'
        PROVE  Waiting(k)'
    <3>1. k # l /\ Waiting(k)
      BY <1>17, <2>1 DEF IInv, Unanswered
    <3>2. ~Removed(k, l)
      BY <3>1 DEF Removed, Spent, Failed, Waiting
    <3> QED BY <1>7, <1>16, <3>1, <3>2 DEF Waiting, Left
  <2> QED BY <1>19, <2>1 DEF Unanswered
<1>21. AnsweredInTurn'
  <2>1. ASSUME NEW k \in Links, Live(k)', link'[k].socat_pid # 0
        PROVE  \/ Thrown(k)'
               \/ ~link'[k].enqueue_packets /\ \A j \in Links : Requested(j)' => k < j
    <3>1. CASE k = l
      <4>1. ~link'[k].enqueue_packets
        BY <1>14, <3>1 DEF Told
      <4>2. ASSUME NEW j \in Links, Requested(j)'
            PROVE  l < j
        BY <1>2, <1>5, <1>6, <4>2 DEF IInv, InTurn, Requested
      <4> QED BY <3>1, <4>1, <4>2
    <3>2. CASE k # l
      <4>1. Live(k) /\ Left(k)
        BY <1>7, <1>16, <2>1, <3>2
      <4>2. \/ Thrown(k)
            \/ ~link[k].enqueue_packets /\ \A j \in Links : Requested(j) => k < j
        BY <2>1, <4>1 DEF IInv, AnsweredInTurn, Left
      <4>3. Thrown(k) => Thrown(k)'
        BY <1>19, <4>1 DEF Thrown, Left, Failed
      <4>4. link'[k].enqueue_packets = link[k].enqueue_packets
        BY <4>1 DEF Left
      <4> QED BY <1>17, <4>2, <4>3, <4>4
    <3> QED BY <3>1, <3>2
  <2> QED BY <2>1 DEF AnsweredInTurn
<1>22. Asked'
  <2>1. ASSUME NEW k \in Links, Live(k)', link'[k].enqueue_packets
        PROVE  \/ Requested(k)' \/ ~mVpnTunnelCtx' \/ link'[k].flow \in PortZero
               \/ /\ router'.link = k
                  /\ router'.at \in {"threw", "failed"} \/ (router'.at = "check" /\ Failed(k)')
    <3>1. k # l
      BY <1>14, <2>1 DEF Told
    <3>2. Live(k) /\ Left(k)
      BY <1>7, <1>16, <2>1, <3>1
    <3>3. link[k].enqueue_packets /\ link'[k].flow = link[k].flow /\ (Failed(k)' <=> Failed(k))
      BY <2>1, <3>2 DEF Left, Failed
    <3> QED BY <1>5, <1>17, <1>19, <3>1, <3>2, <3>3 DEF IInv, Asked
  <2> QED BY <2>1 DEF Asked
<1>23. Held'
  <2>1. router.at = "rewrite" => Live(router.link)'
    <3>1. router.at = "rewrite" => router.link \in Links /\ Live(router.link)
      BY DEF IInv, InHand, Held
    <3> QED BY <1>7, <1>15, <1>19, <3>1 DEF Thrown
  <2>2. router.at = "failed" /\ Live(router.link)' => Failed(router.link)'
    <3>1. SUFFICES ASSUME router.at = "failed", Live(router.link)'
                   PROVE  Failed(router.link)'
      OBVIOUS
    <3>2. router.link \in Links
      BY <3>1 DEF IInv, InHand
    <3>3. Live(router.link) /\ ~Removed(router.link, l)
      BY <1>7, <1>19, <3>1, <3>2
    <3>4. Failed(router.link)
      BY <3>1, <3>3 DEF IInv, Held
    <3>5. router.link # l
      BY <1>13, <3>4 DEF Waiting, Failed
    <3> QED BY <1>16, <1>19, <3>2, <3>3, <3>4, <3>5 DEF Left, Failed
  <2> QED BY <1>19, <2>1, <2>2 DEF Held
<1>24. FlowsDiffer'
  <2>1. \A k \in Links : Live(k)' => Live(k) /\ link'[k].flow = link[k].flow
    BY <1>7, <1>14, <1>16 DEF Told, Left
  <2> QED BY <1>19, <2>1 DEF IInv, FlowsDiffer
<1> QED BY <1>10, <1>11, <1>12, <1>18, <1>20, <1>21, <1>22, <1>23, <1>24 DEF IInv

\* The walk of the router deletes links that have no request.
LEMMA BuildFailedKeeps ==
    ASSUME IInv, BuildFailed
    PROVE  IInv'
<1>1. TypeOK /\ Descending
  BY DEF IInv
<1>2. router.at = "failed" /\ router.link \in Links
  BY DEF BuildFailed, RouterAt, IInv, InHand
<1>3. PICK l \in Links : l = router.link
  BY <1>2
<1>4. SetPidForLink("router", l, -1) /\ "router" \in Threads /\ -1 \in {-1, 0, 1}
  BY <1>3 DEF BuildFailed, Threads
<1>5. UNCHANGED <<nlinks, npackets, mQueue, java, mVpnTunnelCtx, history, undefined>>
  BY DEF BuildFailed
<1>6. router' \in RouterStates /\ router'.at = "idle"
  BY NumbersAssumption DEF BuildFailed, RouterStates, Idle
<1>7. links' \in Seq(Links) /\ \A k \in Links : Live(k)' <=> Live(k) /\ ~Removed(k, l)
  BY <1>1, <1>4, <1>5, WalkList
<1>8. /\ link' \in [Links -> NatLinks]
      /\ \A k \in Links :
           /\ k = l /\ Found(l) => Told(l, -1)
           /\ ~Removed(k, l) /\ ~(k = l /\ Found(l)) => Left(k)
  BY <1>1, <1>4, WalkLinks
<1>9. flushing' \in [Threads -> Seq(Packets)]
  BY <1>1, <1>4, WalkFlush
<1>10. TypeOK' /\ Bounded'
  BY <1>5, <1>6, <1>7, <1>8, <1>9 DEF IInv, TypeOK, Bounded, history
<1>11. InHand' /\ Held'
  BY <1>5, <1>6 DEF IInv, InHand, Held, JavaHas
<1>12. Queues' /\ PortsDiffer' /\ Descending'
  BY <1>4, <1>5, WalkKeeps
<1>13. Live(l) => Failed(l)
  BY <1>2, <1>3 DEF IInv, Held
<1>14. Live(l) /\ ~Removed(l, l) => Found(l)
  BY <1>13 DEF Removed, Visited, Found
<1>15. \A k \in Links : Live(k)' => Live(k) /\ IF k = l THEN Told(l, -1) ELSE Left(k)
  BY <1>7, <1>8, <1>14
<1>16. \A k \in Links : Thrown(k) => k = l /\ Spent(l)
  BY <1>3 DEF Thrown, Spent
<1>17. \A k \in Links : Live(k)' => ~Thrown(k)
  BY <1>7, <1>14, <1>16 DEF Found
<1>18. \A k \in Links : Requested(k)' <=> Requested(k)
  BY <1>2, <1>5, <1>6 DEF Requested, JavaHas
<1>19. InTurn'
  BY <1>5, <1>6 DEF IInv, InTurn, JavaHas
<1>20. Unanswered'
  <2>1. ASSUME NEW k \in Links, Requested(k)
        PROVE  Waiting(k)'
    <3>1. Waiting(k)
      BY <2>1 DEF IInv, Unanswered
    <3>2. ~Removed(k, l) /\ k # l
      BY <1>13, <3>1 DEF Removed, Spent, Failed, Waiting
    <3> QED BY <1>7, <1>8, <3>1, <3>2 DEF Waiting, Left
  <2> QED BY <1>6, <1>18, <2>1 DEF Unanswered
<1>21. AnsweredInTurn'
  <2>1. ASSUME NEW k \in Links, Live(k)', link'[k].socat_pid # 0
        PROVE  ~link'[k].enqueue_packets /\ \A j \in Links : Requested(j)' => k < j
    <3>1. Live(k) /\ link[k].socat_pid # 0
      BY <1>13, <1>15, <2>1 DEF Left, Failed
    <3>2. ~link[k].enqueue_packets /\ \A j \in Links : Requested(j) => k < j
      BY <1>17, <2>1, <3>1 DEF IInv, AnsweredInTurn
    <3>3. ~link'[k].enqueue_packets
      BY <1>15, <2>1, <3>2 DEF Told, Left
    <3> QED BY <1>18, <3>2, <3>3
  <2> QED BY <2>1 DEF AnsweredInTurn
<1>22. Asked'
  <2>1. ASSUME NEW k \in Links, Live(k)', link'[k].enqueue_packets
        PROVE  Requested(k)' \/ ~mVpnTunnelCtx' \/ link'[k].flow \in PortZero
    <3>1. k # l /\ Left(k) /\ Live(k)
      BY <1>15, <2>1 DEF Told
    <3>2. link[k].enqueue_packets /\ link'[k].flow = link[k].flow
      BY <2>1, <3>1 DEF Left
    <3> QED BY <1>3, <1>5, <1>18, <3>1, <3>2 DEF IInv, Asked
  <2> QED BY <2>1 DEF Asked
<1>23. FlowsDiffer'
  <2>1. \A k \in Links : Live(k)' => Live(k) /\ link'[k].flow = link[k].flow
    BY <1>15 DEF Told, Left
  <2> QED BY <1>6, <2>1 DEF IInv, FlowsDiffer
<1> QED BY <1>10, <1>11, <1>12, <1>19, <1>20, <1>21, <1>22, <1>23 DEF IInv

-----------------------------------------------------------------------------
(* The invariant, and what it says. *)

\* The invariant holds of the new tunnel.
LEMMA InitIInv ==
    ASSUME Init
    PROVE  IInv
<1>1. NoLink \in NatLinks
  BY NumbersAssumption DEF NoLink, NatLinks
<1>2. TypeOK
  <2>1. router \in RouterStates
    BY NumbersAssumption DEF Init, Idle, RouterStates
  <2>2. java \in JavaStates
    BY NumbersAssumption DEF Init, JavaStates
  <2>3. flushing \in [Threads -> Seq(Packets)]
    BY DEF Init
  <2>4. link \in [Links -> NatLinks]
    BY <1>1 DEF Init
  <2>5. links \in Seq(Links) /\ mQueue \in Seq(Links) /\ written \in Seq(Packets)
    BY DEF Init
  <2> QED BY <2>1, <2>2, <2>3, <2>4, <2>5 DEF Init, TypeOK
<1>3. router.at = "idle" /\ ~JavaHas
  BY DEF Init, Idle, JavaHas
<1>4. \A l \in Links : ~Live(l) /\ ~Requested(l)
  BY <1>3 DEF Init, Live, Requested
<1>5. Bounded /\ InHand
  BY <1>3, NumbersAssumption DEF Init, Bounded, InHand
<1>6. Descending /\ InTurn
  BY <1>3 DEF Init, Descending, InTurn
<1>7. Unanswered /\ AnsweredInTurn
  BY <1>3, <1>4 DEF Unanswered, AnsweredInTurn
<1>8. Queues
  BY DEF Init, NoLink, Queues
<1>9. Asked /\ Held /\ FlowsDiffer /\ PortsDiffer
  BY <1>3, <1>4 DEF Asked, Held, FlowsDiffer, PortsDiffer
<1> QED BY <1>2, <1>5, <1>6, <1>7, <1>8, <1>9 DEF IInv

\* Every step keeps the invariant.
LEMMA NextKeeps ==
    ASSUME IInv, [Next]_vars
    PROVE  IInv'
<1>1. ASSUME NEW f \in Flows, SendOutgoing(f) PROVE IInv'
  BY <1>1, SendOutgoingKeeps
<1>2. ASSUME NEW f \in Flows, NEW hop \in Ports, SendIncoming(SourceOf[f], hop) PROVE IInv'
  BY <1>2, SendIncomingKeeps
<1>3. ASSUME NEW hop \in FreePorts, AddLink(hop) PROVE IInv'
  BY <1>3, AddLinkKeeps
<1>4. CASE CreateFails BY <1>4, CreateFailsKeeps
<1>5. CASE Build BY <1>5, BuildKeeps
<1>6. CASE BuildThrows BY <1>6, BuildThrowsKeeps
<1>7. CASE BuildReturns BY <1>7, BuildReturnsKeeps
<1>8. CASE CheckPid BY <1>8, CheckPidKeeps
<1>9. CASE BuildFailed BY <1>9, BuildFailedKeeps
<1>10. CASE Rewrite BY <1>10, RewriteKeeps
<1>11. CASE Write BY <1>11, WriteKeeps
<1>12. CASE JavaPoll BY <1>12, JavaPollKeeps
<1>13. ASSUME NEW pid \in ForkResults, JavaReply(pid) PROVE IInv'
  BY <1>13, JavaReplyKeeps
<1>14. CASE JavaSetPid BY <1>14, JavaSetPidKeeps
<1>15. CASE JavaFails BY <1>15, JavaFailsKeeps
<1>16. CASE TerminateConnection BY <1>16, TerminateConnectionKeeps
<1>17. ASSUME NEW t \in Threads, Flush(t) PROVE IInv'
  BY <1>17, FlushKeeps
<1>18. CASE UNCHANGED vars BY <1>18, StutterKeeps
<1>19. CASE RouterSteps
  BY <1>3, <1>4, <1>5, <1>6, <1>7, <1>8, <1>9, <1>10, <1>11, <1>19 DEF RouterSteps
<1>20. CASE RouterNext
  BY <1>1, <1>2, <1>19, <1>20 DEF RouterNext
<1>21. CASE JavaNext
  BY <1>12, <1>13, <1>14, <1>15, <1>16, <1>21 DEF JavaNext, JavaSteps
<1> QED BY <1>17, <1>18, <1>20, <1>21 DEF Next

\* The inductive invariant holds of every reachable state.
THEOREM Invariance == Spec => []IInv
BY InitIInv, NextKeeps, PTL DEF Spec

\* Every variable of the tunnel keeps its type, whatever the two threads do.
THEOREM TypeCorrect == Spec => []TypeOK
<1>1. IInv => TypeOK
  BY DEF IInv
<1> QED BY <1>1, Invariance, PTL

\* The pointers that find_link hands to send, and those that wait as numbers in
\* Java's queue, are never freed by the walk of usernat_set_pid_for_link that
\* the other thread performs.
THEOREM NotFreed == Spec => []PointersLive
<1>1. ASSUME IInv PROVE PointersLive
  <2>1. router.at = "build" => Requested(router.link) /\ router.link \in Links
    BY <1>1 DEF Requested, IInv, InHand
  <2>2. router.at \in {"build", "queued", "threw", "rewrite"} => Live(router.link)
    BY <1>1, <2>1 DEF IInv, Unanswered, Waiting, Held
  <2>3. mQueue \in Seq(Links)
    BY <1>1 DEF IInv, TypeOK
  <2>4. ASSUME NEW i \in DOMAIN mQueue PROVE Live(mQueue[i])
    <3>1. mQueue[i] \in Links /\ Requested(mQueue[i])
      BY <2>3 DEF Requested
    <3> QED BY <1>1, <3>1 DEF IInv, Unanswered, Waiting
  <2>5. java.at \in {"cmd", "setpid"} => Live(java.link)
    <3>1. JavaHas => java.link \in Links /\ Requested(java.link)
      BY <1>1 DEF IInv, InHand, Requested
    <3> QED BY <1>1, <3>1 DEF JavaHas, IInv, Unanswered, Waiting
  <2> QED BY <2>2, <2>4, <2>5 DEF PointersLive
<1> QED BY <1>1, Invariance, PTL

\* The number of requests of a link under way.
LEMMA PendingIs ==
    ASSUME IInv, NEW l \in Links
    PROVE  Pending(l) = IF Requested(l) THEN 1 ELSE 0
<1> DEFINE S == {i \in DOMAIN mQueue : mQueue[i] = l}
<1>1. mQueue \in Seq(Links) /\ DOMAIN mQueue = 1..Len(mQueue)
  BY DEF IInv, TypeOK
<1>2. \A k \in Links : ~(k < k)
  BY DEF Links
<1>3. PICK j \in {0, 1} : j = IF java.at \in {"cmd", "setpid"} /\ java.link = l THEN 1 ELSE 0
  OBVIOUS
<1>4. PICK r \in {0, 1} : r = IF router.at = "build" /\ router.link = l THEN 1 ELSE 0
  OBVIOUS
<1>5. Pending(l) = Cardinality(S) + j + r
  BY <1>3, <1>4 DEF Pending, Count
<1>6. j = 1 <=> JavaHas /\ java.link = l
  BY <1>3 DEF JavaHas
<1>7. r = 1 <=> router.at = "build" /\ router.link = l
  BY <1>4
<1>8. Requested(l) <=> S # {} \/ j = 1 \/ r = 1
  BY <1>1, <1>6, <1>7 DEF Requested
<1>9. /\ JavaHas => \A i \in 1..Len(mQueue) : java.link < mQueue[i]
      /\ router.at = "build" =>
           /\ JavaHas => java.link < router.link
           /\ \A i \in 1..Len(mQueue) : mQueue[i] < router.link
  BY DEF IInv, InTurn
<1>10. j = 1 => S = {} /\ r = 0
  BY <1>1, <1>2, <1>6, <1>7, <1>9
<1>11. r = 1 => S = {}
  BY <1>1, <1>2, <1>7, <1>9
<1>12. S # {} => Cardinality(S) = 1
  <2>1. SUFFICES ASSUME S # {} PROVE Cardinality(S) = 1
    OBVIOUS
  <2>2. PICK i \in 1..Len(mQueue) : mQueue[i] = l
    BY <1>1, <2>1
  <2>3. \A a, b \in 1..Len(mQueue) : a < b => mQueue[a] < mQueue[b]
    BY DEF IInv, InTurn
  <2>4. ASSUME NEW a \in 1..Len(mQueue), mQueue[a] = l PROVE a = i
    BY <1>2, <2>2, <2>3, <2>4
  <2>5. S = {i}
    BY <1>1, <2>2, <2>4
  <2> QED BY <2>5, FS_Singleton
<1>13. S = {} => Cardinality(S) = 0
  BY FS_EmptySet
<1> HIDE DEF S
<1> QED BY <1>3, <1>4, <1>5, <1>8, <1>10, <1>11, <1>12, <1>13

\* A link that queues its packets has exactly one request on its way through
\* find_link, mQueue and the Java thread, and no other link has one, but for the
\* exceptions the property names.
THEOREM RequestUnderWay == Spec => []AnswerPending
<1>1. ASSUME IInv PROVE AnswerPending
  <2>1. ASSUME NEW l \in Links
        PROVE  /\ Pending(l) <= 1
               /\ Pending(l) = 1 => Live(l) /\ link[l].enqueue_packets
               /\ Live(l) /\ link[l].enqueue_packets =>
                    \/ Pending(l) = 1
                    \/ ~ mVpnTunnelCtx
                    \/ link[l].flow \in PortZero
                    \/ router.link = l /\ router.at \in {"threw", "check", "failed"}
    <3>1. Pending(l) = IF Requested(l) THEN 1 ELSE 0
      BY <1>1, PendingIs
    <3>2. Requested(l) => Live(l) /\ link[l].enqueue_packets
      BY <1>1 DEF IInv, Unanswered, Waiting
    <3>3. Live(l) /\ link[l].enqueue_packets =>
            \/ Requested(l)
            \/ ~ mVpnTunnelCtx
            \/ link[l].flow \in PortZero
            \/ router.link = l /\ router.at \in {"threw", "check", "failed"}
      BY <1>1 DEF IInv, Asked
    <3> QED BY <3>1, <3>2, <3>3
  <2> QED BY <2>1 DEF AnswerPending
<1> QED BY <1>1, Invariance, PTL

\* find_link4 finds a live link for the packets of its flow and, while its
\* socket is open, for those of its hop port.
THEOREM LinkIsFound == Spec => []LookupsAgree
<1>1. ASSUME IInv PROVE LookupsAgree
  <2>1. SUFFICES ASSUME NEW l \in Links, Live(l)
                 PROVE  /\ FindOutgoing(link[l].flow) = l
                        /\ link[l].open =>
                             FindIncoming(SourceOf[link[l].flow], link[l].hop_port) = l
    BY DEF LookupsAgree
  <2>2. TypeOK /\ links \in Seq(Links) /\ DOMAIN links = 1..Len(links)
    BY <1>1 DEF IInv, TypeOK
  <2>3. PICK n \in 1..Len(links) : links[n] = l
    BY <2>1, <2>2 DEF Live
  <2>4. \A i \in 1..Len(links) : links[i] \in Links /\ Live(links[i])
    BY <2>2 DEF Live
  <2>5. FindOutgoing(link[l].flow) = l
    <3> DEFINE I == {i \in DOMAIN links : link[links[i]].flow = link[l].flow}
    <3>1. I \in SUBSET (1..Len(links)) /\ n \in I /\ FindOutgoing(link[l].flow) = First(I)
      BY <2>2, <2>3 DEF FindOutgoing
    <3>2. \A i \in I : i \in 1..Len(links) /\ links[i] = l
      BY <1>1, <2>1, <2>2, <2>4 DEF IInv, FlowsDiffer
    <3> HIDE DEF I
    <3>3. \E i \in I : First(I) = links[i]
      BY <2>2, <3>1, FirstFacts
    <3> QED BY <3>1, <3>2, <3>3
  <2>6. ASSUME link[l].open
        PROVE  FindIncoming(SourceOf[link[l].flow], link[l].hop_port) = l
    <3> DEFINE I == {i \in DOMAIN links :
                       /\ SourceOf[link[links[i]].flow] = SourceOf[link[l].flow]
                       /\ link[links[i]].hop_port = link[l].hop_port}
    <3>1. /\ I \in SUBSET (1..Len(links)) /\ n \in I
          /\ FindIncoming(SourceOf[link[l].flow], link[l].hop_port) = First(I)
      BY <2>2, <2>3 DEF FindIncoming
    <3>2. \A i \in I : link[links[i]].hop_port = link[l].hop_port
      OBVIOUS
    <3> HIDE DEF I
    <3>3. PICK i \in I : First(I) = links[i] /\ i <= n
      BY <2>2, <3>1, FirstFacts
    <3>4. i \in 1..Len(links)
      BY <3>1
    <3>5. i < n => l < links[i]
      BY <1>1, <2>3, <3>4 DEF IInv, Descending
    <3>6. ~(l < links[i])
      BY <1>1, <2>1, <2>4, <2>6, <3>2, <3>4 DEF IInv, PortsDiffer
    <3>7. i = n
      BY <3>3, <3>4, <3>5, <3>6
    <3> QED BY <2>3, <3>1, <3>3, <3>7
  <2> QED BY <2>5, <2>6
<1> QED BY <1>1, Invariance, PTL

\* A step keeps the id of a running process: a thread answers for a link without
\* one, and what the walk deletes had none.
LEMMA PidStays ==
    ASSUME IInv, [Next]_vars, NEW l \in Links, link[l].socat_pid = 1, Live(l)
    PROVE  link'[l].socat_pid = 1
<1>1. TypeOK /\ link \in [Links -> NatLinks]
  BY DEF IInv, TypeOK
<1>2. CASE link' = link
  BY <1>2
<1>3. ASSUME NEW hop \in FreePorts, AddLink(hop)
      PROVE  link'[l].socat_pid = 1
  <2>1. l # nlinks + 1
    <3>1. l <= nlinks /\ nlinks \in Nat /\ l \in Nat
      BY <1>1, RequestedKnown DEF TypeOK, Links
    <3> QED BY <3>1
  <2>2. link' = [link EXCEPT ![nlinks + 1] = NewLink(router.flow, hop)]
    BY <1>3 DEF AddLink
  <2>3. link'[l] = link[l]
    BY <1>1, <2>1, <2>2
  <2> QED BY <2>3
<1>4. CASE BuildReturns
  <2>1. link[router.link].socat_pid = 0
    BY <1>4 DEF BuildReturns, RouterAt, IInv, Unanswered, Waiting
  <2>2. link'[l] = link[l]
    BY <1>1, <1>4, <2>1 DEF BuildReturns
  <2> QED BY <2>2
<1>5. CASE CheckPid
  <2>1. link' = link \/ link' = [link EXCEPT ![router.link].open = FALSE]
    BY <1>5 DEF CheckPid
  <2>2. link'[l] = link[l] \/ link'[l] = [link[l] EXCEPT !.open = FALSE]
    BY <1>1, <2>1
  <2>3. PICK r \in NatLinks : r = link[l]
    BY <1>1
  <2> QED BY <2>2, <2>3 DEF NatLinks
<1>6. CASE Rewrite
  <2>1. PICK q : link' = link \/ link' = [link EXCEPT ![router.link].queue = q]
    BY <1>6 DEF Rewrite
  <2>2. link'[l] = link[l] \/ link'[l] = [link[l] EXCEPT !.queue = q]
    BY <1>1, <2>1
  <2>3. PICK r \in NatLinks : r = link[l]
    BY <1>1
  <2> QED BY <2>2, <2>3 DEF NatLinks
<1>7. ASSUME NEW t \in Threads, NEW k \in Links, NEW p \in {-1, 0, 1}, SetPidForLink(t, k, p),
             Live(k) => link[k].socat_pid # 1
      PROVE  link'[l].socat_pid = 1
  <2>1. ~Removed(l, k)
    BY DEF Removed, Spent, Failed
  <2>2. ~(l = k /\ Found(k))
    BY <1>7 DEF Found
  <2>3. Left(l)
    BY <1>1, <1>7, <2>1, <2>2, WalkLinks
  <2> QED BY <2>3 DEF Left
<1>8. CASE BuildFailed
  <2>1. /\ router.link \in Links /\ "router" \in Threads /\ -1 \in {-1, 0, 1}
        /\ SetPidForLink("router", router.link, -1)
    BY <1>8 DEF BuildFailed, RouterAt, IInv, InHand, Threads
  <2>2. Live(router.link) => link[router.link].socat_pid # 1
    BY <1>8 DEF BuildFailed, RouterAt, IInv, Held, Failed
  <2> QED BY <1>7, <2>1, <2>2
<1>9. CASE JavaSetPid
  <2>1. java.link \in Links /\ Requested(java.link)
    BY <1>9 DEF JavaSetPid, JavaAt, IInv, InHand, JavaHas, Requested
  <2>2. "java" \in Threads /\ SetPidForLink("java", java.link, java.pid)
    BY <1>9 DEF JavaSetPid, Threads
  <2>3. java.pid \in {-1, 0, 1}
    BY <1>1 DEF TypeOK, JavaStates
  <2>4. link[java.link].socat_pid # 1
    BY <2>1 DEF IInv, Unanswered, Waiting
  <2> QED BY <1>7, <2>1, <2>2, <2>3, <2>4
<1>10. \/ link' = link
       \/ \E hop \in FreePorts : AddLink(hop)
       \/ BuildReturns \/ CheckPid \/ Rewrite \/ BuildFailed \/ JavaSetPid
  <2>1. ASSUME NEW f \in Flows, SendOutgoing(f) PROVE link' = link
    BY <2>1 DEF SendOutgoing, table
  <2>2. ASSUME NEW f \in Flows, NEW hop \in Ports, SendIncoming(SourceOf[f], hop)
        PROVE  link' = link
    BY <2>2 DEF SendIncoming, table
  <2>3. CASE CreateFails \/ Build \/ BuildThrows \/ Write
    BY <2>3 DEF CreateFails, Build, BuildThrows, Write, table
  <2>4. ASSUME NEW pid \in ForkResults, JavaReply(pid) PROVE link' = link
    BY <2>4 DEF JavaReply, table
  <2>5. CASE JavaPoll \/ JavaFails \/ TerminateConnection
    BY <2>5 DEF JavaPoll, JavaFails, TerminateConnection, table
  <2>6. ASSUME NEW t \in Threads, Flush(t) PROVE link' = link
    BY <2>6 DEF Flush, table
  <2>7. CASE UNCHANGED vars
    BY <2>7 DEF vars, table
  <2>8. CASE RouterNext
    BY <2>1, <2>2, <2>3, <2>8 DEF RouterNext, RouterSteps
  <2>9. CASE JavaNext
    BY <2>4, <2>5, <2>9 DEF JavaNext, JavaSteps
  <2> QED BY <2>6, <2>7, <2>8, <2>9 DEF Next
<1> QED BY <1>2, <1>3, <1>4, <1>5, <1>6, <1>8, <1>9, <1>10

\* The id of a running process is not overwritten, although the router thread
\* stores the result of buildSocatTunnel late.
THEOREM ProcessRemembered == Spec => PidKept
<1> DEFINE A == \A l \in Links :
                  link[l].socat_pid = 1 /\ Live(l) => link'[l].socat_pid = 1
<1>1. IInv /\ [Next]_vars => [A]_vars
  BY PidStays
<1> QED BY <1>1, Invariance, PTL DEF Spec, PidKept

-----------------------------------------------------------------------------
(* Packets in stores.  A packet that was taken is in one place of one store; *)
(* the facts of this part are about any stores S and any set T of packets.   *)

\* The queue of each link, and four more: the hand of the router thread, what
\* it and Java's thread have detached, and what was written.
Hand    == 0
Written == -1
ByJava  == -2
ByRouter == -3
Places == -3 .. MaxLinks
Stores == [Places -> Seq(Packets)]

Once(S, T) ==
    /\ \A a \in Places : \A i \in 1 .. Len(S[a]) : S[a][i] \in T
    /\ \A p \in T : \E a \in Places : \E i \in 1 .. Len(S[a]) : S[a][i] = p
    /\ \A a, b \in Places : \A i \in 1 .. Len(S[a]), j \in 1 .. Len(S[b]) :
         S[a][i] = S[b][j] => a = b /\ i = j

\* A new packet enters a store.
LEMMA Enters ==
    ASSUME NEW S \in Stores, NEW T, Once(S, T), NEW a \in Places,
           NEW x \in Packets, x \notin T, S[a] = <<>>,
           NEW R \in Stores, R[a] = <<x>>, \A b \in Places : b # a => R[b] = S[b]
    PROVE  Once(R, T \cup {x})
<1>1. Len(R[a]) = 1 /\ R[a][1] = x /\ Len(S[a]) = 0
  BY DEF Stores
<1>2. ASSUME NEW b \in Places, NEW i \in 1..Len(R[b])
      PROVE  \/ b = a /\ i = 1 /\ R[b][i] = x
             \/ b # a /\ i \in 1..Len(S[b]) /\ R[b][i] = S[b][i]
  BY <1>1, <1>2
<1>3. ASSUME NEW b \in Places, NEW i \in 1..Len(S[b])
      PROVE  i \in 1..Len(R[b]) /\ R[b][i] = S[b][i]
  <2>1. b # a
    BY <1>1, <1>3
  <2> QED BY <1>3, <2>1
<1>4. \A b \in Places : \A i \in 1..Len(R[b]) : R[b][i] \in T \cup {x}
  BY <1>2 DEF Once
<1>5. ASSUME NEW p \in T \cup {x}
      PROVE  \E b \in Places : \E i \in 1..Len(R[b]) : R[b][i] = p
  <2>1. CASE p = x
    <3>1. 1 \in 1..Len(R[a]) /\ R[a][1] = p
      BY <1>1, <2>1
    <3> QED BY <3>1
  <2>2. CASE p \in T
    <3>1. PICK b \in Places : \E i \in 1..Len(S[b]) : S[b][i] = p
      BY <2>2 DEF Once
    <3>2. PICK i \in 1..Len(S[b]) : S[b][i] = p
      BY <3>1
    <3>3. i \in 1..Len(R[b]) /\ R[b][i] = p
      BY <1>3, <3>2
    <3> QED BY <3>3
  <2> QED BY <2>1, <2>2
<1>6. ASSUME NEW b \in Places, NEW c \in Places,
             NEW i \in 1..Len(R[b]), NEW j \in 1..Len(R[c]), R[b][i] = R[c][j]
      PROVE  b = c /\ i = j
  <2>1. b # a => R[b][i] # x
    BY <1>2 DEF Once
  <2>2. c # a => R[c][j] # x
    BY <1>2 DEF Once
  <2>3. CASE b = a \/ c = a
    BY <1>2, <1>6, <2>1, <2>2, <2>3
  <2>4. CASE b # a /\ c # a
    BY <1>2, <1>6, <2>4 DEF Once
  <2> QED BY <2>3, <2>4
<1> QED BY <1>4, <1>5, <1>6 DEF Once

\* The first packet of store a is put at the end of store b.
Moved(S, R, a, b) ==
    /\ a \in Places /\ b \in Places /\ a # b /\ S[a] # <<>>
    /\ R[a] = Tail(S[a]) /\ R[b] = Append(S[b], Head(S[a]))
    /\ \A c \in Places : c # a /\ c # b => R[c] = S[c]

\* A packet that moves on is neither lost nor doubled.
LEMMA HeadMoves ==
    ASSUME NEW S \in Stores, NEW T, Once(S, T), NEW a, NEW b, NEW R \in Stores,
           Moved(S, R, a, b)
    PROVE  Once(R, T)
<1>0. /\ a \in Places /\ b \in Places /\ a # b /\ S[a] # <<>>
      /\ R[a] = Tail(S[a]) /\ R[b] = Append(S[b], Head(S[a]))
      /\ \A c \in Places : c # a /\ c # b => R[c] = S[c]
  BY DEF Moved
<1>1. PICK s \in Seq(Packets) : s = S[a]
  BY <1>0 DEF Stores
<1>2. PICK t \in Seq(Packets) : t = S[b]
  BY <1>0 DEF Stores
<1>3. /\ Len(s) \in Nat /\ Len(s) > 0 /\ Len(R[a]) = Len(s) - 1
      /\ \A i \in 1..Len(R[a]) : i + 1 \in 1..Len(s) /\ R[a][i] = s[i + 1]
  BY <1>0, <1>1
<1>4. /\ Len(t) \in Nat /\ Len(R[b]) = Len(t) + 1 /\ R[b][Len(t) + 1] = s[1]
      /\ \A i \in 1..Len(t) : R[b][i] = t[i]
  BY <1>0, <1>1, <1>2
<1>5. ASSUME NEW c \in Places, NEW i \in 1..Len(R[c])
      PROVE  \E d \in Places : \E j \in 1..Len(S[d]) :
               /\ S[d][j] = R[c][i]
               /\ \/ c = a /\ d = a /\ j = i + 1
                  \/ c = b /\ i = Len(t) + 1 /\ d = a /\ j = 1
                  \/ c # a /\ d = c /\ j = i /\ (c = b => i <= Len(t))
  <2>1. CASE c = a
    BY <1>0, <1>1, <1>3, <2>1
  <2>2. CASE c = b /\ i = Len(t) + 1
    <3>1. 1 \in 1..Len(S[a]) /\ S[a][1] = R[c][i]
      BY <1>0, <1>1, <1>3, <1>4, <2>2
    <3> QED BY <1>0, <2>2, <3>1
  <2>3. CASE c = b /\ i # Len(t) + 1
    <3>1. i \in 1..Len(t) /\ i <= Len(t)
      BY <1>4, <2>3
    <3> QED BY <1>0, <1>2, <1>4, <2>3, <3>1
  <2>4. CASE c # a /\ c # b
    BY <1>0, <2>4
  <2> QED BY <2>1, <2>2, <2>3, <2>4
<1>6. ASSUME NEW d \in Places, NEW j \in 1..Len(S[d])
      PROVE  \E c \in Places : \E i \in 1..Len(R[c]) : R[c][i] = S[d][j]
  <2>1. CASE d = a /\ j = 1
    <3>1. Len(t) + 1 \in 1..Len(R[b]) /\ R[b][Len(t) + 1] = S[d][j]
      BY <1>1, <1>4, <2>1
    <3> QED BY <1>0, <3>1
  <2>2. CASE d = a /\ j # 1
    <3>1. j - 1 \in 1..Len(R[a]) /\ (j - 1) + 1 = j
      BY <1>1, <1>3, <2>2
    <3>2. R[a][j - 1] = S[d][j]
      BY <1>1, <1>3, <2>2, <3>1
    <3> QED BY <1>0, <3>1, <3>2
  <2>3. CASE d = b
    <3>1. j \in 1..Len(R[b]) /\ R[b][j] = S[d][j]
      BY <1>2, <1>4, <2>3
    <3> QED BY <1>0, <3>1
  <2>4. CASE d # a /\ d # b
    BY <1>0, <2>4
  <2> QED BY <2>1, <2>2, <2>3, <2>4
<1>7. ASSUME NEW c \in Places, NEW i \in 1..Len(R[c])
      PROVE  R[c][i] \in T
  <2>1. PICK d \in Places : \E j \in 1..Len(S[d]) :
               /\ S[d][j] = R[c][i]
               /\ \/ c = a /\ d = a /\ j = i + 1
                  \/ c = b /\ i = Len(t) + 1 /\ d = a /\ j = 1
                  \/ c # a /\ d = c /\ j = i /\ (c = b => i <= Len(t))
    BY <1>5
  <2>2. PICK j \in 1..Len(S[d]) : S[d][j] = R[c][i]
    BY <2>1
  <2> QED BY <2>2 DEF Once
<1>8. ASSUME NEW p \in T
      PROVE  \E c \in Places : \E i \in 1..Len(R[c]) : R[c][i] = p
  <2>1. PICK d \in Places : \E j \in 1..Len(S[d]) : S[d][j] = p
    BY DEF Once
  <2>2. PICK j \in 1..Len(S[d]) : S[d][j] = p
    BY <2>1
  <2>3. \E c \in Places : \E i \in 1..Len(R[c]) : R[c][i] = S[d][j]
    BY <1>6
  <2> QED BY <2>2, <2>3
<1>9. ASSUME NEW c \in Places, NEW e \in Places,
             NEW i \in 1..Len(R[c]), NEW k \in 1..Len(R[e]), R[c][i] = R[e][k]
      PROVE  c = e /\ i = k
  <2>1. PICK d \in Places : \E j \in 1..Len(S[d]) :
               /\ S[d][j] = R[c][i]
               /\ \/ c = a /\ d = a /\ j = i + 1
                  \/ c = b /\ i = Len(t) + 1 /\ d = a /\ j = 1
                  \/ c # a /\ d = c /\ j = i /\ (c = b => i <= Len(t))
    BY <1>5
  <2>2. PICK j \in 1..Len(S[d]) :
               /\ S[d][j] = R[c][i]
               /\ \/ c = a /\ d = a /\ j = i + 1
                  \/ c = b /\ i = Len(t) + 1 /\ d = a /\ j = 1
                  \/ c # a /\ d = c /\ j = i /\ (c = b => i <= Len(t))
    BY <2>1
  <2>3. PICK f \in Places : \E l \in 1..Len(S[f]) :
               /\ S[f][l] = R[e][k]
               /\ \/ e = a /\ f = a /\ l = k + 1
                  \/ e = b /\ k = Len(t) + 1 /\ f = a /\ l = 1
                  \/ e # a /\ f = e /\ l = k /\ (e = b => k <= Len(t))
    BY <1>5
  <2>4. PICK l \in 1..Len(S[f]) :
               /\ S[f][l] = R[e][k]
               /\ \/ e = a /\ f = a /\ l = k + 1
                  \/ e = b /\ k = Len(t) + 1 /\ f = a /\ l = 1
                  \/ e # a /\ f = e /\ l = k /\ (e = b => k <= Len(t))
    BY <2>3
  <2>5. d = f /\ j = l
    BY <1>9, <2>2, <2>4 DEF Once
  <2> QED BY <1>0, <1>4, <2>2, <2>4, <2>5
<1> QED BY <1>7, <1>8, <1>9 DEF Once

\* What store a holds is handed over to store b, which is empty.
LEMMA AllMoves ==
    ASSUME NEW S \in Stores, NEW T, Once(S, T), NEW a \in Places, NEW b \in Places, a # b,
           S[b] = <<>>, NEW R \in Stores, R[a] = <<>>, R[b] = S[a],
           \A c \in Places : c # a /\ c # b => R[c] = S[c]
    PROVE  Once(R, T)
<1>1. ASSUME NEW c \in Places, NEW i \in 1..Len(R[c])
      PROVE  \E d \in Places : /\ i \in 1..Len(S[d]) /\ S[d][i] = R[c][i]
                               /\ c # a /\ d # b /\ d = IF c = b THEN a ELSE c
  <2>1. c # a
    BY <1>1
  <2> QED BY <1>1, <2>1
<1>2. ASSUME NEW d \in Places, NEW i \in 1..Len(S[d])
      PROVE  \E c \in Places : i \in 1..Len(R[c]) /\ R[c][i] = S[d][i]
  <2>1. d # b
    BY <1>2
  <2> QED BY <1>2, <2>1
<1>3. \A c \in Places : \A i \in 1..Len(R[c]) : R[c][i] \in T
  BY <1>1 DEF Once
<1>4. \A p \in T : \E c \in Places : \E i \in 1..Len(R[c]) : R[c][i] = p
  BY <1>2 DEF Once
<1>5. ASSUME NEW c \in Places, NEW e \in Places,
             NEW i \in 1..Len(R[c]), NEW k \in 1..Len(R[e]), R[c][i] = R[e][k]
      PROVE  c = e /\ i = k
  <2>1. PICK d \in Places : /\ i \in 1..Len(S[d]) /\ S[d][i] = R[c][i]
                            /\ c # a /\ d # b /\ d = IF c = b THEN a ELSE c
    BY <1>1
  <2>2. PICK f \in Places : /\ k \in 1..Len(S[f]) /\ S[f][k] = R[e][k]
                            /\ e # a /\ f # b /\ f = IF e = b THEN a ELSE e
    BY <1>1
  <2>3. d = f /\ i = k
    BY <1>5, <2>1, <2>2 DEF Once
  <2> QED BY <2>1, <2>2, <2>3
<1> QED BY <1>3, <1>4, <1>5 DEF Once

-----------------------------------------------------------------------------
(* The stores of the tunnel, and what the steps do with them. *)

QueuesOf(k) == [l \in Links |-> IF k[l].queue = NULL THEN <<>> ELSE k[l].queue]
HandOf(r) == IF r.at \in {"rewrite", "write"} THEN <<r.pkt>> ELSE <<>>
StoresOf(h, w, f, q) ==
    [a \in Places |->
       IF a = Hand THEN h ELSE IF a = Written THEN w
       ELSE IF a = ByJava THEN f["java"] ELSE IF a = ByRouter THEN f["router"]
       ELSE q[a]]

queues == QueuesOf(link)
stores == StoresOf(HandOf(router), written, flushing, queues)

\* The packets of a queue are in the order in which they were sent.
Building == {"build", "queued", "threw", "check", "failed"}
Ordered ==
    \A l \in Links : \A i \in 1 .. Len(queues[l]) :
        /\ i <= queues[l][i] /\ queues[l][i] <= npackets
        /\ router.at # "idle" => queues[l][i] < npackets

\* No queue is deleted with packets in it.
Fresh ==
    /\ router.at \in Building => queues[router.link] = <<>>
    /\ \A l \in Links : ~ Live(l) => queues[l] = <<>>

\* The packet of a build is not yet one of those taken.
TakenSent ==
    /\ taken \subseteq 1 .. npackets
    /\ router.at \in Building \cup {"create"} => npackets \notin taken

SInv == Ordered /\ Fresh /\ TakenSent /\ Once(stores, taken)

\* What each store is.
MadeOf(S, h, w, f, q) ==
    /\ S \in Stores
    /\ Hand \in Places /\ Written \in Places /\ ByJava \in Places /\ ByRouter \in Places
    /\ S[Hand] = h /\ S[Written] = w
    /\ S[ByJava] = f["java"] /\ S[ByRouter] = f["router"]
    /\ \A a \in Places : a = Hand \/ a = Written \/ a = ByJava \/ a = ByRouter \/ a \in Links
    /\ \A l \in Links : /\ l \in Places /\ S[l] = q[l]
                        /\ l # Hand /\ l # Written /\ l # ByJava /\ l # ByRouter

\* The stores are made of the sequences that StoresOf is given.
LEMMA StoreFacts ==
    ASSUME NEW h \in Seq(Packets), NEW w \in Seq(Packets),
           NEW f \in [Threads -> Seq(Packets)], NEW q \in [Links -> Seq(Packets)]
    PROVE  MadeOf(StoresOf(h, w, f, q), h, w, f, q)
<1>0. PICK S : S = StoresOf(h, w, f, q)
  OBVIOUS
<1>1. /\ Hand \in Places /\ Written \in Places /\ ByJava \in Places /\ ByRouter \in Places
      /\ Hand # Written /\ Hand # ByJava /\ Hand # ByRouter /\ Written # ByJava
      /\ Written # ByRouter /\ ByJava # ByRouter
  BY NumbersAssumption DEF Places, Hand, Written, ByJava, ByRouter
<1>2. \A l \in Links : /\ l \in Places
                       /\ l # Hand /\ l # Written /\ l # ByJava /\ l # ByRouter
  BY NumbersAssumption DEF Places, Links, Hand, Written, ByJava, ByRouter
<1>3. \A a \in Places : a = Hand \/ a = Written \/ a = ByJava \/ a = ByRouter \/ a \in Links
  BY NumbersAssumption DEF Places, Links, Hand, Written, ByJava, ByRouter
<1>4. f["java"] \in Seq(Packets) /\ f["router"] \in Seq(Packets)
  BY DEF Threads
<1>5. \A a \in Places :
        S[a] = IF a = Hand THEN h ELSE IF a = Written THEN w
               ELSE IF a = ByJava THEN f["java"] ELSE IF a = ByRouter THEN f["router"]
               ELSE q[a]
  BY <1>0 DEF StoresOf
<1>6. S = [a \in Places |-> S[a]]
  BY <1>0 DEF StoresOf
<1>7. \A a \in Places : S[a] \in Seq(Packets)
  BY <1>3, <1>4, <1>5
<1>8. S \in Stores
  BY <1>6, <1>7 DEF Stores
<1> QED BY <1>0, <1>1, <1>2, <1>3, <1>5, <1>8 DEF MadeOf

\* The queues are sequences of packets.
LEMMA QueuesType ==
    ASSUME NEW k \in [Links -> NatLinks]
    PROVE  /\ QueuesOf(k) \in [Links -> Seq(Packets)]
           /\ \A l \in Links : QueuesOf(k)[l] = IF k[l].queue = NULL THEN <<>> ELSE k[l].queue
<1>1. ASSUME NEW l \in Links
      PROVE  (IF k[l].queue = NULL THEN <<>> ELSE k[l].queue) \in Seq(Packets)
  <2>1. k[l].queue \in Seq(Packets) \cup {NULL}
    BY DEF NatLinks
  <2> QED BY <2>1
<1> QED BY <1>1 DEF QueuesOf

\* The hand of the router is a sequence of packets.
LEMMA HandType ==
    ASSUME NEW r, r.at \in {"rewrite", "write"} => r.pkt \in Packets
    PROVE  HandOf(r) \in Seq(Packets)
<1>1. CASE r.at \in {"rewrite", "write"}
  <2>1. PICK x \in Packets : x = r.pkt
    BY <1>1
  <2>2. <<x>> \in Seq(Packets)
    OBVIOUS
  <2> QED BY <1>1, <2>1, <2>2 DEF HandOf
<1>2. CASE r.at \notin {"rewrite", "write"}
  <2>1. <<>> \in Seq(Packets)
    OBVIOUS
  <2> QED BY <1>2, <2>1 DEF HandOf
<1> QED BY <1>1, <1>2

\* The types of what the stores are made of, before and after a step.
LEMMA StoreTypes ==
    ASSUME IInv
    PROVE  /\ HandOf(router) \in Seq(Packets) /\ written \in Seq(Packets)
           /\ flushing \in [Threads -> Seq(Packets)] /\ queues \in [Links -> Seq(Packets)]
           /\ router.at # "idle" => router.pkt = npackets /\ npackets \in Packets
           /\ npackets \in Nat
<1>1. router.at # "idle" => router.pkt = npackets /\ npackets \in Packets
  BY DEF IInv, InHand, Bounded, TypeOK, Packets
<1>2. HandOf(router) \in Seq(Packets)
  BY <1>1, HandType
<1>3. queues \in [Links -> Seq(Packets)]
  BY QueuesType DEF queues, IInv, TypeOK
<1> QED BY <1>1, <1>2, <1>3 DEF IInv, TypeOK
\* The same of the state after a step.
LEMMA StoreTypesNext ==
    ASSUME IInv'
    PROVE  /\ HandOf(router') \in Seq(Packets) /\ written' \in Seq(Packets)
           /\ flushing' \in [Threads -> Seq(Packets)] /\ queues' \in [Links -> Seq(Packets)]
           /\ router'.at # "idle" => router'.pkt = npackets' /\ npackets' \in Packets
           /\ npackets' \in Nat
<1>1. router'.at # "idle" => router'.pkt = npackets' /\ npackets' \in Packets
  BY DEF IInv, InHand, Bounded, TypeOK, Packets
<1>2. HandOf(router') \in Seq(Packets)
  BY <1>1, HandType
<1>3. queues' \in [Links -> Seq(Packets)]
  BY QueuesType DEF queues, IInv, TypeOK
<1> QED BY <1>1, <1>2, <1>3 DEF IInv, TypeOK

\* Steps that move no packet.
LEMMA NoneMoves ==
    ASSUME IInv, SInv, IInv', queues' = queues, HandOf(router') = HandOf(router),
           UNCHANGED <<written, flushing, taken>>,
           npackets' >= npackets,
           router'.at # "idle" => npackets' > npackets \/ router.at # "idle",
           router'.at \in Building => queues[router'.link] = <<>>,
           \A l \in Links : Live(l) => Live(l)',
           router'.at \in Building \cup {"create"} => npackets' \notin taken
    PROVE  SInv'
<1>1. npackets \in Nat /\ npackets' \in Nat
  BY StoreTypes, StoreTypesNext
<1>2. \A l \in Links : \A i \in 1..Len(queues[l]) : queues[l][i] \in Nat
  <2>1. queues \in [Links -> Seq(Packets)]
    BY StoreTypes
  <2>2. \A x \in Packets : x \in Nat
    BY DEF Packets
  <2> QED BY <2>1, <2>2
<1>3. Ordered'
  <2>1. ASSUME NEW l \in Links, NEW i \in 1..Len(queues[l])
        PROVE  /\ i <= queues[l][i] /\ queues[l][i] <= npackets'
               /\ router'.at # "idle" => queues[l][i] < npackets'
    <3>1. /\ i <= queues[l][i] /\ queues[l][i] <= npackets
          /\ router.at # "idle" => queues[l][i] < npackets
      BY DEF SInv, Ordered
    <3>2. queues[l][i] \in Nat
      BY <1>2
    <3> QED BY <1>1, <3>1, <3>2
  <2> QED BY <2>1 DEF Ordered
<1>4. Fresh'
  BY DEF SInv, Fresh
<1>5. TakenSent'
  BY <1>1 DEF SInv, TakenSent
<1>6. stores' = stores
  BY DEF stores
<1> QED BY <1>3, <1>4, <1>5, <1>6 DEF SInv

\* The router takes its packet for a link that was found or built.
LEMMA PacketTaken ==
    ASSUME IInv, SInv, IInv', queues' = queues, UNCHANGED <<written, flushing>>,
           router.at \notin {"rewrite", "write"}, router'.at = "rewrite",
           npackets' \notin taken, taken' = taken \cup {npackets'},
           npackets' >= npackets, router.at = "idle" => npackets' > npackets,
           \A l \in Links : Live(l) => Live(l)'
    PROVE  SInv'
<1>1. npackets \in Nat /\ npackets' \in Packets /\ npackets' \in Nat /\ router'.pkt = npackets'
  BY StoreTypes, StoreTypesNext
<1>2. \A l \in Links : \A i \in 1..Len(queues[l]) : queues[l][i] \in Nat
  <2>1. queues \in [Links -> Seq(Packets)]
    BY StoreTypes
  <2>2. \A x \in Packets : x \in Nat
    BY DEF Packets
  <2> QED BY <2>1, <2>2
<1>3. Ordered'
  <2>1. ASSUME NEW l \in Links, NEW i \in 1..Len(queues[l])
        PROVE  i <= queues[l][i] /\ queues[l][i] <= npackets' /\ queues[l][i] < npackets'
    <3>1. /\ i <= queues[l][i] /\ queues[l][i] <= npackets
          /\ router.at # "idle" => queues[l][i] < npackets
      BY DEF SInv, Ordered
    <3>2. queues[l][i] \in Nat
      BY <1>2
    <3> QED BY <1>1, <3>1, <3>2
  <2> QED BY <2>1 DEF Ordered
<1>4. Fresh'
  BY DEF SInv, Fresh, Building
<1>5. TakenSent'
  <2>1. \A x \in taken : x \in 1..npackets'
    BY <1>1 DEF SInv, TakenSent
  <2>2. npackets' \in 1..npackets'
    BY <1>1 DEF Packets
  <2> QED BY <2>1, <2>2 DEF TakenSent, Building
<1>6. PICK S : S = stores /\ Once(S, taken)
  BY DEF SInv
<1>7. PICK R : R = stores'
  OBVIOUS
<1>8. S = StoresOf(HandOf(router), written, flushing, queues)
  BY <1>6 DEF stores
<1>9. R = StoresOf(HandOf(router'), written, flushing, queues)
  BY <1>7 DEF stores
<1>10. HandOf(router) = <<>> /\ HandOf(router') = <<npackets'>>
  BY <1>1 DEF HandOf
<1>11. /\ HandOf(router) \in Seq(Packets) /\ written \in Seq(Packets)
       /\ flushing \in [Threads -> Seq(Packets)] /\ queues \in [Links -> Seq(Packets)]
       /\ HandOf(router') \in Seq(Packets)
  BY StoreTypes, StoreTypesNext
<1>12. S \in Stores /\ Hand \in Places /\ S[Hand] = <<>>
  <2>1. MadeOf(S, HandOf(router), written, flushing, queues)
    BY <1>8, <1>11, StoreFacts
  <2> QED BY <1>10, <2>1 DEF MadeOf
<1>13. R \in Stores /\ R[Hand] = <<npackets'>>
  <2>1. MadeOf(R, HandOf(router'), written, flushing, queues)
    BY <1>9, <1>11, StoreFacts
  <2> QED BY <1>10, <2>1 DEF MadeOf
<1>14. \A a \in Places : a # Hand => R[a] = S[a]
  BY <1>8, <1>9 DEF StoresOf
<1>15. Once(R, taken \cup {npackets'})
  BY <1>1, <1>6, <1>12, <1>13, <1>14, Enters
<1> QED BY <1>3, <1>4, <1>5, <1>7, <1>15 DEF SInv

\* The router puts its packet down, and takes no other.
LEMMA PacketDone ==
    ASSUME IInv, SInv, IInv', router'.at = "idle", UNCHANGED <<npackets, taken, links>>
    PROVE  /\ TakenSent'
           /\ queues' = queues => Ordered' /\ Fresh'
<1>1. TakenSent'
  BY DEF SInv, TakenSent, Building
<1>2. queues' = queues => Ordered'
  BY DEF SInv, Ordered
<1>3. queues' = queues => Fresh'
  BY DEF SInv, Fresh, Building, Live
<1> QED BY <1>1, <1>2, <1>3

\* A packet goes from the hand to what was written.
LEMMA WriteStores ==
    ASSUME IInv, SInv, IInv', Write
    PROVE  SInv'
<1>1. /\ router.at = "write" /\ router' = Idle /\ UNCHANGED <<table, npackets, flushing, taken>>
      /\ written' = Append(written, router.pkt)
  BY DEF Write, RouterAt
<1>2. queues' = queues /\ router'.at = "idle"
  BY <1>1 DEF queues, table, Idle
<1>3. TakenSent' /\ Ordered' /\ Fresh'
  BY <1>1, <1>2, PacketDone DEF table
<1>4. PICK S : S = stores /\ Once(S, taken)
  BY DEF SInv
<1>5. PICK R : R = stores'
  OBVIOUS
<1>6. S = StoresOf(HandOf(router), written, flushing, queues)
  BY <1>4 DEF stores
<1>7. R = StoresOf(HandOf(router'), written', flushing, queues)
  BY <1>1, <1>2, <1>5 DEF stores
<1>8. HandOf(router) = <<router.pkt>> /\ HandOf(router') = <<>>
  BY <1>1, <1>2 DEF HandOf
<1>9. /\ HandOf(router) \in Seq(Packets) /\ written \in Seq(Packets)
      /\ flushing \in [Threads -> Seq(Packets)] /\ queues \in [Links -> Seq(Packets)]
      /\ HandOf(router') \in Seq(Packets) /\ written' \in Seq(Packets)
  BY StoreTypes, StoreTypesNext
<1>10. /\ S \in Stores /\ Hand \in Places /\ Written \in Places
       /\ S[Hand] = <<router.pkt>> /\ S[Written] = written
  <2>1. MadeOf(S, HandOf(router), written, flushing, queues)
    BY <1>6, <1>9, StoreFacts
  <2> QED BY <1>8, <2>1 DEF MadeOf
<1>11. R \in Stores /\ R[Hand] = <<>> /\ R[Written] = written'
  <2>1. MadeOf(R, HandOf(router'), written', flushing, queues)
    BY <1>7, <1>9, StoreFacts
  <2> QED BY <1>8, <2>1 DEF MadeOf
<1>12. \A a \in Places : a # Hand /\ a # Written => R[a] = S[a]
  BY <1>6, <1>7 DEF StoresOf
<1>13. S[Hand] # <<>> /\ Tail(S[Hand]) = <<>> /\ Head(S[Hand]) = router.pkt
  BY <1>10
<1>14. R[Hand] = Tail(S[Hand]) /\ R[Written] = Append(S[Written], Head(S[Hand]))
  BY <1>1, <1>10, <1>11, <1>13
<1>15. Hand # Written
  BY DEF Hand, Written
<1>16. Once(R, taken)
  <2>1. Moved(S, R, Hand, Written)
    BY <1>10, <1>12, <1>13, <1>14, <1>15 DEF Moved
  <2> QED BY <1>4, <1>10, <1>11, <2>1, HeadMoves
<1> QED BY <1>1, <1>3, <1>5, <1>16 DEF SInv

\* A packet goes from a detached queue to what was written.
LEMMA FlushStores ==
    ASSUME IInv, SInv, IInv', NEW t \in Threads, Flush(t)
    PROVE  SInv'
<1>1. /\ flushing[t] # <<>> /\ written' = Append(written, Head(flushing[t]))
      /\ flushing' = [flushing EXCEPT ![t] = Tail(flushing[t])]
      /\ UNCHANGED <<table, npackets, router, taken>>
  BY DEF Flush
<1>2. queues' = queues
  BY <1>1 DEF queues, table
<1>3. Ordered' /\ Fresh' /\ TakenSent'
  <2>1. Ordered'
    BY <1>1, <1>2 DEF SInv, Ordered
  <2>2. Fresh'
    BY <1>1, <1>2 DEF SInv, Fresh, Live, table
  <2>3. TakenSent'
    BY <1>1 DEF SInv, TakenSent
  <2> QED BY <2>1, <2>2, <2>3
<1>4. PICK S : S = stores /\ Once(S, taken)
  BY DEF SInv
<1>5. PICK R : R = stores'
  OBVIOUS
<1>6. S = StoresOf(HandOf(router), written, flushing, queues)
  BY <1>4 DEF stores
<1>7. R = StoresOf(HandOf(router), written', flushing', queues)
  BY <1>1, <1>2, <1>5 DEF stores
<1>8. /\ HandOf(router) \in Seq(Packets) /\ written \in Seq(Packets)
      /\ flushing \in [Threads -> Seq(Packets)] /\ queues \in [Links -> Seq(Packets)]
      /\ flushing' \in [Threads -> Seq(Packets)] /\ written' \in Seq(Packets)
  BY StoreTypes, StoreTypesNext
<1>9. PICK b : b = IF t = "java" THEN ByJava ELSE ByRouter
  OBVIOUS
<1>10. /\ S \in Stores /\ b \in Places /\ Written \in Places
       /\ S[b] = flushing[t] /\ S[Written] = written
  <2>1. MadeOf(S, HandOf(router), written, flushing, queues)
    BY <1>6, <1>8, StoreFacts
  <2> QED BY <1>9, <2>1 DEF Threads, MadeOf
<1>11. R \in Stores /\ R[b] = flushing'[t] /\ R[Written] = written'
  <2>1. MadeOf(R, HandOf(router), written', flushing', queues)
    BY <1>7, <1>8, StoreFacts
  <2> QED BY <1>9, <2>1 DEF Threads, MadeOf
<1>12. ASSUME NEW a \in Places, a # b, a # Written
       PROVE  R[a] = S[a]
  <2>1. \A u \in Threads : u # t => flushing'[u] = flushing[u]
    BY <1>1, <1>8
  <2>2. "java" \in Threads /\ "router" \in Threads /\ t \in {"java", "router"}
    BY DEF Threads
  <2>3. a = ByJava => t # "java"
    BY <1>9, <1>12
  <2>4. a = ByRouter => t # "router"
    BY <1>9, <1>12, <2>2
  <2>5. a = ByJava => flushing'["java"] = flushing["java"]
    BY <2>1, <2>2, <2>3
  <2>6. a = ByRouter => flushing'["router"] = flushing["router"]
    BY <2>1, <2>2, <2>4
  <2> QED BY <1>6, <1>7, <1>12, <2>5, <2>6 DEF StoresOf
<1>13. R[b] = Tail(S[b]) /\ R[Written] = Append(S[Written], Head(S[b])) /\ S[b] # <<>>
  <2>1. flushing'[t] = Tail(flushing[t])
    BY <1>1, <1>8
  <2> QED BY <1>1, <1>10, <1>11, <2>1
<1>14. b # Written
  BY <1>9 DEF ByJava, ByRouter, Written
<1>15. Once(R, taken)
  <2>1. Moved(S, R, b, Written)
    BY <1>10, <1>12, <1>13, <1>14 DEF Moved
  <2> QED BY <1>4, <1>10, <1>11, <2>1, HeadMoves
<1> QED BY <1>1, <1>3, <1>5, <1>15 DEF SInv

\* A packet goes from the hand to the queue of its link, or stays there.
LEMMA RewriteStores ==
    ASSUME IInv, SInv, IInv', Rewrite
    PROVE  SInv'
<1>1. router.at = "rewrite" /\ router.link \in Links /\ Live(router.link)
  BY DEF Rewrite, RouterAt, IInv, InHand, Held
<1>2. UNCHANGED <<links, nlinks, npackets, flushing, written, taken>>
  BY DEF Rewrite, history
<1>3. router.pkt = npackets /\ npackets \in Packets /\ router \in RouterStates
  BY <1>1, StoreTypes DEF IInv, TypeOK
<1>4. CASE ~link[router.link].enqueue_packets
  <2>1. UNCHANGED link /\ router' = [router EXCEPT !.at = "write"]
    BY <1>1, <1>4 DEF Rewrite
  <2>2. router'.at = "write" /\ router'.pkt = router.pkt
    BY <1>3, <2>1 DEF RouterStates
  <2>3. HandOf(router') = HandOf(router) /\ queues' = queues
    BY <1>1, <2>1, <2>2 DEF HandOf, queues
  <2>4. npackets' >= npackets
    BY <1>2, StoreTypes
  <2>5. \A l \in Links : Live(l) => Live(l)'
    BY <1>2, SameList
  <2> QED BY <1>1, <1>2, <2>2, <2>3, <2>4, <2>5, NoneMoves DEF Building
<1>5. CASE link[router.link].enqueue_packets
  <2>1. PICK m \in Links : m = router.link
    BY <1>1
  <2>2. /\ HandOf(router) \in Seq(Packets) /\ written \in Seq(Packets)
        /\ flushing \in [Threads -> Seq(Packets)] /\ queues \in [Links -> Seq(Packets)]
        /\ HandOf(router') \in Seq(Packets) /\ queues' \in [Links -> Seq(Packets)]
    BY StoreTypes, StoreTypesNext
  <2>3. PICK s \in Seq(Packets) : s = queues[m]
    BY <2>2
  <2>4. link[m].queue = s /\ link[m].queue # NULL
    <3>1. link[m].queue # NULL
      BY <1>5, <2>1 DEF IInv, Queues
    <3>2. link \in [Links -> NatLinks]
      BY DEF IInv, TypeOK
    <3> QED BY <2>3, <3>1, <3>2, QueuesType DEF queues
  <2>5. PICK z \in Seq(Packets) :
          /\ z = Append(s, npackets) /\ Len(z) = Len(s) + 1 /\ z[Len(s) + 1] = npackets
          /\ \A i \in 1..Len(s) : z[i] = s[i]
    <3>1. PICK x \in Packets : x = npackets
      BY <1>3
    <3>2. PICK z \in Seq(Packets) : z = Append(s, x)
      <4>1. Append(s, x) \in Seq(Packets)
        OBVIOUS
      <4> QED BY <4>1
    <3>3. /\ Len(z) = Len(s) + 1 /\ z[Len(s) + 1] = x
          /\ \A i \in 1..Len(s) : z[i] = s[i]
      BY <2>3, <3>1, <3>2
    <3> QED BY <3>1, <3>2, <3>3
  <2>6. link' = [link EXCEPT ![m].queue = z] /\ router' = Idle
    BY <1>1, <1>3, <1>5, <2>1, <2>4, <2>5 DEF Rewrite
  <2>7. router'.at = "idle"
    BY <2>6 DEF Idle
  <2>8. queues'[m] = z /\ \A k \in Links : k # m => queues'[k] = queues[k]
    <3>1. link \in [Links -> NatLinks] /\ link' \in [Links -> NatLinks]
      BY DEF IInv, TypeOK
    <3>2. PICK r \in NatLinks : r = link[m]
      BY <3>1
    <3>3. link'[m] = [r EXCEPT !.queue = z]
      BY <2>6, <3>1, <3>2
    <3>4. link'[m].queue = z
      BY <3>2, <3>3 DEF NatLinks
    <3>5. z # NULL
      BY NullAssumption DEF Packets
    <3>6. \A k \in Links : k # m => link'[k] = link[k]
      BY <2>6, <3>1
    <3>7. \A k \in Links : /\ queues[k] = IF link[k].queue = NULL THEN <<>> ELSE link[k].queue
                           /\ queues'[k] = IF link'[k].queue = NULL THEN <<>> ELSE link'[k].queue
      BY <3>1, QueuesType DEF queues
    <3> QED BY <3>4, <3>5, <3>6, <3>7
  <2>9. TakenSent'
    BY <1>2, <2>7, PacketDone
  <2>10. Ordered'
    <3>1. ASSUME NEW k \in Links, NEW i \in 1..Len(queues'[k])
          PROVE  i <= queues'[k][i] /\ queues'[k][i] <= npackets
      <4>1. CASE k # m
        BY <2>8, <4>1 DEF SInv, Ordered
      <4>2. CASE k = m
        <5>1. Len(s) \in Nat /\ npackets \in Nat /\ npackets > 0
          BY <1>3 DEF Packets
        <5>2. \A j \in 1..Len(s) : j <= s[j] /\ s[j] < npackets /\ s[j] \in Nat
          <6>1. \A j \in 1..Len(s) : j <= s[j] /\ s[j] < npackets
            BY <1>1, <2>3 DEF SInv, Ordered
          <6>2. \A j \in 1..Len(s) : s[j] \in Packets
            BY <2>3
          <6>3. \A x \in Packets : x \in Nat
            BY DEF Packets
          <6> QED BY <6>1, <6>2, <6>3
        <5>3. Len(s) + 1 <= npackets
          <6>1. CASE Len(s) = 0
            BY <5>1, <6>1
          <6>2. CASE Len(s) > 0
            <7>1. Len(s) \in 1..Len(s)
              BY <5>1, <6>2
            <7>2. Len(s) <= s[Len(s)] /\ s[Len(s)] < npackets /\ s[Len(s)] \in Nat
              BY <5>2, <7>1
            <7> QED BY <5>1, <7>2
          <6> QED BY <5>1, <6>1, <6>2
        <5>4. CASE i = Len(s) + 1
          BY <2>5, <2>8, <4>2, <5>1, <5>3, <5>4
        <5>5. CASE i # Len(s) + 1
          <6>1. i \in 1..Len(s)
            BY <2>5, <2>8, <4>2, <5>1, <5>5
          <6>2. i <= s[i] /\ s[i] < npackets /\ s[i] \in Nat
            BY <5>2, <6>1
          <6>3. z[i] = s[i]
            BY <2>5, <6>1
          <6> QED BY <2>8, <4>2, <5>1, <6>2, <6>3
        <5> QED BY <5>4, <5>5
      <4> QED BY <4>1, <4>2
    <3> QED BY <1>2, <2>7, <3>1 DEF Ordered
  <2>11. Fresh'
    <3>1. \A k \in Links : Live(k)' <=> Live(k)
      BY <1>2, SameList
    <3> QED BY <1>1, <2>1, <2>7, <2>8, <3>1 DEF SInv, Fresh, Building
  <2>12. PICK S : S = stores /\ Once(S, taken)
    BY DEF SInv
  <2>13. PICK R : R = stores'
    OBVIOUS
  <2>14. /\ S = StoresOf(HandOf(router), written, flushing, queues)
         /\ MadeOf(S, HandOf(router), written, flushing, queues)
    BY <2>2, <2>12, StoreFacts DEF stores
  <2>15. /\ R = StoresOf(HandOf(router'), written, flushing, queues')
         /\ MadeOf(R, HandOf(router'), written, flushing, queues')
    BY <1>2, <2>2, <2>13, StoreFacts DEF stores
  <2>16. HandOf(router) = <<npackets>> /\ HandOf(router') = <<>>
    BY <1>1, <1>3, <2>7 DEF HandOf
  <2>17. /\ S \in Stores /\ R \in Stores /\ Hand \in Places /\ m \in Places /\ Hand # m
         /\ S[Hand] = <<npackets>> /\ R[Hand] = <<>> /\ S[m] = s /\ R[m] = z
    BY <2>3, <2>8, <2>14, <2>15, <2>16 DEF MadeOf
  <2>18. S[Hand] # <<>> /\ Tail(S[Hand]) = <<>> /\ Head(S[Hand]) = npackets
    BY <2>17
  <2>19. ASSUME NEW a \in Places, a # Hand, a # m
         PROVE  R[a] = S[a]
    <3>1. CASE a \in Links
      BY <2>8, <2>14, <2>15, <2>19, <3>1 DEF MadeOf
    <3>2. CASE a \notin Links
      BY <2>14, <2>15, <2>19, <3>2 DEF MadeOf
    <3> QED BY <3>1, <3>2
  <2>20. R[Hand] = Tail(S[Hand]) /\ R[m] = Append(S[m], Head(S[Hand]))
    BY <2>5, <2>17, <2>18
  <2>21. \A a \in Places : a # Hand /\ a # m => R[a] = S[a]
    BY <2>19
  <2>22. Once(R, taken)
    <3>1. Moved(S, R, Hand, m)
      BY <2>17, <2>18, <2>20, <2>21 DEF Moved
    <3> QED BY <2>12, <2>17, <3>1, HeadMoves
  <2> QED BY <1>2, <2>9, <2>10, <2>11, <2>13, <2>22 DEF SInv
<1> QED BY <1>4, <1>5

\* A walk hands over the queue of the link it answers, if it deletes no queue
\* with packets in it.
LEMMA WalkStores ==
    ASSUME IInv, SInv, IInv', NEW t \in Threads, NEW l \in Links, NEW p \in {-1, 0, 1},
           SetPidForLink(t, l, p), flushing[t] = <<>>,
           UNCHANGED <<nlinks, npackets, written, taken>>,
           HandOf(router') = HandOf(router), router'.at = "idle" \/ router' = router,
           \A k \in Links : Removed(k, l) => queues[k] = <<>>
    PROVE  SInv'
<1>1. TypeOK /\ Descending /\ link \in [Links -> NatLinks] /\ link' \in [Links -> NatLinks]
  BY DEF IInv, TypeOK
<1>2. \A k \in Links : Live(k)' <=> Live(k) /\ ~Removed(k, l)
  BY <1>1, WalkList
<1>3. \A k \in Links : /\ Removed(k, l) => Gone(k)
                       /\ k = l /\ Found(l) => Told(l, p)
                       /\ ~Removed(k, l) /\ ~(k = l /\ Found(l)) => Left(k)
  BY <1>1, WalkLinks
<1>4. \A k \in Links : /\ queues[k] = IF link[k].queue = NULL THEN <<>> ELSE link[k].queue
                       /\ queues'[k] = IF link'[k].queue = NULL THEN <<>> ELSE link'[k].queue
  BY <1>1, QueuesType DEF queues
<1>5. /\ Found(l) => queues'[l] = <<>>
      /\ \A k \in Links : ~(k = l /\ Found(l)) => queues'[k] = queues[k]
  <2>1. Found(l) => queues'[l] = <<>>
    BY <1>3, <1>4 DEF Told
  <2>2. ASSUME NEW k \in Links, Removed(k, l)
        PROVE  queues'[k] = queues[k]
    BY <1>3, <1>4, <2>2 DEF Gone
  <2>3. ASSUME NEW k \in Links, ~Removed(k, l), ~(k = l /\ Found(l))
        PROVE  queues'[k] = queues[k]
    BY <1>3, <1>4, <2>3 DEF Left
  <2> QED BY <2>1, <2>2, <2>3
<1>6. \A k \in Links : queues'[k] = <<>> \/ queues'[k] = queues[k]
  BY <1>5
<1>7. Ordered'
  <2>1. ASSUME NEW k \in Links, NEW i \in 1..Len(queues'[k])
        PROVE  /\ i <= queues'[k][i] /\ queues'[k][i] <= npackets
               /\ router.at # "idle" => queues'[k][i] < npackets
    <3>1. queues'[k] # <<>>
      OBVIOUS
    <3>2. queues'[k] = queues[k]
      BY <1>6, <3>1
    <3> QED BY <3>2 DEF SInv, Ordered
  <2> QED BY <2>1 DEF Ordered
<1>8. Fresh'
  <2>1. ASSUME router'.at \in Building
        PROVE  queues'[router'.link] = <<>>
    <3>1. router' = router
      BY <2>1 DEF Building
    <3>2. router.link \in Links
      BY <2>1, <3>1 DEF Building, IInv, InHand
    <3> QED BY <1>6, <2>1, <3>1, <3>2 DEF SInv, Fresh
  <2>2. ASSUME NEW k \in Links, ~Live(k)'
        PROVE  queues'[k] = <<>>
    <3>1. queues[k] = <<>>
      BY <1>2, <2>2 DEF SInv, Fresh
    <3> QED BY <1>6, <3>1
  <2> QED BY <2>1, <2>2 DEF Fresh
<1>9. TakenSent'
  BY DEF SInv, TakenSent, Building
<1>10. /\ HandOf(router) \in Seq(Packets) /\ written \in Seq(Packets)
       /\ flushing \in [Threads -> Seq(Packets)] /\ queues \in [Links -> Seq(Packets)]
       /\ flushing' \in [Threads -> Seq(Packets)] /\ queues' \in [Links -> Seq(Packets)]
  BY StoreTypes, StoreTypesNext
<1>11. /\ flushing'[t] = IF Found(l) THEN queues[l] ELSE <<>>
       /\ \A u \in Threads : u # t => flushing'[u] = flushing[u]
  BY <1>4, <1>10 DEF SetPidForLink
<1>12. PICK S : S = stores /\ Once(S, taken)
  BY DEF SInv
<1>13. PICK R : R = stores'
  OBVIOUS
<1>14. MadeOf(S, HandOf(router), written, flushing, queues)
  BY <1>10, <1>12, StoreFacts DEF stores
<1>15. MadeOf(R, HandOf(router), written, flushing', queues')
  BY <1>10, <1>13, StoreFacts DEF stores
<1>16. PICK b : b = IF t = "java" THEN ByJava ELSE ByRouter
  OBVIOUS
<1>17. "java" \in Threads /\ "router" \in Threads /\ t \in {"java", "router"}
  BY DEF Threads
<1>18. /\ S \in Stores /\ R \in Stores /\ b \in Places /\ l \in Places /\ b # l
       /\ S[b] = <<>> /\ R[b] = flushing'[t] /\ S[l] = queues[l] /\ R[l] = queues'[l]
  BY <1>14, <1>15, <1>16, <1>17 DEF MadeOf
<1>19. ASSUME NEW a \in Places, a # b, a # l
       PROVE  R[a] = S[a]
  <2>1. CASE a \in Links
    BY <1>5, <1>14, <1>15, <1>19, <2>1 DEF MadeOf
  <2>2. CASE a = Hand \/ a = Written
    BY <1>14, <1>15, <2>2 DEF MadeOf
  <2>3. CASE a = ByJava
    <3>1. t # "java"
      BY <1>16, <1>19, <2>3
    <3>2. flushing'["java"] = flushing["java"]
      BY <1>11, <1>17, <3>1
    <3> QED BY <1>14, <1>15, <2>3, <3>2 DEF MadeOf
  <2>4. CASE a = ByRouter
    <3>1. t # "router"
      BY <1>16, <1>17, <1>19, <2>4
    <3>2. flushing'["router"] = flushing["router"]
      BY <1>11, <1>17, <3>1
    <3> QED BY <1>14, <1>15, <2>4, <3>2 DEF MadeOf
  <2> QED BY <1>14, <2>1, <2>2, <2>3, <2>4 DEF MadeOf
<1>20. Once(R, taken)
  <2>1. CASE Found(l)
    <3>1. R[l] = <<>> /\ R[b] = S[l]
      BY <1>5, <1>11, <1>18, <2>1
    <3>2. \A a \in Places : a # l /\ a # b => R[a] = S[a]
      BY <1>19
    <3> QED BY <1>12, <1>18, <3>1, <3>2, AllMoves
  <2>2. CASE ~Found(l)
    <3>1. R[l] = S[l] /\ R[b] = S[b]
      BY <1>5, <1>11, <1>18, <2>2
    <3>2. \A a \in Places : R[a] = S[a]
      BY <1>19, <3>1
    <3>3. R = S
      BY <1>18, <3>2 DEF Stores
    <3> QED BY <1>12, <3>3
  <2> QED BY <2>1, <2>2
<1> QED BY <1>7, <1>8, <1>9, <1>13, <1>20 DEF SInv

\* Java's walk deletes no queue with packets in it.
LEMMA JavaSetPidStores ==
    ASSUME IInv, SInv, IInv', JavaSetPid
    PROVE  SInv'
<1>1. JavaAt("setpid") /\ flushing["java"] = <<>> /\ "java" \in Threads
  BY DEF JavaSetPid, JavaAt, Threads
<1>2. java.link \in Links
  BY <1>1 DEF JavaAt, IInv, InHand, JavaHas
<1>3. java.pid \in {-1, 0, 1}
  BY DEF IInv, TypeOK, JavaStates
<1>4. SetPidForLink("java", java.link, java.pid)
  BY DEF JavaSetPid
<1>5. UNCHANGED <<nlinks, npackets, written, taken, router>>
  BY DEF JavaSetPid, history
<1>6. ASSUME NEW k \in Links, Removed(k, java.link)
      PROVE  queues[k] = <<>>
  <2>1. Thrown(k)
    BY <1>1, <1>6, JavaRemoves
  <2> QED BY <2>1 DEF Thrown, Building, SInv, Fresh
<1>7. HandOf(router') = HandOf(router)
  BY <1>5
<1> QED BY <1>1, <1>2, <1>3, <1>4, <1>5, <1>6, <1>7, WalkStores

\* The router's walk deletes no queue with packets in it.
LEMMA BuildFailedStores ==
    ASSUME IInv, SInv, IInv', BuildFailed
    PROVE  SInv'
<1>1. /\ router.at = "failed" /\ flushing["router"] = <<>> /\ "router" \in Threads
      /\ -1 \in {-1, 0, 1}
  BY DEF BuildFailed, RouterAt, Threads
<1>2. router.link \in Links
  BY <1>1 DEF IInv, InHand
<1>3. SetPidForLink("router", router.link, -1)
  BY DEF BuildFailed
<1>4. UNCHANGED <<nlinks, npackets, written, taken>> /\ router'.at = "idle"
  BY DEF BuildFailed, history, Idle
<1>5. ASSUME NEW k \in Links, Removed(k, router.link)
      PROVE  queues[k] = <<>>
  <2>1. Live(k) /\ link[k].socat_pid # 0
    BY <1>5 DEF Removed, Visited, Spent, Failed
  <2>2. CASE Thrown(k)
    BY <2>2 DEF Thrown, Building, SInv, Fresh
  <2>3. CASE ~link[k].enqueue_packets
    <3>1. link[k].queue = NULL
      BY <2>3 DEF IInv, Queues
    <3> QED BY <3>1 DEF queues, QueuesOf
  <2> QED BY <2>1, <2>2, <2>3 DEF IInv, AnsweredInTurn
<1>6. HandOf(router') = HandOf(router)
  BY <1>1, <1>4 DEF HandOf
<1> QED BY <1>1, <1>2, <1>3, <1>4, <1>5, <1>6, WalkStores

\* A built link takes the packet that it was built for.
LEMMA CheckPidStores ==
    ASSUME IInv, SInv, IInv', CheckPid
    PROVE  SInv'
<1>1. router.at = "check" /\ router.link \in Links /\ router \in RouterStates
  BY DEF CheckPid, RouterAt, IInv, InHand, TypeOK
<1>2. UNCHANGED <<links, nlinks, npackets, flushing, written>>
  BY DEF CheckPid
<1>3. npackets' >= npackets
  BY <1>2, StoreTypes
<1>4. \A l \in Links : Live(l) => Live(l)'
  BY <1>2, SameList
<1>5. queues[router.link] = <<>> /\ npackets \notin taken
  BY <1>1 DEF SInv, Fresh, TakenSent, Building
<1>6. CASE ~Live(router.link)
  <2>1. UNCHANGED <<link, router, taken>>
    BY <1>6 DEF CheckPid
  <2>2. queues' = queues /\ HandOf(router') = HandOf(router)
    BY <2>1 DEF queues
  <2> QED BY <1>1, <1>2, <1>3, <1>4, <1>5, <2>1, <2>2, NoneMoves
<1>7. CASE Live(router.link) /\ Failed(router.link)
  <2>1. /\ link' = [link EXCEPT ![router.link].open = FALSE]
        /\ router' = [router EXCEPT !.at = "failed"] /\ UNCHANGED taken
    BY <1>7 DEF CheckPid
  <2>2. router'.at = "failed" /\ router'.link = router.link
    BY <1>1, <2>1 DEF RouterStates
  <2>3. HandOf(router') = HandOf(router)
    BY <1>1, <2>2 DEF HandOf
  <2>4. queues' = queues
    <3>1. link \in [Links -> NatLinks]
      BY DEF IInv, TypeOK
    <3>2. ASSUME NEW k \in Links PROVE link'[k].queue = link[k].queue
      <4>1. PICK r \in NatLinks : r = link[k]
        BY <3>1
      <4>2. link'[k] = link[k] \/ link'[k] = [link[k] EXCEPT !.open = FALSE]
        BY <2>1, <3>1
      <4> QED BY <4>1, <4>2 DEF NatLinks
    <3> QED BY <3>2 DEF queues, QueuesOf
  <2> QED BY <1>1, <1>2, <1>3, <1>4, <1>5, <2>1, <2>2, <2>3, <2>4, NoneMoves
<1>8. CASE Live(router.link) /\ ~Failed(router.link)
  <2>1. /\ router' = [router EXCEPT !.at = "rewrite"]
        /\ taken' = taken \cup {router.pkt} /\ UNCHANGED link
    BY <1>8 DEF CheckPid
  <2>2. router'.at = "rewrite"
    BY <1>1, <2>1 DEF RouterStates
  <2>3. taken' = taken \cup {npackets'} /\ npackets' \notin taken
    BY <1>1, <1>2, <1>5, <2>1, StoreTypes
  <2>4. queues' = queues
    BY <2>1 DEF queues
  <2> QED BY <1>1, <1>2, <1>3, <1>4, <2>2, <2>3, <2>4, PacketTaken
<1> QED BY <1>6, <1>7, <1>8

\* The result of a build moves no packet.
LEMMA BuildReturnsStores ==
    ASSUME IInv, SInv, IInv', BuildReturns
    PROVE  SInv'
<1>1. /\ router.at \in {"queued", "threw"} /\ router' = [router EXCEPT !.at = "check"]
      /\ router \in RouterStates
  BY DEF BuildReturns, RouterAt, IInv, TypeOK
<1>2. UNCHANGED <<links, nlinks, npackets, flushing, written, taken>>
  BY DEF BuildReturns, history
<1>3. router'.at = "check" /\ router'.link = router.link
  BY <1>1 DEF RouterStates
<1>4. HandOf(router') = HandOf(router)
  BY <1>1, <1>3 DEF HandOf
<1>5. queues' = queues
  <2>1. link \in [Links -> NatLinks]
    BY DEF IInv, TypeOK
  <2>2. ASSUME NEW k \in Links PROVE link'[k].queue = link[k].queue
    <3>1. PICK r \in NatLinks : r = link[k]
      BY <2>1
    <3>2. PICK p : link' = [link EXCEPT ![router.link].socat_pid = p]
      BY DEF BuildReturns
    <3>3. link'[k] = link[k] \/ link'[k] = [link[k] EXCEPT !.socat_pid = p]
      BY <2>1, <3>2
    <3> QED BY <3>1, <3>3 DEF NatLinks
  <2> QED BY <2>2 DEF queues, QueuesOf
<1>6. npackets' >= npackets
  BY <1>2, StoreTypes
<1>7. \A l \in Links : Live(l) => Live(l)'
  BY <1>2, SameList
<1>8. queues[router.link] = <<>> /\ npackets \notin taken
  BY <1>1 DEF SInv, Fresh, TakenSent, Building
<1> QED BY <1>1, <1>2, <1>3, <1>4, <1>5, <1>6, <1>7, <1>8, NoneMoves

\* A new link has an empty queue.
LEMMA AddLinkStores ==
    ASSUME IInv, SInv, IInv', NEW hop \in FreePorts, AddLink(hop)
    PROVE  SInv'
<1>1. /\ router.at = "create" /\ router \in RouterStates
      /\ router' = [router EXCEPT !.at = "build", !.link = nlinks + 1, !.flow = NULL]
  BY DEF AddLink, RouterAt, IInv, TypeOK
<1>2. UNCHANGED <<npackets, flushing, written, taken>>
  BY DEF AddLink, history
<1>3. router'.at = "build" /\ router'.link = nlinks + 1
  BY <1>1 DEF RouterStates
<1>4. HandOf(router') = HandOf(router)
  BY <1>1, <1>3 DEF HandOf
<1>5. PICK n \in Links : n = nlinks + 1 /\ nlinks \in Nat
  BY NumbersAssumption DEF AddLink, IInv, TypeOK, Links
<1>6. ~Live(n)
  <2>1. n \in Nat
    BY DEF Links
  <2> QED BY <1>5, <2>1, RequestedKnown
<1>7. queues[n] = <<>>
  BY <1>6 DEF SInv, Fresh
<1>8. /\ link \in [Links -> NatLinks] /\ link' \in [Links -> NatLinks]
      /\ link' = [link EXCEPT ![n] = NewLink(router.flow, hop)]
  BY <1>5 DEF AddLink, IInv, TypeOK
<1>9. queues' = queues
  <2>1. link'[n].queue = <<>> /\ \A k \in Links : k # n => link'[k] = link[k]
    BY <1>8 DEF NewLink
  <2>2. \A k \in Links : /\ queues[k] = IF link[k].queue = NULL THEN <<>> ELSE link[k].queue
                         /\ queues'[k] = IF link'[k].queue = NULL THEN <<>> ELSE link'[k].queue
    BY <1>8, QueuesType DEF queues
  <2>3. \A k \in Links : queues'[k] = queues[k]
    BY <1>7, <2>1, <2>2
  <2> QED BY <2>3, StoreTypes, StoreTypesNext
<1>10. npackets' >= npackets
  BY <1>2, StoreTypes
<1>11. \A l \in Links : Live(l) => Live(l)'
  <2>1. links \in Seq(Links) /\ links' = <<n>> \o links
    BY <1>5 DEF AddLink, IInv, TypeOK
  <2>2. PICK q \in Seq(Links) :
          /\ q = links' /\ Len(q) = Len(links) + 1
          /\ \A i \in 1..Len(links) : q[i + 1] = links[i]
    <3>1. /\ <<n>> \o links \in Seq(Links) /\ Len(<<n>> \o links) = Len(links) + 1
          /\ \A i \in 1..Len(links) : (<<n>> \o links)[i + 1] = links[i]
      BY <2>1, Prepended
    <3> QED BY <2>1, <3>1
  <2>3. /\ DOMAIN q = 1..Len(q) /\ DOMAIN links = 1..Len(links)
        /\ \A i \in 1..Len(links) : i + 1 \in 1..Len(q)
    BY <2>1, <2>2
  <2> QED BY <2>2, <2>3 DEF Live
<1>12. npackets \notin taken
  BY <1>1 DEF SInv, TakenSent
<1> QED BY <1>1, <1>2, <1>3, <1>4, <1>5, <1>7, <1>9, <1>10, <1>11, <1>12, NoneMoves

\* Steps that touch neither the packets nor the router.
LEMMA StoresStay ==
    ASSUME IInv, SInv, IInv', UNCHANGED <<table, npackets, router, flushing, written, taken>>
    PROVE  SInv'
<1>1. queues' = queues /\ HandOf(router') = HandOf(router)
  BY DEF queues, table
<1>2. npackets' >= npackets
  BY StoreTypes
<1>3. \A l \in Links : Live(l) => Live(l)'
  BY SameTable
<1>4. /\ router'.at \in Building => queues[router'.link] = <<>>
      /\ router'.at \in Building \cup {"create"} => npackets' \notin taken
  BY DEF SInv, Fresh, TakenSent
<1> QED BY <1>1, <1>2, <1>3, <1>4, NoneMoves

\* Steps of the router on its way to a link, or back from it.
LEMMA RouterStores ==
    ASSUME IInv, SInv, IInv',
           UNCHANGED <<table, npackets, flushing, written, taken>>,
           router.at \in {"create", "build"},
           \/ router' = Idle
           \/ router.at = "build" /\ router'.at \in Building /\ router'.link = router.link
    PROVE  SInv'
<1>1. queues' = queues
  BY DEF queues, table
<1>2. HandOf(router') = HandOf(router)
  BY DEF HandOf, Idle, Building
<1>3. npackets' >= npackets
  BY StoreTypes
<1>4. \A l \in Links : Live(l) => Live(l)'
  BY SameTable
<1>5. /\ router'.at \in Building => queues[router'.link] = <<>>
      /\ router'.at \in Building \cup {"create"} => npackets' \notin taken
  BY DEF SInv, Fresh, TakenSent, Idle, Building
<1> QED BY <1>1, <1>2, <1>3, <1>4, <1>5, NoneMoves

\* A packet that is sent: taken, dropped, or the first of its flow.
LEMMA SentStores ==
    ASSUME IInv, SInv, IInv', NextPacket, UNCHANGED <<table, flushing, written>>,
           \/ \E l \in Links : Take(l)
           \/ router'.at \in {"idle", "create"} /\ UNCHANGED taken
    PROVE  SInv'
<1>1. npackets \in Nat /\ npackets' = npackets + 1 /\ router.at = "idle"
  BY StoreTypes DEF NextPacket, RouterAt
<1>2. queues' = queues
  BY DEF queues, table
<1>3. \A l \in Links : Live(l) => Live(l)'
  BY SameTable
<1>4. npackets' \notin taken
  BY <1>1 DEF SInv, TakenSent
<1>5. npackets' > npackets /\ npackets' >= npackets
  BY <1>1
<1>6. ASSUME NEW l \in Links, Take(l)
      PROVE  SInv'
  <2>1. router'.at = "rewrite" /\ taken' = taken \cup {npackets'}
    BY <1>6 DEF Take
  <2> QED BY <1>1, <1>2, <1>3, <1>4, <1>5, <2>1, PacketTaken
<1>7. CASE router'.at \in {"idle", "create"} /\ UNCHANGED taken
  <2>1. HandOf(router') = HandOf(router)
    BY <1>1, <1>7 DEF HandOf
  <2> QED BY <1>2, <1>3, <1>4, <1>5, <1>7, <2>1, NoneMoves DEF Building
<1> QED BY <1>6, <1>7

\* A packet of the device is taken, or counted as sent only.
LEMMA SendOutgoingStores ==
    ASSUME IInv, SInv, IInv', NEW f \in Flows, SendOutgoing(f)
    PROVE  SInv'
<1> DEFINE I == {i \in DOMAIN links : link[links[i]].flow = f}
<1>1. TypeOK /\ links \in Seq(Links) /\ DOMAIN links = 1..Len(links)
  BY DEF IInv, TypeOK
<1>2. I \in SUBSET (1..Len(links)) /\ FindOutgoing(f) = First(I)
  BY <1>1 DEF FindOutgoing
<1>3. NextPacket /\ UNCHANGED <<table, flushing, written>>
  BY DEF SendOutgoing
<1>4. CASE FindOutgoing(f) # NULL
  <2>1. FindOutgoing(f) \in Links
    <3> HIDE DEF I
    <3> QED BY <1>1, <1>2, <1>4, FirstLive
  <2>2. Take(FindOutgoing(f))
    BY <1>4 DEF SendOutgoing
  <2> QED BY <1>3, <2>1, <2>2, SentStores
<1>5. CASE FindOutgoing(f) = NULL
  <2>1. router'.at \in {"idle", "create"} /\ UNCHANGED taken
    BY <1>5 DEF SendOutgoing, Idle
  <2> QED BY <1>3, <2>1, SentStores
<1> QED BY <1>4, <1>5

\* A packet of the relay is taken, or counted as sent only.
LEMMA SendIncomingStores ==
    ASSUME IInv, SInv, IInv', NEW src, NEW hop, SendIncoming(src, hop)
    PROVE  SInv'
<1> DEFINE I == {i \in DOMAIN links : /\ SourceOf[link[links[i]].flow] = src
                                      /\ link[links[i]].hop_port = hop}
<1>1. TypeOK /\ links \in Seq(Links) /\ DOMAIN links = 1..Len(links)
  BY DEF IInv, TypeOK
<1>2. I \in SUBSET (1..Len(links)) /\ FindIncoming(src, hop) = First(I)
  BY <1>1 DEF FindIncoming
<1>3. NextPacket /\ UNCHANGED <<table, flushing, written>>
  BY DEF SendIncoming
<1>4. CASE FindIncoming(src, hop) # NULL
  <2>1. FindIncoming(src, hop) \in Links
    <3> HIDE DEF I
    <3> QED BY <1>1, <1>2, <1>4, FirstLive
  <2>2. Take(FindIncoming(src, hop))
    BY <1>4 DEF SendIncoming
  <2> QED BY <1>3, <2>1, <2>2, SentStores
<1>5. CASE FindIncoming(src, hop) = NULL
  <2>1. router'.at \in {"idle", "create"} /\ UNCHANGED taken
    BY <1>3, <1>5 DEF SendIncoming, NextPacket, RouterAt
  <2> QED BY <1>3, <2>1, SentStores
<1> QED BY <1>4, <1>5

\* Every step keeps the stores.
LEMMA NextStores ==
    ASSUME IInv, SInv, IInv', [Next]_vars
    PROVE  SInv'
<1>1. ASSUME NEW f \in Flows, SendOutgoing(f) PROVE SInv'
  BY <1>1, SendOutgoingStores
<1>2. ASSUME NEW f \in Flows, NEW hop \in Ports, SendIncoming(SourceOf[f], hop) PROVE SInv'
  BY <1>2, SendIncomingStores
<1>3. ASSUME NEW hop \in FreePorts, AddLink(hop) PROVE SInv'
  BY <1>3, AddLinkStores
<1>4. CASE CreateFails
  <2>1. /\ router.at = "create" /\ router' = Idle
        /\ UNCHANGED <<table, npackets, flushing, written, taken>>
    BY <1>4 DEF CreateFails, RouterAt, history
  <2> QED BY <2>1, RouterStores
<1>5. CASE Build
  <2>1. /\ router.at = "build" /\ router' = [router EXCEPT !.at = "queued"]
        /\ UNCHANGED <<table, npackets, flushing, written, taken>>
    BY <1>5 DEF Build, RouterAt, history
  <2>2. router'.at = "queued" /\ router'.link = router.link
    BY <2>1 DEF IInv, TypeOK, RouterStates
  <2> QED BY <2>1, <2>2, RouterStores DEF Building
<1>6. CASE BuildThrows
  <2>1. /\ router.at = "build" /\ router' = [router EXCEPT !.at = "threw"]
        /\ UNCHANGED <<table, npackets, flushing, written, taken>>
    BY <1>6 DEF BuildThrows, RouterAt, history
  <2>2. router'.at = "threw" /\ router'.link = router.link
    BY <2>1 DEF IInv, TypeOK, RouterStates
  <2> QED BY <2>1, <2>2, RouterStores DEF Building
<1>7. CASE BuildReturns BY <1>7, BuildReturnsStores
<1>8. CASE CheckPid BY <1>8, CheckPidStores
<1>9. CASE BuildFailed BY <1>9, BuildFailedStores
<1>10. CASE Rewrite BY <1>10, RewriteStores
<1>11. CASE Write BY <1>11, WriteStores
<1>12. CASE JavaPoll
  BY <1>12, StoresStay DEF JavaPoll, history
<1>13. ASSUME NEW pid \in ForkResults, JavaReply(pid) PROVE SInv'
  BY <1>13, StoresStay DEF JavaReply, history
<1>14. CASE JavaSetPid BY <1>14, JavaSetPidStores
<1>15. CASE JavaFails
  BY <1>15, StoresStay DEF JavaFails, history
<1>16. CASE TerminateConnection
  BY <1>16, StoresStay DEF TerminateConnection, history
<1>17. ASSUME NEW t \in Threads, Flush(t) PROVE SInv'
  BY <1>17, FlushStores
<1>18. CASE UNCHANGED vars
  BY <1>18, StoresStay DEF vars, history
<1>19. CASE RouterSteps
  BY <1>3, <1>4, <1>5, <1>6, <1>7, <1>8, <1>9, <1>10, <1>11, <1>19 DEF RouterSteps
<1>20. CASE RouterNext
  BY <1>1, <1>2, <1>19, <1>20 DEF RouterNext
<1>21. CASE JavaNext
  BY <1>12, <1>13, <1>14, <1>15, <1>16, <1>21 DEF JavaNext, JavaSteps
<1> QED BY <1>17, <1>18, <1>20, <1>21 DEF Next

\* A new tunnel holds no packet.
LEMMA InitStores ==
    ASSUME Init, IInv
    PROVE  SInv
<1>1. \A l \in Links : queues[l] = <<>>
  BY DEF Init, NoLink, queues, QueuesOf
<1>2. router.at = "idle" /\ HandOf(router) = <<>>
  BY DEF Init, Idle, HandOf
<1>3. Ordered
  BY <1>1 DEF Ordered
<1>4. Fresh
  BY <1>1, <1>2 DEF Fresh, Building
<1>5. TakenSent
  BY <1>2 DEF Init, TakenSent, Building
<1>6. PICK S : S = stores
  OBVIOUS
<1>7. MadeOf(S, HandOf(router), written, flushing, queues)
  BY <1>6, StoreTypes, StoreFacts DEF stores
<1>8. \A a \in Places : S[a] = <<>>
  BY <1>1, <1>2, <1>7 DEF Init, MadeOf, Threads
<1>9. Once(S, {})
  BY <1>8 DEF Once
<1> QED BY <1>3, <1>4, <1>5, <1>6, <1>9 DEF SInv, Init

\* The stores hold what was taken, once, in every reachable state.
THEOREM StoresInvariance == Spec => [](IInv /\ SInv)
<1>1. Init => IInv /\ SInv
  BY InitIInv, InitStores
<1>2. IInv /\ SInv /\ [Next]_vars => (IInv /\ SInv)'
  BY NextKeeps, NextStores
<1> QED BY <1>1, <1>2, PTL DEF Spec

\* The places of a packet in a sequence, counted.
LEMMA CountIs ==
    ASSUME NEW s \in Seq(Packets), NEW x,
           \A i, j \in 1..Len(s) : s[i] = x /\ s[j] = x => i = j
    PROVE  Count(s, x) = IF \E i \in 1..Len(s) : s[i] = x THEN 1 ELSE 0
<1> DEFINE S == {i \in DOMAIN s : s[i] = x}
<1>1. Count(s, x) = Cardinality(S)
  BY DEF Count
<1>2. CASE \E i \in 1..Len(s) : s[i] = x
  <2>1. PICK i \in 1..Len(s) : s[i] = x
    BY <1>2
  <2>2. S = {i}
    BY <2>1
  <2> QED BY <1>1, <1>2, <2>2, FS_Singleton
<1>3. CASE ~ \E i \in 1..Len(s) : s[i] = x
  <2>1. S = {}
    BY <1>3
  <2> QED BY <1>1, <1>3, <2>1, FS_EmptySet
<1> QED BY <1>2, <1>3

\* Packet p is in store a of S.
Holds(S, a, p) == \E i \in 1 .. Len(S[a]) : S[a][i] = p

\* The copies in the queues of the links.
LEMMA SlotsAre ==
    ASSUME IInv, SInv, NEW p \in Packets
    PROVE  Cardinality(QueueSlots(p)) =
             IF \E l \in Links : Holds(stores, l, p) THEN 1 ELSE 0
<1>1. PICK S : S = stores /\ Once(S, taken)
  BY DEF SInv
<1>2. MadeOf(S, HandOf(router), written, flushing, queues)
  BY <1>1, StoreTypes, StoreFacts DEF stores
<1>3. queues \in [Links -> Seq(Packets)] /\ \A l \in Links : S[l] = queues[l] /\ l \in Places
  BY <1>2, StoreTypes DEF MadeOf
<1>4. link \in [Links -> NatLinks]
  BY DEF IInv, TypeOK
<1>5. \A l \in Links : queues[l] = IF link[l].queue = NULL THEN <<>> ELSE link[l].queue
  BY <1>4, QueuesType DEF queues
<1>6. ASSUME NEW l \in Links, NEW i
      PROVE  /\ link[l].queue # NULL /\ i \in DOMAIN link[l].queue /\ link[l].queue[i] = p
               => i \in 1..Len(S[l]) /\ S[l][i] = p
             /\ i \in 1..Len(S[l]) /\ S[l][i] = p
               => /\ i \in Packets /\ link[l].queue # NULL
                  /\ i \in DOMAIN link[l].queue /\ link[l].queue[i] = p
  <2>1. PICK s \in Seq(Packets) : s = S[l] /\ s = queues[l]
    BY <1>3
  <2>2. DOMAIN s = 1..Len(s) /\ Len(s) \in Nat
    BY <2>1
  <2>3. link[l].queue # NULL => link[l].queue = s
    BY <1>5, <2>1
  <2>4. link[l].queue = NULL => Len(s) = 0
    BY <1>5, <2>1
  <2>5. i \in 1..Len(s) /\ s[i] = p => i \in Packets /\ link[l].queue # NULL
    <3>1. SUFFICES ASSUME i \in 1..Len(s), s[i] = p
                   PROVE  i \in Packets /\ link[l].queue # NULL
      OBVIOUS
    <3>2. i <= s[i]
      BY <2>1, <3>1 DEF SInv, Ordered
    <3>3. i \in Packets
      BY <2>2, <3>1, <3>2, NumbersAssumption DEF Packets
    <3> QED BY <2>2, <2>4, <3>1, <3>3
  <2> QED BY <2>1, <2>2, <2>3, <2>5
<1>7. CASE \E l \in Links : Holds(stores, l, p)
  <2>1. PICK l \in Links : \E i \in 1..Len(S[l]) : S[l][i] = p
    BY <1>1, <1>7 DEF Holds
  <2>2. PICK i \in 1..Len(S[l]) : S[l][i] = p
    BY <2>1
  <2>3. <<l, i>> \in QueueSlots(p)
    BY <1>6, <2>2 DEF QueueSlots
  <2>4. ASSUME NEW x \in QueueSlots(p)
        PROVE  x = <<l, i>>
    <3>1. PICK k \in Links, j \in Packets : x = <<k, j>>
      BY <2>4 DEF QueueSlots
    <3>2. link[k].queue # NULL /\ j \in DOMAIN link[k].queue /\ link[k].queue[j] = p
      BY <2>4, <3>1 DEF QueueSlots
    <3>3. j \in 1..Len(S[k]) /\ S[k][j] = p
      BY <1>6, <3>2
    <3>4. k = l /\ j = i
      BY <1>1, <1>3, <2>2, <3>3 DEF Once
    <3> QED BY <3>1, <3>4
  <2>5. QueueSlots(p) = {<<l, i>>}
    BY <2>3, <2>4
  <2> QED BY <1>7, <2>5, FS_Singleton
<1>8. CASE ~ \E l \in Links : Holds(stores, l, p)
  <2>1. ASSUME NEW x \in QueueSlots(p)
        PROVE  FALSE
    <3>1. PICK k \in Links, j \in Packets : x = <<k, j>>
      BY <2>1 DEF QueueSlots
    <3>2. link[k].queue # NULL /\ j \in DOMAIN link[k].queue /\ link[k].queue[j] = p
      BY <2>1, <3>1 DEF QueueSlots
    <3>3. j \in 1..Len(S[k]) /\ S[k][j] = p
      BY <1>6, <3>2
    <3> QED BY <1>1, <1>8, <3>3 DEF Holds
  <2>2. QueueSlots(p) = {}
    BY <2>1
  <2> QED BY <1>8, <2>2, FS_EmptySet
<1> QED BY <1>7, <1>8

\* A packet for which a link was found is neither lost nor doubled: it is in one
\* place of one queue, in one thread's hands or written, once.
THEOREM PacketsKept == Spec => []NothingLost
<1>1. ASSUME IInv, SInv, NEW p \in Packets
      PROVE  Copies(p) = IF p \in taken THEN 1 ELSE 0
  <2>1. PICK S : S = stores /\ Once(S, taken)
    BY <1>1 DEF SInv
  <2>2. /\ HandOf(router) \in Seq(Packets) /\ written \in Seq(Packets)
        /\ flushing \in [Threads -> Seq(Packets)] /\ queues \in [Links -> Seq(Packets)]
        /\ flushing["java"] \in Seq(Packets) /\ flushing["router"] \in Seq(Packets)
    BY <1>1, StoreTypes DEF Threads
  <2>3. MadeOf(S, HandOf(router), written, flushing, queues)
    BY <2>1, <2>2, StoreFacts DEF stores
  <2>4. \A a, b \in Places : Holds(S, a, p) /\ Holds(S, b, p) => a = b
    BY <2>1 DEF Once, Holds
  <2>5. \A a \in Places : \A i, j \in 1..Len(S[a]) : S[a][i] = p /\ S[a][j] = p => i = j
    BY <2>1 DEF Once
  <2>6. p \in taken <=> \E a \in Places : Holds(S, a, p)
    BY <2>1 DEF Once, Holds
  <2>7. InFlight(p) = IF Holds(S, Hand, p) THEN 1 ELSE 0
    <3>1. S[Hand] = HandOf(router)
      BY <2>3 DEF MadeOf
    <3>2. CASE router.at \in {"rewrite", "write"}
      <4>1. PICK x : x = router.pkt
        OBVIOUS
      <4>2. S[Hand] = <<x>>
        BY <3>1, <3>2, <4>1 DEF HandOf
      <4>3. Len(<<x>>) = 1 /\ <<x>>[1] = x
        OBVIOUS
      <4>4. Holds(S, Hand, p) <=> x = p
        BY <4>2, <4>3 DEF Holds
      <4> QED BY <3>2, <4>1, <4>4 DEF InFlight
    <3>3. CASE router.at \notin {"rewrite", "write"}
      <4>1. S[Hand] = <<>>
        BY <3>1, <3>3 DEF HandOf
      <4>2. ~Holds(S, Hand, p)
        BY <4>1 DEF Holds
      <4> QED BY <3>3, <4>2 DEF InFlight
    <3> QED BY <3>2, <3>3
  <2>8. Count(written, p) = IF Holds(S, Written, p) THEN 1 ELSE 0
    <3>1. S[Written] = written /\ Written \in Places
      BY <2>3 DEF MadeOf
    <3>2. \A i, j \in 1..Len(written) : written[i] = p /\ written[j] = p => i = j
      BY <2>5, <3>1
    <3> QED BY <2>2, <3>1, <3>2, CountIs DEF Holds
  <2>9. Count(flushing["java"], p) = IF Holds(S, ByJava, p) THEN 1 ELSE 0
    <3>1. PICK s \in Seq(Packets) : s = S[ByJava] /\ s = flushing["java"] /\ ByJava \in Places
      BY <2>2, <2>3 DEF MadeOf
    <3>2. \A i, j \in 1..Len(s) : s[i] = p /\ s[j] = p => i = j
      BY <2>5, <3>1
    <3>3. Count(s, p) = IF \E i \in 1..Len(s) : s[i] = p THEN 1 ELSE 0
      BY <3>2, CountIs
    <3> QED BY <3>1, <3>3 DEF Holds
  <2>10. Count(flushing["router"], p) = IF Holds(S, ByRouter, p) THEN 1 ELSE 0
    <3>1. PICK s \in Seq(Packets) : s = S[ByRouter] /\ s = flushing["router"] /\ ByRouter \in Places
      BY <2>2, <2>3 DEF MadeOf
    <3>2. \A i, j \in 1..Len(s) : s[i] = p /\ s[j] = p => i = j
      BY <2>5, <3>1
    <3>3. Count(s, p) = IF \E i \in 1..Len(s) : s[i] = p THEN 1 ELSE 0
      BY <3>2, CountIs
    <3> QED BY <3>1, <3>3 DEF Holds
  <2>11. PICK q \in BOOLEAN : q <=> \E l \in Links : Holds(S, l, p)
    OBVIOUS
  <2>12. Cardinality(QueueSlots(p)) = IF q THEN 1 ELSE 0
    BY <1>1, <2>1, <2>11, SlotsAre
  <2>13. Copies(p) = (IF Holds(S, Hand, p) THEN 1 ELSE 0)
                     + (IF Holds(S, Written, p) THEN 1 ELSE 0)
                     + (IF Holds(S, ByJava, p) THEN 1 ELSE 0)
                     + (IF Holds(S, ByRouter, p) THEN 1 ELSE 0) + (IF q THEN 1 ELSE 0)
    BY <2>7, <2>8, <2>9, <2>10, <2>12 DEF Copies
  <2>14. /\ Hand \in Places /\ Written \in Places /\ ByJava \in Places /\ ByRouter \in Places
         /\ \A a \in Places : a = Hand \/ a = Written \/ a = ByJava \/ a = ByRouter \/ a \in Links
         /\ \A l \in Links : /\ l \in Places
                             /\ l # Hand /\ l # Written /\ l # ByJava /\ l # ByRouter
    BY <2>3 DEF MadeOf
  <2>15. p \in taken <=> \/ Holds(S, Hand, p) \/ Holds(S, Written, p)
                         \/ Holds(S, ByJava, p) \/ Holds(S, ByRouter, p) \/ q
    BY <2>6, <2>11, <2>14
  <2>16. /\ Hand # Written /\ Hand # ByJava /\ Hand # ByRouter /\ Written # ByJava
         /\ Written # ByRouter /\ ByJava # ByRouter
    BY DEF Hand, Written, ByJava, ByRouter
  <2>17. q => /\ ~Holds(S, Hand, p) /\ ~Holds(S, Written, p)
              /\ ~Holds(S, ByJava, p) /\ ~Holds(S, ByRouter, p)
    BY <2>4, <2>11, <2>14
  <2>18. /\ ~(Holds(S, Hand, p) /\ Holds(S, Written, p))
         /\ ~(Holds(S, Hand, p) /\ Holds(S, ByJava, p))
         /\ ~(Holds(S, Hand, p) /\ Holds(S, ByRouter, p))
         /\ ~(Holds(S, Written, p) /\ Holds(S, ByJava, p))
         /\ ~(Holds(S, Written, p) /\ Holds(S, ByRouter, p))
         /\ ~(Holds(S, ByJava, p) /\ Holds(S, ByRouter, p))
    BY <2>4, <2>14, <2>16
  <2> QED BY <2>13, <2>15, <2>17, <2>18
<1>2. IInv /\ SInv => NothingLost
  BY <1>1 DEF NothingLost
<1> QED BY <1>2, StoresInvariance, PTL
=============================================================================
