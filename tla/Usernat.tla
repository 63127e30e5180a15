------------------------------ MODULE Usernat ------------------------------
(***************************************************************************)
(* The usernat tunnel (jni/ocpa/tun_usernat.c, vpn/UsernatTunnel.java).    *)
(* The router thread sends packets into it; a packet of a new flow creates *)
(* a link and asks the Java thread for a relay process.  Packets of a link *)
(* are queued until usernat_set_pid_for_link records the process.  What is *)
(* done under one acquisition of the tunnel's rwlock is one step, but for  *)
(* the call of buildSocatTunnel, which holds it while Java queues the      *)
(* request.  Memory allocation is taken to succeed.                        *)
(***************************************************************************)
EXTENDS Integers, Sequences, FiniteSetsExt, Filtering

CONSTANTS
    Flows,         \* protocol, source port and destination of a packet
    SourceOf,      \* the protocol and source port of each flow
    PortZero,      \* the flows to port 0
    Ports,         \* hop ports that bind() may choose
    CyclesToLive,  \* 100 in the code
    NULL,
    MaxLinks,      \* bound on the links created
    MaxPackets     \* bound on the packets sent

ASSUME FlowsAssumption ==
    IsFiniteSet(Flows) /\ PortZero \subseteq Flows /\ DOMAIN SourceOf = Flows
ASSUME NumbersAssumption ==
    CyclesToLive \in Nat \ {0, 1} /\ MaxLinks \in Nat /\ MaxPackets \in Nat
ASSUME NullAssumption ==
    /\ NULL \notin Flows /\ NULL \notin Ports
    /\ NULL \notin 1 .. MaxLinks /\ NULL \notin Seq(1 .. MaxPackets)

VARIABLES
    links,         \* the list of links, first to last
    link,          \* the nat_link_t at each address
    nlinks,        \* how many links were created
    npackets,      \* how many packets were sent
    router,        \* where the router thread is, its packet, flow and link
    mQueue,        \* the requests Java has not yet taken
    java,          \* where the Java thread is, its link and process id
    mVpnTunnelCtx, \* whether Java still knows the native context
    flushing,      \* the queue each thread has detached and is writing
    written,       \* history: the packets written to /dev/tun
    taken,         \* history: the packets for which a link was found
    undefined      \* a freed link was used

table == <<links, link, nlinks>>
history == <<written, taken>>
vars == <<table, npackets, router, mQueue, java, mVpnTunnelCtx, flushing,
          history, undefined>>

Links   == 1 .. MaxLinks
Packets == 1 .. MaxPackets
Threads == {"router", "java"}

\* The memory of a link that is not allocated.
NoLink == [flow |-> NULL, hop_port |-> NULL, open |-> FALSE, socat_pid |-> 0,
           enqueue_packets |-> FALSE, queue |-> NULL, cycles_to_live |-> 0]
Idle   == [at |-> "idle", pkt |-> 0, flow |-> NULL, link |-> 0]

\* nat_link_t, and the local variables of the two threads
NatLinks ==
    [flow : Flows \cup {NULL}, hop_port : Ports \cup {NULL}, open : BOOLEAN,
     socat_pid : {-1, 0, 1}, enqueue_packets : BOOLEAN,
     queue : Seq(Packets) \cup {NULL}, cycles_to_live : Nat]
RouterStates ==
    [at : {"idle", "create", "build", "queued", "threw", "check", "failed",
           "rewrite", "write"},
     pkt : 0 .. MaxPackets, flow : Flows \cup {NULL}, link : 0 .. MaxLinks]
JavaStates ==
    [at : {"poll", "cmd", "setpid", "ended"}, link : 0 .. MaxLinks,
     pid : {-1, 0, 1}]

TypeOK ==
    /\ links \in Seq(Links) /\ link \in [Links -> NatLinks]
    /\ nlinks \in Nat /\ npackets \in Nat
    /\ router \in RouterStates /\ java \in JavaStates
    /\ mQueue \in Seq(Links)
    /\ mVpnTunnelCtx \in BOOLEAN /\ undefined \in BOOLEAN
    /\ flushing \in [Threads -> Seq(Packets)]
    /\ written \in Seq(Packets) /\ taken \subseteq Packets

Init ==
    /\ links = <<>> /\ link = [l \in Links |-> NoLink] /\ nlinks = 0
    /\ npackets = 0
    /\ router = Idle
    /\ mQueue = <<>>
    /\ java = [at |-> "poll", link |-> 0, pid |-> 0]
    /\ mVpnTunnelCtx = TRUE
    /\ flushing = [t \in Threads |-> <<>>]
    /\ written = <<>> /\ taken = {}
    /\ undefined = FALSE
-----------------------------------------------------------------------------
(* find_link4: the first link that matches, or NULL. *)

First(I) == IF I = {} THEN NULL ELSE links[Min(I)]

FindOutgoing(f) == First({i \in DOMAIN links : link[links[i]].flow = f})
FindIncoming(src, hop) ==
    First({i \in DOMAIN links : /\ SourceOf[link[links[i]].flow] = src
                                /\ link[links[i]].hop_port = hop})

Live(l) == \E i \in DOMAIN links : links[i] = l
-----------------------------------------------------------------------------
(* usernat_set_pid_for_link: the part under the write lock, called by      *)
(* thread t for link l.  The walk ends at l, or at the end of the list     *)
(* when l is not there; links on the way whose process could not be        *)
(* started lose one of their cycles, and are deleted with the last one.    *)

Failed(l) == link[l].socat_pid = -1
SpentAnyPid(l) == link[l].cycles_to_live <= 1
Spent(l) == Failed(l) /\ link[l].cycles_to_live <= 1

Position(l) == CHOOSE i \in DOMAIN links : links[i] = l
Found(l) == Live(l) /\ ~ Spent(l)
Visited(k, l) == Live(k) /\ (Found(l) => Position(k) <= Position(l))

Aged(k) ==
    [link[k] EXCEPT !.cycles_to_live =
        IF Failed(k) /\ @ > 0 THEN @ - 1 ELSE @]

AnsweredKeepsQueueing(k, p) ==
    [Aged(k) EXCEPT !.socat_pid = p, !.queue = NULL,
                    !.cycles_to_live = IF p = -1 THEN CyclesToLive ELSE @]
Answered(k, p) ==
    [Aged(k) EXCEPT !.socat_pid = p, !.enqueue_packets = FALSE, !.queue = NULL,
                    !.cycles_to_live = IF p = -1 THEN CyclesToLive ELSE @]

Removed(k, l) == Visited(k, l) /\ Spent(k)

\* link_deinit frees the queue and the link; the socket, if open, stays open.
Freed(k) == [NoLink EXCEPT !.hop_port = link[k].hop_port, !.open = link[k].open]

SetPidForLink(t, l, p) ==
    /\ links' = Filter(links, {k \in Links : ~ Removed(k, l)})
    /\ link' = [k \in Links |->
                  CASE Removed(k, l)     -> Freed(k)
                    [] k = l /\ Found(l) -> Answered(l, p)
                    [] OTHER -> IF Visited(k, l) THEN Aged(k) ELSE link[k]]
    /\ flushing' = [flushing EXCEPT ![t] =
                      IF Found(l) /\ link[l].queue # NULL
                      THEN link[l].queue ELSE <<>>]

\* The write lock waits for the router thread, which holds the read lock
\* while it is in buildSocatTunnel.
WriteLockFree == router.at \notin {"queued", "threw"}

\* The detached queue is written after the lock was released.
FlushFirstOnly(t) ==
    /\ ~ undefined /\ flushing[t] # <<>>
    /\ written' = Append(written, Head(flushing[t]))
    /\ flushing' = [flushing EXCEPT ![t] = <<>>]
    /\ UNCHANGED <<table, npackets, router, mQueue, java, mVpnTunnelCtx, taken,
                   undefined>>
Flush(t) ==
    /\ ~ undefined /\ flushing[t] # <<>>
    /\ written' = Append(written, Head(flushing[t]))
    /\ flushing' = [flushing EXCEPT ![t] = Tail(@)]
    /\ UNCHANGED <<table, npackets, router, mQueue, java, mVpnTunnelCtx, taken,
                   undefined>>
-----------------------------------------------------------------------------
(* The router thread: usernat_tun_ctx_send. *)

RouterAt(s) == ~ undefined /\ router.at = s /\ flushing["router"] = <<>>

NextPacket ==
    /\ RouterAt("idle")
    /\ npackets < MaxPackets
    /\ npackets' = npackets + 1

\* The packet is for link l and goes on to be rewritten.
Take(l) ==
    /\ router' = [at |-> "rewrite", pkt |-> npackets', flow |-> NULL, link |-> l]
    /\ taken' = taken \cup {npackets'}

\* find_link for a packet of the device.  Without a link a SYN or a UDP packet
\* (opens) creates one; any other is dropped.
SendOutgoing(f) ==
    /\ NextPacket
    /\ \/ /\ FindOutgoing(f) # NULL
          /\ Take(FindOutgoing(f))
       \/ /\ FindOutgoing(f) = NULL
          /\ \E opens \in BOOLEAN :
                router' = IF opens
                          THEN [at |-> "create", pkt |-> npackets', flow |-> f,
                                link |-> 0]
                          ELSE Idle
          /\ UNCHANGED taken
    /\ UNCHANGED <<table, mQueue, java, mVpnTunnelCtx, flushing, written,
                   undefined>>

\* find_link for a packet of the relay process at hop port hop; it is dropped
\* if there is no link.
SendIncoming(src, hop) ==
    /\ NextPacket
    /\ \/ FindIncoming(src, hop) # NULL /\ Take(FindIncoming(src, hop))
       \/ FindIncoming(src, hop) = NULL /\ UNCHANGED <<router, taken>>
    /\ UNCHANGED <<table, mQueue, java, mVpnTunnelCtx, flushing, written,
                   undefined>>

\* A port that no open sock_accept is bound to.
FreePorts == Ports \ {link[l].hop_port : l \in {k \in Links : link[k].open}}

NewLinkUnlimited(f, hop) ==
    [flow |-> f, hop_port |-> hop, open |-> TRUE, socat_pid |-> 0,
     enqueue_packets |-> TRUE, queue |-> <<>>, cycles_to_live |-> -1]
NewLink(f, hop) ==
    [flow |-> f, hop_port |-> hop, open |-> TRUE, socat_pid |-> 0,
     enqueue_packets |-> TRUE, queue |-> <<>>, cycles_to_live |-> 0]

\* create_link, and adding the link under the write lock.
AddLinkLast(hop) ==
    /\ RouterAt("create") /\ nlinks < MaxLinks
    /\ nlinks' = nlinks + 1
    /\ link' = [link EXCEPT ![nlinks'] = NewLink(router.flow, hop)]
    /\ links' = Append(links, nlinks')
    /\ router' = [router EXCEPT !.at = "build", !.link = nlinks', !.flow = NULL]
    /\ UNCHANGED <<npackets, mQueue, java, mVpnTunnelCtx, flushing, history,
                   undefined>>
AddLink(hop) ==
    /\ RouterAt("create") /\ nlinks < MaxLinks
    /\ nlinks' = nlinks + 1
    /\ link' = [link EXCEPT ![nlinks'] = NewLink(router.flow, hop)]
    /\ links' = <<nlinks'>> \o links
    /\ router' = [router EXCEPT !.at = "build", !.link = nlinks', !.flow = NULL]
    /\ UNCHANGED <<npackets, mQueue, java, mVpnTunnelCtx, flushing, history,
                   undefined>>

\* A socket cannot be created, bound or protected: the packet is dropped.
CreateFails ==
    /\ RouterAt("create")
    /\ router' = Idle
    /\ UNCHANGED <<table, npackets, mQueue, java, mVpnTunnelCtx, flushing,
                   history, undefined>>

\* buildSocatTunnel under the read lock: the request is queued ...
Build ==
    /\ RouterAt("build")
    /\ mQueue' = Append(mQueue, router.link)
    /\ router' = [router EXCEPT !.at = "queued"]
    /\ UNCHANGED <<table, npackets, java, mVpnTunnelCtx, flushing, history,
                   undefined>>

\* ... or the call throws, and the wrapper returns -1.
BuildThrows ==
    /\ RouterAt("build")
    /\ router' = [router EXCEPT !.at = "threw"]
    /\ UNCHANGED <<table, npackets, mQueue, java, mVpnTunnelCtx, flushing,
                   history, undefined>>

\* The result is stored in the link and the lock released.
BuildReturns ==
    /\ RouterAt("queued") \/ RouterAt("threw")
    /\ link' = [link EXCEPT ![router.link].socat_pid =
                  IF router.at = "threw" THEN -1 ELSE 0]
    /\ router' = [router EXCEPT !.at = "check"]
    /\ UNCHANGED <<links, nlinks, npackets, mQueue, java, mVpnTunnelCtx,
                   flushing, history, undefined>>

\* socat_pid is read without the lock; after a failure the socket is closed.
CheckPid ==
    /\ RouterAt("check")
    /\ IF ~ Live(router.link)
       THEN undefined' = TRUE /\ UNCHANGED <<link, router, taken>>
       ELSE /\ UNCHANGED undefined
            /\ IF Failed(router.link)
               THEN /\ link' = [link EXCEPT ![router.link].open = FALSE]
                    /\ router' = [router EXCEPT !.at = "failed"]
                    /\ UNCHANGED taken
               ELSE /\ router' = [router EXCEPT !.at = "rewrite"]
                    /\ taken' = taken \cup {router.pkt}
                    /\ UNCHANGED link
    /\ UNCHANGED <<links, nlinks, npackets, mQueue, java, mVpnTunnelCtx,
                   flushing, written>>

\* usernat_set_pid_for_link(instance, result, -1); the packet is dropped.
BuildFailed ==
    /\ RouterAt("failed")
    /\ SetPidForLink("router", router.link, -1)
    /\ router' = Idle
    /\ UNCHANGED <<nlinks, npackets, mQueue, java, mVpnTunnelCtx, history,
                   undefined>>

\* The packet is rewritten under the read lock and queued, if the link says so;
\* queue_put does nothing without a queue.
Rewrite ==
    /\ RouterAt("rewrite")
    /\ IF ~ Live(router.link)
       THEN undefined' = TRUE /\ UNCHANGED <<link, router>>
       ELSE /\ UNCHANGED undefined
            /\ IF link[router.link].enqueue_packets
               THEN /\ link' = [link EXCEPT ![router.link].queue =
                                  IF link[router.link].queue = NULL THEN NULL
                                  ELSE Append(link[router.link].queue, router.pkt)]
                    /\ router' = Idle
               ELSE /\ router' = [router EXCEPT !.at = "write"]
                    /\ UNCHANGED link
    /\ UNCHANGED <<links, nlinks, npackets, mQueue, java, mVpnTunnelCtx,
                   flushing, history>>

\* Any other packet goes back to /dev/tun at once.
Write ==
    /\ RouterAt("write")
    /\ written' = Append(written, router.pkt)
    /\ router' = Idle
    /\ UNCHANGED <<table, npackets, mQueue, java, mVpnTunnelCtx, flushing, taken,
                   undefined>>
-----------------------------------------------------------------------------
(* The Java thread: the loop of UsernatTunnel.run. *)

JavaAt(s) == ~ undefined /\ java.at = s /\ flushing["java"] = <<>>

\* mQueue.poll(); a request to port 0 is not "ready" and skipped.
JavaPoll ==
    /\ JavaAt("poll") /\ mQueue # <<>>
    /\ mQueue' = Tail(mQueue)
    /\ java' = IF link[Head(mQueue)].flow \in PortZero
               THEN java
               ELSE [java EXCEPT !.at = "cmd", !.link = Head(mQueue)]
    /\ UNCHANGED <<table, npackets, router, mVpnTunnelCtx, flushing, history,
                   undefined>>

\* What fork() in the relay process returns: -1, or some process id.
ForkResults == {-1, 1}

\* The relay answers with a process id, or -1 when fork() failed.  The native
\* context is read for the call that follows, which does nothing without it.
JavaReplyStarted(pid) ==
    /\ JavaAt("cmd")
    /\ java' = IF mVpnTunnelCtx /\ pid # -1
               THEN [java EXCEPT !.at = "setpid", !.pid = pid]
               ELSE [at |-> "poll", link |-> 0, pid |-> 0]
    /\ UNCHANGED <<table, npackets, router, mQueue, mVpnTunnelCtx, flushing,
                   history, undefined>>
JavaReply(pid) ==
    /\ JavaAt("cmd")
    /\ java' = IF mVpnTunnelCtx
               THEN [java EXCEPT !.at = "setpid", !.pid = pid]
               ELSE [at |-> "poll", link |-> 0, pid |-> 0]
    /\ UNCHANGED <<table, npackets, router, mQueue, mVpnTunnelCtx, flushing,
                   history, undefined>>

JavaSetPidUnlocked ==
    /\ JavaAt("setpid")
    /\ SetPidForLink("java", java.link, java.pid)
    /\ java' = [at |-> "poll", link |-> 0, pid |-> 0]
    /\ UNCHANGED <<nlinks, npackets, router, mQueue, mVpnTunnelCtx, history,
                   undefined>>
JavaSetPid ==
    /\ JavaAt("setpid")
    /\ WriteLockFree
    /\ SetPidForLink("java", java.link, java.pid)
    /\ java' = [at |-> "poll", link |-> 0, pid |-> 0]
    /\ UNCHANGED <<nlinks, npackets, router, mQueue, mVpnTunnelCtx, history,
                   undefined>>

\* An exception ends the loop: teardown forgets the native context first, so
\* that the call of setPidForLink in the finally block does nothing.
JavaFails ==
    /\ JavaAt("poll") \/ JavaAt("cmd")
    /\ java' = [at |-> "ended", link |-> 0, pid |-> 0]
    /\ mVpnTunnelCtx' = FALSE
    /\ UNCHANGED <<table, npackets, router, mQueue, flushing, history, undefined>>

\* terminateConnection, called by the VPN manager.
TerminateConnection ==
    /\ ~ undefined /\ mVpnTunnelCtx
    /\ mVpnTunnelCtx' = FALSE
    /\ UNCHANGED <<table, npackets, router, mQueue, java, flushing, history,
                   undefined>>
-----------------------------------------------------------------------------
RouterSteps ==
    \/ \E hop \in FreePorts : AddLink(hop)
    \/ CreateFails
    \/ Build \/ BuildThrows \/ BuildReturns \/ CheckPid \/ BuildFailed
    \/ Rewrite \/ Write
RouterNext ==
    \/ \E f \in Flows : SendOutgoing(f)
    \/ \E f \in Flows, hop \in Ports : SendIncoming(SourceOf[f], hop)
    \/ RouterSteps
JavaSteps ==
    \/ JavaPoll
    \/ \E pid \in ForkResults : JavaReply(pid)
    \/ JavaSetPid
JavaNext == JavaSteps \/ JavaFails \/ TerminateConnection

Next == RouterNext \/ JavaNext \/ \E t \in Threads : Flush(t)

Spec == Init /\ [][Next]_vars

\* Both threads are scheduled.  The relay process answers every command: it
\* reads one, and replies before it reads the next.
FairSpec ==
    /\ Spec
    /\ WF_vars(RouterSteps) /\ WF_vars(JavaSteps)
    /\ \A t \in Threads : WF_vars(Flush(t))
-----------------------------------------------------------------------------
Count(s, x) == Cardinality({i \in DOMAIN s : s[i] = x})

\* Where a packet that was taken may be.
InFlight(p) == IF router.at \in {"rewrite", "write"} /\ router.pkt = p THEN 1 ELSE 0
QueueSlots(p) ==
    {s \in Links \X Packets :
        /\ link[s[1]].queue # NULL
        /\ s[2] \in DOMAIN link[s[1]].queue
        /\ link[s[1]].queue[s[2]] = p}
Copies(p) ==
    InFlight(p) + Count(written, p) + Count(flushing["java"], p)
      + Count(flushing["router"], p)
      + Cardinality(QueueSlots(p))

(***************************************************************************)
(* A packet for which a link was found is neither lost nor doubled,        *)
(* however the expiry of links, the handing over of a queue and the direct *)
(* writes interleave: it is in one queue, in one thread's hands or written.*)
(***************************************************************************)
NothingLost ==
    \A p \in Packets : Copies(p) = IF p \in taken THEN 1 ELSE 0

\* The requests for link l that will be answered.
Pending(l) ==
    Count(mQueue, l)
      + (IF java.at \in {"cmd", "setpid"} /\ java.link = l THEN 1 ELSE 0)
      + (IF router.at = "build" /\ router.link = l THEN 1 ELSE 0)

(***************************************************************************)
(* A link that queues its packets will be told of a process: exactly one   *)
(* request of it is on its way through find_link, mQueue and the Java      *)
(* thread, and none of any other link.  Excepted are a build that threw, a *)
(* flow to port 0 and what happens after the Java thread lost its context. *)
(***************************************************************************)
AnswerPending ==
    \A l \in Links :
        /\ Pending(l) <= 1
        /\ Pending(l) = 1 => Live(l) /\ link[l].enqueue_packets
        /\ Live(l) /\ link[l].enqueue_packets =>
             \/ Pending(l) = 1
             \/ ~ mVpnTunnelCtx
             \/ link[l].flow \in PortZero
             \/ router.link = l /\ router.at \in {"threw", "check", "failed"}

(***************************************************************************)
(* A link is found by the packets it is for: by outgoing packets of its    *)
(* flow and, as long as its socket is open, by incoming packets of its hop *)
(* port, although links are never removed when their process ends and a    *)
(* closed port may be bound again.                                         *)
(***************************************************************************)
LookupsAgree ==
    \A l \in Links :
        Live(l) =>
          /\ FindOutgoing(link[l].flow) = l
          /\ link[l].open =>
               FindIncoming(SourceOf[link[l].flow], link[l].hop_port) = l

(***************************************************************************)
(* The pointer that find_link hands to send without a lock, and those that *)
(* wait as numbers in Java's queue, are not freed by the expiry that       *)
(* another thread's usernat_set_pid_for_link performs.                     *)
(***************************************************************************)
PointersLive ==
    /\ router.at \in {"build", "queued", "threw", "rewrite"} => Live(router.link)
    /\ \A i \in DOMAIN mQueue : Live(mQueue[i])
    /\ java.at \in {"cmd", "setpid"} => Live(java.link)

(***************************************************************************)
(* The id of a running process, once recorded, is not overwritten by the   *)
(* router thread, which stores the result of buildSocatTunnel late.        *)
(***************************************************************************)
PidKept ==
    [][\A l \in Links :
         link[l].socat_pid = 1 /\ Live(l) => link'[l].socat_pid = 1]_vars

(***************************************************************************)
(* A queued packet is written at last, unless Java's loop loses its        *)
(* context or the flow is to port 0, whose request is skipped.             *)
(***************************************************************************)
QueuedGetsWritten ==
    \A p \in Packets :
        QueueSlots(p) # {} ~>
            \/ Count(written, p) > 0
            \/ ~ mVpnTunnelCtx \/ undefined
            \/ \E s \in QueueSlots(p) : link[s[1]].flow \in PortZero
=============================================================================
