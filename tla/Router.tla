------------------------------- MODULE Router -------------------------------
(***************************************************************************)
(* The native router (jni/ocpa/router.c, jni/ocpa/jni_RouterLoop.c) with   *)
(* the threads that use it: the router thread, which runs RouterLoop.run   *)
(* and in it the epoll loop, and Java threads that call its JNI methods.   *)
(* Everything done under one acquisition of rwlock4 is one step.           *)
(*                                                                         *)
(* Routes are given per network; the networks are numbered in the order of *)
(* the route list, which module RouteTable models.                         *)
(***************************************************************************)
EXTENDS Integers, FiniteSets

CONSTANTS
    Tuns,        \* tunnel contexts created by Java, each at most once
    FdTuns,      \* those with a local file descriptor (all but usernat)
    Dev,         \* dev_tun_ctx, the tunnel context of /dev/tun
    NULL,        \* the null pointer
    NumNets,     \* number of networks
    Threads,     \* Java threads
    MaxCalls,    \* bound on the number of calls that change routes
    MaxEvents    \* bound on the events of one epoll_wait

ASSUME TunsAssumption ==
    /\ IsFiniteSet(Tuns) /\ FdTuns \subseteq Tuns
    /\ Dev \notin Tuns /\ NULL \notin Tuns /\ Dev # NULL
ASSUME ThreadsAssumption == IsFiniteSet(Threads)
ASSUME NumbersAssumption ==
    NumNets \in Nat /\ MaxCalls \in Nat /\ MaxEvents \in Nat

Nets == 1 .. NumNets
Ctxs == Tuns \cup {Dev}

VARIABLES
    via,               \* ip4_routes: the tunnel of each network, or NULL
    dflt,              \* ip4_default_tun_ctx
    slot,              \* epoll_links: the index at which each tunnel is, or 0
    capacity,          \* epoll_links_capacity
    count,             \* epoll_links_count
    registered,        \* the descriptors registered with epoll_fd
    routes_updated,
    paused,
    terminate,
    refs,              \* __ref_count of each tunnel context; 0 is destroyed
    own,               \* the reference that create_tun_ctx takes
    router,            \* the memory of the router context
    mRouterCtx,        \* RouterLoop.mRouterCtx: whether it is the context or 0
    loop,              \* where the router thread is
    do_rebuild,        \* do_rebuild_epoll_struct
    batch,             \* the events of the last epoll_wait not yet handled
    cur,               \* the tunnel of the event being handled, or NULL
    call,              \* the JNI call each Java thread is in
    ncalls,            \* how many such calls were made
    undefined          \* the undefined behaviour that ended the run, or "none"

table == <<via, dflt>>
epoll == <<slot, capacity, count, registered>>
flags == <<paused, terminate>>
life  == <<own, router, mRouterCtx>>
lvars == <<loop, do_rebuild, batch, cur>>
cvars == <<call, ncalls>>
vars  == <<table, epoll, routes_updated, flags, refs, life, lvars, cvars,
           undefined>>

LoopStates ==
    {"start", "pause", "establish", "top", "rebuild", "check", "wait", "event",
     "recv", "hup", "term", "ended", "deinit", "done"}
Running ==
    loop \in {"top", "rebuild", "check", "wait", "event", "recv", "hup", "term"}
Ops == {"addRoute4", "defaultRoute4", "removeTunnel", "removeRoute4"}
CallStates == {"get", "body", "rebuild", "put"}

Idle == [at |-> "idle", op |-> "none", tun |-> NULL, net |-> 0, ctx |-> FALSE]
Calls == [at  : CallStates \cup {"idle"},
          op  : Ops \cup {"none"},
          tun : Tuns \cup {NULL},
          net : Nat,
          ctx : BOOLEAN]

TypeOK ==
    /\ via \in [Nets -> Tuns \cup {NULL}]
    /\ dflt \in Tuns \cup {NULL}
    /\ slot \in [Ctxs -> Nat]
    /\ capacity \in Nat /\ count \in Nat
    /\ registered \subseteq Ctxs
    /\ routes_updated \in BOOLEAN /\ paused \in BOOLEAN /\ terminate \in BOOLEAN
    /\ refs \in [Ctxs -> Nat]
    /\ own \in [Ctxs -> {"fresh", "owned", "released"}]
    /\ router \in {"none", "live", "freed"}
    /\ mRouterCtx \in BOOLEAN
    /\ loop \in LoopStates /\ do_rebuild \in BOOLEAN
    /\ batch \subseteq Ctxs /\ cur \in Ctxs \cup {NULL}
    /\ call \in [Threads -> Calls] /\ ncalls \in Nat
    /\ undefined \in {"none", "caller", "loop", "router", "ip6"}

Init ==
    /\ via = [n \in Nets |-> NULL]
    /\ dflt = NULL
    /\ slot = [t \in Ctxs |-> 0]
    /\ capacity = 4 /\ count = 0
    /\ registered = {}
    /\ routes_updated = FALSE /\ paused = FALSE /\ terminate = FALSE
    /\ refs = [t \in Ctxs |-> 0]
    /\ own = [t \in Ctxs |-> "fresh"]
    /\ router = "none" /\ mRouterCtx = FALSE
    /\ loop = "start" /\ do_rebuild = FALSE
    /\ batch = {} /\ cur = NULL
    /\ call = [c \in Threads |-> Idle] /\ ncalls = 0
    /\ undefined = "none"
-----------------------------------------------------------------------------
(* References. *)

One(p) == IF p THEN 1 ELSE 0

\* ref_put through a pointer that may be null.
PutTwice(r, t) == IF t = NULL THEN r ELSE [r EXCEPT ![t] = @ - 2]
Put(r, t) == IF t = NULL THEN r ELSE [r EXCEPT ![t] = @ - 1]

NetsOf(t) == {n \in Nets : via[n] = t}
HoldsRef(k, t) == k.tun = t /\ k.at \in {"body", "rebuild", "put"}
CallsHolding(t) == {c \in Threads : HoldsRef(call[c], t)}

\* The places that hold a reference to t and will put it back.
Holders(t) ==
    Cardinality(NetsOf(t)) + One(dflt = t) + One(slot[t] # 0)
        + One(own[t] = "owned") + Cardinality(CallsHolding(t))
-----------------------------------------------------------------------------
(* rebuild_epoll_struct. *)

\* The tunnels the router polls: the device, the default route and the routes,
\* each once, in this order.
Polled == {Dev} \cup ({dflt} \cap FdTuns) \cup {t \in Tuns : NetsOf(t) # {}}
Key(t) ==
    CASE t = Dev  -> -1
      [] t = dflt -> 0
      [] OTHER    -> CHOOSE n \in NetsOf(t) : \A m \in NetsOf(t) : n <= m
Index(t) == Cardinality({s \in Polled : Key(s) < Key(t)}) + 1

ResizeDownOnly == Cardinality(Polled) < capacity \div 2
Resize ==
    \/ Cardinality(Polled) > capacity
    \/ Cardinality(Polled) < capacity \div 2

\* Only a resize puts the references of the old slots back and sets count.
\* Nothing is removed from the epoll set.  open: the contexts with a descriptor.
RebuildEpollStruct(open) ==
    /\ refs' = [t \in Ctxs |-> refs[t] + One(t \in Polled)
                                 - One(Resize /\ slot[t] # 0)]
    /\ slot' = [t \in Ctxs |-> IF t \in Polled THEN Index(t) ELSE 0]
    /\ capacity' = IF Resize
                   THEN Cardinality(Polled) + Cardinality(Polled) \div 2
                   ELSE capacity
    /\ count' = IF Resize THEN Cardinality(Polled) ELSE count
    /\ registered' = registered \cup (Polled \cap open)
    /\ routes_updated' = FALSE
    /\ UNCHANGED table
-----------------------------------------------------------------------------
(* Java: tunnels are created and released, calls begin, flags are set. *)

\* init*Tun: create_tun_ctx takes the reference of the object itself.
CreateTun(t) ==
    /\ own[t] = "fresh"
    /\ own' = [own EXCEPT ![t] = "owned"]
    /\ refs' = [refs EXCEPT ![t] = @ + 1]
    /\ UNCHANGED <<table, epoll, routes_updated, flags, router, mRouterCtx,
                   lvars, cvars, undefined>>

\* deinit*Tun.
ReleaseTun(t) ==
    /\ own[t] = "owned"
    /\ own' = [own EXCEPT ![t] = "released"]
    /\ refs' = Put(refs, t)
    /\ UNCHANGED <<table, epoll, routes_updated, flags, router, mRouterCtx,
                   lvars, cvars, undefined>>

\* Java reads mRouterCtx and the context of a tunnel it owns and calls a
\* native method.  With a null router all but removeTunnel return at once.
\* Only tunnels with a descriptor are given routes of their own.
Begin(c, op, t, n) ==
    /\ call[c] = Idle
    /\ ncalls < MaxCalls
    /\ mRouterCtx \/ op = "removeTunnel"
    /\ op # "removeRoute4" => own[t] = "owned"
    /\ op = "addRoute4" => t \in FdTuns
    /\ call' = [call EXCEPT ![c] =
                  [at  |-> IF op = "removeRoute4" THEN "body" ELSE "get",
                   op  |-> op,
                   tun |-> IF op = "removeRoute4" THEN NULL ELSE t,
                   net |-> IF op \in {"addRoute4", "removeRoute4"} THEN n ELSE 0,
                   ctx |-> mRouterCtx]]
    /\ ncalls' = ncalls + 1
    /\ UNCHANGED <<table, epoll, routes_updated, flags, refs, life, lvars,
                   undefined>>

\* RouterLoop.pause.
Pause(p) ==
    /\ mRouterCtx /\ router = "live"
    /\ paused' = p
    /\ UNCHANGED <<table, epoll, routes_updated, terminate, refs, life, lvars,
                   cvars, undefined>>

\* RouterLoop.terminate: the flag, when there is a router, and the handle.
Terminate ==
    /\ mRouterCtx => router = "live"
    /\ terminate' = (terminate \/ mRouterCtx)
    /\ mRouterCtx' = FALSE
    /\ UNCHANGED <<table, epoll, routes_updated, paused, refs, own, router,
                   lvars, cvars, undefined>>
-----------------------------------------------------------------------------
(* The steps of a JNI call. *)

Goto(c, at) == call' = [call EXCEPT ![c].at = at]
Return(c) == call' = [call EXCEPT ![c] = Idle]

\* tun_ctx->ref_get on entry.
CallGet(c) ==
    /\ call[c].at = "get"
    /\ refs[call[c].tun] > 0
    /\ refs' = [refs EXCEPT ![call[c].tun] = @ + 1]
    /\ Goto(c, IF call[c].ctx THEN "body" ELSE "put")
    /\ UNCHANGED <<table, epoll, routes_updated, flags, life, lvars, ncalls,
                   undefined>>

route4NoRef(c) ==
    LET t == call[c].tun n == call[c].net IN
    /\ call[c].at = "body" /\ call[c].op = "addRoute4"
    /\ router = "live"
    /\ via' = [via EXCEPT ![n] = t]
    /\ refs' = Put(refs, via[n])
    /\ routes_updated' = TRUE
    /\ Goto(c, "put")
    /\ UNCHANGED <<dflt, epoll, flags, life, lvars, ncalls, undefined>>
route4(c) ==
    LET t == call[c].tun n == call[c].net IN
    /\ call[c].at = "body" /\ call[c].op = "addRoute4"
    /\ router = "live"
    /\ via' = [via EXCEPT ![n] = t]
    /\ refs' = Put([refs EXCEPT ![t] = @ + 1], via[n])
    /\ routes_updated' = TRUE
    /\ Goto(c, "put")
    /\ UNCHANGED <<dflt, epoll, flags, life, lvars, ncalls,
                   undefined>>

default4(c) ==
    LET t == call[c].tun IN
    /\ call[c].at = "body" /\ call[c].op = "defaultRoute4"
    /\ router = "live"
    /\ dflt' = t
    /\ refs' = [Put(refs, dflt) EXCEPT ![t] = @ + 1]
    /\ routes_updated' = TRUE
    /\ Goto(c, "put")
    /\ UNCHANGED <<via, epoll, flags, life, lvars, ncalls,
                   undefined>>

\* Only slots below epoll_links_count are looked at.
unroute(c) ==
    LET t == call[c].tun
        found == slot[t] # 0 /\ slot[t] <= count
    IN
    /\ call[c].at = "body" /\ call[c].op = "removeTunnel"
    /\ router = "live"
    /\ registered' = registered \ {t}
    /\ slot' = [slot EXCEPT ![t] = IF found THEN 0 ELSE @]
    /\ via' = [n \in Nets |-> IF via[n] = t THEN NULL ELSE via[n]]
    /\ dflt' = IF dflt = t THEN NULL ELSE dflt
    /\ refs' = [refs EXCEPT ![t] =
                  @ - Cardinality(NetsOf(t)) - One(dflt = t) - One(found)]
    /\ routes_updated' = (routes_updated \/ NetsOf(t) # {} \/ dflt = t)
    /\ Goto(c, "rebuild")
    /\ UNCHANGED <<capacity, count, flags, life, lvars, ncalls,
                   undefined>>

\* The device has a descriptor once routerLoop has set it; when the loop has
\* ended nobody waits on the epoll set any more.
Open == IF Running THEN Ctxs ELSE Tuns

CallRebuild(c) ==
    /\ call[c].at = "rebuild"
    /\ router = "live"
    /\ RebuildEpollStruct(Open)
    /\ Goto(c, "put")
    /\ UNCHANGED <<flags, life, lvars, ncalls, undefined>>

unroute4NoUpdate(c) ==
    LET n == call[c].net IN
    /\ call[c].at = "body" /\ call[c].op = "removeRoute4"
    /\ router = "live"
    /\ via' = [via EXCEPT ![n] = NULL]
    /\ refs' = Put(refs, via[n])
    /\ Return(c)
    /\ UNCHANGED <<dflt, epoll, routes_updated, flags, life, lvars, ncalls,
                   undefined>>
unroute4(c) ==
    LET n == call[c].net IN
    /\ call[c].at = "body" /\ call[c].op = "removeRoute4"
    /\ router = "live"
    /\ via' = [via EXCEPT ![n] = NULL]
    /\ refs' = Put(refs, via[n])
    /\ routes_updated' = (routes_updated \/ via[n] # NULL)
    /\ Return(c)
    /\ UNCHANGED <<dflt, epoll, flags, life, lvars, ncalls,
                   undefined>>

CallPut(c) ==
    /\ call[c].at = "put"
    /\ refs' = Put(refs, call[c].tun)
    /\ Return(c)
    /\ UNCHANGED <<table, epoll, routes_updated, flags, life, lvars, ncalls,
                   undefined>>
-----------------------------------------------------------------------------
(* The router thread: RouterLoop.run and the native routerLoop it calls. *)

Moves(from, to) == loop = from /\ loop' = to

\* initIpRouter; the handle is set whatever terminate() did before.
LoopStart ==
    /\ Moves("start", "pause")
    /\ router' = "live" /\ mRouterCtx' = TRUE
    /\ own' = [own EXCEPT ![Dev] = "owned"]
    /\ refs' = [refs EXCEPT ![Dev] = @ + 1]
    /\ UNCHANGED <<table, epoll, routes_updated, flags, do_rebuild, batch, cur,
                   cvars, undefined>>

LoopStartFails ==
    /\ Moves("start", "done")
    /\ UNCHANGED <<table, epoll, routes_updated, flags, refs, life, do_rebuild,
                   batch, cur, cvars, undefined>>

\* pause(true), through the handle.
LoopPauseSelf ==
    /\ Moves("pause", "establish")
    /\ paused' = (paused \/ mRouterCtx)
    /\ UNCHANGED <<table, epoll, routes_updated, terminate, refs, life,
                   do_rebuild, batch, cur, cvars, undefined>>

LoopEstablish ==
    /\ Moves("establish", "top")
    /\ mRouterCtx
    /\ RebuildEpollStruct(Ctxs)
    /\ UNCHANGED <<flags, life, do_rebuild, batch, cur, cvars, undefined>>

\* The builder gives no descriptor, or the handle is already 0.
LoopEstablishFails ==
    /\ Moves("establish", "ended")
    /\ UNCHANGED <<table, epoll, routes_updated, flags, refs, life, do_rebuild,
                   batch, cur, cvars, undefined>>

LoopTop ==
    /\ Moves("top", IF do_rebuild THEN "rebuild" ELSE "check")
    /\ ~paused
    /\ UNCHANGED <<table, epoll, routes_updated, flags, refs, life, do_rebuild,
                   batch, cur, cvars, undefined>>

LoopRebuild ==
    /\ Moves("rebuild", "check")
    /\ RebuildEpollStruct(Ctxs)
    /\ do_rebuild' = FALSE
    /\ UNCHANGED <<flags, life, batch, cur, cvars, undefined>>

LoopCheckForgets ==
    /\ Moves("check", IF routes_updated THEN "top" ELSE "wait")
    /\ UNCHANGED <<table, epoll, routes_updated, flags, refs, life, do_rebuild,
                   batch, cur, cvars, undefined>>
LoopCheck ==
    /\ Moves("check", IF routes_updated THEN "top" ELSE "wait")
    /\ do_rebuild' = (do_rebuild \/ routes_updated)
    /\ UNCHANGED <<table, epoll, routes_updated, flags, refs, life, batch, cur,
                   cvars, undefined>>

LoopWait ==
    /\ Moves("wait", "event")
    /\ \E b \in SUBSET registered : Cardinality(b) <= MaxEvents /\ batch' = b
    /\ UNCHANGED <<table, epoll, routes_updated, flags, refs, life, do_rebuild,
                   cur, cvars, undefined>>

LoopWaitFails ==
    /\ Moves("wait", "ended")
    /\ UNCHANGED <<table, epoll, routes_updated, flags, refs, life, do_rebuild,
                   batch, cur, cvars, undefined>>

\* EPOLLIN: the slots below epoll_links_count are searched for the descriptor.
\* The lock is released with the pointer in hand and no reference taken.
Lookup(t) == slot[t] # 0 /\ slot[t] <= count
LoopLookup(t) ==
    /\ t \in batch
    /\ Moves("event", IF Lookup(t) THEN "recv" ELSE "event")
    /\ cur' = IF Lookup(t) THEN t ELSE NULL
    /\ batch' = batch \ {t}
    /\ UNCHANGED <<table, epoll, routes_updated, flags, refs, life, do_rebuild,
                   cvars, undefined>>

\* EPOLLHUP alone.
LoopHupEvent(t) ==
    /\ t \in batch
    /\ Moves("event", "hup")
    /\ cur' = t
    /\ batch' = batch \ {t}
    /\ UNCHANGED <<table, epoll, routes_updated, flags, refs, life, do_rebuild,
                   cvars, undefined>>

\* recv; EPOLLHUP is looked at only when it did not fail.
LoopRecv ==
    /\ loop = "recv" /\ refs[cur] > 0
    /\ \/ loop' = "event" /\ cur' = NULL
       \/ loop' = "hup" /\ UNCHANGED cur
    /\ UNCHANGED <<table, epoll, routes_updated, flags, refs, life, do_rebuild,
                   batch, cvars, undefined>>

\* EPOLL_CTL_DEL of a descriptor that is not registered ends the loop.
LoopHup ==
    /\ Moves("hup", IF cur \in registered THEN "event" ELSE "ended")
    /\ registered' = registered \ {cur}
    /\ cur' = NULL
    /\ UNCHANGED <<table, slot, capacity, count, routes_updated, flags, refs,
                   life, do_rebuild, batch, cvars, undefined>>

LoopBatchDone ==
    /\ batch = {}
    /\ Moves("event", "term")
    /\ UNCHANGED <<table, epoll, routes_updated, flags, refs, life, do_rebuild,
                   batch, cur, cvars, undefined>>

LoopTermIgnores ==
    /\ Moves("term", "top")
    /\ UNCHANGED <<table, epoll, routes_updated, flags, refs, life, do_rebuild,
                   batch, cur, cvars, undefined>>
LoopTerm ==
    /\ Moves("term", IF terminate THEN "ended" ELSE "top")
    /\ UNCHANGED <<table, epoll, routes_updated, flags, refs, life, do_rebuild,
                   batch, cur, cvars, undefined>>

\* router_deinit drops the routes and the slots without putting their
\* references; only the device's is put.
LoopDeinit ==
    /\ Moves("ended", "deinit")
    /\ mRouterCtx
    /\ via' = [n \in Nets |-> NULL] /\ dflt' = NULL
    /\ slot' = [t \in Ctxs |-> 0] /\ registered' = {}
    /\ refs' = Put(refs, Dev)
    /\ own' = [own EXCEPT ![Dev] = "released"]
    /\ router' = "freed"
    /\ routes_updated' = FALSE /\ paused' = FALSE /\ terminate' = FALSE
    /\ UNCHANGED <<capacity, count, mRouterCtx, do_rebuild, batch, cur, cvars,
                   undefined>>

\* After terminate() the handle is 0 and deinitIpRouter does nothing.
LoopDeinitNull ==
    /\ Moves("ended", "deinit")
    /\ ~mRouterCtx
    /\ UNCHANGED <<table, epoll, routes_updated, flags, refs, life, do_rebuild,
                   batch, cur, cvars, undefined>>

LoopDone ==
    /\ Moves("deinit", "done")
    /\ mRouterCtx' = FALSE
    /\ UNCHANGED <<table, epoll, routes_updated, flags, refs, own, router,
                   do_rebuild, batch, cur, cvars, undefined>>
-----------------------------------------------------------------------------
(* Steps whose behaviour C leaves undefined; the run ends there. *)

RestUnchanged ==
    UNCHANGED <<table, epoll, routes_updated, flags, refs, life, lvars, cvars>>

\* A caller takes a reference on a tunnel destroyed since Java read the pointer.
CallerUsesFreed(c) ==
    /\ call[c].at = "get" /\ refs[call[c].tun] = 0
    /\ undefined' = "caller"
    /\ RestUnchanged

\* The loop calls recv on a tunnel destroyed since the lookup.
LoopUsesFreed ==
    /\ loop = "recv" /\ refs[cur] = 0
    /\ undefined' = "loop"
    /\ RestUnchanged

\* A caller takes the lock of a router context that is already freed.
CallerUsesFreedRouter(c) ==
    /\ call[c].at \in {"body", "rebuild"} /\ router = "freed"
    /\ undefined' = "router"
    /\ RestUnchanged

\* The same for pause and terminate: run clears the handle after the memory.
JavaUsesFreedRouter ==
    /\ mRouterCtx /\ router = "freed"
    /\ undefined' = "router"
    /\ RestUnchanged

\* unroute walks an IPv6 list whose head router_init never set and no Java
\* call ever does: the head may be null (action unroute) or junk (this one).
UnrouteJunk(c) ==
    /\ call[c].at = "body" /\ call[c].op = "removeTunnel"
    /\ router = "live"
    /\ undefined' = "ip6"
    /\ RestUnchanged
-----------------------------------------------------------------------------
JavaNext ==
    \/ \E t \in Tuns : CreateTun(t) \/ ReleaseTun(t)
    \/ \E c \in Threads, op \in Ops, t \in Tuns, n \in Nets : Begin(c, op, t, n)
    \/ \E p \in BOOLEAN : Pause(p)
    \/ Terminate

CallNext(c) ==
    \/ CallGet(c) \/ route4(c) \/ default4(c) \/ unroute(c) \/ CallRebuild(c)
    \/ unroute4(c) \/ CallPut(c)

LoopNext ==
    \/ LoopStart \/ LoopStartFails \/ LoopPauseSelf \/ LoopEstablish
    \/ LoopEstablishFails \/ LoopTop \/ LoopRebuild \/ LoopCheck \/ LoopWait
    \/ LoopWaitFails \/ LoopRecv \/ LoopHup \/ LoopBatchDone \/ LoopTerm
    \/ LoopDeinit \/ LoopDeinitNull \/ LoopDone
    \/ \E t \in Ctxs : LoopLookup(t) \/ LoopHupEvent(t)

UndefinedNext ==
    \/ LoopUsesFreed \/ JavaUsesFreedRouter
    \/ \E c \in Threads :
          CallerUsesFreed(c) \/ CallerUsesFreedRouter(c) \/ UnrouteJunk(c)

Next ==
    /\ undefined = "none"
    /\ \/ JavaNext
       \/ \E c \in Threads : CallNext(c)
       \/ LoopNext
       \/ UndefinedNext

Spec == Init /\ [][Next]_vars

\* The router thread is scheduled and epoll_wait has a timeout.
FairSpec == Spec /\ WF_vars(undefined = "none" /\ (LoopNext \/ LoopUsesFreed))
-----------------------------------------------------------------------------
(***************************************************************************)
(* A tunnel context is never destroyed under a route, the default route,   *)
(* an epoll slot, its Java owner or a JNI call in progress: there are at   *)
(* least as many references as holders.  send4 and unroute dereference     *)
(* these pointers.                                                         *)
(***************************************************************************)
RefsCoverHolders == \A t \in Ctxs : refs[t] >= Holders(t)

(***************************************************************************)
(* The slots rebuild_epoll_struct writes, and those that unroute and the   *)
(* loop scan, are inside the allocated array, and no two tunnels share one.*)
(***************************************************************************)
SlotsFit ==
    /\ count <= capacity
    /\ \A t \in Ctxs : slot[t] <= capacity
    /\ \A s, t \in Ctxs : s # t /\ slot[s] # 0 => slot[s] # slot[t]

(***************************************************************************)
(* While the loop runs and no rebuild is pending, the slots are exactly    *)
(* the device and the tunnels that the default route and the routes name:  *)
(* no interleaving of route changes and rebuilds loses an update.          *)
(***************************************************************************)
SlotsCurrent ==
    Running /\ ~routes_updated =>
        \A t \in Ctxs : slot[t] # 0 <=> t \in Polled

(***************************************************************************)
(* A tunnel with a route is polled sooner or later, unless the route goes  *)
(* or the loop ends, provided the router is not paused again and again: a  *)
(* pause that ends delays the rebuild but does not lose it.                *)
(***************************************************************************)
RoutedGetsPolled ==
    <>[]~paused =>
        \A t \in FdTuns :
            Running /\ NetsOf(t) # {} ~>
                \/ slot[t] # 0 \/ NetsOf(t) = {}
                \/ ~Running \/ undefined # "none"

(***************************************************************************)
(* A terminate flag that is set while the router is not paused makes the   *)
(* router thread finish: terminate also clears the handle, so that no      *)
(* later pause can stop the thread.  A router that is already paused waits *)
(* for ever, as the pause loop never looks at the flag.                    *)
(***************************************************************************)
TerminateSeen ==
    terminate /\ ~paused ~> (loop = "done" \/ undefined # "none")

(***************************************************************************)
(* The loop logs "tun_ctx for fd=%d seems to be deleted" when the lookup   *)
(* of an event finds no tunnel (jni_RouterLoop.c:135): then no route leads *)
(* to that tunnel.                                                         *)
(***************************************************************************)
MissMeansDeleted ==
    loop = "event" => \A t \in batch : ~Lookup(t) => t \notin Polled

(***************************************************************************)
(* unroute sets the slot of a removed tunnel to NULL to "mark tunnel       *)
(* context as inexistent" (router.c:352): the loop never calls recv on a   *)
(* tunnel context that is destroyed.                                       *)
(***************************************************************************)
LoopUsesLiveTunnel == undefined # "loop"
=============================================================================
