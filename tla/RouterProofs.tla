---------------------------- MODULE RouterProofs ----------------------------
(***************************************************************************)
(* Proofs about module Router: its typing, that no tunnel context is       *)
(* destroyed while somebody in the router holds it, that the epoll slots   *)
(* follow the routes, and that they fit into their array.                  *)
(***************************************************************************)
EXTENDS Router, FiniteSetTheorems, TLAPS

\* TypeOK without saying that a reference count is not negative.
WeakTypeOK ==
    /\ via \in [Nets -> Tuns \cup {NULL}]
    /\ dflt \in Tuns \cup {NULL}
    /\ slot \in [Ctxs -> Nat]
    /\ capacity \in Nat /\ count \in Nat
    /\ registered \subseteq Ctxs
    /\ routes_updated \in BOOLEAN /\ paused \in BOOLEAN /\ terminate \in BOOLEAN
    /\ refs \in [Ctxs -> Int]
    /\ own \in [Ctxs -> {"fresh", "owned", "released"}]
    /\ router \in {"none", "live", "freed"}
    /\ mRouterCtx \in BOOLEAN
    /\ loop \in LoopStates /\ do_rebuild \in BOOLEAN
    /\ batch \subseteq Ctxs /\ cur \in Ctxs \cup {NULL}
    /\ call \in [Threads -> Calls] /\ ncalls \in Nat
    /\ undefined \in {"none", "caller", "loop", "router", "ip6"}

\* What a call in progress carries.
CallsOK ==
    \A c \in Threads :
        /\ call[c].at # "idle" => call[c].op \in Ops
        /\ call[c].op \in Ops \ {"removeRoute4"} => call[c].tun \in Tuns
        /\ call[c].op = "removeRoute4" => call[c].tun = NULL
        /\ call[c].at = "get" => call[c].tun \in Tuns
        /\ call[c].op \in {"addRoute4", "removeRoute4"} => call[c].net \in Nets

\* The router context exists as long as Java can name it before the thread's
\* last steps, and then owns the device.
LifeOK ==
    /\ loop = "start" => ~mRouterCtx
    /\ mRouterCtx /\ loop # "deinit" => router = "live"
    /\ router = "live" => own[Dev] = "owned"

\* The inductive invariant.
IInv ==
    /\ TypeOK /\ CallsOK /\ LifeOK
    /\ RefsCoverHolders /\ SlotsCurrent /\ SlotsFit
-----------------------------------------------------------------------------
(* Counting. *)

Where(D, f, u) == {e \in D : f[e] = u}
Holding(f, u) == {e \in Threads : HoldsRef(f[e], u)}

\* Changing a function in one place changes the number of places where it has
\* the value u by at most one.
LEMMA CountUpdate ==
    ASSUME NEW D, IsFiniteSet(D), NEW f, NEW g, NEW d \in D,
           \A e \in D \ {d} : g[e] = f[e], NEW u
    PROVE  Cardinality(Where(D, g, u)) =
             Cardinality(Where(D, f, u))
               + (IF g[d] = u THEN 1 ELSE 0) - (IF f[d] = u THEN 1 ELSE 0)
<1> DEFINE F == Where(D, f, u)
           G == Where(D, g, u)
<1>1. IsFiniteSet(F) /\ Cardinality(F) \in Nat
  <2>1. F \in SUBSET D
    BY DEF Where
  <2>2. IsFiniteSet(F)
    BY <2>1, FS_Subset
  <2> QED BY <2>2, FS_CardinalityType
<1>2. CASE g[d] = u /\ f[d] # u
  <2>1. G = F \cup {d} /\ d \notin F
    BY <1>2 DEF Where
  <2>2. Cardinality(F \cup {d}) = Cardinality(F) + 1
    BY <1>1, <2>1, FS_AddElement
  <2> QED BY <1>1, <1>2, <2>1, <2>2
<1>3. CASE g[d] # u /\ f[d] = u
  <2>1. G = F \ {d} /\ d \in F
    BY <1>3 DEF Where
  <2>2. Cardinality(F \ {d}) = Cardinality(F) - 1
    BY <1>1, <2>1, FS_RemoveElement
  <2> QED BY <1>1, <1>3, <2>1, <2>2
<1>4. CASE g[d] = u /\ f[d] = u
  <2>1. G = F
    BY <1>4 DEF Where
  <2> QED BY <1>1, <1>4, <2>1
<1>5. CASE g[d] # u /\ f[d] # u
  <2>1. G = F
    BY <1>5 DEF Where
  <2> QED BY <1>1, <1>5, <2>1
<1> QED BY <1>2, <1>3, <1>4, <1>5

\* The same for the calls that hold a reference to u.
LEMMA HoldingUpdate ==
    ASSUME IsFiniteSet(Threads), NEW f, NEW g, NEW d \in Threads,
           \A e \in Threads \ {d} : g[e] = f[e], NEW u
    PROVE  Cardinality(Holding(g, u)) =
             Cardinality(Holding(f, u))
               + (IF HoldsRef(g[d], u) THEN 1 ELSE 0)
               - (IF HoldsRef(f[d], u) THEN 1 ELSE 0)
<1> DEFINE F == Holding(f, u)
           G == Holding(g, u)
<1>1. IsFiniteSet(F) /\ Cardinality(F) \in Nat
  <2>1. F \in SUBSET Threads
    BY DEF Holding
  <2>2. IsFiniteSet(F)
    BY <2>1, FS_Subset
  <2> QED BY <2>2, FS_CardinalityType
<1>2. CASE HoldsRef(g[d], u) /\ ~HoldsRef(f[d], u)
  <2>1. G = F \cup {d} /\ d \notin F
    BY <1>2 DEF Holding
  <2>2. Cardinality(F \cup {d}) = Cardinality(F) + 1
    BY <1>1, <2>1, FS_AddElement
  <2> QED BY <1>1, <1>2, <2>1, <2>2
<1>3. CASE ~HoldsRef(g[d], u) /\ HoldsRef(f[d], u)
  <2>1. G = F \ {d} /\ d \in F
    BY <1>3 DEF Holding
  <2>2. Cardinality(F \ {d}) = Cardinality(F) - 1
    BY <1>1, <2>1, FS_RemoveElement
  <2> QED BY <1>1, <1>3, <2>1, <2>2
<1>4. CASE HoldsRef(g[d], u) /\ HoldsRef(f[d], u)
  <2>1. G = F
    BY <1>4 DEF Holding
  <2> QED BY <1>1, <1>4, <2>1
<1>5. CASE ~HoldsRef(g[d], u) /\ ~HoldsRef(f[d], u)
  <2>1. G = F
    BY <1>5 DEF Holding
  <2> QED BY <1>1, <1>5, <2>1
<1> QED BY <1>2, <1>3, <1>4, <1>5
-----------------------------------------------------------------------------
(* Typing. *)

\* The polled tunnels are finitely many contexts and have positive indices.
LEMMA PolledFacts ==
    ASSUME WeakTypeOK
    PROVE  /\ Polled \subseteq Ctxs
           /\ Cardinality(Polled) \in Nat
           /\ \A t : Index(t) \in Nat /\ Index(t) > 0
<1>1. Polled \in SUBSET Ctxs
  BY TunsAssumption DEF Polled, Ctxs
<1>2. IsFiniteSet(Ctxs)
  BY TunsAssumption, FS_AddElement DEF Ctxs
<1>3. IsFiniteSet(Polled)
  BY <1>1, <1>2, FS_Subset
<1>4. ASSUME NEW t
      PROVE  Index(t) \in Nat /\ Index(t) > 0
  <2>1. {s \in Polled : Key(s) < Key(t)} \in SUBSET Polled
    OBVIOUS
  <2>2. Cardinality({s \in Polled : Key(s) < Key(t)}) \in Nat
    BY <1>3, <2>1, FS_Subset, FS_CardinalityType
  <2> QED BY <2>2 DEF Index
<1> QED BY <1>1, <1>3, <1>4, FS_CardinalityType

\* The numbers of holders of each kind are natural numbers.
LEMMA HolderNumbers ==
    ASSUME NEW t
    PROVE  /\ Cardinality(NetsOf(t)) \in Nat
           /\ Cardinality(CallsHolding(t)) \in Nat
<1>1. IsFiniteSet(Nets)
  BY NumbersAssumption, FS_Interval DEF Nets
<1>2. NetsOf(t) \in SUBSET Nets /\ CallsHolding(t) \in SUBSET Threads
  BY DEF NetsOf, CallsHolding
<1> QED BY <1>1, <1>2, ThreadsAssumption, FS_Subset, FS_CardinalityType

\* A rebuild keeps the typing.
LEMMA RebuildType ==
    ASSUME WeakTypeOK, NEW open, open \subseteq Ctxs, RebuildEpollStruct(open)
    PROVE  /\ slot' \in [Ctxs -> Nat] /\ capacity' \in Nat /\ count' \in Nat
           /\ registered' \subseteq Ctxs /\ routes_updated' \in BOOLEAN
           /\ refs' \in [Ctxs -> Int] /\ UNCHANGED <<via, dflt>>
<1>1. /\ Polled \subseteq Ctxs /\ Cardinality(Polled) \in Nat
      /\ \A t : Index(t) \in Nat
  BY PolledFacts
<1>2. Cardinality(Polled) \div 2 \in Nat
  BY <1>1
<1>3. slot' \in [Ctxs -> Nat] /\ UNCHANGED <<via, dflt>> /\ routes_updated' \in BOOLEAN
  BY <1>1 DEF RebuildEpollStruct, table
<1>4. registered' \subseteq Ctxs
  BY <1>1 DEF RebuildEpollStruct, WeakTypeOK
<1>5. capacity' \in Nat /\ count' \in Nat
  BY <1>1, <1>2 DEF RebuildEpollStruct, WeakTypeOK
<1>6. refs' \in [Ctxs -> Int]
  BY DEF RebuildEpollStruct, WeakTypeOK, One
<1> QED BY <1>3, <1>4, <1>5, <1>6

\* Every step keeps the typing, except that it does not show here that the
\* reference counts stay above zero, and every call keeps what it carries.
LEMMA TypeStep ==
    ASSUME WeakTypeOK, CallsOK, [Next]_vars
    PROVE  WeakTypeOK' /\ CallsOK'
<1> USE TunsAssumption DEF WeakTypeOK, CallsOK, table, epoll, flags, life,
        lvars, cvars, Moves, Put, LoopStates, Ctxs
<1>1. ASSUME NEW t \in Tuns, CreateTun(t) \/ ReleaseTun(t)
      PROVE  WeakTypeOK' /\ CallsOK'
  BY <1>1 DEF CreateTun, ReleaseTun
<1>2. ASSUME NEW c \in Threads, NEW op \in Ops, NEW t \in Tuns, NEW n \in Nets,
             Begin(c, op, t, n)
      PROVE  WeakTypeOK' /\ CallsOK'
  BY <1>2, SMTT(30) DEF Begin, Calls, CallStates, Ops, Nets
<1>3. ASSUME NEW p \in BOOLEAN, Pause(p)
      PROVE  WeakTypeOK' /\ CallsOK'
  BY <1>3 DEF Pause
<1>4. CASE Terminate
  <2>1. terminate' = (terminate \/ mRouterCtx)
    BY <1>4 DEF Terminate
  <2>2. terminate' \in BOOLEAN
    BY <2>1, Zenon
  <2>3. mRouterCtx' \in BOOLEAN
    BY <1>4, Zenon DEF Terminate
  <2>4. UNCHANGED <<table, epoll, routes_updated, paused, refs, own, router,
                    lvars, cvars, undefined>>
    BY <1>4 DEF Terminate
  <2> QED BY <2>2, <2>3, <2>4
<1>5. ASSUME NEW c \in Threads, CallNext(c)
      PROVE  WeakTypeOK' /\ CallsOK'
  <2> USE DEF Goto, Return, Idle, Calls, CallStates, Ops
  <2>1. CASE CallGet(c)
    BY <2>1 DEF CallGet
  <2>2. CASE route4(c)
    BY <2>2 DEF route4
  <2>3. CASE default4(c)
    BY <2>3 DEF default4
  <2>4. CASE unroute(c)
    <3>1. Cardinality(NetsOf(call[c].tun)) \in Int
      BY HolderNumbers
    <3> QED BY <2>4, <3>1 DEF unroute, One
  <2>5. CASE CallRebuild(c)
    <3>1. Open \subseteq Ctxs /\ RebuildEpollStruct(Open)
      BY <2>5 DEF CallRebuild, Open
    <3>2. /\ slot' \in [Ctxs -> Nat] /\ capacity' \in Nat /\ count' \in Nat
          /\ registered' \subseteq Ctxs /\ routes_updated' \in BOOLEAN
          /\ refs' \in [Ctxs -> Int] /\ UNCHANGED <<via, dflt>>
      BY <3>1, RebuildType
    <3> QED BY <2>5, <3>2 DEF CallRebuild
  <2>6. CASE unroute4(c)
    BY <2>6 DEF unroute4
  <2>7. CASE CallPut(c)
    BY <2>7 DEF CallPut
  <2> QED BY <1>5, <2>1, <2>2, <2>3, <2>4, <2>5, <2>6, <2>7 DEF CallNext
<1>6. CASE LoopNext
  <2>1. CASE LoopStart
    BY <2>1 DEF LoopStart
  <2>9. CASE LoopStartFails \/ LoopEstablishFails
    BY <2>9 DEF LoopStartFails, LoopEstablishFails
  <2>7. CASE LoopPauseSelf
    <3>1. paused' = (paused \/ mRouterCtx)
      BY <2>7 DEF LoopPauseSelf
    <3>2. paused' \in BOOLEAN
      BY <3>1, Zenon
    <3> QED BY <2>7, <3>2 DEF LoopPauseSelf
  <2>2. CASE LoopEstablish \/ LoopRebuild
    <3>1. RebuildEpollStruct(Ctxs)
      BY <2>2 DEF LoopEstablish, LoopRebuild
    <3>2. /\ slot' \in [Ctxs -> Nat] /\ capacity' \in Nat /\ count' \in Nat
          /\ registered' \subseteq Ctxs /\ routes_updated' \in BOOLEAN
          /\ refs' \in [Ctxs -> Int] /\ UNCHANGED <<via, dflt>>
      BY <3>1, RebuildType
    <3> QED BY <2>2, <3>2, ZenonT(30) DEF LoopEstablish, LoopRebuild
  <2>3. CASE LoopTop \/ LoopWait \/ LoopWaitFails
    BY <2>3 DEF LoopTop, LoopWait, LoopWaitFails
  <2>8. CASE LoopCheck
    <3>1. do_rebuild' = (do_rebuild \/ routes_updated)
      BY <2>8 DEF LoopCheck
    <3>2. do_rebuild' \in BOOLEAN
      BY <3>1, Zenon
    <3> QED BY <2>8, <3>2 DEF LoopCheck
  <2>4. CASE LoopHup
    BY <2>4 DEF LoopHup
  <2>11. CASE LoopBatchDone
    BY <2>11 DEF LoopBatchDone
  <2>12. CASE LoopTerm
    BY <2>12 DEF LoopTerm
  <2>10. CASE LoopRecv
    BY <2>10 DEF LoopRecv
  <2>5. CASE LoopDeinitNull
    BY <2>5 DEF LoopDeinitNull
  <2>14. CASE LoopDeinit
    <3>1. routes_updated' \in BOOLEAN /\ paused' \in BOOLEAN /\ terminate' \in BOOLEAN
      BY <2>14, Zenon DEF LoopDeinit
    <3>2. /\ via' \in [Nets -> Tuns \cup {NULL}] /\ dflt' \in Tuns \cup {NULL}
          /\ slot' \in [Ctxs -> Nat] /\ registered' \subseteq Ctxs
          /\ refs' \in [Ctxs -> Int]
          /\ own' \in [Ctxs -> {"fresh", "owned", "released"}]
          /\ router' \in {"none", "live", "freed"} /\ loop' \in LoopStates
          /\ UNCHANGED <<capacity, count, mRouterCtx, do_rebuild, batch, cur,
                         cvars, undefined>>
      BY <2>14 DEF LoopDeinit
    <3> QED BY <3>1, <3>2
  <2>13. CASE LoopDone
    <3>1. mRouterCtx' \in BOOLEAN
      BY <2>13, Zenon DEF LoopDone
    <3>2. /\ loop' \in LoopStates
          /\ UNCHANGED <<table, epoll, routes_updated, flags, refs, own, router,
                         do_rebuild, batch, cur, cvars, undefined>>
      BY <2>13 DEF LoopDone
    <3> QED BY <3>1, <3>2
  <2>6. ASSUME NEW t \in Ctxs, LoopLookup(t) \/ LoopHupEvent(t)
        PROVE  WeakTypeOK' /\ CallsOK'
    BY <2>6 DEF LoopLookup, LoopHupEvent
  <2> QED BY <1>6, <2>1, <2>2, <2>3, <2>4, <2>5, <2>6, <2>7, <2>8, <2>9,
            <2>10, <2>11, <2>12, <2>13, <2>14 DEF LoopNext
<1>7. CASE UndefinedNext
  BY <1>7 DEF UndefinedNext, LoopUsesFreed, CallerUsesFreed,
              CallerUsesFreedRouter, JavaUsesFreedRouter, UnrouteJunk,
              RestUnchanged
<1>8. CASE UNCHANGED vars
  BY <1>8 DEF vars
<1> QED BY <1>1, <1>2, <1>3, <1>4, <1>5, <1>6, <1>7, <1>8 DEF Next, JavaNext
-----------------------------------------------------------------------------
(* References. *)

\* Giving network n to x moves one holder from its old tunnel to x.
LEMMA NetStep ==
    ASSUME WeakTypeOK, NEW n \in Nets, NEW x, via' = [via EXCEPT ![n] = x], NEW u
    PROVE  Cardinality(NetsOf(u)') =
             Cardinality(NetsOf(u))
               + (IF x = u THEN 1 ELSE 0) - (IF via[n] = u THEN 1 ELSE 0)
<1>1. IsFiniteSet(Nets)
  BY NumbersAssumption, FS_Interval DEF Nets
<1>2. PICK f : f = via
  OBVIOUS
<1>3. PICK g : g = via'
  OBVIOUS
<1>4. g[n] = x
  BY <1>3 DEF WeakTypeOK
<1>7. n \in Nets /\ \A e \in Nets \ {n} : g[e] = f[e]
  BY <1>2, <1>3 DEF WeakTypeOK
<1>5. Cardinality(Where(Nets, g, u)) =
        Cardinality(Where(Nets, f, u))
          + (IF g[n] = u THEN 1 ELSE 0) - (IF f[n] = u THEN 1 ELSE 0)
  BY ONLY <1>1, <1>7, CountUpdate
<1>6. NetsOf(u)' = Where(Nets, g, u) /\ NetsOf(u) = Where(Nets, f, u)
  BY <1>2, <1>3 DEF NetsOf, Where
<1> QED BY <1>2, <1>4, <1>5, <1>6

\* A call that goes on keeps, takes or gives back its one reference.
LEMMA CallStep ==
    ASSUME WeakTypeOK, NEW c \in Threads, NEW x, call' = [call EXCEPT ![c] = x],
           NEW u
    PROVE  Cardinality(CallsHolding(u)') =
             Cardinality(CallsHolding(u)) + One(HoldsRef(x, u))
               - One(HoldsRef(call[c], u))
<1>1. PICK f : f = call
  OBVIOUS
<1>2. PICK g : g = call'
  OBVIOUS
<1>3. g[c] = x /\ \A e \in Threads \ {c} : g[e] = f[e]
  BY <1>1, <1>2 DEF WeakTypeOK
<1>4. Cardinality(Holding(g, u)) =
        Cardinality(Holding(f, u))
          + (IF HoldsRef(g[c], u) THEN 1 ELSE 0)
          - (IF HoldsRef(f[c], u) THEN 1 ELSE 0)
  BY <1>3, ThreadsAssumption, HoldingUpdate
<1>5. CallsHolding(u)' = Holding(g, u) /\ CallsHolding(u) = Holding(f, u)
  BY <1>1, <1>2 DEF CallsHolding, Holding
<1> QED BY <1>1, <1>3, <1>4, <1>5 DEF One

\* A step that changes no holder and no count.
LEMMA QuietStep ==
    ASSUME RefsCoverHolders, NEW u \in Ctxs,
           UNCHANGED <<via, dflt, slot, own, call, refs>>
    PROVE  refs'[u] >= Holders(u)'
<1>1. NetsOf(u)' = NetsOf(u) /\ CallsHolding(u)' = CallsHolding(u)
  BY DEF NetsOf, CallsHolding
<1>2. Holders(u)' = Holders(u)
  BY <1>1 DEF Holders
<1> QED BY <1>2 DEF RefsCoverHolders

\* rebuild_epoll_struct takes a reference for every new slot, and puts back at
\* most the ones of the old slots.
LEMMA RebuildRefs ==
    ASSUME WeakTypeOK, RefsCoverHolders, NEW open, RebuildEpollStruct(open),
           UNCHANGED own, NEW u \in Ctxs,
           Cardinality(CallsHolding(u)') = Cardinality(CallsHolding(u))
    PROVE  refs'[u] >= Holders(u)'
<1>1. NetsOf(u)' = NetsOf(u) /\ dflt' = dflt
  BY DEF NetsOf, RebuildEpollStruct, table
<1>2. Cardinality(NetsOf(u)) \in Nat /\ Cardinality(CallsHolding(u)) \in Nat
  BY HolderNumbers
<1>3. refs'[u] = refs[u] + One(u \in Polled) - One(Resize /\ slot[u] # 0)
  BY DEF RebuildEpollStruct
<1>4. One(slot'[u] # 0) = One(u \in Polled)
  BY PolledFacts DEF RebuildEpollStruct, One
<1>5. /\ One(Resize /\ slot[u] # 0) <= One(slot[u] # 0)
      /\ One(Resize /\ slot[u] # 0) \in Nat /\ One(slot[u] # 0) \in Nat
      /\ One(u \in Polled) \in Nat /\ One(own[u] = "owned") \in Nat
      /\ One(dflt = u) \in Nat
  BY DEF One
<1>6. refs[u] >= Holders(u) /\ refs[u] \in Int
  BY DEF RefsCoverHolders, WeakTypeOK
<1> QED BY <1>1, <1>2, <1>3, <1>4, <1>5, <1>6 DEF Holders

\* A call moves on from one place to another.
LEMMA GotoHolding ==
    ASSUME WeakTypeOK, NEW c \in Threads, NEW at, Goto(c, at), NEW u
    PROVE  Cardinality(CallsHolding(u)') =
             Cardinality(CallsHolding(u))
               + (IF call[c].tun = u /\ at \in {"body", "rebuild", "put"}
                  THEN 1 ELSE 0)
               - (IF HoldsRef(call[c], u) THEN 1 ELSE 0)
<1> DEFINE x == [call[c] EXCEPT !.at = at]
<1>1. call[c] \in Calls
  BY DEF WeakTypeOK
<1>2. call' = [call EXCEPT ![c] = x]
  BY DEF Goto
<1>3. Cardinality(CallsHolding(u)') =
        Cardinality(CallsHolding(u)) + One(HoldsRef(x, u)) - One(HoldsRef(call[c], u))
  BY <1>2, CallStep
<1>4. HoldsRef(x, u) <=> call[c].tun = u /\ at \in {"body", "rebuild", "put"}
  BY <1>1 DEF Calls, HoldsRef
<1>5. Cardinality(CallsHolding(u)) \in Nat
  BY HolderNumbers
<1> HIDE DEF x
<1> QED BY <1>3, <1>4, <1>5 DEF One

\* A call returns.
LEMMA ReturnHolding ==
    ASSUME WeakTypeOK, NEW c \in Threads, Return(c), NEW u
    PROVE  Cardinality(CallsHolding(u)') =
             Cardinality(CallsHolding(u)) - (IF HoldsRef(call[c], u) THEN 1 ELSE 0)
<1>1. call' = [call EXCEPT ![c] = Idle]
  BY DEF Return
<1>2. Cardinality(CallsHolding(u)') =
        Cardinality(CallsHolding(u)) + One(HoldsRef(Idle, u)) - One(HoldsRef(call[c], u))
  BY <1>1, CallStep
<1>3. ~HoldsRef(Idle, u)
  BY DEF Idle, HoldsRef
<1>4. Cardinality(CallsHolding(u)) \in Nat
  BY HolderNumbers
<1> QED BY <1>2, <1>3, <1>4 DEF One

\* A step of a JNI call.
LEMMA CallRefs ==
    ASSUME WeakTypeOK, CallsOK, RefsCoverHolders, NEW c \in Threads, CallNext(c),
           NEW u \in Ctxs
    PROVE  refs'[u] >= Holders(u)'
<1> DEFINE t == call[c].tun
           N == Cardinality(NetsOf(u))
           C == Cardinality(CallsHolding(u))
<1>1. /\ N \in Nat /\ C \in Nat /\ refs[u] \in Int
      /\ refs[u] >= N + One(dflt = u) + One(slot[u] # 0)
                      + One(own[u] = "owned") + C
  BY HolderNumbers DEF RefsCoverHolders, Holders, WeakTypeOK
<1>2. u # NULL /\ refs \in [Ctxs -> Int] /\ call[c] \in Calls
  BY TunsAssumption DEF Ctxs, WeakTypeOK
<1>3. CASE CallGet(c)
  <2>1. NetsOf(u)' = NetsOf(u) /\ UNCHANGED <<dflt, slot, own>>
    BY <1>3 DEF CallGet, NetsOf, table, epoll, life
  <2>2. PICK at \in {"body", "put"} : Goto(c, at)
    BY <1>3 DEF CallGet
  <2>3. ~HoldsRef(call[c], u)
    BY <1>3 DEF CallGet, HoldsRef
  <2>4. Cardinality(CallsHolding(u)') = IF t = u THEN C + 1 ELSE C
    BY <1>1, <2>2, <2>3, GotoHolding
  <2>5. refs'[u] = IF t = u THEN refs[u] + 1 ELSE refs[u]
    BY <1>2, <1>3 DEF CallGet, CallsOK
  <2> QED BY <1>1, <2>1, <2>4, <2>5 DEF Holders, One
<1>4. CASE route4(c)
  <2>1. /\ UNCHANGED <<dflt, slot, own>> /\ call[c].net \in Nets /\ t \in Tuns
        /\ via' = [via EXCEPT ![call[c].net] = t]
    BY <1>4 DEF route4, epoll, life, CallsOK, Ops
  <2>2. Cardinality(NetsOf(u)') =
          N + (IF t = u THEN 1 ELSE 0) - (IF via[call[c].net] = u THEN 1 ELSE 0)
    <3>1. PICK n \in Nets : n = call[c].net
      BY <2>1
    <3>2. PICK x : x = t
      OBVIOUS
    <3>3. via' = [via EXCEPT ![n] = x]
      BY <2>1, <3>1, <3>2
    <3>4. Cardinality(NetsOf(u)') =
            N + (IF x = u THEN 1 ELSE 0) - (IF via[n] = u THEN 1 ELSE 0)
      BY ONLY WeakTypeOK, <3>3, NetStep
    <3> QED BY <3>1, <3>2, <3>4
  <2>3. HoldsRef(call[c], u) <=> t = u
    BY <1>4 DEF route4, HoldsRef
  <2>4. Cardinality(CallsHolding(u)') = C
    BY <1>1, <1>4, <2>3, GotoHolding DEF route4
  <2>5. refs'[u] = refs[u] + (IF t = u THEN 1 ELSE 0)
                     - (IF via[call[c].net] = u THEN 1 ELSE 0)
    BY <1>1, <1>2, <1>4, <2>1, TunsAssumption DEF route4, Put, Ctxs, WeakTypeOK
  <2> QED BY <1>1, <2>1, <2>2, <2>4, <2>5 DEF Holders, One
<1>5. CASE default4(c)
  <2>1. NetsOf(u)' = NetsOf(u) /\ UNCHANGED <<slot, own>> /\ dflt' = t /\ t \in Tuns
    BY <1>5 DEF default4, epoll, life, CallsOK, Ops, NetsOf
  <2>2. HoldsRef(call[c], u) <=> t = u
    BY <1>5 DEF default4, HoldsRef
  <2>3. Cardinality(CallsHolding(u)') = C
    BY <1>1, <1>5, <2>2, GotoHolding DEF default4
  <2>4. refs'[u] = refs[u] + (IF t = u THEN 1 ELSE 0) - (IF dflt = u THEN 1 ELSE 0)
    BY <1>1, <1>2, <1>5, <2>1, TunsAssumption DEF default4, Put, Ctxs, WeakTypeOK
  <2> QED BY <1>1, <2>1, <2>3, <2>4 DEF Holders, One
<1>6. CASE unroute(c)
  <2> DEFINE found == slot[t] # 0 /\ slot[t] <= count
  <2>1. UNCHANGED own /\ t \in Tuns /\ t \in Ctxs /\ t # NULL
    BY <1>6, TunsAssumption DEF unroute, life, CallsOK, Ops, Ctxs
  <2>2. HoldsRef(call[c], u) <=> t = u
    BY <1>6 DEF unroute, HoldsRef
  <2>3. Cardinality(CallsHolding(u)') = C
    BY <1>1, <1>6, <2>2, GotoHolding DEF unroute
  <2>4. CASE u = t
    <3>1. NetsOf(u)' = {} /\ dflt' # u
      BY <1>6, <2>1, <2>4 DEF unroute, NetsOf
    <3>2. Cardinality(NetsOf(u)') = 0
      BY <3>1, FS_EmptySet
    <3>3. refs'[u] = refs[u] - N - One(dflt = u) - One(found)
      BY <1>2, <1>6, <2>4 DEF unroute
    <3>4. slot'[u] = IF found THEN 0 ELSE slot[u]
      BY <1>6, <2>4 DEF unroute, WeakTypeOK
    <3>5. slot[u] = slot[t]
      BY <2>4
    <3> QED BY <1>1, <2>1, <2>3, <3>1, <3>2, <3>3, <3>4, <3>5 DEF Holders, One
  <2>5. CASE u # t
    <3>1. NetsOf(u)' = NetsOf(u) /\ slot'[u] = slot[u] /\ refs'[u] = refs[u]
      BY <1>2, <1>6, <2>5 DEF unroute, NetsOf, WeakTypeOK
    <3>2. (dflt' = u) <=> (dflt = u)
      BY <1>2, <1>6, <2>5 DEF unroute
    <3> QED BY <1>1, <2>1, <2>3, <3>1, <3>2 DEF Holders, One
  <2> QED BY <2>4, <2>5
<1>7. CASE CallRebuild(c)
  <2>1. HoldsRef(call[c], u) <=> t = u
    BY <1>7 DEF CallRebuild, HoldsRef
  <2>2. Cardinality(CallsHolding(u)') = C
    BY <1>1, <1>7, <2>1, GotoHolding DEF CallRebuild
  <2>3. UNCHANGED own /\ RebuildEpollStruct(Open)
    BY <1>7 DEF CallRebuild, life
  <2> QED BY <2>2, <2>3, RebuildRefs
<1>8. CASE unroute4(c)
  <2>1. /\ UNCHANGED <<dflt, slot, own>> /\ call[c].net \in Nets /\ t = NULL
        /\ via' = [via EXCEPT ![call[c].net] = NULL]
    BY <1>8 DEF unroute4, epoll, life, CallsOK, Ops
  <2>2. Cardinality(NetsOf(u)') = N - (IF via[call[c].net] = u THEN 1 ELSE 0)
    <3>1. PICK n \in Nets : n = call[c].net
      BY <2>1
    <3>2. via' = [via EXCEPT ![n] = NULL]
      BY <2>1, <3>1
    <3>3. Cardinality(NetsOf(u)') =
            N + (IF NULL = u THEN 1 ELSE 0) - (IF via[n] = u THEN 1 ELSE 0)
      BY ONLY WeakTypeOK, <3>2, NetStep, ZenonT(30)
    <3> QED BY <1>1, <1>2, <3>1, <3>3
  <2>3. ~HoldsRef(call[c], u)
    BY <1>2, <2>1 DEF HoldsRef
  <2>4. Cardinality(CallsHolding(u)') = C
    BY <1>1, <1>8, <2>3, ReturnHolding DEF unroute4
  <2>5. refs'[u] = refs[u] - (IF via[call[c].net] = u THEN 1 ELSE 0)
    BY <1>1, <1>2, <1>8, <2>1, TunsAssumption DEF unroute4, Put, Ctxs, WeakTypeOK
  <2> QED BY <1>1, <2>1, <2>2, <2>4, <2>5 DEF Holders, One
<1>9. CASE CallPut(c)
  <2>1. NetsOf(u)' = NetsOf(u) /\ UNCHANGED <<dflt, slot, own>>
    BY <1>9 DEF CallPut, NetsOf, table, epoll, life
  <2>2. HoldsRef(call[c], u) <=> t = u
    BY <1>9 DEF CallPut, HoldsRef
  <2>3. Cardinality(CallsHolding(u)') = IF t = u THEN C - 1 ELSE C
    BY <1>1, <1>9, <2>2, ReturnHolding DEF CallPut
  <2>4. refs'[u] = IF t = u THEN refs[u] - 1 ELSE refs[u]
    BY <1>2, <1>9 DEF CallPut, Put
  <2> QED BY <1>1, <2>1, <2>3, <2>4 DEF Holders, One
<1> QED BY <1>3, <1>4, <1>5, <1>6, <1>7, <1>8, <1>9 DEF CallNext

\* Every step keeps at least as many references as holders.
LEMMA RefsStep ==
    ASSUME WeakTypeOK, CallsOK, LifeOK, RefsCoverHolders, [Next]_vars,
           NEW u \in Ctxs
    PROVE  refs'[u] >= Holders(u)'
<1> DEFINE N == Cardinality(NetsOf(u))
           C == Cardinality(CallsHolding(u))
<1>1. /\ N \in Nat /\ C \in Nat /\ refs[u] \in Int
      /\ refs[u] >= N + One(dflt = u) + One(slot[u] # 0)
                      + One(own[u] = "owned") + C
  BY HolderNumbers DEF RefsCoverHolders, Holders, WeakTypeOK
<1>2. /\ u # NULL /\ Dev # NULL /\ Dev \in Ctxs
      /\ refs \in [Ctxs -> Int] /\ own \in [Ctxs -> {"fresh", "owned", "released"}]
  BY TunsAssumption DEF Ctxs, WeakTypeOK
<1> USE DEF table, epoll, flags, life, lvars, cvars
<1>3. ASSUME NEW t \in Tuns, CreateTun(t)
      PROVE  refs'[u] >= Holders(u)'
  <2>1. /\ NetsOf(u)' = NetsOf(u) /\ CallsHolding(u)' = CallsHolding(u)
        /\ UNCHANGED <<dflt, slot>>
    BY <1>3 DEF CreateTun, NetsOf, CallsHolding
  <2>2. CASE u = t
    <3>1. own[u] = "fresh" /\ refs'[u] = refs[u] + 1
      BY <1>2, <1>3, <2>2 DEF CreateTun
    <3> QED BY <1>1, <2>1, <3>1 DEF Holders, One
  <2>3. CASE u # t
    <3>1. own'[u] = own[u] /\ refs'[u] = refs[u]
      BY <1>2, <1>3, <2>3 DEF CreateTun
    <3> QED BY <1>1, <2>1, <3>1 DEF Holders, One
  <2> QED BY <2>2, <2>3
<1>4. ASSUME NEW t \in Tuns, ReleaseTun(t)
      PROVE  refs'[u] >= Holders(u)'
  <2>1. /\ NetsOf(u)' = NetsOf(u) /\ CallsHolding(u)' = CallsHolding(u)
        /\ UNCHANGED <<dflt, slot>> /\ t # NULL
    BY <1>4, TunsAssumption DEF ReleaseTun, NetsOf, CallsHolding
  <2>2. CASE u = t
    <3>1. own[u] = "owned" /\ own'[u] = "released" /\ refs'[u] = refs[u] - 1
      BY <1>2, <1>4, <2>1, <2>2 DEF ReleaseTun, Put
    <3> QED BY <1>1, <2>1, <3>1 DEF Holders, One
  <2>3. CASE u # t
    <3>1. own'[u] = own[u] /\ refs'[u] = refs[u]
      BY <1>2, <1>4, <2>1, <2>3 DEF ReleaseTun, Put
    <3> QED BY <1>1, <2>1, <3>1 DEF Holders, One
  <2> QED BY <2>2, <2>3
<1>5. ASSUME NEW c \in Threads, NEW op \in Ops, NEW t \in Tuns, NEW n \in Nets,
             Begin(c, op, t, n)
      PROVE  refs'[u] >= Holders(u)'
  <2>1. NetsOf(u)' = NetsOf(u) /\ UNCHANGED <<dflt, slot, own, refs>>
    BY <1>5 DEF Begin, NetsOf
  <2>2. CallsHolding(u)' \subseteq CallsHolding(u)
    BY <1>2, <1>5 DEF Begin, CallsHolding, HoldsRef, Idle, WeakTypeOK
  <2>3. Cardinality(CallsHolding(u)') <= C /\ Cardinality(CallsHolding(u)') \in Nat
    <3>1. CallsHolding(u) \in SUBSET Threads
      BY DEF CallsHolding
    <3>2. IsFiniteSet(CallsHolding(u))
      BY <3>1, ThreadsAssumption, FS_Subset
    <3> QED BY <2>2, <3>2, FS_Subset, FS_CardinalityType
  <2> QED BY <1>1, <2>1, <2>3 DEF Holders, One
<1>6. CASE \E p \in BOOLEAN : Pause(p)
  BY <1>6, QuietStep DEF Pause
<1>7. CASE Terminate
  BY <1>7, QuietStep DEF Terminate
<1>8. CASE \E c \in Threads : CallNext(c)
  BY <1>8, CallRefs
<1>9. CASE LoopNext
  <2>1. CASE LoopStart
    <3>1. /\ NetsOf(u)' = NetsOf(u) /\ CallsHolding(u)' = CallsHolding(u)
          /\ UNCHANGED <<dflt, slot>>
      BY <2>1 DEF LoopStart, NetsOf, CallsHolding
    <3>2. refs'[u] = (IF u = Dev THEN refs[u] + 1 ELSE refs[u])
      BY <1>2, <2>1 DEF LoopStart
    <3>3. u # Dev => own'[u] = own[u]
      BY <1>2, <2>1 DEF LoopStart
    <3> QED BY <1>1, <3>1, <3>2, <3>3 DEF Holders, One
  <2>2. CASE LoopEstablish \/ LoopRebuild
    <3>1. /\ CallsHolding(u)' = CallsHolding(u) /\ UNCHANGED own
          /\ RebuildEpollStruct(Ctxs)
      BY <2>2 DEF LoopEstablish, LoopRebuild, CallsHolding
    <3> QED BY <3>1, RebuildRefs
  <2>3. CASE LoopDeinit
    <3>1. CallsHolding(u)' = CallsHolding(u)
      BY <2>3 DEF LoopDeinit, CallsHolding
    <3>2. NetsOf(u)' = {} /\ dflt' # u /\ slot'[u] = 0
      BY <1>2, <2>3 DEF LoopDeinit, NetsOf
    <3>3. Cardinality(NetsOf(u)') = 0
      BY <3>2, FS_EmptySet
    <3>4. CASE u = Dev
      <4>1. refs'[u] = refs[u] - 1 /\ own'[u] = "released"
        BY <1>2, <2>3, <3>4 DEF LoopDeinit, Put
      <4>2. own[u] = "owned"
        BY <2>3, <3>4 DEF LoopDeinit, Moves, LifeOK
      <4> QED BY <1>1, <3>1, <3>2, <3>3, <4>1, <4>2 DEF Holders, One
    <3>5. CASE u # Dev
      <4>1. refs'[u] = refs[u] /\ own'[u] = own[u]
        BY <1>2, <2>3, <3>5 DEF LoopDeinit, Put
      <4> QED BY <1>1, <3>1, <3>2, <3>3, <4>1 DEF Holders, One
    <3> QED BY <3>4, <3>5
  <2>4. CASE \/ LoopStartFails \/ LoopPauseSelf \/ LoopEstablishFails \/ LoopTop
             \/ LoopCheck \/ LoopWait \/ LoopWaitFails \/ LoopRecv \/ LoopHup
             \/ LoopBatchDone \/ LoopTerm \/ LoopDeinitNull \/ LoopDone
             \/ \E t \in Ctxs : LoopLookup(t) \/ LoopHupEvent(t)
    <3>1. UNCHANGED <<via, dflt, slot, own, call, refs>>
      BY <2>4 DEF LoopStartFails, LoopPauseSelf, LoopEstablishFails, LoopTop,
                  LoopCheck, LoopWait, LoopWaitFails, LoopRecv, LoopHup,
                  LoopBatchDone, LoopTerm, LoopDeinitNull, LoopDone,
                  LoopLookup, LoopHupEvent
    <3> QED BY <3>1, QuietStep
  <2> QED BY <1>9, <2>1, <2>2, <2>3, <2>4 DEF LoopNext
<1>10. CASE UndefinedNext
  BY <1>10, QuietStep DEF UndefinedNext, LoopUsesFreed, CallerUsesFreed,
                          CallerUsesFreedRouter, JavaUsesFreedRouter, UnrouteJunk,
              RestUnchanged
<1>11. CASE UNCHANGED vars
  BY <1>11, QuietStep DEF vars
<1> QED BY <1>3, <1>4, <1>5, <1>6, <1>7, <1>8, <1>9, <1>10, <1>11
        DEF Next, JavaNext
-----------------------------------------------------------------------------
(* The life of the router context. *)

\* Every step keeps the life of tunnels in order.
LEMMA LifeStep ==
    ASSUME WeakTypeOK, LifeOK, [Next]_vars
    PROVE  LifeOK'
<1> USE TunsAssumption DEF LifeOK, table, epoll, flags, life, lvars, cvars, Moves
<1>1. CASE \E t \in Tuns : CreateTun(t) \/ ReleaseTun(t)
  <2>1. own'[Dev] = own[Dev] /\ UNCHANGED <<loop, mRouterCtx, router>>
    BY <1>1 DEF CreateTun, ReleaseTun, WeakTypeOK, Ctxs
  <2> QED BY <2>1
<1>2. CASE \/ \E c \in Threads, op \in Ops, t \in Tuns, n \in Nets : Begin(c, op, t, n)
           \/ \E p \in BOOLEAN : Pause(p)
           \/ \E c \in Threads : CallNext(c)
  <2>1. UNCHANGED <<loop, mRouterCtx, router, own>>
    BY <1>2 DEF Begin, Pause, CallNext, CallGet, route4, default4, unroute,
                CallRebuild, unroute4, CallPut
  <2> QED BY <2>1
<1>3. CASE Terminate
  <2>1. ~mRouterCtx' /\ UNCHANGED <<loop, router, own>>
    BY <1>3 DEF Terminate
  <2> QED BY <2>1
<1>4. CASE LoopStart
  BY <1>4 DEF LoopStart, WeakTypeOK, Ctxs
<1>5. CASE LoopDeinit
  BY <1>5 DEF LoopDeinit
<1>6. CASE LoopDone
  <2>1. ~mRouterCtx' /\ loop' = "done" /\ UNCHANGED <<router, own>>
    BY <1>6 DEF LoopDone
  <2> QED BY <2>1
<1>7. CASE \/ LoopStartFails \/ LoopPauseSelf \/ LoopEstablish
           \/ LoopEstablishFails \/ LoopTop \/ LoopRebuild \/ LoopCheck
           \/ LoopWait \/ LoopWaitFails \/ LoopRecv \/ LoopHup \/ LoopBatchDone
           \/ LoopTerm \/ LoopDeinitNull
           \/ \E t \in Ctxs : LoopLookup(t) \/ LoopHupEvent(t)
  <2>1. UNCHANGED <<mRouterCtx, router, own>> /\ loop' # "start"
    BY <1>7 DEF LoopStartFails, LoopPauseSelf, LoopEstablish,
                LoopEstablishFails, LoopTop, LoopRebuild, LoopCheck, LoopWait,
                LoopWaitFails, LoopRecv, LoopHup, LoopBatchDone, LoopTerm,
                LoopDeinitNull, LoopLookup, LoopHupEvent
  <2>2. loop = "deinit" => loop' = "deinit"
    BY <1>7 DEF LoopStartFails, LoopPauseSelf, LoopEstablish,
                LoopEstablishFails, LoopTop, LoopRebuild, LoopCheck, LoopWait,
                LoopWaitFails, LoopRecv, LoopHup, LoopBatchDone, LoopTerm,
                LoopDeinitNull, LoopLookup, LoopHupEvent
  <2> QED BY <2>1, <2>2
<1>8. CASE UndefinedNext \/ UNCHANGED vars
  <2>1. UNCHANGED <<loop, mRouterCtx, router, own>>
    BY <1>8 DEF UndefinedNext, LoopUsesFreed, CallerUsesFreed, vars,
                CallerUsesFreedRouter, JavaUsesFreedRouter, UnrouteJunk,
                RestUnchanged
  <2> QED BY <2>1
<1> QED BY <1>1, <1>2, <1>3, <1>4, <1>5, <1>6, <1>7, <1>8
        DEF Next, JavaNext, LoopNext
-----------------------------------------------------------------------------
(* The slots follow the routes. *)

\* A rebuild makes the slots exactly the polled tunnels.
LEMMA RebuildSlots ==
    ASSUME WeakTypeOK, NEW open, RebuildEpollStruct(open)
    PROVE  \A t \in Ctxs : slot'[t] # 0 <=> t \in Polled'
<1>1. Polled' = Polled
  BY DEF RebuildEpollStruct, table, Polled, NetsOf
<1>2. \A t : Index(t) # 0
  BY PolledFacts
<1> QED BY <1>1, <1>2 DEF RebuildEpollStruct

\* A step after which either an update is pending or nothing that matters has
\* changed.
LEMMA SlotsQuiet ==
    ASSUME SlotsCurrent, Running' => Running,
           routes_updated' \/ UNCHANGED <<routes_updated, via, dflt, slot>>
    PROVE  SlotsCurrent'
<1>1. CASE routes_updated'
  BY <1>1 DEF SlotsCurrent
<1>2. CASE UNCHANGED <<routes_updated, via, dflt, slot>>
  <2>1. Polled' = Polled
    BY <1>2 DEF Polled, NetsOf
  <2> QED BY <1>2, <2>1 DEF SlotsCurrent
<1> QED BY <1>1, <1>2

\* Every step keeps the slots current or leaves a rebuild pending.
LEMMA SlotsStep ==
    ASSUME WeakTypeOK, CallsOK, SlotsCurrent, [Next]_vars
    PROVE  SlotsCurrent'
<1> USE DEF table, epoll, flags, life, lvars, cvars
<1>1. CASE JavaNext
  <2>1. UNCHANGED <<loop, routes_updated, via, dflt, slot>>
    BY <1>1 DEF JavaNext, CreateTun, ReleaseTun, Begin, Pause, Terminate
  <2> QED BY <2>1, SlotsQuiet DEF Running
<1>2. ASSUME NEW c \in Threads, CallNext(c)
      PROVE  SlotsCurrent'
  <2>1. CASE CallGet(c) \/ CallPut(c)
    <3>1. UNCHANGED <<loop, routes_updated, via, dflt, slot>>
      BY <2>1 DEF CallGet, CallPut
    <3> QED BY <3>1, SlotsQuiet DEF Running
  <2>2. CASE route4(c) \/ default4(c)
    <3>1. routes_updated' /\ loop' = loop
      BY <2>2 DEF route4, default4
    <3> QED BY <3>1, SlotsQuiet DEF Running
  <2>3. CASE unroute(c)
    <3> DEFINE t == call[c].tun
    <3>1. loop' = loop /\ t \in Tuns /\ t \in Ctxs
      BY <2>3 DEF unroute, CallsOK, Ops, Ctxs
    <3>2. CASE routes_updated \/ NetsOf(t) # {} \/ dflt = t
      <4>1. routes_updated'
        BY <2>3, <3>2 DEF unroute
      <4> QED BY <3>1, <4>1, SlotsQuiet DEF Running
    <3>3. CASE ~routes_updated /\ NetsOf(t) = {} /\ dflt # t /\ Running
      <4>1. t \notin Polled
        BY <3>1, <3>3, TunsAssumption DEF Polled
      <4>2. slot[t] = 0
        BY <3>1, <3>3, <4>1 DEF SlotsCurrent
      <4>3. slot' = slot /\ dflt' = dflt
        BY <2>3, <3>3, <4>2 DEF unroute, WeakTypeOK
      <4>4. via' = via
        BY <2>3, <3>3 DEF unroute, WeakTypeOK, NetsOf
      <4>5. Polled' = Polled
        BY <4>3, <4>4 DEF Polled, NetsOf
      <4> QED BY <3>1, <3>3, <4>3, <4>5 DEF SlotsCurrent, Running
    <3>4. CASE ~Running
      BY <3>1, <3>4 DEF SlotsCurrent, Running
    <3> QED BY <3>2, <3>3, <3>4
  <2>4. CASE CallRebuild(c)
    BY <2>4, RebuildSlots DEF CallRebuild, SlotsCurrent
  <2>5. CASE unroute4(c)
    <3>1. loop' = loop /\ UNCHANGED <<dflt, slot>>
      BY <2>5 DEF unroute4
    <3>2. CASE via[call[c].net] # NULL
      <4>1. routes_updated'
        BY <2>5, <3>2 DEF unroute4
      <4> QED BY <3>1, <4>1, SlotsQuiet DEF Running
    <3>3. CASE via[call[c].net] = NULL
      <4>1. via' = via
        BY <2>5, <3>3 DEF unroute4, WeakTypeOK
      <4>2. Polled' = Polled
        BY <3>1, <4>1 DEF Polled, NetsOf
      <4>3. routes_updated => routes_updated'
        BY <2>5 DEF unroute4
      <4> QED BY <3>1, <4>2, <4>3 DEF SlotsCurrent, Running
    <3> QED BY <3>2, <3>3
  <2> QED BY <1>2, <2>1, <2>2, <2>3, <2>4, <2>5 DEF CallNext
<1>3. CASE LoopNext
  <2> USE DEF Moves
  <2>1. CASE LoopEstablish \/ LoopRebuild
    BY <2>1, RebuildSlots DEF LoopEstablish, LoopRebuild, SlotsCurrent
  <2>2. CASE \/ LoopStart \/ LoopStartFails \/ LoopPauseSelf
             \/ LoopEstablishFails \/ LoopWaitFails \/ LoopDeinit
             \/ LoopDeinitNull \/ LoopDone
    <3>1. ~Running'
      BY <2>2 DEF LoopStart, LoopStartFails, LoopPauseSelf, LoopEstablishFails,
                  LoopWaitFails, LoopDeinit, LoopDeinitNull, LoopDone, Running
    <3> QED BY <3>1 DEF SlotsCurrent
  <2>3. CASE \/ LoopTop \/ LoopCheck \/ LoopWait \/ LoopRecv \/ LoopHup
             \/ LoopBatchDone \/ LoopTerm
             \/ \E t \in Ctxs : LoopLookup(t) \/ LoopHupEvent(t)
    <3>1. Running /\ UNCHANGED <<routes_updated, via, dflt, slot>>
      BY <2>3 DEF LoopTop, LoopCheck, LoopWait, LoopRecv, LoopHup, Running,
                  LoopBatchDone, LoopTerm, LoopLookup, LoopHupEvent
    <3> QED BY <3>1, SlotsQuiet
  <2> QED BY <1>3, <2>1, <2>2, <2>3 DEF LoopNext
<1>4. CASE UndefinedNext \/ UNCHANGED vars
  <2>1. UNCHANGED <<loop, routes_updated, via, dflt, slot>>
    BY <1>4 DEF UndefinedNext, LoopUsesFreed, CallerUsesFreed, vars,
                CallerUsesFreedRouter, JavaUsesFreedRouter, UnrouteJunk,
                RestUnchanged
  <2> QED BY <2>1, SlotsQuiet DEF Running
<1> QED BY <1>1, <1>2, <1>3, <1>4 DEF Next
-----------------------------------------------------------------------------
(* The slots fit. *)

\* A set of natural numbers that is not empty has a smallest one.
LEMMA SmallestNat ==
    ASSUME NEW S \in SUBSET Nat, S # {}
    PROVE  \E n \in S : \A m \in S : n <= m
<1> DEFINE R == OpToRel(<, Nat)
<1>1. IsWellFoundedOn(R, Nat)
  BY NatLessThanWellFounded, Zenon
<1> HIDE DEF R
<1>2. PICK n \in S : \A m \in S : ~(<<m, n>> \in R)
  BY <1>1, WFMin, Zenon
<1>3. \A m \in S : ~(m < n)
  BY <1>2, Zenon DEF R, OpToRel
<1> QED BY <1>3

\* A polled tunnel is the device, the default one or has a network, and its
\* key tells which.
LEMMA KeyFacts ==
    ASSUME WeakTypeOK, NEW t \in Polled
    PROVE  /\ t = Dev => Key(t) = -1
           /\ t # Dev /\ t = dflt => Key(t) = 0
           /\ t # Dev /\ t # dflt => Key(t) \in Nets /\ via[Key(t)] = t
<1>1. CASE t = Dev \/ t = dflt
  <2>1. Dev # dflt
    BY TunsAssumption DEF WeakTypeOK
  <2> QED BY <1>1, <2>1 DEF Key
<1>2. CASE t # Dev /\ t # dflt
  <2>1. NetsOf(t) # {} /\ NetsOf(t) \in SUBSET Nat
    BY <1>2, NumbersAssumption DEF Polled, NetsOf, Nets
  <2>2. \E n \in NetsOf(t) : \A m \in NetsOf(t) : n <= m
    BY <2>1, SmallestNat
  <2>3. Key(t) = CHOOSE n \in NetsOf(t) : \A m \in NetsOf(t) : n <= m
    BY <1>2 DEF Key
  <2>4. Key(t) \in NetsOf(t)
    BY <2>2, <2>3
  <2> QED BY <1>2, <2>4 DEF NetsOf
<1> QED BY <1>1, <1>2

\* Indices stay within the number of polled tunnels and are different.
LEMMA IndexFacts ==
    ASSUME WeakTypeOK
    PROVE  /\ \A t \in Polled : Index(t) <= Cardinality(Polled)
           /\ \A s, t \in Polled : s # t => Index(s) # Index(t)
<1> DEFINE Below(t) == {s \in Polled : Key(s) < Key(t)}
<1>1. IsFiniteSet(Polled) /\ Cardinality(Polled) \in Nat
  <2>1. Polled \in SUBSET Ctxs
    BY PolledFacts
  <2>2. IsFiniteSet(Ctxs)
    BY TunsAssumption, FS_AddElement DEF Ctxs
  <2> QED BY <2>1, <2>2, FS_Subset, FS_CardinalityType
<1>2. \A t \in Polled : Key(t) \in Int
  BY KeyFacts, NumbersAssumption DEF Nets
<1>3. \A s, t \in Polled : s # t => Key(s) # Key(t)
  BY KeyFacts, NumbersAssumption DEF Nets
<1>4. \A t : /\ IsFiniteSet(Below(t)) /\ Cardinality(Below(t)) \in Nat
             /\ Index(t) = Cardinality(Below(t)) + 1
  <2> TAKE t
  <2>1. Below(t) \in SUBSET Polled
    OBVIOUS
  <2> QED BY <1>1, <2>1, FS_Subset, FS_CardinalityType DEF Index
<1>5. ASSUME NEW t \in Polled
      PROVE  Index(t) <= Cardinality(Polled)
  <2>1. Below(t) \in SUBSET (Polled \ {t})
    BY <1>2
  <2>2. /\ IsFiniteSet(Polled \ {t})
        /\ Cardinality(Polled \ {t}) = Cardinality(Polled) - 1
    BY <1>1, FS_RemoveElement
  <2>3. Cardinality(Below(t)) <= Cardinality(Polled \ {t})
    BY <2>1, <2>2, FS_Subset
  <2> HIDE DEF Below
  <2> QED BY <1>1, <1>4, <2>2, <2>3
<1>6. ASSUME NEW s \in Polled, NEW t \in Polled, Key(s) < Key(t)
      PROVE  Index(s) < Index(t)
  <2>1. Below(s) \cup {s} \in SUBSET Below(t) /\ s \notin Below(s)
    BY <1>2, <1>6
  <2>2. Cardinality(Below(s) \cup {s}) = Cardinality(Below(s)) + 1
    BY <1>4, <2>1, FS_AddElement
  <2>3. Cardinality(Below(s) \cup {s}) <= Cardinality(Below(t))
    BY <1>4, <2>1, FS_Subset
  <2> HIDE DEF Below
  <2> QED BY <1>4, <2>2, <2>3
<1>7. ASSUME NEW s \in Polled, NEW t \in Polled, s # t
      PROVE  Index(s) # Index(t)
  <2>1. CASE Key(s) < Key(t)
    BY <2>1, <1>6, PolledFacts
  <2>2. CASE Key(t) < Key(s)
    BY <2>2, <1>6, PolledFacts
  <2> QED BY <1>2, <1>3, <1>7, <2>1, <2>2
<1> QED BY <1>5, <1>7

\* A rebuild writes inside the array it allocates or keeps.
LEMMA RebuildFits ==
    ASSUME WeakTypeOK, SlotsFit, NEW open, RebuildEpollStruct(open)
    PROVE  SlotsFit'
<1> DEFINE n == Cardinality(Polled)
<1>1. n \in Nat /\ n \div 2 \in Nat /\ Polled \subseteq Ctxs
  BY PolledFacts
<1>2. /\ \A t \in Polled : Index(t) \in Nat /\ Index(t) > 0 /\ Index(t) <= n
      /\ \A s, t \in Polled : s # t => Index(s) # Index(t)
  BY IndexFacts, PolledFacts
<1> HIDE DEF n
<1>3. capacity' = (IF Resize THEN n + n \div 2 ELSE capacity)
      /\ count' = (IF Resize THEN n ELSE count)
  BY DEF RebuildEpollStruct, n
<1>4. ~Resize => n <= capacity
  BY <1>1 DEF Resize, n, WeakTypeOK
<1>5. n <= capacity' /\ count' <= capacity' /\ capacity' \in Nat
  BY <1>1, <1>3, <1>4 DEF SlotsFit, WeakTypeOK
<1>6. \A t \in Ctxs : slot'[t] = IF t \in Polled THEN Index(t) ELSE 0
  BY DEF RebuildEpollStruct
<1>7. \A t \in Ctxs : slot'[t] <= capacity'
  BY <1>1, <1>2, <1>5, <1>6
<1>8. \A s, t \in Ctxs : s # t /\ slot'[s] # 0 => slot'[s] # slot'[t]
  BY <1>1, <1>2, <1>6
<1> QED BY <1>5, <1>7, <1>8 DEF SlotsFit

\* Every step keeps the slots inside the array.
LEMMA FitStep ==
    ASSUME WeakTypeOK, SlotsFit, [Next]_vars
    PROVE  SlotsFit'
<1> USE DEF table, epoll, flags, life, lvars, cvars
<1>1. CASE UNCHANGED <<slot, capacity, count>>
  BY <1>1 DEF SlotsFit
<1>2. ASSUME NEW c \in Threads, unroute(c)
      PROVE  SlotsFit'
  <2>1. UNCHANGED <<capacity, count>>
    BY <1>2 DEF unroute
  <2>2. \A t \in Ctxs : slot'[t] = slot[t] \/ slot'[t] = 0
    BY <1>2 DEF unroute, WeakTypeOK
  <2> QED BY <2>1, <2>2 DEF SlotsFit, WeakTypeOK
<1>3. CASE LoopDeinit
  <2>1. UNCHANGED <<capacity, count>> /\ \A t \in Ctxs : slot'[t] = 0
    BY <1>3 DEF LoopDeinit
  <2> QED BY <2>1 DEF SlotsFit, WeakTypeOK
<1>4. CASE \/ LoopEstablish \/ LoopRebuild
           \/ \E c \in Threads : CallRebuild(c)
  BY <1>4, RebuildFits DEF LoopEstablish, LoopRebuild, CallRebuild
<1>5. CASE JavaNext \/ UndefinedNext \/ UNCHANGED vars
  <2>1. UNCHANGED <<slot, capacity, count>>
    BY <1>5 DEF JavaNext, CreateTun, ReleaseTun, Begin, Pause, Terminate,
                UndefinedNext, LoopUsesFreed, CallerUsesFreed, vars,
                CallerUsesFreedRouter, JavaUsesFreedRouter, UnrouteJunk,
                RestUnchanged
  <2> QED BY <2>1, <1>1
<1>6. ASSUME NEW c \in Threads, CallNext(c)
      PROVE  SlotsFit'
  <2>1. CASE \/ CallGet(c) \/ CallPut(c) \/ route4(c) \/ default4(c)
             \/ unroute4(c)
    <3>1. UNCHANGED <<slot, capacity, count>>
      BY <2>1 DEF CallGet, CallPut, route4, default4, unroute4
    <3> QED BY <3>1, <1>1
  <2> QED BY <1>2, <1>4, <1>6, <2>1 DEF CallNext
<1>7. CASE LoopNext
  <2>1. CASE ~(LoopDeinit \/ LoopEstablish \/ LoopRebuild)
    <3>1. UNCHANGED <<slot, capacity, count>>
      BY <1>7, <2>1
         DEF LoopNext, LoopStart, LoopStartFails, LoopPauseSelf,
             LoopEstablishFails, LoopTop, LoopCheck, LoopWait, LoopWaitFails,
             LoopRecv, LoopHup, LoopBatchDone, LoopTerm, LoopDeinitNull,
             LoopDone, LoopLookup, LoopHupEvent
    <3> QED BY <3>1, <1>1
  <2> QED BY <2>1, <1>3, <1>4
<1> QED BY <1>5, <1>6, <1>7 DEF Next
-----------------------------------------------------------------------------
\* More references than holders, and so no count below zero.
LEMMA HoldersNat ==
    ASSUME WeakTypeOK, NEW t \in Ctxs
    PROVE  Holders(t) \in Nat
BY HolderNumbers DEF Holders, One, WeakTypeOK

\* A count that covers its holders is not negative.
LEMMA Strengthen ==
    ASSUME WeakTypeOK, RefsCoverHolders
    PROVE  TypeOK
<1>1. refs \in [Ctxs -> Nat]
  <2>1. \A t \in Ctxs : refs[t] \in Nat
    BY HoldersNat DEF RefsCoverHolders, WeakTypeOK
  <2> QED BY <2>1 DEF WeakTypeOK
<1> QED BY <1>1 DEF WeakTypeOK, TypeOK

\* The router starts without tunnels, routes and slots.
LEMMA InitIInv == Init => IInv
<1> SUFFICES ASSUME Init
             PROVE  IInv
  OBVIOUS
<1>1. TypeOK
  BY DEF Init, TypeOK, LoopStates, Idle, Calls, CallStates
<1>2. CallsOK
  BY DEF Init, CallsOK, Idle, Ops
<1>3. RefsCoverHolders
  <2> SUFFICES ASSUME NEW t \in Ctxs
               PROVE  refs[t] >= Holders(t)
    BY DEF RefsCoverHolders
  <2>1. NetsOf(t) = {} /\ CallsHolding(t) = {} /\ dflt # t
    BY TunsAssumption DEF Init, NetsOf, CallsHolding, HoldsRef, Idle, Ctxs
  <2>2. Cardinality(NetsOf(t)) = 0 /\ Cardinality(CallsHolding(t)) = 0
    BY <2>1, FS_EmptySet
  <2> QED BY <2>1, <2>2 DEF Init, Holders, One
<1>4. LifeOK /\ SlotsCurrent
  BY DEF Init, LifeOK, SlotsCurrent, Running
<1>5. SlotsFit
  BY DEF Init, SlotsFit
<1> QED BY <1>1, <1>2, <1>3, <1>4, <1>5 DEF IInv

\* Every step keeps the invariant.
LEMMA NextIInv == IInv /\ [Next]_vars => IInv'
<1> SUFFICES ASSUME IInv, [Next]_vars
             PROVE  IInv'
  OBVIOUS
<1>1. /\ WeakTypeOK /\ CallsOK /\ LifeOK
      /\ RefsCoverHolders /\ SlotsCurrent /\ SlotsFit
  BY DEF IInv, TypeOK, WeakTypeOK
<1>2. WeakTypeOK' /\ CallsOK'
  BY <1>1, TypeStep
<1>3. RefsCoverHolders'
  BY <1>1, RefsStep DEF RefsCoverHolders
<1>4. TypeOK'
  BY <1>2, <1>3, Strengthen, PTL
<1>5. LifeOK' /\ SlotsCurrent' /\ SlotsFit'
  BY <1>1, LifeStep, SlotsStep, FitStep
<1> QED BY <1>2, <1>3, <1>4, <1>5 DEF IInv

(***************************************************************************)
(* Every reachable state of the router is well typed; in particular no     *)
(* reference count (__ref_count) is ever put below zero.                   *)
(***************************************************************************)
THEOREM TypeCorrect == Spec => []TypeOK
<1>1. IInv => TypeOK
  BY DEF IInv
<1> QED BY InitIInv, NextIInv, <1>1, PTL DEF Spec

(***************************************************************************)
(* For any number of tunnels, networks, threads and calls, no tunnel       *)
(* context loses its last reference while a route, the default route, an   *)
(* epoll slot, its owner or a JNI call still holds it.                     *)
(***************************************************************************)
THEOREM HeldTunnelsLive == Spec => []RefsCoverHolders
<1>1. IInv => RefsCoverHolders
  BY DEF IInv
<1> QED BY InitIInv, NextIInv, <1>1, PTL DEF Spec

(***************************************************************************)
(* No interleaving of route changes, rebuilds by callers and rebuilds by   *)
(* the loop loses an update: while the loop runs, either routes_updated is *)
(* set or the epoll slots are exactly the tunnels to poll.                 *)
(***************************************************************************)
THEOREM NoUpdateLost == Spec => []SlotsCurrent
<1>1. IInv => SlotsCurrent
  BY DEF IInv
<1> QED BY InitIInv, NextIInv, <1>1, PTL DEF Spec

(***************************************************************************)
(* For any number of tunnels and any sequence of rebuilds that grow, shrink*)
(* or keep the array, the slots that rebuild_epoll_struct writes and those *)
(* the others scan are inside epoll_links, and each tunnel has its own.    *)
(***************************************************************************)
THEOREM SlotsInsideArray == Spec => []SlotsFit
<1>1. IInv => SlotsFit
  BY DEF IInv
<1> QED BY InitIInv, NextIInv, <1>1, PTL DEF Spec
=============================================================================
