------------------------------- MODULE IpSec -------------------------------
(***************************************************************************
 The life cycle of IPsec tunnels: IpSecTunnel.java on top of VpnTunnel.java,
 and the charon service of strongswan.c, of which the process has one.

 Three kinds of threads meet here.  The main thread establishes and
 terminates tunnels for the VPN manager and runs what other threads post to
 its Handler.  Every tunnel has a thread (IpSecTunnel.run) that starts
 charon, waits until the tunnel is terminated and stops charon.  Charon's
 own threads report the state of the connection (updateStatus).
 terminateConnection is called from all three and takes no lock until its
 last statement, so that its steps are steps of the model.

 The native side is external up to strongswan.c: whether initializeCharon
 succeeds and when charon reports are choices.
 ***************************************************************************)
EXTENDS Integers, Sequences, FiniteSets

CONSTANTS
    Tuns,       \* IpSecTunnel objects, each established at most once
    NULL,
    MaxReports  \* bound: how often charon reports a change of state

ASSUME NullIsNoTunnel == NULL \notin Tuns
ASSUME TunsFinite == IsFiniteSet(Tuns)
ASSUME ReportsBounded == MaxReports \in Nat

VARIABLES
    current,    \* mCurrentTunnel of the VPN manager
    router,     \* whether mRouterLoop of the VPN manager is not null
    status,     \* mConnectionStatus of each tunnel
    ctx,        \* whether mVpnTunnelCtx is not 0
    refs,       \* Java's references on the native context: one at first
    thr,        \* where the thread of each tunnel is
    held,       \* whether that thread holds the tunnel's monitor
    posted,     \* state changes posted to the main thread's Handler
    term,       \* calls of terminateConnection in progress, by caller
    service,    \* the tunnel of the instance `charonservice' points to
    instances,  \* charonservice_t objects allocated and not freed
    reports,    \* how often charon reported
    aborted,    \* tunnels whose termination by charon met an exception
    crashed     \* a null or freed pointer was used: the process is gone

vars == <<current, router, status, ctx, refs, thr, held, posted, term,
          service, instances, reports, aborted, crashed>>

Idle == [tun |-> NULL, pc |-> "idle"]
Callers == {"main", "charon"} \cup Tuns
TermPcs == {"check", "set", "remove", "deinit", "clear", "notify"}
Statuses == {"DISCONNECTED", "CONNECTING", "CONNECTED", "TERMINATED"}
ThreadPcs == {"none", "start", "init", "loading", "nullctx", "failed",
              "initiate", "check", "waiting", "end", "done"}

\* The program's variables have the expected types (fields of VpnTunnel, the
\* positions of its threads); a context is released at most once by a caller.
TypeOK ==
    /\ current \in Tuns \cup {NULL}
    /\ router \in BOOLEAN
    /\ status \in [Tuns -> Statuses]
    /\ ctx \in [Tuns -> BOOLEAN]
    /\ refs \in [Tuns -> (1 - Cardinality(Callers))..1]
    /\ thr \in [Tuns -> ThreadPcs]
    /\ held \in [Tuns -> BOOLEAN]
    /\ posted \in Seq([tun : Tuns, status : {"CONNECTING", "CONNECTED"}])
    /\ term \in [Callers -> [tun : Tuns, pc : TermPcs] \cup {Idle}]
    /\ service \in Tuns \cup {NULL}
    /\ instances \in 0..Cardinality(Tuns)
    /\ reports \in 0..MaxReports
    /\ aborted \in SUBSET Tuns
    /\ crashed \in BOOLEAN

Init ==
    /\ current = NULL
    /\ router = FALSE
    /\ status = [t \in Tuns |-> "DISCONNECTED"]
    /\ ctx = [t \in Tuns |-> FALSE]
    /\ refs = [t \in Tuns |-> 0]
    /\ thr = [t \in Tuns |-> "none"]
    /\ held = [t \in Tuns |-> FALSE]
    /\ posted = <<>>
    /\ term = [c \in Callers |-> Idle]
    /\ service = NULL
    /\ instances = 0
    /\ reports = 0
    /\ aborted = {}
    /\ crashed = FALSE

----------------------------------------------------------------------------
(* The main thread.  A handler runs to its end before the next one starts,
   and terminateConnection is part of the handler that calls it. *)

Call(t) == [tun |-> t, pc |-> "check"]
MainFree == ~crashed /\ term["main"] = Idle

\* notifyVpnServiceStarted terminates the current tunnel, which it keeps,
\* and replaces the router.
Restart ==
    /\ MainFree
    /\ router' = TRUE
    /\ term' = [term EXCEPT !["main"] =
                  IF current = NULL THEN Idle ELSE Call(current)]
    /\ UNCHANGED <<current, status, ctx, refs, thr, held, posted, service,
                   instances, reports, aborted, crashed>>

\* activateVpnTunnel with a new tunnel: doEstablishConnection creates the
\* context, which may fail, and starts the thread even then; the old tunnel
\* is terminated after that.  The service has been started.
Activate(t, created) ==
    /\ MainFree
    /\ router
    /\ thr[t] = "none"
    /\ current' = t
    /\ ctx' = [ctx EXCEPT ![t] = created]
    /\ refs' = [refs EXCEPT ![t] = IF created THEN 1 ELSE 0]
    /\ thr' = [thr EXCEPT ![t] = "start"]
    /\ term' = [term EXCEPT !["main"] =
                  IF current = NULL THEN Idle ELSE Call(current)]
    /\ UNCHANGED <<router, status, held, posted, service, instances, reports,
                   aborted, crashed>>

\* deactivateVpnTunnel, and the first half of stopVpnService and of
\* notifyVpnServiceRevoked: the tunnel is terminated and forgotten.
Stop ==
    /\ MainFree
    /\ current # NULL
    /\ term' = [term EXCEPT !["main"] = Call(current)]
    /\ current' = NULL
    /\ UNCHANGED <<router, status, ctx, refs, thr, held, posted, service,
                   instances, reports, aborted, crashed>>

\* The second half of the latter two: mRouterLoop = null.  (A Stop without
\* it is deactivateVpnTunnel; it without a Stop finds no tunnel.)
Close ==
    /\ MainFree
    /\ current = NULL
    /\ router' = FALSE
    /\ UNCHANGED <<current, status, ctx, refs, thr, held, posted, term,
                   service, instances, reports, aborted, crashed>>

\* The Handler runs a posted change: setConnectionStatus, whatever the
\* status was.
RunPosted ==
    /\ MainFree
    /\ posted # <<>>
    /\ status' = [status EXCEPT ![Head(posted).tun] = Head(posted).status]
    /\ posted' = Tail(posted)
    /\ UNCHANGED <<current, ctx, refs, thr, held, term, service, instances,
                   reports, crashed, router, aborted>>

----------------------------------------------------------------------------
(* terminateConnection, called by c. *)

At(c, pc) == ~crashed /\ term[c].pc = pc
Goto(c, pc) == term' = [term EXCEPT ![c].pc = pc]

\* if(!isTerminated())
TermCheck(c) ==
    /\ At(c, "check")
    /\ Goto(c, IF status[term[c].tun] = "TERMINATED" THEN "notify" ELSE "set")
    /\ UNCHANGED <<current, status, ctx, refs, thr, held, posted, service,
                   instances, reports, crashed, router, aborted>>

\* setConnectionStatus(TERMINATED); if(mVpnTunnelCtx != 0)
TermSet(c) ==
    /\ At(c, "set")
    /\ status' = [status EXCEPT ![term[c].tun] = "TERMINATED"]
    /\ Goto(c, IF ctx[term[c].tun] THEN "remove" ELSE "notify")
    /\ UNCHANGED <<current, router, ctx, refs, thr, held, posted, service,
                   instances, reports, aborted, crashed>>

\* intlRemoveTunnel dereferences mRouterLoop.  The exception ends the
\* process, unless charon called: it clears the exception, and the rest of
\* terminateConnection is not executed.
TermRemove(c) ==
    /\ At(c, "remove")
    /\ IF router
       THEN Goto(c, "deinit") /\ UNCHANGED <<aborted, crashed>>
       ELSE IF c = "charon"
       THEN /\ term' = [term EXCEPT ![c] = Idle]
            /\ aborted' = aborted \cup {term[c].tun}
            /\ UNCHANGED crashed
       ELSE crashed' = TRUE /\ UNCHANGED <<term, aborted>>
    /\ UNCHANGED <<current, router, status, ctx, refs, thr, held, posted,
                   service, instances, reports>>

\* deinitIpSecTun(mVpnTunnelCtx), which ignores 0.  To release a context
\* that was released before is undefined.
TermDeinit(c) ==
    LET t == term[c].tun IN
    /\ At(c, "deinit")
    /\ refs' = [refs EXCEPT ![t] = IF ctx[t] THEN @ - 1 ELSE @]
    /\ crashed' \in {FALSE, ctx[t] /\ refs[t] <= 0}
    /\ Goto(c, "clear")
    /\ UNCHANGED <<current, router, status, ctx, thr, held, posted, service,
                   instances, reports, aborted>>

\* A mistake: return without notifyAll once the context is released.
TermClearReturns(c) ==
    /\ At(c, "clear")
    /\ ctx' = [ctx EXCEPT ![term[c].tun] = FALSE]
    /\ term' = [term EXCEPT ![c] = Idle]
    /\ UNCHANGED <<current, status, refs, thr, held, posted, service,
                   instances, reports, crashed, router, aborted>>

\* mVpnTunnelCtx = 0
TermClear(c) ==
    /\ At(c, "clear")
    /\ ctx' = [ctx EXCEPT ![term[c].tun] = FALSE]
    /\ Goto(c, "notify")
    /\ UNCHANGED <<current, status, refs, thr, held, posted, service,
                   instances, reports, crashed, router, aborted>>

\* synchronized(this) { notifyAll(); }  The tunnel's own thread may hold the
\* monitor already.
TermNotify(c) ==
    LET t == term[c].tun IN
    /\ At(c, "notify")
    /\ held[t] => c = t
    /\ thr' = [thr EXCEPT ![t] = IF @ = "waiting" THEN "check" ELSE @]
    /\ term' = [term EXCEPT ![c] = Idle]
    /\ UNCHANGED <<current, status, ctx, refs, held, posted, service,
                   instances, reports, crashed, router, aborted>>

TermStep(c) ==
    \/ TermCheck(c)
    \/ TermSet(c)
    \/ TermRemove(c)
    \/ TermDeinit(c)
    \/ TermClear(c)
    \/ TermNotify(c)

----------------------------------------------------------------------------
(* The thread of tunnel t, IpSecTunnel.run. *)

AtThread(t, pc) == ~crashed /\ thr[t] = pc /\ term[t] = Idle

\* A mistake: the start of the connection is not announced.
ThreadStartSilent(t) ==
    /\ AtThread(t, "start")
    /\ thr' = [thr EXCEPT ![t] = "init"]
    /\ held' = [held EXCEPT ![t] = TRUE]
    /\ UNCHANGED <<current, status, ctx, refs, posted, term, service,
                   instances, reports, crashed, router, aborted>>

\* Enters the monitor and posts CONNECTING (startConnection).
ThreadStart(t) ==
    /\ AtThread(t, "start")
    /\ thr' = [thr EXCEPT ![t] = "init"]
    /\ held' = [held EXCEPT ![t] = TRUE]
    /\ posted' = Append(posted, [tun |-> t, status |-> "CONNECTING"])
    /\ UNCHANGED <<current, status, ctx, refs, term, service, instances,
                   reports, crashed, router, aborted>>

\* The argument mVpnTunnelCtx of initializeCharon is read before charon's
\* libraries are started, which takes a while.
LoadCtx(t) ==
    /\ AtThread(t, "init")
    /\ thr' = [thr EXCEPT ![t] = IF ctx[t] THEN "loading" ELSE "nullctx"]
    /\ UNCHANGED <<current, router, status, ctx, refs, held, posted, term,
                   service, instances, reports, aborted, crashed>>

Initializing(t) == AtThread(t, "loading") \/ AtThread(t, "nullctx")

\* charonservice_init takes a reference on the context and stores the new
\* instance in the one global pointer.  A context that was terminated
\* before it was read is 0; one that was terminated since is freed memory,
\* whose use may end the process or go unnoticed.
InitCharon(t) ==
    /\ Initializing(t)
    /\ \/ /\ thr[t] = "loading"
          /\ thr' = [thr EXCEPT ![t] = "initiate"]
          /\ service' = t
          /\ instances' = instances + 1
          /\ UNCHANGED crashed
       \/ /\ thr[t] = "nullctx" \/ refs[t] <= 0
          /\ crashed' = TRUE
          /\ UNCHANGED <<thr, service, instances>>
    /\ UNCHANGED <<current, router, status, ctx, refs, held, posted, term,
                   reports, aborted>>

\* A mistake: charonservice_deinit leaves the pointer to the freed instance.
InitFailsDangling(t) ==
    /\ Initializing(t)
    /\ \/ service' = service
       \/ thr[t] = "loading" /\ service' = t
    /\ thr' = [thr EXCEPT ![t] = "failed"]
    /\ term' = [term EXCEPT ![t] = Call(t)]
    /\ UNCHANGED <<current, router, status, ctx, refs, held, posted,
                   instances, reports, aborted, crashed>>

\* A mistake: run() returns after a failed start without terminateConnection.
InitFailsReturns(t) ==
    /\ Initializing(t)
    /\ \/ service' = service
       \/ thr[t] = "loading" /\ service' = NULL
    /\ thr' = [thr EXCEPT ![t] = "failed"]
    /\ UNCHANGED <<current, router, status, ctx, refs, held, posted, term,
                   instances, reports, aborted, crashed>>

\* A library fails to start before the instance is made, or charon does
\* after it: then charonservice_deinit has cleared the pointer.
InitFails(t) ==
    /\ Initializing(t)
    /\ \/ service' = service
       \/ thr[t] = "loading" /\ service' = NULL
    /\ thr' = [thr EXCEPT ![t] = "failed"]
    /\ term' = [term EXCEPT ![t] = Call(t)]
    /\ UNCHANGED <<current, router, status, ctx, refs, held, posted,
                   instances, reports, aborted, crashed>>

\* libipsec_init fails and initialize_library returns -1, which is true.
InitSeemsFine(t) ==
    /\ Initializing(t)
    /\ thr' = [thr EXCEPT ![t] = "initiate"]
    /\ UNCHANGED <<current, router, status, ctx, refs, held, posted, term,
                   service, instances, reports, aborted, crashed>>

\* Back from the terminateConnection of a failed start: return.
FailedReturn(t) ==
    /\ AtThread(t, "failed")
    /\ thr' = [thr EXCEPT ![t] = "done"]
    /\ held' = [held EXCEPT ![t] = FALSE]
    /\ UNCHANGED <<current, status, ctx, refs, posted, term, service,
                   instances, reports, crashed, router, aborted>>

\* initiate: initialize_tunnel configures the instance the pointer names.
Initiate(t) ==
    /\ AtThread(t, "initiate")
    /\ crashed' = (service = NULL)
    /\ thr' = [thr EXCEPT ![t] = IF service = NULL THEN @ ELSE "check"]
    /\ UNCHANGED <<current, status, ctx, refs, held, posted, term, service,
                   instances, reports, router, aborted>>

\* A mistake: sleep() instead of wait(), which keeps the monitor.
CheckWaitHolding(t) ==
    /\ AtThread(t, "check")
    /\ IF status[t] = "TERMINATED"
       THEN /\ thr' = [thr EXCEPT ![t] = "end"]
            /\ term' = [term EXCEPT ![t] = Call(t)]
            /\ held' = [held EXCEPT ![t] = FALSE]
       ELSE thr' = [thr EXCEPT ![t] = "waiting"] /\ UNCHANGED <<held, term>>
    /\ UNCHANGED <<current, status, ctx, refs, posted, service, instances,
                   reports, crashed, router, aborted>>

\* while(!isTerminated()) wait(): waiting leaves the monitor, and so does
\* the end of the loop, after which terminateConnection is called again.  A
\* notified thread takes the monitor back and looks again.
CheckWait(t) ==
    /\ AtThread(t, "check")
    /\ held' = [held EXCEPT ![t] = FALSE]
    /\ IF status[t] = "TERMINATED"
       THEN /\ thr' = [thr EXCEPT ![t] = "end"]
            /\ term' = [term EXCEPT ![t] = Call(t)]
       ELSE thr' = [thr EXCEPT ![t] = "waiting"] /\ UNCHANGED term
    /\ UNCHANGED <<current, status, ctx, refs, posted, service, instances,
                   reports, crashed, router, aborted>>

\* deinitializeCharon: charonservice_deinit frees whatever instance the
\* pointer names.  The libraries count their users; the last one waits for
\* charon's threads.
DeinitCharon(t) ==
    /\ AtThread(t, "end")
    /\ instances = 1 => term["charon"] = Idle
    /\ IF service = NULL
       THEN crashed' = TRUE /\ UNCHANGED <<thr, service, instances>>
       ELSE /\ thr' = [thr EXCEPT ![t] = "done"]
            /\ service' = NULL
            /\ instances' = instances - 1
            /\ UNCHANGED crashed
    /\ UNCHANGED <<current, status, ctx, refs, held, posted, term, reports,
                   router, aborted>>

ThreadStep(t) ==
    \/ ThreadStart(t)
    \/ LoadCtx(t)
    \/ InitCharon(t)
    \/ InitFails(t)
    \/ InitSeemsFine(t)
    \/ FailedReturn(t)
    \/ Initiate(t)
    \/ CheckWait(t)
    \/ DeinitCharon(t)

----------------------------------------------------------------------------
(* Charon's threads report through the global pointer, one at a time. *)

CharonCalls ==
    /\ ~crashed
    /\ instances > 0
    /\ term["charon"] = Idle
    /\ reports < MaxReports
    /\ reports' = reports + 1
    /\ crashed' = (service = NULL)

\* updateStatus(STATE_CHILD_SA_UP) posts CONNECTED.
CharonUp ==
    /\ CharonCalls
    /\ posted' = IF service = NULL THEN posted
                 ELSE Append(posted, [tun |-> service, status |-> "CONNECTED"])
    /\ UNCHANGED <<current, status, ctx, refs, thr, held, term, service,
                   instances, router, aborted>>

\* The error states end in setErrorDisconnect.
CharonError ==
    /\ CharonCalls
    /\ term' = IF service # NULL /\ status[service] # "TERMINATED"
               THEN [term EXCEPT !["charon"] = Call(service)]
               ELSE term
    /\ UNCHANGED <<current, status, ctx, refs, thr, held, posted, service,
                   instances, router, aborted>>

Next ==
    \/ Restart
    \/ \E t \in Tuns, created \in BOOLEAN : Activate(t, created)
    \/ Stop
    \/ Close
    \/ RunPosted
    \/ \E c \in Callers : TermStep(c)
    \/ \E t \in Tuns : ThreadStep(t)
    \/ CharonUp
    \/ CharonError

Spec == Init /\ [][Next]_vars

\* Threads that can run do; nobody has to press a button, and charon need
\* not report anything.
Fairness ==
    /\ \A c \in Callers : WF_vars(TermStep(c))
    /\ \A t \in Tuns : WF_vars(ThreadStep(t))
    /\ WF_vars(RunPosted)

FairSpec == Spec /\ Fairness

----------------------------------------------------------------------------
(* Properties *)

\* A tunnel whose thread has ended leaves no native context behind, once no
\* call of terminateConnection for it is in progress: every exit of run()
\* goes through terminateConnection, and a call that finds the tunnel
\* TERMINATED may rely on the other one to release the context.  The one
\* way to lose the context is charon's call meeting a router that is gone.
EndedIsReleased ==
    \A t \in Tuns :
        (~crashed /\ thr[t] = "done" /\ \A c \in Callers : term[c].tun # t)
            => (~ctx[t] /\ refs[t] <= 0) \/ t \in aborted

\* A tunnel is not shown as connected before it was shown as connecting:
\* startConnection posts CONNECTING before charon exists, and the Handler
\* runs what is posted in order.
ConnectingComesFirst ==
    [][\A t \in Tuns :
          status[t] = "DISCONNECTED" => status'[t] # "CONNECTED"]_vars

\* Every terminateConnection returns: the monitor its last statement needs
\* is held only while charon starts, never while a thread waits.
TerminateReturns ==
    \A c \in Callers : (term[c] # Idle) ~> (term[c] = Idle \/ crashed)

\* The thread of a tunnel that stays TERMINATED ends and stops charon: no
\* notification is lost between the check of isTerminated and wait(), except
\* the one that charon's call owes when it meets a router that is gone.
TerminatedEnds ==
    \A t \in Tuns :
        <>[](status[t] = "TERMINATED")
            => <>[](thr[t] \in {"none", "done"} \/ t \in aborted \/ crashed)

\* There is one charonservice_t at a time (the comment above the global
\* pointer in strongswan.c).
SingleInstance == instances <= 1
=============================================================================
