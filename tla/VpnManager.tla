----------------------------- MODULE VpnManager -----------------------------
(***************************************************************************
 VpnManagerService.java with its ConfigurationDelegate and
 NetworkStateListener: which tunnel is current, what is pending until the
 VPN service may start, and which profile on-demand rules select.

 All handlers run on the main thread, one after another; each is an action
 and the methods it calls are operators on the state of the service.  The
 other actors are the threads of the tunnels, which report their state
 through notifyTunnelStateChanged, the thread that loads the profiles, the
 device's network, and Android: it delivers intents and broadcasts, asks
 the user for the VPN permission (StartVpn.java) and ends processes.
 Tunnels behave as OpenVpnTunnel does, whose thread reports without the
 Handler; IpSec is the module of the others.
 ***************************************************************************)
EXTENDS OnDemand, SequencesExt

CONSTANTS
    Lists,        \* what the database may hold: sequences of profiles
    Devices,      \* networks the device may be in, and NULL for none
    MaxTuns,      \* bound: tunnels created by one process
    MaxIntents,   \* bound: intents under way
    MaxPrepares   \* bound: StartVpn activities that wait for the user

ASSUME ListsTyped == \A l \in Lists : l \in Seq(Uuids)
ASSUME DevicesTyped == Devices \subseteq Networks \cup {NULL}
ASSUME BoundsAreNumbers ==
    MaxTuns \in Nat /\ MaxIntents \in Nat /\ MaxPrepares \in Nat

VARIABLES
    m,          \* the service object and what its process holds
    saved,      \* PREF_LAST_TUN_UUID
    prepares,   \* StartVpn activities that wait for the user
    granted,    \* whether the user gave the VPN permission
    intents,    \* intents for the service that are not delivered yet
    device,     \* the network the device is in
    broadcast   \* a connectivity broadcast is not delivered yet

vars == <<m, saved, prepares, granted, intents, device, broadcast>>

\* A tunnel: whether its status is CONNECTED (the manager tells no others
\* apart), whether terminateConnection was called, and whether its thread is
\* in notifyTunnelStateChanged, where it saw that mCurrentTunnel is not null.
Tunnel(u) == [uuid |-> u, up |-> FALSE, ended |-> FALSE, notify |-> FALSE]

\* A mistake: no network is no configuration.
SeenNull(old, dev) == dev

\* What NetworkStateListener makes of the device's network: a lost one only
\* ceases to be active.
Seen(old, dev) ==
    IF dev = NULL THEN [old EXCEPT !.active = FALSE] ELSE dev

Unknown == [active |-> FALSE, iface |-> "Ethernet", ssid |-> NULL,
            roaming |-> FALSE]

\* onCreate and the constructors of the delegates; the profiles are being
\* loaded, the network is read once, and OcpaVpnService is being bound.
Created(last, dev) ==
    [alive |-> TRUE, svc |-> "REVOKED", started |-> FALSE, bound |-> "never",
     pending |-> NULL, last |-> last, cur |-> 0, tuns |-> <<>>,
     router |-> FALSE, onDemand |-> FALSE, loading |-> TRUE, infos |-> <<>>,
     sel |-> NULL, net |-> Seen(Unknown, dev), ocpa |-> FALSE]

Gone == [Created(NULL, Unknown) EXCEPT !.alive = FALSE]

Tunnels == [uuid : Uuids, up : BOOLEAN, ended : BOOLEAN, notify : BOOLEAN]
Selections == [uuid : Uuids, rule : Rules]
Services ==
    [alive : BOOLEAN, svc : {"REVOKED", "STARTED"}, started : BOOLEAN,
     bound : {"never", "bound", "unbound"}, pending : Uuids \cup {NULL},
     last : Uuids \cup {NULL}, cur : Nat, tuns : Seq(Tunnels),
     router : BOOLEAN, onDemand : BOOLEAN, loading : BOOLEAN,
     infos : Seq(Uuids), sel : Selections \cup {NULL}, net : Networks,
     ocpa : BOOLEAN]

ASSUME NullIsNoSelection == NULL \notin Selections

\* The variables have the types of the fields they stand for; the lists stay
\* inside the bounds, and a current tunnel exists.
TypeOK ==
    /\ m \in Services
    /\ m.cur \in 0..Len(m.tuns) /\ Len(m.tuns) <= MaxTuns
    /\ m.infos \in {Reverse(l) : l \in Lists} \cup {<<>>}
    /\ saved \in Uuids \cup {NULL}
    /\ prepares \in 0..MaxPrepares
    /\ granted \in BOOLEAN
    /\ intents \in Seq({"STARTED", "REVOKED"}) /\ Len(intents) <= MaxIntents
    /\ device \in Devices /\ broadcast \in BOOLEAN

Init ==
    /\ m = Gone
    /\ saved = NULL
    /\ prepares = 0
    /\ granted = FALSE
    /\ intents = <<>>
    /\ device \in Devices
    /\ broadcast = FALSE

----------------------------------------------------------------------------
(* Methods.  A handler's state is s: the service, the preferences and the
   activities it starts. *)

Here == [m |-> m, saved |-> saved, prepares |-> prepares]

\* terminateConnection of a tunnel, and of the current one if there is one
Ended(tun) == [tun EXCEPT !.up = FALSE, !.ended = TRUE]
EndCurrent(s) ==
    IF s.m.cur = 0 THEN s
    ELSE [s EXCEPT !.m.tuns[s.m.cur] = Ended(@)]

\* notifyTunnelStateChanged on the main thread
NotifyState(s) ==
    IF s.m.cur # 0 /\ s.m.tuns[s.m.cur].up
    THEN [s EXCEPT !.m.last = s.m.tuns[s.m.cur].uuid,
                   !.saved = s.m.tuns[s.m.cur].uuid]
    ELSE s

\* terminateConnection of the usernat tunnel, which lives as long as the
\* router: its change of state is announced like any other.
EndUsernat(s) == IF s.m.router THEN NotifyState(s) ELSE s

startVpnService(s) ==
    IF s.m.svc = "STARTED" THEN s ELSE [s EXCEPT !.prepares = @ + 1]

\* The factory makes no tunnel without a router or of an unknown type.  The
\* log statement after that dereferences the profile's data: when the
\* profile is not in the map, the process ends.
activateVpnTunnel(s, uuid) ==
    LET u == IF uuid = NULL THEN s.m.last ELSE uuid
        n == [s EXCEPT !.m.pending = NULL]
        e == EndCurrent(n)
    IN  IF s.m.svc # "STARTED"
        THEN startVpnService([s EXCEPT !.m.pending = uuid])
        ELSE IF s.m.cur # 0 /\ s.m.tuns[s.m.cur].uuid = u THEN n
        ELSE IF ~Contains(s.m.infos, u) THEN [s EXCEPT !.m = Gone]
        ELSE IF ~(s.m.router /\ Data[u].supported) THEN n
        ELSE [e EXCEPT !.m = [e.m EXCEPT !.last = IF @ = NULL THEN u ELSE @,
                                         !.tuns = Append(@, Tunnel(u)),
                                         !.cur = Len(s.m.tuns) + 1]]

\* Two mistakes: any tunnel will do; the last one will do.
onCurrentConfigChangedAny(s, uuid) ==
    IF s.m.cur # 0 THEN s ELSE activateVpnTunnel(s, uuid)

onCurrentConfigChangedLast(s, uuid) ==
    IF s.m.cur # 0 /\ s.m.tuns[s.m.cur].uuid = uuid THEN s
    ELSE activateVpnTunnel(s, NULL)

onCurrentConfigChanged(s, uuid) ==
    IF s.m.cur # 0 /\ s.m.tuns[s.m.cur].uuid = uuid THEN s
    ELSE activateVpnTunnel(s, uuid)

\* A selection that still matches stays; if nothing else applies, so does
\* one that does not.
updateCurrentConfiguration(s, ok) ==
    LET keep == s.m.sel # NULL /\ Match(s.m.net, s.m.sel.rule.net)
        sel == IF keep THEN s.m.sel ELSE FirstRule(s.m.infos, s.m.net, ok)
        n == [s EXCEPT !.m.sel = sel]
    IN  IF sel = NULL THEN s
        ELSE IF s.m.onDemand THEN onCurrentConfigChanged(n, sel.uuid)
        ELSE n

\* NetworkStateListener.updateConfig
updateConfig(s, ok) ==
    updateCurrentConfiguration([s EXCEPT !.m.net = Seen(@, device)], ok)

\* notifyVpnServiceRevoked: the current tunnel goes before the usernat
\* tunnel, whose change of state therefore finds none.
notifyVpnServiceRevoked(s) ==
    LET e == EndCurrent(s) IN
    [e EXCEPT !.m = [e.m EXCEPT !.svc = "REVOKED", !.cur = 0,
                                !.router = FALSE, !.onDemand = FALSE]]

\* A mistake: the on-demand rules come first.
notifyVpnServiceStartedOnDemand(s, ok) ==
    updateCurrentConfiguration(
        [EndCurrent(EndUsernat(s)) EXCEPT !.m.svc = "STARTED",
                                          !.m.router = TRUE,
                                          !.m.onDemand = TRUE], ok)

\* notifyVpnServiceStarted: everything is terminated and made anew, except
\* that the current tunnel stays current.  The interface of OcpaVpnService
\* is used unchecked: if it is not bound yet, the process ends.
notifyVpnServiceStarted(s, ok) ==
    LET e == EndCurrent(EndUsernat(s))
        n == [e EXCEPT !.m = [e.m EXCEPT !.svc = "STARTED", !.router = TRUE]]
    IN  IF ~s.m.ocpa THEN [s EXCEPT !.m = Gone]
        ELSE IF s.m.pending # NULL THEN activateVpnTunnel(n, s.m.pending)
        ELSE updateCurrentConfiguration([n EXCEPT !.m.onDemand = TRUE], ok)

\* A handler's outcome, inside the bounds
Apply(s) ==
    /\ s.prepares <= MaxPrepares
    /\ Len(s.m.tuns) <= MaxTuns
    /\ m' = s.m
    /\ saved' = s.saved
    /\ prepares' = IF m.alive /\ ~s.m.alive THEN 0 ELSE s.prepares

----------------------------------------------------------------------------
(* The user. *)

\* A mistake: the listener waits for the next broadcast.
OpenUiWaits ==
    /\ m.bound # "bound"
    /\ LET s == IF m.alive THEN Here
                ELSE [Here EXCEPT !.m = Created(saved, device)]
       IN  Apply(IF s.m.bound = "never" THEN [s EXCEPT !.m.bound = "bound"]
                 ELSE s)
    /\ UNCHANGED <<granted, intents, device, broadcast>>

\* Main binds the service, which creates it if need be.  Android calls
\* onBind for the first client only, whatever unbinds in between.
OpenUi ==
    /\ m.bound # "bound"
    /\ LET s == IF m.alive THEN Here
                ELSE [Here EXCEPT !.m = Created(saved, device)]
       IN  \E ok \in SUBSET Probed :
             Apply(IF s.m.bound = "never"
                   THEN updateConfig([s EXCEPT !.m.bound = "bound"], ok)
                   ELSE s)
    /\ UNCHANGED <<granted, intents, device, broadcast>>

\* Main unbinds: onUnbind ends the listener, when StartVpn is not bound any
\* more either.  A service that was never started is destroyed.
CloseUi ==
    /\ m.alive /\ m.bound = "bound"
    /\ m.started => prepares = 0
    /\ m' = IF m.started THEN [m EXCEPT !.bound = "unbound"] ELSE Gone
    /\ broadcast' = FALSE
    /\ UNCHANGED <<saved, prepares, granted, intents, device>>

\* Main has the service's interface; it may have bound the service again.
Bound == m.alive /\ m.bound # "never"

\* The list of profiles or the switch of the user interface
ActivateUser(u) ==
    /\ Bound
    /\ Apply(activateVpnTunnel(Here, u))
    /\ UNCHANGED <<granted, intents, device, broadcast>>

\* A mistake: the tunnel is forgotten but not terminated.
DeactivateUserForgets ==
    /\ Bound
    /\ Apply([Here EXCEPT !.m.cur = 0])
    /\ UNCHANGED <<granted, intents, device, broadcast>>

DeactivateUser ==
    /\ Bound
    /\ Apply([EndCurrent(Here) EXCEPT !.m.cur = 0])
    /\ UNCHANGED <<granted, intents, device, broadcast>>

StartUser ==
    /\ Bound
    /\ Apply(startVpnService(Here))
    /\ UNCHANGED <<granted, intents, device, broadcast>>

\* A mistake: only the router and the usernat tunnel are stopped.
StopUserRouterOnly ==
    /\ Bound
    /\ m.svc = "STARTED"
    /\ Apply([EndUsernat(Here) EXCEPT !.m.router = FALSE])
    /\ UNCHANGED <<granted, intents, device, broadcast>>

\* stopVpnService: the state of the service stays STARTED, and the intent it
\* sends goes to this service, which ignores it.
StopUser ==
    /\ Bound
    /\ m.svc = "STARTED"
    /\ LET e == EndCurrent(EndUsernat(Here)) IN
       Apply([e EXCEPT !.m = [e.m EXCEPT !.cur = 0, !.router = FALSE]])
    /\ UNCHANGED <<granted, intents, device, broadcast>>

----------------------------------------------------------------------------
(* StartVpn and the intents it leads to. *)

Send(i) ==
    /\ Len(intents) < MaxIntents
    /\ intents' = Append(intents, i)

\* The permission is there, or the user gives it: OcpaVpnService starts and
\* tells the manager.
PrepareOk ==
    /\ prepares > 0
    /\ prepares' = prepares - 1
    /\ granted' = TRUE
    /\ Send("STARTED")
    /\ UNCHANGED <<m, saved, device, broadcast>>

\* The user refuses; the result reaches the service if it lives.
PrepareCancelled ==
    /\ prepares > 0 /\ ~granted
    /\ m' = IF m.alive THEN notifyVpnServiceRevoked(Here).m ELSE m
    /\ prepares' = prepares - 1
    /\ UNCHANGED <<saved, granted, intents, device, broadcast>>

\* Locked or unsupported: the result comes inside onCreate, before the
\* activity's binding is connected, and is dropped.
PrepareImpossible ==
    /\ prepares > 0 /\ ~granted
    /\ prepares' = prepares - 1
    /\ UNCHANGED <<m, saved, granted, intents, device, broadcast>>

\* The system takes the VPN away (OcpaVpnService.onRevoke).
Revoke ==
    /\ granted
    /\ granted' = FALSE
    /\ Send("REVOKED")
    /\ UNCHANGED <<m, saved, prepares, device, broadcast>>

\* onServiceConnected of SimpleServiceBindKit
OcpaConnected ==
    /\ m.alive /\ ~m.ocpa
    /\ m' = [m EXCEPT !.ocpa = TRUE]
    /\ UNCHANGED <<saved, prepares, granted, intents, device, broadcast>>

\* onStartCommand; an intent creates the service it is for.
DeliverIntent ==
    /\ intents # <<>>
    /\ intents' = Tail(intents)
    /\ LET c == IF m.alive THEN Here
                ELSE [Here EXCEPT !.m = Created(saved, device)]
           s == [c EXCEPT !.m.started = TRUE]
       IN  \/ Head(intents) = "REVOKED" /\ Apply(notifyVpnServiceRevoked(s))
           \/ /\ Head(intents) = "STARTED"
              /\ \E ok \in SUBSET Probed : Apply(notifyVpnServiceStarted(s, ok))
    /\ UNCHANGED <<granted, device, broadcast>>

----------------------------------------------------------------------------
(* Profiles and networks. *)

\* OnDemandVpnListPerformer reads the database, whatever profiles it holds
\* at that time, and onSuccess runs on the main thread: the list is in
\* reverse order.  It is read once; later installations are not seen.
Load(list) ==
    /\ m.alive /\ m.loading
    /\ \E ok \in SUBSET Probed :
         Apply(updateCurrentConfiguration(
                 [Here EXCEPT !.m = [m EXCEPT !.loading = FALSE,
                                              !.infos = Reverse(list)]], ok))
    /\ UNCHANGED <<granted, intents, device, broadcast>>

\* onError: the list stays empty, for good.
LoadFailed ==
    /\ m.alive /\ m.loading
    /\ m' = [m EXCEPT !.loading = FALSE]
    /\ UNCHANGED <<saved, prepares, granted, intents, device, broadcast>>

NetworkChange ==
    /\ device' \in Devices \ {device}
    /\ broadcast' = (m.bound = "bound")
    /\ UNCHANGED <<m, saved, prepares, granted, intents>>

\* onReceive
Connectivity ==
    /\ m.alive /\ m.bound = "bound" /\ broadcast
    /\ broadcast' = FALSE
    /\ \E ok \in SUBSET Probed : Apply(updateConfig(Here, ok))
    /\ UNCHANGED <<granted, intents, device>>

----------------------------------------------------------------------------
(* The threads of the tunnels, and the end of the process. *)

\* setConnectionStatus, whatever the main thread set before, and the check
\* of mCurrentTunnel in notifyTunnelStateChanged.
Report(i, up) ==
    /\ m.alive
    /\ ~m.tuns[i].notify
    /\ m' = [m EXCEPT !.tuns[i] = [@ EXCEPT !.up = up, !.notify = (m.cur # 0)]]
    /\ UNCHANGED <<saved, prepares, granted, intents, device, broadcast>>

\* The thread terminates its tunnel itself.
ReportEnd(i) ==
    /\ m.alive
    /\ ~m.tuns[i].notify
    /\ m' = [m EXCEPT !.tuns[i] = [Ended(@) EXCEPT !.notify = (m.cur # 0)]]
    /\ UNCHANGED <<saved, prepares, granted, intents, device, broadcast>>

\* mCurrentTunnel is read again: it may be another tunnel, or null.  A
\* connected one is saved as the last.
ReportRead(i) ==
    /\ m.alive
    /\ m.tuns[i].notify
    /\ IF m.cur = 0 THEN m' = Gone /\ saved' = saved /\ prepares' = 0
       ELSE LET s == NotifyState(Here) IN
            /\ m' = [s.m EXCEPT !.tuns[i].notify = FALSE]
            /\ saved' = s.saved
            /\ UNCHANGED prepares
    /\ UNCHANGED <<granted, intents, device, broadcast>>

\* Android ends the process; START_NOT_STICKY keeps it from coming back by
\* itself.
Kill ==
    /\ m.alive
    /\ m' = Gone
    /\ prepares' = 0
    /\ broadcast' = FALSE
    /\ UNCHANGED <<saved, granted, intents, device>>

Next ==
    \/ OpenUi \/ CloseUi
    \/ \E u \in Uuids \cup {NULL} : ActivateUser(u)
    \/ DeactivateUser \/ StartUser \/ StopUser
    \/ PrepareOk \/ PrepareCancelled
    \/ PrepareImpossible \/ Revoke \/ OcpaConnected \/ DeliverIntent
    \/ (\E list \in Lists : Load(list)) \/ LoadFailed
    \/ NetworkChange \/ Connectivity
    \/ \E i \in DOMAIN m.tuns :
         \/ \E up \in BOOLEAN : Report(i, up)
         \/ ReportEnd(i)
         \/ ReportRead(i)
    \/ Kill

Spec == Init /\ [][Next]_vars

----------------------------------------------------------------------------
(* Properties *)

\* Every tunnel but the current one was told to terminate: no handler, and
\* no restart of the service, loses the only reference to a running tunnel.
OneTunnel == \A i \in DOMAIN m.tuns : i # m.cur => m.tuns[i].ended

\* While a tunnel is current or was not told to terminate there is a router:
\* terminateConnection and the routes of a connected tunnel go through
\* mRouterLoop without a check for null.
RouterForTunnels ==
    (m.cur # 0 \/ \E i \in DOMAIN m.tuns : ~m.tuns[i].ended) => m.router

\* Nothing is pending while the service is started: a stale request would be
\* served by the next start instead of the on-demand rules.
PendingServed == m.svc = "STARTED" => m.pending = NULL

\* With the listener registered and no broadcast under way, a profile is
\* selected whose rule matches the network the device is in, whenever some
\* rule without a probe does: whatever order profiles, networks and bindings
\* came in.
SelectionFresh ==
    (m.alive /\ m.bound = "bound" /\ ~broadcast
       /\ FirstRule(m.infos, Seen(m.net, device), {}) # NULL)
    => /\ m.sel # NULL
       /\ Match(Seen(m.net, device), m.sel.rule.net)

\* When a connectivity event is handled with on-demand enabled and a router
\* there, the tunnel of the selected profile is current afterwards.
OnDemandFollows ==
    [][(/\ m.onDemand /\ m.router /\ m'.alive /\ m'.sel # NULL
        /\ Data[m'.sel.uuid].supported
        /\ Match(m'.net, m'.sel.rule.net)
        /\ broadcast /\ ~broadcast' /\ Connectivity)
       => /\ m'.cur # 0
          /\ m'.tuns[m'.cur].uuid = m'.sel.uuid]_vars

\* Neither a connectivity event nor the arrival of the profiles ends the
\* process: the profile that was selected, perhaps long ago, is still in the
\* map when activateVpnTunnel looks it up and uses what it found.
OnDemandSurvives ==
    [][(m.alive /\ ~m'.alive)
       => ~Connectivity /\ \A list \in Lists : ~Load(list)]_vars
=============================================================================
