-------------------------- MODULE VpnManagerProofs --------------------------
(***************************************************************************)
(* Proofs about module VpnManager, for any profiles, rules and networks.   *)
(***************************************************************************)
EXTENDS VpnManager, Lemmas

\* What every handler keeps of a service: its fields have their types, every
\* tunnel but the current one was told to end, there is no current tunnel
\* without a router and no router without the VPN service, and a selected
\* profile is in the map, which is empty until it is loaded.
Good(x) ==
    /\ x \in Services
    /\ x.cur \in 0..Len(x.tuns)
    /\ \A i \in 1..Len(x.tuns) : i # x.cur => x.tuns[i].ended
    /\ x.cur # 0 => x.router
    /\ x.router => x.svc = "STARTED"
    /\ x.infos \in {Reverse(l) : l \in Lists} \cup {<<>>}
    /\ x.sel # NULL => Contains(x.infos, x.sel.uuid)
    /\ x.loading => x.infos = <<>>

NothingPending(x) == x.svc = "STARTED" => x.pending = NULL

\* The selection fits the network the service knows, if any rule without a
\* probe does.
Fresh(x) ==
    FirstRule(x.infos, x.net, {}) # NULL
      => x.sel # NULL /\ Match(x.net, x.sel.rule.net)

\* A registered listener knows the device's network and the selection fits
\* it, or a broadcast is under way.
Informed(x, dev, due) ==
    (x.bound = "bound" /\ ~due) => x.net = Seen(x.net, dev) /\ Fresh(x)

\* The inductive invariant: a service as its handlers keep it, or none; and
\* the types and bounds of the rest.
IInv ==
    /\ Good(m) /\ NothingPending(m) /\ Len(m.tuns) <= MaxTuns
    /\ m = Gone \/ (m.alive /\ Informed(m, device, broadcast))
    /\ saved \in Uuids \cup {NULL}
    /\ prepares \in 0..MaxPrepares
    /\ granted \in BOOLEAN
    /\ intents \in Seq({"STARTED", "REVOKED"}) /\ Len(intents) <= MaxIntents
    /\ device \in Devices /\ broadcast \in BOOLEAN

-----------------------------------------------------------------------------
(* The methods of the service, one lemma each. *)

\* The state of a handler.
States == [m : Services, saved : Uuids \cup {NULL}, prepares : Nat]

\* What a method leaves alone, apart from the selection.
Frame(x, y) ==
    /\ y.alive = x.alive /\ y.bound = x.bound /\ y.infos = x.infos
    /\ y.net = x.net /\ y.loading = x.loading

\* Two services that differ in nothing the invariant speaks of.
Alike(x, y) ==
    /\ x \in Services /\ y \in Services /\ Frame(x, y)
    /\ y.svc = x.svc /\ y.cur = x.cur /\ y.tuns = x.tuns
    /\ y.router = x.router /\ y.onDemand = x.onDemand /\ y.sel = x.sel

\* What is good of a service depends on the fields that Alike compares.
LEMMA AlikeGood ==
    ASSUME NEW x, NEW y, Alike(x, y), Good(x)
    PROVE  Good(y)
BY DEF Alike, Frame, Good

\* What replacing the service in a state changes.
LEMMA SetService ==
    ASSUME NEW s \in States, NEW y \in Services
    PROVE  /\ [s EXCEPT !.m = y] \in States
           /\ [s EXCEPT !.m = y].m = y
           /\ [s EXCEPT !.m = y].saved = s.saved
           /\ [s EXCEPT !.m = y].prepares = s.prepares
BY DEF States

\* A tunnel that ended is the same tunnel.
LEMMA EndedTyped ==
    ASSUME NEW x \in Tunnels
    PROVE  Ended(x) \in Tunnels /\ Ended(x).ended /\ Ended(x).uuid = x.uuid
BY DEF Ended, Tunnels

\* A service that is gone keeps nothing.
LEMMA GoneGood == Gone \in Services /\ Good(Gone) /\ NothingPending(Gone) /\ ~Gone.alive
                  /\ Gone.bound = "never" /\ Gone.infos = <<>> /\ Gone.tuns = <<>>
<1> DEFINE x == Created(NULL, Unknown)
<1>1. Seen(Unknown, Unknown) \in Networks
  BY DEF Seen, Unknown, Networks, Interfaces
<1>2. x \in Services
  BY <1>1 DEF Created, Services
<1>3. /\ x.tuns = <<>> /\ x.cur = 0 /\ x.router = FALSE /\ x.sel = NULL
      /\ x.infos = <<>> /\ x.svc = "REVOKED" /\ x.bound = "never"
  BY DEF Created
<1>4. Gone = [x EXCEPT !.alive = FALSE]
  BY DEF Gone
<1>5. /\ Gone \in Services /\ Gone.tuns = <<>> /\ Gone.cur = 0
      /\ Gone.router = FALSE /\ Gone.sel = NULL /\ Gone.infos = <<>>
      /\ Gone.svc = "REVOKED" /\ Gone.bound = "never" /\ ~Gone.alive
  <2> HIDE DEF x
  <2> QED BY <1>2, <1>3, <1>4 DEF Services
<1>6. Len(Gone.tuns) = 0
  BY <1>5
<1> QED BY <1>5, <1>6 DEF Good, NothingPending

\* terminateConnection leaves no tunnel that was not told to end.
LEMMA EndCurrentFacts ==
    ASSUME NEW s \in States, Good(s.m)
    PROVE  LET e == EndCurrent(s) IN
           /\ e \in States /\ e.saved = s.saved /\ e.prepares = s.prepares
           /\ e.m \in Services
           /\ Len(e.m.tuns) = Len(s.m.tuns)
           /\ \A i \in 1..Len(s.m.tuns) :
                e.m.tuns[i].ended /\ e.m.tuns[i].uuid = s.m.tuns[i].uuid
           /\ e.m = [s.m EXCEPT !.tuns = e.m.tuns]
<1>1. CASE s.m.cur = 0
  <2>1. EndCurrent(s) = s
    BY <1>1 DEF EndCurrent
  <2>2. s.m \in Services /\ s.m = [s.m EXCEPT !.tuns = s.m.tuns]
    BY DEF States, Services
  <2> QED BY <2>1, <2>2, <1>1 DEF Good
<1>2. CASE s.m.cur # 0
  <2> DEFINE T == [s.m.tuns EXCEPT ![s.m.cur] = Ended(s.m.tuns[s.m.cur])]
             y == [s.m EXCEPT !.tuns = T]
  <2>1. EndCurrent(s) = [s EXCEPT !.m = y]
    BY <1>2 DEF EndCurrent
  <2>2. s.m \in Services /\ s.m.tuns \in Seq(Tunnels) /\ s.m.cur \in 1..Len(s.m.tuns)
    BY <1>2 DEF States, Services, Good
  <2>3. s.m.tuns[s.m.cur] \in Tunnels
    BY <2>2
  <2>4. T \in Seq(Tunnels) /\ Len(T) = Len(s.m.tuns)
    BY <2>2, <2>3, EndedTyped
  <2>5. \A i \in 1..Len(s.m.tuns) : T[i].ended /\ T[i].uuid = s.m.tuns[i].uuid
    BY <2>2, <2>3, EndedTyped DEF Good
  <2> HIDE DEF T
  <2>6. y \in Services /\ y.tuns = T
    BY <2>2, <2>4 DEF Services
  <2>7. PICK z : z = y
    OBVIOUS
  <2>8. /\ EndCurrent(s) \in States /\ EndCurrent(s).m = z
        /\ EndCurrent(s).saved = s.saved /\ EndCurrent(s).prepares = s.prepares
    BY <2>1, <2>6, <2>7, SetService
  <2>9. z = [s.m EXCEPT !.tuns = z.tuns] /\ z \in Services /\ z.tuns = T
    BY <2>6, <2>7
  <2> QED BY <2>4, <2>5, <2>8, <2>9
<1> QED BY <1>1, <1>2

\* Saving the last tunnel changes nothing else.
LEMMA NotifyStateFacts ==
    ASSUME NEW s \in States, Good(s.m)
    PROVE  LET r == NotifyState(s) IN
           /\ r \in States /\ r.prepares = s.prepares
           /\ Alike(s.m, r.m) /\ Good(r.m) /\ r.m.pending = s.m.pending
<1>1. s.m \in Services
  BY DEF States
<1>2. CASE s.m.cur # 0 /\ s.m.tuns[s.m.cur].up
  <2>1. s.m.tuns \in Seq(Tunnels) /\ s.m.cur \in 1..Len(s.m.tuns)
    BY <1>1, <1>2 DEF Services, Good
  <2>2. s.m.tuns[s.m.cur] \in Tunnels
    BY <2>1
  <2>3. PICK u \in Uuids : u = s.m.tuns[s.m.cur].uuid
    BY <2>2 DEF Tunnels
  <2>4. NotifyState(s) = [s EXCEPT !.m.last = u, !.saved = u]
    BY <1>2, <2>3 DEF NotifyState
  <2>5. PICK y : y = [s.m EXCEPT !.last = u]
    OBVIOUS
  <2>6. Alike(s.m, y) /\ y.pending = s.m.pending
    BY <1>1, <2>5 DEF Alike, Frame, Services
  <2>7. /\ NotifyState(s) \in States /\ NotifyState(s).m = y
        /\ NotifyState(s).prepares = s.prepares
    BY <2>4, <2>5, <2>6 DEF States, Alike
  <2> QED BY <2>6, <2>7, AlikeGood
<1>3. CASE ~(s.m.cur # 0 /\ s.m.tuns[s.m.cur].up)
  <2>1. NotifyState(s) = s
    BY <1>3 DEF NotifyState
  <2> QED BY <1>1, <2>1 DEF Alike, Frame
<1> QED BY <1>2, <1>3

\* Ending usernat leaves the service good and asks for nothing.
LEMMA EndUsernatFacts ==
    ASSUME NEW s \in States, Good(s.m)
    PROVE  LET r == EndUsernat(s) IN
           /\ r \in States /\ r.prepares = s.prepares
           /\ Alike(s.m, r.m) /\ Good(r.m) /\ r.m.pending = s.m.pending
<1>1. s.m \in Services
  BY DEF States
<1>2. EndUsernat(s) = s \/ EndUsernat(s) = NotifyState(s)
  BY DEF EndUsernat
<1> QED BY <1>1, <1>2, NotifyStateFacts DEF Alike, Frame

\* startVpnService leaves the service itself alone.
LEMMA StartFacts ==
    ASSUME NEW s \in States
    PROVE  LET r == startVpnService(s) IN r \in States /\ r.m = s.m
BY DEF startVpnService, States

\* What an activation makes of the service: it does not end the process if
\* the profile is in the map, leaves nothing pending when the service is
\* started, and makes the profile's tunnel current if there is a router.
Activated(x, uuid, y) ==
    /\ y \in Services /\ Good(y) /\ NothingPending(y)
    /\ y = Gone \/ (Frame(x, y) /\ y.sel = x.sel)
    /\ uuid \in Uuids /\ Contains(x.infos, uuid) =>
         Frame(x, y) /\ y.sel = x.sel
    /\ (/\ uuid \in Uuids /\ Contains(x.infos, uuid)
        /\ x.router /\ Data[uuid].supported)
         => y.cur # 0 /\ y.tuns[y.cur].uuid = uuid

\* A new tunnel after the current one was told to end.
LEMMA NewTunnel ==
    ASSUME NEW y \in Services, Good(y), NothingPending(y), y.router,
           NEW u \in Uuids,
           NEW T \in Seq(Tunnels), Len(T) = Len(y.tuns),
           \A i \in 1..Len(T) : T[i].ended,
           NEW z \in Services,
           z.tuns = Append(T, Tunnel(u)), z.cur = Len(y.tuns) + 1,
           Frame(y, z), z.sel = y.sel, z.svc = y.svc, z.router = y.router,
           z.pending = y.pending
    PROVE  /\ Good(z) /\ NothingPending(z)
           /\ z.cur # 0 /\ z.tuns[z.cur].uuid = u
<1>1. Tunnel(u) \in Tunnels /\ Tunnel(u).uuid = u
  BY DEF Tunnel, Tunnels
<1>2. PICK N \in Nat : N = Len(T) /\ N = Len(y.tuns)
  OBVIOUS
<1>3. PICK Q : Q = z.tuns
  OBVIOUS
<1>4. /\ Q \in Seq(Tunnels) /\ Len(Q) = N + 1 /\ Q[N + 1] = Tunnel(u)
      /\ \A i \in 1..N : Q[i] = T[i]
  BY <1>1, <1>2, <1>3
<1>5. z.cur \in 0..Len(z.tuns)
  BY <1>2, <1>3, <1>4
<1>6. \A i \in 1..Len(z.tuns) : i # z.cur => z.tuns[i].ended
  BY <1>2, <1>3, <1>4
<1>7. Good(z) /\ NothingPending(z)
  BY <1>5, <1>6 DEF Good, NothingPending, Frame
<1> QED BY <1>1, <1>2, <1>3, <1>4, <1>7

\* activateVpnTunnel does what Activated says, on each of its ways out.
LEMMA ActivateFacts ==
    ASSUME NEW s \in States, Good(s.m), NEW uuid \in Uuids \cup {NULL}
    PROVE  LET r == activateVpnTunnel(s, uuid) IN
           r \in States /\ Activated(s.m, uuid, r.m)
<1> DEFINE u == IF uuid = NULL THEN s.m.last ELSE uuid
           n == [s EXCEPT !.m.pending = NULL]
           e == EndCurrent(n)
<1> PICK r : r = activateVpnTunnel(s, uuid)
  OBVIOUS
<1> SUFFICES r \in States /\ Activated(s.m, uuid, r.m)
  OBVIOUS
<1>0. s.m \in Services /\ NULL \notin Uuids
  BY NullIsNoName DEF States
<1>1. uuid \in Uuids => u = uuid
  BY <1>0
<1>2. CASE s.m.svc # "STARTED"
  <2>1. PICK y : y = [s.m EXCEPT !.pending = uuid]
    OBVIOUS
  <2>2. Alike(s.m, y) /\ y \in Services
    BY <1>0, <2>1 DEF Alike, Frame, Services
  <2>3. r = startVpnService([s EXCEPT !.m = y])
    BY <1>2, <2>1 DEF activateVpnTunnel
  <2>4. [s EXCEPT !.m = y] \in States /\ [s EXCEPT !.m = y].m = y
    BY <2>2, SetService
  <2>5. r \in States /\ r.m = y
    BY <2>3, <2>4, StartFacts
  <2>6. Good(y) /\ NothingPending(y)
    BY <1>2, <2>2, AlikeGood DEF NothingPending, Alike
  <2>7. ~s.m.router
    BY <1>2 DEF Good
  <2>8. Frame(s.m, y) /\ y.sel = s.m.sel
    BY <2>2 DEF Alike
  <2> QED BY <2>2, <2>5, <2>6, <2>7, <2>8 DEF Activated
<1>3. CASE s.m.svc = "STARTED"
  <2>1. PICK y : y = [s.m EXCEPT !.pending = NULL]
    OBVIOUS
  <2>2. Alike(s.m, y) /\ y \in Services /\ y.pending = NULL
    BY <1>0, <2>1 DEF Alike, Frame, Services
  <2>3. Good(y) /\ NothingPending(y)
    BY <2>2, AlikeGood DEF NothingPending
  <2>4. n \in States /\ n.m = y
    BY <2>1, <2>2, SetService
  <2>5. /\ Frame(s.m, y) /\ y.sel = s.m.sel /\ y.cur = s.m.cur
        /\ y.tuns = s.m.tuns /\ y.router = s.m.router
    BY <2>2 DEF Alike
  <2>6. CASE s.m.cur # 0 /\ s.m.tuns[s.m.cur].uuid = u
    <3>1. r = n
      BY <1>3, <2>6 DEF activateVpnTunnel
    <3> HIDE DEF n, u
    <3> QED BY <1>1, <2>2, <2>3, <2>4, <2>5, <2>6, <3>1 DEF Activated
  <2>7. CASE ~(s.m.cur # 0 /\ s.m.tuns[s.m.cur].uuid = u) /\ ~Contains(s.m.infos, u)
    <3>1. r = [s EXCEPT !.m = Gone]
      BY <1>3, <2>7 DEF activateVpnTunnel
    <3>2. r \in States /\ r.m = Gone
      BY <3>1, GoneGood, SetService
    <3>3. ~(uuid \in Uuids /\ Contains(s.m.infos, uuid))
      BY <1>1, <2>7
    <3> HIDE DEF u
    <3> QED BY <3>2, <3>3, GoneGood DEF Activated
  <2>8. CASE /\ ~(s.m.cur # 0 /\ s.m.tuns[s.m.cur].uuid = u)
             /\ Contains(s.m.infos, u)
             /\ ~(s.m.router /\ Data[u].supported)
    <3>1. r = n
      BY <1>3, <2>8 DEF activateVpnTunnel
    <3>2. ~(uuid \in Uuids /\ s.m.router /\ Data[uuid].supported)
      BY <1>1, <2>8
    <3> HIDE DEF n, u
    <3> QED BY <2>2, <2>3, <2>4, <2>5, <3>1, <3>2 DEF Activated
  <2>9. CASE /\ ~(s.m.cur # 0 /\ s.m.tuns[s.m.cur].uuid = u)
             /\ Contains(s.m.infos, u)
             /\ s.m.router /\ Data[u].supported
    <3>1. u \in Uuids
      BY <1>0, <2>9 DEF Services, Contains
    <3>2. PICK f : f = e
      OBVIOUS
    <3>3. PICK z : z = [f.m EXCEPT !.last = IF f.m.last = NULL THEN u ELSE f.m.last,
                                   !.tuns = Append(f.m.tuns, Tunnel(u)),
                                   !.cur = Len(s.m.tuns) + 1]
      OBVIOUS
    <3>4. r = [f EXCEPT !.m = z]
      <4>1. r = [e EXCEPT !.m = [e.m EXCEPT !.last = IF e.m.last = NULL THEN u ELSE e.m.last,
                                       !.tuns = Append(e.m.tuns, Tunnel(u)),
                                       !.cur = Len(s.m.tuns) + 1]]
        BY <1>3, <2>9 DEF activateVpnTunnel
      <4> HIDE DEF e, u
      <4> QED BY <4>1, <3>2, <3>3
    <3>5. /\ f \in States /\ f.m \in Services
          /\ Len(f.m.tuns) = Len(y.tuns)
          /\ \A i \in 1..Len(y.tuns) : f.m.tuns[i].ended
          /\ f.m = [y EXCEPT !.tuns = f.m.tuns]
      <4> HIDE DEF n
      <4> QED BY <2>3, <2>4, <3>2, EndCurrentFacts
    <3> HIDE DEF e, n, u
    <3>6. PICK T : T = f.m.tuns
      OBVIOUS
    <3>7. PICK l : l = IF f.m.last = NULL THEN u ELSE f.m.last
      OBVIOUS
    <3>8. T \in Seq(Tunnels) /\ l \in Uuids \cup {NULL}
      BY <3>1, <3>5, <3>6, <3>7 DEF Services
    <3>9. z = [[y EXCEPT !.tuns = T] EXCEPT !.last = l,
                                            !.tuns = Append(T, Tunnel(u)),
                                            !.cur = Len(y.tuns) + 1]
      BY <2>5, <3>3, <3>5, <3>6, <3>7
    <3>10. Len(T) = Len(y.tuns) /\ \A i \in 1..Len(T) : T[i].ended
      BY <3>5, <3>6
    <3>11. /\ z \in Services /\ z.tuns = Append(T, Tunnel(u))
           /\ z.cur = Len(y.tuns) + 1 /\ Frame(y, z) /\ z.sel = y.sel
           /\ z.svc = y.svc /\ z.router = y.router /\ z.pending = y.pending
      <4>1. PICK Q : Q = Append(T, Tunnel(u))
        OBVIOUS
      <4>2. Q \in Seq(Tunnels)
        BY <3>1, <3>8, <4>1 DEF Tunnel, Tunnels
      <4>3. PICK c \in Nat : c = Len(y.tuns) + 1
        BY <2>2 DEF Services
      <4>4. z = [[y EXCEPT !.tuns = T] EXCEPT !.last = l, !.tuns = Q, !.cur = c]
        BY <3>9, <4>1, <4>3
      <4>5. z \in Services /\ z.tuns = Q /\ z.cur = c
        BY <2>2, <3>8, <4>2, <4>3, <4>4 DEF Services
      <4>6. /\ Frame(y, z) /\ z.sel = y.sel /\ z.svc = y.svc
            /\ z.router = y.router /\ z.pending = y.pending
        BY <2>2, <4>4 DEF Services, Frame
      <4> QED BY <4>1, <4>3, <4>5, <4>6
    <3>a. y.router
      BY <2>5, <2>9
    <3>b. Good(z) /\ NothingPending(z) /\ z.cur # 0 /\ z.tuns[z.cur].uuid = u
      BY <2>2, <2>3, <3>1, <3>8, <3>10, <3>11, <3>a, NewTunnel
    <3>12. Frame(s.m, z) /\ z.sel = s.m.sel
      BY <2>5, <3>11 DEF Frame
    <3>13. r \in States /\ r.m = z
      BY <3>4, <3>5, <3>11, SetService
    <3> QED BY <1>1, <3>11, <3>12, <3>13, <3>b DEF Activated
  <2> QED BY <2>6, <2>7, <2>8, <2>9
<1> QED BY <1>2, <1>3

\* The search returns nothing, or a rule that matches, of a listed profile.
LEMMA FirstRuleFacts ==
    ASSUME NEW infos \in Seq(Uuids), NEW net, NEW ok
    PROVE  LET r == FirstRule(infos, net, ok) IN
           \/ /\ r = NULL
              /\ \A k \in DOMAIN infos : \A i \in DOMAIN Data[infos[k]].rules :
                   ~Applies(net, infos[k], i, ok)
           \/ /\ r \in Selections /\ Contains(infos, r.uuid)
              /\ Match(net, r.rule.net)
<1> DEFINE hits(u) == {i \in DOMAIN Data[u].rules : Applies(net, u, i, ok)}
           found == {k \in DOMAIN infos : hits(infos[k]) # {}}
<1>1. CASE found = {}
  BY <1>1 DEF FirstRule
<1>2. CASE found # {}
  <2>1. PICK k : k = Min(found)
    OBVIOUS
  <2>2. k \in 1..Len(infos) /\ hits(infos[k]) # {}
    <3>1. found \subseteq Nat
      OBVIOUS
    <3>2. k \in found
      <4> HIDE DEF found
      <4> QED BY <1>2, <2>1, <3>1, MinFacts
    <3> QED BY <3>2
  <2>3. PICK u \in Uuids : u = infos[k]
    BY <2>2
  <2>4. Data[u].rules \in Seq(Rules)
    BY DataTyped
  <2>5. PICK j : j = Min(hits(u))
    OBVIOUS
  <2>6. j \in 1..Len(Data[u].rules) /\ Applies(net, u, j, ok)
    <3>1. hits(u) \subseteq Nat
      BY <2>4
    <3>2. hits(u) # {}
      BY <2>2, <2>3
    <3>3. j \in hits(u)
      <4> HIDE DEF hits
      <4> QED BY <2>5, <3>1, <3>2, MinFacts
    <3> QED BY <3>3, <2>4
  <2>7. FirstRule(infos, net, ok) = [uuid |-> u, rule |-> Data[u].rules[j]]
    BY <1>2, <2>1, <2>3, <2>5 DEF FirstRule
  <2>8. PICK q \in Rules : q = Data[u].rules[j]
    BY <2>4, <2>6
  <2>9. Match(net, q.net) /\ Contains(infos, u)
    BY <2>2, <2>3, <2>6, <2>8 DEF Applies, Contains
  <2>10. FirstRule(infos, net, ok) = [uuid |-> u, rule |-> q]
    BY <2>7, <2>8
  <2> QED BY <2>9, <2>10 DEF Selections
<1> QED BY <1>1, <1>2

\* A rule without a probe is found whatever the probes say.
LEMMA FirstRuleSure ==
    ASSUME NEW infos \in Seq(Uuids), NEW net, NEW ok,
           FirstRule(infos, net, {}) # NULL
    PROVE  FirstRule(infos, net, ok) # NULL
<1> DEFINE hits(u, o) == {i \in DOMAIN Data[u].rules : Applies(net, u, i, o)}
           found(o) == {k \in DOMAIN infos : hits(infos[k], o) # {}}
<1>1. found({}) # {}
  BY DEF FirstRule
<1>2. PICK k \in DOMAIN infos : hits(infos[k], {}) # {}
  BY <1>1
<1>3. hits(infos[k], ok) # {}
  BY <1>2 DEF Applies
<1>4. found(ok) # {}
  BY <1>2, <1>3
<1>5. FirstRule(infos, net, ok) \in Selections
  BY <1>4, FirstRuleFacts
<1> QED BY <1>5, NullIsNoSelection

\* What a search for a rule makes of the service: it never ends the process,
\* the selection fits the network, and with on-demand enabled and a router
\* the tunnel of a selection that fits is current.
Updated(x, y) ==
    /\ y \in Services /\ Good(y) /\ NothingPending(y)
    /\ Frame(x, y) /\ Fresh(y)
    /\ (/\ x.onDemand /\ x.router /\ y.sel # NULL
        /\ Data[y.sel.uuid].supported /\ Match(y.net, y.sel.rule.net))
         => y.cur # 0 /\ y.tuns[y.cur].uuid = y.sel.uuid

\* onCurrentConfigChanged makes the selected tunnel current where it can run.
LEMMA ChangedFacts ==
    ASSUME NEW s \in States, Good(s.m), NothingPending(s.m),
           NEW uuid \in Uuids, Contains(s.m.infos, uuid)
    PROVE  LET r == onCurrentConfigChanged(s, uuid) IN
           /\ r \in States /\ Good(r.m) /\ NothingPending(r.m)
           /\ Frame(s.m, r.m) /\ r.m.sel = s.m.sel
           /\ s.m.router /\ Data[uuid].supported
                => r.m.cur # 0 /\ r.m.tuns[r.m.cur].uuid = uuid
<1>1. CASE s.m.cur # 0 /\ s.m.tuns[s.m.cur].uuid = uuid
  <2>1. onCurrentConfigChanged(s, uuid) = s
    BY <1>1 DEF onCurrentConfigChanged
  <2> QED BY <1>1, <2>1 DEF Frame
<1>2. CASE ~(s.m.cur # 0 /\ s.m.tuns[s.m.cur].uuid = uuid)
  <2>1. onCurrentConfigChanged(s, uuid) = activateVpnTunnel(s, uuid)
    BY <1>2 DEF onCurrentConfigChanged
  <2>2. uuid \in Uuids \cup {NULL}
    OBVIOUS
  <2>3. PICK r : r = activateVpnTunnel(s, uuid)
    OBVIOUS
  <2>4. r \in States /\ Activated(s.m, uuid, r.m)
    BY <2>2, <2>3, ActivateFacts
  <2> QED BY <2>1, <2>3, <2>4 DEF Activated
<1> QED BY <1>1, <1>2

\* updateCurrentConfiguration does what Updated says.
LEMMA UpdateFacts ==
    ASSUME NEW s \in States, Good(s.m), NothingPending(s.m), NEW ok
    PROVE  LET r == updateCurrentConfiguration(s, ok) IN
           r \in States /\ Updated(s.m, r.m)
<1> DEFINE x == s.m
           keep == x.sel # NULL /\ Match(x.net, x.sel.rule.net)
           sel == IF keep THEN x.sel ELSE FirstRule(x.infos, x.net, ok)
<1> PICK r : r = updateCurrentConfiguration(s, ok)
  OBVIOUS
<1> SUFFICES r \in States /\ Updated(x, r.m)
  OBVIOUS
<1>1. x \in Services /\ x.infos \in Seq(Uuids) /\ x.sel \in Selections \cup {NULL}
  BY DEF States, Services
<1>2. sel = NULL \/ (/\ sel \in Selections /\ Contains(x.infos, sel.uuid)
                     /\ Match(x.net, sel.rule.net))
  <2>1. CASE keep
    <3>1. sel = x.sel
      BY <2>1
    <3> QED BY <1>1, <2>1, <3>1 DEF Good
  <2>2. CASE ~keep
    <3>1. sel = FirstRule(x.infos, x.net, ok)
      BY <2>2
    <3> QED BY <1>1, <3>1, FirstRuleFacts
  <2> QED BY <2>1, <2>2
<1>3. CASE sel = NULL
  <2>1. r = s
    BY <1>3 DEF updateCurrentConfiguration
  <2>2. ~keep /\ FirstRule(x.infos, x.net, ok) = NULL
    BY <1>3
  <2>3. FirstRule(x.infos, x.net, {}) = NULL
    BY <1>1, <2>2, FirstRuleSure
  <2> QED BY <1>1, <2>1, <2>2, <2>3 DEF Updated, Fresh, Frame
<1>4. CASE sel # NULL
  <2>1. PICK q : q = sel
    OBVIOUS
  <2>2. /\ q \in Selections /\ Contains(x.infos, q.uuid) /\ Match(x.net, q.rule.net)
        /\ q # NULL /\ q.uuid \in Uuids
    BY <1>2, <1>4, <2>1 DEF Selections
  <2>3. PICK y : y = [x EXCEPT !.sel = q]
    OBVIOUS
  <2>4. y \in Services /\ y.sel = q
    BY <1>1, <2>2, <2>3 DEF Services
  <2>5. /\ Frame(x, y) /\ y.svc = x.svc /\ y.cur = x.cur /\ y.tuns = x.tuns
        /\ y.router = x.router /\ y.onDemand = x.onDemand /\ y.pending = x.pending
    BY <1>1, <2>3 DEF Services, Frame
  <2>6. Good(y) /\ NothingPending(y) /\ Contains(y.infos, q.uuid)
    BY <2>2, <2>4, <2>5 DEF Good, NothingPending, Frame
  <2>7. PICK t : t = [s EXCEPT !.m = y]
    OBVIOUS
  <2>8. t \in States /\ t.m = y
    BY <2>4, <2>7, SetService
  <2>9. CASE x.onDemand
    <3>1. r = onCurrentConfigChanged(t, q.uuid)
      BY <1>4, <2>1, <2>3, <2>7, <2>9 DEF updateCurrentConfiguration
    <3>2. /\ r \in States /\ Good(r.m) /\ NothingPending(r.m)
          /\ Frame(y, r.m) /\ r.m.sel = q
          /\ y.router /\ Data[q.uuid].supported
               => r.m.cur # 0 /\ r.m.tuns[r.m.cur].uuid = q.uuid
      BY <2>2, <2>4, <2>6, <2>8, <3>1, ChangedFacts
    <3>3. r.m \in Services /\ Frame(x, r.m) /\ Fresh(r.m)
      BY <2>2, <2>5, <3>2 DEF Frame, Fresh, States
    <3> QED BY <2>5, <3>2, <3>3 DEF Updated
  <2>10. CASE ~x.onDemand
    <3>1. r = t
      BY <1>4, <2>1, <2>3, <2>7, <2>10 DEF updateCurrentConfiguration
    <3>2. Fresh(y)
      BY <2>2, <2>4, <2>5 DEF Frame, Fresh
    <3> QED BY <2>4, <2>5, <2>6, <2>8, <2>10, <3>1, <3>2 DEF Updated
  <2> QED BY <2>9, <2>10
<1> QED BY <1>3, <1>4

\* The network of the listener is one of the device's, and is not changed by
\* looking again.
LEMMA SeenFacts ==
    ASSUME NEW old \in Networks, NEW dev \in Devices
    PROVE  Seen(old, dev) \in Networks /\ Seen(Seen(old, dev), dev) = Seen(old, dev)
<1>1. CASE dev = NULL
  BY <1>1 DEF Seen, Networks
<1>2. CASE dev # NULL
  BY <1>2, DevicesTyped DEF Seen
<1> QED BY <1>1, <1>2

\* After a refresh the network is the one of the device, and the selection fits it.
LEMMA UpdateConfigFacts ==
    ASSUME NEW s \in States, Good(s.m), NothingPending(s.m), NEW ok,
           device \in Devices
    PROVE  LET r == updateConfig(s, ok) IN
           /\ r \in States /\ r.m \in Services
           /\ Good(r.m) /\ NothingPending(r.m)
           /\ r.m.alive = s.m.alive /\ r.m.bound = s.m.bound
           /\ r.m.net = Seen(r.m.net, device) /\ Fresh(r.m)
           /\ (/\ s.m.onDemand /\ s.m.router /\ r.m.sel # NULL
               /\ Data[r.m.sel.uuid].supported
               /\ Match(r.m.net, r.m.sel.rule.net))
                => r.m.cur # 0 /\ r.m.tuns[r.m.cur].uuid = r.m.sel.uuid
<1>1. s.m \in Services /\ s.m.net \in Networks
  BY DEF States, Services
<1>2. PICK d : d = Seen(s.m.net, device)
  OBVIOUS
<1>3. d \in Networks /\ Seen(d, device) = d
  BY <1>1, <1>2, SeenFacts
<1>4. PICK y : y = [s.m EXCEPT !.net = d]
  OBVIOUS
<1>5. y \in Services /\ y.net = d
  BY <1>1, <1>3, <1>4 DEF Services
<1>6. /\ y.alive = s.m.alive /\ y.bound = s.m.bound /\ y.infos = s.m.infos
      /\ y.loading = s.m.loading /\ y.sel = s.m.sel
      /\ y.svc = s.m.svc /\ y.cur = s.m.cur /\ y.tuns = s.m.tuns
      /\ y.router = s.m.router /\ y.onDemand = s.m.onDemand
      /\ y.pending = s.m.pending
  BY <1>1, <1>4 DEF Services
<1>7. Good(y) /\ NothingPending(y)
  BY <1>5, <1>6 DEF Good, NothingPending
<1>8. PICK t : t = [s EXCEPT !.m = y]
  OBVIOUS
<1>9. t \in States /\ t.m = y
  BY <1>5, <1>8, SetService
<1>10. updateConfig(s, ok) = updateCurrentConfiguration(t, ok)
  BY <1>2, <1>4, <1>8 DEF updateConfig
<1>11. PICK r : r = updateCurrentConfiguration(t, ok)
  OBVIOUS
<1>12. r \in States /\ Updated(y, r.m)
  BY <1>7, <1>9, <1>11, UpdateFacts
<1> QED BY <1>3, <1>5, <1>6, <1>10, <1>11, <1>12 DEF Updated, Frame

\* A revocation keeps the service good and starts no tunnel.
LEMMA RevokedFacts ==
    ASSUME NEW s \in States, Good(s.m)
    PROVE  LET r == notifyVpnServiceRevoked(s) IN
           /\ r \in States /\ r.prepares = s.prepares
           /\ Good(r.m) /\ NothingPending(r.m)
           /\ Frame(s.m, r.m) /\ r.m.sel = s.m.sel
           /\ Len(r.m.tuns) = Len(s.m.tuns)
<1>1. PICK e : e = EndCurrent(s)
  OBVIOUS
<1>2. /\ e \in States /\ e.m \in Services /\ e.prepares = s.prepares
      /\ Len(e.m.tuns) = Len(s.m.tuns)
      /\ \A i \in 1..Len(s.m.tuns) : e.m.tuns[i].ended
      /\ e.m = [s.m EXCEPT !.tuns = e.m.tuns]
  BY <1>1, EndCurrentFacts
<1>3. PICK z : z = [e.m EXCEPT !.svc = "REVOKED", !.cur = 0, !.router = FALSE,
                               !.onDemand = FALSE]
  OBVIOUS
<1>4. notifyVpnServiceRevoked(s) = [e EXCEPT !.m = z]
  BY <1>1, <1>3 DEF notifyVpnServiceRevoked
<1>5. z \in Services
  BY <1>2, <1>3 DEF Services
<1>6. /\ z.svc = "REVOKED" /\ z.cur = 0 /\ z.router = FALSE
      /\ z.tuns = e.m.tuns /\ Frame(e.m, z) /\ z.sel = e.m.sel
  BY <1>2, <1>3 DEF Services, Frame
<1>7. s.m \in Services
  BY DEF States
<1>8. Frame(s.m, e.m) /\ e.m.sel = s.m.sel
  <2> PICK T : T = e.m.tuns
    OBVIOUS
  <2> QED BY <1>2, <1>7 DEF Frame, Services
<1>9. Frame(s.m, z) /\ z.sel = s.m.sel
  BY <1>6, <1>8 DEF Frame
<1>10. Len(z.tuns) \in Nat
  BY <1>5 DEF Services
<1>11. Good(z) /\ NothingPending(z)
  BY <1>2, <1>5, <1>6, <1>9, <1>10 DEF Good, NothingPending, Frame
<1>12. PICK r : r = [e EXCEPT !.m = z]
  OBVIOUS
<1>13. r \in States /\ r.m = z /\ r.prepares = e.prepares
  BY <1>2, <1>5, <1>12, SetService
<1> QED BY <1>2, <1>4, <1>6, <1>9, <1>11, <1>12, <1>13

\* A new service, in the device's network.
LEMMA CreatedFacts ==
    ASSUME NEW last \in Uuids \cup {NULL}, NEW dev \in Devices
    PROVE  LET x == Created(last, dev) IN
           /\ x \in Services /\ Good(x) /\ NothingPending(x)
           /\ x.alive /\ x.bound = "never" /\ x.infos = <<>> /\ x.tuns = <<>>
<1> PICK x : x = Created(last, dev)
  OBVIOUS
<1>1. Seen(Unknown, dev) \in Networks
  BY SeenFacts DEF Unknown, Networks, Interfaces
<1>2. x \in Services
  BY <1>1 DEF Created, Services
<1>3. /\ x.tuns = <<>> /\ x.cur = 0 /\ x.router = FALSE /\ x.sel = NULL
      /\ x.infos = <<>> /\ x.svc = "REVOKED" /\ x.bound = "never" /\ x.alive
  BY DEF Created
<1>4. Len(x.tuns) = 0
  BY <1>3
<1> QED BY <1>2, <1>3, <1>4 DEF Good, NothingPending

\* The start of the VPN service, with or without a pending request.
LEMMA StartedFacts ==
    ASSUME NEW s \in States, Good(s.m), NothingPending(s.m), NEW ok
    PROVE  LET r == notifyVpnServiceStarted(s, ok) IN
           /\ r \in States /\ Good(r.m) /\ NothingPending(r.m)
           /\ r.m = Gone \/ (Frame(s.m, r.m) /\ (r.m.sel = s.m.sel \/ Fresh(r.m)))
<1> PICK r : r = notifyVpnServiceStarted(s, ok)
  OBVIOUS
<1> SUFFICES /\ r \in States /\ Good(r.m) /\ NothingPending(r.m)
             /\ r.m = Gone \/ (Frame(s.m, r.m) /\ (r.m.sel = s.m.sel \/ Fresh(r.m)))
  OBVIOUS
<1>1. PICK u : u = EndUsernat(s)
  OBVIOUS
<1>2. u \in States /\ Alike(s.m, u.m) /\ Good(u.m) /\ u.m.pending = s.m.pending
  BY <1>1, EndUsernatFacts
<1>3. PICK e : e = EndCurrent(u)
  OBVIOUS
<1>4. /\ e \in States /\ e.m \in Services
      /\ Len(e.m.tuns) = Len(u.m.tuns)
      /\ \A i \in 1..Len(u.m.tuns) : e.m.tuns[i].ended
      /\ e.m = [u.m EXCEPT !.tuns = e.m.tuns]
  BY <1>2, <1>3, EndCurrentFacts
<1>5. u.m \in Services
  BY <1>2 DEF States
<1>6. /\ Frame(u.m, e.m) /\ e.m.sel = u.m.sel /\ e.m.cur = u.m.cur
      /\ e.m.pending = u.m.pending
  <2> PICK T : T = e.m.tuns
    OBVIOUS
  <2> QED BY <1>4, <1>5 DEF Frame, Services
<1>7. PICK z : z = [e.m EXCEPT !.svc = "STARTED", !.router = TRUE]
  OBVIOUS
<1>8. z \in Services
  BY <1>4, <1>7 DEF Services
<1>9. /\ z.svc = "STARTED" /\ z.router = TRUE /\ Frame(e.m, z) /\ z.sel = e.m.sel
      /\ z.cur = e.m.cur /\ z.tuns = e.m.tuns /\ z.pending = e.m.pending
  BY <1>4, <1>7 DEF Services, Frame
<1>10. Frame(s.m, z) /\ z.sel = s.m.sel /\ z.pending = s.m.pending
  BY <1>2, <1>6, <1>9 DEF Frame, Alike
<1>11. Good(z)
  BY <1>2, <1>4, <1>6, <1>8, <1>9 DEF Good, Frame
<1>12. PICK n : n = [e EXCEPT !.m = z]
  OBVIOUS
<1>13. n \in States /\ n.m = z
  BY <1>4, <1>8, <1>12, SetService
<1>14. CASE ~s.m.ocpa
  <2>1. r = [s EXCEPT !.m = Gone]
    BY <1>14 DEF notifyVpnServiceStarted
  <2> QED BY <2>1, GoneGood, SetService
<1>15. CASE s.m.ocpa /\ s.m.pending # NULL
  <2>1. r = activateVpnTunnel(n, s.m.pending)
    BY <1>1, <1>3, <1>7, <1>12, <1>15 DEF notifyVpnServiceStarted
  <2>2. s.m.pending \in Uuids \cup {NULL}
    BY DEF States, Services
  <2>3. r \in States /\ Activated(z, s.m.pending, r.m)
    BY <1>11, <1>13, <2>1, <2>2, ActivateFacts
  <2> QED BY <1>10, <2>3 DEF Activated, Frame
<1>16. CASE s.m.ocpa /\ s.m.pending = NULL
  <2>1. PICK o : o = [z EXCEPT !.onDemand = TRUE]
    OBVIOUS
  <2>2. o \in Services
    BY <1>8, <2>1 DEF Services
  <2>3. /\ Frame(z, o) /\ o.svc = z.svc /\ o.cur = z.cur /\ o.tuns = z.tuns
        /\ o.router = z.router /\ o.sel = z.sel /\ o.pending = z.pending
    BY <1>8, <2>1 DEF Services, Frame
  <2>4. Good(o) /\ NothingPending(o)
    BY <1>10, <1>11, <1>16, <2>2, <2>3 DEF Good, NothingPending, Frame
  <2>5. PICK t : t = [n EXCEPT !.m = o]
    OBVIOUS
  <2>6. t \in States /\ t.m = o
    BY <1>13, <2>2, <2>5, SetService
  <2>7. r = updateCurrentConfiguration(t, ok)
    <3>1. r = updateCurrentConfiguration([n EXCEPT !.m.onDemand = TRUE], ok)
      BY <1>1, <1>3, <1>7, <1>12, <1>16 DEF notifyVpnServiceStarted
    <3> QED BY <1>13, <2>1, <2>5, <3>1
  <2>8. r \in States /\ Updated(o, r.m)
    BY <2>4, <2>6, <2>7, UpdateFacts
  <2> QED BY <1>10, <2>3, <2>8 DEF Updated, Frame
<1> QED BY <1>14, <1>15, <1>16

-----------------------------------------------------------------------------
(* Initial states and steps. *)

\* Nothing runs before the first binding.
LEMMA InitInv == Init => IInv
<1> SUFFICES ASSUME Init PROVE IInv
  OBVIOUS
<1>1. Good(m) /\ NothingPending(m) /\ m = Gone
  BY GoneGood DEF Init
<1>2. Len(m.tuns) <= MaxTuns
  BY <1>1, GoneGood, BoundsAreNumbers
<1>3. intents \in Seq({"STARTED", "REVOKED"}) /\ Len(intents) <= MaxIntents
  BY BoundsAreNumbers DEF Init
<1>4. prepares \in 0..MaxPrepares
  BY BoundsAreNumbers DEF Init
<1> QED BY <1>1, <1>2, <1>3, <1>4 DEF Init, IInv

\* The present state as an argument of the handlers.
LEMMA HereTyped ==
    ASSUME IInv
    PROVE  Here \in States /\ Here.m = m /\ Here.saved = saved /\ Here.prepares = prepares
BY DEF IInv, Here, States, Good

\* The outcome of a handler is a state of the invariant.
LEMMA Applied ==
    ASSUME IInv, NEW s \in States, Apply(s), Good(s.m), NothingPending(s.m),
           s.m = Gone \/ (s.m.alive /\ Informed(s.m, device, broadcast')),
           device' = device, granted' = granted, broadcast' \in BOOLEAN,
           intents' \in Seq({"STARTED", "REVOKED"}), Len(intents') <= MaxIntents
    PROVE  IInv'
<1>1. m' = s.m /\ saved' = s.saved /\ Len(s.m.tuns) <= MaxTuns
  BY DEF Apply
<1>2. prepares' \in 0..MaxPrepares
  BY BoundsAreNumbers DEF Apply, States
<1>3. Good(m') /\ NothingPending(m') /\ Len(m'.tuns) <= MaxTuns
  BY <1>1
<1>4. m' = Gone \/ (m'.alive /\ Informed(m', device', broadcast'))
  BY <1>1
<1>5. saved' \in Uuids \cup {NULL} /\ granted' \in BOOLEAN /\ device' \in Devices
  BY <1>1 DEF States, IInv
<1> QED BY <1>2, <1>3, <1>4, <1>5 DEF IInv

\* The same, when the listener is told nothing new.
LEMMA Quiet ==
    ASSUME IInv, NEW s \in States, Apply(s), Good(s.m), NothingPending(s.m),
           m.alive,
           s.m = Gone \/ (Frame(m, s.m) /\ (s.m.sel = m.sel \/ Fresh(s.m))),
           UNCHANGED <<granted, device, broadcast>>,
           intents' \in Seq({"STARTED", "REVOKED"}), Len(intents') <= MaxIntents
    PROVE  IInv'
<1>1. ~Gone.alive
  BY GoneGood
<1>2. Informed(m, device, broadcast) /\ broadcast \in BOOLEAN
  BY <1>1 DEF IInv
<1>3. s.m = Gone \/ (s.m.alive /\ Informed(s.m, device, broadcast'))
  BY <1>2 DEF Informed, Frame, Fresh
<1> QED BY <1>2, <1>3, Applied

\* The state a handler of a service that may have to be created starts from.
LEMMA CreateFacts ==
    ASSUME IInv
    PROVE  LET c == IF m.alive THEN Here
                    ELSE [Here EXCEPT !.m = Created(saved, device)]
           IN  /\ c \in States /\ c.m \in Services
               /\ Good(c.m) /\ NothingPending(c.m) /\ c.m.alive
               /\ m.alive => c.m = m
               /\ ~m.alive => c.m.bound = "never"
<1>1. CASE m.alive
  BY <1>1, HereTyped DEF IInv, Good
<1>2. CASE ~m.alive
  <2>1. saved \in Uuids \cup {NULL} /\ device \in Devices
    BY DEF IInv
  <2>2. PICK x : x = Created(saved, device)
    OBVIOUS
  <2>3. x \in Services /\ Good(x) /\ NothingPending(x) /\ x.alive /\ x.bound = "never"
    BY <2>1, <2>2, CreatedFacts
  <2> QED BY <1>2, <2>2, <2>3, HereTyped, SetService
<1> QED BY <1>1, <1>2

\* Binding keeps the invariant.
LEMMA OpenUiInv == IInv /\ OpenUi => IInv'
<1> SUFFICES ASSUME IInv, OpenUi PROVE IInv'
  OBVIOUS
<1>1. PICK s : s = IF m.alive THEN Here
                   ELSE [Here EXCEPT !.m = Created(saved, device)]
  OBVIOUS
<1>2. /\ s \in States /\ s.m \in Services /\ Good(s.m) /\ NothingPending(s.m)
      /\ s.m.alive /\ (m.alive => s.m = m) /\ (~m.alive => s.m.bound = "never")
  BY <1>1, CreateFacts
<1>3. /\ m.bound # "bound" /\ UNCHANGED <<granted, intents, device, broadcast>>
      /\ device \in Devices /\ broadcast \in BOOLEAN
      /\ intents \in Seq({"STARTED", "REVOKED"}) /\ Len(intents) <= MaxIntents
  BY DEF OpenUi, IInv
<1>4. PICK ok \in SUBSET Probed :
        Apply(IF s.m.bound = "never"
              THEN updateConfig([s EXCEPT !.m.bound = "bound"], ok)
              ELSE s)
  BY <1>1 DEF OpenUi
<1>5. CASE s.m.bound = "never"
  <2>1. PICK y : y = [s.m EXCEPT !.bound = "bound"]
    OBVIOUS
  <2>2. y \in Services /\ y.bound = "bound"
    BY <1>2, <2>1 DEF Services
  <2>3. /\ y.alive = s.m.alive /\ y.infos = s.m.infos /\ y.net = s.m.net
        /\ y.loading = s.m.loading /\ y.sel = s.m.sel
        /\ y.svc = s.m.svc /\ y.cur = s.m.cur /\ y.tuns = s.m.tuns
        /\ y.router = s.m.router /\ y.pending = s.m.pending
    BY <1>2, <2>1 DEF Services
  <2>4. Good(y) /\ NothingPending(y)
    BY <1>2, <2>2, <2>3 DEF Good, NothingPending
  <2>5. PICK t : t = [s EXCEPT !.m = y]
    OBVIOUS
  <2>6. t \in States /\ t.m = y
    BY <1>2, <2>2, <2>5, SetService
  <2>7. PICK r : r = updateConfig(t, ok)
    OBVIOUS
  <2>8. Apply(r)
    BY <1>4, <1>5, <2>1, <2>5, <2>7
  <2>9. /\ r \in States /\ Good(r.m) /\ NothingPending(r.m) /\ r.m.alive
        /\ r.m.net = Seen(r.m.net, device) /\ Fresh(r.m)
    BY <1>2, <1>3, <2>3, <2>4, <2>6, <2>7, UpdateConfigFacts
  <2>10. Informed(r.m, device, broadcast')
    BY <2>9 DEF Informed
  <2> QED BY <1>3, <2>8, <2>9, <2>10, Applied
<1>6. CASE s.m.bound # "never"
  <2>1. Apply(s) /\ s.m = m
    BY <1>2, <1>4, <1>6
  <2>2. Informed(s.m, device, broadcast')
    BY <1>3, <2>1 DEF Informed
  <2> QED BY <1>2, <1>3, <2>1, <2>2, Applied
<1> QED BY <1>5, <1>6

\* Unbinding keeps the invariant.
LEMMA CloseUiInv == IInv /\ CloseUi => IInv'
<1> SUFFICES ASSUME IInv, CloseUi PROVE IInv'
  OBVIOUS
<1>1. /\ broadcast' = FALSE /\ m.alive
      /\ UNCHANGED <<saved, prepares, granted, intents, device>>
  BY DEF CloseUi
<1>2. CASE m.started
  <2>1. m' = [m EXCEPT !.bound = "unbound"]
    BY <1>2 DEF CloseUi
  <2>2. m \in Services
    BY DEF IInv, Good
  <2>3. m' \in Services /\ m'.bound = "unbound"
    BY <2>1, <2>2 DEF Services
  <2>4. /\ m'.alive = m.alive /\ m'.infos = m.infos /\ m'.net = m.net
        /\ m'.loading = m.loading /\ m'.sel = m.sel
        /\ m'.svc = m.svc /\ m'.cur = m.cur /\ m'.tuns = m.tuns
        /\ m'.router = m.router /\ m'.pending = m.pending
    BY <2>1, <2>2 DEF Services
  <2>5. Good(m') /\ NothingPending(m') /\ Len(m'.tuns) <= MaxTuns
    BY <2>3, <2>4 DEF IInv, Good, NothingPending
  <2>6. Informed(m', device', broadcast') /\ m'.alive
    BY <1>1, <2>3, <2>4 DEF Informed
  <2> QED BY <1>1, <2>5, <2>6 DEF IInv
<1>3. CASE ~m.started
  <2>1. m' = Gone
    BY <1>3 DEF CloseUi
  <2>2. Good(m') /\ NothingPending(m') /\ Len(m'.tuns) <= MaxTuns
    BY <2>1, GoneGood, BoundsAreNumbers
  <2> QED BY <1>1, <2>1, <2>2 DEF IInv
<1> QED BY <1>2, <1>3

\* The process ends, or was ended: nothing is left of the service.
LEMMA KillInv == IInv /\ Kill => IInv'
<1> SUFFICES ASSUME IInv, Kill PROVE IInv'
  OBVIOUS
<1>1. m' = Gone /\ prepares' = 0 /\ broadcast' = FALSE
  BY DEF Kill
<1>2. Good(m') /\ NothingPending(m') /\ Len(m'.tuns) <= MaxTuns
  BY <1>1, GoneGood, BoundsAreNumbers
<1>3. prepares' \in 0..MaxPrepares
  BY <1>1, BoundsAreNumbers
<1> QED BY <1>1, <1>2, <1>3 DEF Kill, IInv

\* The user's choice of a tunnel keeps the invariant.
LEMMA ActivateUserInv ==
    ASSUME IInv, NEW u \in Uuids \cup {NULL}, ActivateUser(u)
    PROVE  IInv'
<1>1. PICK r : r = activateVpnTunnel(Here, u)
  OBVIOUS
<1>2. Apply(r) /\ m.alive /\ UNCHANGED <<granted, intents, device, broadcast>>
  BY <1>1 DEF ActivateUser, Bound
<1>3. Here \in States /\ Here.m = m /\ Good(m)
  BY HereTyped DEF IInv
<1>4. r \in States /\ Activated(m, u, r.m)
  BY <1>1, <1>3, ActivateFacts
<1>5. intents' \in Seq({"STARTED", "REVOKED"}) /\ Len(intents') <= MaxIntents
  BY <1>2 DEF IInv
<1>6. /\ Good(r.m) /\ NothingPending(r.m)
      /\ r.m = Gone \/ (Frame(m, r.m) /\ r.m.sel = m.sel)
  BY <1>4 DEF Activated
<1> QED BY <1>2, <1>4, <1>5, <1>6, Quiet

\* The user's start keeps the invariant.
LEMMA StartUserInv == IInv /\ StartUser => IInv'
<1> SUFFICES ASSUME IInv, StartUser PROVE IInv'
  OBVIOUS
<1>1. PICK r : r = startVpnService(Here)
  OBVIOUS
<1>2. Apply(r) /\ m.alive /\ UNCHANGED <<granted, intents, device, broadcast>>
  BY <1>1 DEF StartUser, Bound
<1>3. r \in States /\ r.m = m
  BY <1>1, HereTyped, StartFacts
<1>4. intents' \in Seq({"STARTED", "REVOKED"}) /\ Len(intents') <= MaxIntents
  BY <1>2 DEF IInv
<1> QED BY <1>2, <1>3, <1>4, Quiet DEF Frame, IInv

\* Forgetting the current tunnel once it was told to end, with or without
\* the router.
LEMMA ForgetFacts ==
    ASSUME NEW u \in States, Good(u.m), NothingPending(u.m),
           NEW rt \in {u.m.router, FALSE},
           NEW z, z = [EndCurrent(u).m EXCEPT !.cur = 0, !.router = rt]
    PROVE  /\ z \in Services /\ Good(z) /\ NothingPending(z)
           /\ Frame(u.m, z) /\ z.sel = u.m.sel
<1>1. PICK e : e = EndCurrent(u)
  OBVIOUS
<1>2. /\ e.m \in Services
      /\ Len(e.m.tuns) = Len(u.m.tuns)
      /\ \A i \in 1..Len(u.m.tuns) : e.m.tuns[i].ended
      /\ e.m = [u.m EXCEPT !.tuns = e.m.tuns]
  BY <1>1, EndCurrentFacts
<1>3. u.m \in Services /\ rt \in BOOLEAN
  BY DEF States, Services
<1>4. /\ Frame(u.m, e.m) /\ e.m.sel = u.m.sel
      /\ e.m.pending = u.m.pending /\ e.m.svc = u.m.svc
  <2> PICK T : T = e.m.tuns
    OBVIOUS
  <2> QED BY <1>2, <1>3 DEF Frame, Services
<1>5. z = [e.m EXCEPT !.cur = 0, !.router = rt]
  BY <1>1
<1>6. z \in Services
  <2>1. PICK w : w = [e.m EXCEPT !.cur = 0]
    OBVIOUS
  <2>2. w \in Services
    BY <1>2, <2>1 DEF Services
  <2>3. z = [w EXCEPT !.router = rt]
    BY <1>2, <1>5, <2>1 DEF Services
  <2>4. PICK b \in BOOLEAN : b = rt
    BY <1>3
  <2> QED BY <2>2, <2>3, <2>4 DEF Services
<1>7. /\ z.cur = 0 /\ z.router = rt /\ z.tuns = e.m.tuns /\ z.svc = e.m.svc
      /\ Frame(e.m, z) /\ z.sel = e.m.sel /\ z.pending = e.m.pending
  BY <1>2, <1>3, <1>5 DEF Services, Frame
<1>8. Len(z.tuns) \in Nat
  BY <1>6 DEF Services
<1>9. Frame(u.m, z) /\ z.sel = u.m.sel
  BY <1>4, <1>7 DEF Frame
<1>10. Good(z) /\ NothingPending(z)
  <2>1. z.router => u.m.router
    BY <1>3, <1>7
  <2> QED BY <1>2, <1>4, <1>6, <1>7, <1>8, <1>9, <2>1 DEF Good, NothingPending, Frame
<1> QED BY <1>6, <1>9, <1>10

\* The user's deactivation keeps the invariant.
LEMMA DeactivateUserInv == IInv /\ DeactivateUser => IInv'
<1> SUFFICES ASSUME IInv, DeactivateUser PROVE IInv'
  OBVIOUS
<1>1. PICK e : e = EndCurrent(Here)
  OBVIOUS
<1>2. PICK z : z = [e.m EXCEPT !.cur = 0]
  OBVIOUS
<1>3. PICK r : r = [e EXCEPT !.m = z]
  OBVIOUS
<1>4. Apply(r) /\ m.alive /\ UNCHANGED <<granted, intents, device, broadcast>>
  BY <1>1, <1>2, <1>3 DEF DeactivateUser, Bound
<1>5. Here \in States /\ Here.m = m /\ Good(m) /\ NothingPending(m) /\ m \in Services
  BY HereTyped DEF IInv, Good
<1>6. e \in States /\ e.m \in Services /\ e.m = [m EXCEPT !.tuns = e.m.tuns]
  BY <1>1, <1>5, EndCurrentFacts
<1>7. e.m.router = m.router
  <2> PICK T : T = e.m.tuns
    OBVIOUS
  <2> QED BY <1>5, <1>6 DEF Services
<1>8. z = [e.m EXCEPT !.cur = 0, !.router = m.router]
  BY <1>2, <1>6, <1>7 DEF Services
<1>9. /\ z \in Services /\ Good(z) /\ NothingPending(z)
      /\ Frame(m, z) /\ z.sel = m.sel
  BY <1>1, <1>5, <1>8, ForgetFacts
<1>10. r \in States /\ r.m = z
  BY <1>3, <1>6, <1>9, SetService
<1>11. intents' \in Seq({"STARTED", "REVOKED"}) /\ Len(intents') <= MaxIntents
  BY <1>4 DEF IInv
<1> QED BY <1>4, <1>9, <1>10, <1>11, Quiet

\* The user's stop keeps the invariant.
LEMMA StopUserInv == IInv /\ StopUser => IInv'
<1> SUFFICES ASSUME IInv, StopUser PROVE IInv'
  OBVIOUS
<1>1. PICK u : u = EndUsernat(Here)
  OBVIOUS
<1>2. PICK e : e = EndCurrent(u)
  OBVIOUS
<1>3. PICK z : z = [e.m EXCEPT !.cur = 0, !.router = FALSE]
  OBVIOUS
<1>4. PICK r : r = [e EXCEPT !.m = z]
  OBVIOUS
<1>5. Apply(r) /\ m.alive /\ UNCHANGED <<granted, intents, device, broadcast>>
  BY <1>1, <1>2, <1>3, <1>4 DEF StopUser, Bound
<1>6. Here \in States /\ Here.m = m /\ Good(m) /\ NothingPending(m) /\ m \in Services
  BY HereTyped DEF IInv, Good
<1>7. u \in States /\ Alike(m, u.m) /\ Good(u.m) /\ u.m.pending = m.pending
  BY <1>1, <1>6, EndUsernatFacts
<1>8. NothingPending(u.m) /\ Frame(m, u.m) /\ u.m.sel = m.sel
  BY <1>6, <1>7 DEF Alike, NothingPending
<1>9. e \in States
  BY <1>2, <1>7, EndCurrentFacts
<1>10. /\ z \in Services /\ Good(z) /\ NothingPending(z)
       /\ Frame(u.m, z) /\ z.sel = u.m.sel
  BY <1>2, <1>3, <1>7, <1>8, ForgetFacts
<1>11. r \in States /\ r.m = z /\ Frame(m, z) /\ z.sel = m.sel
  BY <1>4, <1>8, <1>9, <1>10, SetService DEF Frame
<1>12. intents' \in Seq({"STARTED", "REVOKED"}) /\ Len(intents') <= MaxIntents
  BY <1>5 DEF IInv
<1> QED BY <1>5, <1>10, <1>11, <1>12, Quiet

\* Sending an intent appends to a sequence of intents.
LEMMA SendTyped ==
    ASSUME IInv, NEW i \in {"STARTED", "REVOKED"}, Send(i)
    PROVE  intents' \in Seq({"STARTED", "REVOKED"}) /\ Len(intents') <= MaxIntents
<1> DEFINE I == {"STARTED", "REVOKED"}
<1>1. intents \in Seq(I) /\ Len(intents) < MaxIntents /\ intents' = Append(intents, i)
  BY DEF Send, IInv
<1>2. i \in I
  OBVIOUS
<1> HIDE DEF I
<1>3. intents' \in Seq(I) /\ Len(intents') = Len(intents) + 1 /\ Len(intents) \in Nat
  BY <1>1, <1>2
<1>4. Len(intents') <= MaxIntents
  BY <1>1, <1>3, BoundsAreNumbers
<1> QED BY <1>3, <1>4 DEF I

\* An answer that does not reach the service.
LEMMA PrepareInv == IInv /\ (PrepareOk \/ PrepareImpossible) => IInv'
<1> SUFFICES ASSUME IInv, PrepareOk \/ PrepareImpossible PROVE IInv'
  OBVIOUS
<1>1. /\ UNCHANGED <<m, saved, device, broadcast>>
      /\ granted' \in BOOLEAN
  BY DEF PrepareOk, PrepareImpossible, IInv
<1>2. prepares' \in 0..MaxPrepares
  BY BoundsAreNumbers DEF PrepareOk, PrepareImpossible, IInv
<1>3. intents' \in Seq({"STARTED", "REVOKED"}) /\ Len(intents') <= MaxIntents
  <2>1. CASE PrepareOk
    BY <2>1, SendTyped DEF PrepareOk
  <2>2. CASE PrepareImpossible
    BY <2>2 DEF PrepareImpossible, IInv
  <2> QED BY <2>1, <2>2
<1> QED BY <1>1, <1>2, <1>3 DEF IInv

\* A revocation keeps the invariant.
LEMMA RevokeInv == IInv /\ Revoke => IInv'
<1> SUFFICES ASSUME IInv, Revoke PROVE IInv'
  OBVIOUS
<1>1. intents' \in Seq({"STARTED", "REVOKED"}) /\ Len(intents') <= MaxIntents
  BY SendTyped DEF Revoke
<1> QED BY <1>1 DEF Revoke, IInv

\* A refused request for the VPN keeps the invariant.
LEMMA PrepareCancelledInv == IInv /\ PrepareCancelled => IInv'
<1> SUFFICES ASSUME IInv, PrepareCancelled PROVE IInv'
  OBVIOUS
<1>1. UNCHANGED <<saved, granted, intents, device, broadcast>>
  BY DEF PrepareCancelled
<1>2. prepares' \in 0..MaxPrepares
  BY BoundsAreNumbers DEF PrepareCancelled, IInv
<1>3. CASE m.alive
  <2>1. PICK r : r = notifyVpnServiceRevoked(Here)
    OBVIOUS
  <2>2. m' = r.m
    BY <1>3, <2>1 DEF PrepareCancelled
  <2>3. Here \in States /\ Here.m = m /\ Good(m)
    BY HereTyped DEF IInv
  <2>4. /\ Good(m') /\ NothingPending(m') /\ Frame(m, m') /\ m'.sel = m.sel
        /\ Len(m'.tuns) = Len(m.tuns)
    BY <2>1, <2>2, <2>3, RevokedFacts
  <2>5. Informed(m, device, broadcast)
    BY <1>3, GoneGood DEF IInv
  <2>6. m'.alive /\ Informed(m', device', broadcast')
    BY <1>1, <1>3, <2>4, <2>5 DEF Informed, Frame, Fresh
  <2>7. Len(m'.tuns) <= MaxTuns
    BY <2>4 DEF IInv
  <2> QED BY <1>1, <1>2, <2>4, <2>6, <2>7 DEF IInv
<1>4. CASE ~m.alive
  <2>1. m' = m
    BY <1>4 DEF PrepareCancelled
  <2> QED BY <1>1, <1>2, <2>1 DEF IInv
<1> QED BY <1>3, <1>4

\* A step that changes what the invariant does not speak of.
LEMMA AlikeInv ==
    ASSUME IInv, Alike(m, m'), m.pending = m'.pending, m.alive,
           UNCHANGED <<saved, prepares, granted, intents, device, broadcast>>
    PROVE  IInv'
<1>1. Informed(m, device, broadcast)
  BY GoneGood DEF IInv
<1>2. m'.alive /\ Informed(m', device', broadcast')
  BY <1>1 DEF Informed, Alike, Frame, Fresh
<1>3. Good(m') /\ NothingPending(m') /\ Len(m'.tuns) <= MaxTuns
  BY AlikeGood DEF IInv, NothingPending, Alike
<1> QED BY <1>2, <1>3 DEF IInv

\* The connection to the VPN service keeps the invariant.
LEMMA OcpaConnectedInv == IInv /\ OcpaConnected => IInv'
<1> SUFFICES ASSUME IInv, OcpaConnected PROVE IInv'
  OBVIOUS
<1>1. /\ m' = [m EXCEPT !.ocpa = TRUE] /\ m.alive
      /\ UNCHANGED <<saved, prepares, granted, intents, device, broadcast>>
  BY DEF OcpaConnected
<1>2. m \in Services
  BY DEF IInv, Good
<1>3. Alike(m, m') /\ m.pending = m'.pending
  BY <1>1, <1>2 DEF Alike, Frame, Services
<1> QED BY <1>1, <1>3, AlikeInv

\* The delivery of an intent keeps the invariant.
LEMMA DeliverIntentInv == IInv /\ DeliverIntent => IInv'
<1> SUFFICES ASSUME IInv, DeliverIntent PROVE IInv'
  OBVIOUS
<1>1. PICK c : c = IF m.alive THEN Here
                   ELSE [Here EXCEPT !.m = Created(saved, device)]
  OBVIOUS
<1>2. /\ c \in States /\ c.m \in Services /\ Good(c.m) /\ NothingPending(c.m)
      /\ c.m.alive /\ (m.alive => c.m = m) /\ (~m.alive => c.m.bound = "never")
  BY <1>1, CreateFacts
<1>3. PICK y : y = [c.m EXCEPT !.started = TRUE]
  OBVIOUS
<1>4. PICK s : s = [c EXCEPT !.m = y]
  OBVIOUS
<1>5. Alike(c.m, y) /\ y \in Services /\ y.pending = c.m.pending
  BY <1>2, <1>3 DEF Alike, Frame, Services
<1>6. Good(y) /\ NothingPending(y)
  BY <1>2, <1>5, AlikeGood DEF Alike, NothingPending
<1>7. s \in States /\ s.m = y
  BY <1>2, <1>4, <1>5, SetService
<1>8. UNCHANGED <<granted, device, broadcast>>
  BY DEF DeliverIntent
<1>9. intents' \in Seq({"STARTED", "REVOKED"}) /\ Len(intents') <= MaxIntents
  <2> DEFINE I == {"STARTED", "REVOKED"}
  <2>1. /\ intents \in Seq(I) /\ Len(intents) <= MaxIntents
        /\ intents' = Tail(intents) /\ intents # <<>>
    BY DEF DeliverIntent, IInv
  <2> HIDE DEF I
  <2>2. intents' \in Seq(I) /\ Len(intents') = Len(intents) - 1 /\ Len(intents) \in Nat
    BY <2>1
  <2>3. Len(intents') <= MaxIntents
    BY <2>1, <2>2, BoundsAreNumbers
  <2> QED BY <2>2, <2>3 DEF I
<1>10. PICK r : /\ r \in States /\ Apply(r) /\ Good(r.m) /\ NothingPending(r.m)
                /\ r.m = Gone \/ (Frame(y, r.m) /\ (r.m.sel = y.sel \/ Fresh(r.m)))
  <2>1. \/ Apply(notifyVpnServiceRevoked(s))
        \/ \E ok \in SUBSET Probed : Apply(notifyVpnServiceStarted(s, ok))
    BY <1>1, <1>3, <1>4 DEF DeliverIntent
  <2>2. CASE Apply(notifyVpnServiceRevoked(s))
    BY <2>2, <1>6, <1>7, RevokedFacts
  <2>3. CASE \E ok \in SUBSET Probed : Apply(notifyVpnServiceStarted(s, ok))
    BY <2>3, <1>6, <1>7, StartedFacts
  <2> QED BY <2>1, <2>2, <2>3
<1>11. broadcast \in BOOLEAN /\ (m.alive => Informed(m, device, broadcast))
  BY GoneGood DEF IInv
<1>12. r.m = Gone \/ (r.m.alive /\ Informed(r.m, device, broadcast'))
  <2>1. CASE m.alive
    BY <1>2, <1>5, <1>8, <1>10, <1>11, <2>1 DEF Informed, Frame, Alike, Fresh
  <2>2. CASE ~m.alive
    BY <1>2, <1>5, <1>10, <2>2 DEF Informed, Frame, Alike
  <2> QED BY <2>1, <2>2
<1> QED BY <1>8, <1>9, <1>10, <1>11, <1>12, Applied

\* Reversing the profiles gives a sequence of them.
LEMMA ReverseTyped ==
    ASSUME NEW list \in Lists
    PROVE  Reverse(list) \in Seq(Uuids)
BY ListsTyped DEF Reverse

\* The arrival of the profiles: nothing was selected before.
LEMMA LoadFacts ==
    ASSUME IInv, NEW list \in Lists, Load(list)
    PROVE  \E r \in States :
             /\ Apply(r) /\ Good(r.m) /\ NothingPending(r.m)
             /\ r.m.alive /\ Fresh(r.m) /\ r.m.bound = m.bound /\ r.m.net = m.net
<1>1. m \in Services /\ Good(m) /\ NothingPending(m) /\ m.alive /\ m.loading
  BY DEF IInv, Good, Load
<1>2. PICK y : y = [m EXCEPT !.loading = FALSE, !.infos = Reverse(list)]
  OBVIOUS
<1>3. PICK t : t = [Here EXCEPT !.m = y]
  OBVIOUS
<1>4. PICK ok \in SUBSET Probed : Apply(updateCurrentConfiguration(t, ok))
  BY <1>2, <1>3 DEF Load
<1>5. y \in Services
  BY <1>1, <1>2, ReverseTyped DEF Services
<1>6. /\ y.loading = FALSE /\ y.infos = Reverse(list) /\ y.alive = m.alive
      /\ y.net = m.net /\ y.bound = m.bound /\ y.sel = m.sel
      /\ y.svc = m.svc /\ y.cur = m.cur /\ y.tuns = m.tuns
      /\ y.router = m.router /\ y.pending = m.pending
  BY <1>1, <1>2 DEF Services
<1>7. y.sel = NULL
  <2>1. m.infos = <<>> /\ m.sel = NULL
    BY <1>1 DEF Good, Contains
  <2> QED BY <1>6, <2>1
<1>8. Good(y) /\ NothingPending(y)
  BY <1>1, <1>5, <1>6, <1>7 DEF Good, NothingPending
<1>9. t \in States /\ t.m = y
  BY <1>3, <1>5, HereTyped, SetService
<1>10. PICK r : r = updateCurrentConfiguration(t, ok)
  OBVIOUS
<1>11. r \in States /\ Updated(y, r.m)
  BY <1>8, <1>9, <1>10, UpdateFacts
<1>12. /\ Good(r.m) /\ NothingPending(r.m)
       /\ r.m.alive /\ Fresh(r.m) /\ r.m.bound = m.bound /\ r.m.net = m.net
  BY <1>1, <1>6, <1>11 DEF Updated, Frame
<1> QED BY <1>4, <1>10, <1>11, <1>12

\* The arrival of the profiles keeps the invariant.
LEMMA LoadInv ==
    ASSUME IInv, NEW list \in Lists, Load(list)
    PROVE  IInv'
<1>1. PICK r \in States :
        /\ Apply(r) /\ Good(r.m) /\ NothingPending(r.m)
        /\ r.m.alive /\ Fresh(r.m) /\ r.m.bound = m.bound /\ r.m.net = m.net
  BY LoadFacts
<1>2. /\ UNCHANGED <<granted, intents, device, broadcast>> /\ m.alive
  BY DEF Load
<1>3. Informed(m, device, broadcast) /\ broadcast \in BOOLEAN
  BY <1>2, GoneGood DEF IInv
<1>4. Informed(r.m, device, broadcast')
  BY <1>1, <1>2, <1>3 DEF Informed
<1>5. intents' \in Seq({"STARTED", "REVOKED"}) /\ Len(intents') <= MaxIntents
  BY <1>2 DEF IInv
<1> QED BY <1>1, <1>2, <1>3, <1>4, <1>5, Applied

\* A failed loading keeps the invariant.
LEMMA LoadFailedInv == IInv /\ LoadFailed => IInv'
<1> SUFFICES ASSUME IInv, LoadFailed PROVE IInv'
  OBVIOUS
<1>1. /\ m' = [m EXCEPT !.loading = FALSE] /\ m.alive
      /\ UNCHANGED <<saved, prepares, granted, intents, device, broadcast>>
  BY DEF LoadFailed
<1>2. m \in Services
  BY DEF IInv, Good
<1>3. /\ m' \in Services /\ m'.loading = FALSE /\ m'.infos = m.infos
      /\ m'.alive = m.alive /\ m'.net = m.net /\ m'.bound = m.bound
      /\ m'.sel = m.sel /\ m'.svc = m.svc /\ m'.cur = m.cur
      /\ m'.tuns = m.tuns /\ m'.router = m.router /\ m'.pending = m.pending
  BY <1>1, <1>2 DEF Services
<1>4. Good(m') /\ NothingPending(m') /\ Len(m'.tuns) <= MaxTuns
  BY <1>3 DEF Good, NothingPending, IInv
<1>5. Informed(m, device, broadcast)
  BY <1>1, GoneGood DEF IInv
<1>6. m'.alive /\ Informed(m', device', broadcast')
  BY <1>1, <1>3, <1>5 DEF Informed, Fresh
<1> QED BY <1>1, <1>4, <1>6 DEF IInv

\* A change of the network keeps the invariant.
LEMMA NetworkChangeInv == IInv /\ NetworkChange => IInv'
<1> SUFFICES ASSUME IInv, NetworkChange PROVE IInv'
  OBVIOUS
<1>1. /\ UNCHANGED <<m, saved, prepares, granted, intents>>
      /\ device' \in Devices /\ broadcast' = (m.bound = "bound")
  BY DEF NetworkChange
<1>2. Informed(m', device', broadcast')
  BY <1>1 DEF Informed
<1>3. broadcast' \in BOOLEAN
  BY <1>1
<1> QED BY <1>1, <1>2, <1>3 DEF IInv

\* What a connectivity event leads to.
LEMMA ConnectivityFacts ==
    ASSUME IInv, Connectivity
    PROVE  \E r \in States :
             /\ Apply(r) /\ Good(r.m) /\ NothingPending(r.m) /\ r.m.alive
             /\ r.m.net = Seen(r.m.net, device) /\ Fresh(r.m)
             /\ (/\ m.onDemand /\ m.router /\ r.m.sel # NULL
                 /\ Data[r.m.sel.uuid].supported
                 /\ Match(r.m.net, r.m.sel.rule.net))
                  => r.m.cur # 0 /\ r.m.tuns[r.m.cur].uuid = r.m.sel.uuid
<1>1. m.alive /\ device \in Devices /\ Good(m) /\ NothingPending(m)
  BY DEF Connectivity, IInv
<1>2. PICK ok \in SUBSET Probed : Apply(updateConfig(Here, ok))
  BY DEF Connectivity
<1>3. Here \in States /\ Here.m = m
  BY HereTyped
<1>4. PICK r : r = updateConfig(Here, ok)
  OBVIOUS
<1>5. /\ r \in States /\ Good(r.m) /\ NothingPending(r.m) /\ r.m.alive
      /\ r.m.net = Seen(r.m.net, device) /\ Fresh(r.m)
      /\ (/\ m.onDemand /\ m.router /\ r.m.sel # NULL
          /\ Data[r.m.sel.uuid].supported
          /\ Match(r.m.net, r.m.sel.rule.net))
           => r.m.cur # 0 /\ r.m.tuns[r.m.cur].uuid = r.m.sel.uuid
  BY <1>1, <1>3, <1>4, UpdateConfigFacts
<1> QED BY <1>2, <1>4, <1>5

\* A connectivity event keeps the invariant.
LEMMA ConnectivityInv == IInv /\ Connectivity => IInv'
<1> SUFFICES ASSUME IInv, Connectivity PROVE IInv'
  OBVIOUS
<1>1. PICK r \in States :
        /\ Apply(r) /\ Good(r.m) /\ NothingPending(r.m) /\ r.m.alive
        /\ r.m.net = Seen(r.m.net, device) /\ Fresh(r.m)
  BY ConnectivityFacts
<1>2. broadcast' = FALSE /\ UNCHANGED <<granted, intents, device>>
  BY DEF Connectivity
<1>3. Informed(r.m, device, broadcast')
  BY <1>1 DEF Informed
<1>4. intents' \in Seq({"STARTED", "REVOKED"}) /\ Len(intents') <= MaxIntents
  BY <1>2 DEF IInv
<1> QED BY <1>1, <1>2, <1>3, <1>4, Applied

\* The thread of a tunnel changes that tunnel only, and never undoes its end.
LEMMA TunnelChanged ==
    ASSUME IInv, m.alive, NEW x \in Services, Alike(m, x), x.pending = m.pending,
           NEW i \in DOMAIN m.tuns, NEW t \in Tunnels,
           m.tuns[i].ended => t.ended,
           m' = [x EXCEPT !.tuns = [x.tuns EXCEPT ![i] = t]],
           saved' \in Uuids \cup {NULL},
           UNCHANGED <<prepares, granted, intents, device, broadcast>>
    PROVE  IInv'
<1>1. /\ m \in Services /\ Good(m) /\ NothingPending(m) /\ Len(m.tuns) <= MaxTuns
      /\ Informed(m, device, broadcast)
  BY GoneGood DEF IInv, Good
<1>2. PICK T : T = [x.tuns EXCEPT ![i] = t]
  OBVIOUS
<1>3. x.tuns = m.tuns /\ m.tuns \in Seq(Tunnels) /\ i \in 1..Len(m.tuns)
  BY <1>1 DEF Alike, Services
<1>4. T \in Seq(Tunnels) /\ Len(T) = Len(m.tuns)
  BY <1>2, <1>3
<1>5. \A k \in 1..Len(m.tuns) : m.tuns[k].ended => T[k].ended
  BY <1>2, <1>3
<1>6. m' = [x EXCEPT !.tuns = T]
  BY <1>2
<1>7. m' \in Services /\ m'.tuns = T
  BY <1>4, <1>6 DEF Services
<1>8. /\ Frame(x, m') /\ m'.sel = x.sel /\ m'.svc = x.svc /\ m'.cur = x.cur
      /\ m'.router = x.router /\ m'.pending = x.pending
  BY <1>6 DEF Services, Frame
<1>9. /\ Frame(m, m') /\ m'.sel = m.sel /\ m'.svc = m.svc /\ m'.cur = m.cur
      /\ m'.router = m.router /\ m'.pending = m.pending
  BY <1>8 DEF Alike, Frame
<1>10. Good(m')
  BY <1>1, <1>4, <1>5, <1>7, <1>9 DEF Good, Frame
<1>11. NothingPending(m') /\ Len(m'.tuns) <= MaxTuns
  BY <1>1, <1>4, <1>7, <1>9 DEF NothingPending
<1>12. m'.alive /\ Informed(m', device', broadcast')
  BY <1>1, <1>9 DEF Informed, Frame, Fresh
<1> QED BY <1>10, <1>11, <1>12 DEF IInv

\* A report of a tunnel keeps the invariant.
LEMMA ReportInv ==
    ASSUME IInv, NEW i \in DOMAIN m.tuns,
           (\E up \in BOOLEAN : Report(i, up)) \/ ReportEnd(i)
    PROVE  IInv'
<1>1. m \in Services /\ m.tuns \in Seq(Tunnels) /\ i \in 1..Len(m.tuns)
  BY DEF IInv, Good, Services
<1>2. m.tuns[i] \in Tunnels
  BY <1>1
<1>3. /\ m.alive
      /\ UNCHANGED <<saved, prepares, granted, intents, device, broadcast>>
  BY DEF Report, ReportEnd
<1>4. PICK b \in BOOLEAN : b = (m.cur # 0)
  OBVIOUS
<1>5. PICK t \in Tunnels : /\ m.tuns[i].ended => t.ended
                           /\ m' = [m EXCEPT !.tuns = [m.tuns EXCEPT ![i] = t]]
  <2>1. CASE \E up \in BOOLEAN : Report(i, up)
    <3>1. PICK up \in BOOLEAN : Report(i, up)
      BY <2>1
    <3>2. PICK t : t = [m.tuns[i] EXCEPT !.up = up, !.notify = b]
      OBVIOUS
    <3>3. m' = [m EXCEPT !.tuns = [m.tuns EXCEPT ![i] = t]]
      BY <1>4, <3>1, <3>2 DEF Report
    <3>4. t \in Tunnels /\ t.ended = m.tuns[i].ended
      BY <1>2, <3>2 DEF Tunnels
    <3> QED BY <3>3, <3>4
  <2>2. CASE ReportEnd(i)
    <3>1. PICK e : e = Ended(m.tuns[i])
      OBVIOUS
    <3>2. e \in Tunnels /\ e.ended
      BY <1>2, <3>1, EndedTyped
    <3>3. PICK t : t = [e EXCEPT !.notify = b]
      OBVIOUS
    <3>4. m' = [m EXCEPT !.tuns = [m.tuns EXCEPT ![i] = t]]
      BY <1>4, <2>2, <3>1, <3>3 DEF ReportEnd
    <3>5. t \in Tunnels /\ t.ended
      BY <3>2, <3>3 DEF Tunnels
    <3> QED BY <3>4, <3>5
  <2> QED BY <2>1, <2>2
<1>6. Alike(m, m) /\ saved' \in Uuids \cup {NULL}
  BY <1>1, <1>3 DEF Alike, Frame, IInv
<1> QED BY <1>1, <1>3, <1>5, <1>6, TunnelChanged

\* A report that reads mCurrentTunnel again keeps the invariant.
LEMMA ReportReadInv ==
    ASSUME IInv, NEW i \in DOMAIN m.tuns, ReportRead(i)
    PROVE  IInv'
<1>1. /\ m.alive
      /\ UNCHANGED <<granted, intents, device, broadcast>>
  BY DEF ReportRead
<1>2. CASE m.cur = 0
  <2>1. m' = Gone /\ saved' = saved /\ prepares' = 0
    BY <1>2 DEF ReportRead
  <2>2. Good(m') /\ NothingPending(m') /\ Len(m'.tuns) <= MaxTuns
    BY <2>1, GoneGood, BoundsAreNumbers
  <2>3. prepares' \in 0..MaxPrepares
    BY <2>1, BoundsAreNumbers
  <2> QED BY <1>1, <2>1, <2>2, <2>3 DEF IInv
<1>3. CASE m.cur # 0
  <2>1. PICK s : s = NotifyState(Here)
    OBVIOUS
  <2>2. /\ m' = [s.m EXCEPT !.tuns[i].notify = FALSE]
        /\ saved' = s.saved /\ UNCHANGED prepares
    BY <1>3, <2>1 DEF ReportRead
  <2>3. Here \in States /\ Here.m = m /\ Good(m)
    BY HereTyped DEF IInv
  <2>4. s \in States /\ Alike(m, s.m) /\ s.m.pending = m.pending
    BY <2>1, <2>3, NotifyStateFacts
  <2>5. s.m \in Services /\ saved' \in Uuids \cup {NULL}
    BY <2>2, <2>4 DEF States
  <2>6. s.m.tuns = m.tuns /\ s.m.tuns \in Seq(Tunnels) /\ i \in 1..Len(m.tuns)
    BY <2>4, <2>5 DEF Alike, Services
  <2>7. s.m.tuns[i] \in Tunnels
    BY <2>6
  <2>8. PICK t : t = [s.m.tuns[i] EXCEPT !.notify = FALSE]
    OBVIOUS
  <2>9. t \in Tunnels /\ t.ended = m.tuns[i].ended
    BY <2>6, <2>7, <2>8 DEF Tunnels
  <2>10. m' = [s.m EXCEPT !.tuns = [s.m.tuns EXCEPT ![i] = t]]
    BY <2>2, <2>8
  <2> QED BY <1>1, <2>2, <2>4, <2>5, <2>9, <2>10, TunnelChanged
<1> QED BY <1>2, <1>3

\* Every step keeps the invariant.
LEMMA NextInv == IInv /\ [Next]_vars => IInv'
<1> SUFFICES ASSUME IInv, [Next]_vars PROVE IInv'
  OBVIOUS
<1>1. CASE UNCHANGED vars
  BY <1>1 DEF vars, IInv
<1>2. CASE Next
  <2>1. CASE \/ OpenUi \/ CloseUi \/ DeactivateUser \/ StartUser \/ StopUser
    BY <2>1, OpenUiInv, CloseUiInv, DeactivateUserInv, StartUserInv, StopUserInv
  <2>2. CASE \/ PrepareOk \/ PrepareCancelled \/ PrepareImpossible \/ Revoke
             \/ OcpaConnected \/ DeliverIntent
    BY <2>2, PrepareInv, PrepareCancelledInv, RevokeInv, OcpaConnectedInv,
       DeliverIntentInv
  <2>3. CASE LoadFailed \/ NetworkChange \/ Connectivity \/ Kill
    BY <2>3, LoadFailedInv, NetworkChangeInv, ConnectivityInv, KillInv
  <2>4. CASE \E u \in Uuids \cup {NULL} : ActivateUser(u)
    BY <2>4, ActivateUserInv
  <2>5. CASE \E list \in Lists : Load(list)
    BY <2>5, LoadInv
  <2>6. CASE \E i \in DOMAIN m.tuns :
               \/ \E up \in BOOLEAN : Report(i, up)
               \/ ReportEnd(i)
               \/ ReportRead(i)
    BY <2>6, ReportInv, ReportReadInv
  <2> QED BY <1>2, <2>1, <2>2, <2>3, <2>4, <2>5, <2>6 DEF Next
<1> QED BY <1>1, <1>2

-----------------------------------------------------------------------------
(* Theorems *)

\* The variables keep their types, the lists their bounds, and a current
\* tunnel exists, whatever profiles and networks there are.
THEOREM TypeCorrect == Spec => []TypeOK
<1>1. IInv => TypeOK
  BY DEF IInv, Good, TypeOK
<1> QED BY <1>1, InitInv, NextInv, PTL DEF Spec

\* No handler of the manager and no restart of the service loses the only
\* reference to a tunnel that was not told to terminate.
THEOREM TunnelsEnded == Spec => []OneTunnel
<1>1. IInv => OneTunnel
  <2> SUFFICES ASSUME IInv PROVE OneTunnel
    OBVIOUS
  <2>1. m.tuns \in Seq(Tunnels)
    BY DEF IInv, Good, Services
  <2> QED BY <2>1 DEF IInv, Good, OneTunnel
<1> QED BY <1>1, InitInv, NextInv, PTL DEF Spec

\* A tunnel that may still use mRouterLoop finds a router.
THEOREM RouterThere == Spec => []RouterForTunnels
<1>1. IInv => RouterForTunnels
  <2> SUFFICES ASSUME IInv PROVE RouterForTunnels
    OBVIOUS
  <2>1. m.tuns \in Seq(Tunnels)
    BY DEF IInv, Good, Services
  <2> QED BY <2>1 DEF IInv, Good, RouterForTunnels
<1> QED BY <1>1, InitInv, NextInv, PTL DEF Spec

\* A started service has no request pending that the next start would serve.
THEOREM NothingStale == Spec => []PendingServed
<1>1. IInv => PendingServed
  BY DEF IInv, NothingPending, PendingServed
<1> QED BY <1>1, InitInv, NextInv, PTL DEF Spec

\* The listener's selection fits the device's network once every broadcast
\* is handled.
THEOREM SelectionFits == Spec => []SelectionFresh
<1>1. IInv => SelectionFresh
  BY GoneGood DEF IInv, Informed, Fresh, SelectionFresh
<1> QED BY <1>1, InitInv, NextInv, PTL DEF Spec

\* A connectivity event leaves the tunnel of the selected profile current.
THEOREM FollowsNetwork == Spec => OnDemandFollows
<1> DEFINE A == (/\ m.onDemand /\ m.router /\ m'.alive /\ m'.sel # NULL
                 /\ Data[m'.sel.uuid].supported
                 /\ Match(m'.net, m'.sel.rule.net)
                 /\ broadcast /\ ~broadcast' /\ Connectivity)
                => /\ m'.cur # 0
                   /\ m'.tuns[m'.cur].uuid = m'.sel.uuid
<1>1. IInv /\ [Next]_vars => [A]_vars
  BY ConnectivityFacts DEF Apply
<1>2. Spec => [][A]_vars
  BY <1>1, InitInv, NextInv, PTL DEF Spec
<1> QED BY <1>2 DEF OnDemandFollows

\* Neither a connectivity event nor the arrival of the profiles ends the
\* process.
THEOREM OnDemandLives == Spec => OnDemandSurvives
<1> DEFINE A == (m.alive /\ ~m'.alive)
                => ~Connectivity /\ \A list \in Lists : ~Load(list)
<1>1. IInv /\ [Next]_vars => [A]_vars
  BY ConnectivityFacts, LoadFacts DEF Apply
<1>2. Spec => [][A]_vars
  BY <1>1, InitInv, NextInv, PTL DEF Spec
<1> QED BY <1>2 DEF OnDemandSurvives
=============================================================================
