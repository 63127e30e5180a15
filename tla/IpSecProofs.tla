---------------------------- MODULE IpSecProofs ----------------------------
(***************************************************************************)
(* Proofs about module IpSec, for any finite set of tunnels and any number *)
(* of reports: its typing, that a tunnel whose thread has ended has        *)
(* released its native context, and the order in which its states are      *)
(* shown.                                                                  *)
(***************************************************************************)
EXTENDS IpSec, FiniteSetTheorems, TLAPS

\* Before it is established a tunnel has no context and nobody knows it.
Untouched(t) ==
    /\ status[t] = "DISCONNECTED"
    /\ ~ctx[t] /\ refs[t] = 0
    /\ current # t /\ service # t
    /\ \A c \in Callers : term[c].tun # t
    /\ \A i \in DOMAIN posted : posted[i].tun # t

NewUntouched == \A t \in Tuns : thr[t] = "none" => Untouched(t)

\* Some call of terminateConnection for t has one of these positions.
CallAt(t, pcs) == \E c \in Callers : term[c].tun = t /\ term[c].pc \in pcs

\* Whoever made a tunnel TERMINATED while its context was there is about to
\* release the context, or met an exception: others may rely on that.
TerminatorReleases ==
    \A t \in Tuns :
        status[t] = "TERMINATED" /\ ctx[t] /\ t \notin aborted =>
            CallAt(t, {"remove", "deinit", "clear"})

\* When the thread of a tunnel is past its loop, or failed to start charon,
\* a context that is still there is on some call's way.
EndReleases ==
    \A t \in Tuns :
        thr[t] \in {"failed", "end", "done"} /\ ctx[t] /\ t \notin aborted =>
            CallAt(t, {"check", "set", "remove", "deinit", "clear"})

\* Java's reference on a context that is gone was given back, and so was
\* the one on a context about to go.
GoneReleased ==
    /\ \A t \in Tuns : ~ctx[t] => refs[t] <= 0
    /\ \A c \in Callers : term[c].pc = "clear" => refs[term[c].tun] <= 0

\* As long as the context is there, each release is by a call that has not
\* cleared the context yet: none releases it twice.
Releasers(t) == {c \in Callers : term[c].tun = t /\ term[c].pc = "clear"}
ReleasesCounted ==
    \A t \in Tuns : ctx[t] => 1 - refs[t] <= Cardinality(Releasers(t))

\* Every instance of charon was made by a thread of its own, and the pointer
\* names one that is not freed.
Inited == {t \in Tuns :
             thr[t] \in {"initiate", "check", "waiting", "end", "done"}}
InstancesCounted ==
    /\ instances <= Cardinality(Inited)
    /\ service # NULL => instances > 0

\* The state CONNECTING was shown, or is posted at one of the places ks.
Announced(t, ks) ==
    \/ status[t] # "DISCONNECTED"
    \/ \E k \in ks : posted[k] = [tun |-> t, status |-> "CONNECTING"]

\* The state CONNECTING precedes whatever charon reports.
AnnouncedFirst ==
    /\ \A t \in Tuns :
         thr[t] \notin {"none", "start"} => Announced(t, DOMAIN posted)
    /\ \A i \in DOMAIN posted :
         posted[i].status = "CONNECTED" => Announced(posted[i].tun, 1..(i - 1))
    /\ service # NULL => thr[service] \notin {"none", "start"}

\* The inductive invariant.
IInv ==
    /\ TypeOK
    /\ NewUntouched
    /\ TerminatorReleases
    /\ EndReleases
    /\ GoneReleased
    /\ ReleasesCounted
    /\ InstancesCounted
    /\ AnnouncedFirst
-----------------------------------------------------------------------------
(* Calls and counts. *)

\* There are finitely many callers, and every set of them can be counted.
LEMMA CallersCounted ==
    ASSUME NEW S \in SUBSET Callers
    PROVE  /\ IsFiniteSet(S) /\ Cardinality(S) \in Nat
           /\ Cardinality(S) <= Cardinality(Callers)
           /\ Cardinality(Callers) \in Nat
           /\ \A c \in Callers \ S :
                Cardinality(S \cup {c}) = Cardinality(S) + 1
<1>1. IsFiniteSet({"main", "charon"})
  <2>1. IsFiniteSet({"main"})
    BY FS_Singleton
  <2>2. IsFiniteSet({"main"} \cup {"charon"})
    BY <2>1, FS_AddElement
  <2>3. {"main", "charon"} = {"main"} \cup {"charon"}
    OBVIOUS
  <2> QED BY <2>2, <2>3
<1>2. IsFiniteSet(Callers)
  BY <1>1, TunsFinite, FS_Union, Zenon DEF Callers
<1>3. IsFiniteSet(S) /\ Cardinality(S) <= Cardinality(Callers)
  BY <1>2, FS_Subset
<1> QED BY <1>2, <1>3, FS_CardinalityType, FS_AddElement

\* There is at least the main thread.
LEMMA SomeCaller ==
    /\ Cardinality(Callers) \in Nat /\ Cardinality(Callers) >= 1
    /\ 0 \in (1 - Cardinality(Callers))..1
    /\ 1 \in (1 - Cardinality(Callers))..1
<1>1. {} \in SUBSET Callers /\ {"main"} \in SUBSET Callers /\ "main" \in Callers
  BY DEF Callers
<1>2. /\ Cardinality({}) \in Nat /\ Cardinality(Callers) \in Nat
      /\ Cardinality({} \cup {"main"}) = Cardinality({}) + 1
  BY <1>1, CallersCounted
<1>3. {} \cup {"main"} = {"main"}
  OBVIOUS
<1>4. Cardinality({"main"}) <= Cardinality(Callers)
  BY <1>1, CallersCounted
<1> QED BY <1>2, <1>3, <1>4

\* Sets of tunnels can be counted.
LEMMA TunsCounted ==
    ASSUME NEW S \in SUBSET Tuns
    PROVE  /\ IsFiniteSet(S) /\ Cardinality(S) \in Nat
           /\ Cardinality(S) <= Cardinality(Tuns)
           /\ Cardinality(Tuns) \in Nat
           /\ \A t \in Tuns \ S :
                Cardinality(S \cup {t}) = Cardinality(S) + 1
BY TunsFinite, FS_Subset, FS_CardinalityType, FS_AddElement

\* A call in progress names a tunnel, and Goto changes its position only.
LEMMA GotoFacts ==
    ASSUME TypeOK, NEW c \in Callers, NEW q \in TermPcs, term[c].pc = q,
           NEW p \in TermPcs, Goto(c, p)
    PROVE  /\ term[c].tun \in Tuns
           /\ term' = [term EXCEPT ![c] = [tun |-> term[c].tun, pc |-> p]]
           /\ term' \in [Callers -> [tun : Tuns, pc : TermPcs] \cup {Idle}]
<1>1. term[c] \in [tun : Tuns, pc : TermPcs]
  BY DEF TypeOK, Idle, TermPcs
<1>2. [term[c] EXCEPT !.pc = p] = [tun |-> term[c].tun, pc |-> p]
  BY <1>1
<1>3. term' = [term EXCEPT ![c] = [tun |-> term[c].tun, pc |-> p]]
  BY <1>2 DEF Goto
<1> QED BY <1>1, <1>3 DEF TypeOK

\* No part of the invariant but the typing mentions the flags.
LEMMA FlagsChange ==
    ASSUME IInv, router' \in BOOLEAN, crashed' \in BOOLEAN,
           UNCHANGED <<current, status, ctx, refs, thr, held, posted, term,
                       service, instances, reports, aborted>>
    PROVE  IInv'
<1>1. TypeOK'
  BY DEF IInv, TypeOK
<1>2. NewUntouched'
  BY DEF IInv, NewUntouched, Untouched
<1>3. TerminatorReleases' /\ EndReleases'
  BY DEF IInv, TerminatorReleases, EndReleases, CallAt
<1>4. GoneReleased' /\ ReleasesCounted'
  BY DEF IInv, GoneReleased, ReleasesCounted, Releasers
<1>5. InstancesCounted' /\ AnnouncedFirst'
  BY DEF IInv, InstancesCounted, Inited, AnnouncedFirst, Announced
<1> QED BY <1>1, <1>2, <1>3, <1>4, <1>5 DEF IInv
-----------------------------------------------------------------------------
(* The main thread. *)

\* The current tunnel may be terminated by the main thread at any time.
LEMMA MainCalls ==
    ASSUME IInv, NEW v \in {Idle, Call(current)},
           current = NULL => v = Idle, term["main"] = Idle,
           term' = [term EXCEPT !["main"] = v],
           UNCHANGED <<status, ctx, refs, thr, posted, aborted>>,
           current' \in {current, NULL}, service' = service
    PROVE  /\ term' \in [Callers -> [tun : Tuns, pc : TermPcs] \cup {Idle}]
           /\ NewUntouched' /\ TerminatorReleases' /\ EndReleases'
           /\ GoneReleased' /\ ReleasesCounted'
<1>1. "main" \in Callers
  BY DEF Callers
<1>2. /\ v.pc \in {"idle", "check"}
      /\ v \in [tun : Tuns, pc : TermPcs] \cup {Idle}
      /\ v.tun \in {NULL, current}
  BY DEF IInv, TypeOK, Call, Idle, TermPcs
<1>3. term' \in [Callers -> [tun : Tuns, pc : TermPcs] \cup {Idle}]
  BY <1>1, <1>2 DEF IInv, TypeOK
<1>4. \A u \in Tuns, pcs \in SUBSET TermPcs :
        CallAt(u, pcs) => CallAt(u, pcs)'
  BY <1>1 DEF IInv, TypeOK, CallAt, Idle, TermPcs
<1>5. NewUntouched'
  BY <1>1, <1>2, NullIsNoTunnel DEF IInv, TypeOK, NewUntouched, Untouched
<1>6. TerminatorReleases' /\ EndReleases'
  BY <1>4 DEF IInv, TypeOK, TerminatorReleases, EndReleases, TermPcs
<1>7. GoneReleased'
  BY <1>1, <1>2 DEF IInv, TypeOK, GoneReleased
<1>8. ReleasesCounted'
  <2>1. \A u \in Tuns : Releasers(u)' = Releasers(u)
    BY <1>1, <1>2 DEF IInv, TypeOK, Releasers, Idle
  <2> QED BY <2>1 DEF IInv, ReleasesCounted
<1> QED BY <1>3, <1>5, <1>6, <1>7, <1>8

\* notifyVpnServiceStarted terminates the current tunnel and makes a router.
LEMMA RestartKeeps ==
    ASSUME IInv, Restart
    PROVE  IInv'
<1>1. PICK v \in {Idle, Call(current)} :
        /\ current = NULL => v = Idle
        /\ term' = [term EXCEPT !["main"] = v]
  BY DEF Restart
<1>2. /\ term["main"] = Idle /\ router' \in BOOLEAN
      /\ UNCHANGED <<current, status, ctx, refs, thr, held, posted, service,
                     instances, reports, aborted, crashed>>
  BY DEF Restart, MainFree
<1>3. /\ term' \in [Callers -> [tun : Tuns, pc : TermPcs] \cup {Idle}]
      /\ NewUntouched' /\ TerminatorReleases' /\ EndReleases'
      /\ GoneReleased' /\ ReleasesCounted'
  BY <1>1, <1>2, MainCalls
<1>4. TypeOK'
  BY <1>2, <1>3 DEF IInv, TypeOK
<1>5. InstancesCounted' /\ AnnouncedFirst'
  BY <1>2 DEF IInv, InstancesCounted, Inited, AnnouncedFirst, Announced
<1> QED BY <1>3, <1>4, <1>5 DEF IInv

\* activateVpnTunnel creates the context, starts the thread and terminates
\* the old tunnel.
LEMMA ActivateKeeps ==
    ASSUME IInv, NEW t \in Tuns, NEW created \in BOOLEAN, Activate(t, created)
    PROVE  IInv'
<1> DEFINE v == IF current = NULL THEN Idle ELSE Call(current)
<1>1. "main" \in Callers /\ term["main"] = Idle
  BY DEF Callers, Activate, MainFree
<1>2. term' = [term EXCEPT !["main"] = v]
  BY DEF Activate
<1>3. /\ v.pc \in {"idle", "check"}
      /\ v \in [tun : Tuns, pc : TermPcs] \cup {Idle}
      /\ v.tun \in {NULL, current} /\ v.tun # t
  BY NullIsNoTunnel
     DEF IInv, TypeOK, Call, Idle, TermPcs, NewUntouched, Untouched, Activate
<1>4. \A u \in Tuns, pcs \in SUBSET TermPcs :
        CallAt(u, pcs) => CallAt(u, pcs)'
  BY <1>1, <1>2 DEF IInv, TypeOK, CallAt, Idle, TermPcs
<1> HIDE DEF v
<1>5. TypeOK'
  <2>1. /\ Cardinality(Callers) \in Nat /\ Cardinality(Callers) >= 1
        /\ 0 \in (1 - Cardinality(Callers))..1
        /\ 1 \in (1 - Cardinality(Callers))..1
    BY SomeCaller
  <2>2. refs' \in [Tuns -> (1 - Cardinality(Callers))..1]
    BY <2>1 DEF IInv, TypeOK, Activate
  <2> QED BY <1>1, <1>2, <1>3, <2>2 DEF IInv, TypeOK, Activate, ThreadPcs
<1>6. NewUntouched'
  BY <1>1, <1>2, <1>3, NullIsNoTunnel
     DEF IInv, TypeOK, NewUntouched, Untouched, Activate
<1>7. TerminatorReleases'
  BY <1>4 DEF IInv, TypeOK, TerminatorReleases, NewUntouched, Untouched,
              Activate, TermPcs
<1>8. EndReleases'
  BY <1>4 DEF IInv, TypeOK, EndReleases, Activate, TermPcs
<1>9. GoneReleased'
  BY <1>1, <1>2, <1>3
     DEF IInv, TypeOK, GoneReleased, Activate, NewUntouched, Untouched
<1>10. ReleasesCounted'
  <2>1. \A u \in Tuns : Releasers(u)' = Releasers(u)
    BY <1>1, <1>2, <1>3 DEF IInv, TypeOK, Releasers, Idle
  <2>2. Releasers(t) \in SUBSET Callers
    BY DEF Releasers
  <2> QED BY <2>1, <2>2, CallersCounted
          DEF IInv, TypeOK, ReleasesCounted, NewUntouched, Untouched, Activate
<1>11. InstancesCounted'
  <2>1. Inited' = Inited
    BY DEF IInv, TypeOK, Inited, Activate
  <2> QED BY <2>1 DEF IInv, InstancesCounted, Activate
<1>12. AnnouncedFirst'
  BY DEF IInv, TypeOK, AnnouncedFirst, Announced, Activate
<1> QED BY <1>5, <1>6, <1>7, <1>8, <1>9, <1>10, <1>11, <1>12 DEF IInv

\* A stop terminates the current tunnel and forgets it.
LEMMA StopKeeps ==
    ASSUME IInv, Stop
    PROVE  IInv'
<1>1. /\ term["main"] = Idle /\ current # NULL /\ current' = NULL
      /\ term' = [term EXCEPT !["main"] = Call(current)]
      /\ UNCHANGED <<router, status, ctx, refs, thr, held, posted, service,
                     instances, reports, aborted, crashed>>
  BY DEF Stop, MainFree
<1>2. /\ term' \in [Callers -> [tun : Tuns, pc : TermPcs] \cup {Idle}]
      /\ NewUntouched' /\ TerminatorReleases' /\ EndReleases'
      /\ GoneReleased' /\ ReleasesCounted'
  BY <1>1, MainCalls
<1>3. TypeOK'
  BY <1>1, <1>2 DEF IInv, TypeOK
<1>4. InstancesCounted' /\ AnnouncedFirst'
  BY <1>1 DEF IInv, InstancesCounted, Inited, AnnouncedFirst, Announced
<1> QED BY <1>2, <1>3, <1>4 DEF IInv

\* Nothing of a tunnel depends on the router but the next intlRemoveTunnel.
LEMMA CloseKeeps ==
    ASSUME IInv, Close
    PROVE  IInv'
<1>1. /\ router' = FALSE
      /\ UNCHANGED <<current, status, ctx, refs, thr, held, posted, term,
                     service, instances, reports, aborted, crashed>>
  BY DEF Close
<1>2. crashed' \in BOOLEAN
  BY <1>1 DEF IInv, TypeOK
<1> QED BY <1>1, <1>2, FlagsChange

\* What is left of a sequence without its first element.
LEMMA TailFacts ==
    ASSUME NEW S, NEW s \in Seq(S), s # <<>>
    PROVE  /\ Len(s) \in Nat \ {0} /\ DOMAIN s = 1..Len(s)
           /\ \A i \in 1..Len(s) : s[i] \in S
           /\ Head(s) = s[1]
           /\ Tail(s) \in Seq(S)
           /\ DOMAIN Tail(s) = 1..(Len(s) - 1)
           /\ \A i \in 1..(Len(s) - 1) : Tail(s)[i] = s[i + 1]
OBVIOUS

\* What is posted is about a tunnel.
LEMMA PostedTyped ==
    ASSUME TypeOK
    PROVE  \A i \in DOMAIN posted : posted[i].tun \in Tuns
<1> DEFINE P == [tun : Tuns, status : {"CONNECTING", "CONNECTED"}]
<1>1. posted \in Seq(P)
  BY DEF TypeOK
<1>2. \A i \in DOMAIN posted : posted[i] \in P
  <2> HIDE DEF P
  <2> QED BY <1>1
<1> QED BY <1>2

\* The first posted change is applied; the others move up.
LEMMA RunPostedKeeps ==
    ASSUME IInv, RunPosted
    PROVE  IInv'
<1> DEFINE P == [tun : Tuns, status : {"CONNECTING", "CONNECTED"}]
<1>1. PICK n \in Nat \ {0} :
        /\ n = Len(posted)
        /\ DOMAIN posted = 1..n /\ DOMAIN posted' = 1..(n - 1)
        /\ \A i \in 1..n : posted[i] \in P
        /\ \A i \in 1..(n - 1) : posted'[i] = posted[i + 1]
        /\ posted' \in Seq(P) /\ Head(posted) = posted[1]
  <2>1. posted \in Seq(P) /\ posted # <<>> /\ posted' = Tail(posted)
    BY DEF IInv, TypeOK, RunPosted
  <2> HIDE DEF P
  <2> QED BY <2>1, TailFacts
<1>2. PICK h \in P : h = posted[1]
  BY <1>1
<1>3. status' = [status EXCEPT ![h.tun] = h.status]
  BY <1>1, <1>2 DEF RunPosted
<1>4. UNCHANGED <<current, ctx, refs, thr, held, term, service, instances,
                  reports, crashed, router, aborted>>
  BY DEF RunPosted
<1>5. TypeOK'
  <2>1. status' \in [Tuns -> Statuses]
    BY <1>2, <1>3 DEF IInv, TypeOK, Statuses
  <2> QED BY <2>1, <1>1, <1>4 DEF IInv, TypeOK
<1>6. NewUntouched'
  <2>1. SUFFICES ASSUME NEW t \in Tuns, thr'[t] = "none"
                 PROVE  Untouched(t)'
    BY DEF NewUntouched
  <2>2. Untouched(t)
    BY <2>1, <1>4 DEF IInv, NewUntouched
  <2>3. \A i \in 1..n : posted[i].tun # t
    BY <2>2, <1>1 DEF Untouched
  <2>4. status'[t] = "DISCONNECTED"
    BY <2>2, <2>3, <1>2, <1>3 DEF IInv, TypeOK, Untouched
  <2>5. \A i \in DOMAIN posted' : posted'[i].tun # t
    BY <2>3, <1>1
  <2> QED BY <2>2, <2>4, <2>5, <1>4 DEF Untouched
<1>7. TerminatorReleases'
  <2>1. \A t \in Tuns : status'[t] = "TERMINATED" => status[t] = "TERMINATED"
    BY <1>2, <1>3 DEF IInv, TypeOK
  <2> QED BY <2>1, <1>4 DEF IInv, TerminatorReleases, CallAt
<1>8. EndReleases' /\ GoneReleased'
  BY <1>4 DEF IInv, EndReleases, GoneReleased, CallAt
<1>9. ReleasesCounted' /\ InstancesCounted'
  BY <1>4 DEF IInv, ReleasesCounted, Releasers, InstancesCounted, Inited
<1>10. AnnouncedFirst'
  <2>1. ASSUME NEW t \in Tuns, NEW j \in 0..n, Announced(t, 1..j)
        PROVE  Announced(t, 1..(j - 1))'
    <3>1. CASE h.tun = t
      BY <3>1, <1>2, <1>3 DEF IInv, TypeOK, Announced
    <3>2. CASE h.tun # t /\ status[t] # "DISCONNECTED"
      BY <3>2, <1>2, <1>3 DEF IInv, TypeOK, Announced
    <3>3. CASE h.tun # t /\ status[t] = "DISCONNECTED"
      <4>1. PICK k \in 1..j : posted[k] = [tun |-> t, status |-> "CONNECTING"]
        BY <3>3, <2>1 DEF Announced
      <4>2. k # 1
        BY <4>1, <3>3, <1>2
      <4>3. k - 1 \in 1..(j - 1) /\ k - 1 \in 1..(n - 1) /\ (k - 1) + 1 = k
        BY <4>2
      <4>4. posted'[k - 1] = [tun |-> t, status |-> "CONNECTING"]
        BY <4>1, <4>3, <1>1
      <4> QED BY <4>3, <4>4 DEF Announced
    <3> QED BY <3>1, <3>2, <3>3
  <2>2. \A t \in Tuns : thr'[t] \notin {"none", "start"} =>
          Announced(t, DOMAIN posted)'
    <3>1. SUFFICES ASSUME NEW t \in Tuns, thr[t] \notin {"none", "start"}
                   PROVE  Announced(t, DOMAIN posted)'
      BY <1>4
    <3>2. Announced(t, 1..n)
      BY <3>1, <1>1 DEF IInv, AnnouncedFirst
    <3>3. Announced(t, 1..(n - 1))'
      BY <3>2, <2>1
    <3> QED BY <3>3, <1>1 DEF Announced
  <2>3. \A i \in DOMAIN posted' :
          posted'[i].status = "CONNECTED" => Announced(posted[i].tun, 1..(i - 1))'
    <3>1. SUFFICES ASSUME NEW i \in 1..(n - 1), posted'[i].status = "CONNECTED"
                   PROVE  Announced(posted[i].tun, 1..(i - 1))'
      BY <1>1
    <3>2. posted'[i] = posted[i + 1] /\ i \in 0..n /\ i + 1 \in 1..n /\ (i + 1) - 1 = i
      BY <1>1
    <3>3. PICK t \in Tuns : t = posted[i + 1].tun
      BY <3>2, <1>1
    <3>4. Announced(t, 1..i)
      BY <3>1, <3>2, <3>3, <1>1 DEF IInv, AnnouncedFirst
    <3>5. Announced(t, 1..(i - 1))'
      BY <3>2, <3>4, <2>1
    <3> QED BY <3>2, <3>3, <3>5 DEF Announced
  <2>4. service' # NULL => thr'[service'] \notin {"none", "start"}
    BY <1>4 DEF IInv, AnnouncedFirst
  <2> QED BY <2>2, <2>3, <2>4 DEF AnnouncedFirst
<1> QED BY <1>5, <1>6, <1>7, <1>8, <1>9, <1>10 DEF IInv
-----------------------------------------------------------------------------
(* terminateConnection. *)

\* A call that finds the tunnel TERMINATED relies on the other call.
LEMMA TermCheckKeeps ==
    ASSUME IInv, NEW c \in Callers, TermCheck(c)
    PROVE  IInv'
<1>1. PICK p \in {"notify", "set"} :
        /\ Goto(c, p)
        /\ p = IF status[term[c].tun] = "TERMINATED" THEN "notify" ELSE "set"
  BY DEF TermCheck
<1>2. PICK t \in Tuns :
        /\ t = term[c].tun
        /\ term' = [term EXCEPT ![c] = [tun |-> t, pc |-> p]]
        /\ term' \in [Callers -> [tun : Tuns, pc : TermPcs] \cup {Idle}]
  BY <1>1, GotoFacts DEF IInv, TermCheck, At, TermPcs
<1>3. /\ UNCHANGED <<current, status, ctx, refs, thr, held, posted, service,
                     instances, reports, crashed, router, aborted>>
      /\ term[c].pc = "check" /\ term \in [Callers -> [tun : Tuns, pc : TermPcs] \cup {Idle}]
  BY DEF TermCheck, At, IInv, TypeOK
<1>4. TypeOK'
  BY <1>2, <1>3 DEF IInv, TypeOK
<1>5. NewUntouched'
  BY <1>2, <1>3 DEF IInv, NewUntouched, Untouched
<1>6. TerminatorReleases'
  BY <1>2, <1>3 DEF IInv, TerminatorReleases, CallAt
<1>7. EndReleases'
  <2>1. SUFFICES ASSUME NEW u \in Tuns, thr[u] \in {"failed", "end", "done"},
                        ctx[u], u \notin aborted
                 PROVE  CallAt(u, {"check", "set", "remove", "deinit", "clear"})'
    BY <1>3 DEF EndReleases
  <2>2. CASE u = t /\ status[t] = "TERMINATED"
    <3>1. PICK d \in Callers : term[d].tun = t /\ term[d].pc \in {"remove", "deinit", "clear"}
      BY <2>1, <2>2 DEF IInv, TerminatorReleases, CallAt
    <3>2. term'[d] = term[d]
      BY <3>1, <1>2, <1>3
    <3> QED BY <3>1, <3>2, <2>2 DEF CallAt
  <2>3. CASE u = t /\ status[t] # "TERMINATED"
    <3>1. term'[c] = [tun |-> t, pc |-> "set"]
      BY <2>3, <1>1, <1>2, <1>3
    <3> QED BY <3>1, <2>3 DEF CallAt
  <2>4. CASE u # t
    <3>1. PICK d \in Callers :
            term[d].tun = u /\ term[d].pc \in {"check", "set", "remove", "deinit", "clear"}
      BY <2>1 DEF IInv, EndReleases, CallAt
    <3>2. term'[d] = term[d]
      BY <3>1, <2>4, <1>2, <1>3
    <3> QED BY <3>1, <3>2 DEF CallAt
  <2> QED BY <2>2, <2>3, <2>4
<1>8. GoneReleased'
  BY <1>2, <1>3 DEF IInv, GoneReleased
<1>9. ReleasesCounted'
  <2>1. \A u \in Tuns : Releasers(u)' = Releasers(u)
    BY <1>2, <1>3 DEF Releasers
  <2> QED BY <2>1, <1>3 DEF IInv, ReleasesCounted
<1>10. InstancesCounted' /\ AnnouncedFirst'
  BY <1>3 DEF IInv, InstancesCounted, Inited, AnnouncedFirst, Announced
<1> QED BY <1>4, <1>5, <1>6, <1>7, <1>8, <1>9, <1>10 DEF IInv

\* The call that sets TERMINATED releases the context, if there is one.
LEMMA TermSetKeeps ==
    ASSUME IInv, NEW c \in Callers, TermSet(c)
    PROVE  IInv'
<1>1. PICK p \in {"notify", "remove"} :
        Goto(c, p) /\ p = IF ctx[term[c].tun] THEN "remove" ELSE "notify"
  BY DEF TermSet
<1>2. PICK t \in Tuns :
        /\ t = term[c].tun
        /\ term' = [term EXCEPT ![c] = [tun |-> t, pc |-> p]]
        /\ term' \in [Callers -> [tun : Tuns, pc : TermPcs] \cup {Idle}]
  BY <1>1, GotoFacts DEF IInv, TermSet, At, TermPcs
<1>3. /\ UNCHANGED <<current, ctx, refs, thr, held, posted, service,
                     instances, reports, crashed, router, aborted>>
      /\ term[c].pc = "set" /\ term \in [Callers -> [tun : Tuns, pc : TermPcs] \cup {Idle}]
      /\ status' = [status EXCEPT ![t] = "TERMINATED"]
      /\ status \in [Tuns -> Statuses]
  BY <1>2 DEF TermSet, At, IInv, TypeOK
<1>4. TypeOK'
  BY <1>2, <1>3 DEF IInv, TypeOK, Statuses
<1>5. NewUntouched'
  BY <1>2, <1>3 DEF IInv, NewUntouched, Untouched
<1>6. TerminatorReleases'
  BY <1>1, <1>2, <1>3 DEF IInv, TerminatorReleases, CallAt
<1>7. EndReleases'
  BY <1>1, <1>2, <1>3 DEF IInv, EndReleases, CallAt
<1>8. GoneReleased'
  BY <1>2, <1>3 DEF IInv, GoneReleased
<1>9. ReleasesCounted'
  <2>1. \A u \in Tuns : Releasers(u)' = Releasers(u)
    BY <1>2, <1>3 DEF Releasers
  <2> QED BY <2>1, <1>3 DEF IInv, ReleasesCounted
<1>10. InstancesCounted'
  BY <1>3 DEF IInv, InstancesCounted, Inited
<1>11. AnnouncedFirst'
  <2>1. ASSUME NEW u \in Tuns, NEW ks, Announced(u, ks)
        PROVE  Announced(u, ks)'
    BY <2>1, <1>3 DEF Announced
  <2>2. \A i \in DOMAIN posted : posted[i].tun \in Tuns
    BY PostedTyped DEF IInv
  <2> QED BY <2>1, <2>2, <1>3 DEF IInv, AnnouncedFirst
<1> QED BY <1>4, <1>5, <1>6, <1>7, <1>8, <1>9, <1>10, <1>11 DEF IInv

\* intlRemoveTunnel succeeds, ends the process, or ends the call of charon.
LEMMA TermRemoveKeeps ==
    ASSUME IInv, NEW c \in Callers, TermRemove(c)
    PROVE  IInv'
<1>1. /\ UNCHANGED <<current, router, status, ctx, refs, thr, held, posted,
                     service, instances, reports>>
      /\ term[c].pc = "remove" /\ c \in Callers
      /\ term \in [Callers -> [tun : Tuns, pc : TermPcs] \cup {Idle}]
  BY DEF TermRemove, At, IInv, TypeOK
<1>2. PICK t \in Tuns : t = term[c].tun
  BY <1>1 DEF Idle
<1>3. InstancesCounted' /\ AnnouncedFirst'
  BY <1>1 DEF IInv, InstancesCounted, Inited, AnnouncedFirst, Announced
<1>4. CASE router
  <2>1. /\ term' = [term EXCEPT ![c] = [tun |-> t, pc |-> "deinit"]]
        /\ term' \in [Callers -> [tun : Tuns, pc : TermPcs] \cup {Idle}]
        /\ UNCHANGED <<aborted, crashed>>
    BY <1>1, <1>2, <1>4, GotoFacts DEF IInv, TermRemove, TermPcs
  <2>2. TypeOK'
    BY <1>1, <2>1 DEF IInv, TypeOK
  <2>3. NewUntouched'
    BY <1>1, <1>2, <2>1 DEF IInv, NewUntouched, Untouched
  <2>4. TerminatorReleases' /\ EndReleases'
    <3>1. \A u \in Tuns :
            /\ CallAt(u, {"remove", "deinit", "clear"}) =>
                 CallAt(u, {"remove", "deinit", "clear"})'
            /\ CallAt(u, {"check", "set", "remove", "deinit", "clear"}) =>
                 CallAt(u, {"check", "set", "remove", "deinit", "clear"})'
      BY <1>1, <1>2, <2>1 DEF CallAt
    <3> QED BY <3>1, <1>1, <2>1 DEF IInv, TerminatorReleases, EndReleases
  <2>5. GoneReleased'
    BY <1>1, <2>1 DEF IInv, GoneReleased
  <2>6. ReleasesCounted'
    <3>1. \A u \in Tuns : Releasers(u)' = Releasers(u)
      BY <1>1, <2>1 DEF Releasers
    <3> QED BY <3>1, <1>1 DEF IInv, ReleasesCounted
  <2> QED BY <1>3, <2>2, <2>3, <2>4, <2>5, <2>6 DEF IInv
<1>5. CASE ~router /\ c = "charon"
  <2>1. /\ term' = [term EXCEPT ![c] = Idle]
        /\ aborted' = aborted \cup {t} /\ crashed' = crashed
    BY <1>2, <1>5 DEF TermRemove
  <2>2. TypeOK'
    BY <1>1, <2>1 DEF IInv, TypeOK
  <2>3. NewUntouched'
    BY <1>1, <2>1, NullIsNoTunnel DEF IInv, NewUntouched, Untouched, Idle
  <2>4. TerminatorReleases' /\ EndReleases'
    <3>1. \A u \in Tuns \ {t} :
            /\ CallAt(u, {"remove", "deinit", "clear"}) =>
                 CallAt(u, {"remove", "deinit", "clear"})'
            /\ CallAt(u, {"check", "set", "remove", "deinit", "clear"}) =>
                 CallAt(u, {"check", "set", "remove", "deinit", "clear"})'
      BY <1>1, <1>2, <2>1 DEF CallAt
    <3> QED BY <3>1, <1>1, <2>1 DEF IInv, TerminatorReleases, EndReleases
  <2>5. GoneReleased'
    BY <1>1, <2>1 DEF IInv, GoneReleased, Idle
  <2>6. ReleasesCounted'
    <3>1. \A u \in Tuns : Releasers(u)' = Releasers(u)
      BY <1>1, <2>1 DEF Releasers, Idle
    <3> QED BY <3>1, <1>1 DEF IInv, ReleasesCounted
  <2> QED BY <1>3, <2>2, <2>3, <2>4, <2>5, <2>6 DEF IInv
<1>6. CASE ~router /\ c # "charon"
  <2>1. crashed' = TRUE /\ UNCHANGED <<term, aborted>>
    BY <1>6 DEF TermRemove
  <2> QED BY <1>1, <1>3, <2>1
          DEF IInv, TypeOK, NewUntouched, Untouched, TerminatorReleases,
              EndReleases, CallAt, GoneReleased, ReleasesCounted, Releasers
<1> QED BY <1>4, <1>5, <1>6

\* deinitIpSecTun gives the reference back.
LEMMA TermDeinitKeeps ==
    ASSUME IInv, NEW c \in Callers, TermDeinit(c)
    PROVE  IInv'
<1>1. PICK t \in Tuns :
        /\ t = term[c].tun
        /\ term' = [term EXCEPT ![c] = [tun |-> t, pc |-> "clear"]]
        /\ term' \in [Callers -> [tun : Tuns, pc : TermPcs] \cup {Idle}]
  BY GotoFacts DEF IInv, TermDeinit, At, TermPcs
<1>2. /\ UNCHANGED <<current, status, ctx, thr, held, posted, service,
                     instances, reports, router, aborted>>
      /\ term[c].pc = "deinit" /\ term \in [Callers -> [tun : Tuns, pc : TermPcs] \cup {Idle}]
      /\ refs' = [refs EXCEPT ![t] = IF ctx[t] THEN refs[t] - 1 ELSE refs[t]]
      /\ refs \in [Tuns -> (1 - Cardinality(Callers))..1]
      /\ crashed' \in BOOLEAN
  BY <1>1 DEF TermDeinit, At, IInv, TypeOK
<1>3. /\ Releasers(t) \in SUBSET Callers /\ c \notin Releasers(t)
      /\ Releasers(t)' = Releasers(t) \cup {c}
      /\ \A u \in Tuns \ {t} : Releasers(u)' = Releasers(u)
  BY <1>1, <1>2 DEF Releasers
<1>4. /\ Cardinality(Releasers(t)') = Cardinality(Releasers(t)) + 1
      /\ Cardinality(Releasers(t)') <= Cardinality(Callers)
      /\ Cardinality(Releasers(t)) \in Nat /\ Cardinality(Callers) \in Nat
  BY <1>3, CallersCounted
<1>5. ctx[t] => 1 - refs'[t] <= Cardinality(Releasers(t)')
  BY <1>2, <1>4 DEF IInv, ReleasesCounted
<1>6. TypeOK'
  <2>1. refs' \in [Tuns -> (1 - Cardinality(Callers))..1]
    BY <1>2, <1>4, <1>5
  <2> QED BY <2>1, <1>1, <1>2 DEF IInv, TypeOK
<1>7. thr[t] # "none"
  BY <1>1 DEF IInv, NewUntouched, Untouched
<1>8. NewUntouched'
  BY <1>1, <1>2, <1>7 DEF IInv, NewUntouched, Untouched
<1>9. TerminatorReleases' /\ EndReleases'
  <2>1. \A u \in Tuns :
          /\ CallAt(u, {"remove", "deinit", "clear"}) => CallAt(u, {"remove", "deinit", "clear"})'
          /\ CallAt(u, {"check", "set", "remove", "deinit", "clear"}) =>
               CallAt(u, {"check", "set", "remove", "deinit", "clear"})'
    BY <1>1, <1>2 DEF CallAt
  <2> QED BY <2>1, <1>2 DEF IInv, TerminatorReleases, EndReleases
<1>10. GoneReleased'
  <2>1. refs'[t] <= 0 /\ \A u \in Tuns : refs[u] <= 0 => refs'[u] <= 0
    BY <1>2, <1>4 DEF IInv, GoneReleased
  <2> QED BY <2>1, <1>1, <1>2 DEF IInv, GoneReleased, Idle
<1>11. ReleasesCounted'
  BY <1>2, <1>3, <1>5 DEF IInv, ReleasesCounted
<1>12. InstancesCounted' /\ AnnouncedFirst'
  BY <1>2 DEF IInv, InstancesCounted, Inited, AnnouncedFirst, Announced
<1> QED BY <1>6, <1>8, <1>9, <1>10, <1>11, <1>12 DEF IInv

\* The context is forgotten after it was released.
LEMMA TermClearKeeps ==
    ASSUME IInv, NEW c \in Callers, TermClear(c)
    PROVE  IInv'
<1>1. PICK t \in Tuns :
        /\ t = term[c].tun
        /\ term' = [term EXCEPT ![c] = [tun |-> t, pc |-> "notify"]]
        /\ term' \in [Callers -> [tun : Tuns, pc : TermPcs] \cup {Idle}]
  BY GotoFacts DEF IInv, TermClear, At, TermPcs
<1>2. /\ UNCHANGED <<current, status, refs, thr, held, posted, service,
                     instances, reports, crashed, router, aborted>>
      /\ term[c].pc = "clear" /\ term \in [Callers -> [tun : Tuns, pc : TermPcs] \cup {Idle}]
      /\ ctx' = [ctx EXCEPT ![t] = FALSE]
      /\ ctx \in [Tuns -> BOOLEAN]
  BY <1>1 DEF TermClear, At, IInv, TypeOK
<1>3. TypeOK'
  BY <1>1, <1>2 DEF IInv, TypeOK
<1>4. NewUntouched'
  BY <1>1, <1>2 DEF IInv, NewUntouched, Untouched
<1>5. TerminatorReleases' /\ EndReleases'
  <2>1. \A u \in Tuns \ {t} :
          /\ CallAt(u, {"remove", "deinit", "clear"}) => CallAt(u, {"remove", "deinit", "clear"})'
          /\ CallAt(u, {"check", "set", "remove", "deinit", "clear"}) =>
               CallAt(u, {"check", "set", "remove", "deinit", "clear"})'
    BY <1>1, <1>2 DEF CallAt
  <2>2. ~ctx'[t] /\ \A u \in Tuns \ {t} : ctx'[u] = ctx[u]
    BY <1>2
  <2> QED BY <2>1, <2>2, <1>2 DEF IInv, TerminatorReleases, EndReleases
<1>6. GoneReleased'
  <2>1. refs[t] <= 0
    BY <1>1, <1>2 DEF IInv, GoneReleased
  <2> QED BY <2>1, <1>1, <1>2 DEF IInv, GoneReleased
<1>7. ReleasesCounted'
  <2>1. \A u \in Tuns \ {t} : Releasers(u)' = Releasers(u)
    BY <1>1, <1>2 DEF Releasers
  <2>2. ~ctx'[t] /\ \A u \in Tuns \ {t} : ctx'[u] = ctx[u]
    BY <1>2
  <2> QED BY <2>1, <2>2, <1>2 DEF IInv, ReleasesCounted
<1>8. InstancesCounted' /\ AnnouncedFirst'
  BY <1>2 DEF IInv, InstancesCounted, Inited, AnnouncedFirst, Announced
<1> QED BY <1>3, <1>4, <1>5, <1>6, <1>7, <1>8 DEF IInv

\* notifyAll ends the call and wakes the thread.
LEMMA TermNotifyKeeps ==
    ASSUME IInv, NEW c \in Callers, TermNotify(c)
    PROVE  IInv'
<1>1. term[c].pc = "notify" /\ term \in [Callers -> [tun : Tuns, pc : TermPcs] \cup {Idle}]
  BY DEF TermNotify, At, IInv, TypeOK
<1>2. PICK t \in Tuns : t = term[c].tun
  BY <1>1 DEF Idle
<1>3. /\ UNCHANGED <<current, status, ctx, refs, held, posted, service,
                     instances, reports, crashed, router, aborted>>
      /\ term' = [term EXCEPT ![c] = Idle]
      /\ thr' = [thr EXCEPT ![t] = IF thr[t] = "waiting" THEN "check" ELSE thr[t]]
      /\ thr \in [Tuns -> ThreadPcs]
  BY <1>2 DEF TermNotify, IInv, TypeOK
<1>4. \A u \in Tuns : /\ thr'[u] \in {"none", "start", "failed", "end", "done"} =>
                           thr'[u] = thr[u]
                      /\ thr[u] \in {"none", "start"} => thr'[u] = thr[u]
                      /\ u \in Inited' <=> u \in Inited
  BY <1>3 DEF Inited
<1>5. TypeOK'
  BY <1>1, <1>3 DEF IInv, TypeOK, ThreadPcs
<1>6. NewUntouched'
  BY <1>1, <1>3, <1>4, NullIsNoTunnel DEF IInv, NewUntouched, Untouched, Idle
<1>7. TerminatorReleases' /\ EndReleases'
  <2>1. \A u \in Tuns :
          /\ CallAt(u, {"remove", "deinit", "clear"}) => CallAt(u, {"remove", "deinit", "clear"})'
          /\ CallAt(u, {"check", "set", "remove", "deinit", "clear"}) =>
               CallAt(u, {"check", "set", "remove", "deinit", "clear"})'
    BY <1>1, <1>3 DEF CallAt
  <2> QED BY <2>1, <1>3, <1>4 DEF IInv, TerminatorReleases, EndReleases
<1>8. GoneReleased'
  BY <1>1, <1>3, <1>4 DEF IInv, GoneReleased, Idle
<1>9. ReleasesCounted'
  <2>1. \A u \in Tuns : Releasers(u)' = Releasers(u)
    BY <1>1, <1>3 DEF Releasers, Idle
  <2> QED BY <2>1, <1>3 DEF IInv, ReleasesCounted
<1>10. InstancesCounted'
  <2>1. Inited' = Inited
    BY <1>4 DEF Inited
  <2> QED BY <2>1, <1>3 DEF IInv, InstancesCounted
<1>11. AnnouncedFirst'
  <2>1. service \in Tuns \cup {NULL}
    BY DEF IInv, TypeOK
  <2> QED BY <2>1, <1>3, <1>4 DEF IInv, AnnouncedFirst, Announced
<1> QED BY <1>5, <1>6, <1>7, <1>8, <1>9, <1>10, <1>11 DEF IInv
-----------------------------------------------------------------------------
(* The thread of a tunnel. *)

\* The thread posts CONNECTING before there is an instance of charon.
LEMMA ThreadStartKeeps ==
    ASSUME IInv, NEW t \in Tuns, ThreadStart(t)
    PROVE  IInv'
<1> DEFINE P == [tun : Tuns, status : {"CONNECTING", "CONNECTED"}]
           h == [tun |-> t, status |-> "CONNECTING"]
<1>1. PICK n \in Nat :
        /\ n = Len(posted)
        /\ DOMAIN posted = 1..n /\ DOMAIN posted' = 1..(n + 1)
        /\ \A i \in 1..n : posted'[i] = posted[i]
        /\ posted'[n + 1] = h /\ posted' \in Seq(P)
  <2>1. posted \in Seq(P) /\ posted' = Append(posted, h) /\ h \in P
    BY DEF IInv, TypeOK, ThreadStart
  <2> HIDE DEF P, h
  <2> QED BY <2>1
<1>2. /\ UNCHANGED <<current, status, ctx, refs, term, service, instances,
                     reports, crashed, router, aborted>>
      /\ thr[t] = "start" /\ thr' = [thr EXCEPT ![t] = "init"]
      /\ thr \in [Tuns -> ThreadPcs]
  BY DEF ThreadStart, AtThread, IInv, TypeOK
<1>3. TypeOK'
  <2>1. held' \in [Tuns -> BOOLEAN]
    BY DEF IInv, TypeOK, ThreadStart
  <2> QED BY <2>1, <1>1, <1>2 DEF IInv, TypeOK, ThreadPcs
<1>4. NewUntouched'
  <2>1. SUFFICES ASSUME NEW u \in Tuns, thr'[u] = "none" PROVE Untouched(u)'
    BY DEF NewUntouched
  <2>2. u # t /\ Untouched(u)
    BY <2>1, <1>2 DEF IInv, NewUntouched
  <2>3. \A i \in 1..(n + 1) : posted'[i].tun # u
    BY <2>2, <1>1 DEF Untouched
  <2> QED BY <2>2, <2>3, <1>1, <1>2 DEF Untouched
<1>5. TerminatorReleases'
  BY <1>2 DEF IInv, TerminatorReleases, CallAt
<1>6. EndReleases' /\ GoneReleased'
  <2>1. \A u \in Tuns : thr'[u] \in {"failed", "end", "done"} => thr'[u] = thr[u]
    BY <1>2
  <2>2. \A u \in Tuns : thr'[u] # "none" => thr[u] # "none"
    BY <1>2
  <2> QED BY <2>1, <2>2, <1>2 DEF IInv, EndReleases, GoneReleased, CallAt
<1>7. ReleasesCounted'
  BY <1>2 DEF IInv, ReleasesCounted, Releasers
<1>8. InstancesCounted'
  <2>1. Inited' = Inited
    BY <1>2 DEF Inited
  <2> QED BY <2>1, <1>2 DEF IInv, InstancesCounted
<1>9. AnnouncedFirst'
  <2>1. \A u \in Tuns : thr'[u] \notin {"none", "start"} =>
          Announced(u, DOMAIN posted)'
    <3>1. Announced(t, DOMAIN posted)'
      BY <1>1 DEF Announced
    <3>2. ASSUME NEW u \in Tuns \ {t}, thr'[u] \notin {"none", "start"}
          PROVE  Announced(u, DOMAIN posted)'
      <4>1. Announced(u, 1..n)
        BY <3>2, <1>1, <1>2 DEF IInv, AnnouncedFirst
      <4> QED BY <4>1, <1>1, <1>2 DEF Announced
    <3> QED BY <3>1, <3>2
  <2>2. \A i \in 1..(n + 1) :
          posted'[i].status = "CONNECTED" => Announced(posted[i].tun, 1..(i - 1))'
    <3>1. SUFFICES ASSUME NEW i \in 1..n, posted[i].status = "CONNECTED"
                   PROVE  Announced(posted[i].tun, 1..(i - 1))'
      BY <1>1
    <3>2. Announced(posted[i].tun, 1..(i - 1))
      BY <3>1, <1>1 DEF IInv, AnnouncedFirst
    <3>3. posted'[i] = posted[i] /\ \A j \in 1..(i - 1) : posted'[j] = posted[j]
      BY <1>1
    <3> QED BY <3>2, <3>3, <1>2 DEF Announced
  <2>3. service' # NULL => thr'[service'] \notin {"none", "start"}
    BY <1>2 DEF IInv, TypeOK, AnnouncedFirst
  <2> QED BY <2>1, <2>2, <2>3, <1>1 DEF AnnouncedFirst
<1> QED BY <1>3, <1>4, <1>5, <1>6, <1>7, <1>8, <1>9 DEF IInv

\* Once charon is being started, the steps of a tunnel's thread leave the
\* status, the contexts and what is posted alone, and the thread calls
\* terminateConnection before it is past its loop.
LEMMA ThreadMoves ==
    ASSUME IInv, NEW t \in Tuns, NEW p,
           thr[t] \notin {"none", "start"}, p \notin {"none", "start"},
           thr' = [thr EXCEPT ![t] = p],
           UNCHANGED <<current, status, ctx, refs, posted, router, aborted>>,
           service' \in {service, NULL, t},
           \/ /\ term' = term
              /\ p \in {"failed", "end", "done"} =>
                   thr[t] \in {"failed", "end", "done"}
           \/ term[t] = Idle /\ term' = [term EXCEPT ![t] = Call(t)]
    PROVE  /\ NewUntouched' /\ TerminatorReleases' /\ EndReleases'
           /\ GoneReleased' /\ ReleasesCounted' /\ AnnouncedFirst'
<1>1. /\ t \in Callers /\ thr \in [Tuns -> ThreadPcs]
      /\ term \in [Callers -> [tun : Tuns, pc : TermPcs] \cup {Idle}]
      /\ service \in Tuns \cup {NULL}
  BY DEF Callers, IInv, TypeOK
<1>2. /\ \A c \in Callers \ {t} : term'[c] = term[c]
      /\ term'[t] = term[t] \/ (term[t] = Idle /\ term'[t] = [tun |-> t, pc |-> "check"])
  BY <1>1 DEF Call
<1>3. \A u \in Tuns : /\ thr'[u] = "none" => thr[u] = "none" /\ u # t
                      /\ thr'[u] # "none" => thr[u] # "none"
                      /\ u # t => thr'[u] = thr[u]
  BY <1>1
<1>4. NewUntouched'
  BY <1>1, <1>2, <1>3, NullIsNoTunnel DEF IInv, NewUntouched, Untouched
<1>5. \A u \in Tuns :
        /\ CallAt(u, {"remove", "deinit", "clear"}) => CallAt(u, {"remove", "deinit", "clear"})'
        /\ CallAt(u, {"check", "set", "remove", "deinit", "clear"}) =>
             CallAt(u, {"check", "set", "remove", "deinit", "clear"})'
  BY <1>2 DEF CallAt, Idle
<1>6. TerminatorReleases'
  BY <1>5 DEF IInv, TerminatorReleases
<1>7. EndReleases'
  <2>1. SUFFICES ASSUME NEW u \in Tuns, thr'[u] \in {"failed", "end", "done"},
                        ctx[u], u \notin aborted
                 PROVE  CallAt(u, {"check", "set", "remove", "deinit", "clear"})'
    BY DEF EndReleases
  <2>2. CASE u = t /\ term' # term
    <3>1. term'[t] = [tun |-> t, pc |-> "check"]
      BY <2>2, <1>1 DEF Call
    <3> QED BY <3>1, <2>2, <1>1 DEF CallAt
  <2>3. CASE u # t \/ term' = term
    <3>1. thr[u] \in {"failed", "end", "done"}
      BY <2>1, <2>3, <1>1 DEF Call, Idle
    <3> QED BY <3>1, <2>1, <1>5 DEF IInv, EndReleases
  <2> QED BY <2>2, <2>3
<1>8. GoneReleased'
  BY <1>1, <1>2, <1>3 DEF IInv, GoneReleased
<1>9. ReleasesCounted'
  <2>1. \A u \in Tuns : Releasers(u)' = Releasers(u)
    BY <1>2 DEF Releasers, Idle
  <2> QED BY <2>1 DEF IInv, ReleasesCounted
<1>10. AnnouncedFirst'
  BY <1>1, <1>3 DEF IInv, AnnouncedFirst, Announced
<1> QED BY <1>4, <1>6, <1>7, <1>8, <1>9, <1>10

\* The context is read; nothing else changes.
LEMMA LoadCtxKeeps ==
    ASSUME IInv, NEW t \in Tuns, LoadCtx(t)
    PROVE  IInv'
<1>1. PICK p \in {"loading", "nullctx"} : thr' = [thr EXCEPT ![t] = p]
  BY DEF LoadCtx
<1>2. /\ thr[t] = "init"
      /\ UNCHANGED <<current, router, status, ctx, refs, held, posted, term,
                     service, instances, reports, aborted, crashed>>
  BY DEF LoadCtx, AtThread
<1>3. TypeOK'
  BY <1>1, <1>2 DEF IInv, TypeOK, ThreadPcs
<1>4. InstancesCounted'
  <2>1. Inited' = Inited
    BY <1>1, <1>2 DEF IInv, TypeOK, Inited
  <2> QED BY <2>1, <1>2 DEF IInv, InstancesCounted
<1> QED BY <1>1, <1>2, <1>3, <1>4, ThreadMoves DEF IInv

\* charonservice_init sets the pointer and counts the instance.
LEMMA InitCharonKeeps ==
    ASSUME IInv, NEW t \in Tuns, InitCharon(t)
    PROVE  IInv'
<1>1. CASE crashed' = crashed
  <2>1. /\ thr[t] = "loading" /\ thr' = [thr EXCEPT ![t] = "initiate"]
        /\ service' = t /\ instances' = instances + 1
        /\ UNCHANGED <<current, status, ctx, refs, held, posted, term,
                       reports, crashed, router, aborted>>
    BY <1>1 DEF InitCharon, Initializing, AtThread
  <2>2. Inited \in SUBSET Tuns /\ t \notin Inited /\ Inited' = Inited \cup {t}
    BY <2>1 DEF IInv, TypeOK, Inited
  <2>3. /\ Cardinality(Inited') = Cardinality(Inited) + 1
        /\ Cardinality(Inited') <= Cardinality(Tuns)
        /\ Cardinality(Inited) \in Nat /\ Cardinality(Tuns) \in Nat
    <3>1. Inited' \in SUBSET Tuns
      BY <2>2
    <3> QED BY <2>2, <3>1, TunsCounted
  <2>4. InstancesCounted'
    BY <2>1, <2>3 DEF IInv, TypeOK, InstancesCounted
  <2>5. instances' \in 0..Cardinality(Tuns)
    BY <2>1, <2>3 DEF IInv, TypeOK, InstancesCounted
  <2>6. TypeOK'
    BY <2>1, <2>5 DEF IInv, TypeOK, ThreadPcs
  <2> QED BY <2>1, <2>4, <2>6, ThreadMoves DEF IInv
<1>2. CASE crashed' # crashed
  <2>1. /\ crashed' = TRUE
        /\ UNCHANGED <<current, status, ctx, refs, thr, held, posted, term,
                       service, instances, reports, router, aborted>>
    BY <1>2 DEF InitCharon
  <2>2. router' \in BOOLEAN /\ crashed' \in BOOLEAN
    BY <2>1 DEF IInv, TypeOK
  <2> QED BY <2>1, <2>2, FlagsChange
<1> QED BY <1>1, <1>2

\* A failed start goes on to terminateConnection.
LEMMA InitFailsKeeps ==
    ASSUME IInv, NEW t \in Tuns, InitFails(t)
    PROVE  IInv'
<1>1. /\ thr[t] \in {"loading", "nullctx"}
      /\ thr' = [thr EXCEPT ![t] = "failed"]
      /\ term[t] = Idle /\ term' = [term EXCEPT ![t] = Call(t)]
      /\ service' \in {service, NULL}
      /\ UNCHANGED <<current, status, ctx, refs, held, posted, instances,
                     reports, crashed, router, aborted>>
  BY DEF InitFails, Initializing, AtThread
<1>2. TypeOK'
  BY <1>1 DEF IInv, TypeOK, Call, Callers, TermPcs, ThreadPcs
<1>3. InstancesCounted'
  <2>1. Inited' = Inited
    BY <1>1 DEF IInv, TypeOK, Inited
  <2> QED BY <2>1, <1>1 DEF IInv, InstancesCounted
<1> QED BY <1>1, <1>2, <1>3, ThreadMoves DEF IInv

\* The threads that are past the start of charon may be one more.
LEMMA InitedGrows ==
    ASSUME IInv, NEW t \in Tuns, NEW p, thr' = [thr EXCEPT ![t] = p],
           t \in Inited => t \in Inited',
           instances' = instances, service' = service
    PROVE  InstancesCounted'
<1>1. Inited \in SUBSET Tuns /\ Inited' \in SUBSET Tuns /\ Inited \subseteq Inited'
  BY DEF IInv, TypeOK, Inited
<1>2. /\ Cardinality(Inited) <= Cardinality(Inited')
      /\ Cardinality(Inited) \in Nat /\ Cardinality(Inited') \in Nat
  BY <1>1, TunsCounted, FS_Subset
<1> QED BY <1>2 DEF IInv, TypeOK, InstancesCounted

\* The start that returns -1 is taken for a success.
LEMMA InitSeemsFineKeeps ==
    ASSUME IInv, NEW t \in Tuns, InitSeemsFine(t)
    PROVE  IInv'
<1>1. /\ thr[t] \in {"loading", "nullctx"}
      /\ thr' = [thr EXCEPT ![t] = "initiate"]
      /\ UNCHANGED <<current, status, ctx, refs, held, posted, term, service,
                     instances, reports, crashed, router, aborted>>
  BY DEF InitSeemsFine, Initializing, AtThread
<1>2. TypeOK'
  BY <1>1 DEF IInv, TypeOK, ThreadPcs
<1>3. InstancesCounted'
  BY <1>1, InitedGrows DEF Inited
<1> QED BY <1>1, <1>2, <1>3, ThreadMoves DEF IInv

\* run() returns after a failed start.
LEMMA FailedReturnKeeps ==
    ASSUME IInv, NEW t \in Tuns, FailedReturn(t)
    PROVE  IInv'
<1>1. /\ thr[t] = "failed" /\ thr' = [thr EXCEPT ![t] = "done"]
      /\ held' = [held EXCEPT ![t] = FALSE]
      /\ UNCHANGED <<current, status, ctx, refs, posted, term, service,
                     instances, reports, crashed, router, aborted>>
  BY DEF FailedReturn, AtThread
<1>2. TypeOK'
  BY <1>1 DEF IInv, TypeOK, ThreadPcs
<1>3. InstancesCounted'
  BY <1>1, InitedGrows DEF Inited
<1> QED BY <1>1, <1>2, <1>3, ThreadMoves DEF IInv

\* initiate needs an instance.
LEMMA InitiateKeeps ==
    ASSUME IInv, NEW t \in Tuns, Initiate(t)
    PROVE  IInv'
<1>1. PICK p \in {"initiate", "check"} : thr' = [thr EXCEPT ![t] = p]
  BY DEF Initiate, AtThread
<1>2. /\ thr[t] = "initiate" /\ crashed' \in BOOLEAN
      /\ UNCHANGED <<current, status, ctx, refs, held, posted, term, service,
                     instances, reports, router, aborted>>
  BY DEF Initiate, AtThread
<1>3. TypeOK'
  BY <1>1, <1>2 DEF IInv, TypeOK, ThreadPcs
<1>4. InstancesCounted'
  <2>1. t \in Inited'
    BY <1>1 DEF IInv, TypeOK, Inited
  <2> QED BY <1>1, <1>2, <2>1, InitedGrows
<1> QED BY <1>1, <1>2, <1>3, <1>4, ThreadMoves DEF IInv

\* The thread leaves its loop when the tunnel is TERMINATED, through terminateConnection.
LEMMA CheckWaitKeeps ==
    ASSUME IInv, NEW t \in Tuns, CheckWait(t)
    PROVE  IInv'
<1>1. /\ thr[t] = "check" /\ term[t] = Idle
      /\ held' = [held EXCEPT ![t] = FALSE]
      /\ UNCHANGED <<current, status, ctx, refs, posted, service, instances,
                     reports, crashed, router, aborted>>
  BY DEF CheckWait, AtThread
<1>2. PICK p \in {"waiting", "end"} :
        /\ thr' = [thr EXCEPT ![t] = p]
        /\ \/ p = "waiting" /\ term' = term
           \/ term' = [term EXCEPT ![t] = Call(t)]
  BY DEF CheckWait
<1>3. TypeOK'
  <2>1. term' \in [Callers -> [tun : Tuns, pc : TermPcs] \cup {Idle}]
    <3>1. /\ term \in [Callers -> [tun : Tuns, pc : TermPcs] \cup {Idle}]
          /\ Call(t) \in [tun : Tuns, pc : TermPcs] /\ t \in Callers
      BY DEF IInv, TypeOK, Call, Callers, TermPcs
    <3> QED BY <3>1, <1>2
  <2> QED BY <1>1, <1>2, <2>1 DEF IInv, TypeOK, ThreadPcs
<1>4. InstancesCounted'
  <2>1. t \in Inited'
    BY <1>2 DEF IInv, TypeOK, Inited
  <2> QED BY <1>1, <1>2, <2>1, InitedGrows
<1> QED BY <1>1, <1>2, <1>3, <1>4, ThreadMoves DEF IInv

\* deinitializeCharon frees the instance the pointer names, and run() ends.
LEMMA DeinitCharonKeeps ==
    ASSUME IInv, NEW t \in Tuns, DeinitCharon(t)
    PROVE  IInv'
<1>1. CASE service = NULL
  <2>1. /\ crashed' = TRUE
        /\ UNCHANGED <<current, status, ctx, refs, thr, held, posted, term,
                       service, instances, reports, router, aborted>>
    BY <1>1 DEF DeinitCharon
  <2>2. router' \in BOOLEAN /\ crashed' \in BOOLEAN
    BY <2>1 DEF IInv, TypeOK
  <2> QED BY <2>1, <2>2, FlagsChange
<1>2. CASE service # NULL
  <2>1. /\ thr[t] = "end" /\ thr' = [thr EXCEPT ![t] = "done"]
        /\ service' = NULL /\ instances' = instances - 1
        /\ UNCHANGED <<current, status, ctx, refs, held, posted, term,
                       reports, crashed, router, aborted>>
    BY <1>2 DEF DeinitCharon, AtThread
  <2>2. instances \in 1..Cardinality(Tuns) /\ Cardinality(Tuns) \in Nat
    BY <1>2, TunsCounted DEF IInv, TypeOK, InstancesCounted
  <2>3. TypeOK'
    BY <2>1, <2>2 DEF IInv, TypeOK, ThreadPcs
  <2>4. InstancesCounted'
    <3>1. Inited' = Inited
      BY <2>1 DEF IInv, TypeOK, Inited
    <3>2. Inited \in SUBSET Tuns
      BY DEF Inited
    <3> QED BY <3>1, <3>2, <2>1, <2>2, TunsCounted DEF IInv, InstancesCounted
  <2> QED BY <2>1, <2>3, <2>4, ThreadMoves DEF IInv
<1> QED BY <1>1, <1>2
-----------------------------------------------------------------------------
(* Charon's threads. *)

\* charon posts CONNECTED to the tunnel of the instance.
LEMMA CharonUpKeeps ==
    ASSUME IInv, CharonUp
    PROVE  IInv'
<1>1. /\ UNCHANGED <<current, status, ctx, refs, thr, held, term, service,
                     instances, router, aborted>>
      /\ crashed' \in BOOLEAN /\ reports' \in 0..MaxReports
  BY ReportsBounded DEF CharonUp, CharonCalls, IInv, TypeOK
<1>2. /\ TerminatorReleases' /\ EndReleases' /\ GoneReleased'
      /\ ReleasesCounted' /\ InstancesCounted'
  BY <1>1 DEF IInv, TerminatorReleases, EndReleases, CallAt, GoneReleased,
              ReleasesCounted, Releasers, InstancesCounted, Inited
<1>3. CASE service = NULL
  <2>1. posted' = posted
    BY <1>3 DEF CharonUp
  <2> QED BY <2>1, <1>1, <1>2
          DEF IInv, TypeOK, NewUntouched, Untouched, AnnouncedFirst, Announced
<1>4. CASE service # NULL
  <2> DEFINE P == [tun : Tuns, status : {"CONNECTING", "CONNECTED"}]
  <2>1. PICK t \in Tuns : t = service
    BY <1>4 DEF IInv, TypeOK
  <2> DEFINE h == [tun |-> t, status |-> "CONNECTED"]
  <2>2. PICK n \in Nat :
          /\ n = Len(posted)
          /\ DOMAIN posted = 1..n /\ DOMAIN posted' = 1..(n + 1)
          /\ \A i \in 1..n : posted'[i] = posted[i]
          /\ posted'[n + 1] = h /\ posted' \in Seq(P)
    <3>1. posted \in Seq(P) /\ posted' = Append(posted, h) /\ h \in P
      BY <1>4, <2>1 DEF IInv, TypeOK, CharonUp
    <3> HIDE DEF P, h
    <3> QED BY <3>1
  <2>3. TypeOK'
    BY <2>2, <1>1 DEF IInv, TypeOK
  <2>4. thr[t] \notin {"none", "start"}
    BY <1>4, <2>1 DEF IInv, AnnouncedFirst
  <2>5. NewUntouched'
    <3>1. SUFFICES ASSUME NEW u \in Tuns, thr[u] = "none" PROVE Untouched(u)'
      BY <1>1 DEF NewUntouched
    <3>2. u # t /\ Untouched(u)
      BY <3>1, <2>4 DEF IInv, NewUntouched
    <3>3. \A i \in 1..(n + 1) : posted'[i].tun # u
      BY <3>2, <2>2 DEF Untouched
    <3> QED BY <3>2, <3>3, <2>2, <1>1 DEF Untouched
  <2>6. AnnouncedFirst'
    <3>1. ASSUME NEW u \in Tuns, thr[u] \notin {"none", "start"}
          PROVE  Announced(u, 1..n)' /\ Announced(u, DOMAIN posted)'
      <4>1. Announced(u, 1..n)
        BY <3>1, <2>2 DEF IInv, AnnouncedFirst
      <4> QED BY <4>1, <2>2, <1>1 DEF Announced
    <3>2. ASSUME NEW i \in 1..n, posted[i].status = "CONNECTED"
          PROVE  Announced(posted[i].tun, 1..(i - 1))'
      <4>1. Announced(posted[i].tun, 1..(i - 1))
        BY <3>2, <2>2 DEF IInv, AnnouncedFirst
      <4> QED BY <4>1, <2>2, <1>1 DEF Announced
    <3>3. (n + 1) - 1 = n /\ posted'[n + 1].tun = t
      BY <2>2
    <3>4. Announced(posted[n + 1].tun, 1..((n + 1) - 1))'
      BY <3>1, <3>3, <2>4 DEF Announced
    <3>5. \A i \in 1..(n + 1) : posted'[i].status = "CONNECTED" =>
            Announced(posted[i].tun, 1..(i - 1))'
      BY <3>2, <3>4, <2>2
    <3> QED BY <3>1, <3>5, <2>1, <2>2, <2>4, <1>1 DEF AnnouncedFirst
  <2> QED BY <2>3, <2>5, <2>6, <1>2 DEF IInv
<1> QED BY <1>3, <1>4

\* charon calls terminateConnection on the tunnel of the instance.
LEMMA CharonErrorKeeps ==
    ASSUME IInv, CharonError
    PROVE  IInv'
<1>1. /\ UNCHANGED <<current, status, ctx, refs, thr, held, posted, service,
                     instances, router, aborted>>
      /\ crashed' \in BOOLEAN /\ reports' \in 0..MaxReports
      /\ term["charon"] = Idle /\ "charon" \in Callers
      /\ term \in [Callers -> [tun : Tuns, pc : TermPcs] \cup {Idle}]
  BY ReportsBounded DEF CharonError, CharonCalls, IInv, TypeOK, Callers
<1>2. InstancesCounted' /\ AnnouncedFirst'
  BY <1>1 DEF IInv, InstancesCounted, Inited, AnnouncedFirst, Announced
<1>3. CASE term' = term
  <2>1. TypeOK'
    BY <1>1, <1>3 DEF IInv, TypeOK
  <2>2. NewUntouched'
    BY <1>1, <1>3 DEF IInv, NewUntouched, Untouched
  <2>3. TerminatorReleases' /\ EndReleases'
    BY <1>1, <1>3 DEF IInv, TerminatorReleases, EndReleases, CallAt
  <2>4. GoneReleased' /\ ReleasesCounted'
    BY <1>1, <1>3 DEF IInv, GoneReleased, ReleasesCounted, Releasers
  <2> QED BY <1>2, <2>1, <2>2, <2>3, <2>4 DEF IInv
<1>4. CASE service # NULL /\ term' = [term EXCEPT !["charon"] = Call(service)]
  <2>1. PICK t \in Tuns : t = service
    BY <1>4 DEF IInv, TypeOK
  <2>2. term' = [term EXCEPT !["charon"] = [tun |-> t, pc |-> "check"]]
    BY <1>4, <2>1 DEF Call
  <2>3. thr[t] \notin {"none", "start"}
    BY <1>4, <2>1 DEF IInv, AnnouncedFirst
  <2>4. TypeOK'
    BY <1>1, <2>2 DEF IInv, TypeOK, TermPcs
  <2>5. NewUntouched'
    BY <1>1, <2>2, <2>3 DEF IInv, NewUntouched, Untouched
  <2>6. TerminatorReleases' /\ EndReleases'
    <3>1. \A u \in Tuns :
            /\ CallAt(u, {"remove", "deinit", "clear"}) => CallAt(u, {"remove", "deinit", "clear"})'
            /\ CallAt(u, {"check", "set", "remove", "deinit", "clear"}) =>
                 CallAt(u, {"check", "set", "remove", "deinit", "clear"})'
      BY <1>1, <2>2 DEF CallAt, Idle
    <3> QED BY <3>1, <1>1 DEF IInv, TerminatorReleases, EndReleases
  <2>7. GoneReleased'
    BY <1>1, <2>2 DEF IInv, GoneReleased
  <2>8. ReleasesCounted'
    <3>1. \A u \in Tuns : Releasers(u)' = Releasers(u)
      BY <1>1, <2>2 DEF Releasers, Idle
    <3> QED BY <3>1, <1>1 DEF IInv, ReleasesCounted
  <2> QED BY <1>2, <2>4, <2>5, <2>6, <2>7, <2>8 DEF IInv
<1> QED BY <1>3, <1>4 DEF CharonError
-----------------------------------------------------------------------------
(* The theorems. *)

\* Nothing is established at first, so that every part of the invariant
\* holds of the initial state.
LEMMA InitEstablishes == Init => IInv
<1> SUFFICES ASSUME Init PROVE IInv
  OBVIOUS
<1>1. TypeOK
  <2>1. /\ 0 \in (1 - Cardinality(Callers))..1
        /\ 0 \in 0..Cardinality(Tuns) /\ 0 \in 0..MaxReports
    <3>1. Tuns \in SUBSET Tuns
      OBVIOUS
    <3> QED BY <3>1, SomeCaller, TunsCounted, ReportsBounded
  <2>2. posted \in Seq([tun : Tuns, status : {"CONNECTING", "CONNECTED"}])
    BY DEF Init
  <2>3. /\ term \in [Callers -> [tun : Tuns, pc : TermPcs] \cup {Idle}]
        /\ current \in Tuns \cup {NULL} /\ service \in Tuns \cup {NULL}
    BY DEF Init
  <2>4. /\ status \in [Tuns -> Statuses] /\ thr \in [Tuns -> ThreadPcs]
        /\ ctx \in [Tuns -> BOOLEAN] /\ held \in [Tuns -> BOOLEAN]
        /\ refs \in [Tuns -> (1 - Cardinality(Callers))..1]
    BY <2>1 DEF Init, Statuses, ThreadPcs
  <2> QED BY <2>1, <2>2, <2>3, <2>4 DEF Init, TypeOK
<1>2. NewUntouched
  BY NullIsNoTunnel DEF Init, NewUntouched, Untouched, Idle
<1>3. TerminatorReleases /\ EndReleases /\ GoneReleased
  BY DEF Init, TerminatorReleases, EndReleases, GoneReleased, Idle
<1>4. ReleasesCounted
  BY DEF Init, ReleasesCounted
<1>5. InstancesCounted
  <2>1. Inited \in SUBSET Tuns
    BY DEF Inited
  <2> QED BY <2>1, TunsCounted DEF Init, InstancesCounted
<1>6. AnnouncedFirst
  BY DEF Init, AnnouncedFirst
<1> QED BY <1>1, <1>2, <1>3, <1>4, <1>5, <1>6 DEF IInv

\* No step of the main thread, of a tunnel's thread, of charon or inside
\* terminateConnection breaks the inductive invariant.
LEMMA NextKeeps == IInv /\ [Next]_vars => IInv'
<1> SUFFICES ASSUME IInv, [Next]_vars PROVE IInv'
  OBVIOUS
<1>1. CASE UNCHANGED vars
  <2>1. router' \in BOOLEAN /\ crashed' \in BOOLEAN
    BY <1>1 DEF vars, IInv, TypeOK
  <2> QED BY <1>1, <2>1, FlagsChange DEF vars
<1>2. ASSUME NEW c \in Callers, TermStep(c) PROVE IInv'
  BY <1>2, TermCheckKeeps, TermSetKeeps, TermRemoveKeeps, TermDeinitKeeps,
     TermClearKeeps, TermNotifyKeeps DEF TermStep
<1>3. ASSUME NEW t \in Tuns, ThreadStep(t) PROVE IInv'
  BY <1>3, ThreadStartKeeps, LoadCtxKeeps, InitCharonKeeps,
     InitFailsKeeps, InitSeemsFineKeeps, FailedReturnKeeps, InitiateKeeps, CheckWaitKeeps,
     DeinitCharonKeeps DEF ThreadStep
<1> QED BY <1>1, <1>2, <1>3, RestartKeeps, ActivateKeeps, StopKeeps,
           CloseKeeps, RunPostedKeeps, CharonUpKeeps, CharonErrorKeeps DEF Next

\* The invariant holds in every reachable state.
LEMMA Invariance == Spec => []IInv
<1>1. IInv /\ [Next]_vars => IInv'
  BY NextKeeps
<1> QED BY InitEstablishes, <1>1, PTL DEF Spec

(***************************************************************************)
(* The fields of VpnTunnel, the positions of its threads and the counters  *)
(* have their types; a context is released at most once by every caller of *)
(* terminateConnection, and no more instances of charon exist than threads *)
(* that started one.                                                       *)
(***************************************************************************)
THEOREM TypeCorrect == Spec => []TypeOK
<1>1. IInv => TypeOK
  BY DEF IInv
<1> QED BY <1>1, Invariance, PTL

(***************************************************************************)
(* For any number of tunnels, a tunnel whose thread has ended leaves no    *)
(* native context behind once no terminateConnection for it is in          *)
(* progress, although its callers decide without a lock who releases it;   *)
(* only an exception in charon's call can leave it behind.                 *)
(***************************************************************************)
THEOREM ContextReleased == Spec => []EndedIsReleased
<1>1. IInv => EndedIsReleased
  BY DEF IInv, EndReleases, CallAt, GoneReleased, EndedIsReleased
<1> QED BY <1>1, Invariance, PTL

(***************************************************************************)
(* A tunnel is never shown as connected before it was shown as connecting, *)
(* whatever charon reports and however late the Handler runs.              *)
(***************************************************************************)
THEOREM ConnectingFirst == Spec => ConnectingComesFirst
<1> DEFINE A == \A t \in Tuns :
                  status[t] = "DISCONNECTED" => status'[t] # "CONNECTED"
<1>1. IInv /\ [Next]_vars => [A]_vars
  <2> SUFFICES ASSUME IInv, [Next]_vars, NEW t \in Tuns,
                      status[t] = "DISCONNECTED", status'[t] = "CONNECTED"
               PROVE  FALSE
    BY DEF vars
  <2>1. CASE RunPosted
    <3> DEFINE P == [tun : Tuns, status : {"CONNECTING", "CONNECTED"}]
    <3>1. PICK h \in P :
            1 \in DOMAIN posted /\ h = posted[1] /\ h = Head(posted)
      <4>1. posted \in Seq(P) /\ posted # <<>>
        BY <2>1 DEF IInv, TypeOK, RunPosted
      <4> HIDE DEF P
      <4> QED BY <4>1
    <3>2. status' = [status EXCEPT ![h.tun] = h.status]
      BY <2>1, <3>1 DEF RunPosted
    <3>3. h.tun = t /\ h.status = "CONNECTED"
      BY <3>1, <3>2 DEF IInv, TypeOK
    <3>4. Announced(t, 1..(1 - 1))
      BY <3>1, <3>3 DEF IInv, AnnouncedFirst
    <3> QED BY <3>4 DEF Announced
  <2>2. CASE \E c \in Callers : TermSet(c)
    <3>1. PICK c \in Callers :
            status' = [status EXCEPT ![term[c].tun] = "TERMINATED"]
      BY <2>2 DEF TermSet
    <3> QED BY <3>1 DEF IInv, TypeOK
  <2>3. CASE UNCHANGED status
    BY <2>3
  <2>4. \/ RunPosted \/ (\E c \in Callers : TermSet(c)) \/ UNCHANGED status
    BY DEF Next, vars, Restart, Activate, Stop, Close, TermStep, TermCheck,
       TermRemove, TermDeinit, TermClear, TermNotify, ThreadStep,
       ThreadStart, LoadCtx, InitCharon, InitFails,
       InitSeemsFine, FailedReturn, Initiate, CheckWait, DeinitCharon,
       CharonUp, CharonError
  <2> QED BY <2>1, <2>2, <2>3, <2>4
<1> QED BY <1>1, Invariance, PTL DEF Spec, ConnectingComesFirst
=============================================================================
