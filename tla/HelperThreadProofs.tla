------------------------- MODULE HelperThreadProofs -------------------------
(***************************************************************************)
(* Proofs about module HelperThread, for any requests and any number of    *)
(* interrupts.                                                             *)
(***************************************************************************)
EXTENDS HelperThread, Lemmas

\* A request is in the worker's hands only while it is performed: run() does
\* not take the next one over it.
OneInHand == data # NULL => worker = "perform"

IInv == TypeOK /\ OneInHand /\ InOrder

\* The asynchronous part of the queue
Waiting == Filter(mQueue, AsyncReqs)

-----------------------------------------------------------------------------

\* The asynchronous requests of a queue are a sequence of such requests.
LEMMA FilterTyped ==
    ASSUME NEW q \in Seq(Reqs)
    PROVE  Filter(q, AsyncReqs) \in Seq(AsyncReqs)
<1>1. PICK w : w = Filter(q, AsyncReqs)
  OBVIOUS
<1>2. w \in Seq(Reqs)
  BY <1>1, FilterFacts
<1>3. PICK h : Picks(h, w, q, AsyncReqs, Len(q))
  BY <1>1, FilterFacts
<1>4. \A i \in 1..Len(w) : w[i] \in AsyncReqs
  BY <1>3 DEF Picks
<1>5. w = [i \in 1..Len(w) |-> w[i]] /\ Len(w) \in Nat
  BY <1>2
<1>6. w \in Seq(AsyncReqs)
  BY <1>4, <1>5
<1> QED BY <1>1, <1>6

\* The four places of an asynchronous request are sequences of them.
LEMMA Typed ==
    ASSUME TypeOK
    PROVE  /\ called \in Seq(AsyncReqs) /\ PostedReqs \in Seq(AsyncReqs)
           /\ Held \in Seq(AsyncReqs) /\ Waiting \in Seq(AsyncReqs)
<1>1. called \in Seq(AsyncReqs)
  BY DEF TypeOK
<1>2. posts \in Seq(Posts)
  BY DEF TypeOK
<1>3. PostedReqs \in Seq(AsyncReqs)
  <2>1. \A i \in 1..Len(posts) : posts[i].req \in AsyncReqs
    <3>1. \A i \in 1..Len(posts) : posts[i] \in Posts
      BY <1>2
    <3> QED BY <3>1 DEF Posts
  <2>2. PostedReqs = [i \in 1..Len(posts) |-> posts[i].req]
    BY <1>2 DEF PostedReqs
  <2> QED BY <1>2, <2>1, <2>2
<1>4. Held \in Seq(AsyncReqs)
  BY DEF Held
<1>5. Waiting \in Seq(AsyncReqs)
  BY FilterTyped DEF TypeOK, Waiting
<1> QED BY <1>1, <1>3, <1>4, <1>5

\* Adding at the end of a concatenation
LEMMA ConcatAppend ==
    ASSUME NEW U, NEW s \in Seq(U), NEW t \in Seq(U), NEW x \in U
    PROVE  s \o Append(t, x) = Append(s \o t, x)
<1>1. s \o t \in Seq(U) /\ <<x>> \in Seq(U)
  OBVIOUS
<1>2. Append(s \o t, x) = (s \o t) \o <<x>> /\ Append(t, x) = t \o <<x>>
  BY <1>1, AppendIsConcat
<1>3. (s \o t) \o <<x>> = s \o (t \o <<x>>)
  BY <1>1, ConcatAssociative
<1> QED BY <1>2, <1>3

\* The worker starts with nothing queued, in hand or posted.
LEMMA InitInv == Init => IInv
<1> SUFFICES ASSUME Init PROVE IInv
  OBVIOUS
<1>1. TypeOK /\ OneInHand
  <2>1. /\ mQueue \in Seq(Reqs) /\ posts \in Seq(Posts)
        /\ called \in Seq(AsyncReqs) /\ order \in Seq(AsyncReqs)
    BY DEF Init
  <2>2. caller \in [Reqs -> {"new", "added", "waiting", "returned"}]
    BY DEF Init
  <2> QED BY <2>1, <2>2 DEF Init, TypeOK, OneInHand
<1>2. PostedReqs = <<>> /\ Held = <<>> /\ called = <<>> /\ order = <<>>
  BY ReqsAssumption DEF Init, PostedReqs, Held
<1>3. Filter(mQueue, AsyncReqs) = <<>>
  <2>1. mQueue = <<>> /\ Len(mQueue) = 0 /\ mQueue \in Seq(Reqs)
    BY DEF Init
  <2>2. PICK g : Walks(g, Reqs, mQueue, AsyncReqs) /\ Filter(mQueue, AsyncReqs) = g[0]
    BY <2>1, FilterWalk
  <2> QED BY <2>2 DEF Walks
<1>4. <<>> \o <<>> = <<>>
  OBVIOUS
<1> QED BY <1>1, <1>2, <1>3, <1>4 DEF IInv, InOrder

\* Every step keeps the types and has one request in hand at most.
LEMMA TypeStep == IInv /\ [Next]_vars => TypeOK' /\ OneInHand'
<1> SUFFICES ASSUME IInv, [Next]_vars PROVE TypeOK' /\ OneInHand'
  OBVIOUS
<1> USE DEF IInv, OneInHand
<1>1. CASE UNCHANGED vars
  BY <1>1 DEF vars, TypeOK
<1>2. ASSUME NEW r \in Reqs, RequestAsync(r) PROVE TypeOK' /\ OneInHand'
  BY <1>2 DEF RequestAsync, Notify, TypeOK
<1>3. ASSUME NEW r \in Reqs, RequestSync(r) PROVE TypeOK' /\ OneInHand'
  BY <1>3 DEF RequestSync, TypeOK
<1>4. ASSUME NEW r \in Reqs, SyncWait(r) PROVE TypeOK' /\ OneInHand'
  BY <1>4 DEF SyncWait, Notify, TypeOK
<1>5. ASSUME NEW r \in Reqs, SyncInterrupted(r) PROVE TypeOK' /\ OneInHand'
  BY <1>5 DEF SyncInterrupted, TypeOK
<1>6. CASE Interrupt
  <2>1. interrupted' \in BOOLEAN
    BY <1>6, Zenon DEF Interrupt, TypeOK
  <2>3. ninterrupts' \in Nat
    BY <1>6 DEF Interrupt, TypeOK
  <2>2. /\ worker' \in {"check", worker} /\ (worker' # worker => worker = "waiting")
        /\ UNCHANGED <<mQueue, data, caller, posts, called, order>>
    BY <1>6 DEF Interrupt
  <2> QED BY <2>1, <2>2, <2>3 DEF TypeOK
<1>7. CASE Check
  BY <1>7 DEF Check, TypeOK
<1>8. CASE Poll
  <2>1. mQueue \in Seq(Reqs) /\ worker = "poll"
    BY <1>8 DEF Poll, TypeOK
  <2>2. CASE mQueue = <<>>
    BY <1>8, <2>2 DEF Poll, TypeOK
  <2>3. CASE mQueue # <<>>
    <3>1. Head(mQueue) \in Reqs /\ Tail(mQueue) \in Seq(Reqs)
      BY <2>1, <2>3
    <3> QED BY <1>8, <2>3, <3>1 DEF Poll, TypeOK
  <2> QED BY <2>2, <2>3
<1>9. CASE Wait
  BY <1>9 DEF Wait, TypeOK
<1>10. CASE PerformAsync
  BY <1>10 DEF PerformAsync, TypeOK, Posts
<1>11. CASE PerformSync
  BY <1>11 DEF PerformSync, TypeOK
<1>12. CASE RunCallback
  <2>1. posts \in Seq(Posts) /\ posts # <<>>
    BY <1>12 DEF RunCallback, TypeOK
  <2>2. Head(posts) \in Posts /\ Tail(posts) \in Seq(Posts)
    BY <2>1
  <2>3. PICK x \in AsyncReqs : x = Head(posts).req
    BY <2>2 DEF Posts
  <2>4. called' \in Seq(AsyncReqs) /\ posts' \in Seq(Posts)
    BY <1>12, <2>2, <2>3 DEF RunCallback, TypeOK
  <2> QED BY <1>12, <2>4 DEF RunCallback, TypeOK
<1> QED
  BY <1>1, <1>2, <1>3, <1>4, <1>5, <1>6, <1>7, <1>8, <1>9, <1>10, <1>11, <1>12
  DEF Next, CallerNext, WorkerNext

\* The three steps that move an asynchronous request, and those that move
\* none.
LEMMA OrderAdded ==
    ASSUME IInv, NEW r \in Reqs, RequestAsync(r)
    PROVE  InOrder'
<1>1. TypeOK /\ InOrder /\ mQueue \in Seq(Reqs) /\ r \in AsyncReqs
  BY DEF IInv, TypeOK, RequestAsync
<1>2. PICK A \in Seq(AsyncReqs) : A = called \o PostedReqs \o Held
  <2>1. called \o PostedReqs \o Held \in Seq(AsyncReqs)
    BY <1>1, Typed
  <2> QED BY <2>1
<1>3. /\ called' = called /\ PostedReqs' = PostedReqs /\ Held' = Held
      /\ mQueue' = Append(mQueue, r) /\ order' = Append(order, r)
  BY DEF RequestAsync, PostedReqs, Held
<1>4. Filter(mQueue', AsyncReqs) = Append(Filter(mQueue, AsyncReqs), r)
  BY <1>1, <1>3, FilterAppend
<1>5. Filter(mQueue, AsyncReqs) \in Seq(AsyncReqs)
  BY <1>1, Typed DEF Waiting
<1>6. A \o Append(Filter(mQueue, AsyncReqs), r) =
        Append(A \o Filter(mQueue, AsyncReqs), r)
  BY <1>1, <1>5, ConcatAppend
<1> QED BY <1>1, <1>2, <1>3, <1>4, <1>6 DEF InOrder

\* Taking the head of mQueue moves a request from the queue into the hand.
LEMMA OrderPolled ==
    ASSUME IInv, Poll
    PROVE  InOrder'
<1>1. /\ TypeOK /\ InOrder /\ mQueue \in Seq(Reqs)
      /\ data = NULL /\ Held = <<>>
  BY ReqsAssumption DEF IInv, TypeOK, OneInHand, Poll, Held
<1>2. called' = called /\ PostedReqs' = PostedReqs /\ order' = order
  BY DEF Poll, PostedReqs
<1>3. CASE mQueue = <<>>
  <2>1. mQueue' = mQueue /\ Held' = Held
    BY <1>3 DEF Poll, Held
  <2> QED BY <1>1, <1>2, <2>1 DEF InOrder
<1>4. CASE mQueue # <<>>
  <2>1. mQueue' = Tail(mQueue) /\ data' = Head(mQueue)
    BY <1>4 DEF Poll
  <2>2. PICK h \in Seq(AsyncReqs) : h = Held'
    <3>1. Held' \in Seq(AsyncReqs)
      BY DEF Held
    <3> QED BY <3>1
  <2>3. h = IF Head(mQueue) \in AsyncReqs THEN <<Head(mQueue)>> ELSE <<>>
    BY <2>1, <2>2 DEF Held
  <2>4. Filter(mQueue, AsyncReqs) = h \o Filter(mQueue', AsyncReqs)
    BY <1>1, <1>4, <2>1, <2>3, FilterHead
  <2>5. PICK w \in Seq(AsyncReqs) : w = Filter(mQueue', AsyncReqs)
    <3>1. TypeOK'
      BY TypeStep DEF Next, WorkerNext
    <3>2. Waiting' \in Seq(AsyncReqs)
      <4>1. mQueue' \in Seq(Reqs)
        BY <3>1 DEF TypeOK
      <4> QED BY <4>1, FilterTyped DEF Waiting
    <3> QED BY <3>2 DEF Waiting
  <2>6. PICK A \in Seq(AsyncReqs) : A = called \o PostedReqs
    <3>1. called \o PostedReqs \in Seq(AsyncReqs)
      BY <1>1, Typed
    <3> QED BY <3>1
  <2>7. (A \o <<>>) \o (h \o w) = (A \o h) \o w
    <3>1. A \o <<>> = A
      BY ConcatEmptySeq
    <3>2. (A \o h) \o w = A \o (h \o w)
      <4>1. A \in Seq(AsyncReqs) /\ h \in Seq(AsyncReqs) /\ w \in Seq(AsyncReqs)
        BY <2>2
      <4> QED BY ONLY <4>1
    <3> QED BY <3>1, <3>2
  <2> QED BY <1>1, <1>2, <2>2, <2>4, <2>5, <2>6, <2>7 DEF InOrder
<1> QED BY <1>3, <1>4

\* Performing an asynchronous request moves it from the hand to the posted callbacks.
LEMMA OrderPerformed ==
    ASSUME IInv, PerformAsync
    PROVE  InOrder'
<1>1. /\ TypeOK /\ InOrder /\ posts \in Seq(Posts) /\ data \in AsyncReqs
      /\ Held = <<data>> /\ Held' = <<>>
      /\ called' = called /\ mQueue' = mQueue /\ order' = order
  BY ReqsAssumption DEF IInv, TypeOK, PerformAsync, Held
<1>2. PICK ok \in BOOLEAN : posts' = Append(posts, [req |-> data, ok |-> ok])
  BY DEF PerformAsync
<1>3. PostedReqs' = Append(PostedReqs, data)
  <2>1. PICK p \in Posts : p = [req |-> data, ok |-> ok] /\ p.req = data
    BY <1>1, <1>2 DEF Posts
  <2>2. PICK q \in Seq(Posts) : q = posts /\ posts' = Append(q, p)
    BY <1>1, <1>2, <2>1
  <2>3. PICK N \in Nat : N = Len(q)
    BY <2>2
  <2>4. /\ DOMAIN posts' = 1..N + 1 /\ posts'[N + 1] = p
        /\ \A i \in 1..N : posts'[i] = q[i]
    BY <2>2, <2>3
  <2>5. PICK B \in Seq(AsyncReqs) : B = PostedReqs
    BY <1>1, Typed
  <2>6. Len(B) = N /\ \A i \in 1..N : B[i] = q[i].req
    BY <2>2, <2>3, <2>5 DEF PostedReqs
  <2>7. PICK D : D = Append(B, data)
    OBVIOUS
  <2>8. /\ D \in Seq(AsyncReqs) /\ Len(D) = N + 1 /\ D[N + 1] = data
        /\ \A i \in 1..N : D[i] = B[i]
    BY <1>1, <2>6, <2>7
  <2>9. \A i \in 1..N + 1 : posts'[i].req = D[i]
    <3> TAKE i \in 1..N + 1
    <3>1. CASE i = N + 1
      BY <2>1, <2>4, <2>8, <3>1
    <3>2. CASE i # N + 1
      <4>1. i \in 1..N
        BY <3>2
      <4> QED BY <2>4, <2>6, <2>8, <4>1
    <3> QED BY <3>1, <3>2
  <2>10. PostedReqs' = [i \in 1..N + 1 |-> D[i]]
    BY <2>4, <2>9 DEF PostedReqs
  <2>11. D = [i \in 1..N + 1 |-> D[i]]
    BY <2>8
  <2> QED BY <2>5, <2>7, <2>10, <2>11
<1>4. PICK A \in Seq(AsyncReqs), B \in Seq(AsyncReqs) : A = called /\ B = PostedReqs
  BY <1>1, Typed
<1>5. (A \o B) \o <<data>> = (A \o Append(B, data)) \o <<>>
  <2>1. <<data>> \in Seq(AsyncReqs) /\ A \o Append(B, data) \in Seq(AsyncReqs)
    BY <1>1
  <2>2. (A \o B) \o <<data>> = A \o (B \o <<data>>)
    BY <2>1, ConcatAssociative
  <2>3. Append(B, data) = B \o <<data>>
    BY <1>1, AppendIsConcat
  <2>4. (A \o Append(B, data)) \o <<>> = A \o Append(B, data)
    BY <2>1, ConcatEmptySeq
  <2> QED BY <2>2, <2>3, <2>4
<1> QED BY <1>1, <1>3, <1>4, <1>5 DEF InOrder

\* Running a callback moves its request from the posted ones to the called ones.
LEMMA OrderCalled ==
    ASSUME IInv, RunCallback
    PROVE  InOrder'
<1>1. /\ TypeOK /\ InOrder /\ posts \in Seq(Posts) /\ posts # <<>>
      /\ posts' = Tail(posts) /\ called' = Append(called, Head(posts).req)
      /\ Held' = Held /\ mQueue' = mQueue /\ order' = order
  BY DEF IInv, TypeOK, RunCallback, Held
<1>2. PICK A \in Seq(AsyncReqs), B \in Seq(AsyncReqs) : A = called /\ B = PostedReqs
  BY <1>1, Typed
<1>3. Head(posts) \in Posts
  BY <1>1
<1>4. PICK x \in AsyncReqs : x = Head(posts).req
  BY <1>3 DEF Posts
<1>5. B = <<x>> \o PostedReqs' /\ PostedReqs' \in Seq(AsyncReqs)
  <2>1. PICK N \in Nat : N + 1 = Len(posts)
    <3>1. Len(posts) \in Nat /\ Len(posts) # 0
      BY <1>1
    <3>2. Len(posts) - 1 \in Nat /\ (Len(posts) - 1) + 1 = Len(posts)
      BY <3>1
    <3> QED BY <3>2
  <2>2. /\ Len(B) = N + 1 /\ \A i \in 1..N + 1 : B[i] = posts[i].req
        /\ B[1] = x
    BY <1>1, <1>2, <1>4, <2>1 DEF PostedReqs
  <2>3. DOMAIN posts' = 1..N /\ \A i \in 1..N : posts'[i] = posts[i + 1]
    BY <1>1, <2>1
  <2>4. \A i \in 1..N : posts'[i].req = B[i + 1] /\ B[i + 1] \in AsyncReqs
    BY <2>2, <2>3
  <2>5. PICK C : C = [i \in 1..N |-> B[i + 1]]
    OBVIOUS
  <2>6. PostedReqs' = C
    BY <2>3, <2>4, <2>5 DEF PostedReqs
  <2>7. C \in Seq(AsyncReqs) /\ Len(C) = N /\ \A i \in 1..N : C[i] = B[i + 1]
    <3>1. C \in [1..N -> AsyncReqs] /\ \A i \in 1..N : C[i] = B[i + 1]
      BY <2>4, <2>5
    <3>2. C \in Seq(AsyncReqs)
      BY <3>1
    <3>3. Len(C) = N
      BY <2>5
    <3> QED BY <3>1, <3>2, <3>3
  <2>8. PICK D : D = <<x>> \o C
    OBVIOUS
  <2>9. /\ D \in Seq(AsyncReqs) /\ Len(D) = N + 1 /\ D[1] = x
        /\ \A i \in 2..N + 1 : D[i] = C[i - 1]
    BY <2>7, <2>8
  <2>10. \A i \in 1..N + 1 : B[i] = D[i]
    <3> TAKE i \in 1..N + 1
    <3>1. CASE i = 1
      BY <2>2, <2>9, <3>1
    <3>2. CASE i # 1
      <4>1. i \in 2..N + 1 /\ i - 1 \in 1..N /\ (i - 1) + 1 = i
        BY <3>2
      <4> QED BY <2>7, <2>9, <4>1
    <3> QED BY <3>1, <3>2
  <2>11. B = D
    BY <2>2, <2>9, <2>10, SeqEqual
  <2> QED BY <2>6, <2>7, <2>8, <2>11
<1>6. A \o B = Append(A, x) \o PostedReqs'
  <2>1. PICK C \in Seq(AsyncReqs) : C = PostedReqs'
    BY <1>5
  <2>2. <<x>> \in Seq(AsyncReqs)
    OBVIOUS
  <2>3. A \o (<<x>> \o C) = (A \o <<x>>) \o C
    <3>1. PICK z \in Seq(AsyncReqs) : z = <<x>>
      BY <2>2
    <3>2. A \in Seq(AsyncReqs) /\ z \in Seq(AsyncReqs) /\ C \in Seq(AsyncReqs)
      OBVIOUS
    <3>3. (A \o z) \o C = A \o (z \o C)
      BY ONLY <3>2
    <3> QED BY <3>1, <3>3
  <2>4. Append(A, x) = A \o <<x>>
    BY AppendIsConcat
  <2> QED BY <1>5, <2>1, <2>3, <2>4
<1> QED BY <1>1, <1>2, <1>4, <1>6 DEF InOrder

\* Every step keeps the invariant.
LEMMA NextInv == IInv /\ [Next]_vars => IInv'
<1> SUFFICES ASSUME IInv, [Next]_vars PROVE InOrder'
  BY TypeStep DEF IInv
<1>1. CASE \E r \in Reqs : RequestAsync(r)
  BY <1>1, OrderAdded
<1>2. CASE \E r \in Reqs : RequestSync(r)
  <2>1. PICK r \in Reqs : RequestSync(r)
    BY <1>2
  <2>2. mQueue \in Seq(Reqs) /\ r \notin AsyncReqs /\ mQueue' = Append(mQueue, r)
    BY <2>1, ReqsAssumption DEF IInv, TypeOK, RequestSync
  <2>3. Filter(mQueue', AsyncReqs) = Filter(mQueue, AsyncReqs)
    BY <2>2, FilterAppend
  <2> QED BY <2>1, <2>3 DEF RequestSync, IInv, InOrder, PostedReqs, Held
<1>3. CASE \/ \E r \in Reqs : SyncWait(r) \/ SyncInterrupted(r)
           \/ Interrupt \/ Check \/ Wait \/ UNCHANGED vars
  BY <1>3 DEF SyncWait, SyncInterrupted, Interrupt, Check, Wait, vars, IInv,
              InOrder, PostedReqs, Held
<1>4. CASE Poll
  BY <1>4, OrderPolled
<1>5. CASE PerformAsync
  BY <1>5, OrderPerformed
<1>6. CASE PerformSync
  <2>1. Held' = Held
    BY <1>6, ReqsAssumption DEF PerformSync, Held
  <2> QED BY <1>6, <2>1 DEF PerformSync, IInv, InOrder, PostedReqs
<1>7. CASE RunCallback
  BY <1>7, OrderCalled
<1> QED
  BY <1>1, <1>2, <1>3, <1>4, <1>5, <1>6, <1>7 DEF Next, CallerNext, WorkerNext
-----------------------------------------------------------------------------

\* The variables keep their types.
THEOREM TypeCorrect == Spec => []TypeOK
<1>1. IInv => TypeOK
  BY DEF IInv
<1> QED BY <1>1, InitInv, NextInv, PTL DEF Spec

\* No request made with a callback is lost, doubled or overtaken on its way
\* through the queue, the worker and the main thread's handler.
THEOREM CallbacksInOrder == Spec => []InOrder
<1>1. IInv => InOrder
  BY DEF IInv
<1> QED BY <1>1, InitInv, NextInv, PTL DEF Spec
=============================================================================
