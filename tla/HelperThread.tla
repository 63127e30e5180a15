---------------------------- MODULE HelperThread ----------------------------
(***************************************************************************)
(* util/HelperThread.java: a worker thread that takes requests from a      *)
(* queue, performs them and posts their callbacks to the main thread.      *)
(* A request stands for the RequestData that carries it; the pool that     *)
(* recycles RequestData objects is left out.  Object.wait is taken to      *)
(* return only when it is notified or interrupted.                         *)
(***************************************************************************)
EXTENDS Integers, Sequences, SequencesExt, Filtering

CONSTANTS
    AsyncReqs,      \* requests made with a callback
    SyncReqs,       \* requests made without one
    NULL,
    MaxInterrupts   \* bound on Thread.interrupt

ASSUME ReqsAssumption ==
    AsyncReqs \cap SyncReqs = {} /\ NULL \notin AsyncReqs \cup SyncReqs
ASSUME InterruptsAssumption == MaxInterrupts \in Nat

Reqs == AsyncReqs \cup SyncReqs

VARIABLES
    mQueue,       \* requests not yet taken
    worker,       \* where run() is
    data,         \* the request run() holds, or NULL
    interrupted,  \* the interrupt flag of the worker
    ninterrupts,
    caller,       \* where the thread that makes each request is
    posts,        \* the callbacks posted to the main thread
    called,       \* the callbacks that have run, in order
    order         \* history: the asynchronous requests in the order of add

vars == <<mQueue, worker, data, interrupted, ninterrupts, caller, posts, called,
          order>>

Posts == [req : AsyncReqs, ok : BOOLEAN]

TypeOK ==
    /\ mQueue \in Seq(Reqs)
    /\ worker \in {"check", "poll", "lock", "waiting", "perform", "done"}
    /\ data \in Reqs \cup {NULL}
    /\ interrupted \in BOOLEAN /\ ninterrupts \in Nat
    /\ caller \in [Reqs -> {"new", "added", "waiting", "returned"}]
    /\ posts \in Seq(Posts)
    /\ called \in Seq(AsyncReqs) /\ order \in Seq(AsyncReqs)

Init ==
    /\ mQueue = <<>>
    /\ worker = "check" /\ data = NULL
    /\ interrupted = FALSE /\ ninterrupts = 0
    /\ caller = [r \in Reqs |-> "new"]
    /\ posts = <<>> /\ called = <<>> /\ order = <<>>
-----------------------------------------------------------------------------
(* Callers. *)

\* notify() on the thread object, on which only run() waits.
Notify == worker' = IF worker = "waiting" THEN "check" ELSE worker

\* request(request, performer, callback), which is synchronized.
RequestAsync(r) ==
    /\ r \in AsyncReqs /\ caller[r] = "new"
    /\ mQueue' = Append(mQueue, r)
    /\ order' = Append(order, r)
    /\ Notify
    /\ caller' = [caller EXCEPT ![r] = "returned"]
    /\ UNCHANGED <<data, interrupted, ninterrupts, posts, called>>

\* request(request, performer): the request is added without the lock ...
RequestSync(r) ==
    /\ r \in SyncReqs /\ caller[r] = "new"
    /\ mQueue' = Append(mQueue, r)
    /\ caller' = [caller EXCEPT ![r] = "added"]
    /\ UNCHANGED <<worker, data, interrupted, ninterrupts, posts, called, order>>

\* ... then the worker is notified and the caller waits on the request.
SyncWait(r) ==
    /\ caller[r] = "added"
    /\ Notify
    /\ caller' = [caller EXCEPT ![r] = "waiting"]
    /\ UNCHANGED <<mQueue, data, interrupted, ninterrupts, posts, called, order>>

\* An interrupted caller goes round the loop.
SyncInterrupted(r) ==
    /\ caller[r] = "waiting"
    /\ ninterrupts < MaxInterrupts
    /\ ninterrupts' = ninterrupts + 1
    /\ caller' = [caller EXCEPT ![r] = "added"]
    /\ UNCHANGED <<mQueue, worker, data, interrupted, posts, called, order>>

\* Thread.interrupt on the worker: a wait() is left with an exception, which
\* clears the flag and is dropped; otherwise the flag is set.
Interrupt ==
    /\ ninterrupts < MaxInterrupts
    /\ ninterrupts' = ninterrupts + 1
    /\ IF worker = "waiting"
       THEN worker' = "check" /\ UNCHANGED interrupted
       ELSE interrupted' = TRUE /\ UNCHANGED worker
    /\ UNCHANGED <<mQueue, data, caller, posts, called, order>>
-----------------------------------------------------------------------------
(* The worker. *)

\* while(!interrupted()), which also clears the flag.
Check ==
    /\ worker = "check"
    /\ worker' = IF interrupted THEN "done" ELSE "poll"
    /\ interrupted' = FALSE
    /\ UNCHANGED <<mQueue, data, ninterrupts, caller, posts, called, order>>

PollNewest ==
    /\ worker = "poll"
    /\ IF mQueue = <<>>
       THEN worker' = "lock" /\ UNCHANGED <<mQueue, data>>
       ELSE /\ worker' = "perform"
            /\ data' = Last(mQueue)
            /\ mQueue' = Front(mQueue)
    /\ UNCHANGED <<interrupted, ninterrupts, caller, posts, called, order>>
Poll ==
    /\ worker = "poll"
    /\ IF mQueue = <<>>
       THEN worker' = "lock" /\ UNCHANGED <<mQueue, data>>
       ELSE /\ worker' = "perform"
            /\ data' = Head(mQueue)
            /\ mQueue' = Tail(mQueue)
    /\ UNCHANGED <<interrupted, ninterrupts, caller, posts, called, order>>

\* The monitor is entered after the poll; the queue is not looked at again.
\* With the flag set wait() throws at once, which clears it.
Wait ==
    /\ worker = "lock"
    /\ worker' = IF interrupted THEN "check" ELSE "waiting"
    /\ interrupted' = FALSE
    /\ UNCHANGED <<mQueue, data, ninterrupts, caller, posts, called, order>>

\* A request made with a callback is performed; success, failure or exception
\* decides which of its callbacks is posted.
PerformAsyncSleeps ==
    /\ worker = "perform" /\ data \in AsyncReqs
    /\ \E ok \in BOOLEAN : posts' = Append(posts, [req |-> data, ok |-> ok])
    /\ data' = NULL /\ worker' = "lock"
    /\ UNCHANGED <<mQueue, interrupted, ninterrupts, caller, called, order>>
PerformAsyncCleared ==
    /\ worker = "perform" /\ data \in AsyncReqs
    /\ \E ok \in BOOLEAN : posts' = Append(posts, [req |-> NULL, ok |-> ok])
    /\ data' = NULL /\ worker' = "check"
    /\ UNCHANGED <<mQueue, interrupted, ninterrupts, caller, called, order>>
PerformAsync ==
    /\ worker = "perform" /\ data \in AsyncReqs
    /\ \E ok \in BOOLEAN : posts' = Append(posts, [req |-> data, ok |-> ok])
    /\ data' = NULL /\ worker' = "check"
    /\ UNCHANGED <<mQueue, interrupted, ninterrupts, caller, called, order>>

\* request(request, performer) does not store the performer, so that run()
\* only catches the exception; nobody notifies the caller.
PerformSync ==
    /\ worker = "perform" /\ data \in SyncReqs
    /\ data' = NULL /\ worker' = "check"
    /\ UNCHANGED <<mQueue, interrupted, ninterrupts, caller, posts, called, order>>

\* The main thread runs what was posted, in order.
RunCallback ==
    /\ posts # <<>>
    /\ called' = Append(called, Head(posts).req)
    /\ posts' = Tail(posts)
    /\ UNCHANGED <<mQueue, worker, data, interrupted, ninterrupts, caller, order>>
-----------------------------------------------------------------------------
CallerNext ==
    \/ Interrupt
    \/ \E r \in Reqs :
          RequestAsync(r) \/ RequestSync(r) \/ SyncWait(r) \/ SyncInterrupted(r)
WorkerNext == Check \/ Poll \/ Wait \/ PerformAsync \/ PerformSync
Next == CallerNext \/ WorkerNext \/ RunCallback

Spec == Init /\ [][Next]_vars

\* The worker, the main thread and a caller inside request() are scheduled.
FairSpec ==
    /\ Spec
    /\ WF_vars(WorkerNext)
    /\ WF_vars(RunCallback)
    /\ \A r \in SyncReqs : WF_vars(SyncWait(r))
-----------------------------------------------------------------------------
Queued(r) == \E i \in DOMAIN mQueue : mQueue[i] = r
Called(r) == \E i \in DOMAIN called : called[i] = r

PostedReqs == [i \in DOMAIN posts |-> posts[i].req]
Held == IF data \in AsyncReqs THEN <<data>> ELSE <<>>

(***************************************************************************)
(* No asynchronous request is lost, doubled or overtaken, whatever         *)
(* synchronous requests and interrupts come in between: the callbacks run, *)
(* the callbacks posted, the request being performed and the queue, put    *)
(* together, are the requests in the order they were made.                 *)
(***************************************************************************)
InOrder ==
    called \o PostedReqs \o Held \o Filter(mQueue, AsyncReqs) = order

(***************************************************************************)
(* As long as the worker is not on its way to sleep it gets to every       *)
(* request in the queue, unless it is interrupted: only the gap between    *)
(* poll() and wait() can strand a request.                                 *)
(***************************************************************************)
AwakeAnswers ==
    \A r \in AsyncReqs :
        Queued(r) /\ worker \in {"check", "poll", "perform"} ~>
            Called(r) \/ ninterrupts > 0
=============================================================================
