---------------------------- MODULE ClientEvents ----------------------------
(***************************************************************************)
(* The way of an update through ClientImpl (src/backend/client.cpp): the   *)
(* receive thread puts it into update_queue_, the dispatcher thread runs   *)
(* middleware and then the handlers, on the worker pool or itself, while   *)
(* the owner resizes the pool and in the end destroys the client.          *)
(*                                                                         *)
(* The pool is used as TaskPool describes it, the adapter as TdlibAdapter: *)
(* updates arrive in order, and nothing is answered once it has stopped.   *)
(* The condition variable of update_queue_ is used under its mutex on both *)
(* sides, so waiting on it is waiting for its predicate.                   *)
(***************************************************************************)
EXTENDS Naturals, Sequences, FiniteSets

CONSTANTS Worker,      \* threads of the worker pool, by their place in workers_
          Dispatcher,  \* the dispatcher thread
          None,        \* no update
          MaxUpdates   \* bound: updates received

ASSUME RunnerAssumption == Worker \subseteq Nat /\ Dispatcher \notin Worker
ASSUME NoneAssumption == None \notin (1 .. MaxUpdates) \X {"message", "edited"}
ASSUME BoundAssumption == MaxUpdates \in Nat

Runner == Worker \cup {Dispatcher}

(* "message" stands for new messages and callback queries, which pass the  *)
(* middleware and may go to the pool, "edited" for edited and permanently  *)
(* deleted messages, which the dispatcher handles itself.                  *)
Kind   == {"message", "edited"}
Update == (1 .. MaxUpdates) \X Kind

VARIABLES
  received,            \* history: updates received
  update_queue,        \* update_queue_
  dispatcher_running,  \* dispatcher_running_
  dpc,                 \* where the dispatcher is
  cur,                 \* the update in its hands
  thread_pool,         \* thread_pool_: none, open, shut down, or shut down
                       \* with a worker that was not joined
  pool_tasks,          \* what the pool has accepted and not started
  locked,              \* somebody holds thread_pool_mtx_ across steps
  target,              \* the size that is being set
  job,                 \* the update whose handlers a thread is running
  hpc,                 \* where those handlers are
  holders,             \* threads whose handlers hold a strong reference
  mpc,                 \* where the owner of the Client is
  started,             \* history: updates whose handlers have started
  halted,              \* history: updates stopped by middleware
  selfJoin,            \* history: a worker has set the size of its own pool
  aborted              \* std::terminate was called

poolVars   == <<thread_pool, pool_tasks, locked, target>>
handlerVars == <<job, hpc, holders>>
dispVars   == <<update_queue, dispatcher_running, dpc, cur>>
history    == <<started, halted, selfJoin>>
vars == <<received, dispVars, poolVars, handlerVars, mpc, history, aborted>>

HandlerPC == {"none", "run", "calling", "answered", "ask", "askResize",
              "resizing", "called"}
OwnerPC   == {"ready", "resizing", "stopped", "gone", "dtor", "drain",
              "stopDispatcher", "joinDispatcher", "members", "destroyed"}

TypeOK ==
  /\ received \in 0 .. MaxUpdates
  /\ update_queue \in Seq(Update)
  /\ dispatcher_running \in BOOLEAN
  /\ dpc \in {"loop", "take", "process", "lockPool", "inline", "exited"}
  /\ cur \in Update \cup {None}
  /\ thread_pool \in {"none", "open", "stopped", "broken"}
  /\ pool_tasks \in Seq(Update)
  /\ locked \in BOOLEAN
  /\ target \in {0, 1}
  /\ job \in [Runner -> Update \cup {None}]
  /\ hpc \in [Runner -> HandlerPC]
  /\ holders \subseteq {x \in Runner : hpc[x] \in {"calling", "answered"}}
  /\ mpc \in OwnerPC
  /\ started \in Seq(Update)
  /\ halted \subseteq Update
  /\ selfJoin \in BOOLEAN
  /\ aborted \in BOOLEAN

Init ==
  /\ received = 0
  /\ update_queue = <<>>
  /\ dispatcher_running = TRUE
  /\ dpc = "loop"
  /\ cur = None
  /\ thread_pool = "none"
  /\ pool_tasks = <<>>
  /\ locked = FALSE
  /\ target = 0
  /\ job = [x \in Runner |-> None]
  /\ hpc = [x \in Runner |-> "none"]
  /\ holders = {}
  /\ mpc = "ready"
  /\ started = <<>>
  /\ halted = {}
  /\ selfJoin = FALSE
  /\ aborted = FALSE

-----------------------------------------------------------------------------
ClientAlive == mpc \in {"ready", "resizing"}

(* The adapter's receive thread runs until ~Client stops it.               *)
Receiving == ClientAlive

(* The strong count of impl_ has not dropped to zero.                      *)
ImplAlive == mpc \in {"ready", "resizing", "stopped", "gone"}

(* The update handler of ClientImpl::init.                                 *)
Receive(k) ==
  /\ Receiving
  /\ received < MaxUpdates
  /\ received' = received + 1
  /\ update_queue' = Append(update_queue, <<received', k>>)
  /\ UNCHANGED <<dispatcher_running, dpc, cur, poolVars, handlerVars, mpc,
                 history, aborted>>

-----------------------------------------------------------------------------
(* dispatcher_loop and the dispatch functions                              *)

TestRunning ==
  /\ dpc = "loop"
  /\ dpc' = IF dispatcher_running THEN "take" ELSE "exited"
  /\ UNCHANGED <<received, update_queue, dispatcher_running, cur, poolVars,
                 handlerVars, mpc, history, aborted>>

(* The predicate holds with an empty queue: break.                         *)
Leave ==
  /\ dpc = "take"
  /\ update_queue = <<>>
  /\ ~dispatcher_running
  /\ dpc' = "exited"
  /\ UNCHANGED <<received, update_queue, dispatcher_running, cur, poolVars,
                 handlerVars, mpc, history, aborted>>

Take ==
  /\ dpc = "take"
  /\ update_queue # <<>>
  /\ cur' = Head(update_queue)
  /\ update_queue' = Tail(update_queue)
  /\ dpc' = "process"
  /\ UNCHANGED <<received, dispatcher_running, poolVars, handlerVars, mpc,
                 history, aborted>>

(* MiddlewarePipeline::execute: each middleware may go on, return false,   *)
(* stop the propagation or throw, and all but the first halt the update.   *)
(* Edits and deletions do not pass it.                                     *)
Verdicts(u) == IF u[2] = "message" THEN {"go on", "halt"} ELSE {"go on"}

Halt ==
  /\ dpc = "process"
  /\ "halt" \in Verdicts(cur)
  /\ halted' = halted \cup {cur}
  /\ cur' = None
  /\ dpc' = "loop"
  /\ UNCHANGED <<received, update_queue, dispatcher_running, poolVars,
                 handlerVars, mpc, started, selfJoin, aborted>>

(* The handlers are copied; a message goes on to the pool.                 *)
Process ==
  /\ dpc = "process"
  /\ "go on" \in Verdicts(cur)
  /\ dpc' = IF cur[2] = "message" THEN "lockPool" ELSE "inline"
  /\ UNCHANGED <<received, update_queue, dispatcher_running, cur, poolVars,
                 handlerVars, mpc, history, aborted>>

(* Bug: an update that arrives while the pool is busy is dropped. *)
EnqueueIfIdle ==
  /\ dpc = "lockPool"
  /\ ~locked
  /\ thread_pool = "open"
  /\ pool_tasks' = IF \E w \in Worker : job[w] # None THEN pool_tasks
                   ELSE Append(pool_tasks, cur)
  /\ cur' = None
  /\ dpc' = "loop"
  /\ UNCHANGED <<received, update_queue, dispatcher_running, thread_pool, locked,
                 target, handlerVars, mpc, history, aborted>>

Enqueue ==
  /\ dpc = "lockPool"
  /\ ~locked
  /\ thread_pool = "open"
  /\ pool_tasks' = Append(pool_tasks, cur)
  /\ cur' = None
  /\ dpc' = "loop"
  /\ UNCHANGED <<received, update_queue, dispatcher_running, thread_pool, locked,
                 target, handlerVars, mpc, history, aborted>>

(* enqueue on a pool that was shut down throws, and nothing on the         *)
(* dispatcher thread catches it.                                           *)
EnqueueThrows ==
  /\ dpc = "lockPool"
  /\ ~locked
  /\ thread_pool \in {"stopped", "broken"}
  /\ aborted' = TRUE
  /\ UNCHANGED <<received, dispVars, poolVars, handlerVars, mpc, history>>

NoPool ==
  /\ dpc = "lockPool"
  /\ ~locked
  /\ thread_pool = "none"
  /\ dpc' = "inline"
  /\ UNCHANGED <<received, update_queue, dispatcher_running, cur, poolVars,
                 handlerVars, mpc, history, aborted>>

BeginHandlers(x, u) ==
  /\ job' = [job EXCEPT ![x] = u]
  /\ hpc' = [hpc EXCEPT ![x] = "run"]
  /\ started' = Append(started, u)

BeginInline ==
  /\ dpc = "inline"
  /\ hpc[Dispatcher] = "none"
  /\ BeginHandlers(Dispatcher, cur)
  /\ UNCHANGED <<received, dispVars, poolVars, holders, mpc, halted,
                 selfJoin, aborted>>

-----------------------------------------------------------------------------
(* The pool                                                                *)

BeginTask(w) ==
  /\ hpc[w] = "none"
  /\ pool_tasks # <<>>
  /\ BeginHandlers(w, Head(pool_tasks))
  /\ pool_tasks' = Tail(pool_tasks)
  /\ UNCHANGED <<received, dispVars, thread_pool, locked, target, holders, mpc,
                 halted, selfJoin, aborted>>

(* The workers in W have been joined: they have left with nothing to do.   *)
Joined(W) == W # {} => pool_tasks = <<>> /\ \A w \in W : hpc[w] = "none"

Drained == pool_tasks = <<>> /\ Joined(Worker)

-----------------------------------------------------------------------------
(* Handlers, on a worker or on the dispatcher. They may send a request,    *)
(* through a Client& or through an entity that locks its weak pointer for  *)
(* the time of the call, or ask for the size of the pool, or set it.       *)

CallThroughClient(x) ==
  /\ hpc[x] = "run"
  /\ ClientAlive
  /\ hpc' = [hpc EXCEPT ![x] = "calling"]
  /\ UNCHANGED <<received, dispVars, poolVars, job, holders, mpc, history, aborted>>

CallThroughEntity(x) ==
  /\ hpc[x] = "run"
  /\ ImplAlive
  /\ hpc' = [hpc EXCEPT ![x] = "calling"]
  /\ holders' = holders \cup {x}
  /\ UNCHANGED <<received, dispVars, poolVars, job, mpc, history, aborted>>

Answered(x) ==
  /\ hpc[x] = "calling"
  /\ Receiving
  /\ hpc' = [hpc EXCEPT ![x] = "answered"]
  /\ UNCHANGED <<received, dispVars, poolVars, job, holders, mpc, history, aborted>>

(* Bug: the strong reference outlives the call. *)
CallReturnsHolding(x) ==
  /\ hpc[x] = "answered"
  /\ hpc' = [hpc EXCEPT ![x] = "called"]
  /\ UNCHANGED <<received, dispVars, poolVars, job, holders, mpc, history, aborted>>

(* The last reference runs ~ClientImpl on this thread, which ends in a     *)
(* join of the thread with itself: std::system_error in a destructor.      *)
CallReturns(x) ==
  /\ hpc[x] = "answered"
  /\ hpc' = [hpc EXCEPT ![x] = "called"]
  /\ holders' = holders \ {x}
  /\ aborted' = (mpc = "gone" /\ holders = {x})
  /\ UNCHANGED <<received, dispVars, poolVars, job, mpc, history>>

AskPoolSize(x) ==
  /\ hpc[x] = "run"
  /\ ClientAlive
  /\ hpc' = [hpc EXCEPT ![x] = "ask"]
  /\ UNCHANGED <<received, dispVars, poolVars, job, holders, mpc, history, aborted>>

GetPoolSize(x) ==
  /\ hpc[x] = "ask"
  /\ ~locked
  /\ hpc' = [hpc EXCEPT ![x] = "called"]
  /\ UNCHANGED <<received, dispVars, poolVars, job, holders, mpc, history, aborted>>

AskResize(x) ==
  /\ hpc[x] = "run"
  /\ ClientAlive
  /\ hpc' = [hpc EXCEPT ![x] = "askResize"]
  /\ UNCHANGED <<received, dispVars, poolVars, job, holders, mpc, history, aborted>>

Closed(tp) == IF tp = "open" THEN "stopped" ELSE tp

(* setThreadPoolSize: a pool with a worker that was not joined cannot be   *)
(* destroyed, std::terminate is called instead.                            *)
LockToResize(n) ==
  /\ ~locked
  /\ locked' = TRUE
  /\ target' = n
  /\ thread_pool' = Closed(thread_pool)
  /\ aborted' = (thread_pool = "broken")
  /\ UNCHANGED pool_tasks

HandlerResizeBegin(x, n) ==
  /\ hpc[x] = "askResize"
  /\ LockToResize(n)
  /\ hpc' = [hpc EXCEPT ![x] = "resizing"]
  /\ UNCHANGED <<received, dispVars, job, holders, mpc, history>>

Resized(keep) ==
  /\ thread_pool' = keep
  /\ locked' = FALSE
  /\ UNCHANGED <<pool_tasks, target>>

HandlerResizes(x) ==
  /\ hpc[x] = "resizing"
  /\ hpc' = [hpc EXCEPT ![x] = "called"]
  /\ UNCHANGED <<received, dispVars, job, holders, mpc, started, halted>>

(* On the dispatcher, or with no pool before, as the owner does it.        *)
HandlerResizeEnd(x) ==
  /\ HandlerResizes(x)
  /\ x = Dispatcher \/ thread_pool = "none"
  /\ Drained
  /\ Resized(IF target = 0 THEN "none" ELSE "open")
  /\ UNCHANGED <<selfJoin, aborted>>

(* A worker joins those before it and then itself: std::system_error. From *)
(* shutdown it is caught like any exception of a handler, and the pool     *)
(* stays as it is; from the destructor of the pool that was replaced it    *)
(* terminates the process.                                                 *)
HandlerSelfJoin(x) ==
  /\ HandlerResizes(x)
  /\ x \in Worker /\ thread_pool = "stopped"
  /\ Joined({w \in Worker : w < x})
  /\ Resized("broken")
  /\ selfJoin' = TRUE
  /\ aborted' = (target # 0)

EndHandlers(x) ==
  /\ hpc[x] \in {"run", "called"}
  /\ hpc' = [hpc EXCEPT ![x] = "none"]
  /\ job' = [job EXCEPT ![x] = None]
  /\ IF x = Dispatcher THEN dpc' = "loop" /\ cur' = None
                       ELSE UNCHANGED <<dpc, cur>>
  /\ UNCHANGED <<received, update_queue, dispatcher_running, poolVars, holders,
                 mpc, history, aborted>>

-----------------------------------------------------------------------------
(* The owner: setThreadPoolSize, ~Client and ~ClientImpl                   *)

(* shutdown of the old pool, if any; the mutex is held throughout.         *)
ResizeBegin(n) ==
  /\ mpc = "ready"
  /\ LockToResize(n)
  /\ mpc' = "resizing"
  /\ UNCHANGED <<received, dispVars, handlerVars, history>>

(* Bug: the old pool is let go without waiting for its tasks. *)
ResizeEndUndrained ==
  /\ mpc = "resizing"
  /\ thread_pool' = IF target = 0 THEN "none" ELSE "open"
  /\ locked' = FALSE
  /\ mpc' = "ready"
  /\ UNCHANGED <<received, dispVars, pool_tasks, target, handlerVars, history,
                 aborted>>

(* Bug: setThreadPoolSize(0) shuts the pool down but keeps it. *)
ResizeEndKeeping ==
  /\ mpc = "resizing"
  /\ Drained
  /\ thread_pool' = IF target = 0 THEN thread_pool ELSE "open"
  /\ locked' = FALSE
  /\ mpc' = "ready"
  /\ UNCHANGED <<received, dispVars, pool_tasks, target, handlerVars, history,
                 aborted>>

(* The old workers are joined and the pool reset or replaced.              *)
ResizeEnd ==
  /\ mpc = "resizing"
  /\ Drained
  /\ Resized(IF target = 0 THEN "none" ELSE "open")
  /\ mpc' = "ready"
  /\ UNCHANGED <<received, dispVars, handlerVars, history, aborted>>

(* ~Client: td.stop() joins the receive thread.                            *)
StopReceiving ==
  /\ mpc = "ready"
  /\ mpc' = "stopped"
  /\ UNCHANGED <<received, dispVars, poolVars, handlerVars, history, aborted>>

(* impl_ is released: the last reference runs ~ClientImpl.                 *)
Release ==
  /\ mpc = "stopped"
  /\ mpc' = IF holders = {} THEN "dtor" ELSE "gone"
  /\ UNCHANGED <<received, dispVars, poolVars, handlerVars, history, aborted>>

ShutdownPool ==
  /\ mpc = "dtor"
  /\ ~locked
  /\ locked' = TRUE
  /\ thread_pool' = Closed(thread_pool)
  /\ mpc' = "drain"
  /\ UNCHANGED <<received, dispVars, pool_tasks, target, handlerVars, history,
                 aborted>>

(* shutdown of a pool that was shut down before returns at once.           *)
PoolJoined ==
  /\ mpc = "drain"
  /\ Drained \/ thread_pool = "broken"
  /\ locked' = FALSE
  /\ mpc' = "stopDispatcher"
  /\ UNCHANGED <<received, dispVars, thread_pool, pool_tasks, target,
                 handlerVars, history, aborted>>

(* Bug: the flag is not cleared before the join. *)
StopDispatcherForgotten ==
  /\ mpc = "stopDispatcher"
  /\ mpc' = "joinDispatcher"
  /\ UNCHANGED <<received, dispVars, poolVars, handlerVars, history, aborted>>

StopDispatcher ==
  /\ mpc = "stopDispatcher"
  /\ dispatcher_running' = FALSE
  /\ mpc' = "joinDispatcher"
  /\ UNCHANGED <<received, update_queue, dpc, cur, poolVars, handlerVars,
                 history, aborted>>

(* Bug: the dispatcher is not joined. *)
DetachDispatcher ==
  /\ mpc = "joinDispatcher"
  /\ mpc' = "destroyed"
  /\ UNCHANGED <<received, dispVars, poolVars, handlerVars, history, aborted>>

(* The members are destroyed, and with them the pool: one that a handler   *)
(* on the dispatcher has made meanwhile is joined only now.                *)
JoinDispatcher ==
  /\ mpc = "joinDispatcher"
  /\ dpc = "exited"
  /\ mpc' = "members"
  /\ thread_pool' = Closed(thread_pool)
  /\ aborted' = (thread_pool = "broken")
  /\ UNCHANGED <<received, dispVars, pool_tasks, locked, target, handlerVars,
                 history>>

MembersDestroyed ==
  /\ mpc = "members"
  /\ Drained
  /\ mpc' = "destroyed"
  /\ UNCHANGED <<received, dispVars, poolVars, handlerVars, history, aborted>>

-----------------------------------------------------------------------------
DispatcherNeedsMutex == Enqueue \/ EnqueueThrows \/ NoPool

DispatcherOnItsOwn ==
  TestRunning \/ Leave \/ Take \/ Halt \/ Process \/ BeginInline

HandlerNeedsMutex(x) ==
  GetPoolSize(x) \/ \E n \in {0, 1} : HandlerResizeBegin(x, n)

HandlerGoesOn(x) ==
  \/ Answered(x) \/ CallReturns(x) \/ EndHandlers(x)
  \/ HandlerResizeEnd(x) \/ HandlerSelfJoin(x)

HandlerCalls(x) ==
  CallThroughClient(x) \/ CallThroughEntity(x) \/ AskPoolSize(x) \/ AskResize(x)

OwnerGoesOn ==
  \/ ResizeEnd \/ Release \/ ShutdownPool \/ PoolJoined
  \/ StopDispatcher \/ JoinDispatcher \/ MembersDestroyed

OwnerCalls == StopReceiving \/ \E n \in {0, 1} : ResizeBegin(n)

Next ==
  /\ ~aborted
  /\ \/ \E k \in Kind : Receive(k)
     \/ DispatcherNeedsMutex
     \/ DispatcherOnItsOwn
     \/ \E w \in Worker : BeginTask(w)
     \/ \E x \in Runner :
          HandlerNeedsMutex(x) \/ HandlerGoesOn(x) \/ HandlerCalls(x)
     \/ OwnerGoesOn
     \/ OwnerCalls

Spec == Init /\ [][Next]_vars

(* Threads that can run do, thread_pool_mtx_ starves nobody, a handler     *)
(* ends unless it waits for something, requests are answered while the     *)
(* adapter receives. Nobody has to call anything.                          *)
Running(A) == ~aborted /\ A

Fairness ==
  /\ SF_vars(Running(DispatcherNeedsMutex))
  /\ WF_vars(Running(DispatcherOnItsOwn))
  /\ \A w \in Worker : WF_vars(Running(BeginTask(w)))
  /\ \A x \in Runner : /\ SF_vars(Running(HandlerNeedsMutex(x)))
                       /\ WF_vars(Running(HandlerGoesOn(x)))
  /\ WF_vars(Running(OwnerGoesOn))

FairSpec == Spec /\ Fairness

-----------------------------------------------------------------------------
(* Handlers of messages start in the order the messages arrived, however   *)
(* the pool is resized, removed or added in between; so do those of edits. *)
StartsInOrder ==
  \A i, j \in DOMAIN started :
    i < j /\ started[i][2] = started[j][2] => started[i][1] < started[j][1]

(* Resizing never makes the dispatcher enqueue on a pool that was shut     *)
(* down, and no thread joins itself while the client exists, unless a      *)
(* handler on a worker sets the size of the pool it runs on.               *)
AbortOnlyInDestruction == aborted => selfJoin \/ (~ClientAlive /\ mpc # "stopped")

(* Nothing of a destroyed client runs.                                     *)
DestroyedClean ==
  mpc = "destroyed" => /\ Drained /\ dpc = "exited" /\ hpc[Dispatcher] = "none"
                       /\ holders = {}

(* When ~ClientImpl has returned nothing of the client runs: no handler,   *)
(* no queued task, no dispatcher; and nobody still holds the object. The   *)
(* process is terminated, if at all, by the destruction of a busy client   *)
(* or by a handler that sets the size of its own pool.                     *)
DestructionSafe == AbortOnlyInDestruction /\ DestroyedClean

(* Asks for the size or sets it: README.md:136 promises "Non-blocking      *)
(* concurrent execution of update handlers", but thread_pool_mtx_ is held  *)
(* while workers are joined.                                               *)
HandlerAsksPoolSize == \E x \in Runner : hpc[x] \in {"ask", "askResize", "resizing"}
HandlerNeverAnswered == ~Receiving /\ \E x \in Runner : hpc[x] = "calling"

(* Every update received is handled or stopped by middleware, unless the   *)
(* client is destroyed or a handler asks for the pool size, or sets it,    *)
(* and thereby blocks the pool or leaves it shut down.                     *)
UpdateIsHandled ==
  \A n \in 1 .. MaxUpdates : \A k \in Kind :
    received >= n ~>
      \/ \E i \in DOMAIN started : started[i][1] = n
      \/ \E u \in halted : u[1] = n
      \/ ~ClientAlive
      \/ HandlerAsksPoolSize
      \/ selfJoin

(* The destruction of a client ends, unless a handler waits for an answer  *)
(* that the stopped adapter will never deliver, or for the pool mutex.     *)
DestructionEnds ==
  mpc = "stopped" ~> \/ mpc \in {"gone", "destroyed"}
                     \/ aborted
                     \/ HandlerNeverAnswered
                     \/ HandlerAsksPoolSize
=============================================================================
