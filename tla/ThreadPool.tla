----------------------------- MODULE ThreadPool -----------------------------
(***************************************************************************)
(* cppgram::ThreadPool (include/cppgram/thread_pool.hpp): worker threads,  *)
(* threads that call enqueue, wait_all and shutdown, the queue mutex, the  *)
(* two condition variables and the two atomic counters.                    *)
(*                                                                         *)
(* A critical section that takes queue_mutex_ and releases it without      *)
(* blocking is one action, enabled when the mutex is free. wait_all is     *)
(* not: between evaluating its predicate and being registered as a waiter  *)
(* of completion_cv_ it holds the mutex, while the workers update          *)
(* active_tasks_ and notify completion_cv_ without taking it. The updates  *)
(* after a task has run are therefore one action each.                     *)
(***************************************************************************)
EXTENDS Naturals, Sequences, FiniteSets

CONSTANTS Worker,    \* worker threads
          Caller,    \* threads that use the pool
          Task,      \* one element per call of enqueue
          NoTask,    \* an empty std::function
          NoOne      \* queue_mutex_ is free, or shutdown was not called

ASSUME WorkerAssumption == IsFiniteSet(Worker) /\ Worker # {}
ASSUME TaskAssumption == NoTask \notin Task
ASSUME CallerAssumption == NoOne \notin Caller

VARIABLES
  tasks,            \* tasks_
  stop,             \* stop_
  active_tasks,     \* active_tasks_
  completed_tasks,  \* completed_tasks_
  queue_mutex,      \* the caller that holds queue_mutex_ across two steps
  wpc,              \* where each worker is
  task,             \* the local variable task of each worker
  cpc,              \* where each caller is
  runs,             \* history: how often each task has been executed
  refused,          \* history: calls of enqueue that threw
  waitFor,          \* history: tasks accepted before the caller's wait_all
  closer            \* history: the caller whose shutdown set stop_

poolVars == <<tasks, stop, queue_mutex>>
counters == <<active_tasks, completed_tasks>>
history  == <<runs, refused, waitFor, closer>>
vars     == <<tasks, stop, queue_mutex, active_tasks, completed_tasks,
              wpc, task, cpc, runs, refused, waitFor, closer>>

WorkerPC == {"lock", "waiting", "run", "deactivate", "complete", "notify",
             "exited"}
CallerPC == {"idle", "notifyOne", "waitLock", "waitBlock", "blocked",
             "waitDone", "stopNotify", "join", "shutDone"}

TypeOK ==
  /\ tasks \in Seq(Task)
  /\ stop \in BOOLEAN
  /\ active_tasks \in Nat
  /\ completed_tasks \in Nat
  /\ queue_mutex \in Caller \cup {NoOne}
  /\ wpc \in [Worker -> WorkerPC]
  /\ task \in [Worker -> Task \cup {NoTask}]
  /\ cpc \in [Caller -> CallerPC]
  /\ runs \in [Task -> Nat]
  /\ refused \in SUBSET Task
  /\ waitFor \in [Caller -> SUBSET Task]
  /\ closer \in Caller \cup {NoOne}

Init ==
  /\ tasks = <<>>
  /\ stop = FALSE
  /\ active_tasks = 0
  /\ completed_tasks = 0
  /\ queue_mutex = NoOne
  /\ wpc = [w \in Worker |-> "lock"]
  /\ task = [w \in Worker |-> NoTask]
  /\ cpc = [c \in Caller |-> "idle"]
  /\ runs = [t \in Task |-> 0]
  /\ refused = {}
  /\ waitFor = [c \in Caller |-> {}]
  /\ closer = NoOne

-----------------------------------------------------------------------------
Queued == {tasks[i] : i \in DOMAIN tasks}

Held(w) == wpc[w] = "run"

Running == {task[w] : w \in {v \in Worker : Held(v)}}

Finished == {t \in Task : runs[t] > 0}

Accepted == Queued \cup Running \cup Finished

(* Between ++active_tasks_ and --active_tasks_, and between                *)
(* --active_tasks_ and ++completed_tasks_.                                 *)
Active  == {w \in Worker : wpc[w] \in {"run", "deactivate"}}
Pending == {w \in Worker : wpc[w] \in {"deactivate", "complete"}}

MutexFree == queue_mutex = NoOne

(* A notified or spuriously woken thread has to take the mutex again and   *)
(* re-evaluate its predicate: it is back where it started.                 *)
WakeWorkers(W) == wpc' = [w \in Worker |->
                            IF w \in W /\ wpc[w] = "waiting" THEN "lock"
                                                             ELSE wpc[w]]

-----------------------------------------------------------------------------
(* Worker threads                                                          *)

(* Bug: the newest task is taken first. *)
TakeTaskFromBack(w) ==
  /\ wpc[w] = "lock"
  /\ MutexFree
  /\ tasks # <<>>
  /\ task' = [task EXCEPT ![w] = tasks[Len(tasks)]]
  /\ tasks' = SubSeq(tasks, 1, Len(tasks) - 1)
  /\ active_tasks' = active_tasks + 1
  /\ wpc' = [wpc EXCEPT ![w] = "run"]
  /\ UNCHANGED <<stop, queue_mutex, completed_tasks, cpc, history>>

(* Bug: active_tasks_ is not incremented before the mutex is released. *)
TakeTaskUncounted(w) ==
  /\ wpc[w] = "lock"
  /\ MutexFree
  /\ tasks # <<>>
  /\ task' = [task EXCEPT ![w] = Head(tasks)]
  /\ tasks' = Tail(tasks)
  /\ wpc' = [wpc EXCEPT ![w] = "run"]
  /\ UNCHANGED <<stop, queue_mutex, counters, cpc, history>>

TakeTask(w) ==
  /\ wpc[w] = "lock"
  /\ MutexFree
  /\ tasks # <<>>
  /\ task' = [task EXCEPT ![w] = Head(tasks)]
  /\ tasks' = Tail(tasks)
  /\ active_tasks' = active_tasks + 1
  /\ wpc' = [wpc EXCEPT ![w] = "run"]
  /\ UNCHANGED <<stop, queue_mutex, completed_tasks, cpc, history>>

WaitForTask(w) ==
  /\ wpc[w] = "lock"
  /\ MutexFree
  /\ tasks = <<>>
  /\ ~stop
  /\ wpc' = [wpc EXCEPT ![w] = "waiting"]
  /\ UNCHANGED <<poolVars, counters, task, cpc, history>>

(* Bug: the worker leaves as soon as it sees stop_, whatever is queued. *)
ExitWithoutDraining(w) ==
  /\ wpc[w] = "lock"
  /\ MutexFree
  /\ stop
  /\ wpc' = [wpc EXCEPT ![w] = "exited"]
  /\ UNCHANGED <<poolVars, counters, task, cpc, history>>

Exit(w) ==
  /\ wpc[w] = "lock"
  /\ MutexFree
  /\ stop
  /\ tasks = <<>>
  /\ wpc' = [wpc EXCEPT ![w] = "exited"]
  /\ UNCHANGED <<poolVars, counters, task, cpc, history>>

(* task() returns; an exception of the callable ends in the future.        *)
RunTask(w) ==
  /\ wpc[w] = "run"
  /\ runs' = [runs EXCEPT ![task[w]] = @ + 1]
  /\ wpc' = [wpc EXCEPT ![w] = "deactivate"]
  /\ UNCHANGED <<poolVars, counters, task, cpc, refused, waitFor, closer>>

Deactivate(w) ==
  /\ wpc[w] = "deactivate"
  /\ active_tasks' = active_tasks - 1
  /\ wpc' = [wpc EXCEPT ![w] = "complete"]
  /\ UNCHANGED <<poolVars, completed_tasks, task, cpc, history>>

Complete(w) ==
  /\ wpc[w] = "complete"
  /\ completed_tasks' = completed_tasks + 1
  /\ wpc' = [wpc EXCEPT ![w] = "notify"]
  /\ UNCHANGED <<poolVars, active_tasks, task, cpc, history>>

(* completion_cv_.notify_all(), and the end of the scope of task.          *)
NotifyCompletion(w) ==
  /\ wpc[w] = "notify"
  /\ cpc' = [c \in Caller |-> IF cpc[c] = "blocked" THEN "waitLock" ELSE cpc[c]]
  /\ wpc' = [wpc EXCEPT ![w] = "lock"]
  /\ task' = [task EXCEPT ![w] = NoTask]
  /\ UNCHANGED <<poolVars, counters, history>>

SpuriousWorkerWakeup(w) ==
  /\ wpc[w] = "waiting"
  /\ WakeWorkers({w})
  /\ UNCHANGED <<poolVars, counters, task, cpc, history>>

-----------------------------------------------------------------------------
(* enqueue                                                                 *)

EnqueueAccepted(c, t) ==
  /\ cpc[c] = "idle"
  /\ t \notin Accepted \cup refused
  /\ MutexFree
  /\ ~stop
  /\ tasks' = Append(tasks, t)
  /\ cpc' = [cpc EXCEPT ![c] = "notifyOne"]
  /\ UNCHANGED <<stop, queue_mutex, counters, wpc, task, history>>

EnqueueRefused(c, t) ==
  /\ cpc[c] = "idle"
  /\ t \notin Accepted \cup refused
  /\ MutexFree
  /\ stop
  /\ refused' = refused \cup {t}
  /\ UNCHANGED <<poolVars, counters, wpc, task, cpc, runs, waitFor, closer>>

(* Bug: enqueue wakes nobody. *)
NotifyNobody(c) ==
  /\ cpc[c] = "notifyOne"
  /\ cpc' = [cpc EXCEPT ![c] = "idle"]
  /\ UNCHANGED <<poolVars, counters, wpc, task, history>>

(* cv_.notify_one(), after the mutex was released.                         *)
NotifyOne(c) ==
  /\ cpc[c] = "notifyOne"
  /\ \/ \E w \in Worker : wpc[w] = "waiting" /\ WakeWorkers({w})
     \/ (\A w \in Worker : wpc[w] # "waiting") /\ UNCHANGED wpc
  /\ cpc' = [cpc EXCEPT ![c] = "idle"]
  /\ UNCHANGED <<poolVars, counters, task, history>>

-----------------------------------------------------------------------------
(* wait_all                                                                *)

WaitCall(c) ==
  /\ cpc[c] = "idle"
  /\ cpc' = [cpc EXCEPT ![c] = "waitLock"]
  /\ waitFor' = [waitFor EXCEPT ![c] = Accepted]
  /\ UNCHANGED <<poolVars, counters, wpc, task, runs, refused, closer>>

(* Bug: the predicate forgets the tasks that are being executed. *)
AllDoneQueueOnly == tasks = <<>>

(* The predicate of completion_cv_.wait.                                   *)
AllDone == tasks = <<>> /\ active_tasks = 0

WaitSatisfied(c) ==
  /\ cpc[c] = "waitLock"
  /\ MutexFree
  /\ AllDone
  /\ cpc' = [cpc EXCEPT ![c] = "waitDone"]
  /\ UNCHANGED <<poolVars, counters, wpc, task, history>>

(* The predicate is false: the caller keeps the mutex until it has been    *)
(* put on the wait list.                                                   *)
WaitUnsatisfied(c) ==
  /\ cpc[c] = "waitLock"
  /\ MutexFree
  /\ ~AllDone
  /\ queue_mutex' = c
  /\ cpc' = [cpc EXCEPT ![c] = "waitBlock"]
  /\ UNCHANGED <<tasks, stop, counters, wpc, task, history>>

Block(c) ==
  /\ cpc[c] = "waitBlock"
  /\ queue_mutex' = NoOne
  /\ cpc' = [cpc EXCEPT ![c] = "blocked"]
  /\ UNCHANGED <<tasks, stop, counters, wpc, task, history>>

SpuriousCallerWakeup(c) ==
  /\ cpc[c] = "blocked"
  /\ cpc' = [cpc EXCEPT ![c] = "waitLock"]
  /\ UNCHANGED <<poolVars, counters, wpc, task, history>>

-----------------------------------------------------------------------------
(* shutdown                                                                *)

ShutdownFirst(c) ==
  /\ cpc[c] = "idle"
  /\ MutexFree
  /\ ~stop
  /\ stop' = TRUE
  /\ closer' = c
  /\ cpc' = [cpc EXCEPT ![c] = "stopNotify"]
  /\ UNCHANGED <<tasks, queue_mutex, counters, wpc, task, runs, refused, waitFor>>

ShutdownAgain(c) ==
  /\ cpc[c] = "idle"
  /\ MutexFree
  /\ stop
  /\ cpc' = [cpc EXCEPT ![c] = "shutDone"]
  /\ UNCHANGED <<poolVars, counters, wpc, task, history>>

(* Bug: shutdown wakes one waiting worker instead of all of them. *)
NotifyStopOne(c) ==
  /\ cpc[c] = "stopNotify"
  /\ \/ \E w \in Worker : wpc[w] = "waiting" /\ WakeWorkers({w})
     \/ (\A w \in Worker : wpc[w] # "waiting") /\ UNCHANGED wpc
  /\ cpc' = [cpc EXCEPT ![c] = "join"]
  /\ UNCHANGED <<poolVars, counters, task, history>>

(* cv_.notify_all(), after the mutex was released.                         *)
NotifyStop(c) ==
  /\ cpc[c] = "stopNotify"
  /\ WakeWorkers(Worker)
  /\ cpc' = [cpc EXCEPT ![c] = "join"]
  /\ UNCHANGED <<poolVars, counters, task, history>>

(* The loop of join() calls ends when the last worker has returned.        *)
Join(c) ==
  /\ cpc[c] = "join"
  /\ \A w \in Worker : wpc[w] = "exited"
  /\ cpc' = [cpc EXCEPT ![c] = "shutDone"]
  /\ UNCHANGED <<poolVars, counters, wpc, task, history>>

(* The caller goes on after wait_all or shutdown.                          *)
Resume(c) ==
  /\ cpc[c] \in {"waitDone", "shutDone"}
  /\ cpc' = [cpc EXCEPT ![c] = "idle"]
  /\ UNCHANGED <<poolVars, counters, wpc, task, history>>

-----------------------------------------------------------------------------
WorkerNeedsMutex(w) == TakeTask(w) \/ WaitForTask(w) \/ Exit(w)

WorkerOnItsOwn(w) ==
  RunTask(w) \/ Deactivate(w) \/ Complete(w) \/ NotifyCompletion(w)

WorkerStep(w) == WorkerNeedsMutex(w) \/ WorkerOnItsOwn(w) \/ SpuriousWorkerWakeup(w)

Call(c) ==
  \/ \E t \in Task : EnqueueAccepted(c, t) \/ EnqueueRefused(c, t)
  \/ WaitCall(c)
  \/ ShutdownFirst(c)
  \/ ShutdownAgain(c)

CallNeedsMutex(c) == WaitSatisfied(c) \/ WaitUnsatisfied(c)

CallOnItsOwn(c) ==
  NotifyOne(c) \/ Block(c) \/ NotifyStop(c) \/ Join(c) \/ Resume(c)

CallerStep(c) ==
  Call(c) \/ CallNeedsMutex(c) \/ CallOnItsOwn(c) \/ SpuriousCallerWakeup(c)

Next == \/ \E w \in Worker : WorkerStep(w)
        \/ \E c \in Caller : CallerStep(c)

Spec == Init /\ [][Next]_vars

(* Every thread that can run does, every callable returns, and no thread   *)
(* is starved of the mutex for ever. Nobody has to make a new call and     *)
(* nothing has to wake up spuriously.                                      *)
Fairness ==
  /\ \A w \in Worker : SF_vars(WorkerNeedsMutex(w)) /\ WF_vars(WorkerOnItsOwn(w))
  /\ \A c \in Caller : SF_vars(CallNeedsMutex(c)) /\ WF_vars(CallOnItsOwn(c))

FairSpec == Spec /\ Fairness
-----------------------------------------------------------------------------
(* The atomic counters, although updated outside the mutex and one after   *)
(* the other, stay in step with the workers: active_tasks_ counts exactly  *)
(* the workers between their ++ and -- (so the unsigned counter never      *)
(* wraps), and completed_tasks_ lags behind the finished tasks by exactly  *)
(* the workers that have still to add theirs.                              *)
CountersExact ==
  /\ active_tasks = Cardinality(Active)
  /\ completed_tasks + Cardinality(Pending) = Cardinality(Finished)

(* However the workers race for the queue, a task is executed at most      *)
(* once, and never if its enqueue threw.                                   *)
AtMostOnce ==
  \A t \in Task : runs[t] <= 1 /\ (t \in refused => runs[t] = 0)

(* When wait_all returns, every task that was accepted before the call has *)
(* been executed, whoever enqueued it.                                     *)
WaitAllSound ==
  \A c \in Caller : cpc[c] = "waitDone" => waitFor[c] \subseteq Finished

(* When the shutdown that set stop_ has returned, every task ever accepted *)
(* has been executed, also those accepted by an enqueue that raced with    *)
(* it, and no worker thread is left.                                       *)
ShutdownDrains ==
  \A c \in Caller : cpc[c] = "shutDone" /\ c = closer =>
                       /\ Accepted = Finished
                       /\ \A w \in Worker : wpc[w] = "exited"

(* An accepted task is eventually executed: neither notify_one after the   *)
(* unlock nor a shutdown loses it.                                         *)
AcceptedIsRun == \A t \in Task : t \in Accepted ~> runs[t] = 1

(* A shutdown that set stop_ eventually returns: no worker sleeps through  *)
(* the notification.                                                       *)
ShutdownReturns ==
  \A c \in Caller : cpc[c] = "stopNotify" ~> cpc[c] = "shutDone"

(* The pool does what TaskPool promises, at every step.                    *)
Promise == INSTANCE TaskPool WITH
             Size     <- Cardinality(Worker),
             pending  <- tasks,
             running  <- Running,
             finished <- Finished,
             closed   <- stop,
             waiting  <- {c \in Caller :
                            cpc[c] \in {"waitLock", "waitBlock", "blocked"}}

(* The safety part of the promise: FIFO starts, at most one task per       *)
(* worker at a time, no acceptance once closed, wait_all only returns from *)
(* an idle pool.                                                           *)
ImplementsTaskPool == Promise!Spec

-----------------------------------------------------------------------------
(* What a comment and a test say, and the code does not do.                *)

(* wait_all "Blocks the caller until all queued and active tasks have      *)
(* finished" (thread_pool.hpp:129), and no longer.                         *)
WaitAllReturns ==
  \A c \in Caller : cpc[c] = "waitLock" ~> cpc[c] = "waitDone"

(* Whoever returns from wait_all and asks for completed_tasks finds the    *)
(* tasks it waited for counted (tests/phase1_smoke.cpp:624-626).           *)
CompletedWhenAwaited ==
  \A c \in Caller : cpc[c] = "waitDone" => completed_tasks >= Cardinality(waitFor[c])
=============================================================================
