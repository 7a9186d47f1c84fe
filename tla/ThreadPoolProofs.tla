-------------------------- MODULE ThreadPoolProofs --------------------------
(***************************************************************************)
(* For every set of workers, callers and tasks: ThreadPool runs a task at  *)
(* most once, counts exactly, returns from wait_all and shutdown only when *)
(* it may, and implements TaskPool.                                        *)
(***************************************************************************)
EXTENDS ThreadPool, FiniteSetTheorems, SequenceTheorems, TLAPS

(* A task is in one place at a time: one position of the queue, one        *)
(* worker, or executed; and nowhere if its enqueue threw.                  *)
OnePlace ==
  /\ \A i, j \in DOMAIN tasks : tasks[i] = tasks[j] => i = j
  /\ \A w \in Worker : Held(w) => task[w] \in Task
  /\ \A v, w \in Worker : Held(v) /\ Held(w) /\ task[v] = task[w] => v = w
  /\ Queued \cap Running = {}
  /\ Queued \cap Finished = {}
  /\ Running \cap Finished = {}
  /\ refused \cap Accepted = {}
  /\ \A t \in Task : runs[t] <= 1

Counting == IsFiniteSet(Finished) /\ CountersExact

(* What a caller of wait_all waits for is never forgotten, and is finished *)
(* from its return on.                                                     *)
Waits ==
  \A c \in Caller : /\ waitFor[c] \subseteq Accepted
                    /\ cpc[c] = "waitDone" => waitFor[c] \subseteq Finished

(* A worker leaves only a drained, closed pool; the closer is alone in     *)
(* shutdown until every worker has left.                                   *)
Stopping ==
  /\ \A w \in Worker : wpc[w] = "exited" => stop /\ tasks = <<>>
  /\ closer # NoOne => stop
  /\ \A c \in Caller : cpc[c] \in {"stopNotify", "join"} => closer = c
  /\ \A c \in Caller : closer = c /\ cpc[c] \notin {"stopNotify", "join"}
                         => \A w \in Worker : wpc[w] = "exited"

IInv == TypeOK /\ OnePlace /\ Counting /\ Waits /\ Stopping

-----------------------------------------------------------------------------
(* Every variable keeps its type: in particular the counters never wrap    *)
(* below zero, because a worker that decrements is one that has counted.   *)
LEMMA InitInv == Init => IInv
<1> SUFFICES ASSUME Init PROVE IInv
  OBVIOUS
<1> USE DEF Init
<1>1. TypeOK
  <2>1. tasks \in Seq(Task)
    BY EmptySeq
  <2>2. wpc \in [Worker -> WorkerPC] /\ cpc \in [Caller -> CallerPC]
    BY DEF WorkerPC, CallerPC
  <2> QED
    BY <2>1, <2>2 DEF TypeOK
<1>2. Queued = {} /\ Running = {} /\ Finished = {} /\ Active = {} /\ Pending = {}
  BY DEF Queued, Running, Held, Finished, Active, Pending
<1>3. OnePlace
  BY <1>2 DEF OnePlace, Accepted, Held
<1>4. Counting
  BY <1>2, FS_EmptySet DEF Counting, CountersExact
<1>5. Waits
  BY DEF Waits
<1>6. Stopping
  BY CallerAssumption DEF Stopping
<1> QED
  BY <1>1, <1>3, <1>4, <1>5, <1>6 DEF IInv

(* The invariant mentions nothing but the variables.                       *)
LEMMA StutterInv == IInv /\ UNCHANGED vars => IInv'
<1> SUFFICES ASSUME IInv, UNCHANGED vars PROVE IInv'
  OBVIOUS
<1> USE DEF IInv, vars
<1>1. /\ Queued' = Queued /\ Running' = Running /\ Finished' = Finished
      /\ Active' = Active /\ Pending' = Pending /\ Accepted' = Accepted
  BY DEF Queued, Running, Held, Finished, Accepted, Active, Pending
<1>2. TypeOK'
  BY DEF TypeOK
<1>3. OnePlace'
  BY <1>1 DEF OnePlace, Held
<1>4. Counting'
  BY <1>1 DEF Counting, CountersExact
<1>5. Waits'
  BY <1>1 DEF Waits
<1>6. Stopping'
  BY DEF Stopping
<1> QED
  BY <1>2, <1>3, <1>4, <1>5, <1>6

LEMMA ActiveFinite == IsFiniteSet(Active) /\ IsFiniteSet(Pending)
BY WorkerAssumption, FS_Subset DEF Active, Pending

(* What the front of a queue without repetitions leaves when it is popped, *)
(* and what emplace adds.                                                  *)
LEMMA PopFront ==
  ASSUME NEW s \in Seq(Task), s # <<>>,
         \A i, j \in DOMAIN s : s[i] = s[j] => i = j
  PROVE  /\ Head(s) \in {s[i] : i \in DOMAIN s}
         /\ {Tail(s)[i] : i \in DOMAIN Tail(s)}
              = {s[i] : i \in DOMAIN s} \ {Head(s)}
<1>1. /\ Tail(s) \in Seq(Task) /\ Len(Tail(s)) = Len(s) - 1 /\ Len(s) > 0
      /\ \A i \in 1 .. Len(Tail(s)) : Tail(s)[i] = s[i+1]
  BY HeadTailProperties
<1>2. DOMAIN s = 1 .. Len(s) /\ DOMAIN Tail(s) = 1 .. Len(s) - 1 /\ Head(s) = s[1]
  BY <1>1
<1>3. \A i \in DOMAIN s : s[i] # Head(s) => /\ i - 1 \in DOMAIN Tail(s)
                                          /\ Tail(s)[i - 1] = s[i]
  BY <1>1, <1>2
<1>4. \A i \in DOMAIN Tail(s) : /\ i + 1 \in DOMAIN s
                                /\ Tail(s)[i] = s[i + 1]
                                /\ s[i + 1] # Head(s)
  BY <1>1, <1>2
<1>5. Head(s) \in {s[i] : i \in DOMAIN s}
  BY <1>1, <1>2
<1>6. \A x \in {Tail(s)[i] : i \in DOMAIN Tail(s)} : x \in {s[i] : i \in DOMAIN s} \ {Head(s)}
  BY <1>4
<1>7. \A x \in {s[i] : i \in DOMAIN s} \ {Head(s)} : x \in {Tail(s)[i] : i \in DOMAIN Tail(s)}
  BY <1>3
<1> QED
  BY <1>5, <1>6, <1>7

LEMMA PushBack ==
  ASSUME NEW s \in Seq(Task), NEW t \in Task
  PROVE  {Append(s, t)[i] : i \in DOMAIN Append(s, t)}
           = {s[i] : i \in DOMAIN s} \cup {t}
<1>1. /\ DOMAIN Append(s, t) = 1 .. Len(s) + 1 /\ DOMAIN s = 1 .. Len(s)
      /\ Len(s) \in Nat
      /\ \A i \in 1 .. Len(s) : Append(s, t)[i] = s[i]
      /\ Append(s, t)[Len(s) + 1] = t
  OBVIOUS
<1> QED
  BY <1>1

(* A step that touches neither the queue nor a task on its way, and moves  *)
(* workers only between places where they hold none, disturbs no task and  *)
(* no counter.                                                             *)
LEMMA QuietStep ==
  ASSUME IInv,
         UNCHANGED <<tasks, active_tasks, completed_tasks, runs, refused>>,
         \A w \in Worker :
           \/ wpc'[w] = wpc[w]
           \/ {wpc[w], wpc'[w]} \subseteq {"lock", "waiting", "exited", "notify"},
         \A w \in Worker : Held(w) => task'[w] = task[w]
  PROVE  OnePlace' /\ Counting' /\ Accepted' = Accepted /\ Finished' = Finished
<1> USE DEF IInv
<1>1. \A w \in Worker : Held(w)' <=> Held(w)
  BY DEF Held
<1>2. /\ Queued' = Queued /\ Finished' = Finished /\ Active' = Active
      /\ Pending' = Pending
  BY DEF Queued, Finished, Active, Pending
<1>3. Running' = Running
  BY <1>1 DEF Running
<1>4. Accepted' = Accepted
  BY <1>2, <1>3 DEF Accepted
<1>5. OnePlace'
  BY <1>1, <1>2, <1>3, <1>4 DEF OnePlace
<1>6. Counting'
  BY <1>2 DEF Counting, CountersExact
<1> QED
  BY <1>2, <1>4, <1>5, <1>6

LEMMA TakeTaskInv ==
  ASSUME IInv, NEW w \in Worker, TakeTask(w)
  PROVE  IInv'
<1> USE DEF IInv, TakeTask
<1>h. /\ Head(tasks) \in Task
      /\ Tail(tasks) \in Seq(Task)
      /\ Len(Tail(tasks)) = Len(tasks) - 1
      /\ Len(tasks) > 0
      /\ \A i \in 1 .. Len(Tail(tasks)) : Tail(tasks)[i] = tasks[i+1]
  BY HeadTailProperties DEF TypeOK
<1>q. Queued' = Queued \ {Head(tasks)} /\ Head(tasks) \in Queued
  BY PopFront DEF TypeOK, OnePlace, Queued
<1>r. Running' = Running \cup {Head(tasks)} /\ Finished' = Finished
  BY DEF TypeOK, Running, Held, Finished, history
<1>a. /\ Active' = Active \cup {w} /\ w \notin Active /\ Pending' = Pending
  BY DEF TypeOK, Active, Pending
<1>1. TypeOK'
  BY <1>h DEF TypeOK, WorkerPC, history
<1>2. OnePlace'
  <2>1. \A i, j \in DOMAIN tasks' : tasks'[i] = tasks'[j] => i = j
    BY <1>h DEF OnePlace, TypeOK
  <2>2. \A v \in Worker : Held(v)' => task'[v] \in Task
    BY <1>h DEF OnePlace, TypeOK, Held
  <2>3. \A v \in Worker \ {w} : Held(v)' => task'[v] # Head(tasks)
    BY <1>q DEF OnePlace, TypeOK, Held, Running
  <2>4. \A u, v \in Worker : Held(u)' /\ Held(v)' /\ task'[u] = task'[v] => u = v
    BY <2>3 DEF OnePlace, TypeOK, Held
  <2>5. Accepted' = Accepted
    BY <1>q, <1>r DEF Accepted
  <2> QED
    BY <1>q, <1>r, <2>1, <2>2, <2>4, <2>5 DEF OnePlace, history
<1>3. Counting'
  BY <1>r, <1>a, ActiveFinite, FS_AddElement DEF Counting, CountersExact, TypeOK
<1>4. Waits'
  BY <1>q, <1>r DEF Waits, Accepted, history
<1>5. Stopping'
  BY DEF Stopping, TypeOK, history
<1> QED
  BY <1>1, <1>2, <1>3, <1>4, <1>5

LEMMA RunTaskInv ==
  ASSUME IInv, NEW w \in Worker, RunTask(w)
  PROVE  IInv'
<1> USE DEF IInv, RunTask, poolVars, counters
<1>t. /\ task[w] \in Task /\ task[w] \in Running
      /\ runs[task[w]] = 0 /\ task[w] \notin Finished
  BY DEF OnePlace, TypeOK, Held, Running, Finished
<1>q. /\ Queued' = Queued
      /\ Finished' = Finished \cup {task[w]}
  BY <1>t DEF Queued, Finished, TypeOK
<1>r. Running' = Running \ {task[w]}
  <2>1. \A v \in Worker : Held(v)' <=> Held(v) /\ v # w
    BY DEF Held, TypeOK
  <2> QED
    BY <2>1 DEF Running, OnePlace, Held
<1>a. /\ Active' = Active
      /\ Pending' = Pending \cup {w} /\ w \notin Pending
  BY DEF TypeOK, Active, Pending
<1>b. Accepted' = Accepted
  BY <1>q, <1>r, <1>t DEF Accepted
<1>1. TypeOK'
  BY <1>t DEF TypeOK, WorkerPC
<1>2. OnePlace'
  <2>1. \A v \in Worker : Held(v)' => Held(v)
    BY DEF Held, TypeOK
  <2>2. \A t \in Task : runs'[t] <= 1
    BY <1>t DEF OnePlace, TypeOK
  <2>3. Queued' \cap Finished' = {} /\ Running' \cap Finished' = {}
    BY <1>q, <1>r, <1>t DEF OnePlace
  <2>4. Queued' \cap Running' = {}
    BY <1>q, <1>r DEF OnePlace
  <2> QED
    BY <1>b, <2>1, <2>2, <2>3, <2>4 DEF OnePlace
<1>3. Counting'
  <2>1. /\ IsFiniteSet(Finished') /\ Cardinality(Finished') = Cardinality(Finished) + 1
        /\ Cardinality(Pending') = Cardinality(Pending) + 1
    BY <1>q, <1>a, <1>t, ActiveFinite, FS_AddElement DEF Counting
  <2>2. Cardinality(Finished) \in Nat /\ Cardinality(Pending) \in Nat
    BY ActiveFinite, FS_CardinalityType DEF Counting
  <2> QED
    BY <1>a, <2>1, <2>2 DEF Counting, CountersExact, TypeOK
<1>4. Waits'
  BY <1>q, <1>b DEF Waits
<1>5. Stopping'
  BY DEF Stopping, TypeOK
<1> QED
  BY <1>1, <1>2, <1>3, <1>4, <1>5

LEMMA DeactivateInv ==
  ASSUME IInv, NEW w \in Worker, Deactivate(w)
  PROVE  IInv'
<1> USE DEF IInv, Deactivate, poolVars, history
<1>q. Queued' = Queued /\ Running' = Running /\ Finished' = Finished
  BY DEF TypeOK, Queued, Running, Held, Finished
<1>a. Active' = Active \ {w} /\ w \in Active /\ Pending' = Pending
  BY DEF TypeOK, Active, Pending
<1>n. /\ active_tasks' = Cardinality(Active') /\ active_tasks' \in Nat
  <2>1. IsFiniteSet(Active') /\ Cardinality(Active') = Cardinality(Active) - 1
    BY <1>a, ActiveFinite, FS_RemoveElement
  <2> QED
    BY <2>1, FS_CardinalityType DEF Counting, CountersExact
<1>1. TypeOK'
  BY <1>n DEF TypeOK, WorkerPC
<1>2. OnePlace'
  BY <1>q DEF OnePlace, Accepted, Held, TypeOK
<1>3. Counting'
  BY <1>q, <1>a, <1>n DEF Counting, CountersExact
<1>4. Waits'
  BY <1>q DEF Waits, Accepted
<1>5. Stopping'
  BY DEF Stopping, TypeOK
<1> QED
  BY <1>1, <1>2, <1>3, <1>4, <1>5

LEMMA CompleteInv ==
  ASSUME IInv, NEW w \in Worker, Complete(w)
  PROVE  IInv'
<1> USE DEF IInv, Complete, poolVars, history
<1>q. Queued' = Queued /\ Running' = Running /\ Finished' = Finished
  BY DEF TypeOK, Queued, Running, Held, Finished
<1>a. Pending' = Pending \ {w} /\ w \in Pending /\ Active' = Active
  BY DEF TypeOK, Active, Pending
<1>1. TypeOK'
  BY DEF TypeOK, WorkerPC
<1>2. OnePlace'
  BY <1>q DEF OnePlace, Accepted, Held, TypeOK
<1>3. Counting'
  <2>1. /\ Cardinality(Pending') = Cardinality(Pending) - 1
        /\ Cardinality(Pending) \in Nat
    BY <1>a, ActiveFinite, FS_RemoveElement, FS_CardinalityType
  <2> QED
    BY <1>q, <1>a, <2>1 DEF Counting, CountersExact, TypeOK
<1>4. Waits'
  BY <1>q DEF Waits, Accepted
<1>5. Stopping'
  BY DEF Stopping, TypeOK
<1> QED
  BY <1>1, <1>2, <1>3, <1>4, <1>5

(* The wait and the end of a worker, and a spurious wakeup.                *)
LEMMA IdleWorkerInv ==
  ASSUME IInv, NEW w \in Worker,
         WaitForTask(w) \/ Exit(w) \/ SpuriousWorkerWakeup(w)
  PROVE  IInv'
<1> USE DEF IInv, WaitForTask, Exit, SpuriousWorkerWakeup, WakeWorkers,
            poolVars, counters, history
<1>1. TypeOK'
  BY DEF TypeOK, WorkerPC
<1>2. OnePlace' /\ Counting' /\ Accepted' = Accepted /\ Finished' = Finished
  <2>1. \A v \in Worker : \/ wpc'[v] = wpc[v]
                          \/ {wpc[v], wpc'[v]} \subseteq {"lock", "waiting", "exited", "notify"}
    BY DEF TypeOK
  <2>2. UNCHANGED <<tasks, active_tasks, completed_tasks, runs, refused, task>>
    OBVIOUS
  <2> QED
    BY <2>1, <2>2, QuietStep
<1>3. Waits'
  BY <1>2 DEF Waits
<1>4. Stopping'
  BY DEF Stopping, TypeOK
<1> QED
  BY <1>1, <1>2, <1>3, <1>4

LEMMA NotifyCompletionInv ==
  ASSUME IInv, NEW w \in Worker, NotifyCompletion(w)
  PROVE  IInv'
<1> USE DEF IInv, NotifyCompletion, poolVars, counters, history
<1>1. TypeOK'
  BY DEF TypeOK, WorkerPC, CallerPC
<1>2. OnePlace' /\ Counting' /\ Accepted' = Accepted /\ Finished' = Finished
  <2>1. \A v \in Worker : \/ wpc'[v] = wpc[v]
                          \/ {wpc[v], wpc'[v]} \subseteq {"lock", "waiting", "exited", "notify"}
    BY DEF TypeOK
  <2>2. \A v \in Worker : Held(v) => task'[v] = task[v]
    BY DEF TypeOK, Held
  <2> QED
    BY <2>1, <2>2, QuietStep
<1>3. Waits'
  BY <1>2 DEF Waits, TypeOK
<1>4. Stopping'
  BY DEF Stopping, TypeOK
<1> QED
  BY <1>1, <1>2, <1>3, <1>4

LEMMA EnqueueAcceptedInv ==
  ASSUME IInv, NEW c \in Caller, NEW t \in Task, EnqueueAccepted(c, t)
  PROVE  IInv'
<1> USE DEF IInv, EnqueueAccepted, counters, history
<1>q. /\ Queued' = Queued \cup {t} /\ t \notin Accepted /\ t \notin refused
      /\ Running' = Running /\ Finished' = Finished
      /\ Active' = Active /\ Pending' = Pending
  <2>1. Queued' = Queued \cup {t}
    <3>1. {Append(tasks, t)[i] : i \in DOMAIN Append(tasks, t)} = Queued \cup {t}
      BY PushBack DEF Queued, TypeOK
    <3>2. Queued' = {Append(tasks, t)[i] : i \in DOMAIN Append(tasks, t)}
      BY DEF Queued
    <3> QED
      BY <3>1, <3>2
  <2> QED
    BY <2>1 DEF Running, Held, Finished, Active, Pending
<1>1. TypeOK'
  BY DEF TypeOK, CallerPC
<1>2. OnePlace'
  <2>1. \A i, j \in DOMAIN tasks' : tasks'[i] = tasks'[j] => i = j
    <3>1. \A i \in DOMAIN tasks : tasks[i] # t
      BY DEF Accepted, Queued
    <3>2. /\ DOMAIN tasks' = 1 .. Len(tasks) + 1 /\ DOMAIN tasks = 1 .. Len(tasks)
          /\ Len(tasks) \in Nat /\ tasks'[Len(tasks) + 1] = t
          /\ \A i \in 1 .. Len(tasks) : tasks'[i] = tasks[i]
      BY DEF TypeOK
    <3> QED
      BY <3>1, <3>2 DEF OnePlace
  <2>2. /\ Queued' \cap Running' = {} /\ Queued' \cap Finished' = {}
        /\ refused' \cap Accepted' = {}
    BY <1>q DEF OnePlace, Accepted
  <2> QED
    BY <1>q, <2>1, <2>2 DEF OnePlace, Held
<1>3. Counting'
  BY <1>q DEF Counting, CountersExact
<1>4. Waits'
  BY <1>q DEF Waits, Accepted, TypeOK
<1>5. Stopping'
  BY DEF Stopping, TypeOK
<1> QED
  BY <1>1, <1>2, <1>3, <1>4, <1>5

LEMMA EnqueueRefusedInv ==
  ASSUME IInv, NEW c \in Caller, NEW t \in Task, EnqueueRefused(c, t)
  PROVE  IInv'
<1> USE DEF IInv, EnqueueRefused, poolVars, counters
<1>q. /\ Queued' = Queued /\ Running' = Running /\ Finished' = Finished
      /\ Active' = Active /\ Pending' = Pending /\ Accepted' = Accepted
  BY DEF Queued, Running, Held, Finished, Active, Pending, Accepted
<1>1. TypeOK'
  BY DEF TypeOK
<1>2. OnePlace'
  BY <1>q DEF OnePlace, Held
<1>3. Counting'
  BY <1>q DEF Counting, CountersExact
<1>4. Waits'
  BY <1>q DEF Waits
<1>5. Stopping'
  BY DEF Stopping
<1> QED
  BY <1>1, <1>2, <1>3, <1>4, <1>5

(* The predicate of wait_all, read under the mutex, is exact.              *)
LEMMA AllDoneMeansIdle == IInv /\ AllDone => Accepted = Finished /\ Running = {}
<1> SUFFICES ASSUME IInv, AllDone PROVE Accepted = Finished /\ Running = {}
  OBVIOUS
<1>1. Queued = {}
  BY DEF AllDone, Queued
<1>2. Active = {}
  BY ActiveFinite, FS_EmptySet DEF IInv, Counting, CountersExact, AllDone
<1>3. Running = {}
  BY <1>2 DEF Active, Running, Held
<1> QED
  BY <1>1, <1>3 DEF Accepted

(* The steps of a caller that leave queue, tasks and workers to others.    *)
LEMMA CallerOnlyInv ==
  ASSUME IInv, NEW c \in Caller,
         \/ WaitCall(c) \/ WaitSatisfied(c) \/ WaitUnsatisfied(c) \/ Block(c)
         \/ SpuriousCallerWakeup(c) \/ ShutdownFirst(c) \/ ShutdownAgain(c)
         \/ Join(c) \/ Resume(c)
  PROVE  IInv'
<1> USE DEF IInv, WaitCall, WaitSatisfied, WaitUnsatisfied, Block,
            SpuriousCallerWakeup, ShutdownFirst, ShutdownAgain, Join, Resume,
            poolVars, counters, history
<1>1. Accepted \subseteq Task
  BY DEF Accepted, Queued, Running, Finished, Held, OnePlace, TypeOK
<1>2. TypeOK'
  BY <1>1 DEF TypeOK, CallerPC
<1>3. OnePlace' /\ Counting' /\ Accepted' = Accepted /\ Finished' = Finished
  <2>1. UNCHANGED <<tasks, active_tasks, completed_tasks, runs, refused, wpc, task>>
    OBVIOUS
  <2> QED
    BY <2>1, QuietStep
<1>4. Waits'
  BY <1>3, AllDoneMeansIdle DEF Waits, TypeOK
<1>5. Stopping'
  BY CallerAssumption DEF Stopping, TypeOK
<1> QED
  BY <1>2, <1>3, <1>4, <1>5

LEMMA NotifyWorkersInv ==
  ASSUME IInv, NEW c \in Caller, NotifyOne(c) \/ NotifyStop(c)
  PROVE  IInv'
<1> USE DEF IInv, NotifyOne, NotifyStop, WakeWorkers, poolVars, counters, history
<1>1. TypeOK'
  BY DEF TypeOK, WorkerPC, CallerPC
<1>2. \A v \in Worker : \/ wpc'[v] = wpc[v]
                        \/ wpc[v] = "waiting" /\ wpc'[v] = "lock"
  BY DEF TypeOK
<1>3. OnePlace' /\ Counting' /\ Accepted' = Accepted /\ Finished' = Finished
  <2>1. UNCHANGED <<tasks, active_tasks, completed_tasks, runs, refused, task>>
    OBVIOUS
  <2> QED
    BY <1>2, <2>1, QuietStep
<1>4. Waits'
  BY <1>3 DEF Waits, TypeOK
<1>5. Stopping'
  <2>1. UNCHANGED <<tasks, stop, closer>>
    OBVIOUS
  <2>2. \A d \in Caller : \/ cpc'[d] = cpc[d]
                          \/ d = c /\ cpc[c] = "notifyOne" /\ cpc'[c] = "idle"
                          \/ d = c /\ cpc[c] = "stopNotify" /\ cpc'[c] = "join"
    BY DEF TypeOK
  <2> QED
    BY <1>2, <2>1, <2>2 DEF Stopping
<1> QED
  BY <1>1, <1>3, <1>4, <1>5

LEMMA NextInv == IInv /\ [Next]_vars => IInv'
<1> SUFFICES ASSUME IInv, [Next]_vars PROVE IInv'
  OBVIOUS
<1>1. ASSUME NEW w \in Worker, WorkerStep(w) PROVE IInv'
  BY <1>1, TakeTaskInv, RunTaskInv, DeactivateInv, CompleteInv, IdleWorkerInv,
     NotifyCompletionInv
  DEF WorkerStep, WorkerNeedsMutex, WorkerOnItsOwn
<1>2. ASSUME NEW c \in Caller, CallerStep(c) PROVE IInv'
  BY <1>2, EnqueueAcceptedInv, EnqueueRefusedInv, CallerOnlyInv, NotifyWorkersInv
  DEF CallerStep, Call, CallNeedsMutex, CallOnItsOwn
<1> QED
  BY <1>1, <1>2, StutterInv DEF Next

(* The inductive invariant holds in every behaviour of the pool.           *)
THEOREM Invariance == Spec => []IInv
<1> QED
  BY InitInv, NextInv, PTL DEF Spec

(* Every variable keeps its type: the unsigned counters never wrap.        *)
THEOREM TypeCorrect == Spec => []TypeOK
<1>1. IInv => TypeOK
  BY DEF IInv
<1> QED
  BY <1>1, Invariance, PTL

(* The atomic counters are exact, for any number of workers.               *)
THEOREM CountersAreExact == Spec => []CountersExact
<1>1. IInv => CountersExact
  BY DEF IInv, Counting
<1> QED
  BY <1>1, Invariance, PTL

(* No task is executed twice, and none whose enqueue threw.                *)
THEOREM RunsAtMostOnce == Spec => []AtMostOnce
<1>1. IInv => AtMostOnce
  <2> SUFFICES ASSUME IInv, NEW t \in Task
               PROVE  runs[t] <= 1 /\ (t \in refused => runs[t] = 0)
    BY DEF AtMostOnce
  <2>1. t \in refused => t \notin Finished
    BY DEF IInv, OnePlace, Accepted
  <2> QED
    BY <2>1 DEF IInv, OnePlace, TypeOK, Finished
<1> QED
  BY <1>1, Invariance, PTL

(* wait_all returns only when what it was called for is done.              *)
THEOREM WaitAllIsSound == Spec => []WaitAllSound
<1>1. IInv => WaitAllSound
  BY DEF IInv, Waits, WaitAllSound
<1> QED
  BY <1>1, Invariance, PTL

(* The shutdown that closed the pool returns only from a drained pool.     *)
THEOREM ShutdownHasDrained == Spec => []ShutdownDrains
<1>1. IInv => ShutdownDrains
  <2> SUFFICES ASSUME IInv, NEW c \in Caller, cpc[c] = "shutDone", c = closer
               PROVE  /\ Accepted = Finished
                      /\ \A w \in Worker : wpc[w] = "exited"
    BY DEF ShutdownDrains
  <2>1. \A w \in Worker : wpc[w] = "exited"
    BY DEF IInv, Stopping
  <2>2. tasks = <<>>
    BY <2>1, WorkerAssumption DEF IInv, Stopping
  <2>3. Queued = {} /\ Running = {}
    BY <2>1, <2>2 DEF Queued, Running, Held
  <2> QED
    BY <2>1, <2>3 DEF Accepted
<1> QED
  BY <1>1, Invariance, PTL

-----------------------------------------------------------------------------
(* The refinement: which step of the promise each step of the code is.     *)

Waiting == {c \in Caller : cpc[c] \in {"waitLock", "waitBlock", "blocked"}}

AbstractVars == <<tasks, Running, Finished, stop, Waiting>>

LEMMA InitRefines == Init => Promise!Init
BY DEF Init, Promise!Init, Running, Held, Finished

LEMMA TakeTaskRefines ==
  ASSUME IInv, NEW w \in Worker, TakeTask(w)
  PROVE  Promise!Start
<1> USE DEF IInv, TakeTask, history
<1>1. Running' = Running \cup {Head(tasks)} /\ Finished' = Finished
  BY DEF TypeOK, Running, Held, Finished
<1>2. Waiting' = Waiting
  BY DEF Waiting
<1>3. Cardinality(Running) < Cardinality(Worker)
  <2> DEFINE Busy == {v \in Worker : Held(v)}
             f == [v \in Busy |-> task[v]]
  <2>1. IsFiniteSet(Worker \ {w}) /\ Cardinality(Worker \ {w}) = Cardinality(Worker) - 1
    BY WorkerAssumption, FS_RemoveElement
  <2>2. IsFiniteSet(Busy) /\ Cardinality(Busy) <= Cardinality(Worker \ {w})
    <3>1. Busy \subseteq Worker \ {w}
      BY DEF Held
    <3> QED
      BY <2>1, <3>1, FS_Subset
  <2>3. f \in Surjection(Busy, Running)
    BY DEF Running, Surjection
  <2>4. IsFiniteSet(Running) /\ Cardinality(Running) <= Cardinality(Busy)
    BY <2>2, <2>3, FS_Surjection
  <2> QED
    BY <2>1, <2>2, <2>4, WorkerAssumption, FS_CardinalityType
<1>4. tasks # <<>> /\ tasks' = Tail(tasks) /\ stop' = stop
  OBVIOUS
<1> HIDE DEF IInv, TakeTask, history
<1>5. Promise!Cardinality(Running) = Cardinality(Running)
  BY DEF Promise!Cardinality, Cardinality, Promise!IsFiniteSet, IsFiniteSet
<1> QED
  BY <1>1, <1>2, <1>3, <1>4, <1>5 DEF Promise!Start, Waiting

LEMMA RunTaskRefines ==
  ASSUME IInv, NEW w \in Worker, RunTask(w)
  PROVE  \E t \in Task : Promise!Finish(t)
<1> USE DEF IInv, RunTask, poolVars, counters
<1>1. task[w] \in Task /\ task[w] \in Running
  BY DEF OnePlace, Held, Running
<1>2. Finished' = Finished \cup {task[w]}
  BY <1>1 DEF Finished, TypeOK
<1>3. Running' = Running \ {task[w]}
  <2>1. \A v \in Worker : Held(v)' <=> Held(v) /\ v # w
    BY DEF Held, TypeOK
  <2> QED
    BY <2>1 DEF Running, OnePlace, Held
<1>4. Waiting' = Waiting
  BY DEF Waiting
<1> QED
  BY <1>1, <1>2, <1>3, <1>4 DEF Promise!Finish, Waiting

LEMMA EnqueueRefines ==
  ASSUME IInv, NEW c \in Caller, NEW t \in Task, EnqueueAccepted(c, t)
  PROVE  Promise!Accept(t)
<1> USE DEF IInv, EnqueueAccepted, counters, history
<1>1. Running' = Running /\ Finished' = Finished
  BY DEF Running, Held, Finished
<1>2. Waiting' = Waiting
  BY DEF Waiting, TypeOK
<1>3. t \notin Promise!Accepted
  BY DEF Promise!Accepted, Accepted, Queued
<1> QED
  BY <1>1, <1>2, <1>3 DEF Promise!Accept, Waiting

(* Steps of the worker between two tasks are invisible.                    *)
LEMMA WorkerStutters ==
  ASSUME IInv, NEW w \in Worker,
         \/ WaitForTask(w) \/ Exit(w) \/ SpuriousWorkerWakeup(w)
         \/ Deactivate(w) \/ Complete(w) \/ NotifyCompletion(w)
  PROVE  UNCHANGED AbstractVars
<1> USE DEF IInv, WaitForTask, Exit, SpuriousWorkerWakeup, Deactivate, Complete,
            NotifyCompletion, WakeWorkers, poolVars, counters, history
<1>1. UNCHANGED <<tasks, stop, runs>>
  OBVIOUS
<1>2. \A v \in Worker : (Held(v)' <=> Held(v)) /\ (Held(v) => task'[v] = task[v])
  BY DEF Held, TypeOK
<1>3. Running' = Running /\ Finished' = Finished
  BY <1>1, <1>2 DEF Running, Finished
<1>4. Waiting' = Waiting
  BY DEF Waiting, TypeOK
<1> QED
  BY <1>1, <1>3, <1>4 DEF AbstractVars

LEMMA CallerStutters ==
  ASSUME IInv, NEW c \in Caller,
         \/ \E t \in Task : EnqueueRefused(c, t)
         \/ NotifyOne(c) \/ NotifyStop(c) \/ Join(c) \/ Resume(c)
         \/ WaitUnsatisfied(c) \/ Block(c) \/ SpuriousCallerWakeup(c)
         \/ ShutdownAgain(c)
  PROVE  UNCHANGED AbstractVars
<1> USE DEF IInv, EnqueueRefused, NotifyOne, NotifyStop, Join, Resume,
            WaitUnsatisfied, Block, SpuriousCallerWakeup, ShutdownAgain,
            WakeWorkers, poolVars, counters, history
<1>1. UNCHANGED <<tasks, stop, runs, task>>
  OBVIOUS
<1>2. \A v \in Worker : Held(v)' <=> Held(v)
  BY DEF Held, TypeOK
<1>3. Running' = Running /\ Finished' = Finished
  BY <1>1, <1>2 DEF Running, Finished
<1>4. Waiting' = Waiting
  BY DEF Waiting, TypeOK
<1> QED
  BY <1>1, <1>3, <1>4 DEF AbstractVars

LEMMA WaitAndCloseRefine ==
  ASSUME IInv, NEW c \in Caller, WaitCall(c) \/ WaitSatisfied(c) \/ ShutdownFirst(c)
  PROVE  Promise!WaitCall(c) \/ Promise!WaitReturn(c) \/ Promise!Close
<1> USE DEF IInv, poolVars, counters, history
<1>1. CASE WaitCall(c)
  <2>1. /\ Running' = Running /\ Finished' = Finished
        /\ c \notin Waiting /\ Waiting' = Waiting \cup {c}
    BY <1>1 DEF WaitCall, Running, Held, Finished, Waiting, TypeOK
  <2> QED
    BY <1>1, <2>1 DEF WaitCall, Promise!WaitCall, Waiting
<1>2. CASE WaitSatisfied(c)
  <2>1. /\ Running' = Running /\ Finished' = Finished
        /\ c \in Waiting /\ Waiting' = Waiting \ {c}
    BY <1>2 DEF WaitSatisfied, Running, Held, Finished, Waiting, TypeOK
  <2>2. tasks = <<>> /\ Running = {}
    BY <1>2, AllDoneMeansIdle DEF WaitSatisfied, AllDone
  <2> QED
    BY <1>2, <2>1, <2>2 DEF WaitSatisfied, Promise!WaitReturn, Waiting
<1>3. CASE ShutdownFirst(c)
  <2>1. Running' = Running /\ Finished' = Finished /\ Waiting' = Waiting
    BY <1>3 DEF ShutdownFirst, Running, Held, Finished, Waiting, TypeOK
  <2> QED
    BY <1>3, <2>1 DEF ShutdownFirst, Promise!Close, Waiting
<1> QED
  BY <1>1, <1>2, <1>3

LEMMA NextRefines == IInv /\ [Next]_vars => [Promise!Next]_(Promise!vars)
<1> SUFFICES ASSUME IInv, [Next]_vars
             PROVE  Promise!Next \/ UNCHANGED AbstractVars
  BY DEF AbstractVars, Promise!vars, Waiting
<1>1. ASSUME NEW w \in Worker, WorkerStep(w)
      PROVE  Promise!Next \/ UNCHANGED AbstractVars
  BY <1>1, TakeTaskRefines, RunTaskRefines, WorkerStutters
  DEF WorkerStep, WorkerNeedsMutex, WorkerOnItsOwn, Promise!Next
<1>2. ASSUME NEW c \in Caller, CallerStep(c)
      PROVE  Promise!Next \/ UNCHANGED AbstractVars
  BY <1>2, EnqueueRefines, WaitAndCloseRefine, CallerStutters
  DEF CallerStep, Call, CallNeedsMutex, CallOnItsOwn, Promise!Next
<1>3. CASE UNCHANGED vars
  BY <1>3 DEF vars, AbstractVars, Running, Held, Finished, Waiting
<1> QED
  BY <1>1, <1>2, <1>3 DEF Next

(* The thread pool implements what TaskPool promises.                      *)
THEOREM ThreadPoolImplementsTaskPool == Spec => ImplementsTaskPool
<1> QED
  BY InitRefines, NextRefines, Invariance, PTL
  DEF Spec, ImplementsTaskPool, Promise!Spec
=============================================================================
