------------------------- MODULE ClientEventsProofs -------------------------
(***************************************************************************)
(* Proofs about ClientEvents for any number of workers and updates: the    *)
(* handlers of each kind start in the order the updates arrived, however   *)
(* the pool is resized, and nothing of a destroyed client runs.            *)
(***************************************************************************)
EXTENDS ClientEvents, SequenceTheorems, TLAPS

USE RunnerAssumption, NoneAssumption, BoundAssumption

(* An update is in one of four places, and those further on its way are    *)
(* the earlier ones: handlers have started, the pool has accepted it, the  *)
(* dispatcher has it, it is queued.                                        *)
Waiting ==
  \/ dpc \in {"process", "lockPool"}
  \/ dpc = "inline" /\ hpc[Dispatcher] = "none"

Hand == IF Waiting THEN <<cur>> ELSE <<>>

Earlier(u, v) == u[2] = v[2] => u[1] < v[1]

Ordered(q) == \A i, j \in DOMAIN q : i < j => Earlier(q[i], q[j])

AllBefore(q, r) == \A i \in DOMAIN q, j \in DOMAIN r : Earlier(q[i], r[j])

UpTo(q, n) == \A i \in DOMAIN q : q[i][1] <= n

OrderInv ==
  /\ Ordered(started) /\ Ordered(pool_tasks) /\ Ordered(update_queue)
  /\ AllBefore(started, pool_tasks) /\ AllBefore(started, Hand)
  /\ AllBefore(started, update_queue) /\ AllBefore(pool_tasks, Hand)
  /\ AllBefore(pool_tasks, update_queue) /\ AllBefore(Hand, update_queue)
  /\ UpTo(started, received) /\ UpTo(pool_tasks, received)
  /\ UpTo(Hand, received) /\ UpTo(update_queue, received)

(* A message overtakes none that the pool has accepted, because without a  *)
(* pool there are none.                                                    *)
WayInv ==
  /\ dpc \in {"process", "lockPool", "inline"} => cur \in Update
  /\ dpc = "lockPool" => cur[2] = "message"
  /\ dpc = "inline" /\ cur[2] = "message" => pool_tasks = <<>>
  /\ hpc[Dispatcher] # "none" => dpc = "inline"
  /\ thread_pool = "none" => pool_tasks = <<>>
  /\ \A i \in DOMAIN pool_tasks : pool_tasks[i][2] = "message"

(* One thread at a time sets the size, and the pool is seen shut down only *)
(* by who holds the mutex, or when the client is being destroyed.          *)
LockInv ==
  /\ mpc \in {"resizing", "drain"} => locked /\ \A x \in Runner : hpc[x] # "resizing"
  /\ \A x \in Runner : hpc[x] = "resizing" =>
       locked /\ \A y \in Runner \ {x} : hpc[y] # "resizing"
  /\ thread_pool = "stopped" =>
       locked \/ mpc \in {"stopDispatcher", "joinDispatcher", "members", "destroyed"}
  /\ thread_pool = "broken" => selfJoin

EndInv ==
  /\ mpc \in {"dtor", "drain", "stopDispatcher", "joinDispatcher", "members",
              "destroyed"} => holders = {}
  /\ mpc \in {"members", "destroyed"} => dpc = "exited"
  /\ mpc = "destroyed" => Drained

IInv == TypeOK /\ OrderInv /\ WayInv /\ LockInv /\ EndInv /\ AbortOnlyInDestruction


-----------------------------------------------------------------------------
(* Sequences in which the updates of a kind come in order                  *)

(* The first of r moves to the end of q; what comes before or after both   *)
(* does not notice.                                                        *)
LEMMA MoveKeeps ==
  ASSUME NEW q \in Seq(Update), NEW r \in Seq(Update), r # <<>>,
         Ordered(q), Ordered(r), AllBefore(q, r)
  PROVE  /\ Append(q, Head(r)) \in Seq(Update) /\ Tail(r) \in Seq(Update)
         /\ Ordered(Append(q, Head(r))) /\ Ordered(Tail(r))
         /\ AllBefore(Append(q, Head(r)), Tail(r))
         /\ \A p \in Seq(Update) :
              /\ AllBefore(p, q) /\ AllBefore(p, r) =>
                   AllBefore(p, Append(q, Head(r))) /\ AllBefore(p, Tail(r))
              /\ AllBefore(q, p) /\ AllBefore(r, p) =>
                   AllBefore(Append(q, Head(r)), p) /\ AllBefore(Tail(r), p)
         /\ \A n : UpTo(q, n) /\ UpTo(r, n) =>
              UpTo(Append(q, Head(r)), n) /\ UpTo(Tail(r), n)
<1>0. Head(r) \in Update /\ Tail(r) \in Seq(Update)
  BY HeadTailProperties
<1> PICK a \in Seq(Update) : a = Append(q, Head(r))
  BY <1>0, AppendProperties
<1> PICK b \in Seq(Update) : b = Tail(r)
  BY <1>0
<1>1. /\ Len(q) \in Nat /\ DOMAIN q = 1 .. Len(q) /\ DOMAIN a = 1 .. Len(q) + 1
      /\ \A i \in 1 .. Len(q) : a[i] = q[i]
      /\ a[Len(q) + 1] = r[1] /\ 1 \in DOMAIN r
  OBVIOUS
<1>2. /\ Len(r) \in Nat /\ DOMAIN r = 1 .. Len(r) /\ DOMAIN b = 1 .. Len(r) - 1
      /\ \A i \in DOMAIN b : b[i] = r[i + 1] /\ i + 1 \in DOMAIN r /\ 1 < i + 1
  OBVIOUS
<1>3. Ordered(a)
  BY <1>1 DEF Ordered, AllBefore
<1>4. Ordered(b)
  BY <1>2 DEF Ordered
<1>5. AllBefore(a, b)
  <2> SUFFICES ASSUME NEW i \in DOMAIN a, NEW j \in DOMAIN b
               PROVE  Earlier(a[i], b[j])
    BY DEF AllBefore
  <2>1. b[j] = r[j + 1] /\ j + 1 \in DOMAIN r /\ 1 < j + 1
    BY <1>2
  <2>2. CASE i \in DOMAIN q
    BY <1>1, <2>1, <2>2 DEF AllBefore
  <2>3. CASE i \notin DOMAIN q
    BY <1>1, <2>1, <2>3 DEF Ordered
  <2> QED
    BY <2>2, <2>3
<1>6. ASSUME NEW p \in Seq(Update), AllBefore(p, q), AllBefore(p, r)
      PROVE  AllBefore(p, a) /\ AllBefore(p, b)
  <2>1. ASSUME NEW i \in DOMAIN p, NEW j \in DOMAIN a
        PROVE  Earlier(p[i], a[j])
    <3>1. CASE j \in DOMAIN q
      BY <1>1, <1>6, <2>1, <3>1 DEF AllBefore
    <3>2. CASE j \notin DOMAIN q
      BY <1>1, <1>6, <2>1, <3>2 DEF AllBefore
    <3> QED
      BY <3>1, <3>2
  <2>2. AllBefore(p, b)
    BY <1>2, <1>6 DEF AllBefore
  <2> QED
    BY <2>1, <2>2 DEF AllBefore
<1>7. ASSUME NEW p \in Seq(Update), AllBefore(q, p), AllBefore(r, p)
      PROVE  AllBefore(a, p) /\ AllBefore(b, p)
  BY <1>1, <1>2, <1>7 DEF AllBefore
<1>8. ASSUME NEW n, UpTo(q, n), UpTo(r, n)
      PROVE  UpTo(a, n) /\ UpTo(b, n)
  BY <1>1, <1>2, <1>8 DEF UpTo
<1> QED
  BY <1>3, <1>4, <1>5, <1>6, <1>7, <1>8

(* What is in the dispatcher's hand is one update or nothing.              *)
LEMMA HandFacts ==
  ASSUME TypeOK, WayInv
  PROVE  /\ Hand \in Seq(Update) /\ Ordered(Hand)
         /\ Waiting => Hand = <<cur>> /\ cur \in Update
         /\ ~Waiting => Hand = <<>>
<1>1. Waiting => cur \in Update
  BY DEF Waiting, WayInv
<1> QED
  BY <1>1 DEF Hand, Ordered

LEMMA EmptyFacts ==
  /\ <<>> \in Seq(Update) /\ Ordered(<<>>)
  /\ \A q : AllBefore(<<>>, q) /\ AllBefore(q, <<>>)
  /\ \A n : UpTo(<<>>, n)
  BY DEF Ordered, AllBefore, UpTo

-----------------------------------------------------------------------------
(* Types                                                                   *)

LEMMA InitInv == Init => IInv
<1> SUFFICES ASSUME Init PROVE IInv
  OBVIOUS
<1>1. TypeOK
  <2> USE DEF Init
  <2>1. update_queue \in Seq(Update) /\ pool_tasks \in Seq(Update) /\ started \in Seq(Update)
    BY EmptyFacts
  <2>2. /\ job \in [Runner -> Update \cup {None}] /\ hpc \in [Runner -> HandlerPC]
        /\ holders \subseteq {x \in Runner : hpc[x] \in {"calling", "answered"}}
        /\ received \in 0 .. MaxUpdates /\ mpc \in OwnerPC
    BY DEF HandlerPC, OwnerPC
  <2> QED
    BY <2>1, <2>2 DEF TypeOK
<1>2. OrderInv
  BY EmptyFacts DEF Init, OrderInv, Hand, Waiting
<1>3. WayInv /\ LockInv /\ EndInv /\ AbortOnlyInDestruction
  BY DEF Init, WayInv, LockInv, EndInv, AbortOnlyInDestruction, Runner
<1> QED
  BY <1>1, <1>2, <1>3 DEF IInv

(* A handler goes on to v, and holds a reference only inside a call.       *)
LEMMA HandlerTypes ==
  ASSUME TypeOK, NEW x \in Runner, NEW v \in HandlerPC,
         hpc' = [hpc EXCEPT ![x] = v], holders' \subseteq holders \cup {x},
         v \in {"calling", "answered"} \/ x \notin holders'
  PROVE  /\ hpc' \in [Runner -> HandlerPC]
         /\ holders' \subseteq {y \in Runner : hpc'[y] \in {"calling", "answered"}}
  BY DEF TypeOK

LEMMA TypeStep ==
  ASSUME TypeOK, WayInv, Next
  PROVE  TypeOK'
<1> USE DEF dispVars, poolVars, handlerVars, history
<1>1. CASE \E k \in Kind : Receive(k)
  <2> PICK k \in Kind : Receive(k)
    BY <1>1
  <2>1. received' \in 1 .. MaxUpdates /\ received' \in 0 .. MaxUpdates
    BY DEF Receive, TypeOK
  <2>2. update_queue' \in Seq(Update)
    <3>1. <<received', k>> \in Update /\ update_queue \in Seq(Update)
      BY <2>1 DEF Update, TypeOK
    <3> QED
      BY <3>1, AppendProperties DEF Receive
  <2> QED
    BY <2>1, <2>2 DEF Receive, TypeOK
<1>2. CASE Enqueue
  <2>1. pool_tasks' \in Seq(Update)
    BY <1>2 DEF Enqueue, TypeOK, WayInv
  <2> QED
    BY <1>2, <2>1 DEF Enqueue, TypeOK
<1>3. CASE EnqueueThrows \/ NoPool
  BY <1>3 DEF EnqueueThrows, NoPool, TypeOK
<1>4. CASE TestRunning \/ Leave \/ Process
  BY <1>4 DEF TestRunning, Leave, Process, TypeOK
<1>5. CASE Take
  <2>1. cur' \in Update /\ update_queue' \in Seq(Update)
    BY <1>5, HeadTailProperties DEF Take, TypeOK
  <2> QED
    BY <1>5, <2>1 DEF Take, TypeOK
<1>6. CASE Halt
  <2>1. halted' \subseteq Update
    BY <1>6 DEF Halt, TypeOK, WayInv
  <2> QED
    BY <1>6, <2>1 DEF Halt, TypeOK
<1>7. ASSUME NEW x \in Runner, NEW u \in Update, BeginHandlers(x, u),
             hpc[x] = "none", holders' = holders
      PROVE  /\ started' \in Seq(Update) /\ job' \in [Runner -> Update \cup {None}]
             /\ hpc' \in [Runner -> HandlerPC]
             /\ holders' \subseteq {y \in Runner : hpc'[y] \in {"calling", "answered"}}
  <2>1. "run" \in HandlerPC /\ x \notin holders'
    BY <1>7 DEF HandlerPC, TypeOK
  <2>2. hpc' = [hpc EXCEPT ![x] = "run"] /\ holders' \subseteq holders \cup {x}
    BY <1>7 DEF BeginHandlers
  <2>3. started' \in Seq(Update) /\ job' \in [Runner -> Update \cup {None}]
    BY <1>7, AppendProperties DEF BeginHandlers, TypeOK
  <2> QED
    BY <2>1, <2>2, <2>3, HandlerTypes
<1>8. CASE BeginInline
  <2>1. Dispatcher \in Runner /\ cur \in Update
    BY <1>8 DEF Runner, BeginInline, WayInv
  <2>2. BeginHandlers(Dispatcher, cur) /\ hpc[Dispatcher] = "none" /\ holders' = holders
    BY <1>8 DEF BeginInline
  <2>3. /\ started' \in Seq(Update) /\ job' \in [Runner -> Update \cup {None}]
        /\ hpc' \in [Runner -> HandlerPC]
        /\ holders' \subseteq {y \in Runner : hpc'[y] \in {"calling", "answered"}}
    BY <1>7, <2>1, <2>2
  <2> QED
    BY <1>8, <2>3 DEF BeginInline, TypeOK
<1>9. CASE \E w \in Worker : BeginTask(w)
  <2> PICK w \in Worker : BeginTask(w)
    BY <1>9
  <2>1. w \in Runner /\ Head(pool_tasks) \in Update /\ pool_tasks' \in Seq(Update)
    BY HeadTailProperties DEF Runner, BeginTask, TypeOK
  <2>2. BeginHandlers(w, Head(pool_tasks)) /\ hpc[w] = "none" /\ holders' = holders
    BY DEF BeginTask
  <2>3. /\ started' \in Seq(Update) /\ job' \in [Runner -> Update \cup {None}]
        /\ hpc' \in [Runner -> HandlerPC]
        /\ holders' \subseteq {y \in Runner : hpc'[y] \in {"calling", "answered"}}
    BY <1>7, <2>1, <2>2
  <2> QED
    BY <2>1, <2>3 DEF BeginTask, TypeOK
<1>10. CASE \E x \in Runner :
              HandlerNeedsMutex(x) \/ HandlerGoesOn(x) \/ HandlerCalls(x)
  <2> PICK x \in Runner : HandlerNeedsMutex(x) \/ HandlerGoesOn(x) \/ HandlerCalls(x)
    BY <1>10
  <2>0. /\ {"none", "run", "calling", "answered", "ask", "askResize", "resizing",
            "called"} = HandlerPC
        /\ hpc[x] \notin {"calling", "answered"} => x \notin holders
    BY DEF HandlerPC, TypeOK
  <2>1. /\ hpc' \in [Runner -> HandlerPC]
        /\ holders' \subseteq {y \in Runner : hpc'[y] \in {"calling", "answered"}}
    <3>1. PICK v \in HandlerPC :
            /\ hpc' = [hpc EXCEPT ![x] = v] /\ holders' \subseteq holders \cup {x}
            /\ v \in {"calling", "answered"} \/ x \notin holders'
      <4>1. CASE CallThroughClient(x) \/ CallThroughEntity(x)
        BY <2>0, <4>1 DEF CallThroughClient, CallThroughEntity
      <4>2. CASE Answered(x)
        BY <2>0, <4>2 DEF Answered
      <4>3. CASE CallReturns(x)
        BY <2>0, <4>3 DEF CallReturns
      <4>4. CASE AskPoolSize(x) \/ AskResize(x) \/ GetPoolSize(x)
        BY <2>0, <4>4 DEF AskPoolSize, AskResize, GetPoolSize
      <4>5. CASE \E n \in {0, 1} : HandlerResizeBegin(x, n)
        BY <2>0, <4>5 DEF HandlerResizeBegin
      <4>6. CASE HandlerResizeEnd(x) \/ HandlerSelfJoin(x)
        BY <2>0, <4>6 DEF HandlerResizeEnd, HandlerSelfJoin, HandlerResizes
      <4>7. CASE EndHandlers(x)
        BY <2>0, <4>7 DEF EndHandlers
      <4> QED
        BY <4>1, <4>2, <4>3, <4>4, <4>5, <4>6, <4>7
           DEF HandlerNeedsMutex, HandlerGoesOn, HandlerCalls
    <3> QED
      BY <3>1, HandlerTypes
  <2>2. CASE CallThroughClient(x) \/ CallThroughEntity(x) \/ Answered(x)
               \/ CallReturns(x)
    <3>1. aborted' \in BOOLEAN
      BY <2>2 DEF CallThroughClient, CallThroughEntity, Answered, CallReturns, TypeOK
    <3>2. UNCHANGED <<received, dispVars, poolVars, job, mpc, history>>
      BY <2>2 DEF CallThroughClient, CallThroughEntity, Answered, CallReturns
    <3> QED
      BY <2>1, <3>1, <3>2 DEF TypeOK
  <2>3. CASE AskPoolSize(x) \/ AskResize(x) \/ GetPoolSize(x)
    <3>1. UNCHANGED <<received, dispVars, poolVars, job, mpc, history, aborted>>
      BY <2>3 DEF AskPoolSize, AskResize, GetPoolSize
    <3> QED
      BY <2>1, <3>1 DEF TypeOK
  <2>4. CASE \E n \in {0, 1} : HandlerResizeBegin(x, n)
    BY <2>1, <2>4 DEF HandlerResizeBegin, LockToResize, Closed, TypeOK
  <2>5. CASE HandlerResizeEnd(x) \/ HandlerSelfJoin(x)
    BY <2>1, <2>5
       DEF HandlerResizeEnd, HandlerSelfJoin, HandlerResizes, Resized, TypeOK
  <2>6. CASE EndHandlers(x)
    <3>1. job' \in [Runner -> Update \cup {None}]
      BY <2>6 DEF EndHandlers, TypeOK
    <3>2. dpc' \in {"loop", dpc} /\ cur' \in {None, cur}
      BY <2>6 DEF EndHandlers
    <3>3. UNCHANGED <<received, update_queue, dispatcher_running, poolVars, mpc,
                      history, aborted>>
      BY <2>6 DEF EndHandlers
    <3> QED
      BY <2>1, <3>1, <3>2, <3>3 DEF TypeOK
  <2> QED
    BY <2>2, <2>3, <2>4, <2>5, <2>6 DEF HandlerNeedsMutex, HandlerGoesOn, HandlerCalls
<1>11. CASE OwnerGoesOn \/ OwnerCalls
  <2>1. UNCHANGED <<received, update_queue, dpc, cur, pool_tasks, handlerVars, history>>
    BY <1>11 DEF OwnerGoesOn, OwnerCalls, ResizeEnd, Release, ShutdownPool, PoolJoined,
       StopDispatcher, JoinDispatcher, MembersDestroyed, StopReceiving, ResizeBegin,
       Resized, LockToResize
  <2>2. /\ thread_pool' \in {"none", "open", "stopped", "broken"} /\ mpc' \in OwnerPC
        /\ dispatcher_running' \in BOOLEAN /\ locked' \in BOOLEAN
        /\ target' \in {0, 1} /\ aborted' \in BOOLEAN
    BY <1>11 DEF OwnerGoesOn, OwnerCalls, ResizeEnd, Release, ShutdownPool, PoolJoined,
       StopDispatcher, JoinDispatcher, MembersDestroyed, StopReceiving, ResizeBegin,
       Resized, LockToResize, Closed, TypeOK, OwnerPC
  <2> QED
    BY <2>1, <2>2 DEF TypeOK
<1> QED
  BY <1>1, <1>2, <1>3, <1>4, <1>5, <1>6, <1>8, <1>9, <1>10, <1>11
     DEF Next, DispatcherNeedsMutex, DispatcherOnItsOwn


-----------------------------------------------------------------------------
(* Order                                                                   *)

(* What moves no update keeps their order.                                 *)
LEMMA OrderKept ==
  ASSUME OrderInv, UNCHANGED <<received, started, pool_tasks, update_queue>>,
         Hand' = Hand \/ Hand' = <<>>
  PROVE  OrderInv'
<1>1. CASE Hand' = Hand
  BY <1>1 DEF OrderInv
<1>2. CASE Hand' = <<>>
  BY <1>2, EmptyFacts DEF OrderInv
<1> QED
  BY <1>1, <1>2

(* What a handler does moves no update: the dispatcher's own has left its  *)
(* hand when the handlers began.                                           *)
LEMMA HandlerMovesNothing ==
  ASSUME TypeOK, WayInv, NEW x \in Runner,
         HandlerNeedsMutex(x) \/ HandlerGoesOn(x) \/ HandlerCalls(x)
  PROVE  /\ UNCHANGED <<received, started, pool_tasks, update_queue>>
         /\ hpc[x] # "none" /\ \A y \in Runner \ {x} : hpc'[y] = hpc[y]
         /\ x = Dispatcher => Hand' = <<>>
         /\ x # Dispatcher => Hand' = Hand
         /\ \/ hpc'[x] # "none" /\ UNCHANGED <<dpc, cur>>
            \/ EndHandlers(x)
<1> USE DEF dispVars, poolVars, handlerVars, history, HandlerNeedsMutex,
        HandlerGoesOn, HandlerCalls, CallThroughClient, CallThroughEntity, Answered,
        CallReturns, AskPoolSize, AskResize, GetPoolSize, HandlerResizeBegin,
        LockToResize, HandlerResizeEnd, HandlerSelfJoin, HandlerResizes, Resized
<1>1. CASE EndHandlers(x)
  <2>1. /\ UNCHANGED <<received, started, pool_tasks, update_queue>>
        /\ hpc[x] # "none" /\ \A y \in Runner \ {x} : hpc'[y] = hpc[y]
    BY <1>1 DEF EndHandlers, TypeOK
  <2>2. x = Dispatcher => Hand' = <<>>
    BY <1>1 DEF EndHandlers, Hand, Waiting
  <2>3. x # Dispatcher => Hand' = Hand
    BY <1>1, <2>1 DEF EndHandlers, Hand, Waiting, Runner
  <2> QED
    BY <1>1, <2>1, <2>2, <2>3
<1>2. CASE ~EndHandlers(x)
  <2>1. UNCHANGED <<received, started, pool_tasks, update_queue, dpc, cur>>
    BY <1>2
  <2>2. PICK v \in HandlerPC : hpc' = [hpc EXCEPT ![x] = v] /\ v # "none"
    BY <1>2 DEF HandlerPC
  <2>3. hpc[x] # "none"
    BY <1>2
  <2>4. /\ hpc'[x] # "none" /\ \A y \in Runner \ {x} : hpc'[y] = hpc[y]
    BY <2>2 DEF TypeOK
  <2>5. x = Dispatcher => dpc = "inline" /\ Hand' = <<>>
    BY <2>1, <2>3, <2>4 DEF WayInv, Hand, Waiting
  <2>6. x # Dispatcher => Hand' = Hand
    BY <2>1, <2>4 DEF Hand, Waiting, Runner
  <2> QED
    BY <2>1, <2>3, <2>4, <2>5, <2>6
<1> QED
  BY <1>1, <1>2

LEMMA OwnerMovesNothing ==
  ASSUME OwnerGoesOn \/ OwnerCalls
  PROVE  UNCHANGED <<received, started, pool_tasks, update_queue, dpc, cur, hpc,
                     holders, selfJoin>>
  BY DEF dispVars, poolVars, handlerVars, history, OwnerGoesOn, OwnerCalls, ResizeEnd,
     Release, ShutdownPool, PoolJoined, StopDispatcher, JoinDispatcher, MembersDestroyed, StopReceiving,
     ResizeBegin, Resized, LockToResize

LEMMA OrderStep ==
  ASSUME TypeOK, WayInv, OrderInv, Next
  PROVE  OrderInv'
<1> USE DEF dispVars, poolVars, handlerVars, history
<1>0. /\ started \in Seq(Update) /\ pool_tasks \in Seq(Update)
      /\ update_queue \in Seq(Update) /\ Hand \in Seq(Update) /\ Ordered(Hand)
  BY HandFacts DEF TypeOK
<1>1. CASE \E k \in Kind : Receive(k)
  <2> PICK k \in Kind : Receive(k)
    BY <1>1
  <2>0. received + 1 \in 1 .. MaxUpdates
    BY DEF Receive, TypeOK
  <2> PICK u \in Update : u = <<received + 1, k>>
    BY <2>0 DEF Update
  <2> PICK r \in Seq(Update) : r = Append(<<>>, u)
    BY EmptyFacts, AppendProperties
  <2>1. /\ UNCHANGED <<started, pool_tasks>> /\ Hand' = Hand
        /\ update_queue' = Append(update_queue, Head(r)) /\ r # <<>>
        /\ received' = received + 1 /\ received \in Nat
    BY DEF Receive, Hand, Waiting, TypeOK
  <2>2. /\ \A q \in Seq(Update) : UpTo(q, received) => AllBefore(q, r) /\ UpTo(q, received')
        /\ UpTo(r, received') /\ Ordered(r)
    <3>1. DOMAIN r = {1} /\ r[1] = u /\ u[1] = received + 1
      OBVIOUS
    <3>3. Ordered(r) /\ UpTo(r, received')
      BY <2>1, <3>1 DEF Ordered, UpTo
    <3>2. ASSUME NEW q \in Seq(Update), UpTo(q, received)
          PROVE  AllBefore(q, r) /\ UpTo(q, received')
      <4>1. \A i \in DOMAIN q : q[i] \in Update /\ q[i][1] \in Nat /\ q[i][1] <= received
        BY <3>2 DEF UpTo, Update
      <4> QED
        BY <2>1, <3>1, <4>1 DEF UpTo, AllBefore, Earlier
    <3> QED
      BY <3>2, <3>3
  <2>3. OrderInv
    OBVIOUS
  <2>4. /\ AllBefore(update_queue, r) /\ AllBefore(started, r) /\ AllBefore(pool_tasks, r)
        /\ AllBefore(Hand, r)
        /\ UpTo(started, received') /\ UpTo(pool_tasks, received')
        /\ UpTo(Hand, received') /\ UpTo(update_queue, received')
    BY <1>0, <2>2, <2>3 DEF OrderInv
  <2>5. /\ Ordered(Append(update_queue, Head(r)))
        /\ UpTo(Append(update_queue, Head(r)), received')
        /\ AllBefore(started, Append(update_queue, Head(r)))
        /\ AllBefore(pool_tasks, Append(update_queue, Head(r)))
        /\ AllBefore(Hand, Append(update_queue, Head(r)))
    BY <1>0, <2>1, <2>2, <2>3, <2>4, MoveKeeps DEF OrderInv
  <2> QED
    BY <2>1, <2>3, <2>4, <2>5 DEF OrderInv
<1>2. CASE Enqueue
  <2>1. /\ Hand # <<>> /\ Head(Hand) = cur /\ Tail(Hand) = <<>> /\ Hand' = <<>>
        /\ pool_tasks' = Append(pool_tasks, cur)
        /\ UNCHANGED <<received, started, update_queue>>
    BY <1>2 DEF Enqueue, Hand, Waiting
  <2>2. /\ Ordered(pool_tasks') /\ AllBefore(started, pool_tasks')
        /\ AllBefore(pool_tasks', update_queue) /\ UpTo(pool_tasks', received)
    BY <1>0, <2>1, MoveKeeps DEF OrderInv
  <2> QED
    BY <2>1, <2>2, EmptyFacts DEF OrderInv
<1>3. CASE EnqueueThrows \/ NoPool
  <2>1. Waiting /\ Waiting'
    BY <1>3 DEF EnqueueThrows, NoPool, Waiting, WayInv
  <2> QED
    BY <1>3, <2>1, OrderKept DEF EnqueueThrows, NoPool, Hand
<1>4. CASE TestRunning \/ Leave
  <2>1. ~Waiting'
    BY <1>4 DEF TestRunning, Leave, Waiting
  <2> QED
    BY <1>4, <2>1, OrderKept DEF TestRunning, Leave, Hand
<1>5. CASE Take
  <2>1. Hand = <<>> /\ Hand' = <<Head(update_queue)>> /\ update_queue # <<>>
    BY <1>5 DEF Take, Hand, Waiting
  <2>2. Head(update_queue) \in Update
    BY <1>0, <2>1, HeadTailProperties
  <2>3. /\ Hand' = Append(Hand, Head(update_queue))
        /\ update_queue' = Tail(update_queue)
        /\ UNCHANGED <<received, started, pool_tasks>>
    BY <1>5, <2>1, <2>2 DEF Take
  <2> PICK h \in Seq(Update) : h = Append(Hand, Head(update_queue))
    BY <1>0, <2>2, AppendProperties
  <2> PICK q \in Seq(Update) : q = Tail(update_queue)
    BY <1>0, <2>1, HeadTailProperties
  <2>5. /\ Ordered(q) /\ UpTo(q, received) /\ AllBefore(started, h) /\ AllBefore(started, q)
        /\ AllBefore(pool_tasks, h) /\ AllBefore(pool_tasks, q) /\ AllBefore(h, q)
        /\ UpTo(h, received)
    BY <1>0, <2>1, MoveKeeps DEF OrderInv
  <2>4. /\ Ordered(update_queue') /\ UpTo(update_queue', received)
        /\ AllBefore(started, Hand') /\ AllBefore(started, update_queue')
        /\ AllBefore(pool_tasks, Hand') /\ AllBefore(pool_tasks, update_queue')
        /\ AllBefore(Hand', update_queue') /\ UpTo(Hand', received)
    BY <2>3, <2>5
  <2> QED
    BY <2>3, <2>4 DEF OrderInv
<1>6. CASE Halt
  <2>1. ~Waiting'
    BY <1>6 DEF Halt, Waiting
  <2> QED
    BY <1>6, <2>1, OrderKept DEF Halt, Hand
<1>7. CASE Process
  <2>1. Waiting /\ Waiting'
    BY <1>7 DEF Process, Waiting, WayInv
  <2> QED
    BY <1>7, <2>1, OrderKept DEF Process, Hand
<1>8. CASE BeginInline
  <2>1. /\ Hand # <<>> /\ Head(Hand) = cur /\ Tail(Hand) = <<>>
        /\ started' = Append(started, cur)
        /\ UNCHANGED <<received, pool_tasks, update_queue>>
    BY <1>8 DEF BeginInline, BeginHandlers, Hand, Waiting
  <2>2. Hand' = <<>>
    BY <1>8 DEF BeginInline, BeginHandlers, Hand, Waiting, TypeOK, Runner
  <2>3. /\ Ordered(started') /\ AllBefore(started', update_queue) /\ UpTo(started', received)
    BY <1>0, <2>1, MoveKeeps DEF OrderInv
  <2>4. AllBefore(Hand, pool_tasks)
    <3>1. Hand = <<cur>> /\ cur \in Update /\ dpc = "inline"
      BY <1>8, HandFacts DEF BeginInline, Waiting, WayInv
    <3>2. cur[2] \in {"message", "edited"}
      BY <3>1 DEF Update, Kind
    <3> QED
      BY <3>1, <3>2 DEF AllBefore, Earlier, WayInv
  <2>5. AllBefore(started', pool_tasks)
    BY <1>0, <2>1, <2>4, MoveKeeps DEF OrderInv
  <2> QED
    BY <2>1, <2>2, <2>3, <2>5, EmptyFacts DEF OrderInv
<1>9. CASE \E w \in Worker : BeginTask(w)
  <2> PICK w \in Worker : BeginTask(w)
    BY <1>9
  <2>1. /\ pool_tasks # <<>> /\ started' = Append(started, Head(pool_tasks))
        /\ pool_tasks' = Tail(pool_tasks) /\ UNCHANGED <<received, update_queue>>
        /\ Hand' = Hand
    <3>1. hpc'[Dispatcher] = hpc[Dispatcher]
      BY DEF BeginTask, BeginHandlers, TypeOK, Runner
    <3> QED
      BY <3>1 DEF BeginTask, BeginHandlers, Hand, Waiting
  <2>2. /\ Ordered(started') /\ Ordered(pool_tasks') /\ AllBefore(started', pool_tasks')
        /\ AllBefore(started', Hand) /\ AllBefore(pool_tasks', Hand)
        /\ AllBefore(started', update_queue) /\ AllBefore(pool_tasks', update_queue)
        /\ UpTo(started', received) /\ UpTo(pool_tasks', received)
    BY <1>0, <2>1, MoveKeeps DEF OrderInv
  <2> QED
    BY <2>1, <2>2 DEF OrderInv
<1>10. CASE \E x \in Runner :
              HandlerNeedsMutex(x) \/ HandlerGoesOn(x) \/ HandlerCalls(x)
  BY <1>10, HandlerMovesNothing, OrderKept
<1>11. CASE OwnerGoesOn \/ OwnerCalls
  <2>1. UNCHANGED <<received, started, pool_tasks, update_queue>> /\ Hand' = Hand
    BY <1>11, OwnerMovesNothing DEF Hand, Waiting
  <2> QED
    BY <2>1, OrderKept
<1> QED
  BY <1>1, <1>2, <1>3, <1>4, <1>5, <1>6, <1>7, <1>8, <1>9, <1>10, <1>11
     DEF Next, DispatcherNeedsMutex, DispatcherOnItsOwn


-----------------------------------------------------------------------------
(* A message meets no pool only when the pool owes nothing.                *)
LEMMA WayStep ==
  ASSUME TypeOK, WayInv, Next
  PROVE  WayInv'
<1> USE DEF dispVars, poolVars, handlerVars, history
<1>0. Dispatcher \in Runner /\ pool_tasks \in Seq(Update)
  BY DEF Runner, TypeOK
<1>1. CASE \E k \in Kind : Receive(k)
  BY <1>1 DEF Receive, WayInv
<1>2. CASE Enqueue
  <2>1. /\ cur \in Update /\ cur[2] = "message" /\ pool_tasks' = Append(pool_tasks, cur)
        /\ dpc' = "loop" /\ thread_pool' = "open" /\ hpc'[Dispatcher] = "none"
    BY <1>0, <1>2 DEF Enqueue, WayInv
  <2>2. \A i \in DOMAIN pool_tasks' : pool_tasks'[i][2] = "message"
    BY <1>0, <2>1, AppendProperties DEF WayInv
  <2> QED
    BY <2>1, <2>2 DEF WayInv
<1>3. CASE EnqueueThrows \/ NoPool
  BY <1>3 DEF EnqueueThrows, NoPool, WayInv
<1>4. CASE TestRunning \/ Leave
  BY <1>4 DEF TestRunning, Leave, WayInv
<1>5. CASE Take
  <2>1. cur' \in Update
    BY <1>5, HeadTailProperties DEF Take, TypeOK
  <2> QED
    BY <1>5, <2>1 DEF Take, WayInv
<1>6. CASE Halt
  BY <1>6 DEF Halt, WayInv
<1>7. CASE Process
  BY <1>7 DEF Process, WayInv
<1>8. CASE BeginInline
  BY <1>8 DEF BeginInline, BeginHandlers, WayInv
<1>9. CASE \E w \in Worker : BeginTask(w)
  <2> PICK w \in Worker : BeginTask(w)
    BY <1>9
  <2>1. hpc'[Dispatcher] = hpc[Dispatcher]
    BY DEF BeginTask, BeginHandlers, TypeOK, Runner
  <2>2. /\ pool_tasks # <<>> /\ pool_tasks' = Tail(pool_tasks)
        /\ UNCHANGED <<dpc, cur, thread_pool>>
    BY DEF BeginTask
  <2>3. \A i \in DOMAIN pool_tasks' : pool_tasks'[i][2] = "message"
    BY <1>0, <2>2 DEF WayInv
  <2> QED
    BY <2>1, <2>2, <2>3 DEF WayInv
<1>10. CASE \E x \in Runner :
              HandlerNeedsMutex(x) \/ HandlerGoesOn(x) \/ HandlerCalls(x)
  <2> PICK x \in Runner : HandlerNeedsMutex(x) \/ HandlerGoesOn(x) \/ HandlerCalls(x)
    BY <1>10
  <2>1. /\ pool_tasks' = pool_tasks /\ hpc[x] # "none"
        /\ \A y \in Runner \ {x} : hpc'[y] = hpc[y]
        /\ (hpc'[x] # "none" /\ UNCHANGED <<dpc, cur>>) \/ EndHandlers(x)
    BY HandlerMovesNothing
  <2>2. thread_pool' = "none" => pool_tasks = <<>>
    BY DEF HandlerNeedsMutex, HandlerGoesOn, HandlerCalls, CallThroughClient,
       CallThroughEntity, Answered, CallReturns, AskPoolSize, AskResize, GetPoolSize,
       HandlerResizeBegin, LockToResize, Closed, HandlerResizeEnd, HandlerSelfJoin,
       HandlerResizes, Resized, Drained, EndHandlers, WayInv
  <2>3. CASE UNCHANGED <<dpc, cur>> /\ hpc'[x] # "none"
    BY <1>0, <2>1, <2>2, <2>3 DEF WayInv
  <2>4. CASE EndHandlers(x)
    <3>1. CASE x = Dispatcher
      BY <1>0, <2>1, <2>2, <2>4, <3>1 DEF EndHandlers, WayInv, TypeOK
    <3>2. CASE x # Dispatcher
      BY <1>0, <2>1, <2>2, <2>4, <3>2 DEF EndHandlers, WayInv
    <3> QED
      BY <3>1, <3>2
  <2> QED
    BY <2>1, <2>3, <2>4
<1>11. CASE OwnerGoesOn \/ OwnerCalls
  <2>1. UNCHANGED <<pool_tasks, dpc, cur, hpc>>
    BY <1>11, OwnerMovesNothing
  <2>2. thread_pool' = "none" => pool_tasks = <<>>
    BY <1>11 DEF OwnerGoesOn, OwnerCalls, ResizeEnd, Release, ShutdownPool, PoolJoined,
       StopDispatcher, JoinDispatcher, MembersDestroyed, StopReceiving, ResizeBegin,
       Resized, LockToResize, Closed, Drained, WayInv
  <2> QED
    BY <2>1, <2>2 DEF WayInv
<1> QED
  BY <1>1, <1>2, <1>3, <1>4, <1>5, <1>6, <1>7, <1>8, <1>9, <1>10, <1>11
     DEF Next, DispatcherNeedsMutex, DispatcherOnItsOwn

-----------------------------------------------------------------------------
(* The mutex and the pool                                                  *)

(* The steps of the dispatcher, the adapter and the workers.               *)
Others ==
  \/ \E k \in Kind : Receive(k)
  \/ DispatcherNeedsMutex
  \/ DispatcherOnItsOwn
  \/ \E w \in Worker : BeginTask(w)

LEMMA OthersKeep ==
  ASSUME TypeOK, Others
  PROVE  /\ UNCHANGED <<thread_pool, locked, mpc, selfJoin, holders>>
         /\ \A x \in Runner : hpc'[x] = hpc[x] \/ (hpc[x] = "none" /\ hpc'[x] = "run")
         /\ aborted' = aborted \/ EnqueueThrows
<1> USE DEF dispVars, poolVars, handlerVars, history
<1>1. CASE \E k \in Kind : Receive(k)
  BY <1>1 DEF Receive
<1>2. CASE DispatcherNeedsMutex
  BY <1>2 DEF DispatcherNeedsMutex, Enqueue, EnqueueThrows, NoPool
<1>3. CASE TestRunning \/ Leave \/ Take \/ Halt \/ Process
  BY <1>3 DEF TestRunning, Leave, Take, Halt, Process
<1>4. CASE BeginInline
  BY <1>4 DEF BeginInline, BeginHandlers, TypeOK
<1>5. CASE \E w \in Worker : BeginTask(w)
  BY <1>5 DEF BeginTask, BeginHandlers, TypeOK
<1> QED
  BY <1>1, <1>2, <1>3, <1>4, <1>5 DEF Others, DispatcherOnItsOwn

LEMMA LockStep ==
  ASSUME TypeOK, LockInv, Next
  PROVE  LockInv'
<1> USE DEF dispVars, poolVars, handlerVars, history
<1>1. CASE Others
  BY <1>1, OthersKeep DEF LockInv
<1>2. ASSUME NEW x \in Runner
      PROVE  /\ hpc' = hpc => \A y \in Runner : hpc'[y] = hpc[y]
             /\ \A v : hpc' = [hpc EXCEPT ![x] = v] =>
                  hpc'[x] = v /\ \A y \in Runner \ {x} : hpc'[y] = hpc[y]
  BY DEF TypeOK
<1>3. ASSUME NEW x \in Runner,
             HandlerCalls(x) \/ Answered(x) \/ CallReturns(x) \/ EndHandlers(x)
               \/ GetPoolSize(x)
      PROVE  LockInv'
  <2>1. UNCHANGED <<thread_pool, locked, mpc, selfJoin>>
    BY <1>3 DEF HandlerCalls, Answered, CallReturns, EndHandlers, GetPoolSize,
       CallThroughClient, CallThroughEntity, AskPoolSize, AskResize
  <2>2. hpc'[x] # "resizing" /\ \A y \in Runner \ {x} : hpc'[y] = hpc[y]
    BY <1>2, <1>3 DEF HandlerCalls, Answered, CallReturns, EndHandlers, GetPoolSize,
       CallThroughClient, CallThroughEntity, AskPoolSize, AskResize
  <2> QED
    BY <2>1, <2>2 DEF LockInv
<1>4. ASSUME NEW x \in Runner, NEW n \in {0, 1}, HandlerResizeBegin(x, n)
      PROVE  LockInv'
  <2>1. /\ ~locked /\ locked' /\ thread_pool' = Closed(thread_pool)
        /\ UNCHANGED <<mpc, selfJoin>> /\ hpc' = [hpc EXCEPT ![x] = "resizing"]
    BY <1>4 DEF HandlerResizeBegin, LockToResize
  <2>2. hpc'[x] = "resizing" /\ \A y \in Runner \ {x} : hpc'[y] = hpc[y]
    BY <1>2, <2>1
  <2> QED
    BY <2>1, <2>2 DEF LockInv, Closed
<1>5. ASSUME NEW x \in Runner, HandlerResizeEnd(x) \/ HandlerSelfJoin(x)
      PROVE  LockInv'
  <2>1. /\ hpc[x] = "resizing" /\ hpc' = [hpc EXCEPT ![x] = "called"] /\ mpc' = mpc
        /\ thread_pool' \in {"none", "open"} \/ (thread_pool' = "broken" /\ selfJoin')
    BY <1>5 DEF HandlerResizeEnd, HandlerSelfJoin, HandlerResizes, Resized
  <2>2. hpc'[x] = "called" /\ \A y \in Runner \ {x} : hpc'[y] = hpc[y]
    BY <1>2, <2>1
  <2> QED
    BY <2>1, <2>2 DEF LockInv
<1>6. CASE OwnerGoesOn \/ OwnerCalls
  <2>1. hpc' = hpc /\ selfJoin' = selfJoin
    BY <1>6, OwnerMovesNothing
  <2>2. CASE ResizeEnd
    BY <2>1, <2>2 DEF ResizeEnd, Resized, LockInv
  <2>3. CASE Release \/ StopDispatcher \/ MembersDestroyed \/ StopReceiving
    BY <2>1, <2>3 DEF Release, StopDispatcher, MembersDestroyed, StopReceiving, LockInv
  <2>4. CASE ShutdownPool
    BY <2>1, <2>4 DEF ShutdownPool, Closed, LockInv
  <2>5. CASE PoolJoined
    BY <2>1, <2>5 DEF PoolJoined, LockInv
  <2>6. CASE JoinDispatcher
    BY <2>1, <2>6 DEF JoinDispatcher, Closed, LockInv
  <2>7. CASE \E n \in {0, 1} : ResizeBegin(n)
    BY <2>1, <2>7 DEF ResizeBegin, LockToResize, Closed, LockInv
  <2> QED
    BY <1>6, <2>2, <2>3, <2>4, <2>5, <2>6, <2>7 DEF OwnerGoesOn, OwnerCalls
<1> QED
  BY <1>1, <1>3, <1>4, <1>5, <1>6 DEF Next, Others, HandlerNeedsMutex, HandlerGoesOn

-----------------------------------------------------------------------------
(* The end of the client                                                   *)

LEMMA EndStep ==
  ASSUME TypeOK, WayInv, EndInv, Next
  PROVE  EndInv'
<1> USE DEF dispVars, poolVars, handlerVars, history
<1>0. Dispatcher \in Runner /\ Worker \subseteq Runner
  BY DEF Runner
<1>1. CASE \E k \in Kind : Receive(k)
  BY <1>1 DEF Receive, Receiving, ClientAlive, EndInv
<1>2. CASE DispatcherNeedsMutex \/ DispatcherOnItsOwn
  <2>1. dpc # "exited" /\ UNCHANGED <<mpc, holders>>
    BY <1>2 DEF DispatcherNeedsMutex, DispatcherOnItsOwn, Enqueue, EnqueueThrows, NoPool,
       TestRunning, Leave, Take, Halt, Process, BeginInline
  <2> QED
    BY <2>1 DEF EndInv
<1>3. CASE \E w \in Worker : BeginTask(w)
  BY <1>3 DEF BeginTask, EndInv, Drained
<1>4. ASSUME NEW x \in Runner,
             HandlerNeedsMutex(x) \/ HandlerGoesOn(x) \/ HandlerCalls(x)
      PROVE  EndInv'
  <2>1. hpc[x] # "none"
    BY <1>4, HandlerMovesNothing
  <2>2. mpc # "destroyed"
    BY <1>0, <2>1 DEF EndInv, Drained, Joined, WayInv, Runner
  <2>3. mpc \notin {"members"} \/ x # Dispatcher
    BY <2>1 DEF EndInv, WayInv
  <2>4. UNCHANGED mpc /\ (dpc' = dpc \/ x = Dispatcher)
    BY <1>4 DEF HandlerNeedsMutex, HandlerGoesOn, HandlerCalls, CallThroughClient,
       CallThroughEntity, Answered, CallReturns, AskPoolSize, AskResize, GetPoolSize,
       HandlerResizeBegin, LockToResize, HandlerResizeEnd, HandlerSelfJoin,
       HandlerResizes, EndHandlers
  <2>5. ~ImplAlive /\ holders = {} => holders' = {}
    BY <1>4 DEF HandlerNeedsMutex, HandlerGoesOn, HandlerCalls, CallThroughClient,
       CallThroughEntity, Answered, CallReturns, AskPoolSize, AskResize, GetPoolSize,
       HandlerResizeBegin, LockToResize, HandlerResizeEnd, HandlerSelfJoin,
       HandlerResizes, EndHandlers
  <2> QED
    BY <2>2, <2>3, <2>4, <2>5 DEF EndInv, ImplAlive
<1>5. CASE OwnerGoesOn \/ OwnerCalls
  <2>1. UNCHANGED <<pool_tasks, dpc, hpc, holders>> /\ Drained' = Drained
    BY <1>5, OwnerMovesNothing DEF Drained, Joined
  <2>2. CASE ResizeEnd \/ StopReceiving \/ \E n \in {0, 1} : ResizeBegin(n)
    BY <2>1, <2>2 DEF ResizeEnd, StopReceiving, ResizeBegin, EndInv
  <2>3. CASE Release
    BY <2>1, <2>3 DEF Release, EndInv
  <2>4. CASE ShutdownPool \/ PoolJoined \/ StopDispatcher
    BY <2>1, <2>4 DEF ShutdownPool, PoolJoined, StopDispatcher, EndInv
  <2>5. CASE JoinDispatcher \/ MembersDestroyed
    BY <2>1, <2>5 DEF JoinDispatcher, MembersDestroyed, EndInv
  <2> QED
    BY <1>5, <2>2, <2>3, <2>4, <2>5 DEF OwnerGoesOn, OwnerCalls
<1> QED
  BY <1>1, <1>2, <1>3, <1>4, <1>5 DEF Next

(* Who calls std::terminate, and when.                                     *)
LEMMA AbortStep ==
  ASSUME TypeOK, LockInv, Next
  PROVE  AbortOnlyInDestruction'
<1> USE DEF dispVars, poolVars, handlerVars, history
<1>0. ~aborted
  BY DEF Next
<1>1. CASE Others
  <2>1. UNCHANGED <<mpc, selfJoin>> /\ (aborted' = aborted \/ EnqueueThrows)
    BY <1>1, OthersKeep
  <2>2. EnqueueThrows => selfJoin \/ (~ClientAlive /\ mpc # "stopped")
    BY DEF EnqueueThrows, LockInv, ClientAlive
  <2> QED
    BY <1>0, <2>1, <2>2 DEF AbortOnlyInDestruction, ClientAlive
<1>2. ASSUME NEW x \in Runner,
             HandlerNeedsMutex(x) \/ HandlerGoesOn(x) \/ HandlerCalls(x)
      PROVE  AbortOnlyInDestruction'
  <2>1. CASE CallReturns(x)
    BY <2>1 DEF CallReturns, AbortOnlyInDestruction, ClientAlive
  <2>2. CASE \E n \in {0, 1} : HandlerResizeBegin(x, n)
    <3>1. (aborted' <=> thread_pool = "broken") /\ selfJoin' = selfJoin
      BY <2>2 DEF HandlerResizeBegin, LockToResize
    <3> QED
      BY <3>1 DEF LockInv, AbortOnlyInDestruction
  <2>3. CASE HandlerSelfJoin(x)
    BY <2>3 DEF HandlerSelfJoin, AbortOnlyInDestruction
  <2>4. CASE HandlerCalls(x) \/ Answered(x) \/ EndHandlers(x) \/ GetPoolSize(x)
             \/ HandlerResizeEnd(x)
    <3>1. aborted' = aborted
      BY <2>4 DEF HandlerCalls, Answered, EndHandlers, GetPoolSize, HandlerResizeEnd,
         CallThroughClient, CallThroughEntity, AskPoolSize, AskResize
    <3> QED
      BY <1>0, <3>1 DEF AbortOnlyInDestruction
  <2> QED
    BY <1>2, <2>1, <2>2, <2>3, <2>4 DEF HandlerNeedsMutex, HandlerGoesOn
<1>3. CASE OwnerGoesOn \/ OwnerCalls
  <2>1. CASE JoinDispatcher
    BY <2>1 DEF JoinDispatcher, AbortOnlyInDestruction, ClientAlive
  <2>2. CASE \E n \in {0, 1} : ResizeBegin(n)
    <3>1. (aborted' <=> thread_pool = "broken") /\ selfJoin' = selfJoin
      BY <2>2 DEF ResizeBegin, LockToResize
    <3> QED
      BY <3>1 DEF LockInv, AbortOnlyInDestruction
  <2>3. CASE ResizeEnd \/ Release \/ ShutdownPool \/ PoolJoined \/ StopDispatcher
             \/ MembersDestroyed \/ StopReceiving
    <3>1. aborted' = aborted
      BY <2>3 DEF ResizeEnd, Release, ShutdownPool, PoolJoined, StopDispatcher,
         MembersDestroyed, StopReceiving
    <3> QED
      BY <1>0, <3>1 DEF AbortOnlyInDestruction
  <2> QED
    BY <1>3, <2>1, <2>2, <2>3 DEF OwnerGoesOn, OwnerCalls
<1> QED
  BY <1>1, <1>2, <1>3 DEF Next, Others

-----------------------------------------------------------------------------
LEMMA NextInv == IInv /\ [Next]_vars => IInv'
<1> SUFFICES ASSUME IInv, [Next]_vars PROVE IInv'
  OBVIOUS
<1>1. CASE Next
  BY <1>1, TypeStep, OrderStep, WayStep, LockStep, EndStep, AbortStep DEF IInv
<1>2. CASE UNCHANGED vars
  <2> USE <1>2 DEF IInv, vars, dispVars, poolVars, handlerVars, history
  <2>1. TypeOK'
    BY DEF TypeOK
  <2>2. OrderInv'
    BY OrderKept DEF Hand, Waiting
  <2>3. WayInv' /\ LockInv' /\ AbortOnlyInDestruction'
    BY DEF WayInv, LockInv, AbortOnlyInDestruction, ClientAlive
  <2>4. EndInv'
    BY DEF EndInv, Drained, Joined
  <2> QED
    BY <2>1, <2>2, <2>3, <2>4
<1> QED
  BY <1>1, <1>2

(* The inductive invariant holds of every behaviour.                       *)
THEOREM Invariance == Spec => []IInv
  BY InitInv, NextInv, PTL DEF Spec

(* Every variable keeps its type; only handlers inside a call hold a       *)
(* reference.                                                              *)
THEOREM TypeCorrect == Spec => []TypeOK
<1>1. IInv => TypeOK
  BY DEF IInv
<1> QED
  BY <1>1, Invariance, PTL

(* Handlers of messages start in the order the messages arrived, and those *)
(* of edits too, for any number of workers and however the pool is resized.*)
THEOREM InOrder == Spec => []StartsInOrder
<1>1. IInv => StartsInOrder
  BY DEF IInv, OrderInv, Ordered, Earlier, StartsInOrder
<1> QED
  BY <1>1, Invariance, PTL

(* Nothing of a destroyed client runs, and the process is terminated only  *)
(* by the destruction of a busy client or a handler that joins itself.     *)
THEOREM Destruction == Spec => []DestructionSafe
<1>1. IInv => DestructionSafe
  <2>1. ASSUME IInv, mpc = "destroyed"
        PROVE  hpc[Dispatcher] = "none"
    BY <2>1 DEF IInv, EndInv, WayInv
  <2> QED
    BY <2>1 DEF IInv, EndInv, DestroyedClean, DestructionSafe
<1> QED
  BY <1>1, Invariance, PTL
=============================================================================
