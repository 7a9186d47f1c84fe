------------------------------ MODULE TaskPool ------------------------------
(***************************************************************************)
(* What cppgram::ThreadPool promises its users, without mutexes, condition *)
(* variables or counters: tasks are accepted while the pool is open, start *)
(* in the order they were accepted, at most Size of them run at a time,    *)
(* each exactly once; a wait for completion ends only when nothing is      *)
(* pending or running; the pool closes once, and it has drained when       *)
(* everything it ever accepted has finished.                               *)
(***************************************************************************)
EXTENDS Naturals, Sequences, FiniteSets

CONSTANTS Task,     \* the calls of enqueue, one element per call
          Caller,   \* the threads that use the pool
          Size      \* number of workers

VARIABLES pending,   \* accepted, not started, in order
          running,   \* started, not finished
          finished,  \* finished
          closed,    \* no further task is accepted
          waiting    \* the callers inside wait_all

vars == <<pending, running, finished, closed, waiting>>

Accepted == {pending[i] : i \in DOMAIN pending} \cup running \cup finished

Init == /\ pending = <<>>
        /\ running = {}
        /\ finished = {}
        /\ closed = FALSE
        /\ waiting = {}

Accept(t) == /\ ~closed
             /\ t \notin Accepted
             /\ pending' = Append(pending, t)
             /\ UNCHANGED <<running, finished, closed, waiting>>

Start == /\ pending # <<>>
         /\ Cardinality(running) < Size
         /\ running' = running \cup {Head(pending)}
         /\ pending' = Tail(pending)
         /\ UNCHANGED <<finished, closed, waiting>>

Finish(t) == /\ t \in running
             /\ running' = running \ {t}
             /\ finished' = finished \cup {t}
             /\ UNCHANGED <<pending, closed, waiting>>

WaitCall(c) == /\ c \notin waiting
               /\ waiting' = waiting \cup {c}
               /\ UNCHANGED <<pending, running, finished, closed>>

WaitReturn(c) == /\ c \in waiting
                 /\ pending = <<>>
                 /\ running = {}
                 /\ waiting' = waiting \ {c}
                 /\ UNCHANGED <<pending, running, finished, closed>>

Close == /\ ~closed
         /\ closed' = TRUE
         /\ UNCHANGED <<pending, running, finished, waiting>>

Next == \/ Start
        \/ Close
        \/ \E t \in Task : Accept(t) \/ Finish(t)
        \/ \E c \in Caller : WaitCall(c) \/ WaitReturn(c)

Spec == Init /\ [][Next]_vars
=============================================================================
