---------------------------- MODULE TdlibAdapter ----------------------------
(***************************************************************************)
(* detail::TdLibAdapter (src/backend/tdlib_adapter.hpp): threads that call *)
(* send and send_sync, the receive thread, and the thread that constructs, *)
(* starts and stops the adapter. TDLib itself is external: it answers each *)
(* request once, in any order, and mixes updates (request_id 0) between    *)
(* the answers; receive() hands everything out in the order TDLib produced *)
(* it.                                                                     *)
(***************************************************************************)
EXTENDS Naturals, Sequences, FiniteSets

CONSTANTS Caller,       \* threads that send requests
          NoOne,        \* no handler
          MaxRequests,  \* bound: ids handed out by next_id_
          MaxUpdates    \* bound: updates TDLib produces

ASSUME BoundAssumption == MaxRequests \in Nat \ {0} /\ MaxUpdates \in Nat
ASSUME CallerAssumption == NoOne \notin Caller

VARIABLES
  next_id,         \* next_id_
  handlers,        \* handlers_: id -> the caller whose promise it sets, or NoOne
  update_handler,  \* update_handler_ has been set
  running,         \* running_
  cpc,             \* where each caller is
  id,              \* its request id
  sync,            \* it is in send_sync, not in send without a handler
  promise,         \* the id its promise was set with an answer to, 0 if unset
  rpc,             \* where the receive thread is
  response,        \* what receive() returned
  h,               \* the handler the receive thread has copied or moved out
  mpc,             \* the thread that owns the adapter
  delivered,       \* history: updates passed to update_handler_
  td_requests,     \* external: requests TDLib has not answered
  td_output,       \* external: what receive() will return
  td_updates       \* external: updates produced so far

callerVars == <<cpc, id, sync, promise>>
recvVars   == <<rpc, response, h, delivered>>
tdVars     == <<td_requests, td_output, td_updates>>
vars       == <<next_id, handlers, update_handler, running, mpc, callerVars,
                recvVars, tdVars>>

Ids == 1 .. MaxRequests

Response == [id : 0 .. MaxRequests, seq : 0 .. MaxUpdates]
Answer(r) == [id |-> r, seq |-> 0]
Update(n) == [id |-> 0, seq |-> n]
NoResponse == Update(0)

OnUpdate == "update_handler"

ASSUME OnUpdateAssumption == OnUpdate \notin Caller \cup {NoOne}

TypeOK ==
  /\ next_id \in 1 .. MaxRequests + 1
  /\ handlers \in [Ids -> Caller \cup {NoOne}]
  /\ update_handler \in BOOLEAN
  /\ running \in BOOLEAN
  /\ cpc \in [Caller -> {"idle", "register", "post", "wait", "returned"}]
  /\ id \in [Caller -> 0 .. MaxRequests]
  /\ sync \in [Caller -> BOOLEAN]
  /\ promise \in [Caller -> 0 .. MaxRequests]
  /\ rpc \in {"off", "loop", "receive", "lookup", "call", "exited"}
  /\ response \in Response
  /\ h \in Caller \cup {NoOne, OnUpdate}
  /\ mpc \in {"ctor", "set", "start", "started", "join", "stopped"}
  /\ delivered \in Seq(1 .. MaxUpdates)
  /\ td_requests \subseteq Ids
  /\ td_output \in Seq(Response)
  /\ td_updates \in 0 .. MaxUpdates

(* The constructor has posted its getOption request, the first id.         *)
Init ==
  /\ next_id = 2
  /\ handlers = [r \in Ids |-> NoOne]
  /\ update_handler = FALSE
  /\ running = FALSE
  /\ cpc = [c \in Caller |-> "idle"]
  /\ id = [c \in Caller |-> 0]
  /\ sync = [c \in Caller |-> FALSE]
  /\ promise = [c \in Caller |-> 0]
  /\ rpc = "off"
  /\ response = NoResponse
  /\ h = NoOne
  /\ mpc = "set"
  /\ delivered = <<>>
  /\ td_requests = {1}
  /\ td_output = <<>>
  /\ td_updates = 0

-----------------------------------------------------------------------------
(* send and send_sync                                                      *)

(* Bug: next_id_ is read and written back in two steps, so that two        *)
(* callers can be given the same id.                                       *)
TakeStaleId(c) ==
  /\ cpc[c] = "idle"
  /\ next_id \in Ids
  /\ \E b \in BOOLEAN, n \in {next_id, next_id + 1} :
       /\ sync' = [sync EXCEPT ![c] = b]
       /\ cpc' = [cpc EXCEPT ![c] = IF b THEN "register" ELSE "post"]
       /\ next_id' = n
  /\ id' = [id EXCEPT ![c] = next_id]
  /\ promise' = [promise EXCEPT ![c] = 0]
  /\ UNCHANGED <<handlers, update_handler, running, mpc, recvVars, tdVars>>

(* id = next_id_.fetch_add(1)                                              *)
TakeId(c) ==
  /\ cpc[c] = "idle"
  /\ next_id \in Ids
  /\ \E b \in BOOLEAN :
       /\ sync' = [sync EXCEPT ![c] = b]
       /\ cpc' = [cpc EXCEPT ![c] = IF b THEN "register" ELSE "post"]
  /\ next_id' = next_id + 1
  /\ id' = [id EXCEPT ![c] = next_id]
  /\ promise' = [promise EXCEPT ![c] = 0]
  /\ UNCHANGED <<handlers, update_handler, running, mpc, recvVars, tdVars>>

(* Bug: the handler is filed under the id handed out last. *)
RegisterLatest(c) ==
  /\ cpc[c] = "register"
  /\ handlers' = [handlers EXCEPT ![next_id - 1] = c]
  /\ cpc' = [cpc EXCEPT ![c] = "post"]
  /\ UNCHANGED <<next_id, update_handler, running, mpc, id, sync, promise,
                 recvVars, tdVars>>

Register(c) ==
  /\ cpc[c] = "register"
  /\ handlers' = [handlers EXCEPT ![id[c]] = c]
  /\ cpc' = [cpc EXCEPT ![c] = "post"]
  /\ UNCHANGED <<next_id, update_handler, running, mpc, id, sync, promise,
                 recvVars, tdVars>>

(* mgr_->send, after which send_sync waits for its future.                 *)
Post(c) ==
  /\ cpc[c] = "post"
  /\ td_requests' = td_requests \cup {id[c]}
  /\ cpc' = [cpc EXCEPT ![c] = IF sync[c] THEN "wait" ELSE "idle"]
  /\ UNCHANGED <<next_id, handlers, update_handler, running, mpc, id, sync,
                 promise, recvVars, td_output, td_updates>>

(* future.get() returns.                                                   *)
GetResult(c) ==
  /\ cpc[c] = "wait"
  /\ promise[c] # 0
  /\ cpc' = [cpc EXCEPT ![c] = "returned"]
  /\ UNCHANGED <<next_id, handlers, update_handler, running, mpc, id, sync,
                 promise, recvVars, tdVars>>

(* The caller goes on; its promise, a local of send_sync, is gone.         *)
Resume(c) ==
  /\ cpc[c] = "returned"
  /\ cpc' = [cpc EXCEPT ![c] = "idle"]
  /\ promise' = [promise EXCEPT ![c] = 0]
  /\ UNCHANGED <<next_id, handlers, update_handler, running, mpc, id, sync,
                 recvVars, tdVars>>

-----------------------------------------------------------------------------
(* The receive thread                                                      *)

LoopAgain ==
  /\ rpc = "loop"
  /\ rpc' = IF running THEN "receive" ELSE "exited"
  /\ UNCHANGED <<next_id, handlers, update_handler, running, mpc, callerVars,
                 response, h, delivered, tdVars>>

(* receive(1.0) with an object, or its timeout.                            *)
ReceiveObject ==
  /\ rpc = "receive"
  /\ td_output # <<>>
  /\ response' = Head(td_output)
  /\ td_output' = Tail(td_output)
  /\ rpc' = "lookup"
  /\ UNCHANGED <<next_id, handlers, update_handler, running, mpc, callerVars,
                 h, delivered, td_requests, td_updates>>

(* Bug: an empty response ends the loop. *)
ReceiveTimeoutBreaks ==
  /\ rpc = "receive"
  /\ td_output = <<>>
  /\ rpc' = "exited"
  /\ UNCHANGED <<next_id, handlers, update_handler, running, mpc, callerVars,
                 response, h, delivered, tdVars>>

ReceiveTimeout ==
  /\ rpc = "receive"
  /\ td_output = <<>>
  /\ rpc' = "loop"
  /\ UNCHANGED <<next_id, handlers, update_handler, running, mpc, callerVars,
                 response, h, delivered, tdVars>>

(* Bug: every response is taken for an update. *)
HandlerOfUpdate(resp) == IF update_handler THEN OnUpdate ELSE NoOne

HandlerOf(resp) ==
  CASE resp.id # 0 -> handlers[resp.id]
    [] resp.id = 0 /\ update_handler -> OnUpdate
    [] OTHER -> NoOne

(* Bug: the handler is called but not erased. *)
LookupLeaving ==
  /\ rpc = "lookup"
  /\ h' = HandlerOf(response)
  /\ rpc' = "call"
  /\ UNCHANGED <<next_id, handlers, update_handler, running, mpc, callerVars,
                 response, delivered, tdVars>>

(* Under handlers_mtx_: copy update_handler_, or move the one-shot handler *)
(* out of the map.                                                         *)
Lookup ==
  /\ rpc = "lookup"
  /\ h' = HandlerOf(response)
  /\ handlers' = IF response.id \in Ids THEN [handlers EXCEPT ![response.id] = NoOne]
                                      ELSE handlers
  /\ rpc' = "call"
  /\ UNCHANGED <<next_id, update_handler, running, mpc, callerVars, response,
                 delivered, tdVars>>

(* if (h) h(object), outside the lock.                                     *)
CallHandler ==
  /\ rpc = "call"
  /\ promise' = IF h \in Caller THEN [promise EXCEPT ![h] = response.id]
                                ELSE promise
  /\ delivered' = IF h = OnUpdate THEN Append(delivered, response.seq)
                                  ELSE delivered
  /\ h' = NoOne
  /\ response' = NoResponse
  /\ rpc' = "loop"
  /\ UNCHANGED <<next_id, handlers, update_handler, running, mpc, cpc, id, sync,
                 tdVars>>

-----------------------------------------------------------------------------
(* The owner: ClientImpl::init sets the update handler and starts;         *)
(* ~Client and ~TdLibAdapter stop.                                         *)

SetUpdateHandler ==
  /\ mpc = "set"
  /\ update_handler' = TRUE
  /\ mpc' = "start"
  /\ UNCHANGED <<next_id, handlers, running, callerVars, recvVars, tdVars>>

(* Bug: the receive thread is started before the update handler is set. *)
StartFirst ==
  /\ mpc \in {"set", "start"}
  /\ ~running
  /\ running' = TRUE
  /\ rpc' = "loop"
  /\ mpc' = IF mpc = "start" THEN "started" ELSE mpc
  /\ UNCHANGED <<next_id, handlers, update_handler, callerVars, response, h,
                 delivered, tdVars>>

Start ==
  /\ mpc = "start"
  /\ ~running
  /\ running' = TRUE
  /\ rpc' = "loop"
  /\ mpc' = "started"
  /\ UNCHANGED <<next_id, handlers, update_handler, callerVars, response, h,
                 delivered, tdVars>>

(* Bug: stop does not join the receive thread. *)
StopWithoutJoin ==
  /\ mpc = "started"
  /\ running' = FALSE
  /\ mpc' = "stopped"
  /\ UNCHANGED <<next_id, handlers, update_handler, callerVars, recvVars, tdVars>>

Stop ==
  /\ mpc = "started"
  /\ running' = FALSE
  /\ mpc' = "join"
  /\ UNCHANGED <<next_id, handlers, update_handler, callerVars, recvVars, tdVars>>

Join ==
  /\ mpc = "join"
  /\ rpc = "exited"
  /\ mpc' = "stopped"
  /\ UNCHANGED <<next_id, handlers, update_handler, running, callerVars,
                 recvVars, tdVars>>

-----------------------------------------------------------------------------
(* TDLib                                                                   *)

TdAnswer(r) ==
  /\ r \in td_requests
  /\ td_requests' = td_requests \ {r}
  /\ td_output' = Append(td_output, Answer(r))
  /\ UNCHANGED <<next_id, handlers, update_handler, running, mpc, callerVars,
                 recvVars, td_updates>>

TdUpdate ==
  /\ td_updates < MaxUpdates
  /\ td_updates' = td_updates + 1
  /\ td_output' = Append(td_output, Update(td_updates'))
  /\ UNCHANGED <<next_id, handlers, update_handler, running, mpc, callerVars,
                 recvVars, td_requests>>

-----------------------------------------------------------------------------
SendStep(c) == Register(c) \/ Post(c) \/ GetResult(c) \/ Resume(c)

RecvStep == LoopAgain \/ ReceiveObject \/ ReceiveTimeout \/ Lookup \/ CallHandler

OwnerStep == SetUpdateHandler \/ Start \/ Join

TdStep == TdUpdate \/ \E r \in Ids : TdAnswer(r)

Next == \/ \E c \in Caller : TakeId(c) \/ SendStep(c)
        \/ RecvStep
        \/ OwnerStep
        \/ Stop
        \/ TdStep

Spec == Init /\ [][Next]_vars

(* Threads run, TDLib answers every request. Nobody has to send anything,  *)
(* and nobody has to stop the adapter.                                     *)
Fairness ==
  /\ \A c \in Caller : WF_vars(SendStep(c))
  /\ WF_vars(RecvStep)
  /\ WF_vars(OwnerStep)
  /\ \A r \in Ids : WF_vars(TdAnswer(r))

FairSpec == Spec /\ Fairness

-----------------------------------------------------------------------------
(* The promise of a waiting caller is set by the answer to its own         *)
(* request, whatever else is in flight. A handler holds a reference to a   *)
(* promise on its caller's stack: one that is registered, or that the      *)
(* receive thread has taken out and not called yet, belongs to a caller    *)
(* still inside send_sync, for that request, and not answered, so that no  *)
(* promise is set twice or after it is gone.                               *)
PromiseAlive ==
  /\ \A c \in Caller : promise[c] # 0 => promise[c] = id[c]
  /\ \A r \in Ids : handlers[r] # NoOne =>
       LET c == handlers[r] IN
       cpc[c] \in {"post", "wait"} /\ sync[c] /\ id[c] = r /\ promise[c] = 0
  /\ h \in Caller =>
       cpc[h] = "wait" /\ id[h] = response.id /\ promise[h] = 0

(* Whoever waits will be answered: its request is at TDLib, on its way     *)
(* back, or in the receive thread's hands, and its handler is still there. *)
NoAnswerLost ==
  \A c \in Caller : cpc[c] = "wait" /\ promise[c] = 0 =>
    \/ /\ handlers[id[c]] = c
       /\ \/ id[c] \in td_requests
          \/ \E i \in DOMAIN td_output : td_output[i].id = id[c]
          \/ rpc = "lookup" /\ response.id = id[c]
    \/ rpc = "call" /\ h = c

(* Updates reach the update handler in the order TDLib produced them, none *)
(* skipped and none twice.                                                 *)
UpdatesInOrder == \A i \in DOMAIN delivered : delivered[i] = i

(* What TDLib hands out reaches who it is for while they are there: the    *)
(* promise that is set is alive, no answer is lost, updates keep their     *)
(* order.                                                                  *)
DeliverySound == PromiseAlive /\ NoAnswerLost /\ UpdatesInOrder

(* Once stop has returned, no handler is called any more: no update is     *)
(* delivered into a client that is being destroyed, no promise is set.     *)
QuietAfterStop ==
  [][mpc = "stopped" => /\ UNCHANGED <<delivered, h>>
                        /\ \A c \in Caller : promise'[c] \in {promise[c], 0}]_vars

(* send_sync returns, unless the adapter is stopped first: nothing answers *)
(* a caller that is still waiting then.                                    *)
SendSyncReturns ==
  \A c \in Caller : cpc[c] = "wait" ~> cpc[c] = "returned" \/ mpc \in {"join", "stopped"}
=============================================================================
