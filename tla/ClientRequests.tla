---------------------------- MODULE ClientRequests ----------------------------
(***************************************************************************)
(* The requests of ClientImpl (src/backend/client.cpp) and the caches they *)
(* share with the dispatcher: any number of threads run operations of      *)
(* RequestCatalog while the dispatcher takes updates from update_queue_.   *)
(*                                                                         *)
(* TDLib and the HTTP Bot API are external. TDLib's answers and updates    *)
(* come in one stream; the receive thread hands an answer to the promise   *)
(* of its caller and puts an update into update_queue_ (TdlibAdapter,      *)
(* ClientEvents), so that each is one step here: what delays it further is *)
(* the caller or the dispatcher that has not gone on yet. Every access to  *)
(* a cache is under cache_mtx_ and a step of its own.                      *)
(*                                                                         *)
(* An operation may be a coroutine (coro.hpp), which starts when its Task  *)
(* is awaited, and may be called through an entity, which may outlive the  *)
(* client or, if it is a Chat, have been given none. Destroying a client   *)
(* that is busy is ClientEvents' subject: here the owner waits until       *)
(* nobody uses it.                                                         *)
(***************************************************************************)
EXTENDS Naturals, Sequences, RequestCatalog

CONSTANTS Caller,      \* threads that call operations
          User, Chat,  \* identifiers
          None,        \* no shape, no message, no target
          MaxCalls,    \* bound: operations called
          MaxVersion,  \* bound: versions of a profile
          MaxUpdates   \* bound: updates published

ASSUME RequestAssumption == MaxCalls \in Nat /\ MaxVersion \in Nat /\ MaxUpdates \in Nat
ASSUME NoneAssumption == None \notin Shape \cup User \cup Chat

VARIABLES
  user_cache,       \* user_cache_: the version of each profile, 0 if absent
  chat_cache,       \* chat_cache_: each Chat in it with or without a client
  chat_type_cache,  \* chat_type_cache_: the chats in it
  unbound,          \* chats the program has a Chat of that has no client
  update_queue,     \* update_queue_
  pc,               \* where each caller is
  op,               \* the shape of its operation
  target,           \* the user or chat it is about
  reply,            \* the answer of TDLib: its kind, and a version if it has one
  ask,              \* which of its requests that answers
  outcome,          \* how its last operation ended
  calls,            \* operations called so far
  carried,          \* history: times Telegram has carried the operation out
  unheard,          \* history: an HTTP reply was lost
  sending,          \* history: what became of the message TDLib is to send
  dispatched,       \* history: the message handed to the handlers last
  seen,             \* history: version of the last updateUser processed
  overtaken,        \* history: users whose update overtook an answer
  introduced,       \* history: chats whose updateNewChat was processed
  truth,            \* external: version of each profile, 0 if TDLib has none
  announced,        \* external: chats TDLib has announced
  published,        \* external: updates published
  gone              \* the client is destroyed: weak pointers have expired

cacheVars  == <<user_cache, chat_cache, chat_type_cache, unbound>>
callerVars == <<pc, op, target, reply, ask, outcome, calls, carried, unheard,
                sending>>
seenVars   == <<dispatched, seen, overtaken, introduced>>
tdVars     == <<truth, announced, published, gone>>
vars == <<cacheVars, update_queue, callerVars, seenVars, tdVars>>

Version == 1 .. MaxVersion
Update  == [kind : {"user"}, user : User, version : Version]
           \cup [kind : {"chat"}, chat : Chat]
           \cup [kind : {"message"}, user : User, chat : Chat]
           \cup [kind : {"send"}]
Message == [typed : BOOLEAN, sender : 0 .. MaxVersion]
Reply   == [kind : {"expected", "error", "other", "null"}, version : 0 .. MaxVersion]
NoReply == [kind |-> "error", version |-> 0]

TypeOK ==
  /\ user_cache \in [User -> 0 .. MaxVersion]
  /\ chat_cache \in [Chat -> {"absent", "unbound", "bound"}]
  /\ chat_type_cache \subseteq Chat
  /\ unbound \subseteq Chat
  /\ update_queue \in Seq(Update)
  /\ pc \in [Caller -> {"idle", "task", "look", "http", "ask", "wait", "answered"}]
  /\ op \in [Caller -> Shapes \cup {None}]
  /\ target \in [Caller -> User \cup Chat \cup {None}]
  /\ reply \in [Caller -> Reply]
  /\ ask \in [Caller -> 1 .. 3]
  /\ outcome \in [Caller -> {"none", "returned", "zero", "threw", "default"}]
  /\ calls \in 0 .. MaxCalls
  /\ carried \in [Caller -> 0 .. 2]
  /\ unheard \in [Caller -> BOOLEAN]
  /\ sending \in [Caller -> {"none", "pending", "failed"}]
  /\ dispatched \in Message \cup {None}
  /\ seen \in [User -> 0 .. MaxVersion]
  /\ overtaken \subseteq User
  /\ introduced \subseteq Chat
  /\ truth \in [User -> 0 .. MaxVersion]
  /\ announced \subseteq Chat
  /\ published \in 0 .. MaxUpdates
  /\ gone \in BOOLEAN

Init ==
  /\ user_cache = [u \in User |-> 0]
  /\ chat_cache = [c \in Chat |-> "absent"]
  /\ chat_type_cache = {}
  /\ unbound = {}
  /\ update_queue = <<>>
  /\ pc = [t \in Caller |-> "idle"]
  /\ op = [t \in Caller |-> None]
  /\ target = [t \in Caller |-> None]
  /\ reply = [t \in Caller |-> NoReply]
  /\ ask = [t \in Caller |-> 1]
  /\ outcome = [t \in Caller |-> "none"]
  /\ calls = 0
  /\ carried = [t \in Caller |-> 0]
  /\ unheard = [t \in Caller |-> FALSE]
  /\ sending = [t \in Caller |-> "none"]
  /\ dispatched = None
  /\ seen = [u \in User |-> 0]
  /\ overtaken = {}
  /\ introduced = {}
  /\ truth = [u \in User |-> 0]
  /\ announced = {}
  /\ published = 0
  /\ gone = FALSE

-----------------------------------------------------------------------------
(* A call                                                                  *)

Targets(shape) == CASE shape.of = "user" -> User
                    [] shape.of = "chat" -> Chat
                    [] OTHER -> {None}

Goes(t, where) == pc' = [pc EXCEPT ![t] = where]

Ends(t, how) ==
  /\ Goes(t, "idle")
  /\ outcome' = [outcome EXCEPT ![t] = how]

(* The operation a thread has in hand is the one of this shape.            *)
TakesUp(t, shape) ==
  /\ pc[t] = "idle"
  /\ calls < MaxCalls
  /\ calls' = calls + 1
  /\ op' = [op EXCEPT ![t] = shape]
  /\ reply' = [reply EXCEPT ![t] = NoReply]
  /\ ask' = [ask EXCEPT ![t] = 1]
  /\ carried' = [carried EXCEPT ![t] = 0]
  /\ unheard' = [unheard EXCEPT ![t] = FALSE]
  /\ sending' = [sending EXCEPT ![t] = "none"]
  /\ UNCHANGED <<cacheVars, update_queue, seenVars, tdVars>>

(* Whether the operation is one for the Bot API depends on the token and   *)
(* the parse mode.                                                         *)
Starts(t, shape) ==
  \/ shape.cached /\ Goes(t, "look")
  \/ shape.http /\ Goes(t, "http")
  \/ ~shape.cached /\ Goes(t, "ask")

(* A member function of Client forwards to impl_, the method of an entity  *)
(* to what its weak pointer gives.                                         *)
Call(t, shape) ==
  /\ ~gone
  /\ TakesUp(t, shape)
  /\ \E x \in Targets(shape) : target' = [target EXCEPT ![t] = x]
  /\ Starts(t, shape)
  /\ outcome' = [outcome EXCEPT ![t] = "none"]

(* A method of an entity does nothing and returns a default if its weak    *)
(* pointer is empty: because the client is destroyed, or because none was  *)
(* ever put into it, which is so of a Chat from updateNewChat.             *)
CallExpired(t, shape) ==
  /\ gone
  /\ TakesUp(t, shape)
  /\ target' = [target EXCEPT ![t] = None]
  /\ Ends(t, "default")

CallUnbound(t, shape, c) ==
  /\ ~gone
  /\ c \in unbound
  /\ TakesUp(t, shape)
  /\ target' = [target EXCEPT ![t] = c]
  /\ Ends(t, "default")

(* The coroutine is suspended before it does anything (initial_suspend).   *)
CreateTask(t, shape) ==
  /\ ~gone
  /\ TakesUp(t, shape)
  /\ \E x \in Targets(shape) : target' = [target EXCEPT ![t] = x]
  /\ Goes(t, "task")
  /\ outcome' = [outcome EXCEPT ![t] = "none"]

(* co_await or sync_wait: the operation runs on the thread that awaits it. *)
AwaitTask(t) ==
  /\ pc[t] = "task"
  /\ Starts(t, op[t])
  /\ UNCHANGED <<cacheVars, update_queue, op, target, reply, ask, outcome, calls,
                 carried, unheard, sending, seenVars, tdVars>>

(* ~Task destroys the coroutine.                                           *)
DropTask(t) ==
  /\ pc[t] = "task"
  /\ Goes(t, "idle")
  /\ UNCHANGED <<cacheVars, update_queue, op, target, reply, ask, outcome, calls,
                 carried, unheard, sending, seenVars, tdVars>>

(* The owner destroys the client.                                          *)
Destroy ==
  /\ ~gone
  /\ \A t \in Caller : pc[t] = "idle"
  /\ gone' = TRUE
  /\ UNCHANGED <<cacheVars, update_queue, callerVars, seenVars, truth, announced,
                 published>>

InCache(t) == IF op[t].of = "user" THEN user_cache[target[t]] # 0
                                   ELSE chat_cache[target[t]] # "absent"

(* getUser and getChat return a copy of what the cache has.                *)
Look(t) ==
  /\ pc[t] = "look"
  /\ IF InCache(t) THEN Ends(t, "returned")
                   ELSE Goes(t, "ask") /\ UNCHANGED outcome
  /\ unbound' = IF op[t].of = "chat" /\ chat_cache[target[t]] = "unbound"
                THEN unbound \cup {target[t]} ELSE unbound
  /\ UNCHANGED <<user_cache, chat_cache, chat_type_cache, update_queue, op, target, reply, ask, calls, carried,
                 unheard, sending, seenVars, tdVars>>

(* http_post_json and the test of what it returned. Telegram may refuse,   *)
(* accept and say so, or accept with its reply lost to an error or to the  *)
(* timeout of ten seconds, which reads as no reply at all.                 *)
PostAccepted(t) ==
  /\ carried' = [carried EXCEPT ![t] = @ + 1]
  /\ Ends(t, "returned")
  /\ UNCHANGED unheard

PostRefused(t) ==
  /\ Goes(t, "ask")
  /\ UNCHANGED <<carried, unheard, outcome>>

PostUnheard(t) ==
  /\ carried' = [carried EXCEPT ![t] = @ + 1]
  /\ unheard' = [unheard EXCEPT ![t] = TRUE]
  /\ Goes(t, "ask")
  /\ UNCHANGED outcome

(* Bug: the request falls through to TDLib after it was accepted. *)
PostFallingThrough(t) ==
  /\ pc[t] = "http"
  /\ \/ carried' = [carried EXCEPT ![t] = @ + 1] /\ Goes(t, "ask")
        /\ UNCHANGED <<unheard, outcome>>
     \/ PostRefused(t)
     \/ PostUnheard(t)
  /\ UNCHANGED <<cacheVars, update_queue, op, target, reply, ask, calls, sending, seenVars,
                 tdVars>>

(* Bug: no CURLOPT_TIMEOUT, so that a reply that does not come is waited for. *)
PostWithoutTimeout(t) ==
  /\ pc[t] = "http"
  /\ ~unheard[t]
  /\ \/ PostAccepted(t)
     \/ PostRefused(t)
     \/ unheard' = [unheard EXCEPT ![t] = TRUE] /\ UNCHANGED <<pc, carried, outcome>>
  /\ UNCHANGED <<cacheVars, update_queue, op, target, reply, ask, calls, sending, seenVars,
                 tdVars>>

Post(t) ==
  /\ pc[t] = "http"
  /\ PostAccepted(t) \/ PostRefused(t) \/ PostUnheard(t)
  /\ UNCHANGED <<cacheVars, update_queue, op, target, reply, ask, calls, sending, seenVars,
                 tdVars>>

(* td.send_sync waits for the answer, td.send does not, and an operation   *)
(* TDLib 1.8.0 has no request for does nothing.                            *)
Ask(t) ==
  /\ pc[t] = "ask"
  /\ IF op[t].asks \in {"one", "count"}
       THEN Goes(t, "wait") /\ UNCHANGED outcome
       ELSE Ends(t, "returned")
  /\ UNCHANGED <<cacheVars, update_queue, op, target, reply, ask, calls, carried,
                 unheard, sending, seenVars, tdVars>>

-----------------------------------------------------------------------------
(* What a caller does with the answer                                      *)

(* Bug: the Chat that is cached and returned is given no client. *)
StoreUnbound(t) ==
  LET x == target[t] IN
  CASE op[t].of = "user" ->
         /\ user_cache' = [user_cache EXCEPT ![x] = reply[t].version]
         /\ UNCHANGED <<chat_cache, chat_type_cache, unbound>>
    [] op[t].of = "chat" ->
         /\ chat_cache' = [chat_cache EXCEPT ![x] = "unbound"]
         /\ chat_type_cache' = chat_type_cache \cup {x}
         /\ unbound' = unbound \cup {x}
         /\ UNCHANGED user_cache
    [] OTHER -> UNCHANGED cacheVars

(* getMe, getUser and getChat cache the object they were answered with,    *)
(* and return it; a Chat is given the client.                              *)
Store(t) ==
  LET x == target[t] IN
  CASE op[t].of = "user" ->
         /\ user_cache' = [user_cache EXCEPT ![x] = reply[t].version]
         /\ UNCHANGED <<chat_cache, chat_type_cache, unbound>>
    [] op[t].of = "chat" ->
         /\ chat_cache' = [chat_cache EXCEPT ![x] = "bound"]
         /\ chat_type_cache' = chat_type_cache \cup {x}
         /\ UNCHANGED <<user_cache, unbound>>
    [] OTHER -> UNCHANGED cacheVars

(* Bug: the answer goes unchecked. *)
FinishUnchecked(t) ==
  /\ pc[t] = "answered"
  /\ op[t].asks = "one"
  /\ IF op[t].strict /\ reply[t].kind # "expected"
       THEN Ends(t, "threw") /\ UNCHANGED cacheVars
       ELSE Ends(t, "returned") /\ Store(t)
  /\ UNCHANGED <<update_queue, op, target, reply, ask, calls, carried, unheard,
                 sending, seenVars, tdVars>>

(* check_error throws on an error. On another type than expected a strict  *)
(* operation throws too; the others return a default or a stub, as does    *)
(* forwardMessage for a message TDLib cannot forward.                      *)
Finish(t) ==
  /\ pc[t] = "answered"
  /\ op[t].asks = "one"
  /\ CASE reply[t].kind = "expected" -> Ends(t, "returned") /\ Store(t)
       [] reply[t].kind \in {"other", "null"} /\ ~op[t].strict ->
            Ends(t, "returned") /\ UNCHANGED cacheVars
       [] OTHER -> Ends(t, "threw") /\ UNCHANGED cacheVars
  /\ UNCHANGED <<update_queue, op, target, reply, ask, calls, carried, unheard,
                 sending, seenVars, tdVars>>

AskNext(t, n) ==
  /\ ask' = [ask EXCEPT ![t] = n]
  /\ Goes(t, "wait")
  /\ UNCHANGED outcome

(* Bug: the search is tried again whenever it fails. *)
FinishCountRetrying(t) ==
  /\ pc[t] = "answered"
  /\ op[t].asks = "count"
  /\ IF reply[t].kind = "expected"
       THEN Ends(t, "returned") /\ UNCHANGED ask
       ELSE AskNext(t, ask[t] + 1)
  /\ UNCHANGED <<cacheVars, update_queue, op, target, reply, calls, carried,
                 unheard, sending, seenVars, tdVars>>

(* getChatMemberCount: getChat, whose error throws; for a supergroup its   *)
(* full info; when that fails, or for another chat, a search. The errors   *)
(* of the last two are not checked, and in the end the count is 0.         *)
FinishCount(t) ==
  /\ pc[t] = "answered"
  /\ op[t].asks = "count"
  /\ \/ /\ ask[t] = 1 /\ reply[t].kind = "error"
        /\ Ends(t, "threw") /\ UNCHANGED ask
     \/ /\ ask[t] = 1 /\ reply[t].kind = "expected"
        /\ AskNext(t, 2)
     \/ /\ ask[t] = 1 /\ reply[t].kind # "error"
        /\ AskNext(t, 3)
     \/ /\ ask[t] = 2 /\ reply[t].kind # "expected"
        /\ AskNext(t, 3)
     \/ /\ ask[t] \in {2, 3} /\ reply[t].kind = "expected"
        /\ Ends(t, "returned") /\ UNCHANGED ask
     \/ /\ ask[t] = 3 /\ reply[t].kind # "expected"
        /\ Ends(t, "zero") /\ UNCHANGED ask
  /\ UNCHANGED <<cacheVars, update_queue, op, target, reply, calls, carried,
                 unheard, sending, seenVars, tdVars>>

-----------------------------------------------------------------------------
(* TDLib. It knows a user or chat it has announced, answers a request with *)
(* the object asked for, an error or, as the code provides for, something  *)
(* else, and has carried out what it did not answer with an error; but a   *)
(* message it is asked to send it answers with at once, and sends later.   *)
Knows(t) == CASE op[t].of = "user" -> truth[target[t]] # 0
              [] op[t].of = "chat" -> target[t] \in announced
              [] OTHER -> TRUE

Takes(t, k) == op[t].effect /\ k \in {"expected", "other"}

TdAnswer(t) ==
  /\ pc[t] = "wait"
  /\ Goes(t, "answered")
  /\ \E k \in {"expected", "error", "other", "null"} :
       /\ k = "expected" => Knows(t)
       /\ k = "null" => op[t].sends = "messages"
       /\ reply' = [reply EXCEPT ![t] =
                      [kind |-> k,
                       version |-> IF k = "expected" /\ op[t].of = "user"
                                   THEN truth[target[t]] ELSE 0]]
       /\ carried' = [carried EXCEPT ![t] =
                        IF Takes(t, k) /\ op[t].sends = "no" THEN @ + 1 ELSE @]
       /\ sending' = [sending EXCEPT ![t] =
                        IF Takes(t, k) /\ op[t].sends # "no" THEN "pending" ELSE @]
  /\ UNCHANGED <<cacheVars, update_queue, op, target, ask, outcome, calls,
                 unheard, seenVars, tdVars>>

Publish(upd) ==
  /\ ~gone
  /\ published < MaxUpdates
  /\ published' = published + 1
  /\ update_queue' = Append(update_queue, upd)
  /\ UNCHANGED <<cacheVars, seenVars, gone>>

(* updateMessageSendSucceeded and updateMessageSendFailed.                 *)
TdSends(t) ==
  /\ sending[t] = "pending"
  /\ \/ /\ sending' = [sending EXCEPT ![t] = "none"]
        /\ carried' = [carried EXCEPT ![t] = @ + 1]
     \/ /\ sending' = [sending EXCEPT ![t] = "failed"]
        /\ UNCHANGED carried
  /\ Publish([kind |-> "send"])
  /\ UNCHANGED <<pc, op, target, reply, ask, outcome, calls, unheard, truth,
                 announced>>

TdUser(u) ==
  /\ truth[u] < MaxVersion
  /\ truth' = [truth EXCEPT ![u] = @ + 1]
  /\ Publish([kind |-> "user", user |-> u, version |-> truth[u] + 1])
  /\ UNCHANGED <<callerVars, announced>>

TdChat(c) ==
  /\ c \notin announced
  /\ announced' = announced \cup {c}
  /\ Publish([kind |-> "chat", chat |-> c])
  /\ UNCHANGED <<callerVars, truth>>

(* The sender and the chat of a message have been announced before.        *)
TdMessage(u, c) ==
  /\ truth[u] # 0
  /\ c \in announced
  /\ Publish([kind |-> "message", user |-> u, chat |-> c])
  /\ UNCHANGED <<callerVars, truth, announced>>

-----------------------------------------------------------------------------
(* process_update, on the dispatcher                                       *)

FirstIs(kind) == ~gone /\ update_queue # <<>> /\ Head(update_queue).kind = kind

(* A caller holds an answer about u that it has not stored.                *)
Overtakes(u) == \E t \in Caller : /\ pc[t] = "answered"
                                  /\ op[t].of = "user"
                                  /\ target[t] = u
                                  /\ reply[t].kind = "expected"

Seen(u, v) ==
  /\ seen' = [seen EXCEPT ![u] = v]
  /\ overtaken' = IF Overtakes(u) THEN overtaken \cup {u} ELSE overtaken \ {u}
  /\ update_queue' = Tail(update_queue)
  /\ UNCHANGED <<chat_cache, chat_type_cache, unbound, callerVars, dispatched,
                 introduced, tdVars>>

(* Bug: emplace, which keeps the profile that is there. *)
UpdateUserEmplacing ==
  /\ FirstIs("user")
  /\ LET upd == Head(update_queue) IN
       /\ user_cache' = [user_cache EXCEPT ![upd.user] = IF @ = 0 THEN upd.version ELSE @]
       /\ Seen(upd.user, upd.version)

UpdateUser ==
  /\ FirstIs("user")
  /\ LET upd == Head(update_queue) IN
       /\ user_cache' = [user_cache EXCEPT ![upd.user] = upd.version]
       /\ Seen(upd.user, upd.version)

(* The chat is put into the cache, whatever was there, and has no client:  *)
(* convert_chat is given none.                                             *)
Introduce(c) ==
  /\ chat_cache' = [chat_cache EXCEPT ![c] = "unbound"]
  /\ introduced' = introduced \cup {c}
  /\ update_queue' = Tail(update_queue)
  /\ UNCHANGED <<user_cache, unbound, callerVars, dispatched, seen, overtaken, tdVars>>

(* Bug: the type of the chat is left to getChat. *)
UpdateNewChatUntyped ==
  /\ FirstIs("chat")
  /\ Introduce(Head(update_queue).chat)
  /\ UNCHANGED chat_type_cache

UpdateNewChat ==
  /\ FirstIs("chat")
  /\ Introduce(Head(update_queue).chat)
  /\ chat_type_cache' = chat_type_cache \cup {Head(update_queue).chat}

(* lookup_chat_type, enrich_sender, and on to the handlers.                *)
UpdateNewMessage ==
  /\ FirstIs("message")
  /\ LET upd == Head(update_queue) IN
       dispatched' = [typed  |-> upd.chat \in chat_type_cache,
                      sender |-> user_cache[upd.user]]
  /\ update_queue' = Tail(update_queue)
  /\ UNCHANGED <<cacheVars, callerVars, seen, overtaken, introduced, tdVars>>

(* An update that has no case is dropped: what became of a message.        *)
UpdateIgnored ==
  /\ FirstIs("send")
  /\ update_queue' = Tail(update_queue)
  /\ UNCHANGED <<cacheVars, callerVars, seenVars, tdVars>>

-----------------------------------------------------------------------------
Next ==
  \/ \E t \in Caller, shape \in Shapes : Call(t, shape)
  \/ \E t \in Caller, shape \in EntityShapes : CallExpired(t, shape)
  \/ \E t \in Caller, shape \in ChatShapes, c \in Chat : CallUnbound(t, shape, c)
  \/ \E t \in Caller, shape \in AsyncShapes : CreateTask(t, shape)
  \/ \E t \in Caller : AwaitTask(t) \/ DropTask(t)
  \/ Destroy
  \/ \E t \in Caller : Look(t) \/ Post(t) \/ Ask(t) \/ Finish(t) \/ FinishCount(t)
  \/ \E t \in Caller : TdAnswer(t) \/ TdSends(t)
  \/ \E u \in User : TdUser(u)
  \/ \E c \in Chat : TdChat(c)
  \/ \E u \in User, c \in Chat : TdMessage(u, c)
  \/ UpdateUser \/ UpdateNewChat \/ UpdateNewMessage \/ UpdateIgnored

Spec == Init /\ [][Next]_vars

(* A thread goes on, an HTTP request ends within its timeout, and TDLib    *)
(* answers every request.                                                  *)
Fairness ==
  \A t \in Caller : /\ WF_vars(Look(t)) /\ WF_vars(Post(t)) /\ WF_vars(Ask(t))
                    /\ WF_vars(Finish(t)) /\ WF_vars(FinishCount(t))
                    /\ WF_vars(TdAnswer(t))

FairSpec == Spec /\ Fairness

-----------------------------------------------------------------------------
(* Handlers are given messages whose chat has a type and whose sender has  *)
(* a profile: TDLib announces both first, the dispatcher keeps the order   *)
(* (process_update), and no request ever takes an entry out of a cache.    *)
MessagesDescribed ==
  dispatched # None => dispatched.typed /\ dispatched.sender # 0

(* The profile in user_cache_ is at least as new as the last updateUser    *)
(* processed, unless that update overtook an answer that getUser or getMe  *)
(* had in hand: there is no other way to a stale profile, whatever the     *)
(* dispatcher lags behind and however many lookups are under way.          *)
StaleOnlyIfOvertaken ==
  \A u \in User : user_cache[u] < seen[u] => u \in overtaken

(* What handlers and callers read in the caches is there, and as new as    *)
(* the code can make it.                                                   *)
CachesSound == MessagesDescribed /\ StaleOnlyIfOvertaken

(* An operation that awaits its answer and changes something on Telegram   *)
(* returns normally only if Telegram has carried it out, through the Bot   *)
(* API or through TDLib (check_error, send_content); or if it is a message *)
(* that TDLib has taken on and is still to send or has failed to, or one   *)
(* it could not forward. A method does nothing only if the client is gone, *)
(* or on a Chat that the cache had from updateNewChat. A coroutine that    *)
(* was not awaited has not carried out anything.                           *)
NormalMeansDone ==
  \A t \in Caller :
    /\ outcome[t] = "returned" /\ op[t].effect /\ op[t].asks = "one" =>
         \/ carried[t] # 0
         \/ sending[t] \in {"pending", "failed"}
         \/ op[t].sends = "messages" /\ reply[t].kind = "null"
    /\ outcome[t] = "default" => gone \/ target[t] \in introduced
    /\ pc[t] \in {"idle", "task"} /\ outcome[t] = "none" =>
         carried[t] = 0 /\ sending[t] = "none"

(* It is carried out a second time, or although it throws, only if the     *)
(* reply of the Bot API was lost, so that the client fell back on TDLib,   *)
(* or if the answer was of another type and the operation is strict; and   *)
(* if it throws there is no message to be sent.                            *)
TwiceOnlyUnheard ==
  \A t \in Caller :
    /\ carried[t] = 2 => unheard[t]
    /\ outcome[t] = "threw" =>
         /\ carried[t] # 0 => unheard[t] \/ (op[t].strict /\ reply[t].kind = "other")
         /\ sending[t] = "none"

(* What a caller can tell from how an operation ended.                     *)
EffectsKnown == NormalMeansDone /\ TwiceOnlyUnheard

(* Every operation that has started returns or throws.                     *)
OperationsEnd ==
  \A t \in Caller : pc[t] \notin {"idle", "task"} ~> pc[t] = "idle"

-----------------------------------------------------------------------------
(* What the documentation says, and the code does not do.                  *)

(* The methods of an entity act as long as there is a client: README.md    *)
(* of the repository lists chat.banMember() among them (206), and getChat  *)
(* is where a Chat comes from.                                             *)
EntityMethodsAct == \A t \in Caller : outcome[t] = "default" => gone
=============================================================================
