------------------------ MODULE ClientRequestsProofs ------------------------
(***************************************************************************)
(* Proofs about ClientRequests for any number of callers, users and chats: *)
(* the caches are what the updates and answers make them, and how an       *)
(* operation ended tells what was carried out.                             *)
(***************************************************************************)
EXTENDS ClientRequests, SequenceTheorems, TLAPS

USE RequestAssumption, NoneAssumption

(* What was carried out through the Bot API without the client knowing,    *)
(* and what TDLib has carried out.                                         *)
Sent(t) == IF unheard[t] THEN 1 ELSE 0

Done(t) == IF Takes(t, reply[t].kind) /\ op[t].sends = "no" THEN 1 ELSE 0

(* It has been given the message, and has not sent it yet or never will;   *)
(* or has sent it.                                                         *)
Taken(t) == Takes(t, reply[t].kind) /\ op[t].sends # "no"

Undone(t) == sending[t] # "none" /\ carried[t] = Sent(t)

SentLater(t) == sending[t] = "none" /\ carried[t] = Sent(t) + 1

(* The two parts of EffectsKnown for one caller.                           *)
KnownEffects(t) ==
  /\ outcome[t] = "returned" /\ op[t].effect /\ op[t].asks = "one" =>
       \/ carried[t] # 0
       \/ sending[t] \in {"pending", "failed"}
       \/ op[t].sends = "messages" /\ reply[t].kind = "null"
  /\ outcome[t] = "default" => gone \/ target[t] \in introduced
  /\ pc[t] \in {"idle", "task"} /\ outcome[t] = "none" =>
       carried[t] = 0 /\ sending[t] = "none"
  /\ carried[t] = 2 => unheard[t]
  /\ outcome[t] = "threw" =>
       /\ carried[t] # 0 => unheard[t] \/ (op[t].strict /\ reply[t].kind = "other")
       /\ sending[t] = "none"

(* What is true of a caller, depending on where it is.                     *)
CallerInv(t) ==
  /\ pc[t] # "idle" =>
       op[t] \in Shapes /\ target[t] \in Targets(op[t]) /\ outcome[t] = "none"
  /\ pc[t] \in {"task", "look", "http"} =>
       carried[t] = 0 /\ ~unheard[t] /\ sending[t] = "none"
  /\ pc[t] = "look" => op[t].cached
  /\ pc[t] \in {"ask", "wait"} => carried[t] = Sent(t) /\ sending[t] = "none"
  /\ pc[t] = "answered" =>
       /\ Taken(t) => Undone(t) \/ SentLater(t)
       /\ ~Taken(t) => carried[t] = Sent(t) + Done(t) /\ sending[t] = "none"
       /\ reply[t].kind = "null" => op[t].sends = "messages"
  /\ sending[t] = "pending" => carried[t] = Sent(t)
  /\ KnownEffects(t)

(* An answer about u that is older than the last update processed has been *)
(* overtaken by it.                                                        *)
AnswerInv(t) ==
  pc[t] = "answered" /\ op[t].of = "user" /\ reply[t].kind = "expected" =>
    /\ reply[t].version # 0
    /\ \A u \in User : target[t] = u /\ reply[t].version < seen[u] => u \in overtaken

CallersInv == \A t \in Caller : CallerInv(t) /\ AnswerInv(t)

(* The dispatcher will know the user, or chat, by the time it comes to the *)
(* i-th update.                                                            *)
UserKnown(u, i) ==
  \/ user_cache[u] # 0
  \/ \E j \in DOMAIN update_queue :
       j < i /\ update_queue[j].kind = "user" /\ update_queue[j].user = u

ChatKnown(c, i) ==
  \/ c \in chat_type_cache
  \/ \E j \in DOMAIN update_queue :
       j < i /\ update_queue[j].kind = "chat" /\ update_queue[j].chat = c

(* Nothing is newer than TDLib's own version, and whoever sends a message  *)
(* has been announced before it.                                           *)
QueueInv ==
  /\ \A u \in User : truth[u] # 0 => UserKnown(u, Len(update_queue) + 1)
  /\ \A c \in announced : ChatKnown(c, Len(update_queue) + 1)
  /\ \A i \in DOMAIN update_queue : update_queue[i].kind = "message" =>
       /\ \A u \in User : update_queue[i].user = u => UserKnown(u, i)
       /\ \A c \in Chat : update_queue[i].chat = c => ChatKnown(c, i)

VersionInv ==
  /\ \A u \in User : seen[u] <= truth[u]
  /\ \A i \in DOMAIN update_queue : \A u \in User :
       update_queue[i].kind = "user" /\ update_queue[i].user = u =>
         update_queue[i].version <= truth[u]

(* Only updateNewChat leads to a Chat without a client.                    *)
UnboundInv ==
  /\ unbound \subseteq introduced
  /\ \A c \in Chat : chat_cache[c] = "unbound" => c \in introduced

IInv ==
  TypeOK /\ CallersInv /\ QueueInv /\ VersionInv /\ CachesSound /\ UnboundInv


-----------------------------------------------------------------------------
(* The catalogue                                                           *)

Known ==
  {Query, StrictQuery, Fetch("user"), Cached("user"), Cached("chat"), Effect,
   StrictEffect, BotEffect, Send, BotSend, Forward, Count, Unawaited,
   Unsupported}

Regular(s) ==
  /\ s \in Shape
  /\ s.effect => ~s.cached /\ s.asks # "count"
  /\ s.strict => s.sends = "no"

(* No operation that looks into a cache, or counts, changes anything, and  *)
(* none that sends a message is strict.                                    *)
LEMMA ShapeFacts ==
  /\ \A s \in Shapes : Regular(s)
  /\ EntityShapes \subseteq Shapes /\ AsyncShapes \subseteq Shapes
  /\ ChatShapes \subseteq Shapes
<1>1. \A s \in Known : Regular(s)
  <2> USE DEF Query, Regular
  <2>1. Regular(Query) /\ Regular(StrictQuery) /\ Regular(Fetch("user"))
    BY DEF StrictQuery, Fetch, Shape
  <2>2. Regular(Cached("user")) /\ Regular(Cached("chat"))
    BY DEF Cached, StrictQuery, Fetch, Shape
  <2>3. Regular(Effect) /\ Regular(StrictEffect) /\ Regular(BotEffect)
    BY DEF Effect, StrictEffect, BotEffect, Shape
  <2>4. Regular(Send) /\ Regular(BotSend) /\ Regular(Forward)
    BY DEF Send, BotSend, Forward, Effect, Shape
  <2>5. Regular(Unawaited) /\ Regular(Count) /\ Regular(Unsupported)
    BY DEF Unawaited, Count, Unsupported, Effect, Shape
  <2> QED
    BY <2>1, <2>2, <2>3, <2>4, <2>5 DEF Known
<1>2. \A o \in Operations : o[2] \in Known
  <2> USE DEF Known
  <2>1. \A o \in UNION {Queries, TextMessages, RichMessages} : o[2] \in Known
    BY DEF Queries, TextMessages, RichMessages
  <2>2. \A o \in UNION {Edits, Scheduled, Media, Notes} : o[2] \in Known
    BY DEF Edits, Scheduled, Media, Notes
  <2>3. \A o \in UNION {Attachments, Chats} : o[2] \in Known
    BY DEF Attachments, Chats
  <2>4. \A o \in UNION {Members, Users} : o[2] \in Known
    BY DEF Members, Users
  <2>5. \A o \in UNION {FilesAndSearch, Others} : o[2] \in Known
    BY DEF FilesAndSearch, Others
  <2> HIDE DEF Known
  <2> QED
    BY <2>1, <2>2, <2>3, <2>4, <2>5 DEF Operations
<1>3. \A s \in Shapes : s \in Known
  BY <1>2 DEF Shapes
<1>4. /\ EntityShapes \subseteq Shapes /\ AsyncShapes \subseteq Shapes
      /\ ChatShapes \subseteq Shapes
  BY DEF EntityShapes, AsyncShapes, ChatShapes, ShapesOf, Shapes
<1> QED
  BY <1>1, <1>3, <1>4

-----------------------------------------------------------------------------
(* Types                                                                   *)

LEMMA InitInv == Init => IInv
<1> SUFFICES ASSUME Init PROVE IInv
  OBVIOUS
<1> USE DEF Init
<1>0. NoReply \in Reply
  BY DEF NoReply, Reply
<1>1. TypeOK
  <2>1. /\ update_queue \in Seq(Update) /\ reply \in [Caller -> Reply]
        /\ op \in [Caller -> Shapes \cup {None}]
        /\ target \in [Caller -> User \cup Chat \cup {None}]
        /\ dispatched \in Message \cup {None}
    BY <1>0
  <2>2. /\ user_cache \in [User -> 0 .. MaxVersion] /\ seen \in [User -> 0 .. MaxVersion]
        /\ truth \in [User -> 0 .. MaxVersion]
        /\ calls \in 0 .. MaxCalls /\ published \in 0 .. MaxUpdates
    OBVIOUS
  <2>3. /\ pc \in [Caller -> {"idle", "task", "look", "http", "ask", "wait", "answered"}]
        /\ ask \in [Caller -> 1 .. 3]
        /\ outcome \in [Caller -> {"none", "returned", "zero", "threw", "default"}]
        /\ carried \in [Caller -> 0 .. 2] /\ unheard \in [Caller -> BOOLEAN]
        /\ sending \in [Caller -> {"none", "pending", "failed"}]
    OBVIOUS
  <2>4. /\ chat_cache \in [Chat -> {"absent", "unbound", "bound"}]
        /\ chat_type_cache \subseteq Chat /\ unbound \subseteq Chat
        /\ announced \subseteq Chat /\ introduced \subseteq Chat
        /\ overtaken \subseteq User /\ gone \in BOOLEAN
    OBVIOUS
  <2> QED
    BY <2>1, <2>2, <2>3, <2>4 DEF TypeOK
<1>2. CallersInv
  BY DEF CallersInv, CallerInv, AnswerInv, KnownEffects
<1>3. QueueInv /\ VersionInv
  BY DEF QueueInv, VersionInv
<1>4. CachesSound /\ UnboundInv
  BY DEF CachesSound, MessagesDescribed, StaleOnlyIfOvertaken, UnboundInv
<1> QED
  BY <1>1, <1>2, <1>3, <1>4 DEF IInv

(* The steps of one caller, and of nobody in particular.                   *)
CallerStep(t) ==
  \/ \E shape \in Shapes : Call(t, shape)
  \/ \E shape \in EntityShapes : CallExpired(t, shape)
  \/ \E shape \in ChatShapes, c \in Chat : CallUnbound(t, shape, c)
  \/ \E shape \in AsyncShapes : CreateTask(t, shape)
  \/ AwaitTask(t) \/ DropTask(t)
  \/ Look(t) \/ Post(t) \/ Ask(t) \/ Finish(t) \/ FinishCount(t)
  \/ TdAnswer(t)

TdStep ==
  \/ \E t \in Caller : TdSends(t)
  \/ \E u \in User : TdUser(u)
  \/ \E c \in Chat : TdChat(c)
  \/ \E u \in User, c \in Chat : TdMessage(u, c)

LEMMA NextIs ==
  Next <=> \/ \E t \in Caller : CallerStep(t)
           \/ Destroy \/ TdStep
           \/ UpdateUser \/ UpdateNewChat \/ UpdateNewMessage \/ UpdateIgnored
  BY Zenon DEF Next, CallerStep, TdStep


(* What a caller finds where it is.                                        *)
LEMMA CallerFacts ==
  ASSUME TypeOK, NEW t \in Caller, CallerInv(t), pc[t] # "idle"
  PROVE  /\ op[t] \in Shapes /\ op[t] \in Shape
         /\ op[t].effect => ~op[t].cached /\ op[t].asks # "count"
         /\ op[t].strict => op[t].sends = "no"
         /\ op[t].of = "user" => target[t] \in User
         /\ op[t].of = "chat" => target[t] \in Chat
         /\ outcome[t] = "none"
  BY ShapeFacts DEF CallerInv, Targets, Regular

(* Carried out at most twice: once through each API.                       *)
LEMMA CarriedBound ==
  ASSUME TypeOK, NEW t \in Caller, CallerInv(t)
  PROVE  /\ pc[t] \in {"task", "look", "http"} => carried[t] = 0
         /\ pc[t] = "wait" => carried[t] \in {0, 1}
         /\ sending[t] = "pending" => carried[t] \in {0, 1}
  BY DEF CallerInv, Sent

LEMMA CallerTypes ==
  ASSUME TypeOK, NEW t \in Caller, CallerInv(t), CallerStep(t)
  PROVE  TypeOK'
<1> USE DEF cacheVars, callerVars, seenVars, tdVars
<1>0. /\ Shapes \subseteq Shape /\ EntityShapes \subseteq Shapes
      /\ AsyncShapes \subseteq Shapes /\ ChatShapes \subseteq Shapes
      /\ NoReply \in Reply
  BY ShapeFacts DEF NoReply, Reply, Regular
<1>1. ASSUME NEW shape \in Shapes, TakesUp(t, shape)
      PROVE  /\ calls' \in 0 .. MaxCalls /\ op' \in [Caller -> Shapes \cup {None}]
             /\ reply' \in [Caller -> Reply] /\ ask' \in [Caller -> 1 .. 3]
             /\ carried' \in [Caller -> 0 .. 2] /\ unheard' \in [Caller -> BOOLEAN]
             /\ sending' \in [Caller -> {"none", "pending", "failed"}]
  BY <1>0, <1>1 DEF TakesUp, TypeOK
<1>2. ASSUME NEW shape \in Shapes, NEW x \in Targets(shape),
             target' = [target EXCEPT ![t] = x]
      PROVE  target' \in [Caller -> User \cup Chat \cup {None}]
  BY <1>2 DEF Targets, TypeOK
<1>3. ASSUME NEW shape \in Shapes, Starts(t, shape)
      PROVE  pc' \in [Caller -> {"idle", "task", "look", "http", "ask", "wait", "answered"}]
  BY <1>3 DEF Starts, Goes, TypeOK
<1>4. CASE \E shape \in Shapes : Call(t, shape)
  <2> PICK shape \in Shapes : Call(t, shape)
    BY <1>4
  <2>1. TakesUp(t, shape) /\ Starts(t, shape)
        /\ \E x \in Targets(shape) : target' = [target EXCEPT ![t] = x]
    BY DEF Call
  <2>2. outcome' \in [Caller -> {"none", "returned", "zero", "threw", "default"}]
    BY DEF Call, TypeOK
  <2>3. UNCHANGED <<cacheVars, update_queue, seenVars, tdVars>>
    BY <2>1 DEF TakesUp
  <2> QED
    BY <1>1, <1>2, <1>3, <2>1, <2>2, <2>3 DEF TypeOK
<1>5. CASE \/ \E shape \in EntityShapes : CallExpired(t, shape)
           \/ \E shape \in ChatShapes, c \in Chat : CallUnbound(t, shape, c)
  <2>0. PICK shape \in Shapes, x \in Chat \cup {None} :
          /\ TakesUp(t, shape) /\ Ends(t, "default")
          /\ target' = [target EXCEPT ![t] = x]
    BY <1>0, <1>5 DEF CallExpired, CallUnbound
  <2>1. TakesUp(t, shape) /\ UNCHANGED <<cacheVars, update_queue, seenVars, tdVars>>
    BY <2>0 DEF TakesUp
  <2>2. /\ outcome' \in [Caller -> {"none", "returned", "zero", "threw", "default"}]
        /\ pc' \in [Caller -> {"idle", "task", "look", "http", "ask", "wait", "answered"}]
        /\ target' \in [Caller -> User \cup Chat \cup {None}]
    BY <2>0 DEF Ends, Goes, TypeOK
  <2> QED
    BY <1>1, <2>1, <2>2 DEF TypeOK
<1>6. CASE \E shape \in AsyncShapes : CreateTask(t, shape)
  <2> PICK shape \in Shapes : CreateTask(t, shape)
    BY <1>0, <1>6
  <2>1. TakesUp(t, shape) /\ UNCHANGED <<cacheVars, update_queue, seenVars, tdVars>>
        /\ \E x \in Targets(shape) : target' = [target EXCEPT ![t] = x]
    BY DEF CreateTask, TakesUp
  <2>2. /\ outcome' \in [Caller -> {"none", "returned", "zero", "threw", "default"}]
        /\ pc' \in [Caller -> {"idle", "task", "look", "http", "ask", "wait", "answered"}]
    BY DEF CreateTask, Goes, TypeOK
  <2> QED
    BY <1>1, <1>2, <2>1, <2>2 DEF TypeOK
<1>7. CASE AwaitTask(t) \/ DropTask(t) \/ Look(t) \/ Ask(t)
  <2>1. UNCHANGED <<user_cache, chat_cache, chat_type_cache, update_queue, op, target,
                    reply, ask, calls, carried, unheard, sending, seenVars, tdVars>>
    BY <1>7 DEF AwaitTask, DropTask, Look, Ask
  <2>4. unbound' \subseteq Chat
    <3>1. Look(t) /\ op[t].of = "chat" => target[t] \in Chat
      BY CallerFacts DEF Look
    <3> QED
      BY <1>7, <3>1 DEF AwaitTask, DropTask, Look, Ask, TypeOK
  <2>2. pc' \in [Caller -> {"idle", "task", "look", "http", "ask", "wait", "answered"}]
    <3>1. \E p \in {"idle", "task", "look", "http", "ask", "wait", "answered"} : Goes(t, p)
      <4>1. CASE AwaitTask(t)
        BY <4>1 DEF AwaitTask, Starts
      <4>2. CASE DropTask(t)
        BY <4>2 DEF DropTask
      <4>3. CASE Look(t)
        BY <4>3 DEF Look, Ends, Starts
      <4>4. CASE Ask(t)
        BY <4>4 DEF Ask, Ends
      <4> QED
        BY <1>7, <4>1, <4>2, <4>3, <4>4
    <3> QED
      BY <3>1 DEF Goes, TypeOK
  <2>3. outcome' \in [Caller -> {"none", "returned", "zero", "threw", "default"}]
    BY <1>7 DEF AwaitTask, DropTask, Look, Ask, Ends, TypeOK
  <2> QED
    BY <2>1, <2>2, <2>3, <2>4 DEF TypeOK
<1>8. CASE Post(t)
  <2>1. UNCHANGED <<cacheVars, update_queue, op, target, reply, ask, calls, sending,
                    seenVars, tdVars>>
    BY <1>8 DEF Post
  <2>2. pc' \in [Caller -> {"idle", "task", "look", "http", "ask", "wait", "answered"}]
    BY <1>8, ZenonT(30) DEF Post, PostAccepted, PostRefused, PostUnheard, Ends, Goes, TypeOK
  <2>3. /\ outcome' \in [Caller -> {"none", "returned", "zero", "threw", "default"}]
        /\ unheard' \in [Caller -> BOOLEAN]
    BY <1>8 DEF Post, PostAccepted, PostRefused, PostUnheard, Ends, Goes, TypeOK
  <2>4. carried' \in [Caller -> 0 .. 2]
    <3>1. pc[t] = "http" /\ carried[t] = 0 /\ carried \in [Caller -> 0 .. 2]
      BY <1>8, CarriedBound DEF Post, TypeOK
    <3>2. carried' = carried \/ carried' = [carried EXCEPT ![t] = 1]
      BY <1>8, <3>1 DEF Post, PostAccepted, PostRefused, PostUnheard
    <3> QED
      BY <3>1, <3>2
  <2> QED
    BY <2>1, <2>2, <2>3, <2>4 DEF TypeOK
<1>9. CASE Finish(t)
  <2>1. UNCHANGED <<update_queue, op, target, reply, ask, calls, carried, unheard,
                    sending, seenVars, tdVars>>
    BY <1>9 DEF Finish
  <2>2. /\ outcome' \in [Caller -> {"none", "returned", "zero", "threw", "default"}]
        /\ pc' \in [Caller -> {"idle", "task", "look", "http", "ask", "wait", "answered"}]
    BY <1>9 DEF Finish, Ends, Goes, TypeOK
  <2>3. /\ user_cache' \in [User -> 0 .. MaxVersion]
        /\ chat_cache' \in [Chat -> {"absent", "unbound", "bound"}]
        /\ chat_type_cache' \subseteq Chat /\ unbound' \subseteq Chat
    <3>1. /\ op[t].of = "user" => target[t] \in User
          /\ op[t].of = "chat" => target[t] \in Chat
          /\ reply[t].version \in 0 .. MaxVersion
      BY <1>9, CallerFacts DEF Finish, TypeOK, Reply
    <3>2. UNCHANGED cacheVars \/ Store(t)
      BY <1>9 DEF Finish
    <3>3. CASE UNCHANGED cacheVars
      BY <3>3 DEF TypeOK
    <3>4. CASE Store(t) /\ op[t].of = "user"
      BY <3>1, <3>4 DEF Store, TypeOK
    <3>5. CASE Store(t) /\ op[t].of = "chat"
      BY <3>1, <3>5 DEF Store, TypeOK
    <3>6. CASE Store(t) /\ op[t].of \notin {"user", "chat"}
      BY <3>6 DEF Store, TypeOK
    <3> QED
      BY <3>2, <3>3, <3>4, <3>5, <3>6
  <2> QED
    BY <2>1, <2>2, <2>3 DEF TypeOK
<1>10. CASE FinishCount(t)
  <2>1. UNCHANGED <<cacheVars, update_queue, op, target, reply, calls, carried,
                    unheard, sending, seenVars, tdVars>>
    BY <1>10 DEF FinishCount
  <2>2. /\ outcome' \in [Caller -> {"none", "returned", "zero", "threw", "default"}]
        /\ pc' \in [Caller -> {"idle", "task", "look", "http", "ask", "wait", "answered"}]
        /\ ask' \in [Caller -> 1 .. 3]
    <3>1. \/ Ends(t, "threw") /\ ask' = ask
          \/ Ends(t, "returned") /\ ask' = ask
          \/ Ends(t, "zero") /\ ask' = ask
          \/ AskNext(t, 2) \/ AskNext(t, 3)
      BY <1>10 DEF FinishCount
    <3>2. outcome' \in [Caller -> {"none", "returned", "zero", "threw", "default"}]
      BY <3>1 DEF AskNext, Ends, TypeOK
    <3>3. pc' \in [Caller -> {"idle", "task", "look", "http", "ask", "wait", "answered"}]
      <4>1. pc' = [pc EXCEPT ![t] = "idle"] \/ pc' = [pc EXCEPT ![t] = "wait"]
        BY <3>1 DEF AskNext, Ends, Goes
      <4> QED
        BY <4>1 DEF TypeOK
    <3>4. ask' \in [Caller -> 1 .. 3]
      <4>1. \/ ask' = ask
            \/ ask' = [ask EXCEPT ![t] = 2] \/ ask' = [ask EXCEPT ![t] = 3]
        BY <3>1 DEF AskNext
      <4>2. ask \in [Caller -> 1 .. 3] /\ 2 \in 1 .. 3 /\ 3 \in 1 .. 3
        BY DEF TypeOK
      <4> QED
        BY <4>1, <4>2
    <3> QED
      BY <3>2, <3>3, <3>4
  <2> QED
    BY <2>1, <2>2 DEF TypeOK
<1>11. CASE TdAnswer(t)
  <2>1. UNCHANGED <<cacheVars, update_queue, op, target, ask, outcome, calls,
                    unheard, seenVars, tdVars>>
    BY <1>11 DEF TdAnswer
  <2>2. pc' \in [Caller -> {"idle", "task", "look", "http", "ask", "wait", "answered"}]
    BY <1>11 DEF TdAnswer, Goes, TypeOK
  <2> PICK k \in {"expected", "error", "other", "null"} :
         /\ reply' = [reply EXCEPT ![t] =
                        [kind |-> k,
                         version |-> IF k = "expected" /\ op[t].of = "user"
                                     THEN truth[target[t]] ELSE 0]]
         /\ carried' = [carried EXCEPT ![t] =
                          IF Takes(t, k) /\ op[t].sends = "no" THEN @ + 1 ELSE @]
         /\ sending' = [sending EXCEPT ![t] =
                          IF Takes(t, k) /\ op[t].sends # "no" THEN "pending" ELSE @]
    BY <1>11 DEF TdAnswer
  <2>3. reply' \in [Caller -> Reply]
    <3>1. op[t].of = "user" => truth[target[t]] \in 0 .. MaxVersion
      BY <1>11, CallerFacts DEF TdAnswer, TypeOK
    <3>2. [kind |-> k, version |-> IF k = "expected" /\ op[t].of = "user"
                                   THEN truth[target[t]] ELSE 0] \in Reply
      BY <3>1 DEF Reply
    <3> QED
      BY <3>2 DEF TypeOK
  <2>4. carried' \in [Caller -> 0 .. 2]
    BY <1>11, CarriedBound DEF TdAnswer, TypeOK
  <2>5. sending' \in [Caller -> {"none", "pending", "failed"}]
    BY DEF TypeOK
  <2> QED
    BY <2>1, <2>2, <2>3, <2>4, <2>5 DEF TypeOK
<1> QED
  BY <1>4, <1>5, <1>6, <1>7, <1>8, <1>9, <1>10, <1>11 DEF CallerStep

LEMMA TypeStep ==
  ASSUME TypeOK, CallersInv, Next
  PROVE  TypeOK'
<1> USE DEF cacheVars, callerVars, seenVars, tdVars
<1>1. CASE \E t \in Caller : CallerStep(t)
  BY <1>1, CallerTypes DEF CallersInv
<1>2. CASE Destroy
  BY <1>2 DEF Destroy, TypeOK
<1>3. CASE TdStep
  <2>1. PICK upd \in Update : Publish(upd)
    <3>0. ASSUME NEW t \in Caller, TdSends(t)
          PROVE  \E upd \in Update : Publish(upd)
      BY <3>0 DEF TdSends, Update
    <3>1. ASSUME NEW u \in User, TdUser(u)
          PROVE  \E upd \in Update : Publish(upd)
      <4>1. truth[u] + 1 \in Version
        BY <3>1 DEF TdUser, TypeOK, Version
      <4> QED
        BY <3>1, <4>1 DEF TdUser, Update
    <3>2. ASSUME NEW c \in Chat, TdChat(c)
          PROVE  \E upd \in Update : Publish(upd)
      BY <3>2 DEF TdChat, Update
    <3>3. ASSUME NEW u \in User, NEW c \in Chat, TdMessage(u, c)
          PROVE  \E upd \in Update : Publish(upd)
      BY <3>3 DEF TdMessage, Update
    <3> QED
      BY <1>3, <3>0, <3>1, <3>2, <3>3 DEF TdStep
  <2>2. update_queue' \in Seq(Update) /\ published' \in 0 .. MaxUpdates
    <3>1. update_queue \in Seq(Update) /\ update_queue' = Append(update_queue, upd)
      BY <2>1 DEF Publish, TypeOK
    <3>2. published' \in 0 .. MaxUpdates
      BY <2>1 DEF Publish, TypeOK
    <3> QED
      BY <3>1, <3>2, AppendProperties
  <2>3. truth' \in [User -> 0 .. MaxVersion] /\ announced' \subseteq Chat
    <3>1. ASSUME NEW u \in User, TdUser(u)
          PROVE  truth' \in [User -> 0 .. MaxVersion] /\ announced' \subseteq Chat
      BY <3>1 DEF TdUser, TypeOK
    <3>2. ASSUME NEW c \in Chat, TdChat(c)
          PROVE  truth' \in [User -> 0 .. MaxVersion] /\ announced' \subseteq Chat
      BY <3>2 DEF TdChat, TypeOK
    <3>3. /\ (\E u \in User, c \in Chat : TdMessage(u, c)) =>
               UNCHANGED <<truth, announced>>
          /\ (\E t \in Caller : TdSends(t)) => UNCHANGED <<truth, announced>>
      BY DEF TdMessage, TdSends
    <3> QED
      BY <1>3, <3>1, <3>2, <3>3 DEF TdStep, TypeOK
  <2>4. UNCHANGED <<cacheVars, seenVars, gone>>
    BY <2>1 DEF Publish
  <2>5. /\ UNCHANGED <<pc, op, target, reply, ask, outcome, calls, unheard>>
        /\ carried' \in [Caller -> 0 .. 2]
        /\ sending' \in [Caller -> {"none", "pending", "failed"}]
    <3>1. ASSUME NEW t \in Caller, TdSends(t)
          PROVE  /\ UNCHANGED <<pc, op, target, reply, ask, outcome, calls, unheard>>
                 /\ carried' \in [Caller -> 0 .. 2]
                 /\ sending' \in [Caller -> {"none", "pending", "failed"}]
      <4>1. CallerInv(t) /\ sending[t] = "pending"
        BY <3>1 DEF CallersInv, TdSends
      <4>2. carried[t] \in {0, 1}
        BY <4>1, CarriedBound
      <4>3. UNCHANGED <<pc, op, target, reply, ask, outcome, calls, unheard>>
        BY <3>1 DEF TdSends
      <4>4. carried' = carried \/ carried' = [carried EXCEPT ![t] = carried[t] + 1]
        BY <3>1 DEF TdSends
      <4>5. carried' \in [Caller -> 0 .. 2]
        <5>1. carried \in [Caller -> 0 .. 2] /\ carried[t] + 1 \in 0 .. 2
          BY <4>2 DEF TypeOK
        <5> QED
          BY <4>4, <5>1
      <4>6. sending' \in [Caller -> {"none", "pending", "failed"}]
        <5>1. \/ sending' = [sending EXCEPT ![t] = "none"]
              \/ sending' = [sending EXCEPT ![t] = "failed"]
          BY <3>1 DEF TdSends
        <5>2. sending \in [Caller -> {"none", "pending", "failed"}]
          BY DEF TypeOK
        <5> QED
          BY <5>1, <5>2
      <4> QED
        BY <4>3, <4>5, <4>6
    <3>2. (~\E t \in Caller : TdSends(t)) => UNCHANGED callerVars
      BY <1>3 DEF TdStep, TdUser, TdChat, TdMessage
    <3> QED
      BY <3>1, <3>2 DEF TypeOK
  <2> QED
    BY <2>2, <2>3, <2>4, <2>5 DEF TypeOK
<1>4. ASSUME update_queue # <<>>, update_queue' = Tail(update_queue)
      PROVE  update_queue' \in Seq(Update) /\ Head(update_queue) \in Update
  BY <1>4, HeadTailProperties DEF TypeOK
<1>5. CASE UpdateUser
  <2> PICK upd : upd = Head(update_queue)
    OBVIOUS
  <2>1. /\ upd.kind = "user" /\ user_cache' = [user_cache EXCEPT ![upd.user] = upd.version]
        /\ Seen(upd.user, upd.version) /\ update_queue # <<>>
    BY <1>5 DEF UpdateUser, FirstIs
  <2>2. upd.user \in User /\ upd.version \in Version /\ update_queue' \in Seq(Update)
    BY <1>4, <2>1 DEF Update, Seen
  <2>3. /\ user_cache' \in [User -> 0 .. MaxVersion] /\ seen' \in [User -> 0 .. MaxVersion]
        /\ overtaken' \subseteq User
    BY <2>1, <2>2 DEF Seen, TypeOK, Version
  <2>4. UNCHANGED <<chat_cache, chat_type_cache, unbound, callerVars, dispatched,
                    introduced, tdVars>>
    BY <2>1 DEF Seen
  <2> QED
    BY <2>2, <2>3, <2>4 DEF TypeOK
<1>6. CASE UpdateNewChat
  <2>1. Head(update_queue).chat \in Chat /\ update_queue' \in Seq(Update)
    BY <1>4, <1>6 DEF UpdateNewChat, Introduce, FirstIs, Update
  <2> QED
    BY <1>6, <2>1 DEF UpdateNewChat, Introduce, TypeOK
<1>7. CASE UpdateNewMessage
  <2>1. Head(update_queue).user \in User /\ update_queue' \in Seq(Update)
    BY <1>4, <1>7 DEF UpdateNewMessage, FirstIs, Update
  <2>2. dispatched' \in Message
    BY <1>7, <2>1 DEF UpdateNewMessage, Message, TypeOK
  <2> QED
    BY <1>7, <2>1, <2>2 DEF UpdateNewMessage, TypeOK
<1>8. CASE UpdateIgnored
  BY <1>4, <1>8 DEF UpdateIgnored, FirstIs, TypeOK
<1> QED
  BY <1>1, <1>2, <1>3, <1>5, <1>6, <1>7, <1>8, NextIs


-----------------------------------------------------------------------------
(* The callers                                                             *)

Same(s) ==
  /\ pc'[s] = pc[s] /\ op'[s] = op[s] /\ target'[s] = target[s]
  /\ reply'[s] = reply[s] /\ outcome'[s] = outcome[s]
  /\ carried'[s] = carried[s] /\ unheard'[s] = unheard[s]
  /\ sending'[s] = sending[s]

(* A caller changes nothing of another's, and only the caches of the rest. *)
LEMMA CallerFrame ==
  ASSUME TypeOK, NEW t \in Caller, CallerStep(t)
  PROVE  /\ \A s \in Caller \ {t} : Same(s)
         /\ UNCHANGED <<update_queue, seenVars, tdVars>>
<1> USE DEF Same, seenVars, tdVars
<1>1. UNCHANGED <<update_queue, seenVars, tdVars>>
  BY DEF CallerStep, Call, CallExpired, CallUnbound, CreateTask, TakesUp, AwaitTask,
     DropTask, Look, Post, Ask, Finish, FinishCount, TdAnswer
<1>2. CASE \E shape \in Shapes : Call(t, shape)
  BY <1>2 DEF Call, TakesUp, Starts, Goes, TypeOK
<1>3. CASE \/ \E shape \in EntityShapes : CallExpired(t, shape)
           \/ \E shape \in ChatShapes, c \in Chat : CallUnbound(t, shape, c)
  BY <1>3 DEF CallExpired, CallUnbound, TakesUp, Ends, Goes, TypeOK
<1>4. CASE \E shape \in AsyncShapes : CreateTask(t, shape)
  BY <1>4 DEF CreateTask, TakesUp, Goes, TypeOK
<1>5. CASE AwaitTask(t) \/ DropTask(t) \/ Look(t) \/ Ask(t)
  BY <1>5 DEF AwaitTask, DropTask, Look, Ask, Starts, Ends, Goes, TypeOK
<1>6. CASE Post(t)
  BY <1>6 DEF Post, PostAccepted, PostRefused, PostUnheard, Ends, Goes, TypeOK
<1>7. CASE Finish(t)
  BY <1>7 DEF Finish, Ends, Goes, TypeOK
<1>8. CASE FinishCount(t)
  BY <1>8 DEF FinishCount, AskNext, Ends, Goes, TypeOK
<1>9. CASE TdAnswer(t)
  BY <1>9 DEF TdAnswer, Goes, TypeOK
<1> QED
  BY <1>1, <1>2, <1>3, <1>4, <1>5, <1>6, <1>7, <1>8, <1>9 DEF CallerStep

(* An operation is taken up: nothing of it has been carried out.           *)
LEMMA TakesUpInv ==
  ASSUME TypeOK, NEW t \in Caller, NEW shape \in Shapes, TakesUp(t, shape),
         \/ Call(t, shape) \/ CallExpired(t, shape) \/ CreateTask(t, shape)
         \/ \E c \in Chat : CallUnbound(t, shape, c) /\ unbound \subseteq introduced
  PROVE  CallerInv(t)' /\ AnswerInv(t)'
<1>1. /\ op'[t] = shape /\ carried'[t] = 0 /\ ~unheard'[t] /\ sending'[t] = "none"
  BY DEF TakesUp, TypeOK
<1>2. CASE Call(t, shape) \/ CreateTask(t, shape)
  <2>1. outcome'[t] = "none" /\ target'[t] \in Targets(shape)
    BY <1>2 DEF Call, CreateTask, TypeOK
  <2>2. \/ pc'[t] = "look" /\ shape.cached
        \/ pc'[t] \in {"http", "ask", "task"}
    BY <1>2 DEF Call, CreateTask, Starts, Goes, TypeOK
  <2> QED
    BY <1>1, <2>1, <2>2 DEF CallerInv, AnswerInv, KnownEffects, Sent
<1>3. CASE ~(Call(t, shape) \/ CreateTask(t, shape))
  <2>1. /\ outcome'[t] = "default" /\ pc'[t] = "idle"
        /\ gone' \/ target'[t] \in introduced'
    BY <1>3 DEF CallExpired, CallUnbound, Ends, Goes, TypeOK, TakesUp, tdVars, seenVars
  <2> QED
    BY <1>1, <2>1 DEF CallerInv, AnswerInv, KnownEffects
<1> QED
  BY <1>2, <1>3

LEMMA CallerInvStep ==
  ASSUME TypeOK, NEW t \in Caller, CallerInv(t), AnswerInv(t), VersionInv, UnboundInv,
         CallerStep(t)
  PROVE  CallerInv(t)' /\ AnswerInv(t)'
<1> USE DEF seenVars, tdVars
<1>0. UNCHANGED <<update_queue, seen, overtaken, introduced, truth, announced, gone>>
  BY CallerFrame
<1>1. CASE \/ \E shape \in Shapes : Call(t, shape)
           \/ \E shape \in EntityShapes : CallExpired(t, shape)
           \/ \E shape \in ChatShapes, c \in Chat : CallUnbound(t, shape, c)
           \/ \E shape \in AsyncShapes : CreateTask(t, shape)
  <2>1. PICK shape \in Shapes :
          \/ Call(t, shape) \/ CallExpired(t, shape) \/ CreateTask(t, shape)
          \/ \E c \in Chat : CallUnbound(t, shape, c) /\ unbound \subseteq introduced
    BY <1>1, ShapeFacts DEF UnboundInv
  <2>2. TakesUp(t, shape)
    BY <2>1 DEF Call, CallExpired, CallUnbound, CreateTask
  <2> QED
    BY <2>1, <2>2, TakesUpInv
<1>2. CASE AwaitTask(t) \/ DropTask(t)
  <2>1. pc[t] = "task" /\ UNCHANGED <<op, target, reply, outcome, carried, unheard, sending>>
    BY <1>2 DEF AwaitTask, DropTask
  <2>2. \/ pc'[t] = "look" /\ op[t].cached
        \/ pc'[t] \in {"http", "ask", "idle"}
    BY <1>2 DEF AwaitTask, DropTask, Starts, Goes, TypeOK
  <2> QED
    BY <1>0, <2>1, <2>2 DEF CallerInv, AnswerInv, KnownEffects, Sent
<1>3. CASE Look(t)
  <2>1. /\ pc[t] = "look" /\ UNCHANGED <<op, target, reply, carried, unheard, sending>>
        /\ \/ pc'[t] = "idle" /\ outcome'[t] = "returned"
           \/ pc'[t] = "ask" /\ outcome'[t] = outcome[t]
    BY <1>3 DEF Look, Ends, Goes, TypeOK
  <2>2. op[t].cached /\ ~op[t].effect
    BY <2>1, CallerFacts DEF CallerInv
  <2> QED
    BY <1>0, <2>1, <2>2 DEF CallerInv, AnswerInv, KnownEffects, Sent
<1>4. CASE Post(t)
  <2>1. /\ pc[t] = "http" /\ UNCHANGED <<op, target, reply, sending>>
        /\ carried[t] = 0 /\ ~unheard[t] /\ outcome[t] = "none"
    BY <1>4 DEF Post, CallerInv
  <2>2. \/ /\ pc'[t] = "idle" /\ outcome'[t] = "returned" /\ carried'[t] = 1
           /\ ~unheard'[t]
        \/ pc'[t] = "ask" /\ outcome'[t] = "none" /\ carried'[t] = 0 /\ ~unheard'[t]
        \/ pc'[t] = "ask" /\ outcome'[t] = "none" /\ carried'[t] = 1 /\ unheard'[t]
    BY <1>4, <2>1 DEF Post, PostAccepted, PostRefused, PostUnheard, Ends, Goes, TypeOK
  <2> QED
    BY <1>0, <2>1, <2>2 DEF CallerInv, AnswerInv, KnownEffects, Sent
<1>5. CASE Ask(t)
  <2>1. /\ pc[t] = "ask" /\ UNCHANGED <<op, target, reply, carried, unheard, sending>>
        /\ \/ pc'[t] = "wait" /\ outcome'[t] = outcome[t]
           \/ pc'[t] = "idle" /\ outcome'[t] = "returned" /\ op[t].asks # "one"
    BY <1>5 DEF Ask, Ends, Goes, TypeOK
  <2> QED
    BY <1>0, <2>1 DEF CallerInv, AnswerInv, KnownEffects, Sent
<1>6. CASE Finish(t)
  <2>1. /\ pc[t] = "answered" /\ UNCHANGED <<op, target, reply, carried, unheard, sending>>
        /\ pc'[t] = "idle"
        /\ \/ outcome'[t] = "returned" /\ reply[t].kind # "error"
           \/ /\ outcome'[t] = "threw"
              /\ \/ reply[t].kind = "error"
                 \/ op[t].strict /\ reply[t].kind \in {"other", "null"}
    BY <1>6 DEF Finish, Ends, Goes, TypeOK, Reply
  <2>2. /\ Taken(t) => Undone(t) \/ SentLater(t)
        /\ ~Taken(t) => carried[t] = Sent(t) + Done(t) /\ sending[t] = "none"
        /\ reply[t].kind = "null" => op[t].sends = "messages"
    BY <2>1 DEF CallerInv
  <2>3. op[t].strict => op[t].sends = "no"
    BY <2>1, CallerFacts
  <2>4. KnownEffects(t)'
    <3>1. CASE outcome'[t] = "threw"
      <4>1. ~Taken(t)
        BY <2>1, <2>3, <3>1 DEF Taken, Takes
      <4>2. Done(t) # 0 => op[t].strict /\ reply[t].kind = "other"
        BY <2>1, <3>1 DEF Done, Takes
      <4> QED
        BY <2>1, <2>2, <3>1, <4>1, <4>2 DEF KnownEffects, Sent, Done
    <3>2. CASE outcome'[t] = "returned"
      <4>1. CASE Taken(t)
        BY <2>1, <2>2, <3>2, <4>1 DEF KnownEffects, Sent, Undone, SentLater, TypeOK
      <4>2. CASE ~Taken(t)
        <5>1. op[t].effect => Done(t) = 1 \/ (op[t].sends = "messages" /\ reply[t].kind = "null")
          BY <2>1, <2>2, <3>2, <4>2 DEF Taken, Done, Takes, TypeOK, Reply
        <5> QED
          BY <2>1, <2>2, <3>2, <4>2, <5>1 DEF KnownEffects, Sent, Done
      <4> QED
        BY <4>1, <4>2
    <3> QED
      BY <2>1, <3>1, <3>2
  <2> QED
    BY <1>0, <2>1, <2>4 DEF CallerInv, AnswerInv, Sent
<1>7. CASE FinishCount(t)
  <2>1. /\ pc[t] = "answered" /\ UNCHANGED <<op, target, reply, carried, unheard, sending>>
        /\ op[t].asks = "count"
        /\ \/ pc'[t] = "idle" /\ outcome'[t] \in {"returned", "zero", "threw"}
           \/ pc'[t] = "wait" /\ outcome'[t] = outcome[t]
    BY <1>7 DEF FinishCount, AskNext, Ends, Goes, TypeOK
  <2>2. ~op[t].effect /\ carried[t] = Sent(t) /\ sending[t] = "none"
    <3>1. ~op[t].effect
      BY <2>1, CallerFacts
    <3> QED
      BY <2>1, <3>1 DEF CallerInv, Sent, Done, Taken, Takes
  <2> QED
    BY <1>0, <2>1, <2>2 DEF CallerInv, AnswerInv, KnownEffects, Sent
<1>8. CASE TdAnswer(t)
  <2> PICK k \in {"expected", "error", "other", "null"} :
         /\ k = "expected" => Knows(t)
         /\ k = "null" => op[t].sends = "messages"
         /\ reply' = [reply EXCEPT ![t] =
                        [kind |-> k,
                         version |-> IF k = "expected" /\ op[t].of = "user"
                                     THEN truth[target[t]] ELSE 0]]
         /\ carried' = [carried EXCEPT ![t] =
                          IF Takes(t, k) /\ op[t].sends = "no" THEN @ + 1 ELSE @]
         /\ sending' = [sending EXCEPT ![t] =
                          IF Takes(t, k) /\ op[t].sends # "no" THEN "pending" ELSE @]
    BY <1>8 DEF TdAnswer
  <2>1. /\ pc[t] = "wait" /\ pc'[t] = "answered"
        /\ UNCHANGED <<op, target, outcome, unheard>>
    BY <1>8 DEF TdAnswer, Goes, TypeOK
  <2>2. /\ reply'[t].kind = k
        /\ k = "expected" /\ op[t].of = "user" => reply'[t].version = truth[target[t]]
    BY DEF TypeOK
  <2>3. /\ Sent(t)' = Sent(t) /\ carried[t] = Sent(t) /\ carried[t] \in Nat
        /\ sending[t] = "none" /\ outcome[t] = "none"
    BY <2>1, CallerFacts DEF CallerInv, Sent
  <2>4. CallerInv(t)'
    <3>1. CASE Takes(t, k) /\ op[t].sends # "no"
      <4>1. carried'[t] = Sent(t) /\ sending'[t] = "pending" /\ Taken(t)'
        BY <2>1, <2>2, <2>3, <3>1 DEF Taken, Takes, TypeOK
      <4>2. carried'[t] # 2
        BY <4>1 DEF Sent
      <4> QED
        BY <2>1, <2>2, <2>3, <4>1, <4>2 DEF CallerInv, KnownEffects, Undone
    <3>2. CASE ~(Takes(t, k) /\ op[t].sends # "no")
      <4>1. sending'[t] = "none" /\ ~Taken(t)'
        BY <2>1, <2>2, <2>3, <3>2 DEF Taken, Takes, TypeOK
      <4>2. carried'[t] = Sent(t) + Done(t)'
        BY <2>1, <2>2, <2>3, <3>2 DEF Done, Takes, TypeOK
      <4>3. carried'[t] = 2 => unheard[t]
        BY <4>2 DEF Sent, Done
      <4> QED
        BY <2>1, <2>2, <2>3, <4>1, <4>2, <4>3 DEF CallerInv, KnownEffects
    <3> QED
      BY <3>1, <3>2
  <2>5. AnswerInv(t)'
    <3> SUFFICES ASSUME k = "expected", op[t].of = "user"
                 PROVE  /\ reply'[t].version # 0
                        /\ \A u \in User : target[t] = u /\ reply'[t].version < seen[u]
                             => u \in overtaken
      BY <1>0, <2>1, <2>2 DEF AnswerInv
    <3> PICK v : v = target[t]
      OBVIOUS
    <3>1. v \in User /\ truth[v] # 0 /\ reply'[t].version = truth[v]
      BY <2>1, <2>2, CallerFacts DEF Knows
    <3>2. seen[v] <= truth[v] /\ seen[v] \in Nat /\ truth[v] \in Nat
      BY <3>1 DEF VersionInv, TypeOK
    <3> QED
      BY <3>1, <3>2
  <2> QED
    BY <2>4, <2>5
<1> QED
  BY <1>1, <1>2, <1>3, <1>4, <1>5, <1>6, <1>7, <1>8 DEF CallerStep


-----------------------------------------------------------------------------
(* TDLib and the dispatcher                                                *)

LEMMA HeadFacts ==
  ASSUME TypeOK, update_queue # <<>>
  PROVE  /\ Head(update_queue) \in Update /\ Head(update_queue) = update_queue[1]
         /\ 1 \in DOMAIN update_queue
         /\ Head(update_queue).kind = "user" =>
              Head(update_queue).user \in User /\ Head(update_queue).version \in Version
         /\ Head(update_queue).kind = "chat" => Head(update_queue).chat \in Chat
         /\ Head(update_queue).kind = "message" =>
              Head(update_queue).user \in User /\ Head(update_queue).chat \in Chat
<1>1. Head(update_queue) \in Update
  BY HeadTailProperties DEF TypeOK
<1>2. Head(update_queue) = update_queue[1] /\ 1 \in DOMAIN update_queue
  BY DEF TypeOK
<1> QED
  BY <1>1, <1>2 DEF Update

(* A caller is disturbed by nothing else: an update that overtakes the     *)
(* answer in its hands is noted.                                           *)
LEMMA CallersStep ==
  ASSUME TypeOK, CallersInv, VersionInv, UnboundInv, Next
  PROVE  CallersInv'
<1> USE DEF callerVars
<1>1. ASSUME NEW s \in Caller, CallerInv(s), Same(s), gone => gone',
             introduced \subseteq introduced'
      PROVE  CallerInv(s)'
  <2>1. /\ Sent(s)' = Sent(s) /\ Done(s)' = Done(s) /\ Taken(s)' = Taken(s)
        /\ Undone(s)' = Undone(s) /\ SentLater(s)' = SentLater(s)
    BY <1>1 DEF Same, Sent, Done, Taken, Takes, Undone, SentLater
  <2>2. KnownEffects(s)'
    BY <1>1 DEF Same, CallerInv, KnownEffects
  <2> QED
    BY <1>1, <2>1, <2>2 DEF Same, CallerInv
<1>2. CASE \E t \in Caller : CallerStep(t)
  <2> PICK t \in Caller : CallerStep(t)
    BY <1>2
  <2>1. CallerInv(t)' /\ AnswerInv(t)'
    BY CallerInvStep DEF CallersInv
  <2>2. ASSUME NEW s \in Caller \ {t}
        PROVE  CallerInv(s)' /\ AnswerInv(s)'
    <3>1. Same(s) /\ UNCHANGED <<seen, overtaken, introduced, gone>>
      BY CallerFrame DEF seenVars, tdVars
    <3> QED
      BY <1>1, <3>1 DEF CallersInv, AnswerInv, Same
  <2> QED
    BY <2>1, <2>2 DEF CallersInv
<1>3. ASSUME UNCHANGED callerVars, gone => gone', UNCHANGED <<seen, overtaken>>,
             introduced \subseteq introduced'
      PROVE  CallersInv'
  <2> SUFFICES ASSUME NEW s \in Caller PROVE CallerInv(s)' /\ AnswerInv(s)'
    BY DEF CallersInv
  <2>1. Same(s)
    BY <1>3 DEF Same
  <2> QED
    BY <1>1, <1>3, <2>1 DEF CallersInv, AnswerInv
<1>4. CASE Destroy
  BY <1>3, <1>4 DEF Destroy, seenVars
<1>5. CASE TdStep /\ ~\E t \in Caller : TdSends(t)
  BY <1>3, <1>5 DEF TdStep, TdUser, TdChat, TdMessage, Publish, seenVars
<1>8. ASSUME NEW t \in Caller, TdSends(t)
      PROVE  CallersInv'
  <2>1. /\ sending[t] = "pending" /\ UNCHANGED <<gone, seen, overtaken, introduced>>
        /\ UNCHANGED <<pc, op, target, reply, outcome, unheard>>
    BY <1>8 DEF TdSends, Publish, seenVars
  <2>2. ASSUME NEW s \in Caller \ {t}
        PROVE  CallerInv(s)' /\ AnswerInv(s)'
    <3>1. Same(s)
      BY <1>8, <2>1 DEF TdSends, Same, TypeOK
    <3> QED
      BY <1>1, <2>1, <3>1 DEF CallersInv, AnswerInv
  <2>3. AnswerInv(t)'
    BY <2>1 DEF CallersInv, AnswerInv
  <2>4. CallerInv(t)'
    <3>1. /\ CallerInv(t) /\ carried[t] = Sent(t) /\ Sent(t)' = Sent(t)
          /\ Taken(t)' = Taken(t)
      BY <2>1 DEF CallersInv, CallerInv, Sent, Taken, Takes
    <3>2. \/ sending'[t] = "none" /\ carried'[t] = Sent(t) + 1
          \/ sending'[t] = "failed" /\ carried'[t] = Sent(t)
      BY <1>8, <3>1 DEF TdSends, TypeOK
    <3>3. /\ pc[t] \notin {"task", "look", "http", "ask", "wait"}
          /\ pc[t] = "answered" => Taken(t)
          /\ ~(pc[t] = "idle" /\ outcome[t] = "none") /\ outcome[t] # "threw"
      BY <2>1, <3>1 DEF CallerInv, KnownEffects
    <3>4. (Undone(t) \/ SentLater(t))'
      BY <3>1, <3>2 DEF Undone, SentLater
    <3>5. KnownEffects(t)'
      <4>1. carried'[t] # 0 \/ sending'[t] = "failed"
        BY <3>2 DEF Sent
      <4>2. carried'[t] = 2 => unheard[t]
        BY <3>2 DEF Sent
      <4> QED
        BY <2>1, <3>1, <3>3, <4>1, <4>2 DEF CallerInv, KnownEffects
    <3> QED
      BY <2>1, <3>1, <3>2, <3>3, <3>4, <3>5 DEF CallerInv
  <2> QED
    BY <2>2, <2>3, <2>4 DEF CallersInv
<1>6. CASE UpdateNewChat \/ UpdateNewMessage \/ UpdateIgnored
  BY <1>3, <1>6 DEF UpdateNewChat, Introduce, UpdateNewMessage, UpdateIgnored, seenVars,
     tdVars
<1>7. CASE UpdateUser
  <2> PICK w : w = Head(update_queue).user
    OBVIOUS
  <2> PICK v : v = Head(update_queue).version
    OBVIOUS
  <2>1. w \in User /\ Seen(w, v)
    BY <1>7, HeadFacts DEF UpdateUser, FirstIs
  <2>2. /\ UNCHANGED <<callerVars, introduced, gone>>
        /\ seen' = [seen EXCEPT ![w] = v]
        /\ overtaken' = IF Overtakes(w) THEN overtaken \cup {w} ELSE overtaken \ {w}
    BY <2>1 DEF Seen, tdVars
  <2> SUFFICES ASSUME NEW s \in Caller PROVE CallerInv(s)' /\ AnswerInv(s)'
    BY DEF CallersInv
  <2>3. Same(s)
    BY <2>2 DEF Same
  <2>4. AnswerInv(s)'
    <3> SUFFICES ASSUME pc[s] = "answered", op[s].of = "user", reply[s].kind = "expected"
                 PROVE  /\ reply[s].version # 0
                        /\ \A u \in User : target[s] = u /\ reply[s].version < seen'[u]
                             => u \in overtaken'
      BY <2>2 DEF AnswerInv
    <3>1. /\ reply[s].version # 0
          /\ \A u \in User : target[s] = u /\ reply[s].version < seen[u] => u \in overtaken
      BY DEF CallersInv, AnswerInv
    <3>2. target[s] = w => Overtakes(w)
      BY DEF Overtakes
    <3>3. \A u \in User \ {w} : seen'[u] = seen[u] /\ (u \in overtaken => u \in overtaken')
      BY <2>2 DEF TypeOK
    <3> QED
      BY <2>2, <3>1, <3>2, <3>3
  <2> QED
    BY <1>1, <2>2, <2>3, <2>4 DEF CallersInv
<1> QED
  BY <1>2, <1>4, <1>5, <1>6, <1>7, <1>8, NextIs

(* What the caches do while a caller moves: they lose nothing.             *)
LEMMA CallerCaches ==
  ASSUME TypeOK, NEW t \in Caller, CallerInv(t), AnswerInv(t), CallerStep(t)
  PROVE  /\ \A u \in User : user_cache[u] # 0 => user_cache'[u] # 0
         /\ chat_type_cache \subseteq chat_type_cache'
         /\ \A u \in User : \/ user_cache'[u] = user_cache[u]
                            \/ user_cache'[u] < seen[u] => u \in overtaken
<1> USE DEF cacheVars
<1>1. CASE Finish(t) /\ reply[t].kind = "expected"
  <2>1. Store(t) /\ pc[t] = "answered"
    BY <1>1 DEF Finish
  <2>2. CASE op[t].of = "user"
    <3>1. target[t] \in User /\ user_cache' = [user_cache EXCEPT ![target[t]] = reply[t].version]
          /\ chat_type_cache' = chat_type_cache
      BY <2>1, <2>2, CallerFacts DEF Store
    <3>2. /\ reply[t].version # 0
          /\ \A u \in User : target[t] = u /\ reply[t].version < seen[u] => u \in overtaken
      BY <1>1, <2>1, <2>2 DEF AnswerInv
    <3> QED
      BY <3>1, <3>2 DEF TypeOK
  <2>3. CASE op[t].of # "user"
    BY <2>1, <2>3 DEF Store
  <2> QED
    BY <2>2, <2>3
<1>2. CASE ~(Finish(t) /\ reply[t].kind = "expected")
  <2>1. UNCHANGED <<user_cache, chat_type_cache>>
    BY <1>2 DEF CallerStep, Call, CallExpired, CallUnbound, CreateTask, TakesUp, AwaitTask,
       DropTask, Look, Post, Ask, Finish, FinishCount, TdAnswer
  <2> QED
    BY <2>1
<1> QED
  BY <1>1, <1>2

(* The first update leaves the queue, and the caches know what it said.    *)
LEMMA QueueTail ==
  ASSUME TypeOK, QueueInv, update_queue # <<>>, update_queue' = Tail(update_queue),
         UNCHANGED <<truth, announced>>,
         \A u \in User : user_cache[u] # 0 => user_cache'[u] # 0,
         chat_type_cache \subseteq chat_type_cache',
         \A u \in User : Head(update_queue).kind = "user" /\ Head(update_queue).user = u
           => user_cache'[u] # 0,
         \A c \in Chat : Head(update_queue).kind = "chat" /\ Head(update_queue).chat = c
           => c \in chat_type_cache'
  PROVE  QueueInv'
<1> PICK q \in Seq(Update) : q = update_queue
  BY DEF TypeOK
<1> PICK r : r = Tail(q)
  OBVIOUS
<1>1. /\ Len(q) \in Nat /\ Len(q) # 0 /\ DOMAIN q = 1 .. Len(q) /\ Head(q) = q[1]
      /\ DOMAIN r = 1 .. Len(q) - 1 /\ Len(r) = Len(q) - 1
      /\ \A i \in DOMAIN r : r[i] = q[i + 1] /\ i + 1 \in DOMAIN q
      /\ \A i \in DOMAIN q : i # 1 => i - 1 \in DOMAIN r /\ r[i - 1] = q[i]
  OBVIOUS
<1>2. ASSUME NEW u \in User, NEW i \in 1 .. Len(q), UserKnown(u, i + 1)
      PROVE  UserKnown(u, i)'
  <2>1. CASE user_cache[u] # 0
    BY <2>1 DEF UserKnown
  <2>2. CASE ~(user_cache[u] # 0)
    <3>1. PICK j \in DOMAIN q : j < i + 1 /\ q[j].kind = "user" /\ q[j].user = u
      BY <1>2, <2>2 DEF UserKnown
    <3>2. CASE j = 1
      BY <1>1, <3>1, <3>2 DEF UserKnown
    <3>3. CASE j # 1
      <4>1. j - 1 \in DOMAIN r /\ r[j - 1] = q[j] /\ j - 1 < i
        BY <1>1, <3>1, <3>3
      <4> QED
        BY <3>1, <4>1 DEF UserKnown
    <3> QED
      BY <3>2, <3>3
  <2> QED
    BY <2>1, <2>2
<1>3. ASSUME NEW c \in Chat, NEW i \in 1 .. Len(q), ChatKnown(c, i + 1)
      PROVE  ChatKnown(c, i)'
  <2>1. CASE c \in chat_type_cache
    BY <2>1 DEF ChatKnown
  <2>2. CASE ~(c \in chat_type_cache)
    <3>1. PICK j \in DOMAIN q : j < i + 1 /\ q[j].kind = "chat" /\ q[j].chat = c
      BY <1>3, <2>2 DEF ChatKnown
    <3>2. CASE j = 1
      BY <1>1, <3>1, <3>2 DEF ChatKnown
    <3>3. CASE j # 1
      <4>1. j - 1 \in DOMAIN r /\ r[j - 1] = q[j] /\ j - 1 < i
        BY <1>1, <3>1, <3>3
      <4> QED
        BY <3>1, <4>1 DEF ChatKnown
    <3> QED
      BY <3>2, <3>3
  <2> QED
    BY <2>1, <2>2
<1>4. ASSUME NEW u \in User, truth'[u] # 0
      PROVE  UserKnown(u, Len(update_queue) + 1)'
  <2>1. UserKnown(u, Len(q) + 1) /\ Len(q) \in 1 .. Len(q)
    BY <1>1, <1>4 DEF QueueInv
  <2>2. UserKnown(u, Len(q))'
    BY <1>2, <2>1
  <2> QED
    BY <1>1, <2>2 DEF UserKnown
<1>5. ASSUME NEW c \in announced'
      PROVE  ChatKnown(c, Len(update_queue) + 1)'
  <2>1. c \in Chat /\ ChatKnown(c, Len(q) + 1) /\ Len(q) \in 1 .. Len(q)
    BY <1>1 DEF QueueInv, TypeOK
  <2>2. ChatKnown(c, Len(q))'
    BY <1>3, <2>1
  <2> QED
    BY <1>1, <2>2 DEF ChatKnown
<1>6. ASSUME NEW i \in DOMAIN r, r[i].kind = "message"
      PROVE  /\ \A u \in User : r[i].user = u => UserKnown(u, i)'
             /\ \A c \in Chat : r[i].chat = c => ChatKnown(c, i)'
  <2>1. r[i] = q[i + 1] /\ i + 1 \in DOMAIN q /\ i \in 1 .. Len(q)
    BY <1>1
  <2>2. /\ \A u \in User : r[i].user = u => UserKnown(u, i + 1)
        /\ \A c \in Chat : r[i].chat = c => ChatKnown(c, i + 1)
    BY <1>6, <2>1 DEF QueueInv
  <2> QED
    BY <1>2, <1>3, <2>1, <2>2
<1> QED
  BY <1>4, <1>5, <1>6 DEF QueueInv

(* An update is published: who is known stays known, and who is announced  *)
(* is known from the next update on.                                       *)
LEMMA QueueAppend ==
  ASSUME TypeOK, QueueInv, NEW upd \in Update,
         update_queue' = Append(update_queue, upd), UNCHANGED cacheVars,
         \A u \in User : truth'[u] # 0 =>
           truth[u] # 0 \/ (upd.kind = "user" /\ upd.user = u),
         \A c \in announced' : c \in announced \/ (upd.kind = "chat" /\ upd.chat = c),
         upd.kind = "message" => truth[upd.user] # 0 /\ upd.chat \in announced
  PROVE  QueueInv'
<1> PICK q \in Seq(Update) : q = update_queue
  BY DEF TypeOK
<1> PICK r \in Seq(Update) : r = Append(q, upd)
  BY AppendProperties
<1>1. /\ Len(q) \in Nat /\ DOMAIN q = 1 .. Len(q) /\ DOMAIN r = 1 .. Len(q) + 1
      /\ Len(r) = Len(q) + 1 /\ r[Len(q) + 1] = upd
      /\ \A i \in DOMAIN q : r[i] = q[i] /\ i \in DOMAIN r
  OBVIOUS
<1>2. ASSUME NEW u, NEW i \in Nat, UserKnown(u, i)
      PROVE  UserKnown(u, i)' /\ UserKnown(u, i + 1)'
  BY <1>1, <1>2 DEF UserKnown, cacheVars
<1>3. ASSUME NEW c, NEW i \in Nat, ChatKnown(c, i)
      PROVE  ChatKnown(c, i)' /\ ChatKnown(c, i + 1)'
  BY <1>1, <1>3 DEF ChatKnown, cacheVars
<1>4. ASSUME NEW u \in User, truth'[u] # 0
      PROVE  UserKnown(u, Len(r) + 1)'
  <2>1. CASE truth[u] # 0
    <3>1. UserKnown(u, Len(r))
      BY <1>1, <2>1 DEF QueueInv
    <3> QED
      BY <1>1, <1>2, <3>1
  <2>2. CASE upd.kind = "user" /\ upd.user = u
    BY <1>1, <2>2 DEF UserKnown
  <2> QED
    BY <1>4, <2>1, <2>2
<1>5. ASSUME NEW c \in announced'
      PROVE  ChatKnown(c, Len(r) + 1)'
  <2>1. CASE c \in announced
    <3>1. ChatKnown(c, Len(r))
      BY <1>1, <2>1 DEF QueueInv
    <3> QED
      BY <1>1, <1>3, <3>1
  <2>2. CASE upd.kind = "chat" /\ upd.chat = c
    BY <1>1, <2>2 DEF ChatKnown
  <2> QED
    BY <2>1, <2>2
<1>6. ASSUME NEW i \in DOMAIN r, r[i].kind = "message"
      PROVE  /\ \A u \in User : r[i].user = u => UserKnown(u, i)'
             /\ \A c \in Chat : r[i].chat = c => ChatKnown(c, i)'
  <2>1. CASE i \in DOMAIN q
    <3>1. /\ \A u \in User : r[i].user = u => UserKnown(u, i)
          /\ \A c \in Chat : r[i].chat = c => ChatKnown(c, i)
      BY <1>1, <1>6, <2>1 DEF QueueInv
    <3> QED
      BY <1>1, <1>2, <1>3, <2>1, <3>1
  <2>2. CASE i = Len(q) + 1
    <3>1. /\ \A u \in User : upd.user = u => UserKnown(u, i)
          /\ \A c \in Chat : upd.chat = c => ChatKnown(c, i)
      BY <1>1, <1>6, <2>2 DEF QueueInv
    <3> QED
      BY <1>1, <1>2, <1>3, <2>2, <3>1
  <2> QED
    BY <1>1, <2>1, <2>2
<1> QED
  BY <1>4, <1>5, <1>6 DEF QueueInv


LEMMA QueueStep ==
  ASSUME TypeOK, CallersInv, QueueInv, Next
  PROVE  QueueInv'
<1> USE DEF cacheVars
<1>0. ASSUME UNCHANGED <<update_queue, truth, announced>>,
             \A u \in User : user_cache[u] # 0 => user_cache'[u] # 0,
             chat_type_cache \subseteq chat_type_cache'
      PROVE  QueueInv'
  <2>1. /\ \A u \in User : \A i : UserKnown(u, i) => UserKnown(u, i)'
        /\ \A c, i : ChatKnown(c, i) => ChatKnown(c, i)'
    BY <1>0 DEF UserKnown, ChatKnown
  <2> QED
    BY <1>0, <2>1 DEF QueueInv
<1>1. CASE \E t \in Caller : CallerStep(t)
  <2> PICK t \in Caller : CallerStep(t)
    BY <1>1
  <2>1. UNCHANGED <<update_queue, truth, announced>>
    BY CallerFrame DEF tdVars
  <2>2. /\ \A u \in User : user_cache[u] # 0 => user_cache'[u] # 0
        /\ chat_type_cache \subseteq chat_type_cache'
    BY CallerCaches DEF CallersInv
  <2> QED
    BY <1>0, <2>1, <2>2
<1>2. CASE Destroy
  BY <1>0, <1>2 DEF Destroy
<1>3. ASSUME NEW u \in User, TdUser(u)
      PROVE  QueueInv'
  <2>1. truth[u] + 1 \in Version
    BY <1>3 DEF TdUser, TypeOK, Version
  <2> PICK upd \in Update : upd = [kind |-> "user", user |-> u, version |-> truth[u] + 1]
    BY <2>1 DEF Update
  <2>2. /\ update_queue' = Append(update_queue, upd) /\ UNCHANGED cacheVars
        /\ announced' = announced /\ upd.kind = "user" /\ upd.user = u
    BY <1>3 DEF TdUser, Publish
  <2>3. \A w \in User : truth'[w] # 0 => truth[w] # 0 \/ w = u
    BY <1>3 DEF TdUser, TypeOK
  <2> QED
    BY <2>2, <2>3, QueueAppend
<1>4. ASSUME NEW c \in Chat, TdChat(c)
      PROVE  QueueInv'
  <2> PICK upd \in Update : upd = [kind |-> "chat", chat |-> c]
    BY DEF Update
  <2>1. /\ update_queue' = Append(update_queue, upd) /\ UNCHANGED cacheVars
        /\ announced' = announced \cup {c} /\ truth' = truth
        /\ upd.kind = "chat" /\ upd.chat = c
    BY <1>4 DEF TdChat, Publish
  <2> QED
    BY <2>1, QueueAppend
<1>5. ASSUME NEW u \in User, NEW c \in Chat, TdMessage(u, c)
      PROVE  QueueInv'
  <2> PICK upd \in Update : upd = [kind |-> "message", user |-> u, chat |-> c]
    BY DEF Update
  <2>1. /\ update_queue' = Append(update_queue, upd) /\ UNCHANGED cacheVars
        /\ UNCHANGED <<truth, announced>> /\ truth[u] # 0 /\ c \in announced
        /\ upd.kind = "message" /\ upd.user = u /\ upd.chat = c
    BY <1>5 DEF TdMessage, Publish
  <2> QED
    BY <2>1, QueueAppend
<1>6. CASE UpdateUser
  <2> PICK w : w = Head(update_queue).user
    OBVIOUS
  <2> PICK v : v = Head(update_queue).version
    OBVIOUS
  <2>1. /\ update_queue # <<>> /\ Head(update_queue).kind = "user"
        /\ user_cache' = [user_cache EXCEPT ![w] = v] /\ Seen(w, v)
    BY <1>6 DEF UpdateUser, FirstIs
  <2>2. w \in User /\ v # 0
    BY <2>1, HeadFacts DEF Version
  <2>3. /\ update_queue' = Tail(update_queue) /\ UNCHANGED <<truth, announced>>
        /\ chat_type_cache' = chat_type_cache
    BY <2>1 DEF Seen, tdVars
  <2>4. user_cache'[w] # 0 /\ \A u \in User : user_cache[u] # 0 => user_cache'[u] # 0
    BY <2>1, <2>2 DEF TypeOK
  <2> QED
    BY <2>1, <2>3, <2>4, QueueTail
<1>7. CASE UpdateNewChat
  BY <1>7, QueueTail DEF UpdateNewChat, Introduce, FirstIs, tdVars
<1>8. CASE UpdateNewMessage \/ UpdateIgnored
  BY <1>8, QueueTail DEF UpdateNewMessage, UpdateIgnored, FirstIs, tdVars
<1>9. ASSUME NEW t \in Caller, TdSends(t)
      PROVE  QueueInv'
  <2> PICK upd \in Update : upd = [kind |-> "send"]
    BY DEF Update
  <2>1. /\ update_queue' = Append(update_queue, upd) /\ UNCHANGED cacheVars
        /\ UNCHANGED <<truth, announced>> /\ upd.kind = "send"
    BY <1>9 DEF TdSends, Publish
  <2> QED
    BY <2>1, QueueAppend
<1> QED
  BY <1>1, <1>2, <1>3, <1>4, <1>5, <1>6, <1>7, <1>8, <1>9, NextIs DEF TdStep

LEMMA VersionStep ==
  ASSUME TypeOK, CallersInv, VersionInv, Next
  PROVE  VersionInv'
<1>0. ASSUME UNCHANGED <<seen, truth, update_queue>>
      PROVE  VersionInv'
  BY <1>0 DEF VersionInv
<1>1. CASE \E t \in Caller : CallerStep(t)
  BY <1>0, <1>1, CallerFrame DEF seenVars, tdVars
<1>2. CASE Destroy
  BY <1>0, <1>2 DEF Destroy, seenVars
<1>3. CASE TdStep
  <2>1. PICK upd \in Update :
          /\ update_queue' = Append(update_queue, upd) /\ seen' = seen
          /\ \A u \in User : truth[u] <= truth'[u]
          /\ \A u \in User : upd.kind = "user" /\ upd.user = u => upd.version <= truth'[u]
    <3>1. ASSUME NEW u \in User, TdUser(u)
          PROVE  \E upd \in Update :
                   /\ update_queue' = Append(update_queue, upd) /\ seen' = seen
                   /\ \A w \in User : truth[w] <= truth'[w]
                   /\ \A w \in User : upd.kind = "user" /\ upd.user = w
                        => upd.version <= truth'[w]
      <4>1. truth[u] + 1 \in Version /\ truth' = [truth EXCEPT ![u] = truth[u] + 1]
        BY <3>1 DEF TdUser, TypeOK, Version
      <4> PICK upd \in Update : upd = [kind |-> "user", user |-> u, version |-> truth[u] + 1]
        BY <4>1 DEF Update
      <4>2. update_queue' = Append(update_queue, upd) /\ seen' = seen
        BY <3>1 DEF TdUser, Publish, seenVars
      <4>3. \A w \in User : truth[w] <= truth'[w]
        BY <4>1 DEF TypeOK
      <4>4. upd.user = u /\ upd.version = truth[u] + 1 /\ truth'[u] = truth[u] + 1
            /\ truth[u] \in Nat
        BY <4>1 DEF TypeOK
      <4>5. \A w \in User : upd.user = w => upd.version <= truth'[w]
        BY <4>4
      <4> QED
        BY <4>2, <4>3, <4>5
    <3>2. ASSUME NEW upd \in Update, upd.kind # "user", Publish(upd), truth' = truth
          PROVE  \E p \in Update :
                   /\ update_queue' = Append(update_queue, p) /\ seen' = seen
                   /\ \A w \in User : truth[w] <= truth'[w]
                   /\ \A w \in User : p.kind = "user" /\ p.user = w => p.version <= truth'[w]
      BY <3>2 DEF Publish, seenVars, TypeOK
    <3>3. ASSUME NEW c \in Chat, TdChat(c)
          PROVE  \E upd \in Update : upd.kind # "user" /\ Publish(upd) /\ truth' = truth
      BY <3>3 DEF TdChat, Update
    <3>4. ASSUME NEW u \in User, NEW c \in Chat, TdMessage(u, c)
          PROVE  \E upd \in Update : upd.kind # "user" /\ Publish(upd) /\ truth' = truth
      BY <3>4 DEF TdMessage, Update
    <3>5. ASSUME NEW t \in Caller, TdSends(t)
          PROVE  \E upd \in Update : upd.kind # "user" /\ Publish(upd) /\ truth' = truth
      BY <3>5 DEF TdSends, Update
    <3> QED
      BY <1>3, <3>1, <3>2, <3>3, <3>4, <3>5 DEF TdStep
  <2> PICK q \in Seq(Update) : q = update_queue
    BY DEF TypeOK
  <2> PICK r \in Seq(Update) : r = Append(q, upd)
    BY AppendProperties
  <2>2. /\ Len(q) \in Nat /\ DOMAIN q = 1 .. Len(q) /\ DOMAIN r = 1 .. Len(q) + 1
        /\ r[Len(q) + 1] = upd /\ \A i \in DOMAIN q : r[i] = q[i]
    OBVIOUS
  <2>3. ASSUME NEW u \in User
        PROVE  /\ seen[u] \in Nat /\ truth[u] \in Nat /\ truth'[u] \in Int
               /\ seen[u] <= truth[u] /\ truth[u] <= truth'[u]
    <3>1. truth'[u] \in Int
      BY TypeStep DEF TypeOK
    <3> QED
      BY <2>1, <3>1 DEF VersionInv, TypeOK
  <2>4. ASSUME NEW i \in DOMAIN r, NEW u \in User, r[i].kind = "user", r[i].user = u
        PROVE  r[i].version <= truth'[u]
    <3>1. CASE i \in DOMAIN q
      <4>1. q[i] \in Update /\ q[i].kind = "user" /\ q[i].user = u /\ r[i] = q[i]
        BY <2>2, <2>4, <3>1
      <4>2. q[i].version \in Nat
        BY <4>1 DEF Update, Version
      <4>3. q[i].version <= truth[u]
        BY <3>1, <4>1 DEF VersionInv
      <4> QED
        BY <2>3, <4>1, <4>2, <4>3
    <3>2. CASE i = Len(q) + 1
      BY <2>1, <2>2, <2>4, <3>2
    <3> QED
      BY <2>2, <3>1, <3>2
  <2> QED
    BY <2>1, <2>3, <2>4 DEF VersionInv
<1>4. ASSUME update_queue # <<>>, update_queue' = Tail(update_queue), truth' = truth
      PROVE  \A i \in DOMAIN update_queue' : \A u \in User :
               update_queue'[i].kind = "user" /\ update_queue'[i].user = u =>
                 update_queue'[i].version <= truth'[u]
  <2> PICK q \in Seq(Update) : q = update_queue
    BY DEF TypeOK
  <2> PICK r : r = Tail(q)
    OBVIOUS
  <2>1. \A i \in DOMAIN r : r[i] = q[i + 1] /\ i + 1 \in DOMAIN q
    BY <1>4
  <2> QED
    BY <1>4, <2>1 DEF VersionInv
<1>5. CASE UpdateUser
  <2> PICK w : w = Head(update_queue).user
    OBVIOUS
  <2> PICK v : v = Head(update_queue).version
    OBVIOUS
  <2>1. update_queue # <<>> /\ Head(update_queue).kind = "user" /\ Seen(w, v)
    BY <1>5 DEF UpdateUser, FirstIs
  <2>2. seen' = [seen EXCEPT ![w] = v] /\ truth' = truth /\ update_queue' = Tail(update_queue)
    BY <2>1 DEF Seen, tdVars
  <2>3. w \in User /\ v <= truth[w]
    BY <2>1, HeadFacts DEF VersionInv
  <2>4. \A u \in User : seen'[u] <= truth'[u]
    BY <2>2, <2>3 DEF VersionInv, TypeOK
  <2> QED
    BY <1>4, <2>1, <2>2, <2>4 DEF VersionInv
<1>6. CASE UpdateNewChat \/ UpdateNewMessage \/ UpdateIgnored
  <2>1. /\ update_queue # <<>> /\ update_queue' = Tail(update_queue)
        /\ seen' = seen /\ truth' = truth
    BY <1>6 DEF UpdateNewChat, Introduce, UpdateNewMessage, UpdateIgnored, FirstIs,
       seenVars, tdVars
  <2> QED
    BY <1>4, <2>1 DEF VersionInv
<1> QED
  BY <1>1, <1>2, <1>3, <1>5, <1>6, NextIs

-----------------------------------------------------------------------------
(* The caches                                                              *)

LEMMA CachesStep ==
  ASSUME TypeOK, CallersInv, QueueInv, CachesSound, Next
  PROVE  CachesSound'
<1> USE DEF CachesSound
<1>0. ASSUME dispatched' = dispatched
      PROVE  MessagesDescribed'
  BY <1>0 DEF MessagesDescribed
<1>1. ASSUME UNCHANGED <<user_cache, seen, overtaken>>
      PROVE  StaleOnlyIfOvertaken'
  BY <1>1 DEF StaleOnlyIfOvertaken
<1>2. CASE \E t \in Caller : CallerStep(t)
  <2> PICK t \in Caller : CallerStep(t)
    BY <1>2
  <2>1. UNCHANGED <<dispatched, seen, overtaken>>
    BY CallerFrame DEF seenVars
  <2>2. \A u \in User : \/ user_cache'[u] = user_cache[u]
                        \/ user_cache'[u] < seen[u] => u \in overtaken
    BY CallerCaches DEF CallersInv
  <2>3. StaleOnlyIfOvertaken'
    BY <2>1, <2>2 DEF StaleOnlyIfOvertaken
  <2> QED
    BY <1>0, <2>1, <2>3
<1>3. CASE Destroy \/ TdStep
  BY <1>0, <1>1, <1>3 DEF Destroy, TdStep, TdSends, TdUser, TdChat, TdMessage, Publish,
     seenVars, cacheVars
<1>4. CASE UpdateUser
  <2> PICK w : w = Head(update_queue).user
    OBVIOUS
  <2> PICK v : v = Head(update_queue).version
    OBVIOUS
  <2>1. /\ update_queue # <<>> /\ Head(update_queue).kind = "user"
        /\ user_cache' = [user_cache EXCEPT ![w] = v] /\ Seen(w, v)
    BY <1>4 DEF UpdateUser, FirstIs
  <2>2. w \in User /\ v \in Nat
    BY <2>1, HeadFacts DEF Version
  <2>3. /\ dispatched' = dispatched /\ seen' = [seen EXCEPT ![w] = v]
        /\ \A u \in User \ {w} : u \in overtaken => u \in overtaken'
    BY <2>1 DEF Seen
  <2>4. StaleOnlyIfOvertaken'
    BY <2>1, <2>2, <2>3 DEF StaleOnlyIfOvertaken, TypeOK
  <2> QED
    BY <1>0, <2>3, <2>4
<1>5. CASE UpdateNewChat \/ UpdateIgnored
  BY <1>0, <1>1, <1>5 DEF UpdateNewChat, Introduce, UpdateIgnored, seenVars, cacheVars
<1>6. CASE UpdateNewMessage
  <2> PICK u : u = Head(update_queue).user
    OBVIOUS
  <2> PICK c : c = Head(update_queue).chat
    OBVIOUS
  <2>1. /\ update_queue # <<>> /\ Head(update_queue).kind = "message"
        /\ dispatched' = [typed |-> c \in chat_type_cache, sender |-> user_cache[u]]
        /\ UNCHANGED <<cacheVars, seen, overtaken>>
    BY <1>6 DEF UpdateNewMessage, FirstIs
  <2>2. u \in User /\ c \in Chat /\ 1 \in DOMAIN update_queue
        /\ update_queue[1].kind = "message" /\ update_queue[1].user = u
        /\ update_queue[1].chat = c
    BY <2>1, HeadFacts
  <2>3. UserKnown(u, 1) /\ ChatKnown(c, 1)
    BY <2>2 DEF QueueInv
  <2>4. user_cache[u] # 0 /\ c \in chat_type_cache
    <3>1. \A j \in DOMAIN update_queue : ~(j < 1)
      BY DEF TypeOK
    <3> QED
      BY <2>3, <3>1 DEF UserKnown, ChatKnown
  <2> QED
    BY <1>1, <2>1, <2>4 DEF MessagesDescribed, cacheVars
<1> QED
  BY <1>2, <1>3, <1>4, <1>5, <1>6, NextIs

(* A Chat without a client comes from the cache, where only updateNewChat  *)
(* puts one.                                                               *)
LEMMA UnboundStep ==
  ASSUME TypeOK, CallersInv, UnboundInv, Next
  PROVE  UnboundInv'
<1> USE DEF cacheVars, seenVars, UnboundInv
<1>1. ASSUME NEW t \in Caller, CallerStep(t)
      PROVE  UnboundInv'
  <2>0. introduced' = introduced /\ CallerInv(t)
    BY <1>1, CallerFrame DEF CallersInv
  <2>1. CASE Look(t)
    <3>1. op[t].of = "chat" => target[t] \in Chat
      BY <2>1, CallerFacts, <2>0 DEF Look
    <3> QED
      BY <2>0, <2>1, <3>1 DEF Look
  <2>2. CASE Finish(t)
    <3>1. UNCHANGED cacheVars \/ Store(t)
      BY <2>2 DEF Finish
    <3>2. unbound' = unbound
          /\ \A c \in Chat : chat_cache'[c] = "unbound" => chat_cache[c] = "unbound"
      BY <3>1 DEF Store, TypeOK
    <3> QED
      BY <2>0, <3>2
  <2>3. CASE ~Look(t) /\ ~Finish(t)
    <3>1. UNCHANGED <<chat_cache, unbound>>
      BY <1>1, <2>3 DEF CallerStep, Call, CallExpired, CallUnbound, CreateTask, TakesUp,
         AwaitTask, DropTask, Post, Ask, FinishCount, TdAnswer
    <3> QED
      BY <2>0, <3>1
  <2> QED
    BY <2>1, <2>2, <2>3
<1>2. CASE Destroy \/ TdStep
  BY <1>2 DEF Destroy, TdStep, TdSends, TdUser, TdChat, TdMessage, Publish
<1>3. CASE UpdateNewChat
  BY <1>3 DEF UpdateNewChat, Introduce, TypeOK
<1>4. CASE UpdateUser \/ UpdateNewMessage \/ UpdateIgnored
  BY <1>4 DEF UpdateUser, Seen, UpdateNewMessage, UpdateIgnored
<1> QED
  BY <1>1, <1>2, <1>3, <1>4, NextIs

-----------------------------------------------------------------------------
LEMMA NextInv == IInv /\ [Next]_vars => IInv'
<1> SUFFICES ASSUME IInv, [Next]_vars PROVE IInv'
  OBVIOUS
<1>1. CASE Next
  BY <1>1, TypeStep, CallersStep, QueueStep, VersionStep, CachesStep, UnboundStep
     DEF IInv
<1>2. CASE UNCHANGED vars
  <2> USE <1>2 DEF IInv, vars, cacheVars, callerVars, seenVars, tdVars
  <2>1. TypeOK'
    BY DEF TypeOK
  <2>2. CallersInv'
    BY DEF CallersInv, CallerInv, AnswerInv, KnownEffects, Sent, Done, Taken, Takes,
       Undone, SentLater
  <2>3. QueueInv'
    BY DEF QueueInv, UserKnown, ChatKnown
  <2>4. VersionInv'
    BY DEF VersionInv
  <2>5. CachesSound'
    BY DEF CachesSound, MessagesDescribed, StaleOnlyIfOvertaken
  <2>6. UnboundInv'
    BY DEF UnboundInv
  <2> QED
    BY <2>1, <2>2, <2>3, <2>4, <2>5, <2>6
<1> QED
  BY <1>1, <1>2

(* The inductive invariant holds of every behaviour.                       *)
THEOREM Invariance == Spec => []IInv
  BY InitInv, NextInv, PTL DEF Spec

(* Every variable keeps its type, whatever operations are called; nothing  *)
(* is carried out more than twice.                                         *)
THEOREM TypeCorrect == Spec => []TypeOK
<1>1. IInv => TypeOK
  BY DEF IInv
<1> QED
  BY <1>1, Invariance, PTL

(* Handlers get messages whose sender and chat are in the caches, and a    *)
(* profile is stale only because an update overtook an answer, for any     *)
(* number of callers, users and chats.                                     *)
THEOREM Caches == Spec => []CachesSound
<1>1. IInv => CachesSound
  BY DEF IInv
<1> QED
  BY <1>1, Invariance, PTL

(* How an operation of the catalogue ended tells what was carried out, or  *)
(* that a message is still to be sent, has failed or could not be          *)
(* forwarded; a method does nothing only without the client, or on a Chat  *)
(* that updateNewChat put into the cache.                                  *)
THEOREM Effects == Spec => []EffectsKnown
<1>1. IInv => EffectsKnown
  BY DEF IInv, CallersInv, CallerInv, KnownEffects, EffectsKnown, NormalMeansDone,
     TwiceOnlyUnheard
<1> QED
  BY <1>1, Invariance, PTL
=============================================================================
