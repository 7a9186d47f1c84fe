-------------------------- MODULE MessageDispatch --------------------------
(***************************************************************************)
(* How a message, an edit, a deletion or a callback query finds its        *)
(* handlers in ClientImpl (src/backend/client.cpp): the dispatcher         *)
(* converts it, passes it through the MiddlewarePipeline, copies the       *)
(* handlers of its kind and runs those whose filter accepts it, on a       *)
(* worker of the pool or itself. Any thread may meanwhile add handlers     *)
(* and middleware.                                                         *)
(*                                                                         *)
(* The queue in front of the dispatcher, the size of the pool and the end  *)
(* of the client are the subject of ClientEvents, the filling of the       *)
(* caches that of ClientRequests: here the type of every chat and the      *)
(* sender of every update are in them.                                     *)
(***************************************************************************)
EXTENDS Filters

CONSTANTS Handler,     \* the calls of onMessage, onEditedMessage, ...
          KindOf,      \* the kind of update each is for
          FilterOf,    \* the filter it is registered with
          Middleware,  \* the calls of use
          Update,      \* the updates TDLib may deliver
          Plain,       \* those that are nothing special
          Worker,      \* threads of the pool
          Dispatcher,  \* the dispatcher thread
          Bot,         \* users that are bots
          ChatTypeOf,  \* the type of each chat at TDLib
          Text,        \* the texts of messages, buttons and entities
          MaxCalls,    \* bound: handlers and middleware added
          MaxUpdates   \* bound: updates delivered

Kind == {"message", "edited", "deleted", "callback"}

ASSUME HandlerAssumption == KindOf \in [Handler -> Kind] /\ Handler \cap Middleware = {}
ASSUME RunnerAssumption  == Dispatcher \notin Worker
ASSUME BoundAssumption   == MaxUpdates \in Nat \ {0}

(* What TDLib sends, as far as it is told apart here.                      *)
TdContent    == [id : STRING, text : Text \cup {None}, payload : {None, "empty", "full"}]
TdEntity     == [offset : Nat, type : STRING \cup {None}, argument : Text]
TdButtonType == [id : STRING, data : Text, current : BOOLEAN]
TdButton     == [text : Text, type : TdButtonType \cup {None}]
TdKeyboard   == [id : STRING, rows : Seq(Seq(TdButton \cup {None}))]

ASSUME NullAssumption == None \notin Nat \cup EntityTypes

(* Identifiers are positive, and only some entities have an argument.      *)
ASSUME UpdateAssumption ==
  /\ {AUser, AThread} \cup Bot \subseteq Nat \ {0}
  /\ \A u \in Update :
       /\ u.kind \in {"message", "edited"} =>
            /\ u.chat \in DOMAIN ChatTypeOf /\ ChatTypeOf[u.chat].is_channel \in BOOLEAN
            /\ u.content \in TdContent \cup {None}
       /\ u.kind = "message" =>
            /\ u.sender \in (Nat \ {0}) \cup {None}
            /\ u.reply_to \in Nat /\ u.thread \in Nat
            /\ u.reply_markup \in TdKeyboard \cup {None}
            /\ u.entities \in Seq(TdEntity \cup {None})
            /\ \A e \in Elements(u.entities) \ {None} :
                 e.type \notin WithArgument => e.argument = NoText

Runner   == Worker \cup {Dispatcher}
Delivery == 1 .. MaxUpdates

VARIABLES
  handlers,    \* on_message_handlers_ and its like, by kind
  middlewares, \* MiddlewarePipeline::middlewares_
  thread_pool, \* whether thread_pool_ is there
  delivered,   \* history: the updates delivered, in order
  stage,       \* where the dispatcher is
  copy,        \* the middleware still to be asked about the last of them
  tasks,       \* what the pool has not started, in order
  job,         \* what each thread runs: the delivery and the handlers left
  calls,       \* history: calls of On and Use, in order
  cuts,        \* history: how many calls there were when a delivery came
               \* in, its middleware was copied, its handlers were copied
  vetted,      \* history: which middleware let which delivery pass
  handled,     \* history: the handlers started for each delivery
  outcome,     \* history: how each delivery ended
  aborted      \* std::terminate was called

lists   == <<handlers, middlewares, calls>>
running == <<tasks, job>>
vars == <<lists, thread_pool, delivered, stage, copy, running, cuts, vetted,
          handled, outcome, aborted>>

Moment == {"received", "vetting", "dispatch"}
Idle   == [n |-> 0, left |-> <<>>]
Job    == [n : Delivery, left : Seq(Handler)]

TypeOK ==
  /\ handlers \in [Kind -> Seq(Handler)]
  /\ middlewares \in Seq(Middleware)
  /\ thread_pool \in BOOLEAN
  /\ delivered \in Seq(Update) /\ Len(delivered) <= MaxUpdates
  /\ stage \in {"idle", "vetting", "asking", "dispatch", "inline"}
  /\ stage # "idle" => delivered # <<>>
  /\ stage = "inline" <=> job[Dispatcher] # Idle
  /\ copy \in Seq(Middleware)
  /\ tasks \in Seq(Job)
  /\ job \in [Runner -> Job \cup {Idle}]
  /\ calls \in Seq(Handler \cup Middleware)
  /\ cuts \in [Moment -> [Delivery -> Nat]]
  /\ vetted \subseteq Delivery \X Middleware
  /\ handled \in [Delivery -> Seq(Handler)]
  /\ outcome \in [Delivery -> {"none", "halted", "ignored", "done", "escaped"}]
  /\ aborted \in BOOLEAN

Init ==
  /\ handlers = [k \in Kind |-> <<>>]
  /\ middlewares = <<>>
  /\ thread_pool \in BOOLEAN
  /\ delivered = <<>>
  /\ stage = "idle"
  /\ copy = <<>>
  /\ tasks = <<>>
  /\ job = [x \in Runner |-> Idle]
  /\ calls = <<>>
  /\ cuts = [m \in Moment |-> [n \in Delivery |-> 0]]
  /\ vetted = {}
  /\ handled = [n \in Delivery |-> <<>>]
  /\ outcome = [n \in Delivery |-> "none"]
  /\ aborted = FALSE

-----------------------------------------------------------------------------
(* The application, on any thread, each under the mutex of its list        *)

Called(c) == \E i \in DOMAIN calls : calls[i] = c

MayCall(c) == ~Called(c) /\ Len(calls) < MaxCalls

(* Bug: a handler is put in front of the earlier ones. *)
OnInFront(h) ==
  /\ MayCall(h)
  /\ handlers' = [handlers EXCEPT ![KindOf[h]] = <<h>> \o @]
  /\ calls' = Append(calls, h)
  /\ UNCHANGED <<middlewares, thread_pool, delivered, stage, copy, running,
                 cuts, vetted, handled, outcome, aborted>>

(* onMessage, onEditedMessage, onDeletedMessages, onCallbackQuery          *)
On(h) ==
  /\ MayCall(h)
  /\ handlers' = [handlers EXCEPT ![KindOf[h]] = Append(@, h)]
  /\ calls' = Append(calls, h)
  /\ UNCHANGED <<middlewares, thread_pool, delivered, stage, copy, running,
                 cuts, vetted, handled, outcome, aborted>>

Use(mw) ==
  /\ MayCall(mw)
  /\ middlewares' = Append(middlewares, mw)
  /\ calls' = Append(calls, mw)
  /\ UNCHANGED <<handlers, thread_pool, delivered, stage, copy, running, cuts,
                 vetted, handled, outcome, aborted>>

-----------------------------------------------------------------------------
(* process_update: what handlers get of an update                          *)

LookupChatType(chat) == ConvertChatType(ChatTypeOf[chat])

(* Bug: the sender is left as the message has it. *)
NotEnriched(m) == m

(* The sender as user_cache_ has it.                                       *)
EnrichSender(m) ==
  IF m.sender.id = 0 THEN m ELSE [m EXCEPT !.sender.is_bot = m.sender.id \in Bot]

(* An edit brings nothing but the new content.                             *)
EditedMessage(u) ==
  [WithContent(DefaultMessage, u.content) EXCEPT
     !.chat_id = u.chat, !.chat_type = LookupChatType(u.chat)]

ToMessage(u) ==
  CASE u.kind = "message"  -> EnrichSender(ConvertMessage(u, LookupChatType(u.chat)))
    [] u.kind = "edited"   -> EditedMessage(u)
    [] u.kind = "callback" -> EnrichSender(ConvertCallbackQuery(u))
    [] u.kind = "deleted"  -> [DefaultMessage EXCEPT !.chat_id = u.chat]

-----------------------------------------------------------------------------
(* The dispatcher                                                          *)

Last == Len(delivered)

Note(moment, n) == cuts' = [cuts EXCEPT ![moment][n] = Len(calls)]

(* Bound: an update that is not plain comes alone.                         *)
Room(u) ==
  /\ Last < MaxUpdates
  /\ \A i \in DOMAIN delivered : delivered[i] \in Plain
  /\ u \in Plain \/ delivered = <<>>

(* A deletion from TDLib's cache alone is ignored; messages and callback   *)
(* queries go to the middleware, edits and deletions do not.               *)
Deliver(u) ==
  /\ stage = "idle"
  /\ Room(u)
  /\ delivered' = Append(delivered, u)
  /\ Note("received", Last + 1)
  /\ \/ /\ u.kind = "deleted" /\ ~u.is_permanent
        /\ outcome' = [outcome EXCEPT ![Last + 1] = "ignored"]
        /\ stage' = "idle"
     \/ /\ u.kind = "edited" \/ (u.kind = "deleted" /\ u.is_permanent)
        /\ stage' = "dispatch"
        /\ UNCHANGED outcome
     \/ /\ u.kind \in {"message", "callback"}
        /\ stage' = "vetting"
        /\ UNCHANGED outcome
  /\ UNCHANGED <<lists, thread_pool, copy, running, vetted, handled, aborted>>

(* MiddlewarePipeline::execute: the list is copied under its mutex, ...    *)
Execute ==
  /\ stage = "vetting"
  /\ copy' = middlewares
  /\ Note("vetting", Last)
  /\ stage' = "asking"
  /\ UNCHANGED <<lists, thread_pool, delivered, running, vetted, handled,
                 outcome, aborted>>

(* ... and each is asked in turn, ...                                      *)
Proceed ==
  /\ stage = "asking" /\ copy # <<>>
  /\ vetted' = vetted \cup {<<Last, Head(copy)>>}
  /\ copy' = Tail(copy)
  /\ UNCHANGED <<lists, thread_pool, delivered, stage, running, cuts, handled,
                 outcome, aborted>>

(* Bug: a middleware that throws is passed over. *)
HaltIgnored ==
  /\ stage = "asking" /\ copy # <<>>
  /\ copy' = Tail(copy)
  /\ UNCHANGED <<lists, thread_pool, delivered, stage, running, cuts, vetted,
                 handled, outcome, aborted>>

(* ... until one returns false, stops the propagation or throws.           *)
Halt ==
  /\ stage = "asking" /\ copy # <<>>
  /\ copy' = <<>>
  /\ stage' = "idle"
  /\ outcome' = [outcome EXCEPT ![Last] = "halted"]
  /\ UNCHANGED <<lists, thread_pool, delivered, running, cuts, vetted, handled,
                 aborted>>

Passed ==
  /\ stage = "asking" /\ copy = <<>>
  /\ stage' = "dispatch"
  /\ UNCHANGED <<lists, thread_pool, delivered, copy, running, cuts, vetted,
                 handled, outcome, aborted>>

(* dispatch_*: the handlers are copied under their mutex. Those of         *)
(* messages and callback queries go to the pool if there is one.           *)
Dispatch ==
  /\ stage = "dispatch"
  /\ LET k == delivered[Last].kind
         j == [n |-> Last, left |-> handlers[k]]
     IN IF k \in {"message", "callback"} /\ thread_pool
        THEN /\ tasks' = Append(tasks, j)
             /\ stage' = "idle"
             /\ UNCHANGED job
        ELSE /\ job' = [job EXCEPT ![Dispatcher] = j]
             /\ stage' = "inline"
             /\ UNCHANGED tasks
  /\ Note("dispatch", Last)
  /\ UNCHANGED <<lists, thread_pool, delivered, copy, vetted, handled, outcome,
                 aborted>>

BeginTask(w) ==
  /\ job[w] = Idle
  /\ tasks # <<>>
  /\ job' = [job EXCEPT ![w] = Head(tasks)]
  /\ tasks' = Tail(tasks)
  /\ UNCHANGED <<lists, thread_pool, delivered, stage, copy, cuts, vetted,
                 handled, outcome, aborted>>

-----------------------------------------------------------------------------
(* run_handlers, and the loops of edits and deletions                      *)

MessageOf(n) == ToMessage(delivered[n])

(* Handlers of deletions have no filter, those of callback queries need    *)
(* not have one.                                                           *)
FilterAccepts(h, n) == KindOf[h] = "deleted" \/ Accepts(FilterOf[h], MessageOf(n))
FilterMayThrow(h, n) == KindOf[h] # "deleted" /\ MayThrow(FilterOf[h], MessageOf(n))

Asked(x) == Head(job[x].left)
Busy(x)  == job[x] # Idle /\ job[x].left # <<>>

GoOn(x)  == job' = [job EXCEPT ![x] = [n |-> @.n, left |-> Tail(@.left)]]

Skip(x) ==
  /\ Busy(x) /\ ~FilterAccepts(Asked(x), job[x].n)
  /\ GoOn(x)
  /\ UNCHANGED <<lists, thread_pool, delivered, stage, copy, tasks, cuts,
                 vetted, handled, outcome, aborted>>

Starts(x) == handled' = [handled EXCEPT ![job[x].n] = Append(@, Asked(x))]

(* Bug: the handlers of an update end with the first that accepts it. *)
CallOne(x) ==
  /\ Busy(x) /\ FilterAccepts(Asked(x), job[x].n)
  /\ Starts(x)
  /\ job' = [job EXCEPT ![x].left = <<>>]
  /\ UNCHANGED <<lists, thread_pool, delivered, stage, copy, tasks, cuts,
                 vetted, outcome, aborted>>

(* The callback returns, or throws a std::exception, which is logged.      *)
Call(x) ==
  /\ Busy(x) /\ FilterAccepts(Asked(x), job[x].n)
  /\ Starts(x)
  /\ GoOn(x)
  /\ UNCHANGED <<lists, thread_pool, delivered, stage, copy, tasks, cuts,
                 vetted, outcome, aborted>>

(* Bug: the dispatcher does not go back to its queue. *)
EndedInPlace(x, how) ==
  /\ outcome' = [outcome EXCEPT ![job[x].n] = how]
  /\ job' = [job EXCEPT ![x] = Idle]
  /\ UNCHANGED stage

Ended(x, how) ==
  /\ outcome' = [outcome EXCEPT ![job[x].n] = how]
  /\ job' = [job EXCEPT ![x] = Idle]
  /\ stage' = IF x = Dispatcher THEN "idle" ELSE stage

(* What leaves run_handlers is kept by the packaged_task on a worker, and  *)
(* nothing catches it on the dispatcher; the handlers left do not run.     *)
Escapes(x) ==
  /\ Ended(x, "escaped")
  /\ aborted' = (x = Dispatcher)
  /\ UNCHANGED <<lists, thread_pool, delivered, copy, tasks, cuts, vetted>>

(* The filter is asked outside the try.                                    *)
FilterThrows(x) ==
  /\ Busy(x) /\ FilterMayThrow(Asked(x), job[x].n)
  /\ Escapes(x)
  /\ UNCHANGED handled

(* The callback throws what is no std::exception.                          *)
CallThrows(x) ==
  /\ Busy(x) /\ FilterAccepts(Asked(x), job[x].n)
  /\ Starts(x)
  /\ Escapes(x)

EndHandlers(x) ==
  /\ job[x] # Idle /\ job[x].left = <<>>
  /\ Ended(x, "done")
  /\ UNCHANGED <<lists, thread_pool, delivered, copy, tasks, cuts, vetted,
                 handled, aborted>>

-----------------------------------------------------------------------------
DispatcherStep == Execute \/ Proceed \/ Halt \/ Passed \/ Dispatch

HandlerStep(x) ==
  Skip(x) \/ Call(x) \/ FilterThrows(x) \/ CallThrows(x) \/ EndHandlers(x)

Next ==
  /\ ~aborted
  /\ \/ \E h \in Handler : On(h)
     \/ \E mw \in Middleware : Use(mw)
     \/ \E u \in Update : Deliver(u)
     \/ DispatcherStep
     \/ \E w \in Worker : BeginTask(w)
     \/ \E x \in Runner : HandlerStep(x)

Spec == Init /\ [][Next]_vars

-----------------------------------------------------------------------------
(* Who was called when                                                     *)

Place(c) == CHOOSE i \in DOMAIN calls : calls[i] = c
Before(c, moment, n) == Called(c) /\ Place(c) <= cuts[moment][n]

(* A list of handlers in the order of their registration.                  *)
InOrder(q) ==
  \A i, j \in DOMAIN q : \A g, h \in Handler :
    i < j /\ q[i] = g /\ q[j] = h => Place(g) < Place(h)

Runs(n) == {handled[n][i] : i \in DOMAIN handled[n]}

(* The handlers of an update are started in the order of registration,     *)
(* each at most once, only handlers of its kind that accept it, none that  *)
(* was registered after the copy.                                          *)
RunsInOrder(n) ==
  /\ InOrder(handled[n])
  /\ \A h \in Runs(n) : /\ Before(h, "dispatch", n)
                        /\ KindOf[h] = delivered[n].kind
                        /\ FilterAccepts(h, n)

(* A handler that was registered before the update came in, and accepts    *)
(* it, is started, unless middleware halted the update or an earlier       *)
(* handler or filter threw its way out.                                    *)
NoneMissed(n) ==
  /\ RunsInOrder(n)
  /\ outcome[n] \in {"halted", "ignored"} => handled[n] = <<>>
  /\ outcome[n] = "done" =>
       \A h \in Handler :
         KindOf[h] = delivered[n].kind /\ FilterAccepts(h, n)
           /\ Before(h, "received", n) => h \in Runs(n)

NoHandlerMissed == \A n \in DOMAIN delivered : NoneMissed(n)

(* Whoever adds middleware and then a handler expects the handler to see   *)
(* only messages and callback queries the middleware let pass. It does,    *)
(* but for one that was between the two copies when both were added.       *)
VettedUnlessRaced ==
  \A n \in DOMAIN delivered : delivered[n].kind \in {"message", "callback"} =>
    \A h \in Runs(n) : \A mw \in Middleware :
      Called(mw) /\ Place(mw) < Place(h) =>
        <<n, mw>> \in vetted \/ ~Before(mw, "vetting", n)

-----------------------------------------------------------------------------
(* What is true of a message at Telegram                                   *)

Is(u, id) == u.content # None /\ u.content.id = id

Type(u) == ChatTypeOf[u.chat]

(* A command that names another bot is not for this one.                   *)
ForMe(text) == Len(text) > 3 /\ text[3] = "@" => text[4] = "me"

WrittenText(u) == IF Is(u, "messageText") /\ u.content.text # None
                  THEN u.content.text ELSE NoText

(* What is true of a message or an edit. None is of a business connection: *)
(* those come as updateNewBusinessMessage, which process_update drops.     *)
Truth(u) ==
  [command     |-> IsCommand(WrittenText(u)) /\ ForMe(WrittenText(u)),
   privateChat |-> Type(u).id = "chatTypePrivate",
   group       |-> Type(u).id = "chatTypeBasicGroup"
                   \/ (Type(u).id = "chatTypeSupergroup" /\ ~Type(u).is_channel),
   channel     |-> Type(u).id = "chatTypeSupergroup" /\ Type(u).is_channel,
   text        |-> WrittenText(u) # NoText,
   media       |-> u.content # None /\ u.content.id # "messageText",
   photo       |-> Is(u, "messagePhoto"),
   video       |-> Is(u, "messageVideo"),
   document    |-> Is(u, "messageDocument"),
   audio       |-> Is(u, "messageAudio"),
   voice       |-> Is(u, "messageVoiceNote"),
   videoNote   |-> Is(u, "messageVideoNote"),
   animation   |-> Is(u, "messageAnimation"),
   sticker     |-> Is(u, "messageSticker"),
   pollMsg     |-> Is(u, "messagePoll"),
   locationMsg |-> Is(u, "messageLocation"),
   contactMsg  |-> Is(u, "messageContact"),
   dice        |-> Is(u, "messageDice"),
   bot         |-> u.sender \in Bot,
   outgoing    |-> u.outgoing,
   incoming    |-> ~u.outgoing,
   reply       |-> u.reply_to # 0,
   forwarded   |-> u.forward_origin # None,
   regex       |-> \E i \in DOMAIN WrittenText(u) : WrittenText(u)[i] = Pattern,
   chatId      |-> u.chat = AChat,
   userId      |-> u.sender = AUser,
   thread      |-> u.thread = AThread,
   in_thread   |-> u.thread # 0,
   webAppData  |-> Is(u, "messageWebAppDataReceived"),
   business    |-> FALSE]

(* Filters that look at what an edit does not bring.                       *)
LostByEdits == {"bot", "outgoing", "incoming", "reply", "forwarded", "userId",
                "thread", "in_thread"}

Unclassified(u) == u.content # None /\ u.content.id \notin DOMAIN MediaTypeOf \cup {"messageText"}

(* Where a filter may be wrong: about an edit; about contents CppGram does *)
(* not know, web app data among them; about a command for another bot.     *)
Excused(f, u) ==
  \/ u.kind = "edited" /\ f \in LostByEdits
  \/ Unclassified(u) /\ f \in {"media", "webAppData"}
  \/ f = "command" /\ ~ForMe(WrittenText(u))

(* The filters say of a message or an edit what is true of it.             *)
FiltersTellTruth(u) ==
  \A f \in FilterName : Excused(f, u) \/ Verdict(ToMessage(u))[f] = Truth(u)[f]

(* A message that passes the filter of a medium has it, unless TDLib sent  *)
(* the content without it or a photo without sizes.                        *)
MediaPresent(u) ==
  ToMessage(u).media # "None" =>
    ToMessage(u).payload \/ u.content.payload \in {None, "empty"}

(* TDLib knows more types of entities and buttons than CppGram, which also *)
(* forgets that a query is for the current chat.                           *)
KnownEntity(e) == e # None /\ e.type \in EntityTypes

KnownButton(b) ==
  b.type # None /\ b.type.id \in {"Url", "Callback", "SwitchInline"} /\ b.type.data # NoText

Relayed(b) == [b EXCEPT !.type = IF KnownButton(b) THEN [@ EXCEPT !.current = FALSE]
                                                   ELSE None]

(* A bot that sends on the entities and the keyboard of a message sends    *)
(* what it got, but for what CppGram does not know.                        *)
EchoFaithful(u) ==
  LET m == ToMessage(u) IN
  u.kind = "message" =>
    /\ u.content # None /\ HasText(u.content) =>
         ConvertFormattedText(m.entities) =
           Among(u.entities, {e \in Elements(u.entities) : KnownEntity(e)})
    /\ u.reply_markup # None /\ u.reply_markup.id = "InlineKeyboard" =>
         BuildReplyMarkup(m.reply_markup).rows =
           [i \in DOMAIN u.reply_markup.rows |->
              [j \in DOMAIN NotNull(u.reply_markup.rows[i]) |->
                 Relayed(NotNull(u.reply_markup.rows[i])[j])]]

MessagesTellTruth ==
  stage \in {"vetting", "dispatch"} /\ delivered[Last].kind \in {"message", "edited"} =>
    LET u == delivered[Last] IN
    FiltersTellTruth(u) /\ MediaPresent(u) /\ EchoFaithful(u)
=============================================================================
