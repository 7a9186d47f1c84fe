# CppGram in TLA+

A verification development for CppGram, the C++ Telegram client framework in
this repository. It contains TLA+ models of the library's concurrent and
stateful parts, TLC configurations that check them, and theorems about them
checked by TLAPS. Every definition translates source code; `PROJECT.json` gives
the file and the lines of each.

Paths below are relative to the repository. `client.cpp` is
`src/backend/client.cpp`, `thread_pool.hpp` is
`include/cppgram/thread_pool.hpp`, and so on.

## 1. The system

### 1.1 How it hangs together

CppGram offers one C++ API, `Client`, over TDLib. Beside that it has an MTProto
engine of its own, which shares nothing with the TDLib side.

```
            TDLib (external)                       Telegram HTTP Bot API (external)
        answers + updates | ^ requests                     ^
                          v |                              |
   receive thread --- TdLibAdapter <--- send_sync --- ClientImpl operations
        |                                             ^      |  user_cache_, chat_cache_,
        | update handler                     handlers,|      v  chat_type_cache_
        v                                     owner   |   (cache_mtx_)
   update_queue_ --> dispatcher thread --> middleware --> handlers
                          |     |                          on a ThreadPool worker
                          |     +-- auth_state, auth_cv_    or on the dispatcher
                          v                 ^
                     cache updates     login / loginBot / run / stop / logout

   MtprotoClient --> Session (ids, sequence numbers, AES-IGE envelopes)
        |--> TcpConnection --> transport codec (abridged, intermediate, padded, full)
        `--> DatacenterManager
```

Four kinds of thread meet in one `ClientImpl`: TDLib's receive thread (one per
adapter), the dispatcher (one per client), the pool's workers (none by default)
and the application's threads, which log in, run the event loop, resize the pool
and destroy the client. A handler may call any operation from the worker or the
dispatcher it runs on, and may be the last to hold the client.

### 1.2 Inventory

| component | state | operations | meets | what makes it correct |
|---|---|---|---|---|
| **ThreadPool** (`thread_pool.hpp`) | task queue, `stop_`, `queue_mutex_`, two condition variables, two atomic counters | `enqueue`, worker loop, `wait_all`, `shutdown`, counters | ClientImpl | a task runs once, in order; counters are exact; `wait_all` and `shutdown` return when they may, and then |
| **TdLibAdapter** (`tdlib_adapter.hpp`) | `handlers_`, `next_id_`, `update_handler_`, `running_`, receive thread | `send`, `send_sync`, `start`, `stop`, receive loop | TDLib, ClientImpl | an answer reaches who asked, once and in time; updates keep their order; `stop` is final |
| **ClientImpl, updates** (`client.cpp`) | `update_queue_`, `dispatcher_running_`, `thread_pool_`, reference counts | dispatcher loop, `dispatch_*`, `setThreadPoolSize`, `getThreadPoolSize`, destructors | adapter, pool, handlers | no update lost or reordered while the client exists; a destroyed client is quiet; destruction ends |
| **ClientImpl, handlers** (`client.cpp`) | a list of handlers and filters per kind of update, `handlers_mtx_` | `onMessage`, `onEditedMessage`, `onDeletedMessages`, `onCallbackQuery`, `use`, `run_handlers` | middleware, filters, pool | a handler registered in time is called, once, in order, for what its filter accepts and nothing else |
| **ClientImpl, authorisation** (`client.cpp`) | `auth_state`, callbacks, `auth_cv_`, `event_loop_running`, `run_cv_` | `login`, `loginBot`, `logout`, `handle_auth_state`, `run`, `stop` | dispatcher, TDLib | `login` returns only when authorised; the state shown is current; `login` and `run` end when they may |
| **ClientImpl, requests** (`client.cpp`) | the three caches | about 80 operations of `IBackend` | adapter, HTTP, dispatcher | what returns normally was done, or is a message that was taken on and may still fail, or a method of an entity without a client; nothing is done twice unawares; caches not stale; every call ends |
| **Session** (`session.cpp`) | key, salt, `last_msg_id_`, `content_seq_no_`, time offset | `generate_msg_id`, `generate_seq_no`, pack and unpack | MtprotoClient | identifiers grow strictly, sequence numbers follow |
| **Transport codecs** (`transport.cpp`) | `buffer_`, `out_seq_no_` | `encode_packet`, `decode_packets`, `reset` | TcpConnection | what was encoded is decoded, however the stream is cut |
| **MtprotoClient, TcpConnection, DatacenterManager** (`mtproto_client.cpp`, `network.cpp`) | socket, `rx_buffer_`, codec, active datacenter and protocol | `connect`, `disconnect`, send, receive, `ping` | Session, codecs | no byte of one connection in the next; the client knows where it is connected |
| **PluginManager** (`plugin.cpp`) | map of plugins | register, unregister, unload all, look up | Client, plugins | every loaded plugin is unloaded once |
| **AccountPool** (`account_pool.cpp`) | accounts, keys, round-robin position, `mutex_` | add, remove, get, next, `broadcast` | Client | equal turns among accounts that come and go; the pool is never left locked |
| **Entities** (`entities.cpp`) | a weak pointer to the client | 30 methods that forward to operations | ClientImpl | a method acts if the entity has its client, and touches nothing if not |
| **Session storage** (`storage.hpp`, `storage.cpp`) | values and peers; in maps with an index of usernames, or in two tables of SQLite | `set_value`, `get_value`, `delete_value`, `save_peer`, `get_peer`, `get_peer_by_username`, `close` | the client keeps one and hands it out | both implementations keep one promise, of what a text is up to its first NUL in the file; a name leads to a peer that has it; what was written survives a crash |
| **MiddlewarePipeline** (`middleware.hpp`) | list of middlewares, a mutex | `use`, `execute` | dispatcher | each runs once, in order, and may halt |
| **Filters** (`filters.cpp`, `filters.hpp`) | none | 31 predicates and their combination by and, or, not | handlers | a filter says what is true of the message |
| **Conversions** (`td_conversions.hpp`, `client.cpp`) | none, but the two caches a message is completed from | TDLib's messages, contents, entities, keyboards and queries to CppGram's, and entities and keyboards back | dispatcher, requests | what a handler sees, and sends on, is what was sent |
| **Coroutines** (`coro.hpp`) | promise, continuation | `Task`, `sync_wait`, the `asyncX` of Client | Client | what is not awaited is not done; results reach the awaiter |
| **MetricsCollector** (`metrics.cpp`) | counters | record, snapshot | nobody | counts |
| **Pure code** | none | cryptography, TL reading and writing, rich messages, errors, obfuscated transport, CLI, logging | various | conversions are right |

The behaviours that are hard to test, each with its line and the properties that
watch it, are the `hazards` of `PROJECT.json`. They fall into five groups.

* *Notifications outside the mutex.* The pool, `auth_cv_` and `run_cv_` are all
  notified without holding the mutex their waiter uses. A waiter that has tested
  its predicate and does not yet sleep misses them.
* *Teardown while busy.* `~Client` stops the adapter first, so that handlers in
  `send_sync` are never answered; then the pool is joined, then the dispatcher,
  which may meanwhile enqueue on a pool that is shut down; and the last reference
  may be dropped by a handler, or by an account pool that holds its mutex.
* *State used after it may have changed.* `auth_state` is loaded again after each
  wait; `getUser` writes to the cache what it was answered earlier; a handler in
  the adapter holds a reference into its caller's stack; the lists of middleware
  and of handlers are copied at two moments and used after both; a storage in
  memory keeps the name a peer has given up; which `Chat` is cached, with a client
  or without, depends on whether an update or an answer came first.
* *Partial failure.* A reply of the HTTP Bot API is lost after the message was
  sent; a message TDLib has taken on fails later; a send of `TcpConnection` stops
  half way; `connect` fails after it has replaced what the client remembers; a
  statement of SQLite fails and nobody looks.
* *Boundaries.* Lengths that are not whole words, a clock that goes back, a chunk
  that holds no packet or several, a text with a NUL in it.

## 2. The modules

| module | models | composed with |
|---|---|---|
| `TaskPool` | what a pool promises: FIFO, at most `Size` at a time, once each, closing | refined by `ThreadPool` |
| `ThreadPool` | `cppgram::ThreadPool` | implements `TaskPool` |
| `ThreadPoolProofs` | theorems about `ThreadPool` | |
| `TdlibAdapter` | `detail::TdLibAdapter` and its threads | |
| `TdlibAdapterProofs` | theorems about `TdlibAdapter` | |
| `ClientEvents` | dispatcher, pool, handlers and the client's owner | takes the pool as `TaskPool` and the adapter as `TdlibAdapter` describe them |
| `ClientEventsProofs` | theorems about `ClientEvents` | |
| `TdConversions` | conversions between TDLib's objects and CppGram's | extended by `Filters` |
| `Filters` | the predefined filters and their combination | extended by `MessageDispatch` |
| `MessageDispatch` | registration, middleware, filters and handlers of one update after another | extends `Filters`; the queue before it and the end of the client are the subject of `ClientEvents` |
| `MessageDispatchProofs` | theorems about `MessageDispatch` | |
| `ClientLogin` | `login`, `loginBot`, `logout`, `handle_auth_state`, `run`, `stop` | |
| `RequestCatalog` | the operations of `IBackend`, by shape | used by `ClientRequests` |
| `ClientRequests` | callers of operations, HTTP, the caches, and the dispatcher's writes to them | takes the adapter as `TdlibAdapter` describes it |
| `ClientRequestsProofs` | theorems about `ClientRequests` | |
| `SessionStore` | what a session storage promises: a view of a place, calls that take effect at one moment, durability | refined by `SessionStorage` |
| `SessionStorage` | `MemorySessionStorage`, `SqliteSessionStorage`, `create_storage` | implements `SessionStore` |
| `SessionStorageProofs` | theorems about `SessionStorage` | |
| `Session` | identifiers and sequence numbers | extended by `MtprotoClient` |
| `Framing` | the four framings | extended by `MtprotoClient` |
| `MtprotoClient` | `MtprotoClient` with its connection, its codec and its session | extends `Session` and `Framing` |
| `MtprotoClientProofs` | theorems about `MtprotoClient` | |
| `PluginManager` | the plugins of each client | extended by `AccountPool` |
| `AccountPool` | `AccountPool`, the threads that use it, and the lifetime of the clients it shares | extends `PluginManager` |
| `AccountProofs` | theorems about `AccountPool` and `ClientLogin` | |
| `MC*` | the instances TLC checks; their constants are in the `.cfg` files. the updates and filters of `MessageDispatch` are in `MCMessageDispatch`. No symmetry: it is unsound for the liveness most runs check, and the others are small | |

Definitions whose comment begins with `Bug:` describe code the repository does
*not* contain: a guard dropped, a step omitted. They stand beside the definition
they vary, are not part of any specification, and are what `mutants` in
`PROJECT.json` substitutes to see the corresponding property fail.

### 2.1 ThreadPool

State and code: `tasks`, `stop`, `active_tasks`, `completed_tasks` are the fields
of those names; `wpc` and `cpc` say where each worker and each calling thread is.
A critical section of `queue_mutex_` is one action, since nobody else sees its
middle; everything outside it is a step of its own, so that `--active_tasks_`,
`++completed_tasks_` and the notification (`Deactivate`, `Complete`,
`NotifyCompletion`) are three. A waiter of `wait_all` whose predicate is false
passes through `waitBlock` before it is `blocked`: the worker does not hold the
mutex when it decrements and notifies, and may do so exactly there. Spurious
wake-ups are actions, but nothing relies on them.

`TaskPool` is the abstract view. The refinement takes `pending` from the queue,
`running` from the workers that hold a task, and `finished` from the calls that
were made; `ImplementsTaskPool` says that every step of the pool is a step of
that promise or invisible to it.

### 2.2 TdlibAdapter

`TakeId`, `Register`, `Post`, `GetResult`, `Resume` are the steps of `send` and
`send_sync`; `LoopAgain`, `ReceiveObject` or `ReceiveTimeout`, `Lookup`,
`CallHandler` those of the receive thread; `SetUpdateHandler`, `Start`, `Stop`,
`Join` those of the owner. A handler is represented by the caller whose promise it
refers to. TDLib is external: a set of requests, a stream of what `receive`
will hand out, answers in any order with updates between them.

### 2.3 ClientEvents

An update is its place in the order of arrival and its kind: a message, which
goes through middleware and to the pool if there is one, or anything dispatched
inline. `TestRunning`, `Take`, `Process`, `Enqueue` and so on are the dispatcher;
`locked` is `thread_pool_mtx_`, which `setThreadPoolSize` holds while it joins the
old workers. Handlers send requests through a `Client&` or through an entity that
locks its weak pointer for the time of the call (`holders`), or ask for the size of
the pool, or set it (`AskResize`, `HandlerResizes`): on the dispatcher that works,
but a worker joins itself, which throws and leaves the pool shut down or broken
(`HandlerSelfJoin`, `selfJoin`). The owner resizes, then destroys: `StopReceiving` (`~Client`),
`Release`, and `ShutdownPool` to `JoinDispatcher` (`~ClientImpl`). What the C++
runtime would turn into `std::terminate`, an exception on the dispatcher thread or a
thread that joins itself, sets `aborted` and ends the behaviour.

Which handlers an update has, which of them are asked and what they are given is
the subject of `MessageDispatch`.

### 2.4 MessageDispatch, Filters, TdConversions

`On` and `Use` are `onMessage` and its like and `use`, on any thread at any moment
(`calls` remembers their order). `Deliver` is an update reaching the dispatcher,
`Execute` the copy of the middleware, `Proceed`, `Halt` and `Passed` its verdicts,
`Dispatch` the copy of the handlers and, for messages and callback queries with a
pool, `enqueue`; `BeginTask` is the worker. A job asks one handler at a time:
`Skip` is a filter that refuses, `Call` a handler that returns, `CallThrows` and
`FilterThrows` the exceptions. The loop catches only around the handler, so that a
filter that throws ends the task or, on the dispatcher, the process (`Escapes`).
Edits and deletions never meet the middleware, and the dispatcher handles them
itself.

`TdConversions` translates what TDLib sends into what filters and handlers can
tell apart: the kind of a content and its presence, entities, buttons, chat types,
and, where a text matters, a sequence of tokens such as a command or the name of a
bot. It has both directions of entities and inline keyboards. `Verdict` in
`Filters` is every predefined filter on such a message. A message is completed
from the caches by `EnrichSender` and `LookupChatType`; an edit is built from the
little that an update of an edited message brings (`EditedMessage`). Loops that
leave elements out (`if (!e || !e->type_) continue`) are `Among(s, S)`, the elements
of a sequence that are in a set, a recursive function.

### 2.5 ClientLogin

TDLib's authorisation state machine is external (`Reply`): a request that fits may
succeed or be refused, any other is ignored, and a session found in the database
resumes anywhere. `HandleTake`, `HandleStore`, `HandleNotify`, `HandleAct` are
`handle_auth_state`; the owner's places (`firstTest`, `firstBlocking`, ...) are those of
`wait_for_auth`'s two uses, of `login` and of `run`. Each load of `auth_state`
after a wait is a step, since `logout` on another thread may store in between.
`login` assigns its callbacks without a lock while the dispatcher may read them: a
data race, modelled as either value or a crash (`Raced`).

### 2.6 ClientRequests and RequestCatalog

The catalogue lists every operation with its *shape*: which cache it writes and
whether it looks there first, whether a bot tries HTTP before TDLib, whether it
changes anything at Telegram, whether it throws on an answer of the wrong type,
and what it asks of TDLib. Operations of one shape are the same control flow, and
`ClientRequests` runs any shape on any thread: `Look`, `Post`, `Ask`, `TdAnswer`,
`Finish` (`FinishCount` for the chain of three requests in
`getChatMemberCount`). It also lists the methods of entities and the coroutines by
the operation they forward to. A method returns a default and does nothing if the
weak pointer of its entity is empty: because the entity has outlived its client
(`CallExpired`), or because it was given none (`CallUnbound`). The latter is so of
every `Chat` that `updateNewChat` puts into the cache (`client.cpp:344` converts it
without the argument `backend`; `Introduce`), also over one that had a client, and
`getChat` returns what is cached (`Look`): `chat_cache` tells the two apart,
`unbound` has the chats the program holds such a `Chat` of, `introduced` those whose
update was processed. A coroutine does nothing until its `Task` is awaited
(`CreateTask`, `AwaitTask`, `DropTask`).

TDLib answers a request to send or forward a message when it has taken the message
on, and sends it later (`sending`, `TdSends`); the update that tells how that went
has no case in `process_update` and is dropped (`UpdateIgnored`). A message that
cannot be forwarded is null in the answer, of which `forwardMessage` makes a stub.

The owner destroys the client when nobody uses it (`Destroy`); a client destroyed
while busy is `ClientEvents`' subject. The dispatcher's `UpdateUser`, `UpdateNewChat`
and `UpdateNewMessage` write and read the same caches. Every access to a cache is
under `cache_mtx_` and is one step. An answer passes from TDLib to its caller in
one step, for `TdlibAdapter` shows that it reaches that caller and no other; what
delays it further cannot be told from a caller that has not gone on.

### 2.7 SessionStorage and SessionStore

`impl` says which implementation a storage object is. A call of a storage in
memory holds its mutex throughout and is one step (`MemorySavePeer`,
`MemoryGetPeerByUsername`, ...). In SQLite `Prepare` is followed by the step of
the statement, and between them another connection to the same file, or a `Crash`,
may come. The step may fail at any time (`StepFails`): the file is locked, or not
writable, or the disk is full; since the code ignores the results of
`sqlite3_prepare_v2` and `sqlite3_step`, the call returns as if it had written or
found nothing. After `close` the calls of a SQLite storage do nothing
(`CallClosed`), those of one in memory go on with empty maps. `answer` remembers
(`how`) whether a call was done, failed or found the handle closed, which the
caller is not told.

A key, value or username is bound to a statement by `c_str()` and the length -1, and
read from a row as a C string. `CStr` is what that leaves of a text, the part before
its first NUL, and `Cut` applies it in each statement; memory keeps a text whole.

`SessionStore` is the abstract view: every storage is a view of a *place*, the
file or the object itself, and a call takes effect on that place at one moment or,
if the storage is closed or the file fails, not at all; the file keeps of a text
what `InFile` says, and survives a crash. Both implementations are shown to
implement it (`ImplementsStore`) with `CStr` for `InFile`. That is less than
`storage.hpp:37` says: `KeepsArbitraryStrings` is the promise with the texts kept
whole, which only memory keeps. `LookupByName` then says what of
`get_peer_by_username` the two do not share.

### 2.8 MtprotoClient, Session, Framing

One thread uses the client. The byte stream is modelled in units: the length
field in front of a payload is one unit, which carries the length it announces,
and payload units know their packet and their place, so that a misread stream is
visible. The network cuts the stream anywhere, a send may stop after any unit, and
the clock is any number at every message. `Disconnected` and `Connect` follow the
order of the assignments in `connect`: datacenter, protocol, codec, then the
attempt.

### 2.9 AccountPool and PluginManager

A thread holds at most one client at a time (`client`). Calls of the pool that end
under its mutex are one step; `remove_account`, and `add_account` for an account
that exists, go through more when they drop the last reference to a client: they
keep `mutex` while `UnloadAll` runs the `on_unload` of its plugin (`~Client`) and
`JoinHandlers` waits for its handlers (`td.stop`, `~ClientImpl`). A thread that
drops the last reference elsewhere (`Release`, `SendEnds`) takes the same steps
without the mutex. Hooks and handlers may use the pool themselves (`HookAsks`,
`HandlerAsks`) and then wait for the mutex. `Without` is the `std::remove` of
`remove_account`, a recursive function. The specification is `FairPoolSpec`, the
names begin with `Pool` where `PluginManager` or `ClientLogin` have their own.

`register_plugin`, `unregister_plugin` and `unload_all` hold their own mutex only
for the map; the hook follows as a step of its own (`OnLoadReturns`,
`OnLoadThrows`, `OnUnload`, `OnUnloadAll`), so that plugins come and go while
hooks run. Plugins of different names share nothing, and the model has those of
one name.

## 3. What the runs show

| run | instance | shows |
|---|---|---|
| `thread_pool` | 2 workers, 2 callers, 2 tasks | `CountersExact`, `WaitAllSound`, `ShutdownDrains`; the refinement `ImplementsTaskPool`; `AcceptedIsRun` and `ShutdownReturns` although notifications follow the unlock |
| `tdlib_adapter` | 2 callers, 3 requests, 2 updates | `DeliverySound` (each promise set once, in time, by the answer to its own request; no answer lost; updates in order), `QuietAfterStop`; `SendSyncReturns` unless stopped |
| `client_events` | 2 workers, 3 updates, resizing and destruction at any moment | `StartsInOrder` per kind, `DestructionSafe`; `UpdateIsHandled`, `DestructionEnds` |
| `message_dispatch` | 5 handlers, a middleware, 2 plain updates or one of 90 | `NoHandlerMissed`, `VettedUnlessRaced`, `MessagesTellTruth` (what filters say of a message, and what a bot that sends it on sends, is what was sent) |
| `client_login` | one logout and one stop at any moment | `LoginSound`, `FollowsTdlib` (the state shown is TDLib's; an answer reaches TDLib in its state; only the unprepared are terminated); `LoginEnds`, `StopEndsRun` |
| `client_requests` | 2 callers, 2 operations of any shape, 3 updates | `CachesSound` (messages are described; a profile is stale only if overtaken), `EffectsKnown` (normal means done, but for the exceptions below; twice only unheard); `OperationsEnd` |
| `session_storage` | 2 storages in memory or on one file, texts with and without a NUL, 5 calls, failing statements, a crash | `LookupByName`; the refinement `ImplementsStore` |
| `mtproto_client` | 2 connects, 2 messages, 2 packets, any framing | `NumbersFollow`, `StreamsIntact` (what is received was served, and what was sent can be decoded), `ActiveDcIsServed` |
| `account_pool` | 2 threads, 2 accounts, 2 clients, 2 plugins of one name on the first, 3 turns, one use of the pool by a handler | `EqualTurns` although the index is never reset, with as many keys as accounts, `UnloadedOnce` except for a plugin evicted by another's failing `on_load`; `PoolIsReleased` unless the client destroyed under the mutex uses the pool |

Three runs show where the code does not do what a comment or an example says:

| run | property | what happens |
|---|---|---|
| `thread_pool_wait_returns` | `WaitAllReturns` | `wait_all` "blocks until all tasks have finished" (`thread_pool.hpp:129`), but a worker decrements `active_tasks_` and notifies without `queue_mutex_`: between the waiter's test and its sleep the notification is lost, and it blocks although everything has finished |
| `client_login_stop` | `StopIsGraceful` | a handler's `stop()` before `run` has set its flag, or between its test and its sleep, is forgotten, where the examples promise a graceful shutdown |
| `mtproto_client_receive` | `ReceivedInOrder` | `receive_packet` passes the whole of `rx_buffer_` to a codec that has kept it already: a packet that comes in two chunks is corrupted, and of two in one chunk the second is lost |

Four more statements fail in the same way. Each is a definition beside the
properties it contradicts; TLC shows a behaviour when the component's configuration
names it in place of its properties.

| module | definition | what happens |
|---|---|---|
| `ClientRequests` | `EntityMethodsAct` | `README.md:206` offers `chat.banMember()`. A program that asks `getChat` for a chat after its `updateNewChat` gets the cached `Chat` without a client (`client.cpp:344`, `670`): its methods (`entities.cpp:119-181`) do nothing and return a default while the client is alive |
| `SessionStorage` | `KeepsArbitraryStrings` | `set_value` "persists an arbitrary string key-value pair" (`storage.hpp:37`), but in a file key and value end at their first NUL (`storage.cpp:80-81`, `96-100`): the rest is lost, and keys that agree up to a NUL are one |
| `ThreadPool` | `CompletedWhenAwaited` | `tests/phase1_smoke.cpp:626` asserts right after `wait_all()` that `completed_tasks()` has all tasks, but a worker decrements `active_tasks_` before it counts its task, and `wait_all` may return in between |
| `MtprotoClient` | `SentIsDecoded` | `README.md:329-335` encodes five bytes with the abridged codec and decodes the result: it announces two words and sends five bytes, so that `decode_packets` waits for three more and returns nothing |

The passing runs state such places exactly rather than hide them:

* `LoginEnds` and `StopEndsRun` except a notification that fell between test and
  sleep (`lost`, `stopLost`), and nothing else.
* `CachesSound` names the one interleaving of `getUser` and `updateUser` that
  leaves a stale profile (`overtaken`).
* `UpdateIsHandled` and `DestructionEnds` except a handler that asks for the size
  of the pool while `setThreadPoolSize` joins it under `thread_pool_mtx_`, one that
  sets it from a worker, and one that waits for an answer of a stopped adapter.
* `VettedUnlessRaced` excepts a message that was between the copy of the middleware
  and the copy of the handlers when both were registered.
* `MessagesTellTruth` names (`Excused`) the filters that are wrong about edits,
  which carry no sender, reply or direction, so that `incoming()` accepts a bot's
  own edits; about web app data and contents CppGram does not know; and about a
  command for another bot. `EchoFaithful` names what buttons and entities lose.
* `EffectsKnown` says when an operation that returns normally was not carried out:
  it is a message that TDLib has taken on, which may still be sent or fail, since
  `updateMessageSendFailed` is dropped; or one it could not forward, of which the
  caller gets a stub; or the method of an entity whose client is gone or of a chat
  the cache had from `updateNewChat`. And when it was carried out twice, or although
  it throws: when the reply of the HTTP Bot API was lost, or the answer was of a
  type the operation does not expect.
* `LookupByName` names where the two storages differ: a name given up still leads
  to its former holder in memory; the empty name finds nobody in memory and anyone
  without a name in SQLite; names that agree up to a NUL are one in the file; a
  SQLite storage that is closed, or whose statement fails, finds nothing.
* `ImplementsStore` lets a call on a file be lost whenever its statement fails: the
  code makes no attempt to notice.
* `StreamsIntact` excepts a payload that is no whole number of words in the
  abridged framing (the example of `README.md:329-335`).
* `CountersExact` says that `completed_tasks()` lags behind the executed tasks by
  the workers that have still to count theirs.
* `UnloadedOnce` and `PoolIsReleased` name (`evicted`, `SelfBlocked`) what
  `plugin.cpp:24` and `account_pool.cpp:20` leave open.

Reading the code also turned up, without a run:

* `setReaction`, `answerWebAppQuery` and `getBusinessConnection` send nothing and
  return; `getChatMemberCount` returns 0 when TDLib refuses; `unbanChatMember` sets
  the status of a member rather than that of someone who left.
* Edits and deletions bypass the middleware that `README.md:340` calls global, and
  what middleware stores in its context or changes in the message never reaches a
  handler: handlers get the dispatcher's own copy.
* A write whose statement fails, for a lock, a file that is not writable or a full
  disk, is dropped silently (`storage.cpp:82`, `116`, `138`), and `storage.hpp:138`
  speaks of a WAL mode that no pragma turns on. A build without SQLite keeps what
  was meant for a file in memory, with a warning in the log (`storage.cpp:216-218`).
* A message is returned with the temporary identifier TDLib gives it before it is
  sent; `updateMessageSendSucceeded`, which has the final one, is dropped.
* `README.md:303-314` has a handler with `Filters::business()` receive messages of
  business accounts, but `process_update` drops `updateNewBusinessMessage`, so that
  no message of such an account reaches a handler.
* Nothing in the library reads or writes the storage a client is given.

### 3.1 Bounds, and why they are enough

* *ThreadPool.* Two of each are the least that make workers race for a task, a
  waiter meet another caller's task, and a shutdown meet an enqueue and another
  shutdown. The safety theorems hold for every number. The violation run needs
  only one of each.
* *TdlibAdapter.* Identifiers are never reused, so two callers and one repeated
  call (three requests, one of them the constructor's) exhaust what can be
  confused; two updates suffice for an order.
* *ClientEvents.* Three updates: one in a handler, one in the pool's queue, one at
  the dispatcher, with two workers.
* *MessageDispatch.* Two of the five handlers and the middleware, in any order and
  at any moment, are the least that can be ordered, overtake each other between
  the copies, or be missed; two updates can be in the dispatcher and on a worker
  at once. Filters and conversions are checked with single updates that show each
  content, chat type, entity, button and field: they keep no state between updates.
* *ClientLogin.* `logout` and `stop` may each come once (`MaxForeign`), at any
  moment; everything else is bounded by TDLib's own states.
* *ClientRequests.* Two operations are the two that can overlap; two versions make
  stale and fresh; three updates are a user, a chat and a message about both, or a
  user, a newer user and a chat, with the update about a message that was sent in
  the place of any. One user and one chat are enough because no step relates two.
* *SessionStorage.* Two storages contend for a file, or do not; two peers exchange a
  username; keys, values and names come without a NUL, with one further on and, the
  names, at the beginning, so that texts agree up to it; five calls file a name,
  give it up, reuse it and look it up, with a `close` or a crash in between.
* *AccountPool.* Two threads race for an account, a plugin or the last reference;
  two plugins are the least of which one can evict the other; plugins are loaded
  into one of the clients (`Plugged`). Three turns go once round two accounts and
  begin again, or straddle a change of the accounts. Clients and plugins are
  numbered in the order of their first use, which loses no behaviour but their
  names.
* *MtprotoClient.* Two connections, so that bytes of the first could reach the
  second; two packets in one or both directions (`MaxPackets`), since a codec looks
  at one packet and what follows it; a word of two units instead of four bytes
  leaves one length that is not a whole word. Clock values 0 and 1 with
  identifiers that go on beyond them make the clock advance, stand still and go
  back.

The two configurations of `ThreadPool` check for deadlock: a caller can always
make another call. The others say `CHECK_DEADLOCK FALSE`, because those systems do
stop: callers have made the calls the bound allows, a client is destroyed, a
login waits for an answer that never comes. There liveness properties say what
must still happen.

### 3.2 Fairness

* Threads of the library that can take a step do (weak fairness), except that
  `ThreadPool`, `ClientEvents` and `AccountPool` ask strong fairness of an attempt
  to take `queue_mutex_`, `thread_pool_mtx_` or `mutex_`: no thread that finds it
  free again and again is passed over for ever.
* Callables, handlers and login callbacks return, unless the model says what they
  wait for.
* TDLib answers every request that reaches it, and closes once it is logging out.
  An HTTP request ends within `CURLOPT_TIMEOUT` (10 s).
* After `login` the owner calls `run`, as each example does.
* Nobody has to make a further call, nothing has to wake up spuriously, no update
  has to arrive, and nobody has to stop or destroy anything.

`MtprotoClient` blocks in calls of its one thread on a network that promises
nothing: it has safety properties only. So have `MessageDispatch`, whose
progress is `UpdateIsHandled` of `ClientEvents`, and `SessionStorage`, whose calls
hold one mutex and wait for nothing.

## 4. What is proved

| theorems | module | for every |
|---|---|---|
| `TypeCorrect`, `CountersAreExact`, `RunsAtMostOnce`, `WaitAllIsSound`, `ShutdownHasDrained`; `ThreadPoolImplementsTaskPool` | `ThreadPoolProofs` | finite nonempty set of workers, any callers, any tasks |
| `TypeCorrect`, `Delivery`, `Quiet` | `TdlibAdapterProofs` | callers, number of requests and updates |
| `TypeCorrect`, `InOrder`, `Destruction` | `ClientEventsProofs` | workers, number of updates |
| `TypeCorrect`, `NoneIsMissed`, `Vetted` | `MessageDispatchProofs` | handlers, filters, middleware, updates, workers, number of calls |
| `TruthTold` | `MessageDispatchProofs` | updates of the shapes TDLib sends, with any texts, entities, keyboards, users, chats and bots |
| `TypeCorrect`, `LoginReturns`, `Following` | `AccountProofs` | number of calls of `logout` and `stop` |
| `PoolTypeCorrect`, `TurnsAlwaysEqual`, `AlwaysUnloadedOnce` | `AccountProofs` | threads, accounts, clients, plugins, number of turns and of uses of the pool |
| `TypeCorrect`, `Caches`, `Effects` | `ClientRequestsProofs` | callers, users, chats, number of calls and updates |
| `TypeCorrect`, `Lookups`; `StorageImplementsStore` | `SessionStorageProofs` | storages, keys, values, peers, usernames, what cutting a text leaves, number of calls |
| `NumbersAlwaysFollow` | `MtprotoClientProofs` | clock, number of messages, connections, failures |
| `ActiveDcAlwaysServed` | `MtprotoClientProofs` | set of datacenters and sequence of attempts |
| `TypeCorrect`, `StreamsAlwaysIntact` | `MtprotoClientProofs` | framing, lengths and number of packets, size of a word, cuts of the stream, failures |

No property is inductive as it stands. Each module defines `IInv`, the conjunction of
`TypeOK`, the properties and what they rest on; TLC checks it on the instance of
the run before it is proved. `Init => IInv` and `IInv /\ [Next]_vars => IInv'` follow,
with one lemma per action or per conjunct, and `Invariance` is `Spec => []IInv`.

*ThreadPool.* The properties are not inductive by themselves. `AtMostOnce` needs
to know that a task is in one place at a time, for a task twice in the queue
would be run twice (`OnePlace`); `WaitAllSound` needs that what a waiter waits
for is never forgotten between acceptance and execution, since the predicate it
tests is only about the queue and a counter (`Waits`), and that this counter is
exact (`Counting`); `ShutdownDrains` needs that a worker leaves only a closed and
empty pool, and that the closer is alone in `shutdown` until all have left
(`Stopping`). `IInv` is their conjunction with `TypeOK`. There is one lemma per
action, and one for the many steps that touch neither queue nor counters
(`QuietStep`). The refinement is shown step by step under `IInv`: `TakeTask` is
`Start`, where the bound `Size` follows from the invariant because the worker that
takes a task held none; the return of `wait_all` is `WaitReturn`, where an
exact counter of zero means that nothing runs.

*MtprotoClient.* `NumbersFollow` compares every pair of messages, which no step
can see; `Bounded` says what a step can see, that every identifier given so far is
at most `last_msg_id_` and every sequence number at most twice the count.
`PackKeepsOrder` shows that packing keeps both, and each way to send is an
instance of it. `ActiveDcIsServed` is inductive with the types of the two
variables (`DcInv`).

`StreamsIntact` is about buffers of any length and a loop over them. What the loop
returns at an offset depends on the offsets above it only, so the recursion of
`Decode` defines a function, and each of its properties holds at every offset if it
holds where it holds above: an induction over a set of offsets. A complete packet
stays what it is when more bytes follow (`DecodesLonger`), and one more frame behind
a buffer decodes to one more packet (`DecodeAppend`): that keeps what was written
decodable, with `out_seq_no` the number of packets written in the full framing
(`SendInv`). In the other direction the decoder's buffer, `rx_buffer_` and the
network are together the frames served and not yet received, one behind the other,
as long as every chunk completed one packet (`ReceiveInv`); taking that packet takes
the first of those frames (`DecodeFirst`). And no unit in a buffer is of an earlier
connection, whatever the chunks were.

*TdlibAdapter.* That an answer reaches who asked depends on identifiers: each is
handed out once, and one that is posted is at TDLib, on its way back, in the
receive thread's hands, or nowhere any more, and never at two of these places
(`IdsInv`). With that, what a caller has registered and whether its promise is
still to be set follow from where it is (`CallersInv`); the receive thread erases
a handler before it calls it (`RecvInv`), hence once. The updates on their way are
those that follow the ones handed out (`UpdatesInv`).

*ClientEvents.* An update is in one of four places, and those further on their way
are the earlier ones: started, accepted by the pool, in the dispatcher's hand,
queued (`OrderInv`). Each action moves the first update of a place to the end of the
next, which `MoveKeeps` shows harmless once for all. The dispatcher starts a message
itself only if there is no pool, and then the pool has accepted none that it would
overtake (`WayInv`); that holds across a resize because only the holder of the mutex
ever sees the pool shut down (`LockInv`). `EndInv` follows the destruction, whose order makes
a destroyed client quiet.

*MessageDispatch.* A job owes precisely what must not be missed: the handlers still
in its list come after those started, and with them they are all that accept the
update and were registered in time (`Owed`). An update has one job at most
(`OneJobInv`), or two threads would start its handlers twice. `VettedInv` says that
middleware that was there when the list was copied has let the update pass or is
still to be asked. What a filter accepts is left open: nothing of this depends on it.

`MessagesTellTruth` does, and needs no more of the state than its types: it is a
statement about the conversions and the filters. `MessageFields` says what of an
update reaches the message, through three layers of assignments; the filters follow
by their kind (`MediaFiltersTell`, `ChatFiltersTell`, ...), the media because the
table of contents names none twice. That entities come back in their order is an
induction over sequences: leaving out before and after a conversion is leaving
out at once (`AmongMapped`, `AmongAmong`), and what is left converts back to
itself (`EntityReturns`). Rows of buttons follow button by button (`ButtonReturns`).

*AccountPool.* Turns: the index only ever grows, while the keys come and go, so the
invariant names where the present round began, anywhere, and what those it has
passed have had (`TurnsInv`); this survives `% size()` because a change of the keys
starts the count anew. `KeysInv` is why the index names an account: each key is
there once, and belongs to an account or to one that is just being removed, and
whoever removes it holds the mutex until both are gone (`RemovalInv`). Plugins: one
that was loaded is in the map of its client, or in the hands of exactly one thread
that unloads it, or was unloaded, once (`LifeInv`). This needs that a map belongs
to one thread once its client is being destroyed, since `unload_all` and the hook
are two steps (`OwnerInv`: the last reference is the last), and that a plugin is
never in the map of another client (`HomeInv`). `PlaceInv` says what a thread
holds at each step.

*ClientLogin.* Between TDLib, the dispatcher and the owner one thing is under way at
a time: a state, the handling of one that will be answered, a request, or an owner
that is about to send (`TokenInv`), until somebody logs out or TDLib ends the
session. Beyond that point there may be many, but they stay in an order that never
returns to the login: after `Ready` nothing is asked for, and `Closed` is the last
(`WayInv`). So `auth_state` shows what was handled (`AuthInv`), and a password is
asked for only before `Ready`, where the callbacks are those login stored
(`CallbacksInv`).

*ClientRequests.* Where a caller is tells what was carried out for it: what the Bot
API did unheard plus what TDLib's answer says, and TDLib has not carried out what is
pending (`CallerInv`). A `Chat` without a client, in the cache or in the program's
hands, comes from an `updateNewChat` that was processed (`UnboundInv`). The queue announces
users and chats before their messages (`QueueInv`), no version is newer than
TDLib's own (`VersionInv`), and an answer older than the last update seen has been
noted as overtaken (`AnswerInv`). The catalogue has finitely many shapes, and
`ShapeFacts` goes through them.

*SessionStorage.* `IndexInv`: every username stored in memory is filed, and what is
filed is a stored peer that has the name or gave it up. The refinement is shown
step by step: what SQLite does takes effect with the step of its statement. Rows hold
cut texts only (`FileInv`) and a cut text has nothing left to cut (`CStrAssumption`),
so that what is read from a row is what is in it.

Assumed: `WorkerAssumption` (finitely many workers, at least one: the constructor
replaces 0); `TaskAssumption`, `CallerAssumption`, `DcAssumption`, `OnUpdateAssumption`,
`RunnerAssumption`, `NoneAssumption`, `FileAssumption`, `CallAssumption` (what stands
for "none", or for one particular thing, is not among the others); `NameAssumption`
(the empty username is one); `CStrAssumption` (a text up to its first NUL is of the
same kind, has none left to cut at, and is empty if the text is); `HandlerAssumption` (each handler is of a kind, and no
middleware); `UpdateAssumption` (what TDLib sends has the fields and types of its
schema, users and threads have positive identifiers, and an entity has an argument
only if its type does); `NullAssumption`, `PoolAssumption` (a null pointer is no
identifier, type or account); `ClockAssumption` and the bounds (natural numbers).
TLC evaluates each in the runs. The theorems keep the bounds of the models as parameters, of any value.

Every invariant of the runs is a theorem. Induction over data (the units of a buffer,
the keys of a pool, the elements of a sequence) is done over sets: the library's
theorems for it take a predicate as a parameter, which the provers cannot
instantiate, but not that a set of natural numbers that is not empty has a least
element (`WFMin`), from which `Upward`, `BySequences` and their like follow.

Only model-checked: liveness, which depends on fairness and is outside the proof
system's reach.

## 5. What is not modelled, and why

* The address of a `Client`: middleware gets a raw pointer to it (`client_ref_`),
  which a move or `~Client` leaves dangling while the dispatcher runs. It is a hazard
  in `PROJECT.json`; `ClientEvents` has the references to `ClientImpl` only.
* The lifetime of a coroutine's arguments, which it keeps by reference, and of the
  `Client` it was created from: the application's, and a hazard.
* Updates that `process_update` has no case for, but for those of sent messages:
  they are dropped. Among them is `updateNewBusinessMessage`, so that no message in
  `MessageDispatch` is of a business connection (`Truth`). The identifiers of
  messages, temporary and final.
* What middleware puts into its context: only other middleware can see it. `clear` and
  `size` of the pipeline, which the client never calls.
* Conversions that copy field by field (chats, users, files, threads, secret chats,
  group calls, reply keyboards): there is nothing in them that one property could
  tell from another. What a request says, for the same reason: `RequestCatalog` has
  its effect and its way.
* The identifiers `broadcast` returns, and plugins that share a client with plugins
  of other names.
* In the MTProto engine: the layout and encryption of envelopes, `set_primary_dc`,
  `register_custom_dc`, moves of a connection, TL queries, and the obfuscated
  transport, which `create_transport_codec` never builds.
* Rich messages, errors, the CLI, logging, metrics: formatting, or independent
  of the rest. Metrics are relaxed counters that nobody in the library touches.
  Cryptography and TL serialisation are computations over byte strings beyond an
  explicit-state checker.

## 6. Plan

Done, in this order: the pool and its proofs (everything a handler does passes
through it); the adapter (every answer passes through it); the dispatcher with the
pool and the client's destruction; login and the event loop; the MTProto engine
and its proofs; the requests with the caches, entities and coroutines; accounts
and plugins; the two session storages as implementations of one store; handlers
with middleware, filters and conversions; handlers that resize their own pool; the
proofs of all these, at last of the framings, of accounts and plugins, and of the
filters.

Left:

1. `ClientEvents` with the move of a `Client`, once it is decided what a moved-from
   client promises: the code says nothing about it.

## 7. Running

```
tlc -workers 2 -config ThreadPool.cfg MCThreadPool.tla      # and so for each run
tlapm ThreadPoolProofs.tla                                  # and so for each *Proofs module
```

`PROJECT.json` lists, per run, the module, the configuration and the properties;
per definition, the source lines it models; per property, the mutant that breaks
it; and the hazards and findings with their lines.
