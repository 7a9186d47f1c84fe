----------------------------- MODULE AccountPool -----------------------------
(***************************************************************************)
(* AccountPool (src/core/account_pool.cpp) and the clients it shares with  *)
(* the threads that use it. Whoever drops the last reference to a client   *)
(* destroys it: ~Client unloads its plugins and stops the adapter,         *)
(* ~ClientImpl waits for its handlers. In add_account and remove_account   *)
(* that happens under mutex_. Plugins and handlers may use the pool.       *)
(***************************************************************************)
EXTENDS Sequences, FiniteSets, PluginManager

CONSTANTS Account,    \* account identifiers
          Chats,      \* bound: chats of a broadcast
          MaxTurns,   \* bound: accounts handed out
          MaxAsks     \* bound: uses of the pool by handlers

ASSUME PoolAssumption ==
  /\ None \notin Account
  /\ Chats \in Nat /\ MaxTurns \in Nat /\ MaxAsks \in Nat

VARIABLES
  accounts,           \* accounts_: the client of each account, or None
  account_keys,       \* account_keys_
  round_robin_index,  \* round_robin_index_
  mutex,              \* who keeps mutex_ beyond a step
  todo,               \* chats a broadcast has still to send to
  id,                 \* the account a thread removes
  then,               \* where a thread goes when a client is destroyed
  fresh,              \* clients not added yet
  destroyed,          \* clients that are gone
  asking,             \* clients one of whose handlers waits for the pool
  asks,               \* bound: how often handlers have used it
  turns               \* history: turns of each account since the keys changed

poolVars == <<accounts, account_keys, round_robin_index, mutex, turns>>
threadVars == <<todo, id, then>>
clientVars == <<fresh, destroyed, asking, asks>>
allVars == <<pluginVars, pc, client, poolVars, threadVars, clientVars>>

ThreadPC == {"idle", "using", "onLoad", "onUnload", "pick", "send",
             "destroy", "unloadAll", "hookAsks", "join", "removeKey"}

PoolTypeOK ==
  /\ PluginTypeOK
  /\ pc \in [Thread -> ThreadPC]
  /\ client \in [Thread -> Client \cup {None}]
  /\ accounts \in [Account -> Client \cup {None}]
  /\ account_keys \in Seq(Account)
  /\ round_robin_index \in Nat
  /\ mutex \in Thread \cup {None}
  /\ todo \in [Thread -> 0 .. Chats]
  /\ id \in [Thread -> Account \cup {None}]
  /\ then \in [Thread -> {"idle", "pick", "removeKey"}]
  /\ fresh \subseteq Client
  /\ destroyed \subseteq Client
  /\ asking \subseteq Client
  /\ asks \in 0 .. MaxAsks
  /\ turns \in [Account -> Nat]

PoolInit ==
  /\ PluginInit
  /\ pc = [t \in Thread |-> "idle"]
  /\ client = [t \in Thread |-> None]
  /\ accounts = [a \in Account |-> None]
  /\ account_keys = <<>>
  /\ round_robin_index = 0
  /\ mutex = None
  /\ todo = [t \in Thread |-> 0]
  /\ id = [t \in Thread |-> None]
  /\ then = [t \in Thread |-> "idle"]
  /\ fresh = Client
  /\ destroyed = {}
  /\ asking = {}
  /\ asks = 0
  /\ turns = [a \in Account |-> 0]

-----------------------------------------------------------------------------
NoTurns == [a \in Account |-> 0]

Unlocked == mutex = None

Keys == {account_keys[i] : i \in DOMAIN account_keys}

Held(c) == \E t \in Thread : client[t] = c

Pooled(c) == \E a \in Account : accounts[a] = c

(* t loses its reference to its client, and goes where it says; first it   *)
(* destroys the client if nobody else refers to it.                        *)
Drop(t, where) ==
  IF Pooled(client[t]) \/ \E s \in Thread \ {t} : client[s] = client[t]
    THEN Goes(t, where) /\ client' = [client EXCEPT ![t] = None] /\ UNCHANGED then
    ELSE Goes(t, "destroy") /\ then' = [then EXCEPT ![t] = where] /\ UNCHANGED client

(* t takes client c out of the pool, and destroys it unless somebody holds *)
(* it; the mutex stays locked until then, and until the key is removed.    *)
TakesOut(t, c, where) ==
  IF Held(c)
    THEN /\ Goes(t, where)
         /\ mutex' = IF where = "idle" THEN None ELSE t
         /\ UNCHANGED <<client, then>>
    ELSE /\ Goes(t, "destroy")
         /\ mutex' = t
         /\ client' = [client EXCEPT ![t] = c]
         /\ then' = [then EXCEPT ![t] = where]

-----------------------------------------------------------------------------
(* add_account; clients are numbered in the order they are added           *)

NewAccount(t, a, c) ==
  /\ accounts[a] = None
  /\ account_keys' = Append(account_keys, a)
  /\ turns' = NoTurns
  /\ UNCHANGED <<pc, client, mutex, then>>

ReplacedAccount(t, a, c) ==
  /\ accounts[a] # None
  /\ TakesOut(t, accounts[a], "idle")
  /\ UNCHANGED <<account_keys, turns>>

AddAccount(t, a, c) ==
  /\ pc[t] = "idle"
  /\ Unlocked
  /\ c \in fresh /\ \A d \in fresh : c <= d
  /\ fresh' = fresh \ {c}
  /\ accounts' = [accounts EXCEPT ![a] = c]
  /\ NewAccount(t, a, c) \/ ReplacedAccount(t, a, c)
  /\ UNCHANGED <<pluginVars, round_robin_index, todo, id, destroyed, asking, asks>>

(* remove_account: the client goes before the key.                         *)
RemoveAccount(t, a) ==
  /\ pc[t] = "idle"
  /\ Unlocked
  /\ accounts[a] # None
  /\ accounts' = [accounts EXCEPT ![a] = None]
  /\ id' = [id EXCEPT ![t] = a]
  /\ TakesOut(t, accounts[a], "removeKey")
  /\ UNCHANGED <<pluginVars, account_keys, round_robin_index, turns, todo, clientVars>>

(* std::remove.                                                            *)
Without(keys, a) ==
  LET kept[i \in 0 .. Len(keys)] ==
        IF i = 0 THEN <<>>
        ELSE IF keys[i] = a THEN kept[i - 1] ELSE Append(kept[i - 1], keys[i])
  IN kept[Len(keys)]

RemoveKey(t) ==
  /\ pc[t] = "removeKey"
  /\ account_keys' = Without(account_keys, id[t])
  /\ turns' = NoTurns
  /\ mutex' = None
  /\ id' = [id EXCEPT ![t] = None]
  /\ Goes(t, "idle")
  /\ UNCHANGED <<pluginVars, client, accounts, round_robin_index, todo, then, clientVars>>

-----------------------------------------------------------------------------
(* get_account, and the end of the reference it returns                    *)

GetAccount(t, a) ==
  /\ pc[t] = "idle"
  /\ Unlocked
  /\ accounts[a] # None
  /\ client' = [client EXCEPT ![t] = accounts[a]]
  /\ Goes(t, "using")
  /\ UNCHANGED <<pluginVars, poolVars, threadVars, clientVars>>

Release(t) ==
  /\ pc[t] = "using"
  /\ Drop(t, "idle")
  /\ UNCHANGED <<pluginVars, poolVars, todo, id, clientVars>>

-----------------------------------------------------------------------------
(* broadcast                                                               *)

Broadcast(t) ==
  /\ pc[t] = "idle"
  /\ Chats # 0
  /\ todo' = [todo EXCEPT ![t] = Chats]
  /\ Goes(t, "pick")
  /\ UNCHANGED <<pluginVars, client, poolVars, id, then, clientVars>>

NextChat(t) ==
  /\ todo' = [todo EXCEPT ![t] = @ - 1]
  /\ UNCHANGED id

(* Bug: one chat too many. *)
OneChatMore(t) == IF todo[t] = 0 THEN "idle" ELSE "pick"

AfterChat(t) == IF todo[t] = 1 THEN "idle" ELSE "pick"

(* Bug: the index is not advanced. *)
NextIndexStuck == round_robin_index

NextIndex == round_robin_index + 1

(* get_next_account; without an account the chat is left out.              *)
GetNextAccount(t) ==
  /\ pc[t] = "pick"
  /\ Unlocked
  /\ round_robin_index < MaxTurns
  /\ account_keys # <<>>
  /\ LET a == account_keys[(round_robin_index % Len(account_keys)) + 1]
     IN /\ client' = [client EXCEPT ![t] = accounts[a]]
        /\ turns' = [turns EXCEPT ![a] = @ + 1]
  /\ round_robin_index' = NextIndex
  /\ Goes(t, "send")
  /\ UNCHANGED <<pluginVars, accounts, account_keys, mutex, threadVars, clientVars>>

NoNextAccount(t) ==
  /\ pc[t] = "pick"
  /\ Unlocked
  /\ account_keys = <<>>
  /\ NextChat(t)
  /\ Goes(t, AfterChat(t))
  /\ UNCHANGED <<pluginVars, client, poolVars, then, clientVars>>

(* sendMessage returns or throws, which is ignored.                        *)
SendEnds(t) ==
  /\ pc[t] = "send"
  /\ NextChat(t)
  /\ Drop(t, AfterChat(t))
  /\ UNCHANGED <<pluginVars, poolVars, clientVars>>

-----------------------------------------------------------------------------
(* Destruction, and the handlers of a client                               *)

(* An on_unload that uses the pool.                                        *)
HookAsks(t) ==
  /\ pc[t] = "unloadAll"
  /\ Goes(t, "hookAsks")
  /\ UNCHANGED <<pluginVars, client, poolVars, threadVars, clientVars>>

HookAnswered(t) ==
  /\ pc[t] = "hookAsks"
  /\ Unlocked
  /\ RunOnUnload(t)
  /\ Goes(t, "join")
  /\ UNCHANGED <<poolVars, threadVars, clientVars>>

(* Bug: the handlers of every client are waited for. *)
JoinEverybody(t) ==
  /\ pc[t] = "join"
  /\ asking = {}
  /\ destroyed' = destroyed \cup {client[t]}
  /\ client' = [client EXCEPT ![t] = None]
  /\ mutex' = IF mutex = t /\ then[t] = "idle" THEN None ELSE mutex
  /\ Goes(t, then[t])
  /\ then' = [then EXCEPT ![t] = "idle"]
  /\ UNCHANGED <<pluginVars, accounts, account_keys, round_robin_index, turns,
                 todo, id, fresh, asking, asks>>

(* td.stop and ~ClientImpl: no handler of the client is left.              *)
JoinHandlers(t) ==
  /\ pc[t] = "join"
  /\ client[t] \notin asking
  /\ destroyed' = destroyed \cup {client[t]}
  /\ client' = [client EXCEPT ![t] = None]
  /\ mutex' = IF mutex = t /\ then[t] = "idle" THEN None ELSE mutex
  /\ Goes(t, then[t])
  /\ then' = [then EXCEPT ![t] = "idle"]
  /\ UNCHANGED <<pluginVars, accounts, account_keys, round_robin_index, turns,
                 todo, id, fresh, asking, asks>>

HandlerAsks(c) ==
  /\ c \notin fresh \cup destroyed \cup asking
  /\ asks < MaxAsks
  /\ asking' = asking \cup {c}
  /\ asks' = asks + 1
  /\ UNCHANGED <<pluginVars, pc, client, poolVars, threadVars, fresh, destroyed>>

HandlerAnswered(c) ==
  /\ c \in asking
  /\ Unlocked
  /\ asking' = asking \ {c}
  /\ UNCHANGED <<pluginVars, pc, client, poolVars, threadVars, fresh, destroyed, asks>>

-----------------------------------------------------------------------------
PluginCall(t) ==
  /\ (\E p \in Plugin : Register(t, p)) \/ Unregister(t)
  /\ UNCHANGED <<poolVars, threadVars, clientVars>>

PluginGoesOn(t) ==
  /\ OnLoadReturns(t) \/ OnLoadThrows(t) \/ OnUnload(t) \/ UnloadAll(t) \/ OnUnloadAll(t)
  /\ UNCHANGED <<poolVars, threadVars, clientVars>>

Call(t) ==
  \/ \E a \in Account : RemoveAccount(t, a) \/ GetAccount(t, a)
  \/ \E a \in Account, c \in Client : AddAccount(t, a, c)
  \/ Release(t) \/ Broadcast(t) \/ HookAsks(t)

NeedsMutex(t) == GetNextAccount(t) \/ NoNextAccount(t) \/ HookAnswered(t)

GoesOn(t) == PluginGoesOn(t) \/ SendEnds(t) \/ JoinHandlers(t) \/ RemoveKey(t)

PoolNext ==
  \/ \E t \in Thread : Call(t) \/ PluginCall(t) \/ NeedsMutex(t) \/ GoesOn(t)
  \/ \E c \in Client : HandlerAsks(c) \/ HandlerAnswered(c)

PoolSpec == PoolInit /\ [][PoolNext]_allVars

(* Threads and hooks go on, requests are answered, and mutex_ starves      *)
(* nobody. Nobody has to call anything.                                    *)
PoolFairness ==
  /\ \A t \in Thread : SF_allVars(NeedsMutex(t) \/ GoesOn(t))
  /\ \A c \in Client : SF_allVars(HandlerAnswered(c))

FairPoolSpec == PoolSpec /\ PoolFairness

-----------------------------------------------------------------------------
(* No account has two keys. Whenever the pool is free, its keys are its    *)
(* accounts, and since they last changed get_next_account has given each   *)
(* the same number of turns, up to one, although the index was never reset *)
(* when an account came or went.                                           *)
EqualTurns ==
  /\ Cardinality(Keys) = Len(account_keys)
  /\ Unlocked =>
       /\ Keys = {a \in Account : accounts[a] # None}
       /\ \A a, b \in Keys : turns[a] <= turns[b] + 1

(* on_unload is called at most once, whoever unregisters a plugin or drops *)
(* its client; and when a client is gone it has been called for every      *)
(* plugin that was loaded, but for those that another's failing on_load    *)
(* has thrown out under the same name.                                     *)
UnloadedOnce ==
  \A p \in Plugin :
    /\ unloads[p] <= 1
    /\ p \in loaded \ evicted /\ home[p] \in destroyed => unloads[p] = 1

(* A hook of the client being destroyed, or one of its handlers, waits for *)
(* the mutex that is held for its destruction: nothing resolves that.      *)
SelfBlocked ==
  \E t \in Thread : /\ mutex = t
                    /\ \/ pc[t] = "hookAsks"
                       \/ pc[t] = "join" /\ client[t] \in asking

(* The pool is not locked for ever, unless removing or replacing an        *)
(* account destroys a client that uses the pool itself.                    *)
PoolIsReleased == ~Unlocked ~> Unlocked \/ SelfBlocked
=============================================================================
