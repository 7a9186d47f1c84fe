--------------------------- MODULE SessionStorage ---------------------------
(***************************************************************************)
(* The two implementations of ISessionStorage: MemorySessionStorage        *)
(* (include/cppgram/storage.hpp) and SqliteSessionStorage                  *)
(* (src/core/storage.cpp), as create_storage makes them. Calls of one      *)
(* storage are under its mutex: in memory a call is one step; in SQLite a  *)
(* statement is prepared and then stepped, and meanwhile other storages    *)
(* of the same file, or the end of the process, may come between.          *)
(*                                                                         *)
(* SQLite is external: a statement in autocommit mode takes effect at one  *)
(* moment, or fails, and a committed one is in the file. It may fail at    *)
(* any time: the file is locked by another connection, or not writable, or *)
(* the disk is full. Of a PeerInfo only the identifier and the username    *)
(* matter; its other fields go with it.                                    *)
(***************************************************************************)
EXTENDS Naturals

CONSTANTS Storage,   \* objects create_storage may return
          File,      \* the database file
          Key, Value, PeerId,
          Name,      \* usernames, the empty one included
          NoName,    \* the empty username
          None,      \* nullopt, a null pointer, no row
          CStr,      \* a text up to its first NUL, as c_str() and -1 make it
          MaxCalls   \* bound: calls of the application

ASSUME NoneAssumption ==
  /\ None \notin Storage \cup {File} \cup Key \cup Value \cup PeerId \cup Name
  /\ None \notin {"memory", "sqlite", "done", "failed", "closed"}
ASSUME FileAssumption == File \notin Storage
ASSUME NameAssumption == NoName \in Name
ASSUME CStrAssumption ==
  /\ \A k \in Key : CStr[k] \in Key
  /\ \A v \in Value : CStr[v] \in Value
  /\ \A n \in Name : CStr[n] \in Name
  /\ \A t \in Key \cup Value \cup Name : CStr[CStr[t]] = CStr[t]
  /\ CStr[NoName] = NoName

VARIABLES
  impl,            \* which implementation a storage is
  kv_,             \* MemorySessionStorage::kv_
  peers_,          \* MemorySessionStorage::peers_
  username_to_id_, \* MemorySessionStorage::username_to_id_
  db,              \* storages whose Impl::db is not null
  stmt,            \* the statement a storage has prepared
  kv_store,        \* the table kv_store of the file
  peers,           \* the table peers of the file
  answer,          \* the last call that returned, its result, and (history)
                   \* whether it was done, failed, or found the handle closed
  renamed,         \* history: usernames given up by a peer kept in memory
  calls            \* number of calls made

memory == <<kv_, peers_, username_to_id_, renamed>>
tables == <<kv_store, peers>>
vars == <<impl, memory, db, stmt, tables, answer, calls>>

Call ==
       [op : {"set_value"},            of : Key,    to : Value]
  \cup [op : {"delete_value"},         of : Key,    to : {None}]
  \cup [op : {"get_value"},            of : Key,    to : {None}]
  \cup [op : {"save_peer"},            of : PeerId, to : Name]
  \cup [op : {"get_peer"},             of : PeerId, to : {None}]
  \cup [op : {"get_peer_by_username"}, of : Name,   to : {None}]

ASSUME CallAssumption == None \notin Call

Found    == Value \cup PeerId \cup Name \cup {None}
NoAnswer == [by |-> None, call |-> None, found |-> None, how |-> None]
Answers  == [by : Storage, call : Call, found : Found,
             how : {"done", "failed", "closed"}]

NoValues == [k \in Key |-> None]
NoPeers  == [p \in PeerId |-> None]
NoIds    == [n \in Name |-> None]

TypeOK ==
  /\ impl \in [Storage -> {"memory", "sqlite", None}]
  /\ kv_ \in [Storage -> [Key -> Value \cup {None}]]
  /\ peers_ \in [Storage -> [PeerId -> Name \cup {None}]]
  /\ username_to_id_ \in [Storage -> [Name -> PeerId \cup {None}]]
  /\ db \in SUBSET Storage
  /\ stmt \in [Storage -> Call \cup {None}]
  /\ \A s \in db : impl[s] = "sqlite"
  /\ \A s \in Storage : stmt[s] # None => s \in db
  /\ kv_store \in [Key -> Value \cup {None}]
  /\ peers \in [PeerId -> Name \cup {None}]
  /\ answer \in Answers \cup {NoAnswer}
  /\ renamed \in [Storage -> SUBSET Name]
  /\ calls \in Nat

Init ==
  /\ impl = [s \in Storage |-> None]
  /\ kv_ = [s \in Storage |-> NoValues]
  /\ peers_ = [s \in Storage |-> NoPeers]
  /\ username_to_id_ = [s \in Storage |-> NoIds]
  /\ db = {}
  /\ stmt = [s \in Storage |-> None]
  /\ kv_store = NoValues
  /\ peers = NoPeers
  /\ answer = NoAnswer
  /\ renamed = [s \in Storage |-> {}]
  /\ calls = 0

Counted == calls < MaxCalls /\ calls' = calls + 1

Answer(s, c, x, how) ==
  answer' = [by |-> s, call |-> c, found |-> x, how |-> how]

Done(s, c, x) == Answer(s, c, x, "done")

-----------------------------------------------------------------------------
(* create_storage                                                          *)

(* An empty path or ":memory:".                                            *)
CreateMemory(s) ==
  /\ impl[s] = None
  /\ Counted
  /\ impl' = [impl EXCEPT ![s] = "memory"]
  /\ UNCHANGED <<memory, db, stmt, tables, answer>>

(* Any other path: the file is opened and the tables created if missing.   *)
(* When either fails the constructor closes the handle and throws, and     *)
(* nothing has changed.                                                    *)
CreateSqlite(s) ==
  /\ impl[s] = None
  /\ Counted
  /\ impl' = [impl EXCEPT ![s] = "sqlite"]
  /\ db' = db \cup {s}
  /\ UNCHANGED <<memory, stmt, tables, answer>>

-----------------------------------------------------------------------------
(* MemorySessionStorage                                                    *)

InMemory(s) ==
  /\ impl[s] = "memory"
  /\ Counted
  /\ UNCHANGED <<impl, db, stmt, tables>>

MemorySetValue(s, k, v) ==
  /\ InMemory(s)
  /\ kv_' = [kv_ EXCEPT ![s][k] = v]
  /\ Done(s, [op |-> "set_value", of |-> k, to |-> v], None)
  /\ UNCHANGED <<peers_, username_to_id_, renamed>>

MemoryDeleteValue(s, k) ==
  /\ InMemory(s)
  /\ kv_' = [kv_ EXCEPT ![s][k] = None]
  /\ Done(s, [op |-> "delete_value", of |-> k, to |-> None], None)
  /\ UNCHANGED <<peers_, username_to_id_, renamed>>

MemoryGetValue(s, k) ==
  /\ InMemory(s)
  /\ Done(s, [op |-> "get_value", of |-> k, to |-> None], kv_[s][k])
  /\ UNCHANGED memory

(* Bug: only a peer that was not stored has its username filed. *)
IndexNew(s, p, n) ==
  username_to_id_' = IF n = NoName \/ peers_[s][p] # None
                     THEN username_to_id_
                     ELSE [username_to_id_ EXCEPT ![s][n] = p]

(* The username is filed unless it is empty; the one the peer had before   *)
(* stays filed.                                                            *)
Index(s, p, n) ==
  username_to_id_' = IF n = NoName THEN username_to_id_
                     ELSE [username_to_id_ EXCEPT ![s][n] = p]

MemorySavePeer(s, p, n) ==
  /\ InMemory(s)
  /\ peers_' = [peers_ EXCEPT ![s][p] = n]
  /\ Index(s, p, n)
  /\ renamed' = [renamed EXCEPT ![s] =
                   IF peers_[s][p] \in {None, NoName, n} THEN @
                   ELSE @ \cup {peers_[s][p]}]
  /\ Done(s, [op |-> "save_peer", of |-> p, to |-> n], None)
  /\ UNCHANGED kv_

MemoryGetPeer(s, p) ==
  /\ InMemory(s)
  /\ Done(s, [op |-> "get_peer", of |-> p, to |-> None], peers_[s][p])
  /\ UNCHANGED memory

(* The identifier filed under the username, if that peer is stored.        *)
Filed(s, n) ==
  LET p == username_to_id_[s][n] IN
  IF p # None /\ peers_[s][p] # None THEN p ELSE None

MemoryGetPeerByUsername(s, n) ==
  /\ InMemory(s)
  /\ Done(s, [op |-> "get_peer_by_username", of |-> n, to |-> None], Filed(s, n))
  /\ UNCHANGED memory

(* Bug: close forgets the values and peers but not the index. *)
ForgetContent(s) ==
  /\ kv_' = [kv_ EXCEPT ![s] = NoValues]
  /\ UNCHANGED <<peers_, username_to_id_, renamed>>

(* The three maps are cleared.                                             *)
ForgetMemory(s) ==
  /\ kv_' = [kv_ EXCEPT ![s] = NoValues]
  /\ peers_' = [peers_ EXCEPT ![s] = NoPeers]
  /\ username_to_id_' = [username_to_id_ EXCEPT ![s] = NoIds]
  /\ renamed' = [renamed EXCEPT ![s] = {}]

(* close: the storage may be used on.                                      *)
MemoryClose(s) ==
  /\ impl[s] = "memory"
  /\ Counted
  /\ ForgetMemory(s)
  /\ answer' = NoAnswer
  /\ UNCHANGED <<impl, db, stmt, tables>>

-----------------------------------------------------------------------------
(* SqliteSessionStorage                                                    *)

(* The mutex is taken. With a closed handle the call returns at once,      *)
(* otherwise its statement is prepared.                                    *)
CallClosed(s, c) ==
  /\ impl[s] = "sqlite" /\ s \notin db
  /\ Counted
  /\ Answer(s, c, None, "closed")
  /\ UNCHANGED <<impl, memory, db, stmt, tables>>

Prepare(s, c) ==
  /\ impl[s] = "sqlite" /\ s \in db /\ stmt[s] = None
  /\ Counted
  /\ stmt' = [stmt EXCEPT ![s] = c]
  /\ UNCHANGED <<impl, memory, db, tables, answer>>

(* What a text is bound as, and what is read of one in a row.              *)
Cut(t) == IF t = None THEN None ELSE CStr[t]

(* sqlite3_step of the prepared statement, then finalize and return.       *)
Step(s, op) ==
  /\ stmt[s] # None /\ stmt[s].op = op
  /\ stmt' = [stmt EXCEPT ![s] = None]
  /\ UNCHANGED <<impl, memory, db, calls>>

(* Its result is not looked at, and if it cannot be prepared there is no   *)
(* else: a statement that fails changes nothing, finds nothing, and says   *)
(* nothing.                                                                *)
StepFails(s) ==
  /\ stmt[s] # None
  /\ Answer(s, stmt[s], None, "failed")
  /\ stmt' = [stmt EXCEPT ![s] = None]
  /\ UNCHANGED <<impl, memory, db, tables, calls>>

SqliteSetValue(s) ==
  /\ Step(s, "set_value")
  /\ kv_store' = [kv_store EXCEPT ![Cut(stmt[s].of)] = Cut(stmt[s].to)]
  /\ Done(s, stmt[s], None)
  /\ UNCHANGED peers

SqliteDeleteValue(s) ==
  /\ Step(s, "delete_value")
  /\ kv_store' = [kv_store EXCEPT ![Cut(stmt[s].of)] = None]
  /\ Done(s, stmt[s], None)
  /\ UNCHANGED peers

SqliteGetValue(s) ==
  /\ Step(s, "get_value")
  /\ Done(s, stmt[s], Cut(kv_store[Cut(stmt[s].of)]))
  /\ UNCHANGED tables

(* Bug: INSERT OR IGNORE, so that a known peer keeps its old row. *)
InsertOrIgnore(s) ==
  /\ Step(s, "save_peer")
  /\ peers' = [peers EXCEPT ![stmt[s].of] = IF @ = None THEN Cut(stmt[s].to) ELSE @]
  /\ Done(s, stmt[s], None)
  /\ UNCHANGED kv_store

(* The row of the peer is inserted or updated; other rows with the same    *)
(* username stay as they are.                                              *)
SqliteSavePeer(s) ==
  /\ Step(s, "save_peer")
  /\ peers' = [peers EXCEPT ![stmt[s].of] = Cut(stmt[s].to)]
  /\ Done(s, stmt[s], None)
  /\ UNCHANGED kv_store

SqliteGetPeer(s) ==
  /\ Step(s, "get_peer")
  /\ Done(s, stmt[s], Cut(peers[stmt[s].of]))
  /\ UNCHANGED tables

Rows(n) == {p \in PeerId : peers[p] = n}

(* Any of the rows with the username, also if that is the empty one.       *)
SqliteGetPeerByUsername(s) ==
  /\ Step(s, "get_peer_by_username")
  /\ LET rows == Rows(Cut(stmt[s].of)) IN
     \/ \E p \in rows : Done(s, stmt[s], p)
     \/ rows = {} /\ Done(s, stmt[s], None)
  /\ UNCHANGED tables

(* Bug: the handle is closed under a call of another thread. *)
CloseUnlocked(s) ==
  /\ impl[s] = "sqlite"
  /\ Counted
  /\ db' = db \ {s}
  /\ answer' = NoAnswer
  /\ UNCHANGED <<impl, memory, stmt, tables>>

(* close: the handle is closed and stays so.                               *)
SqliteClose(s) ==
  /\ impl[s] = "sqlite" /\ stmt[s] = None
  /\ Counted
  /\ db' = db \ {s}
  /\ answer' = NoAnswer
  /\ UNCHANGED <<impl, memory, stmt, tables>>

-----------------------------------------------------------------------------
(* The last owner of the storage lets it go.                               *)
Release(s) ==
  /\ impl[s] # None /\ stmt[s] = None
  /\ Counted
  /\ impl' = [impl EXCEPT ![s] = None]
  /\ db' = db \ {s}
  /\ ForgetMemory(s)
  /\ answer' = NoAnswer
  /\ UNCHANGED <<stmt, tables>>

(* The process ends, at any moment; SQLite rolls back what was not         *)
(* committed.                                                              *)
Crash ==
  /\ impl' = [s \in Storage |-> None]
  /\ kv_' = [s \in Storage |-> NoValues]
  /\ peers_' = [s \in Storage |-> NoPeers]
  /\ username_to_id_' = [s \in Storage |-> NoIds]
  /\ renamed' = [s \in Storage |-> {}]
  /\ db' = {}
  /\ stmt' = [s \in Storage |-> None]
  /\ answer' = NoAnswer
  /\ Counted
  /\ UNCHANGED tables

MemoryCall(s) ==
  \/ \E k \in Key : \/ \E v \in Value : MemorySetValue(s, k, v)
                    \/ MemoryDeleteValue(s, k)
                    \/ MemoryGetValue(s, k)
  \/ \E p \in PeerId : \/ \E n \in Name : MemorySavePeer(s, p, n)
                       \/ MemoryGetPeer(s, p)
  \/ \E n \in Name : MemoryGetPeerByUsername(s, n)
  \/ MemoryClose(s)

SqliteStep(s) ==
  \/ SqliteSetValue(s) \/ SqliteDeleteValue(s) \/ SqliteGetValue(s)
  \/ SqliteSavePeer(s) \/ SqliteGetPeer(s) \/ SqliteGetPeerByUsername(s)
  \/ StepFails(s)

SqliteCall(s) ==
  \/ \E c \in Call : CallClosed(s, c) \/ Prepare(s, c)
  \/ SqliteStep(s)
  \/ SqliteClose(s)

Next ==
  \/ Crash
  \/ \E s \in Storage : \/ CreateMemory(s) \/ CreateSqlite(s) \/ Release(s)
                        \/ MemoryCall(s) \/ SqliteCall(s)

Spec == Init /\ [][Next]_vars

-----------------------------------------------------------------------------
(* What a storage holds, wherever it keeps it, and the peers that have a   *)
(* username, as far as the file keeps it.                                  *)
NameOf(s, p) == IF impl[s] = "memory" THEN peers_[s][p] ELSE peers[p]

Holders(s, n) ==
  {p \in PeerId : NameOf(s, p) = IF impl[s] = "memory" THEN n ELSE CStr[n]}

(* The exceptions: memory may find a peer that gave the username up, and   *)
(* knows none by the empty username.                                       *)
FindsHolder(s, n, x) ==
  \/ x \in Holders(s, n)
  \/ x = None /\ Holders(s, n) = {}
  \/ impl[s] = "memory" /\ n \in renamed[s]
  \/ impl[s] = "memory" /\ n = NoName /\ x = None

(* A lookup by username finds a peer that has it, if there is one; the     *)
(* handle may be closed or the statement fail, and then it finds none.     *)
LookupByName ==
  answer.how = "done" /\ answer.call.op = "get_peer_by_username" =>
    FindsHolder(answer.by, answer.call.of, answer.found)

(* What a storage is to the application: a view of a place.                *)
PlaceOf == [s \in Storage |-> IF impl[s] = "memory" THEN s
                              ELSE IF impl[s] = "sqlite" THEN File ELSE None]
Open    == {s \in Storage : impl[s] = "memory" \/ s \in db}
Busy    == {s \in Storage : stmt[s] # None}
Values  == [q \in Storage \cup {File} |-> IF q = File THEN kv_store ELSE kv_[q]]
Names   == [q \in Storage \cup {File} |-> IF q = File THEN peers ELSE peers_[q]]

(* Both implementations keep the promise of SessionStore, of texts without *)
(* a NUL; of any other the file keeps what is before it.                   *)
Promise == INSTANCE SessionStore WITH
  place <- PlaceOf, open <- Open, busy <- Busy, values <- Values, names <- Names,
  InFile <- CStr

(* A call that is done takes effect at one moment and on the place of its  *)
(* storage alone, keys, values and usernames cut in the file; it comes to  *)
(* nothing, and wholly so, only on a closed handle or when the statement   *)
(* fails; a lookup answers what is there; what was written to the file is  *)
(* there after a crash.                                                    *)
ImplementsStore == Promise!Spec

-----------------------------------------------------------------------------
(* What a comment says of every storage                                    *)

Whole == [t \in Key \cup Value \cup Name |-> t]

Documented == INSTANCE SessionStore WITH
  place <- PlaceOf, open <- Open, busy <- Busy, values <- Values, names <- Names,
  InFile <- Whole

(* storage.hpp:37, "Persists an arbitrary string key-value pair": the      *)
(* promise with every text kept whole, in the file as in memory.           *)
KeepsArbitraryStrings == Documented!Spec
=============================================================================
