------------------------ MODULE SessionStorageProofs ------------------------
(***************************************************************************)
(* Proofs about SessionStorage for any storages, keys, peers and usernames *)
(* and any number of calls: a lookup by username finds a holder of it, but *)
(* for the exceptions LookupByName names, and both implementations keep    *)
(* the promise of SessionStore.                                            *)
(***************************************************************************)
EXTENDS SessionStorage, TLAPS

USE NoneAssumption, FileAssumption, NameAssumption, CallAssumption

(* The index of a storage in memory: every peer's username is filed, and   *)
(* what is filed is a stored peer that has the username or gave it up. A   *)
(* storage that is not in memory has nothing there.                        *)
IndexInv ==
  \A s \in Storage :
    /\ username_to_id_[s][NoName] = None
    /\ \A n \in Name \ {NoName} :
         LET p == username_to_id_[s][n] IN
         /\ p = None => \A q \in PeerId : peers_[s][q] # n
         /\ p # None => peers_[s][p] # None /\ (peers_[s][p] = n \/ n \in renamed[s])
    /\ impl[s] # "memory" => kv_[s] = NoValues /\ peers_[s] = NoPeers

(* What is in the file has no NUL left in it.                              *)
FileInv == /\ \A k \in Key : Cut(kv_store[k]) = kv_store[k]
           /\ \A p \in PeerId : Cut(peers[p]) = peers[p]

(* The last answer is forgotten when its storage goes.                     *)
AnswerInv == answer.by # None => impl[answer.by] # None

IInv == TypeOK /\ IndexInv /\ FileInv /\ AnswerInv /\ LookupByName

-----------------------------------------------------------------------------
LEMMA InitInv == Init => IInv
<1> SUFFICES ASSUME Init PROVE IInv
  OBVIOUS
<1>1. TypeOK
  BY DEF Init, TypeOK, NoValues, NoPeers, NoIds
<1>2. IndexInv
  BY DEF Init, IndexInv, NoIds, NoPeers
<1>3. AnswerInv /\ LookupByName
  BY DEF Init, AnswerInv, LookupByName, NoAnswer
<1>4. FileInv
  BY DEF Init, FileInv, Cut, NoValues, NoPeers
<1> QED
  BY <1>1, <1>2, <1>3, <1>4 DEF IInv

(* A text that is bound or read: of its kind, and cut for good.            *)
LEMMA CutTypes ==
  /\ \A k \in Key : Cut(k) \in Key
  /\ \A v \in Value \cup {None} : Cut(v) \in Value \cup {None} /\ Cut(Cut(v)) = Cut(v)
  /\ \A n \in Name \cup {None} : Cut(n) \in Name \cup {None} /\ Cut(Cut(n)) = Cut(n)
  /\ \A n \in Name : Cut(n) = CStr[n] /\ Cut(n) \in Name
  /\ \A v \in Value : Cut(v) \in Value
BY CStrAssumption DEF Cut

LEMMA FileUntouched ==
  ASSUME IInv, UNCHANGED tables
  PROVE  FileInv'
BY DEF IInv, FileInv, tables

LEMMA CallTypes ==
  /\ \A k \in Key : \A v \in Value : [op |-> "set_value", of |-> k, to |-> v] \in Call
  /\ \A k \in Key : [op |-> "delete_value", of |-> k, to |-> None] \in Call
  /\ \A k \in Key : [op |-> "get_value", of |-> k, to |-> None] \in Call
  /\ \A p \in PeerId : \A n \in Name : [op |-> "save_peer", of |-> p, to |-> n] \in Call
  /\ \A p \in PeerId : [op |-> "get_peer", of |-> p, to |-> None] \in Call
  /\ \A n \in Name : [op |-> "get_peer_by_username", of |-> n, to |-> None] \in Call
BY DEF Call

(* The arguments of a call, told by its operation.                         *)
LEMMA CallArguments ==
  ASSUME NEW c \in Call
  PROVE  /\ c.op \in {"set_value", "delete_value", "get_value"} => c.of \in Key
         /\ c.op = "set_value" => c.to \in Value
         /\ c.op = "delete_value" => c.to = None
         /\ c.op \in {"save_peer", "get_peer"} => c.of \in PeerId
         /\ c.op = "save_peer" => c.to \in Name
         /\ c.op = "get_peer_by_username" => c.of \in Name
BY DEF Call

(* A storage with a statement has its handle open, and so is on the file.  *)
LEMMA StatementOnFile ==
  ASSUME IInv, NEW s \in Storage, stmt[s] # None
  PROVE  s \in db /\ impl[s] = "sqlite" /\ stmt[s] \in Call
BY DEF IInv, TypeOK

-----------------------------------------------------------------------------
(* Creating, releasing, closing and crashing                               *)

LEMMA CreatePreserves ==
  ASSUME IInv, NEW s \in Storage, CreateMemory(s) \/ CreateSqlite(s)
  PROVE  IInv'
<1>0. None # "memory" /\ None # "sqlite"
  OBVIOUS
<1> USE DEF IInv, CreateMemory, CreateSqlite, Counted, memory, tables
<1>1. TypeOK'
  <2>1. impl' \in [Storage -> {"memory", "sqlite", None}]
    BY DEF TypeOK
  <2>4. db' \in SUBSET Storage /\ calls' \in Nat
    BY DEF TypeOK
  <2>2. CASE CreateMemory(s)
    <3>1. s \notin db
      BY <1>0, <2>2 DEF TypeOK
    <3> QED
      BY <2>1, <2>2, <2>4, <3>1 DEF TypeOK
  <2>3. CASE CreateSqlite(s)
    <3>1. \A t \in db' : impl'[t] = "sqlite"
      BY <2>3 DEF TypeOK
    <3>2. \A t \in Storage : stmt'[t] # None => t \in db'
      BY <2>3 DEF TypeOK
    <3> QED
      BY <2>1, <2>3, <2>4, <3>1, <3>2 DEF TypeOK
  <2> QED
    BY <2>2, <2>3
<1>2. IndexInv'
  BY DEF IndexInv, TypeOK
<1>3. AnswerInv' /\ FileInv'
  BY FileUntouched DEF AnswerInv, TypeOK, Answers, NoAnswer
<1>4. LookupByName'
  <2> SUFFICES ASSUME answer.how = "done", answer.call.op = "get_peer_by_username"
               PROVE  FindsHolder(answer.by, answer.call.of, answer.found)'
    BY DEF LookupByName
  <2>1. answer.by \in Storage /\ answer.by # s
    BY DEF TypeOK, AnswerInv, Answers, NoAnswer
  <2>2. FindsHolder(answer.by, answer.call.of, answer.found)
    BY DEF LookupByName
  <2>3. impl'[answer.by] = impl[answer.by] /\ (answer.by \in db' <=> answer.by \in db)
    BY <2>1 DEF TypeOK
  <2> QED
    BY <2>1, <2>2, <2>3 DEF FindsHolder, Holders, NameOf
<1> QED
  BY <1>1, <1>2, <1>3, <1>4

LEMMA ForgetTypes ==
  ASSUME TypeOK, NEW s \in Storage, ForgetMemory(s)
  PROVE  /\ kv_' \in [Storage -> [Key -> Value \cup {None}]]
         /\ peers_' \in [Storage -> [PeerId -> Name \cup {None}]]
         /\ username_to_id_' \in [Storage -> [Name -> PeerId \cup {None}]]
         /\ renamed' \in [Storage -> SUBSET Name]
<1> USE DEF TypeOK, ForgetMemory
<1>1. kv_' \in [Storage -> [Key -> Value \cup {None}]]
  BY DEF NoValues
<1>2. peers_' \in [Storage -> [PeerId -> Name \cup {None}]]
  BY DEF NoPeers
<1>3. username_to_id_' \in [Storage -> [Name -> PeerId \cup {None}]]
  BY DEF NoIds
<1>4. renamed' \in [Storage -> SUBSET Name]
  OBVIOUS
<1> QED
  BY <1>1, <1>2, <1>3, <1>4

LEMMA ForgetPreserves ==
  ASSUME IInv, NEW s \in Storage, MemoryClose(s) \/ SqliteClose(s) \/ Release(s)
  PROVE  IInv'
<1> USE DEF IInv, MemoryClose, SqliteClose, Release, ForgetMemory, Counted,
            memory, tables
<1>1. TypeOK'
  <2>1. /\ kv_' \in [Storage -> [Key -> Value \cup {None}]]
        /\ peers_' \in [Storage -> [PeerId -> Name \cup {None}]]
        /\ username_to_id_' \in [Storage -> [Name -> PeerId \cup {None}]]
        /\ renamed' \in [Storage -> SUBSET Name]
    <3>1. ForgetMemory(s) \/ UNCHANGED memory
      OBVIOUS
    <3> HIDE DEF IInv, MemoryClose, SqliteClose, Release, ForgetMemory
    <3> QED
      BY <3>1, ForgetTypes DEF IInv, TypeOK
  <2>2. CASE MemoryClose(s)
    <3>1. UNCHANGED <<impl, db, stmt, kv_store, peers>>
      BY <2>2
    <3>2. calls' \in Nat /\ answer' = NoAnswer
      BY <2>2 DEF TypeOK
    <3> QED
      BY <2>1, <3>1, <3>2 DEF TypeOK
  <2>3. CASE SqliteClose(s)
    <3>1. db' \in SUBSET Storage /\ \A t \in Storage : stmt'[t] # None => t \in db'
      BY <2>3 DEF TypeOK
    <3> QED
      BY <2>1, <2>3, <3>1 DEF TypeOK
  <2>4. CASE Release(s)
    <3>1. db' \in SUBSET Storage /\ \A t \in Storage : stmt'[t] # None => t \in db'
      BY <2>4 DEF TypeOK
    <3>2. impl' \in [Storage -> {"memory", "sqlite", None}]
      BY <2>4 DEF TypeOK
    <3>3. \A t \in db' : impl'[t] = "sqlite"
      BY <2>4 DEF TypeOK
    <3> QED
      BY <2>1, <2>4, <3>1, <3>2, <3>3 DEF TypeOK
  <2> QED
    BY <2>2, <2>3, <2>4
<1>2. IndexInv'
  BY DEF IndexInv, TypeOK, NoValues, NoPeers, NoIds
<1>3. AnswerInv' /\ LookupByName'
  BY DEF AnswerInv, LookupByName, NoAnswer
<1>4. FileInv'
  BY FileUntouched
<1> QED
  BY <1>1, <1>2, <1>3, <1>4

LEMMA CrashPreserves ==
  ASSUME IInv, Crash
  PROVE  IInv'
<1> USE DEF IInv, Crash, Counted, tables
<1>1. TypeOK'
  BY DEF TypeOK, NoValues, NoPeers, NoIds
<1>2. IndexInv'
  BY DEF IndexInv, NoPeers, NoIds
<1>3. AnswerInv' /\ LookupByName'
  BY DEF AnswerInv, LookupByName, NoAnswer
<1>4. FileInv'
  BY FileUntouched
<1> QED
  BY <1>1, <1>2, <1>3, <1>4

-----------------------------------------------------------------------------
(* Calls of a storage in memory                                            *)

LEMMA MemorySavePreserves ==
  ASSUME IInv, NEW s \in Storage, NEW p \in PeerId, NEW n \in Name,
         MemorySavePeer(s, p, n)
  PROVE  IInv'
<1> USE DEF IInv, MemorySavePeer, InMemory, Counted, Index, tables
<1>1. TypeOK'
  <2>1. answer' \in Answers \cup {NoAnswer}
    BY CallTypes DEF Done, Answer, Answers, Found
  <2>2. peers_' \in [Storage -> [PeerId -> Name \cup {None}]]
    BY DEF TypeOK
  <2>3. username_to_id_' \in [Storage -> [Name -> PeerId \cup {None}]]
    BY DEF TypeOK
  <2>4. renamed' \in [Storage -> SUBSET Name]
    BY DEF TypeOK
  <2> QED
    BY <2>1, <2>2, <2>3, <2>4 DEF TypeOK
<1>2. IndexInv'
  <2> SUFFICES ASSUME NEW t \in Storage
               PROVE  /\ username_to_id_'[t][NoName] = None
                      /\ \A m \in Name \ {NoName} :
                           LET q == username_to_id_'[t][m] IN
                           /\ q = None => \A r \in PeerId : peers_'[t][r] # m
                           /\ q # None => /\ peers_'[t][q] # None
                                          /\ peers_'[t][q] = m \/ m \in renamed'[t]
                      /\ impl'[t] # "memory" => kv_'[t] = NoValues /\ peers_'[t] = NoPeers
    BY DEF IndexInv
  <2>1. CASE t # s
    BY <2>1 DEF IndexInv, TypeOK
  <2>2. CASE t = s
    <3>1. username_to_id_'[s][NoName] = None
      BY DEF IndexInv, TypeOK
    <3>2. ASSUME NEW m \in Name \ {NoName}
          PROVE  LET q == username_to_id_'[s][m] IN
                 /\ q = None => \A r \in PeerId : peers_'[s][r] # m
                 /\ q # None => /\ peers_'[s][q] # None
                                /\ peers_'[s][q] = m \/ m \in renamed'[s]
      <4>1. \A r \in PeerId : peers_'[s][r] = IF r = p THEN n ELSE peers_[s][r]
        BY DEF TypeOK
      <4>2. username_to_id_'[s][m] = IF m = n THEN p ELSE username_to_id_[s][m]
        BY DEF TypeOK
      <4>3. /\ renamed[s] \subseteq renamed'[s]
            /\ peers_[s][p] \notin {None, NoName, n} => peers_[s][p] \in renamed'[s]
        BY DEF TypeOK
      <4>4. username_to_id_[s][m] \in PeerId \cup {None} /\ n # None
        BY DEF TypeOK
      <4> QED
        BY <4>1, <4>2, <4>3, <4>4 DEF IndexInv
    <3> QED
      BY <2>2, <3>1, <3>2
  <2> QED
    BY <2>1, <2>2
<1>3. AnswerInv' /\ LookupByName' /\ FileInv'
  BY FileUntouched DEF AnswerInv, LookupByName, Done, Answer
<1> QED
  BY <1>1, <1>2, <1>3

(* What is filed under a username is a holder, or one that gave it up.     *)
LEMMA FiledIsHolder ==
  ASSUME IInv, NEW s \in Storage, impl[s] = "memory", NEW n \in Name
  PROVE  Filed(s, n) \in Found /\ FindsHolder(s, n, Filed(s, n))
<1> DEFINE p == username_to_id_[s][n]
<1>1. p \in PeerId \cup {None}
  BY DEF IInv, TypeOK
<1>2. CASE n = NoName
  BY <1>2 DEF IInv, IndexInv, Filed, FindsHolder, Found
<1>3. CASE n # NoName /\ p = None
  BY <1>3 DEF IInv, IndexInv, Filed, FindsHolder, Found, Holders, NameOf
<1>4. CASE n # NoName /\ p # None
  BY <1>1, <1>4 DEF IInv, IndexInv, Filed, FindsHolder, Found, Holders, NameOf
<1> QED
  BY <1>2, <1>3, <1>4

LEMMA MemoryCallPreserves ==
  ASSUME IInv, NEW s \in Storage, MemoryCall(s)
  PROVE  IInv'
<1> USE DEF InMemory, Counted, memory, tables
<1>1. ASSUME NEW k \in Key, NEW v \in Value, MemorySetValue(s, k, v)
      PROVE  IInv'
  <2>1. answer' \in Answers /\ answer'.by = s
    BY <1>1, CallTypes DEF MemorySetValue, Done, Answer, Answers, Found
  <2>2. TypeOK'
    BY <1>1, <2>1 DEF MemorySetValue, IInv, TypeOK
  <2>3. IndexInv' /\ FileInv' /\ AnswerInv' /\ LookupByName'
    BY <1>1, <2>1, FileUntouched DEF MemorySetValue, Done, Answer, IInv, IndexInv, AnswerInv, LookupByName, TypeOK
  <2> QED
    BY <2>2, <2>3 DEF IInv
<1>2. ASSUME NEW k \in Key, MemoryDeleteValue(s, k)
      PROVE  IInv'
  <2>1. answer' \in Answers /\ answer'.by = s
    BY <1>2, CallTypes DEF MemoryDeleteValue, Done, Answer, Answers, Found
  <2>2. TypeOK'
    BY <1>2, <2>1 DEF MemoryDeleteValue, IInv, TypeOK
  <2>3. IndexInv' /\ FileInv' /\ AnswerInv' /\ LookupByName'
    BY <1>2, <2>1, FileUntouched DEF MemoryDeleteValue, Done, Answer, IInv, IndexInv, AnswerInv, LookupByName, TypeOK
  <2> QED
    BY <2>2, <2>3 DEF IInv
<1>3. ASSUME NEW k \in Key, MemoryGetValue(s, k)
      PROVE  IInv'
  <2>1. answer' \in Answers /\ answer'.by = s
    BY <1>3, CallTypes DEF MemoryGetValue, Done, Answer, Answers, Found, IInv, TypeOK
  <2> QED
    BY <1>3, <2>1, FileUntouched DEF MemoryGetValue, Done, Answer, IInv, TypeOK, IndexInv, AnswerInv, LookupByName
<1>4. ASSUME NEW p \in PeerId, MemoryGetPeer(s, p)
      PROVE  IInv'
  <2>1. answer' \in Answers /\ answer'.by = s
    BY <1>4, CallTypes DEF MemoryGetPeer, Done, Answer, Answers, Found, IInv, TypeOK
  <2> QED
    BY <1>4, <2>1, FileUntouched DEF MemoryGetPeer, Done, Answer, IInv, TypeOK, IndexInv, AnswerInv, LookupByName
<1>5. ASSUME NEW n \in Name, MemoryGetPeerByUsername(s, n)
      PROVE  IInv'
  <2> PICK x : x = Filed(s, n)
    OBVIOUS
  <2>1. x \in Found /\ FindsHolder(s, n, x)
    BY <1>5, FiledIsHolder DEF MemoryGetPeerByUsername
  <2>2. /\ answer' = [by |-> s, call |-> [op |-> "get_peer_by_username", of |-> n, to |-> None],
                      found |-> x, how |-> "done"]
        /\ UNCHANGED <<impl, memory, db, stmt, tables>>
    BY <1>5 DEF MemoryGetPeerByUsername, Done, Answer
  <2>3. FindsHolder(s, n, x)'
    BY <2>1, <2>2 DEF FindsHolder, Holders, NameOf
  <2>4. LookupByName'
    BY <2>2, <2>3 DEF LookupByName
  <2>5. TypeOK'
    <3>1. answer' \in Answers
      BY <2>1, <2>2, CallTypes DEF Answers
    <3> QED
      BY <1>5, <2>2, <3>1 DEF MemoryGetPeerByUsername, IInv, TypeOK
  <2>6. IndexInv' /\ FileInv' /\ AnswerInv'
    BY <1>5, <2>2, FileUntouched DEF MemoryGetPeerByUsername, IInv, IndexInv, AnswerInv
  <2> QED
    BY <2>4, <2>5, <2>6 DEF IInv
<1>6. CASE MemoryClose(s)
  BY <1>6, ForgetPreserves
<1> QED
  BY <1>1, <1>2, <1>3, <1>4, <1>5, <1>6, MemorySavePreserves DEF MemoryCall


-----------------------------------------------------------------------------
(* Calls of a storage on the file                                          *)

(* A call that is begun leaves everything else as it is.                   *)
LEMMA PreparePreserves ==
  ASSUME IInv, NEW s \in Storage, NEW c \in Call, Prepare(s, c)
  PROVE  IInv'
<1> USE DEF Prepare, Counted, memory, tables
<1>1. stmt' \in [Storage -> Call \cup {None}] /\ calls' \in Nat
  BY DEF IInv, TypeOK
<1>2. \A t \in Storage : stmt'[t] # None => t \in db
  BY DEF IInv, TypeOK
<1>3. TypeOK'
  BY <1>1, <1>2 DEF IInv, TypeOK
<1>4. IndexInv' /\ FileInv' /\ AnswerInv'
  BY FileUntouched DEF IInv, IndexInv, AnswerInv
<1>5. LookupByName'
  BY DEF IInv, LookupByName, FindsHolder, Holders, NameOf
<1> QED
  BY <1>3, <1>4, <1>5 DEF IInv

LEMMA CallClosedPreserves ==
  ASSUME IInv, NEW s \in Storage, NEW c \in Call, CallClosed(s, c)
  PROVE  IInv'
<1> USE DEF CallClosed, Counted, memory, tables
<1>1. answer' = [by |-> s, call |-> c, found |-> None, how |-> "closed"] /\ None \in Found
  BY DEF Answer, Found
<1>2. TypeOK'
  <2>1. answer' \in Answers /\ calls' \in Nat
    BY <1>1 DEF Answers, IInv, TypeOK
  <2> QED
    BY <2>1 DEF IInv, TypeOK
<1>3. IndexInv' /\ FileInv' /\ AnswerInv'
  BY <1>1, FileUntouched DEF IInv, IndexInv, AnswerInv
<1>4. LookupByName'
  BY <1>1 DEF LookupByName
<1> QED
  BY <1>2, <1>3, <1>4 DEF IInv

(* What every step of a statement leaves to be shown.                      *)
LEMMA StepPreserves ==
  ASSUME IInv, NEW s \in Storage, stmt[s] # None, NEW x \in Found,
         NEW how \in {"done", "failed"}, Answer(s, stmt[s], x, how),
         stmt' = [stmt EXCEPT ![s] = None],
         UNCHANGED <<impl, memory, db, calls>>,
         kv_store' \in [Key -> Value \cup {None}],
         peers' \in [PeerId -> Name \cup {None}], FileInv',
         how = "done" /\ stmt[s].op = "get_peer_by_username" =>
           \A n \in Name : n = stmt[s].of => FindsHolder(s, n, x)'
  PROVE  IInv'
<1> USE DEF memory
<1>1. s \in db /\ impl[s] = "sqlite" /\ stmt[s] \in Call
  BY StatementOnFile
<1>2. answer' = [by |-> s, call |-> stmt[s], found |-> x, how |-> how]
  BY DEF Answer
<1>3. TypeOK'
  <2>1. answer' \in Answers
    BY <1>1, <1>2 DEF Answers
  <2>2. stmt' \in [Storage -> Call \cup {None}]
    BY DEF IInv, TypeOK
  <2>3. \A t \in Storage : stmt'[t] # None => t \in db
    BY DEF IInv, TypeOK
  <2> QED
    BY <2>1, <2>2, <2>3 DEF IInv, TypeOK
<1>4. IndexInv' /\ AnswerInv'
  BY <1>1, <1>2 DEF IInv, IndexInv, AnswerInv
<1>5. LookupByName'
  BY <1>1, <1>2, CallArguments DEF LookupByName
<1> QED
  BY <1>3, <1>4, <1>5 DEF IInv

LEMMA StatementTypes ==
  ASSUME IInv
  PROVE  /\ \A k \in Key : kv_store[k] \in Found
         /\ \A p \in PeerId : peers[p] \in Found
         /\ kv_store \in [Key -> Value \cup {None}]
         /\ peers \in [PeerId -> Name \cup {None}]
         /\ PeerId \subseteq Found /\ None \in Found
BY DEF IInv, TypeOK, Found

LEMMA SqliteStepPreserves ==
  ASSUME IInv, NEW s \in Storage, SqliteStep(s)
  PROVE  IInv'
<1>0. stmt[s] # None
  BY DEF SqliteStep, SqliteSetValue, SqliteDeleteValue, SqliteGetValue, SqliteSavePeer,
         SqliteGetPeer, SqliteGetPeerByUsername, StepFails, Step
<1>c. s \in db /\ impl[s] = "sqlite" /\ stmt[s] \in Call
  BY <1>0, StatementOnFile
<1> USE DEF Step, tables, Done
<1>1. CASE SqliteSetValue(s)
  <2>1. Cut(stmt[s].of) \in Key /\ Cut(stmt[s].to) \in Value
    BY <1>1, <1>c, CallArguments, CutTypes DEF SqliteSetValue
  <2>2. kv_store' \in [Key -> Value \cup {None}]
    BY <1>1, <2>1, StatementTypes DEF SqliteSetValue
  <2>3. Cut(Cut(stmt[s].to)) = Cut(stmt[s].to)
    BY <1>1, <1>c, CallArguments, CutTypes DEF SqliteSetValue
  <2>4. FileInv'
    BY <1>1, <2>1, <2>3, StatementTypes DEF SqliteSetValue, FileInv, IInv
  <2> QED
    BY <1>0, <1>1, <2>2, <2>4, StatementTypes, StepPreserves DEF SqliteSetValue
<1>2. CASE SqliteDeleteValue(s)
  <2>1. kv_store' \in [Key -> Value \cup {None}]
    BY <1>2, StatementTypes DEF SqliteDeleteValue
  <2>2. FileInv'
    BY <1>2, StatementTypes DEF SqliteDeleteValue, FileInv, IInv, Cut
  <2> QED
    BY <1>0, <1>2, <2>1, <2>2, StatementTypes, StepPreserves DEF SqliteDeleteValue
<1>3. CASE SqliteGetValue(s)
  <2>1. Cut(stmt[s].of) \in Key
    BY <1>3, <1>c, CallArguments, CutTypes DEF SqliteGetValue
  <2>2. Cut(kv_store[Cut(stmt[s].of)]) \in Found
    BY <2>1, StatementTypes DEF FileInv, IInv
  <2> QED
    BY <1>0, <1>3, <2>2, StatementTypes, FileUntouched, StepPreserves DEF SqliteGetValue
<1>4. CASE SqliteSavePeer(s)
  <2>1. stmt[s].of \in PeerId /\ Cut(stmt[s].to) \in Name
        /\ Cut(Cut(stmt[s].to)) = Cut(stmt[s].to)
    BY <1>4, <1>c, CallArguments, CutTypes DEF SqliteSavePeer
  <2>2. peers' \in [PeerId -> Name \cup {None}]
    BY <1>4, <2>1, StatementTypes DEF SqliteSavePeer
  <2>3. FileInv'
    BY <1>4, <2>1, StatementTypes DEF SqliteSavePeer, FileInv, IInv
  <2> QED
    BY <1>0, <1>4, <2>2, <2>3, StatementTypes, StepPreserves DEF SqliteSavePeer
<1>5. CASE SqliteGetPeer(s)
  <2>1. stmt[s].of \in PeerId
    BY <1>5, <1>c, CallArguments DEF SqliteGetPeer
  <2>2. Cut(peers[stmt[s].of]) \in Found
    BY <2>1, StatementTypes DEF FileInv, IInv
  <2> QED
    BY <1>0, <1>5, <2>2, StatementTypes, FileUntouched, StepPreserves DEF SqliteGetPeer
<1>6. CASE SqliteGetPeerByUsername(s)
  <2> PICK n : n = stmt[s].of
    OBVIOUS
  <2>1. n \in Name /\ Cut(n) = CStr[n]
    BY <1>6, <1>c, CallArguments, CutTypes DEF SqliteGetPeerByUsername
  <2>2. PICK x \in PeerId \cup {None} : /\ Done(s, stmt[s], x)
                                        /\ \/ x \in Rows(CStr[n])
                                           \/ x = None /\ Rows(CStr[n]) = {}
    BY <1>6, <2>1 DEF SqliteGetPeerByUsername, Rows
  <2>3. Holders(s, n)' = Rows(CStr[n])
    BY <1>6, <1>c DEF SqliteGetPeerByUsername, Holders, NameOf, Rows
  <2>4. FindsHolder(s, n, x)'
    BY <2>2, <2>3 DEF FindsHolder
  <2>5. x \in Found
    BY <2>2 DEF Found
  <2> QED
    BY <1>0, <1>6, <2>2, <2>4, <2>5, StatementTypes, FileUntouched, StepPreserves
    DEF SqliteGetPeerByUsername
<1>7. CASE StepFails(s)
  BY <1>0, <1>7, StatementTypes, FileUntouched, StepPreserves DEF StepFails
<1> QED
  BY <1>1, <1>2, <1>3, <1>4, <1>5, <1>6, <1>7 DEF SqliteStep

-----------------------------------------------------------------------------
LEMMA NextPreserves == IInv /\ [Next]_vars => IInv'
<1> SUFFICES ASSUME IInv, [Next]_vars
             PROVE  IInv'
  OBVIOUS
<1>1. ASSUME NEW s \in Storage,
             CreateMemory(s) \/ CreateSqlite(s) \/ Release(s) \/ MemoryCall(s) \/ SqliteCall(s)
      PROVE  IInv'
  BY <1>1, CreatePreserves, ForgetPreserves, MemoryCallPreserves, PreparePreserves,
     CallClosedPreserves, SqliteStepPreserves DEF SqliteCall
<1>2. CASE UNCHANGED vars
  BY <1>2 DEF vars, memory, tables, IInv, TypeOK, IndexInv, FileInv, AnswerInv,
              LookupByName, FindsHolder, Holders, NameOf
<1> QED
  BY <1>1, <1>2, CrashPreserves DEF Next

THEOREM Invariance == Spec => []IInv
<1> QED
  BY InitInv, NextPreserves, PTL DEF Spec

(* The maps of a storage in memory, the statements of those on the file    *)
(* and its tables keep their types; a statement is only under way on an    *)
(* open handle.                                                            *)
THEOREM TypeCorrect == Spec => []TypeOK
<1>1. IInv => TypeOK
  BY DEF IInv
<1> QED
  BY <1>1, Invariance, PTL

(* A lookup by username that is done finds a peer that has the username if *)
(* there is one, whatever was saved, renamed, closed and lost before, but  *)
(* for the exceptions FindsHolder names.                                   *)
THEOREM Lookups == Spec => []LookupByName
<1>1. IInv => LookupByName
  BY DEF IInv
<1> QED
  BY <1>1, Invariance, PTL


-----------------------------------------------------------------------------
(* The refinement: every step is one of SessionStore's on the place of its *)
(* storage, or is not seen there.                                          *)
AbstractVars == <<PlaceOf, Open, Busy, Values, Names, answer>>

LEMMA InitRefines == Init => Promise!Init
<1> SUFFICES ASSUME Init PROVE Promise!Init
  OBVIOUS
<1>1. PlaceOf = [s \in Storage |-> None]
  BY DEF Init, PlaceOf
<1>2. Open = {} /\ Busy = {}
  BY DEF Init, Open, Busy
<1>3. /\ Values = [q \in Storage \cup {File} |-> NoValues]
      /\ Names = [q \in Storage \cup {File} |-> NoPeers]
  BY DEF Init, Values, Names
<1> QED
  BY <1>1, <1>2, <1>3 DEF Init, Promise!Init, Promise!Empty, Promise!Place,
     Promise!NoAnswer, NoAnswer, NoValues, NoPeers

(* Where a storage is, and what that means.                                *)
LEMMA Places ==
  ASSUME IInv, NEW s \in Storage
  PROVE  /\ impl[s] = "memory" => PlaceOf[s] = s /\ s \in Open /\ s \notin Busy
         /\ impl[s] = "sqlite" => PlaceOf[s] = File /\ (s \in Open <=> s \in db)
         /\ impl[s] = None <=> PlaceOf[s] = None
         /\ impl[s] \in {"memory", "sqlite", None}
         /\ s # File /\ None # s /\ None # File
         /\ None # "memory" /\ None # "sqlite"
         /\ s \in Busy <=> stmt[s] # None
         /\ Values[s] = kv_[s] /\ Names[s] = peers_[s]
         /\ Values[File] = kv_store /\ Names[File] = peers
<1>1. impl[s] \in {"memory", "sqlite", None}
  BY DEF IInv, TypeOK
<1>2. None # "memory" /\ None # "sqlite" /\ s # File /\ None # s /\ None # File
  OBVIOUS
<1>3. PlaceOf[s] = IF impl[s] = "memory" THEN s
                   ELSE IF impl[s] = "sqlite" THEN File ELSE None
  BY DEF PlaceOf
<1>4. /\ s \in Open <=> impl[s] = "memory" \/ s \in db
      /\ s \in Busy <=> stmt[s] # None
  BY DEF Open, Busy
<1>5. impl[s] = "memory" => stmt[s] = None
  BY <1>2, StatementOnFile
<1>6. /\ Values[s] = kv_[s] /\ Names[s] = peers_[s]
      /\ Values[File] = kv_store /\ Names[File] = peers
  BY <1>2 DEF Values, Names
<1> QED
  BY <1>1, <1>2, <1>3, <1>4, <1>5, <1>6

LEMMA CreateRefines ==
  ASSUME IInv, NEW s \in Storage, CreateMemory(s) \/ CreateSqlite(s)
  PROVE  \E q \in {s, File} : Promise!Create(s, q)
<1> USE DEF CreateMemory, CreateSqlite, memory, tables
<1>1. UNCHANGED <<Busy, Values, Names, answer>>
  BY DEF Busy, Values, Names
<1>2. PlaceOf[s] = None
  BY Places
<1>3. CASE CreateMemory(s)
  <2>1. PlaceOf' = [PlaceOf EXCEPT ![s] = s]
    BY <1>3 DEF PlaceOf, IInv, TypeOK
  <2>2. Open' = Open \cup {s}
    BY <1>3 DEF Open, IInv, TypeOK
  <2> QED
    BY <1>1, <1>2, <2>1, <2>2 DEF Promise!Create
<1>4. CASE CreateSqlite(s)
  <2>1. PlaceOf' = [PlaceOf EXCEPT ![s] = File]
    BY <1>4 DEF PlaceOf, IInv, TypeOK
  <2>2. Open' = Open \cup {s}
    <3>1. impl' = [impl EXCEPT ![s] = "sqlite"] /\ db' = db \cup {s} /\ impl[s] # "memory"
      BY <1>4
    <3> QED
      BY <3>1 DEF Open, IInv, TypeOK
  <2> QED
    BY <1>1, <1>2, <2>1, <2>2 DEF Promise!Create
<1> QED
  BY <1>3, <1>4

(* Memory that is cleared, and memory that was empty already.              *)
LEMMA ForgetRefines ==
  ASSUME IInv, NEW s \in Storage, UNCHANGED tables, answer' = NoAnswer,
         ForgetMemory(s) \/ (UNCHANGED memory /\ impl[s] = "sqlite")
  PROVE  Promise!Forget({s})
<1>1. \A t \in Storage :
        /\ kv_'[t] = IF t = s THEN NoValues ELSE kv_[t]
        /\ peers_'[t] = IF t = s THEN NoPeers ELSE peers_[t]
  BY DEF ForgetMemory, memory, IInv, TypeOK, IndexInv
<1>2. /\ Values' = [q \in Storage \cup {File} |->
                      IF q = s THEN NoValues ELSE Values[q]]
      /\ Names' = [q \in Storage \cup {File} |->
                      IF q = s THEN NoPeers ELSE Names[q]]
  BY <1>1 DEF Values, Names, tables
<1> QED
  BY <1>2 DEF Promise!Forget, Promise!Place, Promise!NoAnswer, NoAnswer, NoValues, NoPeers

LEMMA CloseRefines ==
  ASSUME IInv, NEW s \in Storage, MemoryClose(s) \/ SqliteClose(s)
  PROVE  Promise!Close(s)
<1>1. Promise!Forget({s})
  BY ForgetRefines DEF MemoryClose, SqliteClose, tables
<1>2. PlaceOf[s] # None /\ s \notin Busy
  BY Places DEF MemoryClose, SqliteClose
<1>3. UNCHANGED <<PlaceOf, Busy>>
  BY DEF MemoryClose, SqliteClose, PlaceOf, Busy
<1>4. Open' = IF PlaceOf[s] = File THEN Open \ {s} ELSE Open
  <2>1. CASE MemoryClose(s)
    BY <2>1, Places DEF MemoryClose, Open
  <2>2. CASE SqliteClose(s)
    BY <2>2, Places DEF SqliteClose, Open
  <2> QED
    BY <2>1, <2>2
<1> QED
  BY <1>1, <1>2, <1>3, <1>4 DEF Promise!Close

LEMMA ReleaseRefines ==
  ASSUME IInv, NEW s \in Storage, Release(s)
  PROVE  Promise!Release(s)
<1>1. Promise!Forget({s})
  BY ForgetRefines DEF Release, tables
<1>2. PlaceOf[s] # None /\ s \notin Busy
  BY Places DEF Release
<1>3. Busy' = Busy
  BY DEF Release, Busy
<1>4. PlaceOf' = [PlaceOf EXCEPT ![s] = None] /\ Open' = Open \ {s}
  <2>1. /\ impl' = [impl EXCEPT ![s] = None] /\ db' = db \ {s}
        /\ None # "memory" /\ None # "sqlite" /\ impl \in [Storage -> {"memory", "sqlite", None}]
    BY DEF Release, IInv, TypeOK
  <2> QED
    BY <2>1 DEF PlaceOf, Open
<1> QED
  BY <1>1, <1>2, <1>3, <1>4 DEF Promise!Release

LEMMA CrashRefines ==
  ASSUME IInv, Crash
  PROVE  Promise!Crash
<1>1. /\ Values' = [q \in Storage \cup {File} |->
                      IF q \in Storage THEN NoValues ELSE Values[q]]
      /\ Names' = [q \in Storage \cup {File} |->
                      IF q \in Storage THEN NoPeers ELSE Names[q]]
  BY DEF Crash, tables, Values, Names
<1>2. Promise!Forget(Storage)
  BY <1>1 DEF Crash, Promise!Forget, Promise!Place, Promise!NoAnswer, NoAnswer, NoValues, NoPeers
<1>3. PlaceOf' = [s \in Storage |-> None] /\ Open' = {} /\ Busy' = {}
  BY DEF Crash, PlaceOf, Open, Busy
<1> QED
  BY <1>2, <1>3 DEF Promise!Crash

(* Which calls Perform allows, operation by operation.                     *)
LEMMA AbstractCall == Promise!Call = Call
BY DEF Promise!Call, Call

(* What the file keeps of a text, and what memory does.                    *)
LEMMA KeptTexts ==
  /\ \A t : Promise!Kept(File, t) = Cut(t)
  /\ \A s \in Storage : \A t : Promise!Kept(s, t) = t
BY DEF Promise!Kept, Cut

LEMMA MemoryRefines ==
  ASSUME IInv, NEW s \in Storage, MemoryCall(s), ~MemoryClose(s)
  PROVE  \E c \in Call : \E x \in Found : Promise!Perform(s, c, x, "done")
<1> USE DEF memory, tables
<1>1. /\ impl[s] = "memory" /\ UNCHANGED <<impl, db, stmt, tables>>
  BY DEF MemoryCall, MemorySetValue, MemoryDeleteValue, MemoryGetValue, MemorySavePeer,
         MemoryGetPeer, MemoryGetPeerByUsername, InMemory
<1>2. UNCHANGED <<PlaceOf, Open, Busy>>
  BY <1>1 DEF PlaceOf, Open, Busy
<1>3. /\ PlaceOf[s] = s /\ s \in Open /\ s \notin Busy /\ s # File /\ None # s
      /\ Values[s] = kv_[s] /\ Names[s] = peers_[s]
  BY <1>1, Places
<1>4. Busy' = Busy \ {s}
  BY <1>2, <1>3
<1>5. ASSUME NEW c \in Call, NEW x \in Found, Done(s, c, x),
             (x = None /\ Promise!Write(s, c)) \/ Promise!Lookup(s, c, x)
      PROVE  Promise!Perform(s, c, x, "done")
  BY <1>2, <1>3, <1>4, <1>5 DEF Promise!Perform, Done, Answer
<1>n. None \in Found
  BY DEF Found
<1>6. ASSUME NEW k \in Key, NEW v \in Value, MemorySetValue(s, k, v)
      PROVE  \E c \in Call : \E x \in Found : Promise!Perform(s, c, x, "done")
  <2> PICK c \in Call : c = [op |-> "set_value", of |-> k, to |-> v]
    BY CallTypes
  <2>1. Values' = [Values EXCEPT ![s] = [@ EXCEPT ![c.of] = c.to]] /\ Names' = Names
    BY <1>1, <1>3, <1>6 DEF MemorySetValue, Values, Names, IInv, TypeOK
  <2>2. Promise!Write(s, c)
    BY <1>3, <2>1, KeptTexts DEF Promise!Write
  <2> QED
    BY <1>5, <1>6, <1>n, <2>2 DEF MemorySetValue
<1>7. ASSUME NEW k \in Key, MemoryDeleteValue(s, k)
      PROVE  \E c \in Call : \E x \in Found : Promise!Perform(s, c, x, "done")
  <2> PICK c \in Call : c = [op |-> "delete_value", of |-> k, to |-> None]
    BY CallTypes
  <2>1. Values' = [Values EXCEPT ![s] = [@ EXCEPT ![c.of] = c.to]] /\ Names' = Names
    BY <1>1, <1>3, <1>7 DEF MemoryDeleteValue, Values, Names, IInv, TypeOK
  <2>2. Promise!Write(s, c)
    BY <1>3, <2>1, KeptTexts DEF Promise!Write
  <2> QED
    BY <1>5, <1>7, <1>n, <2>2 DEF MemoryDeleteValue
<1>8. ASSUME NEW p \in PeerId, NEW n \in Name, MemorySavePeer(s, p, n)
      PROVE  \E c \in Call : \E x \in Found : Promise!Perform(s, c, x, "done")
  <2> PICK c \in Call : c = [op |-> "save_peer", of |-> p, to |-> n]
    BY CallTypes
  <2>1. Names' = [Names EXCEPT ![s] = [@ EXCEPT ![c.of] = c.to]] /\ Values' = Values
    BY <1>1, <1>3, <1>8 DEF MemorySavePeer, Values, Names, IInv, TypeOK
  <2>2. Promise!Write(s, c)
    BY <1>3, <2>1, KeptTexts DEF Promise!Write
  <2> QED
    BY <1>5, <1>8, <1>n, <2>2 DEF MemorySavePeer
<1>9. ASSUME UNCHANGED memory
      PROVE  UNCHANGED <<Values, Names>>
  BY <1>1, <1>9 DEF Values, Names
<1>10. ASSUME NEW k \in Key, MemoryGetValue(s, k)
       PROVE  \E c \in Call : \E x \in Found : Promise!Perform(s, c, x, "done")
  <2> PICK c \in Call : c = [op |-> "get_value", of |-> k, to |-> None]
    BY CallTypes
  <2> PICK x \in Found : x = kv_[s][k]
    BY DEF Found, IInv, TypeOK
  <2>1. Promise!Lookup(s, c, x)
    BY <1>3, <1>9, <1>10, KeptTexts DEF MemoryGetValue, Promise!Lookup, Promise!Finds
  <2> QED
    BY <1>5, <1>10, <2>1 DEF MemoryGetValue
<1>11. ASSUME NEW p \in PeerId, MemoryGetPeer(s, p)
       PROVE  \E c \in Call : \E x \in Found : Promise!Perform(s, c, x, "done")
  <2> PICK c \in Call : c = [op |-> "get_peer", of |-> p, to |-> None]
    BY CallTypes
  <2> PICK x \in Found : x = peers_[s][p]
    BY DEF Found, IInv, TypeOK
  <2>1. Promise!Lookup(s, c, x)
    BY <1>3, <1>9, <1>11, KeptTexts DEF MemoryGetPeer, Promise!Lookup, Promise!Finds
  <2> QED
    BY <1>5, <1>11, <2>1 DEF MemoryGetPeer
<1>12. ASSUME NEW n \in Name, MemoryGetPeerByUsername(s, n)
       PROVE  \E c \in Call : \E x \in Found : Promise!Perform(s, c, x, "done")
  <2> PICK c \in Call : c = [op |-> "get_peer_by_username", of |-> n, to |-> None]
    BY CallTypes
  <2> PICK x \in Found : x = Filed(s, n)
    BY <1>1, FiledIsHolder
  <2>1. \/ x \in PeerId /\ peers_[s][x] # None
        \/ x = None /\ (n = NoName \/ \A p \in PeerId : peers_[s][p] # n)
    <3>1. username_to_id_[s][n] \in PeerId \cup {None}
      BY DEF IInv, TypeOK
    <3>2. n # NoName =>
            /\ username_to_id_[s][n] = None => \A q \in PeerId : peers_[s][q] # n
            /\ username_to_id_[s][n] # None => peers_[s][username_to_id_[s][n]] # None
      BY DEF IInv, IndexInv
    <3> QED
      BY <3>1, <3>2 DEF Filed
  <2>2. Promise!Lookup(s, c, x)
    BY <1>3, <1>9, <1>12, <2>1, KeptTexts DEF MemoryGetPeerByUsername, Promise!Lookup, Promise!Finds
  <2> QED
    BY <1>5, <1>12, <2>2 DEF MemoryGetPeerByUsername
<1> QED
  BY <1>6, <1>7, <1>8, <1>10, <1>11, <1>12 DEF MemoryCall

LEMMA SqliteCallRefines ==
  ASSUME IInv, NEW s \in Storage, NEW c \in Call
  PROVE  /\ Prepare(s, c) => Promise!Begin(s)
         /\ CallClosed(s, c) => Promise!Perform(s, c, None, "closed")
<1>1. ASSUME Prepare(s, c)
      PROVE  Promise!Begin(s)
  <2>1. PlaceOf[s] # None /\ UNCHANGED <<PlaceOf, Open, Values, Names, answer>>
    BY <1>1, Places DEF Prepare, memory, tables, PlaceOf, Open, Values, Names
  <2>2. Busy' = Busy \cup {s}
    BY <1>1 DEF Prepare, Busy, IInv, TypeOK
  <2> QED
    BY <2>1, <2>2 DEF Promise!Begin
<1>2. ASSUME CallClosed(s, c)
      PROVE  Promise!Perform(s, c, None, "closed")
  <2>1. UNCHANGED <<PlaceOf, Open, Busy, Values, Names>>
    BY <1>2 DEF CallClosed, memory, tables, PlaceOf, Open, Busy, Values, Names
  <2>2. PlaceOf[s] # None /\ s \notin Open /\ s \notin Busy
    BY <1>2, Places, StatementOnFile DEF CallClosed
  <2>3. Promise!NotDone(s, "closed") /\ Busy' = Busy \ {s}
    BY <2>1, <2>2 DEF Promise!NotDone
  <2> QED
    BY <1>2, <2>1, <2>2, <2>3 DEF CallClosed, Answer, Promise!Perform
<1> QED
  BY <1>1, <1>2

LEMMA SqliteStepRefines ==
  ASSUME IInv, NEW s \in Storage, SqliteStep(s)
  PROVE  \E c \in Call : \E x \in Found : \E how \in {"done", "failed"} :
           Promise!Perform(s, c, x, how)
<1>1. /\ stmt[s] # None /\ stmt' = [stmt EXCEPT ![s] = None]
      /\ UNCHANGED <<impl, memory, db>>
  BY DEF SqliteStep, SqliteSetValue, SqliteDeleteValue, SqliteGetValue, SqliteSavePeer,
         SqliteGetPeer, SqliteGetPeerByUsername, StepFails, Step, tables
<1>2. /\ s \in db /\ impl[s] = "sqlite" /\ PlaceOf[s] = File /\ s \in Open
      /\ PlaceOf[s] # None /\ Values[File] = kv_store /\ Names[File] = peers
  BY <1>1, StatementOnFile, Places
<1> PICK c \in Call : c = stmt[s]
  BY <1>1, StatementOnFile
<1>3. UNCHANGED <<PlaceOf, Open>> /\ Busy' = Busy \ {s}
  BY <1>1 DEF PlaceOf, Open, Busy, IInv, TypeOK
<1>4. ASSUME NEW x \in Found, Done(s, c, x),
             (x = None /\ Promise!Write(s, c)) \/ Promise!Lookup(s, c, x)
      PROVE  Promise!Perform(s, c, x, "done")
  BY <1>2, <1>3, <1>4 DEF Promise!Perform, Done, Answer
<1>5. /\ Values' = [Values EXCEPT ![File] = kv_store']
      /\ Names' = [Names EXCEPT ![File] = peers']
  BY <1>1 DEF memory, Values, Names
<1>6. UNCHANGED kv_store => Values' = Values
  BY <1>1 DEF memory, Values
<1>7. UNCHANGED peers => Names' = Names
  BY <1>1 DEF memory, Names
<1> USE DEF Step
<1>8. CASE SqliteSetValue(s) \/ SqliteDeleteValue(s)
  <2>1. /\ c.op \in {"set_value", "delete_value"} /\ Names' = Names
        /\ Values' = [Values EXCEPT ![File] = [@ EXCEPT ![Cut(c.of)] = Cut(c.to)]]
    BY <1>2, <1>5, <1>7, <1>8, CallArguments DEF SqliteSetValue, SqliteDeleteValue, Cut
  <2>2. Promise!Write(s, c)
    BY <1>2, <2>1, KeptTexts DEF Promise!Write
  <2> QED
    BY <1>4, <1>8, <2>2, StatementTypes DEF SqliteSetValue, SqliteDeleteValue
<1>9. CASE SqliteSavePeer(s)
  <2>1. /\ c.op = "save_peer" /\ Values' = Values
        /\ Names' = [Names EXCEPT ![File] = [@ EXCEPT ![c.of] = Cut(c.to)]]
    BY <1>2, <1>5, <1>6, <1>9 DEF SqliteSavePeer
  <2>2. Promise!Write(s, c)
    BY <1>2, <2>1, KeptTexts DEF Promise!Write
  <2> QED
    BY <1>4, <1>9, <2>2, StatementTypes DEF SqliteSavePeer
<1>10. CASE SqliteGetValue(s)
  <2>0. Cut(c.of) \in Key
    BY <1>10, CallArguments, CutTypes DEF SqliteGetValue
  <2> PICK x : x = kv_store[Cut(c.of)]
    OBVIOUS
  <2>1. /\ c.op = "get_value" /\ x \in Found /\ Done(s, c, x)
        /\ UNCHANGED <<Values, Names>>
    BY <1>6, <1>7, <1>10, <2>0, StatementTypes DEF SqliteGetValue, tables, FileInv, IInv
  <2>2. Promise!Lookup(s, c, x)
    BY <1>2, <2>1, KeptTexts DEF Promise!Lookup, Promise!Finds
  <2> QED
    BY <1>4, <2>1, <2>2
<1>11. CASE SqliteGetPeer(s)
  <2> PICK x : x = peers[c.of]
    OBVIOUS
  <2>1. /\ c.op = "get_peer" /\ x \in Found /\ Done(s, c, x)
        /\ UNCHANGED <<Values, Names>>
    BY <1>6, <1>7, <1>11, CallArguments, StatementTypes
    DEF SqliteGetPeer, tables, FileInv, IInv
  <2>2. Promise!Lookup(s, c, x)
    BY <1>2, <2>1 DEF Promise!Lookup, Promise!Finds
  <2> QED
    BY <1>4, <2>1, <2>2
<1>12. CASE SqliteGetPeerByUsername(s)
  <2>1. /\ c.op = "get_peer_by_username" /\ c.of \in Name
        /\ UNCHANGED <<Values, Names>>
    BY <1>6, <1>7, <1>12, CallArguments DEF SqliteGetPeerByUsername, tables
  <2>2. PICK x \in PeerId \cup {None} :
          /\ Done(s, c, x)
          /\ \/ x \in PeerId /\ peers[x] = Cut(c.of)
             \/ x = None /\ \A p \in PeerId : peers[p] # Cut(c.of)
    BY <1>12 DEF SqliteGetPeerByUsername, Rows
  <2>3. x \in Found /\ Cut(c.of) # None
    BY <2>1, StatementTypes, CutTypes
  <2>4. Promise!Lookup(s, c, x)
    BY <1>2, <2>1, <2>2, <2>3, KeptTexts DEF Promise!Lookup, Promise!Finds
  <2> QED
    BY <1>4, <2>2, <2>3, <2>4
<1>13. CASE StepFails(s)
  <2>1. Promise!NotDone(s, "failed")
    BY <1>2 DEF Promise!NotDone
  <2>2. UNCHANGED <<Values, Names>> /\ Answer(s, c, None, "failed")
    BY <1>6, <1>7, <1>13 DEF StepFails, tables
  <2>3. Promise!Perform(s, c, None, "failed")
    BY <1>2, <1>3, <2>1, <2>2 DEF Promise!Perform, Answer
  <2> QED
    BY <2>3, StatementTypes
<1> QED
  BY <1>8, <1>9, <1>10, <1>11, <1>12, <1>13 DEF SqliteStep

LEMMA NextRefines == IInv /\ [Next]_vars => [Promise!Next]_(Promise!vars)
<1> SUFFICES ASSUME IInv, [Next]_vars
             PROVE  Promise!Next \/ UNCHANGED AbstractVars
  BY DEF AbstractVars, Promise!vars
<1>1. ASSUME NEW s \in Storage, NEW c \in Call, NEW x \in Found,
             NEW how \in {"done", "failed", "closed"}, Promise!Perform(s, c, x, how)
      PROVE  Promise!Next
  BY <1>1, AbstractCall DEF Promise!Next, Found
<1>2. ASSUME NEW s \in Storage, CreateMemory(s) \/ CreateSqlite(s) \/ Release(s)
      PROVE  Promise!Next
  BY <1>2, CreateRefines, ReleaseRefines DEF Promise!Next
<1>3. ASSUME NEW s \in Storage, MemoryCall(s)
      PROVE  Promise!Next
  BY <1>1, <1>3, MemoryRefines, CloseRefines DEF Promise!Next
<1>4. ASSUME NEW s \in Storage, SqliteCall(s)
      PROVE  Promise!Next
  <2>1. None \in Found
    BY DEF Found
  <2>2. Promise!Begin(s) => Promise!Next
    BY DEF Promise!Next
  <2>3. Promise!Close(s) => Promise!Next
    BY DEF Promise!Next
  <2> QED
    BY <1>1, <1>4, <2>1, <2>2, <2>3, SqliteCallRefines, SqliteStepRefines, CloseRefines
    DEF SqliteCall
<1>5. CASE UNCHANGED vars
  BY <1>5 DEF vars, memory, tables, AbstractVars, PlaceOf, Open, Busy, Values, Names
<1>6. CASE Crash
  BY <1>6, CrashRefines DEF Promise!Next
<1> QED
  BY <1>2, <1>3, <1>4, <1>5, <1>6 DEF Next

(* Both implementations keep the promise of SessionStore, with texts cut   *)
(* at their first NUL in the file: a call that is done takes effect at one *)
(* moment and on the place of its storage alone, one that fails or finds   *)
(* the handle closed has no effect at all, and what is in the file         *)
(* survives.                                                               *)
THEOREM StorageImplementsStore == Spec => ImplementsStore
<1> QED
  BY InitRefines, NextRefines, Invariance, PTL DEF Spec, ImplementsStore, Promise!Spec
=============================================================================
