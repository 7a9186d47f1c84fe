---------------------------- MODULE SessionStore ----------------------------
(***************************************************************************)
(* What ISessionStorage (include/cppgram/storage.hpp) promises the         *)
(* application, whichever implementation create_storage picks. A storage   *)
(* is a view of a place: its own memory, or the file it shares with every  *)
(* storage of the same path. Each call takes effect at one moment, or has  *)
(* none: when the storage is closed, or when the file fails. The file      *)
(* survives what happens to the storages.                                  *)
(***************************************************************************)
CONSTANTS Storage,  \* the objects create_storage returns
          File,     \* the database file
          Key, Value, PeerId,
          Name,     \* usernames
          NoName,   \* the empty username
          None,     \* absent
          InFile    \* what the file keeps of a text

VARIABLES place,    \* where a storage keeps its content
          open,     \* storages that have not been closed
          busy,     \* storages with a call under way
          values,   \* content: the value of each key
          names,    \* content: the username of each peer that is stored
          answer    \* the last call that returned: its result, and whether
                    \* it was done, failed in the file, or found it closed

vars == <<place, open, busy, values, names, answer>>

Place == Storage \cup {File}

Call ==
       [op : {"set_value"},            of : Key,    to : Value]
  \cup [op : {"delete_value"},         of : Key,    to : {None}]
  \cup [op : {"get_value"},            of : Key,    to : {None}]
  \cup [op : {"save_peer"},            of : PeerId, to : Name]
  \cup [op : {"get_peer"},             of : PeerId, to : {None}]
  \cup [op : {"get_peer_by_username"}, of : Name,   to : {None}]

NoAnswer == [by |-> None, call |-> None, found |-> None, how |-> None]

(* Memory keeps a text as it is.                                           *)
Kept(q, t) == IF q = File /\ t # None THEN InFile[t] ELSE t

Empty(q) == /\ values[q] = [k \in Key |-> None]
            /\ names[q] = [p \in PeerId |-> None]

Init == /\ place = [s \in Storage |-> None]
        /\ open = {}
        /\ busy = {}
        /\ \A q \in Place : Empty(q)
        /\ DOMAIN values = Place /\ DOMAIN names = Place
        /\ answer = NoAnswer

(* A call may come to nothing, and the caller is not told.                 *)
NotDone(s, how) ==
  \/ how = "closed" /\ s \notin open
  \/ how = "failed" /\ s \in open /\ place[s] = File

Write(s, c) ==
  LET q == place[s] IN
  \/ /\ c.op \in {"set_value", "delete_value"}
     /\ values' = [values EXCEPT ![q] = [@ EXCEPT ![Kept(q, c.of)] = Kept(q, c.to)]]
     /\ UNCHANGED names
  \/ /\ c.op = "save_peer"
     /\ names' = [names EXCEPT ![q] = [@ EXCEPT ![c.of] = Kept(q, c.to)]]
     /\ UNCHANGED values

(* A peer found by its username is stored, and some peer is found if one   *)
(* has that username; which one is SessionStorage's LookupByName.          *)
Finds(s, c, x) ==
  LET q == place[s] IN
  \/ c.op = "get_value" /\ x = values[q][Kept(q, c.of)]
  \/ c.op = "get_peer"  /\ x = names[q][c.of]
  \/ /\ c.op = "get_peer_by_username"
     /\ \/ x \in PeerId /\ names[q][x] # None
        \/ x = None /\ (c.of = NoName \/ \A p \in PeerId : names[q][p] # Kept(q, c.of))

Lookup(s, c, x) == Finds(s, c, x) /\ UNCHANGED <<values, names>>

Begin(s) ==
  /\ place[s] # None
  /\ busy' = busy \cup {s}
  /\ UNCHANGED <<place, open, values, names, answer>>

Perform(s, c, x, how) ==
  /\ answer' = [by |-> s, call |-> c, found |-> x, how |-> how]
  /\ place[s] # None
  /\ \/ /\ how = "done" /\ s \in open
        /\ (x = None /\ Write(s, c)) \/ Lookup(s, c, x)
     \/ NotDone(s, how) /\ x = None /\ UNCHANGED <<values, names>>
  /\ busy' = busy \ {s}
  /\ UNCHANGED <<place, open>>

Create(s, q) ==
  /\ place[s] = None
  /\ q \in {s, File}
  /\ place' = [place EXCEPT ![s] = q]
  /\ open' = open \cup {s}
  /\ UNCHANGED <<busy, values, names, answer>>

(* The content of storage s in memory is forgotten, that of the file kept. *)
Forget(S) ==
  /\ values' = [q \in Place |->
                  IF q \in S THEN [k \in Key |-> None] ELSE values[q]]
  /\ names' = [q \in Place |->
                  IF q \in S THEN [p \in PeerId |-> None] ELSE names[q]]
  /\ answer' = NoAnswer

(* A storage in memory may be used on after close, one on a file may not.  *)
Close(s) ==
  /\ place[s] # None /\ s \notin busy
  /\ Forget({s})
  /\ open' = IF place[s] = File THEN open \ {s} ELSE open
  /\ UNCHANGED <<place, busy>>

Release(s) ==
  /\ place[s] # None /\ s \notin busy
  /\ Forget({s})
  /\ place' = [place EXCEPT ![s] = None]
  /\ open' = open \ {s}
  /\ UNCHANGED busy

(* The process ends: calls under way have no effect.                       *)
Crash ==
  /\ Forget(Storage)
  /\ place' = [s \in Storage |-> None]
  /\ open' = {}
  /\ busy' = {}

Next ==
  \/ Crash
  \/ \E s \in Storage :
       \/ Begin(s) \/ Close(s) \/ Release(s)
       \/ \E q \in {s, File} : Create(s, q)
       \/ \E c \in Call : \E x \in Value \cup PeerId \cup Name \cup {None} :
            \E how \in {"done", "failed", "closed"} : Perform(s, c, x, how)

Spec == Init /\ [][Next]_vars
=============================================================================
