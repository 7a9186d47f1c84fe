---------------------------- MODULE AccountProofs ----------------------------
(***************************************************************************)
(* Proofs about AccountPool and ClientLogin.                               *)
(*                                                                         *)
(* AccountPool: the keys and the accounts agree, turns are fair, and no    *)
(* plugin is unloaded twice or left loaded, for any number of threads,     *)
(* accounts, clients and plugins.                                          *)
(*                                                                         *)
(* ClientLogin: what the client shows, answers and returns from login      *)
(* follows TDLib's authorisation state, whatever TDLib and the application *)
(* do, and however the three threads run.                                  *)
(***************************************************************************)
EXTENDS ClientLogin, AccountPool, SequenceTheorems, FiniteSetTheorems,
        WellFoundedInduction, TLAPS

-----------------------------------------------------------------------------
(* AccountPool: the inductive invariant                                    *)

(* Where a thread is says what it holds.                                   *)
Destroying == {"destroy", "unloadAll", "hookAsks", "join"}

Unloading == {"onUnload", "unloadAll", "hookAsks"}

PlaceInv ==
  \A t \in Thread :
    /\ client[t] = None <=> pc[t] \in {"idle", "pick", "removeKey"}
    /\ plugin[t] # None <=> pc[t] = "onLoad" \/ pc[t] \in Unloading
    /\ then[t] # "idle" => pc[t] \in Destroying
    /\ pc[t] \in {"pick", "send"} \/ then[t] = "pick" => todo[t] >= 1
    /\ id[t] # None <=> pc[t] = "removeKey" \/ then[t] = "removeKey"

(* Whoever removes an account keeps the mutex until the key is gone.       *)
RemovalInv ==
  \A t \in Thread : id[t] # None => mutex = t /\ accounts[id[t]] = None

KeysInv ==
  /\ \A i, j \in DOMAIN account_keys : account_keys[i] = account_keys[j] => i = j
  /\ \A a \in Account :
       (\E i \in DOMAIN account_keys : account_keys[i] = a)
         <=> accounts[a] # None \/ \E t \in Thread : id[t] = a

(* The keys from s up to, and without, c, in the round.                    *)
Between(s, i, c) == IF s <= c THEN s <= i /\ i < c ELSE s <= i \/ i < c

(* The round began at s; those it has passed have had one turn more.       *)
Round(q, s) ==
  \A i \in 0 .. Len(account_keys) - 1 :
    turns[account_keys[i + 1]] =
      IF Between(s, i, round_robin_index % Len(account_keys)) THEN q + 1 ELSE q

TurnsInv ==
  account_keys # <<>> =>
    \E q \in 0 .. round_robin_index : \E s \in 0 .. Len(account_keys) - 1 :
      Round(q, s)

(* A client is destroyed by the only one who still refers to it, and is    *)
(* not seen again.                                                         *)
OwnerInv ==
  /\ \A a, b \in Account : accounts[a] = accounts[b] /\ accounts[a] # None => a = b
  /\ \A t \in Thread : pc[t] \in Destroying =>
       /\ \A a \in Account : accounts[a] # client[t]
       /\ \A s \in Thread : client[s] = client[t] => s = t
       /\ pc[t] # "destroy" => plugins[client[t]] = None
  /\ \A c \in fresh \cup destroyed :
       /\ \A t \in Thread : client[t] # c
       /\ \A a \in Account : accounts[a] # c
  /\ \A c \in destroyed : c \notin fresh /\ plugins[c] = None

(* A plugin that was loaded is in the map, or somebody unloads it, or has. *)
Unloads(t, p) == plugin[t] = p /\ pc[t] \in Unloading

Loads(t, p) == plugin[t] = p /\ pc[t] = "onLoad"

Mapped(p) == home[p] # None /\ plugins[home[p]] = p

HomeInv ==
  /\ \A c \in Client : plugins[c] # None => home[plugins[c]] = c
  /\ \A t \in Thread : plugin[t] # None => home[plugin[t]] = client[t]

LifeInv ==
  \A p \in Plugin :
    /\ home[p] = None => unloads[p] = 0 /\ p \notin loaded
    /\ unloads[p] <= 1
    /\ Mapped(p) => unloads[p] = 0
    /\ p \in loaded \ evicted =>
         Mapped(p) \/ unloads[p] = 1 \/ \E t \in Thread : Unloads(t, p)
    /\ \A t \in Thread :
         /\ Unloads(t, p) => ~Mapped(p) /\ unloads[p] = 0
         /\ Loads(t, p) => p \notin loaded
         /\ Loads(t, p) /\ p \notin evicted =>
              Mapped(p) \/ unloads[p] = 1 \/ \E s \in Thread : Unloads(s, p)
    /\ \A s, t \in Thread :
         /\ Unloads(s, p) /\ Unloads(t, p) => s = t
         /\ Loads(s, p) /\ Loads(t, p) => s = t

PoolInv == /\ PoolTypeOK /\ PlaceInv /\ RemovalInv /\ KeysInv
           /\ TurnsInv /\ OwnerInv /\ HomeInv /\ LifeInv
-----------------------------------------------------------------------------
(* Induction without an operator parameter: over sets of naturals.         *)
LEMMA Upward ==
  ASSUME NEW L \in Nat, NEW T, 0 \in T,
         \A o \in 0 .. L - 1 : o \in T => o + 1 \in T
  PROVE  0 .. L \subseteq T
<1> SUFFICES ASSUME NEW o \in 0 .. L, o \notin T PROVE FALSE
  OBVIOUS
<1> DEFINE U == {k \in 0 .. L : k \notin T}
<1>1. U \in SUBSET Nat /\ U # {}
  OBVIOUS
<1>2. IsWellFoundedOn(OpToRel(<, Nat), Nat)
  BY NatLessThanWellFounded
<1>3. PICK x \in U : \A y \in U : <<y, x>> \notin OpToRel(<, Nat)
  <2> HIDE DEF U
  <2> QED
    BY <1>1, <1>2, WFMin
<1>4. \A y \in U : ~(y < x)
  BY <1>1, <1>3 DEF OpToRel
<1>5. x \in 0 .. L /\ x \notin T /\ x # 0
  BY <1>3
<1>6. x - 1 \in 0 .. L - 1 /\ x - 1 < x /\ (x - 1) + 1 = x
  BY <1>5
<1>7. x - 1 \in T
  BY <1>4, <1>6
<1> QED
  BY <1>5, <1>6, <1>7

-----------------------------------------------------------------------------
(* What std::remove leaves                                                 *)

IsKept(kept, keys, a) ==
  kept = [i \in 0 .. Len(keys) |->
            IF i = 0 THEN <<>>
            ELSE IF keys[i] = a THEN kept[i - 1] ELSE Append(kept[i - 1], keys[i])]

LEMMA KeptExists ==
  ASSUME NEW keys \in Seq(Account), NEW a
  PROVE  \E kept : IsKept(kept, keys, a)
<1> DEFINE At(f, i) == IF i = 0 THEN <<>>
                       ELSE IF keys[i] = a THEN f[i - 1] ELSE Append(f[i - 1], keys[i])
           T == {n \in 0 .. Len(keys) : \E f : f = [i \in 0 .. n |-> At(f, i)]}
<1>1. Len(keys) \in Nat
  OBVIOUS
<1>2. 0 \in T
  <2> DEFINE f == [i \in 0 .. 0 |-> <<>>]
  <2>1. f = [i \in 0 .. 0 |-> At(f, i)]
    OBVIOUS
  <2>2. 0 \in 0 .. Len(keys)
    BY <1>1
  <2> HIDE DEF f, At
  <2> QED
    BY <2>1, <2>2
<1>3. ASSUME NEW n \in 0 .. Len(keys) - 1, n \in T PROVE n + 1 \in T
  <2>1. PICK f : f = [i \in 0 .. n |-> At(f, i)]
    BY <1>3
  <2> DEFINE g == [i \in 0 .. n + 1 |-> IF i <= n THEN f[i] ELSE At(f, n + 1)]
  <2>2. \A i \in 0 .. n : g[i] = f[i]
    BY <1>1
  <2>3. ASSUME NEW i \in 0 .. n + 1 PROVE At(g, i) = At(f, i)
    <3>1. i = 0 \/ i - 1 \in 0 .. n
      BY <1>1
    <3> HIDE DEF g
    <3> QED
      BY <2>2, <3>1
  <2>4. ASSUME NEW i \in 0 .. n + 1 PROVE g[i] = At(g, i)
    <3> HIDE DEF At
    <3>1. CASE i <= n
      <4>1. i \in 0 .. n
        BY <1>1, <3>1
      <4>2. f[i] = At(f, i)
        BY <2>1, <4>1
      <4> QED
        BY <2>3, <3>1, <4>2
    <3>2. CASE ~(i <= n)
      <4>1. i = n + 1
        BY <1>1, <3>2
      <4> QED
        BY <2>3, <3>2, <4>1
    <3> QED
      BY <3>1, <3>2
  <2>5. g = [i \in 0 .. n + 1 |-> At(g, i)]
    <3> HIDE DEF At
    <3> QED
      BY <2>4
  <2>6. n + 1 \in 0 .. Len(keys)
    BY <1>1
  <2> QED
    BY <2>5, <2>6
<1>4. Len(keys) \in T
  <2> DEFINE L == Len(keys)
  <2>1. 0 .. L \subseteq T
    <3>1. L \in Nat /\ \A n \in 0 .. L - 1 : n \in T => n + 1 \in T
      BY <1>1, <1>3
    <3> HIDE DEF T, L
    <3> QED
      BY <1>2, <3>1, Upward
  <2> QED
    BY <1>1, <2>1
<1> QED
  BY <1>4 DEF IsKept

(* s has the first n keys but for a, each once.                            *)
Keeps(s, keys, a, n) ==
  /\ s \in Seq(Account)
  /\ \A j \in DOMAIN s : s[j] # a /\ \E i \in 1 .. n : keys[i] = s[j]
  /\ \A i \in 1 .. n : keys[i] # a => \E j \in DOMAIN s : s[j] = keys[i]
  /\ \A i, j \in DOMAIN s : s[i] = s[j] => i = j

LEMMA WithoutKeeps ==
  ASSUME NEW keys \in Seq(Account), NEW a,
         \A i, j \in DOMAIN keys : keys[i] = keys[j] => i = j
  PROVE  Keeps(Without(keys, a), keys, a, Len(keys))
<1> DEFINE kept == CHOOSE f : IsKept(f, keys, a)
<1>1. IsKept(kept, keys, a)
  BY KeptExists
<1>2. Without(keys, a) = kept[Len(keys)]
  BY DEF Without, IsKept
<1> HIDE DEF kept
<1> DEFINE T == {n \in 0 .. Len(keys) : Keeps(kept[n], keys, a, n)}
<1>3. Len(keys) \in Nat /\ DOMAIN keys = 1 .. Len(keys)
  OBVIOUS
<1>4. 0 \in T
  <2>1. 0 \in 0 .. Len(keys)
    BY <1>3
  <2>2. kept[0] = <<>>
    BY <1>1, <2>1 DEF IsKept
  <2>3. Keeps(<<>>, keys, a, 0)
    BY DEF Keeps
  <2> QED
    BY <2>1, <2>2, <2>3
<1>5. ASSUME NEW n \in 0 .. Len(keys) - 1, n \in T PROVE n + 1 \in T
  <2> DEFINE s == kept[n]
             x == keys[n + 1]
  <2>1. n + 1 \in 1 .. Len(keys) /\ n + 1 \in 0 .. Len(keys) /\ (n + 1) - 1 = n
    BY <1>3
  <2>2. kept[n + 1] = IF x = a THEN s ELSE Append(s, x)
    <3>1. n + 1 # 0
      BY <1>3
    <3> QED
      BY <1>1, <2>1, <3>1 DEF IsKept
  <2>3. Keeps(s, keys, a, n)
    BY <1>5
  <2>4. x \in Account
    BY <1>3, <2>1
  <2>5. \A i \in 1 .. n : keys[i] # x
    BY <1>3, <2>1
  <2>6. \A i \in 1 .. n + 1 : i \in 1 .. n \/ i = n + 1
    OBVIOUS
  <2> HIDE DEF s, x
  <2>7. CASE x = a
    <3>1. keys[n + 1] = a
      BY <2>7 DEF x
    <3>2. Keeps(s, keys, a, n + 1)
      BY <2>3, <2>6, <3>1 DEF Keeps
    <3> QED
      BY <2>1, <2>2, <2>7, <3>2
  <2>8. CASE x # a
    <3> DEFINE r == Append(s, x)
    <3>1. /\ r \in Seq(Account) /\ DOMAIN s = 1 .. Len(s) /\ Len(s) \in Nat
          /\ DOMAIN r = 1 .. Len(s) + 1
          /\ \A j \in 1 .. Len(s) : r[j] = s[j]
          /\ r[Len(s) + 1] = x
      BY <2>3, <2>4 DEF Keeps
    <3> HIDE DEF r
    <3>2. \A j \in DOMAIN r : j \in DOMAIN s \/ j = Len(s) + 1
      BY <3>1
    <3>3. DOMAIN s \subseteq DOMAIN r /\ Len(s) + 1 \in DOMAIN r
      BY <3>1
    <3>4. keys[n + 1] = x
      BY DEF x
    <3>5. \A j \in DOMAIN s : s[j] # x
      BY <2>3, <2>5 DEF Keeps
    <3>6. \A j \in DOMAIN r : r[j] # a /\ \E i \in 1 .. n + 1 : keys[i] = r[j]
      <4> SUFFICES ASSUME NEW j \in DOMAIN r
                   PROVE  r[j] # a /\ \E i \in 1 .. n + 1 : keys[i] = r[j]
        OBVIOUS
      <4>1. CASE j \in DOMAIN s
        <5>1. r[j] = s[j]
          BY <3>1, <4>1
        <5>2. s[j] # a /\ \E i \in 1 .. n : keys[i] = s[j]
          BY <2>3, <4>1 DEF Keeps
        <5>3. 1 .. n \subseteq 1 .. n + 1
          OBVIOUS
        <5> QED
          BY <5>1, <5>2, <5>3
      <4>2. CASE j = Len(s) + 1
        BY <2>1, <2>8, <3>1, <3>4, <4>2
      <4> QED
        BY <3>2, <4>1, <4>2
    <3>7. \A i \in 1 .. n + 1 : keys[i] # a => \E j \in DOMAIN r : r[j] = keys[i]
      <4> SUFFICES ASSUME NEW i \in 1 .. n + 1, keys[i] # a
                   PROVE  \E j \in DOMAIN r : r[j] = keys[i]
        OBVIOUS
      <4>1. CASE i \in 1 .. n
        <5>1. PICK j \in DOMAIN s : s[j] = keys[i]
          BY <2>3, <4>1 DEF Keeps
        <5> QED
          BY <3>1, <3>3, <5>1
      <4>2. CASE i = n + 1
        BY <3>1, <3>3, <3>4, <4>2
      <4> QED
        BY <2>6, <4>1, <4>2
    <3>8. \A i, j \in DOMAIN r : r[i] = r[j] => i = j
      <4>1. \A i, j \in DOMAIN s : s[i] = s[j] => i = j
        BY <2>3 DEF Keeps
      <4>2. \A j \in DOMAIN s : r[j] = s[j] /\ r[j] # x
        BY <3>1, <3>5
      <4>3. r[Len(s) + 1] = x
        BY <3>1
      <4> QED
        BY <3>2, <4>1, <4>2, <4>3
    <3>9. Keeps(r, keys, a, n + 1)
      BY <3>1, <3>6, <3>7, <3>8 DEF Keeps
    <3>10. kept[n + 1] = r
      BY <2>2, <2>8 DEF r
    <3> QED
      BY <2>1, <3>9, <3>10
  <2> QED
    BY <2>7, <2>8
<1>6. Len(keys) \in T
  <2> DEFINE L == Len(keys)
  <2>1. 0 .. L \subseteq T
    <3>1. L \in Nat /\ \A n \in 0 .. L - 1 : n \in T => n + 1 \in T
      BY <1>3, <1>5
    <3> HIDE DEF T, L
    <3> QED
      BY <1>4, <3>1, Upward
  <2> QED
    BY <1>3, <2>1
<1> QED
  BY <1>2, <1>6

(* A sequence without repetitions has as many elements as places.          *)
LEMMA DistinctCount ==
  ASSUME NEW keys \in Seq(Account),
         \A i, j \in DOMAIN keys : keys[i] = keys[j] => i = j
  PROVE  Cardinality({keys[i] : i \in DOMAIN keys}) = Len(keys)
<1> DEFINE n == Len(keys)
           S == {keys[i] : i \in DOMAIN keys}
<1>1. n \in Nat /\ DOMAIN keys = 1 .. n
  OBVIOUS
<1>2. IsFiniteSet(1 .. n) /\ Cardinality(1 .. n) = n
  BY <1>1, FS_Interval
<1>3. keys \in Bijection(1 .. n, S)
  BY <1>1 DEF Bijection, Injection, Surjection, IsInjective
<1>4. ExistsBijection(1 .. n, S)
  BY <1>3 DEF ExistsBijection
<1> HIDE DEF n, S
<1>5. Cardinality(S) = Cardinality(1 .. n)
  BY <1>2, <1>4, FS_Bijection
<1> QED
  BY <1>2, <1>5 DEF n, S

-----------------------------------------------------------------------------
(* The next place in a round                                               *)

LEMMA RemainderRange ==
  ASSUME NEW d \in Nat \ {0}, NEW n \in Nat
  PROVE  /\ n \div d \in Nat /\ n % d \in 0 .. d - 1
         /\ n = (n \div d) * d + (n % d)
  OBVIOUS

LEMMA RemainderUnique ==
  ASSUME NEW d \in Nat \ {0}, NEW k \in Nat, NEW j \in 0 .. d - 1
  PROVE  (k * d + j) % d = j
<1> DEFINE n == k * d + j
           q == n \div d
           r == n % d
<1>1. n \in Nat
  OBVIOUS
<1>2. q \in Nat /\ r \in 0 .. d - 1 /\ n = q * d + r
  <2> HIDE DEF n
  <2> QED
    BY <1>1, RemainderRange
<1> HIDE DEF q, r
<1>3. ASSUME NEW a \in Nat, NEW b \in Nat, a < b PROVE b * d >= a * d + d
  BY <1>3
<1>4. q = k
  BY <1>1, <1>2, <1>3
<1>5. r = j
  BY <1>1, <1>2, <1>4
<1> QED
  BY <1>5 DEF r

LEMMA NextPlace ==
  ASSUME NEW d \in Nat \ {0}, NEW k \in Nat
  PROVE  (k + 1) % d = IF k % d = d - 1 THEN 0 ELSE (k % d) + 1
<1> DEFINE q == k \div d
           r == k % d
<1>1. q \in Nat /\ r \in 0 .. d - 1 /\ k = q * d + r
  BY RemainderRange
<1> HIDE DEF q, r
<1>2. CASE r = d - 1
  <2>1. k + 1 = (q + 1) * d + 0
    BY <1>1, <1>2
  <2>2. ((q + 1) * d + 0) % d = 0
    <3>1. q + 1 \in Nat /\ 0 \in 0 .. d - 1
      BY <1>1
    <3> QED
      BY <3>1, RemainderUnique
  <2> QED
    BY <1>2, <2>1, <2>2 DEF r
<1>3. CASE r # d - 1
  <2>1. k + 1 = q * d + (r + 1) /\ r + 1 \in 0 .. d - 1
    BY <1>1, <1>3
  <2>2. (q * d + (r + 1)) % d = r + 1
    BY <1>1, <2>1, RemainderUnique
  <2> QED
    BY <1>3, <2>1, <2>2 DEF r
<1> QED
  BY <1>2, <1>3
-----------------------------------------------------------------------------
LEMMA PoolInitInv == PoolInit => PoolInv
<1> SUFFICES ASSUME PoolInit PROVE PoolInv
  OBVIOUS
<1> USE DEF PoolInit, PluginInit
<1>1. PoolTypeOK
  BY PoolAssumption DEF PoolTypeOK, PluginTypeOK, ThreadPC
<1>2. PlaceInv /\ RemovalInv /\ TurnsInv
  BY DEF PlaceInv, RemovalInv, TurnsInv, Destroying, Unloading
<1>3. KeysInv
  BY PoolAssumption DEF KeysInv
<1>4. OwnerInv
  BY NoneAssumption DEF OwnerInv, Destroying
<1>5. HomeInv /\ LifeInv
  <2>1. \A t \in Thread, p \in Plugin : ~Unloads(t, p) /\ ~Loads(t, p)
    BY DEF Unloads, Loads, Unloading
  <2> QED
    BY <2>1 DEF HomeInv, LifeInv, Mapped
<1> QED
  BY <1>1, <1>2, <1>3, <1>4, <1>5 DEF PoolInv

-----------------------------------------------------------------------------
(* Types                                                                   *)

LEMMA DropTypes ==
  ASSUME PoolTypeOK, NEW t \in Thread, NEW where \in {"idle", "pick"}, Drop(t, where)
  PROVE  /\ pc' \in [Thread -> ThreadPC]
         /\ client' \in [Thread -> Client \cup {None}]
         /\ then' \in [Thread -> {"idle", "pick", "removeKey"}]
BY DEF PoolTypeOK, Drop, Goes, ThreadPC

LEMMA TakesOutTypes ==
  ASSUME PoolTypeOK, NEW t \in Thread, NEW c \in Client,
         NEW where \in {"idle", "removeKey"}, TakesOut(t, c, where)
  PROVE  /\ pc' \in [Thread -> ThreadPC]
         /\ client' \in [Thread -> Client \cup {None}]
         /\ then' \in [Thread -> {"idle", "pick", "removeKey"}]
         /\ mutex' \in Thread \cup {None}
BY DEF PoolTypeOK, TakesOut, Goes, ThreadPC

(* The place in the round is a place of the keys.                          *)
LEMMA PlaceInRound ==
  ASSUME PoolTypeOK, account_keys # <<>>
  PROVE  /\ Len(account_keys) \in Nat \ {0}
         /\ round_robin_index % Len(account_keys) \in 0 .. Len(account_keys) - 1
         /\ (round_robin_index % Len(account_keys)) + 1 \in DOMAIN account_keys
         /\ DOMAIN account_keys = 1 .. Len(account_keys)
<1> DEFINE n == Len(account_keys)
<1>1. account_keys \in Seq(Account) /\ round_robin_index \in Nat
  BY DEF PoolTypeOK
<1>2. n \in Nat \ {0} /\ DOMAIN account_keys = 1 .. n
  BY <1>1
<1> HIDE DEF n
<1>3. round_robin_index % n \in 0 .. n - 1
  BY <1>1, <1>2, RemainderRange
<1>4. (round_robin_index % n) + 1 \in 1 .. n
  BY <1>2, <1>3
<1> QED
  BY <1>2, <1>3, <1>4 DEF n

LEMMA PluginTypes ==
  ASSUME PoolTypeOK, PlaceInv, NEW t \in Thread, PluginCall(t) \/ PluginGoesOn(t)
  PROVE  PoolTypeOK'
<1> USE DEF PoolTypeOK, PluginTypeOK, ThreadPC, Goes, poolVars, threadVars, clientVars
<1>0. /\ client[t] = None <=> pc[t] \in {"idle", "pick", "removeKey"}
      /\ plugin[t] # None <=> pc[t] = "onLoad" \/ pc[t] \in Unloading
      /\ client[t] \in Client \cup {None} /\ plugin[t] \in Plugin \cup {None}
  BY DEF PlaceInv
<1>1. ASSUME NEW p \in Plugin, Register(t, p), PluginCall(t) PROVE PoolTypeOK'
  BY <1>0, <1>1 DEF Register, PluginCall
<1>2. ASSUME Unregister(t), PluginCall(t) PROVE PoolTypeOK'
  BY <1>0, <1>2 DEF Unregister, PluginCall
<1>3. ASSUME OnLoadReturns(t), PluginGoesOn(t) PROVE PoolTypeOK'
  BY <1>0, <1>3 DEF OnLoadReturns, PluginGoesOn
<1>4. ASSUME OnLoadThrows(t), PluginGoesOn(t) PROVE PoolTypeOK'
  <2>1. client[t] \in Client
    BY <1>0, <1>4 DEF OnLoadThrows
  <2>2. plugins[client[t]] \in Plugin \cup {None}
    BY <2>1
  <2>3. evicted' \subseteq Plugin
    BY <1>4, <2>2 DEF OnLoadThrows
  <2> QED
    BY <1>0, <1>4, <2>1, <2>3 DEF OnLoadThrows, PluginGoesOn
<1>5. ASSUME OnUnload(t) \/ OnUnloadAll(t), PluginGoesOn(t) PROVE PoolTypeOK'
  <2>1. plugin[t] \in Plugin
    BY <1>0, <1>5 DEF OnUnload, OnUnloadAll, Unloading
  <2>2. /\ unloads' = [unloads EXCEPT ![plugin[t]] = @ + 1]
        /\ plugin' = [plugin EXCEPT ![t] = None]
        /\ UNCHANGED <<client, plugins, home, loaded, evicted>>
        /\ pc' = [pc EXCEPT ![t] = "using"] \/ pc' = [pc EXCEPT ![t] = "join"]
    BY <1>5 DEF OnUnload, OnUnloadAll, RunOnUnload
  <2>3. unloads' \in [Plugin -> Nat] /\ plugin' \in [Thread -> Plugin \cup {None}]
    BY <2>1, <2>2
  <2>4. pc' \in [Thread -> ThreadPC]
    BY <2>2
  <2> QED
    BY <1>5, <2>2, <2>3, <2>4 DEF PluginGoesOn
<1>6. ASSUME UnloadAll(t), PluginGoesOn(t) PROVE PoolTypeOK'
  <2>1. client[t] \in Client
    BY <1>0, <1>6 DEF UnloadAll
  <2> QED
    BY <1>0, <1>6, <2>1 DEF UnloadAll, PluginGoesOn
<1> QED
  BY <1>1, <1>2, <1>3, <1>4, <1>5, <1>6 DEF PluginCall, PluginGoesOn

LEMMA TypeStep ==
  ASSUME PoolInv, PoolNext
  PROVE  PoolTypeOK'
<1> USE DEF PoolTypeOK, PluginTypeOK, Goes, pluginVars, poolVars, threadVars, clientVars
<1>0. PoolTypeOK /\ PlaceInv /\ KeysInv
  BY DEF PoolInv
<1>1. ASSUME NEW t \in Thread, NEW a \in Account, NEW c \in Client, AddAccount(t, a, c)
      PROVE  PoolTypeOK'
  <2>0. /\ accounts' = [accounts EXCEPT ![a] = c] /\ fresh' = fresh \ {c}
        /\ account_keys' = account_keys \/ account_keys' = Append(account_keys, a)
        /\ turns' = turns \/ turns' = NoTurns
    BY <1>1 DEF AddAccount, NewAccount, ReplacedAccount
  <2>1. /\ accounts' \in [Account -> Client \cup {None}] /\ fresh' \subseteq Client
        /\ turns' \in [Account -> Nat] /\ account_keys' \in Seq(Account)
    <3>1. account_keys' \in Seq(Account)
      <4>1. account_keys \in Seq(Account)
        BY <1>0
      <4> QED
        BY <2>0, <4>1
    <3>2. turns' \in [Account -> Nat]
      BY <1>0, <2>0 DEF NoTurns
    <3>3. accounts' \in [Account -> Client \cup {None}] /\ fresh' \subseteq Client
      BY <1>0, <2>0
    <3> QED
      BY <3>1, <3>2, <3>3
  <2>2. CASE NewAccount(t, a, c)
    BY <1>0, <1>1, <2>1, <2>2 DEF AddAccount, NewAccount
  <2>3. CASE ReplacedAccount(t, a, c)
    <3>1. accounts[a] \in Client /\ TakesOut(t, accounts[a], "idle")
      BY <1>0, <2>3 DEF ReplacedAccount
    <3>2. /\ pc' \in [Thread -> ThreadPC]
          /\ client' \in [Thread -> Client \cup {None}]
          /\ then' \in [Thread -> {"idle", "pick", "removeKey"}]
          /\ mutex' \in Thread \cup {None}
      BY <1>0, <3>1, TakesOutTypes
    <3> QED
      BY <1>0, <1>1, <2>1, <3>2 DEF AddAccount
  <2> QED
    BY <1>1, <2>2, <2>3 DEF AddAccount
<1>2. ASSUME NEW t \in Thread, NEW a \in Account, RemoveAccount(t, a) PROVE PoolTypeOK'
  <2>1. accounts[a] \in Client /\ TakesOut(t, accounts[a], "removeKey")
    BY <1>0, <1>2 DEF RemoveAccount
  <2>2. /\ pc' \in [Thread -> ThreadPC]
        /\ client' \in [Thread -> Client \cup {None}]
        /\ then' \in [Thread -> {"idle", "pick", "removeKey"}]
        /\ mutex' \in Thread \cup {None}
    BY <1>0, <2>1, TakesOutTypes
  <2>3. id' \in [Thread -> Account \cup {None}]
    BY <1>0, <1>2 DEF RemoveAccount
  <2> QED
    BY <1>0, <1>2, <2>2, <2>3 DEF RemoveAccount
<1>3. ASSUME NEW t \in Thread, RemoveKey(t) PROVE PoolTypeOK'
  <2>1. Keeps(Without(account_keys, id[t]), account_keys, id[t], Len(account_keys))
    BY <1>0, WithoutKeeps DEF KeysInv
  <2>2. account_keys' \in Seq(Account)
    BY <1>3, <2>1 DEF RemoveKey, Keeps
  <2>3. turns' \in [Account -> Nat]
    BY <1>3 DEF RemoveKey, NoTurns
  <2> QED
    BY <1>0, <1>3, <2>2, <2>3 DEF RemoveKey, ThreadPC
<1>4. ASSUME NEW t \in Thread, NEW a \in Account, GetAccount(t, a) PROVE PoolTypeOK'
  BY <1>0, <1>4 DEF GetAccount, ThreadPC
<1>5. ASSUME NEW t \in Thread, Release(t) PROVE PoolTypeOK'
  BY <1>0, <1>5, DropTypes DEF Release
<1>6. ASSUME NEW t \in Thread, Broadcast(t) PROVE PoolTypeOK'
  <2>1. todo' \in [Thread -> 0 .. Chats]
    BY <1>0, <1>6, PoolAssumption DEF Broadcast
  <2> QED
    BY <1>0, <1>6, <2>1 DEF Broadcast, ThreadPC
<1>7. ASSUME NEW t \in Thread, GetNextAccount(t) PROVE PoolTypeOK'
  <2> DEFINE a == account_keys[(round_robin_index % Len(account_keys)) + 1]
  <2>1. a \in Account
    BY <1>0, <1>7, PlaceInRound DEF GetNextAccount
  <2>2. client' = [client EXCEPT ![t] = accounts[a]] /\ turns' = [turns EXCEPT ![a] = @ + 1]
    BY <1>7 DEF GetNextAccount
  <2> HIDE DEF a
  <2>3. client' \in [Thread -> Client \cup {None}] /\ turns' \in [Account -> Nat]
    BY <1>0, <2>1, <2>2
  <2>4. round_robin_index' \in Nat
    BY <1>0, <1>7 DEF GetNextAccount, NextIndex
  <2> QED
    BY <1>0, <1>7, <2>3, <2>4 DEF GetNextAccount, ThreadPC
<1>8. ASSUME NEW t \in Thread, pc[t] \in {"pick", "send"}, NextChat(t)
      PROVE  /\ todo' \in [Thread -> 0 .. Chats] /\ id' \in [Thread -> Account \cup {None}]
             /\ AfterChat(t) \in {"idle", "pick"}
  <2>1. todo[t] \in 1 .. Chats
    BY <1>0, <1>8, PoolAssumption DEF PlaceInv
  <2>2. todo[t] - 1 \in 0 .. Chats
    BY <2>1, PoolAssumption
  <2> QED
    BY <1>0, <1>8, <2>2 DEF NextChat, AfterChat
<1>9. ASSUME NEW t \in Thread, NoNextAccount(t) PROVE PoolTypeOK'
  <2>1. /\ todo' \in [Thread -> 0 .. Chats] /\ id' \in [Thread -> Account \cup {None}]
        /\ AfterChat(t) \in {"idle", "pick"}
    BY <1>8, <1>9 DEF NoNextAccount
  <2> QED
    BY <1>0, <1>9, <2>1 DEF NoNextAccount, ThreadPC
<1>10. ASSUME NEW t \in Thread, SendEnds(t) PROVE PoolTypeOK'
  <2>1. /\ todo' \in [Thread -> 0 .. Chats] /\ id' \in [Thread -> Account \cup {None}]
        /\ AfterChat(t) \in {"idle", "pick"}
    BY <1>8, <1>10 DEF SendEnds
  <2>2. /\ pc' \in [Thread -> ThreadPC]
        /\ client' \in [Thread -> Client \cup {None}]
        /\ then' \in [Thread -> {"idle", "pick", "removeKey"}]
    BY <1>0, <1>10, <2>1, DropTypes DEF SendEnds
  <2> QED
    BY <1>0, <1>10, <2>1, <2>2 DEF SendEnds
<1>11. ASSUME NEW t \in Thread, HookAsks(t) PROVE PoolTypeOK'
  BY <1>0, <1>11 DEF HookAsks, ThreadPC
<1>12. ASSUME NEW t \in Thread, HookAnswered(t) PROVE PoolTypeOK'
  <2>1. plugin[t] \in Plugin
    BY <1>0, <1>12 DEF HookAnswered, PlaceInv, Unloading
  <2> QED
    BY <1>0, <1>12, <2>1 DEF HookAnswered, RunOnUnload, ThreadPC
<1>13. ASSUME NEW t \in Thread, JoinHandlers(t) PROVE PoolTypeOK'
  <2>1. client[t] \in Client
    BY <1>0, <1>13 DEF JoinHandlers, PlaceInv
  <2> QED
    BY <1>0, <1>13, <2>1 DEF JoinHandlers, ThreadPC
<1>14. ASSUME NEW c \in Client, HandlerAsks(c) PROVE PoolTypeOK'
  BY <1>0, <1>14, PoolAssumption DEF HandlerAsks
<1>15. ASSUME NEW c \in Client, HandlerAnswered(c) PROVE PoolTypeOK'
  BY <1>0, <1>15 DEF HandlerAnswered
<1>16. ASSUME NEW t \in Thread, PluginCall(t) \/ PluginGoesOn(t) PROVE PoolTypeOK'
  BY <1>0, <1>16, PluginTypes
<1> QED
  BY <1>1, <1>2, <1>3, <1>4, <1>5, <1>6, <1>7, <1>9, <1>10, <1>11, <1>12, <1>13, <1>14,
     <1>15, <1>16 DEF PoolNext, Call, NeedsMutex, GoesOn
-----------------------------------------------------------------------------
(* Places                                                                  *)

(* The key whose turn it is has a client: nobody removes one meanwhile.    *)
LEMMA NextIsThere ==
  ASSUME PoolInv, NEW t \in Thread, GetNextAccount(t)
  PROVE  \E a \in Account : accounts[a] # None /\ client' = [client EXCEPT ![t] = accounts[a]]
<1> DEFINE i == (round_robin_index % Len(account_keys)) + 1
           a == account_keys[i]
<1>1. PoolTypeOK /\ account_keys # <<>> /\ Unlocked
  BY DEF GetNextAccount, PoolInv
<1>2. i \in DOMAIN account_keys /\ a \in Account
  BY <1>1, PlaceInRound DEF PoolTypeOK
<1>3. \E j \in DOMAIN account_keys : account_keys[j] = a
  BY <1>2
<1>4. client' = [client EXCEPT ![t] = accounts[a]]
  BY DEF GetNextAccount
<1> HIDE DEF a, i
<1>5. accounts[a] # None
  BY <1>1, <1>2, <1>3, NoneAssumption, PoolAssumption DEF PoolInv, KeysInv, RemovalInv, Unlocked
<1> QED
  BY <1>2, <1>4, <1>5

LEMMA PlaceStep ==
  ASSUME PoolInv, PoolNext
  PROVE  PlaceInv'
<1> USE DEF PlaceInv, Destroying, Unloading, Goes, threadVars
<1>0. PoolTypeOK /\ PlaceInv
  BY DEF PoolInv
<1>1. /\ pc \in [Thread -> ThreadPC] /\ client \in [Thread -> Client \cup {None}]
      /\ plugin \in [Thread -> Plugin \cup {None}]
      /\ then \in [Thread -> {"idle", "pick", "removeKey"}]
      /\ todo \in [Thread -> 0 .. Chats] /\ id \in [Thread -> Account \cup {None}]
      /\ accounts \in [Account -> Client \cup {None}]
      /\ plugins \in [Client -> Plugin \cup {None}]
  BY <1>0 DEF PoolTypeOK, PluginTypeOK
<1>2. None \notin Account \cup Client \cup Plugin
  BY NoneAssumption, PoolAssumption
<1>3. ASSUME NEW t \in Thread, NEW a \in Account, NEW c \in Client, AddAccount(t, a, c)
      PROVE  PlaceInv'
  <2>1. CASE NewAccount(t, a, c)
    BY <1>0, <1>3, <2>1 DEF AddAccount, NewAccount, pluginVars
  <2>2. CASE ReplacedAccount(t, a, c)
    BY <1>0, <1>1, <1>2, <1>3, <2>2 DEF AddAccount, ReplacedAccount, TakesOut, pluginVars
  <2> QED
    BY <1>3, <2>1, <2>2 DEF AddAccount
<1>4. ASSUME NEW t \in Thread, NEW a \in Account, RemoveAccount(t, a) PROVE PlaceInv'
  BY <1>0, <1>1, <1>2, <1>4 DEF RemoveAccount, TakesOut, pluginVars
<1>5. ASSUME NEW t \in Thread, RemoveKey(t) PROVE PlaceInv'
  BY <1>0, <1>1, <1>5 DEF RemoveKey, pluginVars
<1>6. ASSUME NEW t \in Thread, NEW a \in Account, GetAccount(t, a) PROVE PlaceInv'
  BY <1>0, <1>1, <1>6 DEF GetAccount, pluginVars
<1>7. ASSUME NEW t \in Thread, Release(t) PROVE PlaceInv'
  BY <1>0, <1>1, <1>7 DEF Release, Drop, pluginVars
<1>8. ASSUME NEW t \in Thread, Broadcast(t) PROVE PlaceInv'
  BY <1>0, <1>1, <1>8, PoolAssumption DEF Broadcast, pluginVars
<1>9. ASSUME NEW t \in Thread, GetNextAccount(t) PROVE PlaceInv'
  <2>1. \E a \in Account : accounts[a] # None /\ client' = [client EXCEPT ![t] = accounts[a]]
    BY <1>9, NextIsThere
  <2> QED
    BY <1>0, <1>1, <1>9, <2>1 DEF GetNextAccount, pluginVars
<1>10. ASSUME NEW t \in Thread, NoNextAccount(t) PROVE PlaceInv'
  BY <1>0, <1>1, <1>10 DEF NoNextAccount, NextChat, AfterChat, pluginVars
<1>11. ASSUME NEW t \in Thread, SendEnds(t) PROVE PlaceInv'
  BY <1>0, <1>1, <1>11 DEF SendEnds, NextChat, AfterChat, Drop, pluginVars
<1>12. ASSUME NEW t \in Thread, HookAsks(t) PROVE PlaceInv'
  BY <1>0, <1>1, <1>12 DEF HookAsks, pluginVars
<1>13. ASSUME NEW t \in Thread, HookAnswered(t) PROVE PlaceInv'
  BY <1>0, <1>1, <1>13 DEF HookAnswered, RunOnUnload
<1>14. ASSUME NEW t \in Thread, JoinHandlers(t) PROVE PlaceInv'
  BY <1>0, <1>1, <1>14 DEF JoinHandlers, pluginVars
<1>15. ASSUME NEW c \in Client, HandlerAsks(c) \/ HandlerAnswered(c) PROVE PlaceInv'
  BY <1>0, <1>15 DEF HandlerAsks, HandlerAnswered, pluginVars
<1>16. ASSUME NEW t \in Thread, PluginCall(t) PROVE PlaceInv'
  BY <1>0, <1>1, <1>2, <1>16 DEF PluginCall, Register, Unregister
<1>17. ASSUME NEW t \in Thread, PluginGoesOn(t) PROVE PlaceInv'
  BY <1>0, <1>1, <1>17
  DEF PluginGoesOn, OnLoadReturns, OnLoadThrows, OnUnload, UnloadAll, OnUnloadAll, RunOnUnload
<1> QED
  BY <1>3, <1>4, <1>5, <1>6, <1>7, <1>8, <1>9, <1>10, <1>11, <1>12, <1>13, <1>14,
     <1>15, <1>16, <1>17 DEF PoolNext, Call, NeedsMutex, GoesOn

-----------------------------------------------------------------------------
(* The keys, and the mutex                                                 *)

(* Who else touches what the pool keeps of its accounts.                   *)
LEMMA PoolKept ==
  ASSUME PoolNext
  PROVE  \/ \E t \in Thread, a \in Account, c \in Client : AddAccount(t, a, c)
         \/ \E t \in Thread, a \in Account : RemoveAccount(t, a)
         \/ \E t \in Thread : RemoveKey(t) \/ GetNextAccount(t) \/ JoinHandlers(t)
         \/ UNCHANGED <<poolVars, id>>
<1> USE DEF poolVars, threadVars
<1>1. ASSUME NEW t \in Thread, NEW a \in Account, GetAccount(t, a)
      PROVE  UNCHANGED <<poolVars, id>>
  BY <1>1 DEF GetAccount
<1>2. ASSUME NEW t \in Thread, Release(t) \/ Broadcast(t) \/ HookAsks(t)
      PROVE  UNCHANGED <<poolVars, id>>
  BY <1>2 DEF Release, Broadcast, HookAsks
<1>3. ASSUME NEW t \in Thread, NoNextAccount(t) \/ HookAnswered(t) \/ SendEnds(t)
      PROVE  UNCHANGED <<poolVars, id>>
  BY <1>3 DEF NoNextAccount, HookAnswered, SendEnds, NextChat
<1>4. ASSUME NEW t \in Thread, PluginCall(t) \/ PluginGoesOn(t)
      PROVE  UNCHANGED <<poolVars, id>>
  BY <1>4 DEF PluginCall, PluginGoesOn
<1>5. ASSUME NEW c \in Client, HandlerAsks(c) \/ HandlerAnswered(c)
      PROVE  UNCHANGED <<poolVars, id>>
  BY <1>5 DEF HandlerAsks, HandlerAnswered
<1> QED
  BY <1>1, <1>2, <1>3, <1>4, <1>5 DEF PoolNext, Call, NeedsMutex, GoesOn

LEMMA RemovalStep ==
  ASSUME PoolInv, PoolNext
  PROVE  RemovalInv'
<1>0. PoolTypeOK /\ PlaceInv /\ RemovalInv
  BY DEF PoolInv
<1>1. /\ id \in [Thread -> Account \cup {None}]
      /\ accounts \in [Account -> Client \cup {None}]
      /\ None \notin Account \cup Client \cup Thread
  BY <1>0, NoneAssumption, PoolAssumption DEF PoolTypeOK
<1>2. ASSUME NEW t \in Thread, NEW a \in Account, NEW c \in Client, AddAccount(t, a, c)
      PROVE  RemovalInv'
  BY <1>0, <1>1, <1>2 DEF AddAccount, RemovalInv, Unlocked
<1>3. ASSUME NEW t \in Thread, NEW a \in Account, RemoveAccount(t, a) PROVE RemovalInv'
  <2>1. \A s \in Thread : id[s] = None
    BY <1>0, <1>1, <1>3 DEF RemoveAccount, RemovalInv, Unlocked
  <2>2. mutex' = t
    BY <1>3 DEF RemoveAccount, TakesOut
  <2>3. id' = [id EXCEPT ![t] = a] /\ accounts' = [accounts EXCEPT ![a] = None]
    BY <1>3 DEF RemoveAccount
  <2> QED
    BY <1>1, <2>1, <2>2, <2>3 DEF RemovalInv
<1>4. ASSUME NEW t \in Thread, RemoveKey(t) PROVE RemovalInv'
  BY <1>0, <1>1, <1>4 DEF RemoveKey, RemovalInv, PlaceInv
<1>5. ASSUME NEW t \in Thread, GetNextAccount(t) PROVE RemovalInv'
  BY <1>0, <1>5 DEF GetNextAccount, RemovalInv, threadVars
<1>6. ASSUME NEW t \in Thread, JoinHandlers(t) PROVE RemovalInv'
  BY <1>0, <1>1, <1>6 DEF JoinHandlers, RemovalInv, PlaceInv
<1>7. CASE UNCHANGED <<poolVars, id>>
  BY <1>0, <1>7 DEF RemovalInv, poolVars
<1> QED
  BY <1>2, <1>3, <1>4, <1>5, <1>6, <1>7, PoolKept

(* Between the two erasures of remove_account the key has no client.       *)
LEMMA KeysStep ==
  ASSUME PoolInv, PoolNext
  PROVE  KeysInv'
<1>0. PoolTypeOK /\ PlaceInv /\ RemovalInv /\ KeysInv
  BY DEF PoolInv
<1>1. /\ id \in [Thread -> Account \cup {None}]
      /\ accounts \in [Account -> Client \cup {None}]
      /\ account_keys \in Seq(Account)
      /\ None \notin Account \cup Client \cup Thread
  BY <1>0, NoneAssumption, PoolAssumption DEF PoolTypeOK
<1>2. ASSUME NEW t \in Thread, NEW a \in Account, NEW c \in Client, AddAccount(t, a, c)
      PROVE  KeysInv'
  <2>1. accounts' = [accounts EXCEPT ![a] = c] /\ id' = id /\ c # None
    BY <1>1, <1>2 DEF AddAccount
  <2>2. \A s \in Thread : id[s] = None
    BY <1>0, <1>1, <1>2 DEF AddAccount, RemovalInv, Unlocked
  <2>3. CASE NewAccount(t, a, c)
    <3>1. /\ account_keys' = Append(account_keys, a)
          /\ \A i \in DOMAIN account_keys : account_keys[i] # a
      BY <1>0, <1>1, <2>2, <2>3 DEF NewAccount, KeysInv
    <3>2. /\ DOMAIN account_keys = 1 .. Len(account_keys) /\ Len(account_keys) \in Nat
          /\ DOMAIN account_keys' = 1 .. Len(account_keys) + 1
          /\ \A i \in 1 .. Len(account_keys) : account_keys'[i] = account_keys[i]
          /\ account_keys'[Len(account_keys) + 1] = a
      BY <1>1, <3>1
    <3>3. \A i \in DOMAIN account_keys' : i \in DOMAIN account_keys \/ i = Len(account_keys) + 1
      BY <3>2
    <3>4. \A i, j \in DOMAIN account_keys' : account_keys'[i] = account_keys'[j] => i = j
      BY <1>0, <3>1, <3>2, <3>3 DEF KeysInv
    <3>5. \A b \in Account :
            (\E i \in DOMAIN account_keys' : account_keys'[i] = b)
              <=> b = a \/ \E i \in DOMAIN account_keys : account_keys[i] = b
      BY <3>2, <3>3
    <3> QED
      BY <1>0, <1>1, <2>1, <2>2, <3>4, <3>5 DEF KeysInv
  <2>4. CASE ReplacedAccount(t, a, c)
    <3>1. accounts[a] # None /\ account_keys' = account_keys
      BY <2>4 DEF ReplacedAccount
    <3> QED
      BY <1>0, <1>1, <2>1, <3>1 DEF KeysInv
  <2> QED
    BY <1>2, <2>3, <2>4 DEF AddAccount
<1>3. ASSUME NEW t \in Thread, NEW a \in Account, RemoveAccount(t, a) PROVE KeysInv'
  <2>1. \A s \in Thread : id[s] = None
    BY <1>0, <1>1, <1>3 DEF RemoveAccount, RemovalInv, Unlocked
  <2>2. /\ accounts' = [accounts EXCEPT ![a] = None] /\ id' = [id EXCEPT ![t] = a]
        /\ account_keys' = account_keys /\ accounts[a] # None
    BY <1>3 DEF RemoveAccount
  <2> QED
    BY <1>0, <1>1, <2>1, <2>2 DEF KeysInv
<1>4. ASSUME NEW t \in Thread, RemoveKey(t) PROVE KeysInv'
  <2> DEFINE a == id[t]
  <2>1. a # None /\ mutex = t /\ accounts[a] = None
    BY <1>0, <1>4 DEF RemoveKey, PlaceInv, RemovalInv
  <2>2. \A s \in Thread : s # t => id[s] = None
    BY <1>0, <2>1 DEF RemovalInv
  <2>3. Keeps(Without(account_keys, a), account_keys, a, Len(account_keys))
    BY <1>0, <1>1, WithoutKeeps DEF KeysInv
  <2>4. account_keys' = Without(account_keys, a) /\ id' = [id EXCEPT ![t] = None]
        /\ accounts' = accounts
    BY <1>4 DEF RemoveKey
  <2>5. DOMAIN account_keys = 1 .. Len(account_keys)
    BY <1>1
  <2>6. /\ \A i, j \in DOMAIN account_keys' : account_keys'[i] = account_keys'[j] => i = j
        /\ \A b \in Account : (\E i \in DOMAIN account_keys' : account_keys'[i] = b)
             <=> b # a /\ \E i \in DOMAIN account_keys : account_keys[i] = b
    BY <2>3, <2>4, <2>5 DEF Keeps
  <2> HIDE DEF a
  <2>7. \A s \in Thread : id'[s] = None
    BY <1>1, <2>2, <2>4
  <2>8. \A b \in Account : (\E s \in Thread : id[s] = b) <=> b = a
    BY <1>1, <2>2 DEF a
  <2> QED
    BY <1>0, <1>1, <2>1, <2>4, <2>6, <2>7, <2>8 DEF KeysInv
<1>5. ASSUME NEW t \in Thread, GetNextAccount(t) \/ JoinHandlers(t) PROVE KeysInv'
  BY <1>0, <1>5 DEF GetNextAccount, JoinHandlers, KeysInv, threadVars
<1>6. CASE UNCHANGED <<poolVars, id>>
  BY <1>0, <1>6 DEF KeysInv, poolVars
<1> QED
  BY <1>2, <1>3, <1>4, <1>5, <1>6, PoolKept
-----------------------------------------------------------------------------
(* The round                                                               *)

(* Once everybody is at the same number of turns, a round begins anywhere. *)
LEMMA RoundBegins ==
  ASSUME PoolTypeOK', turns' = NoTurns
  PROVE  TurnsInv'
<1> SUFFICES ASSUME account_keys' # <<>>
             PROVE  \E q \in 0 .. round_robin_index' : \E s \in 0 .. Len(account_keys') - 1 :
                      Round(q, s)'
  BY DEF TurnsInv
<1> DEFINE n == Len(account_keys')
<1>1. /\ n \in Nat \ {0} /\ DOMAIN account_keys' = 1 .. n
      /\ \A i \in 1 .. n : account_keys'[i] \in Account
      /\ round_robin_index' \in Nat
  <2>1. account_keys' \in Seq(Account) /\ round_robin_index' \in Nat
    BY DEF PoolTypeOK
  <2> QED
    BY <2>1
<1>2. PICK s \in 0 .. n - 1 : s = round_robin_index' % n
  <2> HIDE DEF n
  <2> QED
    BY <1>1, RemainderRange
<1>3. \A i \in 0 .. n - 1 : turns'[account_keys'[i + 1]] = 0 /\ ~Between(s, i, s)
  <2> TAKE i \in 0 .. n - 1
  <2>1. i + 1 \in 1 .. n
    BY <1>1
  <2>2. turns'[account_keys'[i + 1]] = 0
    BY <1>1, <2>1 DEF NoTurns
  <2>3. s \in Int /\ i \in Int
    BY <1>1
  <2>4. ~Between(s, i, s)
    BY <2>3 DEF Between
  <2> QED
    BY <2>2, <2>4
<1>4. Round(0, s)'
  BY <1>2, <1>3 DEF Round
<1> QED
  BY <1>1, <1>2, <1>4

(* The next account has had no more turns than any; when the round comes   *)
(* to where it began, everybody has had the same.                          *)
LEMMA RoundGoesOn ==
  ASSUME NEW n \in Nat \ {0}, NEW c \in 0 .. n - 1, NEW s \in 0 .. n - 1,
         NEW i \in 0 .. n - 1, NEW d \in 0 .. n - 1,
         d = IF c = n - 1 THEN 0 ELSE c + 1
  PROVE  /\ ~Between(s, c, c)
         /\ d # s => (Between(s, i, d) <=> Between(s, i, c) \/ i = c)
         /\ d = s => (Between(s, i, c) \/ i = c) /\ ~Between(s, i, d)
BY DEF Between

LEMMA TurnTaken ==
  ASSUME PoolInv, PoolTypeOK', NEW t \in Thread, GetNextAccount(t)
  PROVE  TurnsInv'
<1> DEFINE n == Len(account_keys)
           c == round_robin_index % n
           d == (round_robin_index + 1) % n
           a == account_keys[c + 1]
<1>1. PoolTypeOK /\ KeysInv /\ TurnsInv
  BY DEF PoolInv
<1>2. /\ account_keys # <<>> /\ account_keys' = account_keys
      /\ round_robin_index' = round_robin_index + 1
      /\ turns' = [turns EXCEPT ![a] = @ + 1]
  BY DEF GetNextAccount, NextIndex
<1>3. /\ n \in Nat \ {0} /\ c \in 0 .. n - 1 /\ c + 1 \in DOMAIN account_keys
      /\ DOMAIN account_keys = 1 .. n
  BY <1>1, <1>2, PlaceInRound
<1>4. round_robin_index \in Nat /\ turns \in [Account -> Nat] /\ account_keys \in Seq(Account)
  BY <1>1 DEF PoolTypeOK
<1>5. d = (IF c = n - 1 THEN 0 ELSE c + 1) /\ d \in 0 .. n - 1
  <2> HIDE DEF n
  <2>1. d = IF c = n - 1 THEN 0 ELSE c + 1
    BY <1>3, <1>4, NextPlace
  <2> HIDE DEF c, d
  <2> QED
    BY <1>3, <2>1
<1>6. PICK q \in 0 .. round_robin_index, s \in 0 .. n - 1 : Round(q, s)
  BY <1>1, <1>2 DEF TurnsInv
<1> DEFINE at(i) == turns[account_keys[i + 1]]
           then_(i) == turns'[account_keys[i + 1]]
<1>7. ASSUME NEW i \in 0 .. n - 1
      PROVE  /\ at(i) = IF Between(s, i, c) THEN q + 1 ELSE q
             /\ then_(i) = IF i = c THEN at(i) + 1 ELSE at(i)
  <2>1. at(i) = IF Between(s, i, c) THEN q + 1 ELSE q
    BY <1>6 DEF Round
  <2>2. i + 1 \in DOMAIN account_keys /\ account_keys[i + 1] \in Account /\ a \in Account
    BY <1>3, <1>4
  <2>3. account_keys[i + 1] = a <=> i = c
    BY <1>1, <1>3, <2>2 DEF KeysInv
  <2> HIDE DEF a, c, n
  <2>4. then_(i) = IF account_keys[i + 1] = a THEN turns[a] + 1 ELSE at(i)
    BY <1>2, <1>4, <2>2
  <2> QED
    BY <2>1, <2>3, <2>4
<1> HIDE DEF at, then_, n, c, d, a
<1>8. ASSUME NEW i \in 0 .. n - 1
      PROVE  /\ ~Between(s, c, c)
             /\ d # s => (Between(s, i, d) <=> Between(s, i, c) \/ i = c)
             /\ d = s => (Between(s, i, c) \/ i = c) /\ ~Between(s, i, d)
  BY <1>3, <1>5, RoundGoesOn
<1>9. /\ q \in Nat /\ q \in 0 .. round_robin_index' /\ q + 1 \in 0 .. round_robin_index'
      /\ Len(account_keys') = n /\ round_robin_index' % n = d
  BY <1>2, <1>4, <1>6 DEF n, d
<1>10. CASE d # s
  <2>1. \A i \in 0 .. n - 1 : then_(i) = IF Between(s, i, d) THEN q + 1 ELSE q
    BY <1>7, <1>8, <1>9, <1>10
  <2>2. Round(q, s)'
    BY <1>2, <1>9, <2>1 DEF Round, then_
  <2> QED
    BY <1>6, <1>9, <2>2 DEF TurnsInv
<1>11. CASE d = s
  <2>1. \A i \in 0 .. n - 1 : then_(i) = IF Between(s, i, d) THEN (q + 1) + 1 ELSE q + 1
    BY <1>7, <1>8, <1>9, <1>11
  <2>2. Round(q + 1, s)'
    BY <1>2, <1>9, <2>1 DEF Round, then_
  <2> QED
    BY <1>6, <1>9, <2>2 DEF TurnsInv
<1> QED
  BY <1>10, <1>11

LEMMA TurnsStep ==
  ASSUME PoolInv, PoolTypeOK', PoolNext
  PROVE  TurnsInv'
<1>0. TurnsInv
  BY DEF PoolInv
<1>1. ASSUME UNCHANGED <<account_keys, turns, round_robin_index>> PROVE TurnsInv'
  BY <1>0, <1>1 DEF TurnsInv, Round
<1>2. ASSUME NEW t \in Thread, NEW a \in Account, NEW c \in Client, AddAccount(t, a, c)
      PROVE  TurnsInv'
  BY <1>1, <1>2, RoundBegins DEF AddAccount, NewAccount, ReplacedAccount
<1>3. ASSUME NEW t \in Thread, NEW a \in Account, RemoveAccount(t, a) PROVE TurnsInv'
  BY <1>1, <1>3 DEF RemoveAccount
<1>4. ASSUME NEW t \in Thread, RemoveKey(t) PROVE TurnsInv'
  BY <1>4, RoundBegins DEF RemoveKey
<1>5. ASSUME NEW t \in Thread, GetNextAccount(t) PROVE TurnsInv'
  BY <1>5, TurnTaken
<1>6. ASSUME NEW t \in Thread, JoinHandlers(t) PROVE TurnsInv'
  BY <1>1, <1>6 DEF JoinHandlers
<1>7. CASE UNCHANGED <<poolVars, id>>
  BY <1>1, <1>7 DEF poolVars
<1> QED
  BY <1>2, <1>3, <1>4, <1>5, <1>6, <1>7, PoolKept
-----------------------------------------------------------------------------
(* Who refers to a client                                                  *)

LEMMA OwnerFrame ==
  ASSUME OwnerInv, UNCHANGED <<accounts, pc, client, plugins, fresh, destroyed>>
  PROVE  OwnerInv'
BY DEF OwnerInv

LEMMA OwnerTypes ==
  ASSUME PoolTypeOK
  PROVE  /\ pc \in [Thread -> ThreadPC] /\ client \in [Thread -> Client \cup {None}]
         /\ plugins \in [Client -> Plugin \cup {None}]
         /\ accounts \in [Account -> Client \cup {None}]
         /\ fresh \subseteq Client /\ destroyed \subseteq Client
         /\ None \notin Client
BY NoneAssumption DEF PoolTypeOK, PluginTypeOK

(* A thread that holds a client changes its own place, and its client's    *)
(* plugins.                                                                *)
LEMMA OwnerPlugins ==
  ASSUME PoolInv, NEW t \in Thread, client[t] # None,
         NEW where \in ThreadPC, pc' = [pc EXCEPT ![t] = where],
         where \in Destroying => pc[t] \in Destroying,
         NEW q \in Plugin \cup {None}, plugins' = [plugins EXCEPT ![client[t]] = q],
         pc[t] \in Destroying \ {"destroy"} => q = None,
         where \in Destroying \ {"destroy"} => q = None,
         UNCHANGED <<accounts, client, fresh, destroyed>>
  PROVE  OwnerInv'
<1>0. OwnerInv
  BY DEF PoolInv
<1>1. /\ pc \in [Thread -> ThreadPC] /\ client \in [Thread -> Client \cup {None}]
      /\ plugins \in [Client -> Plugin \cup {None}]
      /\ fresh \subseteq Client /\ destroyed \subseteq Client
  BY OwnerTypes DEF PoolInv
<1>2. client[t] \in Client /\ client[t] \notin fresh \cup destroyed
  BY <1>0, <1>1 DEF OwnerInv
<1>3. \A s \in Thread : pc'[s] \in Destroying =>
           /\ pc[s] \in Destroying
           /\ pc'[s] # "destroy" => plugins'[client[s]] = None
  <2> SUFFICES ASSUME NEW s \in Thread, pc'[s] \in Destroying
               PROVE  /\ pc[s] \in Destroying
                      /\ pc'[s] # "destroy" => plugins'[client[s]] = None
    OBVIOUS
  <2>1. CASE s = t
    BY <1>1, <1>2, <2>1
  <2>2. CASE s # t
    <3>1. pc'[s] = pc[s] /\ client[s] # client[t]
      BY <1>0, <1>1, <2>2 DEF OwnerInv
    <3> QED
      BY <1>0, <1>1, <1>2, <3>1 DEF OwnerInv
  <2> QED
    BY <2>1, <2>2
<1>4. \A c \in destroyed : plugins'[c] = None
  BY <1>0, <1>1, <1>2 DEF OwnerInv
<1> QED
  BY <1>0, <1>3, <1>4 DEF OwnerInv

(* The last reference is dropped.                                          *)
LEMMA OwnerDrop ==
  ASSUME PoolInv, NEW t \in Thread, NEW where \in {"idle", "pick"}, Drop(t, where),
         UNCHANGED <<accounts, plugins, fresh, destroyed>>
  PROVE  OwnerInv'
<1>0. OwnerInv
  BY DEF PoolInv
<1>1. /\ pc \in [Thread -> ThreadPC] /\ client \in [Thread -> Client \cup {None}]
      /\ fresh \subseteq Client /\ destroyed \subseteq Client /\ None \notin Client
  BY OwnerTypes DEF PoolInv
<1>2. CASE Pooled(client[t]) \/ \E s \in Thread \ {t} : client[s] = client[t]
  <2>1. pc' = [pc EXCEPT ![t] = where] /\ client' = [client EXCEPT ![t] = None]
    BY <1>2 DEF Drop, Goes
  <2>2. \A s \in Thread : pc'[s] \in Destroying =>
           s # t /\ pc[s] = pc'[s] /\ client'[s] = client[s] /\ client[s] # None
    BY <1>0, <1>1, <2>1 DEF Destroying, PoolInv, PlaceInv
  <2> QED
    BY <1>0, <1>1, <2>1, <2>2 DEF OwnerInv
<1>3. CASE ~(Pooled(client[t]) \/ \E s \in Thread \ {t} : client[s] = client[t])
  <2>1. pc' = [pc EXCEPT ![t] = "destroy"] /\ client' = client
    BY <1>3 DEF Drop, Goes
  <2> QED
    BY <1>0, <1>1, <1>3, <2>1 DEF OwnerInv, Destroying, Pooled
<1> QED
  BY <1>2, <1>3

(* A client leaves the pool, to make room for d or for nothing.            *)
LEMMA OwnerTakesOut ==
  ASSUME PoolInv, NEW t \in Thread, pc[t] = "idle",
         NEW a \in Account, accounts[a] # None, NEW d \in fresh \cup {None},
         accounts' = [accounts EXCEPT ![a] = d], fresh' = fresh \ {d},
         NEW where \in {"idle", "removeKey"}, TakesOut(t, accounts[a], where),
         UNCHANGED <<plugins, destroyed>>
  PROVE  OwnerInv'
<1> DEFINE c == accounts[a]
<1>0. OwnerInv /\ PlaceInv
  BY DEF PoolInv
<1>1. /\ pc \in [Thread -> ThreadPC] /\ client \in [Thread -> Client \cup {None}]
      /\ accounts \in [Account -> Client \cup {None}]
      /\ fresh \subseteq Client /\ destroyed \subseteq Client /\ None \notin Client
  BY OwnerTypes DEF PoolInv
<1>2. /\ c \in Client /\ c \notin fresh /\ c \notin destroyed /\ c # d
      /\ client[t] = None
  BY <1>0, <1>1 DEF OwnerInv, PlaceInv
<1>3. \A b \in Account : b # a => accounts'[b] = accounts[b] /\ accounts[b] # c
  BY <1>0, <1>1 DEF OwnerInv
<1>4. accounts'[a] = d
  BY <1>1
<1>5. d \in Client =>
        /\ \A s \in Thread : client[s] # d
        /\ \A b \in Account : accounts[b] # d
        /\ d \notin destroyed
  BY <1>0, <1>1 DEF OwnerInv
<1> HIDE DEF c
<1>6. \A b, e \in Account : accounts'[b] = accounts'[e] /\ accounts'[b] # None => b = e
  BY <1>0, <1>1, <1>3, <1>4, <1>5 DEF OwnerInv
<1>7. \A e \in fresh' \cup destroyed' : e # c /\ e \in fresh \cup destroyed
        /\ \A b \in Account : accounts'[b] # e
  BY <1>0, <1>1, <1>2, <1>3, <1>4, <1>5 DEF OwnerInv
<1>8. ASSUME NEW s \in Thread, pc[s] \in Destroying, pc'[s] = pc[s], client'[s] = client[s]
      PROVE  /\ \A b \in Account : accounts'[b] # client'[s]
             /\ pc'[s] # "destroy" => plugins'[client'[s]] = None
             /\ client[s] # None /\ client[s] # c
  <2>1. client[s] # None /\ client[s] # c /\ client[s] # d
    BY <1>0, <1>1, <1>5, <1>8 DEF OwnerInv, PlaceInv, Destroying, c
  <2> QED
    BY <1>0, <1>3, <1>4, <1>8, <2>1 DEF OwnerInv
<1>9. CASE Held(c)
  <2>1. pc' = [pc EXCEPT ![t] = where] /\ client' = client
    BY <1>9 DEF TakesOut, Goes, c
  <2>2. \A s \in Thread : pc'[s] \in Destroying => pc[s] = pc'[s] /\ client'[s] = client[s]
    BY <1>1, <2>1 DEF Destroying
  <2> QED
    BY <1>0, <1>6, <1>7, <1>8, <2>1, <2>2 DEF OwnerInv
<1>10. CASE ~Held(c)
  <2>1. pc' = [pc EXCEPT ![t] = "destroy"] /\ client' = [client EXCEPT ![t] = c]
    BY <1>10 DEF TakesOut, Goes, c
  <2>2. \A s \in Thread : client[s] # c
    BY <1>10 DEF Held
  <2>3. ASSUME NEW s \in Thread, pc'[s] \in Destroying
        PROVE  /\ \A b \in Account : accounts'[b] # client'[s]
               /\ \A r \in Thread : client'[r] = client'[s] => r = s
               /\ pc'[s] # "destroy" => plugins'[client'[s]] = None
    <3>1. CASE s = t
      BY <1>1, <1>2, <1>3, <1>4, <2>1, <2>2, <3>1
    <3>2. CASE s # t
      <4>1. pc'[s] = pc[s] /\ client'[s] = client[s]
        BY <1>1, <2>1, <3>2
      <4>2. \A r \in Thread : client'[r] = client[r] \/ client'[r] = c
        BY <1>1, <2>1
      <4> QED
        BY <1>0, <1>8, <2>3, <4>1, <4>2 DEF OwnerInv
    <3> QED
      BY <3>1, <3>2
  <2>4. \A e \in fresh' \cup destroyed' : \A s \in Thread : client'[s] # e
    BY <1>0, <1>1, <1>7, <2>1 DEF OwnerInv
  <2> QED
    BY <1>0, <1>6, <1>7, <2>3, <2>4 DEF OwnerInv
<1> QED
  BY <1>9, <1>10

(* A thread takes a client from the pool, or is sent on.                   *)
LEMMA OwnerTakes ==
  ASSUME PoolInv, NEW t \in Thread, pc[t] \in {"idle", "pick", "removeKey"},
         NEW where \in {"idle", "pick", "using", "send"}, pc' = [pc EXCEPT ![t] = where],
         \/ client' = client
         \/ \E a \in Account : accounts[a] # None /\ client' = [client EXCEPT ![t] = accounts[a]],
         UNCHANGED <<accounts, plugins, fresh, destroyed>>
  PROVE  OwnerInv'
<1>0. OwnerInv
  BY DEF PoolInv
<1>1. /\ pc \in [Thread -> ThreadPC] /\ client \in [Thread -> Client \cup {None}]
      /\ accounts \in [Account -> Client \cup {None}]
  BY OwnerTypes DEF PoolInv
<1>2. \A s \in Thread : pc'[s] \in Destroying =>
        s # t /\ pc[s] = pc'[s] /\ client'[s] = client[s]
  BY <1>1 DEF Destroying
<1>3. \A s \in Thread :
        \/ client'[s] = client[s]
        \/ s = t /\ \E a \in Account : accounts[a] # None /\ client'[s] = accounts[a]
  BY <1>1
<1> QED
  BY <1>0, <1>2, <1>3 DEF OwnerInv

LEMMA OwnerStep ==
  ASSUME PoolInv, PoolNext
  PROVE  OwnerInv'
<1> USE DEF Goes
<1>0. PoolTypeOK /\ PlaceInv /\ OwnerInv
  BY DEF PoolInv
<1>1. /\ pc \in [Thread -> ThreadPC] /\ client \in [Thread -> Client \cup {None}]
      /\ plugins \in [Client -> Plugin \cup {None}]
      /\ accounts \in [Account -> Client \cup {None}]
      /\ fresh \subseteq Client /\ destroyed \subseteq Client
      /\ None \notin Client
  BY <1>0, OwnerTypes
<1>2. ASSUME NEW t \in Thread, NEW a \in Account, NEW c \in Client, AddAccount(t, a, c)
      PROVE  OwnerInv'
  <2>1. /\ pc[t] = "idle" /\ c \in fresh /\ fresh' = fresh \ {c}
        /\ accounts' = [accounts EXCEPT ![a] = c]
        /\ UNCHANGED <<plugins, destroyed>>
    BY <1>2 DEF AddAccount, pluginVars
  <2>2. CASE NewAccount(t, a, c)
    <3>1. accounts[a] = None /\ UNCHANGED <<pc, client>>
      BY <2>2 DEF NewAccount
    <3>2. \A s \in Thread : client[s] # c
      BY <1>0, <2>1 DEF OwnerInv
    <3>3. \A s \in Thread : pc[s] \in Destroying => client[s] # None
      BY <1>0 DEF PlaceInv, Destroying
    <3>4. /\ \A b \in Account : b # a => accounts'[b] = accounts[b] /\ accounts[b] # c
          /\ accounts'[a] = c
      BY <1>0, <1>1, <2>1 DEF OwnerInv
    <3>5. c \notin destroyed
      BY <1>0, <2>1 DEF OwnerInv
    <3> QED
      BY <1>0, <2>1, <3>1, <3>2, <3>3, <3>4, <3>5 DEF OwnerInv
  <2>3. CASE ReplacedAccount(t, a, c)
    <3>1. accounts[a] # None /\ TakesOut(t, accounts[a], "idle")
      BY <2>3 DEF ReplacedAccount
    <3> QED
      BY <2>1, <3>1, OwnerTakesOut
  <2> QED
    BY <1>2, <2>2, <2>3 DEF AddAccount
<1>3. ASSUME NEW t \in Thread, NEW a \in Account, RemoveAccount(t, a) PROVE OwnerInv'
  <2>1. /\ pc[t] = "idle" /\ accounts[a] # None
        /\ accounts' = [accounts EXCEPT ![a] = None]
        /\ TakesOut(t, accounts[a], "removeKey")
        /\ UNCHANGED <<plugins, destroyed>> /\ fresh' = fresh \ {None}
    BY <1>1, <1>3 DEF RemoveAccount, pluginVars, clientVars
  <2> QED
    BY <2>1, OwnerTakesOut
<1>4. ASSUME NEW t \in Thread, RemoveKey(t) \/ Broadcast(t) PROVE OwnerInv'
  <2>1. /\ pc[t] \in {"idle", "pick", "removeKey"}
        /\ \E where \in {"idle", "pick", "using", "send"} : pc' = [pc EXCEPT ![t] = where]
        /\ UNCHANGED <<client, accounts, plugins, fresh, destroyed>>
    BY <1>4 DEF RemoveKey, Broadcast, pluginVars, poolVars, clientVars
  <2> QED
    BY <2>1, OwnerTakes
<1>5. ASSUME NEW t \in Thread, NoNextAccount(t) PROVE OwnerInv'
  <2>1. /\ pc[t] \in {"idle", "pick", "removeKey"}
        /\ AfterChat(t) \in {"idle", "pick", "using", "send"}
        /\ pc' = [pc EXCEPT ![t] = AfterChat(t)]
        /\ UNCHANGED <<client, accounts, plugins, fresh, destroyed>>
    BY <1>5 DEF NoNextAccount, AfterChat, pluginVars, poolVars, clientVars
  <2> QED
    BY <2>1, OwnerTakes
<1>6. ASSUME NEW t \in Thread, NEW a \in Account, GetAccount(t, a) PROVE OwnerInv'
  <2>1. /\ pc[t] \in {"idle", "pick", "removeKey"}
        /\ pc' = [pc EXCEPT ![t] = "using"]
        /\ accounts[a] # None /\ client' = [client EXCEPT ![t] = accounts[a]]
        /\ UNCHANGED <<accounts, plugins, fresh, destroyed>>
    BY <1>6 DEF GetAccount, pluginVars, poolVars, clientVars
  <2> QED
    BY <2>1, OwnerTakes
<1>7. ASSUME NEW t \in Thread, GetNextAccount(t) PROVE OwnerInv'
  <2>1. /\ pc[t] \in {"idle", "pick", "removeKey"}
        /\ pc' = [pc EXCEPT ![t] = "send"]
        /\ UNCHANGED <<accounts, plugins, fresh, destroyed>>
    BY <1>7 DEF GetNextAccount, pluginVars, clientVars
  <2>2. \E a \in Account : accounts[a] # None /\ client' = [client EXCEPT ![t] = accounts[a]]
    BY <1>7, NextIsThere
  <2> QED
    BY <2>1, <2>2, OwnerTakes
<1>8. ASSUME NEW t \in Thread, Release(t) PROVE OwnerInv'
  <2>1. Drop(t, "idle") /\ UNCHANGED <<accounts, plugins, fresh, destroyed>>
    BY <1>8 DEF Release, pluginVars, poolVars, clientVars
  <2> QED
    BY <2>1, OwnerDrop
<1>9. ASSUME NEW t \in Thread, SendEnds(t) PROVE OwnerInv'
  <2>1. /\ Drop(t, AfterChat(t)) /\ AfterChat(t) \in {"idle", "pick"}
        /\ UNCHANGED <<accounts, plugins, fresh, destroyed>>
    BY <1>9 DEF SendEnds, AfterChat, pluginVars, poolVars, clientVars
  <2> QED
    BY <2>1, OwnerDrop
<1>10. ASSUME NEW t \in Thread, HookAsks(t) \/ HookAnswered(t) PROVE OwnerInv'
  <2>1. /\ pc[t] \in {"unloadAll", "hookAsks"}
        /\ \E where \in {"hookAsks", "join"} : pc' = [pc EXCEPT ![t] = where]
        /\ UNCHANGED <<client, accounts, plugins, fresh, destroyed>>
    BY <1>10 DEF HookAsks, HookAnswered, RunOnUnload, pluginVars, poolVars, clientVars
  <2> QED
    BY <1>0, <1>1, <2>1 DEF OwnerInv, Destroying
<1>11. ASSUME NEW t \in Thread, JoinHandlers(t) PROVE OwnerInv'
  <2> DEFINE c == client[t]
  <2>1. /\ pc[t] = "join" /\ then[t] \in {"idle", "pick", "removeKey"}
        /\ destroyed' = destroyed \cup {c} /\ client' = [client EXCEPT ![t] = None]
        /\ pc' = [pc EXCEPT ![t] = then[t]]
        /\ UNCHANGED <<accounts, plugins, fresh>>
    BY <1>0, <1>11 DEF JoinHandlers, PoolTypeOK, pluginVars
  <2>2. /\ c \in Client /\ c \notin fresh /\ plugins[c] = None
        /\ \A a \in Account : accounts[a] # c
        /\ \A s \in Thread : client[s] = c => s = t
    BY <1>0, <1>1, <2>1 DEF OwnerInv, PlaceInv, Destroying
  <2>3. \A s \in Thread : pc'[s] \in Destroying =>
          s # t /\ pc[s] = pc'[s] /\ client'[s] = client[s] /\ client[s] # None
    BY <1>0, <1>1, <2>1 DEF Destroying, PlaceInv
  <2>4. \A s \in Thread : client'[s] = IF s = t THEN None ELSE client[s]
    BY <1>1, <2>1
  <2> HIDE DEF c
  <2> QED
    BY <1>0, <1>1, <2>1, <2>2, <2>3, <2>4 DEF OwnerInv
<1>12. ASSUME NEW c \in Client, HandlerAsks(c) \/ HandlerAnswered(c) PROVE OwnerInv'
  BY <1>0, <1>12, OwnerFrame DEF HandlerAsks, HandlerAnswered, pluginVars, poolVars
<1>13. ASSUME NEW t \in Thread, PluginCall(t) \/ PluginGoesOn(t) PROVE OwnerInv'
  <2>0. UNCHANGED <<accounts, fresh, destroyed>> /\ (pc[t] \notin {"idle", "pick", "removeKey"} => client[t] \in Client)
    BY <1>0, <1>1, <1>13 DEF PluginCall, PluginGoesOn, poolVars, clientVars, PlaceInv
  <2>1. ASSUME NEW p \in Plugin, Register(t, p) PROVE OwnerInv'
    <3>1. /\ pc[t] = "using" /\ pc' = [pc EXCEPT ![t] = "onLoad"]
          /\ plugins' = [plugins EXCEPT ![client[t]] = p] /\ client' = client
      BY <2>1 DEF Register
    <3> QED
      BY <1>1, <2>0, <3>1, OwnerPlugins DEF ThreadPC, Destroying
  <2>2. ASSUME Unregister(t) PROVE OwnerInv'
    <3>1. /\ pc[t] = "using" /\ pc' = [pc EXCEPT ![t] = "onUnload"]
          /\ plugins' = [plugins EXCEPT ![client[t]] = None] /\ client' = client
      BY <2>2 DEF Unregister
    <3> QED
      BY <1>1, <2>0, <3>1, OwnerPlugins DEF ThreadPC, Destroying
  <2>3. ASSUME OnLoadReturns(t) \/ OnUnload(t) PROVE OwnerInv'
    <3>1. /\ pc[t] \in {"onLoad", "onUnload"} /\ pc' = [pc EXCEPT ![t] = "using"]
          /\ UNCHANGED <<plugins, client>>
      BY <2>3 DEF OnLoadReturns, OnUnload, RunOnUnload
    <3> QED
      BY <1>0, <1>1, <2>0, <3>1 DEF OwnerInv, Destroying
  <2>4. ASSUME OnLoadThrows(t) PROVE OwnerInv'
    <3>1. /\ pc[t] = "onLoad" /\ pc' = [pc EXCEPT ![t] = "using"]
          /\ plugins' = [plugins EXCEPT ![client[t]] = None] /\ client' = client
      BY <2>4 DEF OnLoadThrows
    <3> QED
      BY <1>1, <2>0, <3>1, OwnerPlugins DEF ThreadPC, Destroying
  <2>5. ASSUME UnloadAll(t) PROVE OwnerInv'
    <3>1. /\ pc[t] = "destroy"
          /\ \E where \in {"join", "unloadAll"} : pc' = [pc EXCEPT ![t] = where]
          /\ plugins' = [plugins EXCEPT ![client[t]] = None] /\ client' = client
      BY <2>5 DEF UnloadAll
    <3> QED
      BY <1>1, <2>0, <3>1, OwnerPlugins DEF ThreadPC, Destroying
  <2>6. ASSUME OnUnloadAll(t) PROVE OwnerInv'
    <3>1. /\ pc[t] = "unloadAll" /\ pc' = [pc EXCEPT ![t] = "join"]
          /\ UNCHANGED <<plugins, client>>
      BY <2>6 DEF OnUnloadAll, RunOnUnload
    <3> QED
      BY <1>0, <1>1, <2>0, <3>1 DEF OwnerInv, Destroying
  <2> QED
    BY <1>13, <2>1, <2>2, <2>3, <2>4, <2>5, <2>6 DEF PluginCall, PluginGoesOn
<1> QED
  BY <1>2, <1>3, <1>4, <1>5, <1>6, <1>7, <1>8, <1>9, <1>10, <1>11, <1>12, <1>13
  DEF PoolNext, Call, NeedsMutex, GoesOn
-----------------------------------------------------------------------------
(* The life of a plugin                                                    *)

LEMMA LifeTypes ==
  ASSUME PoolTypeOK
  PROVE  /\ pc \in [Thread -> ThreadPC] /\ client \in [Thread -> Client \cup {None}]
         /\ plugin \in [Thread -> Plugin \cup {None}]
         /\ plugins \in [Client -> Plugin \cup {None}]
         /\ home \in [Plugin -> Client \cup {None}]
         /\ unloads \in [Plugin -> Nat]
         /\ None \notin Plugin /\ None \notin Client
BY NoneAssumption DEF PoolTypeOK, PluginTypeOK

(* A thread that runs no hook moves.                                       *)
LEMMA LifeFrame ==
  ASSUME PoolInv, NEW t \in Thread, plugin[t] = None, UNCHANGED pluginVars,
         \A s \in Thread : s # t => pc'[s] = pc[s] /\ client'[s] = client[s]
  PROVE  HomeInv' /\ LifeInv'
<1>0. HomeInv /\ LifeInv
  BY DEF PoolInv
<1>1. UNCHANGED <<plugins, plugin, home, loaded, unloads, evicted>> /\ None \notin Plugin
  BY NoneAssumption DEF pluginVars
<1>2. HomeInv'
  BY <1>0, <1>1 DEF HomeInv
<1>3. \A p \in Plugin, s \in Thread :
        /\ Unloads(s, p)' <=> Unloads(s, p)
        /\ Loads(s, p)' <=> Loads(s, p)
  BY <1>1 DEF Unloads, Loads
<1>4. \A p \in Plugin : Mapped(p)' <=> Mapped(p)
  BY <1>1 DEF Mapped
<1>5. LifeInv'
  BY <1>0, <1>1, <1>3, <1>4 DEF LifeInv
<1> QED
  BY <1>2, <1>5

LEMMA LifeRegister ==
  ASSUME PoolInv, NEW t \in Thread, NEW p \in Plugin, Register(t, p)
  PROVE  HomeInv' /\ LifeInv'
<1> DEFINE c == client[t]
<1>0. HomeInv /\ LifeInv /\ PlaceInv
  BY DEF PoolInv
<1>1. /\ pc \in [Thread -> ThreadPC] /\ client \in [Thread -> Client \cup {None}]
      /\ plugin \in [Thread -> Plugin \cup {None}]
      /\ plugins \in [Client -> Plugin \cup {None}]
      /\ home \in [Plugin -> Client \cup {None}]
      /\ unloads \in [Plugin -> Nat]
      /\ None \notin Plugin /\ None \notin Client
  BY LifeTypes DEF PoolInv
<1>2. /\ pc[t] = "using" /\ home[p] = None /\ plugins[c] = None
      /\ plugins' = [plugins EXCEPT ![c] = p] /\ home' = [home EXCEPT ![p] = c]
      /\ plugin' = [plugin EXCEPT ![t] = p] /\ pc' = [pc EXCEPT ![t] = "onLoad"]
      /\ UNCHANGED <<client, loaded, unloads, evicted>>
  BY DEF Register, Goes
<1>3. c \in Client /\ plugin[t] = None
  BY <1>0, <1>1, <1>2 DEF PlaceInv, Unloading
<1>4. \A s \in Thread : plugin[s] # p
  BY <1>0, <1>1, <1>2 DEF HomeInv, PlaceInv, Unloading
<1>5. \A d \in Client : plugins[d] # p
  BY <1>0, <1>1, <1>2 DEF HomeInv
<1> HIDE DEF c
<1>6. HomeInv'
  <2>1. \A d \in Client : plugins'[d] # None => home'[plugins'[d]] = d
    BY <1>0, <1>1, <1>2, <1>3, <1>5 DEF HomeInv
  <2>2. \A s \in Thread : plugin'[s] # None => home'[plugin'[s]] = client'[s]
    BY <1>0, <1>1, <1>2, <1>3, <1>4 DEF HomeInv, c
  <2> QED
    BY <2>1, <2>2 DEF HomeInv
<1>7. \A q \in Plugin, s \in Thread :
        /\ Unloads(s, q)' <=> Unloads(s, q)
        /\ Loads(s, q)' <=> Loads(s, q) \/ (s = t /\ q = p)
  BY <1>1, <1>2, <1>3, <1>4 DEF Unloads, Loads, Unloading
<1>8. \A q \in Plugin : Mapped(q)' <=> Mapped(q) \/ q = p
  BY <1>1, <1>2, <1>3, <1>5 DEF Mapped
<1>9. \A s \in Thread : ~Unloads(s, p) /\ ~Loads(s, p)
  BY <1>4 DEF Unloads, Loads
<1>10. /\ \A q \in Plugin : q # p => home'[q] = home[q]
       /\ home'[p] = c /\ c # None
       /\ unloads[p] = 0 /\ p \notin loaded
  BY <1>0, <1>1, <1>2, <1>3 DEF LifeInv
<1>11. LifeInv'
  BY <1>0, <1>2, <1>7, <1>8, <1>9, <1>10 DEF LifeInv
<1> QED
  BY <1>6, <1>11

LEMMA LifeLoaded ==
  ASSUME PoolInv, NEW t \in Thread, OnLoadReturns(t)
  PROVE  HomeInv' /\ LifeInv'
<1> DEFINE p == plugin[t]
<1>0. HomeInv /\ LifeInv /\ PlaceInv
  BY DEF PoolInv
<1>1. /\ pc \in [Thread -> ThreadPC] /\ plugin \in [Thread -> Plugin \cup {None}]
      /\ home \in [Plugin -> Client \cup {None}] /\ client \in [Thread -> Client \cup {None}]
      /\ None \notin Plugin /\ None \notin Client
  BY LifeTypes DEF PoolInv
<1>2. /\ pc[t] = "onLoad" /\ loaded' = loaded \cup {p}
      /\ plugin' = [plugin EXCEPT ![t] = None] /\ pc' = [pc EXCEPT ![t] = "using"]
      /\ UNCHANGED <<client, plugins, home, unloads, evicted>>
  BY DEF OnLoadReturns, Goes
<1>3. p \in Plugin /\ home[p] # None
  BY <1>0, <1>1, <1>2 DEF PlaceInv, HomeInv, Unloading
<1>4. HomeInv'
  BY <1>0, <1>1, <1>2 DEF HomeInv
<1>5. \A q \in Plugin, s \in Thread :
        /\ Unloads(s, q)' <=> Unloads(s, q)
        /\ Loads(s, q)' <=> Loads(s, q) /\ s # t
        /\ Loads(t, q) <=> q = p
  BY <1>1, <1>2, <1>3 DEF Unloads, Loads, Unloading
<1>6. \A q \in Plugin : Mapped(q)' <=> Mapped(q)
  BY <1>2 DEF Mapped
<1> HIDE DEF p
<1>7. LifeInv'
  BY <1>0, <1>2, <1>3, <1>5, <1>6 DEF LifeInv
<1> QED
  BY <1>4, <1>7

(* Whatever has the name by now is thrown out.                             *)
LEMMA LifeThrown ==
  ASSUME PoolInv, NEW t \in Thread, OnLoadThrows(t)
  PROVE  HomeInv' /\ LifeInv'
<1> DEFINE p == plugin[t]
           c == client[t]
           r == plugins[c]
<1>0. HomeInv /\ LifeInv /\ PlaceInv
  BY DEF PoolInv
<1>1. /\ pc \in [Thread -> ThreadPC] /\ plugin \in [Thread -> Plugin \cup {None}]
      /\ plugins \in [Client -> Plugin \cup {None}]
      /\ home \in [Plugin -> Client \cup {None}] /\ client \in [Thread -> Client \cup {None}]
      /\ None \notin Plugin /\ None \notin Client
  BY LifeTypes DEF PoolInv
<1>2. /\ pc[t] = "onLoad" /\ evicted' = evicted \cup ({r} \ {p, None})
      /\ plugins' = [plugins EXCEPT ![c] = None]
      /\ plugin' = [plugin EXCEPT ![t] = None] /\ pc' = [pc EXCEPT ![t] = "using"]
      /\ UNCHANGED <<client, home, loaded, unloads>>
  BY DEF OnLoadThrows, Goes
<1>3. p \in Plugin /\ c \in Client /\ home[p] = c
  BY <1>0, <1>1, <1>2 DEF PlaceInv, HomeInv, Unloading
<1>4. HomeInv'
  BY <1>0, <1>1, <1>2, <1>3 DEF HomeInv
<1>5. \A q \in Plugin, s \in Thread :
        /\ Unloads(s, q)' <=> Unloads(s, q)
        /\ Loads(s, q)' <=> Loads(s, q) /\ s # t
        /\ Loads(t, q) <=> q = p
  BY <1>1, <1>2, <1>3 DEF Unloads, Loads, Unloading
<1>6. \A q \in Plugin : Mapped(q)' <=> Mapped(q) /\ q # r
  <2>1. \A q \in Plugin : Mapped(q) /\ home[q] = c <=> q = r
    BY <1>0, <1>1, <1>3 DEF Mapped, HomeInv
  <2> HIDE DEF r, c, p
  <2> QED
    BY <1>1, <1>2, <1>3, <2>1 DEF Mapped
<1> HIDE DEF p, c, r
<1>7. \A q \in Plugin : q \notin evicted' => q \notin evicted /\ (q # r \/ q = p)
  BY <1>1, <1>2
<1>8. \A q \in Plugin : q \in evicted => q \in evicted'
  BY <1>2
<1>9. LifeInv'
  BY <1>0, <1>2, <1>3, <1>5, <1>6, <1>7, <1>8 DEF LifeInv
<1> QED
  BY <1>4, <1>9

(* A plugin is taken out of the map, to be unloaded.                       *)
LEMMA LifeTaken ==
  ASSUME PoolInv, NEW t \in Thread, plugin[t] = None, client[t] # None,
         plugins[client[t]] # None,
         plugin' = [plugin EXCEPT ![t] = plugins[client[t]]],
         plugins' = [plugins EXCEPT ![client[t]] = None],
         NEW where \in Unloading, pc' = [pc EXCEPT ![t] = where],
         UNCHANGED <<client, home, loaded, unloads, evicted>>
  PROVE  HomeInv' /\ LifeInv'
<1> DEFINE c == client[t]
           r == plugins[c]
<1>0. HomeInv /\ LifeInv
  BY DEF PoolInv
<1>1. /\ pc \in [Thread -> ThreadPC] /\ plugin \in [Thread -> Plugin \cup {None}]
      /\ plugins \in [Client -> Plugin \cup {None}]
      /\ home \in [Plugin -> Client \cup {None}] /\ client \in [Thread -> Client \cup {None}]
      /\ None \notin Plugin /\ None \notin Client
  BY LifeTypes DEF PoolInv
<1>2. r \in Plugin /\ c \in Client /\ home[r] = c
  BY <1>0, <1>1 DEF HomeInv
<1>3. HomeInv'
  BY <1>0, <1>1, <1>2 DEF HomeInv
<1>4. \A q \in Plugin, s \in Thread :
        /\ Unloads(s, q)' <=> Unloads(s, q) \/ (s = t /\ q = r)
        /\ Loads(s, q)' <=> Loads(s, q)
  BY <1>1, <1>2 DEF Unloads, Loads, Unloading
<1>5. /\ \A q \in Plugin : Mapped(q)' <=> Mapped(q) /\ q # r
      /\ Mapped(r)
  <2>1. \A q \in Plugin : Mapped(q) /\ home[q] = c <=> q = r
    BY <1>0, <1>1, <1>2 DEF Mapped, HomeInv
  <2>2. plugins' = [plugins EXCEPT ![c] = None] /\ home' = home
    OBVIOUS
  <2> HIDE DEF r, c
  <2> QED
    BY <1>1, <1>2, <2>1, <2>2 DEF Mapped
<1> HIDE DEF c, r
<1>6. LifeInv'
  BY <1>0, <1>2, <1>4, <1>5 DEF LifeInv
<1> QED
  BY <1>3, <1>6

LEMMA LifeUnloaded ==
  ASSUME PoolInv, NEW t \in Thread, pc[t] \in Unloading, RunOnUnload(t),
         NEW where \in {"using", "join"}, pc' = [pc EXCEPT ![t] = where]
  PROVE  HomeInv' /\ LifeInv'
<1> DEFINE p == plugin[t]
<1>0. HomeInv /\ LifeInv /\ PlaceInv
  BY DEF PoolInv
<1>1. /\ pc \in [Thread -> ThreadPC] /\ plugin \in [Thread -> Plugin \cup {None}]
      /\ unloads \in [Plugin -> Nat]
      /\ home \in [Plugin -> Client \cup {None}] /\ client \in [Thread -> Client \cup {None}]
      /\ None \notin Plugin /\ None \notin Client
  BY LifeTypes DEF PoolInv
<1>2. /\ unloads' = [unloads EXCEPT ![p] = @ + 1] /\ plugin' = [plugin EXCEPT ![t] = None]
      /\ UNCHANGED <<client, plugins, home, loaded, evicted>>
  BY DEF RunOnUnload
<1>3. p \in Plugin /\ home[p] # None
  BY <1>0, <1>1 DEF PlaceInv, HomeInv, Unloading
<1>4. HomeInv'
  BY <1>0, <1>1, <1>2 DEF HomeInv
<1>5. \A q \in Plugin, s \in Thread :
        /\ Unloads(s, q)' <=> Unloads(s, q) /\ s # t
        /\ Unloads(t, q) <=> q = p
        /\ Loads(s, q)' <=> Loads(s, q)
  BY <1>1, <1>2, <1>3 DEF Unloads, Loads, Unloading
<1>6. \A q \in Plugin : Mapped(q)' <=> Mapped(q)
  BY <1>2 DEF Mapped
<1> HIDE DEF p
<1>7. unloads[p] = 0 /\ ~Mapped(p)
  BY <1>0, <1>3, <1>5 DEF LifeInv
<1>8. \A q \in Plugin : unloads'[q] = IF q = p THEN 1 ELSE unloads[q]
  BY <1>1, <1>2, <1>3, <1>7
<1>9. LifeInv'
  BY <1>0, <1>1, <1>2, <1>3, <1>5, <1>6, <1>7, <1>8 DEF LifeInv
<1> QED
  BY <1>4, <1>9

LEMMA LifeStep ==
  ASSUME PoolInv, PoolNext
  PROVE  HomeInv' /\ LifeInv'
<1> USE DEF Goes
<1>0. PoolTypeOK /\ PlaceInv /\ HomeInv /\ LifeInv
  BY DEF PoolInv
<1>1. /\ pc \in [Thread -> ThreadPC] /\ client \in [Thread -> Client \cup {None}]
      /\ plugin \in [Thread -> Plugin \cup {None}]
      /\ None \notin Client
  BY <1>0, LifeTypes
<1>2. ASSUME NEW t \in Thread, NEW where \in ThreadPC, plugin[t] = None,
             pc' = [pc EXCEPT ![t] = where] \/ pc' = pc,
             client' = client \/ \E c : client' = [client EXCEPT ![t] = c],
             UNCHANGED pluginVars
      PROVE  HomeInv' /\ LifeInv'
  <2>1. \A s \in Thread : s # t => pc'[s] = pc[s] /\ client'[s] = client[s]
    BY <1>1, <1>2
  <2> QED
    BY <1>2, <2>1, LifeFrame
<1>3. ASSUME NEW t \in Thread, pc[t] \notin {"onLoad", "onUnload", "unloadAll", "hookAsks"}
      PROVE  plugin[t] = None
  BY <1>0, <1>3 DEF PlaceInv, Unloading
<1>4. ASSUME NEW t \in Thread, NEW a \in Account, NEW c \in Client, AddAccount(t, a, c)
      PROVE  HomeInv' /\ LifeInv'
  <2>1. pc[t] = "idle" /\ UNCHANGED pluginVars
    BY <1>4 DEF AddAccount
  <2>2. /\ pc' = pc \/ \E where \in {"idle", "destroy"} : pc' = [pc EXCEPT ![t] = where]
        /\ client' = client \/ \E d : client' = [client EXCEPT ![t] = d]
    BY <1>4 DEF AddAccount, NewAccount, ReplacedAccount, TakesOut
  <2> QED
    BY <1>2, <1>3, <2>1, <2>2 DEF ThreadPC
<1>5. ASSUME NEW t \in Thread, NEW a \in Account, RemoveAccount(t, a)
      PROVE  HomeInv' /\ LifeInv'
  <2>1. pc[t] = "idle" /\ UNCHANGED pluginVars
    BY <1>5 DEF RemoveAccount
  <2>2. /\ \E where \in {"removeKey", "destroy"} : pc' = [pc EXCEPT ![t] = where]
        /\ client' = client \/ \E d : client' = [client EXCEPT ![t] = d]
    BY <1>5 DEF RemoveAccount, TakesOut
  <2> QED
    BY <1>2, <1>3, <2>1, <2>2 DEF ThreadPC
<1>6. ASSUME NEW t \in Thread, NEW a \in Account, GetAccount(t, a)
      PROVE  HomeInv' /\ LifeInv'
  BY <1>2, <1>3, <1>6 DEF GetAccount, ThreadPC
<1>7. ASSUME NEW t \in Thread, Release(t) PROVE HomeInv' /\ LifeInv'
  <2>1. pc[t] = "using" /\ UNCHANGED pluginVars
    BY <1>7 DEF Release
  <2>2. /\ \E where \in {"idle", "destroy"} : pc' = [pc EXCEPT ![t] = where]
        /\ client' = client \/ \E d : client' = [client EXCEPT ![t] = d]
    BY <1>7 DEF Release, Drop
  <2> QED
    BY <1>2, <1>3, <2>1, <2>2 DEF ThreadPC
<1>8. ASSUME NEW t \in Thread, SendEnds(t) PROVE HomeInv' /\ LifeInv'
  <2>1. pc[t] = "send" /\ UNCHANGED pluginVars
    BY <1>8 DEF SendEnds
  <2>2. /\ \E where \in {"idle", "pick", "destroy"} : pc' = [pc EXCEPT ![t] = where]
        /\ client' = client \/ \E d : client' = [client EXCEPT ![t] = d]
    BY <1>8 DEF SendEnds, Drop, AfterChat
  <2> QED
    BY <1>2, <1>3, <2>1, <2>2 DEF ThreadPC
<1>9. ASSUME NEW t \in Thread, Broadcast(t) \/ NoNextAccount(t) \/ RemoveKey(t)
      PROVE  HomeInv' /\ LifeInv'
  <2>1. /\ pc[t] \in {"idle", "pick", "removeKey"} /\ UNCHANGED pluginVars /\ client' = client
        /\ \E where \in {"idle", "pick"} : pc' = [pc EXCEPT ![t] = where]
    BY <1>9 DEF Broadcast, NoNextAccount, RemoveKey, AfterChat
  <2> QED
    BY <1>2, <1>3, <2>1 DEF ThreadPC
<1>10. ASSUME NEW t \in Thread, GetNextAccount(t) PROVE HomeInv' /\ LifeInv'
  <2>1. /\ pc[t] = "pick" /\ UNCHANGED pluginVars /\ pc' = [pc EXCEPT ![t] = "send"]
        /\ \E d : client' = [client EXCEPT ![t] = d]
    BY <1>10 DEF GetNextAccount
  <2> QED
    BY <1>2, <1>3, <2>1 DEF ThreadPC
<1>11. ASSUME NEW t \in Thread, JoinHandlers(t) PROVE HomeInv' /\ LifeInv'
  <2>1. /\ pc[t] = "join" /\ UNCHANGED pluginVars /\ pc' = [pc EXCEPT ![t] = then[t]]
        /\ \E d : client' = [client EXCEPT ![t] = d] /\ then[t] \in ThreadPC
    BY <1>0, <1>11 DEF JoinHandlers, PoolTypeOK, ThreadPC
  <2> QED
    BY <1>2, <1>3, <2>1
<1>12. ASSUME NEW c \in Client, HandlerAsks(c) \/ HandlerAnswered(c)
       PROVE  HomeInv' /\ LifeInv'
  <2>1. UNCHANGED <<plugins, plugin, home, loaded, unloads, evicted, pc, client>>
    BY <1>12 DEF HandlerAsks, HandlerAnswered, pluginVars
  <2>2. \A p \in Plugin, s \in Thread : (Unloads(s, p)' <=> Unloads(s, p)) /\ (Loads(s, p)' <=> Loads(s, p))
    BY <2>1 DEF Unloads, Loads
  <2>3. \A p \in Plugin : Mapped(p)' <=> Mapped(p)
    BY <2>1 DEF Mapped
  <2> QED
    BY <1>0, <2>1, <2>2, <2>3 DEF HomeInv, LifeInv
<1>13. ASSUME NEW t \in Thread, HookAsks(t) PROVE HomeInv' /\ LifeInv'
  <2>1. /\ pc[t] = "unloadAll" /\ pc' = [pc EXCEPT ![t] = "hookAsks"]
        /\ UNCHANGED <<plugins, plugin, home, loaded, unloads, evicted, client>>
    BY <1>13 DEF HookAsks, pluginVars
  <2>2. \A p \in Plugin, s \in Thread : (Unloads(s, p)' <=> Unloads(s, p)) /\ (Loads(s, p)' <=> Loads(s, p))
    BY <1>1, <2>1 DEF Unloads, Loads, Unloading
  <2>3. \A p \in Plugin : Mapped(p)' <=> Mapped(p)
    BY <2>1 DEF Mapped
  <2> QED
    BY <1>0, <2>1, <2>2, <2>3 DEF HomeInv, LifeInv
<1>14. ASSUME NEW t \in Thread, HookAnswered(t) \/ OnUnload(t) \/ OnUnloadAll(t)
       PROVE  HomeInv' /\ LifeInv'
  <2>1. /\ pc[t] \in Unloading /\ RunOnUnload(t)
        /\ \E where \in {"using", "join"} : pc' = [pc EXCEPT ![t] = where]
    BY <1>14 DEF HookAnswered, OnUnload, OnUnloadAll, Unloading
  <2> QED
    BY <2>1, LifeUnloaded
<1>15. ASSUME NEW t \in Thread, Unregister(t) \/ UnloadAll(t)
       PROVE  HomeInv' /\ LifeInv'
  <2>1. /\ plugin[t] = None /\ client[t] # None
        /\ plugin' = [plugin EXCEPT ![t] = plugins[client[t]]]
        /\ plugins' = [plugins EXCEPT ![client[t]] = None]
        /\ UNCHANGED <<client, home, loaded, unloads, evicted>>
    BY <1>0, <1>3, <1>15 DEF Unregister, UnloadAll, PlaceInv
  <2>2. CASE plugins[client[t]] # None
    <3>1. \E where \in Unloading : pc' = [pc EXCEPT ![t] = where]
      BY <1>15, <2>2 DEF Unregister, UnloadAll, Unloading
    <3> QED
      BY <2>1, <2>2, <3>1, LifeTaken
  <2>3. CASE plugins[client[t]] = None
    <3>1. pc' = [pc EXCEPT ![t] = "join"]
      BY <1>15, <2>3 DEF Unregister, UnloadAll
    <3>2. plugins \in [Client -> Plugin \cup {None}]
      BY <1>0, LifeTypes
    <3>3. plugin' = plugin /\ plugins' = plugins
      BY <1>1, <2>1, <2>3, <3>2
    <3>4. UNCHANGED pluginVars
      BY <2>1, <3>3 DEF pluginVars
    <3> QED
      BY <1>2, <2>1, <3>1, <3>4 DEF ThreadPC
  <2> QED
    BY <2>2, <2>3
<1>16. ASSUME NEW t \in Thread, PluginCall(t) \/ PluginGoesOn(t) PROVE HomeInv' /\ LifeInv'
  BY <1>14, <1>15, <1>16, LifeRegister, LifeLoaded, LifeThrown DEF PluginCall, PluginGoesOn
<1> QED
  BY <1>4, <1>5, <1>6, <1>7, <1>8, <1>9, <1>10, <1>11, <1>12, <1>13, <1>14, <1>16
  DEF PoolNext, Call, NeedsMutex, GoesOn

-----------------------------------------------------------------------------
LEMMA PoolStutter ==
  ASSUME PoolInv, UNCHANGED allVars
  PROVE  PoolInv'
<1> USE DEF PoolInv, allVars, pluginVars, poolVars, threadVars, clientVars
<1>1. PoolTypeOK' /\ PlaceInv' /\ RemovalInv' /\ KeysInv'
  BY DEF PoolTypeOK, PluginTypeOK, PlaceInv, RemovalInv, KeysInv
<1>2. TurnsInv'
  BY DEF TurnsInv, Round
<1>3. OwnerInv'
  BY OwnerFrame
<1>4. HomeInv'
  BY DEF HomeInv
<1>5. LifeInv'
  BY DEF LifeInv, Mapped, Unloads, Loads
<1> QED
  BY <1>1, <1>2, <1>3, <1>4, <1>5

LEMMA PoolInvariance == PoolSpec => []PoolInv
<1>1. PoolInit => PoolInv
  BY PoolInitInv
<1>2. PoolInv /\ [PoolNext]_allVars => PoolInv'
  <2>1. ASSUME PoolInv, PoolNext PROVE PoolInv'
    <3>1. PoolTypeOK'
      BY <2>1, TypeStep
    <3>2. TurnsInv'
      BY <2>1, <3>1, TurnsStep
    <3> QED
      BY <2>1, <3>1, <3>2, PlaceStep, RemovalStep, KeysStep, OwnerStep, LifeStep DEF PoolInv
  <2> QED
    BY <2>1, PoolStutter
<1> QED
  BY <1>1, <1>2, PTL DEF PoolSpec

(* The pool, its clients, their plugins and every thread keep their types. *)
THEOREM PoolTypeCorrect == PoolSpec => []PoolTypeOK
<1>1. PoolInv => PoolTypeOK
  BY DEF PoolInv
<1> QED
  BY <1>1, PoolInvariance, PTL

(* The keys are the accounts, each once, and none of them is a turn behind *)
(* another by more than one.                                               *)
LEMMA TurnsAreEqual ==
  ASSUME PoolInv
  PROVE  EqualTurns
<1>1. PoolTypeOK /\ RemovalInv /\ KeysInv /\ TurnsInv
  BY DEF PoolInv
<1>2. account_keys \in Seq(Account) /\ None \notin Account
  BY <1>1, PoolAssumption DEF PoolTypeOK
<1>3. Cardinality(Keys) = Len(account_keys)
  BY <1>1, <1>2, DistinctCount DEF KeysInv, Keys
<1>4. ASSUME Unlocked PROVE Keys = {a \in Account : accounts[a] # None}
  <2>1. \A t \in Thread : id[t] = None
    BY <1>1, <1>4, NoneAssumption DEF RemovalInv, Unlocked
  <2>2. \A i \in DOMAIN account_keys : account_keys[i] \in Account
    BY <1>2
  <2> QED
    BY <1>1, <1>2, <2>1, <2>2 DEF KeysInv, Keys
<1>5. ASSUME NEW a \in Keys, NEW b \in Keys PROVE turns[a] <= turns[b] + 1
  <2>1. PICK i \in DOMAIN account_keys, j \in DOMAIN account_keys :
          a = account_keys[i] /\ b = account_keys[j]
    BY <1>5 DEF Keys
  <2>2. /\ account_keys # <<>> /\ Len(account_keys) \in Nat
        /\ DOMAIN account_keys = 1 .. Len(account_keys)
    BY <1>2, <2>1
  <2>3. PICK q \in 0 .. round_robin_index, s \in 0 .. Len(account_keys) - 1 : Round(q, s)
    BY <1>1, <2>2 DEF TurnsInv
  <2>4. /\ i - 1 \in 0 .. Len(account_keys) - 1 /\ (i - 1) + 1 = i
        /\ j - 1 \in 0 .. Len(account_keys) - 1 /\ (j - 1) + 1 = j
    BY <2>1, <2>2
  <2>5. turns[a] \in {q, q + 1} /\ turns[b] \in {q, q + 1}
    BY <2>1, <2>3, <2>4 DEF Round
  <2>6. q \in Int
    BY <1>1, <2>3 DEF PoolTypeOK
  <2> QED
    BY <2>5, <2>6
<1> QED
  BY <1>3, <1>4, <1>5 DEF EqualTurns

(* For any number of threads, accounts and turns: no account has two keys; *)
(* a pool nobody is changing has the keys of its accounts; and since they  *)
(* changed none has had more than one turn more than another, wherever the *)
(* index stood that is never reset.                                        *)
THEOREM TurnsAlwaysEqual == PoolSpec => []EqualTurns
<1>1. PoolInv => EqualTurns
  BY TurnsAreEqual
<1> QED
  BY <1>1, PoolInvariance, PTL

(* However threads load, unload, replace and drop clients side by side, no *)
(* on_unload runs twice, and a client that is gone has unloaded everything *)
(* it had loaded and not thrown out.                                       *)
THEOREM AlwaysUnloadedOnce == PoolSpec => []UnloadedOnce
<1>1. ASSUME PoolInv PROVE UnloadedOnce
  <2>1. PoolTypeOK /\ OwnerInv /\ HomeInv /\ LifeInv
    BY <1>1 DEF PoolInv
  <2>2. ASSUME NEW p \in Plugin, p \in loaded \ evicted, home[p] \in destroyed
        PROVE  unloads[p] = 1
    <3>1. home[p] \in Client /\ plugins[home[p]] = None
      BY <2>1, <2>2 DEF OwnerInv, PoolTypeOK
    <3>2. ~Mapped(p)
      BY <3>1, NoneAssumption DEF Mapped
    <3>3. \A t \in Thread : ~Unloads(t, p)
      BY <2>1, <2>2, NoneAssumption DEF Unloads, HomeInv, OwnerInv
    <3> QED
      BY <2>1, <2>2, <3>2, <3>3 DEF LifeInv
  <2> QED
    BY <2>1, <2>2 DEF LifeInv, UnloadedOnce
<1> QED
  BY <1>1, PoolInvariance, PTL

-----------------------------------------------------------------------------
(* ClientLogin                                                             *)

USE ForeignAssumption

(* The states from which TDLib asks for nothing more.                      *)
Late == {"Ready", "LoggingOut", "Closed"}

(* What the dispatcher has handled last, the updates and TDLib's own state *)
(* come in this order: once late, all that follows is late, and Closed is  *)
(* the end.                                                                *)
WayInv ==
  /\ handled \in Late => td \in Late
  /\ handled = "Closed" => td = "Closed" /\ updates = <<>>
  /\ updates = <<>> => handled = td
  /\ updates # <<>> => updates[Len(updates)] = td
  /\ \A i \in DOMAIN updates :
       /\ handled \in Late => updates[i] \in Late
       /\ updates[i] \in Late => td \in Late
       /\ updates[i] = "Closed" => td = "Closed" /\ i = Len(updates)
  /\ \A i, j \in DOMAIN updates :
       i < j /\ updates[i] \in Late => updates[j] \in Late

AuthInv ==
  /\ dpc # "store" =>
       auth_state = Shown(handled) \/ (foreign["logout"] > 0 /\ auth_state = "LoggingOut")
  /\ lpc = "store" => foreign["logout"] > 0
  /\ readySeen => handled \in Late
  /\ auth_state = "Ready" => readySeen
  /\ auth_state = "Closed" => handled = "Closed" /\ dpc # "store"

(* Callbacks are in place once login waits, or will not be asked for.      *)
CallbacksInv ==
  /\ callbacks \subseteq supplied
  /\ method = "loginBot" => supplied = {}
  /\ opc \notin {"idle", "assign"} => callbacks = supplied \/ readySeen

LoginInv ==
  /\ opc = "secondSeen" => readySeen \/ overwritten \/ auth_state = "Closed"
  /\ LoginSound

Wanted(r) == CASE r = "parameters"    -> "WaitTdlibParameters"
               [] r = "encryptionKey" -> "WaitEncryptionKey"
               [] r \in {"phone", "botToken"} -> "WaitPhoneNumber"
               [] r = "code"          -> "WaitCode"
               [] r = "password"      -> "WaitPassword"

BeforeSend == {"idle", "assign", "firstTest", "firstBlocking", "firstAsleep",
               "firstSeen", "firstOpen", "send"}

(* Between TDLib, the dispatcher and the owner one thing is under way at a *)
(* time: an update, the handling of one that will be answered, a request,  *)
(* or the owner that is about to send the phone number or the token.       *)
TokenInv ==
  /\ requests # <<>> =>
       /\ Len(requests) = 1 /\ td = Wanted(requests[1]) /\ updates = <<>>
       /\ dpc # "idle" => handled = "WaitPhoneNumber"
  /\ updates # <<>> =>
       /\ Len(updates) = 1
       /\ dpc # "idle" => handled = "WaitPhoneNumber"
  /\ dpc # "idle" /\ handled # "WaitPhoneNumber" =>
       handled = td /\ updates = <<>> /\ requests = <<>>
  /\ handled = "Ready" => td = "Ready" /\ updates = <<>>
  /\ auth_state = "Ready" => handled = "Ready" /\ dpc # "store"
  /\ opc \in BeforeSend =>
       /\ handled = "WaitPhoneNumber" => td = "WaitPhoneNumber" /\ updates = <<>>
       /\ auth_state = "WaitPhoneNumber" => handled = "WaitPhoneNumber"
       /\ td = "WaitPhoneNumber" => requests = <<>>
  /\ opc \in {"firstSeen", "firstOpen", "send"} =>
       \/ auth_state = "WaitPhoneNumber"
       \/ auth_state = "Ready" /\ opc # "send"

IInv == /\ TypeOK /\ WayInv /\ AuthInv /\ CallbacksInv /\ LoginInv
        /\ (~LoggingOut => TokenInv) /\ AbortsOnlyUnprepared

-----------------------------------------------------------------------------
LEMMA InitInv == Init => IInv
<1> SUFFICES ASSUME Init PROVE IInv
  OBVIOUS
<1> USE DEF Init
<1>1. TypeOK
  <2>1. requests \in Seq(Request) /\ updates \in Seq(TdState)
    BY DEF Request, TdState
  <2>2. supplied \subseteq {"code", "password"}
    <3>1. CASE method = "login"
      BY <3>1
    <3>2. CASE method # "login"
      BY <3>2
    <3> QED
      BY <3>1, <3>2
  <2>3. foreign \in [{"logout", "stop"} -> 0 .. MaxForeign]
    OBVIOUS
  <2> QED
    BY <2>1, <2>2, <2>3 DEF TypeOK, TdState, AuthState, OwnerPC
<1>2. DOMAIN updates = {1} /\ updates[1] = "WaitTdlibParameters" /\ Len(updates) = 1
      /\ updates # <<>>
  OBVIOUS
<1>3. WayInv
  BY <1>2 DEF WayInv, Late
<1>4. AuthInv /\ CallbacksInv /\ LoginInv /\ AbortsOnlyUnprepared
  BY DEF AuthInv, CallbacksInv, LoginInv, LoginSound, LoggedIn,
         AbortsOnlyUnprepared, Late, Shown
<1>5. TokenInv
  BY <1>2 DEF TokenInv, BeforeSend
<1> QED
  BY <1>1, <1>3, <1>4, <1>5 DEF IInv

-----------------------------------------------------------------------------
(* What TDLib does                                                         *)

(* TDLib leaves Closed never and the late states only for others; without  *)
(* a logout it answers only the request that fits.                         *)
LEMMA ReplyFacts ==
  ASSUME NEW s \in TdState, NEW r \in Request, NEW t \in Reply(s, r), t # s
  PROVE  /\ t \in TdState /\ t # "Closed" /\ t # "WaitTdlibParameters"
         /\ s # "Closed"
         /\ s \in Late => t \in Late
         /\ t # "LoggingOut" => s = Wanted(r) /\ r # "logOut"
         /\ t \in {"LoggingOut", "Closed"} => r = "logOut"
<1>1. CASE s = "WaitTdlibParameters" /\ r = "parameters"
  BY <1>1 DEF Reply, TdState, Late, Wanted
<1>2. CASE s = "WaitEncryptionKey" /\ r = "encryptionKey"
  <2>1. t \in {"WaitPhoneNumber", "WaitCode", "WaitPassword", "Ready"}
    BY <1>2 DEF Reply
  <2> QED
    BY <1>2, <2>1 DEF TdState, Late, Wanted
<1>3. CASE s = "WaitPhoneNumber" /\ r \in {"phone", "botToken"}
  <2>1. t \in {"WaitCode", "Ready"}
    BY <1>3 DEF Reply
  <2> QED
    BY <1>3, <2>1 DEF TdState, Late, Wanted
<1>4. CASE s = "WaitCode" /\ r = "code"
  <2>1. t \in {"WaitPassword", "WaitRegistration", "Ready"}
    BY <1>4 DEF Reply
  <2> QED
    BY <1>4, <2>1 DEF TdState, Late, Wanted
<1>5. CASE s = "WaitPassword" /\ r = "password"
  BY <1>5 DEF Reply, TdState, Late, Wanted
<1>6. CASE r = "logOut"
  <2>1. s \notin {"LoggingOut", "Closed"} /\ t = "LoggingOut"
    BY <1>6 DEF Reply
  <2> QED
    BY <1>6, <2>1 DEF TdState, Late
<1>7. CASE /\ ~(s = "WaitTdlibParameters" /\ r = "parameters")
           /\ ~(s = "WaitEncryptionKey" /\ r = "encryptionKey")
           /\ ~(s = "WaitPhoneNumber" /\ r \in {"phone", "botToken"})
           /\ ~(s = "WaitCode" /\ r = "code")
           /\ ~(s = "WaitPassword" /\ r = "password")
           /\ r # "logOut"
  BY <1>7 DEF Reply
<1> QED
  BY <1>1, <1>2, <1>3, <1>4, <1>5, <1>6, <1>7

(* Taking the first of a sequence leaves the others where they were.       *)
LEMMA TailFacts ==
  ASSUME NEW S, NEW q \in Seq(S), q # <<>>
  PROVE  /\ Head(q) \in S /\ Tail(q) \in Seq(S) /\ Head(q) = q[1]
         /\ Len(q) \in Nat \ {0} /\ Len(Tail(q)) = Len(q) - 1
         /\ 1 \in DOMAIN q /\ DOMAIN q = 1 .. Len(q)
         /\ DOMAIN Tail(q) = 1 .. Len(q) - 1
         /\ \A i \in DOMAIN Tail(q) :
              Tail(q)[i] = q[i + 1] /\ i + 1 \in DOMAIN q /\ i \in Nat
         /\ Tail(q) = <<>> <=> Len(q) = 1
<1>1. /\ Head(q) \in S /\ Tail(q) \in Seq(S) /\ Head(q) = q[1]
      /\ Len(q) \in Nat \ {0} /\ Len(Tail(q)) = Len(q) - 1
      /\ \A i \in 1 .. Len(q) - 1 : Tail(q)[i] = q[i + 1]
  BY HeadTailProperties, EmptySeq
<1>2. DOMAIN q = 1 .. Len(q) /\ DOMAIN Tail(q) = 1 .. Len(q) - 1
  BY <1>1
<1>3. Tail(q) = <<>> <=> Len(Tail(q)) = 0
  BY <1>1, EmptySeq
<1> QED
  BY <1>1, <1>2, <1>3

LEMMA AppendFacts ==
  ASSUME NEW S, NEW q \in Seq(S), NEW e \in S
  PROVE  /\ Append(q, e) \in Seq(S) /\ Append(q, e) # <<>>
         /\ Len(q) \in Nat /\ Len(Append(q, e)) = Len(q) + 1
         /\ DOMAIN q = 1 .. Len(q) /\ DOMAIN Append(q, e) = 1 .. Len(q) + 1
         /\ Append(q, e)[Len(q) + 1] = e
         /\ \A i \in DOMAIN q : Append(q, e)[i] = q[i]
         /\ q = <<>> <=> Len(q) = 0
  BY AppendProperties, EmptySeq

(* A new state joins the way at its end.                                   *)
LEMMA MoveKeepsWay ==
  ASSUME TypeOK, WayInv, NEW s \in TdState, TdMoves(s), UNCHANGED handled,
         td # "Closed", td \in Late => s \in Late
  PROVE  WayInv'
<1> PICK q \in Seq(TdState) : q = updates
  BY DEF TypeOK
<1> PICK w : w = Append(q, s)
  OBVIOUS
<1>1. /\ w \in Seq(TdState) /\ w # <<>> /\ Len(q) \in Nat /\ Len(w) = Len(q) + 1
      /\ DOMAIN q = 1 .. Len(q) /\ DOMAIN w = 1 .. Len(q) + 1
      /\ w[Len(q) + 1] = s /\ \A i \in DOMAIN q : w[i] = q[i]
  BY AppendFacts
<1>2. td' = s /\ updates' = w /\ handled' = handled
  BY DEF TdMoves
<1>3. \A i \in DOMAIN q : q[i] # "Closed"
  BY DEF WayInv
<1>4. handled # "Closed"
  BY DEF WayInv
<1>5. handled \in Late => s \in Late
  BY DEF WayInv
<1>6. ASSUME NEW i \in DOMAIN w
      PROVE  /\ handled \in Late => w[i] \in Late
             /\ w[i] \in Late => s \in Late
             /\ w[i] = "Closed" => s = "Closed" /\ i = Len(w)
  <2>1. CASE i \in DOMAIN q
    BY <1>1, <1>3, <2>1 DEF WayInv
  <2>2. CASE i \notin DOMAIN q
    BY <1>1, <1>5, <2>2
  <2> QED
    BY <2>1, <2>2
<1>7. ASSUME NEW i \in DOMAIN w, NEW j \in DOMAIN w, i < j, w[i] \in Late
      PROVE  w[j] \in Late
  <2>0. i \in DOMAIN q
    BY <1>1, <1>7
  <2>1. CASE j \in DOMAIN q
    BY <1>1, <1>7, <2>0, <2>1 DEF WayInv
  <2>2. CASE j \notin DOMAIN q
    BY <1>1, <1>7, <2>0, <2>2 DEF WayInv
  <2> QED
    BY <2>1, <2>2
<1> QED
  BY <1>1, <1>2, <1>4, <1>5, <1>6, <1>7 DEF WayInv

LEMMA TakeKeepsWay ==
  ASSUME TypeOK, WayInv, HandleTake
  PROVE  WayInv' /\ (handled \in Late => handled' \in Late) /\ handled # "Closed"
<1> PICK q \in Seq(TdState) : q = updates
  BY DEF TypeOK
<1> PICK w : w = Tail(q)
  OBVIOUS
<1>1. /\ q # <<>> /\ handled' = q[1] /\ updates' = w /\ td' = td
  BY HeadTailProperties DEF HandleTake
<1>2. /\ w \in Seq(TdState) /\ Len(q) \in Nat \ {0} /\ Len(w) = Len(q) - 1
      /\ 1 \in DOMAIN q /\ DOMAIN q = 1 .. Len(q) /\ DOMAIN w = 1 .. Len(q) - 1
      /\ w = <<>> <=> Len(q) = 1
      /\ \A i \in DOMAIN w : w[i] = q[i + 1] /\ i + 1 \in DOMAIN q /\ i \in Nat
  BY <1>1, TailFacts
<1>3. handled # "Closed" /\ q[Len(q)] = td
  BY <1>1 DEF WayInv
<1>4. /\ q[1] \in Late => td \in Late
      /\ q[1] = "Closed" => td = "Closed" /\ Len(q) = 1
      /\ handled \in Late => q[1] \in Late
  BY <1>2 DEF WayInv
<1>5. w = <<>> => q[1] = td
  BY <1>2, <1>3
<1>6. w # <<>> => w[Len(w)] = td
  BY <1>2, <1>3
<1>7. ASSUME NEW i \in DOMAIN w
      PROVE  /\ q[1] \in Late => w[i] \in Late
             /\ w[i] \in Late => td \in Late
             /\ w[i] = "Closed" => td = "Closed" /\ i = Len(w)
  <2>1. w[i] = q[i + 1] /\ i + 1 \in DOMAIN q /\ 1 < i + 1
    BY <1>2
  <2> QED
    BY <1>2, <2>1 DEF WayInv
<1>8. ASSUME NEW i \in DOMAIN w, NEW j \in DOMAIN w, i < j, w[i] \in Late
      PROVE  w[j] \in Late
  <2>1. i + 1 < j + 1
    BY <1>2, <1>8
  <2> QED
    BY <1>2, <1>8, <2>1 DEF WayInv
<1> QED
  BY <1>1, <1>2, <1>3, <1>4, <1>5, <1>6, <1>7, <1>8 DEF WayInv

-----------------------------------------------------------------------------
(* The actions that only move one thread                                   *)

LEMMA OwnerMoveKeeps ==
  ASSUME IInv, ~aborted, NEW p \in OwnerPC, OwnerMoves(p),
         p \notin {"idle", "assign"} => callbacks = supplied \/ readySeen,
         p = "secondSeen" => readySeen \/ overwritten \/ auth_state = "Closed",
         p \in {"loggedIn", "runTest", "runBlocking", "runAsleep", "ended"} =>
           readySeen \/ overwritten,
         ~LoggingOut /\ p \in BeforeSend => opc \in BeforeSend,
         ~LoggingOut /\ p \in {"firstSeen", "firstOpen", "send"} =>
           \/ auth_state = "WaitPhoneNumber"
           \/ auth_state = "Ready" /\ p # "send"
  PROVE  IInv'
<1> USE DEF OwnerMoves, tdVars, dispVars, otherVars, history
<1>1. TypeOK'
  BY DEF IInv, TypeOK
<1>2. WayInv' /\ AuthInv' /\ CallbacksInv'
  BY DEF IInv, WayInv, AuthInv, CallbacksInv
<1>3. LoginInv'
  BY DEF LoginInv, LoginSound, LoggedIn
<1>4. (~LoggingOut => TokenInv)'
  BY DEF IInv, TokenInv, LoggingOut
<1>5. AbortsOnlyUnprepared'
  BY DEF AbortsOnlyUnprepared
<1> QED
  BY <1>1, <1>2, <1>3, <1>4, <1>5 DEF IInv

(* Each of the owner's steps that only moves it moves it where it may be.  *)
LEMMA OwnerKeeps ==
  ASSUME IInv, ~aborted,
         \/ Login \/ TestFirst \/ SeeFirst \/ SeeReady \/ TestSecond
         \/ SeeSecond \/ TestRun \/ Block \/ SpuriousWakeup
  PROVE  IInv'
<1>0. TypeOK /\ AuthInv /\ CallbacksInv /\ LoginInv /\ (~LoggingOut => TokenInv)
  BY DEF IInv
<1> USE DEF OwnerPC, BeforeSend
<1>1. CASE Login
  <2>1. method \in {"login", "loginBot"}
    BY <1>0 DEF TypeOK
  <2>2. method # "login" => callbacks = supplied
    BY <1>0, <2>1 DEF CallbacksInv
  <2>3. auth_state = "Ready" => readySeen
    BY <1>0 DEF AuthInv
  <2> QED
    BY <1>1, <2>2, <2>3, OwnerMoveKeeps DEF Login
<1>2. opc \notin {"idle", "assign"} => callbacks = supplied \/ readySeen
  BY <1>0 DEF CallbacksInv
<1>3. CASE TestFirst
  <2>1. auth_state = "Closed" => LoggingOut
    BY <1>0 DEF IInv, AuthInv, WayInv, LoggingOut
  <2> QED
    BY <1>2, <1>3, <2>1, OwnerMoveKeeps DEF TestFirst
<1>4. CASE SeeFirst
  BY <1>0, <1>2, <1>4, OwnerMoveKeeps DEF SeeFirst, TokenInv
<1>5. CASE SeeReady
  <2>1. auth_state = "Ready" => readySeen
    BY <1>0 DEF AuthInv
  <2> QED
    BY <1>0, <1>2, <1>5, <2>1, OwnerMoveKeeps DEF SeeReady, TokenInv
<1>6. CASE TestSecond
  <2>1. auth_state = "Ready" => readySeen
    BY <1>0 DEF AuthInv
  <2> QED
    BY <1>2, <1>6, <2>1, OwnerMoveKeeps DEF TestSecond
<1>7. CASE SeeSecond
  BY <1>0, <1>2, <1>7, OwnerMoveKeeps DEF SeeSecond, LoginInv
<1>8. CASE TestRun
  BY <1>0, <1>2, <1>8, OwnerMoveKeeps DEF TestRun, LoginInv, LoginSound, LoggedIn
<1>9. CASE Block
  BY <1>0, <1>2, <1>9, OwnerMoveKeeps DEF Block, LoginInv, LoginSound, LoggedIn
<1>10. CASE SpuriousWakeup
  BY <1>0, <1>2, <1>10, OwnerMoveKeeps DEF SpuriousWakeup, LoginInv, LoginSound, LoggedIn
<1> QED
  BY <1>1, <1>3, <1>4, <1>5, <1>6, <1>7, <1>8, <1>9, <1>10

LEMMA AssignKeeps ==
  ASSUME IInv, ~aborted, AssignCallbacks
  PROVE  IInv'
<1> USE DEF AssignCallbacks, tdVars, dispVars, otherVars, history
<1>1. TypeOK'
  BY DEF IInv, TypeOK, OwnerPC
<1>2. WayInv' /\ AuthInv' /\ CallbacksInv'
  BY DEF IInv, WayInv, AuthInv, CallbacksInv
<1>3. LoginInv'
  BY DEF IInv, LoginInv, LoginSound, LoggedIn
<1>4. (~LoggingOut => TokenInv)'
  BY DEF IInv, TokenInv, LoggingOut, BeforeSend
<1>5. AbortsOnlyUnprepared'
  BY DEF AbortsOnlyUnprepared
<1> QED
  BY <1>1, <1>2, <1>3, <1>4, <1>5 DEF IInv

LEMMA RunKeeps ==
  ASSUME IInv, ~aborted, Run
  PROVE  IInv'
<1> USE DEF Run, tdVars, dispVars, otherVars, history
<1>1. TypeOK'
  BY DEF IInv, TypeOK, OwnerPC
<1>2. WayInv' /\ AuthInv' /\ CallbacksInv'
  BY DEF IInv, WayInv, AuthInv, CallbacksInv
<1>3. LoginInv'
  BY DEF IInv, LoginInv, LoginSound, LoggedIn
<1>4. (~LoggingOut => TokenInv)'
  BY DEF IInv, TokenInv, LoggingOut, BeforeSend
<1>5. AbortsOnlyUnprepared'
  BY DEF AbortsOnlyUnprepared
<1> QED
  BY <1>1, <1>2, <1>3, <1>4, <1>5 DEF IInv

(* The phone number or the token leaves when nothing else is under way.    *)
LEMMA SendLoginKeeps ==
  ASSUME IInv, ~aborted, SendLogin
  PROVE  IInv'
<1> PICK r \in Request : /\ r \in {"phone", "botToken"}
                         /\ r = IF method = "login" THEN "phone" ELSE "botToken"
  BY DEF Request
<1>0. requests \in Seq(Request)
  BY DEF IInv, TypeOK
<1>1. requests' = Append(requests, r) /\ requests' \in Seq(Request)
  BY <1>0, AppendFacts DEF SendLogin
<1> USE DEF dispVars, otherVars, history
<1>2. TypeOK'
  BY <1>1 DEF IInv, TypeOK, OwnerPC, SendLogin
<1>3. WayInv' /\ AuthInv' /\ CallbacksInv'
  BY DEF IInv, WayInv, AuthInv, CallbacksInv, SendLogin
<1>4. LoginInv'
  BY DEF IInv, LoginInv, LoginSound, LoggedIn, SendLogin
<1>5. ASSUME ~LoggingOut' PROVE TokenInv'
  <2>0. ~LoggingOut /\ TokenInv
    BY <1>5 DEF IInv, LoggingOut, SendLogin
  <2>1. /\ handled = "WaitPhoneNumber" /\ td = "WaitPhoneNumber"
        /\ updates = <<>> /\ requests = <<>>
    BY <2>0 DEF TokenInv, BeforeSend, SendLogin
  <2>2. requests' # <<>> /\ Len(requests') = 1 /\ requests'[1] = r
    BY <1>0, <1>1, <2>1, AppendFacts
  <2>3. td = Wanted(r)
    BY <2>1 DEF Wanted
  <2> QED
    BY <2>0, <2>1, <2>2, <2>3 DEF TokenInv, BeforeSend, SendLogin
<1>6. AbortsOnlyUnprepared'
  BY DEF AbortsOnlyUnprepared, SendLogin
<1> QED
  BY <1>2, <1>3, <1>4, <1>5, <1>6 DEF IInv

-----------------------------------------------------------------------------
(* logout and stop                                                         *)

LEMMA LogoutSendKeeps ==
  ASSUME IInv, ~aborted, LogoutSend
  PROVE  IInv'
<1>0. requests \in Seq(Request) /\ "logOut" \in Request
      /\ foreign \in [{"logout", "stop"} -> 0 .. MaxForeign]
  BY DEF IInv, TypeOK, Request
<1>1. requests' \in Seq(Request)
  BY <1>0, AppendFacts DEF LogoutSend
<1>2. /\ foreign' \in [{"logout", "stop"} -> 0 .. MaxForeign]
      /\ foreign'["logout"] > 0
  BY <1>0 DEF LogoutSend
<1> USE DEF LogoutSend, dispVars, loginVars, history
<1>3. TypeOK'
  BY <1>1, <1>2 DEF IInv, TypeOK
<1>4. WayInv' /\ CallbacksInv'
  BY DEF IInv, WayInv, CallbacksInv
<1>5. AuthInv'
  BY <1>2 DEF IInv, AuthInv
<1>6. LoginInv'
  BY DEF IInv, LoginInv, LoginSound, LoggedIn
<1>7. LoggingOut'
  BY <1>2 DEF LoggingOut
<1>8. AbortsOnlyUnprepared'
  BY DEF AbortsOnlyUnprepared
<1> QED
  BY <1>3, <1>4, <1>5, <1>6, <1>7, <1>8 DEF IInv

LEMMA LogoutStoreKeeps ==
  ASSUME IInv, ~aborted, LogoutStore
  PROVE  IInv'
<1> USE DEF LogoutStore, tdVars, dispVars, loginVars
<1>1. TypeOK'
  BY DEF IInv, TypeOK, AuthState
<1>2. WayInv' /\ CallbacksInv'
  BY DEF IInv, WayInv, CallbacksInv
<1>3. AuthInv'
  BY DEF IInv, AuthInv
<1>4. LoginInv'
  BY DEF IInv, LoginInv, LoginSound, LoggedIn
<1>5. LoggingOut'
  BY DEF IInv, AuthInv, LoggingOut
<1>6. AbortsOnlyUnprepared'
  BY DEF AbortsOnlyUnprepared
<1> QED
  BY <1>1, <1>2, <1>3, <1>4, <1>5, <1>6 DEF IInv

LEMMA StopKeeps ==
  ASSUME IInv, ~aborted, StopStore \/ StopNotify
  PROVE  IInv'
<1>0. foreign \in [{"logout", "stop"} -> 0 .. MaxForeign]
  BY DEF IInv, TypeOK
<1>1. /\ foreign' \in [{"logout", "stop"} -> 0 .. MaxForeign]
      /\ foreign'["logout"] = foreign["logout"]
  BY <1>0 DEF StopStore, StopNotify
<1>2. \/ opc' = opc
      \/ opc = "runAsleep" /\ opc' = "runTest"
  <2>1. StopStore => opc' = opc
    BY DEF StopStore, loginVars
  <2>2. StopNotify => \/ opc' = opc
                      \/ opc = "runAsleep" /\ opc' = "runTest"
    BY DEF StopNotify
  <2> QED
    BY <2>1, <2>2
<1>3. /\ UNCHANGED <<td, requests, updates, auth_state, dpc, handled, callbacks,
                     method, supplied, lpc, lost, readySeen, overwritten, aborted>>
      /\ event_loop_running' \in BOOLEAN /\ spc' \in {"idle", "notify"}
      /\ stopLost' \in BOOLEAN
  BY DEF IInv, TypeOK, StopStore, StopNotify, tdVars, dispVars, loginVars, history
<1>4. TypeOK'
  BY <1>1, <1>2, <1>3 DEF IInv, TypeOK, OwnerPC
<1>5. WayInv' /\ CallbacksInv'
  BY <1>2, <1>3 DEF IInv, WayInv, CallbacksInv
<1>6. AuthInv'
  BY <1>1, <1>3 DEF IInv, AuthInv
<1>7. LoginInv'
  BY <1>2, <1>3 DEF IInv, LoginInv, LoginSound, LoggedIn
<1>8. (~LoggingOut => TokenInv)'
  BY <1>1, <1>2, <1>3 DEF IInv, TokenInv, LoggingOut, BeforeSend
<1>9. AbortsOnlyUnprepared'
  BY <1>3 DEF AbortsOnlyUnprepared
<1> QED
  BY <1>4, <1>5, <1>6, <1>7, <1>8, <1>9 DEF IInv

-----------------------------------------------------------------------------
(* The dispatcher                                                          *)

LEMMA HandleTakeKeeps ==
  ASSUME IInv, ~aborted, HandleTake
  PROVE  IInv'
<1>0. TypeOK /\ WayInv /\ AuthInv
  BY DEF IInv
<1>1. WayInv' /\ (handled \in Late => handled' \in Late) /\ handled # "Closed"
  BY <1>0, TakeKeepsWay
<1>2. /\ updates \in Seq(TdState) /\ updates # <<>> /\ handled' = updates[1]
      /\ handled' \in TdState /\ updates' \in Seq(TdState)
      /\ Len(updates) \in Nat \ {0} /\ updates' = <<>> <=> Len(updates) = 1
  BY <1>0, TailFacts DEF TypeOK, HandleTake
<1> USE DEF loginVars, otherVars, history
<1>3. TypeOK'
  BY <1>0, <1>2 DEF TypeOK, HandleTake
<1>4. AuthInv'
  BY <1>0, <1>1 DEF AuthInv, HandleTake
<1>5. CallbacksInv' /\ LoginInv' /\ AbortsOnlyUnprepared'
  BY DEF IInv, CallbacksInv, LoginInv, LoginSound, LoggedIn, AbortsOnlyUnprepared,
         HandleTake
<1>6. ASSUME ~LoggingOut' PROVE TokenInv'
  <2>0. ~LoggingOut /\ TokenInv
    BY <1>6 DEF IInv, LoggingOut, HandleTake
  <2>1. requests = <<>> /\ updates' = <<>> /\ handled' = td
    BY <1>0, <1>2, <2>0 DEF TokenInv, WayInv
  <2>2. auth_state # "Ready" /\ (opc \in BeforeSend => auth_state # "WaitPhoneNumber")
    BY <1>2, <2>0 DEF TokenInv
  <2> QED
    BY <2>0, <2>1, <2>2 DEF TokenInv, BeforeSend, HandleTake
<1> QED
  BY <1>1, <1>3, <1>4, <1>5, <1>6 DEF IInv

LEMMA HandleStoreKeeps ==
  ASSUME IInv, ~aborted, HandleStore
  PROVE  IInv'
<1>0. handled \in TdState
  BY DEF IInv, TypeOK
<1>1. /\ Shown(handled) \in AuthState
      /\ Shown(handled) = "Ready" <=> handled = "Ready"
      /\ Shown(handled) = "Closed" <=> handled = "Closed"
      /\ Shown(handled) = "WaitPhoneNumber" <=> handled = "WaitPhoneNumber"
  BY <1>0 DEF Shown, TdState, AuthState
<1>2. /\ auth_state' = Shown(handled)
      /\ dpc' \in {"act", "notify"} /\ dpc = "store"
      /\ readySeen' <=> readySeen \/ handled = "Ready"
      /\ readySeen' \in BOOLEAN
  BY DEF IInv, TypeOK, HandleStore
<1>3. UNCHANGED <<td, requests, updates, handled, callbacks, method, supplied,
                  opc, event_loop_running, lpc, spc, foreign, lost, stopLost,
                  overwritten, aborted>>
  BY DEF HandleStore, tdVars, loginVars, otherVars
<1>4. TypeOK'
  BY <1>1, <1>2, <1>3 DEF IInv, TypeOK
<1>5. WayInv'
  BY <1>3 DEF IInv, WayInv
<1>6. AuthInv'
  BY <1>1, <1>2, <1>3 DEF IInv, AuthInv, Late
<1>7. CallbacksInv' /\ AbortsOnlyUnprepared'
  BY <1>2, <1>3 DEF IInv, CallbacksInv, AbortsOnlyUnprepared
<1>8. LoginInv'
  BY <1>2, <1>3 DEF IInv, LoginInv, LoginSound, LoggedIn, AuthInv
<1>9. (~LoggingOut => TokenInv)'
  BY <1>1, <1>2, <1>3 DEF IInv, TokenInv, LoggingOut, BeforeSend
<1> QED
  BY <1>4, <1>5, <1>6, <1>7, <1>8, <1>9 DEF IInv

LEMMA HandleNotifyKeeps ==
  ASSUME IInv, ~aborted, HandleNotify
  PROVE  IInv'
<1>1. \/ opc' = opc
      \/ opc = "firstAsleep" /\ opc' = "firstTest"
      \/ opc = "secondAsleep" /\ opc' = "secondTest"
  BY DEF HandleNotify, WakeLogin
<1>2. dpc = "notify" /\ dpc' = "act" /\ lost' \in BOOLEAN
  BY DEF HandleNotify, WakeLogin
<1>3. UNCHANGED <<td, requests, updates, auth_state, handled, callbacks, method,
                  supplied, event_loop_running, lpc, spc, foreign, stopLost,
                  readySeen, overwritten, aborted>>
  BY DEF HandleNotify, tdVars, otherVars
<1>4. TypeOK'
  BY <1>1, <1>2, <1>3 DEF IInv, TypeOK, OwnerPC
<1>5. WayInv' /\ AuthInv'
  BY <1>2, <1>3 DEF IInv, WayInv, AuthInv
<1>6. CallbacksInv' /\ AbortsOnlyUnprepared'
  BY <1>1, <1>3 DEF IInv, CallbacksInv, AbortsOnlyUnprepared
<1>7. LoginInv'
  BY <1>1, <1>3 DEF IInv, LoginInv, LoginSound, LoggedIn
<1>8. (~LoggingOut => TokenInv)'
  BY <1>1, <1>2, <1>3 DEF IInv, TokenInv, LoggingOut, BeforeSend
<1> QED
  BY <1>4, <1>5, <1>6, <1>7, <1>8 DEF IInv

(* The answer of the dispatcher fits the state it handles, and it finds no *)
(* password callback only if none was given or login is not yet past it.   *)
LEMMA ActFacts ==
  ASSUME IInv, ~aborted, HandleAct
  PROVE  \/ UNCHANGED <<requests, aborted>>
         \/ \E r \in Request :
              /\ requests' = Append(requests, r) /\ aborted' = aborted
              /\ handled = Wanted(r) /\ handled # "WaitPhoneNumber"
         \/ /\ requests' = requests /\ aborted' = TRUE
            /\ "password" \notin supplied \/ opc \in {"idle", "assign"}
<1>1. CASE handled \in {"WaitPhoneNumber", "WaitRegistration", "Ready",
                        "LoggingOut", "Closed"}
  BY <1>1 DEF HandleAct, SendsNothing
<1>2. CASE handled = "WaitTdlibParameters"
  BY <1>2 DEF HandleAct, Sends, Request, Wanted
<1>3. CASE handled = "WaitEncryptionKey"
  BY <1>3 DEF HandleAct, Sends, Request, Wanted
<1>4. CASE handled = "WaitCode"
  <2>1. Sends("code") \/ SendsNothing \/ (opc = "assign" /\ Aborts)
    BY <1>4 DEF HandleAct, Asks, Raced
  <2> QED
    BY <1>4, <2>1 DEF Sends, SendsNothing, Aborts, Request, Wanted
<1>5. CASE handled = "WaitPassword"
  <2>1. Sends("password") \/ ("password" \notin callbacks /\ Aborts)
        \/ (opc = "assign" /\ Aborts)
    BY <1>5 DEF HandleAct, Asks, Raced
  <2>2. opc \notin {"idle", "assign"} => callbacks = supplied
    BY <1>5 DEF IInv, CallbacksInv, AuthInv, Late
  <2> QED
    BY <1>5, <2>1, <2>2 DEF Sends, Aborts, Request, Wanted
<1> QED
  BY <1>1, <1>2, <1>3, <1>4, <1>5 DEF IInv, TypeOK, TdState

LEMMA HandleActKeeps ==
  ASSUME IInv, ~aborted, HandleAct
  PROVE  IInv'
<1>0. requests \in Seq(Request) /\ aborted \in BOOLEAN
  BY DEF IInv, TypeOK
<1>1. /\ UNCHANGED <<td, updates, auth_state, handled, callbacks, method,
                     supplied, opc, event_loop_running, lpc, spc, foreign, lost,
                     stopLost, readySeen, overwritten>>
      /\ dpc = "act" /\ dpc' = "idle"
  BY DEF HandleAct, loginVars, otherVars, history
<1>2. /\ requests' \in Seq(Request) /\ aborted' \in BOOLEAN
      /\ aborted' => "password" \notin supplied \/ opc \in {"idle", "assign"}
  <2>1. \A r \in Request : Append(requests, r) \in Seq(Request)
    BY <1>0, AppendFacts
  <2>2. requests' = requests \/ \E r \in Request : requests' = Append(requests, r)
    BY ActFacts
  <2>3. \/ aborted' = aborted
        \/ /\ aborted' = TRUE
           /\ "password" \notin supplied \/ opc \in {"idle", "assign"}
    BY ActFacts
  <2>4. requests' \in Seq(Request)
    BY <1>0, <2>1, <2>2
  <2>5. aborted' \in BOOLEAN
    BY <1>0, <2>3
  <2>6. aborted' => "password" \notin supplied \/ opc \in {"idle", "assign"}
    BY <2>3, Zenon
  <2> QED
    BY <2>4, <2>5, <2>6, Zenon
<1>3. TypeOK'
  BY <1>1, <1>2 DEF IInv, TypeOK
<1>4. WayInv' /\ AuthInv' /\ CallbacksInv'
  BY <1>1 DEF IInv, WayInv, AuthInv, CallbacksInv
<1>5. LoginInv' /\ AbortsOnlyUnprepared'
  BY <1>1, <1>2 DEF IInv, LoginInv, LoginSound, LoggedIn, AbortsOnlyUnprepared
<1>6. ASSUME ~LoggingOut' PROVE TokenInv'
  <2>0. ~LoggingOut /\ TokenInv
    BY <1>1, <1>6 DEF IInv, LoggingOut
  <2>1. CASE requests' = requests
    BY <1>1, <2>0, <2>1 DEF TokenInv, BeforeSend
  <2>2. CASE \E r \in Request : /\ requests' = Append(requests, r)
                                /\ handled = Wanted(r)
                                /\ handled # "WaitPhoneNumber"
    <3> PICK r \in Request : /\ requests' = Append(requests, r)
                             /\ handled = Wanted(r) /\ handled # "WaitPhoneNumber"
      BY <2>2
    <3>1. handled = td /\ updates = <<>> /\ requests = <<>>
      BY <1>1, <2>0 DEF TokenInv
    <3>2. requests' # <<>> /\ Len(requests') = 1 /\ requests'[1] = r
      BY <1>0, <3>1, AppendFacts
    <3> QED
      BY <1>1, <2>0, <3>1, <3>2 DEF TokenInv, BeforeSend
  <2> QED
    BY <2>1, <2>2, ActFacts
<1> QED
  BY <1>3, <1>4, <1>5, <1>6 DEF IInv

-----------------------------------------------------------------------------
(* TDLib                                                                   *)

(* TDLib moves for a request that fits, or the client is being logged out. *)
LEMMA TdMoveKeeps ==
  ASSUME IInv, ~aborted, NEW s \in TdState, TdMoves(s), td # "Closed",
         td \in Late => s \in Late,
         requests' \in Seq(Request),
         UNCHANGED <<auth_state, dispVars, loginVars, event_loop_running,
                     otherVars, history, aborted>>,
         s \in {"LoggingOut", "Closed"} \/
           (requests # <<>> /\ requests' = Tail(requests) /\ td \notin Late)
  PROVE  IInv'
<1> USE DEF dispVars, loginVars, otherVars, history
<1>0. TypeOK /\ WayInv /\ updates \in Seq(TdState)
  BY DEF IInv, TypeOK
<1>1. /\ td' = s /\ updates' = Append(updates, s)
      /\ updates' \in Seq(TdState)
  BY <1>0, AppendFacts DEF TdMoves
<1>2. TypeOK'
  BY <1>0, <1>1 DEF TypeOK
<1>3. WayInv'
  BY <1>0, MoveKeepsWay
<1>4. AuthInv' /\ CallbacksInv'
  BY DEF IInv, AuthInv, CallbacksInv
<1>5. LoginInv' /\ AbortsOnlyUnprepared'
  BY DEF IInv, LoginInv, LoginSound, LoggedIn, AbortsOnlyUnprepared
<1>6. ASSUME ~LoggingOut' PROVE TokenInv'
  <2>1. s \notin {"LoggingOut", "Closed"} /\ foreign["logout"] = foreign'["logout"]
    BY <1>1, <1>6 DEF LoggingOut
  <2>2. ~LoggingOut /\ TokenInv
    <3>1. td # "LoggingOut"
      BY <2>1 DEF Late
    <3> QED
      BY <1>6, <2>1, <3>1 DEF IInv, LoggingOut
  <2>3. requests # <<>> /\ requests' = Tail(requests) /\ td # "Ready"
    BY <2>1 DEF Late
  <2>4. Len(requests) = 1 /\ updates = <<>> /\ (dpc # "idle" => handled = "WaitPhoneNumber")
    BY <2>2, <2>3 DEF TokenInv
  <2>5. requests' = <<>>
    BY <1>0, <2>3, <2>4, TailFacts DEF TypeOK
  <2>6. updates' # <<>> /\ Len(updates') = 1
    BY <1>0, <1>1, <2>4, AppendFacts
  <2>7. handled # "Ready"
    BY <2>2, <2>3 DEF TokenInv
  <2>8. opc \in BeforeSend => handled # "WaitPhoneNumber"
    BY <2>2, <2>3 DEF TokenInv
  <2> QED
    BY <1>1, <2>2, <2>4, <2>5, <2>6, <2>7, <2>8 DEF TokenInv, BeforeSend
<1> QED
  BY <1>2, <1>3, <1>4, <1>5, <1>6 DEF IInv

LEMMA TdAnswersKeeps ==
  ASSUME IInv, ~aborted, TdAnswers
  PROVE  IInv'
<1>0. requests \in Seq(Request) /\ td \in TdState
  BY DEF IInv, TypeOK
<1>1. /\ requests # <<>> /\ requests' = Tail(requests) /\ requests' \in Seq(Request)
      /\ Head(requests) \in Request /\ Head(requests) = requests[1]
      /\ Len(requests) \in Nat /\ Tail(requests) = <<>> <=> Len(requests) = 1
  BY <1>0, TailFacts DEF TdAnswers
<1>2. UNCHANGED <<auth_state, dispVars, loginVars, event_loop_running,
                  otherVars, history, aborted>>
  BY DEF TdAnswers
<1> PICK s \in Reply(td, Head(requests)) :
       IF s = td THEN UNCHANGED <<td, updates>> ELSE TdMoves(s)
  BY DEF TdAnswers
<1>3. CASE s # td
  <2>1. /\ s \in TdState /\ td # "Closed" /\ (td \in Late => s \in Late)
        /\ s # "LoggingOut" => td = Wanted(Head(requests)) /\ Head(requests) # "logOut"
    BY <1>0, <1>1, <1>3, ReplyFacts
  <2>2. s # "LoggingOut" => td \notin Late
    BY <1>1, <2>1 DEF Wanted, Request, Late
  <2> QED
    BY <1>1, <1>2, <1>3, <2>1, <2>2, TdMoveKeeps
<1>4. CASE s = td
  <2>0. UNCHANGED <<td, updates>>
    BY <1>4
  <2> USE DEF dispVars, loginVars, otherVars, history
  <2>1. TypeOK'
    BY <1>1, <1>2, <2>0 DEF IInv, TypeOK
  <2>2. WayInv' /\ AuthInv' /\ CallbacksInv'
    BY <1>2, <2>0 DEF IInv, WayInv, AuthInv, CallbacksInv
  <2>3. LoginInv' /\ AbortsOnlyUnprepared'
    BY <1>2 DEF IInv, LoginInv, LoginSound, LoggedIn, AbortsOnlyUnprepared
  <2>4. ASSUME ~LoggingOut' PROVE TokenInv'
    <3>1. ~LoggingOut /\ TokenInv
      BY <1>2, <2>0, <2>4 DEF IInv, LoggingOut
    <3>2. requests' = <<>> /\ updates' = <<>>
      BY <1>1, <2>0, <3>1 DEF TokenInv
    <3> QED
      BY <1>1, <1>2, <2>0, <3>1, <3>2 DEF TokenInv, BeforeSend
  <2> QED
    BY <2>1, <2>2, <2>3, <2>4 DEF IInv
<1> QED
  BY <1>3, <1>4

LEMMA TdLeavesKeeps ==
  ASSUME IInv, ~aborted, TdTerminates \/ TdCloses
  PROVE  IInv'
<1>0. requests \in Seq(Request)
  BY DEF IInv, TypeOK
<1>1. CASE TdTerminates
  BY <1>0, <1>1, TdMoveKeeps DEF TdTerminates, TdState, Late
<1>2. CASE TdCloses
  BY <1>0, <1>2, TdMoveKeeps DEF TdCloses, TdState, Late
<1> QED
  BY <1>1, <1>2

-----------------------------------------------------------------------------
LEMMA NextInv == IInv /\ [Next]_vars => IInv'
<1> SUFFICES ASSUME IInv, [Next]_vars PROVE IInv'
  OBVIOUS
<1>1. CASE UNCHANGED vars
  <2> USE <1>1 DEF vars, tdVars, dispVars, loginVars, otherVars, history
  <2>1. TypeOK'
    BY DEF IInv, TypeOK
  <2>2. WayInv' /\ AuthInv' /\ CallbacksInv'
    BY DEF IInv, WayInv, AuthInv, CallbacksInv
  <2>3. LoginInv' /\ AbortsOnlyUnprepared'
    BY DEF IInv, LoginInv, LoginSound, LoggedIn, AbortsOnlyUnprepared
  <2>4. (~LoggingOut => TokenInv)'
    BY DEF IInv, TokenInv, LoggingOut, BeforeSend
  <2> QED
    BY <2>1, <2>2, <2>3, <2>4 DEF IInv
<1>2. CASE Next
  <2>0. ~aborted
    BY <1>2 DEF Next
  <2>1. CASE TdGoesOn \/ TdTerminates
    BY <2>0, <2>1, TdAnswersKeeps, TdLeavesKeeps DEF TdGoesOn
  <2>2. CASE DispatcherGoesOn
    BY <2>0, <2>2, HandleTakeKeeps, HandleStoreKeeps, HandleNotifyKeeps, HandleActKeeps
       DEF DispatcherGoesOn
  <2>3. CASE Login \/ OwnerGoesOn \/ Run \/ SpuriousWakeup
    BY <2>0, <2>3, OwnerKeeps, AssignKeeps, SendLoginKeeps, RunKeeps DEF OwnerGoesOn
  <2>4. CASE LogoutSend \/ LogoutStore
    BY <2>0, <2>4, LogoutSendKeeps, LogoutStoreKeeps
  <2>5. CASE StopStore \/ StopNotify
    BY <2>0, <2>5, StopKeeps
  <2> QED
    BY <1>2, <2>1, <2>2, <2>3, <2>4, <2>5 DEF Next
<1> QED
  BY <1>1, <1>2

(* IInv always holds: TDLib, the dispatcher and the owner take turns until *)
(* the application logs out or TDLib ends the session.                     *)
THEOREM Invariance == Spec => []IInv
<1> QED
  BY InitInv, NextInv, PTL DEF Spec

(* The states, the requests and the program counters stay what they are    *)
(* declared to be, for any number of calls of logout and stop.             *)
THEOREM TypeCorrect == Spec => []TypeOK
<1>1. IInv => TypeOK
  BY DEF IInv
<1> QED
  BY <1>1, Invariance, PTL

(* login and loginBot return without an exception only to a client that    *)
(* was authorised, unless logout stored its state over TDLib's.            *)
THEOREM LoginReturns == Spec => []LoginSound
<1>1. IInv => LoginSound
  BY DEF IInv, LoginInv
<1> QED
  BY <1>1, Invariance, PTL

(* What authState() shows is TDLib's state when nothing is under way, an   *)
(* answer reaches TDLib in the state it was meant for, and the process is  *)
(* terminated only for want of a callback that login was not given or had  *)
(* not stored.                                                             *)
THEOREM Following == Spec => []FollowsTdlib
<1>1. IInv => StateIsCurrent
  BY DEF IInv, AuthInv, WayInv, StateIsCurrent, Quiet
<1>2. IInv => RequestFits
  BY DEF IInv, TypeOK, TokenInv, RequestFits, Wanted
<1>3. IInv => FollowsTdlib
  BY <1>1, <1>2 DEF IInv, FollowsTdlib
<1> QED
  BY <1>3, Invariance, PTL
=============================================================================
