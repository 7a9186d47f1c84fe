------------------------- MODULE TdlibAdapterProofs -------------------------
(***************************************************************************)
(* Proofs about TdlibAdapter for any number of callers, requests and       *)
(* updates: answers reach the promise of the caller that asked while it is *)
(* there, none is lost, updates keep their order, and nothing is delivered *)
(* once stop has returned.                                                 *)
(***************************************************************************)
EXTENDS TdlibAdapter, TLAPS

USE BoundAssumption, CallerAssumption, OnUpdateAssumption

(* An id is handed out once. A request that is not posted is nowhere, one  *)
(* that is posted is at TDLib, on its way back, in the receive thread's    *)
(* hands, or nowhere any more, and never at two of these places.           *)
OutputIds == {td_output[i].id : i \in DOMAIN td_output}

InFlight(r) == r \in td_requests \/ r \in OutputIds \/ r = response.id

IdsInv ==
  /\ \A c \in Caller : id[c] < next_id
  /\ \A c, d \in Caller : c # d /\ id[c] # 0 => id[c] # id[d]
  /\ \A r \in Ids : InFlight(r) => r < next_id
  /\ \A i, j \in DOMAIN td_output :
       td_output[i].id = td_output[j].id /\ td_output[i].id # 0 => i = j
  /\ td_requests \cap OutputIds = {}
  /\ response.id \notin td_requests
  /\ response.id # 0 => response.id \notin OutputIds
  /\ response.id # 0 => rpc \in {"lookup", "call"}

(* What a caller inside send or send_sync has, depending on where it is.   *)
CallersInv ==
  \A c \in Caller :
    /\ cpc[c] # "idle" => id[c] # 0
    /\ cpc[c] \in {"register", "post"} => ~InFlight(id[c]) /\ promise[c] = 0
    /\ cpc[c] = "register" => sync[c] /\ handlers[id[c]] = NoOne
    /\ cpc[c] = "post" /\ sync[c] => handlers[id[c]] = c
    /\ cpc[c] = "wait" => sync[c]

(* The receive thread erases a handler before it calls it.                 *)
RecvInv ==
  /\ h # NoOne => rpc = "call"
  /\ rpc = "call" /\ response.id \in Ids => handlers[response.id] = NoOne
  /\ h \in Caller => response.id # 0

(* Updates on their way are those that follow the ones handed out.         *)
Handed ==
  IF rpc \in {"lookup", "call"} /\ response.id = 0
  THEN Len(delivered) + 1 ELSE Len(delivered)

UpdatesInv ==
  /\ UpdatesInOrder
  /\ rpc \in {"lookup", "call"} /\ response.id = 0 =>
       response.seq = Len(delivered) + 1
  /\ Handed <= td_updates
  /\ \A i \in DOMAIN td_output : td_output[i].id = 0 =>
       td_output[i].seq > Handed /\ td_output[i].seq <= td_updates
  /\ \A i, j \in DOMAIN td_output :
       i < j /\ td_output[i].id = 0 /\ td_output[j].id = 0 =>
         td_output[i].seq < td_output[j].seq
  /\ \A n \in Handed + 1 .. td_updates : \E i \in DOMAIN td_output :
       td_output[i].id = 0 /\ td_output[i].seq = n
  /\ rpc = "call" => (h = OnUpdate <=> response.id = 0)

(* The receive thread runs from start, with the handler of updates set, to *)
(* the end of stop.                                                        *)
OwnerInv ==
  /\ mpc \in {"ctor", "set", "start"} => rpc = "off"
  /\ mpc = "stopped" => rpc = "exited"
  /\ mpc \in {"start", "started", "join", "stopped"} => update_handler

IInv == /\ TypeOK /\ IdsInv /\ CallersInv /\ RecvInv /\ UpdatesInv /\ OwnerInv
        /\ PromiseAlive /\ NoAnswerLost

-----------------------------------------------------------------------------
(* Holds before anybody has sent anything: the only request under way is   *)
(* the constructor's, which nobody waits for.                              *)
LEMMA InitInv == Init => IInv
<1> SUFFICES ASSUME Init PROVE IInv
  OBVIOUS
<1> USE DEF Init
<1>1. NoResponse \in Response /\ NoResponse.id = 0
  BY DEF NoResponse, Update, Response
<1>2. TypeOK
  <2>1. td_output \in Seq(Response) /\ delivered \in Seq(1 .. MaxUpdates)
    OBVIOUS
  <2>2. next_id \in 1 .. MaxRequests + 1 /\ td_requests \subseteq Ids
    BY DEF Ids
  <2>3. h \in Caller \cup {NoOne, OnUpdate} /\ response \in Response
    BY <1>1
  <2>4. /\ handlers \in [Ids -> Caller \cup {NoOne}]
        /\ id \in [Caller -> 0 .. MaxRequests]
        /\ promise \in [Caller -> 0 .. MaxRequests]
        /\ td_updates \in 0 .. MaxUpdates
    OBVIOUS
  <2>5. /\ sync \in [Caller -> BOOLEAN]
        /\ cpc \in [Caller -> {"idle", "register", "post", "wait", "returned"}]
    OBVIOUS
  <2>6. /\ rpc \in {"off", "loop", "receive", "lookup", "call", "exited"}
        /\ mpc \in {"ctor", "set", "start", "started", "join", "stopped"}
        /\ update_handler \in BOOLEAN /\ running \in BOOLEAN
    OBVIOUS
  <2> QED
    BY <2>1, <2>2, <2>3, <2>4, <2>5, <2>6 DEF TypeOK
<1>3. IdsInv
  BY <1>1 DEF IdsInv, InFlight, OutputIds, Ids
<1>4. CallersInv
  BY DEF CallersInv
<1>5. RecvInv /\ OwnerInv
  BY <1>1 DEF RecvInv, OwnerInv
<1>6. UpdatesInv
  BY <1>1 DEF UpdatesInv, UpdatesInOrder, Handed
<1>7. PromiseAlive /\ NoAnswerLost
  BY DEF PromiseAlive, NoAnswerLost, Ids
<1> QED
  BY <1>2, <1>3, <1>4, <1>5, <1>6, <1>7 DEF IInv

-----------------------------------------------------------------------------
(* The callers                                                             *)

(* An id that is handed out is not in use anywhere.                        *)
LEMMA TakeIdInv ==
  ASSUME IInv, NEW c \in Caller, TakeId(c)
  PROVE  IInv'
<1> USE DEF TakeId, recvVars, tdVars
<1>1. TypeOK'
  BY DEF IInv, TypeOK, Ids
<1>2. /\ \A d \in Caller \ {c} : id'[d] = id[d] /\ cpc'[d] = cpc[d]
                                  /\ sync'[d] = sync[d] /\ promise'[d] = promise[d]
      /\ id'[c] = next_id /\ next_id' = next_id + 1 /\ next_id \in Ids
      /\ cpc'[c] \in {"register", "post"} /\ cpc[c] = "idle" /\ promise'[c] = 0
      /\ cpc'[c] = "register" <=> sync'[c]
      /\ sync'[c] \in BOOLEAN
  BY DEF IInv, TypeOK
<1>3. InFlight(next_id) = FALSE /\ \A r : InFlight(r)' = InFlight(r)
  BY <1>2 DEF IInv, IdsInv, InFlight, OutputIds, Ids
<1>4. IdsInv'
  BY <1>2, <1>3 DEF IInv, TypeOK, IdsInv, OutputIds, Ids
<1>5. handlers[next_id] = NoOne
  BY <1>2 DEF IInv, TypeOK, PromiseAlive, IdsInv, Ids
<1>6. CallersInv'
  BY <1>2, <1>3, <1>5 DEF IInv, CallersInv, Ids
<1>7. RecvInv' /\ OwnerInv' /\ UpdatesInv'
  BY DEF IInv, RecvInv, OwnerInv, UpdatesInv, UpdatesInOrder, Handed
<1>8. PromiseAlive'
  BY <1>2 DEF IInv, PromiseAlive
<1>9. NoAnswerLost'
  BY <1>2 DEF IInv, NoAnswerLost
<1> QED
  BY <1>1, <1>4, <1>6, <1>7, <1>8, <1>9 DEF IInv

LEMMA RegisterInv ==
  ASSUME IInv, NEW c \in Caller, Register(c)
  PROVE  IInv'
<1> USE DEF Register, recvVars, tdVars
<1>1. TypeOK'
  BY DEF IInv, TypeOK
<1>2. /\ id[c] \in Ids /\ cpc[c] = "register" /\ sync[c] /\ promise[c] = 0
      /\ handlers'[id[c]] = c
      /\ \A r \in Ids \ {id[c]} : handlers'[r] = handlers[r]
      /\ cpc'[c] = "post" /\ \A d \in Caller \ {c} : cpc'[d] = cpc[d]
      /\ ~InFlight(id[c])
  BY DEF IInv, TypeOK, CallersInv, Ids
<1>3. \A r : InFlight(r)' = InFlight(r)
  BY DEF InFlight, OutputIds
<1>4. IdsInv'
  BY <1>3 DEF IInv, IdsInv, OutputIds
<1>5. \A d \in Caller \ {c} : id[d] # id[c]
  BY <1>2 DEF IInv, IdsInv, Ids
<1>6. \A d \in Caller \ {c} : cpc[d] # "idle" => id[d] \in Ids \ {id[c]}
  BY <1>5 DEF IInv, TypeOK, CallersInv, Ids
<1>7. CallersInv'
  BY <1>2, <1>3, <1>6 DEF IInv, CallersInv
<1>8. RecvInv'
  BY <1>2 DEF IInv, RecvInv, InFlight
<1>9. OwnerInv' /\ UpdatesInv'
  BY DEF IInv, OwnerInv, UpdatesInv, UpdatesInOrder, Handed
<1>10. PromiseAlive'
  <2>1. ASSUME NEW r \in Ids, handlers'[r] # NoOne
        PROVE  /\ cpc'[handlers'[r]] \in {"post", "wait"} /\ sync'[handlers'[r]]
               /\ id'[handlers'[r]] = r /\ promise'[handlers'[r]] = 0
    <3>1. CASE r = id[c]
      BY <1>2, <3>1
    <3>2. CASE r # id[c]
      <4>1. handlers'[r] = handlers[r] /\ handlers[r] \in Caller
        BY <1>2, <2>1, <3>2 DEF IInv, TypeOK
      <4> QED
        BY <1>2, <2>1, <3>2, <4>1 DEF IInv, PromiseAlive
    <3> QED
      BY <3>1, <3>2
  <2>2. h \in Caller => cpc'[h] = "wait"
    BY <1>2 DEF IInv, PromiseAlive
  <2> QED
    BY <2>1, <2>2 DEF IInv, PromiseAlive
<1>11. NoAnswerLost'
  BY <1>2, <1>6 DEF IInv, NoAnswerLost
<1> QED
  BY <1>1, <1>4, <1>7, <1>8, <1>9, <1>10, <1>11 DEF IInv

(* Only what was nowhere is posted.                                        *)
LEMMA PostInv ==
  ASSUME IInv, NEW c \in Caller, Post(c)
  PROVE  IInv'
<1> USE DEF Post, recvVars, tdVars
<1>1. /\ id[c] \in Ids /\ ~InFlight(id[c]) /\ promise[c] = 0
      /\ sync[c] => handlers[id[c]] = c
      /\ cpc'[c] = IF sync[c] THEN "wait" ELSE "idle"
      /\ \A d \in Caller \ {c} : cpc'[d] = cpc[d] /\ id[d] # id[c]
  BY DEF IInv, TypeOK, CallersInv, IdsInv, Ids
<1>2. TypeOK'
  BY <1>1 DEF IInv, TypeOK
<1>3. \A r : InFlight(r)' <=> InFlight(r) \/ r = id[c]
  BY DEF InFlight, OutputIds
<1>4. IdsInv'
  BY <1>1, <1>3 DEF IInv, IdsInv, OutputIds, InFlight
<1>5. CallersInv'
  BY <1>1, <1>3 DEF IInv, CallersInv
<1>6. RecvInv' /\ OwnerInv' /\ UpdatesInv'
  BY DEF IInv, RecvInv, OwnerInv, UpdatesInv, UpdatesInOrder, Handed
<1>7. PromiseAlive'
  <2>1. ASSUME NEW r \in Ids, handlers[r] # NoOne
        PROVE  cpc'[handlers[r]] \in {"post", "wait"}
    <3>1. handlers[r] \in Caller /\ cpc[handlers[r]] \in {"post", "wait"} /\ sync[handlers[r]]
      BY <2>1 DEF IInv, TypeOK, PromiseAlive
    <3> QED
      BY <1>1, <3>1
  <2>2. h \in Caller => cpc'[h] = "wait"
    BY <1>1 DEF IInv, PromiseAlive
  <2> QED
    BY <2>1, <2>2 DEF IInv, PromiseAlive
<1>8. NoAnswerLost'
  BY <1>1 DEF IInv, NoAnswerLost
<1> QED
  BY <1>2, <1>4, <1>5, <1>6, <1>7, <1>8 DEF IInv

LEMMA GetResultInv ==
  ASSUME IInv, NEW c \in Caller, GetResult(c)
  PROVE  IInv'
<1> USE DEF GetResult, recvVars, tdVars
<1>1. /\ cpc[c] = "wait" /\ promise[c] # 0 /\ cpc'[c] = "returned"
      /\ \A d \in Caller \ {c} : cpc'[d] = cpc[d]
  BY DEF IInv, TypeOK
<1>2. TypeOK'
  BY DEF IInv, TypeOK
<1>3. \A r : InFlight(r)' = InFlight(r)
  BY DEF InFlight, OutputIds
<1>4. IdsInv' /\ RecvInv' /\ OwnerInv' /\ UpdatesInv'
  BY <1>3 DEF IInv, IdsInv, OutputIds, RecvInv, OwnerInv, UpdatesInv, UpdatesInOrder, Handed
<1>5. CallersInv'
  BY <1>1, <1>3 DEF IInv, CallersInv
<1>6. PromiseAlive'
  <2>1. \A r \in Ids : handlers[r] # NoOne => handlers[r] \in Caller \ {c}
    BY <1>1 DEF IInv, TypeOK, PromiseAlive
  <2> QED
    BY <1>1, <2>1 DEF IInv, PromiseAlive
<1>7. NoAnswerLost'
  BY <1>1 DEF IInv, NoAnswerLost
<1> QED
  BY <1>2, <1>4, <1>5, <1>6, <1>7 DEF IInv

(* Nothing refers to the promise that goes.                                *)
LEMMA ResumeInv ==
  ASSUME IInv, NEW c \in Caller, Resume(c)
  PROVE  IInv'
<1> USE DEF Resume, recvVars, tdVars
<1>1. /\ cpc[c] = "returned" /\ cpc'[c] = "idle" /\ promise'[c] = 0
      /\ \A d \in Caller \ {c} : cpc'[d] = cpc[d] /\ promise'[d] = promise[d]
  BY DEF IInv, TypeOK
<1>2. TypeOK'
  BY DEF IInv, TypeOK
<1>3. \A r : InFlight(r)' = InFlight(r)
  BY DEF InFlight, OutputIds
<1>4. IdsInv' /\ RecvInv' /\ OwnerInv' /\ UpdatesInv'
  BY <1>3 DEF IInv, IdsInv, OutputIds, RecvInv, OwnerInv, UpdatesInv, UpdatesInOrder, Handed
<1>5. CallersInv'
  BY <1>1, <1>3 DEF IInv, CallersInv
<1>6. PromiseAlive'
  <2>1. \A r \in Ids : handlers[r] # NoOne => handlers[r] \in Caller \ {c}
    <3>1. \A r \in Ids : handlers[r] # NoOne => handlers[r] \in Caller
      BY DEF IInv, TypeOK
    <3>2. \A r \in Ids : handlers[r] # NoOne => cpc[handlers[r]] \in {"post", "wait"}
      BY DEF IInv, PromiseAlive
    <3> QED
      BY <1>1, <3>1, <3>2
  <2>2. h \in Caller => h \in Caller \ {c}
    BY <1>1 DEF IInv, PromiseAlive
  <2> QED
    BY <1>1, <2>1, <2>2 DEF IInv, PromiseAlive
<1>7. NoAnswerLost'
  BY <1>1 DEF IInv, NoAnswerLost
<1> QED
  BY <1>2, <1>4, <1>5, <1>6, <1>7 DEF IInv

-----------------------------------------------------------------------------
(* The receive thread                                                      *)

(* With nothing in its hands it changes nothing that others rely on.       *)
LEMMA IdleRecvInv ==
  ASSUME IInv, LoopAgain \/ ReceiveTimeout
  PROVE  IInv'
<1> USE DEF LoopAgain, ReceiveTimeout, callerVars, tdVars
<1>1. rpc \in {"loop", "receive"} /\ rpc' \in {"receive", "exited", "loop"} /\ h = NoOne
      /\ response.id = 0
  BY DEF IInv, RecvInv, IdsInv
<1>2. TypeOK'
  BY <1>1 DEF IInv, TypeOK
<1>3. \A r : InFlight(r)' = InFlight(r)
  BY DEF InFlight, OutputIds
<1>4. IdsInv' /\ CallersInv'
  BY <1>1, <1>3 DEF IInv, IdsInv, CallersInv, OutputIds
<1>5. RecvInv' /\ OwnerInv'
  BY <1>1 DEF IInv, RecvInv, OwnerInv
<1>6. UpdatesInv'
  BY <1>1 DEF IInv, UpdatesInv, UpdatesInOrder, Handed
<1>7. PromiseAlive' /\ NoAnswerLost'
  BY <1>1 DEF IInv, PromiseAlive, NoAnswerLost
<1> QED
  BY <1>2, <1>4, <1>5, <1>6, <1>7 DEF IInv

(* The oldest response goes from TDLib's output into the thread's hands;   *)
(* if it is an update, it is the one that follows those handed out.        *)
LEMMA ReceiveObjectInv ==
  ASSUME IInv, ReceiveObject
  PROVE  IInv'
<1> USE DEF ReceiveObject, callerVars
<1> DEFINE n == Len(td_output)
<1>1. /\ td_output \in Seq(Response) /\ n \in Nat \ {0} /\ DOMAIN td_output = 1 .. n
      /\ td_output' \in Seq(Response) /\ DOMAIN td_output' = 1 .. n - 1
      /\ \A i \in 1 .. n - 1 : td_output'[i] = td_output[i + 1]
      /\ response' = td_output[1] /\ response' \in Response
      /\ \A i \in 1 .. n : td_output[i] \in Response
  BY DEF IInv, TypeOK
<1>2. /\ rpc = "receive" /\ rpc' = "lookup" /\ h = NoOne /\ response.id = 0
  BY DEF IInv, RecvInv, IdsInv
<1>3. TypeOK'
  BY <1>1, <1>2 DEF IInv, TypeOK
<1>4. \A r : r \in OutputIds' \/ r = response'.id <=> r \in OutputIds
  <2>1. \A i \in 1 .. n : i = 1 \/ (i - 1 \in 1 .. n - 1 /\ td_output'[i - 1] = td_output[i])
    BY <1>1
  <2>2. \A i \in 1 .. n - 1 : i + 1 \in 1 .. n
    BY <1>1
  <2>3. \A i \in 1 .. n : td_output[i].id \in OutputIds' \cup {response'.id}
    BY <1>1, <2>1 DEF OutputIds
  <2>4. \A i \in 1 .. n - 1 : td_output'[i].id \in OutputIds
    BY <1>1, <2>2 DEF OutputIds
  <2>5. response'.id \in OutputIds
    BY <1>1 DEF OutputIds
  <2> QED
    BY <1>1, <2>3, <2>4, <2>5 DEF OutputIds
<1>5. \A r \in Ids : InFlight(r)' <=> InFlight(r)
  BY <1>2, <1>4 DEF InFlight, Ids
<1>6. IdsInv'
  <2>1. \A i, j \in DOMAIN td_output' :
          td_output'[i].id = td_output'[j].id /\ td_output'[i].id # 0 => i = j
    BY <1>1 DEF IInv, IdsInv
  <2>2. response'.id # 0 => response'.id \notin OutputIds'
    BY <1>1 DEF IInv, IdsInv, OutputIds
  <2>3. response'.id \notin td_requests' /\ td_requests' \cap OutputIds' = {}
    BY <1>4 DEF IInv, IdsInv
  <2> QED
    BY <1>2, <1>5, <2>1, <2>2, <2>3 DEF IInv, IdsInv
<1>7. CallersInv'
  <2>1. \A c \in Caller : cpc[c] \in {"register", "post"} => id[c] \in Ids
    BY DEF IInv, TypeOK, CallersInv, Ids
  <2> QED
    BY <1>5, <2>1 DEF IInv, CallersInv
<1>8. RecvInv' /\ OwnerInv'
  BY <1>2 DEF IInv, RecvInv, OwnerInv
<1>9. UpdatesInv'
  <2>1. Handed = Len(delivered) /\ Len(delivered) \in Nat /\ td_updates \in Nat
    BY <1>2 DEF Handed, IInv, TypeOK
  <2>2. CASE td_output[1].id # 0
    <3>1. Handed' = Handed
      BY <1>1, <1>2, <2>2 DEF Handed
    <3>2. \A m \in Handed + 1 .. td_updates : \E i \in 1 .. n - 1 :
            td_output'[i].id = 0 /\ td_output'[i].seq = m
      <4> TAKE m \in Handed + 1 .. td_updates
      <4>1. PICK i \in 1 .. n : td_output[i].id = 0 /\ td_output[i].seq = m
        BY <1>1 DEF IInv, UpdatesInv
      <4>2. i - 1 \in 1 .. n - 1 /\ td_output'[i - 1] = td_output[i]
        BY <1>1, <2>2, <4>1
      <4> QED
        BY <4>1, <4>2
    <3>3. \A i \in 1 .. n - 1 : i + 1 \in 1 .. n /\ td_output'[i] = td_output[i + 1]
      BY <1>1
    <3>4. \A i \in 1 .. n - 1 : td_output'[i].id = 0 =>
            td_output'[i].seq > Handed /\ td_output'[i].seq <= td_updates
      BY <1>1, <3>3 DEF IInv, UpdatesInv
    <3>5. \A i, j \in 1 .. n - 1 :
            i < j /\ td_output'[i].id = 0 /\ td_output'[j].id = 0 =>
              td_output'[i].seq < td_output'[j].seq
      BY <1>1 DEF IInv, UpdatesInv
    <3>6. UpdatesInOrder /\ Handed <= td_updates /\ response'.id # 0
      BY <1>1, <2>2 DEF IInv, UpdatesInv
    <3> QED
      BY <1>1, <1>2, <3>1, <3>2, <3>4, <3>5, <3>6, ZenonT(30) DEF UpdatesInv, UpdatesInOrder
  <2>3. CASE td_output[1].id = 0
    <3>1. Handed' = Handed + 1
      BY <1>1, <1>2, <2>1, <2>3 DEF Handed
    <3>2. td_output[1].seq > Handed /\ td_output[1].seq <= td_updates /\ td_output[1].seq \in Nat
      BY <1>1, <2>3 DEF IInv, UpdatesInv, Response
    <3>3. td_output[1].seq = Handed + 1
      <4>1. Handed + 1 \in Handed + 1 .. td_updates
        BY <2>1, <3>2
      <4>2. PICK i \in 1 .. n : td_output[i].id = 0 /\ td_output[i].seq = Handed + 1
        BY <1>1, <4>1 DEF IInv, UpdatesInv
      <4>3. i > 1 => td_output[1].seq < td_output[i].seq
        BY <1>1, <2>3, <4>2 DEF IInv, UpdatesInv
      <4> QED
        BY <1>1, <2>1, <3>2, <4>2, <4>3
    <3>4. \A m \in Handed' + 1 .. td_updates : \E i \in 1 .. n - 1 :
            td_output'[i].id = 0 /\ td_output'[i].seq = m
      <4> TAKE m \in Handed' + 1 .. td_updates
      <4>1. m \in Handed + 1 .. td_updates /\ m # Handed + 1
        BY <2>1, <3>1
      <4>2. PICK i \in 1 .. n : td_output[i].id = 0 /\ td_output[i].seq = m
        BY <1>1, <4>1 DEF IInv, UpdatesInv
      <4>3. i # 1
        BY <3>3, <4>1, <4>2
      <4>4. i - 1 \in 1 .. n - 1 /\ td_output'[i - 1] = td_output[i]
        BY <1>1, <4>3
      <4> QED
        BY <4>2, <4>4
    <3>5. \A i \in 1 .. n - 1 : td_output'[i].id = 0 =>
            td_output'[i].seq > Handed' /\ td_output'[i].seq <= td_updates
      <4> SUFFICES ASSUME NEW i \in 1 .. n - 1, td_output'[i].id = 0
                   PROVE  td_output'[i].seq > Handed' /\ td_output'[i].seq <= td_updates
        OBVIOUS
      <4>1. i + 1 \in 1 .. n /\ 1 < i + 1 /\ td_output'[i] = td_output[i + 1]
            /\ td_output[i + 1].seq \in Nat
        BY <1>1 DEF Response
      <4>2. td_output[1].seq < td_output[i + 1].seq /\ td_output[i + 1].seq <= td_updates
        BY <1>1, <2>3, <4>1 DEF IInv, UpdatesInv
      <4> QED
        BY <2>1, <3>1, <3>3, <4>1, <4>2
    <3>6. \A i, j \in 1 .. n - 1 :
            i < j /\ td_output'[i].id = 0 /\ td_output'[j].id = 0 =>
              td_output'[i].seq < td_output'[j].seq
      BY <1>1 DEF IInv, UpdatesInv
    <3>7. UpdatesInOrder /\ Handed' <= td_updates /\ response'.seq = Len(delivered) + 1
      BY <1>1, <2>1, <3>1, <3>2, <3>3 DEF IInv, UpdatesInv
    <3> QED
      BY <1>1, <1>2, <3>4, <3>5, <3>6, <3>7, ZenonT(30) DEF UpdatesInv, UpdatesInOrder
  <2> QED
    BY <2>2, <2>3
<1>10. PromiseAlive'
  BY <1>2 DEF IInv, PromiseAlive
<1>11. NoAnswerLost'
  <2> SUFFICES ASSUME NEW c \in Caller, cpc[c] = "wait", promise[c] = 0,
                      handlers[id[c]] = c,
                      \/ id[c] \in td_requests
                      \/ \E i \in DOMAIN td_output : td_output[i].id = id[c]
               PROVE  \/ id[c] \in td_requests
                      \/ \E i \in DOMAIN td_output' : td_output'[i].id = id[c]
                      \/ response'.id = id[c]
    BY <1>2 DEF IInv, NoAnswerLost
  <2>1. ASSUME NEW i \in 1 .. n, td_output[i].id = id[c], i # 1
        PROVE  i - 1 \in 1 .. n - 1 /\ td_output'[i - 1].id = id[c]
    BY <1>1, <2>1
  <2> QED
    BY <1>1, <2>1
<1> QED
  BY <1>3, <1>6, <1>7, <1>8, <1>9, <1>10, <1>11 DEF IInv

(* The handler found belongs to a caller that waits for this answer.       *)
LEMMA LookupInv ==
  ASSUME IInv, Lookup
  PROVE  IInv'
<1> USE DEF Lookup, callerVars, tdVars
<1>1. /\ rpc = "lookup" /\ rpc' = "call" /\ h = NoOne /\ response \in Response
      /\ response.id \in Ids \cup {0} /\ update_handler
      /\ handlers \in [Ids -> Caller \cup {NoOne}]
  BY DEF IInv, TypeOK, RecvInv, OwnerInv, Response, Ids
<1>2. /\ response.id = 0 => h' = OnUpdate /\ handlers' = handlers
      /\ response.id \in Ids => h' = handlers[response.id]
                                /\ handlers'[response.id] = NoOne
      /\ \A r \in Ids : r # response.id => handlers'[r] = handlers[r]
  BY <1>1 DEF HandlerOf, Ids
<1>3. TypeOK'
  <2>1. h' \in Caller \cup {NoOne, OnUpdate}
    BY <1>1, <1>2
  <2>2. handlers' \in [Ids -> Caller \cup {NoOne}]
    BY <1>1
  <2> QED
    BY <2>1, <2>2 DEF IInv, TypeOK
<1>4. \A r : InFlight(r)' = InFlight(r)
  BY DEF InFlight, OutputIds
<1>5. IdsInv'
  BY <1>1, <1>4 DEF IInv, IdsInv, OutputIds
<1>6. \A c \in Caller : cpc[c] \in {"register", "post"} => id[c] \in Ids /\ id[c] # response.id
  BY DEF IInv, TypeOK, CallersInv, InFlight, Ids
<1>7. CallersInv'
  BY <1>2, <1>4, <1>6 DEF IInv, CallersInv
<1>8. RecvInv' /\ OwnerInv'
  BY <1>1, <1>2 DEF IInv, RecvInv, OwnerInv, Ids
<1>9. UpdatesInv'
  <2>1. h' = OnUpdate <=> response.id = 0
    BY <1>1, <1>2
  <2> QED
    BY <1>1, <2>1 DEF IInv, UpdatesInv, UpdatesInOrder, Handed
<1>10. PromiseAlive'
  <2>1. \A r \in Ids : handlers'[r] # NoOne => handlers'[r] = handlers[r]
    BY <1>2
  <2>2. ASSUME h' \in Caller
        PROVE  cpc[h'] = "wait" /\ id[h'] = response.id /\ promise[h'] = 0
    <3>1. response.id \in Ids /\ h' = handlers[response.id]
      BY <1>1, <1>2, <2>2
    <3>2. cpc[h'] \in {"post", "wait"} /\ id[h'] = response.id /\ promise[h'] = 0
      BY <2>2, <3>1 DEF IInv, PromiseAlive
    <3> QED
      BY <1>6, <2>2, <3>2
  <2> QED
    BY <2>1, <2>2 DEF IInv, PromiseAlive
<1>11. NoAnswerLost'
  <2> SUFFICES ASSUME NEW c \in Caller, cpc[c] = "wait", promise[c] = 0
               PROVE  \/ /\ handlers'[id[c]] = c
                         /\ \/ id[c] \in td_requests
                            \/ \E i \in DOMAIN td_output : td_output[i].id = id[c]
                      \/ h' = c
    BY <1>1 DEF NoAnswerLost
  <2>1. id[c] \in Ids /\ handlers[id[c]] = c
    BY <1>1 DEF IInv, TypeOK, CallersInv, NoAnswerLost, Ids
  <2>2. CASE response.id = id[c]
    BY <1>2, <2>1, <2>2
  <2>3. CASE response.id # id[c]
    BY <1>1, <1>2, <2>1, <2>3 DEF IInv, NoAnswerLost
  <2> QED
    BY <2>2, <2>3
<1> QED
  BY <1>3, <1>5, <1>7, <1>8, <1>9, <1>10, <1>11 DEF IInv

(* The promise is set, or the update handed out, and the hands are empty.  *)
LEMMA CallHandlerInv ==
  ASSUME IInv, CallHandler
  PROVE  IInv'
<1> USE DEF CallHandler, tdVars
<1>1. /\ rpc = "call" /\ rpc' = "loop" /\ h' = NoOne /\ response'.id = 0
      /\ response' \in Response /\ response \in Response
      /\ promise \in [Caller -> 0 .. MaxRequests]
      /\ delivered \in Seq(1 .. MaxUpdates) /\ td_updates \in 0 .. MaxUpdates
  BY DEF IInv, TypeOK, NoResponse, Update, Response
<1>2. /\ response.id \in 0 .. MaxRequests
      /\ h = OnUpdate <=> response.id = 0
      /\ h \in Caller => response.id \in Ids /\ id[h] = response.id
                         /\ cpc[h] = "wait" /\ promise[h] = 0
      /\ h = OnUpdate => h \notin Caller
  BY <1>1 DEF IInv, RecvInv, UpdatesInv, PromiseAlive, Response, Ids
<1>3. /\ h \in Caller => promise'[h] = response.id
      /\ \A c \in Caller : c # h => promise'[c] = promise[c]
      /\ promise' \in [Caller -> 0 .. MaxRequests]
  BY <1>1, <1>2
<1>4. h = OnUpdate => response.seq = Len(delivered) + 1 /\ response.seq \in 1 .. MaxUpdates
                      /\ Handed = Len(delivered) + 1
  BY <1>1, <1>2 DEF IInv, UpdatesInv, Handed
<1>5. delivered' \in Seq(1 .. MaxUpdates)
  <2>1. CASE h = OnUpdate
    BY <1>1, <1>4, <2>1
  <2>2. CASE h # OnUpdate
    BY <1>1, <2>2
  <2> QED
    BY <2>1, <2>2
<1>6. TypeOK'
  BY <1>1, <1>3, <1>5 DEF IInv, TypeOK
<1>7. \A r \in Ids : InFlight(r)' => InFlight(r)
  BY <1>1 DEF InFlight, OutputIds, Ids
<1>8. IdsInv'
  <2>1. 0 \notin td_requests
    BY DEF IInv, TypeOK, Ids
  <2> QED
    BY <1>1, <1>7, <2>1 DEF IInv, IdsInv, OutputIds
<1>9. \A c \in Caller : cpc[c] # "idle" => id[c] \in Ids
  BY DEF IInv, TypeOK, CallersInv, Ids
<1>10. CallersInv'
  BY <1>2, <1>3, <1>7, <1>9 DEF IInv, CallersInv
<1>11. RecvInv' /\ OwnerInv'
  BY <1>1 DEF IInv, RecvInv, OwnerInv
<1>12. Len(delivered') \in Nat /\ Len(delivered) \in Nat
       /\ Len(delivered') = (IF h = OnUpdate THEN Len(delivered) + 1 ELSE Len(delivered))
  BY <1>1, <1>4
<1>13. Handed' = Handed
  BY <1>1, <1>2, <1>12 DEF Handed
<1>14. UpdatesInv'
  <2>1. UpdatesInOrder'
    <3>1. CASE h = OnUpdate
      BY <1>1, <1>4, <3>1 DEF IInv, UpdatesInv, UpdatesInOrder
    <3>2. CASE h # OnUpdate
      BY <3>2 DEF IInv, UpdatesInv, UpdatesInOrder
    <3> QED
      BY <3>1, <3>2
  <2> QED
    BY <1>1, <1>13, <2>1 DEF IInv, UpdatesInv
<1>15. PromiseAlive'
  <2>1. \A c \in Caller : promise'[c] # 0 => promise'[c] = id[c]
    BY <1>2, <1>3 DEF IInv, PromiseAlive
  <2>2. \A r \in Ids : handlers[r] # NoOne => handlers[r] # h
    <3> SUFFICES ASSUME NEW r \in Ids, handlers[r] # NoOne, handlers[r] = h
                 PROVE  FALSE
      OBVIOUS
    <3>1. h \in Caller /\ id[h] = r
      BY DEF IInv, TypeOK, PromiseAlive
    <3>2. r = response.id
      BY <1>2, <3>1
    <3> QED
      BY <1>1, <3>2 DEF IInv, RecvInv
  <2>3. \A r \in Ids : handlers[r] # NoOne => promise'[handlers[r]] = 0
    BY <1>3, <2>2 DEF IInv, TypeOK, PromiseAlive
  <2> QED
    BY <1>1, <2>1, <2>3 DEF IInv, PromiseAlive
<1>16. NoAnswerLost'
  <2> SUFFICES ASSUME NEW c \in Caller, cpc[c] = "wait", promise'[c] = 0
               PROVE  /\ handlers[id[c]] = c
                      /\ \/ id[c] \in td_requests
                         \/ \E i \in DOMAIN td_output : td_output[i].id = id[c]
    BY <1>1 DEF NoAnswerLost
  <2>1. c # h /\ promise[c] = 0
    BY <1>2, <1>3 DEF Ids
  <2> QED
    BY <1>1, <2>1 DEF IInv, NoAnswerLost
<1> QED
  BY <1>6, <1>8, <1>10, <1>11, <1>14, <1>15, <1>16 DEF IInv

-----------------------------------------------------------------------------
(* The owner and TDLib                                                     *)

LEMMA OwnerInvKept ==
  ASSUME IInv, SetUpdateHandler \/ Start \/ Stop \/ Join
  PROVE  IInv'
<1> USE DEF SetUpdateHandler, Start, Stop, Join, recvVars, callerVars, tdVars
<1>1. rpc' = rpc \/ (rpc = "off" /\ rpc' = "loop")
  BY DEF IInv, OwnerInv
<1>2. TypeOK'
  BY <1>1 DEF IInv, TypeOK
<1>3. \A r : InFlight(r)' = InFlight(r)
  BY DEF InFlight, OutputIds
<1>4. IdsInv' /\ CallersInv'
  BY <1>1, <1>3 DEF IInv, IdsInv, CallersInv, OutputIds
<1>5. RecvInv' /\ OwnerInv'
  BY <1>1 DEF IInv, RecvInv, OwnerInv, TypeOK
<1>6. UpdatesInv'
  BY <1>1 DEF IInv, UpdatesInv, UpdatesInOrder, Handed
<1>7. PromiseAlive' /\ NoAnswerLost'
  BY <1>1 DEF IInv, PromiseAlive, NoAnswerLost
<1> QED
  BY <1>2, <1>4, <1>5, <1>6, <1>7 DEF IInv

(* A response goes to the end of the output.                               *)
LEMMA TdAnswerInv ==
  ASSUME IInv, NEW r \in Ids, TdAnswer(r)
  PROVE  IInv'
<1> USE DEF TdAnswer, recvVars, callerVars
<1> DEFINE n == Len(td_output)
<1>1. /\ td_output \in Seq(Response) /\ n \in Nat /\ DOMAIN td_output = 1 .. n
      /\ td_output' \in Seq(Response) /\ DOMAIN td_output' = 1 .. n + 1
      /\ \A i \in 1 .. n : td_output'[i] = td_output[i]
      /\ td_output'[n + 1].id = r
      /\ r # 0 /\ r \in td_requests
  BY DEF IInv, TypeOK, Answer, Response, Ids
<1>2. TypeOK'
  BY <1>1 DEF IInv, TypeOK
<1>3. OutputIds' = OutputIds \cup {r}
  <2>1. \A i \in 1 .. n + 1 : i = n + 1 \/ i \in 1 .. n
    BY <1>1
  <2> QED
    BY <1>1, <2>1 DEF OutputIds
<1>4. \A q : InFlight(q)' <=> InFlight(q)
  BY <1>1, <1>3 DEF InFlight
<1>5. r \notin OutputIds /\ r # response.id
  BY <1>1 DEF IInv, IdsInv
<1>6. IdsInv'
  <2>1. \A i, j \in 1 .. n + 1 :
          td_output'[i].id = td_output'[j].id /\ td_output'[i].id # 0 => i = j
    <3>1. \A i \in 1 .. n + 1 : i = n + 1 \/ (i \in 1 .. n /\ td_output'[i].id \in OutputIds)
      BY <1>1 DEF OutputIds
    <3> QED
      BY <1>1, <1>5, <3>1 DEF IInv, IdsInv
  <2> QED
    BY <1>1, <1>3, <1>4, <1>5, <2>1 DEF IInv, IdsInv
<1>7. CallersInv' /\ RecvInv' /\ OwnerInv' /\ PromiseAlive'
  BY <1>4 DEF IInv, CallersInv, RecvInv, OwnerInv, PromiseAlive
<1>8. UpdatesInv'
  <2>1. \A i \in 1 .. n + 1 : td_output'[i].id = 0 => i \in 1 .. n
    BY <1>1
  <2>2. \A i \in 1 .. n : i \in 1 .. n + 1
    BY <1>1
  <2>3. Handed' = Handed
    BY DEF Handed
  <2>4. \A m \in Handed + 1 .. td_updates : \E i \in 1 .. n + 1 :
          td_output'[i].id = 0 /\ td_output'[i].seq = m
    BY <1>1, <2>2 DEF IInv, UpdatesInv
  <2>5. \A i \in 1 .. n + 1 : td_output'[i].id = 0 =>
          td_output'[i].seq > Handed /\ td_output'[i].seq <= td_updates
    BY <1>1, <2>1 DEF IInv, UpdatesInv
  <2>6. \A i, j \in 1 .. n + 1 :
          i < j /\ td_output'[i].id = 0 /\ td_output'[j].id = 0 =>
            td_output'[i].seq < td_output'[j].seq
    BY <1>1, <2>1 DEF IInv, UpdatesInv
  <2> QED
    BY <1>1, <2>3, <2>4, <2>5, <2>6 DEF IInv, UpdatesInv, UpdatesInOrder
<1>9. NoAnswerLost'
  <2>1. n + 1 \in 1 .. n + 1 /\ \A i \in 1 .. n : i \in 1 .. n + 1
    BY <1>1
  <2> QED
    BY <1>1, <2>1 DEF IInv, NoAnswerLost
<1> QED
  BY <1>2, <1>6, <1>7, <1>8, <1>9 DEF IInv

LEMMA TdUpdateInv ==
  ASSUME IInv, TdUpdate
  PROVE  IInv'
<1> USE DEF TdUpdate, recvVars, callerVars
<1> DEFINE n == Len(td_output)
<1>0. /\ td_updates' = td_updates + 1 /\ td_updates \in Nat /\ td_updates' \in 0 .. MaxUpdates
      /\ td_output \in Seq(Response)
  BY DEF IInv, TypeOK
<1>0a. /\ Update(td_updates') \in Response
      /\ Update(td_updates').id = 0 /\ Update(td_updates').seq = td_updates'
  BY <1>0 DEF Update, Response
<1>1. /\ td_output \in Seq(Response) /\ n \in Nat /\ DOMAIN td_output = 1 .. n
      /\ td_output' \in Seq(Response) /\ DOMAIN td_output' = 1 .. n + 1
      /\ \A i \in 1 .. n : td_output'[i] = td_output[i] /\ td_output[i] \in Response
      /\ td_output'[n + 1].id = 0 /\ td_output'[n + 1].seq = td_updates'
      /\ td_updates' = td_updates + 1 /\ td_updates \in Nat /\ td_updates' \in 0 .. MaxUpdates
  BY <1>0, <1>0a
<1>2. TypeOK'
  BY <1>1 DEF IInv, TypeOK
<1>3. OutputIds' = OutputIds \cup {0}
  <2>1. \A i \in 1 .. n + 1 : i = n + 1 \/ i \in 1 .. n
    BY <1>1
  <2> QED
    BY <1>1, <2>1 DEF OutputIds
<1>4. \A q \in Ids : InFlight(q)' <=> InFlight(q)
  BY <1>3 DEF InFlight, Ids
<1>5. IdsInv'
  <2>1. \A i, j \in 1 .. n + 1 :
          td_output'[i].id = td_output'[j].id /\ td_output'[i].id # 0 => i = j
    <3>1. \A i \in 1 .. n + 1 : i = n + 1 \/ i \in 1 .. n
      BY <1>1
    <3> QED
      BY <1>1, <3>1 DEF IInv, IdsInv
  <2>2. 0 \notin td_requests
    BY DEF IInv, TypeOK, Ids
  <2> QED
    BY <1>1, <1>3, <1>4, <2>1, <2>2 DEF IInv, IdsInv
<1>6. CallersInv'
  <2>1. \A c \in Caller : cpc[c] # "idle" => id[c] \in Ids
    BY DEF IInv, TypeOK, CallersInv, Ids
  <2> QED
    BY <1>4, <2>1 DEF IInv, CallersInv
<1>7. RecvInv' /\ OwnerInv' /\ PromiseAlive'
  BY DEF IInv, RecvInv, OwnerInv, PromiseAlive
<1>8. UpdatesInv'
  <2>1. Handed' = Handed /\ Handed \in Nat /\ Handed <= td_updates
    BY DEF Handed, IInv, TypeOK, UpdatesInv
  <2>2. \A i \in 1 .. n + 1 : i = n + 1 \/ i \in 1 .. n
    BY <1>1
  <2>3. \A m \in Handed + 1 .. td_updates' : \E i \in 1 .. n + 1 :
          td_output'[i].id = 0 /\ td_output'[i].seq = m
    <3> TAKE m \in Handed + 1 .. td_updates'
    <3>1. CASE m = td_updates'
      BY <1>1, <3>1
    <3>2. CASE m # td_updates'
      <4>1. m \in Handed + 1 .. td_updates
        BY <1>1, <2>1, <3>2
      <4>2. PICK i \in 1 .. n : td_output[i].id = 0 /\ td_output[i].seq = m
        BY <1>1, <4>1 DEF IInv, UpdatesInv
      <4> QED
        BY <1>1, <4>2
    <3> QED
      BY <3>1, <3>2
  <2>4. \A i \in 1 .. n : td_output[i].seq \in Nat
    <3>1. \A x \in Response : x.seq \in Nat
      BY DEF Response
    <3> QED
      BY <1>1, <3>1
  <2>5. \A i \in 1 .. n + 1 : td_output'[i].id = 0 =>
          td_output'[i].seq > Handed /\ td_output'[i].seq <= td_updates'
    BY <1>1, <2>1, <2>2, <2>4 DEF IInv, UpdatesInv
  <2>6. \A i, j \in 1 .. n + 1 :
          i < j /\ td_output'[i].id = 0 /\ td_output'[j].id = 0 =>
            td_output'[i].seq < td_output'[j].seq
    BY <1>1, <2>1, <2>2, <2>4, SMTT(30) DEF IInv, UpdatesInv
  <2> QED
    BY <1>1, <2>1, <2>3, <2>5, <2>6 DEF IInv, UpdatesInv, UpdatesInOrder
<1>9. NoAnswerLost'
  <2>1. \A i \in 1 .. n : i \in 1 .. n + 1
    BY <1>1
  <2> QED
    BY <1>1, <2>1 DEF IInv, NoAnswerLost
<1> QED
  BY <1>2, <1>5, <1>6, <1>7, <1>8, <1>9 DEF IInv

-----------------------------------------------------------------------------
LEMMA StutterInv == IInv /\ UNCHANGED vars => IInv'
  BY DEF IInv, TypeOK, IdsInv, InFlight, OutputIds, CallersInv, RecvInv, UpdatesInv,
         UpdatesInOrder, Handed, OwnerInv, PromiseAlive, NoAnswerLost,
         vars, callerVars, recvVars, tdVars

THEOREM Invariance == Spec => []IInv
<1>1. IInv /\ [Next]_vars => IInv'
  <2> SUFFICES ASSUME IInv, [Next]_vars PROVE IInv'
    OBVIOUS
  <2>1. ASSUME NEW c \in Caller, TakeId(c) \/ SendStep(c) PROVE IInv'
    BY <2>1, TakeIdInv, RegisterInv, PostInv, GetResultInv, ResumeInv DEF SendStep
  <2>2. CASE RecvStep
    BY <2>2, IdleRecvInv, ReceiveObjectInv, LookupInv, CallHandlerInv DEF RecvStep
  <2>3. CASE OwnerStep \/ Stop
    BY <2>3, OwnerInvKept DEF OwnerStep
  <2>4. CASE TdStep
    BY <2>4, TdAnswerInv, TdUpdateInv DEF TdStep
  <2>5. CASE UNCHANGED vars
    BY <2>5, StutterInv
  <2> QED
    BY <2>1, <2>2, <2>3, <2>4, <2>5 DEF Next
<1> QED
  BY <1>1, InitInv, PTL DEF Spec

(* Every variable keeps its type: no id and no update leaves its bounds.   *)
THEOREM TypeCorrect == Spec => []TypeOK
<1>1. IInv => TypeOK
  BY DEF IInv
<1> QED
  BY <1>1, Invariance, PTL

(* However callers, the receive thread and TDLib interleave, a promise is  *)
(* set while it is there and by the answer to its own request, no answer   *)
(* is lost, and updates reach the handler in order.                        *)
THEOREM Delivery == Spec => []DeliverySound
<1>1. IInv => DeliverySound
  BY DEF IInv, UpdatesInv, DeliverySound
<1> QED
  BY <1>1, Invariance, PTL

(* After stop has returned no step calls a handler.                        *)
THEOREM Quiet == Spec => QuietAfterStop
<1> DEFINE Calm == mpc = "stopped" => /\ UNCHANGED <<delivered, h>>
                                      /\ \A c \in Caller : promise'[c] \in {promise[c], 0}
<1>1. IInv /\ [Next]_vars => [Calm]_vars
  <2> SUFFICES ASSUME IInv, Next, mpc = "stopped"
               PROVE  /\ UNCHANGED <<delivered, h>>
                      /\ \A c \in Caller : promise'[c] \in {promise[c], 0}
    BY DEF Calm
  <2>1. rpc = "exited" /\ promise \in [Caller -> 0 .. MaxRequests]
    BY DEF IInv, OwnerInv, TypeOK
  <2>2. ASSUME NEW c \in Caller, TakeId(c) \/ SendStep(c)
        PROVE  /\ UNCHANGED <<delivered, h>>
               /\ \A d \in Caller : promise'[d] \in {promise[d], 0}
    BY <2>1, <2>2 DEF TakeId, SendStep, Register, Post, GetResult, Resume, recvVars
  <2>3. ~RecvStep
    BY <2>1 DEF RecvStep, LoopAgain, ReceiveObject, ReceiveTimeout, Lookup, CallHandler
  <2>4. CASE OwnerStep \/ Stop \/ TdStep
    BY <2>4 DEF OwnerStep, SetUpdateHandler, Start, Join, Stop, TdStep, TdAnswer, TdUpdate,
                recvVars, callerVars
  <2> QED
    BY <2>2, <2>3, <2>4 DEF Next
<1> QED
  BY <1>1, Invariance, PTL DEF Spec, QuietAfterStop
=============================================================================
