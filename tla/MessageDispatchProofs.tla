----------------------- MODULE MessageDispatchProofs -----------------------
(***************************************************************************)
(* Proofs about MessageDispatch for any handlers, middleware, updates and  *)
(* workers: no handler is missed, none is started twice, out of turn or    *)
(* for an update it does not accept, and what a handler gets has been      *)
(* vetted; and the messages they get tell the truth about what TDLib sent. *)
(***************************************************************************)
EXTENDS MessageDispatch, WellFoundedInduction, TLAPS

USE HandlerAssumption, RunnerAssumption, BoundAssumption DEF Delivery

(* The lists of handlers and middleware are the calls that made them.      *)
In(c, q) == \E i \in DOMAIN q : q[i] = c

CallsInv ==
  /\ \A i, j \in DOMAIN calls : calls[i] = calls[j] => i = j
  /\ \A m \in Moment : \A n \in Delivery : cuts[m][n] <= Len(calls)

ListsInv ==
  /\ \A k \in Kind : /\ InOrder(handlers[k])
                     /\ \A h \in Handler :
                          In(h, handlers[k]) <=> Called(h) /\ KindOf[h] = k
  /\ \A mw \in Middleware : Called(mw) => In(mw, middlewares)

(* What handlers are still to be asked about a delivery: they come after   *)
(* the ones started, and with them are all that must not be missed.        *)
Owed(n, left) ==
  /\ n \in DOMAIN delivered
  /\ outcome[n] = "none"
  /\ InOrder(left)
  /\ \A h \in Handler : In(h, left) => /\ Before(h, "dispatch", n)
                                       /\ KindOf[h] = delivered[n].kind
                                       /\ \A g \in Runs(n) : Place(g) < Place(h)
  /\ \A h \in Handler : KindOf[h] = delivered[n].kind /\ FilterAccepts(h, n)
                          /\ Before(h, "received", n) => h \in Runs(n) \/ In(h, left)

JobsInv ==
  /\ \A x \in Runner : \A j \in {job[x]} : j # Idle => Owed(j.n, j.left)
  /\ \A i \in DOMAIN tasks : \A j \in {tasks[i]} : Owed(j.n, j.left)

(* A delivery has one job at most, and none while the dispatcher has it.   *)
Vetting == stage \in {"vetting", "asking", "dispatch"}

OneJobInv ==
  /\ \A x, y \in Runner : x # y /\ job[x] # Idle => job[x].n # job[y].n
  /\ \A i, j \in DOMAIN tasks : i # j => tasks[i].n # tasks[j].n
  /\ \A x \in Runner, i \in DOMAIN tasks : job[x].n # tasks[i].n
  /\ Vetting => /\ outcome[Last] = "none" /\ handled[Last] = <<>>
                /\ \A x \in Runner : job[x].n # Last
                /\ \A i \in DOMAIN tasks : tasks[i].n # Last
                /\ delivered[Last].kind \in Kind
  /\ \A n \in Delivery : n > Last => outcome[n] = "none" /\ handled[n] = <<>>

(* The middleware that was there when the list was copied has vetted what  *)
(* is past the dispatcher, or is still to be asked.                        *)
VettedInv ==
  \A n \in DOMAIN delivered : delivered[n].kind \in {"message", "callback"} =>
    \/ n = Last /\ stage = "vetting"
    \/ outcome[n] = "halted"
    \/ \A mw \in Middleware : Before(mw, "vetting", n) =>
         \/ <<n, mw>> \in vetted
         \/ n = Last /\ stage = "asking" /\ In(mw, copy)

IInv == /\ TypeOK /\ CallsInv /\ ListsInv /\ JobsInv /\ OneJobInv /\ VettedInv
        /\ NoHandlerMissed

-----------------------------------------------------------------------------
(* The place of a call                                                     *)

LEMMA PlaceIs ==
  ASSUME CallsInv, TypeOK, NEW c, Called(c)
  PROVE  /\ Place(c) \in 1 .. Len(calls)
         /\ calls[Place(c)] = c
<1>1. \E i \in DOMAIN calls : calls[i] = c
  BY DEF Called
<1>2. Place(c) \in DOMAIN calls /\ calls[Place(c)] = c
  BY <1>1 DEF Place
<1> QED
  BY <1>2 DEF TypeOK

(* A new call comes after the others and changes none of their places.     *)
LEMMA CallAppends ==
  ASSUME TypeOK, CallsInv, NEW c \in Handler \cup Middleware, ~Called(c),
         calls' = Append(calls, c), UNCHANGED cuts
  PROVE  /\ CallsInv'
         /\ Called(c)' /\ Place(c)' = Len(calls) + 1
         /\ \A d : Called(d) => Called(d)' /\ Place(d)' = Place(d) /\ d # c
         /\ \A d : Called(d)' => Called(d) \/ d = c
         /\ \A d : \A m \in Moment : \A n \in Delivery :
              Before(d, m, n)' <=> Before(d, m, n)
<1>1. /\ calls \in Seq(Handler \cup Middleware) /\ calls' \in Seq(Handler \cup Middleware)
      /\ Len(calls) \in Nat /\ Len(calls') = Len(calls) + 1
      /\ DOMAIN calls = 1 .. Len(calls) /\ DOMAIN calls' = 1 .. Len(calls) + 1
      /\ \A i \in 1 .. Len(calls) : calls'[i] = calls[i]
      /\ calls'[Len(calls) + 1] = c
  BY DEF TypeOK
<1>2. \A i \in DOMAIN calls : calls[i] # c
  BY DEF Called
<1>3. \A i, j \in DOMAIN calls' : calls'[i] = calls'[j] => i = j
  BY <1>1, <1>2 DEF CallsInv
<1>4. CallsInv'
  <2>1. \A m \in Moment : \A n \in Delivery : cuts'[m][n] <= Len(calls')
    BY <1>1, SMTT(30) DEF CallsInv, TypeOK
  <2> QED
    BY <1>3, <2>1 DEF CallsInv
<1>5. \A d : Called(d)' <=> Called(d) \/ d = c
  BY <1>1 DEF Called
<1>6. \A d : \A i \in DOMAIN calls' : calls'[i] = d => Place(d)' = i
  <2> SUFFICES ASSUME NEW d, NEW i \in DOMAIN calls', calls'[i] = d
               PROVE  (CHOOSE j \in DOMAIN calls' : calls'[j] = d) = i
    BY DEF Place
  <2>1. (CHOOSE j \in DOMAIN calls' : calls'[j] = d) \in DOMAIN calls'
        /\ calls'[CHOOSE j \in DOMAIN calls' : calls'[j] = d] = d
    OBVIOUS
  <2> QED
    BY <1>3, <2>1
<1>7. Called(c)' /\ Place(c)' = Len(calls) + 1
  BY <1>1, <1>5, <1>6
<1>8. ASSUME NEW d, Called(d)
      PROVE  Called(d)' /\ Place(d)' = Place(d) /\ d # c /\ Place(d) \in 1 .. Len(calls)
  <2>1. Place(d) \in 1 .. Len(calls) /\ calls[Place(d)] = d
    BY <1>8, PlaceIs
  <2>2. Place(d) \in DOMAIN calls' /\ calls'[Place(d)] = d
    BY <1>1, <2>1
  <2> QED
    BY <1>5, <1>6, <1>8, <2>1, <2>2
<1>9. ASSUME NEW d, NEW m \in Moment, NEW n \in Delivery
      PROVE  Before(d, m, n)' <=> Before(d, m, n)
  <2>1. cuts'[m][n] = cuts[m][n] /\ cuts[m][n] <= Len(calls) /\ cuts[m][n] \in Nat
    <3>1. cuts[m][n] \in Nat
      BY DEF TypeOK
    <3>2. cuts[m][n] <= Len(calls)
      BY DEF CallsInv
    <3> QED
      BY <3>1, <3>2
  <2>2. CASE Called(d)
    BY <1>8, <2>1, <2>2 DEF Before
  <2>3. CASE ~Called(d)
    BY <1>1, <1>5, <1>7, <2>1, <2>3 DEF Before
  <2> QED
    BY <2>2, <2>3
<1> QED
  BY <1>4, <1>5, <1>7, <1>8, <1>9

(* Whether a filter accepts a delivery does not change.                    *)
LEMMA AcceptsStable ==
  ASSUME NEW h, NEW n, delivered'[n] = delivered[n]
  PROVE  FilterAccepts(h, n)' <=> FilterAccepts(h, n)
BY DEF FilterAccepts, MessageOf

(* What a step must keep of a delivery that it is not about.               *)
PlacesKept == \A c : Called(c) => Called(c)' /\ Place(c)' = Place(c)

Kept(n) ==
  /\ n \in DOMAIN delivered /\ n \in DOMAIN delivered'
  /\ delivered'[n] = delivered[n] /\ outcome'[n] = outcome[n] /\ handled'[n] = handled[n]
  /\ PlacesKept
  /\ \A c : \A m \in {"received", "dispatch"} : Before(c, m, n)' <=> Before(c, m, n)

LEMMA NoneMissedKept ==
  ASSUME NEW n, NoneMissed(n), Kept(n)
  PROVE  NoneMissed(n)' /\ Runs(n)' = Runs(n) /\ \A h \in Runs(n) : Called(h)
<1>1. \A h : FilterAccepts(h, n)' <=> FilterAccepts(h, n)
  BY AcceptsStable DEF Kept
<1>2. Runs(n)' = Runs(n)
  BY DEF Runs, Kept
<1>3. \A h \in Runs(n) : Called(h)
  BY DEF NoneMissed, RunsInOrder, Before
<1>4. InOrder(handled[n])'
  <2> SUFFICES ASSUME NEW i \in DOMAIN handled'[n], NEW j \in DOMAIN handled'[n],
                      NEW g \in Handler, NEW h \in Handler,
                      i < j, handled'[n][i] = g, handled'[n][j] = h
               PROVE  Place(g)' < Place(h)'
    BY DEF InOrder
  <2>1. handled'[n] = handled[n] /\ g \in Runs(n) /\ h \in Runs(n)
    BY DEF Runs, Kept
  <2> QED
    BY <1>3, <2>1 DEF NoneMissed, RunsInOrder, InOrder, Kept, PlacesKept
<1>5. RunsInOrder(n)'
  BY <1>1, <1>2, <1>4 DEF NoneMissed, RunsInOrder, Kept
<1> QED
  BY <1>1, <1>2, <1>3, <1>5 DEF NoneMissed, Kept

LEMMA OwedKept ==
  ASSUME NEW n, NEW left, NoneMissed(n), Owed(n, left), Kept(n)
  PROVE  Owed(n, left)'
<1>1. \A h : FilterAccepts(h, n)' <=> FilterAccepts(h, n)
  BY AcceptsStable DEF Kept
<1>2. Runs(n)' = Runs(n) /\ \A h \in Runs(n) : Called(h)
  BY NoneMissedKept
<1>3. \A h \in Handler : In(h, left) => Called(h)
  BY DEF Owed, Before
<1>4. InOrder(left)'
  BY <1>3 DEF Owed, InOrder, In, Kept, PlacesKept
<1>5. ASSUME NEW h \in Handler, In(h, left)
      PROVE  /\ Before(h, "dispatch", n)'
             /\ KindOf[h] = delivered'[n].kind
             /\ \A g \in Runs(n)' : Place(g)' < Place(h)'
  BY <1>2, <1>3, <1>5 DEF Owed, Kept, PlacesKept
<1>6. \A h \in Handler : KindOf[h] = delivered'[n].kind /\ FilterAccepts(h, n)'
                           /\ Before(h, "received", n)' => h \in Runs(n)' \/ In(h, left)
  BY <1>1, <1>2 DEF Owed, Kept
<1> QED
  BY <1>4, <1>5, <1>6 DEF Owed, Kept

(* All deliveries that have come in are kept.                              *)
LEMMA AllKept ==
  ASSUME IInv, \A n \in DOMAIN delivered : Kept(n), DOMAIN delivered' = DOMAIN delivered
  PROVE  /\ NoHandlerMissed'
         /\ \A n, left : Owed(n, left) => Owed(n, left)'
<1>1. \A n \in DOMAIN delivered : NoneMissed(n)
  BY DEF IInv, NoHandlerMissed
<1>2. NoHandlerMissed'
  BY <1>1, NoneMissedKept DEF NoHandlerMissed
<1>3. \A n, left : Owed(n, left) => n \in DOMAIN delivered
  BY DEF Owed
<1> QED
  BY <1>1, <1>2, <1>3, OwedKept

LEMMA InitInv == Init => IInv
<1> SUFFICES ASSUME Init PROVE IInv
  OBVIOUS
<1> USE DEF Init
<1>1. TypeOK
  <2>1. /\ handlers \in [Kind -> Seq(Handler)] /\ middlewares \in Seq(Middleware)
        /\ delivered \in Seq(Update) /\ Len(delivered) <= MaxUpdates
        /\ copy \in Seq(Middleware) /\ tasks \in Seq(Job)
        /\ calls \in Seq(Handler \cup Middleware)
    OBVIOUS
  <2>2. job \in [Runner -> Job \cup {Idle}] /\ job[Dispatcher] = Idle
    BY DEF Runner
  <2>3. cuts \in [Moment -> [Delivery -> Nat]]
    OBVIOUS
  <2>4. handled \in [Delivery -> Seq(Handler)]
    OBVIOUS
  <2>5. outcome \in [Delivery -> {"none", "halted", "ignored", "done", "escaped"}]
    OBVIOUS
  <2> QED
    BY <2>1, <2>2, <2>3, <2>4, <2>5 DEF TypeOK
<1>2. CallsInv
  BY DEF CallsInv
<1>3. ListsInv
  BY DEF ListsInv, InOrder, In, Called
<1>4. JobsInv /\ OneJobInv /\ VettedInv /\ NoHandlerMissed
  BY DEF JobsInv, OneJobInv, VettedInv, NoHandlerMissed, Vetting, Last, Idle
<1> QED
  BY <1>1, <1>2, <1>3, <1>4 DEF IInv

-----------------------------------------------------------------------------
(* Calls of the application                                                *)

LEMMA CallKeeps ==
  ASSUME IInv, NEW b \in Handler \cup Middleware, MayCall(b), calls' = Append(calls, b),
         UNCHANGED <<thread_pool, delivered, stage, copy, running,
                     cuts, vetted, handled, outcome, aborted>>
  PROVE  /\ CallsInv' /\ JobsInv' /\ OneJobInv' /\ VettedInv' /\ NoHandlerMissed'
         /\ calls' \in Seq(Handler \cup Middleware)
<1> USE DEF running
<1>1. /\ CallsInv' /\ PlacesKept
      /\ \A d : \A m \in Moment : \A n \in Delivery : Before(d, m, n)' <=> Before(d, m, n)
  BY CallAppends DEF IInv, MayCall, PlacesKept
<1>2. DOMAIN delivered \subseteq Delivery
  BY DEF IInv, TypeOK
<1>3. ASSUME NEW n \in DOMAIN delivered
      PROVE  Kept(n)
  <2>1. \A c : \A m \in {"received", "dispatch"} : Before(c, m, n)' <=> Before(c, m, n)
    BY <1>1, <1>2, SMTT(30) DEF Moment
  <2>2. UNCHANGED <<delivered, outcome, handled>>
    OBVIOUS
  <2> QED
    BY <1>1, <2>1, <2>2 DEF Kept
<1>4. NoHandlerMissed' /\ JobsInv'
  BY <1>3, AllKept DEF IInv, JobsInv
<1>5. OneJobInv'
  BY DEF IInv, OneJobInv, Vetting, Last
<1>6. VettedInv'
  BY <1>1, <1>2 DEF IInv, VettedInv, Last, Moment, In
<1>7. calls' \in Seq(Handler \cup Middleware)
  BY DEF IInv, TypeOK
<1> QED
  BY <1>1, <1>4, <1>5, <1>6, <1>7

LEMMA OnPreserves ==
  ASSUME IInv, NEW h \in Handler, On(h)
  PROVE  IInv'
<1>1. /\ CallsInv' /\ JobsInv' /\ OneJobInv' /\ VettedInv' /\ NoHandlerMissed'
      /\ calls' \in Seq(Handler \cup Middleware)
  BY CallKeeps DEF On
<1>2. KindOf[h] \in Kind /\ handlers' = [handlers EXCEPT ![KindOf[h]] = Append(@, h)]
      /\ handlers \in [Kind -> Seq(Handler)]
  BY DEF On, IInv, TypeOK
<1>3. handlers' \in [Kind -> Seq(Handler)]
  BY <1>2
<1>4. TypeOK'
  BY <1>1, <1>3 DEF On, IInv, TypeOK, running
<1>5. ~Called(h) /\ calls' = Append(calls, h) /\ cuts' = cuts /\ h \in Handler \cup Middleware
  BY DEF On, MayCall
<1>6. /\ Called(h)' /\ Place(h)' = Len(calls) + 1
      /\ \A d : Called(d) => Called(d)' /\ Place(d)' = Place(d) /\ d # h
      /\ \A d : Called(d)' => Called(d) \/ d = h
  BY <1>5, CallAppends DEF IInv
<1>7. \A d : Called(d) => Place(d) \in 1 .. Len(calls)
  BY PlaceIs DEF IInv
<1>8. ASSUME NEW k \in Kind
      PROVE  InOrder(handlers[k])' /\ \A g \in Handler :
               In(g, handlers'[k]) <=> Called(g)' /\ KindOf[g] = k
  <2>1. /\ InOrder(handlers[k])
        /\ \A g \in Handler : In(g, handlers[k]) <=> Called(g) /\ KindOf[g] = k
    BY DEF IInv, ListsInv
  <2>2. CASE k # KindOf[h]
    <3>1. handlers'[k] = handlers[k]
      BY <1>2, <2>2
    <3>2. \A g \in Handler : In(g, handlers[k]) => Called(g)' /\ Place(g)' = Place(g)
      BY <1>6, <2>1
    <3>3. InOrder(handlers[k])'
      BY <2>1, <3>1, <3>2 DEF InOrder, In
    <3> QED
      BY <1>6, <2>1, <2>2, <3>1, <3>3
  <2>3. CASE k = KindOf[h]
    <3> PICK q \in Seq(Handler) : q = handlers[k]
      BY <1>2
    <3>1. /\ handlers'[k] = Append(q, h) /\ Len(q) \in Nat /\ DOMAIN q = 1 .. Len(q)
          /\ DOMAIN handlers'[k] = 1 .. Len(q) + 1
          /\ \A i \in 1 .. Len(q) : handlers'[k][i] = q[i]
          /\ handlers'[k][Len(q) + 1] = h
      BY <1>2, <2>3
    <3>2. \A g \in Handler : In(g, handlers'[k]) <=> In(g, q) \/ g = h
      BY <3>1 DEF In
    <3>3. \A g \in Handler : In(g, q) =>
            Called(g)' /\ Place(g)' = Place(g) /\ Place(g) < Len(calls) + 1
      BY <1>6, <1>7, <2>1 DEF IInv, TypeOK
    <3>4. ASSUME NEW i \in 1 .. Len(q) + 1, NEW j \in 1 .. Len(q) + 1,
                 NEW f \in Handler, NEW g \in Handler,
                 i < j, handlers'[k][i] = f, handlers'[k][j] = g
          PROVE  Place(f)' < Place(g)'
      <4>1. i \in DOMAIN q /\ q[i] = f /\ In(f, q)
        BY <3>1, <3>4 DEF In
      <4>2. CASE j = Len(q) + 1
        BY <1>6, <3>1, <3>3, <3>4, <4>1, <4>2
      <4>3. CASE j \in DOMAIN q
        <5>1. q[j] = g /\ In(g, q)
          BY <3>1, <3>4, <4>3 DEF In
        <5>2. Place(f) < Place(g)
          BY <2>1, <3>4, <4>1, <4>3, <5>1 DEF InOrder
        <5> QED
          BY <3>3, <4>1, <5>1, <5>2
      <4> QED
        BY <3>1, <4>2, <4>3
    <3>5. InOrder(handlers[k])'
      BY <3>1, <3>4 DEF InOrder
    <3> QED
      BY <1>6, <2>1, <2>3, <3>2, <3>5
  <2> QED
    BY <2>2, <2>3
<1>9. ASSUME NEW mw \in Middleware, Called(mw)'
      PROVE  In(mw, middlewares')
  BY <1>6, <1>9 DEF On, IInv, ListsInv
<1>10. ListsInv'
  BY <1>8, <1>9 DEF ListsInv, In
<1> QED
  BY <1>1, <1>4, <1>10 DEF IInv

LEMMA UsePreserves ==
  ASSUME IInv, NEW mw \in Middleware, Use(mw)
  PROVE  IInv'
<1>1. /\ CallsInv' /\ JobsInv' /\ OneJobInv' /\ VettedInv' /\ NoHandlerMissed'
      /\ calls' \in Seq(Handler \cup Middleware)
  BY CallKeeps DEF Use
<1>2. middlewares' \in Seq(Middleware) /\ middlewares' = Append(middlewares, mw)
      /\ middlewares \in Seq(Middleware) /\ handlers' = handlers
  BY DEF Use, IInv, TypeOK
<1>3. TypeOK'
  BY <1>1, <1>2 DEF Use, IInv, TypeOK, running
<1>4. /\ \A d : Called(d) => Called(d)' /\ Place(d)' = Place(d)
      /\ \A d : Called(d)' => Called(d) \/ d = mw
  BY CallAppends DEF IInv, Use, MayCall
<1>5. ASSUME NEW k \in Kind
      PROVE  InOrder(handlers[k])' /\ \A h \in Handler :
               In(h, handlers'[k]) <=> Called(h)' /\ KindOf[h] = k
  <2>1. \A h \in Handler : In(h, handlers[k]) => Called(h) /\ Place(h)' = Place(h)
    BY <1>4 DEF IInv, ListsInv
  <2>2. InOrder(handlers[k])'
    BY <1>2, <2>1 DEF IInv, ListsInv, InOrder, In
  <2> QED
    BY <1>2, <1>4, <2>2 DEF IInv, ListsInv
<1>7. \A m \in Middleware : Called(m)' => In(m, middlewares')
  <2> SUFFICES ASSUME NEW m \in Middleware, Called(m)'
               PROVE  \E i \in DOMAIN middlewares' : middlewares'[i] = m
    BY DEF In
  <2>1. CASE m = mw
    BY <1>2, <2>1
  <2>2. CASE m # mw
    <3>1. In(m, middlewares)
      BY <1>4, <2>2 DEF IInv, ListsInv
    <3> QED
      BY <1>2, <3>1 DEF In
  <2> QED
    BY <2>1, <2>2
<1>8. ListsInv'
  BY <1>5, <1>7 DEF ListsInv, In
<1> QED
  BY <1>1, <1>3, <1>8 DEF IInv

-----------------------------------------------------------------------------
(* Steps that add nothing to the lists                                     *)

LEMMA ListsKept ==
  ASSUME TypeOK, ListsInv, UNCHANGED lists
  PROVE  ListsInv' /\ PlacesKept
BY DEF lists, ListsInv, InOrder, In, Called, Place, PlacesKept

(* Dispatcher steps that touch no job and start no handler.                *)
LEMMA SameBefore ==
  ASSUME NEW m, NEW n, UNCHANGED calls, cuts'[m][n] = cuts[m][n]
  PROVE  \A c : Before(c, m, n)' <=> Before(c, m, n)
BY DEF Before, Called, Place

LEMMA KeptIf ==
  ASSUME TypeOK, ListsInv, UNCHANGED lists,
         NEW n \in DOMAIN delivered, n \in DOMAIN delivered',
         delivered'[n] = delivered[n], outcome'[n] = outcome[n], handled'[n] = handled[n],
         cuts'["received"][n] = cuts["received"][n],
         cuts'["dispatch"][n] = cuts["dispatch"][n]
  PROVE  Kept(n)
<1>1. PlacesKept
  BY ListsKept
<1>2. \A c : \A m \in {"received", "dispatch"} : Before(c, m, n)' <=> Before(c, m, n)
  BY SameBefore DEF lists
<1> QED
  BY <1>1, <1>2 DEF Kept

LEMMA NoteKeeps ==
  ASSUME TypeOK, CallsInv, UNCHANGED lists, NEW m \in Moment, NEW n \in Delivery,
         Note(m, n) \/ UNCHANGED cuts
  PROVE  /\ CallsInv' /\ cuts' \in [Moment -> [Delivery -> Nat]]
         /\ \A k \in Moment : \A d \in Delivery :
              k # m \/ d # n => cuts'[k][d] = cuts[k][d]
         /\ Note(m, n) => cuts'[m][n] = Len(calls)
<1>1. Len(calls) \in Nat /\ calls' = calls /\ cuts \in [Moment -> [Delivery -> Nat]]
  BY DEF TypeOK, lists
<1>2. CASE UNCHANGED cuts /\ ~Note(m, n)
  BY <1>1, <1>2 DEF CallsInv
<1>3. CASE Note(m, n)
  <2>1. cuts' = [cuts EXCEPT ![m] = [cuts[m] EXCEPT ![n] = Len(calls)]]
    BY <1>3 DEF Note
  <2>2. cuts' \in [Moment -> [Delivery -> Nat]]
    BY <1>1, <2>1
  <2>3. \A k \in Moment : \A d \in Delivery :
          cuts'[k][d] = IF k = m /\ d = n THEN Len(calls) ELSE cuts[k][d]
    BY <1>1, <2>1
  <2>4. ASSUME NEW k \in Moment, NEW d \in Delivery
        PROVE  cuts'[k][d] <= Len(calls)
    <3>1. cuts[k][d] <= Len(calls) /\ Len(calls) <= Len(calls)
      BY <1>1 DEF CallsInv
    <3> QED
      BY <2>3, <3>1
  <2>5. CallsInv'
    BY <1>1, <2>4 DEF CallsInv
  <2> QED
    BY <2>2, <2>3, <2>5
<1> QED
  BY <1>2, <1>3

LEMMA LastType ==
  ASSUME TypeOK
  PROVE  /\ Last \in Nat /\ Last <= MaxUpdates /\ DOMAIN delivered = 1 .. Last
         /\ DOMAIN delivered \subseteq Delivery
         /\ stage # "idle" => Last \in DOMAIN delivered /\ Last \in Delivery
<1>1. delivered \in Seq(Update) /\ Len(delivered) <= MaxUpdates
  BY DEF TypeOK
<1>2. stage # "idle" => Len(delivered) # 0
  BY <1>1 DEF TypeOK
<1> QED
  BY <1>1, <1>2 DEF Last

(* An update comes in, and has no handler or job yet.                      *)
LEMMA DeliverPreserves ==
  ASSUME IInv, NEW u \in Update, Deliver(u)
  PROVE  IInv'
<1> PICK n : n = Last + 1
  OBVIOUS
<1>1. /\ Last \in Nat /\ n \in Delivery /\ n \notin DOMAIN delivered
      /\ DOMAIN delivered = 1 .. Last /\ DOMAIN delivered \subseteq Delivery
  BY LastType DEF IInv, Deliver, Room
<1>2. /\ delivered' \in Seq(Update) /\ Last' = n /\ DOMAIN delivered' = 1 .. n
      /\ delivered'[n] = u /\ \A d \in DOMAIN delivered : delivered'[d] = delivered[d]
      /\ Len(delivered') <= MaxUpdates
  BY <1>1 DEF Deliver, IInv, TypeOK, Last
<1>3. /\ stage = "idle" /\ stage' \in {"idle", "vetting", "dispatch"}
      /\ UNCHANGED <<lists, thread_pool, copy, running, vetted, handled, aborted>>
      /\ stage' = "idle" => outcome' = [outcome EXCEPT ![n] = "ignored"]
      /\ stage' # "idle" => outcome' = outcome
      /\ u.kind \in {"message", "callback"} => stage' = "vetting"
  BY DEF Deliver
<1>4. /\ CallsInv' /\ cuts' \in [Moment -> [Delivery -> Nat]]
      /\ \A k \in Moment : \A d \in Delivery : d # n => cuts'[k][d] = cuts[k][d]
  BY <1>1, <1>3, NoteKeeps DEF Deliver, IInv, Moment
<1>5. outcome[n] = "none" /\ handled[n] = <<>>
  BY <1>1 DEF IInv, OneJobInv
<1>6. ASSUME NEW d \in DOMAIN delivered
      PROVE  Kept(d)
  <2>1. d \in Delivery /\ d # n /\ d \in DOMAIN delivered' /\ delivered'[d] = delivered[d]
    BY <1>1, <1>2
  <2>2. outcome'[d] = outcome[d] /\ handled'[d] = handled[d]
    BY <1>3, <2>1 DEF IInv, TypeOK
  <2>3. /\ cuts'["received"][d] = cuts["received"][d]
        /\ cuts'["dispatch"][d] = cuts["dispatch"][d]
    BY <1>4, <2>1 DEF Moment
  <2> QED
    BY <1>3, <2>1, <2>2, <2>3, KeptIf DEF IInv
<1>7. TypeOK'
  <2>1. outcome' \in [Delivery -> {"none", "halted", "ignored", "done", "escaped"}]
    BY <1>3 DEF IInv, TypeOK
  <2>2. UNCHANGED <<handlers, middlewares, calls, job, tasks>>
    BY <1>3 DEF lists, running
  <2>3. delivered' # <<>>
    BY <1>1, <1>2
  <2> QED
    BY <1>2, <1>3, <1>4, <2>1, <2>2, <2>3 DEF IInv, TypeOK
<1>8. ListsInv'
  BY <1>3, ListsKept DEF IInv
<1>9. JobsInv'
  <2>1. \A d \in DOMAIN delivered : NoneMissed(d)
    BY DEF IInv, NoHandlerMissed
  <2>2. \A d, left : Owed(d, left) => Owed(d, left)'
    BY <1>6, <2>1, OwedKept DEF Owed
  <2> QED
    BY <1>3, <2>2 DEF IInv, JobsInv, running
<1>10. OneJobInv'
  <2>1. \A x \in Runner : job[x].n # n
    BY <1>1 DEF IInv, JobsInv, Owed, Idle
  <2>2. \A i \in DOMAIN tasks : tasks[i].n # n
    BY <1>1 DEF IInv, JobsInv, Owed
  <2>3. Vetting' => /\ outcome'[Last'] = "none" /\ handled'[Last'] = <<>>
                    /\ delivered'[Last'].kind \in Kind
    BY <1>2, <1>3, <1>5 DEF Vetting, Deliver, Kind
  <2>4. \A d \in Delivery : d > n => outcome'[d] = "none" /\ handled'[d] = <<>>
    <3> SUFFICES ASSUME NEW d \in Delivery, d > n
                 PROVE  outcome'[d] = "none" /\ handled'[d] = <<>>
      OBVIOUS
    <3>1. d > Last /\ d # n
      BY <1>1
    <3>2. outcome[d] = "none" /\ handled[d] = <<>>
      BY <3>1 DEF IInv, OneJobInv
    <3> QED
      BY <1>3, <3>1, <3>2 DEF IInv, TypeOK
  <2> QED
    BY <1>2, <1>3, <2>1, <2>2, <2>3, <2>4 DEF IInv, OneJobInv, running
<1>11. VettedInv'
  <2> SUFFICES ASSUME NEW d \in 1 .. n, delivered'[d].kind \in {"message", "callback"}
               PROVE  \/ d = n /\ stage' = "vetting"
                      \/ outcome'[d] = "halted"
                      \/ \A mw \in Middleware : Before(mw, "vetting", d)' => <<d, mw>> \in vetted'
    BY <1>2 DEF VettedInv
  <2>1. CASE d = n
    BY <1>2, <1>3, <2>1
  <2>2. CASE d # n
    <3>1. d \in DOMAIN delivered /\ d \in Delivery
      BY <1>1, <2>2
    <3>2. outcome'[d] = outcome[d]
      BY <1>3, <2>2, <3>1 DEF IInv, TypeOK
    <3>3. \A mw : Before(mw, "vetting", d)' <=> Before(mw, "vetting", d)
      BY <1>3, <1>4, <2>2, <3>1, SameBefore DEF lists, Moment
    <3> QED
      BY <1>2, <1>3, <3>1, <3>2, <3>3 DEF IInv, VettedInv
  <2> QED
    BY <2>1, <2>2
<1>12. NoHandlerMissed'
  <2>1. \A d \in DOMAIN delivered : NoneMissed(d)'
    BY <1>6, NoneMissedKept DEF IInv, NoHandlerMissed
  <2>2. handled'[n] = <<>> /\ outcome'[n] # "done"
    BY <1>1, <1>3, <1>5 DEF IInv, TypeOK
  <2>3. NoneMissed(n)'
    BY <2>2 DEF NoneMissed, RunsInOrder, Runs, InOrder
  <2>4. \A d \in DOMAIN delivered' : d \in DOMAIN delivered \/ d = n
    BY <1>1, <1>2
  <2> QED
    BY <2>1, <2>3, <2>4 DEF NoHandlerMissed
<1> QED
  BY <1>4, <1>7, <1>8, <1>9, <1>10, <1>11, <1>12 DEF IInv

-----------------------------------------------------------------------------
(* Steps about one delivery                                                *)

LEMMA OthersKept ==
  ASSUME IInv, NEW n, DOMAIN delivered' = DOMAIN delivered,
         \A d \in DOMAIN delivered : d # n => Kept(d), NoneMissed(n)'
  PROVE  /\ NoHandlerMissed'
         /\ \A d, left : d # n /\ Owed(d, left) => Owed(d, left)'
<1>1. \A d \in DOMAIN delivered : NoneMissed(d)
  BY DEF IInv, NoHandlerMissed
<1>2. \A d \in DOMAIN delivered : NoneMissed(d)'
  BY <1>1, NoneMissedKept
<1>3. NoHandlerMissed'
  BY <1>2 DEF NoHandlerMissed
<1>4. \A d, left : Owed(d, left) => d \in DOMAIN delivered
  BY DEF Owed
<1> QED
  BY <1>1, <1>3, <1>4, OwedKept

(* While the dispatcher has a delivery, nobody is started for it.          *)
LEMMA VettingKeeps ==
  ASSUME IInv, Vetting, UNCHANGED <<lists, delivered, handled>>,
         NEW n, n = Last, NEW m \in Moment, Note(m, n) \/ UNCHANGED cuts,
         outcome' = outcome \/ outcome' = [outcome EXCEPT ![n] = "halted"]
  PROVE  /\ CallsInv' /\ ListsInv' /\ NoHandlerMissed'
         /\ cuts' \in [Moment -> [Delivery -> Nat]]
         /\ outcome' \in [Delivery -> {"none", "halted", "ignored", "done", "escaped"}]
         /\ n \in DOMAIN delivered /\ n \in Delivery /\ Last' = n
         /\ outcome[n] = "none" /\ handled'[n] = <<>>
         /\ \A d \in Delivery : d # n => outcome'[d] = outcome[d]
         /\ \A k \in Moment : \A d \in Delivery :
              k # m \/ d # n => cuts'[k][d] = cuts[k][d]
         /\ Note(m, n) => cuts'[m][n] = Len(calls)
         /\ \A d, left : d # n /\ Owed(d, left) => Owed(d, left)'
         /\ \A x \in Runner : job[x].n # n
         /\ \A i \in DOMAIN tasks : tasks[i].n # n
<1>1. /\ n \in DOMAIN delivered /\ n \in Delivery /\ DOMAIN delivered \subseteq Delivery
      /\ Last' = n
  BY LastType DEF IInv, Vetting, Last
<1>2. /\ outcome[n] = "none" /\ handled'[n] = <<>>
      /\ \A x \in Runner : job[x].n # n
      /\ \A i \in DOMAIN tasks : tasks[i].n # n
  BY DEF IInv, OneJobInv
<1>3. /\ outcome' \in [Delivery -> {"none", "halted", "ignored", "done", "escaped"}]
      /\ \A d \in Delivery : d # n => outcome'[d] = outcome[d]
      /\ outcome'[n] \in {"none", "halted"}
  BY <1>1, <1>2 DEF IInv, TypeOK
<1>4. /\ CallsInv' /\ cuts' \in [Moment -> [Delivery -> Nat]]
      /\ \A k \in Moment : \A d \in Delivery :
           k # m \/ d # n => cuts'[k][d] = cuts[k][d]
      /\ Note(m, n) => cuts'[m][n] = Len(calls)
  BY <1>1, NoteKeeps DEF IInv
<1>5. ASSUME NEW d \in DOMAIN delivered, d # n
      PROVE  Kept(d)
  <2>1. /\ cuts'["received"][d] = cuts["received"][d]
        /\ cuts'["dispatch"][d] = cuts["dispatch"][d]
    BY <1>1, <1>4, <1>5 DEF Moment
  <2>2. d \in DOMAIN delivered' /\ delivered'[d] = delivered[d]
        /\ outcome'[d] = outcome[d] /\ handled'[d] = handled[d]
    BY <1>1, <1>3, <1>5
  <2> QED
    BY <2>1, <2>2, KeptIf DEF IInv
<1>6. NoneMissed(n)'
  BY <1>2, <1>3 DEF NoneMissed, RunsInOrder, Runs, InOrder
<1>7. ListsInv'
  BY ListsKept DEF IInv
<1> QED
  BY <1>1, <1>2, <1>3, <1>4, <1>5, <1>6, <1>7, OthersKept

(* The middleware of other deliveries stays as it was.                     *)
LEMMA VettedKept ==
  ASSUME IInv, UNCHANGED <<lists, delivered>>, vetted \subseteq vetted',
         NEW d \in DOMAIN delivered, delivered[d].kind \in {"message", "callback"},
         d # Last \/ ~Vetting, outcome[d] = "halted" => outcome'[d] = "halted",
         cuts'["vetting"][d] = cuts["vetting"][d]
  PROVE  \/ outcome'[d] = "halted"
         \/ \A mw \in Middleware : Before(mw, "vetting", d)' => <<d, mw>> \in vetted'
<1>1. \A mw : Before(mw, "vetting", d)' <=> Before(mw, "vetting", d)
  BY SameBefore DEF lists
<1> QED
  BY <1>1 DEF IInv, VettedInv, Vetting

LEMMA ExecutePreserves ==
  ASSUME IInv, Execute
  PROVE  IInv'
<1> PICK n : n = Last
  OBVIOUS
<1> USE DEF Execute
<1>1. Vetting /\ Note("vetting", n) /\ "vetting" \in Moment
  BY DEF Vetting, Moment
<1>2. /\ UNCHANGED <<lists, delivered, handled>>
      /\ outcome' = outcome \/ outcome' = [outcome EXCEPT ![n] = "halted"]
  OBVIOUS
<1> HIDE DEF Execute
<1>3. /\ CallsInv' /\ ListsInv' /\ NoHandlerMissed'
      /\ cuts' \in [Moment -> [Delivery -> Nat]]
      /\ n \in DOMAIN delivered /\ n \in Delivery /\ Last' = n
      /\ outcome[n] = "none" /\ handled'[n] = <<>>
      /\ \A k \in Moment : \A d \in Delivery :
           k # "vetting" \/ d # n => cuts'[k][d] = cuts[k][d]
      /\ \A d, left : d # n /\ Owed(d, left) => Owed(d, left)'
      /\ \A x \in Runner : job[x].n # n
      /\ \A i \in DOMAIN tasks : tasks[i].n # n
  BY <1>1, <1>2, VettingKeeps
<1>4. TypeOK'
  BY <1>3 DEF Execute, IInv, TypeOK, lists, running
<1>5. JobsInv' /\ OneJobInv'
  BY <1>3 DEF Execute, IInv, JobsInv, OneJobInv, Vetting, running, Last
<1>6. VettedInv'
  <2> SUFFICES ASSUME NEW d \in DOMAIN delivered, delivered[d].kind \in {"message", "callback"}
               PROVE  \/ outcome'[d] = "halted"
                      \/ \A mw \in Middleware : Before(mw, "vetting", d)' =>
                           <<d, mw>> \in vetted' \/ (d = n /\ In(mw, copy'))
    BY <1>3 DEF Execute, VettedInv, In
  <2>1. CASE d = n
    <3>1. \A mw \in Middleware : Called(mw) => In(mw, middlewares)
      BY DEF IInv, ListsInv
    <3>2. \A mw : Before(mw, "vetting", d)' => Called(mw)
      BY <1>2 DEF Before, Called, lists
    <3> QED
      BY <2>1, <3>1, <3>2 DEF Execute
  <2>2. CASE d # n
    <3>1. d \in Delivery
      BY LastType DEF IInv
    <3>2. cuts'["vetting"][d] = cuts["vetting"][d]
      BY <1>1, <1>3, <2>2, <3>1
    <3> QED
      BY <1>2, <2>2, <3>2, VettedKept DEF Execute
  <2> QED
    BY <2>1, <2>2
<1> QED
  BY <1>3, <1>4, <1>5, <1>6 DEF IInv

(* Proceed, Halt and Passed change no moment.                              *)
LEMMA AskingPreserves ==
  ASSUME IInv, Proceed \/ Halt \/ Passed
  PROVE  IInv'
<1> PICK n : n = Last
  OBVIOUS
<1> USE DEF Proceed, Halt, Passed
<1>1. Vetting /\ UNCHANGED cuts /\ "vetting" \in Moment
  BY DEF Vetting, Moment
<1>2. /\ UNCHANGED <<lists, delivered, handled, running, thread_pool, aborted>>
      /\ outcome' = outcome \/ outcome' = [outcome EXCEPT ![n] = "halted"]
  OBVIOUS
<1>3. /\ CallsInv' /\ ListsInv' /\ NoHandlerMissed'
      /\ outcome' \in [Delivery -> {"none", "halted", "ignored", "done", "escaped"}]
      /\ n \in DOMAIN delivered /\ n \in Delivery /\ Last' = n
      /\ outcome[n] = "none" /\ handled'[n] = <<>>
      /\ \A d \in Delivery : d # n => outcome'[d] = outcome[d]
      /\ \A d, left : d # n /\ Owed(d, left) => Owed(d, left)'
      /\ \A x \in Runner : job[x].n # n
      /\ \A i \in DOMAIN tasks : tasks[i].n # n
  BY <1>1, <1>2, VettingKeeps
<1>4. TypeOK'
  <2>1. copy # <<>> => Head(copy) \in Middleware /\ Tail(copy) \in Seq(Middleware)
    BY DEF IInv, TypeOK
  <2>2. copy' \in Seq(Middleware) /\ vetted' \subseteq Delivery \X Middleware
    <3>1. copy' \in Seq(Middleware)
      <4>1. copy \in Seq(Middleware) /\ <<>> \in Seq(Middleware)
        BY DEF IInv, TypeOK
      <4>2. \/ copy # <<>> /\ copy' = Tail(copy)
            \/ copy' = <<>> \/ copy' = copy
        OBVIOUS
      <4> QED
        BY <2>1, <4>1, <4>2
    <3>2. copy # <<>> => <<n, Head(copy)>> \in Delivery \X Middleware
      BY <1>3, <2>1
    <3>3. vetted' \subseteq Delivery \X Middleware
      BY <3>2 DEF IInv, TypeOK
    <3> QED
      BY <3>1, <3>3
  <2>3. stage' \in {"idle", "asking", "dispatch"} /\ stage # "inline" /\ stage # "idle"
    OBVIOUS
  <2>4. UNCHANGED <<handlers, middlewares, calls, job, tasks, delivered, cuts, handled,
                    thread_pool, aborted>>
    BY <1>1, <1>2 DEF lists, running
  <2> HIDE DEF Proceed, Halt, Passed
  <2> QED
    BY <1>3, <2>2, <2>3, <2>4 DEF IInv, TypeOK
<1>5. JobsInv'
  BY <1>2, <1>3 DEF IInv, JobsInv, running
<1>6. OneJobInv'
  <2>1. Vetting' => outcome'[n] = "none"
    BY <1>3 DEF Vetting
  <2>2. \A d \in Delivery : d > n => d # n
    BY <1>3
  <2> QED
    BY <1>1, <1>2, <1>3, <2>1, <2>2 DEF IInv, OneJobInv, running
<1>7. VettedInv'
  <2> SUFFICES ASSUME NEW d \in DOMAIN delivered, delivered[d].kind \in {"message", "callback"}
               PROVE  \/ outcome'[d] = "halted"
                      \/ \A mw \in Middleware : Before(mw, "vetting", d)' =>
                           <<d, mw>> \in vetted' \/ (d = n /\ stage' = "asking" /\ In(mw, copy'))
    BY <1>2, <1>3 DEF VettedInv, In
  <2>0. d \in Delivery /\ cuts'["vetting"][d] = cuts["vetting"][d]
    BY <1>1, LastType DEF IInv
  <2>1. CASE d # n
    <3>1. vetted \subseteq vetted' /\ outcome'[d] = outcome[d]
      BY <1>3, <2>0, <2>1
    <3> QED
      BY <1>2, <2>0, <2>1, <3>1, VettedKept
  <2>2. CASE d = n /\ ~Halt
    <3>1. \A mw \in Middleware : Before(mw, "vetting", n) =>
            <<n, mw>> \in vetted \/ In(mw, copy)
      BY <1>3, <2>2 DEF IInv, VettedInv
    <3>2. \A mw : Before(mw, "vetting", n)' <=> Before(mw, "vetting", n)
      BY <1>2, <2>0, <2>2, SameBefore DEF lists
    <3>3. CASE Passed
      BY <2>2, <3>1, <3>2, <3>3 DEF In
    <3>4. CASE Proceed
      <4>1. \A mw : In(mw, copy) => mw = Head(copy) \/ In(mw, Tail(copy))
        <5> PICK q \in Seq(Middleware) : q = copy
          BY DEF IInv, TypeOK
        <5>1. q # <<>> /\ Len(q) \in Nat /\ DOMAIN q = 1 .. Len(q)
              /\ DOMAIN Tail(q) = 1 .. Len(q) - 1 /\ Head(q) = q[1]
              /\ \A i \in 1 .. Len(q) - 1 : Tail(q)[i] = q[i + 1]
          BY <3>4
        <5>2. \A i \in DOMAIN q : i = 1 \/
                (i - 1 \in DOMAIN Tail(q) /\ Tail(q)[i - 1] = q[i])
          BY <5>1
        <5> QED
          BY <5>1, <5>2 DEF In
      <4> QED
        BY <2>2, <3>1, <3>2, <3>4, <4>1
    <3> QED
      BY <2>2, <3>3, <3>4
  <2>3. CASE d = n /\ Halt
    BY <1>3, <2>3 DEF IInv, TypeOK
  <2> QED
    BY <2>1, <2>2, <2>3
<1> QED
  BY <1>3, <1>4, <1>5, <1>6, <1>7 DEF IInv

-----------------------------------------------------------------------------
(* Jobs                                                                    *)

(* The handlers that are called are those the lists have.                  *)
LEMMA OwedAtDispatch ==
  ASSUME IInv, stage = "dispatch", UNCHANGED <<lists, delivered, handled, outcome>>,
         NEW n, n = Last, NEW k \in Kind, k = delivered[n].kind,
         NEW left, left = handlers[k], Note("dispatch", n)
  PROVE  Owed(n, left)'
<1>1. Vetting /\ "dispatch" \in Moment
  BY DEF Vetting, Moment
<1>2. /\ n \in DOMAIN delivered /\ n \in Delivery /\ handled'[n] = <<>> /\ outcome[n] = "none"
      /\ cuts'["dispatch"][n] = Len(calls)
  BY <1>1, VettingKeeps
<1>3. \A h \in Handler : In(h, left) <=> Called(h) /\ KindOf[h] = k
  BY DEF IInv, ListsInv
<1>4. \A c : Called(c) => Called(c)' /\ Place(c)' = Place(c) /\ Place(c) <= Len(calls)
  <2>1. \A c : Called(c) => Place(c) \in 1 .. Len(calls)
    BY PlaceIs DEF IInv
  <2>2. Len(calls) \in Nat
    BY DEF IInv, TypeOK
  <2>3. PlacesKept
    BY ListsKept DEF IInv
  <2> QED
    BY <2>1, <2>2, <2>3 DEF PlacesKept
<1>5. InOrder(left)'
  BY <1>3, <1>4 DEF IInv, ListsInv, InOrder, In
<1>6. Runs(n)' = {}
  BY <1>2 DEF Runs
<1>7. \A h \in Handler : In(h, left) => Before(h, "dispatch", n)'
  BY <1>2, <1>3, <1>4 DEF Before
<1>8. \A h \in Handler : Before(h, "received", n)' => Called(h)
  BY DEF Before, Called, lists
<1> QED
  BY <1>2, <1>3, <1>5, <1>6, <1>7, <1>8 DEF Owed

LEMMA DispatchVetted ==
  ASSUME IInv, stage = "dispatch", stage' # "vetting",
         UNCHANGED <<lists, delivered, vetted, outcome>>, Note("dispatch", Last)
  PROVE  VettedInv'
<1>1. /\ "dispatch" \in Moment /\ "vetting" \in Moment /\ Vetting
  BY DEF Moment, Vetting
<1>2. Last \in Delivery /\ DOMAIN delivered \subseteq Delivery
  BY LastType DEF IInv
<1>3. \A d \in Delivery : cuts'["vetting"][d] = cuts["vetting"][d]
  BY <1>1, <1>2, NoteKeeps DEF IInv
<1>4. \A d \in DOMAIN delivered : \A mw :
        Before(mw, "vetting", d)' <=> Before(mw, "vetting", d)
  BY <1>2, <1>3, SameBefore DEF lists
<1> QED
  BY <1>4 DEF IInv, VettedInv

LEMMA DispatchPreserves ==
  ASSUME IInv, Dispatch
  PROVE  IInv'
<1> PICK n : n = Last
  OBVIOUS
<1> PICK k : k = delivered[n].kind
  OBVIOUS
<1> PICK left : left = handlers[k]
  OBVIOUS
<1> PICK j : j = [n |-> n, left |-> left]
  OBVIOUS
<1>1. /\ Vetting /\ Note("dispatch", n) /\ "dispatch" \in Moment /\ stage = "dispatch"
      /\ UNCHANGED <<lists, delivered, handled, outcome>>
      /\ outcome' = outcome \/ outcome' = [outcome EXCEPT ![n] = "halted"]
  BY DEF Dispatch, Vetting, Moment
<1>2. /\ UNCHANGED <<lists, thread_pool, delivered, copy, vetted, handled, outcome, aborted>>
      /\ \/ tasks' = Append(tasks, j) /\ stage' = "idle" /\ job' = job
         \/ /\ job' = [job EXCEPT ![Dispatcher] = j] /\ stage' = "inline"
            /\ tasks' = tasks
  BY DEF Dispatch
<1>3. /\ CallsInv' /\ ListsInv' /\ NoHandlerMissed'
      /\ cuts' \in [Moment -> [Delivery -> Nat]]
      /\ n \in DOMAIN delivered /\ n \in Delivery /\ Last' = n
      /\ outcome[n] = "none" /\ handled'[n] = <<>>
      /\ \A m \in Moment : \A d \in Delivery :
           m # "dispatch" \/ d # n => cuts'[m][d] = cuts[m][d]
      /\ \A d, l : d # n /\ Owed(d, l) => Owed(d, l)'
      /\ \A x \in Runner : job[x].n # n
      /\ \A i \in DOMAIN tasks : tasks[i].n # n
  BY <1>1, VettingKeeps
<1>4. k \in Kind
  BY <1>1 DEF IInv, OneJobInv
<1>5. left \in Seq(Handler) /\ j \in Job
  BY <1>3, <1>4 DEF IInv, TypeOK, Job
<1>6. Owed(n, left)'
  BY <1>1, <1>4, OwedAtDispatch
<1>7. stage # "inline" /\ job[Dispatcher] = Idle /\ j # Idle /\ j.n = n /\ j.left = left
  BY <1>1, <1>3 DEF IInv, TypeOK, Idle
<1>8. CASE tasks' = Append(tasks, j) /\ stage' = "idle" /\ job' = job
  <2>1. /\ tasks' \in Seq(Job) /\ DOMAIN tasks' = DOMAIN tasks \cup {Len(tasks) + 1}
        /\ \A i \in DOMAIN tasks : tasks'[i] = tasks[i] /\ i # Len(tasks) + 1
        /\ tasks'[Len(tasks) + 1] = j
    BY <1>5, <1>8 DEF IInv, TypeOK
  <2>2. TypeOK'
    BY <1>2, <1>3, <1>7, <1>8, <2>1 DEF IInv, TypeOK, lists
  <2>3. JobsInv'
    BY <1>3, <1>6, <1>7, <1>8, <2>1 DEF IInv, JobsInv
  <2>4. OneJobInv'
    BY <1>2, <1>3, <1>7, <1>8, <2>1 DEF IInv, OneJobInv, Vetting
  <2> QED
    BY <1>3, <2>2, <2>3, <2>4, <1>8, <1>1, <1>2, DispatchVetted DEF IInv
<1>9. CASE job' = [job EXCEPT ![Dispatcher] = j] /\ stage' = "inline" /\ tasks' = tasks
  <2>1. /\ job' \in [Runner -> Job \cup {Idle}] /\ job'[Dispatcher] = j
        /\ \A x \in Runner : x # Dispatcher => job'[x] = job[x]
        /\ Dispatcher \in Runner
    BY <1>5, <1>9 DEF IInv, TypeOK, Runner
  <2>2. delivered # <<>>
    BY <1>1 DEF IInv, TypeOK
  <2>3. TypeOK'
    BY <1>2, <1>3, <1>7, <1>9, <2>1, <2>2 DEF IInv, TypeOK, lists
  <2>4. JobsInv'
    BY <1>3, <1>6, <1>7, <1>9, <2>1 DEF IInv, JobsInv
  <2>5. OneJobInv'
    BY <1>2, <1>3, <1>7, <1>9, <2>1 DEF IInv, OneJobInv, Vetting
  <2> QED
    BY <1>3, <2>3, <2>4, <2>5, <1>9, <1>1, <1>2, DispatchVetted DEF IInv
<1> QED
  BY <1>2, <1>8, <1>9

LEMMA BeginTaskPreserves ==
  ASSUME IInv, NEW w \in Worker, BeginTask(w)
  PROVE  IInv'
<1> PICK q \in Seq(Job) : q = tasks
  BY DEF IInv, TypeOK
<1>1. /\ job[w] = Idle /\ q # <<>> /\ job' = [job EXCEPT ![w] = Head(q)] /\ tasks' = Tail(q)
      /\ UNCHANGED <<lists, thread_pool, delivered, stage, copy, cuts, vetted,
                     handled, outcome, aborted>>
  BY DEF BeginTask
<1>2. /\ Len(q) \in Nat /\ DOMAIN q = 1 .. Len(q) /\ Head(q) = q[1] /\ q[1] \in Job
      /\ 1 \in DOMAIN q
      /\ tasks' \in Seq(Job) /\ DOMAIN tasks' = 1 .. Len(q) - 1
      /\ \A i \in DOMAIN tasks' : /\ tasks'[i] = q[i + 1] /\ i + 1 \in DOMAIN q
                                  /\ i + 1 # 1
      /\ \A i, j \in DOMAIN tasks' : i # j => i + 1 # j + 1
  BY <1>1
<1>3. /\ job' \in [Runner -> Job \cup {Idle}] /\ job'[w] = q[1] /\ w \in Runner
      /\ \A x \in Runner : x # w => job'[x] = job[x]
      /\ job'[Dispatcher] = job[Dispatcher]
  BY <1>1, <1>2 DEF IInv, TypeOK, Runner
<1>4. TypeOK'
  BY <1>1, <1>2, <1>3 DEF IInv, TypeOK, lists
<1>5. \A n \in DOMAIN delivered : Kept(n)
  BY <1>1, KeptIf DEF IInv
<1>6. NoHandlerMissed' /\ \A n, left : Owed(n, left) => Owed(n, left)'
  BY <1>1, <1>5, AllKept
<1>7. JobsInv'
  BY <1>2, <1>3, <1>6 DEF IInv, JobsInv
<1>8. OneJobInv'
  <2>1. /\ \A x, y \in Runner : x # y /\ job[x] # Idle => job[x].n # job[y].n
        /\ \A i, j \in DOMAIN q : i # j => q[i].n # q[j].n
        /\ \A x \in Runner, i \in DOMAIN q : job[x].n # q[i].n
    BY DEF IInv, OneJobInv
  <2>2. \A x, y \in Runner : x # y /\ job'[x] # Idle => job'[x].n # job'[y].n
    BY <1>2, <1>3, <2>1
  <2>3. /\ \A i, j \in DOMAIN tasks' : i # j => tasks'[i].n # tasks'[j].n
        /\ \A x \in Runner, i \in DOMAIN tasks' : job'[x].n # tasks'[i].n
    BY <1>2, <1>3, <2>1
  <2>4. Last' = Last /\ (Vetting' <=> Vetting)
    BY <1>1 DEF Last, Vetting
  <2> QED
    BY <1>1, <1>2, <1>3, <2>2, <2>3, <2>4 DEF IInv, OneJobInv
<1>9. VettedInv'
  BY <1>1 DEF IInv, VettedInv, Before, Called, Place, Last, lists, In
<1>10. CallsInv' /\ ListsInv'
  BY <1>1, ListsKept DEF IInv, CallsInv, lists
<1> QED
  BY <1>4, <1>6, <1>7, <1>8, <1>9, <1>10 DEF IInv

-----------------------------------------------------------------------------
(* Handlers                                                                *)

LEMMA TailFacts ==
  ASSUME NEW q \in Seq(Handler), q # <<>>
  PROVE  /\ Tail(q) \in Seq(Handler) /\ Head(q) \in Handler /\ In(Head(q), q)
         /\ \A h : In(h, Tail(q)) => In(h, q)
         /\ \A h : In(h, q) => h = Head(q) \/ In(h, Tail(q))
         /\ InOrder(q) => /\ InOrder(Tail(q))
                          /\ \A h \in Handler : In(h, Tail(q)) => Place(Head(q)) < Place(h)
<1>0. Tail(q) \in Seq(Handler) /\ Head(q) \in Handler
  OBVIOUS
<1> PICK t \in Seq(Handler) : t = Tail(q)
  BY <1>0
<1> PICK g \in Handler : g = Head(q)
  BY <1>0
<1>1. /\ Len(q) \in Nat /\ DOMAIN q = 1 .. Len(q) /\ q[1] = g /\ 1 \in DOMAIN q
      /\ DOMAIN t = 1 .. Len(q) - 1 /\ \A i \in DOMAIN t : t[i] = q[i + 1]
  OBVIOUS
<1>2. /\ \A i \in DOMAIN t : i + 1 \in DOMAIN q /\ 1 < i + 1
      /\ \A i, j \in DOMAIN t : i < j => i + 1 < j + 1
      /\ \A i \in DOMAIN q : i # 1 => i - 1 \in DOMAIN t /\ t[i - 1] = q[i]
  BY <1>1
<1>3. /\ In(g, q) /\ \A h : In(h, t) => In(h, q)
      /\ \A h : In(h, q) => h = g \/ In(h, t)
  BY <1>1, <1>2, ZenonT(30) DEF In
<1>4. InOrder(q) => InOrder(t)
  BY <1>1, <1>2 DEF InOrder
<1>5. InOrder(q) => \A h \in Handler : In(h, t) => Place(g) < Place(h)
  BY <1>1, <1>2 DEF InOrder, In
<1> QED
  BY <1>3, <1>4, <1>5

(* A handler that is started goes to the end of those that were.           *)
LEMMA StartFacts ==
  ASSUME IInv, NEW x \in Runner, Busy(x), Starts(x), NEW n, n = job[x].n,
         NEW h, h = Asked(x), FilterAccepts(h, n)
  PROVE  /\ Runs(n)' = Runs(n) \cup {h}
         /\ \A d \in Delivery : d # n => handled'[d] = handled[d]
         /\ handled' \in [Delivery -> Seq(Handler)]
         /\ RunsInOrder(n) => InOrder(handled'[n])
<1> PICK left : left = job[x].left
  OBVIOUS
<1>1. n \in Delivery /\ left \in Seq(Handler) /\ left # <<>> /\ h = Head(left)
  BY DEF Busy, Asked, IInv, TypeOK, Job
<1>2. Owed(n, left)
  BY DEF Busy, IInv, JobsInv
<1>3. h \in Handler /\ In(h, left)
  BY <1>1, TailFacts
<1> PICK q \in Seq(Handler) : q = handled[n]
  BY <1>1 DEF IInv, TypeOK
<1>4. /\ handled' = [handled EXCEPT ![n] = Append(q, h)]
      /\ handled \in [Delivery -> Seq(Handler)]
  BY DEF Starts, IInv, TypeOK
<1>5. /\ handled' \in [Delivery -> Seq(Handler)] /\ handled'[n] = Append(q, h)
      /\ \A d \in Delivery : d # n => handled'[d] = handled[d]
  BY <1>1, <1>3, <1>4
<1>6. /\ Len(q) \in Nat /\ DOMAIN q = 1 .. Len(q)
      /\ DOMAIN handled'[n] = 1 .. Len(q) + 1
      /\ \A i \in DOMAIN q : handled'[n][i] = q[i]
      /\ handled'[n][Len(q) + 1] = h
  BY <1>5, SMTT(30)
<1>7. Runs(n)' = Runs(n) \cup {h}
  <2>1. Runs(n) = {q[i] : i \in 1 .. Len(q)}
    BY <1>6 DEF Runs
  <2>2. Runs(n)' = {handled'[n][i] : i \in 1 .. Len(q) + 1}
    BY <1>6 DEF Runs
  <2>3. Len(q) + 1 \in 1 .. Len(q) + 1 /\ 1 .. Len(q) \subseteq 1 .. Len(q) + 1
        /\ \A i \in 1 .. Len(q) + 1 : i \in 1 .. Len(q) \/ i = Len(q) + 1
    BY <1>6
  <2>4. ASSUME NEW f, f \in Runs(n)
        PROVE  f \in Runs(n)'
    <3> PICK i \in 1 .. Len(q) : f = q[i]
      BY <2>1, <2>4
    <3>1. i \in 1 .. Len(q) + 1 /\ handled'[n][i] = f
      BY <1>6, <2>3
    <3> QED
      BY <2>2, <3>1
  <2>5. ASSUME NEW f, f \in Runs(n)'
        PROVE  f \in Runs(n) \/ f = h
    <3> PICK i \in 1 .. Len(q) + 1 : f = handled'[n][i]
      BY <2>2, <2>5
    <3>1. CASE i \in 1 .. Len(q)
      BY <1>6, <2>1, <3>1
    <3>2. CASE i = Len(q) + 1
      BY <1>6, <3>2
    <3> QED
      BY <2>3, <3>1, <3>2
  <2>6. h \in Runs(n)'
    BY <1>6, <2>2, <2>3
  <2> QED
    BY <2>4, <2>5, <2>6
<1>8. ASSUME RunsInOrder(n)
      PROVE  InOrder(handled'[n])
  <2> SUFFICES ASSUME NEW i \in 1 .. Len(q) + 1, NEW j \in 1 .. Len(q) + 1,
                      NEW f \in Handler, NEW g \in Handler,
                      i < j, handled'[n][i] = f, handled'[n][j] = g
               PROVE  Place(f) < Place(g)
    BY <1>6 DEF InOrder
  <2>1. i \in DOMAIN q /\ q[i] = f /\ f \in Runs(n)
    BY <1>6, SMTT(30) DEF Runs
  <2>2. CASE j = Len(q) + 1
    BY <1>2, <1>3, <1>6, <2>1, <2>2 DEF Owed
  <2>3. CASE j \in DOMAIN q
    BY <1>6, <1>8, <2>1, <2>3 DEF RunsInOrder, InOrder
  <2> QED
    BY <1>6, <2>2, <2>3
<1> QED
  BY <1>5, <1>7, <1>8

(* What a step of a handler may do to its delivery, and what remains to be *)
(* shown of it.                                                            *)
LEMMA HandlerKeeps ==
  ASSUME IInv, UNCHANGED <<lists, thread_pool, delivered, copy, tasks, cuts, vetted>>,
         NEW x \in Runner, job[x] # Idle, NEW n, n = job[x].n,
         NEW j \in Job \cup {Idle}, job' = [job EXCEPT ![x] = j], j = Idle \/ j.n = n,
         stage' = IF j = Idle /\ x = Dispatcher THEN "idle" ELSE stage,
         aborted' \in BOOLEAN,
         handled' \in [Delivery -> Seq(Handler)],
         \A d \in Delivery : d # n => handled'[d] = handled[d],
         outcome' = outcome \/ outcome' = [outcome EXCEPT ![n] = "done"]
           \/ outcome' = [outcome EXCEPT ![n] = "escaped"],
         NoneMissed(n)', j # Idle => Owed(n, j.left)'
  PROVE  IInv'
<1>1. /\ n \in DOMAIN delivered /\ n \in Delivery /\ DOMAIN delivered \subseteq Delivery
      /\ outcome[n] = "none" /\ n # 0 /\ Idle.n = 0
  BY LastType DEF IInv, JobsInv, Owed, Idle
<1>2. /\ outcome' \in [Delivery -> {"none", "halted", "ignored", "done", "escaped"}]
      /\ \A d \in Delivery : d # n => outcome'[d] = outcome[d]
      /\ outcome'[n] # "halted"
  BY <1>1 DEF IInv, TypeOK
<1>3. /\ job' \in [Runner -> Job \cup {Idle}] /\ job'[x] = j
      /\ \A y \in Runner : y # x => job'[y] = job[y]
  BY DEF IInv, TypeOK
<1>4. TypeOK'
  <2>1. stage' = "inline" <=> job'[Dispatcher] # Idle
    <3>1. stage = "inline" <=> job[Dispatcher] # Idle
      BY DEF IInv, TypeOK
    <3>2. CASE x = Dispatcher
      BY <1>3, <3>1, <3>2
    <3>3. CASE x # Dispatcher
      BY <1>3, <3>1, <3>3 DEF Runner
    <3> QED
      BY <3>2, <3>3
  <2>2. stage' \in {"idle", "vetting", "asking", "dispatch", "inline"}
        /\ (stage' # "idle" => delivered' # <<>>)
    BY DEF IInv, TypeOK
  <2>3. UNCHANGED <<handlers, middlewares, calls, delivered, tasks, thread_pool, copy, cuts, vetted>>
    BY DEF lists
  <2> QED
    BY <1>2, <1>3, <2>1, <2>2, <2>3 DEF IInv, TypeOK
<1>5. CallsInv' /\ ListsInv'
  BY ListsKept DEF IInv, CallsInv, lists
<1>6. ASSUME NEW d \in DOMAIN delivered, d # n
      PROVE  Kept(d)
  <2>1. d \in DOMAIN delivered' /\ delivered'[d] = delivered[d]
        /\ outcome'[d] = outcome[d] /\ handled'[d] = handled[d]
    BY <1>1, <1>2, <1>6
  <2> QED
    BY <2>1, KeptIf DEF IInv
<1>7. NoHandlerMissed' /\ \A d, left : d # n /\ Owed(d, left) => Owed(d, left)'
  BY <1>6, OthersKept
<1>8. JobsInv'
  <2>1. \A y \in Runner : y # x => job[y].n # n
    BY DEF IInv, OneJobInv
  <2>2. \A i \in DOMAIN tasks : tasks[i].n # n
    BY DEF IInv, OneJobInv
  <2>3. \A y \in Runner : \A k \in {job'[y]} : k # Idle => Owed(k.n, k.left)'
    <3> SUFFICES ASSUME NEW y \in Runner, NEW k, k = job'[y], k # Idle
                 PROVE  Owed(k.n, k.left)'
      OBVIOUS
    <3>1. CASE y = x
      BY <1>3, <3>1
    <3>2. CASE y # x
      BY <1>3, <1>7, <2>1, <3>2 DEF IInv, JobsInv
    <3> QED
      BY <3>1, <3>2
  <2>4. \A i \in DOMAIN tasks' : \A k \in {tasks'[i]} : Owed(k.n, k.left)'
    BY <1>7, <2>2 DEF IInv, JobsInv
  <2> QED
    BY <2>3, <2>4 DEF JobsInv
<1>9. OneJobInv'
  <2>1. Last' = Last /\ Last \in Nat /\ DOMAIN delivered = 1 .. Last
    BY LastType DEF IInv, Last
  <2>2. Vetting' => Vetting /\ n # Last
    <3>1. Vetting' => Vetting
      BY DEF Vetting
    <3> QED
      BY <3>1 DEF IInv, OneJobInv
  <2>7. \A k \in Job : k.n # 0
    BY DEF Job
  <2>3. \A y, z \in Runner : y # z /\ job'[y] # Idle => job'[y].n # job'[z].n
    <3> SUFFICES ASSUME NEW y \in Runner, NEW z \in Runner, y # z, job'[y] # Idle
                 PROVE  job'[y].n # job'[z].n
      OBVIOUS
    <3>1. \A v, w \in Runner : v # w /\ job[v] # Idle => job[v].n # job[w].n
      BY DEF IInv, OneJobInv
    <3>2. CASE y = x
      BY <1>3, <3>1, <3>2
    <3>3. CASE y # x /\ z = x
      <4>1. job[y] # Idle /\ job[y].n # n /\ job[y] \in Job /\ job'[y] = job[y]
        BY <1>3, <3>1, <3>3 DEF IInv, TypeOK
      <4>2. job[y].n # 0
        BY <2>7, <4>1
      <4> QED
        BY <1>1, <1>3, <3>3, <4>1, <4>2
    <3>4. CASE y # x /\ z # x
      BY <1>3, <3>1, <3>4
    <3> QED
      BY <3>2, <3>3, <3>4
  <2>4. \A y \in Runner, i \in DOMAIN tasks' : job'[y].n # tasks'[i].n
    <3>1. \A i \in DOMAIN tasks : tasks[i].n # 0
      <4>1. \A i \in DOMAIN tasks : tasks[i] \in Job
        BY DEF IInv, TypeOK
      <4> QED
        BY <2>7, <4>1
    <3> QED
      BY <1>1, <1>3, <3>1 DEF IInv, OneJobInv
  <2>5. Vetting' => /\ outcome'[Last] = "none" /\ handled'[Last] = <<>>
                    /\ \A y \in Runner : job'[y].n # Last
                    /\ \A i \in DOMAIN tasks' : tasks'[i].n # Last
                    /\ delivered'[Last].kind \in Kind
    <3> SUFFICES ASSUME Vetting'
                 PROVE  /\ outcome'[Last] = "none" /\ handled'[Last] = <<>>
                        /\ \A y \in Runner : job'[y].n # Last
                        /\ \A i \in DOMAIN tasks' : tasks'[i].n # Last
                        /\ delivered'[Last].kind \in Kind
      OBVIOUS
    <3>1. Last \in Delivery /\ Last # n /\ Last # 0
      BY <2>2, LastType DEF IInv, Vetting
    <3> QED
      BY <1>1, <1>2, <1>3, <2>2, <3>1 DEF IInv, OneJobInv
  <2>6. \A d \in Delivery : d > Last => outcome'[d] = "none" /\ handled'[d] = <<>>
    <3> SUFFICES ASSUME NEW d \in Delivery, d > Last
                 PROVE  outcome'[d] = "none" /\ handled'[d] = <<>>
      OBVIOUS
    <3>1. d # n
      BY <1>1, <2>1
    <3> QED
      BY <1>2, <3>1 DEF IInv, OneJobInv
  <2> QED
    BY <2>1, <2>3, <2>4, <2>5, <2>6 DEF IInv, OneJobInv
<1>10. VettedInv'
  <2>1. Last' = Last /\ (stage' \in {"vetting", "asking"} <=> stage \in {"vetting", "asking"})
        /\ (stage' = "vetting" <=> stage = "vetting") /\ (stage' = "asking" <=> stage = "asking")
    BY DEF Last, IInv, TypeOK
  <2>2. \A d \in DOMAIN delivered : outcome[d] = "halted" => outcome'[d] = "halted"
    BY <1>1, <1>2
  <2>3. \A mw, d : Before(mw, "vetting", d)' <=> Before(mw, "vetting", d)
    BY DEF Before, Called, Place, lists
  <2> QED
    BY <2>1, <2>2, <2>3 DEF IInv, VettedInv, In
<1> QED
  BY <1>4, <1>5, <1>7, <1>8, <1>9, <1>10 DEF IInv

LEMMA GoOnIs ==
  ASSUME IInv, NEW x \in Runner, job[x] # Idle, job[x].left # <<>>, GoOn(x)
  PROVE  \E j \in Job : /\ j.n = job[x].n /\ j.left = Tail(job[x].left) /\ j # Idle
                       /\ job' = [job EXCEPT ![x] = j]
<1>1. job \in [Runner -> Job \cup {Idle}] /\ job[x] \in Job
  BY DEF IInv, TypeOK
<1>2. job[x].n \in Delivery /\ Tail(job[x].left) \in Seq(Handler)
  BY <1>1 DEF Job
<1> PICK j : j = [n |-> job[x].n, left |-> Tail(job[x].left)]
  OBVIOUS
<1>3. j \in Job /\ j.n = job[x].n /\ j.left = Tail(job[x].left) /\ j.n # 0
  BY <1>2 DEF Job
<1>4. j # Idle
  BY <1>3 DEF Idle
<1>5. job' = [job EXCEPT ![x] = j]
  BY DEF GoOn
<1> QED
  BY <1>3, <1>4, <1>5

(* A filter that refuses: the delivery owes the handlers left.             *)
LEMMA SkipPreserves ==
  ASSUME IInv, NEW x \in Runner, Skip(x)
  PROVE  IInv'
<1> PICK n : n = job[x].n
  OBVIOUS
<1> PICK left : left = job[x].left
  OBVIOUS
<1> PICK h : h = Asked(x)
  OBVIOUS
<1>1. /\ job[x] # Idle /\ left # <<>> /\ h = Head(left) /\ ~FilterAccepts(h, n) /\ GoOn(x)
      /\ UNCHANGED <<lists, thread_pool, delivered, stage, copy, tasks, cuts,
                     vetted, handled, outcome, aborted>>
  BY DEF Skip, Busy, Asked
<1>2. /\ job[x] \in Job /\ n \in Delivery /\ left \in Seq(Handler)
      /\ job[x] = [n |-> n, left |-> left]
  BY <1>1 DEF IInv, TypeOK, Job
<1>3. PICK j \in Job : /\ j.n = n /\ j.left = Tail(left) /\ j # Idle
                        /\ job' = [job EXCEPT ![x] = j]
  BY <1>1, GoOnIs
<1>4. Owed(n, left) /\ n \in DOMAIN delivered
  BY <1>1 DEF IInv, JobsInv, Owed
<1>5. Kept(n) /\ NoneMissed(n)
  BY <1>1, <1>4, KeptIf DEF IInv, NoHandlerMissed
<1>6. NoneMissed(n)' /\ Owed(n, left)' /\ ~FilterAccepts(h, n)'
  BY <1>1, <1>4, <1>5, NoneMissedKept, OwedKept, AcceptsStable
<1> PICK rest \in Seq(Handler) : rest = Tail(left)
  BY <1>1, <1>2, TailFacts
<1>7. /\ \A g : In(g, rest) => In(g, left)
      /\ \A g : In(g, left) => g = h \/ In(g, rest)
  BY <1>1, <1>2, TailFacts
<1>8. InOrder(rest)'
  <2>1. InOrder(rest)
    BY <1>1, <1>2, <1>4, TailFacts DEF Owed
  <2>2. \A c : Place(c)' = Place(c)
    BY <1>1 DEF Place, lists
  <2> QED
    BY <2>1, <2>2 DEF InOrder
<1>9. Owed(n, rest)'
  BY <1>6, <1>7, <1>8 DEF Owed
<1>10. handled' \in [Delivery -> Seq(Handler)] /\ aborted' \in BOOLEAN
  BY <1>1 DEF IInv, TypeOK
<1> QED
  BY <1>1, <1>3, <1>6, <1>9, <1>10, HandlerKeeps

(* A handler is started: it comes after the ones before, and is owed no    *)
(* more; the delivery may end here.                                        *)
LEMMA StartedKeeps ==
  ASSUME IInv, NEW x \in Runner, Busy(x), Starts(x),
         UNCHANGED <<lists, delivered, cuts>>,
         NEW n, n = job[x].n, NEW left, left = job[x].left,
         FilterAccepts(Asked(x), n), outcome'[n] \in {"none", "escaped"}
  PROVE  /\ NoneMissed(n)'
         /\ outcome'[n] = "none" => \A rest : rest = Tail(left) => Owed(n, rest)'
<1> PICK h : h = Asked(x)
  OBVIOUS
<1>1. /\ left \in Seq(Handler) /\ left # <<>> /\ h = Head(left) /\ n \in Delivery
      /\ Owed(n, left) /\ n \in DOMAIN delivered
  BY DEF Busy, Asked, IInv, TypeOK, JobsInv, Job, Owed
<1>2. h \in Handler /\ In(h, left)
  BY <1>1, TailFacts
<1>3. FilterAccepts(h, n) /\ NoneMissed(n)
  BY <1>1 DEF IInv, NoHandlerMissed
<1>4. Runs(n)' = Runs(n) \cup {h} /\ InOrder(handled'[n])
  BY <1>3, StartFacts DEF NoneMissed
<1>5. /\ \A c : Place(c)' = Place(c)
      /\ \A c, m : Before(c, m, n)' <=> Before(c, m, n)
      /\ \A g : FilterAccepts(g, n)' <=> FilterAccepts(g, n)
  BY AcceptsStable DEF Place, Before, Called, lists
<1>6. InOrder(handled[n])'
  BY <1>4, <1>5 DEF InOrder
<1>7. RunsInOrder(n)'
  BY <1>1, <1>2, <1>3, <1>4, <1>5, <1>6 DEF NoneMissed, RunsInOrder, Owed
<1>8. NoneMissed(n)'
  BY <1>7 DEF NoneMissed
<1>9. ASSUME NEW rest, rest = Tail(left), outcome'[n] = "none"
      PROVE  Owed(n, rest)'
  <2>1. /\ \A g : In(g, rest) => In(g, left)
        /\ \A g : In(g, left) => g = h \/ In(g, rest)
        /\ InOrder(rest)
        /\ \A g \in Handler : In(g, rest) => Place(h) < Place(g)
    BY <1>1, <1>9, TailFacts DEF Owed
  <2>2. InOrder(rest)'
    BY <1>5, <2>1 DEF InOrder
  <2>3. ASSUME NEW g \in Handler, In(g, rest)
        PROVE  /\ Before(g, "dispatch", n)' /\ KindOf[g] = delivered'[n].kind
               /\ \A f \in Runs(n)' : Place(f)' < Place(g)'
    BY <1>1, <1>4, <1>5, <2>1, <2>3 DEF Owed
  <2>4. \A g \in Handler : KindOf[g] = delivered'[n].kind /\ FilterAccepts(g, n)'
                             /\ Before(g, "received", n)' => g \in Runs(n)' \/ In(g, rest)
    BY <1>1, <1>4, <1>5, <2>1 DEF Owed
  <2> QED
    BY <1>1, <1>9, <2>2, <2>3, <2>4 DEF Owed
<1> QED
  BY <1>8, <1>9

LEMMA CallPreserves ==
  ASSUME IInv, NEW x \in Runner, Call(x)
  PROVE  IInv'
<1> PICK n : n = job[x].n
  OBVIOUS
<1> PICK left : left = job[x].left
  OBVIOUS
<1> PICK rest : rest = Tail(left)
  OBVIOUS
<1>1. /\ Busy(x) /\ Starts(x) /\ job[x] # Idle /\ left # <<>> /\ GoOn(x)
      /\ FilterAccepts(Asked(x), n)
      /\ UNCHANGED <<lists, thread_pool, delivered, stage, copy, tasks, cuts,
                     vetted, outcome, aborted>>
  BY DEF Call, Busy
<1>2. /\ job[x] \in Job /\ n \in Delivery /\ left \in Seq(Handler)
      /\ job[x] = [n |-> n, left |-> left] /\ outcome[n] = "none"
  BY <1>1 DEF IInv, TypeOK, Job, JobsInv, Owed
<1>3. PICK j \in Job : /\ j.n = n /\ j.left = rest /\ j # Idle
                        /\ job' = [job EXCEPT ![x] = j]
  BY <1>1, GoOnIs
<1>4. NoneMissed(n)' /\ Owed(n, rest)'
  BY <1>1, <1>2, StartedKeeps
<1>5. /\ handled' \in [Delivery -> Seq(Handler)] /\ aborted' \in BOOLEAN
      /\ \A d \in Delivery : d # n => handled'[d] = handled[d]
  <2>1. Starts(x) /\ aborted' = aborted
    BY <1>1
  <2> PICK h : h = Asked(x)
    OBVIOUS
  <2>2. h \in Handler
    <3>1. h = Head(left)
      BY <1>2 DEF Asked
    <3> QED
      BY <1>1, <1>2, <3>1, TailFacts
  <2>3. handled' = [handled EXCEPT ![n] = Append(@, h)]
    BY <2>1 DEF Starts
  <2>4. handled \in [Delivery -> Seq(Handler)] /\ aborted \in BOOLEAN
    BY DEF IInv, TypeOK
  <2> QED
    BY <1>2, <2>1, <2>2, <2>3, <2>4
<1> QED
  BY <1>1, <1>3, <1>4, <1>5, HandlerKeeps

LEMMA ThrowPreserves ==
  ASSUME IInv, NEW x \in Runner, FilterThrows(x) \/ CallThrows(x)
  PROVE  IInv'
<1> PICK n : n = job[x].n
  OBVIOUS
<1> PICK left : left = job[x].left
  OBVIOUS
<1>1. /\ Busy(x) /\ job[x] # Idle /\ job' = [job EXCEPT ![x] = Idle]
      /\ outcome' = [outcome EXCEPT ![n] = "escaped"]
      /\ stage' = IF x = Dispatcher THEN "idle" ELSE stage
      /\ aborted' = (x = Dispatcher)
      /\ UNCHANGED <<lists, thread_pool, delivered, copy, tasks, cuts, vetted>>
  BY DEF FilterThrows, CallThrows, Escapes, Ended, Busy
<1>2. /\ n \in Delivery /\ n \in DOMAIN delivered /\ outcome'[n] = "escaped"
  BY <1>1 DEF IInv, TypeOK, Job, JobsInv, Owed
<1>3. /\ NoneMissed(n)' /\ handled' \in [Delivery -> Seq(Handler)]
      /\ \A d \in Delivery : d # n => handled'[d] = handled[d]
  <2>1. CASE FilterThrows(x)
    <3>1. handled' = handled
      BY <2>1 DEF FilterThrows
    <3>2. NoneMissed(n)
      BY <1>2 DEF IInv, NoHandlerMissed
    <3>3. Runs(n)' = Runs(n) /\ InOrder(handled[n])'
      BY <1>1, <3>1, <3>2 DEF Runs, InOrder, NoneMissed, RunsInOrder, Place, lists
    <3>4. /\ \A c, m : Before(c, m, n)' <=> Before(c, m, n)
          /\ \A g : FilterAccepts(g, n)' <=> FilterAccepts(g, n)
      BY <1>1, AcceptsStable DEF Place, Before, Called, lists
    <3>5. NoneMissed(n)'
      BY <1>1, <1>2, <3>2, <3>3, <3>4 DEF NoneMissed, RunsInOrder
    <3> QED
      BY <3>1, <3>5 DEF IInv, TypeOK
  <2>2. CASE CallThrows(x)
    <3> PICK h : h = Asked(x)
      OBVIOUS
    <3>1. Starts(x) /\ FilterAccepts(Asked(x), n) /\ FilterAccepts(h, n)
      BY <2>2 DEF CallThrows
    <3>2. Busy(x) /\ UNCHANGED <<lists, delivered, cuts>>
      BY <1>1
    <3>3. outcome'[n] \in {"none", "escaped"}
      BY <1>2
    <3>4. NoneMissed(n)'
      BY <3>1, <3>2, <3>3, StartedKeeps
    <3>5. /\ handled' \in [Delivery -> Seq(Handler)]
          /\ \A d \in Delivery : d # n => handled'[d] = handled[d]
      BY <3>1, <3>2, StartFacts
    <3> QED
      BY <3>4, <3>5
  <2> QED
    BY <2>1, <2>2
<1>4. aborted' \in BOOLEAN /\ Idle \in Job \cup {Idle}
  BY <1>1
<1> QED
  BY <1>1, <1>3, <1>4, HandlerKeeps

LEMMA EndPreserves ==
  ASSUME IInv, NEW x \in Runner, EndHandlers(x)
  PROVE  IInv'
<1> PICK n : n = job[x].n
  OBVIOUS
<1> PICK left : left = job[x].left
  OBVIOUS
<1>1. /\ job[x] # Idle /\ left = <<>> /\ job' = [job EXCEPT ![x] = Idle]
      /\ outcome' = [outcome EXCEPT ![n] = "done"]
      /\ stage' = IF x = Dispatcher THEN "idle" ELSE stage
      /\ UNCHANGED <<lists, thread_pool, delivered, copy, tasks, cuts, vetted, handled,
                     aborted>>
  BY DEF EndHandlers, Ended
<1>2. /\ n \in Delivery /\ n \in DOMAIN delivered /\ outcome'[n] = "done"
      /\ Owed(n, left) /\ NoneMissed(n)
  <2>1. Owed(n, left)
    BY <1>1 DEF IInv, JobsInv
  <2>2. n \in DOMAIN delivered /\ n \in Delivery
    BY <2>1, LastType DEF Owed, IInv
  <2> QED
    BY <1>1, <2>1, <2>2 DEF IInv, TypeOK, NoHandlerMissed
<1>3. Runs(n)' = Runs(n) /\ InOrder(handled[n])'
  BY <1>1, <1>2 DEF Runs, InOrder, NoneMissed, RunsInOrder, Place, lists
<1>4. /\ \A c, m : Before(c, m, n)' <=> Before(c, m, n)
      /\ \A g : FilterAccepts(g, n)' <=> FilterAccepts(g, n)
  BY <1>1, AcceptsStable DEF Place, Before, Called, lists
<1>5. \A h : ~In(h, left)
  BY <1>1 DEF In
<1>6. NoneMissed(n)'
  BY <1>1, <1>2, <1>3, <1>4, <1>5 DEF NoneMissed, RunsInOrder, Owed
<1>7. /\ handled' \in [Delivery -> Seq(Handler)] /\ aborted' \in BOOLEAN
      /\ \A d \in Delivery : d # n => handled'[d] = handled[d]
      /\ Idle \in Job \cup {Idle}
  BY <1>1 DEF IInv, TypeOK
<1> QED
  BY <1>1, <1>6, <1>7, HandlerKeeps

-----------------------------------------------------------------------------
LEMMA NextPreserves == IInv /\ [Next]_vars => IInv'
<1> SUFFICES ASSUME IInv, [Next]_vars
             PROVE  IInv'
  OBVIOUS
<1>1. ASSUME NEW x \in Runner, HandlerStep(x)
      PROVE  IInv'
  BY <1>1, SkipPreserves, CallPreserves, ThrowPreserves, EndPreserves DEF HandlerStep
<1>2. CASE DispatcherStep
  BY <1>2, ExecutePreserves, AskingPreserves, DispatchPreserves DEF DispatcherStep
<1>3. CASE UNCHANGED vars
  <2>1. /\ TypeOK' /\ CallsInv' /\ ListsInv'
    BY <1>3, ListsKept DEF vars, lists, running, IInv, TypeOK, CallsInv
  <2>2. \A n \in DOMAIN delivered : Kept(n)
    BY <1>3, KeptIf DEF vars, IInv
  <2>3. NoHandlerMissed' /\ \A n, left : Owed(n, left) => Owed(n, left)'
    BY <1>3, <2>2, AllKept DEF vars
  <2>4. JobsInv'
    BY <1>3, <2>3 DEF vars, running, IInv, JobsInv
  <2>5. OneJobInv' /\ VettedInv'
    BY <1>3 DEF vars, lists, running, IInv, OneJobInv, VettedInv, Vetting, Last, Before,
                Called, Place, In
  <2> QED
    BY <2>1, <2>3, <2>4, <2>5 DEF IInv
<1> QED
  BY <1>1, <1>2, <1>3, OnPreserves, UsePreserves, DeliverPreserves, BeginTaskPreserves DEF Next

THEOREM Invariance == Spec => []IInv
<1> QED
  BY InitInv, NextPreserves, PTL DEF Spec

(* The lists, queues and jobs keep their types, and the dispatcher runs    *)
(* handlers itself exactly when it has a job.                              *)
THEOREM TypeCorrect == Spec => []TypeOK
<1>1. IInv => TypeOK
  BY DEF IInv
<1> QED
  BY <1>1, Invariance, PTL

(* However registrations, the dispatcher and the workers interleave, a     *)
(* handler registered before an update came in and accepting it is         *)
(* started, in order and once, unless middleware halted the update or an   *)
(* exception ended its handlers.                                           *)
THEOREM NoneIsMissed == Spec => []NoHandlerMissed
<1>1. IInv => NoHandlerMissed
  BY DEF IInv
<1> QED
  BY <1>1, Invariance, PTL

(* What a handler gets has been let pass by the middleware added before    *)
(* the handler, but for the race between the two copies.                   *)
THEOREM Vetted == Spec => []VettedUnlessRaced
<1>1. IInv => VettedUnlessRaced
  <2> SUFFICES ASSUME IInv, NEW n \in DOMAIN delivered,
                      delivered[n].kind \in {"message", "callback"},
                      NEW h \in Runs(n), NEW mw \in Middleware, Before(mw, "vetting", n)
               PROVE  <<n, mw>> \in vetted
    BY DEF VettedUnlessRaced
  <2>1. outcome[n] # "halted" /\ handled[n] # <<>>
    BY DEF IInv, NoHandlerMissed, NoneMissed, Runs
  <2>2. ~(n = Last /\ Vetting)
    BY <2>1 DEF IInv, OneJobInv
  <2> QED
    BY <2>1, <2>2 DEF IInv, VettedInv, Vetting
<1> QED
  BY <1>1, Invariance, PTL

-----------------------------------------------------------------------------
(* Induction without an operator parameter: over sets of naturals.         *)
LEMMA Upward ==
  ASSUME NEW L \in Nat, NEW T, 0 \in T,
         \A o \in 0 .. L - 1 : o \in T => o + 1 \in T
  PROVE  0 .. L \subseteq T
<1> SUFFICES ASSUME NEW o \in 0 .. L, o \notin T PROVE FALSE
  OBVIOUS
<1> DEFINE U == {k \in 0 .. L : k \notin T}
<1>1. U \in SUBSET Nat /\ U # {}
  OBVIOUS
<1>2. IsWellFoundedOn(OpToRel(<, Nat), Nat)
  BY NatLessThanWellFounded
<1>3. PICK x \in U : \A y \in U : <<y, x>> \notin OpToRel(<, Nat)
  <2> HIDE DEF U
  <2> QED
    BY <1>1, <1>2, WFMin
<1>4. \A y \in U : ~(y < x)
  BY <1>1, <1>3 DEF OpToRel
<1>5. x \in 0 .. L /\ x \notin T /\ x # 0
  BY <1>3
<1>6. x - 1 \in 0 .. L - 1 /\ x - 1 < x /\ (x - 1) + 1 = x
  BY <1>5
<1>7. x - 1 \in T
  BY <1>4, <1>6
<1> QED
  BY <1>5, <1>6, <1>7

(* Append, kept closed so that the lemmas about it apply.                  *)
Longer(s, x) == Append(s, x)

(* What holds of the empty sequence, and of every sequence that is one     *)
(* longer than one it holds of, holds of all.                              *)
LEMMA BySequences ==
  ASSUME NEW A, NEW T, <<>> \in T,
         \A s \in Seq(A) : \A x \in A : s \in T => Longer(s, x) \in T
  PROVE  Seq(A) \subseteq T
<1> SUFFICES ASSUME NEW s \in Seq(A) PROVE s \in T
  OBVIOUS
<1> DEFINE Prefix(n) == [i \in 1 .. n |-> s[i]]
           U == {n \in 0 .. Len(s) : Prefix(n) \in T}
<1>1. Len(s) \in Nat
  OBVIOUS
<1>2. 0 \in U
  <2>1. Prefix(0) = <<>>
    OBVIOUS
  <2>2. 0 \in 0 .. Len(s)
    BY <1>1
  <2> HIDE DEF Prefix
  <2> QED
    BY <2>1, <2>2
<1>3. ASSUME NEW n \in 0 .. Len(s) - 1, n \in U PROVE n + 1 \in U
  <2>1. n \in Nat /\ n + 1 \in 0 .. Len(s) /\ n + 1 \in 1 .. Len(s)
    BY <1>1
  <2>2. s[n + 1] \in A /\ \A i \in 1 .. n : s[i] \in A
    BY <1>1, <2>1
  <2>3. Prefix(n) \in Seq(A) /\ Len(Prefix(n)) = n
    BY <2>1, <2>2
  <2>4. Prefix(n + 1) = Append(Prefix(n), s[n + 1])
    <3> DEFINE p == Prefix(n)
               r == Append(p, s[n + 1])
    <3>1. /\ r \in Seq(A) /\ Len(r) = n + 1 /\ r[n + 1] = s[n + 1]
          /\ \A i \in 1 .. n : r[i] = p[i]
      <4> HIDE DEF Prefix
      <4> QED
        BY <2>1, <2>2, <2>3
    <3>2. \A i \in 1 .. n + 1 : i \in 1 .. n \/ i = n + 1
      BY <2>1
    <3>3. \A i \in 1 .. n : p[i] = s[i]
      OBVIOUS
    <3> HIDE DEF r, p
    <3>4. r = [i \in 1 .. n + 1 |-> r[i]]
      BY <3>1
    <3>5. \A i \in 1 .. n + 1 : r[i] = s[i]
      BY <3>1, <3>2, <3>3
    <3>6. r = [i \in 1 .. n + 1 |-> s[i]]
      BY <3>4, <3>5
    <3> QED
      BY <3>6 DEF r, p
  <2> HIDE DEF Prefix
  <2> QED
    BY <1>3, <2>1, <2>2, <2>3, <2>4 DEF Longer
<1>4. 0 .. Len(s) \subseteq U
  <2> DEFINE L == Len(s)
  <2>1. L \in Nat /\ \A n \in 0 .. L - 1 : n \in U => n + 1 \in U
    BY <1>1, <1>3
  <2> HIDE DEF U, L
  <2>2. 0 .. L \subseteq U
    BY <1>2, <2>1, Upward
  <2> QED
    BY <2>2 DEF L
<1>5. Prefix(Len(s)) \in T
  <2>1. Len(s) \in 0 .. Len(s)
    BY <1>1
  <2> QED
    BY <1>4, <2>1
<1>6. s = Prefix(Len(s))
  BY <1>1
<1> HIDE DEF Prefix
<1> QED
  BY <1>5, <1>6

-----------------------------------------------------------------------------
(* The elements of a sequence that are in a set                            *)

IsKept(kept, s, S) ==
  kept = [i \in 0 .. Len(s) |->
            IF i = 0 THEN <<>>
            ELSE IF s[i] \in S THEN Append(kept[i - 1], s[i]) ELSE kept[i - 1]]

LEMMA KeptExists ==
  ASSUME NEW A, NEW s \in Seq(A), NEW S
  PROVE  \E kept : IsKept(kept, s, S)
<1> DEFINE At(f, i) == IF i = 0 THEN <<>>
                       ELSE IF s[i] \in S THEN Append(f[i - 1], s[i]) ELSE f[i - 1]
           T == {n \in 0 .. Len(s) : \E f : f = [i \in 0 .. n |-> At(f, i)]}
<1>1. Len(s) \in Nat
  OBVIOUS
<1>2. 0 \in T
  <2> DEFINE f == [i \in 0 .. 0 |-> <<>>]
  <2>1. f = [i \in 0 .. 0 |-> At(f, i)]
    OBVIOUS
  <2>2. 0 \in 0 .. Len(s)
    BY <1>1
  <2> HIDE DEF f, At
  <2> QED
    BY <2>1, <2>2
<1>3. ASSUME NEW n \in 0 .. Len(s) - 1, n \in T PROVE n + 1 \in T
  <2>1. PICK f : f = [i \in 0 .. n |-> At(f, i)]
    BY <1>3
  <2> DEFINE g == [i \in 0 .. n + 1 |-> IF i <= n THEN f[i] ELSE At(f, n + 1)]
  <2>2. \A i \in 0 .. n : g[i] = f[i]
    BY <1>1
  <2>3. ASSUME NEW i \in 0 .. n + 1 PROVE At(g, i) = At(f, i)
    <3>1. i = 0 \/ i - 1 \in 0 .. n
      BY <1>1
    <3> HIDE DEF g
    <3> QED
      BY <2>2, <3>1
  <2>4. ASSUME NEW i \in 0 .. n + 1 PROVE g[i] = At(g, i)
    <3> HIDE DEF At
    <3>1. CASE i <= n
      <4>1. i \in 0 .. n
        BY <1>1, <3>1
      <4>2. f[i] = At(f, i)
        BY <2>1, <4>1
      <4> QED
        BY <2>3, <3>1, <4>2
    <3>2. CASE ~(i <= n)
      <4>1. i = n + 1
        BY <1>1, <3>2
      <4> QED
        BY <2>3, <3>2, <4>1
    <3> QED
      BY <3>1, <3>2
  <2>5. g = [i \in 0 .. n + 1 |-> At(g, i)]
    <3> HIDE DEF At
    <3> QED
      BY <2>4
  <2>6. n + 1 \in 0 .. Len(s)
    BY <1>1
  <2> QED
    BY <2>5, <2>6
<1>4. Len(s) \in T
  <2> DEFINE L == Len(s)
  <2>1. 0 .. L \subseteq T
    <3>1. L \in Nat /\ \A n \in 0 .. L - 1 : n \in T => n + 1 \in T
      BY <1>1, <1>3
    <3> HIDE DEF T, L
    <3> QED
      BY <1>2, <3>1, Upward
  <2>2. L \in 0 .. L
    BY <1>1
  <2> HIDE DEF T
  <2> QED
    BY <2>1, <2>2
<1> QED
  BY <1>4 DEF IsKept

LEMMA AmongIsKept ==
  ASSUME NEW A, NEW s \in Seq(A), NEW S
  PROVE  \E kept : IsKept(kept, s, S) /\ Among(s, S) = kept[Len(s)]
<1> DEFINE kept == CHOOSE f : IsKept(f, s, S)
<1>1. IsKept(kept, s, S)
  BY KeptExists
<1>2. Among(s, S) = kept[Len(s)]
  BY DEF Among, IsKept
<1> QED
  BY <1>1, <1>2

LEMMA AmongEmpty ==
  ASSUME NEW S
  PROVE  Among(<<>>, S) = <<>>
<1> DEFINE none == <<>>
<1>1. none \in Seq({}) /\ Len(none) = 0
  OBVIOUS
<1> HIDE DEF none
<1>2. PICK kept : IsKept(kept, none, S) /\ Among(none, S) = kept[Len(none)]
  BY <1>1, AmongIsKept
<1>3. kept[0] = <<>>
  <2>1. 0 \in 0 .. Len(none)
    BY <1>1
  <2> QED
    BY <1>2, <2>1 DEF IsKept
<1> QED
  BY <1>1, <1>2, <1>3 DEF none

LEMMA AmongAppend ==
  ASSUME NEW A, NEW s \in Seq(A), NEW x \in A, NEW S
  PROVE  Among(Longer(s, x), S) = IF x \in S THEN Longer(Among(s, S), x) ELSE Among(s, S)
<1> DEFINE r == Append(s, x)
<1>1. /\ r \in Seq(A) /\ Len(s) \in Nat /\ Len(r) = Len(s) + 1 /\ r[Len(s) + 1] = x
      /\ \A i \in 1 .. Len(s) : r[i] = s[i]
  OBVIOUS
<1> HIDE DEF r
<1>2. PICK f : IsKept(f, s, S) /\ Among(s, S) = f[Len(s)]
  BY AmongIsKept
<1>3. PICK g : IsKept(g, r, S) /\ Among(r, S) = g[Len(r)]
  BY <1>1, AmongIsKept
<1> DEFINE T == {n \in 0 .. Len(s) : g[n] = f[n]}
<1>4. 0 \in T
  <2>1. 0 \in 0 .. Len(s) /\ 0 \in 0 .. Len(r)
    BY <1>1
  <2>2. f[0] = <<>> /\ g[0] = <<>>
    BY <1>2, <1>3, <2>1 DEF IsKept
  <2> QED
    BY <2>1, <2>2
<1>5. ASSUME NEW n \in 0 .. Len(s) - 1, n \in T PROVE n + 1 \in T
  <2>1. /\ n + 1 \in 0 .. Len(s) /\ n + 1 \in 0 .. Len(r) /\ n + 1 # 0 /\ (n + 1) - 1 = n
        /\ n + 1 \in 1 .. Len(s)
    BY <1>1
  <2>2. f[n + 1] = IF s[n + 1] \in S THEN Append(f[n], s[n + 1]) ELSE f[n]
    BY <1>2, <2>1 DEF IsKept
  <2>3. g[n + 1] = IF r[n + 1] \in S THEN Append(g[n], r[n + 1]) ELSE g[n]
    BY <1>3, <2>1 DEF IsKept
  <2>4. r[n + 1] = s[n + 1] /\ g[n] = f[n]
    BY <1>1, <1>5, <2>1
  <2> QED
    BY <2>1, <2>2, <2>3, <2>4
<1>6. g[Len(s)] = f[Len(s)]
  <2> DEFINE L == Len(s)
  <2>1. L \in Nat /\ L \in 0 .. L /\ \A n \in 0 .. L - 1 : n \in T => n + 1 \in T
    BY <1>1, <1>5
  <2>2. 0 .. L \subseteq T
    <3> HIDE DEF T, L
    <3> QED
      BY <1>4, <2>1, Upward
  <2> QED
    BY <2>1, <2>2
<1>7. g[Len(r)] = IF x \in S THEN Append(g[Len(s)], x) ELSE g[Len(s)]
  <2>1. Len(r) \in 0 .. Len(r) /\ Len(r) # 0 /\ Len(r) - 1 = Len(s) /\ r[Len(r)] = x
    BY <1>1
  <2> QED
    BY <1>3, <2>1 DEF IsKept
<1> QED
  BY <1>2, <1>3, <1>6, <1>7 DEF r, Longer

LEMMA AppendElements ==
  ASSUME NEW A, NEW s \in Seq(A), NEW x \in A
  PROVE  Longer(s, x) \in Seq(A) /\ Elements(Longer(s, x)) = Elements(s) \cup {x}
<1> DEFINE r == Append(s, x)
<1>1. /\ r \in Seq(A) /\ Len(s) \in Nat /\ DOMAIN s = 1 .. Len(s)
      /\ DOMAIN r = 1 .. Len(s) + 1 /\ r[Len(s) + 1] = x
      /\ \A i \in 1 .. Len(s) : r[i] = s[i]
  OBVIOUS
<1>2. \A i : i \in 1 .. Len(s) + 1 <=> i \in 1 .. Len(s) \/ i = Len(s) + 1
  BY <1>1
<1> HIDE DEF r
<1> QED
  BY <1>1, <1>2 DEF Elements, Longer, r

(* They are a sequence of the elements of both.                            *)
LEMMA AmongElements ==
  ASSUME NEW A, NEW s \in Seq(A), NEW S
  PROVE  /\ Among(s, S) \in Seq(A \cap S)
         /\ Elements(Among(s, S)) = Elements(s) \cap S
<1> DEFINE Q(t) == Among(t, S) \in Seq(A \cap S) /\ Elements(Among(t, S)) = Elements(t) \cap S
           T == {t \in Seq(A) : Q(t)}
<1>1. <<>> \in T
  <2>1. Among(<<>>, S) = <<>>
    BY AmongEmpty
  <2>2. <<>> \in Seq(A) /\ <<>> \in Seq(A \cap S) /\ Elements(<<>>) = {}
    BY DEF Elements
  <2> QED
    BY <2>1, <2>2
<1>2. ASSUME NEW t \in Seq(A), NEW x \in A, t \in T PROVE Longer(t, x) \in T
  <2> DEFINE u == Among(t, S)
             v == Among(Longer(t, x), S)
  <2>1. Longer(t, x) \in Seq(A) /\ Elements(Longer(t, x)) = Elements(t) \cup {x}
    BY AppendElements
  <2>2. u \in Seq(A \cap S) /\ Elements(u) = Elements(t) \cap S
    BY <1>2
  <2>3. v = IF x \in S THEN Longer(u, x) ELSE u
    BY AmongAppend
  <2> HIDE DEF u, v
  <2>4. CASE x \in S
    <3> DEFINE C == A \cap S
    <3>1. x \in C /\ u \in Seq(C) /\ v = Longer(u, x)
      BY <2>2, <2>3, <2>4
    <3> HIDE DEF C
    <3>2. v \in Seq(C) /\ Elements(v) = Elements(u) \cup {x}
      BY <3>1, AppendElements
    <3> QED
      BY <2>1, <2>2, <2>4, <3>2 DEF v, C
  <2>5. CASE x \notin S
    BY <2>1, <2>2, <2>3, <2>5 DEF v
  <2> QED
    BY <2>4, <2>5
<1>3. Seq(A) \subseteq T
  <2> HIDE DEF T
  <2> QED
    BY <1>1, <1>2, BySequences
<1> QED
  BY <1>3

-----------------------------------------------------------------------------
(* What handlers get of an update                                          *)

ContentType(u) == IF u.content = None THEN "None" ELSE ClassifyMedia(u.content)

Common(m, u) ==
  /\ m.text = WrittenText(u)
  /\ m.media = ContentType(u)
  /\ m.payload = IF u.content = None THEN FALSE ELSE ExtractMedia(u.content)
  /\ m.chat_type = ConvertChatType(Type(u))
  /\ m.chat_id = u.chat
  /\ m.web_app_data = None
  /\ m.business_connection_id = None

OfMessage(m, u) ==
  /\ m.outgoing = u.outgoing
  /\ m.sender.id = IF u.sender = None THEN 0 ELSE u.sender
  /\ u.sender \in Bot => m.sender.is_bot = TRUE
  /\ u.sender \notin Bot => m.sender.is_bot = FALSE
  /\ m.reply_to = Optional(u.reply_to)
  /\ m.message_thread_id = Optional(u.thread)
  /\ m.forward_info = u.forward_origin
  /\ m.entities = IF u.content # None /\ HasText(u.content)
                  THEN ConvertEntities(u.entities) ELSE <<>>
  /\ m.reply_markup = ConvertReplyMarkup(u.reply_markup)

LEMMA TextIsWritten ==
  ASSUME NEW u, u.content # None
  PROVE  TextOf(u.content) = WrittenText(u)
BY DEF TextOf, HasText, WrittenText, Is

LEMMA ContentFields ==
  ASSUME NEW u
  PROVE  LET c == WithContent(DefaultMessage, u.content)
         IN /\ c.text = WrittenText(u) /\ c.media = ContentType(u)
            /\ c.payload = IF u.content = None THEN FALSE ELSE ExtractMedia(u.content)
            /\ c = [DefaultMessage EXCEPT !.text = c.text, !.media = c.media,
                                          !.payload = c.payload, !.caption = c.caption]
<1>1. CASE u.content = None
  <2>1. WithContent(DefaultMessage, u.content) = DefaultMessage
    BY <1>1 DEF WithContent
  <2>2. WrittenText(u) = NoText
    BY <1>1 DEF WrittenText, Is
  <2> DEFINE d == DefaultMessage
  <2>3. /\ d.text = NoText /\ d.media = "None" /\ d.payload = FALSE
        /\ d = [d EXCEPT !.text = d.text, !.media = d.media, !.payload = d.payload,
                         !.caption = d.caption]
    BY DEF DefaultMessage
  <2>4. ContentType(u) = "None" /\ FALSE = IF u.content = None THEN FALSE ELSE ExtractMedia(u.content)
    BY <1>1 DEF ContentType
  <2> HIDE DEF d
  <2> QED
    BY <2>1, <2>2, <2>3, <2>4 DEF d
<1>2. CASE u.content # None
  <2>1. TextOf(u.content) = WrittenText(u)
    BY <1>2, TextIsWritten
  <2> DEFINE text == TextOf(u.content)
             media == ClassifyMedia(u.content)
             payload == ExtractMedia(u.content)
             caption == CaptionOf(u.content)
             c == WithContent(DefaultMessage, u.content)
  <2>2. c = [DefaultMessage EXCEPT !.text = text, !.media = media, !.payload = payload,
                                   !.caption = caption]
    BY <1>2 DEF WithContent
  <2>3. ContentType(u) = media
    BY <1>2 DEF ContentType
  <2>4. payload = IF u.content = None THEN FALSE ELSE payload
    BY <1>2
  <2> HIDE DEF text, media, payload, caption, c
  <2>5. c.text = text /\ c.media = media /\ c.payload = payload /\ c.caption = caption
    BY <2>2 DEF DefaultMessage
  <2> QED
    BY <1>2, <2>1, <2>2, <2>3, <2>4, <2>5 DEF text, c, payload
<1> QED
  BY <1>1, <1>2

LEMMA EditFields ==
  ASSUME NEW u, u.kind = "edited"
  PROVE  Common(ToMessage(u), u)
<1> DEFINE c == WithContent(DefaultMessage, u.content)
<1>1. ToMessage(u) = [c EXCEPT !.chat_id = u.chat, !.chat_type = ConvertChatType(Type(u))]
  BY DEF ToMessage, EditedMessage, LookupChatType, Type
<1>2. /\ c.text = WrittenText(u) /\ c.media = ContentType(u)
      /\ c.payload = IF u.content = None THEN FALSE ELSE ExtractMedia(u.content)
      /\ c = [DefaultMessage EXCEPT !.text = c.text, !.media = c.media,
                                    !.payload = c.payload, !.caption = c.caption]
  BY ContentFields
<1> HIDE DEF c
<1> DEFINE m == ToMessage(u)
<1>3. m = [c EXCEPT !.chat_id = u.chat, !.chat_type = ConvertChatType(Type(u))]
  BY <1>1
<1> HIDE DEF m
<1>4. /\ m.text = c.text /\ m.media = c.media /\ m.payload = c.payload
      /\ m.chat_type = ConvertChatType(Type(u)) /\ m.chat_id = u.chat
      /\ m.web_app_data = None /\ m.business_connection_id = None
  <2> DEFINE d == DefaultMessage
  <2>1. /\ d.web_app_data = None /\ d.business_connection_id = None
        /\ {"text", "media", "payload", "chat_type", "chat_id", "web_app_data",
            "business_connection_id"} \subseteq DOMAIN d
    BY SMTT(20) DEF DefaultMessage
  <2> DEFINE text == c.text
             media == c.media
             payload == c.payload
             caption == c.caption
  <2>2. c = [d EXCEPT !.text = text, !.media = media, !.payload = payload, !.caption = caption]
    BY <1>2
  <2> HIDE DEF d, text, media, payload, caption
  <2>3. /\ c.web_app_data = None /\ c.business_connection_id = None
        /\ DOMAIN c = DOMAIN d
    BY <2>1, <2>2, SMTT(20)
  <2> QED
    BY <1>3, <2>1, <2>3, SMTT(20)
<1>5. Common(m, u)
  BY <1>2, <1>4, Zenon DEF Common
<1> QED
  BY <1>5 DEF m

LEMMA MessageFields ==
  ASSUME NEW u, u.kind = "message", u.sender \in (Nat \ {0}) \cup {None},
         Bot \subseteq Nat \ {0}, None \notin Nat
  PROVE  Common(ToMessage(u), u) /\ OfMessage(ToMessage(u), u)
<1> DEFINE c == WithContent(DefaultMessage, u.content)
           m == ConvertMessage(u, ConvertChatType(Type(u)))
<1>1. ToMessage(u) = EnrichSender(m)
  BY DEF ToMessage, LookupChatType, Type
<1>2. /\ c.text = WrittenText(u) /\ c.media = ContentType(u)
      /\ c.payload = IF u.content = None THEN FALSE ELSE ExtractMedia(u.content)
      /\ c = [DefaultMessage EXCEPT !.text = c.text, !.media = c.media,
                                    !.payload = c.payload, !.caption = c.caption]
  BY ContentFields
<1>3. m = [c EXCEPT
     !.chat_id = u.chat, !.chat_type = ConvertChatType(Type(u)), !.outgoing = u.outgoing,
     !.entities = IF u.content # None /\ HasText(u.content)
                  THEN ConvertEntities(u.entities) ELSE <<>>,
     !.reply_markup = ConvertReplyMarkup(u.reply_markup),
     !.reply_to = Optional(u.reply_to), !.message_thread_id = Optional(u.thread),
     !.sender = SenderOf(u), !.forward_info = u.forward_origin]
  BY DEF ConvertMessage, ForwardInfo
<1> DEFINE entities == IF u.content # None /\ HasText(u.content)
                       THEN ConvertEntities(u.entities) ELSE <<>>
<1> HIDE DEF c
<1>4. /\ Common(m, u)
      /\ m.outgoing = u.outgoing /\ m.sender = SenderOf(u)
      /\ m.reply_to = Optional(u.reply_to) /\ m.message_thread_id = Optional(u.thread)
      /\ m.forward_info = u.forward_origin /\ m.entities = entities
      /\ m.reply_markup = ConvertReplyMarkup(u.reply_markup)
      /\ "sender" \in DOMAIN m
  <2> HIDE DEF m
  <2> QED
    BY <1>2, <1>3 DEF Common, DefaultMessage
<1> HIDE DEF m
<1>5. CASE u.sender = None
  <2>1. SenderOf(u) = NoSender /\ u.sender \notin Bot
    BY <1>5 DEF SenderOf
  <2>2. ToMessage(u) = m
    BY <1>1, <1>4, <2>1 DEF EnrichSender, NoSender
  <2>3. /\ NoSender.id = IF u.sender = None THEN 0 ELSE u.sender
        /\ u.sender \notin Bot /\ NoSender.is_bot = FALSE
    BY <1>5, <2>1 DEF NoSender
  <2> QED
    BY <1>4, <2>1, <2>2, <2>3 DEF OfMessage
<1>6. CASE u.sender # None
  <2>1. SenderOf(u) = [id |-> u.sender, is_bot |-> FALSE] /\ u.sender # 0
    BY <1>6 DEF SenderOf
  <2>2. ToMessage(u) = [m EXCEPT !.sender.is_bot = u.sender \in Bot]
    BY <1>1, <1>4, <2>1 DEF EnrichSender
  <2>3. ToMessage(u).sender = [id |-> u.sender, is_bot |-> u.sender \in Bot]
    BY <1>4, <2>1, <2>2
  <2> DEFINE s == [id |-> u.sender, is_bot |-> u.sender \in Bot]
  <2>4. /\ s.id = IF u.sender = None THEN 0 ELSE u.sender
        /\ u.sender \in Bot => s.is_bot = TRUE
        /\ u.sender \notin Bot => s.is_bot = FALSE
    <3>1. s.id = u.sender
      OBVIOUS
    <3>2. ASSUME u.sender \in Bot PROVE s.is_bot = TRUE
      BY <3>2
    <3>3. ASSUME u.sender \notin Bot PROVE s.is_bot = FALSE
      <4>1. s.is_bot = (u.sender \in Bot)
        BY Zenon
      <4>2. (u.sender \in Bot) = FALSE
        BY <3>3, SMT
      <4> QED
        BY <4>1, <4>2, Zenon
    <3> QED
      BY <1>6, <3>1, <3>2, <3>3
  <2>5. ToMessage(u) = [m EXCEPT !.sender = s]
    BY <1>4, <2>1, <2>2
  <2> HIDE DEF s
  <2>6. Common(ToMessage(u), u)
    <3> DEFINE n == ToMessage(u)
    <3>1. n = [m EXCEPT !.sender = s]
      BY <2>5
    <3> HIDE DEF n
    <3>2. /\ n.text = m.text /\ n.media = m.media /\ n.payload = m.payload
          /\ n.chat_type = m.chat_type /\ n.chat_id = m.chat_id
          /\ n.web_app_data = m.web_app_data
          /\ n.business_connection_id = m.business_connection_id
      BY <1>4, <3>1
    <3>3. Common(n, u)
      BY <1>4, <3>2, Zenon DEF Common
    <3> QED
      BY <3>3 DEF n
  <2>7. OfMessage(ToMessage(u), u)
    BY <1>4, <2>4, <2>5 DEF OfMessage
  <2> QED
    BY <2>6, <2>7
<1> QED
  BY <1>5, <1>6

-----------------------------------------------------------------------------
(* What the filters say                                                    *)

(* The type of a chat says what it is.                                     *)
LEMMA ChatTypeTells ==
  ASSUME NEW ct
  PROVE  LET type == ConvertChatType(ct)
         IN /\ type = "Private" <=> ct.id = "chatTypePrivate"
            /\ type \in {"BasicGroup", "Supergroup"} <=>
                 \/ ct.id = "chatTypeBasicGroup"
                 \/ ct.id = "chatTypeSupergroup" /\ ~ct.is_channel
            /\ type = "Channel" <=> ct.id = "chatTypeSupergroup" /\ ct.is_channel
BY SMTT(20) DEF ConvertChatType

(* A content is classified by the table, which names no medium twice.      *)
LEMMA MediaTells ==
  ASSUME NEW c, c.id \in STRING
  PROVE  /\ ClassifyMedia(c) = "Photo" <=> c.id = "messagePhoto"
         /\ ClassifyMedia(c) = "Video" <=> c.id = "messageVideo"
         /\ ClassifyMedia(c) = "Document" <=> c.id = "messageDocument"
         /\ ClassifyMedia(c) = "Audio" <=> c.id = "messageAudio"
         /\ ClassifyMedia(c) = "Voice" <=> c.id = "messageVoiceNote"
         /\ ClassifyMedia(c) = "VideoNote" <=> c.id = "messageVideoNote"
         /\ ClassifyMedia(c) = "Animation" <=> c.id = "messageAnimation"
         /\ ClassifyMedia(c) = "Sticker" <=> c.id = "messageSticker"
         /\ ClassifyMedia(c) = "Poll" <=> c.id = "messagePoll"
         /\ ClassifyMedia(c) = "Location" <=> c.id = "messageLocation"
         /\ ClassifyMedia(c) = "Contact" <=> c.id = "messageContact"
         /\ ClassifyMedia(c) = "Dice" <=> c.id = "messageDice"
         /\ ClassifyMedia(c) = "None" <=> c.id \notin DOMAIN MediaTypeOf
BY SMTT(20) DEF ClassifyMedia, MediaTypeOf

LEMMA MediumIsContent ==
  ASSUME NEW u, u.content \in TdContent \cup {None}, NEW m, Common(m, u)
  PROVE  /\ IsMedia(m, "Photo") <=> Is(u, "messagePhoto")
         /\ IsMedia(m, "Video") <=> Is(u, "messageVideo")
         /\ IsMedia(m, "Document") <=> Is(u, "messageDocument")
         /\ IsMedia(m, "Audio") <=> Is(u, "messageAudio")
         /\ IsMedia(m, "Voice") <=> Is(u, "messageVoiceNote")
         /\ IsMedia(m, "VideoNote") <=> Is(u, "messageVideoNote")
         /\ IsMedia(m, "Animation") <=> Is(u, "messageAnimation")
         /\ IsMedia(m, "Sticker") <=> Is(u, "messageSticker")
         /\ IsMedia(m, "Poll") <=> Is(u, "messagePoll")
         /\ IsMedia(m, "Location") <=> Is(u, "messageLocation")
         /\ IsMedia(m, "Contact") <=> Is(u, "messageContact")
         /\ IsMedia(m, "Dice") <=> Is(u, "messageDice")
         /\ IsMedia(m, "None") <=> u.content = None \/ u.content.id \notin DOMAIN MediaTypeOf
<1>1. m.media = ContentType(u)
  BY DEF Common
<1>2. CASE u.content = None
  BY <1>1, <1>2 DEF IsMedia, Is, ContentType
<1>3. CASE u.content # None
  <2>1. u.content.id \in STRING
    BY <1>3 DEF TdContent
  <2>2. m.media = ClassifyMedia(u.content)
    BY <1>1, <1>3 DEF ContentType
  <2> QED
    BY <1>3, <2>1, <2>2, MediaTells DEF IsMedia, Is
<1> QED
  BY <1>2, <1>3

MediaFilters == {"photo", "video", "document", "audio", "voice", "videoNote", "animation",
                 "sticker", "pollMsg", "locationMsg", "contactMsg", "dice"}
ChatFilters  == {"privateChat", "group", "channel", "chatId"}
TextFilters  == {"command", "text", "regex"}

LEMMA FilterNames ==
  FilterName = MediaFilters \cup ChatFilters \cup TextFilters \cup LostByEdits
                 \cup {"media", "webAppData", "business"}
BY SMT DEF FilterName, Verdict, MediaFilters, ChatFilters, TextFilters, LostByEdits

LEMMA MediaFiltersTell ==
  ASSUME NEW u, u.content \in TdContent \cup {None}, NEW m, Common(m, u), NEW f \in MediaFilters
  PROVE  Verdict(m)[f] = Truth(u)[f]
<1>1. /\ Verdict(m)["photo"] = IsMedia(m, "Photo")
      /\ Verdict(m)["video"] = IsMedia(m, "Video")
      /\ Verdict(m)["document"] = IsMedia(m, "Document")
      /\ Verdict(m)["audio"] = IsMedia(m, "Audio")
      /\ Verdict(m)["voice"] = IsMedia(m, "Voice")
      /\ Verdict(m)["videoNote"] = IsMedia(m, "VideoNote")
      /\ Verdict(m)["animation"] = IsMedia(m, "Animation")
      /\ Verdict(m)["sticker"] = IsMedia(m, "Sticker")
      /\ Verdict(m)["pollMsg"] = IsMedia(m, "Poll")
      /\ Verdict(m)["locationMsg"] = IsMedia(m, "Location")
      /\ Verdict(m)["contactMsg"] = IsMedia(m, "Contact")
      /\ Verdict(m)["dice"] = IsMedia(m, "Dice")
  BY SMTT(40) DEF Verdict
<1>2. /\ IsMedia(m, "Photo") = Is(u, "messagePhoto")
      /\ IsMedia(m, "Video") = Is(u, "messageVideo")
      /\ IsMedia(m, "Document") = Is(u, "messageDocument")
      /\ IsMedia(m, "Audio") = Is(u, "messageAudio")
      /\ IsMedia(m, "Voice") = Is(u, "messageVoiceNote")
      /\ IsMedia(m, "VideoNote") = Is(u, "messageVideoNote")
      /\ IsMedia(m, "Animation") = Is(u, "messageAnimation")
      /\ IsMedia(m, "Sticker") = Is(u, "messageSticker")
      /\ IsMedia(m, "Poll") = Is(u, "messagePoll")
      /\ IsMedia(m, "Location") = Is(u, "messageLocation")
      /\ IsMedia(m, "Contact") = Is(u, "messageContact")
      /\ IsMedia(m, "Dice") = Is(u, "messageDice")
  BY MediumIsContent, SMTT(20) DEF IsMedia, Is
<1>3. /\ Truth(u)["photo"] = Is(u, "messagePhoto")
      /\ Truth(u)["video"] = Is(u, "messageVideo")
      /\ Truth(u)["document"] = Is(u, "messageDocument")
      /\ Truth(u)["audio"] = Is(u, "messageAudio")
      /\ Truth(u)["voice"] = Is(u, "messageVoiceNote")
      /\ Truth(u)["videoNote"] = Is(u, "messageVideoNote")
      /\ Truth(u)["animation"] = Is(u, "messageAnimation")
      /\ Truth(u)["sticker"] = Is(u, "messageSticker")
      /\ Truth(u)["pollMsg"] = Is(u, "messagePoll")
      /\ Truth(u)["locationMsg"] = Is(u, "messageLocation")
      /\ Truth(u)["contactMsg"] = Is(u, "messageContact")
      /\ Truth(u)["dice"] = Is(u, "messageDice")
  BY SMTT(40) DEF Truth
<1> QED
  BY <1>1, <1>2, <1>3, Zenon DEF MediaFilters

LEMMA ChatFiltersTell ==
  ASSUME NEW u, NEW m, Common(m, u), NEW f \in ChatFilters
  PROVE  Verdict(m)[f] = Truth(u)[f]
<1>1. LET type == m.chat_type IN
      /\ type = "Private" <=> Type(u).id = "chatTypePrivate"
      /\ type \in {"BasicGroup", "Supergroup"} <=>
           \/ Type(u).id = "chatTypeBasicGroup"
           \/ Type(u).id = "chatTypeSupergroup" /\ ~Type(u).is_channel
      /\ type = "Channel" <=> Type(u).id = "chatTypeSupergroup" /\ Type(u).is_channel
  BY ChatTypeTells DEF Common
<1>2. m.chat_id = u.chat
  BY DEF Common
<1>3. CASE f = "privateChat"
  BY <1>1, <1>3, SMTT(30) DEF Verdict, Truth
<1>4. CASE f = "group"
  BY <1>1, <1>4, SMTT(30) DEF Verdict, Truth, Group
<1>5. CASE f = "channel"
  BY <1>1, <1>5, SMTT(30) DEF Verdict, Truth
<1>6. CASE f = "chatId"
  BY <1>2, <1>6, SMTT(30) DEF Verdict, Truth
<1> QED
  BY <1>3, <1>4, <1>5, <1>6 DEF ChatFilters

LEMMA TextFiltersTell ==
  ASSUME NEW u, NEW m, Common(m, u), NEW f \in TextFilters, ~Excused(f, u)
  PROVE  Verdict(m)[f] = Truth(u)[f]
<1>1. m.text = WrittenText(u)
  BY DEF Common
<1>2. f = "command" => ForMe(WrittenText(u))
  BY DEF Excused
<1>3. CASE f = "command"
  <2>1. Verdict(m)[f] = IsCommand(WrittenText(u))
    BY <1>1, <1>3, SMT DEF Verdict
  <2>2. Truth(u)[f] = (IsCommand(WrittenText(u)) /\ ForMe(WrittenText(u)))
    BY <1>3, SMT DEF Truth
  <2>3. IsCommand(WrittenText(u)) = (IsCommand(WrittenText(u)) /\ ForMe(WrittenText(u)))
    BY <1>2, <1>3, Zenon DEF IsCommand, ForMe
  <2> QED
    BY <2>1, <2>2, <2>3, Zenon
<1>4. CASE f = "text"
  BY <1>1, <1>4, SMTT(30) DEF Verdict, Truth
<1>5. CASE f = "regex"
  BY <1>1, <1>5, SMTT(30) DEF Verdict, Truth
<1> QED
  BY <1>3, <1>4, <1>5 DEF TextFilters

LEMMA OtherFiltersTell ==
  ASSUME NEW u, u.content \in TdContent \cup {None}, NEW m, Common(m, u),
         NEW f \in {"media", "webAppData", "business"}, ~Excused(f, u)
  PROVE  Verdict(m)[f] = Truth(u)[f]
<1>1. CASE f = "media"
  <2>1. u.content # None => u.content.id \in DOMAIN MediaTypeOf \cup {"messageText"}
    BY <1>1 DEF Excused, Unclassified
  <2>2. "messageText" \notin DOMAIN MediaTypeOf
    BY SMT DEF MediaTypeOf
  <2>3. m.media # "None" <=> u.content # None /\ u.content.id # "messageText"
    BY <2>1, <2>2, MediumIsContent DEF IsMedia
  <2>4. Verdict(m)[f] = (m.media # "None")
    BY <1>1, SMT DEF Verdict
  <2>5. Truth(u)[f] = (u.content # None /\ u.content.id # "messageText")
    BY <1>1, SMT DEF Truth
  <2>6. (m.media # "None") = (u.content # None /\ u.content.id # "messageText")
    BY <2>3, SMT
  <2> QED
    BY <2>4, <2>5, <2>6, Zenon
<1>2. CASE f = "webAppData"
  <2>1. u.content # None => u.content.id \in DOMAIN MediaTypeOf \cup {"messageText"}
    BY <1>2 DEF Excused, Unclassified
  <2>2. "messageWebAppDataReceived" \notin DOMAIN MediaTypeOf
    BY SMT DEF MediaTypeOf
  <2>3. ~Is(u, "messageWebAppDataReceived") /\ m.web_app_data = None
    BY <2>1, <2>2 DEF Is, Common
  <2>4. Verdict(m)[f] = FALSE
    <3>1. Verdict(m)[f] = (m.web_app_data # None)
      BY <1>2, SMT DEF Verdict
    <3>2. (m.web_app_data # None) = FALSE
      BY <2>3, SMT
    <3> QED
      BY <3>1, <3>2, Zenon
  <2>5. Truth(u)[f] = Is(u, "messageWebAppDataReceived")
    BY <1>2, SMT DEF Truth
  <2>6. Is(u, "messageWebAppDataReceived") = FALSE
    BY <2>3, SMT DEF Is
  <2> QED
    BY <2>4, <2>5, <2>6, Zenon
<1>3. CASE f = "business"
  <2>1. Verdict(m)[f] = (m.business_connection_id # None)
    BY <1>3, SMT DEF Verdict
  <2>2. Truth(u)[f] = FALSE
    BY <1>3, SMT DEF Truth
  <2>3. m.business_connection_id = None
    BY DEF Common
  <2>4. (m.business_connection_id # None) = FALSE
    BY <2>3, SMT
  <2> QED
    BY <2>1, <2>2, <2>4, Zenon
<1> QED
  BY <1>1, <1>2, <1>3

LEMMA MessageFiltersTell ==
  ASSUME NEW u, u.sender \in (Nat \ {0}) \cup {None}, u.reply_to \in Nat, u.thread \in Nat,
         {AUser, AThread} \cup Bot \subseteq Nat \ {0}, None \notin Nat,
         NEW m, OfMessage(m, u), NEW f \in LostByEdits
  PROVE  Verdict(m)[f] = Truth(u)[f]
<1>1. CASE f = "bot"
  <2>1. CASE u.sender \in Bot
    <3>1. Verdict(m)[f] = TRUE
      BY <1>1, <2>1, SMT DEF Verdict, OfMessage
    <3>2. Truth(u)[f] = (u.sender \in Bot)
      BY <1>1, SMT DEF Truth
    <3>3. (u.sender \in Bot) = TRUE
      BY <2>1, SMT
    <3> QED
      BY <3>1, <3>2, <3>3, Zenon
  <2>2. CASE u.sender \notin Bot
    <3>1. Verdict(m)[f] = FALSE
      BY <1>1, <2>2, SMT DEF Verdict, OfMessage
    <3>2. Truth(u)[f] = (u.sender \in Bot)
      BY <1>1, SMT DEF Truth
    <3>3. (u.sender \in Bot) = FALSE
      BY <2>2, SMT
    <3> QED
      BY <3>1, <3>2, <3>3, Zenon
  <2> QED
    BY <2>1, <2>2
<1>2. CASE f = "outgoing"
  <2>1. Verdict(m)[f] = m.outgoing /\ Truth(u)[f] = u.outgoing
    BY <1>2, SMT DEF Verdict, Truth
  <2> QED
    BY <2>1, Zenon DEF OfMessage
<1>3. CASE f = "incoming"
  <2>1. Verdict(m)[f] = ~m.outgoing /\ Truth(u)[f] = ~u.outgoing
    BY <1>3, SMT DEF Verdict, Truth
  <2>2. m.outgoing = u.outgoing
    BY DEF OfMessage
  <2> QED
    BY <2>1, <2>2, Zenon
<1>5. CASE f = "forwarded"
  <2>1. m.forward_info = u.forward_origin
    BY DEF OfMessage
  <2> QED
    BY <1>5, <2>1, SMTT(30) DEF Verdict, Truth
<1>6. CASE f = "reply"
  BY <1>6, SMTT(30) DEF Verdict, Truth, OfMessage, Optional
<1>7. CASE f = "thread"
  BY <1>7, SMTT(30) DEF Verdict, Truth, OfMessage, Optional
<1>8. CASE f = "in_thread"
  BY <1>8, SMTT(30) DEF Verdict, Truth, OfMessage, Optional
<1>4. CASE f = "userId"
  BY <1>4, SMTT(30) DEF Verdict, Truth, OfMessage
<1> QED
  BY <1>1, <1>2, <1>3, <1>4, <1>5, <1>6, <1>7, <1>8 DEF LostByEdits

LEMMA FiltersTell ==
  ASSUME NEW u \in Update, u.kind \in {"message", "edited"}
  PROVE  FiltersTellTruth(u)
<1> DEFINE m == ToMessage(u)
<1>1. u.content \in TdContent \cup {None}
  BY UpdateAssumption
<1>2. Common(m, u)
  <2>1. CASE u.kind = "edited"
    BY <2>1, EditFields
  <2>2. CASE u.kind = "message"
    BY <2>2, MessageFields, UpdateAssumption, NullAssumption
  <2> QED
    BY <2>1, <2>2
<1>3. ASSUME NEW f \in LostByEdits, u.kind = "message"
      PROVE  Verdict(m)[f] = Truth(u)[f]
  <2>1. OfMessage(m, u)
    BY <1>3, MessageFields, UpdateAssumption, NullAssumption
  <2> HIDE DEF m
  <2> QED
    BY <1>3, <2>1, MessageFiltersTell, UpdateAssumption, NullAssumption
<1>4. ASSUME NEW f \in FilterName, ~Excused(f, u)
      PROVE  Verdict(m)[f] = Truth(u)[f]
  <2>1. f \in LostByEdits => u.kind = "message"
    BY <1>4 DEF Excused
  <2> HIDE DEF m
  <2>2. CASE f \in LostByEdits
    BY <1>3, <2>1, <2>2
  <2>3. CASE f \in MediaFilters
    BY <1>1, <1>2, <2>3, MediaFiltersTell
  <2>4. CASE f \in ChatFilters
    BY <1>2, <2>4, ChatFiltersTell
  <2>5. CASE f \in TextFilters
    BY <1>2, <1>4, <2>5, TextFiltersTell
  <2>6. CASE f \in {"media", "webAppData", "business"}
    BY <1>1, <1>2, <1>4, <2>6, OtherFiltersTell
  <2> QED
    BY <1>4, <2>2, <2>3, <2>4, <2>5, <2>6, FilterNames
<1> QED
  BY <1>4 DEF FiltersTellTruth

LEMMA MediaIsThere ==
  ASSUME NEW u \in Update, u.kind \in {"message", "edited"}
  PROVE  MediaPresent(u)
<1>1. u.content \in TdContent \cup {None}
  BY UpdateAssumption
<1>2. Common(ToMessage(u), u)
  <2>1. CASE u.kind = "edited"
    BY <2>1, EditFields
  <2>2. CASE u.kind = "message"
    BY <2>2, MessageFields, UpdateAssumption, NullAssumption
  <2> QED
    BY <2>1, <2>2
<1> SUFFICES ASSUME u.content # None, u.content.payload \notin {None, "empty"},
                    ClassifyMedia(u.content) # "None"
             PROVE  ExtractMedia(u.content)
  BY <1>1, <1>2 DEF MediaPresent, Common, ContentType
<1>3. u.content.payload = "full" /\ u.content.payload # None
  BY <1>1 DEF TdContent
<1>4. u.content.id \in DOMAIN MediaTypeOf
  BY DEF ClassifyMedia
<1>5. u.content.id \in {"messagePhoto", "messageVideo", "messageDocument", "messageAudio",
                        "messageVoiceNote", "messageVideoNote", "messageAnimation",
                        "messageSticker", "messagePoll", "messageLocation",
                        "messageContact", "messageVenue", "messageDice"}
  BY <1>4, SMT DEF MediaTypeOf
<1>6. PhotoSizes(u.content.payload) # <<>>
  BY <1>3 DEF PhotoSizes
<1> QED
  BY <1>3, <1>5, <1>6, SMTT(20)
     DEF ExtractMedia, ExtractFile, ExtractNoteOrAnimation, ExtractOther

LEMMA AmongSame ==
  ASSUME NEW A, NEW s \in Seq(A), NEW S, NEW R, Elements(s) \cap S = Elements(s) \cap R
  PROVE  Among(s, S) = Among(s, R)
<1> DEFINE T == {t \in Seq(A) : Elements(t) \cap S = Elements(t) \cap R
                                  => Among(t, S) = Among(t, R)}
<1>1. <<>> \in T
  BY AmongEmpty
<1>2. ASSUME NEW t \in Seq(A), NEW x \in A, t \in T PROVE Longer(t, x) \in T
  <2>1. Longer(t, x) \in Seq(A) /\ Elements(Longer(t, x)) = Elements(t) \cup {x}
    BY AppendElements
  <2> SUFFICES ASSUME Elements(Longer(t, x)) \cap S = Elements(Longer(t, x)) \cap R
               PROVE  Among(Longer(t, x), S) = Among(Longer(t, x), R)
    BY <2>1
  <2>2. x \in S <=> x \in R
    BY <2>1
  <2>3. Among(t, S) = Among(t, R)
    <3>1. Elements(t) \cap S = Elements(t) \cap R
      BY <2>1
    <3> QED
      BY <1>2, <3>1
  <2> DEFINE a == Among(Longer(t, x), S)
             b == Among(Longer(t, x), R)
             u == Among(t, S)
             v == Among(t, R)
  <2>4. a = IF x \in S THEN Longer(u, x) ELSE u
    BY AmongAppend
  <2>5. b = IF x \in R THEN Longer(v, x) ELSE v
    BY AmongAppend
  <2>6. u = v
    BY <2>3
  <2> HIDE DEF a, b, u, v
  <2>7. a = b
    BY <2>2, <2>4, <2>5, <2>6
  <2> QED
    BY <2>7 DEF a, b
<1>3. Seq(A) \subseteq T
  <2> HIDE DEF T
  <2> QED
    BY <1>1, <1>2, BySequences
<1> QED
  BY <1>3

(* Those of S that are in R are those in both.                             *)
LEMMA AmongAmong ==
  ASSUME NEW A, NEW s \in Seq(A), NEW S, NEW R
  PROVE  Among(Among(s, S), R) = Among(s, S \cap R)
<1> DEFINE T == {t \in Seq(A) : Among(Among(t, S), R) = Among(t, S \cap R)}
<1>1. <<>> \in T
  BY AmongEmpty
<1>2. ASSUME NEW t \in Seq(A), NEW x \in A, t \in T PROVE Longer(t, x) \in T
  <2>1. Longer(t, x) \in Seq(A)
    BY AppendElements
  <2> DEFINE u == Among(t, S)
  <2>2. u \in Seq(A \cap S) /\ Among(u, R) = Among(t, S \cap R)
    BY <1>2, AmongElements
  <2>3. Among(Longer(t, x), S) = IF x \in S THEN Longer(u, x) ELSE u
    BY AmongAppend
  <2>4. Among(Longer(t, x), S \cap R) =
          IF x \in S \cap R THEN Longer(Among(t, S \cap R), x) ELSE Among(t, S \cap R)
    BY AmongAppend
  <2> HIDE DEF u
  <2>5. CASE x \in S
    <3>1. x \in A \cap S
      BY <2>5
    <3>2. u \in Seq(A \cap S)
      BY <2>2
    <3> DEFINE C == A \cap S
    <3> HIDE DEF T, C
    <3>3. Among(Longer(u, x), R) = IF x \in R THEN Longer(Among(u, R), x) ELSE Among(u, R)
      BY <3>1, <3>2, AmongAppend DEF C
    <3>4. Among(Longer(t, x), S) = Longer(u, x) /\ (x \in S \cap R <=> x \in R)
      BY <2>3, <2>5
    <3>5. Among(Among(Longer(t, x), S), R) = Among(Longer(t, x), S \cap R)
      BY <2>2, <2>4, <3>3, <3>4
    <3> QED
      BY <2>1, <3>5 DEF T
  <2>6. CASE x \notin S
    BY <2>1, <2>2, <2>3, <2>4, <2>6
  <2> QED
    BY <2>5, <2>6
<1>3. Seq(A) \subseteq T
  <2> HIDE DEF T
  <2> QED
    BY <1>1, <1>2, BySequences
<1> QED
  BY <1>3

(* f applied to each element.                                              *)
Mapped(f, s) == [i \in DOMAIN s |-> f[s[i]]]

IsMap(f, A, B) == f \in [A -> B]

LEMMA MappedAppend ==
  ASSUME NEW A, NEW B, NEW f, IsMap(f, A, B), NEW s \in Seq(A), NEW x \in A
  PROVE  /\ Mapped(f, s) \in Seq(B)
         /\ Mapped(f, Longer(s, x)) = Longer(Mapped(f, s), f[x])
<1>1. /\ Append(s, x) \in Seq(A) /\ Len(s) \in Nat /\ DOMAIN s = 1 .. Len(s)
      /\ DOMAIN Append(s, x) = 1 .. Len(s) + 1 /\ Append(s, x)[Len(s) + 1] = x
      /\ \A i \in 1 .. Len(s) : Append(s, x)[i] = s[i]
      /\ \A i \in 1 .. Len(s) : s[i] \in A
  OBVIOUS
<1> DEFINE m == Mapped(f, s)
           r == Append(m, f[x])
           q == Mapped(f, Append(s, x))
<1>2. /\ m \in Seq(B) /\ Len(m) = Len(s) /\ \A i \in 1 .. Len(s) : m[i] = f[s[i]]
  BY <1>1 DEF Mapped, IsMap
<1>3. /\ DOMAIN q = 1 .. Len(s) + 1
      /\ \A i \in 1 .. Len(s) + 1 : q[i] = f[Append(s, x)[i]]
      /\ q = [i \in 1 .. Len(s) + 1 |-> q[i]]
  BY <1>1 DEF Mapped
<1> HIDE DEF m, q
<1>4. f[x] \in B
  BY DEF IsMap
<1>5. /\ r \in Seq(B) /\ Len(r) = Len(s) + 1 /\ r[Len(s) + 1] = f[x]
      /\ \A i \in 1 .. Len(s) : r[i] = m[i]
  BY <1>1, <1>2, <1>4
<1>6. \A i \in 1 .. Len(s) + 1 : i \in 1 .. Len(s) \/ i = Len(s) + 1
  BY <1>1
<1> HIDE DEF r
<1>7. r = [i \in 1 .. Len(s) + 1 |-> r[i]]
  BY <1>1, <1>5
<1>8. \A i \in 1 .. Len(s) + 1 : r[i] = q[i]
  BY <1>1, <1>2, <1>3, <1>5, <1>6
<1>9. r = q
  BY <1>3, <1>7, <1>8
<1> QED
  BY <1>2, <1>9 DEF m, r, q, Longer

(* f takes into S what is in P, and nothing else.                          *)
TakesInto(f, A, P, S) == \A a \in A : a \in P <=> f[a] \in S

LEMMA AmongMapped ==
  ASSUME NEW A, NEW B, NEW f, IsMap(f, A, B), NEW s \in Seq(A), NEW S, NEW P,
         TakesInto(f, A, P, S)
  PROVE  Among(Mapped(f, s), S) = Mapped(f, Among(s, P))
<1>0. ASSUME NEW q \in Seq(A), NEW x \in A
      PROVE  Mapped(f, q) \in Seq(B) /\ Mapped(f, Longer(q, x)) = Longer(Mapped(f, q), f[x])
  BY MappedAppend
<1> DEFINE T == {t \in Seq(A) : Among(Mapped(f, t), S) = Mapped(f, Among(t, P))}
<1>1. <<>> \in T
  <2>1. Mapped(f, <<>>) = <<>>
    BY DEF Mapped
  <2>2. Among(<<>>, S) = <<>> /\ Among(<<>>, P) = <<>>
    BY AmongEmpty
  <2> QED
    BY <2>1, <2>2
<1>2. ASSUME NEW t \in Seq(A), NEW x \in A, t \in T PROVE Longer(t, x) \in T
  <2> DEFINE u == Among(t, P)
             m == Mapped(f, t)
  <2>1. Longer(t, x) \in Seq(A) /\ f[x] \in B
    BY AppendElements DEF IsMap
  <2>2. x \in P <=> f[x] \in S
    BY DEF TakesInto
  <2>3. u \in Seq(A)
    <3>1. u \in Seq(A \cap P)
      BY AmongElements
    <3> HIDE DEF u
    <3> QED
      BY <3>1
  <2>4. Among(Longer(t, x), P) = IF x \in P THEN Longer(u, x) ELSE u
    BY AmongAppend
  <2> HIDE DEF T
  <2>5. m \in Seq(B) /\ Mapped(f, Longer(t, x)) = Longer(m, f[x])
    BY <1>0
  <2>6. Among(m, S) = Mapped(f, u)
    BY <1>2 DEF T
  <2> HIDE DEF u, m
  <2>7. Among(Longer(m, f[x]), S) = IF f[x] \in S THEN Longer(Among(m, S), f[x]) ELSE Among(m, S)
    BY <2>1, <2>5, AmongAppend
  <2>8. Mapped(f, Longer(u, x)) = Longer(Mapped(f, u), f[x])
    BY <1>0, <2>3
  <2>9. Among(Mapped(f, Longer(t, x)), S) = Mapped(f, Among(Longer(t, x), P))
    BY <2>2, <2>4, <2>5, <2>6, <2>7, <2>8
  <2> QED
    BY <2>1, <2>9 DEF T
<1>3. Seq(A) \subseteq T
  <2> HIDE DEF T
  <2> QED
    BY <1>1, <1>2, BySequences
<1> QED
  BY <1>3

-----------------------------------------------------------------------------
(* What a bot sends on                                                     *)

(* A known entity comes back as it was.                                    *)
LEMMA EntityReturns ==
  ASSUME NEW e \in TdEntity, e.type \in EntityTypes,
         e.type \notin WithArgument => e.argument = NoText
  PROVE  ToTdEntity(ConvertEntity(e)) = e
<1>1. e = [offset |-> e.offset, type |-> e.type, argument |-> e.argument]
  BY DEF TdEntity
<1> DEFINE c == ConvertEntity(e)
<1>2. c.offset = e.offset /\ c.type = e.type /\ c.argument = e.argument
  BY DEF ConvertEntity, ConvertEntityType
<1> HIDE DEF c
<1>3. ToTdEntity(c) = [offset |-> e.offset, type |-> e.type, argument |-> e.argument]
  BY <1>2 DEF ToTdEntity, MakeTdEntityType
<1> QED
  BY <1>1, <1>3 DEF c

(* One that is not known has no counterpart.                               *)
LEMMA EntityIsKnown ==
  ASSUME NEW e \in TdEntity
  PROVE  MakeTdEntityType(ConvertEntity(e)) # None <=> e.type \in EntityTypes
<1>1. ConvertEntity(e).type = ConvertEntityType(e.type)
  BY DEF ConvertEntity
<1>2. None \notin EntityTypes /\ "Unknown" \notin EntityTypes
  BY NullAssumption DEF EntityTypes
<1> QED
  BY <1>1, <1>2 DEF MakeTdEntityType, ConvertEntityType

LEMMA EntitiesReturn ==
  ASSUME NEW es \in Seq(TdEntity \cup {None}),
         \A e \in Elements(es) \ {None} : e.type \notin WithArgument => e.argument = NoText
  PROVE  ConvertFormattedText(ConvertEntities(es)) =
           Among(es, {e \in Elements(es) : KnownEntity(e)})
<1> DEFINE A == TdEntity \cup {None}
           typed == {e \in Elements(es) \ {None} : e.type # None}
           known == {e \in Elements(es) : KnownEntity(e)}
           t == Among(es, typed)
           B == {ConvertEntity(e) : e \in TdEntity}
           f == [e \in TdEntity |-> ConvertEntity(e)]
           ents == ConvertEntities(es)
           made == {c \in Elements(ents) : MakeTdEntityType(c) # None}
           P == {e \in TdEntity : f[e] \in made}
           r == Among(es, known)
<1>1. es \in Seq(A) /\ Elements(es) \subseteq A
  BY DEF Elements
<1>2. typed \subseteq TdEntity
  BY <1>1
<1>3. t \in Seq(TdEntity) /\ Elements(t) = Elements(es) \cap typed
  <2> HIDE DEF typed, A
  <2>1. t \in Seq(A \cap typed) /\ Elements(t) = Elements(es) \cap typed
    BY <1>1, AmongElements
  <2>2. A \cap typed \subseteq TdEntity
    BY <1>2
  <2> HIDE DEF t
  <2> QED
    BY <2>1, <2>2
<1>4. ents = Mapped(f, t)
  <2>1. ents = [i \in DOMAIN t |-> ConvertEntity(t[i])]
    BY DEF ConvertEntities, Map
  <2>2. \A i \in DOMAIN t : t[i] \in TdEntity
    <3> HIDE DEF t
    <3> QED
      BY <1>3
  <2>3. \A e \in TdEntity : f[e] = ConvertEntity(e)
    OBVIOUS
  <2> HIDE DEF t, f, ents
  <2> QED
    BY <2>1, <2>2, <2>3 DEF Mapped
<1>5. Among(ents, made) = Mapped(f, Among(t, P))
  <2>1. IsMap(f, TdEntity, B)
    BY DEF IsMap
  <2>2. \A e \in TdEntity : e \in P <=> f[e] \in made
    OBVIOUS
  <2> HIDE DEF f, t, ents, made, B, P
  <2>3. t \in Seq(TdEntity)
    BY <1>3
  <2>4. TakesInto(f, TdEntity, P, made)
    BY <2>2 DEF TakesInto
  <2>5. Among(Mapped(f, t), made) = Mapped(f, Among(t, P))
    BY <2>1, <2>3, <2>4, AmongMapped
  <2> QED
    BY <1>4, <2>5
<1>6. Among(t, P) = Among(es, typed \cap P)
  <2> HIDE DEF typed, P, A
  <2> QED
    BY <1>1, AmongAmong
<1>7. Elements(es) \cap (typed \cap P) = Elements(es) \cap known
  <2>1. ASSUME NEW e \in Elements(es) PROVE e \in typed \cap P <=> e \in known
    <3>1. CASE e = None
      BY <3>1 DEF KnownEntity
    <3>2. CASE e # None
      <4>1. e \in TdEntity
        BY <1>1, <3>2
      <4>2. None \notin EntityTypes
        BY NullAssumption
      <4>3. e \in known <=> e.type \in EntityTypes
        BY <3>2 DEF KnownEntity
      <4>4. e \in typed => f[e] \in Elements(ents)
        <5> SUFFICES ASSUME e \in typed PROVE f[e] \in Elements(ents)
          OBVIOUS
        <5>1. e \in Elements(t)
          BY <1>3
        <5> HIDE DEF f, t, ents
        <5>2. PICK i \in DOMAIN t : t[i] = e
          BY <5>1 DEF Elements
        <5>3. i \in DOMAIN ents /\ ents[i] = f[e]
          BY <1>4, <5>2 DEF Mapped
        <5> QED
          BY <5>3 DEF Elements
      <4>5. f[e] = ConvertEntity(e)
        BY <4>1
      <4>6. MakeTdEntityType(f[e]) # None <=> e.type \in EntityTypes
        BY <4>1, <4>5, EntityIsKnown
      <4>7. e.type \in EntityTypes => e \in typed
        BY <3>2, <4>2
      <4> HIDE DEF f, ents, known, typed
      <4> QED
        BY <4>1, <4>3, <4>4, <4>6, <4>7
    <3> QED
      BY <3>1, <3>2
  <2> HIDE DEF typed, P, known
  <2> QED
    BY <2>1
<1>8. Among(ents, made) = Mapped(f, r)
  <2> HIDE DEF typed, P, known, f, t, ents, made, A
  <2>1. Among(es, typed \cap P) = r
    BY <1>1, <1>7, AmongSame
  <2> QED
    BY <1>5, <1>6, <2>1
<1>9. r \in Seq(A \cap known)
  <2> HIDE DEF known, A
  <2> QED
    BY <1>1, AmongElements
<1>10. \A i \in DOMAIN r : r[i] \in TdEntity /\ ToTdEntity(ConvertEntity(r[i])) = r[i]
  <2> SUFFICES ASSUME NEW i \in DOMAIN r
               PROVE  r[i] \in TdEntity /\ ToTdEntity(ConvertEntity(r[i])) = r[i]
    OBVIOUS
  <2>1. r[i] \in A \cap known
    <3> HIDE DEF r, A, known
    <3> QED
      BY <1>9
  <2> DEFINE e == r[i]
  <2>2. e \in TdEntity /\ e \in Elements(es) \ {None} /\ e.type \in EntityTypes
    <3> HIDE DEF e
    <3>1. e \in A \cap known
      BY <2>1 DEF e
    <3> QED
      BY <3>1 DEF KnownEntity
  <2> HIDE DEF e
  <2>3. ToTdEntity(ConvertEntity(e)) = e
    BY <2>2, EntityReturns
  <2> QED
    BY <2>2, <2>3 DEF e
<1>11. ConvertFormattedText(ents) = [i \in DOMAIN r |-> ToTdEntity(f[r[i]])]
  <2> DEFINE a == Among(ents, made)
  <2>1. ConvertFormattedText(ents) = [i \in DOMAIN a |-> ToTdEntity(a[i])]
    <3> HIDE DEF ents
    <3> QED
      BY DEF ConvertFormattedText, Map
  <2>2. a = [i \in DOMAIN r |-> f[r[i]]]
    BY <1>8 DEF Mapped
  <2> HIDE DEF a, r, f, ents
  <2> QED
    BY <2>1, <2>2
<1>12. [i \in DOMAIN r |-> ToTdEntity(f[r[i]])] = [i \in DOMAIN r |-> r[i]]
  <2>1. \A e \in TdEntity : f[e] = ConvertEntity(e)
    OBVIOUS
  <2> HIDE DEF r, f
  <2> QED
    BY <1>10, <2>1
<1>13. r = [i \in DOMAIN r |-> r[i]]
  <2> HIDE DEF r, A, known
  <2> QED
    BY <1>9
<1> QED
  BY <1>11, <1>12, <1>13

(* A button comes back but for what CppGram does not know of it.           *)
LEMMA ButtonReturns ==
  ASSUME NEW b \in TdButton
  PROVE  BuildButton(ConvertButton(b)) = Relayed(b)
<1>1. b = [text |-> b.text, type |-> b.type] /\ b.type \in TdButtonType \cup {None}
  BY DEF TdButton
<1> DEFINE c == ConvertButton(b)
<1>2. CASE b.type = None
  <2>1. c = Labelled(b)
    BY <1>2 DEF ConvertButton
  <2>2. /\ c.text = b.text /\ c.url = NoText /\ c.callback_data = NoText
        /\ c.switch_inline_query = NoText /\ c.switch_inline_query_current_chat = NoText
    BY <2>1 DEF Labelled, NoButton
  <2> HIDE DEF c
  <2>3. BuildButton(c) = [text |-> b.text, type |-> None]
    BY <2>2 DEF BuildButton
  <2>4. Relayed(b) = [text |-> b.text, type |-> None]
    BY <1>1, <1>2 DEF Relayed, KnownButton
  <2> QED
    BY <2>3, <2>4 DEF c
<1>3. CASE b.type # None
  <2> DEFINE ty == b.type
  <2>1. ty \in TdButtonType /\ ty = [id |-> ty.id, data |-> ty.data, current |-> ty.current]
    BY <1>1, <1>3 DEF TdButtonType
  <2>2. Relayed(b) = [text |-> b.text,
                      type |-> IF KnownButton(b)
                               THEN [id |-> ty.id, data |-> ty.data, current |-> FALSE]
                               ELSE None]
    <3>1. [ty EXCEPT !.current = FALSE] = [id |-> ty.id, data |-> ty.data, current |-> FALSE]
      <4> DEFINE x == ty.id
                 y == ty.data
                 z == ty.current
      <4>1. ty = [id |-> x, data |-> y, current |-> z]
        BY <2>1
      <4> HIDE DEF x, y, z, ty
      <4> DEFINE r == [ty EXCEPT !.current = FALSE]
      <4>2. r \in [id : {x}, data : {y}, current : {FALSE}]
        BY <4>1
      <4> HIDE DEF r
      <4>3. r = [id |-> x, data |-> y, current |-> FALSE]
        BY <4>2
      <4> QED
        BY <4>3 DEF r, x, y, ty
    <3>2. Relayed(b) = [b EXCEPT !.type = IF KnownButton(b) THEN [ty EXCEPT !.current = FALSE]
                                          ELSE None]
      BY DEF Relayed
    <3> DEFINE v == IF KnownButton(b) THEN [ty EXCEPT !.current = FALSE] ELSE None
    <3>3. v = IF KnownButton(b) THEN [id |-> ty.id, data |-> ty.data, current |-> FALSE] ELSE None
      BY <3>1
    <3>4. Relayed(b) = [b EXCEPT !.type = v]
      BY <3>2
    <3> HIDE DEF v
    <3>5. Relayed(b) = [text |-> b.text, type |-> v]
      BY <1>1, <3>4
    <3> QED
      BY <3>3, <3>5
  <2>3. CASE ty.id = "Url"
    <3>1. /\ c.text = b.text /\ c.url = ty.data /\ c.callback_data = NoText
          /\ c.switch_inline_query = NoText /\ c.switch_inline_query_current_chat = NoText
      BY <1>3, <2>3 DEF ConvertButton, Labelled, NoButton
    <3> HIDE DEF c
    <3> QED
      BY <1>3, <2>2, <2>3, <3>1 DEF BuildButton, KnownButton, TdType, c
  <2>4. CASE ty.id = "Callback"
    <3>1. /\ c.text = b.text /\ c.url = NoText /\ c.callback_data = ty.data
          /\ c.switch_inline_query = NoText /\ c.switch_inline_query_current_chat = NoText
      BY <1>3, <2>4 DEF ConvertButton, Labelled, NoButton
    <3> HIDE DEF c
    <3> QED
      BY <1>3, <2>2, <2>4, <3>1 DEF BuildButton, KnownButton, TdType, c
  <2>5. CASE ty.id = "SwitchInline"
    <3>1. /\ c.text = b.text /\ c.url = NoText /\ c.callback_data = NoText
          /\ c.switch_inline_query = ty.data /\ c.switch_inline_query_current_chat = NoText
      BY <1>3, <2>5 DEF ConvertButton, Labelled, NoButton
    <3> HIDE DEF c
    <3> QED
      BY <1>3, <2>2, <2>5, <3>1 DEF BuildButton, KnownButton, TdType, c
  <2>6. CASE ty.id \notin {"Url", "Callback", "SwitchInline"}
    <3>1. c = Labelled(b)
      BY <1>3, <2>6 DEF ConvertButton
    <3>2. /\ c.text = b.text /\ c.url = NoText /\ c.callback_data = NoText
          /\ c.switch_inline_query = NoText /\ c.switch_inline_query_current_chat = NoText
      BY <3>1 DEF Labelled, NoButton
    <3> HIDE DEF c
    <3> QED
      BY <1>3, <2>2, <2>6, <3>2 DEF BuildButton, KnownButton, c
  <2> QED
    BY <2>3, <2>4, <2>5, <2>6
<1> QED
  BY <1>2, <1>3

LEMMA RowReturns ==
  ASSUME NEW row \in Seq(TdButton \cup {None})
  PROVE  BuildRow(ConvertRow(row)) =
           [j \in DOMAIN NotNull(row) |-> Relayed(NotNull(row)[j])]
<1> DEFINE A == TdButton \cup {None}
           S == Elements(row) \ {None}
           r == NotNull(row)
<1>1. r \in Seq(A \cap S)
  <2>1. r = Among(row, S)
    BY DEF NotNull
  <2>2. row \in Seq(A)
    OBVIOUS
  <2> HIDE DEF A, S, r
  <2> QED
    BY <2>1, <2>2, AmongElements
<1>2. A \cap S \subseteq TdButton
  OBVIOUS
<1>3. \A j \in DOMAIN r : r[j] \in TdButton
  <2> HIDE DEF A, S, r
  <2> QED
    BY <1>1, <1>2
<1>4. ConvertRow(row) = [j \in DOMAIN r |-> ConvertButton(r[j])]
  BY DEF ConvertRow, Map
<1>5. BuildRow(ConvertRow(row)) = [j \in DOMAIN r |-> BuildButton(ConvertButton(r[j]))]
  <2> DEFINE c == ConvertRow(row)
  <2>1. BuildRow(c) = [j \in DOMAIN c |-> BuildButton(c[j])]
    BY DEF BuildRow, Map
  <2> HIDE DEF c, r
  <2> QED
    BY <1>4, <2>1 DEF c
<1>6. \A j \in DOMAIN r : BuildButton(ConvertButton(r[j])) = Relayed(r[j])
  <2> HIDE DEF r
  <2> QED
    BY <1>3, ButtonReturns
<1> HIDE DEF r
<1>7. BuildRow(ConvertRow(row)) = [j \in DOMAIN r |-> Relayed(r[j])]
  BY <1>5, <1>6
<1> QED
  BY <1>7 DEF r

LEMMA KeyboardReturns ==
  ASSUME NEW rm \in TdKeyboard, rm # None, rm.id = "InlineKeyboard"
  PROVE  BuildReplyMarkup(ConvertReplyMarkup(rm)).rows =
           [i \in DOMAIN rm.rows |->
              [j \in DOMAIN NotNull(rm.rows[i]) |-> Relayed(NotNull(rm.rows[i])[j])]]
<1> DEFINE rows == rm.rows
           c == Map(ConvertRow, rows)
           back(i) == [j \in DOMAIN NotNull(rows[i]) |-> Relayed(NotNull(rows[i])[j])]
<1>1. rows \in Seq(Seq(TdButton \cup {None}))
  BY DEF TdKeyboard
<1>2. c = [i \in DOMAIN rows |-> ConvertRow(rows[i])]
  BY DEF Map
<1>3. ConvertReplyMarkup(rm) = [id |-> "InlineKeyboard", rows |-> c]
  BY DEF ConvertReplyMarkup
<1>4. BuildReplyMarkup(ConvertReplyMarkup(rm)).rows = [i \in DOMAIN c |-> BuildRow(c[i])]
  <2>1. ConvertReplyMarkup(rm).rows = c
    BY <1>3
  <2> HIDE DEF c
  <2> QED
    BY <2>1 DEF BuildReplyMarkup, Map
<1>5. \A i \in DOMAIN rows : rows[i] \in Seq(TdButton \cup {None})
  <2> HIDE DEF rows
  <2> QED
    BY <1>1
<1>6. \A i \in DOMAIN rows : BuildRow(ConvertRow(rows[i])) = back(i)
  <2> HIDE DEF rows
  <2> QED
    BY <1>5, RowReturns
<1>7. [i \in DOMAIN c |-> BuildRow(c[i])] = [i \in DOMAIN rows |-> back(i)]
  <2> HIDE DEF c, rows, back
  <2> QED
    BY <1>2, <1>6
<1> QED
  BY <1>4, <1>7

LEMMA EchoReturns ==
  ASSUME NEW u \in Update
  PROVE  EchoFaithful(u)
<1> SUFFICES ASSUME u.kind = "message" PROVE EchoFaithful(u)
  BY DEF EchoFaithful
<1> DEFINE m == ToMessage(u)
<1>1. /\ m.entities = IF u.content # None /\ HasText(u.content)
                      THEN ConvertEntities(u.entities) ELSE <<>>
      /\ m.reply_markup = ConvertReplyMarkup(u.reply_markup)
  <2>1. OfMessage(m, u)
    BY MessageFields, UpdateAssumption, NullAssumption
  <2> HIDE DEF m
  <2> QED
    BY <2>1 DEF OfMessage
<1> HIDE DEF m
<1>2. ASSUME u.content # None, HasText(u.content)
      PROVE  ConvertFormattedText(m.entities) =
               Among(u.entities, {e \in Elements(u.entities) : KnownEntity(e)})
  <2>1. /\ u.entities \in Seq(TdEntity \cup {None})
        /\ \A e \in Elements(u.entities) \ {None} :
             e.type \notin WithArgument => e.argument = NoText
    BY UpdateAssumption
  <2>2. m.entities = ConvertEntities(u.entities)
    BY <1>1, <1>2
  <2> QED
    BY <2>1, <2>2, EntitiesReturn
<1>3. ASSUME u.reply_markup # None, u.reply_markup.id = "InlineKeyboard"
      PROVE  BuildReplyMarkup(m.reply_markup).rows =
               [i \in DOMAIN u.reply_markup.rows |->
                  [j \in DOMAIN NotNull(u.reply_markup.rows[i]) |->
                     Relayed(NotNull(u.reply_markup.rows[i])[j])]]
  <2>1. u.reply_markup \in TdKeyboard
    BY <1>3, UpdateAssumption
  <2> QED
    BY <1>1, <1>3, <2>1, KeyboardReturns
<1> QED
  BY <1>2, <1>3 DEF EchoFaithful, m

(* Filters, media and what a bot sends on: what the handlers get of any    *)
(* message or edit tells the truth about it.                               *)
THEOREM TruthTold == Spec => []MessagesTellTruth
<1>1. TypeOK => MessagesTellTruth
  <2> SUFFICES ASSUME TypeOK, stage \in {"vetting", "dispatch"},
                      delivered[Last].kind \in {"message", "edited"}
               PROVE  LET u == delivered[Last] IN
                      FiltersTellTruth(u) /\ MediaPresent(u) /\ EchoFaithful(u)
    BY DEF MessagesTellTruth
  <2> DEFINE u == delivered[Last]
  <2>1. u \in Update
    BY DEF TypeOK, Last
  <2> HIDE DEF u
  <2>2. u.kind \in {"message", "edited"}
    BY DEF u
  <2> QED
    BY <2>1, <2>2, FiltersTell, MediaIsThere, EchoReturns DEF u
<1>2. Spec => []TypeOK
  BY TypeCorrect
<1> QED
  BY <1>1, <1>2, PTL
=============================================================================
