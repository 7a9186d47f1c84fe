----------------------------- MODULE ClientLogin -----------------------------
(***************************************************************************)
(* Authorisation and the blocking event loop of Client                     *)
(* (src/backend/client.cpp). TDLib reports its authorisation state through *)
(* the update queue; the dispatcher stores it in auth_state, notifies      *)
(* auth_cv_ and answers it; the owner waits in login or loginBot, then in  *)
(* run; another thread may call logout and stop.                           *)
(*                                                                         *)
(* Neither condition variable is notified under its mutex, and the states  *)
(* are stored without it: only the waiter ever takes auth_mtx_ or run_mtx_.*)
(* Between its test of the predicate and its sleep it is "blocking", and a *)
(* notification is lost on it.                                             *)
(***************************************************************************)
EXTENDS Naturals, Sequences

CONSTANTS MaxForeign   \* bound: calls of logout, and of stop

ASSUME ForeignAssumption == MaxForeign \in Nat

TdState == {"WaitTdlibParameters", "WaitEncryptionKey", "WaitPhoneNumber",
            "WaitCode", "WaitPassword", "WaitRegistration", "Ready",
            "LoggingOut", "Closed"}

AuthState == {"None", "WaitPhoneNumber", "WaitCode", "WaitPassword",
              "WaitRegistration", "Ready", "LoggingOut", "Closed"}

Request == {"parameters", "encryptionKey", "phone", "botToken", "code",
            "password", "logOut"}

VARIABLES
  td,                  \* external: the authorisation state of TDLib
  requests,            \* external: requests TDLib has not seen
  updates,             \* states on their way through update_queue_
  auth_state,          \* auth_state
  dpc,                 \* where handle_auth_state is
  handled,             \* the state it handles
  callbacks,           \* code_callback_ and password_callback_: those set
  method,              \* login or loginBot
  supplied,            \* the callbacks the owner passes to login
  opc,                 \* where the owner is
  event_loop_running,  \* event_loop_running
  lpc,                 \* where logout is
  spc,                 \* where stop is
  foreign,             \* bound: calls of logout and stop so far
  lost,                \* the last notification of auth_cv_ met a blocking waiter
  stopLost,            \* so did that of run_cv_, or stop came before run
  readySeen,           \* history: Ready was stored in auth_state
  overwritten,         \* history: logout stored over Ready or Closed
  aborted              \* std::terminate was called

tdVars    == <<td, requests, updates>>
dispVars  == <<dpc, handled>>
loginVars == <<callbacks, method, supplied, opc>>
otherVars == <<lpc, spc, foreign>>
history   == <<lost, stopLost, readySeen, overwritten>>
vars == <<tdVars, auth_state, dispVars, loginVars, event_loop_running,
          otherVars, history, aborted>>

OwnerPC ==
  {"idle", "assign",
   "firstTest", "firstBlocking", "firstAsleep", "firstSeen", "firstOpen",
   "send",
   "secondTest", "secondBlocking", "secondAsleep", "secondSeen",
   "loggedIn", "threw",
   "runTest", "runBlocking", "runAsleep", "ended"}

TypeOK ==
  /\ td \in TdState
  /\ requests \in Seq(Request)
  /\ updates \in Seq(TdState)
  /\ auth_state \in AuthState
  /\ dpc \in {"idle", "store", "notify", "act"}
  /\ handled \in TdState
  /\ callbacks \subseteq {"code", "password"}
  /\ method \in {"login", "loginBot"}
  /\ supplied \subseteq {"code", "password"}
  /\ opc \in OwnerPC
  /\ event_loop_running \in BOOLEAN
  /\ lpc \in {"idle", "store"}
  /\ spc \in {"idle", "notify"}
  /\ foreign \in [{"logout", "stop"} -> 0 .. MaxForeign]
  /\ lost \in BOOLEAN
  /\ stopLost \in BOOLEAN
  /\ readySeen \in BOOLEAN
  /\ overwritten \in BOOLEAN
  /\ aborted \in BOOLEAN

Init ==
  /\ td = "WaitTdlibParameters"
  /\ requests = <<>>
  /\ updates = <<"WaitTdlibParameters">>
  /\ auth_state = "None"
  /\ dpc = "idle"
  /\ handled = "WaitTdlibParameters"
  /\ callbacks = {}
  /\ method \in {"login", "loginBot"}
  /\ supplied \in IF method = "login" THEN SUBSET {"code", "password"} ELSE {{}}
  /\ opc = "idle"
  /\ event_loop_running = FALSE
  /\ lpc = "idle"
  /\ spc = "idle"
  /\ foreign = [c \in {"logout", "stop"} |-> 0]
  /\ lost = FALSE
  /\ stopLost = FALSE
  /\ readySeen = FALSE
  /\ overwritten = FALSE
  /\ aborted = FALSE

-----------------------------------------------------------------------------
(* TDLib (external). A request that does not fit or is wrong is answered   *)
(* with an error, which the empty handlers of the code ignore. A session   *)
(* found in the database is resumed where it was left.                     *)

Reply(s, r) ==
  CASE s = "WaitTdlibParameters" /\ r = "parameters" -> {"WaitEncryptionKey"}
    [] s = "WaitEncryptionKey" /\ r = "encryptionKey" ->
         {"WaitPhoneNumber", "WaitCode", "WaitPassword", "Ready"}
    [] s = "WaitPhoneNumber" /\ r = "phone"    -> {s, "WaitCode"}
    [] s = "WaitPhoneNumber" /\ r = "botToken" -> {s, "Ready"}
    [] s = "WaitCode" /\ r = "code" ->
         {s, "WaitPassword", "WaitRegistration", "Ready"}
    [] s = "WaitPassword" /\ r = "password" -> {s, "Ready"}
    [] r = "logOut" /\ s \notin {"LoggingOut", "Closed"} -> {s, "LoggingOut"}
    [] OTHER -> {s}

TdMoves(s) ==
  /\ td' = s
  /\ updates' = Append(updates, s)

TdAnswers ==
  /\ requests # <<>>
  /\ requests' = Tail(requests)
  /\ \E s \in Reply(td, Head(requests)) :
       IF s = td THEN UNCHANGED <<td, updates>> ELSE TdMoves(s)
  /\ UNCHANGED <<auth_state, dispVars, loginVars, event_loop_running,
                 otherVars, history, aborted>>

TdTerminates ==
  /\ td = "Ready"
  /\ TdMoves("LoggingOut")
  /\ UNCHANGED <<requests, auth_state, dispVars, loginVars,
                 event_loop_running, otherVars, history, aborted>>

TdCloses ==
  /\ td = "LoggingOut"
  /\ TdMoves("Closed")
  /\ UNCHANGED <<requests, auth_state, dispVars, loginVars,
                 event_loop_running, otherVars, history, aborted>>

-----------------------------------------------------------------------------
(* handle_auth_state, on the dispatcher thread                             *)

HandleTake ==
  /\ dpc = "idle"
  /\ updates # <<>>
  /\ handled' = Head(updates)
  /\ updates' = Tail(updates)
  /\ dpc' = "store"
  /\ UNCHANGED <<td, requests, auth_state, loginVars, event_loop_running,
                 otherVars, history, aborted>>

(* Bug: TDLib's names are stored as they come. *)
ShownRaw(s) == s

Shown(s) ==
  CASE s = "WaitTdlibParameters" -> "None"
    [] s = "WaitEncryptionKey"   -> "WaitPassword"
    [] OTHER                     -> s

(* Bug: the end of the authorisation is not stored. *)
HandleStoreUnlessClosed ==
  /\ dpc = "store"
  /\ auth_state' = IF handled = "Closed" THEN auth_state ELSE Shown(handled)
  /\ readySeen' = (readySeen \/ handled = "Ready")
  /\ dpc' = IF handled = "WaitTdlibParameters" THEN "act" ELSE "notify"
  /\ UNCHANGED <<tdVars, handled, loginVars, event_loop_running, otherVars,
                 lost, stopLost, overwritten, aborted>>

HandleStore ==
  /\ dpc = "store"
  /\ auth_state' = Shown(handled)
  /\ readySeen' = (readySeen \/ handled = "Ready")
  /\ dpc' = IF handled = "WaitTdlibParameters" THEN "act" ELSE "notify"
  /\ UNCHANGED <<tdVars, handled, loginVars, event_loop_running, otherVars,
                 lost, stopLost, overwritten, aborted>>

(* auth_cv_.notify_all: only the owner waits on it.                        *)
WakeLogin ==
  /\ opc' = CASE opc = "firstAsleep"  -> "firstTest"
              [] opc = "secondAsleep" -> "secondTest"
              [] OTHER                -> opc
  /\ lost' = (opc \in {"firstBlocking", "secondBlocking"})

(* Bug: the end of an authorisation is not announced. *)
HandleNotifyUnlessClosed ==
  /\ dpc = "notify"
  /\ IF handled = "Closed" THEN UNCHANGED <<opc, lost>> ELSE WakeLogin
  /\ dpc' = "act"
  /\ UNCHANGED <<tdVars, auth_state, handled, callbacks, method, supplied,
                 event_loop_running, otherVars, stopLost, readySeen,
                 overwritten, aborted>>

HandleNotify ==
  /\ dpc = "notify"
  /\ WakeLogin
  /\ dpc' = "act"
  /\ UNCHANGED <<tdVars, auth_state, handled, callbacks, method, supplied,
                 event_loop_running, otherVars, stopLost, readySeen,
                 overwritten, aborted>>

(* A callback that is read while login assigns it may look set or not, or  *)
(* crash the process: nothing orders the two.                              *)
Raced == opc = "assign"

Sends(r) == requests' = Append(requests, r) /\ UNCHANGED aborted

SendsNothing == UNCHANGED <<requests, aborted>>

Aborts == aborted' = TRUE /\ UNCHANGED requests

(* The callback's answer is sent; without a callback, WithoutIt happens.  *)
Asks(c, WithoutIt) ==
  \/ c \in callbacks \cup (IF Raced THEN supplied ELSE {}) /\ Sends(c)
  \/ c \notin callbacks /\ WithoutIt
  \/ Raced /\ Aborts

HandleAct ==
  /\ dpc = "act"
  /\ \/ handled = "WaitTdlibParameters" /\ Sends("parameters")
     \/ handled = "WaitEncryptionKey" /\ Sends("encryptionKey")
     \/ handled = "WaitCode" /\ Asks("code", SendsNothing)
     \/ handled = "WaitPassword" /\ Asks("password", Aborts)
     \/ /\ handled \in {"WaitPhoneNumber", "WaitRegistration", "Ready",
                        "LoggingOut", "Closed"}
        /\ SendsNothing
  /\ dpc' = "idle"
  /\ UNCHANGED <<td, updates, auth_state, handled, loginVars,
                 event_loop_running, otherVars, history>>

-----------------------------------------------------------------------------
(* The owner: login, loginBot, run                                         *)

OwnerMoves(p) ==
  /\ opc' = p
  /\ UNCHANGED <<tdVars, auth_state, dispVars, callbacks, method, supplied,
                 event_loop_running, otherVars, history, aborted>>

(* The fast path; loginBot assigns no callbacks.                           *)
Login ==
  /\ opc = "idle"
  /\ OwnerMoves(IF auth_state = "Ready" THEN "loggedIn"
                ELSE IF method = "login" THEN "assign" ELSE "firstTest")

(* Bug: the password callback is forgotten. *)
AssignCodeOnly ==
  /\ opc = "assign"
  /\ callbacks' = supplied \ {"password"}
  /\ opc' = "firstTest"
  /\ UNCHANGED <<tdVars, auth_state, dispVars, method, supplied,
                 event_loop_running, otherVars, history, aborted>>

AssignCallbacks ==
  /\ opc = "assign"
  /\ callbacks' = supplied
  /\ opc' = "firstTest"
  /\ UNCHANGED <<tdVars, auth_state, dispVars, method, supplied,
                 event_loop_running, otherVars, history, aborted>>

(* The predicates of the two waits.                                        *)
(* Bug: the predicate of the first wait lets every state pass. *)
TestFirstOnce ==
  /\ opc = "firstTest"
  /\ OwnerMoves("firstSeen")

TestFirst ==
  /\ opc = "firstTest"
  /\ OwnerMoves(IF auth_state \in {"WaitPhoneNumber", "Ready", "Closed"}
                THEN "firstSeen" ELSE "firstBlocking")

TestSecond ==
  /\ opc = "secondTest"
  /\ OwnerMoves(IF auth_state \in {"Ready", "Closed"}
                THEN "secondSeen" ELSE "secondBlocking")

Block ==
  \/ opc = "firstBlocking" /\ OwnerMoves("firstAsleep")
  \/ opc = "secondBlocking" /\ OwnerMoves("secondAsleep")
  \/ opc = "runBlocking" /\ OwnerMoves("runAsleep")

SpuriousWakeup ==
  \/ opc = "firstAsleep" /\ OwnerMoves("firstTest")
  \/ opc = "secondAsleep" /\ OwnerMoves("secondTest")
  \/ opc = "runAsleep" /\ OwnerMoves("runTest")

(* auth_state is loaded again after each wait, twice after the first.      *)
SeeFirst ==
  /\ opc = "firstSeen"
  /\ OwnerMoves(IF auth_state = "Closed" THEN "threw" ELSE "firstOpen")

SeeReady ==
  /\ opc = "firstOpen"
  /\ OwnerMoves(IF auth_state = "Ready" THEN "loggedIn" ELSE "send")

SendLogin ==
  /\ opc = "send"
  /\ requests' = Append(requests, IF method = "login" THEN "phone" ELSE "botToken")
  /\ opc' = "secondTest"
  /\ UNCHANGED <<td, updates, auth_state, dispVars, callbacks, method, supplied,
                 event_loop_running, otherVars, history, aborted>>

(* Bug: the state is not looked at again after the second wait. *)
SeeSecondUnchecked ==
  /\ opc = "secondSeen"
  /\ OwnerMoves("loggedIn")

SeeSecond ==
  /\ opc = "secondSeen"
  /\ OwnerMoves(IF auth_state = "Closed" THEN "threw" ELSE "loggedIn")

Run ==
  /\ opc = "loggedIn"
  /\ event_loop_running' = TRUE
  /\ opc' = "runTest"
  /\ UNCHANGED <<tdVars, auth_state, dispVars, callbacks, method, supplied,
                 otherVars, history, aborted>>

TestRun ==
  /\ opc = "runTest"
  /\ OwnerMoves(IF event_loop_running THEN "runBlocking" ELSE "ended")

-----------------------------------------------------------------------------
(* logout and stop, on another thread                                      *)

LogoutSend ==
  /\ lpc = "idle"
  /\ foreign["logout"] < MaxForeign
  /\ foreign' = [foreign EXCEPT !["logout"] = @ + 1]
  /\ requests' = Append(requests, "logOut")
  /\ lpc' = "store"
  /\ UNCHANGED <<td, updates, auth_state, dispVars, loginVars,
                 event_loop_running, spc, history, aborted>>

LogoutStore ==
  /\ lpc = "store"
  /\ auth_state' = "LoggingOut"
  /\ overwritten' = (overwritten \/ auth_state \in {"Ready", "Closed"})
  /\ lpc' = "idle"
  /\ UNCHANGED <<tdVars, dispVars, loginVars, event_loop_running, spc, foreign,
                 lost, stopLost, readySeen, aborted>>

(* A handler that calls stop runs once the client is authorised.           *)
StopStore ==
  /\ spc = "idle"
  /\ readySeen
  /\ foreign["stop"] < MaxForeign
  /\ foreign' = [foreign EXCEPT !["stop"] = @ + 1]
  /\ event_loop_running' = FALSE
  /\ spc' = "notify"
  /\ UNCHANGED <<tdVars, auth_state, dispVars, loginVars, lpc, history, aborted>>

(* Bug: stop does not notify. *)
StopSilently ==
  /\ spc = "notify"
  /\ spc' = "idle"
  /\ UNCHANGED <<tdVars, auth_state, dispVars, loginVars, event_loop_running,
                 lpc, foreign, history, aborted>>

StopNotify ==
  /\ spc = "notify"
  /\ spc' = "idle"
  /\ opc' = IF opc = "runAsleep" THEN "runTest" ELSE opc
  /\ stopLost' = (opc = "runBlocking")
  /\ UNCHANGED <<tdVars, auth_state, dispVars, callbacks, method, supplied,
                 event_loop_running, lpc, foreign, lost, readySeen,
                 overwritten, aborted>>

-----------------------------------------------------------------------------
TdGoesOn == TdAnswers \/ TdCloses

DispatcherGoesOn == HandleTake \/ HandleStore \/ HandleNotify \/ HandleAct

OwnerGoesOn ==
  \/ AssignCallbacks \/ TestFirst \/ SeeFirst \/ SeeReady \/ SendLogin
  \/ TestSecond \/ SeeSecond \/ TestRun \/ Block

Next ==
  /\ ~aborted
  /\ \/ TdGoesOn \/ TdTerminates
     \/ DispatcherGoesOn
     \/ Login \/ OwnerGoesOn \/ Run \/ SpuriousWakeup
     \/ LogoutSend \/ LogoutStore
     \/ StopStore \/ StopNotify

Spec == Init /\ [][Next]_vars

(* TDLib answers and closes, the threads run, a callback returns and a     *)
(* logout or stop that was begun is finished. An owner that is logged in   *)
(* calls run, as every example does. Nobody has to call anything else.     *)
Running(A) == ~aborted /\ A

Fairness ==
  /\ WF_vars(Running(TdGoesOn))
  /\ WF_vars(Running(DispatcherGoesOn))
  /\ WF_vars(Running(OwnerGoesOn))
  /\ WF_vars(Running(Run))
  /\ WF_vars(Running(LogoutStore))
  /\ WF_vars(Running(StopNotify))

FairSpec == Spec /\ Fairness

-----------------------------------------------------------------------------
InLogin == opc \notin {"idle", "loggedIn", "threw", "runTest", "runBlocking",
                       "runAsleep", "ended"}

LoggedIn == opc \in {"loggedIn", "runTest", "runBlocking", "runAsleep", "ended"}

Quiet == dpc = "idle" /\ updates = <<>> /\ lpc = "idle"

LoggingOut == foreign["logout"] > 0 \/ td \in {"LoggingOut", "Closed"}

(* login returns without an exception only to a client that was authorised *)
(* once. The one way round it is logout storing LoggingOut over Closed     *)
(* while login is between its waits and its loads of auth_state.           *)
LoginSound == LoggedIn => readySeen \/ overwritten

(* When nothing is under way authState() tells where TDLib is, or that the *)
(* application asked for a logout.                                         *)
StateIsCurrent ==
  Quiet /\ ~aborted =>
    auth_state = Shown(td) \/ (foreign["logout"] > 0 /\ auth_state = "LoggingOut")

(* Every answer to an authorisation state reaches TDLib in that state, and *)
(* is given at most once, unless the client is being logged out.           *)
RequestFits ==
  requests # <<>> /\ ~LoggingOut =>
    /\ Len(requests) = 1
    /\ td = CASE requests[1] = "parameters"    -> "WaitTdlibParameters"
              [] requests[1] = "encryptionKey" -> "WaitEncryptionKey"
              [] requests[1] \in {"phone", "botToken"} -> "WaitPhoneNumber"
              [] requests[1] = "code"          -> "WaitCode"
              [] requests[1] = "password"      -> "WaitPassword"

(* The process is terminated for want of a password only if login was not  *)
(* given a callback, or TDLib asked before login had finished storing it.  *)
AbortsOnlyUnprepared ==
  aborted => "password" \notin supplied \/ opc \in {"idle", "assign"}

(* The login follows TDLib: what it shows, what it answers, and when it    *)
(* gives up.                                                               *)
FollowsTdlib == StateIsCurrent /\ RequestFits /\ AbortsOnlyUnprepared

(* Once TDLib is authorised or closed, a login under way ends: unless its  *)
(* notification came between the test of the predicate and the sleep, or   *)
(* logout wiped out the state it waits for.                                *)
LoginEnds ==
  td \in {"Ready", "Closed"} /\ InLogin ~> ~InLogin \/ lost \/ overwritten \/ aborted

(* A stop that comes after run has begun ends it, unless its notification  *)
(* came between the test of the predicate and the sleep.                   *)
StopEndsRun ==
  spc = "notify" /\ ~event_loop_running /\ opc \in {"runTest", "runBlocking", "runAsleep"}
    ~> opc = "ended" \/ stopLost \/ aborted

(* examples/test_bot.cpp:778, "/stop - graceful shutdown": a stop called   *)
(* by a handler of a client that is authorised ends run.                   *)
StopIsGraceful == spc = "notify" /\ LoggedIn ~> opc = "ended" \/ aborted
=============================================================================
