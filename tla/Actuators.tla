------------------------------- MODULE Actuators -------------------------------
(***************************************************************************)
(* tdlib-control-api: ActuatorManager keeps one Actuator per phone number; *)
(* an Actuator logs its number in through a TDLib client and runs commands. *)
(*                                                                         *)
(* Threads: HTTP requests; one run() per actuator and one task per waited   *)
(* code, from the cached pool; the receiver thread of Client, which handles *)
(* the updates of all clients one by one.  TDLib itself is external: it     *)
(* answers requests and reports the authorization states.  Password and     *)
(* registration names are waited for as the code is and are left out, and   *)
(* so are the states that read from the console.                            *)
(***************************************************************************)
EXTENDS Naturals, Sequences, FiniteSets, Functions

CONSTANTS Phones, NoPhone,
          MaxActuators, MaxCalls, MaxClients     \* bounds

ASSUME ActuatorsAssumption ==
  {MaxActuators, MaxCalls, MaxClients} \subseteq Nat /\ NoPhone \notin Phones

Actuator == 1 .. MaxActuators
NoActuator == 0
(* The n-th client of an actuator is <<a, n>>; MaxClients bounds all of them. *)
Client == Actuator \X (1 .. MaxClients)
NoClient == <<NoActuator, 0>>
Owner(c) == c[1]

VARIABLES
  actuatorMap,       \* phone -> actuator
  starting,          \* phone -> tasks of pushPhone the pool has not started
  phone,             \* actuator -> its phone
  pc,                \* actuator -> where its run() is
  client,            \* actuator -> the client in its field
  authorizationState,
  haveAuthorization, needQuit, canQuit,      \* actuators whose flag is set
  code,              \* actuators whose `code` is not empty
  waitCode,          \* actuators with a task that waits for the code
  commandQueue,
  receiver,          \* what the receiver thread is in the middle of
  threads,           \* calls of actuators' methods in progress
  tdlib,             \* external: client -> its state
  requests,          \* external: client -> requests TDLib has not answered
  updates,           \* external: client -> updates and errors not received yet
  calls              \* counter of the bound MaxCalls

manager_vars == <<actuatorMap, starting, phone>>
flag_vars == <<haveAuthorization, needQuit, canQuit>>
tdlib_vars == <<tdlib, requests, updates>>
vars == <<manager_vars, pc, client, authorizationState, flag_vars, code, waitCode,
          commandQueue, receiver, threads, tdlib_vars, calls>>

Waiting == {"WaitTdlibParameters", "WaitPhoneNumber", "WaitCode"}
Live == Waiting \cup {"Ready"}
AuthorizationStates == {"none", "Closing", "Closed"} \cup Live

Idle == [of |-> NoActuator, at |-> "idle"]
Thread(a, op, at) == [of |-> a, op |-> op, at |-> at]

Init ==
  /\ actuatorMap = [p \in Phones |-> NoActuator]
  /\ starting = [p \in Phones |-> 0]
  /\ phone = [a \in Actuator |-> NoPhone]
  /\ pc = [a \in Actuator |-> "none"]
  /\ client = [a \in Actuator |-> NoClient]
  /\ authorizationState = [a \in Actuator |-> "none"]
  /\ haveAuthorization = {} /\ needQuit = {} /\ canQuit = {}
  /\ code = {} /\ waitCode = {}
  /\ commandQueue = [a \in Actuator |-> << >>]
  /\ receiver = Idle /\ threads = {}
  /\ tdlib = [c \in Client |-> "none"]
  /\ requests = [c \in Client |-> {}]
  /\ updates = [c \in Client |-> << >>]
  /\ calls = 0

-------------------------------------------------------------------------------
(* TDLib as the clients see it                                               *)

Report(c, state) == updates' = [updates EXCEPT ![c] = Append(@, state)]

(* Below the bound, also with the client the receiver thread will create.     *)
Created == {c \in Client : tdlib[c] # "none"}
MayCreate == Cardinality(Created) + (IF receiver.at = "create" THEN 1 ELSE 0) < MaxClients

(* createNativeClient(): the first requests of the new client wake TDLib up.  *)
CreateNativeClient(c) ==
  /\ c \in Client \ Created
  /\ \A d \in Client \ Created : Owner(d) = Owner(c) => c[2] <= d[2]
  /\ tdlib' = [tdlib EXCEPT ![c] = "WaitTdlibParameters"]
  /\ Report(c, "WaitTdlibParameters")
  /\ UNCHANGED requests

(* close and logOut do nothing once the client is on its way to be closed.    *)
CloseOrLogOut(c) ==
  IF c # NoClient /\ tdlib[c] \in Live
  THEN tdlib' = [tdlib EXCEPT ![c] = "Closing"] /\ Report(c, "Closing")
  ELSE UNCHANGED <<tdlib, updates>>

(* The database directory data/<phone> can be used by one client at a time.   *)
DatabaseIsFree(c) ==
  ~\E d \in Created \ {c} : /\ phone[Owner(d)] = phone[Owner(c)]
                            /\ tdlib[d] \in AuthorizationStates \ {"WaitTdlibParameters", "Closed"}

(* A request that fits the state goes on to the next state - with a stored    *)
(* session the parameters suffice - or fails; any other one fails.  A failed  *)
(* one makes the AuthorizationRequestHandler repeat the last action.          *)
TdlibAnswers(c) == \E r \in requests[c] :
  /\ requests' = [requests EXCEPT ![c] = @ \ {r}]
  /\ \/ /\ tdlib[c] = r
        /\ r = "WaitTdlibParameters" => DatabaseIsFree(c)
        /\ \E next \in CASE r = "WaitTdlibParameters" -> {"WaitPhoneNumber", "Ready"}
                         [] r = "WaitPhoneNumber" -> {"WaitCode"}
                         [] r = "WaitCode" -> {"Ready"} :
             tdlib' = [tdlib EXCEPT ![c] = next] /\ Report(c, next)
     \/ /\ tdlib[c] = r => r = "WaitCode" \/ ~DatabaseIsFree(c)
        /\ Report(c, "Error")
        /\ UNCHANGED tdlib
  /\ UNCHANGED <<manager_vars, pc, client, authorizationState, flag_vars, code, waitCode,
                 commandQueue, receiver, threads, calls>>

(* The session is terminated from another device.                            *)
TdlibLogsOut(c) ==
  /\ tdlib[c] = "Ready"
  /\ CloseOrLogOut(c)
  /\ UNCHANGED <<manager_vars, pc, client, authorizationState, flag_vars, code, waitCode,
                 commandQueue, receiver, threads, requests, calls>>

TdlibCloses(c) ==
  /\ tdlib[c] = "Closing"
  /\ tdlib' = [tdlib EXCEPT ![c] = "Closed"] /\ Report(c, "Closed")
  /\ UNCHANGED <<manager_vars, pc, client, authorizationState, flag_vars, code, waitCode,
                 commandQueue, receiver, threads, requests, calls>>

-------------------------------------------------------------------------------
(* ActuatorManager                                                           *)

(* pushPhone(): refused for a number in the map, else a task is queued.       *)
PushPhone(p) ==
  /\ actuatorMap[p] = NoActuator
  /\ Cardinality({a \in Actuator : pc[a] # "none"}) + starting[p] < MaxActuators
  /\ starting' = [starting EXCEPT ![p] = @ + 1]
  /\ UNCHANGED <<actuatorMap, phone, pc, client, authorizationState, flag_vars, code, waitCode,
                 commandQueue, receiver, threads, tdlib_vars, calls>>

(* The task puts a new actuator into the map and goes on with its run().      *)
StartActuator(p) ==
  /\ starting[p] > 0
  /\ starting' = [starting EXCEPT ![p] = @ - 1]
  /\ \E a \in Actuator :
       /\ pc[a] = "none" /\ \A b \in Actuator : b < a => pc[b] # "none"
       /\ phone' = [phone EXCEPT ![a] = p]
       /\ actuatorMap' = [actuatorMap EXCEPT ![p] = a]
       /\ pc' = [pc EXCEPT ![a] = "create"]
  /\ UNCHANGED <<client, authorizationState, flag_vars, code, waitCode, commandQueue,
                 receiver, threads, tdlib_vars, calls>>

(* Mutant: it is removed but not closed.                                      *)
RemoveOnly(p) ==
  /\ actuatorMap' = [actuatorMap EXCEPT ![p] = NoActuator]
  /\ UNCHANGED threads

(* close(phone): the calling thread goes on to close() what it removed.       *)
RemoveAndClose(p) ==
  LET a == actuatorMap[p]
  IN /\ actuatorMap' = [actuatorMap EXCEPT ![p] = NoActuator]
     /\ threads' = IF a = NoActuator THEN threads ELSE threads \cup {Thread(a, "close", "start")}

(* pushCode() and pushCommand() get the actuator, then call its method.       *)
Push(p, op) ==
  LET a == actuatorMap[p]
  IN /\ a # NoActuator
     /\ calls < MaxCalls /\ calls' = calls + 1
     /\ threads' = threads \cup {Thread(a, op, "start")}
     /\ UNCHANGED <<manager_vars, pc, client, authorizationState, flag_vars, code, waitCode,
                    commandQueue, receiver, tdlib_vars>>

-------------------------------------------------------------------------------
(* Actuator.code(), command() and close(), on the thread of the caller        *)

CallStart(t) ==
  LET a == t.of
  IN /\ t \in threads /\ t.at = "start"
     /\ IF a \in canQuit
        THEN /\ threads' = threads \ {t}
             /\ UNCHANGED <<code, needQuit, haveAuthorization, commandQueue>>
        ELSE /\ threads' = (threads \ {t}) \cup IF t.op = "lo" THEN {} ELSE {[t EXCEPT !.at = "send"]}
             /\ code' = IF t.op = "code" THEN code \cup {a} ELSE code
             /\ needQuit' = IF t.op \in {"q", "close"} THEN needQuit \cup {a} ELSE needQuit
             /\ haveAuthorization' = IF t.op \in {"q", "close"} THEN haveAuthorization \ {a}
                                                               ELSE haveAuthorization
             /\ commandQueue' = IF t.op = "lo" THEN [commandQueue EXCEPT ![a] = Append(@, "lo")]
                                               ELSE commandQueue
     /\ UNCHANGED <<manager_vars, pc, client, authorizationState, canQuit, waitCode,
                    receiver, tdlib_vars, calls>>

(* Mutant: close() leaves a command behind, as command() does.                *)
CallSendQueuesAll(t) ==
  /\ t \in threads /\ t.at = "send"
  /\ threads' = threads \ {t}
  /\ CloseOrLogOut(client[t.of])
  /\ commandQueue' = [commandQueue EXCEPT ![t.of] = Append(@, t.op)]
  /\ UNCHANGED <<manager_vars, pc, client, authorizationState, flag_vars, code, waitCode,
                 receiver, requests, calls>>

(* client.send(); with no client yet the caller gets a NullPointerException.  *)
CallSend(t) ==
  LET c == client[t.of]
  IN /\ t \in threads /\ t.at = "send"
     /\ threads' = threads \ {t}
     /\ IF t.op = "code" /\ c # NoClient
        THEN /\ requests' = [requests EXCEPT ![c] = @ \cup {"WaitCode"}]
             /\ UNCHANGED <<tdlib, updates>>
        ELSE UNCHANGED requests /\ CloseOrLogOut(IF t.op = "code" THEN NoClient ELSE c)
     /\ commandQueue' = IF t.op = "q" /\ c # NoClient
                        THEN [commandQueue EXCEPT ![t.of] = Append(@, "q")] ELSE commandQueue
     /\ UNCHANGED <<manager_vars, pc, client, authorizationState, flag_vars, code, waitCode,
                    receiver, calls>>

-------------------------------------------------------------------------------
(* Actuator.run()                                                            *)

Goto(a, from, to) == pc[a] = from /\ pc' = [pc EXCEPT ![a] = to]

(* An I/O error before the client exists ends run(); the map keeps it.        *)
RunFails(a) ==
  /\ Goto(a, "create", "failed")
  /\ UNCHANGED <<manager_vars, client, authorizationState, flag_vars, code, waitCode,
                 commandQueue, receiver, threads, tdlib_vars, calls>>

(* Client.create(): TDLib runs before the field `client` is assigned.         *)
RunCreate(a) ==
  /\ Goto(a, "create", "assign") /\ MayCreate
  /\ \E c \in Client : Owner(c) = a /\ CreateNativeClient(c)
  /\ UNCHANGED <<manager_vars, client, authorizationState, flag_vars, code, waitCode,
                 commandQueue, receiver, threads, calls>>

RunAssign(a) ==
  /\ Goto(a, "assign", "loop")
  /\ \E c \in Created : Owner(c) = a /\ client' = [client EXCEPT ![a] = c]
  /\ UNCHANGED <<manager_vars, authorizationState, flag_vars, code, waitCode,
                 commandQueue, receiver, threads, tdlib_vars, calls>>

(* Mutant: the main loop does not look at needQuit.                           *)
RunLoopForever(a) ==
  /\ Goto(a, "loop", "await")
  /\ UNCHANGED <<manager_vars, client, authorizationState, flag_vars, code, waitCode,
                 commandQueue, receiver, threads, tdlib_vars, calls>>

RunLoop(a) ==
  /\ Goto(a, "loop", IF a \in needQuit THEN "quit" ELSE "await")
  /\ UNCHANGED <<manager_vars, client, authorizationState, flag_vars, code, waitCode,
                 commandQueue, receiver, threads, tdlib_vars, calls>>

(* Under authorizationLock: the flag is tested and the condition awaited.     *)
RunAwait(a) ==
  /\ Goto(a, "await", IF a \in haveAuthorization THEN "commands" ELSE "awaiting")
  /\ UNCHANGED <<manager_vars, client, authorizationState, flag_vars, code, waitCode,
                 commandQueue, receiver, threads, tdlib_vars, calls>>

RunCommands(a) ==
  /\ Goto(a, "commands", IF a \in haveAuthorization THEN "take" ELSE "loop")
  /\ UNCHANGED <<manager_vars, client, authorizationState, flag_vars, code, waitCode,
                 commandQueue, receiver, threads, tdlib_vars, calls>>

(* take() and runCommand() of lo and q.                                       *)
RunTake(a) ==
  /\ Goto(a, "take", "commands") /\ commandQueue[a] # << >>
  /\ commandQueue' = [commandQueue EXCEPT ![a] = Tail(@)]
  /\ haveAuthorization' = haveAuthorization \ {a}
  /\ needQuit' = IF Head(commandQueue[a]) = "q" THEN needQuit \cup {a} ELSE needQuit
  /\ CloseOrLogOut(client[a])
  /\ UNCHANGED <<manager_vars, client, authorizationState, canQuit, code, waitCode,
                 receiver, threads, requests, calls>>

RunQuit(a) ==
  /\ Goto(a, "quit", "done") /\ a \in canQuit
  /\ RemoveAndClose(phone[a])
  /\ UNCHANGED <<starting, phone, client, authorizationState, flag_vars, code, waitCode,
                 commandQueue, receiver, tdlib_vars, calls>>

-------------------------------------------------------------------------------
(* The task that waits for the code                                          *)

CodeArrived(a) ==
  /\ a \in waitCode /\ a \in code
  /\ waitCode' = waitCode \ {a}
  /\ UNCHANGED <<manager_vars, pc, client, authorizationState, flag_vars, code,
                 commandQueue, receiver, threads, tdlib_vars, calls>>

(* After its last sleep it tests the time, not the code.                      *)
CodeTimeout(a) ==
  /\ a \in waitCode
  /\ waitCode' = waitCode \ {a}
  /\ RemoveAndClose(phone[a])
  /\ UNCHANGED <<starting, phone, pc, client, authorizationState, flag_vars, code,
                 commandQueue, receiver, tdlib_vars, calls>>

-------------------------------------------------------------------------------
(* onAuthorizationStateUpdated() on the receiver thread.  An error repeats    *)
(* the action of the last state.                                              *)

HandledState(c) ==
  IF Head(updates[c]) = "Error" THEN authorizationState[Owner(c)] ELSE Head(updates[c])

Receive(c, states) ==
  /\ receiver = Idle /\ updates[c] # << >> /\ HandledState(c) \in states
  /\ authorizationState' = [authorizationState EXCEPT ![Owner(c)] = HandledState(c)]
  /\ updates' = [updates EXCEPT ![c] = Tail(@)]

(* The parameters or the number are sent to the client in the field, which    *)
(* need not be the one that asks; without a client nothing is sent.           *)
ReceiveWaiting(c) ==
  LET d == client[Owner(c)]
  IN /\ Receive(c, {"none", "WaitTdlibParameters", "WaitPhoneNumber"})
     /\ requests' = IF d # NoClient /\ HandledState(c) # "none"
                    THEN [requests EXCEPT ![d] = @ \cup {HandledState(c)}] ELSE requests
     /\ UNCHANGED <<manager_vars, pc, client, flag_vars, code, waitCode, commandQueue,
                    receiver, threads, tdlib, calls>>

ReceiveWaitCode(c) ==
  /\ Receive(c, {"WaitCode"})
  /\ waitCode' = IF Owner(c) \in code THEN waitCode ELSE waitCode \cup {Owner(c)}
  /\ UNCHANGED <<manager_vars, pc, client, flag_vars, code, commandQueue,
                 receiver, threads, tdlib, requests, calls>>

ReceiveReady(c) ==
  /\ Receive(c, {"Ready"})
  /\ haveAuthorization' = haveAuthorization \cup {Owner(c)}
  /\ receiver' = [of |-> Owner(c), at |-> "signal"]
  /\ UNCHANGED <<manager_vars, pc, client, needQuit, canQuit, code, waitCode, commandQueue,
                 threads, tdlib, requests, calls>>

(* Mutant: nobody is woken up.                                                *)
SignalNobody ==
  /\ receiver.at = "signal" /\ receiver' = Idle
  /\ UNCHANGED <<manager_vars, pc, client, authorizationState, flag_vars, code, waitCode,
                 commandQueue, threads, tdlib_vars, calls>>

Signal ==
  /\ receiver.at = "signal" /\ receiver' = Idle
  /\ pc' = IF pc[receiver.of] = "awaiting" THEN [pc EXCEPT ![receiver.of] = "await"] ELSE pc
  /\ UNCHANGED <<manager_vars, client, authorizationState, flag_vars, code, waitCode,
                 commandQueue, threads, tdlib_vars, calls>>

(* Mutant: the end of a session leaves its flag.                              *)
ReceiveClosingKeepsFlag(c) ==
  /\ Receive(c, {"Closing"})
  /\ UNCHANGED <<manager_vars, pc, client, flag_vars, code, waitCode, commandQueue,
                 receiver, threads, tdlib, requests, calls>>

ReceiveClosing(c) ==
  /\ Receive(c, {"Closing"})
  /\ haveAuthorization' = haveAuthorization \ {Owner(c)}
  /\ UNCHANGED <<manager_vars, pc, client, needQuit, canQuit, code, waitCode, commandQueue,
                 receiver, threads, tdlib, requests, calls>>

ReceiveClosed(c) ==
  LET a == Owner(c)
  IN /\ Receive(c, {"Closed"}) /\ (a \in needQuit \/ MayCreate)
     /\ IF a \in needQuit
        THEN canQuit' = canQuit \cup {a} /\ UNCHANGED receiver
        ELSE receiver' = [of |-> a, at |-> "create"] /\ UNCHANGED canQuit
     /\ UNCHANGED <<manager_vars, pc, client, haveAuthorization, needQuit, code, waitCode,
                    commandQueue, threads, tdlib, requests, calls>>

(* A closed client is replaced unless the actuator quits.  An error that      *)
(* arrives after the end of a client repeats this too: then the one that has  *)
(* just been created is replaced as well, and lives on.                       *)
Recreate ==
  /\ receiver.at = "create" /\ receiver' = Idle
  /\ \E c \in Client : /\ Owner(c) = receiver.of /\ CreateNativeClient(c)
                      /\ client' = [client EXCEPT ![receiver.of] = c]
  /\ UNCHANGED <<manager_vars, pc, authorizationState, flag_vars, code, waitCode,
                 commandQueue, threads, calls>>

-------------------------------------------------------------------------------
ManagerNext == \E p \in Phones :
  PushPhone(p) \/ StartActuator(p) \/ \E op \in {"code", "lo", "q"} : Push(p, op)

CallNext == \E t \in threads : CallStart(t) \/ CallSend(t)

RunNext(a) == RunFails(a) \/ RunCreate(a) \/ RunAssign(a) \/ RunLoop(a) \/ RunAwait(a)
              \/ RunCommands(a) \/ RunTake(a) \/ RunQuit(a)

ReceiverNext ==
  \/ \E c \in Client : \/ ReceiveWaiting(c) \/ ReceiveWaitCode(c) \/ ReceiveReady(c)
                       \/ ReceiveClosing(c) \/ ReceiveClosed(c)
  \/ Signal \/ Recreate

TdlibNext(c) == TdlibAnswers(c) \/ TdlibLogsOut(c) \/ TdlibCloses(c)

Next ==
  \/ ManagerNext \/ CallNext \/ ReceiverNext
  \/ \E a \in Actuator : RunNext(a) \/ CodeArrived(a) \/ CodeTimeout(a)
  \/ \E c \in Client : TdlibNext(c)

Spec == Init /\ [][Next]_vars

(* Every thread runs on; a client that is being closed is closed by TDLib.    *)
(* Calls end, and a client closes once: one fairness each is one for every one. *)
Fairness ==
  /\ WF_vars(CallNext) /\ WF_vars(ReceiverNext)
  /\ WF_vars(\E c \in Client : TdlibCloses(c))
  /\ \A a \in Actuator : WF_vars(RunNext(a))

FairSpec == Spec /\ Fairness

-------------------------------------------------------------------------------
TypeOK ==
  /\ actuatorMap \in [Phones -> Actuator \cup {NoActuator}]
  /\ starting \in [Phones -> 0 .. MaxActuators]
  /\ phone \in [Actuator -> Phones \cup {NoPhone}]
  /\ pc \in [Actuator -> {"none", "create", "failed", "assign", "loop", "await", "awaiting",
                         "commands", "take", "quit", "done"}]
  /\ authorizationState \in [Actuator -> AuthorizationStates]
  /\ client \in [Actuator -> Client \cup {NoClient}]
  /\ \A set \in {haveAuthorization, needQuit, canQuit, code, waitCode} :
       set \subseteq Actuator
  /\ commandQueue \in [Actuator -> Seq({"lo", "q"})]
  /\ receiver \in [of : Actuator \cup {NoActuator}, at : {"idle", "signal", "create"}]
  /\ threads \subseteq [of : Actuator, op : {"code", "lo", "q", "close"}, at : {"start", "send"}]
  /\ tdlib \in [Client -> AuthorizationStates]
  /\ requests \in [Client -> SUBSET Waiting]
  /\ updates \in [Client -> Seq(AuthorizationStates \cup {"Error"})]
  /\ calls \in 0 .. MaxCalls

(* The flag that run() tests before each take() ends with the session: it is   *)
(* set only while a client of the actuator is logged in or the receiver thread *)
(* has not yet been told that it closes, whichever of an actuator's clients    *)
(* ends, and an error that repeats an old state does not set it again          *)
(* (Actuator.java:170-179, 222-231 and 705-724).  It does not bound the take() *)
(* itself: one that waits already (585-588) does not test the flag and takes   *)
(* a command queued after the session.                                         *)
LoggedIn(c) == tdlib[c] = "Ready" \/ "Closing" \in Range(updates[c])

FlagEndsWithSession ==
  \A a \in haveAuthorization : \E c \in Client : Owner(c) = a /\ LoggedIn(c)

(* An actuator that has left the map is on its way out: nothing removes it    *)
(* without closing it, except a later actuator of its number that took its    *)
(* place (ActuatorManager.java:28-31 and 45-51, Actuator.java:598).           *)
RemovedActuatorIsClosed ==
  \A a \in Actuator : pc[a] # "none" /\ actuatorMap[phone[a]] # a =>
    \/ a \in needQuit
    \/ \E t \in threads : t.of = a /\ t.op = "close"
    \/ \E b \in Actuator : a < b /\ phone[b] = phone[a]

(* The signal of a login is not lost: run() does not wait for an authorization *)
(* it has (Actuator.java:172-178 and 577-584).                                *)
AuthorizedRunWakesUp ==
  \A a \in Actuator :
    (a \in haveAuthorization /\ pc[a] = "awaiting") ~> (pc[a] # "awaiting")

(* A q whose command is queued while run() is past its await - taking a       *)
(* command or on its way between two - ends run() and frees the number, unless *)
(* a code is checked meanwhile or its error repeats the login.  PastAwait      *)
(* excludes a q given before run() has tested the flag: it clears the flag,    *)
(* run() awaits another login for ever and the number is not freed             *)
(* (Actuator.java:97-110, 229-231, 273-280 and 574-598).                       *)
QuitGiven(a) ==
  /\ authorizationState[a] = "Ready"
  /\ client[a] # NoClient /\ tdlib[client[a]] = "Closing"
  /\ "q" \in Range(commandQueue[a])

PastAwait(a) == pc[a] \in {"loop", "commands", "take"}

NoCodeIsChecked(a) ==
  /\ ~\E t \in threads : t.of = a /\ t.op = "code"
  /\ \A c \in Client : Owner(c) = a =>
       "WaitCode" \notin requests[c] /\ "Error" \notin Range(updates[c])

Ended(a) == pc[a] = "done" /\ a \notin Range(actuatorMap)

QuitEndsSession ==
  \A a \in Actuator : []((QuitGiven(a) /\ PastAwait(a) /\ []NoCodeIsChecked(a)) => <>Ended(a))

(* RepeatPhoneException: a number that is logged in is not logged in again.   *)
OneActuatorPerPhone ==
  \A a, b \in Actuator :
    a # b /\ NoClient \notin {client[a], client[b]} /\ {a, b} \cap needQuit = {} => phone[a] # phone[b]
===============================================================================
