---------------------------- MODULE Actuators_proofs ----------------------------
(***************************************************************************)
(* Proofs about Actuators, for any numbers of phones, actuators, calls and  *)
(* clients, and about the ChatList of one actuator, for any chats, orders,  *)
(* sessions and commands.                                                   *)
(***************************************************************************)
EXTENDS Actuators, ChatList, FiniteSetTheorems, TLAPS

(* An actuator that has not been started has no number and no client, and     *)
(* nothing happens to it; the field `client` holds a client of its own.       *)
NotStartedIsUntouched ==
  /\ \A a \in Actuator : IF pc[a] = "none"
                        THEN phone[a] = NoPhone /\ client[a] = NoClient /\ a \notin waitCode
                        ELSE phone[a] \in Phones
  /\ \A c \in Client : pc[Owner(c)] = "none" =>
       tdlib[c] = "none" /\ requests[c] = {} /\ updates[c] = << >>
  /\ \A a \in Actuator : client[a] # NoClient => Owner(client[a]) = a
  /\ receiver.at # "idle" => receiver.of \in Actuator /\ pc[receiver.of] # "none"

TypeInv == TypeOK /\ NotStartedIsUntouched

-------------------------------------------------------------------------------
(* Types                                                                     *)

LEMMA StartedIsFinite ==
  /\ IsFiniteSet({a \in Actuator : pc[a] # "none"})
  /\ Cardinality({a \in Actuator : pc[a] # "none"}) \in Nat
<1>1. MaxActuators \in Nat  BY ActuatorsAssumption
<1>2. IsFiniteSet(Actuator)  BY <1>1, FS_Interval DEF Actuator
<1>. QED  BY <1>2, FS_Subset, FS_CardinalityType

(* What a client reports.                                                    *)
Event == AuthorizationStates \cup {"Error"}

LEMMA OwnerType == ASSUME NEW c \in Client PROVE Owner(c) \in Actuator /\ c # NoClient
<1>1. PICK a \in Actuator, n \in 1 .. MaxClients : c = <<a, n>>  BY DEF Client
<1>2. 0 \notin Actuator  BY ActuatorsAssumption DEF Actuator
<1>. QED  BY <1>1, <1>2 DEF Owner, NoClient, NoActuator

LEMMA ReportType ==
  ASSUME updates \in [Client -> Seq(Event)], NEW c, NEW e \in Event, Report(c, e)
  PROVE  updates' \in [Client -> Seq(Event)]
<1>1. CASE c \in Client
  <2>1. Append(updates[c], e) \in Seq(Event)  BY <1>1
  <2>. QED  BY <2>1 DEF Report
<1>2. CASE c \notin Client
  BY <1>2 DEF Report
<1>. QED  BY <1>1, <1>2

LEMMA CloseType ==
  ASSUME TypeOK, NEW c, CloseOrLogOut(c)
  PROVE  tdlib' \in [Client -> AuthorizationStates] /\ updates' \in [Client -> Seq(Event)]
<1>1. CASE Report(c, "Closing") /\ tdlib' = [tdlib EXCEPT ![c] = "Closing"]
  <2>1. updates' \in [Client -> Seq(Event)]
    BY <1>1, ReportType DEF TypeOK, Event, AuthorizationStates
  <2>. QED  BY <1>1, <2>1 DEF TypeOK, AuthorizationStates
<1>2. CASE UNCHANGED <<tdlib, updates>>
  BY <1>2 DEF TypeOK, Event
<1>. QED  BY <1>1, <1>2 DEF CloseOrLogOut

LEMMA ReceiveType ==
  ASSUME TypeOK, NEW c \in Client, NEW S, Receive(c, S)
  PROVE  /\ receiver = Idle /\ updates[c] # << >> /\ HandledState(c) \in S \cap AuthorizationStates
         /\ authorizationState' = [authorizationState EXCEPT ![Owner(c)] = HandledState(c)]
         /\ authorizationState' \in [Actuator -> AuthorizationStates]
         /\ updates' \in [Client -> Seq(Event)]
         /\ updates' = [updates EXCEPT ![c] = Tail(@)]
<1>1. updates[c] \in Seq(Event) /\ updates[c] # << >>  BY DEF TypeOK, Receive, Event
<1>2. Head(updates[c]) \in Event /\ Tail(updates[c]) \in Seq(Event)  BY <1>1
<1>3. Owner(c) \in Actuator  BY OwnerType
<1>4. HandledState(c) \in AuthorizationStates
  BY <1>2, <1>3 DEF HandledState, TypeOK, Event
<1>. QED  BY <1>2, <1>3, <1>4 DEF Receive, TypeOK, Event

LEMMA RemoveType ==
  ASSUME TypeOK, NEW p \in Phones, RemoveAndClose(p)
  PROVE  /\ actuatorMap' \in [Phones -> Actuator \cup {NoActuator}]
         /\ threads' \subseteq [of : Actuator, op : {"code", "lo", "q", "close"}, at : {"start", "send"}]
  BY DEF TypeOK, RemoveAndClose, Thread

LEMMA TypeStep == TypeInv /\ [Next]_vars => TypeOK'
<1> SUFFICES ASSUME TypeInv, [Next]_vars PROVE TypeOK'
  OBVIOUS
<1>a. TypeOK  BY DEF TypeInv
<1>b. \A a \in Actuator : pc[a] # "none" => phone[a] \in Phones
  BY DEF TypeInv, NotStartedIsUntouched
<1>c. \A a \in waitCode : pc[a] # "none"
  BY <1>a DEF TypeInv, NotStartedIsUntouched, TypeOK
<1>1. ASSUME NEW p \in Phones, PushPhone(p) PROVE TypeOK'
  <2>1. starting' \in [Phones -> 0 .. MaxActuators]
    BY <1>a, <1>1, StartedIsFinite, ActuatorsAssumption DEF TypeOK, PushPhone
  <2>. QED  BY <1>a, <1>1, <2>1 DEF TypeOK, PushPhone, tdlib_vars, flag_vars
<1>2. ASSUME NEW p \in Phones, StartActuator(p) PROVE TypeOK'
  BY <1>a, <1>2, ActuatorsAssumption DEF TypeOK, StartActuator, tdlib_vars, flag_vars
<1>3. ASSUME NEW p \in Phones, NEW op \in {"code", "lo", "q"}, Push(p, op) PROVE TypeOK'
  BY <1>a, <1>3, ActuatorsAssumption DEF TypeOK, Push, Thread, NoActuator, manager_vars, tdlib_vars, flag_vars
<1>4. ASSUME NEW t \in threads, CallStart(t) PROVE TypeOK'
  <2>1. t \in [of : Actuator, op : {"code", "lo", "q", "close"}, at : {"start", "send"}]
    BY <1>a DEF TypeOK
  <2>2. threads' \subseteq [of : Actuator, op : {"code", "lo", "q", "close"}, at : {"start", "send"}]
    <3>1. [t EXCEPT !.at = "send"]
            \in [of : Actuator, op : {"code", "lo", "q", "close"}, at : {"start", "send"}]
      BY <2>1
    <3>. QED  BY <1>a, <1>4, <3>1 DEF TypeOK, CallStart
  <2>3. commandQueue' \in [Actuator -> Seq({"lo", "q"})]
    <3>1. Append(commandQueue[t.of], "lo") \in Seq({"lo", "q"})  BY <1>a, <2>1 DEF TypeOK
    <3>2. [commandQueue EXCEPT ![t.of] = Append(@, "lo")] \in [Actuator -> Seq({"lo", "q"})]
      BY <1>a, <3>1 DEF TypeOK
    <3>3. \/ commandQueue' = commandQueue
          \/ commandQueue' = [commandQueue EXCEPT ![t.of] = Append(@, "lo")]
      BY <1>4 DEF CallStart
    <3>. QED  BY <1>a, <3>2, <3>3 DEF TypeOK
  <2>4. \A set \in {haveAuthorization', needQuit', canQuit', code', waitCode'} : set \subseteq Actuator
    BY <1>a, <1>4, <2>1 DEF TypeOK, CallStart
  <2>. QED  BY <1>a, <1>4, <2>2, <2>3, <2>4 DEF TypeOK, CallStart, manager_vars, tdlib_vars
<1>5. ASSUME NEW t \in threads, CallSend(t) PROVE TypeOK'
  <2>1. t \in [of : Actuator, op : {"code", "lo", "q", "close"}, at : {"start", "send"}]
    BY <1>a DEF TypeOK
  <2>2. commandQueue' \in [Actuator -> Seq({"lo", "q"})]
    <3>1. Append(commandQueue[t.of], "q") \in Seq({"lo", "q"})  BY <1>a, <2>1 DEF TypeOK
    <3>. QED  BY <1>a, <1>5, <2>1, <3>1 DEF TypeOK, CallSend
  <2>3. tdlib' \in [Client -> AuthorizationStates] /\ updates' \in [Client -> Seq(Event)]
    <3>1. CASE UNCHANGED <<tdlib, updates>>  BY <1>a, <3>1 DEF TypeOK, Event
    <3>2. CASE \E c : CloseOrLogOut(c)  BY <1>a, <3>2, CloseType
    <3>. QED  BY <1>5, <3>1, <3>2 DEF CallSend
  <2>4. requests' \in [Client -> SUBSET Waiting]
    BY <1>a, <1>5 DEF TypeOK, CallSend, Waiting
  <2>. QED  BY <1>a, <1>5, <2>2, <2>3, <2>4 DEF TypeOK, CallSend, manager_vars, flag_vars, Event
<1>6. ASSUME NEW a \in Actuator, RunFails(a) PROVE TypeOK'
  BY <1>a, <1>6 DEF TypeOK, RunFails, Goto, manager_vars, tdlib_vars, flag_vars
<1>7. ASSUME NEW a \in Actuator, RunCreate(a) PROVE TypeOK'
  <2>1. PICK c \in Client : CreateNativeClient(c)  BY <1>7 DEF RunCreate
  <2>2. updates' \in [Client -> Seq(Event)]
    BY <1>a, <2>1, ReportType DEF TypeOK, CreateNativeClient, Event, AuthorizationStates, Live, Waiting
  <2>. QED  BY <1>a, <1>7, <2>1, <2>2
    DEF TypeOK, RunCreate, Goto, CreateNativeClient, Event, AuthorizationStates, Live, Waiting, manager_vars, flag_vars
<1>8. ASSUME NEW a \in Actuator, RunAssign(a) PROVE TypeOK'
  BY <1>a, <1>8 DEF TypeOK, RunAssign, Goto, Created, manager_vars, tdlib_vars, flag_vars
<1>9. ASSUME NEW a \in Actuator, RunLoop(a) PROVE TypeOK'
  BY <1>a, <1>9 DEF TypeOK, RunLoop, Goto, manager_vars, tdlib_vars, flag_vars
<1>10. ASSUME NEW a \in Actuator, RunAwait(a) PROVE TypeOK'
  BY <1>a, <1>10 DEF TypeOK, RunAwait, Goto, manager_vars, tdlib_vars, flag_vars
<1>11. ASSUME NEW a \in Actuator, RunCommands(a) PROVE TypeOK'
  BY <1>a, <1>11 DEF TypeOK, RunCommands, Goto, manager_vars, tdlib_vars, flag_vars
<1>12. ASSUME NEW a \in Actuator, RunTake(a) PROVE TypeOK'
  <2>1. commandQueue' \in [Actuator -> Seq({"lo", "q"})]
    <3>1. Tail(commandQueue[a]) \in Seq({"lo", "q"})  BY <1>a, <1>12 DEF TypeOK, RunTake
    <3>. QED  BY <1>a, <1>12, <3>1 DEF TypeOK, RunTake
  <2>2. tdlib' \in [Client -> AuthorizationStates] /\ updates' \in [Client -> Seq(Event)]
    BY <1>a, <1>12, CloseType DEF RunTake
  <2>3. \A set \in {haveAuthorization', needQuit', canQuit', code', waitCode'} : set \subseteq Actuator
    BY <1>a, <1>12 DEF TypeOK, RunTake
  <2>. QED  BY <1>a, <1>12, <2>1, <2>2, <2>3 DEF TypeOK, RunTake, Goto, Event, manager_vars
<1>13. ASSUME NEW a \in Actuator, RunQuit(a) PROVE TypeOK'
  <2>1. phone[a] \in Phones  BY <1>b, <1>13 DEF RunQuit, Goto
  <2>. QED  BY <1>a, <1>13, <2>1, RemoveType DEF TypeOK, RunQuit, Goto, manager_vars, tdlib_vars, flag_vars
<1>14. ASSUME NEW a \in Actuator, CodeArrived(a) PROVE TypeOK'
  BY <1>a, <1>14 DEF TypeOK, CodeArrived, manager_vars, tdlib_vars, flag_vars
<1>15. ASSUME NEW a \in Actuator, CodeTimeout(a) PROVE TypeOK'
  <2>1. phone[a] \in Phones  BY <1>b, <1>c, <1>15 DEF CodeTimeout
  <2>. QED  BY <1>a, <1>15, <2>1, RemoveType DEF TypeOK, CodeTimeout, manager_vars, tdlib_vars, flag_vars
<1>16. ASSUME NEW c \in Client, ReceiveWaiting(c) PROVE TypeOK'
  <2>1. PICK S : Receive(c, S) /\ S = {"none", "WaitTdlibParameters", "WaitPhoneNumber"}
    BY <1>16 DEF ReceiveWaiting
  <2>2. HandledState(c) # "none" => HandledState(c) \in Waiting
    BY <2>1 DEF Receive, Waiting
  <2>3. requests' \in [Client -> SUBSET Waiting]
    BY <1>a, <1>16, <2>2 DEF TypeOK, ReceiveWaiting
  <2>. QED  BY <1>a, <1>16, <2>1, <2>3, ReceiveType DEF TypeOK, ReceiveWaiting, Event, manager_vars, flag_vars
<1>17. ASSUME NEW c \in Client, ReceiveWaitCode(c) PROVE TypeOK'
  <2>1. PICK S : Receive(c, S)  BY <1>17 DEF ReceiveWaitCode
  <2>. QED  BY <1>a, <1>17, <2>1, ReceiveType, OwnerType DEF TypeOK, ReceiveWaitCode, Event, manager_vars, flag_vars
<1>18. ASSUME NEW c \in Client, ReceiveReady(c) PROVE TypeOK'
  <2>1. PICK S : Receive(c, S)  BY <1>18 DEF ReceiveReady
  <2>. QED  BY <1>a, <1>18, <2>1, ReceiveType, OwnerType DEF TypeOK, ReceiveReady, Event, manager_vars, flag_vars
<1>19. ASSUME NEW c \in Client, ReceiveClosing(c) PROVE TypeOK'
  <2>1. PICK S : Receive(c, S)  BY <1>19 DEF ReceiveClosing
  <2>. QED  BY <1>a, <1>19, <2>1, ReceiveType, OwnerType DEF TypeOK, ReceiveClosing, Event, manager_vars, flag_vars
<1>20. ASSUME NEW c \in Client, ReceiveClosed(c) PROVE TypeOK'
  <2>1. PICK S : Receive(c, S)  BY <1>20 DEF ReceiveClosed
  <2>. QED  BY <1>a, <1>20, <2>1, ReceiveType, OwnerType DEF TypeOK, ReceiveClosed, Event, manager_vars, flag_vars
<1>21. ASSUME Signal PROVE TypeOK'
  BY <1>a, <1>21 DEF TypeOK, Signal, Idle, NoActuator, manager_vars, tdlib_vars, flag_vars
<1>22. ASSUME Recreate PROVE TypeOK'
  <2>1. PICK c \in Client : CreateNativeClient(c) /\ client' = [client EXCEPT ![receiver.of] = c]
    BY <1>22 DEF Recreate
  <2>2. updates' \in [Client -> Seq(Event)]
    BY <1>a, <2>1, ReportType DEF TypeOK, CreateNativeClient, Event, AuthorizationStates, Live, Waiting
  <2>. QED  BY <1>a, <1>22, <2>1, <2>2
    DEF TypeOK, Recreate, Idle, CreateNativeClient, Event, AuthorizationStates, Live, Waiting, manager_vars, flag_vars
<1>23. ASSUME NEW c \in Client, TdlibAnswers(c) PROVE TypeOK'
  <2>1. tdlib' \in [Client -> AuthorizationStates] /\ updates' \in [Client -> Seq(Event)]
    <3>1. CASE Report(c, "Error") /\ UNCHANGED tdlib
      BY <1>a, <3>1, ReportType DEF TypeOK, Event
    <3>2. CASE \E next \in {"WaitPhoneNumber", "Ready", "WaitCode"} :
                 tdlib' = [tdlib EXCEPT ![c] = next] /\ Report(c, next)
      BY <1>a, <3>2, ReportType DEF TypeOK, Event, AuthorizationStates, Live, Waiting
    <3>3. requests[c] \subseteq Waiting  BY <1>a DEF TypeOK
    <3>. QED  BY <1>23, <3>1, <3>2, <3>3 DEF TdlibAnswers, Waiting
  <2>2. requests' \in [Client -> SUBSET Waiting]  BY <1>a, <1>23 DEF TypeOK, TdlibAnswers
  <2>. QED  BY <1>a, <1>23, <2>1, <2>2 DEF TypeOK, TdlibAnswers, Event, manager_vars, flag_vars
<1>24. ASSUME NEW c \in Client, TdlibLogsOut(c) PROVE TypeOK'
  BY <1>a, <1>24, CloseType DEF TypeOK, TdlibLogsOut, Event, manager_vars, flag_vars
<1>25. ASSUME NEW c \in Client, TdlibCloses(c) PROVE TypeOK'
  <2>1. updates' \in [Client -> Seq(Event)]
    BY <1>a, <1>25, ReportType DEF TypeOK, TdlibCloses, Event, AuthorizationStates
  <2>. QED  BY <1>a, <1>25, <2>1 DEF TypeOK, TdlibCloses, AuthorizationStates, Event, manager_vars, flag_vars
<1>26. ASSUME UNCHANGED vars PROVE TypeOK'
  BY <1>a, <1>26 DEF TypeOK, vars, manager_vars, tdlib_vars, flag_vars
<1>. QED
  BY <1>1, <1>2, <1>3, <1>4, <1>5, <1>6, <1>7, <1>8, <1>9, <1>10, <1>11, <1>12, <1>13, <1>14, <1>15, <1>16, <1>17, <1>18, <1>19, <1>20, <1>21, <1>22, <1>23, <1>24, <1>25, <1>26
     DEF Next, ManagerNext, CallNext, RunNext, ReceiverNext, TdlibNext

(* A step of a started actuator neither starts another nor ends one.          *)
LEMMA StartedStays ==
  ASSUME TypeOK, NEW a, pc[a] # "none", NEW to, to # "none", pc' = [pc EXCEPT ![a] = to]
  PROVE  \A b \in Actuator : pc'[b] = "none" <=> pc[b] = "none"
  BY DEF TypeOK

LEMMA StartStep == TypeInv /\ TypeOK' /\ [Next]_vars => NotStartedIsUntouched'
<1> SUFFICES ASSUME TypeInv, TypeOK', [Next]_vars PROVE NotStartedIsUntouched'
  OBVIOUS
<1>. USE DEF NotStartedIsUntouched
<1>a. TypeOK /\ NotStartedIsUntouched  BY DEF TypeInv
<1>b. \A c \in Client : Owner(c) \in Actuator /\ c # NoClient  BY OwnerType
<1>c. \A c \in Client : pc[Owner(c)] = "none" => tdlib[c] = "none" /\ requests[c] = {} /\ updates[c] = << >>
  BY <1>a
<1>1. ASSUME NEW p \in Phones, PushPhone(p) PROVE NotStartedIsUntouched'
  BY <1>a, <1>1 DEF PushPhone, tdlib_vars
<1>2. ASSUME NEW p \in Phones, StartActuator(p) PROVE NotStartedIsUntouched'
  <2>1. PICK a \in Actuator : /\ pc[a] = "none"
                             /\ phone' = [phone EXCEPT ![a] = p]
                             /\ pc' = [pc EXCEPT ![a] = "create"]
    BY <1>2 DEF StartActuator
  <2>2. \A b \in Actuator : pc'[b] = IF b = a THEN "create" ELSE pc[b]  BY <1>a, <2>1 DEF TypeOK
  <2>3. \A b \in Actuator : phone'[b] = IF b = a THEN p ELSE phone[b]  BY <1>a, <2>1 DEF TypeOK
  <2>. QED  BY <1>a, <1>b, <1>2, <2>2, <2>3 DEF StartActuator, tdlib_vars
<1>3. ASSUME NEW p \in Phones, NEW op \in {"code", "lo", "q"}, Push(p, op) PROVE NotStartedIsUntouched'
  BY <1>a, <1>3 DEF Push, manager_vars, tdlib_vars
<1>4. ASSUME NEW t \in threads, CallStart(t) PROVE NotStartedIsUntouched'
  BY <1>a, <1>4 DEF CallStart, manager_vars, tdlib_vars
<1>5. ASSUME NEW t \in threads, CallSend(t) PROVE NotStartedIsUntouched'
  <2>1. t.of \in Actuator  BY <1>a DEF TypeOK
  <2>2. client[t.of] # NoClient => Owner(client[t.of]) = t.of /\ pc[t.of] # "none"
    BY <1>a, <2>1
  <2>3. \A d \in Client : d # client[t.of] \/ client[t.of] = NoClient =>
          tdlib'[d] = tdlib[d] /\ requests'[d] = requests[d] /\ updates'[d] = updates[d]
    BY <1>a, <1>5 DEF TypeOK, CallSend, CloseOrLogOut, Report
  <2>4. UNCHANGED <<pc, phone, client, waitCode, receiver>>
    BY <1>5 DEF CallSend, manager_vars
  <2>. QED  BY <1>a, <1>b, <2>2, <2>3, <2>4
<1>6. ASSUME NEW a \in Actuator, RunFails(a) PROVE NotStartedIsUntouched'
  <2>1. \A b \in Actuator : pc'[b] = "none" <=> pc[b] = "none"
    BY <1>a, <1>6, StartedStays DEF RunFails, Goto
  <2>. QED  BY <1>a, <1>b, <2>1, <1>6 DEF RunFails, manager_vars, tdlib_vars
<1>7. ASSUME NEW a \in Actuator, RunCreate(a) PROVE NotStartedIsUntouched'
  <2>1. \A b \in Actuator : pc'[b] = "none" <=> pc[b] = "none"
    BY <1>a, <1>7, StartedStays DEF RunCreate, Goto
  <2>2. pc[a] # "none"  BY <1>7 DEF RunCreate, Goto
  <2>3. PICK d \in Client : Owner(d) = a /\ CreateNativeClient(d)  BY <1>7 DEF RunCreate
  <2>4. \A c \in Client \ {d} : tdlib'[c] = tdlib[c] /\ requests'[c] = requests[c] /\ updates'[c] = updates[c]
    BY <1>a, <2>3 DEF TypeOK, CreateNativeClient, Report
  <2>. QED  BY <1>a, <1>b, <2>1, <2>2, <2>3, <2>4, <1>7 DEF RunCreate, manager_vars
<1>8. ASSUME NEW a \in Actuator, RunAssign(a) PROVE NotStartedIsUntouched'
  <2>1. \A b \in Actuator : pc'[b] = "none" <=> pc[b] = "none"
    BY <1>a, <1>8, StartedStays DEF RunAssign, Goto
  <2>2. pc[a] # "none"  BY <1>8 DEF RunAssign, Goto
  <2>3. PICK c \in Created : Owner(c) = a /\ client' = [client EXCEPT ![a] = c]  BY <1>8 DEF RunAssign
  <2>4. \A b \in Actuator : client'[b] = IF b = a THEN c ELSE client[b]
    BY <1>a, <2>3 DEF TypeOK
  <2>. QED  BY <1>a, <1>b, <2>1, <2>2, <2>3, <2>4, <1>8 DEF RunAssign, manager_vars, tdlib_vars
<1>9. ASSUME NEW a \in Actuator, RunLoop(a) PROVE NotStartedIsUntouched'
  <2>1. \A b \in Actuator : pc'[b] = "none" <=> pc[b] = "none"
    BY <1>a, <1>9, StartedStays DEF RunLoop, Goto
  <2>. QED  BY <1>a, <1>b, <2>1, <1>9 DEF RunLoop, manager_vars, tdlib_vars
<1>10. ASSUME NEW a \in Actuator, RunAwait(a) PROVE NotStartedIsUntouched'
  <2>1. \A b \in Actuator : pc'[b] = "none" <=> pc[b] = "none"
    BY <1>a, <1>10, StartedStays DEF RunAwait, Goto
  <2>. QED  BY <1>a, <1>b, <2>1, <1>10 DEF RunAwait, manager_vars, tdlib_vars
<1>11. ASSUME NEW a \in Actuator, RunCommands(a) PROVE NotStartedIsUntouched'
  <2>1. \A b \in Actuator : pc'[b] = "none" <=> pc[b] = "none"
    BY <1>a, <1>11, StartedStays DEF RunCommands, Goto
  <2>. QED  BY <1>a, <1>b, <2>1, <1>11 DEF RunCommands, manager_vars, tdlib_vars
<1>12. ASSUME NEW a \in Actuator, RunTake(a) PROVE NotStartedIsUntouched'
  <2>1. \A b \in Actuator : pc'[b] = "none" <=> pc[b] = "none"
    BY <1>a, <1>12, StartedStays DEF RunTake, Goto
  <2>2. client[a] # NoClient => Owner(client[a]) = a /\ pc[a] # "none"
    BY <1>a
  <2>3. \A d \in Client : d # client[a] \/ client[a] = NoClient =>
          tdlib'[d] = tdlib[d] /\ requests'[d] = requests[d] /\ updates'[d] = updates[d]
    BY <1>a, <1>12 DEF TypeOK, RunTake, CloseOrLogOut, Report
  <2>4. UNCHANGED <<phone, client, waitCode, receiver>>
    BY <1>12 DEF RunTake, manager_vars
  <2>. QED  BY <1>a, <1>b, <2>1, <2>2, <2>3, <2>4
<1>13. ASSUME NEW a \in Actuator, RunQuit(a) PROVE NotStartedIsUntouched'
  <2>1. \A b \in Actuator : pc'[b] = "none" <=> pc[b] = "none"
    BY <1>a, <1>13, StartedStays DEF RunQuit, Goto
  <2>. QED  BY <1>a, <1>b, <2>1, <1>13 DEF RunQuit, manager_vars, tdlib_vars
<1>14. ASSUME NEW a \in Actuator, CodeArrived(a) PROVE NotStartedIsUntouched'
  BY <1>a, <1>14 DEF CodeArrived, manager_vars, tdlib_vars
<1>15. ASSUME NEW a \in Actuator, CodeTimeout(a) PROVE NotStartedIsUntouched'
  BY <1>a, <1>15 DEF CodeTimeout, tdlib_vars
<1>16. ASSUME NEW c \in Client, ReceiveWaiting(c) PROVE NotStartedIsUntouched'
  <2>1. PICK S : Receive(c, S)  BY <1>16 DEF ReceiveWaiting
  <2>2. updates[c] # << >> /\ updates' = [updates EXCEPT ![c] = Tail(updates[c])] /\ receiver = Idle
    BY <2>1 DEF Receive
  <2>3. pc[Owner(c)] # "none" /\ Owner(c) \in Actuator  BY <1>b, <1>c, <2>2
  <2>4. \A d \in Client : pc[Owner(d)] = "none" => updates'[d] = updates[d]
    BY <1>a, <2>2, <2>3 DEF TypeOK
  <2>5. client[Owner(c)] # NoClient => Owner(client[Owner(c)]) = Owner(c)  BY <1>a, <2>3
  <2>6. \A d \in Client : pc[Owner(d)] = "none" => requests'[d] = requests[d]
    BY <1>a, <2>3, <2>5, <1>16 DEF TypeOK, ReceiveWaiting
  <2>. QED  BY <1>a, <1>b, <2>2, <2>3, <2>4, <1>16, <2>6 DEF ReceiveWaiting, Idle, manager_vars
<1>17. ASSUME NEW c \in Client, ReceiveWaitCode(c) PROVE NotStartedIsUntouched'
  <2>1. PICK S : Receive(c, S)  BY <1>17 DEF ReceiveWaitCode
  <2>2. updates[c] # << >> /\ updates' = [updates EXCEPT ![c] = Tail(updates[c])] /\ receiver = Idle
    BY <2>1 DEF Receive
  <2>3. pc[Owner(c)] # "none" /\ Owner(c) \in Actuator  BY <1>b, <1>c, <2>2
  <2>4. \A d \in Client : pc[Owner(d)] = "none" => updates'[d] = updates[d]
    BY <1>a, <2>2, <2>3 DEF TypeOK
  <2>. QED  BY <1>a, <1>b, <2>2, <2>3, <2>4, <1>17 DEF ReceiveWaitCode, Idle, manager_vars
<1>18. ASSUME NEW c \in Client, ReceiveReady(c) PROVE NotStartedIsUntouched'
  <2>1. PICK S : Receive(c, S)  BY <1>18 DEF ReceiveReady
  <2>2. updates[c] # << >> /\ updates' = [updates EXCEPT ![c] = Tail(updates[c])] /\ receiver = Idle
    BY <2>1 DEF Receive
  <2>3. pc[Owner(c)] # "none" /\ Owner(c) \in Actuator  BY <1>b, <1>c, <2>2
  <2>4. \A d \in Client : pc[Owner(d)] = "none" => updates'[d] = updates[d]
    BY <1>a, <2>2, <2>3 DEF TypeOK
  <2>. QED  BY <1>a, <1>b, <2>2, <2>3, <2>4, <1>18 DEF ReceiveReady, Idle, manager_vars
<1>19. ASSUME NEW c \in Client, ReceiveClosing(c) PROVE NotStartedIsUntouched'
  <2>1. PICK S : Receive(c, S)  BY <1>19 DEF ReceiveClosing
  <2>2. updates[c] # << >> /\ updates' = [updates EXCEPT ![c] = Tail(updates[c])] /\ receiver = Idle
    BY <2>1 DEF Receive
  <2>3. pc[Owner(c)] # "none" /\ Owner(c) \in Actuator  BY <1>b, <1>c, <2>2
  <2>4. \A d \in Client : pc[Owner(d)] = "none" => updates'[d] = updates[d]
    BY <1>a, <2>2, <2>3 DEF TypeOK
  <2>. QED  BY <1>a, <1>b, <2>2, <2>3, <2>4, <1>19 DEF ReceiveClosing, Idle, manager_vars
<1>20. ASSUME NEW c \in Client, ReceiveClosed(c) PROVE NotStartedIsUntouched'
  <2>1. PICK S : Receive(c, S)  BY <1>20 DEF ReceiveClosed
  <2>2. updates[c] # << >> /\ updates' = [updates EXCEPT ![c] = Tail(updates[c])] /\ receiver = Idle
    BY <2>1 DEF Receive
  <2>3. pc[Owner(c)] # "none" /\ Owner(c) \in Actuator  BY <1>b, <1>c, <2>2
  <2>4. \A d \in Client : pc[Owner(d)] = "none" => updates'[d] = updates[d]
    BY <1>a, <2>2, <2>3 DEF TypeOK
  <2>. QED  BY <1>a, <1>b, <2>2, <2>3, <2>4, <1>20 DEF ReceiveClosed, Idle, manager_vars
<1>21. ASSUME Signal PROVE NotStartedIsUntouched'
  <2>1. receiver.of \in Actuator /\ pc[receiver.of] # "none"  BY <1>a, <1>21 DEF Signal
  <2>2. \A b \in Actuator : pc'[b] = "none" <=> pc[b] = "none"
    BY <1>a, <1>21, <2>1, StartedStays DEF Signal
  <2>. QED  BY <1>a, <1>b, <1>21, <2>2 DEF Signal, Idle, manager_vars, tdlib_vars
<1>22. ASSUME Recreate PROVE NotStartedIsUntouched'
  <2>1. receiver.of \in Actuator /\ pc[receiver.of] # "none"  BY <1>a, <1>22 DEF Recreate
  <2>2. PICK d \in Client : /\ Owner(d) = receiver.of /\ CreateNativeClient(d)
                           /\ client' = [client EXCEPT ![receiver.of] = d]
    BY <1>22 DEF Recreate
  <2>3. \A c \in Client \ {d} : tdlib'[c] = tdlib[c] /\ requests'[c] = requests[c] /\ updates'[c] = updates[c]
    BY <1>a, <2>2 DEF TypeOK, CreateNativeClient, Report
  <2>4. \A b \in Actuator : client'[b] = IF b = receiver.of THEN d ELSE client[b]
    BY <1>a, <2>2 DEF TypeOK
  <2>. QED  BY <1>a, <1>b, <2>1, <2>2, <2>3, <2>4, <1>22 DEF Recreate, Idle, manager_vars
<1>23. ASSUME NEW c \in Client, TdlibAnswers(c) PROVE NotStartedIsUntouched'
  <2>1. pc[Owner(c)] # "none"
    <3>1. requests[c] # {}  BY <1>23 DEF TdlibAnswers
    <3>. QED  BY <1>c, <3>1
  <2>2. \A d \in Client : d # c =>
          tdlib'[d] = tdlib[d] /\ requests'[d] = requests[d] /\ updates'[d] = updates[d]
    BY <1>a, <1>23 DEF TypeOK, TdlibAnswers, CloseOrLogOut, Report
  <2>. QED  BY <1>a, <2>1, <2>2, <1>23 DEF TdlibAnswers, manager_vars
<1>24. ASSUME NEW c \in Client, TdlibLogsOut(c) PROVE NotStartedIsUntouched'
  <2>1. pc[Owner(c)] # "none"
    <3>1. tdlib[c] # "none"  BY <1>24 DEF TdlibLogsOut
    <3>. QED  BY <1>c, <3>1
  <2>2. \A d \in Client : d # c =>
          tdlib'[d] = tdlib[d] /\ requests'[d] = requests[d] /\ updates'[d] = updates[d]
    BY <1>a, <1>24 DEF TypeOK, TdlibLogsOut, CloseOrLogOut, Report
  <2>. QED  BY <1>a, <2>1, <2>2, <1>24 DEF TdlibLogsOut, manager_vars
<1>25. ASSUME NEW c \in Client, TdlibCloses(c) PROVE NotStartedIsUntouched'
  <2>1. pc[Owner(c)] # "none"
    <3>1. tdlib[c] # "none"  BY <1>25 DEF TdlibCloses
    <3>. QED  BY <1>c, <3>1
  <2>2. \A d \in Client : d # c =>
          tdlib'[d] = tdlib[d] /\ requests'[d] = requests[d] /\ updates'[d] = updates[d]
    BY <1>a, <1>25 DEF TypeOK, TdlibCloses, CloseOrLogOut, Report
  <2>. QED  BY <1>a, <2>1, <2>2, <1>25 DEF TdlibCloses, manager_vars
<1>26. ASSUME UNCHANGED vars PROVE NotStartedIsUntouched'
  BY <1>a, <1>26 DEF vars, manager_vars, tdlib_vars
<1>. QED
  BY <1>1, <1>2, <1>3, <1>4, <1>5, <1>6, <1>7, <1>8, <1>9, <1>10, <1>11, <1>12, <1>13, <1>14, <1>15, <1>16, <1>17, <1>18, <1>19, <1>20, <1>21, <1>22, <1>23, <1>24, <1>25, <1>26
     DEF Next, ManagerNext, CallNext, RunNext, ReceiverNext, TdlibNext

LEMMA TypeInvariant == Spec => []TypeInv
<1>1. Init => TypeInv
  <2>1. Init => TypeOK
    BY ActuatorsAssumption DEF Init, TypeOK, Idle, NoActuator, NoClient, AuthorizationStates
  <2>2. Init => NotStartedIsUntouched
    BY OwnerType DEF Init, NotStartedIsUntouched, Idle
  <2>. QED  BY <2>1, <2>2 DEF TypeInv
<1>2. TypeInv /\ [Next]_vars => TypeInv'
  BY TypeStep, StartStep DEF TypeInv
<1>. QED  BY <1>1, <1>2, PTL DEF Spec

(* Every variable keeps its type, whichever threads and clients interleave     *)
(* (Actuator.java:28-62, ActuatorManager.java:10).                             *)
THEOREM TypeCorrect == Spec => []TypeOK
<1>1. TypeInv => TypeOK  BY DEF TypeInv
<1>. QED  BY <1>1, TypeInvariant, PTL

-------------------------------------------------------------------------------
(* Authorization                                                             *)

(* The end of a session stands in the queue behind its beginning, unless the  *)
(* session goes on.                                                          *)
Covered(s, state) ==
  \A i \in DOMAIN s : s[i] = "Ready" =>
    state = "Ready" \/ \E j \in DOMAIN s : i < j /\ s[j] = "Closing"

SessionInv ==
  /\ \A c \in Client : Covered(updates[c], tdlib[c])
  /\ \A a \in Actuator : (a \in haveAuthorization \/ authorizationState[a] = "Ready") =>
       \E c \in Client : Owner(c) = a /\ LoggedIn(c)

LEMMA CoveredAppend ==
  ASSUME NEW s \in Seq(Event), NEW x, NEW e, NEW y, Covered(s, x),
         x = "Ready" => y = "Ready" \/ e = "Closing",
         e = "Ready" => y = "Ready"
  PROVE  /\ Covered(Append(s, e), y)
         /\ "Closing" \in Range(s) \/ e = "Closing" => "Closing" \in Range(Append(s, e))
<1>1. /\ DOMAIN s = 1 .. Len(s) /\ DOMAIN Append(s, e) = 1 .. Len(s) + 1 /\ Len(s) \in Nat
      /\ \A i \in 1 .. Len(s) : Append(s, e)[i] = s[i]
      /\ Append(s, e)[Len(s) + 1] = e
  OBVIOUS
<1>2. Covered(Append(s, e), y)
  BY <1>1 DEF Covered
<1>3. "Closing" \in Range(s) \/ e = "Closing" => "Closing" \in Range(Append(s, e))
  BY <1>1 DEF Range
<1>. QED  BY <1>2, <1>3

LEMMA CoveredTail ==
  ASSUME NEW s \in Seq(Event), s # << >>, NEW x, Covered(s, x)
  PROVE  /\ Covered(Tail(s), x)
         /\ Head(s) = "Ready" => x = "Ready" \/ "Closing" \in Range(Tail(s))
         /\ Head(s) # "Closing" /\ "Closing" \in Range(s) => "Closing" \in Range(Tail(s))
<1>1. /\ DOMAIN s = 1 .. Len(s) /\ DOMAIN Tail(s) = 1 .. Len(s) - 1 /\ Len(s) \in Nat \ {0}
      /\ \A i \in 1 .. Len(s) - 1 : Tail(s)[i] = s[i + 1]
      /\ Head(s) = s[1]
  OBVIOUS
<1>2. ASSUME NEW j \in DOMAIN s, s[j] = "Closing", j # 1
      PROVE  j - 1 \in DOMAIN Tail(s) /\ Tail(s)[j - 1] = "Closing"
  BY <1>1, <1>2
<1>3. Covered(Tail(s), x)
  <2> SUFFICES ASSUME NEW i \in DOMAIN Tail(s), Tail(s)[i] = "Ready", x # "Ready"
               PROVE  \E j \in DOMAIN Tail(s) : i < j /\ Tail(s)[j] = "Closing"
    BY DEF Covered
  <2>1. i + 1 \in DOMAIN s /\ s[i + 1] = "Ready" /\ i \in Nat  BY <1>1
  <2>2. PICK j \in DOMAIN s : i + 1 < j /\ s[j] = "Closing"  BY <2>1 DEF Covered
  <2>3. j # 1 /\ i < j - 1  BY <1>1, <2>1, <2>2
  <2>. QED  BY <1>2, <2>2, <2>3
<1>4. Head(s) = "Ready" => x = "Ready" \/ "Closing" \in Range(Tail(s))
  <2> SUFFICES ASSUME s[1] = "Ready", x # "Ready" PROVE "Closing" \in Range(Tail(s))
    BY <1>1
  <2>1. 1 \in DOMAIN s  BY <1>1
  <2>2. PICK j \in DOMAIN s : 1 < j /\ s[j] = "Closing"  BY <2>1 DEF Covered
  <2>. QED  BY <1>2, <2>2 DEF Range
<1>5. Head(s) # "Closing" /\ "Closing" \in Range(s) => "Closing" \in Range(Tail(s))
  BY <1>1, <1>2 DEF Range
<1>. QED  BY <1>3, <1>4, <1>5

(* What TDLib reports never hides a session, nor its end.                     *)
LEMMA ReportKeeps ==
  ASSUME TypeOK, \A d \in Client : Covered(updates[d], tdlib[d]),
         NEW c \in Client, NEW e, NEW y, Report(c, e), tdlib' = [tdlib EXCEPT ![c] = y],
         tdlib[c] = "Ready" => y = "Ready" \/ e = "Closing", e = "Ready" => y = "Ready"
  PROVE  \A d \in Client : Covered(updates'[d], tdlib'[d]) /\ (LoggedIn(d) => LoggedIn(d)')
<1>1. updates[c] \in Seq(Event)  BY DEF TypeOK, Event
<1>2. updates'[c] = Append(updates[c], e) /\ tdlib'[c] = y
  BY DEF TypeOK, Report
<1>3. Covered(updates'[c], tdlib'[c]) /\ (LoggedIn(c) => LoggedIn(c)')
  BY <1>1, <1>2, CoveredAppend DEF LoggedIn
<1>4. \A d \in Client \ {c} : updates'[d] = updates[d] /\ tdlib'[d] = tdlib[d]
  BY DEF TypeOK, Report
<1>. QED  BY <1>3, <1>4 DEF LoggedIn

LEMMA CloseKeeps ==
  ASSUME TypeOK, \A d \in Client : Covered(updates[d], tdlib[d]),
         NEW c \in Client \cup {NoClient}, CloseOrLogOut(c)
  PROVE  \A d \in Client : Covered(updates'[d], tdlib'[d]) /\ (LoggedIn(d) => LoggedIn(d)')
<1>1. CASE c # NoClient /\ tdlib[c] \in Live
  BY <1>1, ReportKeeps, "Closing" # "Ready" DEF CloseOrLogOut
<1>2. CASE UNCHANGED <<tdlib, updates>>
  BY <1>2 DEF LoggedIn
<1>. QED  BY <1>1, <1>2 DEF CloseOrLogOut

LEMMA SessionKept ==
  ASSUME SessionInv, haveAuthorization' \subseteq haveAuthorization,
         authorizationState' = authorizationState,
         \A d \in Client : Covered(updates'[d], tdlib'[d]) /\ (LoggedIn(d) => LoggedIn(d)')
  PROVE  SessionInv'
  BY DEF SessionInv

(* The receiver thread takes the head of a queue.                            *)
LEMMA ReceiveKeeps ==
  ASSUME TypeOK, SessionInv, NEW c \in Client, NEW S, Receive(c, S), UNCHANGED tdlib
  PROVE  /\ \A d \in Client : Covered(updates'[d], tdlib'[d])
         /\ Head(updates[c]) # "Closing" => \A d \in Client : LoggedIn(d) => LoggedIn(d)'
         /\ Head(updates[c]) = "Ready" => LoggedIn(c)'
         /\ HandledState(c) # "Closing" => Head(updates[c]) # "Closing"
         /\ HandledState(c) = "Ready" =>
              Head(updates[c]) = "Ready" \/ authorizationState[Owner(c)] = "Ready"
         /\ \A a \in Actuator : authorizationState'[a] =
              IF a = Owner(c) THEN HandledState(c) ELSE authorizationState[a]
<1>1. updates[c] \in Seq(Event) /\ updates[c] # << >>  BY DEF TypeOK, Event, Receive
<1>2. updates'[c] = Tail(updates[c]) /\ \A d \in Client \ {c} : updates'[d] = updates[d]
  BY DEF TypeOK, Receive
<1>3. Covered(updates[c], tdlib[c])  BY DEF SessionInv
<1>4. /\ Covered(updates'[c], tdlib'[c])
      /\ Head(updates[c]) # "Closing" => (LoggedIn(c) => LoggedIn(c)')
      /\ Head(updates[c]) = "Ready" => LoggedIn(c)'
  BY <1>1, <1>2, <1>3, CoveredTail DEF LoggedIn
<1>5. \A d \in Client \ {c} : Covered(updates'[d], tdlib'[d]) /\ (LoggedIn(d) => LoggedIn(d)')
  BY <1>2 DEF SessionInv, LoggedIn
<1>6. \A a \in Actuator : authorizationState'[a] =
        IF a = Owner(c) THEN HandledState(c) ELSE authorizationState[a]
  BY DEF TypeOK, Receive
<1>7. HandledState(c) = IF Head(updates[c]) = "Error" THEN authorizationState[Owner(c)]
                                                      ELSE Head(updates[c])
  BY DEF HandledState
<1>. QED  BY <1>4, <1>5, <1>6, <1>7

LEMMA SessionStep == TypeInv /\ SessionInv /\ [Next]_vars => SessionInv'
<1> SUFFICES ASSUME TypeInv, SessionInv, [Next]_vars PROVE SessionInv'
  OBVIOUS
<1>a. TypeOK  BY DEF TypeInv
<1>b. \A d \in Client : Covered(updates[d], tdlib[d])  BY DEF SessionInv
<1>c. \A c \in Client : Owner(c) \in Actuator /\ c # NoClient  BY OwnerType
<1>d. ASSUME haveAuthorization' \subseteq haveAuthorization,
             UNCHANGED <<authorizationState, tdlib, updates>>
      PROVE  SessionInv'
  BY <1>b, <1>d, SessionKept DEF LoggedIn
<1>1. ASSUME NEW p \in Phones, PushPhone(p) PROVE SessionInv'
  BY <1>d, <1>1 DEF PushPhone, tdlib_vars, flag_vars
<1>2. ASSUME NEW p \in Phones, StartActuator(p) PROVE SessionInv'
  BY <1>d, <1>2 DEF StartActuator, tdlib_vars, flag_vars
<1>3. ASSUME NEW p \in Phones, NEW op \in {"code", "lo", "q"}, Push(p, op) PROVE SessionInv'
  BY <1>d, <1>3 DEF Push, tdlib_vars, flag_vars
<1>4. ASSUME NEW t \in threads, CallStart(t) PROVE SessionInv'
  BY <1>d, <1>4 DEF CallStart, tdlib_vars
<1>5. ASSUME NEW t \in threads, CallSend(t) PROVE SessionInv'
  <2>1. \A d \in Client : Covered(updates'[d], tdlib'[d]) /\ (LoggedIn(d) => LoggedIn(d)')
    <3>1. CASE UNCHANGED <<tdlib, updates>>  BY <1>b, <3>1 DEF LoggedIn
    <3>2. CASE \E c \in Client \cup {NoClient} : CloseOrLogOut(c)
      BY <1>a, <1>b, <3>2, CloseKeeps
    <3>3. client[t.of] \in Client \cup {NoClient}  BY <1>a DEF TypeOK
    <3>. QED  BY <1>5, <3>1, <3>2, <3>3 DEF CallSend
  <2>. QED  BY <1>5, <2>1, SessionKept DEF CallSend, flag_vars
<1>6. ASSUME NEW a \in Actuator, RunFails(a) PROVE SessionInv'
  BY <1>d, <1>6 DEF RunFails, tdlib_vars, flag_vars
<1>7. ASSUME NEW a \in Actuator, RunCreate(a) PROVE SessionInv'
  <2>1. PICK c \in Client : CreateNativeClient(c)  BY <1>7 DEF RunCreate
  <2>2. \A d \in Client : Covered(updates'[d], tdlib'[d]) /\ (LoggedIn(d) => LoggedIn(d)')
    BY <1>a, <1>b, <2>1, ReportKeeps DEF CreateNativeClient, Created
  <2>. QED  BY <1>7, <2>2, SessionKept DEF RunCreate, flag_vars
<1>8. ASSUME NEW a \in Actuator, RunAssign(a) PROVE SessionInv'
  BY <1>d, <1>8 DEF RunAssign, tdlib_vars, flag_vars
<1>9. ASSUME NEW a \in Actuator, RunLoop(a) PROVE SessionInv'
  BY <1>d, <1>9 DEF RunLoop, tdlib_vars, flag_vars
<1>10. ASSUME NEW a \in Actuator, RunAwait(a) PROVE SessionInv'
  BY <1>d, <1>10 DEF RunAwait, tdlib_vars, flag_vars
<1>11. ASSUME NEW a \in Actuator, RunCommands(a) PROVE SessionInv'
  BY <1>d, <1>11 DEF RunCommands, tdlib_vars, flag_vars
<1>12. ASSUME NEW a \in Actuator, RunTake(a) PROVE SessionInv'
  <2>1. \A d \in Client : Covered(updates'[d], tdlib'[d]) /\ (LoggedIn(d) => LoggedIn(d)')
    BY <1>a, <1>b, <1>12, CloseKeeps DEF RunTake, TypeOK
  <2>. QED  BY <1>12, <2>1, SessionKept DEF RunTake
<1>13. ASSUME NEW a \in Actuator, RunQuit(a) PROVE SessionInv'
  BY <1>d, <1>13 DEF RunQuit, tdlib_vars, flag_vars
<1>14. ASSUME NEW a \in Actuator, CodeArrived(a) PROVE SessionInv'
  BY <1>d, <1>14 DEF CodeArrived, tdlib_vars, flag_vars
<1>15. ASSUME NEW a \in Actuator, CodeTimeout(a) PROVE SessionInv'
  BY <1>d, <1>15 DEF CodeTimeout, tdlib_vars, flag_vars
<1>16. ASSUME NEW c \in Client, ReceiveWaiting(c) PROVE SessionInv'
  <2>1. PICK S : Receive(c, S) /\ S = {"none", "WaitTdlibParameters", "WaitPhoneNumber"}
    BY <1>16 DEF ReceiveWaiting
  <2>2. UNCHANGED tdlib /\ HandledState(c) \in S  BY <1>16, <2>1 DEF ReceiveWaiting, Receive
  <2>3. haveAuthorization' = haveAuthorization  BY <1>16 DEF ReceiveWaiting, flag_vars
  <2>4. HandledState(c) \notin {"Closing", "Ready"}  BY <2>1, <2>2
  <2>. QED  BY <1>a, <1>c, <2>1, <2>2, <2>3, <2>4, ReceiveKeeps DEF SessionInv
<1>17. ASSUME NEW c \in Client, ReceiveWaitCode(c) PROVE SessionInv'
  <2>1. PICK S : Receive(c, S) /\ S = {"WaitCode"}
    BY <1>17 DEF ReceiveWaitCode
  <2>2. UNCHANGED tdlib /\ HandledState(c) \in S  BY <1>17, <2>1 DEF ReceiveWaitCode, Receive
  <2>3. haveAuthorization' = haveAuthorization  BY <1>17 DEF ReceiveWaitCode, flag_vars
  <2>4. HandledState(c) \notin {"Closing", "Ready"}  BY <2>1, <2>2
  <2>. QED  BY <1>a, <1>c, <2>1, <2>2, <2>3, <2>4, ReceiveKeeps DEF SessionInv
<1>18. ASSUME NEW c \in Client, ReceiveClosed(c) PROVE SessionInv'
  <2>1. PICK S : Receive(c, S) /\ S = {"Closed"}
    BY <1>18 DEF ReceiveClosed
  <2>2. UNCHANGED tdlib /\ HandledState(c) \in S  BY <1>18, <2>1 DEF ReceiveClosed, Receive
  <2>3. haveAuthorization' = haveAuthorization  BY <1>18 DEF ReceiveClosed, flag_vars
  <2>4. HandledState(c) \notin {"Closing", "Ready"}  BY <2>1, <2>2
  <2>. QED  BY <1>a, <1>c, <2>1, <2>2, <2>3, <2>4, ReceiveKeeps DEF SessionInv
<1>19. ASSUME NEW c \in Client, ReceiveReady(c) PROVE SessionInv'
  <2>1. PICK S : Receive(c, S) /\ S = {"Ready"}
    BY <1>19 DEF ReceiveReady
  <2>2. UNCHANGED tdlib /\ HandledState(c) \in S  BY <1>19, <2>1 DEF ReceiveReady, Receive
  <2>3. haveAuthorization' = haveAuthorization \cup {Owner(c)}  BY <1>19 DEF ReceiveReady
  <2>4. HandledState(c) = "Ready"  BY <2>1, <2>2
  <2>5. \E d \in Client : Owner(d) = Owner(c) /\ LoggedIn(d)'
    BY <1>a, <1>c, <2>1, <2>2, <2>4, ReceiveKeeps DEF SessionInv
  <2>. QED  BY <1>a, <1>c, <2>1, <2>2, <2>3, <2>4, <2>5, ReceiveKeeps DEF SessionInv
<1>20. ASSUME NEW c \in Client, ReceiveClosing(c) PROVE SessionInv'
  <2>1. PICK S : Receive(c, S) /\ S = {"Closing"}
    BY <1>20 DEF ReceiveClosing
  <2>2. UNCHANGED tdlib /\ HandledState(c) \in S  BY <1>20, <2>1 DEF ReceiveClosing, Receive
  <2>3. haveAuthorization' = haveAuthorization \ {Owner(c)}  BY <1>20 DEF ReceiveClosing
  <2>4. HandledState(c) = "Closing"  BY <2>1, <2>2
  <2>5. \A d \in Client : Owner(d) # Owner(c) /\ LoggedIn(d) => LoggedIn(d)'
    BY <1>a, <2>1, <2>2 DEF LoggedIn, Receive, TypeOK
  <2>. QED  BY <1>a, <1>c, <2>1, <2>2, <2>3, <2>4, <2>5, ReceiveKeeps DEF SessionInv
<1>21. ASSUME Signal PROVE SessionInv'
  BY <1>d, <1>21 DEF Signal, tdlib_vars, flag_vars
<1>22. ASSUME Recreate PROVE SessionInv'
  <2>1. PICK c \in Client : CreateNativeClient(c)  BY <1>22 DEF Recreate
  <2>2. \A d \in Client : Covered(updates'[d], tdlib'[d]) /\ (LoggedIn(d) => LoggedIn(d)')
    BY <1>a, <1>b, <2>1, ReportKeeps DEF CreateNativeClient, Created
  <2>. QED  BY <1>22, <2>2, SessionKept DEF Recreate, flag_vars
<1>23. ASSUME NEW c \in Client, TdlibAnswers(c) PROVE SessionInv'
  <2>1. \A d \in Client : Covered(updates'[d], tdlib'[d]) /\ (LoggedIn(d) => LoggedIn(d)')
    <3>1. CASE Report(c, "Error") /\ UNCHANGED tdlib
      <4>1. tdlib' = [tdlib EXCEPT ![c] = tdlib[c]]  BY <1>a, <3>1 DEF TypeOK
      <4>. QED  BY <1>a, <1>b, <3>1, <4>1, ReportKeeps
    <3>2. CASE tdlib[c] # "Ready" /\ \E next : tdlib' = [tdlib EXCEPT ![c] = next] /\ Report(c, next)
      BY <1>a, <1>b, <3>2, ReportKeeps
    <3>3. requests[c] \subseteq Waiting /\ "Ready" \notin Waiting  BY <1>a DEF TypeOK, Waiting
    <3>. QED  BY <1>23, <3>1, <3>2, <3>3 DEF TdlibAnswers
  <2>. QED  BY <1>23, <2>1, SessionKept DEF TdlibAnswers, flag_vars
<1>24. ASSUME NEW c \in Client, TdlibLogsOut(c) PROVE SessionInv'
  <2>1. \A d \in Client : Covered(updates'[d], tdlib'[d]) /\ (LoggedIn(d) => LoggedIn(d)')
    BY <1>a, <1>b, <1>24, CloseKeeps DEF TdlibLogsOut
  <2>. QED  BY <1>24, <2>1, SessionKept DEF TdlibLogsOut, flag_vars
<1>25. ASSUME NEW c \in Client, TdlibCloses(c) PROVE SessionInv'
  <2>1. \A d \in Client : Covered(updates'[d], tdlib'[d]) /\ (LoggedIn(d) => LoggedIn(d)')
    BY <1>a, <1>b, <1>25, ReportKeeps DEF TdlibCloses
  <2>. QED  BY <1>25, <2>1, SessionKept DEF TdlibCloses, flag_vars
<1>26. ASSUME UNCHANGED vars PROVE SessionInv'
  BY <1>d, <1>26 DEF vars, tdlib_vars, flag_vars
<1>. QED
  BY <1>1, <1>2, <1>3, <1>4, <1>5, <1>6, <1>7, <1>8, <1>9, <1>10, <1>11, <1>12, <1>13, <1>14, <1>15, <1>16, <1>17, <1>18, <1>19, <1>20, <1>21, <1>22, <1>23, <1>24, <1>25, <1>26
     DEF Next, ManagerNext, CallNext, RunNext, ReceiverNext, TdlibNext

(* The flag run() tests before it takes a command ends with the session, as    *)
(* far as the receiver thread can know: set, a client of the actuator is       *)
(* logged in or its Closing has not been received (Actuator.java:170-179,      *)
(* 222-231).                                                                   *)
THEOREM FlagIsTheSession == Spec => []FlagEndsWithSession
<1>0. TypeInv => TypeOK  BY DEF TypeInv
<1>1. Init => SessionInv
  BY DEF Init, SessionInv, Covered
<1>2. SessionInv /\ TypeOK => FlagEndsWithSession
  BY DEF SessionInv, FlagEndsWithSession, TypeOK
<1>3. TypeInv /\ SessionInv /\ [Next]_vars => SessionInv'
  BY SessionStep
<1>. QED  BY <1>0, <1>1, <1>2, <1>3, TypeInvariant, PTL DEF Spec

-------------------------------------------------------------------------------
(* The map of numbers                                                        *)

(* Actuators are started in their order; the map holds one that was started   *)
(* for the number.  Who has been told that it may quit has been told to quit, *)
(* and a q or close that sends its request has set the flag.                  *)
MapInv ==
  /\ \A a, b \in Actuator : b < a /\ pc[b] = "none" => pc[a] = "none"
  /\ \A p \in Phones : actuatorMap[p] # NoActuator =>
       phone[actuatorMap[p]] = p /\ pc[actuatorMap[p]] # "none"
  /\ canQuit \subseteq needQuit
  /\ \A t \in threads : t.at = "send" /\ t.op \in {"q", "close"} => t.of \in needQuit
  /\ RemovedActuatorIsClosed

BeingClosed(a) == a \in needQuit \/ \E t \in threads : t.of = a /\ t.op = "close"

(* Steps that keep the map, and every actuator in it or on its way out.        *)
LEMMA MapKept ==
  ASSUME MapInv, UNCHANGED manager_vars,
         \A b \in Actuator : pc'[b] = "none" <=> pc[b] = "none",
         \A a \in Actuator : BeingClosed(a) => BeingClosed(a)',
         canQuit' \subseteq needQuit', TypeOK,
         \A t \in threads' : t.at = "send" /\ t.op \in {"q", "close"} => t.of \in needQuit'
  PROVE  MapInv'
<1>1. \A p \in Phones : actuatorMap[p] # NoActuator => actuatorMap[p] \in Actuator
  BY DEF TypeOK
<1>2. RemovedActuatorIsClosed'
  BY DEF MapInv, RemovedActuatorIsClosed, manager_vars, BeingClosed
<1>3. \A a, b \in Actuator : b < a /\ pc'[b] = "none" => pc'[a] = "none"
  BY DEF MapInv
<1>. QED  BY <1>1, <1>2, <1>3 DEF MapInv, manager_vars

(* Who is removed is closed by the thread that removed it.                    *)
LEMMA RemoveKeeps ==
  ASSUME TypeOK, MapInv, NEW p \in Phones, RemoveAndClose(p),
         UNCHANGED <<phone, needQuit, canQuit>>,
         \A b \in Actuator : pc'[b] = "none" <=> pc[b] = "none"
  PROVE  MapInv'
<1>1. \A q \in Phones : actuatorMap'[q] = IF q = p THEN NoActuator ELSE actuatorMap[q]
  BY DEF TypeOK, RemoveAndClose
<1>2. threads \subseteq threads' /\ \A t \in threads' \ threads : t.at = "start"
  BY DEF RemoveAndClose, Thread
<1>3. actuatorMap[p] # NoActuator => \E t \in threads' : t.of = actuatorMap[p] /\ t.op = "close"
  <2>1. actuatorMap[p] # NoActuator => Thread(actuatorMap[p], "close", "start") \in threads'
    BY DEF RemoveAndClose
  <2>2. /\ Thread(actuatorMap[p], "close", "start").of = actuatorMap[p]
        /\ Thread(actuatorMap[p], "close", "start").op = "close"
    BY DEF Thread
  <2>. QED  BY <2>1, <2>2
<1>4. RemovedActuatorIsClosed'
  <2> SUFFICES ASSUME NEW a \in Actuator, pc'[a] # "none", actuatorMap'[phone[a]] # a
               PROVE  \/ a \in needQuit \/ \E t \in threads' : t.of = a /\ t.op = "close"
                      \/ \E b \in Actuator : a < b /\ phone[b] = phone[a]
    BY DEF RemovedActuatorIsClosed
  <2>1. CASE actuatorMap[phone[a]] # a
    BY <1>2, <2>1 DEF MapInv, RemovedActuatorIsClosed
  <2>2. CASE actuatorMap[phone[a]] = a
    <3>1. CASE phone[a] = p
      <4>1. a # NoActuator  BY DEF Actuator, NoActuator
      <4>. QED  BY <1>3, <2>2, <3>1, <4>1
    <3>2. CASE phone[a] # p
      BY <2>2, <3>2 DEF TypeOK, RemoveAndClose
    <3>. QED  BY <3>1, <3>2
  <2>. QED  BY <2>1, <2>2
<1>5. \A q \in Phones : actuatorMap'[q] # NoActuator =>
        phone'[actuatorMap'[q]] = q /\ pc'[actuatorMap'[q]] # "none"
  BY <1>1 DEF MapInv, TypeOK
<1>6. \A a, b \in Actuator : b < a /\ pc'[b] = "none" => pc'[a] = "none"
  BY DEF MapInv
<1>. QED  BY <1>2, <1>4, <1>5, <1>6 DEF MapInv

LEMMA MapStep == TypeInv /\ MapInv /\ [Next]_vars => MapInv'
<1> SUFFICES ASSUME TypeInv, MapInv, [Next]_vars PROVE MapInv'
  OBVIOUS
<1>a. TypeOK  BY DEF TypeInv
<1>b. \A a \in Actuator : IF pc[a] = "none" THEN phone[a] = NoPhone /\ a \notin waitCode
                                           ELSE phone[a] \in Phones
  BY DEF TypeInv, NotStartedIsUntouched
<1>c. canQuit \subseteq needQuit
      /\ \A t \in threads : t.at = "send" /\ t.op \in {"q", "close"} => t.of \in needQuit
  BY DEF MapInv
<1>d. ASSUME UNCHANGED <<manager_vars, threads>>, needQuit \subseteq needQuit',
             canQuit' \subseteq needQuit',
             \A b \in Actuator : pc'[b] = "none" <=> pc[b] = "none"
      PROVE  MapInv'
  BY <1>a, <1>c, <1>d, MapKept DEF BeingClosed
<1>1. ASSUME NEW p \in Phones, PushPhone(p) PROVE MapInv'
  BY <1>1 DEF PushPhone, MapInv, RemovedActuatorIsClosed, flag_vars
<1>2. ASSUME NEW p \in Phones, StartActuator(p) PROVE MapInv'
  <2>1. PICK a \in Actuator : /\ pc[a] = "none" /\ \A b \in Actuator : b < a => pc[b] # "none"
                             /\ phone' = [phone EXCEPT ![a] = p]
                             /\ actuatorMap' = [actuatorMap EXCEPT ![p] = a]
                             /\ pc' = [pc EXCEPT ![a] = "create"]
    BY <1>2 DEF StartActuator
  <2>2. UNCHANGED <<needQuit, canQuit, threads>>  BY <1>2 DEF StartActuator, flag_vars
  <2>3. /\ \A b \in Actuator : pc'[b] = IF b = a THEN "create" ELSE pc[b]
        /\ \A b \in Actuator : phone'[b] = IF b = a THEN p ELSE phone[b]
        /\ \A q \in Phones : actuatorMap'[q] = IF q = p THEN a ELSE actuatorMap[q]
    BY <1>a, <2>1 DEF TypeOK
  <2>4. Actuator \subseteq Nat  BY DEF Actuator
  <2>5. \A b \in Actuator : pc[b] # "none" => b < a
    BY <2>1, <2>4 DEF MapInv
  <2>6. RemovedActuatorIsClosed'
    <3> SUFFICES ASSUME NEW b \in Actuator, pc'[b] # "none", actuatorMap'[phone'[b]] # b
                 PROVE  \/ b \in needQuit \/ \E t \in threads : t.of = b /\ t.op = "close"
                        \/ \E d \in Actuator : b < d /\ phone'[d] = phone'[b]
      BY <2>2 DEF RemovedActuatorIsClosed
    <3>1. b # a  BY <2>3
    <3>2. pc[b] # "none" /\ phone'[b] = phone[b] /\ phone[b] \in Phones /\ b < a
      BY <1>b, <2>3, <2>5, <3>1
    <3>3. CASE phone[b] = p
      BY <2>3, <3>2, <3>3
    <3>4. CASE phone[b] # p
      <4>1. actuatorMap[phone[b]] # b  BY <2>3, <3>2, <3>4
      <4>2. \A d \in Actuator : phone[d] = phone[b] => d # a
        BY <1>b, <2>1, <3>2, ActuatorsAssumption
      <4>. QED  BY <2>3, <3>2, <4>1, <4>2 DEF MapInv, RemovedActuatorIsClosed
    <3>. QED  BY <3>3, <3>4
  <2>7. \A q \in Phones : actuatorMap'[q] # NoActuator =>
          phone'[actuatorMap'[q]] = q /\ pc'[actuatorMap'[q]] # "none"
    <3> SUFFICES ASSUME NEW q \in Phones, actuatorMap'[q] # NoActuator
                 PROVE  phone'[actuatorMap'[q]] = q /\ pc'[actuatorMap'[q]] # "none"
      OBVIOUS
    <3>1. CASE q = p  BY <2>3, <3>1
    <3>2. CASE q # p
      <4>1. actuatorMap'[q] = actuatorMap[q] /\ actuatorMap[q] \in Actuator
        BY <1>a, <2>3, <3>2 DEF TypeOK
      <4>2. phone[actuatorMap[q]] = q /\ pc[actuatorMap[q]] # "none"  BY <4>1 DEF MapInv
      <4>. QED  BY <2>1, <2>3, <4>1, <4>2
    <3>. QED  BY <3>1, <3>2
  <2>8. \A b, d \in Actuator : d < b /\ pc'[d] = "none" => pc'[b] = "none"
    BY <2>1, <2>3, <2>4, <2>5 DEF MapInv
  <2>. QED  BY <1>c, <2>2, <2>6, <2>7, <2>8 DEF MapInv
<1>3. ASSUME NEW p \in Phones, NEW op \in {"code", "lo", "q"}, Push(p, op) PROVE MapInv'
  <2>1. threads \subseteq threads' /\ \A t \in threads' \ threads : t.at = "start"
    BY <1>3 DEF Push, Thread
  <2>2. UNCHANGED <<manager_vars, needQuit, canQuit, pc>>  BY <1>3 DEF Push, flag_vars
  <2>. QED  BY <1>a, <1>c, <2>1, <2>2, MapKept DEF BeingClosed
<1>4. ASSUME NEW t \in threads, CallStart(t) PROVE MapInv'
  <2>1. UNCHANGED <<manager_vars, canQuit, pc>>  BY <1>4 DEF CallStart
  <2>2. needQuit \subseteq needQuit'  BY <1>4 DEF CallStart
  <2>3. \A u \in threads : u # t => u \in threads'  BY <1>4 DEF CallStart
  <2>4. t.op = "close" => t.of \in needQuit'  BY <1>c, <1>4 DEF CallStart
  <2>5. \A u \in threads' \ threads : u.op = t.op /\ u.of = t.of
    <3>1. t = [of |-> t.of, op |-> t.op, at |-> t.at]  BY <1>a DEF TypeOK
    <3>. QED  BY <1>4, <3>1 DEF CallStart
  <2>6. \A u \in threads' \ threads : u.op \in {"q", "close"} => t.of \in needQuit'
    BY <1>4, <2>5 DEF CallStart
  <2>7. \A a \in Actuator : BeingClosed(a) => BeingClosed(a)'
    BY <2>2, <2>3, <2>4 DEF BeingClosed
  <2>8. \A u \in threads' : u.at = "send" /\ u.op \in {"q", "close"} => u.of \in needQuit'
    BY <1>c, <2>2, <2>5, <2>6
  <2>. QED  BY <1>a, <1>c, <2>1, <2>2, <2>7, <2>8, MapKept
<1>5. ASSUME NEW t \in threads, CallSend(t) PROVE MapInv'
  <2>1. threads' = threads \ {t} /\ t.at = "send"  BY <1>5 DEF CallSend
  <2>2. UNCHANGED <<manager_vars, needQuit, canQuit, pc>>  BY <1>5 DEF CallSend, flag_vars
  <2>3. t.op = "close" => t.of \in needQuit  BY <1>c, <2>1
  <2>. QED  BY <1>a, <1>c, <2>1, <2>2, <2>3, MapKept DEF BeingClosed
<1>6. ASSUME NEW a \in Actuator, RunFails(a) PROVE MapInv'
  <2>1. \A b \in Actuator : pc'[b] = "none" <=> pc[b] = "none"
    BY <1>a, <1>6, StartedStays DEF RunFails, Goto
  <2>. QED  BY <1>c, <1>d, <2>1, <1>6 DEF RunFails, flag_vars
<1>7. ASSUME NEW a \in Actuator, RunCreate(a) PROVE MapInv'
  <2>1. \A b \in Actuator : pc'[b] = "none" <=> pc[b] = "none"
    BY <1>a, <1>7, StartedStays DEF RunCreate, Goto
  <2>. QED  BY <1>c, <1>d, <2>1, <1>7 DEF RunCreate, flag_vars
<1>8. ASSUME NEW a \in Actuator, RunAssign(a) PROVE MapInv'
  <2>1. \A b \in Actuator : pc'[b] = "none" <=> pc[b] = "none"
    BY <1>a, <1>8, StartedStays DEF RunAssign, Goto
  <2>. QED  BY <1>c, <1>d, <2>1, <1>8 DEF RunAssign, flag_vars
<1>9. ASSUME NEW a \in Actuator, RunLoop(a) PROVE MapInv'
  <2>1. \A b \in Actuator : pc'[b] = "none" <=> pc[b] = "none"
    BY <1>a, <1>9, StartedStays DEF RunLoop, Goto
  <2>. QED  BY <1>c, <1>d, <2>1, <1>9 DEF RunLoop, flag_vars
<1>10. ASSUME NEW a \in Actuator, RunAwait(a) PROVE MapInv'
  <2>1. \A b \in Actuator : pc'[b] = "none" <=> pc[b] = "none"
    BY <1>a, <1>10, StartedStays DEF RunAwait, Goto
  <2>. QED  BY <1>c, <1>d, <2>1, <1>10 DEF RunAwait, flag_vars
<1>11. ASSUME NEW a \in Actuator, RunCommands(a) PROVE MapInv'
  <2>1. \A b \in Actuator : pc'[b] = "none" <=> pc[b] = "none"
    BY <1>a, <1>11, StartedStays DEF RunCommands, Goto
  <2>. QED  BY <1>c, <1>d, <2>1, <1>11 DEF RunCommands, flag_vars
<1>12. ASSUME NEW a \in Actuator, RunTake(a) PROVE MapInv'
  <2>1. \A b \in Actuator : pc'[b] = "none" <=> pc[b] = "none"
    BY <1>a, <1>12, StartedStays DEF RunTake, Goto
  <2>. QED  BY <1>c, <1>d, <2>1, <1>12 DEF RunTake, flag_vars
<1>13. ASSUME NEW a \in Actuator, RunQuit(a) PROVE MapInv'
  <2>1. \A b \in Actuator : pc'[b] = "none" <=> pc[b] = "none"
    BY <1>a, <1>13, StartedStays DEF RunQuit, Goto
  <2>2. phone[a] \in Phones  BY <1>b, <1>13 DEF RunQuit, Goto
  <2>. QED  BY <1>a, <2>1, <2>2, <1>13, RemoveKeeps DEF RunQuit, flag_vars
<1>14. ASSUME NEW a \in Actuator, CodeArrived(a) PROVE MapInv'
  BY <1>c, <1>d, <1>14 DEF CodeArrived, flag_vars
<1>15. ASSUME NEW a \in Actuator, CodeTimeout(a) PROVE MapInv'
  <2>1. phone[a] \in Phones  BY <1>b, <1>15 DEF CodeTimeout
  <2>. QED  BY <1>a, <2>1, <1>15, RemoveKeeps DEF CodeTimeout, flag_vars
<1>16. ASSUME NEW c \in Client, ReceiveWaiting(c) PROVE MapInv'
  BY <1>c, <1>d, <1>16 DEF ReceiveWaiting, flag_vars
<1>17. ASSUME NEW c \in Client, ReceiveWaitCode(c) PROVE MapInv'
  BY <1>c, <1>d, <1>17 DEF ReceiveWaitCode, flag_vars
<1>18. ASSUME NEW c \in Client, ReceiveReady(c) PROVE MapInv'
  BY <1>c, <1>d, <1>18 DEF ReceiveReady, flag_vars
<1>19. ASSUME NEW c \in Client, ReceiveClosing(c) PROVE MapInv'
  BY <1>c, <1>d, <1>19 DEF ReceiveClosing, flag_vars
<1>20. ASSUME NEW c \in Client, ReceiveClosed(c) PROVE MapInv'
  BY <1>c, <1>d, <1>20 DEF ReceiveClosed, flag_vars
<1>21. ASSUME Signal PROVE MapInv'
  <2>1. \A b \in Actuator : pc'[b] = "none" <=> pc[b] = "none"
    BY <1>a, <1>21, StartedStays DEF Signal
  <2>. QED  BY <1>c, <1>d, <2>1, <1>21 DEF Signal, flag_vars
<1>22. ASSUME Recreate PROVE MapInv'
  BY <1>c, <1>d, <1>22 DEF Recreate, flag_vars
<1>23. ASSUME NEW c \in Client, TdlibAnswers(c) PROVE MapInv'
  BY <1>c, <1>d, <1>23 DEF TdlibAnswers, flag_vars
<1>24. ASSUME NEW c \in Client, TdlibLogsOut(c) PROVE MapInv'
  BY <1>c, <1>d, <1>24 DEF TdlibLogsOut, flag_vars
<1>25. ASSUME NEW c \in Client, TdlibCloses(c) PROVE MapInv'
  BY <1>c, <1>d, <1>25 DEF TdlibCloses, flag_vars
<1>26. ASSUME UNCHANGED vars PROVE MapInv'
  BY <1>c, <1>d, <1>26 DEF vars, flag_vars
<1>. QED
  BY <1>1, <1>2, <1>3, <1>4, <1>5, <1>6, <1>7, <1>8, <1>9, <1>10, <1>11, <1>12, <1>13, <1>14, <1>15, <1>16, <1>17, <1>18, <1>19, <1>20, <1>21, <1>22, <1>23, <1>24, <1>25, <1>26
     DEF Next, ManagerNext, CallNext, RunNext, ReceiverNext, TdlibNext

(* Nothing removes an actuator from the map without closing it, except a later *)
(* actuator of its number (ActuatorManager.java:28-31 and 45-51).              *)
THEOREM RemovedIsClosed == Spec => []RemovedActuatorIsClosed
<1>1. Init => MapInv
  BY DEF Init, MapInv, RemovedActuatorIsClosed
<1>2. TypeInv /\ MapInv /\ [Next]_vars => MapInv'
  BY MapStep
<1>3. MapInv => RemovedActuatorIsClosed
  BY DEF MapInv
<1>. QED  BY <1>1, <1>2, <1>3, TypeInvariant, PTL DEF Spec

-------------------------------------------------------------------------------
(* The chat list                                                               *)

(* The receiver thread works on a chat that is in the map, and the chats of    *)
(* the client are in it.                                                     *)
ChatsAreKnown ==
  /\ chats \in [Chats -> Orders \cup {Unknown}]
  /\ mainChatList \subseteq (1 .. MaxOrder) \X Chats
  /\ sessions \in Nat \ {0}
  /\ announced \subseteq Chats /\ \A c \in announced : chats[c] # Unknown
  /\ update # NoUpdate => /\ update.chat \in Chats /\ update.order \in Orders
                        /\ chats[update.chat] # Unknown

(* In the first session the map has nothing but what this client announced.   *)
OnlyAnnounced == sessions = 1 => \A c \in Chats : c \notin announced => chats[c] = Unknown

ListInv == ChatsAreKnown /\ OnlyAnnounced /\ ListHasEveryChat /\ FirstSessionIsExact

-------------------------------------------------------------------------------
LEMMA ListBounds == /\ Unknown = -1 /\ Unknown \notin Orders /\ Unknown \notin Chats
                /\ 0 \in Orders /\ Orders \subseteq Nat /\ MaxOrder \in Nat
                /\ \A o \in Orders : o # 0 => o \in 1 .. MaxOrder
  BY ChatListAssumption DEF Unknown, Orders

LEMMA EntryType ==
  ASSUME NEW o \in Orders, NEW c \in Chats
  PROVE  /\ Entry(o, c) \subseteq (1 .. MaxOrder) \X Chats
         /\ \A e \in Entry(o, c) : e = <<o, c>> /\ o # 0
         /\ o # 0 => <<o, c>> \in Entry(o, c)
  BY ListBounds DEF Entry

(* A chat is put into the map anew, without a position.                       *)
LEMMA NewChatKeeps ==
  ASSUME ListInv, NEW c \in Chats, NEW o \in Orders, ReceiveNewChat(c, o)
  PROVE  ListInv'
<1>1. /\ \A d \in Chats : chats'[d] = IF d = c THEN 0 ELSE chats[d]
      /\ chats' \in [Chats -> Orders \cup {Unknown}]
  BY ListBounds DEF ListInv, ChatsAreKnown, ReceiveNewChat
<1>2. update' = [chat |-> c, order |-> o] /\ announced' = announced \cup {c}
      /\ UNCHANGED <<mainChatList, failed, sessions>> /\ c \notin announced
  BY DEF ReceiveNewChat, bound_vars
<1>3. ChatsAreKnown'
  BY <1>1, <1>2, ListBounds DEF ListInv, ChatsAreKnown
<1>4. OnlyAnnounced'
  BY <1>1, <1>2 DEF ListInv, OnlyAnnounced
<1>5. ListHasEveryChat'
  <2>1. \A d \in Chats : chats'[d] > 0 => chats'[d] = chats[d]  BY <1>1
  <2>2. \A d \in Chats : chats[d] # Unknown => chats'[d] # Unknown  BY <1>1, ListBounds
  <2>3. \A e \in mainChatList : e[2] \in Chats  BY DEF ListInv, ChatsAreKnown
  <2>. QED  BY <1>2, <2>1, <2>2, <2>3 DEF ListInv, ListHasEveryChat
<1>6. FirstSessionIsExact'
  <2> SUFFICES ASSUME sessions = 1 PROVE failed = {} /\ \A e \in mainChatList : chats'[e[2]] = e[1]
    BY <1>2 DEF FirstSessionIsExact
  <2>1. chats[c] = Unknown  BY <1>2 DEF ListInv, OnlyAnnounced
  <2>2. \A e \in mainChatList : e[2] \in Chats /\ e[2] # c
    BY <2>1 DEF ListInv, ChatsAreKnown, ListHasEveryChat
  <2>. QED  BY <1>1, <2>2 DEF ListInv, FirstSessionIsExact
<1>. QED  BY <1>3, <1>4, <1>5, <1>6 DEF ListInv

(* The old entry is replaced by the new one.                                  *)
LEMMA SetPositionsKeeps == ASSUME ListInv, SetChatPositions PROVE ListInv'
<1> DEFINE c == update.chat
           o == update.order
           old == Entry(chats[c], c)
           new == Entry(o, c)
<1>1. c \in Chats /\ o \in Orders /\ chats[c] \in Orders
  BY DEF ListInv, ChatsAreKnown, SetChatPositions
<1>2. /\ \A d \in Chats : chats'[d] = IF d = c THEN o ELSE chats[d]
      /\ chats' \in [Chats -> Orders \cup {Unknown}]
  BY <1>1 DEF ListInv, ChatsAreKnown, SetChatPositions
<1>3. mainChatList' = (mainChatList \ old) \cup new
      /\ failed' = failed \cup {f \in {"remove"} : ~(old \subseteq mainChatList)}
                          \cup {f \in {"add"} : new \cap (mainChatList \ old) # {}}
      /\ update' = NoUpdate /\ UNCHANGED <<announced, sessions>>
  BY DEF SetChatPositions, external_vars, bound_vars
<1>4. /\ \A e \in old : e = <<chats[c], c>>
      /\ chats[c] # 0 => <<chats[c], c>> \in old
  BY <1>1, EntryType
<1>5. /\ \A e \in new : e = <<o, c>>
      /\ o # 0 => <<o, c>> \in new
      /\ new \subseteq (1 .. MaxOrder) \X Chats
  BY <1>1, EntryType
<1>6. \A e \in mainChatList : e[1] \in Nat /\ e[2] \in Chats /\ e = <<e[1], e[2]>>
  BY DEF ListInv, ChatsAreKnown
<1>. HIDE DEF old, new
<1>7. ChatsAreKnown'
  <2>1. mainChatList' \subseteq (1 .. MaxOrder) \X Chats
    BY <1>3, <1>5 DEF ListInv, ChatsAreKnown
  <2>. QED  BY <1>1, <1>2, <1>3, <2>1, ListBounds DEF ListInv, ChatsAreKnown
<1>8. OnlyAnnounced'
  <2>1. chats[c] # Unknown  BY <1>1, ListBounds
  <2>. QED  BY <1>2, <1>3, <2>1 DEF ListInv, OnlyAnnounced
<1>9. ListHasEveryChat'
  <2>1. ASSUME NEW d \in Chats, chats'[d] > 0 PROVE <<chats'[d], d>> \in mainChatList'
    <3>1. CASE d = c  BY <1>2, <1>3, <1>5, <2>1, <3>1
    <3>2. CASE d # c
      <4>1. <<chats[d], d>> \in mainChatList  BY <1>2, <2>1, <3>2 DEF ListInv, ListHasEveryChat
      <4>2. <<chats[d], d>> \notin old  BY <1>4, <3>2
      <4>. QED  BY <1>2, <1>3, <3>2, <4>1, <4>2
    <3>. QED  BY <3>1, <3>2
  <2>2. ASSUME NEW e \in mainChatList' PROVE chats'[e[2]] # Unknown
    <3>1. CASE e \in new  BY <1>1, <1>2, <1>5, <3>1, ListBounds
    <3>2. CASE e \in mainChatList
      <4>1. e[2] \in Chats /\ chats[e[2]] # Unknown  BY <1>6, <3>2 DEF ListInv, ListHasEveryChat
      <4>. QED  BY <1>1, <1>2, <4>1, ListBounds
    <3>. QED  BY <1>3, <3>1, <3>2
  <2>. QED  BY <2>1, <2>2 DEF ListHasEveryChat
<1>10. FirstSessionIsExact'
  <2> SUFFICES ASSUME sessions = 1
               PROVE  failed' = {} /\ \A e \in mainChatList' : chats'[e[2]] = e[1]
    BY <1>3 DEF FirstSessionIsExact
  <2>1. failed = {} /\ \A e \in mainChatList : chats[e[2]] = e[1]
    BY DEF ListInv, FirstSessionIsExact
  <2>2. old \subseteq mainChatList
    <3>1. chats[c] # 0 => <<chats[c], c>> \in mainChatList
      <4>1. chats[c] # 0 => chats[c] > 0
        <5>1. \A n \in Nat : n # 0 => n > 0  OBVIOUS
        <5>. QED  BY <1>1, <5>1, ListBounds
      <4>. QED  BY <1>1, <4>1 DEF ListInv, ListHasEveryChat
    <3>2. chats[c] = 0 => old = {}  BY DEF old, Entry
    <3>. QED  BY <1>4, <3>1, <3>2
  <2>3. \A e \in mainChatList : e[2] = c => e \in old
    <3> SUFFICES ASSUME NEW e \in mainChatList, e[2] = c PROVE e \in old
      OBVIOUS
    <3>1. e = <<chats[c], c>> /\ e[1] \in 1 .. MaxOrder
      BY <1>6, <2>1 DEF ListInv, ChatsAreKnown
    <3>2. chats[c] # 0  BY <3>1, ListBounds
    <3>. QED  BY <1>4, <3>1, <3>2
  <2>4. new \cap (mainChatList \ old) = {}
    <3>1. \A e \in new : e[2] = c  BY <1>5
    <3>. QED  BY <2>3, <3>1
  <2>5. ASSUME NEW e \in mainChatList' PROVE chats'[e[2]] = e[1]
    <3>1. CASE e \in new  BY <1>1, <1>2, <1>5, <3>1
    <3>2. CASE e \in mainChatList \ old
      BY <1>2, <1>6, <2>1, <2>3, <3>2
    <3>. QED  BY <1>3, <3>1, <3>2
  <2>. QED  BY <1>3, <2>1, <2>2, <2>4, <2>5
<1>. QED  BY <1>7, <1>8, <1>9, <1>10 DEF ListInv

LEMMA ListStep == ListInv /\ [ListNext]_chat_vars => ListInv'
<1> SUFFICES ASSUME ListInv, [ListNext]_chat_vars PROVE ListInv'
  OBVIOUS
<1>a. ASSUME UNCHANGED <<chats, mainChatList, failed, update, announced, sessions>> PROVE ListInv'
  BY <1>a DEF ListInv, ChatsAreKnown, OnlyAnnounced, ListHasEveryChat, FirstSessionIsExact
<1>1. ASSUME NEW c \in Chats, NEW order \in Orders, ReceiveNewChat(c, order) PROVE ListInv'
  BY <1>1, NewChatKeeps
<1>2. ASSUME NEW c \in Chats, NEW order \in Orders, ReceivePosition(c, order) PROVE ListInv'
  BY <1>2, ListBounds DEF ReceivePosition, list_vars, external_vars, bound_vars,
     ListInv, ChatsAreKnown, OnlyAnnounced, ListHasEveryChat, FirstSessionIsExact
<1>3. CASE SetChatPositions
  BY <1>3, SetPositionsKeeps
<1>4. ASSUME NEW a \in answers, ReceiveAnswer(a) PROVE ListInv'
  BY <1>a, <1>4 DEF ReceiveAnswer, list_vars, bound_vars
<1>5. ASSUME NEW n \in 1 .. Cardinality(Chats) + 1, GetChats(n) PROVE ListInv'
  BY <1>a, <1>5 DEF GetChats, list_vars
<1>6. CASE PrintChat
  BY <1>a, <1>6 DEF PrintChat, list_vars, external_vars, bound_vars
<1>7. CASE PrintEnds
  BY <1>a, <1>7 DEF PrintEnds, list_vars, external_vars, bound_vars
<1>8. CASE NewSession
  BY <1>8 DEF NewSession, list_vars,
     ListInv, ChatsAreKnown, OnlyAnnounced, ListHasEveryChat, FirstSessionIsExact
<1>9. CASE UNCHANGED chat_vars
  BY <1>a, <1>9 DEF chat_vars, list_vars, external_vars, bound_vars
<1>. QED  BY <1>1, <1>2, <1>3, <1>4, <1>5, <1>6, <1>7, <1>8, <1>9 DEF ListNext, ListReceiverNext, ListRunNext

LEMMA ListInvariance == ListSpec => []ListInv
<1>1. ListInit => ListInv
  BY ListBounds DEF ListInit, ListInv, ChatsAreKnown, OnlyAnnounced, ListHasEveryChat, FirstSessionIsExact
<1>2. ListInv /\ [ListNext]_chat_vars => ListInv'
  BY ListStep
<1>. QED  BY <1>1, <1>2, PTL DEF ListSpec

(* Every chat with a position is in the list, and the list has no chat that   *)
(* cannot be printed, in every session (Actuator.java:124-157, 541-545).       *)
THEOREM EveryChatIsListed == ListSpec => []ListHasEveryChat
<1>1. ListInv => ListHasEveryChat  BY DEF ListInv
<1>. QED  BY <1>1, ListInvariance, PTL

(* Up to the first log out the list has nothing else, and the assertions of   *)
(* setChatPositions() hold (Actuator.java:138 and 151).                        *)
THEOREM ListIsExactInFirstSession == ListSpec => []FirstSessionIsExact
<1>1. ListInv => FirstSessionIsExact  BY DEF ListInv
<1>. QED  BY <1>1, ListInvariance, PTL
===============================================================================
