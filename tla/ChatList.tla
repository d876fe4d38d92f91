------------------------------- MODULE ChatList -------------------------------
(***************************************************************************)
(* Actuator.java: the list of main chats of one actuator, ordered by the    *)
(* position TDLib gives each chat.  The receiver thread changes it on       *)
(* updates, holding the monitor of the chat and then that of the list; the  *)
(* thread of run() prints it, holding the monitor of the list and then      *)
(* those of the chats.  The maps outlive the client: after a log out the    *)
(* next client announces its chats anew.                                   *)
(*                                                                         *)
(* A chat's positions are known by its order in the main list, 0 if it is   *)
(* not there; the positions in other lists are never looked at.             *)
(***************************************************************************)
EXTENDS Integers, FiniteSets, FiniteSetsExt

CONSTANTS Chats, MaxOrder,
          MaxSessions, MaxCommands       \* bounds

ASSUME ChatListAssumption ==
  Chats \subseteq Nat /\ MaxOrder \in Nat \ {0} /\ {MaxSessions, MaxCommands} \subseteq Nat

VARIABLES
  chats,            \* chat id -> order of the chat object, Unknown if not in the map
  mainChatList,     \* entries <<order, chat id>>
  haveFullMainChatList,
  update,         \* the update in progress: it holds the monitor of its chat
  printing,         \* the chats run() has yet to print: it holds the list's monitor
  answers,          \* external: answers to LoadChats not received yet,
                    \* <<command, chats wanted, answer>>
  announced,        \* external: chats this client has announced
  sessions, commands,    \* counters of the bounds
  failed            \* history: assertions that did not hold

list_vars == <<chats, mainChatList, failed>>
external_vars == <<answers, announced>>
bound_vars == <<sessions, commands>>
chat_vars == <<list_vars, haveFullMainChatList, update, printing, external_vars, bound_vars>>

Unknown == -1
NoUpdate == [chat |-> Unknown, order |-> 0]
NoPrint == {Unknown}
Orders == 0 .. MaxOrder

ListIsFree == printing = NoPrint
ChatIsFree(c) == update.chat # c

ListInit ==
  /\ chats = [c \in Chats |-> Unknown] /\ mainChatList = {}
  /\ haveFullMainChatList = FALSE
  /\ update = NoUpdate /\ printing = NoPrint
  /\ answers = {} /\ announced = {}
  /\ sessions = 1 /\ commands = 0 /\ failed = {}

-------------------------------------------------------------------------------
(* The receiver thread                                                       *)

(* UpdateNewChat: a new object, its monitor held, is put into the map, at     *)
(* first without positions.                                                  *)
ReceiveNewChat(c, order) ==
  /\ update = NoUpdate /\ c \notin announced
  /\ announced' = announced \cup {c}
  /\ chats' = [chats EXCEPT ![c] = 0]
  /\ update' = [chat |-> c, order |-> order]
  /\ UNCHANGED <<mainChatList, failed, haveFullMainChatList, printing, answers, bound_vars>>

(* UpdateChatLastMessage, UpdateChatDraftMessage, UpdateChatPosition: the     *)
(* monitor of the chat is taken.                                              *)
ReceivePosition(c, order) ==
  /\ update = NoUpdate /\ c \in announced
  /\ update' = [chat |-> c, order |-> order]
  /\ UNCHANGED <<list_vars, haveFullMainChatList, printing, external_vars, bound_vars>>

(* A chat is in the list if it has a position in it.                          *)
Entry(order, c) == IF order = 0 THEN {} ELSE {<<order, c>>}

(* Mutant: the new entry is added before the old one is removed.              *)
SetChatPositionsAddFirst ==
  LET c == update.chat IN
  /\ update # NoUpdate /\ ListIsFree
  /\ mainChatList' = (mainChatList \cup Entry(update.order, c)) \ Entry(chats[c], c)
  /\ chats' = [chats EXCEPT ![c] = update.order]
  /\ update' = NoUpdate
  /\ UNCHANGED <<failed, haveFullMainChatList, printing, external_vars, bound_vars>>

(* Mutant: the positions are set before the old entry is looked up by them.   *)
SetChatPositionsFirst ==
  LET c == update.chat
      added == Entry(update.order, c)
  IN /\ update # NoUpdate /\ ListIsFree
     /\ mainChatList' = (mainChatList \ added) \cup added
     /\ chats' = [chats EXCEPT ![c] = update.order]
     /\ failed' = failed \cup {f \in {"remove"} : ~(added \subseteq mainChatList)}
     /\ update' = NoUpdate
     /\ UNCHANGED <<haveFullMainChatList, printing, external_vars, bound_vars>>

(* setChatPositions(): under both monitors, the old entry is removed and the  *)
(* new one added; each is asserted to have changed the set.                   *)
SetChatPositions ==
  LET c == update.chat
      old == Entry(chats[c], c)
      new == Entry(update.order, c)
      removed == mainChatList \ old
  IN /\ update # NoUpdate /\ ListIsFree
     /\ mainChatList' = removed \cup new
     /\ chats' = [chats EXCEPT ![c] = update.order]
     /\ failed' = failed \cup {f \in {"remove"} : ~(old \subseteq mainChatList)}
                         \cup {f \in {"add"} : new \cap removed # {}}
     /\ update' = NoUpdate
     /\ UNCHANGED <<haveFullMainChatList, printing, external_vars, bound_vars>>

-------------------------------------------------------------------------------
(* getMainChatList()                                                         *)

(* The ids of the first n entries, the greatest order first.                  *)
Before(e, f) == e[1] > f[1] \/ (e[1] = f[1] /\ e[2] > f[2])
FirstChats(n) ==
  {e[2] : e \in {e \in mainChatList : Cardinality({f \in mainChatList : Before(f, e)}) < n}}

MustLoad(n) == ~haveFullMainChatList /\ n > Cardinality(mainChatList)

(* TDLib loads more chats, has none (404) or fails; the handler gets that.    *)
Answers == {"ok", "404", "error"}
LoadChats(command, n, others) ==
  \E answer \in Answers : answers' = others \cup {<<command, n, answer>>}

(* gcs on the thread of run().                                                *)
GetChats(n) ==
  /\ ListIsFree /\ commands < MaxCommands
  /\ commands' = commands + 1
  /\ IF MustLoad(n) THEN LoadChats(commands, n, answers) /\ UNCHANGED printing
                    ELSE printing' = FirstChats(n) /\ UNCHANGED answers
  /\ UNCHANGED <<list_vars, haveFullMainChatList, update, announced, sessions>>

(* Each chat is printed under its monitor; then the list's is left.           *)
PrintChat == \E c \in printing \ NoPrint :
  /\ ChatIsFree(c)
  /\ printing' = printing \ {c}
  /\ UNCHANGED <<list_vars, haveFullMainChatList, update, external_vars, bound_vars>>

PrintEnds ==
  /\ printing = {} /\ printing' = NoPrint
  /\ UNCHANGED <<list_vars, haveFullMainChatList, update, external_vars, bound_vars>>

(* The answer to LoadChats on the receiver thread, which holds no other       *)
(* monitor then: the list is printed or more chats are asked for, the list is *)
(* known to be full, or an error is printed.                                  *)
ReceiveAnswer(a) ==
  /\ update = NoUpdate /\ a \in answers
  /\ \/ /\ a[3] = "ok" /\ ListIsFree /\ MustLoad(a[2])
        /\ LoadChats(a[1], a[2], answers \ {a})
        /\ UNCHANGED haveFullMainChatList
     \/ /\ a[3] = "ok" /\ ListIsFree /\ ~MustLoad(a[2])
        /\ answers' = answers \ {a} /\ UNCHANGED haveFullMainChatList
     \/ /\ a[3] = "404" /\ ListIsFree
        /\ answers' = answers \ {a} /\ haveFullMainChatList' = TRUE
     \/ /\ a[3] = "error"
        /\ answers' = answers \ {a} /\ UNCHANGED haveFullMainChatList
  /\ UNCHANGED <<list_vars, update, printing, announced, bound_vars>>

-------------------------------------------------------------------------------
(* After a log out a new client takes over; the maps stay.                    *)
NewSession ==
  /\ update = NoUpdate /\ sessions < MaxSessions
  /\ sessions' = sessions + 1
  /\ announced' = {}
  /\ UNCHANGED <<list_vars, haveFullMainChatList, update, printing, answers, commands>>

ListReceiverNext ==
  \/ \E c \in Chats, order \in Orders : ReceiveNewChat(c, order) \/ ReceivePosition(c, order)
  \/ SetChatPositions \/ \E a \in answers : ReceiveAnswer(a)

ListRunNext == (\E n \in 1 .. Cardinality(Chats) + 1 : GetChats(n)) \/ PrintChat \/ PrintEnds

ListNext == ListReceiverNext \/ ListRunNext \/ NewSession

ListSpec == ListInit /\ [][ListNext]_chat_vars

ListFairSpec ==
  ListSpec /\ WF_chat_vars(SetChatPositions) /\ WF_chat_vars(PrintChat) /\ WF_chat_vars(PrintEnds)
-------------------------------------------------------------------------------
(* Every chat is in the list at its position, and what is printed is in the   *)
(* map, in every session (Actuator.java:124-157, 541-545 and 990-998).        *)
ListHasEveryChat ==
  /\ \A c \in Chats : chats[c] > 0 => <<chats[c], c>> \in mainChatList
  /\ \A e \in mainChatList : chats[e[2]] # Unknown

(* Before the first log out the list has nothing else, and the assertions of  *)
(* setChatPositions() hold (Actuator.java:138 and 151).                       *)
FirstSessionIsExact ==
  sessions = 1 => /\ failed = {}
                  /\ \A e \in mainChatList : chats[e[2]] = e[1]

(* "gcs - GetChats": the command prints the chats and returns.                *)
GetChatsReturns == [](printing # NoPrint => <>(printing = NoPrint))
===============================================================================
