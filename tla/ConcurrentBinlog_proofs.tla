------------------------ MODULE ConcurrentBinlog_proofs ------------------------
(***************************************************************************)
(* For any number of threads, events, syncs and changes of key: the actor   *)
(* of ConcurrentBinlog.cpp loses no wakeup, and the only events a power loss *)
(* can take from a completed promise are those that a reindex of an empty   *)
(* file did not sync; while the file has a byte there are none.  For any    *)
(* numbers and any threshold of the compaction: the window of               *)
(* OrderedEventsProcessor.h, which the actor owns, delivers what            *)
(* OrderedDelivery promises.                                                *)
(***************************************************************************)
EXTENDS ConcurrentBinlog, OrderedEventsProcessor, SequenceTheorems, TLAPS

(* A message in the mailbox, or an early event, is one that was really sent:  *)
(* its number is in range and its promise has been issued.                   *)
MessageOK(m) ==
  /\ m.op = "add" => /\ m.seq_no \in EventIds
                     /\ m.promise => <<"event", m.seq_no>> \in issued
  /\ m.op = "force_sync" => /\ m.seq_no \in 1 .. MaxSyncs
                            /\ <<"force_sync", m.seq_no>> \in issued

MessagesAreIssued ==
  /\ \A i \in 1 .. Len(mailbox) : MessageOK(mailbox[i])
  /\ \A e \in early : e.op = "add" /\ MessageOK(e)
  /\ sync_promises \subseteq issued
  /\ \A w \in immediate_sync_promises : w[2] \in issued

Typed == TypeOK /\ MessagesAreIssued

(* Only numbers that have run are in the log.                                *)
LogIsBehind == flushed < begin /\ \A n \in logged : n < begin

TimerInv == WaitingWorkHasTimer /\ LogIsBehind

(* No promise is issued twice: the numbers a thread holds are its own.       *)
NumbersAreFresh ==
  /\ \A c \in Clients : \A n \in holding[c] :
       n < last_event_id /\ <<"event", n>> \notin issued
  /\ \A c, d \in Clients : c # d => holding[c] \cap holding[d] = {}
  /\ \A n \in EventIds : <<"event", n>> \in issued =>
       n < last_event_id /\ covers[<<"event", n>>] = n
  /\ \A k \in 1 .. MaxSyncs : <<"force_sync", k>> \in issued => k <= syncs

(* An event at or after number x has run, is stored, or is among the first k  *)
(* messages.                                                                *)
Reached(x, k) ==
  \/ x < begin
  \/ \E e \in early : x <= e.seq_no
  \/ \E j \in 1 .. k : mailbox[j].op = "add" /\ x <= mailbox[j].seq_no

(* What a force_sync covers was sent before it, and so is reached before it.  *)
SyncsFollowTheirEvents ==
  /\ \A c \in Clients : Reached(sent[c], Len(mailbox))
  /\ \A i \in 1 .. Len(mailbox) : mailbox[i].op = "force_sync" =>
       Reached(covers[<<"force_sync", mailbox[i].seq_no>>], i - 1)

(* A promise in the next sync is for events that have run, a delayed one for  *)
(* events up to the one it waits for.                                        *)
PromisesAreCovered ==
  /\ \A p \in sync_promises : covers[p] < begin
  /\ \A w \in immediate_sync_promises : covers[w[2]] <= w[1]

EarlyIsAhead == \A e \in early : begin <= e.seq_no

OrderInv == NumbersAreFresh /\ EarlyIsAhead /\ SyncsFollowTheirEvents /\ PromisesAreCovered

(* Event n is on the disk, or a reindex of an empty file did not sync it.    *)
Kept(n) == n <= durable \/ n <= skipped

(* need_sync_ is exact: without it, what the system has is kept.             *)
NeedSyncIsExact ==
  /\ durable <= flushed /\ skipped <= flushed
  /\ ~need_sync => \A n \in logged : n <= flushed => Kept(n)

DurableInv == NeedSyncIsExact /\ DonePromiseOutlivesPowerLoss

-------------------------------------------------------------------------------
(* A message sent goes to the end of the mailbox.                            *)
LEMMA AppendFacts ==
  ASSUME NEW S, NEW q \in Seq(S), NEW x \in S
  PROVE  /\ Append(q, x) \in Seq(S) /\ Len(q) \in Nat /\ Len(Append(q, x)) = Len(q) + 1
         /\ \A i \in 1 .. Len(q) : Append(q, x)[i] = q[i]
         /\ Append(q, x)[Len(q) + 1] = x
  OBVIOUS

(* A message taken leaves the others one place further on.                   *)
LEMMA TailFacts ==
  ASSUME NEW S, NEW q \in Seq(S), q # << >>
  PROVE  /\ Tail(q) \in Seq(S) /\ Len(q) \in Nat /\ Len(q) >= 1 /\ Len(Tail(q)) = Len(q) - 1
         /\ Head(q) = q[1] /\ Head(q) \in S
         /\ \A i \in 1 .. Len(q) - 1 : Tail(q)[i] = q[i + 1]
  OBVIOUS

(* The messages the threads send are messages.                               *)
LEMMA SentMessages ==
  /\ \A n \in Nat : \A raw, promise \in BOOLEAN : AddMessage(n, raw, promise) \in Messages
  /\ \A n \in Nat : \A op \in {"force_sync", "force_flush", "change_key", "close"} :
       Message(op, n) \in Messages
  BY DEF AddMessage, Message, Messages

(* The initial state is typed, and nothing has been issued.                  *)
LEMMA TypedInit == Init => Typed
  <1> SUFFICES ASSUME Init PROVE Typed
    OBVIOUS
  <1> USE ConcurrentBinlogAssumption DEF Init
  <1>1. TypeOK
    <2>1. mailbox \in Seq(Messages)
      OBVIOUS
    <2>2. covers \in [Promises -> 0 .. MaxEventId] /\ sent \in [Clients -> 0 .. MaxEventId]
      OBVIOUS
    <2>3. holding \in [Clients -> SUBSET EventIds]
      OBVIOUS
    <2>4. last_event_id \in 1 .. MaxEventId + 1 /\ begin \in 1 .. MaxEventId + 1
      OBVIOUS
    <2>5. syncs \in 0 .. MaxSyncs /\ key_changes \in 0 .. MaxKeyChanges
      OBVIOUS
    <2>6. flushed \in 0 .. MaxEventId /\ durable \in 0 .. MaxEventId /\ skipped \in 0 .. MaxEventId
      OBVIOUS
    <2>7. /\ issued \subseteq Promises /\ done \subseteq issued /\ sync_promises \subseteq Promises
          /\ immediate_sync_promises \subseteq (EventIds \X Promises)
          /\ early \subseteq Messages /\ logged \subseteq EventIds
      OBVIOUS
    <2>8. /\ closing \in BOOLEAN /\ need_sync \in BOOLEAN
          /\ force_sync_flag \in BOOLEAN /\ lazy_sync_flag \in BOOLEAN /\ flush_flag \in BOOLEAN
          /\ wakeup_at \in BOOLEAN /\ stopped \in BOOLEAN
      BY Zenon
    <2>9. file_empty \in BOOLEAN /\ keyed \in BOOLEAN /\ index_empty \in BOOLEAN
      <3>1. PICK o \in Opened :
              file_empty = o.file_empty /\ keyed = o.keyed /\ index_empty = o.index_empty
        BY Zenon
      <3>2. o \in [file_empty : BOOLEAN, keyed : BOOLEAN, index_empty : BOOLEAN]
        BY <3>1
      <3>3. o.file_empty \in BOOLEAN /\ o.keyed \in BOOLEAN /\ o.index_empty \in BOOLEAN
        BY ONLY <3>2
      <3> QED
        BY ONLY <3>1, <3>3
    <2> QED
      BY <2>1, <2>2, <2>3, <2>4, <2>5, <2>6, <2>7, <2>8, <2>9 DEF TypeOK
  <1>2. MessagesAreIssued
    BY DEF MessagesAreIssued
  <1> QED
    BY <1>1, <1>2 DEF Typed

-------------------------------------------------------------------------------
(* Sending a message: the mailbox grows by it.                               *)
LEMMA MailboxGrows ==
  ASSUME Typed, NEW m \in Messages, mailbox' = Append(mailbox, m),
         issued \subseteq issued', MessageOK(m)',
         UNCHANGED <<early, sync_promises, immediate_sync_promises>>
  PROVE  mailbox' \in Seq(Messages) /\ MessagesAreIssued'
  <1>1. mailbox \in Seq(Messages) /\ MessagesAreIssued
    BY DEF Typed, TypeOK
  <1>2. /\ mailbox' \in Seq(Messages) /\ Len(mailbox) \in Nat /\ Len(mailbox') = Len(mailbox) + 1
        /\ \A i \in 1 .. Len(mailbox) : mailbox'[i] = mailbox[i]
        /\ mailbox'[Len(mailbox) + 1] = m
    BY <1>1, AppendFacts
  <1>3. ASSUME NEW i \in 1 .. Len(mailbox') PROVE MessageOK(mailbox[i])'
    <2>1. CASE i = Len(mailbox) + 1
      BY <2>1, <1>2 DEF MessageOK
    <2>2. CASE i # Len(mailbox) + 1
      <3>1. i \in 1 .. Len(mailbox)
        BY <2>2, <1>2
      <3> QED
        BY <3>1, <1>1, <1>2 DEF MessagesAreIssued, MessageOK
    <2> QED
      BY <2>1, <2>2
  <1>4. \A e \in early' : e.op = "add" /\ MessageOK(e)'
    BY <1>1 DEF MessagesAreIssued, MessageOK
  <1>5. sync_promises' \subseteq issued' /\ \A w \in immediate_sync_promises' : w[2] \in issued'
    BY <1>1 DEF MessagesAreIssued
  <1> QED
    BY <1>2, <1>3, <1>4, <1>5 DEF MessagesAreIssued

(* The threads keep types, and send what they have issued.                   *)
LEMMA TypedClient ==
  ASSUME Typed, ClientNext
  PROVE  Typed'
  <1> USE ConcurrentBinlogAssumption
  <1>0. TypeOK /\ MessagesAreIssued
    BY DEF Typed
  <1>1. ASSUME NEW c \in Clients, NEW shift \in 1 .. 2, TakeIds(c, shift) PROVE Typed'
    <2>1. last_event_id .. last_event_id + shift - 1 \subseteq EventIds
      BY <1>0, <1>1 DEF TakeIds, TypeOK, EventIds
    <2>2. TypeOK'
      BY <1>0, <1>1, <2>1 DEF TakeIds, TypeOK, bound_vars, actor_vars, log_vars, flag_vars, EventIds
    <2>3. MessagesAreIssued'
      BY <1>0, <1>1 DEF TakeIds, MessagesAreIssued, MessageOK, actor_vars
    <2> QED
      BY <2>2, <2>3 DEF Typed
  <1>2. ASSUME NEW c \in Clients, NEW raw \in BOOLEAN, NEW promise \in BOOLEAN,
               SendAdd(c, raw, promise)
        PROVE  Typed'
    <2>1. PICK n \in holding[c] :
            /\ mailbox' = Append(mailbox, AddMessage(n, raw, promise))
            /\ holding' = [holding EXCEPT ![c] = @ \ {n}]
            /\ sent' = [sent EXCEPT ![c] = n]
            /\ issued' = IF promise THEN issued \cup {<<"event", n>>} ELSE issued
            /\ covers' = IF promise THEN [covers EXCEPT ![<<"event", n>>] = n] ELSE covers
            /\ UNCHANGED <<last_event_id, closing, bound_vars, actor_vars>>
      BY <1>2 DEF SendAdd
    <2>2. n \in EventIds /\ n \in Nat /\ n \in 0 .. MaxEventId /\ <<"event", n>> \in Promises
      BY <1>0, <2>1 DEF TypeOK, EventIds, Promises
    <2>3. MessageOK(AddMessage(n, raw, promise))'
      BY <2>1, <2>2 DEF MessageOK, AddMessage
    <2>4. AddMessage(n, raw, promise) \in Messages /\ issued \subseteq issued'
      BY <2>1, <2>2, SentMessages
    <2>5. mailbox' \in Seq(Messages) /\ MessagesAreIssued'
      BY <2>1, <2>3, <2>4, MailboxGrows DEF actor_vars
    <2>6. issued' \subseteq Promises /\ covers' \in [Promises -> 0 .. MaxEventId]
      BY <1>0, <2>1, <2>2 DEF TypeOK
    <2>7. holding' \in [Clients -> SUBSET EventIds] /\ sent' \in [Clients -> 0 .. MaxEventId]
      BY <1>0, <2>1, <2>2 DEF TypeOK
    <2>8. TypeOK'
      BY <1>0, <2>1, <2>4, <2>5, <2>6, <2>7 DEF TypeOK, bound_vars, actor_vars, log_vars, flag_vars
    <2> QED
      BY <2>5, <2>8 DEF Typed
  <1>3. ASSUME NEW c \in Clients, SendForceSync(c) PROVE Typed'
    <2>1. PICK k \in Nat : k = syncs'
      BY <1>0, <1>3 DEF SendForceSync, TypeOK
    <2>2. k \in 1 .. MaxSyncs /\ <<"force_sync", k>> \in Promises
      BY <1>0, <1>3, <2>1 DEF SendForceSync, TypeOK, Promises
    <2>3. MessageOK(Message("force_sync", k))'
      BY <1>3, <2>1, <2>2 DEF SendForceSync, MessageOK, Message
    <2>4. /\ Message("force_sync", k) \in Messages /\ issued \subseteq issued'
          /\ mailbox' = Append(mailbox, Message("force_sync", k))
      BY <1>3, <2>1, SentMessages DEF SendForceSync
    <2>5. mailbox' \in Seq(Messages) /\ MessagesAreIssued'
      BY <1>3, <2>3, <2>4, MailboxGrows DEF SendForceSync, actor_vars
    <2>6. issued' \subseteq Promises /\ covers' \in [Promises -> 0 .. MaxEventId]
      BY <1>0, <1>3, <2>1, <2>2 DEF TypeOK, SendForceSync
    <2>7. TypeOK'
      BY <1>0, <1>3, <2>1, <2>2, <2>4, <2>5, <2>6 DEF SendForceSync, TypeOK, actor_vars, log_vars, flag_vars
    <2> QED
      BY <2>5, <2>7 DEF Typed
  <1>4. CASE SendForceFlush
    <2>1. mailbox' \in Seq(Messages) /\ MessagesAreIssued'
      <3>1. MessageOK(Message("force_flush", 0))' /\ Message("force_flush", 0) \in Messages
        BY SentMessages DEF MessageOK, Message
      <3> QED
        BY <1>4, <3>1, MailboxGrows DEF SendForceFlush, client_vars, actor_vars
    <2>2. TypeOK'
      BY <1>0, <1>4, <2>1 DEF SendForceFlush, TypeOK, client_vars, bound_vars, actor_vars,
                              log_vars, flag_vars
    <2> QED
      BY <2>1, <2>2 DEF Typed
  <1>5. CASE SendChangeKey
    <2>1. mailbox' \in Seq(Messages) /\ MessagesAreIssued'
      <3>1. MessageOK(Message("change_key", 0))' /\ Message("change_key", 0) \in Messages
        BY SentMessages DEF MessageOK, Message
      <3> QED
        BY <1>5, <3>1, MailboxGrows DEF SendChangeKey, actor_vars
    <2>2. key_changes' \in 0 .. MaxKeyChanges
      BY <1>0, <1>5 DEF SendChangeKey, TypeOK
    <2>3. TypeOK'
      BY <1>0, <1>5, <2>1, <2>2 DEF SendChangeKey, TypeOK, actor_vars, log_vars, flag_vars
    <2> QED
      BY <2>1, <2>3 DEF Typed
  <1>6. CASE SendClose
    <2>1. mailbox' \in Seq(Messages) /\ MessagesAreIssued'
      <3>1. MessageOK(Message("close", 0))' /\ Message("close", 0) \in Messages
        BY SentMessages DEF MessageOK, Message
      <3> QED
        BY <1>6, <3>1, MailboxGrows DEF SendClose, actor_vars
    <2>2. TypeOK'
      BY <1>0, <1>6, <2>1 DEF SendClose, TypeOK, bound_vars, actor_vars, log_vars, flag_vars
    <2> QED
      BY <2>1, <2>2 DEF Typed
  <1> QED
    BY <1>1, <1>2, <1>3, <1>4, <1>5, <1>6 DEF ClientNext

-------------------------------------------------------------------------------
(* The log of the actor keeps its type.                                      *)
LogTyped ==
  /\ logged \subseteq EventIds
  /\ flushed \in 0 .. MaxEventId /\ durable \in 0 .. MaxEventId
  /\ need_sync \in BOOLEAN /\ file_empty \in BOOLEAN /\ keyed \in BOOLEAN
  /\ index_empty \in BOOLEAN /\ skipped \in 0 .. MaxEventId

(* Flush, sync and reindex keep the types of the log,                        *)
LEMMA WholeLogTyped ==
  ASSUME Typed, Flush \/ Sync \/ (Reindex /\ keyed' \in BOOLEAN)
  PROVE  LogTyped'
  <1> USE ConcurrentBinlogAssumption
  <1>1. /\ begin \in 1 .. MaxEventId + 1 /\ logged \subseteq EventIds
        /\ durable \in 0 .. MaxEventId /\ need_sync \in BOOLEAN /\ file_empty \in BOOLEAN
        /\ keyed \in BOOLEAN /\ index_empty \in BOOLEAN /\ skipped \in 0 .. MaxEventId
    BY DEF Typed, TypeOK
  <1>2. Last \in 0 .. MaxEventId
    BY <1>1 DEF Last
  <1>3. flushed' \in 0 .. MaxEventId /\ durable' \in 0 .. MaxEventId /\ logged' \subseteq EventIds
    BY <1>1, <1>2 DEF Flush, Sync, Reindex
  <1>4. /\ need_sync' \in BOOLEAN /\ file_empty' \in BOOLEAN /\ keyed' \in BOOLEAN
        /\ index_empty' \in BOOLEAN
    BY <1>1, Zenon DEF Flush, Sync, Reindex
  <1>5. skipped' \in 0 .. MaxEventId
    BY <1>1, <1>2 DEF Flush, Sync, Reindex
  <1> QED
    BY <1>3, <1>4, <1>5 DEF LogTyped

(* and so does adding events.                                                *)
LEMMA AddedLogTyped ==
  ASSUME Typed, NEW new \in SUBSET EventIds, NEW upto, NEW f \in 0 .. MaxEventId,
         NEW d \in 0 .. MaxEventId, AddEvents(new, upto, f, d)
  PROVE  LogTyped'
  <1>1. /\ logged \subseteq EventIds /\ need_sync \in BOOLEAN /\ file_empty \in BOOLEAN
        /\ keyed \in BOOLEAN /\ index_empty \in BOOLEAN /\ skipped \in 0 .. MaxEventId
    BY DEF Typed, TypeOK
  <1>2. /\ logged' \subseteq EventIds /\ flushed' = f /\ durable' = d
        /\ keyed' = keyed /\ skipped' = skipped
    BY <1>1 DEF AddEvents
  <1>3. need_sync' \in BOOLEAN /\ file_empty' \in BOOLEAN
    BY <1>1, Zenon DEF AddEvents
  <1>4. index_empty' \in BOOLEAN
    BY <1>1, Zenon DEF AddEvents, NothingLive
  <1> QED
    BY <1>1, <1>2, <1>3, <1>4 DEF LogTyped

(* Taking a message: what is left in the mailbox was in it.                  *)
LEMMA ReceiveFacts ==
  ASSUME Typed, NEW op, Receive(op)
  PROVE  /\ Head(mailbox) \in Messages /\ Head(mailbox).op = op /\ MessageOK(Head(mailbox))
         /\ mailbox' \in Seq(Messages) /\ Len(mailbox) \in Nat /\ Len(mailbox) >= 1
         /\ Len(mailbox') = Len(mailbox) - 1 /\ Head(mailbox) = mailbox[1]
         /\ \A i \in 1 .. Len(mailbox') : mailbox'[i] = mailbox[i + 1]
         /\ \A i \in 1 .. Len(mailbox') : MessageOK(mailbox[i])'
         /\ UNCHANGED client_vars /\ ~stopped
  <1>1. mailbox \in Seq(Messages) /\ \A i \in 1 .. Len(mailbox) : MessageOK(mailbox[i])
    BY DEF Typed, TypeOK, MessagesAreIssued
  <1>2. /\ mailbox # << >> /\ mailbox' = Tail(mailbox) /\ Head(mailbox).op = op
        /\ UNCHANGED client_vars /\ ~stopped
    BY DEF Receive
  <1>3. /\ mailbox' \in Seq(Messages) /\ Len(mailbox) \in Nat /\ Len(mailbox) >= 1
        /\ Len(mailbox') = Len(mailbox) - 1
        /\ Head(mailbox) = mailbox[1] /\ Head(mailbox) \in Messages
        /\ \A i \in 1 .. Len(mailbox') : mailbox'[i] = mailbox[i + 1]
    BY <1>1, <1>2, TailFacts
  <1>4. ASSUME NEW i \in 1 .. Len(mailbox') PROVE MessageOK(mailbox[i])'
    <2>1. i + 1 \in 1 .. Len(mailbox) /\ mailbox'[i] = mailbox[i + 1]
      BY <1>3
    <2> QED
      BY <2>1, <1>1, <1>2 DEF MessageOK, client_vars
  <1>5. MessageOK(Head(mailbox))
    BY <1>1, <1>3
  <1> QED
    BY <1>2, <1>3, <1>4, <1>5

(* What is left to show of a step of the actor for types.                    *)
LEMMA ActorTyped ==
  ASSUME Typed, LogTyped', UNCHANGED client_vars,
         mailbox' \in Seq(Messages), \A i \in 1 .. Len(mailbox') : MessageOK(mailbox[i])',
         begin' \in 1 .. MaxEventId + 1,
         early' \subseteq Messages, \A e \in early' : e.op = "add" /\ MessageOK(e),
         sync_promises' \subseteq issued, done' \subseteq issued,
         immediate_sync_promises' \subseteq (EventIds \X issued),
         force_sync_flag' \in BOOLEAN, lazy_sync_flag' \in BOOLEAN, flush_flag' \in BOOLEAN,
         wakeup_at' \in BOOLEAN, stopped' \in BOOLEAN
  PROVE  Typed'
  <1>1. issued \subseteq Promises
    BY DEF Typed, TypeOK
  <1>2. sync_promises' \subseteq Promises /\ immediate_sync_promises' \subseteq (EventIds \X Promises)
    BY <1>1
  <1>3. /\ last_event_id' \in 1 .. MaxEventId + 1
        /\ holding' \in [Clients -> SUBSET EventIds] /\ sent' \in [Clients -> 0 .. MaxEventId]
        /\ closing' \in BOOLEAN /\ syncs' \in 0 .. MaxSyncs /\ key_changes' \in 0 .. MaxKeyChanges
        /\ covers' \in [Promises -> 0 .. MaxEventId] /\ issued' \subseteq Promises /\ issued' = issued
    BY DEF Typed, TypeOK, client_vars, bound_vars
  <1>4. TypeOK'
    BY <1>2, <1>3 DEF TypeOK, LogTyped
  <1>5. MessagesAreIssued'
    <2>1. \A e \in early' : e.op = "add" /\ MessageOK(e)'
      BY <1>3 DEF MessageOK
    <2>2. \A w \in immediate_sync_promises' : w[2] \in issued
      OBVIOUS
    <2> QED
      BY <1>3, <2>1, <2>2 DEF MessagesAreIssued
  <1> QED
    BY <1>4, <1>5 DEF Typed

-------------------------------------------------------------------------------
(* The messages that run when the next number comes.                         *)
RunOf(n) == {Head(mailbox)} \cup {e \in early : e.seq_no < n}
NewOf(n) == {e.seq_no : e \in {r \in RunOf(n) : r.raw}}
LazyOf(n) == {<<"event", e.seq_no>> : e \in {r \in RunOf(n) : r.promise}}

(* ReceiveNext without its local definitions.                                *)
NextStep(n, f, d) ==
  LET unblocked == Unblocked(n)
      force == force_sync_flag \/ unblocked # {}
  IN /\ ReadyUpTo(n)
     /\ begin' = n
     /\ early' = early \ RunOf(n)
     /\ AddEvents(NewOf(n), n - 1, f, d)
     /\ sync_promises' = sync_promises \cup LazyOf(n) \cup {w[2] : w \in unblocked}
     /\ immediate_sync_promises' = immediate_sync_promises \ unblocked
     /\ lazy_sync_flag' = (lazy_sync_flag \/ (LazyOf(n) # {} /\ ~force_sync_flag))
     /\ force_sync_flag' = force
     /\ DelayFlush({k \in logged \cup NewOf(n) : f < k} # {}, force)
     /\ wakeup_at' = (wakeup_at \/ lazy_sync_flag' \/ force \/ flush_flag')

(* ReceiveNext in the form of NextStep.                                      *)
LEMMA ReceiveNextStep ==
  ASSUME Typed, ReceiveNext
  PROVE  \E n \in begin + 1 .. MaxEventId + 1, f, d \in 0 .. MaxEventId :
           /\ NextStep(n, f, d)
           /\ Receive("add") /\ Head(mailbox).seq_no = begin /\ UNCHANGED <<stopped, done>>
  BY DEF ReceiveNext, NextStep, RunOf, NewOf, LazyOf

(* The messages that run are events in range whose promises were issued.     *)
LEMMA RunFacts ==
  ASSUME Typed, Receive("add"), Head(mailbox).seq_no = begin,
         NEW n \in begin + 1 .. MaxEventId + 1
  PROVE  /\ begin \in Nat /\ n \in Nat /\ begin < n
         /\ \A r \in RunOf(n) : /\ r.seq_no \in EventIds /\ r.seq_no < n
                                /\ r.promise => <<"event", r.seq_no>> \in issued
         /\ NewOf(n) \subseteq EventIds /\ LazyOf(n) \subseteq issued
         /\ \A k \in NewOf(n) : k < n
         /\ \A p \in LazyOf(n) : \E k \in EventIds : k < n /\ p = <<"event", k>>
  <1> USE ConcurrentBinlogAssumption
  <1>1. begin \in Nat /\ n \in Nat /\ begin < n
    BY DEF Typed, TypeOK
  <1>2. MessageOK(Head(mailbox)) /\ Head(mailbox).op = "add"
    BY ReceiveFacts
  <1>3. \A e \in early : e.op = "add" /\ MessageOK(e)
    BY DEF Typed, MessagesAreIssued
  <1>4. \A r \in RunOf(n) : /\ r.seq_no \in EventIds /\ r.seq_no < n
                            /\ r.promise => <<"event", r.seq_no>> \in issued
    BY <1>1, <1>2, <1>3 DEF RunOf, MessageOK
  <1>5. NewOf(n) \subseteq EventIds /\ \A k \in NewOf(n) : k < n
    BY <1>4 DEF NewOf
  <1>6. /\ LazyOf(n) \subseteq issued
        /\ \A p \in LazyOf(n) : \E k \in EventIds : k < n /\ p = <<"event", k>>
    BY <1>4 DEF LazyOf
  <1> QED
    BY <1>1, <1>4, <1>5, <1>6

(* Running the next number keeps types: what runs was issued.                *)
LEMMA TypedNext ==
  ASSUME Typed, ReceiveNext
  PROVE  Typed'
  <1> USE ConcurrentBinlogAssumption
  <1>1. PICK n \in begin + 1 .. MaxEventId + 1, f \in 0 .. MaxEventId, d \in 0 .. MaxEventId :
          /\ NextStep(n, f, d)
          /\ Receive("add") /\ Head(mailbox).seq_no = begin /\ UNCHANGED <<stopped, done>>
    BY ReceiveNextStep
  <1>2. TypeOK /\ MessagesAreIssued
    BY DEF Typed
  <1>3. NewOf(n) \subseteq EventIds /\ LazyOf(n) \subseteq issued
    BY <1>1, RunFacts
  <1>4. LogTyped'
    BY <1>1, <1>3, AddedLogTyped DEF NextStep
  <1>5. begin' \in 1 .. MaxEventId + 1
    BY <1>1, <1>2 DEF NextStep, TypeOK
  <1>6. early' \subseteq Messages /\ \A e \in early' : e.op = "add" /\ MessageOK(e)
    BY <1>1, <1>2 DEF NextStep, TypeOK, MessagesAreIssued
  <1>7. sync_promises' \subseteq issued /\ immediate_sync_promises' \subseteq (EventIds \X issued)
    <2>1. \A w \in immediate_sync_promises : w \in EventIds \X Promises /\ w[2] \in issued
      BY <1>2 DEF TypeOK, MessagesAreIssued
    <2>2. \A w \in immediate_sync_promises : w \in EventIds \X issued
      BY <2>1
    <2> QED
      BY <1>1, <1>2, <1>3, <2>1, <2>2 DEF NextStep, MessagesAreIssued, Unblocked
  <1>8. /\ force_sync_flag' \in BOOLEAN /\ lazy_sync_flag' \in BOOLEAN /\ flush_flag' \in BOOLEAN
        /\ wakeup_at' \in BOOLEAN
    BY <1>1, Zenon DEF NextStep, DelayFlush
  <1>9. stopped' \in BOOLEAN /\ done' \subseteq issued
    BY <1>1, <1>2 DEF TypeOK
  <1> QED
    BY <1>1, <1>4, <1>5, <1>6, <1>7, <1>8, <1>9, ReceiveFacts, ActorTyped

(* Every step of the actor keeps types.                                      *)
LEMMA TypedActor ==
  ASSUME Typed, ReceiveMessage \/ TimeoutSync \/ TimeoutFlush
  PROVE  Typed'
  <1> USE ConcurrentBinlogAssumption
  <1>1. /\ begin \in 1 .. MaxEventId + 1 /\ early \subseteq Messages
        /\ force_sync_flag \in BOOLEAN /\ lazy_sync_flag \in BOOLEAN /\ flush_flag \in BOOLEAN
        /\ wakeup_at \in BOOLEAN /\ stopped \in BOOLEAN
        /\ \A e \in early : e.op = "add" /\ MessageOK(e)
        /\ sync_promises \subseteq issued /\ done \subseteq issued
        /\ mailbox \in Seq(Messages) /\ \A i \in 1 .. Len(mailbox) : MessageOK(mailbox[i])
    BY DEF Typed, TypeOK, MessagesAreIssued
  <1>2. immediate_sync_promises \subseteq (EventIds \X issued)
    <2>1. \A w \in immediate_sync_promises : w \in EventIds \X Promises /\ w[2] \in issued
      BY DEF Typed, TypeOK, MessagesAreIssued
    <2> QED
      BY <2>1
  <1>3. LogTyped
    BY DEF Typed, TypeOK, LogTyped
  <1>4. CASE ReceiveNext
    BY <1>4, TypedNext
  <1>5. CASE ReceiveEarly
    <2>1. Receive("add")
      BY <1>5 DEF ReceiveEarly
    <2>2. LogTyped'
      BY <1>3, <1>5, WholeLogTyped DEF ReceiveEarly, log_vars, LogTyped
    <2>3. /\ early' \subseteq Messages /\ \A e \in early' : e.op = "add" /\ MessageOK(e)
      BY <1>1, <1>5, <2>1, ReceiveFacts DEF ReceiveEarly
    <2>4. flush_flag' \in BOOLEAN /\ wakeup_at' \in BOOLEAN
      BY <1>1, <1>5, Zenon DEF ReceiveEarly, DelayFlush
    <2>5. UNCHANGED <<begin, sync_promises, immediate_sync_promises, force_sync_flag,
                      lazy_sync_flag, stopped, done>>
      BY <1>5 DEF ReceiveEarly
    <2> QED
      BY <1>1, <1>2, <2>1, <2>2, <2>3, <2>4, <2>5, ReceiveFacts, ActorTyped
  <1>6. CASE ReceiveForceSync
    <2>1. Receive("force_sync")
      BY <1>6 DEF ReceiveForceSync
    <2>2. <<"force_sync", Head(mailbox).seq_no>> \in issued
      BY <2>1, ReceiveFacts DEF MessageOK
    <2>3. sync_promises' \subseteq issued
      BY <1>1, <1>6, <2>2 DEF ReceiveForceSync
    <2>4. immediate_sync_promises' \subseteq (EventIds \X issued)
      <3>1. CASE early = {}
        BY <1>2, <1>6, <3>1 DEF ReceiveForceSync
      <3>2. CASE early # {}
        <4>1. PICK last \in early :
                immediate_sync_promises' = immediate_sync_promises \cup
                  {<<last.seq_no, <<"force_sync", Head(mailbox).seq_no>>>>}
          BY <1>6, <3>2 DEF ReceiveForceSync
        <4>2. last.seq_no \in EventIds
          BY <1>1, <4>1 DEF MessageOK
        <4> QED
          BY <1>2, <2>2, <4>1, <4>2
      <3> QED
        BY <3>1, <3>2
    <2>5. force_sync_flag' \in BOOLEAN /\ wakeup_at' \in BOOLEAN
      BY <1>1, <1>6 DEF ReceiveForceSync
    <2>6. LogTyped'
      BY <1>3, <1>6 DEF ReceiveForceSync, log_vars, LogTyped
    <2>7. UNCHANGED <<begin, early, lazy_sync_flag, flush_flag, stopped, done>>
      BY <1>6 DEF ReceiveForceSync
    <2> QED
      BY <1>1, <2>1, <2>3, <2>4, <2>5, <2>6, <2>7, ReceiveFacts, ActorTyped
  <1>7. CASE ReceiveForceFlush
    <2>1. Receive("force_flush") /\ LogTyped'
      BY <1>7, WholeLogTyped DEF ReceiveForceFlush
    <2>2. flush_flag' \in BOOLEAN
      BY <1>7 DEF ReceiveForceFlush
    <2>3. UNCHANGED <<begin, early, sync_promises, immediate_sync_promises,
                      force_sync_flag, lazy_sync_flag, wakeup_at, stopped, done>>
      BY <1>7 DEF ReceiveForceFlush
    <2> QED
      BY <1>1, <1>2, <2>1, <2>2, <2>3, ReceiveFacts, ActorTyped
  <1>8. CASE ReceiveChangeKey
    <2>1. Receive("change_key") /\ LogTyped'
      BY <1>3, <1>8, WholeLogTyped DEF ReceiveChangeKey, LogTyped
    <2>2. UNCHANGED <<begin, early, sync_promises, immediate_sync_promises, flush_flag,
                      force_sync_flag, lazy_sync_flag, wakeup_at, stopped, done>>
      BY <1>8 DEF ReceiveChangeKey, flag_vars
    <2> QED
      BY <1>1, <1>2, <2>1, <2>2, ReceiveFacts, ActorTyped
  <1>9. CASE ReceiveClose
    <2>1. Receive("close") /\ LogTyped' /\ stopped' \in BOOLEAN
      BY <1>9, WholeLogTyped DEF ReceiveClose
    <2>2. UNCHANGED <<begin, early, sync_promises, immediate_sync_promises, flush_flag,
                      force_sync_flag, lazy_sync_flag, wakeup_at, done>>
      BY <1>9 DEF ReceiveClose, flag_vars
    <2> QED
      BY <1>1, <1>2, <2>1, <2>2, ReceiveFacts, ActorTyped
  <1>10. CASE TimeoutSync
    <2>1. LogTyped'
      BY <1>10, WholeLogTyped DEF TimeoutSync
    <2>2. /\ done' \subseteq issued /\ sync_promises' = {}
          /\ force_sync_flag' \in BOOLEAN /\ lazy_sync_flag' \in BOOLEAN
          /\ flush_flag' \in BOOLEAN /\ wakeup_at' \in BOOLEAN
      BY <1>1, <1>10 DEF TimeoutSync
    <2>3. /\ UNCHANGED <<mailbox, begin, early, immediate_sync_promises, stopped>>
          /\ UNCHANGED client_vars
      BY <1>10 DEF TimeoutSync
    <2>4. \A i \in 1 .. Len(mailbox') : MessageOK(mailbox[i])'
      BY <1>1, <2>3 DEF MessageOK, client_vars
    <2> QED
      BY <1>1, <1>2, <2>1, <2>2, <2>3, <2>4, ActorTyped
  <1>11. CASE TimeoutFlush
    <2>1. LogTyped'
      BY <1>3, <1>11, WholeLogTyped DEF TimeoutFlush, log_vars, LogTyped
    <2>2. flush_flag' \in BOOLEAN /\ wakeup_at' \in BOOLEAN
      BY <1>11 DEF TimeoutFlush
    <2>3. /\ UNCHANGED <<mailbox, begin, early, sync_promises, immediate_sync_promises,
                         force_sync_flag, lazy_sync_flag, stopped, done>>
          /\ UNCHANGED client_vars
      BY <1>11 DEF TimeoutFlush
    <2>4. \A i \in 1 .. Len(mailbox') : MessageOK(mailbox[i])'
      BY <1>1, <2>3 DEF MessageOK, client_vars
    <2> QED
      BY <1>1, <1>2, <2>1, <2>2, <2>3, <2>4, ActorTyped
  <1> QED
    BY <1>4, <1>5, <1>6, <1>7, <1>8, <1>9, <1>10, <1>11 DEF ReceiveMessage

(* The mailbox and all promises are what the threads have sent and issued.   *)
THEOREM TypedAlways == Spec => []Typed
  <1>1. Typed /\ [Next]_vars => Typed'
    <2> SUFFICES ASSUME Typed, [Next]_vars PROVE Typed'
      OBVIOUS
    <2>1. CASE UNCHANGED vars
      BY <2>1 DEF Typed, TypeOK, MessagesAreIssued, MessageOK, vars, client_vars, bound_vars,
                  actor_vars, log_vars, flag_vars
    <2> QED
      BY <2>1, TypedClient, TypedActor DEF Next
  <1> QED
    BY TypedInit, <1>1, PTL DEF Spec

(* Type correctness of the actor and its users (ConcurrentBinlog.cpp:19-219). *)
THEOREM TypeCorrect == Spec => []TypeOK
  <1>1. Typed => TypeOK
    BY DEF Typed
  <1> QED
    BY TypedAlways, <1>1, PTL

-------------------------------------------------------------------------------
(* Flush, sync and reindex write all that has run.                           *)
LEMMA WholeLogWritten ==
  ASSUME Typed, LogIsBehind, Flush \/ Sync \/ Reindex, begin' = begin
  PROVE  LogIsBehind' /\ Unwritten(flushed)' = {}
  <1>1. begin \in Nat /\ begin >= 1 /\ logged \subseteq Nat
    BY ConcurrentBinlogAssumption DEF Typed, TypeOK, EventIds
  <1>2. flushed' = begin - 1 /\ logged' = logged
    BY DEF Flush, Sync, Reindex, Last
  <1>3. \A n \in logged : n < begin
    BY DEF LogIsBehind
  <1>4. \A n \in logged : ~(begin - 1 < n)
    BY <1>1, <1>3
  <1>5. Unwritten(flushed)' = {}
    BY <1>2, <1>4 DEF Unwritten
  <1>6. flushed' < begin'
    BY <1>1, <1>2
  <1> QED
    BY <1>2, <1>3, <1>5, <1>6 DEF LogIsBehind

(* Adding events that have run keeps the log behind the next number.         *)
LEMMA AddedLogBehind ==
  ASSUME Typed, LogIsBehind, Receive("add"), Head(mailbox).seq_no = begin,
         NEW n \in begin + 1 .. MaxEventId + 1, NEW f \in 0 .. MaxEventId, NEW d \in 0 .. MaxEventId,
         NextStep(n, f, d)
  PROVE  LogIsBehind'
  <1>1. begin \in Nat /\ n \in Nat /\ begin < n /\ flushed \in Nat /\ logged \subseteq Nat
    BY RunFacts, ConcurrentBinlogAssumption DEF Typed, TypeOK, EventIds
  <1>2. \A k \in NewOf(n) : k < n
    BY RunFacts
  <1>3. begin' = n /\ logged' = logged \cup NewOf(n) /\ flushed' = f /\ f \in {flushed, n - 1} \cup NewOf(n)
    BY DEF NextStep, AddEvents
  <1> QED
    BY <1>1, <1>2, <1>3 DEF LogIsBehind

(* Running the next number raises a flag for what it leaves to do.           *)
LEMMA TimerNext ==
  ASSUME Typed, TimerInv, ReceiveNext
  PROVE  TimerInv'
  <1>1. PICK n \in begin + 1 .. MaxEventId + 1, f \in 0 .. MaxEventId, d \in 0 .. MaxEventId :
          /\ NextStep(n, f, d)
          /\ Receive("add") /\ Head(mailbox).seq_no = begin /\ UNCHANGED <<stopped, done>>
    BY ReceiveNextStep
  <1>2. LogIsBehind'
    BY <1>1, AddedLogBehind DEF TimerInv
  <1>3. Unwritten(flushed)' = {k \in logged \cup NewOf(n) : f < k}
    BY <1>1 DEF NextStep, AddEvents, Unwritten
  <1>4. ~stopped /\ (sync_promises # {} => lazy_sync_flag \/ force_sync_flag)
    BY <1>1, ReceiveFacts DEF TimerInv, WaitingWorkHasTimer
  <1>5. force_sync_flag' = (force_sync_flag \/ Unblocked(n) # {})
    BY <1>1 DEF NextStep
  <1>6. sync_promises' # {} => lazy_sync_flag' \/ force_sync_flag'
    <2>1. /\ sync_promises' = sync_promises \cup LazyOf(n) \cup {w[2] : w \in Unblocked(n)}
          /\ lazy_sync_flag' = (lazy_sync_flag \/ (LazyOf(n) # {} /\ ~force_sync_flag))
      BY <1>1 DEF NextStep
    <2> QED
      BY <1>4, <1>5, <2>1, Zenon
  <1>7. Unwritten(flushed)' # {} => lazy_sync_flag' \/ force_sync_flag' \/ flush_flag'
    <2>1. flush_flag' = (flush_flag \/ ({k \in logged \cup NewOf(n) : f < k} # {} /\ ~force_sync_flag'))
      BY <1>1, <1>5, Zenon DEF NextStep, DelayFlush
    <2> QED
      BY <1>3, <2>1, Zenon
  <1>8. lazy_sync_flag' \/ force_sync_flag' \/ flush_flag' => wakeup_at'
    BY <1>1, Zenon DEF NextStep
  <1> QED
    BY <1>2, <1>6, <1>7, <1>8, Zenon DEF TimerInv, WaitingWorkHasTimer

(* No step leaves work without a flag, or a flag without the timer.          *)
LEMMA TimerStep ==
  ASSUME Typed, TimerInv, [Next]_vars
  PROVE  TimerInv'
  <1>1. CASE ReceiveNext
    BY <1>1, TimerNext
  <1>2. CASE ReceiveEarly
    <2>1. UNCHANGED <<begin, sync_promises, force_sync_flag, lazy_sync_flag, stopped>>
      BY <1>2 DEF ReceiveEarly
    <2>2. CASE Flush /\ UNCHANGED <<flush_flag, wakeup_at>>
      <3>1. LogIsBehind' /\ Unwritten(flushed)' = {}
        BY <2>1, <2>2, WholeLogWritten DEF TimerInv
      <3> QED
        BY <2>1, <2>2, <3>1, Zenon DEF TimerInv, WaitingWorkHasTimer
    <2>3. CASE /\ DelayFlush(TRUE, force_sync_flag)
               /\ wakeup_at' = (wakeup_at \/ flush_flag')
               /\ UNCHANGED log_vars
      <3>1. LogIsBehind'
        BY <2>1, <2>3 DEF TimerInv, LogIsBehind, log_vars
      <3>2. flush_flag' = (flush_flag \/ ~force_sync_flag)
        BY <2>3, Zenon DEF DelayFlush
      <3> QED
        BY <2>1, <2>3, <3>1, <3>2, Zenon DEF TimerInv, WaitingWorkHasTimer
    <2> QED
      BY <1>2, <2>2, <2>3 DEF ReceiveEarly
  <1>3. CASE ReceiveForceSync
    <2>1. UNCHANGED <<begin, lazy_sync_flag, flush_flag, stopped>> /\ UNCHANGED log_vars
      BY <1>3 DEF ReceiveForceSync
    <2>2. LogIsBehind' /\ Unwritten(flushed)' = Unwritten(flushed)
      BY <2>1 DEF TimerInv, LogIsBehind, log_vars, Unwritten
    <2>3. CASE early = {}
      <3>1. force_sync_flag' /\ wakeup_at'
        BY <1>3, <2>3 DEF ReceiveForceSync
      <3> QED
        BY <2>2, <3>1 DEF TimerInv, WaitingWorkHasTimer
    <2>4. CASE early # {}
      <3>1. UNCHANGED <<sync_promises, force_sync_flag, wakeup_at>>
        BY <1>3, <2>4 DEF ReceiveForceSync
      <3> QED
        BY <2>1, <2>2, <3>1, Zenon DEF TimerInv, WaitingWorkHasTimer
    <2> QED
      BY <2>3, <2>4
  <1>4. CASE ReceiveForceFlush
    <2>1. UNCHANGED <<begin, sync_promises, force_sync_flag, lazy_sync_flag, wakeup_at, stopped>>
      BY <1>4 DEF ReceiveForceFlush
    <2>2. LogIsBehind' /\ Unwritten(flushed)' = {} /\ flush_flag' = FALSE
      BY <1>4, <2>1, WholeLogWritten DEF TimerInv, ReceiveForceFlush
    <2> QED
      BY <2>1, <2>2, Zenon DEF TimerInv, WaitingWorkHasTimer
  <1>5. CASE ReceiveChangeKey
    <2>1. UNCHANGED <<begin, sync_promises, force_sync_flag, lazy_sync_flag, flush_flag,
                      wakeup_at, stopped>>
      BY <1>5 DEF ReceiveChangeKey, flag_vars
    <2>2. CASE Reindex
      <3>1. LogIsBehind' /\ Unwritten(flushed)' = {}
        BY <2>1, <2>2, WholeLogWritten DEF TimerInv
      <3> QED
        BY <2>1, <3>1, Zenon DEF TimerInv, WaitingWorkHasTimer
    <2>3. CASE UNCHANGED <<logged, flushed>>
      <3>1. LogIsBehind' /\ Unwritten(flushed)' = Unwritten(flushed)
        BY <2>1, <2>3 DEF TimerInv, LogIsBehind, Unwritten
      <3> QED
        BY <2>1, <3>1, Zenon DEF TimerInv, WaitingWorkHasTimer
    <2> QED
      BY <1>5, <2>2, <2>3 DEF ReceiveChangeKey
  <1>6. CASE ReceiveClose
    <2>1. begin' = begin /\ stopped' = TRUE
      BY <1>6 DEF ReceiveClose
    <2>2. LogIsBehind'
      BY <1>6, <2>1, WholeLogWritten DEF TimerInv, ReceiveClose
    <2> QED
      BY <2>1, <2>2 DEF TimerInv, WaitingWorkHasTimer
  <1>7. CASE TimeoutSync
    <2>1. /\ begin' = begin /\ sync_promises' = {} /\ lazy_sync_flag' = FALSE
          /\ force_sync_flag' = FALSE /\ flush_flag' = FALSE
      BY <1>7 DEF TimeoutSync
    <2>2. LogIsBehind' /\ Unwritten(flushed)' = {}
      BY <1>7, <2>1, WholeLogWritten DEF TimerInv, TimeoutSync
    <2> QED
      BY <2>1, <2>2 DEF TimerInv, WaitingWorkHasTimer
  <1>8. CASE TimeoutFlush
    <2>1. /\ UNCHANGED <<begin, sync_promises, force_sync_flag, lazy_sync_flag, stopped>>
          /\ flush_flag' = FALSE /\ ~stopped /\ ~lazy_sync_flag /\ ~force_sync_flag
      BY <1>8 DEF TimeoutFlush
    <2>2. sync_promises = {}
      BY <2>1 DEF TimerInv, WaitingWorkHasTimer
    <2>3. LogIsBehind' /\ Unwritten(flushed)' = {}
      <3>1. CASE flush_flag
        BY <1>8, <2>1, <3>1, WholeLogWritten DEF TimerInv, TimeoutFlush
      <3>2. CASE ~flush_flag
        <4>1. UNCHANGED log_vars
          BY <1>8, <3>2 DEF TimeoutFlush
        <4>2. Unwritten(flushed) = {}
          BY <2>1, <3>2 DEF TimerInv, WaitingWorkHasTimer
        <4> QED
          BY <2>1, <4>1, <4>2 DEF TimerInv, LogIsBehind, log_vars, Unwritten
      <3> QED
        BY <3>1, <3>2
    <2> QED
      BY <2>1, <2>2, <2>3 DEF TimerInv, WaitingWorkHasTimer
  <1>9. CASE ClientNext \/ UNCHANGED vars
    <2>1. UNCHANGED actor_vars
      BY <1>9 DEF ClientNext, TakeIds, SendAdd, SendForceSync, SendForceFlush, SendChangeKey,
                  SendClose, vars
    <2> QED
      BY <2>1 DEF TimerInv, WaitingWorkHasTimer, LogIsBehind, Unwritten, actor_vars, log_vars,
                  flag_vars
  <1> QED
    BY <1>1, <1>2, <1>3, <1>4, <1>5, <1>6, <1>7, <1>8, <1>9 DEF Next, ReceiveMessage

(* Waiting work has its timer, and only what has run is in the log            *)
(* (ConcurrentBinlog.cpp:98-171).                                             *)
THEOREM TimerAlways == Spec => []TimerInv
  <1>1. Init => TimerInv
    BY DEF Init, TimerInv, WaitingWorkHasTimer, LogIsBehind, Unwritten
  <1>2. Typed /\ TimerInv /\ [Next]_vars => TimerInv'
    BY TimerStep
  <1> QED
    BY <1>1, <1>2, TypedAlways, PTL DEF Spec

(* No wakeup is lost: whatever waits for a sync or a flush has the actor's    *)
(* only timer armed for it (ConcurrentBinlog.cpp:98-171).                    *)
THEOREM NoWakeupIsLost == Spec => []WaitingWorkHasTimer
  <1>1. TimerInv => WaitingWorkHasTimer
    BY DEF TimerInv
  <1> QED
    BY TimerAlways, <1>1, PTL

-------------------------------------------------------------------------------
(* Nothing is held, issued or stored at first.                               *)
LEMMA OrderInit == Init => OrderInv
  <1> SUFFICES ASSUME Init PROVE OrderInv
    OBVIOUS
  <1> USE ConcurrentBinlogAssumption DEF Init
  <1>1. NumbersAreFresh
    BY DEF NumbersAreFresh
  <1>2. EarlyIsAhead /\ PromisesAreCovered
    BY DEF EarlyIsAhead, PromisesAreCovered
  <1>3. SyncsFollowTheirEvents
    BY DEF SyncsFollowTheirEvents, Reached
  <1> QED
    BY <1>1, <1>2, <1>3 DEF OrderInv

(* A message that is sent comes after all that was sent before.              *)
LEMMA FollowsWhenSent ==
  ASSUME Typed, SyncsFollowTheirEvents, NEW m \in Messages, mailbox' = Append(mailbox, m),
         UNCHANGED <<begin, early>>,
         sent' \in [Clients -> 0 .. MaxEventId],
         \A c \in Clients : \/ sent'[c] = sent[c]
                            \/ m.op = "add" /\ sent'[c] = m.seq_no,
         \A k \in 1 .. MaxSyncs : <<"force_sync", k>> \in issued =>
           covers'[<<"force_sync", k>>] = covers[<<"force_sync", k>>],
         m.op = "force_sync" =>
           \E c \in Clients : covers'[<<"force_sync", m.seq_no>>] = sent[c]
  PROVE  SyncsFollowTheirEvents'
  <1>1. mailbox \in Seq(Messages) /\ \A i \in 1 .. Len(mailbox) : MessageOK(mailbox[i])
    BY DEF Typed, TypeOK, MessagesAreIssued
  <1>2. /\ mailbox' \in Seq(Messages) /\ Len(mailbox) \in Nat /\ Len(mailbox') = Len(mailbox) + 1
        /\ \A i \in 1 .. Len(mailbox) : mailbox'[i] = mailbox[i]
        /\ mailbox'[Len(mailbox) + 1] = m
    BY <1>1, AppendFacts
  <1>3. ASSUME NEW x, NEW k \in 0 .. Len(mailbox), Reached(x, k)
        PROVE  x < begin' \/ (\E e \in early' : x <= e.seq_no)
                 \/ \E j \in 1 .. k : mailbox'[j].op = "add" /\ x <= mailbox'[j].seq_no
    <2>1. 1 .. k \subseteq 1 .. Len(mailbox)
      BY <1>2
    <2> QED
      BY <1>2, <1>3, <2>1 DEF Reached
  <1>4. ASSUME NEW c \in Clients PROVE Reached(sent[c], Len(mailbox))'
    <2>1. CASE sent'[c] = sent[c]
      <3>1. Reached(sent[c], Len(mailbox)) /\ Len(mailbox) \in 0 .. Len(mailbox)
        BY <1>2 DEF SyncsFollowTheirEvents
      <3>2. 1 .. Len(mailbox) \subseteq 1 .. Len(mailbox')
        BY <1>2
      <3> QED
        BY <1>3, <2>1, <3>1, <3>2 DEF Reached
    <2>2. CASE m.op = "add" /\ sent'[c] = m.seq_no
      <3>1. Len(mailbox) + 1 \in 1 .. Len(mailbox') /\ sent'[c] <= m.seq_no
        BY <1>2, <2>2
      <3> QED
        BY <1>2, <2>2, <3>1 DEF Reached
    <2> QED
      BY <2>1, <2>2
  <1>5. ASSUME NEW i \in 1 .. Len(mailbox'), mailbox'[i].op = "force_sync"
        PROVE  Reached(covers[<<"force_sync", mailbox[i].seq_no>>], i - 1)'
    <2>1. CASE i \in 1 .. Len(mailbox)
      <3>1. mailbox'[i] = mailbox[i] /\ mailbox[i].op = "force_sync" /\ i - 1 \in 0 .. Len(mailbox)
        BY <1>2, <1>5, <2>1
      <3>2. /\ mailbox[i].seq_no \in 1 .. MaxSyncs
            /\ <<"force_sync", mailbox[i].seq_no>> \in issued
        BY <1>1, <2>1, <3>1 DEF MessageOK
      <3>3. Reached(covers[<<"force_sync", mailbox[i].seq_no>>], i - 1)
        BY <2>1, <3>1 DEF SyncsFollowTheirEvents
      <3> QED
        BY <1>3, <3>1, <3>2, <3>3 DEF Reached
    <2>2. CASE i = Len(mailbox) + 1
      <3>1. PICK c \in Clients : covers'[<<"force_sync", m.seq_no>>] = sent[c]
        BY <1>2, <1>5, <2>2
      <3>2. Reached(sent[c], Len(mailbox))
        BY DEF SyncsFollowTheirEvents
      <3>3. Len(mailbox) \in 0 .. Len(mailbox) /\ i - 1 = Len(mailbox)
        BY <1>2, <2>2
      <3>4. covers'[<<"force_sync", mailbox'[i].seq_no>>] = sent[c]
        BY <1>2, <2>2, <3>1
      <3>5. \/ sent[c] < begin' \/ \E e \in early' : sent[c] <= e.seq_no
            \/ \E j \in 1 .. i - 1 : mailbox'[j].op = "add" /\ sent[c] <= mailbox'[j].seq_no
        BY <1>3, <3>2, <3>3
      <3> QED
        BY ONLY <3>4, <3>5 DEF Reached
    <2>3. i \in 1 .. Len(mailbox) \/ i = Len(mailbox) + 1
      BY <1>2
    <2> QED
      BY ONLY <2>1, <2>2, <2>3
  <1> QED
    BY <1>4, <1>5 DEF SyncsFollowTheirEvents

(* Promises that were issued keep what they cover.                           *)
LEMMA CoveredWhenSent ==
  ASSUME Typed, PromisesAreCovered, EarlyIsAhead, UNCHANGED actor_vars,
         \A p \in issued : covers'[p] = covers[p]
  PROVE  PromisesAreCovered' /\ EarlyIsAhead'
  BY DEF Typed, MessagesAreIssued, PromisesAreCovered, EarlyIsAhead, actor_vars

(* The threads take new numbers, and send a force_sync after their events.   *)
LEMMA OrderClient ==
  ASSUME Typed, OrderInv, ClientNext
  PROVE  OrderInv'
  <1> USE ConcurrentBinlogAssumption
  <1>0. /\ last_event_id \in Nat /\ holding \in [Clients -> SUBSET EventIds]
        /\ sent \in [Clients -> 0 .. MaxEventId] /\ syncs \in Nat
        /\ covers \in [Promises -> 0 .. MaxEventId] /\ issued \subseteq Promises
        /\ mailbox \in Seq(Messages)
    BY DEF Typed, TypeOK
  <1>1. NumbersAreFresh /\ EarlyIsAhead /\ SyncsFollowTheirEvents /\ PromisesAreCovered
    BY DEF OrderInv
  <1>2. ASSUME NEW c \in Clients, NEW shift \in 1 .. 2, TakeIds(c, shift) PROVE OrderInv'
    <2>1. /\ last_event_id' = last_event_id + shift
          /\ holding' = [holding EXCEPT ![c] = last_event_id .. last_event_id + shift - 1]
          /\ UNCHANGED <<sent, covers, issued, syncs, mailbox>> /\ UNCHANGED actor_vars
      BY <1>2 DEF TakeIds, bound_vars
    <2>2. \A d \in Clients : \A n \in holding'[d] :
            \/ d = c /\ n \in Nat /\ last_event_id <= n /\ n < last_event_id'
            \/ d # c /\ n \in holding[d]
      BY <1>0, <2>1
    <2>3. \A d \in Clients : \A n \in holding[d] : n \in Nat /\ n < last_event_id
      <3>1. EventIds \subseteq Nat
        BY DEF EventIds
      <3>2. \A d \in Clients : holding[d] \subseteq EventIds
        BY <1>0
      <3> QED
        BY <1>1, <3>1, <3>2 DEF NumbersAreFresh
    <2>4. \A n \in Nat : last_event_id <= n => <<"event", n>> \notin issued
      <3>1. \A n \in EventIds : <<"event", n>> \in issued => n < last_event_id
        BY <1>1 DEF NumbersAreFresh
      <3>2. \A n : <<"event", n>> \in Promises => n \in EventIds
        BY DEF Promises
      <3> QED
        BY <1>0, <3>1, <3>2 DEF EventIds
    <2>5. \A d \in Clients : \A n \in holding'[d] : n < last_event_id' /\ <<"event", n>> \notin issued'
      <3>1. last_event_id < last_event_id'
        BY <1>0, <2>1
      <3>2. ASSUME NEW d \in Clients, NEW n \in holding'[d]
            PROVE  n < last_event_id' /\ <<"event", n>> \notin issued
        <4>1. CASE n \in Nat /\ last_event_id <= n /\ n < last_event_id'
          BY <2>4, <4>1
        <4>2. CASE n \in holding[d]
          <5>1. n \in Nat /\ n < last_event_id /\ <<"event", n>> \notin issued
            BY <1>1, <2>3, <4>2 DEF NumbersAreFresh
          <5>2. last_event_id' \in Nat
            BY <1>0, <2>1
          <5> QED
            BY <1>0, <3>1, <5>1, <5>2
        <4> QED
          BY <2>2, <4>1, <4>2
      <3> QED
        BY <2>1, <3>2
    <2>6. \A d, e \in Clients : d # e => holding'[d] \cap holding'[e] = {}
      <3>1. SUFFICES ASSUME NEW d \in Clients, NEW e \in Clients, d # e,
                            NEW n \in holding'[d], n \in holding'[e]
                     PROVE  FALSE
        OBVIOUS
      <3>2. CASE d = c
        BY <1>0, <2>2, <2>3, <3>1, <3>2
      <3>3. CASE e = c
        BY <1>0, <2>2, <2>3, <3>1, <3>3
      <3>4. CASE d # c /\ e # c
        BY <1>1, <2>2, <3>1, <3>4 DEF NumbersAreFresh
      <3> QED
        BY <3>2, <3>3, <3>4
    <2>7. \A n \in EventIds : <<"event", n>> \in issued' =>
            n < last_event_id' /\ covers'[<<"event", n>>] = n
      BY <1>0, <1>1, <2>1 DEF NumbersAreFresh, EventIds
    <2>8. NumbersAreFresh'
      BY <1>1, <2>1, <2>5, <2>6, <2>7 DEF NumbersAreFresh
    <2>9. SyncsFollowTheirEvents'
      BY <1>1, <2>1 DEF SyncsFollowTheirEvents, Reached, actor_vars
    <2> QED
      BY <1>1, <2>1, <2>8, <2>9, CoveredWhenSent DEF OrderInv
  <1>3. ASSUME NEW c \in Clients, NEW raw \in BOOLEAN, NEW promise \in BOOLEAN,
               SendAdd(c, raw, promise)
        PROVE  OrderInv'
    <2>1. PICK n \in holding[c] :
            /\ mailbox' = Append(mailbox, AddMessage(n, raw, promise))
            /\ holding' = [holding EXCEPT ![c] = @ \ {n}]
            /\ sent' = [sent EXCEPT ![c] = n]
            /\ issued' = IF promise THEN issued \cup {<<"event", n>>} ELSE issued
            /\ covers' = IF promise THEN [covers EXCEPT ![<<"event", n>>] = n] ELSE covers
            /\ UNCHANGED <<last_event_id, closing, bound_vars, actor_vars>>
      BY <1>3 DEF SendAdd
    <2>2. /\ n \in EventIds /\ n \in Nat /\ n \in 0 .. MaxEventId /\ <<"event", n>> \in Promises
          /\ n < last_event_id /\ <<"event", n>> \notin issued
      BY <1>0, <1>1, <2>1 DEF NumbersAreFresh, EventIds, Promises
    <2>3. /\ \A p \in Promises : p # <<"event", n>> => covers'[p] = covers[p]
          /\ promise => covers'[<<"event", n>>] = n
      BY <1>0, <2>1, <2>2
    <2>4. \A p \in issued : covers'[p] = covers[p]
      BY <1>0, <2>2, <2>3
    <2>5. /\ \A d \in Clients : holding'[d] \subseteq holding[d]
          /\ \A d \in Clients : n \notin holding'[d]
      BY <1>0, <1>1, <2>1 DEF NumbersAreFresh
    <2>6. NumbersAreFresh'
      <3>1. \A d \in Clients : \A k \in holding'[d] :
              k < last_event_id' /\ <<"event", k>> \notin issued'
        <4>1. SUFFICES ASSUME NEW d \in Clients, NEW k \in holding'[d]
                       PROVE  k < last_event_id' /\ <<"event", k>> \notin issued'
          OBVIOUS
        <4>2. k \in holding[d] /\ k # n
          BY <2>5
        <4>3. k < last_event_id /\ <<"event", k>> \notin issued
          BY <1>1, <4>2 DEF NumbersAreFresh
        <4> QED
          BY <2>1, <4>2, <4>3
      <3>2. \A d, e \in Clients : d # e => holding'[d] \cap holding'[e] = {}
        BY <1>1, <2>5 DEF NumbersAreFresh
      <3>3. ASSUME NEW k \in EventIds, <<"event", k>> \in issued'
            PROVE  k < last_event_id' /\ covers'[<<"event", k>>] = k
        <4>1. CASE <<"event", k>> \in issued
          BY <1>1, <2>1, <2>4, <4>1 DEF NumbersAreFresh
        <4>2. CASE <<"event", k>> \notin issued
          <5>1. promise /\ k = n
            BY <2>1, <3>3, <4>2
          <5> QED
            BY <2>1, <2>2, <2>3, <5>1
        <4> QED
          BY <4>1, <4>2
      <3>4. \A k \in 1 .. MaxSyncs : <<"force_sync", k>> \in issued' => k <= syncs'
        BY <1>1, <2>1 DEF NumbersAreFresh, bound_vars
      <3> QED
        BY <3>1, <3>2, <3>3, <3>4 DEF NumbersAreFresh
    <2>7. SyncsFollowTheirEvents'
      <3>1. AddMessage(n, raw, promise) \in Messages
        BY <2>2, SentMessages
      <3>2. /\ AddMessage(n, raw, promise).op = "add" /\ AddMessage(n, raw, promise).seq_no = n
            /\ sent' \in [Clients -> 0 .. MaxEventId]
            /\ \A d \in Clients : sent'[d] = sent[d] \/ sent'[d] = n
        BY <1>0, <2>1, <2>2 DEF AddMessage
      <3>3. UNCHANGED <<begin, early>>
        BY <2>1 DEF actor_vars
      <3> QED
        BY <1>1, <2>1, <2>4, <3>1, <3>2, <3>3, FollowsWhenSent
    <2> QED
      BY <1>1, <2>1, <2>4, <2>6, <2>7, CoveredWhenSent DEF OrderInv
  <1>4. ASSUME NEW c \in Clients, SendForceSync(c) PROVE OrderInv'
    <2>1. PICK k \in Nat : k = syncs + 1
      BY <1>0
    <2>2. /\ syncs' = k /\ k \in 1 .. MaxSyncs /\ <<"force_sync", k>> \in Promises
          /\ mailbox' = Append(mailbox, Message("force_sync", k))
          /\ issued' = issued \cup {<<"force_sync", k>>}
          /\ covers' = [covers EXCEPT ![<<"force_sync", k>>] = sent[c]]
          /\ UNCHANGED <<last_event_id, holding, sent>> /\ UNCHANGED actor_vars
      BY <1>0, <1>4, <2>1 DEF SendForceSync, Promises
    <2>3. <<"force_sync", k>> \notin issued
      BY <1>0, <1>1, <2>1, <2>2 DEF NumbersAreFresh
    <2>4. \A p \in issued : covers'[p] = covers[p]
      BY <1>0, <2>2, <2>3
    <2>5. NumbersAreFresh'
      <3>1. \A n \in EventIds : <<"event", n>> \in issued' =>
              n < last_event_id' /\ covers'[<<"event", n>>] = n
        BY <1>1, <2>2, <2>4 DEF NumbersAreFresh
      <3>2. \A j \in 1 .. MaxSyncs : <<"force_sync", j>> \in issued' => j <= syncs'
        BY <1>0, <1>1, <2>1, <2>2 DEF NumbersAreFresh
      <3>3. \A d \in Clients : \A n \in holding'[d] :
              n < last_event_id' /\ <<"event", n>> \notin issued'
        BY <1>1, <2>2 DEF NumbersAreFresh
      <3> QED
        BY <1>1, <2>2, <3>1, <3>2, <3>3 DEF NumbersAreFresh
    <2>6. SyncsFollowTheirEvents'
      <3>1. Message("force_sync", k) \in Messages
        BY SentMessages
      <3>2. /\ Message("force_sync", k).op = "force_sync" /\ Message("force_sync", k).seq_no = k
            /\ covers'[<<"force_sync", k>>] = sent[c]
        BY <1>0, <2>2 DEF Message
      <3>3. UNCHANGED <<begin, early>>
        BY <2>2 DEF actor_vars
      <3> QED
        BY <1>0, <1>1, <2>2, <2>4, <3>1, <3>2, <3>3, FollowsWhenSent
    <2> QED
      BY <1>1, <2>2, <2>4, <2>5, <2>6, CoveredWhenSent DEF OrderInv
  <1>5. CASE SendForceFlush \/ SendChangeKey \/ SendClose
    <2>1. PICK op \in {"force_flush", "change_key", "close"} :
            mailbox' = Append(mailbox, Message(op, 0))
      BY <1>5 DEF SendForceFlush, SendChangeKey, SendClose
    <2>2. UNCHANGED <<last_event_id, holding, sent, syncs, covers, issued>> /\ UNCHANGED actor_vars
      BY <1>5 DEF SendForceFlush, SendChangeKey, SendClose, client_vars, bound_vars
    <2>3. NumbersAreFresh'
      BY <1>1, <2>2 DEF NumbersAreFresh
    <2>4. SyncsFollowTheirEvents'
      <3>1. Message(op, 0) \in Messages /\ Message(op, 0).op # "force_sync"
        BY SentMessages DEF Message
      <3>2. UNCHANGED <<begin, early>>
        BY <2>2 DEF actor_vars
      <3> QED
        BY <1>0, <1>1, <2>1, <2>2, <3>1, <3>2, FollowsWhenSent
    <2> QED
      BY <1>1, <2>2, <2>3, <2>4, CoveredWhenSent DEF OrderInv
  <1> QED
    BY <1>2, <1>3, <1>4, <1>5 DEF ClientNext

-------------------------------------------------------------------------------
(* Taking a message: what was reached before is still reached, one message    *)
(* earlier, if the message, when it is an event, runs or is stored.          *)
Handled ==
  /\ begin' \in Nat /\ begin <= begin'
  /\ \A e \in early : e \in early' \/ e.seq_no < begin'
  /\ Head(mailbox).op = "add" => \/ Head(mailbox).seq_no < begin'
                                 \/ Head(mailbox) \in early'

(* The numbers of messages and early events are natural numbers.             *)
LEMMA EventNumbers ==
  ASSUME Typed
  PROVE  /\ \A e \in early : e.seq_no \in Nat
         /\ \A i \in 1 .. Len(mailbox) : mailbox[i].seq_no \in Nat
         /\ begin \in Nat
  <1>1. begin \in 1 .. MaxEventId + 1 /\ early \subseteq Messages /\ mailbox \in Seq(Messages)
    BY DEF Typed, TypeOK
  <1>2. \A m \in Messages : m.seq_no \in Nat
    BY DEF Messages
  <1>3. \A i \in 1 .. Len(mailbox) : mailbox[i] \in Messages
    BY <1>1
  <1> QED
    BY <1>1, <1>2, <1>3, ConcurrentBinlogAssumption

(* What was reached is still reached, one message earlier.                   *)
LEMMA StillReached ==
  ASSUME Typed, NEW op, Receive(op), Handled,
         NEW x \in Nat, NEW k \in 1 .. Len(mailbox), Reached(x, k)
  PROVE  \/ x < begin'
         \/ \E e \in early' : x <= e.seq_no
         \/ \E j \in 1 .. k - 1 : mailbox'[j].op = "add" /\ x <= mailbox'[j].seq_no
  <1>1. /\ Len(mailbox) \in Nat /\ Len(mailbox) >= 1 /\ Len(mailbox') = Len(mailbox) - 1
        /\ Head(mailbox) = mailbox[1]
        /\ \A i \in 1 .. Len(mailbox') : mailbox'[i] = mailbox[i + 1]
    BY ReceiveFacts
  <1>2. /\ begin \in Nat /\ begin' \in Nat /\ begin <= begin'
        /\ \A e \in early : e.seq_no \in Nat
        /\ \A i \in 1 .. Len(mailbox) : mailbox[i].seq_no \in Nat
    BY EventNumbers DEF Handled
  <1>3. CASE x < begin
    BY <1>2, <1>3
  <1>4. ASSUME NEW e \in early, x <= e.seq_no
        PROVE  x < begin' \/ \E g \in early' : x <= g.seq_no
    <2>1. CASE e \in early'
      BY <1>4, <2>1
    <2>2. CASE e.seq_no < begin'
      <3>1. e.seq_no \in Nat
        BY <1>2
      <3> QED
        BY <1>2, <1>4, <2>2, <3>1
    <2> QED
      BY <2>1, <2>2 DEF Handled
  <1>5. ASSUME NEW j \in 1 .. k, mailbox[j].op = "add", x <= mailbox[j].seq_no
        PROVE  \/ x < begin'
               \/ \E g \in early' : x <= g.seq_no
               \/ \E i \in 1 .. k - 1 : mailbox'[i].op = "add" /\ x <= mailbox'[i].seq_no
    <2>1. CASE j = 1
      <3>1. Head(mailbox).op = "add" /\ x <= Head(mailbox).seq_no /\ Head(mailbox).seq_no \in Nat
        BY <1>1, <1>2, <1>5, <2>1
      <3>2. CASE Head(mailbox).seq_no < begin'
        BY <1>2, <3>1, <3>2
      <3>3. CASE Head(mailbox) \in early'
        BY <3>1, <3>3
      <3> QED
        BY <3>1, <3>2, <3>3 DEF Handled
    <2>2. CASE j # 1
      <3>1. j - 1 \in 1 .. k - 1 /\ j - 1 \in 1 .. Len(mailbox') /\ (j - 1) + 1 = j
        BY <1>1, <2>2
      <3>2. mailbox'[j - 1] = mailbox[j]
        BY <1>1, <3>1
      <3> QED
        BY <1>5, <3>1, <3>2
    <2> QED
      BY <2>1, <2>2
  <1> QED
    BY <1>3, <1>4, <1>5 DEF Reached

(* To take a message keeps the order if its promises are covered.            *)
LEMMA OrderReceived ==
  ASSUME Typed, OrderInv, NEW op, Receive(op), Handled, EarlyIsAhead', PromisesAreCovered'
  PROVE  OrderInv'
  <1>0. /\ sent \in [Clients -> 0 .. MaxEventId] /\ covers \in [Promises -> 0 .. MaxEventId]
    BY DEF Typed, TypeOK
  <1>1. /\ Len(mailbox) \in Nat /\ Len(mailbox) >= 1 /\ Len(mailbox') = Len(mailbox) - 1
        /\ \A i \in 1 .. Len(mailbox') : mailbox'[i] = mailbox[i + 1]
        /\ UNCHANGED client_vars
    BY ReceiveFacts
  <1>2. UNCHANGED <<last_event_id, holding, sent, syncs, covers, issued>>
    BY <1>1 DEF client_vars, bound_vars
  <1>3. NumbersAreFresh'
    BY <1>2 DEF OrderInv, NumbersAreFresh
  <1>4. ASSUME NEW c \in Clients PROVE Reached(sent[c], Len(mailbox))'
    <2>1. Reached(sent[c], Len(mailbox)) /\ sent[c] \in Nat /\ Len(mailbox) \in 1 .. Len(mailbox)
      BY <1>0, <1>1 DEF OrderInv, SyncsFollowTheirEvents
    <2> QED
      BY <1>1, <1>2, <2>1, StillReached DEF Reached
  <1>5. ASSUME NEW i \in 1 .. Len(mailbox'), mailbox'[i].op = "force_sync"
        PROVE  Reached(covers[<<"force_sync", mailbox[i].seq_no>>], i - 1)'
    <2>1. /\ i + 1 \in 1 .. Len(mailbox) /\ (i + 1) - 1 = i /\ mailbox'[i] = mailbox[i + 1]
          /\ i \in 1 .. Len(mailbox)
      BY <1>1
    <2>2. PICK x : x = covers[<<"force_sync", mailbox[i + 1].seq_no>>]
      OBVIOUS
    <2>3. x \in Nat
      <3>1. mailbox[i + 1].seq_no \in 1 .. MaxSyncs
        BY <1>5, <2>1 DEF Typed, MessagesAreIssued, MessageOK
      <3> QED
        BY <1>0, <2>2, <3>1 DEF Promises
    <2>4. Reached(x, i)
      BY <1>5, <2>1, <2>2 DEF OrderInv, SyncsFollowTheirEvents
    <2>5. covers'[<<"force_sync", mailbox'[i].seq_no>>] = x
      BY <1>2, <2>1, <2>2
    <2> QED
      BY <2>1, <2>3, <2>4, <2>5, StillReached DEF Reached
  <1>6. SyncsFollowTheirEvents'
    BY <1>4, <1>5 DEF SyncsFollowTheirEvents
  <1> QED
    BY <1>3, <1>6 DEF OrderInv

(* Running the next number covers the promises of all that runs.             *)
LEMMA OrderNext ==
  ASSUME Typed, OrderInv, ReceiveNext
  PROVE  OrderInv'
  <1> USE ConcurrentBinlogAssumption
  <1>1. PICK n \in begin + 1 .. MaxEventId + 1, f \in 0 .. MaxEventId, d \in 0 .. MaxEventId :
          /\ NextStep(n, f, d)
          /\ Receive("add") /\ Head(mailbox).seq_no = begin /\ UNCHANGED <<stopped, done>>
    BY ReceiveNextStep
  <1>2. /\ begin \in Nat /\ n \in Nat /\ begin < n
        /\ \A p \in LazyOf(n) : p \in issued /\ \E k \in EventIds : k < n /\ p = <<"event", k>>
    BY <1>1, RunFacts
  <1>3. /\ begin' = n /\ early' = early \ RunOf(n)
        /\ sync_promises' = sync_promises \cup LazyOf(n) \cup {w[2] : w \in Unblocked(n)}
        /\ immediate_sync_promises' = immediate_sync_promises \ Unblocked(n)
    BY <1>1 DEF NextStep
  <1>4. /\ covers \in [Promises -> 0 .. MaxEventId] /\ sync_promises \subseteq Promises
        /\ immediate_sync_promises \subseteq (EventIds \X Promises)
    BY DEF Typed, TypeOK
  <1>5. covers' = covers
    BY <1>1, ReceiveFacts DEF client_vars
  <1>6. \A e \in early : e.seq_no \in Nat
    BY EventNumbers
  <1>7. Handled
    <2>1. \A e \in early : e \in early' \/ e.seq_no < n
      <3>1. ASSUME NEW e \in early, e \notin early' PROVE e.seq_no < n
        <4>1. e \in RunOf(n)
          BY <1>3, <3>1
        <4> QED
          BY <1>1, <1>2, <4>1 DEF RunOf
      <3> QED
        BY <3>1
    <2> QED
      BY <1>1, <1>2, <1>3, <2>1 DEF Handled
  <1>8. EarlyIsAhead'
    <2>1. ASSUME NEW e \in early' PROVE n <= e.seq_no
      <3>1. e \in early /\ e \notin RunOf(n)
        BY <1>3, <2>1
      <3>2. ~(e.seq_no < n) /\ e.seq_no \in Nat
        BY <1>6, <3>1 DEF RunOf
      <3> QED
        BY <1>2, <3>2
    <2> QED
      BY <1>3, <2>1 DEF EarlyIsAhead
  <1>9. PromisesAreCovered'
    <2>1. ASSUME NEW p \in sync_promises PROVE covers[p] < n
      <3>1. covers[p] < begin /\ covers[p] \in Nat
        BY <1>4, <2>1 DEF OrderInv, PromisesAreCovered
      <3> QED
        BY <1>2, <3>1
    <2>2. ASSUME NEW p \in LazyOf(n) PROVE covers[p] < n
      <3>1. PICK k \in EventIds : k < n /\ p = <<"event", k>>
        BY <1>2, <2>2
      <3>2. <<"event", k>> \in issued
        BY <1>2, <2>2, <3>1
      <3>3. covers[<<"event", k>>] = k
        BY <3>2 DEF OrderInv, NumbersAreFresh
      <3> QED
        BY <3>1, <3>3
    <2>3. ASSUME NEW w \in Unblocked(n) PROVE covers[w[2]] < n
      <3>1. w \in immediate_sync_promises /\ w[1] < n
        BY <2>3 DEF Unblocked
      <3>2. covers[w[2]] <= w[1]
        BY <3>1 DEF OrderInv, PromisesAreCovered
      <3>3. w[1] \in EventIds /\ w[2] \in Promises
        BY <1>4, <3>1
      <3>4. w[1] \in Nat /\ covers[w[2]] \in Nat
        BY <1>4, <3>3 DEF EventIds
      <3> QED
        BY <1>2, <3>1, <3>2, <3>4
    <2>4. \A p \in sync_promises' : covers'[p] < begin'
      BY <1>3, <1>5, <2>1, <2>2, <2>3
    <2>5. \A w \in immediate_sync_promises' : covers'[w[2]] <= w[1]
      BY <1>3, <1>5 DEF OrderInv, PromisesAreCovered
    <2> QED
      BY <2>4, <2>5 DEF PromisesAreCovered
  <1> QED
    BY <1>1, <1>7, <1>8, <1>9, OrderReceived

(* A force_sync is delayed to an event no earlier than what it covers.       *)
LEMMA OrderForceSync ==
  ASSUME Typed, OrderInv, ReceiveForceSync
  PROVE  OrderInv'
  <1>1. Receive("force_sync") /\ UNCHANGED <<begin, early>>
    BY DEF ReceiveForceSync
  <1>2. Handled
    BY <1>1, EventNumbers DEF Handled, Receive
  <1>3. EarlyIsAhead'
    BY <1>1 DEF OrderInv, EarlyIsAhead
  <1>4. covers' = covers
    BY <1>1, ReceiveFacts DEF client_vars
  <1>5. PICK p : p = <<"force_sync", Head(mailbox).seq_no>>
    OBVIOUS
  <1>6. p \in Promises /\ covers[p] \in Nat
    <2>1. p \in issued
      BY <1>1, <1>5, ReceiveFacts DEF MessageOK
    <2> QED
      BY <2>1 DEF Typed, TypeOK
  <1>7. \/ covers[p] < begin
        \/ \E e \in early : covers[p] <= e.seq_no
    <2>1. /\ 1 \in 1 .. Len(mailbox) /\ Head(mailbox) = mailbox[1] /\ mailbox[1].op = "force_sync"
      BY <1>1, ReceiveFacts
    <2>2. Reached(covers[p], 1 - 1)
      BY <1>5, <2>1 DEF OrderInv, SyncsFollowTheirEvents
    <2> QED
      BY <2>2 DEF Reached
  <1>8. PromisesAreCovered'
    <2>1. CASE early = {}
      <3>1. covers[p] < begin
        BY <1>7, <2>1
      <3>2. /\ sync_promises' = sync_promises \cup {p}
            /\ UNCHANGED immediate_sync_promises
        BY <1>5, <2>1 DEF ReceiveForceSync
      <3> QED
        BY <1>1, <1>4, <3>1, <3>2 DEF OrderInv, PromisesAreCovered
    <2>2. CASE early # {}
      <3>1. PICK last \in early :
              /\ \A e \in early : e.seq_no <= last.seq_no
              /\ immediate_sync_promises' = immediate_sync_promises \cup {<<last.seq_no, p>>}
        BY <1>5, <2>2 DEF ReceiveForceSync
      <3>2. UNCHANGED sync_promises
        BY <2>2 DEF ReceiveForceSync
      <3>3. covers[p] <= last.seq_no
        <4>1. begin \in Nat /\ \A e \in early : e.seq_no \in Nat
          BY EventNumbers
        <4>2. begin <= last.seq_no
          BY DEF OrderInv, EarlyIsAhead
        <4>3. CASE covers[p] < begin
          BY <1>6, <4>1, <4>2, <4>3
        <4>4. CASE \E e \in early : covers[p] <= e.seq_no
          BY <1>6, <3>1, <4>1, <4>4
        <4> QED
          BY <1>7, <4>3, <4>4
      <3> QED
        BY <1>1, <1>4, <3>1, <3>2, <3>3 DEF OrderInv, PromisesAreCovered
    <2> QED
      BY <2>1, <2>2
  <1> QED
    BY <1>1, <1>2, <1>3, <1>8, OrderReceived

(* Every step of the actor keeps the order.                                  *)
LEMMA OrderActor ==
  ASSUME Typed, OrderInv, ReceiveMessage \/ TimeoutSync \/ TimeoutFlush
  PROVE  OrderInv'
  <1>1. CASE ReceiveNext
    BY <1>1, OrderNext
  <1>2. CASE ReceiveForceSync
    BY <1>2, OrderForceSync
  <1>3. CASE ReceiveEarly
    <2>1. /\ Receive("add") /\ Head(mailbox).seq_no > begin
          /\ early' = early \cup {Head(mailbox)}
          /\ UNCHANGED <<begin, sync_promises, immediate_sync_promises>>
      BY <1>3 DEF ReceiveEarly
    <2>2. Handled
      BY <2>1, EventNumbers DEF Handled
    <2>3. EarlyIsAhead'
      <3>1. Head(mailbox).seq_no \in Nat /\ begin \in Nat
        BY <2>1, ReceiveFacts, EventNumbers DEF Messages
      <3> QED
        BY <2>1, <3>1 DEF OrderInv, EarlyIsAhead
    <2>4. PromisesAreCovered'
      BY <2>1, ReceiveFacts DEF OrderInv, PromisesAreCovered, client_vars
    <2> QED
      BY <2>1, <2>2, <2>3, <2>4, OrderReceived
  <1>4. CASE ReceiveForceFlush \/ ReceiveChangeKey \/ ReceiveClose
    <2>1. PICK op \in {"force_flush", "change_key", "close"} : Receive(op)
      BY <1>4 DEF ReceiveForceFlush, ReceiveChangeKey, ReceiveClose
    <2>2. UNCHANGED <<begin, early, sync_promises, immediate_sync_promises>>
      BY <1>4 DEF ReceiveForceFlush, ReceiveChangeKey, ReceiveClose
    <2>3. Handled
      BY <2>1, <2>2, EventNumbers DEF Handled, Receive
    <2>4. EarlyIsAhead' /\ PromisesAreCovered'
      BY <2>1, <2>2, ReceiveFacts DEF OrderInv, EarlyIsAhead, PromisesAreCovered, client_vars
    <2> QED
      BY <2>1, <2>3, <2>4, OrderReceived
  <1>5. CASE TimeoutSync \/ TimeoutFlush
    <2>1. /\ UNCHANGED <<client_vars, mailbox, begin, early, immediate_sync_promises>>
          /\ sync_promises' \subseteq sync_promises
      BY <1>5 DEF TimeoutSync, TimeoutFlush
    <2>2. UNCHANGED <<last_event_id, holding, sent, syncs, covers, issued>>
      BY <2>1 DEF client_vars, bound_vars
    <2>3. NumbersAreFresh'
      BY <2>2 DEF OrderInv, NumbersAreFresh
    <2>4. SyncsFollowTheirEvents'
      BY <2>1, <2>2 DEF OrderInv, SyncsFollowTheirEvents, Reached
    <2>5. EarlyIsAhead' /\ PromisesAreCovered'
      BY <2>1, <2>2 DEF OrderInv, EarlyIsAhead, PromisesAreCovered
    <2> QED
      BY <2>3, <2>4, <2>5 DEF OrderInv
  <1> QED
    BY <1>1, <1>2, <1>3, <1>4, <1>5 DEF ReceiveMessage

(* Events are given their numbers once, a delayed force_sync waits for at     *)
(* least what its caller sent before it, and a promise that joins the next   *)
(* sync is for events that have run (ConcurrentBinlog.cpp:53-71, 127-133).   *)
THEOREM OrderAlways == Spec => []OrderInv
  <1>1. Init => OrderInv
    BY OrderInit
  <1>2. ASSUME Typed, OrderInv, [Next]_vars PROVE OrderInv'
    <2>1. CASE ClientNext
      BY <1>2, <2>1, OrderClient
    <2>2. CASE ReceiveMessage \/ TimeoutSync \/ TimeoutFlush
      BY <1>2, <2>2, OrderActor
    <2>3. CASE UNCHANGED vars
      <3>1. UNCHANGED <<last_event_id, holding, sent, syncs, covers, issued, mailbox, begin, early,
                        sync_promises, immediate_sync_promises>>
        BY <2>3 DEF vars, client_vars, bound_vars, actor_vars
      <3> QED
        BY <1>2, <3>1 DEF OrderInv, NumbersAreFresh, EarlyIsAhead, SyncsFollowTheirEvents, Reached,
                          PromisesAreCovered
    <2> QED
      BY <1>2, <2>1, <2>2, <2>3 DEF Next
  <1> QED
    BY <1>1, <1>2, TypedAlways, PTL DEF Spec

-------------------------------------------------------------------------------
(* A delayed force_sync waits for an event that is stored behind a missing    *)
(* one, and for no less than its caller asked (ConcurrentBinlog.cpp:64-71).   *)
LEMMA AwaitStep ==
  ASSUME Typed, OrderInv, OrderInv', DelayedSyncsAwaitStoredEvents, [Next]_vars
  PROVE  DelayedSyncsAwaitStoredEvents'
  <1>1. ASSUME NEW w \in immediate_sync_promises' PROVE covers'[w[2]] <= w[1]
    BY DEF OrderInv, PromisesAreCovered
  <1>2. ASSUME NEW w \in immediate_sync_promises' PROVE \E e \in early' : e.seq_no = w[1]
    <2>1. CASE ReceiveNext
      <3>1. PICK n \in begin + 1 .. MaxEventId + 1, f \in 0 .. MaxEventId, d \in 0 .. MaxEventId :
              /\ NextStep(n, f, d)
              /\ Receive("add") /\ Head(mailbox).seq_no = begin /\ UNCHANGED <<stopped, done>>
        BY <2>1, ReceiveNextStep
      <3>2. w \in immediate_sync_promises /\ ~(w[1] < n) /\ early' = early \ RunOf(n)
        BY <1>2, <3>1 DEF NextStep, Unblocked
      <3>3. PICK e \in early : e.seq_no = w[1]
        BY <3>2 DEF DelayedSyncsAwaitStoredEvents
      <3>4. begin < n
        BY <3>1, RunFacts
      <3>5. e \notin RunOf(n)
        BY <3>1, <3>2, <3>3, <3>4 DEF RunOf
      <3> QED
        BY <3>2, <3>3, <3>5
    <2>2. CASE ReceiveForceSync
      <3>1. CASE early = {}
        BY <1>2, <2>2, <3>1 DEF ReceiveForceSync, DelayedSyncsAwaitStoredEvents
      <3>2. CASE early # {}
        <4>1. PICK last \in early :
                immediate_sync_promises' = immediate_sync_promises \cup
                  {<<last.seq_no, <<"force_sync", Head(mailbox).seq_no>>>>}
          BY <2>2, <3>2 DEF ReceiveForceSync
        <4>2. early' = early
          BY <2>2 DEF ReceiveForceSync
        <4> QED
          BY <1>2, <4>1, <4>2 DEF DelayedSyncsAwaitStoredEvents
      <3> QED
        BY <3>1, <3>2
    <2>3. CASE ReceiveEarly
      BY <1>2, <2>3 DEF ReceiveEarly, DelayedSyncsAwaitStoredEvents
    <2>4. CASE \/ ReceiveForceFlush \/ ReceiveChangeKey \/ ReceiveClose
               \/ TimeoutSync \/ TimeoutFlush \/ ClientNext \/ UNCHANGED vars
      <3>1. UNCHANGED <<early, immediate_sync_promises>>
        BY <2>4 DEF ReceiveForceFlush, ReceiveChangeKey, ReceiveClose, TimeoutSync, TimeoutFlush,
                    ClientNext, TakeIds, SendAdd, SendForceSync, SendForceFlush, SendChangeKey,
                    SendClose, vars, actor_vars
      <3> QED
        BY <1>2, <3>1 DEF DelayedSyncsAwaitStoredEvents
    <2> QED
      BY <2>1, <2>2, <2>3, <2>4 DEF Next, ReceiveMessage
  <1> QED
    BY <1>1, <1>2 DEF DelayedSyncsAwaitStoredEvents

(* A delayed force_sync always has a stored event that will release it, and   *)
(* waits for no less than its caller asked (ConcurrentBinlog.cpp:64-71 and   *)
(* 127-133).                                                                *)
THEOREM DelayedSyncsAreReleased == Spec => []DelayedSyncsAwaitStoredEvents
  <1>1. Init => DelayedSyncsAwaitStoredEvents
    BY DEF Init, DelayedSyncsAwaitStoredEvents
  <1>2. Typed /\ OrderInv /\ OrderInv' /\ DelayedSyncsAwaitStoredEvents /\ [Next]_vars
          => DelayedSyncsAwaitStoredEvents'
    BY AwaitStep
  <1> QED
    BY <1>1, <1>2, TypedAlways, OrderAlways, PTL DEF Spec

-------------------------------------------------------------------------------
(* What is flushed, durable and written has run.                             *)
LEMMA LogNumbers ==
  ASSUME Typed, LogIsBehind
  PROVE  /\ begin \in Nat /\ begin >= 1 /\ flushed \in Nat /\ durable \in Nat /\ skipped \in Nat
         /\ Last \in Nat /\ flushed <= Last
         /\ logged \subseteq Nat /\ \A n \in logged : n <= Last
  <1> USE ConcurrentBinlogAssumption
  <1>1. /\ begin \in Nat /\ begin >= 1 /\ flushed \in Nat /\ durable \in Nat /\ logged \subseteq Nat
        /\ skipped \in Nat
    BY DEF Typed, TypeOK, EventIds
  <1>2. Last \in Nat /\ flushed <= Last
    BY <1>1 DEF Last, LogIsBehind
  <1>3. \A n \in logged : n <= Last
    BY <1>1 DEF Last, LogIsBehind
  <1> QED
    BY <1>1, <1>2, <1>3

(* A flush keeps need_sync_ exact.                                           *)
LEMMA FlushIsExact ==
  ASSUME Typed, LogIsBehind, NeedSyncIsExact, Flush
  PROVE  NeedSyncIsExact' /\ UNCHANGED <<logged, durable, skipped>>
  <1>1. /\ flushed' = Last /\ UNCHANGED <<logged, durable, skipped>>
        /\ need_sync' = (need_sync \/ Unwritten(flushed) # {})
    BY DEF Flush
  <1>2. durable' <= flushed' /\ skipped' <= flushed'
    BY <1>1, LogNumbers DEF NeedSyncIsExact
  <1>3. ASSUME ~need_sync', NEW n \in logged PROVE Kept(n)
    <2>1. ~need_sync /\ Unwritten(flushed) = {}
      BY <1>1, <1>3
    <2>2. n <= flushed
      BY <2>1, LogNumbers DEF Unwritten
    <2> QED
      BY <2>1, <2>2 DEF NeedSyncIsExact
  <1> QED
    BY <1>1, <1>2, <1>3 DEF NeedSyncIsExact, Kept

(* After a sync or a reindex everything is kept.                             *)
LEMMA SyncIsExact ==
  ASSUME Typed, LogIsBehind, NeedSyncIsExact, Sync \/ Reindex
  PROVE  /\ NeedSyncIsExact' /\ logged' = logged
         /\ \A n \in logged : Kept(n)'
  <1>1. flushed' = Last /\ logged' = logged
    BY DEF Sync, Reindex
  <1>2. /\ durable' = Last \/ durable' = durable
        /\ skipped' = Last \/ skipped' = skipped
    BY DEF Sync, Reindex
  <1>3. durable' <= flushed' /\ skipped' <= flushed'
    BY <1>1, <1>2, LogNumbers DEF NeedSyncIsExact
  <1>4. ASSUME NEW n \in logged PROVE Kept(n)'
    <2>1. CASE durable' = Last \/ skipped' = Last
      BY <2>1, LogNumbers DEF Kept
    <2>2. CASE ~need_sync /\ Unwritten(flushed) = {} /\ UNCHANGED <<durable, skipped>>
      <3>1. n <= flushed
        BY <2>2, LogNumbers DEF Unwritten
      <3> QED
        BY <2>2, <3>1 DEF NeedSyncIsExact, Kept
    <2> QED
      BY <2>1, <2>2 DEF Sync, Reindex
  <1> QED
    BY <1>1, <1>3, <1>4 DEF NeedSyncIsExact

(* Adding events that have not run before: what was durable stays so.        *)
LEMMA AddIsExact ==
  ASSUME Typed, LogIsBehind, NeedSyncIsExact,
         NEW new \in SUBSET EventIds, NEW upto \in Nat, begin <= upto,
         NEW f \in 0 .. MaxEventId, NEW d \in 0 .. MaxEventId,
         \A n \in new : begin <= n, AddEvents(new, upto, f, d)
  PROVE  /\ NeedSyncIsExact' /\ durable <= durable' /\ skipped' = skipped
         /\ logged' = logged \cup new
  <1> DEFINE Between(a, b) == {n \in logged \cup new : a < n /\ n <= b}
  <1>0. /\ begin \in Nat /\ flushed \in Nat /\ durable \in Nat /\ f \in Nat /\ d \in Nat
        /\ logged \subseteq Nat /\ new \subseteq Nat /\ flushed < begin /\ durable <= flushed
        /\ skipped \in Nat /\ skipped <= flushed
    BY LogNumbers DEF EventIds, LogIsBehind, NeedSyncIsExact
  <1>1. /\ logged' = logged \cup new /\ flushed' = f /\ durable' = d
        /\ need_sync' = IF d = durable THEN need_sync \/ Between(flushed, f) # {}
                                       ELSE Between(d, f) # {}
        /\ f \in {flushed, upto} \cup new /\ d \in {durable} \cup {n \in new : n <= f}
        /\ skipped' = skipped
    BY DEF AddEvents
  <1>3. flushed <= f
    BY <1>0, <1>1
  <1>4. durable <= d /\ d <= f /\ skipped <= f
    BY <1>0, <1>1, <1>3
  <1>5. ASSUME ~need_sync', NEW n \in logged \cup new, n <= f PROVE n <= d \/ n <= skipped
    <2>0. n \in Nat
      BY <1>0
    <2>1. CASE d = durable
      <3>1. ~need_sync /\ Between(flushed, f) = {}
        BY <1>1, <1>5, <2>1
      <3>2. n <= flushed
        BY <1>0, <1>5, <2>0, <3>1
      <3>3. n \in logged
        BY <1>0, <2>0, <3>2
      <3> QED
        BY <2>1, <3>1, <3>2, <3>3 DEF NeedSyncIsExact, Kept
    <2>2. CASE d # durable
      <3>1. Between(d, f) = {}
        BY <1>1, <1>5, <2>2
      <3> QED
        BY <1>0, <1>5, <2>0, <3>1
    <2> QED
      BY <2>1, <2>2
  <1> QED
    BY <1>1, <1>4, <1>5 DEF NeedSyncIsExact, Kept

(* What a promise covers is fixed when the promise is issued.                *)
LEMMA CoversAreFixed ==
  ASSUME Typed, OrderInv, ClientNext
  PROVE  (\A p \in issued : covers'[p] = covers[p]) /\ UNCHANGED actor_vars
  <1>0. /\ holding \in [Clients -> SUBSET EventIds] /\ syncs \in Nat
        /\ covers \in [Promises -> 0 .. MaxEventId] /\ issued \subseteq Promises
    BY ConcurrentBinlogAssumption DEF Typed, TypeOK
  <1>1. NumbersAreFresh
    BY DEF OrderInv
  <1>2. ASSUME NEW c \in Clients, NEW raw \in BOOLEAN, NEW promise \in BOOLEAN,
               SendAdd(c, raw, promise)
        PROVE  \A p \in issued : covers'[p] = covers[p]
    <2>1. PICK n \in holding[c] :
            covers' = IF promise THEN [covers EXCEPT ![<<"event", n>>] = n] ELSE covers
      BY <1>2 DEF SendAdd
    <2>2. <<"event", n>> \notin issued
      BY <1>1, <2>1 DEF NumbersAreFresh
    <2> QED
      BY <1>0, <2>1, <2>2
  <1>3. ASSUME NEW c \in Clients, SendForceSync(c)
        PROVE  \A p \in issued : covers'[p] = covers[p]
    <2>1. PICK k \in Nat : k = syncs + 1
      BY <1>0
    <2>2. covers' = [covers EXCEPT ![<<"force_sync", k>>] = sent[c]] /\ k \in 1 .. MaxSyncs
      BY <1>0, <1>3, <2>1, ConcurrentBinlogAssumption DEF SendForceSync
    <2>3. <<"force_sync", k>> \notin issued
      BY <1>0, <1>1, <2>1, <2>2 DEF NumbersAreFresh
    <2> QED
      BY <1>0, <2>2, <2>3
  <1>4. ASSUME NEW c \in Clients, NEW shift \in 1 .. 2, TakeIds(c, shift)
        PROVE  \A p \in issued : covers'[p] = covers[p]
    BY <1>4 DEF TakeIds
  <1>5. ASSUME SendForceFlush \/ SendChangeKey \/ SendClose
        PROVE  \A p \in issued : covers'[p] = covers[p]
    <2>1. covers' = covers
      BY <1>5 DEF SendForceFlush, SendChangeKey, SendClose, client_vars
    <2> QED
      BY <2>1
  <1>6. UNCHANGED actor_vars
    BY DEF ClientNext, TakeIds, SendAdd, SendForceSync, SendForceFlush, SendChangeKey, SendClose
  <1> QED
    BY <1>2, <1>3, <1>4, <1>5, <1>6 DEF ClientNext

(* What completed promises stand for stays when nothing is taken back.       *)
LEMMA DoneStaysDurable ==
  ASSUME Typed, LogIsBehind, DonePromiseOutlivesPowerLoss, done' = done,
         \A p \in issued : covers'[p] = covers[p],
         begin' \in Nat, begin <= begin', durable' \in Nat, durable <= durable',
         skipped' \in Nat, skipped <= skipped',
         \A n \in logged' : n \in logged \/ (n \in Nat /\ begin <= n)
  PROVE  DonePromiseOutlivesPowerLoss'
  <1>1. SUFFICES ASSUME NEW p \in done
                 PROVE  /\ covers'[p] < begin'
                        /\ \A n \in logged' : n <= covers'[p] => Kept(n)'
    BY DEF DonePromiseOutlivesPowerLoss, Kept
  <1>2. p \in issued /\ p \in Promises /\ covers'[p] = covers[p] /\ covers[p] \in Nat
    BY <1>1 DEF Typed, TypeOK
  <1>3. covers[p] < begin /\ begin \in Nat /\ durable \in Nat /\ skipped \in Nat /\ logged \subseteq Nat
    BY <1>1, LogNumbers DEF DonePromiseOutlivesPowerLoss
  <1>4. ASSUME NEW n \in logged', n <= covers[p] PROVE Kept(n)'
    <2>1. n \in logged /\ n \in Nat
      <3>1. ~(n \in Nat /\ begin <= n)
        BY <1>2, <1>3, <1>4
      <3>2. n \in logged
        BY <3>1
      <3> QED
        BY <1>3, <3>2
    <2>2. n <= durable \/ n <= skipped
      BY <1>1, <1>4, <2>1 DEF DonePromiseOutlivesPowerLoss
    <2> QED
      BY <1>3, <2>1, <2>2 DEF Kept
  <1>5. covers[p] < begin'
    BY <1>2, <1>3
  <1>6. \A n \in logged' : n <= covers'[p] => Kept(n)'
    BY <1>2, <1>4
  <1> QED
    BY <1>2, <1>5, <1>6

(* Running the next number takes nothing back that was durable.              *)
LEMMA DurableNext ==
  ASSUME Typed, TimerInv, OrderInv, DurableInv, ReceiveNext
  PROVE  DurableInv'
  <1>1. PICK n \in begin + 1 .. MaxEventId + 1, f \in 0 .. MaxEventId, d \in 0 .. MaxEventId :
          /\ NextStep(n, f, d)
          /\ Receive("add") /\ Head(mailbox).seq_no = begin /\ UNCHANGED <<stopped, done>>
    BY ReceiveNextStep
  <1>2. begin' = n /\ AddEvents(NewOf(n), n - 1, f, d)
    BY <1>1 DEF NextStep
  <1>3. /\ begin \in Nat /\ n \in Nat /\ begin < n /\ NewOf(n) \subseteq EventIds
        /\ LogIsBehind /\ NeedSyncIsExact /\ DonePromiseOutlivesPowerLoss
    BY <1>1, RunFacts DEF TimerInv, DurableInv
  <1>4. \A k \in NewOf(n) : begin <= k
    <2>1. \A r \in RunOf(n) : begin <= r.seq_no
      BY <1>1, <1>3 DEF RunOf, OrderInv, EarlyIsAhead
    <2> QED
      BY <2>1 DEF NewOf
  <1>5. /\ NeedSyncIsExact' /\ durable <= durable' /\ skipped' = skipped
        /\ logged' = logged \cup NewOf(n)
    <2>1. n - 1 \in Nat /\ begin <= n - 1
      BY <1>3
    <2> QED
      BY <1>2, <1>3, <1>4, <2>1, AddIsExact
  <1>6. durable' \in Nat /\ skipped' \in Nat /\ skipped <= skipped'
    BY <1>2, <1>3, <1>5, LogNumbers, ConcurrentBinlogAssumption DEF AddEvents
  <1>7. \A p \in issued : covers'[p] = covers[p]
    BY <1>1, ReceiveFacts DEF client_vars
  <1>8. \A k \in logged' : k \in logged \/ (k \in Nat /\ begin <= k)
    BY <1>3, <1>4, <1>5 DEF EventIds
  <1>9. DonePromiseOutlivesPowerLoss'
    BY <1>1, <1>2, <1>3, <1>5, <1>6, <1>7, <1>8, DoneStaysDurable
  <1> QED
    BY <1>5, <1>9 DEF DurableInv

(* need_sync_ stays exact and completed promises stay durable.               *)
LEMMA DurableStep ==
  ASSUME Typed, Typed', TimerInv, OrderInv, DurableInv, [Next]_vars
  PROVE  DurableInv'
  <1>0. /\ LogIsBehind /\ NeedSyncIsExact /\ DonePromiseOutlivesPowerLoss
        /\ begin \in Nat /\ durable \in Nat /\ durable' \in Nat /\ logged \subseteq Nat
        /\ skipped \in Nat /\ skipped' \in Nat
    <2>1. durable' \in 0 .. MaxEventId /\ skipped' \in 0 .. MaxEventId
      BY DEF Typed, TypeOK
    <2> QED
      BY <2>1, LogNumbers DEF TimerInv, DurableInv
  <1>1. CASE ReceiveNext
    BY <1>1, DurableNext
  <1>2. ASSUME UNCHANGED <<begin, done, covers, logged>>, durable <= durable', skipped <= skipped'
        PROVE  DonePromiseOutlivesPowerLoss'
    BY <1>0, <1>2, DoneStaysDurable
  <1>3. CASE ReceiveEarly \/ ReceiveForceFlush \/ TimeoutFlush
    <2>1. UNCHANGED <<begin, done, covers>>
      BY <1>3, ReceiveFacts DEF ReceiveEarly, ReceiveForceFlush, TimeoutFlush, client_vars
    <2>2. Flush \/ UNCHANGED log_vars
      BY <1>3 DEF ReceiveEarly, ReceiveForceFlush, TimeoutFlush
    <2>3. CASE Flush
      BY <1>0, <1>2, <2>1, <2>3, FlushIsExact DEF DurableInv
    <2>4. CASE UNCHANGED log_vars
      <3>1. UNCHANGED <<logged, flushed, durable, need_sync, skipped>>
        BY <2>4 DEF log_vars
      <3>2. NeedSyncIsExact'
        BY <1>0, <3>1 DEF NeedSyncIsExact, Kept
      <3> QED
        BY <1>0, <1>2, <2>1, <3>1, <3>2 DEF DurableInv
    <2> QED
      BY <2>2, <2>3, <2>4
  <1>4. CASE ReceiveChangeKey \/ ReceiveClose
    <2>1. UNCHANGED <<begin, done, covers>>
      BY <1>4, ReceiveFacts DEF ReceiveChangeKey, ReceiveClose, client_vars
    <2>2. CASE Sync \/ Reindex
      <3>1. NeedSyncIsExact' /\ logged' = logged /\ \A n \in logged : Kept(n)'
        BY <1>0, <2>2, SyncIsExact
      <3>2. DonePromiseOutlivesPowerLoss'
        BY <1>0, <2>1, <3>1 DEF DonePromiseOutlivesPowerLoss, Kept
      <3> QED
        BY <3>1, <3>2 DEF DurableInv
    <2>3. CASE UNCHANGED <<logged, flushed, durable, need_sync, skipped>>
      <3>1. NeedSyncIsExact'
        BY <1>0, <2>3 DEF NeedSyncIsExact, Kept
      <3> QED
        BY <1>0, <1>2, <2>1, <2>3, <3>1 DEF DurableInv
    <2> QED
      BY <1>4, <2>2, <2>3 DEF ReceiveChangeKey, ReceiveClose
  <1>5. CASE TimeoutSync
    <2>1. UNCHANGED <<begin, covers>> /\ done' = done \cup sync_promises /\ Sync
      BY <1>5 DEF TimeoutSync, client_vars
    <2>2. NeedSyncIsExact' /\ logged' = logged /\ \A n \in logged : Kept(n)'
      BY <1>0, <2>1, SyncIsExact
    <2>3. \A p \in done' : covers'[p] < begin'
      BY <1>0, <2>1 DEF DonePromiseOutlivesPowerLoss, OrderInv, PromisesAreCovered
    <2> QED
      BY <2>2, <2>3 DEF DurableInv, DonePromiseOutlivesPowerLoss, Kept
  <1>6. CASE ReceiveForceSync \/ ClientNext \/ UNCHANGED vars
    <2>1. UNCHANGED <<begin, done, logged, flushed, durable, need_sync, skipped>>
      BY <1>6, CoversAreFixed DEF ReceiveForceSync, vars, actor_vars, log_vars
    <2>2. \A p \in issued : covers'[p] = covers[p]
      BY <1>6, CoversAreFixed, ReceiveFacts DEF ReceiveForceSync, vars, client_vars
    <2>3. NeedSyncIsExact'
      BY <1>0, <2>1 DEF NeedSyncIsExact, Kept
    <2>4. DonePromiseOutlivesPowerLoss'
      BY <1>0, <2>1, <2>2, DoneStaysDurable
    <2> QED
      BY <2>3, <2>4 DEF DurableInv
  <1> QED
    BY <1>1, <1>3, <1>4, <1>5, <1>6 DEF Next, ReceiveMessage

(* need_sync_ is exact and a completed promise stands for kept events.       *)
THEOREM DurableAlways == Spec => []DurableInv
  <1>1. Init => DurableInv
    BY DEF Init, DurableInv, NeedSyncIsExact, DonePromiseOutlivesPowerLoss
  <1>2. Typed /\ Typed' /\ TimerInv /\ OrderInv /\ DurableInv /\ [Next]_vars => DurableInv'
    BY DurableStep
  <1> QED
    BY <1>1, <1>2, TypedAlways, TimerAlways, OrderAlways, PTL DEF Spec

(* A promise is completed only when all the events its caller may rely on    *)
(* have run and are on the disk, or were written by a reindex that found the *)
(* file empty and did not sync the new one (ConcurrentBinlog.cpp:53-71 and   *)
(* 156-171, Binlog.cpp:407-414 and 664-668).                                 *)
THEOREM DonePromisesSurvive == Spec => []DonePromiseOutlivesPowerLoss
  <1>1. DurableInv => DonePromiseOutlivesPowerLoss
    BY DEF DurableInv
  <1> QED
    BY DurableAlways, <1>1, PTL

(* Only a reindex of an empty file skips a sync.                             *)
LEMMA NothingSkipped ==
  ASSUME ~file_empty, skipped = 0, [Next]_vars
  PROVE  skipped' = 0
  <1>1. ASSUME Flush \/ Sync \/ Reindex \/ UNCHANGED log_vars \/ UNCHANGED skipped
        PROVE  skipped' = 0
    BY <1>1 DEF Flush, Sync, Reindex, log_vars
  <1>2. CASE ReceiveNext
    BY <1>2 DEF ReceiveNext, AddEvents
  <1>3. CASE ReceiveEarly \/ ReceiveForceSync \/ ReceiveForceFlush \/ ReceiveChangeKey \/ ReceiveClose
    BY <1>1, <1>3 DEF ReceiveEarly, ReceiveForceSync, ReceiveForceFlush, ReceiveChangeKey, ReceiveClose
  <1>4. CASE TimeoutSync \/ TimeoutFlush
    BY <1>1, <1>4 DEF TimeoutSync, TimeoutFlush
  <1>5. CASE ClientNext \/ UNCHANGED vars
    <2>1. UNCHANGED log_vars
      BY <1>5 DEF ClientNext, TakeIds, SendAdd, SendForceSync, SendForceFlush, SendChangeKey,
                  SendClose, vars, actor_vars
    <2> QED
      BY <1>1, <2>1
  <1> QED
    BY <1>2, <1>3, <1>4, <1>5 DEF Next, ReceiveMessage

(* While the file has a byte, a promise is completed only when all the events *)
(* its caller may rely on are on the disk: what the callers of force_sync    *)
(* count on (ConcurrentBinlog.cpp:64-71, Binlog.cpp:407-414).                *)
THEOREM DurableUnlessEmptied == Spec /\ []~file_empty => []DonePromiseIsDurable
  <1>1. Init => skipped = 0
    BY DEF Init
  <1>2. ~file_empty /\ skipped = 0 /\ [Next]_vars => (skipped = 0)'
    BY NothingSkipped
  <1>3. Typed /\ skipped = 0 /\ DonePromiseOutlivesPowerLoss => DonePromiseIsDurable
    BY DEF Typed, TypeOK, EventIds, DonePromiseOutlivesPowerLoss, DonePromiseIsDurable
  <1> QED
    BY <1>1, <1>2, <1>3, TypedAlways, DonePromisesSurvive, PTL DEF Spec

(* A file with a byte keeps one as long as there is a key: every reindex      *)
(* writes the record of the encryption (Binlog.cpp:595-627).                 *)
LEMMA KeyedFileHasRecord ==
  ASSUME Typed, ~file_empty, keyed', [Next]_vars
  PROVE  ~file_empty'
  <1>1. ASSUME Flush \/ Sync \/ Reindex \/ UNCHANGED log_vars \/ UNCHANGED file_empty
        PROVE  ~file_empty'
    BY <1>1 DEF Flush, Sync, Reindex, log_vars
  <1>2. CASE ReceiveNext
    <2>1. ASSUME NEW new, NEW upto, NEW f, NEW d, AddEvents(new, upto, f, d) PROVE ~file_empty'
      <3>1. keyed
        BY <2>1 DEF AddEvents
      <3> QED
        BY <2>1, <3>1, Zenon DEF AddEvents
    <2> QED
      BY <1>2, <2>1 DEF ReceiveNext
  <1>3. CASE ReceiveEarly \/ ReceiveForceSync \/ ReceiveForceFlush \/ ReceiveChangeKey \/ ReceiveClose
    BY <1>1, <1>3 DEF ReceiveEarly, ReceiveForceSync, ReceiveForceFlush, ReceiveChangeKey, ReceiveClose
  <1>4. CASE TimeoutSync \/ TimeoutFlush
    BY <1>1, <1>4 DEF TimeoutSync, TimeoutFlush
  <1>5. CASE ClientNext \/ UNCHANGED vars
    <2>1. UNCHANGED log_vars
      BY <1>5 DEF ClientNext, TakeIds, SendAdd, SendForceSync, SendForceFlush, SendChangeKey,
                  SendClose, vars, actor_vars
    <2> QED
      BY <1>1, <2>1
  <1> QED
    BY <1>2, <1>3, <1>4, <1>5 DEF Next, ReceiveMessage

(* With a key, and a file that was not empty when it was opened, a promise is *)
(* completed only for events that are on the disk.                           *)
THEOREM DurableWithKey == Spec /\ ~file_empty /\ []keyed => []DonePromiseIsDurable
  <1>1. Typed /\ ~file_empty /\ keyed' /\ [Next]_vars => ~file_empty'
    BY KeyedFileHasRecord
  <1>2. Spec /\ ~file_empty /\ []keyed => []~file_empty
    BY <1>1, TypedAlways, PTL DEF Spec
  <1> QED
    BY <1>2, DurableUnlessEmptied, PTL

-------------------------------------------------------------------------------
(* For any number of threads, events, syncs and changes of key: when the      *)
(* actor of ConcurrentBinlog.cpp has been closed, every number that was ever  *)
(* taken has run and everything written is on the disk, but for what a        *)
(* reindex of an empty file did not sync.  The argument is an account of      *)
(* where each number is that was taken and has not run.                       *)


Held(n) == \E c \in Clients : n \in holding[c]
Stored(n) == \E e \in early : e.seq_no = n
Posted(n) == \E i \in 1 .. Len(mailbox) : mailbox[i].op = "add" /\ mailbox[i].seq_no = n

(* Nothing is sent, stored or run beyond the counter.                        *)
NumbersAreTaken ==
  /\ begin <= last_event_id
  /\ \A i \in 1 .. Len(mailbox) : mailbox[i].op = "add" => mailbox[i].seq_no < last_event_id
  /\ \A e \in early : begin < e.seq_no /\ e.seq_no < last_event_id

(* A number that was taken and has not run is with its thread, on its way, or *)
(* stored.                                                                  *)
NumbersAreSomewhere ==
  \A n \in EventIds : begin <= n /\ n < last_event_id => Held(n) \/ Stored(n) \/ Posted(n)

(* Nothing follows close().                                                  *)
CloseIsLast ==
  /\ closing => \A c \in Clients : holding[c] = {}
  /\ \A i \in 1 .. Len(mailbox) : mailbox[i].op = "close" => closing /\ i = Len(mailbox)
  /\ stopped => closing

AllHasRun == stopped => begin = last_event_id

NumbersInv == NumbersAreTaken /\ NumbersAreSomewhere /\ CloseIsLast /\ AllHasRun

-------------------------------------------------------------------------------
(* Nothing has been taken at first.                                          *)
LEMMA NumbersInit == Init => NumbersInv
  <1> SUFFICES ASSUME Init PROVE NumbersInv
    OBVIOUS
  <1> USE DEF Init
  <1>1. NumbersAreTaken
    BY DEF NumbersAreTaken
  <1>2. NumbersAreSomewhere
    BY DEF NumbersAreSomewhere, EventIds
  <1>3. CloseIsLast /\ AllHasRun
    BY DEF CloseIsLast, AllHasRun
  <1> QED
    BY <1>1, <1>2, <1>3 DEF NumbersInv

(* Types of what the account is about.                                       *)
LEMMA AccountTypes ==
  ASSUME Typed
  PROVE  /\ begin \in Nat /\ begin >= 1 /\ last_event_id \in Nat /\ last_event_id <= MaxEventId + 1
         /\ holding \in [Clients -> SUBSET EventIds]
         /\ mailbox \in Seq(Messages) /\ Len(mailbox) \in Nat
         /\ \A e \in early : e.seq_no \in Nat
         /\ \A i \in 1 .. Len(mailbox) : mailbox[i].seq_no \in Nat
  <1>1. /\ begin \in Nat /\ begin >= 1 /\ last_event_id \in Nat /\ last_event_id <= MaxEventId + 1
        /\ holding \in [Clients -> SUBSET EventIds]
        /\ mailbox \in Seq(Messages) /\ Len(mailbox) \in Nat
    BY ConcurrentBinlogAssumption DEF Typed, TypeOK
  <1> QED
    BY <1>1, EventNumbers

(* A message sent: the others stay where they are.                           *)
LEMMA SendFacts ==
  ASSUME Typed, NEW m \in Messages, mailbox' = Append(mailbox, m)
  PROVE  /\ Len(mailbox') = Len(mailbox) + 1
         /\ \A i \in 1 .. Len(mailbox') :
              \/ i \in 1 .. Len(mailbox) /\ mailbox'[i] = mailbox[i]
              \/ i = Len(mailbox') /\ mailbox'[i] = m
         /\ \A n : Posted(n) => Posted(n)'
         /\ m.op = "add" => \A n : n = m.seq_no => Posted(n)'
  <1>1. mailbox \in Seq(Messages)
    BY DEF Typed, TypeOK
  <1>2. /\ Len(mailbox) \in Nat /\ Len(mailbox') = Len(mailbox) + 1
        /\ \A i \in 1 .. Len(mailbox) : mailbox'[i] = mailbox[i]
        /\ mailbox'[Len(mailbox) + 1] = m
    BY <1>1, AppendFacts
  <1>3. \A i \in 1 .. Len(mailbox') :
          \/ i \in 1 .. Len(mailbox) /\ mailbox'[i] = mailbox[i]
          \/ i = Len(mailbox') /\ mailbox'[i] = m
    BY <1>2
  <1>4. ASSUME NEW n, Posted(n) PROVE Posted(n)'
    <2>1. PICK i \in 1 .. Len(mailbox) : mailbox[i].op = "add" /\ mailbox[i].seq_no = n
      BY <1>4 DEF Posted
    <2>2. i \in 1 .. Len(mailbox') /\ mailbox'[i] = mailbox[i]
      BY <1>2
    <2> QED
      BY <2>1, <2>2 DEF Posted
  <1>5. ASSUME m.op = "add", NEW n, n = m.seq_no PROVE Posted(n)'
    <2>1. Len(mailbox) + 1 \in 1 .. Len(mailbox')
      BY <1>2
    <2> QED
      BY <1>2, <1>5, <2>1 DEF Posted
  <1> QED
    BY <1>2, <1>3, <1>4, <1>5

(* The threads lose no number they have taken, and send nothing after close(). *)
LEMMA NumbersClient ==
  ASSUME Typed, OrderInv, NumbersInv, ClientNext
  PROVE  NumbersInv'
  <1>0. /\ NumbersAreTaken /\ NumbersAreSomewhere /\ CloseIsLast /\ AllHasRun
        /\ \A c \in Clients : \A n \in holding[c] : n < last_event_id
    BY DEF NumbersInv, OrderInv, NumbersAreFresh
  <1>1. ASSUME NEW c \in Clients, NEW shift \in 1 .. 2, TakeIds(c, shift) PROVE NumbersInv'
    <2>1. /\ ~closing /\ holding[c] = {} /\ last_event_id' = last_event_id + shift
          /\ holding' = [holding EXCEPT ![c] = last_event_id .. last_event_id + shift - 1]
          /\ UNCHANGED <<closing, mailbox, begin, early, stopped>>
      BY <1>1 DEF TakeIds, actor_vars
    <2>2. last_event_id < last_event_id' /\ last_event_id' \in Nat
      BY <2>1, AccountTypes
    <2>3. NumbersAreTaken'
      BY <1>0, <2>1, <2>2, AccountTypes DEF NumbersAreTaken
    <2>4. ASSUME NEW n \in EventIds, begin <= n, n < last_event_id'
          PROVE  Held(n)' \/ Stored(n)' \/ Posted(n)'
      <3>1. CASE n < last_event_id
        <4>1. Held(n) \/ Stored(n) \/ Posted(n)
          BY <1>0, <2>4, <3>1 DEF NumbersAreSomewhere
        <4>2. Held(n) => Held(n)'
          BY <2>1, AccountTypes DEF Held
        <4> QED
          BY <2>1, <4>1, <4>2 DEF Stored, Posted
      <3>2. CASE ~(n < last_event_id)
        <4>1. n \in last_event_id .. last_event_id + shift - 1
          BY <2>1, <2>4, <3>2, AccountTypes DEF EventIds
        <4>2. holding'[c] = last_event_id .. last_event_id + shift - 1
          BY <2>1, AccountTypes
        <4> QED
          BY <4>1, <4>2 DEF Held
      <3> QED
        BY <3>1, <3>2
    <2>5. NumbersAreSomewhere'
      BY <2>1, <2>4 DEF NumbersAreSomewhere
    <2>6. CloseIsLast' /\ AllHasRun'
      BY <1>0, <2>1 DEF CloseIsLast, AllHasRun
    <2> QED
      BY <2>3, <2>5, <2>6 DEF NumbersInv
  <1>2. ASSUME NEW c \in Clients, NEW raw \in BOOLEAN, NEW promise \in BOOLEAN,
               SendAdd(c, raw, promise)
        PROVE  NumbersInv'
    <2>1. PICK n \in holding[c] :
            /\ mailbox' = Append(mailbox, AddMessage(n, raw, promise))
            /\ holding' = [holding EXCEPT ![c] = @ \ {n}]
            /\ UNCHANGED <<last_event_id, closing, begin, early, stopped>>
      BY <1>2 DEF SendAdd, actor_vars
    <2>2. n \in Nat /\ n < last_event_id
      BY <1>0, AccountTypes DEF EventIds
    <2>3. PICK m \in Messages : m = AddMessage(n, raw, promise) /\ m.op = "add" /\ m.seq_no = n
      BY <2>2, SentMessages DEF AddMessage
    <2>4. mailbox' = Append(mailbox, m)
      BY <2>1, <2>3
    <2>5. NumbersAreTaken'
      <3>1. \A i \in 1 .. Len(mailbox') : mailbox'[i].op = "add" => mailbox'[i].seq_no < last_event_id
        BY <1>0, <2>2, <2>3, <2>4, SendFacts DEF NumbersAreTaken
      <3> QED
        BY <1>0, <2>1, <3>1 DEF NumbersAreTaken
    <2>6. ASSUME NEW k \in EventIds, begin <= k, k < last_event_id
          PROVE  Held(k)' \/ Stored(k)' \/ Posted(k)'
      <3>1. Held(k) \/ Stored(k) \/ Posted(k)
        BY <1>0, <2>6 DEF NumbersAreSomewhere
      <3>2. CASE k = n
        BY <2>3, <2>4, <3>2, SendFacts
      <3>3. CASE k # n
        <4>1. Held(k) => Held(k)'
          BY <2>1, <3>3, AccountTypes DEF Held
        <4>2. Posted(k) => Posted(k)'
          BY <2>4, SendFacts
        <4>3. Stored(k) => Stored(k)'
          BY <2>1 DEF Stored
        <4> QED
          BY <3>1, <4>1, <4>2, <4>3
      <3> QED
        BY <3>2, <3>3
    <2>7. NumbersAreSomewhere'
      BY <2>1, <2>6 DEF NumbersAreSomewhere
    <2>8. ~closing
      BY <1>0 DEF CloseIsLast
    <2>9. CloseIsLast' /\ AllHasRun'
      <3>1. \A i \in 1 .. Len(mailbox') : mailbox'[i].op # "close"
        BY <1>0, <2>3, <2>4, <2>8, SendFacts DEF CloseIsLast
      <3> QED
        BY <1>0, <2>1, <2>8, <3>1 DEF CloseIsLast, AllHasRun
    <2> QED
      BY <2>5, <2>7, <2>9 DEF NumbersInv
  <1>3. CASE (\E c \in Clients : SendForceSync(c)) \/ SendForceFlush \/ SendChangeKey \/ SendClose
    <2>1. PICK m \in Messages :
            /\ mailbox' = Append(mailbox, m) /\ m.op # "add"
            /\ \/ closing' = closing /\ m.op # "close"
               \/ closing' = TRUE /\ \A c \in Clients : holding[c] = {}
      <3>1. ASSUME NEW c \in Clients, SendForceSync(c)
            PROVE  \E m \in Messages : /\ mailbox' = Append(mailbox, m) /\ m.op # "add"
                                       /\ closing' = closing /\ m.op # "close"
        <4>1. PICK k \in Nat : k = syncs'
          BY <3>1, ConcurrentBinlogAssumption DEF SendForceSync, Typed, TypeOK
        <4>2. /\ Message("force_sync", k) \in Messages /\ Message("force_sync", k).op = "force_sync"
              /\ mailbox' = Append(mailbox, Message("force_sync", k)) /\ closing' = closing
          BY <3>1, <4>1, SentMessages DEF SendForceSync, Message
        <4> QED
          BY <4>2
      <3>2. \A op \in {"force_flush", "change_key", "close"} :
              Message(op, 0) \in Messages /\ Message(op, 0).op = op
        BY SentMessages DEF Message
      <3> QED
        BY <1>3, <3>1, <3>2 DEF SendForceFlush, SendChangeKey, SendClose, client_vars
    <2>2. ~closing /\ UNCHANGED <<last_event_id, holding, begin, early, stopped>>
      BY <1>3 DEF SendForceSync, SendForceFlush, SendChangeKey, SendClose, client_vars, actor_vars
    <2>3. NumbersAreTaken'
      <3>1. \A i \in 1 .. Len(mailbox') : mailbox'[i].op = "add" => mailbox'[i].seq_no < last_event_id
        BY <1>0, <2>1, SendFacts DEF NumbersAreTaken
      <3> QED
        BY <1>0, <2>2, <3>1 DEF NumbersAreTaken
    <2>4. ASSUME NEW k \in EventIds, begin <= k, k < last_event_id
          PROVE  Held(k)' \/ Stored(k)' \/ Posted(k)'
      <3>1. Held(k) \/ Stored(k) \/ Posted(k)
        BY <1>0, <2>4 DEF NumbersAreSomewhere
      <3>2. Posted(k) => Posted(k)'
        BY <2>1, SendFacts
      <3> QED
        BY <2>2, <3>1, <3>2 DEF Held, Stored
    <2>5. NumbersAreSomewhere'
      BY <2>2, <2>4 DEF NumbersAreSomewhere
    <2>6. CloseIsLast' /\ AllHasRun'
      <3>1. ~stopped
        BY <1>0, <2>2 DEF CloseIsLast
      <3>2. \A i \in 1 .. Len(mailbox) : mailbox[i].op # "close"
        BY <1>0, <2>2 DEF CloseIsLast
      <3>3. \A i \in 1 .. Len(mailbox') : mailbox'[i].op = "close" => closing' /\ i = Len(mailbox')
        BY <2>1, <3>2, SendFacts
      <3>4. closing' => \A c \in Clients : holding'[c] = {}
        BY <2>1, <2>2
      <3> QED
        BY <2>2, <3>1, <3>3, <3>4 DEF CloseIsLast, AllHasRun
    <2> QED
      BY <2>3, <2>5, <2>6 DEF NumbersInv
  <1> QED
    BY <1>1, <1>2, <1>3 DEF ClientNext

-------------------------------------------------------------------------------
(* Every number up to the one the actor stops at has arrived.                *)
LEMMA RunsWhatWasTaken ==
  ASSUME Typed, NumbersInv, Receive("add"), Head(mailbox).seq_no = begin,
         NEW n \in begin + 1 .. MaxEventId + 1, ReadyUpTo(n)
  PROVE  /\ n <= last_event_id
         /\ \A e \in early \ RunOf(n) : n < e.seq_no
  <1>1. /\ begin \in Nat /\ n \in Nat /\ begin < n /\ last_event_id \in Nat
        /\ \A e \in early : e.seq_no \in Nat
    BY AccountTypes, ConcurrentBinlogAssumption
  <1>2. n <= last_event_id
    <2>1. CASE n = begin + 1
      <3>1. Head(mailbox) = mailbox[1] /\ Head(mailbox).op = "add" /\ 1 \in 1 .. Len(mailbox)
        BY ReceiveFacts
      <3>2. begin < last_event_id
        BY <3>1 DEF NumbersInv, NumbersAreTaken
      <3> QED
        BY <1>1, <2>1, <3>2
    <2>2. CASE n # begin + 1
      <3>1. n - 1 \in begin + 1 .. n - 1 /\ n - 1 \in Nat
        BY <1>1, <2>2
      <3>2. PICK e \in early : e.seq_no = n - 1
        BY <3>1 DEF ReadyUpTo
      <3>3. n - 1 < last_event_id
        BY <3>2 DEF NumbersInv, NumbersAreTaken
      <3> QED
        BY <1>1, <3>3
    <2> QED
      BY <2>1, <2>2
  <1>3. ASSUME NEW e \in early \ RunOf(n) PROVE n < e.seq_no
    <2>1. e \in early /\ ~(e.seq_no < n) /\ e.seq_no # n
      BY <1>3 DEF RunOf, ReadyUpTo
    <2> QED
      BY <1>1, <2>1
  <1> QED
    BY <1>2, <1>3

(* A message taken is accounted for if, when it is an event, it runs or is    *)
(* stored, and if the actor stops at close() only.                           *)
LEMMA NumbersReceived ==
  ASSUME Typed, NumbersInv, NEW op, Receive(op), Handled, begin' <= last_event_id,
         \A e \in early' : begin' < e.seq_no /\ e.seq_no < last_event_id,
         stopped' => op = "close"
  PROVE  NumbersInv'
  <1>0. /\ NumbersAreTaken /\ NumbersAreSomewhere /\ CloseIsLast
        /\ begin \in Nat /\ begin >= 1 /\ begin' \in Nat /\ begin <= begin'
        /\ last_event_id \in Nat /\ last_event_id <= MaxEventId + 1
    BY AccountTypes DEF NumbersInv, Handled
  <1>1. /\ Head(mailbox) = mailbox[1] /\ Head(mailbox).op = op
        /\ Len(mailbox) \in Nat /\ Len(mailbox) >= 1 /\ Len(mailbox') = Len(mailbox) - 1
        /\ \A i \in 1 .. Len(mailbox') : mailbox'[i] = mailbox[i + 1]
    BY ReceiveFacts
  <1>2. UNCHANGED <<last_event_id, holding, closing>>
    BY ReceiveFacts DEF client_vars
  <1>3. \A i \in 1 .. Len(mailbox') : i + 1 \in 1 .. Len(mailbox) /\ mailbox'[i] = mailbox[i + 1]
    BY <1>1
  <1>4. NumbersAreTaken'
    BY <1>0, <1>2, <1>3 DEF NumbersAreTaken
  <1>5. ASSUME NEW n \in EventIds, begin' <= n, n < last_event_id
        PROVE  Held(n)' \/ Stored(n)' \/ Posted(n)'
    <2>0. n \in Nat /\ begin <= n /\ ~(n < begin')
      BY <1>0, <1>5 DEF EventIds
    <2>1. Held(n) \/ Stored(n) \/ Posted(n)
      BY <1>0, <1>5, <2>0 DEF NumbersAreSomewhere
    <2>2. Held(n) => Held(n)'
      BY <1>2 DEF Held
    <2>3. Stored(n) => Stored(n)'
      BY <2>0 DEF Stored, Handled
    <2>4. ASSUME Posted(n) PROVE Posted(n)' \/ Stored(n)'
      <3>1. PICK i \in 1 .. Len(mailbox) : mailbox[i].op = "add" /\ mailbox[i].seq_no = n
        BY <2>4 DEF Posted
      <3>2. CASE i = 1
        <4>1. Head(mailbox).op = "add" /\ Head(mailbox).seq_no = n
          BY <1>1, <3>1, <3>2
        <4> QED
          BY <2>0, <4>1 DEF Handled, Stored
      <3>3. CASE i # 1
        <4>1. i - 1 \in 1 .. Len(mailbox') /\ (i - 1) + 1 = i
          BY <1>1, <3>3
        <4>2. mailbox'[i - 1] = mailbox[i]
          BY <1>3, <4>1
        <4> QED
          BY <3>1, <4>1, <4>2 DEF Posted
      <3> QED
        BY <3>2, <3>3
    <2> QED
      BY <2>1, <2>2, <2>3, <2>4
  <1>6. NumbersAreSomewhere'
    BY <1>2, <1>5 DEF NumbersAreSomewhere
  <1>7. op = "close" => closing /\ Len(mailbox) = 1
    <2>1. 1 \in 1 .. Len(mailbox)
      BY <1>1
    <2> QED
      BY <1>0, <1>1, <2>1 DEF CloseIsLast
  <1>8. CloseIsLast'
    <2>1. ASSUME NEW i \in 1 .. Len(mailbox'), mailbox'[i].op = "close"
          PROVE  closing' /\ i = Len(mailbox')
      <3>1. i + 1 \in 1 .. Len(mailbox) /\ mailbox[i + 1].op = "close"
        BY <1>3, <2>1
      <3>2. closing /\ i + 1 = Len(mailbox)
        BY <1>0, <3>1 DEF CloseIsLast
      <3> QED
        BY <1>1, <1>2, <3>2
    <2> QED
      BY <1>0, <1>2, <1>7, <2>1 DEF CloseIsLast
  <1>9. AllHasRun'
    <2>1. SUFFICES ASSUME stopped', begin' # last_event_id PROVE FALSE
      BY <1>2 DEF AllHasRun
    <2>2. begin' < last_event_id
      BY <1>0, <2>1
    <2>3. PICK n \in EventIds : n = begin'
      BY <1>0, <2>2, ConcurrentBinlogAssumption DEF EventIds
    <2>4. Held(n)' \/ Stored(n)' \/ Posted(n)'
      BY <1>0, <1>5, <2>2, <2>3
    <2>5. closing /\ Len(mailbox') = 0
      <3>1. op = "close"
        BY <2>1, Zenon
      <3>2. closing /\ Len(mailbox) = 1
        BY <1>7, <3>1
      <3> QED
        BY <1>1, <3>2
    <2>6. ~Held(n)'
      BY <1>0, <1>2, <2>5 DEF Held, CloseIsLast
    <2>7. ~Posted(n)'
      BY <2>5 DEF Posted
    <2>8. ~Stored(n)'
      <3>1. \A e \in early' : begin' < e.seq_no
        OBVIOUS
      <3>2. ~(begin' < begin')
        BY <1>0
      <3> QED
        BY <2>3, <3>1, <3>2 DEF Stored
    <2> QED
      BY <2>4, <2>6, <2>7, <2>8
  <1> QED
    BY <1>4, <1>6, <1>8, <1>9 DEF NumbersInv

(* No step loses a number that was taken.                                    *)
LEMMA NumbersStep ==
  ASSUME Typed, OrderInv, NumbersInv, [Next]_vars
  PROVE  NumbersInv'
  <1>0. /\ begin \in Nat /\ begin <= last_event_id /\ last_event_id \in Nat
        /\ \A e \in early : begin < e.seq_no /\ e.seq_no < last_event_id
        /\ \A i \in 1 .. Len(mailbox) : mailbox[i].op = "add" => mailbox[i].seq_no < last_event_id
    BY AccountTypes DEF NumbersInv, NumbersAreTaken
  <1>1. CASE ReceiveNext
    <2>1. PICK n \in begin + 1 .. MaxEventId + 1, f \in 0 .. MaxEventId, d \in 0 .. MaxEventId :
            /\ NextStep(n, f, d)
            /\ Receive("add") /\ Head(mailbox).seq_no = begin /\ UNCHANGED <<stopped, done>>
      BY <1>1, ReceiveNextStep
    <2>2. ReadyUpTo(n) /\ begin' = n /\ early' = early \ RunOf(n)
      BY <2>1 DEF NextStep
    <2>3. n <= last_event_id /\ \A e \in early' : n < e.seq_no
      BY <2>1, <2>2, RunsWhatWasTaken
    <2>4. n \in Nat /\ begin < n
      BY <1>0, ConcurrentBinlogAssumption
    <2>5. Handled
      <3>1. \A e \in early : e \in early' \/ e.seq_no < n
        BY <2>1, <2>2, <2>4 DEF RunOf
      <3> QED
        BY <1>0, <2>1, <2>2, <2>4, <3>1 DEF Handled
    <2>6. ~stopped'
      BY <2>1, ReceiveFacts
    <2> QED
      BY <1>0, <2>1, <2>2, <2>3, <2>5, <2>6, NumbersReceived
  <1>2. CASE ReceiveEarly
    <2>1. /\ Receive("add") /\ Head(mailbox).seq_no > begin /\ begin' = begin
          /\ early' = early \cup {Head(mailbox)} /\ stopped' = stopped
      BY <1>2 DEF ReceiveEarly
    <2>2. /\ ~stopped /\ Head(mailbox) = mailbox[1] /\ Head(mailbox).op = "add"
          /\ 1 \in 1 .. Len(mailbox)
      BY <2>1, ReceiveFacts
    <2>3. Head(mailbox).seq_no < last_event_id /\ Head(mailbox).seq_no \in Nat
      BY <1>0, <2>2, AccountTypes
    <2>4. Handled
      BY <1>0, <2>1 DEF Handled
    <2>5. begin < Head(mailbox).seq_no
      BY <1>0, <2>1, <2>3
    <2>6. \A e \in early' : begin' < e.seq_no /\ e.seq_no < last_event_id
      BY <1>0, <2>1, <2>3, <2>5
    <2> QED
      BY <1>0, <2>1, <2>2, <2>4, <2>6, NumbersReceived
  <1>3. CASE ReceiveForceSync \/ ReceiveForceFlush \/ ReceiveChangeKey \/ ReceiveClose
    <2>1. PICK op \in {"force_sync", "force_flush", "change_key", "close"} :
            /\ Receive(op) /\ UNCHANGED <<begin, early>>
            /\ op = "close" \/ stopped' = stopped
      BY <1>3 DEF ReceiveForceSync, ReceiveForceFlush, ReceiveChangeKey, ReceiveClose
    <2>2. Head(mailbox).op # "add" /\ ~stopped
      BY <2>1, ReceiveFacts
    <2>3. Handled
      BY <1>0, <2>1, <2>2 DEF Handled
    <2> QED
      BY <1>0, <2>1, <2>2, <2>3, NumbersReceived
  <1>4. CASE TimeoutSync \/ TimeoutFlush \/ UNCHANGED vars
    <2>1. UNCHANGED <<last_event_id, holding, closing, mailbox, begin, early, stopped>>
      BY <1>4 DEF TimeoutSync, TimeoutFlush, vars, client_vars, actor_vars
    <2> QED
      BY <2>1 DEF NumbersInv, NumbersAreTaken, NumbersAreSomewhere, CloseIsLast, AllHasRun,
                  Held, Stored, Posted
  <1>5. CASE ClientNext
    BY <1>5, NumbersClient
  <1> QED
    BY <1>1, <1>2, <1>3, <1>4, <1>5 DEF Next, ReceiveMessage

(* Where every number is that was taken and has not run, in every state.     *)
THEOREM NumbersAlways == Spec => []NumbersInv
  <1>1. Typed /\ OrderInv /\ NumbersInv /\ [Next]_vars => NumbersInv'
    BY NumbersStep
  <1> QED
    BY <1>1, NumbersInit, TypedAlways, OrderAlways, PTL DEF Spec

-------------------------------------------------------------------------------
(* What was written when the actor stopped is kept.                          *)
StoppedIsDurable == stopped => \A n \in logged : Kept(n)

(* close() syncs the log, and nothing is written after it.                   *)
LEMMA StoppedStep ==
  ASSUME Typed, TimerInv, OrderInv, DurableInv, StoppedIsDurable, [Next]_vars
  PROVE  StoppedIsDurable'
  <1>1. CASE ReceiveClose
    <2>1. \A n \in logged : Kept(n)'
      BY <1>1, SyncIsExact DEF ReceiveClose, TimerInv, DurableInv
    <2>2. logged' = logged
      BY <1>1 DEF ReceiveClose, Sync
    <2> QED
      BY <2>1, <2>2 DEF StoppedIsDurable
  <1>2. CASE \/ ReceiveNext \/ ReceiveEarly \/ ReceiveForceSync \/ ReceiveForceFlush
             \/ ReceiveChangeKey \/ TimeoutSync \/ TimeoutFlush
    <2>1. ~stopped'
      BY <1>2 DEF ReceiveNext, ReceiveEarly, ReceiveForceSync, ReceiveForceFlush,
                  ReceiveChangeKey, TimeoutSync, TimeoutFlush, Receive
    <2> QED
      BY <2>1 DEF StoppedIsDurable
  <1>3. CASE ClientNext \/ UNCHANGED vars
    <2>1. UNCHANGED <<stopped, logged, durable, skipped>>
      BY <1>3, CoversAreFixed DEF vars, actor_vars, log_vars
    <2> QED
      BY <2>1 DEF StoppedIsDurable, Kept
  <1> QED
    BY <1>1, <1>2, <1>3 DEF Next, ReceiveMessage

(* Orderly close: once the actor has stopped, every number ever taken has run *)
(* and everything written is on the disk, or was written by a reindex that   *)
(* found the file empty (ConcurrentBinlog.cpp:23-29, Binlog.cpp:284-300).    *)
THEOREM CloseIsOrderly == Spec => []CloseLosesNothing
  <1>1. Init => StoppedIsDurable
    BY DEF Init, StoppedIsDurable
  <1>2. Typed /\ TimerInv /\ OrderInv /\ DurableInv /\ StoppedIsDurable /\ [Next]_vars
          => StoppedIsDurable'
    BY StoppedStep
  <1>3. NumbersInv /\ StoppedIsDurable => CloseLosesNothing
    BY DEF NumbersInv, AllHasRun, StoppedIsDurable, Kept, CloseLosesNothing
  <1> QED
    BY <1>1, <1>2, <1>3, TypedAlways, TimerAlways, OrderAlways, DurableAlways, NumbersAlways,
       PTL DEF Spec

--------------------------------------------------------------------------------
(* The window of early events (OrderedEventsProcessor.h), on its own.         *)

(* A function on 1 .. k is a sequence of length k.                          *)
LEMMA FunctionIsSeq ==
  ASSUME NEW S, NEW k \in Nat, NEW f \in [1 .. k -> S]
  PROVE  f \in Seq(S) /\ Len(f) = k
  OBVIOUS

(* The predecessor of a number above the first one is in the range below it. *)
LEMMA PredecessorInRange ==
  ASSUME NEW b \in Nat, NEW f \in Nat
  PROVE  f < b => b - 1 \in f .. b - 1
  OBVIOUS

-----------------------------------------------------------------------------
(* The bounds of the window and the types of the histories.                 *)
WindowBounds ==
  /\ offset_ \in Nat /\ begin_ \in Nat /\ end_ \in Nat
  /\ First <= offset_ /\ offset_ <= begin_ /\ begin_ <= end_
  /\ data_array_ \in Seq(Nat)
  /\ arrived \subseteq SeqNos

(* What is in the slots, without reference to sequences of slots.           *)
SlotsAreExact ==
  /\ \A i \in 1 .. Len(data_array_) : data_array_[i] # Absent =>
       /\ data_array_[i] = offset_ + i - 1
       /\ begin_ < offset_ + i - 1 /\ offset_ + i - 1 < end_
       /\ offset_ + i - 1 \in arrived
  /\ begin_ < end_ => end_ - offset_ <= Len(data_array_)
  /\ \A n \in arrived : n < end_
  /\ \A n \in arrived : begin_ <= n => Slot(n) # Absent
  /\ begin_ < end_ => end_ - 1 \in arrived

(* Everything before begin_ has arrived and was delivered in order.          *)
PrefixDelivered ==
  /\ \A m \in First .. begin_ - 1 : m \in arrived
  /\ begin_ \notin arrived
  /\ delivered = Promise!RunUpTo(begin_)

WindowInv == WindowBounds /\ SlotsAreExact /\ PrefixDelivered

THEOREM WindowInvInit == WindowInit => WindowInv
  <1> SUFFICES ASSUME WindowInit PROVE WindowInv
    OBVIOUS
  <1> USE ProcessorAssumption DEF WindowInit
  <1>1. WindowBounds
    BY DEF WindowBounds
  <1>2. SlotsAreExact
    BY DEF SlotsAreExact
  <1>3. delivered = Promise!RunUpTo(begin_)
    BY DEF Promise!RunUpTo
  <1>4. PrefixDelivered
    BY <1>3 DEF PrefixDelivered
  <1> QED
    BY <1>1, <1>2, <1>4 DEF WindowInv

-----------------------------------------------------------------------------
(* Keeping an early event: only its own slot changes.                       *)
LEMMA StoreStep ==
  ASSUME WindowInv, NEW s \in SeqNos, s \notin arrived, Store(s)
  PROVE  WindowInv'
  <1> DEFINE pos == s - offset_ + 1
             size == Larger(Len(data_array_), pos)
  <1> USE ProcessorAssumption DEF WindowInv, SeqNos, Absent
  <1>1. /\ s \in Nat /\ First <= s /\ begin_ < s
        /\ offset_ \in Nat /\ begin_ \in Nat /\ end_ \in Nat
        /\ First <= offset_ /\ offset_ <= begin_ /\ begin_ <= end_
        /\ data_array_ \in Seq(Nat) /\ Len(data_array_) \in Nat
    BY DEF Store, WindowBounds
  <1>2. pos \in Nat /\ pos >= 1 /\ size \in Nat /\ size >= pos /\ size >= Len(data_array_)
    BY <1>1 DEF Larger
  <1>3. data_array_' = [i \in 1 .. size |->
                   IF i = pos THEN s ELSE IF i <= Len(data_array_) THEN data_array_[i] ELSE Absent]
    BY DEF Store
  <1>4. data_array_' \in [1 .. size -> Nat]
    BY <1>1, <1>2, <1>3
  <1>5. data_array_' \in Seq(Nat) /\ Len(data_array_') = size
    BY <1>2, <1>4, FunctionIsSeq
  <1>6. UNCHANGED <<offset_, begin_, delivered>> /\ arrived' = arrived \cup {s}
    BY DEF Store
  <1>7. end_' \in Nat /\ end_ <= end_' /\ s < end_' /\ (end_' = end_ \/ end_' = s + 1)
    BY <1>1 DEF Store, Larger
  <1>8. WindowBounds'
    BY <1>1, <1>5, <1>6, <1>7 DEF WindowBounds
  <1>9. SlotsAreExact'
    <2>1. ASSUME NEW i \in 1 .. Len(data_array_'), data_array_'[i] # Absent
          PROVE  /\ data_array_'[i] = offset_' + i - 1
                 /\ begin_' < offset_' + i - 1 /\ offset_' + i - 1 < end_'
                 /\ offset_' + i - 1 \in arrived'
      <3>1. i \in Nat /\ 1 <= i /\ i \in 1 .. size
        BY <1>2, <1>5
      <3>2. CASE i = pos
        <4>1. data_array_'[i] = s /\ offset_ + i - 1 = s
          BY <3>1, <3>2, <1>1, <1>3
        <4> QED
          BY <4>1, <1>1, <1>6, <1>7
      <3>3. CASE i # pos
        <4>1. i \in 1 .. Len(data_array_) /\ data_array_'[i] = data_array_[i]
          BY <2>1, <3>1, <3>3, <1>1, <1>3
        <4>2. /\ data_array_[i] = offset_ + i - 1
              /\ begin_ < offset_ + i - 1 /\ offset_ + i - 1 < end_
              /\ offset_ + i - 1 \in arrived
          BY <2>1, <4>1 DEF SlotsAreExact
        <4> QED
          BY <3>1, <4>1, <4>2, <1>1, <1>6, <1>7
      <3> QED
        BY <3>2, <3>3
    <2>2. end_' - offset_' <= Len(data_array_')
      <3>1. CASE begin_ < end_
        BY <3>1, <1>1, <1>2, <1>5, <1>6, <1>7 DEF SlotsAreExact
      <3>2. CASE begin_ = end_
        <4>1. end_' = s + 1
          BY <3>2, <1>1, <1>7
        <4> QED
          BY <4>1, <1>1, <1>2, <1>5, <1>6
      <3> QED
        BY <3>1, <3>2, <1>1
    <2>3. \A n \in arrived' : n < end_'
      BY <1>1, <1>6, <1>7 DEF SlotsAreExact, WindowBounds
    <2>4. ASSUME NEW n \in arrived', begin_' <= n
          PROVE  Slot(n)' # Absent
      <3>1. n \in Nat /\ n < end_' /\ n - offset_ + 1 \in 1 .. size
        BY <1>1, <1>2, <1>5, <1>6, <1>7, <2>2, <2>3, <2>4 DEF WindowBounds
      <3>2. CASE n = s
        BY <3>1, <3>2, <1>1, <1>3, <1>6 DEF Slot
      <3>3. CASE n # s
        <4>1. n \in arrived /\ Slot(n) # Absent /\ n < end_ /\ begin_ < end_
          BY <3>1, <3>3, <2>4, <1>1, <1>6 DEF SlotsAreExact
        <4>2. n - offset_ + 1 # pos /\ n - offset_ + 1 <= Len(data_array_)
          BY <3>1, <3>3, <4>1, <1>1 DEF SlotsAreExact
        <4> QED
          BY <3>1, <4>1, <4>2, <1>3, <1>6 DEF Slot
      <3> QED
        BY <3>2, <3>3
    <2>5. end_' - 1 \in arrived'
      <3>1. CASE end_' = end_
        <4>1. begin_ < end_
          BY <3>1, <1>1, <1>7
        <4> QED
          BY <3>1, <4>1, <1>6 DEF SlotsAreExact
      <3>2. CASE end_' = s + 1
        <4>1. end_' - 1 = s
          BY <3>2, <1>1
        <4> QED
          BY <4>1, <1>6
      <3> QED
        BY <3>1, <3>2, <1>7
    <2> QED
      BY <2>1, <2>2, <2>3, <2>4, <2>5 DEF SlotsAreExact
  <1>10. PrefixDelivered'
    BY <1>1, <1>6 DEF PrefixDelivered, Promise!RunUpTo
  <1> QED
    BY <1>8, <1>9, <1>10

-----------------------------------------------------------------------------
(* Facts about the slots the drain loop passes when it stops at n.          *)
LEMMA DrainFacts ==
  ASSUME WindowInv, NEW n \in Nat, begin_ < n, DrainStopsAt(begin_ + 1, n),
         NEW s, s = begin_, arrived' = arrived \cup {s}
  PROVE  /\ begin_ + 1 < n => n <= end_
         /\ \A m \in begin_ + 1 .. n - 1 : Slot(m) = m /\ m \in arrived
         /\ \A m \in First .. n - 1 : m \in arrived'
         /\ n \notin arrived'
  <1> USE ProcessorAssumption DEF WindowInv, SeqNos, Absent
  <1>1. /\ offset_ \in Nat /\ begin_ \in Nat /\ end_ \in Nat
        /\ First <= offset_ /\ offset_ <= begin_ /\ begin_ <= end_
        /\ data_array_ \in Seq(Nat) /\ Len(data_array_) \in Nat
    BY DEF WindowBounds
  <1>2. begin_ + 1 < n => n <= end_
    BY <1>1 DEF DrainStopsAt, Larger
  <1>3. ASSUME NEW m \in begin_ + 1 .. n - 1
        PROVE  Slot(m) = m /\ m \in arrived
    <2> DEFINE i == m - offset_ + 1
    <2>1. m \in Nat /\ begin_ < m /\ m < n /\ m < end_ /\ begin_ < end_
      BY <1>1, <1>2
    <2>2. i \in 1 .. Len(data_array_) /\ offset_ + i - 1 = m
      BY <2>1, <1>1 DEF SlotsAreExact
    <2>3. data_array_[i] # Absent
      BY <1>3 DEF DrainStopsAt, Slot
    <2> QED
      BY <2>2, <2>3 DEF SlotsAreExact, Slot
  <1>4. ASSUME NEW m \in First .. n - 1
        PROVE  m \in arrived'
    <2>1. CASE m < begin_
      BY <2>1, <1>1 DEF PrefixDelivered
    <2>2. CASE m = begin_
      BY <2>2
    <2>3. CASE begin_ < m
      BY <2>3, <1>1, <1>3
    <2> QED
      BY <2>1, <2>2, <2>3, <1>1
  <1>5. n \notin arrived'
    <2>1. SUFFICES ASSUME n \in arrived PROVE FALSE
      BY <1>1
    <2>2. n < end_ /\ Slot(n) # Absent
      BY <2>1, <1>1 DEF SlotsAreExact
    <2> QED
      BY <2>2 DEF DrainStopsAt
  <1> QED
    BY <1>2, <1>3, <1>4, <1>5

(* The callback runs continue the delivered sequence without a gap.          *)
LEMMA RunExtends ==
  ASSUME NEW s \in Nat, NEW n \in Nat, First <= s, s < n,
         delivered = Promise!RunUpTo(s),
         \A m \in s + 1 .. n - 1 : Slot(m) = m
  PROVE  delivered \o Ran(s, n) = Promise!RunUpTo(n)
  <1> USE ProcessorAssumption
  <1>1. s - First \in Nat /\ n - s \in Nat /\ n - First \in Nat
    OBVIOUS
  <1>2. Ran(s, n) = [i \in 1 .. n - s |-> s + i - 1]
    <2>1. \A i \in 1 .. n - s : (IF i = 1 THEN s ELSE Slot(s + i - 1)) = s + i - 1
      OBVIOUS
    <2> QED
      BY <2>1 DEF Ran
  <1>3. Ran(s, n) \in Seq(Nat) /\ Len(Ran(s, n)) = n - s
    <2>1. Ran(s, n) \in [1 .. n - s -> Nat]
      BY <1>1, <1>2
    <2> QED
      BY <2>1, <1>1, FunctionIsSeq
  <1>4. delivered \in Seq(Nat) /\ Len(delivered) = s - First
    <2>1. delivered \in [1 .. s - First -> Nat]
      BY <1>1 DEF Promise!RunUpTo
    <2> QED
      BY <2>1, <1>1, FunctionIsSeq
  <1> DEFINE c == delivered \o Ran(s, n)
             r == Promise!RunUpTo(n)
  <1>5. /\ c \in Seq(Nat) /\ Len(c) = n - First
        /\ \A i \in 1 .. n - First :
             c[i] = IF i <= s - First THEN delivered[i] ELSE Ran(s, n)[i - (s - First)]
    <2>1. Len(delivered) + Len(Ran(s, n)) = n - First
      BY <1>1, <1>3, <1>4
    <2>2. PICK a \in Seq(Nat), b \in Seq(Nat) : a = delivered /\ b = Ran(s, n)
      BY <1>3, <1>4
    <2>3. /\ a \o b \in Seq(Nat) /\ Len(a \o b) = Len(a) + Len(b)
          /\ \A i \in 1 .. Len(a) + Len(b) : (a \o b)[i] = IF i <= Len(a) THEN a[i] ELSE b[i - Len(a)]
      BY ONLY <2>2, ConcatProperties
    <2>4. c = a \o b /\ Len(a) = s - First /\ Len(a) + Len(b) = n - First
      BY <1>4, <2>1, <2>2
    <2>. HIDE DEF c
    <2> QED
      BY ONLY <2>2, <2>3, <2>4
  <1>6. \A i \in 1 .. n - First : c[i] = First + i - 1
    <2> TAKE i \in 1 .. n - First
    <2>1. CASE i <= s - First
      BY <2>1, <1>1, <1>5 DEF Promise!RunUpTo
    <2>2. CASE ~(i <= s - First)
      <3>1. i - (s - First) \in 1 .. n - s
        BY <2>2, <1>1
      <3>2. c[i] = Ran(s, n)[i - (s - First)]
        BY <2>2, <1>1, <1>5
      <3> QED
        BY <3>1, <3>2, <1>1, <1>2
    <2> QED
      BY <2>1, <2>2
  <1>7. r \in Seq(Nat) /\ Len(r) = n - First /\ \A i \in 1 .. n - First : r[i] = First + i - 1
    <2>1. r \in [1 .. n - First -> Nat]
      BY <1>1 DEF Promise!RunUpTo
    <2> QED
      BY <2>1, <1>1, FunctionIsSeq DEF Promise!RunUpTo
  <1> QED
    BY <1>5, <1>6, <1>7, SeqEqual

-----------------------------------------------------------------------------
(* Running an event and draining its successors: whether the window empties  *)
(* (offset_ jumps over the vector), survives, or has its front cut off.     *)
LEMMA RunNowStep ==
  ASSUME WindowInv, NEW s \in SeqNos, s \notin arrived, RunNow(s)
  PROVE  WindowInv'
  <1> USE ProcessorAssumption DEF WindowInv, SeqNos, Absent
  <1>1. PICK n \in s + 1 .. Larger(s + 1, end_) :
          /\ DrainStopsAt(s + 1, n)
          /\ delivered' = delivered \o Ran(s, n)
          /\ Settle(n, Drained(s + 1, n))
    BY DEF RunNow
  <1> DEFINE slots == Drained(s + 1, n)
             size == Len(data_array_)
  <1>2. /\ s = begin_ /\ arrived' = arrived \cup {s}
        /\ s \in Nat /\ n \in Nat /\ s < n /\ First <= s
        /\ offset_ \in Nat /\ begin_ \in Nat /\ end_ \in Nat
        /\ First <= offset_ /\ offset_ <= begin_ /\ begin_ <= end_
        /\ data_array_ \in Seq(Nat) /\ size \in Nat
    BY <1>1 DEF RunNow, WindowBounds, Larger
  <1>3. /\ begin_ + 1 < n => n <= end_
        /\ \A m \in begin_ + 1 .. n - 1 : Slot(m) = m /\ m \in arrived
        /\ \A m \in First .. n - 1 : m \in arrived'
        /\ n \notin arrived'
    BY <1>1, <1>2, DrainFacts
  <1>4. PrefixDelivered'
    <2>1. delivered = Promise!RunUpTo(s)
      BY <1>2 DEF PrefixDelivered
    <2>2. delivered' = Promise!RunUpTo(n)
      BY <2>1, <1>1, <1>2, <1>3, RunExtends
    <2>3. begin_' = n
      BY <1>1 DEF Settle
    <2> QED
      BY <2>2, <2>3, <1>3 DEF PrefixDelivered, Promise!RunUpTo
  <1>5. /\ slots \in Seq(Nat) /\ Len(slots) = size
        /\ \A i \in 1 .. size :
             slots[i] = IF offset_ + i - 1 \in s + 1 .. n - 1 THEN Absent ELSE data_array_[i]
    <2>1. slots \in [1 .. size -> Nat]
      BY <1>2 DEF Drained
    <2> QED
      BY <2>1, <1>2, FunctionIsSeq DEF Drained
  <1>6. ASSUME NEW i \in 1 .. size, slots[i] # Absent
        PROVE  /\ slots[i] = offset_ + i - 1 /\ n < offset_ + i - 1
               /\ offset_ + i - 1 < end_ /\ offset_ + i - 1 \in arrived
    <2>1. slots[i] = data_array_[i] /\ ~(offset_ + i - 1 \in s + 1 .. n - 1)
      BY <1>5, <1>6
    <2>2. /\ data_array_[i] = offset_ + i - 1 /\ begin_ < offset_ + i - 1
          /\ offset_ + i - 1 < end_ /\ offset_ + i - 1 \in arrived
      BY <2>1, <1>2, <1>6 DEF SlotsAreExact
    <2>3. offset_ + i - 1 # n
      BY <2>2, <1>2, <1>3
    <2> QED
      BY <2>1, <2>2, <2>3, <1>2
  <1>7. \A m \in arrived' : m \in Nat /\ m < Larger(n, end_)
    BY <1>2, <1>3 DEF SlotsAreExact, WindowBounds, Larger
  <1>8. CASE end_ <= n
    <2>1. begin_' = n /\ end_' = n /\ offset_' = n /\ data_array_' = slots
      BY <1>1, <1>2, <1>8 DEF Settle, Larger
    <2>2. WindowBounds'
      BY <2>1, <1>2, <1>5 DEF WindowBounds
    <2>3. \A i \in 1 .. size : slots[i] = Absent
      BY <1>2, <1>6, <1>8
    <2>4. \A m \in arrived' : m < n
      BY <1>2, <1>7, <1>8 DEF Larger
    <2>5. SlotsAreExact'
      <3>1. \A i \in 1 .. Len(data_array_') : data_array_'[i] = Absent
        BY <2>1, <2>3, <1>5
      <3>2. \A m \in arrived' : m < end_' /\ ~(begin_' <= m)
        BY <2>1, <2>4, <1>2, <1>7
      <3> QED
        BY <3>1, <3>2, <2>1, <1>2 DEF SlotsAreExact
    <2> QED
      BY <2>2, <2>5, <1>4
  <1>9. CASE n < end_
    <2>1. begin_' = n /\ end_' = end_
      BY <1>1, <1>2, <1>9 DEF Settle, Larger
    <2>2. end_ - 1 \in arrived' /\ end_ - offset_ <= size
      BY <1>2, <1>9 DEF SlotsAreExact
    <2>3. \A m \in arrived' : m < end_
      BY <1>2, <1>7, <1>9 DEF Larger
    <2>4. ASSUME NEW m \in arrived', n <= m
          PROVE  /\ m - offset_ + 1 \in 1 .. size
                 /\ slots[m - offset_ + 1] # Absent
      <3>1. m \in arrived /\ m \in Nat /\ m < end_ /\ n < m
        BY <2>3, <2>4, <1>2, <1>3, <1>7
      <3>2. m - offset_ + 1 \in 1 .. size
        BY <3>1, <2>2, <1>2
      <3>3. slots[m - offset_ + 1] = data_array_[m - offset_ + 1]
        <4>1. offset_ + (m - offset_ + 1) - 1 = m /\ m \notin s + 1 .. n - 1
          BY <3>1, <1>2
        <4> QED
          BY <4>1, <3>2, <1>5
      <3> QED
        BY <3>1, <3>2, <3>3, <1>2 DEF SlotsAreExact, Slot
    <2> DEFINE pos == n - offset_
    <2>5. CASE offset_' = offset_ /\ data_array_' = slots
      <3>1. WindowBounds'
        BY <2>1, <2>5, <1>2, <1>5, <1>9 DEF WindowBounds
      <3>2. \A i \in 1 .. Len(data_array_') : data_array_'[i] # Absent =>
              /\ data_array_'[i] = offset_' + i - 1
              /\ begin_' < offset_' + i - 1 /\ offset_' + i - 1 < end_'
              /\ offset_' + i - 1 \in arrived'
        BY <2>1, <2>5, <1>2, <1>5, <1>6
      <3>3. \A m \in arrived' : begin_' <= m => Slot(m)' # Absent
        BY <2>1, <2>4, <2>5 DEF Slot
      <3>4. SlotsAreExact'
        BY <3>2, <3>3, <2>1, <2>2, <2>3, <2>5, <1>5 DEF SlotsAreExact
      <3> QED
        BY <3>1, <3>4, <1>4
    <2>6. CASE /\ offset_' = n
               /\ data_array_' = [i \in 1 .. size - pos |-> slots[i + pos]]
      <3>1. pos \in Nat /\ size - pos \in Nat /\ n = offset_ + pos
        BY <2>2, <1>2, <1>9
      <3>2. data_array_' \in Seq(Nat) /\ Len(data_array_') = size - pos
        <4>1. \A i \in 1 .. size - pos : slots[i + pos] \in Nat
          BY <3>1, <1>2, <1>5, ElementOfSeq
        <4>2. data_array_' \in [1 .. size - pos -> Nat]
          BY <4>1, <2>6
        <4> QED
          BY <4>2, <3>1, FunctionIsSeq
      <3>3. WindowBounds'
        BY <2>1, <2>6, <3>2, <1>2, <1>9 DEF WindowBounds
      <3>4. ASSUME NEW i \in 1 .. Len(data_array_'), data_array_'[i] # Absent
            PROVE  /\ data_array_'[i] = offset_' + i - 1
                   /\ begin_' < offset_' + i - 1 /\ offset_' + i - 1 < end_'
                   /\ offset_' + i - 1 \in arrived'
        <4>1. i + pos \in 1 .. size /\ data_array_'[i] = slots[i + pos]
          BY <3>1, <3>2, <2>6, <1>2
        <4>2. offset_ + (i + pos) - 1 = offset_' + i - 1
          BY <3>1, <2>6, <1>2
        <4> QED
          BY <4>1, <4>2, <3>4, <2>1, <1>2, <1>6
      <3>5. ASSUME NEW m \in arrived', begin_' <= m
            PROVE  Slot(m)' # Absent
        <4>1. m - offset_ + 1 \in 1 .. size /\ slots[m - offset_ + 1] # Absent
          BY <3>5, <2>1, <2>4
        <4>2. m \in Nat /\ n <= m
          BY <3>5, <2>1, <1>7
        <4>3. (m - n + 1) + pos = m - offset_ + 1 /\ m - n + 1 \in 1 .. size - pos
          BY <4>1, <4>2, <3>1, <1>2
        <4> QED
          BY <4>1, <4>3, <2>6 DEF Slot
      <3>6. end_' - offset_' <= Len(data_array_')
        BY <3>1, <3>2, <2>1, <2>2, <2>6, <1>2
      <3>7. SlotsAreExact'
        BY <3>4, <3>5, <3>6, <2>1, <2>2, <2>3 DEF SlotsAreExact
      <3> QED
        BY <3>3, <3>7, <1>4
    <2>7. \/ offset_' = offset_ /\ data_array_' = slots
          \/ offset_' = n /\ data_array_' = [i \in 1 .. size - pos |-> slots[i + pos]]
      <3>1. Larger(n, end_) = end_ /\ n # end_
        BY <1>2, <1>9 DEF Larger
      <3> QED
        BY <3>1, <1>1, <1>5 DEF Settle
    <2> QED
      BY <2>5, <2>6, <2>7
  <1> QED
    BY <1>2, <1>8, <1>9

-----------------------------------------------------------------------------
(* The inductive invariant of the processor (OrderedEventsProcessor.h:39-80). *)
THEOREM WindowInvAlways == WindowSpec => []WindowInv
  <1>1. WindowInv /\ [WindowNext]_window_vars => WindowInv'
    <2> SUFFICES ASSUME WindowInv, [WindowNext]_window_vars PROVE WindowInv'
      OBVIOUS
    <2>1. ASSUME NEW s \in SeqNos, Add(s) PROVE WindowInv'
      BY <2>1, RunNowStep, StoreStep DEF Add
    <2>2. CASE UNCHANGED window_vars
      BY <2>2 DEF WindowInv, WindowBounds, SlotsAreExact, PrefixDelivered, Slot, window_vars
    <2> QED
      BY <2>1, <2>2 DEF WindowNext, AllAdded
  <1> QED
    BY WindowInvInit, <1>1, PTL DEF WindowSpec

(* Type correctness: the slots hold numbers of events or nothing, and only   *)
(* numbers of events are delivered.                                          *)
THEOREM WindowTyped == WindowSpec => []WindowTypeOK
  <1>1. WindowInv => WindowTypeOK
    <2> SUFFICES ASSUME WindowInv PROVE WindowTypeOK
      OBVIOUS
    <2> USE ProcessorAssumption DEF WindowInv, SeqNos, Absent
    <2>1. /\ offset_ \in Nat /\ begin_ \in Nat /\ end_ \in Nat
          /\ First <= offset_ /\ offset_ <= begin_ /\ begin_ <= end_
          /\ data_array_ \in Seq(Nat) /\ arrived \subseteq SeqNos
      BY DEF WindowBounds
    <2>2. Len(data_array_) \in Nat /\ data_array_ \in [1 .. Len(data_array_) -> Nat]
      BY <2>1, LenProperties
    <2>3. \A i \in 1 .. Len(data_array_) : data_array_[i] \in {Absent} \cup SeqNos
      BY <2>1, <2>2 DEF SlotsAreExact
    <2>4. data_array_ \in Seq({Absent} \cup SeqNos)
      <3>1. data_array_ \in [1 .. Len(data_array_) -> {Absent} \cup SeqNos]
        BY <2>2, <2>3
      <3> QED
        BY ONLY <3>1, <2>2, FunctionIsSeq
    <2>5. delivered \in Seq(SeqNos)
      <3> DEFINE k == begin_ - First
      <3>1. k \in Nat /\ delivered = [i \in 1 .. k |-> First + i - 1]
        BY <2>1 DEF PrefixDelivered, Promise!RunUpTo
      <3>2. \A i \in 1 .. k : First + i - 1 \in First .. begin_ - 1
        BY <2>1, <3>1
      <3>3. \A i \in 1 .. k : First + i - 1 \in SeqNos
        BY <2>1, <3>2 DEF PrefixDelivered
      <3>4. delivered \in [1 .. k -> SeqNos]
        BY <3>1, <3>3
      <3> QED
        BY ONLY <3>1, <3>4, FunctionIsSeq
    <2> QED
      BY <2>1, <2>4, <2>5 DEF WindowTypeOK
  <1> QED
    BY WindowInvAlways, <1>1, PTL

(* For every window: the slots hold exactly the early arrivals, each in the  *)
(* slot of its number.                                                       *)
THEOREM WindowIsExact == WindowSpec => []WindowHoldsEarlyArrivals
  <1>1. WindowInv => WindowHoldsEarlyArrivals
    <2> SUFFICES ASSUME WindowInv PROVE WindowHoldsEarlyArrivals
      OBVIOUS
    <2> USE ProcessorAssumption DEF WindowInv, SeqNos, Absent
    <2>1. /\ offset_ \in Nat /\ begin_ \in Nat /\ end_ \in Nat
          /\ First <= offset_ /\ offset_ <= begin_ /\ begin_ <= end_
          /\ data_array_ \in Seq(Nat) /\ Len(data_array_) \in Nat /\ DOMAIN data_array_ = 1 .. Len(data_array_)
          /\ arrived \subseteq SeqNos
      BY LenProperties DEF WindowBounds
    <2>2. \A i \in DOMAIN data_array_ :
            data_array_[i] # Absent => data_array_[i] = offset_ + i - 1 /\ data_array_[i] \in begin_ + 1 .. end_ - 1
      BY <2>1 DEF SlotsAreExact
    <2>3. \A n \in begin_ .. end_ - 1 : n - offset_ < Len(data_array_)
      BY <2>1 DEF SlotsAreExact
    <2>4. ASSUME NEW n \in SeqNos, n \in arrived
          PROVE  n < begin_ \/ (n < end_ /\ Slot(n) # Absent)
      BY <2>1, <2>4 DEF SlotsAreExact
    <2>5. ASSUME NEW n \in SeqNos, n < begin_ \/ (n < end_ /\ Slot(n) # Absent)
          PROVE  n \in arrived
      <3>1. CASE n < begin_
        BY <3>1, <2>1 DEF PrefixDelivered
      <3>2. CASE ~(n < begin_)
        <4>1. n \in begin_ .. end_ - 1 /\ Slot(n) # Absent
          BY <3>2, <2>1, <2>5
        <4>2. n - offset_ + 1 \in 1 .. Len(data_array_) /\ offset_ + (n - offset_ + 1) - 1 = n
          <5>1. n - offset_ < Len(data_array_)
            BY <4>1, <2>3
          <5>2. n \in Nat /\ offset_ <= n
            BY <4>1, <2>1
          <5> QED
            BY <5>1, <5>2, <2>1
        <4> QED
          BY <4>1, <4>2 DEF SlotsAreExact, Slot
      <3> QED
        BY <3>1, <3>2
    <2> QED
      BY <2>2, <2>3, <2>4, <2>5 DEF WindowHoldsEarlyArrivals
  <1> QED
    BY WindowInvAlways, <1>1, PTL

(* For every window: the two numbers force_sync compares are exact.          *)
THEOREM FinishedNumbers == WindowSpec => []FinishedNumbersAreExact
  <1>1. WindowInv => FinishedNumbersAreExact
    <2> SUFFICES ASSUME WindowInv PROVE FinishedNumbersAreExact
      OBVIOUS
    <2> USE ProcessorAssumption
        DEF WindowInv, SeqNos, max_finished_seq_no, max_unfinished_seq_no
    <2>1. /\ begin_ \in Nat /\ end_ \in Nat /\ begin_ <= end_
          /\ arrived \subseteq First .. MaxSeqNo
      BY DEF WindowBounds
    <2>2. begin_ - 1 + 1 = begin_
      BY <2>1
    <2> QED
      BY <2>1, <2>2 DEF SlotsAreExact, PrefixDelivered, FinishedNumbersAreExact
  <1> QED
    BY WindowInvAlways, <1>1, PTL

(* The vector implements the promise of in-order delivery.                   *)
THEOREM DeliversAsPromised == WindowSpec => DeliversInOrder
  <1>1. WindowInit => Promise!Init
    <2> SUFFICES ASSUME WindowInit PROVE Promise!Init
      OBVIOUS
    <2> QED
      BY DEF WindowInit, Promise!Init
  <1>2. WindowInv /\ WindowInv' /\ [WindowNext]_window_vars => [Promise!Next]_(Promise!vars)
    <2> SUFFICES ASSUME WindowInv, WindowInv', [WindowNext]_window_vars
                 PROVE  [Promise!Next]_(Promise!vars)
      OBVIOUS
    <2> USE ProcessorAssumption DEF WindowInv
    <2>1. ASSUME NEW s \in SeqNos, Add(s) PROVE Promise!Next
      <3>1. s \notin arrived /\ arrived' = arrived \cup {s}
        BY <2>1 DEF Add, RunNow, Store
      <3>2. begin_' \in First .. MaxSeqNo + 1
        <4>1. begin_' \in Nat /\ First <= begin_' /\ arrived' \subseteq First .. MaxSeqNo
          BY DEF WindowBounds, SeqNos
        <4>2. First < begin_' => begin_' - 1 \in arrived'
          <5>1. \A m \in First .. begin_' - 1 : m \in arrived'
            BY DEF PrefixDelivered
          <5>2. begin_' \in Nat /\ First \in Nat
            BY <4>1
          <5>3. First < begin_' => begin_' - 1 \in First .. begin_' - 1
            BY ONLY <5>2, PredecessorInRange
          <5> QED
            BY ONLY <5>1, <5>3
        <4>3. CASE First < begin_'
          BY <4>1, <4>2, <4>3
        <4>4. CASE First = begin_'
          BY <2>1, <4>1, <4>4 DEF SeqNos
        <4> QED
          BY <4>1, <4>3, <4>4
      <3>3. Promise!FirstMissing(begin_', arrived') /\ delivered' = Promise!RunUpTo(begin_')
        BY DEF PrefixDelivered, Promise!FirstMissing, Promise!RunUpTo
      <3>4. Promise!Arrive(s)
        BY <3>1, <3>2, <3>3 DEF Promise!Arrive
      <3> QED
        BY <3>4 DEF Promise!Next, Promise!SeqNos, SeqNos
    <2>2. CASE UNCHANGED window_vars
      BY <2>2 DEF window_vars, Promise!vars
    <2> QED
      BY <2>1, <2>2 DEF WindowNext, AllAdded
  <1> QED
    BY WindowInvAlways, <1>1, <1>2, PTL DEF WindowSpec, DeliversInOrder, Promise!Spec
===============================================================================
