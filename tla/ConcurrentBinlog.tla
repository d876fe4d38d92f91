--------------------------- MODULE ConcurrentBinlog ---------------------------
(***************************************************************************)
(* tddb/td/db/binlog/ConcurrentBinlog.{h,cpp}: any thread takes an event    *)
(* number from an atomic counter and later sends the event to BinlogActor, *)
(* which puts the events back in order, writes them to the log and         *)
(* completes the callers' promises once the log has been synced.           *)
(*                                                                         *)
(* The actor runs events in the order of their numbers (that its vector    *)
(* does so is OrderedEventsProcessor's refinement), so the log is known by *)
(* the set of numbers written, and its flushed and durable parts by the    *)
(* last number of each.  The file itself - records, reindex step by step,  *)
(* crash, load - is module Binlog.  Time is abstracted: an armed timer may *)
(* expire at any later step, a 1 ms delay may or may not have passed, and  *)
(* the sizes that trigger a flush or a reindex may or may not be reached.  *)
(***************************************************************************)
EXTENDS Naturals, Sequences, FiniteSets

CONSTANTS Clients,        \* the threads that use the log
          MaxEventId,     \* bound: event numbers given out
          MaxSyncs,       \* bound: force_sync calls
          MaxKeyChanges,  \* bound: change_key calls
          Opened          \* what the log may be like when it is opened

ASSUME ConcurrentBinlogAssumption ==
  /\ MaxEventId \in Nat /\ MaxSyncs \in Nat /\ MaxKeyChanges \in Nat
  /\ Opened \subseteq [file_empty : BOOLEAN, keyed : BOOLEAN, index_empty : BOOLEAN]
  /\ \A o \in Opened : o.file_empty => o.index_empty    \* an empty file has no event

VARIABLES
  last_event_id,   \* the counter next_event_id() increments
  holding,         \* client -> the numbers it has taken and not sent yet
  sent,            \* client -> the largest number it has sent
  closing,         \* close() was called: binlog_actor_ is gone
  syncs, key_changes,   \* counters of the bounds
  covers,          \* promise -> every number up to this one must be durable
  issued,          \* history: promises passed to the log
  mailbox,         \* BinlogActor's messages
  begin, early,    \* processor_: the next number to run, the events kept
  logged,          \* binlog_: numbers of the events written to it
  flushed, durable,     \* ... up to which the system has them, the disk has them
  need_sync,
  file_empty,      \* the file at the log's path has no byte
  keyed,           \* db_key_ is not empty
  index_empty,     \* binlog_'s processor_ has no live event
  skipped,         \* history: the last number a reindex of an empty file did not sync
  sync_promises, immediate_sync_promises,
  force_sync_flag, lazy_sync_flag, flush_flag,
  wakeup_at,       \* the actor's timer is armed
  stopped,         \* the actor's close() has run
  done             \* history: promises set to a value

bound_vars == <<syncs, key_changes>>
client_vars == <<last_event_id, holding, sent, closing, bound_vars, covers, issued>>
log_vars == <<logged, flushed, durable, need_sync, file_empty,
              keyed, index_empty, skipped>>
flag_vars == <<force_sync_flag, lazy_sync_flag, flush_flag, wakeup_at>>
actor_vars == <<begin, early, log_vars, sync_promises, immediate_sync_promises,
                flag_vars, stopped, done>>
vars == <<client_vars, mailbox, actor_vars>>

EventIds == 1 .. MaxEventId

(* A promise is named by the event it was passed with or by its force_sync. *)
Promises == ({"event"} \X EventIds) \cup ({"force_sync"} \X (1 .. MaxSyncs))

(* An empty raw event is lazy_sync's: it takes a number and writes nothing.  *)
AddMessage(n, raw, promise) == [op |-> "add", seq_no |-> n, raw |-> raw, promise |-> promise]
Message(op, n) == [op |-> op, seq_no |-> n, raw |-> FALSE, promise |-> TRUE]
Messages == [op : {"add", "force_sync", "force_flush", "change_key", "close"},
             seq_no : Nat, raw : BOOLEAN, promise : BOOLEAN]

Init ==
  /\ last_event_id = 1
  /\ holding = [c \in Clients |-> {}] /\ sent = [c \in Clients |-> 0]
  /\ closing = FALSE /\ syncs = 0 /\ key_changes = 0
  /\ covers = [p \in Promises |-> 0] /\ issued = {}
  /\ mailbox = << >>
  /\ begin = 1 /\ early = {}
  /\ logged = {} /\ flushed = 0 /\ durable = 0
  /\ need_sync = FALSE /\ skipped = 0
  /\ \E o \in Opened : /\ file_empty = o.file_empty
                        /\ keyed = o.keyed /\ index_empty = o.index_empty
  /\ sync_promises = {} /\ immediate_sync_promises = {}
  /\ force_sync_flag = FALSE /\ lazy_sync_flag = FALSE /\ flush_flag = FALSE
  /\ wakeup_at = FALSE
  /\ stopped = FALSE /\ done = {}

-------------------------------------------------------------------------------
(* The threads that use the log                                              *)

(* next_event_id(shift): one fetch_add, before the event is built or sent.   *)
TakeIds(c, shift) ==
  /\ ~closing /\ holding[c] = {}
  /\ last_event_id + shift <= MaxEventId + 1
  /\ last_event_id' = last_event_id + shift
  /\ holding' = [holding EXCEPT ![c] = last_event_id .. last_event_id + shift - 1]
  /\ UNCHANGED <<sent, closing, bound_vars, covers, issued, mailbox, actor_vars>>

(* add, rewrite, erase, lazy_sync, and each event of an erase_batch or of a  *)
(* BinlogKeyValue::erase_by_prefix: the smallest number held is sent.  An    *)
(* erase_batch is one message whose handler adds its events in a row; here   *)
(* other messages may come between them.                                     *)
SendAdd(c, raw, promise) == \E n \in holding[c] :
  /\ \A m \in holding[c] : n <= m
  /\ mailbox' = Append(mailbox, AddMessage(n, raw, promise))
  /\ holding' = [holding EXCEPT ![c] = @ \ {n}]
  /\ sent' = [sent EXCEPT ![c] = n]
  /\ issued' = IF promise THEN issued \cup {<<"event", n>>} ELSE issued
  /\ covers' = IF promise THEN [covers EXCEPT ![<<"event", n>>] = n] ELSE covers
  /\ UNCHANGED <<last_event_id, closing, bound_vars, actor_vars>>

(* force_sync: the caller expects all it has sent before to be made durable. *)
SendForceSync(c) ==
  /\ ~closing /\ holding[c] = {} /\ syncs < MaxSyncs
  /\ syncs' = syncs + 1
  /\ mailbox' = Append(mailbox, Message("force_sync", syncs'))
  /\ issued' = issued \cup {<<"force_sync", syncs'>>}
  /\ covers' = [covers EXCEPT ![<<"force_sync", syncs'>>] = sent[c]]
  /\ UNCHANGED <<last_event_id, holding, sent, closing, key_changes, actor_vars>>

(* force_flush; one in the mailbox at a time (bound).                        *)
SendForceFlush ==
  /\ ~closing /\ \A i \in DOMAIN mailbox : mailbox[i].op # "force_flush"
  /\ mailbox' = Append(mailbox, Message("force_flush", 0))
  /\ UNCHANGED <<client_vars, actor_vars>>

SendChangeKey ==
  /\ ~closing /\ key_changes < MaxKeyChanges
  /\ key_changes' = key_changes + 1
  /\ mailbox' = Append(mailbox, Message("change_key", 0))
  /\ UNCHANGED <<last_event_id, holding, sent, closing, syncs, covers, issued, actor_vars>>

(* close moves binlog_actor_ away without synchronisation, so its caller     *)
(* must be the only user left: nobody holds a number, nobody starts anew.    *)
SendClose ==
  /\ ~closing /\ \A c \in Clients : holding[c] = {}
  /\ closing' = TRUE
  /\ mailbox' = Append(mailbox, Message("close", 0))
  /\ UNCHANGED <<last_event_id, holding, sent, bound_vars, covers, issued, actor_vars>>

-------------------------------------------------------------------------------
(* The operations of Binlog the actor calls                                  *)

Last == begin - 1                     \* the last number that has run
Unwritten(upto) == {n \in logged : upto < n}

(* flush(): the buffer goes to the file.                                     *)
Flush ==
  /\ flushed' = Last
  /\ need_sync' = (need_sync \/ Unwritten(flushed) # {})
  /\ file_empty' = (file_empty /\ Unwritten(flushed) = {})
  /\ UNCHANGED <<logged, durable, keyed, index_empty, skipped>>

(* sync(): flush, then fsync if something was written since the last one.    *)
Sync ==
  /\ flushed' = Last
  /\ durable' = IF need_sync \/ Unwritten(flushed) # {} THEN Last ELSE durable
  /\ need_sync' = FALSE
  /\ file_empty' = (file_empty /\ Unwritten(flushed) = {})
  /\ UNCHANGED <<logged, keyed, index_empty, skipped>>

(* do_reindex(): the live events are written to a new file, after the record *)
(* of the encryption if there is a key: with neither it stays empty.  It is  *)
(* synced only if the old file was not empty, and need_sync_ is dropped in   *)
(* either case.                                                              *)
Reindex ==
  /\ flushed' = Last
  /\ durable' = IF file_empty THEN durable ELSE Last
  /\ skipped' = IF file_empty THEN Last ELSE skipped
  /\ need_sync' = FALSE
  /\ file_empty' = (~keyed' /\ index_empty)
  /\ UNCHANGED <<logged, index_empty>>

(* Nothing is live after the events `run`, when those in `gone` erase the     *)
(* last live event.                                                          *)
NothingLive(run, gone) ==
  IF run = {} THEN index_empty ELSE \E n \in gone \cap run : \A m \in run : m <= n

(* add_event for the numbers `new`, the last that run being `upto`.  On the   *)
(* way lazy_flush may have found the buffer full, or try_flush the delay     *)
(* over, and flushed up to f; and the size thresholds may have caused a      *)
(* reindex at d.  They lie above what the buffer may hold, so that reindex   *)
(* finds a file that is not empty.                                           *)
AddEvents(new, upto, f, d) == \E gone \in SUBSET new :
  LET all == logged \cup new
      Between(a, b) == {n \in all : a < n /\ n <= b}
  IN /\ \A n \in gone : ~NothingLive({m \in new : m < n}, gone)
     /\ f \in {flushed, upto} \cup new
     /\ d \in {durable} \cup {n \in new : n <= f}
     /\ logged' = all
     /\ flushed' = f
     /\ durable' = d
     /\ need_sync' = IF d = durable THEN need_sync \/ Between(flushed, f) # {}
                                    ELSE Between(d, f) # {}
     /\ file_empty' = IF d = durable
                      THEN file_empty /\ Between(flushed, f) = {}
                      ELSE ~keyed /\ d \in gone /\ Between(d, f) = {}
     /\ index_empty' = NothingLive(new, gone)
     /\ UNCHANGED <<keyed, skipped>>

-------------------------------------------------------------------------------
(* BinlogActor                                                               *)

Receive(op) ==
  /\ ~stopped /\ mailbox # << >> /\ Head(mailbox).op = op
  /\ mailbox' = Tail(mailbox)
  /\ UNCHANGED client_vars

(* Mutant: a delayed flush raises no flag.                                   *)
DelayFlushForgotten(waiting, will_sync) == UNCHANGED flush_flag

(* try_flush() when `waiting` says that events stay in the buffer because    *)
(* the delay is not over: the timer is armed, unless a sync will come first. *)
DelayFlush(waiting, will_sync) ==
  flush_flag' = (flush_flag \/ (waiting /\ ~will_sync))

(* Every event between the one that arrived and n was stored, n was not.     *)
ReadyUpTo(n) ==
  /\ \A k \in begin + 1 .. n - 1 : \E e \in early : e.seq_no = k
  /\ \A e \in early : e.seq_no # n

(* Mutants: flush_immediate_sync compares with <, or is not called.          *)
UnblockedTooLate(n) == {w \in immediate_sync_promises : w[1] + 1 < n}
UnblockedNever(n) == {}

(* flush_immediate_sync(): the delayed syncs whose event has run before n.   *)
Unblocked(n) == {w \in immediate_sync_promises : w[1] < n}

(* add_raw_event of the next number: it runs, and the stored ones after it;  *)
(* force_sync calls that waited for one of them join the next sync.          *)
ReceiveNext ==
  /\ Receive("add") /\ Head(mailbox).seq_no = begin
  /\ \E n \in begin + 1 .. MaxEventId + 1, f, d \in 0 .. MaxEventId :
       LET run == {Head(mailbox)} \cup {e \in early : e.seq_no < n}
           new == {e.seq_no : e \in {r \in run : r.raw}}
           lazy == {<<"event", e.seq_no>> : e \in {r \in run : r.promise}}
           unblocked == Unblocked(n)
           waiting == {k \in logged \cup new : f < k} # {}
           force == force_sync_flag \/ unblocked # {}
       IN /\ ReadyUpTo(n)
          /\ begin' = n
          /\ early' = early \ run
          /\ AddEvents(new, n - 1, f, d)
          /\ sync_promises' = sync_promises \cup lazy \cup {w[2] : w \in unblocked}
          /\ immediate_sync_promises' = immediate_sync_promises \ unblocked
          /\ lazy_sync_flag' = (lazy_sync_flag \/ (lazy # {} /\ ~force_sync_flag))
          /\ force_sync_flag' = force
          /\ DelayFlush(waiting, force)
          /\ wakeup_at' = (wakeup_at \/ lazy_sync_flag' \/ force \/ flush_flag')
  /\ UNCHANGED <<stopped, done>>

(* add_raw_event of a later number: it is stored.                            *)
ReceiveEarly ==
  /\ Receive("add") /\ Head(mailbox).seq_no > begin
  /\ early' = early \cup {Head(mailbox)}
  /\ \/ Flush /\ UNCHANGED <<flush_flag, wakeup_at>>
     \/ /\ Unwritten(flushed) # {}
        /\ DelayFlush(TRUE, force_sync_flag)
        /\ wakeup_at' = (wakeup_at \/ flush_flag')
        /\ UNCHANGED log_vars
  /\ UNCHANGED <<begin, sync_promises, immediate_sync_promises, force_sync_flag,
                 lazy_sync_flag, stopped, done>>

(* Mutant: a force_sync never waits for missing events.                      *)
ReceiveForceSyncAtOnce ==
  /\ Receive("force_sync")
  /\ sync_promises' = sync_promises \cup {<<"force_sync", Head(mailbox).seq_no>>}
  /\ force_sync_flag' = TRUE /\ wakeup_at' = TRUE
  /\ UNCHANGED <<begin, early, log_vars, immediate_sync_promises, lazy_sync_flag,
                 flush_flag, stopped, done>>

(* Mutant: it waits for end_ instead of end_ - 1, a number nobody has sent.  *)
ReceiveForceSyncPastEnd ==
  /\ Receive("force_sync")
  /\ immediate_sync_promises' = immediate_sync_promises \cup
       {<<begin + Cardinality(early) + 1, <<"force_sync", Head(mailbox).seq_no>>>>}
  /\ UNCHANGED <<begin, early, log_vars, sync_promises, flag_vars, stopped, done>>

(* force_sync(): at once if no event waits for an earlier one, else when the *)
(* largest number received so far has run.                                   *)
ReceiveForceSync ==
  /\ Receive("force_sync")
  /\ LET p == <<"force_sync", Head(mailbox).seq_no>>
     IN IF early = {}
        THEN /\ sync_promises' = sync_promises \cup {p}
             /\ force_sync_flag' = TRUE /\ wakeup_at' = TRUE
             /\ UNCHANGED immediate_sync_promises
        ELSE /\ \E last \in early :
                  /\ \A e \in early : e.seq_no <= last.seq_no
                  /\ immediate_sync_promises' =
                       immediate_sync_promises \cup {<<last.seq_no, p>>}
             /\ UNCHANGED <<sync_promises, force_sync_flag, wakeup_at>>
  /\ UNCHANGED <<begin, early, log_vars, lazy_sync_flag, flush_flag, stopped, done>>

(* Mutant: the timer is cancelled together with the flush it was set for.    *)
ForceFlushCancelsTimer ==
  /\ Receive("force_flush")
  /\ Flush
  /\ flush_flag' = FALSE /\ wakeup_at' = FALSE
  /\ UNCHANGED <<begin, early, sync_promises, immediate_sync_promises,
                 force_sync_flag, lazy_sync_flag, stopped, done>>

ReceiveForceFlush ==
  /\ Receive("force_flush")
  /\ Flush
  /\ flush_flag' = FALSE
  /\ UNCHANGED <<begin, early, sync_promises, immediate_sync_promises,
                 force_sync_flag, lazy_sync_flag, wakeup_at, stopped, done>>

(* change_key(): the key changes even if the new file cannot be opened and    *)
(* nothing is written.                                                       *)
ReceiveChangeKey ==
  /\ Receive("change_key")
  /\ keyed' \in BOOLEAN
  /\ \/ Reindex
     \/ UNCHANGED <<logged, flushed, durable, need_sync, file_empty, index_empty, skipped>>
  /\ UNCHANGED <<begin, early, sync_promises, immediate_sync_promises,
                 flag_vars, stopped, done>>

(* Mutant: close() without the sync.                                         *)
ReceiveCloseNoSync ==
  /\ Receive("close")
  /\ Flush
  /\ stopped' = TRUE
  /\ UNCHANGED <<begin, early, sync_promises, immediate_sync_promises, flag_vars, done>>

(* close(): the log is synced and the actor stops; promises it still holds   *)
(* are destroyed and fail with "Lost promise".                               *)
ReceiveClose ==
  /\ Receive("close")
  /\ Sync
  /\ stopped' = TRUE
  /\ UNCHANGED <<begin, early, sync_promises, immediate_sync_promises, flag_vars, done>>

(* timeout_expired() when a sync is due.                                     *)
TimeoutSync ==
  /\ ~stopped /\ wakeup_at /\ (lazy_sync_flag \/ force_sync_flag)
  /\ Sync
  /\ done' = done \cup sync_promises
  /\ sync_promises' = {}
  /\ lazy_sync_flag' = FALSE /\ force_sync_flag' = FALSE
  /\ flush_flag' = FALSE /\ wakeup_at' = FALSE
  /\ UNCHANGED <<client_vars, mailbox, begin, early, immediate_sync_promises, stopped>>

(* timeout_expired() when only a flush may be due.  When the timer is early   *)
(* for what the buffer holds now, try_flush() arms it again: a stutter.       *)
TimeoutFlush ==
  /\ ~stopped /\ wakeup_at /\ ~lazy_sync_flag /\ ~force_sync_flag
  /\ IF flush_flag THEN Flush ELSE UNCHANGED log_vars
  /\ flush_flag' = FALSE /\ wakeup_at' = FALSE
  /\ UNCHANGED <<client_vars, mailbox, begin, early, sync_promises,
                 immediate_sync_promises, force_sync_flag, lazy_sync_flag, stopped, done>>

-------------------------------------------------------------------------------
ClientNext ==
  \/ \E c \in Clients :
       \/ \E shift \in 1 .. 2 : TakeIds(c, shift)
       \/ \E raw, promise \in BOOLEAN : SendAdd(c, raw, promise)
       \/ SendForceSync(c)
  \/ SendForceFlush \/ SendChangeKey \/ SendClose

ReceiveMessage ==
  \/ ReceiveNext \/ ReceiveEarly \/ ReceiveForceSync
  \/ ReceiveForceFlush \/ ReceiveChangeKey \/ ReceiveClose

Next == ClientNext \/ ReceiveMessage \/ TimeoutSync \/ TimeoutFlush

Spec == Init /\ [][Next]_vars

(* A thread that took a number goes on to send its event, the scheduler runs *)
(* an actor that has messages, and an armed timer expires.                   *)
Fairness ==
  /\ \A c \in Clients : WF_vars(\E raw, promise \in BOOLEAN : SendAdd(c, raw, promise))
  /\ WF_vars(ReceiveMessage)
  /\ WF_vars(TimeoutSync \/ TimeoutFlush)

FairSpec == Spec /\ Fairness
-------------------------------------------------------------------------------
TypeOK ==
  /\ last_event_id \in 1 .. MaxEventId + 1
  /\ holding \in [Clients -> SUBSET EventIds] /\ sent \in [Clients -> 0 .. MaxEventId]
  /\ closing \in BOOLEAN /\ syncs \in 0 .. MaxSyncs /\ key_changes \in 0 .. MaxKeyChanges
  /\ covers \in [Promises -> 0 .. MaxEventId] /\ issued \subseteq Promises
  /\ mailbox \in Seq(Messages)
  /\ begin \in 1 .. MaxEventId + 1 /\ early \subseteq Messages
  /\ logged \subseteq EventIds
  /\ flushed \in 0 .. MaxEventId /\ durable \in 0 .. MaxEventId
  /\ need_sync \in BOOLEAN /\ file_empty \in BOOLEAN /\ keyed \in BOOLEAN
  /\ index_empty \in BOOLEAN /\ skipped \in 0 .. MaxEventId
  /\ sync_promises \subseteq Promises
  /\ immediate_sync_promises \subseteq (EventIds \X Promises)
  /\ force_sync_flag \in BOOLEAN /\ lazy_sync_flag \in BOOLEAN /\ flush_flag \in BOOLEAN
  /\ wakeup_at \in BOOLEAN /\ stopped \in BOOLEAN
  /\ done \subseteq issued

(* A promise is completed only when every event its caller may rely on - the *)
(* event it was passed with and all before it, or all the caller had sent    *)
(* when it asked for the sync - has run and survives a power loss            *)
(* (ConcurrentBinlog.cpp:53-71 and 156-171, Binlog.cpp:407-414).             *)
DonePromiseIsDurable ==
  \A p \in done : /\ covers[p] < begin
                  /\ \A n \in logged : n <= covers[p] => n <= durable

(* The same of the code as it is: a reindex that finds the file empty writes *)
(* the new one, does not sync it and forgets that it should be synced        *)
(* (Binlog.cpp:664-668).  Every other event a completed promise covers, after *)
(* any order of arrivals, flushes, syncs and reindexes, survives.            *)
DonePromiseOutlivesPowerLoss ==
  \A p \in done :
    /\ covers[p] < begin
    /\ \A n \in logged : n <= covers[p] => n <= durable \/ n <= skipped

(* No wakeup is lost: a promise that waits for a sync, and an event that     *)
(* waits in the buffer, always have a flag raised and the actor's only timer *)
(* armed for it, whatever timeouts, syncs and flushes crossed                *)
(* (ConcurrentBinlog.cpp:98-171).                                           *)
WaitingWorkHasTimer ==
  ~stopped =>
    /\ sync_promises # {} => lazy_sync_flag \/ force_sync_flag
    /\ Unwritten(flushed) # {} => lazy_sync_flag \/ force_sync_flag \/ flush_flag
    /\ lazy_sync_flag \/ force_sync_flag \/ flush_flag => wakeup_at

(* A delayed force_sync waits for an event that really is stored behind a    *)
(* missing one, so the missing event will release it, and for no less than   *)
(* its caller asked (ConcurrentBinlog.cpp:64-71 and 127-133).                *)
DelayedSyncsAwaitStoredEvents ==
  \A w \in immediate_sync_promises :
    /\ \E e \in early : e.seq_no = w[1]
    /\ covers[w[2]] <= w[1]

(* Orderly close: once the actor has stopped, every number ever taken has    *)
(* run, and everything written is durable but for what a reindex of an empty *)
(* file did not sync (ConcurrentBinlog.cpp:23-29, Binlog.cpp:284-300).       *)
CloseLosesNothing ==
  stopped => /\ begin = last_event_id
             /\ \A n \in logged : n <= durable \/ n <= skipped

(* Every promise is completed, unless the log is closed first.               *)
PromisesAreCompleted ==
  \A p \in Promises : (p \in issued) ~> (p \in done \/ stopped)

(* What is written reaches the system even if nobody asks for a sync: the     *)
(* buffer is empty again and again (try_flush, ConcurrentBinlog.cpp:114-125). *)
EventsAreFlushed ==
  []<>(\A n \in logged : n <= flushed)
===============================================================================
