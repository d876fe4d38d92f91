-------------------------------- MODULE Binlog --------------------------------
(***************************************************************************)
(* tddb/td/db/binlog/Binlog.cpp and detail/BinlogEventsProcessor.cpp: a     *)
(* log of add, rewrite and erase events with its in-memory index, buffered *)
(* writes, reindexing into <path>.new, and recovery from a crash.          *)
(*                                                                         *)
(* A record is one unit of size.  A crash - of the process or of the power  *)
(* - may come between any two system calls.  It keeps at least what was     *)
(* synced and any longer prefix of a file, possibly with a torn record      *)
(* after it; unlink and rename are assumed to survive in their order.       *)
(***************************************************************************)
EXTENDS Naturals, Sequences, FiniteSets, FiniteSetsExt, SequencesExt

CONSTANTS Values, Keys, NoKey,
          ReindexMin, ReindexRate,    \* a size and a rate of need_reindex
          FlushMax,                   \* the 16 KB of lazy_flush
          MaxEvents, MaxCrashes, MaxKeyChanges      \* bounds

ASSUME BinlogAssumption ==
  /\ NoKey \notin Keys
  /\ {ReindexMin, FlushMax, MaxEvents, MaxCrashes, MaxKeyChanges} \subseteq Nat
  /\ ReindexRate \in Nat \ {0}

VARIABLES
  main, new,        \* the files <path> and <path>.new
  buffer,           \* buffer_writer_: records not yet written to fd_
  processor,        \* processor_
  state,            \* closed, running, failed (LOG(FATAL)), or a step of do_reindex
  need_sync,
  db_key,
  was_empty,        \* do_reindex: start_size == 0
  past, durable,    \* history: states of the table, index of the promised one
  unaware,          \* history: something is not synced and need_sync_ ignores it
  keys,             \* history: keys given since the last reindex
  events, crashes, key_changes        \* counters of the bounds

disk_vars == <<main, new>>
history_vars == <<past, durable, unaware, keys>>
bound_vars == <<events, crashes, key_changes>>
vars == <<disk_vars, buffer, processor, state, need_sync, db_key, was_empty,
          history_vars, bound_vars>>

Ids == 1 .. MaxEvents
AllKeys == Keys \cup {NoKey}
ReindexSteps == {"Reindex", "Write", "Barrier", "Unlink", "Rename"}

-------------------------------------------------------------------------------
(* Files and records.  An encrypted file starts with the record of its key.   *)

NoFile == [exists |-> FALSE, log |-> << >>, synced |-> 0, torn |-> FALSE]
EmptyFile == [NoFile EXCEPT !.exists = TRUE]

Record(type, id, val) == [type |-> type, id |-> id, val |-> val]
KeyRecord(k) == Record("key", 0, k)

FileKey(log) == IF log # << >> /\ log[1].type = "key" THEN log[1].val ELSE NoKey

-------------------------------------------------------------------------------
(* BinlogEventsProcessor: the ids seen, each with its record or Deleted.  Its *)
(* vectors and their compaction are module BinlogEventsProcessor.             *)

Deleted == Record("erase", 0, NoKey)
EmptyProcessor == [ids |-> << >>, last |-> 0, error |-> FALSE]

Alive(ids) == {i \in DOMAIN ids : ids[i] # Deleted}
Table(p) == [i \in Alive(p.ids) |-> p.ids[i].val]

(* Mutants: last_event_id_ is the next id; a flagged event must be known,     *)
(* also beyond the last id, where a reindexed file has its rewritten events.  *)
ProcessorAddLastIsNext(p, r) ==
  LET ids == [j \in DOMAIN p.ids \cup {r.id} |-> IF j = r.id THEN r ELSE p.ids[j]]
  IN [p EXCEPT !.ids = ids, !.last = IF r.type = "add" THEN r.id + 1 ELSE @]

ProcessorAddFlaggedIsKnown(p, r) ==
  LET ids == [j \in DOMAIN p.ids \cup {r.id} |-> IF j # r.id THEN p.ids[j]
                                               ELSE IF r.type = "erase" THEN Deleted ELSE r]
  IN IF r.type = "key" THEN p
     ELSE IF r.type # "add" /\ r.id \notin DOMAIN p.ids THEN [p EXCEPT !.error = TRUE]
     ELSE [p EXCEPT !.ids = ids, !.last = IF r.type = "add" THEN r.id ELSE @]

(* do_event(): up to the last id seen, a flagged event replaces or deletes    *)
(* the event of its id; beyond it, a rewrite is an add and an erase nothing.  *)
ProcessorAdd(p, r) ==
  LET seen == DOMAIN p.ids
      old == \E i \in seen : r.id <= i
      With(i, record) == [j \in seen \cup {i} |-> IF j = i THEN record ELSE p.ids[j]]
  IN CASE r.type = "key" \/ (r.type = "erase" /\ ~old) -> p
       [] r.type \in {"rewrite", "erase"} /\ old /\ r.id \in Alive(p.ids) ->
            [p EXCEPT !.ids = With(r.id, IF r.type = "erase" THEN Deleted ELSE r)]
       [] r.type \in {"add", "rewrite"} /\ ~old ->
            [p EXCEPT !.ids = With(r.id, r), !.last = r.id]
       [] OTHER -> [p EXCEPT !.error = TRUE]

Load(log) == FoldLeft(ProcessorAdd, EmptyProcessor, log)

(* for_each(): the records of the live events, flags included, in id order.   *)
LiveRecords(p) ==
  LET alive == Alive(p.ids)
      Nth(n) == CHOOSE i \in alive : Cardinality({j \in alive : j <= i}) = n
  IN [n \in 1 .. Cardinality(alive) |-> p.ids[Nth(n)]]

-------------------------------------------------------------------------------
Init ==
  /\ main = NoFile /\ new = NoFile
  /\ buffer = << >> /\ processor = EmptyProcessor /\ state = "Closed"
  /\ need_sync = FALSE /\ db_key = NoKey /\ was_empty = FALSE
  /\ past = << << >> >> /\ durable = 1 /\ unaware = FALSE /\ keys = {}
  /\ events = 0 /\ crashes = 0 /\ key_changes = 0

(* init(): <path>.new becomes <path> if there is none, the log is loaded, a   *)
(* torn record cut off; the file is reindexed if its key is not db_key or if  *)
(* it was cut off and is encrypted.                                          *)
Restored == IF main.exists THEN main ELSE IF new.exists THEN new ELSE EmptyFile

KeyFits(k, old_k) == FileKey(Restored.log) \in {NoKey, k, old_k}

(* The history goes back to the last state that equals the loaded table.      *)
Recovered(table) ==
  LET same == {n \in durable .. Len(past) : past[n] = table}
  IN IF same = {} THEN <<table>> ELSE SubSeq(past, 1, Max(same))

WrongPassword(k, old_k) ==
  /\ state = "Closed" /\ ~KeyFits(k, old_k)
  /\ main' = Restored
  /\ new' = IF main.exists THEN new ELSE NoFile
  /\ UNCHANGED <<buffer, processor, state, need_sync, db_key, was_empty, history_vars, bound_vars>>

Open(k, old_k) ==
  /\ state = "Closed" /\ KeyFits(k, old_k)
  /\ LET file_key == FileKey(Restored.log)
         key_used == file_key # NoKey /\ file_key = k /\ ~Restored.torn
         p == Load(Restored.log)
     IN /\ main' = [Restored EXCEPT !.torn = FALSE]
        /\ new' = IF main.exists THEN new ELSE NoFile
        /\ processor' = p
        /\ state' = IF p.error THEN "Failed"
                    ELSE IF (k # NoKey /\ ~key_used) \/ (k = NoKey /\ file_key # NoKey)
                         THEN "Reindex" ELSE "Run"
        /\ past' = Recovered(Table(p))
        /\ unaware' = (Restored.synced < Len(Restored.log))
        /\ db_key' = k
        /\ keys' = keys \cup {k}
  /\ UNCHANGED <<buffer, need_sync, was_empty, durable, bound_vars>>

-------------------------------------------------------------------------------
(* Flushing and syncing                                                       *)

WriteBuffer(records) ==
  /\ main' = [main EXCEPT !.log = @ \o records]
  /\ need_sync' = (need_sync \/ records # << >>)
  /\ buffer' = << >>

Flush ==
  /\ state = "Run"
  /\ WriteBuffer(buffer)
  /\ UNCHANGED <<new, processor, state, db_key, was_empty, history_vars, bound_vars>>

(* sync() promises that the present table survives, and all states before it. *)
SyncFile ==
  LET written == main.log \o buffer
      sync == need_sync \/ buffer # << >>
  IN /\ main' = [main EXCEPT !.log = written, !.synced = IF sync THEN Len(written) ELSE @]
     /\ need_sync' = FALSE /\ buffer' = << >>
     /\ unaware' = (unaware /\ ~sync)
     /\ durable' = IF unaware' THEN durable ELSE Len(past)

Sync ==
  /\ state = "Run"
  /\ SyncFile
  /\ UNCHANGED <<new, processor, state, db_key, was_empty, past, keys, bound_vars>>

Close ==
  /\ state = "Run"
  /\ SyncFile
  /\ state' = "Closed" /\ processor' = EmptyProcessor
  /\ UNCHANGED <<new, db_key, was_empty, past, keys, bound_vars>>

-------------------------------------------------------------------------------
(* add_event(): the record goes to the buffer and to the processor; a full    *)
(* buffer is flushed; a file much larger than its live events is reindexed.   *)

NeedReindex(size, live) == size > ReindexMin /\ size \div ReindexRate > live

AddEvent(r) ==
  LET p == ProcessorAdd(processor, r)
      records == Append(buffer, r)
      size == Len(main.log) + Len(records)
  IN /\ state = "Run" /\ events < MaxEvents
     /\ events' = events + 1
     /\ processor' = p
     /\ IF Len(records) > FlushMax THEN WriteBuffer(records)
                                   ELSE buffer' = records /\ UNCHANGED <<main, need_sync>>
     /\ state' = IF p.error THEN "Failed"
                 ELSE IF NeedReindex(size, Cardinality(Alive(p.ids))) THEN "Reindex" ELSE "Run"
     /\ past' = Append(past, Table(p))
     /\ UNCHANGED <<new, db_key, was_empty, durable, unaware, keys, crashes, key_changes>>

(* The users of the log add events with growing ids, and rewrite and erase    *)
(* only events that exist.                                                    *)
Add(v) == AddEvent(Record("add", processor.last + 1, v))
Rewrite(i, v) == i \in Alive(processor.ids) /\ AddEvent(Record("rewrite", i, v))
Erase(i) == i \in Alive(processor.ids) /\ AddEvent(Record("erase", i, NoKey))

-------------------------------------------------------------------------------
(* do_reindex(), one system call a step                                       *)

ChangeKey(k) ==
  /\ state = "Run" /\ key_changes < MaxKeyChanges
  /\ key_changes' = key_changes + 1
  /\ db_key' = k /\ keys' = keys \cup {k}
  /\ state' = "Reindex"
  /\ UNCHANGED <<disk_vars, buffer, processor, need_sync, was_empty, past, durable, unaware,
                 events, crashes>>

ReindexStep(from, to) ==
  /\ state = from /\ state' = to
  /\ UNCHANGED <<processor, db_key, durable, bound_vars>>

ReindexCannotOpen ==
  /\ ReindexStep("Reindex", "Run")
  /\ UNCHANGED <<disk_vars, buffer, need_sync, was_empty, past, unaware, keys>>

(* Mutants: the buffer is kept; the file is opened without Truncate.          *)
ReindexOpenKeepsBuffer ==
  /\ ReindexStep("Reindex", "Write")
  /\ new' = EmptyFile
  /\ was_empty' = (main.log = << >>)
  /\ UNCHANGED <<main, buffer, need_sync, past, unaware, keys>>

ReindexOpenNoTruncate ==
  /\ ReindexStep("Reindex", "Write")
  /\ new' = [new EXCEPT !.exists = TRUE]
  /\ buffer' = << >>
  /\ was_empty' = (main.log = << >>)
  /\ UNCHANGED <<main, need_sync, past, unaware, keys>>

(* The new file is created; the buffer is dropped: the processor has it all.  *)
ReindexOpen ==
  /\ ReindexStep("Reindex", "Write")
  /\ new' = EmptyFile
  /\ buffer' = << >>
  /\ was_empty' = (main.log = << >>)
  /\ UNCHANGED <<main, need_sync, past, unaware, keys>>

ReindexWrite ==
  /\ ReindexStep("Write", "Barrier")
  /\ new' = [new EXCEPT !.log = @ \o (IF db_key = NoKey THEN << >> ELSE <<KeyRecord(db_key)>>)
                                  \o LiveRecords(processor)]
  /\ UNCHANGED <<main, buffer, need_sync, was_empty, past, unaware, keys>>

(* Mutant: the new file takes the place of the old one without a sync.        *)
ReindexBarrierSkipped ==
  /\ ReindexStep("Barrier", "Unlink")
  /\ need_sync' = FALSE /\ unaware' = FALSE
  /\ UNCHANGED <<disk_vars, buffer, was_empty, past, keys>>

(* The new file is synced unless the old one was empty.  Then a crash may      *)
(* leave any prefix of the new one, so the table goes through all of those.   *)
TablesOf(log) == [n \in DOMAIN log |-> Table(Load(SubSeq(log, 1, n)))]

ReindexBarrier ==
  /\ ReindexStep("Barrier", "Unlink")
  /\ new' = [new EXCEPT !.synced = IF was_empty THEN @ ELSE Len(new.log)]
  /\ need_sync' = FALSE
  /\ unaware' = (was_empty /\ new.log # << >>)
  /\ past' = IF was_empty /\ Alive(processor.ids) # {}
             THEN past \o << << >> >> \o TablesOf(LiveRecords(processor)) ELSE past
  /\ UNCHANGED <<main, buffer, was_empty, keys>>

ReindexUnlink ==
  /\ ReindexStep("Unlink", "Rename")
  /\ main' = NoFile
  /\ UNCHANGED <<new, buffer, need_sync, was_empty, past, unaware, keys>>

ReindexRename ==
  /\ ReindexStep("Rename", "Run")
  /\ main' = new /\ new' = NoFile
  /\ keys' = {db_key} /\ was_empty' = FALSE
  /\ UNCHANGED <<buffer, need_sync, past, unaware>>

-------------------------------------------------------------------------------
(* A crash of the process, or of the power (`lost`): after the former what    *)
(* survives is still in the page cache only, after the latter it is on disk.  *)
AfterCrash(f, n, torn, lost) ==
  [f EXCEPT !.log = SubSeq(@, 1, n), !.synced = IF lost THEN n ELSE @, !.torn = torn]

Crash ==
  /\ crashes < MaxCrashes
  /\ crashes' = crashes + 1
  /\ \E n \in main.synced .. Len(main.log), m \in new.synced .. Len(new.log),
        torn_main, torn_new, lost \in BOOLEAN :
       /\ state = "Closed" => lost
       /\ torn_main => main.exists
       /\ torn_new => new.exists /\ ~main.exists    \* else it is never read
       /\ main' = AfterCrash(main, n, torn_main, lost)
       /\ new' = AfterCrash(new, m, torn_new, lost)
  /\ state' = "Closed"
  /\ buffer' = << >> /\ processor' = EmptyProcessor
  /\ need_sync' = FALSE /\ was_empty' = FALSE
  /\ UNCHANGED <<db_key, history_vars, events, key_changes>>

-------------------------------------------------------------------------------
Next ==
  \/ \E k, old_k \in AllKeys : WrongPassword(k, old_k) \/ Open(k, old_k)
  \/ Flush \/ Sync \/ Close
  \/ \E v \in Values : Add(v) \/ \E i \in Ids : Rewrite(i, v)
  \/ \E i \in Ids : Erase(i)
  \/ \E k \in AllKeys : ChangeKey(k)
  \/ ReindexCannotOpen \/ ReindexOpen \/ ReindexWrite
  \/ ReindexBarrier \/ ReindexUnlink \/ ReindexRename
  \/ Crash

Spec == Init /\ [][Next]_vars
-------------------------------------------------------------------------------
Tables == UNION {[S -> Values] : S \in SUBSET Ids}
Records == [type : {"add", "rewrite", "erase", "key"}, id : 0 .. MaxEvents, val : Values \cup AllKeys]
Files == [exists : BOOLEAN, log : Seq(Records), synced : Nat, torn : BOOLEAN]

TypeOK ==
  /\ \A f \in {main, new} : f \in Files /\ f.synced <= Len(f.log)
  /\ buffer \in Seq(Records)
  /\ DOMAIN processor.ids \subseteq Ids /\ \A i \in DOMAIN processor.ids : processor.ids[i] \in Records
  /\ processor.last \in 0 .. MaxEvents /\ processor.error \in BOOLEAN
  /\ state \in {"Closed", "Run", "Failed"} \cup ReindexSteps
  /\ need_sync \in BOOLEAN /\ db_key \in AllKeys /\ was_empty \in BOOLEAN
  /\ past \in Seq(Tables) /\ durable \in Nat \ {0}
  /\ unaware \in BOOLEAN /\ keys \subseteq AllKeys

(* What a restart would load is what the running program has, with the flags  *)
(* kept on reindexed records, the deletions and the events still in the        *)
(* buffer (BinlogEventsProcessor.cpp:17-55, Binlog.cpp:326-405 and 627-717).  *)
LoadReproducesLive ==
  state \in {"Run", "Reindex"} =>
    LET loaded == Load(main.log \o buffer)
    IN ~loaded.error /\ Table(loaded) = Table(processor)

(* No event the users add, and no log any crash can leave, is refused by the  *)
(* index: neither LOG(FATAL) of do_event is reached (Binlog.cpp:382-400).     *)
NeverFatal == state # "Failed"

(* After a crash between any two system calls the file opens with one of the  *)
(* keys in use: the last key, or, if a change of key or an open did not       *)
(* finish its reindex, one of those it was going from or to.                  *)
KeyIsKnown ==
  state = "Closed" => FileKey(Restored.log) \in keys \cup {NoKey}

(* The log is a durable store: whatever the crashes, a restart finds a state  *)
(* the table was in, and not one before what the last sync() or close()       *)
(* promised.  A reindex that skips the sync of its file is the exception:     *)
(* a restart may find the beginning of that file, a table nobody has set.     *)
Promise == INSTANCE DurableStore
RecoversToAPromisedState == Promise!Spec
===============================================================================
