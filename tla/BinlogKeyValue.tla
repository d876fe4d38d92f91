---------------------------- MODULE BinlogKeyValue ----------------------------
(***************************************************************************)
(* tddb/td/db/BinlogKeyValue.h over a ConcurrentBinlog: a map kept in       *)
(* memory under a lock, with an event of the log for every key.  A writer   *)
(* changes the map and takes a number under the lock and sends the event    *)
(* after it, so events arrive in any order; the log runs them by number.    *)
(*                                                                         *)
(* What a locked section does is one step.  The log is known by the events  *)
(* run so far (ConcurrentBinlog, OrderedEventsProcessor) and by how many of *)
(* them no crash can undo (Binlog).                                         *)
(***************************************************************************)
EXTENDS Naturals, SequencesExt

CONSTANTS Clients, Keys, Values, NoKey,
          KeyPrefixes,             \* the sets of keys with a common prefix
          MaxSeqNo, MaxCrashes     \* bounds

ASSUME BinlogKeyValueAssumption ==
  /\ NoKey \notin Keys /\ KeyPrefixes \subseteq SUBSET Keys
  /\ {MaxSeqNo, MaxCrashes} \subseteq Nat

VARIABLES
  map,             \* map_: key -> its value and the id of its event
  last_event_id,   \* the counter next_event_id() increments
  pending,         \* client -> its numbered events not sent yet
  early,           \* events the log keeps until their number is next
  begin,           \* the next number to run
  log,             \* the events that have run
  durable_events,  \* how many of them no crash can undo
  past,            \* history: the tables the map has held
  crashes          \* counter of the bound

vars == <<map, last_event_id, pending, early, begin, log, durable_events, past, crashes>>

Event(seq_no, type, id, key, value) ==
  [seq_no |-> seq_no, type |-> type, id |-> id, key |-> key, value |-> value]
EraseEvent(seq_no, id) == Event(seq_no, "erase", id, NoKey, NoKey)

Table(m) == [k \in DOMAIN m |-> m[k].value]
Without(m, keys) == [k \in DOMAIN m \ keys |-> m[k]]

Init ==
  /\ map = << >> /\ last_event_id = 1
  /\ pending = [c \in Clients |-> << >>]
  /\ early = {} /\ begin = 1 /\ log = << >> /\ durable_events = 0
  /\ past = << << >> >> /\ crashes = 0

-------------------------------------------------------------------------------
(* The log                                                                   *)

(* Mutant: events run in the order they come.                                 *)
DeliverAsReceived(events) ==
  /\ log' = log \o SetToSortSeq(events, LAMBDA e, f : e.seq_no < f.seq_no)
  /\ begin' = begin + Cardinality(events)
  /\ UNCHANGED early

(* Events that come in run as soon as all the numbers before theirs have.     *)
Deliver(events) ==
  LET all == early \cup events
      Numbered(k) == CHOOSE e \in all : e.seq_no = k
  IN \E n \in begin .. MaxSeqNo + 1 :
       /\ \A k \in begin .. n - 1 : \E e \in all : e.seq_no = k
       /\ \A e \in all : e.seq_no # n
       /\ log' = log \o [i \in 1 .. n - begin |-> Numbered(begin + i - 1)]
       /\ early' = {e \in all : e.seq_no > n}
       /\ begin' = n

Send(c) ==
  /\ pending[c] # << >>
  /\ pending' = [pending EXCEPT ![c] = Tail(@)]
  /\ Deliver({Head(pending[c])})
  /\ UNCHANGED <<map, last_event_id, durable_events, past, crashes>>

Sync ==
  /\ durable_events' = Len(log)
  /\ UNCHANGED <<map, last_event_id, pending, early, begin, log, past, crashes>>

-------------------------------------------------------------------------------
(* The writers                                                               *)

NextEventId(shift) ==
  /\ last_event_id + shift <= MaxSeqNo + 1
  /\ last_event_id' = last_event_id + shift

(* Mutants: the id of a new key is not put into the map; a changed value gets *)
(* an event of its own beside the old one.                                    *)
SetForgetsId(c, k, v) ==
  LET known == k \in DOMAIN map
      id == IF known THEN map[k].id ELSE last_event_id
  IN /\ pending[c] = << >> /\ (known => map[k].value # v)
     /\ NextEventId(1)
     /\ map' = [j \in DOMAIN map \cup {k} |->
                  IF j # k THEN map[j] ELSE [value |-> v, id |-> IF known THEN id ELSE 0]]
     /\ pending' = [pending EXCEPT ![c] =
                      <<Event(last_event_id, IF known THEN "rewrite" ELSE "add", id, k, v)>>]
     /\ past' = Append(past, Table(map'))
     /\ UNCHANGED <<early, begin, log, durable_events, crashes>>

SetAddsAnew(c, k, v) ==
  /\ pending[c] = << >> /\ (k \in DOMAIN map => map[k].value # v)
  /\ NextEventId(1)
  /\ map' = [j \in DOMAIN map \cup {k} |->
               IF j # k THEN map[j] ELSE [value |-> v, id |-> last_event_id]]
  /\ pending' = [pending EXCEPT ![c] = <<Event(last_event_id, "add", last_event_id, k, v)>>]
  /\ past' = Append(past, Table(map'))
  /\ UNCHANGED <<early, begin, log, durable_events, crashes>>

(* set(): the event of a key that has one is rewritten; an equal value        *)
(* changes nothing.                                                          *)
Set(c, k, v) ==
  LET known == k \in DOMAIN map
      id == IF known THEN map[k].id ELSE last_event_id
  IN /\ pending[c] = << >> /\ (known => map[k].value # v)
     /\ NextEventId(1)
     /\ map' = [j \in DOMAIN map \cup {k} |-> IF j # k THEN map[j] ELSE [value |-> v, id |-> id]]
     /\ pending' = [pending EXCEPT ![c] =
                      <<Event(last_event_id, IF known THEN "rewrite" ELSE "add", id, k, v)>>]
     /\ past' = Append(past, Table(map'))
     /\ UNCHANGED <<early, begin, log, durable_events, crashes>>

(* The keys are erased one after another, a number for each.                  *)
EraseKeys(keys) ==
  /\ NextEventId(Len(keys))
  /\ map' = Without(map, Range(keys))
  /\ past' = past \o [n \in DOMAIN keys |-> Table(Without(map, {keys[i] : i \in 1 .. n}))]

EraseEvents(keys) ==
  [n \in DOMAIN keys |-> EraseEvent(last_event_id + n - 1, map[keys[n]].id)]

(* erase() and erase_by_prefix(): the events are sent after the lock is left, *)
(* those of a prefix in the order of the hash table.                          *)
Erase(c, matching) == \E keys \in SetToSeqs(matching \cap DOMAIN map) :
  /\ pending[c] = << >> /\ keys # << >>
  /\ EraseKeys(keys)
  /\ pending' = [pending EXCEPT ![c] = EraseEvents(keys)]
  /\ UNCHANGED <<early, begin, log, durable_events, crashes>>

(* erase_batch(): one message, sent under the lock.                           *)
EraseBatch(c, batch) == \E keys \in SetToSeqs(batch \cap DOMAIN map) :
  /\ pending[c] = << >> /\ keys # << >>
  /\ EraseKeys(keys)
  /\ Deliver(Range(EraseEvents(keys)))
  /\ UNCHANGED <<pending, durable_events, crashes>>

-------------------------------------------------------------------------------
(* Loading.  The index of the log (module BinlogEventsProcessor): the event   *)
(* of each id; an error is fatal.                                             *)
Indexed(index, e) ==
  CASE e.type = "add" ->
         IF \A i \in DOMAIN index.events : i < e.id
         THEN [index EXCEPT !.events = [i \in DOMAIN @ \cup {e.id} |-> IF i = e.id THEN e ELSE @[i]],
                            !.last = e.id]
         ELSE [index EXCEPT !.error = TRUE]
    [] e.type = "rewrite" /\ e.id \in DOMAIN index.events ->
         [index EXCEPT !.events[e.id] = e]
    [] e.type = "erase" /\ e.id \in DOMAIN index.events ->
         [index EXCEPT !.events = [i \in DOMAIN @ \ {e.id} |-> @[i]]]
    [] OTHER -> [index EXCEPT !.error = TRUE]

Index(events) == FoldLeft(Indexed, [events |-> << >>, last |-> 0, error |-> FALSE], events)

(* init(): events are put into the map in the order of their ids; emplace     *)
(* keeps the first one of a key.                                              *)
LoadedMap(index) ==
  LET ids(k) == {i \in DOMAIN index.events : index.events[i].key = k}
      first(k) == CHOOSE i \in ids(k) : \A j \in ids(k) : i <= j
  IN [k \in {index.events[i].key : i \in DOMAIN index.events} |->
        [value |-> index.events[first(k)].value, id |-> first(k)]]

Loads(n) == LoadedMap(Index(SubSeq(log, 1, n)))

(* A crash leaves some of the events that have run; numbers go on from the    *)
(* last event id of the log.                                                  *)
Restart ==
  /\ crashes < MaxCrashes /\ crashes' = crashes + 1
  /\ \E n \in durable_events .. Len(log) :
       LET next == Index(SubSeq(log, 1, n)).last + 1
       IN /\ log' = SubSeq(log, 1, n)
          /\ map' = Loads(n)
          /\ past' = Append(SubSeq(past, 1, n), Table(map'))
          /\ last_event_id' = next /\ begin' = next
  /\ pending' = [c \in Clients |-> << >>] /\ early' = {}
  /\ UNCHANGED durable_events

-------------------------------------------------------------------------------
Next ==
  \/ \E c \in Clients :
       \/ \E k \in Keys, v \in Values : Set(c, k, v)
       \/ \E k \in Keys : Erase(c, {k})
       \/ \E p \in KeyPrefixes : Erase(c, p)
       \/ \E batch \in SUBSET Keys : EraseBatch(c, batch)
       \/ Send(c)
  \/ Sync \/ Restart

Spec == Init /\ [][Next]_vars
-------------------------------------------------------------------------------
Tables == UNION {[S -> Values] : S \in SUBSET Keys}
SeqNos == 1 .. MaxSeqNo
Events == [seq_no : SeqNos, type : {"add", "rewrite", "erase"}, id : SeqNos,
           key : Keys \cup {NoKey}, value : Values \cup {NoKey}]

TypeOK ==
  /\ DOMAIN map \subseteq Keys /\ \A k \in DOMAIN map : map[k] \in [value : Values, id : SeqNos]
  /\ last_event_id \in 1 .. MaxSeqNo + 1 /\ begin \in 1 .. MaxSeqNo + 1
  /\ pending \in [Clients -> Seq(Events)] /\ early \subseteq Events /\ log \in Seq(Events)
  /\ durable_events \in 0 .. Len(log)
  /\ past \in Seq(Tables) /\ crashes \in 0 .. MaxCrashes

(* "SeqNo is used to restore total order on all write queries": the events,   *)
(* run by number, go through the very tables the map went through, although   *)
(* the threads that changed it sent them in any order; no event is refused    *)
(* (BinlogKeyValue.h:131-195 and 252-269).                                    *)
LogFollowsMap ==
  /\ Len(log) < Len(past)
  /\ \A n \in 0 .. Len(log) : /\ ~Index(SubSeq(log, 1, n)).error
                              /\ Table(Loads(n)) = past[n + 1]

(* Whatever threads were in the middle of, a restart finds a table the map    *)
(* held, not older than what the last sync made durable.                      *)
Promise == INSTANCE DurableStore WITH durable <- durable_events + 1
RecoversToAPromisedState == Promise!Spec
===============================================================================
