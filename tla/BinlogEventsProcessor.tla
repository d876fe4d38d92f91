------------------------- MODULE BinlogEventsProcessor -------------------------
(***************************************************************************)
(* tddb/td/db/binlog/detail/BinlogEventsProcessor.{h,cpp}: the index of the *)
(* live events of a log.  Two parallel vectors, sorted by event id; the    *)
(* lowest bit of an entry marks a deleted event, found by binary search;    *)
(* marked entries are removed when they are most of the index.             *)
(*                                                                         *)
(* An event is known by the size of its raw event.  A refused event is      *)
(* fatal to the owner, so it ends the behaviour.                            *)
(***************************************************************************)
EXTENDS Integers, Sequences, FiniteSets, FiniteSetsExt, SequencesExt

CONSTANTS Sizes,          \* of raw events
          CompactMin,     \* the 10 of do_event
          MaxEventId      \* bound

ASSUME BinlogEventsProcessorAssumption ==
  Sizes \subseteq Nat \ {0} /\ CompactMin \in Nat /\ MaxEventId \in Nat

VARIABLES
  event_ids,        \* event_id * 2 + was_deleted
  events,           \* sizes of the raw events, 0 for a deleted one
  total_events, empty_events, last_event_id, total_raw_events_size,
  refused,          \* the last do_event() returned an error
  table             \* history: live event id -> its size

counter_vars == <<total_events, empty_events, total_raw_events_size>>
vars == <<event_ids, events, counter_vars, last_event_id, refused, table>>

EventIds == 1 .. MaxEventId

Init ==
  /\ event_ids = << >> /\ events = << >>
  /\ total_events = 0 /\ empty_events = 0 /\ total_raw_events_size = 0
  /\ last_event_id = 0 /\ refused = FALSE
  /\ table = << >>

-------------------------------------------------------------------------------
Alive(entry) == entry % 2 = 0

(* Mutant: removed entries leave their events behind.                         *)
CompactifyIdsOnly(ids, evs) == <<SelectSeq(ids, Alive), evs>>

(* compactify(): the k-th entry that is alive moves down to place k, and its  *)
(* event with it.                                                            *)
AliveUpTo(ids, n) == Cardinality({m \in 1 .. n : Alive(ids[m])})

Compactify(ids, evs) ==
  LET from == [k \in 1 .. AliveUpTo(ids, Len(ids)) |->
                 CHOOSE n \in DOMAIN ids : Alive(ids[n]) /\ AliveUpTo(ids, n) = k]
  IN <<[k \in DOMAIN from |-> ids[from[k]]], [k \in DOMAIN from |-> evs[from[k]]]>>

(* Mutant: empty_events_ keeps its value.                                     *)
SettleKeepsEmptyCount(ids, evs, total, empty) ==
  LET compact == total > CompactMin /\ empty * 4 > total * 3
      pair == IF compact THEN Compactify(ids, evs) ELSE <<ids, evs>>
  IN /\ event_ids' = pair[1] /\ events' = pair[2]
     /\ total_events' = Len(pair[1])
     /\ empty_events' = empty

(* The end of do_event().                                                     *)
Settle(ids, evs, total, empty) ==
  IF total > CompactMin /\ empty * 4 > total * 3
  THEN LET pair == Compactify(ids, evs)
       IN /\ event_ids' = pair[1] /\ events' = pair[2]
          /\ total_events' = Len(pair[1]) /\ empty_events' = 0
  ELSE /\ event_ids' = ids /\ events' = evs
       /\ total_events' = total /\ empty_events' = empty

(* std::lower_bound                                                           *)
LowerBound(x) == Cardinality({n \in DOMAIN event_ids : event_ids[n] < x}) + 1

(* Mutant: only the last event itself is taken for a known one.               *)
NotBeyondBackIsLast(id) == event_ids # << >> /\ Last(event_ids) = id * 2

(* The event has an id the index has seen.                                    *)
NotBeyondBack(id) == event_ids # << >> /\ Last(event_ids) >= id * 2

(* A flagged event of an id up to the last one; size 0 is an erase.           *)
Replace(id, size) ==
  LET pos == LowerBound(id * 2)
  IN /\ IF pos > Len(event_ids) \/ event_ids[pos] # id * 2
        THEN refused' = TRUE /\ UNCHANGED <<event_ids, events, counter_vars>>
        ELSE /\ refused' = FALSE
             /\ total_raw_events_size' = total_raw_events_size - events[pos] + size
             /\ Settle(IF size = 0 THEN [event_ids EXCEPT ![pos] = @ + 1] ELSE event_ids,
                       [events EXCEPT ![pos] = size],
                       total_events, IF size = 0 THEN empty_events + 1 ELSE empty_events)
     /\ UNCHANGED last_event_id

(* Any other event with data: its id must be a new last one.                  *)
Push(id, size) ==
  /\ IF NotBeyondBack(id)
     THEN refused' = TRUE /\ UNCHANGED <<event_ids, events, counter_vars, last_event_id>>
     ELSE /\ refused' = FALSE
          /\ last_event_id' = id
          /\ total_raw_events_size' = total_raw_events_size + size
          /\ Settle(Append(event_ids, id * 2), Append(events, size), total_events + 1, empty_events)

(* do_event(); an erase has no size.                                          *)
DoEvent(flagged, id, size) ==
  IF flagged /\ NotBeyondBack(id) THEN Replace(id, size)
  ELSE IF size = 0 THEN UNCHANGED <<event_ids, events, counter_vars, last_event_id, refused>>
  ELSE Push(id, size)

(* What the owners pass: an added event, flagged if it was rewritten before a *)
(* reindex, has an id past all others; the rest are changes of live events.   *)
Add(id, size) ==
  /\ ~refused /\ id > last_event_id
  /\ \E flagged \in BOOLEAN : DoEvent(flagged, id, size)
  /\ table' = [i \in DOMAIN table \cup {id} |-> IF i = id THEN size ELSE table[i]]

Rewrite(id, size) ==
  /\ ~refused /\ id \in DOMAIN table
  /\ DoEvent(TRUE, id, size)
  /\ table' = [table EXCEPT ![id] = size]

Erase(id) ==
  /\ ~refused /\ id \in DOMAIN table
  /\ DoEvent(TRUE, id, 0)
  /\ table' = [i \in DOMAIN table \ {id} |-> table[i]]

Next ==
  \/ \E id \in EventIds, size \in Sizes : Add(id, size) \/ Rewrite(id, size)
  \/ \E id \in EventIds : Erase(id)

Spec == Init /\ [][Next]_vars

-------------------------------------------------------------------------------
Position(i) == CHOOSE n \in DOMAIN event_ids : event_ids[n] = i * 2

(* for_each() passes exactly the live events, each with its last value and in *)
(* the order of their ids, whatever was deleted, compacted and added again    *)
(* (BinlogEventsProcessor.cpp:17-77, BinlogEventsProcessor.h:24-33).          *)
IndexIsExact ==
  /\ \A n \in 2 .. Len(event_ids) : event_ids[n - 1] < event_ids[n]
  /\ {e \in Range(event_ids) : Alive(e)} = {i * 2 : i \in DOMAIN table}
  /\ \A i \in DOMAIN table : events[Position(i)] = table[i]

(* The counters that decide when to compact and when to reindex do not drift  *)
(* from the vectors they count (BinlogEventsProcessor.cpp:26-53 and 74-75).   *)
CountersAreExact ==
  /\ total_events = Len(event_ids) /\ Len(events) = Len(event_ids)
  /\ empty_events = Cardinality({n \in DOMAIN event_ids : ~Alive(event_ids[n])})
  /\ total_raw_events_size = MapThenSumSet(LAMBDA i : table[i], DOMAIN table)

(* No event of an owner that follows the rules is refused, not even after a   *)
(* compaction has removed the entries the vector ended with.                  *)
NothingIsRefused == ~refused
===============================================================================
