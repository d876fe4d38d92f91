------------------------ MODULE OrderedEventsProcessor ------------------------
(***************************************************************************)
(* tdutils/td/utils/OrderedEventsProcessor.h: the window of early events   *)
(* of an actor that must handle numbered events in order.  ConcurrentBinlog *)
(* keeps one, because its clients allocate a number first and send the     *)
(* event later, so events reach the actor out of order.                    *)
(*                                                                         *)
(* data_array_ is a vector of (payload, present) pairs addressed by        *)
(* seq_no - offset_; here a slot holds the number of the event stored in   *)
(* it, or Absent when its flag is down.  The payload of an event is its    *)
(* number, so handing out the wrong slot is visible in `delivered`.        *)
(***************************************************************************)
EXTENDS Naturals, Sequences

CONSTANTS First,         \* the constructor's argument
          MaxSeqNo,      \* bound: the largest number that arrives
          CompactMin     \* the 5 of try_compactify

ASSUME ProcessorAssumption ==
  /\ First \in Nat \ {0}
  /\ MaxSeqNo \in Nat
  /\ CompactMin \in Nat

VARIABLES
  offset_,      \* the number whose event belongs in the first slot
  begin_,       \* the next number to run
  end_,         \* one more than the largest number seen
  data_array_,  \* the slots
  arrived,      \* history: the numbers passed to add
  delivered     \* history: the payloads passed to the callback, in order

window_vars == <<offset_, begin_, end_, data_array_, arrived, delivered>>

Absent == 0
SeqNos == First .. MaxSeqNo

WindowInit ==
  /\ offset_ = First /\ begin_ = First /\ end_ = First
  /\ data_array_ = << >>
  /\ arrived = {}
  /\ delivered = << >>

-------------------------------------------------------------------------------
Larger(a, b) == IF a < b THEN b ELSE a

(* data_array_[n - offset_] *)
Slot(n) == data_array_[n - offset_ + 1]

(* The while loop of add stops at n: the window ends there or its slot is   *)
(* empty, and every slot it passed held an event.                           *)
DrainStopsAt(from, n) ==
  /\ n \in from .. Larger(from, end_)
  /\ n < end_ => Slot(n) = Absent
  /\ \A m \in from .. n - 1 : Slot(m) # Absent

(* Mutant: the loop leaves the flags of the slots it ran up.                *)
DrainedKeepsFlags(from, n) == data_array_

(* The slots after the loop lowered the flags of those it ran.              *)
Drained(from, n) ==
  [i \in 1 .. Len(data_array_) |->
     IF offset_ + i - 1 \in from .. n - 1 THEN Absent ELSE data_array_[i]]

(* What the callback is called with: the event itself, then the drained.    *)
Ran(s, n) == [i \in 1 .. n - s |-> IF i = 1 THEN s ELSE Slot(s + i - 1)]

(* Mutant: end_ does not follow begin_ past an empty window.                *)
SettleKeepsEnd(n, slots) ==
  begin_' = n /\ end_' = end_ /\ offset_' = offset_ /\ data_array_' = slots

(* Mutant: try_compactify moves offset_ and forgets to erase the slots.     *)
SettleForgetsErase(n, slots) ==
  LET e == Larger(n, end_)
      o == IF n = e THEN n ELSE offset_
      cut == n - o > CompactMin /\ (n - o) * 2 > Len(slots)
  IN begin_' = n /\ end_' = e /\ offset_' = (IF cut THEN n ELSE o) /\ data_array_' = slots

(* The assignments after the loop, up to try_compactify: an empty window is  *)
(* moved to begin_ without touching the vector; a long consumed front of    *)
(* the vector is cut off.                                                   *)
Settle(n, slots) ==
  LET e == Larger(n, end_)
      o == IF n = e THEN n ELSE offset_
      pos == n - o
      cut == pos > CompactMin /\ pos * 2 > Len(slots)
  IN /\ begin_' = n
     /\ end_' = e
     /\ offset_' = IF cut THEN n ELSE o
     /\ data_array_' = IF cut THEN [i \in 1 .. Len(slots) - pos |-> slots[i + pos]]
                       ELSE slots

(* add, the branch that runs the event now                                  *)
RunNow(s) ==
  /\ s = begin_
  /\ \E n \in s + 1 .. Larger(s + 1, end_) :
       /\ DrainStopsAt(s + 1, n)
       /\ delivered' = delivered \o Ran(s, n)
       /\ Settle(n, Drained(s + 1, n))
  /\ arrived' = arrived \cup {s}

(* Mutant: end_ is set to seq_no instead of seq_no + 1.                     *)
StoreEndOffByOne(s) ==
  /\ s > begin_
  /\ LET pos == s - offset_ + 1
     IN data_array_' = [i \in 1 .. Larger(Len(data_array_), pos) |->
                   IF i = pos THEN s
                   ELSE IF i <= Len(data_array_) THEN data_array_[i] ELSE Absent]
  /\ end_' = Larger(end_, s)
  /\ arrived' = arrived \cup {s}
  /\ UNCHANGED <<offset_, begin_, delivered>>

(* add, the branch that keeps the event: the vector grows to hold its slot   *)
Store(s) ==
  /\ s > begin_
  /\ LET pos == s - offset_ + 1
     IN data_array_' = [i \in 1 .. Larger(Len(data_array_), pos) |->
                   IF i = pos THEN s
                   ELSE IF i <= Len(data_array_) THEN data_array_[i] ELSE Absent]
  /\ end_' = Larger(end_, s + 1)
  /\ arrived' = arrived \cup {s}
  /\ UNCHANGED <<offset_, begin_, delivered>>

(* The owner numbers its events with a counter: a number is added once.     *)
Add(s) ==
  /\ s \notin arrived
  /\ RunNow(s) \/ Store(s)

AllAdded == arrived = SeqNos /\ UNCHANGED window_vars

WindowNext == (\E s \in SeqNos : Add(s)) \/ AllAdded

WindowSpec == WindowInit /\ [][WindowNext]_window_vars
-------------------------------------------------------------------------------
(* The types of the window's variables, with the order of its three bounds: *)
(* offset_ is never ahead of begin_, so that the index of a slot does not    *)
(* wrap, and begin_ never ahead of end_; what is delivered are events.       *)
WindowTypeOK ==
  /\ offset_ \in Nat /\ begin_ \in Nat /\ end_ \in Nat
  /\ First <= offset_ /\ offset_ <= begin_ /\ begin_ <= end_
  /\ data_array_ \in Seq({Absent} \cup SeqNos)
  /\ arrived \subseteq SeqNos
  /\ delivered \in Seq(SeqNos)

(* A stored event sits in the slot of its number, the window holds exactly  *)
(* the early arrivals, and no stale event survives outside it, whatever     *)
(* moves of offset_ and cuts of the vector happened before (add and         *)
(* try_compactify, OrderedEventsProcessor.h:39-80).                         *)
WindowHoldsEarlyArrivals ==
  /\ \A i \in DOMAIN data_array_ :
       data_array_[i] # Absent => data_array_[i] = offset_ + i - 1 /\ data_array_[i] \in begin_ + 1 .. end_ - 1
  /\ \A n \in begin_ .. end_ - 1 : n - offset_ < Len(data_array_)
  /\ \A n \in SeqNos : n \in arrived <=>
       n < begin_ \/ (n < end_ /\ Slot(n) # Absent)

(* The numbers the owner reads for its force_sync decision: every number up *)
(* to max_finished_seq_no has run, the one after it has not arrived, and    *)
(* max_unfinished_seq_no is the largest that arrived                        *)
(* (OrderedEventsProcessor.h:85-90, used at ConcurrentBinlog.cpp:68-75).    *)
max_finished_seq_no == begin_ - 1
max_unfinished_seq_no == end_ - 1

FinishedNumbersAreExact ==
  /\ \A n \in First .. max_finished_seq_no : n \in arrived
  /\ max_finished_seq_no + 1 \notin arrived
  /\ \A n \in arrived : n <= max_unfinished_seq_no
  /\ max_unfinished_seq_no > max_finished_seq_no => max_unfinished_seq_no \in arrived

(* Refinement: the vector implementation delivers what OrderedDelivery      *)
(* promises (OrderedEventsProcessor.h:16).                                  *)
Promise == INSTANCE OrderedDelivery
DeliversInOrder == Promise!Spec
===============================================================================
