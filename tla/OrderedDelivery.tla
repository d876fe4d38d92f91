--------------------------- MODULE OrderedDelivery ---------------------------
(***************************************************************************)
(* What an ordered events processor promises its owner (the comment of     *)
(* tdutils/td/utils/OrderedEventsProcessor.h: "Process states in order     *)
(* defined by their SeqNo"): numbered events arrive in any order, each     *)
(* number once, and at every moment the events handed to the callback are  *)
(* exactly the longest gap-free run of the arrived numbers, in order.      *)
(***************************************************************************)
EXTENDS Naturals

CONSTANTS First,    \* the number the processor is created with
          MaxSeqNo  \* the largest number that may arrive

VARIABLES arrived,    \* the numbers added so far
          delivered   \* the numbers handed to the callback, in call order

vars == <<arrived, delivered>>

SeqNos == First .. MaxSeqNo

(* The callback has been called with First, First + 1, ..., n - 1.         *)
RunUpTo(n) == [i \in 1 .. n - First |-> First + i - 1]

(* n is the first number that is still missing.                            *)
FirstMissing(n, S) == n \notin S /\ \A m \in First .. n - 1 : m \in S

Init ==
  /\ arrived = {}
  /\ delivered = << >>

Arrive(s) ==
  /\ s \notin arrived
  /\ arrived' = arrived \cup {s}
  /\ \E n \in First .. MaxSeqNo + 1 :
       /\ FirstMissing(n, arrived')
       /\ delivered' = RunUpTo(n)

Next == \E s \in SeqNos : Arrive(s)

Spec == Init /\ [][Next]_vars
==============================================================================
