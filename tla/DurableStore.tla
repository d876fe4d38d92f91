----------------------------- MODULE DurableStore -----------------------------
(***************************************************************************)
(* What a write-ahead log promises, whatever its file format: the stored    *)
(* table goes through a history of states; a known part of the history     *)
(* survives any crash; a crash takes the table back to some state of the   *)
(* history, not before that part and never to a mixture of two states.     *)
(***************************************************************************)
EXTENDS Naturals, Sequences

CONSTANT Tables          \* the states the table may be in

VARIABLES past,          \* the history; the last state is the current one
          durable        \* its index up to which no crash can take it back

vars == <<past, durable>>

Init == \E t \in Tables : past = <<t>> /\ durable = 1

(* A change is one new state, or the states a batch of changes goes through.  *)
Change ==
  /\ Len(past') > Len(past) /\ SubSeq(past', 1, Len(past)) = past
  /\ \A n \in Len(past) + 1 .. Len(past') : past'[n] \in Tables
  /\ UNCHANGED durable

Persist(n) == n \in durable .. Len(past) /\ durable' = n /\ UNCHANGED past

Recover(n) == n \in durable .. Len(past) /\ past' = SubSeq(past, 1, n) /\ UNCHANGED durable

Next == \/ Change
        \/ \E n \in DOMAIN past : Persist(n) \/ Recover(n)

Spec == Init /\ [][Next]_vars
===============================================================================
