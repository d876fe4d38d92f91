-------------------------- MODULE MCConcurrentBinlog --------------------------
EXTENDS ConcurrentBinlog

CONSTANTS c1, c2

(* A log without a key, in whose file there are events.  A reindex may leave  *)
(* it without a byte, and a change of key may give it a key.                 *)
LogWithoutKey == {[file_empty |-> FALSE, keyed |-> FALSE, index_empty |-> FALSE]}
===============================================================================
