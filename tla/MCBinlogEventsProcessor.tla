------------------------ MODULE MCBinlogEventsProcessor ------------------------
(* The index with seven event ids, and its compaction from four entries on.   *)
EXTENDS BinlogEventsProcessor
===============================================================================
