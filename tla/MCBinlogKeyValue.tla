--------------------------- MODULE MCBinlogKeyValue ---------------------------
(* Two threads and two keys with a common prefix.                             *)
EXTENDS BinlogKeyValue, TLC

CommonPrefix == {Keys}
Symmetry == Permutations(Clients) \cup Permutations(Keys) \cup Permutations(Values)
===============================================================================
