------------------------------- MODULE MCBinlog -------------------------------
(* Binlog with two keys and two values, which are interchangeable.            *)
EXTENDS Binlog, TLC

Symmetry == Permutations(Values) \cup Permutations(Keys)
===============================================================================
