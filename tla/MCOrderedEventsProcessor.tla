----------------------- MODULE MCOrderedEventsProcessor -----------------------
(* A window of eight numbers and CompactMin = 1: every order of arrival, and  *)
(* the cut of the vector with events still stored behind it.                 *)
EXTENDS OrderedEventsProcessor
===============================================================================
