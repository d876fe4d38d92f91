-------------------------- MODULE MCUpdatesManager --------------------------
(* Instance of UpdatesManager with a few events, pushed one or two at a time. *)
EXTENDS UpdatesManager
=============================================================================
