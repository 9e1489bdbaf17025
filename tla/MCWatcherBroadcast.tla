------------------------ MODULE MCWatcherBroadcast ------------------------
(* Instance of WatcherBroadcast for TLC.  The browsers, topics and tasks are
   interchangeable, but the run checks liveness, so no symmetry is declared. *)
EXTENDS WatcherBroadcast, TLC
=============================================================================
