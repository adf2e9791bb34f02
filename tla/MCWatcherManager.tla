-------------------------- MODULE MCWatcherManager --------------------------
(* WatcherManager on a small instance.                                       *)
EXTENDS WatcherManager

CONSTANTS w1, w2

MCWatches == {w1, w2}
AllFaults == {"stream", "agent", "listen", "start", "exit"}
=============================================================================
