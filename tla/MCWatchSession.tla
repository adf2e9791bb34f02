--------------------------- MODULE MCWatchSession ---------------------------
(* WatchSession on a small instance: a long and a short watched path and an  *)
(* unwatched one.                                                            *)
EXTENDS WatchSession

CONSTANTS p1, p2, p3

MCPaths == {p1, p2, p3}
MCWatched == {p1, p2}
MCChangeBytes == [p \in MCPaths |-> IF p = p2 THEN 2 ELSE 1]
=============================================================================
