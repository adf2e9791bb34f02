---------------------------- MODULE MCWatcherHost ----------------------------
(* WatcherHost on small instances: some requests share a path.                 *)
EXTENDS WatcherHost, TLC

CONSTANTS r1, r2, r3, p1, p2

Two == {r1, r2}
Three == {r1, r2, r3}
MCPaths == {p1, p2}
Pair == (r1 :> p1 @@ r2 :> p2)
Shared == (r1 :> p1 @@ r2 :> p1 @@ r3 :> p2)
MCTrees == {p1}
MCSettings == {1, 2}
=============================================================================
