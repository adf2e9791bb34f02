----------------------------- MODULE WatcherHost -----------------------------
(***************************************************************************)
(* The watcher process: $watch, $unwatch and $setWatcherFileExcludes over  *)
(* a pair of native watchers (recursive and not) that is thrown away and   *)
(* made anew whenever the exclusions change, with every watch on it        *)
(* started again.  A change that meets a starting watch is put off until   *)
(* no watch is starting; a watch that finds the watchers replaced under it *)
(* starts once more.                                                       *)
(*                                                                         *)
(* Source: src/packages/file-service/src/node/hosted/                      *)
(* watcher.host.service.ts, class WatcherHostServiceImpl.                  *)
(*                                                                         *)
(* The native watchers: hosted/recursive/file-service-watcher.ts and       *)
(* hosted/un-recursive/file-service-watcher.ts, of which a version is made *)
(* with every change.                                                      *)
(*                                                                         *)
(* A watcher id is numbered within its path (<<p, n>> is unique, as the    *)
(* numbers of WATCHER_SEQUENCE are).  A path is always watched with the    *)
(* same options, and no two paths share a directory the recursive watcher  *)
(* subscribes to.                                                          *)
(***************************************************************************)
EXTENDS Integers, FiniteSets

CONSTANTS
    Requests,     \* the $watch calls
    Paths,
    PathOf,       \* the path each of them names
    Trees,        \* the paths watched recursively
    Settings,     \* values of the exclusions, named in the order of their use;
                  \*   0 is the default
    MaxSettings,  \* bound: $setWatcherFileExcludes calls
    MayFail       \* may starting a native watch fail?

ASSUME WatcherHostAssumption ==
    /\ PathOf \in [Requests -> Paths] /\ Trees \subseteq Paths
    /\ Settings \subseteq Nat
    /\ MaxSettings \in Nat /\ MayFail \in BOOLEAN

VARIABLES
    \* Fields of WatcherHostServiceImpl.
    version,     \* watcherServerVersion
    seq,         \* the last id given out for each path
    handlers,    \* WATCHER_HANDLERS, as pairs of path and number
    pending,     \* pendingWatchers: path -> number and version
    collection,  \* watcherCollection: path -> number, version, and whether its
                 \* disposable unwatches the recursive watcher (recursiveWatchStarted)
    excludes,    \* defaultExcludes
    deferred,    \* deferredExcludes, as a set of at most one
    \* doWatch calls that wait, for the native watchers or for a reset.
    tasks,
    \* What the native watchers of a version watch, as <<path, version, kind>>:
    \* a "file" of the not recursive one, a "tree" of the recursive one, and a
    \* tree that one is "opening".
    native,
    \* Outside: the client.
    rpc, held,   \* each request: its state, the number it was answered
    broken,      \* history: paths for which a native watch did not come up
    overtaken,   \* history: paths whose retried start was overtaken too, until
                 \* a start of theirs ends on the current watchers
    last,        \* history: the last exclusions set that differed from those
                 \* in force
    sets         \* how many exclusions were set

server == <<version, seq, handlers, pending, collection, excludes, deferred>>
client == <<rpc, held>>
settings == <<last, sets>>
vars == <<server, tasks, native, client, broken, overtaken, settings>>

Entry(n, ver, tree) == [n |-> n, ver |-> ver, tree |-> tree]
None == Entry(0, 0, FALSE)

\* A doWatch and the two native starts of its Promise.all.
Task(p, n, ver, retry, by, tree) ==
    [path |-> p, n |-> n, ver |-> ver, retry |-> retry, by |-> by,
     stage |-> "starting", file |-> "starting", tree |-> tree]

\* Who awaits a doWatch: a request, the reset a task is in, or nobody.
ForRequest(r) == [kind |-> "request", of |-> r]
ForTask(t) == [kind |-> "task", of |-> <<t.path, t.n>>]
ForNobody == [kind |-> "excludes", of |-> 0]

Answered(by, n) ==
    IF by.kind = "request"
    THEN /\ rpc' = [rpc EXCEPT ![by.of] = "held"]
         /\ held' = [held EXCEPT ![by.of] = n]
    ELSE UNCHANGED client

Waits(by) ==
    /\ rpc' = IF by.kind = "request" THEN [rpc EXCEPT ![by.of] = "waiting"]
                                     ELSE rpc
    /\ UNCHANGED held

Swallowed(by) == UNCHANGED client  \* a mutant: logs the error instead
Rejected(by) ==
    /\ rpc' = IF by.kind = "request" THEN [rpc EXCEPT ![by.of] = "failed"]
                                     ELSE rpc
    /\ UNCHANGED held

-----------------------------------------------------------------------------
(* checkIsAlreadyWatched and doWatch                                       *)

Numbers(p, hs) == {n \in 1..seq[p] : <<p, n>> \in hs}
First(p, hs) == CHOOSE n \in Numbers(p, hs) : \A m \in Numbers(p, hs) : n <= m

\* What a $watch of a path already watched is answered: the id of a start under
\* way, or the first handler of a path with a collected watch.
Starting(p, pd) == pd[p].n # 0 /\ pd[p].ver = version
Collected(p, hs) == collection[p].n # 0 /\ Numbers(p, hs) # {}
Watched(p, hs, pd) == Starting(p, pd) \/ Collected(p, hs)
KnownId(p, hs, pd) == IF Starting(p, pd) THEN pd[p].n ELSE First(p, hs)

\* Otherwise a handler of the path is stale; one goes.
Cleaned(p, hs) ==
    IF Numbers(p, hs) = {} THEN hs ELSE hs \ {<<p, First(p, hs)>>}

\* The recursive watcher joins the start under way for a path, and reuses what
\* it watches already.
Joined(p, ver, nt) == IF p \notin Trees THEN "none"
                      ELSE IF <<p, ver, "tree">> \in nt THEN "up" ELSE "starting"
Opened(p, ver, nt) == IF Joined(p, ver, nt) = "starting"
                      THEN nt \cup {<<p, ver, "opening">>} ELSE nt

\* doWatch up to its await, given what the handlers, the pending and the native
\* watches are by then; "rest" are the other tasks.
DoWatch(p, retry, by, hs, pd, nt, rest) ==
    IF Watched(p, hs, pd)
    THEN /\ handlers' = hs /\ pending' = pd /\ tasks' = rest /\ native' = nt
         /\ Answered(by, KnownId(p, hs, pd))
         /\ UNCHANGED seq
    ELSE LET n == seq[p] + 1 IN
         /\ seq' = [seq EXCEPT ![p] = n]
         /\ handlers' = Cleaned(p, hs) \cup {<<p, n>>}
         /\ pending' = [pd EXCEPT ![p] = Entry(n, version, FALSE)]
         /\ native' = Opened(p, version, nt)
         /\ tasks' = rest \cup
               {Task(p, n, version, retry, by, Joined(p, version, nt))}
         /\ Waits(by)

\* initWatcherServer(excludes, true), which only runs while nothing is pending:
\* dispose every collected watch and the native watchers, then watch again
\* what was collected, under new ids.  A recursive start under way goes on.
ReadTooLate == {}  \* a mutant: looks at the collection it has emptied
Targets == {p \in Paths : collection[p].n # 0}

Opening(nt) == {w \in nt : w[3] = "opening"}

Reset(by, nt, rest) ==
    LET kept == handlers \ {<<p, collection[p].n>> : p \in Targets}
    IN  /\ version' = version + 1
        /\ seq' = [p \in Paths |-> IF p \in Targets THEN seq[p] + 1 ELSE seq[p]]
        /\ handlers' = {h \in kept : h[1] \in Targets => h \in Cleaned(h[1], kept)}
                       \cup {<<p, seq[p] + 1>> : p \in Targets}
        /\ pending' = [p \in Paths |-> IF p \in Targets
                                       THEN Entry(seq[p] + 1, version + 1, FALSE)
                                       ELSE None]
        /\ collection' = [p \in Paths |-> None]
        /\ native' = Opening(nt) \cup
              {<<p, version + 1, "opening">> : p \in Targets \cap Trees}
        /\ tasks' = rest \cup
              {Task(p, seq[p] + 1, version + 1, 0, by, Joined(p, version + 1, {})) :
                  p \in Targets}

\* The end of doWatch.  Only the not recursive start rejects it.  A watch that
\* started on watchers replaced since is taken down and started again, but only
\* once: after that it is recorded as it is.  pd and nt: what is pending and
\* watched by then.
Outdated(t) == t.ver # version
Of(p, ver) == {<<p, ver, "file">>, <<p, ver, "tree">>}

Finish(t, pd, nt, rest) ==
    LET id == <<t.path, t.n>>
        Record == /\ collection' = [collection EXCEPT ![t.path] =
                                       Entry(t.n, t.ver, t.tree = "up")]
                  /\ pending' = pd /\ tasks' = rest
                  /\ Answered(t.by, t.n)
                  /\ UNCHANGED seq
    IN  CASE t.file = "failed" ->
               /\ Rejected(t.by)
               /\ pending' = pd /\ tasks' = rest /\ native' = nt
               /\ UNCHANGED <<seq, handlers, collection, overtaken>>
          [] t.file # "failed" /\ ~Outdated(t) ->
               /\ Record /\ native' = nt
               /\ overtaken' = overtaken \ {t.path}
               /\ UNCHANGED handlers
          [] t.file # "failed" /\ Outdated(t) /\ t.retry = 0 ->
               /\ DoWatch(t.path, 1, t.by, handlers \ {id}, pd,
                          nt \ Of(t.path, t.ver), rest)
               /\ UNCHANGED <<collection, overtaken>>
          [] t.file # "failed" /\ Outdated(t) /\ t.retry = 1 ->
               /\ Record /\ native' = nt \ Of(t.path, t.ver)
               /\ overtaken' = overtaken \cup {t.path}
               /\ handlers' = handlers \ {id}

-----------------------------------------------------------------------------
(* The calls and their continuations                                       *)

\* A reset with nothing left to wait for goes on before any other event.
Resettled(t) == t.stage = "resetting" /\ \A u \in tasks : u.by # ForTask(t)
Quiet == \A t \in tasks : ~Resettled(t)

Watch(r) ==
    /\ rpc[r] = "idle" /\ Quiet
    /\ DoWatch(PathOf[r], 0, ForRequest(r), handlers, pending, native, tasks)
    /\ UNCHANGED <<version, collection, excludes, deferred, broken, overtaken,
                   settings>>

\* Promise.all is over once both starts are, or as soon as the not recursive one
\* rejects; the recursive one then goes on by itself.  The last watch for which
\* it is over applies the exclusions that were put off, and waits for the
\* watches that restarts.
Settled(t) == \/ t.file = "failed"
              \/ t.file = "up" /\ t.tree # "starting"

StillCounted(pd) == \A p \in Paths : pending[p] = None  \* a mutant
LastToStart(pd) == \A p \in Paths : pd[p] = None

Settle(t, as, nt) ==
    LET pd == [pending EXCEPT ![t.path] = None]
        rest == tasks \ {t}
    IN  IF LastToStart(pd) /\ deferred \ {excludes} # {}
        THEN /\ deferred' = {}
             /\ excludes' \in deferred
             /\ Reset(ForTask(t), nt, rest \cup {[as EXCEPT !.stage = "resetting"]})
             /\ UNCHANGED <<client, overtaken>>
        ELSE /\ deferred' = IF LastToStart(pd) THEN {} ELSE deferred
             /\ Finish(as, pd, nt, rest)
             /\ UNCHANGED <<version, excludes>>

\* One of the two starts of a task is over and the task is now "as".
HalfEnds(t, as, nt) ==
    \/ /\ ~Settled(as)
       /\ tasks' = (tasks \ {t}) \cup {as} /\ native' = nt
       /\ UNCHANGED <<server, client, overtaken>>
    \/ Settled(as) /\ Settle(t, as, nt)

\* The not recursive watcher rejects when the path goes away under it, and
\* resolves without a watch when there is no path or fs.watch fails.
FileEnds(t, how) ==
    /\ t.stage = "starting" /\ t.file = "starting" /\ Quiet
    /\ how = "up" \/ MayFail
    /\ broken' = IF how = "up" THEN broken ELSE broken \cup {t.path}
    /\ HalfEnds(t, [t EXCEPT !.file = IF how = "failed" THEN "failed" ELSE "up"],
                IF how = "up" THEN native \cup {<<t.path, t.ver, "file">>} ELSE native)
    /\ UNCHANGED settings

\* A recursive start is over, awaited or not.  What comes up on a disposed
\* watcher is taken down at once.
NeverDisposed(ver) == FALSE  \* a mutant: does not look for isDisposed
Replaced(ver) == ver # version

TreeEnds(w, up) ==
    /\ w \in Opening(native) /\ Quiet
    /\ up \/ MayFail
    /\ broken' = IF up THEN broken ELSE broken \cup {w[1]}
    /\ LET ended == native \ {w}
           nt == IF up /\ ~Replaced(w[2]) THEN ended \cup {<<w[1], w[2], "tree">>}
                                          ELSE ended
           awaiting == {t \in tasks : /\ t.stage = "starting" /\ t.tree = "starting"
                                      /\ t.path = w[1] /\ t.ver = w[2]}
       IN  \/ /\ awaiting = {} /\ native' = nt
              /\ UNCHANGED <<server, tasks, client, overtaken>>
           \/ \E t \in awaiting :
                 HalfEnds(t, [t EXCEPT !.tree = IF up THEN "up" ELSE "failed"], nt)
    /\ UNCHANGED settings

\* A minute has passed (watchFileChanges of the recursive watcher): the start is
\* given up and goes on.
TreeTimesOut(t) ==
    /\ t.stage = "starting" /\ t.tree = "starting" /\ Quiet /\ MayFail
    /\ broken' = broken \cup {t.path}
    /\ HalfEnds(t, [t EXCEPT !.tree = "failed"], native)
    /\ UNCHANGED settings

ResetDone(t) ==
    /\ Resettled(t)
    /\ Finish(t, pending, native, tasks \ {t})
    /\ UNCHANGED <<version, excludes, deferred, broken, settings>>

Unwatch(r) ==
    /\ rpc[r] = "held" /\ Quiet
    /\ rpc' = [rpc EXCEPT ![r] = "gone"]
    /\ LET p == PathOf[r]
           c == collection[p]
       IN
       IF c.n = held[r]
       THEN /\ native' = native \ {w \in Of(p, c.ver) : w[3] = "file" \/ c.tree}
            /\ handlers' = handlers \ {<<p, held[r]>>}
            /\ collection' = [collection EXCEPT ![p] = None]
       ELSE UNCHANGED <<native, handlers, collection>>
    /\ UNCHANGED <<version, seq, pending, excludes, deferred, tasks, held,
                   broken, overtaken, settings>>

\* Unchanged exclusions are skipped, whatever is put off.
ResetAnyway == TRUE  \* a mutant: does not look for pending watches
NonePending == \A p \in Paths : pending[p] = None
Queued(v) == deferred \cup {v}  \* a mutant
Deferred(v) == {v}

SetExcludes(v) ==
    /\ sets < MaxSettings /\ Quiet
    /\ sets' = sets + 1 /\ v <= sets'
    /\ last' = IF v = excludes THEN last ELSE v
    /\ CASE v = excludes ->
              UNCHANGED <<server, tasks, native>>
         [] v # excludes /\ ~NonePending ->
              /\ deferred' = Deferred(v)
              /\ UNCHANGED <<version, seq, handlers, pending, collection,
                             excludes, tasks, native>>
         [] v # excludes /\ NonePending ->
              /\ excludes' = v
              /\ Reset(ForNobody, native, tasks)
              /\ UNCHANGED deferred
    /\ UNCHANGED <<client, broken, overtaken>>

Init ==
    /\ version = 0 /\ seq = [p \in Paths |-> 0] /\ handlers = {}
    /\ pending = [p \in Paths |-> None] /\ collection = [p \in Paths |-> None]
    /\ excludes = 0 /\ deferred = {} /\ tasks = {} /\ native = {}
    /\ rpc = [r \in Requests |-> "idle"] /\ held = [r \in Requests |-> 0]
    /\ broken = {} /\ overtaken = {}
    /\ last = 0 /\ sets = 0

Continue ==
    \/ \E t \in tasks, how \in {"up", "empty", "failed"} : FileEnds(t, how)
    \/ \E w \in native, up \in BOOLEAN : TreeEnds(w, up)
    \/ \E t \in tasks : TreeTimesOut(t) \/ ResetDone(t)

Next == \/ \E r \in Requests : Watch(r) \/ Unwatch(r)
        \/ \E v \in Settings : SetExcludes(v)
        \/ Continue

Spec == Init /\ [][Next]_vars

\* The native watchers answer, or the minute passes.
FairSpec == Spec /\ WF_vars(Continue)

-----------------------------------------------------------------------------
(* Properties                                                              *)

Entries == [n : Nat, ver : Nat, tree : BOOLEAN]
Values == Settings \cup {0}
Kinds == {"file", "tree", "opening"}

\* The types of the state.
TypeOK ==
    /\ version \in Nat /\ seq \in [Paths -> Nat]
    /\ handlers \subseteq Paths \X Nat
    /\ pending \in [Paths -> Entries] /\ collection \in [Paths -> Entries]
    /\ excludes \in Values /\ deferred \subseteq Values
    /\ Cardinality(deferred) <= 1
    /\ \A t \in tasks :
          /\ t.path \in Paths /\ t.n \in 1..seq[t.path] /\ t.ver \in 0..version
          /\ t.retry \in {0, 1} /\ t.stage \in {"starting", "resetting"}
          /\ t.file \in {"starting", "up", "failed"}
          /\ t.tree \in {"none", "starting", "up", "failed"}
    /\ native \subseteq Paths \X (0..version) \X Kinds
    /\ rpc \in [Requests -> {"idle", "waiting", "held", "failed", "gone"}]
    /\ held \in [Requests -> Nat] /\ broken \cup overtaken \subseteq Paths
    /\ last \in Values /\ sets \in 0..MaxSettings

Live == {w \in native : w[3] # "opening"}

\* The native watchers are only replaced while no watch awaits a start on them,
\* and nothing is ever watched by watchers that were replaced: not even by a
\* recursive start that its doWatch left behind, when it rejected or gave up, and
\* that came up after the change.
StartsAreCurrent ==
    /\ \A t \in tasks : t.stage = "starting" => t.ver = version
    /\ \A w \in Live : w[2] = version

Idle == tasks = {}

\* What is watched once all starts are over is recorded with a handler and on the
\* current watchers, so that the next reset or unwatch finds it: unless a native
\* watch of the path did not come up, or its record is that of a start overtaken
\* twice, which is not retried again and overwrites what was recorded.
LiveIsCollected ==
    Idle => \A w \in Live : w[1] \notin broken \cup overtaken =>
        /\ collection[w[1]].ver = version
        /\ <<w[1], collection[w[1]].n>> \in handlers
        /\ w[3] = "tree" => collection[w[1]].tree

\* When all starts are over the newest exclusions are in force: what is put off
\* is replaced by a newer change and applied once.  (Setting the exclusions that
\* are in force is skipped and does not cancel what was put off.)
NewestExcludesApply == Idle => excludes = last

Released(p) == \E r \in Requests : PathOf[r] = p /\ rpc[r] = "gone"

\* A request that holds an id has its path watched, recursively if asked for:
\* unless another request for the path released the id they share, a native watch
\* of the path did not come up, or its start was overtaken twice.
HolderIsServed ==
    Idle => \A r \in Requests : LET p == PathOf[r] IN
        rpc[r] = "held" /\ ~Released(p) /\ p \notin broken \cup overtaken =>
            /\ <<p, version, "file">> \in native
            /\ p \in Trees => <<p, version, "tree">> \in native

\* Across any number of changes of the exclusions, a path whose id is held is
\* watched by the current watchers, and what is watched is recorded where the
\* next reset or unwatch looks for it.
HeldIsWatched == HolderIsServed /\ LiveIsCollected

\* A path is watched only while some request holds it.
UnwatchedIsGone ==
    Idle => \A w \in Live : \E r \in Requests : PathOf[r] = w[1] /\ rpc[r] = "held"

\* Every $watch is answered: whatever happens, a time comes at which none waits.
WatchSettles == []<>(\A r \in Requests : rpc[r] # "waiting")
=============================================================================
