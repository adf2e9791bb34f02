---------------------------- MODULE WatchSession ----------------------------
(***************************************************************************)
(* One Watch RPC of the Go Workspace Agent: the native backend goroutine   *)
(* (fsnotify or FSEvents) that feeds a bounded queue and never blocks, and *)
(* the runWatch loop that drains the queue, coalesces changes by path and  *)
(* flushes a batch to a gRPC stream that may be slow.                      *)
(*                                                                         *)
(* Source: src/go/workspace-agent/internal/agent/watcher.go,               *)
(*         watch_backend.go, watch_backend_fsnotify.go,                    *)
(*         watch_backend_darwin.go.                                        *)
(*                                                                         *)
(* A path is a model value; the clean / pathWithin / recursive / exclude   *)
(* tests of the loop are the one question "is the path Watched?".          *)
(***************************************************************************)
EXTENDS Integers, Sequences, FiniteSets

CONSTANTS
    Paths,             \* paths the operating system reports events for
    Watched,           \* those that pass the filters of the loop
    ChangeTypes,       \* added, updated, deleted
    ChangeBytes,       \* watchChangeBytes of every path
    QueueLimit,        \* watchBackendEventQueueLimit (256 in the code)
    ErrorLimit,        \* capacity of the errors channel (8, fsnotify)
    PendingLimit,      \* watchPendingLimit (4096 in the code)
    PendingByteLimit,  \* watchPendingByteLimit (1 MiB in the code)
    MaxEvents,         \* bound: native events, markers and errors produced
    NoChange           \* "nothing reported yet"

ASSUME PathsAssumption == IsFiniteSet(Paths) /\ Watched \subseteq Paths
ASSUME BytesAssumption == ChangeBytes \in [Paths -> Nat]
ASSUME LimitsAssumption ==
    /\ QueueLimit \in Nat \ {0} /\ ErrorLimit \in Nat
    /\ PendingLimit \in Nat \ {0} /\ PendingByteLimit \in Nat
    /\ MaxEvents \in Nat
ASSUME NoChangeAssumption == NoChange \notin ChangeTypes

VARIABLES
    queue,         \* watchEventQueue.events, the buffered channel
    qdropped,      \* watchEventQueue.dropped, the atomic counter
    errors,        \* number of errors buffered in the errors channel
    pc,            \* runWatch: announcing, select, sending, ended
    outbox,        \* the frame a stream.Send call is delivering
    pending,       \* runWatch's coalescing map, path -> last change type
    pendingBytes,
    dropped,       \* runWatch's local counter
    produced,      \* how many native events were produced (bounds the model)
    \* What the client has been told, and, for the properties only, what the
    \* operating system reported and what became of a lost event.
    view,          \* last change the client received, per path
    reported,      \* sum of the event counts of the overflow frames received
    lastRaw,       \* last native event, per path
    lost,          \* number of events given up so far
    loss           \* what became of the last native event of each path

sessionVars == <<pc, outbox, pending, pendingBytes, dropped>>
backendVars == <<queue, qdropped, errors, produced>>
historyVars == <<view, reported, lastRaw, lost, loss>>
vars == <<sessionVars, backendVars, historyVars>>

Marker == [kind |-> "overflow"]
Change(p, t) == [kind |-> "change", path |-> p, type |-> t]
Event == {Marker} \cup
         [kind : {"change"}, path : Paths, type : ChangeTypes]

NoChanges == [p \in {} |-> NoChange]
ReadyFrame   == [changes |-> NoChanges, overflow |-> 0, kind |-> "ready"]
FailureFrame == [changes |-> NoChanges, overflow |-> 0, kind |-> "failure"]
BatchFrame(changes, count) ==
    [changes |-> changes, overflow |-> count, kind |-> "batch"]

Losses == {"none", "native", "counted", "framed", "told"}

-----------------------------------------------------------------------------
(* The backend goroutine                                                   *)

\* A full queue counts the event instead of blocking the native callback.
QueueSend(e) ==
    IF Len(queue) < QueueLimit
    THEN queue' = Append(queue, e) /\ UNCHANGED qdropped
    ELSE qdropped' = qdropped + 1 /\ UNCHANGED queue

BackendRuns == pc # "ended" /\ produced < MaxEvents

NativeChange(p, t) ==
    /\ BackendRuns
    /\ produced' = produced + 1
    /\ QueueSend(Change(p, t))
    /\ lastRaw' = [lastRaw EXCEPT ![p] = t]
    /\ IF Len(queue) < QueueLimit
       THEN loss' = [loss EXCEPT ![p] = "none"] /\ UNCHANGED lost
       ELSE loss' = [loss EXCEPT ![p] = "counted"] /\ lost' = lost + 1
    /\ UNCHANGED <<sessionVars, errors, view, reported>>

\* MustScanSubDirs: the kernel gave up on events of the watched tree.
NativeOverflow ==
    /\ BackendRuns
    /\ produced' = produced + 1
    /\ QueueSend(Marker)
    /\ lost' = lost + 1
    /\ loss' = [p \in Paths |->
                  IF Len(queue) < QueueLimit THEN "native" ELSE "counted"]
    /\ UNCHANGED <<sessionVars, errors, view, reported, lastRaw>>

\* reportError: a full errors channel turns the error into a dropped event.
NativeError ==
    /\ BackendRuns
    /\ produced' = produced + 1
    /\ IF errors < ErrorLimit
       THEN errors' = errors + 1 /\ UNCHANGED <<qdropped, lost>>
       ELSE qdropped' = qdropped + 1 /\ lost' = lost + 1 /\ UNCHANGED errors
    /\ UNCHANGED <<sessionVars, queue, view, reported, lastRaw, loss>>

-----------------------------------------------------------------------------
(* The runWatch loop                                                       *)

\* A mutant: one entry more than the limit.
LimitOffByOne(p) == Cardinality(DOMAIN pending) > PendingLimit

WouldOverflow(p) ==
    \/ Cardinality(DOMAIN pending) >= PendingLimit
    \/ ChangeBytes[p] > PendingByteLimit
    \/ pendingBytes + ChangeBytes[p] > PendingByteLimit

InQueue(p, q) == \E i \in DOMAIN q : q[i].kind = "change" /\ q[i].path = p
MarkerInQueue(q) == \E i \in DOMAIN q : q[i].kind = "overflow"

\* case event.overflow
ReceiveMarker ==
    /\ pc = "select" /\ queue # <<>> /\ Head(queue) = Marker
    /\ queue' = Tail(queue)
    /\ dropped' = dropped + 1
    /\ loss' = [p \in Paths |->
                  IF loss[p] = "native" /\ ~MarkerInQueue(Tail(queue))
                  THEN "counted" ELSE loss[p]]
    /\ UNCHANGED <<pc, outbox, pending, pendingBytes, qdropped, errors,
                   produced, view, reported, lastRaw, lost>>

\* A change of a path that is already pending replaces its type.
KeepFirst(p, t) == pending  \* a mutant
Coalesced(p, t) == [pending EXCEPT ![p] = t]

\* The event is stored, coalesced with one of the same path, or, past a limit,
\* counted as dropped; one for an unwatched path is ignored.
Store(p, t) ==
    CASE p \notin Watched ->
            UNCHANGED <<pending, pendingBytes, dropped, lost, loss>>
      [] p \in Watched /\ p \in DOMAIN pending ->
            /\ pending' = Coalesced(p, t)
            /\ UNCHANGED <<pendingBytes, dropped, lost, loss>>
      [] p \in Watched /\ p \notin DOMAIN pending /\ WouldOverflow(p) ->
            /\ dropped' = dropped + 1
            /\ lost' = lost + 1
            /\ loss' = IF loss[p] = "none" /\ ~InQueue(p, Tail(queue))
                       THEN [loss EXCEPT ![p] = "counted"] ELSE loss
            /\ UNCHANGED <<pending, pendingBytes>>
      [] OTHER ->
            /\ pending' = [q \in DOMAIN pending \cup {p} |->
                             IF q = p THEN t ELSE pending[q]]
            /\ pendingBytes' = pendingBytes + ChangeBytes[p]
            /\ UNCHANGED <<dropped, lost, loss>>

ReceiveChange ==
    /\ pc = "select" /\ queue # <<>> /\ Head(queue).kind = "change"
    /\ queue' = Tail(queue)
    /\ Store(Head(queue).path, Head(queue).type)
    /\ UNCHANGED <<pc, outbox, qdropped, errors, produced, view, reported,
                   lastRaw>>

ReceiveError ==
    /\ pc = "select" /\ errors > 0
    /\ errors' = errors - 1
    /\ pc' = "sending" /\ outbox' = FailureFrame
    /\ UNCHANGED <<pending, pendingBytes, dropped, queue, qdropped, produced,
                   historyVars>>

\* There is something to send.
IgnoreLosses == DOMAIN pending # {}  \* a mutant
FlushDue == DOMAIN pending # {} \/ dropped + qdropped > 0

\* dropped += watcher.TakeOverflow()
LoopCountOnly == dropped  \* a mutant: the swapped counter is thrown away
CountSinceLast == dropped + qdropped - reported  \* a mutant: a delta is sent
OverflowCount == dropped + qdropped

\* The ticker fired: TakeOverflow swaps the atomic counter with zero.
Flush ==
    /\ pc = "select"
    /\ FlushDue
    /\ outbox' = BatchFrame(pending, OverflowCount)
    /\ pc' = "sending"
    /\ pending' = NoChanges /\ pendingBytes' = 0
    /\ dropped' = 0 /\ qdropped' = 0
    /\ loss' = [p \in Paths |->
                  IF loss[p] = "counted" THEN "framed" ELSE loss[p]]
    /\ UNCHANGED <<queue, errors, produced, view, reported, lastRaw, lost>>

\* stream.Send returned: the client has the frame.
SendReturns ==
    /\ pc \in {"announcing", "sending"}
    /\ pc' = "select"
    /\ outbox' = ReadyFrame
    /\ view' = [p \in Paths |-> IF p \in DOMAIN outbox.changes
                                THEN outbox.changes[p] ELSE view[p]]
    /\ reported' = reported + outbox.overflow
    /\ loss' = [p \in Paths |->
                  IF loss[p] = "framed" THEN "told" ELSE loss[p]]
    /\ UNCHANGED <<pending, pendingBytes, dropped, backendVars, lastRaw, lost>>

\* stream.Send failed, or the select saw the stream's context done; the
\* deferred Close stops the backend.
SessionEnds ==
    /\ pc # "ended"
    /\ pc' = "ended"
    /\ UNCHANGED <<outbox, pending, pendingBytes, dropped, backendVars,
                   historyVars>>

-----------------------------------------------------------------------------
Init ==
    /\ queue = <<>> /\ qdropped = 0 /\ errors = 0 /\ produced = 0
    /\ pc = "announcing" /\ outbox = ReadyFrame
    /\ pending = NoChanges /\ pendingBytes = 0 /\ dropped = 0
    /\ view = [p \in Paths |-> NoChange]
    /\ lastRaw = [p \in Paths |-> NoChange]
    /\ reported = 0 /\ lost = 0
    /\ loss = [p \in Paths |-> "none"]

Backend == \/ \E p \in Paths, t \in ChangeTypes : NativeChange(p, t)
           \/ NativeOverflow
           \/ NativeError

Next == \/ Backend
        \/ ReceiveMarker \/ ReceiveChange \/ ReceiveError \/ Flush
        \/ SendReturns \/ SessionEnds

Spec == Init /\ [][Next]_vars

\* The Go scheduler runs the loop and gRPC delivers or fails a frame. select
\* picks at random among its ready cases, so a case that is ready again and
\* again is picked in the end: strong fairness for each of them.
Fairness ==
    /\ SF_vars(ReceiveMarker) /\ SF_vars(ReceiveChange)
    /\ SF_vars(ReceiveError) /\ SF_vars(Flush)
    /\ WF_vars(SendReturns)

FairSpec == Spec /\ Fairness

-----------------------------------------------------------------------------
(* Properties                                                              *)

Frame == [changes : UNION {[S -> ChangeTypes] : S \in SUBSET Paths},
          overflow : Nat, kind : {"ready", "failure", "batch"}]

\* The types of the state.
TypeOK ==
    /\ queue \in Seq(Event) /\ qdropped \in Nat /\ errors \in Nat
    /\ produced \in Nat
    /\ pc \in {"announcing", "select", "sending", "ended"}
    /\ outbox \in Frame
    /\ pending \in UNION {[S -> ChangeTypes] : S \in SUBSET Watched}
    /\ pendingBytes \in Nat /\ dropped \in Nat
    /\ view \in [Paths -> ChangeTypes \cup {NoChange}]
    /\ lastRaw \in [Paths -> ChangeTypes \cup {NoChange}]
    /\ reported \in Nat /\ lost \in Nat
    /\ loss \in [Paths -> Losses]

\* The newest change of a path that is still on its way to the client, or, when
\* there is none, what the client has.
LastInQueue(p, q, t) ==
    \E i \in DOMAIN q :
        /\ q[i].kind = "change" /\ q[i].path = p /\ q[i].type = t
        /\ \A j \in DOMAIN q :
              j > i => ~(q[j].kind = "change" /\ q[j].path = p)

NewestIs(p, t) ==
    IF InQueue(p, queue) THEN LastInQueue(p, queue, t)
    ELSE IF p \in DOMAIN pending THEN pending[p] = t
    ELSE IF pc # "select" /\ p \in DOMAIN outbox.changes
         THEN outbox.changes[p] = t
    ELSE view[p] = t

\* Coalescing keeps the last change: for every watched path whose last native
\* event was not given up, the newest change between the queue, the pending
\* map, the frame being sent and the client is that event (pending map and
\* queue order of runWatch).
NewestChangeWins ==
    \A p \in Watched : loss[p] = "none" => NewestIs(p, lastRaw[p])

\* An event is never lost silently: as long as a client has not been told, a
\* given-up event is represented by a marker in the queue, by one of the two
\* counters, or by the overflow count of the frame being sent.
NoSilentLoss ==
    /\ (\E p \in Paths : loss[p] = "native") => MarkerInQueue(queue)
    /\ (\E p \in Paths : loss[p] = "counted") => dropped + qdropped > 0
    /\ (\E p \in Paths : loss[p] = "framed") =>
          pc = "ended" \/ (pc = "sending" /\ outbox.overflow > 0)

Markers(q) == Cardinality({i \in DOMAIN q : q[i].kind = "overflow"})

\* The event counts the client receives add up to exactly the events given up:
\* none is reported twice, none is forgotten by TakeOverflow's swap.
OverflowCountExact ==
    lost = reported + outbox.overflow + dropped + qdropped + Markers(queue)

\* The pending batch stays within both limits and pendingBytes is the sum over
\* its keys, whatever was coalesced or dropped before.
BytesOf(S) == Cardinality(UNION {{p} \X (1..ChangeBytes[p]) : p \in S})
PendingBounded ==
    /\ Len(queue) <= QueueLimit
    /\ Cardinality(DOMAIN pending) <= PendingLimit
    /\ pendingBytes <= PendingByteLimit
    /\ pendingBytes = BytesOf(DOMAIN pending)

\* What runWatch counts is exact: the overflow it reports and the bytes and
\* entries by which it decides to give an event up.
CountersExact == OverflowCountExact /\ PendingBounded

\* For every watched path, either the last native event reaches the client or
\* it is told of an overflow, unless the session ends.
ViewsCatchUp ==
    \A p \in Watched :
        (view[p] # lastRaw[p]) ~>
            (view[p] = lastRaw[p] \/ loss[p] = "told" \/ pc = "ended")

\* Every given-up event is reported in the end, unless the session ends.
LossIsReported == (lost > reported) ~> (lost = reported \/ pc = "ended")

\* The client ends up with the truth or knows that it does not have it, and
\* with the exact number of events it was not told.
ClientCatchesUp == ViewsCatchUp /\ LossIsReported
=============================================================================
