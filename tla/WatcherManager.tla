--------------------------- MODULE WatcherManager ---------------------------
(***************************************************************************)
(* One client's file watches: they run on streams of the Workspace Agent   *)
(* until one of those fails, then all of them move, once and for good, to  *)
(* a forked watcher process.  Watches, unwatches, exclusion changes, the   *)
(* fallback and dispose() interleave at every await.                       *)
(*                                                                         *)
(* Source: src/packages/file-service/src/node/watcher-process-manager.ts,  *)
(* from the state createProcess leaves when the Agent is enabled and up;   *)
(* the stream of a watch from workspace-agent.ts, watch().                 *)
(*                                                                         *)
(* Every call first awaits whenReady; "calls" holds the continuations in   *)
(* the order they were registered.  A continuation whose promise is        *)
(* settled runs before any other event (Quiet).  Each watch has a root of  *)
(* its own, so no two share a stream.  The watcher process is the program  *)
(* at the other end of an ordered connection: here what it records and     *)
(* answers, in WatcherHost how it watches.                                 *)
(***************************************************************************)
EXTENDS Integers, Sequences

CONSTANTS
    Watches,      \* the watch() calls the client makes
    MaxExcludes,  \* bound: changes of the exclusions by the client
    CanDispose,   \* may the client leave?
    Faults        \* what fails: "stream" (a stream), "agent" (no runtime for a
                  \* new stream), "listen" (the socket of the watcher process),
                  \* "start" (a native watch), "exit" (the watcher process)

ASSUME WatcherManagerAssumption ==
    /\ MaxExcludes \in Nat /\ CanDispose \in BOOLEAN
    /\ Faults \subseteq {"stream", "agent", "listen", "start", "exit"}

VARIABLES
    \* Fields of WatcherProcessManagerImpl.
    runtime,        \* watcherRuntime
    ready,          \* is _whenReadyDeferred resolved?
    tracked,        \* keys of workspaceAgentWatches
    gen, handle,    \* generation and handle (0 or the generation it was opened
    node,           \*   for) of each state; is nodeWatchId defined?
    agentExcludes,  \* workspaceAgentDefaultExcludes, as a version number
    known,          \* is the server in clientWatcherConnectionServer?
    \* Where the asynchronous functions are.
    calls,          \* continuations on whenReady
    wpc,            \* each watch() and the unWatch() of its result
    opens,          \* openWorkspaceAgentWatch calls
    fpc, restoring, \* fallbackWorkspaceAgentWatcher, the $watch it awaits
    dpc,            \* dispose()
    \* Outside: agent streams, the watcher process and the connection to it.
    subs,           \* subscribed streams
    server, child, connected,
    toNode, answers,
    nodeWatches, nodeExcludes,  \* watcherCollection, the exclusions in force
    starting, retried,          \* watches that start, those that start again
    putOff,                     \* deferredExcludes, at most one
    \* The client.
    lastExcludes,   \* version of the last exclusions it set
    \* History: watches an Agent was refused to, watches released while the
    \* fallback's $watch for them was not answered, watches recorded under an id
    \* that no answer gave, those a reset could not watch again.
    refused, missed, renumbered, lost

waiting == <<calls, wpc>>
agent == <<tracked, gen, handle, agentExcludes, opens, subs>>
process == <<server, known, child, connected>>
wire == <<toNode, answers>>
recorded == <<nodeWatches, starting, retried, putOff>>
host == <<recorded, nodeExcludes, renumbered, lost>>
fallback == <<runtime, fpc, restoring>>
rest == <<lastExcludes, refused, missed>>
vars == <<fallback, ready, node, waiting, agent, process, wire, host, dpc,
          rest>>

Call(op, arg) == [op |-> op, arg |-> arg]
Stream(w, g, ex) == [watch |-> w, gen |-> g, ex |-> ex]
Opening(w, g, ex, by) == [stream |-> Stream(w, g, ex), by |-> by,
                          stage |-> "starting"]

FallbackSettled == fpc \in {"done", "failed", "partial"}
Quiet == /\ ready => calls = <<>>
         /\ FallbackSettled => \A w \in Watches : wpc[w] # "waiting"
SendToNode(msgs) == toNode' = toNode \o msgs

-----------------------------------------------------------------------------
(* Agent streams                                                           *)

\* A callback or result belongs to the state it was requested for.
AnyGeneration(s) == runtime # "agent"  \* a mutant
Stale(s) == gen[s.watch] # s.gen \/ runtime # "agent"

\* The handle's dispose(); a second one finds no subscriber.
Released(w) == {s \in subs : s.watch = w /\ s.gen = handle[w]}

\* workspaceAgent.watch found a runtime: the stream is open, its handle comes
\* with the first event.
Subscribe(o) ==
    /\ Quiet /\ o.stage = "starting"
    /\ opens' = (opens \ {o}) \cup {[o EXCEPT !.stage = "subscribed"]}
    /\ subs' = subs \cup {o.stream}
    /\ UNCHANGED <<fallback, ready, node, waiting, tracked, gen, handle,
                   agentExcludes, process, wire, host, dpc, rest>>

\* watch() returns its id also for a stream that was outdated meanwhile.
Opened(o) ==
    /\ Quiet /\ o.stage = "subscribed"
    /\ opens' = opens \ {o}
    /\ IF Stale(o.stream)
       THEN subs' = subs \ {o.stream} /\ UNCHANGED handle
       ELSE /\ handle' = [handle EXCEPT ![o.stream.watch] = o.stream.gen]
            /\ UNCHANGED subs
    /\ wpc' = IF o.by = "watch" THEN [wpc EXCEPT ![o.stream.watch] = "held"]
                                ELSE wpc
    /\ UNCHANGED <<fallback, ready, node, calls, tracked, gen, agentExcludes,
                   process, wire, host, dpc, rest>>

\* A rejected open fails the watch() it belongs to, whose state stays in the
\* map; for a setWatcherFileExcludes nobody looks at the rejection.
OpenRejected(o) ==
    /\ opens' = opens \ {o}
    /\ wpc' = IF o.by = "watch" THEN [wpc EXCEPT ![o.stream.watch] = "failed"]
                                ELSE wpc

\* ensureStarted rejected.
AgentUnavailable(o) ==
    /\ "agent" \in Faults /\ Quiet /\ o.stage = "starting"
    /\ OpenRejected(o)
    /\ refused' = refused \cup {o.stream.watch}
    /\ UNCHANGED <<fallback, ready, node, calls, tracked, gen, handle,
                   agentExcludes, subs, process, wire, host, dpc, lastExcludes,
                   missed>>

\* The synchronous part of fallbackWorkspaceAgentWatcher: invalidate every
\* state, dispose its handle, renew whenReady.
FallBack(s) ==
    /\ runtime' = "fallback" /\ fpc' = "path" /\ ready' = FALSE
    /\ gen' = [w \in Watches |-> IF w \in tracked THEN gen[w] + 1 ELSE gen[w]]
    /\ handle' = [w \in Watches |-> IF w \in tracked THEN 0 ELSE handle[w]]
    /\ subs' = subs \ ({s} \cup UNION {Released(w) : w \in tracked})

\* The stream fails or ends: onError (or onEnd) is called, and an open that
\* waits for the first event rejects.
StreamFails(s) ==
    /\ "stream" \in Faults /\ Quiet
    /\ IF Stale(s)
       THEN subs' = subs \ {s} /\ UNCHANGED <<runtime, fpc, ready, gen, handle>>
       ELSE FallBack(s)
    /\ IF \E o \in opens : o.stream = s
       THEN \E o \in opens : o.stream = s /\ OpenRejected(o)
       ELSE UNCHANGED <<opens, wpc>>
    /\ UNCHANGED <<node, calls, tracked, agentExcludes, restoring, process,
                   wire, host, dpc, rest>>

-----------------------------------------------------------------------------
(* The client's calls, up to whenReady                                     *)

CallWatch(w) ==
    /\ Quiet /\ wpc[w] = "idle" /\ dpc = "none"
    /\ wpc' = [wpc EXCEPT ![w] = "queued"]
    /\ calls' = Append(calls, Call("watch", w))
    /\ UNCHANGED <<fallback, ready, node, agent, process, wire, host, dpc,
                   rest>>

CallUnwatch(w) ==
    /\ Quiet /\ wpc[w] = "held" /\ dpc = "none"
    /\ wpc' = [wpc EXCEPT ![w] = "releasing"]
    /\ calls' = Append(calls, Call("unwatch", w))
    /\ UNCHANGED <<fallback, ready, node, agent, process, wire, host, dpc,
                   rest>>

CallExcludes ==
    /\ Quiet /\ lastExcludes < MaxExcludes /\ dpc = "none"
    /\ lastExcludes' = lastExcludes + 1
    /\ calls' = Append(calls, Call("excludes", lastExcludes + 1))
    /\ UNCHANGED <<fallback, ready, node, wpc, agent, process, wire, host, dpc,
                   refused, missed>>

-----------------------------------------------------------------------------
(* ... and from there on                                                   *)

Resumes(op) == ready /\ calls # <<>> /\ Head(calls).op = op
Argument == Head(calls).arg

ResumeWatch ==
    /\ Resumes("watch")
    /\ calls' = Tail(calls)
    /\ LET w == Argument IN
       IF runtime = "agent"
       THEN /\ tracked' = tracked \cup {w}
            /\ gen' = [gen EXCEPT ![w] = @ + 1]
            /\ opens' = opens \cup
                  {Opening(w, gen[w] + 1, agentExcludes, "watch")}
            /\ wpc' = [wpc EXCEPT ![w] = "opening"]
       ELSE /\ wpc' = [wpc EXCEPT ![w] = "waiting"]
            /\ UNCHANGED <<tracked, gen, opens>>
    /\ UNCHANGED <<fallback, ready, node, handle, agentExcludes, subs, process,
                   wire, host, dpc, rest>>

\* await this.workspaceAgentFallback, then ask the watcher process.
FallbackAwaited(w) ==
    /\ wpc[w] = "waiting" /\ FallbackSettled
    /\ IF fpc = "done" /\ connected
       THEN /\ SendToNode(<<Call("watch", {w})>>)
            /\ wpc' = [wpc EXCEPT ![w] = "asking"]
       ELSE wpc' = [wpc EXCEPT ![w] = "failed"] /\ UNCHANGED toNode
    /\ UNCHANGED <<fallback, ready, node, calls, agent, process, answers, host,
                   dpc, rest>>

\* The nodeWatchId of a watch whose $watch is not answered is not known yet.
\* Without a connection the call rejects, its state stays in the map.
ResumeUnwatch ==
    /\ Resumes("unwatch")
    /\ calls' = Tail(calls)
    /\ missed' = missed \cup ({Argument} \cap restoring)
    /\ LET w == Argument IN
       IF w \notin tracked
       THEN /\ wpc' = [wpc EXCEPT ![w] = "gone"]
            /\ UNCHANGED <<tracked, gen, subs, toNode>>
       ELSE /\ gen' = [gen EXCEPT ![w] = @ + 1]
            /\ subs' = subs \ Released(w)
            /\ IF ~node[w]
               THEN /\ tracked' = tracked \ {w}
                    /\ wpc' = [wpc EXCEPT ![w] = "gone"]
                    /\ UNCHANGED toNode
               ELSE /\ IF connected
                       THEN /\ SendToNode(<<Call("unwatch", {w})>>)
                            /\ wpc' = [wpc EXCEPT ![w] = "removing"]
                       ELSE wpc' = [wpc EXCEPT ![w] = "failed"] /\ UNCHANGED toNode
                    /\ UNCHANGED tracked
    /\ UNCHANGED <<fallback, ready, node, handle, agentExcludes, opens, process,
                   answers, host, dpc, lastExcludes, refused>>

\* Every stream is closed and opened again; the watcher process is told.
ReopenedFirst ==  \* a mutant: opens before it takes the new exclusions over
    {Opening(w, gen[w] + 2, agentExcludes, "excludes") : w \in tracked}
Reopened == {Opening(w, gen[w] + 2, Argument, "excludes") : w \in tracked}

ResumeExcludes ==
    /\ Resumes("excludes")
    /\ calls' = Tail(calls)
    /\ IF runtime = "agent"
       THEN /\ agentExcludes' = Argument
            /\ gen' = [w \in Watches |->
                          IF w \in tracked THEN gen[w] + 2 ELSE gen[w]]
            /\ subs' = subs \ UNION {Released(w) : w \in tracked}
            /\ opens' = opens \cup Reopened
            /\ UNCHANGED toNode
       ELSE /\ IF connected THEN SendToNode(<<Call("excludes", Argument)>>)
                            ELSE UNCHANGED toNode
            /\ UNCHANGED <<agentExcludes, gen, subs, opens>>
    /\ UNCHANGED <<fallback, ready, node, wpc, tracked, handle, process,
                   answers, host, dpc, rest>>

-----------------------------------------------------------------------------
(* The fallback                                                            *)

\* getIPCHandlerPath resolved: createServer, listen.
ServerCreated ==
    /\ fpc = "path" /\ Quiet
    /\ fpc' = "listening"
    /\ server' = "starting" /\ known' = TRUE
    /\ UNCHANGED <<runtime, restoring, ready, node, waiting, agent, child,
                   connected, wire, host, dpc, rest>>

\* The server listens, the process is forked, whenReady awaited.
Forked ==
    /\ fpc = "listening" /\ Quiet
    /\ fpc' = "connecting"
    /\ server' = "listening" /\ child' = "started"
    /\ calls' = Append(calls, Call("fallback", 0))
    /\ UNCHANGED <<runtime, restoring, ready, node, wpc, agent, known,
                   connected, wire, host, dpc, rest>>

ListenFails ==
    /\ "listen" \in Faults /\ fpc = "listening" /\ Quiet
    /\ fpc' = "failed"
    /\ server' = "none" /\ known' = FALSE
    /\ UNCHANGED <<runtime, restoring, ready, node, waiting, agent, child,
                   connected, wire, host, dpc, rest>>

\* setProxyConnection.
Unresolved == FALSE  \* a mutant: whenReady was read before it was renewed
ReadyOnConnection == TRUE

Connects ==
    /\ child = "started" /\ server = "listening" /\ Quiet
    /\ child' = "running" /\ connected' = TRUE
    /\ ready' = ReadyOnConnection
    /\ UNCHANGED <<fallback, node, waiting, agent, known, server, wire, host,
                   dpc, rest>>

\* The exclusions go first.
ResumeFallback ==
    /\ Resumes("fallback")
    /\ calls' = Tail(calls)
    /\ IF connected
       THEN /\ SendToNode(<<Call("initial", agentExcludes)>>)
            /\ fpc' = "excluding"
       ELSE fpc' = "failed" /\ UNCHANGED toNode
    /\ UNCHANGED <<runtime, restoring, ready, node, wpc, agent, process,
                   answers, host, dpc, rest>>

\* Then every state in the map is watched again, all at once.
OnlyWithHandle == {w \in tracked : handle[w] # 0}  \* a mutant
NoneLost == tracked

ExcludesAnswered ==
    /\ Quiet /\ fpc = "excluding" /\ Call("initial", 0) \in answers
    /\ answers' = answers \ {Call("initial", 0)}
    /\ restoring' = NoneLost
    /\ IF NoneLost = {}
       THEN fpc' = "done" /\ UNCHANGED toNode
       ELSE fpc' = "restoring" /\ SendToNode(<<Call("watch", NoneLost)>>)
    /\ UNCHANGED <<runtime, ready, node, waiting, agent, process, host, dpc,
                   rest>>

\* A $watch of the fallback is answered: the id is kept even if the state has
\* left the map.
Restored(w) ==
    /\ Quiet /\ w \in restoring /\ Call("watch", w) \in answers
    /\ answers' = answers \ {Call("watch", w)}
    /\ node' = [node EXCEPT ![w] = TRUE]
    /\ restoring' = restoring \ {w}
    /\ fpc' = IF restoring = {w} /\ fpc = "restoring" THEN "done" ELSE fpc
    /\ UNCHANGED <<runtime, ready, waiting, agent, process, toNode, host, dpc,
                   rest>>

\* One that rejects fails the fallback; the others are still answered.
RestoreRejected(w) ==
    /\ Quiet /\ w \in restoring /\ Call("rejected", w) \in answers
    /\ answers' = answers \ {Call("rejected", w)}
    /\ restoring' = restoring \ {w}
    /\ fpc' = "partial"
    /\ UNCHANGED <<runtime, ready, node, waiting, agent, process, toNode, host,
                   dpc, rest>>

-----------------------------------------------------------------------------
(* The watcher process                                                     *)

\* A reset watches everything recorded anew, each under a new id that stays in
\* the process; what a client was told is an id of nothing from then on.
Reset(v) ==
    nodeExcludes' = v /\ putOff' = {} /\ renumbered' = renumbered \cup nodeWatches

\* Exclusions in force are skipped; while a watch starts the change is put off.
SetExcludes(v) ==
    IF v = nodeExcludes THEN UNCHANGED <<nodeExcludes, putOff, renumbered>>
    ELSE IF starting = {} THEN Reset(v)
    ELSE putOff' = {v} /\ UNCHANGED <<nodeExcludes, renumbered>>

NodeHandles ==
    /\ Quiet /\ child = "running" /\ toNode # <<>>
    /\ toNode' = Tail(toNode)
    /\ LET m == Head(toNode) IN
       CASE m.op = "watch" ->
              /\ starting' = starting \cup m.arg
              /\ UNCHANGED <<answers, nodeWatches, nodeExcludes, putOff,
                             renumbered>>
         [] m.op = "unwatch" ->
              /\ nodeWatches' = nodeWatches \ (m.arg \ renumbered)
              /\ answers' = answers \cup {Call("unwatch", w) : w \in m.arg}
              /\ UNCHANGED <<nodeExcludes, starting, putOff, renumbered>>
         [] m.op = "initial" ->
              /\ SetExcludes(m.arg)
              /\ answers' = answers \cup {Call("initial", 0)}
              /\ UNCHANGED <<nodeWatches, starting>>
         [] m.op = "excludes" ->
              SetExcludes(m.arg) /\ UNCHANGED <<answers, nodeWatches, starting>>
    /\ UNCHANGED <<fallback, ready, node, waiting, agent, process, retried, lost,
                   dpc, rest>>

\* What was put off is applied when the last start is over.
LastStart(w) == starting = {w} /\ putOff # {}
ApplyPutOff(w) ==
    IF LastStart(w) THEN \E v \in putOff : Reset(v)
                    ELSE UNCHANGED <<nodeExcludes, putOff, renumbered>>

Starts(w) == Quiet /\ connected /\ w \in starting

\* The start that applied it starts again, once.
NodeStartsAgain(w) ==
    /\ Starts(w) /\ LastStart(w) /\ w \notin retried
    /\ ApplyPutOff(w)
    /\ retried' = {w}
    /\ UNCHANGED <<fallback, ready, node, waiting, agent, process, wire, dpc,
                   nodeWatches, starting, lost, rest>>

NodeWatches(w) ==
    /\ Starts(w) /\ (LastStart(w) => w \in retried)
    /\ ApplyPutOff(w)
    /\ starting' = starting \ {w} /\ retried' = retried \ {w}
    /\ nodeWatches' = nodeWatches \cup {w}
    /\ answers' = answers \cup {Call("watch", w)}
    /\ UNCHANGED <<fallback, ready, node, waiting, agent, process, toNode, dpc,
                   lost, rest>>

NodeRejects(w) ==
    /\ "start" \in Faults /\ Starts(w)
    /\ ApplyPutOff(w)
    /\ starting' = starting \ {w} /\ retried' = retried \ {w}
    /\ answers' = answers \cup {Call("rejected", w)}
    /\ UNCHANGED <<fallback, ready, node, waiting, agent, process, toNode, dpc,
                   nodeWatches, lost, rest>>

\* A watch the reset was to start anew fails: nobody is told.
NodeLoses(w) ==
    /\ "start" \in Faults /\ Quiet /\ w \in nodeWatches \cap renumbered
    /\ nodeWatches' = nodeWatches \ {w}
    /\ lost' = lost \cup {w}
    /\ UNCHANGED <<fallback, ready, node, waiting, agent, process, wire, dpc,
                   nodeExcludes, starting, retried, putOff, renumbered, rest>>

\* What the process had is over.
NodeEnds == nodeWatches' = {} /\ starting' = {} /\ retried' = {} /\ putOff' = {}

\* It exits and its socket closes: a call that waits for an answer waits for
\* ever.  Nothing starts it again.
NodeDies ==
    /\ "exit" \in Faults /\ Quiet /\ child \in {"started", "running"}
    /\ child' = "dead" /\ connected' = FALSE
    /\ toNode' = <<>> /\ answers' = {}
    /\ NodeEnds
    /\ UNCHANGED <<fallback, ready, node, waiting, agent, server, known,
                   nodeExcludes, renumbered, lost, dpc, rest>>

\* A watch() made in fallback enters the map when it is answered.
WatchAnswered(w) ==
    /\ Quiet /\ wpc[w] = "asking" /\ Call("watch", w) \in answers
    /\ answers' = answers \ {Call("watch", w)}
    /\ node' = [node EXCEPT ![w] = TRUE]
    /\ tracked' = tracked \cup {w}
    /\ wpc' = [wpc EXCEPT ![w] = "held"]
    /\ UNCHANGED <<fallback, ready, calls, gen, handle, agentExcludes, opens,
                   subs, process, toNode, host, dpc, rest>>

WatchRejected(w) ==
    /\ Quiet /\ wpc[w] = "asking" /\ Call("rejected", w) \in answers
    /\ answers' = answers \ {Call("rejected", w)}
    /\ wpc' = [wpc EXCEPT ![w] = "failed"]
    /\ UNCHANGED <<fallback, ready, node, calls, agent, process, toNode, host,
                   dpc, rest>>

UnwatchAnswered(w) ==
    /\ Quiet /\ wpc[w] = "removing" /\ Call("unwatch", w) \in answers
    /\ answers' = answers \ {Call("unwatch", w)}
    /\ tracked' = tracked \ {w}
    /\ wpc' = [wpc EXCEPT ![w] = "gone"]
    /\ UNCHANGED <<fallback, ready, node, calls, gen, handle, agentExcludes,
                   opens, subs, process, toNode, host, dpc, rest>>

-----------------------------------------------------------------------------
(* dispose()                                                               *)

\* Only a server that listens is closed, every one is forgotten.
KeepConnection ==  \* a mutant
    /\ known' = FALSE
    /\ server' = IF known /\ server = "listening" THEN "none" ELSE server
    /\ toNode' = <<>> /\ answers' = {} /\ UNCHANGED connected
CloseServers ==
    /\ connected' = FALSE /\ known' = FALSE
    /\ server' = IF known /\ server = "listening" THEN "none" ELSE server
    /\ toNode' = <<>> /\ answers' = {}

\* SIGTERM, then SIGKILL.
StopChild ==
    /\ dpc' = "done"
    /\ IF child \in {"none", "dead"} THEN UNCHANGED <<child, recorded>>
                                    ELSE child' = "stopped" /\ NodeEnds

\* Only a server that was listening makes dispose() wait.
Close ==
    /\ CloseServers
    /\ IF known /\ server = "listening"
       THEN dpc' = "closing" /\ UNCHANGED <<child, recorded>>
       ELSE StopChild

Dispose ==
    /\ CanDispose /\ dpc = "none" /\ Quiet
    /\ gen' = [w \in Watches |-> IF w \in tracked THEN gen[w] + 1 ELSE gen[w]]
    /\ subs' = subs \ UNION {Released(w) : w \in tracked}
    /\ tracked' = {}
    /\ IF connected
       THEN /\ dpc' = "asking"
            /\ UNCHANGED <<process, wire, recorded>>
       ELSE Close
    /\ UNCHANGED <<fallback, ready, node, waiting, handle, agentExcludes, opens,
                   nodeExcludes, renumbered, lost, rest>>

\* $dispose is answered or a second is over.
DisposeAnswered ==
    /\ dpc = "asking" /\ Quiet
    /\ Close
    /\ UNCHANGED <<fallback, ready, node, waiting, agent, nodeExcludes,
                   renumbered, lost, rest>>

ServersClosed ==
    /\ dpc = "closing" /\ Quiet
    /\ StopChild
    /\ UNCHANGED <<fallback, ready, node, waiting, agent, known, server,
                   connected, wire, nodeExcludes, renumbered, lost, rest>>

-----------------------------------------------------------------------------
Init ==
    /\ runtime = "agent" /\ ready = TRUE /\ tracked = {}
    /\ gen = [w \in Watches |-> 0] /\ handle = [w \in Watches |-> 0]
    /\ node = [w \in Watches |-> FALSE]
    /\ agentExcludes = 0 /\ lastExcludes = 0 /\ nodeExcludes = 0
    /\ refused = {} /\ missed = {}
    /\ calls = <<>> /\ wpc = [w \in Watches |-> "idle"] /\ opens = {}
    /\ fpc = "none" /\ restoring = {} /\ dpc = "none"
    /\ subs = {} /\ server = "none" /\ known = FALSE
    /\ child = "none" /\ connected = FALSE
    /\ toNode = <<>> /\ answers = {}
    /\ nodeWatches = {} /\ starting = {} /\ retried = {} /\ putOff = {}
    /\ renumbered = {} /\ lost = {}

Client == \/ \E w \in Watches : CallWatch(w) \/ CallUnwatch(w)
          \/ CallExcludes

Resume == \/ ResumeWatch \/ ResumeUnwatch \/ ResumeExcludes \/ ResumeFallback
          \/ \E w \in Watches : FallbackAwaited(w)

AgentAnswers == \E o \in opens : Subscribe(o) \/ Opened(o) \/ AgentUnavailable(o)

Fallback == ServerCreated \/ Forked \/ ListenFails \/ Connects \/ ExcludesAnswered

NodeStarts == \E w \in Watches :
                 NodeStartsAgain(w) \/ NodeWatches(w) \/ NodeRejects(w)

NodeFails == NodeDies \/ \E w \in Watches : NodeLoses(w)

Answered == \E w \in Watches :
               \/ Restored(w) \/ RestoreRejected(w)
               \/ WatchAnswered(w) \/ WatchRejected(w) \/ UnwatchAnswered(w)

Disposing == Dispose \/ DisposeAnswered \/ ServersClosed

Next == \/ Client \/ Resume \/ AgentAnswers
        \/ \E s \in subs : StreamFails(s)
        \/ Fallback \/ NodeHandles \/ NodeStarts \/ NodeFails
        \/ Answered \/ Disposing

Spec == Init /\ [][Next]_vars

\* Continuations run; the Agent answers; a forked watcher process that does not
\* exit connects, handles what it is sent and ends every start, as each has a
\* time limit.  The client need not call, nothing need fail.
Fairness == /\ WF_vars(Resume) /\ WF_vars(AgentAnswers) /\ WF_vars(Fallback)
            /\ WF_vars(NodeHandles) /\ WF_vars(NodeStarts) /\ WF_vars(Answered)

FairSpec == Spec /\ Fairness

-----------------------------------------------------------------------------
(* Properties                                                              *)

Streams == [watch : Watches, gen : Nat, ex : Nat]

\* The types of the state.
TypeOK ==
    /\ runtime \in {"agent", "fallback"} /\ ready \in BOOLEAN
    /\ tracked \subseteq Watches
    /\ gen \in [Watches -> Nat] /\ handle \in [Watches -> Nat]
    /\ node \in [Watches -> BOOLEAN]
    /\ {agentExcludes, lastExcludes, nodeExcludes} \subseteq 0..MaxExcludes
    /\ known \in BOOLEAN /\ connected \in BOOLEAN
    /\ \A i \in DOMAIN calls :
          calls[i].op \in {"watch", "unwatch", "excludes", "fallback"}
    /\ wpc \in [Watches -> {"idle", "queued", "opening", "waiting", "asking",
                            "held", "failed", "releasing", "removing", "gone"}]
    /\ opens \subseteq [stream : Streams, by : {"watch", "excludes"},
                        stage : {"starting", "subscribed"}]
    /\ subs \subseteq Streams
    /\ fpc \in {"none", "path", "listening", "connecting", "excluding",
                "restoring", "done", "partial", "failed"}
    /\ dpc \in {"none", "asking", "closing", "done"}
    /\ restoring \cup nodeWatches \cup starting \subseteq Watches
    /\ retried \subseteq starting
    /\ putOff \subseteq 0..MaxExcludes /\ \A u, v \in putOff : u = v
    /\ server \in {"none", "starting", "listening"}
    /\ child \in {"none", "started", "running", "stopped", "dead"}
    /\ connected => child = "running"
    /\ refused \cup missed \cup renumbered \cup lost \subseteq Watches

\* No call is under way, inside or outside.
Settled ==
    /\ Quiet /\ calls = <<>> /\ opens = {}
    /\ fpc \in {"none", "done", "partial", "failed"} /\ restoring = {}
    /\ toNode = <<>> /\ answers = {} /\ starting = {}
    /\ \A w \in Watches : wpc[w] \in {"idle", "held", "failed", "gone"}

Current(s) == runtime = "agent" /\ gen[s.watch] = s.gen
OnAgent(w) == \E s \in subs : s.watch = w /\ Current(s)

\* Every open stream belongs to an open that will still decide about it, or is
\* the handle of a tracked state of the current generation: whatever overtakes
\* an open (unwatch, new exclusions, fallback, dispose), its stream is closed.
StreamsAreOwned ==
    \A s \in subs :
        \/ \E o \in opens : o.stream = s
        \/ s.watch \in tracked /\ handle[s.watch] = s.gen /\ Current(s)

\* When everything has settled, a watch the client holds is served by exactly
\* one of the Agent and the watcher process, unless the fallback failed or that
\* process exited.  (A watch whose reopening with new exclusions found no Agent,
\* or failed in the watcher process, is served by none: nothing repairs it.)
HeldWatchIsLive ==
    Settled /\ fpc \in {"none", "done"} /\ child # "dead" /\ dpc = "none" =>
        \A w \in Watches :
            wpc[w] = "held"
            /\ w \notin (IF runtime = "agent" THEN refused ELSE lost) =>
                (OnAgent(w) # (w \in nodeWatches))

\* A stream that delivers was opened with the newest exclusions the Agent side
\* was given, also when the change overtook its open.
AgentExcludesCurrent == \A s \in subs : Current(s) => s.ex = agentExcludes

\* When everything has settled, nothing is watched any more for an unwatch()
\* that returned, wherever the watch was running or on its way to.  (Except one
\* that came while the fallback's own $watch was unanswered, when its id was not
\* known, and one whose id a reset of the watcher process had replaced: of these
\* the watcher process keeps the watch, the Agent still no stream.)
UnwatchedIsGone ==
    Settled => \A w \in Watches : wpc[w] = "gone" =>
        /\ w \notin missed \cup renumbered => w \notin nodeWatches
        /\ \A s \in subs : s.watch # w

Busy == {"queued", "opening", "waiting", "asking", "releasing", "removing"}

Undisturbed ==
    fpc \notin {"failed", "partial"} /\ child # "dead" /\ dpc = "none"

\* Every watch() and unWatch() settles.
WatchCallsSettle ==
    []Undisturbed => \A w \in Watches : wpc[w] \in Busy ~> wpc[w] \notin Busy

\* A fallback that began is completed, if the client stays.
FallbackCompletes == []Undisturbed => (fpc = "path" ~> fpc = "done")

\* Every call settles, whichever part of the fallback it meets, and so does the
\* fallback, if its server listens, the watcher process lives and restores every
\* watch, and the client stays.
CallsSettle == WatchCallsSettle /\ FallbackCompletes
=============================================================================
