# A TLA+ verification project for OpenSumi (pnpm / Node 24 branch)

This directory holds TLA+ models of the concurrent core of the repository, the
TLC configurations that check them on small instances, and TLAPS proofs of the
properties that should hold for every size. Paths below are relative to the
repository root.

* Check a model: `tlc -config MCWatchSession.cfg MCWatchSession`
* Check the proofs: `tlapm WatchSession_proofs.tla`
* `PROJECT.json` lists, in machine-readable form, the components, the runs, the
  source lines behind every definition, the hazards of the code, one mutant per
  checked property, and the theorems.

## 1. The system

OpenSumi is an IDE framework: browser clients talk RPC to a Node server, which
owns extension hosts, terminals, file services and, optionally, collaborative
editing. On this branch two Go programs join it: a *Workspace Agent* (a child
process of Node that watches and searches the workspace over gRPC) and a
*WebSocket Gateway* (the public entry that multiplexes all browsers over one
private socket to Node).

```
 browser --ws--> Gateway (Go) ==multiplex-v1==> Node server --gRPC--> Workspace Agent (Go)
                                                   |  \--fork--> watcher process (fallback)
                                                   |--fork--> extension hosts
                                                   |--pty---> terminals
```

### Inventory

| Component | State it keeps | Operations | Hard part | What makes it correct |
|---|---|---|---|---|
| Go watch session (`go/.../agent/watcher.go`, `watch_backend*.go`) | bounded event queue, atomic drop counter, pending map with two limits | native event, overflow marker, error, tick/flush, send, end | backend never blocks, stream may; counter is swapped while it is incremented | no loss without a report, exact counts, last change wins, bounded memory |
| Workspace Agent lifecycle (`file-service/src/node/workspace-agent.ts`) | child, socket directory, clients, restart budget, start promise, clean-up tasks, disposed | ensureStarted, start steps, exit callback, clean-up, dispose | everything awaits; exit, failure and dispose overtake a start | one live agent, nothing leaked, each failure charged once, bounded launches, dispose returns |
| Shared watches (same file, `watch`, `finishSharedWatch`, `releaseSharedWatch`) | shared stream per root, subscribers, grace timer | subscribe, release, ready, error | errors race readiness; last release starts a timer | one native watch per root, every subscriber told once |
| Watcher process manager (`watcher-process-manager.ts`) | watch ids, backend per watch, fallback process, exclusions | watch, unwatch, exclusions, fallback, dispose | one-way fallback interleaves with calls in flight | a watch the client holds is native-watched exactly once, none survives unwatch |
| Multiplexed transport (`go/.../gateway/multiplex.go`, `gateway.go`, `connection/src/electron/multiplex-channel-handler.ts`) | stream maps on both sides, per-stream queue, one socket | open, data, close, transport failure | three goroutines per stream, late frames, slow consumers | logical FIFO channels, CLOSE once, no half-open stream, failure reaches all |
| Gateway server (`gateway.go`) | admitted connections, readiness, draining flag | admit, authenticate, shut down | shutdown races admission | no connection outlives shutdown |
| Gateway direct file RPC (`direct_file_rpc.go`) | none | answer read-only file requests in Go | binary encodings | same answers as Node |
| RPC requests (`connection/src/common/rpc/connection.ts`) | callback map, timeouts, cancellation sets, reply reordering | send, settle, cancel, time out, close | answers race timeouts and cancellation, chunked answers | each request settles exactly once, no entry left behind |
| RPC channels, `RpcChannels` (`ws-channel.ts`, `server-handler.ts`, `ws-channel-handler.ts`) | channel maps, open handshake, reconnecting socket | open, reopen, data, close | reconnect with old socket closing later | one server channel per client channel, messages resume in order |
| Extension hosts, `ExtensionHosts` (`extension/src/node/extension.service.ts`) | process, timers and creation queue per client | create, connect, disconnect, exit | awaits between map reads | one host per client, capacity respected, none orphaned |
| Terminals, `TerminalSessions` (`terminal-next/src/node/terminal.service.ts`) | pty per session, close timers, batches | create, attach, disconnect, flush | lease on reconnect races the close timer | an attached session is not killed, output order |
| Collaboration (`collaboration/src/node/y-websocket-server.ts`) | documents, references, pending loads | load, join, leave, idle clean-up | loads race removal | one document per name, no clean-up of a referenced one |
| Disk file system (`disk-file-system.provider.ts`) | per-URI write queue, watchers | write, check, delete | optimistic check then write | no lost update within a server |
| Agent client protocol (`ai-native/src/node/acp`) | threads, permission requests | prompt, permission, cancel | external process | each permission answered once |
| Search services, parent watchdog, launch configuration | little | one stream or ticker each | cancellation | — |
| UI, editor, themes, widgets | view state | — | — | out of scope |

## 2. Plan

In order of importance, one module per component; a proof module `X_proofs`
beside each module with theorems.

1. `WatchSession` (done, proved): the loss-reporting protocol of the Go watcher.
2. `WorkspaceAgent` (done, proved): the life cycle the rest of the server relies on.
3. `LogicalChannels` and `GatewayMultiplex` (done, proved): the transport, shown to
   implement the abstract channels.
4. `WatcherManager` and `WatcherHost` (done, proved): watches on the Agent, the one-way
   fallback, and the watcher process it falls back to.
5. `ExtensionHosts` (done, proved): one host per client under a global capacity.
6. `RpcChannels` (done, proved): channels over a socket that reconnects.
7. `TerminalSessions` (done, proved): shells that outlive the page that opened them.
8. `RpcRequests`: calls, answers, timeouts and cancellation over one channel.
9. `SharedWatch`: sharing and grace timer, below `WatcherManager`.
10. `CollaborationDocuments`, `GatewayServer`, `OptimisticWrites`.

The theorems cover what is modelled: every safety invariant and action property
of the passing runs, and the refinement of `LogicalChannels` (section 6). Theorems
still worth having belong to the modules to come: that a call of `RpcRequests`
settles once, and that a stream shared in `SharedWatch` is closed when, and only
when, its last user has left and the grace period is over.

### Hazards waiting for a model

Beyond the ones listed in `PROJECT.json`, in the order of the plan:

* RPC requests (`connection/src/common/rpc/connection.ts`): a call cancelled before
  it is sent keeps its callback without a timeout (123); timeout and answer race
  (150); chunks of a stream whose call has timed out still open an entry (235); calls
  wait when the connection is disposed (369); the Cancel of a call is handled before the
  end of its request (352).
* Workspace Agent: a start promise shared by callers that came before and after a
  failure (`workspace-agent.ts` 615), an error event before readiness (842).
* Multiplexed transport: the socket is destroyed while a frame is dispatched
  (`multiplex-channel-handler.ts` 177).
* Shared watches: a second grace timer replaces the first (`workspace-agent.ts` 897).
* Terminals in a process of their own: a second reconnection while the first is
  under way (`terminal.service.ts` 373).
* Collaboration (`y-websocket-server.ts`): loads that race (291), limits tested before
  awaits (312), references counted by completed requests (352), idle clean-up (364).
* Gateway server (`gateway.go`): draining while a connection is admitted (385), shared
  admission flights (404).
* Disk files (`disk-file-system.provider.ts`): conflict test and write are two steps
  (312), the write queue (330), the spliced exclusions (469).

## 3. Conventions

The Node components run on one event loop. An action is what runs between two
awaits, so whatever the code reads before an `await` and uses after it is read in
one action and used in another. The Go components run goroutines: an action is
what a goroutine does between two points where another can interfere (a channel
operation, a lock, a blocking read or write).

Values are abstracted to what the properties tell apart: paths, watches and
streams are model values, the k-th payload of a stream is the number k, the
exclusions are version numbers. A counter that only bounds the exploration is
named so where it is declared (`MaxEvents`, `MaxLaunches`, `MaxSent`,
`MaxExcludes`, `MaxSettings`). History variables are declared under that name and
no guard reads them.

A definition marked `\* a mutant` is a plausible bug. It is part of no behaviour;
`PROJECT.json` pairs it with the definition it would replace and the property
that notices.

## 4. The models

### WatchSession

One `Watch` RPC of the Go Agent. `NativeChange`, `NativeOverflow` and
`NativeError` are the backend goroutine (`watch_backend*.go`): they never block,
so a full `queue` becomes a count in `qdropped` (`watchEventQueue.Send`).
`ReceiveChange`, `ReceiveMarker`, `ReceiveError` and `Flush` are the arms of the
`select` in `runWatch`; `pending`, `pendingBytes` and `dropped` are its locals.
`Flush` swaps the atomic counter and hands a frame to `stream.Send`;
`SendReturns` is the moment the client has it. The loop is blocked in between.

* `NewestChangeWins`: of a path whose last event was not given up, the newest
  change in queue, batch, frame or client is that event.
* `NoSilentLoss`: a lost event is always represented somewhere on its way to the
  client.
* `CountersExact`: the reported number is exactly the number of events lost
  (`OverflowCountExact`), and the batch keeps both its limits and its byte sum
  (`PendingBounded`).
* `ClientCatchesUp`: the client has the truth or knows that it does not
  (`ViewsCatchUp`), and every loss is reported (`LossIsReported`).

Bounds: three paths (short, long, filtered out), four native events, a queue of
one and a batch of two: the queue and both batch limits overflow, and events
coalesce in each of the three places. Fairness: the loop's ticker fires and an
arm that stays ready is taken (Go's `select` chooses at random among ready arms),
and `stream.Send` returns. The backend need not produce anything.

### WorkspaceAgent

The life cycle of the Agent process in `workspace-agent.ts`. `starter` walks
through `startAfterBackoff` and `start` (delay, directory, spawn and
announcement, connection, capabilities), `cpc` through each concurrent
`ensureStarted`, `dpc` through `dispose()`, and `cleanups` holds one record per
running `cleanupRuntime` (shutdown call, SIGTERM, SIGKILL, removal of the
directory). `ChildExits` is the exit callback and may come at any time.

`AtMostOneLiveAgent` and `NothingLeaks` (everything that exists is reachable, and
nothing is left after `dispose()`) tie the fields of the client to the processes,
directories and connections that exist; `BudgetExact` says that a failure seen by
several paths is charged once and that the breaker opens at the right failure;
`DisposeCompletes` and `EnsureStartedSettles` are liveness.

Bounds: two callers, three launches, a budget of two: every await of a start is
overtaken by an exit, a failure, another caller and `dispose()`, and a second and
third launch follow. The liveness run has two launches. Fairness: settled
promises resume, start steps have deadlines in the code (so an Agent that never
answers makes the step fail), the waits of a clean-up time out, timers fire.
Nothing is asked of the Agent itself, not even death by SIGKILL: the clean-up waits
a second for it and goes on. A process that is still there then is "stuck"; nobody
waits for it any more, and the safety properties speak of the others.

`ensureStarted` looks at the runtime before it awaits the clean-up of a dead child
and not after it (608-615). A caller whose wait outlasts the start of another one
(a removal of a directory slower than backoff and start) begins a launch over the
agent that is up: two agents live, and the first is forgotten. `CallerCleaned` is
that code, so the model does it, and `workspace_agent_late` is the run that finds
it. The variable `late` marks such a run from that step on, and the safety
properties are stated for the others: no other order breaks them.

### LogicalChannels and GatewayMultiplex

`LogicalChannels` is the promise to the RPC layer: every logical connection is a
FIFO channel in each direction until it ends. `GatewayMultiplex` has, per stream,
the bridge, writer and reader goroutines of the Gateway, its one `readLoop`, the
two directions of the socket, and Node's event loop with its stream map.
`closeStream` is two steps, deregister and notify, as the code releases the lock
between them; so is `Write` (look at the closed channel, then write the frame) and
`openStream`. `ImplementsChannels` is the refinement: `sent` and `got` of a link
are what browser and Node sent and received, a link is over when Node's
connection closed or the reader ended.

* `NoHalfOpenStream`: three parties race to close a stream; it is closed once
  (`CloseOnce`) and no side keeps what the other has given up (`BothSidesKnow`).
* `EndsReachAll`: liveness; a browser that leaves is taken down at Node
  (`BrowserCloseReachesNode`), a broken transport ends every stream
  (`TransportFailureReachesAll`).

Bounds: one stream with every fault, a queue of two and two payloads each way: the
queue fills, the slow-consumer path runs, and a second payload exists that could
overtake the first. Only `multiplex_isolation` has two streams, for the one way in
which they disturb each other; that any number of them implement their channels is
the theorem. Fairness: goroutines and Node's loop run,
and a blocked write or read of a broken socket returns.

`multiplex_isolation` shows that a payload Node had in flight when a browser left
names a stream the Gateway has forgotten; `readLoop` treats it as a protocol error
and closes the transport of all browsers.

### WatcherManager

One client's watches in `watcher-process-manager.ts`. They run on Agent streams
until one fails; then `FallBack` moves all of them, once, to a forked watcher
process. Every call awaits `whenReady` first: `calls` holds these continuations
in order, and `Quiet` says that a settled promise runs its continuations before
any other event. `gen` is the generation by which the code recognises results
that were overtaken (`Stale`). `fpc` is the fallback (socket path, listening,
connecting, exclusions, restoring), `dpc` is `dispose()`.

The watcher process is the other end of an ordered connection. Of `WatcherHost` it
keeps what its answers depend on: `starting` are watches whose native starts are
awaited, `putOff` is a change of the exclusions that meets them, `retried` a start
that begins again because of it. A start may reject (`NodeRejects`), then a `watch()`
fails (`WatchRejected`) or the fallback does while its other watches go on
(`RestoreRejected`, "partial"). A reset gives every recorded watch a new id that no
client learns (`Reset`, `renumbered`), so an `$unwatch` with the old one finds nothing,
and may fail to watch one again (`NodeLoses`). The process may exit at any time
(`NodeDies`): its calls stay unanswered, and nothing starts it again.

* `StreamsAreOwned`: a stream belongs to an open that will still decide about it
  or is the current handle of its watch, so nothing is left open.
* `AgentExcludesCurrent`: a stream that delivers has the newest exclusions.
* `HeldWatchIsLive`: when all is settled, a held watch runs on exactly one side.
* `UnwatchedIsGone`: a released watch runs on neither.
* `CallsSettle`: liveness; calls return (`WatchCallsSettle`) and the fallback ends
  (`FallbackCompletes`) in a run that is `Undisturbed`: the server listens, every
  watch is restored, the process lives, the client stays.

What the code loses is in four history variables. `HeldWatchIsLive` excepts, on the
Agent's side, `refused` (the reopening after new exclusions found no Agent) and, on
the other side, `lost` (a reset could not watch it again); it does not speak of a
fallback that failed or was partial, nor of a process that exited. `UnwatchedIsGone`
excepts `missed` (the unwatch met the fallback's unanswered `$watch`, so it had no id
to send) and `renumbered`, both only for the watcher process: of these, too, no stream
of the Agent is left. `PROJECT.json` lists them under hazards, with further orders that
the model contains and no property excludes (old exclusions sent by the fallback, the
state of a failed `watch()`, a `dispose()` before the fork).

Bounds: two watches (one opening while the other is held, restored or released),
one exclusion change, every fault, and `dispose()` at any point. Fairness:
continuations run, the Agent answers, and a forked process that does not exit
connects, handles what it is sent and ends every start, which has a time limit in its
code.

### WatcherHost

The watcher process itself (`hosted/watcher.host.service.ts`). Each change of the
exclusions throws the native watchers away (`Reset`, a new `version`) and starts
every collected watch again. A change that meets a starting watch is put off; the
last start applies it and awaits the restarted watches (`Settle`, `ResetDone`);
a start overtaken by a reset is retried once (`Finish`).

A task is a `doWatch` with the two native starts of its `Promise.all`, which end in
any order (`FileEnds`, `TreeEnds`, `TreeTimesOut`). Only the not recursive one rejects:
then `Promise.all` is over (`Settled`), the pending entry is gone, and the recursive
start goes on alone, as it does when its minute has passed. `native` holds what the
watchers of a version watch, per path and kind, and the recursive starts under way
("opening"); one that comes up on replaced watchers is taken down at once
(`Replaced`, the `isDisposed` test of the recursive watcher).

* `StartsAreCurrent`: the watchers are only replaced while nothing awaits a start on
  them, and nothing is watched by watchers that were replaced, not even by a start
  left behind.
* `HeldIsWatched`: after any number of changes, every held id is watched
  (`HolderIsServed`) and what runs is recorded (`LiveIsCollected`).
* `NewestExcludesApply`: put-off changes are applied in the end, the newest once.
* `WatchSettles`: a start that waits for a reset that waits for starts ends.

`HeldIsWatched` excepts what the code does lose, in two history variables: paths of
which a native watch did not come up (`broken`: a recursive start left behind stays
on the same watchers, recorded by nobody), and paths whose retried start was
overtaken by a further change (`overtaken`), until a later start of the path ends on
the current watchers. It also excepts ids that two requests share and one released.
`watcher_host_stale_id` shows that a reset renumbers the watches, so the id a client
holds no longer releases anything.

Bounds: two requests for one recursive path and one for another path, two changes
(the second overtakes the retry), every native start may fail. Versions of the
exclusions are tried up to the newest set (`SetExcludes`), so an older setting may come
again. `watcher_host_stale_id` needs two requests, one change and no failure. Fairness:
a native start ends or the code's timer gives it up.
Assumed: a path is always watched with the same options, and no two paths share a
directory the recursive watcher subscribes to.

### ExtensionHosts

The hosts of all clients in `extension.service.ts`, in the form the web server
uses. `queue` is the chain of promises that serialises creations; its head,
with `creator`, walks through `Begin`, `Admit` (`ensureExtensionHostCapacity`),
`Listen`, `Fork` and `Verify`, and `Fail` is its catch clause. An attempt has a
number, which stands for its server, connection, process and deferreds. `proc`,
`server`, `linked`, `timers`, `zombies` and `pending` are the maps and sets of the
service. A running `disposeClientExtProcess` is a record in `disposals` that
remembers the process it read before its first await and what its caller does
next; its deletions take whatever the maps hold by then. The browser connects,
opens its channel, restarts its host and disconnects at any time, and a host may
die at any time.

* `GoneAreDisposed`: the host of a client that left has a timer, or a creation or
  disposal in progress sees to it.
* `NoOwnerlessHost`: the capacity holds and counts every living process.
* `OpenAreServed`: an open channel has a living host, or its client was told.

The three properties except the clients in the history variable `raced`, each
entry of which names an order of events in which the code does something else:
a disposal that meets a creation of the same client (its deletions, after an
await, take the entries of the new host), a session that returns while the old
host is being disposed of, a start-up timeout that finds a later host, a mark of
a client that left erased before the creation looked at it, a timer cancelled by
`HostConnects` for a client that has left, and a client that leaves while its
creation is only queued. In the last case the client is not `IsKnown`, so neither
close path marks it, although the comment at `extension.service.ts:864` means to
cover a client that closes before any activation; its host is started for nobody.

Bounds: two clients that compete for one place, two attempts (so a host is
replaced or reclaimed), and one disposal besides the one the creation awaits.
The clients are symmetric: no action tells them apart but by their state.

### RpcChannels

The channels of one browser (`ws-channel-handler.ts`, `ws-channel.ts`) and their
ends at the server (`server-handler.ts`). `opened`, `ready`, `sendQueue` and
`traces` are the client's channel map, the flag that lets a channel send, its
queue and its timers; `toServer` and `toClient` are what is in flight on each
socket; `chan` is the server's map, `held` what the path handlers keep for the
client id. The client may be on its second socket while the server still reads
the first and has yet to handle its close. While no socket is open the
reconnecting socket buffers: what is sent then is the head of the next queue.
What the programs of the server send (`ServerSends`) counts because every message the
client reads starts its heartbeat's timer anew. A path handler may throw when its
channel opens: the channel is in the map, and no server-ready is sent (`ServeOpen`,
`thrown`).

* `InSync`: a ready channel has its counterpart on the client's socket, and that
  one gets all data sent since the channel last opened.
* `InOrder`: what a server channel gets from one socket is in order, once.
* `HeldWhileOpen`: resources are held exactly while some channel is in the map.
* `Recovers`: liveness; once sockets stop failing every channel is ready and
  served on the socket in use, if the server pauses (`ServerPauses`) and no handler's
  exception is left unrepaired.

Both premises of `Recovers` are necessary. A channel lost to a late open or close is
found by a heartbeat only, and a server that sends something every ten seconds, on any
channel, postpones the heartbeat for ever; TLC finds that without the first premise. A
channel whose handler threw is in the map, so a heartbeat finds nothing wrong with it,
and the timer of its open message may have ended with an earlier answer.

Two orders show in the exceptions. An open read late from the old socket takes
the channel back (`chan` is replaced without looking at the age of the socket);
the answer goes to a socket nobody reads, and data on the new socket reaches the
old channel until the old close removes it and a heartbeat is answered with
ChannelNotFound. `InSync` excepts this by `lastOpen`, `Recovers` says that it is
repaired. And late data of the old socket goes to the channel that replaced it,
so order holds per socket.

Bounds: two paths, two sockets (one reconnection), two opens (of two paths or of
one path twice), two data in all (`sends` counts them) and one repeated open: a
channel waits, pauses, resumes and is replaced while another is open. The server sends
on one path and the handler of the other may throw. A trace is given out again when no
message or timer carries it; `HasTrace` bounds how many are in use, and six suffice for
every message in flight to have its own. Fairness: both ends read, a socket one end has
left closes at the other, reconnecting succeeds in the end, and the heartbeat fires if
from some time on no message comes. Nothing is asked of the retry timer. A pong follows
a heartbeat and does no more than a datum of the server; a close handler that throws,
which would keep those after it from being called, is left out.

### TerminalSessions

`terminal.service.ts` with its facade per connection, the `PtyService` of each
attached terminal (`svc`) and `PtyServiceProxy` in the same process. A window
loads pages one after the other; a page is a client id, a session id is the
terminal's short id, which survives the page. `registered`, `closing`, `terms`,
`procs` and `batch` are the maps of the service; `session`, `lease`, `listener`
and `spoken` those of the proxy. `Attach` is `create2` up to the one await that
lasts, for a new terminal, for one of the page before, or again for one the page shows
(a relaunch, whatever became of its PtyService); `Spawned` is what follows: it resumes
the running shell of the session or spawns one. `LinkLost` starts the grace period of a client, `ClientExpires` is
`disposeClient` at its end, `LeaseExpires` the timer of the proxy.

* `EveryShellHasAKeeper`: a living shell has a lease or a client that is connected
  or in its grace period, and a shell that is in use has no lease.
* `OutputIsSent`: output that waits has a timer.

Each names its exceptions in a history variable, for orders that the code
permits:

* `taken`: the next page resumes a session within the grace period of the page
  before. When that period ends, `disposeClient` leases the session by its short id,
  without seeing that it has passed to another client, and the lease ends by
  killing the shell in use. The test
  'cancels pending cleanup when the persistent session resumes' has the other order
  only. Without the exception TLC finds it.
* `late`: a `create2` that ends after its connection was lost sets the client again
  and so ends the grace period, and no later event starts another: the shell is
  never leased.
* `crossed`: a terminal is launched again while its first start lasts, and has two
  PtyServices. If the page closes it in between, the first shell ends, the second start
  spawns another, and then the exit event of the first deletes the entry of the second
  in `clientTerminalMap` by its id: a shell lives that no client disposes of.
* `burst`: a batch flushed for its size leaves a timer for an empty batch, and the
  flush by that timer returns before it deletes the timer's entry; smaller output
  that follows has no timer and waits for the next burst.

The exit handler drops the last batch: it forgets the batch before the flush that
would send it (`terminal.service.ts` 210 and 214). The model contains this, and no
property excludes it.

Bounds: two pages, a persistent and a transient terminal, two connections in all
(one page twice, or one each), two starts and two chunks of output, small or
large. That is the least with a resume, a relaunch, a lease that expires, and both ways
of flushing; TLC reaches all four exceptions.

## 5. Runs

| Run | Shows |
|---|---|
| `watch_session` | safety and liveness of the loss-reporting protocol |
| `workspace_agent`, `workspace_agent_live` | one agent, no leak, exact budget; every call returns |
| `workspace_agent_late` | violation: a launch begins over a living agent |
| `multiplex_faults` | refinement of `LogicalChannels`, closing races, failure reaches all |
| `multiplex_isolation` | finding: one stream's late payload ends all streams |
| `watcher_manager` | fallback, exclusions, unwatch, dispose and a failing watcher process interleaved |
| `watcher_host` | resets under starting watches whose two native starts end apart; every watch is answered |
| `watcher_host_stale_id` | finding: ids do not survive a reset |
| `extension_hosts` | creation, reclaiming, timers, crashes and reconnections of two clients' hosts |
| `rpc_channels` | opens, data and heartbeats over a socket that is replaced |
| `terminal_sessions` | terminals resumed by the next page or launched again, leases, grace periods, batches |

Deadlock is checked in `rpc_channels`, where an idle client with a channel can always
send its heartbeat. It is not checked in the others: there the environment may stop (no more events, calls or
payloads), so a state without successors is a normal end. Where progress is due, a
liveness property says so.

## 6. Proofs

TLAPS proves, for every value of the constants, every safety invariant and every
action property that a passing run checks, and that `GatewayMultiplex` implements
`LogicalChannels`. Each module `X` has its theorems in `X_proofs`, in the same
order: the inductive invariant, lemmas about the helpers of the model, one lemma
per action or group of actions, and the theorems at the end. The bounds of a
model (`MaxLaunches`, `MaxSent` and so on) are constants like the others, so the
theorems hold for whatever numbers of events. The assumptions are those the
modules name (`ASSUME`), which TLC evaluates in every run.

### WatchSession

`TypeCorrect`, `LossIsAccounted` (`NoSilentLoss`), `NewestWins`
(`NewestChangeWins`) and `CountsAreExact` (`CountersExact`).

`IInv` is `TypeOK`, the two properties about events and `NoFrameHeld`, which says
that while the loop is not sending the frame variable holds nothing: without it a
step back to the `select` could uncover an old frame. `NoSilentLoss` is preserved
because every step that takes a loss out of one representation puts it into the
next (`LastAfterTail` and `TailFacts` for the marker at the head of the queue);
`NewestChangeWins` because a change moves queue, batch, frame, client in that order
and a newer one is always nearer to the queue (`LastAfterAppend`, `LastAfterTail`).
`CountersExact` is inductive together with `IInv`. Its counts are cardinalities of
sets of positions, so the lemmas say what appending and taking from the queue does
to the markers in it (`MarkersAppend`, `MarkersTail`) and what one more path adds to
the bytes of a batch (`BytesOfOneMore`).

### WorkspaceAgent

`TypesHold`, `OneAgentLives` (`AtMostOneLiveAgent`), `NothingIsLost`
(`NothingLeaks`) and `BudgetHolds` (`BudgetExact`), without an assumption on how
long anything takes: a late caller is the only order in which they fail.

The strengthening says who owns the process. `FlowInv` and the types hold of every
run: one start at a time, whose promise stays until it is over; `dispose()` waits
for the one it found, and a later one ends before it launches. The rest,
`SharpInv`, holds until a caller was late. `FieldInv`: what `child`, `dir` and
`clients` hold at each await of the start; a caller that begins a start finds them
empty (`BeginsEmpty`), which for one that comes back from a clean-up is exactly what
`late` denies. `ProcInv`: a process that runs is the one of the newest launch and
either the child or awaited by the start that detached it. `TaskInv`: a clean-up
gives up on no process that the client holds. `BudgetInv`: the attempts charged are
the first `lastHandled`, so that the exit callback, the failed start and a caller
that all see one failure find it already charged.

### GatewayMultiplex

`TypesHold`, `StreamsAreClosedOnce` (`NoHalfOpenStream`) and
`TransportImplementsChannels` (`Spec => ImplementsChannels`).

`FreshInv`: of a stream whose OPEN is not written nothing has happened. `UpInv` and
`DownInv`: the payloads of a stream on a wire are the numbers from what the
receiver has, plus one, to what was written, in order and each once; on the way
down the one in the hands of `readLoop` and the queue come first. This is what makes
a receipt the next element of the abstract FIFO. `CloserInv`: of the CLOSE on the
wire, the bridge and `readLoop`, one closes. `NodeInv`: OPEN comes before CLOSE, and
Node forgets a stream for good. `KnownInv`: a stream that one side has and the other
has not is under way, by its OPEN, its CLOSE or the party about to write it.
The refinement maps each action to one step of `LogicalChannels` or to a stutter.

### WatcherManager

`TypesHold`, `StreamsStayOwned` (`StreamsAreOwned`), `ExcludesStayCurrent`
(`AgentExcludesCurrent`), `HeldIsLive` (`HeldWatchIsLive`) and `ReleasedIsGone`
(`UnwatchedIsGone`).

The invariant has two layers. `IInv` is about the Agent's side:

* `StreamInv`, the first two properties with what keeps them: no stream is of a
  generation to come (`NoneAhead`), an open has a stream of its own that it
  subscribes once (`OpensDiffer`), and an open of the current generation belongs
  to a tracked watch and carries the newest exclusions (`OpensAreCurrent`).
  Everything that overtakes an open raises generations, closes handles and may
  open again; `InvalidatedStreams` proves this once for an arbitrary set of
  watches, and unwatch, new exclusions, the fallback, `dispose()` and a new watch
  are instances of it.
* `CallInv`: a queued call, or the open of a `watch()`, is the only thing its watch
  waits for, so a watch never enters the map twice.
* `ModeInv`: before the fallback nothing of the watcher process exists, so a watch
  leaves the map by an answer of that process only when no stream is current.

`ServeInv` says where each watch is while the map is handed over: the process, its
server and its connection follow the fallback (`ProcInv`); the process knows of no
watch before `restoring`, and afterwards of each that is not being restored
(`NodeInv`); a `$watch` is sent once and no `$unwatch` before its answer (`AskInv`,
`SentOnce`), its start comes before its answer or rejection (`InOrder`); a watch
that is not in the map when its `unWatch()` comes is not at the process (`UnwatchInv`); a released watch is
nowhere, or `missed` or `renumbered` (`GoneInv`), and a held one is on an open stream, on
its way to one, or at the process, unless that one rejected or lost it (`HoldInv`). The
two theorems apply it
to a state in which all is settled.

### WatcherHost

`TypesHold`, `StartsStayCurrent` (`StartsAreCurrent`), `NewestApplies`
(`NewestExcludesApply`) and `HeldStaysWatched` (`HeldIsWatched`).

`StartsAreCurrent` alone is not inductive: a reset could renumber the watchers while
a start is awaited. `IInv` adds that every awaited start is the pending one of its
path and that a path has one at a time, so `NonePending`, the code's test of
`pendingWatchers`, really means that nothing is awaited; and that only recursive
starts under way belong to earlier watchers (`NativeInv`). `HostInv` adds what is put
off, only the last change and only while something is pending (`ExcludesInv`,
`PendingAreStarting`); that no id is given out twice and a task in a reset began on
earlier watchers (`TasksInv`); and, path by path (`PathInv`), that a record is of the
current watchers unless the path was overtaken, has its handler and excludes a start
(`RecordInv`), and that unless a half failed what is recorded is watched, what is
opening is awaited, and what is watched is recorded or starting (`ComesUp`). `Served`
says that what is held is recorded or under way. A step is about one path; `PathsKept`
and `ServedKept` carry the others over. `Mid` is what holds when a half has ended,
before its consequence; the three endings of `Promise.all` are a lemma each
(`UnsettledMore`, `SettledResets`, `SettledEnds`).

### ExtensionHosts

`TypesHold`, `HostsHaveOwners` (`NoOwnerlessHost`), `GoneAreLookedAfter`
(`GoneAreDisposed`) and `OpenAreReached` (`OpenAreServed`).

A disposal reads a process, awaits, and then deletes whatever the maps hold. So
the invariant has to say that for a client that is not raced the maps hold that
process or nothing: `Undisturbed`. The rest is what it needs. `SlotInv`: a disposal is
about a process of its client, which it kills or which does not run, and the
creation waits exactly for the disposal in slot 0. `EntryInv`: what the maps say of a
process is about one of the client's. `CreatorInv`: the creation in progress has no
process yet, and the room it found stays, as only the head of the queue forks.
`Marked` is what `Verify` relies on when it looks for clients that left, and
`LookedAfter` and `Served` are the two properties with the steps in between.
`Owned` says of each living process that the map has it or a disposal will kill it.
The steps follow one pattern: a process keeps its client and is never revived
(`HostsKept`), an operation leaves every other client as it was (`Fine` is preserved
wherever the client's own fields are), and its own client is treated by cases.

### RpcChannels

`TypesHold`, `ChannelsAreInSync` (`InSync`), `DataComeInOrder` (`InOrder`) and
`ResourcesAreHeld` (`HeldWhileOpen`).

`ThrownInv` says whose handlers threw. `TypeInv` also says that only sockets not yet closed carry messages and that no
message is of a channel the client does not have. `HeldInv`: a channel in the map
came with an open, and an open names the client of its socket; the close of a
nameless socket releases nothing, so without that it could remove the last channel
and leave the resources held. `OrderInv`: the numbers
of a path's data rise from what is received, over the wire, to the send queue, on
every socket. `FirstInv`: the data a channel has passed on since it is ready come after
every open of its path that is still to be read; an open whose handler throws is
answered by nothing, so only their order tells that it takes no datum with it.
`SyncInv`: the channel of the last open read on the current socket
stays in the map, and its data since are received or on that socket.

### TerminalSessions

`TypesHold`, `ShellsHaveKeepers` (`EveryShellHasAKeeper`) and `BatchesAreSent`
(`OutputIsSent`).

`TypeInv` relates the maps of the service and of the proxy: `terms` and `procs` name
PtyServices of their id, a session has a shell with a listener of that session, and
every living shell has a session. `KeeperInv` adds to the property what makes it
inductive: the PtyService that is bound, holds its session and hears its shell is
the terminal of its id, so that disposing of that one leases the shell; and a
session that was not taken over has one client, which excludes a lease. A shell whose
entry an exit event took (`crossed`) is followed up to the next start of its session,
which resumes it.

### Only model-checked

* Liveness: `ClientCatchesUp`, `DisposeCompletes`, `EnsureStartedSettles`,
  `EndsReachAll`, `CallsSettle`, `WatchSettles` and `Recovers`. The prover does not
  treat fairness and ENABLED.
* The three runs that expect a violation: `multiplex_isolation`,
  `watcher_host_stale_id` and `workspace_agent_late`.

No module that the proofs use declares a RECURSIVE operator; sums and counts are
folds and cardinalities.

## 7. Not modelled

Listed with reasons in `PROJECT.json`. Inside the modelled components:

* Workspace Agent and watchers: the Windows branches, a failing `fs.rm`,
  `createProcess` called again, the mode in which the manager uses the watcher
  process from the start, the event
  stream from the watchers to the client, and sharing of one Agent stream by
  several watches of one root.
* Multiplex: the transport handshake and frame headers.
* Extension hosts: the Electron branch, the remote host manager,
  `disposeAllClientExtProcess`, listen paths, debug ports and diagnostics.
* RPC channels: several clients (their ids never meet), a close handler that throws,
  and the requests carried by a channel.
* Terminals: a PTY server in a process of its own and its reconnection, the Electron
  branch, and the disposal of the whole service.

The front ends (editor, explorer, debug, widgets) are most of the source. Their
state is a view's, changed by one thread on events of the user, and has few of the
hazards that model checking reaches.
