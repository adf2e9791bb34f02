-------------------------- MODULE GatewayMultiplex --------------------------
(***************************************************************************)
(* The private multiplex-v1 transport: the WS Gateway (Go) carries every   *)
(* browser connection as a logical stream over one socket to Node, with    *)
(* OPEN, DATA and CLOSE frames.                                            *)
(*                                                                         *)
(* Source: src/go/workspace-agent/internal/gateway/multiplex.go,           *)
(*         gateway.go (bridge), and                                        *)
(*         src/packages/connection/src/electron/                           *)
(*             multiplex-channel-handler.ts.                               *)
(*                                                                         *)
(* Go side: per stream a bridge goroutine, a writer (copyBrowserToNode)    *)
(* and a reader (copyNodeToBrowser), and one readLoop; a step of each is   *)
(* what runs between two points where another goroutine can interfere.     *)
(* Node side: one event loop, a handler is a step.  Payloads are numbered  *)
(* per stream and direction; sizes and frame headers are left out, what    *)
(* exceeding a limit leads to is a fault that may happen.                  *)
(***************************************************************************)
EXTENDS Integers, Sequences, FiniteSets

CONSTANTS
    Streams,      \* logical streams that may be opened, never reused
    QueueFrames,  \* multiplexMaxQueuedFrames (256 in the code)
    MaxSent,      \* bound: payloads sent per stream and direction
    Faults        \* which of AllFaults may happen

AllFaults ==
    {"io",        \* a write or read of the socket fails, or Shutdown closes it
     "slow",      \* the byte limit of a stream's incoming queue
     "oversized", \* Node sends a payload above maxPayload
     "overflow"}  \* Node's socket buffer exceeds maxBufferedAmount

ASSUME StreamsAssumption == IsFiniteSet(Streams)
ASSUME LimitsAssumption == QueueFrames \in Nat \ {0} /\ MaxSent \in Nat
ASSUME FaultsAssumption == Faults \subseteq AllFaults

VARIABLES
    \* Go: the transport.
    goConn,      \* b.conn and b.closed: open, closed (the map not yet swept),
                 \* swept
    registered,  \* keys of b.streams
    loop,        \* readLoop: reading, stopped, or the frame it looked up
    toNode, toGo, \* the two directions of the socket
    \* Go: the streams and their bridges.
    bridge,      \* bridge.run: none, opening, running, closing, notifying,
                 \* draining, done
    writer,      \* copyBrowserToNode: reading, writing, done
    reader,      \* copyNodeToBrowser: reading, done
    terminated,  \* streams whose closed channel is closed
    incoming,    \* incomingQueue of each stream
    browser,     \* the WebSocket of each stream: connected, gone
    \* Node.
    nodeSock,    \* open, destroyed (close event to come), closed
    nodeStreams, \* keys of transport.streams
    nodeDone,    \* connections whose close() ran
    \* What was sent and received, per stream.
    browserSent, nodeGot, nodeSent, browserGot

goVars == <<goConn, registered, loop>>
wires == <<toNode, toGo>>
bridgeVars == <<bridge, writer, reader>>
streamVars == <<terminated, incoming, browser>>
nodeVars == <<nodeSock, nodeStreams, nodeDone>>
traffic == <<browserSent, nodeGot, nodeSent, browserGot>>
vars == <<goVars, wires, bridgeVars, streamVars, nodeVars, traffic>>

Open(s) == [type |-> "open", stream |-> s]
Data(s, k) == [type |-> "data", stream |-> s, payload |-> k]
Close(s) == [type |-> "close", stream |-> s]

-----------------------------------------------------------------------------
(* Go: the transport                                                       *)

\* writeFrame succeeded; or the socket is closed and b.close() is over.  A
\* write to a socket whose peer is gone may do either.
Written(frame) == goConn = "open" /\ toNode' = Append(toNode, frame)
WriteFailed == goConn = "swept" /\ UNCHANGED toNode

\* b.close(): a read or write error, or Shutdown.
BackendCloses ==
    /\ goConn = "open" /\ (nodeSock # "open" \/ "io" \in Faults)
    /\ goConn' = "closed"
    /\ UNCHANGED <<registered, loop, wires, bridgeVars, streamVars, nodeVars,
                   traffic>>

\* The rest of b.close(): every registered stream is taken out and terminated.
ForgetStreams == {}  \* a mutant
Swept == registered

BackendSweeps ==
    /\ goConn = "closed"
    /\ goConn' = "swept"
    /\ registered' = {}
    /\ terminated' = terminated \cup Swept
    /\ UNCHANGED <<loop, wires, bridgeVars, incoming, browser, nodeVars,
                   traffic>>

-----------------------------------------------------------------------------
(* Go: openStream, the bridge and its two copy loops                       *)

\* openStream: registered under the lock, unless the transport is closed.
Register(s) ==
    /\ bridge[s] = "none" /\ goConn = "open"
    /\ registered' = registered \cup {s}
    /\ bridge' = [bridge EXCEPT ![s] = "opening"]
    /\ browser' = [browser EXCEPT ![s] = "connected"]
    /\ UNCHANGED <<goConn, loop, wires, writer, reader, terminated, incoming,
                   nodeVars, traffic>>

WriteOpen(s) ==
    /\ bridge[s] = "opening"
    /\ Written(Open(s))
    /\ bridge' = [bridge EXCEPT ![s] = "running"]
    /\ writer' = [writer EXCEPT ![s] = "reading"]
    /\ reader' = [reader EXCEPT ![s] = "reading"]
    /\ UNCHANGED <<goVars, toGo, streamVars, nodeVars, traffic>>

WriteOpenFails(s) ==
    /\ bridge[s] = "opening"
    /\ WriteFailed
    /\ registered' = registered \ {s}
    /\ terminated' = terminated \cup (registered \cap {s})
    /\ bridge' = [bridge EXCEPT ![s] = "done"]
    /\ browser' = [browser EXCEPT ![s] = "gone"]
    /\ UNCHANGED <<goConn, loop, toGo, writer, reader, incoming, nodeVars,
                   traffic>>

\* The WebSocket ends: the user leaves, a ping fails, or Shutdown closes it.
BrowserLeaves(s) ==
    /\ browser[s] = "connected" /\ bridge[s] # "opening"
    /\ browser' = [browser EXCEPT ![s] = "gone"]
    /\ UNCHANGED <<goVars, wires, bridgeVars, terminated, incoming, nodeVars,
                   traffic>>

\* A browser message was read and Write saw the stream open.
WriterReads(s) ==
    /\ writer[s] = "reading" /\ browser[s] = "connected"
    /\ s \notin terminated
    /\ browserSent[s] < MaxSent
    /\ browserSent' = [browserSent EXCEPT ![s] = @ + 1]
    /\ writer' = [writer EXCEPT ![s] = "writing"]
    /\ UNCHANGED <<goVars, wires, bridge, reader, streamVars, nodeVars,
                   nodeGot, nodeSent, browserGot>>

\* Whatever happened to the stream since it was seen open.
WriterWrites(s) ==
    /\ writer[s] = "writing"
    /\ \/ Written(Data(s, browserSent[s])) /\ writer' = [writer EXCEPT ![s] = "reading"]
       \/ WriteFailed /\ writer' = [writer EXCEPT ![s] = "done"]
    /\ UNCHANGED <<goVars, toGo, bridge, reader, streamVars, nodeVars, traffic>>

\* The WebSocket is closed, or a message was read for a terminated stream.
WriterStops(s) ==
    /\ writer[s] = "reading"
    /\ browser[s] = "gone" \/ s \in terminated
    /\ writer' = [writer EXCEPT ![s] = "done"]
    /\ UNCHANGED <<goVars, wires, bridge, reader, streamVars, nodeVars, traffic>>

ReaderReads(s) ==
    /\ reader[s] = "reading" /\ browser[s] = "connected"
    /\ s \notin terminated /\ incoming[s] # <<>>
    /\ browserGot' = [browserGot EXCEPT ![s] = Append(@, Head(incoming[s]))]
    /\ incoming' = [incoming EXCEPT ![s] = Tail(@)]
    /\ UNCHANGED <<goVars, wires, bridgeVars, terminated, browser, nodeVars,
                   browserSent, nodeGot, nodeSent>>

\* The stream is terminated (queued payloads are not read any more), or a
\* payload could not be written to the WebSocket.
ReaderStops(s) ==
    /\ reader[s] = "reading"
    /\ s \in terminated \/ (incoming[s] # <<>> /\ browser[s] = "gone")
    /\ reader' = [reader EXCEPT ![s] = "done"]
    /\ UNCHANGED <<goVars, wires, bridge, writer, streamVars, nodeVars, traffic>>

\* run: the first copy loop or the heartbeat failed; bridge.close() closes the
\* WebSocket.
BridgeCloses(s) ==
    /\ bridge[s] = "running"
    /\ writer[s] = "done" \/ reader[s] = "done" \/ browser[s] = "gone"
    /\ bridge' = [bridge EXCEPT ![s] = "closing"]
    /\ browser' = [browser EXCEPT ![s] = "gone"]
    /\ UNCHANGED <<goVars, wires, writer, reader, terminated, incoming,
                   nodeVars, traffic>>

\* closeStream(id, true, ...) of the bridge: whoever takes the stream out of the
\* map writes CLOSE, then terminates it.
AfterDeregister(s) == IF s \in registered THEN "notifying" ELSE "draining"

BridgeDeregisters(s) ==
    /\ bridge[s] = "closing"
    /\ registered' = registered \ {s}
    /\ bridge' = [bridge EXCEPT ![s] = AfterDeregister(s)]
    /\ UNCHANGED <<goConn, loop, wires, writer, reader, streamVars, nodeVars,
                   traffic>>

BridgeNotifies(s) ==
    /\ bridge[s] = "notifying"
    /\ Written(Close(s)) \/ WriteFailed
    /\ terminated' = terminated \cup {s}
    /\ bridge' = [bridge EXCEPT ![s] = "draining"]
    /\ UNCHANGED <<goVars, toGo, writer, reader, incoming, browser, nodeVars,
                   traffic>>

BridgeDone(s) ==
    /\ bridge[s] = "draining" /\ writer[s] = "done" /\ reader[s] = "done"
    /\ bridge' = [bridge EXCEPT ![s] = "done"]
    /\ UNCHANGED <<goVars, wires, writer, reader, streamVars, nodeVars, traffic>>

-----------------------------------------------------------------------------
(* Go: readLoop                                                            *)

\* The next frame, and the look-up of its stream under the lock: an unknown
\* stream is a protocol error that closes the transport.
LoopReads ==
    /\ loop.type = "reading" /\ goConn = "open" /\ toGo # <<>>
    /\ toGo' = Tail(toGo)
    /\ IF Head(toGo).stream \in registered
       THEN loop' = Head(toGo) /\ UNCHANGED goConn
       ELSE loop' = [type |-> "stopped"] /\ goConn' = "closed"
    /\ UNCHANGED <<registered, toNode, bridgeVars, streamVars, nodeVars, traffic>>

\* deliver
KeepNewest(s) == <<loop.payload>>      \* a mutant
Twice(s) == incoming[s] \o <<loop.payload, loop.payload>>  \* a mutant
Queues(s) == s \notin terminated /\ Len(incoming[s]) < QueueFrames
Enqueued(s) == Append(incoming[s], loop.payload)

LoopDelivers ==
    /\ loop.type = "data"
    /\ Queues(loop.stream)
    /\ incoming' = [incoming EXCEPT ![loop.stream] = Enqueued(loop.stream)]
    /\ loop' = [type |-> "reading"]
    /\ UNCHANGED <<goConn, registered, wires, bridgeVars, terminated, browser,
                   nodeVars, traffic>>

\* deliver refused: closeStream(id, true, ...), unless another did.
SilentRefusal == [type |-> "reading"]  \* a mutant
AfterRefusal == IF loop.stream \in registered
                THEN [type |-> "notify", stream |-> loop.stream]
                ELSE [type |-> "reading"]

LoopRefuses ==
    /\ loop.type = "data"
    /\ ~Queues(loop.stream) \/ "slow" \in Faults
    /\ registered' = registered \ {loop.stream}
    /\ loop' = AfterRefusal
    /\ UNCHANGED <<goConn, wires, bridgeVars, streamVars, nodeVars, traffic>>

LoopNotifies ==
    /\ loop.type = "notify"
    /\ Written(Close(loop.stream)) \/ WriteFailed
    /\ terminated' = terminated \cup {loop.stream}
    /\ loop' = [type |-> "reading"]
    /\ UNCHANGED <<goConn, registered, toGo, bridgeVars, incoming, browser,
                   nodeVars, traffic>>

\* CLOSE from Node: closeStream(id, false, EOF).
LoopCloses ==
    /\ loop.type = "close"
    /\ registered' = registered \ {loop.stream}
    /\ terminated' = terminated \cup (registered \cap {loop.stream})
    /\ loop' = [type |-> "reading"]
    /\ UNCHANGED <<goConn, wires, bridgeVars, incoming, browser, nodeVars,
                   traffic>>

LoopStops ==
    /\ loop.type = "reading" /\ goConn # "open"
    /\ loop' = [type |-> "stopped"]
    /\ UNCHANGED <<goConn, registered, wires, bridgeVars, streamVars, nodeVars,
                   traffic>>

-----------------------------------------------------------------------------
(* Node                                                                    *)

\* dispatch: a frame of an unknown stream destroys the socket.
NodeDispatches ==
    /\ nodeSock = "open" /\ toNode # <<>>
    /\ toNode' = Tail(toNode)
    /\ LET frame == Head(toNode)
           s == frame.stream
       IN  \/ /\ frame.type = "open" /\ s \notin nodeStreams
              /\ nodeStreams' = nodeStreams \cup {s}
              /\ UNCHANGED <<nodeSock, nodeDone, nodeGot>>
           \/ /\ frame.type = "data" /\ s \in nodeStreams
              /\ nodeGot' = [nodeGot EXCEPT ![s] = Append(@, frame.payload)]
              /\ UNCHANGED nodeVars
           \/ /\ frame.type = "close" /\ s \in nodeStreams
              /\ nodeStreams' = nodeStreams \ {s}
              /\ nodeDone' = nodeDone \cup {s}
              /\ UNCHANGED <<nodeSock, nodeGot>>
           \/ /\ (frame.type = "open") = (s \in nodeStreams)
              /\ nodeSock' = "destroyed"
              /\ UNCHANGED <<nodeStreams, nodeDone, nodeGot>>
    /\ UNCHANGED <<goVars, toGo, bridgeVars, streamVars, browserSent, nodeSent,
                   browserGot>>

\* socket.write; nothing is written to a destroyed socket.
NodeWrites(frame) ==
    toGo' = IF nodeSock = "open" THEN Append(toGo, frame) ELSE toGo

\* send: the frame is written, or the buffered output is too large and the
\* socket is destroyed.
NodeSends(s) ==
    /\ s \in nodeStreams /\ nodeSent[s] < MaxSent
    /\ nodeSent' = [nodeSent EXCEPT ![s] = @ + 1]
    /\ \/ NodeWrites(Data(s, nodeSent[s] + 1)) /\ UNCHANGED nodeSock
       \/ "overflow" \in Faults /\ nodeSock' = "destroyed" /\ UNCHANGED toGo
    /\ UNCHANGED <<goVars, toNode, bridgeVars, streamVars, nodeStreams,
                   nodeDone, browserSent, nodeGot, browserGot>>

\* sendData of a payload that is too large: closeStream.
NodeClosesStream(s) ==
    /\ "oversized" \in Faults /\ s \in nodeStreams
    /\ nodeStreams' = nodeStreams \ {s}
    /\ nodeDone' = nodeDone \cup {s}
    /\ NodeWrites(Close(s))
    /\ UNCHANGED <<goVars, toNode, bridgeVars, streamVars, nodeSock, traffic>>

\* The close event of the socket: closeAll.
NodeSocketCloses ==
    /\ nodeSock = "destroyed" \/ (nodeSock = "open" /\ goConn # "open")
    /\ nodeSock' = "closed"
    /\ nodeStreams' = {}
    /\ nodeDone' = nodeDone \cup nodeStreams
    /\ UNCHANGED <<goVars, wires, bridgeVars, streamVars, traffic>>

-----------------------------------------------------------------------------
Init ==
    /\ goConn = "open" /\ registered = {} /\ loop = [type |-> "reading"]
    /\ toNode = <<>> /\ toGo = <<>>
    /\ bridge = [s \in Streams |-> "none"]
    /\ writer = [s \in Streams |-> "done"]
    /\ reader = [s \in Streams |-> "done"]
    /\ terminated = {} /\ incoming = [s \in Streams |-> <<>>]
    /\ browser = [s \in Streams |-> "gone"]
    /\ nodeSock = "open" /\ nodeStreams = {} /\ nodeDone = {}
    /\ browserSent = [s \in Streams |-> 0] /\ nodeSent = [s \in Streams |-> 0]
    /\ nodeGot = [s \in Streams |-> <<>>]
    /\ browserGot = [s \in Streams |-> <<>>]

BridgeStep(s) == \/ WriteOpen(s) \/ WriteOpenFails(s) \/ BridgeCloses(s)
                 \/ BridgeDeregisters(s) \/ BridgeNotifies(s) \/ BridgeDone(s)
WriterStep(s) == WriterWrites(s) \/ WriterStops(s)
ReaderStep(s) == ReaderReads(s) \/ ReaderStops(s)
LoopStep == \/ LoopReads \/ LoopDelivers \/ LoopRefuses \/ LoopNotifies
            \/ LoopCloses \/ LoopStops

Next == \/ BackendCloses \/ BackendSweeps
        \/ \E s \in Streams :
              \/ Register(s) \/ BrowserLeaves(s) \/ WriterReads(s)
              \/ BridgeStep(s) \/ WriterStep(s) \/ ReaderStep(s)
              \/ NodeSends(s) \/ NodeClosesStream(s)
        \/ LoopStep
        \/ NodeDispatches \/ NodeSocketCloses

Spec == Init /\ [][Next]_vars

\* The Go scheduler runs every goroutine that can take a step, the Node event
\* loop every handler; a closed socket is noticed by the other side.  Opening,
\* sending and leaving are up to the users.
Fairness ==
    /\ WF_vars(nodeSock # "open" /\ BackendCloses) /\ WF_vars(BackendSweeps)
    /\ \A s \in Streams : /\ WF_vars(BridgeStep(s)) /\ WF_vars(WriterStep(s))
                          /\ WF_vars(ReaderStep(s))
    /\ WF_vars(LoopStep)
    /\ WF_vars(NodeDispatches) /\ WF_vars(NodeSocketCloses)

FairSpec == Spec /\ Fairness

-----------------------------------------------------------------------------
(* Properties                                                              *)

Frames == [type : {"open", "close"}, stream : Streams] \cup
          [type : {"data"}, stream : Streams, payload : 1..MaxSent]

\* The types of the state; the incoming queue of a stream is bounded.
TypeOK ==
    /\ goConn \in {"open", "closed", "swept"}
    /\ registered \subseteq Streams /\ terminated \subseteq Streams
    /\ loop \in Frames \cup [type : {"notify"}, stream : Streams]
               \cup [type : {"reading", "stopped"}]
    /\ toNode \in Seq(Frames) /\ toGo \in Seq(Frames)
    /\ bridge \in [Streams -> {"none", "opening", "running", "closing",
                               "notifying", "draining", "done"}]
    /\ writer \in [Streams -> {"reading", "writing", "done"}]
    /\ reader \in [Streams -> {"reading", "done"}]
    /\ incoming \in [Streams -> Seq(1..MaxSent)]
    /\ \A s \in Streams : Len(incoming[s]) <= QueueFrames
    /\ browser \in [Streams -> {"connected", "gone"}]
    /\ nodeSock \in {"open", "destroyed", "closed"}
    /\ nodeStreams \subseteq Streams /\ nodeDone \subseteq Streams
    /\ browserSent \in [Streams -> 0..MaxSent]
    /\ nodeSent \in [Streams -> 0..MaxSent]
    /\ nodeGot \in [Streams -> Seq(1..MaxSent)]
    /\ browserGot \in [Streams -> Seq(1..MaxSent)]

InWire(frame, wire) == \E i \in DOMAIN wire : wire[i] = frame

\* The CLOSE frames of a stream that are under way to Node or about to be.
Closers(s) == {<<"wire", i>> : i \in {j \in DOMAIN toNode : toNode[j] = Close(s)}}
              \cup {<<"bridge", s>> : b \in {bridge[s]} \cap {"notifying"}}
              \cup {<<"loop", s>> : t \in {loop} \cap {[type |-> "notify", stream |-> s]}}

\* CLOSE is sent at most once, after the stream was taken out of the map.
CloseOnce ==
    goConn = "open" =>
        \A s \in Streams : /\ Cardinality(Closers(s)) <= 1
                           /\ s \in registered => Closers(s) = {}

\* While the transport is up, a stream only one side knows is one whose OPEN or
\* CLOSE is under way.
BothSidesKnow ==
    goConn = "open" /\ nodeSock = "open" =>
        /\ \A s \in nodeStreams \ registered : Closers(s) # {}
        /\ \A s \in registered \ nodeStreams :
              \/ bridge[s] = "opening" \/ InWire(Open(s), toNode)
              \/ InWire(Close(s), toGo) \/ loop = Close(s)

\* The bridge, the slow-consumer path of readLoop and a CLOSE from Node race to
\* close a stream: one wins.  A second CLOSE would destroy the transport, none
\* would leave a stream on the other side for ever.
NoHalfOpenStream == CloseOnce /\ BothSidesKnow

\* In both directions every logical stream is a FIFO channel without gaps,
\* duplicates or cross-talk, whatever the goroutines and the faults do.
Links == Streams \X {"up", "down"}
Channels == INSTANCE LogicalChannels WITH
    sent <- [l \in Links |-> IF l[2] = "up" THEN browserSent[l[1]]
                                           ELSE nodeSent[l[1]]],
    got <- [l \in Links |-> IF l[2] = "up" THEN nodeGot[l[1]]
                                          ELSE browserGot[l[1]]],
    over <- (nodeDone \X {"up"}) \cup
            {l \in Links : /\ l[2] = "down" /\ reader[l[1]] = "done"
                           /\ bridge[l[1]] \notin {"none", "opening"}}
ImplementsChannels == Channels!Spec

\* A browser that leaves is cleaned up on both sides: its goroutines end and
\* Node closes the logical connection.
BrowserCloseReachesNode ==
    \A s \in Streams :
        (bridge[s] = "running" /\ browser[s] = "gone") ~>
            (bridge[s] = "done" /\ (s \in nodeDone \/ nodeSock = "closed"))

\* When the physical transport fails on either side, every logical stream ends
\* on both sides and no goroutine of it is left.
TransportFailureReachesAll ==
    (goConn # "open" \/ nodeSock # "open") ~>
        (/\ nodeSock = "closed" /\ nodeStreams = {}
         /\ \A s \in Streams : bridge[s] \in {"none", "done"})

\* The end of a browser or of the transport is noticed by everybody concerned:
\* goroutines blocked in a read or a write wake up, Node closes its side.
EndsReachAll == BrowserCloseReachesNode /\ TransportFailureReachesAll

\* Closing one logical stream leaves the others usable: without a fault, a
\* stream whose browser stays connected is not terminated.
ClosingOneKeepsOthers ==
    Faults = {} => \A s \in terminated : browser[s] = "gone"
=============================================================================
