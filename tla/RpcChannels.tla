---------------------------- MODULE RpcChannels ----------------------------
(***************************************************************************)
(* The logical channels of one browser over a socket that reconnects.  The *)
(* client opens a channel with a traced message that it repeats until a    *)
(* server-ready answers it; a closed socket pauses its channels and a new  *)
(* one reopens them under the same ids, while the server may still read    *)
(* the old socket and has yet to notice that it is closed.                 *)
(*                                                                         *)
(* Source: src/packages/connection/src: browser/ws-channel-handler.ts and  *)
(* common/ws-channel.ts (client), common/server-handler.ts (server).       *)
(*                                                                         *)
(* The k-th datum of a path is the number k.  What the client sends while  *)
(* it has no socket waits in the reconnecting socket, which sends it first *)
(* when it opens: that buffer is the queue of the next socket.  What the   *)
(* server's programs send matters here only as it keeps the client from    *)
(* its heartbeat; a pong, which comes after one, is left out.  Channels of *)
(* other clients have other ids and share nothing with these.              *)
(***************************************************************************)
EXTENDS Integers, Sequences, SequencesExt

CONSTANTS
    Paths,
    Speaking,    \* paths on which the server's program sends data
    Throwing,    \* paths whose handler may throw when a channel opens
    MaxSockets,  \* bound: sockets, the last of which does not fail
    MaxTraces,   \* bound: trace ids in use at a time
    MaxRetries,  \* bound: repeated opens
    MaxOpens,    \* bound: openChannel calls
    MaxSends     \* bound: data

ASSUME BoundsAssumption ==
    /\ Speaking \subseteq Paths /\ Throwing \subseteq Paths
    /\ MaxSockets \in Nat \ {0} /\ MaxTraces \in Nat \ {0}
    /\ MaxRetries \in Nat /\ MaxOpens \in Nat /\ MaxSends \in Nat

Sockets == 1..MaxSockets
Traces == 1..MaxTraces

VARIABLES
    \* The client.
    sock,      \* its newest socket
    up,        \* that socket is open at the client's end
    opened,    \* paths of its channels, in the order of channelMap
    ready,     \* _isServerReady: paths whose channel may send
    sendQueue, \* per path, data that wait for it
    traces,    \* per path, traced opens whose timer is set
    sent,      \* per path, data sent so far
    retries, calls, sends, \* bounds: how many there were
    \* The wire: what is sent on a socket and not yet read.
    toServer, toClient,
    \* The server.
    closed,    \* sockets whose close it has handled
    chan,      \* channelMap: the socket of the channel of a path, 0 if it has none
    named,     \* sockets whose clientId is set: an open was handled on them
    held,      \* handlers were given a channel of the client and have not been
               \* told to dispose since
    thrown,    \* paths whose channel in the map has a handler that threw
    \* History, for the properties only.
    fresh,     \* per path, data sent since the client's last open event
    got,       \* per path, data the channel in the map received, with their sockets
    lastOpen   \* per path, the socket of the last open the server handled

client == <<sock, up, opened, ready, sendQueue, traces, sent, retries, calls,
            sends, fresh>>
server == <<closed, chan, named, held, thrown, got, lastOpen>>
vars == <<client, toServer, toClient, server>>

Open(p, t) == [kind |-> "open", path |-> p, n |-> t]
Data(p, k) == [kind |-> "data", path |-> p, n |-> k]
Ping(p) == [kind |-> "ping", path |-> p, n |-> 0]
Ready(p, t) == [kind |-> "server-ready", path |-> p, n |-> t]
NotFound(p) == [kind |-> "error", path |-> p, n |-> 0]

-----------------------------------------------------------------------------
(* The client                                                              *)

Known == ToSet(opened)
Wire == IF up THEN sock ELSE sock + 1
Transmit(msgs) == toServer' = [toServer EXCEPT ![Wire] = @ \o msgs]

\* A random trace id: one that no timer and no message has.
InUse(p) ==
    traces[p] \cup {m.n : m \in UNION {ToSet(toServer[s]) \cup ToSet(toClient[s]) :
        s \in Sockets} \cap [kind : {"open", "server-ready"}, path : {p}, n : Traces]}
NewTrace(p) == CHOOSE t \in Traces \ InUse(p) : TRUE
HasTrace(p) == Traces \ InUse(p) # {}  \* bound

\* openChannel: the first one for a path, or a new channel in the place of one
\* that is disposed of with its timers and its queue.
OpenChannel(p) ==
    /\ calls < MaxOpens /\ calls' = calls + 1  \* bound
    /\ HasTrace(p)
    /\ opened' = IF p \in Known THEN opened ELSE Append(opened, p)
    /\ ready' = ready \ {p}
    /\ sendQueue' = [sendQueue EXCEPT ![p] = <<>>]
    /\ fresh' = [fresh EXCEPT ![p] = {}]
    /\ traces' = [traces EXCEPT ![p] = {NewTrace(p)}]
    /\ Transmit(<<Open(p, NewTrace(p))>>)
    /\ UNCHANGED <<sock, up, sent, retries, sends, toClient, server>>

\* send, through inqueue.
SentAtOnce(p) == up  \* a mutant
MaySend(p) == p \in ready

Send(p) ==
    LET k == sent[p] + 1 IN
    /\ p \in Known
    /\ sends < MaxSends /\ sends' = sends + 1  \* bound
    /\ sent' = [sent EXCEPT ![p] = k]
    /\ IF MaySend(p)
       THEN /\ Transmit(<<Data(p, k)>>)
            /\ fresh' = [fresh EXCEPT ![p] = @ \cup {k}]
            /\ UNCHANGED sendQueue
       ELSE /\ sendQueue' = [sendQueue EXCEPT ![p] = Append(@, k)]
            /\ UNCHANGED <<toServer, fresh>>
    /\ UNCHANGED <<sock, up, opened, ready, traces, retries, calls, toClient, server>>

\* The timer of a traced open: it ends once the channel is ready, whoever was
\* answered; else the message goes out again.
Retry(p, t) ==
    /\ t \in traces[p]
    /\ IF p \in ready
       THEN /\ traces' = [traces EXCEPT ![p] = @ \ {t}]
            /\ UNCHANGED <<retries, toServer>>
       ELSE /\ retries < MaxRetries /\ retries' = retries + 1  \* bound
            /\ Transmit(<<Open(p, t)>>)
            /\ UNCHANGED traces
    /\ UNCHANGED <<sock, up, opened, ready, sendQueue, sent, calls, sends, fresh,
                   toClient, server>>

\* The heartbeat of every channel.  Its timer starts anew with every message that
\* the client receives and fires when none has come for ten seconds.
Heartbeat ==
    /\ up /\ toClient[sock] = <<>> /\ opened # <<>>
    /\ toServer[sock] = <<>>  \* bound: the socket is idle
    /\ Transmit([i \in DOMAIN opened |-> Ping(opened[i])])
    /\ UNCHANGED <<client, toClient, server>>

\* The queue is sent and empty: the channel is ready.
KeptQueue(p) == sendQueue[p]  \* a mutant
LeftInQueue(p) == <<>>

Resume(p) ==
    LET data == [i \in DOMAIN sendQueue[p] |-> Data(p, sendQueue[p][i])] IN
    /\ ready' = ready \cup {p}
    /\ Transmit(data)
    /\ fresh' = [fresh EXCEPT ![p] = ToSet(sendQueue[p])]
    /\ sendQueue' = [sendQueue EXCEPT ![p] = LeftInQueue(p)]

\* server-ready ends the timer of its trace and makes the channel resume; its
\* open event, from the second on, is a reopen event.
ReceiveReady(p, t) ==
    /\ traces' = [traces EXCEPT ![p] = @ \ {t}]
    /\ Resume(p)

\* ChannelNotFound: the channel pauses and is opened again.
ReceiveNotFound(p) ==
    /\ HasTrace(p)
    /\ ready' = ready \ {p}
    /\ traces' = [traces EXCEPT ![p] = @ \cup {NewTrace(p)}]
    /\ Transmit(<<Open(p, NewTrace(p))>>)
    /\ UNCHANGED <<sendQueue, fresh>>

\* Data are handed to the program.
ReceiveData == UNCHANGED <<ready, sendQueue, traces, fresh, toServer>>

ClientReceives ==
    /\ up /\ toClient[sock] # <<>>
    /\ LET m == Head(toClient[sock]) IN
         \/ m.kind = "server-ready" /\ ReceiveReady(m.path, m.n)
         \/ m.kind = "error" /\ ReceiveNotFound(m.path)
         \/ m.kind = "data" /\ ReceiveData
    /\ toClient' = [toClient EXCEPT ![sock] = Tail(@)]
    /\ UNCHANGED <<sock, up, opened, sent, retries, calls, sends, server>>

\* The socket closes at the client's end: every channel pauses.
SocketCloses ==
    /\ up /\ sock < MaxSockets  \* bound
    /\ up' = FALSE
    /\ ready' = {}
    /\ toClient' = [toClient EXCEPT ![sock] = <<>>]
    /\ UNCHANGED <<sock, opened, sendQueue, traces, sent, retries, calls, sends,
                   fresh, toServer, server>>

\* A new socket: every channel is opened again, with a new trace.
SocketOpens ==
    /\ ~up /\ \A p \in Known : HasTrace(p)
    /\ sock' = sock + 1 /\ up' = TRUE
    /\ traces' = [p \in Paths |->
         IF p \in Known THEN traces[p] \cup {NewTrace(p)} ELSE traces[p]]
    /\ Transmit([i \in DOMAIN opened |-> Open(opened[i], NewTrace(opened[i]))])
    /\ UNCHANGED <<opened, ready, sendQueue, sent, retries, calls, sends, fresh,
                   toClient, server>>

-----------------------------------------------------------------------------
(* The server                                                              *)

\* An answer on a socket that the client has left is lost.
Reply(s, m) ==
    toClient' = IF up /\ s = sock THEN [toClient EXCEPT ![s] = Append(@, m)]
                ELSE toClient

\* 'open' takes the place of a channel that has the id.  A path handler that
\* throws leaves the new channel in the map, and the client without an answer.
ServeOpen(s, p, t) ==
    /\ chan' = [chan EXCEPT ![p] = s]
    /\ got' = [got EXCEPT ![p] = <<>>]
    /\ lastOpen' = [lastOpen EXCEPT ![p] = s]
    /\ named' = named \cup {s}
    /\ held' = TRUE
    /\ \/ Reply(s, Ready(p, t)) /\ thrown' = thrown \ {p}
       \/ p \in Throwing /\ thrown' = thrown \cup {p} /\ UNCHANGED toClient

\* Any other message goes to the channel of its id, whatever socket it is on.
Silence(s, p) == toClient' = toClient  \* a mutant
ReplyNotFound(s, p) == Reply(s, NotFound(p))

ServeOther(s, m) ==
    /\ IF chan[m.path] = 0
       THEN ReplyNotFound(s, m.path) /\ UNCHANGED got
       ELSE /\ got' = IF m.kind = "data"
                      THEN [got EXCEPT ![m.path] = Append(@, <<s, m.n>>)] ELSE got
            /\ UNCHANGED toClient
    /\ UNCHANGED <<chan, named, held, thrown, lastOpen>>

ServerReceives(s) ==
    /\ s <= sock /\ s \notin closed /\ toServer[s] # <<>>
    /\ LET m == Head(toServer[s]) IN
         IF m.kind = "open" THEN ServeOpen(s, m.path, m.n) ELSE ServeOther(s, m)
    /\ toServer' = [toServer EXCEPT ![s] = Tail(@)]
    /\ UNCHANGED <<client, closed>>

\* The server's program sends on a channel.
ServerSends(p) ==
    /\ p \in Speaking /\ chan[p] # 0
    /\ toClient[chan[p]] = <<>> /\ toServer[chan[p]] = <<>>  \* bound: it is idle
    /\ Reply(chan[p], Data(p, 0))
    /\ UNCHANGED <<client, toServer, server>>

\* The close of a socket, which may reach the server late or be its own doing:
\* the channels of that socket leave the map.  Without another channel of the
\* client the path handlers dispose of what they hold for it; a socket on which
\* nothing was opened names no client.
ClosedWithClient(s) == {p \in Paths : chan[p] # 0}  \* a mutant
ClosedWith(s) == {p \in Paths : chan[p] = s}
NoneBefore(s) == \A p \in Paths : chan[p] = 0  \* a mutant
HasNoReplacement(s) == \A p \in Paths : chan[p] \in {0, s}

ServerCloses(s) ==
    /\ s <= sock /\ s \notin closed /\ s < MaxSockets  \* bound
    /\ closed' = closed \cup {s}
    /\ toServer' = [toServer EXCEPT ![s] = <<>>]
    /\ chan' = [p \in Paths |-> IF p \in ClosedWith(s) THEN 0 ELSE chan[p]]
    /\ got' = [p \in Paths |-> IF p \in ClosedWith(s) THEN <<>> ELSE got[p]]
    /\ held' = (held /\ ~(s \in named /\ HasNoReplacement(s)))
    /\ thrown' = thrown \ ClosedWith(s)
    /\ UNCHANGED <<client, toClient, named, lastOpen>>

-----------------------------------------------------------------------------

Init ==
    /\ sock = 1 /\ up = TRUE
    /\ opened = <<>> /\ ready = {}
    /\ sendQueue = [p \in Paths |-> <<>>]
    /\ traces = [p \in Paths |-> {}]
    /\ sent = [p \in Paths |-> 0] /\ retries = 0 /\ calls = 0 /\ sends = 0
    /\ toServer = [s \in Sockets |-> <<>>] /\ toClient = [s \in Sockets |-> <<>>]
    /\ closed = {} /\ chan = [p \in Paths |-> 0]
    /\ named = {} /\ held = FALSE /\ thrown = {}
    /\ fresh = [p \in Paths |-> {}]
    /\ got = [p \in Paths |-> <<>>]
    /\ lastOpen = [p \in Paths |-> 0]

Client ==
    \/ \E p \in Paths : OpenChannel(p) \/ Send(p) \/ \E t \in Traces : Retry(p, t)
    \/ Heartbeat \/ ClientReceives \/ SocketCloses \/ SocketOpens

Server ==
    \/ \E s \in Sockets : ServerReceives(s) \/ ServerCloses(s)
    \/ \E p \in Paths : ServerSends(p)

Next == Client \/ Server

\* Both ends read what has arrived.  A socket that one end has left closes at
\* the other sooner or later, and the client tries to connect until it succeeds
\* (the reconnecting socket).  The heartbeat's timer fires if from some time on
\* no message comes; whoever sends one in every ten seconds puts it off for ever.
\* Nothing is assumed of the programs above, nor of the retry timer.
Fairness ==
    /\ \A s \in Sockets :
         /\ WF_vars(ServerReceives(s))
         /\ WF_vars((s < sock \/ ~up) /\ ServerCloses(s))
    /\ WF_vars(ClientReceives)
    /\ WF_vars(sock \in closed /\ SocketCloses)
    /\ WF_vars(SocketOpens)
    /\ WF_vars(Heartbeat)

Spec == Init /\ [][Next]_vars /\ Fairness

-----------------------------------------------------------------------------
(* Properties                                                              *)

Entries(p) == {got[p][i][2] : i \in DOMAIN got[p]}

\* Types, and the channels that may be ready, queue or be traced.
TypeOK ==
    /\ sock \in Sockets /\ up \in BOOLEAN /\ (~up => sock < MaxSockets)
    /\ opened \in Seq(Paths) /\ ready \subseteq Known
    /\ (ready # {} => up)
    /\ \A p \in Paths :
         /\ sendQueue[p] \in Seq(1..MaxSends) /\ sent[p] \in 0..MaxSends
         /\ traces[p] \subseteq Traces
         /\ chan[p] \in (0..sock) \ closed
         /\ p \notin Known => sendQueue[p] = <<>> /\ traces[p] = {} /\ chan[p] = 0
         /\ p \in ready => sendQueue[p] = <<>>
    /\ retries \in 0..MaxRetries /\ calls \in 0..MaxOpens /\ sends \in 0..MaxSends
    /\ closed \subseteq 1..sock /\ named \subseteq 1..sock /\ held \in BOOLEAN
    /\ thrown \subseteq Throwing
    /\ \A s \in Sockets :
         /\ toServer[s] # <<>> => s <= Wire
         /\ toClient[s] # <<>> => up /\ s = sock

Told(p) == \E m \in ToSet(toClient[sock]) : m.path = p /\ m.kind # "data"

\* A channel that may send has a channel at the server, on its socket, and that
\* one has received or will receive every datum sent since the client's last
\* open event; else another open event or an error is on its way.  Excepted is a
\* channel that an open read late from an older socket has replaced.
InSync ==
    \A p \in ready :
        sock \notin closed /\ lastOpen[p] = sock /\ ~Told(p) =>
            /\ chan[p] = sock
            /\ \A k \in fresh[p] :
                 k \in Entries(p) \/ Data(p, k) \in ToSet(toServer[sock])

\* What a channel at the server receives from one socket is in the order of the
\* calls of send and without repetition, whatever was queued, repeated, paused
\* and resumed.
InOrder ==
    \A p \in Paths : \A i, j \in DOMAIN got[p] :
        i < j /\ got[p][i][1] = got[p][j][1] => got[p][i][2] < got[p][j][2]

\* The handlers keep resources for the client exactly as long as one of its
\* channels is in the map, in whatever order its sockets open and close.
HeldWhileOpen == held <=> \E p \in Paths : chan[p] # 0

\* The server's programs stop sending, or pause long enough for a heartbeat after
\* everything else is over.
ServerPauses == <>[](\A s \in Sockets : \A p \in Paths : Data(p, 0) \notin ToSet(toClient[s]))

\* Once the sockets stop failing every channel of the client is ready, has an
\* empty queue, and is served on the socket the client uses: the stale close, or
\* the stale open, of an older socket is repaired.  That needs a heartbeat, so the
\* server must pause; and a channel whose handler threw needs another open.
Recovers ==
    ServerPauses /\ <>[](thrown = {}) =>
        <>[](\A p \in Known : p \in ready /\ chan[p] = sock /\ sendQueue[p] = <<>>)
=============================================================================
