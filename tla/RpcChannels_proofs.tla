--------------------------- MODULE RpcChannels_proofs ---------------------------
(* Proofs about RpcChannels, for every value of its constants.                 *)
EXTENDS RpcChannels, SequenceTheorems, TLAPS

ClientMsgs == [kind : {"open"}, path : Paths, n : Traces] \cup
              [kind : {"data"}, path : Paths, n : 1..MaxSends] \cup
              [kind : {"ping"}, path : Paths, n : {0}]
ServerMsgs == [kind : {"server-ready"}, path : Paths, n : Traces] \cup
              [kind : {"error", "data"}, path : Paths, n : {0}]

IsData(m, p) == m.kind = "data" /\ m.path = p

-----------------------------------------------------------------------------
(* The inductive invariant.                                                    *)

\* The sockets and the channels of the client.
BasicInv ==
    /\ sock \in Sockets /\ up \in BOOLEAN /\ (~up => sock < MaxSockets)
    /\ opened \in Seq(Paths) /\ ready \subseteq Known /\ (ready # {} => up)
    /\ retries \in 0..MaxRetries /\ calls \in 0..MaxOpens /\ sends \in 0..MaxSends
    /\ closed \subseteq 1..sock /\ named \subseteq 1..sock /\ held \in BOOLEAN

\* What the client keeps for each path.
ClientInv ==
    /\ sendQueue \in [Paths -> Seq(1..MaxSends)] /\ sent \in [Paths -> 0..MaxSends]
    /\ traces \in [Paths -> SUBSET Traces] /\ fresh \in [Paths -> SUBSET (1..MaxSends)]
    /\ \A p \in Paths :
         /\ sent[p] <= sends
         /\ p \notin Known => sendQueue[p] = <<>> /\ traces[p] = {}
         /\ p \in ready => sendQueue[p] = <<>>

\* What is on the wire belongs to channels that the client has.
OfKnown(w) == \A i \in DOMAIN w : w[i].path \in Known
WireInv ==
    /\ toServer \in [Sockets -> Seq(ClientMsgs)]
    /\ toClient \in [Sockets -> Seq(ServerMsgs)]
    /\ \A s \in Sockets :
         /\ OfKnown(toServer[s]) /\ OfKnown(toClient[s])
         /\ toServer[s] # <<>> => s <= Wire
         /\ toClient[s] # <<>> => up /\ s = sock

\* What the server keeps for each path.
ServerInv ==
    /\ chan \in [Paths -> 0..MaxSockets] /\ lastOpen \in [Paths -> 0..MaxSockets]
    /\ got \in [Paths -> Seq(Sockets \X (1..MaxSends))]
    /\ \A p \in Paths :
         /\ chan[p] \in (0..sock) \ closed /\ lastOpen[p] <= sock
         /\ p \notin Known => chan[p] = 0

\* A channel in the map came with an open, which named the client of its socket.
HeldInv ==
    /\ \A p \in Paths : chan[p] # 0 => chan[p] \in named
    /\ HeldWhileOpen

\* All data that a path has passed on are older than those it has in its queue,
\* those on a socket are newer than those received from it.
Passed(p, k) == k <= sent[p] /\ \A j \in DOMAIN sendQueue[p] : k < sendQueue[p][j]
Rising(q) == \A i, j \in DOMAIN q : i < j => q[i] < q[j]
DataRise(w, p) ==
    \A i, j \in DOMAIN w : i < j /\ IsData(w[i], p) /\ IsData(w[j], p) => w[i].n < w[j].n

QueueRises(p) ==
    Rising(sendQueue[p]) /\ \A j \in DOMAIN sendQueue[p] : sendQueue[p][j] <= sent[p]
WiresRise(p) ==
    \A s \in Sockets :
        /\ DataRise(toServer[s], p)
        /\ \A i \in DOMAIN toServer[s] :
             IsData(toServer[s][i], p) => Passed(p, toServer[s][i].n)
GotRises(p) ==
    /\ \A i, j \in DOMAIN got[p] :
         i < j /\ got[p][i][1] = got[p][j][1] => got[p][i][2] < got[p][j][2]
    /\ \A i \in DOMAIN got[p] :
         /\ Passed(p, got[p][i][2])
         /\ \A j \in DOMAIN toServer[got[p][i][1]] :
              IsData(toServer[got[p][i][1]][j], p)
                => got[p][i][2] < toServer[got[p][i][1]][j].n

OrderInv == \A p \in Paths : QueueRises(p) /\ WiresRise(p) /\ GotRises(p)

\* While a channel may send, no open of it is behind what it sent since its last
\* open event: an open that is read takes nothing of that away.
OpensFirst(p) ==
    p \in ready => \A i \in DOMAIN toServer[sock] :
        toServer[sock][i].kind = "open" /\ toServer[sock][i].path = p =>
            \A k \in fresh[p] : \E j \in DOMAIN toServer[sock] :
                j > i /\ toServer[sock][j] = Data(p, k)
FirstInv == \A p \in Paths : OpensFirst(p)

\* The channel of the last open the server read stays in the map.
Arrives(p) ==
    \A k \in fresh[p] : k \in Entries(p) \/ Data(p, k) \in ToSet(toServer[sock])
SyncInv ==
    \A p \in Paths : sock \notin closed /\ lastOpen[p] = sock =>
        /\ chan[p] = sock
        /\ p \in ready /\ ~Told(p) => Arrives(p)

TypeInv == BasicInv /\ ClientInv /\ WireInv /\ ServerInv
ThrownInv == thrown \subseteq Throwing
IInv == TypeInv /\ ThrownInv /\ HeldInv /\ OrderInv /\ FirstInv /\ SyncInv

-----------------------------------------------------------------------------
(* Sequences and messages.                                                     *)

LEMMA Concat ==
    ASSUME NEW S, NEW a \in Seq(S), NEW b \in Seq(S)
    PROVE  /\ a \o b \in Seq(S) /\ Len(a) \in Nat
           /\ \A i \in DOMAIN a : i \in DOMAIN (a \o b) /\ (a \o b)[i] = a[i]
           /\ \A j \in DOMAIN b : /\ Len(a) + j \in DOMAIN (a \o b)
                                  /\ (a \o b)[Len(a) + j] = b[j]
           /\ \A i \in DOMAIN (a \o b) :
                \/ i \in DOMAIN a /\ (a \o b)[i] = a[i]
                \/ /\ i - Len(a) \in DOMAIN b /\ (a \o b)[i] = b[i - Len(a)]
                   /\ i > Len(a)
           /\ \A i \in DOMAIN a : i \in Nat /\ i <= Len(a)
           /\ \A j \in DOMAIN b : j \in Nat /\ 1 <= j
           /\ b = <<>> => a \o b = a
BY ConcatProperties, LenProperties

LEMMA TailOf ==
    ASSUME NEW S, NEW w \in Seq(S), w # <<>>
    PROVE  /\ Tail(w) \in Seq(S) /\ Head(w) = w[1] /\ Head(w) \in S /\ 1 \in DOMAIN w
           /\ \A i \in DOMAIN Tail(w) : i \in Nat /\ 1 < i + 1 /\ i + 1 \in DOMAIN w
                                        /\ Tail(w)[i] = w[i + 1]
           /\ \A i \in DOMAIN w :
                i = 1 \/ (i - 1 \in DOMAIN Tail(w) /\ Tail(w)[i - 1] = w[i])
BY HeadTailProperties, EmptySeq, LenProperties

LEMMA MessageFacts ==
    /\ \A p \in Paths :
         /\ \A t \in Traces : /\ Open(p, t) \in ClientMsgs /\ Open(p, t).path = p
                              /\ Open(p, t).kind = "open"
                              /\ Ready(p, t) \in ServerMsgs /\ Ready(p, t).path = p
         /\ \A k \in 1..MaxSends : /\ Data(p, k) \in ClientMsgs /\ Data(p, k).path = p
                                   /\ IsData(Data(p, k), p) /\ Data(p, k).n = k
         /\ Ping(p) \in ClientMsgs /\ Ping(p).path = p /\ Ping(p).kind = "ping"
         /\ NotFound(p) \in ServerMsgs /\ NotFound(p).path = p
         /\ NotFound(p).kind # "data" /\ \A t : Ready(p, t).kind # "data"
         /\ Data(p, 0) \in ServerMsgs /\ Data(p, 0).path = p
    /\ \A m \in ClientMsgs :
         /\ m.path \in Paths /\ m.kind \in {"open", "data", "ping"}
         /\ m.kind = "open" => m.n \in Traces
         /\ m.kind = "data" => m.n \in 1..MaxSends /\ m = Data(m.path, m.n)
    /\ \A m \in ServerMsgs :
         /\ m.path \in Paths /\ m.kind \in {"server-ready", "error", "data"}
BY DEF ClientMsgs, ServerMsgs, Open, Data, Ping, Ready, NotFound, IsData

LEMMA FreeTrace == ASSUME NEW p, HasTrace(p) PROVE NewTrace(p) \in Traces
BY DEF HasTrace, NewTrace

LEMMA WireIs ==
    ASSUME BasicInv
    PROVE  /\ Wire \in Sockets /\ sock <= Wire /\ (up => Wire = sock)
           /\ (~up => Wire = sock + 1) /\ sock \in Nat /\ sock >= 1
BY BoundsAssumption DEF BasicInv, Wire, Sockets

LEMMA KnownPaths == ASSUME opened \in Seq(Paths) PROVE Known \subseteq Paths
BY LenProperties DEF Known, ToSet

-----------------------------------------------------------------------------
(* What the actions do to the channels known and to the wire.                  *)

LEMMA KnownAfter ==
    ASSUME opened \in Seq(Paths), NEW p \in Paths,
           opened' = IF p \in Known THEN opened ELSE Append(opened, p)
    PROVE  opened' \in Seq(Paths) /\ Known' = Known \cup {p}
<1>1. CASE p \in Known
  BY <1>1 DEF Known
<1>2. CASE p \notin Known
  <2>1. opened' = Append(opened, p)
    BY <1>2
  <2>2. /\ opened' \in Seq(Paths) /\ Len(opened) \in Nat
        /\ DOMAIN opened' = 1..(Len(opened) + 1) /\ DOMAIN opened = 1..Len(opened)
        /\ \A i \in 1..Len(opened) : opened'[i] = opened[i]
        /\ opened'[Len(opened) + 1] = p
    BY <2>1, AppendProperties, LenProperties
  <2>3. \A x : x \in Known' <=> x \in Known \cup {p}
    <3>1. ASSUME NEW x \in Known' PROVE x \in Known \cup {p}
      <4>1. PICK i \in DOMAIN opened' : x = opened'[i]
        BY DEF Known, ToSet
      <4>2. i \in 1..Len(opened) \/ i = Len(opened) + 1
        BY <2>2
      <4> QED BY <2>2, <4>1, <4>2 DEF Known, ToSet
    <3>2. ASSUME NEW x \in Known PROVE x \in Known'
      <4>1. PICK i \in DOMAIN opened : x = opened[i]
        BY DEF Known, ToSet
      <4>2. i \in DOMAIN opened' /\ opened'[i] = x
        BY <2>2, <4>1
      <4> QED BY <4>2 DEF Known, ToSet
    <3>3. p \in Known'
      <4>1. Len(opened) + 1 \in DOMAIN opened'
        BY <2>2
      <4> QED BY <2>2, <4>1 DEF Known, ToSet
    <3> QED BY <3>1, <3>2, <3>3
  <2> QED BY <2>2, <2>3
<1> QED BY <1>1, <1>2

\* What follows from sending messages of channels that the client has.
LEMMA TransmitKeeps ==
    ASSUME BasicInv, WireInv, NEW msgs \in Seq(ClientMsgs), Transmit(msgs),
           \A i \in DOMAIN msgs : msgs[i].path \in Known',
           Known \subseteq Known', Wire' = Wire
    PROVE  /\ toServer' \in [Sockets -> Seq(ClientMsgs)]
           /\ \A s \in Sockets : OfKnown(toServer[s])' /\ (toServer'[s] # <<>> => s <= Wire')
<1>1. toServer \in [Sockets -> Seq(ClientMsgs)] /\ Wire \in Sockets
  BY WireIs DEF WireInv
<1>2. /\ toServer'[Wire] = toServer[Wire] \o msgs
      /\ \A s \in Sockets \ {Wire} : toServer'[s] = toServer[s]
  BY <1>1 DEF Transmit
<1>w. toServer[Wire] \in Seq(ClientMsgs)
  BY <1>1
<1>3. /\ toServer[Wire] \o msgs \in Seq(ClientMsgs)
      /\ \A i \in DOMAIN (toServer[Wire] \o msgs) :
             \/ i \in DOMAIN toServer[Wire] /\ (toServer[Wire] \o msgs)[i] = toServer[Wire][i]
             \/ i - Len(toServer[Wire]) \in DOMAIN msgs
                /\ (toServer[Wire] \o msgs)[i] = msgs[i - Len(toServer[Wire])]
  BY <1>w, Concat
<1>4. toServer' \in [Sockets -> Seq(ClientMsgs)]
  BY <1>1, <1>3 DEF Transmit
<1>5. ASSUME NEW s \in Sockets
      PROVE  OfKnown(toServer[s])' /\ (toServer'[s] # <<>> => s <= Wire')
  <2>1. OfKnown(toServer[s]) /\ (toServer[s] # <<>> => s <= Wire)
    BY DEF WireInv
  <2>2. CASE s # Wire
    <3>1. toServer'[s] = toServer[s]
      BY <1>2, <2>2
    <3> QED BY <2>1, <3>1 DEF OfKnown
  <2>3. CASE s = Wire
    <3>1. \A i \in DOMAIN toServer'[s] :
             \/ i \in DOMAIN toServer[s] /\ toServer'[s][i] = toServer[s][i]
             \/ i - Len(toServer[s]) \in DOMAIN msgs
                /\ toServer'[s][i] = msgs[i - Len(toServer[s])]
      BY <1>2, <1>3, <2>3
    <3>2. s <= Wire'
      BY <2>3, WireIs
    <3>3. ASSUME NEW i \in DOMAIN toServer'[s] PROVE toServer'[s][i].path \in Known'
      <4>1. CASE i \in DOMAIN toServer[s] /\ toServer'[s][i] = toServer[s][i]
        BY <2>1, <4>1 DEF OfKnown
      <4>2. CASE i - Len(toServer[s]) \in DOMAIN msgs
                 /\ toServer'[s][i] = msgs[i - Len(toServer[s])]
        BY <4>2
      <4> QED BY <3>1, <4>1, <4>2
    <3> QED BY <3>2, <3>3 DEF OfKnown
  <2> QED BY <2>2, <2>3
<1> QED BY <1>4, <1>5

\* The messages that the actions send.
LEMMA OneMessage ==
    ASSUME NEW m \in ClientMsgs
    PROVE  /\ <<m>> \in Seq(ClientMsgs) /\ DOMAIN <<m>> = 1..1 /\ <<m>>[1] = m
           /\ \A i \in DOMAIN <<m>> : i = 1
OBVIOUS

LEMMA OpenedMessages ==
    ASSUME BasicInv, NEW F \in [Paths -> ClientMsgs], \A p \in Known : F[p].path = p
    PROVE  /\ [i \in DOMAIN opened |-> F[opened[i]]] \in Seq(ClientMsgs)
           /\ \A i \in DOMAIN opened : opened[i] \in Known /\ F[opened[i]].path \in Known
<1>1. /\ Len(opened) \in Nat /\ DOMAIN opened = 1..Len(opened)
      /\ \A i \in DOMAIN opened : opened[i] \in Known /\ opened[i] \in Paths
  BY LenProperties DEF BasicInv, Known, ToSet
<1>2. [i \in 1..Len(opened) |-> F[opened[i]]] \in [1..Len(opened) -> ClientMsgs]
  BY <1>1
<1>3. [i \in 1..Len(opened) |-> F[opened[i]]] \in Seq(ClientMsgs)
  BY <1>1, <1>2, SeqDef
<1> QED BY <1>1, <1>3, KnownPaths DEF BasicInv

-----------------------------------------------------------------------------
(* Types: the steps of the client.                                             *)

LEMMA ServerQuiet ==
    ASSUME BasicInv, ServerInv, UNCHANGED server, Known \subseteq Known',
           sock' = sock \/ sock' = sock + 1
    PROVE  ServerInv'
<1>1. sock \in Nat /\ sock' \in Nat /\ sock <= sock'
  BY WireIs
<1>2. UNCHANGED <<closed, chan, named, held, got, lastOpen>>
  BY DEF server
<1>3. \A p \in Paths : chan'[p] \in (0..sock') \ closed' /\ lastOpen'[p] <= sock'
                       /\ (p \notin Known' => chan'[p] = 0)
  <2> SUFFICES ASSUME NEW p \in Paths
               PROVE  chan'[p] \in (0..sock') \ closed' /\ lastOpen'[p] <= sock'
                      /\ (p \notin Known' => chan'[p] = 0)
    OBVIOUS
  <2>1. /\ chan[p] \in (0..sock) \ closed /\ lastOpen[p] <= sock /\ lastOpen[p] \in Int
        /\ p \notin Known => chan[p] = 0
    BY BoundsAssumption DEF ServerInv
  <2> QED BY <1>1, <1>2, <2>1
<1> QED BY <1>2, <1>3 DEF ServerInv

LEMMA WireKept ==
    ASSUME BasicInv, WireInv, Known \subseteq Known', UNCHANGED <<up, sock, toClient>>,
           toServer' \in [Sockets -> Seq(ClientMsgs)],
           \A s \in Sockets : OfKnown(toServer[s])' /\ (toServer'[s] # <<>> => s <= Wire')
    PROVE  WireInv'
<1>1. \A s \in Sockets : OfKnown(toClient[s])'
  <2> SUFFICES ASSUME NEW s \in Sockets PROVE OfKnown(toClient[s])'
    OBVIOUS
  <2>1. OfKnown(toClient[s])
    BY DEF WireInv
  <2> QED BY <2>1 DEF OfKnown
<1>2. \A s \in Sockets : toClient'[s] # <<>> => up' /\ s = sock'
  BY DEF WireInv
<1> QED BY <1>1, <1>2 DEF WireInv

LEMMA OpenTypes ==
    ASSUME TypeInv, NEW p \in Paths, OpenChannel(p) PROVE TypeInv'
<1> USE DEF TypeInv
<1>1. /\ calls < MaxOpens /\ calls' = calls + 1 /\ HasTrace(p)
      /\ opened' = IF p \in Known THEN opened ELSE Append(opened, p)
      /\ ready' = ready \ {p} /\ sendQueue' = [sendQueue EXCEPT ![p] = <<>>]
      /\ fresh' = [fresh EXCEPT ![p] = {}]
      /\ traces' = [traces EXCEPT ![p] = {NewTrace(p)}]
      /\ Transmit(<<Open(p, NewTrace(p))>>)
      /\ UNCHANGED <<sock, up, sent, retries, sends, toClient, server>>
  BY DEF OpenChannel
<1>2. opened' \in Seq(Paths) /\ Known' = Known \cup {p}
  BY <1>1, KnownAfter DEF BasicInv
<1>3. NewTrace(p) \in Traces
  BY <1>1, FreeTrace
<1>4. BasicInv'
  <2>1. calls' \in 0..MaxOpens
    BY <1>1, BoundsAssumption DEF BasicInv
  <2>2. UNCHANGED <<closed, named, held>>
    BY <1>1 DEF server
  <2>3. ready' \subseteq Known' /\ (ready' # {} => up')
    BY <1>1, <1>2 DEF BasicInv
  <2> QED BY <1>1, <1>2, <2>1, <2>2, <2>3 DEF BasicInv
<1>5. ClientInv'
  <2>1. /\ sendQueue' \in [Paths -> Seq(1..MaxSends)] /\ traces' \in [Paths -> SUBSET Traces]
        /\ fresh' \in [Paths -> SUBSET (1..MaxSends)] /\ sent' \in [Paths -> 0..MaxSends]
    BY <1>1, <1>3 DEF ClientInv
  <2>2. \A t \in Paths : /\ sent'[t] <= sends'
                         /\ t \notin Known' => sendQueue'[t] = <<>> /\ traces'[t] = {}
                         /\ t \in ready' => sendQueue'[t] = <<>>
    BY <1>1, <1>2 DEF ClientInv
  <2> QED BY <2>1, <2>2 DEF ClientInv
<1>6. WireInv'
  <2>1. Open(p, NewTrace(p)) \in ClientMsgs /\ Open(p, NewTrace(p)).path = p
    BY <1>3, MessageFacts
  <2>2. <<Open(p, NewTrace(p))>> \in Seq(ClientMsgs)
        /\ \A i \in DOMAIN <<Open(p, NewTrace(p))>> :
             <<Open(p, NewTrace(p))>>[i].path \in Known'
    BY <1>2, <2>1, OneMessage
  <2>3. Wire' = Wire
    BY <1>1 DEF Wire
  <2> QED BY <1>1, <1>2, <2>2, <2>3, TransmitKeeps, WireKept
<1>7. ServerInv'
  BY <1>1, <1>2, ServerQuiet
<1> QED BY <1>4, <1>5, <1>6, <1>7

LEMMA SendTypes ==
    ASSUME TypeInv, NEW p \in Paths, Send(p) PROVE TypeInv'
<1> USE DEF TypeInv
<1> DEFINE k == sent[p] + 1
<1>1. /\ p \in Known /\ sends < MaxSends /\ sends' = sends + 1
      /\ sent' = [sent EXCEPT ![p] = k]
      /\ UNCHANGED <<sock, up, opened, ready, traces, retries, calls, toClient, server>>
  BY DEF Send
<1>2. \/ /\ p \in ready /\ Transmit(<<Data(p, k)>>)
         /\ fresh' = [fresh EXCEPT ![p] = @ \cup {k}] /\ UNCHANGED sendQueue
      \/ /\ p \notin ready /\ sendQueue' = [sendQueue EXCEPT ![p] = Append(@, k)]
         /\ UNCHANGED <<toServer, fresh>>
  BY DEF Send, MaySend
<1>3. Known' = Known
  BY <1>1 DEF Known
<1>4. sent[p] \in Nat /\ sent[p] <= sends /\ sends \in Nat /\ k \in 1..MaxSends
      /\ k <= sends'
  BY <1>1, BoundsAssumption DEF ClientInv, BasicInv
<1>5. BasicInv'
  <2>1. sends' \in 0..MaxSends
    BY <1>1, BoundsAssumption DEF BasicInv
  <2>2. UNCHANGED <<closed, named, held>>
    BY <1>1 DEF server
  <2> QED BY <1>1, <1>3, <2>1, <2>2 DEF BasicInv
<1>6. ClientInv'
  <2>1. sent' \in [Paths -> 0..MaxSends] /\ traces' \in [Paths -> SUBSET Traces]
    BY <1>1, <1>4 DEF ClientInv
  <2>2. fresh' \in [Paths -> SUBSET (1..MaxSends)]
    <3>1. fresh \in [Paths -> SUBSET (1..MaxSends)]
      BY DEF ClientInv
    <3>2. fresh' = fresh \/ fresh' = [fresh EXCEPT ![p] = @ \cup {k}]
      BY <1>2
    <3>3. fresh[p] \cup {k} \in SUBSET (1..MaxSends)
      BY <1>4, <3>1
    <3> QED BY <3>1, <3>2, <3>3
  <2>3. sendQueue' \in [Paths -> Seq(1..MaxSends)]
    <3>1. sendQueue[p] \in Seq(1..MaxSends)
      BY DEF ClientInv
    <3>2. Append(sendQueue[p], k) \in Seq(1..MaxSends)
      BY <1>4, <3>1, AppendProperties
    <3> QED BY <1>2, <3>2 DEF ClientInv
  <2>4. \A t \in Paths : sent'[t] <= sends'
    <3> SUFFICES ASSUME NEW t \in Paths PROVE sent'[t] <= sends'
      OBVIOUS
    <3>1. sent[t] \in Int /\ sent[t] <= sends
      BY BoundsAssumption DEF ClientInv
    <3>2. sent'[t] = IF t = p THEN k ELSE sent[t]
      BY <1>1 DEF ClientInv
    <3> QED BY <1>1, <1>4, <3>1, <3>2
  <2>5. \A t \in Paths : (t \notin Known' => sendQueue'[t] = <<>> /\ traces'[t] = {})
                         /\ (t \in ready' => sendQueue'[t] = <<>>)
    BY <1>1, <1>2, <1>3 DEF ClientInv
  <2> QED BY <2>1, <2>2, <2>3, <2>4, <2>5 DEF ClientInv
<1>7. WireInv'
  <2>1. Wire' = Wire
    BY <1>1 DEF Wire
  <2>2. CASE p \in ready
    <3>1. Data(p, k) \in ClientMsgs /\ Data(p, k).path = p
      BY <1>4, MessageFacts
    <3>2. <<Data(p, k)>> \in Seq(ClientMsgs)
          /\ \A i \in DOMAIN <<Data(p, k)>> : <<Data(p, k)>>[i].path \in Known'
      BY <1>1, <1>3, <3>1, OneMessage
    <3>3. Transmit(<<Data(p, k)>>)
      BY <1>2, <2>2
    <3> QED BY <1>1, <1>3, <2>1, <3>2, <3>3, TransmitKeeps, WireKept
  <2>3. CASE p \notin ready
    <3>1. UNCHANGED toServer
      BY <1>2, <2>3
    <3>2. \A s \in Sockets : OfKnown(toServer[s])' /\ (toServer'[s] # <<>> => s <= Wire')
      BY <1>3, <2>1, <3>1 DEF WireInv, OfKnown
    <3> QED BY <1>1, <1>3, <3>1, <3>2, WireKept DEF WireInv
  <2> QED BY <2>2, <2>3
<1>8. ServerInv'
  BY <1>1, <1>3, ServerQuiet
<1> QED BY <1>5, <1>6, <1>7, <1>8

LEMMA RetryTypes ==
    ASSUME TypeInv, NEW p \in Paths, NEW t \in Traces, Retry(p, t) PROVE TypeInv'
<1> USE DEF TypeInv
<1>1. /\ t \in traces[p]
      /\ UNCHANGED <<sock, up, opened, ready, sendQueue, sent, calls, sends, fresh,
                     toClient, server>>
  BY DEF Retry
<1>2. \/ traces' = [traces EXCEPT ![p] = @ \ {t}] /\ UNCHANGED <<retries, toServer>>
      \/ /\ retries < MaxRetries /\ retries' = retries + 1
         /\ Transmit(<<Open(p, t)>>) /\ UNCHANGED traces
  BY DEF Retry
<1>3. Known' = Known /\ Wire' = Wire
  BY <1>1 DEF Known, Wire
<1>4. p \in Known
  BY <1>1 DEF ClientInv
<1>5. BasicInv'
  <2>1. retries' \in 0..MaxRetries
    BY <1>2, BoundsAssumption DEF BasicInv
  <2>2. UNCHANGED <<closed, named, held>>
    BY <1>1 DEF server
  <2> QED BY <1>1, <1>3, <2>1, <2>2 DEF BasicInv
<1>6. ClientInv'
  <2>1. traces' \in [Paths -> SUBSET Traces] /\ \A x \in Paths : traces'[x] \subseteq traces[x]
    BY <1>2 DEF ClientInv
  <2> QED BY <1>1, <1>3, <2>1 DEF ClientInv
<1>7. WireInv'
  <2>1. CASE Transmit(<<Open(p, t)>>)
    <3>1. Open(p, t) \in ClientMsgs /\ Open(p, t).path = p
      BY MessageFacts
    <3>2. <<Open(p, t)>> \in Seq(ClientMsgs)
          /\ \A i \in DOMAIN <<Open(p, t)>> : <<Open(p, t)>>[i].path \in Known'
      BY <1>3, <1>4, <3>1, OneMessage
    <3> QED BY <1>1, <1>3, <2>1, <3>2, TransmitKeeps, WireKept
  <2>2. CASE UNCHANGED toServer
    <3>1. \A s \in Sockets : OfKnown(toServer[s])' /\ (toServer'[s] # <<>> => s <= Wire')
      BY <1>3, <2>2 DEF WireInv, OfKnown
    <3> QED BY <1>1, <1>3, <2>2, <3>1, WireKept DEF WireInv
  <2> QED BY <1>2, <2>1, <2>2
<1>8. ServerInv'
  BY <1>1, <1>3, ServerQuiet
<1> QED BY <1>5, <1>6, <1>7, <1>8

LEMMA HeartbeatTypes ==
    ASSUME TypeInv, Heartbeat PROVE TypeInv'
<1> USE DEF TypeInv
<1>1. /\ Transmit([i \in DOMAIN opened |-> Ping(opened[i])])
      /\ UNCHANGED <<client, toClient, server>>
  BY DEF Heartbeat
<1>2. UNCHANGED <<sock, up, opened, ready, sendQueue, traces, sent, retries, calls, sends, fresh>>
  BY <1>1 DEF client
<1>3. Known' = Known /\ Wire' = Wire
  BY <1>2 DEF Known, Wire
<1>4. BasicInv' /\ ClientInv'
  BY <1>1, <1>2, <1>3 DEF BasicInv, ClientInv, server
<1>5. WireInv'
  <2> DEFINE F == [x \in Paths |-> Ping(x)]
             msgs == [i \in DOMAIN opened |-> Ping(opened[i])]
  <2>1. F \in [Paths -> ClientMsgs] /\ \A x \in Known : F[x].path = x
    BY MessageFacts, KnownPaths DEF BasicInv
  <2>2. \A i \in DOMAIN opened : opened[i] \in Paths
    BY KnownPaths DEF BasicInv
  <2>3. msgs = [i \in DOMAIN opened |-> F[opened[i]]]
    BY <2>2
  <2>4. msgs \in Seq(ClientMsgs) /\ \A i \in DOMAIN opened : F[opened[i]].path \in Known
    <3> HIDE DEF F
    <3> QED BY <2>1, <2>3, OpenedMessages
  <2>5. \A i \in DOMAIN msgs : msgs[i].path \in Known'
    BY <1>3, <2>2, <2>4
  <2> HIDE DEF msgs, F
  <2>6. Transmit(msgs)
    BY <1>1 DEF msgs
  <2> QED BY <1>1, <1>2, <1>3, <2>4, <2>5, <2>6, TransmitKeeps, WireKept
<1>6. ServerInv'
  BY <1>1, <1>2, <1>3, ServerQuiet
<1> QED BY <1>4, <1>5, <1>6

\* The data of the queue of a path, as it is sent.
Queued(p) == [i \in DOMAIN sendQueue[p] |-> Data(p, sendQueue[p][i])]

LEMMA QueuedMessages ==
    ASSUME ClientInv, NEW p \in Paths
    PROVE  /\ Queued(p) \in Seq(ClientMsgs)
           /\ Len(sendQueue[p]) \in Nat /\ DOMAIN sendQueue[p] = 1..Len(sendQueue[p])
           /\ DOMAIN Queued(p) = DOMAIN sendQueue[p]
           /\ \A i \in DOMAIN sendQueue[p] :
                /\ sendQueue[p][i] \in 1..MaxSends
                /\ Queued(p)[i] = Data(p, sendQueue[p][i])
                /\ IsData(Queued(p)[i], p) /\ Queued(p)[i].path = p
                /\ Queued(p)[i].n = sendQueue[p][i]
<1> DEFINE q == sendQueue[p]
<1>1. q \in Seq(1..MaxSends)
  BY DEF ClientInv
<1>2. Len(q) \in Nat /\ DOMAIN q = 1..Len(q) /\ \A i \in DOMAIN q : q[i] \in 1..MaxSends
  BY <1>1, LenProperties, ElementOfSeq
<1>3. \A i \in DOMAIN q : /\ Queued(p)[i] = Data(p, q[i]) /\ Queued(p)[i] \in ClientMsgs
                          /\ Queued(p)[i].path = p /\ IsData(Queued(p)[i], p)
                          /\ Queued(p)[i].n = q[i]
  BY <1>2, MessageFacts DEF Queued
<1>4. Queued(p) \in [1..Len(q) -> ClientMsgs]
  BY <1>2, <1>3 DEF Queued
<1>5. Queued(p) \in Seq(ClientMsgs)
  BY <1>2, <1>4, SeqDef
<1> QED BY <1>2, <1>3, <1>5 DEF Queued

\* The client reads a message.
Reads(m) ==
    /\ up /\ m.path \in Known /\ m = Head(toClient[sock])
    /\ toClient' = [toClient EXCEPT ![sock] = Tail(@)]
    /\ UNCHANGED <<sock, up, opened, sent, retries, calls, sends, server>>
    /\ \/ /\ m.kind = "server-ready"
          /\ traces' = [traces EXCEPT ![m.path] = @ \ {m.n}]
          /\ ready' = ready \cup {m.path}
          /\ Transmit(Queued(m.path))
          /\ fresh' = [fresh EXCEPT ![m.path] = ToSet(sendQueue[m.path])]
          /\ sendQueue' = [sendQueue EXCEPT ![m.path] = <<>>]
       \/ /\ m.kind = "error" /\ HasTrace(m.path)
          /\ ready' = ready \ {m.path}
          /\ traces' = [traces EXCEPT ![m.path] = @ \cup {NewTrace(m.path)}]
          /\ Transmit(<<Open(m.path, NewTrace(m.path))>>)
          /\ UNCHANGED <<sendQueue, fresh>>
       \/ m.kind = "data" /\ UNCHANGED <<ready, sendQueue, traces, fresh, toServer>>

\* The message the client reads, and what reading it changes.
LEMMA ClientReads ==
    ASSUME TypeInv, ClientReceives
    PROVE  \E m \in ServerMsgs : Reads(m)
<1> USE DEF TypeInv
<1> DEFINE m == Head(toClient[sock])
<1>1. /\ up /\ toClient[sock] # <<>>
      /\ toClient' = [toClient EXCEPT ![sock] = Tail(@)]
      /\ UNCHANGED <<sock, up, opened, sent, retries, calls, sends, server>>
      /\ \/ m.kind = "server-ready" /\ ReceiveReady(m.path, m.n)
         \/ m.kind = "error" /\ ReceiveNotFound(m.path)
         \/ m.kind = "data" /\ UNCHANGED <<ready, sendQueue, traces, fresh, toServer>>
  BY DEF ClientReceives, ReceiveData
<1>2. sock \in Sockets /\ toClient[sock] \in Seq(ServerMsgs)
  BY DEF BasicInv, WireInv
<1>3. m \in ServerMsgs /\ m = toClient[sock][1] /\ 1 \in DOMAIN toClient[sock]
  BY <1>1, <1>2, TailOf
<1>4. m.path \in Known
  BY <1>2, <1>3 DEF WireInv, OfKnown
<1>7. m = Head(toClient[sock])
  OBVIOUS
<1> HIDE DEF m
<1>5. ReceiveReady(m.path, m.n) =>
        /\ traces' = [traces EXCEPT ![m.path] = @ \ {m.n}]
        /\ ready' = ready \cup {m.path}
        /\ Transmit(Queued(m.path))
        /\ fresh' = [fresh EXCEPT ![m.path] = ToSet(sendQueue[m.path])]
        /\ sendQueue' = [sendQueue EXCEPT ![m.path] = <<>>]
  BY DEF ReceiveReady, Resume, Queued, LeftInQueue
<1>6. ReceiveNotFound(m.path) =>
        /\ HasTrace(m.path) /\ ready' = ready \ {m.path}
        /\ traces' = [traces EXCEPT ![m.path] = @ \cup {NewTrace(m.path)}]
        /\ Transmit(<<Open(m.path, NewTrace(m.path))>>)
        /\ UNCHANGED <<sendQueue, fresh>>
  BY DEF ReceiveNotFound
<1>8. Reads(m)
  BY <1>1, <1>4, <1>5, <1>6, <1>7 DEF Reads
<1> QED BY <1>3, <1>8

\* Messages of the wire to the client, after it has read one.
LEMMA ReadKeeps ==
    ASSUME BasicInv, WireInv, up, toClient[sock] # <<>>,
           toClient' = [toClient EXCEPT ![sock] = Tail(@)],
           UNCHANGED <<sock, up>>, Known \subseteq Known'
    PROVE  /\ toClient' \in [Sockets -> Seq(ServerMsgs)]
           /\ \A s \in Sockets : OfKnown(toClient[s])' /\ (toClient'[s] # <<>> => up' /\ s = sock')
<1>1. sock \in Sockets /\ toClient \in [Sockets -> Seq(ServerMsgs)]
      /\ toClient[sock] \in Seq(ServerMsgs)
  BY DEF BasicInv, WireInv
<1>2. /\ Tail(toClient[sock]) \in Seq(ServerMsgs)
      /\ \A i \in DOMAIN Tail(toClient[sock]) :
           i + 1 \in DOMAIN toClient[sock] /\ Tail(toClient[sock])[i] = toClient[sock][i + 1]
  BY <1>1, TailOf
<1>3. toClient'[sock] = Tail(toClient[sock])
      /\ \A s \in Sockets \ {sock} : toClient'[s] = toClient[s]
  BY <1>1
<1>4. toClient' \in [Sockets -> Seq(ServerMsgs)]
  BY <1>1, <1>2
<1>5. ASSUME NEW s \in Sockets
      PROVE  OfKnown(toClient[s])' /\ (toClient'[s] # <<>> => up' /\ s = sock')
  <2>1. OfKnown(toClient[s]) /\ (toClient[s] # <<>> => up /\ s = sock)
    BY DEF WireInv
  <2>2. CASE s = sock
    <3>1. \A i \in DOMAIN toClient'[s] : toClient'[s][i].path \in Known'
      BY <1>2, <1>3, <2>1, <2>2 DEF OfKnown
    <3> QED BY <2>2, <3>1 DEF OfKnown
  <2>3. CASE s # sock
    <3>1. toClient'[s] = toClient[s]
      BY <1>3, <2>3
    <3> QED BY <2>1, <3>1 DEF OfKnown
  <2> QED BY <2>2, <2>3
<1> QED BY <1>4, <1>5

LEMMA ReceiveTypes ==
    ASSUME TypeInv, ClientReceives PROVE TypeInv'
<1> USE DEF TypeInv
<1>1. PICK m \in ServerMsgs : Reads(m)
  BY ClientReads
<1> DEFINE p == m.path
<1>r. /\ up /\ p \in Known /\ toClient' = [toClient EXCEPT ![sock] = Tail(@)]
      /\ UNCHANGED <<sock, up, opened, sent, retries, calls, sends, server>>
      /\ \/ /\ m.kind = "server-ready"
            /\ traces' = [traces EXCEPT ![p] = @ \ {m.n}]
            /\ ready' = ready \cup {p} /\ Transmit(Queued(p))
            /\ fresh' = [fresh EXCEPT ![p] = ToSet(sendQueue[p])]
            /\ sendQueue' = [sendQueue EXCEPT ![p] = <<>>]
         \/ /\ m.kind = "error" /\ HasTrace(p) /\ ready' = ready \ {p}
            /\ traces' = [traces EXCEPT ![p] = @ \cup {NewTrace(p)}]
            /\ Transmit(<<Open(p, NewTrace(p))>>) /\ UNCHANGED <<sendQueue, fresh>>
         \/ m.kind = "data" /\ UNCHANGED <<ready, sendQueue, traces, fresh, toServer>>
  BY <1>1 DEF Reads
<1>2. p \in Paths /\ p \in Known
  BY <1>r, MessageFacts
<1> HIDE DEF p
<1>3. Known' = Known /\ Wire' = Wire
  BY <1>r DEF Known, Wire
<1>4. toClient[sock] # <<>>
  BY DEF ClientReceives
<1>5. BasicInv'
  <2>1. ready' \subseteq Known' /\ (ready' # {} => up')
    BY <1>r, <1>2, <1>3 DEF BasicInv
  <2>2. UNCHANGED <<closed, named, held>>
    BY <1>r DEF server
  <2> QED BY <1>r, <1>3, <2>1, <2>2 DEF BasicInv
<1>6. ClientInv'
  <2>1. sent' \in [Paths -> 0..MaxSends] /\ \A x \in Paths : sent'[x] <= sends'
    BY <1>r DEF ClientInv
  <2>2. ASSUME HasTrace(p) PROVE NewTrace(p) \in Traces
    BY <2>2, FreeTrace
  <2>a. \/ /\ traces' = [traces EXCEPT ![p] = @ \ {m.n}]
           /\ fresh' = [fresh EXCEPT ![p] = ToSet(sendQueue[p])]
           /\ sendQueue' = [sendQueue EXCEPT ![p] = <<>>]
           /\ ready' = ready \cup {p}
        \/ /\ traces' = [traces EXCEPT ![p] = @ \cup {NewTrace(p)}] /\ HasTrace(p)
           /\ fresh' = fresh /\ sendQueue' = sendQueue /\ ready' \subseteq ready
        \/ UNCHANGED <<ready, sendQueue, traces, fresh>>
    BY <1>r
  <2>3. traces' \in [Paths -> SUBSET Traces]
    <3>1. traces \in [Paths -> SUBSET Traces]
      BY DEF ClientInv
    <3>2. CASE traces' = [traces EXCEPT ![p] = @ \ {m.n}]
      BY <3>1, <3>2
    <3>3. CASE traces' = [traces EXCEPT ![p] = @ \cup {NewTrace(p)}] /\ HasTrace(p)
      BY <1>2, <2>2, <3>1, <3>3
    <3> QED BY <2>a, <3>1, <3>2, <3>3
  <2>4. ToSet(sendQueue[p]) \subseteq 1..MaxSends
    BY <1>2, QueuedMessages DEF ToSet
  <2>5. fresh' \in [Paths -> SUBSET (1..MaxSends)]
    BY <1>2, <2>a, <2>4 DEF ClientInv
  <2>6. sendQueue' \in [Paths -> Seq(1..MaxSends)]
    <3>1. sendQueue \in [Paths -> Seq(1..MaxSends)] /\ <<>> \in Seq(1..MaxSends)
      BY DEF ClientInv
    <3>2. CASE sendQueue' = [sendQueue EXCEPT ![p] = <<>>]
      BY <3>1, <3>2
    <3>3. CASE sendQueue' = sendQueue
      BY <3>1, <3>3
    <3> QED BY <2>a, <3>2, <3>3
  <2>7. \A x \in Paths : (x \notin Known' => sendQueue'[x] = <<>> /\ traces'[x] = {})
                         /\ (x \in ready' => sendQueue'[x] = <<>>)
    BY <1>2, <1>3, <2>a DEF ClientInv
  <2> QED BY <2>1, <2>3, <2>5, <2>6, <2>7 DEF ClientInv
<1>7. WireInv'
  <2>1. /\ toServer' \in [Sockets -> Seq(ClientMsgs)]
        /\ \A s \in Sockets : OfKnown(toServer[s])' /\ (toServer'[s] # <<>> => s <= Wire')
    <3>1. CASE m.kind = "server-ready"
      <4>1. Transmit(Queued(p))
        BY <1>r, <3>1
      <4>2. Queued(p) \in Seq(ClientMsgs) /\ \A i \in DOMAIN Queued(p) : Queued(p)[i].path \in Known'
        BY <1>2, <1>3, QueuedMessages
      <4> QED BY <1>3, <4>1, <4>2, TransmitKeeps
    <3>2. CASE m.kind = "error"
      <4>1. HasTrace(p) /\ Transmit(<<Open(p, NewTrace(p))>>)
        BY <1>r, <3>2
      <4>2. Open(p, NewTrace(p)) \in ClientMsgs /\ Open(p, NewTrace(p)).path = p
        BY <1>2, <4>1, FreeTrace, MessageFacts
      <4>3. <<Open(p, NewTrace(p))>> \in Seq(ClientMsgs)
            /\ \A i \in DOMAIN <<Open(p, NewTrace(p))>> :
                 <<Open(p, NewTrace(p))>>[i].path \in Known'
        BY <1>2, <1>3, <4>2, OneMessage
      <4> QED BY <1>3, <4>1, <4>3, TransmitKeeps
    <3>3. CASE m.kind = "data"
      <4>1. UNCHANGED toServer
        BY <1>r, <3>3
      <4> QED BY <1>3, <4>1 DEF WireInv, OfKnown
    <3> QED BY <1>r, <3>1, <3>2, <3>3
  <2>2. /\ toClient' \in [Sockets -> Seq(ServerMsgs)]
        /\ \A s \in Sockets : OfKnown(toClient[s])' /\ (toClient'[s] # <<>> => up' /\ s = sock')
    BY <1>r, <1>3, <1>4, ReadKeeps
  <2> QED BY <2>1, <2>2 DEF WireInv
<1>8. ServerInv'
  BY <1>r, <1>3, ServerQuiet
<1> QED BY <1>5, <1>6, <1>7, <1>8

LEMMA CloseTypes ==
    ASSUME TypeInv, SocketCloses PROVE TypeInv'
<1> USE DEF TypeInv
<1>1. /\ up /\ sock < MaxSockets /\ up' = FALSE /\ ready' = {}
      /\ toClient' = [toClient EXCEPT ![sock] = <<>>]
      /\ UNCHANGED <<sock, opened, sendQueue, traces, sent, retries, calls, sends,
                     fresh, toServer, server>>
  BY DEF SocketCloses
<1>2. Known' = Known /\ Wire = sock /\ Wire' = sock + 1 /\ sock \in Nat /\ sock \in Sockets
  BY <1>1, WireIs DEF Known, Wire, BasicInv
<1>3. BasicInv'
  <2>1. UNCHANGED <<closed, named, held>>
    BY <1>1 DEF server
  <2> QED BY <1>1, <1>2, <2>1 DEF BasicInv
<1>4. ClientInv'
  BY <1>1, <1>2 DEF ClientInv
<1>5. WireInv'
  <2>1. toServer' \in [Sockets -> Seq(ClientMsgs)]
    BY <1>1 DEF WireInv
  <2>2. <<>> \in Seq(ServerMsgs)
    OBVIOUS
  <2>3. toClient' \in [Sockets -> Seq(ServerMsgs)]
    BY <1>1, <2>2 DEF WireInv
  <2>4. \A s \in Sockets : toClient'[s] = <<>>
    BY <1>1 DEF WireInv
  <2>5. ASSUME NEW s \in Sockets
        PROVE  /\ OfKnown(toServer[s])' /\ OfKnown(toClient[s])'
               /\ toServer'[s] # <<>> => s <= Wire'
    <3>1. s \in Nat /\ OfKnown(toServer[s]) /\ (toServer[s] # <<>> => s <= Wire)
      BY BoundsAssumption DEF WireInv, Sockets
    <3>2. OfKnown(toClient[s])'
      BY <2>4 DEF OfKnown
    <3>3. OfKnown(toServer[s])'
      BY <1>1, <1>2, <3>1 DEF OfKnown
    <3> QED BY <1>1, <1>2, <3>1, <3>2, <3>3
  <2> QED BY <2>1, <2>3, <2>4, <2>5 DEF WireInv
<1>6. ServerInv'
  BY <1>1, <1>2, ServerQuiet
<1> QED BY <1>3, <1>4, <1>5, <1>6

LEMMA ReopenTypes ==
    ASSUME TypeInv, SocketOpens PROVE TypeInv'
<1> USE DEF TypeInv
<1> DEFINE msgs == [i \in DOMAIN opened |-> Open(opened[i], NewTrace(opened[i]))]
<1>1. /\ ~up /\ \A p \in Known : HasTrace(p)
      /\ sock' = sock + 1 /\ up' = TRUE
      /\ traces' = [p \in Paths |->
           IF p \in Known THEN traces[p] \cup {NewTrace(p)} ELSE traces[p]]
      /\ Transmit(msgs)
      /\ UNCHANGED <<opened, ready, sendQueue, sent, retries, calls, sends, fresh,
                     toClient, server>>
  BY DEF SocketOpens
<1>2. Known' = Known /\ Wire = sock + 1 /\ Wire' = Wire /\ sock \in Nat
      /\ sock' \in Sockets /\ Known \subseteq Paths
  BY <1>1, WireIs, KnownPaths DEF Known, Wire, BasicInv
<1>3. \A p \in Known : NewTrace(p) \in Traces
  BY <1>1, FreeTrace
<1>4. BasicInv'
  <2>1. UNCHANGED <<closed, named, held>>
    BY <1>1 DEF server
  <2>2. closed' \subseteq 1..sock' /\ named' \subseteq 1..sock'
    BY <1>1, <1>2, <2>1 DEF BasicInv
  <2> QED BY <1>1, <1>2, <2>1, <2>2 DEF BasicInv
<1>5. ClientInv'
  <2>1. traces' \in [Paths -> SUBSET Traces]
    BY <1>1, <1>3 DEF ClientInv
  <2>2. \A p \in Paths \ Known : traces'[p] = {}
    BY <1>1 DEF ClientInv
  <2> QED BY <1>1, <1>2, <2>1, <2>2 DEF ClientInv
<1>6. WireInv'
  <2> DEFINE F == [x \in Paths |-> IF x \in Known THEN Open(x, NewTrace(x)) ELSE Ping(x)]
  <2>1. F \in [Paths -> ClientMsgs] /\ \A x \in Known : F[x].path = x
    BY <1>2, <1>3, MessageFacts
  <2>2. \A i \in DOMAIN opened : opened[i] \in Known /\ opened[i] \in Paths
    BY <1>2 DEF Known, ToSet
  <2>3. msgs = [i \in DOMAIN opened |-> F[opened[i]]]
    BY <2>2
  <2>4. msgs \in Seq(ClientMsgs) /\ \A i \in DOMAIN opened : F[opened[i]].path \in Known
    <3> HIDE DEF F
    <3> QED BY <2>1, <2>3, OpenedMessages
  <2>5. \A i \in DOMAIN msgs : msgs[i].path \in Known'
    BY <1>2, <2>2, <2>3, <2>4
  <2> HIDE DEF msgs, F
  <2>6. /\ toServer' \in [Sockets -> Seq(ClientMsgs)]
        /\ \A s \in Sockets : OfKnown(toServer[s])' /\ (toServer'[s] # <<>> => s <= Wire')
    BY <1>1, <1>2, <2>4, <2>5, TransmitKeeps
  <2>7. toClient' \in [Sockets -> Seq(ServerMsgs)] /\ \A s \in Sockets : toClient'[s] = <<>>
    BY <1>1 DEF WireInv
  <2>8. \A s \in Sockets : OfKnown(toClient[s])'
    BY <2>7 DEF OfKnown
  <2> QED BY <2>6, <2>7, <2>8 DEF WireInv
<1>7. ServerInv'
  BY <1>1, <1>2, ServerQuiet
<1> QED BY <1>4, <1>5, <1>6, <1>7

-----------------------------------------------------------------------------
(* Types: the steps of the server.                                             *)

\* The server reads a message.
Serves(s, m) ==
    /\ m = Head(toServer[s]) /\ m.path \in Known /\ toServer[s] # <<>>
    /\ s \in Nat /\ 1 <= s /\ s <= sock /\ s \notin closed
    /\ toServer' = [toServer EXCEPT ![s] = Tail(@)]
    /\ UNCHANGED <<client, closed>>
    /\ \/ m.kind = "open" /\ ServeOpen(s, m.path, m.n)
       \/ m.kind \in {"data", "ping"} /\ ServeOther(s, m)

LEMMA ServerReads ==
    ASSUME TypeInv, NEW s \in Sockets, ServerReceives(s)
    PROVE  \E m \in ClientMsgs : Serves(s, m)
<1> DEFINE m == Head(toServer[s])
<1>1. toServer[s] # <<>> /\ toServer[s] \in Seq(ClientMsgs)
  BY DEF ServerReceives, TypeInv, WireInv
<1>2. m \in ClientMsgs /\ m = toServer[s][1] /\ 1 \in DOMAIN toServer[s]
  BY <1>1, TailOf
<1>3. m.path \in Known
  BY <1>2 DEF TypeInv, WireInv, OfKnown
<1>4. m.kind \in {"open", "data", "ping"}
  BY <1>2, MessageFacts
<1>5. s \in Nat /\ 1 <= s
  BY BoundsAssumption DEF Sockets
<1>6. m = Head(toServer[s])
  OBVIOUS
<1>7. /\ s <= sock /\ s \notin closed
      /\ IF m.kind = "open" THEN ServeOpen(s, m.path, m.n) ELSE ServeOther(s, m)
      /\ toServer' = [toServer EXCEPT ![s] = Tail(@)]
      /\ UNCHANGED <<client, closed>>
  BY DEF ServerReceives
<1> HIDE DEF m
<1>8. Serves(s, m)
  BY <1>1, <1>3, <1>4, <1>5, <1>6, <1>7 DEF Serves
<1> QED BY <1>2, <1>8

LEMMA ServedWire ==
    ASSUME BasicInv, WireInv, NEW s \in Sockets, toServer[s] # <<>>,
           toServer' = [toServer EXCEPT ![s] = Tail(@)],
           UNCHANGED <<sock, up>>, Known' = Known
    PROVE  /\ toServer' \in [Sockets -> Seq(ClientMsgs)]
           /\ \A x \in Sockets : OfKnown(toServer[x])' /\ (toServer'[x] # <<>> => x <= Wire')
<1>1. toServer \in [Sockets -> Seq(ClientMsgs)] /\ toServer[s] \in Seq(ClientMsgs)
      /\ Wire' = Wire
  BY DEF WireInv, Wire
<1>2. /\ Tail(toServer[s]) \in Seq(ClientMsgs)
      /\ \A i \in DOMAIN Tail(toServer[s]) :
           i + 1 \in DOMAIN toServer[s] /\ Tail(toServer[s])[i] = toServer[s][i + 1]
  BY <1>1, TailOf
<1>3. toServer'[s] = Tail(toServer[s])
      /\ \A x \in Sockets \ {s} : toServer'[x] = toServer[x]
  BY <1>1
<1>4. toServer' \in [Sockets -> Seq(ClientMsgs)]
  BY <1>1, <1>2
<1>5. ASSUME NEW x \in Sockets
      PROVE  OfKnown(toServer[x])' /\ (toServer'[x] # <<>> => x <= Wire')
  <2>1. OfKnown(toServer[x]) /\ (toServer[x] # <<>> => x <= Wire)
    BY DEF WireInv
  <2>2. CASE x = s
    BY <1>1, <1>2, <1>3, <2>1, <2>2 DEF OfKnown
  <2>3. CASE x # s
    <3>1. toServer'[x] = toServer[x]
      BY <1>3, <2>3
    <3> QED BY <1>1, <2>1, <3>1 DEF OfKnown
  <2> QED BY <2>2, <2>3
<1> QED BY <1>4, <1>5

LEMMA ReplyKeeps ==
    ASSUME BasicInv, WireInv, NEW s \in Sockets, NEW m \in ServerMsgs, m.path \in Known,
           Reply(s, m), UNCHANGED <<sock, up>>, Known' = Known
    PROVE  /\ toClient' \in [Sockets -> Seq(ServerMsgs)]
           /\ \A x \in Sockets : OfKnown(toClient[x])' /\ (toClient'[x] # <<>> => up' /\ x = sock')
<1>1. toClient \in [Sockets -> Seq(ServerMsgs)] /\ toClient[s] \in Seq(ServerMsgs)
  BY DEF WireInv
<1>2. CASE up /\ s = sock
  <2>1. toClient' = [toClient EXCEPT ![s] = Append(@, m)]
    BY <1>2 DEF Reply
  <2>2. /\ Append(toClient[s], m) \in Seq(ServerMsgs)
        /\ \A i \in DOMAIN Append(toClient[s], m) :
             \/ i \in DOMAIN toClient[s] /\ Append(toClient[s], m)[i] = toClient[s][i]
             \/ Append(toClient[s], m)[i] = m
    <3>1. /\ Append(toClient[s], m) \in Seq(ServerMsgs) /\ Len(toClient[s]) \in Nat
          /\ DOMAIN Append(toClient[s], m) = 1..(Len(toClient[s]) + 1)
          /\ DOMAIN toClient[s] = 1..Len(toClient[s])
          /\ \A i \in 1..Len(toClient[s]) : Append(toClient[s], m)[i] = toClient[s][i]
          /\ Append(toClient[s], m)[Len(toClient[s]) + 1] = m
      BY <1>1, AppendProperties, LenProperties
    <3> QED BY <3>1
  <2>3. toClient' \in [Sockets -> Seq(ServerMsgs)]
    BY <1>1, <2>1, <2>2
  <2>4. ASSUME NEW x \in Sockets
        PROVE  OfKnown(toClient[x])' /\ (toClient'[x] # <<>> => up' /\ x = sock')
    <3>1. OfKnown(toClient[x]) /\ (toClient[x] # <<>> => up /\ x = sock)
      BY DEF WireInv
    <3>2. CASE x = s
      <4>1. toClient'[x] = Append(toClient[s], m)
        BY <1>1, <2>1, <3>2
      <4> QED BY <1>2, <2>2, <3>1, <3>2, <4>1 DEF OfKnown
    <3>3. CASE x # s
      <4>1. toClient'[x] = toClient[x]
        BY <1>1, <2>1, <3>3
      <4> QED BY <3>1, <4>1 DEF OfKnown
    <3> QED BY <3>2, <3>3
  <2> QED BY <2>3, <2>4
<1>3. CASE ~(up /\ s = sock)
  <2>1. toClient' = toClient
    BY <1>3 DEF Reply
  <2> QED BY <2>1 DEF WireInv, OfKnown
<1> QED BY <1>2, <1>3

LEMMA ServeTypes ==
    ASSUME TypeInv, NEW s \in Sockets, ServerReceives(s) PROVE TypeInv'
<1> USE DEF TypeInv
<1>1. PICK m \in ClientMsgs : Serves(s, m)
  BY ServerReads
<1> DEFINE p == m.path
<1>2. /\ toServer[s] # <<>> /\ s \in Nat /\ 1 <= s /\ s <= sock /\ s \notin closed
      /\ toServer' = [toServer EXCEPT ![s] = Tail(@)]
      /\ UNCHANGED <<sock, up, opened, ready, sendQueue, traces, sent, retries, calls,
                     sends, fresh, closed>>
      /\ p \in Known
  BY <1>1 DEF Serves, client
<1>3. Known' = Known /\ Wire' = Wire /\ p \in Paths
  BY <1>2, MessageFacts DEF Known, Wire
<1>4. ClientInv'
  BY <1>2, <1>3 DEF ClientInv
<1>5. /\ toServer' \in [Sockets -> Seq(ClientMsgs)]
      /\ \A x \in Sockets : OfKnown(toServer[x])' /\ (toServer'[x] # <<>> => x <= Wire')
  BY <1>2, <1>3, ServedWire
<1>6. CASE m.kind = "open"
  <2>1. /\ chan' = [chan EXCEPT ![p] = s] /\ got' = [got EXCEPT ![p] = <<>>]
        /\ lastOpen' = [lastOpen EXCEPT ![p] = s]
        /\ named' = named \cup {s} /\ held' = TRUE
        /\ Reply(s, Ready(p, m.n)) \/ UNCHANGED toClient
    BY <1>1, <1>6 DEF Serves, ServeOpen
  <2>2. BasicInv'
    BY <1>2, <1>3, <2>1, BoundsAssumption DEF BasicInv, Sockets
  <2>3. Ready(p, m.n) \in ServerMsgs /\ Ready(p, m.n).path = p
    BY <1>3, <1>6, MessageFacts
  <2>4. WireInv'
    <3>1. /\ toClient' \in [Sockets -> Seq(ServerMsgs)]
          /\ \A x \in Sockets : OfKnown(toClient[x])' /\ (toClient'[x] # <<>> => up' /\ x = sock')
      <4>1. CASE Reply(s, Ready(p, m.n))
        BY <1>2, <1>3, <2>3, <4>1, ReplyKeeps
      <4>2. CASE UNCHANGED toClient
        BY <1>2, <1>3, <4>2 DEF WireInv, OfKnown
      <4> QED BY <2>1, <4>1, <4>2
    <3> QED BY <1>5, <3>1 DEF WireInv
  <2>5. ServerInv'
    <3>1. /\ chan' \in [Paths -> 0..MaxSockets] /\ lastOpen' \in [Paths -> 0..MaxSockets]
          /\ got' \in [Paths -> Seq(Sockets \X (1..MaxSends))]
      <4>1. s \in 0..MaxSockets
        BY BoundsAssumption DEF Sockets
      <4>2. <<>> \in Seq(Sockets \X (1..MaxSends))
        OBVIOUS
      <4>3. /\ chan \in [Paths -> 0..MaxSockets] /\ lastOpen \in [Paths -> 0..MaxSockets]
            /\ got \in [Paths -> Seq(Sockets \X (1..MaxSends))]
        BY DEF ServerInv
      <4>4. chan' \in [Paths -> 0..MaxSockets] /\ lastOpen' \in [Paths -> 0..MaxSockets]
        BY <2>1, <4>1, <4>3
      <4>5. got' \in [Paths -> Seq(Sockets \X (1..MaxSends))]
        BY <2>1, <4>2, <4>3
      <4> QED BY <4>4, <4>5
    <3>2. \A x \in Paths : /\ chan'[x] \in (0..sock') \ closed' /\ lastOpen'[x] <= sock'
                           /\ x \notin Known' => chan'[x] = 0
      BY <1>2, <1>3, <2>1 DEF ServerInv, BasicInv, Sockets
    <3> QED BY <3>1, <3>2 DEF ServerInv
  <2> QED BY <1>4, <2>2, <2>4, <2>5
<1>7. CASE m.kind # "open"
  <2>1. ServeOther(s, m) /\ m.kind \in {"data", "ping"}
    BY <1>1, <1>7 DEF Serves
  <2>2. UNCHANGED <<chan, named, held, lastOpen>>
    BY <2>1 DEF ServeOther
  <2>3. BasicInv'
    BY <1>2, <1>3, <2>2 DEF BasicInv
  <2>4. WireInv'
    <3>1. /\ toClient' \in [Sockets -> Seq(ServerMsgs)]
          /\ \A x \in Sockets : OfKnown(toClient[x])' /\ (toClient'[x] # <<>> => up' /\ x = sock')
      <4>1. CASE chan[p] = 0
        <5>1. Reply(s, NotFound(p))
          BY <2>1, <4>1 DEF ServeOther, ReplyNotFound
        <5>2. NotFound(p) \in ServerMsgs /\ NotFound(p).path = p
          BY <1>3, MessageFacts
        <5> QED BY <1>2, <1>3, <5>1, <5>2, ReplyKeeps
      <4>2. CASE chan[p] # 0
        <5>1. toClient' = toClient
          BY <2>1, <4>2 DEF ServeOther
        <5> QED BY <1>2, <1>3, <5>1 DEF WireInv, OfKnown
      <4> QED BY <4>1, <4>2
    <3> QED BY <1>5, <3>1 DEF WireInv
  <2>5. ServerInv'
    <3>1. got' = got \/ (m.kind = "data" /\ got' = [got EXCEPT ![p] = Append(@, <<s, m.n>>)])
      BY <2>1 DEF ServeOther
    <3>2. ASSUME m.kind = "data" PROVE Append(got[p], <<s, m.n>>) \in Seq(Sockets \X (1..MaxSends))
      <4>1. got[p] \in Seq(Sockets \X (1..MaxSends))
        BY <1>3 DEF ServerInv
      <4>2. m.n \in 1..MaxSends
        BY <3>2, MessageFacts
      <4>3. <<s, m.n>> \in Sockets \X (1..MaxSends)
        BY <4>2
      <4> QED BY <4>1, <4>3, AppendProperties
    <3>3. got' \in [Paths -> Seq(Sockets \X (1..MaxSends))]
      BY <1>3, <3>1, <3>2 DEF ServerInv
    <3> QED BY <1>2, <1>3, <2>2, <3>3 DEF ServerInv
  <2> QED BY <1>4, <2>3, <2>4, <2>5
<1> QED BY <1>6, <1>7

LEMMA ServerCloseTypes ==
    ASSUME TypeInv, NEW s \in Sockets, ServerCloses(s) PROVE TypeInv'
<1> USE DEF TypeInv
<1>1. /\ s <= sock /\ s \notin closed /\ closed' = closed \cup {s}
      /\ toServer' = [toServer EXCEPT ![s] = <<>>]
      /\ chan' = [p \in Paths |-> IF p \in ClosedWith(s) THEN 0 ELSE chan[p]]
      /\ got' = [p \in Paths |-> IF p \in ClosedWith(s) THEN <<>> ELSE got[p]]
      /\ held' = (held /\ ~(s \in named /\ HasNoReplacement(s)))
      /\ UNCHANGED <<client, toClient, named, lastOpen>>
  BY DEF ServerCloses
<1>2. UNCHANGED <<sock, up, opened, ready, sendQueue, traces, sent, retries, calls,
                  sends, fresh>>
  BY <1>1 DEF client
<1>3. Known' = Known /\ Wire' = Wire
  BY <1>2 DEF Known, Wire
<1>4. BasicInv'
  BY <1>1, <1>2, <1>3, BoundsAssumption DEF BasicInv, Sockets
<1>5. ClientInv'
  BY <1>2, <1>3 DEF ClientInv
<1>6. WireInv'
  <2>1. toServer' \in [Sockets -> Seq(ClientMsgs)]
        /\ \A x \in Sockets : toServer'[x] = IF x = s THEN <<>> ELSE toServer[x]
    BY <1>1 DEF WireInv
  <2>2. ASSUME NEW x \in Sockets
        PROVE  OfKnown(toServer[x])' /\ (toServer'[x] # <<>> => x <= Wire')
    <3>1. OfKnown(toServer[x]) /\ (toServer[x] # <<>> => x <= Wire)
      BY DEF WireInv
    <3>2. CASE x = s
      BY <2>1, <3>2 DEF OfKnown
    <3>3. CASE x # s
      <4>1. toServer'[x] = toServer[x]
        BY <2>1, <3>3
      <4> QED BY <1>3, <3>1, <4>1 DEF OfKnown
    <3> QED BY <3>2, <3>3
  <2>3. \A x \in Sockets : OfKnown(toClient[x])' /\ (toClient'[x] # <<>> => up' /\ x = sock')
    BY <1>1, <1>2, <1>3 DEF WireInv, OfKnown
  <2> QED BY <1>1, <2>1, <2>2, <2>3 DEF WireInv
<1>7. ServerInv'
  <2>1. chan' \in [Paths -> 0..MaxSockets] /\ lastOpen' \in [Paths -> 0..MaxSockets]
    BY <1>1, BoundsAssumption DEF ServerInv
  <2>2. got' \in [Paths -> Seq(Sockets \X (1..MaxSends))]
    BY <1>1 DEF ServerInv
  <2>3. ASSUME NEW x \in Paths
        PROVE  /\ chan'[x] \in (0..sock') \ closed' /\ lastOpen'[x] <= sock'
               /\ x \notin Known' => chan'[x] = 0
    <3>1. /\ chan[x] \in (0..sock) \ closed /\ lastOpen[x] <= sock
          /\ x \notin Known => chan[x] = 0
      BY DEF ServerInv
    <3>2. chan'[x] = IF chan[x] = s THEN 0 ELSE chan[x]
      BY <1>1 DEF ClosedWith
    <3>3. s # 0 /\ 0 \notin closed /\ sock \in Nat
      BY WireIs, BoundsAssumption DEF Sockets, BasicInv
    <3> QED BY <1>1, <1>2, <1>3, <3>1, <3>2, <3>3
  <2> QED BY <2>1, <2>2, <2>3 DEF ServerInv
<1> QED BY <1>4, <1>5, <1>6, <1>7

\* The server's program has sent a datum on the socket of a channel.
Speaks(p) ==
    /\ chan[p] \in Sockets /\ p \in Known /\ Reply(chan[p], Data(p, 0))
    /\ UNCHANGED <<sock, up, opened, ready, sendQueue, traces, sent, retries, calls, sends,
                   fresh, toServer, closed, chan, named, held, thrown, got, lastOpen>>

LEMMA ServerSpeaks ==
    ASSUME TypeInv, NEW p \in Paths, ServerSends(p) PROVE Speaks(p)
<1>1. /\ chan[p] # 0 /\ Reply(chan[p], Data(p, 0))
      /\ UNCHANGED <<client, toServer, server>>
  BY DEF ServerSends
<1>2. chan[p] \in 0..MaxSockets /\ (p \notin Known => chan[p] = 0)
  BY DEF TypeInv, ServerInv
<1>3. chan[p] \in Sockets
  BY <1>1, <1>2, BoundsAssumption DEF Sockets
<1> QED BY <1>1, <1>2, <1>3 DEF Speaks, client, server

LEMMA SpeakTypes ==
    ASSUME TypeInv, NEW p \in Paths, ServerSends(p) PROVE TypeInv'
<1> USE DEF TypeInv
<1>1. Speaks(p)
  BY ServerSpeaks
<1>2. /\ chan[p] \in Sockets /\ p \in Known /\ Reply(chan[p], Data(p, 0))
      /\ UNCHANGED <<sock, up, opened, ready, sendQueue, traces, sent, retries, calls,
                     sends, fresh, toServer, closed, chan, named, held, got, lastOpen>>
  BY <1>1 DEF Speaks
<1>3. Known' = Known /\ Wire' = Wire
  BY <1>2 DEF Known, Wire
<1>4. BasicInv' /\ ClientInv'
  BY <1>2, <1>3 DEF BasicInv, ClientInv
<1>5. Data(p, 0) \in ServerMsgs /\ Data(p, 0).path \in Known
  BY <1>2, MessageFacts
<1>6. /\ toClient' \in [Sockets -> Seq(ServerMsgs)]
      /\ \A x \in Sockets : OfKnown(toClient[x])' /\ (toClient'[x] # <<>> => up' /\ x = sock')
  BY <1>2, <1>3, <1>5, ReplyKeeps
<1>7. WireInv'
  BY <1>2, <1>3, <1>6 DEF WireInv, OfKnown
<1>8. ServerInv'
  BY <1>2, <1>3 DEF ServerInv
<1> QED BY <1>4, <1>7, <1>8

LEMMA TypesInit == Init => TypeInv
<1> SUFFICES ASSUME Init PROVE TypeInv
  OBVIOUS
<1> USE DEF Init
<1>1. Known = {} /\ Wire = 1
  BY DEF Known, ToSet, Wire
<1>2. BasicInv
  <2>1. /\ sock = 1 /\ up = TRUE /\ opened = <<>> /\ ready = {} /\ retries = 0 /\ calls = 0
        /\ sends = 0 /\ closed = {} /\ named = {} /\ held = FALSE
    OBVIOUS
  <2> HIDE DEF Init
  <2>2. sock \in Sockets /\ 0 \in 0..MaxRetries /\ 0 \in 0..MaxOpens /\ 0 \in 0..MaxSends
    BY <2>1, BoundsAssumption DEF Sockets
  <2>3. opened \in Seq(Paths)
    BY <2>1
  <2> QED BY <2>1, <2>2, <2>3 DEF BasicInv
<1>3. ClientInv
  <2>1. sendQueue \in [Paths -> Seq(1..MaxSends)] /\ sent \in [Paths -> 0..MaxSends]
    BY BoundsAssumption
  <2> QED BY <1>1, <2>1, BoundsAssumption DEF ClientInv
<1>4. WireInv
  <2>1. toServer \in [Sockets -> Seq(ClientMsgs)] /\ toClient \in [Sockets -> Seq(ServerMsgs)]
    OBVIOUS
  <2>2. \A s \in Sockets : toServer[s] = <<>> /\ toClient[s] = <<>>
    OBVIOUS
  <2>3. \A s \in Sockets : OfKnown(toServer[s]) /\ OfKnown(toClient[s])
    BY <2>2 DEF OfKnown
  <2> QED BY <2>1, <2>2, <2>3 DEF WireInv
<1>5. ServerInv
  <2>1. got \in [Paths -> Seq(Sockets \X (1..MaxSends))]
    OBVIOUS
  <2>2. chan \in [Paths -> 0..MaxSockets] /\ lastOpen \in [Paths -> 0..MaxSockets]
    BY BoundsAssumption
  <2> QED BY <2>1, <2>2 DEF ServerInv
<1> QED BY <1>2, <1>3, <1>4, <1>5 DEF TypeInv

LEMMA TypesStutter == ASSUME TypeInv, UNCHANGED vars PROVE TypeInv'
<1>1. UNCHANGED <<sock, up, opened, ready, sendQueue, traces, sent, retries, calls,
                  sends, fresh, toServer, toClient, closed, chan, named, held, got, lastOpen>>
  BY DEF vars, client, server
<1>2. Known' = Known /\ Wire' = Wire
  BY <1>1 DEF Known, Wire
<1>3. BasicInv' /\ ClientInv'
  BY <1>1, <1>2 DEF BasicInv, ClientInv, TypeInv
<1>4. WireInv'
  BY <1>1, <1>2 DEF WireInv, OfKnown, TypeInv
<1>5. ServerInv'
  BY <1>1, <1>2 DEF ServerInv, TypeInv
<1> QED BY <1>3, <1>4, <1>5 DEF TypeInv

LEMMA TypesStep == TypeInv /\ [Next]_vars => TypeInv'
<1> SUFFICES ASSUME TypeInv, [Next]_vars PROVE TypeInv'
  OBVIOUS
<1>1. CASE \E p \in Paths : OpenChannel(p) \/ Send(p) \/ \E t \in Traces : Retry(p, t)
  BY <1>1, OpenTypes, SendTypes, RetryTypes
<1>2. CASE Heartbeat \/ ClientReceives \/ SocketCloses \/ SocketOpens
  BY <1>2, HeartbeatTypes, ReceiveTypes, CloseTypes, ReopenTypes
<1>3. CASE \E s \in Sockets : ServerReceives(s) \/ ServerCloses(s)
  BY <1>3, ServeTypes, ServerCloseTypes
<1>4. CASE \E p \in Paths : ServerSends(p)
  BY <1>4, SpeakTypes
<1>5. CASE UNCHANGED vars
  BY <1>5, TypesStutter
<1> QED BY <1>1, <1>2, <1>3, <1>4, <1>5 DEF Next, Client, Server

-----------------------------------------------------------------------------
(* The handlers that threw.                                                    *)

LEMMA ThrownInit == Init => ThrownInv
BY DEF Init, ThrownInv

LEMMA ThrownStep == TypeInv /\ ThrownInv /\ [Next]_vars => ThrownInv'
<1> SUFFICES ASSUME TypeInv, ThrownInv, [Next]_vars PROVE ThrownInv'
  OBVIOUS
<1>1. CASE Client
  <2>1. UNCHANGED server
    BY <1>1 DEF Client, OpenChannel, Send, Retry, Heartbeat, ClientReceives, SocketCloses,
                SocketOpens
  <2> QED BY <2>1 DEF server, ThrownInv
<1>2. ASSUME NEW s \in Sockets, ServerReceives(s) PROVE ThrownInv'
  <2>1. PICK m \in ClientMsgs : Serves(s, m)
    BY <1>2, ServerReads
  <2>2. \/ thrown' = thrown \/ thrown' = thrown \ {m.path}
        \/ m.path \in Throwing /\ thrown' = thrown \cup {m.path}
    BY <2>1 DEF Serves, ServeOpen, ServeOther
  <2> QED BY <2>2 DEF ThrownInv
<1>3. ASSUME NEW s \in Sockets, ServerCloses(s) PROVE ThrownInv'
  BY <1>3 DEF ServerCloses, ThrownInv
<1>4. ASSUME NEW p \in Paths, ServerSends(p) PROVE ThrownInv'
  BY <1>4 DEF ServerSends, server, ThrownInv
<1>5. CASE UNCHANGED vars
  BY <1>5 DEF vars, server, ThrownInv
<1> QED BY <1>1, <1>2, <1>3, <1>4, <1>5 DEF Next, Server

-----------------------------------------------------------------------------
(* What the handlers hold.                                                     *)

LEMMA HeldInit == Init => HeldInv
BY DEF Init, HeldInv, HeldWhileOpen

LEMMA HeldQuiet ==
    ASSUME HeldInv, UNCHANGED <<chan, named, held>> PROVE HeldInv'
BY DEF HeldInv, HeldWhileOpen

LEMMA HeldServe ==
    ASSUME TypeInv, HeldInv, NEW s \in Sockets, ServerReceives(s) PROVE HeldInv'
<1>1. PICK m \in ClientMsgs : Serves(s, m)
  BY ServerReads
<1> DEFINE p == m.path
<1>2. p \in Paths /\ chan \in [Paths -> 0..MaxSockets] /\ s # 0
  BY MessageFacts, BoundsAssumption DEF TypeInv, ServerInv, Sockets
<1>3. CASE m.kind = "open"
  <2>1. chan' = [chan EXCEPT ![p] = s] /\ named' = named \cup {s} /\ held' = TRUE
    BY <1>1, <1>3 DEF Serves, ServeOpen
  <2>2. chan'[p] = s /\ \A x \in Paths : chan'[x] = s \/ chan'[x] = chan[x]
    BY <1>2, <2>1
  <2> QED BY <1>2, <2>1, <2>2 DEF HeldInv, HeldWhileOpen
<1>4. CASE m.kind # "open"
  <2>1. UNCHANGED <<chan, named, held>>
    BY <1>1, <1>4 DEF Serves, ServeOther
  <2> QED BY <2>1, HeldQuiet
<1> QED BY <1>3, <1>4

LEMMA HeldServerCloses ==
    ASSUME TypeInv, HeldInv, NEW s \in Sockets, ServerCloses(s) PROVE HeldInv'
<1>1. /\ chan' = [p \in Paths |-> IF p \in ClosedWith(s) THEN 0 ELSE chan[p]]
      /\ held' = (held /\ ~(s \in named /\ HasNoReplacement(s)))
      /\ UNCHANGED named
  BY DEF ServerCloses
<1>2. \A p \in Paths : chan'[p] = IF chan[p] = s THEN 0 ELSE chan[p]
  BY <1>1 DEF ClosedWith
<1>3. s # 0
  BY BoundsAssumption DEF Sockets
<1>4. \A p \in Paths : chan'[p] # 0 => chan'[p] \in named'
  BY <1>1, <1>2 DEF HeldInv
<1>5. held' => \E p \in Paths : chan'[p] # 0
  <2> SUFFICES ASSUME held' PROVE \E p \in Paths : chan'[p] # 0
    OBVIOUS
  <2>1. held /\ ~(s \in named /\ HasNoReplacement(s))
    BY <1>1
  <2>2. PICK x \in Paths : chan[x] # 0
    BY <2>1 DEF HeldInv, HeldWhileOpen
  <2>3. CASE s \in named
    <3>1. PICK y \in Paths : chan[y] \notin {0, s}
      BY <2>1, <2>3 DEF HasNoReplacement
    <3> QED BY <1>2, <3>1
  <2>4. CASE s \notin named
    <3>1. chan[x] # s
      BY <2>2, <2>4 DEF HeldInv
    <3> QED BY <1>2, <2>2, <3>1
  <2> QED BY <2>3, <2>4
<1>6. (\E p \in Paths : chan'[p] # 0) => held'
  <2> SUFFICES ASSUME NEW p \in Paths, chan'[p] # 0 PROVE held'
    OBVIOUS
  <2>1. chan[p] # 0 /\ chan[p] # s
    BY <1>2
  <2> QED BY <1>1, <2>1 DEF HeldInv, HeldWhileOpen, HasNoReplacement
<1>7. HeldWhileOpen'
  <2>1. held' \in BOOLEAN
    BY <1>1
  <2> QED BY <1>5, <1>6, <2>1 DEF HeldWhileOpen
<1> QED BY <1>4, <1>7 DEF HeldInv

LEMMA HeldStep == TypeInv /\ HeldInv /\ [Next]_vars => HeldInv'
<1> SUFFICES ASSUME TypeInv, HeldInv, [Next]_vars PROVE HeldInv'
  OBVIOUS
<1>1. CASE Client
  <2>1. UNCHANGED server
    BY <1>1 DEF Client, OpenChannel, Send, Retry, Heartbeat, ClientReceives, SocketCloses,
                SocketOpens
  <2> QED BY <2>1, HeldQuiet DEF server
<1>2. CASE \E s \in Sockets : ServerReceives(s) \/ ServerCloses(s)
  BY <1>2, HeldServe, HeldServerCloses
<1>3. CASE \E p \in Paths : ServerSends(p)
  BY <1>3, HeldQuiet DEF ServerSends, server
<1>4. CASE UNCHANGED vars
  BY <1>4, HeldQuiet DEF vars, server
<1> QED BY <1>1, <1>2, <1>3, <1>4 DEF Next, Server

-----------------------------------------------------------------------------
(* The order of the data of a path.                                            *)

OrderOf(p) == QueueRises(p) /\ WiresRise(p) /\ GotRises(p)

PassedNext(p, k) == k <= sent'[p] /\ \A j \in DOMAIN sendQueue'[p] : k < sendQueue'[p][j]

\* What is passed on stays so, and the queue stays in order.
QueueMoves(p) ==
    /\ QueueRises(p)'
    /\ \A k \in 1..MaxSends : Passed(p, k) => PassedNext(p, k)

LEMMA OnWire ==
    ASSUME TypeInv, NEW s \in Sockets
    PROVE  /\ toServer[s] \in Seq(ClientMsgs) /\ Len(toServer[s]) \in Nat
           /\ DOMAIN toServer[s] = 1..Len(toServer[s])
           /\ \A i \in DOMAIN toServer[s] :
                /\ toServer[s][i] \in ClientMsgs
                /\ \A p : IsData(toServer[s][i], p) =>
                     toServer[s][i].n \in 1..MaxSends /\ toServer[s][i] = Data(p, toServer[s][i].n)
<1>1. toServer[s] \in Seq(ClientMsgs)
  BY DEF TypeInv, WireInv
<1>2. /\ Len(toServer[s]) \in Nat /\ DOMAIN toServer[s] = 1..Len(toServer[s])
      /\ \A i \in DOMAIN toServer[s] : toServer[s][i] \in ClientMsgs
  BY <1>1, LenProperties, ElementOfSeq
<1> QED BY <1>1, <1>2, MessageFacts DEF IsData

LEMMA InGot ==
    ASSUME TypeInv, NEW p \in Paths
    PROVE  /\ got[p] \in Seq(Sockets \X (1..MaxSends)) /\ Len(got[p]) \in Nat
           /\ DOMAIN got[p] = 1..Len(got[p])
           /\ \A i \in DOMAIN got[p] :
                got[p][i] \in Sockets \X (1..MaxSends)
                /\ got[p][i][1] \in Sockets /\ got[p][i][2] \in 1..MaxSends
<1>1. got[p] \in Seq(Sockets \X (1..MaxSends))
  BY DEF TypeInv, ServerInv
<1>2. /\ Len(got[p]) \in Nat /\ DOMAIN got[p] = 1..Len(got[p])
      /\ \A i \in DOMAIN got[p] : got[p][i] \in Sockets \X (1..MaxSends)
  BY <1>1, LenProperties, ElementOfSeq
<1> QED BY <1>1, <1>2

LEMMA OrderShrinks ==
    ASSUME TypeInv, NEW p \in Paths, OrderOf(p), QueueMoves(p),
           \A s \in Sockets : toServer'[s] = toServer[s] \/ toServer'[s] = <<>>
                              \/ (toServer[s] # <<>> /\ toServer'[s] = Tail(toServer[s])),
           got'[p] = got[p] \/ got'[p] = <<>>
    PROVE  OrderOf(p)'
<1>1. ASSUME NEW s \in Sockets
      PROVE  \E d \in {0, 1} : \A i \in DOMAIN toServer'[s] :
               i \in Nat /\ i + d \in DOMAIN toServer[s] /\ toServer'[s][i] = toServer[s][i + d]
  <2>1. toServer[s] \in Seq(ClientMsgs) /\ DOMAIN toServer[s] = 1..Len(toServer[s])
    BY OnWire
  <2>2. CASE toServer'[s] = toServer[s]
    <3>1. \A i \in DOMAIN toServer'[s] : i \in Nat /\ i + 0 = i
      BY <2>1, <2>2
    <3> QED BY <2>2, <3>1
  <2>3. CASE toServer'[s] = <<>>
    BY <2>3
  <2>4. CASE toServer[s] # <<>> /\ toServer'[s] = Tail(toServer[s])
    <3>1. \A i \in DOMAIN Tail(toServer[s]) : i \in Nat /\ i + 1 \in DOMAIN toServer[s]
                                        /\ Tail(toServer[s])[i] = toServer[s][i + 1]
      BY <2>1, <2>4, TailOf
    <3> QED BY <2>4, <3>1
  <2> QED BY <2>2, <2>3, <2>4
<1>2. WiresRise(p)'
  <2> SUFFICES ASSUME NEW s \in Sockets
               PROVE  /\ DataRise(toServer[s], p)'
                      /\ \A i \in DOMAIN toServer'[s] :
                           IsData(toServer'[s][i], p) => PassedNext(p, toServer'[s][i].n)
    BY DEF WiresRise, Passed, PassedNext
  <2>1. PICK d \in {0, 1} : \A i \in DOMAIN toServer'[s] :
               i \in Nat /\ i + d \in DOMAIN toServer[s] /\ toServer'[s][i] = toServer[s][i + d]
    BY <1>1
  <2>2. DataRise(toServer[s], p) /\ \A i \in DOMAIN toServer[s] :
          IsData(toServer[s][i], p) => Passed(p, toServer[s][i].n)
    BY DEF OrderOf, WiresRise
  <2>3. DataRise(toServer[s], p)'
    <3> SUFFICES ASSUME NEW i \in DOMAIN toServer'[s], NEW j \in DOMAIN toServer'[s], i < j,
                        IsData(toServer'[s][i], p), IsData(toServer'[s][j], p)
                 PROVE  toServer'[s][i].n < toServer'[s][j].n
      BY DEF DataRise
    <3>1. i + d < j + d
      BY <2>1
    <3> QED BY <2>1, <2>2, <3>1 DEF DataRise
  <2>4. ASSUME NEW i \in DOMAIN toServer'[s], IsData(toServer'[s][i], p)
        PROVE  PassedNext(p, toServer'[s][i].n)
    <3>1. PICK x \in DOMAIN toServer[s] : toServer'[s][i] = toServer[s][x]
      BY <2>1
    <3>2. toServer[s][x].n \in 1..MaxSends /\ Passed(p, toServer[s][x].n)
      BY <2>2, <2>4, <3>1, OnWire
    <3> QED BY <3>1, <3>2 DEF QueueMoves
  <2> QED BY <2>3, <2>4
<1>3. GotRises(p)'
  <2>1. CASE got'[p] = <<>>
    BY <2>1 DEF GotRises
  <2>2. CASE got'[p] = got[p]
    <3>1. \A i, j \in DOMAIN got'[p] :
            i < j /\ got'[p][i][1] = got'[p][j][1] => got'[p][i][2] < got'[p][j][2]
      BY <2>2 DEF OrderOf, GotRises
    <3>2. ASSUME NEW i \in DOMAIN got'[p]
          PROVE  /\ PassedNext(p, got'[p][i][2])
                 /\ \A j \in DOMAIN toServer'[got'[p][i][1]] :
                      IsData(toServer'[got'[p][i][1]][j], p)
                        => got'[p][i][2] < toServer'[got'[p][i][1]][j].n
      <4> DEFINE s == got[p][i][1]  k == got[p][i][2]
      <4>1. s \in Sockets /\ k \in 1..MaxSends /\ got'[p][i][1] = s /\ got'[p][i][2] = k
        BY <2>2, InGot
      <4>2. Passed(p, k) /\ \A j \in DOMAIN toServer[s] :
              IsData(toServer[s][j], p) => k < toServer[s][j].n
        BY <2>2 DEF OrderOf, GotRises
      <4> HIDE DEF s, k
      <4>3. PassedNext(p, k)
        BY <4>1, <4>2 DEF QueueMoves
      <4>4. \A j \in DOMAIN toServer'[s] : \E x \in DOMAIN toServer[s] : toServer'[s][j] = toServer[s][x]
        BY <1>1, <4>1
      <4>5. \A j \in DOMAIN toServer'[s] : IsData(toServer'[s][j], p) => k < toServer'[s][j].n
        BY <4>2, <4>4
      <4> QED BY <4>1, <4>3, <4>5
    <3> QED BY <3>1, <3>2 DEF GotRises, Passed, PassedNext
  <2> QED BY <2>1, <2>2
<1> QED BY <1>2, <1>3 DEF OrderOf, QueueMoves

LEMMA OrderTransmits ==
    ASSUME TypeInv, NEW p \in Paths, OrderOf(p), QueueMoves(p), got'[p] = got[p],
           NEW msgs \in Seq(ClientMsgs), Transmit(msgs), DataRise(msgs, p),
           \A j \in DOMAIN msgs : IsData(msgs[j], p) =>
             /\ PassedNext(p, msgs[j].n)
             /\ \A k \in 1..MaxSends : Passed(p, k) => k < msgs[j].n
    PROVE  OrderOf(p)'
<1> DEFINE w == toServer[Wire]
<1>1. Wire \in Sockets /\ toServer \in [Sockets -> Seq(ClientMsgs)]
  BY WireIs DEF TypeInv, WireInv
<1>2. toServer'[Wire] = w \o msgs /\ \A s \in Sockets \ {Wire} : toServer'[s] = toServer[s]
  BY <1>1 DEF Transmit
<1>3. w \in Seq(ClientMsgs)
  BY <1>1
<1>4. /\ Len(w) \in Nat
      /\ \A i \in DOMAIN (w \o msgs) :
                \/ i \in DOMAIN w /\ (w \o msgs)[i] = w[i]
                \/ /\ i - Len(w) \in DOMAIN msgs /\ (w \o msgs)[i] = msgs[i - Len(w)]
                   /\ i > Len(w)
      /\ \A i \in DOMAIN (w \o msgs) : i \in Nat
      /\ \A i \in DOMAIN w : i \in Nat /\ i <= Len(w)
  <2>1. w \o msgs \in Seq(ClientMsgs)
    BY <1>3, Concat
  <2>2. \A i \in DOMAIN (w \o msgs) : i \in Nat
    BY <2>1, LenProperties
  <2> QED BY <1>3, <2>2, Concat
<1>5. /\ DataRise(w, p)
      /\ \A i \in DOMAIN w : IsData(w[i], p) => Passed(p, w[i].n) /\ w[i].n \in 1..MaxSends
  BY <1>1, OnWire DEF OrderOf, WiresRise
<1> HIDE DEF w
<1>6. WiresRise(p)'
  <2> SUFFICES ASSUME NEW s \in Sockets
               PROVE  /\ DataRise(toServer[s], p)'
                      /\ \A i \in DOMAIN toServer'[s] :
                           IsData(toServer'[s][i], p) => PassedNext(p, toServer'[s][i].n)
    BY DEF WiresRise, Passed, PassedNext
  <2>1. CASE s # Wire
    <3>1. toServer'[s] = toServer[s]
      BY <1>2, <2>1
    <3>2. \A i \in DOMAIN toServer[s] : IsData(toServer[s][i], p) => PassedNext(p, toServer[s][i].n)
      BY OnWire DEF OrderOf, WiresRise, QueueMoves
    <3> QED BY <3>1, <3>2 DEF OrderOf, WiresRise, DataRise
  <2>2. CASE s = Wire
    <3>1. toServer'[s] = w \o msgs
      BY <1>2, <2>2
    <3>2. ASSUME NEW i \in DOMAIN (w \o msgs), NEW j \in DOMAIN (w \o msgs), i < j,
                 IsData((w \o msgs)[i], p), IsData((w \o msgs)[j], p)
          PROVE  (w \o msgs)[i].n < (w \o msgs)[j].n
      <4>1. CASE i \in DOMAIN w /\ (w \o msgs)[i] = w[i] /\ j \in DOMAIN w /\ (w \o msgs)[j] = w[j]
        BY <1>5, <3>2, <4>1 DEF DataRise
      <4>2. CASE i \in DOMAIN w /\ (w \o msgs)[i] = w[i]
                 /\ j - Len(w) \in DOMAIN msgs /\ (w \o msgs)[j] = msgs[j - Len(w)]
        BY <1>5, <3>2, <4>2
      <4>3. CASE /\ i - Len(w) \in DOMAIN msgs /\ (w \o msgs)[i] = msgs[i - Len(w)]
                 /\ j - Len(w) \in DOMAIN msgs /\ (w \o msgs)[j] = msgs[j - Len(w)]
        <5>1. i - Len(w) < j - Len(w)
          BY <1>4, <3>2
        <5> QED BY <3>2, <4>3, <5>1 DEF DataRise
      <4>4. CASE i > Len(w) /\ j \in DOMAIN w
        BY <1>4, <3>2, <4>4
      <4> QED BY <1>4, <4>1, <4>2, <4>3, <4>4
    <3>3. ASSUME NEW i \in DOMAIN (w \o msgs), IsData((w \o msgs)[i], p)
          PROVE  PassedNext(p, (w \o msgs)[i].n)
      <4>1. CASE i \in DOMAIN w /\ (w \o msgs)[i] = w[i]
        BY <1>5, <3>3, <4>1 DEF QueueMoves
      <4>2. CASE i - Len(w) \in DOMAIN msgs /\ (w \o msgs)[i] = msgs[i - Len(w)]
        BY <3>3, <4>2
      <4> QED BY <1>4, <4>1, <4>2
    <3> QED BY <3>1, <3>2, <3>3 DEF DataRise
  <2> QED BY <2>1, <2>2
<1>7. GotRises(p)'
  <2>1. \A i, j \in DOMAIN got'[p] :
          i < j /\ got'[p][i][1] = got'[p][j][1] => got'[p][i][2] < got'[p][j][2]
    BY DEF OrderOf, GotRises
  <2>2. ASSUME NEW i \in DOMAIN got'[p]
        PROVE  /\ PassedNext(p, got'[p][i][2])
               /\ \A j \in DOMAIN toServer'[got'[p][i][1]] :
                    IsData(toServer'[got'[p][i][1]][j], p)
                      => got'[p][i][2] < toServer'[got'[p][i][1]][j].n
    <3> DEFINE s == got[p][i][1]  k == got[p][i][2]
    <3>1. s \in Sockets /\ k \in 1..MaxSends /\ got'[p][i][1] = s /\ got'[p][i][2] = k
      BY InGot
    <3>2. Passed(p, k) /\ \A j \in DOMAIN toServer[s] :
            IsData(toServer[s][j], p) => k < toServer[s][j].n
      BY DEF OrderOf, GotRises
    <3> HIDE DEF s, k
    <3>3. PassedNext(p, k)
      BY <3>1, <3>2 DEF QueueMoves
    <3>4. ASSUME NEW j \in DOMAIN toServer'[s], IsData(toServer'[s][j], p)
          PROVE  k < toServer'[s][j].n
      <4>1. CASE s # Wire
        BY <1>2, <3>1, <3>2, <3>4, <4>1
      <4>2. CASE s = Wire
        <5>1. j \in DOMAIN (w \o msgs) /\ toServer'[s][j] = (w \o msgs)[j]
          BY <1>2, <4>2
        <5>2. CASE j \in DOMAIN w /\ (w \o msgs)[j] = w[j]
          BY <3>2, <3>4, <4>2, <5>1, <5>2 DEF w
        <5>3. CASE j - Len(w) \in DOMAIN msgs /\ (w \o msgs)[j] = msgs[j - Len(w)]
          BY <3>1, <3>2, <3>4, <5>1, <5>3
        <5> QED BY <1>4, <5>1, <5>2, <5>3
      <4> QED BY <4>1, <4>2
    <3> QED BY <3>1, <3>3, <3>4
  <2> QED BY <2>1, <2>2 DEF GotRises, Passed, PassedNext
<1> QED BY <1>6, <1>7 DEF OrderOf, QueueMoves

LEMMA QueueKept ==
    ASSUME TypeInv, NEW p \in Paths, QueueRises(p), sent'[p] = sent[p],
           sendQueue'[p] = sendQueue[p] \/ sendQueue'[p] = <<>>
    PROVE  QueueMoves(p)
BY DEF QueueMoves, QueueRises, Rising, Passed, PassedNext

LEMMA NoData ==
    ASSUME NEW p, NEW msgs \in Seq(ClientMsgs), \A j \in DOMAIN msgs : ~IsData(msgs[j], p)
    PROVE  DataRise(msgs, p)
BY DEF DataRise

\* The server reads the next datum of a socket.
LEMMA OrderReceives ==
    ASSUME TypeInv, NEW p \in Paths, OrderOf(p), UNCHANGED <<sent, sendQueue>>,
           NEW s \in Sockets, toServer[s] # <<>>, NEW n \in 1..MaxSends,
           IsData(Head(toServer[s]), p), Head(toServer[s]).n = n,
           toServer' = [toServer EXCEPT ![s] = Tail(@)],
           got'[p] = Append(got[p], <<s, n>>)
    PROVE  OrderOf(p)'
<1> DEFINE w == toServer[s]  g == got[p]
<1>1. /\ w \in Seq(ClientMsgs) /\ w # <<>> /\ toServer'[s] = Tail(w)
      /\ \A x \in Sockets \ {s} : toServer'[x] = toServer[x]
  BY OnWire DEF TypeInv, WireInv
<1>2. /\ 1 \in DOMAIN w /\ IsData(w[1], p) /\ w[1].n = n
      /\ \A i \in DOMAIN Tail(w) : i \in Nat /\ 1 < i + 1 /\ i + 1 \in DOMAIN w
                                   /\ Tail(w)[i] = w[i + 1]
  BY <1>1, TailOf
<1>3. /\ DataRise(w, p) /\ Passed(p, n)
      /\ \A i \in DOMAIN w : IsData(w[i], p) => Passed(p, w[i].n) /\ w[i].n \in 1..MaxSends
  BY <1>2, OnWire DEF OrderOf, WiresRise
<1>4. /\ DOMAIN g' = 1..(Len(g) + 1) /\ Len(g) \in Nat /\ DOMAIN g = 1..Len(g)
      /\ \A i \in 1..Len(g) : g'[i] = g[i]
      /\ g'[Len(g) + 1] = <<s, n>>
      /\ \A i \in DOMAIN g : g[i][1] \in Sockets /\ g[i][2] \in 1..MaxSends
  BY InGot, AppendProperties, LenProperties
<1>5. /\ \A i, j \in DOMAIN g : i < j /\ g[i][1] = g[j][1] => g[i][2] < g[j][2]
      /\ \A i \in DOMAIN g :
           /\ Passed(p, g[i][2])
           /\ \A j \in DOMAIN toServer[g[i][1]] :
                IsData(toServer[g[i][1]][j], p) => g[i][2] < toServer[g[i][1]][j].n
  BY DEF OrderOf, GotRises
<1>6. \A i \in DOMAIN g : g[i][1] = s => g[i][2] < n
  BY <1>2, <1>5
<1>w. \A j \in DOMAIN Tail(w) : IsData(Tail(w)[j], p) => n < Tail(w)[j].n
  BY <1>2, <1>3 DEF DataRise
<1> HIDE DEF w
<1>7. QueueMoves(p)
  BY QueueKept DEF OrderOf
<1>8. WiresRise(p)'
  <2> SUFFICES ASSUME NEW x \in Sockets
               PROVE  /\ DataRise(toServer[x], p)'
                      /\ \A i \in DOMAIN toServer'[x] :
                           IsData(toServer'[x][i], p) => Passed(p, toServer'[x][i].n)
    BY DEF WiresRise, Passed
  <2>1. CASE x # s
    <3>1. toServer'[x] = toServer[x]
      BY <1>1, <2>1
    <3> QED BY <3>1 DEF OrderOf, WiresRise, DataRise
  <2>2. CASE x = s
    <3>1. toServer'[x] = Tail(w)
      BY <1>1, <2>2
    <3>2. \A i, j \in DOMAIN Tail(w) :
            i < j /\ IsData(Tail(w)[i], p) /\ IsData(Tail(w)[j], p) => Tail(w)[i].n < Tail(w)[j].n
      BY <1>2, <1>3 DEF DataRise
    <3>3. \A i \in DOMAIN Tail(w) : IsData(Tail(w)[i], p) => Passed(p, Tail(w)[i].n)
      BY <1>2, <1>3
    <3> QED BY <3>1, <3>2, <3>3 DEF DataRise
  <2> QED BY <2>1, <2>2
<1>9. GotRises(p)'
  <2>1. ASSUME NEW i \in DOMAIN g', NEW j \in DOMAIN g', i < j, g'[i][1] = g'[j][1]
        PROVE  g'[i][2] < g'[j][2]
    <3>1. i \in 1..Len(g) /\ (j \in 1..Len(g) \/ j = Len(g) + 1)
      <4>1. i \in 1..(Len(g) + 1) /\ j \in 1..(Len(g) + 1) /\ Len(g) \in Nat
        BY <1>4, <2>1
      <4> QED BY <2>1, <4>1
    <3>2. CASE j \in 1..Len(g)
      BY <1>4, <1>5, <2>1, <3>1, <3>2
    <3>3. CASE j = Len(g) + 1
      <4>1. g'[j] = <<s, n>> /\ g'[i] = g[i] /\ i \in DOMAIN g
        BY <1>4, <3>1, <3>3
      <4>2. g[i][1] = s
        BY <2>1, <4>1
      <4> QED BY <1>6, <4>1, <4>2
    <3> QED BY <3>1, <3>2, <3>3
  <2>2. ASSUME NEW i \in DOMAIN g'
        PROVE  /\ Passed(p, g'[i][2])
               /\ \A j \in DOMAIN toServer'[g'[i][1]] :
                    IsData(toServer'[g'[i][1]][j], p) => g'[i][2] < toServer'[g'[i][1]][j].n
    <3>1. CASE i = Len(g) + 1
      <4>1. g'[i] = <<s, n>>
        BY <1>4, <3>1
      <4>2. g'[i][1] = s /\ g'[i][2] = n
        BY <4>1
      <4>3. toServer'[s] = Tail(w)
        BY <1>1
      <4>4. \A j \in DOMAIN toServer'[s] :
              IsData(toServer'[s][j], p) => n < toServer'[s][j].n
        BY <1>w, <4>3
      <4>5. Passed(p, n)
        BY <1>3
      <4> QED BY <4>2, <4>4, <4>5
    <3>2. CASE i \in DOMAIN g
      <4> DEFINE x == g[i][1]  k == g[i][2]
      <4>1. x \in Sockets /\ k \in 1..MaxSends /\ g'[i][1] = x /\ g'[i][2] = k
        BY <1>4, <3>2
      <4>2. Passed(p, k) /\ \A j \in DOMAIN toServer[x] :
              IsData(toServer[x][j], p) => k < toServer[x][j].n
        BY <1>5, <3>2
      <4>3. x = s => k < n
        BY <1>6, <3>2
      <4> HIDE DEF x, k
      <4>4. \A j \in DOMAIN toServer'[x] : IsData(toServer'[x][j], p) => k < toServer'[x][j].n
        <5>1. CASE x # s
          <6>1. toServer'[x] = toServer[x]
            BY <1>1, <4>1, <5>1
          <6> QED BY <4>2, <6>1
        <5>2. CASE x = s
          <6>1. toServer'[x] = Tail(w) /\ toServer[x] = w
            BY <1>1, <5>2 DEF w
          <6> QED BY <1>2, <4>2, <6>1
        <5> QED BY <5>1, <5>2
      <4> QED BY <4>1, <4>2, <4>4
    <3>3. i \in DOMAIN g \/ i = Len(g) + 1
      <4>1. i \in 1..(Len(g) + 1) /\ Len(g) \in Nat /\ DOMAIN g = 1..Len(g)
        BY <1>4, <2>2
      <4> HIDE DEF g
      <4> QED BY <4>1
    <3> QED BY <3>1, <3>2, <3>3
  <2> HIDE DEF g
  <2>3. g' = got'[p]
    BY DEF g
  <2> QED BY <2>1, <2>2, <2>3 DEF GotRises, Passed
<1> QED BY <1>7, <1>8, <1>9 DEF OrderOf, QueueMoves


\* The steps of the client, one path at a time.
LEMMA OrderClient ==
    ASSUME TypeInv, NEW p \in Paths, OrderOf(p), Client PROVE OrderOf(p)'
<1>0. UNCHANGED got
  BY DEF Client, OpenChannel, Send, Retry, Heartbeat, ClientReceives, SocketCloses,
         SocketOpens, server
<1>q. QueueRises(p)
  BY DEF OrderOf
<1>1. ASSUME NEW r \in Paths, OpenChannel(r) PROVE OrderOf(p)'
  <2>1. /\ HasTrace(r) /\ Transmit(<<Open(r, NewTrace(r))>>)
        /\ sendQueue' = [sendQueue EXCEPT ![r] = <<>>] /\ sent' = sent
    BY <1>1 DEF OpenChannel
  <2>2. Open(r, NewTrace(r)) \in ClientMsgs /\ Open(r, NewTrace(r)).kind = "open"
    BY <2>1, FreeTrace, MessageFacts
  <2>3. <<Open(r, NewTrace(r))>> \in Seq(ClientMsgs)
        /\ \A j \in DOMAIN <<Open(r, NewTrace(r))>> : ~IsData(<<Open(r, NewTrace(r))>>[j], p)
    BY <2>2, OneMessage DEF IsData
  <2>4. sendQueue'[p] = sendQueue[p] \/ sendQueue'[p] = <<>>
    BY <2>1 DEF TypeInv, ClientInv
  <2> QED BY <1>0, <1>q, <2>1, <2>3, <2>4, QueueKept, NoData, OrderTransmits
<1>2. ASSUME NEW r \in Paths, Send(r) PROVE OrderOf(p)'
  <2> DEFINE k == sent[r] + 1
  <2>1. sent' = [sent EXCEPT ![r] = k] /\ sends < MaxSends
    BY <1>2 DEF Send
  <2>2. \/ /\ r \in ready /\ Transmit(<<Data(r, k)>>) /\ UNCHANGED sendQueue
        \/ /\ r \notin ready /\ sendQueue' = [sendQueue EXCEPT ![r] = Append(@, k)]
           /\ UNCHANGED toServer
    BY <1>2 DEF Send, MaySend
  <2>3. k \in 1..MaxSends /\ sent[r] \in Nat /\ k = sent[r] + 1
    BY <2>1, BoundsAssumption DEF TypeInv, ClientInv, BasicInv
  <2> HIDE DEF k
  <2>4. CASE r \in ready
    <3>1. Transmit(<<Data(r, k)>>) /\ UNCHANGED sendQueue
      BY <2>2, <2>4
    <3>2. /\ Data(r, k) \in ClientMsgs /\ Data(r, k).path = r /\ Data(r, k).n = k
      BY <2>3, MessageFacts
    <3>3. <<Data(r, k)>> \in Seq(ClientMsgs)
          /\ \A j \in DOMAIN <<Data(r, k)>> : j = 1 /\ <<Data(r, k)>>[j] = Data(r, k)
      BY <3>2, OneMessage
    <3> DEFINE msgs == <<Data(r, k)>>
    <3>4. CASE p # r
      <4>1. sent'[p] = sent[p] /\ sendQueue'[p] = sendQueue[p]
        BY <2>1, <3>1, <3>4 DEF TypeInv, ClientInv
      <4>2. \A j \in DOMAIN msgs : ~IsData(msgs[j], p)
        BY <3>2, <3>3, <3>4 DEF IsData
      <4> QED BY <1>0, <1>q, <3>1, <3>3, <4>1, <4>2, QueueKept, NoData, OrderTransmits
    <3>5. CASE p = r
      <4>1. sent'[p] = k /\ sendQueue'[p] = <<>> /\ sendQueue[p] = <<>>
        BY <2>1, <2>4, <3>1, <3>5 DEF TypeInv, ClientInv
      <4>2. QueueMoves(p) /\ PassedNext(p, k)
            /\ \A x \in 1..MaxSends : Passed(p, x) => x < k
        BY <2>3, <3>5, <4>1 DEF QueueMoves, QueueRises, Rising, Passed, PassedNext
      <4>3. DataRise(msgs, p)
        BY <3>3 DEF DataRise
      <4>4. \A j \in DOMAIN msgs : msgs[j].n = k
        BY <3>2, <3>3
      <4> HIDE DEF msgs
      <4>5. Transmit(msgs) /\ msgs \in Seq(ClientMsgs)
        BY <3>1, <3>3 DEF msgs
      <4> QED BY <1>0, <4>2, <4>3, <4>4, <4>5, OrderTransmits
    <3> QED BY <3>4, <3>5
  <2>5. CASE r \notin ready
    <3>1. sendQueue' = [sendQueue EXCEPT ![r] = Append(@, k)] /\ UNCHANGED toServer
      BY <2>2, <2>5
    <3>2. CASE p # r
      <4>1. sent'[p] = sent[p] /\ sendQueue'[p] = sendQueue[p]
        BY <2>1, <3>1, <3>2 DEF TypeInv, ClientInv
      <4> QED BY <1>0, <1>q, <3>1, <4>1, QueueKept, OrderShrinks
    <3>3. CASE p = r
      <4> DEFINE q == sendQueue[p]
      <4>1. q \in Seq(1..MaxSends) /\ sent'[p] = k /\ sendQueue'[p] = Append(q, k)
        BY <2>1, <3>1, <3>3 DEF TypeInv, ClientInv
      <4>2. /\ Len(q) \in Nat /\ DOMAIN q = 1..Len(q) /\ DOMAIN sendQueue'[p] = 1..(Len(q) + 1)
            /\ \A i \in 1..Len(q) : sendQueue'[p][i] = q[i] /\ q[i] \in 1..MaxSends
            /\ sendQueue'[p][Len(q) + 1] = k
        <5>1. /\ Len(q) \in Nat /\ DOMAIN q = 1..Len(q)
              /\ \A i \in 1..Len(q) : q[i] \in 1..MaxSends
          BY <4>1, LenProperties, ElementOfSeq
        <5>2. /\ DOMAIN Append(q, k) = 1..(Len(q) + 1)
              /\ \A i \in 1..Len(q) : Append(q, k)[i] = q[i]
              /\ Append(q, k)[Len(q) + 1] = k
          BY <2>3, <4>1, <5>1, AppendProperties, LenProperties
        <5> QED BY <4>1, <5>1, <5>2
      <4>3. Rising(q) /\ \A j \in 1..Len(q) : q[j] < k /\ q[j] <= sent[p]
        <5>1. Rising(q) /\ \A j \in DOMAIN q : q[j] <= sent[p]
          BY <1>q DEF QueueRises
        <5>2. sent[p] \in Nat /\ k = sent[p] + 1 /\ \A j \in 1..Len(q) : q[j] \in Nat
          BY <2>3, <3>3, <4>2, BoundsAssumption
        <5> HIDE DEF q
        <5> QED BY <4>2, <5>1, <5>2
      <4>p. Rising(q) => \A i, j \in 1..Len(q) : i < j => q[i] < q[j]
        BY <4>2 DEF Rising
      <4>x. \A x \in 1..MaxSends : Passed(p, x) => x <= sent[p] /\ \A j \in 1..Len(q) : x < q[j]
        BY <4>2 DEF Passed
      <4> HIDE DEF q
      <4>4. Rising(sendQueue[p])'
        <5>1. ASSUME NEW i \in 1..(Len(q) + 1), NEW j \in 1..(Len(q) + 1), i < j
              PROVE  sendQueue'[p][i] < sendQueue'[p][j]
          <6>1. i \in 1..Len(q) /\ (j \in 1..Len(q) \/ j = Len(q) + 1)
            BY <4>2, <5>1
          <6> QED BY <4>2, <4>3, <4>p, <5>1, <6>1
        <5> QED BY <4>2, <5>1 DEF Rising
      <4>5. \A j \in DOMAIN sendQueue'[p] : sendQueue'[p][j] <= sent'[p]
        <5>1. ASSUME NEW j \in 1..(Len(q) + 1) PROVE sendQueue'[p][j] <= k
          <6>1. j \in 1..Len(q) \/ j = Len(q) + 1
            BY <4>2
          <6> QED BY <2>3, <4>2, <4>3, <6>1
        <5> QED BY <4>1, <4>2, <5>1
      <4>6. ASSUME NEW x \in 1..MaxSends, Passed(p, x) PROVE PassedNext(p, x)
        <5>1. x <= sent[p] /\ \A j \in 1..Len(q) : x < q[j]
          BY <4>6, <4>x
        <5>2. x <= k /\ x < k
          BY <2>3, <3>3, <5>1
        <5>3. ASSUME NEW j \in 1..(Len(q) + 1) PROVE x < sendQueue'[p][j]
          <6>1. j \in 1..Len(q) \/ j = Len(q) + 1
            BY <4>2
          <6> QED BY <4>2, <5>1, <5>2, <6>1
        <5> QED BY <4>1, <4>2, <5>2, <5>3 DEF PassedNext
      <4>7. QueueMoves(p)
        BY <4>4, <4>5, <4>6 DEF QueueMoves, QueueRises
      <4> QED BY <1>0, <3>1, <4>7, OrderShrinks
    <3> QED BY <3>2, <3>3
  <2> QED BY <2>4, <2>5
<1>3. ASSUME NEW r \in Paths, NEW t \in Traces, Retry(r, t) PROVE OrderOf(p)'
  <2>1. UNCHANGED <<sendQueue, sent>> /\ (UNCHANGED toServer \/ Transmit(<<Open(r, t)>>))
    BY <1>3 DEF Retry
  <2>2. QueueMoves(p)
    BY <1>q, <2>1, QueueKept
  <2>3. <<Open(r, t)>> \in Seq(ClientMsgs)
        /\ \A j \in DOMAIN <<Open(r, t)>> : ~IsData(<<Open(r, t)>>[j], p)
    BY MessageFacts, OneMessage DEF IsData
  <2>4. CASE UNCHANGED toServer
    BY <1>0, <2>2, <2>4, OrderShrinks
  <2>5. CASE Transmit(<<Open(r, t)>>)
    BY <1>0, <2>2, <2>3, <2>5, NoData, OrderTransmits
  <2> QED BY <2>1, <2>4, <2>5
<1>4. ASSUME Heartbeat PROVE OrderOf(p)'
  <2> DEFINE F == [x \in Paths |-> Ping(x)]
             msgs == [i \in DOMAIN opened |-> Ping(opened[i])]
  <2>1. UNCHANGED <<sendQueue, sent>> /\ Transmit(msgs)
    BY <1>4 DEF Heartbeat, client
  <2>2. F \in [Paths -> ClientMsgs] /\ \A x \in Known : F[x].path = x
    BY MessageFacts, KnownPaths DEF BasicInv, TypeInv
  <2>3. \A i \in DOMAIN opened : opened[i] \in Paths
    BY KnownPaths DEF BasicInv, TypeInv, Known, ToSet
  <2>4. msgs = [i \in DOMAIN opened |-> F[opened[i]]]
    BY <2>3
  <2>5. \A j \in DOMAIN msgs : ~IsData(msgs[j], p)
    BY <2>3, MessageFacts DEF IsData
  <2>6. msgs \in Seq(ClientMsgs)
    <3> HIDE DEF F
    <3> QED BY <2>2, <2>4, OpenedMessages DEF TypeInv
  <2> HIDE DEF msgs, F
  <2>7. QueueMoves(p)
    BY <1>q, <2>1, QueueKept
  <2> QED BY <1>0, <2>1, <2>5, <2>6, <2>7, NoData, OrderTransmits
<1>5. ASSUME ClientReceives PROVE OrderOf(p)'
  <2>1. PICK m \in ServerMsgs : Reads(m)
    BY <1>5, ClientReads
  <2> DEFINE r == m.path
  <2>2. r \in Paths /\ UNCHANGED sent
    BY <2>1, MessageFacts DEF Reads
  <2>3. CASE m.kind = "error"
    <3>1. HasTrace(r) /\ Transmit(<<Open(r, NewTrace(r))>>) /\ UNCHANGED sendQueue
      BY <2>1, <2>3 DEF Reads
    <3>2. Open(r, NewTrace(r)) \in ClientMsgs /\ Open(r, NewTrace(r)).kind = "open"
      BY <2>2, <3>1, FreeTrace, MessageFacts
    <3>3. <<Open(r, NewTrace(r))>> \in Seq(ClientMsgs)
          /\ \A j \in DOMAIN <<Open(r, NewTrace(r))>> : ~IsData(<<Open(r, NewTrace(r))>>[j], p)
      BY <3>2, OneMessage DEF IsData
    <3>4. QueueMoves(p)
      BY <1>q, <2>2, <3>1, QueueKept
    <3> QED BY <1>0, <3>1, <3>3, <3>4, NoData, OrderTransmits
  <2>4. CASE m.kind = "server-ready"
    <3>1. Transmit(Queued(r)) /\ sendQueue' = [sendQueue EXCEPT ![r] = <<>>]
      BY <2>1, <2>4 DEF Reads
    <3>2. /\ Queued(r) \in Seq(ClientMsgs)
          /\ DOMAIN Queued(r) = DOMAIN sendQueue[r]
          /\ \A i \in DOMAIN sendQueue[r] :
                /\ sendQueue[r][i] \in 1..MaxSends
                /\ Queued(r)[i].path = r /\ Queued(r)[i].n = sendQueue[r][i]
      BY <2>2, QueuedMessages DEF TypeInv
    <3>3. sendQueue'[p] = IF p = r THEN <<>> ELSE sendQueue[p]
      BY <3>1 DEF TypeInv, ClientInv
    <3>4. QueueMoves(p)
      BY <1>q, <2>2, <3>3, QueueKept
    <3>5. CASE p # r
      <4>1. \A j \in DOMAIN Queued(r) : ~IsData(Queued(r)[j], p)
        BY <3>2, <3>5 DEF IsData
      <4> QED BY <1>0, <3>1, <3>2, <3>4, <4>1, NoData, OrderTransmits
    <3>6. CASE p = r
      <4> HIDE DEF r
      <4>1. DataRise(Queued(p), p)
        BY <1>q, <3>2, <3>6 DEF DataRise, QueueRises, Rising
      <4>2. ASSUME NEW j \in DOMAIN Queued(p)
            PROVE  /\ PassedNext(p, Queued(p)[j].n)
                   /\ \A k \in 1..MaxSends : Passed(p, k) => k < Queued(p)[j].n
        <5>1. sendQueue[p][j] <= sent[p] /\ Queued(p)[j].n = sendQueue[p][j] /\ j \in DOMAIN sendQueue[p]
          BY <1>q, <3>2, <3>6 DEF QueueRises
        <5> QED BY <2>2, <3>3, <3>6, <5>1 DEF Passed, PassedNext
      <4> QED BY <1>0, <3>1, <3>2, <3>4, <3>6, <4>1, <4>2, OrderTransmits
    <3> QED BY <3>5, <3>6
  <2>5. CASE m.kind = "data"
    <3>1. UNCHANGED <<sendQueue, toServer>>
      BY <2>1, <2>5 DEF Reads
    <3> QED BY <1>0, <1>q, <2>2, <3>1, QueueKept, OrderShrinks
  <2> QED BY <2>1, <2>3, <2>4, <2>5 DEF Reads
<1>6. ASSUME SocketCloses PROVE OrderOf(p)'
  <2>1. UNCHANGED <<sendQueue, sent, toServer>>
    BY <1>6 DEF SocketCloses
  <2> QED BY <1>0, <1>q, <2>1, QueueKept, OrderShrinks
<1>7. ASSUME SocketOpens PROVE OrderOf(p)'
  <2> DEFINE F == [x \in Paths |-> IF x \in Known THEN Open(x, NewTrace(x)) ELSE Ping(x)]
             msgs == [i \in DOMAIN opened |-> Open(opened[i], NewTrace(opened[i]))]
  <2>1. UNCHANGED <<sendQueue, sent>> /\ Transmit(msgs) /\ \A x \in Known : HasTrace(x)
    BY <1>7 DEF SocketOpens
  <2>2. Known \subseteq Paths /\ \A x \in Known : NewTrace(x) \in Traces
    BY <2>1, FreeTrace, KnownPaths DEF BasicInv, TypeInv
  <2>3. F \in [Paths -> ClientMsgs] /\ \A x \in Known : F[x].path = x
    BY <2>2, MessageFacts
  <2>4. \A i \in DOMAIN opened : opened[i] \in Known /\ opened[i] \in Paths
    BY <2>2 DEF Known, ToSet
  <2>5. msgs = [i \in DOMAIN opened |-> F[opened[i]]]
    BY <2>4
  <2>6. \A j \in DOMAIN msgs : ~IsData(msgs[j], p)
    BY <2>2, <2>4, MessageFacts DEF IsData
  <2>7. msgs \in Seq(ClientMsgs)
    <3> HIDE DEF F
    <3> QED BY <2>3, <2>5, OpenedMessages DEF TypeInv
  <2> HIDE DEF msgs, F
  <2>8. QueueMoves(p)
    BY <1>q, <2>1, QueueKept
  <2> QED BY <1>0, <2>1, <2>6, <2>7, <2>8, NoData, OrderTransmits
<1> QED BY <1>1, <1>2, <1>3, <1>4, <1>5, <1>6, <1>7 DEF Client

LEMMA OrderServe ==
    ASSUME TypeInv, NEW p \in Paths, OrderOf(p), NEW s \in Sockets, ServerReceives(s)
    PROVE  OrderOf(p)'
<1>1. PICK m \in ClientMsgs : Serves(s, m)
  BY ServerReads
<1>2. /\ m = Head(toServer[s]) /\ toServer[s] # <<>> /\ UNCHANGED <<sendQueue, sent>>
      /\ toServer' = [toServer EXCEPT ![s] = Tail(@)]
  BY <1>1 DEF Serves, client
<1>3. \A x \in Sockets : toServer'[x] = toServer[x] \/ toServer'[x] = <<>>
                         \/ (toServer[x] # <<>> /\ toServer'[x] = Tail(toServer[x]))
  BY <1>2 DEF TypeInv, WireInv
<1>4. QueueMoves(p)
  BY <1>2, QueueKept DEF OrderOf
<1>5. CASE IsData(m, p) /\ chan[p] # 0
  <2>1. got' = [got EXCEPT ![p] = Append(@, <<s, m.n>>)]
    BY <1>1, <1>5 DEF Serves, ServeOther, IsData
  <2>2. got'[p] = Append(got[p], <<s, m.n>>) /\ m.n \in 1..MaxSends
    BY <1>5, <2>1, MessageFacts DEF TypeInv, ServerInv, IsData
  <2> QED BY <1>2, <1>5, <2>2, OrderReceives
<1>6. CASE ~(IsData(m, p) /\ chan[p] # 0)
  <2>1. got'[p] = got[p] \/ got'[p] = <<>>
    BY <1>1, <1>6 DEF Serves, ServeOther, ServeOpen, IsData, TypeInv, ServerInv
  <2> QED BY <1>3, <1>4, <2>1, OrderShrinks
<1> QED BY <1>5, <1>6

LEMMA OrderServerCloses ==
    ASSUME TypeInv, NEW p \in Paths, OrderOf(p), NEW s \in Sockets, ServerCloses(s)
    PROVE  OrderOf(p)'
<1>1. /\ toServer' = [toServer EXCEPT ![s] = <<>>] /\ UNCHANGED <<sendQueue, sent>>
      /\ got' = [x \in Paths |-> IF x \in ClosedWith(s) THEN <<>> ELSE got[x]]
  BY DEF ServerCloses, client
<1>2. \A x \in Sockets : toServer'[x] = toServer[x] \/ toServer'[x] = <<>>
  BY <1>1 DEF TypeInv, WireInv
<1>3. got'[p] = got[p] \/ got'[p] = <<>>
  BY <1>1
<1>4. QueueMoves(p)
  BY <1>1, QueueKept DEF OrderOf
<1> QED BY <1>2, <1>3, <1>4, OrderShrinks

LEMMA OrderInit == Init => OrderInv
<1> SUFFICES ASSUME Init, NEW p \in Paths PROVE OrderOf(p)
  BY DEF OrderInv, OrderOf
<1>1. sendQueue[p] = <<>> /\ got[p] = <<>> /\ \A s \in Sockets : toServer[s] = <<>>
  BY DEF Init
<1>2. QueueRises(p)
  BY <1>1 DEF QueueRises, Rising
<1>3. WiresRise(p)
  BY <1>1 DEF WiresRise, DataRise
<1>4. GotRises(p)
  BY <1>1 DEF GotRises
<1> QED BY <1>2, <1>3, <1>4 DEF OrderOf

LEMMA OrderStep == TypeInv /\ OrderInv /\ [Next]_vars => OrderInv'
<1> SUFFICES ASSUME TypeInv, OrderInv, [Next]_vars, NEW p \in Paths PROVE OrderOf(p)'
  BY DEF OrderInv, OrderOf
<1>1. OrderOf(p)
  BY DEF OrderInv, OrderOf
<1>2. CASE Client
  BY <1>1, <1>2, OrderClient
<1>3. CASE \E s \in Sockets : ServerReceives(s) \/ ServerCloses(s)
  BY <1>1, <1>3, OrderServe, OrderServerCloses
<1>4. CASE UNCHANGED vars \/ \E r \in Paths : ServerSends(r)
  <2>1. UNCHANGED <<toServer, sendQueue, sent, got>>
    BY <1>4 DEF vars, client, server, ServerSends
  <2> QED BY <1>1, <2>1, QueueKept, OrderShrinks DEF OrderOf
<1> QED BY <1>2, <1>3, <1>4 DEF Next, Server

-----------------------------------------------------------------------------
(* The opens of a channel that may send are ahead of its data.                 *)

\* The client sends no open of a path that may send, and its fresh data last.
LEMMA FirstTransmits ==
    ASSUME TypeInv, NEW p \in Paths, OpensFirst(p), sock' = sock, up,
           NEW msgs \in Seq(ClientMsgs), Transmit(msgs),
           \A j \in DOMAIN msgs : ~(msgs[j].kind = "open" /\ msgs[j].path = p),
           \A k \in fresh'[p] : \/ k \in fresh[p] /\ p \in ready
                                \/ \E j \in DOMAIN msgs : msgs[j] = Data(p, k)
    PROVE  OpensFirst(p)'
<1> DEFINE w == toServer[sock]
<1>1. /\ toServer'[sock] = w \o msgs /\ w \in Seq(ClientMsgs)
  BY WireIs DEF Transmit, TypeInv, WireInv
<1>3. \A i \in DOMAIN w : p \in ready /\ w[i].kind = "open" /\ w[i].path = p =>
        \A k \in fresh[p] : \E j \in DOMAIN w : j > i /\ w[j] = Data(p, k)
  BY DEF OpensFirst
<1> HIDE DEF w
<1>2. /\ w \o msgs \in Seq(ClientMsgs) /\ Len(w) \in Nat
      /\ \A i \in DOMAIN w : i \in DOMAIN (w \o msgs) /\ (w \o msgs)[i] = w[i]
      /\ \A j \in DOMAIN msgs : /\ Len(w) + j \in DOMAIN (w \o msgs)
                                /\ (w \o msgs)[Len(w) + j] = msgs[j]
      /\ \A i \in DOMAIN (w \o msgs) :
           \/ i \in DOMAIN w /\ (w \o msgs)[i] = w[i]
           \/ i - Len(w) \in DOMAIN msgs /\ (w \o msgs)[i] = msgs[i - Len(w)]
      /\ \A i \in DOMAIN w : i \in Nat /\ i <= Len(w)
      /\ \A j \in DOMAIN msgs : j \in Nat /\ 1 <= j
  BY <1>1, Concat
<1> DEFINE v == w \o msgs
<1>4. toServer'[sock'] = v
  BY <1>1
<1>5. ASSUME NEW i \in DOMAIN v, v[i].kind = "open", v[i].path = p, NEW k \in fresh'[p]
      PROVE  \E j \in DOMAIN v : j > i /\ v[j] = Data(p, k)
  <2>1. i \in DOMAIN w /\ v[i] = w[i]
    BY <1>2, <1>5
  <2>2. CASE k \in fresh[p] /\ p \in ready
    <3>1. PICK j \in DOMAIN w : j > i /\ w[j] = Data(p, k)
      BY <1>3, <1>5, <2>1, <2>2
    <3> QED BY <1>2, <3>1
  <2>3. CASE \E j \in DOMAIN msgs : msgs[j] = Data(p, k)
    <3>1. PICK j \in DOMAIN msgs : msgs[j] = Data(p, k)
      BY <2>3
    <3>2. /\ Len(w) + j \in DOMAIN v /\ v[Len(w) + j] = Data(p, k)
          /\ Len(w) + j > i
      BY <1>2, <2>1, <3>1
    <3> QED BY <3>2
  <2> QED BY <2>2, <2>3
<1> HIDE DEF v
<1> QED BY <1>4, <1>5 DEF OpensFirst, Data

\* What is still to be read of the client's socket shrinks.
LEMMA FirstShrinks ==
    ASSUME TypeInv, NEW p \in Paths, OpensFirst(p), UNCHANGED <<sock, fresh>>,
           p \in ready' => p \in ready,
           \/ toServer'[sock] = toServer[sock] \/ toServer'[sock] = <<>>
           \/ toServer[sock] # <<>> /\ toServer'[sock] = Tail(toServer[sock])
    PROVE  OpensFirst(p)'
<1> SUFFICES ASSUME p \in ready, NEW i \in DOMAIN toServer'[sock],
                    toServer'[sock][i].kind = "open", toServer'[sock][i].path = p,
                    NEW k \in fresh[p]
             PROVE  \E j \in DOMAIN toServer'[sock] : j > i /\ toServer'[sock][j] = Data(p, k)
  BY DEF OpensFirst, Data
<1> DEFINE w == toServer[sock]
<1>1. \A x \in DOMAIN w : w[x].kind = "open" /\ w[x].path = p =>
        \E j \in DOMAIN w : j > x /\ w[j] = Data(p, k)
  BY DEF OpensFirst
<1>2. CASE toServer'[sock] = w
  BY <1>1, <1>2
<1>3. CASE toServer'[sock] = <<>>
  BY <1>3
<1>4. CASE w # <<>> /\ toServer'[sock] = Tail(w)
  <2>1. w \in Seq(ClientMsgs)
    BY DEF TypeInv, BasicInv, WireInv
  <2>2. /\ \A x \in DOMAIN Tail(w) : x \in Nat /\ 1 < x + 1 /\ x + 1 \in DOMAIN w
                                      /\ Tail(w)[x] = w[x + 1]
        /\ \A x \in DOMAIN w :
             x = 1 \/ (x - 1 \in DOMAIN Tail(w) /\ Tail(w)[x - 1] = w[x])
        /\ \A x \in DOMAIN w : x \in Nat
    BY <1>4, <2>1, TailOf, LenProperties
  <2>3. i \in Nat /\ i + 1 \in DOMAIN w /\ w[i + 1].kind = "open" /\ w[i + 1].path = p
    BY <1>4, <2>2
  <2>4. PICK j \in DOMAIN w : j > i + 1 /\ w[j] = Data(p, k)
    BY <1>1, <2>3
  <2>5. j - 1 \in DOMAIN Tail(w) /\ Tail(w)[j - 1] = Data(p, k) /\ j - 1 > i
    BY <2>2, <2>3, <2>4
  <2> QED BY <1>4, <2>5
<1> QED BY <1>2, <1>3, <1>4

LEMMA FirstClient ==
    ASSUME TypeInv, NEW p \in Paths, OpensFirst(p), Client PROVE OpensFirst(p)'
<1>0. ready # {} => up
  BY DEF TypeInv, BasicInv
<1>n. p \notin ready' => OpensFirst(p)'
  BY DEF OpensFirst
<1>1. ASSUME NEW r \in Paths, OpenChannel(r) PROVE OpensFirst(p)'
  <2>1. /\ HasTrace(r) /\ Transmit(<<Open(r, NewTrace(r))>>) /\ ready' = ready \ {r}
        /\ fresh' = [fresh EXCEPT ![r] = {}] /\ UNCHANGED sock
    BY <1>1 DEF OpenChannel
  <2> SUFFICES ASSUME p \in ready' PROVE OpensFirst(p)'
    BY <1>n
  <2>2. Open(r, NewTrace(r)) \in ClientMsgs /\ Open(r, NewTrace(r)).path = r /\ p # r
    BY <2>1, FreeTrace, MessageFacts
  <2>3. <<Open(r, NewTrace(r))>> \in Seq(ClientMsgs)
        /\ \A j \in DOMAIN <<Open(r, NewTrace(r))>> : <<Open(r, NewTrace(r))>>[j].path # p
    BY <2>2, OneMessage
  <2>4. fresh'[p] \subseteq fresh[p] /\ p \in ready
    BY <2>1 DEF TypeInv, ClientInv
  <2> QED BY <1>0, <2>1, <2>3, <2>4, FirstTransmits
<1>2. ASSUME NEW r \in Paths, Send(r) PROVE OpensFirst(p)'
  <2> DEFINE k == sent[r] + 1
  <2>1. UNCHANGED <<sock, ready>> /\ sends < MaxSends
    BY <1>2 DEF Send
  <2>2. \/ /\ r \in ready /\ Transmit(<<Data(r, k)>>)
           /\ fresh' = [fresh EXCEPT ![r] = @ \cup {k}]
        \/ UNCHANGED <<toServer, fresh>>
    BY <1>2 DEF Send, MaySend
  <2>3. k \in 1..MaxSends
    BY <1>2, BoundsAssumption DEF Send, TypeInv, ClientInv, BasicInv
  <2> HIDE DEF k
  <2>4. CASE UNCHANGED <<toServer, fresh>>
    BY <2>1, <2>4, FirstShrinks
  <2>5. CASE /\ r \in ready /\ Transmit(<<Data(r, k)>>)
             /\ fresh' = [fresh EXCEPT ![r] = @ \cup {k}]
    <3> SUFFICES ASSUME p \in ready' PROVE OpensFirst(p)'
      BY <1>n
    <3> DEFINE msgs == <<Data(r, k)>>
    <3>1. Data(r, k) \in ClientMsgs /\ Data(r, k).kind = "data"
      BY <2>3, MessageFacts DEF Data
    <3>2. /\ msgs \in Seq(ClientMsgs) /\ 1 \in DOMAIN msgs /\ msgs[1] = Data(r, k)
          /\ \A j \in DOMAIN msgs : msgs[j].kind # "open"
      BY <3>1, OneMessage
    <3>3. fresh'[p] = IF p = r THEN fresh[p] \cup {k} ELSE fresh[p]
      BY <2>5 DEF TypeInv, ClientInv
    <3>4. Transmit(msgs)
      BY <2>5
    <3> HIDE DEF msgs
    <3>5. \A x \in fresh'[p] : \/ x \in fresh[p] /\ p \in ready
                               \/ \E j \in DOMAIN msgs : msgs[j] = Data(p, x)
      BY <2>1, <3>2, <3>3
    <3> QED BY <1>0, <2>1, <2>5, <3>2, <3>4, <3>5, FirstTransmits
  <2> QED BY <2>2, <2>4, <2>5
<1>3. ASSUME NEW r \in Paths, NEW t \in Traces, Retry(r, t) PROVE OpensFirst(p)'
  <2>1. /\ UNCHANGED <<sock, ready, fresh>>
        /\ UNCHANGED toServer \/ (r \notin ready /\ Transmit(<<Open(r, t)>>))
    BY <1>3 DEF Retry
  <2>2. CASE UNCHANGED toServer
    BY <2>1, <2>2, FirstShrinks
  <2>3. CASE r \notin ready /\ Transmit(<<Open(r, t)>>)
    <3> SUFFICES ASSUME p \in ready' PROVE OpensFirst(p)'
      BY <1>n
    <3>1. Open(r, t) \in ClientMsgs /\ Open(r, t).path = r /\ p # r /\ p \in ready
      BY <2>1, <2>3, MessageFacts
    <3>2. <<Open(r, t)>> \in Seq(ClientMsgs)
          /\ \A j \in DOMAIN <<Open(r, t)>> : <<Open(r, t)>>[j].path # p
      BY <3>1, OneMessage
    <3> QED BY <1>0, <2>1, <2>3, <3>1, <3>2, FirstTransmits
  <2> QED BY <2>1, <2>2, <2>3
<1>4. ASSUME Heartbeat PROVE OpensFirst(p)'
  <2> DEFINE F == [x \in Paths |-> Ping(x)]
             msgs == [i \in DOMAIN opened |-> Ping(opened[i])]
  <2>1. UNCHANGED <<sock, ready, fresh>> /\ up /\ Transmit(msgs)
    BY <1>4 DEF Heartbeat, client
  <2> SUFFICES ASSUME p \in ready' PROVE OpensFirst(p)'
    BY <1>n
  <2>2. F \in [Paths -> ClientMsgs] /\ \A x \in Known : F[x].path = x
    BY MessageFacts, KnownPaths DEF BasicInv, TypeInv
  <2>3. \A i \in DOMAIN opened : opened[i] \in Paths
    BY KnownPaths DEF BasicInv, TypeInv, Known, ToSet
  <2>4. msgs = [i \in DOMAIN opened |-> F[opened[i]]]
    BY <2>3
  <2>5. \A j \in DOMAIN msgs : msgs[j].kind # "open"
    BY DEF Ping
  <2>6. msgs \in Seq(ClientMsgs)
    <3> HIDE DEF F
    <3> QED BY <2>2, <2>4, OpenedMessages DEF TypeInv
  <2> HIDE DEF msgs, F
  <2> QED BY <2>1, <2>5, <2>6, FirstTransmits
<1>5. ASSUME ClientReceives PROVE OpensFirst(p)'
  <2>1. PICK m \in ServerMsgs : Reads(m)
    BY <1>5, ClientReads
  <2> DEFINE r == m.path
  <2>2. r \in Paths /\ up /\ UNCHANGED sock
    BY <2>1, MessageFacts DEF Reads
  <2>3. CASE m.kind = "error"
    <3>1. /\ HasTrace(r) /\ Transmit(<<Open(r, NewTrace(r))>>) /\ ready' = ready \ {r}
          /\ UNCHANGED fresh
      BY <2>1, <2>3 DEF Reads
    <3> SUFFICES ASSUME p \in ready' PROVE OpensFirst(p)'
      BY <1>n
    <3>2. /\ Open(r, NewTrace(r)) \in ClientMsgs /\ Open(r, NewTrace(r)).path = r
          /\ p # r /\ p \in ready
      BY <2>2, <3>1, FreeTrace, MessageFacts
    <3>3. <<Open(r, NewTrace(r))>> \in Seq(ClientMsgs)
          /\ \A j \in DOMAIN <<Open(r, NewTrace(r))>> : <<Open(r, NewTrace(r))>>[j].path # p
      BY <3>2, OneMessage
    <3> QED BY <2>2, <3>1, <3>2, <3>3, FirstTransmits
  <2>4. CASE m.kind = "server-ready"
    <3>1. /\ Transmit(Queued(r)) /\ ready' = ready \cup {r}
          /\ fresh' = [fresh EXCEPT ![r] = ToSet(sendQueue[r])]
      BY <2>1, <2>4 DEF Reads
    <3>2. /\ Queued(r) \in Seq(ClientMsgs) /\ DOMAIN Queued(r) = DOMAIN sendQueue[r]
          /\ \A i \in DOMAIN sendQueue[r] : Queued(r)[i] = Data(r, sendQueue[r][i])
      BY <2>2, QueuedMessages DEF TypeInv
    <3>d. \A x, k : Data(x, k).kind = "data"
      BY DEF Data
    <3>3. \A j \in DOMAIN Queued(r) : Queued(r)[j].kind # "open"
      BY <3>2, <3>d
    <3> SUFFICES ASSUME p \in ready' PROVE OpensFirst(p)'
      BY <1>n
    <3>4. CASE p = r
      <4>1. fresh'[p] = ToSet(sendQueue[p])
        BY <3>1, <3>4 DEF TypeInv, ClientInv
      <4>2. \A k \in fresh'[p] : \E j \in DOMAIN Queued(r) : Queued(r)[j] = Data(p, k)
        BY <3>2, <3>4, <4>1 DEF ToSet
      <4> QED BY <2>2, <3>1, <3>2, <3>3, <4>2, FirstTransmits
    <3>5. CASE p # r
      <4>1. fresh'[p] = fresh[p] /\ p \in ready
        BY <3>1, <3>5 DEF TypeInv, ClientInv
      <4> QED BY <2>2, <3>1, <3>2, <3>3, <4>1, FirstTransmits
    <3> QED BY <3>4, <3>5
  <2>5. CASE m.kind = "data"
    <3>1. UNCHANGED <<ready, fresh, toServer>>
      BY <2>1, <2>5 DEF Reads
    <3> QED BY <2>2, <3>1, FirstShrinks
  <2> QED BY <2>1, <2>3, <2>4, <2>5 DEF Reads
<1>6. ASSUME SocketCloses \/ SocketOpens PROVE OpensFirst(p)'
  <2>1. ready' = {}
    BY <1>0, <1>6 DEF SocketCloses, SocketOpens
  <2> QED BY <1>n, <2>1
<1> QED BY <1>1, <1>2, <1>3, <1>4, <1>5, <1>6 DEF Client

LEMMA FirstInit == Init => FirstInv
BY DEF Init, FirstInv, OpensFirst

LEMMA FirstStep == TypeInv /\ FirstInv /\ [Next]_vars => FirstInv'
<1> SUFFICES ASSUME TypeInv, FirstInv, [Next]_vars, NEW p \in Paths PROVE OpensFirst(p)'
  BY DEF FirstInv
<1>1. OpensFirst(p) /\ sock \in Sockets /\ toServer \in [Sockets -> Seq(ClientMsgs)]
  BY DEF FirstInv, TypeInv, BasicInv, WireInv
<1>2. CASE Client
  BY <1>1, <1>2, FirstClient
<1>3. ASSUME NEW s \in Sockets, ServerReceives(s) PROVE OpensFirst(p)'
  <2>1. /\ toServer[s] # <<>> /\ toServer' = [toServer EXCEPT ![s] = Tail(@)]
        /\ UNCHANGED <<sock, fresh, ready>>
    BY <1>3 DEF ServerReceives, client
  <2>2. \/ toServer'[sock] = toServer[sock]
        \/ toServer[sock] # <<>> /\ toServer'[sock] = Tail(toServer[sock])
    BY <1>1, <2>1
  <2> QED BY <1>1, <2>1, <2>2, FirstShrinks
<1>4. ASSUME NEW s \in Sockets, ServerCloses(s) PROVE OpensFirst(p)'
  <2>1. toServer' = [toServer EXCEPT ![s] = <<>>] /\ UNCHANGED <<sock, fresh, ready>>
    BY <1>4 DEF ServerCloses, client
  <2>2. toServer'[sock] = toServer[sock] \/ toServer'[sock] = <<>>
    BY <1>1, <2>1
  <2> QED BY <1>1, <2>1, <2>2, FirstShrinks
<1>5. CASE UNCHANGED vars \/ \E r \in Paths : ServerSends(r)
  <2>1. UNCHANGED <<toServer, sock, fresh, ready>>
    BY <1>5 DEF vars, client, ServerSends
  <2> QED BY <1>1, <2>1, FirstShrinks
<1> QED BY <1>2, <1>3, <1>4, <1>5 DEF Next, Server

-----------------------------------------------------------------------------
(* What a channel that may send can rely on.                                   *)

SyncOf(p) ==
    sock \notin closed /\ lastOpen[p] = sock =>
        /\ chan[p] = sock
        /\ p \in ready /\ ~Told(p) => Arrives(p)

LEMMA SetOfTail ==
    ASSUME NEW S, NEW w \in Seq(S), w # <<>>
    PROVE  \A x \in ToSet(w) : x = Head(w) \/ x \in ToSet(Tail(w))
<1> SUFFICES ASSUME NEW i \in DOMAIN w PROVE w[i] = Head(w) \/ w[i] \in ToSet(Tail(w))
  BY DEF ToSet
<1>1. i = 1 \/ (i - 1 \in DOMAIN Tail(w) /\ Tail(w)[i - 1] = w[i])
  BY TailOf
<1>2. Head(w) = w[1]
  BY TailOf
<1> QED BY <1>1, <1>2 DEF ToSet

LEMMA SetOfAppend ==
    ASSUME NEW S, NEW w \in Seq(S), NEW e \in S
    PROVE  ToSet(w) \subseteq ToSet(Append(w, e)) /\ e \in ToSet(Append(w, e))
<1>1. /\ DOMAIN Append(w, e) = 1..(Len(w) + 1) /\ Len(w) \in Nat /\ DOMAIN w = 1..Len(w)
      /\ \A i \in 1..Len(w) : Append(w, e)[i] = w[i]
      /\ Append(w, e)[Len(w) + 1] = e
  BY AppendProperties, LenProperties
<1>2. Len(w) + 1 \in DOMAIN Append(w, e) /\ \A i \in DOMAIN w : i \in DOMAIN Append(w, e)
  BY <1>1
<1>3. \A x \in ToSet(w) : x \in ToSet(Append(w, e))
  BY <1>1, <1>2 DEF ToSet
<1>4. e \in ToSet(Append(w, e))
  BY <1>1, <1>2 DEF ToSet
<1> QED BY <1>3, <1>4

LEMMA SetOfConcat ==
    ASSUME NEW S, NEW a \in Seq(S), NEW b \in Seq(S)
    PROVE  ToSet(a) \subseteq ToSet(a \o b) /\ ToSet(b) \subseteq ToSet(a \o b)
<1>1. /\ \A i \in DOMAIN a : i \in DOMAIN (a \o b) /\ (a \o b)[i] = a[i]
      /\ \A j \in DOMAIN b : Len(a) + j \in DOMAIN (a \o b) /\ (a \o b)[Len(a) + j] = b[j]
  BY Concat
<1>2. \A x \in ToSet(a) : x \in ToSet(a \o b)
  BY <1>1 DEF ToSet
<1>3. \A x \in ToSet(b) : x \in ToSet(a \o b)
  BY <1>1 DEF ToSet
<1> QED BY <1>2, <1>3

LEMMA TransmitsHere ==
    ASSUME TypeInv, up, NEW msgs \in Seq(ClientMsgs), Transmit(msgs)
    PROVE  ToSet(toServer[sock]) \subseteq ToSet(toServer'[sock])
           /\ ToSet(msgs) \subseteq ToSet(toServer'[sock])
<1>1. Wire = sock /\ sock \in Sockets
  BY WireIs DEF TypeInv, BasicInv
<1>2. toServer'[sock] = toServer[sock] \o msgs /\ toServer[sock] \in Seq(ClientMsgs)
  BY <1>1 DEF Transmit, TypeInv, WireInv
<1> QED BY <1>2, SetOfConcat

\* The client does not change what the server keeps.
LEMMA SyncClient ==
    ASSUME TypeInv, NEW p \in Paths, SyncOf(p), UNCHANGED <<sock, server>>,
           p \in ready' => \/ Arrives(p)'
                           \/ /\ p \in ready /\ (Told(p) => Told(p)')
                              /\ fresh'[p] \subseteq fresh[p]
                              /\ ToSet(toServer[sock]) \subseteq ToSet(toServer'[sock])
    PROVE  SyncOf(p)'
<1>1. UNCHANGED <<closed, chan, got, lastOpen>>
  BY DEF server
<1>2. SUFFICES ASSUME sock \notin closed, lastOpen[p] = sock
               PROVE  chan[p] = sock /\ (p \in ready' /\ ~Told(p)' => Arrives(p)')
  BY <1>1 DEF SyncOf
<1>3. chan[p] = sock /\ (p \in ready /\ ~Told(p) => Arrives(p))
  BY <1>2 DEF SyncOf
<1>4. ASSUME Arrives(p), fresh'[p] \subseteq fresh[p],
             ToSet(toServer[sock]) \subseteq ToSet(toServer'[sock])
      PROVE  Arrives(p)'
  BY <1>1, <1>4 DEF Arrives, Entries
<1> QED BY <1>3, <1>4

LEMMA SyncRead ==
    ASSUME TypeInv, NEW p \in Paths, SyncOf(p), ClientReceives PROVE SyncOf(p)'
<1>1. PICK m \in ServerMsgs : Reads(m)
  BY ClientReads
<1> DEFINE r == m.path
<1>2. /\ up /\ r \in Paths /\ UNCHANGED <<sock, server>> /\ m = Head(toClient[sock])
      /\ toClient' = [toClient EXCEPT ![sock] = Tail(@)]
      /\ m.kind \in {"error", "server-ready", "data"}
  BY <1>1, MessageFacts DEF Reads
<1>3. sock \in Sockets /\ toClient[sock] \in Seq(ServerMsgs) /\ toClient[sock] # <<>>
      /\ toClient'[sock] = Tail(toClient[sock])
  BY <1>2 DEF TypeInv, BasicInv, WireInv, ClientReceives
<1>4. (p # r \/ m.kind = "data") /\ Told(p) => Told(p)'
  <2> SUFFICES ASSUME p # r \/ m.kind = "data", NEW x \in ToSet(toClient[sock]),
                      x.path = p, x.kind # "data"
               PROVE  Told(p)'
    BY DEF Told
  <2>1. x = Head(toClient[sock]) \/ x \in ToSet(Tail(toClient[sock]))
    BY <1>3, SetOfTail
  <2> QED BY <1>2, <1>3, <2>1 DEF Told
<1>5. CASE m.kind = "error"
  <2>1. /\ HasTrace(r) /\ Transmit(<<Open(r, NewTrace(r))>>) /\ ready' = ready \ {r}
        /\ UNCHANGED fresh
    BY <1>1, <1>5 DEF Reads
  <2>2. <<Open(r, NewTrace(r))>> \in Seq(ClientMsgs)
    BY <1>2, <2>1, FreeTrace, MessageFacts, OneMessage
  <2>3. ToSet(toServer[sock]) \subseteq ToSet(toServer'[sock])
    BY <1>2, <2>1, <2>2, TransmitsHere
  <2> QED BY <1>2, <1>4, <2>1, <2>3, SyncClient
<1>6. CASE m.kind = "server-ready"
  <2>1. /\ Transmit(Queued(r)) /\ ready' = ready \cup {r}
        /\ fresh' = [fresh EXCEPT ![r] = ToSet(sendQueue[r])]
    BY <1>1, <1>6 DEF Reads
  <2>2. /\ Queued(r) \in Seq(ClientMsgs) /\ DOMAIN Queued(r) = DOMAIN sendQueue[r]
        /\ \A i \in DOMAIN sendQueue[r] : Queued(r)[i] = Data(r, sendQueue[r][i])
    BY <1>2, QueuedMessages DEF TypeInv
  <2>3. /\ ToSet(toServer[sock]) \subseteq ToSet(toServer'[sock])
        /\ ToSet(Queued(r)) \subseteq ToSet(toServer'[sock])
    BY <1>2, <2>1, <2>2, TransmitsHere
  <2>4. CASE p = r
    <3>1. fresh'[p] = ToSet(sendQueue[p])
      BY <2>1, <2>4 DEF TypeInv, ClientInv
    <3>2. ASSUME NEW k \in fresh'[p] PROVE Data(p, k) \in ToSet(toServer'[sock])
      <4>1. PICK i \in DOMAIN sendQueue[r] : k = sendQueue[r][i]
        BY <2>4, <3>1 DEF ToSet
      <4>2. i \in DOMAIN Queued(r) /\ Queued(r)[i] = Data(p, k)
        BY <2>2, <2>4, <4>1
      <4>3. Data(p, k) \in ToSet(Queued(r))
        BY <4>2 DEF ToSet
      <4> QED BY <2>3, <4>3
    <3>3. Arrives(p)'
      BY <1>2, <3>2 DEF Arrives, Data
    <3> QED BY <1>2, <3>3, SyncClient
  <2>5. CASE p # r
    <3>1. fresh'[p] = fresh[p] /\ (p \in ready' => p \in ready)
      BY <2>1, <2>5 DEF TypeInv, ClientInv
    <3> QED BY <1>2, <1>4, <2>3, <2>5, <3>1, SyncClient
  <2> QED BY <2>4, <2>5
<1>7. CASE m.kind = "data"
  <2>1. UNCHANGED <<ready, fresh, toServer>>
    BY <1>1, <1>7 DEF Reads
  <2> QED BY <1>2, <1>4, <1>7, <2>1, SyncClient
<1> QED BY <1>2, <1>5, <1>6, <1>7

LEMMA SyncSend ==
    ASSUME TypeInv, NEW p \in Paths, SyncOf(p), NEW r \in Paths, Send(r) PROVE SyncOf(p)'
<1> DEFINE k == sent[r] + 1
<1>1. UNCHANGED <<sock, up, ready, toClient, server>> /\ sends < MaxSends
  BY DEF Send
<1>2. \/ /\ r \in ready /\ Transmit(<<Data(r, k)>>)
         /\ fresh' = [fresh EXCEPT ![r] = @ \cup {k}]
      \/ UNCHANGED <<toServer, fresh>>
  BY DEF Send, MaySend
<1>3. k \in 1..MaxSends
  BY <1>1, BoundsAssumption DEF TypeInv, ClientInv, BasicInv
<1>t. Told(p) => Told(p)'
  BY <1>1 DEF Told
<1> HIDE DEF k
<1>4. CASE UNCHANGED <<toServer, fresh>>
  BY <1>1, <1>4, <1>t, SyncClient
<1>5. CASE /\ r \in ready /\ Transmit(<<Data(r, k)>>)
           /\ fresh' = [fresh EXCEPT ![r] = @ \cup {k}]
  <2>1. up
    BY <1>5 DEF TypeInv, BasicInv
  <2>2. <<Data(r, k)>> \in Seq(ClientMsgs) /\ Data(r, k) \in ToSet(<<Data(r, k)>>)
    BY <1>3, MessageFacts, OneMessage DEF ToSet
  <2>3. /\ ToSet(toServer[sock]) \subseteq ToSet(toServer'[sock])
        /\ Data(r, k) \in ToSet(toServer'[sock])
    BY <1>5, <2>1, <2>2, TransmitsHere
  <2>4. fresh'[p] = IF p = r THEN fresh[p] \cup {k} ELSE fresh[p]
    BY <1>5 DEF TypeInv, ClientInv
  <2>5. ASSUME Arrives(p) PROVE Arrives(p)'
    BY <1>1, <2>3, <2>4, <2>5 DEF Arrives, Entries, server, Data
  <2>6. UNCHANGED <<closed, chan, lastOpen>>
    BY <1>1 DEF server
  <2> QED BY <1>1, <1>t, <2>5, <2>6 DEF SyncOf, Told
<1> QED BY <1>2, <1>4, <1>5

LEMMA SyncOther ==
    ASSUME TypeInv, NEW p \in Paths, SyncOf(p),
           \/ \E r \in Paths : OpenChannel(r) \/ \E t \in Traces : Retry(r, t)
           \/ Heartbeat \/ SocketCloses
    PROVE  SyncOf(p)'
<1>1. ASSUME NEW r \in Paths, OpenChannel(r) PROVE SyncOf(p)'
  <2>1. /\ HasTrace(r) /\ Transmit(<<Open(r, NewTrace(r))>>) /\ ready' = ready \ {r}
        /\ fresh' = [fresh EXCEPT ![r] = {}] /\ UNCHANGED <<sock, up, toClient, server>>
    BY <1>1 DEF OpenChannel
  <2>2. <<Open(r, NewTrace(r))>> \in Seq(ClientMsgs)
    BY <2>1, FreeTrace, MessageFacts, OneMessage
  <2>3. up => ToSet(toServer[sock]) \subseteq ToSet(toServer'[sock])
    BY <2>1, <2>2, TransmitsHere
  <2>4. p \in ready' => up /\ p \in ready
    BY <2>1 DEF TypeInv, BasicInv
  <2>5. fresh'[p] \subseteq fresh[p] /\ (Told(p) => Told(p)')
    BY <2>1 DEF TypeInv, ClientInv, Told
  <2> QED BY <2>1, <2>3, <2>4, <2>5, SyncClient
<1>2. ASSUME NEW r \in Paths, NEW t \in Traces, Retry(r, t) PROVE SyncOf(p)'
  <2>1. /\ UNCHANGED <<sock, up, ready, fresh, toClient, server>>
        /\ UNCHANGED toServer \/ Transmit(<<Open(r, t)>>)
    BY <1>2 DEF Retry
  <2>2. <<Open(r, t)>> \in Seq(ClientMsgs)
    BY MessageFacts, OneMessage
  <2>3. up => ToSet(toServer[sock]) \subseteq ToSet(toServer'[sock])
    BY <2>1, <2>2, TransmitsHere
  <2>4. (p \in ready' => up /\ p \in ready) /\ (Told(p) => Told(p)')
    BY <2>1 DEF TypeInv, BasicInv, Told
  <2> QED BY <2>1, <2>3, <2>4, SyncClient
<1>3. ASSUME Heartbeat PROVE SyncOf(p)'
  <2> DEFINE F == [x \in Paths |-> Ping(x)]
             msgs == [i \in DOMAIN opened |-> Ping(opened[i])]
  <2>1. Transmit(msgs) /\ up /\ UNCHANGED <<client, toClient, server>>
    BY <1>3 DEF Heartbeat
  <2>2. F \in [Paths -> ClientMsgs] /\ \A x \in Known : F[x].path = x
    BY MessageFacts, KnownPaths DEF BasicInv, TypeInv
  <2>3. \A i \in DOMAIN opened : opened[i] \in Paths
    BY KnownPaths DEF BasicInv, TypeInv, Known, ToSet
  <2>4. msgs = [i \in DOMAIN opened |-> F[opened[i]]]
    BY <2>3
  <2>5. msgs \in Seq(ClientMsgs)
    <3> HIDE DEF F
    <3> QED BY <2>2, <2>4, OpenedMessages DEF TypeInv
  <2> HIDE DEF msgs, F
  <2>6. ToSet(toServer[sock]) \subseteq ToSet(toServer'[sock])
    BY <2>1, <2>5, TransmitsHere
  <2>7. UNCHANGED <<sock, ready, fresh>> /\ (Told(p) => Told(p)')
    BY <2>1 DEF client, Told
  <2> QED BY <2>1, <2>6, <2>7, SyncClient
<1>4. ASSUME SocketCloses PROVE SyncOf(p)'
  <2>1. ready' = {} /\ UNCHANGED <<sock, server>>
    BY <1>4 DEF SocketCloses
  <2> QED BY <2>1, SyncClient
<1> QED BY <1>1, <1>2, <1>3, <1>4

LEMMA SyncReopen ==
    ASSUME TypeInv, NEW p \in Paths, SocketOpens PROVE SyncOf(p)'
<1>1. sock' = sock + 1 /\ UNCHANGED server
  BY DEF SocketOpens
<1>2. lastOpen'[p] # sock'
  BY <1>1, WireIs, BoundsAssumption DEF TypeInv, ServerInv, server
<1> QED BY <1>2 DEF SyncOf

LEMMA ReplyTells ==
    ASSUME TypeInv, NEW s \in Sockets, NEW m \in ServerMsgs, Reply(s, m), UNCHANGED <<up, sock>>,
           NEW p
    PROVE  /\ Told(p) => Told(p)'
           /\ up /\ s = sock /\ m.path = p /\ m.kind # "data" => Told(p)'
<1>1. CASE up /\ s = sock
  <2>1. toClient'[sock] = Append(toClient[sock], m) /\ toClient[sock] \in Seq(ServerMsgs)
    BY <1>1 DEF Reply, TypeInv, WireInv
  <2>2. ToSet(toClient[sock]) \subseteq ToSet(toClient'[sock]) /\ m \in ToSet(toClient'[sock])
    BY <2>1, SetOfAppend
  <2> QED BY <2>2 DEF Told
<1>2. CASE ~(up /\ s = sock)
  <2>1. toClient' = toClient
    BY <1>2 DEF Reply
  <2> QED BY <1>2, <2>1 DEF Told
<1> QED BY <1>1, <1>2

LEMMA SyncServe ==
    ASSUME TypeInv, NEW p \in Paths, OpensFirst(p), SyncOf(p), NEW s \in Sockets,
           ServerReceives(s)
    PROVE  SyncOf(p)'
<1>1. PICK m \in ClientMsgs : Serves(s, m)
  BY ServerReads
<1> DEFINE r == m.path
<1>2. /\ UNCHANGED <<sock, up, ready, fresh, closed>> /\ m = Head(toServer[s])
      /\ toServer[s] # <<>> /\ toServer' = [toServer EXCEPT ![s] = Tail(@)]
      /\ r \in Paths /\ m.kind \in {"open", "data", "ping"}
  BY <1>1, MessageFacts DEF Serves, client
<1>3. SUFFICES ASSUME sock \notin closed, lastOpen'[p] = sock
               PROVE  chan'[p] = sock /\ (p \in ready /\ ~Told(p)' => Arrives(p)')
  BY <1>2 DEF SyncOf
<1>4. \A x \in ToSet(toServer[sock]) : x = m \/ x \in ToSet(toServer'[sock])
  <2>1. sock \in Sockets /\ toServer[s] \in Seq(ClientMsgs)
        /\ toServer'[sock] = IF s = sock THEN Tail(toServer[s]) ELSE toServer[sock]
    BY <1>2 DEF TypeInv, BasicInv, WireInv
  <2> QED BY <1>2, <2>1, SetOfTail
<1>5. CASE m.kind = "open"
  <2>1. /\ chan' = [chan EXCEPT ![r] = s] /\ got' = [got EXCEPT ![r] = <<>>]
        /\ lastOpen' = [lastOpen EXCEPT ![r] = s]
        /\ Reply(s, Ready(r, m.n)) \/ UNCHANGED toClient
    BY <1>1, <1>5 DEF Serves, ServeOpen
  <2>2. /\ Ready(r, m.n) \in ServerMsgs /\ Ready(r, m.n).path = r
        /\ Ready(r, m.n).kind # "data"
    BY <1>2, <1>5, MessageFacts
  <2>3. CASE p = r
    <3>1. chan'[p] = s /\ s = sock
      BY <1>3, <2>1, <2>3 DEF TypeInv, ServerInv
    <3>2. p \in ready => up
      BY DEF TypeInv, BasicInv
    <3>3. CASE Reply(s, Ready(r, m.n))
      <4>1. p \in ready => Told(p)'
        BY <1>2, <2>2, <2>3, <3>1, <3>2, <3>3, ReplyTells
      <4> QED BY <3>1, <4>1
    <3>4. CASE UNCHANGED toClient
      <4> DEFINE w == toServer[sock]
      <4>1. w \in Seq(ClientMsgs) /\ w # <<>> /\ toServer'[sock] = Tail(w) /\ m = Head(w)
        BY <1>2, <3>1 DEF TypeInv, WireInv
      <4>2. 1 \in DOMAIN w /\ w[1] = m /\ m.path = p
        BY <2>3, <4>1, TailOf
      <4>3. p \in ready => \A k \in fresh[p] : \E j \in DOMAIN w : j > 1 /\ w[j] = Data(p, k)
        BY <1>5, <4>2 DEF OpensFirst
      <4>4. \A j \in DOMAIN w :
              j > 1 => j - 1 \in DOMAIN Tail(w) /\ Tail(w)[j - 1] = w[j]
        BY <4>1, TailOf
      <4> HIDE DEF w
      <4>5. p \in ready => \A k \in fresh[p] : Data(p, k) \in ToSet(Tail(w))
        BY <4>3, <4>4 DEF ToSet
      <4>6. p \in ready => Arrives(p)'
        BY <1>2, <4>1, <4>5 DEF Arrives, Data
      <4> QED BY <3>1, <4>6
    <3> QED BY <2>1, <3>3, <3>4
  <2>4. CASE p # r
    <3>1. chan'[p] = chan[p] /\ got'[p] = got[p] /\ lastOpen'[p] = lastOpen[p]
      BY <2>1, <2>4 DEF TypeInv, ServerInv
    <3>2. Told(p) => Told(p)'
      <4>1. CASE Reply(s, Ready(r, m.n))
        BY <1>2, <2>2, <4>1, ReplyTells
      <4>2. CASE UNCHANGED toClient
        BY <1>2, <4>2 DEF Told
      <4> QED BY <2>1, <4>1, <4>2
    <3>3. \A k : Data(p, k) # m
      BY <1>5 DEF Data
    <3>4. Arrives(p) => Arrives(p)'
      BY <1>2, <1>4, <3>1, <3>3 DEF Arrives, Entries, Data
    <3> QED BY <1>3, <3>1, <3>2, <3>4 DEF SyncOf
  <2> QED BY <2>3, <2>4
<1>6. CASE m.kind # "open"
  <2>1. /\ UNCHANGED <<chan, lastOpen>> /\ ServeOther(s, m)
    BY <1>1, <1>6 DEF Serves, ServeOther
  <2>2. chan[p] = sock /\ (p \in ready /\ ~Told(p) => Arrives(p))
    BY <1>3, <2>1 DEF SyncOf
  <2>3. Told(p) => Told(p)'
    <3>1. CASE chan[r] = 0
      <4>1. Reply(s, NotFound(r)) /\ NotFound(r) \in ServerMsgs
        BY <1>2, <2>1, <3>1, MessageFacts DEF ServeOther, ReplyNotFound
      <4> QED BY <1>2, <4>1, ReplyTells
    <3>2. CASE chan[r] # 0
      BY <1>2, <2>1, <3>2 DEF ServeOther, Told
    <3> QED BY <3>1, <3>2
  <2>4. sock # 0
    BY WireIs DEF TypeInv
  <2>5. \A k \in fresh[p] : k \in Entries(p) => k \in Entries(p)'
    <3>1. CASE got'[p] = got[p]
      BY <3>1 DEF Entries
    <3>2. CASE got'[p] # got[p]
      <4>1. m.kind = "data" /\ r = p /\ got'[p] = Append(got[p], <<s, m.n>>)
        <5>1. got \in [Paths -> Seq(Sockets \X (1..MaxSends))]
          BY DEF TypeInv, ServerInv
        <5>2. m.kind = "data"
          BY <2>1, <3>2 DEF ServeOther
        <5>3. got' = [got EXCEPT ![r] = Append(@, <<s, m.n>>)]
          BY <1>2, <2>1, <3>2, <5>2 DEF ServeOther
        <5>4. r = p
          BY <3>2, <5>1, <5>3
        <5> QED BY <5>1, <5>2, <5>3, <5>4
      <4>2. /\ DOMAIN got'[p] = 1..(Len(got[p]) + 1) /\ Len(got[p]) \in Nat
            /\ DOMAIN got[p] = 1..Len(got[p])
            /\ \A i \in 1..Len(got[p]) : got'[p][i] = got[p][i]
        BY <4>1, InGot, AppendProperties, LenProperties
      <4>3. \A i \in DOMAIN got[p] : i \in DOMAIN got'[p] /\ got'[p][i] = got[p][i]
        BY <4>2
      <4> QED BY <4>3 DEF Entries
    <3> QED BY <3>1, <3>2
  <2>6. \A k \in fresh[p] : m = Data(p, k) => k \in Entries(p)'
    <3> SUFFICES ASSUME NEW k \in fresh[p], m = Data(p, k) PROVE k \in Entries(p)'
      OBVIOUS
    <3>1. m.kind = "data" /\ r = p /\ m.n = k
      BY DEF Data
    <3>2. got'[p] = Append(got[p], <<s, k>>)
      BY <1>2, <2>1, <2>2, <2>4, <3>1 DEF ServeOther, TypeInv, ServerInv
    <3>3. /\ Len(got[p]) \in Nat /\ DOMAIN got'[p] = 1..(Len(got[p]) + 1)
          /\ got'[p][Len(got[p]) + 1] = <<s, k>>
      BY <3>2, InGot, AppendProperties, LenProperties
    <3>4. Len(got[p]) + 1 \in DOMAIN got'[p] /\ got'[p][Len(got[p]) + 1][2] = k
      BY <3>3
    <3> QED BY <3>4 DEF Entries
  <2>7. Arrives(p) => Arrives(p)'
    <3> SUFFICES ASSUME Arrives(p), NEW k \in fresh[p]
                 PROVE  k \in Entries(p)' \/ Data(p, k) \in ToSet(toServer'[sock])
      BY <1>2 DEF Arrives, Data
    <3>1. k \in Entries(p) \/ Data(p, k) \in ToSet(toServer[sock])
      BY DEF Arrives
    <3> QED BY <1>4, <2>5, <2>6, <3>1
  <2> QED BY <2>1, <2>2, <2>3, <2>7
<1> QED BY <1>5, <1>6

LEMMA SyncServerCloses ==
    ASSUME TypeInv, NEW p \in Paths, SyncOf(p), NEW s \in Sockets, ServerCloses(s)
    PROVE  SyncOf(p)'
<1>1. /\ closed' = closed \cup {s} /\ toServer' = [toServer EXCEPT ![s] = <<>>]
      /\ chan' = [x \in Paths |-> IF x \in ClosedWith(s) THEN 0 ELSE chan[x]]
      /\ got' = [x \in Paths |-> IF x \in ClosedWith(s) THEN <<>> ELSE got[x]]
      /\ UNCHANGED <<sock, ready, fresh, toClient, lastOpen>>
  BY DEF ServerCloses, client
<1>2. SUFFICES ASSUME sock \notin closed', lastOpen[p] = sock
               PROVE  chan'[p] = sock /\ (p \in ready /\ ~Told(p)' => Arrives(p)')
  BY <1>1 DEF SyncOf
<1>3. s # sock /\ chan[p] = sock /\ (p \in ready /\ ~Told(p) => Arrives(p))
  BY <1>1, <1>2 DEF SyncOf
<1>4. p \notin ClosedWith(s)
  BY <1>3 DEF ClosedWith
<1>5. chan'[p] = sock /\ got'[p] = got[p] /\ toServer'[sock] = toServer[sock]
  BY <1>1, <1>3, <1>4 DEF TypeInv, WireInv, BasicInv
<1>6. Arrives(p) => Arrives(p)'
  BY <1>1, <1>5 DEF Arrives, Entries, Data
<1> QED BY <1>1, <1>3, <1>5, <1>6 DEF Told

LEMMA SyncSpeaks ==
    ASSUME TypeInv, NEW p \in Paths, SyncOf(p), NEW r \in Paths, ServerSends(r)
    PROVE  SyncOf(p)'
<1>1. Speaks(r)
  BY ServerSpeaks
<1>2. /\ chan[r] \in Sockets /\ Reply(chan[r], Data(r, 0))
      /\ UNCHANGED <<sock, up, ready, fresh, toServer, closed, chan, got, lastOpen>>
  BY <1>1 DEF Speaks
<1>3. Told(p) => Told(p)'
  BY <1>2, MessageFacts, ReplyTells
<1>4. Arrives(p) => Arrives(p)'
  BY <1>2 DEF Arrives, Entries, Data
<1> QED BY <1>2, <1>3, <1>4 DEF SyncOf

LEMMA SyncInit == Init => SyncInv
<1> SUFFICES ASSUME Init, NEW p \in Paths PROVE SyncOf(p)
  BY DEF SyncInv, SyncOf
<1>1. sock = 1 /\ lastOpen[p] = 0
  BY DEF Init
<1> QED BY <1>1 DEF SyncOf

LEMMA SyncStep == TypeInv /\ FirstInv /\ SyncInv /\ [Next]_vars => SyncInv'
<1> SUFFICES ASSUME TypeInv, FirstInv, SyncInv, [Next]_vars, NEW p \in Paths
             PROVE  SyncOf(p)'
  BY DEF SyncInv, SyncOf
<1>1. SyncOf(p) /\ OpensFirst(p)
  BY DEF SyncInv, SyncOf, FirstInv
<1>2. CASE Client
  <2>1. CASE \E r \in Paths : Send(r)
    BY <1>1, <2>1, SyncSend
  <2>2. CASE ClientReceives
    BY <1>1, <2>2, SyncRead
  <2>3. CASE SocketOpens
    BY <2>3, SyncReopen
  <2>4. CASE \/ \E r \in Paths : OpenChannel(r) \/ \E t \in Traces : Retry(r, t)
             \/ Heartbeat \/ SocketCloses
    BY <1>1, <2>4, SyncOther
  <2> QED BY <1>2, <2>1, <2>2, <2>3, <2>4 DEF Client
<1>3. CASE \E s \in Sockets : ServerReceives(s) \/ ServerCloses(s)
  BY <1>1, <1>3, SyncServe, SyncServerCloses
<1>4. CASE \E r \in Paths : ServerSends(r)
  BY <1>1, <1>4, SyncSpeaks
<1>5. CASE UNCHANGED vars
  BY <1>1, <1>5 DEF vars, client, server, SyncOf, Told, Arrives, Entries, Data
<1> QED BY <1>2, <1>3, <1>4, <1>5 DEF Next, Server

-----------------------------------------------------------------------------
(* The theorems.                                                               *)

THEOREM Invariance == Spec => []IInv
<1>1. Init => IInv
  BY TypesInit, ThrownInit, HeldInit, OrderInit, FirstInit, SyncInit DEF IInv
<1>2. IInv /\ [Next]_vars => IInv'
  BY TypesStep, ThrownStep, HeldStep, OrderStep, FirstStep, SyncStep DEF IInv
<1> QED BY <1>1, <1>2, PTL DEF Spec

\* Every variable has its type, for any number of paths, sockets and data: only
\* known channels queue, are traced or are served, only the newest socket brings
\* answers, and no channel of ws-channel-handler.ts is ready while its socket is
\* closed.
THEOREM TypesHold == Spec => []TypeOK
<1>1. IInv => TypeOK
  <2> SUFFICES ASSUME IInv PROVE TypeOK
    OBVIOUS
  <2> USE DEF IInv, TypeInv
  <2>1. \A s \in Sockets : (toServer[s] # <<>> => s <= Wire) /\ (toClient[s] # <<>> => up /\ s = sock)
    BY DEF WireInv
  <2>2. \A p \in Paths :
         /\ sendQueue[p] \in Seq(1..MaxSends) /\ sent[p] \in 0..MaxSends
         /\ traces[p] \subseteq Traces
         /\ p \notin Known => sendQueue[p] = <<>> /\ traces[p] = {}
         /\ p \in ready => sendQueue[p] = <<>>
    BY DEF ClientInv
  <2>3. \A p \in Paths : chan[p] \in (0..sock) \ closed /\ (p \notin Known => chan[p] = 0)
    BY DEF ServerInv
  <2> QED BY <2>1, <2>2, <2>3 DEF BasicInv, ThrownInv, TypeOK
<1> QED BY <1>1, Invariance, PTL

\* A channel that may send is served on its socket and loses nothing sent since
\* its last open event, or an open event or an error is on its way: whatever the
\* order in which sockets close, opens are repeated and ws-channel.ts resumes.
THEOREM ChannelsAreInSync == Spec => []InSync
<1>1. IInv => InSync
  <2> SUFFICES ASSUME IInv, NEW p \in ready, sock \notin closed, lastOpen[p] = sock, ~Told(p)
               PROVE  /\ chan[p] = sock
                      /\ \A k \in fresh[p] :
                           k \in Entries(p) \/ Data(p, k) \in ToSet(toServer[sock])
    BY DEF InSync
  <2>1. p \in Paths
    BY KnownPaths DEF IInv, TypeInv, BasicInv
  <2> QED BY <2>1 DEF IInv, SyncInv, Arrives
<1> QED BY <1>1, Invariance, PTL

\* The data a channel of server-handler.ts receives from one socket come in the
\* order of the calls of send and once each.
THEOREM DataComeInOrder == Spec => []InOrder
<1>1. IInv => InOrder
  BY DEF IInv, OrderInv, GotRises, InOrder
<1> QED BY <1>1, Invariance, PTL

\* The handlers of server-handler.ts keep resources for a client exactly as long
\* as it has a channel in the map.
THEOREM ResourcesAreHeld == Spec => []HeldWhileOpen
<1>1. IInv => HeldWhileOpen
  BY DEF IInv, HeldInv
<1> QED BY <1>1, Invariance, PTL

=============================================================================
