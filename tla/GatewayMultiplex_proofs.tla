------------------------ MODULE GatewayMultiplex_proofs ------------------------
(* Proofs about GatewayMultiplex, for every value of its constants.            *)
EXTENDS GatewayMultiplex, SequenceTheorems, FiniteSetTheorems, TLAPS

IsOpen(f, s) == f.type = "open" /\ f.stream = s
IsData(f, s) == f.type = "data" /\ f.stream = s
IsClose(f, s) == f.type = "close" /\ f.stream = s

\* What readLoop has in hand concerns the stream.
LoopHas(type, s) == loop.type = type /\ loop.stream = s
LoopIdle == loop.type \in {"reading", "stopped"}

-----------------------------------------------------------------------------
(* The inductive invariant.                                                    *)

Avoids(wire, s) == \A i \in DOMAIN wire : wire[i].stream # s

\* Of a stream whose OPEN is not written nothing has happened yet.
Untouched(s) ==
    /\ Avoids(toNode, s) /\ Avoids(toGo, s)
    /\ LoopIdle \/ loop.stream # s
    /\ s \notin nodeStreams /\ s \notin nodeDone
    /\ browserSent[s] = 0 /\ nodeSent[s] = 0
    /\ nodeGot[s] = <<>> /\ browserGot[s] = <<>> /\ incoming[s] = <<>>
    /\ writer[s] = "done" /\ reader[s] = "done"

FreshInv ==
    \A s \in Streams :
        /\ bridge[s] \in {"none", "opening"} => Untouched(s)
        /\ bridge[s] = "none" => s \notin registered
        /\ bridge[s] = "opening" /\ goConn = "open" => s \in registered

\* The data of a stream on a wire are the numbers got + 1 .. n, in order.
Chained(s, wire, got, n) ==
    /\ \A i \in DOMAIN wire : IsData(wire[i], s) =>
         /\ wire[i].payload \in (got + 1)..n
         /\ \/ wire[i].payload = got + 1
            \/ \E j \in DOMAIN wire : /\ j < i /\ IsData(wire[j], s)
                                      /\ wire[j].payload = wire[i].payload - 1
    /\ \A i, j \in DOMAIN wire :
         IsData(wire[i], s) /\ IsData(wire[j], s)
           /\ wire[i].payload = wire[j].payload => i = j
    /\ \/ n = got
       \/ \E j \in DOMAIN wire : IsData(wire[j], s) /\ wire[j].payload = n

\* Browser to Node: all of what the writer has written.
WrittenUpTo(s, n) ==
    /\ Chained(s, toNode, Len(nodeGot[s]), n)
    /\ writer[s] = "reading" => n = browserSent[s]
    /\ writer[s] = "writing" => n = browserSent[s] - 1

SentInv == \A s \in Streams : writer[s] = "writing" => browserSent[s] # 0

UpInv ==
    nodeSock = "open" =>
        \A s \in Streams : \E n \in 0..browserSent[s] : WrittenUpTo(s, n)

\* Node to browser: what is queued follows what the browser has, the payload
\* in the hands of readLoop comes next, and then those on the wire.
Queued(s) == Len(browserGot[s]) + Len(incoming[s])
Fetched(s) == IF LoopHas("data", s) THEN Queued(s) + 1 ELSE Queued(s)

DownInv ==
    \A s \in Streams :
        /\ Fetched(s) <= nodeSent[s]
        /\ \A i \in DOMAIN incoming[s] : incoming[s][i] = Len(browserGot[s]) + i
        /\ LoopHas("data", s) => loop.payload = Queued(s) + 1
        /\ s \in registered =>
             \E n \in 0..nodeSent[s] :
                /\ Chained(s, toGo, Fetched(s), n)
                /\ nodeSock = "open" => n = nodeSent[s]

OpenIn(wire, s) == \E i \in DOMAIN wire : IsOpen(wire[i], s)
CloseIn(wire, s) == \E i \in DOMAIN wire : IsClose(wire[i], s)

\* At most one CLOSE of the stream; its OPEN is the only one, and before CLOSE.
OneClose(wire, s) ==
    \A i, j \in DOMAIN wire : IsClose(wire[i], s) /\ IsClose(wire[j], s) => i = j
OpenFirst(wire, s) ==
    \A i, j \in DOMAIN wire : IsOpen(wire[i], s) =>
        /\ IsOpen(wire[j], s) => j = i
        /\ IsClose(wire[j], s) => i < j

\* Who closes a stream: CLOSE on the wire, the bridge or readLoop, one of them.
OneCloser(s) ==
    /\ s \in registered =>
         ~CloseIn(toNode, s) /\ bridge[s] # "notifying" /\ ~LoopHas("notify", s)
    /\ OneClose(toNode, s)
    /\ CloseIn(toNode, s) => bridge[s] # "notifying" /\ ~LoopHas("notify", s)
    /\ ~(bridge[s] = "notifying" /\ LoopHas("notify", s))

CloserInv == goConn = "open" => \A s \in Streams : OneCloser(s)

Closing(s) ==
    CloseIn(toNode, s) \/ bridge[s] = "notifying" \/ LoopHas("notify", s)

\* What Node knows of a stream, and what the wires say of it.
GoneFirst(s) == CloseIn(toGo, s) \/ LoopHas("close", s) => s \in nodeDone
NewToNode(s) ==
    /\ OpenFirst(toNode, s)
    /\ OpenIn(toNode, s) => s \notin nodeStreams /\ s \notin nodeDone

NodeInv ==
    /\ nodeStreams \cap nodeDone = {}
    /\ \A s \in Streams : GoneFirst(s)
    /\ nodeSock = "open" => \A s \in Streams : NewToNode(s)

\* What one side does not know any more, or not yet, is under way.
Known(s) ==
    /\ s \notin registered /\ (s \in nodeStreams \/ OpenIn(toNode, s)) => Closing(s)
    /\ s \in registered /\ s \notin nodeStreams =>
         \/ bridge[s] = "opening" \/ OpenIn(toNode, s)
         \/ CloseIn(toGo, s) \/ LoopHas("close", s)

KnownInv == goConn = "open" /\ nodeSock = "open" => \A s \in Streams : Known(s)

IInv ==
    /\ TypeOK /\ FreshInv /\ SentInv /\ UpInv /\ DownInv
    /\ CloserInv /\ NodeInv /\ KnownInv

-----------------------------------------------------------------------------
(* Frames and wires.                                                           *)

LEMMA FrameFacts ==
    /\ \A s \in Streams :
         /\ Open(s) \in Frames /\ IsOpen(Open(s), s) /\ Open(s).stream = s
         /\ Close(s) \in Frames /\ IsClose(Close(s), s) /\ Close(s).stream = s
         /\ \A k \in 1..MaxSent :
              /\ Data(s, k) \in Frames /\ IsData(Data(s, k), s)
              /\ Data(s, k).stream = s /\ Data(s, k).payload = k
    /\ \A f \in Frames :
         /\ f.type \in {"open", "data", "close"} /\ f.stream \in Streams
         /\ f.type = "data" => f.payload \in 1..MaxSent
BY DEF Frames, Open, Close, Data, IsOpen, IsClose, IsData

LEMMA CloseUnique ==
    ASSUME NEW f \in Frames, NEW s \in Streams
    PROVE  /\ f = Close(s) <=> IsClose(f, s)
           /\ f = Open(s) <=> IsOpen(f, s)
BY DEF Frames, Open, Close, IsOpen, IsClose

LEMMA WireAppend ==
    ASSUME NEW w \in Seq(Frames), NEW f \in Frames
    PROVE  /\ Append(w, f) \in Seq(Frames)
           /\ Len(w) \in Nat /\ DOMAIN w = 1..Len(w)
           /\ DOMAIN Append(w, f) = 1..(Len(w) + 1)
           /\ \A i \in DOMAIN w : Append(w, f)[i] = w[i] /\ w[i] \in Frames
           /\ Append(w, f)[Len(w) + 1] = f
BY AppendProperties, LenProperties

LEMMA WireTail ==
    ASSUME NEW w \in Seq(Frames), w # <<>>
    PROVE  /\ Tail(w) \in Seq(Frames)
           /\ Len(w) \in Nat \ {0} /\ DOMAIN w = 1..Len(w)
           /\ DOMAIN Tail(w) = 1..(Len(w) - 1)
           /\ \A i \in DOMAIN w : w[i] \in Frames
           /\ \A i \in DOMAIN Tail(w) : Tail(w)[i] = w[i + 1]
           /\ Head(w) = w[1] /\ Head(w) \in Frames
BY HeadTailProperties, LenProperties, EmptySeq

LEMMA ChainEmpty ==
    ASSUME NEW s, NEW wire \in Seq(Frames), NEW got \in Nat,
           \A i \in DOMAIN wire : ~IsData(wire[i], s)
    PROVE  Chained(s, wire, got, got)
BY DEF Chained

LEMMA ChainBounds ==
    ASSUME NEW s, NEW wire \in Seq(Frames), NEW got \in Nat, NEW n \in Nat,
           Chained(s, wire, got, n)
    PROVE  got <= n
BY FrameFacts, LenProperties DEF Chained

LEMMA ChainAppendData ==
    ASSUME NEW s \in Streams, NEW wire \in Seq(Frames), NEW got \in Nat, NEW n \in Nat,
           Chained(s, wire, got, n), n + 1 \in 1..MaxSent
    PROVE  Chained(s, Append(wire, Data(s, n + 1)), got, n + 1)
<1> DEFINE f == Data(s, n + 1)
           w == Append(wire, f)
<1>1. f \in Frames /\ IsData(f, s) /\ f.payload = n + 1
  BY FrameFacts
<1>2. /\ Len(wire) \in Nat /\ DOMAIN wire = 1..Len(wire)
      /\ DOMAIN w = 1..(Len(wire) + 1)
      /\ \A i \in DOMAIN wire : w[i] = wire[i] /\ wire[i] \in Frames
      /\ w[Len(wire) + 1] = f
  BY <1>1, WireAppend
<1>3. \A i \in DOMAIN wire : IsData(wire[i], s) => wire[i].payload \in (got + 1)..n
  BY DEF Chained
<1>4. got <= n
  BY ChainBounds
<1> HIDE DEF f, w
<1>5. ASSUME NEW i \in DOMAIN w, IsData(w[i], s)
      PROVE  /\ w[i].payload \in (got + 1)..(n + 1)
             /\ \/ w[i].payload = got + 1
                \/ \E j \in DOMAIN w : /\ j < i /\ IsData(w[j], s)
                                       /\ w[j].payload = w[i].payload - 1
  <2>1. CASE i \in DOMAIN wire
    <3>1. /\ wire[i].payload \in (got + 1)..n
          /\ \/ wire[i].payload = got + 1
             \/ \E j \in DOMAIN wire : /\ j < i /\ IsData(wire[j], s)
                                       /\ wire[j].payload = wire[i].payload - 1
      BY <1>2, <1>5, <2>1 DEF Chained
    <3>2. w[i] = wire[i] /\ wire[i].payload \in (got + 1)..(n + 1)
      BY <1>2, <2>1, <3>1
    <3>3. ASSUME NEW j \in DOMAIN wire PROVE j \in DOMAIN w /\ w[j] = wire[j]
      BY <1>2
    <3> QED BY <3>1, <3>2, <3>3
  <2>2. CASE i = Len(wire) + 1
    <3>1. \/ n = got
          \/ \E j \in DOMAIN wire : IsData(wire[j], s) /\ wire[j].payload = n
      BY DEF Chained
    <3>2. w[i].payload = n + 1 /\ n + 1 \in (got + 1)..(n + 1)
      BY <1>1, <1>2, <1>4, <2>2
    <3>3. ASSUME NEW j \in DOMAIN wire, IsData(wire[j], s), wire[j].payload = n
          PROVE  /\ j \in DOMAIN w /\ j < i /\ IsData(w[j], s)
                 /\ w[j].payload = w[i].payload - 1
      BY <1>2, <2>2, <3>2, <3>3
    <3> QED BY <3>1, <3>2, <3>3
  <2> QED BY <1>2, <1>5, <2>1, <2>2
<1>6. ASSUME NEW i \in DOMAIN w, NEW j \in DOMAIN w, IsData(w[i], s), IsData(w[j], s),
             w[i].payload = w[j].payload
      PROVE  i = j
  <2>1. CASE i \in DOMAIN wire /\ j \in DOMAIN wire
    BY <1>2, <1>6, <2>1 DEF Chained
  <2>2. CASE i = Len(wire) + 1 \/ j = Len(wire) + 1
    BY <1>1, <1>2, <1>3, <1>6, <2>2
  <2> QED BY <1>2, <1>6, <2>1, <2>2
<1>7. \E j \in DOMAIN w : IsData(w[j], s) /\ w[j].payload = n + 1
  BY <1>1, <1>2
<1>8. Chained(s, w, got, n + 1)
  BY <1>5, <1>6, <1>7 DEF Chained
<1> QED BY <1>8 DEF w, f

LEMMA ChainAppendOther ==
    ASSUME NEW s \in Streams, NEW wire \in Seq(Frames), NEW got \in Nat, NEW n \in Nat,
           Chained(s, wire, got, n), NEW f \in Frames, ~IsData(f, s)
    PROVE  Chained(s, Append(wire, f), got, n)
<1> DEFINE w == Append(wire, f)
<1>1. /\ Len(wire) \in Nat /\ DOMAIN wire = 1..Len(wire)
      /\ DOMAIN w = 1..(Len(wire) + 1)
      /\ \A i \in DOMAIN wire : w[i] = wire[i] /\ wire[i] \in Frames
      /\ w[Len(wire) + 1] = f
  BY WireAppend
<1> HIDE DEF w
<1>2. /\ \A i \in DOMAIN w : IsData(w[i], s) => i \in DOMAIN wire /\ w[i] = wire[i]
      /\ \A i \in DOMAIN wire : i \in DOMAIN w /\ w[i] = wire[i]
  BY <1>1
<1>3. ASSUME NEW i \in DOMAIN w, IsData(w[i], s)
      PROVE  /\ w[i].payload \in (got + 1)..n
             /\ \/ w[i].payload = got + 1
                \/ \E j \in DOMAIN w : /\ j < i /\ IsData(w[j], s)
                                       /\ w[j].payload = w[i].payload - 1
  <2>1. /\ wire[i].payload \in (got + 1)..n
        /\ \/ wire[i].payload = got + 1
           \/ \E j \in DOMAIN wire : /\ j < i /\ IsData(wire[j], s)
                                     /\ wire[j].payload = wire[i].payload - 1
    BY <1>2, <1>3 DEF Chained
  <2> QED BY <1>2, <1>3, <2>1
<1>4. \A i, j \in DOMAIN w :
         IsData(w[i], s) /\ IsData(w[j], s) /\ w[i].payload = w[j].payload => i = j
  BY <1>2 DEF Chained
<1>5. \/ n = got
      \/ \E j \in DOMAIN w : IsData(w[j], s) /\ w[j].payload = n
  BY <1>2 DEF Chained
<1>6. Chained(s, w, got, n)
  BY <1>3, <1>4, <1>5 DEF Chained
<1> QED BY <1>6 DEF w

LEMMA ChainTailData ==
    ASSUME NEW s \in Streams, NEW wire \in Seq(Frames), NEW got \in Nat, NEW n \in Nat,
           Chained(s, wire, got, n), wire # <<>>, IsData(Head(wire), s)
    PROVE  /\ Head(wire).payload = got + 1 /\ got + 1 <= n
           /\ Chained(s, Tail(wire), got + 1, n)
<1> DEFINE w == Tail(wire)
<1>1. /\ Len(wire) \in Nat \ {0} /\ DOMAIN wire = 1..Len(wire)
      /\ DOMAIN w = 1..(Len(wire) - 1)
      /\ \A i \in DOMAIN wire : wire[i] \in Frames
      /\ \A i \in DOMAIN w : w[i] = wire[i + 1]
      /\ Head(wire) = wire[1]
  BY WireTail
<1> HIDE DEF w
<1>2. wire[1].payload = got + 1 /\ got + 1 <= n
  <2>1. /\ wire[1].payload \in (got + 1)..n
        /\ \/ wire[1].payload = got + 1
           \/ \E j \in DOMAIN wire : j < 1
    BY <1>1 DEF Chained
  <2> QED BY <1>1, <2>1
<1>3. ASSUME NEW i \in DOMAIN w, IsData(w[i], s)
      PROVE  /\ w[i].payload \in (got + 2)..n
             /\ \/ w[i].payload = got + 2
                \/ \E j \in DOMAIN w : /\ j < i /\ IsData(w[j], s)
                                       /\ w[j].payload = w[i].payload - 1
  <2>1. i + 1 \in DOMAIN wire /\ 1 \in DOMAIN wire /\ w[i] = wire[i + 1]
    BY <1>1
  <2>2. /\ w[i].payload \in (got + 1)..n
        /\ \/ w[i].payload = got + 1
           \/ \E j \in DOMAIN wire : /\ j < i + 1 /\ IsData(wire[j], s)
                                     /\ wire[j].payload = w[i].payload - 1
    BY <1>3, <2>1 DEF Chained
  <2>3. w[i].payload # got + 1
    <3>1. wire[i + 1].payload = wire[1].payload => i + 1 = 1
      BY <1>1, <1>3, <2>1 DEF Chained
    <3> QED BY <1>1, <1>2, <2>1, <3>1
  <2>4. PICK j \in DOMAIN wire : /\ j < i + 1 /\ IsData(wire[j], s)
                                 /\ wire[j].payload = w[i].payload - 1
    BY <2>2, <2>3
  <2>5. CASE j = 1
    BY <1>2, <2>2, <2>3, <2>4, <2>5
  <2>6. CASE j # 1
    <3>1. j - 1 \in DOMAIN w /\ j - 1 < i /\ w[j - 1] = wire[j]
      BY <1>1, <2>4, <2>6
    <3> QED BY <2>2, <2>3, <2>4, <3>1
  <2> QED BY <2>5, <2>6
<1>4. ASSUME NEW i \in DOMAIN w, NEW j \in DOMAIN w, IsData(w[i], s), IsData(w[j], s),
             w[i].payload = w[j].payload
      PROVE  i = j
  <2>1. i + 1 \in DOMAIN wire /\ j + 1 \in DOMAIN wire
    BY <1>1
  <2>2. i + 1 = j + 1
    BY <1>1, <1>4, <2>1 DEF Chained
  <2> QED BY <1>1, <2>2
<1>5. \/ n = got + 1
      \/ \E j \in DOMAIN w : IsData(w[j], s) /\ w[j].payload = n
  <2>1. PICK j \in DOMAIN wire : IsData(wire[j], s) /\ wire[j].payload = n
    BY <1>2 DEF Chained
  <2>2. CASE j = 1
    BY <1>2, <2>1, <2>2
  <2>3. CASE j # 1
    <3>1. j - 1 \in DOMAIN w /\ w[j - 1] = wire[j]
      BY <1>1, <2>3
    <3> QED BY <2>1, <3>1
  <2> QED BY <2>2, <2>3
<1>6. Chained(s, w, got + 1, n)
  BY <1>3, <1>4, <1>5 DEF Chained
<1> QED BY <1>1, <1>2, <1>6 DEF w

LEMMA ChainTailOther ==
    ASSUME NEW s \in Streams, NEW wire \in Seq(Frames), NEW got \in Nat, NEW n \in Nat,
           Chained(s, wire, got, n), wire # <<>>, ~IsData(Head(wire), s)
    PROVE  Chained(s, Tail(wire), got, n)
<1> DEFINE w == Tail(wire)
<1>1. /\ Len(wire) \in Nat \ {0} /\ DOMAIN wire = 1..Len(wire)
      /\ DOMAIN w = 1..(Len(wire) - 1)
      /\ \A i \in DOMAIN wire : wire[i] \in Frames
      /\ \A i \in DOMAIN w : w[i] = wire[i + 1]
      /\ Head(wire) = wire[1]
  BY WireTail
<1> HIDE DEF w
<1>2. \A j \in DOMAIN wire : IsData(wire[j], s) =>
         j - 1 \in DOMAIN w /\ w[j - 1] = wire[j]
  BY <1>1
<1>3. ASSUME NEW i \in DOMAIN w, IsData(w[i], s)
      PROVE  /\ w[i].payload \in (got + 1)..n
             /\ \/ w[i].payload = got + 1
                \/ \E j \in DOMAIN w : /\ j < i /\ IsData(w[j], s)
                                       /\ w[j].payload = w[i].payload - 1
  <2>1. i + 1 \in DOMAIN wire /\ w[i] = wire[i + 1]
    BY <1>1
  <2>2. /\ w[i].payload \in (got + 1)..n
        /\ \/ w[i].payload = got + 1
           \/ \E j \in DOMAIN wire : /\ j < i + 1 /\ IsData(wire[j], s)
                                     /\ wire[j].payload = w[i].payload - 1
    BY <1>3, <2>1 DEF Chained
  <2>3. ASSUME NEW j \in DOMAIN wire, j < i + 1, IsData(wire[j], s),
               wire[j].payload = w[i].payload - 1
        PROVE  \E k \in DOMAIN w : /\ k < i /\ IsData(w[k], s)
                                   /\ w[k].payload = w[i].payload - 1
    <3>1. j - 1 \in DOMAIN w /\ w[j - 1] = wire[j] /\ j - 1 < i
      BY <1>1, <1>2, <2>3
    <3> QED BY <2>3, <3>1
  <2> QED BY <2>2, <2>3
<1>4. ASSUME NEW i \in DOMAIN w, NEW j \in DOMAIN w, IsData(w[i], s), IsData(w[j], s),
             w[i].payload = w[j].payload
      PROVE  i = j
  <2>1. i + 1 \in DOMAIN wire /\ j + 1 \in DOMAIN wire
    BY <1>1
  <2>2. i + 1 = j + 1
    BY <1>1, <1>4, <2>1 DEF Chained
  <2> QED BY <1>1, <2>2
<1>5. \/ n = got
      \/ \E j \in DOMAIN w : IsData(w[j], s) /\ w[j].payload = n
  BY <1>2 DEF Chained
<1>6. Chained(s, w, got, n)
  BY <1>3, <1>4, <1>5 DEF Chained
<1> QED BY <1>6 DEF w

-----------------------------------------------------------------------------
(* Types.                                                                      *)

LEMMA TypeInit == Init => TypeOK
BY LimitsAssumption DEF Init, TypeOK, Frames

LEMMA TypeStep == ASSUME TypeOK, SentInv, [Next]_vars PROVE TypeOK'
<1> USE LimitsAssumption DEF TypeOK, goVars, wires, bridgeVars, streamVars, nodeVars,
                             traffic
<1>1. ASSUME BackendCloses \/ BackendSweeps PROVE TypeOK'
  BY <1>1 DEF BackendCloses, BackendSweeps, Swept
<1>2. ASSUME NEW s \in Streams, Register(s) \/ BrowserLeaves(s) PROVE TypeOK'
  <2>1. CASE Register(s)
    BY <2>1 DEF Register
  <2>2. CASE BrowserLeaves(s)
    BY <2>2 DEF BrowserLeaves
  <2> QED BY <1>2, <2>1, <2>2
<1>3. ASSUME NEW s \in Streams, WriteOpen(s) \/ WriteOpenFails(s) PROVE TypeOK'
  <2>1. Append(toNode, Open(s)) \in Seq(Frames)
    BY FrameFacts, WireAppend
  <2>2. CASE WriteOpen(s)
    <3>1. /\ writer' \in [Streams -> {"reading", "writing", "done"}]
          /\ reader' \in [Streams -> {"reading", "done"}]
      BY <2>2 DEF WriteOpen
    <3>2. toNode' \in Seq(Frames) /\ UNCHANGED <<goVars, toGo, streamVars, nodeVars, traffic>>
      BY <2>1, <2>2 DEF WriteOpen, Written
    <3>3. bridge' \in [Streams -> {"none", "opening", "running", "closing",
                                   "notifying", "draining", "done"}]
      BY <2>2 DEF WriteOpen
    <3> QED BY <3>1, <3>2, <3>3
  <2>3. CASE WriteOpenFails(s)
    BY <2>3 DEF WriteOpenFails, WriteFailed
  <2> QED BY <1>3, <2>2, <2>3
<1>4. ASSUME NEW s \in Streams, WriterReads(s) PROVE TypeOK'
  <2>1. browserSent[s] + 1 \in 0..MaxSent
    BY <1>4 DEF WriterReads
  <2>2. browserSent' \in [Streams -> 0..MaxSent]
    BY <1>4, <2>1 DEF WriterReads
  <2>3. writer' \in [Streams -> {"reading", "writing", "done"}]
    BY <1>4 DEF WriterReads
  <2>4. UNCHANGED <<goVars, wires, bridge, reader, streamVars, nodeVars, nodeGot,
                    nodeSent, browserGot>>
    BY <1>4 DEF WriterReads
  <2> QED BY <2>2, <2>3, <2>4
<1>5. ASSUME NEW s \in Streams, WriterStops(s) \/ ReaderStops(s) PROVE TypeOK'
  BY <1>5 DEF WriterStops, ReaderStops
<1>6. ASSUME NEW s \in Streams, WriterWrites(s) PROVE TypeOK'
  <2>1. browserSent[s] \in 1..MaxSent
    BY <1>6 DEF SentInv, WriterWrites
  <2>2. Append(toNode, Data(s, browserSent[s])) \in Seq(Frames)
    BY <2>1, FrameFacts, WireAppend
  <2> QED BY <1>6, <2>2 DEF WriterWrites, Written, WriteFailed
<1>7. ASSUME NEW s \in Streams, ReaderReads(s) PROVE TypeOK'
  <2>1. /\ incoming[s] \in Seq(1..MaxSent) /\ incoming[s] # <<>>
        /\ browserGot[s] \in Seq(1..MaxSent)
    BY <1>7 DEF ReaderReads
  <2>2. /\ Head(incoming[s]) \in 1..MaxSent /\ Tail(incoming[s]) \in Seq(1..MaxSent)
        /\ Len(Tail(incoming[s])) = Len(incoming[s]) - 1 /\ Len(incoming[s]) \in Nat
    BY <2>1, HeadTailProperties, LenProperties
  <2>3. Append(browserGot[s], Head(incoming[s])) \in Seq(1..MaxSent)
    BY <2>1, <2>2, AppendProperties
  <2>4. incoming' \in [Streams -> Seq(1..MaxSent)]
    BY <1>7, <2>2 DEF ReaderReads
  <2>5. \A t \in Streams : Len(incoming'[t]) <= QueueFrames
    BY <1>7, <2>2 DEF ReaderReads
  <2>6. browserGot' \in [Streams -> Seq(1..MaxSent)]
    BY <1>7, <2>3 DEF ReaderReads
  <2>7. UNCHANGED <<goVars, wires, bridgeVars, terminated, browser, nodeVars,
                    browserSent, nodeGot, nodeSent>>
    BY <1>7 DEF ReaderReads
  <2> QED BY <2>4, <2>5, <2>6, <2>7
<1>8. ASSUME NEW s \in Streams, BridgeCloses(s) \/ BridgeDeregisters(s) \/ BridgeDone(s)
      PROVE TypeOK'
  BY <1>8 DEF BridgeCloses, BridgeDeregisters, BridgeDone, AfterDeregister
<1>9. ASSUME NEW s \in Streams, BridgeNotifies(s) PROVE TypeOK'
  <2>1. Append(toNode, Close(s)) \in Seq(Frames)
    BY FrameFacts, WireAppend
  <2> QED BY <1>9, <2>1 DEF BridgeNotifies, Written, WriteFailed
<1>10. ASSUME LoopReads PROVE TypeOK'
  <2>1. toGo # <<>>
    BY <1>10 DEF LoopReads
  <2>2. Head(toGo) \in Frames /\ Tail(toGo) \in Seq(Frames)
    BY <2>1, WireTail
  <2> QED BY <1>10, <2>2 DEF LoopReads
<1>11. ASSUME LoopDelivers PROVE TypeOK'
  <2>1. loop.stream \in Streams /\ loop.payload \in 1..MaxSent
    BY <1>11 DEF LoopDelivers, Frames
  <2>2. /\ incoming[loop.stream] \in Seq(1..MaxSent)
        /\ Len(incoming[loop.stream]) < QueueFrames
    BY <1>11, <2>1 DEF LoopDelivers, Queues
  <2>3. /\ Enqueued(loop.stream) \in Seq(1..MaxSent)
        /\ Len(Enqueued(loop.stream)) = Len(incoming[loop.stream]) + 1
        /\ Len(incoming[loop.stream]) \in Nat
    BY <2>1, <2>2, AppendProperties, LenProperties DEF Enqueued
  <2>4. incoming' \in [Streams -> Seq(1..MaxSent)]
    BY <1>11, <2>1, <2>3 DEF LoopDelivers
  <2>5. \A t \in Streams : Len(incoming'[t]) <= QueueFrames
    <3>1. \A t \in Streams : incoming'[t] = IF t = loop.stream
                                           THEN Enqueued(loop.stream) ELSE incoming[t]
      BY <1>11 DEF LoopDelivers
    <3>2. Len(Enqueued(loop.stream)) <= QueueFrames
      BY <2>2, <2>3
    <3> QED BY <3>1, <3>2
  <2>6. loop' \in [type : {"reading", "stopped"}]
    BY <1>11 DEF LoopDelivers
  <2>7. UNCHANGED <<goConn, registered, wires, bridgeVars, terminated, browser,
                    nodeVars, traffic>>
    BY <1>11 DEF LoopDelivers
  <2> QED BY <2>4, <2>5, <2>6, <2>7
<1>12. ASSUME LoopRefuses PROVE TypeOK'
  <2>1. loop.stream \in Streams
    BY <1>12 DEF LoopRefuses, Frames
  <2> QED BY <1>12, <2>1 DEF LoopRefuses, AfterRefusal
<1>13. ASSUME LoopNotifies PROVE TypeOK'
  <2>1. loop.stream \in Streams
    BY <1>13 DEF LoopNotifies, Frames
  <2>2. Append(toNode, Close(loop.stream)) \in Seq(Frames)
    BY <2>1, FrameFacts, WireAppend
  <2> QED BY <1>13, <2>1, <2>2 DEF LoopNotifies, Written, WriteFailed
<1>14. ASSUME LoopCloses \/ LoopStops PROVE TypeOK'
  BY <1>14 DEF LoopCloses, LoopStops
<1>15. ASSUME NodeDispatches PROVE TypeOK'
  <2>1. toNode # <<>>
    BY <1>15 DEF NodeDispatches
  <2>2. Head(toNode) \in Frames /\ Tail(toNode) \in Seq(Frames)
    BY <2>1, WireTail
  <2>3. /\ Head(toNode).stream \in Streams
        /\ Head(toNode).type = "data" => Head(toNode).payload \in 1..MaxSent
    BY <2>2, FrameFacts
  <2>4. Head(toNode).type = "data" =>
          Append(nodeGot[Head(toNode).stream], Head(toNode).payload) \in Seq(1..MaxSent)
    BY <2>3, AppendProperties
  <2>5. nodeGot' \in [Streams -> Seq(1..MaxSent)]
    <3> DEFINE s == Head(toNode).stream  k == Head(toNode).payload
    <3>1. \/ nodeGot' = nodeGot
          \/ Head(toNode).type = "data" /\ nodeGot' = [nodeGot EXCEPT ![s] = Append(@, k)]
      BY <1>15 DEF NodeDispatches
    <3>2. s \in Streams /\ nodeGot \in [Streams -> Seq(1..MaxSent)]
      BY <2>3
    <3> HIDE DEF TypeOK
    <3> QED BY <2>4, <3>1, <3>2
  <2>6. /\ nodeSock' \in {"open", "destroyed", "closed"}
        /\ nodeStreams' \subseteq Streams /\ nodeDone' \subseteq Streams
    BY <1>15, <2>3 DEF NodeDispatches
  <2>7. /\ toNode' = Tail(toNode)
        /\ UNCHANGED <<goVars, toGo, bridgeVars, streamVars, browserSent, nodeSent,
                       browserGot>>
    BY <1>15 DEF NodeDispatches
  <2> QED BY <2>2, <2>5, <2>6, <2>7
<1>16. ASSUME NEW s \in Streams, NodeSends(s) PROVE TypeOK'
  <2>1. nodeSent[s] + 1 \in 1..MaxSent
    BY <1>16 DEF NodeSends
  <2>2. Append(toGo, Data(s, nodeSent[s] + 1)) \in Seq(Frames)
    BY <2>1, FrameFacts, WireAppend
  <2>3. nodeSent' \in [Streams -> 0..MaxSent]
    BY <1>16, <2>1 DEF NodeSends
  <2>4. toGo' \in Seq(Frames) /\ nodeSock' \in {"open", "destroyed", "closed"}
    BY <1>16, <2>2 DEF NodeSends, NodeWrites
  <2>5. UNCHANGED <<goVars, toNode, bridgeVars, streamVars, nodeStreams, nodeDone,
                    browserSent, nodeGot, browserGot>>
    BY <1>16 DEF NodeSends
  <2> QED BY <2>3, <2>4, <2>5
<1>17. ASSUME NEW s \in Streams, NodeClosesStream(s) PROVE TypeOK'
  <2>1. Append(toGo, Close(s)) \in Seq(Frames)
    BY FrameFacts, WireAppend
  <2> QED BY <1>17, <2>1 DEF NodeClosesStream, NodeWrites
<1>18. ASSUME NodeSocketCloses \/ UNCHANGED vars PROVE TypeOK'
  BY <1>18 DEF NodeSocketCloses, vars
<1> QED BY <1>1, <1>2, <1>3, <1>4, <1>5, <1>6, <1>7, <1>8, <1>9, <1>10, <1>11, <1>12,
           <1>13, <1>14, <1>15, <1>16, <1>17, <1>18
        DEF Next, BridgeStep, WriterStep, ReaderStep, LoopStep

-----------------------------------------------------------------------------
(* Streams that are not open yet.                                              *)

LEMMA AvoidsAppend ==
    ASSUME NEW w \in Seq(Frames), NEW f \in Frames, NEW t,
           Avoids(w, t), f.stream # t
    PROVE  Avoids(Append(w, f), t)
<1>1. ASSUME NEW i \in DOMAIN Append(w, f) PROVE Append(w, f)[i].stream # t
  BY WireAppend DEF Avoids
<1> QED BY <1>1 DEF Avoids

LEMMA AvoidsTail ==
    ASSUME NEW w \in Seq(Frames), w # <<>>, NEW t, Avoids(w, t)
    PROVE  Avoids(Tail(w), t) /\ Head(w).stream # t
<1>1. ASSUME NEW i \in DOMAIN Tail(w) PROVE Tail(w)[i].stream # t
  <2>1. i + 1 \in DOMAIN w /\ Tail(w)[i] = w[i + 1]
    BY WireTail
  <2> QED BY <2>1 DEF Avoids
<1>2. Head(w).stream # t
  BY WireTail DEF Avoids
<1> QED BY <1>1, <1>2 DEF Avoids

LEMMA FreshInit == Init => FreshInv
BY DEF Init, FreshInv, Untouched, LoopIdle, Avoids

LEMMA FreshStep == ASSUME TypeOK, SentInv, FreshInv, [Next]_vars PROVE FreshInv'
<1> SUFFICES ASSUME NEW t \in Streams, bridge'[t] \in {"none", "opening"}
             PROVE  /\ Untouched(t)'
                    /\ bridge'[t] = "none" => t \notin registered'
                    /\ bridge'[t] = "opening" /\ goConn' = "open" => t \in registered'
  BY DEF FreshInv
<1> DEFINE Goal == /\ Untouched(t)'
                   /\ bridge'[t] = "none" => t \notin registered'
                   /\ bridge'[t] = "opening" /\ goConn' = "open" => t \in registered'
           Kept == /\ Untouched(t) /\ bridge'[t] = bridge[t]
                   /\ bridge[t] = "none" => t \notin registered
                   /\ bridge[t] = "opening" /\ goConn = "open" => t \in registered
<1> USE DEF goVars, wires, bridgeVars, streamVars, nodeVars, traffic
<1> HIDE DEF Goal, Kept
<1>a. bridge[t] = bridge'[t] => Kept
  BY DEF FreshInv, Kept
<1>b. bridge \in [Streams -> {"none", "opening", "running", "closing",
                              "notifying", "draining", "done"}]
  BY DEF TypeOK
<1>1. ASSUME BackendCloses \/ BackendSweeps PROVE Goal
  <2>1. Kept
    BY <1>1, <1>a DEF BackendCloses, BackendSweeps
  <2> QED BY <1>1, <2>1
          DEF BackendCloses, BackendSweeps, Goal, Kept, Untouched, LoopIdle
<1>2. ASSUME NEW s \in Streams, Register(s) PROVE Goal
  <2>1. bridge[t] \in {"none", "opening"}
    BY <1>2, <1>b DEF Register
  <2>2. /\ Untouched(t)
        /\ bridge[t] = "none" => t \notin registered
        /\ bridge[t] = "opening" => t \in registered
    BY <1>2, <2>1 DEF FreshInv, Register
  <2>3. Untouched(t)'
    BY <1>2, <2>2 DEF Register, Untouched, LoopIdle
  <2>4. CASE t = s
    BY <1>2, <1>b, <2>3, <2>4 DEF Register, Goal
  <2>5. CASE t # s
    BY <1>2, <1>b, <2>2, <2>3, <2>5 DEF Register, Goal
  <2> QED BY <2>4, <2>5
<1>3. ASSUME NEW s \in Streams, BrowserLeaves(s) PROVE Goal
  <2>1. Kept
    BY <1>3, <1>a DEF BrowserLeaves
  <2> QED BY <1>3, <2>1 DEF BrowserLeaves, Goal, Kept, Untouched, LoopIdle
<1>4. ASSUME NEW s \in Streams, WriteOpen(s) \/ WriteOpenFails(s) PROVE Goal
  <2>1. t # s /\ Kept
    BY <1>4, <1>a, <1>b DEF WriteOpen, WriteOpenFails
  <2>2. Avoids(Append(toNode, Open(s)), t)
    BY <2>1, FrameFacts, AvoidsAppend DEF Kept, Untouched, TypeOK
  <2>3. /\ writer'[t] = writer[t] /\ reader'[t] = reader[t]
        /\ t \in registered' <=> t \in registered
    BY <1>4, <2>1 DEF WriteOpen, WriteOpenFails, TypeOK
  <2>5. Avoids(toNode, t) /\ (toNode' = toNode \/ toNode' = Append(toNode, Open(s)))
    BY <1>4, <2>1 DEF WriteOpen, WriteOpenFails, Written, WriteFailed, Kept, Untouched
  <2>6. Avoids(toNode', t)
    BY <2>2, <2>5
  <2>4. UNCHANGED <<goConn, loop, toGo, incoming, nodeVars, traffic>>
    BY <1>4 DEF WriteOpen, WriteOpenFails
  <2> QED BY <2>1, <2>3, <2>4, <2>6 DEF Goal, Kept, Untouched, LoopIdle
<1>5. ASSUME NEW s \in Streams, WriterReads(s) \/ WriterStops(s) \/ ReaderStops(s)
      PROVE Goal
  <2>1. Kept
    BY <1>5, <1>a DEF WriterReads, WriterStops, ReaderStops
  <2>2. t # s
    BY <1>5, <2>1 DEF WriterReads, WriterStops, ReaderStops, Kept, Untouched
  <2>3. /\ writer'[t] = writer[t] /\ reader'[t] = reader[t]
        /\ browserSent'[t] = browserSent[t]
    BY <1>5, <2>2 DEF WriterReads, WriterStops, ReaderStops, TypeOK
  <2>4. UNCHANGED <<goVars, wires, incoming, nodeVars, nodeGot, nodeSent, browserGot>>
    BY <1>5 DEF WriterReads, WriterStops, ReaderStops
  <2> QED BY <2>1, <2>3, <2>4 DEF Goal, Kept, Untouched, LoopIdle
<1>6. ASSUME NEW s \in Streams, WriterWrites(s) PROVE Goal
  <2>1. Kept
    BY <1>6, <1>a DEF WriterWrites
  <2>2. t # s
    BY <1>6, <2>1 DEF WriterWrites, Kept, Untouched
  <2>3. browserSent[s] \in 1..MaxSent
    BY <1>6 DEF SentInv, WriterWrites, TypeOK
  <2>4. Avoids(Append(toNode, Data(s, browserSent[s])), t)
    <3>1. Avoids(toNode, t) /\ toNode \in Seq(Frames)
      BY <2>1 DEF Kept, Untouched, TypeOK
    <3>2. Data(s, browserSent[s]) \in Frames /\ Data(s, browserSent[s]).stream # t
      BY <2>2, <2>3, FrameFacts
    <3> QED BY <3>1, <3>2, AvoidsAppend
  <2>5. writer'[t] = writer[t] /\ Avoids(toNode', t)
    <3>1. /\ Avoids(toNode, t)
          /\ toNode' = toNode \/ toNode' = Append(toNode, Data(s, browserSent[s]))
      BY <1>6, <2>1 DEF WriterWrites, Written, WriteFailed, Kept, Untouched
    <3>2. writer'[t] = writer[t]
      BY <1>6, <2>2 DEF WriterWrites, TypeOK
    <3> QED BY <2>4, <3>1, <3>2
  <2>6. UNCHANGED <<goVars, toGo, reader, incoming, nodeVars, traffic>>
    BY <1>6 DEF WriterWrites
  <2> QED BY <2>1, <2>5, <2>6 DEF Goal, Kept, Untouched, LoopIdle
<1>7. ASSUME NEW s \in Streams, ReaderReads(s) PROVE Goal
  <2>1. Kept
    BY <1>7, <1>a DEF ReaderReads
  <2>2. t # s
    BY <1>7, <2>1 DEF ReaderReads, Kept, Untouched
  <2>3. incoming'[t] = incoming[t] /\ browserGot'[t] = browserGot[t]
    BY <1>7, <2>2 DEF ReaderReads, TypeOK
  <2>4. UNCHANGED <<goVars, wires, bridgeVars, nodeVars, browserSent, nodeGot, nodeSent>>
    BY <1>7 DEF ReaderReads
  <2> QED BY <2>1, <2>3, <2>4 DEF Goal, Kept, Untouched, LoopIdle
<1>8. ASSUME NEW s \in Streams,
             BridgeCloses(s) \/ BridgeDeregisters(s) \/ BridgeNotifies(s) \/ BridgeDone(s)
      PROVE Goal
  <2>1. t # s /\ Kept
    BY <1>8, <1>a, <1>b DEF BridgeCloses, BridgeDeregisters, BridgeNotifies, BridgeDone,
                            AfterDeregister
  <2>2. Avoids(Append(toNode, Close(s)), t)
    BY <2>1, FrameFacts, AvoidsAppend DEF Kept, Untouched, TypeOK
  <2>3. /\ t \in registered' <=> t \in registered
        /\ Avoids(toNode', t)
    BY <1>8, <2>1, <2>2 DEF BridgeCloses, BridgeDeregisters, BridgeNotifies, BridgeDone,
                            Written, WriteFailed, Kept, Untouched
  <2>4. UNCHANGED <<goConn, loop, toGo, writer, reader, incoming, nodeVars, traffic>>
    BY <1>8 DEF BridgeCloses, BridgeDeregisters, BridgeNotifies, BridgeDone
  <2> QED BY <2>1, <2>3, <2>4 DEF Goal, Kept, Untouched, LoopIdle
<1>9. ASSUME LoopReads PROVE Goal
  <2>1. Kept
    BY <1>9, <1>a DEF LoopReads
  <2>2. toGo # <<>> /\ toGo' = Tail(toGo)
    BY <1>9 DEF LoopReads
  <2>3. Avoids(toGo', t) /\ Head(toGo).stream # t
    BY <2>1, <2>2, AvoidsTail DEF Kept, Untouched, TypeOK
  <2>4. (LoopIdle \/ loop.stream # t)' /\ (goConn' = "open" => goConn = "open")
    BY <1>9, <2>3 DEF LoopReads, LoopIdle
  <2>5. UNCHANGED <<registered, toNode, bridgeVars, incoming, nodeVars, traffic>>
    BY <1>9 DEF LoopReads
  <2> QED BY <2>1, <2>3, <2>4, <2>5 DEF Goal, Kept, Untouched
<1>10. ASSUME LoopDelivers \/ LoopRefuses \/ LoopNotifies \/ LoopCloses PROVE Goal
  <2>1. Kept
    BY <1>10, <1>a DEF LoopDelivers, LoopRefuses, LoopNotifies, LoopCloses
  <2>2. loop.stream # t /\ loop.stream \in Streams
    BY <1>10, <2>1 DEF LoopDelivers, LoopRefuses, LoopNotifies, LoopCloses, LoopIdle,
                      Kept, Untouched, TypeOK, Frames
  <2>3. Avoids(Append(toNode, Close(loop.stream)), t)
    BY <2>1, <2>2, FrameFacts, AvoidsAppend DEF Kept, Untouched, TypeOK
  <2>4. Avoids(toNode', t)
    <3>1. Avoids(toNode, t)
      BY <2>1 DEF Kept, Untouched
    <3>2. toNode' = toNode \/ toNode' = Append(toNode, Close(loop.stream))
      BY <1>10 DEF LoopDelivers, LoopRefuses, LoopNotifies, LoopCloses, Written, WriteFailed
    <3> QED BY <2>3, <3>1, <3>2
  <2>5. incoming'[t] = incoming[t]
    <3>1. CASE LoopDelivers
      <4>1. incoming \in [Streams -> Seq(1..MaxSent)]
        BY DEF TypeOK
      <4> QED BY <2>2, <3>1, <4>1 DEF LoopDelivers
    <3>2. CASE LoopRefuses \/ LoopNotifies \/ LoopCloses
      BY <3>2 DEF LoopRefuses, LoopNotifies, LoopCloses
    <3> QED BY <1>10, <3>1, <3>2
  <2>8. t \in registered' <=> t \in registered
    BY <1>10, <2>2 DEF LoopDelivers, LoopRefuses, LoopNotifies, LoopCloses
  <2>6. (LoopIdle \/ loop.stream # t)'
    BY <1>10, <2>2 DEF LoopDelivers, LoopRefuses, LoopNotifies, LoopCloses,
                       AfterRefusal, LoopIdle
  <2>7. UNCHANGED <<goConn, toGo, bridgeVars, nodeVars, traffic>>
    BY <1>10 DEF LoopDelivers, LoopRefuses, LoopNotifies, LoopCloses
  <2> QED BY <2>1, <2>4, <2>5, <2>6, <2>7, <2>8 DEF Goal, Kept, Untouched
<1>11. ASSUME LoopStops PROVE Goal
  <2>1. Kept
    BY <1>11, <1>a DEF LoopStops
  <2> QED BY <1>11, <2>1 DEF LoopStops, Goal, Kept, Untouched, LoopIdle
<1>12. ASSUME NodeDispatches PROVE Goal
  <2>1. Kept
    BY <1>12, <1>a DEF NodeDispatches
  <2>2. toNode # <<>> /\ toNode' = Tail(toNode)
    BY <1>12 DEF NodeDispatches
  <2>3. Avoids(toNode', t) /\ Head(toNode).stream # t
    BY <2>1, <2>2, AvoidsTail DEF Kept, Untouched, TypeOK
  <2>4. /\ t \notin nodeStreams' /\ t \notin nodeDone'
        /\ nodeGot'[t] = nodeGot[t]
    BY <1>12, <2>1, <2>3 DEF NodeDispatches, Kept, Untouched, TypeOK
  <2>5. UNCHANGED <<goVars, toGo, bridgeVars, streamVars, browserSent, nodeSent,
                    browserGot>>
    BY <1>12 DEF NodeDispatches
  <2> QED BY <2>1, <2>3, <2>4, <2>5 DEF Goal, Kept, Untouched, LoopIdle
<1>13. ASSUME NEW s \in Streams, NodeSends(s) PROVE Goal
  <2>1. Kept
    BY <1>13, <1>a DEF NodeSends
  <2>2. t # s
    BY <1>13, <2>1 DEF NodeSends, Kept, Untouched
  <2>6. nodeSent[s] + 1 \in 1..MaxSent
    <3>1. nodeSent[s] \in 0..MaxSent
      BY DEF TypeOK
    <3>2. nodeSent[s] < MaxSent
      BY <1>13 DEF NodeSends
    <3> QED BY <3>1, <3>2, LimitsAssumption
  <2>3. Avoids(toGo, t) /\ Avoids(Append(toGo, Data(s, nodeSent[s] + 1)), t)
    <3>1. Avoids(toGo, t) /\ toGo \in Seq(Frames)
      BY <2>1 DEF Kept, Untouched, TypeOK
    <3>2. /\ Data(s, nodeSent[s] + 1) \in Frames
          /\ Data(s, nodeSent[s] + 1).stream # t
      BY <2>2, <2>6, FrameFacts
    <3> QED BY <3>1, <3>2, AvoidsAppend
  <2>4. Avoids(toGo', t) /\ nodeSent'[t] = nodeSent[t]
    <3>1. toGo' = toGo \/ toGo' = Append(toGo, Data(s, nodeSent[s] + 1))
      BY <1>13 DEF NodeSends, NodeWrites
    <3>2. nodeSent'[t] = nodeSent[t]
      BY <1>13, <2>2 DEF NodeSends, TypeOK
    <3> QED BY <2>3, <3>1, <3>2
  <2>5. UNCHANGED <<goVars, toNode, bridgeVars, streamVars, nodeStreams,
                    nodeDone, browserSent, nodeGot, browserGot>>
    BY <1>13 DEF NodeSends
  <2> QED BY <2>1, <2>4, <2>5 DEF Goal, Kept, Untouched, LoopIdle
<1>14. ASSUME NEW s \in Streams, NodeClosesStream(s) PROVE Goal
  <2>1. Kept
    BY <1>14, <1>a DEF NodeClosesStream
  <2>2. t # s
    BY <1>14, <2>1 DEF NodeClosesStream, Kept, Untouched
  <2>3. Avoids(Append(toGo, Close(s)), t)
    BY <2>1, <2>2, FrameFacts, AvoidsAppend DEF Kept, Untouched, TypeOK
  <2>4. /\ Avoids(toGo', t)
        /\ t \notin nodeStreams' /\ t \notin nodeDone'
    BY <1>14, <2>1, <2>2, <2>3 DEF NodeClosesStream, NodeWrites, Kept, Untouched
  <2>5. UNCHANGED <<goVars, toNode, bridgeVars, streamVars, traffic>>
    BY <1>14 DEF NodeClosesStream
  <2> QED BY <2>1, <2>4, <2>5 DEF Goal, Kept, Untouched, LoopIdle
<1>15. ASSUME NodeSocketCloses \/ UNCHANGED vars PROVE Goal
  <2>1. Kept
    BY <1>15, <1>a DEF NodeSocketCloses, vars
  <2> QED BY <1>15, <2>1 DEF NodeSocketCloses, vars, Goal, Kept, Untouched, LoopIdle
<1> QED BY <1>1, <1>2, <1>3, <1>4, <1>5, <1>6, <1>7, <1>8, <1>9, <1>10, <1>11, <1>12,
           <1>13, <1>14, <1>15
        DEF Next, BridgeStep, WriterStep, ReaderStep, LoopStep, Goal

-----------------------------------------------------------------------------
(* Browser to Node.                                                            *)

\* A step of the wire that neither adds nor takes data of the stream.
Quiet(s, w, v) ==
    \/ v = w
    \/ \E f \in Frames : ~IsData(f, s) /\ v = Append(w, f)
    \/ w # <<>> /\ ~IsData(Head(w), s) /\ v = Tail(w)

LEMMA ChainQuiet ==
    ASSUME NEW s \in Streams, NEW w \in Seq(Frames), NEW v, NEW got \in Nat, NEW n \in Nat,
           Chained(s, w, got, n), Quiet(s, w, v)
    PROVE  Chained(s, v, got, n)
BY ChainAppendOther, ChainTailOther DEF Quiet

LEMMA AvoidsChain ==
    ASSUME NEW s \in Streams, NEW w \in Seq(Frames), Avoids(w, s)
    PROVE  Chained(s, w, 0, 0)
<1>1. \A i \in DOMAIN w : ~IsData(w[i], s)
  BY DEF Avoids, IsData
<1> QED BY <1>1, ChainEmpty

LEMMA SentInit == Init => SentInv
BY DEF Init, SentInv

LEMMA SentStep == ASSUME TypeOK, SentInv, [Next]_vars PROVE SentInv'
<1> SUFFICES ASSUME NEW t \in Streams, writer'[t] = "writing"
             PROVE  browserSent'[t] # 0
  BY DEF SentInv
<1> USE DEF goVars, wires, bridgeVars, streamVars, nodeVars, traffic
<1>a. /\ writer \in [Streams -> {"reading", "writing", "done"}]
      /\ browserSent \in [Streams -> 0..MaxSent]
  BY DEF TypeOK
<1>b. writer[t] = "writing" => browserSent[t] # 0
  BY DEF SentInv
<1>1. ASSUME NEW s \in Streams, WriterReads(s) PROVE browserSent'[t] # 0
  BY <1>1, <1>a, <1>b DEF WriterReads
<1>2. ASSUME NEW s \in Streams, WriteOpen(s) \/ WriterWrites(s) \/ WriterStops(s)
      PROVE  browserSent'[t] # 0
  BY <1>2, <1>a, <1>b DEF WriteOpen, WriterWrites, WriterStops
<1>3. ASSUME UNCHANGED <<writer, browserSent>> PROVE browserSent'[t] # 0
  BY <1>3, <1>b
<1>4. ASSUME NEW s \in Streams,
             \/ Register(s) \/ BrowserLeaves(s) \/ WriteOpenFails(s) \/ BridgeCloses(s)
             \/ BridgeDeregisters(s) \/ BridgeNotifies(s) \/ BridgeDone(s)
             \/ ReaderStep(s) \/ NodeSends(s) \/ NodeClosesStream(s)
      PROVE  UNCHANGED <<writer, browserSent>>
  BY <1>4 DEF Register, BrowserLeaves, WriteOpenFails, BridgeCloses, BridgeDeregisters,
              BridgeNotifies, BridgeDone, ReaderStep, ReaderReads, ReaderStops, NodeSends,
              NodeClosesStream
<1>5. ASSUME \/ BackendCloses \/ BackendSweeps \/ LoopStep \/ NodeDispatches
             \/ NodeSocketCloses \/ UNCHANGED vars
      PROVE  UNCHANGED <<writer, browserSent>>
  BY <1>5 DEF BackendCloses, BackendSweeps, LoopStep, LoopReads, LoopDelivers, LoopRefuses,
              LoopNotifies, LoopCloses, LoopStops, NodeDispatches, NodeSocketCloses, vars
<1> QED BY <1>1, <1>2, <1>3, <1>4, <1>5 DEF Next, BridgeStep, WriterStep

\* What is written for a stream stays a chain when nothing of it moves.
LEMMA UpQuiet ==
    ASSUME TypeOK, UpInv, nodeSock = "open", NEW t \in Streams,
           browserSent'[t] = browserSent[t], nodeGot'[t] = nodeGot[t],
           writer'[t] \in {writer[t], "done"}, Quiet(t, toNode, toNode')
    PROVE  \E n \in 0..browserSent'[t] : WrittenUpTo(t, n)'
<1>1. /\ toNode \in Seq(Frames) /\ browserSent[t] \in Nat
      /\ Len(nodeGot[t]) \in Nat
  BY LenProperties DEF TypeOK
<1>2. PICK n \in 0..browserSent[t] : WrittenUpTo(t, n)
  BY DEF UpInv
<1>3. Chained(t, toNode', Len(nodeGot[t]), n)
  BY <1>1, <1>2, ChainQuiet DEF WrittenUpTo
<1>4. /\ writer'[t] = "reading" => n = browserSent'[t]
      /\ writer'[t] = "writing" => n = browserSent'[t] - 1
  BY <1>2 DEF WrittenUpTo
<1>5. Chained(t, toNode', Len(nodeGot'[t]), n)
  BY <1>3
<1>6. WrittenUpTo(t, n)'
  BY <1>4, <1>5 DEF WrittenUpTo
<1> QED BY <1>6

LEMMA UpInit == Init => UpInv
<1> SUFFICES ASSUME Init, NEW s \in Streams PROVE \E n \in 0..browserSent[s] : WrittenUpTo(s, n)
  BY DEF UpInv
<1>1. /\ toNode = <<>> /\ nodeGot[s] = <<>> /\ writer[s] = "done" /\ browserSent[s] = 0
  BY DEF Init
<1>2. Chained(s, toNode, Len(nodeGot[s]), 0)
  BY <1>1 DEF Chained
<1>3. WrittenUpTo(s, 0) /\ 0 \in 0..browserSent[s]
  BY <1>1, <1>2 DEF WrittenUpTo
<1> QED BY <1>3


LEMMA UpStep == ASSUME TypeOK, SentInv, FreshInv, UpInv, [Next]_vars PROVE UpInv'
<1> SUFFICES ASSUME nodeSock' = "open", NEW t \in Streams
             PROVE  \E n \in 0..browserSent'[t] : WrittenUpTo(t, n)'
  BY DEF UpInv
<1> DEFINE Goal == \E n \in 0..browserSent'[t] : WrittenUpTo(t, n)'
<1> HIDE DEF Goal
<1> USE DEF goVars, wires, bridgeVars, streamVars, nodeVars, traffic
<1>t. /\ writer \in [Streams -> {"reading", "writing", "done"}]
      /\ browserSent \in [Streams -> 0..MaxSent]
      /\ nodeGot \in [Streams -> Seq(1..MaxSent)]
      /\ toNode \in Seq(Frames) /\ Len(nodeGot[t]) \in Nat
  BY LenProperties DEF TypeOK
<1>q. ASSUME nodeSock = "open", browserSent'[t] = browserSent[t],
             nodeGot'[t] = nodeGot[t], writer'[t] \in {writer[t], "done"},
             Quiet(t, toNode, toNode')
      PROVE  Goal
  BY <1>q, UpQuiet DEF Goal
<1>k. ASSUME nodeSock = "open", UNCHANGED <<browserSent, nodeGot, toNode>>,
             writer'[t] \in {writer[t], "done"}
      PROVE  Goal
  BY <1>k, <1>q DEF Quiet
<1>1. ASSUME \/ BackendCloses \/ BackendSweeps \/ NodeSocketCloses \/ UNCHANGED vars
             \/ LoopReads \/ LoopDelivers \/ LoopRefuses \/ LoopCloses \/ LoopStops
      PROVE  Goal
  <2>1. nodeSock = "open" /\ UNCHANGED <<browserSent, nodeGot, toNode, writer>>
    BY <1>1 DEF BackendCloses, BackendSweeps, NodeSocketCloses, vars, LoopReads,
                LoopDelivers, LoopRefuses, LoopCloses, LoopStops
  <2> QED BY <2>1, <1>k
<1>2. ASSUME NEW s \in Streams,
             \/ Register(s) \/ BrowserLeaves(s) \/ WriteOpenFails(s) \/ BridgeCloses(s)
             \/ BridgeDeregisters(s) \/ BridgeDone(s) \/ ReaderReads(s) \/ ReaderStops(s)
             \/ NodeSends(s) \/ NodeClosesStream(s)
      PROVE  Goal
  <2>1. nodeSock = "open" /\ UNCHANGED <<browserSent, nodeGot, toNode, writer>>
    BY <1>2 DEF Register, BrowserLeaves, WriteOpenFails, WriteFailed, BridgeCloses,
                BridgeDeregisters, BridgeDone, ReaderReads, ReaderStops, NodeSends,
                NodeClosesStream
  <2> QED BY <2>1, <1>k
<1>3. ASSUME NEW s \in Streams, WriterStops(s) PROVE Goal
  <2>1. nodeSock = "open" /\ UNCHANGED <<browserSent, nodeGot, toNode>>
    BY <1>3 DEF WriterStops
  <2>2. writer'[t] \in {writer[t], "done"}
    BY <1>3, <1>t DEF WriterStops
  <2> QED BY <2>1, <2>2, <1>k
<1>4. ASSUME NEW s \in Streams, BridgeNotifies(s) PROVE Goal
  <2>1. nodeSock = "open" /\ UNCHANGED <<browserSent, nodeGot, writer>>
    BY <1>4 DEF BridgeNotifies
  <2>2. Close(s) \in Frames /\ ~IsData(Close(s), t)
    BY FrameFacts DEF IsData, Close
  <2>3. toNode' = toNode \/ toNode' = Append(toNode, Close(s))
    BY <1>4 DEF BridgeNotifies, Written, WriteFailed
  <2>4. Quiet(t, toNode, toNode')
    BY <2>2, <2>3 DEF Quiet
  <2> QED BY <2>1, <2>4, <1>q
<1>5. ASSUME LoopNotifies PROVE Goal
  <2>1. nodeSock = "open" /\ UNCHANGED <<browserSent, nodeGot, writer>>
    BY <1>5 DEF LoopNotifies
  <2>2. loop.stream \in Streams
    BY <1>5 DEF LoopNotifies, TypeOK, Frames
  <2>3. Close(loop.stream) \in Frames /\ ~IsData(Close(loop.stream), t)
    BY <2>2, FrameFacts DEF IsData, Close
  <2>4. toNode' = toNode \/ toNode' = Append(toNode, Close(loop.stream))
    BY <1>5 DEF LoopNotifies, Written, WriteFailed
  <2>5. Quiet(t, toNode, toNode')
    BY <2>3, <2>4 DEF Quiet
  <2> QED BY <2>1, <2>5, <1>q
<1>6. ASSUME NEW s \in Streams, WriteOpen(s) PROVE Goal
  <2>1. /\ nodeSock = "open" /\ UNCHANGED <<browserSent, nodeGot>>
        /\ toNode' = Append(toNode, Open(s))
        /\ writer' = [writer EXCEPT ![s] = "reading"]
    BY <1>6 DEF WriteOpen, Written
  <2>2. Open(s) \in Frames /\ ~IsData(Open(s), t)
    BY FrameFacts DEF IsData, Open
  <2>3. Quiet(t, toNode, toNode')
    BY <2>1, <2>2 DEF Quiet
  <2>4. CASE t # s
    <3>1. writer'[t] = writer[t]
      BY <1>t, <2>1, <2>4
    <3> QED BY <2>1, <2>3, <3>1, <1>q
  <2>5. CASE t = s
    <3>1. Untouched(t)
      BY <1>6, <2>5 DEF WriteOpen, FreshInv
    <3>2. Avoids(toNode, t) /\ browserSent[t] = 0 /\ Len(nodeGot[t]) = 0
      BY <3>1 DEF Untouched
    <3>3. Chained(t, toNode', 0, 0)
      BY <1>t, <2>3, <3>2, AvoidsChain, ChainQuiet
    <3>4. writer'[t] = "reading"
      BY <1>t, <2>1, <2>5
    <3>5. Len(nodeGot'[t]) = 0 /\ browserSent'[t] = 0
      BY <2>1, <3>2
    <3>6. WrittenUpTo(t, 0)'
      BY <3>3, <3>4, <3>5 DEF WrittenUpTo
    <3> QED BY <3>5, <3>6 DEF Goal
  <2> QED BY <2>4, <2>5
<1>7. ASSUME NEW s \in Streams, WriterReads(s) PROVE Goal
  <2>1. /\ nodeSock = "open" /\ UNCHANGED <<nodeGot, toNode>>
        /\ writer[s] = "reading" /\ writer' = [writer EXCEPT ![s] = "writing"]
        /\ browserSent' = [browserSent EXCEPT ![s] = @ + 1]
    BY <1>7 DEF WriterReads
  <2>2. CASE t # s
    <3>1. writer'[t] = writer[t] /\ browserSent'[t] = browserSent[t]
      BY <1>t, <2>1, <2>2
    <3>2. Quiet(t, toNode, toNode')
      BY <2>1 DEF Quiet
    <3> QED BY <2>1, <3>1, <3>2, <1>q
  <2>3. CASE t = s
    <3>1. PICK n \in 0..browserSent[t] : WrittenUpTo(t, n)
      BY <2>1 DEF UpInv
    <3>2. n = browserSent[t] /\ Chained(t, toNode, Len(nodeGot[t]), n)
      BY <2>1, <2>3, <3>1 DEF WrittenUpTo
    <3>3. writer'[t] = "writing" /\ browserSent'[t] = browserSent[t] + 1
      BY <1>t, <2>1, <2>3
    <3>4. n = browserSent'[t] - 1 /\ n \in 0..browserSent'[t]
      <4>1. browserSent[t] \in Nat
        BY <1>t
      <4> QED BY <3>2, <3>3, <4>1
    <3>5. Chained(t, toNode', Len(nodeGot'[t]), n)
      BY <2>1, <3>2
    <3>6. WrittenUpTo(t, n)'
      BY <3>3, <3>4, <3>5 DEF WrittenUpTo
    <3> QED BY <3>4, <3>6 DEF Goal
  <2> QED BY <2>2, <2>3
<1>8. ASSUME NEW s \in Streams, WriterWrites(s) PROVE Goal
  <2>1. /\ nodeSock = "open" /\ UNCHANGED <<nodeGot, browserSent>>
        /\ writer[s] = "writing"
        /\ \/ /\ toNode' = Append(toNode, Data(s, browserSent[s]))
              /\ writer' = [writer EXCEPT ![s] = "reading"]
           \/ toNode' = toNode /\ writer' = [writer EXCEPT ![s] = "done"]
    BY <1>8 DEF WriterWrites, Written, WriteFailed
  <2>2. browserSent[s] \in 1..MaxSent
    BY <1>t, <2>1 DEF SentInv
  <2>3. Data(s, browserSent[s]) \in Frames /\ (t # s => ~IsData(Data(s, browserSent[s]), t))
    BY <2>2, FrameFacts DEF IsData
  <2>4. CASE toNode' = toNode /\ writer' = [writer EXCEPT ![s] = "done"]
    <3>1. writer'[t] \in {writer[t], "done"}
      BY <1>t, <2>4
    <3> QED BY <2>1, <2>4, <3>1, <1>k
  <2>5. CASE /\ toNode' = Append(toNode, Data(s, browserSent[s]))
             /\ writer' = [writer EXCEPT ![s] = "reading"]
    <3>1. CASE t # s
      <4>1. writer'[t] = writer[t]
        BY <1>t, <2>5, <3>1
      <4>2. Quiet(t, toNode, toNode')
        BY <2>3, <2>5, <3>1 DEF Quiet
      <4> QED BY <2>1, <4>1, <4>2, <1>q
    <3>2. CASE t = s
      <4>1. PICK n \in 0..browserSent[t] : WrittenUpTo(t, n)
        BY <2>1 DEF UpInv
      <4>2. n = browserSent[t] - 1 /\ Chained(t, toNode, Len(nodeGot[t]), n)
        BY <2>1, <3>2, <4>1 DEF WrittenUpTo
      <4>3. n + 1 = browserSent[t] /\ n + 1 \in 1..MaxSent /\ n \in Nat
        BY <2>2, <3>2, <4>2
      <4>4. Chained(t, Append(toNode, Data(t, n + 1)), Len(nodeGot[t]), n + 1)
        BY <1>t, <4>2, <4>3, ChainAppendData
      <4>5. Chained(t, toNode', Len(nodeGot'[t]), n + 1)
        BY <2>1, <2>5, <3>2, <4>3, <4>4
      <4>6. writer'[t] = "reading" /\ n + 1 = browserSent'[t]
        BY <1>t, <2>1, <2>5, <3>2, <4>3
      <4>7. WrittenUpTo(t, n + 1)'
        BY <4>5, <4>6 DEF WrittenUpTo
      <4> QED BY <4>3, <4>6, <4>7 DEF Goal
    <3> QED BY <3>1, <3>2
  <2> QED BY <2>1, <2>4, <2>5
<1>9. ASSUME NodeDispatches PROVE Goal
  <2>1. /\ nodeSock = "open" /\ toNode # <<>> /\ toNode' = Tail(toNode)
        /\ UNCHANGED <<browserSent, writer>>
    BY <1>9 DEF NodeDispatches
  <2>2. Head(toNode) \in Frames
    BY <1>t, <2>1, WireTail
  <2>3. CASE ~IsData(Head(toNode), t)
    <3>1. nodeGot'[t] = nodeGot[t]
      BY <1>9, <1>t, <2>3 DEF NodeDispatches, IsData
    <3>2. Quiet(t, toNode, toNode')
      BY <2>1, <2>3 DEF Quiet
    <3> QED BY <2>1, <3>1, <3>2, <1>q
  <2>4. CASE IsData(Head(toNode), t)
    <3>1. Head(toNode).payload \in 1..MaxSent
      BY <2>2, <2>4, FrameFacts DEF IsData
    <3>2. nodeGot'[t] = Append(nodeGot[t], Head(toNode).payload)
      BY <1>9, <1>t, <2>4 DEF NodeDispatches, IsData
    <3>3. Len(nodeGot'[t]) = Len(nodeGot[t]) + 1
      BY <1>t, <3>1, <3>2, AppendProperties
    <3>4. PICK n \in 0..browserSent[t] : WrittenUpTo(t, n)
      BY <2>1 DEF UpInv
    <3>5. Chained(t, Tail(toNode), Len(nodeGot[t]) + 1, n)
      BY <1>t, <2>1, <2>4, <3>4, ChainTailData DEF WrittenUpTo
    <3>6. Chained(t, toNode', Len(nodeGot'[t]), n)
      BY <2>1, <3>3, <3>5
    <3>7. /\ writer'[t] = "reading" => n = browserSent'[t]
          /\ writer'[t] = "writing" => n = browserSent'[t] - 1
      BY <2>1, <3>4 DEF WrittenUpTo
    <3>8. WrittenUpTo(t, n)'
      BY <3>6, <3>7 DEF WrittenUpTo
    <3> QED BY <2>1, <3>8 DEF Goal
  <2> QED BY <2>3, <2>4
<1> QED BY <1>1, <1>2, <1>3, <1>4, <1>5, <1>6, <1>7, <1>8, <1>9
        DEF Next, BridgeStep, WriterStep, ReaderStep, LoopStep, Goal


-----------------------------------------------------------------------------
(* Node to browser.                                                            *)

\* DownInv of one stream, and its part about the wire.
OnWire(s) ==
    \E n \in 0..nodeSent[s] : /\ Chained(s, toGo, Fetched(s), n)
                              /\ nodeSock = "open" => n = nodeSent[s]

Down(s) ==
    /\ Fetched(s) <= nodeSent[s]
    /\ \A i \in DOMAIN incoming[s] : incoming[s][i] = Len(browserGot[s]) + i
    /\ LoopHas("data", s) => loop.payload = Queued(s) + 1
    /\ s \in registered => OnWire(s)

LEMMA DownIs == DownInv <=> \A s \in Streams : Down(s)
BY DEF DownInv, Down, OnWire

LEMMA DownTypes ==
    ASSUME TypeOK, NEW t \in Streams
    PROVE  /\ Len(browserGot[t]) \in Nat /\ Len(incoming[t]) \in Nat
           /\ Queued(t) \in Nat /\ Fetched(t) \in Nat /\ nodeSent[t] \in Nat
           /\ toGo \in Seq(Frames)
<1>1. /\ browserGot \in [Streams -> Seq(1..MaxSent)]
      /\ incoming \in [Streams -> Seq(1..MaxSent)]
  BY DEF TypeOK
<1>2. Len(browserGot[t]) \in Nat /\ Len(incoming[t]) \in Nat
  BY <1>1, LenProperties
<1>3. nodeSent[t] \in Nat /\ toGo \in Seq(Frames)
  BY DEF TypeOK
<1>4. Queued(t) \in Nat
  BY <1>1, <1>2 DEF Queued
<1>5. Fetched(t) \in Nat
  BY <1>4 DEF Fetched
<1> QED BY <1>2, <1>3, <1>4, <1>5

\* Nothing of the stream moves, but it may leave the map and its socket close.
LEMMA DownQuiet ==
    ASSUME TypeOK, DownInv, NEW t \in Streams,
           nodeSent'[t] = nodeSent[t], incoming'[t] = incoming[t],
           browserGot'[t] = browserGot[t],
           LoopHas("data", t)' <=> LoopHas("data", t),
           LoopHas("data", t) => loop' = loop,
           t \in registered' => t \in registered,
           nodeSock' = "open" => nodeSock = "open",
           Quiet(t, toGo, toGo')
    PROVE  Down(t)'
<1>1. Down(t)
  BY DownIs
<1>2. Queued(t)' = Queued(t) /\ Fetched(t)' = Fetched(t)
  BY DEF Queued, Fetched
<1>3. ASSUME t \in registered' PROVE OnWire(t)'
  <2>1. PICK n \in 0..nodeSent[t] : /\ Chained(t, toGo, Fetched(t), n)
                                    /\ nodeSock = "open" => n = nodeSent[t]
    BY <1>1, <1>3 DEF Down, OnWire
  <2>2. Chained(t, toGo', Fetched(t), n)
    BY <2>1, DownTypes, ChainQuiet
  <2>3. Chained(t, toGo', Fetched(t)', n)
    BY <1>2, <2>2
  <2> QED BY <2>1, <2>3 DEF OnWire
<1>4. LoopHas("data", t)' => loop'.payload = Queued(t)' + 1
  BY <1>1, <1>2 DEF Down
<1>5. Fetched(t)' <= nodeSent'[t]
  BY <1>1, <1>2 DEF Down
<1>6. \A i \in DOMAIN incoming'[t] : incoming'[t][i] = Len(browserGot'[t]) + i
  BY <1>1 DEF Down
<1> QED BY <1>3, <1>4, <1>5, <1>6 DEF Down

LEMMA DownInit == Init => DownInv
<1> SUFFICES ASSUME Init, NEW s \in Streams PROVE Down(s)
  BY DownIs
<1>1. /\ incoming[s] = <<>> /\ browserGot[s] = <<>> /\ nodeSent[s] = 0
      /\ loop.type = "reading" /\ registered = {}
  BY DEF Init
<1>2. Fetched(s) = 0 /\ ~LoopHas("data", s)
  BY <1>1 DEF Fetched, Queued, LoopHas
<1> QED BY <1>1, <1>2 DEF Down

LEMMA DownStep == ASSUME TypeOK, SentInv, FreshInv, DownInv, [Next]_vars PROVE DownInv'
<1> SUFFICES ASSUME NEW t \in Streams PROVE Down(t)'
  <2>1. DownInv' <=> \A s \in Streams : Down(s)'
    BY DEF DownInv, Down, OnWire
  <2> QED BY <2>1
<1> USE DEF goVars, wires, bridgeVars, streamVars, nodeVars, traffic
<1>t. /\ nodeSent \in [Streams -> 0..MaxSent]
      /\ incoming \in [Streams -> Seq(1..MaxSent)]
      /\ browserGot \in [Streams -> Seq(1..MaxSent)]
      /\ toGo \in Seq(Frames)
  BY DEF TypeOK
<1>n. /\ Len(browserGot[t]) \in Nat /\ Len(incoming[t]) \in Nat
      /\ Queued(t) \in Nat /\ Fetched(t) \in Nat /\ nodeSent[t] \in Nat
  BY DownTypes
<1>d. Down(t)
  BY DownIs
<1>q. ASSUME nodeSent'[t] = nodeSent[t], incoming'[t] = incoming[t],
             browserGot'[t] = browserGot[t],
             LoopHas("data", t)' <=> LoopHas("data", t),
             LoopHas("data", t) => loop' = loop,
             t \in registered' => t \in registered,
             nodeSock' = "open" => nodeSock = "open",
             Quiet(t, toGo, toGo')
      PROVE  Down(t)'
  BY <1>q, DownQuiet
<1>k. ASSUME UNCHANGED <<nodeSent, incoming, browserGot, loop, toGo>>,
             t \in registered' => t \in registered,
             nodeSock' = "open" => nodeSock = "open"
      PROVE  Down(t)'
  <2>1. Quiet(t, toGo, toGo')
    BY <1>k DEF Quiet
  <2>2. LoopHas("data", t)' <=> LoopHas("data", t)
    BY <1>k DEF LoopHas
  <2> QED BY <1>k, <1>q, <2>1, <2>2
<1>1. ASSUME BackendCloses \/ BackendSweeps \/ NodeSocketCloses \/ UNCHANGED vars
             \/ NodeDispatches
      PROVE  Down(t)'
  <2>1. UNCHANGED <<nodeSent, incoming, browserGot, loop, toGo>>
    BY <1>1 DEF BackendCloses, BackendSweeps, NodeSocketCloses, vars, NodeDispatches
  <2>2. (t \in registered' => t \in registered) /\ (nodeSock' = "open" => nodeSock = "open")
    BY <1>1 DEF BackendCloses, BackendSweeps, NodeSocketCloses, vars, NodeDispatches
  <2> QED BY <1>k, <2>1, <2>2
<1>2. ASSUME NEW s \in Streams,
             \/ WriteOpen(s) \/ WriteOpenFails(s) \/ BrowserLeaves(s) \/ WriterReads(s)
             \/ WriterWrites(s) \/ WriterStops(s) \/ ReaderStops(s) \/ BridgeCloses(s)
             \/ BridgeDeregisters(s) \/ BridgeNotifies(s) \/ BridgeDone(s)
      PROVE  Down(t)'
  <2>1. UNCHANGED <<nodeSent, incoming, browserGot, loop, toGo, nodeSock>>
    BY <1>2 DEF WriteOpen, WriteOpenFails, BrowserLeaves, WriterReads, WriterWrites,
                WriterStops, ReaderStops, BridgeCloses, BridgeDeregisters,
                BridgeNotifies, BridgeDone
  <2>2. t \in registered' => t \in registered
    BY <1>2 DEF WriteOpen, WriteOpenFails, BrowserLeaves, WriterReads, WriterWrites,
                WriterStops, ReaderStops, BridgeCloses, BridgeDeregisters,
                BridgeNotifies, BridgeDone
  <2> QED BY <1>k, <2>1, <2>2
<1>3. ASSUME NEW s \in Streams, Register(s) PROVE Down(t)'
  <2>1. /\ UNCHANGED <<nodeSent, incoming, browserGot, loop, toGo, nodeSock>>
        /\ registered' = registered \cup {s} /\ bridge[s] = "none"
    BY <1>3 DEF Register
  <2>2. CASE t # s
    BY <1>k, <2>1, <2>2
  <2>3. CASE t = s
    <3>1. Untouched(t)
      BY <2>1, <2>3 DEF FreshInv
    <3>2. /\ Avoids(toGo, t) /\ nodeSent[t] = 0 /\ browserGot[t] = <<>>
          /\ incoming[t] = <<>> /\ ~LoopHas("data", t)
      BY <3>1 DEF Untouched, LoopIdle, LoopHas
    <3>3. ~LoopHas("data", t)' /\ Fetched(t)' = 0 /\ nodeSent'[t] = 0
      BY <2>1, <3>2 DEF LoopHas, Fetched, Queued
    <3>4. Chained(t, toGo', 0, 0)
      BY <1>t, <2>1, <3>2, AvoidsChain
    <3>5. OnWire(t)'
      BY <3>3, <3>4 DEF OnWire
    <3>6. incoming'[t] = <<>>
      BY <2>1, <3>2
    <3> QED BY <3>3, <3>5, <3>6 DEF Down
  <2> QED BY <2>2, <2>3
<1>4. ASSUME NEW s \in Streams, ReaderReads(s) PROVE Down(t)'
  <2>1. /\ UNCHANGED <<nodeSent, loop, toGo, registered, nodeSock>>
        /\ incoming[s] # <<>>
        /\ browserGot' = [browserGot EXCEPT ![s] = Append(@, Head(incoming[s]))]
        /\ incoming' = [incoming EXCEPT ![s] = Tail(@)]
    BY <1>4 DEF ReaderReads
  <2>l. LoopHas("data", t)' <=> LoopHas("data", t)
    BY <2>1 DEF LoopHas
  <2>2. CASE t # s
    <3>1. incoming'[t] = incoming[t] /\ browserGot'[t] = browserGot[t]
      BY <1>t, <2>1, <2>2
    <3>2. Quiet(t, toGo, toGo')
      BY <2>1 DEF Quiet
    <3> QED BY <1>q, <2>1, <2>l, <3>1, <3>2
  <2>3. CASE t = s
    <3>1. /\ incoming'[t] = Tail(incoming[t])
          /\ browserGot'[t] = Append(browserGot[t], Head(incoming[t]))
      BY <1>t, <2>1, <2>3
    <3>2. /\ incoming[t] \in Seq(1..MaxSent) /\ incoming[t] # <<>>
          /\ browserGot[t] \in Seq(1..MaxSent)
      BY <1>t, <2>1, <2>3
    <3>3. /\ Head(incoming[t]) \in 1..MaxSent
          /\ Len(incoming[t]) \in Nat \ {0} /\ Len(Tail(incoming[t])) = Len(incoming[t]) - 1
          /\ Tail(incoming[t]) \in Seq(1..MaxSent)
          /\ \A i \in 1..Len(Tail(incoming[t])) : Tail(incoming[t])[i] = incoming[t][i + 1]
      BY <3>2, HeadTailProperties, EmptySeq, LenProperties
    <3>4. Len(browserGot'[t]) = Len(browserGot[t]) + 1
      BY <3>1, <3>2, <3>3, AppendProperties
    <3>5. Queued(t)' = Queued(t) /\ Fetched(t)' = Fetched(t)
      <4>1. Len(incoming'[t]) = Len(incoming[t]) - 1
        BY <3>1, <3>3
      <4>2. Queued(t)' = (Len(browserGot[t]) + 1) + (Len(incoming[t]) - 1)
        BY <3>4, <4>1 DEF Queued
      <4>3. Queued(t)' = Queued(t)
        <5>1. (Len(browserGot[t]) + 1) + (Len(incoming[t]) - 1)
                = Len(browserGot[t]) + Len(incoming[t])
          BY <1>t
        <5> QED BY <4>2, <5>1 DEF Queued
      <4> QED BY <2>l, <4>3 DEF Fetched
    <3>6. \A i \in DOMAIN incoming'[t] : incoming'[t][i] = Len(browserGot'[t]) + i
      <4>1. SUFFICES ASSUME NEW i \in DOMAIN incoming'[t]
                     PROVE  incoming'[t][i] = Len(browserGot'[t]) + i
        OBVIOUS
      <4>2. i \in 1..(Len(incoming[t]) - 1) /\ i + 1 \in DOMAIN incoming[t]
        BY <3>1, <3>2, <3>3, LenProperties
      <4>3. incoming'[t][i] = incoming[t][i + 1]
        BY <3>1, <3>3, <4>2
      <4>4. incoming[t][i + 1] = Len(browserGot[t]) + (i + 1)
        BY <1>d, <4>2 DEF Down
      <4>5. incoming'[t][i] = Len(browserGot[t]) + (i + 1)
        BY <4>3, <4>4
      <4>6. i \in Int
        BY <4>2
      <4> QED BY <1>n, <1>t, <3>4, <4>5, <4>6
    <3>7. t \in registered' => OnWire(t)'
      BY <1>d, <2>1, <3>5 DEF Down, OnWire
    <3>8. LoopHas("data", t)' => loop'.payload = Queued(t)' + 1
      BY <1>d, <2>1, <2>l, <3>5 DEF Down
    <3>9. Fetched(t)' <= nodeSent'[t]
      BY <1>d, <2>1, <3>5 DEF Down
    <3> QED BY <3>6, <3>7, <3>8, <3>9 DEF Down
  <2> QED BY <2>2, <2>3
<1>5. ASSUME LoopReads PROVE Down(t)'
  <2>1. /\ loop.type = "reading" /\ toGo # <<>> /\ toGo' = Tail(toGo)
        /\ UNCHANGED <<nodeSent, incoming, browserGot, registered, nodeSock>>
        /\ \/ Head(toGo).stream \in registered /\ loop' = Head(toGo)
           \/ Head(toGo).stream \notin registered /\ loop' = [type |-> "stopped"]
    BY <1>5 DEF LoopReads
  <2>2. ~LoopHas("data", t) /\ Fetched(t) = Queued(t) /\ Queued(t)' = Queued(t)
    BY <2>1 DEF LoopHas, Fetched, Queued
  <2>3. CASE ~IsData(Head(toGo), t)
    <3>1. ~LoopHas("data", t)'
      BY <2>1, <2>3 DEF LoopHas, IsData
    <3>2. Quiet(t, toGo, toGo')
      BY <2>1, <2>3 DEF Quiet
    <3> QED BY <1>q, <2>1, <2>2, <3>1, <3>2
  <2>4. CASE IsData(Head(toGo), t) /\ t \in registered
    <3>1. loop' = Head(toGo) /\ LoopHas("data", t)'
      BY <2>1, <2>4 DEF LoopHas, IsData
    <3>2. Fetched(t)' = Queued(t) + 1
      BY <2>2, <3>1 DEF Fetched
    <3>3. PICK n \in 0..nodeSent[t] : /\ Chained(t, toGo, Queued(t), n)
                                      /\ nodeSock = "open" => n = nodeSent[t]
      BY <1>d, <2>2, <2>4 DEF Down, OnWire
    <3>4. /\ Head(toGo).payload = Queued(t) + 1 /\ Queued(t) + 1 <= n
          /\ Chained(t, Tail(toGo), Queued(t) + 1, n)
      BY <1>n, <1>t, <2>1, <2>4, <3>3, ChainTailData
    <3>5. Chained(t, toGo', Fetched(t)', n)
      BY <2>1, <3>2, <3>4
    <3>6. OnWire(t)'
      BY <2>1, <3>3, <3>5 DEF OnWire
    <3>7. Fetched(t)' <= nodeSent'[t]
      BY <1>n, <2>1, <3>2, <3>3, <3>4
    <3>8. loop'.payload = Queued(t)' + 1
      BY <2>2, <3>1, <3>4
    <3>9. \A i \in DOMAIN incoming'[t] : incoming'[t][i] = Len(browserGot'[t]) + i
      BY <1>d, <2>1 DEF Down
    <3> QED BY <3>6, <3>7, <3>8, <3>9 DEF Down
  <2>5. CASE IsData(Head(toGo), t) /\ t \notin registered
    <3>1. ~LoopHas("data", t)'
      BY <2>1, <2>5 DEF LoopHas, IsData
    <3>2. Fetched(t)' = Fetched(t)
      BY <2>2, <3>1 DEF Fetched
    <3>5. t \notin registered'
      BY <2>1, <2>5
    <3>3. \A i \in DOMAIN incoming'[t] : incoming'[t][i] = Len(browserGot'[t]) + i
      BY <1>d, <2>1 DEF Down
    <3>4. Fetched(t)' <= nodeSent'[t]
      BY <1>d, <2>1, <3>2 DEF Down
    <3> QED BY <3>1, <3>3, <3>4, <3>5 DEF Down
  <2> QED BY <2>3, <2>4, <2>5
<1>6. ASSUME LoopDelivers PROVE Down(t)'
  <2>1. /\ loop.type = "data" /\ loop' = [type |-> "reading"]
        /\ UNCHANGED <<nodeSent, browserGot, toGo, registered, nodeSock>>
        /\ incoming' = [incoming EXCEPT ![loop.stream] = Append(@, loop.payload)]
    BY <1>6 DEF LoopDelivers, Enqueued
  <2>2. loop.stream \in Streams /\ loop.payload \in 1..MaxSent
    BY <2>1 DEF TypeOK, Frames
  <2>3. ~LoopHas("data", t)'
    BY <2>1 DEF LoopHas
  <2>4. CASE loop.stream # t
    <3>1. ~LoopHas("data", t) /\ incoming'[t] = incoming[t]
      BY <1>t, <2>1, <2>2, <2>4 DEF LoopHas
    <3>2. Quiet(t, toGo, toGo')
      BY <2>1 DEF Quiet
    <3> QED BY <1>q, <2>1, <2>3, <3>1, <3>2
  <2>5. CASE loop.stream = t
    <3>1. LoopHas("data", t) /\ Fetched(t) = Queued(t) + 1
      BY <2>1, <2>5 DEF LoopHas, Fetched
    <3>2. loop.payload = Queued(t) + 1
      BY <1>d, <3>1 DEF Down
    <3>3. incoming'[t] = Append(incoming[t], loop.payload)
      BY <1>t, <2>1, <2>2, <2>5
    <3>4. /\ Len(incoming'[t]) = Len(incoming[t]) + 1
          /\ DOMAIN incoming'[t] = 1..(Len(incoming[t]) + 1)
          /\ \A i \in 1..Len(incoming[t]) : incoming'[t][i] = incoming[t][i]
          /\ incoming'[t][Len(incoming[t]) + 1] = loop.payload
      BY <1>t, <2>2, <3>3, AppendProperties
    <3>5. Queued(t)' = Queued(t) + 1
      <4>1. Queued(t)' = Len(browserGot[t]) + (Len(incoming[t]) + 1)
        BY <2>1, <3>4 DEF Queued
      <4>2. Len(browserGot[t]) + (Len(incoming[t]) + 1)
              = (Len(browserGot[t]) + Len(incoming[t])) + 1
        BY <1>t
      <4> QED BY <4>1, <4>2 DEF Queued
    <3>6. Fetched(t)' = Fetched(t)
      BY <2>3, <3>1, <3>5 DEF Fetched
    <3>7. \A i \in DOMAIN incoming'[t] : incoming'[t][i] = Len(browserGot'[t]) + i
      <4>1. SUFFICES ASSUME NEW i \in 1..(Len(incoming[t]) + 1)
                     PROVE  incoming'[t][i] = Len(browserGot[t]) + i
        BY <2>1, <3>4
      <4>2. CASE i \in 1..Len(incoming[t])
        <5>1. i \in DOMAIN incoming[t]
          BY <1>t, <4>2, LenProperties
        <5> QED BY <1>d, <3>4, <4>2, <5>1 DEF Down
      <4>3. CASE i = Len(incoming[t]) + 1
        <5>1. incoming'[t][i] = (Len(browserGot[t]) + Len(incoming[t])) + 1
          BY <3>2, <3>4, <4>3 DEF Queued
        <5> QED BY <1>n, <1>t, <4>3, <5>1
      <4> QED BY <1>n, <4>2, <4>3
    <3>8. t \in registered' => OnWire(t)'
      BY <1>d, <2>1, <3>6 DEF Down, OnWire
    <3>9. Fetched(t)' <= nodeSent'[t]
      BY <1>d, <2>1, <3>6 DEF Down
    <3> QED BY <2>3, <3>7, <3>8, <3>9 DEF Down
  <2> QED BY <2>4, <2>5
<1>7. ASSUME LoopRefuses PROVE Down(t)'
  <2>1. /\ loop.type = "data" /\ loop'.type \in {"reading", "notify"}
        /\ UNCHANGED <<nodeSent, browserGot, incoming, toGo, nodeSock>>
        /\ registered' = registered \ {loop.stream}
    BY <1>7 DEF LoopRefuses, AfterRefusal
  <2>2. ~LoopHas("data", t)'
    BY <2>1 DEF LoopHas
  <2>3. CASE loop.stream # t
    <3>1. ~LoopHas("data", t)
      BY <2>3 DEF LoopHas
    <3>2. Quiet(t, toGo, toGo')
      BY <2>1 DEF Quiet
    <3> QED BY <1>q, <2>1, <2>2, <3>1, <3>2
  <2>4. CASE loop.stream = t
    <3>1. Queued(t)' = Queued(t) /\ Fetched(t) = Queued(t) + 1 /\ Fetched(t)' = Queued(t)
      BY <2>1, <2>2, <2>4 DEF LoopHas, Fetched, Queued
    <3>2. Fetched(t)' <= nodeSent'[t]
      BY <1>d, <1>n, <2>1, <3>1 DEF Down
    <3>3. \A i \in DOMAIN incoming'[t] : incoming'[t][i] = Len(browserGot'[t]) + i
      BY <1>d, <2>1 DEF Down
    <3>4. t \notin registered'
      BY <2>1, <2>4
    <3> QED BY <2>2, <3>2, <3>3, <3>4 DEF Down
  <2> QED BY <2>3, <2>4
<1>8. ASSUME LoopNotifies \/ LoopCloses \/ LoopStops PROVE Down(t)'
  <2>1. /\ loop.type # "data" /\ loop'.type # "data"
        /\ t \in registered' => t \in registered
        /\ UNCHANGED <<nodeSent, browserGot, incoming, toGo, nodeSock>>
    BY <1>8 DEF LoopNotifies, LoopCloses, LoopStops
  <2>2. ~LoopHas("data", t) /\ ~LoopHas("data", t)' /\ Quiet(t, toGo, toGo')
    BY <2>1 DEF LoopHas, Quiet
  <2> QED BY <1>q, <2>1, <2>2
<1>9. ASSUME NEW s \in Streams, NodeClosesStream(s) PROVE Down(t)'
  <2>1. /\ UNCHANGED <<nodeSent, browserGot, incoming, loop, registered, nodeSock>>
        /\ toGo' = toGo \/ toGo' = Append(toGo, Close(s))
    BY <1>9 DEF NodeClosesStream, NodeWrites
  <2>2. Close(s) \in Frames /\ ~IsData(Close(s), t)
    BY FrameFacts DEF IsData, Close
  <2>3. Quiet(t, toGo, toGo') /\ (LoopHas("data", t)' <=> LoopHas("data", t))
    BY <2>1, <2>2 DEF Quiet, LoopHas
  <2> QED BY <1>q, <2>1, <2>3
<1>10. ASSUME NEW s \in Streams, NodeSends(s) PROVE Down(t)'
  <2>1. /\ UNCHANGED <<browserGot, incoming, loop, registered>>
        /\ nodeSent[s] < MaxSent /\ nodeSent' = [nodeSent EXCEPT ![s] = @ + 1]
        /\ \/ /\ toGo' = Append(toGo, Data(s, nodeSent[s] + 1))
              /\ nodeSock = "open" /\ nodeSock' = "open"
           \/ toGo' = toGo /\ nodeSock' # "open"
    BY <1>10 DEF NodeSends, NodeWrites
  <2>2. nodeSent[s] + 1 \in 1..MaxSent
    BY <1>t, <2>1, LimitsAssumption
  <2>3. LoopHas("data", t)' <=> LoopHas("data", t)
    BY <2>1 DEF LoopHas
  <2>4. CASE t # s
    <3>1. nodeSent'[t] = nodeSent[t]
      BY <1>t, <2>1, <2>4
    <3>2. Data(s, nodeSent[s] + 1) \in Frames /\ ~IsData(Data(s, nodeSent[s] + 1), t)
      BY <2>2, <2>4, FrameFacts DEF IsData
    <3>3. Quiet(t, toGo, toGo')
      BY <2>1, <3>2 DEF Quiet
    <3> QED BY <1>q, <2>1, <2>3, <3>1, <3>3
  <2>5. CASE t = s
    <3>1. nodeSent'[t] = nodeSent[t] + 1
      BY <1>t, <2>1, <2>5
    <3>2. Queued(t)' = Queued(t) /\ Fetched(t)' = Fetched(t)
      BY <2>1, <2>3 DEF Queued, Fetched
    <3>3. Fetched(t)' <= nodeSent'[t]
      BY <1>d, <1>n, <3>1, <3>2 DEF Down
    <3>4. \A i \in DOMAIN incoming'[t] : incoming'[t][i] = Len(browserGot'[t]) + i
      BY <1>d, <2>1 DEF Down
    <3>5. LoopHas("data", t)' => loop'.payload = Queued(t)' + 1
      BY <1>d, <2>1, <2>3, <3>2 DEF Down
    <3>6. ASSUME t \in registered' PROVE OnWire(t)'
      <4>1. PICK n \in 0..nodeSent[t] : /\ Chained(t, toGo, Fetched(t), n)
                                        /\ nodeSock = "open" => n = nodeSent[t]
        BY <1>d, <2>1, <3>6 DEF Down, OnWire
      <4>2. CASE toGo' = toGo /\ nodeSock' # "open"
        <5>1. Chained(t, toGo', Fetched(t)', n)
          BY <3>2, <4>1, <4>2
        <5>2. n \in 0..nodeSent'[t]
          BY <1>n, <3>1, <4>1
        <5> QED BY <4>2, <5>1, <5>2 DEF OnWire
      <4>3. CASE /\ toGo' = Append(toGo, Data(s, nodeSent[s] + 1))
                 /\ nodeSock = "open" /\ nodeSock' = "open"
        <5>1. Chained(t, toGo, Fetched(t), nodeSent[t])
          BY <4>1, <4>3
        <5>2. Chained(t, Append(toGo, Data(t, nodeSent[t] + 1)), Fetched(t), nodeSent[t] + 1)
          BY <1>n, <1>t, <2>2, <2>5, <5>1, ChainAppendData
        <5>3. Chained(t, toGo', Fetched(t)', nodeSent'[t])
          BY <2>5, <3>1, <3>2, <4>3, <5>2
        <5>4. nodeSent'[t] \in 0..nodeSent'[t]
          BY <1>n, <3>1
        <5> QED BY <5>3, <5>4 DEF OnWire
      <4> QED BY <2>1, <4>2, <4>3
    <3> QED BY <3>3, <3>4, <3>5, <3>6 DEF Down
  <2> QED BY <2>4, <2>5
<1> QED BY <1>1, <1>2, <1>3, <1>4, <1>5, <1>6, <1>7, <1>8, <1>9, <1>10
        DEF Next, BridgeStep, WriterStep, ReaderStep, LoopStep


-----------------------------------------------------------------------------
(* OPEN and CLOSE frames on a wire.                                            *)

LEMMA InAppend ==
    ASSUME NEW w \in Seq(Frames), NEW f \in Frames, NEW s
    PROVE  /\ OpenIn(Append(w, f), s) <=> OpenIn(w, s) \/ IsOpen(f, s)
           /\ CloseIn(Append(w, f), s) <=> CloseIn(w, s) \/ IsClose(f, s)
<1> DEFINE v == Append(w, f)
<1>1. /\ Len(w) \in Nat /\ DOMAIN w = 1..Len(w) /\ DOMAIN v = 1..(Len(w) + 1)
      /\ \A i \in DOMAIN w : v[i] = w[i]
      /\ v[Len(w) + 1] = f
  BY WireAppend
<1> HIDE DEF v
<1>2. \A i \in DOMAIN v : i \in DOMAIN w \/ i = Len(w) + 1
  BY <1>1
<1>3. Len(w) + 1 \in DOMAIN v /\ \A i \in DOMAIN w : i \in DOMAIN v
  BY <1>1
<1>4. OpenIn(v, s) <=> OpenIn(w, s) \/ IsOpen(f, s)
  BY <1>1, <1>2, <1>3 DEF OpenIn
<1>5. CloseIn(v, s) <=> CloseIn(w, s) \/ IsClose(f, s)
  BY <1>1, <1>2, <1>3 DEF CloseIn
<1> QED BY <1>4, <1>5 DEF v

LEMMA InTail ==
    ASSUME NEW w \in Seq(Frames), w # <<>>, NEW s
    PROVE  /\ OpenIn(w, s) <=> IsOpen(Head(w), s) \/ OpenIn(Tail(w), s)
           /\ CloseIn(w, s) <=> IsClose(Head(w), s) \/ CloseIn(Tail(w), s)
<1> DEFINE v == Tail(w)
<1>1. /\ Len(w) \in Nat \ {0} /\ DOMAIN w = 1..Len(w) /\ DOMAIN v = 1..(Len(w) - 1)
      /\ \A i \in DOMAIN v : v[i] = w[i + 1]
      /\ Head(w) = w[1]
  BY WireTail
<1> HIDE DEF v
<1>2. 1 \in DOMAIN w /\ \A i \in DOMAIN v : i + 1 \in DOMAIN w
  BY <1>1
<1>3. \A i \in DOMAIN w : i = 1 \/ (i - 1 \in DOMAIN v /\ v[i - 1] = w[i])
  BY <1>1
<1>4. OpenIn(w, s) <=> IsOpen(w[1], s) \/ OpenIn(v, s)
  BY <1>1, <1>2, <1>3 DEF OpenIn
<1>5. CloseIn(w, s) <=> IsClose(w[1], s) \/ CloseIn(v, s)
  BY <1>1, <1>2, <1>3 DEF CloseIn
<1> QED BY <1>1, <1>4, <1>5 DEF v

LEMMA CloseAppend ==
    ASSUME NEW w \in Seq(Frames), NEW f \in Frames, NEW s, OneClose(w, s),
           ~CloseIn(w, s) \/ ~IsClose(f, s)
    PROVE  OneClose(Append(w, f), s)
<1> DEFINE v == Append(w, f)
<1>1. /\ Len(w) \in Nat /\ DOMAIN w = 1..Len(w) /\ DOMAIN v = 1..(Len(w) + 1)
      /\ \A i \in DOMAIN w : v[i] = w[i]
      /\ v[Len(w) + 1] = f
  BY WireAppend
<1> HIDE DEF v
<1>2. \A i \in DOMAIN v : i \in DOMAIN w \/ i = Len(w) + 1
  BY <1>1
<1>3. SUFFICES ASSUME NEW i \in DOMAIN v, NEW j \in DOMAIN v,
                      IsClose(v[i], s), IsClose(v[j], s)
               PROVE  i = j
  BY DEF OneClose, v
<1>4. CASE i \in DOMAIN w /\ j \in DOMAIN w
  BY <1>1, <1>3, <1>4 DEF OneClose
<1>5. CASE i = Len(w) + 1 /\ j = Len(w) + 1
  BY <1>5
<1>6. CASE i \in DOMAIN w /\ j = Len(w) + 1
  BY <1>1, <1>3, <1>6 DEF CloseIn
<1>7. CASE i = Len(w) + 1 /\ j \in DOMAIN w
  BY <1>1, <1>3, <1>7 DEF CloseIn
<1> QED BY <1>2, <1>4, <1>5, <1>6, <1>7

LEMMA CloseTail ==
    ASSUME NEW w \in Seq(Frames), w # <<>>, NEW s, OneClose(w, s)
    PROVE  OneClose(Tail(w), s)
<1> DEFINE v == Tail(w)
<1>1. /\ Len(w) \in Nat \ {0} /\ DOMAIN w = 1..Len(w) /\ DOMAIN v = 1..(Len(w) - 1)
      /\ \A i \in DOMAIN v : v[i] = w[i + 1]
  BY WireTail
<1> HIDE DEF v
<1>2. SUFFICES ASSUME NEW i \in DOMAIN v, NEW j \in DOMAIN v,
                      IsClose(v[i], s), IsClose(v[j], s)
               PROVE  i = j
  BY DEF OneClose, v
<1>3. i + 1 \in DOMAIN w /\ j + 1 \in DOMAIN w
  BY <1>1
<1>4. i + 1 = j + 1
  BY <1>1, <1>2, <1>3 DEF OneClose
<1> QED BY <1>1, <1>4

LEMMA OpenAppend ==
    ASSUME NEW w \in Seq(Frames), NEW f \in Frames, NEW s, OpenFirst(w, s),
           IsOpen(f, s) => ~OpenIn(w, s) /\ ~CloseIn(w, s)
    PROVE  OpenFirst(Append(w, f), s)
<1> DEFINE v == Append(w, f)
<1>1. /\ Len(w) \in Nat /\ DOMAIN w = 1..Len(w) /\ DOMAIN v = 1..(Len(w) + 1)
      /\ \A i \in DOMAIN w : v[i] = w[i]
      /\ v[Len(w) + 1] = f
  BY WireAppend
<1> HIDE DEF v
<1>2. \A i \in DOMAIN v : i \in DOMAIN w \/ i = Len(w) + 1
  BY <1>1
<1>3. SUFFICES ASSUME NEW i \in DOMAIN v, NEW j \in DOMAIN v, IsOpen(v[i], s)
               PROVE  /\ IsOpen(v[j], s) => j = i
                      /\ IsClose(v[j], s) => i < j
  BY DEF OpenFirst, v
<1>4. CASE i \in DOMAIN w /\ j \in DOMAIN w
  BY <1>1, <1>3, <1>4 DEF OpenFirst
<1>5. CASE i = Len(w) + 1 /\ j = Len(w) + 1
  BY <1>3, <1>5 DEF IsOpen, IsClose
<1>6. CASE i \in DOMAIN w /\ j = Len(w) + 1
  BY <1>1, <1>3, <1>6 DEF OpenIn
<1>7. CASE i = Len(w) + 1 /\ j \in DOMAIN w
  <2>1. ~IsOpen(w[j], s) /\ ~IsClose(w[j], s)
    BY <1>1, <1>3, <1>7 DEF OpenIn, CloseIn
  <2> QED BY <1>1, <1>7, <2>1
<1> QED BY <1>2, <1>4, <1>5, <1>6, <1>7

LEMMA OpenTail ==
    ASSUME NEW w \in Seq(Frames), w # <<>>, NEW s, OpenFirst(w, s)
    PROVE  /\ OpenFirst(Tail(w), s)
           /\ IsOpen(Head(w), s) \/ IsClose(Head(w), s) => ~OpenIn(Tail(w), s)
<1> DEFINE v == Tail(w)
<1>1. /\ Len(w) \in Nat \ {0} /\ DOMAIN w = 1..Len(w) /\ DOMAIN v = 1..(Len(w) - 1)
      /\ \A i \in DOMAIN v : v[i] = w[i + 1]
      /\ Head(w) = w[1]
  BY WireTail
<1> HIDE DEF v
<1>2. 1 \in DOMAIN w /\ \A i \in DOMAIN v : i + 1 \in DOMAIN w /\ i + 1 > 1 /\ i \in Nat
  BY <1>1
<1>3. ASSUME NEW i \in DOMAIN v, NEW j \in DOMAIN v, IsOpen(v[i], s)
      PROVE  /\ IsOpen(v[j], s) => j = i
             /\ IsClose(v[j], s) => i < j
  <2>1. /\ IsOpen(w[j + 1], s) => j + 1 = i + 1
        /\ IsClose(w[j + 1], s) => i + 1 < j + 1
    BY <1>1, <1>2, <1>3 DEF OpenFirst
  <2> QED BY <1>1, <1>2, <2>1
<1>4. ASSUME NEW i \in DOMAIN v, IsOpen(v[i], s)
      PROVE  ~IsOpen(w[1], s) /\ ~IsClose(w[1], s)
  <2>1. /\ IsOpen(w[1], s) => 1 = i + 1
        /\ IsClose(w[1], s) => i + 1 < 1
    BY <1>1, <1>2, <1>4 DEF OpenFirst
  <2> QED BY <1>2, <2>1
<1>5. OpenFirst(v, s)
  BY <1>3 DEF OpenFirst
<1>6. IsOpen(w[1], s) \/ IsClose(w[1], s) => ~OpenIn(v, s)
  BY <1>4 DEF OpenIn
<1> QED BY <1>1, <1>5, <1>6 DEF v

LEMMA AvoidsIn ==
    ASSUME NEW w, NEW s, Avoids(w, s)
    PROVE  ~OpenIn(w, s) /\ ~CloseIn(w, s) /\ OpenFirst(w, s) /\ OneClose(w, s)
BY DEF Avoids, OpenIn, CloseIn, OpenFirst, OneClose, IsOpen, IsClose


-----------------------------------------------------------------------------
(* Who closes a stream.                                                        *)

\* Nobody becomes the closer of the stream.
LEMMA CloserQuiet ==
    ASSUME TypeOK, NEW t \in Streams, OneCloser(t),
           t \in registered' => t \in registered,
           bridge'[t] = "notifying" => bridge[t] = "notifying",
           LoopHas("notify", t)' => LoopHas("notify", t),
           \/ toNode' = toNode
           \/ \E f \in Frames : ~IsClose(f, t) /\ toNode' = Append(toNode, f)
           \/ toNode # <<>> /\ toNode' = Tail(toNode)
    PROVE  OneCloser(t)'
<1>1. toNode \in Seq(Frames)
  BY DEF TypeOK
<1>2. OneClose(toNode', t) /\ (CloseIn(toNode', t) => CloseIn(toNode, t))
  <2>1. CASE toNode' = toNode
    BY <2>1 DEF OneCloser
  <2>2. CASE \E f \in Frames : ~IsClose(f, t) /\ toNode' = Append(toNode, f)
    BY <1>1, <2>2, CloseAppend, InAppend DEF OneCloser
  <2>3. CASE toNode # <<>> /\ toNode' = Tail(toNode)
    BY <1>1, <2>3, CloseTail, InTail DEF OneCloser
  <2> QED BY <2>1, <2>2, <2>3
<1> QED BY <1>2 DEF OneCloser

\* The closer writes CLOSE.
LEMMA CloserWrites ==
    ASSUME TypeOK, NEW t \in Streams, OneCloser(t), registered' = registered,
           bridge[t] = "notifying" \/ LoopHas("notify", t),
           bridge'[t] # "notifying", ~LoopHas("notify", t)',
           toNode' = Append(toNode, Close(t))
    PROVE  OneCloser(t)'
<1>1. toNode \in Seq(Frames) /\ Close(t) \in Frames
  BY FrameFacts DEF TypeOK
<1>2. t \notin registered /\ ~CloseIn(toNode, t) /\ OneClose(toNode, t)
  BY DEF OneCloser
<1>3. OneClose(toNode', t)
  BY <1>1, <1>2, CloseAppend
<1> QED BY <1>2, <1>3 DEF OneCloser

LEMMA CloserInit == Init => CloserInv
BY DEF Init, CloserInv, OneCloser, CloseIn, OneClose, LoopHas

LEMMA CloserStep ==
    ASSUME TypeOK, SentInv, FreshInv, CloserInv, [Next]_vars PROVE CloserInv'
<1> SUFFICES ASSUME goConn' = "open", NEW t \in Streams PROVE OneCloser(t)'
  BY DEF CloserInv
<1> USE DEF goVars, wires, bridgeVars, streamVars, nodeVars, traffic
<1>t. /\ bridge \in [Streams -> {"none", "opening", "running", "closing",
                                 "notifying", "draining", "done"}]
      /\ toNode \in Seq(Frames)
  BY DEF TypeOK
<1>q. ASSUME goConn = "open",
             t \in registered' => t \in registered,
             bridge'[t] = "notifying" => bridge[t] = "notifying",
             LoopHas("notify", t)' => LoopHas("notify", t),
             \/ toNode' = toNode
             \/ \E f \in Frames : ~IsClose(f, t) /\ toNode' = Append(toNode, f)
             \/ toNode # <<>> /\ toNode' = Tail(toNode)
      PROVE  OneCloser(t)'
  BY <1>q, CloserQuiet DEF CloserInv
<1>1. ASSUME \/ BackendCloses \/ BackendSweeps \/ NodeSocketCloses \/ UNCHANGED vars
             \/ NodeDispatches
      PROVE  OneCloser(t)'
  <2>1. goConn = "open" /\ UNCHANGED <<registered, bridge, loop>>
    BY <1>1 DEF BackendCloses, BackendSweeps, NodeSocketCloses, vars, NodeDispatches
  <2>2. toNode' = toNode \/ (toNode # <<>> /\ toNode' = Tail(toNode))
    BY <1>1 DEF BackendCloses, BackendSweeps, NodeSocketCloses, vars, NodeDispatches
  <2>3. LoopHas("notify", t)' => LoopHas("notify", t)
    BY <2>1 DEF LoopHas
  <2> QED BY <1>q, <2>1, <2>2, <2>3
<1>2. ASSUME NEW s \in Streams,
             \/ WriteOpenFails(s) \/ BrowserLeaves(s) \/ WriterReads(s)
             \/ WriterStops(s) \/ ReaderReads(s) \/ ReaderStops(s) \/ BridgeCloses(s)
             \/ BridgeDone(s) \/ NodeSends(s) \/ NodeClosesStream(s)
      PROVE  OneCloser(t)'
  <2>1. goConn = "open" /\ UNCHANGED <<loop, toNode>>
    BY <1>2 DEF WriteOpenFails, WriteFailed, BrowserLeaves, WriterReads, WriterStops,
                ReaderReads, ReaderStops, BridgeCloses, BridgeDone, NodeSends,
                NodeClosesStream
  <2>2. t \in registered' => t \in registered
    BY <1>2 DEF WriteOpenFails, BrowserLeaves, WriterReads, WriterStops,
                ReaderReads, ReaderStops, BridgeCloses, BridgeDone, NodeSends,
                NodeClosesStream
  <2>3. bridge'[t] = "notifying" => bridge[t] = "notifying"
    BY <1>2, <1>t DEF WriteOpenFails, BrowserLeaves, WriterReads, WriterStops,
                ReaderReads, ReaderStops, BridgeCloses, BridgeDone, NodeSends,
                NodeClosesStream
  <2>4. LoopHas("notify", t)' => LoopHas("notify", t)
    BY <2>1 DEF LoopHas
  <2> QED BY <1>q, <2>1, <2>2, <2>3, <2>4
<1>3. ASSUME NEW s \in Streams, WriteOpen(s) \/ WriterWrites(s) PROVE OneCloser(t)'
  <2>1. goConn = "open" /\ UNCHANGED <<registered, loop>>
    BY <1>3 DEF WriteOpen, WriterWrites
  <2>2. bridge'[t] = "notifying" => bridge[t] = "notifying"
    BY <1>3, <1>t DEF WriteOpen, WriterWrites
  <2>3. LoopHas("notify", t)' => LoopHas("notify", t)
    BY <2>1 DEF LoopHas
  <2>4. CASE WriteOpen(s)
    <3>1. Open(s) \in Frames /\ ~IsClose(Open(s), t) /\ toNode' = Append(toNode, Open(s))
      BY <2>4, FrameFacts DEF IsClose, Open, WriteOpen, Written
    <3> QED BY <1>q, <2>1, <2>2, <2>3, <3>1
  <2>5. CASE WriterWrites(s)
    <3>1. browserSent[s] \in 1..MaxSent
      BY <2>5 DEF SentInv, WriterWrites, TypeOK
    <3>2. /\ Data(s, browserSent[s]) \in Frames /\ ~IsClose(Data(s, browserSent[s]), t)
          /\ toNode' = toNode \/ toNode' = Append(toNode, Data(s, browserSent[s]))
      BY <2>5, <3>1, FrameFacts DEF IsClose, Data, WriterWrites, Written, WriteFailed
    <3> QED BY <1>q, <2>1, <2>2, <2>3, <3>2
  <2> QED BY <1>3, <2>4, <2>5
<1>4. ASSUME NEW s \in Streams, Register(s) PROVE OneCloser(t)'
  <2>1. /\ goConn = "open" /\ UNCHANGED <<loop, toNode>> /\ bridge[s] = "none"
        /\ registered' = registered \cup {s}
        /\ bridge' = [bridge EXCEPT ![s] = "opening"]
    BY <1>4 DEF Register
  <2>2. LoopHas("notify", t)' <=> LoopHas("notify", t)
    BY <2>1 DEF LoopHas
  <2>3. CASE t # s
    <3>1. bridge'[t] = bridge[t] /\ (t \in registered' => t \in registered)
      BY <1>t, <2>1, <2>3
    <3> QED BY <1>q, <2>1, <2>2, <3>1
  <2>4. CASE t = s
    <3>1. Untouched(t)
      BY <2>1, <2>4 DEF FreshInv
    <3>2. Avoids(toNode, t) /\ ~LoopHas("notify", t)
      BY <3>1 DEF Untouched, LoopIdle, LoopHas
    <3>3. ~CloseIn(toNode', t) /\ OneClose(toNode', t)
      BY <2>1, <3>2, AvoidsIn
    <3>4. bridge'[t] = "opening"
      BY <1>t, <2>1, <2>4
    <3> QED BY <2>2, <3>2, <3>3, <3>4 DEF OneCloser
  <2> QED BY <2>3, <2>4
<1>5. ASSUME NEW s \in Streams, BridgeDeregisters(s) PROVE OneCloser(t)'
  <2>1. /\ goConn = "open" /\ UNCHANGED <<loop, toNode>>
        /\ registered' = registered \ {s}
        /\ bridge' = [bridge EXCEPT ![s] = AfterDeregister(s)]
    BY <1>5 DEF BridgeDeregisters
  <2>2. LoopHas("notify", t)' <=> LoopHas("notify", t)
    BY <2>1 DEF LoopHas
  <2>3. CASE t # s \/ t \notin registered
    <3>1. /\ bridge'[t] = "notifying" => bridge[t] = "notifying"
          /\ t \in registered' => t \in registered
      BY <1>t, <2>1, <2>3 DEF AfterDeregister
    <3> QED BY <1>q, <2>1, <2>2, <3>1
  <2>4. CASE t = s /\ t \in registered
    <3>1. OneCloser(t)
      BY <2>1 DEF CloserInv
    <3>2. ~CloseIn(toNode, t) /\ ~LoopHas("notify", t) /\ OneClose(toNode, t)
      BY <2>4, <3>1 DEF OneCloser
    <3>3. ~CloseIn(toNode', t) /\ OneClose(toNode', t) /\ t \notin registered'
      BY <2>1, <2>4, <3>2
    <3> QED BY <2>2, <3>2, <3>3 DEF OneCloser
  <2> QED BY <2>3, <2>4
<1>6. ASSUME NEW s \in Streams, BridgeNotifies(s) PROVE OneCloser(t)'
  <2>1. /\ goConn = "open" /\ UNCHANGED <<loop, registered>> /\ bridge[s] = "notifying"
        /\ toNode' = Append(toNode, Close(s))
        /\ bridge' = [bridge EXCEPT ![s] = "draining"]
    BY <1>6 DEF BridgeNotifies, Written, WriteFailed
  <2>2. LoopHas("notify", t)' <=> LoopHas("notify", t)
    BY <2>1 DEF LoopHas
  <2>3. OneCloser(t)
    BY <2>1 DEF CloserInv
  <2>4. CASE t # s
    <3>1. bridge'[t] = bridge[t]
      BY <1>t, <2>1, <2>4
    <3>2. Close(s) \in Frames /\ ~IsClose(Close(s), t)
      BY <2>4, FrameFacts DEF IsClose, Close
    <3> QED BY <1>q, <2>1, <2>2, <3>1, <3>2
  <2>5. CASE t = s
    <3>1. bridge'[t] # "notifying" /\ bridge[t] = "notifying"
      BY <1>t, <2>1, <2>5
    <3>2. ~LoopHas("notify", t)
      BY <2>3, <3>1 DEF OneCloser
    <3> QED BY <2>1, <2>2, <2>3, <2>5, <3>1, <3>2, CloserWrites
  <2> QED BY <2>4, <2>5
<1>7. ASSUME LoopReads \/ LoopDelivers \/ LoopCloses \/ LoopStops PROVE OneCloser(t)'
  <2>1. goConn = "open" /\ UNCHANGED <<bridge, toNode>>
    BY <1>7 DEF LoopReads, LoopDelivers, LoopCloses, LoopStops
  <2>2. t \in registered' => t \in registered
    BY <1>7 DEF LoopReads, LoopDelivers, LoopCloses, LoopStops
  <2>3. ~LoopHas("notify", t)'
    <3>1. CASE LoopReads
      <4>1. toGo # <<>> /\ toGo \in Seq(Frames)
        BY <3>1 DEF LoopReads, TypeOK
      <4>2. Head(toGo) \in Frames
        BY <4>1, WireTail
      <4>3. Head(toGo).type # "notify"
        BY <4>2, FrameFacts
      <4> QED BY <3>1, <4>3 DEF LoopReads, LoopHas
    <3>2. CASE LoopDelivers \/ LoopCloses \/ LoopStops
      BY <3>2 DEF LoopDelivers, LoopCloses, LoopStops, LoopHas
    <3> QED BY <1>7, <3>1, <3>2
  <2> QED BY <1>q, <2>1, <2>2, <2>3
<1>8. ASSUME LoopRefuses PROVE OneCloser(t)'
  <2>1. /\ goConn = "open" /\ UNCHANGED <<bridge, toNode>> /\ loop.type = "data"
        /\ registered' = registered \ {loop.stream} /\ loop' = AfterRefusal
    BY <1>8 DEF LoopRefuses
  <2>2. ~LoopHas("notify", t)
    BY <2>1 DEF LoopHas
  <2>3. CASE t # loop.stream \/ t \notin registered
    <3>1. ~LoopHas("notify", t)'
      BY <2>1, <2>3 DEF LoopHas, AfterRefusal
    <3> QED BY <1>q, <2>1, <3>1
  <2>4. CASE t = loop.stream /\ t \in registered
    <3>1. OneCloser(t)
      BY <2>1 DEF CloserInv
    <3>2. ~CloseIn(toNode, t) /\ bridge[t] # "notifying" /\ OneClose(toNode, t)
      BY <2>4, <3>1 DEF OneCloser
    <3>3. /\ ~CloseIn(toNode', t) /\ bridge'[t] # "notifying" /\ OneClose(toNode', t)
          /\ t \notin registered'
      BY <2>1, <2>4, <3>2
    <3> QED BY <3>3 DEF OneCloser
  <2> QED BY <2>3, <2>4
<1>9. ASSUME LoopNotifies PROVE OneCloser(t)'
  <2>1. /\ goConn = "open" /\ UNCHANGED <<bridge, registered>> /\ loop.type = "notify"
        /\ toNode' = Append(toNode, Close(loop.stream)) /\ loop' = [type |-> "reading"]
    BY <1>9 DEF LoopNotifies, Written, WriteFailed
  <2>2. ~LoopHas("notify", t)'
    BY <2>1 DEF LoopHas
  <2>3. loop.stream \in Streams
    BY <2>1 DEF TypeOK, Frames
  <2>4. CASE t # loop.stream
    <3>1. Close(loop.stream) \in Frames /\ ~IsClose(Close(loop.stream), t)
      BY <2>3, <2>4, FrameFacts DEF IsClose, Close
    <3> QED BY <1>q, <2>1, <2>2, <3>1
  <2>5. CASE t = loop.stream
    <3>1. OneCloser(t) /\ LoopHas("notify", t)
      BY <2>1, <2>5 DEF CloserInv, LoopHas
    <3>2. bridge'[t] # "notifying"
      BY <2>1, <3>1 DEF OneCloser
    <3> QED BY <2>1, <2>2, <2>5, <3>1, <3>2, CloserWrites
  <2> QED BY <2>4, <2>5
<1> QED BY <1>1, <1>2, <1>3, <1>4, <1>5, <1>6, <1>7, <1>8, <1>9
        DEF Next, BridgeStep, WriterStep, ReaderStep, LoopStep


-----------------------------------------------------------------------------
(* What Node knows.                                                            *)

LEMMA NewQuiet ==
    ASSUME TypeOK, NEW t \in Streams, NewToNode(t),
           t \in nodeStreams' => t \in nodeStreams,
           t \in nodeDone' => t \in nodeDone \/ t \in nodeStreams,
           \/ toNode' = toNode
           \/ \E f \in Frames : ~IsOpen(f, t) /\ toNode' = Append(toNode, f)
           \/ toNode # <<>> /\ toNode' = Tail(toNode)
    PROVE  NewToNode(t)'
<1>1. toNode \in Seq(Frames)
  BY DEF TypeOK
<1>2. OpenFirst(toNode', t) /\ (OpenIn(toNode', t) => OpenIn(toNode, t))
  <2>1. CASE toNode' = toNode
    BY <2>1 DEF NewToNode
  <2>2. CASE \E f \in Frames : ~IsOpen(f, t) /\ toNode' = Append(toNode, f)
    BY <1>1, <2>2, OpenAppend, InAppend DEF NewToNode
  <2>3. CASE toNode # <<>> /\ toNode' = Tail(toNode)
    BY <1>1, <2>3, OpenTail, InTail DEF NewToNode
  <2> QED BY <2>1, <2>2, <2>3
<1> QED BY <1>2 DEF NewToNode

LEMMA NodeInit == Init => NodeInv
BY DEF Init, NodeInv, GoneFirst, NewToNode, OpenFirst, OpenIn, CloseIn, LoopHas


LEMMA GoneStep ==
    ASSUME TypeOK, NodeInv, [Next]_vars, NEW t \in Streams PROVE GoneFirst(t)'
<1> USE DEF goVars, wires, bridgeVars, streamVars, nodeVars, traffic
<1>g. GoneFirst(t)
  BY DEF NodeInv
<1>w. toGo \in Seq(Frames)
  BY DEF TypeOK
<1>q. ASSUME nodeDone \subseteq nodeDone', toGo' = toGo,
             LoopHas("close", t)' => LoopHas("close", t)
      PROVE  GoneFirst(t)'
  BY <1>g, <1>q DEF GoneFirst
<1>1. ASSUME \/ BackendCloses \/ BackendSweeps \/ NodeSocketCloses \/ UNCHANGED vars
             \/ NodeDispatches
      PROVE  GoneFirst(t)'
  <2>1. nodeDone \subseteq nodeDone' /\ UNCHANGED <<toGo, loop>>
    BY <1>1 DEF BackendCloses, BackendSweeps, NodeSocketCloses, vars, NodeDispatches
  <2> QED BY <1>q, <2>1 DEF LoopHas
<1>2. ASSUME NEW s \in Streams,
             \/ Register(s) \/ WriteOpen(s) \/ WriteOpenFails(s) \/ BrowserLeaves(s)
             \/ WriterReads(s) \/ WriterWrites(s) \/ WriterStops(s) \/ ReaderReads(s)
             \/ ReaderStops(s) \/ BridgeCloses(s) \/ BridgeDeregisters(s)
             \/ BridgeNotifies(s) \/ BridgeDone(s)
      PROVE  GoneFirst(t)'
  <2>1. UNCHANGED <<toGo, loop, nodeDone>>
    BY <1>2 DEF Register, WriteOpen, WriteOpenFails, BrowserLeaves, WriterReads,
                WriterWrites, WriterStops, ReaderReads, ReaderStops, BridgeCloses,
                BridgeDeregisters, BridgeNotifies, BridgeDone
  <2> QED BY <1>q, <2>1 DEF LoopHas
<1>3. ASSUME LoopReads PROVE GoneFirst(t)'
  <2>1. /\ toGo # <<>> /\ toGo' = Tail(toGo) /\ nodeDone' = nodeDone
        /\ loop' = Head(toGo) \/ loop' = [type |-> "stopped"]
    BY <1>3 DEF LoopReads
  <2>2. /\ CloseIn(toGo', t) => CloseIn(toGo, t)
        /\ IsClose(Head(toGo), t) => CloseIn(toGo, t)
    BY <1>w, <2>1, InTail
  <2>3. LoopHas("close", t)' => IsClose(Head(toGo), t)
    BY <2>1 DEF LoopHas, IsClose
  <2> QED BY <1>g, <2>1, <2>2, <2>3 DEF GoneFirst
<1>4. ASSUME LoopDelivers \/ LoopRefuses \/ LoopNotifies \/ LoopCloses \/ LoopStops
      PROVE  GoneFirst(t)'
  <2>1. UNCHANGED <<toGo, nodeDone>> /\ ~LoopHas("close", t)'
    BY <1>4 DEF LoopDelivers, LoopRefuses, LoopNotifies, LoopCloses, LoopStops,
                AfterRefusal, LoopHas
  <2> QED BY <1>q, <2>1
<1>5. ASSUME NEW s \in Streams, NodeSends(s) PROVE GoneFirst(t)'
  <2>1. /\ UNCHANGED <<loop, nodeDone>> /\ nodeSent[s] < MaxSent
        /\ toGo' = toGo \/ toGo' = Append(toGo, Data(s, nodeSent[s] + 1))
    BY <1>5 DEF NodeSends, NodeWrites
  <2>2. nodeSent[s] + 1 \in 1..MaxSent
    <3>1. nodeSent[s] \in 0..MaxSent
      BY DEF TypeOK
    <3> QED BY <2>1, <3>1, LimitsAssumption
  <2>3. /\ Data(s, nodeSent[s] + 1) \in Frames
        /\ ~IsClose(Data(s, nodeSent[s] + 1), t)
    BY <2>2, FrameFacts DEF IsClose, Data
  <2>4. CloseIn(toGo', t) => CloseIn(toGo, t)
    <3>1. CloseIn(Append(toGo, Data(s, nodeSent[s] + 1)), t) => CloseIn(toGo, t)
      BY <1>w, <2>3, InAppend
    <3> QED BY <2>1, <3>1
  <2>5. LoopHas("close", t)' => LoopHas("close", t)
    BY <2>1 DEF LoopHas
  <2> QED BY <1>g, <2>1, <2>4, <2>5 DEF GoneFirst
<1>6. ASSUME NEW s \in Streams, NodeClosesStream(s) PROVE GoneFirst(t)'
  <2>1. /\ UNCHANGED loop /\ nodeDone' = nodeDone \cup {s}
        /\ toGo' = toGo \/ toGo' = Append(toGo, Close(s))
    BY <1>6 DEF NodeClosesStream, NodeWrites
  <2>2. Close(s) \in Frames /\ (IsClose(Close(s), t) => t = s)
    BY FrameFacts DEF IsClose
  <2>3. CloseIn(toGo', t) => CloseIn(toGo, t) \/ t = s
    <3>1. CloseIn(Append(toGo, Close(s)), t) => CloseIn(toGo, t) \/ t = s
      BY <1>w, <2>2, InAppend
    <3> QED BY <2>1, <3>1
  <2>4. LoopHas("close", t)' => LoopHas("close", t)
    BY <2>1 DEF LoopHas
  <2> QED BY <1>g, <2>1, <2>3, <2>4 DEF GoneFirst
<1> QED BY <1>1, <1>2, <1>3, <1>4, <1>5, <1>6
        DEF Next, BridgeStep, WriterStep, ReaderStep, LoopStep

LEMMA NewStep ==
    ASSUME TypeOK, SentInv, FreshInv, NodeInv, [Next]_vars,
           nodeSock' = "open", NEW t \in Streams
    PROVE  NewToNode(t)'
<1> USE DEF goVars, wires, bridgeVars, streamVars, nodeVars, traffic
<1>w. toNode \in Seq(Frames)
  BY DEF TypeOK
<1>q. ASSUME nodeSock = "open",
             t \in nodeStreams' => t \in nodeStreams,
             t \in nodeDone' => t \in nodeDone \/ t \in nodeStreams,
             \/ toNode' = toNode
             \/ \E f \in Frames : ~IsOpen(f, t) /\ toNode' = Append(toNode, f)
             \/ toNode # <<>> /\ toNode' = Tail(toNode)
      PROVE  NewToNode(t)'
  BY <1>q, NewQuiet DEF NodeInv
<1>1. ASSUME \/ BackendCloses \/ BackendSweeps \/ UNCHANGED vars
             \/ LoopReads \/ LoopDelivers \/ LoopRefuses \/ LoopCloses \/ LoopStops
      PROVE  NewToNode(t)'
  <2>1. UNCHANGED <<nodeSock, nodeStreams, nodeDone, toNode>>
    BY <1>1 DEF BackendCloses, BackendSweeps, vars, LoopReads,
                LoopDelivers, LoopRefuses, LoopCloses, LoopStops
  <2> QED BY <1>q, <2>1
<1>2. ASSUME NEW s \in Streams,
             \/ Register(s) \/ WriteOpenFails(s) \/ BrowserLeaves(s)
             \/ WriterReads(s) \/ WriterStops(s) \/ ReaderReads(s)
             \/ ReaderStops(s) \/ BridgeCloses(s) \/ BridgeDeregisters(s)
             \/ BridgeDone(s) \/ NodeSends(s)
      PROVE  NewToNode(t)'
  <2>1. nodeSock = "open" /\ UNCHANGED <<nodeStreams, nodeDone, toNode>>
    BY <1>2 DEF Register, WriteOpenFails, WriteFailed, BrowserLeaves, WriterReads,
                WriterStops, ReaderReads, ReaderStops, BridgeCloses,
                BridgeDeregisters, BridgeDone, NodeSends
  <2> QED BY <1>q, <2>1
<1>3. ASSUME NodeSocketCloses PROVE NewToNode(t)'
  BY <1>3 DEF NodeSocketCloses
<1>4. ASSUME NEW s \in Streams, NodeClosesStream(s) PROVE NewToNode(t)'
  <2>1. /\ UNCHANGED <<nodeSock, toNode>> /\ s \in nodeStreams
        /\ nodeStreams' = nodeStreams \ {s} /\ nodeDone' = nodeDone \cup {s}
    BY <1>4 DEF NodeClosesStream
  <2> QED BY <1>q, <2>1
<1>5. ASSUME NEW s \in Streams, BridgeNotifies(s) PROVE NewToNode(t)'
  <2>1. /\ UNCHANGED <<nodeSock, nodeStreams, nodeDone>>
        /\ toNode' = toNode \/ toNode' = Append(toNode, Close(s))
    BY <1>5 DEF BridgeNotifies, Written, WriteFailed
  <2>2. Close(s) \in Frames /\ ~IsOpen(Close(s), t)
    BY FrameFacts DEF IsOpen, Close
  <2> QED BY <1>q, <2>1, <2>2
<1>6. ASSUME LoopNotifies PROVE NewToNode(t)'
  <2>1. /\ UNCHANGED <<nodeSock, nodeStreams, nodeDone>> /\ loop.type = "notify"
        /\ toNode' = toNode \/ toNode' = Append(toNode, Close(loop.stream))
    BY <1>6 DEF LoopNotifies, Written, WriteFailed
  <2>2. loop.stream \in Streams
    BY <2>1 DEF TypeOK, Frames
  <2>3. Close(loop.stream) \in Frames /\ ~IsOpen(Close(loop.stream), t)
    BY <2>2, FrameFacts DEF IsOpen, Close
  <2> QED BY <1>q, <2>1, <2>3
<1>7. ASSUME NEW s \in Streams, WriterWrites(s) PROVE NewToNode(t)'
  <2>1. UNCHANGED <<nodeSock, nodeStreams, nodeDone>>
    BY <1>7 DEF WriterWrites
  <2>2. browserSent[s] \in 1..MaxSent
    BY <1>7 DEF SentInv, WriterWrites, TypeOK
  <2>3. /\ Data(s, browserSent[s]) \in Frames /\ ~IsOpen(Data(s, browserSent[s]), t)
        /\ toNode' = toNode \/ toNode' = Append(toNode, Data(s, browserSent[s]))
    BY <1>7, <2>2, FrameFacts DEF IsOpen, Data, WriterWrites, Written, WriteFailed
  <2> QED BY <1>q, <2>1, <2>3
<1>8. ASSUME NEW s \in Streams, WriteOpen(s) PROVE NewToNode(t)'
  <2>1. /\ UNCHANGED <<nodeSock, nodeStreams, nodeDone>> /\ bridge[s] = "opening"
        /\ toNode' = Append(toNode, Open(s)) /\ Open(s) \in Frames
    BY <1>8, FrameFacts DEF WriteOpen, Written
  <2>2. CASE t # s
    <3>1. ~IsOpen(Open(s), t)
      BY <2>2, FrameFacts DEF IsOpen
    <3> QED BY <1>q, <2>1, <3>1
  <2>3. CASE t = s
    <3>1. Untouched(t)
      BY <2>1, <2>3 DEF FreshInv
    <3>2. Avoids(toNode, t) /\ t \notin nodeStreams /\ t \notin nodeDone
      BY <3>1 DEF Untouched
    <3>3. ~OpenIn(toNode, t) /\ ~CloseIn(toNode, t) /\ OpenFirst(toNode, t)
      BY <3>2, AvoidsIn
    <3>4. OpenFirst(toNode', t)
      BY <1>w, <2>1, <3>3, OpenAppend
    <3> QED BY <2>1, <3>2, <3>4 DEF NewToNode
  <2> QED BY <2>2, <2>3
<1>9. ASSUME NodeDispatches PROVE NewToNode(t)'
  <2>1. /\ nodeSock = "open" /\ toNode # <<>> /\ toNode' = Tail(toNode)
    BY <1>9 DEF NodeDispatches
  <2>2. NewToNode(t)
    BY <2>1 DEF NodeInv
  <2>3. CASE IsOpen(Head(toNode), t) \/ IsClose(Head(toNode), t)
    <3>1. OpenFirst(toNode', t) /\ ~OpenIn(toNode', t)
      BY <1>w, <2>1, <2>2, <2>3, OpenTail DEF NewToNode
    <3> QED BY <3>1 DEF NewToNode
  <2>4. CASE ~IsOpen(Head(toNode), t) /\ ~IsClose(Head(toNode), t)
    <3>1. /\ t \in nodeStreams' => t \in nodeStreams
          /\ t \in nodeDone' => t \in nodeDone
      BY <1>9, <2>4 DEF NodeDispatches, IsOpen, IsClose
    <3> QED BY <1>q, <2>1, <3>1
  <2> QED BY <2>3, <2>4
<1> QED BY <1>1, <1>2, <1>3, <1>4, <1>5, <1>6, <1>7, <1>8, <1>9
        DEF Next, BridgeStep, WriterStep, ReaderStep, LoopStep

LEMMA NodeStep ==
    ASSUME TypeOK, SentInv, FreshInv, NodeInv, [Next]_vars PROVE NodeInv'
<1> USE DEF goVars, wires, bridgeVars, streamVars, nodeVars, traffic
<1>1. nodeStreams' \cap nodeDone' = {}
  <2>0. nodeStreams \cap nodeDone = {}
    BY DEF NodeInv
  <2>1. CASE UNCHANGED <<nodeStreams, nodeDone>>
    BY <2>0, <2>1
  <2>2. CASE NodeSocketCloses \/ \E s \in Streams : NodeClosesStream(s)
    BY <2>0, <2>2 DEF NodeSocketCloses, NodeClosesStream
  <2>3. CASE NodeDispatches
    <3>1. /\ nodeSock = "open" /\ toNode # <<>>
          /\ \/ UNCHANGED <<nodeStreams, nodeDone>>
             \/ /\ Head(toNode).type = "open" /\ nodeDone' = nodeDone
                /\ nodeStreams' = nodeStreams \cup {Head(toNode).stream}
             \/ /\ nodeDone' = nodeDone \cup {Head(toNode).stream}
                /\ nodeStreams' = nodeStreams \ {Head(toNode).stream}
      BY <2>3 DEF NodeDispatches
    <3>2. ASSUME Head(toNode).type = "open"
          PROVE  Head(toNode).stream \notin nodeDone
      <4> DEFINE s == Head(toNode).stream
      <4>1. toNode \in Seq(Frames)
        BY DEF TypeOK
      <4>2. s \in Streams
        BY <3>1, <4>1, WireTail, FrameFacts
      <4>3. OpenIn(toNode, s)
        BY <3>1, <3>2, <4>1, InTail DEF IsOpen
      <4> QED BY <3>1, <4>2, <4>3 DEF NodeInv, NewToNode
    <3> QED BY <2>0, <3>1, <3>2
  <2>4. ASSUME \/ BackendCloses \/ BackendSweeps \/ LoopStep \/ UNCHANGED vars
        PROVE  UNCHANGED <<nodeStreams, nodeDone>>
    BY <2>4 DEF BackendCloses, BackendSweeps, vars, LoopStep, LoopReads, LoopDelivers,
                LoopRefuses, LoopNotifies, LoopCloses, LoopStops
  <2>5. ASSUME NEW s \in Streams,
               \/ Register(s) \/ BrowserLeaves(s) \/ WriterReads(s) \/ BridgeStep(s)
               \/ WriterStep(s) \/ ReaderStep(s) \/ NodeSends(s)
        PROVE  UNCHANGED <<nodeStreams, nodeDone>>
    BY <2>5 DEF Register, WriteOpen, WriteOpenFails, BrowserLeaves, WriterReads,
                WriterWrites, WriterStops, ReaderReads, ReaderStops, BridgeCloses,
                BridgeDeregisters, BridgeNotifies, BridgeDone, NodeSends, BridgeStep,
                WriterStep, ReaderStep
  <2> QED BY <2>1, <2>2, <2>3, <2>4, <2>5 DEF Next
<1>2. \A t \in Streams : GoneFirst(t)'
  BY GoneStep
<1>3. nodeSock' = "open" => \A t \in Streams : NewToNode(t)'
  BY NewStep
<1> QED BY <1>1, <1>2, <1>3 DEF NodeInv


-----------------------------------------------------------------------------
(* What one side knows and the other does not.                                 *)

\* Nothing the sides know of the stream is lost.
LEMMA KnownQuiet ==
    ASSUME NEW t \in Streams, Known(t),
           t \in registered' <=> t \in registered,
           t \in nodeStreams' <=> t \in nodeStreams,
           OpenIn(toNode', t) <=> OpenIn(toNode, t),
           Closing(t) => Closing(t)',
           bridge[t] = "opening" => bridge'[t] = "opening",
           CloseIn(toGo, t) \/ LoopHas("close", t)
             => CloseIn(toGo', t) \/ LoopHas("close", t)'
    PROVE  Known(t)'
BY DEF Known

LEMMA KnownInit == Init => KnownInv
BY DEF Init, KnownInv, Known, OpenIn

LEMMA KnownStep ==
    ASSUME TypeOK, SentInv, FreshInv, CloserInv, NodeInv, KnownInv, [Next]_vars
    PROVE  KnownInv'
<1> SUFFICES ASSUME goConn' = "open", nodeSock' = "open", NEW t \in Streams
             PROVE  Known(t)'
  BY DEF KnownInv
<1> USE DEF goVars, wires, bridgeVars, streamVars, nodeVars, traffic
<1>t. /\ bridge \in [Streams -> {"none", "opening", "running", "closing",
                                 "notifying", "draining", "done"}]
      /\ toNode \in Seq(Frames) /\ toGo \in Seq(Frames)
  BY DEF TypeOK
<1>q. ASSUME goConn = "open", nodeSock = "open",
             t \in registered' <=> t \in registered,
             t \in nodeStreams' <=> t \in nodeStreams,
             OpenIn(toNode', t) <=> OpenIn(toNode, t),
             Closing(t) => Closing(t)',
             bridge[t] = "opening" => bridge'[t] = "opening",
             CloseIn(toGo, t) \/ LoopHas("close", t)
               => CloseIn(toGo', t) \/ LoopHas("close", t)'
      PROVE  Known(t)'
  BY <1>q, KnownQuiet DEF KnownInv
\* The step concerns neither the map, nor the wires, nor readLoop.
<1>k. ASSUME goConn = "open", nodeSock = "open",
             UNCHANGED <<registered, nodeStreams, toNode, toGo, loop>>,
             bridge[t] \in {"opening", "notifying"} => bridge'[t] = bridge[t]
      PROVE  Known(t)'
  <2>1. Closing(t) => Closing(t)'
    BY <1>k DEF Closing, LoopHas
  <2>2. LoopHas("close", t) => LoopHas("close", t)'
    BY <1>k DEF LoopHas
  <2> QED BY <1>k, <1>q, <2>1, <2>2
<1>1. ASSUME BackendCloses \/ BackendSweeps \/ NodeSocketCloses \/ LoopStops
             \/ UNCHANGED vars
      PROVE  Known(t)'
  <2>1. UNCHANGED vars
    BY <1>1 DEF BackendCloses, BackendSweeps, NodeSocketCloses, LoopStops
  <2> QED BY <1>k, <2>1 DEF vars
<1>2. ASSUME NEW s \in Streams,
             \/ BrowserLeaves(s) \/ WriterReads(s) \/ WriterStops(s) \/ ReaderReads(s)
             \/ ReaderStops(s) \/ BridgeCloses(s) \/ BridgeDone(s)
      PROVE  Known(t)'
  <2>1. /\ goConn = "open" /\ nodeSock = "open"
        /\ UNCHANGED <<registered, nodeStreams, toNode, toGo, loop>>
    BY <1>2 DEF BrowserLeaves, WriterReads, WriterStops, ReaderReads, ReaderStops,
                BridgeCloses, BridgeDone
  <2>2. bridge[t] \in {"opening", "notifying"} => bridge'[t] = bridge[t]
    BY <1>2, <1>t DEF BrowserLeaves, WriterReads, WriterStops, ReaderReads, ReaderStops,
                      BridgeCloses, BridgeDone
  <2> QED BY <1>k, <2>1, <2>2
<1>3. ASSUME NEW s \in Streams, WriteOpenFails(s) PROVE Known(t)'
  BY <1>3 DEF WriteOpenFails, WriteFailed
<1>4. ASSUME NEW s \in Streams, Register(s) PROVE Known(t)'
  <2>1. /\ goConn = "open" /\ nodeSock = "open" /\ bridge[s] = "none"
        /\ UNCHANGED <<nodeStreams, toNode, toGo, loop>>
        /\ registered' = registered \cup {s}
        /\ bridge' = [bridge EXCEPT ![s] = "opening"]
    BY <1>4 DEF Register
  <2>2. CASE t = s
    <3>1. t \in registered' /\ bridge'[t] = "opening"
      BY <1>t, <2>1, <2>2
    <3> QED BY <3>1 DEF Known
  <2>3. CASE t # s
    <3>1. bridge'[t] = bridge[t] /\ (t \in registered' <=> t \in registered)
      BY <1>t, <2>1, <2>3
    <3>2. /\ Closing(t) => Closing(t)'
          /\ LoopHas("close", t) => LoopHas("close", t)'
      BY <2>1, <3>1 DEF Closing, LoopHas
    <3> QED BY <1>q, <2>1, <3>1, <3>2
  <2> QED BY <2>2, <2>3
<1>5. ASSUME NEW s \in Streams, WriteOpen(s) PROVE Known(t)'
  <2>1. /\ goConn = "open" /\ nodeSock = "open" /\ bridge[s] = "opening"
        /\ UNCHANGED <<nodeStreams, toGo, loop, registered>>
        /\ toNode' = Append(toNode, Open(s)) /\ Open(s) \in Frames
        /\ bridge' = [bridge EXCEPT ![s] = "running"]
    BY <1>5, FrameFacts DEF WriteOpen, Written
  <2>2. /\ OpenIn(toNode', t) <=> OpenIn(toNode, t) \/ IsOpen(Open(s), t)
        /\ CloseIn(toNode, t) => CloseIn(toNode', t)
    BY <1>t, <2>1, InAppend
  <2>3. CASE t = s
    <3>1. t \in registered'
      BY <2>1, <2>3 DEF FreshInv
    <3>2. OpenIn(toNode', t)
      BY <2>2, <2>3, FrameFacts
    <3> QED BY <3>1, <3>2 DEF Known
  <2>4. CASE t # s
    <3>1. bridge'[t] = bridge[t] /\ (OpenIn(toNode', t) <=> OpenIn(toNode, t))
      BY <1>t, <2>1, <2>2, <2>4, FrameFacts DEF IsOpen
    <3>2. /\ Closing(t) => Closing(t)'
          /\ LoopHas("close", t) => LoopHas("close", t)'
      BY <2>1, <2>2, <3>1 DEF Closing, LoopHas
    <3> QED BY <1>q, <2>1, <3>1, <3>2
  <2> QED BY <2>3, <2>4
<1>6. ASSUME NEW s \in Streams, WriterWrites(s) PROVE Known(t)'
  <2>1. /\ goConn = "open" /\ nodeSock = "open"
        /\ UNCHANGED <<registered, bridge, nodeStreams, toGo, loop>>
        /\ toNode' = Append(toNode, Data(s, browserSent[s]))
    BY <1>6 DEF WriterWrites, Written, WriteFailed
  <2>2. browserSent[s] \in 1..MaxSent
    BY <1>6 DEF SentInv, WriterWrites, TypeOK
  <2>3. /\ Data(s, browserSent[s]) \in Frames
        /\ ~IsOpen(Data(s, browserSent[s]), t)
    BY <2>2, FrameFacts DEF IsOpen, Data
  <2>4. /\ OpenIn(toNode', t) <=> OpenIn(toNode, t)
        /\ CloseIn(toNode, t) => CloseIn(toNode', t)
    BY <1>t, <2>1, <2>3, InAppend
  <2>5. /\ Closing(t) => Closing(t)'
        /\ LoopHas("close", t) => LoopHas("close", t)'
    BY <2>1, <2>4 DEF Closing, LoopHas
  <2> QED BY <1>q, <2>1, <2>4, <2>5
<1>7. ASSUME NEW s \in Streams, BridgeDeregisters(s) PROVE Known(t)'
  <2>1. /\ goConn = "open" /\ nodeSock = "open" /\ bridge[s] = "closing"
        /\ UNCHANGED <<nodeStreams, toNode, toGo, loop>>
        /\ registered' = registered \ {s}
        /\ bridge' = [bridge EXCEPT ![s] = AfterDeregister(s)]
    BY <1>7 DEF BridgeDeregisters
  <2>2. CASE t = s /\ t \in registered
    <3>1. bridge'[t] = "notifying" /\ t \notin registered'
      BY <1>t, <2>1, <2>2 DEF AfterDeregister
    <3>2. Closing(t)'
      BY <3>1 DEF Closing
    <3> QED BY <3>1, <3>2 DEF Known
  <2>3. CASE t # s \/ t \notin registered
    <3>1. /\ bridge[t] \in {"opening", "notifying"} => bridge'[t] = bridge[t]
          /\ t \in registered' <=> t \in registered
      BY <1>t, <2>1, <2>3 DEF AfterDeregister
    <3>2. /\ Closing(t) => Closing(t)'
          /\ LoopHas("close", t) => LoopHas("close", t)'
      BY <2>1, <3>1 DEF Closing, LoopHas
    <3> QED BY <1>q, <2>1, <3>1, <3>2
  <2> QED BY <2>2, <2>3
<1>8. ASSUME NEW s \in Streams, BridgeNotifies(s) PROVE Known(t)'
  <2>1. /\ goConn = "open" /\ nodeSock = "open" /\ bridge[s] = "notifying"
        /\ UNCHANGED <<nodeStreams, toGo, loop, registered>>
        /\ toNode' = Append(toNode, Close(s)) /\ Close(s) \in Frames
        /\ bridge' = [bridge EXCEPT ![s] = "draining"]
    BY <1>8, FrameFacts DEF BridgeNotifies, Written, WriteFailed
  <2>2. ~IsOpen(Close(s), t) /\ (t = s => IsClose(Close(s), t))
    BY FrameFacts DEF IsOpen, Close
  <2>3. /\ OpenIn(toNode', t) <=> OpenIn(toNode, t)
        /\ CloseIn(toNode', t) <=> CloseIn(toNode, t) \/ IsClose(Close(s), t)
    BY <1>t, <2>1, <2>2, InAppend
  <2>4. /\ bridge[t] = "opening" => bridge'[t] = "opening"
        /\ t # s => bridge'[t] = bridge[t]
    BY <1>t, <2>1
  <2>5. Closing(t) => Closing(t)'
    BY <2>1, <2>2, <2>3, <2>4 DEF Closing, LoopHas
  <2>6. LoopHas("close", t) => LoopHas("close", t)'
    BY <2>1 DEF LoopHas
  <2> QED BY <1>q, <2>1, <2>3, <2>4, <2>5, <2>6
<1>9. ASSUME LoopReads PROVE Known(t)'
  <2>1. /\ goConn = "open" /\ nodeSock = "open" /\ loop.type = "reading"
        /\ UNCHANGED <<registered, bridge, nodeStreams, toNode>>
        /\ toGo # <<>> /\ toGo' = Tail(toGo) /\ loop' = Head(toGo)
    BY <1>9 DEF LoopReads
  <2>2. CloseIn(toGo, t) <=> IsClose(Head(toGo), t) \/ CloseIn(toGo', t)
    BY <1>t, <2>1, InTail
  <2>3. /\ ~LoopHas("close", t) /\ ~LoopHas("notify", t)
        /\ IsClose(Head(toGo), t) => LoopHas("close", t)'
    BY <2>1 DEF LoopHas, IsClose
  <2>4. Closing(t) => Closing(t)'
    BY <2>1, <2>3 DEF Closing
  <2> QED BY <1>q, <2>1, <2>2, <2>3, <2>4
<1>10. ASSUME LoopDelivers PROVE Known(t)'
  <2>1. /\ goConn = "open" /\ nodeSock = "open" /\ loop.type = "data"
        /\ UNCHANGED <<registered, bridge, nodeStreams, toNode, toGo>>
    BY <1>10 DEF LoopDelivers
  <2>2. ~LoopHas("close", t) /\ ~LoopHas("notify", t)
    BY <2>1 DEF LoopHas
  <2>3. Closing(t) => Closing(t)'
    BY <2>1, <2>2 DEF Closing
  <2> QED BY <1>q, <2>1, <2>2, <2>3
<1>11. ASSUME LoopRefuses PROVE Known(t)'
  <2>1. /\ goConn = "open" /\ nodeSock = "open" /\ loop.type = "data"
        /\ UNCHANGED <<bridge, nodeStreams, toNode, toGo>>
        /\ registered' = registered \ {loop.stream} /\ loop' = AfterRefusal
    BY <1>11 DEF LoopRefuses
  <2>2. ~LoopHas("close", t) /\ ~LoopHas("notify", t)
    BY <2>1 DEF LoopHas
  <2>3. CASE t = loop.stream /\ t \in registered
    <3>1. LoopHas("notify", t)' /\ t \notin registered'
      BY <2>1, <2>3 DEF AfterRefusal, LoopHas
    <3> QED BY <3>1 DEF Known, Closing
  <2>4. CASE t # loop.stream \/ t \notin registered
    <3>1. t \in registered' <=> t \in registered
      BY <2>1, <2>4
    <3>2. Closing(t) => Closing(t)'
      BY <2>1, <2>2 DEF Closing
    <3> QED BY <1>q, <2>1, <2>2, <3>1, <3>2
  <2> QED BY <2>3, <2>4
<1>12. ASSUME LoopNotifies PROVE Known(t)'
  <2>1. /\ goConn = "open" /\ nodeSock = "open" /\ loop.type = "notify"
        /\ UNCHANGED <<registered, bridge, nodeStreams, toGo>>
        /\ toNode' = Append(toNode, Close(loop.stream))
    BY <1>12 DEF LoopNotifies, Written, WriteFailed
  <2>2. loop.stream \in Streams
    BY <2>1 DEF TypeOK, Frames
  <2>3. /\ Close(loop.stream) \in Frames /\ ~IsOpen(Close(loop.stream), t)
        /\ t = loop.stream => IsClose(Close(loop.stream), t)
    BY <2>2, FrameFacts DEF IsOpen, Close
  <2>4. /\ OpenIn(toNode', t) <=> OpenIn(toNode, t)
        /\ CloseIn(toNode', t) <=> CloseIn(toNode, t) \/ IsClose(Close(loop.stream), t)
    BY <1>t, <2>1, <2>3, InAppend
  <2>5. Closing(t) => Closing(t)'
    BY <2>1, <2>3, <2>4 DEF Closing, LoopHas
  <2>6. ~LoopHas("close", t)
    BY <2>1 DEF LoopHas
  <2> QED BY <1>q, <2>1, <2>4, <2>5, <2>6
<1>13. ASSUME LoopCloses PROVE Known(t)'
  <2>1. /\ goConn = "open" /\ nodeSock = "open" /\ loop.type = "close"
        /\ UNCHANGED <<bridge, nodeStreams, toNode, toGo>>
        /\ registered' = registered \ {loop.stream}
    BY <1>13 DEF LoopCloses
  <2>2. CASE t = loop.stream
    <3>1. LoopHas("close", t)
      BY <2>1, <2>2 DEF LoopHas
    <3>2. t \in nodeDone
      BY <3>1 DEF NodeInv, GoneFirst
    <3>3. t \notin nodeStreams /\ ~OpenIn(toNode, t)
      BY <2>1, <3>2 DEF NodeInv, NewToNode
    <3>4. t \notin registered' /\ t \notin nodeStreams' /\ ~OpenIn(toNode', t)
      BY <2>1, <2>2, <3>3
    <3> QED BY <3>4 DEF Known
  <2>3. CASE t # loop.stream
    <3>1. ~LoopHas("close", t) /\ ~LoopHas("notify", t)
      BY <2>1, <2>3 DEF LoopHas
    <3>2. t \in registered' <=> t \in registered
      BY <2>1, <2>3
    <3>3. Closing(t) => Closing(t)'
      BY <2>1, <3>1 DEF Closing
    <3> QED BY <1>q, <2>1, <3>1, <3>2, <3>3
  <2> QED BY <2>2, <2>3
<1>14. ASSUME NEW s \in Streams, NodeSends(s) PROVE Known(t)'
  <2>1. /\ goConn = "open" /\ nodeSock = "open"
        /\ UNCHANGED <<registered, bridge, nodeStreams, toNode, loop>>
        /\ nodeSent[s] < MaxSent
        /\ toGo' = Append(toGo, Data(s, nodeSent[s] + 1))
    BY <1>14 DEF NodeSends, NodeWrites
  <2>2. nodeSent[s] + 1 \in 1..MaxSent
    <3>1. nodeSent[s] \in 0..MaxSent
      BY DEF TypeOK
    <3> QED BY <2>1, <3>1, LimitsAssumption
  <2>3. Data(s, nodeSent[s] + 1) \in Frames
    BY <2>2, FrameFacts
  <2>4. CloseIn(toGo, t) => CloseIn(toGo', t)
    BY <1>t, <2>1, <2>3, InAppend
  <2>5. /\ Closing(t) => Closing(t)'
        /\ LoopHas("close", t) => LoopHas("close", t)'
    BY <2>1 DEF Closing, LoopHas
  <2> QED BY <1>q, <2>1, <2>4, <2>5
<1>15. ASSUME NEW s \in Streams, NodeClosesStream(s) PROVE Known(t)'
  <2>1. /\ goConn = "open" /\ nodeSock = "open"
        /\ UNCHANGED <<registered, bridge, toNode, loop>>
        /\ toGo' = Append(toGo, Close(s)) /\ Close(s) \in Frames
        /\ nodeStreams' = nodeStreams \ {s}
    BY <1>15, FrameFacts DEF NodeClosesStream, NodeWrites
  <2>2. CloseIn(toGo', t) <=> CloseIn(toGo, t) \/ IsClose(Close(s), t)
    BY <1>t, <2>1, InAppend
  <2>3. /\ Closing(t) => Closing(t)'
        /\ LoopHas("close", t) => LoopHas("close", t)'
    BY <2>1 DEF Closing, LoopHas
  <2>4. CASE t # s
    <3>1. t \in nodeStreams' <=> t \in nodeStreams
      BY <2>1, <2>4
    <3> QED BY <1>q, <2>1, <2>2, <2>3, <3>1
  <2>5. CASE t = s
    <3>1. CloseIn(toGo', t)
      BY <2>2, <2>5, FrameFacts
    <3>2. t \notin registered => (s \in nodeStreams => Closing(t)')
      BY <2>1, <2>3, <2>5 DEF KnownInv, Known
    <3>3. s \in nodeStreams
      BY <1>15 DEF NodeClosesStream
    <3> QED BY <2>1, <3>1, <3>2, <3>3 DEF Known
  <2> QED BY <2>4, <2>5
<1>16. ASSUME NodeDispatches PROVE Known(t)'
  <2>1. /\ goConn = "open" /\ nodeSock = "open" /\ toNode # <<>>
        /\ UNCHANGED <<registered, bridge, toGo, loop>> /\ toNode' = Tail(toNode)
    BY <1>16 DEF NodeDispatches
  <2>2. /\ OpenIn(toNode, t) <=> IsOpen(Head(toNode), t) \/ OpenIn(toNode', t)
        /\ CloseIn(toNode, t) <=> IsClose(Head(toNode), t) \/ CloseIn(toNode', t)
    BY <1>t, <2>1, InTail
  <2>3. NewToNode(t) /\ OneCloser(t) /\ Known(t)
    BY <2>1 DEF NodeInv, CloserInv, KnownInv
  <2>4. LoopHas("close", t) => LoopHas("close", t)'
    BY <2>1 DEF LoopHas
  <2>5. CASE IsOpen(Head(toNode), t)
    <3>1. ~IsClose(Head(toNode), t)
      BY <2>5 DEF IsOpen, IsClose
    <3>2. Closing(t) => Closing(t)'
      BY <2>1, <2>2, <3>1 DEF Closing, LoopHas
    <3>3. t \in nodeStreams'
      BY <1>16, <2>5 DEF NodeDispatches, IsOpen
    <3>4. t \notin registered' => Closing(t)'
      BY <2>1, <2>2, <2>3, <2>5, <3>2 DEF Known
    <3> QED BY <3>3, <3>4 DEF Known
  <2>6. CASE IsClose(Head(toNode), t)
    <3>1. t \notin registered'
      BY <2>1, <2>2, <2>3, <2>6 DEF OneCloser
    <3>2. ~OpenIn(toNode', t)
      BY <1>t, <2>1, <2>3, <2>6, OpenTail DEF NewToNode
    <3>3. t \notin nodeStreams'
      BY <1>16, <2>6 DEF NodeDispatches, IsClose
    <3> QED BY <3>1, <3>2, <3>3 DEF Known
  <2>7. CASE ~IsOpen(Head(toNode), t) /\ ~IsClose(Head(toNode), t)
    <3>1. t \in nodeStreams' <=> t \in nodeStreams
      BY <1>16, <2>7 DEF NodeDispatches, IsOpen, IsClose
    <3>2. Closing(t) => Closing(t)'
      BY <2>1, <2>2, <2>7 DEF Closing, LoopHas
    <3> QED BY <1>q, <2>1, <2>2, <2>4, <2>7, <3>1, <3>2
  <2> QED BY <2>5, <2>6, <2>7
<1> QED BY <1>1, <1>2, <1>3, <1>4, <1>5, <1>6, <1>7, <1>8, <1>9, <1>10, <1>11, <1>12,
           <1>13, <1>14, <1>15, <1>16
        DEF Next, BridgeStep, WriterStep, ReaderStep, LoopStep


-----------------------------------------------------------------------------
(* The invariant, and the properties it implies.                               *)

LEMMA IInvInit == Init => IInv
BY TypeInit, FreshInit, SentInit, UpInit, DownInit, CloserInit, NodeInit, KnownInit
   DEF IInv

LEMMA IInvStep == IInv /\ [Next]_vars => IInv'
<1> SUFFICES ASSUME IInv, [Next]_vars PROVE IInv'
  OBVIOUS
<1>1. /\ TypeOK /\ FreshInv /\ SentInv /\ UpInv /\ DownInv
      /\ CloserInv /\ NodeInv /\ KnownInv
  BY DEF IInv
<1>2. TypeOK' /\ FreshInv' /\ SentInv'
  BY <1>1, TypeStep, FreshStep, SentStep
<1>3. UpInv' /\ DownInv'
  BY <1>1, UpStep, DownStep
<1>4. CloserInv' /\ NodeInv' /\ KnownInv'
  BY <1>1, CloserStep, NodeStep, KnownStep
<1> QED BY <1>2, <1>3, <1>4 DEF IInv

LEMMA IInvAlways == Spec => []IInv
BY IInvInit, IInvStep, PTL DEF Spec

(* The state keeps its types, and the queue of a stream never holds more than  *)
(* multiplexMaxQueuedFrames payloads, for every number of streams and faults   *)
(* (deliver in multiplex.go).                                                  *)
THEOREM TypesHold == Spec => []TypeOK
<1>1. IInv => TypeOK
  BY DEF IInv
<1> QED BY <1>1, IInvAlways, PTL

\* One closer of a stream makes at most one CLOSE under way.
LEMMA ClosersAreOne ==
    ASSUME TypeOK, NEW s \in Streams, OneCloser(s)
    PROVE  /\ Cardinality(Closers(s)) <= 1
           /\ s \in registered => Closers(s) = {}
           /\ Closing(s) => Closers(s) # {}
<1> DEFINE Wire == {<<"wire", i>> : i \in {j \in DOMAIN toNode : toNode[j] = Close(s)}}
           Bridge == {<<"bridge", s>> : b \in {bridge[s]} \cap {"notifying"}}
           Loop == {<<"loop", s>> : t \in {loop} \cap {[type |-> "notify", stream |-> s]}}
<1>1. Closers(s) = Wire \cup Bridge \cup Loop
  BY DEF Closers
<1>2. \A i \in DOMAIN toNode : toNode[i] = Close(s) <=> IsClose(toNode[i], s)
  <2>1. \A i \in DOMAIN toNode : toNode[i] \in Frames
    BY LenProperties DEF TypeOK
  <2> QED BY <2>1, CloseUnique
<1>3. loop = [type |-> "notify", stream |-> s] <=> LoopHas("notify", s)
  BY DEF LoopHas, TypeOK, Frames
<1>4. Wire # {} <=> CloseIn(toNode, s)
  BY <1>2 DEF CloseIn
<1>5. Bridge # {} <=> bridge[s] = "notifying"
  OBVIOUS
<1>6. Loop # {} <=> LoopHas("notify", s)
  BY <1>3
<1>7. \A x, y \in Wire : x = y
  BY <1>2 DEF OneCloser, OneClose
<1>8. (\A x, y \in Bridge : x = y) /\ (\A x, y \in Loop : x = y)
  OBVIOUS
<1> HIDE DEF Wire, Bridge, Loop
<1>9. \A x, y \in Closers(s) : x = y
  BY <1>1, <1>4, <1>5, <1>6, <1>7, <1>8 DEF OneCloser
<1>10. Cardinality(Closers(s)) <= 1
  <2>1. CASE Closers(s) = {}
    BY <2>1, FS_EmptySet
  <2>2. CASE Closers(s) # {}
    <3>1. PICK x : x \in Closers(s)
      BY <2>2
    <3>2. Closers(s) = {x}
      BY <1>9, <3>1
    <3> QED BY <3>2, FS_Singleton
  <2> QED BY <2>1, <2>2
<1>11. s \in registered => Closers(s) = {}
  BY <1>1, <1>4, <1>5, <1>6 DEF OneCloser
<1>12. Closing(s) => Closers(s) # {}
  BY <1>1, <1>4, <1>5, <1>6 DEF Closing
<1> QED BY <1>10, <1>11, <1>12

\* The frames that Known speaks of are those of the property.
LEMMA UnderWay ==
    ASSUME NEW s \in Streams, NEW w \in Seq(Frames)
    PROVE  /\ OpenIn(w, s) <=> InWire(Open(s), w)
           /\ CloseIn(w, s) <=> InWire(Close(s), w)
<1>1. \A i \in DOMAIN w : w[i] \in Frames
  BY LenProperties
<1> QED BY <1>1, CloseUnique DEF OpenIn, CloseIn, InWire

(* For every number of streams, payloads and faults: the bridge, the slow      *)
(* consumer path of readLoop and a CLOSE from Node race to close a stream and  *)
(* one of them wins, and a stream that only one side knows is one whose OPEN   *)
(* or CLOSE is under way (closeStream in multiplex.go, dispatch and            *)
(* closeStream in multiplex-channel-handler.ts).                               *)
THEOREM StreamsAreClosedOnce == Spec => []NoHalfOpenStream
<1>1. ASSUME IInv PROVE NoHalfOpenStream
  <2>1. TypeOK /\ CloserInv /\ KnownInv
    BY <1>1 DEF IInv
  <2>2. CloseOnce
    BY <2>1, ClosersAreOne DEF CloseOnce, CloserInv
  <2>3. BothSidesKnow
    <3>1. SUFFICES ASSUME goConn = "open", nodeSock = "open", NEW s \in Streams
                   PROVE  /\ s \in nodeStreams \ registered => Closers(s) # {}
                          /\ s \in registered \ nodeStreams =>
                               \/ bridge[s] = "opening" \/ InWire(Open(s), toNode)
                               \/ InWire(Close(s), toGo) \/ loop = Close(s)
      BY <2>1 DEF BothSidesKnow, TypeOK
    <3>2. OneCloser(s) /\ Known(s)
      BY <2>1, <3>1 DEF CloserInv, KnownInv
    <3>3. /\ OpenIn(toNode, s) <=> InWire(Open(s), toNode)
          /\ CloseIn(toGo, s) <=> InWire(Close(s), toGo)
      BY <2>1, UnderWay DEF TypeOK
    <3>4. LoopHas("close", s) => loop = Close(s)
      BY <2>1 DEF LoopHas, Close, TypeOK, Frames
    <3>5. Closing(s) => Closers(s) # {}
      BY <2>1, <3>2, ClosersAreOne
    <3> QED BY <3>2, <3>3, <3>4, <3>5 DEF Known
  <2> QED BY <2>2, <2>3 DEF NoHalfOpenStream
<1> QED BY <1>1, IInvAlways, PTL

-----------------------------------------------------------------------------
(* The transport implements the logical channels.                              *)

\* The state of the channels, as the refinement maps it.
SentOn == [l \in Links |-> IF l[2] = "up" THEN browserSent[l[1]] ELSE nodeSent[l[1]]]
GotOn == [l \in Links |-> IF l[2] = "up" THEN nodeGot[l[1]] ELSE browserGot[l[1]]]
OverNow == (nodeDone \X {"up"}) \cup
           {l \in Links : /\ l[2] = "down" /\ reader[l[1]] = "done"
                          /\ bridge[l[1]] \notin {"none", "opening"}}

LEMMA ChannelSteps ==
    /\ Channels!Init <=> /\ SentOn = [l \in Links |-> 0]
                         /\ GotOn = [l \in Links |-> <<>>] /\ OverNow = {}
    /\ \A l : Channels!Send(l) <=> /\ SentOn' = [SentOn EXCEPT ![l] = @ + 1]
                                   /\ GotOn' = GotOn /\ OverNow' = OverNow
    /\ \A l : Channels!Deliver(l) <=>
                /\ l \notin OverNow /\ Len(GotOn[l]) < SentOn[l]
                /\ GotOn' = [GotOn EXCEPT ![l] = Append(@, Len(@) + 1)]
                /\ SentOn' = SentOn /\ OverNow' = OverNow
    /\ Channels!End <=> /\ \E gone \in SUBSET Links : OverNow' = OverNow \cup gone
                        /\ SentOn' = SentOn /\ GotOn' = GotOn
BY DEF Channels!Init, Channels!Send, Channels!Deliver, Channels!End, SentOn, GotOn, OverNow


LEMMA ChannelInit == Init => Channels!Init
<1> SUFFICES ASSUME Init
             PROVE  /\ SentOn = [l \in Links |-> 0]
                    /\ GotOn = [l \in Links |-> <<>>] /\ OverNow = {}
  BY ChannelSteps
<1>1. \A l \in Links : l[1] \in Streams
  BY DEF Links
<1>2. SentOn = [l \in Links |-> 0]
  BY <1>1 DEF Init, SentOn
<1>3. GotOn = [l \in Links |-> <<>>]
  BY <1>1 DEF Init, GotOn
<1>4. OverNow = {}
  <2>1. \A l \in Links : bridge[l[1]] = "none"
    BY <1>1 DEF Init
  <2>2. nodeDone = {}
    BY DEF Init
  <2> QED BY <2>1, <2>2 DEF OverNow
<1> QED BY <1>2, <1>3, <1>4

\* The reader of a stream is over once it stopped after it ran.
ReaderOver(s) == reader[s] = "done" /\ bridge[s] \notin {"none", "opening"}

LEMMA OverIs ==
    /\ OverNow = (nodeDone \X {"up"}) \cup {l \in Links : l[2] = "down" /\ ReaderOver(l[1])}
    /\ OverNow' = (nodeDone' \X {"up"})
                    \cup {l \in Links : l[2] = "down" /\ ReaderOver(l[1])'}
BY DEF OverNow, ReaderOver

LEMMA EndStep ==
    ASSUME TypeOK', UNCHANGED traffic, nodeDone \subseteq nodeDone',
           \A s \in Streams : ReaderOver(s) => ReaderOver(s)'
    PROVE  Channels!End
<1>1. SentOn' = SentOn /\ GotOn' = GotOn
  BY DEF traffic, SentOn, GotOn
<1>2. OverNow \subseteq OverNow'
  BY OverIs DEF Links
<1>3. OverNow' \in SUBSET Links
  <2>1. nodeDone' \subseteq Streams
    BY DEF TypeOK
  <2> QED BY <2>1, OverIs DEF Links
<1>4. OverNow' = OverNow \cup OverNow'
  BY <1>2
<1> QED BY <1>1, <1>3, <1>4, ChannelSteps

\* A payload more is sent, or has arrived, on one link.
LEMMA SentUp ==
    ASSUME TypeOK, NEW s \in Streams, browserSent' = [browserSent EXCEPT ![s] = @ + 1],
           nodeSent' = nodeSent
    PROVE  SentOn' = [SentOn EXCEPT ![<<s, "up">>] = @ + 1]
<1>1. browserSent \in [Streams -> 0..MaxSent]
  BY DEF TypeOK
<1>2. <<s, "up">> \in Links /\ SentOn[<<s, "up">>] = browserSent[s]
  BY DEF Links, SentOn
<1>3. ASSUME NEW l \in Links
      PROVE  SentOn'[l] = [SentOn EXCEPT ![<<s, "up">>] = @ + 1][l]
  <2>1. l[1] \in Streams /\ l[2] \in {"up", "down"} /\ l = <<l[1], l[2]>>
    BY DEF Links
  <2>2. CASE l = <<s, "up">>
    BY <1>1, <1>2, <2>2 DEF SentOn
  <2>3. CASE l # <<s, "up">>
    <3>1. l[2] = "up" => l[1] # s
      BY <2>1, <2>3
    <3> QED BY <1>1, <2>1, <2>3, <3>1 DEF SentOn
  <2> QED BY <2>2, <2>3
<1> QED BY <1>3 DEF SentOn

LEMMA SentDown ==
    ASSUME TypeOK, NEW s \in Streams, nodeSent' = [nodeSent EXCEPT ![s] = @ + 1],
           browserSent' = browserSent
    PROVE  SentOn' = [SentOn EXCEPT ![<<s, "down">>] = @ + 1]
<1>1. nodeSent \in [Streams -> 0..MaxSent]
  BY DEF TypeOK
<1>2. <<s, "down">> \in Links /\ SentOn[<<s, "down">>] = nodeSent[s]
  BY DEF Links, SentOn
<1>3. ASSUME NEW l \in Links
      PROVE  SentOn'[l] = [SentOn EXCEPT ![<<s, "down">>] = @ + 1][l]
  <2>1. l[1] \in Streams /\ l[2] \in {"up", "down"} /\ l = <<l[1], l[2]>>
    BY DEF Links
  <2>2. CASE l = <<s, "down">>
    BY <1>1, <1>2, <2>2 DEF SentOn
  <2>3. CASE l # <<s, "down">>
    <3>1. l[2] # "up" => l[1] # s
      BY <2>1, <2>3
    <3> QED BY <1>1, <2>1, <2>3, <3>1 DEF SentOn
  <2> QED BY <2>2, <2>3
<1> QED BY <1>3 DEF SentOn

LEMMA GotUp ==
    ASSUME TypeOK, NEW s \in Streams, browserGot' = browserGot,
           nodeGot' = [nodeGot EXCEPT ![s] = Append(@, Len(@) + 1)]
    PROVE  GotOn' = [GotOn EXCEPT ![<<s, "up">>] = Append(@, Len(@) + 1)]
<1>1. nodeGot \in [Streams -> Seq(1..MaxSent)]
  BY DEF TypeOK
<1>2. <<s, "up">> \in Links /\ GotOn[<<s, "up">>] = nodeGot[s]
  BY DEF Links, GotOn
<1>3. ASSUME NEW l \in Links
      PROVE  GotOn'[l] = [GotOn EXCEPT ![<<s, "up">>] = Append(@, Len(@) + 1)][l]
  <2>1. l[1] \in Streams /\ l[2] \in {"up", "down"} /\ l = <<l[1], l[2]>>
    BY DEF Links
  <2>2. CASE l = <<s, "up">>
    BY <1>1, <1>2, <2>2 DEF GotOn
  <2>3. CASE l # <<s, "up">>
    <3>1. l[2] = "up" => l[1] # s
      BY <2>1, <2>3
    <3> QED BY <1>1, <2>1, <2>3, <3>1 DEF GotOn
  <2> QED BY <2>2, <2>3
<1> QED BY <1>3 DEF GotOn

LEMMA GotDown ==
    ASSUME TypeOK, NEW s \in Streams, nodeGot' = nodeGot,
           browserGot' = [browserGot EXCEPT ![s] = Append(@, Len(@) + 1)]
    PROVE  GotOn' = [GotOn EXCEPT ![<<s, "down">>] = Append(@, Len(@) + 1)]
<1>1. browserGot \in [Streams -> Seq(1..MaxSent)]
  BY DEF TypeOK
<1>2. <<s, "down">> \in Links /\ GotOn[<<s, "down">>] = browserGot[s]
  BY DEF Links, GotOn
<1>3. ASSUME NEW l \in Links
      PROVE  GotOn'[l] = [GotOn EXCEPT ![<<s, "down">>] = Append(@, Len(@) + 1)][l]
  <2>1. l[1] \in Streams /\ l[2] \in {"up", "down"} /\ l = <<l[1], l[2]>>
    BY DEF Links
  <2>2. CASE l = <<s, "down">>
    BY <1>1, <1>2, <2>2 DEF GotOn
  <2>3. CASE l # <<s, "down">>
    <3>1. l[2] # "up" => l[1] # s
      BY <2>1, <2>3
    <3> QED BY <1>1, <2>1, <2>3, <3>1 DEF GotOn
  <2> QED BY <2>2, <2>3
<1> QED BY <1>3 DEF GotOn

\* What Node reads for a stream is the next payload that the browser sent.
LEMMA NodeReads ==
    ASSUME TypeOK, UpInv, NodeDispatches, nodeGot' # nodeGot
    PROVE  \E s \in Streams :
              /\ s \in nodeStreams /\ Len(nodeGot[s]) < browserSent[s]
              /\ nodeGot' = [nodeGot EXCEPT ![s] = Append(@, Len(@) + 1)]
<1> DEFINE s == Head(toNode).stream
<1>0. toNode \in Seq(Frames)
  BY DEF TypeOK
<1>d. /\ nodeSock = "open" /\ toNode # <<>>
      /\ Head(toNode).type = "data" /\ s \in nodeStreams
      /\ nodeGot' = [nodeGot EXCEPT ![s] = Append(@, Head(toNode).payload)]
  BY DEF NodeDispatches
<1>1. /\ nodeSock = "open" /\ toNode # <<>> /\ toNode \in Seq(Frames)
      /\ Head(toNode).type = "data" /\ s \in nodeStreams
      /\ nodeGot' = [nodeGot EXCEPT ![s] = Append(@, Head(toNode).payload)]
  BY <1>0, <1>d
<1>2. s \in Streams /\ nodeGot \in [Streams -> Seq(1..MaxSent)] /\ browserSent[s] \in Nat
  BY <1>1 DEF TypeOK
<1>3. IsData(Head(toNode), s)
  BY <1>1 DEF IsData
<1>4. Len(nodeGot[s]) \in Nat
  BY <1>2, LenProperties
<1> HIDE DEF s
<1>5. PICK n \in 0..browserSent[s] : WrittenUpTo(s, n)
  BY <1>1, <1>2 DEF UpInv
<1>6. Head(toNode).payload = Len(nodeGot[s]) + 1 /\ Len(nodeGot[s]) + 1 <= n
  BY <1>1, <1>2, <1>3, <1>4, <1>5, ChainTailData DEF WrittenUpTo
<1>7. Len(nodeGot[s]) < browserSent[s]
  BY <1>2, <1>4, <1>5, <1>6
<1>8. nodeGot' = [nodeGot EXCEPT ![s] = Append(@, Len(@) + 1)]
  BY <1>1, <1>6
<1> QED BY <1>1, <1>2, <1>7, <1>8

\* What the browser is handed is the next payload that Node sent.
LEMMA BrowserReads ==
    ASSUME TypeOK, DownInv, NEW s \in Streams, ReaderReads(s)
    PROVE  /\ reader[s] = "reading" /\ Len(browserGot[s]) < nodeSent[s]
           /\ browserGot' = [browserGot EXCEPT ![s] = Append(@, Len(@) + 1)]
<1>1. /\ reader[s] = "reading" /\ incoming[s] # <<>>
      /\ browserGot' = [browserGot EXCEPT ![s] = Append(@, Head(incoming[s]))]
  BY DEF ReaderReads
<1>2. /\ incoming \in [Streams -> Seq(1..MaxSent)]
      /\ browserGot \in [Streams -> Seq(1..MaxSent)]
  BY DEF TypeOK
<1>3. Down(s)
  BY DownIs
<1>4. /\ Head(incoming[s]) = incoming[s][1] /\ 1 \in DOMAIN incoming[s]
      /\ Len(incoming[s]) \in Nat \ {0}
  <2>1. incoming[s] \in Seq(1..MaxSent)
    BY <1>2
  <2> QED BY <1>1, <2>1, HeadTailProperties, EmptySeq, LenProperties
<1>5. Head(incoming[s]) = Len(browserGot[s]) + 1
  BY <1>3, <1>4 DEF Down
<1>6. Len(browserGot[s]) < nodeSent[s]
  <2>1. Queued(s) <= Fetched(s) /\ Fetched(s) <= nodeSent[s] /\ Queued(s) \in Nat
        /\ Fetched(s) \in Nat /\ nodeSent[s] \in Nat
    <3>1. Queued(s) \in Nat /\ Fetched(s) \in Nat /\ nodeSent[s] \in Nat
      BY DownTypes
    <3>2. Fetched(s) = Queued(s) \/ Fetched(s) = Queued(s) + 1
      BY DEF Fetched
    <3> QED BY <1>3, <3>1, <3>2 DEF Down
  <2>2. Len(browserGot[s]) < Len(browserGot[s]) + Len(incoming[s])
    BY <1>2, <1>4
  <2>3. Len(browserGot[s]) < Queued(s) /\ Len(browserGot[s]) \in Nat
    BY <2>2, DownTypes DEF Queued
  <2> QED BY <2>1, <2>3
<1> QED BY <1>1, <1>5, <1>6


\* A reader that is over stays over: only WriteOpen starts one.
LEMMA OverStays ==
    ASSUME TypeOK, [Next]_vars, NEW t \in Streams, ReaderOver(t) PROVE ReaderOver(t)'
<1> USE DEF goVars, wires, bridgeVars, streamVars, nodeVars, traffic
<1>t. /\ bridge \in [Streams -> {"none", "opening", "running", "closing",
                                 "notifying", "draining", "done"}]
      /\ reader \in [Streams -> {"reading", "done"}]
  BY DEF TypeOK
<1>o. reader[t] = "done" /\ bridge[t] \notin {"none", "opening"}
  BY DEF ReaderOver
<1>1. ASSUME \/ BackendCloses \/ BackendSweeps \/ LoopStep \/ NodeDispatches
             \/ NodeSocketCloses \/ UNCHANGED vars
      PROVE  ReaderOver(t)'
  <2>1. UNCHANGED <<reader, bridge>>
    BY <1>1 DEF BackendCloses, BackendSweeps, LoopStep, LoopReads, LoopDelivers,
                LoopRefuses, LoopNotifies, LoopCloses, LoopStops, NodeDispatches,
                NodeSocketCloses, vars
  <2> QED BY <1>o, <2>1 DEF ReaderOver
<1>2. ASSUME NEW s \in Streams,
             \/ BrowserLeaves(s) \/ WriterReads(s) \/ WriterStep(s) \/ ReaderReads(s)
             \/ NodeSends(s) \/ NodeClosesStream(s)
      PROVE  ReaderOver(t)'
  <2>1. UNCHANGED <<reader, bridge>>
    BY <1>2 DEF BrowserLeaves, WriterReads, WriterStep, WriterWrites, WriterStops,
                ReaderReads, NodeSends, NodeClosesStream
  <2> QED BY <1>o, <2>1 DEF ReaderOver
<1>3. ASSUME NEW s \in Streams, ReaderStops(s) PROVE ReaderOver(t)'
  <2>1. reader'[t] = "done" /\ bridge' = bridge
    BY <1>3, <1>t, <1>o DEF ReaderStops
  <2> QED BY <1>o, <2>1 DEF ReaderOver
<1>4. ASSUME NEW s \in Streams, WriteOpen(s) \/ WriteOpenFails(s) \/ Register(s)
      PROVE  ReaderOver(t)'
  <2>1. t # s
    BY <1>4, <1>o DEF WriteOpen, WriteOpenFails, Register
  <2>2. reader'[t] = reader[t] /\ bridge'[t] = bridge[t]
    BY <1>4, <1>t, <2>1 DEF WriteOpen, WriteOpenFails, Register
  <2> QED BY <1>o, <2>2 DEF ReaderOver
<1>5. ASSUME NEW s \in Streams,
             \/ BridgeCloses(s) \/ BridgeDeregisters(s) \/ BridgeNotifies(s)
             \/ BridgeDone(s)
      PROVE  ReaderOver(t)'
  <2>1. reader' = reader /\ bridge'[t] \notin {"none", "opening"}
    BY <1>5, <1>t, <1>o DEF BridgeCloses, BridgeDeregisters, BridgeNotifies, BridgeDone,
                            AfterDeregister
  <2> QED BY <1>o, <2>1 DEF ReaderOver
<1> QED BY <1>1, <1>2, <1>3, <1>4, <1>5 DEF Next, BridgeStep, ReaderStep

LEMMA ChannelStep ==
    ASSUME IInv, [Next]_vars
    PROVE  [Channels!Next]_<<SentOn, GotOn, OverNow>>
<1> USE DEF goVars, wires, bridgeVars, streamVars, nodeVars, traffic
<1>0. TypeOK /\ TypeOK' /\ UpInv /\ DownInv /\ NodeInv
  BY IInvStep DEF IInv
<1>l. \A s \in Streams : <<s, "up">> \in Links /\ <<s, "down">> \in Links
  BY DEF Links
<1>e. ASSUME UNCHANGED traffic, nodeDone \subseteq nodeDone' PROVE Channels!Next
  <2>1. Channels!End
    BY <1>0, <1>e, OverStays, EndStep
  <2> QED BY <2>1 DEF Channels!Next
\* Nobody's end moves when these are kept.
<1>o. ASSUME UNCHANGED <<nodeDone, reader, bridge>> PROVE OverNow' = OverNow
  BY <1>o DEF OverNow
<1>1. ASSUME NEW s \in Streams, WriterReads(s) PROVE Channels!Next
  <2>1. /\ browserSent' = [browserSent EXCEPT ![s] = @ + 1]
        /\ UNCHANGED <<nodeSent, nodeGot, browserGot, nodeDone, reader, bridge>>
    BY <1>1 DEF WriterReads
  <2>2. SentOn' = [SentOn EXCEPT ![<<s, "up">>] = @ + 1]
    BY <1>0, <2>1, SentUp
  <2>3. GotOn' = GotOn /\ OverNow' = OverNow
    BY <1>o, <2>1 DEF GotOn
  <2>4. Channels!Send(<<s, "up">>)
    BY <2>2, <2>3, ChannelSteps
  <2> QED BY <1>l, <2>4 DEF Channels!Next
<1>2. ASSUME NEW s \in Streams, NodeSends(s) PROVE Channels!Next
  <2>1. /\ nodeSent' = [nodeSent EXCEPT ![s] = @ + 1]
        /\ UNCHANGED <<browserSent, nodeGot, browserGot, nodeDone, reader, bridge>>
    BY <1>2 DEF NodeSends
  <2>2. SentOn' = [SentOn EXCEPT ![<<s, "down">>] = @ + 1]
    BY <1>0, <2>1, SentDown
  <2>3. GotOn' = GotOn /\ OverNow' = OverNow
    BY <1>o, <2>1 DEF GotOn
  <2>4. Channels!Send(<<s, "down">>)
    BY <2>2, <2>3, ChannelSteps
  <2> QED BY <1>l, <2>4 DEF Channels!Next
<1>3. ASSUME NEW s \in Streams, ReaderReads(s) PROVE Channels!Next
  <2>1. UNCHANGED <<browserSent, nodeSent, nodeGot, nodeDone, reader, bridge>>
    BY <1>3 DEF ReaderReads
  <2>2. /\ reader[s] = "reading" /\ Len(browserGot[s]) < nodeSent[s]
        /\ browserGot' = [browserGot EXCEPT ![s] = Append(@, Len(@) + 1)]
    BY <1>0, <1>3, BrowserReads
  <2>3. GotOn' = [GotOn EXCEPT ![<<s, "down">>] = Append(@, Len(@) + 1)]
    BY <1>0, <2>1, <2>2, GotDown
  <2>4. SentOn' = SentOn /\ OverNow' = OverNow
    BY <1>o, <2>1 DEF SentOn
  <2>5. <<s, "down">> \notin OverNow
    BY <2>2 DEF OverNow
  <2>6. GotOn[<<s, "down">>] = browserGot[s] /\ SentOn[<<s, "down">>] = nodeSent[s]
    BY <1>l DEF GotOn, SentOn
  <2>7. Channels!Deliver(<<s, "down">>)
    BY <2>2, <2>3, <2>4, <2>5, <2>6, ChannelSteps
  <2> QED BY <1>l, <2>7 DEF Channels!Next
<1>4. ASSUME NodeDispatches PROVE Channels!Next
  <2>1. UNCHANGED <<browserSent, nodeSent, browserGot, reader, bridge>>
    BY <1>4 DEF NodeDispatches
  <2>2. CASE nodeGot' = nodeGot
    <3>1. nodeDone \subseteq nodeDone'
      BY <1>4 DEF NodeDispatches
    <3> QED BY <1>e, <2>1, <2>2, <3>1
  <2>3. CASE nodeGot' # nodeGot
    <3>1. nodeDone' = nodeDone
      BY <1>4, <2>3 DEF NodeDispatches
    <3>2. PICK s \in Streams :
             /\ s \in nodeStreams /\ Len(nodeGot[s]) < browserSent[s]
             /\ nodeGot' = [nodeGot EXCEPT ![s] = Append(@, Len(@) + 1)]
      BY <1>0, <1>4, <2>3, NodeReads
    <3>3. GotOn' = [GotOn EXCEPT ![<<s, "up">>] = Append(@, Len(@) + 1)]
      BY <1>0, <2>1, <3>2, GotUp
    <3>4. SentOn' = SentOn /\ OverNow' = OverNow
      BY <1>o, <2>1, <3>1 DEF SentOn
    <3>5. s \notin nodeDone
      BY <1>0, <3>2 DEF NodeInv
    <3>6. <<s, "up">> \notin OverNow
      BY <3>5 DEF OverNow
    <3>7. GotOn[<<s, "up">>] = nodeGot[s] /\ SentOn[<<s, "up">>] = browserSent[s]
      BY <1>l DEF GotOn, SentOn
    <3>8. Channels!Deliver(<<s, "up">>)
      BY <3>2, <3>3, <3>4, <3>6, <3>7, ChannelSteps
    <3> QED BY <1>l, <3>8 DEF Channels!Next
  <2> QED BY <2>2, <2>3
<1>5. ASSUME \/ BackendCloses \/ BackendSweeps \/ LoopStep \/ NodeSocketCloses
             \/ UNCHANGED vars
      PROVE  Channels!Next
  <2>1. UNCHANGED traffic /\ nodeDone \subseteq nodeDone'
    BY <1>5 DEF BackendCloses, BackendSweeps, LoopStep, LoopReads, LoopDelivers,
                LoopRefuses, LoopNotifies, LoopCloses, LoopStops, NodeSocketCloses, vars
  <2> QED BY <1>e, <2>1
<1>6. ASSUME NEW s \in Streams,
             \/ Register(s) \/ BrowserLeaves(s) \/ BridgeStep(s) \/ WriterStep(s)
             \/ ReaderStops(s) \/ NodeClosesStream(s)
      PROVE  Channels!Next
  <2>1. UNCHANGED traffic /\ nodeDone \subseteq nodeDone'
    BY <1>6 DEF Register, BrowserLeaves, BridgeStep, WriteOpen, WriteOpenFails,
                BridgeCloses, BridgeDeregisters, BridgeNotifies, BridgeDone, WriterStep,
                WriterWrites, WriterStops, ReaderStops, NodeClosesStream
  <2> QED BY <1>e, <2>1
<1> QED BY <1>1, <1>2, <1>3, <1>4, <1>5, <1>6 DEF Next, ReaderStep

(* The transport implements the logical channels: for every number of streams   *)
(* and payloads, and whatever the goroutines and the faults do, what arrives on *)
(* a stream is a prefix of what was sent on it, in order, and nothing arrives   *)
(* at an end that is closed (copyBrowserToNode, copyNodeToBrowser, readLoop and *)
(* deliver in Go, dispatch and send in Node).                                   *)
THEOREM TransportImplementsChannels == Spec => ImplementsChannels
<1>1. Init => Channels!Init
  BY ChannelInit
<1>2. IInv /\ [Next]_vars => [Channels!Next]_<<SentOn, GotOn, OverNow>>
  BY ChannelStep
<1> QED BY <1>1, <1>2, IInvAlways, PTL
        DEF Spec, ImplementsChannels, Channels!Spec, SentOn, GotOn, OverNow

=============================================================================
