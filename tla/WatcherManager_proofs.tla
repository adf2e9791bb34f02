------------------------ MODULE WatcherManager_proofs ------------------------
(* Proofs about WatcherManager, for every value of its constants.              *)
EXTENDS WatcherManager, TLAPS

-----------------------------------------------------------------------------
(* The inductive invariant.                                                    *)

Openings == [stream : Streams, by : {"watch", "excludes"},
             stage : {"starting", "subscribed"}]

AgentTypes ==
    /\ runtime \in {"agent", "fallback"} /\ tracked \subseteq Watches
    /\ gen \in [Watches -> Nat] /\ handle \in [Watches -> Nat]
    /\ agentExcludes \in Nat
    /\ subs \subseteq Streams /\ opens \subseteq Openings

\* No stream is of a generation to come.
NoneAhead ==
    /\ \A s \in subs : s.gen <= gen[s.watch]
    /\ \A o \in opens : o.stream.gen <= gen[o.stream.watch]

\* An open has a stream of its own, which it has not subscribed before.
OpensDiffer ==
    /\ \A o, q \in opens : o.stream = q.stream => o = q
    /\ \A o \in opens : o.stage = "starting" => o.stream \notin subs

\* What an open of the current generation will become.
OpensAreCurrent ==
    \A o \in opens : Current(o.stream) =>
        o.stream.watch \in tracked /\ o.stream.ex = agentExcludes

StreamInv == /\ AgentTypes /\ NoneAhead /\ OpensDiffer /\ OpensAreCurrent
             /\ StreamsAreOwned /\ AgentExcludesCurrent

Calls == [op : {"watch", "unwatch"}, arg : Watches] \cup
         [op : {"excludes"}, arg : Nat] \cup [op : {"fallback"}, arg : {0}]
Steps == {"idle", "queued", "opening", "waiting", "asking", "held", "failed",
          "releasing", "removing", "gone"}

\* A queued watch() or unWatch() is what the watch waits for, and the only one.
QueueInv ==
    /\ calls \in Seq(Calls) /\ wpc \in [Watches -> Steps]
    /\ \A i \in DOMAIN calls :
          /\ calls[i].op = "watch" => wpc[calls[i].arg] = "queued"
          /\ calls[i].op = "unwatch" => wpc[calls[i].arg] = "releasing"
    /\ \A i, j \in DOMAIN calls :
          /\ calls[i].op \in {"watch", "unwatch"}
          /\ calls[j].op \in {"watch", "unwatch"}
          /\ calls[i].arg = calls[j].arg
          => i = j

\* So is the open of a watch(); a watch is not in the map before its call.
OpenInv ==
    /\ \A o \in opens : o.by = "watch" => wpc[o.stream.watch] = "opening"
    /\ \A o, q \in opens :
          o.by = "watch" /\ q.by = "watch" /\ o.stream.watch = q.stream.watch
          => o = q
    /\ \A w \in tracked : wpc[w] \notin {"idle", "queued"}

CallInv == QueueInv /\ OpenInv /\ lastExcludes \in Nat

\* Nothing of the watcher process exists before the fallback.
ModeInv ==
    /\ runtime = "agent" => /\ fpc = "none" /\ restoring = {}
                            /\ child = "none" /\ ~connected
    /\ \A w \in Watches : wpc[w] = "removing" => runtime = "fallback"
    /\ \A i \in DOMAIN calls : calls[i].op = "fallback" => runtime = "fallback"

IInv == StreamInv /\ CallInv /\ ModeInv

LEMMA IInvInit == Init => IInv
<1> SUFFICES ASSUME Init PROVE IInv
  OBVIOUS
<1>1. StreamInv
  BY DEF Init, StreamInv, AgentTypes, NoneAhead, OpensDiffer, OpensAreCurrent,
         StreamsAreOwned, AgentExcludesCurrent
<1>2. CallInv
  BY DEF Init, CallInv, QueueInv, OpenInv, Steps
<1>3. ModeInv
  BY DEF Init, ModeInv
<1> QED BY <1>1, <1>2, <1>3 DEF IInv

-----------------------------------------------------------------------------
(* Streams                                                                     *)

LEMMA StreamTyped ==
    ASSUME NEW w \in Watches, NEW g \in Nat, NEW ex \in Nat,
           NEW by \in {"watch", "excludes"}
    PROVE  /\ Opening(w, g, ex, by) \in Openings
           /\ Opening(w, g, ex, by).stream \in Streams
           /\ Opening(w, g, ex, by).stream.watch = w
           /\ Opening(w, g, ex, by).stream.gen = g
           /\ Opening(w, g, ex, by).stream.ex = ex
           /\ Opening(w, g, ex, by).by = by
           /\ Opening(w, g, ex, by).stage = "starting"
BY DEF Opening, Stream, Openings, Streams

LEMMA StreamsUnchanged ==
    ASSUME StreamInv, UNCHANGED <<runtime, agent>> PROVE StreamInv'
BY DEF agent, StreamInv, AgentTypes, NoneAhead, OpensDiffer, OpensAreCurrent,
       StreamsAreOwned, AgentExcludesCurrent, Current

LEMMA SubscribeStreams ==
    ASSUME StreamInv, NEW o \in opens, Subscribe(o) PROVE StreamInv'
<1> DEFINE q == [o EXCEPT !.stage = "subscribed"]
<1>1. /\ o \in Openings /\ o.stage = "starting" /\ o.stream \in Streams
      /\ opens' = (opens \ {o}) \cup {q} /\ subs' = subs \cup {o.stream}
      /\ UNCHANGED <<runtime, tracked, gen, handle, agentExcludes>>
  BY DEF Subscribe, StreamInv, AgentTypes, Openings, fallback
<1>2. q \in Openings /\ q.stream = o.stream /\ q.stage = "subscribed"
  BY <1>1 DEF Openings
<1> HIDE DEF q
<1>3. AgentTypes'
  BY <1>1, <1>2 DEF StreamInv, AgentTypes
<1>4. NoneAhead'
  BY <1>1, <1>2 DEF StreamInv, NoneAhead
<1>5. OpensDiffer'
  BY <1>1, <1>2 DEF StreamInv, OpensDiffer
<1>6. OpensAreCurrent'
  BY <1>1, <1>2 DEF StreamInv, OpensAreCurrent, Current
<1>7. StreamsAreOwned'
  BY <1>1, <1>2 DEF StreamInv, StreamsAreOwned, Current
<1>8. AgentExcludesCurrent'
  BY <1>1 DEF StreamInv, AgentExcludesCurrent, OpensAreCurrent, Current
<1> QED BY <1>3, <1>4, <1>5, <1>6, <1>7, <1>8 DEF StreamInv

LEMMA OpenedStreams ==
    ASSUME StreamInv, NEW o \in opens, Opened(o) PROVE StreamInv'
<1> DEFINE s == o.stream
<1>1. /\ o \in Openings /\ s \in Streams /\ s.watch \in Watches /\ s.gen \in Nat
      /\ opens' = opens \ {o}
      /\ UNCHANGED <<runtime, tracked, gen, agentExcludes>>
  BY DEF Opened, StreamInv, AgentTypes, Openings, Streams, fallback
<1>2. CASE Stale(s)
  <2>1. subs' = subs \ {s} /\ handle' = handle
    BY <1>2 DEF Opened
  <2>2. AgentTypes' /\ NoneAhead' /\ OpensDiffer'
    BY <1>1, <2>1 DEF StreamInv, AgentTypes, NoneAhead, OpensDiffer
  <2>3. OpensAreCurrent' /\ AgentExcludesCurrent'
    BY <1>1, <2>1 DEF StreamInv, OpensAreCurrent, AgentExcludesCurrent, Current
  <2>4. StreamsAreOwned'
    BY <1>1, <2>1 DEF StreamInv, StreamsAreOwned, Current
  <2> QED BY <2>2, <2>3, <2>4 DEF StreamInv
<1>3. CASE ~Stale(s)
  <2>1. subs' = subs /\ handle' = [handle EXCEPT ![s.watch] = s.gen]
    BY <1>3 DEF Opened
  <2>2. Current(s) /\ s.watch \in tracked
    BY <1>3, <1>1 DEF Stale, Current, StreamInv, OpensAreCurrent
  <2>3. AgentTypes'
    BY <1>1, <2>1 DEF StreamInv, AgentTypes
  <2>4. NoneAhead' /\ OpensDiffer'
    BY <1>1, <2>1 DEF StreamInv, NoneAhead, OpensDiffer
  <2>5. OpensAreCurrent' /\ AgentExcludesCurrent'
    BY <1>1, <2>1 DEF StreamInv, OpensAreCurrent, AgentExcludesCurrent, Current
  <2>6. StreamsAreOwned'
    <3> SUFFICES ASSUME NEW r \in subs', ~\E q \in opens' : q.stream = r
                 PROVE  /\ r.watch \in tracked' /\ handle'[r.watch] = r.gen
                        /\ Current(r)'
      BY DEF StreamsAreOwned
    <3>1. CASE r = s
      BY <3>1, <1>1, <2>1, <2>2 DEF Current, StreamInv, AgentTypes
    <3>2. CASE r # s
      <4>1. r \in subs /\ ~\E q \in opens : q.stream = r
        BY <1>1, <2>1, <3>2
      <4>2. r.watch \in tracked /\ handle[r.watch] = r.gen /\ Current(r)
        BY <4>1 DEF StreamInv, StreamsAreOwned
      <4>3. r.watch = s.watch => r.gen = s.gen
        BY <4>2, <2>2 DEF Current
      <4> QED BY <1>1, <2>1, <4>2, <4>3 DEF Current, StreamInv, AgentTypes
    <3> QED BY <3>1, <3>2
  <2> QED BY <2>3, <2>4, <2>5, <2>6 DEF StreamInv
<1> QED BY <1>2, <1>3

(* An open that leaves without its stream takes nothing along.                 *)
LEMMA RejectedStreams ==
    ASSUME StreamInv, NEW o \in opens, o.stream \notin subs,
           opens' = opens \ {o}, UNCHANGED <<runtime, tracked, gen, handle,
                                             agentExcludes, subs>>
    PROVE  StreamInv'
<1>1. AgentTypes' /\ NoneAhead' /\ OpensDiffer'
  BY DEF StreamInv, AgentTypes, NoneAhead, OpensDiffer
<1>2. OpensAreCurrent' /\ AgentExcludesCurrent'
  BY DEF StreamInv, OpensAreCurrent, AgentExcludesCurrent, Current
<1>3. StreamsAreOwned'
  BY DEF StreamInv, StreamsAreOwned, Current
<1> QED BY <1>1, <1>2, <1>3 DEF StreamInv

LEMMA AgentUnavailableStreams ==
    ASSUME StreamInv, NEW o \in opens, AgentUnavailable(o) PROVE StreamInv'
<1>1. /\ o.stage = "starting" /\ opens' = opens \ {o}
      /\ UNCHANGED <<runtime, tracked, gen, handle, agentExcludes, subs>>
  BY DEF AgentUnavailable, OpenRejected, fallback
<1>2. o.stream \notin subs
  BY <1>1 DEF StreamInv, OpensDiffer
<1> QED BY <1>1, <1>2, RejectedStreams

(* Calls, the fallback and dispose() invalidate the generations of a set W of  *)
(* watches and close their handles; they may leave the Agent or change the     *)
(* exclusions if W holds every watch in the map; what they open (the set N) is *)
(* of the new generations.                                                     *)
LEMMA InvalidatedStreams ==
    ASSUME StreamInv, NEW W \in SUBSET Watches, NEW N \in SUBSET Openings,
           gen' \in [Watches -> Nat], handle' \in [Watches -> Nat],
           tracked' \subseteq Watches, runtime' \in {"agent", "fallback"},
           agentExcludes' \in Nat,
           \A w \in W : gen[w] < gen'[w],
           \A w \in Watches \ W : gen'[w] = gen[w] /\ handle'[w] = handle[w],
           tracked \ W \subseteq tracked',
           runtime' = runtime \/ (runtime' = "fallback" /\ tracked \subseteq W),
           agentExcludes' = agentExcludes \/ tracked \subseteq W,
           subs' \subseteq subs,
           \A s \in subs' : s.watch \in W \cap tracked => handle[s.watch] # s.gen,
           opens' \subseteq opens \cup N,
           \A o \in opens : o.stream \in subs' => o \in opens',
           \A o, q \in N : o.stream = q.stream => o = q,
           \A o \in N : /\ o.stage = "starting"
                        /\ o.stream.watch \in W \cap tracked'
                        /\ o.stream.gen = gen'[o.stream.watch]
                        /\ o.stream.ex = agentExcludes'
    PROVE  StreamInv'
<1>1. AgentTypes /\ NoneAhead /\ OpensDiffer /\ OpensAreCurrent /\ StreamsAreOwned
      /\ AgentExcludesCurrent
  BY DEF StreamInv
<1>2. /\ \A s \in Streams : s.watch \in Watches /\ s.gen \in Nat
      /\ \A o \in Openings : o.stream \in Streams
      /\ subs \subseteq Streams /\ opens \subseteq Openings
      /\ gen \in [Watches -> Nat]
  BY <1>1 DEF AgentTypes, Streams, Openings
<1>3. AgentTypes'
  BY <1>1, <1>2 DEF AgentTypes
<1>4. ASSUME NEW s \in Streams, s.gen <= gen[s.watch]
      PROVE  /\ s.gen <= gen'[s.watch]
             /\ s.watch \in W => s.gen < gen'[s.watch]
  <2>1. s.watch \in Watches /\ s.gen \in Nat /\ gen[s.watch] \in Nat
        /\ gen'[s.watch] \in Nat
    BY <1>2
  <2>2. CASE s.watch \in W
    <3>1. gen[s.watch] < gen'[s.watch]
      BY <2>2
    <3> QED BY <1>4, <2>1, <3>1
  <2>3. CASE s.watch \notin W
    BY <2>1, <2>3, <1>4
  <2> QED BY <2>2, <2>3
<1>5. \A o \in opens : /\ o.stream \in Streams
                       /\ o.stream.gen <= gen'[o.stream.watch]
                       /\ o.stream.watch \in W =>
                             o.stream.gen < gen'[o.stream.watch]
  BY <1>1, <1>2, <1>4 DEF NoneAhead
<1>6. \A s \in subs : /\ s \in Streams /\ s.gen <= gen'[s.watch]
                      /\ s.watch \in W => s.gen < gen'[s.watch]
  BY <1>1, <1>2, <1>4 DEF NoneAhead
<1>7. \A o \in N : /\ o.stream.watch \in Watches /\ gen'[o.stream.watch] \in Nat
                   /\ o.stream.gen = gen'[o.stream.watch]
                   /\ o.stream.watch \in W
  BY <1>2
<1>8. NoneAhead'
  BY <1>5, <1>6, <1>7 DEF NoneAhead
<1>9. \A o \in opens, q \in N : o.stream # q.stream
  <2> SUFFICES ASSUME NEW o \in opens, NEW q \in N, o.stream = q.stream PROVE FALSE
    OBVIOUS
  <2>1. o.stream.gen < gen'[o.stream.watch] /\ o.stream.gen = gen'[o.stream.watch]
    BY <1>5, <1>7
  <2> QED BY <2>1, <1>7
<1>10. \A s \in subs, q \in N : s # q.stream
  <2> SUFFICES ASSUME NEW s \in subs, NEW q \in N, s = q.stream PROVE FALSE
    OBVIOUS
  <2>1. s.gen < gen'[s.watch] /\ s.gen = gen'[s.watch]
    BY <1>6, <1>7
  <2> QED BY <2>1, <1>7
<1>11. OpensDiffer'
  <2>1. \A o, q \in opens' : o.stream = q.stream => o = q
    BY <1>1, <1>9 DEF OpensDiffer
  <2>2. \A o \in opens' : o.stage = "starting" => o.stream \notin subs'
    BY <1>1, <1>10 DEF OpensDiffer
  <2> QED BY <2>1, <2>2 DEF OpensDiffer
<1>12. ASSUME NEW s \in Streams, s.gen <= gen[s.watch], Current(s)'
       PROVE  s.watch \notin W /\ Current(s) /\ runtime' = "agent"
  <2>1. gen'[s.watch] = s.gen /\ runtime' = "agent"
    BY <1>12 DEF Current
  <2>2. s.watch \in Watches /\ s.gen \in Nat
    BY <1>2
  <2>3. s.watch \notin W
    BY <1>4, <1>12, <2>1, <2>2
  <2> QED BY <2>1, <2>2, <2>3 DEF Current
<1>13. OpensAreCurrent'
  <2> SUFFICES ASSUME NEW o \in opens', Current(o.stream)'
               PROVE  o.stream.watch \in tracked' /\ o.stream.ex = agentExcludes'
    BY DEF OpensAreCurrent
  <2>1. CASE o \in opens
    <3>1. o.stream \in Streams /\ o.stream.gen <= gen[o.stream.watch]
      BY <1>1, <1>2, <2>1 DEF NoneAhead
    <3>2. o.stream.watch \notin W /\ Current(o.stream)
      BY <3>1, <1>12
    <3>3. o.stream.watch \in tracked /\ o.stream.ex = agentExcludes
      BY <3>2, <2>1, <1>1 DEF OpensAreCurrent
    <3> QED BY <3>2, <3>3
  <2>2. CASE o \in N
    BY <2>2
  <2> QED BY <2>1, <2>2
<1>14. StreamsAreOwned'
  <2> SUFFICES ASSUME NEW s \in subs', ~\E o \in opens' : o.stream = s
               PROVE  /\ s.watch \in tracked' /\ handle'[s.watch] = s.gen
                      /\ Current(s)'
    BY DEF StreamsAreOwned
  <2>1. ~\E o \in opens : o.stream = s
    OBVIOUS
  <2>2. s.watch \in tracked /\ handle[s.watch] = s.gen /\ Current(s)
    BY <2>1, <1>1 DEF StreamsAreOwned
  <2>3. s.watch \notin W /\ s.watch \in Watches
    BY <2>2, <1>2
  <2>4. runtime' = runtime
    BY <2>2, <2>3
  <2> QED BY <2>2, <2>3, <2>4 DEF Current
<1>15. AgentExcludesCurrent'
  <2> SUFFICES ASSUME NEW s \in subs', Current(s)' PROVE s.ex = agentExcludes'
    BY DEF AgentExcludesCurrent
  <2>1. s \in Streams /\ s.gen <= gen[s.watch]
    BY <1>1, <1>2 DEF NoneAhead
  <2>2. s.watch \notin W /\ Current(s)
    BY <2>1, <1>12
  <2>3. s.watch \in tracked
    BY <2>2, <1>1 DEF StreamsAreOwned, OpensAreCurrent
  <2>4. s.ex = agentExcludes
    BY <2>2, <1>1 DEF AgentExcludesCurrent
  <2> QED BY <2>2, <2>3, <2>4
<1> QED BY <1>3, <1>8, <1>11, <1>13, <1>14, <1>15 DEF StreamInv

LEMMA StreamFailsStreams ==
    ASSUME StreamInv, NEW s \in subs, StreamFails(s) PROVE StreamInv'
<1>1. /\ subs \subseteq Streams /\ opens \subseteq Openings
      /\ gen \in [Watches -> Nat] /\ handle \in [Watches -> Nat]
      /\ runtime \in {"agent", "fallback"} /\ tracked \subseteq Watches
      /\ agentExcludes \in Nat /\ UNCHANGED <<tracked, agentExcludes>>
  BY DEF StreamInv, AgentTypes, StreamFails
<1>2. opens' \subseteq opens /\ \A o \in opens : o.stream # s => o \in opens'
  <2>1. CASE \E o \in opens : o.stream = s
    <3>1. PICK o \in opens : o.stream = s /\ opens' = opens \ {o}
      BY <2>1 DEF StreamFails, OpenRejected
    <3> QED BY <3>1
  <2>2. CASE ~\E o \in opens : o.stream = s
    BY <2>2 DEF StreamFails
  <2> QED BY <2>1, <2>2
<1>3. CASE Stale(s)
  <2>1. subs' = subs \ {s} /\ UNCHANGED <<runtime, gen, handle>>
    BY <1>3 DEF StreamFails
  <2>2. {} \in SUBSET Watches /\ {} \in SUBSET Openings
    OBVIOUS
  <2>3. \A o \in opens : o.stream \in subs' => o \in opens'
    BY <1>2, <2>1
  <2> QED BY <1>1, <1>2, <2>1, <2>2, <2>3, InvalidatedStreams
<1>4. CASE ~Stale(s)
  <2>1. FallBack(s)
    BY <1>4 DEF StreamFails
  <2>2. /\ runtime' = "fallback"
        /\ gen' = [w \in Watches |-> IF w \in tracked THEN gen[w] + 1 ELSE gen[w]]
        /\ handle' = [w \in Watches |-> IF w \in tracked THEN 0 ELSE handle[w]]
        /\ subs' = subs \ ({s} \cup UNION {Released(w) : w \in tracked})
    BY <2>1 DEF FallBack
  <2>3. gen' \in [Watches -> Nat] /\ handle' \in [Watches -> Nat]
    BY <1>1, <2>2
  <2>4. /\ \A w \in tracked : gen[w] < gen'[w]
        /\ \A w \in Watches \ tracked : gen'[w] = gen[w] /\ handle'[w] = handle[w]
    BY <1>1, <2>2
  <2>5. \A r \in subs' : r.watch \in tracked => handle[r.watch] # r.gen
    BY <2>2 DEF Released
  <2>6. subs' \subseteq subs /\ \A o \in opens : o.stream \in subs' => o \in opens'
    BY <1>2, <2>2
  <2>7. tracked \in SUBSET Watches /\ {} \in SUBSET Openings
    BY <1>1
  <2>8. runtime' \in {"agent", "fallback"} /\ tracked \ tracked \subseteq tracked'
    BY <2>2
  <2>9. \A r \in subs' : r.watch \in tracked \cap tracked => handle[r.watch] # r.gen
    BY <2>5
  <2> QED BY <1>1, <1>2, <2>2, <2>3, <2>4, <2>6, <2>7, <2>8, <2>9, InvalidatedStreams
<1> QED BY <1>3, <1>4

LEMMA ResumeWatchStreams ==
    ASSUME StreamInv, CallInv, ResumeWatch PROVE StreamInv'
<1> DEFINE w == Argument
           new == Opening(w, gen[w] + 1, agentExcludes, "watch")
<1>1. /\ calls # <<>> /\ Head(calls) = calls[1] /\ 1 \in DOMAIN calls
      /\ Head(calls) \in Calls /\ Head(calls).op = "watch"
  BY DEF ResumeWatch, Resumes, CallInv, QueueInv
<1>2. w \in Watches /\ wpc[w] = "queued"
  BY <1>1 DEF Argument, Calls, CallInv, QueueInv
<1>3. w \notin tracked
  BY <1>2 DEF CallInv, OpenInv
<1>4. CASE runtime = "agent"
  <2>1. /\ tracked' = tracked \cup {w} /\ gen' = [gen EXCEPT ![w] = @ + 1]
        /\ opens' = opens \cup {new}
        /\ UNCHANGED <<runtime, handle, agentExcludes, subs>>
    BY <1>4 DEF ResumeWatch, fallback
  <2>2. /\ gen \in [Watches -> Nat] /\ handle \in [Watches -> Nat]
        /\ runtime \in {"agent", "fallback"} /\ tracked \subseteq Watches
        /\ agentExcludes \in Nat
    BY DEF StreamInv, AgentTypes
  <2>3. /\ new \in Openings /\ new.stage = "starting" /\ new.stream.watch = w
        /\ new.stream.gen = gen[w] + 1 /\ new.stream.ex = agentExcludes
    BY <1>2, <2>2, StreamTyped
  <2> HIDE DEF new, w
  <2>4. gen' \in [Watches -> Nat] /\ gen'[w] = gen[w] + 1 /\ gen[w] < gen'[w]
        /\ \A v \in Watches \ {w} : gen'[v] = gen[v]
    BY <1>2, <2>1, <2>2
  <2>5. {w} \in SUBSET Watches /\ {new} \in SUBSET Openings
    BY <1>2, <2>3
  <2>6. /\ \A s \in subs' : s.watch \in {w} \cap tracked => handle[s.watch] # s.gen
        /\ tracked \ {w} \subseteq tracked' /\ tracked' \subseteq Watches
        /\ w \in tracked'
    BY <1>2, <1>3, <2>1, <2>2
  <2>7. \A o \in {new} : /\ o.stage = "starting"
                         /\ o.stream.watch \in {w} \cap tracked'
                         /\ o.stream.gen = gen'[o.stream.watch]
                         /\ o.stream.ex = agentExcludes'
    BY <2>1, <2>3, <2>4, <2>6
  <2>8. /\ handle' \in [Watches -> Nat]
        /\ \A v \in {w} : gen[v] < gen'[v]
        /\ \A v \in Watches \ {w} : gen'[v] = gen[v] /\ handle'[v] = handle[v]
    BY <2>1, <2>2, <2>4
  <2>9. /\ runtime' \in {"agent", "fallback"} /\ runtime' = runtime
        /\ agentExcludes' \in Nat /\ agentExcludes' = agentExcludes
        /\ subs' \subseteq subs /\ opens' \subseteq opens \cup {new}
        /\ \A o \in opens : o.stream \in subs' => o \in opens'
        /\ \A o, q \in {new} : o.stream = q.stream => o = q
    BY <2>1, <2>2
  <2> QED BY <2>4, <2>5, <2>6, <2>7, <2>8, <2>9, InvalidatedStreams
<1>5. CASE runtime # "agent"
  BY <1>5, StreamsUnchanged DEF ResumeWatch, agent, fallback
<1> QED BY <1>4, <1>5

LEMMA HeadOfCalls ==
    ASSUME CallInv, NEW op, Resumes(op)
    PROVE  /\ calls # <<>> /\ 1 \in DOMAIN calls /\ Head(calls) = calls[1]
           /\ calls[1] \in Calls /\ calls[1].op = op /\ Argument = calls[1].arg
BY DEF Resumes, CallInv, QueueInv, Argument

LEMMA ResumeUnwatchStreams ==
    ASSUME StreamInv, CallInv, ResumeUnwatch PROVE StreamInv'
<1> DEFINE w == Argument
<1>1. w \in Watches
  BY HeadOfCalls DEF ResumeUnwatch, Calls
<1>2. /\ gen \in [Watches -> Nat] /\ handle \in [Watches -> Nat]
      /\ runtime \in {"agent", "fallback"} /\ tracked \subseteq Watches
      /\ agentExcludes \in Nat
  BY DEF StreamInv, AgentTypes
<1>3. UNCHANGED <<runtime, handle, agentExcludes, opens>>
  BY DEF ResumeUnwatch, fallback
<1>4. CASE w \notin tracked
  <2>1. UNCHANGED <<tracked, gen, subs>>
    BY <1>4 DEF ResumeUnwatch
  <2> QED BY <1>3, <2>1, StreamsUnchanged DEF agent
<1>5. CASE w \in tracked
  <2>1. /\ gen' = [gen EXCEPT ![w] = @ + 1] /\ subs' = subs \ Released(w)
        /\ tracked' = tracked \/ tracked' = tracked \ {w}
    BY <1>5 DEF ResumeUnwatch
  <2> HIDE DEF w
  <2>2. /\ gen' \in [Watches -> Nat] /\ handle' \in [Watches -> Nat]
        /\ \A v \in {w} : gen[v] < gen'[v]
        /\ \A v \in Watches \ {w} : gen'[v] = gen[v] /\ handle'[v] = handle[v]
    BY <1>1, <1>2, <1>3, <2>1
  <2>3. /\ tracked \ {w} \subseteq tracked' /\ tracked' \subseteq Watches
        /\ {w} \in SUBSET Watches /\ {} \in SUBSET Openings
    BY <1>1, <1>2, <2>1
  <2>4. /\ \A s \in subs' : s.watch \in {w} \cap tracked => handle[s.watch] # s.gen
        /\ subs' \subseteq subs /\ opens' = opens
    BY <1>3, <2>1 DEF Released
  <2> QED BY <1>2, <1>3, <2>2, <2>3, <2>4, InvalidatedStreams
<1> QED BY <1>4, <1>5

LEMMA ResumeExcludesStreams ==
    ASSUME StreamInv, CallInv, ResumeExcludes PROVE StreamInv'
<1>1. /\ gen \in [Watches -> Nat] /\ handle \in [Watches -> Nat]
      /\ runtime \in {"agent", "fallback"} /\ tracked \subseteq Watches
      /\ UNCHANGED <<runtime, tracked, handle>>
  BY DEF StreamInv, AgentTypes, ResumeExcludes, fallback
<1>2. CASE runtime = "agent"
  <2> DEFINE new(w) == Opening(w, gen[w] + 2, Argument, "excludes")
             N == {new(w) : w \in tracked}
  <2>1. /\ agentExcludes' = Argument
        /\ gen' = [w \in Watches |-> IF w \in tracked THEN gen[w] + 2 ELSE gen[w]]
        /\ subs' = subs \ UNION {Released(w) : w \in tracked}
        /\ opens' = opens \cup N
    BY <1>2 DEF ResumeExcludes, Reopened
  <2>2. Argument \in Nat
    BY HeadOfCalls DEF ResumeExcludes, Calls
  <2>3. /\ gen' \in [Watches -> Nat] /\ handle' \in [Watches -> Nat]
        /\ \A w \in tracked : gen[w] < gen'[w] /\ gen'[w] = gen[w] + 2
        /\ \A w \in Watches \ tracked : gen'[w] = gen[w] /\ handle'[w] = handle[w]
    BY <1>1, <2>1
  <2>4. ASSUME NEW w \in tracked
        PROVE  /\ new(w) \in Openings /\ new(w).stage = "starting"
               /\ new(w).stream.watch = w /\ new(w).stream.gen = gen'[w]
               /\ new(w).stream.ex = Argument
    <3>1. w \in Watches /\ gen[w] + 2 \in Nat /\ gen'[w] = gen[w] + 2
      BY <1>1, <2>3
    <3> QED BY <2>2, <3>1, StreamTyped
  <2> HIDE DEF new
  <2>5. /\ N \in SUBSET Openings
        /\ \A o, q \in N : o.stream = q.stream => o = q
        /\ \A o \in N : /\ o.stage = "starting"
                        /\ o.stream.watch \in tracked \cap tracked'
                        /\ o.stream.gen = gen'[o.stream.watch]
                        /\ o.stream.ex = agentExcludes'
    <3>1. \A o \in N : \E w \in tracked : o = new(w)
      OBVIOUS
    <3> HIDE DEF N
    <3>2. ASSUME NEW o \in N
          PROVE  /\ o \in Openings /\ o.stage = "starting"
                 /\ o.stream.watch \in tracked /\ o = new(o.stream.watch)
                 /\ o.stream.gen = gen'[o.stream.watch] /\ o.stream.ex = Argument
      <4>1. PICK w \in tracked : o = new(w)
        BY <3>1
      <4> QED BY <4>1, <2>4
    <3> QED BY <1>1, <2>1, <3>2
  <2>6. /\ \A s \in subs' : s.watch \in tracked \cap tracked =>
                handle[s.watch] # s.gen
        /\ subs' \subseteq subs
    BY <2>1 DEF Released
  <2>7. /\ opens' \subseteq opens \cup N
        /\ \A o \in opens : o.stream \in subs' => o \in opens'
        /\ tracked \in SUBSET Watches /\ tracked \subseteq tracked
        /\ tracked \ tracked \subseteq tracked' /\ tracked' \subseteq Watches
        /\ runtime' = runtime /\ runtime' \in {"agent", "fallback"}
        /\ agentExcludes' \in Nat
    BY <1>1, <2>1, <2>2
  <2> HIDE DEF N
  <2> QED BY <2>3, <2>5, <2>6, <2>7, InvalidatedStreams
<1>3. CASE runtime # "agent"
  BY <1>1, <1>3, StreamsUnchanged DEF ResumeExcludes, agent
<1> QED BY <1>2, <1>3

LEMMA DisposeStreams ==
    ASSUME StreamInv, Dispose PROVE StreamInv'
<1>1. /\ gen \in [Watches -> Nat] /\ handle \in [Watches -> Nat]
      /\ runtime \in {"agent", "fallback"} /\ tracked \subseteq Watches
      /\ agentExcludes \in Nat
      /\ UNCHANGED <<runtime, handle, agentExcludes, opens>>
      /\ gen' = [w \in Watches |-> IF w \in tracked THEN gen[w] + 1 ELSE gen[w]]
      /\ subs' = subs \ UNION {Released(w) : w \in tracked}
      /\ tracked' = {}
  BY DEF StreamInv, AgentTypes, Dispose, fallback
<1>2. /\ gen' \in [Watches -> Nat] /\ handle' \in [Watches -> Nat]
      /\ \A w \in tracked : gen[w] < gen'[w]
      /\ \A w \in Watches \ tracked : gen'[w] = gen[w] /\ handle'[w] = handle[w]
  BY <1>1
<1>3. /\ \A s \in subs' : s.watch \in tracked \cap tracked => handle[s.watch] # s.gen
      /\ subs' \subseteq subs
  BY <1>1 DEF Released
<1>4. /\ tracked \in SUBSET Watches /\ {} \in SUBSET Openings
      /\ tracked \ tracked \subseteq tracked' /\ tracked' \subseteq Watches
      /\ \A o \in opens : o \in opens'
      /\ opens' \subseteq opens \cup {}
  BY <1>1
<1> QED BY <1>1, <1>2, <1>3, <1>4, InvalidatedStreams

(* The map may grow, and in fallback it may shrink: no stream is current then. *)
LEMMA TrackedStreams ==
    ASSUME StreamInv, tracked' \subseteq Watches,
           tracked \subseteq tracked' \/ runtime = "fallback",
           UNCHANGED <<runtime, gen, handle, agentExcludes, opens, subs>>
    PROVE  StreamInv'
<1>1. AgentTypes' /\ NoneAhead' /\ OpensDiffer' /\ AgentExcludesCurrent'
  BY DEF StreamInv, AgentTypes, NoneAhead, OpensDiffer, AgentExcludesCurrent,
         Current
<1>2. OpensAreCurrent'
  BY DEF StreamInv, OpensAreCurrent, Current
<1>3. StreamsAreOwned'
  BY DEF StreamInv, StreamsAreOwned, Current
<1> QED BY <1>1, <1>2, <1>3 DEF StreamInv

LEMMA StreamStep == ASSUME IInv, [Next]_vars PROVE StreamInv'
<1>1. StreamInv /\ CallInv /\ ModeInv /\ AgentTypes
  BY DEF IInv, StreamInv
<1>2. ASSUME Client \/ ResumeFallback \/ Fallback \/ NodeHandles \/ NodeStarts
             \/ NodeFails \/ DisposeAnswered \/ ServersClosed \/ UNCHANGED vars
      PROVE  StreamInv'
  <2>1. UNCHANGED <<runtime, agent>>
    BY <1>2 DEF Client, CallWatch, CallUnwatch, CallExcludes, ResumeFallback,
       Fallback, ServerCreated, Forked, ListenFails, Connects, ExcludesAnswered,
       NodeHandles, NodeStarts, NodeStartsAgain, NodeWatches, NodeRejects, NodeFails,
       NodeDies, NodeLoses, DisposeAnswered, ServersClosed, fallback, vars
  <2> QED BY <1>1, <2>1, StreamsUnchanged
<1>3. ASSUME NEW w \in Watches,
             FallbackAwaited(w) \/ Restored(w) \/ RestoreRejected(w) \/ WatchRejected(w)
      PROVE  StreamInv'
  <2>1. UNCHANGED <<runtime, agent>>
    BY <1>3 DEF FallbackAwaited, Restored, RestoreRejected, WatchRejected, fallback
  <2> QED BY <1>1, <2>1, StreamsUnchanged
<1>4. CASE ResumeWatch \/ ResumeUnwatch \/ ResumeExcludes \/ Dispose
  BY <1>1, <1>4, ResumeWatchStreams, ResumeUnwatchStreams, ResumeExcludesStreams,
     DisposeStreams
<1>5. ASSUME NEW o \in opens, Subscribe(o) \/ Opened(o) \/ AgentUnavailable(o)
      PROVE  StreamInv'
  BY <1>1, <1>5, SubscribeStreams, OpenedStreams, AgentUnavailableStreams
<1>6. ASSUME NEW s \in subs, StreamFails(s) PROVE StreamInv'
  BY <1>1, <1>6, StreamFailsStreams
<1>7. ASSUME NEW w \in Watches, WatchAnswered(w) PROVE StreamInv'
  <2>1. /\ tracked' = tracked \cup {w}
        /\ UNCHANGED <<runtime, gen, handle, agentExcludes, opens, subs>>
    BY <1>7 DEF WatchAnswered, fallback
  <2>2. tracked' \subseteq Watches /\ tracked \subseteq tracked'
    BY <1>1, <2>1 DEF AgentTypes
  <2> QED BY <1>1, <2>1, <2>2, TrackedStreams
<1>8. ASSUME NEW w \in Watches, UnwatchAnswered(w) PROVE StreamInv'
  <2>1. /\ tracked' = tracked \ {w} /\ wpc[w] = "removing"
        /\ UNCHANGED <<runtime, gen, handle, agentExcludes, opens, subs>>
    BY <1>8 DEF UnwatchAnswered, fallback
  <2>2. tracked' \subseteq Watches /\ runtime = "fallback"
    BY <1>1, <2>1 DEF AgentTypes, ModeInv
  <2> QED BY <1>1, <2>1, <2>2, TrackedStreams
<1> QED BY <1>2, <1>3, <1>4, <1>5, <1>6, <1>7, <1>8
        DEF Next, Resume, AgentAnswers, Answered, Disposing

-----------------------------------------------------------------------------
(* Calls                                                                       *)

LEMMA QueueKept ==
    ASSUME QueueInv, calls' = calls, wpc' \in [Watches -> Steps],
           \A w \in Watches : wpc[w] \in {"queued", "releasing"} => wpc'[w] = wpc[w]
    PROVE  QueueInv'
<1>1. \A i \in DOMAIN calls : calls[i] \in Calls
  BY DEF QueueInv
<1>2. \A i \in DOMAIN calls : calls[i].op \in {"watch", "unwatch"} =>
                                  calls[i].arg \in Watches
  BY <1>1 DEF Calls
<1> QED BY <1>2 DEF QueueInv

LEMMA QueueAppended ==
    ASSUME QueueInv, NEW c \in Calls, calls' = Append(calls, c),
           wpc' \in [Watches -> Steps],
           \A w \in Watches : wpc[w] \in {"queued", "releasing"} => wpc'[w] = wpc[w],
           c.op \in {"watch", "unwatch"} =>
               wpc[c.arg] \notin {"queued", "releasing"},
           c.op = "watch" => wpc'[c.arg] = "queued",
           c.op = "unwatch" => wpc'[c.arg] = "releasing"
    PROVE  QueueInv'
<1>1. calls \in Seq(Calls) /\ \A i \in DOMAIN calls : calls[i] \in Calls
  BY DEF QueueInv
<1>2. \A i \in DOMAIN calls : calls[i].op \in {"watch", "unwatch"} =>
                                  calls[i].arg \in Watches
  BY <1>1 DEF Calls
<1>3. /\ calls' \in Seq(Calls) /\ Len(calls) \in Nat
      /\ DOMAIN calls = 1..Len(calls) /\ DOMAIN calls' = 1..(Len(calls) + 1)
      /\ \A i \in DOMAIN calls : calls'[i] = calls[i]
      /\ calls'[Len(calls) + 1] = c
  BY <1>1
<1>4. \A i \in DOMAIN calls' : i \in DOMAIN calls \/ i = Len(calls) + 1
  BY <1>3
<1>5. \A i \in DOMAIN calls' :
          /\ calls'[i].op = "watch" => wpc'[calls'[i].arg] = "queued"
          /\ calls'[i].op = "unwatch" => wpc'[calls'[i].arg] = "releasing"
  BY <1>2, <1>3, <1>4 DEF QueueInv
<1>6. \A i \in DOMAIN calls : calls[i].op \in {"watch", "unwatch"} /\
                              c.op \in {"watch", "unwatch"} =>
                                  calls[i].arg # c.arg
  BY DEF QueueInv
<1>7. \A i, j \in DOMAIN calls' :
          /\ calls'[i].op \in {"watch", "unwatch"}
          /\ calls'[j].op \in {"watch", "unwatch"}
          /\ calls'[i].arg = calls'[j].arg
          => i = j
  BY <1>3, <1>4, <1>6 DEF QueueInv
<1> QED BY <1>3, <1>5, <1>7 DEF QueueInv

LEMMA QueueTaken ==
    ASSUME QueueInv, calls # <<>>, calls' = Tail(calls),
           wpc' \in [Watches -> Steps],
           \A w \in Watches :
               /\ wpc[w] \in {"queued", "releasing"}
               /\ Head(calls).op \in {"watch", "unwatch"} => w # Head(calls).arg
               => wpc'[w] = wpc[w]
    PROVE  QueueInv'
<1>1. calls \in Seq(Calls) /\ \A i \in DOMAIN calls : calls[i] \in Calls
  BY DEF QueueInv
<1>2. \A i \in DOMAIN calls : calls[i].op \in {"watch", "unwatch"} =>
                                  calls[i].arg \in Watches
  BY <1>1 DEF Calls
<1>3. /\ calls' \in Seq(Calls) /\ Len(calls) \in Nat /\ Head(calls) = calls[1]
      /\ 1 \in DOMAIN calls
      /\ DOMAIN calls = 1..Len(calls) /\ DOMAIN calls' = 1..(Len(calls) - 1)
      /\ \A i \in DOMAIN calls' : calls'[i] = calls[i + 1]
  BY <1>1
<1>4. \A i \in DOMAIN calls' : i \in Nat /\ i + 1 \in DOMAIN calls /\ i + 1 # 1
  BY <1>3
<1>5. \A i \in DOMAIN calls' :
          /\ calls[i + 1].op \in {"watch", "unwatch"}
          /\ Head(calls).op \in {"watch", "unwatch"}
          => calls[i + 1].arg # Head(calls).arg
  BY <1>3, <1>4 DEF QueueInv
<1>6. \A i \in DOMAIN calls' :
          /\ calls[i + 1].op = "watch" => wpc'[calls[i + 1].arg] = "queued"
          /\ calls[i + 1].op = "unwatch" => wpc'[calls[i + 1].arg] = "releasing"
  BY <1>2, <1>4, <1>5 DEF QueueInv
<1>7. \A i, j \in DOMAIN calls' :
          /\ calls[i + 1].op \in {"watch", "unwatch"}
          /\ calls[j + 1].op \in {"watch", "unwatch"}
          /\ calls[i + 1].arg = calls[j + 1].arg
          => i = j
  BY <1>4 DEF QueueInv
<1> QED BY <1>3, <1>6, <1>7 DEF QueueInv

LEMMA CallsUnchanged ==
    ASSUME CallInv, UNCHANGED <<calls, wpc, opens, lastExcludes>>,
           tracked' \subseteq tracked
    PROVE  CallInv'
BY DEF CallInv, QueueInv, OpenInv

LEMMA ClientCalls == ASSUME StreamInv, CallInv, Client PROVE CallInv'
<1>1. QueueInv /\ OpenInv /\ lastExcludes \in Nat /\ wpc \in [Watches -> Steps]
      /\ opens \subseteq Openings /\ tracked \subseteq Watches
      /\ \A o \in opens : o.stream.watch \in Watches
  BY DEF CallInv, QueueInv, StreamInv, AgentTypes, Openings, Streams
<1>2. ASSUME NEW w \in Watches, CallWatch(w) PROVE CallInv'
  <2>1. /\ wpc[w] = "idle" /\ wpc' = [wpc EXCEPT ![w] = "queued"]
        /\ calls' = Append(calls, Call("watch", w))
        /\ UNCHANGED <<opens, tracked, lastExcludes>>
    BY <1>2 DEF CallWatch, agent, rest
  <2>2. Call("watch", w) \in Calls /\ Call("watch", w).op = "watch"
        /\ Call("watch", w).arg = w
    BY DEF Call, Calls
  <2>3. wpc' \in [Watches -> Steps] /\ wpc'[w] = "queued"
        /\ \A v \in Watches : v # w => wpc'[v] = wpc[v]
    BY <1>1, <2>1 DEF Steps
  <2>4. QueueInv'
    <3>1. /\ \A v \in Watches : wpc[v] \in {"queued", "releasing"} =>
                 wpc'[v] = wpc[v]
          /\ wpc[w] \notin {"queued", "releasing"}
      BY <2>1, <2>3
    <3> QED BY <1>1, <2>1, <2>2, <2>3, <3>1, QueueAppended
  <2>5. OpenInv'
    BY <1>1, <2>1, <2>3 DEF OpenInv
  <2> QED BY <1>1, <2>1, <2>4, <2>5 DEF CallInv
<1>3. ASSUME NEW w \in Watches, CallUnwatch(w) PROVE CallInv'
  <2>1. /\ wpc[w] = "held" /\ wpc' = [wpc EXCEPT ![w] = "releasing"]
        /\ calls' = Append(calls, Call("unwatch", w))
        /\ UNCHANGED <<opens, tracked, lastExcludes>>
    BY <1>3 DEF CallUnwatch, agent, rest
  <2>2. Call("unwatch", w) \in Calls /\ Call("unwatch", w).op = "unwatch"
        /\ Call("unwatch", w).arg = w
    BY DEF Call, Calls
  <2>3. wpc' \in [Watches -> Steps] /\ wpc'[w] = "releasing"
        /\ \A v \in Watches : v # w => wpc'[v] = wpc[v]
    BY <1>1, <2>1 DEF Steps
  <2>4. QueueInv'
    <3>1. /\ \A v \in Watches : wpc[v] \in {"queued", "releasing"} =>
                 wpc'[v] = wpc[v]
          /\ wpc[w] \notin {"queued", "releasing"}
      BY <2>1, <2>3
    <3> QED BY <1>1, <2>1, <2>2, <2>3, <3>1, QueueAppended
  <2>5. OpenInv'
    BY <1>1, <2>1, <2>3 DEF OpenInv
  <2> QED BY <1>1, <2>1, <2>4, <2>5 DEF CallInv
<1>4. CASE CallExcludes
  <2> DEFINE c == Call("excludes", lastExcludes + 1)
  <2>1. /\ lastExcludes' = lastExcludes + 1 /\ calls' = Append(calls, c)
        /\ UNCHANGED <<wpc, opens, tracked>>
    BY <1>4 DEF CallExcludes, agent
  <2>2. c \in Calls /\ c.op = "excludes"
    BY <1>1 DEF Call, Calls
  <2> HIDE DEF c
  <2>3. QueueInv'
    BY <1>1, <2>1, <2>2, QueueAppended
  <2> QED BY <1>1, <2>1, <2>3 DEF CallInv, OpenInv
<1> QED BY <1>2, <1>3, <1>4 DEF Client

LEMMA ResumeWatchCalls ==
    ASSUME StreamInv, CallInv, ResumeWatch PROVE CallInv'
<1> DEFINE w == Argument
           new == Opening(w, gen[w] + 1, agentExcludes, "watch")
<1>1. QueueInv /\ OpenInv /\ lastExcludes \in Nat /\ wpc \in [Watches -> Steps]
      /\ opens \subseteq Openings /\ tracked \subseteq Watches
      /\ gen \in [Watches -> Nat] /\ agentExcludes \in Nat
      /\ \A o \in opens : o.stream.watch \in Watches
  BY DEF CallInv, QueueInv, StreamInv, AgentTypes, Openings, Streams
<1>2. calls # <<>> /\ w \in Watches /\ wpc[w] = "queued" /\ Head(calls).arg = w
      /\ Head(calls).op = "watch"
  BY HeadOfCalls DEF ResumeWatch, Calls, CallInv, QueueInv
<1>3. calls' = Tail(calls) /\ lastExcludes' = lastExcludes
  BY DEF ResumeWatch, rest
<1>4. new.stream.watch = w /\ new.by = "watch"
  BY DEF Opening, Stream
<1>5. \/ /\ opens' = opens \cup {new} /\ tracked' = tracked \cup {w}
         /\ wpc' = [wpc EXCEPT ![w] = "opening"]
      \/ /\ opens' = opens /\ tracked' = tracked
         /\ wpc' = [wpc EXCEPT ![w] = "waiting"]
  BY DEF ResumeWatch
<1> HIDE DEF new, w
<1>6. wpc' \in [Watches -> Steps] /\ \A v \in Watches : v # w => wpc'[v] = wpc[v]
  BY <1>1, <1>2, <1>5 DEF Steps
<1>7. QueueInv'
  BY <1>1, <1>2, <1>3, <1>6, QueueTaken
<1>8. \A o \in opens : o.by = "watch" => o.stream.watch # w
  BY <1>1, <1>2 DEF OpenInv
<1>9. OpenInv'
  <2>1. CASE opens' = opens
    BY <1>1, <1>2, <1>5, <1>6, <1>8, <2>1 DEF OpenInv
  <2>2. CASE /\ opens' = opens \cup {new} /\ tracked' = tracked \cup {w}
             /\ wpc' = [wpc EXCEPT ![w] = "opening"]
    <3>1. wpc'[w] = "opening"
      BY <1>1, <1>2, <2>2
    <3>2. \A o \in opens' : o.by = "watch" => wpc'[o.stream.watch] = "opening"
      BY <1>1, <1>4, <1>6, <1>8, <2>2, <3>1 DEF OpenInv
    <3>3. \A o, q \in opens' :
             o.by = "watch" /\ q.by = "watch" /\ o.stream.watch = q.stream.watch
             => o = q
      BY <1>1, <1>4, <1>8, <2>2 DEF OpenInv
    <3>4. \A v \in tracked' : wpc'[v] \notin {"idle", "queued"}
      BY <1>1, <1>6, <2>2, <3>1 DEF OpenInv
    <3> QED BY <3>2, <3>3, <3>4 DEF OpenInv
  <2>3. CASE opens' # opens
    BY <2>2, <2>3, <1>5
  <2> QED BY <2>1, <2>3
<1> QED BY <1>1, <1>3, <1>7, <1>9 DEF CallInv

LEMMA ResumeUnwatchCalls ==
    ASSUME StreamInv, CallInv, ResumeUnwatch PROVE CallInv'
<1> DEFINE w == Argument
<1>1. QueueInv /\ OpenInv /\ lastExcludes \in Nat /\ wpc \in [Watches -> Steps]
      /\ opens \subseteq Openings /\ tracked \subseteq Watches
      /\ \A o \in opens : o.stream.watch \in Watches
  BY DEF CallInv, QueueInv, StreamInv, AgentTypes, Openings, Streams
<1>2. calls # <<>> /\ w \in Watches /\ wpc[w] = "releasing" /\ Head(calls).arg = w
      /\ Head(calls).op = "unwatch"
  BY HeadOfCalls DEF ResumeUnwatch, Calls, CallInv, QueueInv
<1>3. calls' = Tail(calls) /\ lastExcludes' = lastExcludes /\ opens' = opens
  BY DEF ResumeUnwatch
<1>4. /\ \E step \in {"gone", "removing", "failed"} : wpc' = [wpc EXCEPT ![w] = step]
      /\ tracked' \subseteq tracked
  BY DEF ResumeUnwatch
<1> HIDE DEF w
<1>5. /\ wpc' \in [Watches -> Steps] /\ wpc'[w] \in {"gone", "removing", "failed"}
      /\ \A v \in Watches : v # w => wpc'[v] = wpc[v]
  BY <1>1, <1>2, <1>4 DEF Steps
<1>6. QueueInv'
  BY <1>1, <1>2, <1>3, <1>5, QueueTaken
<1>7. OpenInv'
  BY <1>1, <1>2, <1>3, <1>4, <1>5 DEF OpenInv
<1> QED BY <1>1, <1>3, <1>6, <1>7 DEF CallInv

LEMMA ResumeExcludesCalls ==
    ASSUME StreamInv, CallInv, ResumeExcludes PROVE CallInv'
<1>1. QueueInv /\ OpenInv /\ lastExcludes \in Nat /\ wpc \in [Watches -> Steps]
      /\ gen \in [Watches -> Nat] /\ tracked \subseteq Watches
  BY DEF CallInv, QueueInv, StreamInv, AgentTypes
<1>2. calls # <<>> /\ Argument \in Nat
  BY HeadOfCalls DEF ResumeExcludes, Calls
<1>3. calls' = Tail(calls) /\ UNCHANGED <<wpc, tracked, lastExcludes>>
  BY DEF ResumeExcludes, rest
<1>4. QueueInv'
  BY <1>1, <1>2, <1>3, QueueTaken
<1>5. \A o \in Reopened : o.by = "excludes"
  BY DEF Reopened, Opening
<1>6. \A o \in opens' : o \in opens \/ o \in Reopened
  BY DEF ResumeExcludes
<1>7. OpenInv'
  BY <1>1, <1>3, <1>5, <1>6 DEF OpenInv
<1> QED BY <1>1, <1>3, <1>4, <1>7 DEF CallInv

(* A watch() moves on while it is in no call and in no open.                   *)
LEMMA WatchMoves ==
    ASSUME CallInv, StreamInv, NEW w \in Watches,
           wpc[w] \in {"waiting", "asking", "removing"},
           NEW step \in Steps \ {"idle", "queued"},
           wpc' = [wpc EXCEPT ![w] = step], tracked' \subseteq tracked \cup {w},
           UNCHANGED <<calls, opens, lastExcludes>>
    PROVE  CallInv'
<1>1. QueueInv /\ OpenInv /\ lastExcludes \in Nat /\ wpc \in [Watches -> Steps]
      /\ tracked \subseteq Watches
      /\ \A o \in opens : o.stream.watch \in Watches
  BY DEF CallInv, QueueInv, StreamInv, AgentTypes, Openings, Streams
<1>2. /\ wpc' \in [Watches -> Steps] /\ wpc'[w] = step
      /\ \A v \in Watches : v # w => wpc'[v] = wpc[v]
  BY <1>1
<1>3. QueueInv'
  BY <1>1, <1>2, QueueKept
<1>4. OpenInv'
  BY <1>1, <1>2 DEF OpenInv
<1> QED BY <1>1, <1>3, <1>4 DEF CallInv

LEMMA OpenLeavesCalls ==
    ASSUME StreamInv, CallInv, NEW o \in opens, opens' = opens \ {o},
           NEW step \in Steps \ {"idle", "queued"},
           wpc' = IF o.by = "watch" THEN [wpc EXCEPT ![o.stream.watch] = step]
                                    ELSE wpc,
           UNCHANGED <<calls, tracked, lastExcludes>>
    PROVE  CallInv'
<1>1. QueueInv /\ OpenInv /\ lastExcludes \in Nat /\ wpc \in [Watches -> Steps]
      /\ tracked \subseteq Watches
      /\ \A q \in opens : q.stream.watch \in Watches
  BY DEF CallInv, QueueInv, StreamInv, AgentTypes, Openings, Streams
<1>2. CASE o.by = "watch"
  <2>1. wpc[o.stream.watch] = "opening"
    BY <1>1, <1>2 DEF OpenInv
  <2>2. /\ wpc' \in [Watches -> Steps] /\ wpc'[o.stream.watch] = step
        /\ \A v \in Watches : v # o.stream.watch => wpc'[v] = wpc[v]
    BY <1>1, <1>2
  <2>3. QueueInv'
    BY <1>1, <2>1, <2>2, QueueKept
  <2>4. \A q \in opens' : q.by = "watch" => q.stream.watch # o.stream.watch
    BY <1>1, <1>2 DEF OpenInv
  <2>5. OpenInv'
    BY <1>1, <2>2, <2>4 DEF OpenInv
  <2> QED BY <1>1, <2>3, <2>5 DEF CallInv
<1>3. CASE o.by # "watch"
  BY <1>1, <1>3 DEF CallInv, QueueInv, OpenInv
<1> QED BY <1>2, <1>3

LEMMA OpenCalls ==
    ASSUME StreamInv, CallInv, NEW o \in opens,
           Subscribe(o) \/ Opened(o) \/ AgentUnavailable(o)
    PROVE  CallInv'
<1>1. CASE Subscribe(o)
  <2> DEFINE q == [o EXCEPT !.stage = "subscribed"]
  <2>1. o \in Openings /\ opens' = (opens \ {o}) \cup {q}
        /\ UNCHANGED <<calls, wpc, tracked, lastExcludes>>
    BY <1>1 DEF Subscribe, StreamInv, AgentTypes, waiting, rest
  <2>2. q.stream = o.stream /\ q.by = o.by
    BY <2>1 DEF Openings
  <2> HIDE DEF q
  <2>3. QueueInv'
    BY <2>1 DEF CallInv, QueueInv
  <2>4. OpenInv'
    BY <2>1, <2>2 DEF CallInv, OpenInv
  <2> QED BY <2>1, <2>3, <2>4 DEF CallInv
<1>2. CASE Opened(o)
  <2>1. /\ opens' = opens \ {o} /\ "held" \in Steps \ {"idle", "queued"}
        /\ wpc' = IF o.by = "watch" THEN [wpc EXCEPT ![o.stream.watch] = "held"]
                                    ELSE wpc
        /\ UNCHANGED <<calls, tracked, lastExcludes>>
    BY <1>2 DEF Opened, rest, Steps
  <2> QED BY <2>1, OpenLeavesCalls
<1>3. CASE AgentUnavailable(o)
  <2>1. /\ opens' = opens \ {o} /\ "failed" \in Steps \ {"idle", "queued"}
        /\ wpc' = IF o.by = "watch" THEN [wpc EXCEPT ![o.stream.watch] = "failed"]
                                    ELSE wpc
        /\ UNCHANGED <<calls, tracked, lastExcludes>>
    BY <1>3 DEF AgentUnavailable, OpenRejected, Steps
  <2> QED BY <2>1, OpenLeavesCalls
<1> QED BY <1>1, <1>2, <1>3

LEMMA StreamFailsCalls ==
    ASSUME StreamInv, CallInv, NEW s \in subs, StreamFails(s) PROVE CallInv'
<1>1. UNCHANGED <<calls, tracked, lastExcludes>>
  BY DEF StreamFails, rest
<1>2. CASE \E o \in opens : o.stream = s
  <2>1. PICK o \in opens : OpenRejected(o)
    BY <1>2 DEF StreamFails
  <2>2. /\ opens' = opens \ {o} /\ "failed" \in Steps \ {"idle", "queued"}
        /\ wpc' = IF o.by = "watch" THEN [wpc EXCEPT ![o.stream.watch] = "failed"]
                                    ELSE wpc
    BY <2>1 DEF OpenRejected, Steps
  <2> QED BY <1>1, <2>2, OpenLeavesCalls
<1>3. CASE ~\E o \in opens : o.stream = s
  BY <1>1, <1>3, CallsUnchanged DEF StreamFails
<1> QED BY <1>2, <1>3

LEMMA CallStep == ASSUME IInv, [Next]_vars PROVE CallInv'
<1>1. StreamInv /\ CallInv /\ opens \subseteq Openings
      /\ lastExcludes \in Nat /\ QueueInv /\ OpenInv
      /\ wpc \in [Watches -> Steps]
  BY DEF IInv, StreamInv, AgentTypes, CallInv, QueueInv
<1>2. CASE Client
  BY <1>1, <1>2, ClientCalls
<1>3. CASE ResumeWatch \/ ResumeUnwatch \/ ResumeExcludes
  BY <1>1, <1>3, ResumeWatchCalls, ResumeUnwatchCalls, ResumeExcludesCalls
<1>4. CASE ResumeFallback
  <2>1. calls # <<>> /\ calls' = Tail(calls)
        /\ UNCHANGED <<wpc, opens, tracked, lastExcludes>>
    BY <1>4 DEF ResumeFallback, Resumes, agent, rest
  <2>2. QueueInv'
    BY <1>1, <2>1, QueueTaken
  <2> QED BY <1>1, <2>1, <2>2 DEF CallInv, OpenInv
<1>5. CASE Forked
  <2>1. calls' = Append(calls, Call("fallback", 0))
        /\ UNCHANGED <<wpc, opens, tracked, lastExcludes>>
    BY <1>5 DEF Forked, agent, rest
  <2>2. Call("fallback", 0) \in Calls /\ Call("fallback", 0).op = "fallback"
    BY DEF Call, Calls
  <2>3. QueueInv'
    BY <1>1, <2>1, <2>2, QueueAppended
  <2> QED BY <1>1, <2>1, <2>3 DEF CallInv, OpenInv
<1>6. ASSUME NEW w \in Watches, FallbackAwaited(w) PROVE CallInv'
  <2>1. PICK step \in {"asking", "failed"} : wpc' = [wpc EXCEPT ![w] = step]
    BY <1>6 DEF FallbackAwaited
  <2>2. /\ step \in Steps \ {"idle", "queued"}
        /\ wpc[w] \in {"waiting", "asking", "removing"}
        /\ tracked' \subseteq tracked \cup {w}
        /\ UNCHANGED <<calls, opens, lastExcludes>>
    BY <1>6 DEF FallbackAwaited, Steps, agent, rest
  <2> QED BY <1>1, <2>1, <2>2, WatchMoves
<1>7. ASSUME NEW w \in Watches, WatchAnswered(w) PROVE CallInv'
  <2>1. /\ "held" \in Steps \ {"idle", "queued"}
        /\ wpc[w] \in {"waiting", "asking", "removing"}
        /\ wpc' = [wpc EXCEPT ![w] = "held"]
        /\ tracked' \subseteq tracked \cup {w}
        /\ UNCHANGED <<calls, opens, lastExcludes>>
    BY <1>7 DEF WatchAnswered, Steps, rest
  <2> QED BY <1>1, <2>1, WatchMoves
<1>8. ASSUME NEW w \in Watches, UnwatchAnswered(w) PROVE CallInv'
  <2>1. /\ "gone" \in Steps \ {"idle", "queued"}
        /\ wpc[w] \in {"waiting", "asking", "removing"}
        /\ wpc' = [wpc EXCEPT ![w] = "gone"]
        /\ tracked' \subseteq tracked \cup {w}
        /\ UNCHANGED <<calls, opens, lastExcludes>>
    BY <1>8 DEF UnwatchAnswered, Steps, rest
  <2> QED BY <1>1, <2>1, WatchMoves
<1>9. ASSUME NEW o \in opens, Subscribe(o) \/ Opened(o) \/ AgentUnavailable(o)
      PROVE  CallInv'
  BY <1>1, <1>9, OpenCalls
<1>10. ASSUME NEW s \in subs, StreamFails(s) PROVE CallInv'
  BY <1>1, <1>10, StreamFailsCalls
<1>11. ASSUME NEW w \in Watches, Restored(w) \/ RestoreRejected(w) PROVE CallInv'
  <2>1. UNCHANGED <<calls, wpc, opens, tracked, lastExcludes>>
    BY <1>11 DEF Restored, RestoreRejected, waiting, agent, rest
  <2> QED BY <1>1, <2>1, CallsUnchanged
<1>12. ASSUME ServerCreated \/ ListenFails \/ Connects \/ ExcludesAnswered
              \/ NodeHandles \/ NodeStarts \/ NodeFails
              \/ Dispose \/ DisposeAnswered \/ ServersClosed \/ UNCHANGED vars
       PROVE  CallInv'
  <2>1. UNCHANGED <<calls, wpc, opens, lastExcludes>> /\ tracked' \subseteq tracked
    BY <1>12 DEF ServerCreated, ListenFails, Connects, ExcludesAnswered, NodeHandles,
       NodeStarts, NodeStartsAgain, NodeWatches, NodeRejects, NodeFails, NodeDies, NodeLoses,
       Dispose, DisposeAnswered, ServersClosed, waiting, agent, rest, vars
  <2> QED BY <1>1, <2>1, CallsUnchanged
<1>13. ASSUME NEW w \in Watches, WatchRejected(w) PROVE CallInv'
  <2>1. /\ "failed" \in Steps \ {"idle", "queued"}
        /\ wpc[w] \in {"waiting", "asking", "removing"}
        /\ wpc' = [wpc EXCEPT ![w] = "failed"]
        /\ tracked' \subseteq tracked \cup {w}
        /\ UNCHANGED <<calls, opens, lastExcludes>>
    BY <1>13 DEF WatchRejected, Steps, agent, rest
  <2> QED BY <1>1, <2>1, WatchMoves
<1> QED BY <1>2, <1>3, <1>4, <1>5, <1>6, <1>7, <1>8, <1>9, <1>10, <1>11, <1>12, <1>13
        DEF Next, Resume, AgentAnswers, Fallback, Answered, Disposing

-----------------------------------------------------------------------------
(* The watcher process                                                         *)

NoneAsked == \A i \in DOMAIN calls : calls[i].op # "fallback"

LEMMA FallbackCall ==
    ASSUME QueueInv, NEW c \in Calls,
           \/ calls' = calls
           \/ calls' = Append(calls, c) /\ c.op # "fallback"
           \/ calls # <<>> /\ calls' = Tail(calls)
    PROVE  NoneAsked => NoneAsked'
<1>1. calls \in Seq(Calls)
  BY DEF QueueInv
<1>2. CASE calls' = Append(calls, c) /\ c.op # "fallback"
  <2>1. \A i \in DOMAIN calls' :
           (i \in DOMAIN calls /\ calls'[i] = calls[i]) \/ calls'[i] = c
    BY <1>1, <1>2
  <2> QED BY <1>2, <2>1 DEF NoneAsked
<1>3. CASE calls # <<>> /\ calls' = Tail(calls)
  <2>1. \A i \in DOMAIN calls' : i + 1 \in DOMAIN calls /\ calls'[i] = calls[i + 1]
    BY <1>1, <1>3
  <2> QED BY <2>1 DEF NoneAsked
<1> QED BY <1>2, <1>3 DEF NoneAsked

LEMMA ModeStep == ASSUME IInv, [Next]_vars PROVE ModeInv'
<1>1. ModeInv /\ QueueInv /\ wpc \in [Watches -> Steps]
      /\ runtime \in {"agent", "fallback"} /\ lastExcludes \in Nat
  BY DEF IInv, CallInv, QueueInv, StreamInv, AgentTypes
<1>2. CASE runtime = "agent"
  <2>1. /\ fpc = "none" /\ restoring = {} /\ child = "none" /\ ~connected
        /\ NoneAsked
        /\ \A w \in Watches : wpc[w] # "removing"
    BY <1>1, <1>2 DEF ModeInv, NoneAsked
  <2>2. ASSUME runtime' = "agent" => /\ fpc' = "none" /\ restoring' = {}
                                     /\ child' = "none" /\ ~connected' /\ NoneAsked'
                                     /\ \A w \in Watches : wpc'[w] # "removing",
               runtime' \in {"agent", "fallback"}
        PROVE  ModeInv'
    BY <2>1, <2>2 DEF ModeInv, NoneAsked
  <2>3. ASSUME Client PROVE ModeInv'
    <3>1. UNCHANGED <<runtime, fpc, restoring, child, connected>>
      BY <2>3 DEF Client, CallWatch, CallUnwatch, CallExcludes, fallback, process
    <3>2. \A w \in Watches : wpc'[w] # "removing"
      BY <1>1, <2>1, <2>3 DEF Client, CallWatch, CallUnwatch, CallExcludes
    <3>3. PICK c \in Calls : calls' = Append(calls, c) /\ c.op # "fallback"
      <4>1. /\ \A w \in Watches : /\ Call("watch", w) \in Calls
                                  /\ Call("watch", w).op # "fallback"
                                  /\ Call("unwatch", w) \in Calls
                                  /\ Call("unwatch", w).op # "fallback"
            /\ Call("excludes", lastExcludes + 1) \in Calls
            /\ Call("excludes", lastExcludes + 1).op # "fallback"
        BY <1>1 DEF Call, Calls
      <4>2. \/ \E w \in Watches : \/ calls' = Append(calls, Call("watch", w))
                                  \/ calls' = Append(calls, Call("unwatch", w))
            \/ calls' = Append(calls, Call("excludes", lastExcludes + 1))
        BY <2>3 DEF Client, CallWatch, CallUnwatch, CallExcludes
      <4> QED BY <4>1, <4>2
    <3>4. NoneAsked'
      BY <1>1, <2>1, <3>3, FallbackCall
    <3> QED BY <1>2, <2>1, <2>2, <3>1, <3>2, <3>4
  <2>4. ASSUME ResumeWatch \/ ResumeUnwatch \/ ResumeExcludes PROVE ModeInv'
    <3>1. UNCHANGED <<runtime, fpc, restoring, child, connected>>
      BY <2>4 DEF ResumeWatch, ResumeUnwatch, ResumeExcludes, fallback, process
    <3>2. \A w \in Watches : wpc'[w] # "removing"
      BY <1>1, <2>1, <2>4 DEF ResumeWatch, ResumeUnwatch, ResumeExcludes
    <3>3. calls # <<>> /\ calls' = Tail(calls)
      BY <2>4 DEF ResumeWatch, ResumeUnwatch, ResumeExcludes, Resumes
    <3>4. Call("fallback", 0) \in Calls
      BY DEF Call, Calls
    <3>5. NoneAsked'
      BY <1>1, <2>1, <3>3, <3>4, FallbackCall
    <3> QED BY <1>2, <2>1, <2>2, <3>1, <3>2, <3>5
  <2>5. ASSUME ResumeFallback PROVE ModeInv'
    <3>1. 1 \in DOMAIN calls /\ calls[1].op = "fallback"
      BY <1>1, <2>5 DEF ResumeFallback, Resumes, QueueInv
    <3> QED BY <2>1, <3>1 DEF NoneAsked
  <2>6. ASSUME NEW w \in Watches,
               \/ FallbackAwaited(w) \/ WatchAnswered(w)
               \/ WatchRejected(w) \/ UnwatchAnswered(w)
        PROVE  ModeInv'
    <3>1. UNCHANGED <<runtime, fpc, restoring, child, connected, calls>>
      BY <2>6 DEF FallbackAwaited, WatchAnswered, WatchRejected, UnwatchAnswered, fallback,
                  process
    <3>2. \A v \in Watches : wpc'[v] # "removing"
      BY <1>1, <2>1, <2>6 DEF FallbackAwaited, WatchAnswered, WatchRejected, UnwatchAnswered
    <3> QED BY <1>2, <2>1, <2>2, <3>1, <3>2 DEF NoneAsked
  <2>7. ASSUME NEW o \in opens, Subscribe(o) \/ Opened(o) \/ AgentUnavailable(o)
        PROVE  ModeInv'
    <3>1. UNCHANGED <<runtime, fpc, restoring, child, connected, calls>>
      BY <2>7 DEF Subscribe, Opened, AgentUnavailable, fallback, process, waiting
    <3>2. \A v \in Watches : wpc'[v] # "removing"
      BY <1>1, <2>1, <2>7 DEF Subscribe, Opened, AgentUnavailable, OpenRejected,
                              waiting
    <3> QED BY <1>2, <2>1, <2>2, <3>1, <3>2 DEF NoneAsked
  <2>8. ASSUME NEW s \in subs, StreamFails(s) PROVE ModeInv'
    <3>1. /\ UNCHANGED <<restoring, child, connected, calls>>
          /\ UNCHANGED <<runtime, fpc>> \/ runtime' = "fallback"
      BY <2>8 DEF StreamFails, FallBack, process
    <3>2. \A v \in Watches : wpc'[v] # "removing"
      BY <1>1, <2>1, <2>8 DEF StreamFails, OpenRejected
    <3> QED BY <1>2, <2>1, <2>2, <3>1, <3>2 DEF NoneAsked
  <2>9. ASSUME Fallback PROVE ModeInv'
    BY <2>1, <2>9 DEF Fallback, ServerCreated, Forked, ListenFails, Connects,
                      ExcludesAnswered
  <2>10. ASSUME NEW w \in Watches, Restored(w) \/ RestoreRejected(w) PROVE ModeInv'
    BY <2>1, <2>10 DEF Restored, RestoreRejected
  <2>11. ASSUME NodeHandles \/ NodeStarts \/ NodeFails \/ Dispose \/ DisposeAnswered
                \/ ServersClosed \/ UNCHANGED vars
         PROVE  ModeInv'
    <3>1. UNCHANGED <<runtime, fpc, restoring, calls, wpc>>
      BY <2>11 DEF NodeHandles, NodeStarts, NodeStartsAgain, NodeWatches, NodeRejects,
                   NodeFails, NodeDies, NodeLoses, Dispose, DisposeAnswered, ServersClosed,
                   waiting, fallback, vars
    <3>2. child' = "none" /\ ~connected'
      BY <2>1, <2>11 DEF NodeHandles, NodeStarts, NodeStartsAgain, NodeWatches, NodeRejects,
         NodeFails, NodeDies, NodeLoses, Dispose, DisposeAnswered, ServersClosed,
         Close, CloseServers, StopChild, process, vars
    <3> QED BY <1>2, <2>1, <2>2, <3>1, <3>2 DEF NoneAsked
  <2> QED BY <2>3, <2>4, <2>5, <2>6, <2>7, <2>8, <2>9, <2>10, <2>11
          DEF Next, Resume, AgentAnswers, Answered, Disposing
<1>3. CASE runtime = "fallback"
  <2>1. runtime' = "fallback"
    BY <1>3 DEF Next, Client, CallWatch, CallUnwatch, CallExcludes, Resume,
       ResumeWatch, ResumeUnwatch, ResumeExcludes, ResumeFallback, FallbackAwaited,
       AgentAnswers, Subscribe, Opened, AgentUnavailable, StreamFails, FallBack,
       Fallback, ServerCreated, Forked, ListenFails, Connects, ExcludesAnswered,
       NodeHandles, NodeStarts, NodeStartsAgain, NodeWatches, NodeRejects, NodeFails,
       NodeDies, NodeLoses, Answered, Restored, RestoreRejected, WatchAnswered,
       WatchRejected, UnwatchAnswered, Disposing, Dispose, DisposeAnswered, ServersClosed,
       fallback, vars
  <2> QED BY <2>1 DEF ModeInv
<1> QED BY <1>1, <1>2, <1>3

-----------------------------------------------------------------------------
(* Theorems about the streams of the Agent                                    *)

LEMMA IInvAlways == Spec => []IInv
<1>1. IInv /\ [Next]_vars => IInv'
  BY StreamStep, CallStep, ModeStep DEF IInv
<1> QED BY <1>1, IInvInit, PTL DEF Spec

\* Whatever overtakes an open (unwatch, new exclusions, the fallback, dispose),
\* openWorkspaceAgentWatch closes its stream unless it is the current one of a
\* tracked state: for any number of watches, of failing streams and of changes,
\* no stream of the Agent is left to nobody.
THEOREM StreamsStayOwned == Spec => []StreamsAreOwned
<1>1. IInv => StreamsAreOwned
  BY DEF IInv, StreamInv
<1> QED BY <1>1, IInvAlways, PTL

\* A stream whose events reach the client was opened with the exclusions that
\* setWatcherFileExcludes stored last, also when the change came while the stream
\* was being opened.
THEOREM ExcludesStayCurrent == Spec => []AgentExcludesCurrent
<1>1. IInv => AgentExcludesCurrent
  BY DEF IInv, StreamInv
<1> QED BY <1>1, IInvAlways, PTL
-----------------------------------------------------------------------------
(* Where each watch is served, and where a released one still could be.        *)

FallbackSteps == {"none", "path", "listening", "connecting", "excluding",
                  "restoring", "done", "partial", "failed"}

Messages == [op : {"watch", "unwatch"}, arg : SUBSET Watches] \cup
            [op : {"excludes", "initial"}, arg : 0..MaxExcludes]
Replies == [op : {"watch", "unwatch", "rejected"}, arg : Watches] \cup
           {Call("initial", 0)}

\* The types that StreamInv and CallInv leave open.
ProcessTypes ==
    /\ ready \in BOOLEAN /\ known \in BOOLEAN /\ connected \in BOOLEAN
    /\ fpc \in FallbackSteps /\ dpc \in {"none", "asking", "closing", "done"}
    /\ server \in {"none", "starting", "listening"}
    /\ child \in {"none", "started", "running", "stopped", "dead"}

WireTypes ==
    /\ toNode \in Seq(Messages) /\ answers \subseteq Replies
    /\ nodeWatches \subseteq Watches /\ restoring \subseteq Watches
    /\ starting \subseteq Watches /\ retried \subseteq starting
    /\ node \in [Watches -> BOOLEAN]
    /\ refused \subseteq Watches /\ missed \subseteq Watches
    /\ renumbered \subseteq Watches /\ lost \subseteq Watches

ExcludesTypes ==
    /\ {agentExcludes, lastExcludes, nodeExcludes} \subseteq 0..MaxExcludes
    /\ putOff \subseteq 0..MaxExcludes /\ \A u, v \in putOff : u = v
    /\ \A i \in DOMAIN calls : calls[i].op = "excludes" => calls[i].arg \in 0..MaxExcludes

\* The fallback is far enough for the watcher process to know of watches.
Handing == fpc \in {"restoring", "done", "partial"}

\* The process, its connection and its server follow the fallback and dispose().
ProcInv ==
    /\ runtime = "agent" => ready
    /\ connected => child = "running"
    /\ child \in {"running", "stopped", "dead"} => runtime = "fallback"
    /\ child \in {"none", "started"} => runtime = "agent" \/ ~ready
    /\ fpc \in {"none", "path", "listening"} => child = "none"
    /\ runtime = "fallback" => fpc # "none"
    /\ server = "listening" => fpc \notin {"none", "path", "listening"}
    /\ dpc = "closing" => ~connected /\ server = "none"
                          /\ fpc \notin {"none", "path", "listening"}
    /\ dpc = "none" /\ child = "running" => connected
    /\ child = "stopped" => dpc = "done"
    /\ fpc \in {"excluding", "restoring", "done", "partial"} =>
          runtime = "fallback" /\ ready
    /\ ~connected => toNode = <<>> /\ answers = {}

Sent(op, w) == \E i \in DOMAIN toNode : toNode[i].op = op /\ w \in toNode[i].arg
Replied(op, w) == Call(op, w) \in answers
Asked(w) == w \in restoring \/ wpc[w] = "asking"
AtNode(w) == w \in nodeWatches \/ w \in starting \/ Sent("watch", w)

\* Before the fallback hands its watches over the process knows of none; after it
\* has, it knows of none whose state lacks the nodeWatchId.
NodeOf(w) ==
    /\ ~Handing => /\ ~AtNode(w) /\ ~node[w]
                   /\ ~Replied("watch", w) /\ ~Replied("rejected", w)
    /\ w \in tracked /\ Handing /\ w \notin restoring => node[w] \/ ~AtNode(w)

NodeInv == /\ fpc \notin {"restoring", "partial"} => restoring = {}
           /\ \A w \in Watches : NodeOf(w)

\* A $watch is sent, started, and answered or rejected, one after the other.
InOrder(w) ==
    /\ Sent("watch", w) => /\ w \notin starting /\ w \notin nodeWatches
                           /\ ~Replied("watch", w) /\ ~Replied("rejected", w)
    /\ w \in starting => /\ w \notin nodeWatches
                         /\ ~Replied("watch", w) /\ ~Replied("rejected", w)
    /\ Replied("watch", w) => /\ w \in nodeWatches \/ w \in lost
                              /\ ~Replied("rejected", w)
    /\ Replied("rejected", w) => ~AtNode(w)

\* It is sent once, and no $unwatch before it is answered; a reset may take the id
\* away that the $unwatch is to find.
AskInv(w) ==
    /\ InOrder(w)
    /\ (\/ Sent("watch", w) \/ w \in starting
        \/ Replied("watch", w) \/ Replied("rejected", w)) => Asked(w)
    /\ w \in nodeWatches => Asked(w) \/ node[w]
    /\ Asked(w) \/ wpc[w] \in {"idle", "queued", "waiting"} => ~node[w]
    /\ wpc[w] \in {"idle", "queued", "waiting", "asking"} =>
          w \notin tracked /\ w \notin restoring
    /\ wpc[w] = "asking" => fpc = "done"
    /\ Sent("unwatch", w) \/ Replied("unwatch", w) => wpc[w] = "removing"
    /\ wpc[w] = "removing" => node[w]
    /\ Replied("unwatch", w) =>
          (w \notin nodeWatches \/ w \in renumbered) /\ ~Sent("unwatch", w)

SentOnce ==
    \A i, j \in DOMAIN toNode :
        /\ toNode[i].op \in {"watch", "unwatch"} /\ toNode[j].op = toNode[i].op
        /\ toNode[i].arg \cap toNode[j].arg # {}
        => i = j

\* A watch that is not in the map when its unWatch() comes is not at the watcher
\* process either.
UnwatchInv ==
    \A i \in DOMAIN calls : calls[i].op = "unwatch" =>
        (calls[i].arg \notin tracked => ~AtNode(calls[i].arg))

\* A released watch is nowhere.
Absent(w) ==
    wpc[w] = "gone" => /\ w \notin tracked
                       /\ w \notin missed /\ w \notin renumbered => ~AtNode(w)

GoneInv == \A w \in Watches : Absent(w)

\* While the client stays, what it holds is in the map and is on an open stream,
\* will be opened, or is handed over.
OnItsWay(w) == \E o \in opens : o.stream.watch = w /\ Current(o.stream)

Holding == {"opening", "held", "releasing"}

\* The watcher process lives and nothing of the fallback was rejected.
Serving == Handing /\ fpc # "partial" /\ child # "dead"
Served(w) == AtNode(w) \/ w \in lost \/ Replied("rejected", w)

HoldOf(w) ==
    wpc[w] \in Holding =>
        /\ w \in tracked
        /\ runtime = "agent" /\ w \notin refused => OnAgent(w) \/ OnItsWay(w)
        /\ Serving => Served(w)

HoldInv == dpc = "none" => \A w \in Watches : HoldOf(w)

SubscribedInv ==
    \A o \in opens : o.stage = "subscribed" /\ Current(o.stream) => o.stream \in subs

\* The fallback awaits whenReady once.
AskedInv ==
    /\ fpc # "connecting" => NoneAsked
    /\ \A i, j \in DOMAIN calls :
          calls[i].op = "fallback" /\ calls[j].op = "fallback" => i = j

ServeInv ==
    /\ AskedInv /\ ProcessTypes /\ WireTypes /\ ExcludesTypes /\ ProcInv /\ NodeInv
    /\ (\A w \in Watches : AskInv(w)) /\ SentOnce /\ GoneInv
    /\ UnwatchInv /\ HoldInv /\ SubscribedInv


(* Types, and the process.                                                     *)

LEMMA ServeInit == Init => ServeInv
<1> SUFFICES ASSUME Init PROVE ServeInv
  OBVIOUS
<1>1. ProcessTypes /\ ProcInv
  BY DEF Init, ProcessTypes, FallbackSteps, ProcInv
<1>2. WireTypes /\ SentOnce
  BY DEF Init, WireTypes, SentOnce
<1>3. ExcludesTypes
  BY WatcherManagerAssumption DEF Init, ExcludesTypes
<1>4. NodeInv /\ (\A w \in Watches : AskInv(w)) /\ GoneInv
  BY DEF Init, NodeInv, NodeOf, Handing, AtNode, Sent, Replied, InOrder, AskInv, Asked,
         GoneInv, Absent
<1>5. UnwatchInv /\ HoldInv /\ SubscribedInv
  BY DEF Init, UnwatchInv, HoldInv, HoldOf, Holding, SubscribedInv
<1>6. AskedInv
  BY DEF Init, AskedInv, NoneAsked
<1> QED BY <1>1, <1>2, <1>3, <1>4, <1>5, <1>6 DEF ServeInv

ProcVars == <<runtime, ready, fpc, child, server, known, dpc, connected>>

LEMMA ProcFrame ==
    ASSUME ProcessTypes, ProcInv, UNCHANGED ProcVars,
           \/ UNCHANGED <<toNode, answers>>
           \/ connected
    PROVE  ProcessTypes' /\ ProcInv'
BY DEF ProcessTypes, ProcInv, ProcVars

\* The calls, the opens and the answers leave the process alone.
Calling ==
    \/ \E w \in Watches : \/ CallWatch(w) \/ CallUnwatch(w) \/ FallbackAwaited(w)
                          \/ WatchAnswered(w) \/ WatchRejected(w) \/ UnwatchAnswered(w)
                          \/ NodeLoses(w)
    \/ CallExcludes \/ ResumeWatch \/ ResumeUnwatch \/ ResumeExcludes
    \/ AgentAnswers \/ NodeHandles \/ NodeStarts

LEMMA CallingProc ==
    ASSUME ProcessTypes, ProcInv, Calling PROVE ProcessTypes' /\ ProcInv'
<1>1. ASSUME NEW w \in Watches, CallWatch(w) \/ CallUnwatch(w)
      PROVE  UNCHANGED ProcVars /\ UNCHANGED <<toNode, answers>>
  BY <1>1 DEF CallWatch, CallUnwatch, ProcVars, fallback, process, wire
<1>2. ASSUME NEW w \in Watches, FallbackAwaited(w)
      PROVE  UNCHANGED ProcVars /\ (UNCHANGED <<toNode, answers>> \/ connected)
  BY <1>2 DEF FallbackAwaited, ProcVars, fallback, process
<1>3. ASSUME NEW w \in Watches, WatchAnswered(w) \/ WatchRejected(w) \/ UnwatchAnswered(w)
      PROVE  UNCHANGED ProcVars /\ connected
  <2>1. answers # {}
    BY <1>3 DEF WatchAnswered, WatchRejected, UnwatchAnswered
  <2>2. connected
    BY <2>1 DEF ProcInv, ProcessTypes
  <2>3. UNCHANGED ProcVars
    BY <1>3 DEF WatchAnswered, WatchRejected, UnwatchAnswered, ProcVars, fallback, process
  <2> QED BY <2>2, <2>3
<1>4. ASSUME CallExcludes \/ ResumeWatch
      PROVE  UNCHANGED ProcVars /\ UNCHANGED <<toNode, answers>>
  BY <1>4 DEF CallExcludes, ResumeWatch, ProcVars, fallback, process, wire
<1>5. ASSUME ResumeUnwatch
      PROVE  UNCHANGED ProcVars /\ (UNCHANGED <<toNode, answers>> \/ connected)
  BY <1>5 DEF ResumeUnwatch, ProcVars, fallback, process
<1>6. ASSUME ResumeExcludes
      PROVE  UNCHANGED ProcVars /\ (UNCHANGED <<toNode, answers>> \/ connected)
  BY <1>6 DEF ResumeExcludes, ProcVars, fallback, process
<1>7. ASSUME NEW o \in opens, Subscribe(o) \/ Opened(o) \/ AgentUnavailable(o)
      PROVE  UNCHANGED ProcVars /\ UNCHANGED <<toNode, answers>>
  BY <1>7 DEF Subscribe, Opened, AgentUnavailable, ProcVars, fallback, process, wire
<1>8. ASSUME NodeHandles PROVE UNCHANGED ProcVars /\ connected
  <2>1. connected
    BY <1>8 DEF NodeHandles, ProcInv, ProcessTypes
  <2>2. UNCHANGED ProcVars
    BY <1>8 DEF NodeHandles, ProcVars, fallback, process
  <2> QED BY <2>1, <2>2
<1>9. ASSUME NodeStarts PROVE UNCHANGED ProcVars /\ connected
  BY <1>9 DEF NodeStarts, NodeStartsAgain, NodeWatches, NodeRejects, Starts, ProcVars,
              fallback, process
<1>10. ASSUME NEW w \in Watches, NodeLoses(w)
       PROVE  UNCHANGED ProcVars /\ UNCHANGED <<toNode, answers>>
  BY <1>10 DEF NodeLoses, ProcVars, fallback, process, wire
<1> QED BY <1>1, <1>2, <1>3, <1>4, <1>5, <1>6, <1>7, <1>8, <1>9, <1>10, ProcFrame
        DEF Calling, AgentAnswers

LEMMA ProcStep ==
    ASSUME IInv, ProcessTypes, ProcInv, NodeInv, [Next]_vars
    PROVE  ProcessTypes' /\ ProcInv'
<1>1. /\ runtime \in {"agent", "fallback"} /\ (runtime = "agent" => fpc = "none")
      /\ runtime = "agent" => child = "none"
  BY DEF IInv, StreamInv, AgentTypes, ModeInv
<1>2. CASE Calling
  BY <1>2, CallingProc
<1>3. ASSUME NEW s \in subs, StreamFails(s) PROVE ProcessTypes' /\ ProcInv'
  <2>1. UNCHANGED <<child, server, known, dpc, connected, toNode, answers>>
    BY <1>3 DEF StreamFails, process, wire
  <2>2. CASE Stale(s)
    BY <1>3, <2>1, <2>2, ProcFrame DEF StreamFails, ProcVars
  <2>3. CASE ~Stale(s)
    <3>1. runtime = "agent" /\ runtime' = "fallback" /\ fpc' = "path" /\ ready' = FALSE
      BY <1>3, <2>3 DEF StreamFails, FallBack, Stale
    <3> QED BY <1>1, <2>1, <3>1 DEF ProcessTypes, ProcInv, FallbackSteps
  <2> QED BY <2>2, <2>3
<1>4. CASE ResumeFallback
  <2>1. /\ UNCHANGED <<runtime, ready, child, server, known, dpc, connected, answers>>
        /\ ready /\ runtime = "fallback"
        /\ \/ connected /\ fpc' = "excluding"
           \/ ~connected /\ fpc' = "failed" /\ toNode' = toNode
    <3>1. ready /\ 1 \in DOMAIN calls /\ calls[1].op = "fallback"
      BY <1>4 DEF ResumeFallback, Resumes, IInv, CallInv, QueueInv
    <3>2. runtime = "fallback"
      BY <3>1 DEF IInv, ModeInv
    <3> QED BY <1>4, <3>1, <3>2 DEF ResumeFallback, process
  <2>2. child # "none" /\ child # "started"
    BY <2>1 DEF ProcInv
  <2> QED BY <2>1, <2>2 DEF ProcessTypes, ProcInv, FallbackSteps
<1>5. CASE ServerCreated
  <2>1. /\ UNCHANGED <<runtime, ready, child, dpc, connected, toNode, answers>>
        /\ fpc = "path" /\ fpc' = "listening" /\ server' = "starting" /\ known' = TRUE
    BY <1>5 DEF ServerCreated, wire
  <2> QED BY <2>1 DEF ProcessTypes, ProcInv, FallbackSteps
<1>6. CASE Forked
  <2>1. /\ UNCHANGED <<runtime, ready, known, dpc, connected, toNode, answers>>
        /\ fpc = "listening" /\ fpc' = "connecting" /\ server' = "listening"
        /\ child' = "started"
    BY <1>6 DEF Forked, wire
  <2> QED BY <2>1 DEF ProcessTypes, ProcInv, FallbackSteps
<1>7. CASE ListenFails
  <2>1. /\ UNCHANGED <<runtime, ready, child, dpc, connected, toNode, answers>>
        /\ fpc = "listening" /\ fpc' = "failed" /\ server' = "none" /\ known' = FALSE
    BY <1>7 DEF ListenFails, wire
  <2> QED BY <2>1 DEF ProcessTypes, ProcInv, FallbackSteps
<1>8. CASE Connects
  <2>1. /\ UNCHANGED <<runtime, fpc, known, server, dpc, toNode, answers>>
        /\ child = "started" /\ server = "listening" /\ child' = "running"
        /\ connected' = TRUE /\ ready' = TRUE
    BY <1>8 DEF Connects, fallback, wire, ReadyOnConnection
  <2> QED BY <1>1, <2>1 DEF ProcessTypes, ProcInv, FallbackSteps
<1>9. CASE ExcludesAnswered
  <2>1. /\ UNCHANGED <<runtime, ready, child, server, known, dpc, connected>>
        /\ fpc = "excluding" /\ fpc' \in {"done", "restoring"} /\ answers # {}
    BY <1>9 DEF ExcludesAnswered, process
  <2> QED BY <2>1 DEF ProcessTypes, ProcInv, FallbackSteps
<1>10. ASSUME NEW w \in Watches, Restored(w) \/ RestoreRejected(w)
       PROVE  ProcessTypes' /\ ProcInv'
  <2>1. /\ UNCHANGED <<runtime, ready, child, server, known, dpc, connected>>
        /\ answers # {} /\ fpc' \in {fpc, "done", "partial"}
    BY <1>10 DEF Restored, RestoreRejected, process
  <2>2. connected /\ child = "running"
    BY <2>1 DEF ProcInv, ProcessTypes
  <2>3. runtime = "fallback" /\ ready
    <3>1. restoring # {}
      BY <1>10 DEF Restored, RestoreRejected
    <3> QED BY <3>1 DEF NodeInv, ProcInv
  <2> QED BY <2>1, <2>2, <2>3 DEF ProcessTypes, ProcInv, FallbackSteps
<1>11. ASSUME Close, UNCHANGED <<runtime, ready, fpc>>, dpc \in {"none", "asking"}
      PROVE  ProcessTypes' /\ ProcInv'
  <2>1. /\ connected' = FALSE /\ known' = FALSE /\ toNode' = <<>> /\ answers' = {}
        /\ server' = IF known /\ server = "listening" THEN "none" ELSE server
    BY <1>11 DEF Close, CloseServers
  <2>2. child # "stopped" /\ (child = "running" => runtime = "fallback")
    BY <1>11 DEF ProcInv
  <2>3. CASE known /\ server = "listening"
    <3>1. dpc' = "closing" /\ child' = child
      BY <1>11, <2>3 DEF Close
    <3>2. fpc \notin {"none", "path", "listening"} /\ server' = "none"
      BY <2>1, <2>3 DEF ProcInv
    <3> QED BY <1>11, <2>1, <2>2, <3>1, <3>2 DEF ProcessTypes, ProcInv
  <2>4. CASE ~(known /\ server = "listening")
    <3>1. dpc' = "done" /\ child' = IF child \in {"none", "dead"} THEN child ELSE "stopped"
      BY <1>11, <2>4 DEF Close, StopChild
    <3>2. server' = server
      BY <2>1, <2>4
    <3>3. child # "none" => runtime = "fallback"
      BY <1>1
    <3> QED BY <1>11, <2>1, <2>2, <3>1, <3>2, <3>3 DEF ProcessTypes, ProcInv
  <2> QED BY <2>3, <2>4
<1>12. CASE Dispose
  <2>1. dpc = "none" /\ UNCHANGED <<runtime, ready, fpc>>
    BY <1>12 DEF Dispose, fallback
  <2>2. CASE connected
    <3>1. /\ dpc' = "asking" /\ UNCHANGED <<child, server, known, connected>>
          /\ UNCHANGED <<toNode, answers>>
      BY <1>12, <2>2 DEF Dispose, process, wire
    <3> QED BY <2>1, <3>1 DEF ProcessTypes, ProcInv
  <2>3. CASE ~connected
    BY <1>11, <1>12, <2>1, <2>3 DEF Dispose
  <2> QED BY <2>2, <2>3
<1>13. CASE DisposeAnswered
  BY <1>11, <1>13 DEF DisposeAnswered, fallback
<1>14. CASE ServersClosed
  <2>1. /\ dpc = "closing" /\ dpc' = "done"
        /\ child' = IF child \in {"none", "dead"} THEN child ELSE "stopped"
        /\ UNCHANGED <<runtime, ready, fpc, server, known, connected, toNode, answers>>
    BY <1>14 DEF ServersClosed, StopChild, fallback, wire
  <2>2. child # "none" => runtime = "fallback"
    BY <1>1
  <2> QED BY <2>1, <2>2 DEF ProcessTypes, ProcInv
<1>15. CASE UNCHANGED vars
  BY <1>15, ProcFrame DEF vars, ProcVars, fallback, process, wire
<1>16. CASE NodeDies
  <2>1. /\ child \in {"started", "running"} /\ child' = "dead" /\ connected' = FALSE
        /\ toNode' = <<>> /\ answers' = {}
        /\ UNCHANGED <<runtime, ready, fpc, server, known, dpc>>
    BY <1>16 DEF NodeDies, fallback
  <2>2. runtime = "fallback"
    BY <1>1, <2>1
  <2> QED BY <2>1, <2>2 DEF ProcessTypes, ProcInv
<1> QED BY <1>2, <1>3, <1>4, <1>5, <1>6, <1>7, <1>8, <1>9, <1>10, <1>12, <1>13, <1>14,
           <1>15, <1>16
        DEF Next, Client, Resume, Fallback, NodeFails, Answered, Disposing, Calling

LEMMA AskedKept ==
    ASSUME QueueInv, AskedInv, NEW c \in Calls,
           \/ calls' = calls
           \/ calls' = Append(calls, c) /\ c.op # "fallback"
           \/ calls # <<>> /\ calls' = Tail(calls),
           fpc' = fpc \/ (fpc # "connecting" /\ fpc' # "connecting")
    PROVE  AskedInv'
<1>1. calls \in Seq(Calls)
  BY DEF QueueInv
<1>2. NoneAsked => NoneAsked'
  BY FallbackCall
<1>3. CASE calls' = calls
  BY <1>2, <1>3 DEF AskedInv, NoneAsked
<1>4. CASE calls' = Append(calls, c) /\ c.op # "fallback"
  <2>1. \A i \in DOMAIN calls' : calls'[i].op = "fallback" =>
           i \in DOMAIN calls /\ calls'[i] = calls[i]
    BY <1>1, <1>4
  <2> QED BY <1>2, <2>1 DEF AskedInv
<1>5. CASE calls # <<>> /\ calls' = Tail(calls)
  <2>1. \A i \in DOMAIN calls' :
           i \in Nat /\ i + 1 \in DOMAIN calls /\ calls'[i] = calls[i + 1]
    BY <1>1, <1>5
  <2>2. ASSUME NEW i \in DOMAIN calls', NEW j \in DOMAIN calls',
               calls'[i].op = "fallback", calls'[j].op = "fallback"
        PROVE  i = j
    <3>1. i + 1 = j + 1
      BY <2>1, <2>2 DEF AskedInv
    <3> QED BY <2>1, <3>1
  <2>3. fpc' # "connecting" => NoneAsked'
    BY <1>2 DEF AskedInv
  <2> QED BY <2>2, <2>3 DEF AskedInv
<1> QED BY <1>3, <1>4, <1>5

LEMMA AskedStep == ASSUME IInv, NodeInv, AskedInv, [Next]_vars PROVE AskedInv'
<1>1. QueueInv /\ calls \in Seq(Calls) /\ lastExcludes \in Nat
      /\ (runtime = "agent" => fpc = "none")
  BY DEF IInv, CallInv, QueueInv, ModeInv
<1>2. Call("fallback", 0) \in Calls
  BY DEF Call, Calls
<1>3. ASSUME Client PROVE AskedInv'
  <2>1. fpc' = fpc
    BY <1>3 DEF Client, CallWatch, CallUnwatch, CallExcludes, fallback
  <2>2. PICK c \in Calls : calls' = Append(calls, c) /\ c.op # "fallback"
    <3>1. /\ \A w \in Watches : /\ Call("watch", w) \in Calls
                                /\ Call("watch", w).op # "fallback"
                                /\ Call("unwatch", w) \in Calls
                                /\ Call("unwatch", w).op # "fallback"
          /\ Call("excludes", lastExcludes + 1) \in Calls
          /\ Call("excludes", lastExcludes + 1).op # "fallback"
      BY <1>1 DEF Call, Calls
    <3>2. \/ \E w \in Watches : \/ calls' = Append(calls, Call("watch", w))
                                \/ calls' = Append(calls, Call("unwatch", w))
          \/ calls' = Append(calls, Call("excludes", lastExcludes + 1))
      BY <1>3 DEF Client, CallWatch, CallUnwatch, CallExcludes
    <3> QED BY <3>1, <3>2
  <2> QED BY <1>1, <2>1, <2>2, AskedKept
<1>4. ASSUME ResumeWatch \/ ResumeUnwatch \/ ResumeExcludes PROVE AskedInv'
  <2>1. fpc' = fpc /\ calls # <<>> /\ calls' = Tail(calls)
    BY <1>4 DEF ResumeWatch, ResumeUnwatch, ResumeExcludes, Resumes, fallback
  <2> QED BY <1>1, <1>2, <2>1, AskedKept
<1>5. ASSUME ResumeFallback PROVE AskedInv'
  <2>1. /\ calls # <<>> /\ calls[1].op = "fallback" /\ 1 \in DOMAIN calls
        /\ fpc' # "connecting"
        /\ calls' = Tail(calls)
    BY <1>1, <1>5 DEF ResumeFallback, Resumes
  <2>2. \A i \in DOMAIN calls' :
           i + 1 \in DOMAIN calls /\ i + 1 # 1 /\ calls'[i] = calls[i + 1]
    BY <1>1, <2>1
  <2>3. NoneAsked'
    BY <2>1, <2>2 DEF AskedInv, NoneAsked
  <2> QED BY <2>1, <2>3 DEF AskedInv, NoneAsked
<1>6. ASSUME Forked PROVE AskedInv'
  <2>1. /\ fpc = "listening" /\ fpc' = "connecting" /\ calls' = Append(calls, Call("fallback", 0))
    BY <1>6 DEF Forked
  <2>2. \A i \in DOMAIN calls' :
           (i \in DOMAIN calls /\ calls'[i] = calls[i]) \/ i = Len(calls) + 1
    BY <1>1, <2>1
  <2> QED BY <2>1, <2>2 DEF AskedInv, NoneAsked
<1>7. ASSUME NEW w \in Watches,
             \/ FallbackAwaited(w) \/ Restored(w) \/ RestoreRejected(w)
             \/ WatchAnswered(w) \/ WatchRejected(w) \/ UnwatchAnswered(w)
      PROVE  AskedInv'
  <2>1. calls' = calls
    BY <1>7 DEF FallbackAwaited, Restored, RestoreRejected, WatchAnswered, WatchRejected,
                UnwatchAnswered, waiting
  <2>2. CASE fpc' = fpc
    BY <1>1, <1>2, <2>1, <2>2, AskedKept
  <2>3. CASE fpc' \in {"done", "partial"} /\ fpc \in {"restoring", "partial"}
    BY <1>1, <1>2, <2>1, <2>3, AskedKept
  <2>4. fpc' = fpc \/ (fpc' \in {"done", "partial"} /\ restoring # {})
    BY <1>7 DEF FallbackAwaited, Restored, RestoreRejected, WatchAnswered, WatchRejected,
                UnwatchAnswered, fallback
  <2> QED BY <2>2, <2>3, <2>4 DEF NodeInv
<1>8. ASSUME NEW o \in opens, Subscribe(o) \/ Opened(o) \/ AgentUnavailable(o)
      PROVE  AskedInv'
  <2>1. calls' = calls /\ fpc' = fpc
    BY <1>8 DEF Subscribe, Opened, AgentUnavailable, waiting, fallback
  <2> QED BY <1>1, <1>2, <2>1, AskedKept
<1>9. ASSUME NEW s \in subs, StreamFails(s) PROVE AskedInv'
  <2>1. calls' = calls /\ (fpc' = fpc \/ (runtime = "agent" /\ fpc' = "path"))
    BY <1>9 DEF StreamFails, FallBack, Stale
  <2> QED BY <1>1, <1>2, <2>1, AskedKept
<1>10. ASSUME ServerCreated \/ ListenFails \/ Connects \/ ExcludesAnswered PROVE AskedInv'
  <2>1. calls' = calls /\ (fpc' = fpc \/ (fpc # "connecting" /\ fpc' # "connecting"))
    BY <1>10 DEF ServerCreated, ListenFails, Connects, ExcludesAnswered, waiting, fallback
  <2> QED BY <1>1, <1>2, <2>1, AskedKept
<1>11. ASSUME NodeHandles \/ NodeStarts \/ NodeFails \/ Dispose \/ DisposeAnswered
              \/ ServersClosed \/ UNCHANGED vars
       PROVE  AskedInv'
  <2>1. calls' = calls /\ fpc' = fpc
    BY <1>11 DEF NodeHandles, NodeStarts, NodeStartsAgain, NodeWatches, NodeRejects,
                 NodeFails, NodeDies, NodeLoses, Dispose, DisposeAnswered, ServersClosed,
                 waiting, fallback, vars
  <2> QED BY <1>1, <1>2, <2>1, AskedKept
<1> QED BY <1>3, <1>4, <1>5, <1>6, <1>7, <1>8, <1>9, <1>10, <1>11
        DEF Next, Resume, AgentAnswers, Fallback, Answered, Disposing

-----------------------------------------------------------------------------
(* The wire                                                                    *)

WireInv == /\ WireTypes /\ NodeInv /\ (\A w \in Watches : AskInv(w))
           /\ SentOnce /\ GoneInv

\* What is on the wire after one more message.
LEMMA SentAppend ==
    ASSUME toNode \in Seq(Messages), NEW m \in Messages, toNode' = toNode \o <<m>>
    PROVE  /\ toNode' \in Seq(Messages)
           /\ \A op, w : Sent(op, w)' => Sent(op, w) \/ (m.op = op /\ w \in m.arg)
           /\ \A op, w : Sent(op, w) => Sent(op, w)'
           /\ \A op, w : m.op = op /\ w \in m.arg => Sent(op, w)'
           /\ (SentOnce /\ \A w \in m.arg : m.op \in {"watch", "unwatch"} => ~Sent(m.op, w))
              => SentOnce'
<1>1. /\ toNode' \in Seq(Messages) /\ Len(toNode') = Len(toNode) + 1
      /\ DOMAIN toNode = 1 .. Len(toNode) /\ DOMAIN toNode' = 1 .. Len(toNode')
      /\ Len(toNode) \in Nat
      /\ \A i \in DOMAIN toNode : toNode'[i] = toNode[i]
      /\ toNode'[Len(toNode) + 1] = m
  OBVIOUS
<1>2. \A i \in DOMAIN toNode' : i \in DOMAIN toNode \/ i = Len(toNode) + 1
  BY <1>1
<1>3. /\ \A i \in DOMAIN toNode : i \in DOMAIN toNode'
      /\ Len(toNode) + 1 \in DOMAIN toNode' /\ Len(toNode) + 1 \notin DOMAIN toNode
  BY <1>1
<1>4. \A op, w : Sent(op, w)' => Sent(op, w) \/ (m.op = op /\ w \in m.arg)
  BY <1>1, <1>2 DEF Sent
<1>5. \A op, w : Sent(op, w) => Sent(op, w)'
  BY <1>1, <1>3 DEF Sent
<1>6. \A op, w : m.op = op /\ w \in m.arg => Sent(op, w)'
  BY <1>1, <1>3 DEF Sent
<1>7. ASSUME SentOnce, \A w \in m.arg : m.op \in {"watch", "unwatch"} => ~Sent(m.op, w)
      PROVE  SentOnce'
  <2> SUFFICES ASSUME NEW i \in DOMAIN toNode', NEW j \in DOMAIN toNode',
                      toNode'[i].op \in {"watch", "unwatch"},
                      toNode'[j].op = toNode'[i].op,
                      toNode'[i].arg \cap toNode'[j].arg # {}
               PROVE  i = j
    BY DEF SentOnce
  <2>1. CASE i \in DOMAIN toNode /\ j \in DOMAIN toNode
    BY <1>1, <1>7, <2>1 DEF SentOnce
  <2>2. CASE i = Len(toNode) + 1 /\ j \in DOMAIN toNode
    BY <1>1, <1>7, <2>2 DEF Sent
  <2>3. CASE j = Len(toNode) + 1 /\ i \in DOMAIN toNode
    BY <1>1, <1>7, <2>3 DEF Sent
  <2> QED BY <1>2, <2>1, <2>2, <2>3
<1> QED BY <1>1, <1>4, <1>5, <1>6, <1>7

\* ... and after the first has been taken.
LEMMA SentTail ==
    ASSUME toNode \in Seq(Messages), toNode # <<>>, toNode' = Tail(toNode)
    PROVE  /\ toNode' \in Seq(Messages) /\ Head(toNode) \in Messages
           /\ \A op, w : Sent(op, w)' => Sent(op, w)
           /\ \A op, w : Sent(op, w) =>
                 Sent(op, w)' \/ (Head(toNode).op = op /\ w \in Head(toNode).arg)
           /\ \A op, w : Head(toNode).op = op /\ w \in Head(toNode).arg => Sent(op, w)
           /\ SentOnce => SentOnce'
           /\ SentOnce => \A op \in {"watch", "unwatch"} : \A w :
                 Head(toNode).op = op /\ w \in Head(toNode).arg => ~Sent(op, w)'
<1>1. /\ toNode' \in Seq(Messages) /\ Len(toNode') = Len(toNode) - 1
      /\ DOMAIN toNode = 1 .. Len(toNode) /\ DOMAIN toNode' = 1 .. Len(toNode')
      /\ Len(toNode) \in Nat /\ Len(toNode) > 0
      /\ \A i \in DOMAIN toNode' : toNode'[i] = toNode[i + 1]
      /\ Head(toNode) = toNode[1] /\ toNode[1] \in Messages
  OBVIOUS
<1>2. /\ \A i \in DOMAIN toNode' : i + 1 \in DOMAIN toNode /\ i + 1 # 1 /\ i \in Nat
      /\ \A i \in DOMAIN toNode : i = 1 \/ (i - 1 \in DOMAIN toNode' /\ (i - 1) + 1 = i)
      /\ 1 \in DOMAIN toNode
  BY <1>1
<1>3. \A op, w : Sent(op, w)' => Sent(op, w)
  BY <1>1, <1>2 DEF Sent
<1>4. \A op, w : Sent(op, w) =>
          Sent(op, w)' \/ (Head(toNode).op = op /\ w \in Head(toNode).arg)
  <2> SUFFICES ASSUME NEW op, NEW w, NEW i \in DOMAIN toNode,
                      toNode[i].op = op, w \in toNode[i].arg
               PROVE  Sent(op, w)' \/ (Head(toNode).op = op /\ w \in Head(toNode).arg)
    BY DEF Sent
  <2>1. CASE i = 1
    BY <1>1, <2>1
  <2>2. CASE i # 1
    <3>1. i - 1 \in DOMAIN toNode' /\ toNode'[i - 1] = toNode[i]
      BY <1>1, <1>2, <2>2
    <3> QED BY <3>1 DEF Sent
  <2> QED BY <2>1, <2>2
<1>5. \A op, w : Head(toNode).op = op /\ w \in Head(toNode).arg => Sent(op, w)
  BY <1>1, <1>2 DEF Sent
<1>6. ASSUME SentOnce PROVE SentOnce'
  <2> SUFFICES ASSUME NEW i \in DOMAIN toNode', NEW j \in DOMAIN toNode',
                      toNode'[i].op \in {"watch", "unwatch"},
                      toNode'[j].op = toNode'[i].op,
                      toNode'[i].arg \cap toNode'[j].arg # {}
               PROVE  i = j
    BY DEF SentOnce
  <2>1. i + 1 = j + 1
    BY <1>1, <1>2, <1>6 DEF SentOnce
  <2> QED BY <1>2, <2>1
<1>7. ASSUME SentOnce, NEW op \in {"watch", "unwatch"}, NEW w, Head(toNode).op = op,
             w \in Head(toNode).arg, Sent(op, w)'
      PROVE  FALSE
  <2>1. PICK i \in DOMAIN toNode' : toNode'[i].op = op /\ w \in toNode'[i].arg
    BY <1>7 DEF Sent
  <2>2. /\ i + 1 \in DOMAIN toNode /\ i + 1 # 1 /\ toNode[i + 1].op = toNode[1].op
        /\ w \in toNode[i + 1].arg \cap toNode[1].arg
        /\ toNode[i + 1].op \in {"watch", "unwatch"}
    BY <1>1, <1>2, <1>7, <2>1
  <2>3. toNode[i + 1].arg \cap toNode[1].arg # {}
    BY <2>2
  <2> QED BY <1>2, <1>7, <2>2, <2>3 DEF SentOnce
<1> QED BY <1>1, <1>3, <1>4, <1>5, <1>6, <1>7

LEMMA SentSame ==
    ASSUME UNCHANGED toNode
    PROVE  /\ \A op, w : Sent(op, w)' <=> Sent(op, w)
           /\ SentOnce => SentOnce'
BY DEF Sent, SentOnce

\* The steps of a watch that hand nothing to the watcher process.
Stays(w) ==
    \/ wpc'[w] = wpc[w]
    \/ wpc[w] \in {"idle", "queued"} /\ wpc'[w] \in {"queued", "waiting"}
    \/ /\ wpc[w] \in {"queued", "waiting", "opening", "held"}
       /\ wpc'[w] \in {"opening", "held", "failed", "releasing"}

\* Nothing of a watch comes to the watcher process or back from it.
Quieter(w) ==
    /\ Sent("watch", w)' => Sent("watch", w)
    /\ Sent("unwatch", w)' => Sent("unwatch", w)
    /\ w \in starting' => w \in starting
    /\ w \in nodeWatches' => w \in nodeWatches
    /\ Replied("watch", w)' => Replied("watch", w)
    /\ Replied("unwatch", w)' => Replied("unwatch", w)
    /\ Replied("rejected", w)' => Replied("rejected", w)
    /\ Replied("watch", w)' => w \in nodeWatches' \/ w \in lost'
    /\ w \in renumbered => w \in renumbered'

LEMMA StillQuiet ==
    ASSUME NEW w \in Watches, AskInv(w),
           UNCHANGED <<answers, nodeWatches, starting, lost>>,
           renumbered \subseteq renumbered',
           Sent("watch", w)' => Sent("watch", w),
           Sent("unwatch", w)' => Sent("unwatch", w)
    PROVE  Quieter(w)
BY DEF Quieter, AskInv, InOrder, Replied

\* Nothing new reaches the watcher process, nothing is handed over.
LEMMA QuietWire ==
    ASSUME NodeInv, \A w \in Watches : AskInv(w), GoneInv, tracked' \subseteq Watches,
           \A w \in Watches : Quieter(w),
           UNCHANGED <<node, restoring, missed>>,
           fpc' = fpc \/ (~Handing /\ ~Handing'),
           \A w \in Watches : Stays(w),
           \A w \in tracked' : w \in tracked \/ (~Handing /\ wpc'[w] = "opening")
    PROVE  NodeInv' /\ (\A w \in Watches : AskInv(w)') /\ GoneInv'
<1>1. \A w \in Watches : AtNode(w)' => AtNode(w)
  BY DEF AtNode, Quieter
<1>2. Handing' <=> Handing
  BY DEF Handing
<1>3. NodeInv'
  <2>1. fpc' \notin {"restoring", "partial"} => restoring' = {}
    BY DEF NodeInv, Handing
  <2>2. \A w \in Watches : ~Handing' =>
            ~AtNode(w)' /\ ~node'[w] /\ ~Replied("watch", w)' /\ ~Replied("rejected", w)'
    BY <1>1, <1>2 DEF NodeInv, NodeOf, Quieter
  <2>3. \A w \in Watches : w \in tracked' /\ Handing' /\ w \notin restoring' =>
            node'[w] \/ ~AtNode(w)'
    BY <1>1, <1>2 DEF NodeInv, NodeOf
  <2> QED BY <2>1, <2>2, <2>3 DEF NodeInv, NodeOf
<1>4. ASSUME NEW w \in Watches PROVE AskInv(w)'
  <2>1. AskInv(w) /\ Stays(w) /\ Quieter(w)
    OBVIOUS
  <2>2. (wpc'[w] = "asking" <=> wpc[w] = "asking") \/ wpc[w] \in {"idle", "queued"}
    BY <2>1 DEF Stays
  <2>3. Asked(w)' <=> Asked(w)
    BY <2>1 DEF Stays, Asked
  <2>4. (\/ Sent("watch", w)' \/ w \in starting'
         \/ Replied("watch", w)' \/ Replied("rejected", w)') => Asked(w)'
    BY <2>1, <2>3 DEF AskInv, Quieter
  <2>5. wpc'[w] \in {"idle", "queued", "waiting", "asking"} =>
            wpc[w] \in {"idle", "queued", "waiting", "asking"}
    BY <2>1 DEF Stays
  <2>6. wpc'[w] \in {"idle", "queued", "waiting"} => wpc[w] \in {"idle", "queued", "waiting"}
    BY <2>1 DEF Stays
  <2>7. Asked(w)' \/ wpc'[w] \in {"idle", "queued", "waiting"} => ~node'[w]
    BY <2>1, <2>3, <2>6 DEF AskInv
  <2>8. wpc'[w] \in {"idle", "queued", "waiting", "asking"} =>
            w \notin tracked' /\ w \notin restoring'
    BY <2>1, <2>5 DEF AskInv
  <2>9. wpc'[w] = "asking" => fpc' = "done"
    BY <2>1, <2>2 DEF AskInv, Handing, Stays
  <2>10. InOrder(w)'
    BY <1>1, <2>1 DEF AskInv, InOrder, Quieter
  <2>11. wpc'[w] = "removing" <=> wpc[w] = "removing"
    BY <2>1 DEF Stays
  <2>12. /\ Sent("unwatch", w)' \/ Replied("unwatch", w)' => wpc'[w] = "removing"
         /\ wpc'[w] = "removing" => node'[w]
         /\ Replied("unwatch", w)' =>
               (w \notin nodeWatches' \/ w \in renumbered') /\ ~Sent("unwatch", w)'
    BY <2>1, <2>11 DEF AskInv, Quieter
  <2>13. w \in nodeWatches' => Asked(w)' \/ node'[w]
    BY <2>1, <2>3 DEF AskInv, Quieter
  <2> QED BY <2>4, <2>7, <2>8, <2>9, <2>10, <2>12, <2>13 DEF AskInv
<1>5. GoneInv'
  <2> SUFFICES ASSUME NEW w \in Watches, wpc'[w] = "gone"
               PROVE  /\ w \notin tracked'
                      /\ w \notin missed' /\ w \notin renumbered' => ~AtNode(w)'
    BY DEF GoneInv, Absent
  <2>1. wpc[w] = "gone"
    BY DEF Stays
  <2>2. w \notin tracked'
    BY <2>1 DEF GoneInv, Absent
  <2>3. w \notin missed' /\ w \notin renumbered' => ~AtNode(w)'
    BY <1>1, <2>1 DEF GoneInv, Absent, Quieter
  <2> QED BY <2>2, <2>3
<1> QED BY <1>3, <1>4, <1>5

\* A watch that a step does not concern.
Same(w) ==
    /\ wpc'[w] = wpc[w] /\ node'[w] = node[w]
    /\ w \in tracked' <=> w \in tracked
    /\ w \in restoring' <=> w \in restoring
    /\ w \in nodeWatches' <=> w \in nodeWatches
    /\ w \in starting' <=> w \in starting
    /\ w \in missed' <=> w \in missed
    /\ w \in renumbered => w \in renumbered'
    /\ w \in lost => w \in lost'
    /\ Sent("watch", w)' <=> Sent("watch", w)
    /\ Sent("unwatch", w)' <=> Sent("unwatch", w)
    /\ Replied("watch", w)' <=> Replied("watch", w)
    /\ Replied("unwatch", w)' <=> Replied("unwatch", w)
    /\ Replied("rejected", w)' <=> Replied("rejected", w)

LEMMA SameServed ==
    ASSUME NEW w \in Watches, NodeOf(w), AskInv(w), Absent(w), Same(w),
           Handing' <=> Handing, fpc' = fpc \/ wpc[w] # "asking"
    PROVE  NodeOf(w)' /\ AskInv(w)' /\ Absent(w)'
<1>1. AtNode(w)' <=> AtNode(w)
  BY DEF Same, AtNode
<1>2. Asked(w)' <=> Asked(w)
  BY DEF Same, Asked
<1>3. NodeOf(w)'
  BY <1>1 DEF Same, NodeOf
<1>4. InOrder(w)'
  BY <1>1 DEF Same, AskInv, InOrder
<1>5. AskInv(w)'
  BY <1>2, <1>4 DEF Same, AskInv
<1>6. Absent(w)'
  BY <1>1 DEF Same, Absent
<1> QED BY <1>3, <1>5, <1>6

\* A step that concerns one watch.
LEMMA ServedBut ==
    ASSUME WireInv, NEW w \in Watches, WireTypes', SentOnce',
           NodeOf(w)', AskInv(w)', Absent(w)',
           \A v \in Watches : v # w => Same(v),
           Handing' <=> Handing,
           \A v \in Watches : v # w => fpc' = fpc \/ wpc[v] # "asking",
           fpc' \notin {"restoring", "partial"} => restoring' = {}
    PROVE  WireInv'
<1>1. ASSUME NEW v \in Watches PROVE NodeOf(v)' /\ AskInv(v)' /\ Absent(v)'
  <2>1. CASE v = w
    BY <2>1
  <2>2. CASE v # w
    <3>1. NodeOf(v) /\ AskInv(v) /\ Absent(v)
      BY DEF WireInv, NodeInv, GoneInv
    <3> QED BY <2>2, <3>1, SameServed
  <2> QED BY <2>1, <2>2
<1>2. NodeInv'
  BY <1>1 DEF NodeInv
<1>3. GoneInv' /\ \A v \in Watches : AskInv(v)'
  BY <1>1 DEF GoneInv
<1> QED BY <1>2, <1>3 DEF WireInv


\* What a watch is told with is left alone by the Agent's side, the calls on
\* their way to whenReady and the fallback up to its connection.
Away ==
    \/ \E w \in Watches : CallWatch(w) \/ CallUnwatch(w)
    \/ CallExcludes \/ ResumeWatch \/ AgentAnswers
    \/ \E s \in subs : StreamFails(s)
    \/ ServerCreated \/ Forked \/ ListenFails \/ Connects

WireVars == <<toNode, answers, nodeWatches, starting, retried, renumbered, lost, restoring,
              node, missed>>

LEMMA AwayKeeps == Away => UNCHANGED WireVars
BY DEF Away, CallWatch, CallUnwatch, CallExcludes, ResumeWatch, AgentAnswers, Subscribe,
       Opened, AgentUnavailable, StreamFails, ServerCreated, Forked, ListenFails, Connects,
       WireVars, wire, host, recorded, rest, fallback

LEMMA OpenMoves ==
    ASSUME IInv, NEW o \in opens,
           \/ OpenRejected(o)
           \/ wpc' = IF o.by = "watch" THEN [wpc EXCEPT ![o.stream.watch] = "held"]
                                      ELSE wpc
    PROVE  \A w \in Watches : Stays(w)
<1>1. wpc \in [Watches -> Steps] /\ (o.by = "watch" => wpc[o.stream.watch] = "opening")
  BY DEF IInv, CallInv, QueueInv, OpenInv
<1> QED BY <1>1 DEF OpenRejected, Stays

LEMMA AwayMoves ==
    ASSUME IInv, Away
    PROVE  /\ \A w \in Watches : Stays(w)
           /\ tracked' \subseteq Watches
           /\ \A w \in tracked' : w \in tracked \/ (~Handing /\ wpc'[w] = "opening")
           /\ fpc' = fpc \/ (~Handing /\ ~Handing')
           /\ refused' \subseteq refused \cup Watches
<1>0. /\ wpc \in [Watches -> Steps] /\ tracked \subseteq Watches
      /\ \A o \in opens : o.stream.watch \in Watches
  BY DEF IInv, CallInv, QueueInv, StreamInv, AgentTypes, Openings, Streams
<1>1. ASSUME NEW w \in Watches, CallWatch(w) \/ CallUnwatch(w)
      PROVE  /\ \A v \in Watches : Stays(v)
             /\ UNCHANGED <<tracked, fpc, refused>>
  BY <1>0, <1>1 DEF CallWatch, CallUnwatch, Stays, agent, fallback, rest
<1>2. ASSUME CallExcludes
      PROVE  /\ \A v \in Watches : Stays(v)
             /\ UNCHANGED <<tracked, fpc, refused>>
  BY <1>2 DEF CallExcludes, Stays, agent, fallback
<1>3. ASSUME ResumeWatch
      PROVE  /\ \A w \in Watches : Stays(w)
             /\ tracked' \subseteq Watches
             /\ \A w \in tracked' : w \in tracked \/ (~Handing /\ wpc'[w] = "opening")
             /\ UNCHANGED <<fpc, refused>>
  <2>1. 1 \in DOMAIN calls /\ calls[1] \in Calls /\ calls[1].op = "watch" /\ Argument = calls[1].arg
    BY <1>3 DEF ResumeWatch, Resumes, Argument, IInv, CallInv, QueueInv
  <2>2. Argument \in Watches /\ wpc[Argument] = "queued"
    BY <2>1 DEF Calls, IInv, CallInv, QueueInv
  <2>3. UNCHANGED <<fpc, refused>>
    BY <1>3 DEF ResumeWatch, fallback, rest
  <2>4. CASE runtime = "agent"
    <3>1. tracked' = tracked \cup {Argument} /\ wpc' = [wpc EXCEPT ![Argument] = "opening"]
      BY <1>3, <2>4 DEF ResumeWatch
    <3>2. ~Handing
      BY <2>4 DEF IInv, ModeInv, Handing
    <3> QED BY <1>0, <2>2, <2>3, <3>1, <3>2 DEF Stays
  <2>5. CASE runtime # "agent"
    <3>1. tracked' = tracked /\ wpc' = [wpc EXCEPT ![Argument] = "waiting"]
      BY <1>3, <2>5 DEF ResumeWatch
    <3> QED BY <1>0, <2>2, <2>3, <3>1 DEF Stays
  <2> QED BY <2>4, <2>5
<1>4. ASSUME NEW o \in opens, Subscribe(o)
      PROVE  /\ \A v \in Watches : Stays(v)
             /\ UNCHANGED <<tracked, fpc, refused>>
  BY <1>4 DEF Subscribe, Stays, waiting, fallback, rest
<1>5. ASSUME NEW o \in opens, Opened(o)
      PROVE  /\ \A v \in Watches : Stays(v)
             /\ UNCHANGED <<tracked, fpc, refused>>
  BY <1>5, OpenMoves DEF Opened, fallback, rest
<1>6. ASSUME NEW o \in opens, AgentUnavailable(o)
      PROVE  /\ \A v \in Watches : Stays(v)
             /\ UNCHANGED <<tracked, fpc>> /\ refused' \subseteq refused \cup Watches
  BY <1>0, <1>6, OpenMoves DEF AgentUnavailable, fallback
<1>7. ASSUME NEW s \in subs, StreamFails(s)
      PROVE  /\ \A v \in Watches : Stays(v)
             /\ UNCHANGED <<tracked, refused>>
             /\ fpc' = fpc \/ (~Handing /\ ~Handing')
  <2>1. UNCHANGED <<tracked, refused>>
    BY <1>7 DEF StreamFails, rest
  <2>2. \A v \in Watches : Stays(v)
    BY <1>7, OpenMoves DEF StreamFails, Stays
  <2>3. fpc' = fpc \/ (~Handing /\ ~Handing')
    <3>1. CASE Stale(s)
      BY <1>7, <3>1 DEF StreamFails
    <3>2. CASE ~Stale(s)
      BY <1>7, <3>2 DEF StreamFails, FallBack, Stale, Handing, IInv, ModeInv
    <3> QED BY <3>1, <3>2
  <2> QED BY <2>1, <2>2, <2>3
<1>8. ASSUME ServerCreated \/ Forked \/ ListenFails \/ Connects
      PROVE  /\ \A v \in Watches : Stays(v)
             /\ UNCHANGED <<tracked, refused>>
             /\ fpc' = fpc \/ (~Handing /\ ~Handing')
  <2>1. UNCHANGED <<tracked, refused, wpc>>
    BY <1>8 DEF ServerCreated, Forked, ListenFails, Connects, agent, rest, waiting
  <2>2. fpc' = fpc \/ (~Handing /\ ~Handing')
    BY <1>8 DEF ServerCreated, Forked, ListenFails, Connects, fallback, Handing
  <2> QED BY <2>1, <2>2 DEF Stays
<1> QED BY <1>0, <1>1, <1>2, <1>3, <1>4, <1>5, <1>6, <1>7, <1>8 DEF Away, AgentAnswers

LEMMA AwayWire == ASSUME IInv, WireInv, Away PROVE WireInv'
<1>1. UNCHANGED WireVars
  BY AwayKeeps
<1>2. WireTypes' /\ SentOnce'
  BY <1>1, AwayMoves, SentSame DEF WireInv, WireTypes, WireVars
<1>3. \A w \in Watches : Quieter(w)
  BY <1>1, StillQuiet, SentSame DEF WireVars, WireInv
<1>4. NodeInv' /\ (\A w \in Watches : AskInv(w)') /\ GoneInv'
  BY <1>1, <1>3, QuietWire, AwayMoves DEF WireVars, WireInv
<1> QED BY <1>2, <1>4 DEF WireInv


LEMMA Differ ==
    /\ \A op, o, x, y : Call(op, x) = Call(o, y) <=> op = o /\ x = y
    /\ \A op, x : Call(op, x).op = op /\ Call(op, x).arg = x
BY DEF Call

\* A $watch for a watch() that came after the fallback.
LEMMA AwaitedWire ==
    ASSUME IInv, WireInv, NEW w \in Watches, FallbackAwaited(w) PROVE WireInv'
<1>1. /\ wpc \in [Watches -> Steps] /\ wpc[w] = "waiting" /\ tracked \subseteq Watches
      /\ UNCHANGED <<tracked, fpc, restoring, node, missed, refused, answers>>
      /\ UNCHANGED <<nodeWatches, starting, retried, renumbered, lost>>
  BY DEF FallbackAwaited, IInv, CallInv, QueueInv, StreamInv, AgentTypes, agent, fallback,
         host, recorded, rest
<1>2. CASE fpc = "done" /\ connected
  <2> DEFINE m == Call("watch", {w})
  <2>1. /\ toNode' = toNode \o <<m>> /\ wpc' = [wpc EXCEPT ![w] = "asking"]
    BY <1>2 DEF FallbackAwaited, SendToNode
  <2>2. m \in Messages /\ m.op = "watch" /\ m.arg = {w}
    BY DEF Call, Messages
  <2> HIDE DEF m
  <2>3. AskInv(w) /\ NodeOf(w) /\ restoring = {}
    BY <1>2 DEF WireInv, NodeInv
  <2>4. /\ ~Asked(w) /\ ~Sent("watch", w) /\ ~Sent("unwatch", w) /\ ~node[w]
        /\ ~Replied("watch", w) /\ ~Replied("unwatch", w) /\ ~Replied("rejected", w)
        /\ w \notin tracked /\ w \notin starting /\ w \notin nodeWatches
    BY <1>1, <2>3 DEF AskInv, Asked
  <2>5. /\ toNode' \in Seq(Messages)
        /\ \A op, v : Sent(op, v)' <=> Sent(op, v) \/ (op = "watch" /\ v = w)
    BY <2>1, <2>2, SentAppend DEF WireInv, WireTypes
  <2>6. SentOnce'
    BY <2>1, <2>2, <2>4, SentAppend DEF WireInv, WireTypes
  <2>7. WireTypes'
    BY <1>1, <2>5 DEF WireInv, WireTypes
  <2>8. Handing /\ (Handing' <=> Handing)
    BY <1>1, <1>2 DEF Handing
  <2>9. NodeOf(w)'
    BY <1>1, <2>4, <2>8 DEF NodeOf
  <2>10. wpc'[w] = "asking" /\ Asked(w)' /\ ~Sent("unwatch", w)'
    BY <1>1, <2>1, <2>4, <2>5 DEF Asked
  <2>11. InOrder(w)'
    BY <1>1, <2>4 DEF InOrder, Replied
  <2>12. AskInv(w)'
    BY <1>1, <1>2, <2>3, <2>4, <2>10, <2>11 DEF AskInv, Replied
  <2>13. Absent(w)'
    BY <2>10 DEF Absent
  <2>14. \A v \in Watches : v # w => Same(v)
    BY <1>1, <2>1, <2>5 DEF Same, Replied
  <2>15. fpc' \notin {"restoring", "partial"} => restoring' = {}
    BY <1>1, <2>3
  <2> QED BY <1>1, <2>6, <2>7, <2>8, <2>9, <2>12, <2>13, <2>14, <2>15, ServedBut
<1>3. CASE ~(fpc = "done" /\ connected)
  <2>1. /\ toNode' = toNode /\ wpc' = [wpc EXCEPT ![w] = "failed"]
    BY <1>3 DEF FallbackAwaited
  <2>2. \A v \in Watches : Stays(v)
    BY <1>1, <2>1 DEF Stays
  <2>3. WireTypes' /\ SentOnce'
    BY <1>1, <2>1, SentSame DEF WireInv, WireTypes
  <2>4. \A v \in Watches : Quieter(v)
    BY <1>1, <2>1, SentSame, StillQuiet DEF WireInv
  <2>5. NodeInv' /\ (\A v \in Watches : AskInv(v)') /\ GoneInv'
    BY <1>1, <2>2, <2>4, QuietWire DEF WireInv
  <2> QED BY <2>3, <2>5 DEF WireInv
<1> QED BY <1>2, <1>3

\* Messages about the exclusions.
LEMMA ExcludesWire ==
    ASSUME IInv, WireInv, NEW m \in Messages, m.op \notin {"watch", "unwatch"},
           UNCHANGED <<wpc, tracked, restoring, node, missed, refused, answers>>,
           UNCHANGED <<nodeWatches, starting, retried, renumbered, lost>>,
           fpc' = fpc \/ (~Handing /\ ~Handing'),
           toNode' = toNode \/ toNode' = toNode \o <<m>>
    PROVE  WireInv'
<1>1. toNode' \in Seq(Messages) /\ SentOnce'
  <2>1. CASE toNode' = toNode
    BY <2>1, SentSame DEF WireInv, WireTypes
  <2>2. CASE toNode' = toNode \o <<m>>
    BY <2>2, SentAppend DEF WireInv, WireTypes
  <2> QED BY <2>1, <2>2
<1>2. ASSUME NEW w PROVE /\ Sent("watch", w)' => Sent("watch", w)
                         /\ Sent("unwatch", w)' => Sent("unwatch", w)
  <2>1. CASE toNode' = toNode
    BY <2>1, SentSame
  <2>2. CASE toNode' = toNode \o <<m>>
    BY <2>2, SentAppend DEF WireInv, WireTypes
  <2> QED BY <2>1, <2>2
<1>3. WireTypes'
  BY <1>1 DEF WireInv, WireTypes
<1>4. \A w \in Watches : Stays(w)
  BY DEF Stays
<1>5. \A w \in Watches : Quieter(w)
  BY <1>2, StillQuiet DEF WireInv
<1>6. tracked' \subseteq Watches
  BY DEF IInv, StreamInv, AgentTypes
<1>7. NodeInv' /\ (\A v \in Watches : AskInv(v)') /\ GoneInv'
  BY <1>4, <1>5, <1>6, QuietWire DEF WireInv
<1> QED BY <1>1, <1>3, <1>7 DEF WireInv

LEMMA ResumeExcludesWire ==
    ASSUME IInv, WireInv, ExcludesTypes, ResumeExcludes PROVE WireInv'
<1> DEFINE m == Call("excludes", Argument)
<1>1. /\ UNCHANGED <<wpc, tracked, fpc, restoring, node, missed, refused, answers>>
      /\ UNCHANGED <<nodeWatches, starting, retried, renumbered, lost>>
      /\ toNode' = toNode \/ toNode' = toNode \o <<m>>
  BY DEF ResumeExcludes, fallback, host, recorded, rest, SendToNode
<1>2. 1 \in DOMAIN calls /\ calls[1].op = "excludes" /\ Argument = calls[1].arg
  BY DEF ResumeExcludes, Resumes, Argument, IInv, CallInv, QueueInv
<1>3. Argument \in 0..MaxExcludes
  BY <1>2 DEF ExcludesTypes
<1>4. m \in Messages /\ m.op = "excludes"
  BY <1>3 DEF Messages, Call
<1> HIDE DEF m
<1> QED BY <1>1, <1>4, ExcludesWire

LEMMA ResumeFallbackWire ==
    ASSUME IInv, WireInv, ExcludesTypes, AskedInv, ResumeFallback PROVE WireInv'
<1> DEFINE m == Call("initial", agentExcludes)
<1>1. /\ UNCHANGED <<wpc, tracked, restoring, node, missed, refused, answers>>
      /\ UNCHANGED <<nodeWatches, starting, retried, renumbered, lost>>
      /\ toNode' = toNode \/ toNode' = toNode \o <<m>>
      /\ fpc' \in {"excluding", "failed"}
  BY DEF ResumeFallback, agent, host, recorded, rest, SendToNode
<1>2. m \in Messages /\ m.op = "initial"
  BY DEF Messages, Call, ExcludesTypes
<1> HIDE DEF m
<1>3. ~Handing /\ ~Handing'
  <2>1. 1 \in DOMAIN calls /\ calls[1].op = "fallback"
    BY DEF ResumeFallback, Resumes, IInv, CallInv, QueueInv
  <2>2. fpc = "connecting"
    BY <2>1 DEF AskedInv, NoneAsked
  <2> QED BY <1>1, <2>2 DEF Handing
<1> QED BY <1>1, <1>2, <1>3, ExcludesWire


\* An unWatch() runs: wherever its watch is, or was on its way to.
LEMMA ResumeUnwatchWire ==
    ASSUME IInv, WireInv, UnwatchInv, ResumeUnwatch, NEW w, w = Argument PROVE WireInv'
<1>1. /\ w \in Watches /\ wpc[w] = "releasing" /\ wpc \in [Watches -> Steps]
      /\ tracked \subseteq Watches /\ (w \notin tracked => ~AtNode(w))
  <2>1. /\ 1 \in DOMAIN calls /\ calls[1].op = "unwatch" /\ Argument = calls[1].arg
        /\ calls[1] \in Calls
    BY DEF ResumeUnwatch, Resumes, Argument, IInv, CallInv, QueueInv
  <2>2. w \in Watches /\ wpc[w] = "releasing"
    BY <2>1 DEF Calls, IInv, CallInv, QueueInv
  <2>3. w \notin tracked => ~AtNode(w)
    BY <2>1 DEF UnwatchInv
  <2> QED BY <2>2, <2>3 DEF IInv, CallInv, QueueInv, StreamInv, AgentTypes
<1>2. /\ UNCHANGED <<fpc, restoring, node, refused, answers>>
      /\ UNCHANGED <<nodeWatches, starting, retried, renumbered, lost>>
      /\ missed' = missed \cup ({w} \cap restoring)
  BY DEF ResumeUnwatch, fallback, host, recorded
<1>3. /\ NodeOf(w) /\ AskInv(w) /\ restoring \subseteq Watches
      /\ fpc \notin {"restoring", "partial"} => restoring = {}
  BY <1>1 DEF WireInv, NodeInv, WireTypes
<1>4. \/ /\ w \notin tracked /\ wpc' = [wpc EXCEPT ![w] = "gone"]
         /\ UNCHANGED <<tracked, toNode>>
      \/ /\ w \in tracked /\ node[w] /\ wpc' = [wpc EXCEPT ![w] = "removing"]
         /\ toNode' = toNode \o <<Call("unwatch", {w})>> /\ tracked' = tracked
      \/ /\ w \in tracked /\ node[w] /\ wpc' = [wpc EXCEPT ![w] = "failed"]
         /\ UNCHANGED <<tracked, toNode>>
      \/ /\ w \in tracked /\ ~node[w] /\ wpc' = [wpc EXCEPT ![w] = "gone"]
         /\ tracked' = tracked \ {w} /\ toNode' = toNode
  BY DEF ResumeUnwatch, SendToNode
<1>5. Handing' <=> Handing
  BY <1>2 DEF Handing
<1>6. ASSUME \A v \in Watches : v # w => \A op : Sent(op, v)' <=> Sent(op, v)
      PROVE  \A v \in Watches : v # w => Same(v)
  <2>1. \A v \in Watches : v # w => wpc'[v] = wpc[v] /\ (v \in tracked' <=> v \in tracked)
    BY <1>1, <1>4
  <2> QED BY <1>2, <1>6, <2>1 DEF Same, Replied
<1>7. ASSUME toNode' = toNode, wpc'[w] \in {"gone", "failed"}, tracked' \subseteq tracked,
             wpc'[w] = "gone" => w \notin tracked' /\ (w \notin missed' => ~AtNode(w))
      PROVE  WireInv'
  <2>1. \A op, v : Sent(op, v)' <=> Sent(op, v)
    BY <1>7, SentSame
  <2>2. AtNode(w)' <=> AtNode(w)
    BY <1>2, <2>1 DEF AtNode
  <2>3. NodeOf(w)'
    BY <1>2, <1>3, <1>5, <1>7, <2>2 DEF NodeOf, Replied
  <2>4. InOrder(w)'
    BY <1>2, <1>3, <2>1, <2>2 DEF AskInv, InOrder, Replied
  <2>5. Asked(w)' <=> Asked(w)
    BY <1>1, <1>2, <1>7 DEF Asked
  <2>6. ~Sent("unwatch", w)' /\ ~Replied("unwatch", w)'
    BY <1>1, <1>2, <1>3, <2>1 DEF AskInv, Replied
  <2>7. AskInv(w)'
    BY <1>2, <1>3, <1>7, <2>1, <2>4, <2>5, <2>6 DEF AskInv, Replied
  <2>8. Absent(w)'
    BY <1>7, <2>2 DEF Absent
  <2>9. WireTypes' /\ SentOnce'
    BY <1>1, <1>2, <1>7, SentSame DEF WireInv, WireTypes
  <2>10. \A v \in Watches : v # w => Same(v)
    BY <1>6, <2>1
  <2> QED BY <1>1, <1>2, <1>3, <1>5, <2>3, <2>7, <2>8, <2>9, <2>10, ServedBut
<1>8. CASE w \notin tracked /\ wpc' = [wpc EXCEPT ![w] = "gone"]
           /\ UNCHANGED <<tracked, toNode>>
  BY <1>1, <1>7, <1>8
<1>9. CASE w \in tracked /\ node[w] /\ wpc' = [wpc EXCEPT ![w] = "failed"]
           /\ UNCHANGED <<tracked, toNode>>
  BY <1>1, <1>7, <1>9
<1>10. CASE /\ w \in tracked /\ ~node[w] /\ wpc' = [wpc EXCEPT ![w] = "gone"]
            /\ tracked' = tracked \ {w} /\ toNode' = toNode
  <2>1. w \notin missed' => ~AtNode(w)
    BY <1>2, <1>3, <1>10 DEF NodeOf
  <2> QED BY <1>1, <1>7, <1>10, <2>1
<1>11. CASE /\ w \in tracked /\ node[w] /\ wpc' = [wpc EXCEPT ![w] = "removing"]
            /\ toNode' = toNode \o <<Call("unwatch", {w})>> /\ tracked' = tracked
  <2> DEFINE m == Call("unwatch", {w})
  <2>1. m \in Messages /\ m.op = "unwatch" /\ m.arg = {w} /\ toNode' = toNode \o <<m>>
    BY <1>1, <1>11 DEF Call, Messages
  <2> HIDE DEF m
  <2>2. /\ ~Asked(w) /\ ~Sent("watch", w) /\ w \notin starting
        /\ ~Replied("watch", w) /\ ~Replied("rejected", w)
        /\ ~Sent("unwatch", w) /\ ~Replied("unwatch", w)
    BY <1>1, <1>3, <1>11 DEF AskInv
  <2>3. /\ toNode' \in Seq(Messages)
        /\ \A op, v : Sent(op, v)' <=> Sent(op, v) \/ (op = "unwatch" /\ v = w)
    BY <2>1, SentAppend DEF WireInv, WireTypes
  <2>4. SentOnce'
    BY <2>1, <2>2, SentAppend DEF WireInv, WireTypes
  <2>5. wpc'[w] = "removing" /\ ~Asked(w)'
    BY <1>1, <1>2, <1>11, <2>2 DEF Asked
  <2>6. NodeOf(w)'
    BY <1>2, <1>3, <1>5, <1>11, <2>3 DEF NodeOf, AtNode, Replied
  <2>7. InOrder(w)'
    BY <1>2, <2>2, <2>3 DEF InOrder, Replied
  <2>8. AskInv(w)'
    BY <1>2, <1>11, <2>2, <2>3, <2>5, <2>7 DEF AskInv, Replied
  <2>9. Absent(w)'
    BY <2>5 DEF Absent
  <2>10. WireTypes'
    BY <1>1, <1>2, <2>3 DEF WireInv, WireTypes
  <2>11. \A v \in Watches : v # w => Same(v)
    BY <1>6, <2>3
  <2> QED BY <1>1, <1>2, <1>3, <1>5, <2>4, <2>6, <2>8, <2>9, <2>10, <2>11, ServedBut
<1> QED BY <1>4, <1>8, <1>9, <1>10, <1>11

\* The watches in the map are handed over.
LEMMA ExcludesAnsweredWire ==
    ASSUME IInv, WireInv, ExcludesAnswered PROVE WireInv'
<1>1. /\ fpc = "excluding" /\ UNCHANGED <<wpc, tracked, node, refused, missed>>
      /\ UNCHANGED <<nodeWatches, starting, retried, renumbered, lost>>
      /\ answers' = answers \ {Call("initial", 0)} /\ restoring' = tracked
      /\ \/ tracked = {} /\ fpc' = "done" /\ toNode' = toNode
         \/ fpc' = "restoring" /\ toNode' = toNode \o <<Call("watch", tracked)>>
      /\ tracked \subseteq Watches
  BY DEF ExcludesAnswered, NoneLost, SendToNode, waiting, agent, host, recorded, rest, IInv,
         StreamInv, AgentTypes
<1>2. ASSUME NEW w \in Watches
      PROVE  /\ ~AtNode(w) /\ ~Sent("watch", w) /\ ~node[w] /\ w \notin nodeWatches
             /\ w \notin starting /\ ~Sent("unwatch", w)
             /\ ~Replied("watch", w) /\ ~Replied("unwatch", w) /\ ~Replied("rejected", w)
             /\ AskInv(w) /\ Absent(w)
  <2>1. NodeOf(w) /\ AskInv(w) /\ Absent(w) /\ ~Handing
    BY <1>1 DEF WireInv, NodeInv, GoneInv, Handing
  <2>2. ~AtNode(w) /\ ~node[w] /\ ~Replied("watch", w) /\ ~Replied("rejected", w)
    BY <2>1 DEF NodeOf
  <2> QED BY <2>1, <2>2 DEF AskInv, AtNode
<1>3. /\ toNode' \in Seq(Messages) /\ SentOnce'
      /\ \A v \in Watches : /\ Sent("watch", v)' => v \in tracked
                            /\ ~Sent("unwatch", v)'
  <2>1. CASE toNode' = toNode
    BY <1>2, <2>1, SentSame DEF WireInv, WireTypes
  <2>2. CASE toNode' = toNode \o <<Call("watch", tracked)>>
    <3> DEFINE m == Call("watch", tracked)
    <3>1. m \in Messages /\ m.op = "watch" /\ m.arg = tracked /\ toNode' = toNode \o <<m>>
      BY <1>1, <2>2 DEF Call, Messages
    <3> HIDE DEF m
    <3>2. /\ toNode' \in Seq(Messages)
          /\ \A op, v : Sent(op, v)' => Sent(op, v) \/ (op = "watch" /\ v \in tracked)
      BY <3>1, SentAppend DEF WireInv, WireTypes
    <3>3. SentOnce'
      BY <1>1, <1>2, <3>1, SentAppend DEF WireInv, WireTypes
    <3> QED BY <1>2, <3>2, <3>3
  <2> QED BY <1>1, <2>1, <2>2
<1>4. WireTypes'
  BY <1>1, <1>3 DEF WireInv, WireTypes
<1>5. \A op, w : Replied(op, w)' => Replied(op, w)
  BY <1>1 DEF Replied
<1>6. ASSUME NEW w \in Watches PROVE NodeOf(w)' /\ AskInv(w)' /\ Absent(w)'
  <2>1. NodeOf(w)'
    BY <1>1, <1>2, <1>3, <1>5 DEF NodeOf, Handing, AtNode
  <2>2. wpc[w] # "asking" /\ wpc[w] # "removing"
    BY <1>1, <1>2 DEF AskInv
  <2>3. InOrder(w)'
    BY <1>1, <1>2, <1>5 DEF InOrder
  <2>4. Sent("watch", w)' \/ w \in starting' \/ Replied("watch", w)' \/ Replied("rejected", w)'
        => Asked(w)'
    BY <1>1, <1>2, <1>3, <1>5 DEF Asked
  <2>5. AskInv(w)'
    BY <1>1, <1>2, <1>3, <1>5, <2>2, <2>3, <2>4 DEF AskInv
  <2>6. Absent(w)'
    BY <1>1, <1>2, <1>3 DEF Absent, AtNode
  <2> QED BY <2>1, <2>5, <2>6
<1>7. NodeInv'
  BY <1>1, <1>6 DEF NodeInv
<1> QED BY <1>3, <1>4, <1>6, <1>7 DEF WireInv, GoneInv

LEMMA RestoredWire ==
    ASSUME IInv, WireInv, NEW w \in Watches, Restored(w) PROVE WireInv'
<1>1. /\ w \in restoring /\ Replied("watch", w)
      /\ UNCHANGED <<wpc, tracked, toNode, refused, missed>>
      /\ UNCHANGED <<nodeWatches, starting, retried, renumbered, lost>>
      /\ answers' = answers \ {Call("watch", w)} /\ restoring' = restoring \ {w}
      /\ node' = [node EXCEPT ![w] = TRUE]
      /\ fpc' = IF restoring = {w} /\ fpc = "restoring" THEN "done" ELSE fpc
  BY DEF Restored, Replied, waiting, agent, host, recorded, rest
<1>2. /\ fpc \in {"restoring", "partial"} /\ AskInv(w) /\ Absent(w)
      /\ node \in [Watches -> BOOLEAN] /\ \A v \in Watches : AskInv(v)
  BY <1>1 DEF WireInv, NodeInv, WireTypes, GoneInv
<1>3. Handing /\ Handing'
  BY <1>1, <1>2 DEF Handing
<1>4. /\ \A op, v : Sent(op, v)' <=> Sent(op, v)
      /\ \A op, v : Replied(op, v)' <=> Replied(op, v) /\ ~(op = "watch" /\ v = w)
  BY <1>1, SentSame, Differ DEF Replied
<1>5. WireTypes' /\ SentOnce'
  BY <1>1, <1>2, SentSame DEF WireInv, WireTypes
<1>6. /\ wpc[w] \notin {"idle", "queued", "waiting", "asking"} /\ ~Asked(w)'
      /\ node'[w] = TRUE
  BY <1>1, <1>2 DEF AskInv, Asked
<1>7. /\ ~Sent("watch", w) /\ w \notin starting /\ ~Replied("rejected", w)
      /\ ~Replied("watch", w)'
  BY <1>1, <1>2, <1>4 DEF AskInv, InOrder
<1>8. NodeOf(w)'
  BY <1>3, <1>6 DEF NodeOf
<1>9. InOrder(w)'
  BY <1>1, <1>2, <1>4, <1>7 DEF AskInv, InOrder
<1>10. AskInv(w)'
  BY <1>1, <1>2, <1>4, <1>6, <1>7, <1>9 DEF AskInv
<1>11. Absent(w)'
  BY <1>1, <1>2, <1>4 DEF Absent, AtNode
<1>12. \A v \in Watches : v # w => Same(v)
  BY <1>1, <1>2, <1>4 DEF Same
<1>13. \A v \in Watches : wpc[v] # "asking"
  BY <1>2 DEF AskInv
<1> QED BY <1>1, <1>2, <1>3, <1>5, <1>8, <1>10, <1>11, <1>12, <1>13, ServedBut

\* A watch of the fallback was rejected: the process has none.
LEMMA RestoreRejectedWire ==
    ASSUME IInv, WireInv, NEW w \in Watches, RestoreRejected(w) PROVE WireInv'
<1>1. /\ w \in restoring /\ Replied("rejected", w)
      /\ UNCHANGED <<wpc, tracked, toNode, node, refused, missed>>
      /\ UNCHANGED <<nodeWatches, starting, retried, renumbered, lost>>
      /\ answers' = answers \ {Call("rejected", w)} /\ restoring' = restoring \ {w}
      /\ fpc' = "partial"
  BY DEF RestoreRejected, Replied, waiting, agent, host, recorded, rest
<1>2. /\ fpc \in {"restoring", "partial"} /\ AskInv(w) /\ Absent(w)
      /\ \A v \in Watches : AskInv(v)
  BY <1>1 DEF WireInv, NodeInv, GoneInv
<1>3. Handing /\ Handing'
  BY <1>1, <1>2 DEF Handing
<1>4. /\ \A op, v : Sent(op, v)' <=> Sent(op, v)
      /\ \A op, v : Replied(op, v)' <=> Replied(op, v) /\ ~(op = "rejected" /\ v = w)
  BY <1>1, SentSame, Differ DEF Replied
<1>5. WireTypes' /\ SentOnce'
  BY <1>1, SentSame DEF WireInv, WireTypes
<1>6. wpc[w] \notin {"idle", "queued", "waiting", "asking"} /\ ~Asked(w)'
  BY <1>1, <1>2 DEF AskInv, Asked
<1>7. ~AtNode(w) /\ ~AtNode(w)' /\ ~Replied("watch", w) /\ ~Replied("rejected", w)'
  BY <1>1, <1>2, <1>4 DEF AskInv, InOrder, AtNode
<1>8. NodeOf(w)'
  BY <1>3, <1>7 DEF NodeOf
<1>9. InOrder(w)'
  BY <1>4, <1>7 DEF InOrder, AtNode
<1>10. AskInv(w)'
  BY <1>1, <1>2, <1>4, <1>6, <1>7, <1>9 DEF AskInv, AtNode
<1>11. Absent(w)'
  BY <1>1, <1>2, <1>7 DEF Absent
<1>12. \A v \in Watches : v # w => Same(v)
  BY <1>1, <1>4 DEF Same
<1>13. \A v \in Watches : wpc[v] # "asking"
  BY <1>2 DEF AskInv
<1> QED BY <1>1, <1>3, <1>5, <1>8, <1>10, <1>11, <1>12, <1>13, ServedBut


\* The watcher process takes a message.
LEMMA HandlesWire ==
    ASSUME IInv, WireInv, NodeHandles, NEW m, m = Head(toNode) PROVE WireInv'
<1>1. /\ toNode # <<>> /\ toNode' = Tail(toNode)
      /\ UNCHANGED <<wpc, tracked, fpc, restoring, node, refused, missed, retried, lost>>
  BY DEF NodeHandles, fallback, waiting, agent, rest
<1>2. /\ toNode' \in Seq(Messages) /\ m \in Messages /\ SentOnce'
      /\ \A op, w : Sent(op, w)' => Sent(op, w)
      /\ \A op, w : Sent(op, w) => Sent(op, w)' \/ (m.op = op /\ w \in m.arg)
      /\ \A op, w : m.op = op /\ w \in m.arg => Sent(op, w)
      /\ \A op \in {"watch", "unwatch"} : \A w : m.op = op /\ w \in m.arg => ~Sent(op, w)'
  BY <1>1, SentTail DEF WireInv, WireTypes
<1>3. /\ \A w \in Watches : NodeOf(w) /\ AskInv(w) /\ Absent(w)
      /\ answers \subseteq Replies /\ nodeWatches \subseteq Watches
      /\ starting \subseteq Watches /\ retried \subseteq starting
      /\ renumbered \subseteq Watches
      /\ Handing' <=> Handing
  BY <1>1 DEF WireInv, NodeInv, GoneInv, WireTypes, Handing
<1>4. ASSUME NEW w \in Watches, w \notin m.arg \/ m.op \notin {"watch", "unwatch"},
             w \in nodeWatches' <=> w \in nodeWatches,
             w \in starting' <=> w \in starting,
             renumbered \subseteq renumbered',
             Replied("watch", w)' <=> Replied("watch", w),
             Replied("unwatch", w)' <=> Replied("unwatch", w),
             Replied("rejected", w)' <=> Replied("rejected", w)
      PROVE  NodeOf(w)' /\ AskInv(w)' /\ Absent(w)'
  <2>1. /\ Sent("watch", w)' <=> Sent("watch", w)
        /\ Sent("unwatch", w)' <=> Sent("unwatch", w)
    BY <1>2, <1>4
  <2>2. Same(w)
    BY <1>1, <1>4, <2>1 DEF Same
  <2> QED BY <1>1, <1>3, <2>2, SameServed
<1>5. ASSUME answers' \subseteq Replies, nodeWatches' \subseteq Watches,
             starting' \subseteq Watches, retried' \subseteq starting',
             renumbered' \subseteq Watches,
             \A w \in Watches : NodeOf(w)' /\ AskInv(w)' /\ Absent(w)'
      PROVE  WireInv'
  <2>1. WireTypes'
    BY <1>1, <1>2, <1>5 DEF WireInv, WireTypes
  <2>2. NodeInv'
    BY <1>1, <1>5 DEF WireInv, NodeInv
  <2> QED BY <1>2, <1>5, <2>1, <2>2 DEF WireInv, GoneInv
<1>6. CASE m.op = "watch"
  <2>1. /\ starting' = starting \cup m.arg
        /\ UNCHANGED <<answers, nodeWatches, renumbered>>
    BY <1>6 DEF NodeHandles
  <2>2. m.arg \subseteq Watches
    BY <1>2, <1>6 DEF Messages
  <2>3. \A op, w : Replied(op, w)' <=> Replied(op, w)
    BY <2>1 DEF Replied
  <2>4. ASSUME NEW w \in Watches, w \in m.arg PROVE NodeOf(w)' /\ AskInv(w)' /\ Absent(w)'
    <3>1. /\ Sent("watch", w) /\ ~Sent("watch", w)' /\ w \in starting'
          /\ AtNode(w) /\ AtNode(w)'
      BY <1>2, <1>6, <2>1, <2>4 DEF AtNode
    <3>2. Asked(w) /\ ~node[w] /\ (Asked(w)' <=> Asked(w)) /\ wpc[w] # "removing"
      BY <1>1, <1>3, <3>1 DEF AskInv, Asked
    <3>3. /\ w \notin nodeWatches' /\ ~Replied("watch", w)' /\ ~Replied("rejected", w)'
          /\ ~Sent("unwatch", w)' /\ ~Replied("unwatch", w)'
      BY <1>2, <1>3, <2>1, <2>3, <3>1, <3>2 DEF AskInv, InOrder
    <3>4. Handing
      BY <1>3, <3>1 DEF NodeOf
    <3>5. NodeOf(w)'
      BY <1>1, <1>3, <3>1, <3>4 DEF NodeOf
    <3>6. InOrder(w)'
      BY <3>1, <3>3 DEF InOrder
    <3>7. AskInv(w)'
      BY <1>1, <1>3, <3>2, <3>3, <3>6 DEF AskInv
    <3>8. Absent(w)'
      BY <1>1, <1>3, <2>1, <3>1 DEF Absent
    <3> QED BY <3>5, <3>7, <3>8
  <2>5. ASSUME NEW w \in Watches, w \notin m.arg PROVE NodeOf(w)' /\ AskInv(w)' /\ Absent(w)'
    BY <1>4, <2>1, <2>3, <2>5
  <2>6. starting' \subseteq Watches /\ retried' \subseteq starting'
    BY <1>1, <1>3, <2>1, <2>2
  <2> QED BY <1>3, <1>5, <2>1, <2>4, <2>5, <2>6
<1>7. CASE m.op = "unwatch"
  <2>1. /\ nodeWatches' = nodeWatches \ (m.arg \ renumbered)
        /\ answers' = answers \cup {Call("unwatch", w) : w \in m.arg}
        /\ UNCHANGED <<starting, renumbered>>
    BY <1>7 DEF NodeHandles
  <2>2. m.arg \subseteq Watches
    BY <1>2, <1>7 DEF Messages
  <2>3. answers' \subseteq Replies
    BY <1>3, <2>1, <2>2 DEF Replies, Call
  <2>4. \A op, w : Replied(op, w)' <=> Replied(op, w) \/ (op = "unwatch" /\ w \in m.arg)
    BY <2>1, Differ DEF Replied
  <2>5. ASSUME NEW w \in Watches, w \in m.arg PROVE NodeOf(w)' /\ AskInv(w)' /\ Absent(w)'
    <3>1. /\ Sent("unwatch", w) /\ ~Sent("unwatch", w)'
          /\ w \notin nodeWatches' \/ w \in renumbered'
      BY <1>2, <1>7, <2>1, <2>5
    <3>2. wpc[w] = "removing" /\ node[w]
      BY <1>3, <3>1 DEF AskInv
    <3>3. /\ ~Asked(w) /\ ~Asked(w)' /\ ~Sent("watch", w) /\ ~Sent("watch", w)'
          /\ w \notin starting'
          /\ ~Replied("watch", w) /\ ~Replied("rejected", w)
          /\ ~Replied("watch", w)' /\ ~Replied("rejected", w)'
      BY <1>1, <1>2, <1>3, <2>1, <2>4, <3>2 DEF AskInv, Asked
    <3>4. Handing
      BY <1>3, <3>2 DEF NodeOf
    <3>5. NodeOf(w)'
      BY <1>1, <1>3, <3>2, <3>4 DEF NodeOf
    <3>6. InOrder(w)'
      BY <3>3 DEF InOrder
    <3>7. AskInv(w)'
      BY <1>1, <3>1, <3>2, <3>3, <3>6 DEF AskInv
    <3>8. Absent(w)'
      BY <1>1, <3>2 DEF Absent
    <3> QED BY <3>5, <3>7, <3>8
  <2>6. ASSUME NEW w \in Watches, w \notin m.arg PROVE NodeOf(w)' /\ AskInv(w)' /\ Absent(w)'
    <3>1. w \in nodeWatches' <=> w \in nodeWatches
      BY <2>1, <2>6
    <3> QED BY <1>4, <2>1, <2>4, <2>6, <3>1
  <2> QED BY <1>1, <1>3, <1>5, <2>1, <2>3, <2>5, <2>6
<1>8. CASE m.op \in {"initial", "excludes"}
  <2>1. /\ UNCHANGED <<nodeWatches, starting>> /\ SetExcludes(m.arg)
        /\ answers' = answers \/ answers' = answers \cup {Call("initial", 0)}
    BY <1>8 DEF NodeHandles
  <2>2. renumbered' \in {renumbered, renumbered \cup nodeWatches}
    BY <2>1 DEF SetExcludes, Reset
  <2>3. /\ answers' \subseteq Replies
        /\ \A w : /\ Replied("watch", w)' <=> Replied("watch", w)
                  /\ Replied("unwatch", w)' <=> Replied("unwatch", w)
                  /\ Replied("rejected", w)' <=> Replied("rejected", w)
    BY <1>3, <2>1, Differ DEF Replies, Replied
  <2>4. ASSUME NEW w \in Watches PROVE NodeOf(w)' /\ AskInv(w)' /\ Absent(w)'
    BY <1>4, <1>8, <2>1, <2>2, <2>3
  <2>5. renumbered' \subseteq Watches
    BY <1>3, <2>2
  <2> QED BY <1>1, <1>3, <1>5, <2>1, <2>3, <2>4, <2>5
<1>9. m.op \in {"watch", "unwatch", "initial", "excludes"}
  BY <1>2 DEF Messages
<1> QED BY <1>6, <1>7, <1>8, <1>9

\* What was put off may be applied while a watch starts: it renumbers watches.
LEMMA PutOffApplied ==
    ASSUME WireTypes, NEW w, ApplyPutOff(w)
    PROVE  renumbered \subseteq renumbered' /\ renumbered' \subseteq Watches
BY DEF ApplyPutOff, Reset, WireTypes

\* A start ends, in a watch or in none.
LEMMA StartEndsWire ==
    ASSUME IInv, WireInv, NEW w \in Watches, NodeWatches(w) \/ NodeRejects(w) PROVE WireInv'
<1>1. /\ w \in starting /\ starting' = starting \ {w} /\ retried' = retried \ {w}
      /\ UNCHANGED <<wpc, tracked, fpc, restoring, node, refused, missed, toNode, lost>>
      /\ renumbered \subseteq renumbered' /\ renumbered' \subseteq Watches
  <2>1. WireTypes /\ ApplyPutOff(w)
    BY DEF WireInv, NodeWatches, NodeRejects
  <2> QED BY <2>1, PutOffApplied DEF NodeWatches, NodeRejects, Starts, fallback, waiting, agent,
                                     rest
<1>2. \/ /\ nodeWatches' = nodeWatches \cup {w}
         /\ answers' = answers \cup {Call("watch", w)}
      \/ /\ nodeWatches' = nodeWatches
         /\ answers' = answers \cup {Call("rejected", w)}
  BY DEF NodeWatches, NodeRejects
<1>3. /\ NodeOf(w) /\ AskInv(w) /\ Absent(w) /\ (Handing' <=> Handing)
      /\ fpc \notin {"restoring", "partial"} => restoring = {}
  BY <1>1 DEF WireInv, NodeInv, GoneInv, Handing
<1>4. /\ Asked(w) /\ ~node[w] /\ w \notin nodeWatches /\ ~Sent("watch", w)
      /\ ~Replied("watch", w) /\ ~Replied("rejected", w)
      /\ wpc[w] # "removing" /\ ~Sent("unwatch", w) /\ ~Replied("unwatch", w) /\ Handing
  BY <1>1, <1>3 DEF AskInv, InOrder, NodeOf, AtNode
<1>5. /\ \A op, v : Sent(op, v)' <=> Sent(op, v)
      /\ \A op, v : v # w => (Replied(op, v)' <=> Replied(op, v))
      /\ ~Replied("unwatch", w)'
      /\ \/ w \in nodeWatches' /\ Replied("watch", w)' /\ ~Replied("rejected", w)'
         \/ w \notin nodeWatches' /\ ~Replied("watch", w)' /\ Replied("rejected", w)'
  BY <1>1, <1>2, <1>4, SentSame, Differ DEF Replied
<1>6. /\ nodeWatches' \subseteq nodeWatches \cup {w} /\ nodeWatches \subseteq nodeWatches'
      /\ answers' \subseteq answers \cup {Call("watch", w), Call("rejected", w)}
  BY <1>2
<1>7. WireTypes' /\ SentOnce'
  <2>1. Call("watch", w) \in Replies /\ Call("rejected", w) \in Replies
    BY DEF Replies, Call
  <2> QED BY <1>1, <1>6, <2>1, SentSame DEF WireInv, WireTypes
<1>8. Asked(w)' /\ w \notin starting'
  BY <1>1, <1>4 DEF Asked
<1>9. NodeOf(w)'
  BY <1>1, <1>3, <1>4 DEF NodeOf, AtNode
<1>10. InOrder(w)'
  BY <1>4, <1>5, <1>8 DEF InOrder, AtNode
<1>11. AskInv(w)'
  BY <1>1, <1>3, <1>4, <1>5, <1>8, <1>10 DEF AskInv
<1>12. Absent(w)'
  BY <1>1, <1>3 DEF Absent, AtNode
<1>13. \A v \in Watches : v # w => Same(v)
  BY <1>1, <1>5, <1>6 DEF Same
<1> QED BY <1>1, <1>3, <1>7, <1>9, <1>11, <1>12, <1>13, ServedBut

LEMMA WatchAnsweredWire ==
    ASSUME IInv, WireInv, NEW w \in Watches, WatchAnswered(w) PROVE WireInv'
<1>1. /\ wpc[w] = "asking" /\ Replied("watch", w)
      /\ answers' = answers \ {Call("watch", w)}
      /\ node' = [node EXCEPT ![w] = TRUE] /\ tracked' = tracked \cup {w}
      /\ wpc' = [wpc EXCEPT ![w] = "held"]
      /\ UNCHANGED <<fpc, restoring, toNode, refused, missed>>
      /\ UNCHANGED <<nodeWatches, starting, retried, renumbered, lost>>
  BY DEF WatchAnswered, Replied, fallback, host, recorded, rest
<1>2. /\ AskInv(w) /\ wpc \in [Watches -> Steps] /\ node \in [Watches -> BOOLEAN]
      /\ fpc = "done" /\ restoring = {}
  BY <1>1 DEF WireInv, WireTypes, NodeInv, AskInv, IInv, CallInv, QueueInv
<1>3. Handing /\ Handing'
  BY <1>1, <1>2 DEF Handing
<1>4. /\ \A op, v : Sent(op, v)' <=> Sent(op, v)
      /\ \A op, v : Replied(op, v)' <=> Replied(op, v) /\ ~(op = "watch" /\ v = w)
  BY <1>1, SentSame, Differ DEF Replied
<1>5. WireTypes' /\ SentOnce'
  BY <1>1, <1>2, SentSame DEF WireInv, WireTypes
<1>6. wpc'[w] = "held" /\ node'[w] = TRUE /\ ~Asked(w)'
  BY <1>1, <1>2 DEF Asked
<1>7. /\ ~Sent("watch", w) /\ w \notin starting /\ ~Replied("rejected", w)
      /\ ~Sent("unwatch", w) /\ ~Replied("unwatch", w) /\ ~Replied("watch", w)'
  BY <1>1, <1>2, <1>4 DEF AskInv, InOrder
<1>8. NodeOf(w)'
  BY <1>3, <1>6 DEF NodeOf
<1>9. InOrder(w)'
  BY <1>1, <1>4, <1>7 DEF InOrder
<1>10. AskInv(w)'
  BY <1>1, <1>4, <1>6, <1>7, <1>9 DEF AskInv
<1>11. Absent(w)'
  BY <1>6 DEF Absent
<1>12. \A v \in Watches : v # w => Same(v)
  BY <1>1, <1>2, <1>4 DEF Same
<1> QED BY <1>1, <1>2, <1>3, <1>5, <1>8, <1>10, <1>11, <1>12, ServedBut

\* A watch() that was rejected leaves no watch.
LEMMA WatchRejectedWire ==
    ASSUME IInv, WireInv, NEW w \in Watches, WatchRejected(w) PROVE WireInv'
<1>1. /\ wpc[w] = "asking" /\ Replied("rejected", w)
      /\ answers' = answers \ {Call("rejected", w)}
      /\ wpc' = [wpc EXCEPT ![w] = "failed"]
      /\ UNCHANGED <<tracked, node, fpc, restoring, toNode, refused, missed>>
      /\ UNCHANGED <<nodeWatches, starting, retried, renumbered, lost>>
  BY DEF WatchRejected, Replied, agent, fallback, host, recorded, rest
<1>2. /\ AskInv(w) /\ wpc \in [Watches -> Steps] /\ fpc = "done" /\ restoring = {}
  BY <1>1 DEF WireInv, NodeInv, AskInv, IInv, CallInv, QueueInv
<1>3. Handing /\ Handing'
  BY <1>1, <1>2 DEF Handing
<1>4. /\ \A op, v : Sent(op, v)' <=> Sent(op, v)
      /\ \A op, v : Replied(op, v)' <=> Replied(op, v) /\ ~(op = "rejected" /\ v = w)
  BY <1>1, SentSame, Differ DEF Replied
<1>5. WireTypes' /\ SentOnce'
  BY <1>1, SentSame DEF WireInv, WireTypes
<1>6. wpc'[w] = "failed" /\ ~Asked(w)'
  BY <1>1, <1>2 DEF Asked
<1>7. /\ ~AtNode(w) /\ ~AtNode(w)' /\ ~Replied("watch", w) /\ ~Replied("rejected", w)'
      /\ ~Sent("unwatch", w) /\ ~Replied("unwatch", w)
  BY <1>1, <1>2, <1>4 DEF AskInv, InOrder, AtNode
<1>8. NodeOf(w)'
  BY <1>3, <1>7 DEF NodeOf
<1>9. InOrder(w)'
  BY <1>4, <1>7 DEF InOrder, AtNode
<1>10. AskInv(w)'
  BY <1>1, <1>4, <1>6, <1>7, <1>9 DEF AskInv, AtNode
<1>11. Absent(w)'
  BY <1>6 DEF Absent
<1>12. \A v \in Watches : v # w => Same(v)
  BY <1>1, <1>2, <1>4 DEF Same
<1> QED BY <1>1, <1>2, <1>3, <1>5, <1>8, <1>10, <1>11, <1>12, ServedBut

LEMMA UnwatchAnsweredWire ==
    ASSUME IInv, WireInv, NEW w \in Watches, UnwatchAnswered(w) PROVE WireInv'
<1>1. /\ wpc[w] = "removing" /\ Replied("unwatch", w)
      /\ answers' = answers \ {Call("unwatch", w)}
      /\ tracked' = tracked \ {w} /\ wpc' = [wpc EXCEPT ![w] = "gone"]
      /\ UNCHANGED <<fpc, restoring, toNode, node, refused, missed>>
      /\ UNCHANGED <<nodeWatches, starting, retried, renumbered, lost>>
  BY DEF UnwatchAnswered, Replied, fallback, host, recorded, rest
<1>2. /\ AskInv(w) /\ NodeOf(w) /\ wpc \in [Watches -> Steps] /\ tracked \subseteq Watches
      /\ fpc \notin {"restoring", "partial"} => restoring = {}
  BY <1>1 DEF WireInv, NodeInv, IInv, CallInv, QueueInv, StreamInv, AgentTypes
<1>3. Handing' <=> Handing
  BY <1>1 DEF Handing
<1>4. /\ \A op, v : Sent(op, v)' <=> Sent(op, v)
      /\ \A op, v : Replied(op, v)' <=> Replied(op, v) /\ ~(op = "unwatch" /\ v = w)
  BY <1>1, SentSame, Differ DEF Replied
<1>5. WireTypes' /\ SentOnce'
  BY <1>1, SentSame DEF WireInv, WireTypes
<1>6. /\ node[w] /\ (w \notin nodeWatches \/ w \in renumbered)
      /\ ~Sent("unwatch", w) /\ ~Asked(w)
  BY <1>1, <1>2 DEF AskInv
<1>7. /\ ~Sent("watch", w) /\ w \notin starting
      /\ ~Replied("watch", w) /\ ~Replied("rejected", w)
  BY <1>2, <1>6 DEF AskInv
<1>8. wpc'[w] = "gone" /\ w \notin tracked' /\ ~Asked(w)' /\ ~Replied("unwatch", w)'
  BY <1>1, <1>2, <1>4, <1>6 DEF Asked
<1>9. NodeOf(w)'
  BY <1>1, <1>2, <1>3, <1>4, <1>7, <1>8 DEF NodeOf, AtNode
<1>10. InOrder(w)'
  BY <1>1, <1>4, <1>7 DEF InOrder
<1>11. node'[w]
  BY <1>1, <1>2 DEF AskInv
<1>12. AskInv(w)'
  BY <1>1, <1>4, <1>6, <1>7, <1>8, <1>10, <1>11 DEF AskInv
<1>13. Absent(w)'
  BY <1>1, <1>4, <1>6, <1>7, <1>8 DEF Absent, AtNode
<1>14. \A v \in Watches : v # w => Same(v)
  BY <1>1, <1>2, <1>4 DEF Same
<1> QED BY <1>1, <1>2, <1>3, <1>5, <1>9, <1>12, <1>13, <1>14, ServedBut

\* The process may lose watches and starts, with all that is on the wire or with
\* nothing of it; a reset may give watches other ids.
LEMMA LessWire ==
    ASSUME IInv, WireInv, UNCHANGED <<wpc, fpc, restoring, node, refused, missed>>,
           tracked' \subseteq tracked, nodeWatches' \subseteq nodeWatches,
           starting' \subseteq starting, retried' \subseteq starting',
           renumbered \subseteq renumbered', renumbered' \subseteq Watches,
           lost' \subseteq Watches,
           \/ /\ UNCHANGED <<toNode, answers>> /\ lost \subseteq lost'
              /\ nodeWatches \subseteq nodeWatches' \cup lost'
           \/ toNode' = <<>> /\ answers' = {}
    PROVE  WireInv'
<1>1. /\ \A w \in Watches : Quieter(w)
      /\ toNode' \in Seq(Messages) /\ answers' \subseteq Replies /\ SentOnce'
  <2>1. CASE /\ UNCHANGED <<toNode, answers>> /\ lost \subseteq lost'
             /\ nodeWatches \subseteq nodeWatches' \cup lost'
    <3>1. /\ \A op, w : Sent(op, w)' <=> Sent(op, w)
          /\ \A op, w : Replied(op, w)' <=> Replied(op, w)
      BY <2>1, SentSame DEF Replied
    <3>2. \A w \in Watches : Replied("watch", w) => w \in nodeWatches \/ w \in lost
      BY DEF WireInv, AskInv, InOrder
    <3>3. \A w \in Watches : Quieter(w)
      BY <2>1, <3>1, <3>2 DEF Quieter
    <3>4. toNode' \in Seq(Messages) /\ answers' \subseteq Replies /\ SentOnce'
      BY <2>1, SentSame DEF WireInv, WireTypes
    <3> QED BY <3>3, <3>4
  <2>2. CASE toNode' = <<>> /\ answers' = {}
    <3>1. \A op, w : ~Sent(op, w)' /\ ~Replied(op, w)'
      BY <2>2 DEF Sent, Replied
    <3>2. \A w \in Watches : Quieter(w)
      BY <3>1 DEF Quieter
    <3>3. toNode' \in Seq(Messages) /\ answers' \subseteq Replies /\ SentOnce'
      BY <2>2 DEF SentOnce
    <3> QED BY <3>2, <3>3
  <2> QED BY <2>1, <2>2
<1>2. \A w \in Watches : Stays(w)
  BY DEF Stays
<1>3. tracked' \subseteq Watches
  BY DEF IInv, StreamInv, AgentTypes
<1>4. NodeInv' /\ (\A v \in Watches : AskInv(v)') /\ GoneInv'
  BY <1>1, <1>2, <1>3, QuietWire DEF WireInv
<1>5. WireTypes'
  BY <1>1 DEF WireInv, WireTypes
<1> QED BY <1>1, <1>4, <1>5 DEF WireInv

\* A start that begins again, a watch that is lost, a process that exits.
LEMMA StartsAgainWire ==
    ASSUME IInv, WireInv, NEW w \in Watches, NodeStartsAgain(w) PROVE WireInv'
<1>1. /\ w \in starting /\ retried' = {w} /\ WireTypes
      /\ UNCHANGED <<wpc, tracked, fpc, restoring, node, refused, missed, toNode, answers>>
      /\ UNCHANGED <<nodeWatches, starting, lost>>
  BY DEF NodeStartsAgain, Starts, WireInv, waiting, agent, fallback, wire, rest
<1>2. renumbered \subseteq renumbered' /\ renumbered' \subseteq Watches
  BY <1>1, PutOffApplied DEF NodeStartsAgain
<1> QED BY <1>1, <1>2, LessWire DEF WireTypes

LEMMA FailsWire ==
    ASSUME IInv, WireInv, NodeFails PROVE WireInv'
<1>1. WireTypes
  BY DEF WireInv
<1>2. ASSUME NEW w \in Watches, NodeLoses(w) PROVE WireInv'
  <2>1. /\ nodeWatches' = nodeWatches \ {w} /\ lost' = lost \cup {w}
        /\ UNCHANGED <<wpc, tracked, fpc, restoring, node, refused, missed, toNode, answers>>
        /\ UNCHANGED <<starting, retried, renumbered>>
    BY <1>2 DEF NodeLoses, waiting, agent, fallback, wire, rest
  <2> QED BY <1>1, <2>1, LessWire DEF WireTypes
<1>3. CASE NodeDies
  <2>1. /\ nodeWatches' = {} /\ starting' = {} /\ retried' = {}
        /\ toNode' = <<>> /\ answers' = {}
        /\ UNCHANGED <<wpc, tracked, fpc, restoring, node, refused, missed, renumbered, lost>>
    BY <1>3 DEF NodeDies, NodeEnds, waiting, agent, fallback, rest
  <2> QED BY <1>1, <2>1, LessWire DEF WireTypes
<1> QED BY <1>2, <1>3 DEF NodeFails

\* dispose() drops what is under way, and the connection with it.
LEMMA DisposeWire ==
    ASSUME IInv, WireInv, ProcessTypes, ProcInv, Disposing PROVE WireInv'
<1>1. /\ UNCHANGED <<wpc, fpc, restoring, node, refused, missed, renumbered, lost>>
      /\ tracked' \subseteq tracked
  BY DEF Disposing, Dispose, DisposeAnswered, ServersClosed, waiting, fallback, rest, agent
<1>2. ASSUME StopChild \/ UNCHANGED <<child, recorded>>
      PROVE  \/ UNCHANGED <<nodeWatches, starting, retried>>
             \/ nodeWatches' = {} /\ starting' = {} /\ retried' = {}
  BY <1>2 DEF StopChild, NodeEnds, recorded
<1>3. ASSUME Close
      PROVE  /\ toNode' = <<>> /\ answers' = {}
             /\ StopChild \/ UNCHANGED <<child, recorded>>
  BY <1>3 DEF Close, CloseServers
<1>4. /\ \/ UNCHANGED <<nodeWatches, starting, retried>>
         \/ nodeWatches' = {} /\ starting' = {} /\ retried' = {}
      /\ \/ UNCHANGED <<toNode, answers, nodeWatches>>
         \/ toNode' = <<>> /\ answers' = {}
  <2>1. CASE Dispose /\ connected
    BY <2>1 DEF Dispose, wire, recorded
  <2>2. CASE (Dispose /\ ~connected) \/ DisposeAnswered
    BY <1>2, <1>3, <2>2 DEF Dispose, DisposeAnswered
  <2>3. CASE ServersClosed
    <3>1. toNode = <<>> /\ answers = {}
      BY <2>3 DEF ServersClosed, ProcInv, ProcessTypes
    <3> QED BY <1>2, <2>3, <3>1 DEF ServersClosed, wire
  <2> QED BY <2>1, <2>2, <2>3 DEF Disposing
<1>5. WireTypes
  BY DEF WireInv
<1> QED BY <1>1, <1>4, <1>5, LessWire DEF WireTypes

LEMMA WireStep ==
    ASSUME IInv, WireInv, ProcessTypes, ProcInv, ExcludesTypes, AskedInv, UnwatchInv,
           [Next]_vars
    PROVE  WireInv'
<1>1. CASE Away
  BY <1>1, AwayWire
<1>2. ASSUME NEW w \in Watches, FallbackAwaited(w) PROVE WireInv'
  BY <1>2, AwaitedWire
<1>3. CASE ResumeUnwatch
  <2>1. PICK w : w = Argument
    OBVIOUS
  <2> QED BY <1>3, <2>1, ResumeUnwatchWire
<1>4. CASE ResumeExcludes
  BY <1>4, ResumeExcludesWire
<1>5. CASE ResumeFallback
  BY <1>5, ResumeFallbackWire
<1>6. CASE ExcludesAnswered
  BY <1>6, ExcludesAnsweredWire
<1>7. ASSUME NEW w \in Watches, Restored(w) \/ RestoreRejected(w) PROVE WireInv'
  BY <1>7, RestoredWire, RestoreRejectedWire
<1>8. ASSUME NEW w \in Watches, WatchAnswered(w) \/ WatchRejected(w) PROVE WireInv'
  BY <1>8, WatchAnsweredWire, WatchRejectedWire
<1>9. ASSUME NEW w \in Watches, UnwatchAnswered(w) PROVE WireInv'
  BY <1>9, UnwatchAnsweredWire
<1>10. CASE NodeHandles
  <2>1. PICK m : m = Head(toNode)
    OBVIOUS
  <2> QED BY <1>10, <2>1, HandlesWire
<1>11. CASE Disposing
  BY <1>11, DisposeWire
<1>12. CASE UNCHANGED vars
  <2>1. /\ UNCHANGED <<wpc, tracked, fpc, restoring, node, refused, missed, toNode, answers>>
        /\ UNCHANGED <<nodeWatches, starting, retried, renumbered, lost>>
    BY <1>12 DEF vars, wire, host, recorded, waiting, agent, fallback, rest
  <2>2. WireTypes
    BY DEF WireInv
  <2> QED BY <2>1, <2>2, LessWire DEF WireTypes
<1>13. ASSUME NEW w \in Watches, NodeStartsAgain(w) \/ NodeWatches(w) \/ NodeRejects(w)
       PROVE  WireInv'
  BY <1>13, StartsAgainWire, StartEndsWire
<1>14. CASE NodeFails
  BY <1>14, FailsWire
<1> QED BY <1>1, <1>2, <1>3, <1>4, <1>5, <1>6, <1>7, <1>8, <1>9, <1>10, <1>11, <1>12, <1>13,
           <1>14
        DEF Away, Next, Client, Resume, Fallback, NodeStarts, Answered, Disposing

-----------------------------------------------------------------------------
(* Exclusions, unWatch() calls and subscribed streams                          *)

\* How the queue of calls moves: c is what a client's call adds.
LEMMA QueueMoves ==
    ASSUME CallInv, NEW c, calls' = Append(calls, c)
    PROVE  \A i \in DOMAIN calls' :
               (i \in DOMAIN calls /\ calls'[i] = calls[i]) \/ calls'[i] = c
BY DEF CallInv, QueueInv

LEMMA QueueTail ==
    ASSUME CallInv, calls # <<>>, calls' = Tail(calls)
    PROVE  \A i \in DOMAIN calls' :
               i + 1 \in DOMAIN calls /\ i + 1 # 1 /\ calls'[i] = calls[i + 1]
<1>1. calls \in Seq(Calls)
  BY DEF CallInv, QueueInv
<1> QED BY <1>1

\* What the watcher process has of the exclusions.
NodeExcludesTyped ==
    /\ nodeExcludes \in 0..MaxExcludes
    /\ putOff \subseteq 0..MaxExcludes /\ \A u, v \in putOff : u = v

LEMMA ExcludesKept ==
    ASSUME CallInv, ExcludesTypes, NodeExcludesTyped',
           {agentExcludes', lastExcludes'} \subseteq 0..MaxExcludes,
           \/ calls' = calls
           \/ calls # <<>> /\ calls' = Tail(calls)
    PROVE  ExcludesTypes'
<1>1. CASE calls' = calls
  BY <1>1 DEF ExcludesTypes, NodeExcludesTyped
<1>2. CASE calls # <<>> /\ calls' = Tail(calls)
  <2>1. \A i \in DOMAIN calls' : i + 1 \in DOMAIN calls /\ calls'[i] = calls[i + 1]
    BY <1>2, QueueTail
  <2> QED BY <2>1 DEF ExcludesTypes, NodeExcludesTyped
<1> QED BY <1>1, <1>2

LEMMA ExcludesAdded ==
    ASSUME CallInv, ExcludesTypes, NodeExcludesTyped', NEW c, calls' = Append(calls, c),
           c.op = "excludes" => c.arg \in 0..MaxExcludes,
           {agentExcludes', lastExcludes'} \subseteq 0..MaxExcludes
    PROVE  ExcludesTypes'
<1>1. \A i \in DOMAIN calls' :
          (i \in DOMAIN calls /\ calls'[i] = calls[i]) \/ calls'[i] = c
  BY QueueMoves
<1> QED BY <1>1 DEF ExcludesTypes, NodeExcludesTyped

LEMMA ExcludesStep ==
    ASSUME IInv, ExcludesTypes, WireTypes, [Next]_vars PROVE ExcludesTypes'
<1>0. CallInv /\ NodeExcludesTyped /\ {agentExcludes, lastExcludes} \subseteq 0..MaxExcludes
  BY DEF IInv, ExcludesTypes, NodeExcludesTyped
<1>same. UNCHANGED <<nodeExcludes, putOff>> => NodeExcludesTyped'
  BY <1>0 DEF NodeExcludesTyped
<1>1. ASSUME NEW w \in Watches, CallWatch(w) \/ CallUnwatch(w) PROVE ExcludesTypes'
  <2>1. PICK c : calls' = Append(calls, c) /\ c.op # "excludes"
    BY <1>1, Differ DEF CallWatch, CallUnwatch
  <2>2. UNCHANGED <<agentExcludes, lastExcludes, nodeExcludes, putOff>>
    BY <1>1 DEF CallWatch, CallUnwatch, agent, host, recorded, rest
  <2> QED BY <1>0, <1>same, <2>1, <2>2, ExcludesAdded
<1>2. CASE CallExcludes
  <2>1. /\ calls' = Append(calls, Call("excludes", lastExcludes + 1))
        /\ lastExcludes' = lastExcludes + 1 /\ lastExcludes < MaxExcludes
        /\ UNCHANGED <<agentExcludes, nodeExcludes, putOff>>
    BY <1>2 DEF CallExcludes, agent, host, recorded
  <2>2. lastExcludes + 1 \in 0..MaxExcludes
    BY <1>0, <1>same, <2>1, WatcherManagerAssumption
  <2>3. Call("excludes", lastExcludes + 1).arg = lastExcludes + 1
    BY DEF Call
  <2> QED BY <1>0, <1>same, <2>1, <2>2, <2>3, ExcludesAdded
<1>3. CASE ResumeWatch \/ ResumeUnwatch \/ ResumeFallback
  <2>1. /\ UNCHANGED <<agentExcludes, lastExcludes, nodeExcludes, putOff>>
        /\ calls # <<>> /\ calls' = Tail(calls)
    BY <1>3 DEF ResumeWatch, ResumeUnwatch, ResumeFallback, Resumes, agent, host, recorded, rest
  <2> QED BY <1>0, <1>same, <2>1, ExcludesKept
<1>4. CASE ResumeExcludes
  <2>1. /\ UNCHANGED <<lastExcludes, nodeExcludes, putOff>>
        /\ calls # <<>> /\ calls' = Tail(calls)
        /\ agentExcludes' \in {agentExcludes, Argument}
    BY <1>4 DEF ResumeExcludes, Resumes, host, recorded, rest
  <2>2. 1 \in DOMAIN calls /\ calls[1].op = "excludes" /\ Argument = calls[1].arg
    BY <1>0, <1>4, HeadOfCalls DEF ResumeExcludes
  <2>3. Argument \in 0..MaxExcludes
    BY <2>2 DEF ExcludesTypes
  <2> QED BY <1>0, <1>same, <2>1, <2>3, ExcludesKept
<1>5. ASSUME NEW w \in Watches,
             \/ FallbackAwaited(w) \/ Restored(w) \/ RestoreRejected(w)
             \/ WatchAnswered(w) \/ WatchRejected(w) \/ UnwatchAnswered(w) \/ NodeLoses(w)
      PROVE  ExcludesTypes'
  <2>1. UNCHANGED <<agentExcludes, lastExcludes, nodeExcludes, putOff, calls>>
    BY <1>5 DEF FallbackAwaited, Restored, RestoreRejected, WatchAnswered,
                WatchRejected, UnwatchAnswered, NodeLoses, agent, host, recorded, rest,
                waiting
  <2> QED BY <1>0, <1>same, <2>1, ExcludesKept
<1>6. ASSUME NEW o \in opens, Subscribe(o) \/ Opened(o) \/ AgentUnavailable(o)
      PROVE  ExcludesTypes'
  <2>1. UNCHANGED <<agentExcludes, lastExcludes, nodeExcludes, putOff, calls>>
    BY <1>6 DEF Subscribe, Opened, AgentUnavailable, host, recorded, rest, waiting
  <2> QED BY <1>0, <1>same, <2>1, ExcludesKept
<1>7. ASSUME NEW s \in subs, StreamFails(s) PROVE ExcludesTypes'
  <2>1. UNCHANGED <<agentExcludes, lastExcludes, nodeExcludes, putOff, calls>>
    BY <1>7 DEF StreamFails, host, recorded, rest
  <2> QED BY <1>0, <1>same, <2>1, ExcludesKept
<1>8. CASE Forked
  <2>1. PICK c : calls' = Append(calls, c) /\ c.op # "excludes"
    BY <1>8, Differ DEF Forked
  <2>2. UNCHANGED <<agentExcludes, lastExcludes, nodeExcludes, putOff>>
    BY <1>8 DEF Forked, agent, host, recorded, rest
  <2> QED BY <1>0, <1>same, <2>1, <2>2, ExcludesAdded
<1>9. CASE ServerCreated \/ ListenFails \/ Connects \/ ExcludesAnswered \/ UNCHANGED vars
  <2>1. UNCHANGED <<agentExcludes, lastExcludes, nodeExcludes, putOff, calls>>
    BY <1>9 DEF ServerCreated, ListenFails, Connects, ExcludesAnswered, agent, host, recorded,
                rest, waiting, vars
  <2> QED BY <1>0, <1>same, <2>1, ExcludesKept
<1>10. ASSUME NEW v \in 0..MaxExcludes, SetExcludes(v) \/ Reset(v) PROVE NodeExcludesTyped'
  BY <1>0, <1>10 DEF SetExcludes, Reset, NodeExcludesTyped
<1>11. CASE NodeHandles
  <2>1. UNCHANGED <<agentExcludes, lastExcludes, calls>> /\ toNode # <<>>
    BY <1>11 DEF NodeHandles, agent, rest, waiting
  <2>2. PICK m \in Messages : m = Head(toNode)
    BY <2>1 DEF WireTypes
  <2>3. /\ m.op \in {"initial", "excludes"} => m.arg \in 0..MaxExcludes
        /\ m.op \in {"watch", "unwatch", "initial", "excludes"}
    BY DEF Messages
  <2>4. \/ UNCHANGED <<nodeExcludes, putOff>>
        \/ m.op \in {"initial", "excludes"} /\ SetExcludes(m.arg)
    BY <1>11, <2>2, <2>3 DEF NodeHandles
  <2>5. NodeExcludesTyped'
    BY <1>10, <1>same, <2>3, <2>4
  <2> QED BY <1>0, <2>1, <2>5, ExcludesKept
<1>12. ASSUME NEW w \in Watches, NodeStartsAgain(w) \/ NodeWatches(w) \/ NodeRejects(w)
       PROVE  ExcludesTypes'
  <2>1. UNCHANGED <<agentExcludes, lastExcludes, calls>> /\ ApplyPutOff(w)
    BY <1>12 DEF NodeStartsAgain, NodeWatches, NodeRejects, agent, rest, waiting
  <2>2. UNCHANGED <<nodeExcludes, putOff>> \/ \E v \in putOff : Reset(v)
    BY <2>1 DEF ApplyPutOff
  <2>3. NodeExcludesTyped'
    BY <1>0, <1>10, <1>same, <2>2 DEF NodeExcludesTyped
  <2> QED BY <1>0, <2>1, <2>3, ExcludesKept
<1>13. CASE NodeDies \/ Disposing
  <2>1. UNCHANGED <<agentExcludes, lastExcludes, nodeExcludes, calls>>
    BY <1>13 DEF NodeDies, Disposing, Dispose, DisposeAnswered, ServersClosed, agent, rest,
                 waiting
  <2>2. putOff' = putOff \/ putOff' = {}
    BY <1>13 DEF NodeDies, NodeEnds, Disposing, Dispose, DisposeAnswered, ServersClosed, Close,
                 StopChild, recorded
  <2>3. NodeExcludesTyped'
    BY <1>0, <2>1, <2>2 DEF NodeExcludesTyped
  <2> QED BY <1>0, <2>1, <2>3, ExcludesKept
<1> QED BY <1>1, <1>2, <1>3, <1>4, <1>5, <1>6, <1>7, <1>8, <1>9, <1>11, <1>12, <1>13
        DEF Next, Client, Resume, AgentAnswers, Fallback, NodeStarts, NodeFails, Answered

\* Nothing that an unWatch() in the queue relies on gets lost.
LEMMA UnwatchGoal ==
    ASSUME \A i \in DOMAIN calls' : \A w : calls'[i].op = "unwatch" /\ w = calls'[i].arg =>
               (w \notin tracked' => ~AtNode(w)')
    PROVE  UnwatchInv'
BY DEF UnwatchInv, AtNode, Sent

LEMMA UnwatchUse ==
    ASSUME UnwatchInv
    PROVE  \A i \in DOMAIN calls : \A w : calls[i].op = "unwatch" /\ w = calls[i].arg =>
               (w \notin tracked => ~AtNode(w))
BY DEF UnwatchInv

LEMMA UnwatchKept ==
    ASSUME CallInv, UnwatchInv,
           \/ calls' = calls
           \/ calls # <<>> /\ calls' = Tail(calls),
           \A i \in DOMAIN calls : \A w :
               /\ calls[i].op = "unwatch" /\ w = calls[i].arg
               /\ i # 1 \/ calls' = calls
               => /\ w \in tracked => w \in tracked'
                  /\ AtNode(w)' => AtNode(w)
    PROVE  UnwatchInv'
<1>1. \A i \in DOMAIN calls' : \E j \in DOMAIN calls :
          calls'[i] = calls[j] /\ (j # 1 \/ calls' = calls)
  <2>1. CASE calls' = calls
    BY <2>1
  <2>2. CASE calls # <<>> /\ calls' = Tail(calls)
    BY <2>2, QueueTail
  <2> QED BY <2>1, <2>2
<1>2. ASSUME NEW i \in DOMAIN calls', NEW w, calls'[i].op = "unwatch", w = calls'[i].arg
      PROVE  w \notin tracked' => ~AtNode(w)'
  <2>1. PICK j \in DOMAIN calls : calls'[i] = calls[j] /\ (j # 1 \/ calls' = calls)
    BY <1>1
  <2>2. w \notin tracked => ~AtNode(w)
    BY <1>2, <2>1, UnwatchUse
  <2>3. (w \in tracked => w \in tracked') /\ (AtNode(w)' => AtNode(w))
    BY <1>2, <2>1
  <2> QED BY <2>2, <2>3
<1> QED BY <1>2, UnwatchGoal

\* No unWatch() waits for whenReady while the watches are handed over or after.
LEMMA NobodyWaits ==
    ASSUME ProcInv, NodeInv, Quiet, Handing',
           fpc' = fpc \/ fpc \in {"excluding", "restoring", "partial"}
    PROVE  ready /\ runtime = "fallback" /\ calls = <<>>
BY DEF ProcInv, Quiet, Handing

LEMMA UnwatchStep ==
    ASSUME IInv, ServeInv, [Next]_vars, WireInv', CallInv' PROVE UnwatchInv'
<1>0. /\ CallInv /\ UnwatchInv /\ ProcInv /\ NodeInv /\ WireTypes
      /\ wpc \in [Watches -> Steps] /\ tracked \subseteq Watches
  BY DEF IInv, ServeInv, CallInv, QueueInv, StreamInv, AgentTypes
<1>1. CASE ~Handing'
  <2>1. ASSUME NEW i \in DOMAIN calls', NEW w, calls'[i].op = "unwatch", w = calls'[i].arg
        PROVE  ~AtNode(w)'
    <3>1. w \in Watches
      BY <2>1 DEF CallInv, QueueInv, Calls
    <3> QED BY <1>1, <3>1 DEF WireInv, NodeInv, NodeOf
  <2> QED BY <2>1, UnwatchGoal
<1>2. CASE Handing'
  <2>1. ASSUME NEW w \in Watches, CallWatch(w) PROVE UnwatchInv'
    <3>1. calls' = Append(calls, Call("watch", w)) /\ fpc' = fpc /\ Quiet
      BY <2>1 DEF CallWatch, fallback
    <3>2. calls = <<>>
      BY <1>0, <1>2, <3>1, NobodyWaits
    <3>3. \A i \in DOMAIN calls' : calls'[i].op # "unwatch"
      BY <1>0, <3>1, <3>2, QueueMoves, Differ
    <3> QED BY <3>3, UnwatchGoal
  <2>2. ASSUME CallExcludes PROVE UnwatchInv'
    <3>1. calls' = Append(calls, Call("excludes", lastExcludes + 1)) /\ fpc' = fpc /\ Quiet
      BY <2>2 DEF CallExcludes, fallback
    <3>2. calls = <<>>
      BY <1>0, <1>2, <3>1, NobodyWaits
    <3>3. \A i \in DOMAIN calls' : calls'[i].op # "unwatch"
      BY <1>0, <3>1, <3>2, QueueMoves, Differ
    <3> QED BY <3>3, UnwatchGoal
  <2>3. ASSUME NEW w \in Watches, CallUnwatch(w) PROVE UnwatchInv'
    <3>1. /\ calls' = Append(calls, Call("unwatch", w)) /\ fpc' = fpc /\ Quiet
          /\ wpc[w] = "held" /\ dpc = "none" /\ tracked' = tracked
      BY <2>3 DEF CallUnwatch, fallback, agent
    <3>2. calls = <<>>
      BY <1>0, <1>2, <3>1, NobodyWaits
    <3>3. \A i \in DOMAIN calls' : calls'[i].arg = w
      BY <1>0, <3>1, <3>2, QueueMoves, Differ
    <3>4. w \in tracked
      BY <3>1 DEF ServeInv, HoldInv, HoldOf, Holding
    <3> QED BY <3>1, <3>3, <3>4, UnwatchGoal
  <2>4. ASSUME ResumeWatch \/ ResumeExcludes PROVE UnwatchInv'
    <3>1. /\ calls # <<>> /\ calls' = Tail(calls) /\ UNCHANGED <<nodeWatches, starting, fpc>>
      BY <2>4 DEF ResumeWatch, ResumeExcludes, Resumes, fallback, host, recorded
    <3>2. runtime = "fallback"
      BY <1>0, <1>2, <3>1 DEF ProcInv, Handing
    <3>3. tracked' = tracked
      BY <2>4, <3>2 DEF ResumeWatch, ResumeExcludes
    <3>4. \A w : Sent("watch", w)' => Sent("watch", w)
      <4>1. CASE toNode' = toNode
        BY <4>1, SentSame
      <4>2. CASE toNode' = toNode \o <<Call("excludes", Argument)>> /\ ResumeExcludes
        <5>1. PICK m : m = Call("excludes", Argument)
          OBVIOUS
        <5>2. 1 \in DOMAIN calls /\ calls[1].op = "excludes" /\ Argument = calls[1].arg
          BY <1>0, <4>2, HeadOfCalls DEF ResumeExcludes
        <5>3. m \in Messages /\ m.op = "excludes"
          BY <5>1, <5>2 DEF Messages, Call, ServeInv, ExcludesTypes
        <5> QED BY <1>0, <4>2, <5>1, <5>3, SentAppend DEF WireTypes
      <4> QED BY <2>4, <4>1, <4>2 DEF ResumeWatch, ResumeExcludes, SendToNode, wire
    <3>5. \A w : AtNode(w)' => AtNode(w)
      BY <3>1, <3>4 DEF AtNode
    <3> QED BY <1>0, <3>1, <3>3, <3>5, UnwatchKept
  <2>5. ASSUME ResumeUnwatch, NEW w, w = Argument PROVE UnwatchInv'
    <3>1. /\ calls # <<>> /\ calls' = Tail(calls) /\ UNCHANGED <<nodeWatches, starting>>
          /\ tracked \ {w} \subseteq tracked'
          /\ toNode' = toNode \/ toNode' = toNode \o <<Call("unwatch", {w})>>
      BY <2>5 DEF ResumeUnwatch, Resumes, host, recorded, SendToNode
    <3>2. 1 \in DOMAIN calls /\ calls[1].op = "unwatch" /\ w = calls[1].arg /\ w \in Watches
      BY <1>0, <2>5, HeadOfCalls DEF ResumeUnwatch, Calls
    <3>3. \A i \in DOMAIN calls : \A v : calls[i].op = "unwatch" /\ v = calls[i].arg /\ i # 1 => v # w
      BY <1>0, <3>2 DEF CallInv, QueueInv
    <3>4. \A v : Sent("watch", v)' => Sent("watch", v)
      <4>1. CASE toNode' = toNode
        BY <4>1, SentSame
      <4>2. CASE toNode' = toNode \o <<Call("unwatch", {w})>>
        <5> DEFINE m == Call("unwatch", {w})
        <5>1. m \in Messages /\ m.op = "unwatch" /\ toNode' = toNode \o <<m>>
          BY <3>2, <4>2 DEF Messages, Call
        <5> HIDE DEF m
        <5> QED BY <1>0, <5>1, SentAppend DEF WireTypes
      <4> QED BY <3>1, <4>1, <4>2
    <3>5. \A v : AtNode(v)' => AtNode(v)
      BY <3>1, <3>4 DEF AtNode
    <3>6. calls' # calls
      <4>1. calls \in Seq(Calls)
        BY <1>0 DEF CallInv, QueueInv
      <4> QED BY <3>1, <4>1
    <3> QED BY <1>0, <3>1, <3>3, <3>5, <3>6, UnwatchKept
  <2>6. ASSUME NEW w \in Watches, FallbackAwaited(w) PROVE UnwatchInv'
    <3>1. /\ wpc[w] = "waiting" /\ UNCHANGED <<calls, tracked, nodeWatches, starting>>
          /\ toNode' = toNode \/ toNode' = toNode \o <<Call("watch", {w})>>
      BY <2>6 DEF FallbackAwaited, agent, host, recorded, SendToNode
    <3>2. \A v : v # w => (Sent("watch", v)' => Sent("watch", v))
      <4>1. CASE toNode' = toNode
        BY <4>1, SentSame
      <4>2. CASE toNode' = toNode \o <<Call("watch", {w})>>
        <5> DEFINE m == Call("watch", {w})
        <5>1. m \in Messages /\ m.arg = {w} /\ toNode' = toNode \o <<m>>
          BY <4>2 DEF Messages, Call
        <5> HIDE DEF m
        <5> QED BY <1>0, <5>1, SentAppend DEF WireTypes
      <4> QED BY <3>1, <4>1, <4>2
    <3>3. \A i \in DOMAIN calls : \A v : calls[i].op = "unwatch" /\ v = calls[i].arg => v # w
      BY <1>0, <3>1 DEF CallInv, QueueInv
    <3>4. \A v : v # w => (AtNode(v)' => AtNode(v))
      BY <3>1, <3>2 DEF AtNode
    <3> QED BY <1>0, <3>1, <3>3, <3>4, UnwatchKept
  <2>7. ASSUME Quiet, calls' = calls,
               fpc' = fpc \/ fpc \in {"excluding", "restoring", "partial"}
        PROVE  UnwatchInv'
    <3>1. calls' = <<>>
      BY <1>0, <1>2, <2>7, NobodyWaits
    <3> QED BY <3>1, UnwatchGoal
  <2>8. ASSUME ResumeFallback \/ ServerCreated \/ Forked \/ ListenFails PROVE FALSE
    BY <1>2, <2>8 DEF ResumeFallback, ServerCreated, Forked, ListenFails, Handing
  <2>9. ASSUME Connects \/ NodeHandles \/ NodeStarts \/ NodeFails \/ ExcludesAnswered
               \/ Disposing
        PROVE  UnwatchInv'
    <3>1. Quiet /\ calls' = calls /\ (fpc' = fpc \/ fpc \in {"excluding", "restoring"})
      BY <2>9 DEF Connects, NodeHandles, NodeStarts, NodeStartsAgain, NodeWatches, NodeRejects,
                  Starts, NodeFails, NodeDies, NodeLoses, ExcludesAnswered, Disposing, Dispose,
                  DisposeAnswered, ServersClosed, waiting, fallback
    <3> QED BY <2>7, <3>1
  <2>10. ASSUME NEW w \in Watches,
                \/ Restored(w) \/ RestoreRejected(w)
                \/ WatchAnswered(w) \/ WatchRejected(w) \/ UnwatchAnswered(w)
         PROVE  UnwatchInv'
    <3>1. Quiet /\ calls' = calls /\ (fpc' = fpc \/ w \in restoring)
      BY <2>10 DEF Restored, RestoreRejected, WatchAnswered, WatchRejected, UnwatchAnswered,
                   waiting, fallback
    <3>2. w \in restoring => fpc \in {"restoring", "partial"}
      BY <1>0 DEF NodeInv
    <3> QED BY <2>7, <3>1, <3>2
  <2>11. ASSUME AgentAnswers PROVE UnwatchInv'
    <3>1. Quiet /\ calls' = calls /\ fpc' = fpc
      BY <2>11 DEF AgentAnswers, Subscribe, Opened, AgentUnavailable, waiting, fallback
    <3> QED BY <2>7, <3>1
  <2>12. ASSUME NEW s \in subs, StreamFails(s) PROVE UnwatchInv'
    <3>1. Quiet /\ calls' = calls /\ (fpc' = fpc \/ fpc' = "path")
      BY <2>12 DEF StreamFails, FallBack
    <3> QED BY <1>2, <2>7, <3>1 DEF Handing
  <2>13. ASSUME UNCHANGED vars PROVE UnwatchInv'
    <3>1. UNCHANGED <<calls, tracked, nodeWatches, starting, toNode>>
      BY <2>13 DEF vars, waiting, agent, host, recorded, wire
    <3>2. \A v : AtNode(v)' => AtNode(v)
      BY <3>1, SentSame DEF AtNode
    <3> QED BY <1>0, <3>1, <3>2, UnwatchKept
  <2>14. PICK w : w = Argument
    OBVIOUS
  <2> QED BY <2>1, <2>2, <2>3, <2>4, <2>5, <2>6, <2>8, <2>9, <2>10, <2>11, <2>12, <2>13, <2>14
          DEF Next, Client, Resume, Fallback, Answered
<1> QED BY <1>1, <1>2

-----------------------------------------------------------------------------
(* What the client holds                                                       *)

StreamTypes ==
    /\ gen \in [Watches -> Nat] /\ handle \in [Watches -> Nat] /\ tracked \subseteq Watches
    /\ agentExcludes \in Nat
    /\ \A o \in opens : o \in Openings /\ o.stream \in Streams /\ o.stream.watch \in Watches
                        /\ o.stream.gen \in Nat /\ o.stream.gen <= gen[o.stream.watch]
    /\ \A s \in subs : s \in Streams /\ s.watch \in Watches /\ s.gen \in Nat
                       /\ s.gen <= gen[s.watch]

LEMMA TypedStreams == ASSUME IInv PROVE StreamTypes
BY DEF IInv, StreamInv, AgentTypes, NoneAhead, Openings, Streams, StreamTypes

\* A watch() that runs opens a stream of a generation of its own.
LEMMA ResumedWatch ==
    ASSUME IInv, ResumeWatch, runtime = "agent", NEW w, w = Argument
    PROVE  /\ w \in Watches /\ wpc[w] = "queued" /\ wpc' = [wpc EXCEPT ![w] = "opening"]
           /\ tracked' = tracked \cup {w}
           /\ gen'[w] > gen[w] /\ \A v \in Watches : v # w => gen'[v] = gen[v]
           /\ UNCHANGED <<runtime, subs, refused, dpc, fpc>>
           /\ opens \subseteq opens'
           /\ \A o \in opens' : o \in opens \/ o.stage = "starting"
           /\ \E o \in opens' : o.stream.watch = w /\ o.stream.gen = gen'[w]
<1> DEFINE new == Opening(w, gen[w] + 1, agentExcludes, "watch")
<1>0. StreamTypes
  BY TypedStreams
<1>1. w \in Watches /\ wpc[w] = "queued"
  <2>1. 1 \in DOMAIN calls /\ calls[1] \in Calls /\ calls[1].op = "watch" /\ w = calls[1].arg
    BY HeadOfCalls DEF ResumeWatch, IInv
  <2> QED BY <2>1 DEF Calls, IInv, CallInv, QueueInv
<1>2. /\ tracked' = tracked \cup {w} /\ gen' = [gen EXCEPT ![w] = @ + 1]
      /\ opens' = opens \cup {new} /\ wpc' = [wpc EXCEPT ![w] = "opening"]
      /\ UNCHANGED <<runtime, subs, refused, dpc, fpc>>
  BY DEF ResumeWatch, fallback, rest
<1>3. new.stage = "starting" /\ new.stream.watch = w /\ new.stream.gen = gen[w] + 1
  <2>1. gen[w] + 1 \in Nat /\ agentExcludes \in Nat
    BY <1>0, <1>1 DEF StreamTypes
  <2> QED BY <1>1, <2>1, StreamTyped
<1>4. gen'[w] = gen[w] + 1 /\ \A v \in Watches : v # w => gen'[v] = gen[v]
  BY <1>0, <1>1, <1>2 DEF StreamTypes
<1> HIDE DEF new
<1>5. /\ opens \subseteq opens'
      /\ \A o \in opens' : o \in opens \/ o.stage = "starting"
      /\ \E o \in opens' : o.stream.watch = w /\ o.stream.gen = gen'[w]
  BY <1>2, <1>3, <1>4
<1>6. gen'[w] > gen[w]
  BY <1>0, <1>1, <1>4 DEF StreamTypes
<1> QED BY <1>1, <1>2, <1>4, <1>5, <1>6

\* New exclusions open every stream again.
LEMMA ResumedExcludes ==
    ASSUME IInv, ResumeExcludes, runtime = "agent"
    PROVE  /\ UNCHANGED <<runtime, wpc, tracked, refused, dpc, fpc>>
           /\ \A w \in tracked : gen'[w] > gen[w]
           /\ \A w \in Watches : w \notin tracked => gen'[w] = gen[w]
           /\ opens \subseteq opens'
           /\ \A o \in opens' : o \in opens \/ o.stage = "starting"
           /\ \A w \in tracked : \E o \in opens' : o.stream.watch = w /\ o.stream.gen = gen'[w]
           /\ \A s \in subs : s.watch \notin tracked => s \in subs'
<1> DEFINE new(w) == Opening(w, gen[w] + 2, Argument, "excludes")
<1>0. StreamTypes
  BY TypedStreams
<1>1. Argument \in Nat
  BY HeadOfCalls DEF ResumeExcludes, Calls, IInv
<1>2. /\ UNCHANGED <<runtime, wpc, tracked, refused, dpc, fpc>>
      /\ gen' = [w \in Watches |-> IF w \in tracked THEN gen[w] + 2 ELSE gen[w]]
      /\ subs' = subs \ UNION {Released(w) : w \in tracked}
      /\ opens' = opens \cup {new(w) : w \in tracked}
  BY DEF ResumeExcludes, Reopened, fallback, rest
<1>3. ASSUME NEW w \in tracked
      PROVE  /\ new(w).stage = "starting" /\ new(w).stream.watch = w
             /\ new(w).stream.gen = gen'[w] /\ gen'[w] > gen[w]
  <2>1. w \in Watches /\ gen[w] + 2 \in Nat /\ gen[w] + 2 > gen[w]
    BY <1>0 DEF StreamTypes
  <2>2. gen'[w] = gen[w] + 2
    BY <1>2, <2>1
  <2> QED BY <1>1, <2>1, <2>2, StreamTyped
<1> HIDE DEF new
<1>4. \A w \in Watches : w \notin tracked => gen'[w] = gen[w]
  BY <1>2
<1>5. \A s \in subs : s.watch \notin tracked => s \in subs'
  BY <1>2 DEF Released
<1>6. /\ opens \subseteq opens'
      /\ \A o \in opens' : o \in opens \/ o.stage = "starting"
      /\ \A w \in tracked : \E o \in opens' : o.stream.watch = w /\ o.stream.gen = gen'[w]
  <2>1. opens \subseteq opens' /\ \A w \in tracked : new(w) \in opens'
    BY <1>2
  <2>2. \A o \in opens' : o \in opens \/ \E w \in tracked : o = new(w)
    BY <1>2
  <2> QED BY <1>3, <2>1, <2>2
<1> QED BY <1>2, <1>3, <1>4, <1>5, <1>6

LEMMA ResumedUnwatch ==
    ASSUME IInv, ResumeUnwatch, NEW w, w = Argument
    PROVE  /\ w \in Watches /\ wpc[w] = "releasing" /\ wpc'[w] \in {"gone", "removing", "failed"}
           /\ \A v \in Watches : v # w => wpc'[v] = wpc[v] /\ gen'[v] = gen[v]
           /\ tracked \ {w} \subseteq tracked' /\ gen'[w] >= gen[w]
           /\ (gen'[w] = gen[w] => subs' = subs)
           /\ \A s \in subs : s.watch # w => s \in subs'
           /\ subs' \subseteq subs
           /\ UNCHANGED <<runtime, opens, refused, dpc, fpc>>
<1>0. StreamTypes /\ wpc \in [Watches -> Steps]
  BY TypedStreams DEF IInv, CallInv, QueueInv
<1>1. w \in Watches /\ wpc[w] = "releasing"
  <2>1. 1 \in DOMAIN calls /\ calls[1] \in Calls /\ calls[1].op = "unwatch" /\ w = calls[1].arg
    BY HeadOfCalls DEF ResumeUnwatch, IInv
  <2> QED BY <2>1 DEF Calls, IInv, CallInv, QueueInv
<1>2. UNCHANGED <<runtime, opens, refused, dpc, fpc>>
  BY DEF ResumeUnwatch, fallback
<1>3. CASE w \notin tracked
  <2>1. wpc' = [wpc EXCEPT ![w] = "gone"] /\ UNCHANGED <<tracked, gen, subs>>
    BY <1>3 DEF ResumeUnwatch
  <2> QED BY <1>0, <1>1, <1>2, <2>1 DEF StreamTypes
<1>4. CASE w \in tracked
  <2>1. /\ gen' = [gen EXCEPT ![w] = @ + 1] /\ subs' = subs \ Released(w)
        /\ wpc' \in {[wpc EXCEPT ![w] = "removing"], [wpc EXCEPT ![w] = "gone"],
                    [wpc EXCEPT ![w] = "failed"]}
        /\ tracked' \in {tracked, tracked \ {w}}
    BY <1>4 DEF ResumeUnwatch
  <2>2. gen'[w] = gen[w] + 1 /\ gen[w] \in Nat
    BY <1>0, <1>1, <2>1 DEF StreamTypes
  <2>3. \A s \in subs : s.watch # w => s \in subs'
    BY <2>1 DEF Released
  <2>4. \A v \in Watches : v # w => wpc'[v] = wpc[v] /\ gen'[v] = gen[v]
    BY <1>0, <2>1 DEF StreamTypes
  <2>5. wpc'[w] \in {"gone", "removing", "failed"}
    BY <1>0, <1>1, <2>1
  <2>6. gen'[w] >= gen[w] /\ gen'[w] # gen[w]
    BY <2>2
  <2> QED BY <1>1, <1>2, <2>1, <2>3, <2>4, <2>5, <2>6
<1> QED BY <1>3, <1>4

\* Subscribed opens of the current generation keep their stream.
LEMMA SubscribedGoal ==
    ASSUME SubscribedInv,
           \A o \in opens' : o.stage = "subscribed" /\ Current(o.stream)' =>
               o \in opens /\ Current(o.stream) /\ (o.stream \in subs => o.stream \in subs')
    PROVE  SubscribedInv'
BY DEF SubscribedInv, Current

LEMMA SubscribedStep ==
    ASSUME IInv, SubscribedInv, [Next]_vars PROVE SubscribedInv'
<1>0. StreamTypes
  BY TypedStreams
<1>1. ASSUME NEW o \in opens, Subscribe(o) PROVE SubscribedInv'
  <2>1. /\ opens' = (opens \ {o}) \cup {[o EXCEPT !.stage = "subscribed"]}
        /\ subs' = subs \cup {o.stream} /\ UNCHANGED <<gen, runtime>>
    BY <1>1 DEF Subscribe, fallback
  <2>2. [o EXCEPT !.stage = "subscribed"].stream = o.stream
    BY <1>0 DEF StreamTypes, Openings
  <2> QED BY <2>1, <2>2 DEF SubscribedInv, Current
<1>2. ASSUME NEW o \in opens, Opened(o) \/ AgentUnavailable(o) PROVE SubscribedInv'
  <2>1. /\ opens' = opens \ {o} /\ subs \ {o.stream} \subseteq subs' /\ UNCHANGED <<gen, runtime>>
    BY <1>2 DEF Opened, AgentUnavailable, OpenRejected, fallback
  <2>2. \A q \in opens' : q.stream # o.stream
    BY <2>1 DEF IInv, StreamInv, OpensDiffer
  <2> QED BY <2>1, <2>2, SubscribedGoal DEF Current
<1>3. ASSUME NEW s \in subs, StreamFails(s) PROVE SubscribedInv'
  <2>1. opens' \subseteq opens
    BY <1>3 DEF StreamFails, OpenRejected
  <2>2. CASE Stale(s)
    <3>1. subs' = subs \ {s} /\ UNCHANGED <<gen, runtime>> /\ ~Current(s)
      BY <1>3, <2>2 DEF StreamFails, Stale, Current
    <3> QED BY <2>1, <3>1, SubscribedGoal DEF Current
  <2>3. CASE ~Stale(s)
    BY <1>3, <2>3, SubscribedGoal DEF StreamFails, FallBack, Current
  <2> QED BY <2>2, <2>3
<1>4. CASE ResumeWatch
  <2>1. CASE runtime = "agent"
    <3>1. PICK w : w = Argument
      OBVIOUS
    <3>2. /\ w \in Watches /\ gen'[w] > gen[w] /\ \A v \in Watches : v # w => gen'[v] = gen[v]
          /\ UNCHANGED <<runtime, subs>> /\ \A o \in opens' : o \in opens \/ o.stage = "starting"
      BY <1>4, <2>1, <3>1, ResumedWatch
    <3>3. ASSUME NEW o \in opens', o.stage = "subscribed", Current(o.stream)'
          PROVE  o \in opens /\ Current(o.stream) /\ (o.stream \in subs => o.stream \in subs')
      <4>1. o \in opens /\ o.stream.watch \in Watches /\ o.stream.gen <= gen[o.stream.watch]
            /\ o.stream.gen \in Nat
        BY <1>0, <3>2, <3>3 DEF StreamTypes
      <4>2. o.stream.watch # w
        BY <1>0, <3>2, <3>3, <4>1 DEF Current, StreamTypes
      <4> QED BY <3>2, <3>3, <4>1, <4>2 DEF Current
    <3> QED BY <3>3, SubscribedGoal
  <2>2. CASE runtime # "agent"
    BY <1>4, <2>2, SubscribedGoal DEF ResumeWatch, fallback, Current
  <2> QED BY <2>1, <2>2
<1>5. CASE ResumeUnwatch
  <2>1. PICK w : w = Argument
    OBVIOUS
  <2>2. /\ w \in Watches /\ gen'[w] >= gen[w] /\ (gen'[w] = gen[w] => subs' = subs)
        /\ \A v \in Watches : v # w => gen'[v] = gen[v]
        /\ \A s \in subs : s.watch # w => s \in subs'
        /\ UNCHANGED <<runtime, opens>>
    BY <1>5, <2>1, ResumedUnwatch
  <2>3. ASSUME NEW o \in opens', o.stage = "subscribed", Current(o.stream)'
        PROVE  o \in opens /\ Current(o.stream) /\ (o.stream \in subs => o.stream \in subs')
    <3>1. o \in opens /\ o.stream.watch \in Watches /\ o.stream.gen <= gen[o.stream.watch]
          /\ o.stream.gen \in Nat /\ gen[w] \in Nat
      BY <1>0, <2>2, <2>3 DEF StreamTypes
    <3>2. runtime = "agent" /\ gen'[o.stream.watch] = o.stream.gen
      BY <2>2, <2>3 DEF Current
    <3>3. CASE o.stream.watch = w
      <4>1. gen'[w] = gen[w]
        BY <2>2, <3>1, <3>2, <3>3
      <4> QED BY <2>2, <3>1, <3>2, <3>3, <4>1 DEF Current
    <3>4. CASE o.stream.watch # w
      BY <2>2, <3>1, <3>2, <3>4 DEF Current
    <3> QED BY <3>3, <3>4
  <2> QED BY <2>3, SubscribedGoal
<1>6. CASE ResumeExcludes
  <2>1. CASE runtime = "agent"
    <3>1. /\ \A w \in tracked : gen'[w] > gen[w]
          /\ \A w \in Watches : w \notin tracked => gen'[w] = gen[w]
          /\ UNCHANGED runtime /\ \A o \in opens' : o \in opens \/ o.stage = "starting"
          /\ \A s \in subs : s.watch \notin tracked => s \in subs'
      BY <1>6, <2>1, ResumedExcludes
    <3>2. ASSUME NEW o \in opens', o.stage = "subscribed", Current(o.stream)'
          PROVE  o \in opens /\ Current(o.stream) /\ (o.stream \in subs => o.stream \in subs')
      <4>1. o \in opens /\ o.stream.watch \in Watches /\ o.stream.gen <= gen[o.stream.watch]
            /\ o.stream.gen \in Nat /\ gen[o.stream.watch] \in Nat
        BY <1>0, <3>1, <3>2 DEF StreamTypes
      <4>2. gen'[o.stream.watch] = o.stream.gen
        BY <3>2 DEF Current
      <4>3. o.stream.watch \notin tracked
        BY <3>1, <4>1, <4>2
      <4> QED BY <2>1, <3>1, <4>1, <4>2, <4>3 DEF Current
    <3> QED BY <3>2, SubscribedGoal
  <2>2. CASE runtime # "agent"
    BY <1>6, <2>2, SubscribedGoal DEF ResumeExcludes, fallback, Current
  <2> QED BY <2>1, <2>2
<1>7. CASE Dispose
  <2>1. /\ gen' = [w \in Watches |-> IF w \in tracked THEN gen[w] + 1 ELSE gen[w]]
        /\ subs' = subs \ UNION {Released(w) : w \in tracked}
        /\ UNCHANGED <<runtime, opens>>
    BY <1>7 DEF Dispose, fallback
  <2>2. ASSUME NEW o \in opens', o.stage = "subscribed", Current(o.stream)'
        PROVE  o \in opens /\ Current(o.stream) /\ (o.stream \in subs => o.stream \in subs')
    <3>1. o \in opens /\ o.stream.watch \in Watches /\ o.stream.gen <= gen[o.stream.watch]
          /\ o.stream.gen \in Nat /\ gen[o.stream.watch] \in Nat
      BY <1>0, <2>1, <2>2 DEF StreamTypes
    <3>2. gen'[o.stream.watch] = o.stream.gen
      BY <2>2 DEF Current
    <3>3. o.stream.watch \notin tracked
      BY <2>1, <3>1, <3>2
    <3>4. gen'[o.stream.watch] = gen[o.stream.watch] /\ runtime = "agent"
      BY <2>1, <2>2, <3>1, <3>3 DEF Current
    <3> QED BY <2>1, <3>1, <3>2, <3>3, <3>4 DEF Current, Released
  <2> QED BY <2>2, SubscribedGoal
<1>8. ASSUME UNCHANGED <<opens, subs, gen, runtime>> PROVE SubscribedInv'
  BY <1>8, SubscribedGoal DEF Current
<1>9. ASSUME Client \/ Fallback \/ NodeHandles PROVE UNCHANGED <<opens, subs, gen, runtime>>
  BY <1>9 DEF Client, CallWatch, CallUnwatch, CallExcludes, Fallback, ServerCreated, Forked,
              ListenFails, Connects, ExcludesAnswered, NodeHandles, agent, fallback
<1>11. ASSUME NodeStarts \/ NodeFails \/ Answered PROVE UNCHANGED <<opens, subs, gen, runtime>>
  BY <1>11 DEF NodeStarts, NodeStartsAgain, NodeWatches, NodeRejects, NodeFails, NodeDies,
               NodeLoses, Answered, Restored, RestoreRejected, WatchAnswered, WatchRejected,
               UnwatchAnswered, agent, fallback
<1>10. ASSUME ResumeFallback \/ (\E w \in Watches : FallbackAwaited(w)) \/ DisposeAnswered
              \/ ServersClosed \/ UNCHANGED vars
       PROVE  UNCHANGED <<opens, subs, gen, runtime>>
  BY <1>10 DEF ResumeFallback, FallbackAwaited, DisposeAnswered, ServersClosed, vars, agent,
               fallback
<1> QED BY <1>1, <1>2, <1>3, <1>4, <1>5, <1>6, <1>7, <1>8, <1>9, <1>10, <1>11
        DEF Next, Resume, AgentAnswers, Disposing


\* While streams serve the watches: one of the current generation that is open,
\* or will be, stays so.
LEMMA HoldOnAgent ==
    ASSUME NEW w \in Watches, HoldOf(w), runtime' = "agent", runtime = "agent", ~Handing',
           wpc'[w] \in Holding => wpc[w] \in Holding,
           w \in tracked => w \in tracked',
           w \notin refused' => w \notin refused,
           w \notin refused' /\ wpc'[w] \in Holding =>
               (OnAgent(w) \/ OnItsWay(w) => OnAgent(w)' \/ OnItsWay(w)')
    PROVE  HoldOf(w)'
BY DEF HoldOf, Serving

\* Later the watcher process does.
LEMMA HoldAtNode ==
    ASSUME NEW w \in Watches, HoldOf(w), runtime' # "agent",
           wpc'[w] \in Holding => wpc[w] \in Holding,
           wpc'[w] \in Holding /\ w \in tracked => w \in tracked',
           Serving' => Serving,
           wpc'[w] \in Holding /\ Serving' /\ Served(w) => Served(w)'
    PROVE  HoldOf(w)'
BY DEF HoldOf

LEMMA ServedKept ==
    ASSUME NEW w, Sent("watch", w) => Sent("watch", w)' \/ w \in starting',
           w \in starting => w \in starting' \/ w \in nodeWatches' \/ Replied("rejected", w)',
           w \in nodeWatches => w \in nodeWatches' \/ w \in lost', w \in lost => w \in lost',
           Replied("rejected", w) => Replied("rejected", w)'
    PROVE  Served(w) => Served(w)'
BY DEF Served, AtNode

LEMMA OnAgentKept ==
    ASSUME NEW w, UNCHANGED runtime, gen'[w] = gen[w],
           \A s \in subs : s.watch = w /\ Current(s) => s \in subs',
           \A o \in opens : o.stream.watch = w /\ Current(o.stream) =>
               (\E q \in opens' : q.stream = o.stream) \/ o.stream \in subs'
    PROVE  OnAgent(w) \/ OnItsWay(w) => OnAgent(w)' \/ OnItsWay(w)'
<1>1. ASSUME NEW s, s.watch = w, Current(s) PROVE Current(s)'
  BY <1>1 DEF Current
<1>2. OnAgent(w) => OnAgent(w)'
  BY <1>1 DEF OnAgent
<1>3. OnItsWay(w) => OnAgent(w)' \/ OnItsWay(w)'
  BY <1>1 DEF OnAgent, OnItsWay
<1> QED BY <1>2, <1>3

LEMMA DisposeStarts ==
    ASSUME [Next]_vars, dpc' = "none"
    PROVE  dpc = "none" /\ ~Disposing
<1>1. ~Disposing
  BY DEF Disposing, Dispose, DisposeAnswered, ServersClosed, Close, StopChild
<1>2. Client => dpc' = dpc
  BY DEF Client, CallWatch, CallUnwatch, CallExcludes
<1>3. ResumeWatch \/ ResumeUnwatch \/ ResumeExcludes \/ ResumeFallback => dpc' = dpc
  BY DEF ResumeWatch, ResumeUnwatch, ResumeExcludes, ResumeFallback
<1>4. \A w \in Watches : FallbackAwaited(w) => dpc' = dpc
  BY DEF FallbackAwaited
<1>5. \A o \in opens : Subscribe(o) \/ Opened(o) \/ AgentUnavailable(o) => dpc' = dpc
  BY DEF Subscribe, Opened, AgentUnavailable
<1>6. \A s \in subs : StreamFails(s) => dpc' = dpc
  BY DEF StreamFails
<1>7. ServerCreated \/ Forked \/ ListenFails \/ Connects \/ ExcludesAnswered => dpc' = dpc
  BY DEF ServerCreated, Forked, ListenFails, Connects, ExcludesAnswered
<1>8. NodeHandles \/ NodeStarts \/ NodeFails => dpc' = dpc
  BY DEF NodeHandles, NodeStarts, NodeStartsAgain, NodeWatches, NodeRejects, NodeFails,
         NodeDies, NodeLoses
<1>9. Answered => dpc' = dpc
  BY DEF Answered, Restored, RestoreRejected, WatchAnswered, WatchRejected, UnwatchAnswered
<1> QED BY <1>1, <1>2, <1>3, <1>4, <1>5, <1>6, <1>7, <1>8, <1>9
        DEF Next, Resume, AgentAnswers, Fallback, vars

LEMMA HoldStepAgent ==
    ASSUME IInv, HoldInv, SubscribedInv, (\A w \in Watches : AskInv(w)), [Next]_vars,
           dpc' = "none", runtime' = "agent", runtime = "agent", ModeInv'
    PROVE  \A w \in Watches : HoldOf(w)'
<1>0. /\ StreamTypes /\ wpc \in [Watches -> Steps]
      /\ \A o \in opens : o.by = "watch" => wpc[o.stream.watch] = "opening"
      /\ ~Handing' /\ ~Handing /\ restoring = {} /\ fpc = "none" /\ child = "none" /\ ~connected
      /\ NoneAsked
      /\ \A w \in Watches : HoldOf(w) /\ wpc[w] # "removing" /\ wpc[w] # "asking"
      /\ ~Disposing
  <2>1. /\ StreamTypes /\ wpc \in [Watches -> Steps]
        /\ \A o \in opens : o.by = "watch" => wpc[o.stream.watch] = "opening"
    BY TypedStreams DEF IInv, CallInv, QueueInv, OpenInv
  <2>2. /\ ~Handing' /\ ~Handing /\ restoring = {} /\ fpc = "none" /\ child = "none"
        /\ ~connected /\ NoneAsked
    BY DEF IInv, ModeInv, Handing, NoneAsked
  <2>3. (\A w \in Watches : HoldOf(w)) /\ ~Disposing
    BY DisposeStarts DEF HoldInv
  <2>4. \A w \in Watches : wpc[w] # "removing" /\ wpc[w] # "asking"
    BY <2>2 DEF IInv, ModeInv, AskInv
  <2> QED BY <2>1, <2>2, <2>3, <2>4
<1>1. ASSUME UNCHANGED <<gen, subs, opens, refused, runtime, tracked>>,
             \A w \in Watches : wpc'[w] \in Holding => wpc[w] \in Holding
      PROVE  \A w \in Watches : HoldOf(w)'
  <2>1. \A w \in Watches : OnAgent(w) \/ OnItsWay(w) => OnAgent(w)' \/ OnItsWay(w)'
    BY <1>1, OnAgentKept
  <2> QED BY <1>0, <1>1, <2>1, HoldOnAgent
<1>2. CASE Client
  <2>1. UNCHANGED <<gen, subs, opens, refused, runtime, tracked>>
    BY <1>2 DEF Client, CallWatch, CallUnwatch, CallExcludes, agent, fallback, rest
  <2>2. \A w \in Watches : wpc'[w] \in Holding => wpc[w] \in Holding
    BY <1>0, <1>2 DEF Client, CallWatch, CallUnwatch, CallExcludes, Holding
  <2> QED BY <1>1, <2>1, <2>2
<1>3. ASSUME NEW o \in opens, Subscribe(o) PROVE \A w \in Watches : HoldOf(w)'
  <2>1. /\ opens' = (opens \ {o}) \cup {[o EXCEPT !.stage = "subscribed"]}
        /\ subs' = subs \cup {o.stream} /\ UNCHANGED <<gen, runtime, wpc, tracked, refused>>
    BY <1>3 DEF Subscribe, fallback, waiting, rest
  <2>2. \A w \in Watches : OnAgent(w) \/ OnItsWay(w) => OnAgent(w)' \/ OnItsWay(w)'
    BY <2>1, OnAgentKept
  <2> QED BY <1>0, <2>1, <2>2, HoldOnAgent
<1>4. ASSUME NEW o \in opens, Opened(o) PROVE \A w \in Watches : HoldOf(w)'
  <2>1. /\ opens' = opens \ {o} /\ UNCHANGED <<gen, runtime, tracked, refused>>
        /\ \A w \in Watches : wpc'[w] \in Holding => wpc[w] \in Holding
    BY <1>0, <1>4 DEF Opened, fallback, rest, Holding
  <2>2. \A s \in subs : Current(s) => s \in subs'
    BY <1>4 DEF Opened, Stale, Current
  <2>3. Current(o.stream) => o.stream \in subs'
    BY <1>4, <2>2 DEF Opened, SubscribedInv
  <2>4. \A w \in Watches : OnAgent(w) \/ OnItsWay(w) => OnAgent(w)' \/ OnItsWay(w)'
    BY <2>1, <2>2, <2>3, OnAgentKept
  <2> QED BY <1>0, <2>1, <2>4, HoldOnAgent
<1>5. ASSUME NEW o \in opens, AgentUnavailable(o) PROVE \A w \in Watches : HoldOf(w)'
  <2>1. /\ opens' = opens \ {o} /\ UNCHANGED <<gen, subs, runtime, tracked>>
        /\ refused' = refused \cup {o.stream.watch}
        /\ \A w \in Watches : wpc'[w] \in Holding => wpc[w] \in Holding
    BY <1>0, <1>5 DEF AgentUnavailable, OpenRejected, fallback, Holding
  <2>2. ASSUME NEW w \in Watches, w \notin refused'
        PROVE  OnAgent(w) \/ OnItsWay(w) => OnAgent(w)' \/ OnItsWay(w)'
    BY <2>1, <2>2, OnAgentKept
  <2> QED BY <1>0, <2>1, <2>2, HoldOnAgent
<1>6. ASSUME NEW s \in subs, StreamFails(s) PROVE \A w \in Watches : HoldOf(w)'
  <2>1. Stale(s)
    BY <1>6 DEF StreamFails, FallBack
  <2>2. subs' = subs \ {s} /\ ~Current(s) /\ UNCHANGED <<gen, runtime, tracked, refused>>
    BY <1>6, <2>1 DEF StreamFails, Stale, Current, rest
  <2>3. \A q \in opens : Current(q.stream) => q \in opens'
    BY <1>6, <2>2 DEF StreamFails, OpenRejected
  <2>4. \A w \in Watches : wpc'[w] \in Holding => wpc[w] \in Holding
    BY <1>0, <1>6 DEF StreamFails, OpenRejected, Holding
  <2>5. \A w \in Watches : OnAgent(w) \/ OnItsWay(w) => OnAgent(w)' \/ OnItsWay(w)'
    BY <2>2, <2>3, OnAgentKept
  <2> QED BY <1>0, <2>2, <2>4, <2>5, HoldOnAgent
<1>7. ASSUME ResumeWatch, NEW w, w = Argument PROVE \A v \in Watches : HoldOf(v)'
  <2>1. /\ w \in Watches /\ wpc' = [wpc EXCEPT ![w] = "opening"]
        /\ tracked' = tracked \cup {w} /\ \A v \in Watches : v # w => gen'[v] = gen[v]
        /\ UNCHANGED <<runtime, subs, refused>> /\ opens \subseteq opens'
        /\ \E o \in opens' : o.stream.watch = w /\ o.stream.gen = gen'[w]
    BY <1>7, ResumedWatch
  <2>2. HoldOf(w)'
    <3>1. OnItsWay(w)'
      BY <2>1 DEF OnItsWay, Current
    <3> QED BY <1>0, <2>1, <3>1 DEF HoldOf, Serving
  <2>3. ASSUME NEW v \in Watches, v # w PROVE HoldOf(v)'
    <3>1. OnAgent(v) \/ OnItsWay(v) => OnAgent(v)' \/ OnItsWay(v)'
      BY <2>1, <2>3, OnAgentKept
    <3> QED BY <1>0, <2>1, <2>3, <3>1, HoldOnAgent
  <2> QED BY <2>2, <2>3
<1>8. ASSUME ResumeUnwatch, NEW w, w = Argument PROVE \A v \in Watches : HoldOf(v)'
  <2>1. /\ w \in Watches /\ wpc'[w] \in {"gone", "removing", "failed"}
        /\ \A v \in Watches : v # w => wpc'[v] = wpc[v] /\ gen'[v] = gen[v]
        /\ tracked \ {w} \subseteq tracked' /\ UNCHANGED <<runtime, opens, refused>>
        /\ \A s \in subs : s.watch # w => s \in subs'
    BY <1>8, ResumedUnwatch
  <2>2. HoldOf(w)'
    BY <2>1 DEF HoldOf, Holding
  <2>3. ASSUME NEW v \in Watches, v # w PROVE HoldOf(v)'
    <3>1. OnAgent(v) \/ OnItsWay(v) => OnAgent(v)' \/ OnItsWay(v)'
      BY <2>1, <2>3, OnAgentKept
    <3> QED BY <1>0, <2>1, <2>3, <3>1, HoldOnAgent
  <2> QED BY <2>2, <2>3
<1>9. CASE ResumeExcludes
  <2>1. /\ UNCHANGED <<runtime, wpc, tracked, refused>>
        /\ \A w \in tracked : \E o \in opens' : o.stream.watch = w /\ o.stream.gen = gen'[w]
    BY <1>9, ResumedExcludes
  <2>2. ASSUME NEW w \in Watches, wpc[w] \in Holding
        PROVE  OnItsWay(w)'
    <3>1. w \in tracked
      BY <1>0, <2>2 DEF HoldOf
    <3> QED BY <2>1, <3>1 DEF OnItsWay, Current
  <2> QED BY <1>0, <2>1, <2>2, HoldOnAgent
<1>10. ASSUME ResumeFallback \/ Fallback \/ NodeHandles \/ NodeStarts \/ NodeDies
              \/ Answered \/ \E w \in Watches : FallbackAwaited(w)
       PROVE  FALSE
  <2>1. ~ResumeFallback
    BY <1>0, HeadOfCalls DEF ResumeFallback, NoneAsked, IInv
  <2>2. ~Fallback /\ ~NodeHandles /\ ~NodeStarts /\ ~NodeDies
    BY <1>0 DEF Fallback, ServerCreated, Forked, ListenFails, Connects, ExcludesAnswered,
                NodeHandles, NodeStarts, NodeStartsAgain, NodeWatches, NodeRejects, Starts,
                NodeDies
  <2>3. ~Answered
    BY <1>0 DEF Answered, Restored, RestoreRejected, WatchAnswered, WatchRejected,
                UnwatchAnswered
  <2>4. \A w \in Watches : ~FallbackAwaited(w)
    BY <1>0 DEF FallbackAwaited, FallbackSettled
  <2> QED BY <1>10, <2>1, <2>2, <2>3, <2>4
<1>11. CASE UNCHANGED vars
  BY <1>1, <1>11 DEF vars, agent, waiting, fallback, rest
<1>12. PICK w : w = Argument
  OBVIOUS
<1>13. ASSUME NEW x \in Watches, NodeLoses(x) PROVE \A v \in Watches : HoldOf(v)'
  BY <1>1, <1>13 DEF NodeLoses, agent, waiting, fallback, rest
<1> QED BY <1>0, <1>2, <1>3, <1>4, <1>5, <1>6, <1>7, <1>8, <1>9, <1>10, <1>11, <1>12, <1>13
        DEF Next, Resume, AgentAnswers, NodeFails


LEMMA HoldStepNode ==
    ASSUME IInv, HoldInv, WireInv, ExcludesTypes, [Next]_vars, dpc' = "none",
           runtime' # "agent"
    PROVE  \A w \in Watches : HoldOf(w)'
<1> DEFINE Kept(w) == wpc'[w] \in Holding => wpc[w] \in Holding /\ (w \in tracked => w \in tracked')
<1>0. /\ wpc \in [Watches -> Steps] /\ tracked \subseteq Watches
      /\ toNode \in Seq(Messages)
      /\ \A o \in opens : o.by = "watch" => wpc[o.stream.watch] = "opening"
      /\ \A w \in Watches : HoldOf(w) /\ AskInv(w)
      /\ ~Disposing
  BY DisposeStarts DEF HoldInv, WireInv, WireTypes, IInv, CallInv, QueueInv, OpenInv, StreamInv,
     AgentTypes
<1>1. ASSUME \A w \in Watches : Kept(w), Serving' => Serving,
             UNCHANGED <<answers, nodeWatches, starting, lost>>,
             \A w \in Watches : Sent("watch", w) => Sent("watch", w)'
      PROVE  \A w \in Watches : HoldOf(w)'
  <2>1. \A w \in Watches : Served(w) => Served(w)'
    BY <1>1, ServedKept DEF Replied
  <2> QED BY <1>0, <1>1, <2>1, HoldAtNode
<1>2. ASSUME \A w \in Watches : Kept(w), Serving' => Serving,
             UNCHANGED <<toNode, answers, nodeWatches, starting, lost>>
      PROVE  \A w \in Watches : HoldOf(w)'
  BY <1>1, <1>2, SentSame
<1>3. ASSUME Client PROVE \A w \in Watches : HoldOf(w)'
  <2>1. UNCHANGED <<tracked, fpc, child, toNode, answers, nodeWatches, starting, lost>>
    BY <1>3 DEF Client, CallWatch, CallUnwatch, CallExcludes, agent, process, fallback, host,
                recorded, wire
  <2>2. \A w \in Watches : wpc'[w] \in Holding => wpc[w] \in Holding
    BY <1>0, <1>3 DEF Client, CallWatch, CallUnwatch, CallExcludes, Holding
  <2> QED BY <1>2, <2>1, <2>2 DEF Serving, Handing
<1>4. ASSUME ResumeWatch PROVE \A w \in Watches : HoldOf(w)'
  <2>1. /\ UNCHANGED <<fpc, child, toNode, answers, nodeWatches, starting, lost>>
        /\ runtime # "agent"
    BY <1>4 DEF ResumeWatch, process, fallback, host, recorded, wire
  <2>2. tracked' = tracked /\ wpc' = [wpc EXCEPT ![Argument] = "waiting"]
    BY <1>4, <2>1 DEF ResumeWatch
  <2>3. \A w \in Watches : wpc'[w] \in Holding => wpc[w] \in Holding
    BY <1>0, <2>2 DEF Holding
  <2> QED BY <1>2, <2>1, <2>2, <2>3 DEF Serving, Handing
<1>5. ASSUME ResumeUnwatch, NEW w, w = Argument PROVE \A v \in Watches : HoldOf(v)'
  <2>1. /\ w \in Watches /\ wpc'[w] \in {"gone", "removing", "failed"}
        /\ \A v \in Watches : v # w => wpc'[v] = wpc[v]
        /\ tracked \ {w} \subseteq tracked' /\ fpc' = fpc
    BY <1>5, ResumedUnwatch
  <2>2. /\ UNCHANGED <<child, answers, nodeWatches, starting, lost>>
        /\ toNode' = toNode \/ toNode' = toNode \o <<Call("unwatch", {w})>>
    BY <1>5 DEF ResumeUnwatch, SendToNode, process, host, recorded
  <2>3. \A v \in Watches : Sent("watch", v) => Sent("watch", v)'
    <3>1. CASE toNode' = toNode
      BY <3>1, SentSame
    <3>2. CASE toNode' = toNode \o <<Call("unwatch", {w})>>
      <4> DEFINE m == Call("unwatch", {w})
      <4>1. m \in Messages /\ toNode' = toNode \o <<m>>
        BY <2>1, <3>2 DEF Call, Messages
      <4> HIDE DEF m
      <4> QED BY <1>0, <4>1, SentAppend
    <3> QED BY <2>2, <3>1, <3>2
  <2>4. \A v \in Watches :
            wpc'[v] \in Holding => wpc[v] \in Holding /\ (v \in tracked => v \in tracked')
    BY <2>1 DEF Holding
  <2> QED BY <1>1, <2>1, <2>2, <2>3, <2>4 DEF Serving, Handing
<1>6. ASSUME ResumeExcludes, NEW x, x = Argument PROVE \A w \in Watches : HoldOf(w)'
  <2>1. /\ UNCHANGED <<wpc, tracked, fpc, child, answers, nodeWatches, starting, lost>>
        /\ toNode' = toNode \/ toNode' = toNode \o <<Call("excludes", x)>>
    BY <1>6 DEF ResumeExcludes, SendToNode, fallback, process, host, recorded
  <2>2. x \in 0..MaxExcludes
    <3>1. 1 \in DOMAIN calls /\ calls[1].op = "excludes" /\ x = calls[1].arg
      BY <1>6, HeadOfCalls DEF ResumeExcludes, IInv
    <3> QED BY <3>1 DEF ExcludesTypes
  <2>3. \A w \in Watches : Sent("watch", w) => Sent("watch", w)'
    <3>1. CASE toNode' = toNode
      BY <3>1, SentSame
    <3>2. CASE toNode' = toNode \o <<Call("excludes", x)>>
      <4> DEFINE m == Call("excludes", x)
      <4>1. m \in Messages /\ toNode' = toNode \o <<m>>
        BY <2>2, <3>2 DEF Call, Messages
      <4> HIDE DEF m
      <4> QED BY <1>0, <4>1, SentAppend
    <3> QED BY <2>1, <3>1, <3>2
  <2> QED BY <1>1, <2>1, <2>3 DEF Serving, Handing
<1>7. ASSUME ResumeFallback PROVE \A w \in Watches : HoldOf(w)'
  <2>1. UNCHANGED <<wpc, tracked>> /\ ~Serving'
    BY <1>7 DEF ResumeFallback, agent, Serving, Handing
  <2> QED BY <1>0, <2>1, HoldAtNode
<1>8. ASSUME NEW w \in Watches, FallbackAwaited(w) PROVE \A v \in Watches : HoldOf(v)'
  <2>1. /\ UNCHANGED <<tracked, fpc, child, answers, nodeWatches, starting, lost>>
        /\ wpc' \in {[wpc EXCEPT ![w] = "asking"], [wpc EXCEPT ![w] = "failed"]}
        /\ toNode' = toNode \/ toNode' = toNode \o <<Call("watch", {w})>>
    BY <1>8 DEF FallbackAwaited, SendToNode, fallback, agent, process, host, recorded
  <2>2. \A v \in Watches : Sent("watch", v) => Sent("watch", v)'
    <3>1. CASE toNode' = toNode
      BY <3>1, SentSame
    <3>2. CASE toNode' = toNode \o <<Call("watch", {w})>>
      <4> DEFINE m == Call("watch", {w})
      <4>1. m \in Messages /\ toNode' = toNode \o <<m>>
        BY <3>2 DEF Call, Messages
      <4> HIDE DEF m
      <4> QED BY <1>0, <4>1, SentAppend
    <3> QED BY <2>1, <3>1, <3>2
  <2>3. \A v \in Watches : wpc'[v] \in Holding => wpc[v] \in Holding
    BY <1>0, <2>1 DEF Holding
  <2> QED BY <1>1, <2>1, <2>2, <2>3 DEF Serving, Handing
<1>9. ASSUME NEW o \in opens, Subscribe(o) \/ Opened(o) \/ AgentUnavailable(o)
      PROVE  \A w \in Watches : HoldOf(w)'
  <2>1. UNCHANGED <<tracked, fpc, child, toNode, answers, nodeWatches, starting, lost>>
    BY <1>9 DEF Subscribe, Opened, AgentUnavailable, fallback, process, host, recorded, wire
  <2>2. \A w \in Watches : wpc'[w] \in Holding => wpc[w] \in Holding
    BY <1>0, <1>9 DEF Subscribe, Opened, AgentUnavailable, OpenRejected, waiting, Holding
  <2> QED BY <1>2, <2>1, <2>2 DEF Serving, Handing
<1>10. ASSUME NEW s \in subs, StreamFails(s) PROVE \A w \in Watches : HoldOf(w)'
  <2>1. /\ UNCHANGED <<tracked, child, toNode, answers, nodeWatches, starting, lost>>
        /\ (fpc' = fpc \/ fpc' = "path")
    BY <1>10 DEF StreamFails, FallBack, process, host, recorded, wire
  <2>2. \A w \in Watches : wpc'[w] \in Holding => wpc[w] \in Holding
    BY <1>0, <1>10 DEF StreamFails, OpenRejected, Holding
  <2> QED BY <1>2, <2>1, <2>2 DEF Serving, Handing
<1>11. ASSUME ServerCreated \/ Forked \/ ListenFails \/ Connects
       PROVE  \A w \in Watches : HoldOf(w)'
  <2>1. UNCHANGED <<wpc, tracked, toNode, answers, nodeWatches, starting, lost>>
    BY <1>11 DEF ServerCreated, Forked, ListenFails, Connects, waiting, agent, host, recorded,
                 wire
  <2>2. Serving' => Serving
    BY <1>11 DEF ServerCreated, Forked, ListenFails, Connects, fallback, Serving, Handing
  <2> QED BY <1>2, <2>1, <2>2
<1>12. ASSUME ExcludesAnswered PROVE \A w \in Watches : HoldOf(w)'
  <2>1. /\ UNCHANGED <<wpc, tracked>>
        /\ tracked = {} \/ toNode' = toNode \o <<Call("watch", tracked)>>
    BY <1>12 DEF ExcludesAnswered, NoneLost, SendToNode, waiting, agent
  <2>2. ASSUME NEW w \in tracked PROVE Sent("watch", w)'
    <3> DEFINE m == Call("watch", tracked)
    <3>1. m \in Messages /\ m.op = "watch" /\ m.arg = tracked /\ toNode' = toNode \o <<m>>
      BY <1>0, <2>1, <2>2 DEF Call, Messages
    <3> HIDE DEF m
    <3> QED BY <1>0, <2>2, <3>1, SentAppend
  <2>3. ASSUME NEW w \in Watches, wpc'[w] \in Holding PROVE w \in tracked' /\ Served(w)'
    <3>1. w \in tracked
      BY <1>0, <2>1, <2>3 DEF HoldOf
    <3> QED BY <2>1, <2>2, <3>1 DEF Served, AtNode
  <2> QED BY <2>3 DEF HoldOf
<1>13. ASSUME NodeHandles, NEW m, m = Head(toNode) PROVE \A w \in Watches : HoldOf(w)'
  <2>1. /\ UNCHANGED <<wpc, tracked, fpc, child, lost>> /\ toNode # <<>>
        /\ toNode' = Tail(toNode)
    BY <1>13 DEF NodeHandles, waiting, agent, process, fallback
  <2>2. /\ m \in Messages
        /\ \A op, w : Sent(op, w) => Sent(op, w)' \/ (m.op = op /\ w \in m.arg)
        /\ \A op, w : m.op = op /\ w \in m.arg => Sent(op, w)
    BY <1>0, <1>13, <2>1, SentTail
  <2>3. m.op \in {"watch", "unwatch", "initial", "excludes"}
    BY <2>2 DEF Messages
  <2>4. /\ m.op = "watch" => starting' = starting \cup m.arg
        /\ m.op # "watch" => starting' = starting
        /\ m.op = "unwatch" => nodeWatches' = nodeWatches \ (m.arg \ renumbered)
        /\ m.op # "unwatch" => nodeWatches' = nodeWatches
        /\ answers \subseteq answers'
    BY <1>13, <2>3 DEF NodeHandles
  <2>5. ASSUME NEW w \in Watches, wpc'[w] \in Holding PROVE Served(w) => Served(w)'
    <3>1. ~Sent("unwatch", w)
      BY <1>0, <2>1, <2>5 DEF AskInv, Holding
    <3>2. ~(m.op = "unwatch" /\ w \in m.arg)
      BY <2>2, <3>1
    <3>3. w \in nodeWatches => w \in nodeWatches'
      BY <2>4, <3>2
    <3>4. Sent("watch", w) => Sent("watch", w)' \/ w \in starting'
      BY <2>2, <2>4
    <3>5. w \in starting => w \in starting'
      BY <2>4
    <3>6. Replied("rejected", w) => Replied("rejected", w)'
      BY <2>4 DEF Replied
    <3> QED BY <2>1, <3>3, <3>4, <3>5, <3>6, ServedKept
  <2> QED BY <1>0, <2>1, <2>5, HoldAtNode DEF Serving, Handing
<1>14. ASSUME UNCHANGED <<wpc, tracked, fpc, child>>,
              \A w \in Watches : Served(w) => Served(w)'
       PROVE  \A w \in Watches : HoldOf(w)'
  BY <1>0, <1>14, HoldAtNode DEF Serving, Handing
<1>15. ASSUME NEW w \in Watches, NodeStartsAgain(w) PROVE \A v \in Watches : HoldOf(v)'
  <2>1. /\ UNCHANGED <<wpc, tracked, fpc, child>>
        /\ UNCHANGED <<toNode, answers, nodeWatches, starting, lost>>
    BY <1>15 DEF NodeStartsAgain, waiting, agent, process, fallback, wire
  <2> QED BY <1>2, <2>1 DEF Serving, Handing
<1>16. ASSUME NEW w \in Watches, NodeWatches(w) \/ NodeRejects(w)
       PROVE  \A v \in Watches : HoldOf(v)'
  <2>1. /\ UNCHANGED <<wpc, tracked, fpc, child, toNode, lost>>
        /\ starting' = starting \ {w} /\ answers \subseteq answers'
        /\ nodeWatches \subseteq nodeWatches'
        /\ w \in nodeWatches' \/ Call("rejected", w) \in answers'
    BY <1>16 DEF NodeWatches, NodeRejects, waiting, agent, process, fallback
  <2>2. \A v \in Watches : Served(v) => Served(v)'
    BY <2>1, SentSame, ServedKept DEF Replied
  <2> QED BY <1>14, <2>1, <2>2
<1>17. ASSUME NEW w \in Watches, NodeLoses(w) PROVE \A v \in Watches : HoldOf(v)'
  <2>1. /\ UNCHANGED <<wpc, tracked, fpc, child, toNode, answers, starting>>
        /\ nodeWatches' = nodeWatches \ {w} /\ lost' = lost \cup {w}
    BY <1>17 DEF NodeLoses, waiting, agent, process, fallback, wire, recorded
  <2>2. \A v \in Watches : Served(v) => Served(v)'
    BY <2>1, SentSame, ServedKept DEF Replied
  <2> QED BY <1>14, <2>1, <2>2
<1>18. ASSUME NodeDies PROVE \A w \in Watches : HoldOf(w)'
  <2>1. UNCHANGED <<wpc, tracked>> /\ ~Serving'
    BY <1>18 DEF NodeDies, waiting, agent, Serving
  <2> QED BY <1>0, <2>1, HoldAtNode
<1>19. ASSUME NEW w \in Watches, Restored(w) PROVE \A v \in Watches : HoldOf(v)'
  <2>1. /\ UNCHANGED <<wpc, tracked, child, toNode, nodeWatches, starting, lost>>
        /\ w \in restoring /\ answers' = answers \ {Call("watch", w)}
        /\ fpc' = fpc \/ fpc = "restoring"
    BY <1>19 DEF Restored, waiting, agent, process, host, recorded
  <2>2. Serving' => Serving
    BY <2>1 DEF Serving, Handing
  <2>3. \A v \in Watches : Served(v) => Served(v)'
    BY <2>1, SentSame, ServedKept, Differ DEF Replied
  <2> QED BY <1>0, <2>1, <2>2, <2>3, HoldAtNode
<1>20. ASSUME NEW w \in Watches, RestoreRejected(w) PROVE \A v \in Watches : HoldOf(v)'
  <2>1. UNCHANGED <<wpc, tracked>> /\ ~Serving'
    BY <1>20 DEF RestoreRejected, waiting, agent, Serving
  <2> QED BY <1>0, <2>1, HoldAtNode
<1>21. ASSUME NEW w \in Watches, WatchAnswered(w) PROVE \A v \in Watches : HoldOf(v)'
  <2>1. /\ wpc' = [wpc EXCEPT ![w] = "held"] /\ tracked' = tracked \cup {w}
        /\ Replied("watch", w) /\ answers' = answers \ {Call("watch", w)}
        /\ UNCHANGED <<fpc, child, toNode, nodeWatches, starting, lost>>
    BY <1>21 DEF WatchAnswered, Replied, fallback, process, host, recorded
  <2>2. HoldOf(w)'
    <3>1. w \in nodeWatches \/ w \in lost
      BY <1>0, <2>1 DEF AskInv, InOrder
    <3> QED BY <2>1, <3>1 DEF HoldOf, Served, AtNode
  <2>3. \A v \in Watches : Served(v) => Served(v)'
    BY <2>1, SentSame, ServedKept, Differ DEF Replied
  <2>4. ASSUME NEW v \in Watches, v # w PROVE HoldOf(v)'
    <3>1. wpc'[v] = wpc[v]
      BY <1>0, <2>1, <2>4
    <3> QED BY <1>0, <2>1, <2>3, <3>1, HoldAtNode DEF Serving, Handing
  <2> QED BY <2>2, <2>4
<1>22. ASSUME NEW w \in Watches, WatchRejected(w) PROVE \A v \in Watches : HoldOf(v)'
  <2>1. /\ wpc' = [wpc EXCEPT ![w] = "failed"] /\ answers' = answers \ {Call("rejected", w)}
        /\ UNCHANGED <<tracked, fpc, child, toNode, nodeWatches, starting, lost>>
    BY <1>22 DEF WatchRejected, agent, fallback, process, host, recorded
  <2>2. HoldOf(w)'
    BY <1>0, <2>1 DEF HoldOf, Holding
  <2>3. ASSUME NEW v \in Watches, v # w PROVE HoldOf(v)'
    <3>1. wpc'[v] = wpc[v]
      BY <1>0, <2>1, <2>3
    <3>2. Replied("rejected", v) => Replied("rejected", v)'
      BY <2>1, <2>3, Differ DEF Replied
    <3>3. Served(v) => Served(v)'
      BY <2>1, <3>2, SentSame, ServedKept
    <3> QED BY <1>0, <2>1, <3>1, <3>3, HoldAtNode DEF Serving, Handing
  <2> QED BY <2>2, <2>3
<1>23. ASSUME NEW w \in Watches, UnwatchAnswered(w) PROVE \A v \in Watches : HoldOf(v)'
  <2>1. /\ wpc' = [wpc EXCEPT ![w] = "gone"] /\ tracked' = tracked \ {w}
        /\ answers' = answers \ {Call("unwatch", w)}
        /\ UNCHANGED <<fpc, child, toNode, nodeWatches, starting, lost>>
    BY <1>23 DEF UnwatchAnswered, fallback, process, host, recorded
  <2>2. \A v \in Watches :
            wpc'[v] \in Holding => wpc[v] \in Holding /\ (v \in tracked => v \in tracked')
    BY <1>0, <2>1 DEF Holding
  <2>3. \A v \in Watches : Served(v) => Served(v)'
    BY <2>1, SentSame, ServedKept, Differ DEF Replied
  <2> QED BY <1>0, <2>1, <2>2, <2>3, HoldAtNode DEF Serving, Handing
<1>24. ASSUME UNCHANGED vars PROVE \A w \in Watches : HoldOf(w)'
  <2>1. /\ UNCHANGED <<wpc, tracked, fpc, child>>
        /\ UNCHANGED <<toNode, answers, nodeWatches, starting, lost>>
    BY <1>24 DEF vars, waiting, agent, fallback, process, host, recorded, wire
  <2> QED BY <1>2, <2>1 DEF Serving, Handing
<1>25. PICK x, m : x = Argument /\ m = Head(toNode)
  OBVIOUS
<1> QED BY <1>0, <1>3, <1>4, <1>5, <1>6, <1>7, <1>8, <1>9, <1>10, <1>11, <1>12, <1>13, <1>15,
           <1>16, <1>17, <1>18, <1>19, <1>20, <1>21, <1>22, <1>23, <1>24, <1>25
        DEF Next, Resume, AgentAnswers, Fallback, NodeStarts, NodeFails, Answered

LEMMA HoldStep ==
    ASSUME IInv, HoldInv, SubscribedInv, WireInv, ExcludesTypes, [Next]_vars, ModeInv'
    PROVE  HoldInv'
<1>1. CASE dpc' # "none"
  BY <1>1 DEF HoldInv
<1>2. CASE dpc' = "none" /\ runtime' # "agent"
  BY <1>2, HoldStepNode DEF HoldInv
<1>3. CASE dpc' = "none" /\ runtime' = "agent"
  <2>1. runtime = "agent"
    <3>1. Client \/ Resume \/ AgentAnswers \/ Fallback \/ NodeHandles \/ NodeStarts
          \/ NodeFails \/ Answered \/ Disposing \/ UNCHANGED vars => runtime' = runtime
      BY DEF Client, CallWatch, CallUnwatch, CallExcludes, Resume, ResumeWatch, ResumeUnwatch,
         ResumeExcludes, ResumeFallback, FallbackAwaited, AgentAnswers, Subscribe, Opened,
         AgentUnavailable, Fallback, ServerCreated, Forked, ListenFails, Connects,
         ExcludesAnswered, NodeHandles, NodeStarts, NodeStartsAgain, NodeWatches, NodeRejects,
         NodeFails, NodeDies, NodeLoses, Answered, Restored, RestoreRejected, WatchAnswered,
         WatchRejected, UnwatchAnswered, Disposing, Dispose, DisposeAnswered, ServersClosed,
         fallback, vars
    <3>2. \A s \in subs : StreamFails(s) => runtime' = runtime \/ runtime' = "fallback"
      BY DEF StreamFails, FallBack
    <3> QED BY <1>3, <3>1, <3>2 DEF Next
  <2> QED BY <1>3, <2>1, HoldStepAgent DEF HoldInv, WireInv
<1> QED BY <1>1, <1>2, <1>3

-----------------------------------------------------------------------------
(* Theorems about the watches                                                  *)

LEMMA ServeStep == ASSUME IInv, ServeInv, [Next]_vars PROVE IInv' /\ ServeInv'
<1>1. StreamInv' /\ CallInv' /\ ModeInv'
  BY StreamStep, CallStep, ModeStep
<1>2. ProcessTypes' /\ ProcInv' /\ AskedInv'
  BY ProcStep, AskedStep DEF ServeInv
<1>3. WireInv
  BY DEF ServeInv, WireInv
<1>4. WireInv' /\ ExcludesTypes'
  BY <1>3, WireStep, ExcludesStep DEF ServeInv
<1>5. UnwatchInv' /\ SubscribedInv' /\ HoldInv'
  BY <1>1, <1>3, <1>4, UnwatchStep, SubscribedStep, HoldStep DEF ServeInv
<1> QED BY <1>1, <1>2, <1>4, <1>5 DEF IInv, ServeInv, WireInv

LEMMA ServeAlways == Spec => [](IInv /\ ServeInv)
<1>1. Init => IInv /\ ServeInv
  BY IInvInit, ServeInit
<1>2. (IInv /\ ServeInv) /\ [Next]_vars => (IInv /\ ServeInv)'
  BY ServeStep
<1> QED BY <1>1, <1>2, PTL DEF Spec

\* The state has its types, and a connection belongs to a running watcher process.
THEOREM TypesHold == Spec => []TypeOK
<1>1. IInv /\ ServeInv => TypeOK
  <2> SUFFICES ASSUME IInv, ServeInv PROVE TypeOK
    OBVIOUS
  <2>1. \A i \in DOMAIN calls : calls[i].op \in {"watch", "unwatch", "excludes", "fallback"}
    <3>1. \A i \in DOMAIN calls : calls[i] \in Calls
      BY DEF IInv, CallInv, QueueInv
    <3> QED BY <3>1 DEF Calls
  <2>2. /\ runtime \in {"agent", "fallback"} /\ tracked \subseteq Watches
        /\ gen \in [Watches -> Nat] /\ handle \in [Watches -> Nat]
        /\ subs \subseteq Streams
        /\ opens \subseteq [stream : Streams, by : {"watch", "excludes"},
                            stage : {"starting", "subscribed"}]
    BY DEF IInv, StreamInv, AgentTypes, Openings
  <2>3. wpc \in [Watches -> {"idle", "queued", "opening", "waiting", "asking", "held", "failed",
                             "releasing", "removing", "gone"}]
    BY DEF IInv, CallInv, QueueInv, Steps
  <2>4. /\ ready \in BOOLEAN /\ known \in BOOLEAN /\ connected \in BOOLEAN
        /\ fpc \in {"none", "path", "listening", "connecting", "excluding", "restoring", "done",
                    "partial", "failed"}
        /\ dpc \in {"none", "asking", "closing", "done"}
        /\ server \in {"none", "starting", "listening"}
        /\ child \in {"none", "started", "running", "stopped", "dead"}
        /\ connected => child = "running"
    BY DEF ServeInv, ProcessTypes, FallbackSteps, ProcInv
  <2>5. /\ node \in [Watches -> BOOLEAN]
        /\ restoring \cup nodeWatches \cup starting \subseteq Watches
        /\ retried \subseteq starting
        /\ refused \cup missed \cup renumbered \cup lost \subseteq Watches
        /\ {agentExcludes, lastExcludes, nodeExcludes} \subseteq 0..MaxExcludes
        /\ putOff \subseteq 0..MaxExcludes /\ \A u, v \in putOff : u = v
    BY DEF ServeInv, WireTypes, ExcludesTypes
  <2> QED BY <2>1, <2>2, <2>3, <2>4, <2>5 DEF TypeOK
<1> QED BY <1>1, ServeAlways, PTL

\* When nothing is under way, a watch the client holds is served by the Agent or by
\* the watcher process, and not by both: whatever fails or changes while watch() or
\* setWatcherFileExcludes opens streams, and wherever a watch is when
\* fallbackWorkspaceAgentWatcher hands the map over.  (Unless the fallback failed,
\* the watcher process exited, or what was to watch again for new exclusions could
\* not: no code repairs these.)
THEOREM HeldIsLive == Spec => []HeldWatchIsLive
<1>1. IInv /\ ServeInv => HeldWatchIsLive
  <2> SUFFICES ASSUME IInv, ServeInv, Settled, fpc \in {"none", "done"}, child # "dead",
                      dpc = "none", NEW w \in Watches, wpc[w] = "held",
                      w \notin (IF runtime = "agent" THEN refused ELSE lost)
               PROVE  OnAgent(w) # (w \in nodeWatches)
    BY DEF HeldWatchIsLive
  <2>1. HoldOf(w) /\ opens = {} /\ toNode = <<>> /\ starting = {} /\ answers = {}
        /\ NodeOf(w) /\ runtime \in {"agent", "fallback"}
    BY DEF ServeInv, HoldInv, NodeInv, Settled, IInv, StreamInv, AgentTypes
  <2>2. CASE runtime = "agent"
    <3>1. OnAgent(w)
      BY <2>1, <2>2 DEF HoldOf, Holding, OnItsWay
    <3>2. ~Handing
      BY <2>2 DEF IInv, ModeInv, Handing
    <3> QED BY <2>1, <3>1, <3>2 DEF NodeOf, AtNode
  <2>3. CASE runtime = "fallback"
    <3>1. ~OnAgent(w)
      BY <2>3 DEF OnAgent, Current
    <3>2. Serving
      BY <2>3 DEF ServeInv, ProcInv, Serving, Handing
    <3>3. Served(w)
      BY <3>2, <2>1 DEF HoldOf, Holding
    <3>4. w \in nodeWatches
      BY <2>1, <2>3, <3>3 DEF Served, AtNode, Sent, Replied
    <3> QED BY <3>1, <3>4
  <2> QED BY <2>1, <2>2, <2>3
<1> QED BY <1>1, ServeAlways, PTL

\* When nothing is under way, a watch whose unWatch() returned has no stream of the
\* Agent, and no watch of the watcher process either, unless the call came while the
\* fallback waited for the nodeWatchId that unWatch() needs, or a reset of that
\* process had given the watch another id than the one unWatch() passes.
THEOREM ReleasedIsGone == Spec => []UnwatchedIsGone
<1>1. IInv /\ ServeInv => UnwatchedIsGone
  <2> SUFFICES ASSUME IInv, ServeInv, Settled, NEW w \in Watches, wpc[w] = "gone"
               PROVE  /\ w \notin missed \cup renumbered => w \notin nodeWatches
                      /\ \A s \in subs : s.watch # w
    BY DEF UnwatchedIsGone
  <2>1. /\ w \notin tracked
        /\ w \notin missed \cup renumbered => w \notin nodeWatches
    BY DEF ServeInv, GoneInv, Absent, AtNode
  <2>2. \A s \in subs : s.watch \in tracked
    BY DEF IInv, StreamInv, StreamsAreOwned, Settled
  <2> QED BY <2>1, <2>2
<1> QED BY <1>1, ServeAlways, PTL

=============================================================================
