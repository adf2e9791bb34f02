------------------------ MODULE ExtensionHosts_proofs ------------------------
(* Proofs about ExtensionHosts, for every set of clients and every bound.    *)
EXTENDS ExtensionHosts, FiniteSetTheorems, TLAPS

-----------------------------------------------------------------------------
(* The inductive invariant.                                                 *)

\* The lock is held by the head of the queue; nobody waits in it twice, and
\* only the creation in progress is pending.
QueueInv ==
    /\ \A i, j \in DOMAIN queue : queue[i] = queue[j] => i = j
    /\ creator.stage # "idle" => queue # <<>>
    /\ \A c \in pending : Creating(c)

\* A disposal is about a process of its client, one that it kills or that does
\* not run; slot 0 is in use exactly when the creation awaits it.
SlotOK(i) ==
    /\ disposals[i].stage = "free" => disposals[i] = NoDisposal
    /\ disposals[i].stage # "free" =>
          /\ disposals[i].client \in Clients
          /\ disposals[i].pid \in Attempts
          /\ owner[disposals[i].pid] = disposals[i].client
          /\ host[disposals[i].pid] # "none"
          /\ disposals[i].then # "none"
          /\ i = 0 <=> OwnSlot(disposals[i].then)
          /\ ~disposals[i].kill => ~Alive(disposals[i].pid)
          /\ disposals[i].stage = "kill" => disposals[i].kill
          /\ disposals[i].then = "dead" => ~disposals[i].kill
          /\ disposals[i].then = "failed" => disposals[i].kill
          /\ disposals[i].then \in {"dead", "failed"} =>
                Creating(disposals[i].client)

SlotInv ==
    /\ \A i \in Slots : SlotOK(i)
    /\ creator.stage = "await" <=> disposals[0].stage # "free"

\* What the maps say of a process is about one of the client's processes.
EntryInv ==
    /\ \A c \in Clients : proc[c] # 0 =>
          owner[proc[c]] = c /\ host[proc[c]] # "none"
    /\ \A c \in Clients : server[c] # 0 =>
          \/ proc[c] = server[c]
          \/ /\ proc[c] = 0 /\ creator.stage = "fork"
             /\ Creating(c) /\ server[c] = creator.gen
    /\ \A c \in awaiting : server[c] # 0
    /\ \A g \in Attempts : host[g] # "none" => owner[g] \in Clients
    /\ \A g \in stopped : host[g] # "none"

\* The creation in progress has no process yet, and once there is room for its
\* process nobody takes it.
NoProcessYet ==
    \/ creator.stage \in {"admit", "listen", "fork"}
    \/ creator.stage = "await" /\ disposals[0].then = "reclaim"

CreatorInv ==
    /\ NoProcessYet => proc[Head(queue)] = 0
    /\ Cardinality(Tracked) <= MaxHosts
    /\ creator.stage \in {"listen", "fork"} => Cardinality(Tracked) < MaxHosts
    /\ creator.stage = "fork" =>
          /\ creator.gen \in Attempts /\ owner[creator.gen] = Head(queue)
          /\ host[creator.gen] = "none"
    /\ creator.stage = "verify" =>
          /\ creator.gen \in Attempts
          /\ Head(queue) \notin raced => proc[Head(queue)] = creator.gen

\* No disposal but its own meets a creation of a client that is not raced, and
\* a disposal meets no other process than the one it is about.
Undisturbed(c) ==
    /\ Creating(c) => \A i \in Slots : disposals[i].client = c => i = 0
    /\ \A i \in Slots : disposals[i].client = c =>
          /\ proc[c] \in {0, disposals[i].pid}
          /\ disposals[i].stage = "kill" => proc[c] = 0
          /\ disposals[i].then \in {"timer", "reclaim"} => c \notin channel
          /\ disposals[i].then = "request" /\ c \in channel => c \in aware
    /\ proc[c] \in stopped => Disposing(c)

\* A client that has left while it waits for a host carries the mark.
Marked(c) == InQueue(c) /\ c \notin connected => c \in zombies

\* The host of a client that has left is looked after.
LookedAfter(c) ==
    Alive(proc[c]) /\ c \notin connected =>
        c \in timers \/ Disposing(c) \/ Creating(c)

\* A client with an open channel and no living host is on its way to one, or to
\* learn that it has none.
Coming(c) ==
    \/ InQueue(c) \/ Disposing(c) \/ waits[c] # {} \/ c \in awaiting
    \/ proc[c] # 0 /\ host[proc[c]] = "dead"
Served(c) == c \in channel => Alive(proc[c]) \/ c \in aware \/ Coming(c)

\* A living process is in the map, or about to be killed.
Owned(g) ==
    Alive(g) /\ owner[g] \notin raced =>
        \/ proc[owner[g]] = g
        \/ \E i \in Slots : disposals[i].pid = g /\ disposals[i].kill

ClientInv ==
    \A c \in Clients \ raced :
        Undisturbed(c) /\ Marked(c) /\ LookedAfter(c) /\ Served(c)

IInv ==
    /\ TypeOK /\ QueueInv /\ SlotInv /\ EntryInv /\ CreatorInv /\ ClientInv
    /\ \A g \in Attempts : Owned(g)

-----------------------------------------------------------------------------
(* What the operations have in common: the facts the steps below rest on.   *)

Stages == {"idle", "await", "admit", "listen", "fork", "verify"}
Kinds == {"timer", "request", "crash", "timeout", "late", "dead", "reclaim",
          "failed"}
CreatorType == [stage : Stages, gen : Refs, visited : SUBSET Clients]
DisposalType ==
    [client : Clients \cup {NoClient}, pid : Refs, kill : BOOLEAN,
     stage : {"free", "shutdown", "kill"}, then : Kinds \cup {"none"}]
HostStates == {"none", "starting", "ready", "dead", "gone"}
Disposal(c, pid, kill, then) ==
    [client |-> c, pid |-> pid, kill |-> kill, stage |-> "shutdown",
     then |-> then]

LEMMA Numbers ==
    /\ MaxHosts \in Nat \ {0} /\ MaxAttempts \in Nat /\ MaxDisposals \in Nat \ {0}
    /\ 0 \notin Attempts /\ 0 \in Slots /\ Attempts \subseteq Nat
    /\ Slots \subseteq Nat /\ Refs = Attempts \cup {0}
BY BoundsAssumption DEF Attempts, Slots, Refs

LEMMA TypeOf ==
    ASSUME TypeOK
    PROVE  /\ creator \in CreatorType /\ creator.stage \in Stages
           /\ creator.gen \in Refs
           /\ disposals \in [Slots -> DisposalType]
           /\ \A i \in Slots : disposals[i] \in DisposalType
           /\ host \in [Attempts -> HostStates]
           /\ owner \in [Attempts -> Clients \cup {NoClient}]
           /\ proc \in [Clients -> Refs] /\ server \in [Clients -> Refs]
           /\ waits \in [Clients -> SUBSET Attempts]
           /\ queue \in Seq(Clients)
BY DEF TypeOK, CreatorType, Stages, DisposalType, Kinds, HostStates

LEMMA TypeNext ==
    ASSUME /\ channel' \subseteq connected' \cap opened'
           /\ connected' \subseteq Clients /\ opened' \subseteq Clients
           /\ aware' \subseteq connected' /\ restarting' \subseteq connected',
           /\ awaiting' \subseteq Clients /\ linked' \subseteq Clients
           /\ zombies' \subseteq Clients /\ timers' \subseteq Clients
           /\ pending' \subseteq Clients /\ raced' \subseteq Clients,
           /\ proc' \in [Clients -> Refs] /\ server' \in [Clients -> Refs],
           /\ stopped' \subseteq Attempts /\ initDone' \subseteq Attempts,
           /\ waits' \in [Clients -> SUBSET Attempts]
           /\ queue' \in Seq(Clients),
           creator' \in CreatorType, disposals' \in [Slots -> DisposalType],
           /\ owner' \in [Attempts -> Clients \cup {NoClient}]
           /\ host' \in [Attempts -> HostStates]
    PROVE  TypeOK'
BY DEF TypeOK, CreatorType, Stages, DisposalType, Kinds, HostStates

LEMMA HeadFacts ==
    ASSUME TypeOK, queue # <<>>
    PROVE  /\ Head(queue) \in Clients /\ InQueue(Head(queue))
           /\ Len(queue) > 0
<1>1. queue \in Seq(Clients)
  BY TypeOf
<1>2. Len(queue) > 0 /\ 1 \in DOMAIN queue /\ Head(queue) = queue[1]
  BY <1>1
<1> QED BY <1>1, <1>2 DEF InQueue

LEMMA CreatingFacts ==
    ASSUME TypeOK
    PROVE  /\ ~Creating(NoClient)
           /\ \A c : Creating(c) =>
                /\ queue # <<>> /\ c = Head(queue) /\ c \in Clients
                /\ InQueue(c) /\ creator.stage # "idle"
           /\ queue # <<>> /\ creator.stage # "idle" => Creating(Head(queue))
<1>1. queue \in Seq(Clients)
  BY TypeOf
<1>2. Len(queue) > 0 <=> queue # <<>>
  BY <1>1
<1> QED BY <1>2, HeadFacts, ClientsAssumption DEF Creating

(* One client leaves the queue.                                              *)
LEMMA QueueTail ==
    ASSUME TypeOK, QueueInv, queue # <<>>, queue' = Tail(queue)
    PROVE  /\ queue' \in Seq(Clients)
           /\ \A c : InQueue(c)' <=> InQueue(c) /\ c # Head(queue)
           /\ \A i, j \in DOMAIN queue' : queue'[i] = queue'[j] => i = j
<1>1. /\ queue \in Seq(Clients) /\ Len(queue) \in Nat \ {0}
      /\ DOMAIN queue = 1..Len(queue) /\ Head(queue) = queue[1]
  BY TypeOf
<1>2. /\ queue' \in Seq(Clients) /\ DOMAIN queue' = 1..(Len(queue) - 1)
      /\ \A i \in 1..(Len(queue) - 1) : queue'[i] = queue[i + 1]
  BY <1>1
<1>3. \A i, j \in 1..Len(queue) : queue[i] = queue[j] => i = j
  BY <1>1 DEF QueueInv
<1>4. \A i, j \in DOMAIN queue' : queue'[i] = queue'[j] => i = j
  <2>1. ASSUME NEW i \in DOMAIN queue', NEW j \in DOMAIN queue',
               queue'[i] = queue'[j]
        PROVE  i = j
    <3>1. i + 1 \in 1..Len(queue) /\ j + 1 \in 1..Len(queue)
      BY <1>1, <1>2
    <3>2. queue[i + 1] = queue[j + 1]
      BY <1>2, <2>1
    <3>3. i + 1 = j + 1
      BY <1>3, <3>1, <3>2
    <3> QED BY <1>1, <1>2, <3>3
  <2> QED BY <2>1
<1>5. ASSUME NEW c PROVE InQueue(c)' <=> InQueue(c) /\ c # Head(queue)
  <2>1. ASSUME NEW i \in DOMAIN queue', queue'[i] = c
        PROVE  InQueue(c) /\ c # Head(queue)
    <3>1. i + 1 \in 1..Len(queue) /\ i + 1 # 1 /\ queue[i + 1] = c
      BY <1>1, <1>2, <2>1
    <3>2. c # queue[1]
      BY <1>1, <1>3, <3>1
    <3> QED BY <1>1, <3>1, <3>2 DEF InQueue
  <2>2. ASSUME NEW i \in DOMAIN queue, queue[i] = c, c # Head(queue)
        PROVE  \E k \in DOMAIN queue' : queue'[k] = c
    <3>1. i # 1 /\ i \in 1..Len(queue)
      BY <1>1, <2>2
    <3>2. i - 1 \in 1..(Len(queue) - 1) /\ (i - 1) + 1 = i
      BY <1>1, <3>1
    <3>3. queue'[i - 1] = queue[i]
      BY <1>2, <3>2
    <3> QED BY <1>2, <2>2, <3>2, <3>3
  <2> QED BY <2>1, <2>2 DEF InQueue
<1> QED BY <1>2, <1>4, <1>5

(* One client joins it.                                                      *)
LEMMA QueueAppend ==
    ASSUME TypeOK, QueueInv, NEW c \in Clients, ~InQueue(c),
           queue' = Append(queue, c)
    PROVE  /\ queue' \in Seq(Clients) /\ queue' # <<>>
           /\ \A d : InQueue(d)' <=> InQueue(d) \/ d = c
           /\ \A i, j \in DOMAIN queue' : queue'[i] = queue'[j] => i = j
           /\ queue # <<>> => Head(queue') = Head(queue)
<1>1. /\ queue \in Seq(Clients) /\ Len(queue) \in Nat
      /\ DOMAIN queue = 1..Len(queue)
  BY TypeOf
<1>2. /\ queue' \in Seq(Clients) /\ DOMAIN queue' = 1..(Len(queue) + 1)
      /\ \A i \in 1..Len(queue) : queue'[i] = queue[i]
      /\ queue'[Len(queue) + 1] = c /\ queue' # <<>>
  BY <1>1
<1>3. \A i, j \in 1..Len(queue) : queue[i] = queue[j] => i = j
  BY <1>1 DEF QueueInv
<1>4. \A i \in 1..Len(queue) : queue[i] # c
  BY <1>1 DEF InQueue
<1>5. \A i, j \in DOMAIN queue' : queue'[i] = queue'[j] => i = j
  <2>1. \A i \in DOMAIN queue' : i \in 1..Len(queue) \/ i = Len(queue) + 1
    BY <1>1, <1>2
  <2> QED BY <1>1, <1>2, <1>3, <1>4, <2>1
<1>6. \A d : InQueue(d)' <=> InQueue(d) \/ d = c
  <2>1. \A i : i \in DOMAIN queue' <=> i \in DOMAIN queue \/ i = Len(queue) + 1
    BY <1>1, <1>2
  <2> QED BY <1>1, <1>2, <2>1 DEF InQueue
<1>7. queue # <<>> => Head(queue') = Head(queue)
  BY <1>1, <1>2
<1> QED BY <1>2, <1>5, <1>6, <1>7

(* The creation ends: its client leaves the queue.                           *)
LEMMA CreationEnds ==
    ASSUME TypeOK, QueueInv, NEW c, Creating(c) \/ (queue # <<>> /\ c = Head(queue)),
           EndCreation
    PROVE  /\ queue' = Tail(queue) /\ queue' \in Seq(Clients)
           /\ creator' = Idle /\ creator'.stage = "idle" /\ pending' = {}
           /\ \A d : InQueue(d)' <=> InQueue(d) /\ d # c
           /\ \A i, j \in DOMAIN queue' : queue'[i] = queue'[j] => i = j
           /\ \A d : ~Creating(d)'
           /\ c = Head(queue) /\ c \in Clients /\ queue # <<>>
<1>1. queue # <<>> /\ c = Head(queue) /\ c \in Clients
  BY CreatingFacts, HeadFacts
<1>2. /\ queue' = Tail(queue) /\ creator' = Idle /\ creator'.stage = "idle"
      /\ pending' = pending \ {Head(queue)}
  BY DEF EndCreation, Idle
<1>3. pending' = {}
  BY <1>2, CreatingFacts DEF QueueInv
<1>4. \A d : ~Creating(d)'
  BY <1>2 DEF Creating
<1> QED BY <1>1, <1>2, <1>3, <1>4, QueueTail

(* A disposal that finds no process ends at once.                            *)
Now(c, then) ==
    /\ proc[c] = 0 /\ proc' = proc /\ disposals' = disposals
    /\ stopped' = stopped /\ zombies' = zombies \ {c}
    /\ timers' = timers \ {c}
    /\ server' = [server EXCEPT ![c] = 0] /\ linked' = linked \ {c}
    /\ awaiting' = awaiting \ {c} /\ initDone' = initDone \ {0}
    /\ raced' = (IF Race(c, then) THEN raced \cup {c} ELSE raced)

(* A disposal that finds one takes a free slot and awaits the shutdown.      *)
Later(c, kill, then, i) ==
    /\ proc[c] # 0 /\ i \in Slots /\ disposals[i].stage = "free"
    /\ i = 0 <=> OwnSlot(then)
    /\ disposals' = [disposals EXCEPT ![i] = Disposal(c, proc[c], kill, then)]
    /\ stopped \subseteq stopped'
    /\ stopped' \subseteq stopped \cup {proc[c]}
    /\ timers' = timers \ {c}
    /\ UNCHANGED <<entries, zombies>>
    /\ raced' = (IF Race(c, then) THEN raced \cup {c} ELSE raced)

LEMMA DisposeFacts ==
    ASSUME TypeOK, NEW c \in Clients, NEW kill, NEW then,
           BeginDispose(c, kill, then)
    PROVE  Now(c, then) \/ \E i \in Slots : Later(c, kill, then, i)
<1>1. proc \in [Clients -> Refs]
  BY TypeOf
<1>2. CASE proc[c] = 0
  <2>1. proc' = [proc EXCEPT ![c] = 0]
    BY <1>2 DEF BeginDispose, DeleteEntries
  <2>2. proc' = proc
    BY <1>1, <1>2, <2>1
  <2> QED BY <1>2, <2>2 DEF Now, BeginDispose, DeleteEntries, Forget, RacedIf
<1>3. CASE proc[c] # 0
  <2>1. PICK i \in Slots :
          /\ Free(i, then)
          /\ disposals' = [disposals EXCEPT ![i] = Disposal(c, proc[c], kill, then)]
    BY <1>3 DEF BeginDispose, Disposal
  <2>2. stopped \subseteq stopped' /\ stopped' \subseteq stopped \cup {proc[c]}
    BY <1>3 DEF BeginDispose
  <2>3. UNCHANGED <<entries, zombies>> /\ timers' = timers \ {c}
        /\ raced' = (IF Race(c, then) THEN raced \cup {c} ELSE raced)
    BY <1>3 DEF BeginDispose, RacedIf
  <2> QED BY <1>3, <2>1, <2>2, <2>3 DEF Later, Free
<1> QED BY <1>2, <1>3

(* A disposal without a process changes nothing but the client's entries.    *)
LEMMA NowTypes ==
    ASSUME TypeOK, NEW c \in Clients, NEW then, Now(c, then)
    PROVE  /\ awaiting' \subseteq Clients /\ linked' \subseteq Clients
           /\ zombies' \subseteq Clients /\ timers' \subseteq Clients
           /\ raced' \subseteq Clients
           /\ proc' \in [Clients -> Refs] /\ server' \in [Clients -> Refs]
           /\ stopped' \subseteq Attempts /\ initDone' \subseteq Attempts
           /\ disposals' \in [Slots -> DisposalType]
<1>1. 0 \in Refs
  BY Numbers
<1> QED BY <1>1, TypeOf DEF Now, TypeOK

LEMMA LaterTypes ==
    ASSUME TypeOK, NEW c \in Clients, NEW kill \in BOOLEAN, NEW then \in Kinds,
           NEW i \in Slots, Later(c, kill, then, i)
    PROVE  /\ awaiting' \subseteq Clients /\ linked' \subseteq Clients
           /\ zombies' \subseteq Clients /\ timers' \subseteq Clients
           /\ raced' \subseteq Clients
           /\ proc' \in [Clients -> Refs] /\ server' \in [Clients -> Refs]
           /\ stopped' \subseteq Attempts /\ initDone' \subseteq Attempts
           /\ disposals' \in [Slots -> DisposalType]
<1>1. proc[c] \in Attempts
  BY TypeOf, Numbers DEF Later
<1>2. Disposal(c, proc[c], kill, then) \in DisposalType
  BY <1>1, Numbers DEF Disposal, DisposalType
<1>3. disposals' \in [Slots -> DisposalType]
  BY <1>2, TypeOf DEF Later
<1>4. stopped' \subseteq Attempts
  BY <1>1 DEF Later, TypeOK
<1> QED BY <1>3, <1>4, TypeOf DEF Later, TypeOK, entries

LEMMA DisposeTypes ==
    ASSUME TypeOK, NEW c \in Clients, NEW kill \in BOOLEAN, NEW then \in Kinds,
           BeginDispose(c, kill, then)
    PROVE  /\ awaiting' \subseteq Clients /\ linked' \subseteq Clients
           /\ zombies' \subseteq Clients /\ timers' \subseteq Clients
           /\ raced' \subseteq Clients
           /\ proc' \in [Clients -> Refs] /\ server' \in [Clients -> Refs]
           /\ stopped' \subseteq Attempts /\ initDone' \subseteq Attempts
           /\ disposals' \in [Slots -> DisposalType]
BY DisposeFacts, NowTypes, LaterTypes


(* A disposal ends, and its caller goes on.                                  *)
Freed(i) == disposals' = [disposals EXCEPT ![i] = NoDisposal]
After(d) ==
    /\ d.then \in {"timer", "request"} => UNCHANGED <<aware, creation>>
    /\ d.then \in {"crash", "timeout", "late"} =>
          Told(d.client) /\ UNCHANGED creation
    /\ d.then = "dead" =>
          /\ ToStage("admit") /\ pending' = pending \cup {Head(queue)}
          /\ UNCHANGED <<aware, queue, owner>>
    /\ d.then = "reclaim" =>
          ToStage("admit") /\ UNCHANGED <<aware, queue, pending, owner>>
    /\ d.then = "failed" => EndCreation /\ Told(d.client) /\ UNCHANGED owner

LEMMA ReturnFacts ==
    ASSUME NEW i, Return(i), disposals[i].then \in Kinds
    PROVE  /\ Freed(i)
           /\ zombies' = zombies \ {disposals[i].client}
           /\ raced' = (IF Erased(disposals[i].client, disposals[i].then)
                        THEN raced \cup {disposals[i].client} ELSE raced)
           /\ After(disposals[i])
<1> DEFINE d == disposals[i]
<1>1. Freed(i)
  BY DEF Return, Freed
<1>2. zombies' = zombies \ {d.client}
  BY DEF Return, Forget
<1>3. raced' = (IF Erased(d.client, d.then) THEN raced \cup {d.client} ELSE raced)
  BY DEF Return, RacedIf
<1>4. (CASE d.then \in {"timer", "request"} -> UNCHANGED <<aware, creation>>
        [] d.then \in {"crash", "timeout", "late"} ->
              Told(d.client) /\ UNCHANGED creation
        [] d.then = "dead" ->
              /\ ToStage("admit")
              /\ pending' = pending \cup {Head(queue)}
              /\ UNCHANGED <<aware, queue, owner>>
        [] d.then = "reclaim" ->
              ToStage("admit") /\ UNCHANGED <<aware, queue, pending, owner>>
        [] d.then = "failed" ->
              EndCreation /\ Told(d.client) /\ UNCHANGED owner)
  BY DEF Return
<1>5. d.then \in Kinds
  OBVIOUS
<1> HIDE DEF d
<1>6. ASSUME d.then \in {"timer", "request"} PROVE After(d)
  BY <1>4, <1>6 DEF After
<1>7. ASSUME d.then \in {"crash", "timeout", "late"} PROVE After(d)
  BY <1>4, <1>7 DEF After
<1>8. ASSUME d.then \in {"dead", "reclaim", "failed"} PROVE After(d)
  BY <1>4, <1>8 DEF After
<1>9. After(d)
  BY <1>5, <1>6, <1>7, <1>8 DEF Kinds
<1> QED BY <1>1, <1>2, <1>3, <1>9 DEF d

LEMMA ToldTypes ==
    ASSUME TypeOK, NEW c \in Clients, Told(c)
    PROVE  /\ aware' \subseteq connected /\ aware \subseteq aware'
           /\ c \in connected => c \in aware'
           /\ \A d : d # c => (d \in aware' <=> d \in aware)
BY DEF Told, TypeOK

LEMMA StageTypes ==
    ASSUME TypeOK, NEW s \in Stages, ToStage(s)
    PROVE  /\ creator' \in CreatorType /\ creator'.stage = s
           /\ creator'.gen = creator.gen
BY TypeOf DEF ToStage, CreatorType

LEMMA IdleType == Idle \in CreatorType
BY Numbers DEF Idle, CreatorType, Stages

LEMMA FreeType == NoDisposal \in DisposalType
BY Numbers DEF NoDisposal, DisposalType

LEMMA EndTypes ==
    ASSUME TypeOK, queue # <<>>, EndCreation
    PROVE  /\ creator' \in CreatorType /\ creator'.stage = "idle"
           /\ queue' \in Seq(Clients) /\ pending' \subseteq Clients
<1>1. queue \in Seq(Clients) /\ pending \subseteq Clients
  BY DEF TypeOK
<1> QED BY <1>1, IdleType DEF EndCreation, Idle

(* What a slot in use holds.                                                 *)
LEMMA SlotFacts ==
    ASSUME TypeOK, QueueInv, SlotInv, NEW i \in Slots, disposals[i].stage # "free"
    PROVE  /\ disposals[i].client \in Clients /\ disposals[i].pid \in Attempts
           /\ disposals[i].then \in Kinds /\ disposals[i].kill \in BOOLEAN
           /\ owner[disposals[i].pid] = disposals[i].client
           /\ host[disposals[i].pid] # "none"
           /\ i = 0 <=> OwnSlot(disposals[i].then)
           /\ ~disposals[i].kill => ~Alive(disposals[i].pid)
           /\ disposals[i].stage = "kill" => disposals[i].kill
           /\ disposals[i].then = "dead" => ~disposals[i].kill
           /\ disposals[i].then = "failed" => disposals[i].kill
           /\ disposals[i].then \in {"dead", "failed"} =>
                 Creating(disposals[i].client)
           /\ i = 0 => creator.stage = "await" /\ queue # <<>>
<1>1. disposals[i].then \in Kinds /\ disposals[i].kill \in BOOLEAN
  BY TypeOf DEF SlotInv, SlotOK, DisposalType
<1>2. i = 0 => creator.stage = "await" /\ queue # <<>>
  BY DEF SlotInv, QueueInv
<1> QED BY <1>1, <1>2 DEF SlotInv, SlotOK

LEMMA FreeFacts ==
    ASSUME TypeOK, SlotInv, NEW i \in Slots
    PROVE  /\ disposals[i].stage = "free" =>
                /\ disposals[i].client = NoClient /\ disposals[i].pid = 0
                /\ disposals[i].kill = FALSE /\ disposals[i].then = "none"
           /\ disposals[i].client \in Clients => disposals[i].stage # "free"
BY ClientsAssumption DEF SlotInv, SlotOK, NoDisposal

LEMMA ReturnTypes ==
    ASSUME TypeOK, QueueInv, SlotInv, NEW i \in Slots,
           disposals[i].stage # "free", Return(i)
    PROVE  /\ aware' \subseteq connected /\ aware \subseteq aware'
           /\ zombies' \subseteq Clients /\ raced' \subseteq Clients
           /\ pending' \subseteq Clients /\ queue' \in Seq(Clients)
           /\ creator' \in CreatorType
           /\ disposals' \in [Slots -> DisposalType]
           /\ owner' = owner
<1> DEFINE d == disposals[i]
<1>1. d.client \in Clients /\ d.then \in Kinds
  BY SlotFacts
<1>2. /\ Freed(i) /\ zombies' = zombies \ {d.client} /\ After(d)
      /\ raced' = (IF Erased(d.client, d.then) THEN raced \cup {d.client} ELSE raced)
  BY <1>1, ReturnFacts
<1>3. disposals' \in [Slots -> DisposalType]
  BY <1>2, TypeOf, FreeType DEF Freed
<1>4. zombies' \subseteq Clients /\ raced' \subseteq Clients
  BY <1>1, <1>2 DEF TypeOK
<1>5. OwnSlot(d.then) => queue # <<>>
  BY SlotFacts
<1> HIDE DEF d
<1>6. CASE d.then \in {"timer", "request"}
  BY <1>2, <1>3, <1>4, <1>6, TypeOf DEF After, creation, TypeOK
<1>7. CASE d.then \in {"crash", "timeout", "late"}
  BY <1>1, <1>2, <1>3, <1>4, <1>7, TypeOf, ToldTypes DEF After, creation, TypeOK
<1>8. CASE d.then = "dead"
  <2>1. queue # <<>> /\ Head(queue) \in Clients
    BY <1>5, <1>8, HeadFacts DEF OwnSlot
  <2>2. ToStage("admit") /\ pending' = pending \cup {Head(queue)}
        /\ UNCHANGED <<aware, queue, owner>>
    BY <1>2, <1>8 DEF After
  <2>3. creator' \in CreatorType
    BY <2>2, StageTypes DEF Stages
  <2> QED BY <1>3, <1>4, <2>1, <2>2, <2>3, TypeOf DEF TypeOK
<1>9. CASE d.then = "reclaim"
  <2>2. ToStage("admit") /\ UNCHANGED <<aware, queue, pending, owner>>
    BY <1>2, <1>9 DEF After
  <2>3. creator' \in CreatorType
    BY <2>2, StageTypes DEF Stages
  <2> QED BY <1>3, <1>4, <2>2, <2>3, TypeOf DEF TypeOK
<1>10. CASE d.then = "failed"
  <2>1. queue # <<>>
    BY <1>5, <1>10 DEF OwnSlot
  <2>2. EndCreation /\ Told(d.client) /\ owner' = owner
    BY <1>2, <1>10 DEF After
  <2> QED BY <1>1, <1>3, <1>4, <2>1, <2>2, EndTypes, ToldTypes DEF TypeOK
<1> QED BY <1>1, <1>6, <1>7, <1>8, <1>9, <1>10 DEF Kinds

LEMMA DeleteTypes ==
    ASSUME TypeOK, NEW c \in Clients, DeleteEntries(c)
    PROVE  /\ awaiting' \subseteq Clients /\ linked' \subseteq Clients
           /\ proc' \in [Clients -> Refs] /\ server' \in [Clients -> Refs]
           /\ initDone' \subseteq Attempts
<1>1. 0 \in Refs
  BY Numbers
<1> QED BY <1>1, TypeOf DEF DeleteEntries, TypeOK

(* The creation of a client that has no process yet fails at once.           *)
LEMMA FailFacts ==
    ASSUME TypeOK, NEW c, Creating(c), Fail(c)
    PROVE  /\ Now(c, "failed") \/ \E i \in Slots : Later(c, TRUE, "failed", i)
           /\ proc[c] = 0 => Now(c, "failed") /\ EndCreation /\ Told(c)
           /\ proc[c] # 0 =>
                /\ \E i \in Slots : Later(c, TRUE, "failed", i)
                /\ ToStage("await") /\ UNCHANGED <<queue, pending, aware>>
<1>1. c \in Clients /\ BeginDispose(c, TRUE, "failed")
  BY CreatingFacts DEF Fail
<1>2. Now(c, "failed") \/ \E i \in Slots : Later(c, TRUE, "failed", i)
  BY <1>1, DisposeFacts
<1> QED BY <1>2 DEF Fail, Now, Later

LEMMA FailTypes ==
    ASSUME TypeOK, NEW c, Creating(c), Fail(c)
    PROVE  /\ awaiting' \subseteq Clients /\ linked' \subseteq Clients
           /\ zombies' \subseteq Clients /\ timers' \subseteq Clients
           /\ raced' \subseteq Clients
           /\ proc' \in [Clients -> Refs] /\ server' \in [Clients -> Refs]
           /\ stopped' \subseteq Attempts /\ initDone' \subseteq Attempts
           /\ disposals' \in [Slots -> DisposalType]
           /\ aware' \subseteq connected /\ pending' \subseteq Clients
           /\ queue' \in Seq(Clients) /\ creator' \in CreatorType
<1>1. c \in Clients /\ queue # <<>>
  BY CreatingFacts
<1>2. CASE proc[c] = 0
  BY <1>1, <1>2, FailFacts, NowTypes, EndTypes, ToldTypes
<1>3. CASE proc[c] # 0
  <2>1. /\ \E i \in Slots : Later(c, TRUE, "failed", i)
        /\ ToStage("await") /\ UNCHANGED <<queue, pending, aware>>
    BY <1>3, FailFacts
  <2>2. creator' \in CreatorType
    BY <2>1, StageTypes DEF Stages
  <2> QED BY <1>1, <2>1, <2>2, LaterTypes DEF TypeOK, Kinds
<1> QED BY <1>2, <1>3


(* A host that connects is the process the map has for its client.          *)
LEMMA LinkedHost ==
    ASSUME TypeOK, EntryInv, CreatorInv, NEW g \in Attempts,
           host[g] = "starting", server[owner[g]] = g
    PROVE  owner[g] \in Clients /\ proc[owner[g]] = g
<1>1. owner[g] \in Clients /\ g # 0
  BY Numbers DEF EntryInv
<1>2. proc[owner[g]] = g \/ (creator.stage = "fork" /\ g = creator.gen)
  BY <1>1 DEF EntryInv
<1>3. ~(creator.stage = "fork" /\ g = creator.gen)
  BY DEF CreatorInv
<1> QED BY <1>1, <1>2, <1>3

-----------------------------------------------------------------------------
(* The types of the state.                                                  *)

LEMMA TypeInit == Init => TypeOK
<1> SUFFICES ASSUME Init PROVE TypeOK
  OBVIOUS
<1>1. creator \in CreatorType
  BY IdleType DEF Init
<1>2. disposals \in [Slots -> DisposalType]
  BY FreeType DEF Init
<1>3. proc \in [Clients -> Refs] /\ server \in [Clients -> Refs]
  BY Numbers DEF Init
<1>4. /\ waits \in [Clients -> SUBSET Attempts] /\ queue \in Seq(Clients)
      /\ owner \in [Attempts -> Clients \cup {NoClient}]
      /\ host \in [Attempts -> HostStates]
  BY DEF Init, HostStates
<1> QED
  BY <1>1, <1>2, <1>3, <1>4
     DEF Init, TypeOK, CreatorType, Stages, DisposalType, Kinds, HostStates

LEMMA TypeBrowser ==
    ASSUME TypeOK, NEW c \in Clients, Browser(c)
    PROVE  TypeOK'
<1>0. /\ creator \in CreatorType /\ disposals \in [Slots -> DisposalType]
      /\ host \in [Attempts -> HostStates]
  BY TypeOf
<1>1. CASE Connect(c)
  BY <1>0, <1>1
     DEF Connect, Overlap, RacedIf, creation, entries, TypeOK, CreatorType,
         Stages, DisposalType, Kinds, HostStates
<1>2. CASE Disconnect(c)
  <2>1. /\ UNCHANGED <<opened, creation, entries, stopped, waits, disposals, host>>
        /\ connected' = connected \ {c} /\ channel' = channel \ {c}
        /\ restarting' = restarting \ {c} /\ aware' = aware \ {c}
        /\ zombies' \subseteq zombies \cup {c}
        /\ timers' \subseteq timers \cup {c} /\ raced' \subseteq raced \cup {c}
    BY <1>2 DEF Disconnect, Armed, RacedIf
  <2> QED BY <2>1, TypeNext, TypeOf DEF TypeOK, creation, entries
<1>3. CASE OpenChannel(c)
  <2>1. /\ UNCHANGED <<connected, restarting, creation, proc, server, linked,
                       initDone, stopped, waits, disposals, host>>
        /\ c \in connected /\ channel' = channel \cup {c}
        /\ opened' = opened \cup {c} /\ zombies' = zombies \ {c}
        /\ aware' \subseteq aware \cup {c} /\ awaiting' \subseteq awaiting \cup {c}
        /\ timers' \subseteq timers \cup {c} /\ raced' \subseteq raced \cup {c}
    BY <1>3 DEF OpenChannel, Armed, RacedIf, Overlap, Told
  <2>2. aware \subseteq aware' /\ awaiting \subseteq awaiting'
    BY <1>3 DEF OpenChannel, Told
  <2> QED BY <2>1, <2>2, TypeNext, TypeOf DEF TypeOK, creation
<1>4. CASE RequestHost(c)
  <2>1. /\ UNCHANGED <<connected, channel, opened, zombies, timers, pending,
                       creator, owner, entries, stopped, waits, disposals, host,
                       raced>>
        /\ queue' = Append(queue, c) /\ aware' = aware \ {c}
        /\ restarting' = restarting \ {c}
    BY <1>4 DEF RequestHost
  <2>2. queue' \in Seq(Clients)
    BY <2>1, TypeOf
  <2> QED BY <2>1, <2>2, TypeNext, TypeOf DEF TypeOK, entries
<1>5. CASE RequestDispose(c)
  <2>1. /\ c \in connected /\ aware' = aware \cup {c}
        /\ restarting' = restarting \cup {c} /\ BeginDispose(c, TRUE, "request")
        /\ UNCHANGED <<connected, channel, opened, creation, waits, host>>
    BY <1>5 DEF RequestDispose
  <2> QED BY <2>1, DisposeTypes, TypeNext, TypeOf DEF TypeOK, creation, Kinds
<1> QED BY <1>1, <1>2, <1>3, <1>4, <1>5 DEF Browser

LEMMA TypeCreation ==
    ASSUME TypeOK, QueueInv, NEW c \in Clients, Creation(c)
    PROVE  TypeOK'
<1>a. ASSUME UNCHANGED <<browsers, waits>>,
             BeginDispose(c, TRUE, "failed") \/ TRUE
      PROVE  /\ UNCHANGED <<connected, channel, opened, restarting, waits>>
             /\ waits' \in [Clients -> SUBSET Attempts]
  BY <1>a, TypeOf DEF browsers
<1>1. CASE Begin(c)
  <2>1. /\ Len(queue) > 0 /\ Head(queue) = c /\ creator.stage = "idle"
        /\ UNCHANGED <<connected, channel, opened, restarting, aware, owner, host>>
    BY <1>1 DEF Begin, browsers
  <2>q. queue # <<>>
    BY <2>1, TypeOf
  <2>2. CASE proc[c] = 0
    <3>1. /\ ToStage("admit") /\ pending' = pending \cup {c}
          /\ raced' \subseteq raced \cup {c}
          /\ UNCHANGED <<queue, zombies, timers, stopped, entries, waits, disposals>>
      BY <1>1, <2>2, Numbers DEF Begin, Alive, Overlap, RacedIf
    <3>2. creator' \in CreatorType
      BY <3>1, StageTypes DEF Stages
    <3> QED BY <2>1, <3>1, <3>2, TypeNext, TypeOf DEF TypeOK, entries
  <2>3. CASE Alive(proc[c])
    <3>1. /\ EndCreation /\ AwaitReady(c) /\ raced' \subseteq raced \cup {c}
          /\ UNCHANGED <<zombies, timers, stopped, entries, disposals>>
      BY <1>1, <2>3 DEF Begin, Alive, Overlap, RacedIf
    <3>2. waits' \in [Clients -> SUBSET Attempts]
      BY <3>1, TypeOf, Numbers DEF AwaitReady
    <3>3. /\ creator' \in CreatorType /\ queue' \in Seq(Clients)
          /\ pending' \subseteq Clients
      BY <2>q, <3>1, EndTypes
    <3> QED BY <2>1, <3>1, <3>2, <3>3, TypeNext, TypeOf DEF TypeOK, entries
  <2>4. CASE proc[c] # 0 /\ ~Alive(proc[c])
    <3>1. /\ BeginDispose(c, FALSE, "dead") /\ ToStage("await")
          /\ UNCHANGED <<queue, pending, waits>>
      BY <1>1, <2>4 DEF Begin
    <3>2. creator' \in CreatorType
      BY <3>1, StageTypes DEF Stages
    <3> QED BY <2>1, <3>1, <3>2, DisposeTypes, TypeNext, TypeOf DEF TypeOK, Kinds
  <2> QED BY <2>2, <2>3, <2>4
<1>2. CASE Admit(c)
  <2>1. /\ Creating(c)
        /\ UNCHANGED <<connected, channel, opened, restarting, owner, waits, host>>
    BY <1>2 DEF Admit, browsers
  <2>2. CASE HasRoom
    <3>1. /\ ToStage("listen")
          /\ UNCHANGED <<aware, queue, pending, zombies, timers, entries,
                         stopped, disposals, raced>>
      BY <1>2, <2>2 DEF Admit
    <3>2. creator' \in CreatorType
      BY <3>1, StageTypes DEF Stages
    <3> QED BY <2>1, <3>1, <3>2, TypeNext, TypeOf DEF TypeOK, entries
  <2>3. ASSUME NEW d \in Tracked \ creator.visited,
               BeginDispose(d, Disconnected(d), "reclaim"),
               creator' = [creator EXCEPT !.stage = "await",
                                          !.visited = @ \cup {d}],
               UNCHANGED <<aware, queue, pending>>
        PROVE  TypeOK'
    <3>1. d \in Clients /\ Disconnected(d) \in BOOLEAN
      BY DEF Tracked, Disconnected
    <3>2. creator' \in CreatorType
      BY <2>3, <3>1, TypeOf DEF CreatorType, Stages
    <3> QED
      BY <2>1, <2>3, <3>1, <3>2, DisposeTypes, TypeNext, TypeOf DEF TypeOK, Kinds
  <2>4. CASE Fail(c)
    BY <2>1, <2>4, FailTypes, TypeNext, TypeOf DEF TypeOK
  <2> QED BY <1>2, <2>2, <2>3, <2>4 DEF Admit
<1>3. CASE Listen(c)
  <2>1. PICK g \in Attempts \ Used :
          /\ owner' = [owner EXCEPT ![g] = c]
          /\ \/ /\ server' = [server EXCEPT ![c] = g]
                /\ creator' = [creator EXCEPT !.stage = "fork", !.gen = g]
                /\ UNCHANGED <<aware, queue, pending, zombies, timers, proc,
                               linked, awaiting, initDone, stopped, disposals,
                               raced>>
             \/ Fail(c)
    BY <1>3 DEF Listen
  <2>2. /\ Creating(c) /\ g \in Refs
        /\ UNCHANGED <<connected, channel, opened, restarting, waits, host>>
    BY <1>3, Numbers DEF Listen, browsers
  <2>3. owner' \in [Attempts -> Clients \cup {NoClient}]
    BY <2>1, TypeOf
  <2>4. CASE /\ server' = [server EXCEPT ![c] = g]
             /\ creator' = [creator EXCEPT !.stage = "fork", !.gen = g]
             /\ UNCHANGED <<aware, queue, pending, zombies, timers, proc,
                            linked, awaiting, initDone, stopped, disposals,
                            raced>>
    <3>1. creator' \in CreatorType
      BY <2>2, <2>4, TypeOf DEF CreatorType, Stages
    <3>2. server' \in [Clients -> Refs]
      BY <2>2, <2>4, TypeOf
    <3> QED BY <2>2, <2>3, <2>4, <3>1, <3>2, TypeNext, TypeOf DEF TypeOK
  <2>5. CASE Fail(c)
    BY <2>2, <2>3, <2>5, FailTypes, TypeNext, TypeOf DEF TypeOK
  <2> QED BY <2>1, <2>4, <2>5
<1>4. CASE Fork(c)
  <2>1. /\ Creating(c) /\ creator.gen \in Refs
        /\ UNCHANGED <<connected, channel, opened, restarting, owner, waits>>
    BY <1>4, TypeOf DEF Fork, browsers
  <2>2. CASE Fail(c) /\ UNCHANGED host
    BY <2>1, <2>2, FailTypes, TypeNext, TypeOf DEF TypeOK
  <2>3. CASE ~(Fail(c) /\ UNCHANGED host)
    <3>1. /\ host' = [host EXCEPT ![creator.gen] = "starting"]
          /\ proc' = [proc EXCEPT ![c] = creator.gen]
          /\ ToStage("verify")
          /\ UNCHANGED <<aware, queue, pending, zombies, timers, server, linked,
                         awaiting, initDone, stopped, disposals, raced>>
      BY <1>4, <2>3 DEF Fork
    <3>2. creator' \in CreatorType
      BY <3>1, StageTypes DEF Stages
    <3>3. host' \in [Attempts -> HostStates]
      BY <3>1, TypeOf DEF HostStates
    <3>4. proc' \in [Clients -> Refs]
      BY <2>1, <3>1, TypeOf
    <3> QED BY <2>1, <3>1, <3>2, <3>3, <3>4, TypeNext, TypeOf DEF TypeOK
  <2> QED BY <2>2, <2>3
<1>5. CASE Verify(c)
  <2>1. /\ Creating(c) /\ queue # <<>>
        /\ UNCHANGED <<connected, channel, opened, restarting, owner, host>>
    BY <1>5, CreatingFacts DEF Verify, browsers
  <2>2. CASE Alive(creator.gen) /\ AssertConnected(c)
    <3>1. /\ EndCreation /\ AwaitReady(c)
          /\ UNCHANGED <<aware, zombies, timers, entries, stopped, disposals,
                         raced>>
      BY <1>5, <2>2 DEF Verify
    <3>2. waits' \in [Clients -> SUBSET Attempts]
      BY <3>1, TypeOf, Numbers DEF AwaitReady
    <3>3. /\ creator' \in CreatorType /\ queue' \in Seq(Clients)
          /\ pending' \subseteq Clients
      BY <2>1, <3>1, EndTypes
    <3> QED BY <2>1, <3>1, <3>2, <3>3, TypeNext, TypeOf DEF TypeOK, entries
  <2>3. CASE ~(Alive(creator.gen) /\ AssertConnected(c))
    <3>1. Fail(c) /\ UNCHANGED waits
      BY <1>5, <2>3 DEF Verify
    <3> QED BY <2>1, <3>1, FailTypes, TypeNext, TypeOf DEF TypeOK
  <2> QED BY <2>2, <2>3
<1> QED BY <1>1, <1>2, <1>3, <1>4, <1>5 DEF Creation

LEMMA TypeTimers ==
    ASSUME TypeOK, NEW c \in Clients, TimerFires(c) \/ StartupTimeout(c)
    PROVE  TypeOK'
<1>1. CASE TimerFires(c)
  <2>1. /\ BeginDispose(c, TRUE, "timer")
        /\ UNCHANGED <<browsers, aware, creation, waits, host>>
    BY <1>1 DEF TimerFires
  <2> QED
    BY <2>1, DisposeTypes, TypeNext, TypeOf DEF TypeOK, creation, browsers, Kinds
<1>2. CASE StartupTimeout(c)
  <2>1. PICK g \in waits[c] :
          /\ waits' = [waits EXCEPT ![c] = @ \ {g}]
          /\ BeginDispose(c, TRUE, IF proc[c] \in {0, g} THEN "timeout" ELSE "late")
          /\ IF proc[c] = 0 THEN Told(c) ELSE UNCHANGED aware
          /\ UNCHANGED <<browsers, creation, host>>
    BY <1>2 DEF StartupTimeout
  <2>2. waits' \in [Clients -> SUBSET Attempts]
    BY <2>1, TypeOf
  <2>3. aware' \subseteq connected
    BY <2>1, ToldTypes DEF TypeOK
  <2>4. PICK then \in Kinds : BeginDispose(c, TRUE, then)
    BY <2>1 DEF Kinds
  <2> QED
    BY <2>1, <2>2, <2>3, <2>4, DisposeTypes, TypeNext, TypeOf
       DEF TypeOK, creation, browsers
<1> QED BY <1>1, <1>2

LEMMA TypeDisposals ==
    ASSUME TypeOK, QueueInv, SlotInv, NEW i \in Slots, FinishShutdown(i) \/ Kill(i)
    PROVE  TypeOK'
<1>0. /\ disposals[i].stage # "free" /\ disposals[i].client \in Clients
      /\ disposals[i].pid \in Attempts
  BY SlotFacts DEF FinishShutdown, Kill
<1>1. CASE FinishShutdown(i)
  <2>1. /\ DeleteEntries(disposals[i].client)
        /\ UNCHANGED <<connected, channel, opened, restarting, timers, stopped,
                       waits, host>>
    BY <1>1 DEF FinishShutdown, browsers
  <2>2. CASE disposals[i].kill
    <3>1. /\ disposals' = [disposals EXCEPT ![i].stage = "kill"]
          /\ UNCHANGED <<zombies, aware, creation, raced>>
      BY <1>1, <2>2 DEF FinishShutdown
    <3>2. disposals' \in [Slots -> DisposalType]
      <4>1. disposals \in [Slots -> DisposalType] /\ disposals[i] \in DisposalType
        BY TypeOf
      <4>2. [disposals[i] EXCEPT !.stage = "kill"] \in DisposalType
        BY <4>1 DEF DisposalType
      <4> QED BY <3>1, <4>1, <4>2
    <3> QED
      BY <1>0, <2>1, <3>1, <3>2, DeleteTypes, TypeNext, TypeOf DEF TypeOK, creation
  <2>3. CASE ~disposals[i].kill
    <3>1. Return(i)
      BY <1>1, <2>3 DEF FinishShutdown
    <3> QED
      BY <1>0, <2>1, <3>1, DeleteTypes, ReturnTypes, TypeNext, TypeOf DEF TypeOK
  <2> QED BY <2>2, <2>3
<1>2. CASE Kill(i)
  <2>1. /\ Return(i)
        /\ UNCHANGED <<connected, channel, opened, restarting, timers, stopped,
                       waits, entries>>
        /\ host' = [host EXCEPT ![disposals[i].pid] =
                       IF Alive(disposals[i].pid) THEN "dead" ELSE @]
    BY <1>2 DEF Kill, browsers
  <2>2. host' \in [Attempts -> HostStates]
    BY <1>0, <2>1, TypeOf DEF HostStates
  <2> QED
    BY <1>0, <2>1, <2>2, ReturnTypes, TypeNext, TypeOf DEF TypeOK, entries
<1> QED BY <1>1, <1>2

LEMMA TypeHosts ==
    ASSUME TypeOK, EntryInv, CreatorInv, NEW g \in Attempts,
           HostConnects(g) \/ HostReady(g) \/ HostDies(g) \/ HostExit(g)
    PROVE  TypeOK'
<1>1. CASE HostConnects(g)
  <2>1. /\ owner[g] \in Clients
    BY <1>1, LinkedHost DEF HostConnects
  <2>2. /\ UNCHANGED <<connected, channel, opened, restarting, aware, zombies,
                       pending, queue, creator, owner, proc, server, initDone,
                       stopped, waits, disposals, host>>
        /\ linked' = linked \cup {owner[g]} /\ awaiting' = awaiting \ {owner[g]}
        /\ timers' \subseteq timers /\ raced' \subseteq raced \cup {owner[g]}
    BY <1>1 DEF HostConnects, browsers, creation, RacedIf
  <2> QED BY <2>1, <2>2, TypeNext, TypeOf DEF TypeOK
<1>2. CASE HostReady(g)
  <2>1. owner[g] \in Clients /\ proc[owner[g]] = g
    BY <1>2, LinkedHost DEF HostReady
  <2>2. /\ UNCHANGED <<connected, channel, opened, restarting, aware, zombies,
                       timers, pending, queue, creator, owner, proc, server,
                       linked, awaiting, stopped, disposals, raced>>
        /\ host' = [host EXCEPT ![g] = "ready"]
        /\ initDone' = initDone \cup {g}
        /\ waits' = [waits EXCEPT ![owner[g]] = @ \ {g}]
    BY <1>2, <2>1 DEF HostReady, browsers, creation
  <2>3. host' \in [Attempts -> HostStates]
    BY <2>2, TypeOf DEF HostStates
  <2>4. waits' \in [Clients -> SUBSET Attempts]
    BY <2>2, TypeOf
  <2> QED BY <2>2, <2>3, <2>4, TypeNext, TypeOf DEF TypeOK
<1>3. CASE HostDies(g)
  <2>1. /\ UNCHANGED <<browsers, aware, zombies, timers, creation, entries,
                       stopped, waits, disposals, raced>>
        /\ host' = [host EXCEPT ![g] = "dead"]
    BY <1>3 DEF HostDies
  <2>2. host' \in [Attempts -> HostStates]
    BY <2>1, TypeOf DEF HostStates
  <2> QED
    BY <2>1, <2>2, TypeNext, TypeOf DEF TypeOK, browsers, creation, entries
<1>4. CASE HostExit(g)
  <2>1. /\ UNCHANGED <<connected, channel, opened, restarting, aware, pending,
                       queue, creator, owner, waits>>
        /\ host' = [host EXCEPT ![g] = "gone"] /\ host[g] = "dead"
    BY <1>4 DEF HostExit, browsers, creation
  <2>2. host' \in [Attempts -> HostStates]
    BY <2>1, TypeOf DEF HostStates
  <2>3. CASE Crashed(g)
    <3>1. BeginDispose(owner[g], FALSE, "crash")
      BY <1>4, <2>3 DEF HostExit
    <3>2. owner[g] \in Clients
      BY <2>1 DEF EntryInv
    <3> QED
      BY <2>1, <2>2, <3>1, <3>2, DisposeTypes, TypeNext, TypeOf DEF TypeOK, Kinds
  <2>4. CASE ~Crashed(g)
    <3>1. /\ stopped' = stopped \ {g}
          /\ UNCHANGED <<zombies, timers, entries, disposals, raced>>
      BY <1>4, <2>4 DEF HostExit
    <3> QED BY <2>1, <2>2, <3>1, TypeNext, TypeOf DEF TypeOK, entries
  <2> QED BY <2>3, <2>4
<1> QED BY <1>1, <1>2, <1>3, <1>4

LEMMA TypeStep == IInv /\ [Next]_vars => TypeOK'
<1> SUFFICES ASSUME IInv, [Next]_vars PROVE TypeOK'
  OBVIOUS
<1>0. TypeOK /\ QueueInv /\ SlotInv /\ EntryInv /\ CreatorInv
  BY DEF IInv
<1>1. CASE UNCHANGED vars
  BY <1>0, <1>1
     DEF vars, browsers, creation, entries, TypeOK
<1>2. CASE Next
  BY <1>0, <1>2, TypeBrowser, TypeCreation, TypeTimers, TypeDisposals, TypeHosts
     DEF Next
<1> QED BY <1>1, <1>2


-----------------------------------------------------------------------------
(* The queue.                                                               *)

LEMMA QueueSame ==
    ASSUME TypeOK, QueueInv, UNCHANGED <<queue, pending, creator>>
    PROVE  /\ QueueInv'
           /\ \A c : (InQueue(c)' <=> InQueue(c)) /\ (Creating(c)' <=> Creating(c))
BY DEF QueueInv, InQueue, Creating

LEMMA QueueStage ==
    ASSUME TypeOK, QueueInv, queue # <<>>, NEW s \in Stages \ {"idle"},
           queue' = queue, creator'.stage = s,
           pending' \subseteq pending \cup {Head(queue)}
    PROVE  /\ QueueInv'
           /\ \A c : InQueue(c)' <=> InQueue(c)
           /\ \A c : Creating(c)' <=> c = Head(queue)
           /\ \A c : Creating(c) => c = Head(queue)
<1>1. \A c : InQueue(c)' <=> InQueue(c)
  BY DEF InQueue
<1>2. \A c : Creating(c)' <=> c = Head(queue)
  BY HeadFacts DEF Creating
<1>3. \A c : Creating(c) => c = Head(queue)
  BY DEF Creating
<1>4. \A c \in pending' : Creating(c)'
  BY <1>2, <1>3 DEF QueueInv
<1> QED BY <1>1, <1>2, <1>3, <1>4 DEF QueueInv

LEMMA QueueEnds ==
    ASSUME TypeOK, QueueInv, queue # <<>>, EndCreation
    PROVE  /\ QueueInv'
           /\ \A d : InQueue(d)' <=> InQueue(d) /\ d # Head(queue)
           /\ \A d : ~Creating(d)'
           /\ creator'.stage = "idle"
<1>1. /\ creator'.stage = "idle" /\ pending' = {}
      /\ \A d : InQueue(d)' <=> InQueue(d) /\ d # Head(queue)
      /\ \A i, j \in DOMAIN queue' : queue'[i] = queue'[j] => i = j
      /\ \A d : ~Creating(d)'
  BY CreationEnds
<1> QED BY <1>1 DEF QueueInv

LEMMA QueueJoins ==
    ASSUME TypeOK, QueueInv, NEW c \in Clients, ~InQueue(c),
           queue' = Append(queue, c), UNCHANGED <<pending, creator>>
    PROVE  /\ QueueInv'
           /\ \A d : InQueue(d)' <=> InQueue(d) \/ d = c
           /\ \A d : Creating(d)' <=> Creating(d)
           /\ queue # <<>> => Head(queue') = Head(queue)
<1>1. /\ queue' \in Seq(Clients) /\ queue' # <<>>
      /\ \A d : InQueue(d)' <=> InQueue(d) \/ d = c
      /\ \A i, j \in DOMAIN queue' : queue'[i] = queue'[j] => i = j
      /\ queue # <<>> => Head(queue') = Head(queue)
  BY QueueAppend
<1>2. /\ Len(queue) > 0 <=> queue # <<>>
      /\ Len(queue') > 0
  <2>1. queue \in Seq(Clients)
    BY TypeOf
  <2> QED BY <1>1, <2>1
<1>3. \A d : Creating(d)' <=> Creating(d)
  <2>1. creator.stage # "idle" => queue # <<>>
    BY DEF QueueInv
  <2> QED BY <1>1, <1>2, <2>1 DEF Creating
<1>4. \A d \in pending' : Creating(d)'
  BY <1>3 DEF QueueInv
<1> QED BY <1>1, <1>3, <1>4 DEF QueueInv

(* What a disposal that ends does to the creation.                           *)
LEMMA QueueReturn ==
    ASSUME TypeOK, QueueInv, SlotInv, NEW i \in Slots,
           disposals[i].stage # "free", Return(i)
    PROVE  /\ QueueInv'
           /\ i # 0 => UNCHANGED <<queue, pending, creator>>
           /\ disposals[i].then \in {"dead", "reclaim"} =>
                 queue' = queue /\ ToStage("admit") /\ queue # <<>>
           /\ disposals[i].then = "failed" => EndCreation /\ queue # <<>>
<1> DEFINE d == disposals[i]
<1>1. /\ d.then \in Kinds
      /\ i = 0 <=> OwnSlot(d.then)
      /\ i = 0 => queue # <<>>
  BY SlotFacts
<1>2. After(d)
  BY <1>1, ReturnFacts
<1> HIDE DEF d
<1>3. CASE i # 0
  <2>1. d.then \in {"timer", "request", "crash", "timeout", "late"}
    BY <1>1, <1>3 DEF Kinds, OwnSlot
  <2>2. UNCHANGED <<queue, pending, creator>>
    BY <1>2, <2>1 DEF After, creation
  <2> QED BY <1>3, <2>1, <2>2, QueueSame DEF d
<1>4. CASE d.then \in {"dead", "reclaim"}
  <2>1. /\ queue' = queue /\ ToStage("admit") /\ i = 0 /\ queue # <<>>
        /\ pending' \subseteq pending \cup {Head(queue)}
    BY <1>1, <1>2, <1>4 DEF After, OwnSlot
  <2>2. creator'.stage = "admit" /\ "admit" \in Stages \ {"idle"}
    BY <2>1, StageTypes DEF Stages
  <2> QED BY <1>4, <2>1, <2>2, QueueStage DEF d
<1>5. CASE d.then = "failed"
  <2>1. EndCreation /\ i = 0 /\ queue # <<>>
    BY <1>1, <1>2, <1>5 DEF After, OwnSlot
  <2> QED BY <1>5, <2>1, QueueEnds DEF d
<1> QED BY <1>1, <1>3, <1>4, <1>5 DEF OwnSlot

LEMMA QueueFail ==
    ASSUME TypeOK, QueueInv, NEW c, Creating(c), Fail(c)
    PROVE  QueueInv'
<1>1. queue # <<>> /\ c = Head(queue)
  BY CreatingFacts
<1>2. CASE proc[c] = 0
  BY <1>1, <1>2, FailFacts, QueueEnds
<1>3. CASE proc[c] # 0
  <2>1. ToStage("await") /\ UNCHANGED <<queue, pending>>
    BY <1>3, FailFacts
  <2>2. creator'.stage = "await" /\ "await" \in Stages \ {"idle"}
    BY <2>1, StageTypes DEF Stages
  <2> QED BY <1>1, <2>1, <2>2, QueueStage
<1> QED BY <1>2, <1>3

LEMMA QueueCreation ==
    ASSUME TypeOK, QueueInv, NEW c \in Clients, Creation(c)
    PROVE  QueueInv'
<1>s. \A s \in {"await", "admit", "listen", "fork", "verify"} :
         s \in Stages \ {"idle"}
  BY DEF Stages
<1>1. CASE Begin(c)
  <2>1. queue # <<>> /\ Head(queue) = c
    BY <1>1, TypeOf DEF Begin
  <2>2. \/ ToStage("admit") /\ pending' = pending \cup {c} /\ queue' = queue
        \/ EndCreation
        \/ ToStage("await") /\ UNCHANGED <<queue, pending>>
    BY <1>1 DEF Begin
  <2> QED BY <1>s, <2>1, <2>2, QueueStage, QueueEnds, StageTypes
<1>2. CASE Admit(c)
  <2>1. Creating(c) /\ queue # <<>>
    BY <1>2, CreatingFacts DEF Admit
  <2>2. \/ ToStage("listen") /\ UNCHANGED <<queue, pending>>
        \/ \E d \in Clients :
              /\ creator' = [creator EXCEPT !.stage = "await",
                                            !.visited = @ \cup {d}]
              /\ UNCHANGED <<queue, pending>>
        \/ Fail(c)
    BY <1>2 DEF Admit, Tracked
  <2>3. ASSUME NEW d \in Clients,
               creator' = [creator EXCEPT !.stage = "await",
                                          !.visited = @ \cup {d}]
        PROVE  creator'.stage = "await"
    BY <2>3, TypeOf DEF CreatorType
  <2> QED BY <1>s, <2>1, <2>2, <2>3, QueueStage, StageTypes, QueueFail
<1>3. CASE Listen(c)
  <2>1. Creating(c) /\ queue # <<>>
    BY <1>3, CreatingFacts DEF Listen
  <2>2. \/ \E g \in Attempts :
              /\ creator' = [creator EXCEPT !.stage = "fork", !.gen = g]
              /\ UNCHANGED <<queue, pending>>
        \/ Fail(c)
    BY <1>3 DEF Listen
  <2>3. ASSUME NEW g \in Attempts,
               creator' = [creator EXCEPT !.stage = "fork", !.gen = g]
        PROVE  creator'.stage = "fork"
    BY <2>3, TypeOf DEF CreatorType
  <2> QED BY <1>s, <2>1, <2>2, <2>3, QueueStage, QueueFail
<1>4. CASE Fork(c)
  <2>1. Creating(c) /\ queue # <<>>
    BY <1>4, CreatingFacts DEF Fork
  <2>2. (ToStage("verify") /\ UNCHANGED <<queue, pending>>) \/ Fail(c)
    BY <1>4 DEF Fork
  <2> QED BY <1>s, <2>1, <2>2, QueueStage, StageTypes, QueueFail
<1>5. CASE Verify(c)
  <2>1. Creating(c) /\ queue # <<>>
    BY <1>5, CreatingFacts DEF Verify
  <2>2. EndCreation \/ Fail(c)
    BY <1>5 DEF Verify
  <2> QED BY <2>1, <2>2, QueueEnds, QueueFail
<1> QED BY <1>1, <1>2, <1>3, <1>4, <1>5 DEF Creation

(* The steps that leave the creation alone.                                  *)
LEMMA CreationKept ==
    ASSUME NEW c \in Clients, NEW g \in Attempts,
           \/ Connect(c) \/ Disconnect(c) \/ OpenChannel(c) \/ RequestDispose(c)
           \/ TimerFires(c) \/ StartupTimeout(c)
           \/ HostConnects(g) \/ HostReady(g) \/ HostDies(g) \/ HostExit(g)
    PROVE  UNCHANGED <<queue, pending, creator, owner>>
BY DEF Connect, Disconnect, OpenChannel, RequestDispose, TimerFires,
       StartupTimeout, HostConnects, HostReady, HostDies, HostExit, creation

LEMMA QueueStep == IInv /\ [Next]_vars => QueueInv'
<1> SUFFICES ASSUME IInv, [Next]_vars PROVE QueueInv'
  OBVIOUS
<1>0. TypeOK /\ QueueInv /\ SlotInv
  BY DEF IInv
<1>1. CASE UNCHANGED vars
  BY <1>0, <1>1, QueueSame DEF vars, creation
<1>2. ASSUME NEW c \in Clients, Creation(c) PROVE QueueInv'
  BY <1>0, <1>2, QueueCreation
<1>3. ASSUME NEW c \in Clients, RequestHost(c) PROVE QueueInv'
  BY <1>0, <1>3, QueueJoins DEF RequestHost
<1>4. ASSUME NEW c \in Clients,
             \/ Connect(c) \/ Disconnect(c) \/ OpenChannel(c) \/ RequestDispose(c)
             \/ TimerFires(c) \/ StartupTimeout(c)
      PROVE  QueueInv'
  <2>1. UNCHANGED <<queue, pending, creator>>
    BY <1>4 DEF Connect, Disconnect, OpenChannel, RequestDispose, TimerFires,
       StartupTimeout, creation
  <2> QED BY <1>0, <2>1, QueueSame
<1>5. ASSUME NEW g \in Attempts,
             HostConnects(g) \/ HostReady(g) \/ HostDies(g) \/ HostExit(g)
      PROVE  QueueInv'
  <2>1. UNCHANGED <<queue, pending, creator>>
    BY <1>5 DEF HostConnects, HostReady, HostDies, HostExit, creation
  <2> QED BY <1>0, <2>1, QueueSame
<1>6. ASSUME NEW i \in Slots, FinishShutdown(i) \/ Kill(i) PROVE QueueInv'
  <2>1. disposals[i].stage # "free"
    BY <1>6 DEF FinishShutdown, Kill
  <2>2. CASE Return(i)
    BY <1>0, <2>1, <2>2, QueueReturn
  <2>3. CASE ~Return(i)
    <3>1. UNCHANGED creation
      BY <1>6, <2>3 DEF FinishShutdown, Kill
    <3> QED BY <1>0, <3>1, QueueSame DEF creation
  <2> QED BY <2>2, <2>3
<1> QED BY <1>1, <1>2, <1>3, <1>4, <1>5, <1>6 DEF Next, Browser


-----------------------------------------------------------------------------
(* The processes.  One that exists keeps its client and is not revived.     *)

HostsKept ==
    \A g \in Attempts : host[g] # "none" =>
        /\ owner'[g] = owner[g] /\ host'[g] # "none"
        /\ host'[g] \in {"starting", "ready"} => host[g] \in {"starting", "ready"}

LEMMA HostsStep == IInv /\ [Next]_vars => HostsKept
<1> SUFFICES ASSUME IInv, [Next]_vars, NEW g \in Attempts, host[g] # "none"
             PROVE  /\ owner'[g] = owner[g] /\ host'[g] # "none"
                    /\ host'[g] \in {"starting", "ready"} =>
                          host[g] \in {"starting", "ready"}
  BY DEF HostsKept
<1>0. /\ TypeOK /\ QueueInv /\ SlotInv /\ EntryInv /\ CreatorInv
      /\ host \in [Attempts -> HostStates]
      /\ owner \in [Attempts -> Clients \cup {NoClient}]
  BY TypeOf DEF IInv
<1>a. ASSUME UNCHANGED <<owner, host>>
      PROVE  /\ owner'[g] = owner[g] /\ host'[g] # "none"
             /\ host'[g] \in {"starting", "ready"} =>
                   host[g] \in {"starting", "ready"}
  BY <1>a
<1>b. ASSUME NEW h \in Attempts, NEW s \in {"dead", "gone", host[h]},
             host' = [host EXCEPT ![h] = s], owner' = owner
      PROVE  /\ owner'[g] = owner[g] /\ host'[g] # "none"
             /\ host'[g] \in {"starting", "ready"} =>
                   host[g] \in {"starting", "ready"}
  BY <1>0, <1>b
<1>1. CASE UNCHANGED vars
  BY <1>1, <1>a DEF vars, creation
<1>2. ASSUME NEW c \in Clients, Browser(c) \/ TimerFires(c) \/ StartupTimeout(c)
      PROVE  UNCHANGED <<owner, host>>
  BY <1>2 DEF Browser, Connect, Disconnect, OpenChannel, RequestHost,
     RequestDispose, TimerFires, StartupTimeout, creation
<1>3. ASSUME NEW c \in Clients, Begin(c) \/ Admit(c) \/ Verify(c)
      PROVE  UNCHANGED <<owner, host>>
  BY <1>3 DEF Begin, Admit, Verify
<1>4. ASSUME NEW c \in Clients, Listen(c)
      PROVE  owner'[g] = owner[g] /\ host'[g] = host[g]
  <2>1. PICK h \in Attempts \ Used : owner' = [owner EXCEPT ![h] = c]
    BY <1>4 DEF Listen
  <2>2. h # g
    BY <1>0, <2>1, ClientsAssumption DEF EntryInv, Used
  <2> QED BY <1>0, <1>4, <2>1, <2>2 DEF Listen
<1>5. ASSUME NEW c \in Clients, Fork(c)
      PROVE  owner'[g] = owner[g] /\ host'[g] = host[g]
  <2>1. owner' = owner /\ (host' = host \/ host' = [host EXCEPT ![creator.gen] = "starting"])
    BY <1>5 DEF Fork
  <2>2. creator.gen # g
    BY <1>0, <1>5 DEF Fork, CreatorInv
  <2> QED BY <1>0, <2>1, <2>2
<1>6. ASSUME NEW i \in Slots, FinishShutdown(i) \/ Kill(i)
      PROVE  /\ owner'[g] = owner[g] /\ host'[g] # "none"
             /\ host'[g] \in {"starting", "ready"} =>
                   host[g] \in {"starting", "ready"}
  <2>1. disposals[i].stage # "free" /\ disposals[i].pid \in Attempts
    BY <1>0, <1>6, SlotFacts DEF FinishShutdown, Kill
  <2>2. owner' = owner
    <3>1. CASE Return(i)
      BY <1>0, <2>1, <3>1, ReturnTypes
    <3>2. CASE ~Return(i)
      BY <1>6, <3>2 DEF FinishShutdown, Kill, creation
    <3> QED BY <3>1, <3>2
  <2>3. CASE FinishShutdown(i)
    BY <2>2, <2>3, <1>a DEF FinishShutdown
  <2>4. CASE Kill(i)
    <3>1. host' = [host EXCEPT ![disposals[i].pid] =
                      IF Alive(disposals[i].pid) THEN "dead" ELSE host[disposals[i].pid]]
      BY <2>4 DEF Kill
    <3> QED BY <2>1, <2>2, <3>1, <1>b
  <2> QED BY <1>6, <2>3, <2>4
<1>7. ASSUME NEW h \in Attempts,
             HostConnects(h) \/ HostReady(h) \/ HostDies(h) \/ HostExit(h)
      PROVE  /\ owner'[g] = owner[g] /\ host'[g] # "none"
             /\ host'[g] \in {"starting", "ready"} =>
                   host[g] \in {"starting", "ready"}
  <2>1. owner' = owner
    BY <1>7 DEF HostConnects, HostReady, HostDies, HostExit, creation
  <2>2. CASE HostConnects(h)
    BY <2>1, <2>2, <1>a DEF HostConnects
  <2>3. CASE HostReady(h)
    BY <1>0, <2>1, <2>3 DEF HostReady
  <2>4. CASE HostDies(h)
    BY <2>1, <2>4, <1>b DEF HostDies
  <2>5. CASE HostExit(h)
    BY <2>1, <2>5, <1>b DEF HostExit
  <2> QED BY <1>7, <2>2, <2>3, <2>4, <2>5
<1> QED
  BY <1>1, <1>2, <1>3, <1>4, <1>5, <1>6, <1>7, <1>a DEF Next, Creation

-----------------------------------------------------------------------------
(* The disposals.                                                           *)

LEMMA SlotKept ==
    ASSUME TypeOK, NEW j \in Slots, SlotOK(j), HostsKept,
           disposals'[j] = disposals[j],
           disposals[j].then \in {"dead", "failed"} =>
              \A d : Creating(d) => Creating(d)'
    PROVE  SlotOK(j)'
<1>1. disposals[j].stage = "free" => SlotOK(j)'
  BY DEF SlotOK
<1>2. ASSUME disposals[j].stage # "free" PROVE SlotOK(j)'
  <2> DEFINE d == disposals[j]
  <2>1. /\ d.client \in Clients /\ d.pid \in Attempts
        /\ owner[d.pid] = d.client /\ host[d.pid] # "none"
        /\ ~d.kill => ~Alive(d.pid)
        /\ d.then \in {"dead", "failed"} => Creating(d.client)
    BY <1>2 DEF SlotOK
  <2>2. owner'[d.pid] = d.client /\ host'[d.pid] # "none"
    BY <2>1 DEF HostsKept
  <2>3. ~d.kill => ~Alive(d.pid)'
    BY <2>1, Numbers DEF HostsKept, Alive
  <2>4. d.then \in {"dead", "failed"} => Creating(d.client)'
    BY <2>1
  <2> QED BY <1>2, <2>1, <2>2, <2>3, <2>4 DEF SlotOK
<1> QED BY <1>1, <1>2

LEMMA SlotsKept ==
    ASSUME TypeOK, SlotInv, HostsKept, disposals' = disposals,
           \/ /\ creator'.stage = "await" <=> creator.stage = "await"
              /\ \A d : Creating(d) => Creating(d)'
           \/ creator.stage # "await" /\ creator'.stage # "await"
    PROVE  SlotInv'
<1>1. ASSUME NEW j \in Slots PROVE SlotOK(j)'
  <2>1. disposals[j].then \in {"dead", "failed"} => j = 0 /\ creator.stage = "await"
    BY Numbers DEF SlotInv, SlotOK, OwnSlot, NoDisposal
  <2>2. disposals[j].then \in {"dead", "failed"} => \A d : Creating(d) => Creating(d)'
    BY <2>1
  <2> QED BY <2>2, SlotKept DEF SlotInv
<1> QED BY <1>1 DEF SlotInv

LEMMA SlotsLater ==
    ASSUME TypeOK, SlotInv, EntryInv, HostsKept,
           NEW c \in Clients, NEW kill \in BOOLEAN, NEW then \in Kinds, NEW i \in Slots,
           Later(c, kill, then, i),
           ~kill => ~Alive(proc[c]),
           then = "dead" => ~kill, then = "failed" => kill,
           \A d : Creating(d) => Creating(d)',
           then \in {"dead", "failed"} => Creating(c)',
           creator'.stage = IF OwnSlot(then) THEN "await" ELSE creator.stage
    PROVE  SlotInv'
<1> DEFINE new == Disposal(c, proc[c], kill, then)
<1>0. disposals \in [Slots -> DisposalType] /\ proc[c] \in Attempts
  BY TypeOf, Numbers DEF Later
<1>1. disposals'[i] = new /\ \A j \in Slots \ {i} : disposals'[j] = disposals[j]
  BY <1>0 DEF Later
<1>2. ASSUME NEW j \in Slots, j # i PROVE SlotOK(j)'
  <2>1. disposals'[j] = disposals[j] /\ SlotOK(j)
    BY <1>1, <1>2 DEF SlotInv
  <2> QED BY <2>1, SlotKept
<1>3. /\ new.client = c /\ new.pid = proc[c] /\ new.kill = kill
      /\ new.then = then /\ new.stage = "shutdown"
  BY DEF Disposal
<1> HIDE DEF new
<1>4. owner[proc[c]] = c /\ host[proc[c]] # "none" /\ proc[c] # 0
  BY <1>0, Numbers DEF EntryInv
<1>5. owner'[proc[c]] = c /\ host'[proc[c]] # "none"
  BY <1>0, <1>4 DEF HostsKept
<1>6. ~kill => ~Alive(proc[c])'
  <2>1. ~kill => ~(host[proc[c]] \in {"starting", "ready"})
    BY <1>4 DEF Alive
  <2>2. ~kill => ~(host'[proc[c]] \in {"starting", "ready"})
    BY <1>0, <1>4, <2>1 DEF HostsKept
  <2>3. proc'[c] = proc[c]
    BY DEF Later, entries
  <2> QED BY <2>2, <2>3 DEF Alive
<1>7. proc'[c] = proc[c]
  BY DEF Later, entries
<1>8. SlotOK(i)'
  <2>1. i = 0 <=> OwnSlot(then)
    BY DEF Later
  <2>2. then # "none"
    BY DEF Kinds
  <2>3. ~kill => ~(host'[proc[c]] \in {"starting", "ready"})
    BY <1>4, <1>6, <1>7 DEF Alive
  <2>4. ~kill => ~Alive(disposals[i].pid)'
    BY <1>1, <1>3, <2>3 DEF Alive
  <2> QED BY <1>0, <1>1, <1>3, <1>5, <2>1, <2>2, <2>4 DEF SlotOK
<1>9. creator'.stage = "await" <=> disposals'[0].stage # "free"
  <2>1. CASE i = 0
    BY <1>1, <1>3, <2>1 DEF Later
  <2>2. CASE i # 0
    BY <1>1, <2>2, Numbers DEF Later, SlotInv
  <2> QED BY <2>1, <2>2
<1> QED BY <1>2, <1>8, <1>9 DEF SlotInv

LEMMA SlotsReturn ==
    ASSUME TypeOK, QueueInv, SlotInv, HostsKept, NEW i \in Slots,
           disposals[i].stage # "free", Return(i)
    PROVE  SlotInv'
<1>0. disposals \in [Slots -> DisposalType]
  BY TypeOf
<1>1. disposals[i].then \in Kinds /\ (i = 0 <=> OwnSlot(disposals[i].then))
      /\ (i = 0 => creator.stage = "await")
  BY SlotFacts
<1>2. disposals' = [disposals EXCEPT ![i] = NoDisposal]
  BY <1>1, ReturnFacts DEF Freed
<1>3. /\ i # 0 => UNCHANGED <<queue, pending, creator>>
      /\ disposals[i].then \in {"dead", "reclaim"} => ToStage("admit")
      /\ disposals[i].then = "failed" => EndCreation /\ queue # <<>>
  BY QueueReturn
<1>4. SlotOK(i)'
  BY <1>0, <1>2 DEF SlotOK, NoDisposal
<1>5. ASSUME NEW j \in Slots, j # i PROVE SlotOK(j)'
  <2>1. disposals'[j] = disposals[j] /\ SlotOK(j)
    BY <1>0, <1>2, <1>5 DEF SlotInv
  <2>2. disposals[j].then \in {"dead", "failed"} => j = 0
    BY <2>1, Numbers DEF SlotOK, OwnSlot, NoDisposal
  <2>3. j = 0 => \A d : Creating(d) => Creating(d)'
    BY <1>3, <1>5, QueueSame
  <2> QED BY <2>1, <2>2, <2>3, SlotKept
<1>6. creator'.stage = "await" <=> disposals'[0].stage # "free"
  <2>1. CASE i = 0
    <3>1. disposals'[0].stage = "free"
      BY <1>0, <1>2, <2>1 DEF NoDisposal
    <3>2. disposals[i].then \in {"dead", "reclaim"} => creator'.stage = "admit"
      BY <1>3, StageTypes DEF Stages
    <3>3. disposals[i].then = "failed" => creator'.stage = "idle"
      BY <1>3, QueueEnds
    <3> QED BY <1>1, <2>1, <3>1, <3>2, <3>3 DEF OwnSlot
  <2>2. CASE i # 0
    BY <1>0, <1>2, <1>3, <2>2, Numbers DEF SlotInv
  <2> QED BY <2>1, <2>2
<1> QED BY <1>4, <1>5, <1>6 DEF SlotInv


(* A disposal that a timer, a request, a crash or a timeout begins.          *)
LEMMA SlotsDispose ==
    ASSUME TypeOK, QueueInv, SlotInv, EntryInv, HostsKept,
           NEW c \in Clients, NEW kill \in BOOLEAN,
           NEW then \in {"timer", "request", "crash", "timeout", "late"},
           BeginDispose(c, kill, then), ~kill => ~Alive(proc[c]),
           UNCHANGED <<queue, pending, creator>>
    PROVE  SlotInv'
<1>1. \A d : Creating(d) => Creating(d)'
  BY QueueSame
<1>2. /\ then \in Kinds /\ ~OwnSlot(then)
      /\ then # "dead" /\ then # "failed"
  BY DEF Kinds, OwnSlot
<1>3. CASE Now(c, then)
  BY <1>1, <1>3, SlotsKept DEF Now
<1>4. ASSUME NEW i \in Slots, Later(c, kill, then, i) PROVE SlotInv'
  BY <1>1, <1>2, <1>4, SlotsLater
<1> QED BY <1>3, <1>4, DisposeFacts

LEMMA SlotsFail ==
    ASSUME TypeOK, QueueInv, SlotInv, EntryInv, HostsKept, NEW c, Creating(c),
           creator.stage # "await", Fail(c)
    PROVE  SlotInv'
<1>1. c \in Clients /\ queue # <<>> /\ c = Head(queue)
  BY CreatingFacts
<1>2. CASE proc[c] = 0
  <2>1. disposals' = disposals /\ creator'.stage = "idle"
    BY <1>1, <1>2, FailFacts, QueueEnds DEF Now
  <2> QED BY <2>1, SlotsKept
<1>3. CASE proc[c] # 0
  <2>1. PICK i \in Slots : Later(c, TRUE, "failed", i)
    BY <1>3, FailFacts
  <2>2. ToStage("await") /\ UNCHANGED <<queue, pending>>
    BY <1>3, FailFacts
  <2>3. creator'.stage = "await" /\ "await" \in Stages \ {"idle"}
    BY <2>2, StageTypes DEF Stages
  <2>4. /\ \A d : Creating(d)' <=> d = Head(queue)
        /\ \A d : Creating(d) => d = Head(queue)
    BY <1>1, <2>2, <2>3, QueueStage
  <2>5. "failed" \in Kinds /\ OwnSlot("failed") /\ "failed" # "dead"
        /\ TRUE \in BOOLEAN
    BY DEF Kinds, OwnSlot
  <2>6. (\A d : Creating(d) => Creating(d)') /\ Creating(c)'
    BY <1>1, <2>4
  <2> QED BY <1>1, <2>1, <2>3, <2>5, <2>6, SlotsLater
<1> QED BY <1>2, <1>3

LEMMA SlotsCreation ==
    ASSUME TypeOK, QueueInv, SlotInv, EntryInv, CreatorInv, HostsKept,
           NEW c \in Clients, Creation(c)
    PROVE  SlotInv'
<1>s. \A s \in {"await", "admit", "listen", "fork", "verify"} :
         s \in Stages \ {"idle"}
  BY DEF Stages
<1>a. ASSUME disposals' = disposals, creator.stage # "await",
             NEW s \in {"admit", "listen", "fork", "verify"}, ToStage(s)
      PROVE  SlotInv'
  <2>1. creator'.stage = s
    BY <1>s, <1>a, StageTypes
  <2> QED BY <1>a, <2>1, SlotsKept
<1>1. CASE Begin(c)
  <2>1. queue # <<>> /\ Head(queue) = c /\ creator.stage = "idle"
    BY <1>1, TypeOf DEF Begin
  <2>2. CASE proc[c] = 0
    BY <1>1, <1>a, <2>1, <2>2, Numbers DEF Begin, Alive
  <2>3. CASE Alive(proc[c])
    <3>1. EndCreation /\ disposals' = disposals
      BY <1>1, <2>3 DEF Begin, Alive
    <3>2. creator'.stage = "idle"
      BY <2>1, <3>1, QueueEnds
    <3> QED BY <2>1, <3>1, <3>2, SlotsKept
  <2>4. CASE proc[c] # 0 /\ ~Alive(proc[c])
    <3>1. /\ BeginDispose(c, FALSE, "dead") /\ ToStage("await")
          /\ UNCHANGED <<queue, pending>>
      BY <1>1, <2>4 DEF Begin
    <3>2. PICK i \in Slots : Later(c, FALSE, "dead", i)
      BY <2>4, <3>1, DisposeFacts DEF Now
    <3>3. creator'.stage = "await"
      BY <1>s, <3>1, StageTypes
    <3>4. \A d : Creating(d)' <=> d = Head(queue)
      BY <1>s, <2>1, <3>1, <3>3, QueueStage
    <3>5. \A d : ~Creating(d)
      BY <2>1 DEF Creating
    <3>6. (\A d : Creating(d) => Creating(d)') /\ Creating(c)'
      BY <2>1, <3>4, <3>5
    <3>7. "dead" \in Kinds /\ OwnSlot("dead") /\ "dead" # "failed"
          /\ FALSE \in BOOLEAN
      BY DEF Kinds, OwnSlot
    <3> QED BY <2>4, <3>2, <3>3, <3>6, <3>7, SlotsLater
  <2> QED BY <2>2, <2>3, <2>4
<1>2. CASE Admit(c)
  <2>1. Creating(c) /\ queue # <<>> /\ c = Head(queue) /\ creator.stage = "admit"
    BY <1>2, CreatingFacts DEF Admit
  <2>2. CASE ToStage("listen") /\ disposals' = disposals
    BY <1>a, <2>1, <2>2
  <2>3. ASSUME NEW d \in Tracked \ creator.visited, Reclaimable(d),
               BeginDispose(d, Disconnected(d), "reclaim"),
               creator' = [creator EXCEPT !.stage = "await",
                                          !.visited = @ \cup {d}],
               UNCHANGED <<queue, pending>>
        PROVE  SlotInv'
    <3>1. d \in Clients /\ Disconnected(d) \in BOOLEAN /\ proc[d] # 0
      BY DEF Tracked, Disconnected
    <3>2. PICK i \in Slots : Later(d, Disconnected(d), "reclaim", i)
      BY <2>3, <3>1, DisposeFacts DEF Now
    <3>3. creator'.stage = "await"
      BY <2>3, TypeOf DEF CreatorType
    <3>4. /\ \A e : Creating(e)' <=> e = Head(queue)
          /\ \A e : Creating(e) => e = Head(queue)
      BY <1>s, <2>1, <2>3, <3>3, QueueStage
    <3>5. ~Disconnected(d) => ~Alive(proc[d])
      BY <2>3 DEF Reclaimable
    <3>6. "reclaim" \in Kinds /\ OwnSlot("reclaim") /\ "reclaim" # "failed"
          /\ "reclaim" # "dead" /\ "reclaim" \notin {"dead", "failed"}
      BY DEF Kinds, OwnSlot
    <3>7. \A e : Creating(e) => Creating(e)'
      BY <3>4
    <3> QED BY <3>1, <3>2, <3>3, <3>5, <3>6, <3>7, SlotsLater
  <2>4. CASE Fail(c)
    BY <2>1, <2>4, SlotsFail
  <2> QED BY <1>2, <2>2, <2>3, <2>4 DEF Admit
<1>3. CASE Listen(c)
  <2>1. Creating(c) /\ creator.stage = "listen"
    BY <1>3 DEF Listen
  <2>2. ASSUME NEW g \in Attempts, disposals' = disposals,
               creator' = [creator EXCEPT !.stage = "fork", !.gen = g]
        PROVE  SlotInv'
    <3>1. creator'.stage = "fork"
      BY <2>2, TypeOf DEF CreatorType
    <3> QED BY <2>1, <2>2, <3>1, SlotsKept
  <2>3. CASE Fail(c)
    BY <2>1, <2>3, SlotsFail
  <2> QED BY <1>3, <2>2, <2>3 DEF Listen
<1>4. CASE Fork(c)
  <2>1. Creating(c) /\ creator.stage = "fork"
    BY <1>4 DEF Fork
  <2>2. (ToStage("verify") /\ disposals' = disposals) \/ Fail(c)
    BY <1>4 DEF Fork
  <2> QED BY <1>a, <2>1, <2>2, SlotsFail
<1>5. CASE Verify(c)
  <2>1. Creating(c) /\ creator.stage = "verify" /\ queue # <<>>
    BY <1>5, CreatingFacts DEF Verify
  <2>2. CASE EndCreation /\ disposals' = disposals
    <3>1. creator'.stage = "idle"
      BY <2>1, <2>2, QueueEnds
    <3> QED BY <2>1, <2>2, <3>1, SlotsKept
  <2>3. CASE Fail(c)
    BY <2>1, <2>3, SlotsFail
  <2> QED BY <1>5, <2>2, <2>3 DEF Verify
<1> QED BY <1>1, <1>2, <1>3, <1>4, <1>5 DEF Creation

LEMMA SlotStep == IInv /\ [Next]_vars => SlotInv'
<1> SUFFICES ASSUME IInv, [Next]_vars PROVE SlotInv'
  OBVIOUS
<1>0. TypeOK /\ QueueInv /\ SlotInv /\ EntryInv /\ CreatorInv /\ HostsKept
  BY HostsStep DEF IInv
<1>a. ASSUME UNCHANGED <<disposals, queue, pending, creator>> PROVE SlotInv'
  <2>1. \A d : Creating(d) => Creating(d)'
    BY <1>0, <1>a, QueueSame
  <2> QED BY <1>0, <1>a, <2>1, SlotsKept
<1>1. CASE UNCHANGED vars
  BY <1>1, <1>a DEF vars, creation
<1>2. ASSUME NEW c \in Clients, Creation(c) PROVE SlotInv'
  BY <1>0, <1>2, SlotsCreation
<1>3. ASSUME NEW c \in Clients, RequestHost(c) PROVE SlotInv'
  <2>1. \A d : Creating(d)' <=> Creating(d)
    BY <1>0, <1>3, QueueJoins DEF RequestHost
  <2>2. disposals' = disposals /\ creator' = creator
    BY <1>3 DEF RequestHost
  <2> QED BY <1>0, <2>1, <2>2, SlotsKept
<1>4. ASSUME NEW c \in Clients, Connect(c) \/ Disconnect(c) \/ OpenChannel(c)
      PROVE  SlotInv'
  BY <1>4, <1>a DEF Connect, Disconnect, OpenChannel, creation
<1>5. ASSUME NEW c \in Clients, TimerFires(c) \/ RequestDispose(c) \/ StartupTimeout(c)
      PROVE  SlotInv'
  <2>1. PICK then \in {"timer", "request", "timeout", "late"} :
          BeginDispose(c, TRUE, then)
    BY <1>5 DEF TimerFires, RequestDispose, StartupTimeout
  <2>2. UNCHANGED <<queue, pending, creator>>
    BY <1>5 DEF TimerFires, RequestDispose, StartupTimeout, creation
  <2>3. then \in {"timer", "request", "crash", "timeout", "late"} /\ TRUE \in BOOLEAN
    OBVIOUS
  <2> QED BY <1>0, <2>1, <2>2, <2>3, SlotsDispose
<1>6. ASSUME NEW g \in Attempts, HostConnects(g) \/ HostReady(g) \/ HostDies(g)
      PROVE  SlotInv'
  BY <1>6, <1>a DEF HostConnects, HostReady, HostDies, creation
<1>7. ASSUME NEW g \in Attempts, HostExit(g) PROVE SlotInv'
  <2>1. UNCHANGED <<queue, pending, creator>> /\ host[g] = "dead"
    BY <1>7 DEF HostExit, creation
  <2>2. CASE Crashed(g)
    <3>1. /\ BeginDispose(owner[g], FALSE, "crash") /\ proc[owner[g]] = g
      BY <1>7, <2>2 DEF HostExit, Crashed
    <3>2. owner[g] \in Clients /\ ~Alive(proc[owner[g]])
      BY <1>0, <2>1, <3>1 DEF EntryInv, Alive
    <3> QED BY <1>0, <2>1, <3>1, <3>2, SlotsDispose
  <2>3. CASE ~Crashed(g)
    BY <1>7, <1>a, <2>1, <2>3 DEF HostExit
  <2> QED BY <2>2, <2>3
<1>8. ASSUME NEW i \in Slots, FinishShutdown(i) \/ Kill(i) PROVE SlotInv'
  <2>1. disposals[i].stage # "free"
    BY <1>8 DEF FinishShutdown, Kill
  <2>2. CASE Return(i)
    BY <1>0, <2>1, <2>2, SlotsReturn
  <2>3. CASE ~Return(i)
    <3>1. /\ disposals' = [disposals EXCEPT ![i].stage = "kill"]
          /\ disposals[i].kill /\ UNCHANGED <<queue, pending, creator, owner>>
          /\ host' = host
      BY <1>8, <2>3 DEF FinishShutdown, Kill, creation
    <3>0. disposals \in [Slots -> DisposalType]
      BY <1>0, TypeOf
    <3>2. \A d : Creating(d) => Creating(d)'
      BY <1>0, <3>1, QueueSame
    <3>3. ASSUME NEW j \in Slots, j # i PROVE SlotOK(j)'
      <4>1. disposals'[j] = disposals[j] /\ SlotOK(j)
        BY <1>0, <3>0, <3>1, <3>3 DEF SlotInv
      <4> QED BY <1>0, <3>2, <4>1, SlotKept
    <3>4. SlotOK(i)'
      <4> DEFINE d == disposals[i]  e == disposals'[i]
      <4>1. /\ e.client = d.client /\ e.pid = d.pid /\ e.kill = d.kill
            /\ e.then = d.then /\ e.stage = "kill" /\ e.kill
        BY <3>0, <3>1 DEF DisposalType
      <4>2. SlotOK(i)
        BY <1>0 DEF SlotInv
      <4>3. /\ d.client \in Clients /\ d.pid \in Attempts
            /\ owner[d.pid] = d.client /\ host[d.pid] # "none"
            /\ d.then # "none" /\ d.then # "dead"
            /\ d.then \in {"dead", "failed"} => Creating(d.client)
        BY <2>1, <3>1, <4>2 DEF SlotOK
      <4>4. i = 0 <=> OwnSlot(d.then)
        BY <2>1, <4>2 DEF SlotOK
      <4>5. e.then \in {"dead", "failed"} => Creating(disposals[i].client)'
        BY <3>1, <4>1, <4>3 DEF Creating
      <4>6. owner'[e.pid] = e.client /\ host'[e.pid] # "none"
        BY <3>1, <4>1, <4>3
      <4> QED BY <4>1, <4>3, <4>4, <4>5, <4>6 DEF SlotOK
    <3>5. creator'.stage = "await" <=> disposals'[0].stage # "free"
      BY <1>0, <2>1, <3>0, <3>1, Numbers DEF SlotInv
    <3> QED BY <3>3, <3>4, <3>5 DEF SlotInv
  <2> QED BY <2>2, <2>3
<1> QED BY <1>1, <1>2, <1>3, <1>4, <1>5, <1>6, <1>7, <1>8 DEF Next, Browser


-----------------------------------------------------------------------------
(* The maps of the service.                                                 *)

LEMMA EntriesKept ==
    ASSUME TypeOK, EntryInv, HostsKept,
           \A c \in Clients :
              \/ server'[c] = 0 /\ proc'[c] \in {0, proc[c]}
              \/ /\ server'[c] = server[c] /\ proc'[c] = proc[c]
                 /\ server[c] # 0 /\ proc[c] = 0 =>
                       /\ creator'.stage = "fork" /\ creator'.gen = creator.gen
                       /\ Creating(c)',
           \A c \in awaiting' : c \in Clients /\ server'[c] # 0,
           \A g \in Attempts : host'[g] # "none" => host[g] # "none",
           \A g \in stopped' : g \in Attempts /\ (g \in stopped \/ host[g] # "none")
    PROVE  EntryInv'
<1>0. proc \in [Clients -> Refs] /\ server \in [Clients -> Refs]
  BY TypeOf
<1>1. ASSUME NEW c \in Clients, proc'[c] # 0
      PROVE  owner'[proc'[c]] = c /\ host'[proc'[c]] # "none"
  <2>1. proc'[c] = proc[c] /\ proc[c] \in Attempts
    BY <1>0, <1>1, Numbers
  <2>2. owner[proc[c]] = c /\ host[proc[c]] # "none"
    BY <1>1, <2>1 DEF EntryInv
  <2> QED BY <2>1, <2>2 DEF HostsKept
<1>2. ASSUME NEW c \in Clients, server'[c] # 0
      PROVE  \/ proc'[c] = server'[c]
             \/ /\ proc'[c] = 0 /\ creator'.stage = "fork"
                /\ Creating(c)' /\ server'[c] = creator'.gen
  <2>1. /\ server'[c] = server[c] /\ proc'[c] = proc[c]
        /\ server[c] # 0 /\ proc[c] = 0 =>
              /\ creator'.stage = "fork" /\ creator'.gen = creator.gen
              /\ Creating(c)'
    BY <1>2
  <2>2. \/ proc[c] = server[c]
        \/ proc[c] = 0 /\ server[c] = creator.gen
    BY <1>2, <2>1 DEF EntryInv
  <2> QED BY <1>2, <2>1, <2>2
<1>3. ASSUME NEW g \in Attempts, host'[g] # "none" PROVE owner'[g] \in Clients
  BY <1>3 DEF EntryInv, HostsKept
<1>4. ASSUME NEW g \in stopped' PROVE host'[g] # "none"
  BY <1>4 DEF EntryInv, HostsKept
<1> QED BY <1>1, <1>2, <1>3, <1>4 DEF EntryInv

(* Nothing is created by a step outside of a creation.                       *)
HostsSame ==
    \A g \in Attempts : host[g] = "none" => owner'[g] = owner[g] /\ host'[g] = "none"

LEMMA TrackedKept ==
    ASSUME TypeOK, \A c \in Clients : proc'[c] \in {0, proc[c]}
    PROVE  /\ Cardinality(Tracked') <= Cardinality(Tracked)
           /\ Cardinality(Tracked') \in Nat /\ Cardinality(Tracked) \in Nat
<1>1. Tracked' \subseteq Tracked
  BY DEF Tracked
<1>2. IsFiniteSet(Tracked)
  BY ClientsAssumption, FS_Subset DEF Tracked
<1> QED BY <1>1, <1>2, FS_Subset, FS_CardinalityType

LEMMA CreatorKept ==
    ASSUME TypeOK, QueueInv, CreatorInv, HostsSame,
           \A c \in Clients : proc'[c] \in {0, proc[c]},
           queue # <<>> => Head(queue') = Head(queue),
           creator' = creator, NoProcessYet' => NoProcessYet,
           raced \subseteq raced',
           creator.stage = "verify" =>
              \/ Head(queue) \in raced'
              \/ proc'[Head(queue)] = proc[Head(queue)]
    PROVE  CreatorInv'
<1>0. creator.stage # "idle" => Head(queue') = Head(queue) /\ Head(queue) \in Clients
  BY HeadFacts DEF QueueInv
<1>1. Cardinality(Tracked') <= MaxHosts
      /\ (creator'.stage \in {"listen", "fork"} => Cardinality(Tracked') < MaxHosts)
  BY TrackedKept, Numbers DEF CreatorInv
<1>2. NoProcessYet' => proc'[Head(queue')] = 0
  <2>1. NoProcessYet => creator.stage # "idle"
    BY DEF NoProcessYet
  <2> QED BY <1>0, <2>1 DEF CreatorInv
<1>3. creator'.stage = "fork" =>
         /\ creator'.gen \in Attempts /\ owner'[creator'.gen] = Head(queue')
         /\ host'[creator'.gen] = "none"
  BY <1>0 DEF CreatorInv, HostsSame
<1>4. creator'.stage = "verify" =>
         /\ creator'.gen \in Attempts
         /\ Head(queue') \notin raced' => proc'[Head(queue')] = creator'.gen
  BY <1>0 DEF CreatorInv
<1> QED BY <1>1, <1>2, <1>3, <1>4 DEF CreatorInv

(* What the map of processes and the creation's own state need of a step     *)
(* that is not one of the creation.                                          *)
LEMMA OutsideHosts ==
    ASSUME IInv, [Next]_vars, \A c \in Clients : ~Creation(c)
    PROVE  HostsSame
<1>0. /\ TypeOK /\ QueueInv /\ SlotInv /\ EntryInv /\ CreatorInv
      /\ host \in [Attempts -> HostStates]
  BY TypeOf DEF IInv
<1>1. owner' = owner
  <2>1. ASSUME NEW i \in Slots, FinishShutdown(i) \/ Kill(i) PROVE owner' = owner
    <3>1. disposals[i].stage # "free"
      BY <2>1 DEF FinishShutdown, Kill
    <3>2. CASE Return(i)
      BY <1>0, <3>1, <3>2, ReturnTypes
    <3>3. CASE ~Return(i)
      BY <2>1, <3>3 DEF FinishShutdown, Kill, creation
    <3> QED BY <3>2, <3>3
  <2>2. ASSUME NEW c \in Clients, Browser(c) \/ TimerFires(c) \/ StartupTimeout(c)
        PROVE  owner' = owner
    BY <2>2 DEF Browser, Connect, Disconnect, OpenChannel, RequestHost,
       RequestDispose, TimerFires, StartupTimeout, creation
  <2>3. ASSUME NEW h \in Attempts,
               HostConnects(h) \/ HostReady(h) \/ HostDies(h) \/ HostExit(h)
        PROVE  owner' = owner
    BY <2>3 DEF HostConnects, HostReady, HostDies, HostExit, creation
  <2> QED BY <2>1, <2>2, <2>3 DEF Next, vars, creation
<1>2. ASSUME NEW g \in Attempts, host[g] = "none" PROVE host'[g] = "none"
  <2>1. ASSUME NEW i \in Slots, FinishShutdown(i) \/ Kill(i) PROVE host'[g] = host[g]
    <3>1. host' = host \/ host' = [host EXCEPT ![disposals[i].pid] =
                                      IF Alive(disposals[i].pid) THEN "dead" ELSE @]
      BY <2>1 DEF FinishShutdown, Kill
    <3> QED BY <1>0, <1>2, <3>1 DEF Alive
  <2>2. ASSUME NEW c \in Clients, Browser(c) \/ TimerFires(c) \/ StartupTimeout(c)
        PROVE  host' = host
    BY <2>2 DEF Browser, Connect, Disconnect, OpenChannel, RequestHost,
       RequestDispose, TimerFires, StartupTimeout
  <2>3. ASSUME NEW h \in Attempts,
               HostConnects(h) \/ HostReady(h) \/ HostDies(h) \/ HostExit(h)
        PROVE  host'[g] = host[g]
    BY <1>0, <1>2, <2>3 DEF HostConnects, HostReady, HostDies, HostExit, Alive
  <2> QED BY <1>2, <2>1, <2>2, <2>3 DEF Next, vars
<1> QED BY <1>1, <1>2 DEF HostsSame


(* Steps that leave the creation where it is.                                *)
LEMMA EntriesDispose ==
    ASSUME TypeOK, QueueInv, EntryInv, HostsKept, HostsSame, NEW c \in Clients,
           NEW kill, NEW then, BeginDispose(c, kill, then),
           UNCHANGED <<queue, pending, creator>>
    PROVE  EntryInv'
<1>0. /\ proc \in [Clients -> Refs] /\ server \in [Clients -> Refs]
      /\ awaiting \subseteq Clients /\ stopped \subseteq Attempts
  BY TypeOf DEF TypeOK
<1>1. \A d : Creating(d)' <=> Creating(d)
  BY QueueSame
<1>2. \A g \in Attempts : host'[g] # "none" => host[g] # "none"
  BY DEF HostsSame
<1>3. \A d \in Clients : server[d] # 0 /\ proc[d] = 0 =>
         /\ creator'.stage = "fork" /\ creator'.gen = creator.gen /\ Creating(d)'
  BY <1>1, TypeOf, Numbers DEF EntryInv
<1>4. CASE Now(c, then)
  <2>1. /\ \A d \in Clients : proc'[d] = proc[d]
        /\ server'[c] = 0 /\ \A d \in Clients : d # c => server'[d] = server[d]
        /\ awaiting' = awaiting \ {c} /\ stopped' = stopped
    BY <1>0, <1>4 DEF Now
  <2>2. \A d \in awaiting' : d \in Clients /\ server'[d] # 0
    BY <1>0, <2>1 DEF EntryInv
  <2>3. \A g \in stopped' : g \in Attempts /\ (g \in stopped \/ host[g] # "none")
    BY <1>0, <2>1
  <2>4. \A d \in Clients :
              \/ server'[d] = 0 /\ proc'[d] \in {0, proc[d]}
              \/ /\ server'[d] = server[d] /\ proc'[d] = proc[d]
                 /\ server[d] # 0 /\ proc[d] = 0 =>
                       /\ creator'.stage = "fork" /\ creator'.gen = creator.gen
                       /\ Creating(d)'
    BY <1>3, <2>1
  <2> QED BY <1>2, <2>2, <2>3, <2>4, EntriesKept
<1>5. ASSUME NEW i \in Slots, Later(c, kill, then, i) PROVE EntryInv'
  <2>1. UNCHANGED <<proc, server, awaiting>>
    BY <1>5 DEF Later, entries
  <2>2. \A d \in awaiting' : d \in Clients /\ server'[d] # 0
    BY <1>0, <2>1 DEF EntryInv
  <2>3. proc[c] \in Attempts /\ host[proc[c]] # "none"
    BY <1>0, <1>5, Numbers DEF Later, EntryInv
  <2>4. \A g \in stopped' : g \in Attempts /\ (g \in stopped \/ host[g] # "none")
    BY <1>0, <1>5, <2>3 DEF Later
  <2> QED BY <1>2, <1>3, <2>1, <2>2, <2>4, EntriesKept
<1> QED BY <1>4, <1>5, DisposeFacts

LEMMA CreatorDispose ==
    ASSUME TypeOK, QueueInv, SlotInv, CreatorInv, HostsSame, NEW c \in Clients,
           NEW kill, NEW then \in {"timer", "request", "crash", "timeout", "late"},
           BeginDispose(c, kill, then), UNCHANGED <<queue, pending, creator>>
    PROVE  CreatorInv'
<1>0. disposals \in [Slots -> DisposalType]
  BY TypeOf
<1>1. proc' = proc /\ raced \subseteq raced'
  BY DisposeFacts DEF Now, Later, entries
<1>2. disposals'[0] = disposals[0]
  <2>1. CASE Now(c, then)
    BY <2>1 DEF Now
  <2>2. ASSUME NEW i \in Slots, Later(c, kill, then, i)
        PROVE  disposals'[0] = disposals[0]
    BY <1>0, <2>2, Numbers DEF Later, OwnSlot
  <2> QED BY <2>1, <2>2, DisposeFacts
<1>3. NoProcessYet' => NoProcessYet
  BY <1>2 DEF NoProcessYet
<1> QED BY <1>1, <1>3, CreatorKept

(* Nothing of a disposal is in the way of a creation that is not raced.      *)
LEMMA VerifyAlone ==
    ASSUME IInv, creator.stage = "verify", Head(queue) \notin raced,
           NEW i \in Slots, disposals[i].stage # "free"
    PROVE  disposals[i].client # Head(queue)
<1>1. Head(queue) \in Clients \ raced /\ Creating(Head(queue))
  BY CreatingFacts, HeadFacts DEF IInv, QueueInv
<1>2. Undisturbed(Head(queue))
  BY <1>1 DEF IInv, ClientInv
<1>3. i # 0
  BY DEF IInv, SlotInv
<1> QED BY <1>1, <1>2, <1>3 DEF Undisturbed

LEMMA MapsDisposals ==
    ASSUME IInv, HostsKept, HostsSame, NEW i \in Slots, FinishShutdown(i) \/ Kill(i)
    PROVE  EntryInv' /\ CreatorInv'
<1> DEFINE c == disposals[i].client
<1>0. /\ TypeOK /\ QueueInv /\ SlotInv /\ EntryInv /\ CreatorInv
      /\ proc \in [Clients -> Refs] /\ server \in [Clients -> Refs]
      /\ awaiting \subseteq Clients /\ stopped \subseteq Attempts
      /\ disposals \in [Slots -> DisposalType]
  BY TypeOf DEF IInv, TypeOK
<1>1. disposals[i].stage # "free"
  BY DEF FinishShutdown, Kill
<1>2. /\ c \in Clients /\ disposals[i].then \in Kinds
      /\ i = 0 <=> OwnSlot(disposals[i].then)
      /\ i = 0 => creator.stage = "await" /\ queue # <<>>
      /\ disposals[i].stage = "kill" => disposals[i].kill
      /\ disposals[i].then = "dead" => ~disposals[i].kill /\ Creating(c)
  BY <1>0, <1>1, SlotFacts
<1>3. stopped' = stopped /\ raced \subseteq raced'
  <2>1. CASE Return(i)
    BY <1>2, <2>1, ReturnFacts DEF FinishShutdown, Kill
  <2>2. CASE ~Return(i)
    BY <2>2 DEF FinishShutdown, Kill
  <2> QED BY <2>1, <2>2 DEF FinishShutdown, Kill
<1>4. i # 0 \/ ~Return(i) => UNCHANGED <<queue, pending, creator>>
  <2>1. CASE Return(i) /\ i # 0
    BY <1>0, <1>1, <2>1, QueueReturn
  <2>2. CASE ~Return(i)
    BY <2>2 DEF FinishShutdown, Kill, creation
  <2> QED BY <2>1, <2>2
<1>5. creator.stage = "fork" =>
         /\ creator'.stage = "fork" /\ creator'.gen = creator.gen
         /\ \A d : Creating(d)' <=> Creating(d)
  BY <1>0, <1>2, <1>4, QueueSame
<1>6. \A d \in Clients :
         \/ server'[d] = 0 /\ proc'[d] = 0
         \/ server'[d] = server[d] /\ proc'[d] = proc[d]
  BY <1>0 DEF FinishShutdown, Kill, DeleteEntries, entries
<1>7. \A d \in awaiting' : d \in awaiting /\ server'[d] = server[d]
  BY <1>0 DEF FinishShutdown, Kill, DeleteEntries, entries
<1>8. EntryInv'
  <2>1. \A d \in Clients : server[d] # 0 /\ proc[d] = 0 =>
           /\ creator'.stage = "fork" /\ creator'.gen = creator.gen /\ Creating(d)'
    BY <1>0, <1>5, Numbers DEF EntryInv
  <2>2. \A d \in awaiting' : d \in Clients /\ server'[d] # 0
    BY <1>0, <1>7 DEF EntryInv
  <2>3. \A g \in Attempts : host'[g] # "none" => host[g] # "none"
    BY DEF HostsSame
  <2>4. \A g \in stopped' : g \in Attempts /\ (g \in stopped \/ host[g] # "none")
    BY <1>0, <1>3
  <2>5. \A d \in Clients :
              \/ server'[d] = 0 /\ proc'[d] \in {0, proc[d]}
              \/ /\ server'[d] = server[d] /\ proc'[d] = proc[d]
                 /\ server[d] # 0 /\ proc[d] = 0 =>
                       /\ creator'.stage = "fork" /\ creator'.gen = creator.gen
                       /\ Creating(d)'
    BY <1>6, <2>1
  <2> QED BY <1>0, <2>2, <2>3, <2>4, <2>5, EntriesKept
<1>9. CreatorInv'
  <2>1. \A d \in Clients : proc'[d] \in {0, proc[d]}
    BY <1>6
  <2>2. CASE i # 0 \/ ~Return(i)
    <3>1. UNCHANGED <<queue, pending, creator>>
      BY <1>4, <2>2
    <3>2. disposals'[0].then = disposals[0].then
      <4>1. CASE Return(i)
        BY <1>0, <1>2, <2>2, <4>1, ReturnFacts, Numbers DEF Freed
      <4>2. CASE ~Return(i)
        <5>1. disposals' = [disposals EXCEPT ![i].stage = "kill"]
          BY <4>2 DEF FinishShutdown, Kill
        <5> QED BY <1>0, <5>1, Numbers DEF DisposalType
      <4> QED BY <4>1, <4>2
    <3>3. NoProcessYet' => NoProcessYet
      BY <3>1, <3>2 DEF NoProcessYet
    <3>4. creator.stage = "verify" =>
              \/ Head(queue) \in raced'
              \/ proc'[Head(queue)] = proc[Head(queue)]
      <4>1. ASSUME creator.stage = "verify", Head(queue) \notin raced
            PROVE  proc'[Head(queue)] = proc[Head(queue)]
        <5>1. c # Head(queue) /\ Head(queue) \in Clients
          BY <1>0, <1>1, <4>1, VerifyAlone, HeadFacts DEF QueueInv
        <5>2. \A d \in Clients : d # c => proc'[d] = proc[d]
          BY <1>0 DEF FinishShutdown, Kill, DeleteEntries, entries
        <5> QED BY <5>1, <5>2
      <4> QED BY <1>3, <4>1
    <3> QED BY <1>0, <1>3, <2>1, <3>1, <3>3, <3>4, CreatorKept
  <2>3. CASE i = 0 /\ Return(i)
    <3>1. /\ disposals[i].then \in {"dead", "reclaim"} =>
                queue' = queue /\ ToStage("admit")
          /\ disposals[i].then = "failed" => EndCreation
      BY <1>0, <1>1, <2>3, QueueReturn
    <3>2. Cardinality(Tracked') <= MaxHosts
      BY <1>0, <2>1, TrackedKept, Numbers DEF CreatorInv
    <3>3. CASE disposals[i].then = "failed"
      <4>1. creator'.stage = "idle"
        BY <1>0, <1>2, <2>3, <3>1, <3>3, QueueEnds
      <4> QED BY <3>2, <4>1 DEF CreatorInv, NoProcessYet
    <3>4. CASE disposals[i].then \in {"dead", "reclaim"}
      <4>1. creator'.stage = "admit" /\ queue' = queue
        BY <1>0, <3>1, <3>4, StageTypes DEF Stages
      <4>2. proc'[Head(queue)] = 0
        <5>1. CASE disposals[i].then = "dead"
          <6>1. c = Head(queue) /\ FinishShutdown(i)
            BY <1>0, <1>2, <5>1, CreatingFacts DEF Kill
          <6> QED BY <1>0, <1>2, <6>1 DEF FinishShutdown, DeleteEntries
        <5>2. CASE disposals[i].then = "reclaim"
          <6>1. proc[Head(queue)] = 0 /\ Head(queue) \in Clients
            BY <1>0, <1>2, <2>3, <5>2, HeadFacts DEF CreatorInv, NoProcessYet
          <6> QED BY <2>1, <6>1
        <5> QED BY <3>4, <5>1, <5>2
      <4> QED BY <3>2, <4>1, <4>2 DEF CreatorInv, NoProcessYet
    <3> QED BY <1>2, <2>3, <3>3, <3>4 DEF OwnSlot
  <2> QED BY <2>2, <2>3
<1> QED BY <1>8, <1>9


LEMMA MapsQuiet ==
    ASSUME TypeOK, QueueInv, EntryInv, CreatorInv, HostsKept, HostsSame,
           UNCHANGED <<proc, server, disposals, creator>>, raced \subseteq raced',
           stopped' \subseteq stopped, queue # <<>> => Head(queue') = Head(queue),
           \A d : Creating(d) => Creating(d)',
           \A d \in awaiting' : d \in Clients /\ server[d] # 0
    PROVE  EntryInv' /\ CreatorInv'
<1>1. EntryInv'
  <2>1. \A d \in Clients : server[d] # 0 /\ proc[d] = 0 =>
           /\ creator'.stage = "fork" /\ creator'.gen = creator.gen /\ Creating(d)'
    BY TypeOf, Numbers DEF EntryInv
  <2>2. \A g \in Attempts : host'[g] # "none" => host[g] # "none"
    BY DEF HostsSame
  <2>3. \A g \in stopped' : g \in Attempts /\ (g \in stopped \/ host[g] # "none")
    BY DEF TypeOK
  <2> QED BY <2>1, <2>2, <2>3, EntriesKept
<1>2. NoProcessYet' => NoProcessYet
  BY DEF NoProcessYet
<1>3. CreatorInv'
  BY <1>2, CreatorKept
<1> QED BY <1>1, <1>3

LEMMA MapsOutside ==
    ASSUME IInv, HostsKept, HostsSame, NEW c, NEW g,
           \/ UNCHANGED vars
           \/ /\ c \in Clients
              /\ Browser(c) \/ TimerFires(c) \/ StartupTimeout(c)
           \/ /\ g \in Attempts
              /\ HostConnects(g) \/ HostReady(g) \/ HostDies(g) \/ HostExit(g)
    PROVE  EntryInv' /\ CreatorInv'
<1>0. /\ TypeOK /\ QueueInv /\ SlotInv /\ EntryInv /\ CreatorInv
      /\ awaiting \subseteq Clients /\ \A d \in awaiting : server[d] # 0
  BY DEF IInv, TypeOK, EntryInv
<1>a. ASSUME UNCHANGED <<proc, server, disposals, queue, pending, creator>>,
             raced \subseteq raced', stopped' \subseteq stopped,
             \A d \in awaiting' : d \in Clients /\ server[d] # 0
      PROVE  EntryInv' /\ CreatorInv'
  <2>1. \A d : Creating(d) => Creating(d)'
    BY <1>0, <1>a, QueueSame
  <2> QED BY <1>0, <1>a, <2>1, MapsQuiet
<1>1. CASE UNCHANGED vars
  BY <1>0, <1>1, <1>a DEF vars, creation, entries
<1>2. CASE c \in Clients /\ Connect(c)
  BY <1>0, <1>2, <1>a DEF Connect, creation, entries, Overlap, RacedIf
<1>3. CASE c \in Clients /\ Disconnect(c)
  BY <1>0, <1>3, <1>a DEF Disconnect, creation, entries, RacedIf
<1>4. CASE c \in Clients /\ OpenChannel(c)
  <2>1. /\ UNCHANGED <<proc, server, disposals, queue, pending, creator, stopped>>
        /\ raced \subseteq raced'
    BY <1>4 DEF OpenChannel, creation, Overlap, RacedIf
  <2>2. awaiting' = awaiting \/ (awaiting' = awaiting \cup {c} /\ server[c] # 0)
    BY <1>4 DEF OpenChannel
  <2> QED BY <1>0, <1>4, <1>a, <2>1, <2>2
<1>5. CASE c \in Clients /\ RequestHost(c)
  <2>1. /\ \A d : Creating(d)' <=> Creating(d)
        /\ queue # <<>> => Head(queue') = Head(queue)
    BY <1>0, <1>5, QueueJoins DEF RequestHost
  <2>2. UNCHANGED <<proc, server, disposals, creator, raced, stopped, awaiting>>
    BY <1>5 DEF RequestHost, entries
  <2> QED BY <1>0, <2>1, <2>2, MapsQuiet
<1>6. CASE /\ c \in Clients
           /\ RequestDispose(c) \/ TimerFires(c) \/ StartupTimeout(c)
  <2>1. PICK then \in {"timer", "request", "timeout", "late"} :
          BeginDispose(c, TRUE, then)
    BY <1>6 DEF TimerFires, RequestDispose, StartupTimeout
  <2>2. UNCHANGED <<queue, pending, creator>>
    BY <1>6 DEF TimerFires, RequestDispose, StartupTimeout, creation
  <2>3. then \in {"timer", "request", "crash", "timeout", "late"}
    OBVIOUS
  <2>4. EntryInv'
    BY <1>0, <1>6, <2>1, <2>2, EntriesDispose
  <2>5. CreatorInv'
    BY <1>0, <2>1, <2>2, <2>3, <1>6, CreatorDispose
  <2> QED BY <2>4, <2>5
<1>7. CASE g \in Attempts /\ HostConnects(g)
  BY <1>0, <1>7, <1>a DEF HostConnects, creation, RacedIf
<1>8. CASE g \in Attempts /\ HostReady(g)
  BY <1>0, <1>8, <1>a DEF HostReady, creation
<1>9. CASE g \in Attempts /\ HostDies(g)
  BY <1>0, <1>9, <1>a DEF HostDies, creation, entries
<1>10. CASE g \in Attempts /\ HostExit(g)
  <2>1. UNCHANGED <<queue, pending, creator>> /\ host[g] = "dead"
    BY <1>10 DEF HostExit, creation
  <2>2. CASE Crashed(g)
    <3>1. BeginDispose(owner[g], FALSE, "crash")
      BY <1>10, <2>2 DEF HostExit
    <3>2. owner[g] \in Clients
      BY <1>0, <1>10, <2>1 DEF EntryInv
    <3>3. "crash" \in {"timer", "request", "crash", "timeout", "late"}
      OBVIOUS
    <3> QED BY <1>0, <2>1, <3>1, <3>2, <3>3, EntriesDispose, CreatorDispose
  <2>3. CASE ~Crashed(g)
    BY <1>0, <1>10, <1>a, <2>1, <2>3 DEF HostExit, entries
  <2> QED BY <2>2, <2>3
<1> QED
  BY <1>1, <1>2, <1>3, <1>4, <1>5, <1>6, <1>7, <1>8, <1>9, <1>10 DEF Browser

(* The steps of a creation.                                                  *)
LEMMA MapsStage ==
    ASSUME TypeOK, QueueInv, EntryInv, CreatorInv, HostsKept, queue # <<>>,
           UNCHANGED <<proc, host>>,
           \A d \in Clients :
              \/ server'[d] = 0
              \/ /\ server'[d] = server[d]
                 /\ creator.stage # "fork" \/ d # Head(queue),
           \A d \in awaiting' : d \in Clients /\ server'[d] # 0,
           \A g \in stopped' : g \in Attempts /\ (g \in stopped \/ host[g] # "none"),
           \/ creator'.stage = "await" /\ ~NoProcessYet'
           \/ creator'.stage = "idle"
           \/ /\ queue' = queue /\ proc[Head(queue)] = 0
              /\ creator'.stage \in {"await", "admit"}
           \/ /\ queue' = queue /\ proc[Head(queue)] = 0
              /\ creator'.stage = "listen" /\ Cardinality(Tracked) < MaxHosts
    PROVE  EntryInv' /\ CreatorInv'
<1>1. EntryInv'
  <2>1. ASSUME NEW d \in Clients, server'[d] # 0
        PROVE  server'[d] = server[d] /\ proc[d] = server[d] /\ proc[d] # 0
    <3>1. server'[d] = server[d] /\ (creator.stage # "fork" \/ d # Head(queue))
      BY <2>1
    <3>2. Creating(d) => d = Head(queue)
      BY CreatingFacts
    <3> QED BY <2>1, <3>1, <3>2 DEF EntryInv
  <2>2. \A d \in Clients :
           \/ server'[d] = 0 /\ proc'[d] \in {0, proc[d]}
           \/ /\ server'[d] = server[d] /\ proc'[d] = proc[d]
              /\ server[d] # 0 /\ proc[d] = 0 =>
                    /\ creator'.stage = "fork" /\ creator'.gen = creator.gen
                    /\ Creating(d)'
    BY <2>1
  <2>3. \A g \in Attempts : host'[g] # "none" => host[g] # "none"
    OBVIOUS
  <2> QED BY <2>2, <2>3, EntriesKept
<1>2. Tracked' = Tracked
  BY DEF Tracked
<1>3. CreatorInv'
  <2>1. Cardinality(Tracked') <= MaxHosts
    BY <1>2 DEF CreatorInv
  <2>2. creator'.stage \notin {"fork", "verify"}
    BY DEF NoProcessYet
  <2>3. NoProcessYet' => proc'[Head(queue')] = 0
    BY DEF NoProcessYet
  <2>4. creator'.stage \in {"listen", "fork"} => Cardinality(Tracked') < MaxHosts
    BY <1>2, <2>2
  <2> QED BY <2>1, <2>2, <2>3, <2>4 DEF CreatorInv
<1> QED BY <1>1, <1>3

\* The creation awaits its own disposal in slot 0.
LEMMA AwaitsOwn ==
    ASSUME TypeOK, NEW c, NEW kill, NEW then, NEW i, Later(c, kill, then, i),
           OwnSlot(then), creator'.stage = "await"
    PROVE  disposals'[0].then = then /\ (then # "reclaim" => ~NoProcessYet')
<1>1. i = 0 /\ disposals' = [disposals EXCEPT ![0] = Disposal(c, proc[c], kill, then)]
  BY DEF Later
<1>2. disposals'[0] = Disposal(c, proc[c], kill, then)
  BY <1>1, TypeOf, Numbers
<1> QED BY <1>2 DEF Disposal, NoProcessYet

LEMMA StoppedLater ==
    ASSUME TypeOK, EntryInv, NEW c \in Clients, NEW kill, NEW then, NEW i,
           Later(c, kill, then, i)
    PROVE  \A g \in stopped' : g \in Attempts /\ (g \in stopped \/ host[g] # "none")
<1>1. proc[c] \in Attempts /\ host[proc[c]] # "none"
  BY TypeOf, Numbers DEF Later, EntryInv
<1> QED BY <1>1 DEF Later, TypeOK

LEMMA MapsFail ==
    ASSUME TypeOK, QueueInv, EntryInv, CreatorInv, HostsKept, NEW c, Creating(c),
           Fail(c), host' = host
    PROVE  EntryInv' /\ CreatorInv'
<1>1. c \in Clients /\ queue # <<>> /\ c = Head(queue)
  BY CreatingFacts
<1>2. \A g \in stopped : g \in Attempts
  BY DEF TypeOK
<1>3. CASE proc[c] = 0
  <2>1. Now(c, "failed") /\ EndCreation
    BY <1>3, FailFacts
  <2>2. creator'.stage = "idle"
    BY <1>1, <2>1, QueueEnds
  <2>3. /\ proc' = proc /\ stopped' = stopped /\ server'[c] = 0
        /\ \A d \in Clients : d # c => server'[d] = server[d]
        /\ awaiting' = awaiting \ {c}
    BY <1>1, <2>1, TypeOf DEF Now
  <2>4. \A d \in awaiting' : d \in Clients /\ server'[d] # 0
    BY <2>3 DEF EntryInv, TypeOK
  <2> QED BY <1>1, <1>2, <2>2, <2>3, <2>4, MapsStage
<1>4. CASE proc[c] # 0
  <2>1. PICK i \in Slots : Later(c, TRUE, "failed", i)
    BY <1>4, FailFacts
  <2>2. creator'.stage = "await"
    BY <1>4, FailFacts, StageTypes DEF Stages
  <2>3. ~NoProcessYet'
    <3>1. OwnSlot("failed") /\ "failed" # "reclaim"
      BY DEF OwnSlot
    <3> QED BY <2>1, <2>2, <3>1, AwaitsOwn
  <2>4. creator.stage # "fork"
    BY <1>1, <1>4 DEF CreatorInv, NoProcessYet
  <2>5. UNCHANGED <<proc, server, awaiting>>
    BY <2>1 DEF Later, entries
  <2>6. \A d \in awaiting' : d \in Clients /\ server'[d] # 0
    BY <2>5 DEF EntryInv, TypeOK
  <2>7. \A g \in stopped' : g \in Attempts /\ (g \in stopped \/ host[g] # "none")
    BY <1>1, <2>1, StoppedLater
  <2> QED BY <1>1, <2>2, <2>3, <2>4, <2>5, <2>6, <2>7, MapsStage
<1> QED BY <1>3, <1>4


LEMMA MapsListen ==
    ASSUME TypeOK, QueueInv, EntryInv, CreatorInv, HostsKept, NEW c,
           Creating(c), creator.stage = "listen", NEW g \in Attempts \ Used,
           owner' = [owner EXCEPT ![g] = c], server' = [server EXCEPT ![c] = g],
           creator'.stage = "fork", creator'.gen = g,
           UNCHANGED <<queue, pending, proc, awaiting, stopped, host>>
    PROVE  EntryInv' /\ CreatorInv'
<1>0. /\ c \in Clients /\ queue # <<>> /\ c = Head(queue)
      /\ proc \in [Clients -> Refs] /\ server \in [Clients -> Refs]
      /\ owner \in [Attempts -> Clients \cup {NoClient}]
      /\ "fork" \in Stages \ {"idle"}
  BY CreatingFacts, TypeOf DEF Stages
<1>1. proc[c] = 0
  BY <1>0 DEF CreatorInv, NoProcessYet
<1>2. host[g] = "none"
  BY <1>0, ClientsAssumption DEF Used, EntryInv
<1>3. Creating(c)'
  BY <1>0, QueueStage
<1>4. \A d \in Clients : server[d] # 0 => proc[d] = server[d]
  BY DEF EntryInv
<1>5. server'[c] = g /\ \A d \in Clients : d # c => server'[d] = server[d]
  BY <1>0
<1>6. EntryInv'
  <2>1. \A d \in Clients : proc'[d] # 0 => owner'[proc'[d]] = d /\ host'[proc'[d]] # "none"
    BY <1>0, Numbers DEF EntryInv, HostsKept
  <2>2. \A d \in Clients : server'[d] # 0 =>
           \/ proc'[d] = server'[d]
           \/ /\ proc'[d] = 0 /\ creator'.stage = "fork"
              /\ Creating(d)' /\ server'[d] = creator'.gen
    BY <1>1, <1>3, <1>4, <1>5
  <2>3. \A d \in awaiting' : server'[d] # 0
    BY <1>0, <1>5, Numbers DEF EntryInv, TypeOK
  <2>4. \A h \in Attempts : host'[h] # "none" => owner'[h] \in Clients
    BY DEF EntryInv, HostsKept
  <2>5. \A h \in stopped' : host'[h] # "none"
    BY DEF EntryInv
  <2> QED BY <2>1, <2>2, <2>3, <2>4, <2>5 DEF EntryInv
<1>7. CreatorInv'
  <2>1. Tracked' = Tracked
    BY DEF Tracked
  <2>2. owner'[g] = c
    BY <1>0
  <2> QED BY <1>0, <1>1, <1>2, <2>1, <2>2 DEF CreatorInv
<1> QED BY <1>6, <1>7

LEMMA MapsFork ==
    ASSUME TypeOK, QueueInv, EntryInv, CreatorInv, HostsKept, NEW c,
           Creating(c), creator.stage = "fork",
           host' = [host EXCEPT ![creator.gen] = "starting"],
           proc' = [proc EXCEPT ![c] = creator.gen],
           ToStage("verify"),
           UNCHANGED <<queue, pending, server, awaiting, stopped, owner>>
    PROVE  EntryInv' /\ CreatorInv'
<1>0. /\ c \in Clients /\ queue # <<>> /\ c = Head(queue)
      /\ proc \in [Clients -> Refs] /\ server \in [Clients -> Refs]
      /\ host \in [Attempts -> HostStates]
      /\ creator'.stage = "verify" /\ creator'.gen = creator.gen
  BY CreatingFacts, TypeOf, StageTypes DEF Stages
<1>1. proc[c] = 0 /\ Cardinality(Tracked) < MaxHosts
      /\ creator.gen \in Attempts /\ owner[creator.gen] = c
      /\ host[creator.gen] = "none"
  BY <1>0 DEF CreatorInv, NoProcessYet
<1>2. /\ proc'[c] = creator.gen /\ \A d \in Clients : d # c => proc'[d] = proc[d]
      /\ host'[creator.gen] = "starting"
      /\ \A h \in Attempts : h # creator.gen => host'[h] = host[h]
  BY <1>0, <1>1
<1>3. EntryInv'
  <2>1. \A d \in Clients : proc'[d] # 0 => owner'[proc'[d]] = d /\ host'[proc'[d]] # "none"
    BY <1>0, <1>1, <1>2, Numbers DEF EntryInv, HostsKept
  <2>2. ASSUME NEW d \in Clients, server'[d] # 0 PROVE proc'[d] = server'[d]
    <3>1. CASE d = c
      BY <1>0, <1>1, <1>2, <2>2, <3>1 DEF EntryInv
    <3>2. CASE d # c
      <4>1. ~Creating(d)
        BY <1>0, <3>2, CreatingFacts
      <4> QED BY <1>2, <2>2, <3>2, <4>1 DEF EntryInv
    <3> QED BY <3>1, <3>2
  <2>3. \A d \in awaiting' : server'[d] # 0
    BY DEF EntryInv
  <2>4. \A h \in Attempts : host'[h] # "none" => owner'[h] \in Clients
    BY <1>0, <1>1, <1>2 DEF EntryInv
  <2>5. \A h \in stopped' : host'[h] # "none"
    BY DEF EntryInv, HostsKept, TypeOK
  <2> QED BY <2>1, <2>2, <2>3, <2>4, <2>5 DEF EntryInv
<1>4. Cardinality(Tracked') <= MaxHosts
  <2>1. Tracked' = Tracked \cup {c} /\ c \notin Tracked
    BY <1>0, <1>1, <1>2, Numbers DEF Tracked
  <2>2. IsFiniteSet(Tracked)
    BY ClientsAssumption, FS_Subset DEF Tracked
  <2>3. Cardinality(Tracked') = Cardinality(Tracked) + 1
    BY <2>1, <2>2, FS_AddElement
  <2>4. Cardinality(Tracked) \in Nat
    BY <2>2, FS_CardinalityType
  <2> QED BY <1>1, <2>3, <2>4, Numbers
<1>5. CreatorInv'
  BY <1>0, <1>1, <1>2, <1>4 DEF CreatorInv, NoProcessYet
<1> QED BY <1>3, <1>5

LEMMA MapsCreation ==
    ASSUME IInv, HostsKept, NEW c \in Clients, Creation(c)
    PROVE  EntryInv' /\ CreatorInv'
<1>0. /\ TypeOK /\ QueueInv /\ SlotInv /\ EntryInv /\ CreatorInv
      /\ \A d \in awaiting : d \in Clients /\ server[d] # 0
      /\ \A g \in stopped : g \in Attempts
  BY DEF IInv, TypeOK, EntryInv
<1>a. ASSUME UNCHANGED <<proc, host, server, awaiting, stopped>>,
             queue # <<>>, creator.stage # "fork",
             \/ creator'.stage = "await" /\ ~NoProcessYet'
             \/ creator'.stage = "idle"
             \/ /\ queue' = queue /\ proc[Head(queue)] = 0
                /\ creator'.stage \in {"await", "admit"}
             \/ /\ queue' = queue /\ proc[Head(queue)] = 0
                /\ creator'.stage = "listen" /\ Cardinality(Tracked) < MaxHosts
      PROVE  EntryInv' /\ CreatorInv'
  BY <1>0, <1>a, MapsStage
<1>1. CASE Begin(c)
  <2>1. queue # <<>> /\ Head(queue) = c /\ creator.stage = "idle" /\ host' = host
    BY <1>0, <1>1, TypeOf DEF Begin
  <2>2. CASE proc[c] = 0
    <3>1. ToStage("admit") /\ UNCHANGED <<queue, stopped, proc, server, awaiting>>
      BY <1>1, <2>2, Numbers DEF Begin, Alive, entries
    <3>2. creator'.stage = "admit"
      BY <1>0, <3>1, StageTypes DEF Stages
    <3> QED BY <1>a, <2>1, <2>2, <3>1, <3>2
  <2>3. CASE Alive(proc[c])
    <3>1. EndCreation /\ UNCHANGED <<stopped, proc, server, awaiting>>
      BY <1>1, <2>3 DEF Begin, Alive, entries
    <3>2. creator'.stage = "idle"
      BY <1>0, <2>1, <3>1, QueueEnds
    <3> QED BY <1>a, <2>1, <3>1, <3>2
  <2>4. CASE proc[c] # 0 /\ ~Alive(proc[c])
    <3>1. BeginDispose(c, FALSE, "dead") /\ ToStage("await")
      BY <1>1, <2>4 DEF Begin
    <3>2. PICK i \in Slots : Later(c, FALSE, "dead", i)
      BY <1>0, <2>4, <3>1, DisposeFacts DEF Now
    <3>3. creator'.stage = "await"
      BY <1>0, <3>1, StageTypes DEF Stages
    <3>4. ~NoProcessYet'
      <4>1. OwnSlot("dead") /\ "dead" # "reclaim"
        BY DEF OwnSlot
      <4> QED BY <1>0, <3>2, <3>3, <4>1, AwaitsOwn
    <3>5. UNCHANGED <<proc, server, awaiting>>
      BY <3>2 DEF Later, entries
    <3>6. \A g \in stopped' : g \in Attempts /\ (g \in stopped \/ host[g] # "none")
      BY <1>0, <3>2, StoppedLater
    <3> QED BY <1>0, <2>1, <3>3, <3>4, <3>5, <3>6, MapsStage
  <2> QED BY <2>2, <2>3, <2>4
<1>2. CASE Admit(c)
  <2>1. /\ Creating(c) /\ queue # <<>> /\ c = Head(queue)
        /\ creator.stage = "admit" /\ host' = host
    BY <1>0, <1>2, CreatingFacts DEF Admit
  <2>2. proc[Head(queue)] = 0
    BY <1>0, <2>1 DEF CreatorInv, NoProcessYet
  <2>3. CASE HasRoom
    <3>1. /\ ToStage("listen")
          /\ UNCHANGED <<queue, stopped, proc, server, awaiting>>
      BY <1>2, <2>3 DEF Admit, entries
    <3>2. creator'.stage = "listen"
      BY <1>0, <3>1, StageTypes DEF Stages
    <3> QED BY <1>a, <2>1, <2>2, <2>3, <3>1, <3>2 DEF HasRoom
  <2>4. ASSUME NEW d \in Tracked \ creator.visited,
               BeginDispose(d, Disconnected(d), "reclaim"),
               creator' = [creator EXCEPT !.stage = "await",
                                          !.visited = @ \cup {d}],
               UNCHANGED <<queue, pending>>
        PROVE  EntryInv' /\ CreatorInv'
    <3>1. d \in Clients /\ proc[d] # 0
      BY DEF Tracked
    <3>2. PICK i \in Slots : Later(d, Disconnected(d), "reclaim", i)
      BY <1>0, <2>4, <3>1, DisposeFacts DEF Now
    <3>3. creator'.stage = "await"
      BY <1>0, <2>4, TypeOf DEF CreatorType
    <3>5. UNCHANGED <<proc, server, awaiting>>
      BY <3>2 DEF Later, entries
    <3>6. \A g \in stopped' : g \in Attempts /\ (g \in stopped \/ host[g] # "none")
      BY <1>0, <3>1, <3>2, StoppedLater
    <3> QED BY <1>0, <2>1, <2>2, <2>4, <3>3, <3>5, <3>6, MapsStage
  <2>5. CASE Fail(c)
    BY <1>0, <2>1, <2>5, MapsFail
  <2> QED BY <1>2, <2>3, <2>4, <2>5 DEF Admit
<1>3. CASE Listen(c)
  <2>1. Creating(c) /\ creator.stage = "listen" /\ host' = host
    BY <1>3 DEF Listen
  <2>2. PICK g \in Attempts \ Used :
          /\ owner' = [owner EXCEPT ![g] = c]
          /\ \/ /\ server' = [server EXCEPT ![c] = g]
                /\ creator' = [creator EXCEPT !.stage = "fork", !.gen = g]
                /\ UNCHANGED <<queue, pending, proc, awaiting, stopped>>
             \/ Fail(c)
    BY <1>3 DEF Listen
  <2>3. CASE Fail(c)
    BY <1>0, <2>1, <2>3, MapsFail
  <2>4. CASE /\ server' = [server EXCEPT ![c] = g]
             /\ creator' = [creator EXCEPT !.stage = "fork", !.gen = g]
             /\ UNCHANGED <<queue, pending, proc, awaiting, stopped>>
    <3>1. creator'.stage = "fork" /\ creator'.gen = g
      BY <1>0, <2>4, TypeOf DEF CreatorType
    <3> QED BY <1>0, <2>1, <2>2, <2>4, <3>1, MapsListen
  <2> QED BY <2>2, <2>3, <2>4
<1>4. CASE Fork(c)
  <2>1. Creating(c) /\ creator.stage = "fork" /\ owner' = owner
    BY <1>4 DEF Fork
  <2>2. CASE Fail(c) /\ UNCHANGED host
    BY <1>0, <2>1, <2>2, MapsFail
  <2>3. CASE ~(Fail(c) /\ UNCHANGED host)
    <3>1. /\ host' = [host EXCEPT ![creator.gen] = "starting"]
          /\ proc' = [proc EXCEPT ![c] = creator.gen]
          /\ ToStage("verify")
          /\ UNCHANGED <<queue, pending, server, awaiting, stopped>>
      BY <1>4, <2>3 DEF Fork
    <3> QED BY <1>0, <2>1, <3>1, MapsFork
  <2> QED BY <2>2, <2>3
<1>5. CASE Verify(c)
  <2>1. Creating(c) /\ queue # <<>> /\ creator.stage = "verify" /\ host' = host
    BY <1>0, <1>5, CreatingFacts DEF Verify
  <2>2. CASE Alive(creator.gen) /\ AssertConnected(c)
    <3>1. EndCreation /\ UNCHANGED <<stopped, proc, server, awaiting>>
      BY <1>5, <2>2 DEF Verify, entries
    <3>2. creator'.stage = "idle"
      BY <1>0, <2>1, <3>1, QueueEnds
    <3> QED BY <1>a, <2>1, <3>1, <3>2
  <2>3. CASE ~(Alive(creator.gen) /\ AssertConnected(c))
    <3>1. Fail(c)
      BY <1>5, <2>3 DEF Verify
    <3> QED BY <1>0, <2>1, <3>1, MapsFail
  <2> QED BY <2>2, <2>3
<1> QED BY <1>1, <1>2, <1>3, <1>4, <1>5 DEF Creation

LEMMA MapsStep == IInv /\ [Next]_vars => EntryInv' /\ CreatorInv'
<1> SUFFICES ASSUME IInv, [Next]_vars PROVE EntryInv' /\ CreatorInv'
  OBVIOUS
<1>1. HostsKept
  BY HostsStep
<1>2. CASE \E c \in Clients : Creation(c)
  BY <1>1, <1>2, MapsCreation
<1>3. CASE ~ \E c \in Clients : Creation(c)
  <2>1. HostsSame
    BY <1>3, OutsideHosts
  <2>2. ASSUME NEW i \in Slots, FinishShutdown(i) \/ Kill(i)
        PROVE  EntryInv' /\ CreatorInv'
    BY <1>1, <2>1, <2>2, MapsDisposals
  <2>3. ASSUME NEW c \in Clients, Browser(c) \/ TimerFires(c) \/ StartupTimeout(c)
        PROVE  EntryInv' /\ CreatorInv'
    BY <1>1, <2>1, <2>3, MapsOutside
  <2>4. ASSUME NEW g \in Attempts,
               HostConnects(g) \/ HostReady(g) \/ HostDies(g) \/ HostExit(g)
        PROVE  EntryInv' /\ CreatorInv'
    BY <1>1, <2>1, <2>4, MapsOutside
  <2>5. CASE UNCHANGED vars
    BY <1>1, <2>1, <2>5, MapsOutside
  <2> QED BY <1>3, <2>2, <2>3, <2>4, <2>5 DEF Next
<1> QED BY <1>2, <1>3


-----------------------------------------------------------------------------
(* The slots in use and the races that happened.                            *)

\* A disposal that begins takes a free slot and nothing else.
LEMMA DisposeKeeps ==
    ASSUME TypeOK, NEW c \in Clients, NEW kill, NEW then, BeginDispose(c, kill, then)
    PROVE  /\ proc' = proc /\ raced \subseteq raced'
           /\ \A j \in Slots : disposals[j].stage # "free" => disposals'[j] = disposals[j]
<1>1. CASE Now(c, then)
  BY <1>1 DEF Now
<1>2. ASSUME NEW i \in Slots, Later(c, kill, then, i)
      PROVE  /\ proc' = proc /\ raced \subseteq raced'
             /\ \A j \in Slots : disposals[j].stage # "free" => disposals'[j] = disposals[j]
  <2>1. disposals \in [Slots -> DisposalType]
    BY TypeOf
  <2>2. /\ disposals[i].stage = "free"
        /\ disposals' = [disposals EXCEPT ![i] = Disposal(c, proc[c], kill, then)]
    BY <1>2 DEF Later
  <2>3. \A j \in Slots : disposals[j].stage # "free" => disposals'[j] = disposals[j]
    BY <2>1, <2>2
  <2> QED BY <1>2, <2>3 DEF Later, entries
<1> QED BY <1>1, <1>2, DisposeFacts

LEMMA StepKeeps ==
    ASSUME TypeOK, [Next]_vars, ~ \E i \in Slots : FinishShutdown(i) \/ Kill(i),
           EntryInv, SlotInv, QueueInv
    PROVE  /\ raced \subseteq raced'
           /\ \A j \in Slots : disposals[j].stage # "free" => disposals'[j] = disposals[j]
           /\ proc' = proc \/ \E c \in Clients : Fork(c)
<1> DEFINE Goal == /\ raced \subseteq raced' /\ proc' = proc
                   /\ \A j \in Slots :
                        disposals[j].stage # "free" => disposals'[j] = disposals[j]
<1>a. ASSUME NEW c \in Clients, NEW kill, NEW then, BeginDispose(c, kill, then)
      PROVE  Goal
  BY <1>a, DisposeKeeps
<1>b. ASSUME raced \subseteq raced', UNCHANGED <<proc, disposals>> PROVE Goal
  BY <1>b
<1> HIDE DEF Goal
<1>1. CASE UNCHANGED vars
  BY <1>1, <1>b DEF vars, entries, Goal
<1>2. ASSUME NEW c \in Clients, Connect(c) \/ Disconnect(c) \/ OpenChannel(c) \/ RequestHost(c)
      PROVE  Goal
  BY <1>2, <1>b DEF Connect, Disconnect, OpenChannel, RequestHost, Overlap, RacedIf,
     entries
<1>3. ASSUME NEW c \in Clients, RequestDispose(c) \/ TimerFires(c) \/ StartupTimeout(c)
      PROVE  Goal
  BY <1>3, <1>a DEF RequestDispose, TimerFires, StartupTimeout
<1>4. ASSUME NEW g \in Attempts, HostConnects(g) \/ HostReady(g) \/ HostDies(g)
      PROVE  Goal
  BY <1>4, <1>b DEF HostConnects, HostReady, HostDies, RacedIf, entries
<1>5. ASSUME NEW g \in Attempts, HostExit(g) PROVE Goal
  <2>1. CASE Crashed(g)
    <3>1. owner[g] \in Clients
      BY <1>5 DEF HostExit, EntryInv
    <3> QED BY <1>5, <1>a, <2>1, <3>1 DEF HostExit
  <2>2. CASE ~Crashed(g)
    BY <1>5, <1>b, <2>2 DEF HostExit, entries
  <2> QED BY <2>1, <2>2
<1>6. ASSUME NEW c \in Clients, Fail(c) PROVE Goal
  BY <1>6, <1>a DEF Fail
<1>7. ASSUME NEW c \in Clients, Begin(c) PROVE Goal
  BY <1>7, <1>a, <1>b DEF Begin, entries, Overlap, RacedIf
<1>8. ASSUME NEW c \in Clients, Admit(c) PROVE Goal
  BY <1>8, <1>a, <1>b, <1>6 DEF Admit, entries, Tracked
<1>9. ASSUME NEW c \in Clients, Listen(c) \/ Verify(c) PROVE Goal
  BY <1>9, <1>b, <1>6 DEF Listen, Verify, entries
<1>10. ASSUME NEW c \in Clients, Fork(c)
       PROVE  /\ raced \subseteq raced'
              /\ \A j \in Slots : disposals[j].stage # "free" => disposals'[j] = disposals[j]
  BY <1>10, <1>6 DEF Fork, Goal
<1> QED
  BY <1>1, <1>2, <1>3, <1>4, <1>5, <1>7, <1>8, <1>9, <1>10
     DEF Next, Creation, Browser, Goal

\* What a step of a disposal leaves alone.
LEMMA DisposalKeeps ==
    ASSUME TypeOK, QueueInv, SlotInv, NEW i \in Slots, FinishShutdown(i) \/ Kill(i)
    PROVE  /\ raced \subseteq raced' /\ disposals[i].stage # "free"
           /\ disposals[i].client \in Clients
           /\ \A j \in Slots \ {i} : disposals'[j] = disposals[j]
           /\ \/ Return(i) /\ Freed(i)
              \/ /\ FinishShutdown(i) /\ disposals[i].kill
                 /\ disposals' = [disposals EXCEPT ![i].stage = "kill"]
                 /\ UNCHANGED <<zombies, aware, creation, raced>>
<1>0. disposals \in [Slots -> DisposalType] /\ disposals[i].stage # "free"
  BY TypeOf DEF FinishShutdown, Kill
<1>1. disposals[i].then \in Kinds /\ disposals[i].client \in Clients
  BY <1>0, SlotFacts
<1>2. CASE Return(i)
  <2>1. Freed(i) /\ raced \subseteq raced'
    BY <1>1, <1>2, ReturnFacts
  <2>2. \A j \in Slots \ {i} : disposals'[j] = disposals[j]
    BY <1>0, <2>1 DEF Freed
  <2> QED BY <1>0, <1>1, <1>2, <2>1, <2>2
<1>3. CASE ~Return(i)
  <2>1. /\ FinishShutdown(i) /\ disposals[i].kill
        /\ disposals' = [disposals EXCEPT ![i].stage = "kill"]
        /\ UNCHANGED <<zombies, aware, creation, raced>>
    BY <1>3 DEF FinishShutdown, Kill
  <2>2. \A j \in Slots \ {i} : disposals'[j] = disposals[j]
    BY <1>0, <2>1
  <2> QED BY <1>0, <1>1, <2>1, <2>2
<1> QED BY <1>2, <1>3

LEMMA RacedGrows == IInv /\ [Next]_vars => raced \subseteq raced'
<1> SUFFICES ASSUME IInv, [Next]_vars PROVE raced \subseteq raced'
  OBVIOUS
<1>0. TypeOK /\ QueueInv /\ SlotInv /\ EntryInv
  BY DEF IInv
<1>1. CASE \E i \in Slots : FinishShutdown(i) \/ Kill(i)
  BY <1>0, <1>1, DisposalKeeps
<1>2. CASE ~ \E i \in Slots : FinishShutdown(i) \/ Kill(i)
  BY <1>0, <1>2, StepKeeps
<1> QED BY <1>1, <1>2

(* Every living process is in the map, or about to be killed.               *)
LEMMA OwnedStep == IInv /\ [Next]_vars => \A g \in Attempts : Owned(g)'
<1> SUFFICES ASSUME IInv, [Next]_vars, NEW g \in Attempts, Alive(g)',
                    owner'[g] \notin raced'
             PROVE  \/ proc'[owner'[g]] = g
                    \/ \E i \in Slots : disposals'[i].pid = g /\ disposals'[i].kill
  BY DEF Owned
<1>0. /\ TypeOK /\ QueueInv /\ SlotInv /\ EntryInv /\ CreatorInv
      /\ HostsKept /\ raced \subseteq raced' /\ Owned(g)
      /\ proc \in [Clients -> Refs] /\ disposals \in [Slots -> DisposalType]
      /\ host \in [Attempts -> HostStates]
  BY HostsStep, RacedGrows, TypeOf DEF IInv
<1>1. ASSUME NEW c \in Clients, Fork(c), ~Fail(c)
      PROVE  /\ Creating(c) /\ c = Head(queue) /\ c \in Clients
             /\ creator.stage = "fork" /\ proc[c] = 0
             /\ creator.gen \in Attempts /\ owner[creator.gen] = c
             /\ proc' = [proc EXCEPT ![c] = creator.gen]
             /\ host' = [host EXCEPT ![creator.gen] = "starting"]
             /\ owner' = owner
  <2>1. Creating(c) /\ c = Head(queue) /\ creator.stage = "fork"
    BY <1>0, <1>1, CreatingFacts DEF Fork
  <2>2. proc[c] = 0 /\ creator.gen \in Attempts /\ owner[creator.gen] = c
    BY <1>0, <2>1 DEF CreatorInv, NoProcessYet
  <2> QED BY <1>1, <2>1, <2>2 DEF Fork
<1>2. CASE host[g] = "none"
  <2>1. PICK c \in Clients : Creation(c)
    <3>1. ~HostsSame
      BY <1>2, Numbers DEF HostsSame, Alive
    <3> QED BY <3>1, OutsideHosts
  <2>2. Fork(c) /\ ~Fail(c)
    <3>1. host' # host
      BY <1>0, <1>2, Numbers DEF Alive
    <3>2. Fork(c)
      BY <2>1, <3>1 DEF Creation, Begin, Admit, Listen, Verify
    <3>3. ~Fail(c)
      <4>1. ASSUME Fail(c) PROVE FALSE
        <5>1. Creating(c) /\ creator.stage = "fork"
          BY <3>2 DEF Fork
        <5>2. proc[c] = 0
          BY <1>0, <5>1, CreatingFacts DEF CreatorInv, NoProcessYet
        <5>3. creator'.stage = "idle" /\ creator.gen \in Attempts
          BY <1>0, <4>1, <5>1, <5>2, FailFacts, QueueEnds, CreatingFacts DEF CreatorInv
        <5>4. ~ToStage("verify")
          BY <1>0, <5>3, StageTypes DEF Stages
        <5> QED BY <3>1, <3>2, <5>4 DEF Fork
      <4> QED BY <4>1
    <3> QED BY <3>2, <3>3
  <2>3. /\ c \in Clients /\ creator.gen \in Attempts /\ owner[creator.gen] = c
        /\ proc' = [proc EXCEPT ![c] = creator.gen]
        /\ host' = [host EXCEPT ![creator.gen] = "starting"]
        /\ owner' = owner
    BY <1>1, <2>2
  <2>4. g = creator.gen
    BY <1>0, <1>2, <2>3, Numbers DEF Alive
  <2> QED BY <1>0, <2>3, <2>4
<1>3. CASE host[g] # "none"
  <2> DEFINE c == owner[g]
  <2>1. /\ owner'[g] = c /\ Alive(g) /\ c \notin raced /\ c \in Clients
        /\ c \notin raced'
    BY <1>0, <1>3, Numbers DEF HostsKept, Alive, EntryInv
  <2> HIDE DEF c
  <2>2. \/ proc[c] = g
        \/ \E j \in Slots : disposals[j].pid = g /\ disposals[j].kill
    BY <1>0, <2>1 DEF Owned, c
  <2>3. CASE ~ \E i \in Slots : FinishShutdown(i) \/ Kill(i)
    <3>1. ASSUME NEW j \in Slots, disposals[j].pid = g, disposals[j].kill
          PROVE  disposals'[j].pid = g /\ disposals'[j].kill
      <4>1. disposals[j].stage # "free"
        BY <1>0, <3>1, FreeFacts
      <4> QED BY <1>0, <2>3, <3>1, <4>1, StepKeeps
    <3>2. ASSUME proc[c] = g PROVE proc'[c] = g
      <4>1. CASE proc' = proc
        BY <3>2, <4>1
      <4>2. ASSUME NEW d \in Clients, Fork(d), proc' # proc PROVE proc'[c] = g
        <5>1. ~Fail(d)
          BY <1>0, <4>2, DisposeKeeps DEF Fail
        <5>2. proc[d] = 0 /\ proc' = [proc EXCEPT ![d] = creator.gen]
          BY <1>1, <4>2, <5>1
        <5> QED BY <1>0, <2>1, <3>2, <5>2, Numbers
      <4> QED BY <1>0, <2>3, <4>1, <4>2, StepKeeps
    <3> QED BY <2>1, <2>2, <3>1, <3>2
  <2>4. ASSUME NEW i \in Slots, FinishShutdown(i) \/ Kill(i)
        PROVE  \/ proc'[c] = g
               \/ \E j \in Slots : disposals'[j].pid = g /\ disposals'[j].kill
    <3>1. /\ disposals[i].client \in Clients /\ disposals[i].pid \in Attempts
          /\ ~disposals[i].kill => ~Alive(disposals[i].pid)
          /\ disposals[i].stage # "free"
      BY <1>0, <2>4, SlotFacts DEF FinishShutdown, Kill
    <3>k. Kill(i) => disposals[i].pid # g
      <4>1. ASSUME Kill(i), disposals[i].pid = g PROVE FALSE
        <5>1. host' = [host EXCEPT ![g] = IF Alive(g) THEN "dead" ELSE host[g]]
          BY <4>1 DEF Kill
        <5>2. host'[g] = "dead"
          BY <1>0, <2>1, <5>1
        <5> QED BY <5>2 DEF Alive
      <4> QED BY <4>1
    <3>2. CASE \E j \in Slots : disposals[j].pid = g /\ disposals[j].kill
      <4>1. PICK j \in Slots : disposals[j].pid = g /\ disposals[j].kill
        BY <3>2
      <4>2. CASE j # i
        BY <1>0, <2>4, <4>1, <4>2, DisposalKeeps
      <4>3. CASE j = i
        <5>1. FinishShutdown(i) /\ disposals[i].kill
          BY <2>4, <3>k, <4>1, <4>3
        <5>2. disposals' = [disposals EXCEPT ![i].stage = "kill"]
          BY <5>1 DEF FinishShutdown
        <5>3. disposals'[i].pid = disposals[i].pid /\ disposals'[i].kill = disposals[i].kill
          BY <1>0, <5>2 DEF DisposalType
        <5> QED BY <4>1, <4>3, <5>3
      <4> QED BY <4>2, <4>3
    <3>3. CASE proc[c] = g
      <4>1. CASE Kill(i) \/ disposals[i].client # c
        BY <1>0, <2>1, <2>4, <3>3, <4>1 DEF FinishShutdown, Kill, DeleteEntries, entries
      <4>2. CASE FinishShutdown(i) /\ disposals[i].client = c
        <5>1. Undisturbed(c)
          BY <2>1 DEF IInv, ClientInv
        <5>2. disposals[i].pid = g
          BY <3>3, <4>2, <5>1, Numbers DEF Undisturbed
        <5>3. disposals[i].kill
          BY <2>1, <3>1, <5>2
        <5>4. disposals' = [disposals EXCEPT ![i].stage = "kill"]
          BY <4>2, <5>3 DEF FinishShutdown
        <5>5. disposals'[i].pid = disposals[i].pid /\ disposals'[i].kill = disposals[i].kill
          BY <1>0, <5>4 DEF DisposalType
        <5> QED BY <5>2, <5>3, <5>5
      <4> QED BY <2>4, <4>1, <4>2
    <3> QED BY <2>2, <3>2, <3>3
  <2> QED BY <2>1, <2>3, <2>4
<1> QED BY <1>2, <1>3


-----------------------------------------------------------------------------
(* The clients.  What a step leaves alone keeps what holds of it.           *)

SlotsSame(d) ==
    \A i \in Slots : disposals[i].client = d \/ disposals'[i].client = d =>
                        disposals'[i] = disposals[i]
ProcSame(d) ==
    /\ proc'[d] = proc[d]
    /\ proc[d] # 0 => host'[proc[d]] = host[proc[d]]
QueueSame2(d) ==
    /\ InQueue(d)' <=> InQueue(d)
    /\ Creating(d)' <=> Creating(d)
MarksSame(d) ==
    /\ d \in connected' <=> d \in connected
    /\ d \in channel' <=> d \in channel
    /\ d \in aware' <=> d \in aware
    /\ waits'[d] = waits[d]
FieldsSame(d) ==
    /\ d \in zombies' <=> d \in zombies
    /\ d \in timers' <=> d \in timers
    /\ d \in awaiting' <=> d \in awaiting
Fine(d) == Undisturbed(d) /\ Marked(d) /\ LookedAfter(d) /\ Served(d)

LEMMA DisposingSame ==
    ASSUME NEW d, SlotsSame(d) PROVE Disposing(d)' <=> Disposing(d)
BY DEF SlotsSame, Disposing

LEMMA UndisturbedKept ==
    ASSUME NEW d, Undisturbed(d), SlotsSame(d), proc'[d] = proc[d],
           Creating(d)' => Creating(d), d \in channel' => d \in channel,
           d \in aware /\ d \in channel' => d \in aware',
           proc[d] \in stopped' => proc[d] \in stopped
    PROVE  Undisturbed(d)'
<1>1. Creating(d)' => \A i \in Slots : disposals'[i].client = d => i = 0
  BY DEF Undisturbed, SlotsSame
<1>2. ASSUME NEW i \in Slots, disposals'[i].client = d
      PROVE  /\ proc'[d] \in {0, disposals'[i].pid}
             /\ disposals'[i].stage = "kill" => proc'[d] = 0
             /\ disposals'[i].then \in {"timer", "reclaim"} => d \notin channel'
             /\ disposals'[i].then = "request" /\ d \in channel' => d \in aware'
  <2>1. disposals'[i] = disposals[i] /\ disposals[i].client = d
    BY <1>2 DEF SlotsSame
  <2> QED BY <2>1 DEF Undisturbed
<1>3. proc'[d] \in stopped' => Disposing(d)'
  BY DisposingSame DEF Undisturbed
<1> QED BY <1>1, <1>2, <1>3 DEF Undisturbed

LEMMA FineSame ==
    ASSUME NEW d, Fine(d), SlotsSame(d), ProcSame(d), QueueSame2(d), MarksSame(d),
           FieldsSame(d), proc[d] \in stopped' => proc[d] \in stopped
    PROVE  Fine(d)'
<1>0. /\ Undisturbed(d) /\ Marked(d) /\ LookedAfter(d) /\ Served(d)
      /\ Disposing(d)' <=> Disposing(d)
  BY DisposingSame DEF Fine
<1>1. Undisturbed(d)'
  BY <1>0, UndisturbedKept DEF ProcSame, QueueSame2, MarksSame
<1>2. Marked(d)'
  BY <1>0 DEF Marked, QueueSame2, MarksSame, FieldsSame
<1>3. Alive(proc[d])' <=> Alive(proc[d])
  BY DEF ProcSame, Alive
<1>4. LookedAfter(d)'
  BY <1>0, <1>3 DEF LookedAfter, QueueSame2, MarksSame, FieldsSame
<1>5. Served(d)'
  BY <1>0, <1>3 DEF Served, Coming, ProcSame, QueueSame2, MarksSame, FieldsSame
<1> QED BY <1>1, <1>2, <1>4, <1>5 DEF Fine

(* A disposal of another client.                                             *)
LEMMA DisposeOthers ==
    ASSUME TypeOK, SlotInv, EntryInv, NEW c \in Clients, NEW kill, NEW then,
           BeginDispose(c, kill, then), NEW d \in Clients, d # c
    PROVE  /\ SlotsSame(d) /\ proc'[d] = proc[d] /\ FieldsSame(d)
           /\ proc[d] \in stopped' => proc[d] \in stopped
<1>0. disposals \in [Slots -> DisposalType] /\ proc \in [Clients -> Refs]
  BY TypeOf
<1>1. CASE Now(c, then)
  BY <1>1 DEF Now, SlotsSame, FieldsSame
<1>2. ASSUME NEW i \in Slots, Later(c, kill, then, i)
      PROVE  /\ SlotsSame(d) /\ proc'[d] = proc[d] /\ FieldsSame(d)
             /\ proc[d] \in stopped' => proc[d] \in stopped
  <2>1. /\ disposals[i].stage = "free"
        /\ disposals' = [disposals EXCEPT ![i] = Disposal(c, proc[c], kill, then)]
    BY <1>2 DEF Later
  <2>2. disposals[i].client # d /\ disposals'[i].client # d
    BY <1>0, <2>1, FreeFacts, ClientsAssumption DEF Disposal
  <2>3. SlotsSame(d)
    BY <1>0, <2>1, <2>2 DEF SlotsSame
  <2>4. proc'[d] = proc[d] /\ FieldsSame(d)
    BY <1>2 DEF Later, entries, FieldsSame
  <2>5. proc[d] \in stopped' => proc[d] \in stopped
    <3>1. proc[c] # 0 /\ stopped' \subseteq stopped \cup {proc[c]}
      BY <1>2 DEF Later
    <3>2. proc[d] # proc[c]
      BY <1>0, <3>1 DEF EntryInv
    <3> QED BY <3>1, <3>2
  <2> QED BY <2>3, <2>4, <2>5
<1> QED BY <1>1, <1>2, DisposeFacts

(* A disposal of the client itself that finds no process.                    *)
LEMMA NowSubject ==
    ASSUME TypeOK, NEW c \in Clients, NEW then, Now(c, then), Undisturbed(c),
           Creating(c)' => Creating(c), channel' = channel,
           c \in aware => c \in aware',
           c \notin raced', ~Disposing(c) \/ then \notin {"dead", "failed"},
           then \in {"dead", "failed"} => ~InQueue(c)',
           then \notin {"dead", "failed"} => (InQueue(c)' => InQueue(c))
    PROVE  /\ Undisturbed(c)' /\ Marked(c)' /\ LookedAfter(c)'
           /\ Disposing(c)' <=> Disposing(c)
           /\ then \notin {"dead", "failed"} => ~InQueue(c)
<1>1. SlotsSame(c) /\ proc'[c] = proc[c] /\ proc[c] = 0 /\ stopped' = stopped
  BY DEF Now, SlotsSame
<1>2. Undisturbed(c)'
  BY <1>1, UndisturbedKept
<1>3. then \notin {"dead", "failed"} => ~InQueue(c)
  BY DEF Now, Race
<1>4. Marked(c)'
  BY <1>3 DEF Marked
<1>5. LookedAfter(c)'
  BY <1>1 DEF LookedAfter, Alive
<1> QED BY <1>1, <1>2, <1>3, <1>4, <1>5, DisposingSame

(* And one that finds a process.                                             *)
LEMMA LaterSubject ==
    ASSUME TypeOK, SlotInv, NEW c \in Clients, NEW kill, NEW then, NEW i,
           Later(c, kill, then, i), Undisturbed(c), Marked(c),
           channel' = channel, connected' = connected, c \in aware => c \in aware',
           then \in {"timer", "reclaim"} => c \notin channel,
           then = "request" => c \in aware',
           Creating(c)' => OwnSlot(then) /\ ~Disposing(c),
           InQueue(c)' => InQueue(c)
    PROVE  /\ Undisturbed(c)' /\ Marked(c)' /\ LookedAfter(c)'
           /\ Disposing(c)'
<1>0. disposals \in [Slots -> DisposalType] /\ i \in Slots
  BY TypeOf DEF Later
<1>1. /\ disposals' = [disposals EXCEPT ![i] = Disposal(c, proc[c], kill, then)]
      /\ UNCHANGED <<proc, zombies>> /\ (i = 0 <=> OwnSlot(then)) /\ proc[c] # 0
  BY DEF Later, entries
<1>2. /\ disposals'[i].client = c /\ disposals'[i].pid = proc[c]
      /\ disposals'[i].then = then /\ disposals'[i].stage = "shutdown"
      /\ \A j \in Slots : j # i => disposals'[j] = disposals[j]
  BY <1>0, <1>1 DEF Disposal
<1>3. Disposing(c)'
  BY <1>0, <1>2 DEF Disposing
<1>4. Creating(c)' => \A j \in Slots : disposals'[j].client = c => j = 0
  BY <1>1, <1>2 DEF Disposing
<1>5. ASSUME NEW j \in Slots, disposals'[j].client = c
      PROVE  /\ proc'[c] \in {0, disposals'[j].pid}
             /\ disposals'[j].stage = "kill" => proc'[c] = 0
             /\ disposals'[j].then \in {"timer", "reclaim"} => c \notin channel'
             /\ disposals'[j].then = "request" /\ c \in channel' => c \in aware'
  <2>1. CASE j = i
    BY <1>1, <1>2, <2>1
  <2>2. CASE j # i
    BY <1>1, <1>2, <1>5, <2>2 DEF Undisturbed
  <2> QED BY <2>1, <2>2
<1>6. Undisturbed(c)'
  BY <1>3, <1>4, <1>5 DEF Undisturbed
<1>7. Marked(c)'
  BY <1>1 DEF Marked
<1>8. LookedAfter(c)'
  BY <1>3 DEF LookedAfter
<1> QED BY <1>3, <1>6, <1>7, <1>8


LEMMA QuietSame ==
    ASSUME TypeOK, QueueInv, NEW d, UNCHANGED <<disposals, proc, queue, pending, creator>>
    PROVE  /\ SlotsSame(d) /\ QueueSame2(d) /\ proc'[d] = proc[d]
           /\ host' = host => ProcSame(d)
BY QueueSame DEF SlotsSame, QueueSame2, ProcSame

(* The steps of a browser.                                                   *)
LEMMA FineConnect ==
    ASSUME TypeOK, QueueInv, NEW c \in Clients, NEW d \in Clients, Fine(d), Connect(c)
    PROVE  Fine(d)'
<1>0. /\ UNCHANGED <<channel, aware, zombies, timers, awaiting, stopped, waits>>
      /\ connected' = connected \cup {c}
  BY DEF Connect, entries
<1>1. /\ SlotsSame(d) /\ ProcSame(d) /\ QueueSame2(d) /\ FieldsSame(d)
  BY <1>0, QuietSame DEF Connect, entries, creation, FieldsSame
<1>2. CASE d # c
  BY <1>0, <1>1, <1>2, FineSame DEF MarksSame
<1>3. CASE d = c
  <2>1. Undisturbed(d)'
    BY <1>0, <1>1, UndisturbedKept DEF Fine, ProcSame, QueueSame2
  <2>2. Marked(d)' /\ LookedAfter(d)'
    BY <1>0, <1>3 DEF Marked, LookedAfter
  <2>3. Served(d)'
    BY <1>0, <1>1, DisposingSame
       DEF Fine, Served, Coming, Alive, ProcSame, QueueSame2, FieldsSame
  <2> QED BY <2>1, <2>2, <2>3 DEF Fine
<1> QED BY <1>2, <1>3

LEMMA FineDisconnect ==
    ASSUME TypeOK, QueueInv, NEW c \in Clients, NEW d \in Clients, Fine(d),
           d \notin raced', Disconnect(c)
    PROVE  Fine(d)'
<1>0. /\ UNCHANGED <<awaiting, stopped, waits>>
      /\ connected' = connected \ {c} /\ channel' = channel \ {c}
      /\ aware' = aware \ {c}
      /\ zombies' = (IF IsKnown(c) THEN zombies \cup {c} ELSE zombies)
      /\ timers' = (IF IsKnown(c) THEN Armed(c) ELSE timers)
      /\ raced' = (IF ~IsKnown(c) /\ InQueue(c) THEN raced \cup {c} ELSE raced)
  BY DEF Disconnect, entries, RacedIf
<1>1. /\ SlotsSame(d) /\ ProcSame(d) /\ QueueSame2(d)
  BY QuietSame DEF Disconnect, entries, creation
<1>2. CASE d # c
  BY <1>0, <1>1, <1>2, FineSame DEF MarksSame, FieldsSame, Armed
<1>3. CASE d = c
  <2>1. Undisturbed(d)'
    BY <1>0, <1>1, <1>3, UndisturbedKept DEF Fine, ProcSame, QueueSame2
  <2>2. Marked(d)'
    BY <1>0, <1>1, <1>3 DEF Marked, QueueSame2
  <2>3. LookedAfter(d)'
    <3>1. ASSUME Alive(proc[d])' PROVE d \in timers' \/ Creating(d)'
      <4>1. proc[d] # 0
        BY <1>1, <3>1 DEF ProcSame, Alive
      <4>2. timers' = Armed(c)
        BY <1>0, <1>3, <4>1 DEF IsKnown
      <4>3. c \in pending => Creating(c)
        BY DEF QueueInv
      <4> QED BY <1>1, <1>3, <4>2, <4>3 DEF Armed, CreatorOwnsCleanup, QueueSame2
    <3> QED BY <3>1 DEF LookedAfter
  <2>4. Served(d)'
    BY <1>0, <1>3 DEF Served
  <2> QED BY <2>1, <2>2, <2>3, <2>4 DEF Fine
<1> QED BY <1>2, <1>3

LEMMA FineOpenChannel ==
    ASSUME TypeOK, QueueInv, NEW c \in Clients, NEW d \in Clients, Fine(d),
           d \notin raced', OpenChannel(c)
    PROVE  Fine(d)'
<1>0. /\ UNCHANGED <<connected, stopped, waits, linked, server>>
      /\ c \in connected /\ channel' = channel \cup {c}
      /\ zombies' = zombies \ {c}
      /\ raced' = (IF Disposing(c) THEN raced \cup {c} ELSE raced)
  BY DEF OpenChannel, Overlap, RacedIf
<1>1. /\ SlotsSame(d) /\ ProcSame(d) /\ QueueSame2(d)
  BY QuietSame DEF OpenChannel, creation
<1>2. CASE d # c
  <2>1. /\ d \in timers' <=> d \in timers
        /\ d \in awaiting' <=> d \in awaiting
        /\ d \in aware' <=> d \in aware
    BY <1>2 DEF OpenChannel, Told, Armed
  <2> QED BY <1>0, <1>1, <1>2, <2>1, FineSame DEF MarksSame, FieldsSame
<1>3. CASE d = c
  <2>1. Undisturbed(d)'
    <3>1. ~Disposing(d) /\ Undisturbed(d)
      BY <1>0, <1>3 DEF Fine
    <3>2. \A i \in Slots : disposals'[i].client # d
      BY <1>1, <3>1 DEF Disposing, SlotsSame
    <3>3. proc'[d] \notin stopped'
      BY <1>0, <1>1, <3>1 DEF Undisturbed, ProcSame
    <3> QED BY <3>2, <3>3 DEF Undisturbed
  <2>2. Marked(d)' /\ LookedAfter(d)'
    BY <1>0, <1>3 DEF Marked, LookedAfter
  <2>3. Served(d)'
    <3>1. \/ awaiting' = awaiting \cup {c}
          \/ Alive(proc[c])
          \/ Told(c)
      BY DEF OpenChannel
    <3>2. Alive(proc[c]) => Alive(proc[c])'
      BY <1>1, <1>3 DEF ProcSame, Alive
    <3> QED BY <1>0, <1>3, <3>1, <3>2 DEF Served, Coming, Told
  <2> QED BY <2>1, <2>2, <2>3 DEF Fine
<1> QED BY <1>2, <1>3

LEMMA FineRequestHost ==
    ASSUME TypeOK, QueueInv, NEW c \in Clients, NEW d \in Clients, Fine(d), RequestHost(c)
    PROVE  Fine(d)'
<1>0. /\ UNCHANGED <<connected, channel, zombies, timers, awaiting, stopped, waits>>
      /\ c \in connected /\ aware' = aware \ {c}
      /\ c \notin opened \/ Returned(c)
  BY DEF RequestHost, entries
<1>1. /\ \A e : InQueue(e)' <=> InQueue(e) \/ e = c
      /\ \A e : Creating(e)' <=> Creating(e)
  BY QueueJoins DEF RequestHost
<1>2. SlotsSame(d) /\ ProcSame(d) /\ FieldsSame(d)
  BY DEF RequestHost, entries, SlotsSame, ProcSame, FieldsSame
<1>3. CASE d # c
  BY <1>0, <1>1, <1>2, <1>3, FineSame DEF MarksSame, QueueSame2
<1>4. CASE d = c
  <2>1. Undisturbed(d)'
    <3>1. ASSUME NEW i \in Slots, disposals'[i].client = d, d \in channel'
          PROVE  disposals'[i].then # "request"
      <4>1. disposals'[i] = disposals[i] /\ disposals[i].client = d
        BY <1>2, <3>1 DEF SlotsSame
      <4>2. Returned(c)
        BY <1>0, <1>4, <3>1 DEF TypeOK
      <4> QED BY <1>4, <4>1, <4>2 DEF Returned
    <3>2. Undisturbed(d)
      BY DEF Fine
    <3>3. ASSUME NEW i \in Slots, disposals'[i].client = d
          PROVE  /\ proc'[d] \in {0, disposals'[i].pid}
                 /\ disposals'[i].stage = "kill" => proc'[d] = 0
                 /\ disposals'[i].then \in {"timer", "reclaim"} => d \notin channel'
                 /\ disposals'[i].then = "request" /\ d \in channel' => d \in aware'
                 /\ Creating(d)' => i = 0
      <4>1. disposals'[i] = disposals[i] /\ disposals[i].client = d
        BY <1>2, <3>3 DEF SlotsSame
      <4> QED BY <1>0, <1>1, <1>2, <3>1, <3>2, <3>3, <4>1 DEF Undisturbed, ProcSame
    <3>4. proc'[d] \in stopped' => Disposing(d)'
      BY <1>0, <1>2, <3>2, DisposingSame DEF Undisturbed, ProcSame
    <3> QED BY <3>3, <3>4 DEF Undisturbed
  <2>2. Marked(d)' /\ LookedAfter(d)'
    BY <1>0, <1>4 DEF Marked, LookedAfter
  <2>3. Served(d)'
    BY <1>1, <1>4 DEF Served, Coming
  <2> QED BY <2>1, <2>2, <2>3 DEF Fine
<1> QED BY <1>3, <1>4

LEMMA FineRequestDispose ==
    ASSUME TypeOK, QueueInv, SlotInv, EntryInv, NEW c \in Clients, NEW d \in Clients,
           Fine(d), d \notin raced', RequestDispose(c)
    PROVE  Fine(d)'
<1>0. /\ UNCHANGED <<connected, channel, waits, host>>
      /\ c \in connected /\ aware' = aware \cup {c}
      /\ BeginDispose(c, TRUE, "request")
  BY DEF RequestDispose
<1>1. QueueSame2(d)
  BY QueueSame DEF RequestDispose, creation, QueueSame2
<1>2. CASE d # c
  BY <1>0, <1>1, <1>2, DisposeOthers, FineSame DEF MarksSame, ProcSame
<1>3. CASE d = c
  <2>1. Served(d)'
    BY <1>0, <1>3 DEF Served
  <2>2. CASE Now(c, "request")
    BY <1>0, <1>1, <1>3, <2>1, <2>2, NowSubject DEF Fine, QueueSame2
  <2>3. ASSUME NEW i \in Slots, Later(c, TRUE, "request", i) PROVE Fine(d)'
    <3>1. ~InQueue(c) /\ ~Creating(c)'
      <4>1. ~InQueue(c)
        BY <1>3, <2>3 DEF Later, Race
      <4> QED BY <1>1, <1>3, <4>1, CreatingFacts DEF QueueSame2
    <3> QED BY <1>0, <1>1, <1>3, <2>1, <2>3, <3>1, LaterSubject DEF Fine, QueueSame2
  <2> QED BY <1>0, <2>2, <2>3, DisposeFacts
<1> QED BY <1>2, <1>3

LEMMA FineTimer ==
    ASSUME TypeOK, QueueInv, SlotInv, EntryInv, NEW c \in Clients, NEW d \in Clients,
           Fine(d), d \notin raced', TimerFires(c)
    PROVE  Fine(d)'
<1>0. /\ UNCHANGED <<connected, channel, aware, waits, host>>
      /\ BeginDispose(c, TRUE, "timer")
  BY DEF TimerFires, browsers
<1>1. QueueSame2(d)
  BY QueueSame DEF TimerFires, creation, QueueSame2
<1>2. CASE d # c
  BY <1>0, <1>1, <1>2, DisposeOthers, FineSame DEF MarksSame, ProcSame
<1>3. CASE d = c
  <2>2. CASE Now(c, "timer")
    <3>1. /\ Undisturbed(d)' /\ Marked(d)' /\ LookedAfter(d)'
          /\ Disposing(d)' <=> Disposing(d)
          /\ ~InQueue(d)
      BY <1>0, <1>1, <1>3, <2>2, NowSubject DEF Fine, QueueSame2
    <3>2. Served(d)'
      <4>1. ASSUME d \in channel PROVE d \in aware' \/ Coming(d)'
        <5>1. proc[d] = 0
          BY <1>3, <2>2 DEF Now
        <5>2. d \notin awaiting
          <6>1. ~Creating(d)
            BY <3>1, CreatingFacts
          <6> QED BY <5>1, <6>1 DEF EntryInv
        <5>3. d \in aware \/ Disposing(d) \/ waits[d] # {}
          BY <3>1, <4>1, <5>1, <5>2 DEF Fine, Served, Coming, Alive
        <5> QED BY <1>0, <3>1, <5>3 DEF Coming
      <4> QED BY <1>0, <4>1 DEF Served
    <3> QED BY <3>1, <3>2 DEF Fine
  <2>3. ASSUME NEW i \in Slots, Later(c, TRUE, "timer", i) PROVE Fine(d)'
    <3>1. ~InQueue(c) /\ ~Creating(c)' /\ c \notin channel
      <4>1. ~InQueue(c) /\ c \notin channel
        BY <1>3, <2>3 DEF Later, Race
      <4> QED BY <1>1, <1>3, <4>1, CreatingFacts DEF QueueSame2
    <3>2. Served(d)'
      BY <1>0, <1>3, <3>1 DEF Served
    <3> QED BY <1>0, <1>1, <1>3, <2>3, <3>1, <3>2, LaterSubject DEF Fine, QueueSame2
  <2> QED BY <1>0, <2>2, <2>3, DisposeFacts
<1> QED BY <1>2, <1>3

LEMMA FineTimeout ==
    ASSUME TypeOK, QueueInv, SlotInv, EntryInv, NEW c \in Clients, NEW d \in Clients,
           Fine(d), d \notin raced', StartupTimeout(c)
    PROVE  Fine(d)'
<1>0. PICK g \in waits[c] :
        /\ UNCHANGED <<connected, channel, host>>
        /\ waits' = [waits EXCEPT ![c] = @ \ {g}]
        /\ BeginDispose(c, TRUE, IF proc[c] \in {0, g} THEN "timeout" ELSE "late")
        /\ IF proc[c] = 0 THEN Told(c) ELSE UNCHANGED aware
  BY DEF StartupTimeout, browsers
<1>1. QueueSame2(d)
  BY QueueSame DEF StartupTimeout, creation, QueueSame2
<1>2. CASE d # c
  <2>1. PICK then : BeginDispose(c, TRUE, then)
    BY <1>0
  <2>2. waits'[d] = waits[d] /\ (d \in aware' <=> d \in aware)
    BY <1>0, <1>2, TypeOf DEF Told
  <2> QED BY <1>0, <1>1, <1>2, <2>1, <2>2, DisposeOthers, FineSame DEF MarksSame, ProcSame
<1>3. CASE d = c
  <2>1. BeginDispose(c, TRUE, "timeout")
    <3>1. CASE proc[c] \in {0, g}
      BY <1>0, <3>1
    <3>2. CASE proc[c] \notin {0, g}
      <4>1. BeginDispose(c, TRUE, "late")
        BY <1>0, <3>2
      <4>2. c \in raced'
        BY <4>1 DEF BeginDispose, RacedIf, Race
      <4> QED BY <1>3, <4>2
    <3> QED BY <3>1, <3>2
  <2>2. CASE Now(c, "timeout")
    <3>1. Told(c)
      BY <1>0, <2>2 DEF Now
    <3>2. Served(d)'
      BY <1>0, <1>3, <3>1 DEF Served, Told, TypeOK
    <3>3. c \in aware => c \in aware'
      BY <3>1 DEF Told
    <3> QED BY <1>0, <1>1, <1>3, <2>2, <3>2, <3>3, NowSubject DEF Fine, QueueSame2
  <2>3. ASSUME NEW i \in Slots, Later(c, TRUE, "timeout", i) PROVE Fine(d)'
    <3>1. ~InQueue(c) /\ ~Creating(c)' /\ aware' = aware
      <4>1. ~InQueue(c) /\ proc[c] # 0
        BY <1>3, <2>3 DEF Later, Race
      <4> QED BY <1>0, <1>1, <1>3, <4>1, CreatingFacts DEF QueueSame2
    <3>2. Undisturbed(d)' /\ Marked(d)' /\ LookedAfter(d)' /\ Disposing(d)'
      BY <1>0, <1>1, <1>3, <2>3, <3>1, LaterSubject DEF Fine, QueueSame2
    <3> QED BY <3>2 DEF Fine, Served, Coming
  <2> QED BY <2>1, <2>2, <2>3, DisposeFacts
<1> QED BY <1>2, <1>3


(* The steps of a host.                                                      *)
LEMMA FineConnects ==
    ASSUME TypeOK, QueueInv, EntryInv, CreatorInv, NEW g \in Attempts, NEW d \in Clients,
           Fine(d), d \notin raced', HostConnects(g)
    PROVE  Fine(d)'
<1> DEFINE c == owner[g]
<1>0. /\ UNCHANGED <<connected, channel, aware, zombies, stopped, waits, host>>
      /\ timers' = (IF c \in awaiting THEN timers \ {c} ELSE timers)
      /\ awaiting' = awaiting \ {c}
      /\ raced' = (IF c \in awaiting /\ c \notin channel THEN raced \cup {c} ELSE raced)
      /\ host[g] = "starting" /\ server[c] = g
  BY DEF HostConnects, browsers, RacedIf
<1>1. SlotsSame(d) /\ ProcSame(d) /\ QueueSame2(d)
  BY <1>0, QuietSame DEF HostConnects, creation
<1>2. c \in Clients /\ proc[c] = g
  BY <1>0, LinkedHost
<1> HIDE DEF c
<1>3. CASE d # c
  BY <1>0, <1>1, <1>3, FineSame DEF MarksSame, FieldsSame
<1>4. CASE d = c
  <2>1. Undisturbed(d)'
    BY <1>0, <1>1, UndisturbedKept DEF Fine, ProcSame, QueueSame2
  <2>2. Marked(d)'
    BY <1>0, <1>1 DEF Fine, Marked, QueueSame2
  <2>3. Alive(proc[d]) /\ Alive(proc[d])'
    BY <1>0, <1>1, <1>2, <1>4, Numbers DEF Alive, ProcSame
  <2>4. LookedAfter(d)'
    <3>1. ASSUME d \notin connected PROVE d \in timers' \/ Disposing(d) \/ Creating(d)
      <4>1. c \notin awaiting
        BY <1>0, <1>4, <3>1 DEF TypeOK
      <4> QED BY <1>0, <2>3, <3>1, <4>1 DEF Fine, LookedAfter
    <3> QED BY <1>0, <1>1, <3>1, DisposingSame DEF LookedAfter, QueueSame2
  <2>5. Served(d)'
    BY <2>3 DEF Served
  <2> QED BY <2>1, <2>2, <2>4, <2>5 DEF Fine
<1> QED BY <1>3, <1>4

LEMMA FineReady ==
    ASSUME TypeOK, QueueInv, EntryInv, CreatorInv, NEW g \in Attempts, NEW d \in Clients,
           Fine(d), HostReady(g)
    PROVE  Fine(d)'
<1> DEFINE c == owner[g]
<1>0. /\ UNCHANGED <<connected, channel, aware, zombies, timers, awaiting, stopped>>
      /\ host' = [host EXCEPT ![g] = "ready"]
      /\ waits' = [waits EXCEPT ![c] = @ \ {proc[c]}]
      /\ host[g] = "starting" /\ server[c] = g
  BY DEF HostReady, browsers
<1>1. SlotsSame(d) /\ QueueSame2(d) /\ proc'[d] = proc[d]
  BY QuietSame DEF HostReady, creation
<1>2. c \in Clients /\ proc[c] = g
  BY <1>0, LinkedHost
<1>5. host \in [Attempts -> HostStates] /\ proc \in [Clients -> Refs]
      /\ waits \in [Clients -> SUBSET Attempts]
  BY TypeOf
<1>3. CASE d # c
  <2>1. proc[d] # g
    BY <1>3, Numbers DEF EntryInv
  <2>2. ProcSame(d)
    BY <1>0, <1>1, <1>5, <2>1, Numbers DEF ProcSame
  <2>3. waits'[d] = waits[d]
    BY <1>0, <1>3, <1>5
  <2> QED BY <1>0, <1>1, <1>3, <2>2, <2>3, FineSame DEF MarksSame, FieldsSame
<1> HIDE DEF c
<1>4. CASE d = c
  <2>1. Undisturbed(d)'
    BY <1>0, <1>1, UndisturbedKept DEF Fine, QueueSame2
  <2>2. Marked(d)'
    BY <1>0, <1>1 DEF Fine, Marked, QueueSame2
  <2>3. Alive(proc[d]) /\ Alive(proc[d])'
    BY <1>0, <1>1, <1>2, <1>4, <1>5, Numbers DEF Alive
  <2>4. LookedAfter(d)'
    BY <1>0, <1>1, <2>3, DisposingSame DEF Fine, LookedAfter, QueueSame2
  <2>5. Served(d)'
    BY <2>3 DEF Served
  <2> QED BY <2>1, <2>2, <2>4, <2>5 DEF Fine
<1> QED BY <1>3, <1>4

LEMMA FineDies ==
    ASSUME TypeOK, QueueInv, EntryInv, NEW g \in Attempts, NEW d \in Clients,
           Fine(d), HostDies(g)
    PROVE  Fine(d)'
<1>0. /\ UNCHANGED <<connected, channel, aware, zombies, timers, awaiting, stopped,
                     waits>>
      /\ host' = [host EXCEPT ![g] = "dead"] /\ Alive(g)
  BY DEF HostDies, browsers, entries
<1>1. SlotsSame(d) /\ QueueSame2(d) /\ proc'[d] = proc[d]
  BY QuietSame DEF HostDies, creation, entries
<1>2. host \in [Attempts -> HostStates] /\ proc \in [Clients -> Refs]
  BY TypeOf
<1>3. CASE proc[d] # g
  <2>1. ProcSame(d)
    BY <1>0, <1>1, <1>2, <1>3, Numbers DEF ProcSame
  <2> QED BY <1>0, <1>1, <2>1, FineSame DEF MarksSame, FieldsSame
<1>4. CASE proc[d] = g
  <2>1. Undisturbed(d)'
    BY <1>0, <1>1, UndisturbedKept DEF Fine, QueueSame2
  <2>2. Marked(d)'
    BY <1>0, <1>1 DEF Fine, Marked, QueueSame2
  <2>3. proc'[d] # 0 /\ host'[proc'[d]] = "dead"
    BY <1>0, <1>1, <1>2, <1>4, Numbers
  <2>4. LookedAfter(d)'
    BY <2>3 DEF LookedAfter, Alive
  <2>5. Served(d)'
    BY <2>3 DEF Served, Coming
  <2> QED BY <2>1, <2>2, <2>4, <2>5 DEF Fine
<1> QED BY <1>3, <1>4

LEMMA FineExit ==
    ASSUME TypeOK, QueueInv, SlotInv, EntryInv, NEW g \in Attempts, NEW d \in Clients,
           Fine(d), d \notin raced', HostExit(g)
    PROVE  Fine(d)'
<1> DEFINE c == owner[g]
<1>0. /\ UNCHANGED <<connected, channel, aware, waits>>
      /\ host' = [host EXCEPT ![g] = "gone"] /\ host[g] = "dead"
      /\ IF Crashed(g)
         THEN BeginDispose(c, FALSE, "crash")
         ELSE /\ stopped' = stopped \ {g}
              /\ UNCHANGED <<zombies, timers, entries, disposals, raced>>
  BY DEF HostExit, browsers
<1>1. QueueSame2(d)
  BY QueueSame DEF HostExit, creation, QueueSame2
<1>2. /\ host \in [Attempts -> HostStates] /\ proc \in [Clients -> Refs]
      /\ c \in Clients
  BY <1>0, TypeOf DEF EntryInv
<1>3. d # c => proc[d] # g
  BY Numbers DEF EntryInv
<1>4. Crashed(g) <=> g \notin stopped /\ proc[c] = g
  BY DEF Crashed
<1> HIDE DEF c
<1>5. proc[d] # g => (proc[d] # 0 => host'[proc[d]] = host[proc[d]])
  BY <1>0, <1>2, Numbers
<1>6. CASE ~Crashed(g)
  <2>1. /\ SlotsSame(d) /\ proc'[d] = proc[d] /\ FieldsSame(d)
        /\ stopped' \subseteq stopped
    BY <1>0, <1>6 DEF SlotsSame, FieldsSame, entries
  <2>2. CASE proc[d] # g
    BY <1>0, <1>1, <1>5, <2>1, <2>2, FineSame DEF MarksSame, ProcSame
  <2>3. CASE proc[d] = g
    <3>1. g \in stopped
      BY <1>3, <1>4, <1>6, <2>3
    <3>2. Disposing(d)'
      BY <2>1, <2>3, <3>1, DisposingSame DEF Fine, Undisturbed
    <3>3. Undisturbed(d)'
      BY <1>0, <1>1, <2>1, UndisturbedKept DEF Fine, QueueSame2
    <3>4. Marked(d)'
      BY <1>0, <1>1, <2>1 DEF Fine, Marked, QueueSame2, FieldsSame
    <3> QED BY <3>2, <3>3, <3>4 DEF Fine, LookedAfter, Served, Coming
  <2> QED BY <2>2, <2>3
<1>7. CASE Crashed(g) /\ d # c
  <2>1. BeginDispose(c, FALSE, "crash")
    BY <1>0, <1>7
  <2> QED BY <1>0, <1>1, <1>2, <1>3, <1>5, <1>7, <2>1, DisposeOthers, FineSame
          DEF MarksSame, ProcSame
<1>8. CASE Crashed(g) /\ d = c
  <2>1. BeginDispose(c, FALSE, "crash") /\ proc[c] = g /\ g # 0
    BY <1>0, <1>4, <1>8, Numbers
  <2>2. PICK i \in Slots : Later(d, FALSE, "crash", i)
    BY <1>2, <1>8, <2>1, DisposeFacts DEF Now
  <2>3. ~InQueue(d) /\ ~InQueue(d)' /\ ~Creating(d)'
    <3>1. ~InQueue(d)
      BY <2>2 DEF Later, Race
    <3> QED BY <1>1, <3>1, CreatingFacts DEF QueueSame2
  <2>4. Undisturbed(d)' /\ Marked(d)' /\ LookedAfter(d)' /\ Disposing(d)'
    BY <1>0, <2>2, <2>3, LaterSubject DEF Fine
  <2> QED BY <2>4 DEF Fine, Served, Coming
<1> QED BY <1>6, <1>7, <1>8

(* The steps of a disposal.                                                  *)
LEMMA FineShutdown ==
    ASSUME TypeOK, QueueInv, SlotInv, EntryInv, NEW i \in Slots, NEW d \in Clients,
           Fine(d), FinishShutdown(i), ~Return(i)
    PROVE  Fine(d)'
<1> DEFINE c == disposals[i].client
<1>0. /\ UNCHANGED <<connected, channel, timers, stopped, waits, host>>
      /\ DeleteEntries(c)
  BY DEF FinishShutdown, browsers
<1>1. /\ \A j \in Slots \ {i} : disposals'[j] = disposals[j]
      /\ disposals' = [disposals EXCEPT ![i].stage = "kill"]
      /\ UNCHANGED <<zombies, aware, queue, pending, creator>>
      /\ disposals[i].stage # "free" /\ c \in Clients
  BY DisposalKeeps DEF creation
<1>2. QueueSame2(d)
  BY <1>1, QueueSame DEF QueueSame2
<1>3. /\ disposals \in [Slots -> DisposalType] /\ proc \in [Clients -> Refs]
      /\ stopped \subseteq Attempts
  BY TypeOf DEF TypeOK
<1>4. /\ disposals'[i].client = c /\ disposals'[i].then = disposals[i].then
      /\ disposals'[i].stage = "kill"
  BY <1>1, <1>3 DEF DisposalType
<1>5. CASE d # c
  <2>1. SlotsSame(d)
    BY <1>1, <1>4, <1>5 DEF SlotsSame
  <2>2. proc'[d] = proc[d] /\ (d \in awaiting' <=> d \in awaiting)
    BY <1>0, <1>3, <1>5 DEF DeleteEntries
  <2> QED BY <1>0, <1>1, <1>2, <2>1, <2>2, FineSame DEF MarksSame, FieldsSame, ProcSame
<1>6. CASE d = c
  <2>1. proc'[d] = 0
    BY <1>0, <1>1, <1>3, <1>6 DEF DeleteEntries
  <2>2. Disposing(d)'
    BY <1>4, <1>6 DEF Disposing
  <2>3. ASSUME NEW j \in Slots, disposals'[j].client = d
        PROVE  /\ disposals'[j].then = disposals[j].then
               /\ disposals[j].client = d
    BY <1>1, <1>4, <1>6, <2>3
  <2>4. Undisturbed(d)'
    <3>1. Creating(d)' => \A j \in Slots : disposals'[j].client = d => j = 0
      BY <1>2, <2>3 DEF Fine, Undisturbed, QueueSame2
    <3>2. ASSUME NEW j \in Slots, disposals'[j].client = d
          PROVE  /\ disposals'[j].then \in {"timer", "reclaim"} => d \notin channel'
                 /\ disposals'[j].then = "request" /\ d \in channel' => d \in aware'
      BY <1>0, <1>1, <2>3, <3>2 DEF Fine, Undisturbed
    <3>3. proc'[d] \notin stopped'
      BY <1>0, <1>3, <2>1, Numbers
    <3> QED BY <2>1, <3>1, <3>2, <3>3 DEF Undisturbed
  <2>5. Marked(d)'
    BY <1>0, <1>1, <1>2 DEF Fine, Marked, QueueSame2
  <2> QED BY <2>2, <2>4, <2>5 DEF Fine, LookedAfter, Served, Coming
<1> QED BY <1>5, <1>6

\* What follows a disposal that is over, whatever it was for.
LEMMA FineReturn ==
    ASSUME TypeOK, QueueInv, SlotInv, EntryInv, NEW i \in Slots, NEW d \in Clients,
           Fine(d), d \notin raced', disposals[i].stage # "free", Return(i),
           UNCHANGED <<connected, channel, timers, stopped, waits>>,
           d # disposals[i].client =>
              ProcSame(d) /\ (d \in awaiting' <=> d \in awaiting),
           d = disposals[i].client => proc'[d] = 0
    PROVE  Fine(d)'
<1> DEFINE s == disposals[i]
<1>0. /\ s.client \in Clients /\ s.then \in Kinds
      /\ i = 0 <=> OwnSlot(s.then)
      /\ s.then \in {"dead", "failed"} => Creating(s.client)
  BY SlotFacts
<1>1. /\ Freed(i) /\ zombies' = zombies \ {s.client} /\ After(s)
      /\ raced' = (IF Erased(s.client, s.then) THEN raced \cup {s.client} ELSE raced)
  BY <1>0, ReturnFacts
<1>2. /\ i # 0 => UNCHANGED <<queue, pending, creator>>
      /\ s.then \in {"dead", "reclaim"} => queue' = queue /\ ToStage("admit") /\ queue # <<>>
      /\ s.then = "failed" => EndCreation /\ queue # <<>>
  BY QueueReturn
<1>3. /\ disposals'[i] = NoDisposal
      /\ \A j \in Slots \ {i} : disposals'[j] = disposals[j]
  BY <1>1, TypeOf DEF Freed
<1>t. s.then = disposals[i].then /\ s.client = disposals[i].client
      /\ (i = 0 => creator.stage = "await")
  BY SlotFacts
<1> HIDE DEF s
<1>4. CASE s.then # "failed"
  <2>1. QueueSame2(d)
    <3>1. CASE i # 0
      BY <1>2, <3>1, QueueSame DEF QueueSame2
    <3>2. CASE i = 0
      <4>1. queue' = queue /\ creator'.stage = "admit" /\ creator.stage = "await"
        BY <1>0, <1>2, <1>4, <1>t, <3>2, StageTypes DEF OwnSlot, Stages
      <4> QED BY <4>1 DEF QueueSame2, InQueue, Creating
    <3> QED BY <3>1, <3>2
  <2>2. d # s.client => (d \in aware' <=> d \in aware)
    <3>1. aware' = aware \/ Told(s.client)
      BY <1>0, <1>1, <1>4 DEF Kinds, After
    <3> QED BY <3>1 DEF Told
  <2>3. CASE d # s.client
    <3>1. SlotsSame(d)
      BY <1>3, <1>t, <2>3, ClientsAssumption DEF SlotsSame, NoDisposal
    <3> QED BY <1>1, <1>t, <2>1, <2>2, <2>3, <3>1, FineSame DEF MarksSame, FieldsSame, ProcSame
  <2>4. CASE d = s.client
    <3>1. proc'[d] = 0
      BY <1>t, <2>4
    <3>2. ASSUME NEW j \in Slots, disposals'[j].client = d
          PROVE  disposals'[j] = disposals[j] /\ disposals[j].client = d
      BY <1>3, <3>2, ClientsAssumption DEF NoDisposal
    <3>3. aware \subseteq aware'
      <4>1. aware' = aware \/ Told(s.client)
        BY <1>0, <1>1, <1>4 DEF Kinds, After
      <4> QED BY <4>1 DEF Told
    <3>4. Undisturbed(d)'
      <4>1. Creating(d)' => \A j \in Slots : disposals'[j].client = d => j = 0
        BY <2>1, <3>2 DEF Fine, Undisturbed, QueueSame2
      <4>2. ASSUME NEW j \in Slots, disposals'[j].client = d
            PROVE  /\ disposals'[j].then \in {"timer", "reclaim"} => d \notin channel'
                   /\ disposals'[j].then = "request" /\ d \in channel' => d \in aware'
        BY <3>2, <3>3, <4>2 DEF Fine, Undisturbed
      <4>3. proc'[d] \notin stopped'
        BY <3>1, Numbers DEF TypeOK
      <4> QED BY <3>1, <4>1, <4>2, <4>3 DEF Undisturbed
    <3>5. Marked(d)'
      BY <1>1, <1>4, <2>1, <2>4 DEF Fine, Marked, QueueSame2, Erased
    <3>6. LookedAfter(d)'
      BY <3>1 DEF LookedAfter, Alive
    <3>7. Served(d)'
      <4>1. CASE s.then \in {"timer", "reclaim"}
        BY <1>t, <2>4, <4>1 DEF Fine, Undisturbed, Served
      <4>2. CASE s.then = "request"
        BY <1>t, <2>4, <3>3, <4>2 DEF Fine, Undisturbed, Served
      <4>3. CASE s.then \in {"crash", "timeout", "late"}
        <5>1. Told(d)
          BY <1>1, <2>4, <4>3 DEF After
        <5> QED BY <5>1 DEF Told, Served, TypeOK
      <4>4. CASE s.then = "dead"
        BY <1>0, <2>1, <2>4, <4>4, CreatingFacts DEF Served, Coming, QueueSame2
      <4> QED BY <1>0, <1>4, <4>1, <4>2, <4>3, <4>4 DEF Kinds
    <3> QED BY <3>4, <3>5, <3>6, <3>7 DEF Fine
  <2> QED BY <2>3, <2>4
<1>5. CASE s.then = "failed"
  <2>1. EndCreation /\ Told(s.client) /\ queue # <<>>
    BY <1>1, <1>2, <1>5 DEF After
  <2>2. /\ \A e : InQueue(e)' <=> InQueue(e) /\ e # Head(queue)
        /\ \A e : ~Creating(e)'
        /\ s.client = Head(queue)
    BY <1>0, <1>5, <2>1, QueueEnds, CreatingFacts
  <2>3. CASE d # s.client
    <3>1. SlotsSame(d)
      BY <1>3, <1>t, <2>3, ClientsAssumption DEF SlotsSame, NoDisposal
    <3>2. QueueSame2(d) /\ (d \in aware' <=> d \in aware)
      BY <2>1, <2>2, <2>3, CreatingFacts DEF QueueSame2, Told
    <3> QED BY <1>1, <1>t, <2>3, <3>1, <3>2, FineSame DEF MarksSame, FieldsSame, ProcSame
  <2>4. CASE d = s.client
    <3>1. proc'[d] = 0
      BY <1>t, <2>4
    <3>2. ASSUME NEW j \in Slots, disposals'[j].client = d
          PROVE  disposals'[j] = disposals[j] /\ disposals[j].client = d
      BY <1>3, <3>2, ClientsAssumption DEF NoDisposal
    <3>3. aware \subseteq aware'
      BY <2>1 DEF Told
    <3>4. Undisturbed(d)'
      <4>2. ASSUME NEW j \in Slots, disposals'[j].client = d
            PROVE  /\ disposals'[j].then \in {"timer", "reclaim"} => d \notin channel'
                   /\ disposals'[j].then = "request" /\ d \in channel' => d \in aware'
        BY <3>2, <3>3, <4>2 DEF Fine, Undisturbed
      <4>3. proc'[d] \notin stopped'
        BY <3>1, Numbers DEF TypeOK
      <4> QED BY <2>2, <3>1, <4>2, <4>3 DEF Undisturbed
    <3>5. Marked(d)'
      BY <2>2, <2>4 DEF Marked
    <3>6. LookedAfter(d)'
      BY <3>1 DEF LookedAfter, Alive
    <3>7. Served(d)'
      BY <2>1, <2>4 DEF Served, Told, TypeOK
    <3> QED BY <3>4, <3>5, <3>6, <3>7 DEF Fine
  <2> QED BY <2>3, <2>4
<1> QED BY <1>4, <1>5

LEMMA FineDisposals ==
    ASSUME TypeOK, QueueInv, SlotInv, EntryInv, NEW i \in Slots, NEW d \in Clients,
           Fine(d), d \notin raced', FinishShutdown(i) \/ Kill(i)
    PROVE  Fine(d)'
<1>0. /\ disposals[i].stage # "free" /\ disposals[i].client \in Clients
      /\ disposals[i].pid \in Attempts
      /\ owner[disposals[i].pid] = disposals[i].client
      /\ proc \in [Clients -> Refs] /\ host \in [Attempts -> HostStates]
  BY SlotFacts, TypeOf DEF FinishShutdown, Kill
<1>1. CASE FinishShutdown(i) /\ ~Return(i)
  BY <1>1, FineShutdown
<1>2. CASE FinishShutdown(i) /\ Return(i)
  <2>1. /\ UNCHANGED <<connected, channel, timers, stopped, waits, host>>
        /\ DeleteEntries(disposals[i].client)
    BY <1>2 DEF FinishShutdown, browsers
  <2>2. d # disposals[i].client =>
           ProcSame(d) /\ (d \in awaiting' <=> d \in awaiting)
    BY <1>0, <2>1 DEF DeleteEntries, ProcSame
  <2>3. d = disposals[i].client => proc'[d] = 0
    BY <1>0, <2>1 DEF DeleteEntries
  <2> QED BY <1>0, <1>2, <2>1, <2>2, <2>3, FineReturn
<1>3. CASE Kill(i)
  <2>1. /\ UNCHANGED <<connected, channel, timers, stopped, waits, proc, awaiting>>
        /\ \E s \in HostStates : host' = [host EXCEPT ![disposals[i].pid] = s]
        /\ Return(i) /\ disposals[i].stage = "kill"
    BY <1>0, <1>3 DEF Kill, browsers, entries, HostStates
  <2>2. d # disposals[i].client =>
           ProcSame(d) /\ (d \in awaiting' <=> d \in awaiting)
    <3>1. ASSUME d # disposals[i].client, proc[d] # 0
          PROVE  host'[proc[d]] = host[proc[d]]
      <4>1. proc[d] # disposals[i].pid /\ proc[d] \in Attempts
        BY <1>0, <3>1, Numbers DEF EntryInv
      <4> QED BY <1>0, <2>1, <4>1
    <3> QED BY <2>1, <3>1 DEF ProcSame
  <2>3. d = disposals[i].client => proc'[d] = 0
    BY <2>1 DEF Fine, Undisturbed
  <2> QED BY <1>0, <2>1, <2>2, <2>3, FineReturn
<1> QED BY <1>1, <1>2, <1>3


(* The steps of a creation.                                                  *)

\* The creation goes on to another of its stages, for the same client.
LEMMA StageSame ==
    ASSUME TypeOK, QueueInv, NEW c, Creating(c), queue' = queue,
           creator'.stage # "idle", NEW d
    PROVE  QueueSame2(d)
<1>1. creator.stage # "idle"
  BY DEF Creating
<1> QED BY <1>1 DEF QueueSame2, InQueue, Creating

\* It ends.
LEMMA EndSame ==
    ASSUME TypeOK, QueueInv, NEW c, queue # <<>>, c = Head(queue), EndCreation,
           NEW d, d # c
    PROVE  QueueSame2(d)
<1>1. /\ \A e : InQueue(e)' <=> InQueue(e) /\ e # Head(queue)
      /\ \A e : ~Creating(e)'
  BY QueueEnds
<1> QED BY <1>1, CreatingFacts DEF QueueSame2

LEMMA FineFail ==
    ASSUME TypeOK, QueueInv, SlotInv, EntryInv, NEW c, Creating(c), Fail(c),
           NEW d \in Clients, Fine(d), d \notin raced',
           UNCHANGED <<connected, channel, waits, host>>
    PROVE  Fine(d)'
<1>0. /\ c \in Clients /\ c = Head(queue) /\ queue # <<>> /\ InQueue(c)
      /\ BeginDispose(c, TRUE, "failed")
  BY CreatingFacts DEF Fail
<1>1. d = c => ~Disposing(c)
  <2>1. raced' = (IF Race(c, "failed") THEN raced \cup {c} ELSE raced)
    BY <1>0 DEF BeginDispose, RacedIf
  <2> QED BY <1>0, <2>1 DEF Race
<1>2. CASE proc[c] = 0
  <2>1. Now(c, "failed") /\ EndCreation /\ Told(c)
    BY <1>2, FailFacts
  <2>2. /\ \A e : InQueue(e)' <=> InQueue(e) /\ e # Head(queue)
        /\ \A e : ~Creating(e)'
    BY <1>0, <2>1, QueueEnds
  <2>3. CASE d # c
    <3>1. QueueSame2(d) /\ (d \in aware' <=> d \in aware)
      BY <1>0, <2>1, <2>3, EndSame DEF Told
    <3>2. /\ SlotsSame(d) /\ proc'[d] = proc[d] /\ FieldsSame(d)
          /\ proc[d] \in stopped' => proc[d] \in stopped
      BY <1>0, <2>3, DisposeOthers
    <3> QED BY <3>1, <3>2, FineSame DEF MarksSame, ProcSame
  <2>4. CASE d = c
    <3>1. ~Creating(c)' /\ ~InQueue(c)' /\ (c \in aware => c \in aware')
      BY <1>0, <2>1, <2>2 DEF Told
    <3>2. Undisturbed(d)' /\ Marked(d)' /\ LookedAfter(d)'
      BY <1>0, <1>1, <2>1, <2>4, <3>1, NowSubject DEF Fine
    <3>3. Served(d)'
      BY <2>1, <2>4 DEF Told, Served, TypeOK
    <3> QED BY <3>2, <3>3 DEF Fine
  <2> QED BY <2>3, <2>4
<1>3. CASE proc[c] # 0
  <2>1. /\ \E i \in Slots : Later(c, TRUE, "failed", i)
        /\ ToStage("await") /\ UNCHANGED <<queue, pending, aware>>
    BY <1>3, FailFacts
  <2>2. creator'.stage = "await"
    BY <2>1, StageTypes DEF Stages
  <2>3. QueueSame2(d)
    BY <2>1, <2>2, StageSame
  <2>4. CASE d # c
    <3>2. /\ SlotsSame(d) /\ proc'[d] = proc[d] /\ FieldsSame(d)
          /\ proc[d] \in stopped' => proc[d] \in stopped
      BY <1>0, <2>4, DisposeOthers
    <3> QED BY <2>1, <2>3, <3>2, FineSame DEF MarksSame, ProcSame
  <2>5. CASE d = c
    <3>1. PICK i \in Slots : Later(c, TRUE, "failed", i)
      BY <2>1
    <3>2. OwnSlot("failed") /\ (InQueue(c)' <=> InQueue(c))
      BY <2>3, <2>5 DEF OwnSlot, QueueSame2
    <3>3. Undisturbed(d)' /\ Marked(d)' /\ LookedAfter(d)'
      BY <1>0, <1>1, <2>1, <2>5, <3>1, <3>2, LaterSubject DEF Fine
    <3>4. Served(d)'
      BY <1>0, <2>5, <3>2 DEF Served, Coming
    <3> QED BY <3>3, <3>4 DEF Fine
  <2> QED BY <2>4, <2>5
<1> QED BY <1>2, <1>3

LEMMA FineBegin ==
    ASSUME TypeOK, QueueInv, SlotInv, EntryInv, NEW c \in Clients, Begin(c),
           NEW d \in Clients, Fine(d), d \notin raced'
    PROVE  Fine(d)'
<1>0. /\ queue # <<>> /\ Head(queue) = c /\ creator.stage = "idle"
      /\ UNCHANGED <<connected, channel, aware, host>> /\ InQueue(c)
      /\ \A e : ~Creating(e)
  BY TypeOf, HeadFacts DEF Begin, browsers, Creating
<1>1. CASE proc[c] = 0
  <2>1. /\ ToStage("admit") /\ pending' = pending \cup {c}
        /\ raced' = (IF Disposing(c) THEN raced \cup {c} ELSE raced)
        /\ UNCHANGED <<queue, zombies, timers, stopped, proc, awaiting, waits, disposals>>
    BY <1>1, Numbers, Zenon DEF Begin, Alive, Overlap, RacedIf, entries
  <2>2. creator'.stage = "admit" /\ "admit" \in Stages \ {"idle"}
    BY <2>1, StageTypes DEF Stages
  <2>3. /\ \A e : InQueue(e)' <=> InQueue(e)
        /\ \A e : Creating(e)' <=> e = c
    BY <1>0, <2>1, <2>2, QueueStage
  <2>4. SlotsSame(d) /\ ProcSame(d) /\ MarksSame(d) /\ FieldsSame(d)
    BY <1>0, <2>1 DEF SlotsSame, ProcSame, MarksSame, FieldsSame
  <2>5. CASE d # c
    BY <1>0, <2>1, <2>3, <2>4, <2>5, FineSame DEF QueueSame2
  <2>6. CASE d = c
    <3>1. ~Disposing(d) /\ ~Disposing(d)'
      BY <2>1, <2>4, <2>6, DisposingSame
    <3>2. proc'[d] \notin stopped'
      BY <2>1, <3>1 DEF Fine, Undisturbed
    <3>3. Undisturbed(d)'
      BY <3>1, <3>2 DEF Undisturbed, Disposing
    <3>4. Marked(d)'
      BY <2>3, <2>4 DEF Fine, Marked, MarksSame, FieldsSame
    <3> QED BY <1>0, <2>3, <2>6, <3>3, <3>4 DEF Fine, LookedAfter, Served, Coming
  <2> QED BY <2>5, <2>6
<1>2. CASE Alive(proc[c])
  <2>1. /\ EndCreation /\ AwaitReady(c)
        /\ raced' = (IF Disposing(c) THEN raced \cup {c} ELSE raced)
        /\ UNCHANGED <<zombies, timers, stopped, proc, awaiting, disposals>>
    BY <1>2, Zenon DEF Begin, Alive, Overlap, RacedIf, entries
  <2>2. /\ \A e : InQueue(e)' <=> InQueue(e) /\ e # c
        /\ \A e : ~Creating(e)'
    BY <1>0, <2>1, QueueEnds
  <2>4. SlotsSame(d) /\ ProcSame(d) /\ FieldsSame(d)
    BY <1>0, <2>1 DEF SlotsSame, ProcSame, FieldsSame
  <2>5. CASE d # c
    <3>1. waits'[d] = waits[d]
      BY <2>1, <2>5, TypeOf DEF AwaitReady
    <3> QED BY <1>0, <2>1, <2>2, <2>4, <2>5, <3>1, FineSame DEF QueueSame2, MarksSame
  <2>6. CASE d = c
    <3>1. Undisturbed(d)'
      BY <1>0, <2>1, <2>2, <2>4, UndisturbedKept DEF Fine, ProcSame
    <3>2. Marked(d)'
      BY <2>2, <2>6 DEF Marked
    <3>3. LookedAfter(d)'
      BY <1>0, <1>2, <2>4, <2>6, DisposingSame DEF Fine, LookedAfter, FieldsSame
    <3>4. Served(d)'
      BY <1>2, <2>4, <2>6 DEF Served, Alive, ProcSame
    <3> QED BY <3>1, <3>2, <3>3, <3>4 DEF Fine
  <2> QED BY <2>5, <2>6
<1>3. CASE proc[c] # 0 /\ ~Alive(proc[c])
  <2>1. /\ BeginDispose(c, FALSE, "dead") /\ ToStage("await")
        /\ UNCHANGED <<queue, pending, waits>>
    BY <1>3 DEF Begin
  <2>2. creator'.stage = "await" /\ "await" \in Stages \ {"idle"}
    BY <2>1, StageTypes DEF Stages
  <2>3. /\ \A e : InQueue(e)' <=> InQueue(e)
        /\ \A e : Creating(e)' <=> e = c
    BY <1>0, <2>1, <2>2, QueueStage
  <2>4. CASE d # c
    <3>2. /\ SlotsSame(d) /\ proc'[d] = proc[d] /\ FieldsSame(d)
          /\ proc[d] \in stopped' => proc[d] \in stopped
      BY <2>1, <2>4, DisposeOthers
    <3> QED BY <1>0, <2>1, <2>3, <2>4, <3>2, FineSame DEF MarksSame, ProcSame, QueueSame2
  <2>5. CASE d = c
    <3>1. PICK i \in Slots : Later(c, FALSE, "dead", i)
      BY <1>3, <2>1, DisposeFacts DEF Now
    <3>2. ~Disposing(c)
      BY <1>0, <2>5, <3>1 DEF Later, Race
    <3>3. OwnSlot("dead") /\ (InQueue(c)' <=> InQueue(c))
      BY <2>3 DEF OwnSlot
    <3>4. Undisturbed(d)' /\ Marked(d)' /\ LookedAfter(d)'
      BY <1>0, <2>1, <2>5, <3>1, <3>2, <3>3, LaterSubject DEF Fine
    <3>5. Served(d)'
      BY <1>0, <2>5, <3>3 DEF Served, Coming
    <3> QED BY <3>4, <3>5 DEF Fine
  <2> QED BY <2>4, <2>5
<1> QED BY <1>1, <1>2, <1>3

LEMMA FineAdmit ==
    ASSUME TypeOK, QueueInv, SlotInv, EntryInv, NEW c \in Clients, Admit(c),
           NEW d \in Clients, Fine(d), d \notin raced'
    PROVE  Fine(d)'
<1>0. /\ Creating(c) /\ queue # <<>> /\ c = Head(queue)
      /\ UNCHANGED <<connected, channel, waits, host>>
  BY CreatingFacts DEF Admit, browsers
<1>1. CASE /\ ToStage("listen")
           /\ UNCHANGED <<aware, queue, pending, zombies, timers, entries,
                          stopped, disposals, raced>>
  <2>1. creator'.stage = "listen"
    BY <1>1, StageTypes DEF Stages
  <2>2. QueueSame2(d)
    BY <1>0, <1>1, <2>1, StageSame
  <2> QED BY <1>0, <1>1, <2>2, FineSame
          DEF MarksSame, FieldsSame, SlotsSame, ProcSame, entries
<1>2. ASSUME NEW e \in Tracked \ creator.visited, Reclaimable(e),
             BeginDispose(e, Disconnected(e), "reclaim"),
             creator' = [creator EXCEPT !.stage = "await",
                                        !.visited = @ \cup {e}],
             UNCHANGED <<aware, queue, pending>>
      PROVE  Fine(d)'
  <2>1. creator'.stage = "await"
    BY <1>2, TypeOf DEF CreatorType
  <2>2. QueueSame2(d)
    BY <1>0, <1>2, <2>1, StageSame
  <2>3. e \in Clients /\ proc[e] # 0
    BY DEF Tracked
  <2>4. CASE d # e
    <3>2. /\ SlotsSame(d) /\ proc'[d] = proc[d] /\ FieldsSame(d)
          /\ proc[d] \in stopped' => proc[d] \in stopped
      BY <1>2, <2>3, <2>4, DisposeOthers
    <3> QED BY <1>0, <1>2, <2>2, <3>2, FineSame DEF MarksSame, ProcSame
  <2>5. CASE d = e
    <3>1. PICK i \in Slots : Later(e, Disconnected(e), "reclaim", i)
      BY <1>2, <2>3, DisposeFacts DEF Now
    <3>2. ~InQueue(e) /\ e \notin channel
      BY <2>3, <2>5, <3>1 DEF Later, Race
    <3>3. ~Creating(e)' /\ ~InQueue(e)'
      BY <2>2, <2>5, <3>2, CreatingFacts DEF QueueSame2
    <3>4. Undisturbed(d)' /\ Marked(d)' /\ LookedAfter(d)'
      BY <1>0, <1>2, <2>3, <2>5, <3>1, <3>2, <3>3, LaterSubject DEF Fine
    <3>5. Served(d)'
      BY <1>0, <2>5, <3>2 DEF Served
    <3> QED BY <3>4, <3>5 DEF Fine
  <2> QED BY <2>4, <2>5
<1>3. CASE Fail(c)
  BY <1>0, <1>3, FineFail
<1> QED BY <1>1, <1>2, <1>3 DEF Admit

LEMMA FineListen ==
    ASSUME TypeOK, QueueInv, SlotInv, EntryInv, NEW c \in Clients, Listen(c),
           NEW d \in Clients, Fine(d), d \notin raced'
    PROVE  Fine(d)'
<1>0. Creating(c) /\ UNCHANGED <<connected, channel, waits, host>>
  BY DEF Listen, browsers
<1>1. ASSUME NEW g \in Attempts,
             creator' = [creator EXCEPT !.stage = "fork", !.gen = g],
             UNCHANGED <<aware, queue, pending, zombies, timers, proc, linked,
                         awaiting, initDone, stopped, disposals, raced>>
      PROVE  Fine(d)'
  <2>1. creator'.stage = "fork"
    BY <1>1, TypeOf DEF CreatorType
  <2>2. QueueSame2(d)
    BY <1>0, <1>1, <2>1, StageSame
  <2> QED BY <1>0, <1>1, <2>2, FineSame DEF MarksSame, FieldsSame, SlotsSame, ProcSame
<1>2. CASE Fail(c)
  BY <1>0, <1>2, FineFail
<1> QED BY <1>1, <1>2 DEF Listen

LEMMA FineFork ==
    ASSUME TypeOK, QueueInv, SlotInv, EntryInv, CreatorInv, NEW c \in Clients, Fork(c),
           NEW d \in Clients, Fine(d), d \notin raced'
    PROVE  Fine(d)'
<1>0. /\ Creating(c) /\ creator.stage = "fork" /\ c = Head(queue) /\ InQueue(c)
      /\ UNCHANGED <<connected, channel, waits>>
  BY CreatingFacts DEF Fork, browsers
<1>1. CASE Fail(c) /\ UNCHANGED host
  BY <1>0, <1>1, FineFail
<1>2. CASE ~(Fail(c) /\ UNCHANGED host)
  <2>1. /\ host' = [host EXCEPT ![creator.gen] = "starting"]
        /\ proc' = [proc EXCEPT ![c] = creator.gen]
        /\ ToStage("verify")
        /\ UNCHANGED <<aware, queue, pending, zombies, timers, server, linked,
                       awaiting, initDone, stopped, disposals, raced>>
    BY <1>2 DEF Fork
  <2>2. /\ proc[c] = 0 /\ creator.gen \in Attempts /\ host[creator.gen] = "none"
        /\ proc \in [Clients -> Refs] /\ host \in [Attempts -> HostStates]
    BY <1>0, TypeOf DEF CreatorInv, NoProcessYet
  <2>3. creator'.stage = "verify"
    BY <2>1, StageTypes DEF Stages
  <2>4. QueueSame2(d) /\ MarksSame(d) /\ FieldsSame(d) /\ SlotsSame(d)
    BY <1>0, <2>1, <2>3, StageSame DEF MarksSame, FieldsSame, SlotsSame
  <2>5. CASE d # c
    <3>1. proc'[d] = proc[d]
      BY <2>1, <2>2, <2>5
    <3>2. proc[d] # 0 => proc[d] # creator.gen
      BY <2>2 DEF EntryInv
    <3>3. ProcSame(d)
      BY <2>1, <2>2, <3>1, <3>2, Numbers DEF ProcSame
    <3> QED BY <2>1, <2>4, <3>3, FineSame
  <2>6. CASE d = c
    <3>1. proc'[d] = creator.gen /\ host'[proc'[d]] = "starting" /\ proc'[d] # 0
      BY <2>1, <2>2, <2>6, Numbers
    <3>2. ~Disposing(d) /\ ~Disposing(d)'
      <4>1. disposals[0].stage = "free"
        BY <1>0 DEF SlotInv
      <4>2. \A i \in Slots : disposals[i].client = d => i = 0
        BY <1>0, <2>6 DEF Fine, Undisturbed
      <4>3. ~Disposing(d)
        BY <4>1, <4>2, FreeFacts, Numbers DEF Disposing
      <4> QED BY <2>4, <4>3, DisposingSame
    <3>3. proc'[d] \notin stopped'
      BY <2>1, <2>2, <3>1 DEF EntryInv
    <3>4. Undisturbed(d)'
      BY <3>2, <3>3 DEF Undisturbed, Disposing
    <3>5. Marked(d)'
      BY <2>4 DEF Fine, Marked, QueueSame2, MarksSame, FieldsSame
    <3>6. LookedAfter(d)'
      BY <1>0, <2>4, <2>6 DEF LookedAfter, QueueSame2
    <3>7. Served(d)'
      BY <3>1 DEF Served, Alive
    <3> QED BY <3>4, <3>5, <3>6, <3>7 DEF Fine
  <2> QED BY <2>5, <2>6
<1> QED BY <1>1, <1>2

LEMMA FineVerify ==
    ASSUME TypeOK, QueueInv, SlotInv, EntryInv, CreatorInv, NEW c \in Clients, Verify(c),
           NEW d \in Clients, Fine(d), d \notin raced'
    PROVE  Fine(d)'
<1>0. /\ Creating(c) /\ creator.stage = "verify" /\ c = Head(queue) /\ InQueue(c)
      /\ queue # <<>> /\ UNCHANGED <<connected, channel, host>>
  BY CreatingFacts DEF Verify, browsers
<1>1. CASE ~(Alive(creator.gen) /\ AssertConnected(c))
  <2>1. Fail(c) /\ UNCHANGED waits
    BY <1>1 DEF Verify
  <2> QED BY <1>0, <2>1, FineFail
<1>2. CASE Alive(creator.gen) /\ AssertConnected(c)
  <2>1. /\ EndCreation /\ AwaitReady(c)
        /\ UNCHANGED <<aware, zombies, timers, proc, awaiting, stopped, disposals, raced>>
    BY <1>2 DEF Verify, entries
  <2>2. /\ \A e : InQueue(e)' <=> InQueue(e) /\ e # c
        /\ \A e : ~Creating(e)'
    BY <1>0, <2>1, QueueEnds
  <2>4. SlotsSame(d) /\ ProcSame(d) /\ FieldsSame(d)
    BY <1>0, <2>1 DEF SlotsSame, ProcSame, FieldsSame
  <2>5. CASE d # c
    <3>1. waits'[d] = waits[d]
      BY <2>1, <2>5, TypeOf DEF AwaitReady
    <3>2. QueueSame2(d)
      BY <1>0, <2>1, <2>5, EndSame
    <3> QED BY <1>0, <2>1, <2>4, <3>1, <3>2, FineSame DEF MarksSame
  <2>6. CASE d = c
    <3>1. Undisturbed(d)'
      BY <1>0, <2>1, <2>2, <2>4, UndisturbedKept DEF Fine, ProcSame
    <3>2. Marked(d)'
      BY <2>2, <2>6 DEF Marked
    <3>3. LookedAfter(d)'
      <4>1. d \in connected
        BY <1>0, <1>2, <2>6 DEF Fine, Marked, AssertConnected
      <4> QED BY <1>0, <4>1 DEF LookedAfter
    <3>4. Served(d)'
      <4>1. proc[d] = creator.gen
        BY <1>0, <2>1, <2>6 DEF CreatorInv
      <4> QED BY <1>0, <1>2, <2>1, <4>1 DEF Served, Alive
    <3> QED BY <3>1, <3>2, <3>3, <3>4 DEF Fine
  <2> QED BY <2>5, <2>6
<1> QED BY <1>1, <1>2

LEMMA ClientStep == IInv /\ [Next]_vars => ClientInv'
<1> SUFFICES ASSUME IInv, [Next]_vars, NEW d \in Clients, d \notin raced'
             PROVE  Fine(d)'
  BY DEF ClientInv, Fine
<1>0. TypeOK /\ QueueInv /\ SlotInv /\ EntryInv /\ CreatorInv
  BY DEF IInv
<1>1. Fine(d)
  <2>1. d \notin raced
    BY RacedGrows
  <2> QED BY <2>1 DEF IInv, ClientInv, Fine
<1>2. CASE UNCHANGED vars
  <2>1. SlotsSame(d) /\ ProcSame(d) /\ QueueSame2(d)
    BY <1>0, <1>2, QuietSame DEF vars, creation, entries
  <2>2. MarksSame(d) /\ FieldsSame(d) /\ stopped' = stopped
    BY <1>2 DEF vars, browsers, entries, MarksSame, FieldsSame
  <2> QED BY <1>1, <2>1, <2>2, FineSame
<1>3. ASSUME NEW c \in Clients, Creation(c) PROVE Fine(d)'
  BY <1>0, <1>1, <1>3, FineBegin, FineAdmit, FineListen, FineFork, FineVerify DEF Creation
<1>4. ASSUME NEW c \in Clients, Browser(c) \/ TimerFires(c) \/ StartupTimeout(c)
      PROVE  Fine(d)'
  BY <1>0, <1>1, <1>4, FineConnect, FineDisconnect, FineOpenChannel, FineRequestHost,
     FineRequestDispose, FineTimer, FineTimeout DEF Browser
<1>5. ASSUME NEW g \in Attempts,
             HostConnects(g) \/ HostReady(g) \/ HostDies(g) \/ HostExit(g)
      PROVE  Fine(d)'
  BY <1>0, <1>1, <1>5, FineConnects, FineReady, FineDies, FineExit
<1>6. ASSUME NEW i \in Slots, FinishShutdown(i) \/ Kill(i) PROVE Fine(d)'
  BY <1>0, <1>1, <1>6, FineDisposals
<1> QED BY <1>2, <1>3, <1>4, <1>5, <1>6 DEF Next


-----------------------------------------------------------------------------
(* The invariant and what follows from it.                                  *)

LEMMA IInvInit == Init => IInv
<1> SUFFICES ASSUME Init PROVE IInv
  OBVIOUS
<1>1. TypeOK
  BY TypeInit
<1>2. /\ queue = <<>> /\ creator.stage = "idle" /\ pending = {}
      /\ \A i \in Slots : disposals[i] = NoDisposal
      /\ \A c \in Clients : proc[c] = 0 /\ server[c] = 0
      /\ \A g \in Attempts : host[g] = "none" /\ ~Alive(g)
      /\ awaiting = {} /\ stopped = {} /\ channel = {}
  BY DEF Init, Idle, Alive
<1>3. \A c : ~InQueue(c) /\ ~Creating(c)
  BY <1>2 DEF InQueue, Creating
<1>4. QueueInv
  BY <1>2 DEF QueueInv
<1>5. SlotInv
  <2>0. \A i \in Slots : disposals[i].stage = "free"
    BY <1>2 DEF NoDisposal
  <2>1. \A i \in Slots : SlotOK(i)
    BY <1>2, <2>0 DEF SlotOK
  <2>2. disposals[0].stage = "free"
    BY <2>0, Numbers
  <2> QED BY <1>2, <2>1, <2>2 DEF SlotInv
<1>6. EntryInv
  BY <1>2 DEF EntryInv
<1>7. CreatorInv
  <2>1. Tracked = {}
    BY <1>2 DEF Tracked
  <2>2. Cardinality(Tracked) <= MaxHosts
    BY <2>1, FS_EmptySet, Numbers
  <2> QED BY <1>2, <2>2 DEF CreatorInv, NoProcessYet
<1>8. ASSUME NEW c \in Clients PROVE Fine(c)
  <2>1. ~Disposing(c)
    BY <1>2, ClientsAssumption DEF Disposing, NoDisposal
  <2>2. Undisturbed(c)
    BY <1>2, <2>1 DEF Undisturbed, Disposing
  <2> QED BY <1>2, <1>3, <2>2 DEF Fine, Marked, LookedAfter, Served, Alive
<1> QED BY <1>1, <1>2, <1>4, <1>5, <1>6, <1>7, <1>8 DEF IInv, ClientInv, Fine, Owned

LEMMA IInvariant == Spec => []IInv
<1>1. Init => IInv
  BY IInvInit
<1>2. IInv /\ [Next]_vars => IInv'
  BY TypeStep, QueueStep, SlotStep, MapsStep, ClientStep, OwnedStep DEF IInv
<1> QED BY <1>1, <1>2, PTL DEF Spec

\* The service keeps what its maps, its queue and its timers are declared to
\* hold, and a channel is open only for a connected client.
THEOREM TypesHold == Spec => []TypeOK
<1>1. IInv => TypeOK
  BY DEF IInv
<1> QED BY <1>1, IInvariant, PTL

\* clientExtProcessMap: its entries never exceed the capacity, and the process
\* of every creation that still lives is the entry of its client or about to be
\* killed: ensureExtensionHostCapacity, which counts the entries, counts them
\* all.
THEOREM HostsHaveOwners == Spec => []NoOwnerlessHost
<1>1. IInv => NoOwnerlessHost
  BY DEF IInv, CreatorInv, Owned, NoOwnerlessHost
<1> QED BY <1>1, IInvariant, PTL

\* closeExtProcessWhenConnectionClose and the checks of the creation: the living
\* host of a client that has left, whatever the creation was doing when it left,
\* has its timer armed, or a creation or a disposal that sees to it.
THEOREM GoneAreLookedAfter == Spec => []GoneAreDisposed
<1>1. IInv => GoneAreDisposed
  <2> SUFFICES ASSUME IInv, NEW c \in Clients \ raced, Abandoned(c) PROVE FALSE
    BY DEF GoneAreDisposed
  <2>1. LookedAfter(c) /\ TypeOK
    BY DEF IInv, ClientInv
  <2>2. Creating(c)
    BY <2>1 DEF Abandoned, LookedAfter, Busy
  <2> QED BY <2>1, <2>2, CreatingFacts DEF Abandoned, Busy
<1> QED BY <1>1, IInvariant, PTL

\* The channel handler, the exit listener, ensureProcessReady and the failures
\* of a creation: a client with an open channel, nothing of which is still under
\* way, has a living host or has been told to restart it.
THEOREM OpenAreReached == Spec => []OpenAreServed
<1>1. IInv => OpenAreServed
  <2> SUFFICES ASSUME IInv, NEW c \in channel \ raced, Settled(c),
                      ~Alive(proc[c]), c \notin aware
               PROVE  FALSE
    BY DEF OpenAreServed
  <2>1. c \in Clients /\ proc \in [Clients -> Refs]
    BY TypeOf DEF IInv, TypeOK
  <2>2. Coming(c)
    BY <2>1 DEF IInv, ClientInv, Served
  <2>3. proc[c] # 0 /\ host[proc[c]] = "dead"
    BY <2>2 DEF Coming, Settled, Busy
  <2>4. proc[c] \in Attempts /\ owner[proc[c]] = c
    BY <2>1, <2>3, Numbers DEF IInv, EntryInv
  <2> QED BY <2>3, <2>4 DEF Settled
<1> QED BY <1>1, IInvariant, PTL

=============================================================================
