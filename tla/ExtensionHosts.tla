--------------------------- MODULE ExtensionHosts ---------------------------
(***************************************************************************)
(* The extension host processes of the Node server: one per client,        *)
(* created under a global queue and a capacity, handed to the main-thread  *)
(* channel of the client when it opens, kept for a while after the client  *)
(* has gone, and disposed of by a timer, a request, a crash, a start-up    *)
(* timeout, or to make room for another client.                            *)
(*                                                                         *)
(* Source: src/packages/extension/src/node/extension.service.ts, class     *)
(* ExtensionNodeServiceImpl, in its web form (isElectronNode() is false)   *)
(* with the local host manager.                                            *)
(*                                                                         *)
(* An action is what runs between two awaits of the event loop.  A creation *)
(* attempt has a number; the IPC server, its connection deferred, the child *)
(* process and its init deferred carry that number (0 for an absent entry). *)
(* The wait for a host's "finish" lasts at most five seconds and may end at *)
(* any moment, so the finish deferred itself is left out; so are listen     *)
(* paths, debug ports, diagnostics and counters.  Every call of             *)
(* disposeClientExtProcess in the repository passes info = false.           *)
(***************************************************************************)
EXTENDS Integers, Sequences, FiniteSets

CONSTANTS
    Clients,      \* client ids
    NoClient,
    MaxHosts,     \* maxExtProcessCount, the capacity
    MaxAttempts,  \* bound: creation attempts that reach the IPC server
    MaxDisposals  \* bound: disposals in progress, besides the creation's own

ASSUME ClientsAssumption == IsFiniteSet(Clients) /\ NoClient \notin Clients
ASSUME BoundsAssumption ==
    /\ MaxHosts \in Nat \ {0}
    /\ MaxAttempts \in Nat
    /\ MaxDisposals \in Nat \ {0}

Attempts == 1..MaxAttempts
\* Slot 0 is for the disposals that the creation in progress awaits.
Slots == 0..MaxDisposals

VARIABLES
    \* The browsers.
    connected,   \* clients whose connection (and service facade) is up
    channel,     \* clientMainThreadChannelMap: clients with an open channel
    opened,      \* clients that have opened a channel: every reconnection reopens it
    restarting,  \* clients that asked to dispose of their host, to restart it
    aware,       \* clients that know they have no host: told, refused, or asked
    \* Fields of the service.
    awaiting,    \* clients whose channel handler awaits the host's connection
    zombies,     \* maybeZombieClients
    timers,      \* clientExtProcessThresholdExitTimerMap
    pending,     \* pendingExtHostClients
    proc,        \* clientExtProcessMap (and its init deferred)
    server,      \* clientExtProcessExtConnectionServer (and its deferred)
    linked,      \* clients in clientExtProcessExtConnection
    stopped,     \* intentionallyStoppedExtProcesses
    waits,       \* per client, init deferreds that ensureProcessReady awaits
    queue,       \* extensionHostCreationQueue: its head holds the lock
    creator,     \* where the head of the queue is
    disposals,   \* the disposeClientExtProcess calls that await something
    \* The hosts.
    owner,       \* the client of an attempt, once it has one
    host,        \* state of the process of an attempt
    initDone,    \* processes in the map whose init deferred is resolved
    \* History, for the properties only.
    raced        \* clients that met one of the races named below

browsers == <<connected, channel, opened, restarting>>
creation == <<pending, queue, creator, owner>>
entries == <<proc, server, linked, awaiting, initDone>>
vars == <<browsers, aware, zombies, timers, creation, entries, stopped, waits,
          disposals, host, raced>>

NoDisposal == [client |-> NoClient, pid |-> 0, kill |-> FALSE, stage |-> "free",
               then |-> "none"]
Idle == [stage |-> "idle", gen |-> 0, visited |-> {}]

InQueue(c) == \E i \in DOMAIN queue : queue[i] = c
Alive(g) == g # 0 /\ host[g] \in {"starting", "ready"}
Used == {g \in Attempts : owner[g] # NoClient}
Tracked == {c \in Clients : proc[c] # 0}
Disposing(c) == \E i \in Slots : disposals[i].client = c
Creating(c) == Len(queue) > 0 /\ Head(queue) = c /\ creator.stage # "idle"

-----------------------------------------------------------------------------
(* disposeClientExtProcess                                                 *)

\* Its deletions: whatever the maps hold for the client when it gets there.  A
\* deferred that leaves its map is never resolved: who awaits it goes no further.
DeleteEntries(c) ==
    /\ proc' = [proc EXCEPT ![c] = 0]
    /\ server' = [server EXCEPT ![c] = 0]
    /\ linked' = linked \ {c}
    /\ awaiting' = awaiting \ {c}
    /\ initDone' = initDone \ {proc[c]}

\* The call for c ends: the mark of a client that is gone is erased.
Forget(c) == zombies' = zombies \ {c}

\* The races that the properties name: a disposal of a client whose creation is
\* under way, one that ends an open session although nobody asked for it, a
\* start-up timeout that meets another host than the one it waited for, the
\* erasure of a mark that a creation has yet to look at, a goodbye that nobody
\* hears (Disconnect), and a timer cancelled for a client that is gone again
\* (HostConnects).
Race(c, then) ==
    \/ InQueue(c) /\ (then \notin {"dead", "failed"} \/ Disposing(c))
    \/ c \in channel /\ proc[c] # 0 /\ then \in {"timer", "reclaim"}
    \/ then = "late"
Erased(c, then) == c \in zombies /\ InQueue(c) /\ then # "failed"
RacedIf(c, condition) == raced' = IF condition THEN raced \cup {c} ELSE raced

OwnSlot(then) == then \in {"dead", "reclaim", "failed"}
Free(i, then) ==
    /\ disposals[i].stage = "free" /\ (i = 0 <=> OwnSlot(then))
    /\ \A j \in 1..(i - 1) : disposals[j].stage # "free"

\* The call up to its first await.  Without a process there is none, and the
\* whole function runs at once.
BeginDispose(c, kill, then) ==
    /\ timers' = timers \ {c}
    /\ RacedIf(c, Race(c, then))
    /\ IF proc[c] = 0
       THEN /\ DeleteEntries(c)
            /\ Forget(c)
            /\ UNCHANGED <<stopped, disposals>>
       ELSE /\ \E i \in Slots :
                 /\ Free(i, then)
                 /\ disposals' = [disposals EXCEPT ![i] =
                       [client |-> c, pid |-> proc[c], kill |-> kill,
                        stage |-> "shutdown", then |-> then]]
            /\ stopped' = IF kill /\ host[proc[c]] # "gone"
                          THEN stopped \cup {proc[c]} ELSE stopped
            /\ UNCHANGED <<entries, zombies>>

ToldAnyone(c) == aware' = aware \cup {c}  \* a mutant
Told(c) == aware' = IF c \in connected THEN aware \cup {c} ELSE aware

\* createProcess settles: the lock is released, the call is over.
EndCreation ==
    /\ queue' = Tail(queue)
    /\ creator' = Idle
    /\ pending' = pending \ {Head(queue)}

ToStage(stage) == creator' = [creator EXCEPT !.stage = stage]

\* A disposal ends: its caller goes on.
Return(i) ==
    LET d == disposals[i] IN
    /\ disposals' = [disposals EXCEPT ![i] = NoDisposal]
    /\ Forget(d.client)
    /\ RacedIf(d.client, Erased(d.client, d.then))
    /\ CASE d.then \in {"timer", "request"} -> UNCHANGED <<aware, creation>>
         [] d.then \in {"crash", "timeout", "late"} ->
              Told(d.client) /\ UNCHANGED creation
         [] d.then = "dead" ->
              /\ ToStage("admit")
              /\ pending' = pending \cup {Head(queue)}
              /\ UNCHANGED <<aware, queue, owner>>
         [] d.then = "reclaim" ->
              ToStage("admit") /\ UNCHANGED <<aware, queue, pending, owner>>
         [] d.then = "failed" ->
              EndCreation /\ Told(d.client) /\ UNCHANGED owner

\* requestExtProcessShutdown is over (the host was gone, it finished, or the
\* wait timed out): the deletions, and without a kill the rest as well.
FinishShutdown(i) ==
    /\ disposals[i].stage = "shutdown"
    /\ DeleteEntries(disposals[i].client)
    /\ IF disposals[i].kill
       THEN /\ disposals' = [disposals EXCEPT ![i].stage = "kill"]
            /\ UNCHANGED <<zombies, aware, creation, raced>>
       ELSE Return(i)
    /\ UNCHANGED <<browsers, timers, stopped, waits, host>>

\* treeKill and disposeProcess of the process read at the start.
Kill(i) ==
    LET pid == disposals[i].pid IN
    /\ disposals[i].stage = "kill"
    /\ host' = [host EXCEPT ![pid] = IF Alive(pid) THEN "dead" ELSE @]
    /\ Return(i)
    /\ UNCHANGED <<browsers, timers, entries, stopped, waits>>

-----------------------------------------------------------------------------
(* The browser and its main-thread channel                                 *)

\* The client comes, or comes back, while a disposal of its host is under way.
Overlap(c) == RacedIf(c, Disposing(c))

Connect(c) ==
    /\ c \notin connected
    /\ connected' = connected \cup {c}
    /\ Overlap(c)
    /\ UNCHANGED <<channel, opened, restarting, aware, zombies, timers, creation,
                   entries, stopped, waits, disposals, host>>

\* closeExtProcessWhenConnectionClose: a pending creation cleans up itself.
CreatorOwnsCleanup(c) == c \in pending
Armed(c) == IF CreatorOwnsCleanup(c) THEN timers ELSE timers \cup {c}

\* The first time the browser opens it once its createProcess call has succeeded.
Answered(c) ==
    ~InQueue(c) /\ waits[c] = {} /\ c \notin aware /\ \E g \in Used : owner[g] = c

\* The channel handler.  A channel of the client that is still open is closed
\* first (server-handler.ts), which arms the timer; the handler awaits the
\* connection of the host if one is being created, hands a living host over,
\* or else tells the client to restart it.
OpenChannel(c) ==
    LET armed == IF c \in channel THEN Armed(c) ELSE timers IN
    /\ c \in connected
    /\ c \in opened \/ Answered(c)
    /\ channel' = channel \cup {c}
    /\ opened' = opened \cup {c}
    /\ zombies' = zombies \ {c}
    /\ Overlap(c)
    /\ IF server[c] # 0 /\ c \notin linked
       THEN awaiting' = awaiting \cup {c} /\ timers' = armed /\ UNCHANGED aware
       ELSE /\ UNCHANGED awaiting
            /\ IF Alive(proc[c]) /\ c \in linked
               THEN timers' = armed \ {c} /\ UNCHANGED aware
               ELSE timers' = armed /\ Told(c)
    /\ UNCHANGED <<connected, restarting, creation, proc, server, linked,
                   initDone, stopped, waits, disposals, host>>

\* The connection is gone: the channel closes if it was open, then the path
\* handler and the service facade are disposed of.  Both do nothing for a
\* client without a process, a pending creation or a zombie mark.
IsKnown(c) == proc[c] # 0 \/ c \in pending \/ c \in zombies \/ c \in channel

Disconnect(c) ==
    /\ c \in connected
    /\ connected' = connected \ {c}
    /\ channel' = channel \ {c}
    /\ restarting' = restarting \ {c}
    /\ aware' = aware \ {c}
    /\ zombies' = IF IsKnown(c) THEN zombies \cup {c} ELSE zombies
    /\ timers' = IF IsKnown(c) THEN Armed(c) ELSE timers
    /\ RacedIf(c, ~IsKnown(c) /\ InQueue(c))
    /\ UNCHANGED <<opened, creation, entries, stopped, waits, disposals, host>>

\* The threshold timer.
TimerFires(c) ==
    /\ c \in timers
    /\ BeginDispose(c, TRUE, "timer")
    /\ UNCHANGED <<browsers, aware, creation, waits, host>>

\* The browser restarts its host, or unloads: disposeClientExtProcess by call.
RequestDispose(c) ==
    /\ c \in connected
    /\ aware' = aware \cup {c}
    /\ restarting' = restarting \cup {c}
    /\ BeginDispose(c, TRUE, "request")
    /\ UNCHANGED <<connected, channel, opened, creation, waits, host>>

-----------------------------------------------------------------------------
(* createProcess                                                           *)

\* The browser calls it on its first activation, before it opens the channel,
\* and in a restart, after its disposeClientExtProcess call has returned.  A
\* call while one is pending gets the pending promise.
Returned(c) ==
    \A i \in Slots : disposals[i].client = c => disposals[i].then # "request"

RequestHost(c) ==
    /\ c \in connected /\ ~InQueue(c)
    /\ c \notin opened \/ (c \in restarting /\ Returned(c))
    /\ Cardinality(Used) + Len(queue) < MaxAttempts  \* bound
    /\ queue' = Append(queue, c)
    /\ aware' = aware \ {c}
    /\ restarting' = restarting \ {c}
    /\ UNCHANGED <<connected, channel, opened, zombies, timers, pending, creator, owner,
                   entries, stopped, waits, disposals, host, raced>>

\* createProcess has succeeded: ensureProcessReady awaits the init deferred.
AwaitReady(c) ==
    waits' = [waits EXCEPT ![c] = @ \cup ({proc[c]} \ (initDone \cup {0}))]

\* The lock is taken: a living host is used again, a dead one disposed of.
Begin(c) ==
    /\ Len(queue) > 0 /\ Head(queue) = c /\ creator.stage = "idle"
    /\ \/ /\ proc[c] = 0
          /\ ToStage("admit")
          /\ pending' = pending \cup {c}
          /\ Overlap(c)
          /\ UNCHANGED <<queue, zombies, timers, stopped, entries, waits,
                         disposals>>
       \/ /\ Alive(proc[c])
          /\ EndCreation
          /\ AwaitReady(c)
          /\ Overlap(c)
          /\ UNCHANGED <<zombies, timers, stopped, entries, disposals>>
       \/ /\ proc[c] # 0 /\ ~Alive(proc[c])
          /\ BeginDispose(c, FALSE, "dead")
          /\ ToStage("await")
          /\ UNCHANGED <<queue, pending, waits>>
    /\ UNCHANGED <<browsers, aware, owner, host>>

\* The catch clause of createProcessWithCapacity.
Fail(c) ==
    /\ BeginDispose(c, TRUE, "failed")
    /\ IF proc[c] = 0
       THEN EndCreation /\ Told(c)
       ELSE ToStage("await") /\ UNCHANGED <<queue, pending, aware>>

Disconnected(c) == c \in zombies \/ c \in timers
HasRoomForOneMore == Cardinality(Tracked) <= MaxHosts  \* a mutant
HasRoom == Cardinality(Tracked) < MaxHosts
Reclaimable(c) == Disconnected(c) \/ ~Alive(proc[c])

\* ensureExtensionHostCapacity, up to its next await.
Admit(c) ==
    /\ Creating(c) /\ creator.stage = "admit"
    /\ \/ /\ HasRoom
          /\ ToStage("listen")
          /\ UNCHANGED <<aware, queue, pending, zombies, timers, entries,
                         stopped, disposals, raced>>
       \/ /\ ~HasRoom
          /\ \E d \in Tracked \ creator.visited :
               /\ Reclaimable(d)
               /\ BeginDispose(d, Disconnected(d), "reclaim")
               /\ creator' = [creator EXCEPT !.stage = "await",
                                             !.visited = @ \cup {d}]
          /\ UNCHANGED <<aware, queue, pending>>
       \/ /\ ~HasRoom
          /\ \A d \in Tracked \ creator.visited : ~Reclaimable(d)
          /\ Fail(c)
    /\ UNCHANGED <<browsers, owner, waits, host>>

\* _createExtServer, which may fail, and the check that follows it.
NeverAsserts(c) == TRUE  \* a mutant: the host of a client that left is kept
AssertConnected(c) == c \notin zombies

Listen(c) ==
    /\ Creating(c) /\ creator.stage = "listen"
    /\ \E g \in Attempts \ Used :
         /\ g - 1 \in Used \cup {0}
         /\ owner' = [owner EXCEPT ![g] = c]
         /\ \/ /\ AssertConnected(c)
               /\ server' = [server EXCEPT ![c] = g]
               /\ creator' = [creator EXCEPT !.stage = "fork", !.gen = g]
               /\ UNCHANGED <<aware, queue, pending, zombies, timers, proc,
                              linked, awaiting, initDone, stopped, disposals,
                              raced>>
            \/ Fail(c)
    /\ UNCHANGED <<browsers, waits, host>>

\* _createExtHostProcess: the fork registers the process, or throws.
Fork(c) ==
    /\ Creating(c) /\ creator.stage = "fork"
    /\ \/ /\ host' = [host EXCEPT ![creator.gen] = "starting"]
          /\ proc' = [proc EXCEPT ![c] = creator.gen]
          /\ ToStage("verify")
          /\ UNCHANGED <<aware, queue, pending, zombies, timers, server, linked,
                         awaiting, initDone, stopped, disposals, raced>>
       \/ Fail(c) /\ UNCHANGED host
    /\ UNCHANGED <<browsers, owner, waits>>

\* The process still runs and the client is still there.
Verify(c) ==
    /\ Creating(c) /\ creator.stage = "verify"
    /\ IF Alive(creator.gen) /\ AssertConnected(c)
       THEN /\ EndCreation
            /\ AwaitReady(c)
            /\ UNCHANGED <<aware, zombies, timers, entries, stopped, disposals,
                           raced>>
       ELSE Fail(c) /\ UNCHANGED waits
    /\ UNCHANGED <<browsers, owner, host>>

\* ensureProcessReady gives up: it disposes of whatever host the client has by
\* now, and the call is answered with an error.
StartupTimeout(c) ==
    \E g \in waits[c] :
        /\ waits' = [waits EXCEPT ![c] = @ \ {g}]
        /\ BeginDispose(c, TRUE, IF proc[c] \in {0, g} THEN "timeout" ELSE "late")
        /\ IF proc[c] = 0 THEN Told(c) ELSE UNCHANGED aware
        /\ UNCHANGED <<browsers, creation, host>>

-----------------------------------------------------------------------------
(* The hosts                                                               *)

\* The host connects to its server; a channel handler that awaited it goes on:
\* the host is registered and alive, so it is handed over.
HostConnects(g) ==
    LET c == owner[g] IN
    /\ host[g] = "starting"
    /\ server[c] = g /\ c \notin linked
    /\ linked' = linked \cup {c}
    /\ timers' = IF c \in awaiting THEN timers \ {c} ELSE timers
    /\ awaiting' = awaiting \ {c}
    /\ RacedIf(c, c \in awaiting /\ c \notin channel)
    /\ UNCHANGED <<browsers, aware, zombies, creation, proc, server, initDone,
                   stopped, waits, disposals, host>>

\* Its 'ready' message resolves the init deferred the client has by now.
HostReady(g) ==
    LET c == owner[g] IN
    /\ host[g] = "starting"
    /\ server[c] = g /\ c \in linked
    /\ host' = [host EXCEPT ![g] = "ready"]
    /\ initDone' = initDone \cup {proc[c]}
    /\ waits' = [waits EXCEPT ![c] = @ \ {proc[c]}]
    /\ UNCHANGED <<browsers, aware, zombies, timers, creation, proc, server,
                   linked, awaiting, stopped, disposals, raced>>

HostDies(g) ==
    /\ Alive(g)
    /\ host' = [host EXCEPT ![g] = "dead"]
    /\ UNCHANGED <<browsers, aware, zombies, timers, creation, entries, stopped,
                   waits, disposals, raced>>

\* The exit listener: a process nobody stopped has crashed.
CrashOfAnother(g) == g \notin stopped /\ proc[owner[g]] # g  \* a mutant
Crashed(g) == g \notin stopped /\ proc[owner[g]] = g

HostExit(g) ==
    /\ host[g] = "dead"
    /\ host' = [host EXCEPT ![g] = "gone"]
    /\ IF Crashed(g)
       THEN BeginDispose(owner[g], FALSE, "crash")
       ELSE /\ stopped' = stopped \ {g}
            /\ UNCHANGED <<zombies, timers, entries, disposals, raced>>
    /\ UNCHANGED <<browsers, aware, creation, waits>>

-----------------------------------------------------------------------------

Init ==
    /\ connected = {} /\ channel = {} /\ opened = {} /\ restarting = {}
    /\ aware = {} /\ awaiting = {} /\ zombies = {} /\ timers = {} /\ pending = {}
    /\ proc = [c \in Clients |-> 0]
    /\ server = [c \in Clients |-> 0]
    /\ linked = {} /\ stopped = {}
    /\ waits = [c \in Clients |-> {}]
    /\ queue = <<>> /\ creator = Idle
    /\ disposals = [i \in Slots |-> NoDisposal]
    /\ owner = [g \in Attempts |-> NoClient]
    /\ host = [g \in Attempts |-> "none"]
    /\ initDone = {} /\ raced = {}

Browser(c) ==
    \/ Connect(c) \/ Disconnect(c) \/ OpenChannel(c)
    \/ RequestHost(c) \/ RequestDispose(c)

Creation(c) == Begin(c) \/ Admit(c) \/ Listen(c) \/ Fork(c) \/ Verify(c)

\* Taking the lock and the capacity check after it are continuations of settled
\* promises: they run before the event loop takes another event.
Immediate == creator.stage = "admit" \/ (creator.stage = "idle" /\ queue # <<>>)

Next ==
    \/ \E c \in Clients : Creation(c)
    \/ /\ ~Immediate
       /\ \/ \E c \in Clients : Browser(c) \/ TimerFires(c) \/ StartupTimeout(c)
          \/ \E i \in Slots : FinishShutdown(i) \/ Kill(i)
          \/ \E g \in Attempts :
               HostConnects(g) \/ HostReady(g) \/ HostDies(g) \/ HostExit(g)

Spec == Init /\ [][Next]_vars

-----------------------------------------------------------------------------
(* Properties                                                              *)

Refs == Attempts \cup {0}

TypeOK ==
    /\ channel \subseteq connected \cap opened
    /\ connected \subseteq Clients /\ opened \subseteq Clients
    /\ aware \subseteq connected /\ restarting \subseteq connected
    /\ awaiting \subseteq Clients /\ linked \subseteq Clients
    /\ zombies \subseteq Clients /\ timers \subseteq Clients
    /\ pending \subseteq Clients /\ raced \subseteq Clients
    /\ proc \in [Clients -> Refs] /\ server \in [Clients -> Refs]
    /\ stopped \subseteq Attempts /\ initDone \subseteq Attempts
    /\ waits \in [Clients -> SUBSET Attempts]
    /\ queue \in Seq(Clients)
    /\ creator \in [stage : {"idle", "await", "admit", "listen", "fork", "verify"},
                    gen : Refs, visited : SUBSET Clients]
    /\ disposals \in [Slots ->
          [client : Clients \cup {NoClient}, pid : Refs, kill : BOOLEAN,
           stage : {"free", "shutdown", "kill"},
           then : {"none", "timer", "request", "crash", "timeout", "late",
                   "dead", "reclaim", "failed"}]]
    /\ owner \in [Attempts -> Clients \cup {NoClient}]
    /\ host \in [Attempts -> {"none", "starting", "ready", "dead", "gone"}]

Busy(c) == InQueue(c) \/ Disposing(c)

Abandoned(c) ==
    Alive(proc[c]) /\ c \notin connected /\ c \notin timers /\ ~Busy(c)

\* The host of a client that is gone is going to be disposed of: the threshold
\* timer is armed, or a creation or a disposal in progress sees to it.
\* Disconnections race creations queued, starting, failing, and the disposals
\* of earlier hosts.
GoneAreDisposed == \A c \in Clients \ raced : ~Abandoned(c)

\* The capacity holds, and it counts every host: no living process escapes the
\* map but those that a disposal is about to kill.
NoOwnerlessHost ==
    /\ Cardinality(Tracked) <= MaxHosts
    /\ \A g \in Attempts :
        Alive(g) /\ owner[g] \notin raced =>
            \/ proc[owner[g]] = g
            \/ \E i \in Slots : disposals[i].pid = g /\ disposals[i].kill

Settled(c) ==
    /\ ~Busy(c) /\ waits[c] = {} /\ c \notin awaiting
    /\ \A g \in Attempts : owner[g] = c => host[g] # "dead"

\* When everything about a client with an open channel has settled it has a
\* living host, or it knows that it must restart it: crash, refusal, timeout
\* and reconnection all tell it.
OpenAreServed ==
    \A c \in channel \ raced : Settled(c) => Alive(proc[c]) \/ c \in aware
=============================================================================
