--------------------------- MODULE TerminalSessions ---------------------------
(***************************************************************************)
(* The terminals of the Node server: TerminalServiceImpl and its facade    *)
(* per connection (terminal.service.ts, terminal.service.client.ts), one   *)
(* PtyService per attached terminal (pty.ts), and PtyServiceProxy, which   *)
(* owns the shells (pty.proxy.ts), in the mode where it runs in the same   *)
(* process.                                                                *)
(*                                                                         *)
(* A window loads the pages 1 .. Pages one after the other; each page load *)
(* is a client with an id of its own.  The session of a terminal outlives  *)
(* the page: the next page resumes the shell under the same session.  A    *)
(* client that lost its connection has a grace period (closing), then its  *)
(* shells are leased (lease) or, for a transient terminal, killed.         *)
(*                                                                         *)
(* An action is what runs between two awaits.  Start-up of a PtyService    *)
(* (locale, shell path, file checks) is the one await that lasts.          *)
(***************************************************************************)
EXTENDS Integers, FiniteSets, Functions

CONSTANTS
  Pages,        \* number of page loads
  Sessions,     \* terminals, by their short session id
  Transient,    \* the terminals that are not to outlive their page
  MaxLinks,     \* bound: connections of all pages together
  MaxAttaches,  \* bound: PtyServices
  MaxOutputs    \* bound: chunks of output

ASSUME TerminalAssumption ==
  /\ Pages \in Nat \ {0}
  /\ Transient \subseteq Sessions
  /\ {MaxLinks, MaxAttaches, MaxOutputs} \subseteq Nat

Clients == 1 .. Pages
Ids == Clients \X Sessions         \* `${clientId}|${sessionId}`
Services == 1 .. MaxAttaches
Pids == 1 .. MaxAttaches           \* every PtyService spawns one shell at most
Sizes == {"small", "large"}        \* large: the batch reaches BATCH_MAX_SIZE

VARIABLES
  page,        \* the browser: "new", "open" or "left"
  view,        \* the page's terminals: "none", "shown" or "closed"
  up,          \* clients whose connection the server has
  links,       \* connections the client has made
  registered,  \* serviceClientMap: the connection whose facade is set, or 0
  closing,     \* closeTimeOutMap
  svc,         \* the PtyServices
  procs,       \* terminalProcessMap
  terms,       \* clientTerminalMap
  batch,       \* batchedPtyDataMap and batchedPtyDataTimer
  shell,       \* the processes: "none", "alive", "killed", "dead" or "gone"
  session,     \* ptySessionMap
  lease,       \* ptySessionCleanupTimerMap: the shell the timer would kill
  listener,    \* ptyDisposableMap: the PtyService that listens to a shell
  spoken,      \* ptyDataCacheMap: shells with output to replay
  outputs,     \* number of chunks, for the bound
  late,        \* history: clients set again by a facade that was gone
  taken,       \* history: sessions resumed while another client held them
  burst,       \* history: batches flushed because of their size
  crossed      \* history: sessions whose entry the exit of an earlier shell took

browser == <<page, view>>
clients == <<up, links, registered, closing>>
services == <<svc, procs, terms>>
proxy == <<shell, session, lease, listener, spoken>>
history == <<late, taken, burst, crossed>>
vars == <<browser, clients, services, batch, proxy, outputs, history>>

NoService == [id |-> <<>>, via |-> 0, pid |-> 0, st |-> "free"]
NoBatch == [held |-> FALSE, timer |-> "none"]
Running(p) == shell[p] \in {"alive", "killed"}

Unregistered(c) == registered[c] = 0

\* A message reaches the page through the facade of its current connection.
Reaches(c) == /\ c \in up
              /\ registered[c] = links[c]
              /\ page[c] = "open"

-----------------------------------------------------------------------------
(* Connections *)

\* A page connects, or connects again: the facade of the old connection is
\* disposed, then the new one calls setClient, which ends the grace period.
Connect(c) ==
  /\ page[c] # "left"
  /\ FoldFunction(+, 0, links) < MaxLinks
  /\ c > 1 => page[c - 1] = "left"
  /\ page' = [page EXCEPT ![c] = "open"]
  /\ up' = up \union {c}
  /\ links' = [links EXCEPT ![c] = @ + 1]
  /\ registered' = [registered EXCEPT ![c] = links'[c]]
  /\ closing' = closing \ {c}
  /\ late' = late \ {c}
  /\ UNCHANGED <<view, services, batch, proxy, outputs, taken, burst,
                 crossed>>

\* The window is closed or loads the next page; the server learns of it later.
PageLeaves(c) ==
  /\ page[c] = "open"
  /\ page' = [page EXCEPT ![c] = "left"]
  /\ UNCHANGED <<view, clients, services, batch, proxy, outputs, history>>

\* dispose of the facade: closeClient starts the grace period.
LinkLost(c) ==
  /\ c \in up
  /\ up' = up \ {c}
  /\ closing' = closing \union {c}
  /\ UNCHANGED <<browser, links, registered, services, batch, proxy, outputs,
                 history>>

-----------------------------------------------------------------------------
(* Starting and resuming *)

\* create2 up to the await of start(): a page asks for a new terminal, for one
\* of its predecessor, or again for one that it shows, whatever became of the
\* PtyService it has there (RE_LAUNCH).
Attach(c, s, k) ==
  /\ Reaches(c)
  /\ \A d \in Clients : view[<<d, s>>] # "closed"
  /\ s \in Transient => \A d \in Clients \ {c} : view[<<d, s>>] = "none"
  /\ k = Cardinality({j \in Services : svc[j].st # "free"}) + 1
  /\ svc' = [svc EXCEPT ![k] = [id |-> <<c, s>>, via |-> links[c], pid |-> 0,
                                st |-> "starting"]]
  /\ procs' = [procs EXCEPT ![<<c, s>>] = k]
  /\ view' = [view EXCEPT ![<<c, s>>] = "shown"]
  /\ UNCHANGED <<page, clients, terms, batch, proxy, outputs, history>>

\* The onData handler of create2: a batch that reaches the limit is flushed,
\* and then, as its timer is gone, a new timer is set for an empty batch.
Received(b, size) ==
  IF size = "large"
    THEN [held |-> FALSE, timer |-> "armed"]
    ELSE [held |-> TRUE, timer |-> IF b.timer = "none" THEN "armed" ELSE b.timer]

\* A mutant: resuming does not end the lease.
LeaseKept(s) == lease

\* The lease of a session ends when it is spawned again.
LeaseAfterSpawn(s) == [lease EXCEPT ![s] = 0]

\* The facade is set again after create2, even if its connection is gone.
Rejoined(c) == closing \ {c}

\* $spawn and what follows it up to the answer of the facade's create2: a
\* running shell of the session is resumed, and its old listeners are dropped;
\* otherwise a new one is spawned, which inherits the output of a dead one.
Spawned(k, size) ==
  LET id == svc[k].id
      c == id[1]
      s == id[2]
      old == session[s]
      resumes == old # 0 /\ Running(old)
      p == IF resumes THEN old
           ELSE Cardinality({q \in Pids : shell[q] # "none"}) + 1
      replays == old # 0 /\ old \in spoken IN
  /\ svc[k].st = "starting"
  /\ size = "small" \/ replays
  /\ svc' = [svc EXCEPT ![k].st = "bound", ![k].pid = p]
  /\ terms' = [terms EXCEPT ![id] = k]
  /\ shell' = [shell EXCEPT ![p] = IF resumes THEN @ ELSE "alive"]
  /\ session' = [session EXCEPT ![s] = p]
  /\ lease' = LeaseAfterSpawn(s)
  /\ listener' = [q \in Pids |-> IF q = p THEN k
                                 ELSE IF q = old THEN 0 ELSE listener[q]]
  /\ spoken' = IF replays THEN (spoken \ {old}) \union {p} ELSE spoken
  /\ batch' = IF replays /\ ~Unregistered(c)
                THEN [batch EXCEPT ![id] = Received(@, size)]
                ELSE batch
  /\ burst' = IF replays /\ ~Unregistered(c) /\ size = "large"
                THEN burst \union {id} ELSE burst
  /\ registered' = [registered EXCEPT ![c] = svc[k].via]
  /\ closing' = Rejoined(c)
  /\ late' = IF c \in up THEN late ELSE late \union {c}
  /\ taken' = IF \E d \in Clients \ {c} : terms[<<d, s>>] # 0
                THEN taken \union {s} ELSE taken
  /\ crossed' = crossed \ {s}
  /\ UNCHANGED <<browser, up, links, procs, outputs>>

\* start() answers an error: the page is told and may try again.
StartFails(k) ==
  LET id == svc[k].id IN
  /\ svc[k].st = "starting"
  /\ svc' = [svc EXCEPT ![k].st = "failed"]
  /\ batch' = [batch EXCEPT ![id] = NoBatch]
  /\ view' = IF Reaches(id[1]) THEN [view EXCEPT ![id] = "none"] ELSE view
  /\ UNCHANGED <<page, clients, procs, terms, proxy, outputs, history>>

-----------------------------------------------------------------------------
(* The end of a client, of a lease and of a shell *)

\* A mutant: the session of a killed shell is kept until its exit event.
KilledAttached(P) ==
  /\ shell' = [p \in Pids |-> IF p \in P /\ shell[p] = "alive" THEN "killed"
                              ELSE shell[p]]
  /\ UNCHANGED session

\* $kill, for a set of shells: they are signalled and lose their sessions.
Killed(P) ==
  /\ shell' = [p \in Pids |-> IF p \in P /\ shell[p] = "alive" THEN "killed"
                              ELSE shell[p]]
  /\ session' = [s \in Sessions |-> IF session[s] \in P THEN 0 ELSE session[s]]

\* The terminals of a client, as disposeClient finds them.
Terminals(c) == {s \in Sessions : terms[<<c, s>>] # 0}

\* The leases after disposeClient: each persistent session's current shell.
Leased(c) ==
  [s \in Sessions |-> IF s \in Terminals(c) \ Transient THEN session[s]
                      ELSE lease[s]]

\* The grace period is over: disposeClient.
ClientExpires(c) ==
  LET ended == Terminals(c)
      doomed == {svc[terms[<<c, s>>]].pid : s \in
                   {t \in ended \intersect Transient :
                      svc[terms[<<c, t>>]].st = "bound"}}
      released == {terms[<<c, s>>] : s \in ended \ Transient} IN
  /\ c \in closing
  /\ closing' = closing \ {c}
  /\ registered' = [registered EXCEPT ![c] = 0]
  /\ procs' = [id \in Ids |-> IF id[1] = c /\ id[2] \in ended THEN 0
                              ELSE procs[id]]
  /\ terms' = [id \in Ids |-> IF id[1] = c THEN 0 ELSE terms[id]]
  /\ batch' = [id \in Ids |-> IF id[1] = c /\ id[2] \in ended THEN NoBatch
                              ELSE batch[id]]
  /\ svc' = [k \in Services |-> IF k \in released THEN [svc[k] EXCEPT !.st = "disposed"]
                                ELSE svc[k]]
  /\ Killed(doomed)
  /\ lease' = Leased(c)
  /\ UNCHANGED <<browser, up, links, listener, spoken, outputs, history>>

\* The timer of $scheduleSessionCleanup.
LeaseExpires(s) ==
  /\ lease[s] # 0
  /\ lease' = [lease EXCEPT ![s] = 0]
  /\ IF session[s] = lease[s]
       THEN Killed({lease[s]})
       ELSE UNCHANGED <<shell, session>>
  /\ UNCHANGED <<browser, clients, services, batch, listener, spoken, outputs,
                 history>>

\* The user closes a terminal: disposeById kills what the id maps to.
DisposeById(c, s) ==
  LET k == procs[<<c, s>>]
      P == IF k # 0 /\ svc[k].st = "bound" THEN {svc[k].pid} ELSE {} IN
  /\ page[c] = "open" /\ c \in up
  /\ view[<<c, s>>] = "shown"
  /\ view' = [view EXCEPT ![<<c, s>>] = "closed"]
  /\ Killed(P)
  /\ lease' = [t \in Sessions |-> IF session[t] \in P THEN 0 ELSE lease[t]]
  /\ UNCHANGED <<page, clients, services, batch, listener, spoken, outputs,
                 history>>

\* A shell ends, by itself or because it was killed.
ShellEnds(p) ==
  /\ Running(p)
  /\ shell' = [shell EXCEPT ![p] = "dead"]
  /\ UNCHANGED <<browser, clients, services, batch, session, lease, listener,
                 spoken, outputs, history>>

\* The exit event: the onExit handler of create2, if a PtyService still
\* listens, then cleanupPty in a microtask.  Without any listener, after
\* $spawn gave the session to a new shell, nothing happens.
ExitEvent(p) ==
  LET k == listener[p]
      heard == k # 0 /\ svc[k].st = "bound"
      id == svc[k].id IN
  /\ shell[p] = "dead"
  /\ shell' = [shell EXCEPT ![p] = "gone"]
  /\ IF heard
       THEN /\ svc' = [svc EXCEPT ![k].st = "disposed"]
            /\ terms' = [terms EXCEPT ![id] = 0]
            /\ procs' = [procs EXCEPT ![id] = 0]
            /\ batch' = [batch EXCEPT ![id] = NoBatch]
            /\ view' = IF Reaches(id[1]) THEN [view EXCEPT ![id] = "closed"]
                       ELSE view
       ELSE UNCHANGED <<svc, terms, procs, batch, view>>
  /\ session' = [s \in Sessions |-> IF k # 0 /\ session[s] = p THEN 0 ELSE session[s]]
  /\ lease' = [s \in Sessions |-> IF k # 0 /\ session[s] = p THEN 0 ELSE lease[s]]
  /\ listener' = [listener EXCEPT ![p] = 0]
  /\ spoken' = IF k # 0 THEN spoken \ {p} ELSE spoken
  /\ crossed' = IF heard /\ terms[id] \notin {0, k} THEN crossed \union {id[2]}
                ELSE crossed
  /\ UNCHANGED <<page, clients, outputs, late, taken, burst>>

-----------------------------------------------------------------------------
(* Output *)

\* A chunk of output; without a client it is only cached.
Output(p, size) ==
  LET k == listener[p]
      id == svc[k].id
      batched == k # 0 /\ svc[k].st = "bound" /\ ~Unregistered(id[1]) IN
  /\ Running(p)
  /\ outputs < MaxOutputs
  /\ outputs' = outputs + 1
  /\ spoken' = spoken \union {p}
  /\ batch' = IF batched THEN [batch EXCEPT ![id] = Received(@, size)] ELSE batch
  /\ burst' = IF batched /\ size = "large" THEN burst \union {id} ELSE burst
  /\ UNCHANGED <<browser, clients, services, shell, session, lease, listener,
                 late, taken, crossed>>

\* A mutant: a flush does not forget the timer that called it.
TimerKept(b) == [held |-> FALSE, timer |-> "stale"]

\* flushPtyData by the timer: with nothing to flush it returns before it
\* forgets the timer.
AfterTimer(b) == IF b.held THEN NoBatch ELSE [b EXCEPT !.timer = "stale"]

BatchTimer(id) ==
  /\ batch[id].timer = "armed"
  /\ batch' = [batch EXCEPT ![id] = AfterTimer(@)]
  /\ UNCHANGED <<browser, clients, services, proxy, outputs, history>>

-----------------------------------------------------------------------------
Init ==
  /\ page = [c \in Clients |-> "new"]
  /\ view = [id \in Ids |-> "none"]
  /\ up = {} /\ closing = {}
  /\ links = [c \in Clients |-> 0]
  /\ registered = [c \in Clients |-> 0]
  /\ svc = [k \in Services |-> NoService]
  /\ procs = [id \in Ids |-> 0]
  /\ terms = [id \in Ids |-> 0]
  /\ batch = [id \in Ids |-> NoBatch]
  /\ shell = [p \in Pids |-> "none"]
  /\ session = [s \in Sessions |-> 0]
  /\ lease = [s \in Sessions |-> 0]
  /\ listener = [p \in Pids |-> 0]
  /\ spoken = {} /\ outputs = 0
  /\ late = {} /\ taken = {} /\ burst = {} /\ crossed = {}

Next ==
  \/ \E c \in Clients : Connect(c) \/ PageLeaves(c) \/ LinkLost(c) \/ ClientExpires(c)
  \/ \E c \in Clients, s \in Sessions : DisposeById(c, s)
  \/ \E c \in Clients, s \in Sessions, k \in Services : Attach(c, s, k)
  \/ \E k \in Services, size \in Sizes : Spawned(k, size)
  \/ \E k \in Services : StartFails(k)
  \/ \E s \in Sessions : LeaseExpires(s)
  \/ \E p \in Pids : ShellEnds(p) \/ ExitEvent(p)
  \/ \E p \in Pids, size \in Sizes : Output(p, size)
  \/ \E id \in Ids : BatchTimer(id)

Spec == Init /\ [][Next]_vars

-----------------------------------------------------------------------------
(* Properties *)

\* Types, and how the maps of the server and of the proxy agree: an entry of a
\* client's terminals is a PtyService of that id, a session names a shell that
\* was spawned, and a lease is about the session's current shell.
TypeOK ==
  /\ page \in [Clients -> {"new", "open", "left"}]
  /\ view \in [Ids -> {"none", "shown", "closed"}]
  /\ up \subseteq Clients /\ closing \subseteq Clients
  /\ up \intersect closing = {}
  /\ \A c \in Clients : registered[c] \in 0 .. links[c]
  /\ \A id \in Ids : terms[id] # 0 => /\ svc[terms[id]].id = id
                                      /\ svc[terms[id]].st \in {"bound", "disposed"}
  /\ \A id \in Ids : procs[id] # 0 => svc[procs[id]].id = id
  /\ batch \in [Ids -> [held : BOOLEAN, timer : {"none", "armed", "stale"}]]
  /\ \A s \in Sessions : /\ session[s] # 0 => shell[session[s]] \in {"alive", "dead"}
                         /\ lease[s] # 0 => lease[s] = session[s]
  /\ \A p \in spoken : shell[p] # "none"
  /\ outputs \in 0 .. MaxOutputs

\* A shell somebody works with: the page that shows it is connected and its
\* PtyService is the one that listens.
InUse(s) ==
  \E k \in Services : /\ svc[k].st = "bound" /\ svc[k].id[2] = s
                      /\ Reaches(svc[k].id[1])
                      /\ view[svc[k].id] = "shown"
                      /\ session[s] = svc[k].pid
                      /\ listener[svc[k].pid] = k

\* A client whose terminals will be looked after: it is connected, or in its
\* grace period.  (late: a start that outlived its connection ended the grace
\* period, and nothing starts another.)
Attended(c) == c \in up \union closing \union late

\* Every living shell belongs to a client that is looked after or has a lease,
\* so none stays for ever; and a shell in use has no lease, unless the client
\* that had it before still held it when it was resumed.  (crossed: the exit
\* event of the shell a terminal had before it was launched again deletes the
\* entries of the PtyService it has now; nobody finds the shell of that one until
\* the session is resumed.)
EveryShellHasAKeeper ==
  /\ \A p \in Pids : shell[p] = "alive" =>
       \/ \E s \in Sessions : lease[s] = p
       \/ \E id \in Ids : /\ terms[id] # 0
                          /\ svc[terms[id]].pid = p
                          /\ Attended(id[1])
       \/ \E s \in crossed : session[s] = p
  /\ \A s \in Sessions : InUse(s) /\ lease[s] # 0 => s \in taken \union crossed

\* Output that waits to be sent has a timer that will send it, unless a burst
\* before it left the entry of a timer that had nothing to do.
OutputIsSent ==
  \A id \in Ids : batch[id].held => batch[id].timer = "armed" \/ id \in burst

=============================================================================
