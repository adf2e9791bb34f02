--------------------------- MODULE WorkspaceAgent ---------------------------
(***************************************************************************)
(* The life cycle of the Go Workspace Agent as the Node server drives it:  *)
(* on-demand single-flight start, startup steps that each await, the exit  *)
(* callback, the restart budget (three failures in a window) with backoff, *)
(* clean-up of a detached runtime (shutdown call, SIGTERM, SIGKILL, removal *)
(* of the socket directory) and dispose() racing all of them.              *)
(*                                                                         *)
(* Source: src/packages/file-service/src/node/workspace-agent.ts,          *)
(* class WorkspaceAgentClient.                                             *)
(*                                                                         *)
(* The code runs on one event loop: an action is what runs between two     *)
(* awaits.  A launch is identified by its attempt number; the child, the   *)
(* socket directory and the gRPC clients of a launch carry that number     *)
(* (0 for undefined).  The four gRPC clients are assigned and closed       *)
(* together and are one field; the token is assigned with the child.       *)
(***************************************************************************)
EXTENDS Integers, FiniteSets

CONSTANTS
    Callers,       \* concurrent requests that call ensureStarted
    MaxFailures,   \* MAX_FAILURES_PER_RESTART_WINDOW (3 in the code)
    MaxLaunches    \* bound: launch attempts explored

ASSUME CallersAssumption ==
    IsFiniteSet(Callers) /\ Callers \cap {"start", "exit", "dispose"} = {}
ASSUME BoundsAssumption ==
    /\ MaxFailures \in Nat \ {0}
    /\ MaxLaunches \in Nat

Attempts == 1..MaxLaunches

VARIABLES
    \* Fields of WorkspaceAgentClient.
    child, dir, clients,   \* attempt whose child / directory / clients it holds
    capable,               \* capabilities # undefined
    current,               \* currentLaunchAttempt
    launches,              \* launchSequence
    lastHandled,           \* lastHandledFailureAttempt
    recent,                \* failureTimestamps inside the window
    backoff,               \* now < restartNotBefore
    exhausted,             \* permanentlyUnavailable
    disposed,
    startPromise,          \* identity of the pending start promise, or 0
    cleanups,              \* cleanupTasks, one record per running cleanupRuntime
    \* Where the asynchronous functions are.
    startId, starter,      \* the latest startAfterBackoff: its promise, its step
    cpc, waits,            \* each caller of ensureStarted, the promise it awaits
    dpc, disposeWaits,     \* dispose()
    \* The operating system.
    proc,                  \* state of the process of each attempt
    dirs,                  \* socket directories that exist
    openClients,           \* gRPC clients that are not closed
    \* History, for the properties only.
    charged,               \* how often a failure of the attempt was recorded
    aged,                  \* failures that left the window
    late                   \* a caller back from its wait for a clean-up has
                           \* begun a start although a runtime was up again

fields == <<child, dir, clients, capable, current>>
budget == <<lastHandled, recent, backoff, exhausted, charged, aged>>
start == <<launches, startPromise, startId, starter>>
callers == <<cpc, waits, late>>
disposal == <<disposed, dpc, disposeWaits>>
system == <<proc, dirs, openClients>>
vars == <<fields, budget, start, callers, disposal, system, cleanups>>

Settled(id) == id < startId \/ starter \in {"resolved", "rejected"}
Running(a) == proc[a] = "running"

-----------------------------------------------------------------------------
(* Helpers of the client                                                   *)

\* recordFailure(attempt): counted once per attempt, never after dispose.
Ignored(a) == a <= lastHandled \/ disposed

OneMore == recent + 1 > MaxFailures  \* a mutant
BudgetSpent == recent + 1 >= MaxFailures

RecordFailure(a) ==
    IF Ignored(a) THEN UNCHANGED budget
    ELSE /\ lastHandled' = a
         /\ charged' = [charged EXCEPT ![a] = @ + 1]
         /\ recent' = recent + 1
         /\ exhausted' = (exhausted \/ BudgetSpent)
         /\ backoff' = (backoff \/ ~BudgetSpent)
         /\ UNCHANGED aged

HasChild == child # 0      \* a mutant
HasClients == clients # 0  \* a mutant
HasRuntime == child # 0 \/ dir # 0 \/ clients # 0

\* A cleanupRuntime call up to its first await: without a shutdown request the
\* clients are closed at once.
Cleanup(owner, shutdown) ==
    [owner |-> owner, child |-> child, dir |-> dir, clients |-> clients,
     stage |-> IF shutdown /\ clients # 0 THEN "request"
               ELSE IF child # 0 THEN "wait" ELSE "remove"]

\* detachRuntime followed by scheduleRuntimeCleanup.
Detach(owner, shutdown) ==
    IF HasRuntime
    THEN /\ cleanups' = cleanups \cup {Cleanup(owner, shutdown)}
         /\ openClients' = IF shutdown THEN openClients
                                       ELSE openClients \ {clients}
         /\ child' = 0 /\ dir' = 0 /\ clients' = 0
         /\ capable' = FALSE /\ current' = 0
    ELSE UNCHANGED <<fields, cleanups, openClients>>

Cleaning(owner) == \E t \in cleanups : t.owner = owner

-----------------------------------------------------------------------------
(* ensureStarted                                                           *)

\* The bound on launches: a caller that may still begin a start when its
\* clean-up is over keeps one launch in reserve.
WithinBound ==
    launches + Cardinality({c \in Callers : cpc[c] = "cleaning"}) < MaxLaunches

\* this.startPromise ||= this.startAfterBackoff(), then await it.
Join(c) ==
    /\ cpc' = [cpc EXCEPT ![c] = "waiting"]
    /\ IF startPromise = 0
       THEN /\ startId' = startId + 1
            /\ startPromise' = startId + 1
            /\ starter' = "delay"
            /\ waits' = [waits EXCEPT ![c] = startId + 1]
       ELSE /\ waits' = [waits EXCEPT ![c] = startPromise]
            /\ UNCHANGED <<startId, startPromise, starter>>
    /\ UNCHANGED launches

\* No runtime is up and none is known dead: join or begin a start.  (A call on
\* a disposed or exhausted client throws, one on a ready agent returns.)
EnsureStarted(c) ==
    /\ cpc[c] = "idle" /\ ~disposed /\ ~exhausted
    /\ child # 0 => Running(child) /\ ~capable
    /\ startPromise = 0 => WithinBound
    /\ Join(c)
    /\ UNCHANGED <<late, fields, budget, disposal, system, cleanups>>

\* The child is dead but its callback has not run: detach it and await the
\* clean-up before joining.
ObserveDeadChild(c) ==
    /\ cpc[c] = "idle" /\ ~disposed
    /\ child # 0 /\ ~Running(child)
    /\ WithinBound
    /\ IF current # 0 THEN RecordFailure(current) ELSE UNCHANGED budget
    /\ Detach(c, FALSE)
    /\ cpc' = [cpc EXCEPT ![c] = "cleaning"]
    /\ UNCHANGED <<waits, late, start, disposal, proc, dirs>>

\* Neither disposed nor the state of the runtime is looked at again: another
\* caller may have had an agent started while this one waited.
CallerCleaned(c) ==
    /\ cpc[c] = "cleaning" /\ ~Cleaning(c)
    /\ IF exhausted
       THEN cpc' = [cpc EXCEPT ![c] = "idle"] /\ UNCHANGED <<waits, late, start>>
       ELSE Join(c) /\ late' = (late \/ (startPromise = 0 /\ HasRuntime))
    /\ UNCHANGED <<fields, budget, disposal, system, cleanups>>

\* The awaited promise settled; the first caller to resume clears it.
CallerResumes(c) ==
    /\ cpc[c] = "waiting" /\ Settled(waits[c])
    /\ cpc' = [cpc EXCEPT ![c] = "idle"]
    /\ startPromise' = IF startPromise = waits[c] THEN 0 ELSE startPromise
    /\ UNCHANGED <<waits, late, launches, startId, starter, fields, budget, disposal,
                   system, cleanups>>

-----------------------------------------------------------------------------
(* startAfterBackoff and start                                             *)

\* The backoff of the latest failure is over: launch.
DelayOver ==
    /\ starter = "delay" /\ ~backoff
    /\ IF disposed \/ exhausted
       THEN starter' = "rejected" /\ UNCHANGED <<launches, current>>
       ELSE /\ launches < MaxLaunches
            /\ launches' = launches + 1
            /\ current' = launches + 1
            /\ starter' = "mkdtemp"
    /\ UNCHANGED <<startPromise, startId, child, dir, clients, capable, budget,
                   callers, disposal, system, cleanups>>

\* mkdtemp resolved.  Disposed meanwhile, or spawn throws: the start fails.
\* Otherwise there is a child, whose process may turn out not to exist.
DirectoryMade ==
    /\ starter = "mkdtemp"
    /\ dir' = launches
    /\ dirs' = dirs \cup {launches}
    /\ \/ starter' = "failing" /\ UNCHANGED <<child, proc>>
       \/ /\ ~disposed
          /\ starter' = "announce"
          /\ child' = launches
          /\ \E outcome \in {"running", "failed"} :
                proc' = [proc EXCEPT ![launches] = outcome]
    /\ UNCHANGED <<launches, startPromise, startId, clients, capable, current,
                   budget, callers, disposal, openClients, cleanups>>

\* The child announced its listener; clients are created and kept, also when
\* the child was detached in the meantime.
Announced ==
    /\ starter = "announce" /\ Running(launches)
    /\ clients' = launches
    /\ openClients' = openClients \cup {launches}
    /\ starter' = "connect"
    /\ UNCHANGED <<launches, startPromise, startId, child, dir, capable,
                   current, budget, callers, disposal, proc, dirs, cleanups>>

Connected ==
    /\ starter = "connect" /\ Running(launches) /\ launches \in openClients
    /\ starter' = "capabilities"
    /\ UNCHANGED <<launches, startPromise, startId, fields, budget, callers,
                   disposal, system, cleanups>>

\* getCapabilities answered: a client that was disposed or whose child was
\* detached while it waited rejects the start.
CapabilitiesReceived ==
    /\ starter = "capabilities"
    /\ IF disposed \/ child # launches
       THEN starter' = "failing" /\ UNCHANGED capable
       ELSE starter' = "resolved" /\ capable' = TRUE
    /\ UNCHANGED <<launches, startPromise, startId, child, dir, clients,
                   current, budget, callers, disposal, system, cleanups>>

\* The binary is missing, mkdtemp or spawn fails, the child exits or says
\* something else, a deadline passes.
NoListener == {"mkdtemp", "connect", "capabilities"}  \* a mutant
Fallible == {"mkdtemp", "announce", "connect", "capabilities"}

StartFails ==
    /\ starter \in Fallible
    /\ starter' = "failing"
    /\ UNCHANGED <<launches, startPromise, startId, fields, budget, callers,
                   disposal, system, cleanups>>

\* The catch block of startAfterBackoff awaits the clean-up before it rethrows.
Rethrow == "rejected"  \* a mutant
AfterCatch == IF HasRuntime THEN "cleaning" ELSE "rejected"

StartCaught ==
    /\ starter = "failing"
    /\ RecordFailure(launches)
    /\ Detach("start", FALSE)
    /\ starter' = AfterCatch
    /\ UNCHANGED <<launches, startPromise, startId, callers, disposal, proc,
                   dirs>>

StartCleaned ==
    /\ starter = "cleaning" /\ ~Cleaning("start")
    /\ starter' = "rejected"
    /\ UNCHANGED <<launches, startPromise, startId, fields, budget, callers,
                   disposal, system, cleanups>>

-----------------------------------------------------------------------------
(* The child and its clean-up                                              *)

\* The process ends and the exit callback of the current child runs.
ChildExits(a) ==
    /\ proc[a] \in {"running", "stuck"}
    /\ proc' = [proc EXCEPT ![a] = "exited"]
    /\ IF ~disposed /\ child = a
       THEN RecordFailure(a) /\ Detach("exit", FALSE)
       ELSE UNCHANGED <<fields, budget, cleanups, openClients>>
    /\ UNCHANGED <<start, callers, disposal, dirs>>

\* The shutdown call was answered or ran into its deadline: close the clients.
ShutdownAnswered(t) ==
    /\ t.stage = "request"
    /\ openClients' = openClients \ {t.clients}
    /\ cleanups' = (cleanups \ {t}) \cup
          {[t EXCEPT !.stage = IF t.child # 0 THEN "wait" ELSE "remove"]}
    /\ UNCHANGED <<fields, budget, start, callers, disposal, proc, dirs>>

\* waitForExit saw the child exit.
ExitAwaited(t) ==
    /\ t.stage \in {"wait", "terminated", "killed"} /\ ~Running(t.child)
    /\ cleanups' = (cleanups \ {t}) \cup {[t EXCEPT !.stage = "remove"]}
    /\ UNCHANGED <<fields, budget, start, callers, disposal, system>>

\* waitForExit timed out: SIGTERM, then SIGKILL, then the clean-up goes on
\* without the process, which is stuck.
NeverKill(stage) == "terminated"  \* a mutant
NextStage(stage) == CASE stage = "wait" -> "terminated"
                      [] stage = "terminated" -> "killed"
                      [] stage = "killed" -> "remove"

Escalate(t) ==
    /\ t.stage \in {"wait", "terminated", "killed"} /\ Running(t.child)
    /\ cleanups' = (cleanups \ {t}) \cup
          {[t EXCEPT !.stage = NextStage(t.stage)]}
    /\ proc' = IF t.stage = "killed" THEN [proc EXCEPT ![t.child] = "stuck"]
                                      ELSE proc
    /\ UNCHANGED <<fields, budget, start, callers, disposal, dirs, openClients>>

DirectoryRemoved(t) ==
    /\ t.stage = "remove"
    /\ dirs' = dirs \ {t.dir}
    /\ cleanups' = cleanups \ {t}
    /\ UNCHANGED <<fields, budget, start, callers, disposal, proc, openClients>>

-----------------------------------------------------------------------------
(* dispose()                                                               *)

Dispose ==
    /\ ~disposed
    /\ disposed' = TRUE
    /\ disposeWaits' = startPromise
    /\ Detach("dispose", TRUE)
    /\ dpc' = IF HasRuntime THEN "first" ELSE "starting"
    /\ UNCHANGED <<budget, start, callers, proc, dirs>>

DisposeCleaned ==
    /\ dpc \in {"first", "late"} /\ ~Cleaning("dispose")
    /\ dpc' = IF dpc = "first" THEN "starting" ELSE "tasks"
    /\ UNCHANGED <<disposed, disposeWaits, fields, budget, start, callers,
                   system, cleanups>>

\* await startPromise?.catch(...), then detach what the start left behind.
StartAwaited == disposeWaits = 0 \/ Settled(disposeWaits)

DisposeStartSettled ==
    /\ dpc = "starting"
    /\ StartAwaited
    /\ Detach("dispose", TRUE)
    /\ dpc' = IF HasRuntime THEN "late" ELSE "tasks"
    /\ UNCHANGED <<disposed, disposeWaits, budget, start, callers, proc, dirs>>

\* await Promise.all(cleanupTasks): no task is added once disposed and started.
DisposeTasksDone ==
    /\ dpc = "tasks" /\ cleanups = {}
    /\ dpc' = "done"
    /\ UNCHANGED <<disposed, disposeWaits, fields, budget, start, callers,
                   system, cleanups>>

-----------------------------------------------------------------------------
(* Time                                                                    *)

BackoffElapses ==
    /\ backoff
    /\ backoff' = FALSE
    /\ UNCHANGED <<lastHandled, recent, exhausted, charged, aged, fields,
                   start, callers, disposal, system, cleanups>>

\* Failures leave the window; the window outlasts the backoff of its newest.
FailureAges ==
    /\ recent > IF backoff THEN 1 ELSE 0
    /\ recent' = recent - 1
    /\ aged' = aged + 1
    /\ UNCHANGED <<lastHandled, backoff, exhausted, charged, fields, start,
                   callers, disposal, system, cleanups>>

-----------------------------------------------------------------------------
Init ==
    /\ child = 0 /\ dir = 0 /\ clients = 0 /\ capable = FALSE /\ current = 0
    /\ launches = 0 /\ startPromise = 0 /\ startId = 0 /\ starter = "rejected"
    /\ lastHandled = 0 /\ recent = 0 /\ backoff = FALSE /\ exhausted = FALSE
    /\ charged = [a \in Attempts |-> 0] /\ aged = 0
    /\ cpc = [c \in Callers |-> "idle"] /\ waits = [c \in Callers |-> 0]
    /\ late = FALSE
    /\ disposed = FALSE /\ dpc = "none" /\ disposeWaits = 0
    /\ proc = [a \in Attempts |-> "none"] /\ dirs = {} /\ openClients = {}
    /\ cleanups = {}

Starting == \/ DelayOver \/ DirectoryMade \/ Announced \/ Connected
            \/ CapabilitiesReceived \/ StartFails \/ StartCaught \/ StartCleaned

CleanupStep == \E t \in cleanups :
                  \/ ShutdownAnswered(t) \/ ExitAwaited(t) \/ Escalate(t)
                  \/ DirectoryRemoved(t)

Disposing == \/ Dispose \/ DisposeCleaned \/ DisposeStartSettled
             \/ DisposeTasksDone

CallerStep(c) == \/ EnsureStarted(c) \/ ObserveDeadChild(c)
                 \/ CallerCleaned(c) \/ CallerResumes(c)

Next == \/ \E c \in Callers : CallerStep(c)
        \/ Starting
        \/ \E a \in Attempts : ChildExits(a)
        \/ CleanupStep
        \/ Disposing
        \/ BackoffElapses \/ FailureAges

Spec == Init /\ [][Next]_vars

\* The event loop runs a continuation whose promise settled; a start step that
\* is not answered fails (every await of start has a deadline); the waits of a
\* clean-up time out; a backoff timer fires.  Nothing is asked of the agent.
Fairness ==
    /\ WF_vars(DelayOver) /\ WF_vars(StartFails) /\ WF_vars(StartCaught)
    /\ WF_vars(StartCleaned) /\ WF_vars(CleanupStep)
    /\ WF_vars(DisposeCleaned) /\ WF_vars(DisposeStartSettled)
    /\ WF_vars(DisposeTasksDone)
    /\ \A c \in Callers : WF_vars(CallerCleaned(c)) /\ WF_vars(CallerResumes(c))
    /\ WF_vars(BackoffElapses)

FairSpec == Spec /\ Fairness

-----------------------------------------------------------------------------
(* Properties                                                              *)

StartSteps == {"delay", "mkdtemp", "announce", "connect", "capabilities",
               "failing", "cleaning", "resolved", "rejected"}
Held == 0..MaxLaunches

\* The types of the state; what the fields hold belongs to the latest launch,
\* unless a late caller (608-615) has begun a start over another's runtime.
TypeOK ==
    /\ {child, dir, clients, current} \subseteq Held
    /\ ~late => {child, dir, clients, current} \subseteq {0, launches}
    /\ late \in BOOLEAN
    /\ capable \in BOOLEAN /\ launches \in Held /\ lastHandled \in Held
    /\ recent \in Nat /\ aged \in Nat
    /\ backoff \in BOOLEAN /\ exhausted \in BOOLEAN /\ disposed \in BOOLEAN
    /\ charged \in [Attempts -> Nat]
    /\ startId \in Nat /\ startPromise \in 0..startId
    /\ starter \in StartSteps
    /\ cpc \in [Callers -> {"idle", "cleaning", "waiting"}]
    /\ waits \in [Callers -> 0..startId]
    /\ dpc \in {"none", "first", "starting", "late", "tasks", "done"}
    /\ disposeWaits \in 0..startId
    /\ proc \in [Attempts -> {"none", "running", "failed", "exited", "stuck"}]
    /\ dirs \subseteq Attempts /\ openClients \subseteq Attempts
    /\ cleanups \subseteq
          [owner : Callers \cup {"start", "exit", "dispose"},
           child : Held, dir : Held, clients : Held,
           stage : {"request", "wait", "terminated", "killed", "remove"}]

\* A launch begins only when the runtime of the one before was given up.  The
\* comment on recordFailure calls launch attempts strictly sequential; a late
\* caller (608-615) breaks it.
LaunchesSequential == [][launches' # launches => ~HasRuntime]_vars

\* There is never more than one live agent process: a launch waits for the
\* clean-up of the failed one, an exit is recorded before the next launch.  Two
\* orders of the code are excepted: a late caller, and a process that is still
\* there one second after SIGKILL (it is "stuck", not "running").
AtMostOneLiveAgent ==
    ~late => \A a, b \in Attempts : Running(a) /\ Running(b) => a = b

\* A live process, a socket directory and an open client are reachable from
\* the fields of the client or from a running clean-up.
AllReachable ==
    /\ \A a \in Attempts : Running(a) =>
          child = a \/ \E t \in cleanups : t.child = a /\ t.stage # "remove"
    /\ \A a \in dirs : dir = a \/ \E t \in cleanups : t.dir = a
    /\ \A a \in openClients :
          clients = a \/ \E t \in cleanups : t.clients = a /\ t.stage = "request"

\* Once dispose() has returned there is no process, directory, client or
\* clean-up left, and none appears later.
DisposedIsClean ==
    dpc = "done" =>
        /\ \A a \in Attempts : ~Running(a)
        /\ dirs = {} /\ openClients = {} /\ cleanups = {}

\* Nothing leaks, whichever await of the start it was created after: what
\* exists is reachable, and dispose() has found all of it when it returns.
\* Excepted are the same two orders: a late caller's start overwrites fields
\* that hold a runtime, and nobody waits for a stuck process.
NothingLeaks == ~late => AllReachable /\ DisposedIsClean

AttemptOver(a) ==
    /\ a <= launches /\ ~Running(a)
    /\ a < launches \/ starter \in {"resolved", "rejected", "delay"}

\* Every launch that is over was charged once.
ChargedOnce ==
    \A a \in Attempts :
        /\ charged[a] <= 1
        /\ AttemptOver(a) /\ ~disposed => charged[a] = 1

\* Launch churn stops at the third failure of a window: at most MaxFailures
\* launches happen for which no failure has left the window.
LaunchesBounded == launches <= MaxFailures + aged

\* The restart budget is exact: whichever of the startup, exit and observation
\* paths saw a failure first, it is charged once, and the breaker opens in time
\* (a runtime that a late caller's start overwrote is charged to nobody).
BudgetExact == ~late => ChargedOnce /\ LaunchesBounded

\* dispose() returns.
DisposeCompletes == disposed ~> dpc = "done"

\* Every ensureStarted call settles.
EnsureStartedSettles == \A c \in Callers : cpc[c] # "idle" ~> cpc[c] = "idle"
=============================================================================
