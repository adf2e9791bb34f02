------------------------ MODULE WorkspaceAgent_proofs ------------------------
(* Proofs about WorkspaceAgent, for every set of callers, restart budget and    *)
(* number of launches.                                                          *)
EXTENDS WorkspaceAgent, FiniteSetTheorems, TLAPS

-----------------------------------------------------------------------------
(* The inductive invariant.                                                    *)

\* A start that has not begun a launch of its own, or is over.
Quiet == starter \in {"delay", "resolved", "rejected"}

\* One start at a time: its promise stays until it is over.  dispose() waits for
\* the one it found, and any later one ends before it launches.
FlowInv ==
  /\ startPromise \in {0, startId}
  /\ starter \notin {"resolved", "rejected"} => startPromise = startId /\ startId # 0
  /\ ~Quiet => launches # 0
  /\ disposed <=> dpc # "none"
  /\ disposed /\ (disposeWaits = 0 \/ disposeWaits < startId) => Quiet
  /\ dpc \in {"late", "tasks", "done"} => Quiet
  /\ dpc = "done" => cleanups = {}

\* What the fields hold at each step of the start.
FieldInv ==
  /\ starter \in {"delay", "mkdtemp", "cleaning", "rejected"}
       => child = 0 /\ dir = 0 /\ clients = 0
  /\ starter = "announce" => clients = 0 /\ dir = child
  /\ starter \in {"connect", "capabilities", "resolved"} /\ child # 0
       => dir = child /\ clients = child /\ Running(child)
  /\ starter = "resolved" /\ child = 0 => dir = 0 /\ clients = 0
  /\ capable <=> starter = "resolved" /\ child # 0
  /\ disposed => child = 0
  /\ child # 0 => proc[child] \in {"running", "failed"}

\* A process that runs is the one of the newest launch; before dispose() it is
\* the child, or the start that detached it waits for its end.
StartCleans(a) == \E t \in cleanups : t.owner = "start" /\ t.child = a /\ t.stage # "remove"
ProcInv ==
  /\ \A a \in Attempts : a > launches => proc[a] = "none"
  /\ starter = "mkdtemp" => proc[launches] = "none"
  /\ \A a \in Attempts : Running(a) =>
       /\ a = launches
       /\ disposed \/ child = a \/ (starter = "cleaning" /\ StartCleans(a))

\* A clean-up has a child that was started and that the client has given up.
TaskInv == \A t \in cleanups : t.child # 0 => t.child # child /\ proc[t.child] # "none"

\* The attempts charged are the first ones, all that are over; the breaker counts
\* those in the window.
BudgetInv ==
  /\ \A a \in Attempts : charged[a] = IF a <= lastHandled THEN 1 ELSE 0
  /\ lastHandled <= launches /\ launches <= lastHandled + 1
  /\ ~disposed /\ (\/ starter \in {"delay", "cleaning", "rejected"}
                   \/ starter = "resolved" /\ child = 0) => lastHandled = launches
  /\ recent + aged = lastHandled
  /\ ~exhausted => recent < MaxFailures
  /\ LaunchesBounded

\* What only a late caller disturbs.
SharpInv == FieldInv /\ ProcInv /\ TaskInv /\ BudgetInv /\ AllReachable

IInv == TypeOK /\ FlowInv /\ (~late => SharpInv)

-----------------------------------------------------------------------------
(* Types, in groups, and what the helpers of the client do.                    *)

CleanupTasks ==
  [owner : Callers \cup {"start", "exit", "dispose"},
   child : Held, dir : Held, clients : Held,
   stage : {"request", "wait", "terminated", "killed", "remove"}]

FlowTypes ==
  /\ launches \in Held /\ disposed \in BOOLEAN
  /\ startId \in Nat /\ startPromise \in 0..startId /\ starter \in StartSteps
  /\ cpc \in [Callers -> {"idle", "cleaning", "waiting"}]
  /\ waits \in [Callers -> 0..startId]
  /\ dpc \in {"none", "first", "starting", "late", "tasks", "done"}
  /\ disposeWaits \in 0..startId

LooseTypes ==
  /\ {child, dir, clients, current} \subseteq Held
  /\ capable \in BOOLEAN /\ late \in BOOLEAN

FieldTypes ==
  /\ {child, dir, clients, current} \subseteq {0, launches}
  /\ capable \in BOOLEAN

BudgetTypes ==
  /\ lastHandled \in Held /\ recent \in Nat /\ aged \in Nat
  /\ backoff \in BOOLEAN /\ exhausted \in BOOLEAN
  /\ charged \in [Attempts -> Nat]

SystemTypes ==
  /\ proc \in [Attempts -> {"none", "running", "failed", "exited", "stuck"}]
  /\ dirs \subseteq Attempts /\ openClients \subseteq Attempts
  /\ cleanups \subseteq CleanupTasks

LEMMA Types ==
  TypeOK <=> /\ FlowTypes /\ LooseTypes /\ BudgetTypes /\ SystemTypes
             /\ ~late => FieldTypes
BY DEF TypeOK, FlowTypes, LooseTypes, FieldTypes, BudgetTypes, SystemTypes, CleanupTasks

\* Once a caller was late, the run counts as late.
LEMMA LateStays == ASSUME late \in BOOLEAN, [Next]_vars, ~late' PROVE ~late
BY DEF Next, CallerStep, Starting, CleanupStep, Disposing, EnsureStarted, ObserveDeadChild,
   CallerCleaned, CallerResumes, DelayOver, DirectoryMade, Announced, Connected,
   CapabilitiesReceived, StartFails, StartCaught, StartCleaned, ChildExits, ShutdownAnswered,
   ExitAwaited, Escalate, DirectoryRemoved, Dispose, DisposeCleaned, DisposeStartSettled,
   DisposeTasksDone, BackoffElapses, FailureAges, vars, callers

LEMMA OnTime ==
  ASSUME IInv, [Next]_vars, ~late'
  PROVE  /\ ~late /\ TypeOK /\ FlowTypes /\ LooseTypes /\ FieldTypes /\ BudgetTypes
         /\ SystemTypes /\ FlowInv /\ FieldInv /\ ProcInv /\ TaskInv /\ BudgetInv /\ AllReachable
BY Types, LateStays DEF IInv, SharpInv, LooseTypes

LEMMA Numbers ==
  /\ MaxLaunches \in Nat /\ MaxFailures \in Nat \ {0}
  /\ Attempts = 1..MaxLaunches /\ Held = 0..MaxLaunches /\ Attempts \subseteq Nat
  /\ 0 \notin Attempts /\ \A a \in Held : a # 0 => a \in Attempts
BY BoundsAssumption DEF Attempts, Held

\* The record of a clean-up.
LEMMA CleanupIs ==
  ASSUME FlowTypes, LooseTypes, NEW owner \in Callers \cup {"start", "exit", "dispose"},
         NEW shutdown \in BOOLEAN
  PROVE  LET t == Cleanup(owner, shutdown) IN
         /\ t \in CleanupTasks
         /\ t.owner = owner /\ t.child = child /\ t.dir = dir /\ t.clients = clients
         /\ shutdown /\ clients # 0 => t.stage = "request"
         /\ child # 0 => t.stage # "remove"
<1>1. child \in Held /\ dir \in Held /\ clients \in Held
  BY DEF LooseTypes
<1>2. \A st : [owner |-> owner, child |-> child, dir |-> dir, clients |-> clients,
               stage |-> st].stage = st
  OBVIOUS
<1> QED BY <1>1 DEF Cleanup, CleanupTasks

\* detachRuntime leaves the fields empty.
LEMMA DetachDoes ==
  ASSUME TypeOK, FieldInv, NEW owner, NEW shutdown \in BOOLEAN, Detach(owner, shutdown)
  PROVE  /\ child' = 0 /\ dir' = 0 /\ clients' = 0 /\ capable' = FALSE
         /\ current' \in {0, current}
         /\ HasRuntime => cleanups' = cleanups \cup {Cleanup(owner, shutdown)}
         /\ ~HasRuntime => cleanups' = cleanups
         /\ openClients' = IF shutdown THEN openClients ELSE openClients \ {clients}
<1>1. CASE HasRuntime
  BY <1>1 DEF Detach
<1>2. CASE ~HasRuntime
  <2>1. child = 0 /\ dir = 0 /\ clients = 0
    BY <1>2 DEF HasRuntime
  <2>2. UNCHANGED <<fields, cleanups, openClients>>
    BY <1>2 DEF Detach
  <2>3. capable = FALSE
    BY <2>1 DEF FieldInv, TypeOK
  <2>4. openClients \ {clients} = openClients
    BY <2>1, Numbers DEF TypeOK
  <2> QED BY <1>2, <2>1, <2>2, <2>3, <2>4 DEF fields
<1> QED BY <1>1, <1>2

-----------------------------------------------------------------------------
(* One start at a time.                                                        *)

LEMMA FlowInit == Init => FlowTypes /\ FlowInv
<1> SUFFICES ASSUME Init PROVE FlowTypes /\ FlowInv
  OBVIOUS
<1>1. /\ launches = 0 /\ startPromise = 0 /\ startId = 0 /\ starter = "rejected"
      /\ disposed = FALSE /\ dpc = "none" /\ disposeWaits = 0
  BY DEF Init
<1>2. /\ cpc \in [Callers -> {"idle", "cleaning", "waiting"}] /\ waits \in [Callers -> 0..startId]
  BY DEF Init
<1>a. launches \in Held /\ startId \in Nat /\ startPromise \in 0..startId
      /\ disposeWaits \in 0..startId
  BY <1>1, Numbers
<1>b. disposed \in BOOLEAN /\ starter \in StartSteps
  BY <1>1 DEF StartSteps
<1>3. FlowTypes
  BY <1>1, <1>2, <1>a, <1>b DEF FlowTypes
<1>4. FlowInv
  BY <1>1 DEF FlowInv, Quiet
<1> QED BY <1>3, <1>4

\* The start, its promise and dispose() stay as they are.
LEMMA FlowKept ==
  ASSUME FlowTypes, FlowInv, UNCHANGED <<start, callers, disposal>>,
         dpc = "done" => cleanups' = {}
  PROVE  FlowTypes' /\ FlowInv'
BY DEF FlowTypes, FlowInv, Quiet, start, callers, disposal

\* A caller joins the pending start or begins one.
LEMMA FlowJoin ==
  ASSUME FlowTypes, FlowInv, NEW c \in Callers, Join(c), UNCHANGED <<disposal, cleanups>>
  PROVE  FlowTypes' /\ FlowInv'
<1>1. /\ cpc' = [cpc EXCEPT ![c] = "waiting"] /\ launches' = launches
      /\ UNCHANGED <<disposed, dpc, disposeWaits, cleanups>>
  BY DEF Join, disposal
<1>2. cpc' \in [Callers -> {"idle", "cleaning", "waiting"}]
  BY <1>1 DEF FlowTypes
<1>3. CASE startPromise = 0
  <2>1. /\ startId' = startId + 1 /\ startPromise' = startId + 1 /\ starter' = "delay"
        /\ waits' = [waits EXCEPT ![c] = startId + 1]
    BY <1>3 DEF Join
  <2>2. waits' \in [Callers -> 0..startId'] /\ startPromise' \in 0..startId' /\ startId' \in Nat
    BY <2>1 DEF FlowTypes
  <2>3. disposeWaits' \in 0..startId'
    BY <1>1, <2>1 DEF FlowTypes
  <2> QED BY <1>1, <1>2, <2>1, <2>2, <2>3 DEF FlowTypes, FlowInv, Quiet, StartSteps
<1>4. CASE startPromise # 0
  <2>1. UNCHANGED <<startId, startPromise, starter>>
        /\ waits' = [waits EXCEPT ![c] = startPromise]
    BY <1>4 DEF Join
  <2>2. waits' \in [Callers -> 0..startId']
    BY <2>1 DEF FlowTypes
  <2> QED BY <1>1, <1>2, <2>1, <2>2 DEF FlowTypes, FlowInv, Quiet
<1> QED BY <1>3, <1>4

\* The start moves to another step.
LEMMA FlowMoves ==
  ASSUME FlowTypes, FlowInv, UNCHANGED <<startId, startPromise, callers, disposal>>,
         launches' \in Held, starter' \in StartSteps,
         starter \notin {"resolved", "rejected"},
         starter' \in {"delay", "resolved", "rejected"} \/ (launches' # 0 /\ ~Quiet)
           \/ (launches' # 0 /\ ~disposed),
         dpc = "done" => cleanups' = {}
  PROVE  FlowTypes' /\ FlowInv'
BY DEF FlowTypes, FlowInv, Quiet, callers, disposal

LEMMA FlowStep == IInv /\ [Next]_vars => FlowTypes' /\ FlowInv'
<1> SUFFICES ASSUME IInv, [Next]_vars PROVE FlowTypes' /\ FlowInv'
  OBVIOUS
<1>0. TypeOK /\ FlowTypes /\ FlowInv /\ SystemTypes
  BY Types DEF IInv
<1>1. ASSUME NEW c \in Callers, EnsureStarted(c) PROVE FlowTypes' /\ FlowInv'
  BY <1>0, <1>1, FlowJoin DEF EnsureStarted
<1>2. ASSUME NEW c \in Callers, ObserveDeadChild(c) PROVE FlowTypes' /\ FlowInv'
  <2>1. /\ cpc' = [cpc EXCEPT ![c] = "cleaning"] /\ ~disposed
        /\ UNCHANGED <<waits, start, disposal>>
    BY <1>2 DEF ObserveDeadChild
  <2>2. cpc' \in [Callers -> {"idle", "cleaning", "waiting"}]
    BY <1>0, <2>1 DEF FlowTypes
  <2> QED BY <1>0, <2>1, <2>2 DEF FlowTypes, FlowInv, Quiet, start, disposal
<1>3. ASSUME NEW c \in Callers, CallerCleaned(c) PROVE FlowTypes' /\ FlowInv'
  <2>1. CASE Join(c)
    BY <1>0, <1>3, <2>1, FlowJoin DEF CallerCleaned
  <2>2. CASE cpc' = [cpc EXCEPT ![c] = "idle"] /\ UNCHANGED <<waits, late, start>>
    <3>1. cpc' \in [Callers -> {"idle", "cleaning", "waiting"}]
          /\ UNCHANGED <<disposal, cleanups>>
      BY <1>0, <1>3, <2>2 DEF FlowTypes, CallerCleaned
    <3> QED BY <1>0, <2>2, <3>1 DEF FlowTypes, FlowInv, Quiet, start, disposal
  <2> QED BY <1>3, <2>1, <2>2 DEF CallerCleaned
<1>4. ASSUME NEW c \in Callers, CallerResumes(c) PROVE FlowTypes' /\ FlowInv'
  <2>1. /\ cpc' = [cpc EXCEPT ![c] = "idle"] /\ Settled(waits[c])
        /\ startPromise' = IF startPromise = waits[c] THEN 0 ELSE startPromise
        /\ UNCHANGED <<waits, launches, startId, starter, disposal, cleanups>>
    BY <1>4 DEF CallerResumes
  <2>2. cpc' \in [Callers -> {"idle", "cleaning", "waiting"}] /\ startPromise' \in 0..startId
    BY <1>0, <2>1 DEF FlowTypes
  <2>3. waits[c] \in 0..startId
    BY <1>0 DEF FlowTypes
  <2>4. starter \notin {"resolved", "rejected"} => startPromise' = startPromise
    BY <1>0, <2>1, <2>3 DEF Settled, FlowInv, FlowTypes
  <2> QED BY <1>0, <2>1, <2>2, <2>4 DEF FlowTypes, FlowInv, Quiet, disposal
<1>5. CASE DelayOver
  BY <1>0, <1>5, FlowMoves, Numbers DEF DelayOver, StartSteps, FlowTypes, FlowInv
<1>6. CASE DirectoryMade
  BY <1>0, <1>6, FlowMoves DEF DirectoryMade, StartSteps, FlowTypes, FlowInv, Quiet
<1>7. CASE Announced \/ Connected \/ StartFails
  BY <1>0, <1>7, FlowMoves DEF Announced, Connected, StartFails, StartSteps, Fallible,
     FlowTypes, FlowInv, Quiet, system
<1>8. CASE CapabilitiesReceived
  BY <1>0, <1>8, FlowMoves DEF CapabilitiesReceived, StartSteps, FlowTypes, FlowInv, Quiet
<1>9. CASE StartCaught
  <2>1. /\ starter = "failing" /\ starter' \in {"cleaning", "rejected"}
        /\ UNCHANGED <<launches, startPromise, startId, callers, disposal>>
    BY <1>9 DEF StartCaught, AfterCatch
  <2>2. dpc # "done"
    BY <1>0, <2>1 DEF FlowInv, Quiet
  <2> QED BY <1>0, <2>1, <2>2, FlowMoves DEF StartSteps, FlowTypes, FlowInv, Quiet
<1>10. CASE StartCleaned
  BY <1>0, <1>10, FlowMoves DEF StartCleaned, StartSteps, FlowTypes, FlowInv, Quiet
<1>11. ASSUME NEW a \in Attempts, ChildExits(a) PROVE FlowTypes' /\ FlowInv'
  <2>1. UNCHANGED <<start, callers, disposal>> /\ (disposed => UNCHANGED cleanups)
    BY <1>11 DEF ChildExits
  <2> QED BY <1>0, <2>1, FlowKept DEF FlowInv
<1>12. CASE CleanupStep
  <2>1. UNCHANGED <<start, callers, disposal>> /\ cleanups # {}
    BY <1>12 DEF CleanupStep, ShutdownAnswered, ExitAwaited, Escalate, DirectoryRemoved
  <2> QED BY <1>0, <2>1, FlowKept DEF FlowInv
<1>13. CASE Dispose
  <2>1. /\ ~disposed /\ disposed' = TRUE /\ disposeWaits' = startPromise
        /\ dpc' \in {"first", "starting"} /\ UNCHANGED <<start, callers>>
    BY <1>13 DEF Dispose
  <2> QED BY <1>0, <2>1 DEF FlowTypes, FlowInv, Quiet, start, callers, StartSteps
<1>14. CASE DisposeCleaned
  <2>1. /\ dpc \in {"first", "late"} /\ dpc' = IF dpc = "first" THEN "starting" ELSE "tasks"
        /\ UNCHANGED <<disposed, disposeWaits, start, callers, cleanups>>
    BY <1>14 DEF DisposeCleaned
  <2> QED BY <1>0, <2>1 DEF FlowTypes, FlowInv, Quiet, start, callers
<1>15. CASE DisposeStartSettled
  <2>1. /\ dpc = "starting" /\ dpc' \in {"late", "tasks"} /\ StartAwaited
        /\ UNCHANGED <<disposed, disposeWaits, start, callers>>
    BY <1>15 DEF DisposeStartSettled
  <2>2. Quiet
    BY <1>0, <2>1 DEF FlowInv, Quiet, StartAwaited, Settled
  <2> QED BY <1>0, <2>1, <2>2 DEF FlowTypes, FlowInv, Quiet, start, callers
<1>16. CASE DisposeTasksDone
  <2>1. /\ dpc = "tasks" /\ dpc' = "done" /\ cleanups = {}
        /\ UNCHANGED <<disposed, disposeWaits, start, callers, cleanups>>
    BY <1>16 DEF DisposeTasksDone
  <2> QED BY <1>0, <2>1 DEF FlowTypes, FlowInv, Quiet, start, callers
<1>17. CASE BackoffElapses \/ FailureAges
  BY <1>0, <1>17, FlowKept DEF BackoffElapses, FailureAges, FlowInv
<1>18. CASE UNCHANGED vars
  BY <1>0, <1>18, FlowKept DEF vars, FlowInv
<1> QED BY <1>1, <1>2, <1>3, <1>4, <1>5, <1>6, <1>7, <1>8, <1>9, <1>10, <1>11, <1>12, <1>13,
           <1>14, <1>15, <1>16, <1>17, <1>18
        DEF Next, CallerStep, Starting, Disposing

-----------------------------------------------------------------------------
(* What the client holds.                                                      *)

LEMMA FieldInit == Init => FieldTypes /\ FieldInv
<1> SUFFICES ASSUME Init PROVE FieldTypes /\ FieldInv
  OBVIOUS
<1>1. /\ child = 0 /\ dir = 0 /\ clients = 0 /\ capable = FALSE /\ current = 0
      /\ launches = 0 /\ starter = "rejected"
  BY DEF Init
<1> QED BY <1>1 DEF FieldTypes, FieldInv

LEMMA FieldKept ==
  ASSUME FieldTypes, FieldInv, UNCHANGED <<fields, starter, launches, disposed, proc>>
  PROVE  FieldTypes' /\ FieldInv'
BY DEF FieldTypes, FieldInv, Running, fields

\* The start moves on and the client holds what it held.
LEMMA FieldMoves ==
  ASSUME FieldTypes, FieldInv, UNCHANGED <<fields, launches, disposed, proc>>,
         \/ starter' = "failing" /\ starter # "resolved"
         \/ starter' = "connect" /\ starter = "connect"
         \/ starter' = "capabilities" /\ starter = "connect"
         \/ starter' \in {"rejected", "delay"} /\ child = 0 /\ dir = 0 /\ clients = 0
  PROVE  FieldTypes' /\ FieldInv'
<1>1. FieldTypes'
  BY DEF FieldTypes, fields
<1>2. child = 0 \/ starter # "resolved"
  OBVIOUS
<1>3. ~capable
  BY <1>2 DEF FieldInv
<1> QED BY <1>1, <1>3 DEF FieldInv, Running, fields

LEMMA FieldEmptied ==
  ASSUME FieldTypes, launches' = launches, child' = 0, dir' = 0, clients' = 0,
         capable' = FALSE, current' \in {0, current}
  PROVE  FieldTypes' /\ FieldInv'
BY DEF FieldTypes, FieldInv

\* A caller that begins a start finds the client empty, unless it is late.
LEMMA BeginsEmpty ==
  ASSUME IInv, [Next]_vars, ~late', NEW c \in Callers, startPromise = 0, Join(c),
         EnsureStarted(c) \/ CallerCleaned(c)
  PROVE  child = 0 /\ dir = 0 /\ clients = 0
<1>1. starter \in {"resolved", "rejected"} /\ FieldInv /\ FlowTypes
  BY OnTime DEF FlowInv
<1>2. CASE EnsureStarted(c)
  <2>1. child # 0 => ~capable
    BY <1>2 DEF EnsureStarted
  <2> QED BY <1>1, <2>1 DEF FieldInv
<1>3. CASE CallerCleaned(c)
  <2>1. cpc'[c] = "waiting"
    BY <1>1 DEF Join, FlowTypes
  <2>2. ~(cpc' = [cpc EXCEPT ![c] = "idle"])
    BY <1>1, <2>1 DEF FlowTypes
  <2>3. ~HasRuntime
    BY <1>3, <2>2 DEF CallerCleaned
  <2> QED BY <2>3 DEF HasRuntime
<1> QED BY <1>2, <1>3

\* A clean-up gives up on no process but its own child.
LEMMA CleanupStopsNoOther ==
  ASSUME CleanupStep, FlowTypes, FieldTypes, SystemTypes, TaskInv
  PROVE  child # 0 => child \in Attempts /\ proc'[child] = proc[child]
<1> SUFFICES ASSUME child # 0 PROVE child \in Attempts /\ proc'[child] = proc[child]
  OBVIOUS
<1>1. child \in Attempts
  BY Numbers DEF FieldTypes, FlowTypes
<1>2. PICK t \in cleanups : ShutdownAnswered(t) \/ ExitAwaited(t) \/ Escalate(t)
                            \/ DirectoryRemoved(t)
  BY DEF CleanupStep
<1>3. t.child # child
  BY DEF TaskInv
<1>4. proc' = proc \/ proc' = [proc EXCEPT ![t.child] = "stuck"]
  BY <1>2 DEF ShutdownAnswered, ExitAwaited, Escalate, DirectoryRemoved, system
<1> QED BY <1>1, <1>3, <1>4 DEF SystemTypes

LEMMA FieldStep == IInv /\ [Next]_vars /\ ~late' => FieldTypes' /\ FieldInv'
<1> SUFFICES ASSUME IInv, [Next]_vars, ~late' PROVE FieldTypes' /\ FieldInv'
  OBVIOUS
<1>0. /\ TypeOK /\ FlowTypes /\ FieldTypes /\ FieldInv /\ FlowInv /\ SystemTypes
      /\ BudgetTypes /\ TaskInv
  BY OnTime
<1>1. ASSUME NEW c \in Callers, EnsureStarted(c) \/ CallerCleaned(c) PROVE FieldTypes' /\ FieldInv'
  <2>1. UNCHANGED <<fields, disposal, system>> /\ (Join(c) \/ UNCHANGED start)
    BY <1>1 DEF EnsureStarted, CallerCleaned
  <2>2. UNCHANGED <<launches, disposed, proc>>
    BY <2>1 DEF Join, start, disposal, system
  <2>3. CASE startPromise = 0 /\ Join(c)
    <3>1. child = 0 /\ dir = 0 /\ clients = 0
      BY <1>1, <2>3, BeginsEmpty
    <3>2. starter' = "delay"
      BY <2>3 DEF Join
    <3> QED BY <1>0, <2>1, <2>2, <3>1, <3>2, FieldMoves
  <2>4. CASE startPromise # 0 \/ ~Join(c)
    <3>1. UNCHANGED starter
      BY <2>1, <2>4 DEF Join, start
    <3> QED BY <1>0, <2>1, <2>2, <3>1, FieldKept
  <2> QED BY <2>3, <2>4
<1>2. ASSUME NEW c \in Callers, ObserveDeadChild(c) PROVE FieldTypes' /\ FieldInv'
  BY <1>0, <1>2, DetachDoes, FieldEmptied DEF ObserveDeadChild, start
<1>3. ASSUME NEW c \in Callers, CallerResumes(c) PROVE FieldTypes' /\ FieldInv'
  BY <1>0, <1>3, FieldKept DEF CallerResumes, disposal, system
<1>4. CASE DelayOver
  <2>1. /\ starter = "delay" /\ UNCHANGED <<child, dir, clients, capable, disposed>>
        /\ \/ starter' = "rejected" /\ UNCHANGED <<launches, current>>
           \/ starter' = "mkdtemp" /\ launches' = launches + 1 /\ current' = launches + 1
    BY <1>4 DEF DelayOver, disposal
  <2>2. child = 0 /\ dir = 0 /\ clients = 0 /\ ~capable
    BY <1>0, <2>1 DEF FieldInv
  <2>3. FieldTypes'
    BY <1>0, <2>1, <2>2 DEF FieldTypes
  <2> QED BY <2>1, <2>2, <2>3 DEF FieldInv
<1>5. CASE DirectoryMade
  <2>1. /\ starter = "mkdtemp" /\ dir' = launches
        /\ UNCHANGED <<launches, clients, capable, current, disposed>>
        /\ \/ starter' = "failing" /\ UNCHANGED <<child, proc>>
           \/ /\ ~disposed /\ starter' = "announce" /\ child' = launches
              /\ \E outcome \in {"running", "failed"} :
                   proc' = [proc EXCEPT ![launches] = outcome]
    BY <1>5 DEF DirectoryMade, disposal
  <2>2. launches \in Attempts /\ child = 0 /\ clients = 0 /\ ~capable
    BY <1>0, <2>1, Numbers DEF FieldInv, FlowInv, FlowTypes, Quiet
  <2>3. FieldTypes'
    BY <1>0, <2>1, <2>2 DEF FieldTypes
  <2>4. CASE starter' = "failing" /\ UNCHANGED <<child, proc>>
    BY <2>1, <2>2, <2>3, <2>4 DEF FieldInv
  <2>5. CASE /\ ~disposed /\ starter' = "announce" /\ child' = launches
             /\ \E outcome \in {"running", "failed"} :
                   proc' = [proc EXCEPT ![launches] = outcome]
    <3>1. proc'[child'] \in {"running", "failed"}
      BY <1>0, <2>2, <2>5 DEF SystemTypes
    <3> QED BY <2>1, <2>2, <2>3, <2>5, <3>1 DEF FieldInv
  <2> QED BY <2>1, <2>4, <2>5
<1>6. CASE Announced
  <2>1. /\ starter = "announce" /\ Running(launches) /\ clients' = launches /\ starter' = "connect"
        /\ UNCHANGED <<launches, child, dir, capable, current, disposed, proc>>
    BY <1>6 DEF Announced, disposal
  <2>2. FieldTypes'
    BY <1>0, <2>1 DEF FieldTypes
  <2>3. child # 0 => child = launches
    BY <1>0 DEF FieldTypes
  <2> QED BY <1>0, <2>1, <2>2, <2>3 DEF FieldInv, Running
<1>7. CASE Connected \/ StartFails
  <2>1. /\ UNCHANGED <<fields, launches, disposed, proc>>
        /\ \/ starter' = "failing" /\ starter # "resolved"
           \/ starter' = "capabilities" /\ starter = "connect"
    BY <1>7 DEF Connected, StartFails, Fallible, disposal, system
  <2> QED BY <1>0, <2>1, FieldMoves
<1>8. CASE CapabilitiesReceived
  <2>1. /\ starter = "capabilities"
        /\ UNCHANGED <<launches, child, dir, clients, current, disposed, proc>>
        /\ \/ starter' = "failing" /\ UNCHANGED capable
           \/ ~disposed /\ child = launches /\ starter' = "resolved" /\ capable' = TRUE
    BY <1>8 DEF CapabilitiesReceived, disposal, system
  <2>2. CASE starter' = "failing" /\ UNCHANGED capable
    BY <1>0, <2>1, <2>2, FieldMoves DEF fields
  <2>3. CASE ~disposed /\ child = launches /\ starter' = "resolved" /\ capable' = TRUE
    <3>1. child # 0
      BY <1>0, <2>1, <2>3 DEF FlowInv, Quiet
    <3>2. FieldTypes'
      BY <1>0, <2>1, <2>3 DEF FieldTypes
    <3> QED BY <1>0, <2>1, <2>3, <3>1, <3>2 DEF FieldInv, Running
  <2> QED BY <2>1, <2>2, <2>3
<1>9. CASE StartCaught
  BY <1>0, <1>9, DetachDoes, FieldEmptied DEF StartCaught
<1>10. CASE StartCleaned
  <2>1. /\ starter = "cleaning" /\ starter' = "rejected"
        /\ UNCHANGED <<fields, launches, disposed, proc>>
    BY <1>10 DEF StartCleaned, disposal, system
  <2> QED BY <1>0, <2>1, FieldMoves DEF FieldInv
<1>11. ASSUME NEW a \in Attempts, ChildExits(a) PROVE FieldTypes' /\ FieldInv'
  <2>1. proc' = [proc EXCEPT ![a] = "exited"] /\ UNCHANGED <<launches, starter, disposed>>
    BY <1>11 DEF ChildExits, start, disposal
  <2>2. CASE ~disposed /\ child = a
    BY <1>0, <1>11, <2>1, <2>2, DetachDoes, FieldEmptied DEF ChildExits
  <2>3. CASE disposed \/ child # a
    <3>1. UNCHANGED fields
      BY <1>11, <2>3 DEF ChildExits
    <3>2. child # 0 => child \in Attempts /\ child # a
      BY <1>0, <2>3, Numbers DEF FieldInv, FieldTypes, FlowTypes
    <3>3. child # 0 => proc'[child] = proc[child]
      BY <1>0, <2>1, <3>2 DEF SystemTypes
    <3>4. FieldTypes'
      BY <1>0, <2>1, <3>1 DEF FieldTypes, fields
    <3> QED BY <1>0, <2>1, <3>1, <3>3, <3>4 DEF FieldInv, Running, fields
  <2> QED BY <2>2, <2>3
<1>12. CASE CleanupStep
  <2>1. UNCHANGED <<fields, starter, launches, disposed>>
    BY <1>12 DEF CleanupStep, ShutdownAnswered, ExitAwaited, Escalate, DirectoryRemoved,
       start, disposal
  <2>2. child # 0 => child \in Attempts /\ proc'[child] = proc[child]
    BY <1>0, <1>12, CleanupStopsNoOther
  <2>3. FieldTypes'
    BY <1>0, <2>1 DEF FieldTypes, fields
  <2> QED BY <1>0, <2>1, <2>2, <2>3 DEF FieldInv, Running, fields
<1>13. CASE Dispose \/ DisposeStartSettled
  <2>1. Detach("dispose", TRUE) /\ UNCHANGED launches
    BY <1>13 DEF Dispose, DisposeStartSettled, start
  <2> QED BY <1>0, <2>1, DetachDoes, FieldEmptied
<1>14. CASE DisposeCleaned \/ DisposeTasksDone
  <2>1. UNCHANGED <<fields, starter, launches, disposed, proc>>
    BY <1>14 DEF DisposeCleaned, DisposeTasksDone, start, system
  <2> QED BY <1>0, <2>1, FieldKept
<1>15. CASE BackoffElapses \/ FailureAges \/ UNCHANGED vars
  <2>1. UNCHANGED <<fields, starter, launches, disposed, proc>>
    BY <1>15 DEF BackoffElapses, FailureAges, vars, start, disposal, system
  <2> QED BY <1>0, <2>1, FieldKept
<1> QED BY <1>1, <1>2, <1>3, <1>4, <1>5, <1>6, <1>7, <1>8, <1>9, <1>10, <1>11, <1>12, <1>13,
           <1>14, <1>15
        DEF Next, CallerStep, Starting, Disposing

-----------------------------------------------------------------------------
(* The processes.                                                              *)

\* A clean-up that waits for a running process does not forget it.
LEMMA CleanupKeeps ==
  ASSUME SystemTypes, CleanupStep, NEW a \in Attempts, Running(a)',
         NEW u \in cleanups, u.child = a, u.stage # "remove"
  PROVE  \E v \in cleanups' : v.owner = u.owner /\ v.child = a /\ v.stage # "remove"
<1>1. PICK t \in cleanups : ShutdownAnswered(t) \/ ExitAwaited(t) \/ Escalate(t)
                            \/ DirectoryRemoved(t)
  BY DEF CleanupStep
<1>2. t \in CleanupTasks /\ a # 0
  BY Numbers DEF SystemTypes
<1>3. CASE t # u
  BY <1>1, <1>3 DEF ShutdownAnswered, ExitAwaited, Escalate, DirectoryRemoved
<1>4. CASE t = u
  <2>1. ShutdownAnswered(t) \/ Escalate(t)
    BY <1>1, <1>4 DEF ExitAwaited, DirectoryRemoved, system, Running
  <2>2. CASE ShutdownAnswered(t)
    <3> DEFINE v == [t EXCEPT !.stage = "wait"]
    <3>1. v \in cleanups'
      BY <1>2, <1>4, <2>2 DEF ShutdownAnswered
    <3>2. v.owner = u.owner /\ v.child = a /\ v.stage = "wait"
      BY <1>2, <1>4 DEF CleanupTasks
    <3> QED BY <3>1, <3>2
  <2>3. CASE Escalate(t)
    <3> DEFINE v == [t EXCEPT !.stage = NextStage(t.stage)]
    <3>1. v \in cleanups' /\ t.stage \in {"wait", "terminated", "killed"}
      BY <2>3 DEF Escalate
    <3>2. v.owner = u.owner /\ v.child = a /\ v.stage = NextStage(t.stage)
      BY <1>2, <1>4 DEF CleanupTasks
    <3>3. t.stage # "killed"
      <4>1. t.stage = "killed" => proc' = [proc EXCEPT ![a] = "stuck"]
        BY <1>4, <2>3 DEF Escalate
      <4> QED BY <4>1 DEF Running, SystemTypes
    <3>4. NextStage(t.stage) # "remove"
      BY <3>1, <3>3 DEF NextStage
    <3> QED BY <3>1, <3>2, <3>4
  <2> QED BY <2>1, <2>2, <2>3
<1> QED BY <1>3, <1>4

LEMMA CleanupTypes ==
  ASSUME SystemTypes, CleanupStep
  PROVE  cleanups' \subseteq CleanupTasks
<1>1. PICK t \in cleanups : ShutdownAnswered(t) \/ ExitAwaited(t) \/ Escalate(t)
                            \/ DirectoryRemoved(t)
  BY DEF CleanupStep
<1>2. t \in CleanupTasks
  BY DEF SystemTypes
<1>3. \A st \in {"request", "wait", "terminated", "killed", "remove"} :
        [t EXCEPT !.stage = st] \in CleanupTasks
  BY <1>2 DEF CleanupTasks
<1>4. \E st \in {"request", "wait", "terminated", "killed", "remove"} :
        cleanups' \subseteq cleanups \cup {[t EXCEPT !.stage = st]}
  BY <1>1 DEF ShutdownAnswered, ExitAwaited, Escalate, DirectoryRemoved, NextStage
<1> QED BY <1>3, <1>4 DEF SystemTypes

\* A running process that a clean-up owns, or the client holds.
Owned(a) == disposed \/ child = a \/ (starter = "cleaning" /\ StartCleans(a))

LEMMA ProcInit == Init => ProcInv
BY Numbers DEF Init, ProcInv, Running

\* No process begins.
LEMMA ProcKept ==
  ASSUME ProcInv, FlowTypes, FlowInv, UNCHANGED launches,
         starter' = "mkdtemp" => starter = "mkdtemp",
         \A a \in Attempts : proc[a] = "none" => proc'[a] = "none",
         \A a \in Attempts : Running(a)' => Running(a) /\ (Owned(a) => Owned(a)')
  PROVE  ProcInv'
<1>1. starter' = "mkdtemp" => launches \in Attempts
  BY Numbers DEF FlowInv, FlowTypes, Quiet
<1> QED BY <1>1 DEF ProcInv, Owned

\* The start moves on without a clean-up.
LEMMA ProcMoves ==
  ASSUME ProcInv, FlowTypes, FlowInv, UNCHANGED <<proc, launches, child, disposed>>,
         starter # "cleaning", starter' # "mkdtemp"
  PROVE  ProcInv'
BY ProcKept DEF Owned, Running

\* A clean-up starts no process.
LEMMA CleanupProcesses ==
  ASSUME SystemTypes, CleanupStep
  PROVE  /\ proc' \in [Attempts -> {"none", "running", "failed", "exited", "stuck"}]
         /\ \A a \in Attempts : Running(a)' => Running(a)
         /\ \A a \in Attempts : proc[a] = "none" => proc'[a] = "none"
         /\ \A a \in Attempts : proc[a] # "none" => proc'[a] # "none"
<1>1. PICK t \in cleanups : ShutdownAnswered(t) \/ ExitAwaited(t) \/ Escalate(t)
                            \/ DirectoryRemoved(t)
  BY DEF CleanupStep
<1>2. CASE proc' = proc
  BY <1>2 DEF SystemTypes, Running
<1>3. CASE proc' = [proc EXCEPT ![t.child] = "stuck"] /\ Running(t.child)
  BY <1>3 DEF SystemTypes, Running
<1> QED BY <1>1, <1>2, <1>3 DEF ShutdownAnswered, ExitAwaited, Escalate, DirectoryRemoved, system

LEMMA ProcStep == IInv /\ [Next]_vars /\ ~late' => ProcInv'
<1> SUFFICES ASSUME IInv, [Next]_vars, ~late' PROVE ProcInv'
  OBVIOUS
<1>0. /\ TypeOK /\ FlowTypes /\ LooseTypes /\ FieldTypes /\ FieldInv /\ FlowInv
      /\ SystemTypes /\ ProcInv
      /\ proc \in [Attempts -> {"none", "running", "failed", "exited", "stuck"}]
  BY OnTime DEF SystemTypes
<1>q. ASSUME UNCHANGED <<proc, launches, starter, child, disposed, cleanups>> PROVE ProcInv'
  BY <1>0, <1>q, ProcKept DEF Owned, StartCleans, Running
<1>1. ASSUME NEW c \in Callers, EnsureStarted(c) \/ CallerCleaned(c) PROVE ProcInv'
  <2>1. UNCHANGED <<fields, disposal, system, cleanups>> /\ (Join(c) \/ UNCHANGED start)
    BY <1>1 DEF EnsureStarted, CallerCleaned
  <2>2. UNCHANGED <<proc, launches, child, disposed, cleanups>>
    BY <2>1 DEF Join, fields, start, disposal, system
  <2>3. CASE startPromise = 0 /\ Join(c)
    <3>1. starter' = "delay" /\ starter # "cleaning"
      BY <1>0, <2>3 DEF Join, FlowInv
    <3> QED BY <1>0, <2>2, <3>1, ProcMoves
  <2>4. CASE startPromise # 0 \/ ~Join(c)
    <3>1. UNCHANGED starter
      BY <2>1, <2>4 DEF Join, start
    <3> QED BY <1>q, <2>2, <3>1
  <2> QED BY <2>3, <2>4
<1>2. ASSUME NEW c \in Callers, ObserveDeadChild(c) PROVE ProcInv'
  <2>1. /\ ~Running(child) /\ Detach(c, FALSE)
        /\ UNCHANGED <<proc, launches, starter, disposed>>
    BY <1>2 DEF ObserveDeadChild, start, disposal
  <2>2. cleanups \subseteq cleanups'
    BY <1>0, <2>1, DetachDoes
  <2> QED BY <1>0, <2>1, <2>2, ProcKept DEF Owned, StartCleans, Running
<1>3. ASSUME NEW c \in Callers, CallerResumes(c) PROVE ProcInv'
  BY <1>3, <1>q DEF CallerResumes, fields, disposal, system
<1>4. CASE DelayOver
  <2>1. /\ starter = "delay" /\ UNCHANGED <<child, proc, disposed>>
        /\ \/ starter' = "rejected" /\ UNCHANGED launches
           \/ ~disposed /\ launches' = launches + 1
    BY <1>4 DEF DelayOver, disposal, system
  <2>2. CASE starter' = "rejected" /\ UNCHANGED launches
    BY <1>0, <2>1, <2>2, ProcMoves
  <2>3. CASE ~disposed /\ launches' = launches + 1
    <3>1. child = 0 /\ launches \in Nat
      BY <1>0, <2>1, Numbers DEF FieldInv, FlowTypes
    <3>2. \A a \in Attempts : ~Running(a)
      BY <1>0, <2>1, <2>3, <3>1, Numbers DEF ProcInv
    <3>3. \A a \in Attempts : a > launches' => proc'[a] = "none"
      BY <1>0, <2>1, <2>3, <3>1, Numbers DEF ProcInv
    <3>4. starter' = "mkdtemp" => launches' \in Attempts
      BY <1>4, <2>3, <3>1, Numbers DEF DelayOver
    <3>5. starter' = "mkdtemp" => proc'[launches'] = "none"
      BY <1>0, <2>1, <2>3, <3>1, <3>4, Numbers DEF ProcInv
    <3> QED BY <2>1, <3>2, <3>3, <3>5 DEF ProcInv, Running
  <2> QED BY <2>1, <2>2, <2>3
<1>5. CASE DirectoryMade
  <2>1. /\ starter = "mkdtemp" /\ UNCHANGED <<launches, disposed>>
        /\ \/ starter' = "failing" /\ UNCHANGED <<child, proc>>
           \/ /\ starter' = "announce" /\ child' = launches
              /\ \E outcome \in {"running", "failed"} :
                   proc' = [proc EXCEPT ![launches] = outcome]
    BY <1>5 DEF DirectoryMade, disposal
  <2>2. CASE starter' = "failing" /\ UNCHANGED <<child, proc>>
    BY <1>0, <2>1, <2>2, ProcMoves
  <2>3. CASE /\ starter' = "announce" /\ child' = launches
             /\ \E outcome \in {"running", "failed"} :
                   proc' = [proc EXCEPT ![launches] = outcome]
    <3>1. launches \in Attempts /\ proc[launches] = "none"
      BY <1>0, <2>1, Numbers DEF FlowInv, FlowTypes, Quiet, ProcInv
    <3>2. \A a \in Attempts : a # launches => proc'[a] = proc[a] /\ ~Running(a)
      BY <1>0, <2>3, <3>1 DEF ProcInv
    <3>3. \A a \in Attempts : Running(a)' => a = launches
      BY <3>2 DEF Running
    <3> QED BY <1>0, <2>1, <2>3, <3>1, <3>2, <3>3, Numbers DEF ProcInv
  <2> QED BY <2>1, <2>2, <2>3
<1>6. CASE Announced \/ Connected \/ CapabilitiesReceived \/ StartFails
  <2>1. /\ starter \notin {"cleaning"} /\ starter' # "mkdtemp"
        /\ UNCHANGED <<proc, launches, child, disposed>>
    BY <1>6 DEF Announced, Connected, CapabilitiesReceived, StartFails, Fallible, fields,
       disposal, system
  <2> QED BY <1>0, <2>1, ProcMoves
<1>7. CASE StartCaught
  <2>1. /\ starter = "failing" /\ Detach("start", FALSE) /\ starter' = AfterCatch
        /\ UNCHANGED <<proc, launches, disposed>>
    BY <1>7 DEF StartCaught, disposal
  <2>2. ASSUME NEW a \in Attempts, Running(a), child = a PROVE Owned(a)'
    <3>1. HasRuntime /\ a # 0
      BY <2>2, Numbers DEF HasRuntime
    <3>2. cleanups' = cleanups \cup {Cleanup("start", FALSE)} /\ starter' = "cleaning"
      BY <1>0, <2>1, <3>1, DetachDoes DEF AfterCatch
    <3>3. /\ Cleanup("start", FALSE).owner = "start" /\ Cleanup("start", FALSE).child = a
          /\ Cleanup("start", FALSE).stage # "remove"
      BY <1>0, <2>2, <3>1, CleanupIs
    <3> QED BY <3>2, <3>3 DEF Owned, StartCleans
  <2>3. starter' # "mkdtemp"
    BY <2>1 DEF AfterCatch
  <2> QED BY <1>0, <2>1, <2>2, <2>3, ProcKept DEF Owned, Running
<1>8. CASE StartCleaned
  <2>1. /\ ~Cleaning("start") /\ starter' = "rejected"
        /\ UNCHANGED <<proc, launches, child, disposed>>
    BY <1>8 DEF StartCleaned, fields, disposal, system
  <2>2. \A a \in Attempts : ~StartCleans(a)
    BY <2>1 DEF Cleaning, StartCleans
  <2> QED BY <1>0, <2>1, <2>2, ProcKept DEF Owned, Running
<1>9. ASSUME NEW a \in Attempts, ChildExits(a) PROVE ProcInv'
  <2>1. /\ proc[a] \in {"running", "stuck"} /\ proc' = [proc EXCEPT ![a] = "exited"]
        /\ UNCHANGED <<launches, starter, disposed>>
        /\ child # a => UNCHANGED <<child, cleanups>>
    BY <1>9 DEF ChildExits, start, disposal, fields
  <2>2. \A b \in Attempts : Running(b)' => Running(b) /\ b # a
    BY <1>0, <2>1 DEF Running
  <2>3. \A b \in Attempts : proc[b] = "none" => proc'[b] = "none"
    BY <1>0, <2>1
  <2>4. CASE child = a
    <3>1. proc[a] = "running"
      BY <1>0, <2>1, <2>4, Numbers DEF FieldInv
    <3>2. \A b \in Attempts : ~Running(b)'
      BY <1>0, <2>2, <3>1 DEF ProcInv, Running
    <3> QED BY <1>0, <2>1, <2>3, <3>2, ProcKept
  <2>5. CASE child # a
    BY <1>0, <2>1, <2>2, <2>3, <2>5, ProcKept DEF Owned, StartCleans
  <2> QED BY <2>4, <2>5
<1>10. CASE CleanupStep
  <2>1. UNCHANGED <<launches, starter, child, disposed>>
    BY <1>10 DEF CleanupStep, ShutdownAnswered, ExitAwaited, Escalate, DirectoryRemoved,
       fields, start, disposal
  <2>2. \A a \in Attempts : Running(a)' /\ StartCleans(a) => StartCleans(a)'
    BY <1>0, <1>10, CleanupKeeps DEF StartCleans
  <2>3. /\ \A a \in Attempts : Running(a)' => Running(a)
        /\ \A a \in Attempts : proc[a] = "none" => proc'[a] = "none"
    BY <1>0, <1>10, CleanupProcesses
  <2> QED BY <1>0, <2>1, <2>2, <2>3, ProcKept DEF Owned
<1>11. CASE Dispose \/ DisposeStartSettled
  <2>1. UNCHANGED <<proc, launches, starter>> /\ disposed'
    BY <1>0, <1>11 DEF Dispose, DisposeStartSettled, start, FlowInv
  <2> QED BY <1>0, <2>1, ProcKept DEF Owned, Running
<1>12. CASE DisposeCleaned \/ DisposeTasksDone
  BY <1>12, <1>q DEF DisposeCleaned, DisposeTasksDone, fields, start, system
<1>13. CASE BackoffElapses \/ FailureAges \/ UNCHANGED vars
  BY <1>13, <1>q DEF BackoffElapses, FailureAges, vars, fields, start, disposal, system
<1> QED BY <1>1, <1>2, <1>3, <1>4, <1>5, <1>6, <1>7, <1>8, <1>9, <1>10, <1>11, <1>12, <1>13
        DEF Next, CallerStep, Starting, Disposing

\* What is given up was started.
LEMMA TaskDetach ==
  ASSUME TypeOK, FlowTypes, LooseTypes, FieldInv, TaskInv,
         NEW owner \in Callers \cup {"start", "exit", "dispose"},
         NEW shutdown \in BOOLEAN, Detach(owner, shutdown),
         \A a \in Attempts : proc[a] # "none" => proc'[a] # "none"
  PROVE  TaskInv'
<1>1. /\ cleanups' \subseteq cleanups \cup {Cleanup(owner, shutdown)} /\ child' = 0
  BY DetachDoes
<1>2. Cleanup(owner, shutdown).child = child
  BY CleanupIs
<1>3. child # 0 => child \in Attempts /\ proc[child] # "none"
  BY Numbers DEF FieldInv, LooseTypes
<1>4. \A t \in cleanups : t.child # 0 => t.child \in Attempts
  BY Types, Numbers DEF SystemTypes, CleanupTasks
<1> QED BY <1>1, <1>2, <1>3, <1>4 DEF TaskInv

LEMMA TaskKept ==
  ASSUME SystemTypes, TaskInv, child' \in {0, child},
         \A t \in cleanups' : \E u \in cleanups : u.child = t.child,
         \A a \in Attempts : proc[a] # "none" => proc'[a] # "none"
  PROVE  TaskInv'
<1>1. \A t \in cleanups : t.child # 0 => t.child \in Attempts
  BY Numbers DEF SystemTypes, CleanupTasks
<1> QED BY <1>1 DEF TaskInv

LEMMA TaskStep == IInv /\ [Next]_vars /\ ~late' => TaskInv'
<1> SUFFICES ASSUME IInv, [Next]_vars, ~late' PROVE TaskInv'
  OBVIOUS
<1>0. /\ TypeOK /\ FlowTypes /\ LooseTypes /\ FieldTypes /\ FieldInv /\ FlowInv /\ SystemTypes
      /\ ProcInv /\ TaskInv
      /\ proc \in [Attempts -> {"none", "running", "failed", "exited", "stuck"}]
  BY OnTime DEF SystemTypes
<1>q. ASSUME UNCHANGED <<proc, child, cleanups>> PROVE TaskInv'
  BY <1>0, <1>q, TaskKept
<1>1. ASSUME NEW c \in Callers, EnsureStarted(c) \/ CallerCleaned(c) \/ CallerResumes(c)
      PROVE  TaskInv'
  BY <1>1, <1>q DEF EnsureStarted, CallerCleaned, CallerResumes, fields, system
<1>2. ASSUME NEW c \in Callers, ObserveDeadChild(c) PROVE TaskInv'
  BY <1>0, <1>2, TaskDetach DEF ObserveDeadChild
<1>3. CASE DelayOver \/ Announced \/ Connected \/ CapabilitiesReceived \/ StartFails \/ StartCleaned
  BY <1>3, <1>q DEF DelayOver, Announced, Connected, CapabilitiesReceived, StartFails,
     StartCleaned, fields, system
<1>4. CASE DirectoryMade
  <2>1. /\ starter = "mkdtemp" /\ UNCHANGED <<cleanups>>
        /\ \/ UNCHANGED <<child, proc>>
           \/ /\ child' = launches
              /\ \E outcome \in {"running", "failed"} :
                   proc' = [proc EXCEPT ![launches] = outcome]
    BY <1>4 DEF DirectoryMade
  <2>2. proc[launches] = "none" /\ launches \in Attempts
    BY <1>0, <2>1, Numbers DEF ProcInv, FlowInv, FlowTypes, Quiet
  <2>3. \A a \in Attempts : proc[a] # "none" => proc'[a] # "none"
    BY <1>0, <2>1, <2>2
  <2>4. \A t \in cleanups : t.child # 0 => t.child \in Attempts /\ t.child # launches
    BY <1>0, <2>2, Numbers DEF SystemTypes, CleanupTasks, TaskInv
  <2> QED BY <1>0, <2>1, <2>3, <2>4 DEF TaskInv
<1>5. CASE StartCaught
  BY <1>0, <1>5, TaskDetach DEF StartCaught
<1>6. ASSUME NEW a \in Attempts, ChildExits(a) PROVE TaskInv'
  <2>1. /\ proc' = [proc EXCEPT ![a] = "exited"]
        /\ Detach("exit", FALSE) \/ UNCHANGED <<child, cleanups>>
    BY <1>6 DEF ChildExits, fields
  <2>2. \A b \in Attempts : proc[b] # "none" => proc'[b] # "none"
    BY <1>0, <2>1
  <2> QED BY <1>0, <2>1, <2>2, TaskDetach, TaskKept
<1>7. CASE CleanupStep
  <2>1. PICK t \in cleanups : ShutdownAnswered(t) \/ ExitAwaited(t) \/ Escalate(t)
                              \/ DirectoryRemoved(t)
    BY <1>7 DEF CleanupStep
  <2>t. t \in CleanupTasks
    BY <1>0 DEF SystemTypes
  <2>2. \A st : [t EXCEPT !.stage = st].child = t.child
    BY <2>t DEF CleanupTasks
  <2>s. PICK st : cleanups' \subseteq cleanups \cup {[t EXCEPT !.stage = st]}
    BY <2>1 DEF ShutdownAnswered, ExitAwaited, Escalate, DirectoryRemoved
  <2>3. \A u \in cleanups' : \E v \in cleanups : v.child = u.child
    BY <2>2, <2>s
  <2>4. UNCHANGED child
    BY <2>1 DEF ShutdownAnswered, ExitAwaited, Escalate, DirectoryRemoved, fields
  <2> QED BY <1>0, <1>7, <2>3, <2>4, CleanupProcesses, TaskKept
<1>8. CASE Dispose \/ DisposeStartSettled
  BY <1>0, <1>8, TaskDetach DEF Dispose, DisposeStartSettled
<1>9. CASE DisposeCleaned \/ DisposeTasksDone \/ BackoffElapses \/ FailureAges \/ UNCHANGED vars
  BY <1>9, <1>q DEF DisposeCleaned, DisposeTasksDone, BackoffElapses, FailureAges, vars, fields,
     system
<1> QED BY <1>1, <1>2, <1>3, <1>4, <1>5, <1>6, <1>7, <1>8, <1>9
        DEF Next, CallerStep, Starting, Disposing

-----------------------------------------------------------------------------
(* Processes, directories and clients stay within reach.                       *)

LEMMA SystemInit == Init => SystemTypes /\ AllReachable
<1> SUFFICES ASSUME Init PROVE SystemTypes /\ AllReachable
  OBVIOUS
<1>1. proc = [a \in Attempts |-> "none"] /\ dirs = {} /\ openClients = {} /\ cleanups = {}
  BY DEF Init
<1> QED BY <1>1 DEF SystemTypes, AllReachable, Running

\* What exists is still held as it was, or has gone.
LEMMA SystemKept ==
  ASSUME SystemTypes, AllReachable, UNCHANGED <<child, dir, clients, cleanups, dirs, openClients>>,
         proc' \in [Attempts -> {"none", "running", "failed", "exited", "stuck"}],
         \A a \in Attempts : Running(a)' => Running(a)
  PROVE  SystemTypes' /\ AllReachable'
BY DEF SystemTypes, AllReachable

\* What the client held passes to a clean-up.
LEMMA SystemDetach ==
  ASSUME IInv, ~late, NEW owner \in Callers \cup {"start", "exit", "dispose"},
         NEW shutdown \in BOOLEAN, Detach(owner, shutdown), UNCHANGED dirs,
         proc' \in [Attempts -> {"none", "running", "failed", "exited", "stuck"}],
         \A a \in Attempts : Running(a)' => Running(a)
  PROVE  SystemTypes' /\ AllReachable'
<1> DEFINE t == Cleanup(owner, shutdown)
<1>0. /\ TypeOK /\ FlowTypes /\ LooseTypes /\ FieldTypes /\ FieldInv /\ SystemTypes
      /\ AllReachable
  BY Types DEF IInv, SharpInv
<1>1. /\ HasRuntime => cleanups' = cleanups \cup {t}
      /\ ~HasRuntime => cleanups' = cleanups
      /\ openClients' = IF shutdown THEN openClients ELSE openClients \ {clients}
  BY <1>0, DetachDoes
<1>2. /\ t \in CleanupTasks /\ t.child = child /\ t.dir = dir /\ t.clients = clients
      /\ shutdown /\ clients # 0 => t.stage = "request"
      /\ child # 0 => t.stage # "remove"
  BY <1>0, CleanupIs
<1> HIDE DEF t
<1>3. SystemTypes'
  BY <1>0, <1>1, <1>2 DEF SystemTypes
<1>4. ASSUME NEW a \in Attempts, Running(a)'
      PROVE  \E u \in cleanups' : u.child = a /\ u.stage # "remove"
  <2>1. CASE child = a
    BY <1>1, <1>2, <2>1, Numbers DEF HasRuntime
  <2>2. CASE child # a
    BY <1>0, <1>1, <1>4, <2>2 DEF AllReachable
  <2> QED BY <2>1, <2>2
<1>5. ASSUME NEW a \in dirs PROVE \E u \in cleanups' : u.dir = a
  <2>1. CASE dir = a
    <3>1. HasRuntime
      BY <1>0, <2>1, Numbers DEF HasRuntime, SystemTypes
    <3> QED BY <1>1, <1>2, <2>1, <3>1
  <2>2. CASE dir # a
    BY <1>0, <1>1, <2>2 DEF AllReachable
  <2> QED BY <2>1, <2>2
<1>6. ASSUME NEW a \in openClients'
      PROVE  \E u \in cleanups' : u.clients = a /\ u.stage = "request"
  <2>1. a \in openClients /\ (~shutdown => a # clients)
    BY <1>1, <1>6
  <2>2. CASE clients = a
    <3>1. HasRuntime /\ clients # 0 /\ shutdown
      BY <1>0, <2>1, <2>2, Numbers DEF HasRuntime, SystemTypes
    <3> QED BY <1>1, <1>2, <2>2, <3>1
  <2>3. CASE clients # a
    BY <1>0, <1>1, <2>1, <2>3 DEF AllReachable
  <2> QED BY <2>2, <2>3
<1> QED BY <1>3, <1>4, <1>5, <1>6 DEF AllReachable

LEMMA SystemCleanup ==
  ASSUME SystemTypes, AllReachable, CleanupStep, UNCHANGED <<child, dir, clients>>
  PROVE  SystemTypes' /\ AllReachable'
<1>1. PICK t \in cleanups : ShutdownAnswered(t) \/ ExitAwaited(t) \/ Escalate(t)
                            \/ DirectoryRemoved(t)
  BY DEF CleanupStep
<1>2. t \in CleanupTasks
  BY DEF SystemTypes
<1>3. dirs' \subseteq dirs /\ openClients' \subseteq openClients
  BY <1>1 DEF ShutdownAnswered, ExitAwaited, Escalate, DirectoryRemoved, system
<1>4. SystemTypes'
  BY <1>3, CleanupTypes, CleanupProcesses DEF SystemTypes
<1>5. \A a \in Attempts : Running(a)' =>
        child' = a \/ \E u \in cleanups' : u.child = a /\ u.stage # "remove"
  BY CleanupKeeps, CleanupProcesses DEF AllReachable
<1>6. \A st : [t EXCEPT !.stage = st].dir = t.dir
  BY <1>2 DEF CleanupTasks
<1>7. ASSUME NEW a \in dirs' PROVE dir' = a \/ \E u \in cleanups' : u.dir = a
  <2>1. a \in dirs
    BY <1>3, <1>7
  <2>2. ASSUME NEW u \in cleanups, u.dir = a PROVE \E v \in cleanups' : v.dir = a
    <3>1. CASE u # t
      BY <1>1, <2>2, <3>1 DEF ShutdownAnswered, ExitAwaited, Escalate, DirectoryRemoved
    <3>2. CASE u = t
      <4>1. ~DirectoryRemoved(t)
        BY <1>7, <2>2, <3>2 DEF DirectoryRemoved
      <4>2. \E st : [t EXCEPT !.stage = st] \in cleanups'
        BY <1>1, <4>1 DEF ShutdownAnswered, ExitAwaited, Escalate
      <4> QED BY <1>6, <2>2, <3>2, <4>2
    <3> QED BY <3>1, <3>2
  <2> QED BY <2>1, <2>2 DEF AllReachable
<1>8. ASSUME NEW a \in openClients'
      PROVE  clients' = a \/ \E u \in cleanups' : u.clients = a /\ u.stage = "request"
  <2>1. a \in openClients
    BY <1>3, <1>8
  <2>2. ASSUME NEW u \in cleanups, u.clients = a, u.stage = "request" PROVE u \in cleanups'
    <3>1. u # t
      BY <1>1, <1>8, <2>2 DEF ShutdownAnswered, ExitAwaited, Escalate, DirectoryRemoved
    <3> QED BY <1>1, <3>1 DEF ShutdownAnswered, ExitAwaited, Escalate, DirectoryRemoved
  <2> QED BY <2>1, <2>2 DEF AllReachable
<1> QED BY <1>4, <1>5, <1>7, <1>8 DEF AllReachable

LEMMA SystemStep == IInv /\ [Next]_vars /\ ~late' => SystemTypes' /\ AllReachable'
<1> SUFFICES ASSUME IInv, [Next]_vars, ~late' PROVE SystemTypes' /\ AllReachable'
  OBVIOUS
<1>0. /\ TypeOK /\ FlowTypes /\ FieldTypes /\ FieldInv /\ FlowInv /\ SystemTypes /\ AllReachable
      /\ proc \in [Attempts -> {"none", "running", "failed", "exited", "stuck"}] /\ ~late
  BY OnTime DEF SystemTypes
<1>q. ASSUME UNCHANGED <<child, dir, clients, cleanups, system>>
      PROVE  SystemTypes' /\ AllReachable'
  BY <1>0, <1>q, SystemKept DEF system, Running
<1>1. ASSUME NEW c \in Callers, EnsureStarted(c) \/ CallerCleaned(c) \/ CallerResumes(c)
      PROVE  SystemTypes' /\ AllReachable'
  BY <1>1, <1>q DEF EnsureStarted, CallerCleaned, CallerResumes, fields
<1>2. ASSUME NEW c \in Callers, ObserveDeadChild(c) PROVE SystemTypes' /\ AllReachable'
  <2>1. Detach(c, FALSE) /\ UNCHANGED <<proc, dirs>>
    BY <1>2 DEF ObserveDeadChild
  <2> QED BY <1>0, <2>1, SystemDetach DEF Running
<1>3. CASE DelayOver \/ Connected \/ CapabilitiesReceived \/ StartFails \/ StartCleaned
  BY <1>3, <1>q DEF DelayOver, Connected, CapabilitiesReceived, StartFails, StartCleaned, fields
<1>4. CASE DirectoryMade
  <2>1. /\ starter = "mkdtemp" /\ dir' = launches /\ dirs' = dirs \cup {launches}
        /\ UNCHANGED <<clients, openClients, cleanups>>
        /\ \/ UNCHANGED <<child, proc>>
           \/ /\ child' = launches
              /\ \E outcome \in {"running", "failed"} :
                   proc' = [proc EXCEPT ![launches] = outcome]
    BY <1>4 DEF DirectoryMade
  <2>2. launches \in Attempts /\ dir = 0 /\ child = 0
    BY <1>0, <2>1, Numbers DEF FlowInv, FlowTypes, Quiet, FieldInv
  <2>3. SystemTypes'
    BY <1>0, <2>1, <2>2 DEF SystemTypes
  <2>4. \A a \in Attempts : Running(a)' => child' = a \/ Running(a)
    BY <1>0, <2>1, <2>2 DEF Running
  <2>5. \A a \in Attempts : Running(a) => \E t \in cleanups' : t.child = a /\ t.stage # "remove"
    BY <1>0, <2>1, <2>2, Numbers DEF AllReachable
  <2>6. \A a \in dirs : \E t \in cleanups' : t.dir = a
    BY <1>0, <2>1, <2>2, Numbers DEF AllReachable, SystemTypes
  <2> QED BY <1>0, <2>1, <2>3, <2>4, <2>5, <2>6 DEF AllReachable
<1>5. CASE Announced
  <2>1. /\ starter = "announce" /\ clients' = launches
        /\ openClients' = openClients \cup {launches}
        /\ UNCHANGED <<child, dir, proc, dirs, cleanups>>
    BY <1>5 DEF Announced
  <2>2. launches \in Attempts /\ clients = 0
    BY <1>0, <2>1, Numbers DEF FlowInv, FlowTypes, Quiet, FieldInv
  <2>3. SystemTypes'
    BY <1>0, <2>1, <2>2 DEF SystemTypes
  <2>4. \A a \in openClients : \E t \in cleanups' : t.clients = a /\ t.stage = "request"
    BY <1>0, <2>1, <2>2, Numbers DEF AllReachable, SystemTypes
  <2> QED BY <1>0, <2>1, <2>3, <2>4 DEF AllReachable, Running
<1>6. CASE StartCaught
  <2>1. Detach("start", FALSE) /\ UNCHANGED <<proc, dirs>>
    BY <1>6 DEF StartCaught
  <2> QED BY <1>0, <2>1, SystemDetach DEF Running
<1>7. ASSUME NEW a \in Attempts, ChildExits(a) PROVE SystemTypes' /\ AllReachable'
  <2>1. /\ proc' = [proc EXCEPT ![a] = "exited"] /\ UNCHANGED dirs
        /\ \/ Detach("exit", FALSE)
           \/ UNCHANGED <<fields, cleanups, openClients>>
    BY <1>7 DEF ChildExits
  <2>2. proc' \in [Attempts -> {"none", "running", "failed", "exited", "stuck"}]
        /\ \A b \in Attempts : Running(b)' => Running(b)
    BY <1>0, <2>1 DEF Running
  <2>3. CASE Detach("exit", FALSE)
    BY <1>0, <2>1, <2>2, <2>3, SystemDetach
  <2>4. CASE UNCHANGED <<fields, cleanups, openClients>>
    BY <1>0, <2>1, <2>2, <2>4, SystemKept DEF fields
  <2> QED BY <2>1, <2>3, <2>4
<1>8. CASE CleanupStep
  <2>1. UNCHANGED <<child, dir, clients>>
    BY <1>8 DEF CleanupStep, ShutdownAnswered, ExitAwaited, Escalate, DirectoryRemoved, fields
  <2> QED BY <1>0, <1>8, <2>1, SystemCleanup
<1>9. CASE Dispose \/ DisposeStartSettled
  <2>1. Detach("dispose", TRUE) /\ UNCHANGED <<proc, dirs>>
    BY <1>9 DEF Dispose, DisposeStartSettled
  <2> QED BY <1>0, <2>1, SystemDetach DEF Running
<1>10. CASE DisposeCleaned \/ DisposeTasksDone \/ BackoffElapses \/ FailureAges \/ UNCHANGED vars
  BY <1>10, <1>q DEF DisposeCleaned, DisposeTasksDone, BackoffElapses, FailureAges, vars, fields
<1> QED BY <1>1, <1>2, <1>3, <1>4, <1>5, <1>6, <1>7, <1>8, <1>9, <1>10
        DEF Next, CallerStep, Starting, Disposing

-----------------------------------------------------------------------------
(* The restart budget.                                                         *)

\* No launch is open: each one begun has failed.
Over == starter \in {"delay", "cleaning", "rejected"} \/ (starter = "resolved" /\ child = 0)

LEMMA BudgetInit == Init => BudgetTypes /\ BudgetInv
<1> SUFFICES ASSUME Init PROVE BudgetTypes /\ BudgetInv
  OBVIOUS
<1>1. /\ lastHandled = 0 /\ recent = 0 /\ backoff = FALSE /\ exhausted = FALSE
      /\ charged = [a \in Attempts |-> 0] /\ aged = 0 /\ launches = 0
  BY DEF Init
<1>2. charged \in [Attempts -> Nat] /\ \A a \in Attempts : charged[a] = 0 /\ ~(a <= lastHandled)
  BY <1>1, Numbers
<1>3. lastHandled \in Held /\ recent < MaxFailures /\ launches <= MaxFailures + aged
  BY <1>1, Numbers
<1>4. /\ lastHandled <= launches /\ launches <= lastHandled + 1 /\ recent + aged = lastHandled
      /\ lastHandled = launches /\ recent \in Nat /\ aged \in Nat
  BY <1>1
<1>5. backoff \in BOOLEAN /\ exhausted \in BOOLEAN
  BY <1>1
<1>6. BudgetTypes
  BY <1>2, <1>3, <1>4, <1>5 DEF BudgetTypes
<1> QED BY <1>2, <1>3, <1>4, <1>6 DEF BudgetInv, LaunchesBounded

LEMMA BudgetKept ==
  ASSUME BudgetTypes, BudgetInv, UNCHANGED <<budget, launches>>,
         ~disposed' /\ Over' => ~disposed /\ Over
  PROVE  BudgetTypes' /\ BudgetInv'
BY DEF BudgetTypes, BudgetInv, LaunchesBounded, budget, Over

\* recordFailure charges the newest launch once, and counts it.
LEMMA BudgetCharge ==
  ASSUME BudgetTypes, FlowTypes, BudgetInv, launches # 0, RecordFailure(launches),
         UNCHANGED <<launches, disposed>>
  PROVE  BudgetTypes' /\ BudgetInv'
<1>1. launches \in Attempts /\ launches \in Nat /\ lastHandled \in Nat /\ MaxFailures \in Nat
      /\ launches \in Held
  BY Numbers DEF FlowTypes, BudgetTypes
<1>2. CASE Ignored(launches)
  <2>1. UNCHANGED budget
    BY <1>2 DEF RecordFailure
  <2>2. disposed \/ lastHandled = launches
    BY <1>1, <1>2 DEF Ignored, BudgetInv
  <2> QED BY <2>1, <2>2 DEF BudgetTypes, BudgetInv, LaunchesBounded, budget
<1>3. CASE ~Ignored(launches)
  <2>1. /\ lastHandled' = launches /\ charged' = [charged EXCEPT ![launches] = @ + 1]
        /\ recent' = recent + 1 /\ exhausted' = (exhausted \/ BudgetSpent)
        /\ backoff' = (backoff \/ ~BudgetSpent) /\ UNCHANGED aged
    BY <1>3 DEF RecordFailure
  <2>2. launches = lastHandled + 1
    BY <1>1, <1>3 DEF Ignored, BudgetInv
  <2>3. charged[launches] = 0 /\ charged \in [Attempts -> Nat]
    BY <1>1, <2>2 DEF BudgetInv, BudgetTypes
  <2>4. charged' \in [Attempts -> Nat] /\ charged'[launches] = 1
        /\ \A a \in Attempts : a # launches => charged'[a] = charged[a]
    BY <1>1, <2>1, <2>3
  <2>5. \A a \in Attempts : charged'[a] = IF a <= lastHandled' THEN 1 ELSE 0
    BY <1>1, <2>1, <2>2, <2>4, Numbers DEF BudgetInv
  <2>6. recent' \in Nat /\ aged' \in Nat /\ recent' + aged' = lastHandled'
    BY <1>1, <2>1, <2>2 DEF BudgetTypes, BudgetInv
  <2>7. ~exhausted' => recent' < MaxFailures
    <3>1. ~exhausted' => ~BudgetSpent
      BY <2>1
    <3> QED BY <1>1, <2>1, <3>1 DEF BudgetSpent, BudgetTypes
  <2>8. exhausted' \in BOOLEAN /\ backoff' \in BOOLEAN
    BY <2>1 DEF BudgetTypes
  <2>9. LaunchesBounded'
    BY <2>1 DEF BudgetInv, LaunchesBounded
  <2>10. lastHandled' = launches' /\ launches' \in Nat /\ lastHandled' \in Held
    BY <1>1, <2>1
  <2>11. BudgetTypes'
    BY <2>4, <2>6, <2>8, <2>10 DEF BudgetTypes
  <2>12. lastHandled' <= launches' /\ launches' <= lastHandled' + 1
    BY <2>10
  <2> QED BY <2>5, <2>6, <2>7, <2>9, <2>10, <2>11, <2>12 DEF BudgetInv
<1> QED BY <1>2, <1>3

LEMMA BudgetStep == IInv /\ [Next]_vars /\ ~late' => BudgetTypes' /\ BudgetInv'
<1> SUFFICES ASSUME IInv, [Next]_vars, ~late' PROVE BudgetTypes' /\ BudgetInv'
  OBVIOUS
<1>0. /\ TypeOK /\ FlowTypes /\ LooseTypes /\ FieldTypes /\ FieldInv /\ FlowInv
      /\ BudgetTypes /\ BudgetInv
  BY OnTime
<1>q. ASSUME UNCHANGED <<budget, launches, starter, child, disposed>>
      PROVE  BudgetTypes' /\ BudgetInv'
  BY <1>0, <1>q, BudgetKept DEF Over
<1>1. ASSUME NEW c \in Callers, EnsureStarted(c) \/ CallerCleaned(c)
      PROVE  BudgetTypes' /\ BudgetInv'
  <2>1. UNCHANGED <<fields, budget, disposal>> /\ (Join(c) \/ UNCHANGED start)
    BY <1>1 DEF EnsureStarted, CallerCleaned
  <2>2. UNCHANGED <<launches, child, disposed>>
    BY <2>1 DEF Join, fields, start, disposal
  <2>3. CASE startPromise = 0 /\ Join(c)
    <3>1. child = 0 /\ starter \in {"resolved", "rejected"}
      BY <1>0, <1>1, <2>3, BeginsEmpty DEF FlowInv
    <3> QED BY <1>0, <2>1, <2>2, <3>1, BudgetKept DEF Over
  <2>4. CASE startPromise # 0 \/ ~Join(c)
    <3>1. UNCHANGED starter
      BY <2>1, <2>4 DEF Join, start
    <3> QED BY <1>q, <2>1, <2>2, <3>1
  <2> QED BY <2>3, <2>4
<1>2. ASSUME NEW c \in Callers, ObserveDeadChild(c) PROVE BudgetTypes' /\ BudgetInv'
  <2>1. /\ child # 0 /\ ~Running(child) /\ UNCHANGED <<launches, starter, disposed>>
        /\ IF current # 0 THEN RecordFailure(current) ELSE UNCHANGED budget
    BY <1>2 DEF ObserveDeadChild, start, disposal
  <2>2. starter \in {"announce", "failing"} /\ launches # 0
    BY <1>0, <2>1 DEF FieldInv, FieldTypes, FlowTypes, StartSteps
  <2>3. current # 0 => current = launches
    BY <1>0 DEF FieldTypes
  <2>4. ~Over'
    BY <2>1, <2>2 DEF Over
  <2> QED BY <1>0, <2>1, <2>2, <2>3, <2>4, BudgetCharge, BudgetKept
<1>3. ASSUME NEW c \in Callers, CallerResumes(c) PROVE BudgetTypes' /\ BudgetInv'
  BY <1>3, <1>q DEF CallerResumes, fields, disposal
<1>4. CASE DelayOver
  <2>1. /\ starter = "delay" /\ UNCHANGED <<child, budget, disposed>>
        /\ \/ UNCHANGED launches
           \/ /\ ~disposed /\ ~exhausted /\ launches < MaxLaunches
              /\ launches' = launches + 1 /\ starter' = "mkdtemp"
    BY <1>4 DEF DelayOver, disposal
  <2>2. CASE UNCHANGED launches
    BY <1>0, <2>1, <2>2, BudgetKept DEF Over
  <2>3. CASE /\ ~disposed /\ ~exhausted /\ launches' = launches + 1 /\ starter' = "mkdtemp"
    <3>1. lastHandled = launches /\ recent < MaxFailures /\ recent + aged = lastHandled
      BY <1>0, <2>1, <2>3 DEF BudgetInv
    <3>2. launches \in Nat /\ recent \in Nat /\ aged \in Nat /\ lastHandled \in Nat
          /\ MaxFailures \in Nat
      BY <1>0, Numbers DEF FlowTypes, BudgetTypes
    <3>3. LaunchesBounded'
      BY <2>1, <2>3, <3>1, <3>2 DEF LaunchesBounded, budget
    <3>4. lastHandled' <= launches' /\ launches' <= lastHandled' + 1
      BY <2>1, <2>3, <3>1, <3>2 DEF budget
    <3>5. BudgetTypes' /\ ~Over'
      BY <1>0, <2>1, <2>3 DEF BudgetTypes, budget, Over
    <3> QED BY <1>0, <2>1, <3>3, <3>4, <3>5 DEF BudgetInv, budget, Over
  <2> QED BY <2>1, <2>2, <2>3
<1>5. CASE DirectoryMade \/ Announced \/ Connected \/ CapabilitiesReceived \/ StartFails
  <2>1. UNCHANGED <<budget, launches>>
    BY <1>5 DEF DirectoryMade, Announced, Connected, CapabilitiesReceived, StartFails
  <2>2. ~Over'
    BY <1>0, <1>5 DEF DirectoryMade, Announced, Connected, CapabilitiesReceived, StartFails, Over,
       FlowInv, Quiet
  <2> QED BY <1>0, <2>1, <2>2, BudgetKept
<1>6. CASE StartCaught
  <2>1. RecordFailure(launches) /\ UNCHANGED <<launches, disposed>> /\ launches # 0
    BY <1>0, <1>6 DEF StartCaught, disposal, FlowInv, Quiet
  <2> QED BY <1>0, <2>1, BudgetCharge
<1>7. CASE StartCleaned
  <2>1. starter = "cleaning" /\ UNCHANGED <<budget, launches, disposed>>
    BY <1>7 DEF StartCleaned, disposal
  <2> QED BY <1>0, <2>1, BudgetKept DEF Over
<1>8. ASSUME NEW a \in Attempts, ChildExits(a) PROVE BudgetTypes' /\ BudgetInv'
  <2>1. UNCHANGED <<launches, starter, disposed>>
    BY <1>8 DEF ChildExits, start, disposal
  <2>2. CASE ~disposed /\ child = a
    <3>1. RecordFailure(launches) /\ launches # 0
      BY <1>0, <1>8, <2>2, Numbers DEF ChildExits, FieldTypes
    <3> QED BY <1>0, <2>1, <3>1, BudgetCharge
  <2>3. CASE disposed \/ child # a
    <3>1. UNCHANGED <<budget, child>>
      BY <1>8, <2>3 DEF ChildExits, fields
    <3> QED BY <1>q, <2>1, <3>1
  <2> QED BY <2>2, <2>3
<1>9. CASE CleanupStep
  BY <1>9, <1>q DEF CleanupStep, ShutdownAnswered, ExitAwaited, Escalate, DirectoryRemoved,
     fields, start, disposal
<1>10. CASE Dispose \/ DisposeStartSettled
  <2>1. UNCHANGED <<budget, launches>> /\ disposed'
    BY <1>0, <1>10 DEF Dispose, DisposeStartSettled, start, FlowInv
  <2> QED BY <1>0, <2>1, BudgetKept
<1>11. CASE DisposeCleaned \/ DisposeTasksDone
  BY <1>11, <1>q DEF DisposeCleaned, DisposeTasksDone, fields, start
<1>12. CASE BackoffElapses
  <2>1. /\ backoff' = FALSE /\ UNCHANGED <<lastHandled, recent, exhausted, charged, aged>>
        /\ UNCHANGED <<launches, starter, child, disposed>>
    BY <1>12 DEF BackoffElapses, fields, start, disposal
  <2> QED BY <1>0, <2>1 DEF BudgetTypes, BudgetInv, LaunchesBounded
<1>13. CASE FailureAges
  <2>1. /\ recent > 0 /\ recent' = recent - 1 /\ aged' = aged + 1
        /\ UNCHANGED <<lastHandled, backoff, exhausted, charged, launches, starter, child, disposed>>
    BY <1>0, <1>13 DEF FailureAges, fields, start, disposal, BudgetTypes
  <2>2. launches \in Nat /\ recent \in Nat /\ aged \in Nat /\ lastHandled \in Nat
        /\ MaxFailures \in Nat
    BY <1>0, Numbers DEF FlowTypes, BudgetTypes
  <2>3. /\ recent' \in Nat /\ aged' \in Nat /\ recent' + aged' = recent + aged
        /\ recent < MaxFailures => recent' < MaxFailures
        /\ LaunchesBounded => LaunchesBounded'
    BY <2>1, <2>2 DEF LaunchesBounded
  <2> QED BY <1>0, <2>1, <2>3 DEF BudgetTypes, BudgetInv
<1>14. CASE UNCHANGED vars
  BY <1>14, <1>q DEF vars, fields, start, disposal
<1> QED BY <1>1, <1>2, <1>3, <1>4, <1>5, <1>6, <1>7, <1>8, <1>9, <1>10, <1>11, <1>12, <1>13, <1>14
        DEF Next, CallerStep, Starting, Disposing

-----------------------------------------------------------------------------
(* The types, also of a run in which a caller was late.                        *)

LEMMA ChargeTypes ==
  ASSUME BudgetTypes, NEW a \in Attempts, RecordFailure(a)
  PROVE  BudgetTypes'
<1>1. a \in Held
  BY Numbers
<1>2. charged[a] + 1 \in Nat /\ recent + 1 \in Nat
  BY DEF BudgetTypes
<1> QED BY <1>1, <1>2 DEF BudgetTypes, RecordFailure, budget

LEMMA DetachTypes ==
  ASSUME LooseTypes, FlowTypes, SystemTypes,
         NEW owner \in Callers \cup {"start", "exit", "dispose"},
         NEW shutdown \in BOOLEAN, Detach(owner, shutdown), UNCHANGED <<late, dirs>>,
         proc' \in [Attempts -> {"none", "running", "failed", "exited", "stuck"}]
  PROVE  LooseTypes' /\ SystemTypes'
<1>1. CASE HasRuntime
  <2>1. Cleanup(owner, shutdown) \in CleanupTasks /\ 0 \in Held
    BY CleanupIs, Numbers
  <2>2. /\ cleanups' = cleanups \cup {Cleanup(owner, shutdown)}
        /\ openClients' \subseteq openClients
        /\ child' = 0 /\ dir' = 0 /\ clients' = 0 /\ capable' = FALSE /\ current' = 0
    BY <1>1 DEF Detach
  <2> QED BY <2>1, <2>2 DEF LooseTypes, SystemTypes
<1>2. CASE ~HasRuntime
  BY <1>2 DEF Detach, fields, LooseTypes, SystemTypes
<1> QED BY <1>1, <1>2

LEMMA LooseStep == IInv /\ [Next]_vars => LooseTypes' /\ BudgetTypes' /\ SystemTypes'
<1> SUFFICES ASSUME IInv, [Next]_vars PROVE LooseTypes' /\ BudgetTypes' /\ SystemTypes'
  OBVIOUS
<1> DEFINE Loose == LooseTypes' /\ BudgetTypes' /\ SystemTypes'
<1>0. /\ FlowTypes /\ LooseTypes /\ FlowInv /\ BudgetTypes /\ SystemTypes
      /\ proc \in [Attempts -> {"none", "running", "failed", "exited", "stuck"}]
  BY Types DEF IInv, SystemTypes
<1>b. ASSUME UNCHANGED budget PROVE BudgetTypes'
  BY <1>0, <1>b DEF BudgetTypes, budget
<1>q. ASSUME UNCHANGED <<fields, late, budget, system, cleanups>> PROVE Loose
  BY <1>0, <1>b, <1>q DEF LooseTypes, SystemTypes, fields, system
<1>1. ASSUME NEW c \in Callers, EnsureStarted(c) \/ CallerCleaned(c) \/ CallerResumes(c)
      PROVE  Loose
  <2>1. UNCHANGED <<fields, budget, system, cleanups>> /\ late' \in BOOLEAN
    BY <1>0, <1>1 DEF EnsureStarted, CallerCleaned, CallerResumes, LooseTypes
  <2> QED BY <1>0, <1>b, <2>1 DEF LooseTypes, SystemTypes, fields, system
<1>2. ASSUME NEW c \in Callers, ObserveDeadChild(c) PROVE Loose
  <2>1. /\ Detach(c, FALSE) /\ UNCHANGED <<late, proc, dirs>>
        /\ IF current # 0 THEN RecordFailure(current) ELSE UNCHANGED budget
    BY <1>2 DEF ObserveDeadChild
  <2>2. current # 0 => current \in Attempts
    BY <1>0, Numbers DEF LooseTypes
  <2>3. BudgetTypes'
    BY <1>0, <1>b, <2>1, <2>2, ChargeTypes
  <2> QED BY <1>0, <2>1, <2>3, DetachTypes
<1>3. CASE DelayOver
  <2>1. /\ UNCHANGED <<child, dir, clients, capable, late, budget, system, cleanups>>
        /\ current' \in {current, launches + 1}
        /\ current' # current => launches < MaxLaunches
    BY <1>3 DEF DelayOver, callers
  <2>2. current' \in Held
    BY <1>0, <2>1, Numbers DEF LooseTypes, FlowTypes
  <2> QED BY <1>0, <1>b, <2>1, <2>2 DEF LooseTypes, SystemTypes, system
<1>4. CASE DirectoryMade
  <2>1. /\ starter = "mkdtemp" /\ dir' = launches /\ dirs' = dirs \cup {launches}
        /\ UNCHANGED <<clients, capable, current, late, budget, openClients, cleanups>>
        /\ \/ UNCHANGED <<child, proc>>
           \/ /\ child' = launches
              /\ \E outcome \in {"running", "failed"} :
                   proc' = [proc EXCEPT ![launches] = outcome]
    BY <1>4 DEF DirectoryMade, callers
  <2>2. launches \in Attempts /\ launches \in Held
    BY <1>0, <2>1, Numbers DEF FlowInv, FlowTypes, Quiet
  <2>3. proc' \in [Attempts -> {"none", "running", "failed", "exited", "stuck"}]
    BY <1>0, <2>1, <2>2
  <2>4. LooseTypes'
    BY <1>0, <2>1, <2>2 DEF LooseTypes
  <2> QED BY <1>0, <1>b, <2>1, <2>2, <2>3, <2>4 DEF SystemTypes
<1>5. CASE Announced
  <2>1. /\ starter = "announce" /\ clients' = launches
        /\ openClients' = openClients \cup {launches}
        /\ UNCHANGED <<child, dir, capable, current, late, budget, proc, dirs, cleanups>>
    BY <1>5 DEF Announced, callers
  <2>2. launches \in Attempts /\ launches \in Held
    BY <1>0, <2>1, Numbers DEF FlowInv, FlowTypes, Quiet
  <2> QED BY <1>0, <1>b, <2>1, <2>2 DEF LooseTypes, SystemTypes
<1>6. CASE Connected \/ StartFails \/ StartCleaned
  BY <1>6, <1>q DEF Connected, StartFails, StartCleaned, callers
<1>7. CASE CapabilitiesReceived
  <2>1. /\ UNCHANGED <<child, dir, clients, current, late, budget, system, cleanups>>
        /\ capable' \in {capable, TRUE}
    BY <1>7 DEF CapabilitiesReceived, callers
  <2> QED BY <1>0, <1>b, <2>1 DEF LooseTypes, SystemTypes, system
<1>8. CASE StartCaught
  <2>1. /\ starter = "failing" /\ RecordFailure(launches) /\ Detach("start", FALSE)
        /\ UNCHANGED <<late, proc, dirs>>
    BY <1>8 DEF StartCaught, callers
  <2>2. launches \in Attempts
    BY <1>0, <2>1, Numbers DEF FlowInv, FlowTypes, Quiet
  <2> QED BY <1>0, <2>1, <2>2, ChargeTypes, DetachTypes
<1>9. ASSUME NEW a \in Attempts, ChildExits(a) PROVE Loose
  <2>1. /\ proc' = [proc EXCEPT ![a] = "exited"] /\ UNCHANGED <<late, dirs>>
        /\ \/ RecordFailure(a) /\ Detach("exit", FALSE)
           \/ UNCHANGED <<fields, budget, cleanups, openClients>>
    BY <1>9 DEF ChildExits, callers
  <2>2. proc' \in [Attempts -> {"none", "running", "failed", "exited", "stuck"}]
    BY <1>0, <2>1
  <2>3. CASE RecordFailure(a) /\ Detach("exit", FALSE)
    BY <1>0, <2>1, <2>2, <2>3, ChargeTypes, DetachTypes
  <2>4. CASE UNCHANGED <<fields, budget, cleanups, openClients>>
    BY <1>0, <1>b, <2>1, <2>2, <2>4 DEF LooseTypes, SystemTypes, fields
  <2> QED BY <2>1, <2>3, <2>4
<1>10. CASE CleanupStep
  <2>1. /\ UNCHANGED <<fields, late, budget>>
        /\ dirs' \subseteq dirs /\ openClients' \subseteq openClients
    BY <1>10 DEF CleanupStep, ShutdownAnswered, ExitAwaited, Escalate, DirectoryRemoved, callers,
       system
  <2> QED BY <1>0, <1>b, <1>10, <2>1, CleanupTypes, CleanupProcesses
          DEF LooseTypes, SystemTypes, fields
<1>11. CASE Dispose \/ DisposeStartSettled
  <2>1. Detach("dispose", TRUE) /\ UNCHANGED <<late, budget, proc, dirs>>
    BY <1>11 DEF Dispose, DisposeStartSettled, callers
  <2> QED BY <1>0, <1>b, <2>1, DetachTypes
<1>12. CASE DisposeCleaned \/ DisposeTasksDone \/ UNCHANGED vars
  BY <1>12, <1>q DEF DisposeCleaned, DisposeTasksDone, vars, callers
<1>13. CASE BackoffElapses
  <2>1. /\ backoff' = FALSE /\ UNCHANGED <<lastHandled, recent, exhausted, charged, aged>>
        /\ UNCHANGED <<fields, late, system, cleanups>>
    BY <1>13 DEF BackoffElapses, callers
  <2> QED BY <1>0, <2>1 DEF LooseTypes, BudgetTypes, SystemTypes, fields, system
<1>14. CASE FailureAges
  <2>1. /\ recent > 0 /\ recent' = recent - 1 /\ aged' = aged + 1
        /\ UNCHANGED <<lastHandled, backoff, exhausted, charged>>
        /\ UNCHANGED <<fields, late, system, cleanups>>
    BY <1>0, <1>14 DEF FailureAges, callers, BudgetTypes
  <2>2. recent' \in Nat /\ aged' \in Nat
    BY <1>0, <2>1 DEF BudgetTypes
  <2> QED BY <1>0, <2>1, <2>2 DEF LooseTypes, BudgetTypes, SystemTypes, fields, system
<1> QED BY <1>1, <1>2, <1>3, <1>4, <1>5, <1>6, <1>7, <1>8, <1>9, <1>10, <1>11, <1>12, <1>13, <1>14
        DEF Next, CallerStep, Starting, Disposing

-----------------------------------------------------------------------------
(* The theorems.                                                               *)

\* The inductive invariant holds of every run: the types and the flow always, the
\* rest until a caller is late.
THEOREM Invariance == Spec => []IInv
<1>1. Init => IInv
  <2> SUFFICES ASSUME Init PROVE IInv
    OBVIOUS
  <2>0. child = 0 /\ dir = 0 /\ clients = 0 /\ current = 0 /\ cleanups = {}
    BY DEF Init
  <2>b. capable \in BOOLEAN /\ late \in BOOLEAN
    BY DEF Init
  <2>h. {child, dir, clients, current} \subseteq Held
    BY <2>0, Numbers
  <2>1. LooseTypes
    BY <2>b, <2>h DEF LooseTypes
  <2>2. TaskInv
    BY <2>0 DEF TaskInv
  <2> QED BY <2>1, <2>2, Types, FlowInit, FieldInit, ProcInit, SystemInit, BudgetInit
          DEF IInv, SharpInv
<1>2. IInv /\ [Next]_vars => IInv'
  <2>1. (TypeOK <=> /\ FlowTypes /\ LooseTypes /\ BudgetTypes /\ SystemTypes
                    /\ ~late => FieldTypes)'
    BY Types, PTL
  <2> QED BY <2>1, FlowStep, LooseStep, FieldStep, ProcStep, TaskStep, SystemStep, BudgetStep
          DEF IInv, SharpInv
<1> QED BY <1>1, <1>2, PTL DEF Spec

\* Every variable has its type, and what the fields of WorkspaceAgentClient hold
\* belongs to the latest launch until a caller was late, whatever the callers,
\* exits and disposals do.
THEOREM TypesHold == Spec => []TypeOK
<1>1. IInv => TypeOK
  BY DEF IInv
<1> QED BY <1>1, Invariance, PTL

\* workspace-agent.ts runs two agents at once in no order but two: a caller that
\* comes back late from its wait for a clean-up (608-615), and a process that
\* outlives SIGKILL by a second (771).
THEOREM OneAgentLives == Spec => []AtMostOneLiveAgent
<1>1. IInv => AtMostOneLiveAgent
  BY DEF IInv, SharpInv, ProcInv, AtMostOneLiveAgent
<1> QED BY <1>1, Invariance, PTL

\* A process, a socket directory and a gRPC client of workspace-agent.ts are held
\* by the client or a clean-up at every moment, whichever step of the start they
\* were created in; when dispose() has returned there is none.  Only a late caller
\* and a stuck process break it.
THEOREM NothingIsLost == Spec => []NothingLeaks
<1>1. IInv => NothingLeaks
  <2> SUFFICES ASSUME IInv, ~late PROVE AllReachable /\ DisposedIsClean
    BY DEF NothingLeaks
  <2>1. TypeOK /\ FlowInv /\ FieldInv /\ AllReachable
    BY DEF IInv, SharpInv
  <2>2. ASSUME dpc = "done"
        PROVE  /\ \A a \in Attempts : ~Running(a)
               /\ dirs = {} /\ openClients = {} /\ cleanups = {}
    <3>1. cleanups = {} /\ Quiet /\ disposed
      BY <2>1, <2>2 DEF FlowInv
    <3>2. child = 0 /\ dir = 0 /\ clients = 0
      BY <2>1, <3>1 DEF FieldInv, Quiet
    <3>3. dirs \subseteq Attempts /\ openClients \subseteq Attempts
      BY <2>1 DEF TypeOK
    <3> QED BY <2>1, <3>1, <3>2, <3>3, Numbers DEF AllReachable
  <2> QED BY <2>1, <2>2 DEF DisposedIsClean
<1> QED BY <1>1, Invariance, PTL

\* Whichever of the start, the exit callback and a caller of workspace-agent.ts
\* sees a failure first, it is charged once, and the breaker opens in time: there
\* are never more launches than the budget and the failures that left its window.
THEOREM BudgetHolds == Spec => []BudgetExact
<1>1. IInv => BudgetExact
  <2> SUFFICES ASSUME IInv, ~late PROVE ChargedOnce /\ LaunchesBounded
    BY DEF BudgetExact
  <2>1. FlowTypes /\ FieldTypes /\ BudgetTypes /\ FieldInv /\ BudgetInv
    BY Types DEF IInv, SharpInv
  <2>2. ASSUME NEW a \in Attempts PROVE charged[a] <= 1
    BY <2>1 DEF BudgetInv
  <2>3. ASSUME NEW a \in Attempts, AttemptOver(a), ~disposed PROVE charged[a] = 1
    <3>1. a <= launches /\ ~Running(a) /\ (a < launches \/ Quiet)
      BY <2>3 DEF AttemptOver, Quiet
    <3>2. a \in Nat /\ launches \in Nat /\ lastHandled \in Nat
      BY <2>1, Numbers DEF FlowTypes, BudgetTypes
    <3>3. CASE a < launches
      BY <2>1, <3>2, <3>3 DEF BudgetInv
    <3>4. CASE a = launches /\ Quiet
      <4>1. starter = "resolved" => child = 0
        BY <2>1, <3>1, <3>4 DEF FieldInv, FieldTypes
      <4>2. lastHandled = launches
        BY <2>1, <2>3, <3>4, <4>1 DEF BudgetInv, Quiet
      <4> QED BY <2>1, <3>2, <3>4, <4>2 DEF BudgetInv
    <3> QED BY <3>1, <3>2, <3>3, <3>4
  <2> QED BY <2>1, <2>2, <2>3 DEF ChargedOnce, BudgetInv
<1> QED BY <1>1, Invariance, PTL

=============================================================================
