------------------------ MODULE TerminalSessions_proofs ------------------------
(* Proofs about TerminalSessions, for every number of pages, connections,       *)
(* PtyServices and chunks of output and every set of terminals.                 *)
EXTENDS TerminalSessions, FiniteSetTheorems, TLAPS

States == {"free", "starting", "bound", "disposed", "failed"}
Shells == {"none", "alive", "killed", "dead", "gone"}
Batches == [held : BOOLEAN, timer : {"none", "armed", "stale"}]

-----------------------------------------------------------------------------
(* The inductive invariant.                                                    *)

\* The pages and their connections.
ClientInv ==
  /\ page \in [Clients -> {"new", "open", "left"}]
  /\ view \in [Ids -> {"none", "shown", "closed"}]
  /\ up \subseteq Clients /\ closing \subseteq Clients /\ up \intersect closing = {}
  /\ links \in [Clients -> Nat] /\ registered \in [Clients -> Nat]
  /\ \A c \in Clients : registered[c] <= links[c]
  /\ late \subseteq Clients /\ taken \subseteq Sessions

\* A batch that waits has a timer; a timer that finds nothing follows a burst.
BatchInv ==
  /\ batch \in [Ids -> Batches] /\ outputs \in 0 .. MaxOutputs
  /\ \A id \in Ids : /\ batch[id].held => batch[id].timer # "none"
                     /\ batch[id].timer = "stale" => id \in burst
                     /\ batch[id].timer = "armed" /\ ~batch[id].held => id \in burst

\* The PtyServices in use are the first ones.
UsedServices == {k \in Services : svc[k].st # "free"}
ServiceInv ==
  /\ svc \in [Services -> [id : Ids \union {<<>>}, via : Nat,
                           pid : 0 .. MaxAttaches, st : States]]
  /\ \E n \in 0 .. MaxAttaches : UsedServices = 1 .. n
  /\ \A k \in Services :
       /\ svc[k].st # "free" => svc[k].id \in Ids /\ svc[k].via <= links[svc[k].id[1]]
       /\ svc[k].pid # 0 <=> svc[k].st \in {"bound", "disposed"}

\* The maps of the server name PtyServices of the right id.
MapInv ==
  /\ terms \in [Ids -> 0 .. MaxAttaches] /\ procs \in [Ids -> 0 .. MaxAttaches]
  /\ \A id \in Ids :
       /\ terms[id] # 0 => svc[terms[id]].id = id /\ svc[terms[id]].st = "bound"
       /\ procs[id] # 0 => svc[procs[id]].id = id /\ svc[procs[id]].st # "free"

\* The shells spawned are the first ones, no more than the PtyServices that
\* spawned; each is of one session.
UsedShells == {p \in Pids : shell[p] # "none"}
Spawners == {k \in Services : svc[k].pid # 0}
ShellInv ==
  /\ shell \in [Pids -> Shells] /\ listener \in [Pids -> 0 .. MaxAttaches]
  /\ \E n \in 0 .. MaxAttaches : UsedShells = 1 .. n
  /\ Cardinality(UsedShells) <= Cardinality(Spawners)
  /\ spoken \subseteq UsedShells
  /\ \A k \in Services : svc[k].pid # 0 => shell[svc[k].pid] # "none"
  /\ \A j, k \in Services : svc[j].pid # 0 /\ svc[j].pid = svc[k].pid
                              => svc[j].id[2] = svc[k].id[2]
  /\ \A p \in Pids : listener[p] # 0 => svc[listener[p]].pid = p

\* A session has a shell with a listener of that session; every living shell has
\* a session; a lease is about the shell of a session.
SessionInv ==
  /\ session \in [Sessions -> 0 .. MaxAttaches] /\ lease \in [Sessions -> 0 .. MaxAttaches]
  /\ \A s \in Sessions :
       /\ session[s] # 0 => /\ shell[session[s]] \in {"alive", "dead"}
                            /\ listener[session[s]] # 0
                            /\ svc[listener[session[s]]].id[2] = s
       /\ lease[s] # 0 => lease[s] = session[s] /\ s \notin Transient
  /\ \A p \in Pids : shell[p] = "alive" => \E s \in Sessions : session[s] = p

\* Who keeps a living shell; the session of one whose entry was taken away is
\* remembered.
Kept(p) ==
  \/ \E s \in Sessions : lease[s] = p
  \/ \E id \in Ids : terms[id] # 0 /\ svc[terms[id]].pid = p /\ Attended(id[1])
  \/ \E s \in Sessions : s \in crossed /\ session[s] = p

KeeperInv ==
  /\ \A p \in Pids : shell[p] = "alive" => Kept(p)
  /\ \A k \in Services :
       /\ svc[k].st = "bound" /\ session[svc[k].id[2]] = svc[k].pid
       /\ listener[svc[k].pid] = k
       => terms[svc[k].id] = k \/ svc[k].id[2] \in crossed
  /\ \A s \in Sessions \ taken : \A c, d \in Clients :
       terms[<<c, s>>] # 0 /\ terms[<<d, s>>] # 0 => c = d
  /\ \A s \in Sessions \ taken : lease[s] # 0 => \A c \in Clients : terms[<<c, s>>] = 0

TypeInv == ClientInv /\ BatchInv /\ ServiceInv /\ MapInv /\ ShellInv /\ SessionInv
IInv == TypeInv /\ KeeperInv

-----------------------------------------------------------------------------
(* Ids and records.                                                            *)

LEMMA IdFacts ==
  /\ \A id \in Ids : id[1] \in Clients /\ id[2] \in Sessions /\ id = <<id[1], id[2]>>
                     /\ id # <<>>
  /\ \A c \in Clients, s \in Sessions :
       <<c, s>> \in Ids /\ <<c, s>>[1] = c /\ <<c, s>>[2] = s
BY DEF Ids

LEMMA BoundFacts == MaxAttaches \in Nat /\ MaxLinks \in Nat /\ MaxOutputs \in Nat
                    /\ Pages \in Nat /\ Transient \subseteq Sessions
BY TerminalAssumption

LEMMA ReceivedFacts ==
  ASSUME NEW b \in Batches, NEW size \in Sizes
  PROVE  /\ Received(b, size) \in Batches
         /\ size = "large" => ~Received(b, size).held /\ Received(b, size).timer = "armed"
         /\ size # "large" => /\ Received(b, size).held /\ Received(b, size).timer # "none"
                              /\ Received(b, size).timer = "stale" => b.timer = "stale"
BY DEF Received, Batches, Sizes

LEMMA NoBatchFacts == NoBatch \in Batches /\ ~NoBatch.held /\ NoBatch.timer = "none"
BY DEF NoBatch, Batches

-----------------------------------------------------------------------------
(* Batches.                                                                    *)

BatchOf(id) ==
  /\ batch[id].held => batch[id].timer # "none"
  /\ batch[id].timer = "stale" => id \in burst
  /\ batch[id].timer = "armed" /\ ~batch[id].held => id \in burst

\* What a step may do to the batch of an id.
LEMMA BatchMoves ==
  ASSUME BatchInv, outputs' \in 0 .. MaxOutputs, burst \subseteq burst',
         batch' \in [Ids -> Batches],
         \A id \in Ids : \/ batch'[id] = batch[id] \/ batch'[id] = NoBatch
                         \/ batch'[id] = Received(batch[id], "small")
                         \/ batch'[id] = Received(batch[id], "large") /\ id \in burst'
                         \/ batch[id].timer = "armed" /\ batch'[id] = AfterTimer(batch[id])
  PROVE  BatchInv'
<1>1. ASSUME NEW id \in Ids PROVE BatchOf(id)'
  <2>1. batch[id] \in Batches /\ BatchOf(id)
    BY DEF BatchInv, BatchOf
  <2>2. CASE batch'[id] = batch[id]
    BY <2>1, <2>2 DEF BatchOf
  <2>3. CASE batch'[id] = NoBatch
    BY <2>3, NoBatchFacts DEF BatchOf
  <2>4. CASE batch'[id] = Received(batch[id], "small")
    BY <2>1, <2>4, ReceivedFacts DEF BatchOf, Sizes
  <2>5. CASE batch'[id] = Received(batch[id], "large") /\ id \in burst'
    BY <2>1, <2>5, ReceivedFacts DEF BatchOf, Sizes
  <2>6. CASE batch[id].timer = "armed" /\ batch'[id] = AfterTimer(batch[id])
    <3>1. CASE batch[id].held
      BY <2>6, <3>1, NoBatchFacts DEF BatchOf, AfterTimer
    <3>2. CASE ~batch[id].held
      <4>1. batch'[id] = [batch[id] EXCEPT !.timer = "stale"] /\ id \in burst
        BY <2>1, <2>6, <3>2 DEF AfterTimer, BatchOf
      <4> QED BY <2>1, <3>2, <4>1 DEF BatchOf, Batches
    <3> QED BY <3>1, <3>2
  <2> QED BY <2>2, <2>3, <2>4, <2>5, <2>6
<1> QED BY <1>1 DEF BatchInv, BatchOf

LEMMA BatchInit == Init => BatchInv
<1> SUFFICES ASSUME Init PROVE BatchInv
  OBVIOUS
<1>1. batch \in [Ids -> Batches] /\ \A id \in Ids : batch[id] = NoBatch
  BY NoBatchFacts DEF Init
<1>2. outputs \in 0 .. MaxOutputs
  BY BoundFacts DEF Init
<1> QED BY <1>1, <1>2, NoBatchFacts DEF BatchInv

\* The batch of one id changes.
LEMMA OneBatch ==
  ASSUME BatchInv, NEW id \in Ids, NEW b \in Batches, batch' = [batch EXCEPT ![id] = b],
         outputs' \in 0 .. MaxOutputs, burst \subseteq burst',
         \/ b = NoBatch \/ b = Received(batch[id], "small")
         \/ b = Received(batch[id], "large") /\ id \in burst'
         \/ batch[id].timer = "armed" /\ b = AfterTimer(batch[id])
  PROVE  BatchInv'
<1>1. batch \in [Ids -> Batches]
  BY DEF BatchInv
<1>2. batch' \in [Ids -> Batches] /\ batch'[id] = b
      /\ \A x \in Ids : x # id => batch'[x] = batch[x]
  BY <1>1
<1> QED BY <1>2, BatchMoves

LEMMA BatchStep == TypeInv /\ [Next]_vars => BatchInv'
<1> SUFFICES ASSUME TypeInv, [Next]_vars PROVE BatchInv'
  OBVIOUS
<1>0. BatchInv /\ outputs \in 0 .. MaxOutputs /\ batch \in [Ids -> Batches]
  BY DEF TypeInv, BatchInv
<1>q. ASSUME UNCHANGED <<batch, outputs, burst>> PROVE BatchInv'
  BY <1>0, <1>q, BatchMoves
<1>1. CASE \E c \in Clients : Connect(c)
  BY <1>1, <1>q DEF Connect
<1>2. CASE \E c \in Clients : PageLeaves(c) \/ LinkLost(c)
  BY <1>2, <1>q DEF PageLeaves, LinkLost, history
<1>3. ASSUME NEW c \in Clients, ClientExpires(c) PROVE BatchInv'
  <2>1. /\ batch' = [id \in Ids |-> IF id[1] = c /\ id[2] \in Terminals(c) THEN NoBatch
                              ELSE batch[id]]
        /\ UNCHANGED <<outputs, burst>>
    BY <1>3 DEF ClientExpires, history
  <2>2. batch' \in [Ids -> Batches] /\ \A id \in Ids : batch'[id] = batch[id] \/ batch'[id] = NoBatch
    BY <1>0, <2>1, NoBatchFacts
  <2> QED BY <1>0, <2>1, <2>2, BatchMoves
<1>4. CASE \E c \in Clients, s \in Sessions : DisposeById(c, s)
  BY <1>4, <1>q DEF DisposeById, history
<1>5. CASE \E c \in Clients, s \in Sessions, k \in Services : Attach(c, s, k)
  BY <1>5, <1>q DEF Attach, history
<1>6. ASSUME NEW k \in Services, NEW size \in Sizes, Spawned(k, size) PROVE BatchInv'
  <2> DEFINE id == svc[k].id
  <2>1. id \in Ids
    BY <1>6 DEF Spawned, TypeInv, ServiceInv
  <2>2. /\ UNCHANGED outputs
        /\ \/ UNCHANGED <<batch, burst>>
           \/ /\ batch' = [batch EXCEPT ![id] = Received(@, size)]
              /\ burst' = IF size = "large" THEN burst \union {id} ELSE burst
    BY <1>6 DEF Spawned
  <2>3. Received(batch[id], size) \in Batches /\ size \in {"small", "large"}
    BY <1>0, <2>1, ReceivedFacts DEF Sizes
  <2> QED BY <1>0, <1>q, <2>1, <2>2, <2>3, OneBatch
<1>7. ASSUME NEW k \in Services, StartFails(k) PROVE BatchInv'
  <2>1. svc[k].id \in Ids /\ batch' = [batch EXCEPT ![svc[k].id] = NoBatch]
        /\ UNCHANGED <<outputs, burst>>
    BY <1>7 DEF StartFails, history, TypeInv, ServiceInv
  <2> QED BY <1>0, <2>1, NoBatchFacts, OneBatch
<1>8. CASE \E s \in Sessions : LeaseExpires(s)
  BY <1>8, <1>q DEF LeaseExpires, history
<1>9. CASE \E p \in Pids : ShellEnds(p)
  BY <1>9, <1>q DEF ShellEnds, history
<1>10. ASSUME NEW p \in Pids, ExitEvent(p) PROVE BatchInv'
  <2> DEFINE k == listener[p]
  <2>1. UNCHANGED <<outputs, burst>>
        /\ (UNCHANGED batch \/ (k # 0 /\ svc[k].st = "bound"
                                /\ batch' = [batch EXCEPT ![svc[k].id] = NoBatch]))
    BY <1>10 DEF ExitEvent, history
  <2>2. k # 0 /\ svc[k].st = "bound" => svc[k].id \in Ids
    BY DEF TypeInv, ShellInv, ServiceInv, Services
  <2> QED BY <1>0, <1>q, <2>1, <2>2, NoBatchFacts, OneBatch
<1>11. ASSUME NEW p \in Pids, NEW size \in Sizes, Output(p, size) PROVE BatchInv'
  <2> DEFINE k == listener[p]  id == svc[k].id
  <2>1. outputs < MaxOutputs /\ outputs' = outputs + 1
        /\ \/ UNCHANGED <<batch, burst>>
           \/ /\ k # 0 /\ svc[k].st = "bound"
              /\ batch' = [batch EXCEPT ![id] = Received(@, size)]
              /\ burst' = IF size = "large" THEN burst \union {id} ELSE burst
    BY <1>11 DEF Output
  <2>2. outputs' \in 0 .. MaxOutputs
    BY <1>0, <2>1, BoundFacts
  <2>3. k # 0 /\ svc[k].st = "bound" => id \in Ids
    BY DEF TypeInv, ShellInv, ServiceInv, Services
  <2>4. k # 0 /\ svc[k].st = "bound" => Received(batch[id], size) \in Batches
    BY <1>0, <2>3, ReceivedFacts
  <2>5. size \in {"small", "large"}
    BY DEF Sizes
  <2>6. CASE UNCHANGED <<batch, burst>>
    BY <1>0, <2>2, <2>6, BatchMoves
  <2>7. CASE /\ k # 0 /\ svc[k].st = "bound"
             /\ batch' = [batch EXCEPT ![id] = Received(@, size)]
             /\ burst' = IF size = "large" THEN burst \union {id} ELSE burst
    BY <1>0, <2>2, <2>3, <2>4, <2>5, <2>7, OneBatch
  <2> QED BY <2>1, <2>6, <2>7
<1>12. ASSUME NEW id \in Ids, BatchTimer(id) PROVE BatchInv'
  <2>1. batch[id].timer = "armed" /\ batch' = [batch EXCEPT ![id] = AfterTimer(@)]
        /\ UNCHANGED <<outputs, burst>>
    BY <1>12 DEF BatchTimer, history
  <2>2. batch[id] \in Batches
    BY <1>0
  <2>3. AfterTimer(batch[id]) \in Batches
    BY <2>2, NoBatchFacts DEF AfterTimer, Batches
  <2> QED BY <1>0, <2>1, <2>3, OneBatch
<1>13. CASE UNCHANGED vars
  BY <1>13, <1>q DEF vars, history
<1> QED BY <1>1, <1>2, <1>3, <1>4, <1>5, <1>6, <1>7, <1>8, <1>9, <1>10, <1>11, <1>12, <1>13
        DEF Next

-----------------------------------------------------------------------------
(* What the steps do to the PtyServices and to the shells.                     *)

ServiceType == [id : Ids \union {<<>>}, via : Nat, pid : 0 .. MaxAttaches, st : States]

\* The PtyService k changes to the state st with the shell p, and no other does.
Becomes(k, st, p) ==
  /\ svc' \in [Services -> ServiceType]
  /\ svc'[k].id = svc[k].id /\ svc'[k].via = svc[k].via
  /\ svc'[k].pid = p /\ svc'[k].st = st
  /\ \A j \in Services : j # k => svc'[j] = svc[j]

LEMMA Services0 == 0 \notin Services /\ 0 \notin Pids /\ Services = 1 .. MaxAttaches
                   /\ Pids = 1 .. MaxAttaches
BY DEF Services, Pids

LEMMA ServiceTyped == ASSUME ServiceInv PROVE svc \in [Services -> ServiceType]
BY DEF ServiceInv, ServiceType

LEMMA ChangesState ==
  ASSUME ServiceInv, NEW k \in Services, NEW st \in States, svc' = [svc EXCEPT ![k].st = st]
  PROVE  Becomes(k, st, svc[k].pid)
<1>1. svc \in [Services -> ServiceType] /\ svc[k] \in ServiceType
  BY ServiceTyped
<1>2. [svc[k] EXCEPT !.st = st] \in ServiceType
      /\ [svc[k] EXCEPT !.st = st].id = svc[k].id /\ [svc[k] EXCEPT !.st = st].via = svc[k].via
      /\ [svc[k] EXCEPT !.st = st].pid = svc[k].pid /\ [svc[k] EXCEPT !.st = st].st = st
  BY <1>1 DEF ServiceType
<1>3. svc' = [svc EXCEPT ![k] = [svc[k] EXCEPT !.st = st]]
  OBVIOUS
<1>4. svc'[k] = [svc[k] EXCEPT !.st = st] /\ (\A j \in Services : j # k => svc'[j] = svc[j])
      /\ svc' \in [Services -> ServiceType]
  BY <1>1, <1>2, <1>3
<1> QED BY <1>2, <1>4 DEF Becomes

LEMMA ChangesBoth ==
  ASSUME ServiceInv, NEW k \in Services, NEW st \in States, NEW p \in 0 .. MaxAttaches,
         svc' = [svc EXCEPT ![k].st = st, ![k].pid = p]
  PROVE  Becomes(k, st, p)
<1> DEFINE r == [[svc[k] EXCEPT !.st = st] EXCEPT !.pid = p]
<1>1. svc \in [Services -> ServiceType] /\ svc[k] \in ServiceType
  BY ServiceTyped
<1>2. r \in ServiceType /\ r.id = svc[k].id /\ r.via = svc[k].via /\ r.pid = p /\ r.st = st
  BY <1>1 DEF ServiceType
<1>3. svc' = [svc EXCEPT ![k] = r]
  BY <1>1
<1> HIDE DEF r
<1>4. svc'[k] = r /\ (\A j \in Services : j # k => svc'[j] = svc[j])
      /\ svc' \in [Services -> ServiceType]
  BY <1>1, <1>2, <1>3
<1> QED BY <1>2, <1>4 DEF Becomes

\* Without a shell to resume the next one is spawned: there is room for it, as
\* there are no more shells than PtyServices that spawned one.
LEMMA NextShell ==
  ASSUME ServiceInv, ShellInv, NEW k \in Services, svc[k].st = "starting"
  PROVE  LET p == Cardinality(UsedShells) + 1 IN
         /\ p \in Pids /\ shell[p] = "none" /\ UsedShells = 1 .. (p - 1)
<1>1. PICK n \in 0 .. MaxAttaches : UsedShells = 1 .. n
  BY DEF ShellInv
<1>2. n \in Nat /\ Cardinality(UsedShells) = n
  BY <1>1, FS_Interval, BoundFacts
<1>3. Spawners \subseteq Services \ {k}
  BY DEF Spawners, ServiceInv
<1>4. IsFiniteSet(Services) /\ Cardinality(Services) = MaxAttaches
  <2>1. 1 \in Int /\ MaxAttaches \in Int /\ MaxAttaches >= 0
    BY BoundFacts
  <2>2. IsFiniteSet(1 .. MaxAttaches) /\ Cardinality(1 .. MaxAttaches) = MaxAttaches
    BY <2>1, FS_Interval
  <2> QED BY <2>2, Services0
<1>5. IsFiniteSet(Services \ {k}) /\ Cardinality(Services \ {k}) = MaxAttaches - 1
  BY <1>4, FS_RemoveElement
<1>6. IsFiniteSet(Spawners) /\ Cardinality(Spawners) <= MaxAttaches - 1
      /\ Cardinality(Spawners) \in Nat
  BY <1>3, <1>5, FS_Subset, FS_CardinalityType
<1>7. n <= MaxAttaches - 1
  BY <1>2, <1>6, BoundFacts DEF ShellInv
<1>8. n + 1 \in Pids /\ n + 1 \notin UsedShells
  BY <1>1, <1>2, <1>7, Services0, BoundFacts
<1>9. shell[n + 1] = "none"
  BY <1>8 DEF UsedShells
<1> QED BY <1>1, <1>2, <1>8, <1>9

\* A PtyService starts: what Spawned does, for the shell p, page c and session s.
Spawning(k, p, c, s) ==
  /\ c \in Clients /\ s \in Sessions /\ p \in Pids
  /\ svc[k].id = <<c, s>> /\ svc[k].st = "starting"
  /\ Becomes(k, "bound", p)
  /\ \/ p = session[s] /\ shell[p] = "alive" /\ shell' = shell
     \/ /\ shell[p] = "none" /\ UsedShells = 1 .. (p - 1)
        /\ session[s] # 0 => shell[session[s]] = "dead"
        /\ shell' = [shell EXCEPT ![p] = "alive"]
  /\ terms' = [terms EXCEPT ![<<c, s>>] = k]
  /\ session' = [session EXCEPT ![s] = p]
  /\ lease' = [lease EXCEPT ![s] = 0]
  /\ listener' = [q \in Pids |-> IF q = p THEN k
                                 ELSE IF q = session[s] THEN 0 ELSE listener[q]]
  /\ spoken' \subseteq spoken \union {p}
  /\ registered' = [registered EXCEPT ![c] = svc[k].via]
  /\ closing' = closing \ {c}
  /\ late' = IF c \in up THEN late ELSE late \union {c}
  /\ taken' = IF \E d \in Clients \ {c} : terms[<<d, s>>] # 0 THEN taken \union {s} ELSE taken
  /\ crossed' = crossed \ {s}
  /\ UNCHANGED <<browser, up, links, procs, outputs>>

LEMMA SpawnedDoes ==
  ASSUME TypeInv, NEW k \in Services, NEW size \in Sizes, Spawned(k, size)
  PROVE  \E p \in Pids, c \in Clients, s \in Sessions : Spawning(k, p, c, s)
<1> DEFINE c == svc[k].id[1]
           s == svc[k].id[2]
           old == session[s]
           resumes == old # 0 /\ Running(old)
           p == IF resumes THEN old ELSE Cardinality(UsedShells) + 1
<1>1. svc[k].st = "starting" /\ svc[k].id \in Ids
  BY DEF Spawned, TypeInv, ServiceInv
<1>2. c \in Clients /\ s \in Sessions /\ svc[k].id = <<c, s>>
  BY <1>1, IdFacts
<1>3. old \in 0 .. MaxAttaches /\ (old # 0 => shell[old] \in {"alive", "dead"})
  BY <1>2 DEF TypeInv, SessionInv
<1>4. IF resumes THEN p = old /\ shell[p] = "alive" /\ p \in Pids
      ELSE /\ p \in Pids /\ shell[p] = "none" /\ UsedShells = 1 .. (p - 1)
           /\ old # 0 => shell[old] = "dead"
  <2>1. CASE resumes
    BY <1>3, <2>1, Services0, BoundFacts DEF Running
  <2>2. CASE ~resumes
    <3>1. old # 0 => shell[old] = "dead"
      BY <1>3, <2>2 DEF Running
    <3>2. p = Cardinality(UsedShells) + 1
      BY <2>2
    <3> QED BY <1>1, <2>2, <3>1, <3>2, NextShell DEF TypeInv
  <2> QED BY <2>1, <2>2
<1>5. /\ svc' = [svc EXCEPT ![k].st = "bound", ![k].pid = p]
      /\ terms' = [terms EXCEPT ![svc[k].id] = k]
      /\ shell' = [shell EXCEPT ![p] = IF resumes THEN @ ELSE "alive"]
      /\ session' = [session EXCEPT ![s] = p]
      /\ lease' = [lease EXCEPT ![s] = 0]
      /\ listener' = [q \in Pids |-> IF q = p THEN k ELSE IF q = old THEN 0 ELSE listener[q]]
      /\ spoken' \subseteq spoken \union {p}
      /\ registered' = [registered EXCEPT ![c] = svc[k].via]
      /\ closing' = closing \ {c}
      /\ late' = IF c \in up THEN late ELSE late \union {c}
      /\ taken' = IF \E d \in Clients \ {c} : terms[<<d, s>>] # 0 THEN taken \union {s} ELSE taken
      /\ crossed' = crossed \ {s}
      /\ UNCHANGED <<browser, up, links, procs, outputs>>
  BY DEF Spawned, UsedShells, LeaseAfterSpawn, Rejoined
<1> HIDE DEF resumes
<1>6. p \in Pids /\ p \in 0 .. MaxAttaches
  BY <1>4, Services0, BoundFacts
<1> HIDE DEF p
<1>7. Becomes(k, "bound", p)
  <2>1. "bound" \in States
    BY DEF States
  <2> QED BY <1>5, <1>6, <2>1, ChangesBoth DEF TypeInv
<1>8. resumes => shell' = shell
  <2>1. shell \in [Pids -> Shells]
    BY DEF TypeInv, ShellInv
  <2> QED BY <1>5, <1>6, <2>1
<1>9. ~resumes => shell' = [shell EXCEPT ![p] = "alive"]
  BY <1>5
<1>10. Spawning(k, p, c, s)
  <2> HIDE DEF c, s
  <2> QED BY <1>1, <1>2, <1>4, <1>5, <1>6, <1>7, <1>8, <1>9 DEF Spawning, old
<1> QED BY <1>2, <1>6, <1>10

\* A shell ends while the PtyService k still listens to it.
Exiting(p, k) ==
  /\ k \in Services /\ k = listener[p] /\ svc[k].pid = p /\ svc[k].st = "bound"
  /\ svc[k].id \in Ids
  /\ Becomes(k, "disposed", p)
  /\ terms' = [terms EXCEPT ![svc[k].id] = 0]
  /\ procs' = [procs EXCEPT ![svc[k].id] = 0]
  /\ view' = view \/ view' = [view EXCEPT ![svc[k].id] = "closed"]
  /\ crossed' = IF terms[svc[k].id] \notin {0, k} THEN crossed \union {svc[k].id[2]}
                ELSE crossed

LEMMA ExitDoes ==
  ASSUME TypeInv, NEW p \in Pids, ExitEvent(p)
  PROVE  /\ \/ Exiting(p, listener[p])
            \/ /\ UNCHANGED <<svc, terms, procs, view, crossed>>
               /\ listener[p] = 0 \/ svc[listener[p]].st # "bound"
         /\ shell[p] = "dead" /\ shell' = [shell EXCEPT ![p] = "gone"]
         /\ session' = [s \in Sessions |->
              IF listener[p] # 0 /\ session[s] = p THEN 0 ELSE session[s]]
         /\ lease' = [s \in Sessions |->
              IF listener[p] # 0 /\ session[s] = p THEN 0 ELSE lease[s]]
         /\ listener' = [listener EXCEPT ![p] = 0]
         /\ spoken' \subseteq spoken
         /\ UNCHANGED <<page, clients, outputs, late, taken, burst>>
<1> DEFINE k == listener[p]
<1>1. k # 0 => k \in Services /\ svc[k].pid = p
  BY Services0, BoundFacts DEF TypeInv, ShellInv
<1>2. CASE k # 0 /\ svc[k].st = "bound"
  <2>1. /\ svc' = [svc EXCEPT ![k].st = "disposed"]
        /\ terms' = [terms EXCEPT ![svc[k].id] = 0]
        /\ procs' = [procs EXCEPT ![svc[k].id] = 0]
        /\ view' = view \/ view' = [view EXCEPT ![svc[k].id] = "closed"]
        /\ crossed' = IF terms[svc[k].id] \notin {0, k} THEN crossed \union {svc[k].id[2]}
                      ELSE crossed
    BY <1>2 DEF ExitEvent
  <2>2. "disposed" \in States /\ svc[k].id \in Ids
    BY <1>1, <1>2 DEF States, TypeInv, ServiceInv
  <2>3. Becomes(k, "disposed", p)
    BY <1>1, <1>2, <2>1, <2>2, ChangesState DEF TypeInv
  <2>4. Exiting(p, k)
    <3> k = listener[p]
      OBVIOUS
    <3> HIDE DEF k
    <3> QED BY <1>1, <1>2, <2>1, <2>2, <2>3 DEF Exiting
  <2> QED BY <2>4 DEF ExitEvent
<1>3. CASE ~(k # 0 /\ svc[k].st = "bound")
  <2>1. UNCHANGED <<svc, terms, procs, view, crossed>>
    BY <1>3 DEF ExitEvent
  <2> QED BY <1>3, <2>1 DEF ExitEvent
<1> QED BY <1>2, <1>3

-----------------------------------------------------------------------------
(* The pages and their connections.                                            *)

LEMMA ClientInit == Init => ClientInv
BY DEF Init, ClientInv

LEMMA ClientQuiet ==
  ASSUME ClientInv, UNCHANGED <<page, up, links, registered, closing, late, taken>>,
         view' \in [Ids -> {"none", "shown", "closed"}]
  PROVE  ClientInv'
BY DEF ClientInv

LEMMA ClientStep == TypeInv /\ [Next]_vars => ClientInv'
<1> SUFFICES ASSUME TypeInv, [Next]_vars PROVE ClientInv'
  OBVIOUS
<1>0. ClientInv /\ view \in [Ids -> {"none", "shown", "closed"}]
  BY DEF TypeInv, ClientInv
<1>q. ASSUME UNCHANGED <<page, view, up, links, registered, closing, late, taken>> PROVE ClientInv'
  BY <1>0, <1>q, ClientQuiet
<1>1. ASSUME NEW c \in Clients, Connect(c) PROVE ClientInv'
  <2>1. /\ page' = [page EXCEPT ![c] = "open"] /\ up' = up \union {c}
        /\ links' = [links EXCEPT ![c] = @ + 1]
        /\ registered' = [registered EXCEPT ![c] = links'[c]]
        /\ closing' = closing \ {c} /\ late' = late \ {c} /\ UNCHANGED <<view, taken>>
    BY <1>1 DEF Connect
  <2>2. links[c] \in Nat /\ links'[c] = links[c] + 1
    BY <1>0, <2>1 DEF ClientInv
  <2>3. links' \in [Clients -> Nat] /\ registered' \in [Clients -> Nat]
    BY <1>0, <2>1, <2>2 DEF ClientInv
  <2>4. \A d \in Clients : registered'[d] <= links'[d]
    BY <1>0, <2>1, <2>2 DEF ClientInv
  <2> QED BY <1>0, <2>1, <2>3, <2>4 DEF ClientInv
<1>2. ASSUME NEW c \in Clients, PageLeaves(c) PROVE ClientInv'
  BY <1>0, <1>2 DEF PageLeaves, ClientInv, clients, history
<1>3. ASSUME NEW c \in Clients, LinkLost(c) PROVE ClientInv'
  BY <1>0, <1>3 DEF LinkLost, ClientInv, browser, history
<1>4. ASSUME NEW c \in Clients, ClientExpires(c) PROVE ClientInv'
  <2>1. closing' = closing \ {c} /\ registered' = [registered EXCEPT ![c] = 0]
        /\ UNCHANGED <<page, view, up, links, late, taken>>
    BY <1>4 DEF ClientExpires, browser, history
  <2>2. registered' \in [Clients -> Nat] /\ \A d \in Clients : registered'[d] <= links'[d]
    BY <1>0, <2>1 DEF ClientInv
  <2> QED BY <1>0, <2>1, <2>2 DEF ClientInv
<1>5. ASSUME NEW c \in Clients, NEW s \in Sessions, DisposeById(c, s) PROVE ClientInv'
  BY <1>0, <1>5, ClientQuiet, IdFacts DEF DisposeById, clients, history
<1>6. ASSUME NEW c \in Clients, NEW s \in Sessions, NEW k \in Services, Attach(c, s, k)
      PROVE ClientInv'
  BY <1>0, <1>6, ClientQuiet DEF Attach, clients, history
<1>7. ASSUME NEW k \in Services, NEW size \in Sizes, Spawned(k, size) PROVE ClientInv'
  <2>1. PICK p \in Pids, c \in Clients, s \in Sessions : Spawning(k, p, c, s)
    BY <1>7, SpawnedDoes
  <2>2. /\ svc[k].id = <<c, s>> /\ svc[k].st = "starting"
        /\ registered' = [registered EXCEPT ![c] = svc[k].via]
        /\ closing' = closing \ {c} /\ late' \subseteq late \union {c}
        /\ taken' \subseteq taken \union {s} /\ UNCHANGED <<page, view, up, links>>
    BY <2>1 DEF Spawning, browser
  <2>3. svc[k].via \in Nat /\ svc[k].via <= links[c]
    <3>1. svc[k] \in ServiceType
      BY ServiceTyped DEF TypeInv
    <3>2. svc[k].via <= links[svc[k].id[1]]
      BY <2>2 DEF TypeInv, ServiceInv
    <3> QED BY <2>2, <3>1, <3>2 DEF ServiceType
  <2>4. registered' \in [Clients -> Nat] /\ \A d \in Clients : registered'[d] <= links'[d]
    BY <1>0, <2>2, <2>3 DEF ClientInv
  <2> QED BY <1>0, <2>2, <2>4 DEF ClientInv
<1>8. ASSUME NEW k \in Services, StartFails(k) PROVE ClientInv'
  <2>1. view' = view \/ view' = [view EXCEPT ![svc[k].id] = "none"]
    BY <1>8 DEF StartFails
  <2>2. view' \in [Ids -> {"none", "shown", "closed"}]
    BY <1>0, <2>1
  <2> QED BY <1>0, <1>8, <2>2, ClientQuiet DEF StartFails, clients, history
<1>9. CASE \E s \in Sessions : LeaseExpires(s)
  BY <1>9, <1>q DEF LeaseExpires, browser, clients, history
<1>10. CASE \E p \in Pids : ShellEnds(p)
  BY <1>10, <1>q DEF ShellEnds, browser, clients, history
<1>11. ASSUME NEW p \in Pids, ExitEvent(p) PROVE ClientInv'
  <2>1. UNCHANGED <<page, up, links, registered, closing, late, taken>>
        /\ (view' = view \/ view' = [view EXCEPT ![svc[listener[p]].id] = "closed"])
    BY <1>11, ExitDoes DEF clients, Exiting
  <2>2. view' \in [Ids -> {"none", "shown", "closed"}]
    BY <1>0, <2>1
  <2> QED BY <1>0, <2>1, <2>2, ClientQuiet
<1>12. CASE \E p \in Pids, size \in Sizes : Output(p, size)
  BY <1>12, <1>q DEF Output, browser, clients
<1>13. CASE \E id \in Ids : BatchTimer(id)
  BY <1>13, <1>q DEF BatchTimer, browser, clients, history
<1>14. CASE UNCHANGED vars
  BY <1>14, <1>q DEF vars, browser, clients, history
<1> QED BY <1>1, <1>2, <1>3, <1>4, <1>5, <1>6, <1>7, <1>8, <1>9, <1>10, <1>11, <1>12, <1>13, <1>14
        DEF Next

-----------------------------------------------------------------------------
(* The PtyServices.                                                            *)

LEMMA ServiceInit == Init => ServiceInv
<1> SUFFICES ASSUME Init PROVE ServiceInv
  OBVIOUS
<1>1. \A k \in Services : svc[k] = NoService
  BY DEF Init
<1>2. NoService \in ServiceType /\ NoService.st = "free" /\ NoService.pid = 0
  BY BoundFacts DEF NoService, ServiceType, States
<1>3. svc \in [Services -> ServiceType]
  BY <1>2 DEF Init
<1>4. UsedServices = 1 .. 0
  BY <1>1, <1>2 DEF UsedServices
<1>5. 0 \in 0 .. MaxAttaches
  BY BoundFacts
<1>7. \A k \in Services : /\ svc[k].st = "free" /\ svc[k].pid = 0
  BY <1>1, <1>2
<1> QED BY <1>3, <1>4, <1>5, <1>7 DEF ServiceInv, ServiceType

\* A step that starts no PtyService.
LEMMA ServiceKept ==
  ASSUME TypeInv, svc' \in [Services -> ServiceType],
         links' \in [Clients -> Nat], \A c \in Clients : links[c] <= links'[c],
         \A k \in Services :
           /\ svc'[k].id = svc[k].id /\ svc'[k].via = svc[k].via
           /\ svc'[k].st = "free" <=> svc[k].st = "free"
           /\ svc'[k].pid # 0 <=> svc'[k].st \in {"bound", "disposed"}
  PROVE  ServiceInv'
<1>0. ServiceInv
  BY DEF TypeInv
<1>1. UsedServices' = UsedServices
  BY DEF UsedServices
<1>3. ASSUME NEW k \in Services, svc'[k].st # "free"
      PROVE  svc'[k].id \in Ids /\ svc'[k].via <= links'[svc'[k].id[1]]
  <2>1. svc[k].id \in Ids /\ svc[k].via <= links[svc[k].id[1]]
    BY <1>0, <1>3 DEF ServiceInv
  <2>2. svc[k].id[1] \in Clients
    BY <2>1, IdFacts
  <2>3. svc[k].via \in Nat
    BY <1>0, ServiceTyped DEF ServiceType
  <2>4. links[svc[k].id[1]] \in Nat /\ links'[svc[k].id[1]] \in Nat
        /\ links[svc[k].id[1]] <= links'[svc[k].id[1]]
    BY <2>2 DEF TypeInv, ClientInv
  <2> QED BY <2>1, <2>3, <2>4
<1>4. \E n \in 0 .. MaxAttaches : UsedServices' = 1 .. n
  BY <1>0, <1>1 DEF ServiceInv
<1> QED BY <1>3, <1>4 DEF ServiceInv, ServiceType

LEMMA ServiceQuiet ==
  ASSUME TypeInv, UNCHANGED svc, ClientInv',
         \A c \in Clients : links[c] <= links'[c]
  PROVE  ServiceInv'
<1>1. ServiceInv /\ svc' \in [Services -> ServiceType] /\ links' \in [Clients -> Nat]
  BY ServiceTyped DEF TypeInv, ClientInv
<1> QED BY <1>1, ServiceKept DEF ServiceInv

LEMMA LinksKept == ASSUME TypeInv, UNCHANGED links
                   PROVE  links' \in [Clients -> Nat] /\ \A c \in Clients : links[c] <= links'[c]
BY DEF TypeInv, ClientInv

\* A PtyService changes its state.
LEMMA ServiceBecomes ==
  ASSUME TypeInv, NEW k \in Services, NEW st, NEW p, Becomes(k, st, p),
         UNCHANGED links,
         svc[k].st \in {"starting", "bound"}, st \in {"bound", "disposed", "failed"},
         p # 0 <=> st \in {"bound", "disposed"}
  PROVE  ServiceInv'
<1>0. ServiceInv
  BY DEF TypeInv
<1>1. /\ svc' \in [Services -> ServiceType]
      /\ svc'[k].id = svc[k].id /\ svc'[k].via = svc[k].via
      /\ svc'[k].pid = p /\ svc'[k].st = st
      /\ \A j \in Services : j # k => svc'[j] = svc[j]
  BY DEF Becomes
<1>2. \A j \in Services :
           /\ svc'[j].id = svc[j].id /\ svc'[j].via = svc[j].via
           /\ svc'[j].st = "free" <=> svc[j].st = "free"
           /\ svc'[j].pid # 0 <=> svc'[j].st \in {"bound", "disposed"}
  <2> SUFFICES ASSUME NEW j \in Services
               PROVE  /\ svc'[j].id = svc[j].id /\ svc'[j].via = svc[j].via
                      /\ svc'[j].st = "free" <=> svc[j].st = "free"
                      /\ svc'[j].pid # 0 <=> svc'[j].st \in {"bound", "disposed"}
    OBVIOUS
  <2>1. CASE j = k
    BY <1>1, <2>1
  <2>2. CASE j # k
    BY <1>0, <1>1, <2>2 DEF ServiceInv
  <2> QED BY <2>1, <2>2
<1> QED BY <1>1, <1>2, LinksKept, ServiceKept

LEMMA ServiceAttach ==
  ASSUME TypeInv, NEW c \in Clients, NEW s \in Sessions, NEW k \in Services, Attach(c, s, k)
  PROVE  /\ svc' \in [Services -> ServiceType]
         /\ svc[k].st = "free" /\ svc'[k].id = <<c, s>> /\ svc'[k].via = links[c]
         /\ svc'[k].pid = 0 /\ svc'[k].st = "starting"
         /\ \A j \in Services : j # k => svc'[j] = svc[j]
         /\ ServiceInv'
<1> DEFINE r == [id |-> <<c, s>>, via |-> links[c], pid |-> 0, st |-> "starting"]
<1>0. ServiceInv /\ svc \in [Services -> ServiceType]
  BY ServiceTyped DEF TypeInv
<1>1. /\ k = Cardinality(UsedServices) + 1
      /\ svc' = [svc EXCEPT ![k] = r] /\ UNCHANGED links
  BY DEF Attach, UsedServices, clients
<1>2. PICK n \in 0 .. MaxAttaches : UsedServices = 1 .. n
  BY <1>0 DEF ServiceInv
<1>3. n \in Nat /\ Cardinality(UsedServices) = n
  BY <1>2, FS_Interval, BoundFacts
<1>4. k = n + 1 /\ k \notin UsedServices
  BY <1>1, <1>2, <1>3
<1>5. svc[k].st = "free"
  BY <1>4 DEF UsedServices
<1>6. links[c] \in Nat /\ <<c, s>> \in Ids /\ <<c, s>>[1] = c
  BY IdFacts DEF TypeInv, ClientInv
<1>7. r \in ServiceType /\ r.id = <<c, s>> /\ r.via = links[c] /\ r.pid = 0 /\ r.st = "starting"
  BY <1>6, BoundFacts DEF ServiceType, States
<1> HIDE DEF r
<1>8. /\ svc' \in [Services -> ServiceType] /\ svc'[k] = r
      /\ \A j \in Services : j # k => svc'[j] = svc[j]
  BY <1>0, <1>1, <1>7
<1>9. UsedServices' = 1 .. (n + 1)
  <2>1. \A j \in Services : j \in UsedServices' <=> j \in UsedServices \/ j = k
    BY <1>7, <1>8 DEF UsedServices
  <2>2. UsedServices' = UsedServices \union {k}
    BY <2>1 DEF UsedServices
  <2> QED BY <1>2, <1>3, <1>4, <2>2
<1>10. n + 1 \in 0 .. MaxAttaches
  BY <1>3, <1>4, Services0, BoundFacts
<1>11. ASSUME NEW j \in Services
       PROVE  /\ svc'[j].st # "free" => svc'[j].id \in Ids /\ svc'[j].via <= links'[svc'[j].id[1]]
              /\ svc'[j].pid # 0 <=> svc'[j].st \in {"bound", "disposed"}
  <2>1. CASE j = k
    BY <1>1, <1>6, <1>7, <1>8, <2>1
  <2>2. CASE j # k
    BY <1>0, <1>1, <1>8, <2>2 DEF ServiceInv
  <2> QED BY <2>1, <2>2
<1>12. ServiceInv'
  BY <1>8, <1>9, <1>10, <1>11 DEF ServiceInv, ServiceType
<1> QED BY <1>5, <1>7, <1>8, <1>12

\* The services released by the end of a client.
Released(c) == {terms[<<c, s>>] : s \in Terminals(c) \ Transient}

LEMMA ExpireServices ==
  ASSUME TypeInv, NEW c \in Clients, ClientExpires(c)
  PROVE  /\ svc' \in [Services -> ServiceType]
         /\ \A k \in Services :
              /\ svc'[k].id = svc[k].id /\ svc'[k].via = svc[k].via /\ svc'[k].pid = svc[k].pid
              /\ k \in Released(c) => svc[k].st = "bound" /\ svc'[k].st = "disposed"
              /\ k \notin Released(c) => svc'[k] = svc[k]
<1>1. svc \in [Services -> ServiceType]
  BY ServiceTyped DEF TypeInv
<1>2. svc' = [k \in Services |-> IF k \in Released(c) THEN [svc[k] EXCEPT !.st = "disposed"]
                                 ELSE svc[k]]
  BY DEF ClientExpires, Released
<1>3. ASSUME NEW k \in Services
      PROVE  /\ svc'[k] \in ServiceType
             /\ svc'[k].id = svc[k].id /\ svc'[k].via = svc[k].via /\ svc'[k].pid = svc[k].pid
             /\ k \in Released(c) => svc'[k].st = "disposed"
             /\ k \notin Released(c) => svc'[k] = svc[k]
  <2>1. svc[k] \in ServiceType
    BY <1>1
  <2>2. CASE k \in Released(c)
    <3>1. svc'[k] = [svc[k] EXCEPT !.st = "disposed"]
      BY <1>2, <2>2
    <3> QED BY <2>1, <2>2, <3>1 DEF ServiceType, States
  <2>3. CASE k \notin Released(c)
    BY <1>2, <2>1, <2>3
  <2> QED BY <2>2, <2>3
<1>4. ASSUME NEW k \in Services, k \in Released(c) PROVE svc[k].st = "bound"
  <2>1. PICK s \in Sessions : k = terms[<<c, s>>] /\ terms[<<c, s>>] # 0
    BY <1>4 DEF Released, Terminals
  <2> QED BY <2>1, IdFacts DEF TypeInv, MapInv
<1>5. svc' \in [Services -> ServiceType]
  BY <1>2, <1>3
<1> QED BY <1>3, <1>4, <1>5

LEMMA ServiceStep == TypeInv /\ [Next]_vars => ServiceInv'
<1> SUFFICES ASSUME TypeInv, [Next]_vars PROVE ServiceInv'
  OBVIOUS
<1>0. ClientInv' /\ ServiceInv
  BY ClientStep DEF TypeInv
<1>q. ASSUME UNCHANGED <<svc, links>> PROVE ServiceInv'
  BY <1>0, <1>q, LinksKept, ServiceQuiet
<1>1. ASSUME NEW c \in Clients, Connect(c) PROVE ServiceInv'
  <2>1. UNCHANGED svc /\ links' = [links EXCEPT ![c] = @ + 1]
    BY <1>1 DEF Connect, services
  <2>2. links \in [Clients -> Nat]
    BY DEF TypeInv, ClientInv
  <2>3. \A d \in Clients : links[d] <= links'[d]
    BY <2>1, <2>2
  <2> QED BY <1>0, <2>1, <2>3, ServiceQuiet
<1>2. CASE \E c \in Clients : PageLeaves(c) \/ LinkLost(c)
  BY <1>2, <1>q DEF PageLeaves, LinkLost, clients, services
<1>4. ASSUME NEW c \in Clients, ClientExpires(c) PROVE ServiceInv'
  <2>1. UNCHANGED links
    BY <1>4 DEF ClientExpires
  <2>2. \A k \in Services : svc[k].pid # 0 <=> svc[k].st \in {"bound", "disposed"}
    BY <1>0 DEF ServiceInv
  <2> QED BY <1>4, <2>1, <2>2, ExpireServices, LinksKept, ServiceKept
<1>5. CASE \E c \in Clients, s \in Sessions : DisposeById(c, s)
  BY <1>5, <1>q DEF DisposeById, clients, services
<1>6. ASSUME NEW c \in Clients, NEW s \in Sessions, NEW k \in Services, Attach(c, s, k)
      PROVE ServiceInv'
  BY <1>6, ServiceAttach
<1>7. ASSUME NEW k \in Services, NEW size \in Sizes, Spawned(k, size) PROVE ServiceInv'
  <2>1. PICK p \in Pids, c \in Clients, s \in Sessions : Spawning(k, p, c, s)
    BY <1>7, SpawnedDoes
  <2>2. Becomes(k, "bound", p) /\ svc[k].st = "starting" /\ UNCHANGED links /\ p # 0
    BY <2>1, Services0 DEF Spawning
  <2> QED BY <2>2, ServiceBecomes
<1>8. ASSUME NEW k \in Services, StartFails(k) PROVE ServiceInv'
  <2>1. /\ svc[k].st = "starting" /\ svc' = [svc EXCEPT ![k].st = "failed"] /\ UNCHANGED links
    BY <1>8 DEF StartFails, clients
  <2>2. Becomes(k, "failed", svc[k].pid) /\ svc[k].pid = 0
    BY <1>0, <2>1, ChangesState DEF States, ServiceInv
  <2> QED BY <2>1, <2>2, ServiceBecomes
<1>9. CASE \E s \in Sessions : LeaseExpires(s)
  BY <1>9, <1>q DEF LeaseExpires, clients, services
<1>10. CASE \E p \in Pids : ShellEnds(p)
  BY <1>10, <1>q DEF ShellEnds, clients, services
<1>11. ASSUME NEW p \in Pids, ExitEvent(p) PROVE ServiceInv'
  <2>1. UNCHANGED links /\ (UNCHANGED svc \/ Exiting(p, listener[p]))
    BY <1>11, ExitDoes DEF clients
  <2>2. ASSUME Exiting(p, listener[p]) PROVE ServiceInv'
    <3>1. /\ listener[p] \in Services /\ svc[listener[p]].st = "bound"
          /\ Becomes(listener[p], "disposed", p) /\ p # 0
      BY <2>2, Services0 DEF Exiting
    <3> QED BY <2>1, <3>1, ServiceBecomes
  <2> QED BY <1>q, <2>1, <2>2
<1>12. CASE \E p \in Pids, size \in Sizes : Output(p, size)
  BY <1>12, <1>q DEF Output, clients, services
<1>13. CASE \E id \in Ids : BatchTimer(id)
  BY <1>13, <1>q DEF BatchTimer, clients, services
<1>14. CASE UNCHANGED vars
  BY <1>14, <1>q DEF vars, clients, services
<1> QED BY <1>1, <1>2, <1>4, <1>5, <1>6, <1>7, <1>8, <1>9, <1>10, <1>11, <1>12, <1>13, <1>14
        DEF Next

-----------------------------------------------------------------------------
(* The maps of the server.                                                     *)

LEMMA MapInit == Init => MapInv
BY BoundFacts DEF Init, MapInv

LEMMA MapFacts ==
  ASSUME MapInv, NEW id \in Ids
  PROVE  /\ terms[id] # 0 => terms[id] \in Services /\ svc[terms[id]].id = id
                             /\ svc[terms[id]].st = "bound"
         /\ procs[id] # 0 => procs[id] \in Services /\ svc[procs[id]].id = id
                             /\ svc[procs[id]].st # "free"
BY Services0, BoundFacts DEF MapInv

\* A step that only takes entries away, and changes no PtyService of an entry
\* that stays.
LEMMA MapKept ==
  ASSUME MapInv, terms' \in [Ids -> 0 .. MaxAttaches], procs' \in [Ids -> 0 .. MaxAttaches],
         \A k \in Services : svc'[k].id = svc[k].id /\ (svc[k].st # "free" => svc'[k].st # "free"),
         \A id \in Ids : terms'[id] # 0 => terms'[id] = terms[id]
                                           /\ svc'[terms[id]].st = svc[terms[id]].st,
         \A id \in Ids : procs'[id] # 0 => procs'[id] = procs[id]
  PROVE  MapInv'
<1>1. ASSUME NEW id \in Ids
      PROVE  /\ terms'[id] # 0 => svc'[terms'[id]].id = id /\ svc'[terms'[id]].st = "bound"
             /\ procs'[id] # 0 => svc'[procs'[id]].id = id /\ svc'[procs'[id]].st # "free"
  BY MapFacts
<1> QED BY <1>1 DEF MapInv

LEMMA MapStep == TypeInv /\ [Next]_vars => MapInv'
<1> SUFFICES ASSUME TypeInv, [Next]_vars PROVE MapInv'
  OBVIOUS
<1>0. /\ MapInv /\ ServiceInv /\ terms \in [Ids -> 0 .. MaxAttaches]
      /\ procs \in [Ids -> 0 .. MaxAttaches]
  BY DEF TypeInv, MapInv
<1>q. ASSUME UNCHANGED services PROVE MapInv'
  BY <1>0, <1>q DEF services, MapInv
<1>1. CASE \E c \in Clients : Connect(c)
  BY <1>1, <1>q DEF Connect
<1>2. CASE \E c \in Clients : PageLeaves(c) \/ LinkLost(c)
  BY <1>2, <1>q DEF PageLeaves, LinkLost
<1>3. ASSUME NEW c \in Clients, ClientExpires(c) PROVE MapInv'
  <2>1. /\ procs' = [id \in Ids |-> IF id[1] = c /\ id[2] \in Terminals(c) THEN 0
                                    ELSE procs[id]]
        /\ terms' = [id \in Ids |-> IF id[1] = c THEN 0 ELSE terms[id]]
    BY <1>3 DEF ClientExpires
  <2>2. terms' \in [Ids -> 0 .. MaxAttaches] /\ procs' \in [Ids -> 0 .. MaxAttaches]
        /\ \A id \in Ids : procs'[id] # 0 => procs'[id] = procs[id]
    BY <1>0, <2>1, BoundFacts
  <2>3. \A k \in Services : svc'[k].id = svc[k].id /\ (svc[k].st # "free" => svc'[k].st # "free")
    BY <1>3, ExpireServices
  <2>4. ASSUME NEW id \in Ids, terms'[id] # 0
        PROVE  terms'[id] = terms[id] /\ svc'[terms[id]].st = svc[terms[id]].st
    <3>1. id[1] # c /\ terms'[id] = terms[id]
      BY <2>1, <2>4
    <3>2. terms[id] \in Services /\ svc[terms[id]].id = id
      BY <1>0, <2>4, <3>1, MapFacts
    <3>3. terms[id] \notin Released(c)
      <4> SUFFICES ASSUME NEW s \in Sessions, terms[<<c, s>>] # 0, terms[id] = terms[<<c, s>>]
                   PROVE  FALSE
        BY DEF Released, Terminals
      <4>1. <<c, s>> \in Ids /\ <<c, s>>[1] = c
        BY IdFacts
      <4>2. svc[terms[id]].id = <<c, s>>
        BY <1>0, <4>1, MapFacts
      <4> QED BY <3>1, <3>2, <4>1, <4>2
    <3> QED BY <1>3, <3>1, <3>2, <3>3, ExpireServices
  <2> QED BY <1>0, <2>2, <2>3, <2>4, MapKept
<1>4. CASE \E c \in Clients, s \in Sessions : DisposeById(c, s)
  BY <1>4, <1>q DEF DisposeById
<1>5. ASSUME NEW c \in Clients, NEW s \in Sessions, NEW k \in Services, Attach(c, s, k)
      PROVE  MapInv'
  <2>1. procs' = [procs EXCEPT ![<<c, s>>] = k] /\ terms' = terms /\ <<c, s>> \in Ids
    BY <1>5, IdFacts DEF Attach
  <2>2. /\ svc[k].st = "free" /\ svc'[k].id = <<c, s>> /\ svc'[k].st = "starting"
        /\ \A j \in Services : j # k => svc'[j] = svc[j]
    BY <1>5, ServiceAttach
  <2>3. k \in 0 .. MaxAttaches
    BY Services0, BoundFacts
  <2>4. procs' \in [Ids -> 0 .. MaxAttaches] /\ procs'[<<c, s>>] = k
        /\ \A id \in Ids : id # <<c, s>> => procs'[id] = procs[id]
    BY <1>0, <2>1, <2>3
  <2>5. ASSUME NEW id \in Ids
        PROVE  /\ terms'[id] # 0 => svc'[terms'[id]].id = id /\ svc'[terms'[id]].st = "bound"
               /\ procs'[id] # 0 => svc'[procs'[id]].id = id /\ svc'[procs'[id]].st # "free"
    <3>1. terms'[id] # 0 => svc'[terms'[id]].id = id /\ svc'[terms'[id]].st = "bound"
      BY <1>0, <2>1, <2>2, MapFacts
    <3>2. CASE id = <<c, s>>
      BY <2>2, <2>4, <3>1, <3>2
    <3>3. CASE id # <<c, s>>
      BY <1>0, <2>2, <2>4, <3>1, <3>3, MapFacts
    <3> QED BY <3>2, <3>3
  <2> QED BY <1>0, <2>1, <2>4, <2>5 DEF MapInv
<1>6. ASSUME NEW k \in Services, NEW size \in Sizes, Spawned(k, size) PROVE MapInv'
  <2>1. PICK p \in Pids, c \in Clients, s \in Sessions : Spawning(k, p, c, s)
    BY <1>6, SpawnedDoes
  <2>2. /\ svc[k].id = <<c, s>> /\ svc[k].st = "starting" /\ UNCHANGED procs
        /\ svc'[k].id = svc[k].id /\ svc'[k].st = "bound"
        /\ \A j \in Services : j # k => svc'[j] = svc[j]
        /\ terms' = [terms EXCEPT ![<<c, s>>] = k]
    BY <2>1 DEF Spawning, Becomes
  <2>3. <<c, s>> \in Ids /\ k \in 0 .. MaxAttaches
    BY IdFacts, Services0, BoundFacts
  <2>4. terms' \in [Ids -> 0 .. MaxAttaches] /\ terms'[<<c, s>>] = k
        /\ \A id \in Ids : id # <<c, s>> => terms'[id] = terms[id]
    BY <1>0, <2>2, <2>3
  <2>5. ASSUME NEW id \in Ids
        PROVE  /\ terms'[id] # 0 => svc'[terms'[id]].id = id /\ svc'[terms'[id]].st = "bound"
               /\ procs'[id] # 0 => svc'[procs'[id]].id = id /\ svc'[procs'[id]].st # "free"
    <3>1. procs'[id] # 0 => svc'[procs'[id]].id = id /\ svc'[procs'[id]].st # "free"
      BY <1>0, <2>2, MapFacts
    <3>2. CASE id = <<c, s>>
      BY <2>2, <2>4, <3>1, <3>2
    <3>3. CASE id # <<c, s>>
      BY <1>0, <2>2, <2>4, <3>1, <3>3, MapFacts
    <3> QED BY <3>2, <3>3
  <2> QED BY <1>0, <2>2, <2>4, <2>5 DEF MapInv
<1>7. ASSUME NEW k \in Services, StartFails(k) PROVE MapInv'
  <2>1. svc[k].st = "starting" /\ svc' = [svc EXCEPT ![k].st = "failed"]
        /\ UNCHANGED <<terms, procs>>
    BY <1>7 DEF StartFails
  <2>2. Becomes(k, "failed", svc[k].pid)
    BY <1>0, <2>1, ChangesState DEF States
  <2>3. \A j \in Services : svc'[j].id = svc[j].id /\ (svc[j].st # "free" => svc'[j].st # "free")
    BY <2>2 DEF Becomes
  <2>4. \A id \in Ids : terms'[id] # 0 => svc'[terms[id]].st = svc[terms[id]].st
    BY <1>0, <2>1, <2>2, MapFacts DEF Becomes
  <2> QED BY <1>0, <2>1, <2>3, <2>4, MapKept
<1>8. CASE \E s \in Sessions : LeaseExpires(s)
  BY <1>8, <1>q DEF LeaseExpires
<1>9. CASE \E p \in Pids : ShellEnds(p)
  BY <1>9, <1>q DEF ShellEnds
<1>10. ASSUME NEW p \in Pids, ExitEvent(p) PROVE MapInv'
  <2>1. CASE UNCHANGED <<svc, terms, procs>>
    BY <2>1, <1>q DEF services
  <2>2. CASE Exiting(p, listener[p])
    <3> DEFINE k == listener[p]
    <3>1. /\ k \in Services /\ svc[k].id \in Ids /\ svc[k].st = "bound"
          /\ svc'[k].id = svc[k].id /\ svc'[k].st = "disposed"
          /\ \A j \in Services : j # k => svc'[j] = svc[j]
          /\ terms' = [terms EXCEPT ![svc[k].id] = 0]
          /\ procs' = [procs EXCEPT ![svc[k].id] = 0]
      BY <2>2 DEF Exiting, Becomes
    <3> HIDE DEF k
    <3>2. /\ terms' \in [Ids -> 0 .. MaxAttaches] /\ procs' \in [Ids -> 0 .. MaxAttaches]
          /\ \A id \in Ids : terms'[id] # 0 => terms'[id] = terms[id] /\ id # svc[k].id
          /\ \A id \in Ids : procs'[id] # 0 => procs'[id] = procs[id]
      BY <1>0, <3>1, BoundFacts
    <3>3. \A j \in Services : svc'[j].id = svc[j].id /\ (svc[j].st # "free" => svc'[j].st # "free")
      BY <3>1
    <3>4. \A id \in Ids : terms'[id] # 0 => svc'[terms[id]].st = svc[terms[id]].st
      BY <1>0, <3>1, <3>2, MapFacts
    <3> QED BY <1>0, <3>2, <3>3, <3>4, MapKept
  <2> QED BY <1>10, <2>1, <2>2, ExitDoes
<1>11. CASE \E p \in Pids, size \in Sizes : Output(p, size)
  BY <1>11, <1>q DEF Output
<1>12. CASE \E id \in Ids : BatchTimer(id)
  BY <1>12, <1>q DEF BatchTimer
<1>13. CASE UNCHANGED vars
  BY <1>13, <1>q DEF vars
<1> QED BY <1>1, <1>2, <1>3, <1>4, <1>5, <1>6, <1>7, <1>8, <1>9, <1>10, <1>11, <1>12, <1>13
        DEF Next

-----------------------------------------------------------------------------
(* The shells.                                                                 *)

LEMMA ShellInit == Init => ShellInv
<1> SUFFICES ASSUME Init PROVE ShellInv
  OBVIOUS
<1>1. \A k \in Services : svc[k].pid = 0
  BY DEF Init, NoService
<1>2. shell \in [Pids -> Shells] /\ listener \in [Pids -> 0 .. MaxAttaches] /\ spoken = {}
      /\ \A p \in Pids : shell[p] = "none" /\ listener[p] = 0
  BY BoundFacts DEF Init, Shells
<1>3. UsedShells = {} /\ Spawners = {}
  BY <1>1, <1>2 DEF UsedShells, Spawners
<1>4. UsedShells = 1 .. 0 /\ 0 \in 0 .. MaxAttaches
  BY <1>3, BoundFacts
<1>5. Cardinality(UsedShells) <= Cardinality(Spawners)
  BY <1>3, FS_EmptySet
<1> QED BY <1>1, <1>2, <1>4, <1>5 DEF ShellInv

\* A step that spawns no shell.
LEMMA ShellKept ==
  ASSUME ShellInv, ServiceInv, shell' \in [Pids -> Shells],
         \A p \in Pids : shell'[p] = "none" <=> shell[p] = "none",
         listener' \in [Pids -> 0 .. MaxAttaches],
         \A p \in Pids : listener'[p] # 0 => listener'[p] = listener[p],
         spoken' \subseteq UsedShells,
         \A k \in Services : svc'[k].pid = svc[k].pid
                             /\ (svc[k].pid # 0 => svc'[k].id = svc[k].id)
  PROVE  ShellInv'
<1>1. UsedShells' = UsedShells /\ Spawners' = Spawners
  BY DEF UsedShells, Spawners
<1>2. (\E n \in 0 .. MaxAttaches : UsedShells = 1 .. n)
      /\ Cardinality(UsedShells) <= Cardinality(Spawners)
  BY DEF ShellInv
<1>3. ASSUME NEW k \in Services, svc[k].pid # 0
      PROVE  svc[k].pid \in Pids /\ shell[svc[k].pid] # "none"
  <2>1. svc[k].pid \in 0 .. MaxAttaches
    BY ServiceTyped DEF ServiceType
  <2> QED BY <1>3, <2>1, Services0, BoundFacts DEF ShellInv
<1>4. \A k \in Services : svc'[k].pid # 0 => shell'[svc'[k].pid] # "none"
  BY <1>3
<1>5. \A j, k \in Services : svc'[j].pid # 0 /\ svc'[j].pid = svc'[k].pid
                               => svc'[j].id[2] = svc'[k].id[2]
  <2> SUFFICES ASSUME NEW j \in Services, NEW k \in Services,
                      svc'[j].pid # 0, svc'[j].pid = svc'[k].pid
               PROVE  svc'[j].id[2] = svc'[k].id[2]
    OBVIOUS
  <2>1. svc[j].pid # 0 /\ svc[j].pid = svc[k].pid
    OBVIOUS
  <2>2. svc'[j].id = svc[j].id /\ svc'[k].id = svc[k].id
    BY <2>1
  <2>3. svc[j].id[2] = svc[k].id[2]
    BY <2>1 DEF ShellInv
  <2> QED BY <2>2, <2>3
<1>6. \A p \in Pids : listener'[p] # 0 => svc'[listener'[p]].pid = p
  BY Services0, BoundFacts DEF ShellInv
<1> QED BY <1>1, <1>2, <1>4, <1>5, <1>6 DEF ShellInv

LEMMA KilledFacts ==
  ASSUME shell \in [Pids -> Shells], NEW P,
         shell' = [p \in Pids |-> IF p \in P /\ shell[p] = "alive" THEN "killed" ELSE shell[p]]
  PROVE  /\ shell' \in [Pids -> Shells]
         /\ \A p \in Pids : shell'[p] = "none" <=> shell[p] = "none"
BY DEF Shells

\* A shell has one session.
LEMMA ShellSession ==
  ASSUME ShellInv, SessionInv, NEW k \in Services, NEW s \in Sessions,
         session[s] # 0, svc[k].pid = session[s]
  PROVE  svc[k].id[2] = s
<1>1. session[s] \in Pids
  BY Services0, BoundFacts DEF SessionInv
<1>2. listener[session[s]] \in Services /\ svc[listener[session[s]]].id[2] = s
      /\ svc[listener[session[s]]].pid = session[s]
  BY <1>1, Services0, BoundFacts DEF SessionInv, ShellInv
<1> QED BY <1>2 DEF ShellInv

LEMMA ShellSpawned ==
  ASSUME TypeInv, NEW k \in Services, NEW p \in Pids, NEW c \in Clients, NEW s \in Sessions,
         Spawning(k, p, c, s)
  PROVE  ShellInv'
<1>0. ShellInv /\ ServiceInv /\ SessionInv /\ shell \in [Pids -> Shells]
      /\ listener \in [Pids -> 0 .. MaxAttaches] /\ p \in 1 .. MaxAttaches
  BY Services0 DEF TypeInv, ShellInv
<1>1. /\ svc[k].id = <<c, s>> /\ svc[k].pid = 0
      /\ svc'[k].id = <<c, s>> /\ svc'[k].pid = p /\ <<c, s>>[2] = s
      /\ \A j \in Services : j # k => svc'[j] = svc[j]
  BY <1>0 DEF Spawning, Becomes, ServiceInv
<1>2. /\ listener' = [q \in Pids |-> IF q = p THEN k
                                     ELSE IF q = session[s] THEN 0 ELSE listener[q]]
      /\ spoken' \subseteq spoken \union {p}
  BY DEF Spawning
<1>3. listener' \in [Pids -> 0 .. MaxAttaches] /\ listener'[p] = k
      /\ \A q \in Pids : q # p /\ listener'[q] # 0 => listener'[q] = listener[q]
  BY <1>0, <1>2, Services0, BoundFacts
<1>4. ASSUME NEW q \in Pids, listener'[q] # 0 PROVE svc'[listener'[q]].pid = q
  <2>1. CASE q = p
    BY <1>1, <1>3, <2>1
  <2>2. CASE q # p
    <3>1. listener'[q] = listener[q] /\ listener[q] \in Services /\ svc[listener[q]].pid = q
      BY <1>0, <1>3, <1>4, <2>2, Services0, BoundFacts DEF ShellInv
    <3> QED BY <1>1, <3>1, Services0
  <2> QED BY <2>1, <2>2
<1>5. ASSUME NEW j \in Services, j # k, svc[j].pid # 0
      PROVE  svc[j].pid \in Pids /\ shell[svc[j].pid] # "none"
  <2>1. svc[j].pid \in 0 .. MaxAttaches
    BY <1>0, ServiceTyped DEF ServiceType
  <2> QED BY <1>0, <1>5, <2>1, Services0, BoundFacts DEF ShellInv
<1>6. Spawners' = Spawners \union {k} /\ k \notin Spawners
  <2>1. \A j \in Services : j \in Spawners' <=> j \in Spawners \/ j = k
    BY <1>1, Services0 DEF Spawners
  <2>2. Spawners' \subseteq Services /\ Spawners \subseteq Services
    BY DEF Spawners
  <2>3. k \notin Spawners
    BY <1>1 DEF Spawners
  <2> QED BY <2>1, <2>2, <2>3
<1>7. IsFiniteSet(Spawners) /\ Cardinality(Spawners) \in Nat
      /\ Cardinality(Spawners') = Cardinality(Spawners) + 1
  <2>1. IsFiniteSet(1 .. MaxAttaches)
    BY BoundFacts, FS_Interval
  <2>2. IsFiniteSet(Spawners)
    BY <2>1, Services0, FS_Subset DEF Spawners
  <2> QED BY <1>6, <2>2, FS_AddElement, FS_CardinalityType
<1>8. PICK n \in 0 .. MaxAttaches : UsedShells = 1 .. n
  BY <1>0 DEF ShellInv
<1>9. n \in Nat /\ Cardinality(UsedShells) = n /\ n <= Cardinality(Spawners)
  <2>1. 1 \in Int /\ n \in Int /\ n >= 0
    BY BoundFacts
  <2>2. Cardinality(1 .. n) = n
    BY <2>1, FS_Interval
  <2> QED BY <1>0, <1>8, <2>1, <2>2 DEF ShellInv
<1>10. CASE p = session[s] /\ shell[p] = "alive" /\ shell' = shell
  <2>1. UsedShells' = UsedShells /\ p \in UsedShells
    BY <1>10, Services0, BoundFacts DEF UsedShells
  <2>2. Cardinality(UsedShells') <= Cardinality(Spawners')
    BY <1>7, <1>9, <2>1
  <2>3. spoken' \subseteq UsedShells'
    BY <1>0, <1>2, <2>1 DEF ShellInv
  <2>4. \A j \in Services : svc'[j].pid # 0 => shell'[svc'[j].pid] # "none"
    BY <1>1, <1>5, <1>10
  <2>5. \A j \in Services : j # k /\ svc[j].pid = p => svc[j].id[2] = s
    BY <1>0, <1>10, ShellSession, Services0
  <2>6. ASSUME NEW i \in Services, NEW j \in Services, svc'[i].pid # 0, svc'[i].pid = svc'[j].pid
        PROVE  svc'[i].id[2] = svc'[j].id[2]
    <3>1. CASE i # k /\ j # k
      BY <1>0, <1>1, <2>6, <3>1 DEF ShellInv
    <3>2. CASE i = k \/ j = k
      BY <1>1, <2>5, <2>6, <3>2
    <3> QED BY <3>1, <3>2
  <2> QED BY <1>0, <1>3, <1>4, <1>8, <1>10, <2>1, <2>2, <2>3, <2>4, <2>6 DEF ShellInv
<1>11. CASE /\ shell[p] = "none" /\ UsedShells = 1 .. (p - 1)
            /\ shell' = [shell EXCEPT ![p] = "alive"]
  <2>1. shell' \in [Pids -> Shells] /\ shell'[p] = "alive"
        /\ \A q \in Pids : q # p => shell'[q] = shell[q]
    BY <1>0, <1>11 DEF Shells
  <2>2. UsedShells' = UsedShells \union {p}
    BY <2>1 DEF UsedShells
  <2>3. UsedShells' = 1 .. p /\ p \in Nat
    BY <1>0, <1>11, <2>2, BoundFacts
  <2>4. Cardinality(UsedShells') = p /\ Cardinality(UsedShells) = p - 1
    <3>1. Cardinality(1 .. p) = p
      <4>1. 1 \in Int /\ p \in Int /\ p >= 0
        BY <2>3
      <4> QED BY <4>1, <2>3, FS_Interval
    <3>2. Cardinality(1 .. (p - 1)) = p - 1
      <4>1. 1 \in Int /\ (p - 1) \in Int /\ p - 1 >= 0
        BY <1>0, BoundFacts
      <4> QED BY <4>1, <1>0, BoundFacts, FS_Interval
    <3> QED BY <1>11, <2>3, <3>1, <3>2
  <2>5. Cardinality(UsedShells') <= Cardinality(Spawners')
    BY <1>7, <1>9, <2>3, <2>4
  <2>6. p \in 0 .. MaxAttaches /\ \E m \in 0 .. MaxAttaches : UsedShells' = 1 .. m
    BY <1>0, <2>3, BoundFacts
  <2>7. spoken' \subseteq UsedShells'
    BY <1>0, <1>2, <2>2 DEF ShellInv
  <2>8. \A j \in Services : svc'[j].pid # 0 => shell'[svc'[j].pid] # "none"
    BY <1>1, <1>5, <2>1
  <2>9. \A j \in Services : j # k => svc[j].pid # p
    BY <1>0, <1>5, <1>11, Services0
  <2>10. ASSUME NEW i \in Services, NEW j \in Services, svc'[i].pid # 0, svc'[i].pid = svc'[j].pid
         PROVE  svc'[i].id[2] = svc'[j].id[2]
    BY <1>0, <1>1, <2>9, <2>10 DEF ShellInv
  <2> QED BY <1>3, <1>4, <2>1, <2>5, <2>6, <2>7, <2>8, <2>10 DEF ShellInv
<1> QED BY <1>10, <1>11 DEF Spawning

LEMMA ShellStep == TypeInv /\ [Next]_vars => ShellInv'
<1> SUFFICES ASSUME TypeInv, [Next]_vars PROVE ShellInv'
  OBVIOUS
<1>0. /\ ShellInv /\ ServiceInv /\ shell \in [Pids -> Shells]
      /\ listener \in [Pids -> 0 .. MaxAttaches] /\ spoken \subseteq UsedShells
  BY DEF TypeInv, ShellInv
<1>a. ASSUME UNCHANGED <<listener, spoken>>, shell' \in [Pids -> Shells],
             \A p \in Pids : shell'[p] = "none" <=> shell[p] = "none",
             \A k \in Services : svc'[k].pid = svc[k].pid
                                 /\ (svc[k].pid # 0 => svc'[k].id = svc[k].id)
      PROVE  ShellInv'
  BY <1>0, <1>a, ShellKept
<1>q. ASSUME UNCHANGED <<svc, shell, listener, spoken>> PROVE ShellInv'
  BY <1>0, <1>q, <1>a
<1>1. CASE \E c \in Clients : Connect(c)
  BY <1>1, <1>q DEF Connect, services, proxy
<1>2. CASE \E c \in Clients : PageLeaves(c) \/ LinkLost(c)
  BY <1>2, <1>q DEF PageLeaves, LinkLost, services, proxy
<1>3. ASSUME NEW c \in Clients, ClientExpires(c) PROVE ShellInv'
  <2>1. UNCHANGED <<listener, spoken>> /\ \E P : Killed(P)
    BY <1>3 DEF ClientExpires
  <2>2. shell' \in [Pids -> Shells] /\ \A p \in Pids : shell'[p] = "none" <=> shell[p] = "none"
    BY <1>0, <2>1, KilledFacts DEF Killed
  <2> QED BY <1>3, <1>a, <2>1, <2>2, ExpireServices
<1>4. ASSUME NEW c \in Clients, NEW s \in Sessions, DisposeById(c, s) PROVE ShellInv'
  <2>1. UNCHANGED <<svc, listener, spoken>> /\ \E P : Killed(P)
    BY <1>4 DEF DisposeById, services
  <2>2. shell' \in [Pids -> Shells] /\ \A p \in Pids : shell'[p] = "none" <=> shell[p] = "none"
    BY <1>0, <2>1, KilledFacts DEF Killed
  <2> QED BY <1>a, <2>1, <2>2
<1>5. ASSUME NEW c \in Clients, NEW s \in Sessions, NEW k \in Services, Attach(c, s, k)
      PROVE  ShellInv'
  <2>1. UNCHANGED <<shell, listener, spoken>>
    BY <1>5 DEF Attach, proxy
  <2>2. svc[k].st = "free" /\ svc'[k].pid = 0 /\ \A j \in Services : j # k => svc'[j] = svc[j]
    BY <1>5, ServiceAttach
  <2>3. svc[k].pid = 0
    BY <1>0, <2>2 DEF ServiceInv
  <2> QED BY <1>0, <1>a, <2>1, <2>2, <2>3
<1>6. ASSUME NEW k \in Services, NEW size \in Sizes, Spawned(k, size) PROVE ShellInv'
  BY <1>6, SpawnedDoes, ShellSpawned
<1>7. ASSUME NEW k \in Services, StartFails(k) PROVE ShellInv'
  <2>1. svc' = [svc EXCEPT ![k].st = "failed"] /\ UNCHANGED <<shell, listener, spoken>>
    BY <1>7 DEF StartFails, proxy
  <2>2. Becomes(k, "failed", svc[k].pid)
    BY <1>0, <2>1, ChangesState DEF States
  <2> QED BY <1>0, <1>a, <2>1, <2>2 DEF Becomes
<1>8. ASSUME NEW s \in Sessions, LeaseExpires(s) PROVE ShellInv'
  <2>1. UNCHANGED <<svc, listener, spoken>> /\ (UNCHANGED shell \/ \E P : Killed(P))
    BY <1>8 DEF LeaseExpires, services
  <2>2. shell' \in [Pids -> Shells] /\ \A p \in Pids : shell'[p] = "none" <=> shell[p] = "none"
    BY <1>0, <2>1, KilledFacts DEF Killed
  <2> QED BY <1>a, <2>1, <2>2
<1>9. ASSUME NEW p \in Pids, ShellEnds(p) PROVE ShellInv'
  <2>1. /\ shell[p] # "none" /\ shell' = [shell EXCEPT ![p] = "dead"]
        /\ UNCHANGED <<svc, listener, spoken>>
    BY <1>9 DEF ShellEnds, Running, services
  <2>2. shell' \in [Pids -> Shells] /\ \A q \in Pids : shell'[q] = "none" <=> shell[q] = "none"
    BY <1>0, <2>1 DEF Shells
  <2> QED BY <1>a, <2>1, <2>2
<1>10. ASSUME NEW p \in Pids, ExitEvent(p) PROVE ShellInv'
  <2>1. /\ shell[p] = "dead" /\ shell' = [shell EXCEPT ![p] = "gone"]
        /\ listener' = [listener EXCEPT ![p] = 0] /\ spoken' \subseteq spoken
        /\ (UNCHANGED svc \/ Exiting(p, listener[p]))
    BY <1>10, ExitDoes
  <2>2. shell' \in [Pids -> Shells] /\ \A q \in Pids : shell'[q] = "none" <=> shell[q] = "none"
    BY <1>0, <2>1 DEF Shells
  <2>3. listener' \in [Pids -> 0 .. MaxAttaches]
        /\ \A q \in Pids : listener'[q] # 0 => listener'[q] = listener[q]
    BY <1>0, <2>1, BoundFacts
  <2>4. \A k \in Services : svc'[k].pid = svc[k].pid /\ svc'[k].id = svc[k].id
    <3>1. CASE UNCHANGED svc
      BY <3>1
    <3>2. CASE Exiting(p, listener[p])
      BY <3>2 DEF Exiting, Becomes
    <3> QED BY <2>1, <3>1, <3>2
  <2>5. spoken' \subseteq UsedShells
    BY <1>0, <2>1
  <2> QED BY <1>0, <2>2, <2>3, <2>4, <2>5, ShellKept
<1>11. ASSUME NEW p \in Pids, NEW size \in Sizes, Output(p, size) PROVE ShellInv'
  <2>1. /\ shell[p] # "none" /\ spoken' = spoken \union {p}
        /\ UNCHANGED <<svc, shell, listener>>
    BY <1>11 DEF Output, Running, services
  <2>2. spoken' \subseteq UsedShells
    BY <1>0, <2>1 DEF UsedShells
  <2> QED BY <1>0, <2>1, <2>2, ShellKept
<1>12. CASE \E id \in Ids : BatchTimer(id)
  BY <1>12, <1>q DEF BatchTimer, services, proxy
<1>13. CASE UNCHANGED vars
  BY <1>13, <1>q DEF vars, services, proxy
<1> QED BY <1>1, <1>2, <1>3, <1>4, <1>5, <1>6, <1>7, <1>8, <1>9, <1>10, <1>11, <1>12, <1>13
        DEF Next

-----------------------------------------------------------------------------
(* The sessions and the leases.                                                *)

LEMMA SessionInit == Init => SessionInv
BY BoundFacts DEF Init, SessionInv

LEMMA SessionFacts ==
  ASSUME TypeInv, NEW s \in Sessions, session[s] # 0
  PROVE  /\ session[s] \in Pids /\ shell[session[s]] \in {"alive", "dead"}
         /\ listener[session[s]] \in Services /\ svc[listener[session[s]]].id[2] = s
         /\ svc[listener[session[s]]].pid = session[s]
         /\ \A t \in Sessions : session[t] = session[s] => t = s
<1>1. session[s] \in Pids
  BY Services0, BoundFacts DEF TypeInv, SessionInv
<1>2. listener[session[s]] \in Services
  BY <1>1, Services0, BoundFacts DEF TypeInv, SessionInv, ShellInv
<1> QED BY <1>1, <1>2 DEF TypeInv, SessionInv, ShellInv

\* The sessions of the shells of P end, and no other changes its shell.
LEMMA SessionKept ==
  ASSUME TypeInv, NEW P,
         session' = [s \in Sessions |-> IF session[s] \in P THEN 0 ELSE session[s]],
         \A p \in Pids : p \notin P /\ shell[p] \in {"alive", "dead"}
                           => shell'[p] \in {"alive", "dead"},
         \A p \in Pids : shell'[p] = "alive" => p \notin P /\ shell[p] = "alive",
         \A p \in Pids : p \notin P => listener'[p] = listener[p],
         \A k \in Services : svc[k].pid # 0 => svc'[k].id = svc[k].id,
         lease' \in [Sessions -> 0 .. MaxAttaches],
         \A s \in Sessions : lease'[s] # 0 =>
           session[s] \notin P /\ lease'[s] = session[s] /\ s \notin Transient
  PROVE  SessionInv'
<1>1. session' \in [Sessions -> 0 .. MaxAttaches]
  BY BoundFacts DEF TypeInv, SessionInv
<1>2. ASSUME NEW s \in Sessions, session'[s] # 0
      PROVE  /\ shell'[session'[s]] \in {"alive", "dead"} /\ listener'[session'[s]] # 0
             /\ svc'[listener'[session'[s]]].id[2] = s
  <2>1. session'[s] = session[s] /\ session[s] \notin P /\ session[s] # 0
    BY <1>2
  <2>2. /\ session[s] \in Pids /\ shell[session[s]] \in {"alive", "dead"}
        /\ listener[session[s]] \in Services /\ svc[listener[session[s]]].id[2] = s
        /\ svc[listener[session[s]]].pid = session[s]
    BY <2>1, SessionFacts
  <2>3. listener'[session[s]] = listener[session[s]] /\ shell'[session[s]] \in {"alive", "dead"}
    BY <2>1, <2>2
  <2>4. svc'[listener[session[s]]].id = svc[listener[session[s]]].id
    BY <2>1, <2>2
  <2> QED BY <2>1, <2>2, <2>3, <2>4, Services0
<1>3. ASSUME NEW p \in Pids, shell'[p] = "alive" PROVE \E s \in Sessions : session'[s] = p
  <2>1. p \notin P /\ \E s \in Sessions : session[s] = p
    BY <1>3 DEF TypeInv, SessionInv
  <2> QED BY <2>1
<1>4. \A s \in Sessions : lease'[s] # 0 => lease'[s] = session'[s]
  OBVIOUS
<1> QED BY <1>1, <1>2, <1>3, <1>4 DEF SessionInv

\* The shells a client's end kills are those of transient terminals.
LEMMA Doomed ==
  ASSUME TypeInv, NEW c \in Clients, ClientExpires(c)
  PROVE  \E P : /\ Killed(P)
                /\ \A p \in P : \E t \in Transient :
                     /\ terms[<<c, t>>] # 0 /\ svc[terms[<<c, t>>]].pid = p
                /\ \A t \in Transient : terms[<<c, t>>] # 0 => svc[terms[<<c, t>>]].pid \in P
<1> DEFINE ended == Terminals(c)
           doomed == {svc[terms[<<c, s>>]].pid : s \in
                        {t \in ended \intersect Transient :
                           svc[terms[<<c, t>>]].st = "bound"}}
<1>1. Killed(doomed)
  BY DEF ClientExpires
<1>2. \A p \in doomed : \E t \in Transient :
                     /\ terms[<<c, t>>] # 0 /\ svc[terms[<<c, t>>]].pid = p
  BY DEF Terminals
<1>3. \A t \in Transient : terms[<<c, t>>] # 0 => svc[terms[<<c, t>>]].st = "bound"
  BY BoundFacts, IdFacts, MapFacts DEF TypeInv
<1>4. \A t \in Transient : terms[<<c, t>>] # 0 => svc[terms[<<c, t>>]].pid \in doomed
  BY <1>3, BoundFacts DEF Terminals
<1> HIDE DEF doomed
<1> QED BY <1>1, <1>2, <1>4

\* None of them is the shell of a persistent terminal.
LEMMA DoomedIsTransient ==
  ASSUME TypeInv, NEW c \in Clients, NEW t \in Transient, terms[<<c, t>>] # 0,
         NEW s \in Sessions, session[s] = svc[terms[<<c, t>>]].pid
  PROVE  s = t
<1>1. t \in Sessions /\ <<c, t>> \in Ids /\ <<c, t>>[2] = t
  BY BoundFacts, IdFacts
<1>2. terms[<<c, t>>] \in Services /\ svc[terms[<<c, t>>]].id = <<c, t>>
      /\ svc[terms[<<c, t>>]].st = "bound"
  BY <1>1, MapFacts DEF TypeInv
<1>3. session[s] # 0
  BY <1>2 DEF TypeInv, ServiceInv
<1>4. svc[terms[<<c, t>>]].id[2] = s
  BY <1>2, <1>3, ShellSession DEF TypeInv
<1> QED BY <1>1, <1>2, <1>4

LEMMA SessionSpawned ==
  ASSUME TypeInv, NEW k \in Services, NEW p \in Pids, NEW c \in Clients, NEW s \in Sessions,
         Spawning(k, p, c, s)
  PROVE  SessionInv'
<1>0. /\ session \in [Sessions -> 0 .. MaxAttaches] /\ lease \in [Sessions -> 0 .. MaxAttaches]
      /\ shell \in [Pids -> Shells] /\ p \in 0 .. MaxAttaches /\ p # 0 /\ k # 0
  BY Services0, BoundFacts DEF TypeInv, SessionInv, ShellInv
<1>1. /\ session' = [session EXCEPT ![s] = p] /\ lease' = [lease EXCEPT ![s] = 0]
      /\ listener' = [q \in Pids |-> IF q = p THEN k
                                     ELSE IF q = session[s] THEN 0 ELSE listener[q]]
      /\ svc[k].id = <<c, s>> /\ <<c, s>>[2] = s
      /\ \A j \in Services : svc'[j].id = svc[j].id
  BY DEF Spawning, Becomes
<1>2. /\ session' \in [Sessions -> 0 .. MaxAttaches] /\ session'[s] = p
      /\ lease' \in [Sessions -> 0 .. MaxAttaches] /\ lease'[s] = 0
      /\ \A t \in Sessions \ {s} : session'[t] = session[t] /\ lease'[t] = lease[t]
      /\ listener'[p] = k
  BY <1>0, <1>1, BoundFacts
<1>3. /\ shell'[p] = "alive" /\ (shell[p] = "none" \/ p = session[s])
      /\ \A q \in Pids : q # p => shell'[q] = shell[q]
      /\ session[s] # 0 /\ session[s] # p => shell[session[s]] = "dead"
  BY <1>0 DEF Spawning
<1>4. ASSUME NEW t \in Sessions, t # s, session[t] # 0
      PROVE  /\ shell'[session[t]] \in {"alive", "dead"} /\ listener'[session[t]] # 0
             /\ svc'[listener'[session[t]]].id[2] = t
  <2>1. /\ session[t] \in Pids /\ shell[session[t]] \in {"alive", "dead"}
        /\ listener[session[t]] \in Services /\ svc[listener[session[t]]].id[2] = t
        /\ session[t] # session[s]
    BY <1>4, SessionFacts
  <2>2. session[t] # p
    BY <1>3, <2>1
  <2>3. listener'[session[t]] = listener[session[t]]
    BY <1>1, <2>1, <2>2
  <2> QED BY <1>1, <1>3, <2>1, <2>2, <2>3, Services0
<1>5. ASSUME NEW t \in Sessions, session'[t] # 0
      PROVE  /\ shell'[session'[t]] \in {"alive", "dead"} /\ listener'[session'[t]] # 0
             /\ svc'[listener'[session'[t]]].id[2] = t
  <2>1. CASE t = s
    BY <1>0, <1>1, <1>2, <1>3, <2>1
  <2>2. CASE t # s
    BY <1>2, <1>4, <1>5, <2>2
  <2> QED BY <2>1, <2>2
<1>6. \A t \in Sessions : lease'[t] # 0 => lease'[t] = session'[t] /\ t \notin Transient
  BY <1>2 DEF TypeInv, SessionInv
<1>7. ASSUME NEW q \in Pids, shell'[q] = "alive" PROVE \E t \in Sessions : session'[t] = q
  <2>1. CASE q = p
    BY <1>2, <2>1
  <2>2. CASE q # p
    <3>1. PICK t \in Sessions : session[t] = q
      BY <1>3, <1>7, <2>2 DEF TypeInv, SessionInv
    <3>2. t # s
      BY <1>3, <1>7, <2>2, <3>1, Services0
    <3> QED BY <1>2, <3>1, <3>2
  <2> QED BY <2>1, <2>2
<1> QED BY <1>2, <1>5, <1>6, <1>7 DEF SessionInv

LEMMA SessionStep == TypeInv /\ [Next]_vars => SessionInv'
<1> SUFFICES ASSUME TypeInv, [Next]_vars PROVE SessionInv'
  OBVIOUS
<1>0. /\ SessionInv /\ shell \in [Pids -> Shells]
      /\ listener \in [Pids -> 0 .. MaxAttaches]
      /\ session \in [Sessions -> 0 .. MaxAttaches] /\ lease \in [Sessions -> 0 .. MaxAttaches]
      /\ \A s \in Sessions : lease[s] # 0 => lease[s] = session[s] /\ s \notin Transient
  BY DEF TypeInv, ShellInv, SessionInv
\* A step that ends no session and moves no lease.
<1>a. ASSUME UNCHANGED <<session, lease, listener>>,
             \A p \in Pids : shell[p] \in {"alive", "dead"} => shell'[p] \in {"alive", "dead"},
             \A p \in Pids : shell'[p] = "alive" => shell[p] = "alive",
             \A k \in Services : svc[k].pid # 0 => svc'[k].id = svc[k].id
      PROVE  SessionInv'
  <2> DEFINE Nobody == {}
  <2>1. session' = [s \in Sessions |-> IF session[s] \in Nobody THEN 0 ELSE session[s]]
    BY <1>0, <1>a
  <2>2. /\ lease' \in [Sessions -> 0 .. MaxAttaches]
        /\ \A s \in Sessions : lease'[s] # 0 =>
             session[s] \notin Nobody /\ lease'[s] = session[s] /\ s \notin Transient
    BY <1>0, <1>a
  <2>3. \A p \in Pids : p \notin Nobody => listener'[p] = listener[p]
    BY <1>a
  <2>4. \A p \in Pids : shell'[p] = "alive" => p \notin Nobody /\ shell[p] = "alive"
    BY <1>a
  <2>5. \A p \in Pids : p \notin Nobody /\ shell[p] \in {"alive", "dead"}
                           => shell'[p] \in {"alive", "dead"}
    BY <1>a
  <2> HIDE DEF Nobody
  <2> QED BY <1>a, <2>1, <2>2, <2>3, <2>4, <2>5, SessionKept
<1>q. ASSUME UNCHANGED <<svc, shell, session, lease, listener>> PROVE SessionInv'
  BY <1>a, <1>q
<1>1. CASE \E c \in Clients : Connect(c)
  BY <1>1, <1>q DEF Connect, services, proxy
<1>2. CASE \E c \in Clients : PageLeaves(c) \/ LinkLost(c)
  BY <1>2, <1>q DEF PageLeaves, LinkLost, services, proxy
<1>3. ASSUME NEW c \in Clients, ClientExpires(c) PROVE SessionInv'
  <2>1. PICK P : /\ Killed(P)
                 /\ \A p \in P : \E t \in Transient :
                      /\ terms[<<c, t>>] # 0 /\ svc[terms[<<c, t>>]].pid = p
    BY <1>3, Doomed
  <2>2. /\ shell' = [p \in Pids |-> IF p \in P /\ shell[p] = "alive" THEN "killed" ELSE shell[p]]
        /\ session' = [s \in Sessions |-> IF session[s] \in P THEN 0 ELSE session[s]]
    BY <2>1 DEF Killed
  <2>3. listener' = listener /\ lease' = Leased(c)
    BY <1>3 DEF ClientExpires
  <2>4. \A s \in Sessions : session[s] \in P => s \in Transient
    BY <2>1, DoomedIsTransient
  <2>5. /\ lease' \in [Sessions -> 0 .. MaxAttaches]
        /\ \A s \in Sessions : lease'[s] # 0 => lease'[s] = session[s] /\ s \notin Transient
    BY <1>0, <2>3 DEF Leased
  <2>6. \A p \in Pids : p \notin P => shell'[p] = shell[p]
    BY <2>2
  <2>7. \A p \in Pids : shell'[p] = "alive" => p \notin P /\ shell[p] = "alive"
    BY <2>2
  <2>8. \A k \in Services : svc'[k].id = svc[k].id
    BY <1>3, ExpireServices
  <2> QED BY <2>2, <2>3, <2>4, <2>5, <2>6, <2>7, <2>8, SessionKept
<1>4. ASSUME NEW c \in Clients, NEW s \in Sessions, DisposeById(c, s) PROVE SessionInv'
  <2>1. PICK P : /\ Killed(P) /\ UNCHANGED <<svc, listener>>
                 /\ lease' = [t \in Sessions |-> IF session[t] \in P THEN 0 ELSE lease[t]]
    BY <1>4 DEF DisposeById, services
  <2>2. /\ shell' = [p \in Pids |-> IF p \in P /\ shell[p] = "alive" THEN "killed" ELSE shell[p]]
        /\ session' = [t \in Sessions |-> IF session[t] \in P THEN 0 ELSE session[t]]
    BY <2>1 DEF Killed
  <2>3. \A p \in Pids : p \notin P => shell'[p] = shell[p]
    BY <2>2
  <2>4. \A p \in Pids : shell'[p] = "alive" => p \notin P /\ shell[p] = "alive"
    BY <2>2
  <2>5. /\ lease' \in [Sessions -> 0 .. MaxAttaches]
        /\ \A t \in Sessions : lease'[t] # 0 =>
             session[t] \notin P /\ lease'[t] = session[t] /\ t \notin Transient
    BY <1>0, <2>1, BoundFacts
  <2> QED BY <2>1, <2>2, <2>3, <2>4, <2>5, SessionKept
<1>5. ASSUME NEW c \in Clients, NEW s \in Sessions, NEW k \in Services, Attach(c, s, k)
      PROVE  SessionInv'
  <2>1. UNCHANGED <<shell, session, lease, listener>>
    BY <1>5 DEF Attach, proxy
  <2>2. svc[k].st = "free" /\ \A j \in Services : j # k => svc'[j] = svc[j]
    BY <1>5, ServiceAttach
  <2>3. svc[k].pid = 0
    BY <2>2 DEF TypeInv, ServiceInv
  <2> QED BY <1>a, <2>1, <2>2, <2>3
<1>6. ASSUME NEW k \in Services, NEW size \in Sizes, Spawned(k, size) PROVE SessionInv'
  BY <1>6, SpawnedDoes, SessionSpawned
<1>7. ASSUME NEW k \in Services, StartFails(k) PROVE SessionInv'
  <2>1. svc' = [svc EXCEPT ![k].st = "failed"] /\ UNCHANGED <<shell, session, lease, listener>>
    BY <1>7 DEF StartFails, proxy
  <2>2. Becomes(k, "failed", svc[k].pid)
    BY <2>1, ChangesState DEF States, TypeInv
  <2> QED BY <1>a, <2>1, <2>2 DEF Becomes
<1>8. ASSUME NEW s \in Sessions, LeaseExpires(s) PROVE SessionInv'
  <2>1. /\ lease[s] # 0 /\ lease' = [lease EXCEPT ![s] = 0] /\ UNCHANGED <<svc, listener>>
        /\ session[s] = lease[s] => Killed({lease[s]})
    BY <1>8 DEF LeaseExpires, services
  <2>2. session[s] = lease[s] /\ session[s] # 0
    BY <1>0, <2>1
  <2>3. /\ shell' = [p \in Pids |-> IF p \in {session[s]} /\ shell[p] = "alive" THEN "killed"
                                    ELSE shell[p]]
        /\ session' = [t \in Sessions |-> IF session[t] \in {session[s]} THEN 0 ELSE session[t]]
    BY <2>1, <2>2 DEF Killed
  <2>4. \A t \in Sessions : session[t] = session[s] => t = s
    BY <2>2, SessionFacts
  <2>5. /\ lease' \in [Sessions -> 0 .. MaxAttaches]
        /\ \A t \in Sessions : lease'[t] # 0 =>
             session[t] \notin {session[s]} /\ lease'[t] = session[t] /\ t \notin Transient
    BY <1>0, <2>1, <2>4, BoundFacts
  <2>6. \A p \in Pids : p \notin {session[s]} => shell'[p] = shell[p]
    BY <2>3
  <2>7. \A p \in Pids : shell'[p] = "alive" => p \notin {session[s]} /\ shell[p] = "alive"
    BY <2>3
  <2> QED BY <2>1, <2>3, <2>5, <2>6, <2>7, SessionKept
<1>9. ASSUME NEW p \in Pids, ShellEnds(p) PROVE SessionInv'
  <2>1. /\ shell' = [shell EXCEPT ![p] = "dead"]
        /\ UNCHANGED <<svc, session, lease, listener>>
    BY <1>9 DEF ShellEnds, services
  <2> QED BY <1>0, <1>a, <2>1
<1>10. ASSUME NEW p \in Pids, ExitEvent(p) PROVE SessionInv'
  <2>1. /\ shell[p] = "dead" /\ shell' = [shell EXCEPT ![p] = "gone"]
        /\ session' = [s \in Sessions |->
              IF listener[p] # 0 /\ session[s] = p THEN 0 ELSE session[s]]
        /\ lease' = [s \in Sessions |->
              IF listener[p] # 0 /\ session[s] = p THEN 0 ELSE lease[s]]
        /\ listener' = [listener EXCEPT ![p] = 0]
        /\ (UNCHANGED svc \/ Exiting(p, listener[p]))
    BY <1>10, ExitDoes
  <2>2. \A s \in Sessions : session[s] = p => listener[p] # 0
    BY SessionFacts, Services0
  <2>3. session' = [s \in Sessions |-> IF session[s] \in {p} THEN 0 ELSE session[s]]
    BY <2>1, <2>2
  <2>4. \A q \in Pids : q \notin {p} => shell'[q] = shell[q] /\ listener'[q] = listener[q]
    BY <1>0, <2>1
  <2>5. \A q \in Pids : shell'[q] = "alive" => q \notin {p} /\ shell[q] = "alive"
    BY <1>0, <2>1
  <2>6. /\ lease' \in [Sessions -> 0 .. MaxAttaches]
        /\ \A s \in Sessions : lease'[s] # 0 =>
             session[s] \notin {p} /\ lease'[s] = session[s] /\ s \notin Transient
    BY <1>0, <2>1, <2>2, BoundFacts
  <2>7. \A k \in Services : svc'[k].id = svc[k].id
    <3>1. CASE UNCHANGED svc
      BY <3>1
    <3>2. CASE Exiting(p, listener[p])
      BY <3>2 DEF Exiting, Becomes
    <3> QED BY <2>1, <3>1, <3>2
  <2> QED BY <2>3, <2>4, <2>5, <2>6, <2>7, SessionKept
<1>11. CASE \E p \in Pids, size \in Sizes : Output(p, size)
  BY <1>11, <1>q DEF Output, services
<1>12. CASE \E id \in Ids : BatchTimer(id)
  BY <1>12, <1>q DEF BatchTimer, services, proxy
<1>13. CASE UNCHANGED vars
  BY <1>13, <1>q DEF vars, services, proxy
<1> QED BY <1>1, <1>2, <1>3, <1>4, <1>5, <1>6, <1>7, <1>8, <1>9, <1>10, <1>11, <1>12, <1>13
        DEF Next

-----------------------------------------------------------------------------
(* The keepers of the shells.                                                  *)

LEMMA KeeperInit == Init => KeeperInv
<1> SUFFICES ASSUME Init PROVE KeeperInv
  OBVIOUS
<1>1. /\ \A p \in Pids : shell[p] = "none"
      /\ \A k \in Services : svc[k].st = "free"
      /\ \A id \in Ids : terms[id] = 0
      /\ \A s \in Sessions : lease[s] = 0
  BY DEF Init, NoService
<1> QED BY <1>1, IdFacts DEF KeeperInv

\* A terminal of a client, as the keepers see it.
LEMMA TermFacts ==
  ASSUME TypeInv, NEW id \in Ids, terms[id] # 0
  PROVE  /\ terms[id] \in Services /\ svc[terms[id]].id = id /\ svc[terms[id]].st = "bound"
         /\ svc[terms[id]].pid # 0
<1>1. terms[id] \in Services /\ svc[terms[id]].id = id /\ svc[terms[id]].st = "bound"
  BY MapFacts DEF TypeInv
<1>2. svc[terms[id]].pid # 0
  BY <1>1 DEF TypeInv, ServiceInv
<1> QED BY <1>1, <1>2

\* A living shell of a terminal is the one of its session.
LEMMA TermSession ==
  ASSUME TypeInv, NEW id \in Ids, terms[id] # 0, NEW p \in Pids,
         svc[terms[id]].pid = p, shell[p] = "alive"
  PROVE  id[2] \in Sessions /\ session[id[2]] = p
<1>1. PICK t \in Sessions : session[t] = p
  BY DEF TypeInv, SessionInv
<1>2. svc[terms[id]].id[2] = t
  BY <1>1, TermFacts, ShellSession, Services0 DEF TypeInv
<1> QED BY <1>1, <1>2, TermFacts

\* The shell of a lease is the one of the session.
LEMMA LeaseFacts ==
  ASSUME TypeInv, NEW s \in Sessions, lease[s] # 0
  PROVE  lease[s] = session[s] /\ s \notin Transient /\ lease[s] \in Pids
BY SessionFacts DEF TypeInv, SessionInv

\* A step that takes neither a terminal nor the lease of a living shell away.
LEMMA KeeperKept ==
  ASSUME TypeInv, KeeperInv, UNCHANGED <<terms, taken, crossed>>,
         \A k \in Services : svc[k].pid # 0 => svc'[k] = svc[k],
         \A k \in Services : svc'[k].st = "bound" => svc[k].st = "bound",
         \A p \in Pids : shell'[p] = "alive" =>
           /\ shell[p] = "alive"
           /\ \A s \in Sessions : /\ lease[s] = p => lease'[s] = p
                                  /\ session[s] = p => session'[s] = p,
         \A s \in Sessions : lease'[s] # 0 => lease'[s] = lease[s],
         \A s \in Sessions : session'[s] # 0 => session'[s] = session[s],
         \A p \in Pids : listener'[p] # 0 => listener'[p] = listener[p],
         \A c \in Clients : Attended(c) => Attended(c)'
  PROVE  KeeperInv'
<1>1. ASSUME NEW p \in Pids, shell'[p] = "alive" PROVE Kept(p)'
  <2>1. Kept(p)
    BY <1>1 DEF KeeperInv
  <2>2. CASE \E s \in Sessions : lease[s] = p
    BY <1>1, <2>2 DEF Kept
  <2>3. ASSUME NEW id \in Ids, terms[id] # 0, svc[terms[id]].pid = p, Attended(id[1])
        PROVE  Kept(p)'
    <3>1. svc'[terms'[id]].pid = p /\ Attended(id[1])'
      BY <2>3, TermFacts, IdFacts
    <3> QED BY <2>3, <3>1 DEF Kept
  <2>4. CASE \E s \in Sessions : s \in crossed /\ session[s] = p
    BY <1>1, <2>4 DEF Kept
  <2> QED BY <2>1, <2>2, <2>3, <2>4 DEF Kept
<1>2. ASSUME NEW k \in Services, svc'[k].st = "bound",
             session'[svc'[k].id[2]] = svc'[k].pid, listener'[svc'[k].pid] = k
      PROVE  terms'[svc'[k].id] = k \/ svc'[k].id[2] \in crossed'
  <2>1. svc[k].st = "bound" /\ svc[k].pid # 0 /\ svc[k].id \in Ids
    BY <1>2 DEF TypeInv, ServiceInv
  <2>2. svc'[k] = svc[k] /\ svc[k].id[2] \in Sessions
    BY <2>1, IdFacts
  <2>3. session[svc[k].id[2]] = svc[k].pid
    BY <1>2, <2>1, <2>2
  <2>4. svc[k].pid \in Pids
    BY <2>1, <2>2, <2>3, SessionFacts
  <2>5. listener[svc[k].pid] = k
    BY <1>2, <2>2, <2>4, Services0
  <2> QED BY <2>1, <2>2, <2>3, <2>5 DEF KeeperInv
<1>3. \A s \in Sessions \ taken' : \A c, d \in Clients :
        terms'[<<c, s>>] # 0 /\ terms'[<<d, s>>] # 0 => c = d
  BY DEF KeeperInv
<1>4. \A s \in Sessions \ taken' : lease'[s] # 0 => \A c \in Clients : terms'[<<c, s>>] = 0
  BY DEF KeeperInv
<1> QED BY <1>1, <1>2, <1>3, <1>4 DEF KeeperInv

\* A client whose grace period is over: its persistent shells are leased, the
\* transient ones are killed.
LEMMA KeeperExpires ==
  ASSUME TypeInv, KeeperInv, NEW c \in Clients, ClientExpires(c)
  PROVE  KeeperInv'
<1>1. PICK P : /\ Killed(P)
               /\ \A p \in P : \E t \in Transient :
                    terms[<<c, t>>] # 0 /\ svc[terms[<<c, t>>]].pid = p
               /\ \A t \in Transient : terms[<<c, t>>] # 0 => svc[terms[<<c, t>>]].pid \in P
  BY Doomed
<1>2. /\ \A p \in Pids : shell'[p] = "alive" => p \notin P /\ shell[p] = "alive"
      /\ \A s \in Sessions : session'[s] = IF session[s] \in P THEN 0 ELSE session[s]
  BY <1>1 DEF Killed
<1>3. /\ terms' = [id \in Ids |-> IF id[1] = c THEN 0 ELSE terms[id]]
      /\ lease' = Leased(c) /\ closing' = closing \ {c}
      /\ UNCHANGED <<up, late, taken, crossed, listener>>
  BY DEF ClientExpires, history
<1>4. \A id \in Ids : terms'[id] # 0 => terms'[id] = terms[id] /\ id[1] # c
  BY <1>3
<1>5. \A s \in Sessions : lease'[s] = IF terms[<<c, s>>] # 0 /\ s \notin Transient
                                      THEN session[s] ELSE lease[s]
  BY <1>3 DEF Leased, Terminals
<1>6. \A k \in Services : /\ svc'[k].id = svc[k].id /\ svc'[k].pid = svc[k].pid
                          /\ k \in Released(c) => svc'[k].st = "disposed"
                          /\ k \notin Released(c) => svc'[k] = svc[k]
  BY ExpireServices
<1>7. ASSUME NEW p \in Pids, shell'[p] = "alive" PROVE Kept(p)'
  <2>1. shell[p] = "alive" /\ p \notin P /\ Kept(p)
    BY <1>2, <1>7 DEF KeeperInv
  <2>2. ASSUME NEW s \in Sessions, lease[s] = p PROVE Kept(p)'
    <3>1. lease'[s] = p
      BY <1>5, <2>2, LeaseFacts, Services0
    <3> QED BY <3>1 DEF Kept
  <2>3. ASSUME NEW id \in Ids, terms[id] # 0, svc[terms[id]].pid = p, Attended(id[1])
        PROVE  Kept(p)'
    <3>1. CASE id[1] # c
      <4>1. terms'[id] = terms[id]
        BY <1>3, <3>1
      <4>2. svc'[terms[id]].pid = p
        BY <1>6, <2>3, TermFacts
      <4>3. Attended(id[1])'
        BY <1>3, <2>3, <3>1 DEF Attended
      <4> QED BY <2>3, <4>1, <4>2, <4>3 DEF Kept
    <3>2. CASE id[1] = c
      <4> DEFINE s == id[2]
      <4>1. s \in Sessions /\ id = <<c, s>>
        BY <3>2, IdFacts
      <4>2. s \notin Transient
        BY <1>1, <2>1, <2>3, <4>1
      <4>3. session[s] = p
        BY <2>1, <2>3, TermSession
      <4>4. lease'[s] = p
        BY <1>5, <2>3, <4>1, <4>2, <4>3
      <4> QED BY <4>1, <4>4 DEF Kept
    <3> QED BY <3>1, <3>2
  <2>4. CASE \E s \in Sessions : s \in crossed /\ session[s] = p
    BY <1>2, <1>3, <2>1, <2>4 DEF Kept
  <2> QED BY <2>1, <2>2, <2>3, <2>4 DEF Kept
<1>8. ASSUME NEW k \in Services, svc'[k].st = "bound",
             session'[svc'[k].id[2]] = svc'[k].pid, listener'[svc'[k].pid] = k
      PROVE  terms'[svc'[k].id] = k \/ svc'[k].id[2] \in crossed'
  <2> DEFINE id == svc[k].id  s == id[2]
  <2>1. k \notin Released(c) /\ svc'[k] = svc[k]
    BY <1>6, <1>8
  <2>2. svc[k].st = "bound" /\ svc[k].pid # 0 /\ id \in Ids
    BY <1>8, <2>1 DEF TypeInv, ServiceInv
  <2>3. s \in Sessions
    BY <2>2, IdFacts
  <2>4. session[s] = svc[k].pid /\ session[s] \notin P
    BY <1>2, <1>8, <2>1, <2>2, <2>3
  <2>5. terms[id] = k \/ s \in crossed
    BY <1>3, <1>8, <2>1, <2>2, <2>4 DEF KeeperInv
  <2>6. CASE s \in crossed
    BY <1>3, <2>1, <2>6
  <2>7. ASSUME terms[id] = k PROVE id[1] # c
    <3> SUFFICES ASSUME id[1] = c PROVE FALSE
      OBVIOUS
    <3>1. id = <<c, s>> /\ terms[<<c, s>>] # 0
      BY <2>2, <2>7, IdFacts, Services0
    <3>2. CASE s \in Transient
      BY <1>1, <2>4, <2>7, <3>1, <3>2
    <3>3. CASE s \notin Transient
      BY <2>1, <2>3, <2>7, <3>1, <3>3 DEF Released, Terminals
    <3> QED BY <3>2, <3>3
  <2> QED BY <1>3, <2>1, <2>2, <2>5, <2>6, <2>7
<1>9. ASSUME NEW s \in Sessions \ taken', NEW d \in Clients, terms'[<<d, s>>] # 0
      PROVE  /\ terms[<<d, s>>] # 0 /\ d # c
             /\ \A e \in Clients : terms[<<e, s>>] # 0 => d = e
  <2>1. terms[<<d, s>>] # 0 /\ d # c
    BY <1>4, <1>9, IdFacts
  <2> QED BY <1>3, <2>1 DEF KeeperInv
<1>10. \A s \in Sessions \ taken' : \A d, e \in Clients :
         terms'[<<d, s>>] # 0 /\ terms'[<<e, s>>] # 0 => d = e
  BY <1>9
<1>11. ASSUME NEW s \in Sessions \ taken', lease'[s] # 0, NEW d \in Clients
       PROVE  terms'[<<d, s>>] = 0
  <2> SUFFICES ASSUME terms'[<<d, s>>] # 0 PROVE FALSE
    OBVIOUS
  <2>1. terms[<<d, s>>] # 0 /\ d # c /\ (terms[<<c, s>>] # 0 => d = c)
    BY <1>9
  <2>2. lease[s] # 0
    BY <1>5, <1>11, <2>1
  <2> QED BY <1>3, <2>1, <2>2 DEF KeeperInv
<1> QED BY <1>7, <1>8, <1>10, <1>11 DEF KeeperInv

\* A PtyService that starts keeps its shell, and keeps the promise about the
\* others: a page that took a session over is remembered.
LEMMA KeeperSpawned ==
  ASSUME TypeInv, KeeperInv, NEW k \in Services, NEW p \in Pids, NEW c \in Clients,
         NEW s \in Sessions, Spawning(k, p, c, s)
  PROVE  KeeperInv'
<1>0. /\ session \in [Sessions -> 0 .. MaxAttaches] /\ lease \in [Sessions -> 0 .. MaxAttaches]
      /\ shell \in [Pids -> Shells] /\ terms \in [Ids -> 0 .. MaxAttaches]
      /\ <<c, s>> \in Ids /\ <<c, s>>[1] = c /\ <<c, s>>[2] = s /\ p # 0 /\ k # 0
  BY Services0, IdFacts DEF TypeInv, SessionInv, ShellInv, MapInv
<1>1. /\ svc[k].id = <<c, s>> /\ svc[k].st = "starting" /\ svc[k].pid = 0
      /\ svc'[k].id = <<c, s>> /\ svc'[k].st = "bound" /\ svc'[k].pid = p
      /\ \A j \in Services : j # k => svc'[j] = svc[j]
  BY DEF Spawning, Becomes, TypeInv, ServiceInv
<1>2. /\ terms'[<<c, s>>] = k /\ \A id \in Ids : id # <<c, s>> => terms'[id] = terms[id]
      /\ session'[s] = p /\ \A t \in Sessions : t # s => session'[t] = session[t]
      /\ lease'[s] = 0 /\ \A t \in Sessions : t # s => lease'[t] = lease[t]
      /\ \A t \in Sessions : t # s /\ t \in crossed => t \in crossed'
  BY <1>0 DEF Spawning
<1>3. /\ \A q \in Pids : q # p => shell'[q] = shell[q]
      /\ session[s] # 0 /\ session[s] # p => shell[session[s]] = "dead"
  BY <1>0 DEF Spawning
<1>4. \A q \in Pids : listener'[q] = IF q = p THEN k
                                     ELSE IF q = session[s] THEN 0 ELSE listener[q]
  BY DEF Spawning
<1>5. \A d \in Clients : d = c \/ Attended(d) => Attended(d)'
  BY DEF Spawning, Attended
<1>6. \A q \in Pids : shell[q] = "alive" /\ q # p => session[s] # q
  BY <1>3, Services0
<1>7. ASSUME NEW q \in Pids, shell'[q] = "alive" PROVE Kept(q)'
  <2>1. CASE q = p
    <3>1. svc'[terms'[<<c, s>>]].pid = q /\ terms'[<<c, s>>] # 0 /\ Attended(<<c, s>>[1])'
      BY <1>0, <1>1, <1>2, <1>5, <2>1
    <3> QED BY <1>0, <3>1 DEF Kept
  <2>2. CASE q # p
    <3>1. shell[q] = "alive" /\ Kept(q)
      BY <1>3, <1>7, <2>2 DEF KeeperInv
    <3>2. ASSUME NEW t \in Sessions, lease[t] = q PROVE Kept(q)'
      <4>1. session[t] = q /\ q # 0
        BY <3>2, LeaseFacts, Services0
      <4>2. t # s
        BY <1>6, <2>2, <3>1, <4>1
      <4> QED BY <1>2, <3>2, <4>2 DEF Kept
    <3>3. ASSUME NEW id \in Ids, terms[id] # 0, svc[terms[id]].pid = q, Attended(id[1])
          PROVE  Kept(q)'
      <4>1. terms'[id] = terms[id]
        <5>1. id # <<c, s>>
          BY <1>0, <1>6, <2>2, <3>1, <3>3, TermSession
        <5> QED BY <1>2, <5>1
      <4>2. terms[id] \in Services /\ terms[id] # k
        BY <1>1, <3>3, TermFacts
      <4>3. svc'[terms'[id]].pid = q /\ Attended(id[1])'
        BY <1>1, <1>5, <3>3, <4>1, <4>2, IdFacts
      <4> QED BY <3>3, <4>1, <4>3 DEF Kept
    <3>4. ASSUME NEW t \in Sessions, t \in crossed, session[t] = q PROVE Kept(q)'
      <4>1. t # s
        BY <1>6, <2>2, <3>1, <3>4
      <4> QED BY <1>2, <3>4, <4>1 DEF Kept
    <3> QED BY <3>1, <3>2, <3>3, <3>4 DEF Kept
  <2> QED BY <2>1, <2>2
<1>8. ASSUME NEW j \in Services, svc'[j].st = "bound",
             session'[svc'[j].id[2]] = svc'[j].pid, listener'[svc'[j].pid] = j
      PROVE  terms'[svc'[j].id] = j \/ svc'[j].id[2] \in crossed'
  <2>1. CASE j = k
    BY <1>1, <1>2, <2>1
  <2>2. CASE j # k
    <3> DEFINE t == svc[j].id[2]  q == svc[j].pid
    <3>1. svc'[j] = svc[j] /\ svc[j].st = "bound" /\ q # 0 /\ svc[j].id \in Ids
      BY <1>1, <1>8, <2>2 DEF TypeInv, ServiceInv
    <3>2. t \in Sessions /\ svc[j].id = <<svc[j].id[1], t>>
      BY <3>1, IdFacts
    <3>3. q \in Pids
      BY <3>1, ServiceTyped, Services0, BoundFacts DEF TypeInv, ServiceType
    <3>4. q # p /\ q # session[s] /\ listener[q] = j
      BY <1>4, <1>8, <2>2, <3>1, <3>3, Services0
    <3>5. t # s
      BY <1>2, <1>8, <3>1, <3>4
    <3>6. session[t] = q
      BY <1>2, <1>8, <3>1, <3>2, <3>5
    <3>7. terms[svc[j].id] = j \/ t \in crossed
      BY <3>1, <3>4, <3>6 DEF KeeperInv
    <3> QED BY <1>2, <3>1, <3>2, <3>5, <3>7, IdFacts
  <2> QED BY <2>1, <2>2
<1>9. \A t \in Sessions, d \in Clients : t # s => terms'[<<d, t>>] = terms[<<d, t>>]
  BY <1>2, IdFacts
<1>10. \A d \in Clients : d # c => terms'[<<d, s>>] = terms[<<d, s>>]
  BY <1>2, IdFacts
<1>11. taken \subseteq taken'
       /\ (s \notin taken' => \A d \in Clients : d # c => terms[<<d, s>>] = 0)
  BY DEF Spawning
<1>12. ASSUME NEW t \in Sessions \ taken', NEW d \in Clients, NEW e \in Clients,
              terms'[<<d, t>>] # 0, terms'[<<e, t>>] # 0
       PROVE  d = e
  <2>1. CASE t = s
    BY <1>10, <1>11, <1>12, <2>1
  <2>2. CASE t # s
    BY <1>9, <1>11, <1>12, <2>2 DEF KeeperInv
  <2> QED BY <2>1, <2>2
<1>13. ASSUME NEW t \in Sessions \ taken', lease'[t] # 0, NEW d \in Clients
       PROVE  terms'[<<d, t>>] = 0
  <2>1. t # s
    BY <1>2, <1>13
  <2> QED BY <1>2, <1>9, <1>11, <1>13, <2>1 DEF KeeperInv
<1> QED BY <1>7, <1>8, <1>12, <1>13 DEF KeeperInv

\* A shell that ended takes the entry of its terminal away, which is remembered
\* when the entry named another PtyService.
LEMMA KeeperExit ==
  ASSUME TypeInv, KeeperInv, NEW p \in Pids, ExitEvent(p)
  PROVE  KeeperInv'
<1>1. /\ shell[p] = "dead" /\ shell' = [shell EXCEPT ![p] = "gone"]
      /\ session' = [s \in Sessions |->
              IF listener[p] # 0 /\ session[s] = p THEN 0 ELSE session[s]]
      /\ lease' = [s \in Sessions |->
              IF listener[p] # 0 /\ session[s] = p THEN 0 ELSE lease[s]]
      /\ listener' = [listener EXCEPT ![p] = 0]
      /\ UNCHANGED <<clients, late, taken>>
      /\ (UNCHANGED <<svc, terms, crossed>> \/ Exiting(p, listener[p]))
  BY ExitDoes
<1>0. shell \in [Pids -> Shells] /\ listener \in [Pids -> 0 .. MaxAttaches]
      /\ terms \in [Ids -> 0 .. MaxAttaches]
  BY DEF TypeInv, ShellInv, MapInv
<1>2. /\ \A q \in Pids : shell'[q] = "alive" => q # p /\ shell[q] = "alive"
      /\ \A s \in Sessions : session'[s] # 0 => session'[s] = session[s]
      /\ \A s \in Sessions : lease'[s] # 0 => lease'[s] = lease[s]
      /\ \A q \in Pids : listener'[q] # 0 => listener'[q] = listener[q]
      /\ UNCHANGED taken /\ \A c \in Clients : Attended(c) => Attended(c)'
  BY <1>0, <1>1, Services0 DEF clients, Attended
<1>3. ASSUME NEW q \in Pids, shell'[q] = "alive", NEW s \in Sessions
      PROVE  (lease[s] = q => lease'[s] = q) /\ (session[s] = q => session'[s] = q)
  <2>1. q # p /\ (lease[s] = q => session[s] = q)
    BY <1>2, <1>3, LeaseFacts, Services0
  <2> QED BY <1>1, <1>3, <2>1
<1>4. CASE UNCHANGED <<svc, terms, crossed>>
  BY <1>2, <1>3, <1>4, KeeperKept
<1>5. CASE Exiting(p, listener[p])
  <2> DEFINE k == listener[p]  id == svc[k].id
  <2>1. /\ k \in Services /\ svc[k].st = "bound" /\ svc[k].pid = p /\ id \in Ids
        /\ svc'[k].st = "disposed" /\ \A j \in Services : j # k => svc'[j] = svc[j]
        /\ terms' = [terms EXCEPT ![id] = 0]
        /\ crossed \subseteq crossed' /\ (terms[id] \notin {0, k} => id[2] \in crossed')
    BY <1>5 DEF Exiting, Becomes
  <2> HIDE DEF k
  <2>2. terms'[id] = 0 /\ \A x \in Ids : x # id => terms'[x] = terms[x]
    BY <1>0, <2>1
  <2>4. ASSUME NEW q \in Pids, shell'[q] = "alive" PROVE Kept(q)'
    <3>1. q # p /\ Kept(q) /\ shell[q] = "alive"
      BY <1>2, <2>4 DEF KeeperInv
    <3>2. CASE \E s \in Sessions : lease[s] = q
      BY <1>3, <2>4, <3>2 DEF Kept
    <3>3. ASSUME NEW x \in Ids, terms[x] # 0, svc[terms[x]].pid = q, Attended(x[1])
          PROVE  Kept(q)'
      <4>1. /\ terms[x] \in Services /\ svc[terms[x]].id = x /\ svc[terms[x]].st = "bound"
            /\ terms[x] # k
        BY <2>1, <3>1, <3>3, TermFacts
      <4>2. CASE x # id
        <5>1. svc'[terms'[x]].pid = q /\ Attended(x[1])' /\ terms'[x] # 0
          BY <1>2, <2>1, <2>2, <3>3, <4>1, <4>2, IdFacts
        <5> QED BY <5>1 DEF Kept
      <4>3. CASE x = id
        <5>1. id[2] \in Sessions /\ session[id[2]] = q
          BY <3>1, <3>3, <4>3, TermSession
        <5>2. id[2] \in crossed' /\ session'[id[2]] = q
          BY <1>3, <2>1, <2>4, <3>3, <4>1, <4>3, <5>1
        <5> QED BY <5>1, <5>2 DEF Kept
      <4> QED BY <4>2, <4>3
    <3>4. CASE \E s \in Sessions : s \in crossed /\ session[s] = q
      BY <1>3, <2>1, <2>4, <3>4 DEF Kept
    <3> QED BY <3>1, <3>2, <3>3, <3>4 DEF Kept
  <2>5. ASSUME NEW j \in Services, svc'[j].st = "bound",
               session'[svc'[j].id[2]] = svc'[j].pid, listener'[svc'[j].pid] = j
        PROVE  terms'[svc'[j].id] = j \/ svc'[j].id[2] \in crossed'
    <3>1. j # k /\ svc'[j] = svc[j] /\ svc[j].st = "bound"
      BY <2>1, <2>5
    <3>2. svc[j].pid # 0 /\ svc[j].id \in Ids
      BY <3>1 DEF TypeInv, ServiceInv
    <3>3. svc[j].pid \in Pids /\ svc[j].id[2] \in Sessions
      BY <3>2, ServiceTyped, Services0, BoundFacts, IdFacts DEF TypeInv, ServiceType
    <3>4. session[svc[j].id[2]] = svc[j].pid /\ listener[svc[j].pid] = j
      BY <1>2, <2>5, <3>1, <3>2, <3>3, Services0
    <3>5. terms[svc[j].id] = j \/ svc[j].id[2] \in crossed
      BY <3>1, <3>4 DEF KeeperInv
    <3>6. CASE svc[j].id = id /\ terms[id] = j
      BY <2>1, <3>1, <3>6, Services0
    <3> QED BY <2>1, <2>2, <3>1, <3>2, <3>5, <3>6
  <2>6. \A x \in Ids : terms'[x] # 0 => terms[x] # 0
    BY <2>2
  <2>7. \A s \in Sessions \ taken' : \A c, d \in Clients :
          terms'[<<c, s>>] # 0 /\ terms'[<<d, s>>] # 0 => c = d
    BY <1>2, <2>6, IdFacts DEF KeeperInv
  <2>8. ASSUME NEW s \in Sessions \ taken', lease'[s] # 0, NEW c \in Clients
        PROVE  terms'[<<c, s>>] = 0
    <3>1. s \in Sessions \ taken /\ lease[s] # 0 /\ <<c, s>> \in Ids
      BY <1>2, <2>8, IdFacts
    <3>2. terms[<<c, s>>] = 0
      BY <3>1 DEF KeeperInv
    <3> QED BY <2>6, <3>1, <3>2
  <2> QED BY <2>4, <2>5, <2>7, <2>8 DEF KeeperInv
<1> QED BY <1>1, <1>4, <1>5

LEMMA KeeperStep == IInv /\ [Next]_vars => KeeperInv'
<1> SUFFICES ASSUME IInv, [Next]_vars PROVE KeeperInv'
  OBVIOUS
<1>0. /\ TypeInv /\ KeeperInv /\ shell \in [Pids -> Shells]
      /\ session \in [Sessions -> 0 .. MaxAttaches] /\ lease \in [Sessions -> 0 .. MaxAttaches]
  BY DEF IInv, TypeInv, ShellInv, SessionInv
\* A step on the side of the clients and their batches.
<1>a. ASSUME UNCHANGED <<terms, taken, crossed, shell, session, lease, listener>>,
             \A k \in Services : svc[k].pid # 0 => svc'[k] = svc[k],
             \A k \in Services : svc'[k].st = "bound" => svc[k].st = "bound",
             \A c \in Clients : Attended(c) => Attended(c)'
      PROVE  KeeperInv'
  BY <1>0, <1>a, KeeperKept
\* A step on the side of the shells.
<1>b. ASSUME UNCHANGED <<terms, taken, crossed, svc, listener, up, closing, late>>,
             \A p \in Pids : shell'[p] = "alive" =>
               /\ shell[p] = "alive"
               /\ \A s \in Sessions : /\ lease[s] = p => lease'[s] = p
                                      /\ session[s] = p => session'[s] = p,
             \A s \in Sessions : lease'[s] # 0 => lease'[s] = lease[s],
             \A s \in Sessions : session'[s] # 0 => session'[s] = session[s]
      PROVE  KeeperInv'
  <2>1. \A c \in Clients : Attended(c) => Attended(c)'
    BY <1>b DEF Attended
  <2> QED BY <1>0, <1>b, <2>1, KeeperKept
<1>q. ASSUME UNCHANGED <<terms, taken, crossed, svc, proxy, up, closing, late>> PROVE KeeperInv'
  BY <1>b, <1>q DEF proxy
<1>1. ASSUME NEW c \in Clients, Connect(c) PROVE KeeperInv'
  <2>1. /\ up' = up \union {c} /\ closing' = closing \ {c} /\ late' = late \ {c}
        /\ UNCHANGED <<svc, terms, taken, crossed, shell, session, lease, listener>>
    BY <1>1 DEF Connect, services, proxy
  <2>2. \A d \in Clients : Attended(d) => Attended(d)'
    BY <2>1 DEF Attended
  <2> QED BY <1>a, <2>1, <2>2
<1>2. CASE \E c \in Clients : PageLeaves(c)
  BY <1>2, <1>q DEF PageLeaves, clients, services, history
<1>3. ASSUME NEW c \in Clients, LinkLost(c) PROVE KeeperInv'
  <2>1. /\ up' = up \ {c} /\ closing' = closing \union {c} /\ UNCHANGED late
        /\ UNCHANGED <<svc, terms, taken, crossed, shell, session, lease, listener>>
    BY <1>3 DEF LinkLost, services, proxy, history
  <2>2. \A d \in Clients : Attended(d) => Attended(d)'
    BY <2>1 DEF Attended
  <2> QED BY <1>a, <2>1, <2>2
<1>4. ASSUME NEW c \in Clients, ClientExpires(c) PROVE KeeperInv'
  BY <1>0, <1>4, KeeperExpires
<1>5. ASSUME NEW c \in Clients, NEW s \in Sessions, DisposeById(c, s) PROVE KeeperInv'
  <2>1. PICK P : /\ Killed(P) /\ UNCHANGED <<terms, taken, crossed, svc, listener, up, closing, late>>
                 /\ lease' = [t \in Sessions |-> IF session[t] \in P THEN 0 ELSE lease[t]]
    BY <1>5 DEF DisposeById, clients, services, history
  <2>2. /\ shell' = [p \in Pids |-> IF p \in P /\ shell[p] = "alive" THEN "killed" ELSE shell[p]]
        /\ session' = [t \in Sessions |-> IF session[t] \in P THEN 0 ELSE session[t]]
    BY <2>1 DEF Killed
  <2>3. ASSUME NEW p \in Pids, shell'[p] = "alive"
        PROVE  /\ shell[p] = "alive"
               /\ \A t \in Sessions : /\ lease[t] = p => lease'[t] = p
                                      /\ session[t] = p => session'[t] = p
    <3>1. shell[p] = "alive" /\ p \notin P
      BY <2>2, <2>3
    <3>2. ASSUME NEW t \in Sessions, lease[t] = p PROVE lease'[t] = p
      <4>1. session[t] = p
        BY <1>0, <3>2, LeaseFacts, Services0
      <4> QED BY <2>1, <3>1, <3>2, <4>1
    <3> QED BY <2>2, <3>1, <3>2
  <2>4. \A t \in Sessions : /\ lease'[t] # 0 => lease'[t] = lease[t]
                            /\ session'[t] # 0 => session'[t] = session[t]
    BY <2>1, <2>2
  <2> QED BY <1>b, <2>1, <2>3, <2>4
<1>6. ASSUME NEW c \in Clients, NEW s \in Sessions, NEW k \in Services, Attach(c, s, k)
      PROVE  KeeperInv'
  <2>1. UNCHANGED <<terms, taken, crossed, shell, session, lease, listener, up, closing, late>>
    BY <1>6 DEF Attach, clients, proxy, history
  <2>2. /\ svc[k].st = "free" /\ svc'[k].st = "starting"
        /\ \A j \in Services : j # k => svc'[j] = svc[j]
    BY <1>0, <1>6, ServiceAttach
  <2>3. svc[k].pid = 0
    BY <1>0, <2>2 DEF TypeInv, ServiceInv
  <2>4. \A d \in Clients : Attended(d) => Attended(d)'
    BY <2>1 DEF Attended
  <2>5. \A j \in Services : svc[j].pid # 0 => svc'[j] = svc[j]
    BY <2>2, <2>3
  <2>6. \A j \in Services : svc'[j].st = "bound" => svc[j].st = "bound"
    BY <2>2
  <2> QED BY <1>a, <2>1, <2>4, <2>5, <2>6
<1>7. ASSUME NEW k \in Services, NEW size \in Sizes, Spawned(k, size) PROVE KeeperInv'
  BY <1>0, <1>7, SpawnedDoes, KeeperSpawned
<1>8. ASSUME NEW k \in Services, StartFails(k) PROVE KeeperInv'
  <2>1. /\ svc[k].st = "starting" /\ svc' = [svc EXCEPT ![k].st = "failed"]
        /\ UNCHANGED <<terms, taken, crossed, shell, session, lease, listener, up, closing, late>>
    BY <1>8 DEF StartFails, clients, proxy, history
  <2>2. Becomes(k, "failed", svc[k].pid) /\ svc[k].pid = 0
    BY <1>0, <2>1, ChangesState DEF States, TypeInv, ServiceInv
  <2>3. \A j \in Services : svc[j].pid # 0 => svc'[j] = svc[j]
    BY <2>2 DEF Becomes
  <2>4. \A j \in Services : svc'[j].st = "bound" => svc[j].st = "bound"
    BY <2>2 DEF Becomes
  <2>5. \A d \in Clients : Attended(d) => Attended(d)'
    BY <2>1 DEF Attended
  <2> QED BY <1>a, <2>1, <2>3, <2>4, <2>5
<1>9. ASSUME NEW s \in Sessions, LeaseExpires(s) PROVE KeeperInv'
  <2>1. /\ lease[s] # 0 /\ lease' = [lease EXCEPT ![s] = 0]
        /\ session[s] = lease[s] => Killed({lease[s]})
        /\ UNCHANGED <<terms, taken, crossed, svc, listener, up, closing, late>>
    BY <1>9 DEF LeaseExpires, clients, services, history
  <2>2. Killed({lease[s]})
    BY <1>0, <2>1, LeaseFacts
  <2>3. /\ shell' = [p \in Pids |-> IF p \in {lease[s]} /\ shell[p] = "alive" THEN "killed"
                                    ELSE shell[p]]
        /\ session' = [t \in Sessions |-> IF session[t] \in {lease[s]} THEN 0 ELSE session[t]]
    BY <2>2 DEF Killed
  <2>4. ASSUME NEW p \in Pids, shell'[p] = "alive"
        PROVE  /\ shell[p] = "alive"
               /\ \A t \in Sessions : /\ lease[t] = p => lease'[t] = p
                                      /\ session[t] = p => session'[t] = p
    BY <1>0, <2>1, <2>3, <2>4
  <2>5. \A t \in Sessions : /\ lease'[t] # 0 => lease'[t] = lease[t]
                            /\ session'[t] # 0 => session'[t] = session[t]
    BY <1>0, <2>1, <2>3
  <2> QED BY <1>b, <2>1, <2>4, <2>5
<1>10. ASSUME NEW p \in Pids, ShellEnds(p) PROVE KeeperInv'
  <2>1. /\ shell' = [shell EXCEPT ![p] = "dead"]
        /\ UNCHANGED <<terms, taken, crossed, svc, session, lease, listener, up, closing, late>>
    BY <1>10 DEF ShellEnds, clients, services, history
  <2>2. \A q \in Pids : shell'[q] = "alive" => shell[q] = "alive"
    BY <1>0, <2>1
  <2> QED BY <1>b, <2>1, <2>2
<1>11. ASSUME NEW p \in Pids, ExitEvent(p) PROVE KeeperInv'
  BY <1>0, <1>11, KeeperExit
<1>12. ASSUME NEW p \in Pids, NEW size \in Sizes, Output(p, size) PROVE KeeperInv'
  <2>1. UNCHANGED <<terms, taken, crossed, svc, shell, session, lease, listener, up, closing, late>>
    BY <1>12 DEF Output, clients, services
  <2> QED BY <1>b, <2>1
<1>13. CASE \E id \in Ids : BatchTimer(id)
  BY <1>13, <1>q DEF BatchTimer, clients, services, history
<1>14. CASE UNCHANGED vars
  BY <1>14, <1>q DEF vars, clients, services, history
<1> QED BY <1>1, <1>2, <1>3, <1>4, <1>5, <1>6, <1>7, <1>8, <1>9, <1>10, <1>11, <1>12, <1>13, <1>14
        DEF Next

-----------------------------------------------------------------------------
(* The theorems.                                                               *)

\* The inductive invariant holds.
THEOREM Invariance == Spec => []IInv
<1>1. Init => IInv
  BY ClientInit, BatchInit, ServiceInit, MapInit, ShellInit, SessionInit, KeeperInit
  DEF IInv, TypeInv
<1>2. IInv /\ [Next]_vars => IInv'
  BY ClientStep, BatchStep, ServiceStep, MapStep, ShellStep, SessionStep, KeeperStep
  DEF IInv, TypeInv
<1> QED BY <1>1, <1>2, PTL DEF Spec

\* Every variable has its type and the maps agree, for any number of pages,
\* terminals and reconnections: an entry of clientTerminalMap is a PtyService of
\* that id, a session of ptySessionMap names a shell that was spawned and not
\* killed, and the timer of $scheduleSessionCleanup is about that shell.
THEOREM TypesHold == Spec => []TypeOK
<1>1. IInv => TypeOK
  <2> SUFFICES ASSUME IInv PROVE TypeOK
    OBVIOUS
  <2>1. \A c \in Clients : registered[c] \in 0 .. links[c]
    BY DEF IInv, TypeInv, ClientInv
  <2>2. batch \in [Ids -> Batches] /\ outputs \in 0 .. MaxOutputs
    BY DEF IInv, TypeInv, BatchInv
  <2>3. \A p \in spoken : shell[p] # "none"
    BY DEF IInv, TypeInv, ShellInv, UsedShells
  <2>4. \A s \in Sessions : /\ session[s] # 0 => shell[session[s]] \in {"alive", "dead"}
                            /\ lease[s] # 0 => lease[s] = session[s]
    BY DEF IInv, TypeInv, SessionInv
  <2>5. \A id \in Ids : /\ terms[id] # 0 => /\ svc[terms[id]].id = id
                                            /\ svc[terms[id]].st \in {"bound", "disposed"}
                        /\ procs[id] # 0 => svc[procs[id]].id = id
    BY DEF IInv, TypeInv, MapInv
  <2>6. /\ page \in [Clients -> {"new", "open", "left"}]
        /\ view \in [Ids -> {"none", "shown", "closed"}]
        /\ up \subseteq Clients /\ closing \subseteq Clients /\ up \intersect closing = {}
    BY DEF IInv, TypeInv, ClientInv
  <2> QED BY <2>1, <2>2, <2>3, <2>4, <2>5, <2>6 DEF TypeOK, Batches
<1> QED BY <1>1, Invariance, PTL

\* No shell of pty.proxy.ts is left alone: as long as it lives, a client that is
\* connected or in its grace period holds it, or the timer of its lease will end
\* it; and a terminal in use has no such timer, unless the page before still held
\* the session when it was resumed.  Left out is the terminal launched again whose
\* entry the exit event of its earlier shell deleted.
THEOREM ShellsHaveKeepers == Spec => []EveryShellHasAKeeper
<1>1. IInv => EveryShellHasAKeeper
  <2> SUFFICES ASSUME IInv PROVE EveryShellHasAKeeper
    OBVIOUS
  <2>1. \A p \in Pids : shell[p] = "alive" => Kept(p)
    BY DEF IInv, KeeperInv
  <2>2. ASSUME NEW s \in Sessions, InUse(s), lease[s] # 0 PROVE s \in taken \union crossed
    <3>1. PICK k \in Services : /\ svc[k].st = "bound" /\ svc[k].id[2] = s
                                /\ session[s] = svc[k].pid /\ listener[svc[k].pid] = k
      BY <2>2 DEF InUse
    <3>2. terms[svc[k].id] = k \/ s \in crossed
      BY <3>1 DEF IInv, KeeperInv
    <3>3. svc[k].id \in Ids
      BY <3>1 DEF IInv, TypeInv, ServiceInv
    <3>4. svc[k].id[1] \in Clients /\ svc[k].id = <<svc[k].id[1], s>>
      BY <3>1, <3>3, IdFacts
    <3>5. s \in crossed \/ terms[<<svc[k].id[1], s>>] # 0
      BY <3>2, <3>4, Services0
    <3> QED BY <2>2, <3>4, <3>5 DEF IInv, KeeperInv
  <2> QED BY <2>1, <2>2 DEF EveryShellHasAKeeper, Kept
<1> QED BY <1>1, Invariance, PTL

\* Output that terminal.service.ts holds back has the timer that will send it,
\* except after a burst that was flushed because of its size.
THEOREM BatchesAreSent == Spec => []OutputIsSent
<1>1. IInv => OutputIsSent
  BY DEF IInv, TypeInv, BatchInv, OutputIsSent, Batches
<1> QED BY <1>1, Invariance, PTL

=============================================================================
