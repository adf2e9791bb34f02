-------------------------- MODULE WatcherHost_proofs --------------------------
(* Proofs about WatcherHost, for every value of its constants.                 *)
EXTENDS WatcherHost, FiniteSetTheorems, WellFoundedInduction, TLAPS

-----------------------------------------------------------------------------
(* The native watchers are never replaced under an awaited start, and what     *)
(* they replaced watches nothing.                                              *)

Owners == [kind : {"request"}, of : Requests] \cup
          [kind : {"task"}, of : Paths \X (Nat \ {0})] \cup
          [kind : {"excludes"}, of : {0}]

Halves == {"none", "starting", "up", "failed"}

Tasks == [path : Paths, n : Nat \ {0}, ver : Nat, retry : {0, 1}, by : Owners,
          stage : {"starting", "resetting"}, file : Halves \ {"none"}, tree : Halves]

\* The fields that say what is starting.
StartTypes ==
    /\ version \in Nat /\ seq \in [Paths -> Nat]
    /\ pending \in [Paths -> Entries] /\ tasks \subseteq Tasks

\* A starting watch is the pending watch of its path, on the current watchers.
StartsArePending(ts, pd, ver) ==
    \A t \in ts : t.stage = "starting" =>
        t.ver = ver /\ pd[t.path] = Entry(t.n, ver, FALSE)

\* A path has one starting watch.
OneStart(ts) ==
    \A t, u \in ts :
        t.stage = "starting" /\ u.stage = "starting" /\ t.path = u.path => t = u

\* Only recursive starts under way belong to earlier watchers.
NativeInv(nt, ver) ==
    /\ nt \subseteq Paths \X (0..ver) \X Kinds
    /\ \A w \in nt : /\ w[3] # "opening" => w[2] = ver
                     /\ w[3] # "file" => w[1] \in Trees

IInv == /\ StartTypes
        /\ StartsArePending(tasks, pending, version)
        /\ OneStart(tasks)
        /\ NativeInv(native, version)

LEMMA EntryFields ==
    ASSUME NEW n \in Nat, NEW ver \in Nat, NEW tree \in BOOLEAN
    PROVE  /\ Entry(n, ver, tree) \in Entries /\ Entry(n, ver, tree).n = n
           /\ Entry(n, ver, tree).ver = ver /\ Entry(n, ver, tree).tree = tree
BY DEF Entry, Entries

LEMMA NoEntry == None \in Entries /\ None.n = 0
BY DEF Entry, Entries, None

LEMMA IInvInit == Init => IInv
<1> SUFFICES ASSUME Init PROVE IInv
  OBVIOUS
<1>1. /\ version = 0 /\ seq = [p \in Paths |-> 0] /\ tasks = {} /\ native = {}
      /\ pending = [p \in Paths |-> None]
  BY DEF Init
<1> QED BY <1>1, NoEntry
        DEF IInv, StartTypes, StartsArePending, OneStart, NativeInv

LEMMA TaskFields ==
    ASSUME NEW p, NEW n, NEW ver, NEW retry, NEW by, NEW tree
    PROVE  LET t == Task(p, n, ver, retry, by, tree) IN
           /\ t.path = p /\ t.n = n /\ t.ver = ver /\ t.retry = retry
           /\ t.by = by /\ t.tree = tree
           /\ t.stage = "starting" /\ t.file = "starting"
BY DEF Task

LEMMA NewTask ==
    ASSUME NEW p \in Paths, NEW n \in Nat \ {0}, NEW ver \in Nat,
           NEW retry \in {0, 1}, NEW by \in Owners, NEW tree \in Halves
    PROVE  Task(p, n, ver, retry, by, tree) \in Tasks
BY DEF Task, Tasks, Halves

LEMMA JoinedCases ==
    ASSUME NEW p, NEW ver, NEW nt
    PROVE  /\ Joined(p, ver, nt) \in Halves
           /\ Joined(p, ver, nt) \in {"none", "starting", "up"}
           /\ Joined(p, ver, nt) = "none" <=> p \notin Trees
           /\ Joined(p, ver, nt) = "up" => <<p, ver, "tree">> \in nt
BY DEF Joined, Halves

LEMMA OpenedNative ==
    ASSUME version \in Nat, NEW p \in Paths, NEW nt, NativeInv(nt, version)
    PROVE  NativeInv(Opened(p, version, nt), version)
<1>1. CASE Joined(p, version, nt) # "starting"
  BY <1>1 DEF Opened
<1>2. CASE Joined(p, version, nt) = "starting"
  <2>1. Opened(p, version, nt) = nt \cup {<<p, version, "opening">>} /\ p \in Trees
    BY <1>2, JoinedCases DEF Opened
  <2>2. <<p, version, "opening">> \in Paths \X (0..version) \X Kinds
    BY DEF Kinds
  <2> QED BY <2>1, <2>2 DEF NativeInv
<1> QED BY <1>1, <1>2

LEMMA OwnersTyped ==
    /\ \A r \in Requests : ForRequest(r) \in Owners
    /\ \A t \in Tasks : ForTask(t) \in Owners
    /\ ForNobody \in Owners
<1>1. \A r \in Requests : ForRequest(r) \in Owners
  BY DEF ForRequest, Owners
<1>2. ASSUME NEW t \in Tasks PROVE ForTask(t) \in Owners
  <2>1. <<t.path, t.n>> \in Paths \X (Nat \ {0})
    BY DEF Tasks
  <2> QED BY <2>1 DEF ForTask, Owners
<1>3. ForNobody \in Owners
  BY DEF ForNobody, Owners
<1> QED BY <1>1, <1>2, <1>3

\* What a task is started for in a path that is not watched is not starting.
LEMMA NothingStarts ==
    ASSUME NEW p, NEW hs, NEW pd, NEW rest \in SUBSET Tasks,
           StartsArePending(rest, pd, version), ~Watched(p, hs, pd)
    PROVE  \A t \in rest : t.stage = "starting" => t.path # p
<1> SUFFICES ASSUME NEW t \in rest, t.stage = "starting", t.path = p
             PROVE  FALSE
  OBVIOUS
<1>1. pd[p] = Entry(t.n, version, FALSE) /\ t.n # 0
  BY DEF StartsArePending, Tasks
<1>2. Starting(p, pd)
  BY <1>1 DEF Starting, Entry
<1> QED BY <1>2 DEF Watched

(* A doWatch of a path keeps the invariant: it starts a watch only if none is  *)
(* starting for the path on the current watchers.                              *)
LEMMA DoWatchKeeps ==
    ASSUME StartTypes, version' = version,
           NEW p \in Paths, NEW retry \in {0, 1}, NEW by \in Owners, NEW hs,
           NEW pd \in [Paths -> Entries], NEW nt, NEW rest \in SUBSET Tasks,
           StartsArePending(rest, pd, version), OneStart(rest),
           NativeInv(nt, version),
           DoWatch(p, retry, by, hs, pd, nt, rest)
    PROVE  IInv'
<1>1. CASE Watched(p, hs, pd)
  <2>1. pending' = pd /\ tasks' = rest /\ seq' = seq /\ native' = nt
    BY <1>1 DEF DoWatch
  <2> QED BY <2>1 DEF IInv, StartTypes, StartsArePending, OneStart, NativeInv
<1>2. CASE ~Watched(p, hs, pd)
  <2> DEFINE n == seq[p] + 1
             new == Task(p, n, version, retry, by, Joined(p, version, nt))
  <2>1. n \in Nat \ {0} /\ version \in Nat
    BY DEF StartTypes
  <2>2. /\ seq' = [seq EXCEPT ![p] = n]
        /\ pending' = [pd EXCEPT ![p] = Entry(n, version, FALSE)]
        /\ tasks' = rest \cup {new}
        /\ native' = Opened(p, version, nt)
    BY <1>2 DEF DoWatch
  <2>3. /\ new \in Tasks
        /\ new.path = p /\ new.n = n /\ new.ver = version
        /\ new.stage = "starting"
    <3>1. Joined(p, version, nt) \in Halves
      BY JoinedCases
    <3>2. new \in Tasks
      BY <2>1, <3>1, NewTask
    <3> QED BY <3>2, TaskFields
  <2>e. Entry(n, version, FALSE) \in Entries
    BY <2>1, EntryFields
  <2> HIDE DEF n, new
  <2>4. \A t \in rest : t.stage = "starting" => t.path # p
    BY <1>2, NothingStarts
  <2>5. StartTypes'
    <3>1. seq' \in [Paths -> Nat]
      BY <2>1, <2>2 DEF StartTypes
    <3>2. pending' \in [Paths -> Entries]
      BY <2>2, <2>e
    <3> QED BY <2>2, <2>3, <3>1, <3>2 DEF StartTypes
  <2>6. StartsArePending(tasks', pending', version')
    <3> SUFFICES ASSUME NEW t \in tasks', t.stage = "starting"
                 PROVE  /\ t.ver = version
                        /\ pending'[t.path] = Entry(t.n, version, FALSE)
      BY DEF StartsArePending
    <3>1. CASE t \in rest
      <4>1. t.path \in Paths /\ t.path # p
        BY <3>1, <2>4 DEF Tasks
      <4>2. pending'[t.path] = pd[t.path]
        BY <4>1, <2>2
      <4> QED BY <3>1, <4>2 DEF StartsArePending
    <3>2. CASE t = new
      BY <3>2, <2>2, <2>3
    <3> QED BY <3>1, <3>2, <2>2
  <2>7. OneStart(tasks')
    BY <2>2, <2>3, <2>4 DEF OneStart
  <2>8. NativeInv(native', version')
    BY <2>1, <2>2, OpenedNative
  <2> QED BY <2>5, <2>6, <2>7, <2>8 DEF IInv, StartsArePending, OneStart, NativeInv
<1> QED BY <1>1, <1>2

(* A reset while nothing is starting keeps the invariant: every collected path *)
(* gets one start, on the new watchers.                                        *)
LEMMA ResetKeeps ==
    ASSUME StartTypes, NEW by \in Owners, NEW rest \in SUBSET Tasks,
           \A t \in rest : t.stage # "starting",
           NEW nt, NativeInv(nt, version),
           Reset(by, nt, rest)
    PROVE  IInv'
<1> DEFINE new(p) == Task(p, seq[p] + 1, version + 1, 0, by, Joined(p, version + 1, {}))
<1>1. /\ version' = version + 1 /\ version + 1 \in Nat
      /\ seq' = [p \in Paths |-> IF p \in Targets THEN seq[p] + 1 ELSE seq[p]]
      /\ pending' = [p \in Paths |-> IF p \in Targets
                                     THEN Entry(seq[p] + 1, version + 1, FALSE)
                                     ELSE None]
      /\ tasks' = rest \cup {new(p) : p \in Targets}
      /\ native' = Opening(nt) \cup
            {<<p, version + 1, "opening">> : p \in Targets \cap Trees}
  BY DEF Reset, StartTypes
<1>2. Targets \subseteq Paths
  BY DEF Targets
<1>3. ASSUME NEW p \in Targets
      PROVE  /\ new(p) \in Tasks
             /\ Entry(seq[p] + 1, version + 1, FALSE) \in Entries
             /\ new(p).path = p /\ new(p).n = seq[p] + 1
             /\ new(p).ver = version + 1 /\ new(p).stage = "starting"
  <2>1. p \in Paths /\ seq[p] + 1 \in Nat \ {0} /\ 0 \in {0, 1}
    BY <1>2 DEF StartTypes
  <2>2. Joined(p, version + 1, {}) \in Halves
    BY JoinedCases
  <2>3. new(p) \in Tasks
    BY <1>1, <2>1, <2>2, NewTask
  <2>4. Entry(seq[p] + 1, version + 1, FALSE) \in Entries
    BY <1>1, <2>1, EntryFields
  <2>5. /\ new(p).path = p /\ new(p).n = seq[p] + 1
        /\ new(p).ver = version + 1 /\ new(p).stage = "starting"
    BY DEF Task
  <2> QED BY <2>3, <2>4, <2>5
<1> HIDE DEF new
<1>4. StartTypes'
  <2>1. seq' \in [Paths -> Nat]
    BY <1>1 DEF StartTypes
  <2>2. pending' \in [Paths -> Entries]
    BY <1>1, <1>3, NoEntry
  <2>3. tasks' \subseteq Tasks
    <3>1. \A t \in tasks' : t \in rest \/ \E p \in Targets : t = new(p)
      BY <1>1
    <3>2. \A p \in Targets : new(p) \in Tasks
      BY <1>3
    <3> QED BY <3>1, <3>2
  <2> QED BY <1>1, <2>1, <2>2, <2>3 DEF StartTypes
<1>5. \A t \in tasks' : t.stage = "starting" =>
         \E p \in Targets : t = new(p)
  BY <1>1
<1>6. StartsArePending(tasks', pending', version')
  <2> SUFFICES ASSUME NEW t \in tasks', t.stage = "starting"
               PROVE  /\ t.ver = version'
                      /\ pending'[t.path] = Entry(t.n, version', FALSE)
    BY DEF StartsArePending
  <2>1. PICK p \in Targets : t = new(p)
    BY <1>5
  <2>2. pending'[p] = Entry(seq[p] + 1, version + 1, FALSE)
    BY <1>1, <1>2
  <2> QED BY <1>1, <1>3, <2>1, <2>2
<1>7. OneStart(tasks')
  <2> SUFFICES ASSUME NEW t \in tasks', NEW u \in tasks', t.stage = "starting",
                      u.stage = "starting", t.path = u.path
               PROVE  t = u
    BY DEF OneStart
  <2>1. PICK p \in Targets : t = new(p)
    BY <1>5
  <2>2. PICK q \in Targets : u = new(q)
    BY <1>5
  <2>3. t.path = p /\ u.path = q
    BY <1>3, <2>1, <2>2
  <2> QED BY <2>1, <2>2, <2>3
<1>8. NativeInv(native', version')
  <2> SUFFICES ASSUME NEW w \in native'
               PROVE  /\ w \in Paths \X (0..version') \X Kinds
                      /\ w[3] = "opening" /\ w[1] \in Trees
    BY DEF NativeInv
  <2>1. CASE w \in Opening(nt)
    <3>1. w \in nt /\ w[3] = "opening"
      BY <2>1 DEF Opening
    <3>2. w[1] \in Trees /\ w \in Paths \X (0..version) \X Kinds
      BY <3>1 DEF NativeInv
    <3>3. 0..version \subseteq 0..version'
      BY <1>1 DEF StartTypes
    <3> QED BY <3>1, <3>2, <3>3
  <2>2. CASE \E p \in Targets \cap Trees : w = <<p, version + 1, "opening">>
    <3>1. version + 1 \in 0..version'
      BY <1>1
    <3>2. "opening" \in Kinds
      BY DEF Kinds
    <3> QED BY <1>1, <1>2, <2>2, <3>1, <3>2
  <2> QED BY <1>1, <2>1, <2>2
<1> QED BY <1>4, <1>6, <1>7, <1>8 DEF IInv, StartsArePending, OneStart, NativeInv

LEMMA OutdatedTwice ==
    ASSUME NEW t, NEW pd, NEW nt, NEW rest, Finish(t, pd, nt, rest),
           t.file # "failed", Outdated(t), t.retry = 1
    PROVE  /\ pending' = pd /\ tasks' = rest /\ seq' = seq
           /\ native' = nt \ Of(t.path, t.ver)
           /\ collection' = [collection EXCEPT ![t.path] =
                               Entry(t.n, t.ver, t.tree = "up")]
           /\ overtaken' = overtaken \cup {t.path}
           /\ handlers' = handlers \ {<<t.path, t.n>>}
           /\ Answered(t.by, t.n)
<1> DEFINE id == <<t.path, t.n>>
           gone == Of(t.path, t.ver)
           entry == Entry(t.n, t.ver, t.tree = "up")
<1>1. t.retry # 0
  OBVIOUS
<1> QED BY <1>1 DEF Finish

(* The end of a doWatch keeps the invariant.                                   *)
LEMMA FinishKeeps ==
    ASSUME StartTypes, version' = version,
           NEW t \in Tasks, NEW pd \in [Paths -> Entries], NEW nt,
           NEW rest \in SUBSET Tasks, NativeInv(nt, version),
           StartsArePending(rest, pd, version), OneStart(rest),
           Finish(t, pd, nt, rest)
    PROVE  IInv'
<1>1. NativeInv(nt \ Of(t.path, t.ver), version)
  BY DEF NativeInv
<1>2. CASE t.file # "failed" /\ Outdated(t) /\ t.retry = 0
  <2>1. DoWatch(t.path, 1, t.by, handlers \ {<<t.path, t.n>>}, pd,
                nt \ Of(t.path, t.ver), rest)
    BY <1>2 DEF Finish
  <2>2. t.path \in Paths /\ t.by \in Owners /\ 1 \in {0, 1}
    BY DEF Tasks
  <2> QED BY <1>1, <2>1, <2>2, DoWatchKeeps
<1>3. CASE ~(t.file # "failed" /\ Outdated(t) /\ t.retry = 0)
  <2>1. t.retry \in {0, 1}
    BY DEF Tasks
  <2>2. pending' = pd /\ tasks' = rest /\ seq' = seq /\ NativeInv(native', version)
    <3>1. CASE t.file = "failed"
      BY <3>1 DEF Finish
    <3>2. CASE t.file # "failed" /\ ~Outdated(t)
      BY <3>2 DEF Finish
    <3>3. CASE t.file # "failed" /\ Outdated(t) /\ t.retry = 1
      <4>1. /\ pending' = pd /\ tasks' = rest /\ seq' = seq
            /\ native' = nt \ Of(t.path, t.ver)
        BY <3>3, OutdatedTwice
      <4> QED BY <1>1, <4>1
    <3> QED BY <1>3, <2>1, <3>1, <3>2, <3>3
  <2> QED BY <2>2 DEF IInv, StartTypes, StartsArePending, OneStart, NativeInv
<1> QED BY <1>2, <1>3

\* "as" is the task t with one of its two starts over.
Advanced(t, as) ==
    /\ as \in Tasks /\ as.path = t.path /\ as.n = t.n /\ as.ver = t.ver
    /\ as.retry = t.retry /\ as.by = t.by /\ as.stage = t.stage

LEMMA Advances ==
    ASSUME NEW t \in Tasks, NEW half \in {"up", "failed"}
    PROVE  /\ Advanced(t, [t EXCEPT !.file = half])
           /\ Advanced(t, [t EXCEPT !.tree = half])
           /\ [t EXCEPT !.file = half].file = half
           /\ [t EXCEPT !.file = half].tree = t.tree
           /\ [t EXCEPT !.tree = half].tree = half
           /\ [t EXCEPT !.tree = half].file = t.file
<1>1. /\ [t EXCEPT !.file = half] \in Tasks /\ [t EXCEPT !.tree = half] \in Tasks
  BY DEF Tasks, Halves
<1> QED BY <1>1 DEF Tasks, Advanced

LEMMA Resets ==
    ASSUME NEW t \in Tasks
    PROVE  LET late == [t EXCEPT !.stage = "resetting"] IN
           /\ late \in Tasks /\ late.stage = "resetting" /\ late.path = t.path
           /\ late.n = t.n /\ late.ver = t.ver /\ late.retry = t.retry
           /\ late.by = t.by /\ late.file = t.file /\ late.tree = t.tree
BY DEF Tasks

\* The other starting watches, once the pending entry of one is gone.
LEMMA OthersPending ==
    ASSUME IInv, NEW t \in tasks, t.stage = "starting"
    PROVE  LET pd == [pending EXCEPT ![t.path] = None]
               rest == tasks \ {t}
           IN  /\ pd \in [Paths -> Entries] /\ pd[t.path] = None
               /\ StartsArePending(rest, pd, version) /\ OneStart(rest)
               /\ LastToStart(pd) => \A u \in rest : u.stage # "starting"
<1> DEFINE pd == [pending EXCEPT ![t.path] = None]
           rest == tasks \ {t}
<1>1. StartTypes /\ t.path \in Paths /\ pending \in [Paths -> Entries]
  BY DEF IInv, StartTypes, Tasks
<1>2. pd \in [Paths -> Entries] /\ pd[t.path] = None
      /\ \A q \in Paths : q # t.path => pd[q] = pending[q]
  BY <1>1, NoEntry
<1> HIDE DEF pd
<1>3. ASSUME NEW u \in rest, u.stage = "starting"
      PROVE  /\ u.path \in Paths /\ u.n # 0 /\ u.ver = version
             /\ pd[u.path] = Entry(u.n, version, FALSE)
  <2>1. u.path \in Paths /\ u.n # 0
    BY <1>1 DEF StartTypes, Tasks
  <2>2. u.path # t.path
    BY <1>3 DEF IInv, OneStart
  <2>3. pd[u.path] = pending[u.path]
    BY <1>2, <2>1, <2>2
  <2> QED BY <1>3, <2>1, <2>3 DEF IInv, StartsArePending
<1>4. StartsArePending(rest, pd, version)
  BY <1>3 DEF StartsArePending
<1>5. OneStart(rest)
  BY DEF IInv, OneStart
<1>6. ASSUME LastToStart(pd), NEW u \in rest PROVE u.stage # "starting"
  <2> SUFFICES ASSUME u.stage = "starting" PROVE FALSE
    OBVIOUS
  <2>1. u.path \in Paths /\ u.n # 0 /\ pd[u.path] = Entry(u.n, version, FALSE)
    BY <1>3
  <2>2. pd[u.path] = None
    BY <1>6, <2>1 DEF LastToStart
  <2> QED BY <2>1, <2>2 DEF Entry, None
<1> QED BY <1>2, <1>4, <1>5, <1>6 DEF pd

LEMMA HalfEndsStep ==
    ASSUME IInv, NEW t \in tasks, t.stage = "starting", NEW as, Advanced(t, as),
           NEW nt, NativeInv(nt, version), HalfEnds(t, as, nt)
    PROVE  IInv'
<1> DEFINE pd == [pending EXCEPT ![t.path] = None]
           rest == tasks \ {t}
           late == [as EXCEPT !.stage = "resetting"]
<1>1. /\ StartTypes /\ t \in Tasks /\ as \in Tasks /\ rest \in SUBSET Tasks
      /\ as.path = t.path /\ as.n = t.n /\ as.ver = t.ver /\ as.stage = "starting"
  BY DEF IInv, StartTypes, Advanced
<1>2. /\ pd \in [Paths -> Entries] /\ StartsArePending(rest, pd, version)
      /\ OneStart(rest)
      /\ LastToStart(pd) => \A u \in rest : u.stage # "starting"
  BY OthersPending
<1>3. CASE ~Settled(as)
  <2>1. /\ tasks' = rest \cup {as} /\ native' = nt
        /\ UNCHANGED <<version, seq, pending>>
    BY <1>3 DEF HalfEnds, server
  <2>2. StartTypes'
    BY <1>1, <2>1 DEF StartTypes
  <2>3. StartsArePending(tasks', pending', version')
    <3>1. StartsArePending(tasks, pending, version)
      BY DEF IInv
    <3>2. as.ver = version /\ pending[as.path] = Entry(as.n, version, FALSE)
      BY <1>1, <3>1 DEF StartsArePending
    <3> QED BY <2>1, <3>1, <3>2 DEF StartsArePending
  <2>4. OneStart(tasks')
    <3>1. OneStart(tasks)
      BY DEF IInv
    <3>2. \A u \in rest : u.stage = "starting" => u.path # as.path
      BY <1>1, <3>1 DEF OneStart
    <3>3. OneStart(rest)
      BY <3>1 DEF OneStart
    <3> QED BY <2>1, <3>2, <3>3 DEF OneStart
  <2> QED BY <2>1, <2>2, <2>3, <2>4
          DEF IInv, StartsArePending, OneStart, NativeInv
<1>4. CASE Settled(as) /\ LastToStart(pd) /\ deferred \ {excludes} # {}
  <2>1. Reset(ForTask(t), nt, rest \cup {late})
    BY <1>4 DEF HalfEnds, Settle
  <2>2. late \in Tasks /\ late.stage = "resetting"
    BY <1>1, Resets
  <2>3. rest \cup {late} \in SUBSET Tasks
    BY <1>1, <2>2
  <2>4. \A u \in rest \cup {late} : u.stage # "starting"
    BY <1>2, <1>4, <2>2
  <2>5. ForTask(t) \in Owners
    BY <1>1, OwnersTyped
  <2> HIDE DEF rest, late
  <2> QED BY <1>1, <2>1, <2>3, <2>4, <2>5, ResetKeeps
<1>5. CASE Settled(as) /\ ~(LastToStart(pd) /\ deferred \ {excludes} # {})
  <2>1. Finish(as, pd, nt, rest) /\ version' = version
    BY <1>5 DEF HalfEnds, Settle
  <2> HIDE DEF pd, rest
  <2> QED BY <1>1, <1>2, <2>1, FinishKeeps
<1> QED BY <1>3, <1>4, <1>5

LEMMA FileEndsHalf ==
    ASSUME IInv, NEW t \in tasks, NEW how \in {"up", "empty", "failed"},
           FileEnds(t, how)
    PROVE  \E nt, as :
              /\ Advanced(t, as) /\ as.tree = t.tree
              /\ as.file = IF how = "failed" THEN "failed" ELSE "up"
              /\ nt = IF how = "up" THEN native \cup {<<t.path, version, "file">>}
                                    ELSE native
              /\ NativeInv(nt, version) /\ HalfEnds(t, as, nt)
              /\ broken' = IF how = "up" THEN broken ELSE broken \cup {t.path}
<1> DEFINE half == IF how = "failed" THEN "failed" ELSE "up"
           nt == IF how = "up" THEN native \cup {<<t.path, t.ver, "file">>} ELSE native
           as == [t EXCEPT !.file = half]
<1>1. t \in Tasks /\ t.path \in Paths /\ version \in Nat /\ t.ver = version
  BY DEF IInv, StartTypes, Tasks, StartsArePending, FileEnds
<1>2. Advanced(t, as) /\ as.tree = t.tree /\ as.file = half
  <2>1. half \in {"up", "failed"}
    OBVIOUS
  <2> HIDE DEF half
  <2> QED BY <1>1, <2>1, Advances
<1>3. NativeInv(nt, version)
  <2>1. <<t.path, version, "file">> \in Paths \X (0..version) \X Kinds
    BY <1>1 DEF Kinds
  <2> QED BY <1>1, <2>1 DEF IInv, NativeInv
<1>4. HalfEnds(t, as, nt)
      /\ broken' = IF how = "up" THEN broken ELSE broken \cup {t.path}
  BY DEF FileEnds
<1> HIDE DEF as
<1> QED BY <1>1, <1>2, <1>3, <1>4

\* The task that awaits a recursive start that is over, if there is one.
Awaits(t, w) ==
    /\ t.stage = "starting" /\ t.tree = "starting" /\ t.path = w[1] /\ t.ver = w[2]

Ended(w, up) ==
    IF up /\ w[2] = version THEN (native \ {w}) \cup {<<w[1], version, "tree">>}
                            ELSE native \ {w}

LEMMA TreeEndsHalf ==
    ASSUME IInv, NEW w \in native, NEW up \in BOOLEAN, TreeEnds(w, up)
    PROVE  /\ w[3] = "opening" /\ w[1] \in Paths
           /\ broken' = IF up THEN broken ELSE broken \cup {w[1]}
           /\ NativeInv(Ended(w, up), version)
           /\ \/ /\ \A t \in tasks : ~Awaits(t, w)
                 /\ native' = Ended(w, up)
                 /\ UNCHANGED <<server, tasks, client, overtaken>>
              \/ \E t \in tasks : \E as :
                    /\ Awaits(t, w) /\ Advanced(t, as) /\ as.file = t.file
                    /\ as.tree = IF up THEN "up" ELSE "failed"
                    /\ HalfEnds(t, as, Ended(w, up))
<1>1. /\ w[3] = "opening" /\ w[1] \in Paths /\ w[1] \in Trees /\ version \in Nat
  BY DEF TreeEnds, Opening, IInv, NativeInv, StartTypes
<1>2. NativeInv(Ended(w, up), version)
  <2>1. <<w[1], version, "tree">> \in Paths \X (0..version) \X Kinds
    BY <1>1 DEF Kinds
  <2> QED BY <1>1, <2>1 DEF IInv, NativeInv, Ended
<1> DEFINE nt == IF up /\ ~Replaced(w[2]) THEN (native \ {w}) \cup {<<w[1], w[2], "tree">>}
                                          ELSE native \ {w}
           awaiting == {t \in tasks : /\ t.stage = "starting" /\ t.tree = "starting"
                                      /\ t.path = w[1] /\ t.ver = w[2]}
<1>3. nt = Ended(w, up)
  BY DEF Ended, Replaced
<1>4. /\ broken' = IF up THEN broken ELSE broken \cup {w[1]}
      /\ \/ /\ awaiting = {} /\ native' = nt
            /\ UNCHANGED <<server, tasks, client, overtaken>>
         \/ \E t \in awaiting :
               HalfEnds(t, [t EXCEPT !.tree = IF up THEN "up" ELSE "failed"], nt)
  BY DEF TreeEnds
<1> HIDE DEF nt
<1>5. CASE awaiting = {} /\ native' = nt /\ UNCHANGED <<server, tasks, client, overtaken>>
  <2>1. \A t \in tasks : ~Awaits(t, w)
    BY <1>5 DEF Awaits
  <2> QED BY <1>1, <1>2, <1>3, <1>4, <1>5, <2>1
<1>6. ASSUME NEW t \in awaiting,
             HalfEnds(t, [t EXCEPT !.tree = IF up THEN "up" ELSE "failed"], nt)
      PROVE  \E u \in tasks : \E as :
                    /\ Awaits(u, w) /\ Advanced(u, as) /\ as.file = u.file
                    /\ as.tree = IF up THEN "up" ELSE "failed"
                    /\ HalfEnds(u, as, Ended(w, up))
  <2> DEFINE as == [t EXCEPT !.tree = IF up THEN "up" ELSE "failed"]
  <2>1. t \in tasks /\ t \in Tasks /\ Awaits(t, w)
    BY DEF IInv, StartTypes, Awaits
  <2>2. Advanced(t, as) /\ as.file = t.file
        /\ as.tree = IF up THEN "up" ELSE "failed"
    <3> DEFINE half == IF up THEN "up" ELSE "failed"
    <3>1. half \in {"up", "failed"}
      OBVIOUS
    <3> HIDE DEF half
    <3>2. Advanced(t, [t EXCEPT !.tree = half]) /\ [t EXCEPT !.tree = half].tree = half
          /\ [t EXCEPT !.tree = half].file = t.file
      BY <2>1, <3>1, Advances
    <3> QED BY <3>2 DEF half
  <2> HIDE DEF as
  <2>3. HalfEnds(t, as, Ended(w, up))
    BY <1>3, <1>6 DEF as
  <2> QED BY <2>1, <2>2, <2>3
<1> QED BY <1>1, <1>2, <1>4, <1>5, <1>6

LEMMA TreeTimesOutHalf ==
    ASSUME IInv, NEW t \in tasks, TreeTimesOut(t)
    PROVE  \E as : /\ Advanced(t, as) /\ as.tree = "failed" /\ as.file = t.file
                   /\ HalfEnds(t, as, native) /\ broken' = broken \cup {t.path}
<1> DEFINE as == [t EXCEPT !.tree = "failed"]
<1>1. Advanced(t, as) /\ as.tree = "failed" /\ as.file = t.file
  BY Advances DEF IInv, StartTypes
<1>2. HalfEnds(t, as, native) /\ broken' = broken \cup {t.path}
  BY DEF TreeTimesOut
<1> HIDE DEF as
<1> QED BY <1>1, <1>2

LEMMA TreeEndsStep ==
    ASSUME IInv, NEW w \in native, NEW up \in BOOLEAN, TreeEnds(w, up)
    PROVE  IInv'
<1>1. CASE native' = Ended(w, up) /\ UNCHANGED <<server, tasks>>
  <2>1. NativeInv(Ended(w, up), version)
    BY TreeEndsHalf
  <2>2. UNCHANGED <<version, seq, pending, tasks>>
    BY <1>1 DEF server
  <2> QED BY <1>1, <2>1, <2>2
          DEF IInv, StartTypes, StartsArePending, OneStart, NativeInv
<1>2. CASE \E t \in tasks : \E as :
              /\ Awaits(t, w) /\ Advanced(t, as)
              /\ HalfEnds(t, as, Ended(w, up))
  <2>1. NativeInv(Ended(w, up), version)
    BY TreeEndsHalf
  <2> QED BY <1>2, <2>1, HalfEndsStep DEF Awaits
<1> QED BY <1>1, <1>2, TreeEndsHalf

LEMMA ResetDoneStep ==
    ASSUME IInv, NEW t \in tasks, ResetDone(t)
    PROVE  IInv'
<1>1. Finish(t, pending, native, tasks \ {t}) /\ version' = version
  BY DEF ResetDone
<1>2. /\ StartTypes /\ t \in Tasks /\ pending \in [Paths -> Entries]
      /\ tasks \ {t} \in SUBSET Tasks /\ NativeInv(native, version)
  BY DEF IInv, StartTypes
<1>3. StartsArePending(tasks \ {t}, pending, version) /\ OneStart(tasks \ {t})
  BY DEF IInv, StartsArePending, OneStart
<1> QED BY <1>1, <1>2, <1>3, FinishKeeps

LEMMA IInvStep == IInv /\ [Next]_vars => IInv'
<1> SUFFICES ASSUME IInv, [Next]_vars PROVE IInv'
  OBVIOUS
<1>0. StartTypes /\ NativeInv(native, version)
  BY DEF IInv
<1>1. ASSUME NEW r \in Requests, Watch(r) PROVE IInv'
  <2>1. /\ DoWatch(PathOf[r], 0, ForRequest(r), handlers, pending, native, tasks)
        /\ version' = version
    BY <1>1 DEF Watch
  <2>2. PathOf[r] \in Paths /\ ForRequest(r) \in Owners /\ 0 \in {0, 1}
    BY OwnersTyped, WatcherHostAssumption
  <2>3. pending \in [Paths -> Entries] /\ tasks \in SUBSET Tasks
    BY <1>0 DEF StartTypes
  <2>4. StartsArePending(tasks, pending, version) /\ OneStart(tasks)
    BY DEF IInv
  <2> QED BY <1>0, <2>1, <2>2, <2>3, <2>4, DoWatchKeeps
<1>2. ASSUME NEW r \in Requests, Unwatch(r) PROVE IInv'
  <2>1. native' \subseteq native /\ UNCHANGED <<version, seq, pending, tasks>>
    BY <1>2 DEF Unwatch
  <2> QED BY <2>1 DEF IInv, StartTypes, StartsArePending, OneStart, NativeInv
<1>3. ASSUME NEW v \in Settings, SetExcludes(v) PROVE IInv'
  <2>1. CASE v # excludes /\ NonePending
    <3>1. Reset(ForNobody, native, tasks)
      BY <1>3, <2>1 DEF SetExcludes
    <3>2. ASSUME NEW t \in tasks PROVE t.stage # "starting"
      <4>1. t.path \in Paths /\ t.n # 0
        BY <1>0 DEF StartTypes, Tasks
      <4>2. pending[t.path] = None
        BY <2>1, <4>1 DEF NonePending
      <4>3. t.stage = "starting" => pending[t.path] = Entry(t.n, version, FALSE)
        BY DEF IInv, StartsArePending
      <4> QED BY <4>1, <4>2, <4>3 DEF Entry, None
    <3>3. tasks \in SUBSET Tasks
      BY <1>0 DEF StartTypes
    <3> QED BY <1>0, <3>1, <3>2, <3>3, OwnersTyped, ResetKeeps
  <2>2. CASE ~(v # excludes /\ NonePending)
    <3>1. UNCHANGED <<version, seq, pending, tasks, native>>
      <4>1. CASE v = excludes
        BY <1>3, <4>1 DEF SetExcludes, server
      <4>2. CASE v # excludes /\ ~NonePending
        BY <1>3, <4>2 DEF SetExcludes
      <4> QED BY <2>2, <4>1, <4>2
    <3> QED BY <3>1 DEF IInv, StartTypes, StartsArePending, OneStart, NativeInv
  <2> QED BY <2>1, <2>2
<1>4. ASSUME NEW t \in tasks, NEW how \in {"up", "empty", "failed"}, FileEnds(t, how)
      PROVE  IInv'
  BY <1>4, FileEndsHalf, HalfEndsStep DEF FileEnds
<1>5. ASSUME NEW t \in tasks, TreeTimesOut(t) PROVE IInv'
  BY <1>0, <1>5, TreeTimesOutHalf, HalfEndsStep DEF TreeTimesOut
<1>6. CASE Continue
  BY <1>4, <1>5, <1>6, TreeEndsStep, ResetDoneStep DEF Continue
<1>7. CASE UNCHANGED vars
  BY <1>7 DEF vars, server, IInv, StartTypes, StartsArePending, OneStart, NativeInv
<1> QED BY <1>1, <1>2, <1>3, <1>6, <1>7 DEF Next

\* The native watchers are only replaced while no watch awaits a start on them, and
\* what they replaced watches nothing, for every number of requests, paths and
\* exclusion changes: not even a recursive start that its doWatch left behind
\* (doWatch, initWatcherServer, and isDisposed of the recursive watcher).
THEOREM StartsStayCurrent == Spec => []StartsAreCurrent
<1>1. IInv => StartsAreCurrent
  BY DEF IInv, StartsArePending, NativeInv, StartsAreCurrent, Live
<1> QED BY <1>1, IInvInit, IInvStep, PTL DEF Spec
-----------------------------------------------------------------------------
(* What is put off, and what is watched.                                       *)

\* The rest of the types.
HostTypes ==
    /\ handlers \subseteq Paths \X Nat
    /\ collection \in [Paths -> Entries]
    /\ \A p \in Paths : collection[p].n <= seq[p]
    /\ \A t \in tasks : t.n <= seq[t.path] /\ t.ver <= version
    /\ broken \subseteq Paths /\ overtaken \subseteq Paths

ClientTypes ==
    /\ rpc \in [Requests -> {"idle", "waiting", "held", "failed", "gone"}]
    /\ held \in [Requests -> Nat] /\ \A r \in Requests : rpc[r] = "held" => held[r] # 0

\* What is pending is starting.
PendingAreStarting(ts, pd) ==
    \A p \in Paths : pd[p] # None =>
        \E t \in ts : t.stage = "starting" /\ t.path = p

\* A change is put off only while something is pending, and only the last one.
ExcludesInv ==
    /\ excludes \in Values /\ last \in Values /\ sets \in 0..MaxSettings
    /\ deferred = {} => excludes = last
    /\ deferred # {} => deferred = {last}
    /\ NonePending => deferred = {}

\* A task in a reset was begun on earlier watchers; a failed half is on record; a
\* request waits for its own path.
TaskInv(t, ver, br) ==
    /\ t.stage = "resetting" => t.ver < ver
    /\ t.file = "failed" \/ t.tree = "failed" => t.path \in br
    /\ t.tree = "none" <=> t.path \notin Trees
    /\ t.by.kind = "request" => PathOf[t.by.of] = t.path

\* No id is given out twice, and a task is not recorded yet.
Numbered(ts) == \A t, u \in ts : t.path = u.path /\ t.n = u.n => t = u

NotRecorded(ts, cl) == \A t \in ts : cl[t.path].n # t.n

TasksInv ==
    /\ \A t \in tasks : TaskInv(t, version, broken)
    /\ Numbered(tasks) /\ NotRecorded(tasks, collection)

\* A path is recorded on the current watchers.
Current(p, cl) == cl[p].n # 0 /\ cl[p].ver = version

StartOf(p, ts) == {t \in ts : t.stage = "starting" /\ t.path = p}

\* A record of earlier watchers is that of a start overtaken twice; one of the
\* current ones has its handler and nothing starts.  A start has its handler.
RecordInv(p, hs, ts, cl, ov) ==
    /\ cl[p].n # 0 => cl[p].ver = version \/ p \in ov
    /\ Current(p, cl) => <<p, cl[p].n>> \in hs /\ StartOf(p, ts) = {}
    /\ \A t \in StartOf(p, ts) : <<p, t.n>> \in hs

\* What is recorded or up is watched; what is opening is awaited; what is watched
\* is recorded or starting.
ComesUp(p, ts, cl, nt, ov) ==
    /\ Current(p, cl) => /\ <<p, version, "file">> \in nt
                         /\ p \in Trees => <<p, version, "tree">> \in nt /\ cl[p].tree
    /\ \A t \in StartOf(p, ts) :
          /\ t.file = "up" => <<p, version, "file">> \in nt
          /\ t.tree = "up" => <<p, version, "tree">> \in nt
    /\ \A w \in nt : w[1] = p /\ w[3] = "opening" =>
          w[2] = version /\ \E t \in StartOf(p, ts) : t.tree = "starting"
    /\ p \notin ov => \A w \in nt : w[1] = p /\ w[3] # "opening" =>
          Current(p, cl) \/ StartOf(p, ts) # {}

PathInv(p, hs, ts, cl, nt, br, ov) ==
    /\ RecordInv(p, hs, ts, cl, ov)
    /\ p \notin br => ComesUp(p, ts, cl, nt, ov)

PathsInv ==
    \A p \in Paths : PathInv(p, handlers, tasks, collection, native, broken, overtaken)

\* What is held is recorded or under way.
Served(r) ==
    \/ rpc[r] # "held" \/ Released(PathOf[r]) \/ PathOf[r] \in broken \cup overtaken
    \/ collection[PathOf[r]].n # 0
    \/ \E t \in tasks : t.path = PathOf[r]

AllServed == \A r \in Requests : Served(r)

MoreInv ==
    /\ HostTypes /\ ClientTypes /\ PendingAreStarting(tasks, pending)
    /\ ExcludesInv /\ TasksInv /\ PathsInv /\ AllServed

HostInv == IInv /\ MoreInv

(* What a doWatch of a path does to each part.                                 *)

LEMMA OwnerRequest ==
    ASSUME NEW by \in Owners, by.kind = "request" PROVE by.of \in Requests
BY DEF Owners

LEMMA ClientMoves ==
    ASSUME ClientTypes, NEW by \in Owners, NEW n \in Nat \ {0},
           Answered(by, n) \/ Waits(by) \/ Rejected(by)
    PROVE  ClientTypes'
<1>1. by.kind = "request" => by.of \in Requests
  BY OwnerRequest
<1>2. CASE Answered(by, n)
  BY <1>1, <1>2 DEF Answered, client, ClientTypes
<1>3. CASE Waits(by)
  BY <1>1, <1>3 DEF Waits, ClientTypes
<1>4. CASE Rejected(by)
  BY <1>1, <1>4 DEF Rejected, ClientTypes
<1> QED BY <1>2, <1>3, <1>4

LEMMA RequestsElsewhere ==
    ASSUME ClientTypes, NEW by \in Owners, NEW p \in Paths, NEW n,
           by.kind = "request" => PathOf[by.of] = p,
           Answered(by, n) \/ Waits(by) \/ Rejected(by)
    PROVE  \A r \in Requests : PathOf[r] # p => rpc'[r] = rpc[r]
<1>1. by.kind = "request" => by.of \in Requests
  BY OwnerRequest
<1>2. CASE Answered(by, n)
  BY <1>1, <1>2 DEF Answered, client, ClientTypes
<1>3. CASE Waits(by)
  BY <1>1, <1>3 DEF Waits, ClientTypes
<1>4. CASE Rejected(by)
  BY <1>1, <1>4 DEF Rejected, ClientTypes
<1> QED BY <1>2, <1>3, <1>4

LEMMA Least ==
    ASSUME NEW S, S \subseteq Nat, S # {} PROVE \E m \in S : \A k \in S : m <= k
<1> DEFINE R == {ss \in Nat \X Nat : ss[1] < ss[2]}
<1>1. IsWellFoundedOn(OpToRel(<, Nat), Nat)
  BY NatLessThanWellFounded
<1>2. OpToRel(<, Nat) = R
  BY DEF OpToRel
<1>3. \A x, y \in S : <<y, x>> \in R <=> y < x
  OBVIOUS
<1> HIDE DEF R
<1>4. PICK m \in S : \A y \in S : ~(<<y, m>> \in R)
  BY <1>1, <1>2, WFMin
<1>5. \A k \in S : ~(k < m)
  BY <1>3, <1>4
<1>6. \A k \in S : m <= k
  BY <1>5
<1> QED BY <1>6

LEMMA KnownIdTyped ==
    ASSUME StartTypes, NEW p \in Paths, NEW hs, NEW pd \in [Paths -> Entries],
           Watched(p, hs, pd)
    PROVE  KnownId(p, hs, pd) \in Nat \ {0}
<1>1. CASE Starting(p, pd)
  <2>1. pd[p].n \in Nat /\ pd[p].n # 0
    BY <1>1 DEF Starting, Entries
  <2> QED BY <1>1, <2>1 DEF KnownId
<1>2. CASE ~Starting(p, pd)
  <2>1. Numbers(p, hs) # {} /\ Numbers(p, hs) \subseteq Nat \ {0}
    BY <1>2 DEF Watched, Collected, Numbers, StartTypes
  <2>2. \E n \in Numbers(p, hs) : \A m \in Numbers(p, hs) : n <= m
    BY <2>1, Least
  <2>3. First(p, hs) \in Numbers(p, hs)
    BY <2>2 DEF First
  <2> QED BY <1>2, <2>1, <2>3 DEF KnownId
<1> QED BY <1>1, <1>2

\* A doWatch answers with the id of a watch, or draws a number for a new task.
Known(p, by, hs, pd, nt, rest) ==
    /\ Watched(p, hs, pd) /\ handlers' = hs /\ pending' = pd
    /\ tasks' = rest /\ native' = nt /\ seq' = seq
    /\ Answered(by, KnownId(p, hs, pd))

Fresh(p, by, hs, pd, nt, rest, n, new) ==
    /\ ~Watched(p, hs, pd) /\ n = seq[p] + 1
    /\ seq' = [seq EXCEPT ![p] = n]
    /\ handlers' = Cleaned(p, hs) \cup {<<p, n>>}
    /\ pending' = [pd EXCEPT ![p] = Entry(n, version, FALSE)]
    /\ native' = Opened(p, version, nt)
    /\ tasks' = rest \cup {new} /\ Waits(by)
    /\ new.path = p /\ new.n = n /\ new.ver = version
    /\ new.by = by /\ new.stage = "starting"
    /\ new.file = "starting" /\ new.tree = Joined(p, version, nt)

LEMMA DoWatchCases ==
    ASSUME NEW p, NEW retry, NEW by, NEW hs, NEW pd, NEW nt, NEW rest,
           DoWatch(p, retry, by, hs, pd, nt, rest)
    PROVE  \/ Known(p, by, hs, pd, nt, rest)
           \/ \E n, new : Fresh(p, by, hs, pd, nt, rest, n, new)
<1>1. CASE Watched(p, hs, pd)
  BY <1>1 DEF DoWatch, Known
<1>2. CASE ~Watched(p, hs, pd)
  <2> DEFINE n == seq[p] + 1
             new == Task(p, n, version, retry, by, Joined(p, version, nt))
  <2>1. /\ new.path = p /\ new.n = n /\ new.ver = version
        /\ new.by = by /\ new.stage = "starting"
        /\ new.file = "starting" /\ new.tree = Joined(p, version, nt)
    BY DEF Task
  <2>2. /\ seq' = [seq EXCEPT ![p] = n]
        /\ handlers' = Cleaned(p, hs) \cup {<<p, n>>}
        /\ pending' = [pd EXCEPT ![p] = Entry(n, version, FALSE)]
        /\ native' = Opened(p, version, nt)
        /\ tasks' = rest \cup {new} /\ Waits(by)
    BY <1>2 DEF DoWatch
  <2>3. n = seq[p] + 1
    OBVIOUS
  <2> HIDE DEF n, new
  <2>4. Fresh(p, by, hs, pd, nt, rest, n, new)
    BY <1>2, <2>1, <2>2, <2>3 DEF Fresh
  <2> QED BY <2>4
<1> QED BY <1>1, <1>2

LEMMA DoWatchTypes ==
    ASSUME StartTypes, ClientTypes, version' = version,
           NEW p \in Paths, NEW retry \in {0, 1}, NEW by \in Owners,
           NEW hs \in SUBSET (Paths \X Nat), NEW pd \in [Paths -> Entries],
           NEW nt, NEW rest \in SUBSET Tasks,
           \A u \in rest : u.n <= seq[u.path] /\ u.ver <= version,
           DoWatch(p, retry, by, hs, pd, nt, rest)
    PROVE  /\ handlers' \subseteq Paths \X Nat /\ ClientTypes'
           /\ \A u \in tasks' : u.n <= seq'[u.path] /\ u.ver <= version'
           /\ \A q \in Paths : seq[q] <= seq'[q] /\ seq'[q] \in Nat
<1>0. seq \in [Paths -> Nat] /\ version \in Nat
  BY DEF StartTypes
<1>1. CASE Known(p, by, hs, pd, nt, rest)
  <2>1. /\ Watched(p, hs, pd) /\ handlers' = hs /\ tasks' = rest /\ seq' = seq
        /\ Answered(by, KnownId(p, hs, pd))
    BY <1>1 DEF Known
  <2>2. ClientTypes'
    BY <2>1, KnownIdTyped, ClientMoves
  <2> QED BY <1>0, <2>1, <2>2
<1>2. ASSUME NEW n, NEW new, Fresh(p, by, hs, pd, nt, rest, n, new)
      PROVE  /\ handlers' \subseteq Paths \X Nat /\ ClientTypes'
             /\ \A u \in tasks' : u.n <= seq'[u.path] /\ u.ver <= version'
             /\ \A q \in Paths : seq[q] <= seq'[q] /\ seq'[q] \in Nat
  <2>0. /\ n = seq[p] + 1 /\ seq' = [seq EXCEPT ![p] = n]
        /\ handlers' = Cleaned(p, hs) \cup {<<p, n>>}
        /\ tasks' = rest \cup {new} /\ Waits(by)
        /\ new.path = p /\ new.n = n /\ new.ver = version
    BY <1>2 DEF Fresh
  <2>1. n \in Nat \ {0} /\ seq[p] <= n
    BY <1>0, <2>0
  <2>2. ClientTypes'
    BY <2>0, <2>1, ClientMoves
  <2>3. Cleaned(p, hs) \subseteq hs
    BY DEF Cleaned
  <2>4. handlers' \subseteq Paths \X Nat
    BY <2>0, <2>1, <2>3
  <2>5. \A q \in Paths : seq[q] <= seq'[q] /\ seq'[q] \in Nat
    BY <1>0, <2>0, <2>1
  <2>6. ASSUME NEW u \in rest PROVE u.n <= seq'[u.path] /\ u.ver <= version'
    <3>1. u.n \in Nat /\ u.path \in Paths
      BY DEF Tasks
    <3>2. seq[u.path] \in Nat /\ seq[u.path] <= seq'[u.path] /\ seq'[u.path] \in Nat
      BY <1>0, <2>5, <3>1
    <3>3. u.n <= seq[u.path] /\ u.ver <= version
      OBVIOUS
    <3>4. u.n <= seq'[u.path]
      BY <3>1, <3>2, <3>3
    <3> QED BY <3>3, <3>4
  <2>7. new.n <= seq'[new.path] /\ new.ver <= version'
    BY <1>0, <2>0, <2>1
  <2> QED BY <2>0, <2>2, <2>4, <2>5, <2>6, <2>7
<1> QED BY <1>1, <1>2, DoWatchCases

LEMMA DoWatchPending ==
    ASSUME NEW p \in Paths, NEW retry, NEW by, NEW hs,
           NEW pd \in [Paths -> Entries], NEW nt, NEW rest,
           PendingAreStarting(rest, pd), seq \in [Paths -> Nat],
           DoWatch(p, retry, by, hs, pd, nt, rest)
    PROVE  /\ PendingAreStarting(tasks, pending)'
           /\ NonePending' => \A q \in Paths : pd[q] = None
<1>1. CASE Known(p, by, hs, pd, nt, rest)
  BY <1>1 DEF Known, PendingAreStarting, NonePending
<1>2. ASSUME NEW n, NEW new, Fresh(p, by, hs, pd, nt, rest, n, new)
      PROVE  /\ PendingAreStarting(tasks, pending)'
             /\ NonePending' => \A q \in Paths : pd[q] = None
  <2>0. /\ n = seq[p] + 1
        /\ pending' = [pd EXCEPT ![p] = Entry(n, version, FALSE)]
        /\ tasks' = rest \cup {new} /\ new.path = p /\ new.stage = "starting"
    BY <1>2 DEF Fresh
  <2>1. n # 0
    BY <2>0
  <2>2. pending'[p] # None
    BY <2>0, <2>1 DEF Entry, None
  <2>3. \A q \in Paths \ {p} : pending'[q] = pd[q]
    BY <2>0
  <2>4. ASSUME NEW q \in Paths, pending'[q] # None
        PROVE  \E t \in tasks' : t.stage = "starting" /\ t.path = q
    BY <2>0, <2>3, <2>4 DEF PendingAreStarting
  <2> QED BY <2>2, <2>4 DEF PendingAreStarting, NonePending
<1> QED BY <1>1, <1>2, DoWatchCases

LEMMA DoWatchTasks ==
    ASSUME StartTypes, HostTypes, version' = version, collection' = collection,
           broken' = broken,
           NEW p \in Paths, NEW retry, NEW by,
           NEW hs, NEW pd, NEW nt, NEW rest \in SUBSET tasks, TasksInv,
           by.kind = "request" => PathOf[by.of] = p,
           DoWatch(p, retry, by, hs, pd, nt, rest)
    PROVE  TasksInv'
<1>1. CASE Known(p, by, hs, pd, nt, rest)
  <2>1. tasks' = rest
    BY <1>1 DEF Known
  <2> QED BY <2>1 DEF TasksInv, TaskInv, Numbered, NotRecorded
<1>2. ASSUME NEW n, NEW new, Fresh(p, by, hs, pd, nt, rest, n, new)
      PROVE  TasksInv'
  <2>0. /\ n = seq[p] + 1 /\ tasks' = rest \cup {new}
        /\ new.path = p /\ new.n = n /\ new.by = by
        /\ new.stage = "starting" /\ new.file = "starting"
        /\ new.tree = Joined(p, version, nt)
    BY <1>2 DEF Fresh
  <2>1. n \in Nat /\ seq[p] \in Nat /\ n = seq[p] + 1
    BY <2>0 DEF StartTypes
  <2>2. collection[p].n \in Nat /\ collection[p].n <= seq[p]
    BY DEF HostTypes, Entries
  <2>3. collection[p].n # n
    BY <2>1, <2>2
  <2>4. ASSUME NEW u \in rest, u.path = p PROVE u.n # n
    <3>1. u \in tasks /\ u.n \in Nat
      BY DEF StartTypes, Tasks
    <3>2. u.n <= seq[p]
      BY <2>4, <3>1 DEF HostTypes
    <3> QED BY <2>1, <3>1, <3>2
  <2>5. new.tree # "failed" /\ (new.tree = "none" <=> p \notin Trees)
    BY <2>0 DEF Joined
  <2>6. TaskInv(new, version, broken)
    BY <2>0, <2>5 DEF TaskInv
  <2>7. \A t \in tasks' : TaskInv(t, version, broken)
    BY <2>0, <2>6 DEF TasksInv
  <2>8. Numbered(tasks')
    BY <2>0, <2>4 DEF TasksInv, Numbered
  <2>9. NotRecorded(tasks', collection)
    BY <2>0, <2>3 DEF TasksInv, NotRecorded
  <2> QED BY <2>7, <2>8, <2>9 DEF TasksInv, TaskInv, Numbered, NotRecorded
<1> QED BY <1>1, <1>2, DoWatchCases

(* A step about one path leaves the others as they are.                        *)
Same(p, a, b) == /\ \A x \in a : x[1] # p => x \in b
                 /\ \A x \in b : x[1] # p => x \in a

SameTasks(p, a, b) == /\ \A x \in a : x.path # p => x \in b
                      /\ \A x \in b : x.path # p => x \in a

LEMMA PathKept ==
    ASSUME NEW p, NEW q, q # p,
           NEW hs, NEW ts, NEW cl, NEW nt, NEW br, NEW ov,
           NEW hs2, NEW ts2, NEW cl2, NEW nt2, NEW br2, NEW ov2,
           Same(p, hs, hs2), SameTasks(p, ts, ts2),
           Same(p, nt, nt2), cl2[q] = cl[q],
           (q \in br2) <=> (q \in br),
           (q \in ov2) <=> (q \in ov),
           PathInv(q, hs, ts, cl, nt, br, ov)
    PROVE  PathInv(q, hs2, ts2, cl2, nt2, br2, ov2)
<1>1. StartOf(q, ts2) = StartOf(q, ts)
  BY DEF SameTasks, StartOf
<1>2. \A n : <<q, n>> \in hs => <<q, n>> \in hs2
  <2> SUFFICES ASSUME NEW n, <<q, n>> \in hs PROVE <<q, n>> \in hs2
    OBVIOUS
  <2> DEFINE x == <<q, n>>
  <2>1. x \in hs /\ x[1] # p
    OBVIOUS
  <2> HIDE DEF x
  <2>2. x \in hs2
    BY <2>1 DEF Same
  <2> QED BY <2>2 DEF x
<1>3. \A k : <<q, version, k>> \in nt => <<q, version, k>> \in nt2
  <2> SUFFICES ASSUME NEW k, <<q, version, k>> \in nt PROVE <<q, version, k>> \in nt2
    OBVIOUS
  <2> DEFINE x == <<q, version, k>>
  <2>1. x \in nt /\ x[1] # p
    OBVIOUS
  <2> HIDE DEF x
  <2>2. x \in nt2
    BY <2>1 DEF Same
  <2> QED BY <2>2 DEF x
<1>4. \A w \in nt2 : w[1] = q => w \in nt
  BY DEF Same
<1>5. Current(q, cl2) <=> Current(q, cl)
  BY DEF Current
<1>6. RecordInv(q, hs2, ts2, cl2, ov2)
  <2>1. RecordInv(q, hs, ts, cl, ov)
    BY DEF PathInv
  <2> QED BY <1>1, <1>2, <1>5, <2>1 DEF RecordInv
<1>7. ASSUME q \notin br2 PROVE ComesUp(q, ts2, cl2, nt2, ov2)
  <2>1. ComesUp(q, ts, cl, nt, ov)
    BY <1>7 DEF PathInv
  <2>2. Current(q, cl2) =>
           /\ <<q, version, "file">> \in nt2
           /\ q \in Trees => <<q, version, "tree">> \in nt2 /\ cl2[q].tree
    BY <1>3, <1>5, <2>1 DEF ComesUp
  <2>3. \A t \in StartOf(q, ts2) : /\ t.file = "up" => <<q, version, "file">> \in nt2
                                   /\ t.tree = "up" => <<q, version, "tree">> \in nt2
    BY <1>1, <1>3, <2>1 DEF ComesUp
  <2>4. \A w \in nt2 : w[1] = q /\ w[3] = "opening" =>
           w[2] = version /\ \E t \in StartOf(q, ts2) : t.tree = "starting"
    BY <1>1, <1>4, <2>1 DEF ComesUp
  <2>5. ASSUME q \notin ov2, NEW w \in nt2, w[1] = q, w[3] # "opening"
        PROVE  Current(q, cl2) \/ StartOf(q, ts2) # {}
    <3>1. w \in nt /\ q \notin ov
      BY <1>4, <2>5
    <3> QED BY <1>1, <1>5, <2>1, <2>5, <3>1 DEF ComesUp
  <2> QED BY <2>2, <2>3, <2>4, <2>5 DEF ComesUp
<1> QED BY <1>6, <1>7 DEF PathInv

LEMMA PathKeptHere ==
    ASSUME NEW p, NEW q, q # p,
           Same(p, handlers, handlers'), SameTasks(p, tasks, tasks'),
           Same(p, native, native'), collection'[q] = collection[q],
           (q \in broken') <=> (q \in broken),
           (q \in overtaken') <=> (q \in overtaken),
           PathInv(q, handlers, tasks, collection, native, broken, overtaken)
    PROVE  PathInv(q, handlers', tasks', collection', native', broken', overtaken')
BY PathKept

LEMMA PathsKept ==
    ASSUME PathsInv, version' = version, NEW p,
           Same(p, handlers, handlers'), SameTasks(p, tasks, tasks'),
           Same(p, native, native'),
           \A q \in Paths : q # p => /\ collection'[q] = collection[q]
                                     /\ q \in broken' <=> q \in broken
                                     /\ q \in overtaken' <=> q \in overtaken,
           PathInv(p, handlers', tasks', collection', native', broken', overtaken')
    PROVE  PathsInv'
<1>1. ASSUME NEW q \in Paths
      PROVE  PathInv(q, handlers', tasks', collection', native', broken', overtaken')
  <2>1. CASE q = p
    BY <2>1
  <2>2. CASE q # p
    <3>1. PathInv(q, handlers, tasks, collection, native, broken, overtaken)
      BY DEF PathsInv
    <3>2. /\ collection'[q] = collection[q] /\ (q \in broken' <=> q \in broken)
          /\ (q \in overtaken' <=> q \in overtaken)
      BY <2>2
    <3> QED BY <2>2, <3>1, <3>2, PathKeptHere
  <2> QED BY <2>1, <2>2
<1>2. ASSUME NEW q \in Paths
      PROVE  PathInv(q, handlers, tasks, collection, native, broken, overtaken)'
  <2>1. RecordInv(q, handlers, tasks, collection, overtaken)'
    BY <1>1 DEF PathInv, RecordInv, Current, StartOf
  <2>2. ASSUME q \notin broken' PROVE ComesUp(q, tasks, collection, native, overtaken)'
    <3>1. ComesUp(q, tasks', collection', native', overtaken')
      BY <1>1, <2>2 DEF PathInv
    <3> QED BY <3>1 DEF ComesUp, Current, StartOf
  <2> QED BY <2>1, <2>2 DEF PathInv
<1> QED BY <1>2 DEF PathsInv

\* A doWatch of a path keeps what holds of it.
LEMMA DoWatchPath ==
    ASSUME StartTypes, HostTypes, ClientTypes,
           NEW p \in Paths, NEW retry, NEW by \in Owners, NEW hs, NEW pd,
           NEW nt, NEW rest \in SUBSET Tasks,
           by.kind = "request" => PathOf[by.of] = p,
           PendingAreStarting(rest, pd), StartsArePending(rest, pd, version),
           PathInv(p, hs, rest, collection, nt, broken, overtaken),
           DoWatch(p, retry, by, hs, pd, nt, rest)
    PROVE  /\ PathInv(p, handlers', tasks', collection, native', broken, overtaken)
           /\ Same(p, hs, handlers') /\ SameTasks(p, rest, tasks')
           /\ Same(p, nt, native')
           /\ collection[p].n # 0 \/ \E u \in tasks' : u.path = p
           /\ \A r \in Requests : PathOf[r] # p => rpc'[r] = rpc[r]
<1>1. CASE Known(p, by, hs, pd, nt, rest)
  <2>0. /\ Watched(p, hs, pd) /\ handlers' = hs /\ tasks' = rest /\ native' = nt
        /\ Answered(by, KnownId(p, hs, pd))
    BY <1>1 DEF Known
  <2>1. \A r \in Requests : PathOf[r] # p => rpc'[r] = rpc[r]
    BY <2>0, RequestsElsewhere
  <2>2. collection[p].n # 0 \/ \E u \in rest : u.path = p
    <3>1. CASE Starting(p, pd)
      <4>1. pd[p] # None
        BY <3>1 DEF Starting, None, Entry
      <4> QED BY <4>1 DEF PendingAreStarting
    <3>2. CASE Collected(p, hs)
      BY <3>2 DEF Collected
    <3> QED BY <2>0, <3>1, <3>2 DEF Watched
  <2> QED BY <2>0, <2>1, <2>2 DEF Same, SameTasks
<1>2. ASSUME NEW n, NEW new, Fresh(p, by, hs, pd, nt, rest, n, new)
      PROVE  /\ PathInv(p, handlers', tasks', collection, native', broken, overtaken)
             /\ Same(p, hs, handlers') /\ SameTasks(p, rest, tasks')
             /\ Same(p, nt, native')
             /\ collection[p].n # 0 \/ \E u \in tasks' : u.path = p
             /\ \A r \in Requests : PathOf[r] # p => rpc'[r] = rpc[r]
  <2>0. /\ ~Watched(p, hs, pd)
        /\ handlers' = Cleaned(p, hs) \cup {<<p, n>>}
        /\ native' = Opened(p, version, nt)
        /\ tasks' = rest \cup {new} /\ Waits(by)
        /\ new.path = p /\ new.n = n /\ new.stage = "starting"
        /\ new.file = "starting" /\ new.tree = Joined(p, version, nt)
    BY <1>2 DEF Fresh
  <2>1. \A r \in Requests : PathOf[r] # p => rpc'[r] = rpc[r]
    BY <2>0, RequestsElsewhere
  <2>2. Same(p, hs, handlers')
    <3>1. \A h \in hs : h[1] # p => h \in Cleaned(p, hs)
      BY DEF Cleaned
    <3>2. Cleaned(p, hs) \subseteq hs
      BY DEF Cleaned
    <3>3. \A h \in {<<p, n>>} : h[1] = p
      OBVIOUS
    <3> QED BY <2>0, <3>1, <3>2, <3>3 DEF Same
  <2>3. SameTasks(p, rest, tasks')
    BY <2>0 DEF SameTasks
  <2>4. /\ nt \subseteq native' /\ \A w \in native' \ nt :
              /\ w = <<p, version, "opening">> /\ Joined(p, version, nt) = "starting"
    BY <2>0 DEF Opened
  <2>5. Same(p, nt, native')
    BY <2>4 DEF Same
  <2>6. StartOf(p, rest) = {}
    BY <2>0, NothingStarts DEF StartOf
  <2>7. StartOf(p, tasks') = {new}
    BY <2>0, <2>6 DEF StartOf
  <2>8. RecordInv(p, hs, rest, collection, overtaken)
    BY DEF PathInv
  <2>9. ~Current(p, collection)
    <3> SUFFICES ASSUME Current(p, collection) PROVE FALSE
      OBVIOUS
    <3>1. <<p, collection[p].n>> \in hs /\ collection[p].n # 0
      BY <2>8 DEF RecordInv, Current
    <3>2. collection[p].n \in 1..seq[p]
      <4>1. collection[p].n \in Nat /\ collection[p].n <= seq[p] /\ seq[p] \in Nat
        BY DEF HostTypes, StartTypes, Entries
      <4> QED BY <3>1, <4>1
    <3>3. collection[p].n \in Numbers(p, hs)
      BY <3>1, <3>2 DEF Numbers
    <3> QED BY <2>0, <3>1, <3>3 DEF Watched, Collected
  <2>10. RecordInv(p, handlers', tasks', collection, overtaken)
    BY <2>0, <2>7, <2>8, <2>9 DEF RecordInv
  <2>11. ASSUME p \notin broken
         PROVE  ComesUp(p, tasks', collection, native', overtaken)
    <3>1. ComesUp(p, rest, collection, nt, overtaken)
      BY <2>11 DEF PathInv
    <3>2. \A w \in nt : ~(w[1] = p /\ w[3] = "opening")
      BY <2>6, <3>1 DEF ComesUp
    <3>3. new.tree = "up" => <<p, version, "tree">> \in native'
      BY <2>0, <2>4, JoinedCases
    <3>4. \A t \in StartOf(p, tasks') :
             /\ t.file = "up" => <<p, version, "file">> \in native'
             /\ t.tree = "up" => <<p, version, "tree">> \in native'
      BY <2>0, <2>7, <3>3
    <3>5. ASSUME NEW w \in native', w[1] = p, w[3] = "opening"
          PROVE  w[2] = version /\ \E t \in StartOf(p, tasks') : t.tree = "starting"
      <4>1. w \in native' \ nt
        BY <3>2, <3>5
      <4>2. w = <<p, version, "opening">> /\ new.tree = "starting"
        BY <2>0, <2>4, <4>1
      <4> QED BY <2>7, <4>2
    <3>6. StartOf(p, tasks') # {}
      BY <2>7
    <3> QED BY <2>9, <3>4, <3>5, <3>6 DEF ComesUp
  <2>12. PathInv(p, handlers', tasks', collection, native', broken, overtaken)
    BY <2>10, <2>11 DEF PathInv
  <2> QED BY <2>0, <2>1, <2>2, <2>3, <2>5, <2>12
<1> QED BY <1>1, <1>2, DoWatchCases

\* A step about one path serves the requests of that path and leaves the others.
LEMMA ServedKept ==
    ASSUME NEW p, AllServed,
           \A r \in Requests : PathOf[r] # p => rpc'[r] = rpc[r],
           \A q \in Paths : q # p => /\ collection'[q] = collection[q]
                                     /\ q \in broken' <=> q \in broken
                                     /\ q \in overtaken' <=> q \in overtaken,
           SameTasks(p, tasks, tasks'),
           \/ collection'[p].n # 0 \/ p \in broken' \cup overtaken'
           \/ \E u \in tasks' : u.path = p
    PROVE  AllServed'
<1> SUFFICES ASSUME NEW r \in Requests PROVE Served(r)'
  BY DEF AllServed
<1>1. CASE PathOf[r] = p
  BY <1>1 DEF Served
<1>2. CASE PathOf[r] # p
  <2>1. PathOf[r] \in Paths /\ rpc'[r] = rpc[r] /\ Served(r)
    BY <1>2, WatcherHostAssumption DEF AllServed
  <2>2. Released(PathOf[r]) => Released(PathOf[r])'
    BY <1>2 DEF Released
  <2>3. ASSUME NEW t \in tasks, t.path = PathOf[r]
        PROVE  \E u \in tasks' : u.path = PathOf[r]
    BY <1>2, <2>3 DEF SameTasks
  <2> QED BY <1>2, <2>1, <2>2, <2>3 DEF Served
<1> QED BY <1>1, <1>2

-----------------------------------------------------------------------------
(* The steps.                                                                  *)

LEMMA MoreInit == Init => MoreInv
<1> SUFFICES ASSUME Init PROVE MoreInv
  OBVIOUS
<1>1. /\ seq = [p \in Paths |-> 0] /\ tasks = {} /\ native = {} /\ handlers = {}
      /\ pending = [p \in Paths |-> None] /\ collection = [p \in Paths |-> None]
      /\ broken = {} /\ overtaken = {} /\ deferred = {} /\ excludes = 0
      /\ last = 0 /\ sets = 0
      /\ rpc = [r \in Requests |-> "idle"] /\ held = [r \in Requests |-> 0]
  BY DEF Init
<1>2. HostTypes
  BY <1>1, NoEntry DEF HostTypes
<1>3. ClientTypes
  BY <1>1 DEF ClientTypes
<1>4. PendingAreStarting(tasks, pending)
  BY <1>1 DEF PendingAreStarting
<1>5. ExcludesInv
  BY <1>1, WatcherHostAssumption DEF ExcludesInv, Values
<1>6. TasksInv
  BY <1>1 DEF TasksInv, Numbered, NotRecorded
<1>7. PathsInv
  BY <1>1, NoEntry DEF PathsInv, PathInv, RecordInv, ComesUp, Current, StartOf
<1>8. AllServed
  BY <1>1 DEF AllServed, Served
<1> QED BY <1>2, <1>3, <1>4, <1>5, <1>6, <1>7, <1>8 DEF MoreInv

LEMMA WatchMore ==
    ASSUME HostInv, NEW r \in Requests, Watch(r) PROVE MoreInv'
<1> DEFINE p == PathOf[r]
           by == ForRequest(r)
<1>1. /\ DoWatch(p, 0, by, handlers, pending, native, tasks)
      /\ UNCHANGED <<version, collection, excludes, deferred, broken, overtaken,
                     last, sets>>
  BY DEF Watch, settings
<1>2. /\ StartTypes /\ StartsArePending(tasks, pending, version)
      /\ pending \in [Paths -> Entries] /\ tasks \in SUBSET Tasks
      /\ seq \in [Paths -> Nat]
  BY DEF HostInv, IInv, StartTypes
<1>3. /\ HostTypes /\ ClientTypes /\ PendingAreStarting(tasks, pending)
      /\ ExcludesInv /\ TasksInv /\ PathsInv /\ AllServed
  BY DEF HostInv, MoreInv
<1>4. p \in Paths /\ by \in Owners /\ 0 \in {0, 1}
      /\ (by.kind = "request" => PathOf[by.of] = p)
  BY OwnersTyped, WatcherHostAssumption DEF ForRequest
<1>5. handlers \in SUBSET (Paths \X Nat)
      /\ \A u \in tasks : u.n <= seq[u.path] /\ u.ver <= version
  BY <1>3 DEF HostTypes
<1>6. PathInv(p, handlers, tasks, collection, native, broken, overtaken)
  BY <1>3, <1>4 DEF PathsInv
<1> HIDE DEF p, by
<1>7. /\ handlers' \subseteq Paths \X Nat /\ ClientTypes'
      /\ \A u \in tasks' : u.n <= seq'[u.path] /\ u.ver <= version'
      /\ \A q \in Paths : seq[q] <= seq'[q] /\ seq'[q] \in Nat
  BY <1>1, <1>2, <1>3, <1>4, <1>5, DoWatchTypes
<1>8. /\ PendingAreStarting(tasks, pending)'
      /\ NonePending' => \A q \in Paths : pending[q] = None
  BY <1>1, <1>2, <1>3, <1>4, DoWatchPending
<1>9. TasksInv'
  BY <1>1, <1>2, <1>3, <1>4, DoWatchTasks
<1>10. /\ PathInv(p, handlers', tasks', collection, native', broken, overtaken)
       /\ Same(p, handlers, handlers') /\ SameTasks(p, tasks, tasks')
       /\ Same(p, native, native')
       /\ collection[p].n # 0 \/ \E u \in tasks' : u.path = p
       /\ \A q \in Requests : PathOf[q] # p => rpc'[q] = rpc[q]
  BY <1>1, <1>2, <1>3, <1>4, <1>6, DoWatchPath
<1>11. PathsInv'
  BY <1>1, <1>3, <1>10, PathsKept
<1>12. AllServed'
  BY <1>1, <1>3, <1>10, ServedKept
<1>13. HostTypes'
  <2>1. ASSUME NEW q \in Paths PROVE collection'[q].n <= seq'[q]
    <3>1. collection[q].n \in Nat /\ collection[q].n <= seq[q] /\ seq[q] \in Nat
      BY <1>2, <1>3 DEF HostTypes, Entries
    <3>2. seq[q] <= seq'[q] /\ seq'[q] \in Nat
      BY <1>7
    <3> QED BY <1>1, <3>1, <3>2
  <2> QED BY <1>1, <1>3, <1>7, <2>1 DEF HostTypes
<1>14. ExcludesInv'
  BY <1>1, <1>3, <1>8 DEF ExcludesInv, NonePending
<1> QED BY <1>7, <1>8, <1>9, <1>11, <1>12, <1>13, <1>14 DEF MoreInv

\* Natives of a path at a version are of one kind each.
LEMMA Triples ==
    ASSUME NEW nt, NEW ver, nt \subseteq Paths \X (0..ver) \X Kinds, NEW w \in nt
    PROVE  w = <<w[1], w[2], w[3]>> /\ w[3] \in {"file", "tree", "opening"}
BY DEF Kinds

LEMMA UnwatchMore ==
    ASSUME HostInv, NEW r \in Requests, Unwatch(r) PROVE MoreInv'
<1> DEFINE p == PathOf[r]
           c == collection[p]
<1>1. /\ rpc[r] = "held" /\ rpc' = [rpc EXCEPT ![r] = "gone"]
      /\ IF c.n = held[r]
         THEN /\ native' = native \ {w \in Of(p, c.ver) : w[3] = "file" \/ c.tree}
              /\ handlers' = handlers \ {<<p, c.n>>}
              /\ collection' = [collection EXCEPT ![p] = None]
         ELSE UNCHANGED <<native, handlers, collection>>
      /\ UNCHANGED <<version, seq, pending, excludes, deferred, tasks, held,
                     broken, overtaken, last, sets>>
  BY DEF Unwatch, settings
<1>2. StartTypes /\ NativeInv(native, version)
  BY DEF HostInv, IInv
<1>3. /\ HostTypes /\ ClientTypes /\ PendingAreStarting(tasks, pending)
      /\ ExcludesInv /\ TasksInv /\ PathsInv /\ AllServed
  BY DEF HostInv, MoreInv
<1>4. p \in Paths /\ held[r] # 0
  BY <1>1, <1>3, WatcherHostAssumption DEF ClientTypes
<1>5. c \in Entries /\ collection \in [Paths -> Entries]
  BY <1>3, <1>4 DEF HostTypes
<1>6. PathInv(p, handlers, tasks, collection, native, broken, overtaken)
  BY <1>3, <1>4 DEF PathsInv
<1> HIDE DEF p
<1>7. HostTypes'
  <2>1. collection' \in [Paths -> Entries] /\ handlers' \subseteq handlers
    BY <1>1, <1>5, NoEntry
  <2>2. \A q \in Paths : collection'[q] = collection[q] \/ collection'[q].n = 0
    BY <1>1, <1>5, NoEntry
  <2>3. \A q \in Paths : collection'[q].n <= seq[q]
    BY <1>2, <1>3, <2>2 DEF HostTypes, StartTypes
  <2> QED BY <1>1, <1>3, <2>1, <2>3 DEF HostTypes
<1>8. ClientTypes'
  BY <1>1, <1>3 DEF ClientTypes
<1>9. PendingAreStarting(tasks, pending)'
  BY <1>1, <1>3 DEF PendingAreStarting
<1>10. ExcludesInv'
  BY <1>1, <1>3 DEF ExcludesInv, NonePending
<1>11. TasksInv'
  <2>1. ASSUME NEW t \in tasks PROVE collection'[t.path].n # t.n
    <3>1. t.path \in Paths /\ t.n # 0
      BY <1>2 DEF StartTypes, Tasks
    <3>2. collection'[t.path] = collection[t.path] \/ collection'[t.path].n = 0
      BY <1>1, <1>5, <3>1, NoEntry
    <3> QED BY <1>3, <3>1, <3>2 DEF TasksInv, NotRecorded
  <2> QED BY <1>1, <1>3, <2>1 DEF TasksInv, TaskInv, Numbered, NotRecorded
<1>12. PathsInv'
  <2>1. CASE c.n # held[r]
    <3>1. UNCHANGED <<version, handlers, tasks, collection, native, broken, overtaken>>
      BY <1>1, <2>1
    <3> QED BY <1>3, <3>1
       DEF PathsInv, PathInv, RecordInv, ComesUp, Current, StartOf
  <2>2. CASE c.n = held[r]
    <3>1. /\ native' = native \ {w \in Of(p, c.ver) : w[3] = "file" \/ c.tree}
          /\ handlers' = handlers \ {<<p, c.n>>}
          /\ collection' = [collection EXCEPT ![p] = None] /\ c.n # 0
      BY <1>1, <1>4, <2>2
    <3>2. collection'[p].n = 0 /\ ~Current(p, collection')
      BY <1>4, <1>5, <3>1, NoEntry DEF Current
    <3>3. Same(p, native, native') /\ Same(p, handlers, handlers')
      BY <3>1 DEF Same, Of
    <3>4. SameTasks(p, tasks, tasks')
      BY <1>1 DEF SameTasks
    <3>5. RecordInv(p, handlers, tasks, collection, overtaken)
      BY <1>6 DEF PathInv
    <3>6. ASSUME NEW t \in StartOf(p, tasks) PROVE <<p, t.n>> \in handlers'
      <4>1. t.n # c.n
        BY <1>3 DEF TasksInv, NotRecorded, StartOf
      <4> QED BY <3>1, <3>5, <4>1 DEF RecordInv
    <3>7. RecordInv(p, handlers', tasks, collection', overtaken)
      BY <3>2, <3>6 DEF RecordInv
    <3>8. ASSUME p \notin broken PROVE ComesUp(p, tasks, collection', native', overtaken)
      <4>0. ComesUp(p, tasks, collection, native, overtaken)
        BY <1>6, <3>8 DEF PathInv
      <4>1. CASE c.ver = version
        <5>1. StartOf(p, tasks) = {}
          BY <3>1, <3>5, <4>1 DEF RecordInv, Current
        <5>2. Current(p, collection)
          BY <3>1, <4>1 DEF Current
        <5>3. \A w \in native' : w[1] = p => w[3] # "opening"
          BY <3>1, <4>0, <5>1 DEF ComesUp
        <5>4. ASSUME NEW w \in native', w[1] = p, w[3] # "opening" PROVE FALSE
          <6>1. w \in native /\ w[2] = version /\ (w[3] # "file" => w[1] \in Trees)
            BY <1>2, <3>1, <5>4 DEF NativeInv
          <6>2. w = <<p, version, w[3]>> /\ w[3] \in {"file", "tree"}
            BY <1>2, <5>4, <6>1, Triples DEF NativeInv
          <6>3. w[3] = "file" \/ c.tree
            BY <4>0, <5>2, <5>4, <6>1, <6>2 DEF ComesUp
          <6>4. w \in Of(p, c.ver)
            BY <4>1, <6>2 DEF Of
          <6> QED BY <3>1, <5>4, <6>3, <6>4
        <5> QED BY <3>2, <5>1, <5>3, <5>4 DEF ComesUp
      <4>2. CASE c.ver # version
        <5>1. p \in overtaken
          BY <3>1, <3>5, <4>2 DEF RecordInv
        <5>2. \A k : <<p, version, k>> \in native => <<p, version, k>> \in native'
          BY <3>1, <4>2 DEF Of
        <5>3. \A w \in native' : w \in native
          BY <3>1
        <5> QED BY <3>2, <4>0, <5>1, <5>2, <5>3 DEF ComesUp
      <4> QED BY <4>1, <4>2
    <3>9. PathInv(p, handlers', tasks', collection', native', broken', overtaken')
      BY <1>1, <3>7, <3>8 DEF PathInv
    <3>10. \A q \in Paths : q # p => /\ collection'[q] = collection[q]
                                     /\ q \in broken' <=> q \in broken
                                     /\ q \in overtaken' <=> q \in overtaken
      BY <1>1, <1>5, <3>1
    <3> QED BY <1>1, <1>3, <3>3, <3>4, <3>9, <3>10, PathsKept
  <2> QED BY <2>1, <2>2
<1>13. AllServed'
  <2> SUFFICES ASSUME NEW s \in Requests PROVE Served(s)'
    BY DEF AllServed
  <2>1. PathOf[s] \in Paths
    BY WatcherHostAssumption
  <2>2. CASE PathOf[s] = p
    <3>1. rpc'[r] = "gone"
      BY <1>1, <1>3 DEF ClientTypes
    <3>2. Released(PathOf[s])'
      BY <2>2, <3>1 DEF Released, p
    <3> QED BY <3>2 DEF Served
  <2>3. CASE PathOf[s] # p
    <3>1. Served(s)
      BY <1>3 DEF AllServed
    <3>2. s # r /\ rpc'[s] = rpc[s]
      BY <1>1, <1>3, <2>3 DEF ClientTypes, p
    <3>3. Released(PathOf[s]) => Released(PathOf[s])'
      BY <1>1, <1>3, <2>3 DEF Released, ClientTypes, p
    <3>4. collection'[PathOf[s]] = collection[PathOf[s]]
      BY <1>1, <1>5, <2>1, <2>3
    <3> QED BY <1>1, <3>1, <3>2, <3>3, <3>4 DEF Served
  <2> QED BY <2>2, <2>3
<1> QED BY <1>7, <1>8, <1>9, <1>10, <1>11, <1>12, <1>13 DEF MoreInv

\* A reset starts a watch of every recorded path on the new watchers.
LEMMA ResetHost ==
    ASSUME StartTypes, HostTypes,
           NEW by \in Owners, by.kind # "request", NEW nt,
           NEW rest \in SUBSET Tasks,
           \A u \in rest : /\ u.stage = "resetting" /\ u.n <= seq[u.path]
                           /\ u.ver <= version /\ TaskInv(u, version + 1, broken'),
           Numbered(rest),
           \A w \in Opening(nt) : w[1] \in broken',
           broken' \subseteq Paths, overtaken' = overtaken,
           Reset(by, nt, rest)
    PROVE  /\ HostTypes' /\ PendingAreStarting(tasks, pending)'
           /\ TasksInv' /\ PathsInv' /\ rest \subseteq tasks'
           /\ \A p \in Paths : collection[p].n # 0 => \E t \in tasks' : t.path = p
<1> DEFINE new(p) == Task(p, seq[p] + 1, version + 1, 0, by, Joined(p, version + 1, {}))
           kept == handlers \ {<<p, collection[p].n>> : p \in Targets}
<1>1. /\ version' = version + 1 /\ version \in Nat /\ Targets \subseteq Paths
      /\ seq' = [p \in Paths |-> IF p \in Targets THEN seq[p] + 1 ELSE seq[p]]
      /\ pending' = [p \in Paths |-> IF p \in Targets
                                     THEN Entry(seq[p] + 1, version + 1, FALSE)
                                     ELSE None]
      /\ collection' = [p \in Paths |-> None]
      /\ tasks' = rest \cup {new(p) : p \in Targets}
      /\ native' = Opening(nt) \cup
            {<<p, version + 1, "opening">> : p \in Targets \cap Trees}
  BY DEF Reset, StartTypes, Targets
<1>2. handlers' = {h \in kept : h[1] \in Targets => h \in Cleaned(h[1], kept)}
                  \cup {<<p, seq[p] + 1>> : p \in Targets}
  BY DEF Reset
<1>3. ASSUME NEW p \in Targets
      PROVE  /\ new(p).path = p /\ new(p).n = seq[p] + 1 /\ new(p).by = by
             /\ new(p).ver = version + 1 /\ new(p).stage = "starting"
             /\ new(p).file = "starting"
             /\ new(p).tree \in {"none", "starting"}
             /\ new(p).tree = "none" <=> p \notin Trees
  <2>1. /\ Joined(p, version + 1, {}) \in {"none", "starting"}
        /\ Joined(p, version + 1, {}) = "none" <=> p \notin Trees
    BY DEF Joined
  <2> QED BY <2>1 DEF Task
<1>4. \A p \in Paths : seq[p] \in Nat /\ seq'[p] \in Nat /\ seq[p] <= seq'[p]
                       /\ (p \in Targets => seq'[p] = seq[p] + 1)
  BY <1>1 DEF StartTypes
<1> HIDE DEF new
<1>5. HostTypes'
  <2>1. handlers' \subseteq Paths \X Nat
    <3>1. {<<p, seq[p] + 1>> : p \in Targets} \subseteq Paths \X Nat
      BY <1>1, <1>4
    <3>2. kept \subseteq Paths \X Nat
      BY DEF HostTypes
    <3> QED BY <1>2, <3>1, <3>2
  <2>2. collection' \in [Paths -> Entries] /\ \A p \in Paths : collection'[p].n <= seq'[p]
    BY <1>1, <1>4, NoEntry
  <2>3. ASSUME NEW u \in rest PROVE u.n <= seq'[u.path] /\ u.ver <= version'
    <3>1. u.n \in Nat /\ u.ver \in Nat /\ u.path \in Paths
      BY DEF Tasks
    <3>2. u.n <= seq[u.path] /\ u.ver <= version
      OBVIOUS
    <3> QED BY <1>1, <1>4, <3>1, <3>2
  <2>4. ASSUME NEW p \in Targets
        PROVE  new(p).n <= seq'[new(p).path] /\ new(p).ver <= version'
    BY <1>1, <1>3, <1>4
  <2>5. \A t \in tasks' : t.n <= seq'[t.path] /\ t.ver <= version'
    BY <1>1, <2>3, <2>4
  <2>6. overtaken' \subseteq Paths
    BY DEF HostTypes
  <2> QED BY <2>1, <2>2, <2>5, <2>6 DEF HostTypes
<1>6. PendingAreStarting(tasks, pending)'
  <2> SUFFICES ASSUME NEW p \in Paths, pending'[p] # None
               PROVE  \E t \in tasks' : t.stage = "starting" /\ t.path = p
    BY DEF PendingAreStarting
  <2>1. p \in Targets
    BY <1>1
  <2> QED BY <1>1, <1>3, <2>1
<1>7. TasksInv'
  <2>1. ASSUME NEW p \in Targets PROVE TaskInv(new(p), version', broken')
    BY <1>3 DEF TaskInv
  <2>2. \A t \in tasks' : TaskInv(t, version', broken')
    BY <1>1, <2>1
  <2>3. ASSUME NEW u \in rest, NEW p \in Targets, u.path = p PROVE u.n # new(p).n
    <3>1. u.n \in Nat /\ u.n <= seq[p] /\ p \in Paths
      BY <1>1, <2>3 DEF Tasks
    <3> QED BY <1>3, <1>4, <3>1
  <2>4. ASSUME NEW t \in tasks', NEW u \in tasks', t.path = u.path, t.n = u.n
        PROVE  t = u
    <3>1. CASE t \in rest /\ u \in rest
      BY <2>4, <3>1 DEF Numbered
    <3>2. CASE t \notin rest /\ u \in rest
      BY <1>1, <1>3, <2>3, <2>4, <3>2
    <3>3. CASE t \in rest /\ u \notin rest
      BY <1>1, <1>3, <2>3, <2>4, <3>3
    <3>4. CASE t \notin rest /\ u \notin rest
      <4>1. PICK p \in Targets : t = new(p)
        BY <1>1, <3>4
      <4>2. PICK q \in Targets : u = new(q)
        BY <1>1, <3>4
      <4> QED BY <1>3, <2>4, <4>1, <4>2
    <3> QED BY <3>1, <3>2, <3>3, <3>4
  <2>5. ASSUME NEW t \in tasks' PROVE collection'[t.path].n # t.n
    <3>1. t.path \in Paths /\ t.n # 0
      <4>1. CASE t \in rest
        BY <4>1 DEF Tasks
      <4>2. CASE t \notin rest
        <5>1. PICK p \in Targets : t = new(p)
          BY <1>1, <4>2
        <5> QED BY <1>1, <1>3, <1>4, <5>1
      <4> QED BY <4>1, <4>2
    <3> QED BY <1>1, <3>1, NoEntry
  <2> QED BY <2>2, <2>4, <2>5 DEF TasksInv, TaskInv, Numbered, NotRecorded
<1>8. PathsInv'
  <2> SUFFICES ASSUME NEW p \in Paths
               PROVE  PathInv(p, handlers, tasks, collection, native, broken, overtaken)'
    BY DEF PathsInv
  <2>1. ~Current(p, collection)' /\ collection'[p].n = 0
    BY <1>1, NoEntry DEF Current
  <2>2. StartOf(p, tasks') = IF p \in Targets THEN {new(p)} ELSE {}
    <3>1. \A t \in rest : t.stage # "starting"
      OBVIOUS
    <3> QED BY <1>1, <1>3, <3>1 DEF StartOf
  <2>3. p \in Targets => <<p, new(p).n>> \in handlers'
    BY <1>2, <1>3
  <2>4. RecordInv(p, handlers, tasks, collection, overtaken)'
    BY <2>1, <2>2, <2>3 DEF RecordInv, StartOf, Current
  <2>5. ASSUME p \notin broken'
        PROVE  ComesUp(p, tasks, collection, native, overtaken)'
    <3>1. ASSUME NEW w \in native', w[1] = p
          PROVE  /\ p \in Targets /\ p \in Trees /\ w[2] = version'
                 /\ w[3] = "opening"
      BY <1>1, <2>5, <3>1
    <3>2. \A t \in StartOf(p, tasks') : t.file = "starting" /\ t.tree # "up"
      BY <1>3, <2>2
    <3>3. p \in Targets /\ p \in Trees =>
             \E t \in StartOf(p, tasks') : t.tree = "starting"
      BY <1>3, <2>2
    <3> QED BY <2>1, <3>1, <3>2, <3>3 DEF ComesUp, Current, StartOf
  <2> QED BY <2>4, <2>5 DEF PathInv, RecordInv, ComesUp, Current, StartOf
<1>9. ASSUME NEW p \in Paths, collection[p].n # 0 PROVE \E t \in tasks' : t.path = p
  <2>1. p \in Targets
    BY <1>9 DEF Targets
  <2> QED BY <1>1, <1>3, <2>1
<1> QED BY <1>1, <1>5, <1>6, <1>7, <1>8, <1>9

LEMMA SetExcludesMore ==
    ASSUME HostInv, NEW v \in Settings, SetExcludes(v) PROVE MoreInv'
<1>1. /\ sets < MaxSettings /\ sets' = sets + 1
      /\ last' = IF v = excludes THEN last ELSE v
      /\ UNCHANGED <<rpc, held, broken, overtaken>>
  BY DEF SetExcludes, client
<1>2. StartTypes /\ StartsArePending(tasks, pending, version) /\ NativeInv(native, version)
  BY DEF HostInv, IInv
<1>3. /\ HostTypes /\ ClientTypes /\ PendingAreStarting(tasks, pending)
      /\ ExcludesInv /\ TasksInv /\ PathsInv /\ AllServed
  BY DEF HostInv, MoreInv
<1>4. ClientTypes'
  BY <1>1, <1>3 DEF ClientTypes
<1>5. sets' \in 0..MaxSettings /\ last' \in Values
  BY <1>1, <1>3, WatcherHostAssumption DEF ExcludesInv, Values
<1>6. CASE ~(v # excludes /\ NonePending)
  <2>1. UNCHANGED <<version, seq, handlers, pending, collection, excludes, tasks, native>>
        /\ deferred' = IF v = excludes THEN deferred ELSE {v}
    <3>1. CASE v = excludes
      BY <3>1 DEF SetExcludes, server
    <3>2. CASE v # excludes /\ ~NonePending
      BY <3>2 DEF SetExcludes, Deferred
    <3> QED BY <1>6, <3>1, <3>2
  <2>2. ExcludesInv'
    BY <1>1, <1>3, <1>5, <1>6, <2>1 DEF ExcludesInv, NonePending
  <2>3. HostTypes' /\ PendingAreStarting(tasks, pending)'
    BY <1>1, <1>3, <2>1 DEF HostTypes, PendingAreStarting
  <2>4. TasksInv'
    BY <1>1, <1>3, <2>1 DEF TasksInv, TaskInv, Numbered, NotRecorded
  <2>5. PathsInv'
    BY <1>1, <1>3, <2>1 DEF PathsInv, PathInv, RecordInv, ComesUp, Current, StartOf
  <2>6. AllServed'
    BY <1>1, <1>3, <2>1 DEF AllServed, Served, Released
  <2> QED BY <1>4, <2>2, <2>3, <2>4, <2>5, <2>6 DEF MoreInv
<1>7. CASE v # excludes /\ NonePending
  <2>1. excludes' = v /\ deferred' = deferred /\ Reset(ForNobody, native, tasks)
    BY <1>7 DEF SetExcludes
  <2>2. ASSUME NEW u \in tasks
        PROVE  /\ u.stage = "resetting" /\ u.n <= seq[u.path]
               /\ u.ver <= version /\ TaskInv(u, version + 1, broken')
    <3>1. u \in Tasks /\ u.path \in Paths /\ u.n # 0 /\ u.ver \in Nat /\ version \in Nat
      BY <1>2 DEF StartTypes, Tasks
    <3>2. u.stage # "starting"
      <4>1. pending[u.path] = None
        BY <1>7, <3>1 DEF NonePending
      <4>2. u.stage = "starting" => pending[u.path] = Entry(u.n, version, FALSE)
        BY <1>2 DEF StartsArePending
      <4> QED BY <3>1, <4>1, <4>2 DEF Entry, None
    <3>3. u.n <= seq[u.path] /\ u.ver <= version
      BY <1>3 DEF HostTypes
    <3>4. u.stage = "resetting"
      BY <3>1, <3>2 DEF Tasks
    <3>5. u.ver < version + 1
      BY <3>1, <3>3
    <3>6. TaskInv(u, version, broken)
      BY <1>3 DEF TasksInv
    <3> QED BY <1>1, <3>3, <3>4, <3>5, <3>6 DEF TaskInv
  <2>3. ASSUME NEW w \in Opening(native) PROVE w[1] \in broken'
    <3>1. w \in native /\ w[3] = "opening" /\ w[1] \in Paths
      BY <1>2 DEF Opening, NativeInv
    <3>2. StartOf(w[1], tasks) = {}
      BY <2>2 DEF StartOf
    <3>3. PathInv(w[1], handlers, tasks, collection, native, broken, overtaken)
      BY <1>3, <3>1 DEF PathsInv
    <3> QED BY <1>1, <3>1, <3>2, <3>3 DEF PathInv, ComesUp
  <2>4. ForNobody \in Owners /\ ForNobody.kind # "request"
    BY OwnersTyped DEF ForNobody
  <2>5. Numbered(tasks) /\ tasks \in SUBSET Tasks /\ broken' \subseteq Paths
    BY <1>1, <1>2, <1>3 DEF TasksInv, StartTypes, HostTypes
  <2>6. /\ HostTypes' /\ PendingAreStarting(tasks, pending)'
        /\ TasksInv' /\ PathsInv' /\ tasks \subseteq tasks'
        /\ \A p \in Paths : collection[p].n # 0 => \E t \in tasks' : t.path = p
    BY <1>1, <1>2, <1>3, <2>1, <2>2, <2>3, <2>4, <2>5, ResetHost
  <2>7. ExcludesInv'
    BY <1>1, <1>3, <1>5, <1>7, <2>1 DEF ExcludesInv, NonePending
  <2>8. AllServed'
    <3> SUFFICES ASSUME NEW r \in Requests PROVE Served(r)'
      BY DEF AllServed
    <3>1. Served(r) /\ PathOf[r] \in Paths
      BY <1>3, WatcherHostAssumption DEF AllServed
    <3>2. Released(PathOf[r]) <=> Released(PathOf[r])'
      BY <1>1 DEF Released
    <3> QED BY <1>1, <2>6, <3>1, <3>2 DEF Served
  <2> QED BY <1>4, <2>6, <2>7, <2>8 DEF MoreInv
<1> QED BY <1>6, <1>7

(* One of the two starts of a doWatch is over: "as" is its task, nt what the   *)
(* native watchers watch.                                                      *)
Mid(t, as, nt) ==
    LET p == t.path IN
    /\ Advanced(t, as) /\ TaskInv(as, version, broken')
    /\ NativeInv(nt, version) /\ Same(p, native, nt)
    /\ broken \subseteq broken' /\ broken' \subseteq broken \cup {p}
    /\ PathInv(p, handlers, (tasks \ {t}) \cup {as}, collection, nt, broken', overtaken)

\* What is said of a half that is over, before Promise.all is.
LEMMA MidRecord ==
    ASSUME HostInv, NEW t \in tasks, t.stage = "starting", NEW as, Advanced(t, as)
    PROVE  LET p == t.path
               ts == (tasks \ {t}) \cup {as}
           IN  /\ StartOf(p, tasks) = {t} /\ StartOf(p, ts) = {as}
               /\ ~Current(p, collection) /\ t.ver = version
               /\ RecordInv(p, handlers, ts, collection, overtaken)
<1> DEFINE p == t.path
           ts == (tasks \ {t}) \cup {as}
<1>1. t.path \in Paths /\ as.path = p /\ as.n = t.n /\ as.stage = "starting"
  BY DEF HostInv, IInv, StartTypes, Tasks, Advanced
<1>2. OneStart(tasks) /\ t.ver = version
  BY DEF HostInv, IInv, StartsArePending
<1>3. StartOf(p, tasks) = {t} /\ StartOf(p, ts) = {as}
  BY <1>1, <1>2 DEF OneStart, StartOf
<1>4. RecordInv(p, handlers, tasks, collection, overtaken)
  BY <1>1 DEF HostInv, MoreInv, PathsInv, PathInv
<1>5. ~Current(p, collection) /\ <<p, as.n>> \in handlers
  BY <1>1, <1>3, <1>4 DEF RecordInv
<1>6. RecordInv(p, handlers, ts, collection, overtaken)
  BY <1>3, <1>4, <1>5 DEF RecordInv
<1> QED BY <1>2, <1>3, <1>5, <1>6

LEMMA FileEndsMid ==
    ASSUME HostInv, NEW t \in tasks, NEW how \in {"up", "empty", "failed"},
           FileEnds(t, how)
    PROVE  \E nt, as : Mid(t, as, nt) /\ HalfEnds(t, as, nt)
<1> DEFINE p == t.path
<1>0. IInv /\ t.stage = "starting" /\ t \in Tasks /\ p \in Paths
  BY DEF HostInv, FileEnds, IInv, StartTypes, Tasks
<1>1. PICK nt, as :
              /\ Advanced(t, as) /\ as.tree = t.tree
              /\ as.file = IF how = "failed" THEN "failed" ELSE "up"
              /\ nt = IF how = "up" THEN native \cup {<<p, version, "file">>}
                                    ELSE native
              /\ NativeInv(nt, version) /\ HalfEnds(t, as, nt)
              /\ broken' = IF how = "up" THEN broken ELSE broken \cup {p}
  BY <1>0, FileEndsHalf
<1>2. /\ StartOf(p, tasks) = {t} /\ StartOf(p, (tasks \ {t}) \cup {as}) = {as}
      /\ ~Current(p, collection)
      /\ RecordInv(p, handlers, (tasks \ {t}) \cup {as}, collection, overtaken)
  BY <1>0, <1>1, MidRecord
<1>3. Same(p, native, nt)
  BY <1>1 DEF Same
<1>4. TaskInv(as, version, broken')
  <2>1. TaskInv(t, version, broken)
    BY DEF HostInv, MoreInv, TasksInv
  <2> QED BY <1>0, <1>1, <2>1 DEF TaskInv, Advanced
<1>5. ASSUME p \notin broken'
      PROVE  ComesUp(p, (tasks \ {t}) \cup {as}, collection, nt, overtaken)
  <2>1. how = "up" /\ p \notin broken
    BY <1>1, <1>5
  <2>2. ComesUp(p, tasks, collection, native, overtaken)
    BY <1>0, <2>1 DEF HostInv, MoreInv, PathsInv, PathInv
  <2>3. <<p, version, "file">> \in nt /\ native \subseteq nt
        /\ \A w \in nt \ native : w[3] = "file"
    BY <1>1, <2>1
  <2>4. as.tree = "up" => <<p, version, "tree">> \in nt
    BY <1>1, <1>2, <2>2, <2>3 DEF ComesUp
  <2>5. ASSUME NEW w \in nt, w[1] = p, w[3] = "opening"
        PROVE  w[2] = version /\ as.tree = "starting"
    <3>1. w \in native
      BY <2>3, <2>5
    <3> QED BY <1>1, <1>2, <2>2, <2>5, <3>1 DEF ComesUp
  <2> QED BY <1>2, <2>3, <2>4, <2>5 DEF ComesUp
<1>6. PathInv(p, handlers, (tasks \ {t}) \cup {as}, collection, nt, broken', overtaken)
  BY <1>2, <1>5 DEF PathInv
<1>7. broken \subseteq broken' /\ broken' \subseteq broken \cup {p}
  BY <1>1
<1>8. Mid(t, as, nt)
  BY <1>1, <1>3, <1>4, <1>6, <1>7 DEF Mid
<1> QED BY <1>1, <1>8

LEMMA TreeTimesOutMid ==
    ASSUME HostInv, NEW t \in tasks, TreeTimesOut(t)
    PROVE  \E nt, as : Mid(t, as, nt) /\ HalfEnds(t, as, nt)
<1> DEFINE p == t.path
<1>0. IInv /\ t.stage = "starting" /\ t.tree = "starting" /\ NativeInv(native, version)
  BY DEF HostInv, TreeTimesOut, IInv
<1>1. PICK as : /\ Advanced(t, as) /\ as.tree = "failed" /\ as.file = t.file
                /\ HalfEnds(t, as, native) /\ broken' = broken \cup {p}
  BY <1>0, TreeTimesOutHalf
<1>2. RecordInv(p, handlers, (tasks \ {t}) \cup {as}, collection, overtaken)
  BY <1>0, <1>1, MidRecord
<1>3. TaskInv(as, version, broken')
  <2>1. TaskInv(t, version, broken)
    BY DEF HostInv, MoreInv, TasksInv
  <2> QED BY <1>0, <1>1, <2>1 DEF TaskInv, Advanced
<1>4. PathInv(p, handlers, (tasks \ {t}) \cup {as}, collection, native, broken', overtaken)
  BY <1>1, <1>2 DEF PathInv
<1>5. Mid(t, as, native)
  BY <1>0, <1>1, <1>3, <1>4 DEF Mid, Same
<1> QED BY <1>1, <1>5

\* A recursive start that is over is awaited, or its path is on record as not having
\* come up.
LEMMA TreeEndsMid ==
    ASSUME HostInv, NEW w \in native, NEW up \in BOOLEAN, TreeEnds(w, up)
    PROVE  \/ \E t \in tasks : /\ t.stage = "starting"
                               /\ \E nt, as : Mid(t, as, nt) /\ HalfEnds(t, as, nt)
           \/ /\ w[1] \in broken /\ broken' = broken /\ Same(w[1], native, native')
              /\ UNCHANGED <<server, tasks, client, overtaken>>
<1> DEFINE p == w[1]
           nt == Ended(w, up)
<1>0. IInv /\ version \in Nat /\ NativeInv(native, version)
  BY DEF HostInv, IInv, StartTypes
<1>1. /\ w[3] = "opening" /\ p \in Paths
      /\ broken' = IF up THEN broken ELSE broken \cup {p}
      /\ NativeInv(nt, version)
  BY <1>0, TreeEndsHalf
<1>2. /\ \A x \in nt : x \in native \/ (up /\ x = <<p, version, "tree">>)
      /\ \A x \in native : x \in nt \/ x = w
      /\ w \notin nt
      /\ (up /\ w[2] = version => <<p, version, "tree">> \in nt)
  BY <1>1 DEF Ended
<1>3. Same(p, native, nt)
  BY <1>2 DEF Same
<1>4. PathInv(p, handlers, tasks, collection, native, broken, overtaken)
  BY <1>1 DEF HostInv, MoreInv, PathsInv
<1>5. CASE /\ \A t \in tasks : ~Awaits(t, w)
           /\ native' = nt /\ UNCHANGED <<server, tasks, client, overtaken>>
  <2>1. p \in broken
    <3> SUFFICES ASSUME p \notin broken PROVE FALSE
      OBVIOUS
    <3>1. ComesUp(p, tasks, collection, native, overtaken)
      BY <1>4 DEF PathInv
    <3>2. w[2] = version /\ \E t \in StartOf(p, tasks) : t.tree = "starting"
      BY <1>1, <3>1 DEF ComesUp
    <3>3. PICK t \in tasks : t.stage = "starting" /\ t.path = p /\ t.tree = "starting"
      BY <3>2 DEF StartOf
    <3>4. t.ver = version
      BY <1>0, <3>3 DEF IInv, StartsArePending
    <3> QED BY <1>5, <3>2, <3>3, <3>4 DEF Awaits
  <2>2. broken' = broken
    BY <1>1, <2>1
  <2> QED BY <1>3, <1>5, <2>1, <2>2
<1>6. ASSUME NEW t \in tasks, NEW as, Awaits(t, w), Advanced(t, as), as.file = t.file,
             as.tree = IF up THEN "up" ELSE "failed", HalfEnds(t, as, nt)
      PROVE  t.stage = "starting" /\ Mid(t, as, nt)
  <2>0. t.stage = "starting" /\ t.path = p /\ t.ver = w[2] /\ t.tree = "starting"
    BY <1>6 DEF Awaits
  <2>1. /\ StartOf(p, tasks) = {t} /\ StartOf(p, (tasks \ {t}) \cup {as}) = {as}
        /\ ~Current(p, collection) /\ t.ver = version
        /\ RecordInv(p, handlers, (tasks \ {t}) \cup {as}, collection, overtaken)
    BY <1>6, <2>0, MidRecord
  <2>2. TaskInv(as, version, broken')
    <3>1. TaskInv(t, version, broken)
      BY DEF HostInv, MoreInv, TasksInv
    <3> QED BY <1>1, <1>6, <2>0, <3>1 DEF TaskInv, Advanced
  <2>3. ASSUME p \notin broken'
        PROVE  ComesUp(p, (tasks \ {t}) \cup {as}, collection, nt, overtaken)
    <3>1. up /\ p \notin broken
      BY <1>1, <2>3
    <3>2. ComesUp(p, tasks, collection, native, overtaken)
      BY <1>4, <3>1 DEF PathInv
    <3>3. as.file = "up" => <<p, version, "file">> \in nt
      <4>1. t.file = "up" => <<p, version, "file">> \in native
        BY <2>1, <3>2 DEF ComesUp
      <4>2. <<p, version, "file">> # w
        BY <1>1
      <4> QED BY <1>2, <1>6, <4>1, <4>2
    <3>4. <<p, version, "tree">> \in nt
      BY <1>2, <2>0, <2>1, <3>1
    <3>5. ASSUME NEW x \in nt, x[1] = p, x[3] = "opening" PROVE FALSE
      <4>1. x \in native
        BY <1>2, <3>5
      <4>2. x[2] = version
        BY <3>2, <3>5, <4>1 DEF ComesUp
      <4>3. x = <<p, version, "opening">> /\ w = <<p, version, "opening">>
        BY <1>0, <1>1, <2>0, <2>1, <3>5, <4>1, <4>2, Triples DEF NativeInv
      <4> QED BY <1>2, <3>5, <4>3
    <3> QED BY <2>1, <3>3, <3>4, <3>5 DEF ComesUp
  <2>4. PathInv(p, handlers, (tasks \ {t}) \cup {as}, collection, nt, broken', overtaken)
    BY <2>1, <2>3 DEF PathInv
  <2>5. broken \subseteq broken' /\ broken' \subseteq broken \cup {p}
    BY <1>1
  <2> QED BY <1>1, <1>3, <1>6, <2>0, <2>2, <2>4, <2>5 DEF Mid
<1> HIDE DEF nt
<1>7. \/ /\ \A t \in tasks : ~Awaits(t, w)
         /\ native' = nt /\ UNCHANGED <<server, tasks, client, overtaken>>
      \/ \E t \in tasks : \E as :
            /\ Awaits(t, w) /\ Advanced(t, as) /\ as.file = t.file
            /\ as.tree = IF up THEN "up" ELSE "failed"
            /\ HalfEnds(t, as, nt)
  BY <1>0, TreeEndsHalf DEF nt
<1>8. ASSUME NEW t \in tasks, NEW as, Awaits(t, w), Advanced(t, as), as.file = t.file,
             as.tree = IF up THEN "up" ELSE "failed", HalfEnds(t, as, nt)
      PROVE  \E u \in tasks : /\ u.stage = "starting"
                              /\ \E n, b : Mid(u, b, n) /\ HalfEnds(u, b, n)
  <2>1. t.stage = "starting" /\ Mid(t, as, nt)
    BY <1>6, <1>8 DEF nt
  <2> QED BY <1>8, <2>1
<1> QED BY <1>5, <1>7, <1>8

\* A task stays as it is when more paths are on record as not having come up.
LEMMA MoreBroken ==
    ASSUME HostInv, broken \subseteq broken'
    PROVE  \A u \in tasks : TaskInv(u, version, broken')
BY DEF HostInv, MoreInv, TasksInv, TaskInv

\* What is said of the other tasks while one goes on.
LEMMA Others ==
    ASSUME HostInv, NEW t \in tasks, t.stage = "starting", NEW as, NEW nt, Mid(t, as, nt)
    PROVE  LET p == t.path
               pd == [pending EXCEPT ![p] = None]
               rest == tasks \ {t}
           IN  /\ p \in Paths /\ as.path = p /\ as.n = t.n /\ as.ver = version
               /\ as.stage = "starting" /\ as \in Tasks /\ as.by = t.by
               /\ \A u \in rest : u.path = p => u.n # t.n /\ u.stage # "starting"
               /\ PendingAreStarting(rest, pd)
               /\ LastToStart(pd) => \A u \in rest : u.stage = "resetting"
               /\ \A u \in rest : TaskInv(u, version, broken')
               /\ StartOf(p, rest \cup {as}) = {as} /\ StartOf(p, rest) = {}
<1> DEFINE p == t.path
           pd == [pending EXCEPT ![p] = None]
           rest == tasks \ {t}
<1>1. /\ IInv /\ StartTypes /\ t \in Tasks /\ p \in Paths /\ pending \in [Paths -> Entries]
      /\ OneStart(tasks) /\ t.ver = version /\ tasks \subseteq Tasks
  BY DEF HostInv, IInv, StartTypes, Tasks, StartsArePending
<1>2. as.path = p /\ as.n = t.n /\ as.ver = version /\ as.stage = "starting"
      /\ as \in Tasks /\ as.by = t.by /\ broken \subseteq broken'
  BY <1>1 DEF Mid, Advanced
<1>3. \A u \in rest : u.path = p => u.n # t.n /\ u.stage # "starting"
  BY <1>1 DEF HostInv, MoreInv, TasksInv, Numbered, OneStart
<1>4. PendingAreStarting(rest, pd)
  <2> SUFFICES ASSUME NEW q \in Paths, pd[q] # None
               PROVE  \E u \in rest : u.stage = "starting" /\ u.path = q
    BY DEF PendingAreStarting
  <2>1. q # p /\ pending[q] # None
    BY <1>1
  <2>2. PICK u \in tasks : u.stage = "starting" /\ u.path = q
    BY <2>1 DEF HostInv, MoreInv, PendingAreStarting
  <2> QED BY <2>1, <2>2
<1>5. LastToStart(pd) => \A u \in rest : u.stage = "resetting"
  <2>1. LastToStart(pd) => \A u \in rest : u.stage # "starting"
    BY <1>1, OthersPending
  <2>2. \A u \in rest : u.stage \in {"starting", "resetting"}
    BY <1>1 DEF Tasks
  <2> QED BY <2>1, <2>2
<1>6. \A u \in rest : TaskInv(u, version, broken')
  BY <1>2, MoreBroken
<1>7. StartOf(p, rest \cup {as}) = {as} /\ StartOf(p, rest) = {}
  BY <1>2, <1>3 DEF StartOf
<1> QED BY <1>1, <1>2, <1>3, <1>4, <1>5, <1>6, <1>7

\* Promise.all is not over.
LEMMA UnsettledMore ==
    ASSUME HostInv, NEW t \in tasks, t.stage = "starting", NEW as, NEW nt, Mid(t, as, nt),
           ~Settled(as), HalfEnds(t, as, nt), UNCHANGED settings
    PROVE  MoreInv'
<1> DEFINE p == t.path
           rest == tasks \ {t}
<1>1. /\ tasks' = rest \cup {as} /\ native' = nt
      /\ UNCHANGED <<version, seq, handlers, pending, collection, excludes, deferred,
                     rpc, held, overtaken, last, sets>>
  BY DEF HalfEnds, server, client, settings
<1>2. /\ p \in Paths /\ as.path = p /\ as.n = t.n /\ as.ver = version
      /\ as.stage = "starting"
      /\ \A u \in rest : u.path = p => u.n # t.n /\ u.stage # "starting"
      /\ \A u \in rest : TaskInv(u, version, broken')
  BY Others
<1>3. /\ HostTypes /\ ClientTypes /\ PendingAreStarting(tasks, pending)
      /\ ExcludesInv /\ TasksInv /\ PathsInv /\ AllServed
  BY DEF HostInv, MoreInv
<1>4. /\ TaskInv(as, version, broken') /\ Same(p, native, nt)
      /\ broken \subseteq broken' /\ broken' \subseteq broken \cup {p}
      /\ PathInv(p, handlers, rest \cup {as}, collection, nt, broken', overtaken)
  BY DEF Mid
<1>5. HostTypes'
  <2>1. \A u \in tasks : u.n <= seq[u.path] /\ u.ver <= version
    BY <1>3 DEF HostTypes
  <2>2. as.n <= seq[as.path] /\ as.ver <= version
    BY <1>2, <2>1 DEF HostInv, IInv, StartTypes
  <2>3. broken' \subseteq Paths
    BY <1>2, <1>3, <1>4 DEF HostTypes
  <2> QED BY <1>1, <1>3, <2>1, <2>2, <2>3 DEF HostTypes
<1>6. ClientTypes' /\ ExcludesInv'
  BY <1>1, <1>3 DEF ClientTypes, ExcludesInv, NonePending
<1>7. PendingAreStarting(tasks, pending)'
  BY <1>1, <1>2, <1>3 DEF PendingAreStarting
<1>8. TasksInv'
  <2>1. Numbered(tasks')
    <3>1. Numbered(rest)
      BY <1>3 DEF TasksInv, Numbered
    <3>2. \A u \in rest : ~(u.path = as.path /\ u.n = as.n)
      BY <1>2
    <3> QED BY <1>1, <3>1, <3>2 DEF Numbered
  <2>2. NotRecorded(tasks', collection)
    BY <1>1, <1>2, <1>3 DEF TasksInv, NotRecorded
  <2>3. \A u \in tasks' : TaskInv(u, version, broken')
    BY <1>1, <1>2, <1>4
  <2> QED BY <1>1, <2>1, <2>2, <2>3 DEF TasksInv, TaskInv, Numbered, NotRecorded
<1>9. SameTasks(p, tasks, tasks') /\ Same(p, handlers, handlers')
  BY <1>1, <1>2 DEF SameTasks, Same
<1>10. \A q \in Paths : q # p => /\ collection'[q] = collection[q]
                                 /\ q \in broken' <=> q \in broken
                                 /\ q \in overtaken' <=> q \in overtaken
  BY <1>1, <1>4
<1>11. PathsInv'
  BY <1>1, <1>3, <1>4, <1>9, <1>10, PathsKept
<1>12. AllServed'
  BY <1>1, <1>2, <1>3, <1>9, <1>10, ServedKept
<1> QED BY <1>5, <1>6, <1>7, <1>8, <1>11, <1>12 DEF MoreInv

\* The last start is over and exclusions were put off.
LEMMA SettledResets ==
    ASSUME HostInv, NEW t \in tasks, t.stage = "starting", NEW as, NEW nt, Mid(t, as, nt),
           Settled(as), LastToStart([pending EXCEPT ![t.path] = None]),
           deferred \ {excludes} # {}, HalfEnds(t, as, nt), UNCHANGED settings
    PROVE  MoreInv'
<1> DEFINE p == t.path
           rest == tasks \ {t}
           late == [as EXCEPT !.stage = "resetting"]
           both == rest \cup {late}
<1>1. /\ Reset(ForTask(t), nt, both) /\ deferred' = {} /\ excludes' \in deferred
      /\ UNCHANGED <<rpc, held, overtaken, last, sets>>
  BY DEF HalfEnds, Settle, client, settings
<1>2. /\ p \in Paths /\ as.path = p /\ as.n = t.n /\ as.ver = version
      /\ as.stage = "starting" /\ as \in Tasks
      /\ \A u \in rest : u.path = p => u.n # t.n
      /\ \A u \in rest : TaskInv(u, version, broken') /\ u.stage = "resetting"
      /\ StartOf(p, rest \cup {as}) = {as}
  <2>1. LastToStart([pending EXCEPT ![p] = None]) => \A u \in rest : u.stage = "resetting"
    BY Others
  <2>2. /\ p \in Paths /\ as.path = p /\ as.n = t.n /\ as.ver = version
        /\ as.stage = "starting" /\ as \in Tasks
    BY Others
  <2>3. \A u \in rest : u.path = p => u.n # t.n
    BY Others
  <2>4. \A u \in rest : TaskInv(u, version, broken')
    <3>1. broken \subseteq broken'
      BY DEF Mid
    <3>2. \A u \in tasks : TaskInv(u, version, broken')
      BY <3>1, MoreBroken
    <3> QED BY <3>2
  <2>5. StartOf(p, rest \cup {as}) = {as}
    <3>1. Advanced(t, as)
      BY DEF Mid
    <3> QED BY <3>1, MidRecord
  <2> QED BY <2>1, <2>2, <2>3, <2>4, <2>5
<1>3. /\ HostTypes /\ ClientTypes /\ PendingAreStarting(tasks, pending)
      /\ ExcludesInv /\ TasksInv /\ PathsInv /\ AllServed
  BY DEF HostInv, MoreInv
<1>4. /\ TaskInv(as, version, broken') /\ Same(p, native, nt) /\ NativeInv(nt, version)
      /\ broken \subseteq broken' /\ broken' \subseteq broken \cup {p}
      /\ PathInv(p, handlers, rest \cup {as}, collection, nt, broken', overtaken)
  BY DEF Mid
<1>5. StartTypes /\ version \in Nat /\ tasks \subseteq Tasks
  BY DEF HostInv, IInv, StartTypes
<1>6. /\ late \in Tasks /\ late.stage = "resetting" /\ late.path = p
      /\ late.n = t.n /\ late.ver = version /\ late.by = as.by
      /\ late.file = as.file /\ late.tree = as.tree
  BY <1>2, Resets
<1> HIDE DEF late
<1>7. ASSUME NEW u \in both
      PROVE  /\ u.stage = "resetting" /\ u.n <= seq[u.path]
             /\ u.ver <= version /\ TaskInv(u, version + 1, broken')
  <2>1. CASE u \in rest
    <3>1. u.n <= seq[u.path] /\ u.ver <= version /\ u.ver \in Nat
      BY <1>3, <1>5, <2>1 DEF HostTypes, Tasks
    <3>2. u.ver < version + 1
      BY <1>5, <3>1
    <3> QED BY <1>2, <2>1, <3>1, <3>2 DEF TaskInv
  <2>2. CASE u = late
    <3>1. t.n <= seq[p]
      BY <1>3 DEF HostTypes
    <3>2. version < version + 1 /\ version <= version
      BY <1>5
    <3> QED BY <1>4, <1>2, <1>6, <2>2, <3>1, <3>2 DEF TaskInv
  <2> QED BY <2>1, <2>2
<1>8. Numbered(both)
  BY <1>2, <1>3, <1>6 DEF TasksInv, Numbered
<1>9. both \in SUBSET Tasks
  BY <1>5, <1>6
<1>10. ASSUME NEW w \in Opening(nt) PROVE w[1] \in broken'
  <2> SUFFICES ASSUME w[1] \notin broken' PROVE FALSE
    OBVIOUS
  <2>0. w \in nt /\ w[3] = "opening" /\ w[1] \in Paths
    BY <1>4 DEF Opening, NativeInv
  <2>1. CASE w[1] = p
    <3>1. ComesUp(p, rest \cup {as}, collection, nt, overtaken)
      BY <1>4, <2>1 DEF PathInv
    <3>2. as.tree = "starting"
      BY <1>2, <2>0, <2>1, <3>1 DEF ComesUp
    <3>3. as.file # "failed"
      BY <1>2, <1>4, <2>1 DEF TaskInv
    <3> QED BY <3>2, <3>3 DEF Settled
  <2>2. CASE w[1] # p
    <3>1. w \in native /\ w[1] \notin broken
      BY <1>4, <2>0, <2>2 DEF Same
    <3>2. ComesUp(w[1], tasks, collection, native, overtaken)
      BY <1>3, <2>0, <3>1 DEF PathsInv, PathInv
    <3>3. PICK u \in tasks : u.stage = "starting" /\ u.path = w[1]
      BY <2>0, <3>1, <3>2 DEF ComesUp, StartOf
    <3>4. u \in rest
      BY <2>2, <3>3
    <3> QED BY <1>2, <3>3, <3>4
  <2> QED BY <2>1, <2>2
<1>11. ForTask(t) \in Owners /\ ForTask(t).kind # "request"
  <2>1. t \in Tasks
    BY <1>5
  <2> QED BY <2>1, OwnersTyped DEF ForTask
<1>12. broken' \subseteq Paths
  BY <1>2, <1>3, <1>4 DEF HostTypes
<1>13. /\ HostTypes' /\ PendingAreStarting(tasks, pending)'
       /\ TasksInv' /\ PathsInv' /\ both \subseteq tasks'
       /\ \A q \in Paths : collection[q].n # 0 => \E u \in tasks' : u.path = q
  <2> HIDE DEF both
  <2> QED BY <1>1, <1>3, <1>5, <1>7, <1>8, <1>9, <1>10, <1>11, <1>12, ResetHost
<1>14. ClientTypes'
  BY <1>1, <1>3 DEF ClientTypes
<1>15. ExcludesInv'
  BY <1>1, <1>3 DEF ExcludesInv, NonePending
<1>16. AllServed'
  <2> SUFFICES ASSUME NEW r \in Requests PROVE Served(r)'
    BY DEF AllServed
  <2>1. Served(r) /\ PathOf[r] \in Paths
    BY <1>3, WatcherHostAssumption DEF AllServed
  <2>2. Released(PathOf[r]) <=> Released(PathOf[r])'
    BY <1>1 DEF Released
  <2>3. ASSUME NEW u \in tasks PROVE \E x \in tasks' : x.path = u.path
    <3>1. CASE u = t
      BY <1>6, <1>13, <3>1
    <3>2. CASE u # t
      BY <1>13, <3>2
    <3> QED BY <3>1, <3>2
  <2> QED BY <1>1, <1>4, <1>13, <2>1, <2>2, <2>3 DEF Served
<1> QED BY <1>13, <1>14, <1>15, <1>16 DEF MoreInv

\* The doWatch ends: rejected, or recorded on the current watchers.
LEMMA SettledEnds ==
    ASSUME HostInv, NEW t \in tasks, t.stage = "starting", NEW as, NEW nt, Mid(t, as, nt),
           Settled(as),
           ~(LastToStart([pending EXCEPT ![t.path] = None]) /\ deferred \ {excludes} # {}),
           HalfEnds(t, as, nt), UNCHANGED settings
    PROVE  MoreInv'
<1> DEFINE p == t.path
           rest == tasks \ {t}
           pd == [pending EXCEPT ![p] = None]
<1>1. /\ deferred' = IF LastToStart(pd) THEN {} ELSE deferred
      /\ Finish(as, pd, nt, rest)
      /\ UNCHANGED <<version, excludes, last, sets>>
  BY DEF HalfEnds, Settle, settings
<1>2. /\ p \in Paths /\ as.path = p /\ as.n = t.n /\ as.ver = version
      /\ as \in Tasks /\ as.by = t.by
      /\ \A u \in rest : u.path = p => u.n # t.n
      /\ \A u \in rest : TaskInv(u, version, broken')
      /\ PendingAreStarting(rest, pd)
      /\ StartOf(p, rest \cup {as}) = {as} /\ StartOf(p, rest) = {}
  <2>1. /\ p \in Paths /\ as.path = p /\ as.n = t.n /\ as.ver = version
        /\ as \in Tasks /\ as.by = t.by
    BY Others
  <2>2. \A u \in rest : u.path = p => u.n # t.n /\ u.stage # "starting"
    BY Others
  <2>3. \A u \in rest : TaskInv(u, version, broken')
    BY Others
  <2>4. PendingAreStarting(rest, pd)
    BY Others
  <2>5. StartOf(p, rest \cup {as}) = {as}
    <3>1. Advanced(t, as)
      BY DEF Mid
    <3> QED BY <3>1, MidRecord
  <2>6. StartOf(p, rest) = {}
    BY <2>2 DEF StartOf
  <2> QED BY <2>1, <2>2, <2>3, <2>4, <2>5, <2>6
<1>3. /\ HostTypes /\ ClientTypes
      /\ ExcludesInv /\ TasksInv /\ PathsInv /\ AllServed
  BY DEF HostInv, MoreInv
<1>4. /\ TaskInv(as, version, broken') /\ Same(p, native, nt)
      /\ broken \subseteq broken' /\ broken' \subseteq broken \cup {p}
      /\ PathInv(p, handlers, rest \cup {as}, collection, nt, broken', overtaken)
  BY DEF Mid
<1>5. StartTypes /\ version \in Nat /\ tasks \subseteq Tasks /\ t.n \in Nat \ {0}
      /\ as.by \in Owners
  BY <1>2 DEF HostInv, IInv, StartTypes, Tasks
<1>6. as.by.kind = "request" => PathOf[as.by.of] = p
  BY <1>2, <1>4 DEF TaskInv
<1>7. RecordInv(p, handlers, rest \cup {as}, collection, overtaken)
  BY <1>4 DEF PathInv
<1>8. /\ pending' = pd /\ tasks' = rest /\ native' = nt /\ seq' = seq /\ handlers' = handlers
      /\ \/ /\ as.file = "failed" /\ Rejected(as.by)
            /\ collection' = collection /\ overtaken' = overtaken
         \/ /\ as.file # "failed" /\ Answered(as.by, t.n)
            /\ collection' = [collection EXCEPT ![p] =
                                 Entry(t.n, version, as.tree = "up")]
            /\ overtaken' = overtaken \ {p}
  <2>1. ~Outdated(as)
    BY <1>2 DEF Outdated
  <2>2. CASE as.file = "failed"
    BY <1>1, <2>2 DEF Finish
  <2>3. CASE as.file # "failed"
    BY <1>1, <1>2, <2>1, <2>3 DEF Finish
  <2> QED BY <2>2, <2>3
<1> HIDE DEF pd
<1>9. ClientTypes' /\ \A r \in Requests : PathOf[r] # p => rpc'[r] = rpc[r]
  BY <1>2, <1>3, <1>5, <1>6, <1>8, ClientMoves, RequestsElsewhere
<1>10. SameTasks(p, tasks, tasks') /\ Same(p, handlers, handlers')
  BY <1>8 DEF SameTasks, Same
<1>11. /\ collection \in [Paths -> Entries] /\ collection' \in [Paths -> Entries]
       /\ \A q \in Paths : q # p => /\ collection'[q] = collection[q]
                                    /\ q \in broken' <=> q \in broken
                                    /\ q \in overtaken' <=> q \in overtaken
       /\ (as.file # "failed" => /\ collection'[p].n = t.n
                                 /\ collection'[p].ver = version
                                 /\ collection'[p].tree = (as.tree = "up"))
  <2>1. collection \in [Paths -> Entries]
    BY <1>3 DEF HostTypes
  <2> DEFINE e == Entry(t.n, version, as.tree = "up")
  <2>2. e \in Entries /\ e.n = t.n /\ e.ver = version /\ e.tree = (as.tree = "up")
    <3> DEFINE up == as.tree = "up"
    <3>1. up \in BOOLEAN
      OBVIOUS
    <3> HIDE DEF up
    <3>2. /\ Entry(t.n, version, up) \in Entries /\ Entry(t.n, version, up).n = t.n
          /\ Entry(t.n, version, up).ver = version /\ Entry(t.n, version, up).tree = up
      BY <1>5, <3>1, EntryFields
    <3> QED BY <3>2 DEF up
  <2> HIDE DEF e
  <2>3. collection' = collection
        \/ (as.file # "failed" /\ collection' = [collection EXCEPT ![p] = e])
    BY <1>8 DEF e
  <2>4. as.file # "failed" => collection' = [collection EXCEPT ![p] = e]
    BY <1>8 DEF e
  <2>5. \A q \in Paths : q # p => /\ q \in broken' <=> q \in broken
                                  /\ q \in overtaken' <=> q \in overtaken
    BY <1>4, <1>8
  <2> QED BY <1>2, <2>1, <2>2, <2>3, <2>4, <2>5
<1>12. HostTypes'
  <2>1. \A u \in rest : u.n <= seq[u.path] /\ u.ver <= version
    BY <1>3 DEF HostTypes
  <2>2. broken' \subseteq Paths /\ overtaken' \subseteq Paths
    BY <1>2, <1>3, <1>4, <1>8 DEF HostTypes
  <2>3. ASSUME NEW q \in Paths PROVE collection'[q].n <= seq[q]
    <3>1. t.n <= seq[p] /\ collection[q].n <= seq[q]
      BY <1>3 DEF HostTypes
    <3>2. CASE q # p \/ as.file = "failed"
      BY <1>8, <1>11, <3>1, <3>2
    <3>3. CASE q = p /\ as.file # "failed"
      BY <1>11, <3>1, <3>3
    <3> QED BY <3>2, <3>3
  <2> QED BY <1>1, <1>3, <1>8, <1>11, <2>1, <2>2, <2>3 DEF HostTypes
<1>13. PendingAreStarting(tasks, pending)'
  BY <1>2, <1>8 DEF PendingAreStarting
<1>14. ExcludesInv'
  <2>1. NonePending' <=> LastToStart(pd)
    BY <1>8 DEF NonePending, LastToStart
  <2>2. LastToStart(pd) => excludes = last
    BY <1>3 DEF ExcludesInv, pd
  <2> QED BY <1>1, <1>3, <2>1, <2>2 DEF ExcludesInv
<1>15. TasksInv'
  <2>1. Numbered(rest) /\ NotRecorded(rest, collection')
    <3>1. ASSUME NEW u \in rest PROVE collection'[u.path].n # u.n
      <4>1. u.path \in Paths /\ collection[u.path].n # u.n
        BY <1>3, <1>5 DEF Tasks, TasksInv, NotRecorded
      <4>2. CASE u.path # p \/ as.file = "failed"
        BY <1>8, <1>11, <4>1, <4>2
      <4>3. CASE u.path = p /\ as.file # "failed"
        BY <1>2, <1>11, <4>3
      <4> QED BY <4>2, <4>3
    <3> QED BY <1>3, <3>1 DEF TasksInv, Numbered, NotRecorded
  <2> QED BY <1>1, <1>2, <1>8, <2>1 DEF TasksInv, TaskInv, Numbered, NotRecorded
<1>16. PathInv(p, handlers', tasks', collection', native', broken', overtaken')
  <2>1. CASE as.file = "failed"
    <3>1. p \in broken'
      BY <1>2, <1>4, <2>1 DEF TaskInv
    <3>2. RecordInv(p, handlers, rest, collection, overtaken)
      BY <1>2, <1>7 DEF RecordInv
    <3> QED BY <1>8, <2>1, <3>1, <3>2 DEF PathInv
  <2>2. CASE as.file # "failed"
    <3>1. Current(p, collection') /\ collection'[p].ver = version
      BY <1>5, <1>11, <2>2 DEF Current
    <3>2. <<p, t.n>> \in handlers
      BY <1>2, <1>7 DEF RecordInv
    <3>3. RecordInv(p, handlers', tasks', collection', overtaken')
      BY <1>2, <1>8, <1>11, <2>2, <3>1, <3>2 DEF RecordInv
    <3>4. ASSUME p \notin broken' PROVE ComesUp(p, rest, collection', nt, overtaken')
      <4>1. ComesUp(p, rest \cup {as}, collection, nt, overtaken)
        BY <1>4, <3>4 DEF PathInv
      <4>2. as.file = "up" /\ as.tree # "starting"
        BY <2>2 DEF Settled
      <4>3. <<p, version, "file">> \in nt
        BY <1>2, <4>1, <4>2 DEF ComesUp
      <4>4. ASSUME p \in Trees PROVE as.tree = "up"
        <5>1. as.tree # "none" /\ as.tree # "failed"
          BY <1>2, <1>4, <3>4, <4>4 DEF TaskInv
        <5>2. as.tree \in Halves
          BY <1>2 DEF Tasks
        <5> QED BY <4>2, <5>1, <5>2 DEF Halves
      <4>5. p \in Trees => <<p, version, "tree">> \in nt /\ collection'[p].tree
        BY <1>2, <1>11, <2>2, <4>1, <4>4 DEF ComesUp
      <4>6. \A w \in nt : w[1] = p => w[3] # "opening"
        BY <1>2, <4>1, <4>2 DEF ComesUp
      <4> QED BY <1>2, <3>1, <4>3, <4>5, <4>6 DEF ComesUp
    <3> QED BY <1>8, <3>3, <3>4 DEF PathInv
  <2> QED BY <2>1, <2>2
<1>17. PathsInv'
  BY <1>1, <1>3, <1>4, <1>8, <1>10, <1>11, <1>16, PathsKept
<1>18. collection'[p].n # 0 \/ p \in broken' \cup overtaken'
  <2>1. as.file = "failed" => p \in broken'
    BY <1>2, <1>4 DEF TaskInv
  <2> QED BY <1>5, <1>11, <2>1
<1>19. AllServed'
  BY <1>3, <1>9, <1>10, <1>11, <1>18, ServedKept
<1> QED BY <1>9, <1>12, <1>13, <1>14, <1>15, <1>17, <1>19 DEF MoreInv

LEMMA HalfMore ==
    ASSUME HostInv, NEW t \in tasks, t.stage = "starting", NEW as, NEW nt,
           Mid(t, as, nt), HalfEnds(t, as, nt), UNCHANGED settings
    PROVE  MoreInv'
BY UnsettledMore, SettledResets, SettledEnds

(* The end of a doWatch that waited for a reset: it began on earlier watchers. *)
LEMMA ResetDoneMore ==
    ASSUME HostInv, NEW t \in tasks, ResetDone(t) PROVE MoreInv'
<1> DEFINE p == t.path
           rest == tasks \ {t}
           id == <<p, t.n>>
           kept == handlers \ {id}
           left == native \ Of(p, t.ver)
<1>1. /\ t.stage = "resetting" /\ Finish(t, pending, native, rest)
      /\ UNCHANGED <<version, excludes, deferred, broken, last, sets>>
  BY DEF ResetDone, Resettled, settings
<1>2. /\ IInv /\ StartTypes /\ t \in Tasks /\ p \in Paths /\ t.n \in Nat \ {0}
      /\ t.by \in Owners /\ t.retry \in {0, 1} /\ rest \in SUBSET Tasks
      /\ pending \in [Paths -> Entries] /\ seq \in [Paths -> Nat]
      /\ version \in Nat /\ t.ver \in Nat /\ NativeInv(native, version)
  BY DEF HostInv, IInv, StartTypes, Tasks
<1>3. /\ HostTypes /\ ClientTypes /\ PendingAreStarting(tasks, pending)
      /\ ExcludesInv /\ TasksInv /\ PathsInv /\ AllServed
  BY DEF HostInv, MoreInv
<1>4. /\ TaskInv(t, version, broken) /\ t.ver < version /\ t.ver # version
      /\ (t.by.kind = "request" => PathOf[t.by.of] = p)
  BY <1>1, <1>2, <1>3 DEF TasksInv, TaskInv
<1>5. Outdated(t)
  BY <1>4 DEF Outdated
<1>6. PathInv(p, handlers, tasks, collection, native, broken, overtaken)
  BY <1>2, <1>3 DEF PathsInv
<1>7. StartOf(p, rest) = StartOf(p, tasks)
  BY <1>1 DEF StartOf
<1>8. PendingAreStarting(rest, pending) /\ StartsArePending(rest, pending, version)
  BY <1>1, <1>2, <1>3 DEF PendingAreStarting, StartsArePending, IInv
<1>9. left = native
  <2> SUFFICES ASSUME NEW w \in Of(p, t.ver) PROVE w \notin native
    OBVIOUS
  <2>1. w[2] = t.ver /\ w[3] # "opening"
    BY DEF Of
  <2> QED BY <1>2, <1>4, <2>1 DEF NativeInv
<1>10. \A u \in rest : u.path = p => u.n # t.n
  BY <1>3 DEF TasksInv, Numbered
<1>11. RecordInv(p, kept, rest, collection, overtaken)
  <2>1. RecordInv(p, handlers, tasks, collection, overtaken)
    BY <1>6 DEF PathInv
  <2>2. collection[p].n # t.n
    BY <1>3 DEF TasksInv, NotRecorded
  <2>3. \A u \in StartOf(p, rest) : u.n # t.n
    BY <1>10 DEF StartOf
  <2>4. \A n : n # t.n => (<<p, n>> \in handlers => <<p, n>> \in kept)
    OBVIOUS
  <2> QED BY <1>7, <2>1, <2>2, <2>3, <2>4 DEF RecordInv
<1>12. PathInv(p, kept, rest, collection, native, broken, overtaken)
  <2>1. p \notin broken => ComesUp(p, rest, collection, native, overtaken)
    BY <1>6, <1>7 DEF PathInv, ComesUp
  <2> QED BY <1>11, <2>1 DEF PathInv
<1>13. Same(p, handlers, kept) /\ SameTasks(p, tasks, rest) /\ Same(p, native, native)
  BY DEF Same, SameTasks
<1>14. \A u \in rest : u.n <= seq[u.path] /\ u.ver <= version
  BY <1>3 DEF HostTypes
<1> HIDE DEF p, kept, left
<1>15. CASE t.file = "failed"
  <2>1. /\ Rejected(t.by) /\ pending' = pending /\ tasks' = rest /\ native' = native
        /\ UNCHANGED <<seq, handlers, collection, overtaken>>
    BY <1>1, <1>15 DEF Finish
  <2>2. p \in broken
    BY <1>4, <1>15 DEF TaskInv, p
  <2>3. 1 \in Nat \ {0}
    OBVIOUS
  <2>4. ClientTypes' /\ \A r \in Requests : PathOf[r] # p => rpc'[r] = rpc[r]
    BY <1>2, <1>3, <1>4, <2>1, <2>3, ClientMoves, RequestsElsewhere
  <2>5. HostTypes' /\ PendingAreStarting(tasks, pending)' /\ ExcludesInv'
    BY <1>1, <1>3, <1>8, <1>14, <2>1
       DEF HostTypes, PendingAreStarting, ExcludesInv, NonePending
  <2>6. TasksInv'
    BY <1>1, <1>3, <2>1 DEF TasksInv, TaskInv, Numbered, NotRecorded
  <2>7. PathInv(p, handlers', tasks', collection', native', broken', overtaken')
    <3>1. RecordInv(p, handlers, rest, collection, overtaken)
      BY <1>6, <1>7 DEF PathInv, RecordInv
    <3> QED BY <1>1, <2>1, <2>2, <3>1 DEF PathInv
  <2>8. Same(p, handlers, handlers') /\ SameTasks(p, tasks, tasks') /\ Same(p, native, native')
    BY <1>13, <2>1 DEF Same
  <2>9. PathsInv'
    BY <1>1, <1>3, <2>1, <2>7, <2>8, PathsKept
  <2>10. AllServed'
    BY <1>1, <1>3, <2>1, <2>2, <2>4, <2>8, ServedKept
  <2> QED BY <2>4, <2>5, <2>6, <2>9, <2>10 DEF MoreInv
<1>16. CASE t.file # "failed" /\ t.retry = 0
  <2>1. /\ DoWatch(p, 1, t.by, kept, pending, native, rest)
        /\ UNCHANGED <<collection, overtaken>>
    BY <1>1, <1>5, <1>9, <1>16 DEF Finish, p, kept, left
  <2>2. 1 \in {0, 1} /\ kept \in SUBSET (Paths \X Nat) /\ rest \in SUBSET tasks
    BY <1>3 DEF HostTypes, kept
  <2> HIDE DEF rest
  <2>3. /\ handlers' \subseteq Paths \X Nat /\ ClientTypes'
        /\ \A u \in tasks' : u.n <= seq'[u.path] /\ u.ver <= version'
        /\ \A q \in Paths : seq[q] <= seq'[q] /\ seq'[q] \in Nat
    BY <1>1, <1>2, <1>3, <1>14, <2>1, <2>2, DoWatchTypes
  <2>4. /\ PendingAreStarting(tasks, pending)'
        /\ NonePending' => \A q \in Paths : pending[q] = None
    BY <1>2, <1>8, <2>1, DoWatchPending
  <2>5. TasksInv'
    BY <1>1, <1>2, <1>3, <1>4, <2>1, <2>2, DoWatchTasks
  <2>6. /\ PathInv(p, handlers', tasks', collection, native', broken, overtaken)
        /\ Same(p, kept, handlers') /\ SameTasks(p, rest, tasks')
        /\ Same(p, native, native')
        /\ collection[p].n # 0 \/ \E u \in tasks' : u.path = p
        /\ \A r \in Requests : PathOf[r] # p => rpc'[r] = rpc[r]
    BY <1>2, <1>3, <1>4, <1>8, <1>12, <2>1, DoWatchPath
  <2>7. Same(p, handlers, handlers') /\ SameTasks(p, tasks, tasks')
    BY <1>13, <2>6 DEF Same, SameTasks
  <2>8. PathsInv'
    BY <1>1, <1>3, <2>1, <2>6, <2>7, PathsKept
  <2>9. AllServed'
    BY <1>1, <1>3, <2>1, <2>6, <2>7, ServedKept
  <2>10. HostTypes'
    <3>1. ASSUME NEW q \in Paths PROVE collection'[q].n <= seq'[q]
      <4>1. collection[q].n \in Nat /\ collection[q].n <= seq[q] /\ seq[q] \in Nat
        BY <1>2, <1>3 DEF HostTypes, Entries
      <4>2. seq[q] <= seq'[q] /\ seq'[q] \in Nat
        BY <2>3
      <4> QED BY <2>1, <4>1, <4>2
    <3> QED BY <1>1, <1>3, <2>1, <2>3, <3>1 DEF HostTypes
  <2>11. ExcludesInv'
    BY <1>1, <1>3, <2>4 DEF ExcludesInv, NonePending
  <2> QED BY <2>3, <2>4, <2>5, <2>8, <2>9, <2>10, <2>11 DEF MoreInv
<1>17. CASE t.file # "failed" /\ t.retry = 1
  <2> DEFINE e == Entry(t.n, t.ver, t.tree = "up")
  <2>1. /\ pending' = pending /\ tasks' = rest /\ seq' = seq /\ native' = native
        /\ collection' = [collection EXCEPT ![p] = e]
        /\ overtaken' = overtaken \cup {p}
        /\ handlers' = kept /\ Answered(t.by, t.n)
    BY <1>1, <1>5, <1>9, <1>17, OutdatedTwice DEF p, kept, left
  <2>2. e \in Entries /\ e.n = t.n /\ e.ver = t.ver
    <3> DEFINE up == t.tree = "up"
    <3>1. up \in BOOLEAN
      OBVIOUS
    <3> HIDE DEF up
    <3>2. /\ Entry(t.n, t.ver, up) \in Entries /\ Entry(t.n, t.ver, up).n = t.n
          /\ Entry(t.n, t.ver, up).ver = t.ver
      BY <1>2, <3>1, EntryFields
    <3> QED BY <3>2 DEF up
  <2> HIDE DEF e
  <2>3. /\ collection \in [Paths -> Entries] /\ collection' \in [Paths -> Entries]
        /\ collection'[p] = e
        /\ \A q \in Paths : q # p => /\ collection'[q] = collection[q]
                                     /\ q \in broken' <=> q \in broken
                                     /\ q \in overtaken' <=> q \in overtaken
    BY <1>1, <1>2, <1>3, <2>1, <2>2 DEF HostTypes
  <2>4. ClientTypes' /\ \A r \in Requests : PathOf[r] # p => rpc'[r] = rpc[r]
    BY <1>2, <1>3, <1>4, <2>1, ClientMoves, RequestsElsewhere
  <2>5. HostTypes'
    <3>1. ASSUME NEW q \in Paths PROVE collection'[q].n <= seq[q]
      <4>1. t.n <= seq[p] /\ collection[q].n <= seq[q]
        BY <1>3 DEF HostTypes, p
      <4>2. CASE q = p
        BY <2>2, <2>3, <4>1, <4>2
      <4>3. CASE q # p
        BY <2>3, <4>1, <4>3
      <4> QED BY <4>2, <4>3
    <3>2. handlers' \subseteq Paths \X Nat /\ overtaken' \subseteq Paths
      BY <1>2, <1>3, <2>1 DEF HostTypes, kept
    <3> QED BY <1>1, <1>3, <1>14, <2>1, <2>3, <3>1, <3>2 DEF HostTypes
  <2>6. PendingAreStarting(tasks, pending)' /\ ExcludesInv'
    BY <1>1, <1>3, <1>8, <2>1 DEF PendingAreStarting, ExcludesInv, NonePending
  <2>7. TasksInv'
    <3>1. ASSUME NEW u \in rest PROVE collection'[u.path].n # u.n
      <4>1. u.path \in Paths /\ collection[u.path].n # u.n
        BY <1>2, <1>3 DEF Tasks, TasksInv, NotRecorded
      <4>2. CASE u.path # p
        BY <2>3, <4>1, <4>2
      <4>3. CASE u.path = p
        BY <1>10, <2>2, <2>3, <4>3 DEF p
      <4> QED BY <4>2, <4>3
    <3> QED BY <1>1, <1>3, <2>1, <3>1 DEF TasksInv, TaskInv, Numbered, NotRecorded
  <2>8. ~Current(p, collection')
    BY <1>4, <2>2, <2>3 DEF Current
  <2>9. PathInv(p, handlers', tasks', collection', native', broken', overtaken')
    <3>1. RecordInv(p, handlers', tasks', collection', overtaken')
      BY <1>11, <2>1, <2>8 DEF RecordInv
    <3>2. ASSUME p \notin broken PROVE ComesUp(p, rest, collection', native, overtaken')
      <4>1. ComesUp(p, rest, collection, native, overtaken)
        BY <1>12, <3>2 DEF PathInv
      <4> QED BY <2>1, <2>8, <4>1 DEF ComesUp
    <3> QED BY <1>1, <2>1, <3>1, <3>2 DEF PathInv
  <2>10. Same(p, handlers, handlers') /\ SameTasks(p, tasks, tasks') /\ Same(p, native, native')
    BY <1>13, <2>1
  <2>11. PathsInv'
    BY <1>1, <1>3, <2>3, <2>9, <2>10, PathsKept
  <2>12. AllServed'
    BY <1>3, <2>1, <2>3, <2>4, <2>10, ServedKept
  <2> QED BY <2>4, <2>5, <2>6, <2>7, <2>11, <2>12 DEF MoreInv
<1> QED BY <1>2, <1>15, <1>16, <1>17

LEMMA TreeEndsMore ==
    ASSUME HostInv, NEW w \in native, NEW up \in BOOLEAN, TreeEnds(w, up)
    PROVE  MoreInv'
<1>1. UNCHANGED settings
  BY DEF TreeEnds
<1>2. CASE \E t \in tasks : /\ t.stage = "starting"
                            /\ \E nt, as : Mid(t, as, nt) /\ HalfEnds(t, as, nt)
  BY <1>1, <1>2, HalfMore
<1>3. CASE /\ w[1] \in broken /\ broken' = broken /\ Same(w[1], native, native')
           /\ UNCHANGED <<server, tasks, client, overtaken>>
  <2> DEFINE p == w[1]
  <2>1. UNCHANGED <<version, seq, handlers, pending, collection, excludes, deferred,
                    tasks, rpc, held, broken, overtaken, last, sets>>
    BY <1>1, <1>3 DEF server, client, settings
  <2>2. /\ HostTypes /\ ClientTypes /\ PendingAreStarting(tasks, pending)
        /\ ExcludesInv /\ TasksInv /\ PathsInv /\ AllServed
    BY DEF HostInv, MoreInv
  <2>3. HostTypes' /\ ClientTypes' /\ PendingAreStarting(tasks, pending)' /\ ExcludesInv'
    BY <2>1, <2>2
       DEF HostTypes, ClientTypes, PendingAreStarting, ExcludesInv, NonePending
  <2>4. TasksInv' /\ AllServed'
    BY <2>1, <2>2 DEF TasksInv, TaskInv, Numbered, NotRecorded, AllServed, Served, Released
  <2>5. PathInv(p, handlers', tasks', collection', native', broken', overtaken')
    <3>1. p \in Paths
      BY <1>3, <2>2 DEF HostTypes
    <3>2. RecordInv(p, handlers, tasks, collection, overtaken)
      BY <2>2, <3>1 DEF PathsInv, PathInv
    <3> QED BY <1>3, <2>1, <3>2 DEF PathInv
  <2>6. Same(p, handlers, handlers') /\ SameTasks(p, tasks, tasks')
    BY <2>1 DEF Same, SameTasks
  <2>7. PathsInv'
    BY <1>3, <2>1, <2>2, <2>5, <2>6, PathsKept
  <2> QED BY <2>3, <2>4, <2>7 DEF MoreInv
<1> QED BY <1>2, <1>3, TreeEndsMid

LEMMA HostInvStep == HostInv /\ [Next]_vars => HostInv'
<1> SUFFICES ASSUME HostInv, [Next]_vars PROVE MoreInv'
  BY IInvStep DEF HostInv
<1>1. ASSUME NEW t \in tasks, NEW how \in {"up", "empty", "failed"}, FileEnds(t, how)
      PROVE  MoreInv'
  <2>1. t.stage = "starting" /\ UNCHANGED settings
    BY <1>1 DEF FileEnds
  <2> QED BY <1>1, <2>1, FileEndsMid, HalfMore
<1>2. ASSUME NEW t \in tasks, TreeTimesOut(t) PROVE MoreInv'
  <2>1. t.stage = "starting" /\ UNCHANGED settings
    BY <1>2 DEF TreeTimesOut
  <2> QED BY <1>2, <2>1, TreeTimesOutMid, HalfMore
<1>3. CASE Continue
  BY <1>1, <1>2, <1>3, TreeEndsMore, ResetDoneMore DEF Continue
<1>4. CASE UNCHANGED vars
  <2>1. UNCHANGED <<version, seq, handlers, pending, collection, excludes, deferred,
                    tasks, native, rpc, held, broken, overtaken, last, sets>>
    BY <1>4 DEF vars, server, client, settings
  <2>2. /\ HostTypes /\ ClientTypes /\ PendingAreStarting(tasks, pending)
        /\ ExcludesInv /\ TasksInv /\ PathsInv /\ AllServed
    BY DEF HostInv, MoreInv
  <2>3. HostTypes' /\ ClientTypes' /\ PendingAreStarting(tasks, pending)' /\ ExcludesInv'
    BY <2>1, <2>2
       DEF HostTypes, ClientTypes, PendingAreStarting, ExcludesInv, NonePending
  <2>4. TasksInv' /\ AllServed'
    BY <2>1, <2>2 DEF TasksInv, TaskInv, Numbered, NotRecorded, AllServed, Served, Released
  <2>5. PathsInv'
    BY <2>1, <2>2 DEF PathsInv, PathInv, RecordInv, ComesUp, Current, StartOf
  <2> QED BY <2>3, <2>4, <2>5 DEF MoreInv
<1> QED BY <1>3, <1>4, WatchMore, UnwatchMore, SetExcludesMore DEF Next

LEMMA HostInvariance == Spec => []HostInv
<1>1. Init => HostInv
  BY IInvInit, MoreInit DEF HostInv
<1> QED BY <1>1, HostInvStep, PTL DEF Spec

\* Every variable of WatcherHostServiceImpl keeps its type, for every number of
\* requests, paths and exclusion changes: ids and versions only grow, and at most
\* one change of the exclusions is put off.
THEOREM TypesHold == Spec => []TypeOK
<1>1. HostInv => TypeOK
  <2> SUFFICES ASSUME HostInv PROVE TypeOK
    OBVIOUS
  <2>1. StartTypes /\ HostTypes /\ ClientTypes /\ ExcludesInv /\ TasksInv
        /\ NativeInv(native, version)
    BY DEF HostInv, IInv, MoreInv
  <2>2. deferred \subseteq Values /\ Cardinality(deferred) <= 1
    <3>1. CASE deferred = {}
      BY <3>1, FS_EmptySet
    <3>2. CASE deferred # {}
      <4>1. deferred = {last} /\ last \in Values
        BY <2>1, <3>2 DEF ExcludesInv
      <4>2. Cardinality({last}) = 1
        BY FS_Singleton
      <4> QED BY <4>1, <4>2
    <3> QED BY <3>1, <3>2
  <2>3. ASSUME NEW t \in tasks
        PROVE  /\ t.path \in Paths /\ t.n \in 1..seq[t.path] /\ t.ver \in 0..version
               /\ t.retry \in {0, 1} /\ t.stage \in {"starting", "resetting"}
               /\ t.file \in {"starting", "up", "failed"}
               /\ t.tree \in {"none", "starting", "up", "failed"}
    <3>1. /\ t.path \in Paths /\ t.n \in Nat \ {0} /\ t.ver \in Nat
          /\ t.retry \in {0, 1} /\ t.stage \in {"starting", "resetting"}
          /\ t.file \in Halves \ {"none"} /\ t.tree \in Halves
      BY <2>1 DEF StartTypes, Tasks
    <3>2. /\ t.n <= seq[t.path] /\ t.ver <= version /\ version \in Nat
          /\ seq[t.path] \in Nat
      BY <2>1, <3>1 DEF StartTypes, HostTypes
    <3>3. t.n \in 1..seq[t.path] /\ t.ver \in 0..version
      BY <3>1, <3>2
    <3> QED BY <3>1, <3>3 DEF Halves
  <2>4. /\ version \in Nat /\ seq \in [Paths -> Nat]
        /\ pending \in [Paths -> Entries] /\ collection \in [Paths -> Entries]
        /\ handlers \subseteq Paths \X Nat
        /\ native \subseteq Paths \X (0..version) \X Kinds
        /\ broken \cup overtaken \subseteq Paths
    BY <2>1 DEF StartTypes, HostTypes, NativeInv
  <2> QED BY <2>1, <2>2, <2>3, <2>4 DEF TypeOK, ClientTypes, ExcludesInv
<1> QED BY <1>1, HostInvariance, PTL

\* When all starts of WatcherHostServiceImpl are over the newest exclusions are in
\* force, however changes and starts interleave: only the last change is put off,
\* and the last watch to start applies it.
THEOREM NewestApplies == Spec => []NewestExcludesApply
<1>1. HostInv => NewestExcludesApply
  <2> SUFFICES ASSUME HostInv, tasks = {} PROVE excludes = last
    BY DEF NewestExcludesApply, Idle
  <2>1. PendingAreStarting(tasks, pending) /\ ExcludesInv
    BY DEF HostInv, MoreInv
  <2>2. NonePending
    BY <2>1 DEF PendingAreStarting, NonePending
  <2> QED BY <2>1, <2>2 DEF ExcludesInv
<1> QED BY <1>1, HostInvariance, PTL

\* Across any number of changes of the exclusions, what a $watch of
\* WatcherHostServiceImpl holds is watched by the current native watchers, and what
\* is watched is recorded where unwatch and the next reset look for it: but for
\* the paths with a native watch that did not come up and those whose start was
\* overtaken twice.
THEOREM HeldStaysWatched == Spec => []HeldIsWatched
<1>1. HostInv => HeldIsWatched
  <2> SUFFICES ASSUME HostInv, tasks = {} PROVE HolderIsServed /\ LiveIsCollected
    BY DEF HeldIsWatched, HolderIsServed, LiveIsCollected, Idle
  <2>1. PathsInv /\ AllServed /\ NativeInv(native, version)
    BY DEF HostInv, IInv, MoreInv
  <2>2. ASSUME NEW p \in Paths, p \notin broken \cup overtaken
        PROVE  /\ RecordInv(p, handlers, tasks, collection, overtaken)
               /\ ComesUp(p, tasks, collection, native, overtaken)
               /\ StartOf(p, tasks) = {}
    BY <2>1, <2>2 DEF PathsInv, PathInv, StartOf
  <2>3. ASSUME NEW r \in Requests, rpc[r] = "held", ~Released(PathOf[r]),
               PathOf[r] \notin broken \cup overtaken
        PROVE  /\ <<PathOf[r], version, "file">> \in native
               /\ PathOf[r] \in Trees => <<PathOf[r], version, "tree">> \in native
    <3>1. PathOf[r] \in Paths /\ collection[PathOf[r]].n # 0
      BY <2>1, <2>3, WatcherHostAssumption DEF AllServed, Served
    <3>2. Current(PathOf[r], collection)
      BY <2>2, <2>3, <3>1 DEF RecordInv, Current
    <3> QED BY <2>2, <2>3, <3>1, <3>2 DEF ComesUp
  <2>4. ASSUME NEW w \in Live, w[1] \notin broken \cup overtaken
        PROVE  /\ collection[w[1]].ver = version
               /\ <<w[1], collection[w[1]].n>> \in handlers
               /\ w[3] = "tree" => collection[w[1]].tree
    <3>1. w \in native /\ w[1] \in Paths /\ w[3] # "opening"
          /\ (w[3] = "tree" => w[1] \in Trees)
      BY <2>1 DEF Live, NativeInv
    <3>2. Current(w[1], collection)
      BY <2>2, <2>4, <3>1 DEF ComesUp
    <3>3. <<w[1], collection[w[1]].n>> \in handlers
      BY <2>2, <2>4, <3>1, <3>2 DEF RecordInv
    <3>4. w[3] = "tree" => collection[w[1]].tree
      BY <2>2, <2>4, <3>1, <3>2 DEF ComesUp
    <3> QED BY <3>2, <3>3, <3>4 DEF Current
  <2> QED BY <2>3, <2>4 DEF HolderIsServed, LiveIsCollected
<1> QED BY <1>1, HostInvariance, PTL
=============================================================================
