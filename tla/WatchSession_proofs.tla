------------------------- MODULE WatchSession_proofs -------------------------
(* Proofs about WatchSession, for every value of its constants.             *)
EXTENDS WatchSession, FiniteSetTheorems, FunctionTheorems, TLAPS

(* A partial function over S is a function over its own domain. *)
LEMMA PartialIntro ==
    ASSUME NEW S, NEW T, NEW D, D \subseteq S, NEW f, f \in [D -> T]
    PROVE  f \in UNION {[R -> T] : R \in SUBSET S}
OBVIOUS

LEMMA PartialElim ==
    ASSUME NEW S, NEW T, NEW f, f \in UNION {[R -> T] : R \in SUBSET S}
    PROVE  DOMAIN f \subseteq S /\ f \in [DOMAIN f -> T]
OBVIOUS

LEMMA NoChangesType ==
    ASSUME NEW S, NEW T
    PROVE  NoChanges \in UNION {[R -> T] : R \in SUBSET S}
BY DEF NoChanges

LEMMA FrameElim ==
    ASSUME NEW f, f \in Frame
    PROVE  /\ f.overflow \in Nat
           /\ DOMAIN f.changes \subseteq Paths
           /\ f.changes \in [DOMAIN f.changes -> ChangeTypes]
BY PartialElim DEF Frame

LEMMA FramesTyped ==
    /\ ReadyFrame \in Frame
    /\ FailureFrame \in Frame
    /\ \A c \in UNION {[R -> ChangeTypes] : R \in SUBSET Watched}, n \in Nat :
          BatchFrame(c, n) \in Frame
<1>1. NoChanges \in UNION {[R -> ChangeTypes] : R \in SUBSET Paths}
  BY NoChangesType
<1>2. ReadyFrame \in Frame /\ FailureFrame \in Frame
  BY <1>1 DEF ReadyFrame, FailureFrame, Frame
<1>3. ASSUME NEW c \in UNION {[R -> ChangeTypes] : R \in SUBSET Watched},
             NEW n \in Nat
      PROVE  BatchFrame(c, n) \in Frame
  <2>1. DOMAIN c \subseteq Watched /\ c \in [DOMAIN c -> ChangeTypes]
    BY <1>3, PartialElim
  <2>2. c \in UNION {[R -> ChangeTypes] : R \in SUBSET Paths}
    BY <2>1, PathsAssumption, PartialIntro
  <2> QED BY <2>2 DEF BatchFrame, Frame
<1> QED BY <1>2, <1>3

-----------------------------------------------------------------------------
(* TypeOK is an invariant.                                                  *)

LEMMA TypeInit == Init => TypeOK
<1> SUFFICES ASSUME Init PROVE TypeOK
  OBVIOUS
<1>1. pending \in UNION {[S -> ChangeTypes] : S \in SUBSET Watched}
  BY NoChangesType DEF Init
<1>2. outbox \in Frame
  BY FramesTyped DEF Init
<1> QED BY <1>1, <1>2 DEF Init, TypeOK, Losses, Event

LEMMA TypeStep == TypeOK /\ [Next]_vars => TypeOK'
<1> SUFFICES ASSUME TypeOK, [Next]_vars PROVE TypeOK'
  OBVIOUS
<1> USE DEF TypeOK, Losses
<1>1. ASSUME NEW p \in Paths, NEW t \in ChangeTypes, NativeChange(p, t)
      PROVE  TypeOK'
  <2>1. Change(p, t) \in Event
    BY DEF Change, Event
  <2>2. queue' \in Seq(Event) /\ qdropped' \in Nat
    <3>1. \/ queue' = Append(queue, Change(p, t)) /\ qdropped' = qdropped
          \/ queue' = queue /\ qdropped' = qdropped + 1
      BY <1>1 DEF NativeChange, QueueSend
    <3>2. queue \in Seq(Event) /\ qdropped \in Nat
      OBVIOUS
    <3> HIDE DEF TypeOK
    <3> QED BY <2>1, <3>1, <3>2
  <2>3. lastRaw' \in [Paths -> ChangeTypes \cup {NoChange}]
    BY <1>1 DEF NativeChange
  <2>4. loss' \in [Paths -> Losses] /\ lost' \in Nat /\ produced' \in Nat
    BY <1>1 DEF NativeChange
  <2>5. UNCHANGED <<sessionVars, errors, view, reported>>
    BY <1>1 DEF NativeChange
  <2> QED BY <2>2, <2>3, <2>4, <2>5 DEF sessionVars
<1>2. CASE NativeOverflow
  <2>1. Marker \in Event
    BY DEF Event
  <2>2. queue \in Seq(Event) /\ qdropped \in Nat /\ QueueSend(Marker)
    BY <1>2 DEF NativeOverflow
  <2>4. queue' \in Seq(Event) /\ qdropped' \in Nat
    <3> HIDE DEF TypeOK
    <3>1. CASE Len(queue) < QueueLimit
      <4>1. queue' = Append(queue, Marker) /\ qdropped' = qdropped
        BY <2>2, <3>1 DEF QueueSend
      <4> QED BY <4>1, <2>1, <2>2
    <3>2. CASE ~(Len(queue) < QueueLimit)
      BY <2>2, <3>2 DEF QueueSend
    <3> QED BY <3>1, <3>2
  <2>3. loss' \in [Paths -> Losses]
    BY <1>2 DEF NativeOverflow
  <2> QED BY <1>2, <2>4, <2>3 DEF NativeOverflow, sessionVars
<1>3. CASE NativeError
  BY <1>3 DEF NativeError, sessionVars
<1>4. CASE ReceiveMarker
  BY <1>4 DEF ReceiveMarker
<1>5. CASE ReceiveChange
  <2> DEFINE p == Head(queue).path  t == Head(queue).type
  <2>1. Head(queue) \in Event /\ Head(queue).kind = "change"
    BY <1>5 DEF ReceiveChange
  <2>2. p \in Paths /\ t \in ChangeTypes
    BY <2>1 DEF Event, Marker
  <2>3. DOMAIN pending \subseteq Watched
        /\ pending \in [DOMAIN pending -> ChangeTypes]
    BY PartialElim
  <2>4. queue' \in Seq(Event)
    BY <1>5 DEF ReceiveChange
  <2>5. ChangeBytes[p] \in Nat
    BY <2>2, BytesAssumption
  <2>6. pending' \in UNION {[S -> ChangeTypes] : S \in SUBSET Watched}
    <3>1. CASE p \in Watched /\ p \in DOMAIN pending
      <4>1. pending' = [pending EXCEPT ![p] = t]
        BY <1>5, <3>1 DEF ReceiveChange, Store, Coalesced
      <4>2. pending' \in [DOMAIN pending -> ChangeTypes]
        BY <4>1, <2>2, <2>3
      <4> QED BY <4>2, <2>3, PartialIntro
    <3>2. CASE p \in Watched /\ p \notin DOMAIN pending /\ ~WouldOverflow(p)
      <4>1. pending' = [q \in DOMAIN pending \cup {p} |->
                          IF q = p THEN t ELSE pending[q]]
        BY <1>5, <3>2 DEF ReceiveChange, Store, Coalesced
      <4>2. pending' \in [DOMAIN pending \cup {p} -> ChangeTypes]
        BY <4>1, <2>2, <2>3
      <4>3. DOMAIN pending \cup {p} \subseteq Watched
        BY <2>3, <3>2
      <4> QED BY <4>2, <4>3, PartialIntro
    <3>3. CASE p \notin Watched \/ (p \notin DOMAIN pending /\ WouldOverflow(p))
      BY <1>5, <3>3, <2>3 DEF ReceiveChange, Store, Coalesced
    <3> QED BY <3>1, <3>2, <3>3
  <2>7. Store(p, t)
    BY <1>5 DEF ReceiveChange
  <2> DEFINE Sums == pendingBytes' \in Nat /\ dropped' \in Nat /\ lost' \in Nat
  <2>8. Sums
    <3>0. pendingBytes \in Nat /\ dropped \in Nat /\ lost \in Nat
      BY DEF TypeOK
    <3>1. /\ pendingBytes' = pendingBytes \/ pendingBytes' = pendingBytes + ChangeBytes[p]
          /\ dropped' = dropped \/ dropped' = dropped + 1
          /\ lost' = lost \/ lost' = lost + 1
      BY <2>7 DEF Store
    <3> QED BY <2>5, <3>0, <3>1
  <2>9. loss' \in [Paths -> Losses]
    BY <2>7 DEF Store, Coalesced
  <2> QED BY <1>5, <2>4, <2>6, <2>8, <2>9 DEF ReceiveChange
<1>6. CASE ReceiveError
  BY <1>6, FramesTyped DEF ReceiveError, historyVars
<1>7. CASE Flush
  <2>1. outbox' \in Frame
    BY <1>7, FramesTyped DEF Flush, FlushDue, OverflowCount
  <2>2. pending' \in UNION {[S -> ChangeTypes] : S \in SUBSET Watched}
    <3>1. pending' = NoChanges
      BY <1>7 DEF Flush
    <3> HIDE DEF TypeOK
    <3> QED BY <3>1, NoChangesType
  <2> QED BY <1>7, <2>1, <2>2 DEF Flush, FlushDue, OverflowCount
<1>8. CASE SendReturns
  <2>1. /\ outbox.overflow \in Nat
        /\ outbox.changes \in [DOMAIN outbox.changes -> ChangeTypes]
    BY FrameElim
  <2>2. outbox' \in Frame
    BY <1>8, FramesTyped DEF SendReturns
  <2>3. view' \in [Paths -> ChangeTypes \cup {NoChange}]
    BY <1>8, <2>1 DEF SendReturns
  <2> QED BY <1>8, <2>1, <2>2, <2>3 DEF SendReturns, backendVars
<1>9. CASE SessionEnds
  BY <1>9 DEF SessionEnds, backendVars, historyVars
<1>10. CASE UNCHANGED vars
  BY <1>10 DEF vars, sessionVars, backendVars, historyVars
<1> QED
  BY <1>1, <1>2, <1>3, <1>4, <1>5, <1>6, <1>7, <1>8, <1>9, <1>10
     DEF Next, Backend

(* Every variable of a watch session keeps its type: the partial map of the  *)
(* loop ranges over watched paths only, and the counters are naturals.       *)
THEOREM TypeCorrect == Spec => []TypeOK
<1> QED BY TypeInit, TypeStep, PTL DEF Spec

-----------------------------------------------------------------------------
(* What appending to and taking from the queue does to the events in it.     *)

IsChangeOf(e, p) == e.kind = "change" /\ e.path = p

LEMMA AppendFacts ==
    ASSUME NEW q \in Seq(Event), NEW e \in Event
    PROVE  /\ MarkerInQueue(q) => MarkerInQueue(Append(q, e))
           /\ MarkerInQueue(Append(q, Marker))
           /\ \A p : InQueue(p, Append(q, e)) <=> InQueue(p, q) \/ IsChangeOf(e, p)
<1> DEFINE r == Append(q, e)
<1>1. /\ Len(r) = Len(q) + 1 /\ r[Len(q) + 1] = e
      /\ \A i \in 1..Len(q) : r[i] = q[i]
      /\ DOMAIN r = 1..(Len(q) + 1) /\ DOMAIN q = 1..Len(q)
  OBVIOUS
<1>2. MarkerInQueue(q) => MarkerInQueue(r)
  BY <1>1 DEF MarkerInQueue
<1>3. MarkerInQueue(Append(q, Marker))
  <2>1. Append(q, Marker)[Len(q) + 1] = Marker
        /\ Len(q) + 1 \in DOMAIN Append(q, Marker)
    OBVIOUS
  <2> QED BY <2>1 DEF MarkerInQueue, Marker
<1>4. ASSUME NEW p PROVE InQueue(p, r) <=> InQueue(p, q) \/ IsChangeOf(e, p)
  <2>1. InQueue(p, r) => InQueue(p, q) \/ IsChangeOf(e, p)
    BY <1>1 DEF InQueue, IsChangeOf
  <2>2. InQueue(p, q) => InQueue(p, r)
    BY <1>1 DEF InQueue
  <2>3. IsChangeOf(e, p) => InQueue(p, r)
    BY <1>1 DEF InQueue, IsChangeOf
  <2> QED BY <2>1, <2>2, <2>3
<1> QED BY <1>2, <1>3, <1>4

LEMMA LastAfterAppend ==
    ASSUME NEW q \in Seq(Event), NEW e \in Event, NEW p, NEW t
    PROVE  /\ IsChangeOf(e, p) => LastInQueue(p, Append(q, e), e.type)
           /\ LastInQueue(p, q, t) /\ ~IsChangeOf(e, p)
                 => LastInQueue(p, Append(q, e), t)
<1> DEFINE r == Append(q, e)
<1>1. /\ Len(r) = Len(q) + 1 /\ r[Len(q) + 1] = e /\ Len(q) \in Nat
      /\ \A i \in 1..Len(q) : r[i] = q[i]
      /\ DOMAIN r = 1..(Len(q) + 1) /\ DOMAIN q = 1..Len(q)
  OBVIOUS
<1>2. IsChangeOf(e, p) => LastInQueue(p, r, e.type)
  BY <1>1 DEF LastInQueue, IsChangeOf
<1>3. ASSUME LastInQueue(p, q, t), ~IsChangeOf(e, p)
      PROVE  LastInQueue(p, r, t)
  <2>1. PICK i \in DOMAIN q : /\ q[i].kind = "change" /\ q[i].path = p
                              /\ q[i].type = t
                              /\ \A j \in DOMAIN q :
                                    j > i => ~(q[j].kind = "change" /\ q[j].path = p)
    BY <1>3 DEF LastInQueue
  <2>2. i \in DOMAIN r /\ r[i] = q[i]
    BY <1>1
  <2>3. ASSUME NEW j \in DOMAIN r, j > i
        PROVE  ~(r[j].kind = "change" /\ r[j].path = p)
    <3>1. CASE j \in DOMAIN q
      BY <2>1, <2>3, <3>1, <1>1
    <3>2. CASE j = Len(q) + 1
      BY <3>2, <1>1, <1>3 DEF IsChangeOf
    <3> QED BY <3>1, <3>2, <1>1
  <2> QED BY <2>1, <2>2, <2>3 DEF LastInQueue
<1> QED BY <1>2, <1>3

LEMMA TailFacts ==
    ASSUME NEW q \in Seq(Event), q # <<>>
    PROVE  /\ MarkerInQueue(q) /\ Head(q).kind = "change" => MarkerInQueue(Tail(q))
           /\ \A p : InQueue(p, q) <=> InQueue(p, Tail(q)) \/ IsChangeOf(Head(q), p)
<1> DEFINE r == Tail(q)
<1>1. /\ Head(q) = q[1] /\ Len(q) \in Nat \ {0}
      /\ DOMAIN q = 1..Len(q) /\ DOMAIN r = 1..(Len(q) - 1)
      /\ \A i \in 1..(Len(q) - 1) : r[i] = q[i + 1]
  OBVIOUS
<1>2. \A i \in DOMAIN q : i # 1 => i - 1 \in DOMAIN r /\ r[i - 1] = q[i]
  <2>1. ASSUME NEW i \in DOMAIN q, i # 1
        PROVE  i - 1 \in DOMAIN r /\ r[i - 1] = q[i]
    <3>1. i - 1 \in 1..(Len(q) - 1) /\ (i - 1) + 1 = i
      BY <1>1, <2>1
    <3> QED BY <1>1, <3>1
  <2> QED BY <2>1
<1>3. \A i \in DOMAIN r : i + 1 \in DOMAIN q /\ q[i + 1] = r[i]
  BY <1>1
<1>4. ASSUME MarkerInQueue(q), Head(q).kind = "change" PROVE MarkerInQueue(r)
  <2>1. PICK i \in DOMAIN q : q[i].kind = "overflow"
    BY <1>4 DEF MarkerInQueue
  <2>2. i # 1
    BY <2>1, <1>4, <1>1
  <2> QED BY <2>1, <2>2, <1>2 DEF MarkerInQueue
<1>5. ASSUME NEW p PROVE InQueue(p, q) <=> InQueue(p, r) \/ IsChangeOf(Head(q), p)
  <2>1. ASSUME InQueue(p, q), ~IsChangeOf(Head(q), p) PROVE InQueue(p, r)
    <3>1. PICK i \in DOMAIN q : q[i].kind = "change" /\ q[i].path = p
      BY <2>1 DEF InQueue
    <3>2. i # 1
      BY <3>1, <2>1, <1>1 DEF IsChangeOf
    <3> QED BY <3>1, <3>2, <1>2 DEF InQueue
  <2>2. InQueue(p, r) => InQueue(p, q)
    BY <1>3 DEF InQueue
  <2>3. IsChangeOf(Head(q), p) => InQueue(p, q)
    BY <1>1 DEF InQueue, IsChangeOf
  <2> QED BY <2>1, <2>2, <2>3
<1> QED BY <1>4, <1>5

LEMMA LastAfterTail ==
    ASSUME NEW q \in Seq(Event), q # <<>>, NEW p, NEW t, LastInQueue(p, q, t)
    PROVE  IF InQueue(p, Tail(q)) THEN LastInQueue(p, Tail(q), t)
           ELSE IsChangeOf(Head(q), p) /\ Head(q).type = t
<1> DEFINE r == Tail(q)
<1>1. /\ Head(q) = q[1] /\ Len(q) \in Nat \ {0}
      /\ DOMAIN q = 1..Len(q) /\ DOMAIN r = 1..(Len(q) - 1)
      /\ \A i \in 1..(Len(q) - 1) : r[i] = q[i + 1]
  OBVIOUS
<1>2. PICK i \in DOMAIN q : /\ q[i].kind = "change" /\ q[i].path = p
                            /\ q[i].type = t
                            /\ \A j \in DOMAIN q :
                                  j > i => ~(q[j].kind = "change" /\ q[j].path = p)
  BY DEF LastInQueue
<1>3. CASE i = 1
  <2>1. IsChangeOf(Head(q), p) /\ Head(q).type = t
    BY <1>1, <1>2, <1>3 DEF IsChangeOf
  <2>2. ~InQueue(p, r)
    <3>1. ASSUME NEW k \in DOMAIN r PROVE ~(r[k].kind = "change" /\ r[k].path = p)
      <4>1. k + 1 \in DOMAIN q /\ k + 1 > i /\ r[k] = q[k + 1]
        BY <1>1, <1>3
      <4> QED BY <4>1, <1>2
    <3> QED BY <3>1 DEF InQueue
  <2> QED BY <2>1, <2>2
<1>4. CASE i # 1
  <2>1. i - 1 \in DOMAIN r /\ r[i - 1] = q[i] /\ i - 1 \in Int
    <3>1. i - 1 \in 1..(Len(q) - 1) /\ (i - 1) + 1 = i
      BY <1>1, <1>4
    <3> QED BY <1>1, <3>1
  <2>2. ASSUME NEW k \in DOMAIN r, k > i - 1
        PROVE  ~(r[k].kind = "change" /\ r[k].path = p)
    <3>1. k + 1 \in DOMAIN q /\ k + 1 > i /\ r[k] = q[k + 1]
      BY <1>1, <2>2
    <3> QED BY <3>1, <1>2
  <2>3. LastInQueue(p, r, t)
    BY <2>1, <2>2, <1>2 DEF LastInQueue
  <2>4. InQueue(p, r)
    BY <2>1, <1>2 DEF InQueue
  <2> QED BY <2>3, <2>4
<1> QED BY <1>3, <1>4

-----------------------------------------------------------------------------
(* The inductive invariant: between two sends no frame is held back, the    *)
(* newest change of a path is never overtaken, and a loss is accounted for. *)

NoFrameHeld == pc \in {"announcing", "select"} => outbox = ReadyFrame

IInv == TypeOK /\ NoFrameHeld /\ NewestChangeWins /\ NoSilentLoss

LEMMA IInvInit == Init => IInv
<1> SUFFICES ASSUME Init PROVE IInv
  OBVIOUS
<1>1. TypeOK
  BY TypeInit
<1>2. NewestChangeWins
  <2>1. \A p : ~InQueue(p, queue)
    BY DEF Init, InQueue
  <2>2. DOMAIN pending = {} /\ DOMAIN outbox.changes = {}
    BY DEF Init, ReadyFrame, NoChanges
  <2> QED BY <2>1, <2>2, PathsAssumption DEF Init, NewestChangeWins, NewestIs
<1> QED BY <1>1, <1>2 DEF Init, IInv, NoFrameHeld, NoSilentLoss

LEMMA FrameHeldStep == IInv /\ [Next]_vars => NoFrameHeld'
<1> SUFFICES ASSUME IInv, [Next]_vars PROVE NoFrameHeld'
  OBVIOUS
<1> QED
  BY DEF IInv, NoFrameHeld, Next, Backend, vars, sessionVars, NativeChange,
         NativeOverflow, NativeError, ReceiveMarker, ReceiveChange,
         ReceiveError, Flush, FlushDue, OverflowCount, SendReturns, SessionEnds

LEMMA SumGrows ==
    ASSUME NEW a \in Nat, NEW b \in Nat, NEW c \in Nat, c >= a, a + b > 0
    PROVE  c + b > 0
OBVIOUS

(* A loss that is counted stays counted until a flush frames the count, and  *)
(* a framed one stays framed until the client has the frame.                 *)
LEMMA NoSilentLossStep == IInv /\ [Next]_vars => NoSilentLoss'
<1> SUFFICES ASSUME IInv, [Next]_vars PROVE NoSilentLoss'
  OBVIOUS
<1>0. /\ TypeOK /\ NoFrameHeld /\ NoSilentLoss
      /\ queue \in Seq(Event) /\ dropped \in Nat /\ qdropped \in Nat
      /\ loss \in [Paths -> Losses] /\ outbox \in Frame
      /\ Marker \in Event
  BY DEF IInv, TypeOK, Event
<1>a. pc = "select" => \A p \in Paths : loss[p] # "framed"
  BY <1>0 DEF NoSilentLoss
<1>1. ASSUME NEW p \in Paths, NEW t \in ChangeTypes, NativeChange(p, t)
      PROVE  NoSilentLoss'
  <2>1. Change(p, t) \in Event
    BY DEF Change, Event
  <2>2. MarkerInQueue(queue) => MarkerInQueue(queue')
    BY <1>0, <1>1, <2>1, AppendFacts DEF NativeChange, QueueSend
  <2>3. \A q \in Paths : loss'[q] \in {"native", "framed"} => loss'[q] = loss[q]
    BY <1>0, <1>1 DEF NativeChange
  <2>4. (\E q \in Paths : loss'[q] = "counted") => dropped' + qdropped' > 0
    BY <1>0, <1>1 DEF NativeChange, QueueSend, sessionVars, NoSilentLoss
  <2> QED
    BY <1>0, <1>1, <2>2, <2>3, <2>4 DEF NoSilentLoss, NativeChange, sessionVars
<1>2. CASE NativeOverflow
  <2>1. CASE Len(queue) < QueueLimit
    <3>1. MarkerInQueue(queue')
      BY <1>0, <1>2, <2>1, AppendFacts DEF NativeOverflow, QueueSend
    <3>2. \A q \in Paths : loss'[q] = "native"
      BY <1>2, <2>1 DEF NativeOverflow
    <3> QED BY <3>1, <3>2 DEF NoSilentLoss
  <2>2. CASE ~(Len(queue) < QueueLimit)
    <3>1. \A q \in Paths : loss'[q] = "counted"
      BY <1>2, <2>2 DEF NativeOverflow
    <3>2. dropped' + qdropped' > 0
      BY <1>0, <1>2, <2>2 DEF NativeOverflow, QueueSend, sessionVars
    <3> QED BY <3>1, <3>2 DEF NoSilentLoss
  <2> QED BY <2>1, <2>2
<1>3. CASE NativeError
  BY <1>0, <1>3 DEF NativeError, sessionVars, NoSilentLoss
<1>4. CASE ReceiveMarker
  <2>1. dropped' + qdropped' > 0
    BY <1>0, <1>4 DEF ReceiveMarker
  <2>2. \A q \in Paths : loss'[q] = "native" => MarkerInQueue(queue')
    BY <1>0, <1>4 DEF ReceiveMarker
  <2>3. \A q \in Paths : loss'[q] # "framed"
    BY <1>0, <1>a, <1>4 DEF ReceiveMarker
  <2> QED BY <2>1, <2>2, <2>3 DEF NoSilentLoss
<1>5. CASE ReceiveChange
  <2> DEFINE p == Head(queue).path  t == Head(queue).type
  <2>1. Store(p, t) /\ queue' = Tail(queue) /\ queue # <<>>
        /\ Head(queue).kind = "change" /\ pc = "select" /\ qdropped' = qdropped
    BY <1>5 DEF ReceiveChange
  <2>2. MarkerInQueue(queue) => MarkerInQueue(queue')
    BY <1>0, <2>1, TailFacts
  <2>3. \A q \in Paths : loss'[q] = loss[q] \/ (loss'[q] = "counted" /\ dropped' = dropped + 1)
    BY <1>0, <2>1 DEF Store, Coalesced
  <2>4. dropped' \in Nat /\ dropped' >= dropped
    BY <1>0, <2>1 DEF Store, Coalesced
  <2>5. \A q \in Paths : loss'[q] # "framed"
    BY <1>a, <2>1, <2>3
  <2>6. ASSUME NEW q \in Paths, loss'[q] = "counted"
        PROVE  dropped' + qdropped' > 0
    <3>1. qdropped' = qdropped
      BY <2>1
    <3>2. CASE loss[q] = "counted"
      <4>1. dropped + qdropped > 0
        BY <1>0, <3>2 DEF NoSilentLoss
      <4>2. /\ dropped \in Nat /\ qdropped \in Nat
            /\ dropped' \in Nat /\ dropped' >= dropped /\ qdropped' \in Nat
        BY <1>0, <2>4, <3>1
      <4> QED BY <3>1, <4>1, <4>2, SumGrows
    <3>3. CASE dropped' = dropped + 1
      BY <1>0, <3>1, <3>3
    <3> QED BY <2>3, <2>6, <3>2, <3>3
  <2>7. (\E q \in Paths : loss'[q] = "native") => MarkerInQueue(queue')
    BY <1>0, <2>2, <2>3 DEF NoSilentLoss
  <2> QED BY <2>5, <2>6, <2>7 DEF NoSilentLoss
<1>6. CASE ReceiveError
  BY <1>0, <1>a, <1>6 DEF ReceiveError, historyVars, NoSilentLoss
<1>7. CASE Flush
  <2>1. \A q \in Paths : loss'[q] # "counted"
    BY <1>7 DEF Flush, FlushDue, OverflowCount
  <2>2. (\E q \in Paths : loss'[q] = "native") => MarkerInQueue(queue')
    BY <1>0, <1>7 DEF Flush, FlushDue, OverflowCount, NoSilentLoss
  <2>3. (\E q \in Paths : loss'[q] = "framed") => dropped + qdropped > 0
    BY <1>0, <1>a, <1>7 DEF Flush, FlushDue, OverflowCount, NoSilentLoss
  <2>4. pc' = "sending" /\ outbox'.overflow = dropped + qdropped
    BY <1>7 DEF Flush, FlushDue, OverflowCount, BatchFrame
  <2> QED BY <2>1, <2>2, <2>3, <2>4 DEF NoSilentLoss
<1>8. CASE SendReturns
  BY <1>0, <1>8 DEF SendReturns, backendVars, NoSilentLoss
<1>9. CASE SessionEnds
  BY <1>0, <1>9 DEF SessionEnds, backendVars, historyVars, NoSilentLoss
<1>10. CASE UNCHANGED vars
  BY <1>0, <1>10
     DEF vars, sessionVars, backendVars, historyVars, NoSilentLoss
<1> QED
  BY <1>1, <1>2, <1>3, <1>4, <1>5, <1>6, <1>7, <1>8, <1>9, <1>10
     DEF Next, Backend

(* Every step keeps the newest change of a path ahead of the older ones.     *)
LEMMA NewestStep == IInv /\ [Next]_vars => NewestChangeWins'
<1> SUFFICES ASSUME IInv, [Next]_vars, NEW p \in Watched, loss'[p] = "none"
             PROVE  NewestIs(p, lastRaw[p])'
  BY DEF NewestChangeWins
<1>0. /\ TypeOK /\ NoFrameHeld /\ p \in Paths
      /\ loss[p] = "none" => NewestIs(p, lastRaw[p])
      /\ queue \in Seq(Event) /\ loss \in [Paths -> Losses]
      /\ lastRaw \in [Paths -> ChangeTypes \cup {NoChange}]
      /\ Marker \in Event /\ \A x : ~IsChangeOf(Marker, x)
      /\ DOMAIN pending \subseteq Watched
  BY PartialElim, PathsAssumption
     DEF IInv, TypeOK, Event, NewestChangeWins, Marker, IsChangeOf
<1>a. pc \in {"announcing", "select"} => DOMAIN outbox.changes = {}
  BY <1>0 DEF NoFrameHeld, ReadyFrame, NoChanges
(* Steps that move neither the queue nor the batch, the frame or the view.   *)
<1>b. ASSUME UNCHANGED <<queue, pending, outbox, view, lastRaw>>,
             loss[p] = "none",
             pc' = pc \/ (pc' = "ended" /\ (pc = "select" => DOMAIN outbox.changes = {}))
      PROVE  NewestIs(p, lastRaw[p])'
  BY <1>0, <1>b DEF NewestIs
<1>1. ASSUME NEW x \in Paths, NEW t \in ChangeTypes, NativeChange(x, t)
      PROVE  NewestIs(p, lastRaw[p])'
  <2>1. Change(x, t) \in Event /\ (IsChangeOf(Change(x, t), p) <=> x = p)
        /\ Change(x, t).type = t
    BY DEF Change, Event, IsChangeOf
  <2>2. CASE Len(queue) < QueueLimit
    <3>1. queue' = Append(queue, Change(x, t))
      BY <1>1, <2>2 DEF NativeChange, QueueSend
    <3>2. CASE x = p
      <4>1. lastRaw'[p] = t
        BY <1>0, <1>1, <3>2 DEF NativeChange
      <4>2. LastInQueue(p, queue', t) /\ InQueue(p, queue')
        BY <1>0, <2>1, <3>1, <3>2, LastAfterAppend, AppendFacts
      <4> QED BY <4>1, <4>2 DEF NewestIs
    <3>3. CASE x # p
      <4>1. lastRaw'[p] = lastRaw[p] /\ loss[p] = "none"
        BY <1>0, <1>1, <2>2, <3>3 DEF NativeChange
      <4>2. InQueue(p, queue') <=> InQueue(p, queue)
        BY <1>0, <2>1, <3>1, <3>3, AppendFacts
      <4>3. LastInQueue(p, queue, lastRaw[p]) => LastInQueue(p, queue', lastRaw[p])
        BY <1>0, <2>1, <3>1, <3>3, LastAfterAppend
      <4> QED
        BY <1>0, <1>1, <4>1, <4>2, <4>3 DEF NewestIs, NativeChange, sessionVars
    <3> QED BY <3>2, <3>3
  <2>3. CASE ~(Len(queue) < QueueLimit)
    <3>1. x # p /\ loss[p] = "none" /\ lastRaw'[p] = lastRaw[p]
      BY <1>0, <1>1, <2>3 DEF NativeChange
    <3> QED
      BY <1>0, <1>1, <2>3, <3>1
         DEF NewestIs, NativeChange, QueueSend, sessionVars
  <2> QED BY <2>2, <2>3
<1>2. CASE NativeOverflow
  BY <1>0, <1>2 DEF NativeOverflow
<1>3. CASE NativeError
  BY <1>3, <1>b DEF NativeError, sessionVars
<1>4. CASE ReceiveMarker
  <2>1. loss[p] = "none" /\ queue' = Tail(queue) /\ queue # <<>>
        /\ Head(queue) = Marker
    BY <1>0, <1>4 DEF ReceiveMarker
  <2>2. InQueue(p, queue') <=> InQueue(p, queue)
    BY <1>0, <2>1, TailFacts
  <2>3. LastInQueue(p, queue, lastRaw[p]) /\ InQueue(p, queue')
           => LastInQueue(p, queue', lastRaw[p])
    BY <1>0, <2>1, LastAfterTail
  <2> QED BY <1>0, <1>4, <2>1, <2>2, <2>3 DEF NewestIs, ReceiveMarker
<1>5. CASE ReceiveChange
  <2> DEFINE x == Head(queue).path  t == Head(queue).type
  <2>1. Store(x, t) /\ queue' = Tail(queue) /\ queue # <<>>
        /\ Head(queue).kind = "change" /\ pc = "select" /\ pc' = pc
        /\ UNCHANGED <<outbox, view, lastRaw>>
    BY <1>5 DEF ReceiveChange
  <2>2. (IsChangeOf(Head(queue), p) <=> x = p)
    BY <2>1 DEF IsChangeOf
  <2>3. loss[p] = "none"
    BY <1>0, <2>1 DEF Store, Coalesced
  <2>4. InQueue(p, queue) <=> InQueue(p, queue') \/ x = p
    BY <1>0, <2>1, <2>2, TailFacts
  <2>5. CASE InQueue(p, queue')
    <3>1. LastInQueue(p, queue, lastRaw[p])
      BY <1>0, <2>3, <2>4, <2>5 DEF NewestIs
    <3>2. LastInQueue(p, queue', lastRaw[p])
      BY <1>0, <2>1, <2>5, <3>1, LastAfterTail
    <3> QED BY <2>1, <2>5, <3>2 DEF NewestIs
  <2>6. CASE ~InQueue(p, queue') /\ x = p
    <3>1. LastInQueue(p, queue, lastRaw[p])
      BY <1>0, <2>3, <2>4, <2>6 DEF NewestIs
    <3>2. t = lastRaw[p]
      BY <1>0, <2>1, <2>6, <3>1, LastAfterTail
    <3>3. p \in DOMAIN pending' /\ pending'[p] = t
      <4>1. CASE p \in DOMAIN pending
        BY <2>1, <2>6, <4>1 DEF Store, Coalesced
      <4>2. CASE p \notin DOMAIN pending /\ WouldOverflow(p)
        BY <1>0, <2>1, <2>3, <2>6, <4>2 DEF Store, Coalesced
      <4>3. CASE p \notin DOMAIN pending /\ ~WouldOverflow(p)
        BY <2>1, <2>6, <4>3 DEF Store, Coalesced
      <4> QED BY <4>1, <4>2, <4>3
    <3> QED BY <2>1, <2>6, <3>2, <3>3 DEF NewestIs
  <2>7. CASE ~InQueue(p, queue') /\ x # p
    <3>1. ~InQueue(p, queue)
      BY <2>4, <2>7
    <3>2. /\ p \in DOMAIN pending' <=> p \in DOMAIN pending
          /\ p \in DOMAIN pending => pending'[p] = pending[p]
      BY <2>1, <2>7 DEF Store, Coalesced
    <3> QED BY <1>0, <2>1, <2>3, <2>7, <3>1, <3>2 DEF NewestIs
  <2> QED BY <2>5, <2>6, <2>7
<1>6. CASE ReceiveError
  <2>1. /\ pc = "select" /\ pc' = "sending" /\ DOMAIN outbox'.changes = {}
        /\ UNCHANGED <<queue, pending, view, lastRaw, loss>>
    BY <1>6 DEF ReceiveError, historyVars, FailureFrame, NoChanges
  <2> QED BY <1>0, <2>1 DEF NewestIs
<1>7. CASE Flush
  <2>1. /\ pc = "select" /\ pc' = "sending" /\ outbox'.changes = pending
        /\ DOMAIN pending' = {} /\ UNCHANGED <<queue, view, lastRaw>>
        /\ loss[p] = "none"
    BY <1>0, <1>7 DEF Flush, FlushDue, OverflowCount, BatchFrame, NoChanges
  <2> QED BY <1>0, <2>1 DEF NewestIs
<1>8. CASE SendReturns
  <2>1. /\ pc # "select" /\ pc' = "select" /\ UNCHANGED <<queue, pending, lastRaw>>
        /\ view'[p] = IF p \in DOMAIN outbox.changes
                      THEN outbox.changes[p] ELSE view[p]
        /\ loss[p] = "none"
    BY <1>0, <1>8 DEF SendReturns, backendVars
  <2> QED BY <1>0, <2>1 DEF NewestIs
<1>9. CASE SessionEnds
  BY <1>9, <1>a, <1>b DEF SessionEnds, backendVars, historyVars
<1>10. CASE UNCHANGED vars
  BY <1>10, <1>b DEF vars, sessionVars, backendVars, historyVars
<1> QED
  BY <1>1, <1>2, <1>3, <1>4, <1>5, <1>6, <1>7, <1>8, <1>9, <1>10
     DEF Next, Backend

LEMMA IInvariant == Spec => []IInv
<1>1. IInv /\ [Next]_vars => IInv'
  BY TypeStep, FrameHeldStep, NewestStep, NoSilentLossStep DEF IInv
<1> QED BY <1>1, IInvInit, PTL DEF Spec

(* A given-up event is never forgotten before the client is told: it is      *)
(* represented by a marker, a counter or the frame being sent, whatever the  *)
(* capacities of queue, errors channel and batch are.                        *)
THEOREM LossIsAccounted == Spec => []NoSilentLoss
<1>1. IInv => NoSilentLoss
  BY DEF IInv
<1> QED BY <1>1, IInvariant, PTL

(* Coalescing by path never lets an older change of a path overtake a newer  *)
(* one, on any number of paths and any schedule of backend, loop and stream. *)
THEOREM NewestWins == Spec => []NewestChangeWins
<1>1. IInv => NewestChangeWins
  BY DEF IInv
<1> QED BY <1>1, IInvariant, PTL

-----------------------------------------------------------------------------
(* Counting the markers of the queue.                                       *)

MarkerPlaces(q) == {i \in DOMAIN q : q[i].kind = "overflow"}

LEMMA MarkerPlacesFinite ==
    ASSUME NEW q \in Seq(Event)
    PROVE  IsFiniteSet(MarkerPlaces(q)) /\ Markers(q) \in Nat
<1>1. DOMAIN q = 1..Len(q) /\ Len(q) \in Nat
  OBVIOUS
<1>2. IsFiniteSet(1..Len(q))
  BY <1>1, FS_Interval
<1>3. IsFiniteSet(MarkerPlaces(q))
  BY <1>1, <1>2, FS_Subset DEF MarkerPlaces
<1> QED BY <1>3, FS_CardinalityType DEF MarkerPlaces, Markers

LEMMA MarkersOfNone == Markers(<<>>) = 0
<1>1. MarkerPlaces(<<>>) = {}
  BY DEF MarkerPlaces
<1> QED BY <1>1, FS_EmptySet DEF MarkerPlaces, Markers

LEMMA MarkersAppend ==
    ASSUME NEW q \in Seq(Event), NEW e \in Event
    PROVE  /\ e.kind = "overflow" => Markers(Append(q, e)) = Markers(q) + 1
           /\ e.kind # "overflow" => Markers(Append(q, e)) = Markers(q)
<1> DEFINE r == Append(q, e)
<1>1. /\ Len(q) \in Nat /\ r[Len(q) + 1] = e
      /\ \A i \in 1..Len(q) : r[i] = q[i]
      /\ DOMAIN r = 1..(Len(q) + 1) /\ DOMAIN q = 1..Len(q)
  OBVIOUS
<1>2. \A i : i \in DOMAIN r <=> i \in DOMAIN q \/ i = Len(q) + 1
  BY <1>1
<1>3. Len(q) + 1 \notin DOMAIN q
  BY <1>1
<1>4. IsFiniteSet(MarkerPlaces(q))
  BY MarkerPlacesFinite
<1> HIDE DEF r
<1>5. ASSUME e.kind = "overflow"
      PROVE  Cardinality(MarkerPlaces(r)) = Cardinality(MarkerPlaces(q)) + 1
  <2>1. MarkerPlaces(r) = MarkerPlaces(q) \cup {Len(q) + 1}
    BY <1>1, <1>2, <1>3, <1>5 DEF MarkerPlaces
  <2>2. Len(q) + 1 \notin MarkerPlaces(q)
    BY <1>3 DEF MarkerPlaces
  <2> QED BY <1>4, <2>1, <2>2, FS_AddElement
<1>6. ASSUME e.kind # "overflow"
      PROVE  MarkerPlaces(r) = MarkerPlaces(q)
  BY <1>1, <1>2, <1>3, <1>6 DEF MarkerPlaces
<1> QED BY <1>5, <1>6 DEF MarkerPlaces, Markers, r

LEMMA MarkersTail ==
    ASSUME NEW q \in Seq(Event), q # <<>>
    PROVE  /\ Head(q).kind = "overflow" => Markers(q) = Markers(Tail(q)) + 1
           /\ Head(q).kind # "overflow" => Markers(q) = Markers(Tail(q))
<1> DEFINE r == Tail(q)
<1>1. /\ Head(q) = q[1] /\ Len(q) \in Nat \ {0} /\ r \in Seq(Event)
      /\ DOMAIN q = 1..Len(q) /\ DOMAIN r = 1..(Len(q) - 1)
      /\ \A i \in 1..(Len(q) - 1) : r[i] = q[i + 1]
  OBVIOUS
<1>2. \A i \in DOMAIN r : i \in Nat /\ i >= 1 /\ i + 1 \in DOMAIN q /\ r[i] = q[i + 1]
  BY <1>1
<1>3. \A i \in DOMAIN q : i \in Nat /\ (i # 1 => i - 1 \in DOMAIN r)
  BY <1>1
<1>4. IsFiniteSet(MarkerPlaces(q)) /\ IsFiniteSet(MarkerPlaces(r))
  BY <1>1, MarkerPlacesFinite
<1>5. 1 \in DOMAIN q
  BY <1>1
<1> HIDE DEF r
<1> DEFINE A == MarkerPlaces(r)
           B == MarkerPlaces(q) \ {1}
           f == [i \in A |-> i + 1]
<1>6. f \in Bijection(A, B)
  <2>1. \A i \in A : i \in Nat /\ i >= 1 /\ i + 1 \in B
    BY <1>2 DEF MarkerPlaces
  <2>2. \A j \in B : j \in Nat /\ j - 1 \in A /\ (j - 1) + 1 = j
    <3>1. ASSUME NEW j \in B PROVE j \in Nat /\ j - 1 \in A /\ (j - 1) + 1 = j
      <4>1. j \in DOMAIN q /\ j # 1 /\ q[j].kind = "overflow"
        BY <3>1 DEF MarkerPlaces
      <4>2. j \in Nat /\ j - 1 \in DOMAIN r /\ (j - 1) + 1 = j
        BY <1>3, <4>1
      <4>3. r[j - 1] = q[j]
        BY <1>2, <4>2
      <4> QED BY <4>1, <4>2, <4>3 DEF MarkerPlaces
    <3> QED BY <3>1
  <2>3. \A i, k \in A : f[i] = f[k] => i = k
    BY <2>1
  <2>4. \A j \in B : \E i \in A : f[i] = j
    BY <2>2
  <2>5. f \in [A -> B]
    BY <2>1
  <2> HIDE DEF A, B, f
  <2> QED BY <2>3, <2>4, <2>5, Fun_IsBij
<1>7. Cardinality(B) = Cardinality(A)
  <2>1. ExistsBijection(A, B)
    BY <1>6 DEF ExistsBijection
  <2> QED BY <1>4, <2>1, FS_Bijection
<1>8. Cardinality(A) \in Nat /\ Cardinality(MarkerPlaces(q)) \in Nat
  BY <1>4, FS_CardinalityType
<1>9. 1 \in MarkerPlaces(q) <=> Head(q).kind = "overflow"
  BY <1>1, <1>5 DEF MarkerPlaces
<1>10. Cardinality(B) = IF 1 \in MarkerPlaces(q)
                        THEN Cardinality(MarkerPlaces(q)) - 1
                        ELSE Cardinality(MarkerPlaces(q))
  BY <1>4, FS_RemoveElement
<1>11. Markers(q) = Cardinality(MarkerPlaces(q)) /\ Markers(r) = Cardinality(A)
  BY DEF Markers, MarkerPlaces
<1> HIDE DEF A, B
<1> QED BY <1>7, <1>8, <1>9, <1>10, <1>11 DEF r


-----------------------------------------------------------------------------
(* The bytes of a set of paths: finite, and additive in its paths.          *)

BytesPlaces(S) == UNION {{p} \X (1..ChangeBytes[p]) : p \in S}

LEMMA OnePathBytes ==
    ASSUME NEW p \in Paths
    PROVE  /\ IsFiniteSet({p} \X (1..ChangeBytes[p]))
           /\ Cardinality({p} \X (1..ChangeBytes[p])) = ChangeBytes[p]
<1>1. ChangeBytes[p] \in Nat
  BY BytesAssumption
<1>2. /\ IsFiniteSet(1..ChangeBytes[p])
      /\ Cardinality(1..ChangeBytes[p]) = ChangeBytes[p]
  BY <1>1, FS_Interval, SMTT(30)
<1>3. IsFiniteSet({p}) /\ Cardinality({p}) = 1
  BY FS_Singleton
<1>4. Cardinality({p} \X (1..ChangeBytes[p])) = 1 * ChangeBytes[p]
  <2> DEFINE S == {p}  T == 1..ChangeBytes[p]
  <2>1. /\ IsFiniteSet(S) /\ IsFiniteSet(T)
        /\ Cardinality(S) = 1 /\ Cardinality(T) = ChangeBytes[p]
    BY <1>2, <1>3
  <2> HIDE DEF S, T
  <2>2. Cardinality(S \X T) = Cardinality(S) * Cardinality(T)
    BY <2>1, FS_Product, ZenonT(30)
  <2>3. Cardinality(S \X T) = 1 * ChangeBytes[p]
    BY <2>1, <2>2
  <2> QED BY <2>3 DEF S, T
<1>5. 1 * ChangeBytes[p] = ChangeBytes[p]
  BY <1>1
<1>6. IsFiniteSet({p} \X (1..ChangeBytes[p]))
  BY <1>2, <1>3, FS_Product
<1> QED BY <1>4, <1>5, <1>6

LEMMA BytesPlacesFinite ==
    ASSUME NEW S \in SUBSET Paths
    PROVE  IsFiniteSet(BytesPlaces(S))
<1> DEFINE T == {{p} \X (1..ChangeBytes[p]) : p \in S}
           f == [p \in S |-> {p} \X (1..ChangeBytes[p])]
<1>1. IsFiniteSet(S)
  BY PathsAssumption, FS_Subset
<1>2. f \in Surjection(S, T)
  BY DEF Surjection
<1>3. IsFiniteSet(T)
  <2> HIDE DEF f, T
  <2> QED BY <1>1, <1>2, FS_Surjection
<1>4. \A x \in T : IsFiniteSet(x)
  BY OnePathBytes
<1>5. IsFiniteSet(UNION T)
  <2> HIDE DEF T
  <2> QED BY <1>3, <1>4, FS_UNION
<1> QED BY <1>5 DEF BytesPlaces

LEMMA BytesOfNone == BytesOf({}) = 0
<1>1. UNION {{p} \X (1..ChangeBytes[p]) : p \in {}} = {}
  OBVIOUS
<1> QED BY <1>1, FS_EmptySet DEF BytesOf

LEMMA BytesOfOneMore ==
    ASSUME NEW S \in SUBSET Paths, NEW p \in Paths \ S
    PROVE  BytesOf(S \cup {p}) = BytesOf(S) + ChangeBytes[p]
<1> DEFINE A == BytesPlaces(S)
           B == {p} \X (1..ChangeBytes[p])
<1>1. IsFiniteSet(A) /\ IsFiniteSet(B) /\ Cardinality(B) = ChangeBytes[p]
  BY BytesPlacesFinite, OnePathBytes
<1>2. A \cap B = {}
  BY DEF BytesPlaces
<1>3. BytesPlaces(S \cup {p}) = A \cup B
  BY DEF BytesPlaces
<1>4. Cardinality(A) \in Nat /\ ChangeBytes[p] \in Nat
  BY <1>1, FS_CardinalityType, BytesAssumption
<1>5. BytesOf(S) = Cardinality(A) /\ BytesOf(S \cup {p}) = Cardinality(BytesPlaces(S \cup {p}))
  BY DEF BytesOf, BytesPlaces
<1>6. Cardinality(A \cap B) = 0
  BY <1>2, FS_EmptySet
<1> HIDE DEF A, B
<1>7. Cardinality(A \cup B) = Cardinality(A) + Cardinality(B) - Cardinality(A \cap B)
  BY <1>1, FS_Union
<1>8. Cardinality(A \cup B) = Cardinality(A) + ChangeBytes[p]
  <2> DEFINE a == Cardinality(A)  c == ChangeBytes[p]  z == Cardinality(A \cap B)
             u == Cardinality(A \cup B)
  <2>1. a \in Nat /\ c \in Nat /\ z = 0 /\ u = a + c - z
    BY <1>1, <1>4, <1>6, <1>7
  <2> HIDE DEF a, c, z, u
  <2>2. u = a + c
    BY <2>1
  <2> QED BY <2>2 DEF a, c, u
<1> QED BY <1>3, <1>5, <1>8


-----------------------------------------------------------------------------
(* The counters of the loop.                                                *)

LEMMA CountersInit == Init => CountersExact
<1> SUFFICES ASSUME Init PROVE CountersExact
  OBVIOUS
<1>1. /\ queue = <<>> /\ qdropped = 0 /\ dropped = 0 /\ lost = 0
      /\ reported = 0 /\ outbox.overflow = 0 /\ pendingBytes = 0
      /\ DOMAIN pending = {}
  BY DEF Init, ReadyFrame, NoChanges
<1>2. OverflowCountExact
  BY <1>1, MarkersOfNone DEF OverflowCountExact
<1>3. Len(queue) = 0 /\ Cardinality(DOMAIN pending) = 0
  BY <1>1, FS_EmptySet
<1>4. PendingBounded
  BY <1>1, <1>3, BytesOfNone, LimitsAssumption DEF PendingBounded
<1> QED BY <1>2, <1>4 DEF CountersExact

(* Every event the loop or the queue gives up moves from one place of the    *)
(* sum to another, or enters it in the step that counts it.                  *)
LEMMA OverflowCountStep ==
    IInv /\ OverflowCountExact /\ [Next]_vars => OverflowCountExact'
<1> SUFFICES ASSUME IInv, OverflowCountExact, [Next]_vars
             PROVE  OverflowCountExact'
  OBVIOUS
<1>0. /\ queue \in Seq(Event) /\ dropped \in Nat /\ qdropped \in Nat
      /\ lost \in Nat /\ reported \in Nat /\ outbox.overflow \in Nat
      /\ Markers(queue) \in Nat /\ Marker \in Event
      /\ pc \in {"announcing", "select"} => outbox.overflow = 0
      /\ lost = reported + outbox.overflow + dropped + qdropped + Markers(queue)
  BY MarkerPlacesFinite, FrameElim
     DEF IInv, TypeOK, NoFrameHeld, ReadyFrame, Event, OverflowCountExact
<1>a. /\ dropped \in Nat /\ qdropped \in Nat /\ lost \in Nat
      /\ reported \in Nat /\ outbox.overflow \in Nat /\ Markers(queue) \in Nat
      /\ lost = reported + outbox.overflow + dropped + qdropped + Markers(queue)
  BY <1>0
<1>b. ASSUME reported' = reported, outbox'.overflow = outbox.overflow,
             NEW d \in Nat, NEW q \in Nat, NEW l \in Nat,
             dropped' = dropped + d, qdropped' = qdropped + q, lost' = lost + l,
             Markers(queue') \in Nat,
             Markers(queue') = Markers(queue) + l - d - q
      PROVE  OverflowCountExact'
  BY <1>a, <1>b DEF OverflowCountExact
(* The backend adds to the queue, to its count, or to neither.               *)
<1> DEFINE LoopSame == UNCHANGED <<reported, outbox, dropped>>
<1>c. ASSUME LoopSame, qdropped' = qdropped, lost' = lost,
             Markers(queue') = Markers(queue)
      PROVE  OverflowCountExact'
  BY <1>a, <1>c DEF OverflowCountExact
<1>d. ASSUME LoopSame, qdropped' = qdropped + 1, lost' = lost + 1,
             Markers(queue') = Markers(queue)
      PROVE  OverflowCountExact'
  BY <1>a, <1>d DEF OverflowCountExact
<1>e. ASSUME LoopSame, qdropped' = qdropped, lost' = lost + 1,
             Markers(queue') = Markers(queue) + 1
      PROVE  OverflowCountExact'
  BY <1>a, <1>e DEF OverflowCountExact
<1> USE DEF OverflowCountExact
<1>1. ASSUME NEW p \in Paths, NEW t \in ChangeTypes, NativeChange(p, t)
      PROVE  OverflowCountExact'
  <2>1. Change(p, t) \in Event /\ Change(p, t).kind # "overflow"
    BY DEF Change, Event
  <2>2. LoopSame
    BY <1>1 DEF NativeChange, sessionVars
  <2>3. CASE Len(queue) < QueueLimit
    <3>1. queue' = Append(queue, Change(p, t)) /\ qdropped' = qdropped /\ lost' = lost
      BY <1>1, <2>3 DEF NativeChange, QueueSend
    <3>2. Markers(queue') = Markers(queue)
      BY <1>0, <2>1, <3>1, MarkersAppend
    <3> HIDE DEF OverflowCountExact, LoopSame
    <3> QED BY <1>c, <2>2, <3>1, <3>2
  <2>4. CASE ~(Len(queue) < QueueLimit)
    <3>1. queue' = queue /\ qdropped' = qdropped + 1 /\ lost' = lost + 1
      BY <1>1, <2>4 DEF NativeChange, QueueSend
    <3>2. Markers(queue') = Markers(queue)
      BY <3>1
    <3> HIDE DEF OverflowCountExact, LoopSame
    <3> QED BY <1>d, <2>2, <3>1, <3>2
  <2> QED BY <2>3, <2>4
<1>2. CASE NativeOverflow
  <2>1. LoopSame /\ lost' = lost + 1
    BY <1>2 DEF NativeOverflow, sessionVars
  <2>2. CASE Len(queue) < QueueLimit
    <3>1. queue' = Append(queue, Marker) /\ qdropped' = qdropped
      BY <1>2, <2>2 DEF NativeOverflow, QueueSend
    <3>2. Markers(queue') = Markers(queue) + 1
      BY <1>0, <3>1, MarkersAppend DEF Marker
    <3> HIDE DEF OverflowCountExact, LoopSame
    <3> QED BY <1>e, <2>1, <3>1, <3>2
  <2>3. CASE ~(Len(queue) < QueueLimit)
    <3>1. queue' = queue /\ qdropped' = qdropped + 1
      BY <1>2, <2>3 DEF NativeOverflow, QueueSend
    <3>2. Markers(queue') = Markers(queue)
      BY <3>1
    <3> HIDE DEF OverflowCountExact, LoopSame
    <3> QED BY <1>d, <2>1, <3>1, <3>2
  <2> QED BY <2>2, <2>3
<1>3. CASE NativeError
  <2>1. LoopSame /\ queue' = queue
    BY <1>3 DEF NativeError, sessionVars
  <2>2. Markers(queue') = Markers(queue)
    BY <2>1
  <2>3. \/ qdropped' = qdropped /\ lost' = lost
        \/ qdropped' = qdropped + 1 /\ lost' = lost + 1
    BY <1>3 DEF NativeError
  <2> HIDE DEF OverflowCountExact, LoopSame
  <2> QED BY <1>c, <1>d, <2>1, <2>2, <2>3
<1>4. CASE ReceiveMarker
  <2>1. /\ UNCHANGED <<reported, outbox, qdropped, lost>>
        /\ dropped' = dropped + 1 /\ queue' = Tail(queue) /\ queue # <<>>
        /\ Head(queue).kind = "overflow"
    BY <1>4 DEF ReceiveMarker, Marker
  <2>2. Markers(queue) = Markers(queue') + 1 /\ Markers(queue') \in Nat
    <3>1. queue' \in Seq(Event)
      BY <1>0, <2>1
    <3> QED BY <1>0, <2>1, <3>1, MarkersTail, MarkerPlacesFinite
  <2>3. outbox'.overflow = outbox.overflow
    BY <2>1
  <2>4. qdropped' = qdropped + 0 /\ lost' = lost + 0 /\ reported' = reported
    BY <1>a, <2>1
  <2>5. Markers(queue') = Markers(queue) + 0 - 1 - 0
    BY <2>2
  <2>6. dropped' = dropped + 1
    BY <2>1
  <2> QED BY <1>b, <2>2, <2>3, <2>4, <2>5, <2>6
<1>5. CASE ReceiveChange
  <2> DEFINE p == Head(queue).path  t == Head(queue).type
  <2>1. /\ Store(p, t) /\ queue' = Tail(queue) /\ queue # <<>>
        /\ Head(queue).kind # "overflow"
        /\ UNCHANGED <<reported, outbox, qdropped>>
    BY <1>5 DEF ReceiveChange
  <2>2. Markers(queue') = Markers(queue)
    BY <1>0, <2>1, MarkersTail
  <2>3. \/ dropped' = dropped /\ lost' = lost
        \/ dropped' = dropped + 1 /\ lost' = lost + 1
    BY <2>1 DEF Store
  <2>4. /\ reported' = reported /\ qdropped' = qdropped
        /\ outbox'.overflow = outbox.overflow
    BY <2>1
  <2> HIDE DEF p, t
  <2>5. qdropped' = qdropped + 0 /\ Markers(queue') \in Nat
    BY <1>a, <2>2, <2>4
  <2>6. CASE dropped' = dropped /\ lost' = lost
    <3>1. /\ dropped' = dropped + 0 /\ lost' = lost + 0
          /\ Markers(queue') = Markers(queue) + 0 - 0 - 0
      BY <1>a, <2>2, <2>6
    <3> QED BY <1>b, <2>4, <2>5, <3>1
  <2>7. CASE dropped' = dropped + 1 /\ lost' = lost + 1
    <3>1. Markers(queue') = Markers(queue) + 1 - 1 - 0
      BY <1>a, <2>2
    <3> QED BY <1>b, <2>4, <2>5, <2>7, <3>1
  <2> QED BY <2>3, <2>6, <2>7
<1>6. CASE ReceiveError
  <2>1. /\ UNCHANGED <<reported, qdropped, dropped, queue, lost>>
        /\ pc = "select" /\ outbox'.overflow = 0
    BY <1>6 DEF ReceiveError, FailureFrame, historyVars
  <2> QED BY <1>0, <2>1
<1>7. CASE Flush
  <2>1. /\ UNCHANGED <<reported, queue, lost>>
        /\ pc = "select" /\ outbox'.overflow = dropped + qdropped
        /\ dropped' = 0 /\ qdropped' = 0
    BY <1>7 DEF Flush, BatchFrame, OverflowCount
  <2> QED BY <1>0, <2>1
<1>8. CASE SendReturns
  <2>1. /\ UNCHANGED <<dropped, qdropped, queue, lost>>
        /\ outbox'.overflow = 0 /\ reported' = reported + outbox.overflow
    BY <1>8 DEF SendReturns, ReadyFrame, backendVars
  <2> QED BY <1>0, <2>1
<1>9. CASE SessionEnds
  BY <1>0, <1>9 DEF SessionEnds, backendVars, historyVars
<1>10. CASE UNCHANGED vars
  BY <1>0, <1>10 DEF vars, sessionVars, backendVars, historyVars
<1> QED
  BY <1>1, <1>2, <1>3, <1>4, <1>5, <1>6, <1>7, <1>8, <1>9, <1>10
     DEF Next, Backend

(* A queue that is full takes nothing; the batch grows only when it stays    *)
(* within both limits, and by exactly the bytes that are added.              *)
LEMMA PendingBoundedStep ==
    IInv /\ PendingBounded /\ [Next]_vars => PendingBounded'
<1> SUFFICES ASSUME IInv, PendingBounded, [Next]_vars
             PROVE  PendingBounded'
  OBVIOUS
<1>0. /\ queue \in Seq(Event) /\ pendingBytes \in Nat
      /\ Marker \in Event /\ Len(queue) <= QueueLimit /\ Len(queue) \in Nat
      /\ Cardinality(DOMAIN pending) <= PendingLimit
      /\ pendingBytes <= PendingByteLimit
      /\ pendingBytes = BytesOf(DOMAIN pending)
      /\ QueueLimit \in Nat /\ PendingLimit \in Nat /\ PendingByteLimit \in Nat
      /\ DOMAIN pending \subseteq Watched /\ DOMAIN pending \subseteq Paths
  BY PartialElim, PathsAssumption, LimitsAssumption
     DEF IInv, TypeOK, Event, PendingBounded
<1>a. ASSUME UNCHANGED <<pending, pendingBytes>>,
             queue' = queue \/ \E e \in Event :
                /\ Len(queue) < QueueLimit /\ queue' = Append(queue, e)
      PROVE  PendingBounded'
  <2>1. Len(queue') <= QueueLimit
    BY <1>0, <1>a
  <2> QED BY <1>0, <1>a, <2>1 DEF PendingBounded
<1>1. ASSUME NEW p \in Paths, NEW t \in ChangeTypes, NativeChange(p, t)
      PROVE  PendingBounded'
  <2>1. Change(p, t) \in Event
    BY DEF Change, Event
  <2> QED BY <1>1, <1>a, <2>1 DEF NativeChange, QueueSend, sessionVars
<1>2. CASE NativeOverflow
  BY <1>0, <1>2, <1>a DEF NativeOverflow, QueueSend, sessionVars
<1>3. CASE NativeError
  BY <1>3, <1>a DEF NativeError, sessionVars
<1>b. ASSUME queue' = Tail(queue), queue # <<>>
      PROVE  Len(queue') <= QueueLimit
  BY <1>0, <1>b
<1>4. CASE ReceiveMarker
  BY <1>0, <1>4, <1>b DEF ReceiveMarker, PendingBounded
<1>5. CASE ReceiveChange
  <2> DEFINE p == Head(queue).path  t == Head(queue).type
  <2>1. Store(p, t) /\ Len(queue') <= QueueLimit
    BY <1>5, <1>b DEF ReceiveChange
  <2>2. Head(queue) \in Event /\ Head(queue).kind = "change"
    BY <1>0, <1>5 DEF ReceiveChange
  <2>3. p \in Paths
    BY <2>2 DEF Event, Marker
  <2> HIDE DEF p, t
  <2>4. CASE p \in Watched /\ p \notin DOMAIN pending /\ ~WouldOverflow(p)
    <3>1. /\ DOMAIN pending' = DOMAIN pending \cup {p}
          /\ pendingBytes' = pendingBytes + ChangeBytes[p]
      BY <2>1, <2>4 DEF Store
    <3>2. ~(Cardinality(DOMAIN pending) >= PendingLimit)
          /\ ~(pendingBytes + ChangeBytes[p] > PendingByteLimit)
      BY <2>4 DEF WouldOverflow
    <3>3. IsFiniteSet(DOMAIN pending)
      BY <1>0, PathsAssumption, FS_Subset
    <3>4. /\ Cardinality(DOMAIN pending) \in Nat
          /\ Cardinality(DOMAIN pending') = Cardinality(DOMAIN pending) + 1
      BY <2>4, <3>1, <3>3, FS_CardinalityType, FS_AddElement
    <3>5. BytesOf(DOMAIN pending') = BytesOf(DOMAIN pending) + ChangeBytes[p]
      BY <1>0, <2>3, <2>4, <3>1, BytesOfOneMore
    <3>6. ChangeBytes[p] \in Nat
      BY <2>3, BytesAssumption
    <3> QED BY <1>0, <2>1, <3>1, <3>2, <3>4, <3>5, <3>6 DEF PendingBounded
  <2>5. CASE ~(p \in Watched /\ p \notin DOMAIN pending /\ ~WouldOverflow(p))
    <3>1. DOMAIN pending' = DOMAIN pending /\ pendingBytes' = pendingBytes
      BY <2>1, <2>5 DEF Store, Coalesced
    <3> QED BY <1>0, <2>1, <3>1 DEF PendingBounded
  <2> QED BY <2>4, <2>5
<1>6. CASE ReceiveError
  BY <1>6, <1>a DEF ReceiveError
<1>7. CASE Flush
  <2>1. DOMAIN pending' = {} /\ pendingBytes' = 0 /\ queue' = queue
    BY <1>7 DEF Flush, NoChanges
  <2>2. Cardinality(DOMAIN pending') = 0 /\ BytesOf(DOMAIN pending') = 0
    BY <2>1, FS_EmptySet, BytesOfNone
  <2> QED BY <1>0, <2>1, <2>2 DEF PendingBounded
<1>8. CASE SendReturns
  BY <1>8, <1>a DEF SendReturns, backendVars
<1>9. CASE SessionEnds
  BY <1>9, <1>a DEF SessionEnds, backendVars
<1>10. CASE UNCHANGED vars
  BY <1>10, <1>a DEF vars, sessionVars, backendVars
<1> QED
  BY <1>1, <1>2, <1>3, <1>4, <1>5, <1>6, <1>7, <1>8, <1>9, <1>10
     DEF Next, Backend

(* The overflow counts a client receives add up to exactly the events given  *)
(* up, and the bytes and entries by which the loop gives one up are those of *)
(* the batch, for every set of paths and every limit (TakeOverflow, the      *)
(* pendingBytes of runWatch and wouldOverflowWatchPending).                  *)
THEOREM CountsAreExact == Spec => []CountersExact
<1> DEFINE Inv == IInv /\ CountersExact
<1>1. Init => Inv
  BY IInvInit, CountersInit
<1>2. Inv /\ [Next]_vars => Inv'
  BY TypeStep, FrameHeldStep, NewestStep, NoSilentLossStep,
     OverflowCountStep, PendingBoundedStep DEF IInv, CountersExact
<1>3. Inv => CountersExact
  OBVIOUS
<1> HIDE DEF Inv
<1> QED BY <1>1, <1>2, <1>3, PTL DEF Spec

=============================================================================
