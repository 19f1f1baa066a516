-------------------------- MODULE MessageBusProofs --------------------------
(***************************************************************************)
(* The message bus keeps its safety properties for every set of            *)
(* registrations and calls, every number of published tables and every     *)
(* queue capacity.  One lemma per action shows that it preserves the       *)
(* inductive invariant BusInv; the theorems follow from it.                *)
(***************************************************************************)
EXTENDS MessageBus, TLAPS

LEMMA ActiveType == ASSUME TypeOK PROVE Active \subseteq Registration /\ Generation \in Nat
  BY DEF TypeOK, Active, Generation

LEMMA PublishStep ==
  ASSUME BusInv, NEW next \in SUBSET (Active \cup Fresh), Publish(next)
  PROVE  BusInv'
<1> USE BusAssumption DEF BusInv, Publish, LockFree, lockVars, retireVars, callVars
<1>1. TypeOK'
  BY ActiveType DEF TypeOK, CallerState, WorkState, Generation, Active, Fresh
<1>2. TablesBuildable'
  BY DEF TablesBuildable, TypeOK, Generation, Active, Fresh
<1>3. LifeCycle'
  BY DEF LifeCycle, TypeOK, Active, Fresh
<1>4. CallsRouted'
  BY DEF CallsRouted, TypeOK, Generation, Active, Fresh
<1>5. QueuesHoldQueued'
  BY DEF QueuesHoldQueued, TypeOK, RouteOf
<1>6. StoppedIsQuiet'
  BY DEF StoppedIsQuiet, TypeOK, RouteOf
<1>7. DisposedHasStopped'
  BY DEF DisposedHasStopped
<1>8. WithdrawnAccounted'
  BY DEF WithdrawnAccounted, LifeCycle, TypeOK, Active, Fresh, WithdrawnAccounted
<1>9. LostOnlyByWithdrawal'
  BY DEF LostOnlyByWithdrawal
<1> QED
  BY <1>1, <1>2, <1>3, <1>4, <1>5, <1>6, <1>7, <1>8, <1>9

LEMMA AnnounceStep ==
  ASSUME BusInv, Announce
  PROVE  BusInv'
<1> USE BusAssumption DEF BusInv, Announce, lockVars, retireVars, callVars
<1>1. TypeOK'
  BY ActiveType DEF TypeOK, CallerState, WorkState, Generation
<1>2. TablesBuildable'
  BY DEF TablesBuildable, TypeOK, Generation
<1>3. LifeCycle'
  BY DEF LifeCycle, TypeOK, Active
<1>4. CallsRouted'
  BY DEF CallsRouted, TypeOK, Generation
<1>5. QueuesHoldQueued'
  BY DEF QueuesHoldQueued, TypeOK, RouteOf
<1>6. StoppedIsQuiet'
  BY DEF StoppedIsQuiet, TypeOK, RouteOf
<1>7. DisposedHasStopped'
  BY DEF DisposedHasStopped
<1>8. WithdrawnAccounted'
  BY DEF WithdrawnAccounted, LifeCycle, TypeOK, Active
<1>9. LostOnlyByWithdrawal'
  BY DEF LostOnlyByWithdrawal
<1> QED
  BY <1>1, <1>2, <1>3, <1>4, <1>5, <1>6, <1>7, <1>8, <1>9

LEMMA WithdrawAndCancelStep ==
  ASSUME BusInv, NEW r \in Registration, WithdrawAndCancel(r)
  PROVE  BusInv'
<1> USE BusAssumption DEF BusInv, WithdrawAndCancel, lockVars, retireVars, callVars
<1>1. TypeOK'
  BY ActiveType DEF TypeOK, CallerState, WorkState, Generation
<1>2. TablesBuildable'
  BY DEF TablesBuildable, TypeOK, Generation
<1>3. LifeCycle'
  BY DEF LifeCycle, TypeOK, Active
<1>4. CallsRouted'
  BY DEF CallsRouted, TypeOK, Generation
<1>5. QueuesHoldQueued'
  BY DEF QueuesHoldQueued, TypeOK, RouteOf
<1>6. StoppedIsQuiet'
  BY DEF StoppedIsQuiet, TypeOK, RouteOf
<1>7. DisposedHasStopped'
  BY DEF DisposedHasStopped
<1>8. WithdrawnAccounted'
  BY DEF WithdrawnAccounted, LifeCycle, TypeOK, Active
<1>9. LostOnlyByWithdrawal'
  BY DEF LostOnlyByWithdrawal
<1> QED
  BY <1>1, <1>2, <1>3, <1>4, <1>5, <1>6, <1>7, <1>8, <1>9

LEMMA LookupStep ==
  ASSUME BusInv, NEW m \in Message, Lookup(m)
  PROVE  BusInv'
<1> USE BusAssumption DEF BusInv, Lookup, lockVars, retireVars, callVars
<1>1. TypeOK'
  BY ActiveType DEF TypeOK, CallerState, WorkState, Generation
<1>2. TablesBuildable'
  BY DEF TablesBuildable, TypeOK, Generation
<1>3. LifeCycle'
  BY DEF LifeCycle, TypeOK, Active
<1>4. CallsRouted'
  BY DEF CallsRouted, TypeOK, Generation, Active
<1>5. QueuesHoldQueued'
  BY DEF QueuesHoldQueued, TypeOK, RouteOf, CallsRouted
<1>6. StoppedIsQuiet'
  BY DEF StoppedIsQuiet, TypeOK, RouteOf, CallsRouted
<1>7. DisposedHasStopped'
  BY DEF DisposedHasStopped
<1>8. WithdrawnAccounted'
  BY DEF WithdrawnAccounted, LifeCycle, TypeOK, Active
<1>9. LostOnlyByWithdrawal'
  BY DEF LostOnlyByWithdrawal, CallsRouted
<1> QED
  BY <1>1, <1>2, <1>3, <1>4, <1>5, <1>6, <1>7, <1>8, <1>9

LEMMA CallerMovesStep ==
  ASSUME BusInv, NEW m \in Message,
         LookupMisses(m) \/ CheckWithdrawn(m) \/ EnqueueClosed(m) \/ Receipt(m) \/ Abandon(m)
  PROVE  BusInv'
<1> USE BusAssumption DEF BusInv, LookupMisses, CheckWithdrawn, EnqueueClosed, Receipt, Abandon, lockVars, retireVars, callVars
<1>1. TypeOK'
  BY ZenonT(60), ActiveType DEF TypeOK, CallerState, WorkState, Generation
<1>2. TablesBuildable'
  BY DEF TablesBuildable, TypeOK, Generation
<1>3. LifeCycle'
  BY DEF LifeCycle, TypeOK, Active
<1>4. CallsRouted'
  BY DEF CallsRouted, TypeOK, Generation
<1>5. QueuesHoldQueued'
  BY DEF QueuesHoldQueued, TypeOK, RouteOf
<1>6. StoppedIsQuiet'
  BY DEF StoppedIsQuiet, TypeOK, RouteOf
<1>7. DisposedHasStopped'
  BY DEF DisposedHasStopped
<1>8. WithdrawnAccounted'
  BY DEF WithdrawnAccounted, LifeCycle, TypeOK, Active
<1>9. LostOnlyByWithdrawal'
  BY DEF LostOnlyByWithdrawal
<1> QED
  BY <1>1, <1>2, <1>3, <1>4, <1>5, <1>6, <1>7, <1>8, <1>9

LEMMA EnqueueStep ==
  ASSUME BusInv, NEW m \in Message, Enqueue(m)
  PROVE  BusInv'
<1> USE BusAssumption DEF BusInv, Enqueue, lockVars, retireVars, callVars
<1>0. RouteOf(m) \in Route
  BY DEF CallsRouted, TypeOK, RouteOf, Route, Generation
<1>1. TypeOK'
  <2>1. queue' \in [Route -> Seq(Message)]
    BY <1>0 DEF TypeOK
  <2>2. \A w \in Route : Len(queue'[w]) <= Capacity
    BY <1>0 DEF TypeOK
  <2> QED
    BY <2>1, <2>2 DEF TypeOK, CallerState, WorkState, Generation
<1>2. TablesBuildable'
  BY DEF TablesBuildable, TypeOK, Generation
<1>3. LifeCycle'
  BY DEF LifeCycle, TypeOK, Active
<1>4. CallsRouted'
  BY DEF CallsRouted, TypeOK, Generation
<1>5. QueuesHoldQueued'
  <2>1. work[m] = "none"
    BY DEF CallsRouted
  <2>2. ASSUME NEW w \in Route, NEW i \in 1..Len(queue'[w])
        PROVE  /\ work'[queue'[w][i]] = "queued"
               /\ << owner'[queue'[w][i]], Target[queue'[w][i]] >> = w
               /\ \A j \in 1..Len(queue'[w]) : queue'[w][i] = queue'[w][j] => i = j
    <3>1. CASE w # RouteOf(m)
      <4>1. queue'[w] = queue[w] /\ queue[w] \in Seq(Message)
        BY <1>0, <3>1 DEF TypeOK
      <4>2. queue[w][i] \in Message \ {m}
        <5>0. i \in 1..Len(queue[w])
          BY <2>2, <4>1
        <5>1. queue[w][i] \in Message
          BY <4>1, <5>0
        <5>2. work[queue[w][i]] = "queued"
          BY <2>2, <4>1 DEF QueuesHoldQueued
        <5> QED
          BY <2>1, <5>1, <5>2
      <4>3. work'[queue[w][i]] = "queued"
        BY <2>2, <4>1, <4>2 DEF QueuesHoldQueued, TypeOK
      <4> QED
        BY ZenonT(60), <2>2, <4>1, <4>3 DEF QueuesHoldQueued, RouteOf
    <3>2. CASE w = RouteOf(m)
      <4>1. queue'[w] = Append(queue[w], m) /\ queue[w] \in Seq(Message)
        BY <1>0, <3>2 DEF TypeOK
      <4>2. /\ Len(queue'[w]) = Len(queue[w]) + 1
            /\ \A j \in 1..Len(queue'[w]) :
                 queue'[w][j] = IF j = Len(queue[w]) + 1 THEN m ELSE queue[w][j]
        BY <4>1
      <4>3. \A j \in 1..Len(queue[w]) : queue[w][j] # m /\ queue[w][j] \in Message
        BY <2>1, <4>1 DEF QueuesHoldQueued
      <4>4. \A j \in 1..Len(queue[w]) :
              work'[queue[w][j]] = "queued" /\ << owner'[queue[w][j]], Target[queue[w][j]] >> = w
        BY <4>3 DEF QueuesHoldQueued, TypeOK, RouteOf
      <4>5. work'[m] = "queued" /\ << owner'[m], Target[m] >> = w
        BY <3>2 DEF TypeOK, RouteOf
      <4>6. Len(queue[w]) \in Nat
        BY <4>1
      <4> QED
        BY <2>2, <4>2, <4>3, <4>4, <4>5, <4>6 DEF QueuesHoldQueued
    <3> QED
      BY <3>1, <3>2
  <2> QED
    BY <2>2 DEF QueuesHoldQueued, RouteOf
<1>6. StoppedIsQuiet'
  BY DEF StoppedIsQuiet, TypeOK, RouteOf
<1>7. DisposedHasStopped'
  BY DEF DisposedHasStopped
<1>8. WithdrawnAccounted'
  BY DEF WithdrawnAccounted, LifeCycle, TypeOK, Active
<1>9. LostOnlyByWithdrawal'
  BY DEF LostOnlyByWithdrawal, CallsRouted
<1> QED
  BY <1>1, <1>2, <1>3, <1>4, <1>5, <1>6, <1>7, <1>8, <1>9

LEMMA ReceiveStep ==
  ASSUME BusInv, NEW w \in Route, Receive(w)
  PROVE  BusInv'
<1> USE BusAssumption DEF BusInv, Receive, lockVars, retireVars, callVars
<1>1. TypeOK'
  BY ActiveType DEF TypeOK, CallerState, WorkState, Generation
<1>2. TablesBuildable'
  BY DEF TablesBuildable, TypeOK, Generation
<1>3. LifeCycle'
  BY DEF LifeCycle, TypeOK, Active
<1>4. CallsRouted'
  BY DEF CallsRouted, TypeOK, Generation, QueuesHoldQueued
<1>5. QueuesHoldQueued'
  <2>1. /\ queue[w] \in Seq(Message) /\ Len(queue[w]) \in Nat
        /\ 1 \in 1..Len(queue[w]) /\ Head(queue[w]) = queue[w][1]
    BY DEF TypeOK
  <2>2. ASSUME NEW v \in Route, NEW i \in 1..Len(queue'[v])
        PROVE  /\ work'[queue'[v][i]] = "queued"
               /\ << owner'[queue'[v][i]], Target[queue'[v][i]] >> = v
               /\ \A j \in 1..Len(queue'[v]) : queue'[v][i] = queue'[v][j] => i = j
    <3>1. CASE v # w
      <4>1. queue'[v] = queue[v] /\ queue[v][i] # Head(queue[w])
        BY <2>1, <2>2, <3>1 DEF QueuesHoldQueued, TypeOK
      <4> QED
        BY <2>2, <4>1 DEF QueuesHoldQueued, TypeOK, RouteOf
    <3>2. CASE v = w
      <4>1. /\ Len(queue'[w]) = Len(queue[w]) - 1
            /\ \A j \in 1..Len(queue'[w]) : queue'[w][j] = queue[w][j + 1]
        BY <2>1 DEF TypeOK
      <4>2. \A j \in 1..Len(queue'[w]) :
              j + 1 \in 1..Len(queue[w]) /\ queue[w][j + 1] # Head(queue[w])
        BY <2>1, <4>1 DEF QueuesHoldQueued
      <4>3. ASSUME NEW j \in 1..Len(queue'[w])
            PROVE  /\ work'[queue'[w][j]] = "queued"
                   /\ << owner'[queue'[w][j]], Target[queue'[w][j]] >> = w
        <5>1. j + 1 \in 1..Len(queue[w]) /\ queue[w][j + 1] # Head(queue[w])
          BY <4>2
        <5>2. queue[w][j + 1] \in Message
          BY <2>1, <5>1
        <5>3. work[queue[w][j + 1]] = "queued" /\ RouteOf(queue[w][j + 1]) = w
          BY <5>1 DEF QueuesHoldQueued
        <5> QED
          BY <4>1, <5>1, <5>2, <5>3 DEF TypeOK, RouteOf
      <4>4. ASSUME NEW j \in 1..Len(queue'[w]), queue'[w][i] = queue'[w][j]
            PROVE  i = j
        <5>1. /\ i \in Nat /\ j \in Nat
              /\ i + 1 \in 1..Len(queue[w]) /\ j + 1 \in 1..Len(queue[w])
              /\ queue[w][i + 1] = queue[w][j + 1]
          BY <2>1, <2>2, <3>2, <4>1, <4>2, <4>4
        <5>2. i + 1 = j + 1
          BY <5>1 DEF QueuesHoldQueued
        <5> QED
          BY <5>1, <5>2
      <4> QED
        BY <2>2, <3>2, <4>3, <4>4
    <3> QED
      BY <3>1, <3>2
  <2> QED
    BY <2>2 DEF QueuesHoldQueued, RouteOf
<1>6. StoppedIsQuiet'
  BY DEF StoppedIsQuiet, TypeOK, RouteOf, QueuesHoldQueued
<1>7. DisposedHasStopped'
  BY DEF DisposedHasStopped
<1>8. WithdrawnAccounted'
  BY DEF WithdrawnAccounted, LifeCycle, TypeOK, Active
<1>9. LostOnlyByWithdrawal'
  BY DEF LostOnlyByWithdrawal, TypeOK, QueuesHoldQueued
<1> QED
  BY <1>1, <1>2, <1>3, <1>4, <1>5, <1>6, <1>7, <1>8, <1>9

LEMMA AcquireLeaseStep ==
  ASSUME BusInv, NEW m \in Message, AcquireLease(m)
  PROVE  BusInv'
<1> USE BusAssumption DEF BusInv, AcquireLease, lockVars, retireVars, callVars
<1>1. TypeOK'
  BY ActiveType DEF TypeOK, CallerState, WorkState, Generation
<1>2. TablesBuildable'
  BY DEF TablesBuildable, TypeOK, Generation
<1>3. LifeCycle'
  BY DEF LifeCycle, TypeOK, Active
<1>4. CallsRouted'
  BY DEF CallsRouted, TypeOK, Generation
<1>5. QueuesHoldQueued'
  BY DEF QueuesHoldQueued, TypeOK, RouteOf
<1>6. StoppedIsQuiet'
  BY DEF StoppedIsQuiet, TypeOK, RouteOf
<1>7. DisposedHasStopped'
  BY DEF DisposedHasStopped
<1>8. WithdrawnAccounted'
  BY DEF WithdrawnAccounted, LifeCycle, TypeOK, Active
<1>9. LostOnlyByWithdrawal'
  BY DEF LostOnlyByWithdrawal
<1> QED
  BY <1>1, <1>2, <1>3, <1>4, <1>5, <1>6, <1>7, <1>8, <1>9

LEMMA FinishStep ==
  ASSUME BusInv, NEW m \in Message, Finish(m)
  PROVE  BusInv'
<1> USE BusAssumption DEF BusInv, Finish, lockVars, retireVars, callVars
<1>1. TypeOK'
  BY ActiveType DEF TypeOK, CallerState, WorkState, Generation
<1>2. TablesBuildable'
  BY DEF TablesBuildable, TypeOK, Generation
<1>3. LifeCycle'
  BY DEF LifeCycle, TypeOK, Active
<1>4. CallsRouted'
  BY DEF CallsRouted, TypeOK, Generation
<1>5. QueuesHoldQueued'
  BY DEF QueuesHoldQueued, TypeOK, RouteOf
<1>6. StoppedIsQuiet'
  BY DEF StoppedIsQuiet, TypeOK, RouteOf
<1>7. DisposedHasStopped'
  BY DEF DisposedHasStopped
<1>8. WithdrawnAccounted'
  BY DEF WithdrawnAccounted, LifeCycle, TypeOK, Active
<1>9. LostOnlyByWithdrawal'
  BY DEF LostOnlyByWithdrawal
<1> QED
  BY <1>1, <1>2, <1>3, <1>4, <1>5, <1>6, <1>7, <1>8, <1>9

LEMMA StopWorkerStep ==
  ASSUME BusInv, NEW w \in Route, StopWorker(w)
  PROVE  BusInv'
<1> USE BusAssumption DEF BusInv, StopWorker, Busy, lockVars, retireVars, callVars
<1>1. TypeOK'
  BY ActiveType DEF TypeOK, CallerState, WorkState, Generation, Route
<1>2. TablesBuildable'
  BY DEF TablesBuildable, TypeOK, Generation
<1>3. LifeCycle'
  BY DEF LifeCycle, TypeOK, Active
<1>4. CallsRouted'
  BY DEF CallsRouted, TypeOK, Generation
<1>5. QueuesHoldQueued'
  <2>1. queue'[w] = << >> /\ \A v \in Route \ {w} : queue'[v] = queue[v]
    BY DEF TypeOK
  <2>2. ASSUME NEW v \in Route \ {w}, NEW i \in 1..Len(queue[v])
        PROVE  work'[queue[v][i]] = "queued" /\ << owner'[queue[v][i]], Target[queue[v][i]] >> = v
    <3>1. /\ queue[v][i] \in Message
          /\ work[queue[v][i]] = "queued" /\ RouteOf(queue[v][i]) = v
      BY <2>2 DEF QueuesHoldQueued, TypeOK
    <3> QED
      BY <3>1 DEF RouteOf, TypeOK
  <2> QED
    <3>1. ASSUME NEW v \in Route, NEW i \in 1..Len(queue'[v])
          PROVE  /\ work'[queue'[v][i]] = "queued"
                 /\ << owner'[queue'[v][i]], Target[queue'[v][i]] >> = v
                 /\ \A j \in 1..Len(queue'[v]) : queue'[v][i] = queue'[v][j] => i = j
      BY <2>1, <2>2, <3>1 DEF QueuesHoldQueued
    <3> QED
      BY <3>1 DEF QueuesHoldQueued, RouteOf
<1>6. StoppedIsQuiet'
  BY DEF StoppedIsQuiet, TypeOK, RouteOf, Route
<1>7. DisposedHasStopped'
  BY DEF DisposedHasStopped
<1>8. WithdrawnAccounted'
  BY DEF WithdrawnAccounted, LifeCycle, TypeOK, Active
<1>9. LostOnlyByWithdrawal'
  BY DEF LostOnlyByWithdrawal, RouteOf
<1> QED
  BY <1>1, <1>2, <1>3, <1>4, <1>5, <1>6, <1>7, <1>8, <1>9

LEMMA ReapRetiredStep ==
  ASSUME BusInv, ReapRetired
  PROVE  BusInv'
<1> USE BusAssumption DEF BusInv, ReapRetired, lockVars, retireVars, callVars
<1>1. TypeOK'
  BY ActiveType DEF TypeOK, CallerState, WorkState, Generation
<1>2. TablesBuildable'
  BY DEF TablesBuildable, TypeOK, Generation
<1>3. LifeCycle'
  BY DEF LifeCycle, TypeOK, Active
<1>4. CallsRouted'
  BY DEF CallsRouted, TypeOK, Generation
<1>5. QueuesHoldQueued'
  BY DEF QueuesHoldQueued, TypeOK, RouteOf
<1>6. StoppedIsQuiet'
  BY DEF StoppedIsQuiet, TypeOK, RouteOf
<1>7. DisposedHasStopped'
  BY DEF DisposedHasStopped
<1>8. WithdrawnAccounted'
  BY DEF WithdrawnAccounted, LifeCycle, TypeOK, Active
<1>9. LostOnlyByWithdrawal'
  BY DEF LostOnlyByWithdrawal
<1> QED
  BY <1>1, <1>2, <1>3, <1>4, <1>5, <1>6, <1>7, <1>8, <1>9

LEMMA DisposeStep ==
  ASSUME BusInv, NEW r \in Registration, Dispose(r)
  PROVE  BusInv'
<1> USE BusAssumption DEF BusInv, Dispose, lockVars, retireVars, callVars
<1>1. TypeOK'
  BY ActiveType DEF TypeOK, CallerState, WorkState, Generation
<1>2. TablesBuildable'
  BY DEF TablesBuildable, TypeOK, Generation
<1>3. LifeCycle'
  BY DEF LifeCycle, TypeOK, Active
<1>4. CallsRouted'
  BY DEF CallsRouted, TypeOK, Generation
<1>5. QueuesHoldQueued'
  BY DEF QueuesHoldQueued, TypeOK, RouteOf
<1>6. StoppedIsQuiet'
  BY DEF StoppedIsQuiet, TypeOK, RouteOf
<1>7. DisposedHasStopped'
  BY DEF DisposedHasStopped
<1>8. WithdrawnAccounted'
  BY DEF WithdrawnAccounted, LifeCycle, TypeOK, Active
<1>9. LostOnlyByWithdrawal'
  BY DEF LostOnlyByWithdrawal
<1> QED
  BY <1>1, <1>2, <1>3, <1>4, <1>5, <1>6, <1>7, <1>8, <1>9

-----------------------------------------------------------------------------
LEMMA InitBusInv == Init => BusInv
  BY BusAssumption
  DEF Init, BusInv, TypeOK, TablesBuildable, LifeCycle, CallsRouted,
      QueuesHoldQueued, StoppedIsQuiet, DisposedHasStopped, WithdrawnAccounted,
      LostOnlyByWithdrawal, CallerState, WorkState, Generation, Active, Route

LEMMA StutterBusInv == BusInv /\ UNCHANGED busVars => BusInv'
  BY DEF BusInv, busVars, TypeOK, TablesBuildable, LifeCycle, CallsRouted,
      QueuesHoldQueued, StoppedIsQuiet, DisposedHasStopped, WithdrawnAccounted,
      LostOnlyByWithdrawal, Generation, Active, RouteOf

\* Every writer operation publishes a set of current and fresh registrations.
LEMMA WriterStep == ASSUME BusInv, Writer PROVE BusInv'
<1>1. ASSUME NEW S \in SUBSET Fresh, RegisterMany(S) PROVE BusInv'
  BY <1>1, PublishStep DEF RegisterMany
<1>2. ASSUME NEW a \in Activation, NEW r \in Fresh, Replace(a, r) PROVE BusInv'
  BY <1>2, PublishStep DEF Replace
<1>3. ASSUME NEW ids \in SUBSET Activation, NEW S \in SUBSET Fresh,
             ReconcileMany(Generation, ids, S)
      PROVE BusInv'
  BY <1>3, PublishStep DEF ReconcileMany
<1>4. ASSUME NEW S \in SUBSET (Active \cup Fresh), PublishComplete(S) PROVE BusInv'
  BY <1>4, PublishStep DEF PublishComplete
<1>5. ASSUME NEW ids \in SUBSET Activation, WithdrawMany(ids) PROVE BusInv'
  BY <1>5, PublishStep DEF WithdrawMany
<1> QED
  BY <1>1, <1>2, <1>3, <1>4, <1>5, AnnounceStep, WithdrawAndCancelStep,
     ReapRetiredStep, DisposeStep DEF Writer

\* The inductive invariant, for any number of registrations, calls and
\* generations and every queue capacity.
THEOREM BusInvariant == Spec => []BusInv
<1>1. BusInv /\ [Next]_busVars => BusInv'
  <2> SUFFICES ASSUME BusInv, [Next]_busVars PROVE BusInv'
    OBVIOUS
  <2>1. CASE Writer
    BY <2>1, WriterStep
  <2>2. ASSUME NEW m \in Message, Caller(m) PROVE BusInv'
    BY <2>2, LookupStep, CallerMovesStep, EnqueueStep DEF Caller
  <2>3. CASE Worker
    BY <2>3, ReceiveStep, StopWorkerStep, AcquireLeaseStep, FinishStep DEF Worker
  <2>4. CASE UNCHANGED busVars
    BY <2>4, StutterBusInv
  <2> QED
    BY <2>1, <2>2, <2>3, <2>4 DEF Next
<1> QED
  BY <1>1, InitBusInv, PTL DEF Spec

\* Types, and the bound on every queue.
THEOREM TypeCorrect == Spec => []TypeOK
<1>1. BusInv => TypeOK
  BY DEF BusInv
<1> QED
  BY <1>1, BusInvariant, PTL

\* A message is only handled by the owner its stamped table names.
THEOREM StampedOwner == Spec => []DeliveredByStampedOwner
<1>1. BusInv => DeliveredByStampedOwner
  <2> SUFFICES ASSUME BusInv, NEW m \in Message, work[m] # "none",
                      NEW r \in tables[stamp[m]], Serves(r, m)
               PROVE  r = owner[m]
    BY DEF BusInv, DeliveredByStampedOwner, CallsRouted
  <2>1. stamp[m] \in 1..Generation /\ owner[m] \in tables[stamp[m]] /\ Serves(owner[m], m)
    BY DEF BusInv, CallsRouted
  <2>2. Target[m] \in Owns(r) \cap Owns(owner[m])
    BY <2>1 DEF Serves, Owns
  <2> QED
    BY <2>1, <2>2 DEF BusInv, TablesBuildable, Buildable
<1> QED
  BY <1>1, BusInvariant, PTL

\* Disposal is final: nothing of a disposed registration can run any more.
THEOREM DisposalIsFinal == Spec => []DisposedIsQuiet
<1>1. BusInv => DisposedIsQuiet
  <2> SUFFICES ASSUME BusInv, NEW r \in disposed, NEW m \in Message,
                      owner[m] = r, work[m] \in {"queued", "taken", "running"}
               PROVE  FALSE
    BY DEF BusInv, DisposedIsQuiet, DisposedHasStopped
  <2>1. Target[m] \in Handles[r] \cup Ports[r]
    BY DEF BusInv, CallsRouted, Serves
  <2>2. RouteOf(m) \in stopped
    BY <2>1 DEF BusInv, DisposedHasStopped, RouteOf
  <2> QED
    BY <2>2 DEF BusInv, StoppedIsQuiet
<1> QED
  BY <1>1, BusInvariant, PTL

\* Publishing a table never stops a worker of a registration that stays.
THEOREM RoutesServed == Spec => []CurrentRoutesServed
<1>1. BusInv => CurrentRoutesServed
  BY DEF BusInv, CurrentRoutesServed, StoppedIsQuiet, LifeCycle
<1> QED
  BY <1>1, BusInvariant, PTL

=============================================================================
