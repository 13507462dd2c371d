-------------------------- MODULE WorkerPoolProofs --------------------------
(***************************************************************************)
(* Proofs about WorkerPool for every number of values, threads, clients,   *)
(* tasks and every target.                                                 *)
(***************************************************************************)
EXTENDS WorkerPool, FiniteSetTheorems, TLAPS

-----------------------------------------------------------------------------
(* The inductive invariant.                                                *)

\* A task is handed to the team only from a batch that has one.
TypeInv == TypeOK /\ (producer = "submit" => batch # <<>>)

\* At most one PRODUCER_STOPPED is ever in the queue, and only between the end
\* of the producer and the moment the processor takes it out.
MarkerOnce ==
    /\ \A i \in 1..Len(queue) : queue[i] = PRODUCER_STOPPED =>
          /\ producer = "done" /\ ~producerStopped
          /\ \A j \in 1..Len(queue) : queue[j] = PRODUCER_STOPPED => i = j
    /\ producerStopped => producer = "done"

\* Outside its for loop the producer has nothing left to hand out.
BatchInLoop == producer \in {"new", "factory", "sleep"} => batch = <<>>

\* The thread pool is stopped by the processor only, after its loop.
StopsAfterLoop ==
    /\ joined <=> processor \in {"quit", "joinThreads", "done"}
    /\ quit => joined
    /\ processor = "new" <=> producer = "new"

\* How many successes are recorded at each point of the processor.
CountAtPC ==
    /\ Cardinality(successes) <= Target
    /\ processor \in {"new", "get", "cancelOut", "announceOut"} => Cardinality(successes) < Target
    /\ processor = "announce" => Cardinality(successes) = Target

\* The processor gives up only when everything started has finished.
GivesUpAtEnd ==
    processor \in {"cancelOut", "announceOut"} => producerStopped /\ finished = started

\* What a published outcome says of the processor.
Published ==
    /\ target = "successes" =>
          /\ processor \in {"cancelWon", "stop", "quit", "joinThreads", "done"}
          /\ Cardinality(won) = Target /\ won = successes
    /\ target = "OutOfValues" => processor \in {"stop", "quit", "joinThreads", "done"}

IInv ==
    /\ TypeInv /\ BatchInLoop /\ MarkerOnce /\ StopsAfterLoop /\ CountAtPC /\ GivesUpAtEnd
    /\ Published /\ NoTaskLost /\ OutOfValuesIsFinal

-----------------------------------------------------------------------------
(* Facts about the queue, the threads and the recorded successes.          *)

\* Every result is told apart from the marker of the producer.
LEMMA ResultsAreNotMarkers ==
    \A r \in TaskResult : r # PRODUCER_STOPPED
BY DEF TaskResult, Success, Failure, Cancelled, PRODUCER_STOPPED

\* The set of busy threads is finite, so that its members can be counted.
LEMMA BusyFinite ==
    ASSUME TypeOK
    PROVE  /\ IsFiniteSet(Busy) /\ Cardinality(Busy) \in Nat
           /\ IsFiniteSet(successes) /\ Cardinality(successes) \in Nat
<1>1. Busy \subseteq Threads BY DEF Busy
<1>2. successes \subseteq Values BY DEF TypeOK, ProcessorTypeOK
<1> QED BY <1>1, <1>2, FS_Subset, FS_CardinalityType, ThreadsAssumption, ValuesAssumption

\* A thread that takes a task is one more busy thread.
LEMMA BusyAfterTake ==
    ASSUME TypeOK, NEW t \in Threads, TakeTask(t)
    PROVE  Cardinality(Busy') = Cardinality(Busy) + 1
<1>1. /\ t \notin Busy
      /\ Busy' = Busy \cup {t}
  BY DEF Busy, TakeTask, TypeOK, PoolTypeOK, Idle, At
<1> QED BY <1>1, BusyFinite, FS_AddElement

\* A thread that puts its result is one busy thread less.
LEMMA BusyAfterPut ==
    ASSUME TypeOK, NEW t \in Threads, thread[t] # Idle,
           thread' = [thread EXCEPT ![t] = Idle]
    PROVE  Cardinality(Busy') = Cardinality(Busy) - 1
<1>1. /\ t \in Busy
      /\ Busy' = Busy \ {t}
  BY DEF Busy, TypeOK, PoolTypeOK
<1> QED BY <1>1, BusyFinite, FS_RemoveElement

\* A thread that goes from the check to the worker stays busy.
LEMMA BusyAfterCheck ==
    ASSUME TypeOK, NEW t \in Threads, thread[t].at = "check",
           thread' = [thread EXCEPT ![t] = At("work", thread[t].value)]
    PROVE  Busy' = Busy
BY DEF Busy, TypeOK, PoolTypeOK, Idle, At

-----------------------------------------------------------------------------
(* Type correctness.                                                       *)

\* What a step leaves alone keeps its type.
LEMMA TypeUnchanged ==
    /\ ProducerTypeOK /\ UNCHANGED producerVars => ProducerTypeOK'
    /\ PoolTypeOK /\ UNCHANGED poolVars => PoolTypeOK'
    /\ ProcessorTypeOK /\ UNCHANGED processorVars => ProcessorTypeOK'
    /\ FutureTypeOK /\ UNCHANGED futureVars => FutureTypeOK'
    /\ ClientTypeOK /\ UNCHANGED clientVars => ClientTypeOK'
    /\ queue \in Seq(QueueItem) /\ UNCHANGED queue => (queue \in Seq(QueueItem))'
<1>1. ProducerTypeOK /\ UNCHANGED producerVars => ProducerTypeOK'
  BY DEF ProducerTypeOK, producerVars
<1>2. PoolTypeOK /\ UNCHANGED poolVars => PoolTypeOK'
  BY DEF PoolTypeOK, poolVars
<1>3. ProcessorTypeOK /\ UNCHANGED processorVars => ProcessorTypeOK'
  BY DEF ProcessorTypeOK, processorVars
<1>4. FutureTypeOK /\ UNCHANGED futureVars => FutureTypeOK'
  BY DEF FutureTypeOK, futureVars
<1>5. ClientTypeOK /\ UNCHANGED clientVars => ClientTypeOK'
  BY DEF ClientTypeOK, clientVars
<1> QED BY <1>1, <1>2, <1>3, <1>4, <1>5

LEMMA TypeInit == Init => TypeInv
<1> SUFFICES ASSUME Init PROVE TypeInv OBVIOUS
<1>1. ProducerTypeOK BY MaxTasksAssumption DEF Init, ProducerTypeOK
<1>2. PoolTypeOK
  <2>1. Idle \in ThreadState BY DEF ThreadState
  <2>2. thread \in [Threads -> ThreadState] BY <2>1 DEF Init
  <2>3. pending \in Seq(Values) BY DEF Init
  <2> QED BY <2>2, <2>3 DEF Init, PoolTypeOK
<1>3. ProcessorTypeOK BY DEF Init, ProcessorTypeOK
<1>4. FutureTypeOK BY DEF Init, FutureTypeOK
<1>5. ClientTypeOK BY DEF Init, ClientTypeOK
<1>6. queue \in Seq(QueueItem) BY DEF Init
<1>7. /\ cancelled \in BOOLEAN /\ bailer \in {"new", "wait", "timeout", "cancel", "done"}
      /\ producer # "submit"
  BY DEF Init
<1> QED BY <1>1, <1>2, <1>3, <1>4, <1>5, <1>6, <1>7 DEF TypeOK, TypeInv

LEMMA TypeProduce == TypeInv /\ Produce => TypeInv'
<1> SUFFICES ASSUME TypeInv, Produce PROVE TypeInv' OBVIOUS
<1> USE TypeUnchanged DEF TypeInv, TypeOK
<1>0. batch # <<>> => Head(batch) \in Values /\ Tail(batch) \in Seq(Values)
  BY DEF ProducerTypeOK
<1>1. CASE ProduceBatch
  <2>1. PICK n \in 1..(MaxTasks - started) : \E b \in [1..n -> Values] :
           batch' = b /\ started' = started + n
    BY <1>1 DEF ProduceBatch
  <2>2. batch' \in Seq(Values) BY <2>1
  <2>3. started' \in 0..MaxTasks BY <2>1, MaxTasksAssumption DEF ProducerTypeOK
  <2>4. ProducerTypeOK' BY <1>1, <2>2, <2>3 DEF ProduceBatch, ProducerTypeOK
  <2> QED BY <1>1, <2>4 DEF ProduceBatch
<1>2. CASE ProduceNothing
  <2>1. ProducerTypeOK' BY <1>2 DEF ProduceNothing, ProducerTypeOK
  <2> QED BY <1>2, <2>1 DEF ProduceNothing
<1>3. CASE FactoryRaises
  <2>1. ProducerTypeOK' BY <1>3 DEF FactoryRaises, ProducerTypeOK
  <2> QED BY <1>3, <2>1 DEF FactoryRaises
<1>4. CASE CallInThread
  <2>1. ProducerTypeOK' BY <1>4, <1>0 DEF CallInThread, ProducerTypeOK
  <2> QED BY <1>4, <2>1 DEF CallInThread
<1>5. CASE SubmitAccepted
  <2>1. ProducerTypeOK' BY <1>0, <1>5 DEF SubmitAccepted, ProducerTypeOK
  <2>2. PoolTypeOK' BY <1>0, <1>5 DEF SubmitAccepted, PoolTypeOK
  <2> QED BY <1>5, <2>1, <2>2 DEF SubmitAccepted
<1>6. CASE SubmitRaises
  <2>1. ProducerTypeOK' BY <1>6 DEF SubmitRaises, ProducerTypeOK
  <2> QED BY <1>6, <2>1 DEF SubmitRaises
<1>7. CASE StaggerSleep
  <2>1. ProducerTypeOK' BY <1>7 DEF StaggerSleep, ProducerTypeOK
  <2> QED BY <1>7, <2>1 DEF StaggerSleep
<1>8. CASE PutProducerStopped
  <2>1. queue' \in Seq(QueueItem) BY <1>8 DEF PutProducerStopped, QueueItem
  <2>2. ProducerTypeOK' BY <1>8 DEF PutProducerStopped, ProducerTypeOK
  <2> QED BY <1>8, <2>1, <2>2 DEF PutProducerStopped
<1> QED BY <1>1, <1>2, <1>3, <1>4, <1>5, <1>6, <1>7, <1>8 DEF Produce

LEMMA TypeWork == TypeInv /\ (\E t \in Threads : Work(t)) => TypeInv'
<1> SUFFICES ASSUME TypeInv, NEW t \in Threads, Work(t) PROVE TypeInv' OBVIOUS
<1> USE TypeUnchanged DEF TypeInv, TypeOK
<1>1. CASE TakeTask(t)
  <2>1. Head(pending) \in Values /\ pending' \in Seq(Values)
    BY <1>1 DEF TakeTask, PoolTypeOK
  <2>2. At("check", Head(pending)) \in ThreadState BY <2>1 DEF ThreadState
  <2>3. PoolTypeOK' BY <1>1, <2>1, <2>2 DEF TakeTask, PoolTypeOK
  <2> QED BY <1>1, <2>3 DEF TakeTask, producerVars
<1>2. ASSUME thread[t] # Idle
      PROVE  /\ thread[t].value \in Values
             /\ At("work", thread[t].value) \in ThreadState
  BY <1>2 DEF PoolTypeOK, ThreadState, At
<1>3. Idle \in ThreadState BY DEF ThreadState
<1>4. CASE CheckCancelled(t)
  <2>1. thread[t] # Idle BY <1>4 DEF CheckCancelled, Idle
  <2>2. PoolTypeOK' BY <1>2, <1>3, <1>4, <2>1 DEF CheckCancelled, PoolTypeOK
  <2>3. queue' \in Seq(QueueItem) BY <1>4 DEF CheckCancelled, QueueItem, TaskResult
  <2> QED BY <1>4, <2>2, <2>3 DEF CheckCancelled, producerVars
<1>5. CASE FinishWork(t)
  <2>1. thread[t] # Idle BY <1>5 DEF FinishWork, Idle
  <2>2. PoolTypeOK' BY <1>3, <1>5 DEF FinishWork, PoolTypeOK
  <2>3. /\ Success(thread[t].value) \in QueueItem
        /\ Failure(thread[t].value) \in QueueItem
    BY <1>2, <2>1 DEF TaskResult, QueueItem
  <2>4. queue' \in Seq(QueueItem) BY <1>5, <2>3 DEF FinishWork
  <2> QED BY <1>5, <2>2, <2>4 DEF FinishWork, producerVars
<1> QED BY <1>1, <1>4, <1>5 DEF Work

LEMMA TypeProcess == TypeInv /\ Process => TypeInv'
<1> SUFFICES ASSUME TypeInv, Process PROVE TypeInv' OBVIOUS
<1> USE TypeUnchanged DEF TypeInv, TypeOK
<1>1. CASE GetMarker
  <2>1. ProcessorTypeOK' BY <1>1 DEF GetMarker, AfterResult, ProcessorTypeOK
  <2>2. queue' \in Seq(QueueItem) BY <1>1 DEF GetMarker
  <2> QED BY <1>1, <2>1, <2>2 DEF GetMarker, producerVars
<1>2. CASE GetResult
  <2>1. Head(queue) \in TaskResult /\ queue' \in Seq(QueueItem)
    BY <1>2 DEF GetResult, QueueItem
  <2>2. Head(queue).kind \in {"success", "failure"} => Head(queue).value \in Values
    BY <2>1 DEF TaskResult, Success, Failure, Cancelled
  <2>3. successes' \in SUBSET Values /\ failures' \in SUBSET Values
    BY <1>2, <2>2 DEF GetResult, ProcessorTypeOK
  <2>4. processor' \in {"announce", "cancelOut", "get"} BY <1>2 DEF GetResult, AfterResult
  <2>5. ProcessorTypeOK' BY <1>2, <2>3, <2>4 DEF GetResult, ProcessorTypeOK
  <2> QED BY <1>2, <2>1, <2>5 DEF GetResult, producerVars
<1>3. CASE AnnounceSuccesses
  <2>1. ProcessorTypeOK' BY <1>3 DEF AnnounceSuccesses, ProcessorTypeOK
  <2>2. FutureTypeOK'
    BY <1>3 DEF AnnounceSuccesses, SetTarget, FutureTypeOK, ProcessorTypeOK, futureVars
  <2> QED BY <1>3, <2>1, <2>2 DEF AnnounceSuccesses, producerVars
<1>4. CASE AnnounceOutOfValues
  <2>1. ProcessorTypeOK' BY <1>4 DEF AnnounceOutOfValues, ProcessorTypeOK
  <2>2. FutureTypeOK' BY <1>4 DEF AnnounceOutOfValues, SetTarget, FutureTypeOK, futureVars
  <2> QED BY <1>4, <2>1, <2>2 DEF AnnounceOutOfValues, producerVars
<1>5. CASE ProcessorCancels
  <2>1. ProcessorTypeOK' BY <1>5 DEF ProcessorCancels, ProcessorTypeOK
  <2> QED BY <1>5, <2>1 DEF ProcessorCancels, producerVars
<1>6. CASE StopThreadPool
  <2>1. ProcessorTypeOK' BY <1>6 DEF StopThreadPool, ProcessorTypeOK
  <2>2. PoolTypeOK' BY <1>6 DEF StopThreadPool, PoolTypeOK
  <2> QED BY <1>6, <2>1, <2>2 DEF StopThreadPool, producerVars
<1> QED BY <1>1, <1>2, <1>3, <1>4, <1>5, <1>6 DEF Process

LEMMA TypeBail == TypeInv /\ BailOnTimeout => TypeInv'
<1> SUFFICES ASSUME TypeInv, BailOnTimeout PROVE TypeInv' OBVIOUS
<1> USE TypeUnchanged DEF TypeInv, TypeOK
<1>1. FutureTypeOK' BY DEF BailOnTimeout, SetTarget, FutureTypeOK, futureVars
<1> QED BY <1>1 DEF BailOnTimeout, producerVars

LEMMA TypeUse == TypeInv /\ (\E c \in Clients : Use(c)) => TypeInv'
<1> SUFFICES ASSUME TypeInv, NEW c \in Clients, Use(c) PROVE TypeInv' OBVIOUS
<1> USE TypeUnchanged DEF TypeInv, TypeOK
<1>1. CASE Start(c)
  <2>1. ProducerTypeOK' BY <1>1 DEF Start, ProducerTypeOK
  <2>2. ProcessorTypeOK' BY <1>1 DEF Start, ProcessorTypeOK
  <2> QED BY <1>1, <2>1, <2>2 DEF Start
<1>2. CASE Cancel(c) BY <1>2 DEF Cancel, producerVars
<1>3. CASE Block(c)
  <2>1. ClientTypeOK' BY <1>3 DEF Block, ClientTypeOK
  <2> QED BY <1>3, <2>1 DEF Block, producerVars
<1>4. CASE BlockReturns(c)
  <2>1. ClientTypeOK' BY <1>4 DEF BlockReturns, ClientTypeOK, FutureTypeOK
  <2> QED BY <1>4, <2>1 DEF BlockReturns, producerVars
<1>5. CASE Join(c)
  <2>1. ClientTypeOK' BY <1>5 DEF Join, ClientTypeOK
  <2> QED BY <1>5, <2>1 DEF Join, producerVars
<1>6. CASE JoinReturns(c)
  <2>1. ClientTypeOK' BY <1>6 DEF JoinReturns, ClientTypeOK
  <2> QED BY <1>6, <2>1 DEF JoinReturns, producerVars
<1> QED BY <1>1, <1>2, <1>3, <1>4, <1>5, <1>6 DEF Use

LEMMA TypeStutter == TypeInv /\ UNCHANGED vars => TypeInv'
BY TypeUnchanged DEF TypeInv, TypeOK, vars, producerVars

\* Every state of every run of the pool is well typed; in particular the
\* producer only ever takes values out of a batch that has some.
THEOREM TypeCorrect == Spec => []TypeOK
<1>1. Init => TypeInv BY TypeInit
<1>2. TypeInv /\ [Next]_vars => TypeInv'
  BY TypeStutter, TypeProduce, TypeWork, TypeProcess, TypeBail, TypeUse DEF Next
<1>3. TypeInv => TypeOK BY DEF TypeInv
<1> QED BY <1>1, <1>2, <1>3, PTL DEF Spec

-----------------------------------------------------------------------------
(* The invariant is preserved.  Each lemma takes the steps of one actor.   *)

LEMMA InvInit == Init => IInv
<1> SUFFICES ASSUME Init PROVE IInv OBVIOUS
<1>1. TypeInv BY TypeInit
<1>2. Busy = {} BY DEF Busy, Init
<1>3. Cardinality(Busy) = 0 /\ Cardinality(successes) = 0 BY <1>2, FS_EmptySet DEF Init
<1>4. NoTaskLost BY <1>3 DEF Init, NoTaskLost, MarkersQueued
<1>5. MarkerOnce BY DEF Init, MarkerOnce
<1>6. CountAtPC BY <1>3, TargetAssumption DEF Init, CountAtPC
<1> QED BY <1>1, <1>4, <1>5, <1>6
        DEF Init, IInv, BatchInLoop, StopsAfterLoop, GivesUpAtEnd, Published, OutOfValuesIsFinal

LEMMA InvProduce == IInv /\ Produce => IInv'
<1> SUFFICES ASSUME IInv, Produce PROVE IInv' OBVIOUS
<1>0. /\ TypeInv' /\ TypeOK
      /\ producer # "done" /\ producer # "new" /\ ~producerStopped
      /\ UNCHANGED <<processorVars, futureVars, joined, quit, thread>>
  BY TypeProduce DEF IInv, TypeInv, MarkerOnce, Produce, ProduceBatch, ProduceNothing,
     FactoryRaises, CallInThread, SubmitAccepted, SubmitRaises, StaggerSleep,
     PutProducerStopped, poolVars
<1>1. StopsAfterLoop'
  BY <1>0 DEF IInv, StopsAfterLoop, processorVars, Produce, ProduceBatch, ProduceNothing,
     FactoryRaises, CallInThread, SubmitAccepted, SubmitRaises, StaggerSleep, PutProducerStopped
<1>2. CountAtPC' /\ Published'
  BY <1>0 DEF IInv, CountAtPC, Published, processorVars, futureVars
<1>3. GivesUpAtEnd' /\ OutOfValuesIsFinal'
  BY <1>0 DEF IInv, GivesUpAtEnd, OutOfValuesIsFinal, processorVars, futureVars
<1>4. MarkerOnce'
  <2>1. CASE PutProducerStopped
    <3>1. \A i \in 1..Len(queue) : queue[i] # PRODUCER_STOPPED
      BY <1>0 DEF IInv, MarkerOnce
    <3> QED BY <1>0, <2>1, <3>1
            DEF MarkerOnce, PutProducerStopped, TypeOK, processorVars
  <2>2. CASE UNCHANGED queue
    BY <1>0, <2>2 DEF IInv, MarkerOnce, processorVars
  <2> QED BY <2>1, <2>2 DEF Produce, ProduceBatch, ProduceNothing, FactoryRaises,
          CallInThread, SubmitAccepted, SubmitRaises, StaggerSleep
<1>5. NoTaskLost'
  <2> USE DEF IInv, NoTaskLost, MarkersQueued, processorVars
  <2>0. Cardinality(Busy') = Cardinality(Busy) /\ Cardinality(Busy) \in Nat
    BY <1>0, BusyFinite DEF Busy
  <2> USE DEF TypeOK, ProducerTypeOK, PoolTypeOK, ProcessorTypeOK
  <2>1. CASE ProduceBatch
    <3>1. batch = <<>> BY <2>1 DEF BatchInLoop, ProduceBatch
    <3>2. started' = started + Len(batch')
      <4>1. PICK n \in 1..(MaxTasks - started) : \E b \in [1..n -> Values] :
               batch' = b /\ started' = started + n
        BY <2>1 DEF ProduceBatch
      <4>2. Len(batch') = n BY <4>1, MaxTasksAssumption
      <4> QED BY <4>1, <4>2
    <3>3. UNCHANGED <<queue, pending>> BY <2>1 DEF ProduceBatch, poolVars
    <3>4. Len(queue) \in Nat /\ Len(pending) \in Nat /\ Len(batch') \in Nat
      BY <1>0 DEF TypeInv
    <3> QED BY <1>0, <2>0, <2>1, <3>1, <3>2, <3>3, <3>4 DEF ProduceBatch
  <2>2. CASE ProduceNothing \/ FactoryRaises \/ SubmitRaises \/ StaggerSleep
    BY <1>0, <2>0, <2>2 DEF ProduceNothing, FactoryRaises, SubmitRaises, StaggerSleep, poolVars
  <2>3. CASE CallInThread
    BY <1>0, <2>0, <2>3 DEF CallInThread, poolVars
  <2>4. CASE SubmitAccepted
    <3>1. batch # <<>> BY <2>4 DEF SubmitAccepted, TypeInv
    <3>2. Len(batch') = Len(batch) - 1 /\ Len(pending') = Len(pending) + 1
      BY <1>0, <2>4, <3>1 DEF SubmitAccepted
    <3>3. Len(queue) \in Nat /\ Len(pending) \in Nat /\ Len(batch) \in Nat BY <1>0
    <3> QED BY <1>0, <2>0, <2>4, <3>2, <3>3 DEF SubmitAccepted
  <2>5. CASE PutProducerStopped
    <3>1. Len(queue') = Len(queue) + 1 BY <1>0, <2>5 DEF PutProducerStopped
    <3>2. Len(queue) \in Nat /\ Len(pending) \in Nat /\ Len(batch) \in Nat BY <1>0
    <3> QED BY <1>0, <2>0, <2>5, <3>1, <3>2 DEF PutProducerStopped, poolVars
  <2> QED BY <2>1, <2>2, <2>3, <2>4, <2>5 DEF Produce
<1>6. BatchInLoop'
  BY <1>0 DEF IInv, BatchInLoop, Produce, ProduceBatch, ProduceNothing, FactoryRaises,
     CallInThread, SubmitAccepted, SubmitRaises, StaggerSleep, PutProducerStopped
<1> QED BY <1>0, <1>1, <1>2, <1>3, <1>4, <1>5, <1>6 DEF IInv

LEMMA InvWork == IInv /\ (\E t \in Threads : Work(t)) => IInv'
<1> SUFFICES ASSUME IInv, NEW t \in Threads, Work(t) PROVE IInv' OBVIOUS
<1>0. /\ TypeInv' /\ TypeOK
      /\ UNCHANGED <<producerVars, processorVars, futureVars, joined, quit>>
  BY TypeWork DEF IInv, TypeInv, Work, TakeTask, CheckCancelled, FinishWork
<1>1. BatchInLoop' /\ StopsAfterLoop' /\ CountAtPC' /\ Published' /\ GivesUpAtEnd'
  BY <1>0 DEF IInv, BatchInLoop, StopsAfterLoop, CountAtPC, Published, GivesUpAtEnd,
     producerVars, processorVars, futureVars
<1>2. Len(queue) \in Nat /\ Len(pending) \in Nat /\ Len(batch) \in Nat
      /\ started \in Int /\ finished \in Int /\ Cardinality(Busy) \in Nat
  BY <1>0, BusyFinite, MaxTasksAssumption DEF TypeOK, ProducerTypeOK, PoolTypeOK, ProcessorTypeOK
<1>3. CASE TakeTask(t)
  <2>1. Len(pending') = Len(pending) - 1 BY <1>0, <1>3 DEF TakeTask, TypeOK, PoolTypeOK
  <2>2. Cardinality(Busy') = Cardinality(Busy) + 1 BY <1>0, <1>3, BusyAfterTake
  <2>3. NoTaskLost'
    BY <1>0, <1>2, <1>3, <2>1, <2>2
    DEF IInv, NoTaskLost, MarkersQueued, TakeTask, producerVars, processorVars
  <2>4. MarkerOnce'
    BY <1>0, <1>3 DEF IInv, MarkerOnce, TakeTask, producerVars, processorVars
  <2>5. OutOfValuesIsFinal' BY <1>0, <1>3 DEF IInv, OutOfValuesIsFinal, TakeTask, futureVars
  <2> QED BY <1>0, <1>1, <2>3, <2>4, <2>5 DEF IInv
<1>4. ASSUME thread[t] # Idle, NEW r \in TaskResult, queue' = Append(queue, r),
             thread' = [thread EXCEPT ![t] = Idle], UNCHANGED pending
      PROVE  NoTaskLost' /\ MarkerOnce' /\ OutOfValuesIsFinal'
  <2>1. Len(queue') = Len(queue) + 1 BY <1>0, <1>4 DEF TypeOK, QueueItem
  <2>2. Cardinality(Busy') = Cardinality(Busy) - 1 BY <1>0, <1>4, BusyAfterPut
  <2>3. NoTaskLost'
    BY <1>0, <1>2, <1>4, <2>1, <2>2
    DEF IInv, NoTaskLost, MarkersQueued, producerVars, processorVars
  <2>4. r # PRODUCER_STOPPED BY ResultsAreNotMarkers
  <2>5. MarkerOnce'
    BY <1>0, <1>4, <2>4 DEF IInv, MarkerOnce, TypeOK, producerVars, processorVars
  <2>6. OutOfValuesIsFinal'
    BY <1>0, <1>4 DEF IInv, OutOfValuesIsFinal, Busy, futureVars
  <2> QED BY <2>3, <2>5, <2>6
<1>5. CASE CheckCancelled(t)
  <2>1. thread[t] # Idle BY <1>5 DEF CheckCancelled, Idle
  <2>2. CASE cancelled
    <3>1. Cancelled \in TaskResult BY DEF TaskResult
    <3> QED BY <1>0, <1>1, <1>4, <1>5, <2>1, <2>2, <3>1 DEF CheckCancelled, IInv
  <2>3. CASE ~cancelled
    <3>1. Busy' = Busy BY <1>0, <1>5, <2>3, BusyAfterCheck DEF CheckCancelled
    <3>2. UNCHANGED <<queue, pending>> BY <1>5, <2>3 DEF CheckCancelled
    <3>3. NoTaskLost' /\ MarkerOnce' /\ OutOfValuesIsFinal'
      BY <1>0, <3>1, <3>2 DEF IInv, NoTaskLost, MarkersQueued, MarkerOnce, OutOfValuesIsFinal,
         producerVars, processorVars, futureVars
    <3> QED BY <1>0, <1>1, <3>3 DEF IInv
  <2> QED BY <2>2, <2>3
<1>6. CASE FinishWork(t)
  <2>1. thread[t] # Idle BY <1>6 DEF FinishWork, Idle
  <2>2. thread[t].value \in Values
    BY <1>0, <2>1 DEF TypeOK, PoolTypeOK, ThreadState, At
  <2>3. PICK r \in {Success(thread[t].value), Failure(thread[t].value)} : queue' = Append(queue, r)
    BY <1>6 DEF FinishWork
  <2>4. r \in TaskResult BY <2>2 DEF TaskResult
  <2> QED BY <1>0, <1>1, <1>4, <1>6, <2>1, <2>3, <2>4 DEF FinishWork, IInv
<1> QED BY <1>3, <1>5, <1>6 DEF Work

\* What is left in the queue after its head is taken out.
LEMMA MarkerAfterGet ==
    ASSUME TypeOK, MarkerOnce, queue # <<>>, queue' = Tail(queue), UNCHANGED producer,
           \/ Head(queue) = PRODUCER_STOPPED /\ producerStopped' = TRUE
           \/ Head(queue) # PRODUCER_STOPPED /\ UNCHANGED producerStopped
    PROVE  MarkerOnce' /\ Len(queue') = Len(queue) - 1
<1>1. Len(queue') = Len(queue) - 1 /\ Len(queue) \in Nat BY DEF TypeOK
<1>2. \A i \in 1..Len(queue') : queue'[i] = queue[i + 1] BY DEF TypeOK
<1>3. Head(queue) = queue[1] BY DEF TypeOK
<1>4. CASE Head(queue) = PRODUCER_STOPPED /\ producerStopped' = TRUE
  <2>1. producer = "done" BY <1>1, <1>3, <1>4 DEF MarkerOnce, TypeOK
  <2>2. \A i \in 1..Len(queue') : queue'[i] # PRODUCER_STOPPED
    BY <1>1, <1>2, <1>3, <1>4 DEF MarkerOnce, TypeOK
  <2> QED BY <1>1, <1>4, <2>1, <2>2 DEF MarkerOnce
<1>5. CASE Head(queue) # PRODUCER_STOPPED /\ UNCHANGED producerStopped
  BY <1>1, <1>2, <1>5 DEF MarkerOnce
<1> QED BY <1>4, <1>5

LEMMA InvGet == IInv /\ (GetMarker \/ GetResult) => IInv'
<1> SUFFICES ASSUME IInv, GetMarker \/ GetResult PROVE IInv' OBVIOUS
<1>0. /\ TypeInv' /\ TypeOK
      /\ processor = "get" /\ ~joined /\ Cardinality(successes) < Target
      /\ target \notin {"successes", "OutOfValues"}
      /\ producer # "new"
      /\ UNCHANGED <<producerVars, poolVars, futureVars>>
  BY TypeProcess DEF Process, IInv, TypeInv, GetMarker, GetResult, StopsAfterLoop, Published, CountAtPC
<1>1. MarkerOnce' /\ Len(queue') = Len(queue) - 1
  BY <1>0, MarkerAfterGet DEF IInv, GetMarker, GetResult, producerVars
<1>2. processor' \in {"get", "announce", "cancelOut"}
  BY DEF GetMarker, GetResult, AfterResult
<1>3. BatchInLoop' /\ StopsAfterLoop' /\ OutOfValuesIsFinal' /\ Published'
  BY <1>0, <1>2 DEF IInv, BatchInLoop, StopsAfterLoop, OutOfValuesIsFinal, Published,
     producerVars, poolVars, futureVars
<1>4. Cardinality(Busy') = Cardinality(Busy) BY <1>0 DEF Busy, poolVars
<1>5. Len(queue) \in Nat /\ Len(pending) \in Nat /\ Len(batch) \in Nat
      /\ started \in Int /\ finished \in Int /\ Cardinality(Busy) \in Nat
  BY <1>0, BusyFinite, MaxTasksAssumption DEF TypeOK, ProducerTypeOK, PoolTypeOK, ProcessorTypeOK
<1>6. CASE GetMarker
  <2>1. producer = "done" /\ ~producerStopped /\ producerStopped'
    <3>1. queue[1] = PRODUCER_STOPPED /\ 1 \in 1..Len(queue)
      BY <1>0, <1>6 DEF GetMarker, TypeOK
    <3> QED BY <1>6, <3>1 DEF IInv, MarkerOnce, GetMarker
  <2>2. NoTaskLost'
    BY <1>0, <1>1, <1>4, <1>5, <1>6, <2>1
    DEF IInv, NoTaskLost, MarkersQueued, GetMarker, producerVars, poolVars
  <2>3. CountAtPC' BY <1>0, <1>6 DEF IInv, CountAtPC, GetMarker, AfterResult
  <2>4. GivesUpAtEnd'
    BY <1>0, <1>6, <2>1 DEF IInv, GivesUpAtEnd, GetMarker, AfterResult, producerVars
  <2> QED BY <1>0, <1>1, <1>3, <2>2, <2>3, <2>4 DEF IInv
<1>7. CASE GetResult
  <2>1. NoTaskLost'
    BY <1>0, <1>1, <1>4, <1>5, <1>7
    DEF IInv, NoTaskLost, MarkersQueued, GetResult, producerVars, poolVars
  <2>2. GivesUpAtEnd'
    BY <1>0, <1>7 DEF IInv, GivesUpAtEnd, GetResult, AfterResult, producerVars
  <2>3. /\ Cardinality(successes') \in Nat /\ Cardinality(successes') <= Cardinality(successes) + 1
        /\ Cardinality(successes) \in Nat
    <3>1. IsFiniteSet(successes) /\ Cardinality(successes) \in Nat BY <1>0, BusyFinite
    <3>2. \A v : Cardinality(successes \cup {v}) \in Nat
                 /\ Cardinality(successes \cup {v}) <= Cardinality(successes) + 1
      BY <3>1, FS_AddElement
    <3>3. successes' = successes \/ \E v : successes' = successes \cup {v}
      BY <1>7 DEF GetResult
    <3>4. CASE successes' = successes BY <3>1, <3>4
    <3>5. CASE \E v : successes' = successes \cup {v} BY <3>1, <3>2, <3>5
    <3> QED BY <3>3, <3>4, <3>5
  <2>4. CountAtPC'
    <3>1. Head(queue).kind # "success" => Cardinality(successes') = Cardinality(successes)
      BY <1>7 DEF GetResult
    <3>2. Cardinality(successes') = Target <=> processor' = "announce"
      BY <1>0, <1>7, <3>1, <2>3, TargetAssumption DEF GetResult, AfterResult
    <3> QED BY <1>0, <1>2, <2>3, <3>2, TargetAssumption DEF CountAtPC
  <2> QED BY <1>0, <1>1, <1>3, <2>1, <2>2, <2>4 DEF IInv
<1> QED BY <1>6, <1>7

LEMMA InvAnnounce == IInv /\ (AnnounceSuccesses \/ AnnounceOutOfValues) => IInv'
<1> SUFFICES ASSUME IInv, AnnounceSuccesses \/ AnnounceOutOfValues PROVE IInv' OBVIOUS
<1>0. /\ TypeInv' /\ TypeOK
      /\ UNCHANGED <<producerVars, poolVars, queue, producerStopped, finished, successes>>
      /\ ~joined /\ producer # "new"
      /\ Cardinality(Busy') = Cardinality(Busy) /\ (Busy = {} => Busy' = {})
  BY TypeProcess DEF Process, IInv, TypeInv, AnnounceSuccesses, AnnounceOutOfValues,
     StopsAfterLoop, Busy, poolVars
<1>1. NoTaskLost' /\ MarkerOnce' /\ BatchInLoop'
  BY <1>0 DEF IInv, NoTaskLost, MarkersQueued, MarkerOnce, BatchInLoop, producerVars, poolVars
<1>2. StopsAfterLoop' /\ CountAtPC' /\ GivesUpAtEnd'
  BY <1>0 DEF IInv, StopsAfterLoop, CountAtPC, GivesUpAtEnd, AnnounceSuccesses,
     AnnounceOutOfValues, producerVars, poolVars
<1>3. Published'
  BY <1>0 DEF IInv, Published, CountAtPC, AnnounceSuccesses, AnnounceOutOfValues, SetTarget, futureVars
<1>4. OutOfValuesIsFinal'
  <2>1. CASE AnnounceSuccesses
    BY <2>1, <1>0 DEF IInv, Published, OutOfValuesIsFinal, AnnounceSuccesses, SetTarget, futureVars
  <2>2. CASE AnnounceOutOfValues
    \* Everything started has finished, so by NoTaskLost nothing is anywhere else.
    <3>1. producerStopped /\ producer = "done" /\ finished = started /\ Cardinality(successes) < Target
      BY <2>2 DEF IInv, GivesUpAtEnd, CountAtPC, MarkerOnce, AnnounceOutOfValues
    <3>2. Len(queue) \in Nat /\ Len(pending) \in Nat /\ Len(batch) \in Nat
          /\ started \in Int /\ Cardinality(Busy) \in Nat
      BY <1>0, BusyFinite, MaxTasksAssumption DEF TypeOK, ProducerTypeOK, PoolTypeOK
    <3>3. Len(queue) = 0 /\ Len(pending) = 0 /\ Cardinality(Busy) = 0
      BY <1>0, <3>1, <3>2 DEF IInv, NoTaskLost, MarkersQueued
    <3>4. queue = <<>> /\ pending = <<>> BY <1>0, <3>3 DEF TypeOK, PoolTypeOK
    <3>5. Busy = {} BY <1>0, <3>3, BusyFinite, FS_EmptySet
    <3> QED BY <1>0, <3>1, <3>4, <3>5 DEF OutOfValuesIsFinal, producerVars, poolVars
  <2> QED BY <2>1, <2>2
<1> QED BY <1>0, <1>1, <1>2, <1>3, <1>4 DEF IInv

LEMMA InvStop == IInv /\ (ProcessorCancels \/ StopThreadPool) => IInv'
<1> SUFFICES ASSUME IInv, ProcessorCancels \/ StopThreadPool PROVE IInv' OBVIOUS
<1>0. /\ TypeInv' /\ TypeOK
      /\ UNCHANGED <<producerVars, pending, thread, queue, producerStopped, finished,
                     successes, futureVars>>
      /\ joined => joined'
      /\ producer # "new"
      /\ Busy' = Busy
  BY TypeProcess DEF Process, IInv, TypeInv, ProcessorCancels, StopThreadPool,
     StopsAfterLoop, Busy, poolVars
<1>1. NoTaskLost' /\ MarkerOnce' /\ BatchInLoop' /\ OutOfValuesIsFinal'
  BY <1>0 DEF IInv, NoTaskLost, MarkersQueued, MarkerOnce, BatchInLoop, OutOfValuesIsFinal,
     producerVars, futureVars
<1>2. CASE ProcessorCancels
  <2>1. StopsAfterLoop' /\ CountAtPC' /\ GivesUpAtEnd' /\ Published'
    BY <1>0, <1>2 DEF IInv, StopsAfterLoop, CountAtPC, GivesUpAtEnd, Published, ProcessorCancels,
       producerVars, poolVars, futureVars
  <2> QED BY <1>0, <1>1, <2>1 DEF IInv
<1>3. CASE StopThreadPool
  <2>1. StopsAfterLoop'
    <3>1. joined' <=> processor' \in {"quit", "joinThreads", "done"}
      BY <1>3 DEF IInv, StopsAfterLoop, StopThreadPool
    <3>2. quit' => joined' BY <1>3 DEF IInv, StopsAfterLoop, StopThreadPool
    <3>3. processor' # "new" BY <1>3 DEF StopThreadPool
    <3> QED BY <1>0, <3>1, <3>2, <3>3 DEF StopsAfterLoop, producerVars
  <2>2. CountAtPC' /\ GivesUpAtEnd'
    BY <1>0, <1>3 DEF IInv, CountAtPC, GivesUpAtEnd, StopThreadPool
  <2>3. Published' BY <1>0, <1>3 DEF IInv, Published, StopThreadPool, futureVars
  <2> QED BY <1>0, <1>1, <2>1, <2>2, <2>3 DEF IInv
<1> QED BY <1>2, <1>3

LEMMA InvBail == IInv /\ BailOnTimeout => IInv'
<1> SUFFICES ASSUME IInv, BailOnTimeout PROVE IInv' OBVIOUS
<1>0. /\ TypeInv'
      /\ UNCHANGED <<producerVars, poolVars, queue, processorVars>> /\ Busy' = Busy
      /\ UNCHANGED futureVars \/ target' = "TimedOut"
  BY TypeBail DEF IInv, BailOnTimeout, SetTarget, Busy, poolVars
<1> QED BY <1>0 DEF IInv, NoTaskLost, MarkersQueued, MarkerOnce, BatchInLoop, StopsAfterLoop,
        CountAtPC, GivesUpAtEnd, Published, OutOfValuesIsFinal,
        producerVars, poolVars, processorVars, futureVars

LEMMA InvUse == IInv /\ (\E c \in Clients : Use(c)) => IInv'
<1> SUFFICES ASSUME IInv, NEW c \in Clients, Use(c) PROVE IInv' OBVIOUS
<1>0. TypeInv' /\ TypeOK BY TypeUse DEF IInv, TypeInv
<1>1. CASE Start(c)
  <2>1. /\ UNCHANGED <<batch, started, poolVars, queue, producerStopped, finished, successes,
                       futureVars>>
        /\ producer = "new" /\ processor = "new"
        /\ producer' = "factory" /\ processor' = "get" /\ Busy' = Busy
    BY <1>1 DEF IInv, Start, StopsAfterLoop, Busy, poolVars
  <2> QED BY <1>0, <2>1 DEF IInv, NoTaskLost, MarkersQueued, MarkerOnce, BatchInLoop,
          StopsAfterLoop, CountAtPC, GivesUpAtEnd, Published, OutOfValuesIsFinal,
          poolVars, futureVars
<1>2. CASE UNCHANGED <<producerVars, poolVars, queue, processorVars, futureVars>>
  <2>1. Busy' = Busy BY <1>2 DEF Busy, poolVars
  <2> QED BY <1>0, <1>2, <2>1 DEF IInv, NoTaskLost, MarkersQueued, MarkerOnce, BatchInLoop,
          StopsAfterLoop, CountAtPC, GivesUpAtEnd, Published, OutOfValuesIsFinal,
          producerVars, poolVars, processorVars, futureVars
<1> QED BY <1>1, <1>2 DEF Use, Cancel, Block, BlockReturns, Join, JoinReturns

LEMMA InvStutter == IInv /\ UNCHANGED vars => IInv'
<1> SUFFICES ASSUME IInv, UNCHANGED vars PROVE IInv' OBVIOUS
<1>1. TypeInv' BY TypeStutter DEF IInv
<1>2. Busy' = Busy BY DEF Busy, vars, poolVars
<1> QED BY <1>1, <1>2 DEF IInv, NoTaskLost, MarkersQueued, MarkerOnce, BatchInLoop,
          StopsAfterLoop, CountAtPC, GivesUpAtEnd, Published, OutOfValuesIsFinal,
          vars, producerVars, poolVars, processorVars, futureVars

LEMMA InvCorrect == Spec => []IInv
<1>1. Init => IInv BY InvInit
<1>2. IInv /\ [Next]_vars => IInv'
  BY InvProduce, InvWork, InvGet, InvAnnounce, InvStop, InvBail, InvUse, InvStutter
  DEF Next, Process
<1> QED BY <1>1, <1>2, PTL DEF Spec

-----------------------------------------------------------------------------
(* The theorems.                                                           *)

\* Whatever the factory, the workers, the timeout and the callers do, no task
\* is lost or counted twice before the pool is stopped.
THEOREM TasksConserved == Spec => []NoTaskLost
<1>1. IInv => NoTaskLost BY DEF IInv
<1> QED BY <1>1, InvCorrect, PTL

\* OutOfValues is published only when no task is outstanding anywhere and the
\* target has not been reached.
THEOREM OutOfValuesCorrect == Spec => []OutOfValuesIsFinal
<1>1. IInv => OutOfValuesIsFinal BY DEF IInv
<1> QED BY <1>1, InvCorrect, PTL

\* A published dictionary of successes has exactly target_successes entries.
THEOREM TargetCorrect == Spec => []TargetMetExactly
<1>1. IInv => TargetMetExactly BY DEF IInv, CountAtPC, Published, TargetMetExactly
<1> QED BY <1>1, InvCorrect, PTL

-----------------------------------------------------------------------------
(* The shutdown of the pool.                                               *)

Decided == {"cancelWon", "stop", "quit", "joinThreads", "done"}

\* How far the shutdown is at each point of the processor: the outcome comes first,
\* then the team quits, then its threads are waited for.
ShutdownAtPC ==
    /\ processor \in Decided => target # "unset"
    /\ quit <=> processor \in {"joinThreads", "done"}
    /\ stopped <=> processor = "done"
    /\ producerError = "AlreadyQuit" => quit
    /\ processor = "done" => pending = <<>> /\ \A t \in Threads : thread[t] = Idle

\* Who has joined has seen the service threads end.
JoinedSees ==
    \A c \in Clients : joinOutcome[c] # "none" =>
        /\ producer = "done" /\ processor = "done"
        /\ joinOutcome[c] = "ok" => producerError = "none"

\* Nothing is decided, and nobody has joined, when the pool is made.
LEMMA ShutdownInit == Init => ShutdownAtPC /\ JoinedSees
BY DEF Init, ShutdownAtPC, JoinedSees, Decided

\* The producer gets AlreadyQuit only from a team that has quit, and can hand it
\* nothing once the processor waits for the threads.
LEMMA ShutdownProduce ==
    ASSUME TypeOK, ShutdownAtPC, JoinedSees, Produce
    PROVE  ShutdownAtPC' /\ JoinedSees'
<1>0. UNCHANGED <<processor, target, quit, stopped, thread, joinOutcome>> /\ producer # "done"
  BY DEF Produce, ProduceBatch, ProduceNothing, FactoryRaises, CallInThread, SubmitAccepted,
         SubmitRaises, StaggerSleep, PutProducerStopped, poolVars, processorVars, futureVars,
         clientVars
<1>1. producerError' = producerError \/ (producerError' = "AlreadyQuit" => quit)
  BY DEF Produce, ProduceBatch, ProduceNothing, FactoryRaises, CallInThread, SubmitAccepted,
         SubmitRaises, StaggerSleep, PutProducerStopped
<1>2. pending' = pending \/ ~quit
  BY DEF Produce, ProduceBatch, ProduceNothing, FactoryRaises, CallInThread, SubmitAccepted,
         SubmitRaises, StaggerSleep, PutProducerStopped, poolVars
<1>3. ShutdownAtPC' BY <1>0, <1>1, <1>2 DEF ShutdownAtPC
<1>4. JoinedSees' BY <1>0 DEF JoinedSees
<1> QED BY <1>3, <1>4

\* No thread takes a task after the last one was drained.
LEMMA ShutdownWork ==
    ASSUME TypeOK, ShutdownAtPC, JoinedSees, NEW t \in Threads, Work(t)
    PROVE  ShutdownAtPC' /\ JoinedSees'
<1>0. UNCHANGED <<producer, producerError, processor, target, quit, stopped, joinOutcome>>
  BY DEF Work, TakeTask, CheckCancelled, FinishWork, producerVars, processorVars, futureVars,
         clientVars
<1>1. processor # "done"
  BY DEF Work, TakeTask, CheckCancelled, FinishWork, ShutdownAtPC, Idle
<1>2. ShutdownAtPC' BY <1>0, <1>1 DEF ShutdownAtPC
<1>3. JoinedSees' BY <1>0 DEF JoinedSees
<1> QED BY <1>2, <1>3

\* The processor announces before it stops the pool.
LEMMA ShutdownProcess ==
    ASSUME TypeOK, ShutdownAtPC, JoinedSees, Process
    PROVE  ShutdownAtPC' /\ JoinedSees'
<1>0. /\ UNCHANGED <<producer, producerError, pending, thread, joinOutcome>>
      /\ processor # "done"
  BY DEF Process, GetMarker, GetResult, AnnounceSuccesses, AnnounceOutOfValues, ProcessorCancels,
         StopThreadPool, producerVars, poolVars, clientVars
<1>1. CASE GetMarker \/ GetResult
  <2>1. /\ UNCHANGED <<target, quit, stopped>> /\ processor = "get"
        /\ processor' \in {"get", "announce", "cancelOut"}
    BY <1>1 DEF GetMarker, GetResult, AfterResult, poolVars, futureVars
  <2> QED BY <1>0, <2>1 DEF ShutdownAtPC, JoinedSees, Decided
<1>2. CASE AnnounceSuccesses \/ AnnounceOutOfValues
  <2>1. /\ UNCHANGED <<quit, stopped>> /\ target' # "unset"
        /\ processor \in {"announce", "announceOut"} /\ processor' \in {"cancelWon", "stop"}
    BY <1>2 DEF AnnounceSuccesses, AnnounceOutOfValues, SetTarget, poolVars, futureVars
  <2> QED BY <1>0, <2>1 DEF ShutdownAtPC, JoinedSees, Decided
<1>3. CASE ProcessorCancels
  <2>1. UNCHANGED <<quit, stopped, target>> BY <1>3 DEF ProcessorCancels, poolVars, futureVars
  <2>2. /\ processor' \in {"stop", "announceOut"} /\ processor \in {"cancelWon", "cancelOut"}
        /\ processor' = "stop" => processor = "cancelWon"
    BY <1>3 DEF ProcessorCancels
  <2> QED BY <1>0, <2>1, <2>2 DEF ShutdownAtPC, JoinedSees, Decided
<1>4. CASE StopThreadPool
  <2>1. target' = target /\ processor \in Decided BY <1>4 DEF StopThreadPool, futureVars, Decided
  <2>2. \/ processor' = "quit" /\ processor = "stop" /\ UNCHANGED <<quit, stopped>>
        \/ processor' = "joinThreads" /\ processor = "quit" /\ quit' = TRUE /\ UNCHANGED stopped
        \/ /\ processor' = "done" /\ processor = "joinThreads" /\ stopped' = TRUE /\ UNCHANGED quit
           /\ pending = <<>> /\ \A t \in Threads : thread[t] = Idle
    BY <1>4 DEF StopThreadPool
  <2> QED BY <1>0, <2>1, <2>2 DEF ShutdownAtPC, JoinedSees
<1> QED BY <1>1, <1>2, <1>3, <1>4 DEF Process

\* The timeout only decides; a client that starts or joins finds what it waits for.
LEMMA ShutdownUse ==
    ASSUME TypeOK, StopsAfterLoop, ShutdownAtPC, JoinedSees,
           BailOnTimeout \/ \E c \in Clients : Use(c)
    PROVE  ShutdownAtPC' /\ JoinedSees'
<1>1. CASE BailOnTimeout
  <2>1. /\ UNCHANGED <<producer, producerError, processor, quit, stopped, pending, thread, joinOutcome>>
        /\ target # "unset" => target' # "unset"
    BY <1>1 DEF BailOnTimeout, SetTarget, producerVars, poolVars, processorVars, clientVars, futureVars
  <2> QED BY <2>1 DEF ShutdownAtPC, JoinedSees
<1>2. ASSUME NEW c \in Clients, Use(c) PROVE ShutdownAtPC' /\ JoinedSees'
  <2>1. CASE Start(c)
    <3>1. /\ UNCHANGED <<producerError, quit, stopped, pending, thread, joinOutcome, target>>
          /\ processor = "new" /\ processor' = "get" /\ producer # "done"
      BY <2>1 DEF Start, poolVars, clientVars, futureVars, StopsAfterLoop
    <3> QED BY <3>1 DEF ShutdownAtPC, JoinedSees, Decided
  <2>2. CASE ~Start(c)
    <3>1. UNCHANGED <<producer, producerError, processor, quit, stopped, pending, thread, target>>
      BY <1>2, <2>2 DEF Use, Cancel, Block, BlockReturns, Join, JoinReturns, producerVars, poolVars,
                        processorVars, futureVars
    <3>2. ShutdownAtPC' BY <3>1 DEF ShutdownAtPC
    <3>3. CASE JoinReturns(c)
      <4>1. /\ producer = "done" /\ processor = "done" /\ joinOutcome \in [Clients -> {"none", "ok", "error"}]
            /\ joinOutcome' = [joinOutcome EXCEPT ![c] = IF producerError = "none" THEN "ok" ELSE "error"]
        BY <3>3 DEF JoinReturns, TypeOK, ClientTypeOK
      <4> QED BY <3>1, <3>2, <4>1 DEF JoinedSees
    <3>4. CASE ~JoinReturns(c)
      <4>1. joinOutcome' = joinOutcome
        BY <1>2, <2>2, <3>4 DEF Use, Cancel, Block, BlockReturns, Join, clientVars
      <4> QED BY <3>1, <3>2, <4>1 DEF JoinedSees
    <3> QED BY <3>3, <3>4
  <2> QED BY <2>1, <2>2
<1> QED BY <1>1, <1>2

\* However the stop of the thread pool races with the producer, the timeout and the
\* callers, the outcome is published before it, and a join ends after everything.
THEOREM ShutdownIsOrderly == Spec => []OrderlyShutdown
<1> DEFINE S == ShutdownAtPC /\ JoinedSees
<1>1. Init => S BY ShutdownInit
<1>2. IInv /\ S /\ [Next]_vars => S'
  <2> SUFFICES ASSUME IInv, ShutdownAtPC, JoinedSees, [Next]_vars
               PROVE  ShutdownAtPC' /\ JoinedSees'
    OBVIOUS
  <2>0. TypeOK /\ StopsAfterLoop BY DEF IInv, TypeInv
  <2>1. CASE UNCHANGED vars
    BY <2>1 DEF vars, producerVars, poolVars, processorVars, futureVars, clientVars, ShutdownAtPC,
                JoinedSees
  <2>2. CASE Next
    BY <2>0, <2>2, ShutdownProduce, ShutdownWork, ShutdownProcess, ShutdownUse DEF Next
  <2> QED BY <2>1, <2>2
<1>3. IInv /\ S => OrderlyShutdown
  BY DEF IInv, StopsAfterLoop, ShutdownAtPC, JoinedSees, OrderlyShutdown, Busy, Decided
<1> QED BY <1>1, <1>2, <1>3, InvCorrect, PTL DEF Spec

-----------------------------------------------------------------------------
(* The refinement.                                                         *)

Waiting == {c \in Clients : client[c] = "blocked"}

\* The contract counts as the pool does.
LEMMA SameCount == \A S : Contract!Cardinality(S) = Cardinality(S)
BY DEF Contract!Cardinality, Cardinality

\* What a step does for the callers is a step of the contract.
LEMMA StepImplements ==
    ASSUME IInv, [Next]_vars
    PROVE  [Contract!CNext]_(Contract!cvars)
<1>0. TypeOK /\ CountAtPC BY DEF IInv, TypeInv
<1>1. ASSUME UNCHANGED <<target, won, client, outcome>>
      PROVE  UNCHANGED Contract!cvars
  BY <1>1 DEF Contract!cvars
<1>2. ASSUME UNCHANGED clientVars, NEW kind, NEW value, SetTarget(kind, value),
             \/ kind = "successes" /\ value \in SUBSET Values /\ Cardinality(value) = Target
             \/ kind \in {"TimedOut", "OutOfValues"} /\ value = {}
      PROVE  [Contract!CNext]_(Contract!cvars)
  <2>0. client' = client /\ outcome' = outcome BY <1>2 DEF clientVars
  <2>1. CASE target = "unset"
    <3>1. target' = kind /\ won' = value BY <1>2, <2>1 DEF SetTarget
    <3>2. \/ /\ target' = "successes"
             /\ won' \in SUBSET Values /\ Cardinality(won') = Target
          \/ target' \in {"TimedOut", "OutOfValues"} /\ won' = {}
      BY <1>2, <3>1
    <3>3. Waiting' = Waiting BY <2>0 DEF Waiting
    <3>4. Contract!Decide BY <2>0, <2>1, <3>2, <3>3, SameCount DEF Contract!Decide, Waiting
    <3> QED BY <3>4 DEF Contract!CNext
  <2>2. CASE target # "unset"
    <3>1. UNCHANGED <<target, won>> BY <1>2, <2>2 DEF SetTarget, futureVars
    <3> QED BY <1>1, <2>0, <3>1
  <2> QED BY <2>1, <2>2
<1>3. CASE UNCHANGED vars BY <1>1, <1>3 DEF vars, futureVars, clientVars
<1>4. CASE Produce \/ \E t \in Threads : Work(t)
  BY <1>1, <1>4 DEF Produce, ProduceBatch, ProduceNothing, FactoryRaises, CallInThread,
     SubmitAccepted, SubmitRaises, StaggerSleep, PutProducerStopped, Work, TakeTask,
     CheckCancelled, FinishWork, futureVars, clientVars
<1>5. CASE GetMarker \/ GetResult \/ ProcessorCancels \/ StopThreadPool
  BY <1>1, <1>5 DEF GetMarker, GetResult, ProcessorCancels, StopThreadPool, futureVars, clientVars
<1>6. CASE AnnounceSuccesses
  <2>1. successes \in SUBSET Values /\ Cardinality(successes) = Target
    BY <1>0, <1>6 DEF AnnounceSuccesses, CountAtPC, TypeOK, ProcessorTypeOK
  <2> QED BY <1>2, <1>6, <2>1 DEF AnnounceSuccesses
<1>7. CASE AnnounceOutOfValues BY <1>2, <1>7 DEF AnnounceOutOfValues
<1>8. CASE BailOnTimeout
  <2>1. CASE bailer = "timeout" BY <1>2, <1>8, <2>1 DEF BailOnTimeout
  <2>2. CASE bailer # "timeout" BY <1>1, <1>8, <2>2 DEF BailOnTimeout, futureVars, clientVars
  <2> QED BY <2>1, <2>2
<1>9. ASSUME NEW c \in Clients, Use(c) PROVE [Contract!CNext]_(Contract!cvars)
  <2>0. client \in [Clients -> {"idle", "blocked", "joining"}] BY <1>0 DEF TypeOK, ClientTypeOK
  <2>1. CASE Start(c) \/ Cancel(c) BY <1>1, <2>1 DEF Start, Cancel, futureVars, clientVars
  <2>2. CASE Block(c)
    <3>1. c \notin Waiting /\ UNCHANGED <<target, won>>
      BY <2>2 DEF Block, Waiting, futureVars
    <3>2. CASE producerError # "none"
      <4>1. Contract!Raise(c) BY <2>2, <3>1, <3>2 DEF Block, Contract!Raise, Waiting
      <4> QED BY <4>1 DEF Contract!CNext
    <3>3. CASE producerError = "none"
      <4>1. outcome' = outcome /\ client' = [client EXCEPT ![c] = "blocked"]
        BY <2>2, <3>3 DEF Block
      <4>2. Waiting' = Waiting \cup {c} BY <2>0, <4>1 DEF Waiting
      <4>3. Contract!Call(c) BY <3>1, <4>1, <4>2 DEF Contract!Call, Waiting
      <4> QED BY <4>3 DEF Contract!CNext
    <3> QED BY <3>2, <3>3
  <2>3. CASE BlockReturns(c)
    <3>1. /\ c \in Waiting /\ UNCHANGED <<target, won>> /\ target # "unset"
          /\ outcome' = [outcome EXCEPT ![c] = target]
      BY <2>3 DEF BlockReturns, Waiting, futureVars
    <3>2. Waiting' = Waiting \ {c} BY <2>0, <2>3 DEF BlockReturns, Waiting
    <3>3. Contract!Return(c) BY <3>1, <3>2 DEF Contract!Return, Waiting
    <3> QED BY <3>3 DEF Contract!CNext
  <2>4. CASE Join(c) \/ JoinReturns(c)
    <3>1. UNCHANGED <<target, won, outcome>> BY <2>4 DEF Join, JoinReturns, futureVars
    <3>2. Waiting' = Waiting BY <2>0, <2>4 DEF Join, JoinReturns, Waiting
    <3> QED BY <3>1, <3>2 DEF Contract!cvars, Waiting
  <2> QED BY <1>9, <2>1, <2>2, <2>3, <2>4 DEF Use
<1> QED BY <1>3, <1>4, <1>5, <1>6, <1>7, <1>8, <1>9 DEF Next, Process

\* The pool decides once for all its callers, a decision for success has the target
\* number of entries, and a call reports the decision or the producer's error: the
\* safety part of the contract.
THEOREM ImplementsSafely == Spec => Contract!CSafe
<1>1. Init => Contract!CInit BY DEF Init, Contract!CInit
<1> QED BY <1>1, StepImplements, InvCorrect, PTL DEF Spec, Contract!CSafe
=============================================================================
