----------------------------- MODULE WorkerPool -----------------------------
(***************************************************************************)
(* nulink.utilities.concurrency.WorkerPool: runs a worker on values drawn  *)
(* from a value factory until a number of them succeed.  Alice's policy    *)
(* sampling, Bob's retrieval and Porter's sampling all run on this pool.   *)
(*                                                                         *)
(* Actors: the producer thread (_produce_values), the threads of a Twisted *)
(* ThreadPool (_worker_wrapper), the processor thread (_process_results),  *)
(* the timeout thread (_bail_on_timeout), and the clients that call        *)
(* start, block_until_target_successes, cancel and join.                   *)
(*                                                                         *)
(* The worker and the value factory are arguments of the pool, so what     *)
(* they return is a free choice: a worker succeeds or raises, a factory    *)
(* returns a batch (values may repeat), nothing, or raises.                *)
(***************************************************************************)
EXTENDS Integers, Sequences, FiniteSets

CONSTANTS
    Values,     \* what the factory draws from (addresses of Ursulas)
    Threads,    \* threads of the pool
    Clients,    \* threads that use the pool
    Target,     \* target_successes
    MaxTasks    \* bound on the tasks a factory ever hands out

ASSUME ThreadsAssumption  == IsFiniteSet(Threads) /\ Threads # {}
ASSUME ValuesAssumption   == IsFiniteSet(Values)
ASSUME TargetAssumption   == Target \in Nat \ {0}
ASSUME MaxTasksAssumption == MaxTasks \in Nat

VARIABLES
    producer,       \* program counter of _produce_values
    batch,          \* values of the current batch not yet handed to the pool
    started,        \* _started_tasks
    producerError,  \* _producer_error: what the producer thread raised
    joined,         \* ThreadPool.joined: stop() was entered
    quit,           \* Team._quit: the team takes no more work
    stopped,        \* _threadpool_stopped
    pending,        \* tasks the team accepted, waiting for a thread
    thread,         \* what each pool thread is doing
    queue,          \* _result_queue
    processor,      \* program counter of _process_results
    producerStopped,\* its local producer_stopped
    finished,       \* _finished_tasks
    successes,      \* keys of _successes
    failures,       \* keys of _failures
    target,         \* _target_value: which of its three values it holds
    won,            \* _target_value: the dictionary, when it holds one
    cancelled,      \* _cancel_event
    bailer,         \* program counter of _bail_on_timeout
    client,         \* what each client is doing
    outcome,        \* how a client's last block_until_target_successes ended
    joinOutcome     \* how a client's last join ended

producerVars  == <<producer, batch, started, producerError>>
poolVars      == <<joined, quit, stopped, pending, thread>>
processorVars == <<processor, producerStopped, finished, successes, failures>>
futureVars    == <<target, won>>
clientVars    == <<client, outcome, joinOutcome>>
vars == <<producerVars, poolVars, queue, processorVars, futureVars, cancelled,
          bailer, clientVars>>

-----------------------------------------------------------------------------
Success(v)      == [kind |-> "success", value |-> v]
Failure(v)      == [kind |-> "failure", value |-> v]
Cancelled       == [kind |-> "cancelled"]
PRODUCER_STOPPED == [kind |-> "PRODUCER_STOPPED"]

TaskResult == {Success(v) : v \in Values} \cup {Failure(v) : v \in Values}
                \cup {Cancelled}

Idle    == [at |-> "idle"]
At(p, v) == [at |-> p, value |-> v]

ThreadState ==
    {Idle} \cup {At("check", v) : v \in Values} \cup {At("work", v) : v \in Values}
QueueItem == TaskResult \cup {PRODUCER_STOPPED}

ProducerTypeOK ==
    /\ producer \in {"new", "factory", "call", "submit", "sleep", "put", "done"}
    /\ batch \in Seq(Values)
    /\ started \in 0..MaxTasks
    /\ producerError \in {"none", "factory", "AlreadyQuit"}

PoolTypeOK ==
    /\ joined \in BOOLEAN /\ quit \in BOOLEAN /\ stopped \in BOOLEAN
    /\ pending \in Seq(Values)
    /\ thread \in [Threads -> ThreadState]

ProcessorTypeOK ==
    /\ processor \in {"new", "get", "announce", "cancelWon", "cancelOut",
                      "announceOut", "stop", "quit", "joinThreads", "done"}
    /\ producerStopped \in BOOLEAN
    /\ finished \in Nat
    /\ successes \in SUBSET Values /\ failures \in SUBSET Values

FutureTypeOK ==
    /\ target \in {"unset", "successes", "TimedOut", "OutOfValues"}
    /\ won \in SUBSET Values

ClientTypeOK ==
    /\ client \in [Clients -> {"idle", "blocked", "joining"}]
    /\ outcome \in [Clients -> {"none", "successes", "TimedOut", "OutOfValues", "error"}]
    /\ joinOutcome \in [Clients -> {"none", "ok", "error"}]

TypeOK ==
    /\ ProducerTypeOK /\ PoolTypeOK /\ ProcessorTypeOK /\ FutureTypeOK /\ ClientTypeOK
    /\ queue \in Seq(QueueItem)
    /\ cancelled \in BOOLEAN
    /\ bailer \in {"new", "wait", "timeout", "cancel", "done"}

Init ==
    /\ producer = "new" /\ batch = <<>> /\ started = 0 /\ producerError = "none"
    /\ joined = FALSE /\ quit = FALSE /\ stopped = FALSE
    /\ pending = <<>> /\ thread = [t \in Threads |-> Idle]
    /\ queue = <<>>
    /\ processor = "new" /\ producerStopped = FALSE /\ finished = 0
    /\ successes = {} /\ failures = {}
    /\ target = "unset" /\ won = {}
    /\ cancelled = FALSE
    /\ bailer = "new"
    /\ client = [c \in Clients |-> "idle"]
    /\ outcome = [c \in Clients |-> "none"]
    /\ joinOutcome = [c \in Clients |-> "none"]

-----------------------------------------------------------------------------
(* Future._set: the first value stays, later ones are ignored.             *)
SetTarget(kind, value) ==
    IF target = "unset"
    THEN target' = kind /\ won' = value
    ELSE UNCHANGED futureVars

-----------------------------------------------------------------------------
(* The producer thread.                                                    *)

\* Seeded fault: the batch is counted with one task too many.
ProduceBatchMiscounts ==
    /\ producer = "factory"
    /\ \E n \in 1..(MaxTasks - started) : \E b \in [1..n -> Values] :
          /\ batch' = b
          /\ started' = started + n + 1
    /\ producer' = "call"
    /\ UNCHANGED <<producerError, poolVars, queue, processorVars, futureVars,
                   cancelled, bailer, clientVars>>

\* The factory returns a batch, which is counted before any of it is started.
ProduceBatch ==
    /\ producer = "factory"
    /\ \E n \in 1..(MaxTasks - started) : \E b \in [1..n -> Values] :
          /\ batch' = b
          /\ started' = started + n
    /\ producer' = "call"
    /\ UNCHANGED <<producerError, poolVars, queue, processorVars, futureVars,
                   cancelled, bailer, clientVars>>

\* `if not batch: break`.
ProduceNothing ==
    /\ producer = "factory"
    /\ producer' = "put"
    /\ UNCHANGED <<batch, started, producerError, poolVars, queue, processorVars,
                   futureVars, cancelled, bailer, clientVars>>

\* `except BaseException`: the factory raised.
FactoryRaises ==
    /\ producer = "factory"
    /\ producerError' = "factory"
    /\ cancelled' = TRUE
    /\ producer' = "put"
    /\ UNCHANGED <<batch, started, poolVars, queue, processorVars, futureVars,
                   bailer, clientVars>>

\* The for loop: enter callInThread for the next value, which returns at once
\* when the pool is already joined, or leave the loop.
CallInThread ==
    /\ producer = "call"
    /\ \/ batch = <<>> /\ producer' = "sleep" /\ UNCHANGED batch
       \/ batch # <<>> /\ joined /\ batch' = Tail(batch) /\ UNCHANGED producer
       \/ batch # <<>> /\ ~joined /\ producer' = "submit" /\ UNCHANGED batch
    /\ UNCHANGED <<started, producerError, poolVars, queue, processorVars,
                   futureVars, cancelled, bailer, clientVars>>

\* Team.do, reached after the check of `joined`: the task is accepted...
SubmitAccepted ==
    /\ producer = "submit"
    /\ ~quit
    /\ pending' = Append(pending, Head(batch))
    /\ batch' = Tail(batch)
    /\ producer' = "call"
    /\ UNCHANGED <<started, producerError, joined, quit, stopped, thread, queue,
                   processorVars, futureVars, cancelled, bailer, clientVars>>

\* ... or the team has quit in between and raises AlreadyQuit, which the
\* producer takes for an error of its own.
SubmitRaises ==
    /\ producer = "submit"
    /\ quit
    /\ producerError' = "AlreadyQuit"
    /\ cancelled' = TRUE
    /\ producer' = "put"
    /\ UNCHANGED <<batch, started, poolVars, queue, processorVars, futureVars,
                   bailer, clientVars>>

\* Seeded fault: an interrupted producer returns without its last put.
StaggerSleepReturns ==
    /\ producer = "sleep"
    /\ producer' = IF cancelled THEN "done" ELSE "factory"
    /\ UNCHANGED <<batch, started, producerError, poolVars, queue, processorVars,
                   futureVars, cancelled, bailer, clientVars>>

\* _sleep(stagger_timeout): interrupted by a cancellation, or it runs out.
StaggerSleep ==
    /\ producer = "sleep"
    /\ producer' = IF cancelled THEN "put" ELSE "factory"
    /\ UNCHANGED <<batch, started, producerError, poolVars, queue, processorVars,
                   futureVars, cancelled, bailer, clientVars>>

\* The last thing the thread does, however it left the loop.
PutProducerStopped ==
    /\ producer = "put"
    /\ queue' = Append(queue, PRODUCER_STOPPED)
    /\ producer' = "done"
    /\ UNCHANGED <<batch, started, producerError, poolVars, processorVars,
                   futureVars, cancelled, bailer, clientVars>>

Produce ==
    \/ ProduceBatch \/ ProduceNothing \/ FactoryRaises \/ CallInThread
    \/ SubmitAccepted \/ SubmitRaises \/ StaggerSleep \/ PutProducerStopped

-----------------------------------------------------------------------------
(* The threads of the pool, running _worker_wrapper.                       *)

\* A free thread takes the oldest pending task, even after the team has quit.
TakeTask(t) ==
    /\ thread[t] = Idle
    /\ pending # <<>>
    /\ thread' = [thread EXCEPT ![t] = At("check", Head(pending))]
    /\ pending' = Tail(pending)
    /\ UNCHANGED <<producerVars, joined, quit, stopped, queue, processorVars,
                   futureVars, cancelled, bailer, clientVars>>

\* Seeded fault: a task that finds the pool cancelled reports nothing.
CheckCancelledSilently(t) ==
    /\ thread[t].at = "check"
    /\ thread' = [thread EXCEPT ![t] = IF cancelled THEN Idle ELSE At("work", @.value)]
    /\ UNCHANGED <<producerVars, joined, quit, stopped, pending, queue, processorVars,
                   futureVars, cancelled, bailer, clientVars>>

\* _sleep(0): a cancelled pool does not run the worker.
CheckCancelled(t) ==
    /\ thread[t].at = "check"
    /\ IF cancelled
       THEN /\ queue' = Append(queue, Cancelled)
            /\ thread' = [thread EXCEPT ![t] = Idle]
       ELSE /\ thread' = [thread EXCEPT ![t] = At("work", @.value)]
            /\ UNCHANGED queue
    /\ UNCHANGED <<producerVars, joined, quit, stopped, pending, processorVars,
                   futureVars, cancelled, bailer, clientVars>>

\* The worker returns or raises; a cancellation does not interrupt it.
FinishWork(t) ==
    /\ thread[t].at = "work"
    /\ \E r \in {Success(thread[t].value), Failure(thread[t].value)} :
          queue' = Append(queue, r)
    /\ thread' = [thread EXCEPT ![t] = Idle]
    /\ UNCHANGED <<producerVars, joined, quit, stopped, pending, processorVars,
                   futureVars, cancelled, bailer, clientVars>>

Work(t) == TakeTask(t) \/ CheckCancelled(t) \/ FinishWork(t)

-----------------------------------------------------------------------------
(* The processor thread.                                                   *)

\* Seeded fault: the loop ends with the producer, not with its last task.
AfterResultTooEarly(reached, noMoreValues, done) ==
    IF reached THEN "announce" ELSE IF noMoreValues THEN "cancelOut" ELSE "get"

\* Where the loop goes after one result: `reached` says that this success
\* made len(_successes) equal to the target.
AfterResult(reached, noMoreValues, done) ==
    IF reached THEN "announce"
    ELSE IF noMoreValues /\ done = started THEN "cancelOut"
    ELSE "get"

GetMarker ==
    /\ processor = "get"
    /\ queue # <<>>
    /\ Head(queue) = PRODUCER_STOPPED
    /\ queue' = Tail(queue)
    /\ producerStopped' = TRUE
    /\ processor' = AfterResult(FALSE, TRUE, finished)
    /\ UNCHANGED <<producerVars, poolVars, finished, successes, failures,
                   futureVars, cancelled, bailer, clientVars>>

\* Seeded fault: cancelled tasks are not counted as finished.
GetResultSkipsCancelled ==
    /\ processor = "get"
    /\ queue # <<>>
    /\ Head(queue) # PRODUCER_STOPPED
    /\ queue' = Tail(queue)
    /\ LET r == Head(queue) IN
          /\ finished' = IF r.kind = "cancelled" THEN finished ELSE finished + 1
          /\ successes' = IF r.kind = "success" THEN successes \cup {r.value} ELSE successes
          /\ failures'  = IF r.kind = "failure" THEN failures \cup {r.value} ELSE failures
          /\ processor' = AfterResult(r.kind = "success" /\ Cardinality(successes') = Target,
                                      producerStopped, finished')
    /\ UNCHANGED <<producerVars, poolVars, producerStopped, futureVars,
                   cancelled, bailer, clientVars>>

\* Seeded fault: the count is one behind, so a repeated value reaches the target.
GetResultOffByOne ==
    /\ processor = "get"
    /\ queue # <<>>
    /\ Head(queue) # PRODUCER_STOPPED
    /\ queue' = Tail(queue)
    /\ finished' = finished + 1
    /\ LET r == Head(queue) IN
          /\ successes' = IF r.kind = "success" THEN successes \cup {r.value} ELSE successes
          /\ failures'  = IF r.kind = "failure" THEN failures \cup {r.value} ELSE failures
          /\ processor' = AfterResult(r.kind = "success" /\ Cardinality(successes) = Target - 1,
                                      producerStopped, finished')
    /\ UNCHANGED <<producerVars, poolVars, producerStopped, futureVars,
                   cancelled, bailer, clientVars>>

GetResult ==
    /\ processor = "get"
    /\ queue # <<>>
    /\ Head(queue) # PRODUCER_STOPPED
    /\ queue' = Tail(queue)
    /\ finished' = finished + 1
    /\ LET r == Head(queue) IN
          /\ successes' = IF r.kind = "success" THEN successes \cup {r.value} ELSE successes
          /\ failures'  = IF r.kind = "failure" THEN failures \cup {r.value} ELSE failures
          /\ processor' = AfterResult(r.kind = "success" /\ Cardinality(successes') = Target,
                                      producerStopped, finished')
    /\ UNCHANGED <<producerVars, poolVars, producerStopped, futureVars,
                   cancelled, bailer, clientVars>>

\* Seeded fault: the loop goes on after the target is reached.
AnnounceSuccessesGoesOn ==
    /\ processor = "announce"
    /\ SetTarget("successes", successes)
    /\ processor' = "get"
    /\ UNCHANGED <<producerVars, poolVars, queue, producerStopped, finished,
                   successes, failures, cancelled, bailer, clientVars>>

\* The target is reached: publish the successes, then cancel.
AnnounceSuccesses ==
    /\ processor = "announce"
    /\ SetTarget("successes", successes)
    /\ processor' = "cancelWon"
    /\ UNCHANGED <<producerVars, poolVars, queue, producerStopped, finished,
                   successes, failures, cancelled, bailer, clientVars>>

\* Nothing more will come: cancel, then publish PRODUCER_STOPPED.
AnnounceOutOfValues ==
    /\ processor = "announceOut"
    /\ SetTarget("OutOfValues", {})
    /\ processor' = "stop"
    /\ UNCHANGED <<producerVars, poolVars, queue, producerStopped, finished,
                   successes, failures, cancelled, bailer, clientVars>>

ProcessorCancels ==
    /\ \/ processor = "cancelWon" /\ processor' = "stop"
       \/ processor = "cancelOut" /\ processor' = "announceOut"
    /\ cancelled' = TRUE
    /\ UNCHANGED <<producerVars, poolVars, queue, producerStopped, finished,
                   successes, failures, futureVars, bailer, clientVars>>

\* Seeded fault: the pool is marked stopped without waiting for its threads.
StopThreadPoolNoWait ==
    /\ \/ /\ processor = "stop"
          /\ joined' = TRUE /\ processor' = "quit"
          /\ UNCHANGED <<quit, stopped>>
       \/ /\ processor = "quit"
          /\ quit' = TRUE /\ stopped' = TRUE /\ processor' = "done"
          /\ UNCHANGED joined
    /\ UNCHANGED <<producerVars, pending, thread, queue, producerStopped, finished,
                   successes, failures, futureVars, cancelled, bailer, clientVars>>

\* _stop_threadpool: ThreadPool.stop() marks the pool joined, makes the team
\* quit and waits for the threads, which first drain the pending tasks.
StopThreadPool ==
    /\ \/ /\ processor = "stop"
          /\ joined' = TRUE /\ processor' = "quit"
          /\ UNCHANGED <<quit, stopped>>
       \/ /\ processor = "quit"
          /\ quit' = TRUE /\ processor' = "joinThreads"
          /\ UNCHANGED <<joined, stopped>>
       \/ /\ processor = "joinThreads"
          /\ pending = <<>> /\ \A t \in Threads : thread[t] = Idle
          /\ stopped' = TRUE /\ processor' = "done"
          /\ UNCHANGED <<joined, quit>>
    /\ UNCHANGED <<producerVars, pending, thread, queue, producerStopped, finished,
                   successes, failures, futureVars, cancelled, bailer, clientVars>>

Process ==
    \/ GetMarker \/ GetResult \/ AnnounceSuccesses \/ AnnounceOutOfValues
    \/ ProcessorCancels \/ StopThreadPool

-----------------------------------------------------------------------------
(* The timeout thread: the wait ends with a cancellation or with the       *)
(* timeout, which it publishes before it cancels the pool.                 *)
BailOnTimeout ==
    /\ \/ /\ bailer = "wait"
          /\ bailer' = IF cancelled THEN "cancel" ELSE "timeout"
          /\ UNCHANGED <<futureVars, cancelled>>
       \/ /\ bailer = "timeout"
          /\ SetTarget("TimedOut", {})
          /\ bailer' = "cancel"
          /\ UNCHANGED cancelled
       \/ /\ bailer = "cancel"
          /\ cancelled' = TRUE
          /\ bailer' = "done"
          /\ UNCHANGED futureVars
    /\ UNCHANGED <<producerVars, poolVars, queue, processorVars, clientVars>>

-----------------------------------------------------------------------------
(* The clients.                                                            *)

Start(c) ==
    /\ producer = "new"
    /\ producer' = "factory" /\ processor' = "get" /\ bailer' = "wait"
    /\ UNCHANGED <<batch, started, producerError, poolVars, queue, producerStopped,
                   finished, successes, failures, futureVars, cancelled, clientVars>>

Cancel(c) ==
    /\ producer # "new"
    /\ client[c] = "idle"
    /\ cancelled' = TRUE
    /\ UNCHANGED <<producerVars, poolVars, queue, processorVars, futureVars,
                   bailer, clientVars>>

\* block_until_target_successes checks for a producer error once, then waits.
Block(c) ==
    /\ producer # "new"
    /\ client[c] = "idle"
    /\ IF producerError # "none"
       THEN outcome' = [outcome EXCEPT ![c] = "error"] /\ UNCHANGED client
       ELSE client' = [client EXCEPT ![c] = "blocked"] /\ UNCHANGED outcome
    /\ UNCHANGED <<producerVars, poolVars, queue, processorVars, futureVars,
                   cancelled, bailer, joinOutcome>>

BlockReturns(c) ==
    /\ client[c] = "blocked"
    /\ target # "unset"
    /\ outcome' = [outcome EXCEPT ![c] = target]
    /\ client' = [client EXCEPT ![c] = "idle"]
    /\ UNCHANGED <<producerVars, poolVars, queue, processorVars, futureVars,
                   cancelled, bailer, joinOutcome>>

Join(c) ==
    /\ producer # "new"
    /\ client[c] = "idle"
    /\ client' = [client EXCEPT ![c] = "joining"]
    /\ UNCHANGED <<producerVars, poolVars, queue, processorVars, futureVars,
                   cancelled, bailer, outcome, joinOutcome>>

\* The three service threads have ended, so the pool is stopped already and
\* _stop_threadpool does nothing; a producer error is raised here.
JoinReturns(c) ==
    /\ client[c] = "joining"
    /\ producer = "done" /\ processor = "done" /\ bailer = "done"
    /\ joinOutcome' = [joinOutcome EXCEPT ![c] =
                          IF producerError = "none" THEN "ok" ELSE "error"]
    /\ client' = [client EXCEPT ![c] = "idle"]
    /\ UNCHANGED <<producerVars, poolVars, queue, processorVars, futureVars,
                   cancelled, bailer, outcome>>

Use(c) ==
    \/ Start(c) \/ Cancel(c) \/ Block(c) \/ BlockReturns(c) \/ Join(c) \/ JoinReturns(c)

-----------------------------------------------------------------------------
Next ==
    \/ Produce
    \/ \E t \in Threads : Work(t)
    \/ Process
    \/ BailOnTimeout
    \/ \E c \in Clients : Use(c)

\* Every started thread keeps running: the factory and the workers return,
\* and a call that can return does.  Nobody is forced to call anything.
Fairness ==
    /\ WF_vars(Produce)
    /\ \A t \in Threads : WF_vars(Work(t))
    /\ WF_vars(Process)
    /\ WF_vars(BailOnTimeout)
    /\ \A c \in Clients : WF_vars(BlockReturns(c)) /\ WF_vars(JoinReturns(c))

Spec == Init /\ [][Next]_vars
FairSpec == Spec /\ Fairness

-----------------------------------------------------------------------------
(* Safety.                                                                 *)

Busy == {t \in Threads : thread[t] # Idle}

\* PRODUCER_STOPPED is in the queue from the end of the producer until the
\* processor has seen it.
MarkersQueued == IF producer = "done" /\ ~producerStopped THEN 1 ELSE 0

\* No task is lost or counted twice between the four kinds of threads: as long
\* as the pool is not being stopped, every task that _started_tasks counts is
\* still in the batch, waits for a thread, runs, has its result in the queue,
\* or is counted by _finished_tasks.  The test `finished == started` that ends
\* _process_results rests on this.
NoTaskLost ==
    ~joined => started = finished + (Len(queue) - MarkersQueued)
                           + Cardinality(Busy) + Len(pending) + Len(batch)

\* OutOfValues is final: when _process_results publishes it, the producer has
\* ended, no task is waiting or running, every result has been processed, and
\* the target was not reached.  No success can come after the exception.
OutOfValuesIsFinal ==
    target = "OutOfValues" =>
        /\ producer = "done" /\ producerStopped
        /\ finished = started
        /\ queue = <<>> /\ pending = <<>> /\ Busy = {}
        /\ Cardinality(successes) < Target

\* A caller of block_until_target_successes that gets a dictionary gets exactly
\* target_successes entries, all of them recorded successes, even though values
\* may repeat and tasks go on finishing.
TargetMetExactly ==
    /\ Cardinality(successes) <= Target
    /\ target = "successes" => Cardinality(won) = Target /\ won = successes

\* The stop of the thread pool races with callInThread, although a comment in
\* _produce_values says that the two never execute at the same time: a value is
\* dropped, or AlreadyQuit becomes the producer's error.  By then the outcome is
\* published, so the race cannot change what the pool decides; and when join has
\* returned or raised, nothing of the pool runs any more, and a join that
\* returned normally hides no error of the producer.
OrderlyShutdown ==
    /\ joined \/ producerError = "AlreadyQuit" => target # "unset"
    /\ \A c \in Clients : joinOutcome[c] # "none" =>
           /\ producer = "done" /\ pending = <<>> /\ Busy = {} /\ stopped
           /\ joinOutcome[c] = "ok" => producerError = "none"

-----------------------------------------------------------------------------
(* Liveness, under FairSpec.                                               *)

\* A call of block_until_target_successes or join returns or raises: neither
\* an exhausted or raising factory, nor a timeout, nor a cancellation at any
\* moment leaves a caller waiting.
CallsReturn == \A c \in Clients : (client[c] # "idle") ~> (client[c] = "idle")

\* A started pool winds down without the help of any caller (Porter never
\* calls join): all service threads end and the thread pool is stopped.
PoolWindsDown ==
    (producer # "new") ~> (producer = "done" /\ bailer = "done" /\ stopped)

-----------------------------------------------------------------------------
(* The contract of WorkerPoolContract.                                     *)

Contract == INSTANCE WorkerPoolContract WITH
    decision <- target,
    waiting  <- {c \in Clients : client[c] = "blocked"},
    report   <- outcome

\* The pool implements its contract: the outcome is decided once, a dictionary
\* has the target number of entries, and every call of
\* block_until_target_successes ends by reporting the decision or the error of
\* the producer thread.
ImplementsContract == Contract!CSpec
=============================================================================
