------------------------------ MODULE Retrieval ------------------------------
(***************************************************************************)
(* Retrieval of capsule fragments by Bob: Bob.retrieve, the RetrievalPlan,  *)
(* the RetrievalClient with its two worker pools, and the message kits that *)
(* carry the fragments from one attempt to the next.                        *)
(*                                                                         *)
(* A kit is abstracted to the set of Ursulas whose fragment it holds.  The  *)
(* worker pool appears as its callers see it (WorkerPool has the detail):   *)
(* a producer that draws batches from the value factory, workers, and a     *)
(* processor that counts successes.                                         *)
(***************************************************************************)
EXTENDS Integers, FiniteSets

CONSTANTS
    Ursulas,        \* destinations of the treasure map
    Capsules,       \* capsules of the message kits
    Threshold,      \* threshold of the treasure map
    MaxAttempts     \* bound: calls of retrieve for the same kits

ASSUME UrsulasAssumption   == IsFiniteSet(Ursulas)
ASSUME ThresholdAssumption == Threshold \in 1..Cardinality(Ursulas)
ASSUME AttemptsAssumption  == MaxAttempts \in Nat

VARIABLES
    kits,           \* the message kits Bob holds between attempts
    attempts,       \* calls of retrieve so far
    phase,          \* where the present call is
    raised,         \* exception that ended the last call
    orders,         \* retrieval_worker_orders: capsules to send to each Ursula
    todo,           \* retrieval_work_order_key_list, shared by both pools
    results,        \* RetrievalPlan._results
    successes,      \* successes of the pools that have ended
    pool            \* the worker pool that runs

planVars == <<orders, todo>>
vars == <<kits, attempts, phase, raised, planVars, results, successes, pool>>

-----------------------------------------------------------------------------
Kits == [Capsules -> SUBSET Ursulas]
NoFrags == [c \in Capsules |-> {}]

Phases == {"idle", "pool", "join", "decide", "ended"}
Exceptions == {"none", "NotEnoughTeachers", "AlreadyQuit", "AttributeError"}
Outcomes == {"open", "reached", "out_of_values", "timed_out"}

\* `working` are the values handed to the pool's threads and not finished,
\* `reported` the successes the processor has not seen, `succ` those it has,
\* `producing` says that the producer thread is in its loop, and `quit` that it
\* was left by AlreadyQuit.
Pools == [number : 0..2, target : 0..Threshold, working : SUBSET Ursulas, reported : SUBSET Ursulas,
          succ : SUBSET Ursulas, producing : BOOLEAN, quit : BOOLEAN,
          outcome : Outcomes]

NoPool == [number |-> 0, target |-> 0, working |-> {}, reported |-> {}, succ |-> {},
           producing |-> FALSE, quit |-> FALSE, outcome |-> "open"]

\* worker_pool_start: a new WorkerPool is started.
StartPool(number, target) ==
    [NoPool EXCEPT !.number = number, !.target = target, !.producing = TRUE]

\* The types of the retrieval's state; above all, the target of either pool is a
\* number of successes between none and the threshold.
TypeOK ==
    /\ kits \in Kits /\ results \in Kits
    /\ attempts \in 0..MaxAttempts
    /\ phase \in Phases /\ raised \in Exceptions
    /\ orders \in [Ursulas -> SUBSET Capsules] /\ todo \in SUBSET Ursulas
    /\ successes \in SUBSET Ursulas
    /\ pool \in Pools

\* Bob's kits may be clean or loaded with what earlier calls, for some of them
\* only, have left in each.
Init ==
    /\ kits \in Kits
    /\ attempts = 0
    /\ phase = "idle" /\ raised = "none"
    /\ orders = [u \in Ursulas |-> {}] /\ todo = {}
    /\ results = NoFrags
    /\ successes = {}
    /\ pool = NoPool

-----------------------------------------------------------------------------
(* PolicyMessageKit and RetrievalPlan.                                     *)

\* is_decryptable_by_receiver.
Decryptable(c) == Cardinality(kits[c]) >= Threshold

\* Seeded fault: capsules this Ursula has processed already are sent again.
WorkOrderRepeats(u) == {c \in Capsules : Cardinality(kits[c]) < Threshold}

\* get_work_order: capsules the Ursula has not processed and that do not have
\* enough fragments.
WorkOrder(u) == {c \in Capsules : u \notin kits[c] /\ Cardinality(kits[c]) < Threshold}

\* ursulas_to_contact_last: asked before, for any of the kits.
ContactLast == UNION {kits[c] : c \in Capsules}

\* RetrievalStrategy pops from the end of the list, where the plan put the
\* Ursulas to contact last.
PoppedBefore(B, rest) == B \subseteq ContactLast \/ rest \cap ContactLast = {}

\* update.
Update(u) == results' = [c \in Capsules |-> IF c \in orders[u] THEN results[c] \cup {u} ELSE results[c]]

-----------------------------------------------------------------------------
(* Bob.retrieve and retrieve_cfrags.                                       *)

\* The plan is made, all its work orders are taken at once, and the first pool
\* is started.
Retrieve ==
    /\ phase \in {"idle", "ended"} /\ attempts < MaxAttempts
    /\ attempts' = attempts + 1
    /\ orders' = [u \in Ursulas |-> WorkOrder(u)]
    /\ todo' = {u \in Ursulas : WorkOrder(u) # {}}
    /\ results' = NoFrags
    /\ successes' = {}
    /\ pool' = StartPool(1, Threshold)
    /\ phase' = "pool" /\ raised' = "none"
    /\ UNCHANGED kits

\* _ensure_ursula_availability raises: too few of the Ursulas become known.
UrsulasUnknown ==
    /\ phase \in {"idle", "ended"} /\ attempts < MaxAttempts
    /\ attempts' = attempts + 1
    /\ phase' = "ended" /\ raised' = "NotEnoughTeachers"
    /\ UNCHANGED <<kits, planVars, results, successes, pool>>

-----------------------------------------------------------------------------
(* The worker pool.                                                        *)

Wanted == Threshold - Cardinality(pool.succ)

\* RetrievalStrategy.__call__ in the producer thread: as many values as the
\* threshold still lacks, however few the pool's target is.
DrawBatch ==
    /\ phase = "pool" /\ pool.producing /\ pool.outcome = "open"
    /\ \E B \in SUBSET todo :
          /\ B # {} /\ PoppedBefore(B, todo \ B)
          /\ Cardinality(B) = Wanted \/ (B = todo /\ Cardinality(B) < Wanted)
          /\ todo' = todo \ B
          /\ pool' = [pool EXCEPT !.working = @ \cup B]
    /\ UNCHANGED <<kits, attempts, phase, raised, orders, results, successes>>

\* The list is empty or nothing is wanted: the producer stops.
DrawNothing ==
    /\ phase = "pool" /\ pool.producing
    /\ todo = {} \/ Wanted <= 0
    /\ pool' = [pool EXCEPT !.producing = FALSE]
    /\ UNCHANGED <<kits, attempts, phase, raised, planVars, results, successes>>

\* The Ursula re-encrypts: the worker updates the plan and returns.
WorkerSucceeds(u) ==
    /\ u \in pool.working
    /\ Update(u)
    /\ pool' = [pool EXCEPT !.working = @ \ {u}, !.reported = @ \cup {u}]
    /\ UNCHANGED <<kits, attempts, phase, raised, planVars, successes>>

\* The Ursula is unknown, down, does not know the policy, or answers with
\* something that does not verify; or the pool was cancelled before.
WorkerFails(u) ==
    /\ u \in pool.working
    /\ pool' = [pool EXCEPT !.working = @ \ {u}]
    /\ UNCHANGED <<kits, attempts, phase, raised, planVars, results, successes>>

\* The processor has stopped the thread pool before the producer hands u over.
SubmitRaises(u) ==
    /\ u \in pool.working /\ pool.producing /\ pool.outcome = "reached"
    /\ pool' = [pool EXCEPT !.working = @ \ {u}, !.producing = FALSE, !.quit = TRUE]
    /\ UNCHANGED <<kits, attempts, phase, raised, planVars, results, successes>>

\* The processor counts a success; the target may be reached.
ProcessSuccess(u) ==
    /\ u \in pool.reported /\ pool.outcome # "reached"
    /\ LET succ == pool.succ \cup {u}
       IN  pool' = [pool EXCEPT
              !.reported = @ \ {u}, !.succ = succ,
              !.outcome = IF @ = "open" /\ Cardinality(succ) = pool.target THEN "reached" ELSE @]
    /\ UNCHANGED <<kits, attempts, phase, raised, planVars, results, successes>>

\* Seeded fault: the pool runs out of values while workers are busy.
OutOfValuesEarly ==
    /\ phase = "pool" /\ pool.outcome = "open" /\ pool.reported = {}
    /\ pool' = [pool EXCEPT !.outcome = "out_of_values"]
    /\ UNCHANGED <<kits, attempts, phase, raised, planVars, results, successes>>

\* The producer has stopped and every task has finished.
OutOfValues ==
    /\ phase = "pool" /\ pool.outcome = "open"
    /\ ~pool.producing /\ pool.working = {} /\ pool.reported = {}
    /\ pool' = [pool EXCEPT !.outcome = "out_of_values"]
    /\ UNCHANGED <<kits, attempts, phase, raised, planVars, results, successes>>

TimeOut ==
    /\ phase = "pool" /\ pool.outcome = "open"
    /\ pool' = [pool EXCEPT !.outcome = "timed_out"]
    /\ UNCHANGED <<kits, attempts, phase, raised, planVars, results, successes>>

\* block_until_target_successes returns, or get_successes is taken instead; the
\* pool is cancelled.
BlockReturns ==
    /\ phase = "pool" /\ pool.outcome # "open"
    /\ successes' = successes \cup pool.succ
    /\ phase' = "join"
    /\ UNCHANGED <<kits, attempts, raised, planVars, results, pool>>

\* Seeded fault: a cancelled pool is joined only when no success is unprocessed,
\* although the processor has left its loop.
JoinWaitsForProcessor ==
    /\ phase = "join" /\ pool.working = {} /\ pool.reported = {}
    /\ phase' = "decide"
    /\ UNCHANGED <<kits, attempts, raised, planVars, results, successes, pool>>

\* join: every worker has finished, and may have updated the plan.
Join ==
    /\ phase = "join" /\ pool.working = {} /\ ~pool.quit
    /\ phase' = "decide"
    /\ UNCHANGED <<kits, attempts, raised, planVars, results, successes, pool>>

\* join raises the producer's error.
JoinRaises ==
    /\ phase = "join" /\ pool.working = {} /\ pool.quit
    /\ phase' = "ended" /\ raised' = "AlreadyQuit"
    /\ UNCHANGED <<kits, attempts, planVars, results, successes, pool>>

-----------------------------------------------------------------------------
(* After the pools.                                                        *)

Enough == Cardinality(successes) >= Threshold

\* Seeded fault: the second pool is given one success less to reach.
StartSecondPoolShort ==
    /\ phase = "decide" /\ pool.number = 1 /\ ~Enough
    /\ pool' = StartPool(2, Threshold - Cardinality(successes) - 1)
    /\ phase' = "pool"
    /\ UNCHANGED <<kits, attempts, raised, planVars, results, successes>>

\* A second pool goes on with the rest of the list.
StartSecondPool ==
    /\ phase = "decide" /\ pool.number = 1 /\ ~Enough
    /\ pool' = StartPool(2, Threshold - Cardinality(successes))
    /\ phase' = "pool"
    /\ UNCHANGED <<kits, attempts, raised, planVars, results, successes>>

\* The error message of an incomplete retrieval asks the dictionaries that the
\* workers returned for a checksum_address.
ReportRaises ==
    /\ phase = "decide" /\ pool.number = 2 /\ ~Enough /\ successes # {}
    /\ phase' = "ended" /\ raised' = "AttributeError"
    /\ UNCHANGED <<kits, attempts, planVars, results, successes, pool>>

\* The results are returned, and Bob puts them into the kits.
ReturnResults ==
    /\ phase = "decide" /\ (Enough \/ (pool.number = 2 /\ successes = {}))
    /\ kits' = [c \in Capsules |-> kits[c] \cup results[c]]
    /\ phase' = "ended"
    /\ UNCHANGED <<attempts, raised, planVars, results, successes, pool>>

-----------------------------------------------------------------------------
Call == Retrieve \/ UrsulasUnknown
PoolStep ==
    \/ DrawBatch \/ DrawNothing
    \/ \E u \in Ursulas : WorkerSucceeds(u) \/ WorkerFails(u) \/ SubmitRaises(u) \/ ProcessSuccess(u)
    \/ OutOfValues \/ TimeOut
Progress ==
    \/ BlockReturns \/ Join \/ JoinRaises
    \/ StartSecondPool \/ ReportRaises \/ ReturnResults

Next == Call \/ PoolStep \/ Progress

Spec == Init /\ [][Next]_vars

\* The pool's timeout fires if nothing else does, requests to Ursulas have a
\* timeout of their own, and Bob's thread is scheduled.
Fairness ==
    /\ WF_vars(TimeOut) /\ WF_vars(Progress)
    /\ \A u \in Ursulas : WF_vars(WorkerSucceeds(u) \/ WorkerFails(u))

LiveSpec == Spec /\ Fairness

-----------------------------------------------------------------------------
(* Properties.                                                             *)

\* No capsule is sent to an Ursula whose fragment the kit or the plan holds
\* already, in any attempt and by either pool: the list of work orders is taken
\* once from the kits and shared by the pools.  (With TypeOK, on which it rests.)
NoCapsuleSentTwice ==
    /\ TypeOK
    /\ phase \in {"pool", "join"} =>
          \A u \in todo \cup pool.working, c \in Capsules :
              c \in orders[u] => u \notin kits[c] \cup results[c]

\* When the last pool reaches its target the retrieval succeeds for every kit,
\* whatever fragments each had before: a success is a new fragment for the kits
\* that lacked it, and the second pool's target counts the first's successes.
ReachedMeansDecryptable ==
    phase = "ended" /\ pool.outcome = "reached" /\ raised \notin {"AlreadyQuit", "NotEnoughTeachers"} =>
        raised = "none" /\ \A c \in Capsules : Decryptable(c)

\* A retrieval falls short only when its last pool timed out or every Ursula
\* that could help was asked and has answered or failed.
ShortOnlyAfterAskingAll ==
    phase = "decide" /\ pool.number = 2 /\ ~Enough /\ pool.outcome # "timed_out" =>
        todo = {} /\ pool.working = {}

\* Every call of retrieve ends.
EveryCallEnds == phase = "pool" ~> phase = "ended"

\* What was obtained from Ursulas during a call is in the kits when it has
\* ended: "with the kits containing the capsule fragments obtained during the
\* retrieval", so that they can be preserved "between several retrieval attempts".
FragmentsPreserved ==
    phase = "ended" /\ raised \notin {"NotEnoughTeachers", "AlreadyQuit"} =>
        \A c \in Capsules : results[c] \subseteq kits[c]
=============================================================================
