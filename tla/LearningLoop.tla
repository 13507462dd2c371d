---------------------------- MODULE LearningLoop ----------------------------
(***************************************************************************)
(* The learning loop of one Ursula: Twisted's LoopingCall around            *)
(* keep_learning_about_nodes.  The reactor thread fires its timers and stops  *)
(* it; every round runs in a thread of the reactor's pool, and the code of    *)
(* the LoopingCall that follows a round runs there too; the REST threads that *)
(* serve /node_metadata start a loop they find stopped.  None of them holds a *)
(* lock, so an action is one test of the LoopingCall's attributes or one      *)
(* group of assignments to them.                                            *)
(***************************************************************************)
EXTENDS Naturals, FiniteSets

CONSTANTS
    Rest,       \* REST threads that serve GET /node_metadata
    Rounds,     \* pool threads for the rounds
    MaxCalls    \* bound: starts and stops that the node's users ask for

ASSUME LoopAssumption ==
    /\ IsFiniteSet(Rest) /\ IsFiniteSet(Rounds) /\ MaxCalls \in Nat
    /\ Rest \cap Rounds = {} /\ "reactor" \notin Rest \cup Rounds

VARIABLES
    abort,      \* _abort_on_learning_error
    running,    \* running of the LoopingCall
    call,       \* its `call` is set: one of the timers
    timers,     \* delayed calls of the LoopingCall that the reactor holds
    deferred,   \* its `_deferred` is set
    begun,      \* _learning_deferred is set
    stop_now,   \* of the DiscoveryCanceller
    pc,         \* where each thread is
    then,       \* what a round does when handle_learning_errors returns
    calls,      \* starts and stops asked for so far
    past        \* history: what has happened so far

vars == <<abort, running, call, timers, deferred, begun, stop_now, pc, then, calls, past>>
task == <<running, call, timers, deferred>>

-----------------------------------------------------------------------------
Threads == Rest \cup Rounds \cup {"reactor"}

Starting == {"start", "assert", "set", "schedule"}
Stopping == {"halt", "call", "canceller"}
Working  == {"queued", "asking", "failed", "cb", "again", "take", "eb"}

\* "crowded": a start took hold while a timer, a round, a stop or another start
\* was on its way; "undone": a stop cancelled the timer of a start that had
\* taken hold after it; "asserted": an assertion of the LoopingCall failed.
Events == {"crowded", "undone", "asserted"}

\* The types, and the link between LoopingCall and reactor: `call` is one of the
\* timers that have not fired.
TypeOK ==
    /\ abort \in BOOLEAN /\ running \in BOOLEAN /\ deferred \in BOOLEAN
    /\ begun \in BOOLEAN /\ stop_now \in BOOLEAN
    /\ call \in BOOLEAN /\ timers \in Nat /\ (call => timers > 0)
    /\ pc \in [Threads -> {"idle"} \cup Starting \cup Stopping \cup Working]
    /\ then \in [Rounds -> {"cb", "idle"}]
    /\ calls \in 0..MaxCalls
    /\ past \in SUBSET Events

\* Ursula.run has started the loop, or it is a node without discovery.
Init ==
    /\ abort \in BOOLEAN
    /\ running \in BOOLEAN
    /\ call = running /\ deferred = running /\ timers = (IF running THEN 1 ELSE 0)
    /\ begun = FALSE /\ stop_now = FALSE
    /\ pc = [a \in Threads |-> "idle"]
    /\ then = [r \in Rounds |-> "cb"]
    /\ calls = 0
    /\ past = {}

Go(a, place) == pc' = [pc EXCEPT ![a] = place]
Note(e) == past' = past \cup {e}
Active == {r \in Rounds : pc[r] # "idle"}

\* What keeps the loop going: timers, rounds, and timers about to be set.
Chains == timers + Cardinality(Active) + Cardinality({a \in Threads : pc[a] = "schedule"})

-----------------------------------------------------------------------------
(* start_learning_loop and LoopingCall.start, in any thread.               *)

\* GET /node_metadata tests the LoopingCall itself before it calls
\* start_learning_loop; the console calls it, and nothing happens to a running
\* loop.
CallStart(a) ==
    /\ a \in Rest \cup {"reactor"} /\ pc[a] = "idle"
    /\ ~running
    /\ calls < MaxCalls
    /\ calls' = calls + 1
    /\ Go(a, "start")
    /\ UNCHANGED <<abort, task, begun, stop_now, then, past>>

\* Where a thread goes on after start_learning_loop.
After(a) == IF a \in Rounds THEN then[a] ELSE "idle"

StartTest(a) ==
    /\ pc[a] = "start"
    /\ Go(a, IF running THEN After(a) ELSE "assert")
    /\ UNCHANGED <<abort, task, begun, stop_now, then, calls, past>>

\* An AssertionError is a failed request, or the failure of the errback, which
\* the LoopingCall handles in turn.
StartAssert(a) ==
    /\ pc[a] = "assert"
    /\ IF running
       THEN /\ Go(a, IF After(a) = "cb" THEN "eb" ELSE "idle")
            /\ Note("asserted")
       ELSE Go(a, "set") /\ UNCHANGED past
    /\ UNCHANGED <<abort, task, begun, stop_now, then, calls>>

Elsewhere(a) == {b \in Threads \ {a} : pc[b] \in {"assert", "set", "halt", "call"}}

StartSet(a) ==
    /\ pc[a] = "set"
    /\ running' = TRUE /\ deferred' = TRUE
    /\ Go(a, "schedule")
    /\ past' = IF Chains > 0 \/ Elsewhere(a) # {} THEN past \cup {"crowded"} ELSE past
    /\ UNCHANGED <<abort, call, timers, begun, stop_now, then, calls>>

StartSchedule(a) ==
    /\ pc[a] = "schedule"
    /\ timers' = timers + 1 /\ call' = TRUE
    /\ Go(a, After(a))
    /\ UNCHANGED <<abort, running, deferred, begun, stop_now, then, calls, past>>

-----------------------------------------------------------------------------
(* stop_learning_loop and LoopingCall.stop, in the reactor thread.          *)

\* The console, a closed terminal, or Ursula.stop.
CallStop ==
    /\ pc["reactor"] = "idle"
    /\ calls < MaxCalls
    /\ calls' = calls + 1
    /\ Go("reactor", IF running THEN "halt" ELSE "canceller")
    /\ UNCHANGED <<abort, task, begun, stop_now, then, past>>

StopHalt ==
    /\ pc["reactor"] = "halt"
    /\ IF running
       THEN running' = FALSE /\ Go("reactor", "call") /\ UNCHANGED past
       ELSE Go("reactor", "idle") /\ Note("asserted") /\ UNCHANGED running
    /\ UNCHANGED <<abort, call, timers, deferred, begun, stop_now, then, calls>>

\* Seeded fault: the Deferred is fired even if a round is on its way.
StopFiresAlways ==
    /\ pc["reactor"] = "call"
    /\ timers' = (IF call THEN timers - 1 ELSE timers) /\ deferred' = FALSE /\ call' = FALSE
    /\ Go("reactor", "canceller")
    /\ UNCHANGED <<abort, running, begun, stop_now, then, calls, past>>

\* With a timer, stop cancels it and fires the Deferred; without one that is
\* left to the end of the round.
StopCall ==
    /\ pc["reactor"] = "call"
    /\ call' = FALSE
    /\ timers' = (IF call THEN timers - 1 ELSE timers)
    /\ deferred' = (deferred /\ ~call)
    /\ Go("reactor", IF call /\ ~deferred THEN "idle" ELSE "canceller")
    /\ past' = past \cup (IF call /\ running THEN {"undone"} ELSE {})
                    \cup (IF call /\ ~deferred THEN {"asserted"} ELSE {})
    /\ UNCHANGED <<abort, running, begun, stop_now, then, calls>>

\* The DiscoveryCanceller is called if a round was ever begun; its own assertion
\* fails the second time.
StopCanceller ==
    /\ pc["reactor"] = "canceller"
    /\ stop_now' = (stop_now \/ begun)
    /\ Go("reactor", "idle")
    /\ UNCHANGED <<abort, task, begun, then, calls, past>>

-----------------------------------------------------------------------------
(* A round: LoopingCall.__call__ and keep_learning_about_nodes.             *)

\* The reactor makes the Deferred of the round and hands it to the pool.  It does
\* not look at `running`.
Fire(r) ==
    /\ pc["reactor"] = "idle" /\ pc[r] = "idle"
    /\ timers > 0
    /\ timers' = timers - 1 /\ call' = FALSE
    /\ begun' = TRUE
    /\ Go(r, "queued")
    /\ then' = [then EXCEPT ![r] = "cb"]
    /\ UNCHANGED <<abort, running, deferred, stop_now, calls, past>>

\* Seeded fault: the round is not given the canceller.
AskAlways(r) ==
    /\ pc[r] = "queued"
    /\ Go(r, "asking")
    /\ UNCHANGED <<abort, task, begun, stop_now, then, calls, past>>

\* learn_from_teacher_node looks at the canceller before it asks the teacher.
Ask(r) ==
    /\ pc[r] = "queued"
    /\ Go(r, IF stop_now THEN "cb" ELSE "asking")
    /\ UNCHANGED <<abort, task, begun, stop_now, then, calls, past>>

\* The seed nodes could not be loaded, which is a crash: the exception is raised
\* again in the reactor thread, which logs it; the round goes on.
SeedingCrashes(r) ==
    /\ pc[r] = "queued"
    /\ Go(r, "cb")
    /\ UNCHANGED <<abort, task, begun, stop_now, then, calls, past>>

\* An answer, a teacher that is down or invalid, or a cancelled round.
Answered(r) ==
    /\ pc[r] = "asking"
    /\ Go(r, "cb")
    /\ UNCHANGED <<abort, task, begun, stop_now, then, calls, past>>

\* No teacher is known, or any other exception.
RoundRaises(r) ==
    /\ pc[r] \in {"queued", "asking"}
    /\ Go(r, "failed")
    /\ UNCHANGED <<abort, task, begun, stop_now, then, calls, past>>

\* Seeded fault: the failure is handled and the LoopingCall never hears of it.
HandleAndEnd(r) ==
    /\ pc[r] = "failed"
    /\ Go(r, "idle")
    /\ UNCHANGED <<abort, task, begun, stop_now, then, calls, past>>

\* handle_learning_errors swallows the failure and starts a stopped loop.
HandleErrors(r) ==
    /\ pc[r] = "failed"
    /\ Go(r, IF abort \/ running THEN then[r] ELSE "start")
    /\ UNCHANGED <<abort, task, begun, stop_now, then, calls, past>>

\* Seeded fault: the loop goes on without a look at `running`.
CbAlways(r) ==
    /\ pc[r] = "cb"
    /\ Go(r, "again")
    /\ UNCHANGED <<abort, task, begun, stop_now, then, calls, past>>

\* cb of LoopingCall.__call__ tests `running` ...
Cb(r) ==
    /\ pc[r] = "cb"
    /\ Go(r, IF running THEN "again" ELSE "take")
    /\ UNCHANGED <<abort, task, begun, stop_now, then, calls, past>>

\* ... and sets the next timer, ...
CbAgain(r) ==
    /\ pc[r] = "again"
    /\ timers' = timers + 1 /\ call' = TRUE
    /\ Go(r, "idle")
    /\ UNCHANGED <<abort, running, deferred, begun, stop_now, then, calls, past>>

\* ... or fires the Deferred of the loop, which somebody else may have taken.
CbTake(r) ==
    /\ pc[r] = "take"
    /\ deferred' = FALSE
    /\ Go(r, IF deferred THEN "idle" ELSE "eb")
    /\ past' = IF deferred THEN past ELSE past \cup {"asserted"}
    /\ UNCHANGED <<abort, running, call, timers, begun, stop_now, then, calls>>

\* eb of LoopingCall.__call__ fails the Deferred of the loop, whose errback is
\* handle_learning_errors once more; without one its assertion is only logged.
Eb(r) ==
    /\ pc[r] = "eb"
    /\ running' = FALSE /\ deferred' = FALSE
    /\ then' = [then EXCEPT ![r] = "idle"]
    /\ Go(r, IF deferred THEN "failed" ELSE "idle")
    /\ past' = IF deferred THEN past ELSE past \cup {"asserted"}
    /\ UNCHANGED <<abort, call, timers, begun, stop_now, calls>>

-----------------------------------------------------------------------------
Start(a) == StartTest(a) \/ StartAssert(a) \/ StartSet(a) \/ StartSchedule(a)
Stop == StopHalt \/ StopCall \/ StopCanceller
Round(r) ==
    \/ Ask(r) \/ SeedingCrashes(r) \/ Answered(r) \/ RoundRaises(r) \/ HandleErrors(r)
    \/ Cb(r) \/ CbAgain(r) \/ CbTake(r) \/ Eb(r)

Next ==
    \/ \E a \in Threads : CallStart(a) \/ Start(a)
    \/ CallStop \/ Stop
    \/ \E r \in Rounds : Fire(r) \/ Round(r)

Spec == Init /\ [][Next]_vars

\* Threads go on, requests time out, and the reactor fires what is due; nobody
\* has to start or stop the loop.
Fairness ==
    /\ \A a \in Threads : WF_vars(Start(a))
    /\ \A r \in Rounds : WF_vars(Round(r))
    /\ WF_vars(Stop)
    /\ WF_vars(\E r \in Rounds : Fire(r))

FairSpec == Spec /\ Fairness

-----------------------------------------------------------------------------
(* Properties.                                                             *)

\* There is one chain of timers and rounds, and the assertions of the LoopingCall
\* about its own state hold (not running when started, running when stopped, a
\* Deferred to fire), unless start_learning_loop took hold while an earlier chain
\* was still on its way (a request that finds the loop stopped, or a failing round
\* that restarts it) or raced another start or stop: neither stopping during a
\* round nor errors break them.  (With TypeOK, on which it rests.)
SoundUntilCrowded ==
    /\ TypeOK
    /\ "crowded" \notin past => Chains <= 1 /\ "asserted" \notin past

\* A loop that says it is running goes on with another round, whatever happens in
\* its rounds, unless a stop has cancelled the timer of a start that came after
\* it: that one leaves `running` set on a loop nobody will start again.
LearningGoesOn == []<>(~running \/ (\E r \in Rounds : pc[r] = "queued") \/ "undone" \in past)

\* If the loop stays stopped, timers and rounds die out, those of a crowded start
\* too.
StoppedDiesOut == <>[]~running => <>[](Chains = 0)

\* Once stop_learning_loop has reached the canceller, no teacher is asked any
\* more, even if requests or failing rounds keep the loop alive.
QuietAfterStop == [](stop_now => <>[](\A r \in Rounds : pc[r] # "asking"))
=============================================================================
