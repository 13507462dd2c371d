------------------------- MODULE LearningLoopProofs -------------------------
(***************************************************************************)
(* LearningLoop for any number of REST and pool threads and any number of     *)
(* starts and stops: one chain of timers and rounds, and no failed assertion, *)
(* until a start takes hold among others.                                   *)
(***************************************************************************)
EXTENDS LearningLoop, FiniteSetTheorems, TLAPS

-----------------------------------------------------------------------------
(* The inductive invariant.                                                *)

\* The threads that are about to set the timer of a start.
Scheduling == {a \in Threads : pc[a] = "schedule"}

\* A chain has its Deferred: it is taken only by the end of the chain, a round
\* that finds the loop stopped or a stop that cancels the timer.
ChainHasDeferred == Chains >= 1 => deferred

\* What the tests of `running` have found still holds when they are used: a start
\* that has tested it finds the loop stopped, a stop finds it running.
TestsStillHold ==
    /\ \A a \in Threads : pc[a] \in {"assert", "set"} => ~running
    /\ pc["reactor"] = "halt" => running

\* Nobody has got as far as the LoopingCall's own errback.
NoErrback == \A r \in Rounds : pc[r] # "eb"

Uncrowded ==
    "crowded" \notin past =>
        /\ Chains <= 1 /\ "asserted" \notin past
        /\ ChainHasDeferred /\ TestsStillHold /\ NoErrback

IInv == TypeOK /\ Uncrowded

-----------------------------------------------------------------------------
(* Counting the chains.                                                    *)

\* The counts that make up Chains are numbers.
LEMMA ChainsMeans ==
    ASSUME TypeOK
    PROVE  /\ IsFiniteSet(Active) /\ IsFiniteSet(Scheduling)
           /\ Cardinality(Active) \in Nat /\ Cardinality(Scheduling) \in Nat
           /\ Chains = timers + Cardinality(Active) + Cardinality(Scheduling)
           /\ Chains \in Nat
<1>1. IsFiniteSet(Rest \cup Rounds) BY LoopAssumption, FS_Union
<1>2. IsFiniteSet(Threads) BY <1>1, FS_AddElement DEF Threads
<1>3. Active \in SUBSET Rounds /\ Scheduling \in SUBSET Threads BY DEF Active, Scheduling
<1>4. IsFiniteSet(Active) /\ IsFiniteSet(Scheduling) BY <1>2, <1>3, LoopAssumption, FS_Subset
<1>5. Cardinality(Active) \in Nat /\ Cardinality(Scheduling) \in Nat BY <1>4, FS_CardinalityType
<1>6. Chains = timers + Cardinality(Active) + Cardinality(Scheduling) BY DEF Chains, Scheduling
<1> QED BY <1>4, <1>5, <1>6 DEF TypeOK

\* A thread that goes on changes the counts only where it begins or ends a round
\* or the setting of a timer.
LEMMA GoMeans ==
    ASSUME TypeOK, NEW a \in Threads, NEW place, Go(a, place)
    PROVE  /\ pc'[a] = place /\ \A b \in Threads : b # a => pc'[b] = pc[b]
           /\ a \notin Rounds \/ (pc[a] # "idle" /\ place # "idle") =>
                 Cardinality(Active') = Cardinality(Active)
           /\ a \in Rounds /\ pc[a] = "idle" /\ place # "idle" =>
                 Cardinality(Active') = Cardinality(Active) + 1
           /\ a \in Rounds /\ pc[a] # "idle" /\ place = "idle" =>
                 Cardinality(Active') = Cardinality(Active) - 1
           /\ pc[a] # "schedule" /\ place # "schedule" =>
                 Cardinality(Scheduling') = Cardinality(Scheduling)
           /\ pc[a] # "schedule" /\ place = "schedule" =>
                 Cardinality(Scheduling') = Cardinality(Scheduling) + 1
           /\ pc[a] = "schedule" /\ place # "schedule" =>
                 Cardinality(Scheduling') = Cardinality(Scheduling) - 1
<1>0. IsFiniteSet(Active) /\ IsFiniteSet(Scheduling) BY ChainsMeans
<1>1. pc'[a] = place /\ \A b \in Threads : b # a => pc'[b] = pc[b] BY DEF Go, TypeOK
<1>2. Rounds \subseteq Threads BY DEF Threads
<1>3. a \notin Rounds \/ (pc[a] # "idle" /\ place # "idle") => Active' = Active
  BY <1>1, <1>2 DEF Active
<1>4. a \in Rounds /\ pc[a] = "idle" /\ place # "idle" =>
        Active' = Active \cup {a} /\ a \notin Active
  BY <1>1, <1>2 DEF Active
<1>5. a \in Rounds /\ pc[a] # "idle" /\ place = "idle" =>
        Active' = Active \ {a} /\ a \in Active
  BY <1>1, <1>2 DEF Active
<1>6. pc[a] # "schedule" /\ place # "schedule" => Scheduling' = Scheduling
  BY <1>1 DEF Scheduling
<1>7. pc[a] # "schedule" /\ place = "schedule" =>
        Scheduling' = Scheduling \cup {a} /\ a \notin Scheduling
  BY <1>1 DEF Scheduling
<1>8. pc[a] = "schedule" /\ place # "schedule" =>
        Scheduling' = Scheduling \ {a} /\ a \in Scheduling
  BY <1>1 DEF Scheduling
<1>9. /\ \A x : x \notin Active => Cardinality(Active \cup {x}) = Cardinality(Active) + 1
      /\ \A x : x \in Active => Cardinality(Active \ {x}) = Cardinality(Active) - 1
      /\ \A x : x \notin Scheduling => Cardinality(Scheduling \cup {x}) = Cardinality(Scheduling) + 1
      /\ \A x : x \in Scheduling => Cardinality(Scheduling \ {x}) = Cardinality(Scheduling) - 1
  BY <1>0, FS_AddElement, FS_RemoveElement
<1> QED BY <1>1, <1>3, <1>4, <1>5, <1>6, <1>7, <1>8, <1>9

-----------------------------------------------------------------------------
(* The invariant is inductive.                                             *)

\* At most the first timer is there.
LEMMA InitInv == Init => IInv
<1> SUFFICES ASSUME Init PROVE IInv OBVIOUS
<1> USE LoopAssumption DEF Init
<1>1. TypeOK
  <2>1. timers \in Nat /\ (call => timers > 0) OBVIOUS
  <2>2. calls \in 0..MaxCalls OBVIOUS
  <2>3. pc \in [Threads -> {"idle"} \cup Starting \cup Stopping \cup Working] OBVIOUS
  <2> QED BY <2>1, <2>2, <2>3 DEF TypeOK
<1>2. Active = {} /\ Scheduling = {} BY DEF Active, Scheduling, Threads
<1>3. Cardinality({}) = 0 BY FS_EmptySet
<1>4. Chains = timers BY <1>1, <1>2, <1>3, ChainsMeans DEF TypeOK
<1>5. Chains <= 1 /\ ChainHasDeferred BY <1>4 DEF ChainHasDeferred
<1>6. TestsStillHold /\ NoErrback BY DEF TestsStillHold, NoErrback, Threads
<1> QED BY <1>1, <1>5, <1>6 DEF IInv, Uncrowded

\* A start goes on: it sets `running` only if nobody else is about to, and it sets
\* the first timer of a new chain.
LEMMA StartKeeps ==
    ASSUME IInv, NEW a \in Threads, CallStart(a) \/ Start(a)
    PROVE  IInv'
<1> USE LoopAssumption DEF Starting, Stopping, Working, task
<1>0. TypeOK BY DEF IInv
<1>a. Rounds \subseteq Threads /\ "reactor" \in Threads /\ "reactor" \notin Rounds BY DEF Threads
<1>b. a \in Rounds => then[a] \in {"cb", "idle"} BY <1>0 DEF TypeOK
<1>c. /\ Chains = timers + Cardinality(Active) + Cardinality(Scheduling)
      /\ Cardinality(Active) \in Nat /\ Cardinality(Scheduling) \in Nat
  BY <1>0, ChainsMeans
<1>1. TypeOK'
  <2> USE DEF Go, TypeOK, Events
  <2>1. CASE CallStart(a) BY <1>0, <2>1 DEF CallStart
  <2>2. CASE StartTest(a) BY <1>0, <1>b, <2>2 DEF StartTest, After
  <2>3. CASE StartAssert(a) BY <1>0, <2>3 DEF StartAssert, Note
  <2>4. CASE StartSet(a) BY <1>0, <2>4 DEF StartSet
  <2>5. CASE StartSchedule(a) BY <1>0, <1>b, <2>5 DEF StartSchedule, After
  <2> QED BY <2>1, <2>2, <2>3, <2>4, <2>5 DEF Start
<1>d. Chains' = timers' + Cardinality(Active') + Cardinality(Scheduling') BY DEF Chains, Scheduling
<1>2. ASSUME "crowded" \notin past' PROVE Uncrowded'
  <2>0. /\ "crowded" \notin past /\ Chains <= 1 /\ "asserted" \notin past /\ ChainHasDeferred
        /\ TestsStillHold /\ NoErrback
    BY <1>2 DEF IInv, Uncrowded, CallStart, Start, StartTest, StartAssert, StartSet, StartSchedule, Note
  <2>1. CASE CallStart(a)
    <3>1. /\ Go(a, "start") /\ a \notin Rounds /\ pc[a] = "idle"
          /\ UNCHANGED <<running, timers, deferred, past>>
      BY <1>a, <2>1 DEF CallStart
    <3>2. Chains' = Chains BY <1>0, <1>c, <1>d, <3>1, GoMeans
    <3>3. TestsStillHold' /\ NoErrback'
      BY <1>0, <1>a, <2>0, <3>1, GoMeans DEF TestsStillHold, NoErrback
    <3> QED BY <2>0, <3>1, <3>2, <3>3 DEF Uncrowded, ChainHasDeferred
  <2>2. CASE StartTest(a) \/ (StartAssert(a) /\ ~running)
    <3>1. PICK place \in {"assert", "set", "cb", "idle"} :
            /\ Go(a, place) /\ pc[a] \in {"start", "assert"}
            /\ place \in {"assert", "set"} => ~running
            /\ UNCHANGED <<running, timers, deferred, past>>
      BY <1>b, <2>2 DEF StartTest, StartAssert, After
    <3>2. Chains \in Int /\ Chains' \in Int /\ Chains' <= Chains
      BY <1>0, <1>c, <1>d, <3>1, GoMeans DEF TypeOK
    <3>3. TestsStillHold' /\ NoErrback'
      BY <1>0, <1>a, <2>0, <3>1, GoMeans DEF TestsStillHold, NoErrback
    <3> QED BY <2>0, <3>1, <3>2, <3>3 DEF Uncrowded, ChainHasDeferred
  <2>3. CASE StartAssert(a) /\ running BY <2>0, <2>3 DEF StartAssert, TestsStillHold
  <2>4. CASE StartSet(a)
    <3>1. /\ Go(a, "schedule") /\ pc[a] = "set" /\ Chains = 0 /\ Elsewhere(a) = {}
          /\ timers' = timers /\ past' = past /\ deferred' = TRUE /\ running' = TRUE
      BY <1>0, <1>2, <2>4, ChainsMeans DEF StartSet
    <3>2. Cardinality(Active') = Cardinality(Active) BY <1>0, <3>1, GoMeans
    <3>3. Cardinality(Scheduling') = Cardinality(Scheduling) + 1 BY <1>0, <3>1, GoMeans
    <3>4. Chains' = 1 BY <1>0, <1>c, <1>d, <3>1, <3>2, <3>3 DEF TypeOK
    <3>5. TestsStillHold'
      BY <1>0, <1>a, <3>1, GoMeans DEF TestsStillHold, Elsewhere
    <3>6. NoErrback' BY <1>0, <1>a, <2>0, <3>1, GoMeans DEF NoErrback
    <3> QED BY <2>0, <3>1, <3>4, <3>5, <3>6 DEF Uncrowded, ChainHasDeferred
  <2>5. CASE StartSchedule(a)
    <3>1. /\ Go(a, After(a)) /\ pc[a] = "schedule" /\ After(a) \in {"cb", "idle"}
          /\ timers' = timers + 1 /\ UNCHANGED <<running, deferred, past>>
      BY <1>b, <2>5 DEF StartSchedule, After
    <3>2. a \in Scheduling BY <3>1 DEF Scheduling
    <3>3. Cardinality(Scheduling) >= 1 BY <1>0, <1>c, <3>2, ChainsMeans, FS_EmptySet
    <3>4. a \notin Rounds
      <4>1. SUFFICES ASSUME a \in Rounds PROVE FALSE OBVIOUS
      <4>2. a \in Active BY <3>1, <4>1 DEF Active
      <4>3. Cardinality(Active) >= 1 BY <1>0, <1>c, <4>2, ChainsMeans, FS_EmptySet
      <4> QED BY <1>0, <1>c, <2>0, <3>3, <4>3 DEF TypeOK
    <3>5. Chains' = Chains BY <1>0, <1>c, <1>d, <3>1, <3>4, GoMeans DEF TypeOK
    <3>6. TestsStillHold' /\ NoErrback'
      BY <1>0, <1>a, <2>0, <3>1, GoMeans DEF TestsStillHold, NoErrback
    <3> QED BY <2>0, <3>1, <3>5, <3>6 DEF Uncrowded, ChainHasDeferred
  <2> QED BY <2>1, <2>2, <2>3, <2>4, <2>5 DEF Start
<1>3. Uncrowded' BY <1>2 DEF Uncrowded
<1> QED BY <1>1, <1>3 DEF IInv

\* A stop finds the Deferred of the chain whose timer it cancels.
LEMMA StopKeeps == IInv /\ (CallStop \/ Stop) => IInv'
<1> SUFFICES ASSUME IInv, CallStop \/ Stop PROVE IInv' OBVIOUS
<1> USE LoopAssumption DEF Starting, Stopping, Working, task
<1>0. TypeOK BY DEF IInv
<1>a. Rounds \subseteq Threads /\ "reactor" \in Threads /\ "reactor" \notin Rounds BY DEF Threads
<1>c. /\ Chains = timers + Cardinality(Active) + Cardinality(Scheduling)
      /\ Cardinality(Active) \in Nat /\ Cardinality(Scheduling) \in Nat
  BY <1>0, ChainsMeans
<1>d. Chains' = timers' + Cardinality(Active') + Cardinality(Scheduling') BY DEF Chains, Scheduling
<1>1. TypeOK'
  <2> USE DEF Go, TypeOK, Events
  <2>1. CASE CallStop BY <1>0, <1>a, <2>1 DEF CallStop
  <2>2. CASE StopHalt BY <1>0, <1>a, <2>2 DEF StopHalt, Note
  <2>3. CASE StopCall
    <3>0. timers \in Nat /\ (call => timers > 0) BY <1>0
    <3>a. timers' \in Nat
      <4>1. CASE call BY <2>3, <3>0, <4>1 DEF StopCall
      <4>2. CASE ~call BY <2>3, <3>0, <4>2 DEF StopCall
      <4> QED BY <4>1, <4>2
    <3>1. ~call' /\ call' \in BOOLEAN /\ deferred' \in BOOLEAN
      BY <1>0, <2>3 DEF StopCall
    <3>2. past' \in SUBSET Events BY <1>0, <2>3 DEF StopCall
    <3>3. pc' \in [Threads -> {"idle"} \cup Starting \cup Stopping \cup Working]
      BY <1>0, <1>a, <2>3 DEF StopCall
    <3> QED BY <1>0, <2>3, <3>a, <3>1, <3>2, <3>3 DEF StopCall
  <2>4. CASE StopCanceller BY <1>0, <1>a, <2>4 DEF StopCanceller
  <2> QED BY <2>1, <2>2, <2>3, <2>4 DEF Stop
<1>2. ASSUME "crowded" \notin past' PROVE Uncrowded'
  <2>0. /\ "crowded" \notin past /\ Chains <= 1 /\ "asserted" \notin past /\ ChainHasDeferred
        /\ TestsStillHold /\ NoErrback
    BY <1>2 DEF IInv, Uncrowded, CallStop, Stop, StopHalt, StopCall, StopCanceller, Note
  <2>1. PICK place \in {"halt", "call", "canceller", "idle"} : Go("reactor", place)
    BY DEF CallStop, Stop, StopHalt, StopCall, StopCanceller
  <2>2. pc["reactor"] # "schedule" BY DEF CallStop, Stop, StopHalt, StopCall, StopCanceller
  <2>3. NoErrback' BY <1>0, <1>a, <2>0, <2>1, GoMeans DEF NoErrback
  <2>4. /\ Cardinality(Active') = Cardinality(Active)
        /\ Cardinality(Scheduling') = Cardinality(Scheduling)
    BY <1>0, <1>a, <2>1, <2>2, GoMeans
  <2>5. CASE CallStop
    <3>1. Chains' = Chains BY <1>c, <1>d, <2>4, <2>5 DEF CallStop
    <3>2. TestsStillHold' BY <1>0, <1>a, <2>0, <2>5, GoMeans DEF CallStop, TestsStillHold
    <3> QED BY <2>0, <2>3, <2>5, <3>1, <3>2 DEF CallStop, Uncrowded, ChainHasDeferred
  <2>6. CASE StopHalt
    <3>0. /\ Go("reactor", "call") /\ running' = FALSE /\ UNCHANGED <<timers, deferred, past>>
      BY <2>0, <2>6 DEF StopHalt, TestsStillHold
    <3>1. Chains' = Chains BY <1>c, <1>d, <2>4, <3>0
    <3>2. TestsStillHold' BY <1>0, <1>a, <3>0, GoMeans DEF TestsStillHold
    <3> QED BY <2>0, <2>3, <3>0, <3>1, <3>2 DEF Uncrowded, ChainHasDeferred
  <2>7. CASE StopCall
    <3>1. call => Chains = 1 /\ deferred
      BY <1>0, <1>c, <2>0 DEF TypeOK, ChainHasDeferred
    <3>2. Go("reactor", "canceller") /\ running' = running /\ "asserted" \notin past'
      BY <2>0, <2>7, <3>1 DEF StopCall
    <3>3. Chains' \in Int /\ Chains' <= 1 /\ (Chains' >= 1 => Chains >= 1 /\ ~call)
      BY <1>0, <1>c, <1>d, <2>0, <2>4, <2>7, <3>1 DEF StopCall, TypeOK
    <3>4. ChainHasDeferred' BY <2>0, <2>7, <3>3 DEF StopCall, ChainHasDeferred
    <3>5. TestsStillHold' BY <1>0, <1>a, <2>0, <3>2, GoMeans DEF TestsStillHold
    <3> QED BY <2>3, <3>2, <3>3, <3>4, <3>5 DEF Uncrowded
  <2>8. CASE StopCanceller
    <3>0. Go("reactor", "idle") /\ UNCHANGED <<running, timers, deferred, past>>
      BY <2>8 DEF StopCanceller
    <3>1. Chains' = Chains BY <1>c, <1>d, <2>4, <3>0
    <3>2. TestsStillHold' BY <1>0, <1>a, <2>0, <3>0, GoMeans DEF TestsStillHold
    <3> QED BY <2>0, <2>3, <3>0, <3>1, <3>2 DEF Uncrowded, ChainHasDeferred
  <2> QED BY <2>5, <2>6, <2>7, <2>8 DEF Stop
<1>3. Uncrowded' BY <1>2 DEF Uncrowded
<1> QED BY <1>1, <1>3 DEF IInv

\* A round takes the place of its timer, and the next timer or nothing takes the
\* place of the round; it finds a Deferred when it ends the chain.
LEMMA RoundKeeps ==
    ASSUME IInv, NEW r \in Rounds, Fire(r) \/ Round(r)
    PROVE  IInv'
<1> USE LoopAssumption DEF Starting, Stopping, Working, task
<1>0. TypeOK BY DEF IInv
<1>a. Rounds \subseteq Threads /\ r \in Threads /\ r # "reactor" BY DEF Threads
<1>b. then[r] \in {"cb", "idle"} BY <1>0 DEF TypeOK
<1>c. /\ Chains = timers + Cardinality(Active) + Cardinality(Scheduling)
      /\ Cardinality(Active) \in Nat /\ Cardinality(Scheduling) \in Nat
  BY <1>0, ChainsMeans
<1>d. Chains' = timers' + Cardinality(Active') + Cardinality(Scheduling') BY DEF Chains, Scheduling
<1>1. TypeOK'
  <2> USE DEF Go, TypeOK, Events
  <2>1. CASE Fire(r)
    <3>0. timers \in Nat BY <1>0
    <3>a. timers' \in Nat BY <2>1, <3>0 DEF Fire
    <3>1. ~call' /\ call' \in BOOLEAN BY <2>1 DEF Fire
    <3>2. then' \in [Rounds -> {"cb", "idle"}] BY <1>0, <2>1 DEF Fire
    <3>3. pc' \in [Threads -> {"idle"} \cup Starting \cup Stopping \cup Working]
      BY <1>0, <1>a, <2>1 DEF Fire
    <3> QED BY <1>0, <2>1, <3>a, <3>1, <3>2, <3>3 DEF Fire
  <2>2. CASE Ask(r) \/ SeedingCrashes(r) \/ Answered(r) \/ RoundRaises(r) \/ Cb(r)
    <3>1. PICK place \in Working : Go(r, place)
      BY <2>2 DEF Ask, SeedingCrashes, Answered, RoundRaises, Cb
    <3>2. UNCHANGED <<abort, task, begun, stop_now, then, calls, past>>
      BY <2>2 DEF Ask, SeedingCrashes, Answered, RoundRaises, Cb
    <3>3. pc' \in [Threads -> {"idle"} \cup Starting \cup Stopping \cup Working]
      BY <1>0, <1>a, <3>1
    <3> QED BY <1>0, <3>2, <3>3
  <2>3. CASE HandleErrors(r) BY <1>0, <1>a, <1>b, <2>3 DEF HandleErrors
  <2>4. CASE CbAgain(r) BY <1>0, <1>a, <2>4 DEF CbAgain
  <2>5. CASE CbTake(r) BY <1>0, <1>a, <2>5 DEF CbTake
  <2>6. CASE Eb(r) BY <1>0, <1>a, <2>6 DEF Eb
  <2> QED BY <2>1, <2>2, <2>3, <2>4, <2>5, <2>6 DEF Round
<1>2. ASSUME "crowded" \notin past' PROVE Uncrowded'
  <2>0. /\ "crowded" \notin past /\ Chains <= 1 /\ "asserted" \notin past /\ ChainHasDeferred
        /\ TestsStillHold /\ NoErrback
    BY <1>2 DEF IInv, Uncrowded, Fire, Round, Ask, SeedingCrashes, Answered, RoundRaises, HandleErrors,
                Cb, CbAgain, CbTake, Eb
  <2>1. ASSUME NEW place \in {"idle", "queued", "asking", "failed", "cb", "again", "take", "start"},
               Go(r, place), running' = running
        PROVE  TestsStillHold' /\ NoErrback'
    <3>1. pc'[r] = place /\ \A b \in Threads : b # r => pc'[b] = pc[b]
      BY <1>0, <1>a, <2>1, GoMeans
    <3>2. place \notin {"assert", "set", "halt", "eb"} BY <2>1
    <3>3. NoErrback' BY <1>a, <2>0, <3>1, <3>2 DEF NoErrback
    <3>4. pc'["reactor"] = pc["reactor"] BY <1>a, <3>1 DEF Threads
    <3>5. ASSUME NEW b \in Threads, pc'[b] \in {"assert", "set"} PROVE ~running'
      BY <2>0, <2>1, <3>1, <3>2, <3>5 DEF TestsStillHold
    <3> QED BY <2>0, <2>1, <3>3, <3>4, <3>5 DEF TestsStillHold
  <2>2. CASE Fire(r)
    <3>0. /\ Go(r, "queued") /\ pc[r] = "idle" /\ timers' = timers - 1
          /\ UNCHANGED <<running, deferred, past>>
      BY <2>2 DEF Fire
    <3>1. Chains' = Chains BY <1>0, <1>a, <1>c, <1>d, <3>0, GoMeans DEF TypeOK
    <3> QED BY <2>0, <2>1, <3>0, <3>1 DEF Uncrowded, ChainHasDeferred
  <2>3. CASE Ask(r) \/ SeedingCrashes(r) \/ Answered(r) \/ RoundRaises(r) \/ HandleErrors(r) \/ Cb(r)
    <3>0. PICK place \in {"idle", "asking", "failed", "cb", "again", "take", "start"} :
            /\ Go(r, place) /\ pc[r] \in {"queued", "asking", "failed", "cb"}
            /\ UNCHANGED <<timers, running, deferred, past>>
      BY <1>b, <2>3 DEF Ask, SeedingCrashes, Answered, RoundRaises, HandleErrors, Cb
    <3>1. Chains \in Int /\ Chains' \in Int /\ Chains' <= Chains
      BY <1>0, <1>a, <1>c, <1>d, <3>0, GoMeans DEF TypeOK
    <3> QED BY <2>0, <2>1, <3>0, <3>1 DEF Uncrowded, ChainHasDeferred
  <2>4. CASE CbAgain(r)
    <3>0. /\ Go(r, "idle") /\ pc[r] = "again" /\ timers' = timers + 1
          /\ UNCHANGED <<running, deferred, past>>
      BY <2>4 DEF CbAgain
    <3>1. Chains' = Chains BY <1>0, <1>a, <1>c, <1>d, <3>0, GoMeans DEF TypeOK
    <3> QED BY <2>0, <2>1, <3>0, <3>1 DEF Uncrowded, ChainHasDeferred
  <2>5. CASE CbTake(r)
    <3>1. r \in Active BY <2>5 DEF CbTake, Active
    <3>2. Cardinality(Active) >= 1 BY <1>0, <1>c, <3>1, ChainsMeans, FS_EmptySet
    <3>3. Chains >= 1 /\ deferred BY <1>0, <1>c, <2>0, <3>2 DEF TypeOK, ChainHasDeferred
    <3>4. /\ Go(r, "idle") /\ pc[r] = "take" /\ UNCHANGED <<timers, running, past>>
      BY <2>5, <3>3 DEF CbTake
    <3>5. Chains' \in Int /\ Chains' = Chains - 1
      BY <1>0, <1>a, <1>c, <1>d, <3>4, GoMeans DEF TypeOK
    <3>6. Chains' <= 0 BY <1>0, <1>c, <2>0, <3>5 DEF TypeOK
    <3> QED BY <2>0, <2>1, <3>4, <3>5, <3>6 DEF Uncrowded, ChainHasDeferred
  <2>6. CASE Eb(r) BY <2>0, <2>6 DEF Eb, NoErrback
  <2> QED BY <2>2, <2>3, <2>4, <2>5, <2>6 DEF Round
<1>3. Uncrowded' BY <1>2 DEF Uncrowded
<1> QED BY <1>1, <1>3 DEF IInv

\* Every step keeps the invariant.
LEMMA NextKeeps == IInv /\ [Next]_vars => IInv'
<1> SUFFICES ASSUME IInv, [Next]_vars PROVE IInv' OBVIOUS
<1>1. CASE Next BY <1>1, StartKeeps, StopKeeps, RoundKeeps DEF Next
<1>2. CASE UNCHANGED vars
  <2> USE <1>2 DEF vars
  <2>1. TypeOK' BY DEF IInv, TypeOK
  <2>2. Chains' = Chains BY DEF Chains, Active
  <2> QED BY <2>1, <2>2 DEF IInv, Uncrowded, ChainHasDeferred, TestsStillHold, NoErrback
<1> QED BY <1>1, <1>2

\* The invariant holds in every behaviour.
LEMMA InvHolds == Spec => []IInv
BY InitInv, NextKeeps, PTL DEF Spec

-----------------------------------------------------------------------------
(* The theorem.                                                            *)

\* Stopping the loop during a round, failing rounds and any interleaving of REST
\* threads, pool threads and reactor leave one chain of timers and rounds, and the
\* assertions of the LoopingCall true, as long as no start takes hold among others.
THEOREM LoopIsSound == Spec => []SoundUntilCrowded
<1>1. IInv => SoundUntilCrowded BY DEF IInv, Uncrowded, SoundUntilCrowded
<1> QED BY <1>1, InvHolds, PTL
=============================================================================
