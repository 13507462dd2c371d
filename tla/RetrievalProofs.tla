--------------------------- MODULE RetrievalProofs ---------------------------
(***************************************************************************)
(* Retrieval for any number of Ursulas, capsules and attempts and for every   *)
(* threshold: no capsule is sent to an Ursula twice, a pool that reached its  *)
(* target makes every kit decryptable, and a retrieval that falls short has   *)
(* asked everybody it could.                                                *)
(***************************************************************************)
EXTENDS Retrieval, FiniteSetTheorems, TLAPS

-----------------------------------------------------------------------------
(* The inductive invariant.                                                *)

\* A call of retrieve is between its plan and its results.
InCall == phase \in {"pool", "join", "decide"}

\* An Ursula is on the list, at work, reported or counted, never two of these.
OnePlaceEach ==
    /\ todo \cap (pool.working \cup pool.reported \cup pool.succ) = {}
    /\ pool.working \cap (pool.reported \cup pool.succ) = {}
    /\ pool.reported \cap pool.succ = {}

\* Nothing is left of a pool that was joined but unprocessed reports.
JoinedIsQuiet ==
    /\ phase \notin {"pool", "join"} => pool.working = {}
    /\ phase # "pool" => pool.outcome # "open" \/ pool.reported = {}

\* The plan is that of the kits, and its results are those of the Ursulas that
\* have worked for it; each of them has delivered all its capsules.
PlanIsOfKits ==
    InCall =>
        /\ raised = "none"
        /\ \A u \in Ursulas : orders[u] = WorkOrder(u)
        /\ \A u \in Ursulas, c \in Capsules : u \in results[c] =>
              c \in orders[u] /\ u \notin todo \cup pool.working
        /\ \A u \in successes \cup pool.succ \cup pool.reported, c \in Capsules :
              c \in orders[u] => u \in results[c]

\* The present pool has to find what the threshold lacks, among other Ursulas than
\* the successes of the pool before.
PoolAddsUp ==
    /\ InCall => successes \cap todo = {}
    /\ phase = "pool" =>
          /\ successes \cap (pool.working \cup pool.reported \cup pool.succ) = {}
          /\ pool.target = Threshold - Cardinality(successes)
          /\ pool.outcome = "open" => Cardinality(pool.succ) < pool.target
          /\ pool.outcome = "reached" => Cardinality(pool.succ) = pool.target
    /\ phase \in {"join", "decide"} =>
          pool.outcome # "open" /\ (pool.outcome = "reached" => Enough)

\* The producer stops by itself only when the list is empty.
StopsWhenEmpty ==
    InCall =>
        /\ pool.outcome = "open" /\ ~pool.producing => todo = {}
        /\ pool.outcome = "out_of_values" => todo = {} /\ pool.working = {}

IInv ==
    /\ TypeOK /\ OnePlaceEach /\ JoinedIsQuiet /\ PlanIsOfKits /\ PoolAddsUp /\ StopsWhenEmpty
    /\ ReachedMeansDecryptable

-----------------------------------------------------------------------------
(* Facts about the pool and its sets.                                      *)

\* Sets of Ursulas are finite.
LEMMA SetsOfUrsulas ==
    ASSUME NEW S \in SUBSET Ursulas
    PROVE  /\ IsFiniteSet(S) /\ Cardinality(S) \in Nat
           /\ \A T \in SUBSET S : Cardinality(T) \in Nat /\ Cardinality(T) <= Cardinality(S)
           /\ \A u : u \notin S => Cardinality(S \cup {u}) = Cardinality(S) + 1
<1>1. IsFiniteSet(S) /\ Cardinality(S) \in Nat
  BY UrsulasAssumption, FS_Subset, FS_CardinalityType
<1>2. ASSUME NEW T \in SUBSET S PROVE Cardinality(T) \in Nat /\ Cardinality(T) <= Cardinality(S)
  BY <1>1, FS_Subset, FS_CardinalityType
<1>3. ASSUME NEW u, u \notin S PROVE Cardinality(S \cup {u}) = Cardinality(S) + 1
  BY <1>1, <1>3, FS_AddElement
<1> QED BY <1>1, <1>2, <1>3

\* Two disjoint sets of Ursulas: the successes of two pools add up.
LEMMA DisjointAdd ==
    ASSUME NEW S \in SUBSET Ursulas, NEW T \in SUBSET Ursulas, S \cap T = {}
    PROVE  Cardinality(S \cup T) = Cardinality(S) + Cardinality(T)
<1>1. /\ IsFiniteSet(S) /\ IsFiniteSet(T) /\ Cardinality(S) \in Nat /\ Cardinality(T) \in Nat
  BY SetsOfUrsulas
<1>2. Cardinality(S \cup T) = Cardinality(S) + Cardinality(T) - Cardinality(S \cap T)
  BY <1>1, FS_Union
<1>3. Cardinality(S \cap T) = 0 BY FS_EmptySet
<1> QED BY <1>1, <1>2, <1>3

\* A new pool has nobody at work and nothing counted.
LEMMA StartPoolMeans ==
    ASSUME NEW number \in 1..2, NEW target \in 0..Threshold
    PROVE  /\ StartPool(number, target) \in Pools
           /\ StartPool(number, target).number = number
           /\ StartPool(number, target).target = target
           /\ StartPool(number, target).working = {} /\ StartPool(number, target).reported = {}
           /\ StartPool(number, target).succ = {} /\ StartPool(number, target).producing = TRUE
           /\ StartPool(number, target).outcome = "open"
<1> DEFINE new == StartPool(number, target)
<1>1. Threshold \in Nat
  BY ThresholdAssumption, UrsulasAssumption, FS_CardinalityType
<1>2. /\ NoPool \in Pools /\ NoPool.working = {} /\ NoPool.reported = {} /\ NoPool.succ = {}
      /\ NoPool.quit = FALSE /\ NoPool.outcome = "open"
  BY <1>1 DEF NoPool, Pools, Outcomes
<1>3. new = [NoPool EXCEPT !.number = number, !.target = target, !.producing = TRUE]
  BY DEF StartPool
<1> HIDE DEF new
<1>4. new \in Pools
  <2>1. number \in 0..2 /\ TRUE \in BOOLEAN OBVIOUS
  <2>2. \A n \in 0..2, t \in 0..Threshold, b \in BOOLEAN :
          [NoPool EXCEPT !.number = n, !.target = t, !.producing = b] \in Pools
    BY <1>2 DEF Pools
  <2> QED BY <1>3, <2>1, <2>2, Zenon
<1>5. /\ new.number = number /\ new.target = target
      /\ new.working = {} /\ new.reported = {} /\ new.succ = {} /\ new.outcome = "open"
  BY <1>1, <1>2, <1>3 DEF Pools
<1>6. new.producing = TRUE BY <1>2, <1>3 DEF Pools
<1> QED BY <1>4, <1>5, <1>6 DEF new

-----------------------------------------------------------------------------
(* The invariant is inductive.                                             *)

\* No call has been made; the kits may hold fragments.
LEMMA InitInv == Init => IInv
<1> SUFFICES ASSUME Init PROVE IInv OBVIOUS
<1>1. Threshold \in Nat
  BY ThresholdAssumption, UrsulasAssumption, FS_CardinalityType
<1>2. /\ pool \in Pools /\ pool.working = {} /\ pool.reported = {} /\ pool.succ = {}
      /\ pool.outcome = "open"
  BY <1>1 DEF Init, NoPool, Pools, Outcomes
<1>3. TypeOK
  BY <1>2, AttemptsAssumption DEF Init, TypeOK, Phases, Exceptions, NoFrags, Kits
<1> QED BY <1>2, <1>3 DEF Init, IInv, OnePlaceEach, JoinedIsQuiet, PlanIsOfKits, PoolAddsUp,
                    StopsWhenEmpty, ReachedMeansDecryptable, InCall

\* A new call makes a new plan from the kits, or ends before it has one.
LEMMA CallKeeps == IInv /\ Call => IInv'
<1> SUFFICES ASSUME IInv, Call PROVE IInv' OBVIOUS
<1>0. TypeOK /\ attempts < MaxAttempts BY DEF IInv, Call, Retrieve, UrsulasUnknown
<1>1. Threshold \in Nat \ {0} /\ Threshold \in 0..Threshold
  BY ThresholdAssumption, UrsulasAssumption, FS_CardinalityType
<1>2. CASE Retrieve
  <2>1. /\ pool' \in Pools /\ pool'.target = Threshold
        /\ pool'.working = {} /\ pool'.reported = {} /\ pool'.succ = {}
        /\ pool'.producing = TRUE /\ pool'.outcome = "open"
    <3>1. pool' = StartPool(1, Threshold) /\ 1 \in 1..2 BY <1>2 DEF Retrieve
    <3>2. pool' \in Pools /\ pool'.target = Threshold BY <1>1, <3>1, StartPoolMeans
    <3>3. pool'.working = {} /\ pool'.reported = {} /\ pool'.succ = {}
      BY <1>1, <3>1, StartPoolMeans
    <3>4. pool'.producing = TRUE BY <1>1, <3>1, StartPoolMeans
    <3>5. pool'.outcome = "open" BY <3>1 DEF StartPool, NoPool
    <3> QED BY <3>2, <3>3, <3>4, <3>5
  <2>2. TypeOK'
    BY <1>0, <1>2, <2>1, AttemptsAssumption
       DEF Retrieve, TypeOK, Phases, Exceptions, NoFrags, Kits, WorkOrder
  <2>3. Cardinality({}) = 0 BY FS_EmptySet
  <2>4. PlanIsOfKits'
    <3>1. \A u \in Ursulas : orders'[u] = WorkOrder(u)' BY <1>2 DEF Retrieve, WorkOrder
    <3> QED BY <1>2, <2>1, <3>1 DEF Retrieve, PlanIsOfKits, NoFrags
  <2>5. PoolAddsUp'
    <3>1. /\ phase' = "pool" /\ successes' = {} /\ Cardinality(successes') = 0
          /\ Cardinality(pool'.succ) = 0
      BY <1>2, <2>1, <2>3 DEF Retrieve
    <3> QED BY <1>1, <2>1, <3>1 DEF PoolAddsUp
  <2> QED BY <1>2, <2>1, <2>2, <2>4, <2>5
          DEF Retrieve, IInv, OnePlaceEach, JoinedIsQuiet, StopsWhenEmpty, ReachedMeansDecryptable
<1>3. CASE UrsulasUnknown
  <2>1. TypeOK' BY <1>0, <1>3, AttemptsAssumption DEF UrsulasUnknown, planVars, TypeOK, Phases, Exceptions
  <2> QED BY <1>3, <2>1
          DEF UrsulasUnknown, planVars, IInv, OnePlaceEach, JoinedIsQuiet, PlanIsOfKits, PoolAddsUp,
              StopsWhenEmpty, ReachedMeansDecryptable, InCall
<1> QED BY <1>2, <1>3 DEF Call

\* What the producer thread does: the values go from the list to the workers.
LEMMA ProducerKeeps == IInv /\ (DrawBatch \/ DrawNothing) => IInv'
<1> SUFFICES ASSUME IInv, DrawBatch \/ DrawNothing PROVE IInv' OBVIOUS
<1>0. /\ TypeOK /\ phase = "pool" /\ pool.producing = TRUE
      /\ UNCHANGED <<kits, attempts, phase, raised, orders, results, successes>>
  BY DEF IInv, TypeOK, Pools, DrawBatch, DrawNothing, planVars
<1>1. \A u \in Ursulas : WorkOrder(u)' = WorkOrder(u) BY <1>0 DEF WorkOrder
<1>2. CASE DrawBatch
  <2>1. PICK B \in SUBSET todo : todo' = todo \ B /\ pool' = [pool EXCEPT !.working = @ \cup B]
    BY <1>2 DEF DrawBatch
  <2>2. /\ pool' \in Pools /\ pool'.working = pool.working \cup B
        /\ pool'.reported = pool.reported /\ pool'.succ = pool.succ /\ pool'.target = pool.target
        /\ pool'.outcome = pool.outcome /\ pool'.producing = pool.producing
        /\ pool'.number = pool.number
    BY <1>0, <2>1 DEF TypeOK, Pools
  <2>3. TypeOK' BY <1>0, <2>1, <2>2 DEF TypeOK
  <2>4. OnePlaceEach' BY <2>1, <2>2 DEF IInv, OnePlaceEach
  <2>5. PlanIsOfKits' BY <1>0, <1>1, <2>1, <2>2 DEF IInv, PlanIsOfKits, InCall
  <2>6. PoolAddsUp' BY <1>0, <2>1, <2>2 DEF IInv, PoolAddsUp, InCall
  <2>7. StopsWhenEmpty'
    <3>1. pool.outcome = "open" BY <1>2 DEF DrawBatch
    <3> QED BY <1>0, <2>2, <3>1 DEF StopsWhenEmpty
  <2> QED BY <1>0, <2>3, <2>4, <2>5, <2>6, <2>7 DEF IInv, JoinedIsQuiet, ReachedMeansDecryptable
<1>3. CASE DrawNothing
  <2>1. /\ pool' \in Pools /\ pool'.working = pool.working
        /\ pool'.reported = pool.reported /\ pool'.succ = pool.succ /\ pool'.target = pool.target
        /\ pool'.outcome = pool.outcome /\ pool'.producing = FALSE
        /\ pool'.number = pool.number /\ todo' = todo
    BY <1>0, <1>3 DEF TypeOK, Pools, DrawNothing, planVars
  <2>2. TypeOK' BY <1>0, <2>1 DEF TypeOK
  <2>3. OnePlaceEach' BY <2>1 DEF IInv, OnePlaceEach
  <2>4. PlanIsOfKits' BY <1>0, <1>1, <2>1 DEF IInv, PlanIsOfKits, InCall
  <2>5. PoolAddsUp' BY <1>0, <2>1 DEF IInv, PoolAddsUp, InCall
  <2>6. StopsWhenEmpty'
    <3>1. pool.outcome = "open" => Cardinality(pool.succ) < pool.target BY <1>0 DEF IInv, PoolAddsUp
    <3>2. pool.target <= Threshold /\ Threshold \in Nat /\ pool.target \in Nat
      BY <1>0, ThresholdAssumption, UrsulasAssumption, FS_CardinalityType DEF TypeOK, Pools
    <3>3. Cardinality(pool.succ) \in Nat BY <1>0, SetsOfUrsulas DEF TypeOK, Pools
    <3>4. pool.outcome = "open" => todo = {} BY <1>3, <3>1, <3>2, <3>3 DEF DrawNothing, Wanted
    <3> QED BY <1>0, <2>1, <3>4 DEF IInv, StopsWhenEmpty, InCall
  <2> QED BY <1>0, <2>2, <2>3, <2>4, <2>5, <2>6 DEF IInv, JoinedIsQuiet, ReachedMeansDecryptable
<1> QED BY <1>2, <1>3

\* A worker that re-encrypts gives a fragment for each of its capsules, and neither
\* the kits nor the plan had one from this Ursula.
LEMMA WorkerKeeps ==
    ASSUME IInv, NEW u \in Ursulas, WorkerSucceeds(u) \/ WorkerFails(u) \/ SubmitRaises(u)
    PROVE  IInv'
<1>0. /\ TypeOK /\ u \in pool.working /\ phase \in {"pool", "join"}
      /\ UNCHANGED <<kits, attempts, phase, raised, orders, todo, successes>>
  BY DEF IInv, JoinedIsQuiet, WorkerSucceeds, WorkerFails, SubmitRaises, planVars
<1>1. \A v \in Ursulas : WorkOrder(v)' = WorkOrder(v) BY <1>0 DEF WorkOrder
<1>2. CASE WorkerSucceeds(u)
  <2>1. /\ pool' \in Pools /\ pool'.working = pool.working \ {u}
        /\ pool'.reported = pool.reported \cup {u} /\ pool'.succ = pool.succ
        /\ pool'.target = pool.target /\ pool'.outcome = pool.outcome
        /\ pool'.producing = pool.producing /\ pool'.number = pool.number
    BY <1>0, <1>2 DEF TypeOK, Pools, WorkerSucceeds
  <2>2. /\ results' \in Kits
        /\ \A c \in Capsules :
              results'[c] = IF c \in orders[u] THEN results[c] \cup {u} ELSE results[c]
    BY <1>0, <1>2 DEF WorkerSucceeds, Update, TypeOK, Kits
  <2>3. TypeOK' BY <1>0, <2>1, <2>2 DEF TypeOK
  <2>4. OnePlaceEach' BY <1>0, <2>1 DEF IInv, OnePlaceEach
  <2>5. JoinedIsQuiet' BY <1>0, <2>1 DEF IInv, JoinedIsQuiet, PoolAddsUp
  <2>6. PlanIsOfKits'
    <3>1. u \notin todo BY <1>0 DEF IInv, OnePlaceEach
    <3> QED BY <1>0, <1>1, <2>1, <2>2, <3>1 DEF IInv, PlanIsOfKits, InCall, TypeOK, Kits
  <2>7. PoolAddsUp' BY <1>0, <2>1 DEF IInv, PoolAddsUp, InCall, Enough
  <2>8. StopsWhenEmpty' BY <1>0, <2>1 DEF IInv, StopsWhenEmpty, InCall
  <2>9. ReachedMeansDecryptable' BY <1>0 DEF ReachedMeansDecryptable
  <2> QED BY <2>3, <2>4, <2>5, <2>6, <2>7, <2>8, <2>9 DEF IInv
<1>3. CASE WorkerFails(u) \/ SubmitRaises(u)
  <2>1. /\ pool' \in Pools /\ pool'.working = pool.working \ {u}
        /\ pool'.reported = pool.reported /\ pool'.succ = pool.succ
        /\ pool'.target = pool.target /\ pool'.outcome = pool.outcome
        /\ pool'.producing = pool.producing \/ pool.outcome = "reached"
        /\ pool'.number = pool.number /\ results' = results
    BY <1>0, <1>3 DEF TypeOK, Pools, WorkerFails, SubmitRaises
  <2>2. TypeOK' BY <1>0, <2>1 DEF TypeOK
  <2>3. OnePlaceEach' BY <2>1, <1>0 DEF IInv, OnePlaceEach
  <2>4. JoinedIsQuiet' BY <1>0, <2>1 DEF IInv, JoinedIsQuiet
  <2>5. PlanIsOfKits' BY <1>0, <1>1, <2>1 DEF IInv, PlanIsOfKits, InCall
  <2>6. PoolAddsUp' BY <1>0, <2>1 DEF IInv, PoolAddsUp, InCall, Enough
  <2>7. StopsWhenEmpty' BY <1>0, <2>1 DEF IInv, StopsWhenEmpty, InCall
  <2>8. ReachedMeansDecryptable' BY <1>0 DEF ReachedMeansDecryptable
  <2> QED BY <2>2, <2>3, <2>4, <2>5, <2>6, <2>7, <2>8 DEF IInv
<1> QED BY <1>2, <1>3

\* The processor counts each success once, so that the target is not passed over.
LEMMA ProcessKeeps ==
    ASSUME IInv, NEW u \in Ursulas, ProcessSuccess(u)
    PROVE  IInv'
<1>0. /\ TypeOK /\ u \in pool.reported /\ pool.outcome # "reached"
      /\ UNCHANGED <<kits, attempts, phase, raised, orders, todo, results, successes>>
  BY DEF IInv, ProcessSuccess, planVars
<1>1. \A v \in Ursulas : WorkOrder(v)' = WorkOrder(v) BY <1>0 DEF WorkOrder
<1> DEFINE succ == pool.succ \cup {u}
           outcome == IF pool.outcome = "open" /\ Cardinality(succ) = pool.target
                      THEN "reached" ELSE pool.outcome
<1>2. pool' = [pool EXCEPT !.reported = pool.reported \ {u}, !.succ = succ, !.outcome = outcome]
  BY DEF ProcessSuccess
<1>3. outcome \in Outcomes /\ succ \in SUBSET Ursulas BY <1>0 DEF TypeOK, Pools, Outcomes
<1> HIDE DEF succ, outcome
<1>4. /\ pool' \in Pools /\ pool'.working = pool.working
      /\ pool'.reported = pool.reported \ {u} /\ pool'.succ = succ /\ pool'.outcome = outcome
      /\ pool'.target = pool.target /\ pool'.producing = pool.producing
      /\ pool'.number = pool.number
  BY <1>0, <1>2, <1>3 DEF TypeOK, Pools
<1>5. pool.outcome = "open" => phase = "pool" BY <1>0 DEF IInv, JoinedIsQuiet
<1>6. u \notin pool.succ BY <1>0 DEF IInv, OnePlaceEach
<1>7. /\ Cardinality(succ) = Cardinality(pool.succ) + 1 /\ Cardinality(pool.succ) \in Nat
      /\ pool.target \in Int
  BY <1>0, <1>6, SetsOfUrsulas DEF TypeOK, Pools, succ
<1>8. TypeOK' BY <1>0, <1>4 DEF TypeOK
<1>9. OnePlaceEach' BY <1>0, <1>4, <1>6 DEF IInv, OnePlaceEach, succ
<1>10. JoinedIsQuiet' BY <1>0, <1>4, <1>5 DEF IInv, JoinedIsQuiet, outcome
<1>11. PlanIsOfKits' BY <1>0, <1>1, <1>4 DEF IInv, PlanIsOfKits, InCall, succ
<1>12. PoolAddsUp'
  <2>1. phase = "pool" =>
          /\ successes \cap (pool'.working \cup pool'.reported \cup pool'.succ) = {}
          /\ pool'.target = Threshold - Cardinality(successes)
          /\ pool'.outcome = "open" => Cardinality(pool'.succ) < pool'.target
          /\ pool'.outcome = "reached" => Cardinality(pool'.succ) = pool'.target
    <3> SUFFICES ASSUME phase = "pool"
                 PROVE  /\ successes \cap (pool'.working \cup pool'.reported \cup pool'.succ) = {}
                        /\ pool'.target = Threshold - Cardinality(successes)
                        /\ pool'.outcome = "open" => Cardinality(pool'.succ) < pool'.target
                        /\ pool'.outcome = "reached" => Cardinality(pool'.succ) = pool'.target
      OBVIOUS
    <3>1. successes \cap (pool'.working \cup pool'.reported \cup pool'.succ) = {}
      BY <1>0, <1>4 DEF IInv, PoolAddsUp, succ
    <3>2. pool'.target = Threshold - Cardinality(successes) BY <1>4 DEF IInv, PoolAddsUp
    <3>3. pool.outcome = "open" => Cardinality(pool.succ) < pool.target BY DEF IInv, PoolAddsUp
    <3>4. CASE outcome = "open"
      BY <1>4, <1>7, <3>1, <3>2, <3>3, <3>4 DEF outcome
    <3>5. CASE outcome # "open"
      BY <1>0, <1>4, <3>1, <3>2, <3>5 DEF outcome
    <3> QED BY <3>4, <3>5
  <2> QED BY <1>0, <1>4, <1>5, <2>1 DEF IInv, PoolAddsUp, InCall, Enough, outcome
<1>13. StopsWhenEmpty' BY <1>0, <1>4 DEF IInv, StopsWhenEmpty, InCall, outcome
<1>14. ReachedMeansDecryptable'
  BY <1>0, <1>4, <1>5 DEF IInv, ReachedMeansDecryptable, Decryptable, outcome
<1> QED BY <1>8, <1>9, <1>10, <1>11, <1>12, <1>13, <1>14 DEF IInv

\* The pool ends without having reached its target.
LEMMA EndKeeps == IInv /\ (OutOfValues \/ TimeOut) => IInv'
<1> SUFFICES ASSUME IInv, OutOfValues \/ TimeOut PROVE IInv' OBVIOUS
<1>0. /\ TypeOK /\ phase = "pool" /\ pool.outcome = "open"
      /\ UNCHANGED <<kits, attempts, phase, raised, orders, todo, results, successes>>
  BY DEF IInv, OutOfValues, TimeOut, planVars
<1>1. \A v \in Ursulas : WorkOrder(v)' = WorkOrder(v) BY <1>0 DEF WorkOrder
<1>2. /\ pool' \in Pools /\ pool'.working = pool.working
      /\ pool'.reported = pool.reported /\ pool'.succ = pool.succ
      /\ pool'.target = pool.target /\ pool'.outcome \in {"out_of_values", "timed_out"}
      /\ pool'.number = pool.number
      /\ pool'.outcome = "out_of_values" => ~pool.producing /\ pool.working = {}
  BY <1>0 DEF OutOfValues, TimeOut, TypeOK, Pools, Outcomes
<1>3. TypeOK' BY <1>0, <1>2 DEF TypeOK
<1>4. OnePlaceEach' BY <1>0, <1>2 DEF IInv, OnePlaceEach
<1>5. JoinedIsQuiet' BY <1>0 DEF JoinedIsQuiet
<1>6. PlanIsOfKits' BY <1>0, <1>1, <1>2 DEF IInv, PlanIsOfKits, InCall
<1>7. PoolAddsUp' BY <1>0, <1>2 DEF IInv, PoolAddsUp, InCall
<1>8. StopsWhenEmpty' BY <1>0, <1>2 DEF IInv, StopsWhenEmpty, InCall
<1>9. ReachedMeansDecryptable' BY <1>0 DEF ReachedMeansDecryptable
<1> QED BY <1>3, <1>4, <1>5, <1>6, <1>7, <1>8, <1>9 DEF IInv

\* The main thread of a call: it takes the successes, joins the pool, and goes on
\* with a second one or ends.
LEMMA WaitKeeps == IInv /\ (BlockReturns \/ Join \/ JoinRaises \/ ReportRaises) => IInv'
<1> SUFFICES ASSUME IInv, BlockReturns \/ Join \/ JoinRaises \/ ReportRaises PROVE IInv' OBVIOUS
<1>0. /\ TypeOK /\ UNCHANGED <<kits, attempts, orders, todo, results, pool>>
      /\ phase \in {"pool", "join", "decide"}
  BY DEF IInv, BlockReturns, Join, JoinRaises, ReportRaises, planVars
<1>1. \A v \in Ursulas : WorkOrder(v)' = WorkOrder(v) BY <1>0 DEF WorkOrder
<1>2. OnePlaceEach' BY <1>0 DEF IInv, OnePlaceEach
<1>3. CASE BlockReturns
  <2>0. phase = "pool" /\ phase' = "join" /\ raised' = raised /\ pool.outcome # "open"
        /\ successes' = successes \cup pool.succ
    BY <1>3 DEF BlockReturns
  <2>1. TypeOK' BY <1>0, <2>0 DEF TypeOK, Phases, Pools
  <2>2. JoinedIsQuiet' BY <1>0, <2>0 DEF JoinedIsQuiet
  <2>3. PlanIsOfKits' BY <1>0, <1>1, <2>0 DEF IInv, PlanIsOfKits, InCall
  <2>4. PoolAddsUp'
    <3>1. successes' \cap todo = {} BY <2>0 DEF IInv, PoolAddsUp, InCall, OnePlaceEach
    <3>2. successes \cap pool.succ = {} BY <2>0 DEF IInv, PoolAddsUp
    <3>3. successes \in SUBSET Ursulas /\ pool.succ \in SUBSET Ursulas BY <1>0 DEF TypeOK, Pools
    <3>4. Cardinality(successes') = Cardinality(successes) + Cardinality(pool.succ)
      BY <2>0, <3>2, <3>3, DisjointAdd
    <3>5. /\ Cardinality(successes) \in Nat /\ Cardinality(pool.succ) \in Nat /\ Threshold \in Nat
      BY <3>3, SetsOfUrsulas, ThresholdAssumption, UrsulasAssumption, FS_CardinalityType
    <3>6. pool.outcome = "reached" => Cardinality(successes') >= Threshold
      BY <2>0, <3>4, <3>5 DEF IInv, PoolAddsUp
    <3> QED BY <1>0, <2>0, <3>1, <3>6 DEF PoolAddsUp, Enough
  <2>5. StopsWhenEmpty' BY <1>0, <2>0 DEF IInv, StopsWhenEmpty, InCall
  <2>6. ReachedMeansDecryptable' BY <2>0 DEF ReachedMeansDecryptable
  <2> QED BY <1>2, <2>1, <2>2, <2>3, <2>4, <2>5, <2>6 DEF IInv
<1>4. CASE Join
  <2>0. /\ phase = "join" /\ phase' = "decide" /\ pool.working = {}
        /\ UNCHANGED <<raised, successes>>
    BY <1>4 DEF Join
  <2>1. TypeOK' BY <1>0, <2>0 DEF TypeOK, Phases
  <2>2. JoinedIsQuiet' BY <1>0, <2>0 DEF IInv, JoinedIsQuiet
  <2>3. PlanIsOfKits' BY <1>0, <1>1, <2>0 DEF IInv, PlanIsOfKits, InCall
  <2>4. PoolAddsUp' BY <1>0, <2>0 DEF IInv, PoolAddsUp, InCall, Enough
  <2>5. StopsWhenEmpty' BY <1>0, <2>0 DEF IInv, StopsWhenEmpty, InCall
  <2>6. ReachedMeansDecryptable' BY <2>0 DEF ReachedMeansDecryptable
  <2> QED BY <1>2, <2>1, <2>2, <2>3, <2>4, <2>5, <2>6 DEF IInv
<1>5. CASE JoinRaises \/ ReportRaises
  <2>0. /\ phase' = "ended" /\ pool.working = {} /\ pool.outcome # "open"
        /\ raised' = "AlreadyQuit" \/ (raised' = "AttributeError" /\ pool.outcome # "reached")
        /\ successes' = successes
    BY <1>5 DEF JoinRaises, ReportRaises, IInv, PoolAddsUp, JoinedIsQuiet
  <2>1. TypeOK' BY <1>0, <2>0 DEF TypeOK, Phases, Exceptions
  <2>2. JoinedIsQuiet' BY <1>0, <2>0 DEF JoinedIsQuiet
  <2>3. PlanIsOfKits' /\ PoolAddsUp' /\ StopsWhenEmpty'
    BY <2>0 DEF PlanIsOfKits, PoolAddsUp, StopsWhenEmpty, InCall
  <2>4. ReachedMeansDecryptable' BY <1>0, <2>0 DEF ReachedMeansDecryptable
  <2> QED BY <1>2, <2>1, <2>2, <2>3, <2>4 DEF IInv
<1> QED BY <1>3, <1>4, <1>5

\* The second pool has to find what the first one did not.
LEMMA SecondPoolKeeps == IInv /\ StartSecondPool => IInv'
<1> SUFFICES ASSUME IInv, StartSecondPool PROVE IInv' OBVIOUS
<1>0. /\ TypeOK /\ phase = "decide" /\ phase' = "pool" /\ ~Enough
      /\ UNCHANGED <<kits, attempts, raised, orders, todo, results, successes>>
  BY DEF IInv, StartSecondPool, planVars
<1>1. \A v \in Ursulas : WorkOrder(v)' = WorkOrder(v) BY <1>0 DEF WorkOrder
<1> DEFINE missing == Threshold - Cardinality(successes)
<1>2. /\ missing \in 0..Threshold /\ missing > 0 /\ 2 \in 1..2
  <2>1. Cardinality(successes) \in Nat BY <1>0, SetsOfUrsulas DEF TypeOK
  <2>2. Threshold \in Nat BY ThresholdAssumption, UrsulasAssumption, FS_CardinalityType
  <2> QED BY <1>0, <2>1, <2>2 DEF Enough
<1>3. pool' = StartPool(2, missing) BY DEF StartSecondPool
<1> HIDE DEF missing
<1>4. pool' \in Pools /\ pool'.target = missing BY <1>2, <1>3, StartPoolMeans
<1>5. pool'.working = {} /\ pool'.reported = {} /\ pool'.succ = {} BY <1>2, <1>3, StartPoolMeans
<1>6. pool'.producing = TRUE BY <1>2, <1>3, StartPoolMeans
<1>7. pool'.outcome = "open" BY <1>3 DEF StartPool, NoPool
<1>8. TypeOK' BY <1>0, <1>4 DEF TypeOK, Phases
<1>9. OnePlaceEach' /\ JoinedIsQuiet' BY <1>0, <1>5 DEF OnePlaceEach, JoinedIsQuiet
<1>10. PlanIsOfKits' BY <1>0, <1>1, <1>5 DEF IInv, PlanIsOfKits, InCall
<1>11. PoolAddsUp'
  <2>1. Cardinality(pool'.succ) = 0 BY <1>5, FS_EmptySet
  <2>2. pool'.target = Threshold - Cardinality(successes) BY <1>4 DEF missing
  <2>3. Cardinality(pool'.succ) < pool'.target BY <1>2, <1>4, <2>1
  <2> QED BY <1>0, <1>5, <1>7, <2>2, <2>3 DEF IInv, PoolAddsUp, InCall
<1>12. StopsWhenEmpty' BY <1>6, <1>7 DEF StopsWhenEmpty
<1>13. ReachedMeansDecryptable' BY <1>0 DEF ReachedMeansDecryptable
<1> QED BY <1>8, <1>9, <1>10, <1>11, <1>12, <1>13 DEF IInv

\* The successes of the pools are fragments that are new to every kit that lacked
\* some, so that as many as the threshold make each kit decryptable.
LEMMA ReturnKeeps == IInv /\ ReturnResults => IInv'
<1> SUFFICES ASSUME IInv, ReturnResults PROVE IInv' OBVIOUS
<1>0. /\ TypeOK /\ phase = "decide" /\ phase' = "ended"
      /\ kits' = [c \in Capsules |-> kits[c] \cup results[c]]
      /\ UNCHANGED <<attempts, raised, orders, todo, results, successes, pool>>
  BY DEF IInv, ReturnResults, planVars
<1>1. kits' \in Kits /\ \A c \in Capsules : kits'[c] = kits[c] \cup results[c]
  BY <1>0 DEF TypeOK, Kits
<1>2. TypeOK' BY <1>0, <1>1 DEF TypeOK, Phases
<1>3. OnePlaceEach' BY <1>0 DEF IInv, OnePlaceEach
<1>4. JoinedIsQuiet' BY <1>0 DEF IInv, JoinedIsQuiet
<1>5. PlanIsOfKits' /\ PoolAddsUp' /\ StopsWhenEmpty'
  BY <1>0 DEF PlanIsOfKits, PoolAddsUp, StopsWhenEmpty, InCall
<1>6. ASSUME pool.outcome = "reached", NEW c \in Capsules PROVE Decryptable(c)'
  <2>1. Cardinality(successes) >= Threshold BY <1>0, <1>6 DEF IInv, PoolAddsUp, Enough
  <2>2. kits[c] \in SUBSET Ursulas /\ kits'[c] \in SUBSET Ursulas /\ successes \in SUBSET Ursulas
    BY <1>0, <1>1 DEF TypeOK, Kits
  <2>3. /\ Cardinality(kits[c]) \in Nat /\ Cardinality(kits'[c]) \in Nat
        /\ Cardinality(successes) \in Nat
        /\ Cardinality(kits[c]) <= Cardinality(kits'[c])
    BY <1>1, <2>2, SetsOfUrsulas
  <2>4. Threshold \in Nat BY ThresholdAssumption, UrsulasAssumption, FS_CardinalityType
  <2>5. CASE Cardinality(kits[c]) >= Threshold BY <2>3, <2>4, <2>5 DEF Decryptable
  <2>6. CASE Cardinality(kits[c]) < Threshold
    <3>1. ASSUME NEW u \in successes PROVE u \in kits'[c]
      <4>1. u \in Ursulas BY <2>2
      <4>2. c \in WorkOrder(u) \/ u \in kits[c] BY <2>6 DEF WorkOrder
      <4>3. c \in orders[u] \/ u \in kits[c] BY <1>0, <4>1, <4>2 DEF IInv, PlanIsOfKits, InCall
      <4>4. u \in results[c] \/ u \in kits[c] BY <1>0, <4>3 DEF IInv, PlanIsOfKits, InCall
      <4> QED BY <1>1, <4>4
    <3>2. Cardinality(successes) <= Cardinality(kits'[c]) BY <2>2, <3>1, SetsOfUrsulas
    <3> QED BY <2>1, <2>3, <2>4, <3>2 DEF Decryptable
  <2> QED BY <2>3, <2>4, <2>5, <2>6
<1>7. ReachedMeansDecryptable'
  <2>1. raised' = "none" BY <1>0 DEF IInv, PlanIsOfKits, InCall
  <2> QED BY <1>0, <1>6, <2>1 DEF ReachedMeansDecryptable
<1> QED BY <1>2, <1>3, <1>4, <1>5, <1>7 DEF IInv

\* Every step keeps the invariant.
LEMMA NextKeeps == IInv /\ [Next]_vars => IInv'
<1> SUFFICES ASSUME IInv, [Next]_vars PROVE IInv' OBVIOUS
<1>1. CASE Call BY <1>1, CallKeeps
<1>2. CASE PoolStep
  BY <1>2, ProducerKeeps, WorkerKeeps, ProcessKeeps, EndKeeps DEF PoolStep
<1>3. CASE Progress BY <1>3, WaitKeeps, SecondPoolKeeps, ReturnKeeps DEF Progress
<1>4. CASE UNCHANGED vars
  <2>1. TypeOK' BY <1>4 DEF vars, planVars, IInv, TypeOK
  <2>2. \A v \in Ursulas : WorkOrder(v)' = WorkOrder(v) BY <1>4 DEF vars, WorkOrder
  <2>3. PlanIsOfKits' BY <1>4, <2>2 DEF vars, planVars, IInv, PlanIsOfKits, InCall
  <2> QED BY <1>4, <2>1, <2>3
          DEF vars, planVars, IInv, OnePlaceEach, JoinedIsQuiet, PoolAddsUp, StopsWhenEmpty, InCall,
              ReachedMeansDecryptable, Decryptable, Enough
<1> QED BY <1>1, <1>2, <1>3, <1>4 DEF Next

\* The invariant holds in every behaviour.
LEMMA InvHolds == Spec => []IInv
BY InitInv, NextKeeps, PTL DEF Spec

-----------------------------------------------------------------------------
(* The theorems.                                                           *)

\* Neither pool of any attempt sends a capsule to an Ursula whose fragment Bob has
\* in the kit or in the plan.
THEOREM NothingSentTwice == Spec => []NoCapsuleSentTwice
<1>1. ASSUME IInv PROVE NoCapsuleSentTwice
  <2> SUFFICES ASSUME phase \in {"pool", "join"}, NEW u \in todo \cup pool.working,
                      NEW c \in Capsules, c \in orders[u]
               PROVE  u \notin kits[c] \cup results[c]
    BY <1>1 DEF NoCapsuleSentTwice, IInv
  <2>1. u \in Ursulas BY <1>1 DEF IInv, TypeOK, Pools
  <2>2. u \notin kits[c] BY <1>1, <2>1 DEF IInv, PlanIsOfKits, InCall, WorkOrder
  <2>3. u \notin results[c] BY <1>1, <2>1 DEF IInv, PlanIsOfKits, InCall
  <2> QED BY <2>2, <2>3
<1> QED BY <1>1, InvHolds, PTL

\* A retrieval whose last pool reached its target ends with every kit decryptable.
THEOREM ReachedIsDecryptable == Spec => []ReachedMeansDecryptable
<1>1. IInv => ReachedMeansDecryptable BY DEF IInv
<1> QED BY <1>1, InvHolds, PTL

\* The second pool gives up early only when it times out: otherwise the list of work
\* orders is empty and every Ursula on it has answered or failed.
THEOREM ShortHasAskedAll == Spec => []ShortOnlyAfterAskingAll
<1>1. ASSUME IInv PROVE ShortOnlyAfterAskingAll
  <2> SUFFICES ASSUME phase = "decide", ~Enough, pool.outcome # "timed_out"
               PROVE  todo = {} /\ pool.working = {}
    BY DEF ShortOnlyAfterAskingAll
  <2>1. pool.outcome \in Outcomes BY <1>1 DEF IInv, TypeOK, Pools
  <2>2. pool.outcome \notin {"open", "reached"} BY <1>1 DEF IInv, PoolAddsUp
  <2>3. pool.outcome = "out_of_values" BY <2>1, <2>2 DEF Outcomes
  <2> QED BY <1>1, <2>3 DEF IInv, StopsWhenEmpty, InCall
<1> QED BY <1>1, InvHolds, PTL
=============================================================================
