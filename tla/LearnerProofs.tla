---------------------------- MODULE LearnerProofs ----------------------------
(***************************************************************************)
(* Learner for any number of peers, threads, versions and restarts.  What is  *)
(* known is always stored; the sensor is sound and metadata never goes back  *)
(* until one thread overtakes another; and with one thread, which never       *)
(* happens, the storage covers what is known and seeds outrank it.           *)
(***************************************************************************)
EXTENDS Learner, SequenceTheorems, TLAPS

USE VersionAssumption, BootAssumption, ArchiveAssumption, OptionAssumption,
    DomainAssumption, AddressAssumption

-----------------------------------------------------------------------------
(* The inductive invariant.                                                *)

\* At most one thread uses the learner.
OneThread == \A t, u \in Threads : t = u

\* A thread that is remembering has an object, one that asks has a teacher.
Placed(j) ==
    /\ j.at \in {"record", "store", "verify"} => j.object \in Objects
    /\ j.at = "request" => j.from \in Peers

JobsPlaced == \A t \in Threads : Placed(job[t])

\* Only marked peers are removed.
RemovedIsMarked == toRemove \subseteq marked

\* The storage has the peer, or a thread is about to write it.
Covered(p) ==
    storage[p] # 0 \/ \E t \in Threads : job[t].at = "store" /\ job[t].object.address = p

\* KnownIsStored, and the same of a fleet state that is computed but not published.
StoredSoon ==
    SaveMetadata => \A p \in Peers :
        /\ nodes[p] # 0 \/ toAdd[p] # 0 => Covered(p)
        /\ \A t \in Threads : job[t].at = "publish" /\ job[t].next.nodes[p] # 0 => Covered(p)

\* What a thread has checked or computed from the current state still holds of it.
CheckHolds(t) ==
    /\ job[t].at = "record" /\ job[t].object.address \in Peers =>
          job[t].object.version > nodes[job[t].object.address]
    /\ job[t].at = "publish" =>
          /\ \A p \in Peers : \/ job[t].next.nodes[p] >= nodes[p]
                              \/ job[t].next.nodes[p] = 0 /\ p \in marked
          /\ job[t].changed = TRUE <=> job[t].next # CurrentState

PendingIsNewer == \A p \in Peers : toAdd[p] # 0 => toAdd[p] > nodes[p]

ArchiveSound ==
    /\ archived[Len(archived)] = CurrentState
    /\ \A i \in 1..(Len(archived) - 1) : archived[i] # archived[i + 1]

NotOvertaken ==
    ~overtaken => PendingIsNewer /\ ArchiveSound /\ \A t \in Threads : CheckHolds(t)

\* One thread: the object it stores is the pending one; no other peer has a pending
\* version that the storage lacks; and what it read from the storage is still there.
StoreHolds(t) ==
    /\ job[t].at = "store" /\ job[t].object.address \in Peers =>
          /\ job[t].object.version > nodes[job[t].object.address]
          /\ job[t].object.version = toAdd[job[t].object.address]
    /\ \A p \in Peers :
          ~(job[t].at = "store" /\ job[t].object.address = p) => storage[p] >= toAdd[p]
    /\ job[t].at = "publish" => \A p \in Peers : storage[p] >= job[t].next.nodes[p]
    /\ job[t].op = "restore" =>
          /\ \A o \in job[t].todo : o.version = storage[o.address]
          /\ job[t].at \in {"record", "store"} =>
                job[t].object.version = storage[job[t].object.address]

Alone ==
    OneThread =>
        /\ ~overtaken
        /\ SaveMetadata => /\ \A p \in Peers : storage[p] >= nodes[p]
                           /\ \A t \in Threads : StoreHolds(t)

IInv == TypeOK /\ JobsPlaced /\ RemovedIsMarked /\ StoredSoon /\ NotOvertaken /\ Alone
-----------------------------------------------------------------------------
(* The jobs of the threads.                                                *)

\* The state types that no step needs to look into.
TailTypeOK ==
    /\ toRemove \in SUBSET Peers /\ marked \in SUBSET Peers /\ heardFrom \in SUBSET Peers
    /\ doneSeeding \in BOOLEAN
    /\ teachers \in SUBSET Peers /\ teacher \in Peers \cup {None}
    /\ error \in [Threads -> Errors]

\* A step that only moves thread t on, neither from nor to one of the places where
\* the sensor or the storage is written; only a read of the storage adds to what a
\* restoring thread has to remember.
Critical == {"record", "store", "publish"}

Moves(t, j) == j \in Jobs /\ Placed(j) /\ job' = [job EXCEPT ![t] = j]

Plain(t, j) ==
    /\ Moves(t, j)
    /\ job[t].at \notin Critical /\ j.at \notin Critical
    /\ j.op = "restore" => \A o \in j.todo :
          \/ job[t].op = "restore" /\ o \in job[t].todo
          \/ o.version = storage[o.address]
    /\ marked \subseteq marked' /\ toRemove' \subseteq toRemove \cup marked'
    /\ TailTypeOK'
    /\ UNCHANGED <<published, boots, nodes, selfRecorded, archived, toAdd, storage, overtaken>>

\* What Doing makes is a job.
LEMMA DoingIsJob ==
    ASSUME NEW at \in Places, NEW op \in Operations, NEW todo \in SUBSET Objects,
           NEW done \in BOOLEAN, NEW from \in Peers \cup {None}
    PROVE  /\ Doing(at, op, todo, done, from) \in Jobs
           /\ Doing(at, op, todo, done, from).at = at
           /\ Doing(at, op, todo, done, from).op = op
           /\ Doing(at, op, todo, done, from).todo = todo
           /\ Doing(at, op, todo, done, from).from = from
<1>1. NewFleetState \in FleetStates
  BY DEF NewFleetState, FleetStates, NoNodes, NodeVersions, Versions
<1> QED BY <1>1 DEF Doing, Jobs

\* An operation that has remembered nothing yet.
Starting(at, op, todo, from) == Doing(at, op, todo, FALSE, from)

\* It is a job too.
LEMMA StartingIsJob ==
    ASSUME NEW at \in Places, NEW op \in Operations, NEW todo \in SUBSET Objects,
           NEW from \in Peers \cup {None}
    PROVE  /\ Starting(at, op, todo, from) \in Jobs
           /\ Starting(at, op, todo, from).at = at
           /\ Starting(at, op, todo, from).op = op
           /\ Starting(at, op, todo, from).todo = todo
           /\ Starting(at, op, todo, from).from = from
<1>1. NewFleetState \in FleetStates
  BY DEF NewFleetState, FleetStates, NoNodes, NodeVersions, Versions
<1> QED BY <1>1 DEF Starting, Doing, Jobs

\* An idle thread has a job that says nothing.
LEMMA IdleIsJob == Idle \in Jobs /\ Placed(Idle) /\ Idle.at = "idle" /\ Idle.op = "none"
<1>1. {} \in SUBSET Objects /\ None \in Peers \cup {None} OBVIOUS
<1>2. "idle" \in Places /\ "none" \in Operations BY DEF Places, Operations
<1>3. Idle = Starting("idle", "none", {}, None) BY DEF Idle, Starting
<1>4. Idle \in Jobs /\ Idle.at = "idle" /\ Idle.op = "none" BY <1>1, <1>2, <1>3, StartingIsJob
<1> QED BY <1>4 DEF Placed

\* A thread leaves its operation: nothing but its job and its error changes.
LEMMA LeaveMeans ==
    ASSUME TypeOK, NEW t \in Threads, NEW e \in Errors, Leave(t, e)
    PROVE  Moves(t, Idle) /\ error' \in [Threads -> Errors]
BY IdleIsJob DEF Leave, Moves, TypeOK, LearnerTypeOK

\* A thread begins an operation or goes on with it.
LEMMA GoOnMeans ==
    ASSUME TypeOK, NEW t \in Threads, NEW j \in Jobs, Placed(j), Begin(t, j) \/ GoOn(t, j)
    PROVE  Moves(t, j) /\ error' \in [Threads -> Errors]
BY DEF Begin, GoOn, Moves, TypeOK, LearnerTypeOK, Errors

\* A thread goes on after record_fleet_state, or after what has nothing to record.
LEMMA ProceedMeans ==
    ASSUME TypeOK, NEW t \in Threads, Proceed(t)
    PROVE  \E j : /\ Moves(t, j) /\ error' \in [Threads -> Errors]
                  /\ j.at \notin Critical /\ j.op # "restore"
<1> DEFINE at == AfterRecording(job[t].op)
           done == at = "teach" /\ job[t].done
           j == Doing(at, "round", {}, done, job[t].from)
<1>1. job[t] \in Jobs /\ "none" \in Errors BY DEF TypeOK, LearnerTypeOK, Errors
<1>2. job[t].from \in Peers \cup {None} /\ job[t].done \in BOOLEAN BY <1>1 DEF Jobs
<1>3. at \in {"idle", "teach", "remote"} BY <1>1 DEF AfterRecording, Jobs, Operations
<1>4. done \in BOOLEAN BY <1>2
<1>5. at \in Places /\ "round" \in Operations /\ {} \in SUBSET Objects
  BY <1>3 DEF Places, Operations
<1>6. IF at = "idle" THEN Leave(t, "none") ELSE GoOn(t, j) BY DEF Proceed
<1> HIDE DEF at, done
<1>7. j \in Jobs /\ j.at = at /\ j.op = "round" BY <1>2, <1>4, <1>5, DoingIsJob
<1> HIDE DEF j
<1>8. CASE at = "idle" BY <1>1, <1>6, <1>8, LeaveMeans, IdleIsJob DEF Critical
<1>9. CASE at # "idle"
  <2>1. Placed(j) BY <1>3, <1>7 DEF Placed
  <2>2. GoOn(t, j) BY <1>6, <1>9
  <2> QED BY <1>3, <1>7, <2>1, <2>2, GoOnMeans DEF Critical
<1> QED BY <1>8, <1>9

\* Teachers are peers.
LEMMA CycleMeans ==
    ASSUME TypeOK, NEW p, CycleTo(p)
    PROVE  p \in Peers /\ teachers' \in SUBSET Peers /\ teacher' \in Peers \cup {None}
BY DEF CycleTo, Candidates, Known, TypeOK, LearnerTypeOK

-----------------------------------------------------------------------------
(* The steps that only move a thread on.                                   *)

\* The beginning of an operation, and the reading of seeds and storage.
LEMMA SeedingIsPlain ==
    ASSUME TypeOK, JobsPlaced, NEW t \in Threads,
           \/ BeginAnnouncement(t) \/ BeginRound(t) \/ LoadSeednodes(t) \/ AlreadySeeded(t)
           \/ ReadStorage(t)
    PROVE  \E j : Plain(t, j)
<1> USE DEF TypeOK, LearnerTypeOK, SensorTypeOK, TailTypeOK, Critical, stateVars, pendingVars,
            teachVars, worldVars, history
<1>0. /\ None \in Peers \cup {None} /\ {} \in SUBSET Objects /\ job[t] \in Jobs OBVIOUS
<1>a. /\ "check" \in Places /\ "teach" \in Places /\ "seed" \in Places
      /\ "announce" \in Operations /\ "round" \in Operations
  BY DEF Places, Operations
<1>1. CASE BeginAnnouncement(t)
  <2>1. PICK o \in Announceable : Begin(t, Doing("check", "announce", {o}, FALSE, None))
    BY <1>1 DEF BeginAnnouncement
  <2> DEFINE j == Starting("check", "announce", {o}, None)
  <2>2. {o} \in SUBSET Objects BY DEF Announceable
  <2>6. Begin(t, j) BY <2>1 DEF Starting
  <2>3. j \in Jobs /\ j.at = "check" /\ j.op = "announce"
    BY <1>0, <1>a, <2>2, StartingIsJob
  <2> HIDE DEF j
  <2>4. Placed(j) BY <2>3 DEF Placed
  <2>5. Moves(t, j) /\ error' \in [Threads -> Errors] BY <2>3, <2>4, <2>6, GoOnMeans
  <2> QED BY <1>1, <2>3, <2>5 DEF BeginAnnouncement, Plain
<1>2. CASE BeginRound(t)
  <2> DEFINE place == IF doneSeeding THEN "teach" ELSE "seed"
             j == Starting(place, "round", {}, None)
  <2>1. place \in {"teach", "seed"} /\ {} \in SUBSET Objects OBVIOUS
  <2> HIDE DEF place
  <2>2. j \in Jobs /\ j.at = place /\ j.op = "round"
    <3>1. place \in Places BY <1>a, <2>1
    <3> QED BY <1>0, <1>a, <3>1, StartingIsJob
  <2>3. Begin(t, j) BY <1>2 DEF BeginRound, place, Starting
  <2> HIDE DEF j
  <2>4. Placed(j) BY <2>1, <2>2 DEF Placed
  <2>5. Moves(t, j) /\ error' \in [Threads -> Errors] BY <2>2, <2>3, <2>4, GoOnMeans
  <2> QED BY <1>2, <2>1, <2>2, <2>5 DEF BeginRound, Plain
<1>3. CASE LoadSeednodes(t)
  <2>1. PICK seeds \in SUBSET Peers :
          GoOn(t, Doing("check", "seed", {[address |-> p, version |-> published[p]] : p \in seeds},
                        seeds # {}, None))
    BY <1>3 DEF LoadSeednodes
  <2> DEFINE todo == {[address |-> p, version |-> published[p]] : p \in seeds}
             done == seeds # {}
             j == Doing("check", "seed", todo, done, None)
  <2>2. todo \in SUBSET Objects BY DEF Objects, Addresses
  <2>3. done \in BOOLEAN OBVIOUS
  <2>4. GoOn(t, j) BY <2>1
  <2> HIDE DEF todo, done
  <2>5. j \in Jobs /\ j.at = "check" /\ j.op = "seed"
    BY <1>0, <2>2, <2>3, DoingIsJob DEF Places, Operations
  <2> HIDE DEF j
  <2>6. Placed(j) BY <2>5 DEF Placed
  <2>7. Moves(t, j) /\ error' \in [Threads -> Errors] BY <2>4, <2>5, <2>6, GoOnMeans
  <2> QED BY <1>3, <2>5, <2>7 DEF LoadSeednodes, Plain
<1>4. CASE AlreadySeeded(t)
  <2>1. Moves(t, Idle) /\ error' \in [Threads -> Errors]
    BY <1>4, LeaveMeans DEF AlreadySeeded, Errors
  <2> QED BY <1>4, <2>1, IdleIsJob DEF AlreadySeeded, Plain
<1>5. CASE ReadStorage(t)
  <2> DEFINE done == job[t].done \/ Stored # {}
             j == Doing("check", "restore", Stored, done, None)
  <2>1. done \in BOOLEAN BY <1>0 DEF Jobs
  <2>2. Stored \in SUBSET Objects /\ \A o \in Stored : o.version = storage[o.address]
    BY DEF Stored, Objects, Addresses, Versions
  <2>3. GoOn(t, j) BY <1>5 DEF ReadStorage
  <2> HIDE DEF done
  <2>4. j \in Jobs /\ j.at = "check" /\ j.op = "restore" /\ j.todo = Stored
    BY <1>0, <2>1, <2>2, DoingIsJob DEF Places, Operations
  <2> HIDE DEF j
  <2>5. Placed(j) BY <2>4 DEF Placed
  <2>6. Moves(t, j) /\ error' \in [Threads -> Errors] BY <2>3, <2>4, <2>5, GoOnMeans
  <2> QED BY <1>5, <2>2, <2>4, <2>6 DEF ReadStorage, Plain
<1> QED BY <1>1, <1>2, <1>3, <1>4, <1>5
\* Choosing a teacher, asking it, and its answer.
LEMMA TeachingIsPlain ==
    ASSUME TypeOK, JobsPlaced, NEW t \in Threads,
           \/ KeepTeacher(t) \/ ChooseTeacher(t) \/ RoundCancelled(t) \/ FruitlessRequest(t)
           \/ InvalidTeacher(t) \/ TeacherAnswers(t)
    PROVE  \E j : Plain(t, j)
<1> USE DEF TypeOK, LearnerTypeOK, SensorTypeOK, TailTypeOK, Critical, stateVars, pendingVars,
            teachVars, worldVars, history
<1>0. /\ {} \in SUBSET Objects /\ job[t] \in Jobs /\ job[t].done \in BOOLEAN
      /\ "request" \in Places /\ "remote" \in Places /\ "check" \in Places /\ "round" \in Operations
  BY DEF Places, Operations, Jobs
<1>1. ASSUME NEW e \in Errors, Leave(t, e)
      PROVE  /\ Moves(t, Idle) /\ error' \in [Threads -> Errors]
             /\ Idle.at \notin Critical /\ Idle.op # "restore"
  BY <1>1, LeaveMeans, IdleIsJob
<1>2. ASSUME NobodyToCycleTo(t)
      PROVE  Leave(t, "NotEnoughTeachers") /\ teachers' = teachers /\ teacher' = teacher
  BY <1>2 DEF NobodyToCycleTo
<1>3. ASSUME NEW p \in Peers, NEW done \in BOOLEAN, GoOn(t, Doing("request", "round", {}, done, p))
      PROVE  /\ Moves(t, Doing("request", "round", {}, done, p)) /\ error' \in [Threads -> Errors]
             /\ Doing("request", "round", {}, done, p).at = "request"
             /\ Doing("request", "round", {}, done, p).op = "round"
  <2> DEFINE j == Doing("request", "round", {}, done, p)
  <2>1. j \in Jobs /\ j.at = "request" /\ j.op = "round" /\ j.from = p BY <1>0, DoingIsJob
  <2>2. GoOn(t, j) BY <1>3
  <2> HIDE DEF j
  <2>3. Placed(j) BY <2>1 DEF Placed
  <2>4. Moves(t, j) /\ error' \in [Threads -> Errors] BY <2>1, <2>2, <2>3, GoOnMeans
  <2> QED BY <2>1, <2>4 DEF j
<1>4. CASE KeepTeacher(t)
  <2>1. teacher \in Peers BY <1>4 DEF KeepTeacher
  <2>2. GoOn(t, Doing("request", "round", {}, job[t].done, teacher)) BY <1>4 DEF KeepTeacher
  <2> QED BY <1>0, <1>3, <1>4, <2>1, <2>2 DEF KeepTeacher, Plain
<1>5. CASE ChooseTeacher(t)
  <2>1. CASE NobodyToCycleTo(t) BY <1>1, <1>2, <1>5, <2>1 DEF ChooseTeacher, Plain, Errors
  <2>2. CASE ~NobodyToCycleTo(t)
    <3>1. PICK p \in Candidates :
            CycleTo(p) /\ GoOn(t, Doing("request", "round", {}, job[t].done, p))
      BY <1>5, <2>2 DEF ChooseTeacher
    <3>2. p \in Peers /\ teachers' \in SUBSET Peers /\ teacher' \in Peers \cup {None}
      BY <3>1, CycleMeans
    <3> QED BY <1>0, <1>3, <1>5, <3>1, <3>2 DEF ChooseTeacher, Plain
  <2> QED BY <2>1, <2>2
<1>6. CASE RoundCancelled(t) BY <1>1, <1>6 DEF RoundCancelled, Plain, Errors
<1>7. CASE FruitlessRequest(t)
  <2>1. CASE NobodyToCycleTo(t) BY <1>1, <1>2, <1>7, <2>1 DEF FruitlessRequest, Plain, Errors
  <2>2. CASE ~NobodyToCycleTo(t)
    <3>1. PICK p \in Candidates, e \in {"none", "Unhandled"} : CycleTo(p) /\ Leave(t, e)
      BY <1>7, <2>2 DEF FruitlessRequest
    <3>2. teachers' \in SUBSET Peers /\ teacher' \in Peers \cup {None} BY <3>1, CycleMeans
    <3>3. e \in Errors BY DEF Errors
    <3> QED BY <1>1, <1>7, <3>1, <3>2, <3>3 DEF FruitlessRequest, Plain
  <2> QED BY <2>1, <2>2
<1>8. CASE InvalidTeacher(t)
  <2>0. /\ job[t].from \in Peers /\ job[t].at = "request"
        /\ toRemove' = toRemove \cup {job[t].from} /\ marked' = marked \cup {job[t].from}
    BY <1>8 DEF InvalidTeacher, JobsPlaced, Placed
  <2>a. /\ toRemove' \in SUBSET Peers /\ marked' \in SUBSET Peers
        /\ marked \subseteq marked' /\ toRemove' \subseteq toRemove \cup marked'
    BY <2>0
  <2>1. PICK e \in {"none", "NotEnoughTeachers"} :
          Leave(t, e) /\ teachers' \in SUBSET Peers /\ teacher' \in Peers \cup {None}
    BY <1>2, <1>8, CycleMeans DEF InvalidTeacher
  <2>2. e \in Errors BY DEF Errors
  <2>3. Moves(t, Idle) /\ error' \in [Threads -> Errors] /\ Idle.at \notin Critical /\ Idle.op # "restore"
    BY <1>1, <2>1, <2>2
  <2> QED BY <1>8, <2>0, <2>a, <2>1, <2>3 DEF InvalidTeacher, Plain
<1>9. CASE TeacherAnswers(t)
  <2>0. job[t].from \in Peers /\ job[t].at = "request" BY <1>9 DEF TeacherAnswers, JobsPlaced, Placed
  <2>1. CASE NobodyToCycleTo(t) BY <1>1, <1>2, <1>9, <2>1 DEF TeacherAnswers, Plain, Errors
  <2>2. CASE ~NobodyToCycleTo(t)
    <3>1. PICK p \in Candidates :
             /\ CycleTo(p)
             /\ \/ GoOn(t, Doing("remote", "round", {}, FALSE, job[t].from))
                \/ \E answer \in Answers(job[t].from) :
                      GoOn(t, Doing("check", "round", answer, job[t].done, job[t].from))
      BY <1>9, <2>2 DEF TeacherAnswers
    <3>2. teachers' \in SUBSET Peers /\ teacher' \in Peers \cup {None} BY <3>1, CycleMeans
    <3>3. CASE GoOn(t, Doing("remote", "round", {}, FALSE, job[t].from))
      <4> DEFINE j == Starting("remote", "round", {}, job[t].from)
      <4>1. j \in Jobs /\ j.at = "remote" /\ j.op = "round" BY <1>0, <2>0, StartingIsJob
      <4>2. GoOn(t, j) BY <3>3 DEF Starting
      <4> HIDE DEF j
      <4>3. Placed(j) BY <4>1 DEF Placed
      <4>4. Moves(t, j) /\ error' \in [Threads -> Errors] BY <4>1, <4>2, <4>3, GoOnMeans
      <4> QED BY <1>9, <2>0, <3>2, <4>1, <4>4 DEF TeacherAnswers, Plain
    <3>4. CASE \E answer \in Answers(job[t].from) :
                  GoOn(t, Doing("check", "round", answer, job[t].done, job[t].from))
      <4>1. PICK answer \in Answers(job[t].from) :
                  GoOn(t, Doing("check", "round", answer, job[t].done, job[t].from))
        BY <3>4
      <4>2. answer \in SUBSET Objects
        BY <2>0 DEF Answers, Announceable, Objects, Addresses
      <4> DEFINE j == Doing("check", "round", answer, job[t].done, job[t].from)
      <4>3. j \in Jobs /\ j.at = "check" /\ j.op = "round" BY <1>0, <2>0, <4>2, DoingIsJob
      <4>4. GoOn(t, j) BY <4>1
      <4> HIDE DEF j
      <4>5. Placed(j) BY <4>3 DEF Placed
      <4>6. Moves(t, j) /\ error' \in [Threads -> Errors] BY <4>3, <4>4, <4>5, GoOnMeans
      <4> QED BY <1>9, <2>0, <3>2, <4>3, <4>6 DEF TeacherAnswers, Plain
    <3> QED BY <3>1, <3>3, <3>4
  <2> QED BY <2>1, <2>2
<1> QED BY <1>4, <1>5, <1>6, <1>7, <1>8, <1>9

\* Objects that are dropped or remembered, and the end of a round.
LEMMA RememberingIsPlain ==
    ASSUME TypeOK, JobsPlaced, NEW t \in Threads,
           \/ SkipOutdated(t) \/ Remembered(t) \/ NotVerified(t) \/ NothingRemembered(t)
           \/ RecordRemoteFleetState(t) \/ TeacherForgotten(t)
    PROVE  \E j : Plain(t, j)
<1> USE DEF TypeOK, LearnerTypeOK, SensorTypeOK, TailTypeOK, Critical, stateVars, pendingVars,
            teachVars, worldVars, history
<1>0. job[t] \in Jobs /\ "check" \in Places BY DEF Places
<1>1. ASSUME NEW e \in Errors, Leave(t, e)
      PROVE  /\ Moves(t, Idle) /\ error' \in [Threads -> Errors]
             /\ Idle.at \notin Critical /\ Idle.op # "restore"
  BY <1>1, LeaveMeans, IdleIsJob
<1>2. ASSUME NEW j \in Jobs, j.at = "check", GoOn(t, j)
      PROVE  Moves(t, j) /\ error' \in [Threads -> Errors]
  BY <1>2, GoOnMeans DEF Placed
<1>3. CASE SkipOutdated(t)
  <2>1. PICK o \in job[t].todo : GoOn(t, [job[t] EXCEPT !.todo = @ \ {o}])
    BY <1>3 DEF SkipOutdated
  <2> DEFINE j == [job[t] EXCEPT !.todo = @ \ {o}]
  <2>2. j \in Jobs /\ j.at = "check" /\ j.op = job[t].op /\ j.todo = job[t].todo \ {o}
    BY <1>0, <1>3 DEF SkipOutdated, Jobs
  <2>3. GoOn(t, j) BY <2>1
  <2> HIDE DEF j
  <2>4. Moves(t, j) /\ error' \in [Threads -> Errors] BY <1>2, <2>2, <2>3
  <2> QED BY <1>3, <2>2, <2>4 DEF SkipOutdated, Plain
<1>4. CASE Remembered(t)
  <2> DEFINE j == [job[t] EXCEPT !.at = "check", !.object = NoObject, !.done = TRUE]
  <2>2. j \in Jobs /\ j.at = "check" /\ j.op = job[t].op /\ j.todo = job[t].todo
    BY <1>0, <1>4 DEF Remembered, Jobs
  <2>3. GoOn(t, j) BY <1>4 DEF Remembered
  <2> HIDE DEF j
  <2>4. Moves(t, j) /\ error' \in [Threads -> Errors] BY <1>2, <2>2, <2>3
  <2> QED BY <1>4, <2>2, <2>4 DEF Remembered, Plain
<1>5. CASE NotVerified(t)
  <2>1. CASE Leave(t, "Unhandled") BY <1>1, <1>5, <2>1 DEF NotVerified, Plain, Errors
  <2>2. CASE GoOn(t, [job[t] EXCEPT !.at = "check", !.object = NoObject])
    <3> DEFINE j == [job[t] EXCEPT !.at = "check", !.object = NoObject]
    <3>2. j \in Jobs /\ j.at = "check" /\ j.op = job[t].op /\ j.todo = job[t].todo
      BY <1>0, <1>5 DEF NotVerified, Jobs
    <3>3. GoOn(t, j) BY <2>2
    <3> HIDE DEF j
    <3>4. Moves(t, j) /\ error' \in [Threads -> Errors] BY <1>2, <3>2, <3>3
    <3> QED BY <1>5, <3>2, <3>4 DEF NotVerified, Plain
  <2> QED BY <1>5, <2>1, <2>2 DEF NotVerified
<1>6. CASE NothingRemembered(t)
  <2>1. PICK j : /\ Moves(t, j) /\ error' \in [Threads -> Errors]
                 /\ j.at \notin Critical /\ j.op # "restore"
    BY <1>6, ProceedMeans DEF NothingRemembered
  <2> QED BY <1>6, <2>1 DEF NothingRemembered, Plain
<1>7. CASE RecordRemoteFleetState(t)
  <2>1. heardFrom' \in SUBSET Peers BY <1>7 DEF RecordRemoteFleetState, Known
  <2> QED BY <1>1, <1>7, <2>1 DEF RecordRemoteFleetState, Plain, Errors
<1>8. CASE TeacherForgotten(t) BY <1>1, <1>8 DEF TeacherForgotten, Plain, Errors
<1> QED BY <1>3, <1>4, <1>5, <1>6, <1>7, <1>8
-----------------------------------------------------------------------------
(* The steps that write the sensor or the storage, and the types.          *)

\* What a thread has passed: an object that is not outdated.
Passes(t, j) ==
    /\ Moves(t, j) /\ job[t].at = "check" /\ j.at = "record"
    /\ j.op = job[t].op /\ j.todo \subseteq job[t].todo
    /\ j.object \in job[t].todo /\ ~Outdated(j.object)
    /\ TailTypeOK'
    /\ UNCHANGED <<published, boots, nodes, selfRecorded, archived, toAdd, toRemove, storage,
                   marked, overtaken>>

\* It becomes pending.
Records(t, j) ==
    /\ Moves(t, j) /\ job[t].at = "record" /\ j.at \in {"store", "verify"}
    /\ SaveMetadata => j.at = "store"
    /\ j.op = job[t].op /\ j.todo = job[t].todo
    /\ j.object = job[t].object /\ j.object \in Objects
    /\ RecordNode(j.object)
    /\ TailTypeOK'
    /\ UNCHANGED <<published, boots, nodes, selfRecorded, archived, toRemove, storage, marked,
                   overtaken>>

\* It is written.
Stores(t, j) ==
    /\ Moves(t, j) /\ job[t].at = "store" /\ j.at = "verify"
    /\ j.op = job[t].op /\ j.todo = job[t].todo
    /\ j.object = job[t].object /\ j.object \in Objects
    /\ storage' = [storage EXCEPT ![j.object.address] = j.object.version]
    /\ TailTypeOK'
    /\ UNCHANGED <<published, boots, nodes, selfRecorded, archived, toAdd, toRemove, marked,
                   overtaken>>

\* The next fleet state is computed ...
Computes(t, j) ==
    /\ Moves(t, j) /\ job[t].at = "check" /\ j.at = "publish"
    /\ job[t].todo = {} /\ j.todo = {}
    /\ j.next = WithUpdatedNodes /\ (j.changed = TRUE <=> StateDiffers)
    /\ TailTypeOK'
    /\ UNCHANGED <<published, boots, nodes, selfRecorded, archived, toAdd, toRemove, storage,
                   marked, overtaken>>

\* ... and replaces the current one.
Publishes(t, j) ==
    /\ Moves(t, j) /\ job[t].at = "publish" /\ j.at \notin Critical /\ j.op # "restore"
    /\ toAdd' = NoNodes /\ toRemove' = {}
    /\ nodes' = job[t].next.nodes /\ selfRecorded' = job[t].next.self
    /\ archived' = IF job[t].changed = TRUE THEN AppendBounded(archived, job[t].next) ELSE archived
    /\ Overtakes(t)
    /\ TailTypeOK'
    /\ UNCHANGED <<published, boots, storage, marked>>

Kinds(t, j) ==
    \/ Plain(t, j) \/ Passes(t, j) \/ Records(t, j) \/ Stores(t, j)
    \/ Computes(t, j) \/ Publishes(t, j)

\* The next state of the fleet is a state of the fleet.
LEMMA UpdatedIsState == TypeOK => WithUpdatedNodes \in FleetStates
BY DEF TypeOK, SensorTypeOK, WithUpdatedNodes, FleetStates, NodeVersions, Versions

\* Every step of a thread is of one of six kinds.
LEMMA StepKinds ==
    ASSUME TypeOK, JobsPlaced, NEW t \in Threads, Step(t)
    PROVE  \E j : Kinds(t, j)
<1> USE DEF stateVars, pendingVars, teachVars, worldVars, history
<1>0. job[t] \in Jobs /\ job[t].todo \in SUBSET Objects /\ job[t].object \in Objects \cup {NoObject}
  BY DEF TypeOK, LearnerTypeOK, Jobs
<1>1. CASE PassTimestampCheck(t)
  <2>1. PICK o \in job[t].todo :
          ~Outdated(o) /\ GoOn(t, [job[t] EXCEPT !.todo = @ \ {o}, !.object = o, !.at = "record"])
    BY <1>1 DEF PassTimestampCheck
  <2> DEFINE j == [job[t] EXCEPT !.todo = @ \ {o}, !.object = o, !.at = "record"]
  <2>2. o \in Objects BY <1>0
  <2>3. j \in Jobs /\ j.at = "record" /\ j.op = job[t].op /\ j.todo = job[t].todo \ {o} /\ j.object = o
    BY <1>0, <2>2 DEF Jobs, Places
  <2>4. GoOn(t, j) BY <2>1
  <2> HIDE DEF j
  <2>5. Placed(j) BY <2>2, <2>3 DEF Placed
  <2>6. Moves(t, j) BY <2>3, <2>4, <2>5, GoOnMeans
  <2>t. TailTypeOK' BY <1>1 DEF PassTimestampCheck, GoOn, TypeOK, LearnerTypeOK, SensorTypeOK, TailTypeOK
  <2> QED BY <1>1, <2>t, <2>1, <2>3, <2>6 DEF PassTimestampCheck, Passes, Kinds
<1>2. CASE Record(t)
  <2> DEFINE place == IF SaveMetadata THEN "store" ELSE "verify"
             j == [job[t] EXCEPT !.at = place]
  <2>1. place \in {"store", "verify"} /\ (SaveMetadata => place = "store") OBVIOUS
  <2>2. GoOn(t, j) BY <1>2 DEF Record
  <2> HIDE DEF place
  <2>3. j \in Jobs /\ j.at = place /\ j.op = job[t].op /\ j.todo = job[t].todo
        /\ j.object = job[t].object
    BY <1>0, <2>1 DEF Jobs, Places
  <2> HIDE DEF j
  <2>4. job[t].object \in Objects BY <1>2 DEF Record, JobsPlaced, Placed
  <2>5. Placed(j) BY <2>1, <2>3, <2>4 DEF Placed
  <2>6. Moves(t, j) BY <2>2, <2>3, <2>5, GoOnMeans
  <2>7. RecordNode(j.object) BY <1>2, <2>3 DEF Record
  <2>t. TailTypeOK' BY <1>2 DEF Record, GoOn, TypeOK, LearnerTypeOK, SensorTypeOK, TailTypeOK
  <2> QED BY <1>2, <2>t, <2>1, <2>3, <2>4, <2>6, <2>7 DEF Record, Records, Kinds
<1>3. CASE Store(t)
  <2> DEFINE j == [job[t] EXCEPT !.at = "verify"]
  <2>2. GoOn(t, j) BY <1>3 DEF Store
  <2>3. j \in Jobs /\ j.at = "verify" /\ j.op = job[t].op /\ j.todo = job[t].todo
        /\ j.object = job[t].object
    BY <1>0 DEF Jobs, Places
  <2> HIDE DEF j
  <2>4. job[t].object \in Objects BY <1>3 DEF Store, JobsPlaced, Placed
  <2>5. Placed(j) BY <2>3, <2>4 DEF Placed
  <2>6. Moves(t, j) BY <2>2, <2>3, <2>5, GoOnMeans
  <2>7. storage' = [storage EXCEPT ![j.object.address] = j.object.version] BY <1>3, <2>3 DEF Store
  <2>t. TailTypeOK' BY <1>3 DEF Store, GoOn, TypeOK, LearnerTypeOK, SensorTypeOK, TailTypeOK
  <2> QED BY <1>3, <2>t, <2>3, <2>4, <2>6, <2>7 DEF Store, Stores, Kinds
<1>4. CASE ComputeFleetState(t)
  <2> DEFINE next == WithUpdatedNodes
             changed == StateDiffers
             j == [job[t] EXCEPT !.at = "publish", !.next = next, !.changed = changed]
  <2>1. next \in FleetStates BY UpdatedIsState
  <2>2. changed \in BOOLEAN BY DEF StateDiffers
  <2>3. GoOn(t, j) BY <1>4 DEF ComputeFleetState
  <2> HIDE DEF next, changed
  <2>4. j \in Jobs /\ j.at = "publish" /\ j.todo = job[t].todo /\ j.next = next /\ j.changed = changed
    BY <1>0, <2>1, <2>2 DEF Jobs, Places
  <2> HIDE DEF j
  <2>5. Placed(j) BY <2>4 DEF Placed
  <2>6. Moves(t, j) BY <2>3, <2>4, <2>5, GoOnMeans
  <2>7. j.changed = TRUE <=> StateDiffers BY <2>2, <2>4 DEF changed
  <2>8. j.next = WithUpdatedNodes BY <2>4 DEF next
  <2>t. TailTypeOK' BY <1>4 DEF ComputeFleetState, GoOn, TypeOK, LearnerTypeOK, SensorTypeOK, TailTypeOK
  <2> QED BY <1>4, <2>t, <2>4, <2>6, <2>7, <2>8 DEF ComputeFleetState, Computes, Kinds
<1>5. CASE PublishFleetState(t)
  <2>1. PICK j : /\ Moves(t, j) /\ error' \in [Threads -> Errors]
                 /\ j.at \notin Critical /\ j.op # "restore"
    BY <1>5, ProceedMeans DEF PublishFleetState
  <2>2. archived' = IF job[t].changed = TRUE THEN AppendBounded(archived, job[t].next) ELSE archived
    <3>1. job[t].changed \in BOOLEAN BY <1>0 DEF Jobs
    <3> QED BY <1>5, <3>1 DEF PublishFleetState
  <2>t. TailTypeOK' BY <1>5, <2>1 DEF PublishFleetState, TypeOK, LearnerTypeOK, SensorTypeOK, TailTypeOK
  <2> QED BY <1>5, <2>t, <2>1, <2>2 DEF PublishFleetState, Publishes, Kinds
<1> QED BY <1>1, <1>2, <1>3, <1>4, <1>5, SeedingIsPlain, TeachingIsPlain, RememberingIsPlain
        DEF Step, Kinds

\* The other threads stay where they are.
LEMMA MovesMeans ==
    ASSUME TypeOK, NEW t \in Threads, NEW j, Moves(t, j)
    PROVE  /\ job' \in [Threads -> Jobs] /\ job'[t] = j /\ j \in Jobs
           /\ \A u \in Threads : u # t => job'[u] = job[u]
           /\ JobsPlaced => JobsPlaced'
BY DEF Moves, TypeOK, LearnerTypeOK, JobsPlaced
\* A bounded deque ends in what was appended; it stays free of repetitions if that
\* differs from its last entry.
LEMMA AppendBoundedMeans ==
    ASSUME NEW s \in Seq(FleetStates), Len(s) \in 1..MaxArchived, NEW e \in FleetStates
    PROVE  /\ AppendBounded(s, e) \in Seq(FleetStates)
           /\ Len(AppendBounded(s, e)) \in 1..MaxArchived
           /\ AppendBounded(s, e)[Len(AppendBounded(s, e))] = e
           /\ (\A i \in 1..(Len(s) - 1) : s[i] # s[i + 1]) /\ s[Len(s)] # e =>
                 \A i \in 1..(Len(AppendBounded(s, e)) - 1) :
                    AppendBounded(s, e)[i] # AppendBounded(s, e)[i + 1]
<1>1. CASE Len(s) < MaxArchived
  <2>1. AppendBounded(s, e) = Append(s, e) BY <1>1 DEF AppendBounded
  <2>2. Append(s, e) \in Seq(FleetStates) /\ Len(Append(s, e)) = Len(s) + 1 OBVIOUS
  <2>3. Append(s, e)[Len(s) + 1] = e /\ \A i \in 1..Len(s) : Append(s, e)[i] = s[i] OBVIOUS
  <2>4. Len(s) \in Nat BY LenProperties
  <2> QED BY <1>1, <2>1, <2>2, <2>3, <2>4
<1>2. CASE ~(Len(s) < MaxArchived)
  <2> DEFINE w == Tail(s)
  <2>1. AppendBounded(s, e) = Append(w, e) BY <1>2 DEF AppendBounded
  <2>2. Len(s) \in Nat /\ Len(s) = MaxArchived BY <1>2, LenProperties
  <2>3. s # <<>> BY <2>2
  <2>4. w \in Seq(FleetStates) /\ Len(w) = Len(s) - 1 /\ \A i \in 1..Len(w) : w[i] = s[i + 1]
    BY <2>2, <2>3, HeadTailProperties, LenProperties
  <2> HIDE DEF w
  <2>5. Append(w, e) \in Seq(FleetStates) /\ Len(Append(w, e)) = Len(w) + 1 BY <2>4
  <2>6. Append(w, e)[Len(w) + 1] = e /\ \A i \in 1..Len(w) : Append(w, e)[i] = w[i] BY <2>4
  <2>7. Len(Append(w, e)) = Len(s) BY <2>2, <2>4, <2>5
  <2>8. ASSUME \A i \in 1..(Len(s) - 1) : s[i] # s[i + 1], s[Len(s)] # e,
               NEW i \in 1..(Len(s) - 1)
        PROVE  Append(w, e)[i] # Append(w, e)[i + 1]
    <3>1. i \in 1..Len(w) /\ Append(w, e)[i] = s[i + 1] BY <2>2, <2>4, <2>6
    <3>2. CASE i + 1 \in 1..Len(w)
      <4>1. Append(w, e)[i + 1] = s[i + 2] BY <2>2, <2>4, <2>6, <3>2
      <4>2. i + 1 \in 1..(Len(s) - 1) BY <2>2, <2>4, <3>2
      <4> QED BY <2>8, <3>1, <4>1, <4>2
    <3>3. CASE i + 1 \notin 1..Len(w)
      <4>1. i = Len(w) /\ i + 1 = Len(s) BY <2>2, <2>4, <3>1, <3>3
      <4> QED BY <2>4, <2>6, <2>8, <3>1, <4>1
    <3> QED BY <3>2, <3>3
  <2> QED BY <2>1, <2>2, <2>4, <2>5, <2>6, <2>7, <2>8
<1> QED BY <1>1, <1>2

\* Initially nothing is known, pending or stored.
LEMMA InitInv == Init => IInv
<1> SUFFICES ASSUME Init PROVE IInv OBVIOUS
<1> USE DEF Init
<1>1. NewFleetState \in FleetStates /\ NoNodes \in NodeVersions
  BY DEF NewFleetState, FleetStates, NoNodes, NodeVersions, Versions
<1>2. archived = <<NewFleetState>> /\ Len(archived) = 1 /\ archived[1] = NewFleetState
      /\ archived \in Seq(FleetStates)
  BY <1>1
<1>3. SensorTypeOK
  <2>1. Len(archived) \in 1..MaxArchived BY <1>2
  <2>2. nodes \in NodeVersions /\ toAdd \in NodeVersions BY <1>1
  <2>3. selfRecorded \in BOOLEAN /\ overtaken \in BOOLEAN OBVIOUS
  <2>4. toRemove \in SUBSET Peers /\ heardFrom \in SUBSET Peers /\ marked \in SUBSET Peers
    OBVIOUS
  <2> QED BY <1>2, <2>1, <2>2, <2>3, <2>4 DEF SensorTypeOK
<1>4. LearnerTypeOK
  <2>1. published \in [Peers -> 1..MaxVersion] /\ boots \in 0..MaxBoots OBVIOUS
  <2>2. storage \in [Addresses -> Versions] BY DEF Versions
  <2>3. job \in [Threads -> Jobs] /\ error \in [Threads -> Errors] BY IdleIsJob DEF Errors
  <2> QED BY <2>1, <2>2, <2>3 DEF LearnerTypeOK
<1>5. \A t \in Threads : job[t] = Idle OBVIOUS
<1>6. JobsPlaced /\ RemovedIsMarked BY <1>5, IdleIsJob DEF JobsPlaced, RemovedIsMarked
<1>7. StoredSoon BY <1>5, IdleIsJob DEF StoredSoon, NoNodes
<1>8. CurrentState = NewFleetState BY DEF CurrentState, NewFleetState
<1>9. NotOvertaken
  BY <1>2, <1>5, <1>8, IdleIsJob DEF NotOvertaken, PendingIsNewer, ArchiveSound, CheckHolds, NoNodes
<1>10. Alone BY <1>5, IdleIsJob DEF Alone, StoreHolds, NoNodes, Addresses
<1> QED BY <1>3, <1>4, <1>6, <1>7, <1>9, <1>10 DEF IInv, TypeOK

\* A restart is like the start, but the storage is what it was.
LEMMA RestartKeeps == IInv /\ Restart => IInv'
<1> SUFFICES ASSUME IInv, Restart PROVE IInv' OBVIOUS
<1> USE DEF Restart, Fresh
<1>1. NewFleetState \in FleetStates /\ NoNodes \in NodeVersions
  BY DEF NewFleetState, FleetStates, NoNodes, NodeVersions, Versions
<1>2. archived' = <<NewFleetState>> /\ Len(archived') = 1 /\ archived'[1] = NewFleetState
      /\ archived' \in Seq(FleetStates)
  BY <1>1
<1>3. SensorTypeOK'
  <2>1. Len(archived') \in 1..MaxArchived BY <1>2
  <2>2. nodes' \in NodeVersions /\ toAdd' \in NodeVersions BY <1>1
  <2>3. selfRecorded' \in BOOLEAN /\ overtaken' \in BOOLEAN OBVIOUS
  <2>4. toRemove' \in SUBSET Peers /\ heardFrom' \in SUBSET Peers /\ marked' \in SUBSET Peers
    OBVIOUS
  <2> QED BY <1>2, <2>1, <2>2, <2>3, <2>4 DEF SensorTypeOK
<1>4. LearnerTypeOK'
  <2>1. published \in [Peers -> 1..MaxVersion] /\ boots \in 0..MaxBoots
        /\ storage \in [Addresses -> Versions]
    BY DEF IInv, TypeOK, LearnerTypeOK
  <2>2. boots' \in 0..MaxBoots BY <2>1
  <2> QED BY <2>1, <2>2, IdleIsJob DEF LearnerTypeOK, Errors
<1>5. \A t \in Threads : job'[t] = Idle OBVIOUS
<1>6. JobsPlaced' /\ RemovedIsMarked' BY <1>5, IdleIsJob DEF JobsPlaced, RemovedIsMarked
<1>7. StoredSoon' BY <1>5, IdleIsJob DEF StoredSoon, NoNodes
<1>8. CurrentState' = NewFleetState BY DEF CurrentState, NewFleetState
<1>9. NotOvertaken'
  BY <1>2, <1>5, <1>8, IdleIsJob DEF NotOvertaken, PendingIsNewer, ArchiveSound, CheckHolds, NoNodes
<1>10. Alone'
  <2>1. \A p \in Peers : storage'[p] \in Nat BY <1>4 DEF LearnerTypeOK, Addresses, Versions
  <2> QED BY <1>5, <2>1, IdleIsJob DEF Alone, StoreHolds, NoNodes
<1> QED BY <1>3, <1>4, <1>6, <1>7, <1>9, <1>10 DEF IInv, TypeOK

\* Steps of threads keep the types.
LEMMA StepType ==
    ASSUME TypeOK, JobsPlaced, NEW t \in Threads, NEW j, Kinds(t, j)
    PROVE  TypeOK' /\ JobsPlaced'
<1>0. Moves(t, j) /\ TailTypeOK' /\ published' = published /\ boots' = boots
  BY DEF Kinds, Plain, Passes, Records, Stores, Computes, Publishes
<1>1. job' \in [Threads -> Jobs] /\ JobsPlaced' BY <1>0, MovesMeans
<1>2. toAdd' \in NodeVersions
  <2>1. CASE Records(t, j)
    <3>1. j.object.version \in Versions BY <2>1 DEF Records, Objects, Versions
    <3>2. toAdd \in NodeVersions BY DEF TypeOK, SensorTypeOK
    <3> QED BY <2>1, <3>1, <3>2 DEF Records, RecordNode, NodeVersions
  <2>2. CASE Publishes(t, j) BY <2>2 DEF Publishes, NoNodes, NodeVersions, Versions
  <2>3. CASE ~Records(t, j) /\ ~Publishes(t, j)
    BY <2>3 DEF Kinds, Plain, Passes, Stores, Computes, TypeOK, SensorTypeOK
  <2> QED BY <2>1, <2>2, <2>3
<1>3. storage' \in [Addresses -> Versions]
  <2>1. CASE Stores(t, j)
    <3>1. j.object.version \in Versions BY <2>1 DEF Stores, Objects, Versions
    <3> QED BY <2>1, <3>1 DEF Stores, TypeOK, LearnerTypeOK
  <2>2. CASE ~Stores(t, j)
    BY <2>2 DEF Kinds, Plain, Passes, Records, Computes, Publishes, TypeOK, LearnerTypeOK
  <2> QED BY <2>1, <2>2
<1>4. /\ nodes' \in NodeVersions /\ selfRecorded' \in BOOLEAN /\ overtaken' \in BOOLEAN
      /\ archived' \in Seq(FleetStates) /\ Len(archived') \in 1..MaxArchived
  <2>0. /\ archived \in Seq(FleetStates) /\ Len(archived) \in 1..MaxArchived
        /\ nodes \in NodeVersions /\ selfRecorded \in BOOLEAN /\ overtaken \in BOOLEAN
    BY DEF TypeOK, SensorTypeOK
  <2>1. CASE Publishes(t, j)
    <3>1. job[t].next \in FleetStates BY DEF TypeOK, LearnerTypeOK, Jobs
    <3>2. nodes' \in NodeVersions /\ selfRecorded' \in BOOLEAN
      BY <2>1, <3>1 DEF Publishes, FleetStates
    <3>3. overtaken' \in BOOLEAN BY <2>0, <2>1 DEF Publishes, Overtakes
    <3>4. archived' \in Seq(FleetStates) /\ Len(archived') \in 1..MaxArchived
      BY <2>0, <2>1, <3>1, AppendBoundedMeans DEF Publishes
    <3> QED BY <3>2, <3>3, <3>4
  <2>2. CASE ~Publishes(t, j)
    BY <2>0, <2>2 DEF Kinds, Plain, Passes, Records, Stores, Computes
  <2> QED BY <2>1, <2>2
<1>5. SensorTypeOK' BY <1>0, <1>2, <1>4 DEF SensorTypeOK, TailTypeOK
<1>6. LearnerTypeOK' BY <1>0, <1>1, <1>3 DEF LearnerTypeOK, TailTypeOK, TypeOK
<1> QED BY <1>1, <1>5, <1>6 DEF TypeOK
-----------------------------------------------------------------------------
(* What is known is stored.                                                *)

\* A peer that is stored, or about to be, stays so.
LEMMA CoveredStays ==
    ASSUME TypeOK, JobsPlaced, NEW t \in Threads, NEW j, Kinds(t, j), NEW p \in Peers, Covered(p)
    PROVE  Covered(p)'
<1>0. Moves(t, j) BY DEF Kinds, Plain, Passes, Records, Stores, Computes, Publishes
<1>1. p \in Addresses /\ storage \in [Addresses -> Versions]
  BY DEF Addresses, TypeOK, LearnerTypeOK
<1>2. CASE Stores(t, j)
  <2>1. j.object.version # 0 /\ j.object.address \in Addresses BY <1>2 DEF Stores, Objects
  <2>2. CASE j.object.address = p BY <1>1, <1>2, <2>1, <2>2 DEF Stores, Covered
  <2>3. CASE j.object.address # p
    <3>1. storage'[p] = storage[p] BY <1>1, <1>2, <2>3 DEF Stores
    <3>2. CASE storage[p] # 0 BY <3>1, <3>2 DEF Covered
    <3>3. CASE storage[p] = 0
      <4>1. PICK u \in Threads : job[u].at = "store" /\ job[u].object.address = p BY <3>3 DEF Covered
      <4>2. u # t BY <1>2, <2>3, <4>1 DEF Stores
      <4>3. job'[u] = job[u] BY <1>0, <4>2, MovesMeans
      <4> QED BY <4>1, <4>3 DEF Covered
    <3> QED BY <3>2, <3>3
  <2> QED BY <2>2, <2>3
<1>3. CASE ~Stores(t, j)
  <2>1. storage' = storage /\ job[t].at # "store"
    BY <1>3 DEF Kinds, Plain, Passes, Records, Computes, Publishes, Critical
  <2>2. CASE storage[p] # 0 BY <2>1, <2>2 DEF Covered
  <2>3. CASE storage[p] = 0
    <3>1. PICK u \in Threads : job[u].at = "store" /\ job[u].object.address = p BY <2>3 DEF Covered
    <3>2. job'[u] = job[u] BY <1>0, <2>1, <3>1, MovesMeans
    <3> QED BY <3>1, <3>2 DEF Covered
  <2> QED BY <2>2, <2>3
<1> QED BY <1>2, <1>3

\* A step keeps known, pending and computed nodes covered.
LEMMA StepStored ==
    ASSUME TypeOK, JobsPlaced, StoredSoon, NEW t \in Threads, NEW j, Kinds(t, j)
    PROVE  StoredSoon'
<1> SUFFICES ASSUME SaveMetadata, NEW p \in Peers
             PROVE  /\ nodes'[p] # 0 \/ toAdd'[p] # 0 => Covered(p)'
                    /\ \A u \in Threads : job'[u].at = "publish" /\ job'[u].next.nodes[p] # 0
                                             => Covered(p)'
  BY DEF StoredSoon
<1>0. Moves(t, j) BY DEF Kinds, Plain, Passes, Records, Stores, Computes, Publishes
<1>1. job'[t] = j /\ \A u \in Threads : u # t => job'[u] = job[u] BY <1>0, MovesMeans
<1>2. Covered(p) => Covered(p)' BY CoveredStays
<1>3. /\ nodes[p] # 0 \/ toAdd[p] # 0 => Covered(p)
      /\ \A u \in Threads : job[u].at = "publish" /\ job[u].next.nodes[p] # 0 => Covered(p)
  BY DEF StoredSoon
<1>4. nodes'[p] # 0 \/ toAdd'[p] # 0 => Covered(p)'
  <2>1. CASE Records(t, j)
    <3>1. nodes' = nodes /\ job'[t].at = "store" BY <1>1, <2>1 DEF Records
    <3>2. CASE job'[t].object.address = p BY <3>1, <3>2 DEF Covered
    <3>3. CASE job'[t].object.address # p
      <4>1. toAdd'[p] = toAdd[p]
        BY <1>1, <2>1, <3>3 DEF Records, RecordNode, TypeOK, SensorTypeOK, NodeVersions
      <4> QED BY <1>2, <1>3, <3>1, <4>1
    <3> QED BY <3>2, <3>3
  <2>2. CASE Publishes(t, j)
    <3>1. toAdd'[p] = 0 /\ nodes'[p] = job[t].next.nodes[p] /\ job[t].at = "publish"
      BY <2>2 DEF Publishes, NoNodes
    <3> QED BY <1>2, <1>3, <3>1
  <2>3. CASE ~Records(t, j) /\ ~Publishes(t, j)
    <3>1. toAdd' = toAdd /\ nodes' = nodes BY <2>3 DEF Kinds, Plain, Passes, Stores, Computes
    <3> QED BY <1>2, <1>3, <3>1
  <2> QED BY <2>1, <2>2, <2>3
<1>5. ASSUME NEW u \in Threads, job'[u].at = "publish", job'[u].next.nodes[p] # 0
      PROVE  Covered(p)'
  <2>1. CASE u # t BY <1>1, <1>2, <1>3, <1>5, <2>1
  <2>2. CASE u = t
    <3>1. Computes(t, j)
      BY <1>1, <1>5, <2>2 DEF Kinds, Plain, Passes, Records, Stores, Publishes, Critical
    <3>2. nodes[p] # 0 \/ toAdd[p] # 0
      BY <1>1, <1>5, <2>2, <3>1 DEF Computes, WithUpdatedNodes
    <3> QED BY <1>2, <1>3, <3>2
  <2> QED BY <2>1, <2>2
<1> QED BY <1>4, <1>5

-----------------------------------------------------------------------------
(* Until a thread is overtaken.                                            *)

\* StateDiffers tells whether the state differs.
LEMMA DiffersMeans == TypeOK => (StateDiffers <=> WithUpdatedNodes # CurrentState)
<1> SUFFICES ASSUME TypeOK PROVE StateDiffers <=> WithUpdatedNodes # CurrentState OBVIOUS
<1> DEFINE next == [p \in Peers |-> IF p \in toRemove THEN 0
                                    ELSE IF toAdd[p] # 0 THEN toAdd[p] ELSE nodes[p]]
           self == selfRecorded \/ IncludeSelf
<1>0. nodes \in NodeVersions /\ toRemove \in SUBSET Peers /\ selfRecorded \in BOOLEAN
  BY DEF TypeOK, SensorTypeOK
<1>1. next = nodes <=> \A p \in Peers : next[p] = nodes[p] BY <1>0 DEF NodeVersions
<1>2. StateDiffers <=> (self # selfRecorded) \/ \E p \in Peers : next[p] # nodes[p]
  BY <1>0 DEF StateDiffers
<1>3. WithUpdatedNodes = [self |-> self, nodes |-> next] BY DEF WithUpdatedNodes
<1>a. self \in BOOLEAN BY <1>0
<1> HIDE DEF next, self
<1>4. WithUpdatedNodes = CurrentState <=> self = selfRecorded /\ next = nodes
  BY <1>0, <1>3, <1>a DEF CurrentState
<1> QED BY <1>1, <1>2, <1>4

\* A fleet state is what its two parts say.
LEMMA StateIsParts ==
    ASSUME NEW s \in FleetStates
    PROVE  s = [self |-> s.self, nodes |-> s.nodes]
BY DEF FleetStates
\* A step that publishes leaves nobody behind with an old check, or overtakes.
LEMMA PublishNotOvertaken ==
    ASSUME TypeOK, JobsPlaced, NotOvertaken, NEW t \in Threads, NEW j, Publishes(t, j),
           ~overtaken'
    PROVE  PendingIsNewer' /\ ArchiveSound' /\ \A u \in Threads : CheckHolds(u)'
<1>0. /\ Moves(t, j) /\ job'[t] = j /\ j.at \notin Critical
      /\ \A u \in Threads : u # t => job'[u] = job[u]
  BY MovesMeans DEF Publishes
<1>1. ~overtaken /\ \A u \in Threads \ {t} : job[u].at \notin {"record", "publish"}
  BY DEF Publishes, Overtakes
<1>2. PendingIsNewer' BY DEF PendingIsNewer, Publishes, NoNodes
<1>3. ArchiveSound'
  <2>1. job[t].next \in FleetStates BY DEF TypeOK, LearnerTypeOK, Jobs
  <2>2. CurrentState' = job[t].next BY <2>1, StateIsParts DEF CurrentState, Publishes
  <2>3. ArchiveSound /\ (job[t].changed = TRUE <=> job[t].next # CurrentState)
    BY <1>1 DEF NotOvertaken, CheckHolds, Publishes
  <2>4. archived \in Seq(FleetStates) /\ Len(archived) \in 1..MaxArchived
    BY DEF TypeOK, SensorTypeOK
  <2>5. CASE job[t].changed = TRUE
    <3>1. archived' = AppendBounded(archived, job[t].next) BY <2>5 DEF Publishes
    <3>2. /\ archived[Len(archived)] # job[t].next
          /\ \A i \in 1..(Len(archived) - 1) : archived[i] # archived[i + 1]
      BY <2>3, <2>5 DEF ArchiveSound
    <3>3. /\ AppendBounded(archived, job[t].next)[Len(AppendBounded(archived, job[t].next))]
               = job[t].next
          /\ \A i \in 1..(Len(AppendBounded(archived, job[t].next)) - 1) :
               AppendBounded(archived, job[t].next)[i] # AppendBounded(archived, job[t].next)[i + 1]
      BY <2>1, <2>4, <3>2, AppendBoundedMeans
    <3> QED BY <2>2, <3>1, <3>3 DEF ArchiveSound
  <2>6. CASE job[t].changed # TRUE
    <3>1. archived' = archived BY <2>6 DEF Publishes
    <3>2. CurrentState' = CurrentState BY <2>2, <2>3, <2>6
    <3> QED BY <2>3, <3>1, <3>2 DEF ArchiveSound
  <2> QED BY <2>5, <2>6
<1>4. ASSUME NEW u \in Threads PROVE CheckHolds(u)'
  <2>1. job'[u].at \notin {"record", "publish"} BY <1>0, <1>1 DEF Critical
  <2> QED BY <2>1 DEF CheckHolds
<1> QED BY <1>2, <1>3, <1>4

\* No other step changes the current state.
LEMMA StepNotOvertaken ==
    ASSUME TypeOK, JobsPlaced, RemovedIsMarked, NotOvertaken, NEW t \in Threads, NEW j, Kinds(t, j)
    PROVE  NotOvertaken'
<1> SUFFICES ASSUME ~overtaken'
             PROVE  PendingIsNewer' /\ ArchiveSound' /\ \A u \in Threads : CheckHolds(u)'
  BY DEF NotOvertaken
<1>1. CASE Publishes(t, j) BY <1>1, PublishNotOvertaken
<1>2. CASE ~Publishes(t, j)
  <2>0. /\ Moves(t, j) /\ UNCHANGED <<nodes, selfRecorded, archived, overtaken>>
        /\ marked \subseteq marked'
    BY <1>2 DEF Kinds, Plain, Passes, Records, Stores, Computes
  <2>1. job'[t] = j /\ j \in Jobs /\ \A u \in Threads : u # t => job'[u] = job[u]
    BY <2>0, MovesMeans
  <2>2. /\ PendingIsNewer /\ ArchiveSound /\ \A u \in Threads : CheckHolds(u)
        /\ CurrentState' = CurrentState
    BY <2>0 DEF NotOvertaken, CurrentState
  <2>3. nodes \in NodeVersions /\ toAdd \in NodeVersions BY DEF TypeOK, SensorTypeOK
  <2>4. PendingIsNewer'
    <3>1. CASE Records(t, j)
      <4>1. SUFFICES ASSUME NEW p \in Peers, toAdd'[p] # 0 PROVE toAdd'[p] > nodes[p]
        BY <2>0 DEF PendingIsNewer
      <4>2. CASE j.object.address = p
        <5>1. toAdd'[p] = j.object.version
          BY <2>3, <3>1, <4>2 DEF Records, RecordNode, NodeVersions
        <5>2. j.object.version > nodes[p] BY <2>2, <3>1, <4>2 DEF CheckHolds, Records
        <5> QED BY <5>1, <5>2
      <4>3. CASE j.object.address # p
        <5>1. toAdd'[p] = toAdd[p] BY <2>3, <3>1, <4>3 DEF Records, RecordNode, NodeVersions
        <5> QED BY <2>2, <4>1, <5>1 DEF PendingIsNewer
      <4> QED BY <4>2, <4>3
    <3>2. CASE ~Records(t, j)
      <4>1. toAdd' = toAdd BY <1>2, <3>2 DEF Kinds, Plain, Passes, Stores, Computes
      <4> QED BY <2>0, <2>2, <4>1 DEF PendingIsNewer
    <3> QED BY <3>1, <3>2
  <2>5. ArchiveSound' BY <2>0, <2>2 DEF ArchiveSound
  <2>6. ASSUME NEW u \in Threads, u # t PROVE CheckHolds(u)'
    BY <2>0, <2>1, <2>2, <2>6 DEF CheckHolds
  <2>7. CheckHolds(t)'
    <3>1. ASSUME j.at = "record", j.object.address \in Peers
          PROVE  j.object.version > nodes[j.object.address]
      <4>1. Passes(t, j)
        BY <1>2, <3>1 DEF Kinds, Plain, Records, Stores, Computes, Critical
      <4>2. job[t].todo \in SUBSET Objects BY DEF TypeOK, LearnerTypeOK, Jobs
      <4>3. j.object.version \in 1..MaxVersion BY <4>1, <4>2 DEF Passes, Objects
      <4>4. nodes[j.object.address] \in 0..MaxVersion BY <2>3, <3>1 DEF NodeVersions, Versions
      <4>5. nodes[j.object.address] = 0 \/ ~(j.object.version <= nodes[j.object.address])
        BY <3>1, <4>1 DEF Passes, Outdated, Known
      <4> QED BY <4>3, <4>4, <4>5
    <3>2. ASSUME j.at = "publish"
          PROVE  /\ \A p \in Peers : j.next.nodes[p] >= nodes[p] \/ (j.next.nodes[p] = 0 /\ p \in marked')
                 /\ j.changed = TRUE <=> j.next # CurrentState
      <4>1. Computes(t, j) BY <1>2, <3>2 DEF Kinds, Plain, Passes, Records, Stores, Critical
      <4>2. j.changed = TRUE <=> j.next # CurrentState BY <4>1, DiffersMeans DEF Computes
      <4>3. ASSUME NEW p \in Peers
            PROVE  j.next.nodes[p] >= nodes[p] \/ (j.next.nodes[p] = 0 /\ p \in marked')
        <5>1. j.next.nodes[p] = IF p \in toRemove THEN 0
                                ELSE IF toAdd[p] # 0 THEN toAdd[p] ELSE nodes[p]
          BY <4>1 DEF Computes, WithUpdatedNodes
        <5>2. nodes[p] \in Int /\ toAdd[p] \in Int BY <2>3 DEF NodeVersions, Versions
        <5> QED BY <2>0, <2>2, <5>1, <5>2 DEF PendingIsNewer, RemovedIsMarked
      <4> QED BY <4>2, <4>3
    <3> QED BY <2>0, <2>1, <2>2, <3>1, <3>2 DEF CheckHolds
  <2> QED BY <2>4, <2>5, <2>6, <2>7
<1> QED BY <1>1, <1>2

-----------------------------------------------------------------------------
(* One thread.                                                             *)

\* A single thread overtakes nobody, and stores what it has made pending before it
\* does anything else.
LEMMA StepAlone ==
    ASSUME TypeOK, JobsPlaced, NotOvertaken, Alone, NEW t \in Threads, NEW j, Kinds(t, j)
    PROVE  Alone'
<1> SUFFICES ASSUME OneThread
             PROVE  /\ ~overtaken'
                    /\ SaveMetadata => /\ \A p \in Peers : storage'[p] >= nodes'[p]
                                       /\ \A u \in Threads : StoreHolds(u)'
  BY DEF Alone, OneThread
<1>0. /\ ~overtaken /\ \A u \in Threads : u = t
      /\ Moves(t, j)
  BY DEF Alone, OneThread, Kinds, Plain, Passes, Records, Stores, Computes, Publishes
<1>1. ~overtaken'
  BY <1>0 DEF Kinds, Plain, Passes, Records, Stores, Computes, Publishes, Overtakes
<1>2. ASSUME SaveMetadata
      PROVE  (\A p \in Peers : storage'[p] >= nodes'[p]) /\ StoreHolds(t)'
  <2>1. job'[t] = j /\ j \in Jobs BY <1>0, MovesMeans
  <2>2. /\ \A p \in Peers : storage[p] >= nodes[p]
        /\ StoreHolds(t) /\ CheckHolds(t)
    BY <1>0, <1>2 DEF Alone, NotOvertaken
  <2>3. /\ \A p \in Peers : p \in Addresses /\ storage[p] \in Nat /\ toAdd[p] \in Nat /\ nodes[p] \in Nat
        /\ storage \in [Addresses -> Versions] /\ toAdd \in NodeVersions
        /\ job[t].todo \in SUBSET Objects
    BY DEF TypeOK, LearnerTypeOK, SensorTypeOK, NodeVersions, Versions, Addresses, Jobs
  <2>4. CASE Plain(t, j) \/ Passes(t, j)
    <3>1. /\ UNCHANGED <<storage, toAdd, nodes>> /\ job[t].at # "store"
          /\ j.at \notin {"store", "publish"}
      BY <2>4 DEF Plain, Passes, Critical
    <3>2. \A p \in Peers : storage[p] >= toAdd[p] BY <2>2, <3>1 DEF StoreHolds
    <3>3. ASSUME j.op = "restore"
          PROVE  /\ \A o \in j.todo : o.version = storage[o.address]
                 /\ j.at = "record" => j.object.version = storage[j.object.address]
      <4>1. CASE Plain(t, j) BY <2>2, <3>3, <4>1 DEF Plain, Critical, StoreHolds
      <4>2. CASE Passes(t, j) BY <2>2, <3>3, <4>2 DEF Passes, StoreHolds
      <4> QED BY <2>4, <4>1, <4>2
    <3> QED BY <2>1, <2>2, <3>1, <3>2, <3>3 DEF StoreHolds
  <2>5. CASE Records(t, j)
    <3>0. /\ UNCHANGED <<storage, nodes>> /\ job[t].at = "record" /\ j.at = "store"
          /\ j.op = job[t].op /\ j.todo = job[t].todo /\ j.object = job[t].object
      BY <1>2, <2>5 DEF Records
    <3>1. \A p \in Peers : storage[p] >= toAdd[p] BY <2>2, <3>0 DEF StoreHolds
    <3>2. ASSUME NEW p \in Peers, j.object.address # p PROVE toAdd'[p] = toAdd[p]
      BY <2>3, <2>5, <3>2 DEF Records, RecordNode, NodeVersions
    <3>3. ASSUME j.object.address \in Peers
          PROVE  /\ j.object.version > nodes[j.object.address]
                 /\ j.object.version = toAdd'[j.object.address]
      BY <2>2, <2>3, <2>5, <3>0, <3>3 DEF Records, RecordNode, NodeVersions, CheckHolds
    <3>4. j.op = "restore" => /\ \A o \in j.todo : o.version = storage[o.address]
                              /\ j.object.version = storage[j.object.address]
      BY <2>2, <3>0 DEF StoreHolds
    <3> QED BY <2>1, <2>2, <3>0, <3>1, <3>2, <3>3, <3>4 DEF StoreHolds
  <2>6. CASE Stores(t, j)
    <3>0. /\ UNCHANGED <<toAdd, nodes>> /\ job[t].at = "store" /\ j.at = "verify"
          /\ j.op = job[t].op /\ j.todo = job[t].todo /\ j.object = job[t].object
          /\ j.object.address \in Addresses
          /\ storage' = [storage EXCEPT ![j.object.address] = j.object.version]
      BY <2>6 DEF Stores, Objects
    <3>1. ASSUME NEW p \in Peers PROVE storage'[p] >= toAdd[p] /\ storage'[p] >= nodes[p]
      <4>1. CASE j.object.address = p
        <5>1. storage'[p] = j.object.version BY <2>3, <3>0, <4>1
        <5>2. j.object.version > nodes[p] /\ j.object.version = toAdd[p]
          BY <2>2, <3>0, <4>1 DEF StoreHolds
        <5> QED BY <2>3, <5>1, <5>2
      <4>2. CASE j.object.address # p
        <5>1. storage'[p] = storage[p] BY <2>3, <3>0, <4>2
        <5> QED BY <2>2, <3>0, <4>2, <5>1 DEF StoreHolds
      <4> QED BY <4>1, <4>2
    <3>2. ASSUME j.op = "restore", NEW o \in j.todo PROVE o.version = storage'[o.address]
      <4>1. o.version = storage[o.address] /\ j.object.version = storage[j.object.address]
        BY <2>2, <3>0, <3>2 DEF StoreHolds
      <4>2. o.address \in Addresses BY <2>3, <3>0, <3>2 DEF Objects
      <4> QED BY <2>3, <3>0, <4>1, <4>2
    <3> QED BY <2>1, <3>0, <3>1, <3>2 DEF StoreHolds
  <2>7. CASE Computes(t, j)
    <3>0. /\ UNCHANGED <<storage, toAdd, nodes>> /\ job[t].at = "check" /\ j.at = "publish"
          /\ j.todo = {}
      BY <2>7 DEF Computes
    <3>1. \A p \in Peers : storage[p] >= toAdd[p] BY <2>2, <3>0 DEF StoreHolds
    <3>2. ASSUME NEW p \in Peers PROVE storage[p] >= j.next.nodes[p]
      <4>1. j.next.nodes[p] \in {0, toAdd[p], nodes[p]} BY <2>7 DEF Computes, WithUpdatedNodes
      <4> QED BY <2>2, <2>3, <3>1, <4>1
    <3> QED BY <2>1, <2>2, <3>0, <3>1, <3>2 DEF StoreHolds
  <2>8. CASE Publishes(t, j)
    <3>0. /\ storage' = storage /\ job[t].at = "publish" /\ j.at \notin Critical /\ j.op # "restore"
          /\ nodes' = job[t].next.nodes /\ \A p \in Peers : toAdd'[p] = 0
      BY <2>8 DEF Publishes, NoNodes
    <3>1. \A p \in Peers : storage[p] >= job[t].next.nodes[p] BY <2>2, <3>0 DEF StoreHolds
    <3> QED BY <2>1, <2>3, <3>0, <3>1 DEF StoreHolds, Critical
  <2> QED BY <2>4, <2>5, <2>6, <2>7, <2>8 DEF Kinds
<1> QED BY <1>0, <1>1, <1>2

-----------------------------------------------------------------------------
(* The invariant is inductive.                                             *)

\* A step of a thread keeps it.
LEMMA StepKeeps == ASSUME IInv, NEW t \in Threads, Step(t) PROVE IInv'
<1>1. TypeOK /\ JobsPlaced /\ RemovedIsMarked /\ StoredSoon /\ NotOvertaken /\ Alone BY DEF IInv
<1>2. PICK j : Kinds(t, j) BY <1>1, StepKinds
<1>3. TypeOK' /\ JobsPlaced' BY <1>1, <1>2, StepType
<1>4. RemovedIsMarked'
  BY <1>1, <1>2 DEF RemovedIsMarked, Kinds, Plain, Passes, Records, Stores, Computes, Publishes
<1>5. StoredSoon' BY <1>1, <1>2, StepStored
<1>6. NotOvertaken' BY <1>1, <1>2, StepNotOvertaken
<1>7. Alone' BY <1>1, <1>2, StepAlone
<1> QED BY <1>3, <1>4, <1>5, <1>6, <1>7 DEF IInv

\* What a peer publishes changes nothing here.
LEMMA PublishKeeps == ASSUME IInv, NEW p \in Peers, Publish(p) PROVE IInv'
<1> USE DEF Publish, stateVars, pendingVars, teachVars, threadVars, history
<1>1. TypeOK'
  <2>1. published' \in [Peers -> 1..MaxVersion] BY DEF IInv, TypeOK, LearnerTypeOK
  <2> QED BY <2>1 DEF IInv, TypeOK, SensorTypeOK, LearnerTypeOK
<1>2. JobsPlaced' /\ RemovedIsMarked' BY DEF IInv, JobsPlaced, RemovedIsMarked
<1>3. StoredSoon' BY DEF IInv, StoredSoon, Covered
<1>4. NotOvertaken'
  BY DEF IInv, NotOvertaken, PendingIsNewer, ArchiveSound, CheckHolds, CurrentState
<1>5. Alone' BY DEF IInv, Alone, OneThread, StoreHolds
<1> QED BY <1>1, <1>2, <1>3, <1>4, <1>5 DEF IInv

\* Every step keeps it.
LEMMA NextKeeps == IInv /\ [Next]_vars => IInv'
<1> SUFFICES ASSUME IInv, [Next]_vars PROVE IInv' OBVIOUS
<1>1. CASE Next BY <1>1, PublishKeeps, RestartKeeps, StepKeeps DEF Next
<1>2. CASE UNCHANGED vars
  <2> USE <1>2 DEF vars, stateVars, pendingVars, teachVars, threadVars, history, worldVars
  <2>1. TypeOK' BY DEF IInv, TypeOK, SensorTypeOK, LearnerTypeOK
  <2>2. JobsPlaced' /\ RemovedIsMarked' BY DEF IInv, JobsPlaced, RemovedIsMarked
  <2>3. StoredSoon' BY DEF IInv, StoredSoon, Covered
  <2>4. NotOvertaken'
    BY DEF IInv, NotOvertaken, PendingIsNewer, ArchiveSound, CheckHolds, CurrentState
  <2>5. Alone' BY DEF IInv, Alone, OneThread, StoreHolds
  <2> QED BY <2>1, <2>2, <2>3, <2>4, <2>5 DEF IInv
<1> QED BY <1>1, <1>2

\* The invariant holds in every behaviour.
LEMMA InvHolds == Spec => []IInv
BY InitInv, NextKeeps, PTL DEF Spec

-----------------------------------------------------------------------------
(* The theorems.                                                           *)

\* However many threads share the learner and whenever it crashes, a node that is
\* known or pending is in the storage or about to be written.
THEOREM NothingKnownIsLost == Spec => []KnownIsStored
<1>1. IInv => KnownIsStored BY DEF IInv, StoredSoon, KnownIsStored, Covered
<1> QED BY <1>1, InvHolds, PTL

\* Until a fleet state is published between another thread's check or computation
\* and what follows it, pending objects are newer than the nodes they will replace
\* and the archive is sound, for any number of threads.
THEOREM SoundUntilOvertaken == Spec => [](overtaken \/ SensorSound)
<1>1. IInv => overtaken \/ SensorSound
  BY DEF IInv, NotOvertaken, PendingIsNewer, ArchiveSound, SensorSound
<1> QED BY <1>1, InvHolds, PTL

\* A learner that is used by one thread is never overtaken.
THEOREM OneThreadIsSound == Spec => [](OneThread => SensorSound)
<1>1. IInv => (OneThread => SensorSound)
  BY DEF IInv, Alone, NotOvertaken, PendingIsNewer, ArchiveSound, SensorSound
<1> QED BY <1>1, InvHolds, PTL

\* With one thread, what is known would survive a crash in the version known.
THEOREM OneThreadIsCovered == Spec => [](OneThread => StorageCoversKnown)
<1>1. IInv => (OneThread => StorageCoversKnown) BY DEF IInv, Alone, StorageCoversKnown
<1> QED BY <1>1, InvHolds, PTL

\* A step of a thread that is not overtaken replaces metadata by newer metadata, or
\* removes a peer that was marked.
LEMMA StepNotOutdated ==
    ASSUME IInv, NEW t \in Threads, Step(t), ~overtaken, NEW p \in Peers
    PROVE  nodes'[p] >= nodes[p] \/ (nodes'[p] = 0 /\ p \in marked)
<1>1. TypeOK /\ JobsPlaced /\ CheckHolds(t) BY DEF IInv, NotOvertaken
<1>2. PICK j : Kinds(t, j) BY <1>1, StepKinds
<1>3. nodes[p] \in Int BY <1>1 DEF TypeOK, SensorTypeOK, NodeVersions, Versions
<1>4. CASE Publishes(t, j) BY <1>1, <1>4 DEF Publishes, CheckHolds
<1>5. CASE ~Publishes(t, j)
  <2>1. nodes' = nodes BY <1>2, <1>5 DEF Kinds, Plain, Passes, Records, Stores, Computes
  <2> QED BY <1>3, <2>1
<1> QED BY <1>4, <1>5

\* Known metadata goes back in the two unlocked windows only, for any number of
\* threads.
THEOREM MetadataGoesForward == Spec => OutdatedOnlyIfOvertaken
<1> DEFINE A == boots' = boots /\ ~overtaken =>
                   \A p \in Peers : nodes'[p] >= nodes[p] \/ (nodes'[p] = 0 /\ p \in marked)
<1>1. IInv /\ [Next]_vars => [A]_vars
  <2> SUFFICES ASSUME IInv, Next, boots' = boots, ~overtaken, NEW p \in Peers
               PROVE  nodes'[p] >= nodes[p] \/ (nodes'[p] = 0 /\ p \in marked)
    OBVIOUS
  <2>0. nodes[p] \in Int /\ boots \in Int
    BY DEF IInv, TypeOK, SensorTypeOK, LearnerTypeOK, NodeVersions, Versions
  <2>1. CASE \E q \in Peers : Publish(q) BY <2>0, <2>1 DEF Publish, stateVars
  <2>2. CASE Restart BY <2>0, <2>2 DEF Restart
  <2>3. CASE \E t \in Threads : Step(t) BY <2>3, StepNotOutdated
  <2> QED BY <2>1, <2>2, <2>3 DEF Next
<1> QED BY <1>1, InvHolds, PTL DEF Spec, OutdatedOnlyIfOvertaken

\* While nodes are saved and one thread uses the learner, what it restores from the
\* storage does not displace newer pending metadata.
THEOREM SeedsComeFirst ==
    ASSUME OneThread, SaveMetadata
    PROVE  Spec => SeedsOutrankStorage
<1> DEFINE A == \A t \in Threads : boots' = boots /\ job[t].op = "restore" /\ job[t].at = "record" =>
                   \A p \in Peers : toAdd'[p] >= toAdd[p]
<1>1. IInv /\ [Next]_vars => [A]_vars
  <2> SUFFICES ASSUME IInv, Next, NEW t \in Threads, boots' = boots, job[t].op = "restore",
                      job[t].at = "record", NEW p \in Peers
               PROVE  toAdd'[p] >= toAdd[p]
    OBVIOUS
  <2>0. /\ toAdd \in NodeVersions /\ toAdd[p] \in Int /\ boots \in Int
        /\ TypeOK /\ JobsPlaced /\ StoreHolds(t)
    BY DEF IInv, Alone, TypeOK, SensorTypeOK, LearnerTypeOK, NodeVersions, Versions
  <2>1. CASE \E q \in Peers : Publish(q) BY <2>0, <2>1 DEF Publish, pendingVars
  <2>2. CASE Restart BY <2>0, <2>2 DEF Restart
  <2>3. CASE \E u \in Threads : Step(u)
    <3>1. Step(t) BY <2>3 DEF OneThread
    <3>2. PICK j : Kinds(t, j) BY <2>0, <3>1, StepKinds
    <3>3. Records(t, j)
      BY <3>2 DEF Kinds, Plain, Passes, Stores, Computes, Publishes, Critical
    <3>4. CASE j.object.address = p
      <4>1. toAdd'[p] = j.object.version BY <2>0, <3>3, <3>4 DEF Records, RecordNode, NodeVersions
      <4>2. j.object.version = storage[p] /\ storage[p] >= toAdd[p]
        BY <2>0, <3>3, <3>4 DEF Records, StoreHolds
      <4> QED BY <4>1, <4>2
    <3>5. CASE j.object.address # p
      <4>1. toAdd'[p] = toAdd[p] BY <2>0, <3>3, <3>5 DEF Records, RecordNode, NodeVersions
      <4> QED BY <2>0, <4>1
    <3> QED BY <3>4, <3>5
  <2> QED BY <2>1, <2>2, <2>3 DEF Next
<1> QED BY <1>1, InvHolds, PTL DEF Spec, SeedsOutrankStorage
=============================================================================
