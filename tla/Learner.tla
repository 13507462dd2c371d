------------------------------- MODULE Learner -------------------------------
(***************************************************************************)
(* One learner of the network: nulink.network.nodes.Learner with its       *)
(* nulink.acumen.perception.FleetSensor and its node storage.              *)
(*                                                                         *)
(* The learner is shared by several threads: the learning loop             *)
(* (reactor.callInThread in keep_learning_about_nodes), callers that learn *)
(* on their own thread (block_until_number_of_known_nodes_is), and, on an  *)
(* Ursula, the REST threads that serve POST /node_metadata.  Nothing in    *)
(* the code locks the sensor, so every action here is one access of one    *)
(* thread to the shared state.                                             *)
(*                                                                         *)
(* A node object is abstracted to the address of the peer and the          *)
(* timestamp of its metadata, called its version; version 0 stands for     *)
(* "no node".                                                              *)
(***************************************************************************)
EXTENDS Integers, Sequences

CONSTANTS
    Peers,          \* checksum addresses of the other nodes of the domain
    Foreign,        \* addresses of nodes that serve another domain
    Threads,        \* threads that use this learner
    MaxVersion,     \* bound: how often a peer publishes its metadata
    MaxBoots,       \* bound: how often the learner's process starts
    MaxArchived,    \* maxlen of the deque of archived states
    SaveMetadata,   \* save_metadata: remembered nodes are written to the storage
    IncludeSelf     \* include_self_in_the_state: the learner is an Ursula

ASSUME VersionAssumption  == MaxVersion \in Nat \ {0}
ASSUME BootAssumption     == MaxBoots \in Nat
ASSUME ArchiveAssumption  == MaxArchived \in Nat \ {0}
ASSUME OptionAssumption   == SaveMetadata \in BOOLEAN /\ IncludeSelf \in BOOLEAN
ASSUME DomainAssumption   == Peers \cap Foreign = {}
ASSUME AddressAssumption  == "none" \notin Peers \cup Foreign

VARIABLES
    published,      \* newest metadata each peer has published
    boots,          \* starts of the process so far
    nodes,          \* FleetSensor._current_state: version known of each peer
    selfRecorded,   \* the current state includes the metadata of this node
    toAdd,          \* FleetSensor._nodes_to_add: version pending of each peer
    toRemove,       \* FleetSensor._nodes_to_remove
    archived,       \* FleetSensor._archived_states, by their checksums
    heardFrom,      \* keys of FleetSensor._remote_states
    storage,        \* node_storage: version on disk
    doneSeeding,    \* done_seeding
    teachers,       \* teacher_nodes, a shuffled deque
    teacher,        \* _current_teacher_node
    job,            \* what each thread is doing
    error,          \* the exception that left a thread's last call
    marked,         \* history: peers that mark_as was called for since the start
    overtaken       \* history: a fleet state was published while another thread
                    \* was between a check or a computation and what follows it

pendingVars == <<toAdd, toRemove>>
stateVars   == <<nodes, selfRecorded, archived, heardFrom>>
teachVars   == <<teachers, teacher>>
worldVars   == <<published, boots>>
threadVars  == <<job, error>>
history     == <<marked, overtaken>>
vars == <<worldVars, stateVars, pendingVars, storage, doneSeeding, teachVars,
          threadVars, history>>

-----------------------------------------------------------------------------
None == "none"
Versions == 0..MaxVersion
Addresses == Peers \cup Foreign
NodeVersions == [Peers -> Versions]
NoNodes == [p \in Peers |-> 0]

Objects == [address : Addresses, version : 1..MaxVersion]
NoObject == [address |-> None, version |-> 0]

\* A fleet state is what FleetState.checksum tells apart: the metadata of the
\* known nodes and whether that of this node is included.
FleetStates == [self : BOOLEAN, nodes : NodeVersions]
NewFleetState == [self |-> FALSE, nodes |-> NoNodes]
CurrentState == [self |-> selfRecorded, nodes |-> nodes]

Places == {"idle", "seed", "teach", "request", "check", "record", "store", "verify",
           "compute", "publish", "remote"}
Operations == {"none", "announce", "seed", "restore", "round"}
Errors == {"none", "KeyError", "NotEnoughTeachers", "AlreadySeeded", "Unhandled"}

\* A thread inside an operation of the learner: `todo` are the node objects it
\* still has to remember, `object` the one remember_node is called with, `done`
\* whether the list of remembered nodes is not empty, `from` the teacher of a
\* learning round, `next` and `changed` what with_updated_nodes returned.
Jobs == [at : Places, op : Operations, todo : SUBSET Objects,
         object : Objects \cup {NoObject}, done : BOOLEAN, from : Peers \cup {None},
         next : FleetStates, changed : BOOLEAN]

Doing(at, op, todo, done, from) ==
    [at |-> at, op |-> op, todo |-> todo, object |-> NoObject, done |-> done,
     from |-> from, next |-> NewFleetState, changed |-> FALSE]

Idle == Doing("idle", "none", {}, FALSE, None)

\* Node objects the network can deliver: any metadata a peer has ever published.
Announceable == {o \in Objects : o.address \in Peers => o.version <= published[o.address]}

SensorTypeOK ==
    /\ nodes \in NodeVersions /\ selfRecorded \in BOOLEAN
    /\ toAdd \in NodeVersions /\ toRemove \in SUBSET Peers
    /\ archived \in Seq(FleetStates) /\ Len(archived) \in 1..MaxArchived
    /\ heardFrom \in SUBSET Peers /\ marked \in SUBSET Peers
    /\ overtaken \in BOOLEAN

LearnerTypeOK ==
    /\ published \in [Peers -> 1..MaxVersion] /\ boots \in 0..MaxBoots
    /\ storage \in [Addresses -> Versions]
    /\ doneSeeding \in BOOLEAN
    /\ teachers \in SUBSET Peers /\ teacher \in Peers \cup {None}
    /\ job \in [Threads -> Jobs]
    /\ error \in [Threads -> Errors]

\* The types of the learner's state.  Among them are two facts that take every
\* operation to hold: the archive of FleetSensor is never empty nor longer than
\* its maxlen, and objects of a foreign domain are never known nor pending.
TypeOK == SensorTypeOK /\ LearnerTypeOK

\* Learner.__init__ without known_nodes: the state is recorded once, without
\* the metadata of this node, and equals the one FleetSensor.__init__ archived.
Fresh ==
    /\ nodes' = NoNodes /\ selfRecorded' = FALSE
    /\ toAdd' = NoNodes /\ toRemove' = {}
    /\ archived' = <<NewFleetState>>
    /\ heardFrom' = {}
    /\ doneSeeding' = FALSE
    /\ teachers' = {} /\ teacher' = None
    /\ job' = [t \in Threads |-> Idle]
    /\ error' = [t \in Threads |-> "none"]
    /\ marked' = {} /\ overtaken' = FALSE

Init ==
    /\ published = [p \in Peers |-> 1] /\ boots = 0
    /\ nodes = NoNodes /\ selfRecorded = FALSE
    /\ toAdd = NoNodes /\ toRemove = {}
    /\ archived = <<NewFleetState>>
    /\ heardFrom = {}
    /\ storage = [a \in Addresses |-> 0]
    /\ doneSeeding = FALSE
    /\ teachers = {} /\ teacher = None
    /\ job = [t \in Threads |-> Idle]
    /\ error = [t \in Threads |-> "none"]
    /\ marked = {} /\ overtaken = FALSE

-----------------------------------------------------------------------------
(* FleetSensor and FleetState.                                             *)

Known == {p \in Peers : nodes[p] # 0}

\* record_node: the object replaces a pending one of the same node; an object
\* of another domain is rejected.  (Objects are the same node when they have
\* the same stamp; a peer keeps its stamp when it publishes new metadata.)
RecordNode(o) ==
    toAdd' = IF o.address \in Peers THEN [toAdd EXCEPT ![o.address] = o.version] ELSE toAdd

\* FleetState.with_updated_nodes: a marked address is removed, and a pending
\* object of it is dropped; the metadata of this node joins the state.
WithUpdatedNodes ==
    [self  |-> selfRecorded \/ IncludeSelf,
     nodes |-> [p \in Peers |-> IF p \in toRemove THEN 0
                                ELSE IF toAdd[p] # 0 THEN toAdd[p]
                                ELSE nodes[p]]]

\* FleetState._calculate_diff, as `not diff.empty()`.
StateDiffers ==
    \/ IncludeSelf /\ ~selfRecorded
    \/ \E p \in Peers \ toRemove : toAdd[p] # 0 /\ toAdd[p] # nodes[p]
    \/ \E p \in toRemove : nodes[p] # 0

\* deque(maxlen): appending to a full deque drops its oldest entry.
AppendBounded(s, e) ==
    IF Len(s) < MaxArchived THEN Append(s, e) ELSE Append(Tail(s), e)

-----------------------------------------------------------------------------
(* Choosing a teacher.                                                     *)

\* The teachers cycle_teacher_node can pop from: when the deque is empty,
\* select_teacher_nodes puts all known nodes into it first.
Candidates == IF teachers = {} THEN Known ELSE teachers

\* cycle_teacher_node.
CycleTo(p) == p \in Candidates /\ teacher' = p /\ teachers' = Candidates \ {p}

\* The operation of thread t ends, with the exception e or normally.
Leave(t, e) ==
    /\ job' = [job EXCEPT ![t] = Idle]
    /\ error' = [error EXCEPT ![t] = e]

\* Thread t begins an operation.
Begin(t, j) ==
    /\ job' = [job EXCEPT ![t] = j]
    /\ error' = [error EXCEPT ![t] = "none"]

\* The operation of thread t goes on.
GoOn(t, j) == job' = [job EXCEPT ![t] = j] /\ UNCHANGED error

\* select_teacher_nodes finds nobody, in a `finally` too.
NobodyToCycleTo(t) ==
    Candidates = {} /\ Leave(t, "NotEnoughTeachers") /\ UNCHANGED teachVars

-----------------------------------------------------------------------------
(* The network and the process.                                            *)

\* A peer restarts with new metadata.
Publish(p) ==
    /\ published[p] < MaxVersion
    /\ published' = [published EXCEPT ![p] = @ + 1]
    /\ UNCHANGED <<boots, stateVars, pendingVars, storage, doneSeeding, teachVars,
                   threadVars, history>>

\* The process dies, whatever its threads are doing, and starts again: only the
\* storage survives.
Restart ==
    /\ boots < MaxBoots
    /\ boots' = boots + 1
    /\ Fresh
    /\ UNCHANGED <<published, storage>>

-----------------------------------------------------------------------------
(* A REST thread of an Ursula: node_metadata_exchange.                     *)

\* The request announces the metadata of the node that sends it, delivered late
\* perhaps; it is remembered and the fleet state recorded.
BeginAnnouncement(t) ==
    /\ job[t].at = "idle"
    /\ \E o \in Announceable : Begin(t, Doing("check", "announce", {o}, FALSE, None))
    /\ UNCHANGED <<worldVars, stateVars, pendingVars, storage, doneSeeding, teachVars, history>>

-----------------------------------------------------------------------------
(* learn_from_teacher_node.                                                *)

\* `if not self.done_seeding`, read before load_seednodes is entered.
BeginRound(t) ==
    /\ job[t].at = "idle"
    /\ Begin(t, Doing(IF doneSeeding THEN "teach" ELSE "seed", "round", {}, FALSE, None))
    /\ UNCHANGED <<worldVars, stateVars, pendingVars, storage, doneSeeding, teachVars, history>>

\* load_seednodes: seed nodes are asked for their present metadata, and some do
\* not answer.
LoadSeednodes(t) ==
    /\ job[t].at = "seed" /\ ~doneSeeding
    /\ \E seeds \in SUBSET Peers :
          GoOn(t, Doing("check", "seed",
                        {[address |-> p, version |-> published[p]] : p \in seeds},
                        seeds # {}, None))
    /\ UNCHANGED <<worldVars, stateVars, pendingVars, storage, doneSeeding, teachVars, history>>

\* load_seednodes refuses to seed twice: another thread has seeded meanwhile.
AlreadySeeded(t) ==
    /\ job[t].at = "seed" /\ doneSeeding
    /\ Leave(t, "AlreadySeeded")
    /\ UNCHANGED <<worldVars, stateVars, pendingVars, storage, doneSeeding, teachVars, history>>

\* The stored nodes of this domain.
Stored == {[address |-> p, version |-> storage[p]] : p \in {q \in Peers : storage[q] # 0}}

\* All seed nodes are remembered: done_seeding is set, and then the storage is
\* read.  What is discovered counts even when remember_node returned False.
ReadStorage(t) ==
    /\ job[t].at = "check" /\ job[t].op = "seed" /\ job[t].todo = {}
    /\ doneSeeding' = TRUE
    /\ GoOn(t, Doing("check", "restore", Stored, job[t].done \/ Stored # {}, None))
    /\ UNCHANGED <<worldVars, stateVars, pendingVars, storage, teachVars, history>>

\* current_teacher_node: there is a teacher already.
KeepTeacher(t) ==
    /\ job[t].at = "teach" /\ teacher # None
    /\ GoOn(t, Doing("request", "round", {}, job[t].done, teacher))
    /\ UNCHANGED <<worldVars, stateVars, pendingVars, storage, doneSeeding, teachVars, history>>

\* current_teacher_node: the first teacher is chosen.
ChooseTeacher(t) ==
    /\ job[t].at = "teach" /\ teacher = None
    /\ \/ NobodyToCycleTo(t)
       \/ \E p \in Candidates :
             CycleTo(p) /\ GoOn(t, Doing("request", "round", {}, job[t].done, p))
    /\ UNCHANGED <<worldVars, stateVars, pendingVars, storage, doneSeeding, history>>

\* The learning loop was stopped: the round ends before its request is sent.
RoundCancelled(t) ==
    /\ job[t].at = "request"
    /\ Leave(t, "none")
    /\ UNCHANGED <<worldVars, stateVars, pendingVars, storage, doneSeeding, teachVars, history>>

\* The teacher is down, answers with an error, for another domain or with bytes
\* that do not verify: nothing is learned.  Any other exception leaves the call.
FruitlessRequest(t) ==
    /\ job[t].at = "request"
    /\ \/ NobodyToCycleTo(t)
       \/ \E p \in Candidates, e \in {"none", "Unhandled"} : CycleTo(p) /\ Leave(t, e)
    /\ UNCHANGED <<worldVars, stateVars, pendingVars, storage, doneSeeding, history>>

\* InvalidNode: the teacher is marked, and stays known until the next
\* record_fleet_state.
InvalidTeacher(t) ==
    /\ job[t].at = "request"
    /\ toRemove' = toRemove \cup {job[t].from}
    /\ marked' = marked \cup {job[t].from}
    /\ \/ NobodyToCycleTo(t)
       \/ \E p \in Candidates : CycleTo(p) /\ Leave(t, "none")
    /\ UNCHANGED <<worldVars, stateVars, toAdd, storage, doneSeeding, overtaken>>

\* The teacher answers with an empty list, for it has the same fleet state, or
\* with its own metadata and that of a node it knows.
Answers(from) ==
    {{[address |-> from, version |-> published[from]]} \cup others :
        others \in {{}} \cup {{o} : o \in {x \in Announceable : x.address # from}}}

TeacherAnswers(t) ==
    /\ job[t].at = "request"
    /\ \/ NobodyToCycleTo(t)
       \/ \E p \in Candidates :
             /\ CycleTo(p)
             /\ \/ GoOn(t, Doing("remote", "round", {}, FALSE, job[t].from))
                \/ \E answer \in Answers(job[t].from) :
                      GoOn(t, Doing("check", "round", answer, job[t].done, job[t].from))
    /\ UNCHANGED <<worldVars, stateVars, pendingVars, storage, doneSeeding, history>>

-----------------------------------------------------------------------------
(* remember_node, for one object at a time.                                *)

\* Seeded fault: objects with the timestamp of the known node pass.
OutdatedStrictly(o) == o.address \in Known /\ o.version < nodes[o.address]

\* Seeded fault: nothing is outdated.
OutdatedNever(o) == FALSE

\* The object represents a known node and is not newer than it.
Outdated(o) == o.address \in Known /\ o.version <= nodes[o.address]

\* An outdated object is dropped.
SkipOutdated(t) ==
    /\ job[t].at = "check"
    /\ \E o \in job[t].todo :
          Outdated(o) /\ GoOn(t, [job[t] EXCEPT !.todo = @ \ {o}])
    /\ UNCHANGED <<worldVars, stateVars, pendingVars, storage, doneSeeding, teachVars, history>>

\* Any other passes the check, which is not made again.
PassTimestampCheck(t) ==
    /\ job[t].at = "check"
    /\ \E o \in job[t].todo :
          ~Outdated(o) /\ GoOn(t, [job[t] EXCEPT !.todo = @ \ {o}, !.object = o, !.at = "record"])
    /\ UNCHANGED <<worldVars, stateVars, pendingVars, storage, doneSeeding, teachVars, history>>

\* known_nodes.record_node.
Record(t) ==
    /\ job[t].at = "record"
    /\ RecordNode(job[t].object)
    /\ GoOn(t, [job[t] EXCEPT !.at = IF SaveMetadata THEN "store" ELSE "verify"])
    /\ UNCHANGED <<worldVars, stateVars, toRemove, storage, doneSeeding, teachVars, history>>

\* Seeded fault: save_metadata is forgotten for nodes that are not known yet.
StoreOnlyUpdates(t) ==
    /\ job[t].at = "store"
    /\ storage' = IF job[t].object.address \in Known
                  THEN [storage EXCEPT ![job[t].object.address] = job[t].object.version]
                  ELSE storage
    /\ GoOn(t, [job[t] EXCEPT !.at = "verify"])
    /\ UNCHANGED <<worldVars, stateVars, pendingVars, doneSeeding, teachVars, history>>

\* Seeded fault: seed nodes are not written to the storage.
StoreSkipsSeeds(t) ==
    /\ job[t].at = "store"
    /\ storage' = IF job[t].op = "seed" THEN storage
                  ELSE [storage EXCEPT ![job[t].object.address] = job[t].object.version]
    /\ GoOn(t, [job[t] EXCEPT !.at = "verify"])
    /\ UNCHANGED <<worldVars, stateVars, pendingVars, doneSeeding, teachVars, history>>

\* node_storage.store_node_metadata, of foreign nodes too.
Store(t) ==
    /\ job[t].at = "store"
    /\ storage' = [storage EXCEPT ![job[t].object.address] = job[t].object.version]
    /\ GoOn(t, [job[t] EXCEPT !.at = "verify"])
    /\ UNCHANGED <<worldVars, stateVars, pendingVars, doneSeeding, teachVars, history>>

\* remember_node returns the node.
Remembered(t) ==
    /\ job[t].at = "verify"
    /\ GoOn(t, [job[t] EXCEPT !.at = "check", !.object = NoObject, !.done = TRUE])
    /\ UNCHANGED <<worldVars, stateVars, pendingVars, storage, doneSeeding, teachVars, history>>

\* An eager round: the node does not verify, so it does not count as remembered,
\* or the exception is one that learn_from_teacher_node does not catch.  It is
\* pending and stored all the same.
NotVerified(t) ==
    /\ job[t].at = "verify" /\ job[t].op = "round"
    /\ \/ GoOn(t, [job[t] EXCEPT !.at = "check", !.object = NoObject])
       \/ Leave(t, "Unhandled")
    /\ UNCHANGED <<worldVars, stateVars, pendingVars, storage, doneSeeding, teachVars, history>>

-----------------------------------------------------------------------------
(* record_fleet_state and what follows it.                                 *)

\* Where a thread goes after its last object, or after record_fleet_state.  What
\* seeding discovered counts as remembered in the round that follows it.
AfterRecording(op) == CASE op = "restore" -> "teach"
                        [] op = "round"   -> "remote"
                        [] OTHER          -> "idle"

Proceed(t) ==
    LET at == AfterRecording(job[t].op)
    IN  IF at = "idle" THEN Leave(t, "none")
        ELSE GoOn(t, Doing(at, "round", {}, at = "teach" /\ job[t].done, job[t].from))

\* Nothing was remembered: the fleet state is not recorded.
NothingRemembered(t) ==
    /\ job[t].at = "check" /\ job[t].op # "seed" /\ job[t].todo = {} /\ ~job[t].done
    /\ Proceed(t)
    /\ UNCHANGED <<worldVars, stateVars, pendingVars, storage, doneSeeding, teachVars, history>>

\* record_fleet_state, first half: the new state is computed from the current
\* one and the pending sets.
ComputeFleetState(t) ==
    /\ job[t].at = "check" /\ job[t].op # "seed" /\ job[t].todo = {} /\ job[t].done
    /\ GoOn(t, [job[t] EXCEPT !.at = "publish", !.next = WithUpdatedNodes, !.changed = StateDiffers])
    /\ UNCHANGED <<worldVars, stateVars, pendingVars, storage, doneSeeding, teachVars, history>>

\* Another thread is about to record what it checked against the state that t
\* replaces, or to publish what it computed from it.
Overtakes(t) ==
    overtaken' = (overtaken \/ \E u \in Threads \ {t} : job[u].at \in {"record", "publish"})

\* record_fleet_state, second half: the pending sets are emptied, the state is
\* replaced, and archived if it differs from the one it was computed from.
PublishFleetState(t) ==
    /\ job[t].at = "publish"
    /\ toAdd' = NoNodes /\ toRemove' = {}
    /\ nodes' = job[t].next.nodes /\ selfRecorded' = job[t].next.self
    /\ archived' = IF job[t].changed THEN AppendBounded(archived, job[t].next) ELSE archived
    /\ Overtakes(t)
    /\ Proceed(t)
    /\ UNCHANGED <<worldVars, heardFrom, storage, doneSeeding, teachVars, marked>>

\* record_remote_fleet_state.
RecordRemoteFleetState(t) ==
    /\ job[t].at = "remote" /\ job[t].from \in Known
    /\ heardFrom' = heardFrom \cup {job[t].from}
    /\ Leave(t, "none")
    /\ UNCHANGED <<worldVars, nodes, selfRecorded, archived, pendingVars, storage,
                   doneSeeding, teachVars, history>>

\* record_remote_fleet_state raises: the teacher is not known any more.
TeacherForgotten(t) ==
    /\ job[t].at = "remote" /\ job[t].from \notin Known
    /\ Leave(t, "KeyError")
    /\ UNCHANGED <<worldVars, stateVars, pendingVars, storage, doneSeeding, teachVars, history>>

-----------------------------------------------------------------------------
Step(t) ==
    \/ BeginAnnouncement(t) \/ BeginRound(t)
    \/ LoadSeednodes(t) \/ AlreadySeeded(t) \/ ReadStorage(t)
    \/ KeepTeacher(t) \/ ChooseTeacher(t)
    \/ RoundCancelled(t) \/ FruitlessRequest(t) \/ InvalidTeacher(t) \/ TeacherAnswers(t)
    \/ SkipOutdated(t) \/ PassTimestampCheck(t)
    \/ Record(t) \/ Store(t) \/ Remembered(t) \/ NotVerified(t)
    \/ NothingRemembered(t) \/ ComputeFleetState(t) \/ PublishFleetState(t)
    \/ RecordRemoteFleetState(t) \/ TeacherForgotten(t)

Next == (\E p \in Peers : Publish(p)) \/ Restart \/ (\E t \in Threads : Step(t))

Spec == Init /\ [][Next]_vars

-----------------------------------------------------------------------------
(* Properties.                                                             *)

\* Threads that share the learner replace known metadata by an outdated version in
\* two windows only, which no lock closes: between the check in remember_node and
\* record_node, and between the two halves of record_fleet_state.
OutdatedOnlyIfOvertaken ==
    [][boots' = boots /\ ~overtaken =>
          \A p \in Peers : nodes'[p] >= nodes[p] \/ (nodes'[p] = 0 /\ p \in marked)]_vars

\* While nodes are saved, fresh metadata from a seed node is never displaced in
\* the pending set by what an earlier run left in the storage: load_seednodes
\* stores every seed node before read_nodes_from_storage reads.
SeedsOutrankStorage ==
    [][\A t \in Threads : boots' = boots /\ job[t].op = "restore" /\ job[t].at = "record" =>
          \A p \in Peers : toAdd'[p] >= toAdd[p]]_vars

\* With TypeOK, on which it rests: a pending object is newer than the known node
\* it will replace, although remember_node compares with the current state and the
\* object waits in the pending set for some later record_fleet_state; and the
\* bounded archive ends in the current state, consecutive entries differing, so
\* that previous_states() returns states the fleet was really in before.
SensorSound ==
    /\ TypeOK
    /\ \A p \in Peers : toAdd[p] # 0 => toAdd[p] > nodes[p]
    /\ archived[Len(archived)] = CurrentState
    /\ \A i \in 1..(Len(archived) - 1) : archived[i] # archived[i + 1]

\* With save_metadata, what is known would survive a restart: the storage has
\* every known node, in the version known or a newer one.
StorageCoversKnown == SaveMetadata => \A p \in Peers : storage[p] >= nodes[p]

\* However many threads share the learner, a node that is known or pending is in
\* the storage, in some version, or about to be written: a crash at any moment
\* loses at most the node that is being remembered.
KnownIsStored ==
    SaveMetadata => \A p \in Peers :
        nodes[p] # 0 \/ toAdd[p] # 0 =>
            storage[p] # 0 \/ \E t \in Threads : job[t].at = "store" /\ job[t].object.address = p

=============================================================================
