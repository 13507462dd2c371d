----------------------------- MODULE FleetGossip -----------------------------
(***************************************************************************)
(* The network of Ursulas: how fleet states spread through POST             *)
(* /node_metadata.  Every node is a learner, which asks one teacher after   *)
(* another, and a teacher, which remembers whoever asks and answers with    *)
(* all it knows.  Learner has the detail of one node; here its operations   *)
(* are single steps and the messages between nodes are explicit.            *)
(*                                                                         *)
(* A fleet state is a function from nodes to the version of the metadata    *)
(* recorded for them, 0 if none, the node itself included: two checksums    *)
(* are equal exactly when these functions are.                              *)
(***************************************************************************)
EXTENDS Integers

CONSTANTS
    Nodes,          \* Ursulas of the domain
    Seeds,          \* TEACHER_NODES of the domain and the nodes given by --teacher
    Restarting,     \* nodes whose process dies and starts again
    MaxVersion,     \* bound: how often a node starts, each time with new metadata
    MaxLosses       \* bound: requests or answers that are lost

ASSUME NodeAssumption    == Seeds \subseteq Nodes /\ Restarting \subseteq Nodes
ASSUME VersionAssumption == MaxVersion \in Nat \ {0}
ASSUME LossAssumption    == MaxLosses \in Nat
ASSUME NobodyAssumption  == "none" \notin Nodes

VARIABLES
    version,        \* the metadata each node has generated last
    fleet,          \* known_nodes of each node
    storage,        \* node_storage of each node
    seeded,         \* done_seeding
    teachers,       \* teacher_nodes
    teacher,        \* _current_teacher_node
    exchange,       \* the request each node waits for, if any
    late,           \* requests whose sender has died and that still arrive
    losses          \* messages lost so far

knowledgeVars == <<fleet, storage>>
vars == <<version, knowledgeVars, seeded, teachers, teacher, exchange, late, losses>>

-----------------------------------------------------------------------------
Nobody == "none"
FleetStates == [Nodes -> 0..MaxVersion]
NoFleet == [n \in Nodes |-> 0]

\* A request carries the checksum of the learner's state and its metadata; an
\* answer the teacher's nodes, unless the teacher had the same state.
Exchanges == [at : {"none", "sent", "same", "answered"}, to : Nodes \cup {Nobody},
              checksum : FleetStates, announced : 0..MaxVersion, answer : FleetStates]
NoExchange == [at |-> "none", to |-> Nobody, checksum |-> NoFleet, announced |-> 0,
               answer |-> NoFleet]

Requests == [from : Nodes, to : Nodes, announced : 1..MaxVersion]

\* The types of the network's state; a node never asks nobody or itself.
TypeOK ==
    /\ version \in [Nodes -> 1..MaxVersion]
    /\ fleet \in [Nodes -> FleetStates] /\ storage \in [Nodes -> FleetStates]
    /\ seeded \in [Nodes -> BOOLEAN]
    /\ teachers \in [Nodes -> SUBSET Nodes] /\ teacher \in [Nodes -> Nodes \cup {Nobody}]
    /\ exchange \in [Nodes -> Exchanges]
    /\ \A n \in Nodes : exchange[n].at # "none" => exchange[n].to \in Nodes \ {n}
    /\ late \in SUBSET Requests
    /\ losses \in 0..MaxLosses

Init ==
    /\ version = [n \in Nodes |-> 1]
    /\ fleet = [n \in Nodes |-> NoFleet] /\ storage = [n \in Nodes |-> NoFleet]
    /\ seeded = [n \in Nodes |-> FALSE]
    /\ teachers = [n \in Nodes |-> {}] /\ teacher = [n \in Nodes |-> Nobody]
    /\ exchange = [n \in Nodes |-> NoExchange]
    /\ late = {}
    /\ losses = 0

-----------------------------------------------------------------------------
(* What a node does with metadata.                                         *)

Known(n) == {m \in Nodes \ {n} : fleet[n][m] # 0}

\* Seeded fault: the timestamp is not compared.
NewerAny(n, told) == {m \in Nodes \ {n} : told[m] # 0}

\* remember_node keeps what is newer than the node known, and nothing of itself.
Newer(n, told) == {m \in Nodes \ {n} : told[m] > fleet[n][m]}

\* Seeded fault: nothing is written to the storage.
LearnWithoutSaving(n, told) ==
    LET newer == Newer(n, told)
    IN  /\ fleet' = [fleet EXCEPT ![n] =
              IF newer = {} THEN fleet[n]
              ELSE [m \in Nodes |-> IF m = n THEN version[n]
                                    ELSE IF m \in newer THEN told[m] ELSE fleet[n][m]]]
        /\ storage' = storage

\* remember_node for all the metadata of told, and record_fleet_state, which
\* adds the present metadata of n itself.
Learn(n, told) ==
    LET newer == Newer(n, told)
    IN  /\ fleet' = [fleet EXCEPT ![n] =
              IF newer = {} THEN fleet[n]
              ELSE [m \in Nodes |-> IF m = n THEN version[n]
                                    ELSE IF m \in newer THEN told[m] ELSE fleet[n][m]]]
        /\ storage' = [storage EXCEPT ![n] =
              [m \in Nodes |-> IF m \in newer THEN told[m] ELSE storage[n][m]]]

-----------------------------------------------------------------------------
(* A node as a learner.                                                    *)

\* load_seednodes: the seed nodes that answer are stored, then the storage is
\* read.  Seeding is done once, whatever it found; that some seed node answers
\* is an assumption.
Seed(n) ==
    /\ ~seeded[n]
    /\ \E up \in SUBSET (Seeds \ {n}) :
          /\ Seeds \ {n} # {} => up # {}
          /\ Learn(n, [m \in Nodes |-> IF m \in up THEN version[m] ELSE storage[n][m]])
    /\ seeded' = [seeded EXCEPT ![n] = TRUE]
    /\ UNCHANGED <<version, teachers, teacher, exchange, late, losses>>

Candidates(n) == IF teachers[n] = {} THEN Known(n) ELSE teachers[n]

\* cycle_teacher_node: nobody is asked again before all others were.
CycleTo(n, m) ==
    /\ m \in Candidates(n)
    /\ teacher' = [teacher EXCEPT ![n] = m]
    /\ teachers' = [teachers EXCEPT ![n] = Candidates(n) \ {m}]

\* current_teacher_node, for the first time.
ChooseTeacher(n) ==
    /\ seeded[n] /\ exchange[n].at = "none" /\ teacher[n] = Nobody
    /\ \E m \in Candidates(n) : CycleTo(n, m)
    /\ UNCHANGED <<version, knowledgeVars, seeded, exchange, late, losses>>

\* Seeded fault: the request is sent before a teacher is chosen.
AskNobody(n) ==
    /\ seeded[n] /\ exchange[n].at = "none"
    /\ exchange' = [exchange EXCEPT ![n] =
          [NoExchange EXCEPT !.at = "sent", !.to = teacher[n], !.checksum = fleet[n],
                             !.announced = version[n]]]
    /\ UNCHANGED <<version, knowledgeVars, seeded, teachers, teacher, late, losses>>

\* get_nodes_via_rest.
Ask(n) ==
    /\ seeded[n] /\ exchange[n].at = "none" /\ teacher[n] # Nobody
    /\ exchange' = [exchange EXCEPT ![n] =
          [NoExchange EXCEPT !.at = "sent", !.to = teacher[n], !.checksum = fleet[n],
                             !.announced = version[n]]]
    /\ UNCHANGED <<version, knowledgeVars, seeded, teachers, teacher, late, losses>>

\* The answer is used and the next teacher chosen.
Receive(n) ==
    /\ exchange[n].at \in {"same", "answered"}
    /\ Learn(n, exchange[n].answer)
    /\ \E m \in Candidates(n) : CycleTo(n, m)
    /\ exchange' = [exchange EXCEPT ![n] = NoExchange]
    /\ UNCHANGED <<version, seeded, late, losses>>

\* The request or the answer is lost: NodeSeemsToBeDown, or a bad response.
Lose(n) ==
    /\ losses < MaxLosses /\ exchange[n].at # "none"
    /\ losses' = losses + 1
    /\ \E m \in Candidates(n) : CycleTo(n, m)
    /\ exchange' = [exchange EXCEPT ![n] = NoExchange]
    /\ UNCHANGED <<version, knowledgeVars, seeded, late>>

-----------------------------------------------------------------------------
(* A node as a teacher: node_metadata_exchange.                            *)

\* Seeded fault: the node that asks is not remembered.
AnswerForgetsAnnouncement(m, n) ==
    /\ exchange[n].at = "sent" /\ exchange[n].to = m /\ exchange[n].checksum # fleet[m]
    /\ Learn(m, NoFleet)
    /\ exchange' = [exchange EXCEPT ![n].at = "answered",
                                    ![n].answer = [fleet[m] EXCEPT ![m] = version[m]]]
    /\ UNCHANGED <<version, seeded, teachers, teacher, late, losses>>

\* Seeded fault: the teacher's own entry carries the metadata of the learner.
AnswerSwapped(m, n) ==
    /\ exchange[n].at = "sent" /\ exchange[n].to = m /\ exchange[n].checksum # fleet[m]
    /\ Learn(m, [NoFleet EXCEPT ![n] = exchange[n].announced])
    /\ exchange' = [exchange EXCEPT ![n].at = "answered",
                                    ![n].answer = [fleet'[m] EXCEPT ![m] = exchange[n].announced]]
    /\ UNCHANGED <<version, seeded, teachers, teacher, late, losses>>

\* The node that asks is remembered, and told of this node and all it knows.
Answer(m, n) ==
    /\ exchange[n].at = "sent" /\ exchange[n].to = m /\ exchange[n].checksum # fleet[m]
    /\ Learn(m, [NoFleet EXCEPT ![n] = exchange[n].announced])
    /\ exchange' = [exchange EXCEPT ![n].at = "answered",
                                    ![n].answer = [fleet'[m] EXCEPT ![m] = version[m]]]
    /\ UNCHANGED <<version, seeded, teachers, teacher, late, losses>>

\* The fleet states are the same: the answer is empty, and the announcement is
\* not even looked at.
AnswerSame(m, n) ==
    /\ exchange[n].at = "sent" /\ exchange[n].to = m /\ exchange[n].checksum = fleet[m]
    /\ exchange' = [exchange EXCEPT ![n].at = "same"]
    /\ UNCHANGED <<version, knowledgeVars, seeded, teachers, teacher, late, losses>>

\* A request that outlives its sender is served, and nobody waits for the answer.
ServeLate(r) ==
    /\ r \in late
    /\ late' = late \ {r}
    /\ Learn(r.to, [NoFleet EXCEPT ![r.from] = r.announced])
    /\ UNCHANGED <<version, seeded, teachers, teacher, exchange, losses>>

\* The process of n dies and starts again: it generates new metadata, and only
\* the storage survives.
Restart(n) ==
    /\ n \in Restarting /\ version[n] < MaxVersion
    /\ version' = [version EXCEPT ![n] = @ + 1]
    /\ fleet' = [fleet EXCEPT ![n] = NoFleet]
    /\ seeded' = [seeded EXCEPT ![n] = FALSE]
    /\ teachers' = [teachers EXCEPT ![n] = {}] /\ teacher' = [teacher EXCEPT ![n] = Nobody]
    /\ exchange' = [exchange EXCEPT ![n] = NoExchange]
    /\ late' = late \cup {r \in Requests :
          /\ exchange[n].at = "sent"
          /\ r = [from |-> n, to |-> exchange[n].to, announced |-> exchange[n].announced]}
    /\ UNCHANGED <<storage, losses>>

-----------------------------------------------------------------------------
Next ==
    \/ \E n \in Nodes : Seed(n) \/ ChooseTeacher(n) \/ Ask(n) \/ Receive(n) \/ Lose(n) \/ Restart(n)
    \/ \E m, n \in Nodes : Answer(m, n) \/ AnswerSame(m, n)
    \/ \E r \in late : ServeLate(r)

Spec == Init /\ [][Next]_vars

\* The learning loop of every node runs for ever and every request is answered,
\* or fails: the request has a timeout.
Fairness ==
    /\ \A n \in Nodes :
        /\ WF_vars(Seed(n)) /\ WF_vars(ChooseTeacher(n)) /\ WF_vars(Ask(n)) /\ WF_vars(Receive(n))
        /\ \A m \in Nodes : WF_vars(Answer(m, n) \/ AnswerSame(m, n))
    /\ WF_vars(\E r \in late : ServeLate(r))

LiveSpec == Spec /\ Fairness

-----------------------------------------------------------------------------
(* Properties.                                                             *)

\* No node holds metadata of another that is newer than the one that node has
\* generated last, in its fleet state or its storage, however answers, late
\* requests and restarts overlap.
KnowledgePublished ==
    \A n, m \in Nodes : fleet[n][m] <= version[m] /\ storage[n][m] <= version[m]

\* A restart loses nothing a node knew of the others: the storage has it.
StorageCovers == \A n, m \in Nodes : m # n => storage[n][m] >= fleet[n][m]

\* What a node knows of others only gets newer, except that its own restart
\* clears it.
KnowledgeGrows ==
    [][\A n, m \in Nodes : version'[n] = version[n] => fleet'[n][m] >= fleet[n][m]]_vars

\* When nodes stop restarting and messages stop getting lost, every fleet state
\* becomes, and stays, the set of all nodes with their latest metadata.
FleetConverges == <>[](\A n \in Nodes : fleet[n] = version)
=============================================================================
