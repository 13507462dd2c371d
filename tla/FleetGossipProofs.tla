-------------------------- MODULE FleetGossipProofs --------------------------
(***************************************************************************)
(* Proofs about the fleet.                                                  *)
(*                                                                         *)
(* FleetGossip, for any set of nodes and seeds and any bounds: the inductive  *)
(* invariant adds to the properties what they rest on, namely that nobody is  *)
(* a teacher of itself, and that no message carries metadata that its subject *)
(* has not generated.                                                       *)
(*                                                                         *)
(* NodeVerification, what a node does before it uses one that it has learned  *)
(* of, for any number of threads: a node that counts as verified was checked, *)
(* and nothing but a second maturation takes back what has been verified.     *)
(***************************************************************************)
EXTENDS FleetGossip, NodeVerification, FiniteSetTheorems, TLAPS

Versions == 0..MaxVersion

\* Teachers come from the fleet state, which is read without the node itself.
NotOwnTeacher == \A n \in Nodes : teacher[n] # n /\ n \notin teachers[n]

\* What travels between nodes is what its subject has generated.
MessagesPublished ==
    /\ \A n \in Nodes : exchange[n].announced <= version[n]
    /\ \A n, m \in Nodes : exchange[n].answer[m] <= version[m]
    /\ \A r \in late : r.announced <= version[r.from]

IInv == TypeOK /\ NotOwnTeacher /\ KnowledgePublished /\ MessagesPublished /\ StorageCovers

-----------------------------------------------------------------------------
(* What learning does to the fleet state and the storage.                  *)

\* Only the learner changes; its entries stay or become what it was told, which
\* is newer, or its own present metadata; the storage follows.
LEMMA LearnFacts ==
    ASSUME NEW n \in Nodes, NEW told \in FleetStates, TypeOK, Learn(n, told)
    PROVE  /\ fleet' \in [Nodes -> FleetStates] /\ storage' \in [Nodes -> FleetStates]
           /\ \A k \in Nodes \ {n} : fleet'[k] = fleet[k] /\ storage'[k] = storage[k]
           /\ \A m \in Nodes \ {n} :
                 \/ fleet'[n][m] = fleet[n][m] /\ storage'[n][m] = storage[n][m]
                 \/ told[m] > fleet[n][m] /\ fleet'[n][m] = told[m] /\ storage'[n][m] = told[m]
           /\ fleet'[n][n] \in {fleet[n][n], version[n]} /\ storage'[n][n] = storage[n][n]
PROOF
  <1> DEFINE newer == Newer(n, told)
             f == [m \in Nodes |-> IF m = n THEN version[n]
                                   ELSE IF m \in newer THEN told[m] ELSE fleet[n][m]]
             s == [m \in Nodes |-> IF m \in newer THEN told[m] ELSE storage[n][m]]
  <1>1. fleet \in [Nodes -> FleetStates] /\ storage \in [Nodes -> FleetStates]
        /\ version[n] \in Versions /\ fleet[n] \in FleetStates /\ storage[n] \in FleetStates
    BY VersionAssumption DEF TypeOK, Versions
  <1>2. f \in FleetStates /\ s \in FleetStates
    BY <1>1 DEF FleetStates, Versions
  <1>3. fleet' = [fleet EXCEPT ![n] = IF newer = {} THEN fleet[n] ELSE f]
        /\ storage' = [storage EXCEPT ![n] = s]
    BY DEF Learn
  <1>4. fleet' \in [Nodes -> FleetStates] /\ storage' \in [Nodes -> FleetStates]
    <2> HIDE DEF f, s, newer
    <2> QED BY <1>1, <1>2, <1>3
  <1>5. \A k \in Nodes \ {n} : fleet'[k] = fleet[k] /\ storage'[k] = storage[k]
    <2> HIDE DEF f, s, newer
    <2> QED BY <1>1, <1>3
  <1>6. fleet'[n] = (IF newer = {} THEN fleet[n] ELSE f) /\ storage'[n] = s
    <2> HIDE DEF f, s, newer
    <2> QED BY <1>1, <1>3
  <1>7. ASSUME NEW m \in Nodes \ {n}
        PROVE  \/ fleet'[n][m] = fleet[n][m] /\ storage'[n][m] = storage[n][m]
               \/ told[m] > fleet[n][m] /\ fleet'[n][m] = told[m] /\ storage'[n][m] = told[m]
    <2>1. CASE m \in newer
      <3>1. newer # {} /\ told[m] > fleet[n][m]
        BY <2>1 DEF Newer
      <3>2. f[m] = told[m] /\ s[m] = told[m]
        <4> HIDE DEF newer
        <4> QED BY <2>1
      <3> HIDE DEF f, s, newer
      <3> QED BY <3>1, <3>2, <1>6
    <2>2. CASE m \notin newer
      <3>1. f[m] = fleet[n][m] /\ s[m] = storage[n][m]
        <4> HIDE DEF newer
        <4> QED BY <2>2
      <3> HIDE DEF f, s, newer
      <3> QED BY <3>1, <1>6
    <2> QED BY <2>1, <2>2
  <1>8. fleet'[n][n] \in {fleet[n][n], version[n]} /\ storage'[n][n] = storage[n][n]
    <2>1. n \notin newer
      BY DEF Newer
    <2>2. f[n] = version[n] /\ s[n] = storage[n][n]
      <3> HIDE DEF newer
      <3> QED BY <2>1
    <2> HIDE DEF f, s, newer
    <2> QED BY <2>2, <1>6
  <1> QED BY <1>4, <1>5, <1>7, <1>8

\* Learning keeps the fleet states published, the storage ahead of them, and
\* only makes knowledge newer, if what is told is published.
LEMMA LearnKeeps ==
    ASSUME NEW n \in Nodes, NEW told \in FleetStates, TypeOK, Learn(n, told),
           KnowledgePublished, StorageCovers, version' = version,
           \A m \in Nodes : told[m] <= version[m]
    PROVE  /\ KnowledgePublished' /\ StorageCovers'
           /\ \A k, m \in Nodes : fleet'[k][m] >= fleet[k][m]
PROOF
  <1>1. /\ \A k, m \in Nodes : fleet[k][m] \in Int /\ storage[k][m] \in Int
        /\ \A m \in Nodes : version[m] \in Int /\ told[m] \in Int
    BY VersionAssumption DEF TypeOK, FleetStates
  <1>2. ASSUME NEW k \in Nodes, NEW m \in Nodes
        PROVE  /\ fleet'[k][m] <= version[m] /\ storage'[k][m] <= version[m]
               /\ m # k => storage'[k][m] >= fleet'[k][m]
               /\ fleet'[k][m] >= fleet[k][m]
    <2>1. /\ fleet[k][m] <= version[m] /\ storage[k][m] <= version[m]
          /\ m # k => storage[k][m] >= fleet[k][m]
      BY DEF KnowledgePublished, StorageCovers
    <2>2. CASE k # n
      <3>1. fleet'[k][m] = fleet[k][m] /\ storage'[k][m] = storage[k][m]
        BY <2>2, LearnFacts
      <3> QED BY <1>1, <2>1, <3>1
    <2>3. CASE k = n /\ m # n
      <3>1. \/ fleet'[n][m] = fleet[n][m] /\ storage'[n][m] = storage[n][m]
            \/ told[m] > fleet[n][m] /\ fleet'[n][m] = told[m] /\ storage'[n][m] = told[m]
        BY <2>3, LearnFacts
      <3>2. CASE fleet'[n][m] = fleet[n][m] /\ storage'[n][m] = storage[n][m]
        BY <1>1, <2>1, <2>3, <3>2
      <3>3. CASE told[m] > fleet[n][m] /\ fleet'[n][m] = told[m] /\ storage'[n][m] = told[m]
        BY <1>1, <2>1, <2>3, <3>3
      <3> QED BY <3>1, <3>2, <3>3
    <2>4. CASE k = n /\ m = n
      <3>1. fleet'[n][n] \in {fleet[n][n], version[n]} /\ storage'[n][n] = storage[n][n]
        BY LearnFacts
      <3> QED BY <1>1, <2>1, <2>4, <3>1
    <2> QED BY <2>2, <2>3, <2>4
  <1> QED BY <1>2 DEF KnowledgePublished, StorageCovers

-----------------------------------------------------------------------------
(* The parts of the state that learning leaves alone.                      *)

\* The types of one exchange of a node, read and written.
LEMMA ExchangeTypes ==
    ASSUME TypeOK, NEW n \in Nodes
    PROVE  /\ exchange[n] \in Exchanges
           /\ exchange[n].answer \in FleetStates /\ exchange[n].announced \in Versions
           /\ exchange[n].at # "none" => exchange[n].to \in Nodes \ {n}
BY DEF TypeOK, Exchanges, Versions

\* An exchange is written whole: the types hold if they hold for what is written.
LEMMA ExchangeSet ==
    ASSUME TypeOK, NEW n \in Nodes, NEW e \in Exchanges, e.at # "none" => e.to \in Nodes \ {n},
           exchange' = [exchange EXCEPT ![n] = e]
    PROVE  /\ exchange' \in [Nodes -> Exchanges]
           /\ \A k \in Nodes : exchange'[k].at # "none" => exchange'[k].to \in Nodes \ {k}
           /\ exchange'[n] = e /\ \A k \in Nodes \ {n} : exchange'[k] = exchange[k]
PROOF
  <1>1. exchange \in [Nodes -> Exchanges]
        /\ \A k \in Nodes : exchange[k].at # "none" => exchange[k].to \in Nodes \ {k}
    BY DEF TypeOK
  <1> QED BY <1>1

\* Rotation of teachers keeps their types, and no node teaches itself.
LEMMA CycleKeeps ==
    ASSUME TypeOK, NotOwnTeacher, NEW n \in Nodes, NEW m, CycleTo(n, m)
    PROVE  /\ teachers' \in [Nodes -> SUBSET Nodes] /\ teacher' \in [Nodes -> Nodes \cup {Nobody}]
           /\ NotOwnTeacher'
PROOF
  <1>1. Candidates(n) \subseteq Nodes \ {n}
    BY DEF Candidates, Known, NotOwnTeacher, TypeOK
  <1>2. m \in Nodes \ {n}
    BY <1>1 DEF CycleTo
  <1>3. teachers' = [teachers EXCEPT ![n] = Candidates(n) \ {m}]
        /\ teacher' = [teacher EXCEPT ![n] = m]
    BY DEF CycleTo
  <1>4. teachers \in [Nodes -> SUBSET Nodes] /\ teacher \in [Nodes -> Nodes \cup {Nobody}]
    BY DEF TypeOK
  <1>5. (Candidates(n) \ {m}) \in SUBSET Nodes /\ n \notin Candidates(n) \ {m}
    BY <1>1
  <1>6. teachers' \in [Nodes -> SUBSET Nodes] /\ teacher' \in [Nodes -> Nodes \cup {Nobody}]
    BY <1>2, <1>3, <1>4, <1>5
  <1>7. ASSUME NEW k \in Nodes
        PROVE  teacher'[k] # k /\ k \notin teachers'[k]
    BY <1>2, <1>3, <1>4, <1>5 DEF NotOwnTeacher
  <1> QED BY <1>6, <1>7 DEF NotOwnTeacher

\* An idle exchange and what a learner sends have the types and are published.
LEMMA EmptyFleet ==
    /\ NoFleet \in FleetStates /\ NoExchange \in Exchanges
    /\ NoExchange.at = "none" /\ NoExchange.announced = 0
    /\ NoExchange.answer = NoFleet /\ \A m \in Nodes : NoFleet[m] = 0
BY VersionAssumption DEF NoFleet, FleetStates, NoExchange, Exchanges

\* Versions are positive numbers within the bound.
LEMMA VersionTypes ==
    ASSUME TypeOK, NEW m \in Nodes
    PROVE  version[m] \in Nat /\ version[m] >= 1 /\ version[m] \in Versions
BY VersionAssumption DEF TypeOK, Versions

\* If versions stay and one exchange becomes one that is published, all messages
\* are published.
LEMMA MessagesAfter ==
    ASSUME TypeOK, MessagesPublished, NEW n \in Nodes, version' = version,
           late' \subseteq late,
           \A k \in Nodes \ {n} : exchange'[k] = exchange[k],
           exchange'[n].announced <= version[n],
           \A m \in Nodes : exchange'[n].answer[m] <= version[m]
    PROVE  MessagesPublished'
PROOF
  <1>1. ASSUME NEW k \in Nodes
        PROVE  exchange'[k].announced <= version'[k]
               /\ \A m \in Nodes : exchange'[k].answer[m] <= version'[m]
    <2>1. CASE k = n BY <2>1
    <2>2. CASE k # n BY <2>2 DEF MessagesPublished
    <2> QED BY <2>1, <2>2
  <1>2. \A r \in late' : r.announced <= version'[r.from]
    BY DEF MessagesPublished
  <1> QED BY <1>1, <1>2 DEF MessagesPublished

-----------------------------------------------------------------------------
(* One lemma per action.                                                   *)

\* The step of KnowledgeGrows.
Grows == \A n, m \in Nodes : version'[n] = version[n] => fleet'[n][m] >= fleet[n][m]

\* A step that touches no fleet state, storage or version keeps what is said of them.
LEMMA KnowledgeUnchanged ==
    ASSUME IInv, version' = version, fleet' = fleet, storage' = storage
    PROVE  KnowledgePublished' /\ StorageCovers' /\ Grows
PROOF
  <1>1. \A n, m \in Nodes : fleet[n][m] \in Int
    BY DEF IInv, TypeOK, FleetStates
  <1> QED BY <1>1 DEF IInv, KnowledgePublished, StorageCovers, Grows

\* Seeding teaches only what seed nodes have generated or the storage holds.
LEMMA SeedKeeps ==
    ASSUME IInv, NEW n \in Nodes, Seed(n)
    PROVE  IInv' /\ Grows
PROOF
  <1> USE DEF IInv
  <1> PICK up \in SUBSET (Seeds \ {n}) :
        Learn(n, [m \in Nodes |-> IF m \in up THEN version[m] ELSE storage[n][m]])
    BY DEF Seed
  <1> DEFINE told == [m \in Nodes |-> IF m \in up THEN version[m] ELSE storage[n][m]]
  <1>1. told \in FleetStates
    BY VersionTypes DEF TypeOK, FleetStates, Versions
  <1>2. ASSUME NEW m \in Nodes
        PROVE  told[m] <= version[m]
    <2>1. version[m] \in Nat /\ storage[n][m] <= version[m]
      BY VersionTypes DEF KnowledgePublished
    <2>2. told[m] = version[m] \/ told[m] = storage[n][m]
      OBVIOUS
    <2> QED BY <2>1, <2>2
  <1>3. version' = version /\ teachers' = teachers /\ teacher' = teacher /\ exchange' = exchange
        /\ late' = late /\ losses' = losses /\ seeded' = [seeded EXCEPT ![n] = TRUE]
    BY DEF Seed
  <1> HIDE DEF told
  <1>4. Learn(n, told)
    BY DEF told
  <1>5. TypeOK'
    BY <1>1, <1>3, <1>4, LearnFacts DEF TypeOK
  <1>6. KnowledgePublished' /\ StorageCovers' /\ Grows
    BY <1>1, <1>2, <1>3, <1>4, LearnKeeps DEF Grows
  <1>7. NotOwnTeacher' /\ MessagesPublished'
    BY <1>3 DEF NotOwnTeacher, MessagesPublished
  <1> QED BY <1>5, <1>6, <1>7

\* The first teacher is chosen from the fleet state.
LEMMA ChooseTeacherKeeps ==
    ASSUME IInv, NEW n \in Nodes, ChooseTeacher(n)
    PROVE  IInv' /\ Grows
PROOF
  <1> USE DEF IInv
  <1> PICK m \in Candidates(n) : CycleTo(n, m)
    BY DEF ChooseTeacher
  <1>1. version' = version /\ fleet' = fleet /\ storage' = storage /\ seeded' = seeded
        /\ exchange' = exchange /\ late' = late /\ losses' = losses
    BY DEF ChooseTeacher, knowledgeVars
  <1>2. TypeOK'
    BY <1>1, CycleKeeps DEF TypeOK
  <1>3. NotOwnTeacher'
    BY CycleKeeps
  <1>4. MessagesPublished'
    BY <1>1 DEF MessagesPublished
  <1> QED BY <1>1, <1>2, <1>3, <1>4, KnowledgeUnchanged

\* A learner announces its present metadata.
LEMMA AskKeeps ==
    ASSUME IInv, NEW n \in Nodes, Ask(n)
    PROVE  IInv' /\ Grows
PROOF
  <1> USE DEF IInv
  <1> DEFINE e == [NoExchange EXCEPT !.at = "sent", !.to = teacher[n], !.checksum = fleet[n],
                                     !.announced = version[n]]
  <1>1. version' = version /\ fleet' = fleet /\ storage' = storage /\ seeded' = seeded
        /\ teachers' = teachers /\ teacher' = teacher /\ late' = late /\ losses' = losses
        /\ exchange' = [exchange EXCEPT ![n] = e]
    BY DEF Ask, knowledgeVars
  <1>2. teacher[n] \in Nodes \ {n} /\ fleet[n] \in FleetStates /\ version[n] \in Versions
    BY VersionTypes DEF Ask, TypeOK, NotOwnTeacher
  <1>3. e \in Exchanges /\ e.to = teacher[n] /\ e.announced = version[n] /\ e.answer = NoFleet
    BY <1>2, EmptyFleet DEF Exchanges, NoExchange, Versions
  <1> HIDE DEF e
  <1>4. TypeOK'
    BY <1>1, <1>2, <1>3, ExchangeSet DEF TypeOK
  <1>5. MessagesPublished'
    <2>1. exchange'[n] = e /\ \A k \in Nodes \ {n} : exchange'[k] = exchange[k]
      BY <1>1, <1>2, <1>3, ExchangeSet
    <2>2. \A m \in Nodes : exchange'[n].answer[m] <= version[m]
      BY <1>3, <2>1, EmptyFleet, VersionTypes
    <2>3. exchange'[n].announced <= version[n]
      BY <1>3, <2>1, VersionTypes
    <2> QED BY <1>1, <2>1, <2>2, <2>3, MessagesAfter
  <1>6. NotOwnTeacher'
    BY <1>1 DEF NotOwnTeacher
  <1> QED BY <1>1, <1>4, <1>5, <1>6, KnowledgeUnchanged

\* The end of an exchange leaves nothing in it that could be unpublished.
LEMMA ExchangeEnds ==
    ASSUME IInv, NEW n \in Nodes, exchange' = [exchange EXCEPT ![n] = NoExchange],
           version' = version, late' = late
    PROVE  /\ exchange' \in [Nodes -> Exchanges]
           /\ \A k \in Nodes : exchange'[k].at # "none" => exchange'[k].to \in Nodes \ {k}
           /\ MessagesPublished'
PROOF
  <1> USE DEF IInv
  <1>1. /\ exchange' \in [Nodes -> Exchanges]
        /\ \A k \in Nodes : exchange'[k].at # "none" => exchange'[k].to \in Nodes \ {k}
        /\ exchange'[n] = NoExchange /\ \A k \in Nodes \ {n} : exchange'[k] = exchange[k]
    BY EmptyFleet, ExchangeSet
  <1>2. exchange'[n].announced <= version[n] /\ \A m \in Nodes : exchange'[n].answer[m] <= version[m]
    BY <1>1, EmptyFleet, VersionTypes
  <1> QED BY <1>1, <1>2, MessagesAfter

\* An answer teaches only what is published.
LEMMA ReceiveKeeps ==
    ASSUME IInv, NEW n \in Nodes, Receive(n)
    PROVE  IInv' /\ Grows
PROOF
  <1> USE DEF IInv
  <1> PICK m \in Candidates(n) : CycleTo(n, m)
    BY DEF Receive
  <1>1. version' = version /\ seeded' = seeded /\ late' = late /\ losses' = losses
        /\ exchange' = [exchange EXCEPT ![n] = NoExchange] /\ Learn(n, exchange[n].answer)
    BY DEF Receive
  <1>2. exchange[n].answer \in FleetStates /\ \A k \in Nodes : exchange[n].answer[k] <= version[k]
    BY ExchangeTypes DEF MessagesPublished
  <1>3. TypeOK'
    BY <1>1, <1>2, LearnFacts, CycleKeeps, ExchangeEnds DEF TypeOK
  <1>4. KnowledgePublished' /\ StorageCovers' /\ Grows
    BY <1>1, <1>2, LearnKeeps DEF Grows
  <1> QED BY <1>1, <1>3, <1>4, CycleKeeps, ExchangeEnds

\* A lost message changes only the teacher.
LEMMA LoseKeeps ==
    ASSUME IInv, NEW n \in Nodes, Lose(n)
    PROVE  IInv' /\ Grows
PROOF
  <1> USE DEF IInv
  <1> PICK m \in Candidates(n) : CycleTo(n, m)
    BY DEF Lose
  <1>1. version' = version /\ fleet' = fleet /\ storage' = storage /\ seeded' = seeded
        /\ late' = late /\ exchange' = [exchange EXCEPT ![n] = NoExchange]
    BY DEF Lose, knowledgeVars
  <1>2. losses' \in 0..MaxLosses
    BY LossAssumption DEF Lose, TypeOK
  <1>3. TypeOK'
    BY <1>1, <1>2, CycleKeeps, ExchangeEnds DEF TypeOK
  <1> QED BY <1>1, <1>3, CycleKeeps, ExchangeEnds, KnowledgeUnchanged

\* The teacher learns what was announced, and answers with what is published.
LEMMA AnswerKeeps ==
    ASSUME IInv, NEW m \in Nodes, NEW n \in Nodes, Answer(m, n)
    PROVE  IInv' /\ Grows
PROOF
  <1> USE DEF IInv
  <1> DEFINE told == [NoFleet EXCEPT ![n] = exchange[n].announced]
             ans == [fleet'[m] EXCEPT ![m] = version[m]]
             e == [exchange[n] EXCEPT !.at = "answered", !.answer = ans]
  <1>1. version' = version /\ seeded' = seeded /\ teachers' = teachers /\ teacher' = teacher
        /\ late' = late /\ losses' = losses /\ exchange[n].at = "sent" /\ Learn(m, told)
    BY DEF Answer
  <1>2. /\ exchange[n] \in Exchanges /\ exchange[n].announced \in Versions
        /\ exchange[n].to \in Nodes \ {n} /\ exchange[n].announced <= version[n]
    BY <1>1, ExchangeTypes DEF MessagesPublished
  <1>3. told \in FleetStates
    BY <1>2, EmptyFleet DEF FleetStates, Versions
  <1>4. ASSUME NEW k \in Nodes
        PROVE  told[k] <= version[k]
    <2>1. told[k] = IF k = n THEN exchange[n].announced ELSE NoFleet[k]
      BY EmptyFleet DEF FleetStates
    <2> HIDE DEF told
    <2> QED BY <1>2, <2>1, EmptyFleet, VersionTypes
  <1> HIDE DEF told
  <1>5. fleet' \in [Nodes -> FleetStates] /\ storage' \in [Nodes -> FleetStates]
    BY <1>1, <1>3, LearnFacts
  <1>6. KnowledgePublished' /\ StorageCovers' /\ Grows
    BY <1>1, <1>3, <1>4, LearnKeeps DEF Grows
  <1>7. fleet'[m] \in FleetStates /\ ans \in FleetStates
    BY <1>5, VersionTypes DEF FleetStates, Versions
  <1>8. ASSUME NEW k \in Nodes
        PROVE  ans[k] <= version[k]
    <2>1. ans[k] = IF k = m THEN version[m] ELSE fleet'[m][k]
      BY <1>7 DEF FleetStates
    <2>2. fleet'[m][k] <= version[k] /\ version[k] \in Nat
      BY <1>1, <1>6, VersionTypes DEF KnowledgePublished
    <2> HIDE DEF ans
    <2> QED BY <2>1, <2>2
  <1>9. exchange' = [exchange EXCEPT ![n] = e]
    <2> HIDE DEF ans
    <2>1. exchange' = [exchange EXCEPT ![n].at = "answered", ![n].answer = ans]
      BY DEF Answer, ans
    <2> QED BY <2>1 DEF TypeOK, Exchanges
  <1> HIDE DEF ans
  <1>10. e \in Exchanges /\ e.to = exchange[n].to /\ e.announced = exchange[n].announced
         /\ e.answer = ans
    BY <1>2, <1>7 DEF Exchanges
  <1> HIDE DEF e
  <1>11. /\ exchange' \in [Nodes -> Exchanges]
         /\ \A k \in Nodes : exchange'[k].at # "none" => exchange'[k].to \in Nodes \ {k}
         /\ exchange'[n] = e /\ \A k \in Nodes \ {n} : exchange'[k] = exchange[k]
    BY <1>2, <1>9, <1>10, ExchangeSet
  <1>12. TypeOK'
    BY <1>1, <1>5, <1>11 DEF TypeOK
  <1>13. MessagesPublished'
    <2>1. exchange'[n].announced <= version[n] /\ \A k \in Nodes : exchange'[n].answer[k] <= version[k]
      BY <1>2, <1>8, <1>10, <1>11
    <2> QED BY <1>1, <1>11, <2>1, MessagesAfter
  <1>14. NotOwnTeacher'
    BY <1>1 DEF NotOwnTeacher
  <1> QED BY <1>6, <1>12, <1>13, <1>14

\* An answer without nodes changes nothing but the stage of the exchange.
LEMMA AnswerSameKeeps ==
    ASSUME IInv, NEW m \in Nodes, NEW n \in Nodes, AnswerSame(m, n)
    PROVE  IInv' /\ Grows
PROOF
  <1> USE DEF IInv
  <1> DEFINE e == [exchange[n] EXCEPT !.at = "same"]
  <1>1. version' = version /\ fleet' = fleet /\ storage' = storage /\ seeded' = seeded
        /\ teachers' = teachers /\ teacher' = teacher /\ late' = late /\ losses' = losses
        /\ exchange[n].at = "sent" /\ exchange' = [exchange EXCEPT ![n] = e]
    BY DEF AnswerSame, knowledgeVars
  <1>2. /\ exchange[n] \in Exchanges /\ exchange[n].to \in Nodes \ {n}
        /\ exchange[n].announced <= version[n]
        /\ \A k \in Nodes : exchange[n].answer[k] <= version[k]
    BY <1>1, ExchangeTypes DEF MessagesPublished
  <1>3. e \in Exchanges /\ e.to = exchange[n].to /\ e.announced = exchange[n].announced
        /\ e.answer = exchange[n].answer
    BY <1>2 DEF Exchanges
  <1> HIDE DEF e
  <1>4. /\ exchange' \in [Nodes -> Exchanges]
        /\ \A k \in Nodes : exchange'[k].at # "none" => exchange'[k].to \in Nodes \ {k}
        /\ exchange'[n] = e /\ \A k \in Nodes \ {n} : exchange'[k] = exchange[k]
    BY <1>1, <1>2, <1>3, ExchangeSet
  <1>5. TypeOK'
    BY <1>1, <1>4 DEF TypeOK
  <1>6. MessagesPublished'
    BY <1>1, <1>2, <1>3, <1>4, MessagesAfter
  <1>7. NotOwnTeacher'
    BY <1>1 DEF NotOwnTeacher
  <1> QED BY <1>1, <1>5, <1>6, <1>7, KnowledgeUnchanged

\* A late request teaches what its dead sender had generated.
LEMMA ServeLateKeeps ==
    ASSUME IInv, NEW r \in late, ServeLate(r)
    PROVE  IInv' /\ Grows
PROOF
  <1> USE DEF IInv
  <1> DEFINE told == [NoFleet EXCEPT ![r.from] = r.announced]
  <1>1. version' = version /\ seeded' = seeded /\ teachers' = teachers /\ teacher' = teacher
        /\ exchange' = exchange /\ losses' = losses /\ late' = late \ {r} /\ Learn(r.to, told)
    BY DEF ServeLate
  <1>2. r.from \in Nodes /\ r.to \in Nodes /\ r.announced \in 1..MaxVersion
        /\ r.announced <= version[r.from]
    BY DEF TypeOK, Requests, MessagesPublished
  <1>3. told \in FleetStates
    BY <1>2, EmptyFleet, VersionAssumption DEF FleetStates
  <1>4. ASSUME NEW k \in Nodes
        PROVE  told[k] <= version[k]
    <2>1. told[k] = IF k = r.from THEN r.announced ELSE NoFleet[k]
      BY EmptyFleet DEF FleetStates
    <2> HIDE DEF told
    <2> QED BY <1>2, <2>1, EmptyFleet, VersionTypes
  <1> HIDE DEF told
  <1>5. TypeOK'
    <2>1. fleet' \in [Nodes -> FleetStates] /\ storage' \in [Nodes -> FleetStates]
      BY <1>1, <1>2, <1>3, LearnFacts
    <2>2. late' \in SUBSET Requests
      BY <1>1 DEF TypeOK
    <2> QED BY <1>1, <2>1, <2>2 DEF TypeOK
  <1>6. KnowledgePublished' /\ StorageCovers' /\ Grows
    BY <1>1, <1>2, <1>3, <1>4, LearnKeeps DEF Grows
  <1>7. NotOwnTeacher' /\ MessagesPublished'
    BY <1>1 DEF NotOwnTeacher, MessagesPublished
  <1> QED BY <1>5, <1>6, <1>7

\* A restart raises one version, forgets the fleet state and keeps the storage;
\* its unanswered request stays on its way.
LEMMA RestartKeeps ==
    ASSUME IInv, NEW n \in Nodes, Restart(n)
    PROVE  IInv' /\ Grows
PROOF
  <1> USE DEF IInv
  <1>1. /\ version' = [version EXCEPT ![n] = version[n] + 1] /\ version[n] < MaxVersion
        /\ fleet' = [fleet EXCEPT ![n] = NoFleet] /\ seeded' = [seeded EXCEPT ![n] = FALSE]
        /\ teachers' = [teachers EXCEPT ![n] = {}] /\ teacher' = [teacher EXCEPT ![n] = Nobody]
        /\ exchange' = [exchange EXCEPT ![n] = NoExchange]
        /\ storage' = storage /\ losses' = losses
    BY DEF Restart
  <1>2. \A m \in Nodes : version[m] \in 1..MaxVersion
    BY DEF TypeOK
  <1>3. version' \in [Nodes -> 1..MaxVersion]
    <2>1. version[n] + 1 \in 1..MaxVersion
      BY <1>1, <1>2, VersionAssumption
    <2> QED BY <1>1, <2>1 DEF TypeOK
  <1>4. \A m \in Nodes : version[m] <= version'[m] /\ version[m] \in Int /\ version'[m] \in Int
    BY <1>1, <1>2, VersionAssumption DEF TypeOK
  <1>5. \A r \in late' :
          \/ r \in late
          \/ r.from = n /\ r.announced = exchange[n].announced /\ r \in Requests
    <2>1. late' = late \cup {r \in Requests :
            /\ exchange[n].at = "sent"
            /\ r = [from |-> n, to |-> exchange[n].to, announced |-> exchange[n].announced]}
      BY DEF Restart
    <2>2. ASSUME NEW r \in late', r \notin late
          PROVE  r.from = n /\ r.announced = exchange[n].announced /\ r \in Requests
      <3>1. r \in Requests
            /\ r = [from |-> n, to |-> exchange[n].to, announced |-> exchange[n].announced]
        BY <2>1, <2>2
      <3> QED BY <3>1
    <2> QED BY <2>2
  <1>6. /\ exchange' \in [Nodes -> Exchanges]
        /\ \A k \in Nodes : exchange'[k].at # "none" => exchange'[k].to \in Nodes \ {k}
        /\ exchange'[n] = NoExchange /\ \A k \in Nodes \ {n} : exchange'[k] = exchange[k]
    BY <1>1, EmptyFleet, ExchangeSet
  <1>7. fleet'[n] = NoFleet /\ \A k \in Nodes \ {n} : fleet'[k] = fleet[k]
    BY <1>1 DEF TypeOK
  <1>8. TypeOK'
    <2>1. fleet' \in [Nodes -> FleetStates] /\ seeded' \in [Nodes -> BOOLEAN]
          /\ teachers' \in [Nodes -> SUBSET Nodes] /\ teacher' \in [Nodes -> Nodes \cup {Nobody}]
      BY <1>1, EmptyFleet DEF TypeOK
    <2>2. late' \in SUBSET Requests
      BY <1>5 DEF TypeOK
    <2> QED BY <1>1, <1>3, <1>6, <2>1, <2>2 DEF TypeOK
  <1>9. NotOwnTeacher'
    BY <1>1, NobodyAssumption DEF NotOwnTeacher, TypeOK, Nobody
  <1>10. \A k, m \in Nodes : fleet[k][m] \in Nat /\ storage[k][m] \in Nat
    BY DEF TypeOK, FleetStates
  <1>11. KnowledgePublished'
    <2>1. ASSUME NEW k \in Nodes, NEW m \in Nodes
          PROVE  fleet'[k][m] <= version'[m] /\ storage'[k][m] <= version'[m]
      <3>1. fleet[k][m] <= version[m] /\ storage[k][m] <= version[m]
        BY DEF KnowledgePublished
      <3>2. fleet'[k][m] = 0 \/ fleet'[k][m] = fleet[k][m]
        BY <1>7, EmptyFleet
      <3>3. version'[m] >= 0
        BY <1>2, <1>4
      <3> QED BY <1>1, <1>4, <1>10, <3>1, <3>2, <3>3
    <2> QED BY <2>1 DEF KnowledgePublished
  <1>12. StorageCovers'
    <2>1. ASSUME NEW k \in Nodes, NEW m \in Nodes, m # k
          PROVE  storage'[k][m] >= fleet'[k][m]
      <3>1. fleet'[k][m] = 0 \/ fleet'[k][m] = fleet[k][m]
        BY <1>7, EmptyFleet
      <3> QED BY <1>1, <1>10, <2>1, <3>1 DEF StorageCovers
    <2> QED BY <2>1 DEF StorageCovers
  <1>13. MessagesPublished'
    <2>1. ASSUME NEW k \in Nodes
          PROVE  exchange'[k].announced <= version'[k]
                 /\ \A m \in Nodes : exchange'[k].answer[m] <= version'[m]
      <3>1. CASE k = n
        BY <1>2, <1>4, <1>6, <3>1, EmptyFleet
      <3>2. CASE k # n
        <4>1. exchange'[k] = exchange[k]
          BY <1>6, <3>2
        <4>2. exchange[k].announced \in Versions /\ exchange[k].answer \in FleetStates
          BY ExchangeTypes
        <4>3. exchange[k].announced <= version'[k]
          BY <1>4, <4>2 DEF MessagesPublished, Versions
        <4>4. \A m \in Nodes : exchange[k].answer[m] <= version'[m]
          BY <1>4, <4>2 DEF MessagesPublished, FleetStates
        <4> QED BY <4>1, <4>3, <4>4
      <3> QED BY <3>1, <3>2
    <2>2. ASSUME NEW r \in late'
          PROVE  r.announced <= version'[r.from]
      <3>1. r.from \in Nodes /\ r.announced \in Int
        BY <1>8, <2>2 DEF TypeOK, Requests
      <3>2. r.announced <= version[r.from]
        BY <1>5, <2>2 DEF MessagesPublished
      <3> QED BY <1>4, <3>1, <3>2
    <2> QED BY <2>1, <2>2 DEF MessagesPublished
  <1>14. Grows
    <2>1. ASSUME NEW k \in Nodes, NEW m \in Nodes, version'[k] = version[k]
          PROVE  fleet'[k][m] >= fleet[k][m]
      <3>1. k # n
        BY <1>1, <1>2, <2>1 DEF TypeOK
      <3> QED BY <1>7, <1>10, <3>1
    <2> QED BY <2>1 DEF Grows
  <1> QED BY <1>8, <1>9, <1>11, <1>12, <1>13, <1>14

-----------------------------------------------------------------------------
(* The theorems.                                                           *)

\* The invariant holds in the initial states.
LEMMA InitEstablishes == Init => IInv
PROOF
  <1> SUFFICES ASSUME Init PROVE IInv
    OBVIOUS
  <1> USE DEF Init
  <1>1. TypeOK
    BY EmptyFleet, VersionAssumption, LossAssumption DEF TypeOK
  <1>2. NotOwnTeacher
    BY NobodyAssumption DEF NotOwnTeacher, Nobody
  <1>3. \A n \in Nodes : fleet[n] = NoFleet /\ storage[n] = NoFleet /\ version[n] = 1
                         /\ exchange[n] = NoExchange
    OBVIOUS
  <1>4. KnowledgePublished /\ StorageCovers
    BY <1>3, EmptyFleet DEF KnowledgePublished, StorageCovers
  <1>5. MessagesPublished
    BY <1>3, EmptyFleet DEF MessagesPublished
  <1> HIDE DEF Init
  <1> QED BY <1>1, <1>2, <1>4, <1>5 DEF IInv

\* Every step keeps it, and no step makes a running node's knowledge older.
LEMMA StepKeeps ==
    ASSUME IInv, [Next]_vars
    PROVE  IInv' /\ Grows
PROOF
  <1>1. CASE UNCHANGED vars
    <2>1. version' = version /\ fleet' = fleet /\ storage' = storage /\ seeded' = seeded
          /\ teachers' = teachers /\ teacher' = teacher /\ exchange' = exchange /\ late' = late
          /\ losses' = losses
      BY <1>1 DEF vars, knowledgeVars
    <2>2. TypeOK'
      BY <2>1 DEF IInv, TypeOK
    <2>3. NotOwnTeacher' /\ MessagesPublished'
      BY <2>1 DEF IInv, NotOwnTeacher, MessagesPublished
    <2> QED BY <2>1, <2>2, <2>3, KnowledgeUnchanged DEF IInv
  <1>2. CASE \E n \in Nodes : Seed(n) \/ ChooseTeacher(n) \/ Ask(n) \/ Receive(n) \/ Lose(n) \/ Restart(n)
    BY <1>2, SeedKeeps, ChooseTeacherKeeps, AskKeeps, ReceiveKeeps, LoseKeeps, RestartKeeps
  <1>3. CASE \E m, n \in Nodes : Answer(m, n) \/ AnswerSame(m, n)
    BY <1>3, AnswerKeeps, AnswerSameKeeps
  <1>4. CASE \E r \in late : ServeLate(r)
    BY <1>4, ServeLateKeeps
  <1> QED BY <1>1, <1>2, <1>3, <1>4 DEF Next

\* The inductive invariant holds throughout.
LEMMA Invariant == Spec => []IInv
PROOF
  <1>1. IInv /\ [Next]_vars => IInv'
    BY StepKeeps
  <1> QED BY InitEstablishes, <1>1, PTL DEF Spec

\* For any network, no node holds metadata of another that is newer than what
\* that node has generated: remember_node and the metadata exchange invent nothing.
THEOREM NoRumours == Spec => []KnowledgePublished
PROOF
  <1>1. IInv => KnowledgePublished
    BY DEF IInv
  <1> QED BY Invariant, <1>1, PTL

\* For any network, what a node knows of others is in its node storage.
THEOREM NothingToLose == Spec => []StorageCovers
PROOF
  <1>1. IInv => StorageCovers
    BY DEF IInv
  <1> QED BY Invariant, <1>1, PTL

\* For any network, the types hold; in particular no node asks itself or nobody.
THEOREM TypesHold == Spec => []TypeOK
PROOF
  <1>1. IInv => TypeOK
    BY DEF IInv
  <1> QED BY Invariant, <1>1, PTL

\* For any network, the fleet state of a running node never loses a node or goes
\* back to older metadata, whatever arrives in whatever order.
THEOREM NoRegress == Spec => KnowledgeGrows
PROOF
  <1>1. IInv /\ [Next]_vars =>
          [\A n, m \in Nodes : version'[n] = version[n] => fleet'[n][m] >= fleet[n][m]]_vars
    BY StepKeeps DEF Grows
  <1> QED BY Invariant, <1>1, PTL DEF Spec, KnowledgeGrows

-----------------------------------------------------------------------------
(* NodeVerification: the inductive invariant.                               *)

\* The threads inside mature() that may still put their item into the queue.
Maturing == {t \in Threads : at[t] \in {"test", "claim", "class", "dict", "store"}}

\* mature() is entered only while the class is the sprout's, and nobody has put
\* an item by then: each thread puts at most one.
OneItemEach ==
    /\ class = "sprout" => mutex = 0
    /\ mutex + Cardinality(Maturing) <= Cardinality(Threads)

\* What the place of a thread says of the shared object: the order of the
\* assignments of mature(), and that verify_node() runs on an Ursula.
PlaceSays ==
    \A t \in Threads :
        /\ at[t] \in {"class", "dict", "store"} => finishing
        /\ at[t] \in {"dict", "store"} => class = "ursula"
        /\ at[t] = "store" => IsUrsula
        /\ at[t] \in {"metadata", "stamp", "bonded", "staking", "ask"} => IsUrsula
        /\ at[t] \in {"stamp", "bonded", "staking", "ask"} => peer.signed
        /\ at[t] \in {"bonded", "staking", "ask"} => peer.federated \/ peer.derivable

\* The thread whose Ursula the object has become never matures it again.
MaturedOnce ==
    \A t \in Threads : dict = t => at[t] \notin {"test", "claim", "class", "dict"}

\* The bonding check did not pass and is not the cause of a flag: it has failed,
\* a thread is still making it, or the Ursula was replaced meanwhile.
BondingOpen ==
    \/ "operator" \in flags
    \/ past \cap {"refused", "regrown"} # {}
    \/ \E u \in Threads : at[u] \in {"bonded", "staking"}

\* What the flags say: each is set only after its check, except verified_operator
\* and verified_node, which may be set after an unfinished check of the bonding.
FlagsSay ==
    /\ "metadata" \in flags => peer.signed
    /\ "stamp" \in flags => peer.derivable
    /\ "node" \in flags => peer.signed /\ (peer.federated \/ peer.derivable)
    /\ (\/ flags \cap {"stamp", "node"} # {}
        \/ \E t \in Threads : at[t] = "ask") /\ peer.bonding => BondingOpen

NodeInv == NodeTypeOK /\ OneItemEach /\ PlaceSays /\ MaturedOnce /\ FlagsSay

-----------------------------------------------------------------------------
(* The invariant is inductive.                                             *)

\* A fresh sprout, with no thread in a call.
LEMMA FreshSprout == NodeInit => NodeInv
<1> SUFFICES ASSUME NodeInit PROVE NodeInv OBVIOUS
<1> USE ThreadsAssumption DEF NodeInit
<1>1. Maturing = {} BY DEF Maturing
<1>2. Cardinality({}) = 0 /\ Cardinality(Threads) \in Nat BY FS_EmptySet, FS_CardinalityType
<1>3. NodeTypeOK
  <2>1. mutex \in 0..Cardinality(Threads) BY <1>2
  <2>2. at \in [Threads -> Places] BY DEF Places
  <2> QED BY <2>1, <2>2 DEF NodeTypeOK
<1>4. OneItemEach BY <1>1, <1>2 DEF OneItemEach
<1>5. MaturedOnce BY DEF MaturedOnce
<1> QED BY <1>3, <1>4, <1>5 DEF NodeInv, PlaceSays, FlagsSay, BondingOpen, IsUrsula

\* What a thread does with the object.
NodeStep(t) == CallMature(t) \/ Mature(t) \/ VerifyNode(t)

\* Whatever a thread does in a call, it moves only itself.
LEMMA OneThreadMoves ==
    ASSUME NodeTypeOK, NEW t \in Threads, NodeStep(t)
    PROVE  /\ at' \in [Threads -> Places] /\ peer' = peer
           /\ \A u \in Threads : u # t => at'[u] = at[u]
BY DEF NodeStep, Mature, VerifyNode, CallMature, TestFinishing, Claim, FinishRaises, SwapClass, SwapDict,
       StoreAndPut, StoreRaises, Get, CannotVerify, Verify, ValidateSignature, StampIsVerified,
       ValidateOperator, InvalidOperatorSignature, OperatorIsBonded, ProviderIsStaking,
       BondingRefused, SameNode, OtherNode, Go, Leave, Places, NodeTypeOK

\* Each thread puts at most one item into the queue, because after the first item
\* the class has been swapped and nobody enters mature() any more.
LEMMA ItemKeeps ==
    ASSUME NodeInv, NEW t \in Threads, NodeStep(t)
    PROVE  OneItemEach' /\ mutex' \in 0..Cardinality(Threads)
<1> USE ThreadsAssumption
<1>0. /\ at' \in [Threads -> Places] /\ \A u \in Threads : u # t => at'[u] = at[u]
      /\ NodeTypeOK /\ OneItemEach /\ PlaceSays
  BY OneThreadMoves DEF NodeInv
<1>1. /\ IsFiniteSet(Maturing) /\ IsFiniteSet(Maturing')
      /\ Cardinality(Maturing) \in Nat /\ Cardinality(Maturing') \in Nat
      /\ Cardinality(Maturing') <= Cardinality(Threads) /\ Cardinality(Threads) \in Nat
  BY FS_Subset, FS_CardinalityType DEF Maturing
<1>2. CASE CallMature(t)
  <2>1. CASE class = "sprout"
    BY <1>0, <1>1, <1>2, <2>1 DEF CallMature, OneItemEach
  <2>2. CASE class # "sprout"
    <3>1. Maturing' \subseteq Maturing
      BY <1>0, <1>2, <2>2 DEF CallMature, Go, Maturing, NodeTypeOK
    <3>2. Cardinality(Maturing') <= Cardinality(Maturing) BY <1>1, <3>1, FS_Subset
    <3> QED BY <1>0, <1>1, <1>2, <2>2, <3>2 DEF CallMature, OneItemEach, NodeTypeOK
  <2> QED BY <2>1, <2>2
<1>3. CASE StoreAndPut(t)
  <2>1. t \in Maturing /\ Maturing' = Maturing \ {t}
    BY <1>0, <1>3 DEF StoreAndPut, Go, Maturing, NodeTypeOK
  <2>2. Cardinality(Maturing') = Cardinality(Maturing) - 1 BY <1>1, <2>1, FS_RemoveElement
  <2>3. class = "ursula" /\ class' = class BY <1>0, <1>3 DEF StoreAndPut, PlaceSays
  <2> QED BY <1>0, <1>1, <1>3, <2>2, <2>3 DEF StoreAndPut, OneItemEach, NodeTypeOK
<1>4. CASE ~CallMature(t) /\ ~StoreAndPut(t)
  <2>1. /\ Maturing' \subseteq Maturing
        /\ mutex' \in 0..mutex /\ (class' = "sprout" => class = "sprout")
    BY <1>0, <1>4 DEF NodeStep, Mature, VerifyNode, TestFinishing, Claim, FinishRaises, SwapClass, SwapDict,
       StoreRaises, Get, CannotVerify, Verify, ValidateSignature, StampIsVerified,
       ValidateOperator, InvalidOperatorSignature, OperatorIsBonded, ProviderIsStaking,
       BondingRefused, SameNode, OtherNode, Go, Leave, NodeTypeOK, Maturing
  <2>2. Cardinality(Maturing') <= Cardinality(Maturing) BY <1>1, <2>1, FS_Subset
  <2> QED BY <1>0, <1>1, <2>1, <2>2 DEF OneItemEach, NodeTypeOK
<1> QED BY <1>2, <1>3, <1>4

\* mature() before its last assignment: nothing is verified yet, and the maturation
\* of a thread goes through its assignments in their order.
LEMMA MatureKeeps ==
    ASSUME NodeInv, NEW t \in Threads, CallMature(t) \/ Mature(t)
    PROVE  NodeInv'
<1> USE ThreadsAssumption DEF IsUrsula, Go, Leave, Note
<1>0. /\ OneItemEach' /\ mutex' \in 0..Cardinality(Threads)
      /\ at' \in [Threads -> Places] /\ peer' = peer
      /\ \A u \in Threads : u # t => at'[u] = at[u]
      /\ NodeTypeOK /\ PlaceSays /\ MaturedOnce /\ FlagsSay
  BY ItemKeeps, OneThreadMoves DEF NodeInv, NodeStep
<1> USE DEF Mature, CallMature, TestFinishing, Claim, FinishRaises, SwapClass, SwapDict, StoreAndPut,
            StoreRaises, Get
<1>1. NodeTypeOK' BY <1>0 DEF NodeTypeOK, PlaceSays, Events
<1>2. PlaceSays' BY <1>0 DEF NodeTypeOK, PlaceSays
<1>3. MaturedOnce' BY <1>0 DEF NodeTypeOK, MaturedOnce
<1>4. FlagsSay' BY <1>0 DEF NodeTypeOK, PlaceSays, FlagsSay, BondingOpen
<1> QED BY <1>0, <1>1, <1>2, <1>3, <1>4 DEF NodeInv

\* verify_node() sets each flag after the check of the same call or of another
\* thread's; the bonding is the exception that BondingOpen describes.
LEMMA VerifyKeeps ==
    ASSUME NodeInv, NEW t \in Threads, VerifyNode(t)
    PROVE  NodeInv'
<1> USE ThreadsAssumption DEF IsUrsula, Go, Leave, Note
<1>0. /\ OneItemEach' /\ mutex' \in 0..Cardinality(Threads)
      /\ at' \in [Threads -> Places] /\ peer' = peer
      /\ \A u \in Threads : u # t => at'[u] = at[u]
      /\ NodeTypeOK /\ PlaceSays /\ MaturedOnce /\ FlagsSay
  BY ItemKeeps, OneThreadMoves DEF NodeInv, NodeStep
<1> USE DEF VerifyNode, CannotVerify, Verify, ValidateSignature, StampIsVerified, ValidateOperator,
            InvalidOperatorSignature, OperatorIsBonded, ProviderIsStaking, BondingRefused, SameNode,
            OtherNode
<1>1. NodeTypeOK' BY <1>0 DEF NodeTypeOK, PlaceSays, Events, Flags
<1>2. PlaceSays' BY <1>0 DEF NodeTypeOK, PlaceSays, FlagsSay
<1>3. MaturedOnce' BY <1>0 DEF NodeTypeOK, MaturedOnce
<1>4. FlagsSay' BY <1>0 DEF NodeTypeOK, PlaceSays, FlagsSay, BondingOpen, Metadata, HasRegistry
<1> QED BY <1>0, <1>1, <1>2, <1>3, <1>4 DEF NodeInv

\* Every step keeps the invariant.
LEMMA NodeNextKeeps == NodeInv /\ [NodeNext]_nodeVars => NodeInv'
<1> SUFFICES ASSUME NodeInv, [NodeNext]_nodeVars PROVE NodeInv' OBVIOUS
<1>1. CASE NodeNext BY <1>1, MatureKeeps, VerifyKeeps DEF NodeNext
<1>2. CASE UNCHANGED nodeVars
  <2>1. NodeTypeOK' BY <1>2 DEF NodeInv, NodeTypeOK, nodeVars
  <2>2. Maturing' = Maturing BY <1>2 DEF Maturing, nodeVars
  <2>3. OneItemEach' BY <1>2, <2>2 DEF NodeInv, OneItemEach, nodeVars
  <2>4. PlaceSays' /\ MaturedOnce' BY <1>2 DEF NodeInv, PlaceSays, MaturedOnce, IsUrsula, nodeVars
  <2>5. FlagsSay' BY <1>2 DEF NodeInv, FlagsSay, BondingOpen, nodeVars
  <2> QED BY <2>1, <2>3, <2>4, <2>5 DEF NodeInv
<1> QED BY <1>1, <1>2

\* The invariant holds in every behaviour.
LEMMA NodeInvHolds == NodeSpec => []NodeInv
BY FreshSprout, NodeNextKeeps, PTL DEF NodeSpec

-----------------------------------------------------------------------------
(* The theorems.                                                           *)

\* A node with verified_node has a good signature and, on a chain, a derivable
\* operator address; its bonding passed the learner's check unless that check has
\* failed before, is still being made, or the sprout was matured twice.
THEOREM VerifiedIsChecked == NodeSpec => []VerifiedMeansChecked
<1>1. NodeInv => VerifiedMeansChecked
  BY DEF NodeInv, VerifiedMeansChecked, FlagsSay, BondingOpen
<1> QED BY <1>1, NodeInvHolds, PTL

\* No step of verify_node() or mature() takes a flag back, except the replacement
\* of one Ursula's __dict__ by another thread's.
THEOREM VerificationIsKept == NodeSpec => VerificationKept
<1>1. ASSUME NodeInv, [NodeNext]_nodeVars
      PROVE  [flags \subseteq flags' \/ (IsUrsula /\ dict' # dict)]_nodeVars
  <2>1. ASSUME NEW t \in Threads, SwapDict(t) PROVE flags \subseteq flags' \/ (IsUrsula /\ dict' # dict)
    BY <1>1, <2>1 DEF SwapDict, NodeInv, NodeTypeOK, MaturedOnce, IsUrsula
  <2>2. ASSUME NEW t \in Threads, NodeStep(t), ~SwapDict(t) PROVE flags \subseteq flags'
    BY <2>2 DEF NodeStep, Mature, VerifyNode, CallMature, TestFinishing, Claim, FinishRaises, SwapClass,
       StoreAndPut, StoreRaises, Get, CannotVerify, Verify, ValidateSignature, StampIsVerified,
       ValidateOperator, InvalidOperatorSignature, OperatorIsBonded, ProviderIsStaking,
       BondingRefused, SameNode, OtherNode
  <2> QED BY <1>1, <2>1, <2>2 DEF NodeNext, NodeStep
<1> QED BY <1>1, NodeInvHolds, PTL DEF NodeSpec, VerificationKept
=============================================================================
