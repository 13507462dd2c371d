------------------------ MODULE PolicyLifecycleProofs ------------------------
(***************************************************************************)
(* PolicyLifecycle for any number of requests, policies, Ursulas, shares and *)
(* any threshold: what is active is paid for and has n shares, what is paid   *)
(* for is held, and a revocation that failed can be made again.               *)
(***************************************************************************)
EXTENDS PolicyLifecycle, FiniteSetTheorems, TLAPS

-----------------------------------------------------------------------------
(* The inductive invariant.                                                *)

\* What the stage of a request says of its kind, its transaction and its Ursulas.
StageSays(r) ==
    /\ At(r, "idle") => request[r].target = None
    /\ ~At(r, "idle") => request[r].policy \in Policies
    /\ request[r].at \in {"learn", "sample", "build", "broadcast", "receipt", "check", "add"} =>
          request[r].target = None /\ request[r].raised = "none"
    /\ request[r].at \in {"find", "tell"} =>
          request[r].target # None /\ request[r].raised = "none"
    /\ request[r].at \in {"build", "broadcast", "receipt", "check", "add"} =>
          Cardinality(request[r].nodes) = Shares
    /\ At(r, "receipt") => tx[r] # "none"
    /\ request[r].at \in {"check", "add"} => federated \/ tx[r] = "ok"

\* A transaction is in the pool or mined only for a grant that has sampled, and
\* one that is not mined has somebody who waits for it or who has given up.
TxSays(r) ==
    tx[r] # "none" =>
        /\ request[r].at \in {"receipt", "check", "add", "ended"}
        /\ request[r].target = None
        /\ Cardinality(request[r].nodes) = Shares
        /\ tx[r] \in {"pending", "replaced"} /\ ~At(r, "receipt") =>
              Ended(r) /\ request[r].raised = "TimeExhausted"

\* Alice holds the policy, or has revoked it with a report.
Held(p) == active[p] # None \/ Deleted(p)

\* Whoever found or made the policy active: a revocation from its start on, and a
\* paid grant from its end on.
HeldSays(r) ==
    request[r].target # None \/ (Ended(r) /\ tx[r] = "ok" /\ request[r].raised # "TimeExhausted")
        => Held(request[r].policy)

RequestSays(r) == StageSays(r) /\ TxSays(r) /\ HeldSays(r)

\* An active policy is that of a grant that has ended, paid for and with n Ursulas.
ActiveSays ==
    \A p \in Policies : active[p] # None =>
        /\ Ended(active[p])
        /\ federated \/ tx[active[p]] = "ok"
        /\ Cardinality(request[active[p]].nodes) = Shares

\* The nonce of Alice's account counts the mined transactions.
Mined == {r \in Requests : tx[r] \in {"ok", "reverted"}}

IInv ==
    /\ TypeOK /\ count = Cardinality(Mined)
    /\ \A r \in Requests : RequestSays(r)
    /\ ActiveSays

-----------------------------------------------------------------------------
(* What the helpers of the model do to a request.                          *)

\* Alice's dictionary of requests changes at r only.
Only(r) ==
    /\ request' \in [Requests -> RequestStates]
    /\ \A s \in Requests : s # r => request'[s] = request[s]
    /\ request'[r].notFound \subseteq request'[r].failed

\* A request goes on: nothing of it changes but its stage.
LEMMA MoveMeans ==
    ASSUME TypeOK, NEW r \in Requests, NEW stage \in Stages, Move(r, stage)
    PROVE  /\ Only(r) /\ request'[r].at = stage
           /\ request'[r].policy = request[r].policy /\ request'[r].raised = request[r].raised
           /\ request'[r].nodes = request[r].nodes /\ request'[r].target = request[r].target
           /\ request'[r].failed = request[r].failed
BY DEF Move, TypeOK, RequestStates, Only

\* An exception ends the request and is recorded.
LEMMA RaiseMeans ==
    ASSUME TypeOK, NEW r \in Requests, NEW e \in Exceptions, Raise(r, e)
    PROVE  /\ Only(r) /\ request'[r].at = "ended" /\ request'[r].raised = e
           /\ request'[r].policy = request[r].policy
           /\ request'[r].nodes = request[r].nodes /\ request'[r].target = request[r].target
           /\ request'[r].failed = request[r].failed
BY DEF Raise, TypeOK, RequestStates, Only, Stages

\* The sampled Ursulas are put down; with a chain the payment comes next.
LEMMA SelectMeans ==
    ASSUME TypeOK, NEW r \in Requests, NEW nodes \in SUBSET Ursulas, Select(r, nodes)
    PROVE  /\ Only(r) /\ request'[r].at = IF federated THEN "check" ELSE "build"
           /\ request'[r].nodes = nodes
           /\ request'[r].policy = request[r].policy /\ request'[r].raised = request[r].raised
           /\ request'[r].target = request[r].target
<1> DEFINE stage == IF federated THEN "check" ELSE "build"
<1>1. stage \in Stages BY DEF Stages
<1>2. request' = [request EXCEPT ![r] = [request[r] EXCEPT !.nodes = nodes, !.at = stage]]
  BY DEF Select, TypeOK, RequestStates
<1> HIDE DEF stage
<1>3. [request[r] EXCEPT !.nodes = nodes, !.at = stage] \in RequestStates
  BY <1>1 DEF TypeOK, RequestStates
<1>4. /\ Only(r) /\ request'[r].at = stage /\ request'[r].nodes = nodes
      /\ request'[r].policy = request[r].policy /\ request'[r].raised = request[r].raised
      /\ request'[r].target = request[r].target
  BY <1>2, <1>3 DEF TypeOK, RequestStates, Only
<1> QED BY <1>4 DEF stage

\* get_enough_ursulas adds what is missing and never more.
LEMMA EnoughIsShares ==
    ASSUME NEW S \in SUBSET Ursulas, Cardinality(S) <= Shares,
           NEW nodes \in EnoughUrsulas(S), Cardinality(nodes) >= Shares
    PROVE  nodes \in SUBSET Ursulas /\ Cardinality(nodes) = Shares
<1> USE UrsulasAssumption, SharesAssumption
<1>1. PICK V \in SUBSET ((NulinkWorkers \cap known) \ S) :
        /\ nodes = S \cup V
        /\ Cardinality(V) = Shares - Cardinality(S) \/ Cardinality(V) < Shares - Cardinality(S)
  BY DEF EnoughUrsulas
<1>2. IsFiniteSet(S) /\ IsFiniteSet(V) /\ S \cap V = {} BY <1>1, FS_Subset
<1>3. Cardinality(S) \in Nat /\ Cardinality(V) \in Nat /\ Cardinality({}) = 0
  BY <1>2, FS_CardinalityType, FS_EmptySet
<1>4. Cardinality(S \cup V) = Cardinality(S) + Cardinality(V) - Cardinality(S \cap V)
  BY <1>2, FS_Union
<1>5. Cardinality(S \cap V) = 0 BY <1>2, <1>3
<1>6. Cardinality(nodes) = Cardinality(S) + Cardinality(V) BY <1>1, <1>3, <1>4, <1>5
<1> QED BY <1>1, <1>3, <1>6

-----------------------------------------------------------------------------
(* The invariant is inductive.                                             *)

\* Nothing is known of any request yet.
LEMMA InitInv == Init => IInv
<1> SUFFICES ASSUME Init PROVE IInv OBVIOUS
<1> USE RequestAssumption DEF Init, None
<1>1. Mined = {} BY DEF Mined
<1>2. Cardinality({}) = 0 /\ Cardinality(Requests) \in Nat BY FS_EmptySet, FS_CardinalityType
<1>3. NotMade \in RequestStates
  BY <1>2 DEF NotMade, RequestStates, Stages, Exceptions
<1>4. TypeOK BY <1>2, <1>3 DEF TypeOK, NotMade
<1>5. ASSUME NEW r \in Requests PROVE RequestSays(r)
  BY DEF RequestSays, StageSays, TxSays, HeldSays, NotMade, At, Ended
<1> QED BY <1>1, <1>2, <1>4, <1>5 DEF IInv, ActiveSays

\* A policy that is held stays so in a step of a request that has not ended, if
\* that step removes no policy without having ended as a revocation with a report.
LEMMA HeldStays ==
    ASSUME TypeOK, NEW r \in Requests, Only(r), ~Ended(r),
           NEW p, Held(p), active'[p] = active[p] \/ active'[p] # None \/ Deleted(p)'
    PROVE  Held(p)'
<1>1. CASE active[p] # None BY <1>1 DEF Held
<1>2. CASE Deleted(p)
  <2>1. PICK s \in Requests : /\ request[s].target # None /\ request[s].policy = p /\ Ended(s)
                              /\ request[s].raised = "none" /\ FewFailed(s)
    BY <1>2 DEF Deleted
  <2>2. request'[s] = request[s] BY <2>1 DEF Only
  <2>3. Deleted(p)' BY <2>1, <2>2 DEF Deleted, Ended, FewFailed
  <2> QED BY <2>3 DEF Held
<1> QED BY <1>1, <1>2 DEF Held

\* A step of a request that changes neither the transactions nor the active
\* policies has to account for that request only.
LEMMA OwnStepKeeps ==
    ASSUME IInv, NEW r \in Requests, Only(r), ~Ended(r), known' \in SUBSET Ursulas,
           UNCHANGED <<federated, active, tx, count>>,
           StageSays(r)', TxSays(r)',
           (\/ request'[r].target # None
            \/ Ended(r)' /\ tx[r] = "ok" /\ request'[r].raised # "TimeExhausted")
           => Held(request'[r].policy)
    PROVE  IInv'
<1>0. TypeOK BY DEF IInv
<1>1. TypeOK' BY <1>0 DEF TypeOK, Only
<1>2. Mined' = Mined BY DEF Mined
<1>3. \A p : Held(p) => Held(p)' BY <1>0, HeldStays
<1>4. ASSUME NEW s \in Requests PROVE RequestSays(s)'
  <2>1. CASE s = r
    <3>1. Held(request'[r].policy) => HeldSays(r)' BY <1>3 DEF HeldSays, Held
    <3>2. HeldSays(r)' BY <3>1 DEF HeldSays
    <3> QED BY <2>1, <3>2 DEF RequestSays
  <2>2. CASE s # r
    <3>1. request'[s] = request[s] /\ RequestSays(s) BY <2>2 DEF Only, IInv
    <3> QED BY <1>3, <3>1 DEF RequestSays, StageSays, TxSays, HeldSays, At, Ended
  <2> QED BY <2>1, <2>2
<1>5. ActiveSays'
  <2> SUFFICES ASSUME NEW p \in Policies, active[p] # None
               PROVE  /\ Ended(active[p])' /\ (federated \/ tx[active[p]] = "ok")
                      /\ Cardinality(request'[active[p]].nodes) = Shares
    BY DEF ActiveSays
  <2>1. active[p] \in Requests /\ active[p] # r /\ Ended(active[p]) BY <1>0 DEF IInv, ActiveSays, TypeOK
  <2>2. request'[active[p]] = request[active[p]] BY <2>1 DEF Only
  <2> QED BY <2>1, <2>2 DEF IInv, ActiveSays, Ended
<1> QED BY <1>1, <1>2, <1>4, <1>5 DEF IInv

\* What the learner does in the background does not touch the requests.
LEMMA BackgroundKeeps ==
    ASSUME IInv, known' \in SUBSET Ursulas, UNCHANGED <<federated, request, active, tx, count>>
    PROVE  IInv'
<1>1. TypeOK' BY DEF IInv, TypeOK
<1>2. Mined' = Mined BY DEF Mined
<1>3. \A p : Held(p)' <=> Held(p) BY DEF Held, Deleted, Ended, FewFailed
<1>4. ASSUME NEW r \in Requests PROVE RequestSays(r)'
  BY <1>3 DEF IInv, RequestSays, StageSays, TxSays, HeldSays, At, Ended
<1>5. ActiveSays' BY DEF IInv, ActiveSays, Ended
<1> QED BY <1>1, <1>2, <1>4, <1>5 DEF IInv

\* NotMade is a request, with nothing in it.
LEMMA NotMadeMeans ==
    /\ NotMade \in RequestStates
    /\ NotMade.raised = "none" /\ NotMade.target = None
    /\ NotMade.failed = {} /\ NotMade.notFound = {}
<1>1. Cardinality(Requests) \in Nat BY RequestAssumption, FS_CardinalityType
<1> QED BY <1>1 DEF NotMade, RequestStates, Stages, Exceptions

\* A grant or a revocation is asked for; only an active policy can be revoked.
LEMMA AskKeeps ==
    ASSUME IInv, NEW r \in Requests, NEW p \in Policies,
           \/ \E handpicked \in SUBSET Ursulas : Grant(r, p, handpicked)
           \/ Revoke(r, p) \/ RevokeUnknown(r, p)
    PROVE  IInv'
<1>0. /\ TypeOK /\ RequestSays(r) /\ At(r, "idle") /\ ~Ended(r) /\ tx[r] = "none"
  BY DEF IInv, RequestSays, TxSays, Grant, Revoke, RevokeUnknown, At, Ended
<1> USE NotMadeMeans DEF At, Ended
<1>1. CASE \E handpicked \in SUBSET Ursulas : Grant(r, p, handpicked)
  <2>1. PICK handpicked \in SUBSET Ursulas : Grant(r, p, handpicked) BY <1>1
  <2> DEFINE new == [NotMade EXCEPT !.policy = p, !.at = "learn", !.nodes = handpicked]
  <2>2. /\ new \in RequestStates /\ new.policy = p /\ new.at = "learn"
        /\ new.raised = "none" /\ new.target = None /\ new.failed = {} /\ new.notFound = {}
    BY DEF RequestStates, Stages
  <2>3. request' = [request EXCEPT ![r] = new] BY <2>1 DEF Grant
  <2> HIDE DEF new
  <2>4. Only(r) /\ request'[r] = new BY <1>0, <2>2, <2>3 DEF Only, TypeOK
  <2>5. StageSays(r)' /\ TxSays(r)' BY <1>0, <2>1, <2>2, <2>4 DEF StageSays, TxSays, Grant
  <2>6. known' \in SUBSET Ursulas BY <1>0, <2>1 DEF Grant, TypeOK
  <2> QED BY <1>0, <2>1, <2>2, <2>4, <2>5, <2>6, OwnStepKeeps DEF Grant
<1>2. CASE Revoke(r, p)
  <2>1. active[p] \in Requests BY <1>0, <1>2 DEF Revoke, TypeOK
  <2>2. request[active[p]].nodes \in SUBSET Ursulas BY <1>0, <2>1 DEF TypeOK, RequestStates
  <2> DEFINE new == [NotMade EXCEPT !.policy = p, !.at = "find", !.target = active[p],
                                    !.nodes = request[active[p]].nodes]
  <2>3. /\ new \in RequestStates /\ new.policy = p /\ new.at = "find"
        /\ new.raised = "none" /\ new.target = active[p] /\ new.failed = {} /\ new.notFound = {}
    BY <2>1, <2>2 DEF RequestStates, Stages
  <2>4. request' = [request EXCEPT ![r] = new] BY <1>2 DEF Revoke
  <2> HIDE DEF new
  <2>5. Only(r) /\ request'[r] = new BY <1>0, <2>3, <2>4 DEF Only, TypeOK
  <2>6. active[p] # None /\ UNCHANGED <<federated, known, active, tx, count>> BY <1>2 DEF Revoke
  <2>7. StageSays(r)' /\ TxSays(r)' BY <1>0, <2>3, <2>5, <2>6 DEF StageSays, TxSays
  <2>8. Held(request'[r].policy) BY <2>3, <2>5, <2>6 DEF Held
  <2>9. known' \in SUBSET Ursulas BY <1>0, <2>6 DEF TypeOK
  <2> QED BY <1>0, <2>5, <2>6, <2>7, <2>8, <2>9, OwnStepKeeps
<1>3. CASE RevokeUnknown(r, p)
  <2> DEFINE new == [NotMade EXCEPT !.policy = p, !.at = "ended", !.raised = "KeyError"]
  <2>1. /\ new \in RequestStates /\ new.policy = p /\ new.at = "ended"
        /\ new.raised = "KeyError" /\ new.target = None /\ new.failed = {} /\ new.notFound = {}
    BY DEF RequestStates, Stages, Exceptions
  <2>2. request' = [request EXCEPT ![r] = new] BY <1>3 DEF RevokeUnknown
  <2> HIDE DEF new
  <2>3. Only(r) /\ request'[r] = new BY <1>0, <2>1, <2>2 DEF Only, TypeOK
  <2>4. StageSays(r)' /\ TxSays(r)' BY <1>0, <1>3, <2>1, <2>3 DEF StageSays, TxSays, RevokeUnknown
  <2>5. known' \in SUBSET Ursulas BY <1>0, <1>3 DEF RevokeUnknown, TypeOK
  <2> QED BY <1>0, <1>3, <2>1, <2>3, <2>4, <2>5, OwnStepKeeps DEF RevokeUnknown
<1> QED BY <1>1, <1>2, <1>3

\* Steps of a grant up to its payment: there is no transaction yet.
LEMMA SamplingKeeps ==
    ASSUME IInv, NEW r \in Requests,
           \/ EnoughKnown(r) \/ NotEnoughNodes(r)
           \/ Sampled(r) \/ SampleJoinRaises(r) \/ SampledShort(r) \/ NotEnoughUrsulas(r)
    PROVE  IInv'
<1> USE DEF At, Ended
<1>0. /\ TypeOK /\ StageSays(r) /\ ~Ended(r) /\ tx[r] = "none"
      /\ request[r].at \in {"learn", "sample"} /\ request[r].target = None
      /\ known' \in SUBSET Ursulas /\ UNCHANGED <<federated, active, tx, count>>
  BY DEF IInv, RequestSays, TxSays, StageSays, TypeOK, EnoughKnown, NotEnoughNodes, Sampled,
         SampleJoinRaises, SampledShort, NotEnoughUrsulas
<1>1. ASSUME NEW S \in SUBSET Ursulas, Cardinality(S) = Shares, Select(r, S) PROVE IInv'
  <2>1. /\ Only(r) /\ request'[r].at = IF federated THEN "check" ELSE "build"
        /\ request'[r].nodes = S
        /\ request'[r].policy = request[r].policy /\ request'[r].raised = request[r].raised
        /\ request'[r].target = request[r].target
    BY <1>0, <1>1, SelectMeans
  <2>2. StageSays(r)' /\ TxSays(r)' BY <1>0, <1>1, <2>1 DEF StageSays, TxSays
  <2> QED BY <1>0, <2>1, <2>2, OwnStepKeeps
<1>2. ASSUME NEW e \in Exceptions, Raise(r, e) PROVE IInv'
  <2>1. /\ Only(r) /\ request'[r].at = "ended" /\ request'[r].policy = request[r].policy
        /\ request'[r].target = request[r].target
    BY <1>0, <1>2, RaiseMeans
  <2>2. StageSays(r)' /\ TxSays(r)' BY <1>0, <2>1 DEF StageSays, TxSays
  <2> QED BY <1>0, <2>1, <2>2, OwnStepKeeps
<1>3. CASE EnoughKnown(r)
  <2>1. /\ Only(r) /\ request'[r].at = "sample" /\ request'[r].policy = request[r].policy
        /\ request'[r].raised = request[r].raised /\ request'[r].target = request[r].target
    BY <1>0, <1>3, MoveMeans DEF EnoughKnown, Stages
  <2>2. StageSays(r)' /\ TxSays(r)' BY <1>0, <2>1 DEF StageSays, TxSays
  <2> QED BY <1>0, <2>1, <2>2, OwnStepKeeps
<1>4. Reachable(r) \subseteq Ursulas BY <1>0 DEF Reachable, TypeOK
<1>5. CASE Sampled(r)
  <2>1. PICK S \in SUBSET Reachable(r) : Cardinality(S) = Shares /\ Select(r, S) BY <1>5 DEF Sampled
  <2> QED BY <1>1, <1>4, <2>1
<1>6. CASE SampledShort(r)
  <2>1. PICK S \in SUBSET Reachable(r) :
          /\ Cardinality(S) <= Shares
          /\ \E nodes \in EnoughUrsulas(S) : Cardinality(nodes) >= Shares /\ Select(r, nodes)
    BY <1>6 DEF SampledShort
  <2>2. PICK nodes \in EnoughUrsulas(S) : Cardinality(nodes) >= Shares /\ Select(r, nodes) BY <2>1
  <2>3. nodes \in SUBSET Ursulas /\ Cardinality(nodes) = Shares
    BY <1>4, <2>1, <2>2, EnoughIsShares
  <2> QED BY <1>1, <2>2, <2>3
<1>7. CASE NotEnoughNodes(r) \/ SampleJoinRaises(r) \/ NotEnoughUrsulas(r)
  BY <1>2, <1>7 DEF NotEnoughNodes, SampleJoinRaises, NotEnoughUrsulas, Exceptions
<1> QED BY <1>3, <1>5, <1>6, <1>7

\* Steps of a grant around its payment that leave the transactions alone.
LEMMA PaymentKeeps ==
    ASSUME IInv, NEW r \in Requests,
           \/ Build(r) \/ BuildFails(r) \/ BroadcastRefused(r)
           \/ Receipt(r) \/ ReceiptFailed(r) \/ TimeExhausted(r) \/ NotActive(r) \/ AlreadyActive(r)
    PROVE  IInv'
<1> USE DEF At, Ended
<1>0. /\ TypeOK /\ StageSays(r) /\ TxSays(r) /\ ~Ended(r)
      /\ request[r].at \in {"build", "broadcast", "receipt", "check"}
      /\ known' \in SUBSET Ursulas /\ UNCHANGED <<federated, active, tx, count>>
  BY DEF IInv, RequestSays, TypeOK, Build, BuildFails, BroadcastRefused, Receipt, ReceiptFailed,
         TimeExhausted, NotActive, AlreadyActive
<1>1. CASE Build(r)
  <2>1. request' = [request EXCEPT ![r] = [request[r] EXCEPT !.nonce = count, !.at = "broadcast"]]
    BY <1>0, <1>1 DEF Build, TypeOK, RequestStates
  <2>2. /\ Only(r) /\ request'[r].at = "broadcast" /\ request'[r].policy = request[r].policy
        /\ request'[r].raised = request[r].raised /\ request'[r].target = request[r].target
        /\ request'[r].nodes = request[r].nodes
    BY <1>0, <2>1 DEF TypeOK, Stages, RequestStates, Only
  <2>3. StageSays(r)' /\ TxSays(r)' BY <1>0, <1>1, <2>2 DEF StageSays, TxSays, Build
  <2> QED BY <1>0, <1>1, <2>2, <2>3, OwnStepKeeps DEF Build, StageSays
<1>2. ASSUME NEW e \in Exceptions, Raise(r, e),
             tx[r] \in {"none", "reverted"} \/ e = "TimeExhausted" \/ At(r, "check"),
             At(r, "check") => Held(request[r].policy)
      PROVE  IInv'
  <2>1. /\ Only(r) /\ request'[r].at = "ended" /\ request'[r].policy = request[r].policy
        /\ request'[r].raised = e /\ request'[r].target = request[r].target
        /\ request'[r].nodes = request[r].nodes
    BY <1>0, <1>2, RaiseMeans
  <2>2. request[r].target = None BY <1>0 DEF StageSays
  <2>3. StageSays(r)' /\ TxSays(r)' BY <1>0, <1>2, <2>1 DEF StageSays, TxSays
  <2> QED BY <1>0, <1>2, <2>1, <2>2, <2>3, OwnStepKeeps
<1>3. CASE BuildFails(r) \/ BroadcastRefused(r)
  <2>1. Raise(r, "TransactionFailed") /\ tx[r] = "none" /\ ~At(r, "check")
    BY <1>0, <1>3 DEF BuildFails, BroadcastRefused, TxSays
  <2> QED BY <1>2, <2>1 DEF Exceptions
<1>4. CASE ReceiptFailed(r) BY <1>2, <1>4 DEF ReceiptFailed, Exceptions
<1>5. CASE TimeExhausted(r) BY <1>2, <1>5 DEF TimeExhausted, Exceptions
<1>6. CASE AlreadyActive(r) BY <1>2, <1>6 DEF AlreadyActive, Exceptions, Held
<1>7. ASSUME NEW stage \in {"check", "add"}, Move(r, stage), tx[r] = "ok" \/ federated,
             tx[r] \notin {"pending", "replaced"} \/ At(r, "check")
      PROVE  IInv'
  <2>1. /\ Only(r) /\ request'[r].at = stage /\ request'[r].policy = request[r].policy
        /\ request'[r].raised = request[r].raised /\ request'[r].target = request[r].target
        /\ request'[r].nodes = request[r].nodes
    BY <1>0, <1>7, MoveMeans DEF Stages
  <2>2. request[r].target = None /\ stage # "ended" BY <1>0 DEF StageSays
  <2>3. StageSays(r)' /\ TxSays(r)' BY <1>0, <1>7, <2>1 DEF StageSays, TxSays
  <2> QED BY <1>0, <2>1, <2>2, <2>3, OwnStepKeeps
<1>8. CASE Receipt(r) BY <1>7, <1>8 DEF Receipt
<1>9. CASE NotActive(r) BY <1>0, <1>7, <1>9 DEF NotActive, StageSays
<1> QED BY <1>1, <1>3, <1>4, <1>5, <1>6, <1>8, <1>9

\* Steps of a revocation that leave the active policies alone.
LEMMA TellingKeeps ==
    ASSUME IInv, NEW r \in Requests, RevokeStep(r), Report(r) => UNCHANGED active
    PROVE  IInv'
<1> USE DEF At, Ended
<1>0. /\ TypeOK /\ StageSays(r) /\ HeldSays(r) /\ ~Ended(r)
      /\ request[r].at \in {"find", "tell"} /\ request[r].target # None
      /\ tx[r] = "none" /\ Held(request[r].policy)
      /\ known' \in SUBSET Ursulas /\ UNCHANGED <<federated, active, tx, count>>
  BY DEF IInv, RequestSays, StageSays, TxSays, HeldSays, TypeOK, FindUrsulas, UrsulasMissing,
         TellOK, TellFails, TellRaises, Telling, ReportRaises, Report, RevokeStep
<1>1. ASSUME Only(r), request'[r].policy = request[r].policy,
             request'[r].target = request[r].target,
             \/ request'[r].at = "ended"
             \/ request'[r].at \in {"find", "tell"} /\ request'[r].raised = request[r].raised
      PROVE  IInv'
  <2>1. StageSays(r)' /\ TxSays(r)' BY <1>0, <1>1 DEF StageSays, TxSays
  <2> QED BY <1>0, <1>1, <2>1, OwnStepKeeps
<1>2. CASE FindUrsulas(r) BY <1>0, <1>1, <1>2, MoveMeans DEF FindUrsulas, Stages
<1>3. CASE \E e \in Exceptions : Raise(r, e) BY <1>0, <1>1, <1>3, RaiseMeans
<1>4. CASE UrsulasMissing(r) \/ ReportRaises(r)
  BY <1>3, <1>4 DEF UrsulasMissing, ReportRaises, Exceptions
<1>5. CASE Report(r)
  <2>1. CASE Move(r, "ended") BY <1>0, <1>1, <2>1, MoveMeans DEF Stages
  <2> QED BY <1>3, <1>5, <2>1 DEF Report, Exceptions
<1>6. ASSUME NEW u \in Ursulas, TellOK(r, u) PROVE IInv'
  <2>1. request[r].nodes \ {u} \in SUBSET Ursulas BY <1>0 DEF TypeOK, RequestStates
  <2>2. request' = [request EXCEPT ![r] = [request[r] EXCEPT !.nodes = request[r].nodes \ {u}]]
    BY <1>0, <1>6 DEF TellOK, TypeOK, RequestStates
  <2>3. /\ Only(r) /\ request'[r].at = request[r].at /\ request'[r].policy = request[r].policy
        /\ request'[r].raised = request[r].raised /\ request'[r].target = request[r].target
    BY <1>0, <2>1, <2>2 DEF TypeOK, RequestStates, Only
  <2> QED BY <1>0, <1>1, <2>3
<1>7. ASSUME NEW u \in Ursulas, TellFails(r, u) PROVE IInv'
  <2>1. PICK N \in SUBSET {u} : request' = [request EXCEPT ![r].nodes = @ \ {u},
                  ![r].failed = @ \cup {u}, ![r].notFound = @ \cup N]
    BY <1>7 DEF TellFails
  <2> DEFINE nodes == request[r].nodes \ {u}
             failed == request[r].failed \cup {u}
             notFound == request[r].notFound \cup N
  <2>2. /\ nodes \in SUBSET Ursulas /\ failed \in SUBSET Ursulas /\ notFound \in SUBSET Ursulas
        /\ notFound \subseteq failed
    BY <1>0 DEF TypeOK, RequestStates
  <2>3. request' = [request EXCEPT ![r] =
            [request[r] EXCEPT !.nodes = nodes, !.failed = failed, !.notFound = notFound]]
    BY <1>0, <2>1 DEF TypeOK, RequestStates
  <2> HIDE DEF nodes, failed, notFound
  <2>4. /\ Only(r) /\ request'[r].at = request[r].at /\ request'[r].policy = request[r].policy
        /\ request'[r].raised = request[r].raised /\ request'[r].target = request[r].target
    BY <1>0, <2>2, <2>3 DEF TypeOK, RequestStates, Only
  <2> QED BY <1>0, <1>1, <2>4
<1>8. ASSUME NEW u \in Ursulas, TellRaises(r, u) PROVE IInv'
  BY <1>3, <1>8 DEF TellRaises, Exceptions
<1> QED BY <1>2, <1>4, <1>5, <1>6, <1>7, <1>8 DEF RevokeStep

\* A transaction of the same nonce that is replaced is not mined: its request
\* still waits or has given up.
LEMMA BroadcastKeeps ==
    ASSUME IInv, NEW r \in Requests, Broadcast(r)
    PROVE  IInv'
<1> USE DEF At, Ended
<1>0. /\ TypeOK /\ StageSays(r) /\ ~Ended(r) /\ request[r].at = "broadcast" /\ tx[r] = "none"
      /\ UNCHANGED <<federated, known, active, count>>
  BY DEF IInv, RequestSays, StageSays, TxSays, Broadcast
<1>1. /\ Only(r) /\ request'[r].at = "receipt" /\ request'[r].policy = request[r].policy
      /\ request'[r].raised = request[r].raised /\ request'[r].target = request[r].target
      /\ request'[r].nodes = request[r].nodes
  BY <1>0, MoveMeans DEF Broadcast, Stages
<1>2. /\ tx' \in [Requests -> {"none", "pending", "replaced", "ok", "reverted"}]
      /\ tx'[r] = "pending"
      /\ \A s \in Requests : s # r => tx'[s] = IF tx[s] = "pending" THEN "replaced" ELSE tx[s]
  BY <1>0 DEF Broadcast, TypeOK
<1>3. TypeOK' BY <1>0, <1>1, <1>2 DEF TypeOK, Only
<1>4. Mined' = Mined BY <1>0, <1>2 DEF Mined
<1>5. \A p : Held(p) => Held(p)' BY <1>0, <1>1, HeldStays
<1>6. ASSUME NEW s \in Requests PROVE RequestSays(s)'
  <2>1. CASE s = r
    <3>1. StageSays(r)' /\ TxSays(r)' BY <1>0, <1>1, <1>2 DEF StageSays, TxSays
    <3>2. HeldSays(r)' BY <1>0, <1>1 DEF StageSays, HeldSays
    <3> QED BY <2>1, <3>1, <3>2 DEF RequestSays
  <2>2. CASE s # r
    <3>1. request'[s] = request[s] /\ RequestSays(s) BY <1>1, <2>2 DEF Only, IInv
    <3>2. tx'[s] = tx[s] \/ (tx[s] = "pending" /\ tx'[s] = "replaced") BY <1>2, <2>2
    <3> QED BY <1>0, <1>5, <3>1, <3>2 DEF RequestSays, StageSays, TxSays, HeldSays
  <2> QED BY <2>1, <2>2
<1>7. ActiveSays'
  <2> SUFFICES ASSUME NEW p \in Policies, active[p] # None
               PROVE  /\ Ended(active[p])' /\ (federated \/ tx'[active[p]] = "ok")
                      /\ Cardinality(request'[active[p]].nodes) = Shares
    BY <1>0 DEF ActiveSays
  <2>1. active[p] \in Requests /\ active[p] # r /\ Ended(active[p]) BY <1>0 DEF IInv, ActiveSays, TypeOK
  <2>2. request'[active[p]] = request[active[p]] BY <1>1, <2>1 DEF Only
  <2>3. tx[active[p]] = "ok" => tx'[active[p]] = "ok" BY <1>2, <2>1
  <2> QED BY <1>0, <2>1, <2>2, <2>3 DEF IInv, ActiveSays
<1> QED BY <1>0, <1>3, <1>4, <1>6, <1>7 DEF IInv

\* Each transaction is mined once, so the nonce stays within the requests; the
\* request still waits for the receipt or has given up.
LEMMA MineKeeps ==
    ASSUME IInv, NEW r \in Requests, Mine(r)
    PROVE  IInv'
<1> USE RequestAssumption DEF At, Ended
<1>0. /\ TypeOK /\ tx[r] = "pending" /\ TxSays(r) /\ count' = count + 1
      /\ UNCHANGED <<federated, known, request, active>>
  BY DEF IInv, RequestSays, Mine
<1>1. PICK result \in {"ok", "reverted"} : tx' = [tx EXCEPT ![r] = result] BY DEF Mine
<1>2. Mined' = Mined \cup {r} /\ r \notin Mined /\ Mined' \subseteq Requests /\ Mined \subseteq Requests
  BY <1>0, <1>1 DEF Mined, TypeOK
<1>3. IsFiniteSet(Mined) /\ IsFiniteSet(Mined') /\ Cardinality(Mined) \in Nat
      /\ Cardinality(Requests) \in Nat
  BY <1>2, FS_Subset, FS_CardinalityType
<1>4. Cardinality(Mined') = Cardinality(Mined) + 1 /\ Cardinality(Mined') <= Cardinality(Requests)
  BY <1>2, <1>3, FS_AddElement, FS_Subset
<1>5. count' = Cardinality(Mined') /\ count' \in 0..Cardinality(Requests)
  BY <1>0, <1>3, <1>4 DEF IInv
<1>6. TypeOK' BY <1>0, <1>1, <1>5 DEF TypeOK
<1>7. \A p : Held(p)' <=> Held(p) BY <1>0 DEF Held, Deleted, FewFailed
<1>8. ASSUME NEW s \in Requests PROVE RequestSays(s)'
  <2>1. CASE s = r
    BY <1>0, <1>1, <1>7, <2>1 DEF IInv, TypeOK, RequestSays, StageSays, TxSays, HeldSays
  <2>2. CASE s # r
    BY <1>0, <1>1, <1>7, <2>2 DEF IInv, TypeOK, RequestSays, StageSays, TxSays, HeldSays
  <2> QED BY <2>1, <2>2
<1>9. ActiveSays'
  <2> SUFFICES ASSUME NEW p \in Policies, active[p] # None
               PROVE  federated \/ tx'[active[p]] = "ok"
    BY <1>0 DEF IInv, ActiveSays
  <2>1. active[p] \in Requests BY <1>0 DEF TypeOK
  <2>2. tx'[active[p]] = tx[active[p]] \/ active[p] = r BY <1>0, <1>1, <2>1 DEF TypeOK
  <2> QED BY <1>0, <2>2 DEF IInv, ActiveSays
<1> QED BY <1>5, <1>6, <1>8, <1>9 DEF IInv

\* A policy that becomes active is that of a grant whose payment is known.
LEMMA AddActiveKeeps ==
    ASSUME IInv, NEW r \in Requests, AddActive(r)
    PROVE  IInv'
<1> USE RequestAssumption DEF At, Ended, None
<1>0. /\ TypeOK /\ StageSays(r) /\ TxSays(r) /\ ~Ended(r) /\ request[r].at = "add"
      /\ UNCHANGED <<federated, known, tx, count>>
  BY DEF IInv, RequestSays, AddActive
<1>1. /\ Only(r) /\ request'[r].at = "ended" /\ request'[r].policy = request[r].policy
      /\ request'[r].raised = request[r].raised /\ request'[r].target = request[r].target
      /\ request'[r].nodes = request[r].nodes
  BY <1>0, MoveMeans DEF AddActive, Stages
<1>2. request[r].policy \in Policies BY <1>0 DEF StageSays
<1>3. /\ active' \in [Policies -> Requests \cup {None}] /\ active'[request[r].policy] = r
      /\ \A p \in Policies : active'[p] = active[p] \/ active'[p] = r
  BY <1>0, <1>2 DEF AddActive, TypeOK
<1>4. TypeOK' BY <1>0, <1>1, <1>3 DEF TypeOK, Only
<1>5. Mined' = Mined BY <1>0 DEF Mined
<1>6. \A p \in Policies : Held(p) => Held(p)'
  <2> SUFFICES ASSUME NEW p \in Policies, Held(p) PROVE Held(p)' OBVIOUS
  <2>1. active'[p] = active[p] \/ active'[p] # None BY <1>3
  <2> QED BY <1>0, <1>1, <2>1, HeldStays
<1>7. ASSUME NEW s \in Requests PROVE RequestSays(s)'
  <2>1. CASE s = r
    <3>1. StageSays(r)' /\ TxSays(r)' BY <1>0, <1>1, <1>2 DEF StageSays, TxSays
    <3>2. HeldSays(r)' BY <1>1, <1>3 DEF HeldSays, Held
    <3> QED BY <2>1, <3>1, <3>2 DEF RequestSays
  <2>2. CASE s # r
    <3>1. request'[s] = request[s] /\ RequestSays(s) BY <1>1, <2>2 DEF Only, IInv
    <3>2. request[s].target # None \/ Ended(s) => request[s].policy \in Policies
      BY <3>1 DEF RequestSays, StageSays
    <3> QED BY <1>0, <1>6, <3>1, <3>2 DEF RequestSays, StageSays, TxSays, HeldSays
  <2> QED BY <2>1, <2>2
<1>8. ActiveSays'
  <2> SUFFICES ASSUME NEW p \in Policies, active'[p] # None
               PROVE  /\ request'[active'[p]].at = "ended" /\ (federated \/ tx[active'[p]] = "ok")
                      /\ Cardinality(request'[active'[p]].nodes) = Shares
    BY <1>0 DEF ActiveSays
  <2>1. CASE active'[p] = r BY <1>0, <1>1, <2>1 DEF StageSays
  <2>2. CASE active'[p] # r
    <3>1. active'[p] = active[p] /\ active[p] \in Requests BY <1>0, <1>3, <2>2 DEF TypeOK
    <3>2. request'[active[p]] = request[active[p]] BY <1>1, <2>2, <3>1 DEF Only
    <3> QED BY <3>1, <3>2 DEF IInv, ActiveSays
  <2> QED BY <2>1, <2>2
<1> QED BY <1>0, <1>4, <1>5, <1>7, <1>8 DEF IInv

\* A policy leaves active_policies only together with the report of a revocation.
LEMMA ReportKeeps ==
    ASSUME IInv, NEW r \in Requests, Report(r)
    PROVE  IInv'
<1> USE RequestAssumption DEF At, Ended
<1>1. CASE UNCHANGED active BY <1>1, TellingKeeps DEF RevokeStep
<1>2. CASE ~UNCHANGED active
  <2>0. /\ TypeOK /\ StageSays(r) /\ TxSays(r) /\ ~Ended(r) /\ request[r].at = "tell"
        /\ request[r].target # None /\ request[r].raised = "none" /\ tx[r] = "none"
        /\ request[r].policy \in Policies /\ FewFailed(r) /\ Move(r, "ended")
        /\ active' = [active EXCEPT ![request[r].policy] = None]
        /\ UNCHANGED <<federated, known, tx, count>>
    BY <1>2 DEF IInv, RequestSays, Report, StageSays, TxSays
  <2>1. /\ Only(r) /\ request'[r].at = "ended" /\ request'[r].policy = request[r].policy
        /\ request'[r].raised = request[r].raised /\ request'[r].target = request[r].target
        /\ request'[r].failed = request[r].failed
    BY <2>0, MoveMeans DEF Stages
  <2>2. /\ active' \in [Policies -> Requests \cup {None}]
        /\ \A p \in Policies : p # request[r].policy => active'[p] = active[p]
        /\ active'[request[r].policy] = None
    BY <2>0 DEF TypeOK
  <2>3. TypeOK' BY <2>0, <2>1, <2>2 DEF TypeOK, Only
  <2>4. Mined' = Mined BY <2>0 DEF Mined
  <2>5. Deleted(request[r].policy)' BY <2>0, <2>1 DEF Deleted, FewFailed
  <2>6. \A p \in Policies : Held(p) => Held(p)'
    <3> SUFFICES ASSUME NEW p \in Policies, Held(p) PROVE Held(p)' OBVIOUS
    <3>1. CASE p = request[r].policy BY <2>0, <2>1, <3>1 DEF Held, Deleted, FewFailed
    <3>2. CASE p # request[r].policy
      <4>1. active'[p] = active[p] BY <2>2, <3>2
      <4> QED BY <2>0, <2>1, <4>1, HeldStays
    <3> QED BY <3>1, <3>2
  <2>7. ASSUME NEW s \in Requests PROVE RequestSays(s)'
    <3>1. CASE s = r
      <4>1. StageSays(r)' /\ TxSays(r)' BY <2>0, <2>1 DEF StageSays, TxSays
      <4>2. HeldSays(r)' BY <2>1, <2>5 DEF HeldSays, Held, Deleted
      <4> QED BY <3>1, <4>1, <4>2 DEF RequestSays
    <3>2. CASE s # r
      <4>1. request'[s] = request[s] /\ RequestSays(s) BY <2>1, <3>2 DEF Only, IInv
      <4>2. request[s].target # None \/ Ended(s) => request[s].policy \in Policies
        BY <4>1 DEF RequestSays, StageSays
      <4> QED BY <2>0, <2>6, <4>1, <4>2 DEF RequestSays, StageSays, TxSays, HeldSays
    <3> QED BY <3>1, <3>2
  <2>8. ActiveSays'
    <3> SUFFICES ASSUME NEW p \in Policies, active'[p] # None
                 PROVE  /\ request'[active'[p]].at = "ended"
                        /\ (federated \/ tx[active'[p]] = "ok")
                        /\ Cardinality(request'[active'[p]].nodes) = Shares
      BY <2>0 DEF ActiveSays
    <3>1. active'[p] = active[p] /\ active[p] \in Requests BY <2>0, <2>2 DEF TypeOK
    <3>2. Ended(active[p]) BY <3>1 DEF IInv, ActiveSays
    <3>3. request'[active[p]] = request[active[p]] BY <2>0, <2>1, <3>1, <3>2 DEF Only
    <3> QED BY <3>1, <3>3 DEF IInv, ActiveSays
  <2> QED BY <2>0, <2>3, <2>4, <2>7, <2>8 DEF IInv
<1> QED BY <1>1, <1>2

\* Every step keeps the invariant.
LEMMA NextKeeps == IInv /\ [Next]_vars => IInv'
<1> SUFFICES ASSUME IInv, [Next]_vars PROVE IInv' OBVIOUS
<1>0. known \in SUBSET Ursulas BY DEF IInv, TypeOK
<1>1. CASE UNCHANGED vars BY <1>0, <1>1, BackgroundKeeps DEF vars
<1>2. ASSUME NEW u \in Ursulas, LearnOf(u) \/ Forget(u) PROVE IInv'
  BY <1>0, <1>2, BackgroundKeeps DEF LearnOf, Forget
<1>3. ASSUME NEW r \in Requests,
             \/ \E p \in Policies, handpicked \in SUBSET Ursulas : Grant(r, p, handpicked)
             \/ \E p \in Policies : Revoke(r, p) \/ RevokeUnknown(r, p)
      PROVE  IInv'
  BY <1>3, AskKeeps
<1>4. ASSUME NEW r \in Requests, GrantStep(r) PROVE IInv'
  BY <1>4, SamplingKeeps, PaymentKeeps, BroadcastKeeps, AddActiveKeeps DEF GrantStep
<1>5. ASSUME NEW r \in Requests, RevokeStep(r) PROVE IInv'
  <2>1. CASE Report(r) BY <2>1, ReportKeeps
  <2>2. CASE ~Report(r) BY <1>5, <2>2, TellingKeeps
  <2> QED BY <2>1, <2>2
<1>6. ASSUME NEW r \in Requests, Mine(r) PROVE IInv' BY <1>6, MineKeeps
<1> QED BY <1>1, <1>2, <1>3, <1>4, <1>5, <1>6 DEF Next

\* The invariant holds in every behaviour.
LEMMA InvHolds == Spec => []IInv
BY InitInv, NextKeeps, PTL DEF Spec

-----------------------------------------------------------------------------
(* The theorems.                                                           *)

\* Whatever nonces collide, transactions replace each other or receipts come late:
\* the policy that add_active_policy records has been paid for by its own grant.
THEOREM ActivePoliciesArePaid == Spec => []ActiveIsPaid
<1>1. IInv => ActiveIsPaid BY DEF IInv, ActiveSays, ActiveIsPaid
<1> QED BY <1>1, InvHolds, PTL

\* Alice does not lose a policy she has paid for, except when the wait for the
\* receipt timed out: it is active or was revoked with a report.
THEOREM PaidPoliciesAreHeld == Spec => []PaidIsHeld
<1>1. ASSUME IInv PROVE PaidIsHeld
  <2> SUFFICES ASSUME NEW r \in Requests, request[r].at \in {"idle", "ended"}, tx[r] = "ok",
                      request[r].raised # "TimeExhausted"
               PROVE  active[request[r].policy] # None \/ Deleted(request[r].policy)
    BY DEF PaidIsHeld
  <2> QED BY <1>1 DEF IInv, RequestSays, TxSays, HeldSays, Held, Ended
<1> QED BY <1>1, InvHolds, PTL

\* grant pays, and makes a treasure map, for exactly n Ursulas, whatever the pool
\* returned and however get_enough_ursulas has filled it up.
THEOREM MapsHaveShares == Spec => []ExactlyShares
<1>1. ASSUME IInv PROVE ExactlyShares
  <2> SUFFICES ASSUME NEW r \in Requests, tx[r] # "none" \/ \E p \in Policies : active[p] = r
               PROVE  Cardinality(request[r].nodes) = Shares
    BY DEF ExactlyShares
  <2>1. CASE tx[r] # "none" BY <1>1, <2>1 DEF IInv, RequestSays, TxSays
  <2>2. CASE \E p \in Policies : active[p] = r
    BY <1>1, <2>2, RequestAssumption DEF IInv, ActiveSays, None
  <2> QED BY <2>1, <2>2
<1> QED BY <1>1, InvHolds, PTL

\* A revocation whose report was not returned, or had too many failures, can be
\* made again: only a report with few failures takes the policy away.
THEOREM RevocationsRepeat == Spec => []RevocationRepeatable
<1>1. ASSUME IInv PROVE RevocationRepeatable
  <2> SUFFICES ASSUME NEW r \in Requests, request[r].target # None
               PROVE  active[request[r].policy] # None \/ Deleted(request[r].policy)
    BY DEF RevocationRepeatable
  <2> QED BY <1>1 DEF IInv, RequestSays, HeldSays, Held
<1> QED BY <1>1, InvHolds, PTL
=============================================================================
