--------------------------- MODULE PolicyLifecycle ---------------------------
(***************************************************************************)
(* Policies in the hands of Alice: grant (sampling Ursulas, paying through   *)
(* a transaction, issuing the treasure map, recording the policy as active)  *)
(* and revoke, as requests of her web controller that run concurrently.      *)
(*                                                                         *)
(* A policy is its HRAC (Alice, Bob and label); an enacted policy is known   *)
(* by the request that enacted it.  Sampling is one step, with the outcomes  *)
(* that WorkerPool has.  The transaction pool and the SubscriptionManager    *)
(* contract are external.                                                   *)
(***************************************************************************)
EXTENDS Integers, FiniteSets

CONSTANTS
    Ursulas,        \* nodes of the network
    Stakers,        \* addresses in the reservoir of staking providers
    NulinkWorkers,  \* addresses of the built-in workers
    Policies,       \* HRACs
    Requests,       \* requests to Alice, each made once
    Shares,         \* n
    Threshold,      \* m
    Modes           \* values of federated_only

ASSUME UrsulasAssumption == IsFiniteSet(Ursulas) /\ Stakers \subseteq Ursulas /\ NulinkWorkers \subseteq Ursulas
ASSUME SharesAssumption  == Shares \in Nat \ {0} /\ Threshold \in 1..Shares
ASSUME RequestAssumption == IsFiniteSet(Requests) /\ "none" \notin Requests /\ "none" \notin Policies
ASSUME ModesAssumption   == Modes \subseteq BOOLEAN /\ Modes # {}

VARIABLES
    federated,      \* federated_only
    known,          \* addresses in Alice's known_nodes
    request,        \* the requests and where they are
    active,         \* active_policies: the request that enacted the policy, if any
    tx,             \* the createPolicy transaction of each request
    count           \* transactions of Alice's account that are mined

vars == <<federated, known, request, active, tx, count>>

-----------------------------------------------------------------------------
None == "none"

Stages == {"idle", "learn", "sample", "build", "broadcast", "receipt", "check", "add",
           "find", "tell", "ended"}
Exceptions == {"none", "NotEnoughNodes", "AlreadyQuit", "NotEnoughUrsulas", "TransactionFailed",
               "TimeExhausted", "InterfaceError", "KeyError", "NotEnoughTeachers",
               "RuntimeError", "Unreachable"}

\* `nodes` are the handpicked Ursulas and then the sampled ones of a grant, and
\* the Ursulas a revocation has still to tell; `target` the enacted policy that
\* is revoked, `failed` the Ursulas whose revocation failed, `notFound` those
\* among them that answered 404.
RequestStates ==
    [policy : Policies \cup {None}, at : Stages, raised : Exceptions, nodes : SUBSET Ursulas,
     nonce : 0..Cardinality(Requests), target : Requests \cup {None},
     failed : SUBSET Ursulas, notFound : SUBSET Ursulas]

NotMade == [policy |-> None, at |-> "idle", raised |-> "none", nodes |-> {}, nonce |-> 0,
            target |-> None, failed |-> {}, notFound |-> {}]

\* The types of Alice's state and of her transactions; an Ursula that answered
\* 404 is among the failed ones.
TypeOK ==
    /\ federated \in Modes
    /\ known \in SUBSET Ursulas
    /\ request \in [Requests -> RequestStates]
    /\ \A r \in Requests : request[r].notFound \subseteq request[r].failed
    /\ active \in [Policies -> Requests \cup {None}]
    /\ tx \in [Requests -> {"none", "pending", "replaced", "ok", "reverted"}]
    /\ count \in 0..Cardinality(Requests)

Init ==
    /\ federated \in Modes
    /\ known \in SUBSET Ursulas
    /\ request = [r \in Requests |-> NotMade]
    /\ active = [p \in Policies |-> None]
    /\ tx = [r \in Requests |-> "none"]
    /\ count = 0

At(r, stage) == request[r].at = stage
Move(r, stage) == request' = [request EXCEPT ![r].at = stage]
Raise(r, exception) == request' = [request EXCEPT ![r].at = "ended", ![r].raised = exception]

-----------------------------------------------------------------------------
(* Alice's learner, in the background.                                     *)

\* record_node.
LearnOf(u) ==
    /\ known' = known \cup {u}
    /\ UNCHANGED <<federated, request, active, tx, count>>

\* A teacher whose metadata turns out to be invalid is marked and removed.
Forget(u) ==
    /\ known' = known \ {u}
    /\ UNCHANGED <<federated, request, active, tx, count>>

-----------------------------------------------------------------------------
(* grant: sampling.                                                        *)

\* The handpicked Ursulas are remembered and the policy is created.
Grant(r, p, handpicked) ==
    /\ At(r, "idle")
    /\ known' = known \cup handpicked
    /\ request' = [request EXCEPT ![r] =
          [NotMade EXCEPT !.policy = p, !.at = "learn", !.nodes = handpicked]]
    /\ UNCHANGED <<federated, active, tx, count>>

\* block_until_number_of_known_nodes_is returns or raises.
EnoughKnown(r) ==
    /\ At(r, "learn") /\ Cardinality(known) >= Shares
    /\ Move(r, "sample")
    /\ UNCHANGED <<federated, known, active, tx, count>>

NotEnoughNodes(r) ==
    /\ At(r, "learn") /\ Cardinality(known) < Shares
    /\ Raise(r, "NotEnoughNodes")
    /\ UNCHANGED <<federated, known, active, tx, count>>

\* Addresses the reservoir can draw and that can answer a ping: an address that
\* is not known fails without one.
Reachable(r) == (request[r].nodes \cup (IF federated THEN known ELSE Stakers)) \cap known

Select(r, nodes) ==
    request' = [request EXCEPT ![r].nodes = nodes, ![r].at = IF federated THEN "check" ELSE "build"]

\* The pool reaches its target.
Sampled(r) ==
    /\ At(r, "sample")
    /\ \E S \in SUBSET Reachable(r) : Cardinality(S) = Shares /\ Select(r, S)
    /\ UNCHANGED <<federated, known, active, tx, count>>

\* The pool reaches its target and its join raises (WorkerPool's SubmitRaises).
SampleJoinRaises(r) ==
    /\ At(r, "sample") /\ Cardinality(Reachable(r)) >= Shares
    /\ Raise(r, "AlreadyQuit")
    /\ UNCHANGED <<federated, known, active, tx, count>>

\* Seeded fault: one worker too many is added.
EnoughUrsulasOneMore(S) ==
    {S \cup W : W \in {V \in SUBSET ((NulinkWorkers \cap known) \ S) :
        Cardinality(V) = Shares - Cardinality(S) + 1 \/ V = (NulinkWorkers \cap known) \ S}}

\* get_enough_ursulas: built-in workers that are known make up for the Ursulas
\* that did not answer, whether they answer themselves or not.
EnoughUrsulas(S) ==
    {S \cup W : W \in {V \in SUBSET ((NulinkWorkers \cap known) \ S) :
        \/ Cardinality(V) = Shares - Cardinality(S)
        \/ V = (NulinkWorkers \cap known) \ S /\ Cardinality(V) < Shares - Cardinality(S)}}

\* The pool runs out of values or times out with the successes S.
SampledShort(r) ==
    /\ At(r, "sample")
    /\ \E S \in SUBSET Reachable(r) :
          /\ Cardinality(S) <= Shares
          /\ \E nodes \in EnoughUrsulas(S) : Cardinality(nodes) >= Shares /\ Select(r, nodes)
    /\ UNCHANGED <<federated, known, active, tx, count>>

\* Neither the sampled Ursulas nor the built-in workers suffice.
NotEnoughUrsulas(r) ==
    /\ At(r, "sample")
    /\ \E S \in SUBSET Reachable(r) :
          /\ Cardinality(S) <= Shares
          /\ \E nodes \in EnoughUrsulas(S) : Cardinality(nodes) < Shares
    /\ Raise(r, "NotEnoughUrsulas")
    /\ UNCHANGED <<federated, known, active, tx, count>>

-----------------------------------------------------------------------------
(* grant: payment, by createPolicy of the SubscriptionManager.              *)

\* build_contract_transaction: the nonce is the number of mined transactions.
Build(r) ==
    /\ At(r, "build")
    /\ request' = [request EXCEPT ![r].nonce = count, ![r].at = "broadcast"]
    /\ UNCHANGED <<federated, known, active, tx, count>>

\* The gas estimation or the construction of the transaction fails.
BuildFails(r) ==
    /\ At(r, "build")
    /\ Raise(r, "TransactionFailed")
    /\ UNCHANGED <<federated, known, active, tx, count>>

\* send_raw_transaction: a transaction with the same nonce that is not mined yet
\* is replaced.
Broadcast(r) ==
    /\ At(r, "broadcast") /\ request[r].nonce = count
    /\ Move(r, "receipt")
    /\ tx' = [q \in Requests |-> IF q = r THEN "pending"
                                 ELSE IF tx[q] = "pending" THEN "replaced" ELSE tx[q]]
    /\ UNCHANGED <<federated, known, active, count>>

\* The nonce is used already, or the replacement does not pay enough.
BroadcastRefused(r) ==
    /\ At(r, "broadcast") /\ (request[r].nonce # count \/ \E q \in Requests : tx[q] = "pending")
    /\ Raise(r, "TransactionFailed")
    /\ UNCHANGED <<federated, known, active, tx, count>>

\* The transaction is mined, whoever still waits for it; the contract may refuse.
Mine(r) ==
    /\ tx[r] = "pending"
    /\ \E result \in {"ok", "reverted"} : tx' = [tx EXCEPT ![r] = result]
    /\ count' = count + 1
    /\ UNCHANGED <<federated, known, request, active>>

\* Seeded fault: the status in the receipt is not looked at.
ReceiptAnyStatus(r) ==
    /\ At(r, "receipt") /\ tx[r] \in {"ok", "reverted"}
    /\ Move(r, "check")
    /\ UNCHANGED <<federated, known, active, tx, count>>

Receipt(r) ==
    /\ At(r, "receipt") /\ tx[r] = "ok"
    /\ Move(r, "check")
    /\ UNCHANGED <<federated, known, active, tx, count>>

ReceiptFailed(r) ==
    /\ At(r, "receipt") /\ tx[r] = "reverted"
    /\ Raise(r, "InterfaceError")
    /\ UNCHANGED <<federated, known, active, tx, count>>

\* No receipt in time; the transaction stays in the pool.
TimeExhausted(r) ==
    /\ At(r, "receipt") /\ tx[r] \in {"pending", "replaced"}
    /\ Raise(r, "TimeExhausted")
    /\ UNCHANGED <<federated, known, active, tx, count>>

-----------------------------------------------------------------------------
(* grant: the treasure map is made and the policy is added.                *)

\* add_active_policy looks whether the policy is there ...
NotActive(r) ==
    /\ At(r, "check") /\ active[request[r].policy] = None
    /\ Move(r, "add")
    /\ UNCHANGED <<federated, known, active, tx, count>>

AlreadyActive(r) ==
    /\ At(r, "check") /\ active[request[r].policy] # None
    /\ Raise(r, "KeyError")
    /\ UNCHANGED <<federated, known, active, tx, count>>

\* Seeded fault: the policy is returned and not recorded.
ReturnOnly(r) ==
    /\ At(r, "add")
    /\ Move(r, "ended")
    /\ UNCHANGED <<federated, known, active, tx, count>>

\* ... and puts it there; another request may have done so in between.
AddActive(r) ==
    /\ At(r, "add")
    /\ active' = [active EXCEPT ![request[r].policy] = r]
    /\ Move(r, "ended")
    /\ UNCHANGED <<federated, known, tx, count>>

-----------------------------------------------------------------------------
(* revoke, of AliceInterface and of Alice.                                 *)

Revoke(r, p) ==
    /\ At(r, "idle") /\ active[p] # None
    /\ request' = [request EXCEPT ![r] =
          [NotMade EXCEPT !.policy = p, !.at = "find", !.target = active[p],
                          !.nodes = request[active[p]].nodes]]
    /\ UNCHANGED <<federated, known, active, tx, count>>

RevokeUnknown(r, p) ==
    /\ At(r, "idle") /\ active[p] = None
    /\ request' = [request EXCEPT ![r] =
          [NotMade EXCEPT !.policy = p, !.at = "ended", !.raised = "KeyError"]]
    /\ UNCHANGED <<federated, known, active, tx, count>>

Telling(r, u) == At(r, "tell") /\ u \in request[r].nodes

\* block_until_specific_nodes_are_known returns, though threshold - 1 Ursulas may
\* be missing, or raises.
FindUrsulas(r) ==
    /\ At(r, "find") /\ Cardinality(request[r].nodes \ known) <= Threshold - 1
    /\ Move(r, "tell")
    /\ UNCHANGED <<federated, known, active, tx, count>>

UrsulasMissing(r) ==
    /\ At(r, "find") /\ Cardinality(request[r].nodes \ known) > Threshold - 1
    /\ Raise(r, "NotEnoughTeachers")
    /\ UNCHANGED <<federated, known, active, tx, count>>

\* The Ursula answers with OK; she does nothing else.
TellOK(r, u) ==
    /\ Telling(r, u) /\ u \in known
    /\ request' = [request EXCEPT ![r].nodes = @ \ {u}]
    /\ UNCHANGED <<federated, known, active, tx, count>>

\* NotFound or another UnexpectedResponse is put down as a failure.
TellFails(r, u) ==
    /\ Telling(r, u) /\ u \in known
    /\ \E N \in SUBSET {u} :
          request' = [request EXCEPT ![r].nodes = @ \ {u}, ![r].failed = @ \cup {u},
                                     ![r].notFound = @ \cup N]
    /\ UNCHANGED <<federated, known, active, tx, count>>

\* A node that cannot be reached raises, and so does one that is not known.
TellRaises(r, u) ==
    /\ Telling(r, u)
    /\ Raise(r, IF u \in known THEN "Unreachable" ELSE "KeyError")
    /\ UNCHANGED <<federated, known, active, tx, count>>

\* Seeded fault: the policy is deleted before the failures are looked at.
ReportRaisesLate(r) ==
    /\ At(r, "tell") /\ request[r].nodes = {} /\ request[r].notFound # {}
    /\ Raise(r, "RuntimeError")
    /\ active' = [active EXCEPT ![request[r].policy] = None]
    /\ UNCHANGED <<federated, known, tx, count>>

\* The interface deletes from the dictionary of failures it iterates over.
ReportRaises(r) ==
    /\ At(r, "tell") /\ request[r].nodes = {} /\ request[r].notFound # {}
    /\ Raise(r, "RuntimeError")
    /\ UNCHANGED <<federated, known, active, tx, count>>

FewFailed(r) == Cardinality(request[r].failed) <= Shares - Threshold + 1

\* The policy is deleted, whichever is there now, or kept.
Report(r) ==
    /\ At(r, "tell") /\ request[r].nodes = {} /\ request[r].notFound = {}
    /\ IF ~FewFailed(r) THEN Move(r, "ended") /\ UNCHANGED active
       ELSE IF active[request[r].policy] = None THEN Raise(r, "KeyError") /\ UNCHANGED active
       ELSE Move(r, "ended") /\ active' = [active EXCEPT ![request[r].policy] = None]
    /\ UNCHANGED <<federated, known, tx, count>>

-----------------------------------------------------------------------------
GrantStep(r) ==
    \/ EnoughKnown(r) \/ NotEnoughNodes(r)
    \/ Sampled(r) \/ SampleJoinRaises(r) \/ SampledShort(r) \/ NotEnoughUrsulas(r)
    \/ Build(r) \/ BuildFails(r) \/ Broadcast(r) \/ BroadcastRefused(r)
    \/ Receipt(r) \/ ReceiptFailed(r) \/ TimeExhausted(r)
    \/ NotActive(r) \/ AlreadyActive(r) \/ AddActive(r)

RevokeStep(r) ==
    \/ FindUrsulas(r) \/ UrsulasMissing(r)
    \/ \E u \in Ursulas : TellOK(r, u) \/ TellFails(r, u) \/ TellRaises(r, u)
    \/ ReportRaises(r) \/ Report(r)

Next ==
    \/ \E u \in Ursulas : LearnOf(u) \/ Forget(u)
    \/ \E r \in Requests :
          \/ \E p \in Policies, handpicked \in SUBSET Ursulas : Grant(r, p, handpicked)
          \/ \E p \in Policies : Revoke(r, p) \/ RevokeUnknown(r, p)
          \/ GrantStep(r) \/ RevokeStep(r) \/ Mine(r)

Spec == Init /\ [][Next]_vars

-----------------------------------------------------------------------------
(* Properties.                                                             *)

Ended(r) == request[r].at = "ended"

\* Revocations that have deleted the policy.
Deleted(p) == \E r \in Requests :
    request[r].target # None /\ request[r].policy = p /\ Ended(r) /\ request[r].raised = "none"
    /\ FewFailed(r)

\* Alice keeps hold of what she has paid for: once nothing is running, a policy
\* whose payment was mined is in active_policies or has been revoked, unless the
\* wait for the receipt had timed out.
PaidIsHeld ==
    (\A r \in Requests : request[r].at \in {"idle", "ended"}) =>
        \A r \in Requests : tx[r] = "ok" /\ request[r].raised # "TimeExhausted" =>
            active[request[r].policy] # None \/ Deleted(request[r].policy)

\* A policy in active_policies was paid for by its own grant, however nonces
\* collide, transactions replace each other or receipts come late.  (With TypeOK,
\* on which it rests.)
ActiveIsPaid ==
    /\ TypeOK
    /\ \A p \in Policies : active[p] # None => federated \/ tx[active[p]] = "ok"

\* Payment is sent, and a treasure map issued, only for exactly n Ursulas, be
\* they sampled, left over from a pool that timed out or built in.
ExactlyShares ==
    \A r \in Requests : (tx[r] # "none" \/ \E p \in Policies : active[p] = r) =>
        Cardinality(request[r].nodes) = Shares

\* A revocation that ends without its report (an Ursula answered 404, or could not
\* be reached after others had been told) or with too many failures can be made
\* again: whatever the requests do to each other, a policy leaves active_policies
\* only through a revocation that returned its report with few failures.
RevocationRepeatable ==
    \A r \in Requests : request[r].target # None /\ Ended(r) =>
        active[request[r].policy] # None \/ Deleted(request[r].policy)
=============================================================================
