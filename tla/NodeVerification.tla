-------------------------- MODULE NodeVerification --------------------------
(***************************************************************************)
(* One node object of the fleet state, and the threads that use it: workers  *)
(* of a pool and the learning loop send requests to the node through the     *)
(* middleware, which matures and verifies it first; remember_node does the   *)
(* same in an eager round.  The object is a NodeSprout that turns itself     *)
(* into an Ursula in place, without a lock.                                  *)
(*                                                                         *)
(* An action is one access to the shared object, one answer of the chain or  *)
(* one answer of the node.  Chain and node may change at any time, so their  *)
(* answers are free choices.                                                *)
(***************************************************************************)
EXTENDS Naturals, FiniteSets

CONSTANTS
    Threads,    \* threads that send requests to the node
    Learning    \* those among them that do so in an eager remember_node

ASSUME ThreadsAssumption ==
    IsFiniteSet(Threads) /\ "sprout" \notin Threads /\ Learning \subseteq Threads

VARIABLES
    peer,       \* what the metadata of the node is worth, and the learner's mode
    class,      \* __class__ of the object
    dict,       \* __dict__ of the object: the sprout's, or of the Ursula a thread made
    finishing,  \* _is_finishing of the sprout
    mutex,      \* items in _finishing_mutex
    flags,      \* the verified_... attributes of the Ursula that are True
    at,         \* where each thread is
    past        \* history: what has happened to the object so far

nodeVars == <<peer, class, dict, finishing, mutex, flags, at, past>>

-----------------------------------------------------------------------------
\* `signed`: the signature of the metadata is good; `derivable`: so is the
\* operator's; `finishes`: the Ursula can be built from the metadata; `bonding`:
\* _verify_node_bonding of the learner.  Without a chain the last two of the
\* operator's questions do not arise.
Metadata ==
    {p \in [signed : BOOLEAN, derivable : BOOLEAN, finishes : BOOLEAN,
            federated : BOOLEAN, bonding : BOOLEAN] :
        p.federated => ~p.derivable /\ ~p.bonding}

Flags == {"metadata", "stamp", "operator", "node"}

Places == {"idle", "test", "claim", "class", "dict", "store", "wait",
           "verify", "metadata", "stamp", "bonded", "staking", "ask"}

\* "refused": a check of the bonding failed; "regrown": the sprout was matured a
\* second time; "broken": a maturation raised; "taken": a waiting thread got the
\* item of the queue.
Events == {"refused", "regrown", "broken", "taken"}

\* The types of the object's attributes; flags exist once it is an Ursula.
NodeTypeOK ==
    /\ peer \in Metadata
    /\ class \in {"sprout", "ursula"}
    /\ dict \in {"sprout"} \cup Threads
    /\ finishing \in BOOLEAN
    /\ mutex \in 0..Cardinality(Threads)
    /\ flags \in SUBSET Flags
    /\ at \in [Threads -> Places]
    /\ past \in SUBSET Events
    /\ dict # "sprout" => class = "ursula" /\ finishing
    /\ dict = "sprout" => flags = {}

NodeInit ==
    /\ peer \in Metadata
    /\ class = "sprout" /\ dict = "sprout" /\ finishing = FALSE /\ mutex = 0
    /\ flags = {}
    /\ at = [t \in Threads |-> "idle"]
    /\ past = {}

Go(t, place) == at' = [at EXCEPT ![t] = place]
Note(e) == past' = past \cup {e}

\* An exception, or the end of a call: the thread may call again.
Leave(t) == Go(t, "idle")

IsUrsula == dict # "sprout"

\* The registry that the caller hands to verify_node.
HasRegistry(t) == ~peer.federated /\ (t \in Learning => peer.bonding)

-----------------------------------------------------------------------------
(* NodeSprout.mature.                                                      *)

\* The method is looked up in the class: Teacher.mature does nothing.
CallMature(t) ==
    /\ at[t] = "idle"
    /\ Go(t, IF class = "sprout" THEN "test" ELSE "verify")
    /\ UNCHANGED <<peer, class, dict, finishing, mutex, flags, past>>

\* The attribute is gone when another thread has replaced the __dict__.
TestFinishing(t) ==
    /\ at[t] = "test"
    /\ IF IsUrsula THEN Leave(t) ELSE Go(t, IF finishing THEN "wait" ELSE "claim")
    /\ UNCHANGED <<peer, class, dict, finishing, mutex, flags, past>>

\* _is_finishing = True, the reference to the queue, finish().
Claim(t) ==
    /\ at[t] = "claim" /\ ~IsUrsula /\ peer.finishes
    /\ finishing' = TRUE
    /\ Go(t, "class")
    /\ UNCHANGED <<peer, class, dict, mutex, flags, past>>

FinishRaises(t) ==
    /\ at[t] = "claim" /\ (IsUrsula \/ ~peer.finishes)
    /\ finishing' = TRUE
    /\ Leave(t)
    /\ past' = IF IsUrsula THEN past ELSE past \cup {"broken"}
    /\ UNCHANGED <<peer, class, dict, mutex, flags>>

SwapClass(t) ==
    /\ at[t] = "class"
    /\ class' = "ursula"
    /\ Go(t, "dict")
    /\ UNCHANGED <<peer, dict, finishing, mutex, flags, past>>

\* The new Ursula is not verified.
SwapDict(t) ==
    /\ at[t] = "dict"
    /\ dict' = t
    /\ flags' = {}
    /\ past' = IF IsUrsula THEN past \cup {"regrown"} ELSE past
    /\ Go(t, "store")
    /\ UNCHANGED <<peer, class, finishing, mutex>>

\* Seeded fault: the item is forgotten.
PutForgotten(t) ==
    /\ at[t] = "store"
    /\ Go(t, "verify")
    /\ UNCHANGED <<peer, class, dict, finishing, mutex, flags, past>>

\* _cert_store_function has written the file; one item for those who wait.
StoreAndPut(t) ==
    /\ at[t] = "store"
    /\ mutex' = mutex + 1
    /\ Go(t, "verify")
    /\ UNCHANGED <<peer, class, dict, finishing, flags, past>>

StoreRaises(t) ==
    /\ at[t] = "store"
    /\ Leave(t)
    /\ Note("broken")
    /\ UNCHANGED <<peer, class, dict, finishing, mutex, flags>>

Get(t) ==
    /\ at[t] = "wait" /\ mutex > 0
    /\ mutex' = mutex - 1
    /\ Go(t, "verify")
    /\ Note("taken")
    /\ UNCHANGED <<peer, class, dict, finishing, flags>>

-----------------------------------------------------------------------------
(* Teacher.verify_node.                                                    *)

\* certificate and verified_node are missing between the two assignments of
\* mature.  In an eager round remember_node stores the certificate first, which
\* may fail.
CannotVerify(t) ==
    /\ at[t] = "verify" /\ (~IsUrsula \/ t \in Learning)
    /\ Leave(t)
    /\ UNCHANGED <<peer, class, dict, finishing, mutex, flags, past>>

\* Seeded fault: the flags are reset as if force were given.
VerifyForced(t) ==
    /\ at[t] = "verify" /\ IsUrsula
    /\ flags' = {}
    /\ Go(t, "metadata")
    /\ UNCHANGED <<peer, class, dict, finishing, mutex, past>>

Verify(t) ==
    /\ at[t] = "verify" /\ IsUrsula
    /\ IF "node" \in flags THEN Leave(t) ELSE Go(t, "metadata")
    /\ UNCHANGED <<peer, class, dict, finishing, mutex, flags, past>>

\* validate_metadata, its first test.
ValidateSignature(t) ==
    /\ at[t] = "metadata"
    /\ \/ /\ "metadata" \in flags
          /\ Go(t, "stamp")
          /\ UNCHANGED <<flags, past>>
       \/ /\ "metadata" \notin flags /\ peer.signed
          /\ flags' = flags \cup {"metadata"}
          /\ Go(t, "stamp")
          /\ UNCHANGED past
       \/ /\ "metadata" \notin flags /\ ~peer.signed
          /\ Leave(t)
          /\ UNCHANGED <<flags, past>>
    /\ UNCHANGED <<peer, class, dict, finishing, mutex>>

\* validate_metadata, its second test: nothing more to check for this call.
StampIsVerified(t) ==
    /\ at[t] = "stamp" /\ ("stamp" \in flags \/ peer.federated)
    /\ Go(t, "ask")
    /\ UNCHANGED <<peer, class, dict, finishing, mutex, flags, past>>

\* Seeded fault: the chain is not asked.
ValidateOffline(t) ==
    /\ at[t] = "stamp" /\ "stamp" \notin flags /\ ~peer.federated /\ peer.derivable
    /\ flags' = flags \cup {"stamp"}
    /\ Go(t, "ask")
    /\ UNCHANGED <<peer, class, dict, finishing, mutex, past>>

\* validate_operator sets verified_stamp before the chain is asked.
ValidateOperator(t) ==
    /\ at[t] = "stamp" /\ "stamp" \notin flags /\ ~peer.federated /\ peer.derivable
    /\ flags' = flags \cup {"stamp"}
    /\ Go(t, IF HasRegistry(t) THEN "bonded" ELSE "ask")
    /\ UNCHANGED <<peer, class, dict, finishing, mutex, past>>

InvalidOperatorSignature(t) ==
    /\ at[t] = "stamp" /\ "stamp" \notin flags /\ ~peer.federated /\ ~peer.derivable
    /\ Leave(t)
    /\ UNCHANGED <<peer, class, dict, finishing, mutex, flags, past>>

OperatorIsBonded(t) ==
    /\ at[t] = "bonded"
    /\ Go(t, "staking")
    /\ UNCHANGED <<peer, class, dict, finishing, mutex, flags, past>>

ProviderIsStaking(t) ==
    /\ at[t] = "staking"
    /\ flags' = flags \cup {"operator"}
    /\ Go(t, "ask")
    /\ UNCHANGED <<peer, class, dict, finishing, mutex, past>>

\* UnbondedOperator, NotStaking, or the call to the chain fails.
BondingRefused(t) ==
    /\ at[t] \in {"bonded", "staking"}
    /\ Leave(t)
    /\ Note("refused")
    /\ UNCHANGED <<peer, class, dict, finishing, mutex, flags>>

\* node_information returns the keys, address and evidence of the metadata.
SameNode(t) ==
    /\ at[t] = "ask"
    /\ flags' = flags \cup {"node"}
    /\ Leave(t)
    /\ UNCHANGED <<peer, class, dict, finishing, mutex, past>>

\* No certificate can be stored, no answer, another version, not a node, or
\* other keys.
OtherNode(t) ==
    /\ at[t] = "ask"
    /\ Leave(t)
    /\ UNCHANGED <<peer, class, dict, finishing, mutex, flags, past>>

-----------------------------------------------------------------------------
Mature(t) ==
    \/ TestFinishing(t) \/ Claim(t) \/ FinishRaises(t) \/ SwapClass(t) \/ SwapDict(t)
    \/ StoreAndPut(t) \/ StoreRaises(t) \/ Get(t)

VerifyNode(t) ==
    \/ CannotVerify(t) \/ Verify(t) \/ ValidateSignature(t) \/ StampIsVerified(t)
    \/ ValidateOperator(t) \/ InvalidOperatorSignature(t)
    \/ OperatorIsBonded(t) \/ ProviderIsStaking(t) \/ BondingRefused(t)
    \/ SameNode(t) \/ OtherNode(t)

NodeNext == \E t \in Threads :
    \/ CallMature(t)
    \/ Mature(t)
    \/ VerifyNode(t)

NodeSpec == NodeInit /\ [][NodeNext]_nodeVars

\* A thread that can go on does; nobody has to make a call.
NodeFairness == \A t \in Threads : WF_nodeVars(Mature(t) \/ VerifyNode(t))

NodeFairSpec == NodeSpec /\ NodeFairness

-----------------------------------------------------------------------------
(* Properties.                                                             *)

\* verified_node means that the checks were made, even if by different threads, on
\* either side of a replaced __dict__ (with NodeTypeOK, on which this rests): the
\* signature is good and, on a chain, the operator address derivable; and with a
\* learner that checks the bonding, that check passed too, except in three cases
\* that the code leaves open: it has failed before (its retry is skipped, because
\* verified_stamp is set first), another thread is still making it, or the sprout
\* was matured twice.
VerifiedMeansChecked ==
    /\ NodeTypeOK
    /\ "node" \in flags =>
          /\ peer.signed /\ (peer.federated \/ peer.derivable)
          /\ peer.bonding /\ "operator" \notin flags =>
                \/ past \cap {"refused", "regrown"} # {}
                \/ \E t \in Threads : at[t] \in {"bonded", "staking"}

\* What has been verified stays verified; only a second maturation, by a thread
\* that tested _is_finishing before the first one set it, takes it back.
VerificationKept == [][flags \subseteq flags' \/ (IsUrsula /\ dict' # dict)]_nodeVars

\* Every request to a node gets past mature() and verify_node(), or it waits for
\* a sprout whose maturation raised, or whose only item another waiter has taken.
CallsEnd ==
    \A t \in Threads :
        at[t] # "idle" ~> \/ at[t] = "idle"
                          \/ at[t] = "wait" /\ past \cap {"broken", "taken"} # {}
=============================================================================
