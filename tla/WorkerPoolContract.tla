------------------------- MODULE WorkerPoolContract -------------------------
(***************************************************************************)
(* What WorkerPool promises a caller of block_until_target_successes: the  *)
(* pool decides once, for all callers, between a dictionary with the       *)
(* target number of successes, TimedOut and OutOfValues.  A call waits for *)
(* the decision and reports it, or reports an error of the producer thread *)
(* without waiting; every call ends.                                       *)
(***************************************************************************)
EXTENDS Integers, FiniteSets

CONSTANTS Values, Clients, Target

VARIABLES
    decision,   \* "unset" until the pool decides
    won,        \* the successes of the decision
    waiting,    \* clients inside block_until_target_successes
    report      \* how the last call of each client ended

cvars == <<decision, won, waiting, report>>

CInit ==
    /\ decision = "unset" /\ won = {}
    /\ waiting = {}
    /\ report = [c \in Clients |-> "none"]

Decide ==
    /\ decision = "unset"
    /\ \/ /\ decision' = "successes"
          /\ won' \in SUBSET Values /\ Cardinality(won') = Target
       \/ decision' \in {"TimedOut", "OutOfValues"} /\ won' = {}
    /\ UNCHANGED <<waiting, report>>

Call(c) ==
    /\ c \notin waiting
    /\ waiting' = waiting \cup {c}
    /\ UNCHANGED <<decision, won, report>>

Return(c) ==
    /\ c \in waiting
    /\ decision # "unset"
    /\ waiting' = waiting \ {c}
    /\ report' = [report EXCEPT ![c] = decision]
    /\ UNCHANGED <<decision, won>>

Raise(c) ==
    /\ c \notin waiting
    /\ report' = [report EXCEPT ![c] = "error"]
    /\ UNCHANGED <<decision, won, waiting>>

CNext == Decide \/ \E c \in Clients : Call(c) \/ Return(c) \/ Raise(c)

CSafe == CInit /\ [][CNext]_cvars

\* A decision is made once somebody waits for it, and reported.
CSpec ==
    /\ CSafe
    /\ \A c \in Clients : WF_cvars(Return(c))
    /\ \A c \in Clients : (c \in waiting) ~> (decision # "unset")
=============================================================================
