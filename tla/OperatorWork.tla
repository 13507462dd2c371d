---------------------------- MODULE OperatorWork ----------------------------
(***************************************************************************)
(* The operator of an Ursula confirms its bonding on the chain: the work      *)
(* tracker fires the commitment transaction, tracks it and replaces it, and   *)
(* ends when the operator is confirmed; the operator bonded tracker polls the *)
(* bonding and restarts the whole Ursula when it finds a new one.  Both run   *)
(* in the reactor thread, so they never interleave with each other, but the   *)
(* chain moves between any two of their calls, and each call may fail.        *)
(*                                                                         *)
(* The application contract and the node's transaction pool are not part of  *)
(* the repository; they are modelled from how the trackers use them.         *)
(***************************************************************************)
EXTENDS Naturals, SequencesExt

CONSTANTS
    Patience,   \* blocks of max_confirmation_time
    MaxFaults,  \* bound: failed calls, lost answers, evictions, crashes
    MaxChanges  \* bound: bondings, unbondings, foreign transactions

ASSUME WorkAssumption ==
    Patience \in Nat \ {0} /\ MaxFaults \in Nat /\ MaxChanges \in Nat

VARIABLES
    bonded,     \* the operator has a staking provider
    confirmed,  \* the contract holds it to be confirmed
    pool,       \* unmined transactions of the operator's account, by nonce
    blocking,   \* --block-until-ready
    running,    \* the work tracker's task is running
    required,   \* __requirement is set
    failed,     \* _consecutive_fails > 0
    pending,    \* __pending without UNTRACKED_PENDING_TRANSACTION, oldest first
    untracked,  \* UNTRACKED_PENDING_TRANSACTION is in __pending
    polling,    \* the operator bonded tracker's task is running
    restarted,  \* its _restarted
    seen,       \* history: it has polled since the last unbonding
    quiet,      \* the learning loop was stopped at the console
    pc,         \* where the reactor thread is
    checked,    \* entries of __pending whose receipt was asked for in this round
    counted,    \* the count of pending transactions, relative to the mined ones
    outrun,     \* a transaction was mined since the nonce was read
    faults,     \* faults so far
    changes     \* changes of the chain so far

chain == <<bonded, confirmed, pool>>
tracker == <<running, required, failed, pending, untracked>>
watch == <<blocking, polling, restarted, seen, quiet>>
calls == <<checked, counted, outrun>>
vars == <<chain, tracker, watch, calls, pc, faults, changes>>

-----------------------------------------------------------------------------
\* Places where the reactor thread waits for the chain.
Calls == {"completed", "block", "receipts", "pending", "latest", "refire", "rebroadcast",
          "require", "bonded", "fire", "broadcast"}

\* A tracked commitment is in the pool, mined, or gone for good, and was fired
\* `age` blocks ago (at most Patience is told apart).
Commitment == [where : {"pool", "mined", "gone"}, age : 0..Patience]

Tracked(where) == {i \in DOMAIN pending : pending[i].where = where}

\* The types, and what ties __pending to the pool: at most one tracked
\* commitment is there, and a young one is the last.
TypeOK ==
    /\ bonded \in BOOLEAN /\ confirmed \in BOOLEAN /\ (confirmed => bonded)
    /\ pool \in Seq({"commit", "foreign"})
    /\ running \in BOOLEAN /\ required \in BOOLEAN /\ failed \in BOOLEAN
    /\ pending \in Seq(Commitment) /\ untracked \in BOOLEAN
    /\ \A i, j \in Tracked("pool") : i = j
    /\ Tracked("pool") # {} => "commit" \in Range(pool)
    /\ \A i \in DOMAIN pending : pending[i].age = 0 => i = Len(pending)
    /\ blocking \in BOOLEAN /\ polling \in BOOLEAN /\ restarted \in BOOLEAN
    /\ seen \in BOOLEAN /\ quiet \in BOOLEAN
    /\ pc \in Calls \cup {"boot", "restart", "idle", "replace"}
    /\ checked \in 0..Len(pending) /\ counted \in Nat /\ outrun \in BOOLEAN
    /\ faults \in 0..MaxFaults /\ changes \in 0..MaxChanges

\* A process is about to run; its account has no transaction in the pool.
Init ==
    /\ bonded \in BOOLEAN /\ confirmed = FALSE /\ pool = <<>>
    /\ blocking \in BOOLEAN
    /\ running = FALSE /\ required = FALSE /\ failed = FALSE
    /\ pending = <<>> /\ untracked = FALSE
    /\ polling = FALSE /\ restarted = FALSE /\ seen = TRUE /\ quiet = FALSE
    /\ pc = "boot" /\ checked = 0 /\ counted = 0 /\ outrun = FALSE
    /\ faults = 0 /\ changes = 0

Go(place) == pc' = place

-----------------------------------------------------------------------------
(* The chain.                                                              *)

Change == changes < MaxChanges /\ changes' = changes + 1
Fault == faults < MaxFaults /\ faults' = faults + 1

Bond ==
    /\ ~bonded /\ Change
    /\ bonded' = TRUE
    /\ UNCHANGED <<confirmed, pool, tracker, watch, calls, pc, faults>>

Unbond ==
    /\ bonded /\ Change
    /\ bonded' = FALSE /\ confirmed' = FALSE
    /\ seen' = FALSE
    /\ UNCHANGED <<pool, tracker, blocking, polling, restarted, quiet, calls, pc, faults>>

\* Another program of the operator uses its account.
ForeignTransaction ==
    /\ Change
    /\ pool' = Append(pool, "foreign")
    /\ UNCHANGED <<bonded, confirmed, tracker, watch, calls, pc, faults>>

Moved(to) == [i \in DOMAIN pending |->
    IF pending[i].where = "pool" THEN [pending[i] EXCEPT !.where = to] ELSE pending[i]]

\* A commitment confirms a bonded operator and is reverted otherwise.
Mine ==
    /\ pool # <<>>
    /\ pool' = Tail(pool)
    /\ confirmed' = (confirmed \/ (bonded /\ Head(pool) = "commit"))
    /\ pending' = IF Head(pool) = "commit" THEN Moved("mined") ELSE pending
    /\ counted' = (IF pc = "latest" /\ counted > 0 THEN counted - 1 ELSE counted)
    /\ outrun' = (outrun \/ pc \in {"broadcast", "rebroadcast"})
    /\ UNCHANGED <<bonded, running, required, failed, untracked, watch, checked, pc, faults, changes>>

\* The pool drops the transaction with the highest nonce.
Evict ==
    /\ pool # <<>> /\ Fault
    /\ pool' = Front(pool)
    /\ pending' = IF Last(pool) = "commit" THEN Moved("gone") ELSE pending
    /\ UNCHANGED <<bonded, confirmed, running, required, failed, untracked, watch, calls, pc, changes>>

-----------------------------------------------------------------------------
(* Ursula.run and Ursula.stop.                                              *)

\* Work is needed: a new work tracker starts with a round at once.  The console
\* has not stopped the learning loop of a new Ursula.
RunUrsula ==
    /\ pc \in {"boot", "restart"}
    /\ blocking => bonded
    /\ running' = ~confirmed
    /\ required' = ~confirmed
    /\ failed' = FALSE /\ pending' = <<>> /\ untracked' = FALSE
    /\ polling' = TRUE /\ restarted' = (pc = "restart") /\ quiet' = FALSE
    /\ Go(IF confirmed THEN "idle" ELSE "completed")
    /\ UNCHANGED <<chain, blocking, seen, calls, faults, changes>>

\* The command fails; the bonded tracker that ran it is stopped.
RestartFails ==
    /\ pc = "restart" /\ Fault
    /\ Go("idle")
    /\ UNCHANGED <<chain, tracker, watch, calls, changes>>

\* The process ends and is run again.
Crash ==
    /\ pc # "boot" /\ Fault
    /\ running' = FALSE /\ required' = FALSE /\ failed' = FALSE
    /\ pending' = <<>> /\ untracked' = FALSE
    /\ polling' = FALSE /\ restarted' = FALSE /\ quiet' = FALSE
    /\ checked' = 0 /\ counted' = 0 /\ outrun' = FALSE
    /\ Go("boot")
    /\ UNCHANGED <<chain, blocking, seen, changes>>

\* After "stop" at the console every Ursula.stop fails in the canceller.
StopLearning ==
    /\ pc = "idle" /\ polling /\ ~quiet
    /\ quiet' = TRUE
    /\ UNCHANGED <<chain, tracker, blocking, polling, restarted, seen, calls, pc, faults, changes>>

\* Seeded fault: _restarted is not reset when the bonding is gone.
PollForgetful ==
    /\ pc = "idle" /\ polling
    /\ \/ /\ ~bonded /\ ~seen
          /\ seen' = TRUE
          /\ UNCHANGED <<running, polling, pc>>
       \/ /\ bonded /\ ~restarted /\ ~quiet
          /\ running' = FALSE /\ polling' = FALSE
          /\ Go("restart")
          /\ UNCHANGED seen
    /\ UNCHANGED <<chain, required, failed, pending, untracked, blocking, restarted, quiet,
                   calls, faults, changes>>

\* OperatorBondedTracker.run.  A call that fails, and an Ursula.stop that does,
\* are swallowed.
Poll ==
    /\ pc = "idle" /\ polling
    /\ \/ /\ ~bonded /\ (restarted \/ ~seen)
          /\ restarted' = FALSE /\ seen' = TRUE
          /\ UNCHANGED <<running, polling, pc>>
       \/ /\ bonded /\ ~restarted /\ ~quiet
          /\ running' = FALSE /\ polling' = FALSE
          /\ Go("restart")
          /\ UNCHANGED <<restarted, seen>>
    /\ UNCHANGED <<chain, required, failed, pending, untracked, blocking, quiet,
                   calls, faults, changes>>

-----------------------------------------------------------------------------
(* A round of the work tracker, _do_work.                                   *)

\* The LoopingCall is due.
Tick ==
    /\ pc = "idle" /\ running
    /\ Go("completed")
    /\ UNCHANGED <<chain, tracker, watch, calls, faults, changes>>

\* Seeded fault: completed work does not stop the tracker.
NeverCompleted ==
    /\ pc = "completed"
    /\ Go("block")
    /\ UNCHANGED <<chain, tracker, watch, calls, faults, changes>>

\* Without a requirement there is always work to do.
AllWorkCompleted ==
    /\ pc = "completed"
    /\ IF required /\ confirmed
       THEN running' = FALSE /\ Go("idle")
       ELSE Go("block") /\ UNCHANGED running
    /\ UNCHANGED <<chain, required, failed, pending, untracked, watch, calls, faults, changes>>

\* The block number is read once for the round; it is `later` than the last one.
ReadBlock(later) ==
    /\ pc = "block"
    /\ pending' = [i \in DOMAIN pending |->
           IF later /\ pending[i].age < Patience
           THEN [pending[i] EXCEPT !.age = @ + 1] ELSE pending[i]]
    /\ Go("receipts")
    /\ UNCHANGED <<chain, running, required, failed, untracked, watch, calls, faults, changes>>

\* __track_pending_commitments asks for the receipt of one commitment after the
\* other, while the chain goes on, and forgets what has one ...
GetReceipts ==
    /\ pc = "receipts"
    /\ \/ /\ checked < Len(pending) /\ pending[checked + 1].where = "mined"
          /\ pending' = RemoveAt(pending, checked + 1)
          /\ UNCHANGED <<checked, pc>>
       \/ /\ checked < Len(pending) /\ pending[checked + 1].where # "mined"
          /\ checked' = checked + 1
          /\ UNCHANGED <<pending, pc>>
       \/ /\ checked = Len(pending)
          /\ checked' = 0
          /\ Go("pending")
          /\ UNCHANGED pending
    /\ UNCHANGED <<chain, running, required, failed, untracked, watch, counted, outrun, faults, changes>>

\* ... and counts the transactions in the pool with two calls.
CountPending ==
    /\ pc = "pending"
    /\ counted' = Len(pool)
    /\ Go("latest")
    /\ UNCHANGED <<chain, tracker, watch, checked, outrun, faults, changes>>

Known == Len(pending) + (IF untracked THEN 1 ELSE 0)

\* Seeded fault: the tracker compares the wrong way round.
CountLatestReversed ==
    /\ pc = "latest"
    /\ untracked' = (untracked \/ counted < Known)
    /\ Go(IF pending # <<>> \/ untracked' THEN "replace" ELSE "require")
    /\ counted' = 0
    /\ UNCHANGED <<chain, running, required, failed, pending, watch, checked, outrun, faults, changes>>

CountLatest ==
    /\ pc = "latest"
    /\ untracked' = (untracked \/ counted > Known)
    /\ Go(IF pending # <<>> \/ untracked' THEN "replace" ELSE "require")
    /\ counted' = 0
    /\ UNCHANGED <<chain, running, required, failed, pending, watch, checked, outrun, faults, changes>>

\* __handle_replacement_commitment waits for the oldest one.
HandleReplacement ==
    /\ pc = "replace"
    /\ Go(IF untracked \/ Head(pending).age = Patience THEN "refire" ELSE "idle")
    /\ UNCHANGED <<chain, tracker, watch, calls, faults, changes>>

\* _should_do_work_now
Require ==
    /\ pc = "require"
    /\ Go(IF required /\ confirmed THEN "idle" ELSE "bonded")
    /\ UNCHANGED <<chain, tracker, watch, calls, faults, changes>>

\* _final_work_prep_before_transaction
FinalWorkPrep ==
    /\ pc = "bonded"
    /\ Go(IF bonded THEN "fire" ELSE "idle")
    /\ UNCHANGED <<chain, tracker, watch, calls, faults, changes>>

\* handle_working_errors starts the task again, the first time with a round at
\* once; the requirement is not passed on.
HandleWorkingErrors ==
    /\ running' = TRUE /\ required' = FALSE /\ failed' = TRUE
    /\ Go(IF failed THEN "idle" ELSE "completed")

\* The nonce and the gas estimate, which fails on what the contract would revert.
\* Only the first attempt knows that the operator may be confirmed already.
Estimate ==
    /\ pc \in {"fire", "refire"}
    /\ IF bonded /\ ~confirmed
       THEN /\ Go(IF pc = "fire" THEN "broadcast" ELSE "rebroadcast")
            /\ UNCHANGED tracker
       ELSE IF pc = "fire" /\ confirmed
       THEN Go("idle") /\ UNCHANGED tracker
       ELSE HandleWorkingErrors /\ UNCHANGED <<pending, untracked>>
    /\ outrun' = FALSE
    /\ UNCHANGED <<chain, watch, checked, counted, faults, changes>>

\* The nonce is that of the first transaction in the pool, if there is one: the
\* pool may take the new one in its place.
Placed == <<"commit">> \o (IF pool = <<>> THEN <<>> ELSE Tail(pool))
Displaced == IF pool # <<>> /\ Head(pool) = "commit" THEN Moved("gone") ELSE pending

\* What was replaced is deleted from the dictionary, whose keys are the blocks.
Entry == [where |-> "pool", age |-> 0]
Replaced(entries) == IF pc = "rebroadcast" /\ ~untracked THEN Tail(entries) ELSE entries

Tracking(entries) ==
    LET kept == IF entries # <<>> /\ Last(entries).age = 0 THEN Front(entries) ELSE entries
    IN  Replaced(Append(kept, Entry))

\* Seeded fault: the nonce counts the transactions in the pool.
BroadcastPendingNonce ==
    /\ pc \in {"broadcast", "rebroadcast"} /\ ~outrun
    /\ pool' = Append(pool, "commit")
    /\ pending' = Tracking(pending)
    /\ untracked' = FALSE
    /\ Go("idle")
    /\ UNCHANGED <<bonded, confirmed, running, required, failed, watch, calls, faults, changes>>

Broadcast ==
    /\ pc \in {"broadcast", "rebroadcast"} /\ ~outrun
    /\ pool' = Placed
    /\ pending' = Tracking(Displaced)
    /\ untracked' = FALSE
    /\ Go("idle")
    /\ UNCHANGED <<bonded, confirmed, running, required, failed, watch, calls, faults, changes>>

\* The nonce is used up, or the price is too low to replace a transaction.
BroadcastRefused ==
    /\ pc \in {"broadcast", "rebroadcast"} /\ (outrun \/ pool # <<>>)
    /\ HandleWorkingErrors
    /\ outrun' = FALSE
    /\ UNCHANGED <<chain, pending, untracked, watch, checked, counted, faults, changes>>

\* The pool has it but the answer is lost.
BroadcastUnanswered ==
    /\ pc \in {"broadcast", "rebroadcast"} /\ ~outrun /\ Fault
    /\ pool' = Placed
    /\ pending' = Displaced
    /\ HandleWorkingErrors
    /\ UNCHANGED <<bonded, confirmed, untracked, watch, calls, changes>>

\* A call fails; what has been forgotten in this round stays forgotten.
CallFails ==
    /\ pc \in Calls /\ Fault
    /\ pc = "completed" => required
    /\ pc = "require" => required
    /\ pc = "receipts" => checked < Len(pending)
    /\ HandleWorkingErrors
    /\ checked' = 0 /\ counted' = 0 /\ outrun' = FALSE
    /\ UNCHANGED <<chain, pending, untracked, watch, changes>>

-----------------------------------------------------------------------------
DoWork ==
    \/ Tick \/ AllWorkCompleted \/ (\E later \in BOOLEAN : ReadBlock(later)) \/ GetReceipts
    \/ CountPending \/ CountLatest \/ HandleReplacement \/ Require \/ FinalWorkPrep
    \/ Estimate \/ Broadcast \/ BroadcastRefused \/ BroadcastUnanswered \/ CallFails

Next ==
    \/ Bond \/ Unbond \/ ForeignTransaction \/ Mine \/ Evict
    \/ RunUrsula \/ RestartFails \/ Crash \/ StopLearning \/ Poll
    \/ DoWork

Spec == Init /\ [][Next]_vars

\* The reactor calls what is due, blocks follow each other, and a transaction
\* that stays in the pool is mined.
Fairness ==
    /\ WF_vars(RunUrsula) /\ WF_vars(Mine)
    /\ WF_vars(DoWork) /\ SF_vars(ReadBlock(TRUE))
    /\ SF_vars(Poll)

FairSpec == Spec /\ Fairness

-----------------------------------------------------------------------------
(* Properties.                                                             *)

\* Whatever the trackers fire, replace, lose track of in a restart or a crash,
\* and fire again, the pool never holds two commitments of the operator, and so
\* it never pays twice.  (With TypeOK, on which it rests.)
OneCommitmentInPool ==
    /\ TypeOK
    /\ \A i, j \in DOMAIN pool : pool[i] = "commit" /\ pool[j] = "commit" => i = j

\* A commitment that is not a replacement is fired only when there is none in the
\* pool, not even one that a crash, a restart or a lost answer hid from the tracker,
\* or one that was mined between the two counts.
FreshOnlyIfNone ==
    pc \in {"require", "bonded", "fire", "broadcast"} => "commit" \notin Range(pool)

\* The work tracker has ended, and the bonded tracker does not start it again: no
\* poll fell between the last unbonding and the new bonding; the console has
\* stopped the learning loop; or a restart failed.
Overlooked == ~running /\ pc = "idle" /\ ((restarted /\ ~seen) \/ quiet \/ ~polling)

\* An operator that stays bonded is confirmed in the end, through failed calls,
\* lost, evicted and replaced transactions, crashes and restarts, unless a new
\* bonding goes unnoticed after the work tracker has ended.
ConfirmedInTheEnd == []<>(~bonded \/ confirmed \/ Overlooked)

\* The work tracker is a one-and-done: it ends once the operator is confirmed,
\* unless an error made it forget what it was started for.
TrackerEnds == []<>(~running \/ ~confirmed \/ ~required)
=============================================================================
