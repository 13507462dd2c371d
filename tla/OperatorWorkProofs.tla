------------------------- MODULE OperatorWorkProofs -------------------------
(***************************************************************************)
(* OperatorWork for any patience, any number of faults and any number of      *)
(* changes of the chain: one commitment at most is in the transaction pool,   *)
(* a fresh one is fired only when there is none, and a replacement has        *)
(* something to replace.                                                    *)
(***************************************************************************)
EXTENDS OperatorWork, SequenceTheorems, TLAPS

-----------------------------------------------------------------------------
(* The inductive invariant.                                                *)

\* A commitment is the first transaction in the pool: it is sent with the nonce of
\* the first one, and what comes later queues up behind it.
CommitIsFirst == \A i \in DOMAIN pool : pool[i] = "commit" => i = 1

\* Between the two calls that count the transactions, a commitment in the pool has
\* been counted, and nothing was mined before it.
CommitIsCounted == pc = "latest" /\ "commit" \in Range(pool) => counted > 0

\* The receipts are asked for in one place.
CheckedInLoop == pc # "receipts" => checked = 0

\* What is to be replaced is in __pending.
SomethingToReplace ==
    pc \in {"replace", "refire", "rebroadcast"} => untracked \/ pending # <<>>

IInv ==
    /\ TypeOK /\ CommitIsFirst /\ CommitIsCounted /\ CheckedInLoop /\ SomethingToReplace
    /\ FreshOnlyIfNone
-----------------------------------------------------------------------------
(* Facts about the two sequences.                                          *)

\* A tracker's entries: one at most is in the pool, and only if the pool has a
\* commitment; a young one is the last.
Tidy(entries, inPool) ==
    /\ entries \in Seq(Commitment)
    /\ \A i, j \in 1..Len(entries) :
          entries[i].where = "pool" /\ entries[j].where = "pool" => i = j
    /\ (\E i \in 1..Len(entries) : entries[i].where = "pool") => inPool
    /\ \A i \in 1..Len(entries) : entries[i].age = 0 => i = Len(entries)

\* The types of everything but pool and pending.
FlagTypeOK ==
    /\ bonded \in BOOLEAN /\ confirmed \in BOOLEAN /\ (confirmed => bonded)
    /\ running \in BOOLEAN /\ required \in BOOLEAN /\ failed \in BOOLEAN /\ untracked \in BOOLEAN
    /\ blocking \in BOOLEAN /\ polling \in BOOLEAN /\ restarted \in BOOLEAN
    /\ seen \in BOOLEAN /\ quiet \in BOOLEAN /\ outrun \in BOOLEAN

CountTypeOK ==
    /\ pc \in Calls \cup {"boot", "restart", "idle", "replace"}
    /\ counted \in Nat
    /\ faults \in 0..MaxFaults /\ changes \in 0..MaxChanges

RestTypeOK == FlagTypeOK /\ CountTypeOK

\* A commitment is waiting to be mined.
InPool == pool # <<>> /\ pool[1] = "commit"

\* The invariant in these terms.
Shape ==
    /\ RestTypeOK
    /\ pool \in Seq({"commit", "foreign"}) /\ CommitIsFirst
    /\ Tidy(pending, InPool) /\ checked \in 0..Len(pending)
    /\ CheckedInLoop /\ SomethingToReplace
    /\ pc = "latest" /\ InPool => counted > 0
    /\ pc \in {"require", "bonded", "fire", "broadcast"} => ~InPool

\* If the pool has a commitment, it is the first transaction.
LEMMA CommitAtHead ==
    ASSUME pool \in Seq({"commit", "foreign"}), CommitIsFirst
    PROVE  "commit" \in Range(pool) <=> InPool
BY DEF Range, CommitIsFirst, InPool

LEMMA ShapeIsInv == IInv <=> Shape
<1>1. ASSUME pool \in Seq({"commit", "foreign"}), CommitIsFirst, pending \in Seq(Commitment)
      PROVE  /\ (\A i, j \in Tracked("pool") : i = j) /\ (Tracked("pool") # {} => "commit" \in Range(pool))
                  /\ (\A i \in DOMAIN pending : pending[i].age = 0 => i = Len(pending))
             <=> Tidy(pending, InPool)
  <2>1. DOMAIN pending = 1..Len(pending) BY <1>1
  <2>2. "commit" \in Range(pool) <=> InPool BY <1>1, CommitAtHead
  <2> QED BY <1>1, <2>1, <2>2 DEF Tidy, Tracked
<1>2. ASSUME IInv PROVE Shape
  BY <1>1, <1>2, CommitAtHead DEF IInv, TypeOK, RestTypeOK, FlagTypeOK, CountTypeOK, Shape, CommitIsCounted, FreshOnlyIfNone
<1>3. ASSUME Shape PROVE IInv
  <2>1. pending \in Seq(Commitment) BY <1>3 DEF Shape, Tidy
  <2> QED BY <1>1, <1>3, <2>1, CommitAtHead
          DEF IInv, TypeOK, RestTypeOK, FlagTypeOK, CountTypeOK, Shape, CommitIsCounted, FreshOnlyIfNone
<1> QED BY <1>2, <1>3

\* Entries that leave the pool stay where they are in the dictionary.
LEMMA MovedMeans ==
    ASSUME pending \in Seq(Commitment), NEW to \in {"mined", "gone"}
    PROVE  /\ Moved(to) \in Seq(Commitment) /\ Len(Moved(to)) = Len(pending)
           /\ \A i \in 1..Len(pending) :
                 Moved(to)[i].where # "pool" /\ Moved(to)[i].age = pending[i].age
           /\ pending # <<>> => Moved(to) # <<>>
<1>1. DOMAIN pending = 1..Len(pending) /\ Len(pending) \in Nat OBVIOUS
<1>2. \A i \in 1..Len(pending) : /\ Moved(to)[i] \in Commitment /\ Moved(to)[i].where # "pool"
                                 /\ Moved(to)[i].age = pending[i].age
  <2> SUFFICES ASSUME NEW i \in 1..Len(pending)
               PROVE  /\ Moved(to)[i] \in Commitment /\ Moved(to)[i].where # "pool"
                      /\ Moved(to)[i].age = pending[i].age
    OBVIOUS
  <2>1. pending[i] \in Commitment BY <1>1
  <2>2. Moved(to)[i] = IF pending[i].where = "pool" THEN [pending[i] EXCEPT !.where = to] ELSE pending[i]
    BY <1>1 DEF Moved
  <2>3. CASE pending[i].where = "pool" BY <2>1, <2>2, <2>3 DEF Commitment
  <2>4. CASE pending[i].where # "pool" BY <2>1, <2>2, <2>4 DEF Commitment
  <2> QED BY <2>3, <2>4
<1>3. Moved(to) \in Seq(Commitment) /\ Len(Moved(to)) = Len(pending)
  BY <1>1, <1>2 DEF Moved
<1> QED BY <1>2, <1>3

LEMMA MovedIsTidy ==
    ASSUME NEW c \in BOOLEAN, Tidy(pending, c), NEW to \in {"mined", "gone"}
    PROVE  \A d \in BOOLEAN : Tidy(Moved(to), d)
BY MovedMeans DEF Tidy

\* One entry is deleted.
LEMMA RemovedIsTidy ==
    ASSUME NEW s, NEW c \in BOOLEAN, Tidy(s, c), NEW k \in 1..Len(s)
    PROVE  Tidy(RemoveAt(s, k), c) /\ Len(RemoveAt(s, k)) = Len(s) - 1
<1>1. s \in Seq(Commitment) /\ Len(s) \in Nat BY DEF Tidy
<1> DEFINE r == RemoveAt(s, k)
<1>2. /\ r \in Seq(Commitment) /\ Len(r) = Len(s) - 1
      /\ \A i \in 1..Len(r) : r[i] = IF i < k THEN s[i] ELSE s[i + 1]
  <2> DEFINE a == SubSeq(s, 1, k - 1)
             b == SubSeq(s, k + 1, Len(s))
  <2>1. a \in Seq(Commitment) /\ Len(a) = k - 1 /\ \A i \in 1..(k - 1) : a[i] = s[i] BY <1>1
  <2>2. /\ b \in Seq(Commitment) /\ Len(b) = Len(s) - k
        /\ \A i \in 1..(Len(s) - k) : b[i] = s[k + i]
    BY <1>1
  <2>3. r = a \o b BY DEF RemoveAt
  <2> HIDE DEF a, b, r
  <2>4. /\ r \in Seq(Commitment) /\ Len(r) = Len(a) + Len(b)
        /\ \A i \in 1..Len(r) : r[i] = IF i <= Len(a) THEN a[i] ELSE b[i - Len(a)]
    <3>1. /\ a \o b \in Seq(Commitment) /\ Len(a \o b) = Len(a) + Len(b)
          /\ \A i \in 1..(Len(a) + Len(b)) : (a \o b)[i] = IF i <= Len(a) THEN a[i] ELSE b[i - Len(a)]
      BY <2>1, <2>2, ConcatProperties, Zenon
    <3> QED BY <2>3, <3>1, Zenon
  <2>5. Len(r) = Len(s) - 1 BY <1>1, <2>1, <2>2, <2>4
  <2>6. ASSUME NEW i \in 1..Len(r) PROVE r[i] = IF i < k THEN s[i] ELSE s[i + 1]
    <3>1. CASE i < k BY <1>1, <2>1, <2>4, <3>1
    <3>2. CASE ~(i < k)
      <4>1. i - Len(a) \in 1..(Len(s) - k) BY <1>1, <2>1, <2>5, <3>2
      <4>2. r[i] = b[i - Len(a)] BY <1>1, <2>1, <2>4, <3>2
      <4>3. b[i - Len(a)] = s[k + (i - Len(a))] BY <2>2, <4>1
      <4>4. k + (i - Len(a)) = i + 1 BY <1>1, <2>1
      <4> QED BY <3>2, <4>2, <4>3, <4>4
    <3> QED BY <3>1, <3>2
  <2> QED BY <2>4, <2>5, <2>6
<1> HIDE DEF r
<1>3. \A i \in 1..Len(r) : \E j \in 1..Len(s) :
         r[i] = s[j] /\ j = (IF i < k THEN i ELSE i + 1)
  BY <1>1, <1>2
<1>4. Tidy(r, c) BY <1>1, <1>2, <1>3 DEF Tidy
<1> QED BY <1>2, <1>4 DEF r
-----------------------------------------------------------------------------
(* The invariant is inductive.                                             *)

\* Where a fresh commitment is being fired.
Firing == {"require", "bonded", "fire", "broadcast"}

\* A process that starts has fired nothing.
LEMMA InitShape == Init => Shape
<1> SUFFICES ASSUME Init PROVE Shape OBVIOUS
<1>1. RestTypeOK
  <2>1. FlagTypeOK BY DEF Init, FlagTypeOK
  <2>2. CountTypeOK BY WorkAssumption DEF Init, CountTypeOK
  <2> QED BY <2>1, <2>2 DEF RestTypeOK
<1>2. Tidy(pending, InPool) /\ checked \in 0..Len(pending) BY DEF Init, Tidy
<1>3. pool \in Seq({"commit", "foreign"}) /\ CommitIsFirst BY DEF Init, CommitIsFirst
<1> QED BY <1>1, <1>2, <1>3 DEF Init, Shape, InPool, CheckedInLoop, SomethingToReplace

\* A step that leaves pool and dictionary alone.
LEMMA SameSequences ==
    ASSUME Shape, pool' = pool, pending' = pending, RestTypeOK',
           checked' \in 0..Len(pending), CheckedInLoop', SomethingToReplace',
           pc' = "latest" /\ InPool => counted' > 0,
           pc' \in Firing => ~InPool
    PROVE  Shape'
<1>1. InPool' <=> InPool BY DEF InPool
<1>2. Tidy(pending, InPool)' BY <1>1 DEF Shape, Tidy
<1> QED BY <1>1, <1>2 DEF Shape, CommitIsFirst, Firing

\* The staking provider bonds and unbonds the operator.
LEMMA BondingKeeps == Shape /\ (Bond \/ Unbond) => Shape'
<1> SUFFICES ASSUME Shape, Bond \/ Unbond PROVE Shape' OBVIOUS
<1> USE WorkAssumption DEF Bond, Unbond, Change, tracker, watch, calls
<1>1. RestTypeOK'
  <2>1. FlagTypeOK' BY DEF Shape, RestTypeOK, FlagTypeOK
  <2>2. CountTypeOK' BY DEF Shape, RestTypeOK, CountTypeOK
  <2> QED BY <2>1, <2>2 DEF RestTypeOK
<1>2. UNCHANGED <<pool, pending, checked, counted, pc, untracked>> OBVIOUS
<1> QED BY <1>1, <1>2, SameSequences DEF Shape, CheckedInLoop, SomethingToReplace, Firing

\* The trackers outside a round: a restart that fails, the console, the poll and
\* the timer.
LEMMA WatchKeeps == Shape /\ (RestartFails \/ StopLearning \/ Poll \/ Tick) => Shape'
<1> SUFFICES ASSUME Shape, RestartFails \/ StopLearning \/ Poll \/ Tick PROVE Shape' OBVIOUS
<1> USE WorkAssumption DEF RestartFails, StopLearning, Poll, Tick, Fault, Go, chain, tracker, watch, calls
<1>1. RestTypeOK'
  <2>1. FlagTypeOK'
    <3>1. CASE Poll BY <3>1 DEF Shape, RestTypeOK, FlagTypeOK
    <3>2. CASE StopLearning BY <3>2 DEF Shape, RestTypeOK, FlagTypeOK
    <3>3. CASE RestartFails BY <3>3 DEF Shape, RestTypeOK, FlagTypeOK
    <3>4. CASE Tick BY <3>4 DEF Shape, RestTypeOK, FlagTypeOK
    <3> QED BY <3>1, <3>2, <3>3, <3>4
  <2>2. CountTypeOK' BY DEF Shape, RestTypeOK, CountTypeOK, Calls
  <2> QED BY <2>1, <2>2 DEF RestTypeOK
<1>2. /\ UNCHANGED <<pool, pending, checked, counted, untracked>>
      /\ pc \in {"restart", "idle"} /\ pc' \in {"idle", "restart", "completed"}
  OBVIOUS
<1> QED BY <1>1, <1>2, SameSequences DEF Shape, CheckedInLoop, SomethingToReplace, Firing

\* The tests of a round.  A new commitment is fired only after a count of zero, which
\* CommitIsCounted turns into an empty pool.
LEMMA TestsKeep ==
    Shape /\ (AllWorkCompleted \/ CountPending \/ CountLatest \/ HandleReplacement
                \/ Require \/ FinalWorkPrep) => Shape'
<1> SUFFICES ASSUME Shape, AllWorkCompleted \/ CountPending \/ CountLatest \/ HandleReplacement
                             \/ Require \/ FinalWorkPrep
             PROVE Shape'
  OBVIOUS
<1> USE DEF Go, chain, tracker, watch, calls
<1>0. Len(pending) \in Nat /\ Len(pool) \in Nat /\ (pending = <<>> <=> Len(pending) = 0)
      /\ (InPool => Len(pool) > 0)
  BY DEF Shape, Tidy, InPool
<1>1. CASE AllWorkCompleted
  <2>1. RestTypeOK' BY <1>1 DEF AllWorkCompleted, Shape, RestTypeOK, FlagTypeOK, CountTypeOK, Calls
  <2>2. /\ UNCHANGED <<pool, pending, checked, counted, untracked>>
        /\ pc = "completed" /\ pc' \in {"idle", "block"}
    BY <1>1 DEF AllWorkCompleted
  <2> QED BY <2>1, <2>2, SameSequences DEF Shape, CheckedInLoop, SomethingToReplace, Firing
<1>2. CASE CountPending
  <2>1. RestTypeOK' BY <1>0, <1>2 DEF CountPending, Shape, RestTypeOK, FlagTypeOK, CountTypeOK, Calls
  <2>2. /\ UNCHANGED <<pool, pending, checked, untracked>>
        /\ pc = "pending" /\ pc' = "latest" /\ counted' = Len(pool)
    BY <1>2 DEF CountPending
  <2> QED BY <1>0, <2>1, <2>2, SameSequences DEF Shape, CheckedInLoop, SomethingToReplace, Firing
<1>3. CASE CountLatest
  <2>1. RestTypeOK' BY <1>3 DEF CountLatest, Shape, RestTypeOK, FlagTypeOK, CountTypeOK, Calls
  <2>2. /\ UNCHANGED <<pool, pending, checked>>
        /\ pc = "latest" /\ untracked' = (untracked \/ counted > Known)
        /\ pc' = IF pending # <<>> \/ untracked' THEN "replace" ELSE "require"
    BY <1>3 DEF CountLatest
  <2>3. pc' = "require" => ~InPool
    <3>1. ASSUME pc' = "require" PROVE pending = <<>> /\ ~untracked /\ ~(counted > Known)
      BY <2>2, <3>1
    <3>2. counted \in Nat BY DEF Shape, RestTypeOK, CountTypeOK
    <3> QED BY <1>0, <2>2, <3>1, <3>2 DEF Known, Shape
  <2>4. SomethingToReplace' BY <2>2 DEF SomethingToReplace
  <2>5. CheckedInLoop' BY <2>2 DEF Shape, CheckedInLoop
  <2> QED BY <2>1, <2>2, <2>3, <2>4, <2>5, SameSequences DEF Shape, Firing
<1>4. CASE HandleReplacement
  <2>1. RestTypeOK' BY <1>4 DEF HandleReplacement, Shape, RestTypeOK, FlagTypeOK, CountTypeOK, Calls
  <2>2. /\ UNCHANGED <<pool, pending, checked, counted, untracked>>
        /\ pc = "replace" /\ pc' \in {"idle", "refire"}
    BY <1>4 DEF HandleReplacement
  <2> QED BY <2>1, <2>2, SameSequences DEF Shape, CheckedInLoop, SomethingToReplace, Firing
<1>5. CASE Require \/ FinalWorkPrep
  <2>1. RestTypeOK' BY <1>5 DEF Require, FinalWorkPrep, Shape, RestTypeOK, FlagTypeOK, CountTypeOK, Calls
  <2>2. /\ UNCHANGED <<pool, pending, checked, counted, untracked>>
        /\ pc \in Firing /\ pc' \in {"idle", "bonded", "fire"}
    BY <1>5 DEF Require, FinalWorkPrep, Firing
  <2> QED BY <2>1, <2>2, SameSequences DEF Shape, CheckedInLoop, SomethingToReplace, Firing
<1> QED BY <1>1, <1>2, <1>3, <1>4, <1>5

\* What an error in a round leaves: pool and dictionary are as they were.
LEMMA ErrorKeeps == Shape /\ (Estimate \/ BroadcastRefused \/ CallFails) => Shape'
<1> SUFFICES ASSUME Shape, Estimate \/ BroadcastRefused \/ CallFails PROVE Shape' OBVIOUS
<1> USE WorkAssumption
        DEF Estimate, BroadcastRefused, CallFails, HandleWorkingErrors, Fault, Go, chain, tracker, watch, calls
<1>0. Len(pending) \in Nat BY DEF Shape, Tidy
<1>1. CASE Estimate
  <2>1. FlagTypeOK' BY <1>1 DEF Shape, RestTypeOK, FlagTypeOK
  <2>2. CountTypeOK' BY <1>1 DEF Shape, RestTypeOK, CountTypeOK, Calls
  <2>3. /\ UNCHANGED <<pool, pending, checked, counted, untracked>>
        /\ \/ pc = "fire" /\ pc' = "broadcast"
           \/ pc = "refire" /\ pc' = "rebroadcast"
           \/ pc \in {"fire", "refire"} /\ pc' \in {"idle", "completed"}
    BY <1>1
  <2>4. pc' \in Firing => ~InPool BY <2>3 DEF Shape, Firing
  <2>5. CheckedInLoop' /\ SomethingToReplace'
    BY <2>3 DEF Shape, CheckedInLoop, SomethingToReplace
  <2> QED BY <2>1, <2>2, <2>3, <2>4, <2>5, SameSequences DEF Shape, RestTypeOK
<1>2. CASE BroadcastRefused
  <2>1. FlagTypeOK' BY <1>2 DEF Shape, RestTypeOK, FlagTypeOK
  <2>2. CountTypeOK' BY <1>2 DEF Shape, RestTypeOK, CountTypeOK, Calls
  <2>3. /\ UNCHANGED <<pool, pending, checked, counted, untracked>>
        /\ pc # "receipts" /\ pc' \in {"idle", "completed"}
    BY <1>2
  <2> QED BY <2>1, <2>2, <2>3, SameSequences
          DEF Shape, RestTypeOK, CheckedInLoop, SomethingToReplace, Firing
<1>3. CASE CallFails
  <2>1. FlagTypeOK' BY <1>3 DEF Shape, RestTypeOK, FlagTypeOK
  <2>2. CountTypeOK' BY <1>3 DEF Shape, RestTypeOK, CountTypeOK, Calls
  <2>3. /\ UNCHANGED <<pool, pending, untracked>> /\ checked' = 0
        /\ pc' \in {"idle", "completed"}
    BY <1>3
  <2> QED BY <1>0, <2>1, <2>2, <2>3, SameSequences
          DEF Shape, RestTypeOK, CheckedInLoop, SomethingToReplace, Firing
<1> QED BY <1>1, <1>2, <1>3

\* A new tracker, and a process that has ended, know nothing of what is in the pool.
LEMMA StartKeeps == Shape /\ (RunUrsula \/ Crash) => Shape'
<1> SUFFICES ASSUME Shape, RunUrsula \/ Crash PROVE Shape' OBVIOUS
<1> USE WorkAssumption DEF RunUrsula, Crash, Fault, Go, chain, calls
<1>1. FlagTypeOK'
  <2>1. CASE RunUrsula BY <2>1 DEF Shape, RestTypeOK, FlagTypeOK
  <2>2. CASE Crash BY <2>2 DEF Shape, RestTypeOK, FlagTypeOK
  <2> QED BY <2>1, <2>2
<1>2. CountTypeOK' BY DEF Shape, RestTypeOK, CountTypeOK, Calls
<1>3. /\ pool' = pool /\ pending' = <<>> /\ pc' \in {"boot", "idle", "completed"}
      /\ checked' = 0
  BY DEF Shape, CheckedInLoop
<1>4. Tidy(pending, InPool)' /\ checked' \in 0..Len(pending') BY <1>3 DEF Tidy
<1>5. CommitIsFirst' BY <1>3 DEF Shape, CommitIsFirst
<1> QED BY <1>1, <1>2, <1>3, <1>4, <1>5
        DEF Shape, RestTypeOK, CheckedInLoop, SomethingToReplace

\* A foreign transaction queues up last.
LEMMA ForeignKeeps == Shape /\ ForeignTransaction => Shape'
<1> SUFFICES ASSUME Shape, ForeignTransaction PROVE Shape' OBVIOUS
<1> USE WorkAssumption DEF ForeignTransaction, Change, tracker, watch, calls
<1>1. FlagTypeOK' BY DEF Shape, RestTypeOK, FlagTypeOK
<1>2. CountTypeOK' BY DEF Shape, RestTypeOK, CountTypeOK
<1>3. /\ pool' \in Seq({"commit", "foreign"}) /\ Len(pool') = Len(pool) + 1
      /\ \A i \in 1..Len(pool) : pool'[i] = pool[i]
      /\ pool'[Len(pool) + 1] = "foreign"
      /\ Len(pool) \in Nat
  BY AppendProperties DEF Shape
<1>4. InPool' <=> InPool
  <2>1. CASE pool = <<>> BY <1>3, <2>1 DEF InPool
  <2>2. CASE pool # <<>> BY <1>3, <2>2 DEF InPool, Shape
  <2> QED BY <2>1, <2>2
<1>5. CommitIsFirst'
  <2> SUFFICES ASSUME NEW i \in 1..(Len(pool) + 1), pool'[i] = "commit" PROVE i = 1
    BY <1>3 DEF CommitIsFirst
  <2>1. i # Len(pool) + 1 BY <1>3
  <2>2. i \in 1..Len(pool) BY <1>3, <2>1
  <2> QED BY <1>3, <2>2 DEF Shape, CommitIsFirst
<1>6. UNCHANGED <<pending, checked, counted, untracked, pc>> OBVIOUS
<1>7. Tidy(pending, InPool)' BY <1>4, <1>6 DEF Shape, Tidy
<1> QED BY <1>1, <1>2, <1>3, <1>4, <1>5, <1>6, <1>7
        DEF Shape, RestTypeOK, CheckedInLoop, SomethingToReplace

\* All of a sequence but its last element.
LEMMA FrontMeans ==
    ASSUME NEW S, NEW s \in Seq(S), s # <<>>
    PROVE  /\ Front(s) \in Seq(S) /\ Len(Front(s)) = Len(s) - 1 /\ Len(s) \in Nat \ {0}
           /\ \A i \in 1..(Len(s) - 1) : Front(s)[i] = s[i]
           /\ Last(s) = s[Len(s)]
<1>1. Len(s) \in Nat \ {0} /\ \A i \in 1..(Len(s) - 1) : s[i] \in S BY EmptySeq, ElementOfSeq
<1>2. /\ SubSeq(s, 1, Len(s) - 1) \in Seq(S) /\ Len(SubSeq(s, 1, Len(s) - 1)) = Len(s) - 1
      /\ \A i \in 1..(Len(s) - 1) : SubSeq(s, 1, Len(s) - 1)[i] = s[i]
  <2> DEFINE n == Len(s) - 1
  <2>1. 1 \in Int /\ n \in Nat /\ n \in Int BY <1>1
  <2>2. \A i \in 1..n : s[i] \in S BY <1>1
  <2> HIDE DEF n
  <2>3. /\ SubSeq(s, 1, n) \in Seq(S) /\ Len(SubSeq(s, 1, n)) = IF 1 <= n THEN n - 1 + 1 ELSE 0
        /\ \A i \in 1..(n - 1 + 1) : SubSeq(s, 1, n)[i] = s[1 + i - 1]
    BY <2>1, <2>2, SubSeqProperties
  <2>4. Len(SubSeq(s, 1, n)) = n /\ \A i \in 1..n : SubSeq(s, 1, n)[i] = s[i] BY <2>1, <2>3
  <2> QED BY <2>3, <2>4 DEF n
<1> QED BY <1>1, <1>2 DEF Front, Last

\* Entries are tidy for a pool without a commitment only if none of them is there.
LEMMA TidyAnyway ==
    ASSUME NEW s, Tidy(s, FALSE)
    PROVE  \A c \in BOOLEAN : Tidy(s, c)
BY DEF Tidy

\* The first transaction is mined: the commitment, if there is one.
LEMMA MineKeeps == Shape /\ Mine => Shape'
<1> SUFFICES ASSUME Shape, Mine PROVE Shape' OBVIOUS
<1> USE DEF Mine, watch
<1>1. FlagTypeOK' BY DEF Shape, RestTypeOK, FlagTypeOK
<1>2. CountTypeOK' BY DEF Shape, RestTypeOK, CountTypeOK
<1>3. /\ pool' \in Seq({"commit", "foreign"}) /\ Len(pool') = Len(pool) - 1 /\ Len(pool) \in Nat \ {0}
      /\ \A i \in 1..Len(pool') : pool'[i] = pool[i + 1]
      /\ Head(pool) = pool[1]
  BY HeadTailProperties, EmptySeq DEF Shape
<1>4. \A i \in 1..Len(pool') : pool'[i] # "commit"
  <2> SUFFICES ASSUME NEW i \in 1..Len(pool') PROVE pool[i + 1] # "commit" BY <1>3
  <2>1. i + 1 \in 1..Len(pool) /\ i + 1 # 1 BY <1>3
  <2> QED BY <2>1 DEF Shape, CommitIsFirst
<1>5. InPool' = FALSE /\ CommitIsFirst'
  <2>1. DOMAIN pool' = 1..Len(pool') /\ (pool' # <<>> => 1 \in 1..Len(pool')) BY <1>3, EmptySeq
  <2> QED BY <1>4, <2>1 DEF InPool, CommitIsFirst
<1>6. Tidy(pending', FALSE) /\ Len(pending') = Len(pending) /\ (pending # <<>> => pending' # <<>>)
  <2>1. CASE Head(pool) = "commit"
    <3>1. pending' = Moved("mined") BY <2>1
    <3>2. InPool = TRUE BY <1>3, <2>1 DEF InPool
    <3>3. Tidy(pending, TRUE) /\ pending \in Seq(Commitment) BY <3>2 DEF Shape, Tidy
    <3> QED BY <3>1, <3>3, MovedMeans, MovedIsTidy
  <2>2. CASE Head(pool) # "commit"
    <3>1. pending' = pending /\ InPool = FALSE BY <1>3, <2>2 DEF InPool
    <3> QED BY <3>1 DEF Shape
  <2> QED BY <2>1, <2>2
<1>7. Tidy(pending, InPool)' BY <1>5, <1>6
<1>8. UNCHANGED <<checked, untracked, pc>> OBVIOUS
<1> QED BY <1>1, <1>2, <1>3, <1>5, <1>6, <1>7, <1>8
        DEF Shape, RestTypeOK, CheckedInLoop, SomethingToReplace

\* The last transaction is dropped: a commitment only if it is the only one.
LEMMA EvictKeeps == Shape /\ Evict => Shape'
<1> SUFFICES ASSUME Shape, Evict PROVE Shape' OBVIOUS
<1> USE WorkAssumption DEF Evict, Fault, watch, calls
<1>1. FlagTypeOK' BY DEF Shape, RestTypeOK, FlagTypeOK
<1>2. CountTypeOK' BY DEF Shape, RestTypeOK, CountTypeOK
<1>3. /\ pool' \in Seq({"commit", "foreign"}) /\ Len(pool') = Len(pool) - 1 /\ Len(pool) \in Nat \ {0}
      /\ \A i \in 1..Len(pool') : pool'[i] = pool[i]
      /\ Last(pool) = pool[Len(pool)]
  BY FrontMeans DEF Shape
<1>4. CommitIsFirst' BY <1>3 DEF Shape, CommitIsFirst
<1>5. /\ Tidy(pending', InPool') /\ Len(pending') = Len(pending) /\ (pending # <<>> => pending' # <<>>)
      /\ InPool' => InPool
  <2>1. CASE Last(pool) = "commit"
    <3>1. Len(pool) = 1
      <4>1. Len(pool) \in DOMAIN pool BY <1>3 DEF Shape
      <4> QED BY <1>3, <2>1, <4>1 DEF Shape, CommitIsFirst
    <3>2. InPool = TRUE /\ InPool' = FALSE
      <4>1. pool # <<>> /\ pool' = <<>> BY <1>3, <3>1
      <4> QED BY <1>3, <2>1, <3>1, <4>1 DEF InPool
    <3>3. pending' = Moved("gone") BY <2>1
    <3>4. Tidy(pending, TRUE) /\ pending \in Seq(Commitment) BY <3>2 DEF Shape, Tidy
    <3> QED BY <3>2, <3>3, <3>4, MovedMeans, MovedIsTidy
  <2>2. CASE Last(pool) # "commit"
    <3>1. pending' = pending BY <2>2
    <3>2. InPool' <=> InPool
      <4>1. CASE Len(pool) = 1 BY <1>3, <2>2, <4>1 DEF InPool
      <4>2. CASE Len(pool) # 1
        <5>1. pool' # <<>> /\ pool'[1] = pool[1] BY <1>3, <4>2
        <5> QED BY <1>3, <5>1 DEF InPool
      <4> QED BY <4>1, <4>2
    <3> QED BY <3>1, <3>2 DEF Shape, Tidy
  <2> QED BY <2>1, <2>2
<1>6. UNCHANGED <<checked, counted, untracked, pc>> OBVIOUS
<1> QED BY <1>1, <1>2, <1>3, <1>4, <1>5, <1>6
        DEF Shape, RestTypeOK, CheckedInLoop, SomethingToReplace

\* Entries get older, and none gets young again.
LEMMA ReadBlockKeeps == ASSUME Shape, NEW later \in BOOLEAN, ReadBlock(later) PROVE Shape'
<1> USE WorkAssumption DEF ReadBlock, Go, chain, watch, calls
<1>1. FlagTypeOK' BY DEF Shape, RestTypeOK, FlagTypeOK
<1>2. CountTypeOK' BY DEF Shape, RestTypeOK, CountTypeOK, Calls
<1>3. pending \in Seq(Commitment) /\ DOMAIN pending = 1..Len(pending) /\ Len(pending) \in Nat
  BY DEF Shape, Tidy
<1>4. ASSUME NEW i \in 1..Len(pending)
      PROVE  /\ pending'[i] \in Commitment /\ pending'[i].where = pending[i].where
             /\ pending'[i].age = 0 => pending[i].age = 0
  <2>1. pending[i] \in Commitment BY <1>3
  <2>2. pending'[i] = IF later /\ pending[i].age < Patience
                      THEN [pending[i] EXCEPT !.age = @ + 1] ELSE pending[i]
    BY <1>3
  <2>3. CASE later /\ pending[i].age < Patience BY <2>1, <2>2, <2>3 DEF Commitment
  <2>4. CASE ~(later /\ pending[i].age < Patience) BY <2>1, <2>2, <2>4
  <2> QED BY <2>3, <2>4
<1>5. pending' \in Seq(Commitment) /\ Len(pending') = Len(pending)
  <2>1. pending' = [i \in 1..Len(pending) |-> pending'[i]] BY <1>3
  <2> QED BY <1>3, <1>4, <2>1
<1>6. pool' = pool /\ checked' = 0 /\ pc' = "receipts" BY DEF Shape, CheckedInLoop
<1>7. Tidy(pending, InPool)'
  <2>1. InPool' <=> InPool BY <1>6 DEF InPool
  <2>2. Tidy(pending, InPool) BY DEF Shape
  <2>3. \A i, j \in 1..Len(pending') : pending'[i].where = "pool" /\ pending'[j].where = "pool" => i = j
    BY <1>4, <1>5, <2>2 DEF Tidy
  <2>4. (\E i \in 1..Len(pending') : pending'[i].where = "pool") => InPool
    BY <1>4, <1>5, <2>2 DEF Tidy
  <2>5. \A i \in 1..Len(pending') : pending'[i].age = 0 => i = Len(pending')
    BY <1>4, <1>5, <2>2 DEF Tidy
  <2> QED BY <1>5, <2>1, <2>3, <2>4, <2>5 DEF Tidy
<1>8. CommitIsFirst' BY <1>6 DEF Shape, CommitIsFirst
<1> QED BY <1>1, <1>2, <1>3, <1>5, <1>6, <1>7, <1>8
        DEF Shape, RestTypeOK, CheckedInLoop, SomethingToReplace

\* The loop over the dictionary: an entry with a receipt is deleted.
LEMMA ReceiptsKeep == Shape /\ GetReceipts => Shape'
<1> SUFFICES ASSUME Shape, GetReceipts PROVE Shape' OBVIOUS
<1> USE DEF GetReceipts, Go, chain, watch
<1>1. FlagTypeOK' BY DEF Shape, RestTypeOK, FlagTypeOK
<1>2. CountTypeOK' BY DEF Shape, RestTypeOK, CountTypeOK, Calls
<1>3. /\ pool' = pool /\ pc' \in {"receipts", "pending"} /\ (pc' = "pending" => checked' = 0)
      /\ Len(pending) \in Nat /\ checked \in 0..Len(pending) /\ InPool \in BOOLEAN
  BY DEF Shape, Tidy, InPool
<1>4. Tidy(pending', InPool) /\ checked' \in 0..Len(pending')
  <2>1. CASE pending' = pending BY <1>3, <2>1 DEF Shape
  <2>2. CASE checked < Len(pending) /\ pending' = RemoveAt(pending, checked + 1) /\ checked' = checked
    <3>1. checked + 1 \in 1..Len(pending) BY <1>3, <2>2
    <3> QED BY <1>3, <2>2, <3>1, RemovedIsTidy DEF Shape
  <2> QED BY <2>1, <2>2
<1>5. (InPool' <=> InPool) /\ CommitIsFirst' BY <1>3 DEF InPool, Shape, CommitIsFirst
<1>6. Tidy(pending, InPool)' BY <1>4, <1>5 DEF Tidy
<1> QED BY <1>1, <1>2, <1>3, <1>4, <1>5, <1>6
        DEF Shape, RestTypeOK, CheckedInLoop, SomethingToReplace

\* The new transaction takes the place of the first one, so that no second
\* commitment can be behind it.
LEMMA PlacedMeans ==
    ASSUME Shape
    PROVE  /\ Placed \in Seq({"commit", "foreign"}) /\ Placed # <<>> /\ Placed[1] = "commit"
           /\ \A i \in DOMAIN Placed : Placed[i] = "commit" => i = 1
<1> DEFINE S == {"commit", "foreign"}
           rest == IF pool = <<>> THEN <<>> ELSE Tail(pool)
<1>1. pool \in Seq(S) BY DEF Shape
<1>2. rest \in Seq(S) /\ \A i \in 1..Len(rest) : i + 1 \in DOMAIN pool /\ rest[i] = pool[i + 1]
  <2>1. CASE pool = <<>> BY <2>1
  <2>2. CASE pool # <<>>
    <3>1. /\ Tail(pool) \in Seq(S) /\ Len(Tail(pool)) = Len(pool) - 1
          /\ \A i \in 1..Len(Tail(pool)) : Tail(pool)[i] = pool[i + 1]
      BY <1>1, <2>2, HeadTailProperties
    <3>2. DOMAIN pool = 1..Len(pool) /\ Len(pool) \in Nat BY <1>1
    <3> QED BY <2>2, <3>1, <3>2
  <2> QED BY <2>1, <2>2
<1>3. Placed = <<"commit">> \o rest BY DEF Placed
<1>4. <<"commit">> \in Seq(S) /\ Len(<<"commit">>) = 1 /\ <<"commit">>[1] = "commit" OBVIOUS
<1> HIDE DEF rest
<1>5. /\ Placed \in Seq(S) /\ Len(Placed) = 1 + Len(rest)
      /\ \A i \in 1..(1 + Len(rest)) :
            Placed[i] = IF i <= 1 THEN <<"commit">>[i] ELSE rest[i - 1]
  BY <1>2, <1>3, <1>4, ConcatProperties
<1>6. Len(rest) \in Nat BY <1>2
<1>7. DOMAIN Placed = 1..(1 + Len(rest)) BY <1>5
<1>8. Placed[1] = "commit" /\ Placed # <<>> BY <1>4, <1>5, <1>6
<1>9. ASSUME NEW i \in DOMAIN Placed, Placed[i] = "commit", i # 1 PROVE FALSE
  <2>1. i - 1 \in 1..Len(rest) /\ Placed[i] = rest[i - 1] /\ (i - 1) + 1 = i
    BY <1>5, <1>6, <1>7, <1>9
  <2>2. i \in DOMAIN pool /\ pool[i] = "commit" BY <1>2, <1>9, <2>1
  <2> QED BY <1>9, <2>2 DEF Shape, CommitIsFirst
<1> QED BY <1>5, <1>8, <1>9

\* What the new transaction displaces is gone, and nothing else was in the pool.
LEMMA DisplacedMeans ==
    ASSUME Shape
    PROVE  Tidy(Displaced, FALSE) /\ Len(Displaced) = Len(pending)
<1>1. CASE pool # <<>> /\ Head(pool) = "commit"
  <2>1. Displaced = Moved("gone") BY <1>1 DEF Displaced
  <2>2. InPool \in BOOLEAN /\ Tidy(pending, InPool) /\ pending \in Seq(Commitment) BY DEF Shape, Tidy, InPool
  <2> QED BY <2>1, <2>2, MovedMeans, MovedIsTidy
<1>2. CASE ~(pool # <<>> /\ Head(pool) = "commit")
  <2>1. Displaced = pending BY <1>2 DEF Displaced
  <2>2. InPool = FALSE BY <1>2 DEF InPool, Shape
  <2> QED BY <2>1, <2>2 DEF Shape
<1> QED BY <1>1, <1>2

\* The dictionary takes the new commitment under the current block, in place of
\* another of this block, and forgets the one that is replaced.
LEMMA TrackingMeans ==
    ASSUME NEW s, Tidy(s, FALSE)
    PROVE  Tidy(Tracking(s), TRUE)
<1> DEFINE kept == IF s # <<>> /\ Last(s).age = 0 THEN Front(s) ELSE s
           new == Append(kept, Entry)
<1>1. s \in Seq(Commitment) BY DEF Tidy
<1>2. /\ kept \in Seq(Commitment)
      /\ \A i \in 1..Len(kept) : kept[i].where # "pool" /\ kept[i].age # 0
  <2>1. CASE s # <<>> /\ Last(s).age = 0
    <3>1. /\ Front(s) \in Seq(Commitment) /\ Len(Front(s)) = Len(s) - 1 /\ Len(s) \in Nat \ {0}
          /\ \A i \in 1..(Len(s) - 1) : Front(s)[i] = s[i]
      BY <1>1, <2>1, FrontMeans
    <3>2. ASSUME NEW i \in 1..(Len(s) - 1) PROVE s[i].where # "pool" /\ s[i].age # 0
      <4>1. i \in 1..Len(s) /\ i # Len(s) BY <3>1
      <4> QED BY <4>1 DEF Tidy
    <3> QED BY <2>1, <3>1, <3>2
  <2>2. CASE s # <<>> /\ Last(s).age # 0
    <3>1. Len(s) \in Nat \ {0} /\ Last(s) = s[Len(s)] BY <1>1, <2>2, FrontMeans
    <3>2. \A i \in 1..Len(s) : s[i].where # "pool" /\ s[i].age # 0 BY <2>2, <3>1 DEF Tidy
    <3> QED BY <1>1, <2>2, <3>2
  <2>3. CASE s = <<>> BY <2>3
  <2> QED BY <2>1, <2>2, <2>3
<1>3. Entry \in Commitment /\ Entry.age = 0 BY WorkAssumption DEF Entry, Commitment
<1> HIDE DEF kept
<1>4. Len(kept) \in Nat BY <1>2
<1>5. /\ new \in Seq(Commitment) /\ new # <<>> /\ Len(new) = Len(kept) + 1
      /\ \A i \in 1..Len(kept) : new[i] = kept[i]
  BY <1>2, <1>3, AppendProperties
<1> HIDE DEF new
<1>6. \A i \in 1..Len(new) : i = Len(new) \/ (new[i].where # "pool" /\ new[i].age # 0)
  BY <1>2, <1>4, <1>5
<1>7. Tidy(new, TRUE) BY <1>4, <1>5, <1>6 DEF Tidy
<1>8. Tidy(Tail(new), TRUE)
  <2>1. /\ Tail(new) \in Seq(Commitment) /\ Len(Tail(new)) = Len(new) - 1
        /\ \A i \in 1..Len(Tail(new)) : Tail(new)[i] = new[i + 1]
    BY <1>5, HeadTailProperties
  <2>2. \A i \in 1..Len(Tail(new)) :
           i = Len(Tail(new)) \/ (Tail(new)[i].where # "pool" /\ Tail(new)[i].age # 0)
    BY <1>4, <1>5, <1>6, <2>1
  <2> QED BY <1>4, <1>5, <2>1, <2>2 DEF Tidy
<1>9. Tracking(s) = IF pc = "rebroadcast" /\ ~untracked THEN Tail(new) ELSE new
  BY DEF Tracking, Replaced, kept, new
<1> QED BY <1>7, <1>8, <1>9

\* The pool takes the commitment, whether or not the answer arrives.
LEMMA BroadcastKeeps == Shape /\ (Broadcast \/ BroadcastUnanswered) => Shape'
<1> SUFFICES ASSUME Shape, Broadcast \/ BroadcastUnanswered PROVE Shape' OBVIOUS
<1> USE WorkAssumption DEF Broadcast, BroadcastUnanswered, HandleWorkingErrors, Fault, Go, watch, calls
<1>1. FlagTypeOK'
  <2>1. CASE Broadcast BY <2>1 DEF Shape, RestTypeOK, FlagTypeOK
  <2>2. CASE BroadcastUnanswered BY <2>2 DEF Shape, RestTypeOK, FlagTypeOK
  <2> QED BY <2>1, <2>2
<1>2. CountTypeOK' BY DEF Shape, RestTypeOK, CountTypeOK, Calls
<1>3. /\ pool' = Placed /\ checked' = 0 /\ pc' \in {"idle", "completed"}
      /\ pending' \in {Tracking(Displaced), Displaced}
  BY DEF Shape, CheckedInLoop
<1>4. InPool' = TRUE /\ CommitIsFirst' /\ pool' \in Seq({"commit", "foreign"})
  BY <1>3, PlacedMeans DEF InPool, CommitIsFirst
<1>5. Tidy(pending', TRUE) BY <1>3, DisplacedMeans, TrackingMeans, TidyAnyway
<1>6. Tidy(pending, InPool)' BY <1>4, <1>5
<1>7. checked' \in 0..Len(pending') BY <1>3, <1>5 DEF Tidy
<1> QED BY <1>1, <1>2, <1>3, <1>4, <1>6, <1>7
        DEF Shape, RestTypeOK, CheckedInLoop, SomethingToReplace

\* Every step keeps the invariant.
LEMMA NextKeeps == Shape /\ [Next]_vars => Shape'
<1> SUFFICES ASSUME Shape, [Next]_vars PROVE Shape' OBVIOUS
<1>1. CASE Next
  BY <1>1, BondingKeeps, ForeignKeeps, MineKeeps, EvictKeeps, StartKeeps, WatchKeeps, TestsKeep,
     ReadBlockKeeps, ReceiptsKeep, ErrorKeeps, BroadcastKeeps DEF Next, DoWork
<1>2. CASE UNCHANGED vars
  <2> USE <1>2 DEF vars, chain, tracker, watch, calls
  <2>1. FlagTypeOK' /\ CountTypeOK' BY DEF Shape, RestTypeOK, FlagTypeOK, CountTypeOK
  <2>2. UNCHANGED <<pool, pending, checked, counted, untracked, pc>> OBVIOUS
  <2> QED BY <2>1, <2>2, SameSequences
          DEF Shape, RestTypeOK, CheckedInLoop, SomethingToReplace, Firing
<1> QED BY <1>1, <1>2

\* The invariant holds in every behaviour.
LEMMA InvHolds == Spec => []IInv
<1>1. Spec => []Shape BY InitShape, NextKeeps, PTL DEF Spec
<1> QED BY <1>1, ShapeIsInv, PTL

-----------------------------------------------------------------------------
(* The theorems.                                                           *)

\* However often the tracker fires, replaces and loses track, one commitment at most
\* is in the pool: the nonce is always that of the first transaction.
THEOREM OneCommitment == Spec => []OneCommitmentInPool
<1>1. ASSUME IInv PROVE OneCommitmentInPool
  <2>1. TypeOK /\ CommitIsFirst BY <1>1 DEF IInv
  <2> QED BY <2>1 DEF CommitIsFirst, OneCommitmentInPool
<1> QED BY <1>1, InvHolds, PTL

\* Two counts that are read one after the other are enough to tell an empty pool:
\* no fresh commitment is fired while another waits.
THEOREM FreshIsAlone == Spec => []FreshOnlyIfNone
<1>1. IInv => FreshOnlyIfNone BY DEF IInv
<1> QED BY <1>1, InvHolds, PTL

\* __handle_replacement_commitment takes the first entry of the sorted dictionary, and
\* __fire_replacement_commitment deletes it after a call: there always is one.
THEOREM ReplacesSomething == Spec => []SomethingToReplace
<1>1. IInv => SomethingToReplace BY DEF IInv
<1> QED BY <1>1, InvHolds, PTL
=============================================================================
