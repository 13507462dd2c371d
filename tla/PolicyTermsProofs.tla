-------------------------- MODULE PolicyTermsProofs --------------------------
(***************************************************************************)
(* Proofs about PolicyTerms for every bound on time and grants, any set of   *)
(* positive fee rates, any number of shares and any number of REST threads.   *)
(***************************************************************************)
EXTENDS PolicyTerms, TLAPS

-----------------------------------------------------------------------------
(* The inductive invariant.                                                *)

\* The record of the contract; it is not read back by Alice, so TypeOK says only
\* what Ursula sees of it.
PolicyTypeOK == policy \in [start : Int, end : Times, duration : Int, checked : Nat, paid : Nat]

\* From validate_price on, the value is that of the duration at the rate that
\* validate_price read.
ValueFollowsDuration ==
    stage \in {"build", "mine"} =>
        quote.checked \in Rates /\ quote.value = Shares * quote.duration * quote.checked

\* No request is from the future.
ArrivedBefore == \A h \in Handlers : handler[h].arrived <= now

IInv ==
    /\ TypeOK /\ PolicyTypeOK
    /\ ValueFollowsDuration /\ ArrivedBefore
    /\ QuoteCoversWindow /\ EnactedWindowIsPriced /\ ServedOnlyWhilePaid

-----------------------------------------------------------------------------
(* Arithmetic of prices.                                                   *)

\* Two durations that cost the same at the same positive rate are equal.
LEMMA SamePriceSameTime ==
    ASSUME NEW s \in Nat \ {0}, NEW r \in Nat \ {0}, NEW d \in Int, NEW w \in Int,
           s * d * r = r * s * w
    PROVE  d = w
<1>1. (s * r) * (d - w) = 0 OBVIOUS
<1>2. s * r > 0 OBVIOUS
<1> QED BY <1>1, <1>2

-----------------------------------------------------------------------------
(* The invariant is inductive.                                             *)

\* The initial states satisfy it: nothing is quoted, enacted or asked for.
LEMMA InitInv == Init => IInv
<1> SUFFICES ASSUME Init PROVE IInv OBVIOUS
<1> USE TermsAssumption DEF Init
<1>1. TypeOK
  <2>1. now \in 1..MaxTime /\ 0 \in Times /\ 0 \in Durations BY DEF Times, Durations
  <2>2. preset \in [duration : Times, rate : GivenRates] BY DEF Times, GivenRates
  <2>3. given \in Given BY <2>1 DEF Given, NoGiven, GivenRates
  <2>4. quote \in [commencement : Int, expiration : Times, duration : Int, rate : Nat, value : Int,
                   checked : Nat]
    BY <2>1 DEF NoQuote
  <2>5. handler \in [Handlers ->
           [at : {"idle", "decrypt", "verify", "reencrypt", "record"}, arrived : Times, good : BOOLEAN]]
    BY <2>1 DEF NoRequest
  <2>6. policy.start \in Int /\ policy.end \in Times BY <2>1 DEF NoPolicy
  <2> QED BY <2>1, <2>2, <2>3, <2>4, <2>5, <2>6 DEF TypeOK, Stages, NoGiven, NoRate
<1>2. PolicyTypeOK BY DEF PolicyTypeOK, NoPolicy, Times
<1>3. ValueFollowsDuration BY DEF ValueFollowsDuration
<1>4. ArrivedBefore BY DEF ArrivedBefore, NoRequest
<1>5. QuoteCoversWindow BY <1>1 DEF QuoteCoversWindow
<1>6. EnactedWindowIsPriced BY DEF EnactedWindowIsPriced, NoPolicy
<1>7. ServedOnlyWhilePaid BY DEF ServedOnlyWhilePaid, NoRequest
<1> QED BY <1>1, <1>2, <1>3, <1>4, <1>5, <1>6, <1>7 DEF IInv

\* Time passes.
LEMMA TickKeeps == IInv /\ Tick => IInv'
<1> SUFFICES ASSUME IInv, Tick PROVE IInv' OBVIOUS
<1> USE TermsAssumption DEF Tick, alice
<1>1. TypeOK' BY DEF IInv, TypeOK
<1>2. PolicyTypeOK' BY DEF IInv, PolicyTypeOK
<1>3. ValueFollowsDuration' BY DEF IInv, ValueFollowsDuration
<1>4. ArrivedBefore' BY DEF IInv, ArrivedBefore, TypeOK, Times
<1>5. QuoteCoversWindow' BY <1>1 DEF IInv, QuoteCoversWindow
<1>6. EnactedWindowIsPriced' BY DEF IInv, EnactedWindowIsPriced
<1>7. ServedOnlyWhilePaid' BY DEF IInv, ServedOnlyWhilePaid
<1> QED BY <1>1, <1>2, <1>3, <1>4, <1>5, <1>6, <1>7 DEF IInv

\* The fee rate changes: quotes and policies keep the rates they were made with.
LEMMA SetFeeRateKeeps == ASSUME IInv, NEW r \in Rates, SetFeeRate(r) PROVE IInv'
<1> USE DEF SetFeeRate, alice
<1>1. TypeOK' BY DEF IInv, TypeOK
<1>2. PolicyTypeOK' BY DEF IInv, PolicyTypeOK
<1>3. ValueFollowsDuration' BY DEF IInv, ValueFollowsDuration
<1>4. ArrivedBefore' BY DEF IInv, ArrivedBefore
<1>5. QuoteCoversWindow' BY <1>1 DEF IInv, QuoteCoversWindow
<1>6. EnactedWindowIsPriced' BY DEF IInv, EnactedWindowIsPriced
<1>7. ServedOnlyWhilePaid' BY DEF IInv, ServedOnlyWhilePaid
<1> QED BY <1>1, <1>2, <1>3, <1>4, <1>5, <1>6, <1>7 DEF IInv

\* The merged parameters are of their types; nothing is quoted yet.
LEMMA GrantKeeps == ASSUME IInv, NEW g \in Given, Grant(g) PROVE IInv'
<1> USE TermsAssumption DEF Grant
<1>1. TypeOK'
  <2>1. /\ g.duration \in Durations /\ g.rate \in GivenRates
        /\ preset.duration \in Times /\ preset.rate \in GivenRates
    BY DEF IInv, TypeOK, Given
  <2>2. Or(g.duration, preset.duration) \in Durations BY <2>1 DEF Or, Durations
  <2>3. given' \in Given BY <2>1, <2>2 DEF Given
  <2> QED BY <2>3 DEF IInv, TypeOK, Stages
<1>2. PolicyTypeOK' BY DEF IInv, PolicyTypeOK
<1>3. ValueFollowsDuration' BY DEF ValueFollowsDuration
<1>4. ArrivedBefore' BY DEF IInv, ArrivedBefore
<1>5. QuoteCoversWindow' BY <1>1 DEF QuoteCoversWindow
<1>6. EnactedWindowIsPriced' BY DEF IInv, EnactedWindowIsPriced
<1>7. ServedOnlyWhilePaid' BY DEF IInv, ServedOnlyWhilePaid
<1> QED BY <1>1, <1>2, <1>3, <1>4, <1>5, <1>6, <1>7 DEF IInv

\* An exception forgets the parameters and the quote.
LEMMA AbandonKeeps == IInv /\ Abandon => IInv'
<1> SUFFICES ASSUME IInv, Abandon PROVE IInv' OBVIOUS
<1> USE TermsAssumption DEF Abandon
<1>1. TypeOK'
  <2>1. 0 \in Times /\ 0 \in Durations BY DEF Times, Durations
  <2>2. given' \in Given BY <2>1 DEF Given, NoGiven, GivenRates
  <2>3. quote' \in [commencement : Int, expiration : Times, duration : Int, rate : Nat, value : Int,
                    checked : Nat]
    BY <2>1 DEF NoQuote
  <2> QED BY <2>1, <2>2, <2>3 DEF IInv, TypeOK, Stages, NoGiven, NoRate
<1>2. PolicyTypeOK' BY DEF IInv, PolicyTypeOK
<1>3. ValueFollowsDuration' BY DEF ValueFollowsDuration
<1>4. ArrivedBefore' BY DEF IInv, ArrivedBefore
<1>5. QuoteCoversWindow' BY <1>1 DEF QuoteCoversWindow
<1>6. EnactedWindowIsPriced' BY DEF IInv, EnactedWindowIsPriced
<1>7. ServedOnlyWhilePaid' BY DEF IInv, ServedOnlyWhilePaid
<1> QED BY <1>1, <1>2, <1>3, <1>4, <1>5, <1>6, <1>7 DEF IInv

\* What quote() derives from consistent parameters covers the window.
LEMMA DerivedWindow ==
    ASSUME TypeOK, ~Invalid(given)
    PROVE  /\ given.duration \in Times /\ given.rate \in {NoRate, 0}
           /\ Commencement(given) \in Int /\ Duration(given) \in Int
           /\ Determined(given) => Commencement(given) + Duration(given) = given.expiration
<1> USE TermsAssumption
<1>1. /\ given.commencement \in Int /\ given.expiration \in Int /\ now \in Int
      /\ given.duration \in Durations /\ given.rate \in GivenRates
  BY DEF TypeOK, Given, Times
<1>2. given.duration \in Times /\ given.rate \in {NoRate, 0}
  BY <1>1 DEF Invalid, Durations, Times, GivenRates
<1>3. given.duration \in Int BY <1>2 DEF Times
<1> QED BY <1>1, <1>2, <1>3 DEF Commencement, Duration, Determined

\* The steps of a grant from the quote to the transaction.
LEMMA QuotingKeeps == IInv /\ (Quote \/ QuoteValue \/ ValidatePrice \/ Build) => IInv'
<1> SUFFICES ASSUME IInv, Quote \/ QuoteValue \/ ValidatePrice \/ Build PROVE IInv' OBVIOUS
<1> DEFINE QuoteType == [commencement : Int, expiration : Times, duration : Int, rate : Nat,
                         value : Int, checked : Nat]
<1> USE TermsAssumption
<1>0. /\ UNCHANGED <<now, feeRate, preset, given, grants, policy, handler>>
      /\ TypeOK /\ quote \in QuoteType /\ feeRate \in Nat
  BY DEF Quote, QuoteValue, ValidatePrice, Build, IInv, TypeOK
<1>1. TypeOK' /\ ValueFollowsDuration' /\ QuoteCoversWindow'
  <2>1. CASE Quote
    <3>1. quote' \in QuoteType
      BY <2>1, <1>0, DerivedWindow DEF Quote, TypeOK, Given
    <3>2. TypeOK'
      BY <2>1, <1>0, <3>1, DerivedWindow DEF Quote, TypeOK, Stages
    <3>3. ValueFollowsDuration' BY <2>1 DEF Quote, ValueFollowsDuration
    <3>4. QuoteCoversWindow'
      BY <2>1, <1>0, <3>2, DerivedWindow DEF Quote, QuoteCoversWindow, Determined
    <3> QED BY <3>2, <3>3, <3>4
  <2>2. CASE QuoteValue
    <3>0. feeRate * quote.duration * Shares \in Int BY <1>0
    <3>1. /\ quote' \in QuoteType
          /\ quote'.expiration = quote.expiration /\ quote'.commencement = quote.commencement
          /\ quote'.duration = quote.duration
      BY <2>2, <1>0, <3>0 DEF QuoteValue
    <3>2. TypeOK' BY <2>2, <1>0, <3>1 DEF QuoteValue, TypeOK, Stages
    <3>3. ValueFollowsDuration' BY <2>2 DEF QuoteValue, ValueFollowsDuration
    <3>4. QuoteCoversWindow'
      BY <2>2, <1>0, <3>1, <3>2 DEF QuoteValue, QuoteCoversWindow, Determined, IInv
    <3> QED BY <3>2, <3>3, <3>4
  <2>3. CASE ValidatePrice
    <3>1. /\ quote' \in QuoteType
          /\ quote'.expiration = quote.expiration /\ quote'.commencement = quote.commencement
          /\ quote'.duration = quote.duration /\ quote'.value = quote.value
          /\ quote'.checked = feeRate
      BY <2>3, <1>0 DEF ValidatePrice
    <3>2. TypeOK' BY <2>3, <1>0, <3>1 DEF ValidatePrice, TypeOK, Stages
    <3>3. ValueFollowsDuration'
      BY <2>3, <1>0, <3>1 DEF ValidatePrice, Price, ValueFollowsDuration, TypeOK
    <3>4. QuoteCoversWindow'
      BY <2>3, <1>0, <3>1, <3>2 DEF ValidatePrice, QuoteCoversWindow, Determined, IInv
    <3> QED BY <3>2, <3>3, <3>4
  <2>4. CASE Build
    <3>1. TypeOK' BY <2>4 DEF Build, IInv, TypeOK, Stages
    <3> QED BY <2>4, <3>1 DEF Build, ValueFollowsDuration, QuoteCoversWindow, Determined, IInv
  <2> QED BY <2>1, <2>2, <2>3, <2>4
<1>2. PolicyTypeOK' BY <1>0 DEF IInv, PolicyTypeOK
<1>3. ArrivedBefore' BY <1>0 DEF IInv, ArrivedBefore
<1>4. EnactedWindowIsPriced' BY <1>0 DEF IInv, EnactedWindowIsPriced
<1>5. ServedOnlyWhilePaid' BY <1>0 DEF IInv, ServedOnlyWhilePaid
<1> QED BY <1>1, <1>2, <1>3, <1>4, <1>5 DEF IInv

\* The contract enacts a window only if the value is its price, and only when no
\* other policy runs: the requests that are being served find a later end.
LEMMA MineKeeps == IInv /\ Mine => IInv'
<1> SUFFICES ASSUME IInv, Mine PROVE IInv' OBVIOUS
<1> USE TermsAssumption DEF Mine
<1>0. /\ quote.commencement \in Int /\ quote.expiration \in Times /\ quote.duration \in Int
      /\ quote.value \in Int /\ quote.checked \in Nat /\ feeRate \in Nat \ {0} /\ now \in Int
  BY DEF IInv, TypeOK
<1>1. PolicyTypeOK' BY <1>0 DEF PolicyTypeOK
<1>2. TypeOK'
  <2>1. 0 \in Times /\ 0 \in Durations BY DEF Times, Durations
  <2>2. given' \in Given BY <2>1 DEF Given, NoGiven, GivenRates
  <2>3. quote' \in [commencement : Int, expiration : Times, duration : Int, rate : Nat, value : Int,
                    checked : Nat]
    BY <2>1 DEF NoQuote
  <2>4. policy'.start \in Int /\ policy'.end \in Times /\ policy'.start < policy'.end
    BY <1>0 DEF Accepts
  <2> QED BY <2>1, <2>2, <2>3, <2>4 DEF IInv, TypeOK, Stages, NoGiven, NoRate
<1>3. ValueFollowsDuration' BY DEF ValueFollowsDuration
<1>4. ArrivedBefore' BY DEF IInv, ArrivedBefore
<1>5. QuoteCoversWindow' BY <1>2 DEF QuoteCoversWindow
<1>6. EnactedWindowIsPriced'
  <2> SUFFICES ASSUME feeRate = quote.checked
               PROVE  quote.expiration - quote.commencement = quote.duration
    BY DEF EnactedWindowIsPriced
  <2>1. quote.expiration - quote.commencement \in Int BY <1>0 DEF Times
  <2>2. Shares * quote.duration * feeRate = feeRate * Shares * (quote.expiration - quote.commencement)
    BY DEF IInv, ValueFollowsDuration, Accepts
  <2>3. \A s, r \in Nat \ {0} : \A d, w \in Int : s * d * r = r * s * w => d = w
    BY SamePriceSameTime
  <2> DEFINE window == quote.expiration - quote.commencement
  <2>4. window \in Int /\ Shares * quote.duration * feeRate = feeRate * Shares * window
    BY <2>1, <2>2
  <2> HIDE DEF window
  <2>5. /\ Shares \in Nat \ {0} /\ feeRate \in Nat \ {0} /\ quote.duration \in Int
        /\ window \in Int
    BY <1>0, <2>4
  <2>6. \A d, w \in Int : Shares * d * feeRate = feeRate * Shares * w => d = w
    BY <2>3, <2>5, Zenon
  <2>7. quote.duration = window BY <2>4, <2>5, <2>6, Zenon
  <2> QED BY <2>7 DEF window
<1>7. ServedOnlyWhilePaid'
  <2> SUFFICES ASSUME NEW h \in Handlers PROVE policy'.end > handler[h].arrived
    BY DEF ServedOnlyWhilePaid
  <2>1. handler[h].arrived \in Times /\ handler[h].arrived <= now
    BY DEF IInv, ArrivedBefore, TypeOK
  <2> QED BY <1>0, <2>1 DEF Accepts, Times
<1> QED BY <1>1, <1>2, <1>3, <1>4, <1>5, <1>6, <1>7 DEF IInv

\* A handler that goes on serves a request during which the policy was active.
LEMMA ServeKeeps ==
    ASSUME IInv, NEW h \in Handlers, Serve(h) \/ \E good \in BOOLEAN : Request(h, good)
    PROVE  IInv'
<1> DEFINE Requests == [at : {"idle", "decrypt", "verify", "reencrypt", "record"},
                        arrived : Times, good : BOOLEAN]
<1> USE TermsAssumption DEF alice
<1>0. /\ UNCHANGED <<now, feeRate, alice, policy>>
      /\ TypeOK /\ handler \in [Handlers -> Requests] /\ handler[h] \in Requests
      /\ now \in Times /\ policy.end \in Times
  BY DEF Serve, DecryptKfrag, Verify, PaymentRequired, CallFails, Reencrypt, Record, Request, Go,
         IInv, TypeOK, Times
<1>1. PICK r \in Requests :
        /\ handler' = [handler EXCEPT ![h] = r]
        /\ r.arrived <= now
        /\ r.at \in {"reencrypt", "record"} => policy.end > r.arrived
  <2>0. handler[h].arrived <= now /\ handler[h].arrived \in Times BY <1>0 DEF IInv, ArrivedBefore
  <2>1. CASE \E good \in BOOLEAN : Request(h, good)
    <3> PICK good \in BOOLEAN : Request(h, good) BY <2>1
    <3> [at |-> "decrypt", arrived |-> now, good |-> good] \in Requests BY <1>0
    <3> WITNESS [at |-> "decrypt", arrived |-> now, good |-> good] \in Requests
    <3> QED BY <1>0 DEF Request, Times
  <2>2. CASE DecryptKfrag(h) /\ handler[h].good
    <3> [handler[h] EXCEPT !.at = "verify"] \in Requests BY <1>0
    <3> WITNESS [handler[h] EXCEPT !.at = "verify"] \in Requests
    <3> QED BY <2>0, <2>2, <1>0 DEF DecryptKfrag, Go, At
  <2>3. CASE Verify(h)
    <3> [handler[h] EXCEPT !.at = "reencrypt"] \in Requests BY <1>0
    <3> WITNESS [handler[h] EXCEPT !.at = "reencrypt"] \in Requests
    <3> QED BY <2>0, <2>3, <1>0 DEF Verify, Go, At, Times
  <2>4. CASE Reencrypt(h)
    <3>1. policy.end > handler[h].arrived
      BY <2>4 DEF IInv, ServedOnlyWhilePaid, Reencrypt, At
    <3> [handler[h] EXCEPT !.at = "record"] \in Requests BY <1>0
    <3> WITNESS [handler[h] EXCEPT !.at = "record"] \in Requests
    <3> QED BY <2>0, <2>4, <1>0, <3>1 DEF Reencrypt, Go, At
  <2>5. CASE \/ DecryptKfrag(h) /\ ~handler[h].good
             \/ PaymentRequired(h) \/ CallFails(h) \/ Record(h)
    <3> NoRequest \in Requests BY DEF NoRequest, Times
    <3> WITNESS NoRequest \in Requests
    <3> QED BY <2>5, <1>0 DEF DecryptKfrag, PaymentRequired, CallFails, Record, Go, NoRequest, Times
  <2> QED BY <2>1, <2>2, <2>3, <2>4, <2>5 DEF Serve
<1>2. handler' \in [Handlers -> Requests] BY <1>0, <1>1
<1>3. TypeOK' BY <1>0, <1>2 DEF TypeOK
<1>4. ArrivedBefore' BY <1>0, <1>1 DEF IInv, ArrivedBefore
<1>5. ServedOnlyWhilePaid' BY <1>0, <1>1 DEF IInv, ServedOnlyWhilePaid
<1>6. PolicyTypeOK' BY <1>0 DEF IInv, PolicyTypeOK
<1>7. ValueFollowsDuration' BY <1>0 DEF IInv, ValueFollowsDuration
<1>8. QuoteCoversWindow' BY <1>0, <1>3 DEF IInv, QuoteCoversWindow
<1>9. EnactedWindowIsPriced' BY <1>0 DEF IInv, EnactedWindowIsPriced
<1> QED BY <1>3, <1>4, <1>5, <1>6, <1>7, <1>8, <1>9 DEF IInv

\* Nothing changes.
LEMMA StutterKeeps == IInv /\ UNCHANGED vars => IInv'
<1> SUFFICES ASSUME IInv, UNCHANGED vars PROVE IInv' OBVIOUS
<1> USE DEF vars, alice
<1>1. TypeOK' BY DEF IInv, TypeOK
<1> QED BY <1>1 DEF IInv, PolicyTypeOK, ValueFollowsDuration, ArrivedBefore, QuoteCoversWindow,
                    EnactedWindowIsPriced, ServedOnlyWhilePaid, Determined

\* Every step keeps the invariant.
LEMMA NextKeeps == IInv /\ [Next]_vars => IInv'
<1> SUFFICES ASSUME IInv, [Next]_vars PROVE IInv' OBVIOUS
<1>1. CASE Tick BY <1>1, TickKeeps
<1>2. CASE \E r \in Rates : SetFeeRate(r) BY <1>2, SetFeeRateKeeps
<1>3. CASE \E g \in Given : Grant(g) BY <1>3, GrantKeeps
<1>4. CASE GrantStep
  <2>1. CASE Quote \/ QuoteValue \/ ValidatePrice \/ Build BY <2>1, QuotingKeeps
  <2>2. CASE Mine BY <2>2, MineKeeps
  <2>3. CASE QuoteRefused \/ PriceRefused \/ BuildFails \/ MineReverts
    BY <2>3, AbandonKeeps DEF QuoteRefused, PriceRefused, BuildFails, MineReverts
  <2> QED BY <1>4, <2>1, <2>2, <2>3 DEF GrantStep
<1>5. CASE \E h \in Handlers : Serve(h) \/ \E good \in BOOLEAN : Request(h, good)
  BY <1>5, ServeKeeps
<1>6. CASE UNCHANGED vars BY <1>6, StutterKeeps
<1> QED BY <1>1, <1>2, <1>3, <1>4, <1>5, <1>6 DEF Next

\* The invariant holds in every behaviour.
LEMMA InvHolds == Spec => []IInv
BY InitInv, NextKeeps, PTL DEF Spec

-----------------------------------------------------------------------------
(* The theorems.                                                           *)

\* A quote from consistent parameters ends when it should and is for the time in
\* between, whatever time and fee rate do while quote() computes it.
THEOREM QuotesAreRight == Spec => []QuoteCoversWindow
<1>1. IInv => QuoteCoversWindow BY DEF IInv
<1> QED BY <1>1, InvHolds, PTL

\* The contract never enacts a window that the price does not fit, unless the fee
\* rate has changed between validate_price and the transaction, for whatever
\* parameters: only the contract's test of the value protects Alice here.
THEOREM WindowsArePriced == Spec => []EnactedWindowIsPriced
<1>1. IInv => EnactedWindowIsPriced BY DEF IInv
<1> QED BY <1>1, InvHolds, PTL

\* Ursula re-encrypts only in requests during which the policy was active, for any
\* number of REST threads and renewals.
THEOREM NothingWithoutPayment == Spec => []ServedOnlyWhilePaid
<1>1. IInv => ServedOnlyWhilePaid BY DEF IInv
<1> QED BY <1>1, InvHolds, PTL
=============================================================================
