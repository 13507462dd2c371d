----------------------------- MODULE PolicyTerms -----------------------------
(***************************************************************************)
(* What a policy on the chain costs, when it runs, and what Ursula does with  *)
(* it: Alice gets a quote from the payment method, validates its price and    *)
(* pays; time passes and the fee rate changes between any two of these steps; *)
(* Ursula's REST threads serve POST /reencrypt if the policy is active.       *)
(*                                                                         *)
(* The SubscriptionManager contract is not part of the repository; it is     *)
(* modelled from how payment.py and its tests use it.  A time or a duration   *)
(* of 0 is one that is not given, since the code tests them for truth only.   *)
(***************************************************************************)
EXTENDS Integers

CONSTANTS
    MaxTime,    \* bound: the last moment
    MaxGrants,  \* bound: grants of the policy
    Rates,      \* fee rates per share and unit of time
    Shares,     \* n
    Handlers    \* REST threads of an Ursula

ASSUME TermsAssumption ==
    /\ MaxTime \in Nat \ {0} /\ MaxGrants \in Nat /\ Shares \in Nat \ {0}
    /\ Rates \subseteq Nat \ {0}

VARIABLES
    now,        \* the clock of Alice, of Ursula and of the chain
    feeRate,    \* of the contract
    preset,     \* Alice's own duration and rate
    stage,      \* where Alice's grant is
    given,      \* what the caller of grant gives
    quote,      \* the quote
    grants,     \* grants so far
    policy,     \* the policy in the contract
    handler     \* the requests that Ursula serves

alice == <<preset, stage, given, quote, grants>>
vars == <<now, feeRate, alice, policy, handler>>

-----------------------------------------------------------------------------
Times == 0..MaxTime
Durations == {-1} \cup Times
Stages == {"idle", "quote", "value", "validate", "build", "mine"}

NoRate == -1
GivenRates == {NoRate, 0} \cup Rates

Given == [commencement : Times, expiration : Times, duration : Durations, rate : GivenRates]
NoGiven == [commencement |-> 0, expiration |-> 0, duration |-> 0, rate |-> NoRate]

\* `checked` is the rate with which validate_price compared the value.
NoQuote == [commencement |-> 0, expiration |-> 0, duration |-> 0, rate |-> 0, value |-> 0, checked |-> 0]

\* `paid` is the rate in force when the policy was paid for.
NoPolicy == [start |-> 0, end |-> 0, duration |-> 0, checked |-> 0, paid |-> 0]

\* A request: where its handler is, when it came, and whether its key fragment
\* can be decrypted and verified.
NoRequest == [at |-> "idle", arrived |-> 0, good |-> TRUE]

\* The types; what has been quoted passed the checks of quote(), and a policy in
\* the contract begins before it ends.
TypeOK ==
    /\ now \in 1..MaxTime /\ feeRate \in Rates
    /\ preset \in [duration : Times, rate : GivenRates]
    /\ stage \in Stages /\ given \in Given /\ grants \in 0..MaxGrants
    /\ quote \in [commencement : Int, expiration : Times, duration : Int, rate : Nat, value : Int,
                  checked : Nat]
    /\ (stage # "quote" => given.duration \in Times /\ given.rate \in {NoRate, 0})
    /\ policy.start \in Int /\ policy.end \in Times /\ (policy # NoPolicy => policy.start < policy.end)
    /\ handler \in [Handlers ->
           [at : {"idle", "decrypt", "verify", "reencrypt", "record"}, arrived : Times, good : BOOLEAN]]

Init ==
    /\ now = 1 /\ feeRate \in Rates
    /\ preset \in [duration : {0, 1}, rate : {NoRate}] \cup [duration : {0}, rate : Rates]
    /\ stage = "idle" /\ given = NoGiven /\ quote = NoQuote /\ grants = 0
    /\ policy = NoPolicy
    /\ handler = [h \in Handlers |-> NoRequest]

Tick ==
    /\ now < MaxTime
    /\ now' = now + 1
    /\ UNCHANGED <<feeRate, alice, policy, handler>>

\* The owner of the contract sets another fee rate.
SetFeeRate(r) ==
    /\ r # feeRate
    /\ feeRate' = r
    /\ UNCHANGED <<now, alice, policy, handler>>

-----------------------------------------------------------------------------
(* Alice: generate_policy_parameters, quote, validate_price, pay.           *)

Or(a, b) == IF a # 0 THEN a ELSE b

\* The caller's parameters are merged with Alice's own.
Grant(g) ==
    /\ stage = "idle" /\ grants < MaxGrants
    /\ g.duration # 0 \/ g.expiration # 0
    /\ given' = [g EXCEPT !.duration = Or(@, preset.duration),
                           !.rate = IF @ # NoRate THEN @ ELSE preset.rate]
    /\ stage' = "quote"
    /\ grants' = grants + 1
    /\ UNCHANGED <<now, feeRate, preset, quote, policy, handler>>

\* Any exception ends the grant.
Abandon ==
    /\ stage' = "idle" /\ given' = NoGiven /\ quote' = NoQuote
    /\ UNCHANGED <<now, feeRate, preset, grants, policy, handler>>

\* The rate is the contract's, and nothing may be negative.
Invalid(g) == g.rate \in Rates \/ g.duration < 0

QuoteRefused == stage = "quote" /\ Invalid(given) /\ Abandon

\* Seeded fault: a policy that has an end and a duration starts now.
CommencementNow(g) == Or(g.commencement, now)

\* Without a beginning, the policy starts its duration before its end, or now.
Commencement(g) ==
    IF g.commencement # 0 THEN g.commencement
    ELSE IF g.expiration # 0 /\ g.duration # 0 THEN g.expiration - g.duration
    ELSE now

Duration(g) == IF g.duration # 0 THEN g.duration ELSE g.expiration - Commencement(g)

\* quote() asks the contract for the rate once for the record ...
Quote ==
    /\ stage = "quote" /\ ~Invalid(given)
    /\ quote' = [commencement |-> Commencement(given), expiration |-> given.expiration,
                 duration |-> Duration(given), rate |-> feeRate, value |-> 0, checked |-> 0]
    /\ stage' = "value"
    /\ UNCHANGED <<now, feeRate, preset, given, grants, policy, handler>>

\* ... and once more for the value.
QuoteValue ==
    /\ stage = "value"
    /\ quote' = [quote EXCEPT !.value = feeRate * quote.duration * Shares]
    /\ stage' = "validate"
    /\ UNCHANGED <<now, feeRate, preset, given, grants, policy, handler>>

Price == Shares * quote.duration * feeRate

ValidatePrice ==
    /\ stage = "validate" /\ quote.value = Price
    /\ quote' = [quote EXCEPT !.checked = feeRate]
    /\ stage' = "build"
    /\ UNCHANGED <<now, feeRate, preset, given, grants, policy, handler>>

PriceRefused == stage = "validate" /\ quote.value # Price /\ Abandon

\* Seeded fault: the contract does not compare the value with the window.
AcceptsAnyWindow(q) ==
    q.commencement < q.expiration /\ now < q.expiration /\ policy.end <= now

\* createPolicy of the SubscriptionManager.
Accepts(q) ==
    /\ q.commencement < q.expiration /\ now < q.expiration
    /\ policy.end <= now
    /\ q.value = feeRate * Shares * (q.expiration - q.commencement)

\* The transaction is built: an end that is not given or a negative number
\* cannot be encoded, and the gas estimate fails on what would be reverted.
Build ==
    /\ stage = "build" /\ Accepts(quote) /\ quote.commencement >= 0
    /\ stage' = "mine"
    /\ UNCHANGED <<now, feeRate, preset, given, quote, grants, policy, handler>>

BuildFails == stage = "build" /\ ~(Accepts(quote) /\ quote.commencement >= 0) /\ Abandon

Mine ==
    /\ stage = "mine" /\ Accepts(quote)
    /\ policy' = [start |-> quote.commencement, end |-> quote.expiration,
                  duration |-> quote.duration, checked |-> quote.checked, paid |-> feeRate]
    /\ stage' = "idle" /\ given' = NoGiven /\ quote' = NoQuote
    /\ UNCHANGED <<now, feeRate, preset, grants, handler>>

MineReverts == stage = "mine" /\ ~Accepts(quote) /\ Abandon

-----------------------------------------------------------------------------
(* Ursula: POST /reencrypt.                                                *)

At(h, place) == handler[h].at = place
Go(h, place) ==
    /\ handler' = [handler EXCEPT ![h] = IF place = "idle" THEN NoRequest ELSE [@ EXCEPT !.at = place]]
    /\ UNCHANGED <<now, feeRate, alice, policy>>

\* Nothing puts a policy into revoked_policies: POST /revoke does nothing.
Request(h, good) ==
    /\ At(h, "idle")
    /\ handler' = [handler EXCEPT ![h] = [at |-> "decrypt", arrived |-> now, good |-> good]]
    /\ UNCHANGED <<now, feeRate, alice, policy>>

DecryptKfrag(h) == At(h, "decrypt") /\ Go(h, IF handler[h].good THEN "verify" ELSE "idle")

\* Seeded fault: the payment is not enforced.
VerifyNothing(h) == At(h, "verify") /\ Go(h, "reencrypt")

\* is_policy_active; the call may fail.
Verify(h) == At(h, "verify") /\ policy.end > now /\ Go(h, "reencrypt")
PaymentRequired(h) == At(h, "verify") /\ policy.end <= now /\ Go(h, "idle")
CallFails(h) == At(h, "verify") /\ Go(h, "idle")

\* The fragments are made, the evidence is stored, and they are sent; the
\* datastore may fail.
Reencrypt(h) == At(h, "reencrypt") /\ Go(h, "record")
Record(h) == At(h, "record") /\ Go(h, "idle")

-----------------------------------------------------------------------------
GrantStep ==
    \/ QuoteRefused \/ Quote \/ QuoteValue \/ ValidatePrice \/ PriceRefused
    \/ Build \/ BuildFails \/ Mine \/ MineReverts

Serve(h) ==
    \/ DecryptKfrag(h) \/ Verify(h) \/ PaymentRequired(h) \/ CallFails(h)
    \/ Reencrypt(h) \/ Record(h)

Next ==
    \/ Tick \/ \E r \in Rates : SetFeeRate(r)
    \/ \E g \in Given : Grant(g)
    \/ GrantStep
    \/ \E h \in Handlers : Serve(h) \/ \E good \in BOOLEAN : Request(h, good)

Spec == Init /\ [][Next]_vars

-----------------------------------------------------------------------------
(* Properties.                                                             *)

\* The parameters leave nothing open and do not contradict each other: an end, and
\* not both a beginning and a duration, which may be Alice's own.
Determined(g) == g.expiration # 0 /\ (g.commencement = 0 \/ g.duration = 0)

\* A quote for such parameters is for the window that the caller asked for: it
\* ends when it should, and the price is for the time in between.  Others get a
\* quote too, whose price and window need not agree: quote(), payment.py.
\* (With TypeOK, on which it rests.)
QuoteCoversWindow ==
    /\ TypeOK
    /\ stage \in {"value", "validate", "build", "mine"} /\ Determined(given) =>
          /\ quote.expiration = given.expiration
          /\ quote.commencement + quote.duration = quote.expiration

\* A window that the price does not fit, which validate_price cannot tell, is not
\* enacted, unless the fee rate has changed since validate_price.
EnactedWindowIsPriced ==
    policy.paid = policy.checked => policy.end - policy.start = policy.duration

\* Ursula makes fragments only in a request during which the policy was active,
\* whatever expires, is renewed or is refused while she serves it: POST
\* /reencrypt, server.py.
ServedOnlyWhilePaid ==
    \A h \in Handlers : handler[h].at \in {"reencrypt", "record"} => policy.end > handler[h].arrived
=============================================================================
