---------------------------- MODULE PaymentMatching ----------------------------
(***************************************************************************)
(* Amounts as decimal strings (amount.util.ts), the StellarVerifier that   *)
(* matches Horizon's operations with a payment, what the reconciler makes  *)
(* of its verdict, and the customer's lifetime value.  A string of the     *)
(* decimal pattern is its integer part and the sequence of its fraction    *)
(* digits: "1.50" and "1.5" are different strings of one number.           *)
(***************************************************************************)
EXTENDS Integers, Sequences, FiniteSets

CONSTANTS
    Malformed,         \* any string the decimal pattern refuses
    Integrals, Digits, \* integer parts and fraction digits of the amounts used
    MaxPlaces,         \* longest fraction used
    Precision          \* decimal places a currency may have

VARIABLES
    target,    \* the payment asked for, or NoTarget
    records,   \* what Horizon returned, newest first
    verdict,   \* what the reconciler made of it
    lifetime,  \* the customer's lifetimeValue
    before     \* history: lifetimeValue before the payment

matchingVars == <<target, records, verdict, lifetime, before>>

NoTarget == [amount |-> Malformed]

Currencies == {"USDC", "EURC", "XLM"}  \* PaymentCurrencyDto

ASSUME DigitsAssumption == Integrals \subseteq Nat /\ Digits \subseteq 0..9
ASSUME PlacesAssumption == MaxPlaces \in Nat /\ MaxPlaces >= 2

-----------------------------------------------------------------------------
(* Decimal strings *)

Decimals == [int : Integrals, frac : UNION {[1..n -> Digits] : n \in 0..MaxPlaces}]
Decimal(int, frac) == [int |-> int, frac |-> frac]
Zero == Decimal(0, <<>>)

decimalPlaces(v) == Len(v.frac)

(* The most places an amount here has: an operation may show one zero more. *)
Places == MaxPlaces + 1

pow10[n \in 0..Places] == IF n = 0 THEN 1 ELSE 10 * pow10[n - 1]

(* padEnd and BigInt: the value times ten to the precision *)
scale(v, p) ==
    LET digit(i) == IF i <= Len(v.frac) THEN v.frac[i] ELSE 0
        read[i \in 0..p] == IF i = 0 THEN v.int ELSE 10 * read[i - 1] + digit(i)
    IN read[p]

(* Digits of a scaled number, without its trailing zeros. *)
descaleAndNormalize(n, p) ==
    LET digit(i) == (n \div pow10[p - i]) % 10
        last == CHOOSE k \in 0..p : /\ \A i \in (k + 1)..p : digit(i) = 0
                                    /\ k > 0 => digit(k) # 0
    IN Decimal(n \div pow10[p], [i \in 1..last |-> digit(i)])

CommonPlaces(a, b) == IF decimalPlaces(a) > decimalPlaces(b) THEN decimalPlaces(a)
                                                             ELSE decimalPlaces(b)

addDecimalStrings(a, b) ==
    LET p == CommonPlaces(a, b) IN descaleAndNormalize(scale(a, p) + scale(b, p), p)

(* Mutant: the digits are compared without a common scale. *)
compareUnscaled(a, b) ==
    LET x == scale(a, decimalPlaces(a))
        y == scale(b, decimalPlaces(b))
    IN IF x < y THEN -1 ELSE IF x > y THEN 1 ELSE 0

compareDecimalStrings(a, b) ==
    LET p == CommonPlaces(a, b)
        x == scale(a, p)
        y == scale(b, p)
    IN IF x < y THEN -1 ELSE IF x > y THEN 1 ELSE 0

isValidDecimalString(v) ==
    /\ v # Malformed
    /\ ~(v.int = 0 /\ \A i \in DOMAIN v.frac : v.frac[i] = 0)

(* An integer passes before the maximum is looked at. *)
checkPrecision(v, max) == decimalPlaces(v) = 0 \/ decimalPlaces(v) <= max

(* undefined for an unknown currency, which no number of places is below *)
currencyMaxPrecision(currency) == IF currency \in Currencies THEN Precision ELSE -1

isValidPaymentAmount(v, currency) ==
    isValidDecimalString(v) /\ checkPrecision(v, currencyMaxPrecision(currency))

(* IsPaymentAmountConstraint lets an integer of an unknown currency pass; *)
(* IsEnum refuses that currency, and with it the body.                    *)
validate(v, currency) == isValidPaymentAmount(v, currency)
Accepted(v, currency) == validate(v, currency) /\ currency \in Currencies

-----------------------------------------------------------------------------
(* StellarVerifier *)

expectedIssuer(currency, environment) ==
    IF currency = "XLM" THEN <<"no issuer">> ELSE <<currency, environment>>

(* The checks in the order of the code, each with its code and whether it fails. *)
Check(code, fails) == [code |-> code, fails |-> fails]
Checks(r) ==
    LET comparison == compareDecimalStrings(r.amount, target.amount)
    IN << Check("tx_unsuccessful", ~r.successful),
          Check("wrong_destination", r.to # target.to),
          Check("wrong_asset", r.code # target.currency),
          Check("wrong_issuer",
                r.issuer # expectedIssuer(target.currency, target.environment)),
          Check("insufficient_amount", comparison = -1),
          Check("wrong_amount", comparison = 1),
          Check("memo_mismatch", r.memo # target.memo),
          Check("duplicate_hash", r.foreign),
          Check("expired", r.late) >>

FirstFailure(checks) ==
    LET failed == {i \in DOMAIN checks : checks[i].fails}
    IN IF failed = {} THEN "ok" ELSE checks[CHOOSE i \in failed : \A j \in failed : i <= j].code

(* Mutant: the destination is compared last. *)
checkRecordDestinationLast(r) == FirstFailure(Tail(Tail(Checks(r))) \o SubSeq(Checks(r), 1, 2))

checkRecord(r) == FirstFailure(Checks(r))

Hits(page) == {i \in DOMAIN page : page[i].successful /\ page[i].memo = target.memo}

(* The newest successful operation with the memo decides, valid or not. *)
verify(page) ==
    IF Hits(page) = {} THEN "no_match"
    ELSE checkRecord(page[CHOOSE i \in Hits(page) : \A j \in Hits(page) : i <= j])

updateCustomerAggregates ==
    IF target.currency = "USDC" THEN addDecimalStrings(lifetime, target.amount) ELSE lifetime

(* reconcilePayment: what becomes of the payment *)
Outcome(code) ==
    CASE code = "ok" -> "confirmed"
      [] code = "expired" -> "expired"
      [] code \in {"wrong_asset", "wrong_issuer", "insufficient_amount", "wrong_amount"} -> "failed"
      [] code = "duplicate_hash" -> "skipped"
      [] OTHER -> "no_match"

-----------------------------------------------------------------------------
(* Steps *)

MatchingInit ==
    /\ target = NoTarget
    /\ records = <<>>
    /\ verdict = "none"
    /\ lifetime \in {Zero} \cup {Decimal(n, <<9>>) : n \in Integrals \ {0}}
    /\ before = lifetime

Create(amount, currency) ==
    /\ target = NoTarget /\ verdict = "none"
    /\ Accepted(amount, currency)
    /\ target' = [amount |-> amount, currency |-> currency, environment |-> "live",
                   to |-> "own", memo |-> "own"]
    /\ UNCHANGED <<records, verdict, lifetime, before>>

(* The DTO refuses the body. *)
RefuseAmount(amount, currency) ==
    /\ target = NoTarget /\ verdict = "none"
    /\ ~Accepted(amount, currency)
    /\ verdict' = "refused"
    /\ UNCHANGED <<target, records, lifetime, before>>

(* An operation as the payment asks for it, but for the fields in wrong. *)
Operation(amount, wrong) ==
    LET is(field, right, other) == IF field \in wrong THEN other ELSE right
    IN [successful |-> "successful" \notin wrong,
        memo |-> is("memo", "own", "other"),
        to |-> is("to", "own", "other"),
        code |-> is("code", target.currency, "OTHER"),
        issuer |-> is("issuer", expectedIssuer(target.currency, target.environment),
                        <<"other">>),
        amount |-> amount,
        foreign |-> "foreign" \in wrong,
        late |-> "late" \in wrong]

Fields == {"successful", "memo", "to", "code", "issuer", "foreign", "late"}
Flaws == {wrong \in SUBSET Fields : Cardinality(wrong) <= 2}

(* The amount asked for, the same with another zero, less and more. *)
NearAmounts ==
    LET a == target.amount
    IN {a, Decimal(a.int, Append(a.frac, 0)), Decimal(a.int + 1, a.frac), Decimal(0, <<0, 0, 1>>)}

(* Operations Horizon may return, newest first; an older one is in order. *)
Newests == {Operation(a, wrong) : a \in NearAmounts, wrong \in Flaws}
           \cup {Operation(a, {}) : a \in Decimals}
Pages == {<<>>} \cup {<<r>> : r \in Newests}
         \cup {<<r, Operation(target.amount, {})>> : r \in Newests}

Asked == target # NoTarget /\ verdict = "none"

(* The payment is completed and added to its customer if it was asked in USDC. *)
ReconcileWith(page) ==
    /\ Asked
    /\ records' = page
    /\ verdict' = Outcome(verify(page))
    /\ lifetime' = IF verdict' = "confirmed" THEN updateCustomerAggregates ELSE lifetime
    /\ UNCHANGED <<target, before>>

MatchingNext ==
    \/ \E a \in Decimals \cup {Malformed}, c \in Currencies \cup {"BTC"} :
          Create(a, c) \/ RefuseAmount(a, c)
    \/ Asked /\ \E page \in Pages : ReconcileWith(page)

MatchingSpec == MatchingInit /\ [][MatchingNext]_matchingVars

-----------------------------------------------------------------------------
(* Properties *)

(* The number a decimal string denotes, in units no amount here is finer than. *)
Value(v) ==
    LET sum[i \in 0..Len(v.frac)] == IF i = 0 THEN v.int * pow10[Places]
                                     ELSE sum[i - 1] + v.frac[i] * pow10[Places - i]
    IN sum[Len(v.frac)]

(* Amounts of different scale, with zeros to spare on either side, compare and    *)
(* add up as the numbers they denote; a sum is written without idle zeros, so     *)
(* equal totals are equal strings; and what a payment asks for is more than zero. *)
AmountsAgree ==
    /\ target # NoTarget => Value(target.amount) > 0
    /\ \A i \in DOMAIN records :
          LET a == records[i].amount
              b == target.amount
              sum == addDecimalStrings(a, b)
          IN /\ compareDecimalStrings(a, b) = 0 <=> Value(a) = Value(b)
             /\ compareDecimalStrings(a, b) = -1 <=> Value(a) < Value(b)
             /\ Value(sum) = Value(a) + Value(b)
             /\ sum.frac # <<>> => sum.frac[Len(sum.frac)] # 0
    /\ Value(lifetime) = Value(before)
                         + (IF verdict = "confirmed" /\ target.currency = "USDC"
                            THEN Value(target.amount) ELSE 0)

(* A payment is confirmed by an operation only if it moved exactly its amount of  *)
(* its own asset to its address in time and for no other payment, fails only on   *)
(* money of the wrong kind or amount that did arrive for it, and expires only on  *)
(* money that came late; an operation for someone else never decides.             *)
Decider == records[CHOOSE i \in Hits(records) : \A j \in Hits(records) : i <= j]
Pays(r) == /\ r.to = target.to
           /\ r.code = target.currency
           /\ r.issuer = expectedIssuer(target.currency, target.environment)
           /\ Value(r.amount) = Value(target.amount)
VerdictIsEarned ==
    /\ verdict = "confirmed" => Hits(records) # {} /\ Pays(Decider)
                                /\ ~Decider.foreign /\ ~Decider.late
    /\ verdict = "failed" => Hits(records) # {} /\ Decider.to = target.to /\ ~Pays(Decider)
    /\ verdict = "expired" => Hits(records) # {} /\ Pays(Decider) /\ Decider.late
    /\ verdict = "no_match" => Hits(records) = {} \/ Decider.to # target.to
=============================================================================
