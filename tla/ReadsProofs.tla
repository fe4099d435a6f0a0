------------------------------ MODULE ReadsProofs ------------------------------
(***************************************************************************)
(* For every value of the constants: the pages a client collects are       *)
(* complete and in order, the reconciler's verdict on a payment is earned  *)
(* by the operation that decided it, and a merchant's verdict on a request *)
(* depends on its age and on the secret of the row it was made from.       *)
(***************************************************************************)
EXTENDS Pagination, PaymentMatching, WebhookSigning,
        FiniteSetTheorems, SequenceTheorems, WellFoundedInduction, TLAPS

-----------------------------------------------------------------------------
(* Signed requests *)

(* A request made from the event shows what the event recorded. *)
FromEvent(r) ==
  r.kind = "event" => /\ r.body.object.status = event.data.status
                      /\ r.body.object.createdAt # "null"
                      /\ r.body.type = event.type

(* As long as each rotation was answered before the next, only the last one's answer *)
(* may be under way; if it is not, the merchant was shown the secret of the row.     *)
SerialOK ==
  serial => \/ unanswered = {} /\ shown = endpoint.encrypted.secret
            \/ unanswered = {endpoint.encrypted.secret}

(* What an attempt remembers of the moment it loaded the row. *)
LoadedOK(a) == a.settled => a.shown = a.endpoint.encrypted.secret

(* The header bears the time of the signature and the secret of the row loaded. *)
RequestOK(r) ==
  /\ r.at \in 1..now
  /\ r.header.t = r.at /\ r.header.v1 = <<r.loaded, r.at, r.body>>
  /\ r.settled => r.shown = r.loaded
  /\ FromEvent(r)

Judged(r) ==
  /\ r.ok <=> r.at - r.request.at <= Tolerance /\ r.request.loaded = r.shown
  /\ r.request.settled => r.request.shown = r.request.loaded
  /\ r.kind = r.request.kind /\ FromEvent(r.request)

(* Whatever key the envelope is encrypted with, it holds the secret on display. *)
SigningInv ==
  /\ now \in Nat \ {0}
  /\ endpoint.secretLastFour = lastFour(endpoint.encrypted.secret)
  /\ SerialOK
  /\ attempt # NoRequest => LoadedOK(attempt)
  /\ sent # NoRequest => RequestOK(sent)
  /\ received # NoRequest => Judged(received)

LEMMA SigningInitOK ==
  ASSUME SigningInit
  PROVE  SigningInv
  BY DEF SigningInit, SigningInv, SerialOK, encryptSecret

(* Neither the row that is loaded nor what is remembered with it need be of now, *)
(* but they are of one moment.                                                   *)
LEMMA LoadKeeps ==
  ASSUME SigningInv, NEW kind \in {"event", "test"}, LoadEndpoint(kind)
  PROVE  SigningInv'
<1>1. /\ attempt' = [kind |-> kind, endpoint |-> endpoint,
                     shown |-> shown, settled |-> serial /\ unanswered = {}]
      /\ received' = NoRequest /\ UNCHANGED <<secrets, event, now, sent>>
  BY DEF LoadEndpoint
<1>2. serial /\ unanswered = {} => shown = endpoint.encrypted.secret
  BY DEF SigningInv, SerialOK
<1>3. LoadedOK(attempt')
  BY <1>1, <1>2 DEF LoadedOK
<1>4. sent # NoRequest => RequestOK(sent)'
  BY <1>1 DEF SigningInv, RequestOK, FromEvent
<1>5. SerialOK' /\ LoadedOK(attempt)'
  BY <1>1, <1>3 DEF SigningInv, SerialOK, LoadedOK, secrets
<1> QED BY <1>1, <1>4, <1>5 DEF SigningInv, secrets

(* What is sent is signed with the secret of the row loaded, now, and shows the event. *)
LEMMA SendSignedKeeps ==
  ASSUME SigningInv, SendSigned
  PROVE  SigningInv'
<1> DEFINE opened == decrypt(attempt.endpoint.encrypted)
           body == Payload(attempt.kind)
           secret == attempt.endpoint.encrypted.secret
           request == [kind |-> attempt.kind, body |-> body, at |-> now,
                       header |-> buildHeaders(opened.secret, body).signature,
                       loaded |-> secret, shown |-> attempt.shown, settled |-> attempt.settled]
<1>1. /\ attempt # NoRequest /\ attempt' = NoRequest
      /\ sent' = IF opened = Rejected THEN NoRequest ELSE request
      /\ UNCHANGED <<secrets, event, now, received>>
  BY DEF SendSigned
<1>2. opened # Rejected => opened.secret = secret
  BY DEF decrypt, decryptSecret
<1>3. attempt.kind = "event" => /\ body.object.status = event.data.status
                                /\ body.object.createdAt # "null" /\ body.type = event.type
  BY DEF Payload, buildWebhookPayload, snapshotToPayment
<1>4. attempt.settled => attempt.shown = secret
  BY <1>1 DEF SigningInv, LoadedOK
<1> HIDE DEF opened, body, secret
<1>5. ASSUME opened # Rejected
      PROVE  RequestOK(sent)'
  <2>1. request.header = [t |-> now, v1 |-> <<secret, now, body>>]
    BY <1>2, <1>5 DEF buildHeaders, sign, signWebhookPayload
  <2>2. sent' = request /\ now' = now /\ event' = event
    BY <1>1, <1>5
  <2>3. now \in 1..now
    BY DEF SigningInv
  <2> QED BY <1>3, <1>4, <2>1, <2>2, <2>3 DEF RequestOK, FromEvent
<1>6. sent' # NoRequest => RequestOK(sent)'
  BY <1>1, <1>5
<1>7. received # NoRequest => Judged(received)'
  BY <1>1 DEF SigningInv, Judged, FromEvent
<1>8. SerialOK'
  BY <1>1 DEF SigningInv, SerialOK, secrets
<1> QED BY <1>1, <1>6, <1>7, <1>8 DEF SigningInv, secrets

(* The merchant's check is a check of the age and of the secret. *)
LEMMA ReceiveKeeps ==
  ASSUME SigningInv, ReceiveSigned
  PROVE  SigningInv'
<1> DEFINE ok == verifyWebhookSignature(sent.header, shown, sent.body)
<1>1. /\ sent # NoRequest /\ sent' = NoRequest
      /\ received' = [kind |-> sent.kind, request |-> sent, at |-> now, shown |-> shown, ok |-> ok]
      /\ UNCHANGED <<secrets, event, now, attempt>>
  BY DEF ReceiveSigned
<1>2. RequestOK(sent)
  BY <1>1 DEF SigningInv
<1>3. sent.header.t = sent.at /\ sent.at \in Nat \ {0} /\ sent.at <= now /\ now \in Nat
  BY <1>2 DEF RequestOK, SigningInv
<1>4. Distance(now, sent.at) = now - sent.at
  BY <1>3 DEF Distance
<1>5. sent.header.v1 = signWebhookPayload(shown, sent.at, sent.body).v1 <=> sent.loaded = shown
  BY <1>2 DEF RequestOK, signWebhookPayload
<1>6. ok <=> now - sent.at <= Tolerance /\ sent.loaded = shown
  BY <1>3, <1>4, <1>5 DEF verifyWebhookSignature
<1>7. FromEvent(sent) /\ (sent.settled => sent.shown = sent.loaded)
  BY <1>2 DEF RequestOK
<1> HIDE DEF ok
<1>8. Judged(received)'
  BY <1>1, <1>6, <1>7 DEF Judged, FromEvent
<1>9. SerialOK' /\ (attempt # NoRequest => LoadedOK(attempt)')
  BY <1>1 DEF SigningInv, SerialOK, LoadedOK, secrets
<1> QED BY <1>1, <1>8, <1>9 DEF SigningInv, secrets

(* A redeployment, a rotation or its answer: what is under way is not touched. *)
LEMMA SecretsKeep ==
  ASSUME SigningInv, SerialOK', attempt' \in {attempt, NoRequest},
         endpoint'.secretLastFour = lastFour(endpoint'.encrypted.secret),
         UNCHANGED <<event, now, sent, received>>
  PROVE  SigningInv'
<1>1. attempt' # NoRequest => LoadedOK(attempt)'
  BY DEF SigningInv, LoadedOK
<1>2. sent # NoRequest => RequestOK(sent)'
  BY DEF SigningInv, RequestOK, FromEvent
<1>3. received # NoRequest => Judged(received)'
  BY DEF SigningInv, Judged, FromEvent
<1> QED BY <1>1, <1>2, <1>3 DEF SigningInv

(* What is on display is of the row, what an attempt signs with is of the row it loaded, *)
(* and as long as rotations are answered one by one the merchant is one answer behind.   *)
THEOREM SigningInvariance == SigningSpec => []SigningInv
<1>1. SigningInv /\ [SigningNext]_signingVars => SigningInv'
  <2> SUFFICES ASSUME SigningInv, [SigningNext]_signingVars
               PROVE  SigningInv'
    OBVIOUS
  <2>1. CASE Redeploy
    <3>1. /\ unanswered' \in SUBSET unanswered /\ serial' = (serial /\ unanswered' = unanswered)
          /\ attempt' = NoRequest /\ UNCHANGED <<endpoint, shown, event, now, sent, received>>
      BY <2>1 DEF Redeploy
    <3>2. SerialOK'
      BY <3>1 DEF SigningInv, SerialOK
    <3> QED BY <3>1, <3>2, SecretsKeep DEF SigningInv
  <2>2. CASE RotateSigningSecret
    <3> DEFINE secret == endpoint.encrypted.secret + 1
    <3>1. /\ endpoint' = [encrypted |-> encrypt(secret), secretLastFour |-> lastFour(secret)]
          /\ unanswered' = unanswered \cup {secret} /\ serial' = (serial /\ unanswered = {})
          /\ UNCHANGED <<shown, event, now, requests>>
      BY <2>2 DEF RotateSigningSecret
    <3>2. encrypt(secret).secret = secret
      BY DEF encrypt, encryptSecret
    <3> HIDE DEF secret
    <3>3. SerialOK'
      BY <3>1, <3>2 DEF SerialOK
    <3> QED BY <3>1, <3>2, <3>3, SecretsKeep DEF requests
  <2>3. CASE ShowSecret
    <3>1. PICK secret \in unanswered :
             /\ shown' = secret /\ unanswered' = unanswered \ {secret}
             /\ UNCHANGED <<endpoint, serial, event, now, requests>>
      BY <2>3 DEF ShowSecret
    <3>2. SerialOK'
      BY <3>1 DEF SigningInv, SerialOK
    <3> QED BY <3>1, <3>2, SecretsKeep DEF SigningInv, requests
  <2>4. CASE PaymentMoves
    BY <2>4, SecretsKeep DEF PaymentMoves, SigningInv, SerialOK, secrets, requests
  <2>5. CASE Elapse
    <3>1. now' = now + 1 /\ UNCHANGED <<secrets, event, requests>>
      BY <2>5 DEF Elapse
    <3>2. sent # NoRequest => RequestOK(sent)'
      BY <3>1 DEF SigningInv, RequestOK, FromEvent, requests
    <3>3. received # NoRequest => Judged(received)'
      BY <3>1 DEF SigningInv, Judged, FromEvent, requests
    <3>4. SerialOK' /\ (attempt # NoRequest => LoadedOK(attempt)')
      BY <3>1 DEF SigningInv, SerialOK, LoadedOK, secrets, requests
    <3> QED BY <3>1, <3>2, <3>3, <3>4 DEF SigningInv, secrets, requests
  <2>6. ASSUME NEW kind \in {"event", "test"}, LoadEndpoint(kind)
        PROVE  SigningInv'
    BY <2>6, LoadKeeps
  <2>7. CASE SendSigned
    BY <2>7, SendSignedKeeps
  <2>8. CASE ReceiveSigned
    BY <2>8, ReceiveKeeps
  <2>9. CASE UNCHANGED signingVars
    BY <2>9, SecretsKeep DEF signingVars, SigningInv, SerialOK, secrets, requests
  <2> QED BY <2>1, <2>2, <2>3, <2>4, <2>5, <2>6, <2>7, <2>8, <2>9 DEF SigningNext
<1> QED BY <1>1, SigningInitOK, PTL DEF SigningSpec

(* Whatever keys deployments are configured with, however rotations fall between the     *)
(* load of a row, its use and their own answers, and however far the payment has moved:  *)
(* a merchant accepts a request exactly if it is in time for its signature and the row   *)
(* its attempt loaded held the secret the merchant was shown last; a timely one for sure *)
(* if rotations were all answered when the row was loaded and none was since.            *)
THEOREM ReceivedVerifiesHolds == SigningSpec => []ReceivedVerifies
<1>1. SigningInv => ReceivedVerifies
  <2> SUFFICES ASSUME SigningInv, received # NoRequest
               PROVE  ReceivedVerifies
    BY DEF ReceivedVerifies
  <2>1. Judged(received)
    BY DEF SigningInv
  <2> QED BY <2>1 DEF SigningInv, Judged, FromEvent, ReceivedVerifies
<1> QED BY <1>1, SigningInvariance, PTL

-----------------------------------------------------------------------------
(* Least elements and sequences *)

(* Every nonempty set of numbers has a least one: induction without a predicate. *)
LEMMA Least ==
  ASSUME NEW S, S \subseteq Nat, S # {}
  PROVE  \E i \in S : \A j \in S : i <= j
<1>1. PICK i \in S : \A j \in S : ~ (<<j, i>> \in OpToRel(<, Nat))
  BY NatLessThanWellFounded, WFMin
<1>2. \A j \in S : ~ (j < i)
  BY <1>1 DEF OpToRel
<1> QED BY <1>2

LEMMA LenOf ==
  ASSUME NEW S, NEW n \in Nat, NEW s \in [1..n -> S]
  PROVE  s \in Seq(S) /\ Len(s) = n /\ DOMAIN s = 1..n
<1>1. s \in Seq(S)
  BY SeqDef
<1>2. Len(s) \in Nat /\ DOMAIN s = 1..Len(s)
  BY <1>1, LenProperties
<1>3. DOMAIN s = 1..n
  OBVIOUS
<1> QED BY <1>1, <1>2, <1>3

-----------------------------------------------------------------------------
(* Numbers read digit by digit *)

(* Induction up to n, over the set of numbers that have the property. *)
LEMMA UpTo ==
  ASSUME NEW n \in Nat, NEW S, 0 \in S, \A i \in 1..n : i - 1 \in S => i \in S
  PROVE  \A i \in 0..n : i \in S
<1> DEFINE None == {i \in 0..n : i \notin S}
<1> SUFFICES ASSUME None # {}
             PROVE  FALSE
  OBVIOUS
<1>1. None \subseteq Nat
  OBVIOUS
<1>2. PICK k \in None : \A i \in None : k <= i
  <2> HIDE DEF None
  <2> QED BY <1>1, Least
<1>3. k \in 1..n /\ k - 1 \in 0..n /\ k - 1 \notin None
  BY <1>2
<1> QED BY <1>2, <1>3

LEMMA Products ==
  ASSUME NEW m \in Nat, NEW n \in Nat
  PROVE  m * n \in Nat
  OBVIOUS

(* What a recursive function here computes, one step after the other. *)
Computes(x, n, first, factor, steps) ==
  /\ x \in [0..n -> Nat] /\ x[0] = first
  /\ \A i \in 1..n : x[i] = factor * x[i - 1] + steps[i]

LEMMA Computed ==
  ASSUME NEW n \in Nat, NEW first \in Nat, NEW factor \in Nat, NEW steps \in [1..n -> Nat]
  PROVE  \E x : Computes(x, n, first, factor, steps)
<1> DEFINE Goes(x, m) == /\ x[0] = first
                         /\ \A i \in 1..m : x[i] = factor * x[i - 1] + steps[i]
           S == {m \in 0..n : \E x \in [0..m -> Nat] : Goes(x, m)}
<1>1. 0 \in S
  <2> DEFINE x == [i \in 0..0 |-> first]
  <2>1. x \in [0..0 -> Nat] /\ x[0] = first
    OBVIOUS
  <2> HIDE DEF x
  <2>2. Goes(x, 0)
    BY <2>1
  <2> QED BY <2>1, <2>2
<1>2. ASSUME NEW m \in 1..n, m - 1 \in S
      PROVE  m \in S
  <2>1. PICK y \in [0..(m - 1) -> Nat] : Goes(y, m - 1)
    BY <1>2
  <2> DEFINE x == [i \in 0..m |-> IF i = m THEN factor * y[m - 1] + steps[m] ELSE y[i]]
  <2>2. factor * y[m - 1] + steps[m] \in Nat
    <3>1. y[m - 1] \in Nat /\ steps[m] \in Nat
      OBVIOUS
    <3>2. factor * y[m - 1] \in Nat
      BY <3>1, Products
    <3> HIDE DEF Goes
    <3> QED BY <3>1, <3>2
  <2>3. x \in [0..m -> Nat]
    <3>1. \A i \in 0..m : i # m => y[i] \in Nat
      OBVIOUS
    <3> QED BY <2>2, <3>1
  <2>4. x[m] = factor * y[m - 1] + steps[m] /\ \A i \in 0..(m - 1) : x[i] = y[i]
    OBVIOUS
  <2> HIDE DEF x
  <2>5. x[0] = first
    BY <2>1, <2>4
  <2>6. ASSUME NEW i \in 1..m
        PROVE  x[i] = factor * x[i - 1] + steps[i]
    <3>1. CASE i = m
      BY <2>4, <3>1
    <3>2. CASE i # m
      <4>1. i \in 1..(m - 1) /\ i \in 0..(m - 1) /\ i - 1 \in 0..(m - 1)
        BY <3>2
      <4> QED BY <2>1, <2>4, <4>1
    <3> QED BY <3>1, <3>2
  <2>7. Goes(x, m)
    BY <2>5, <2>6
  <2> HIDE DEF Goes
  <2> QED BY <2>3, <2>7
<1> HIDE DEF S
<1>3. n \in S
  <2>1. n \in 0..n
    OBVIOUS
  <2>2. \A i \in 0..n : i \in S
    BY <1>1, <1>2, UpTo
  <2> QED BY <2>1, <2>2
<1> QED BY <1>3 DEF S, Computes

LEMMA PlacesIs == Places \in Nat /\ MaxPlaces \in Nat /\ Places = MaxPlaces + 1 /\ Places >= 3
  BY PlacesAssumption DEF Places

LEMMA PowersAre ==
  /\ pow10[0] = 1
  /\ \A n \in 1..Places : pow10[n] = 10 * pow10[n - 1]
  /\ \A n \in 0..Places : pow10[n] \in Nat \ {0}
<1> DEFINE Power(f) == f = [n \in 0..Places |-> IF n = 0 THEN 1 ELSE 10 * f[n - 1]]
<1>1. \E f : Power(f)
  <2> DEFINE none == [i \in 1..Places |-> 0]
  <2>1. none \in [1..Places -> Nat] /\ \A i \in 1..Places : none[i] = 0
    OBVIOUS
  <2> HIDE DEF none
  <2>2. PICK x : Computes(x, Places, 1, 10, none)
    BY <2>1, PlacesIs, Computed
  <2>3. ASSUME NEW n \in 0..Places
        PROVE  x[n] = IF n = 0 THEN 1 ELSE 10 * x[n - 1]
    <3>1. CASE n = 0
      BY <2>2, <3>1 DEF Computes
    <3>2. CASE n # 0
      <4>1. n \in 1..Places /\ n - 1 \in 0..Places /\ x[n - 1] \in Nat
        <5>1. n \in 1..Places /\ n - 1 \in 0..Places
          BY <3>2, PlacesIs
        <5> QED BY <2>2, <5>1 DEF Computes
      <4>2. x[n] = 10 * x[n - 1] + 0
        BY <2>1, <2>2, <4>1 DEF Computes
      <4> QED BY <3>2, <4>1, <4>2
    <3> QED BY <3>1, <3>2
  <2>4. Power(x)
    BY <2>2, <2>3 DEF Computes
  <2> QED BY <2>4
<1>2. pow10 = CHOOSE f : Power(f)
  BY DEF pow10
<1> HIDE DEF Power
<1>3. Power(pow10)
  BY <1>1, <1>2
<1>4. pow10[0] = 1 /\ \A n \in 1..Places : pow10[n] = 10 * pow10[n - 1]
  BY <1>3, PlacesIs DEF Power
<1> DEFINE S == {n \in 0..Places : pow10[n] \in Nat \ {0}}
<1>5. 0 \in S /\ \A i \in 1..Places : i - 1 \in S => i \in S
  BY <1>4, PlacesIs
<1> HIDE DEF S
<1>6. \A i \in 0..Places : i \in S
  BY <1>5, PlacesIs, UpTo
<1> QED BY <1>4, <1>6 DEF S

(* x reads a number digit by digit, s adds up the weights of its first l digits; when *)
(* the digits after those are zero, both arrive at the same number.                   *)
LEMMA Weighs ==
  ASSUME NEW p \in 0..Places, NEW l \in 0..p,
         NEW x \in [0..p -> Nat], NEW s \in [0..l -> Nat], NEW d \in [1..p -> Nat],
         s[0] = x[0] * pow10[Places],
         \A i \in 1..p : x[i] = 10 * x[i - 1] + d[i],
         \A i \in 1..l : s[i] = s[i - 1] + d[i] * pow10[Places - i],
         \A i \in (l + 1)..p : d[i] = 0
  PROVE  s[l] = x[p] * pow10[Places - p]
<1> DEFINE value(i) == x[i] * pow10[Places - i]
           S == {i \in 0..p : (i <= l => s[i] = value(i)) /\ (i > l => s[l] = value(i))}
<1>1. 0 \in S
  BY PlacesIs
<1>2. ASSUME NEW i \in 1..p, i - 1 \in S
      PROVE  i \in S
  <2> DEFINE t == pow10[Places - i]
             y == x[i - 1]
  <2>1. /\ t \in Nat /\ pow10[Places - (i - 1)] = 10 * t
        /\ y \in Nat /\ d[i] \in Nat /\ x[i] = 10 * y + d[i]
    <3>1. Places - i \in 0..Places /\ Places - (i - 1) \in 1..Places
          /\ (Places - (i - 1)) - 1 = Places - i /\ i - 1 \in 0..p /\ i \in 1..p
      BY PlacesIs
    <3> QED BY <3>1, PowersAre
  <2> HIDE DEF t, y
  <2>2. value(i - 1) = y * (10 * t) /\ value(i) = x[i] * t
    BY <2>1 DEF t, y
  <2>3. value(i) = value(i - 1) + d[i] * t
    <3>1. (10 * y + d[i]) * t = y * (10 * t) + d[i] * t
      BY <2>1
    <3> QED BY <2>1, <2>2, <3>1
  <2> HIDE DEF value
  <2>4. CASE i <= l
    <3>1. i \in 1..l /\ i - 1 <= l
      BY <2>4, PlacesIs
    <3>2. s[i] = s[i - 1] + d[i] * t /\ s[i - 1] = value(i - 1)
      BY <1>2, <3>1 DEF t
    <3> QED BY <2>3, <2>4, <3>2
  <2>5. CASE i > l
    <3>1. s[l] = value(i - 1)
      BY <1>2, <2>5, PlacesIs
    <3>2. d[i] * t = 0
      <4>1. d[i] = 0
        BY <2>5
      <4> QED BY <2>1, <4>1
    <3>3. value(i) = value(i - 1)
      <4>1. value(i - 1) \in Nat
        <5>1. y * (10 * t) \in Nat
          BY <2>1
        <5> QED BY <2>2, <5>1
      <4> QED BY <2>3, <3>2, <4>1
    <3> QED BY <2>5, <3>1, <3>3
  <2> QED BY <2>4, <2>5
<1> HIDE DEF S
<1>3. p \in S
  <2>1. p \in Nat /\ p \in 0..p
    BY PlacesIs
  <2> QED BY <1>1, <1>2, <2>1, UpTo
<1> QED BY <1>3 DEF S

(* The decimal strings of this model, and what their digits add up to. *)
Amount == [int : Nat, frac : UNION {[1..n -> 0..9] : n \in 0..Places}]

Sums(v, s) ==
  /\ s \in [0..Len(v.frac) -> Nat] /\ s[0] = v.int * pow10[Places]
  /\ \A i \in 1..Len(v.frac) : s[i] = s[i - 1] + v.frac[i] * pow10[Places - i]

LEMMA AmountIs ==
  ASSUME NEW v \in Amount
  PROVE  /\ v.int \in Nat /\ Len(v.frac) \in 0..Places /\ DOMAIN v.frac = 1..Len(v.frac)
         /\ \A i \in 1..Len(v.frac) : v.frac[i] \in 0..9
<1>1. PICK n \in 0..Places : v.frac \in [1..n -> 0..9] /\ v.int \in Nat
  BY DEF Amount
<1>2. n \in Nat
  BY PlacesIs
<1>3. Len(v.frac) = n /\ DOMAIN v.frac = 1..n
  BY <1>1, <1>2, LenOf
<1> QED BY <1>1, <1>3

LEMMA SumIs ==
  ASSUME NEW v \in Amount
  PROVE  \E s : Sums(v, s) /\ Value(v) = s[Len(v.frac)]
<1> DEFINE n == Len(v.frac)
           first == v.int * pow10[Places]
           steps == [i \in 1..n |-> v.frac[i] * pow10[Places - i]]
           Sum(s) == s = [i \in 0..n |-> IF i = 0 THEN first
                                         ELSE s[i - 1] + v.frac[i] * pow10[Places - i]]
           sum == CHOOSE s : Sum(s)
<1>1. n \in 0..Places /\ n \in Nat /\ v.int \in Nat /\ \A i \in 1..n : v.frac[i] \in Nat
  BY AmountIs, PlacesIs
<1>2. first \in Nat
  BY <1>1, PowersAre, PlacesIs, Products
<1>3. \A i \in 1..n : v.frac[i] * pow10[Places - i] \in Nat
  <2> SUFFICES ASSUME NEW i \in 1..n
               PROVE  v.frac[i] * pow10[Places - i] \in Nat
    OBVIOUS
  <2>1. Places - i \in 0..Places
    BY <1>1, PlacesIs
  <2> QED BY <1>1, <2>1, PowersAre, Products
<1>4. Value(v) = sum[n]
  BY DEF Value
<1> HIDE DEF first
<1>5. steps \in [1..n -> Nat] /\ \A i \in 1..n : steps[i] = v.frac[i] * pow10[Places - i]
  BY <1>3
<1> HIDE DEF n, steps
<1>6. PICK x : Computes(x, n, first, 1, steps)
  BY <1>1, <1>2, <1>5, Computed
<1>7. \A i \in 1..n : x[i] = x[i - 1] + steps[i]
  <2> SUFFICES ASSUME NEW i \in 1..n
               PROVE  x[i] = x[i - 1] + steps[i]
    OBVIOUS
  <2>1. x[i - 1] \in Nat /\ x[i] = 1 * x[i - 1] + steps[i]
    BY <1>1, <1>6 DEF Computes
  <2> QED BY <2>1
<1>8. Sum(x)
  BY <1>1, <1>5, <1>6, <1>7 DEF Computes
<1> HIDE DEF Sum
<1>9. Sum(sum)
  BY <1>8
<1> HIDE DEF sum
<1>10. sum \in [0..n -> Nat] /\ sum[0] = first
       /\ \A i \in 1..n : sum[i] = sum[i - 1] + v.frac[i] * pow10[Places - i]
  <2> DEFINE S == {i \in 0..n : sum[i] \in Nat}
  <2>1. /\ sum = [i \in 0..n |-> sum[i]] /\ sum[0] = first
        /\ \A i \in 1..n : sum[i] = sum[i - 1] + steps[i]
    <3>1. sum = [i \in 0..n |-> IF i = 0 THEN first ELSE sum[i - 1] + v.frac[i] * pow10[Places - i]]
      BY <1>9 DEF Sum
    <3>2. sum = [i \in 0..n |-> sum[i]] /\ sum[0] = first
      BY <1>1, <3>1
    <3>3. ASSUME NEW i \in 1..n
          PROVE  sum[i] = sum[i - 1] + steps[i]
      <4>1. i \in 0..n /\ i # 0
        BY <1>1
      <4>2. sum[i] = sum[i - 1] + v.frac[i] * pow10[Places - i]
        BY <3>1, <4>1
      <4> QED BY <1>5, <4>2
    <3> QED BY <3>2, <3>3
  <2>2. 0 \in S
    BY <1>1, <1>2, <2>1
  <2>3. ASSUME NEW i \in 1..n, i - 1 \in S
        PROVE  i \in S
    <3>1. steps[i] \in Nat /\ i \in 0..n /\ sum[i - 1] \in Nat
      BY <1>1, <1>5, <2>3
    <3>2. sum[i] = sum[i - 1] + steps[i]
      BY <2>1
    <3>3. sum[i] \in Nat
      BY <3>1, <3>2
    <3> QED BY <3>1, <3>3
  <2> HIDE DEF S
  <2>4. \A i \in 0..n : i \in S
    BY <1>1, <2>2, <2>3, UpTo
  <2>5. \A i \in 0..n : sum[i] \in Nat
    BY <2>4 DEF S
  <2> QED BY <1>5, <2>1, <2>5
<1>11. Sums(v, sum)
  BY <1>10 DEF Sums, first, n
<1> QED BY <1>4, <1>11 DEF n

(* A fraction padded with zeros reads as the same number. *)
LEMMA ScaleIs ==
  ASSUME NEW v \in Amount, NEW p \in Len(v.frac)..Places
  PROVE  scale(v, p) \in Nat /\ scale(v, p) * pow10[Places - p] = Value(v)
<1> DEFINE l == Len(v.frac)
           d == [i \in 1..p |-> IF i <= l THEN v.frac[i] ELSE 0]
           Read(x) == x = [i \in 0..p |-> IF i = 0 THEN v.int
                             ELSE 10 * x[i - 1] + (IF i <= Len(v.frac) THEN v.frac[i] ELSE 0)]
           read == CHOOSE x : Read(x)
<1>1. l \in 0..p /\ l \in Nat /\ p \in 0..Places /\ p \in Nat /\ v.int \in Nat
      /\ \A i \in 1..l : v.frac[i] \in Nat
  <2>1. l \in 0..Places /\ v.int \in Nat /\ \A i \in 1..l : v.frac[i] \in 0..9
    BY AmountIs
  <2>2. p \in l..Places
    OBVIOUS
  <2> HIDE DEF l
  <2>3. \A i \in 1..l : v.frac[i] \in Nat
    BY <2>1
  <2> QED BY <2>1, <2>2, <2>3, PlacesIs
<1>2. scale(v, p) = read[p]
  BY DEF scale
<1>3. d \in [1..p -> Nat] /\ \A i \in 1..p : d[i] = IF i <= l THEN v.frac[i] ELSE 0
  BY <1>1
<1> HIDE DEF d
<1>4. PICK x : Computes(x, p, v.int, 10, d)
  BY <1>1, <1>3, Computed
<1>5. Read(x)
  <2>1. ASSUME NEW i \in 0..p
        PROVE  x[i] = IF i = 0 THEN v.int
                      ELSE 10 * x[i - 1] + (IF i <= Len(v.frac) THEN v.frac[i] ELSE 0)
    <3>1. CASE i = 0
      BY <1>4, <3>1 DEF Computes
    <3>2. CASE i # 0
      <4>1. i \in 1..p
        BY <3>2
      <4>2. x[i] = 10 * x[i - 1] + d[i]
        BY <1>4, <4>1 DEF Computes
      <4> QED BY <1>3, <3>2, <4>1, <4>2
    <3> QED BY <3>1, <3>2
  <2> QED BY <1>4, <2>1 DEF Computes
<1> HIDE DEF Read
<1>6. Read(read)
  BY <1>5
<1> HIDE DEF read
<1>7. read[0] = v.int /\ \A i \in 1..p : read[i] = 10 * read[i - 1] + d[i]
  <2>1. read = [i \in 0..p |-> IF i = 0 THEN v.int
                  ELSE 10 * read[i - 1] + (IF i <= l THEN v.frac[i] ELSE 0)]
    BY <1>6 DEF Read
  <2>2. read[0] = v.int
    BY <1>1, <2>1
  <2>3. ASSUME NEW i \in 1..p
        PROVE  read[i] = 10 * read[i - 1] + d[i]
    <3>1. i \in 0..p /\ i # 0
      BY <1>1
    <3>2. read[i] = 10 * read[i - 1] + (IF i <= l THEN v.frac[i] ELSE 0)
      BY <2>1, <3>1
    <3> QED BY <1>3, <3>2
  <2> QED BY <2>2, <2>3
<1>8. \A i \in 0..p : read[i] \in Nat
  <2> DEFINE S == {i \in 0..p : read[i] \in Nat}
  <2>1. 0 \in S
    BY <1>1, <1>7
  <2>2. ASSUME NEW i \in 1..p, i - 1 \in S
        PROVE  i \in S
    <3>1. d[i] \in Nat /\ i \in 0..p /\ read[i - 1] \in Nat
      BY <1>1, <1>3, <2>2
    <3>2. read[i] = 10 * read[i - 1] + d[i]
      BY <1>7
    <3>3. read[i] \in Nat
      BY <3>1, <3>2
    <3> QED BY <3>1, <3>3
  <2> HIDE DEF S
  <2>3. \A i \in 0..p : i \in S
    BY <1>1, <2>1, <2>2, UpTo
  <2> QED BY <2>3 DEF S
<1>9. read \in [0..p -> Nat]
  <2>1. read = [i \in 0..p |-> read[i]]
    BY <1>6 DEF Read
  <2> QED BY <1>8, <2>1
<1>10. PICK s : Sums(v, s) /\ Value(v) = s[l]
  BY SumIs
<1>11. /\ s \in [0..l -> Nat] /\ s[0] = read[0] * pow10[Places]
       /\ \A i \in 1..l : s[i] = s[i - 1] + d[i] * pow10[Places - i]
       /\ \A i \in (l + 1)..p : d[i] = 0
  <2>1. \A i \in 1..l : i \in 1..p /\ d[i] = v.frac[i]
    BY <1>1, <1>3
  <2>2. \A i \in (l + 1)..p : i \in 1..p /\ d[i] = 0
    BY <1>1, <1>3
  <2> HIDE DEF l
  <2> QED BY <1>7, <1>10, <2>1, <2>2 DEF Sums, l
<1> HIDE DEF l
<1>12. s[l] = read[p] * pow10[Places - p]
  BY <1>1, <1>3, <1>7, <1>9, <1>11, Weighs
<1>13. read[p] \in Nat
  BY <1>1, <1>8
<1> QED BY <1>2, <1>10, <1>12, <1>13

LEMMA Division ==
  ASSUME NEW n \in Nat, NEW d \in Nat \ {0}
  PROVE  n \div d \in Nat /\ d * (n \div d) <= n /\ n < d * ((n \div d) + 1)
  OBVIOUS

LEMMA Quotient ==
  ASSUME NEW n \in Nat, NEW d \in Nat \ {0}, NEW q \in Nat, d * q <= n, n < d * (q + 1)
  PROVE  n \div d = q
<1> DEFINE r == n \div d
<1>1. r \in Nat /\ d * r <= n /\ n < d * (r + 1)
  BY Division
<1> HIDE DEF r
<1>2. CASE r < q
  <2>1. d * (r + 1) <= d * q
    BY <1>1, <1>2
  <2> QED BY <1>1, <2>1
<1>3. CASE q < r
  <2>1. d * (q + 1) <= d * r
    BY <1>1, <1>3
  <2> QED BY <1>1, <2>1
<1> QED BY <1>1, <1>2, <1>3 DEF r

(* One digit more or less. *)
LEMMA TenTimes ==
  ASSUME NEW n \in Nat, NEW d \in Nat \ {0}
  PROVE  n \div d = 10 * (n \div (10 * d)) + ((n \div d) % 10)
<1> DEFINE q == n \div d
           r == q \div 10
<1>1. q \in Nat /\ d * q <= n /\ n < d * (q + 1)
  BY Division
<1> HIDE DEF q
<1>2. r \in Nat /\ q = 10 * r + (q % 10) /\ q % 10 \in 0..9
  BY <1>1
<1> HIDE DEF r
<1>3. (10 * d) * r <= n
  <2>1. d * (10 * r) <= d * q
    BY <1>1, <1>2
  <2> QED BY <1>1, <1>2, <2>1
<1>4. n < (10 * d) * (r + 1)
  <2>1. d * (q + 1) <= d * (10 * (r + 1))
    BY <1>1, <1>2
  <2> QED BY <1>1, <1>2, <2>1
<1>5. n \div (10 * d) = r
  BY <1>2, <1>3, <1>4, Quotient
<1> QED BY <1>2, <1>5 DEF q

(* A scaled number is written as the decimal string it is, without idle zeros. *)
LEMMA DescaleIs ==
  ASSUME NEW n \in Nat, NEW p \in 0..Places
  PROVE  LET v == descaleAndNormalize(n, p)
         IN  /\ v \in Amount /\ Value(v) = n * pow10[Places - p]
             /\ v.frac # <<>> => v.frac[Len(v.frac)] # 0
<1> DEFINE digit(i) == (n \div pow10[p - i]) % 10
           Idle(k) == (\A i \in (k + 1)..p : digit(i) = 0) /\ (k > 0 => digit(k) # 0)
           last == CHOOSE k \in 0..p : Idle(k)
           v == descaleAndNormalize(n, p)
           d == [i \in 1..p |-> digit(i)]
           q == [i \in 0..p |-> n \div pow10[p - i]]
<1>1. v = [int |-> n \div pow10[p], frac |-> [i \in 1..last |-> digit(i)]]
  BY DEF descaleAndNormalize, Decimal
<1>2. p \in Nat /\ \A i \in 0..p : p - i \in 0..Places /\ pow10[p - i] \in Nat \ {0}
  BY PlacesIs, PowersAre
<1>3. \A i \in 0..p : n \div pow10[p - i] \in Nat
  BY <1>2, Division
<1>4. \A i \in 1..p : digit(i) \in 0..9
  BY <1>3
<1>5. \A i \in 1..p : n \div pow10[p - i] = 10 * (n \div pow10[p - (i - 1)]) + digit(i)
  <2> SUFFICES ASSUME NEW i \in 1..p
               PROVE  n \div pow10[p - i] = 10 * (n \div pow10[p - (i - 1)]) + digit(i)
    OBVIOUS
  <2>1. p - (i - 1) \in 1..Places /\ (p - (i - 1)) - 1 = p - i /\ i \in 0..p
    BY <1>2, PlacesIs
  <2>2. pow10[p - (i - 1)] = 10 * pow10[p - i] /\ pow10[p - i] \in Nat \ {0}
    BY <1>2, <2>1, PowersAre
  <2> QED BY <2>2, TenTimes
<1> HIDE DEF digit, v
<1>6. d \in [1..p -> Nat] /\ \A i \in 1..p : d[i] = digit(i)
  BY <1>4
<1>7. /\ q \in [0..p -> Nat] /\ q[0] = n \div pow10[p]
      /\ \A i \in 1..p : q[i] = 10 * q[i - 1] + d[i]
  <2>1. q \in [0..p -> Nat] /\ \A i \in 0..p : q[i] = n \div pow10[p - i]
    BY <1>3
  <2>2. p - 0 = p /\ 0 \in 0..p /\ \A i \in 1..p : i \in 0..p /\ i - 1 \in 0..p
    BY <1>2
  <2> HIDE DEF d, q
  <2> QED BY <1>5, <1>6, <2>1, <2>2
<1>8. q[p] = n
  <2>1. q[p] = n \div pow10[p - p] /\ p - p = 0
    BY <1>2
  <2>2. n \div 1 = n
    OBVIOUS
  <2> QED BY <2>1, <2>2, PowersAre
<1> HIDE DEF d, q
<1>9. last \in 0..p /\ Idle(last)
  <2> DEFINE Zeros == {k \in 0..p : \A i \in (k + 1)..p : digit(i) = 0}
  <2>1. p \in Zeros /\ Zeros \subseteq Nat
    BY <1>2
  <2> HIDE DEF Zeros
  <2>2. PICK k \in Zeros : \A j \in Zeros : k <= j
    BY <2>1, Least
  <2>3. k \in 0..p /\ \A i \in (k + 1)..p : digit(i) = 0
    BY DEF Zeros
  <2>4. ASSUME k > 0, digit(k) = 0
        PROVE  FALSE
    <3>1. k - 1 \in 0..p /\ ~(k <= k - 1)
      BY <1>2, <2>3, <2>4
    <3>2. \A i \in ((k - 1) + 1)..p : digit(i) = 0
      <4>1. \A i \in ((k - 1) + 1)..p : i = k \/ i \in (k + 1)..p
        BY <1>2, <2>3
      <4> QED BY <2>3, <2>4, <4>1
    <3>3. k - 1 \in Zeros
      BY <3>1, <3>2 DEF Zeros
    <3> QED BY <2>2, <3>1, <3>3
  <2>5. Idle(k)
    BY <2>3, <2>4
  <2> HIDE DEF Idle
  <2> QED BY <2>3, <2>5
<1> HIDE DEF last
<1>10. last \in 0..Places /\ last \in Nat
  BY <1>2, <1>9, PlacesIs
<1>11. v.frac \in [1..last -> 0..9] /\ v.int = q[0] /\ \A i \in 1..last : v.frac[i] = d[i]
  <2>1. \A i \in 1..last : i \in 1..p
    BY <1>2, <1>9
  <2> QED BY <1>1, <1>4, <1>6, <1>7, <2>1
<1>12. Len(v.frac) = last /\ DOMAIN v.frac = 1..last
  BY <1>10, <1>11, LenOf
<1>13. v \in Amount
  <2>1. v.int \in Nat
    BY <1>2, <1>7, <1>11
  <2>2. v.frac \in UNION {[1..m -> 0..9] : m \in 0..Places}
    BY <1>10, <1>11
  <2> QED BY <1>1, <2>1, <2>2 DEF Amount
<1>14. PICK s : Sums(v, s) /\ Value(v) = s[last]
  BY <1>12, <1>13, SumIs
<1>15. /\ s \in [0..last -> Nat] /\ s[0] = q[0] * pow10[Places]
       /\ \A i \in 1..last : s[i] = s[i - 1] + d[i] * pow10[Places - i]
  BY <1>11, <1>12, <1>14 DEF Sums
<1>16. \A i \in (last + 1)..p : d[i] = 0
  <2>1. \A i \in (last + 1)..p : i \in 1..p
    BY <1>2, <1>9
  <2> QED BY <1>6, <1>9, <2>1
<1>17. s[last] = q[p] * pow10[Places - p]
  <2>1. last \in 0..p
    BY <1>9
  <2> HIDE DEF Idle
  <2> QED BY <1>6, <1>7, <1>15, <1>16, <2>1, Weighs
<1>18. v.frac # <<>> => v.frac[Len(v.frac)] # 0
  <2>1. CASE last = 0
    <3>1. v.frac = <<>>
      BY <1>1, <2>1
    <3> QED BY <3>1
  <2>2. CASE last # 0
    <3>1. last > 0 /\ last \in 1..last /\ last \in 1..p
      BY <1>2, <1>9, <2>2
    <3> QED BY <1>6, <1>9, <1>11, <1>12, <3>1
  <2> QED BY <2>1, <2>2
<1> QED BY <1>8, <1>13, <1>14, <1>17, <1>18 DEF v

LEMMA CommonPlacesIs ==
  ASSUME NEW a \in Amount, NEW b \in Amount
  PROVE  LET p == CommonPlaces(a, b)
         IN  p \in Len(a.frac)..Places /\ p \in Len(b.frac)..Places /\ p \in 0..Places
  BY AmountIs, PlacesIs DEF CommonPlaces, decimalPlaces

LEMMA ValueIsNat ==
  ASSUME NEW v \in Amount
  PROVE  Value(v) \in Nat
<1>1. PICK s : Sums(v, s) /\ Value(v) = s[Len(v.frac)]
  BY SumIs
<1>2. Len(v.frac) \in 0..Len(v.frac)
  BY AmountIs, PlacesIs
<1> QED BY <1>1, <1>2 DEF Sums

(* A string with a digit that is not zero denotes more than zero. *)
LEMMA ValidIsPositive ==
  ASSUME NEW v \in Amount, isValidDecimalString(v)
  PROVE  Value(v) > 0
<1> DEFINE l == Len(v.frac)
<1>1. PICK s : Sums(v, s) /\ Value(v) = s[l]
  BY SumIs
<1>2. /\ l \in 0..Places /\ l \in Nat /\ v.int \in Nat /\ DOMAIN v.frac = 1..l
      /\ \A i \in 1..l : /\ v.frac[i] \in Nat /\ Places - i \in 0..Places
                         /\ pow10[Places - i] \in Nat \ {0}
  <2>1. /\ l \in 0..Places /\ v.int \in Nat /\ DOMAIN v.frac = 1..l
        /\ \A i \in 1..l : v.frac[i] \in 0..9
    BY AmountIs
  <2> HIDE DEF l
  <2>2. l \in Nat /\ \A i \in 1..l : v.frac[i] \in Nat /\ Places - i \in 0..Places
    BY <2>1, PlacesIs
  <2> QED BY <2>1, <2>2, PowersAre
<1>3. /\ s \in [0..l -> Nat] /\ s[0] = v.int * pow10[Places]
      /\ \A i \in 1..l : s[i] = s[i - 1] + v.frac[i] * pow10[Places - i]
  BY <1>1 DEF Sums
<1> HIDE DEF l
<1> DEFINE S == {i \in 0..l : s[i] = 0 => v.int = 0 /\ \A j \in 1..i : v.frac[j] = 0}
<1>4. 0 \in S
  <2>1. pow10[Places] \in Nat \ {0}
    BY PlacesIs, PowersAre
  <2>2. s[0] = 0 => v.int = 0
    BY <1>2, <1>3, <2>1
  <2> QED BY <1>2, <2>2
<1>5. ASSUME NEW i \in 1..l, i - 1 \in S
      PROVE  i \in S
  <2> SUFFICES ASSUME s[i] = 0
               PROVE  v.int = 0 /\ \A j \in 1..i : v.frac[j] = 0
    BY <1>2
  <2>1. v.frac[i] * pow10[Places - i] \in Nat
    BY <1>2, Products
  <2>2. s[i - 1] \in Nat /\ s[i - 1] + v.frac[i] * pow10[Places - i] = 0
    BY <1>2, <1>3
  <2>3. s[i - 1] = 0 /\ v.frac[i] * pow10[Places - i] = 0
    BY <2>1, <2>2
  <2>4. v.frac[i] = 0
    <3>1. v.frac[i] \in Nat /\ pow10[Places - i] \in Nat \ {0}
      BY <1>2
    <3> QED BY <2>3, <3>1
  <2>5. \A j \in 1..i : j = i \/ j \in 1..(i - 1)
    BY <1>2
  <2> QED BY <1>5, <2>3, <2>4, <2>5
<1> HIDE DEF S
<1>6. l \in S
  <2>1. l \in 0..l
    BY <1>2
  <2> QED BY <1>2, <1>4, <1>5, <2>1, UpTo
<1>7. s[l] # 0
  BY <1>2, <1>6 DEF S, isValidDecimalString
<1>8. Value(v) \in Nat
  BY ValueIsNat
<1> QED BY <1>1, <1>7, <1>8 DEF l

LEMMA TimesOrders ==
  ASSUME NEW x \in Nat, NEW y \in Nat, NEW k \in Nat \ {0}
  PROVE  (x * k < y * k <=> x < y) /\ (x * k = y * k <=> x = y)
  OBVIOUS

(* Comparison at the common scale is that of the numbers. *)
LEMMA CompareIs ==
  ASSUME NEW a \in Amount, NEW b \in Amount
  PROVE  /\ compareDecimalStrings(a, b) \in {-1, 0, 1}
         /\ compareDecimalStrings(a, b) = 0 <=> Value(a) = Value(b)
         /\ compareDecimalStrings(a, b) = -1 <=> Value(a) < Value(b)
<1> DEFINE p == CommonPlaces(a, b)
           x == scale(a, p)
           y == scale(b, p)
           k == pow10[Places - p]
<1>1. p \in Len(a.frac)..Places /\ p \in Len(b.frac)..Places /\ p \in 0..Places
  BY CommonPlacesIs
<1>2. compareDecimalStrings(a, b) = IF x < y THEN -1 ELSE IF x > y THEN 1 ELSE 0
  BY DEF compareDecimalStrings
<1> HIDE DEF p
<1>3. x \in Nat /\ x * k = Value(a) /\ y \in Nat /\ y * k = Value(b)
  BY <1>1, ScaleIs
<1>4. k \in Nat \ {0}
  BY <1>1, PlacesIs, PowersAre
<1> HIDE DEF x, y, k
<1>5. (Value(a) < Value(b) <=> x < y) /\ (Value(a) = Value(b) <=> x = y)
  BY <1>3, <1>4, TimesOrders
<1> QED BY <1>2, <1>3, <1>5

(* Addition at the common scale is that of the numbers. *)
LEMMA AddIs ==
  ASSUME NEW a \in Amount, NEW b \in Amount
  PROVE  LET sum == addDecimalStrings(a, b)
         IN  /\ sum \in Amount /\ Value(sum) = Value(a) + Value(b)
             /\ sum.frac # <<>> => sum.frac[Len(sum.frac)] # 0
<1> DEFINE p == CommonPlaces(a, b)
           x == scale(a, p)
           y == scale(b, p)
           k == pow10[Places - p]
           sum == descaleAndNormalize(x + y, p)
<1>1. p \in Len(a.frac)..Places /\ p \in Len(b.frac)..Places /\ p \in 0..Places
  BY CommonPlacesIs
<1>2. addDecimalStrings(a, b) = sum
  BY DEF addDecimalStrings
<1> HIDE DEF p
<1>3. x \in Nat /\ x * k = Value(a) /\ y \in Nat /\ y * k = Value(b)
  BY <1>1, ScaleIs
<1>4. k \in Nat \ {0}
  BY <1>1, PlacesIs, PowersAre
<1> HIDE DEF x, y
<1>5. /\ sum \in Amount /\ Value(sum) = (x + y) * k
      /\ sum.frac # <<>> => sum.frac[Len(sum.frac)] # 0
  <2>1. x + y \in Nat
    BY <1>3
  <2> QED BY <1>1, <2>1, DescaleIs
<1> HIDE DEF k, sum
<1>6. (x + y) * k = x * k + y * k
  BY <1>3, <1>4
<1> QED BY <1>2, <1>3, <1>5, <1>6

-----------------------------------------------------------------------------
(* Verdicts *)

(* The first check that fails, as the code makes them one after the other. *)
LEMMA FirstFailureIs ==
  ASSUME NEW checks, DOMAIN checks \subseteq Nat
  PROVE  \/ /\ FirstFailure(checks) = "ok"
            /\ \A i \in DOMAIN checks : ~ checks[i].fails
         \/ \E i \in DOMAIN checks : /\ FirstFailure(checks) = checks[i].code
                                     /\ checks[i].fails
                                     /\ \A j \in DOMAIN checks : j < i => ~ checks[j].fails
<1> DEFINE failed == {i \in DOMAIN checks : checks[i].fails}
           first == CHOOSE i \in failed : \A j \in failed : i <= j
<1>1. CASE failed = {}
  BY <1>1 DEF FirstFailure
<1>2. CASE failed # {}
  <2>1. \E i \in failed : \A j \in failed : i <= j
    BY <1>2, Least
  <2>2. first \in failed /\ \A j \in failed : first <= j
    BY <2>1
  <2>3. FirstFailure(checks) = checks[first].code
    BY <1>2 DEF FirstFailure
  <2> HIDE DEF first
  <2>4. \A j \in DOMAIN checks : j < first => ~ checks[j].fails
    BY <2>2
  <2> QED BY <2>2, <2>3, <2>4
<1> QED BY <1>1, <1>2

LEMMA CheckIs ==
  ASSUME NEW code, NEW fails \in BOOLEAN
  PROVE  Check(code, fails).code = code /\ (Check(code, fails).fails <=> fails)
  BY DEF Check

(* What each verdict of the verifier says of the operation. *)
LEMMA CheckRecordIs ==
  ASSUME NEW r, r.foreign \in BOOLEAN, r.late \in BOOLEAN
  PROVE  LET code == checkRecord(r)
             comparison == compareDecimalStrings(r.amount, target.amount)
             ours == r.successful /\ r.to = target.to
             asset == r.code = target.currency
                      /\ r.issuer = expectedIssuer(target.currency, target.environment)
             paid == ours /\ asset /\ comparison \notin {-1, 1} /\ r.memo = target.memo
         IN  \/ code = "ok" /\ paid /\ ~r.foreign /\ ~r.late
             \/ code = "expired" /\ paid /\ ~r.foreign /\ r.late
             \/ code = "duplicate_hash"
             \/ /\ code \in {"wrong_asset", "wrong_issuer", "insufficient_amount", "wrong_amount"}
                /\ ours /\ ~(asset /\ comparison \notin {-1, 1})
             \/ code = "tx_unsuccessful" /\ ~r.successful
             \/ code = "wrong_destination" /\ r.to # target.to
             \/ code = "memo_mismatch" /\ r.memo # target.memo
<1> DEFINE checks == Checks(r)
           comparison == compareDecimalStrings(r.amount, target.amount)
           issuer == expectedIssuer(target.currency, target.environment)
<1>1. /\ DOMAIN checks = 1..9
      /\ checks[1] = Check("tx_unsuccessful", ~r.successful)
      /\ checks[2] = Check("wrong_destination", r.to # target.to)
      /\ checks[3] = Check("wrong_asset", r.code # target.currency)
      /\ checks[4] = Check("wrong_issuer", r.issuer # issuer)
      /\ checks[5] = Check("insufficient_amount", comparison = -1)
      /\ checks[6] = Check("wrong_amount", comparison = 1)
      /\ checks[7] = Check("memo_mismatch", r.memo # target.memo)
      /\ checks[8] = Check("duplicate_hash", r.foreign)
      /\ checks[9] = Check("expired", r.late)
  BY DEF Checks
<1>2. checkRecord(r) = FirstFailure(checks)
  BY DEF checkRecord
<1> HIDE DEF checks, comparison, issuer
<1>3. /\ checks[1].code = "tx_unsuccessful" /\ (checks[1].fails <=> ~r.successful)
      /\ checks[2].code = "wrong_destination" /\ (checks[2].fails <=> r.to # target.to)
      /\ checks[3].code = "wrong_asset" /\ (checks[3].fails <=> r.code # target.currency)
      /\ checks[4].code = "wrong_issuer" /\ (checks[4].fails <=> r.issuer # issuer)
      /\ checks[5].code = "insufficient_amount" /\ (checks[5].fails <=> comparison = -1)
      /\ checks[6].code = "wrong_amount" /\ (checks[6].fails <=> comparison = 1)
      /\ checks[7].code = "memo_mismatch" /\ (checks[7].fails <=> r.memo # target.memo)
      /\ checks[8].code = "duplicate_hash" /\ (checks[8].fails <=> r.foreign)
      /\ checks[9].code = "expired" /\ (checks[9].fails <=> r.late)
  <2>1. checks[1].code = "tx_unsuccessful" /\ (checks[1].fails <=> ~r.successful)
    <3>1. checks[1] = Check("tx_unsuccessful", ~r.successful)
      BY <1>1
    <3> QED BY <3>1, CheckIs
  <2>2. checks[2].code = "wrong_destination" /\ (checks[2].fails <=> r.to # target.to)
    <3>1. checks[2] = Check("wrong_destination", r.to # target.to)
      BY <1>1
    <3> QED BY <3>1, CheckIs
  <2>3. checks[3].code = "wrong_asset" /\ (checks[3].fails <=> r.code # target.currency)
    <3>1. checks[3] = Check("wrong_asset", r.code # target.currency)
      BY <1>1
    <3> QED BY <3>1, CheckIs
  <2>4. checks[4].code = "wrong_issuer" /\ (checks[4].fails <=> r.issuer # issuer)
    <3>1. checks[4] = Check("wrong_issuer", r.issuer # issuer)
      BY <1>1
    <3> QED BY <3>1, CheckIs
  <2>5. checks[5].code = "insufficient_amount" /\ (checks[5].fails <=> comparison = -1)
    <3>1. checks[5] = Check("insufficient_amount", comparison = -1)
      BY <1>1
    <3> QED BY <3>1, CheckIs
  <2>6. checks[6].code = "wrong_amount" /\ (checks[6].fails <=> comparison = 1)
    <3>1. checks[6] = Check("wrong_amount", comparison = 1)
      BY <1>1
    <3> QED BY <3>1, CheckIs
  <2>7. checks[7].code = "memo_mismatch" /\ (checks[7].fails <=> r.memo # target.memo)
    <3>1. checks[7] = Check("memo_mismatch", r.memo # target.memo)
      BY <1>1
    <3> QED BY <3>1, CheckIs
  <2>8. checks[8].code = "duplicate_hash" /\ (checks[8].fails <=> r.foreign)
    <3>1. checks[8] = Check("duplicate_hash", r.foreign)
      BY <1>1
    <3> QED BY <3>1, CheckIs
  <2>9. checks[9].code = "expired" /\ (checks[9].fails <=> r.late)
    <3>1. checks[9] = Check("expired", r.late)
      BY <1>1
    <3> QED BY <3>1, CheckIs
  <2> QED BY <2>1, <2>2, <2>3, <2>4, <2>5, <2>6, <2>7, <2>8, <2>9
<1>4. DOMAIN checks \subseteq Nat
  BY <1>1
<1>5. CASE FirstFailure(checks) = "ok" /\ \A i \in 1..9 : ~ checks[i].fails
  BY <1>2, <1>3, <1>5 DEF comparison, issuer
<1>6. ASSUME NEW i \in 1..9, FirstFailure(checks) = checks[i].code, checks[i].fails,
             \A j \in 1..9 : j < i => ~ checks[j].fails
      PROVE  LET code == checkRecord(r)
                 ours == r.successful /\ r.to = target.to
                 asset == r.code = target.currency /\ r.issuer = issuer
                 paid == ours /\ asset /\ comparison \notin {-1, 1} /\ r.memo = target.memo
             IN  \/ code = "expired" /\ paid /\ ~r.foreign /\ r.late
                 \/ code = "duplicate_hash"
                 \/ /\ code \in {"wrong_asset", "wrong_issuer", "insufficient_amount", "wrong_amount"}
                    /\ ours /\ ~(asset /\ comparison \notin {-1, 1})
                 \/ code = "tx_unsuccessful" /\ ~r.successful
                 \/ code = "wrong_destination" /\ r.to # target.to
                 \/ code = "memo_mismatch" /\ r.memo # target.memo
  BY <1>2, <1>3, <1>6
<1>7. \/ FirstFailure(checks) = "ok" /\ \A i \in 1..9 : ~ checks[i].fails
      \/ \E i \in 1..9 : /\ FirstFailure(checks) = checks[i].code
                         /\ checks[i].fails
                         /\ \A j \in 1..9 : j < i => ~ checks[j].fails
  BY <1>1, <1>4, FirstFailureIs
<1> QED BY <1>5, <1>6, <1>7 DEF comparison, issuer

Operations(page) ==
  /\ DOMAIN page \subseteq Nat
  /\ \A i \in DOMAIN page : /\ page[i].amount \in Amount
                            /\ page[i].foreign \in BOOLEAN /\ page[i].late \in BOOLEAN

(* What the payment adds to the total of its customer. *)
Earned == IF verdict = "confirmed" /\ target.currency = "USDC" THEN Value(target.amount) ELSE 0

(* The verdict is the one of the operations read, and the customer's total follows it. *)
MatchingInv ==
  /\ target # NoTarget => target.amount \in Decimals /\ isValidDecimalString(target.amount)
  /\ Operations(records) /\ (records # <<>> => target # NoTarget)
  /\ verdict \notin {"none", "refused"} =>
       target # NoTarget /\ verdict = Outcome(verify(records))
  /\ lifetime \in Amount /\ before \in Amount
  /\ Value(lifetime) = Value(before) + Earned

LEMMA DecimalsAreAmounts ==
  ASSUME NEW v \in Decimals
  PROVE  /\ v \in Amount /\ v = Decimal(v.int, v.frac) /\ v.int \in Nat
         /\ \E n \in 0..MaxPlaces : v.frac \in [1..n -> 0..9]
<1>1. PICK n \in 0..MaxPlaces : v.frac \in [1..n -> Digits]
  BY DEF Decimals
<1>2. n \in 0..Places /\ v.frac \in [1..n -> 0..9]
  <2>1. n \in 0..Places
    BY PlacesIs
  <2>2. v.frac \in [1..n -> 0..9]
    BY <1>1, DigitsAssumption
  <2> QED BY <2>1, <2>2
<1>3. v.int \in Nat /\ v = [int |-> v.int, frac |-> v.frac]
  BY DigitsAssumption DEF Decimals
<1> QED BY <1>1, <1>2, <1>3 DEF Amount, Decimal

LEMMA AmountFrom ==
  ASSUME NEW int \in Nat, NEW n \in 0..Places, NEW frac \in [1..n -> 0..9]
  PROVE  Decimal(int, frac) \in Amount
  BY DEF Amount, Decimal

LEMMA NearAmountsAreAmounts ==
  ASSUME target.amount \in Decimals
  PROVE  NearAmounts \subseteq Amount
<1> DEFINE a == target.amount
<1>1. PICK n \in 0..MaxPlaces : a.frac \in [1..n -> 0..9]
  BY DecimalsAreAmounts
<1>2. a \in Amount /\ a.int \in Nat /\ a.int + 1 \in Nat
  BY DecimalsAreAmounts
<1>3. n \in Nat /\ n \in 0..Places /\ n + 1 \in 0..Places /\ 3 \in 0..Places
  BY PlacesIs
<1> HIDE DEF a
<1>4. Append(a.frac, 0) \in [1..(n + 1) -> 0..9]
  <2> DEFINE longer == Append(a.frac, 0)
  <2>1. a.frac \in Seq(0..9) /\ Len(a.frac) = n /\ 0 \in 0..9
    BY <1>1, <1>3, LenOf
  <2>2. longer \in Seq(0..9) /\ Len(longer) = n + 1
    BY <2>1, AppendProperties
  <2> HIDE DEF longer
  <2> QED BY <2>2, LenProperties DEF longer
<1>5. <<0, 0, 1>> \in [1..3 -> 0..9]
  OBVIOUS
<1>6. /\ Decimal(a.int, Append(a.frac, 0)) \in Amount
      /\ Decimal(a.int + 1, a.frac) \in Amount /\ Decimal(0, <<0, 0, 1>>) \in Amount
  BY <1>1, <1>2, <1>3, <1>4, <1>5, AmountFrom
<1> QED BY <1>2, <1>6 DEF NearAmounts, a

LEMMA PagesAreOperations ==
  ASSUME target.amount \in Decimals, NEW page \in Pages
  PROVE  Operations(page)
<1> DEFINE Typed(r) == r.amount \in Amount /\ r.foreign \in BOOLEAN /\ r.late \in BOOLEAN
<1>1. ASSUME NEW amount \in Amount, NEW wrong
      PROVE  Typed(Operation(amount, wrong))
  BY DEF Operation
<1> HIDE DEF Typed
<1>2. \A r \in Newests : Typed(r)
  BY <1>1, NearAmountsAreAmounts, DecimalsAreAmounts DEF Newests
<1>3. Typed(Operation(target.amount, {}))
  BY <1>1, DecimalsAreAmounts
<1>4. \/ page = <<>>
      \/ \E r \in Newests : page = <<r>>
      \/ \E r \in Newests : page = <<r, Operation(target.amount, {})>>
  BY DEF Pages
<1>5. DOMAIN page \subseteq Nat /\ \A i \in DOMAIN page : Typed(page[i])
  BY <1>2, <1>3, <1>4
<1> QED BY <1>5 DEF Operations, Typed

THEOREM MatchingInvariance == MatchingSpec => []MatchingInv
<1>1. MatchingInit => MatchingInv
  <2> SUFFICES ASSUME MatchingInit
               PROVE  MatchingInv
    OBVIOUS
  <2>1. /\ target = NoTarget /\ records = <<>> /\ verdict = "none" /\ before = lifetime
        /\ lifetime \in {Zero} \cup {Decimal(n, << 9 >>) : n \in Integrals \ {0}}
    BY DEF MatchingInit
  <2>2. << 9 >> \in [1..1 -> 0..9] /\ <<>> \in [1..0 -> 0..9] /\ 0 \in 0..Places /\ 1 \in 0..Places
    BY PlacesIs
  <2>3. lifetime \in Amount
    <3>1. CASE lifetime = Zero
      BY <2>2, <3>1, AmountFrom DEF Zero
    <3>2. ASSUME NEW n \in Integrals, lifetime = Decimal(n, << 9 >>)
          PROVE  lifetime \in Amount
      <4>1. n \in Nat
        BY DigitsAssumption
      <4> QED BY <2>2, <3>2, <4>1, AmountFrom
    <3> QED BY <2>1, <3>1, <3>2
  <2>4. Value(lifetime) = Value(before) + 0
    BY <2>1, <2>3, ValueIsNat
  <2>5. Operations(records) /\ Earned = 0
    BY <2>1 DEF Operations, Earned
  <2>6. before \in Amount /\ Value(lifetime) = Value(before) + Earned
    BY <2>1, <2>3, <2>4, <2>5
  <2> QED BY <2>1, <2>3, <2>5, <2>6 DEF MatchingInv
<1>2. MatchingInv /\ [MatchingNext]_matchingVars => MatchingInv'
  <2> SUFFICES ASSUME MatchingInv, [MatchingNext]_matchingVars
               PROVE  MatchingInv'
    OBVIOUS
  <2>1. ASSUME NEW amount \in Decimals \cup {Malformed}, NEW currency, Create(amount, currency)
        PROVE  MatchingInv'
    <3>1. /\ verdict = "none" /\ target'.amount = amount
          /\ isValidDecimalString(amount) /\ UNCHANGED <<records, verdict, lifetime, before>>
      BY <2>1 DEF Create, Accepted, validate, isValidPaymentAmount
    <3>2. amount \in Decimals
      BY <3>1 DEF isValidDecimalString
    <3>3. target = NoTarget /\ records = <<>>
      BY <2>1 DEF Create, MatchingInv
    <3>4. Operations(records)' /\ Earned' = Earned
      BY <3>1 DEF Operations, Earned, MatchingInv
    <3>5. UNCHANGED <<records, verdict, lifetime, before>> /\ records' = <<>>
      BY <3>1, <3>3
    <3>6. target'.amount \in Decimals /\ isValidDecimalString(target'.amount)
      BY <3>1, <3>2
    <3> QED BY <3>1, <3>4, <3>5, <3>6 DEF MatchingInv
  <2>2. ASSUME NEW amount, NEW currency, RefuseAmount(amount, currency)
        PROVE  MatchingInv'
    <3>1. /\ verdict = "none" /\ verdict' = "refused"
          /\ UNCHANGED <<target, records, lifetime, before>>
      BY <2>2 DEF RefuseAmount
    <3>2. Operations(records)' /\ Earned' = Earned
      BY <3>1 DEF Operations, Earned, MatchingInv
    <3> QED BY <3>1, <3>2 DEF MatchingInv
  <2>3. ASSUME NEW page \in Pages, ReconcileWith(page)
        PROVE  MatchingInv'
    <3>1. /\ records' = page /\ target' = target /\ verdict' = Outcome(verify(page))
          /\ target # NoTarget /\ verdict = "none" /\ before' = before
          /\ lifetime' = IF verdict' = "confirmed" THEN updateCustomerAggregates ELSE lifetime
      BY <2>3 DEF ReconcileWith, Asked
    <3>2. \A r : checkRecord(r)' = checkRecord(r)
      BY <3>1 DEF checkRecord, Checks
    <3>3. Hits(records)' = Hits(page)
      BY <3>1 DEF Hits
    <3> DEFINE least == CHOOSE i \in Hits(page) : \A j \in Hits(page) : i <= j
    <3>4. verify(page) = verify(records)'
      <4>1. verify(page) = IF Hits(page) = {} THEN "no_match" ELSE checkRecord(page[least])
        BY DEF verify
      <4>2. verify(records)' = verify(page)'
        BY <3>1
      <4>3. Hits(page)' = Hits(page)
        BY <3>1 DEF Hits
      <4> HIDE DEF least
      <4>4. verify(page)' = IF Hits(page) = {} THEN "no_match" ELSE checkRecord(page[least])
        BY <3>2, <4>3 DEF verify, least
      <4> QED BY <4>1, <4>2, <4>4
    <3>5. verdict' = Outcome(verify(records))'
      BY <3>1, <3>4 DEF Outcome
    <3>6. target.amount \in Decimals /\ target.amount \in Amount /\ lifetime \in Amount
          /\ before \in Amount /\ Value(lifetime) = Value(before) + 0
      BY <3>1, DecimalsAreAmounts DEF MatchingInv, Earned
    <3>7. lifetime' \in Amount /\ Value(lifetime') = Value(before) + Earned'
      <4>1. Value(before) \in Nat /\ Value(lifetime) \in Nat
        BY <3>6, ValueIsNat
      <4>2. CASE verdict' = "confirmed" /\ target.currency = "USDC"
        <5>1. lifetime' = addDecimalStrings(lifetime, target.amount)
          BY <3>1, <4>2 DEF updateCustomerAggregates
        <5>2. Earned' = Value(target.amount)
          BY <3>1, <4>2 DEF Earned
        <5> QED BY <3>6, <4>1, <5>1, <5>2, AddIs
      <4>3. CASE ~(verdict' = "confirmed" /\ target.currency = "USDC")
        <5>1. lifetime' = lifetime /\ Earned' = 0
          BY <3>1, <4>3 DEF updateCustomerAggregates, Earned
        <5> QED BY <3>6, <5>1
      <4> QED BY <4>2, <4>3
    <3>8. Operations(records)'
      BY <3>1, <3>6, PagesAreOperations DEF Operations
    <3> QED BY <3>1, <3>5, <3>6, <3>7, <3>8 DEF MatchingInv
  <2>4. CASE UNCHANGED matchingVars
    <3>1. UNCHANGED <<target, records, verdict, lifetime, before>>
      BY <2>4 DEF matchingVars
    <3>2. verify(records)' = verify(records)
      BY <3>1 DEF verify, Hits, checkRecord, Checks
    <3> QED BY <3>1, <3>2 DEF MatchingInv, Outcome, Operations, Earned
  <2> QED BY <2>1, <2>2, <2>3, <2>4 DEF MatchingNext
<1> QED BY <1>1, <1>2, PTL DEF MatchingSpec

(* The verdict decides as the newest operation with the payment's memo does.           *)
LEMMA VerdictIs ==
  ASSUME MatchingInv
  PROVE  VerdictIsEarned
<1> DEFINE code == verify(records)
           least == CHOOSE i \in Hits(records) : \A j \in Hits(records) : i <= j
           r == records[least]
<1>1. CASE verdict \in {"none", "refused"}
  BY <1>1 DEF VerdictIsEarned
<1>2. CASE verdict = Outcome(code) /\ Hits(records) = {}
  <2>1. code = "no_match"
    BY <1>2 DEF verify
  <2>2. verdict = "no_match"
    BY <1>2, <2>1 DEF Outcome
  <2> QED BY <1>2, <2>2 DEF VerdictIsEarned
<1>3. CASE verdict = Outcome(code) /\ Hits(records) # {}
  <2>1. Hits(records) \subseteq Nat
    BY DEF Hits, MatchingInv
  <2>2. least \in Hits(records)
    BY <1>3, <2>1, Least
  <2>3. r.successful /\ r.memo = target.memo /\ least \in DOMAIN records
    BY <2>2 DEF Hits
  <2>4. code = checkRecord(r) /\ Decider = r
    BY <1>3 DEF verify, Decider
  <2> HIDE DEF least
  <2>5. /\ r.amount \in Amount /\ r.foreign \in BOOLEAN /\ r.late \in BOOLEAN
        /\ target.amount \in Amount
    BY <2>3, DecimalsAreAmounts DEF MatchingInv, Operations
  <2> DEFINE comparison == compareDecimalStrings(r.amount, target.amount)
  <2>6. comparison = 0 <=> Value(r.amount) = Value(target.amount)
    BY <2>5, CompareIs
  <2>7. comparison \in {-1, 0, 1}
    BY <2>5, CompareIs
  <2> HIDE DEF comparison, code, r
  <2>8. Pays(r) <=> /\ r.to = target.to
                    /\ r.code = target.currency
                    /\ r.issuer = expectedIssuer(target.currency, target.environment)
                    /\ comparison \notin {-1, 1}
    BY <2>6, <2>7 DEF Pays
  <2>9. \/ code = "ok" /\ Pays(r) /\ ~r.foreign /\ ~r.late
        \/ code = "expired" /\ Pays(r) /\ ~r.foreign /\ r.late
        \/ code = "duplicate_hash"
        \/ /\ code \in {"wrong_asset", "wrong_issuer", "insufficient_amount", "wrong_amount"}
           /\ r.to = target.to /\ ~Pays(r)
        \/ code = "wrong_destination" /\ r.to # target.to
    BY <2>3, <2>4, <2>5, <2>8, CheckRecordIs DEF comparison
  <2>10. CASE code = "ok" /\ Pays(r) /\ ~r.foreign /\ ~r.late
    <3>1. verdict = "confirmed"
      BY <1>3, <2>10 DEF Outcome
    <3> QED BY <1>3, <2>4, <2>10, <3>1 DEF VerdictIsEarned
  <2>11. CASE code = "expired" /\ Pays(r) /\ ~r.foreign /\ r.late
    <3>1. verdict = "expired"
      BY <1>3, <2>11 DEF Outcome
    <3> QED BY <1>3, <2>4, <2>11, <3>1 DEF VerdictIsEarned
  <2>12. CASE code = "duplicate_hash"
    <3>1. verdict = "skipped"
      BY <1>3, <2>12 DEF Outcome
    <3> QED BY <3>1 DEF VerdictIsEarned
  <2>13. CASE /\ code \in {"wrong_asset", "wrong_issuer", "insufficient_amount", "wrong_amount"}
              /\ r.to = target.to /\ ~Pays(r)
    <3>1. verdict = "failed"
      BY <1>3, <2>13 DEF Outcome
    <3> QED BY <1>3, <2>4, <2>13, <3>1 DEF VerdictIsEarned
  <2>14. CASE code = "wrong_destination" /\ r.to # target.to
    <3>1. verdict = "no_match"
      BY <1>3, <2>14 DEF Outcome
    <3> QED BY <1>3, <2>4, <2>14, <3>1 DEF VerdictIsEarned
  <2> QED BY <2>9, <2>10, <2>11, <2>12, <2>13, <2>14
<1> QED BY <1>1, <1>2, <1>3 DEF MatchingInv

(* No payment is confirmed, failed or expired but by the newest successful operation    *)
(* with its memo, and for what that operation really moved, compared as numbers.        *)
THEOREM VerdictIsEarnedHolds == MatchingSpec => []VerdictIsEarned
<1>1. MatchingInv => VerdictIsEarned
  BY VerdictIs
<1> QED BY <1>1, MatchingInvariance, PTL

(* Whatever digits and scales two amounts are written with, comparing them at the       *)
(* common scale and adding them up agrees with the numbers they denote, no sum ends in  *)
(* an idle zero, and the customer's total grows by exactly what was confirmed.          *)
THEOREM AmountsAgreeHolds == MatchingSpec => []AmountsAgree
<1>1. MatchingInv => AmountsAgree
  <2> SUFFICES ASSUME MatchingInv
               PROVE  AmountsAgree
    OBVIOUS
  <2>1. target # NoTarget => target.amount \in Amount /\ Value(target.amount) > 0
    BY DecimalsAreAmounts, ValidIsPositive DEF MatchingInv
  <2>2. ASSUME NEW i \in DOMAIN records
        PROVE  LET a == records[i].amount
                   b == target.amount
                   sum == addDecimalStrings(a, b)
               IN /\ compareDecimalStrings(a, b) = 0 <=> Value(a) = Value(b)
                  /\ compareDecimalStrings(a, b) = -1 <=> Value(a) < Value(b)
                  /\ Value(sum) = Value(a) + Value(b)
                  /\ sum.frac # <<>> => sum.frac[Len(sum.frac)] # 0
    <3>1. records[i].amount \in Amount /\ target.amount \in Amount
      BY <2>1, <2>2 DEF MatchingInv, Operations
    <3> QED BY <3>1, CompareIs, AddIs
  <2>3. Value(lifetime) = Value(before)
                         + (IF verdict = "confirmed" /\ target.currency = "USDC"
                            THEN Value(target.amount) ELSE 0)
    BY DEF MatchingInv, Earned
  <2> QED BY <2>1, <2>2, <2>3 DEF AmountsAgree
<1> QED BY <1>1, MatchingInvariance, PTL

-----------------------------------------------------------------------------
(* Sorted rows *)

(* No two rows of a collection have one id. *)
Distinct(rows) == \A r, q \in rows : r.id = q.id => r = q

LEMMA RowFacts ==
  ASSUME NEW r \in Row
  PROVE  r.id \in Nat \ {0} /\ r.at \in Nat
  BY RowsAssumption DEF Row

LEMMA NewerOrders ==
  ASSUME NEW rows \in SUBSET Row, Distinct(rows)
  PROVE  /\ \A r, q \in rows : r = q \/ Newer(r, q) \/ Newer(q, r)
         /\ \A r, q, t \in rows : Newer(r, q) /\ Newer(q, t) => Newer(r, t)
  BY RowFacts DEF Distinct, Newer

HasNewest(rows) == \E r \in rows : \A q \in rows \ {r} : Newer(r, q)

(* Among finitely many rows one is newest: a smallest set without one would have *)
(* a smaller one.                                                                *)
LEMMA Newest ==
  ASSUME NEW rows \in SUBSET Row, Distinct(rows), IsFiniteSet(rows), rows # {}
  PROVE  HasNewest(rows)
<1> DEFINE Sizes == {n \in Nat : \E T \in SUBSET rows : /\ T # {} /\ IsFiniteSet(T)
                                                        /\ Cardinality(T) = n /\ ~HasNewest(T)}
<1> SUFFICES ASSUME ~HasNewest(rows)
             PROVE  FALSE
  OBVIOUS
<1>1. Cardinality(rows) \in Sizes
  BY FS_CardinalityType
<1>2. PICK n \in Sizes : \A k \in Sizes : n <= k
  BY <1>1, Least
<1>3. PICK T \in SUBSET rows : T # {} /\ IsFiniteSet(T) /\ Cardinality(T) = n /\ ~HasNewest(T)
  BY <1>2
<1>4. PICK r \in T : TRUE
  BY <1>3
<1> DEFINE U == T \ {r}
<1>5. U # {}
  BY <1>3, <1>4 DEF HasNewest
<1>6. IsFiniteSet(U) /\ Cardinality(U) = n - 1
  BY <1>3, <1>4, FS_RemoveElement
<1>7. n - 1 \in Nat
  BY <1>6, FS_CardinalityType
<1>8. n - 1 \notin Sizes
  BY <1>2, <1>7
<1>9. HasNewest(U)
  <2> HIDE DEF U
  <2>1. U \in SUBSET rows
    BY DEF U
  <2> QED BY <1>5, <1>6, <1>7, <1>8, <2>1
<1>10. PICK q \in U : \A t \in U \ {q} : Newer(q, t)
  BY <1>9 DEF HasNewest
<1>11. CASE Newer(r, q)
  <2>1. \A t \in T \ {r} : Newer(r, t)
    BY <1>10, <1>11, NewerOrders
  <2> QED BY <1>3, <1>4, <2>1 DEF HasNewest
<1>12. CASE Newer(q, r)
  <2>1. \A t \in T \ {q} : Newer(q, t)
    BY <1>10, <1>12
  <2> QED BY <1>3, <1>10, <2>1 DEF HasNewest
<1> QED BY <1>4, <1>10, <1>11, <1>12, NewerOrders

(* What FirstRows chooses. *)
Firsts(s, n, rows, take) ==
  /\ n \in 0..take /\ s \in [1..n -> rows]
  /\ \A i, j \in 1..n : i < j => Newer(s[i], s[j])
  /\ \A row \in rows : \/ \E i \in 1..n : s[i] = row
                       \/ n = take /\ \A i \in 1..n : Newer(s[i], row)

(* There are first rows, as many as are asked for. *)
LEMMA FirstsExist ==
  ASSUME NEW rows \in SUBSET Row, Distinct(rows), IsFiniteSet(rows), NEW take \in Nat
  PROVE  \E n, s : Firsts(s, n, rows, take)
<1> DEFINE None == {k \in Nat : ~ \E n, s : Firsts(s, n, rows, k)}
<1> SUFFICES ASSUME None # {}
             PROVE  FALSE
  OBVIOUS
<1>1. PICK k \in None : \A m \in None : k <= m
  BY Least
<1>2. k # 0
  <2>1. Firsts(<<>>, 0, rows, 0)
    BY DEF Firsts
  <2> QED BY <1>1, <2>1
<1>3. k - 1 \in Nat /\ k - 1 \notin None
  BY <1>1, <1>2
<1>4. PICK n, s : Firsts(s, n, rows, k - 1)
  BY <1>3
<1>5. n \in 0..(k - 1) /\ s \in [1..n -> rows] /\ k \in Nat
      /\ \A i, j \in 1..n : i < j => Newer(s[i], s[j])
  BY <1>1, <1>4 DEF Firsts
<1> DEFINE rest == {row \in rows : \A i \in 1..n : s[i] # row}
<1>6. CASE rest = {}
  <2>1. Firsts(s, n, rows, k)
    BY <1>5, <1>6 DEF Firsts
  <2> QED BY <1>1, <2>1
<1>7. CASE rest # {}
  <2>1. n = k - 1 /\ \A row \in rest : \A i \in 1..n : Newer(s[i], row)
    BY <1>4, <1>7 DEF Firsts
  <2>2. HasNewest(rest)
    <3>1. rest \in SUBSET Row /\ Distinct(rest) /\ IsFiniteSet(rest)
      BY FS_Subset DEF Distinct
    <3> QED BY <1>7, <3>1, Newest
  <2>3. PICK r \in rest : \A q \in rest \ {r} : Newer(r, q)
    BY <2>2 DEF HasNewest
  <2> DEFINE t == [i \in 1..k |-> IF i = k THEN r ELSE s[i]]
  <2>4. t \in [1..k -> rows] /\ t[k] = r /\ \A i \in 1..n : t[i] = s[i]
    BY <1>5, <2>1
  <2> HIDE DEF t
  <2>5. ASSUME NEW i \in 1..k, NEW j \in 1..k, i < j
        PROVE  Newer(t[i], t[j])
    <3>1. i \in 1..n
      BY <1>5, <2>1, <2>5
    <3>2. CASE j = k
      BY <2>1, <2>4, <3>1, <3>2
    <3>3. CASE j # k
      <4>1. j \in 1..n
        BY <1>5, <2>1, <3>3
      <4> QED BY <1>5, <2>4, <2>5, <3>1, <4>1
    <3> QED BY <3>2, <3>3
  <2>6. ASSUME NEW row \in rows
        PROVE  \/ \E i \in 1..k : t[i] = row
               \/ \A i \in 1..k : Newer(t[i], row)
    <3>1. CASE \E i \in 1..n : s[i] = row
      BY <1>5, <2>1, <2>4, <3>1
    <3>2. CASE row = r
      BY <1>5, <2>1, <2>4, <3>2
    <3>3. CASE row \in rest \ {r}
      <4>1. \A i \in 1..n : Newer(t[i], row)
        BY <2>1, <2>4, <3>3
      <4>2. Newer(t[k], row)
        BY <2>3, <2>4, <3>3
      <4>3. \A i \in 1..k : i = k \/ i \in 1..n
        BY <1>5, <2>1
      <4> QED BY <4>1, <4>2, <4>3
    <3> QED BY <3>1, <3>2, <3>3
  <2>7. Firsts(t, k, rows, k)
    BY <1>5, <2>4, <2>5, <2>6 DEF Firsts
  <2> QED BY <1>1, <2>7
<1> QED BY <1>6, <1>7

LEMMA FirstRowsAre ==
  ASSUME NEW rows \in SUBSET Row, Distinct(rows), IsFiniteSet(rows), NEW take \in Nat
  PROVE  Firsts(FirstRows(rows, take), Len(FirstRows(rows, take)), rows, take)
<1> DEFINE Found(s) ==
             /\ \A i, j \in DOMAIN s : i < j => Newer(s[i], s[j])
             /\ \A row \in rows : \/ \E i \in DOMAIN s : s[i] = row
                                  \/ Len(s) = take /\ \A i \in DOMAIN s : Newer(s[i], row)
           All == UNION {[1..n -> rows] : n \in 0..take}
           s0 == FirstRows(rows, take)
<1>1. s0 = CHOOSE s \in All : Found(s)
  BY DEF FirstRows
<1>2. \E s \in All : Found(s)
  <2>1. PICK n, s : Firsts(s, n, rows, take)
    BY FirstsExist
  <2>2. n \in 0..take /\ s \in [1..n -> rows]
    BY <2>1 DEF Firsts
  <2>3. DOMAIN s = 1..n /\ Len(s) = n
    BY <2>2, LenOf
  <2>4. Found(s)
    BY <2>1, <2>3 DEF Firsts
  <2> HIDE DEF Found
  <2> QED BY <2>2, <2>4
<1> HIDE DEF Found
<1>3. s0 \in All /\ Found(s0)
  BY <1>1, <1>2
<1>4. PICK n \in 0..take : s0 \in [1..n -> rows]
  BY <1>3
<1>5. Len(s0) = n /\ DOMAIN s0 = 1..n
  BY <1>4, LenOf
<1> HIDE DEF s0
<1>6. Firsts(s0, n, rows, take)
  BY <1>3, <1>4, <1>5 DEF Firsts, Found
<1> QED BY <1>5, <1>6 DEF s0

-----------------------------------------------------------------------------
(* Pages *)

Entries == [public : RowIds, created_at : Times]
Show(row) == [public |-> row.id, created_at |-> row.at]
Key(entry) == [id |-> entry.public, at |-> entry.created_at]

(* d are the rows of a page of rows, in order, and whether there are more. *)
PageOf(d, n, rows, more) ==
  /\ n \in Nat /\ d \in [1..n -> rows] /\ more \in BOOLEAN
  /\ \A i, j \in 1..n : i < j => Newer(d[i], d[j])
  /\ ~more => \A row \in rows : \E i \in 1..n : d[i] = row
  /\ more => n > 0 /\ \A row \in rows : Newer(d[n], row) \/ \E i \in 1..n : d[i] = row

LEMMA PageFields ==
  ASSUME NEW s, NEW limit
  PROVE  LET pg == Page(s, limit)
             d == SubSeq(s, 1, limit)
         IN  /\ pg.hasMore \in BOOLEAN /\ (pg.hasMore <=> Len(s) > limit)
             /\ Len(s) > limit => pg.data = d /\ pg.nextCursor = encodeCursor(d[Len(d)])
             /\ ~(Len(s) > limit) => pg.data = s
<1> DEFINE more == Len(s) > limit
           data == IF more THEN SubSeq(s, 1, limit) ELSE s
           next == IF more THEN encodeCursor(data[Len(data)]) ELSE NoCursor
<1>1. more \in BOOLEAN /\ (more <=> Len(s) > limit)
  OBVIOUS
<1>2. Page(s, limit) = [data |-> data, hasMore |-> more, nextCursor |-> next]
  BY DEF Page
<1> HIDE DEF more
<1>3. (more => data = SubSeq(s, 1, limit)) /\ (~more => data = s)
  OBVIOUS
<1> HIDE DEF data
<1>4. more => next = encodeCursor(data[Len(data)])
  OBVIOUS
<1> HIDE DEF next
<1>5. /\ Page(s, limit).data = data /\ Page(s, limit).hasMore = more
      /\ Page(s, limit).nextCursor = next
  BY <1>2
<1> QED BY <1>1, <1>3, <1>4, <1>5

LEMMA PageIs ==
  ASSUME NEW rows \in SUBSET Row, Distinct(rows), IsFiniteSet(rows), NEW limit \in Limits
  PROVE  LET pg == Page(FirstRows(rows, limit + 1), limit)
         IN  \E n : /\ PageOf(pg.data, n, rows, pg.hasMore)
                    /\ pg.hasMore => pg.nextCursor = encodeCursor(pg.data[n])
<1> DEFINE s == FirstRows(rows, limit + 1)
           m == Len(s)
           pg == Page(s, limit)
<1> SUFFICES \E n : /\ PageOf(pg.data, n, rows, pg.hasMore)
                    /\ pg.hasMore => pg.nextCursor = encodeCursor(pg.data[n])
  OBVIOUS
<1>1. limit \in Nat \ {0}
  BY LimitsAssumption
<1>2. Firsts(s, m, rows, limit + 1)
  BY <1>1, FirstRowsAre
<1> HIDE DEF s
<1>3. /\ m \in 0..(limit + 1) /\ s \in [1..m -> rows]
      /\ \A i, j \in 1..m : i < j => Newer(s[i], s[j])
      /\ \A row \in rows : \/ \E i \in 1..m : s[i] = row
                           \/ m = limit + 1 /\ \A i \in 1..m : Newer(s[i], row)
  BY <1>2 DEF Firsts
<1> DEFINE d == SubSeq(s, 1, limit)
<1>4. /\ pg.hasMore \in BOOLEAN /\ (pg.hasMore <=> m > limit)
      /\ m > limit => pg.data = d /\ pg.nextCursor = encodeCursor(d[Len(d)])
      /\ ~(m > limit) => pg.data = s
  BY PageFields
<1> HIDE DEF m, pg
<1>5. CASE m > limit
  <2>1. m = limit + 1
    BY <1>1, <1>3, <1>5
  <2>2. pg.data = d /\ pg.hasMore /\ pg.nextCursor = encodeCursor(d[Len(d)])
    BY <1>4, <1>5
  <2>3. \A i \in 1..limit : s[i] \in rows
    BY <1>1, <1>3, <2>1
  <2>4. d \in Seq(rows) /\ Len(d) = limit /\ \A i \in 1..limit : d[i] = s[i]
    BY <1>1, <2>3, SubSeqProperties
  <2>5. d \in [1..limit -> rows]
    BY <2>4, LenProperties
  <2> HIDE DEF d
  <2>6. \A i, j \in 1..limit : i < j => Newer(d[i], d[j])
    BY <1>1, <1>3, <2>1, <2>4
  <2>7. ASSUME NEW row \in rows
        PROVE  Newer(d[limit], row) \/ \E i \in 1..limit : d[i] = row
    <3>1. CASE \A i \in 1..m : Newer(s[i], row)
      BY <1>1, <2>1, <2>4, <3>1
    <3>2. ASSUME NEW i \in 1..m, s[i] = row
          PROVE  Newer(d[limit], row) \/ i \in 1..limit
      BY <1>1, <1>3, <2>1, <2>4, <3>2
    <3> QED BY <1>3, <2>4, <3>1, <3>2
  <2>8. PageOf(d, limit, rows, pg.hasMore)
    BY <1>1, <1>4, <2>2, <2>5, <2>6, <2>7 DEF PageOf
  <2> QED BY <2>2, <2>4, <2>8
<1>6. CASE ~(m > limit)
  <2>1. pg.data = s /\ ~pg.hasMore
    BY <1>4, <1>6
  <2>2. m \in Nat /\ \A row \in rows : \E i \in 1..m : s[i] = row
    BY <1>1, <1>3, <1>6
  <2>3. PageOf(s, m, rows, pg.hasMore)
    BY <1>3, <1>4, <2>1, <2>2 DEF PageOf
  <2> QED BY <2>1, <2>3
<1> QED BY <1>5, <1>6

(* What a response shows of rows. *)
Response(response, d, n, rows) ==
  /\ PageOf(d, n, rows, response.has_more)
  /\ response.data = [i \in 1..n |-> Show(d[i])]
  /\ response.has_more => response.next_cursor = encodeCursor(d[n])

LEMMA ListIs ==
  ASSUME table \in SUBSET Row, Distinct(table), IsFiniteSet(table),
         resource \in Resources, resource # "deliveries" => filter = "any",
         NEW limit \in Limits, NEW c
  PROVE  \E d, n : Response(List(limit, c), d, n, {row \in Matching : Beyond(row, c)})
<1> DEFINE rows == {row \in Matching : Beyond(row, c)}
           pg == Page(FirstRows(rows, limit + 1), limit)
<1>1. rows \in SUBSET Row /\ Distinct(rows) /\ IsFiniteSet(rows)
  <2>1. rows \in SUBSET table
    BY DEF Matching
  <2> HIDE DEF rows
  <2> QED BY <2>1, FS_Subset DEF Distinct
<1>2. PICK n : /\ PageOf(pg.data, n, rows, pg.hasMore)
               /\ pg.hasMore => pg.nextCursor = encodeCursor(pg.data[n])
  <2> HIDE DEF rows
  <2> QED BY <1>1, PageIs
<1>3. filter = "any" => rows = {row \in table : Beyond(row, c)}
  BY DEF Matching, Matches
<1>4. DOMAIN pg.data = 1..n
  BY <1>2 DEF PageOf
<1> DEFINE entries == [i \in 1..n |-> Show(pg.data[i])]
           response == [data |-> entries, has_more |-> pg.hasMore, next_cursor |-> pg.nextCursor]
<1>5. List(limit, c) = response
  <2>1. CASE resource = "payments"
    <3>1. findAllPayments(limit, c) = pg
      BY <1>3, <2>1 DEF findAllPayments
    <3> HIDE DEF pg
    <3>2. toPaymentListResponse(pg) = response
      BY <1>4 DEF toPaymentListResponse, toPaymentResponse, ListResponse, Show
    <3> QED BY <2>1, <3>1, <3>2 DEF List
  <2>2. CASE resource = "customers"
    <3>1. findAllCustomers(limit, c) = pg
      BY <1>3, <2>2 DEF findAllCustomers, findAllCustomerRows
    <3> HIDE DEF pg
    <3>2. toCustomerListResponse(pg) = response
      BY <1>4 DEF toCustomerListResponse, toCustomerResponse, ListResponse, Show
    <3> QED BY <2>2, <3>1, <3>2 DEF List
  <2>3. CASE resource = "deliveries"
    <3>1. listDeliveries(limit, c) = pg
      BY DEF listDeliveries
    <3> HIDE DEF pg
    <3>2. toWebhookDeliveryListResponse(pg) = response
      BY <1>4 DEF toWebhookDeliveryListResponse, toWebhookDeliveryResponse, ListResponse, Show
    <3> QED BY <2>3, <3>1, <3>2 DEF List
  <2> QED BY <2>1, <2>2, <2>3 DEF Resources
<1> HIDE DEF pg, rows
<1>6. Response(response, pg.data, n, rows)
  BY <1>2 DEF Response
<1> QED BY <1>5, <1>6 DEF rows

-----------------------------------------------------------------------------
(* Lists *)

Sorted(entries) ==
  \A i, j \in 1..Len(entries) : i < j => Newer(Key(entries[i]), Key(entries[j]))

Seen(entries, id) == \E i \in 1..Len(entries) : entries[i].public = id

(* A row the client has not seen comes after its cursor. *)
Ahead(id) == reading = "yes" /\ \E row \in Matching : row.id = id /\ Beyond(row, cursor)

PagingInv ==
  /\ table \in SUBSET Row /\ IsFiniteSet(table) /\ Distinct(table)
  /\ resource \in Resources /\ (resource # "deliveries" => filter = "any")
  /\ pages \in Seq(Entries) /\ Sorted(pages)
  /\ reading = "no" => pages = <<>> /\ steady = {}
  /\ reading = "yes" => Len(pages) > 0 /\ cursor = Key(pages[Len(pages)])
  /\ reading \in {"yes", "done"} => \A id \in steady : Seen(pages, id) \/ Ahead(id)

(* A page of rows that come after what was shown leaves only rows behind its end. *)
LEMMA ReceiveOK ==
  ASSUME PagingInv, NEW rows \in SUBSET Matching, NEW response, NEW d, NEW n,
         Response(response, d, n, rows), Receive(response), reading \in {"no", "yes"},
         \A i \in 1..Len(pages), row \in rows : Newer(Key(pages[i]), row),
         \A id \in steady' : Seen(pages, id) \/ \E row \in rows : row.id = id,
         UNCHANGED <<table, resource, filter>>
  PROVE  PagingInv'
<1> DEFINE data == response.data
           m == Len(pages)
<1>1. /\ n \in Nat /\ d \in [1..n -> rows] /\ response.has_more \in BOOLEAN
      /\ \A i, j \in 1..n : i < j => Newer(d[i], d[j])
      /\ ~response.has_more => \A row \in rows : \E i \in 1..n : d[i] = row
      /\ response.has_more =>
           n > 0 /\ \A row \in rows : Newer(d[n], row) \/ \E i \in 1..n : d[i] = row
      /\ data = [i \in 1..n |-> Show(d[i])]
      /\ response.has_more => response.next_cursor = encodeCursor(d[n])
  BY DEF Response, PageOf
<1>2. /\ pages' = pages \o data /\ cursor' = response.next_cursor
      /\ reading' = IF response.has_more THEN "yes" ELSE "done"
  BY DEF Receive
<1>3. rows \in SUBSET Row /\ m \in Nat /\ pages \in Seq(Entries)
  BY LenProperties DEF PagingInv, Matching
<1>4. \A i \in 1..n : data[i] = Show(d[i]) /\ Key(data[i]) = [id |-> d[i].id, at |-> d[i].at]
                      /\ data[i].public = d[i].id /\ data[i] \in Entries
  <2> SUFFICES ASSUME NEW i \in 1..n
               PROVE  /\ data[i] = Show(d[i]) /\ Key(data[i]) = [id |-> d[i].id, at |-> d[i].at]
                      /\ data[i].public = d[i].id /\ data[i] \in Entries
    OBVIOUS
  <2>1. data[i] = Show(d[i]) /\ d[i] \in Row
    BY <1>1, <1>3
  <2> HIDE DEF data
  <2> QED BY <2>1 DEF Show, Key, Entries, Row
<1>5. \A k \in 1..n : Key(data[k]).id = d[k].id /\ Key(data[k]).at = d[k].at
  BY <1>1 DEF Show, Key
<1>6. data \in Seq(Entries) /\ Len(data) = n
  <2>1. data \in [1..n -> Entries]
    BY <1>1, <1>4
  <2> QED BY <1>1, <2>1, LenOf
<1> HIDE DEF data, m
<1>7. /\ pages' \in Seq(Entries) /\ Len(pages') = m + n
      /\ \A i \in 1..(m + n) : pages'[i] = IF i <= m THEN pages[i] ELSE data[i - m]
  BY <1>2, <1>3, <1>6, ConcatProperties DEF m
<1>8. \A i \in 1..m : pages'[i] = pages[i]
  BY <1>1, <1>3, <1>7
<1>9. \A k \in 1..n : m + k \in 1..(m + n) /\ pages'[m + k] = data[k]
  <2> SUFFICES ASSUME NEW k \in 1..n
               PROVE  m + k \in 1..(m + n) /\ pages'[m + k] = data[k]
    OBVIOUS
  <2>1. m + k \in 1..(m + n) /\ ~(m + k <= m) /\ (m + k) - m = k
    BY <1>1, <1>3
  <2> QED BY <1>7, <2>1
<1>10. \A i \in 1..(m + n) : i \in 1..m \/ \E k \in 1..n : i = m + k
  <2> SUFFICES ASSUME NEW i \in 1..(m + n), i > m
               PROVE  \E k \in 1..n : i = m + k
    BY <1>1, <1>3
  <2>1. i - m \in 1..n /\ i = m + (i - m)
    BY <1>1, <1>3
  <2> QED BY <2>1
<1>11. \A e : \A k \in 1..n : Newer(e, d[k]) => Newer(e, Key(data[k]))
  BY <1>5 DEF Newer
<1>12. \A k, l \in 1..n : Newer(d[k], d[l]) => Newer(Key(data[k]), Key(data[l]))
  BY <1>5 DEF Newer
<1>13. Sorted(pages)'
  <2> SUFFICES ASSUME NEW i \in 1..(m + n), NEW j \in 1..(m + n), i < j
               PROVE  Newer(Key(pages'[i]), Key(pages'[j]))
    BY <1>7 DEF Sorted
  <2>1. CASE i \in 1..m /\ j \in 1..m
    <3>1. Newer(Key(pages[i]), Key(pages[j]))
      BY <2>1 DEF PagingInv, Sorted, m
    <3> QED BY <1>8, <2>1, <3>1
  <2>2. ASSUME i \in 1..m, NEW k \in 1..n, j = m + k
        PROVE  Newer(Key(pages'[i]), Key(pages'[j]))
    <3>1. Newer(Key(pages[i]), d[k])
      BY <1>1, <2>2 DEF m
    <3> QED BY <1>8, <1>9, <1>11, <2>2, <3>1
  <2>3. ASSUME NEW k \in 1..n, i = m + k, NEW l \in 1..n, j = m + l
        PROVE  Newer(Key(pages'[i]), Key(pages'[j]))
    <3>1. k < l
      BY <1>1, <1>3, <2>3
    <3>2. Newer(Key(data[k]), Key(data[l]))
      BY <1>1, <1>12, <3>1
    <3> QED BY <1>9, <2>3, <3>2
  <2>4. ~(i > m /\ j \in 1..m)
    BY <1>3
  <2>5. i \in 1..m \/ i > m
    BY <1>3
  <2> QED BY <1>10, <2>1, <2>2, <2>3, <2>4, <2>5
<1>14. ASSUME reading' = "yes"
      PROVE  Len(pages') > 0 /\ cursor' = Key(pages'[Len(pages')]) /\ response.has_more
  <2>1. response.has_more /\ n > 0
    BY <1>1, <1>2, <1>14
  <2>2. n \in 1..n /\ m + n \in 1..(m + n) /\ pages'[m + n] = data[n]
    BY <1>1, <1>3, <1>7, <2>1
  <2> QED BY <1>1, <1>2, <1>3, <1>4, <1>7, <2>1, <2>2 DEF encodeCursor
<1>15. ASSUME NEW id \in steady'
      PROVE  Seen(pages', id) \/ Ahead(id)'
  <2>1. ASSUME NEW i \in 1..m, pages[i].public = id
        PROVE  Seen(pages', id)
    <3>1. i \in 1..Len(pages')
      BY <1>1, <1>3, <1>7
    <3> QED BY <1>8, <2>1, <3>1 DEF Seen
  <2>2. ASSUME NEW row \in rows, row.id = id
        PROVE  Seen(pages', id) \/ Ahead(id)'
    <3>1. ASSUME NEW i \in 1..n, d[i] = row
          PROVE  Seen(pages', id)
      <4>1. m + i \in 1..Len(pages') /\ pages'[m + i].public = id
        BY <1>4, <1>7, <1>9, <2>2, <3>1
      <4> QED BY <4>1 DEF Seen
    <3>2. ASSUME response.has_more, Newer(d[n], row)
          PROVE  Ahead(id)'
      <4>1. reading' = "yes" /\ cursor' = [id |-> d[n].id, at |-> d[n].at]
        BY <1>1, <1>2, <3>2 DEF encodeCursor
      <4>2. Beyond(row, cursor')
        <5>1. d[n] \in Row /\ row \in Row
          BY <1>1, <1>3, <3>2
        <5> QED BY <3>2, <4>1, <5>1, RowFacts DEF Beyond, Newer
      <4>3. row \in Matching'
        BY DEF Matching, Matches
      <4> QED BY <2>2, <4>1, <4>2, <4>3 DEF Ahead
    <3> QED BY <1>1, <3>1, <3>2
  <2> QED BY <2>1, <2>2 DEF Seen, m
<1>16. reading' \in {"yes", "done"}
  BY <1>2
<1> QED BY <1>7, <1>13, <1>14, <1>15, <1>16 DEF PagingInv

LEMMA FirstPageKeeps ==
  ASSUME PagingInv, NEW limit \in Limits, NEW c \in {NoCursor, GarbledCursor}, FirstPage(limit, c)
  PROVE  PagingInv'
<1> DEFINE at == decodeCursor(c)
           rows == {row \in Matching : Beyond(row, at)}
           response == List(limit, at)
<1>1. /\ reading = "no" /\ Receive(response) /\ steady' = {row.id : row \in Matching}
      /\ UNCHANGED <<table, resource, filter>>
  BY DEF FirstPage
<1>2. at = NoCursor
  BY DEF decodeCursor
<1>3. PICK d, n : Response(response, d, n, rows)
  BY ListIs DEF PagingInv
<1>4. rows = Matching
  BY <1>2 DEF Beyond
<1>5. \A id \in steady' : \E row \in rows : row.id = id
  BY <1>1, <1>4
<1>6. pages = <<>> /\ Len(pages) = 0
  BY <1>1 DEF PagingInv
<1>7. \A i \in 1..Len(pages), row \in rows : Newer(Key(pages[i]), row)
  BY <1>6
<1> HIDE DEF rows, response
<1> QED BY <1>1, <1>3, <1>4, <1>5, <1>7, ReceiveOK

LEMMA NextPageKeeps ==
  ASSUME PagingInv, NEW limit \in Limits, NextPage(limit)
  PROVE  PagingInv'
<1> DEFINE rows == {row \in Matching : Beyond(row, cursor)}
           response == List(limit, cursor)
           m == Len(pages)
<1>1. /\ reading = "yes" /\ Receive(List(limit, decodeCursor(cursor))) /\ steady' = steady
      /\ UNCHANGED <<table, resource, filter>>
  BY DEF NextPage
<1>2. /\ m \in Nat /\ m > 0 /\ cursor = Key(pages[m]) /\ pages[m] \in Entries
      /\ \A i \in 1..m : pages[i] \in Entries
  BY <1>1, LenProperties DEF PagingInv
<1>3. cursor.id \in Nat \ {0} /\ cursor.at \in Nat /\ cursor # NoCursor
  BY <1>2, RowsAssumption DEF Key, Entries, NoCursor
<1>4. decodeCursor(cursor) = cursor
  BY <1>3 DEF decodeCursor, GarbledCursor
<1>5. PICK d, n : Response(response, d, n, rows)
  BY ListIs DEF PagingInv
<1>6. ASSUME NEW i \in 1..m, NEW row \in rows
      PROVE  Newer(Key(pages[i]), row)
  <2>1. row \in Row
    BY DEF PagingInv, Matching
  <2>2. Newer(cursor, row)
    BY <1>3, <2>1, RowFacts DEF Beyond, Newer
  <2>3. CASE i = m
    BY <1>2, <2>2, <2>3
  <2>4. CASE i # m
    <3>1. Newer(Key(pages[i]), cursor)
      BY <1>2, <2>4 DEF PagingInv, Sorted
    <3>2. Key(pages[i]).id \in Nat /\ Key(pages[i]).at \in Nat
      BY <1>2, RowsAssumption DEF Key, Entries
    <3> QED BY <1>3, <2>1, <2>2, <3>1, <3>2, RowFacts DEF Newer
  <2> QED BY <2>3, <2>4
<1>7. ASSUME NEW id \in steady'
      PROVE  Seen(pages, id) \/ \E row \in rows : row.id = id
  BY <1>1 DEF PagingInv, Ahead
<1> HIDE DEF response
<1>8. rows \in SUBSET Matching
  OBVIOUS
<1> HIDE DEF rows
<1>9. Receive(response)
  BY <1>1, <1>4 DEF response
<1> QED BY <1>1, <1>5, <1>6, <1>7, <1>8, <1>9, ReceiveOK

(* A row that is inserted was not there throughout, and hides none that was. *)
LEMMA InsertKeeps ==
  ASSUME PagingInv, NEW row \in Row, Insert(row)
  PROVE  PagingInv'
<1>1. /\ \A other \in table : other.id # row.id
      /\ table' = table \cup {row}
      /\ UNCHANGED <<resource, filter, cursor, pages, reading, steady>>
  BY DEF Insert
<1>2. IsFiniteSet(table')
  BY <1>1, FS_AddElement DEF PagingInv
<1>3. table' \in SUBSET Row /\ Distinct(table')
  BY <1>1 DEF PagingInv, Distinct
<1>4. Matching \subseteq Matching'
  BY <1>1 DEF Matching, Matches
<1>5. \A id : Ahead(id) => Ahead(id)'
  BY <1>1, <1>4 DEF Ahead
<1> QED BY <1>1, <1>2, <1>3, <1>5 DEF PagingInv

(* A delivery that changes its status keeps its place. *)
LEMMA SetStatusKeeps ==
  ASSUME PagingInv, NEW row \in table, NEW s \in Statuses, SetStatus(row, s)
  PROVE  PagingInv'
<1> DEFINE new == [row EXCEPT !.status = s]
<1>1. /\ table' = (table \ {row}) \cup {new}
      /\ steady' = steady \ (IF Matches(new) THEN {} ELSE {row.id})
      /\ UNCHANGED <<resource, filter, cursor, pages, reading>>
  BY DEF SetStatus
<1>2. row \in Row
  BY DEF PagingInv
<1>3. new \in Row /\ new.id = row.id /\ new.at = row.at
  BY <1>2 DEF Row
<1> HIDE DEF new
<1>4. IsFiniteSet(table')
  <2>1. IsFiniteSet(table \ {row})
    BY FS_RemoveElement DEF PagingInv
  <2> QED BY <1>1, <2>1, FS_AddElement
<1>5. table' \in SUBSET Row /\ Distinct(table')
  BY <1>1, <1>3 DEF PagingInv, Distinct
<1>6. ASSUME NEW id \in steady', Ahead(id)
      PROVE  Ahead(id)'
  <2>1. PICK q \in Matching : q.id = id /\ Beyond(q, cursor)
    BY <1>6 DEF Ahead
  <2>2. q \in table /\ Matches(q)
    BY DEF Matching
  <2>3. CASE q # row
    <3>1. q \in Matching'
      BY <1>1, <2>2, <2>3 DEF Matching, Matches
    <3> QED BY <1>1, <1>6, <2>1, <3>1 DEF Ahead
  <2>4. CASE q = row
    <3>1. Matches(new)
      BY <1>1, <2>1, <2>4
    <3>2. new \in Matching'
      BY <1>1, <3>1 DEF Matching, Matches
    <3>3. new.id = id /\ Beyond(new, cursor)
      BY <1>3, <2>1, <2>4 DEF Beyond
    <3> QED BY <1>1, <1>6, <3>2, <3>3 DEF Ahead
  <2> QED BY <2>3, <2>4
<1>7. steady' \subseteq steady
  BY <1>1
<1> QED BY <1>1, <1>4, <1>5, <1>6, <1>7 DEF PagingInv

THEOREM PagingInvariance == PagingSpec => []PagingInv
<1>1. PagingInit => PagingInv
  BY EmptySeq, FS_EmptySet DEF PagingInit, PagingInv, Distinct, Sorted
<1>2. PagingInv /\ [PagingNext]_pagingVars => PagingInv'
  <2> SUFFICES ASSUME PagingInv, [PagingNext]_pagingVars
               PROVE  PagingInv'
    OBVIOUS
  <2>1. ASSUME NEW limit \in Limits, NEW c \in {NoCursor, GarbledCursor}, FirstPage(limit, c)
        PROVE  PagingInv'
    BY <2>1, FirstPageKeeps
  <2>2. ASSUME NEW limit \in Limits, NextPage(limit)
        PROVE  PagingInv'
    BY <2>2, NextPageKeeps
  <2>3. CASE BadDate
    BY <2>3 DEF BadDate, PagingInv, Distinct, Sorted, Seen, Ahead, Matching, Matches
  <2>4. ASSUME NEW row \in Row, Insert(row)
        PROVE  PagingInv'
    BY <2>4, InsertKeeps
  <2>5. ASSUME NEW row \in table, NEW s \in Statuses, SetStatus(row, s)
        PROVE  PagingInv'
    BY <2>5, SetStatusKeeps
  <2>6. CASE UNCHANGED pagingVars
    BY <2>6 DEF pagingVars, PagingInv, Distinct, Sorted, Seen, Ahead, Matching, Matches
  <2> QED BY <2>1, <2>2, <2>3, <2>4, <2>5, <2>6 DEF PagingNext
<1> QED BY <1>1, <1>2, PTL DEF PagingSpec

(* However many rows there are and whatever is inserted or changes between the pages,   *)
(* a client that follows next_cursor sees rows in order and none twice, and, once       *)
(* has_more is false, every row that was there and matched throughout.                  *)
THEOREM PagesAreCompleteHolds == PagingSpec => []PagesAreComplete
<1>1. PagingInv => PagesAreComplete
  <2> SUFFICES ASSUME PagingInv
               PROVE  PagesAreComplete
    OBVIOUS
  <2>1. Len(pages) \in Nat /\ DOMAIN pages = 1..Len(pages)
    BY LenProperties DEF PagingInv
  <2>2. ASSUME NEW i \in 1..Len(pages) - 1
        PROVE  Newer(Key(pages[i]), Key(pages[i + 1]))
    <3>1. i \in 1..Len(pages) /\ i + 1 \in 1..Len(pages) /\ i < i + 1
      BY <2>1
    <3> QED BY <3>1 DEF PagingInv, Sorted
  <2>3. reading = "done" => steady \subseteq {pages[i].public : i \in DOMAIN pages}
    BY <2>1 DEF PagingInv, Seen, Ahead
  <2> QED BY <2>2, <2>3 DEF PagesAreComplete, Key
<1> QED BY <1>1, PagingInvariance, PTL
=============================================================================
