---------------------------- MODULE WebhookSigning ----------------------------
(***************************************************************************)
(* From the event to the request a merchant verifies: the payload built    *)
(* from the event's snapshot, the secret encrypted at rest, the signature  *)
(* with its timestamp, and the verification the merchant is told to do.    *)
(* Redeployments may change the encryption key, the payment moves on,      *)
(* requests take their time, and a rotation changes the secret while an    *)
(* attempt is between loading the endpoint and signing, or while the       *)
(* merchant has not read the new secret yet.  HMAC and AES-GCM are         *)
(* perfect: a tag is the tuple of what it was computed from.               *)
(***************************************************************************)
EXTENDS Integers

CONSTANTS
    EncryptionKeys,  \* 32-byte keys a deployment may be configured with
    Tolerance,       \* seconds a signature is accepted for
    MaxTime,         \* bound of the clock
    MaxSecrets       \* bound of the secrets generated

VARIABLES
    configured,  \* WEBHOOK_SECRET_ENCRYPTION_KEY of the running deployment
    cachedKey,   \* WebhookSigner.cachedKey
    endpoint,    \* signingSecretEncrypted and secretLastFour; secrets are numbered
    unanswered,  \* secrets of rotations that are written and not yet answered
    shown,       \* the secret the merchant was shown last
    serial,      \* history: each rotation so far was answered before the next was
                 \* written, and none lost its answer in a redeployment
    event,       \* the PaymentEvent
    status,      \* the payment's status now
    now,         \* Unix seconds
    attempt,     \* the attempt that has loaded the endpoint, or NoRequest
    sent,        \* the request under way, or NoRequest
    received     \* the request received and the merchant's verdict, until the next
                 \* attempt, or NoRequest

secrets == <<endpoint, unanswered, shown, serial>>
requests == <<attempt, sent, received>>
signingVars == <<configured, cachedKey, secrets, event, status, now, requests>>

NotHex == "not hex"  \* a configured key that is not 64 hex digits
NoKeyYet == "none"
NoRequest == [kind |-> "none"]

Rejected == [secret |-> 0]

-----------------------------------------------------------------------------
(* Payload *)

(* A snapshot's date comes back as Date, string or number; anything else is null. *)
coerceDate(value) == IF value \in {"Date", "string", "number"} THEN "date" ELSE "null"

snapshotToPayment(snapshot, fallback) ==
    [status |-> snapshot.status,
     createdAt |-> IF coerceDate(snapshot.createdAt) = "null" THEN fallback ELSE "snapshot",
     paidAt |-> coerceDate(snapshot.paidAt)]

environmentFromSnapshot(snapshot) ==
    IF snapshot.environment = "absent" THEN "test" ELSE snapshot.environment

buildWebhookPayload(e) ==
    [type |-> e.type, environment |-> environmentFromSnapshot(e.data),
     object |-> snapshotToPayment(e.data, "event")]

buildTestPayload(environment) ==
    [type |-> "completed", environment |-> environment,
     object |-> [status |-> "completed", createdAt |-> "now", paidAt |-> "date"]]

-----------------------------------------------------------------------------
(* Secrets and signatures *)

encryptSecret(secret, key) == [secret |-> secret, key |-> key]

(* The tag does not verify under another key. *)
decryptSecret(envelope, key) ==
    IF envelope.key = key THEN [secret |-> envelope.secret] ELSE Rejected

encryptionKey == IF cachedKey # NoKeyYet THEN cachedKey ELSE configured

lastFour(secret) == <<"last four of", secret>>

encrypt(secret) == encryptSecret(secret, encryptionKey)
decrypt(envelope) ==
    IF encryptionKey = NotHex THEN Rejected ELSE decryptSecret(envelope, encryptionKey)

(* Mutant: the signature bears the time of the event. *)
signEventTime(secret, timestamp, body) == [t |-> 1, v1 |-> <<secret, 1, body>>]

signWebhookPayload(secret, timestamp, body) ==
    [t |-> timestamp, v1 |-> <<secret, timestamp, body>>]

sign(secret, body) == signWebhookPayload(secret, now, body)

buildHeaders(secret, body) == [signature |-> sign(secret, body)]

Distance(a, b) == IF a < b THEN b - a ELSE a - b

verifyWebhookSignature(header, secret, body) ==
    /\ header.t # 0
    /\ Distance(now, header.t) <= Tolerance
    /\ header.v1 = signWebhookPayload(secret, header.t, body).v1

-----------------------------------------------------------------------------

(* The endpoint was created when the key was configured well. *)
SigningInit ==
    /\ configured \in EncryptionKeys
    /\ cachedKey = configured
    /\ endpoint = [encrypted |-> encryptSecret(1, configured), secretLastFour |-> lastFour(1)]
    /\ unanswered = {} /\ shown = 1 /\ serial = TRUE
    /\ status = "confirmed"
    /\ \E created \in {"string", "invalid"}, recorded \in {TRUE, FALSE} :
          event = [type |-> "confirmed",
                   data |-> [status |-> "confirmed", createdAt |-> created,
                             paidAt |-> IF recorded THEN "number" ELSE "absent",
                             environment |-> IF recorded THEN "live" ELSE "absent"]]
    /\ now = 1
    /\ attempt = NoRequest /\ sent = NoRequest /\ received = NoRequest

(* A deployment starts with a key of its own: checked when it is first needed.  What   *)
(* the old one was doing is gone, but answers already on their way still arrive.       *)
Redeploy ==
    /\ \E k \in EncryptionKeys \cup {NotHex} : k # configured /\ configured' = k
    /\ cachedKey' = NoKeyYet
    /\ unanswered' \in SUBSET unanswered
    /\ serial' = (serial /\ unanswered' = unanswered)
    /\ attempt' = NoRequest
    /\ UNCHANGED <<endpoint, shown, event, status, now, sent, received>>

(* update with the new envelope; a key that is no key rejects before any write. *)
RotateSigningSecret ==
    LET secret == endpoint.encrypted.secret + 1
    IN /\ secret <= MaxSecrets
       /\ encryptionKey # NotHex
       /\ endpoint' = [encrypted |-> encrypt(secret), secretLastFour |-> lastFour(secret)]
       /\ unanswered' = unanswered \cup {secret}
       /\ serial' = (serial /\ unanswered = {})
       /\ cachedKey' = encryptionKey
       /\ UNCHANGED <<configured, shown, event, status, now, requests>>

(* rotateSecret returns, and the merchant reads the secret. *)
ShowSecret ==
    /\ \E secret \in unanswered :
          shown' = secret /\ unanswered' = unanswered \ {secret}
    /\ UNCHANGED <<configured, cachedKey, endpoint, serial, event, status, now, requests>>

PaymentMoves ==
    /\ status = "confirmed"
    /\ status' = "completed"
    /\ UNCHANGED <<configured, cachedKey, secrets, event, now, requests>>

(* An attempt, or a test, loads the endpoint's row. *)
LoadEndpoint(kind) ==
    /\ attempt = NoRequest /\ sent = NoRequest
    /\ attempt' = [kind |-> kind, endpoint |-> endpoint,
                   shown |-> shown, settled |-> serial /\ unanswered = {}]
    /\ received' = NoRequest
    /\ UNCHANGED <<configured, cachedKey, secrets, event, status, now, sent>>

(* Events are never written again, so when the event is read makes no difference. *)
Payload(kind) ==
    IF kind = "event" THEN buildWebhookPayload(event) ELSE buildTestPayload("live")

(* Decrypt and sign with the row that was loaded, and send.  An envelope that *)
(* does not decrypt ends the attempt: the job throws, its retry loads again.  *)
SendSigned ==
    LET opened == decrypt(attempt.endpoint.encrypted)
        body == Payload(attempt.kind)
    IN /\ attempt # NoRequest
       /\ attempt' = NoRequest
       /\ cachedKey' = IF encryptionKey = NotHex THEN NoKeyYet ELSE encryptionKey
       /\ sent' = IF opened = Rejected THEN NoRequest
                  ELSE [kind |-> attempt.kind, body |-> body, at |-> now,
                        header |-> buildHeaders(opened.secret, body).signature,
                        loaded |-> attempt.endpoint.encrypted.secret,
                        shown |-> attempt.shown, settled |-> attempt.settled]
       /\ UNCHANGED <<configured, secrets, event, status, now, received>>

(* The merchant verifies with the secret it was shown last. *)
ReceiveSigned ==
    /\ sent # NoRequest
    /\ received' = [kind |-> sent.kind, request |-> sent, at |-> now, shown |-> shown,
                    ok |-> verifyWebhookSignature(sent.header, shown, sent.body)]
    /\ sent' = NoRequest
    /\ UNCHANGED <<configured, cachedKey, secrets, event, status, now, attempt>>

Elapse ==
    /\ now < MaxTime
    /\ now' = now + 1
    /\ UNCHANGED <<configured, cachedKey, secrets, event, status, requests>>

SigningNext ==
    \/ Redeploy \/ RotateSigningSecret \/ ShowSecret \/ PaymentMoves \/ Elapse
    \/ \E kind \in {"event", "test"} : LoadEndpoint(kind)
    \/ SendSigned \/ ReceiveSigned

SigningSpec == SigningInit /\ [][SigningNext]_signingVars

-----------------------------------------------------------------------------
(* Whatever keys deployments use and whatever is rotated meanwhile, no request is *)
(* signed with another secret than the one of the row its attempt loaded: the     *)
(* merchant accepts it exactly if it comes within the tolerance of the signature, *)
(* not of the event, and that secret is the one the merchant was shown last.      *)
(* So a timely request is accepted if, when its attempt loaded the row, every     *)
(* rotation had been answered, one after the other, and none was answered since;  *)
(* one that was signed after a new secret was shown may be refused.  Every        *)
(* attempt for an event shows the payment as the event recorded it, however far   *)
(* it has moved since, and the four digits on display are of the row's secret.    *)
ReceivedVerifies ==
    received # NoRequest =>
        LET request == received.request
            timely == received.at - request.at <= Tolerance
        IN /\ received.ok <=> timely /\ request.loaded = received.shown
           /\ timely /\ request.settled /\ request.shown = received.shown => received.ok
           /\ received.kind = "event" =>
                 /\ request.body.object.status = event.data.status
                 /\ request.body.object.createdAt # "null"
                 /\ request.body.type = event.type
           /\ endpoint.secretLastFour = lastFour(endpoint.encrypted.secret)
=============================================================================
