------------------------------ MODULE Dashboard ------------------------------
(***************************************************************************)
(* Credentials and who may change them: API keys and the signing secret of *)
(* one webhook endpoint, used and changed by concurrent requests, one      *)
(* action per await.  A request is a call with an API key, a dashboard     *)
(* call with a session cookie, a push of merchant settings by the core     *)
(* backend, or a webhook delivery attempt, which signs with the secret.    *)
(* A key or a secret that a request creates bears the request's name:      *)
(* random tokens never collide.  Every key has the same prefix.            *)
(***************************************************************************)
EXTENDS TLC

CONSTANTS Requests,    \* the requests
          FirstKey,    \* the API key that exists at first
          FirstSecret, \* the endpoint's first signing secret
          Businesses, Wallets,
          Owner,       \* the business of the first key and of the endpoint
          None

Keys == Requests \cup {FirstKey}
Secrets == Requests \cup {FirstSecret}

ASSUME NamesAssumption == /\ FirstKey \notin Requests
                          /\ FirstSecret \notin Requests
                          /\ None \notin Keys \cup Secrets \cup Businesses \cup Wallets
                          /\ Owner \in Businesses

VARIABLES
  settings,  \* rows of merchant_settings
  keys,      \* the ApiKey row of each key
  touching,  \* keys whose lastUsedAt is about to be written
  endpoint,  \* the endpoint row: its secret and whether it is active
  req,       \* where each request is, what it asked for and what it has read
  since      \* history: what each request could have seen since it arrived

vars == <<settings, keys, touching, endpoint, req, since>>

Pairs == [business : Businesses, wallet : Wallets]

(* The handlers of the two controllers and the call each of them makes first. *)
KeyRoutes == [list |-> "listKeys", create |-> "insert",
              rotate |-> "listKeys", revoke |-> "findForRevoke"]
EndpointRoutes == [rotateSecret |-> "findEndpoint", update |-> "findEndpoint",
                   sendTest |-> "findEndpoint"]
DashboardOps == DOMAIN KeyRoutes \cup DOMAIN EndpointRoutes
Routes == [op \in DashboardOps |->
             IF op \in DOMAIN KeyRoutes THEN KeyRoutes[op] ELSE EndpointRoutes[op]]

PCs == {"new", "session", "findActive", "compare", "listKeys", "insert", "findByPublicId",
        "findForRotate", "commitRotate", "findForRevoke", "commitRevoke", "findEndpoint",
        "updateSecret", "updateEndpoint", "loadEndpoint", "send", "byBusiness", "byWallet",
        "updateBusiness", "updateWallet", "createSettings", "done"}

Answers == {"none", "ok", "unauthenticated", "missing", "conflict", "error"}

(* A request: business is the one acted for; read the row, rows or secret last read *)
Request(op, pc, key, wallet, business) ==
  [pc |-> pc, op |-> op, key |-> key, wallet |-> wallet, business |-> business,
   read |-> {}, answer |-> "none"]
Fresh == Request(None, "new", None, None, None)
(* A request that came to nothing: its answer is all that is left of it. *)
Ended(answer) == [pc |-> "done", op |-> None, key |-> None, wallet |-> None, business |-> None,
                  read |-> {}, answer |-> answer]
Refused == Ended("unauthenticated")

NoKey == [state |-> "absent", business |-> None, replaces |-> None, by |-> None]

RequestRows == [pc : PCs, op : DashboardOps \cup {"use", "attempt", "push", None},
                key : Keys \cup {None}, wallet : Wallets \cup {None},
                business : Businesses \cup {None}, read : SUBSET (Keys \cup Secrets),
                answer : Answers]
KeyRows == [state : {"absent", "active", "revoked"}, business : Businesses \cup {None},
            replaces : Keys \cup {None}, by : Requests \cup {None}]

TypeOK ==
  /\ settings \subseteq Pairs
  /\ keys \in [Keys -> KeyRows]
  /\ touching \subseteq Keys
  /\ endpoint \in [secret : Secrets, active : BOOLEAN]
  /\ req \in [Requests -> RequestRows]
  /\ since \in [Requests -> [revoked : SUBSET Keys, businesses : SUBSET Businesses,
                             secrets : SUBSET Secrets]]

Init ==
  /\ \E w \in Wallets : settings = {[business |-> Owner, wallet |-> w]}
  /\ keys = [k \in Keys |-> IF k = FirstKey
                            THEN [NoKey EXCEPT !.state = "active", !.business = Owner]
                            ELSE NoKey]
  /\ touching = {}
  /\ endpoint = [secret |-> FirstSecret, active |-> TRUE]
  /\ req = [r \in Requests |-> Fresh]
  /\ since = [r \in Requests |-> [revoked |-> {}, businesses |-> {}, secrets |-> {}]]

-----------------------------------------------------------------------------
(* Steps of a request *)

Enter(r, request) == req[r].pc = "new" /\ req' = [req EXCEPT ![r] = request]
Goto(r, pc) == req' = [req EXCEPT ![r].pc = pc]
Read(r, pc, rows) == req' = [req EXCEPT ![r].pc = pc, ![r].read = rows]
Answer(r, a) == req' = [req EXCEPT ![r] = IF a = "ok" THEN [@ EXCEPT !.pc = "done", !.answer = a]
                                                      ELSE Ended(a)]

(* What the history of a request in flight records of the present state. *)
BusinessesIn(table, w) == {s.business : s \in {t \in table : t.wallet = w}}
BusinessesOf(w) == BusinessesIn(settings, w)
Watch ==
  since' = [r \in Requests |->
    IF req'[r].pc = "new" \/ req[r].pc = "done" THEN since[r]
    ELSE [revoked |-> IF req[r].pc = "new" THEN {k \in Keys : keys[k].state = "revoked"}
                      ELSE since[r].revoked,
          businesses |-> since[r].businesses \cup BusinessesIn(settings, req'[r].wallet)
                                             \cup BusinessesIn(settings', req'[r].wallet),
          secrets |-> since[r].secrets \cup {endpoint.secret, endpoint'.secret}]]

-----------------------------------------------------------------------------
(* ApiKeyRepository *)

(* Mutant: the lookup of candidates leaves out active. *)
findByPrefix == {k \in Keys : keys[k].state # "absent"}
findActiveByPrefix == {k \in Keys : keys[k].state = "active"}

findAllForBusiness(b) == {k \in findActiveByPrefix : keys[k].business = b}

(* Mutant: a key is found by its publicId alone. *)
FoundAnywhere(k, b) == k # None /\ keys[k].state # "absent"
Found(k, b) == k # None /\ keys[k].business = b

Insert(r, b, old) == [state |-> "active", business |-> b, replaces |-> old, by |-> r]

(* update ... where id: the row found before is changed whatever it has become. *)
Retire(r, k) == [keys[k] EXCEPT !.state = "revoked", !.by = r]

(* touchLastUsed: not awaited, its errors are swallowed. *)
TouchLastUsed(k) ==
  /\ k \in touching
  /\ touching' = touching \ {k}
  /\ UNCHANGED <<settings, keys, endpoint, req>>

-----------------------------------------------------------------------------
(* Calls with an API key *)

(* A missing header or another scheme, or a key without the three parts. *)
RefuseBearer(r) ==
  /\ Enter(r, Refused)
  /\ UNCHANGED <<settings, keys, touching, endpoint>>

UseKey(r, k) ==
  /\ Enter(r, Request("use", "findActive", k, None, None))
  /\ UNCHANGED <<settings, keys, touching, endpoint>>

FindCandidates(r) ==
  /\ req[r].pc = "findActive"
  /\ IF findActiveByPrefix = {} THEN Answer(r, "unauthenticated")
                                ELSE Read(r, "compare", findActiveByPrefix)
  /\ UNCHANGED <<settings, keys, touching, endpoint>>

(* bcrypt.compare with one candidate after the other, of the rows read before; *)
(* the call then acts for the business of the row.                             *)
Compare(r) ==
  /\ req[r].pc = "compare"
  /\ IF req[r].key \in req[r].read
     THEN /\ Answer(r, "ok")
          /\ touching' = touching \cup {req[r].key}
     ELSE /\ Answer(r, "unauthenticated")
          /\ UNCHANGED touching
  /\ UNCHANGED <<settings, keys, endpoint>>

-----------------------------------------------------------------------------
(* The dashboard: SessionGuard, RolesGuard, and the first call of the handler *)

(* The session cookie: None when absent or undecodable.  The wallet is None when *)
(* the payload is not JSON of an address; over a minute past exp is expired.      *)
Cookies == {None} \cup
           [wallet : Wallets \cup {None}, signature : {"valid", "invalid"}, expired : BOOLEAN]

parseSignedPayload(c) == c.signature = "valid" /\ c.wallet # None
hasValidExpiration(c) == ~c.expired
parseDashboardWallet(c) ==
  IF c # None /\ parseSignedPayload(c) /\ hasValidExpiration(c) THEN c.wallet ELSE None

(* The wallets that cookies sign in, and None for a cookie that is refused. *)
SignedIn == {parseDashboardWallet(c) : c \in Cookies}

Arrive(r, op, w, k) ==
  /\ op \in {"rotate", "revoke"} <=> k # None
  /\ Enter(r, IF w = None THEN Refused ELSE Request(op, "session", k, w, None))
  /\ UNCHANGED <<settings, keys, touching, endpoint>>

RequiredRoles(op) == IF op = "list" THEN {} ELSE {"owner", "admin"}
Permits(op, role) == RequiredRoles(op) = {} \/ role \in RequiredRoles(op)

(* The wallet of the cookie stands for the business it has now, as its owner. *)
ResolveSession(r) ==
  /\ req[r].pc = "session"
  /\ \/ /\ BusinessesOf(req[r].wallet) = {}
        /\ Answer(r, "unauthenticated")
     \/ \E b \in BusinessesOf(req[r].wallet) :
           /\ Permits(req[r].op, "owner")
           /\ req' = [req EXCEPT ![r].business = b, ![r].pc = Routes[req[r].op]]
  /\ UNCHANGED <<settings, keys, touching, endpoint>>

-----------------------------------------------------------------------------
(* API keys in the dashboard *)

ListKeys(r) ==
  /\ req[r].pc = "listKeys"
  /\ CASE req[r].op = "list" -> Answer(r, "ok")
       [] req[r].key \in findAllForBusiness(req[r].business) -> Goto(r, "findByPublicId")
       [] OTHER -> Answer(r, "missing")
  /\ UNCHANGED <<settings, keys, touching, endpoint>>

Generate(r) ==
  /\ req[r].pc = "insert"
  /\ keys' = [keys EXCEPT ![r] = Insert(r, req[r].business, None)]
  /\ Answer(r, "ok")
  /\ UNCHANGED <<settings, touching, endpoint>>

(* The three reads before a change: each wants the key active and the merchant's. *)
FindKey(r, at, next) ==
  /\ req[r].pc = at
  /\ IF Found(req[r].key, req[r].business) /\ keys[req[r].key].state = "active"
     THEN Goto(r, next)
     ELSE Answer(r, "missing")
  /\ UNCHANGED <<settings, keys, touching, endpoint>>

FindByPublicId(r) == FindKey(r, "findByPublicId", "findForRotate")
FindForRotate(r) == FindKey(r, "findForRotate", "commitRotate")
FindForRevoke(r) == FindKey(r, "findForRevoke", "commitRevoke")

(* Mutant: without the transaction, the replacement can be created alone. *)
CommitRotateHalf(r) ==
  /\ req[r].pc = "commitRotate"
  /\ keys' = [keys EXCEPT ![r] = Insert(r, req[r].business, req[r].key)]
  /\ Answer(r, "error")
  /\ UNCHANGED <<settings, touching, endpoint>>

(* The $transaction: the old key is revoked and its replacement created. *)
CommitRotate(r) ==
  /\ req[r].pc = "commitRotate"
  /\ keys' = [keys EXCEPT ![req[r].key] = Retire(r, req[r].key),
                          ![r] = Insert(r, req[r].business, req[r].key)]
  /\ Answer(r, "ok")
  /\ UNCHANGED <<settings, touching, endpoint>>

CommitRevoke(r) ==
  /\ req[r].pc = "commitRevoke"
  /\ keys' = [keys EXCEPT ![req[r].key] = Retire(r, req[r].key)]
  /\ Answer(r, "ok")
  /\ UNCHANGED <<settings, touching, endpoint>>

-----------------------------------------------------------------------------
(* The webhook endpoint *)

(* findOneOrThrow: the row of the endpoint, if it is the merchant's. *)
FindEndpoint(r) ==
  /\ req[r].pc = "findEndpoint"
  /\ CASE req[r].business # Owner -> Answer(r, "missing")
       [] req[r].op = "rotateSecret" -> Read(r, "updateSecret", {endpoint.secret})
       [] req[r].op = "update" -> Read(r, "updateEndpoint", {endpoint.secret})
       [] OTHER -> Read(r, "send", {endpoint.secret})
  /\ UNCHANGED <<settings, keys, touching, endpoint>>

RotateSecret(r) ==
  /\ req[r].pc = "updateSecret"
  /\ endpoint' = [endpoint EXCEPT !.secret = r]
  /\ Answer(r, "ok")
  /\ UNCHANGED <<settings, keys, touching>>

(* Mutant: update() writes the row it has read back, not the fields of the body. *)
UpdateWholeRow(r) ==
  /\ req[r].pc = "updateEndpoint"
  /\ \E a \in BOOLEAN, s \in req[r].read : endpoint' = [secret |-> s, active |-> a]
  /\ Answer(r, "ok")
  /\ UNCHANGED <<settings, keys, touching>>

(* Only the fields of the body are written; active stands for all of them. *)
UpdateEndpoint(r) ==
  /\ req[r].pc = "updateEndpoint"
  /\ \E a \in BOOLEAN : endpoint' = [endpoint EXCEPT !.active = a]
  /\ Answer(r, "ok")
  /\ UNCHANGED <<settings, keys, touching>>

(* A webhook worker begins an attempt: the delivery is pending. *)
TakeAttempt(r) ==
  /\ Enter(r, Request("attempt", "loadEndpoint", None, None, None))
  /\ UNCHANGED <<settings, keys, touching, endpoint>>

(* Mutant: a worker keeps the secret it saw first. *)
LoadCached(r) ==
  /\ req[r].pc = "loadEndpoint"
  /\ IF endpoint.active THEN Read(r, "send", {FirstSecret}) ELSE Answer(r, "missing")
  /\ UNCHANGED <<settings, keys, touching, endpoint>>

LoadEndpoint(r) ==
  /\ req[r].pc = "loadEndpoint"
  /\ IF endpoint.active THEN Read(r, "send", {endpoint.secret}) ELSE Answer(r, "missing")
  /\ UNCHANGED <<settings, keys, touching, endpoint>>

(* The event is read, then the secret of the loaded row decrypted and used; a row *)
(* that cannot be decrypted ends the attempt as Fail does.                        *)
Send(r) ==
  /\ req[r].pc = "send"
  /\ Answer(r, "ok")
  /\ UNCHANGED <<settings, keys, touching, endpoint>>

-----------------------------------------------------------------------------
(* Merchant settings, pushed by the core backend *)

Unauthorized(r) ==
  /\ Enter(r, Refused)
  /\ UNCHANGED <<settings, keys, touching, endpoint>>

Push(r, b, w) ==
  /\ Enter(r, Request("push", "byBusiness", None, w, b))
  /\ UNCHANGED <<settings, keys, touching, endpoint>>

HasBusiness(b) == {s \in settings : s.business = b}
HasWallet(w) == {s \in settings : s.wallet = w}

FindByBusiness(r) ==
  /\ req[r].pc = "byBusiness"
  /\ Goto(r, IF HasBusiness(req[r].business) # {} THEN "updateBusiness" ELSE "byWallet")
  /\ UNCHANGED <<settings, keys, touching, endpoint>>

FindByWallet(r) ==
  /\ req[r].pc = "byWallet"
  /\ Goto(r, IF HasWallet(req[r].wallet) # {} THEN "updateWallet" ELSE "createSettings")
  /\ UNCHANGED <<settings, keys, touching, endpoint>>

(* A write that meets another row with the business or the wallet is a conflict. *)
Store(r, replaced) ==
  IF (HasBusiness(req[r].business) \cup HasWallet(req[r].wallet)) \subseteq replaced
  THEN /\ settings' = (settings \ replaced)
                        \cup {[business |-> req[r].business, wallet |-> req[r].wallet]}
       /\ Answer(r, "ok")
  ELSE /\ Answer(r, "conflict")
       /\ UNCHANGED settings

(* An update of a row that is gone rejects. *)
Update(r, row) ==
  IF row = {} THEN Answer(r, "error") /\ UNCHANGED settings ELSE Store(r, row)

Upsert(r) ==
  /\ \/ req[r].pc = "updateBusiness" /\ Update(r, HasBusiness(req[r].business))
     \/ req[r].pc = "updateWallet" /\ Update(r, HasWallet(req[r].wallet))
     \/ req[r].pc = "createSettings" /\ Store(r, {})
  /\ UNCHANGED <<keys, touching, endpoint>>

-----------------------------------------------------------------------------
(* A call of the database rejects, a secret cannot be decrypted or the pod stops. *)
Fail(r) ==
  /\ req[r].pc \notin {"new", "done"}
  /\ Answer(r, "error")
  /\ UNCHANGED <<settings, keys, touching, endpoint>>

Begin(r) ==
  \/ RefuseBearer(r)
  \/ \E k \in Keys : UseKey(r, k)
  \/ \E op \in DashboardOps, w \in SignedIn, k \in Keys \cup {None} : Arrive(r, op, w, k)
  \/ TakeAttempt(r)
  \/ Unauthorized(r)
  \/ \E b \in Businesses, w \in Wallets : Push(r, b, w)

Continue(r) ==
  \/ FindCandidates(r) \/ Compare(r)
  \/ ResolveSession(r) \/ ListKeys(r) \/ Generate(r)
  \/ FindByPublicId(r) \/ FindForRotate(r) \/ CommitRotate(r)
  \/ FindForRevoke(r) \/ CommitRevoke(r)
  \/ FindEndpoint(r) \/ RotateSecret(r) \/ UpdateEndpoint(r)
  \/ LoadEndpoint(r) \/ Send(r)
  \/ FindByBusiness(r) \/ FindByWallet(r) \/ Upsert(r)
  \/ Fail(r)

Next ==
  /\ \/ \E r \in Requests : Begin(r) \/ Continue(r)
     \/ \E k \in Keys : TouchLastUsed(k)
  /\ Watch

Spec == Init /\ [][Next]_vars

-----------------------------------------------------------------------------
(* Properties *)

(* A call that arrives once its key was revoked or rotated is refused, whatever   *)
(* verifications of the key, pending lastUsedAt writes and changes run beside it. *)
RevokedIsRefused ==
  \A r \in Requests :
    req[r].op = "use" /\ req[r].answer = "ok" => req[r].key \notin since[r].revoked

(* Rotation has no overlap period: a key that has a replacement is not active,    *)
(* even when rotations and revocations of one key race or fail.                   *)
ReplacementRetires ==
  \A k \in Keys : keys[k].replaces # None => keys[keys[k].replaces].state = "revoked"

(* A key changes hands of nobody: every creation, rotation and revocation is made *)
(* by a request whose wallet had the key's business while the request was served. *)
ActsForOwnBusiness ==
  \A k \in Keys : keys[k].by # None => keys[k].business \in since[keys[k].by].businesses

(* A request is signed with a secret the endpoint had since the attempt began:    *)
(* deliveries queued before a rotation sign with the new secret.                  *)
SecretIsFresh ==
  \A r \in Requests :
    req[r].op \in {"attempt", "sendTest"} /\ req[r].answer = "ok"
      => req[r].read \subseteq since[r].secrets

(* A secret that was rotated out never comes back, so what the merchant was shown *)
(* last is what verifies, whatever update of the endpoint runs beside.            *)
RetiredSecretsStayRetired ==
  [][endpoint'.secret # endpoint.secret
       => /\ endpoint'.secret \in Requests
          /\ req[endpoint'.secret].answer = "none"]_vars
=============================================================================
