--------------------------- MODULE DashboardProofs ---------------------------
(***************************************************************************)
(* For any number of concurrent requests, businesses and wallets, with     *)
(* failures at every await: a revoked key is refused, a rotated key is     *)
(* revoked, keys are only changed for their own business, and a secret     *)
(* that was rotated out is neither used nor restored.                      *)
(***************************************************************************)
EXTENDS Dashboard, TLAPS

LEMMA RoutesAre ==
  /\ DashboardOps = {"list", "create", "rotate", "revoke", "rotateSecret", "update", "sendTest"}
  /\ \A op \in DashboardOps : Routes[op] \in {"listKeys", "insert", "findForRevoke", "findEndpoint"}
  /\ Routes["sendTest"] = "findEndpoint"
<1>1. /\ DOMAIN KeyRoutes = {"list", "create", "rotate", "revoke"}
      /\ DOMAIN EndpointRoutes = {"rotateSecret", "update", "sendTest"}
  BY DEF KeyRoutes, EndpointRoutes
<1>2. /\ \A op \in DOMAIN KeyRoutes : KeyRoutes[op] \in {"listKeys", "insert", "findForRevoke"}
      /\ \A op \in DOMAIN EndpointRoutes : EndpointRoutes[op] = "findEndpoint"
  BY DEF KeyRoutes, EndpointRoutes
<1> QED BY <1>1, <1>2 DEF DashboardOps, Routes

(* The invariant: what each await of a request relies on, and what the rows hold. *)
Revoked == {k \in Keys : keys[k].state = "revoked"}
ForBusiness == {"listKeys", "insert", "findByPublicId", "findForRotate", "commitRotate",
                "findForRevoke", "commitRevoke"}
Commits == {"commitRotate", "commitRevoke"}
Settling == {"byBusiness", "byWallet", "updateBusiness", "updateWallet", "createSettings"}

(* A request has no answer and no key of its own until it is done; where uses of *)
(* a key and signed requests may be.                                             *)
PlaceOK(r) ==
  /\ req[r].pc # "done" => req[r].answer = "none" /\ keys[r].state = "absent"
  /\ req[r].pc = "session" => req[r].op \in DashboardOps
  /\ req[r].op = "use" => req[r].pc \in {"new", "findActive", "compare", "done"}
  /\ req[r].op \in {"attempt", "sendTest"}
       => req[r].pc \in {"new", "session", "findEndpoint", "loadEndpoint", "send", "done"}
(* The candidates read leave out every key revoked before; so does the one accepted. *)
CallOK(r) ==
  /\ since[r].revoked \subseteq Revoked
  /\ req[r].pc = "compare" => req[r].read \cap since[r].revoked = {}
  /\ req[r].op = "use" /\ req[r].answer = "ok" => req[r].key \notin since[r].revoked
SigningOK(r) ==
  /\ req[r].pc = "send" => req[r].read \subseteq since[r].secrets
  /\ req[r].op \in {"attempt", "sendTest"} /\ req[r].answer = "ok"
       => req[r].read \subseteq since[r].secrets
(* A request past the guard acts for a business of its wallet, on a key of it. *)
ActorOK(r) ==
  /\ req[r].pc \in ForBusiness => req[r].business \in since[r].businesses
  /\ req[r].pc \in Commits => /\ req[r].key \in Keys
                              /\ keys[req[r].key].state # "absent"
                              /\ keys[req[r].key].business = req[r].business
  /\ req[r].pc \in Settling => req[r].business \in Businesses /\ req[r].wallet \in Wallets
RequestOK(r) == PlaceOK(r) /\ CallOK(r) /\ SigningOK(r) /\ ActorOK(r)
KeysOK == ReplacementRetires /\ ActsForOwnBusiness
IInv == TypeOK /\ KeysOK /\ \A r \in Requests : RequestOK(r)

-----------------------------------------------------------------------------
(* How a step changes the row of its request. *)
Others(r) == /\ req' \in [Requests -> RequestRows]
             /\ \A s \in Requests : s # r => req'[s] = req[s]
Keeps(r) == /\ req'[r].op = req[r].op
            /\ req'[r].key = req[r].key
            /\ req'[r].wallet = req[r].wallet
            /\ req'[r].business = req[r].business

LEMMA RowSet ==
  ASSUME TypeOK, NEW r \in Requests, NEW x \in RequestRows, req' = [req EXCEPT ![r] = x]
  PROVE  Others(r) /\ req'[r] = x
  BY DEF TypeOK, Others

LEMMA RowFields ==
  ASSUME NEW x \in RequestRows
  PROVE  /\ \A p \in PCs : [x EXCEPT !.pc = p] \in RequestRows
         /\ \A p \in PCs, rows \in SUBSET (Keys \cup Secrets) :
               [x EXCEPT !.pc = p, !.read = rows] \in RequestRows
         /\ \A a \in Answers : [x EXCEPT !.pc = "done", !.answer = a] \in RequestRows
<1>1. "done" \in PCs
  BY DEF PCs
<1> QED BY <1>1 DEF RequestRows

LEMMA GotoRow ==
  ASSUME TypeOK, NEW r \in Requests, NEW p \in PCs, Goto(r, p)
  PROVE  /\ Others(r) /\ Keeps(r)
         /\ req'[r].pc = p /\ req'[r].read = req[r].read /\ req'[r].answer = req[r].answer
<1>1. req[r] \in RequestRows
  BY DEF TypeOK
<1>2. [req[r] EXCEPT !.pc = p] \in RequestRows
  BY <1>1, RowFields
<1>3. req' = [req EXCEPT ![r] = [req[r] EXCEPT !.pc = p]]
  BY DEF Goto
<1>4. Others(r) /\ req'[r] = [req[r] EXCEPT !.pc = p]
  BY <1>2, <1>3, RowSet
<1> QED BY <1>1, <1>4 DEF Keeps, RequestRows

LEMMA ReadRow ==
  ASSUME TypeOK, NEW r \in Requests, NEW p \in PCs, NEW rows \in SUBSET (Keys \cup Secrets),
         Read(r, p, rows)
  PROVE  /\ Others(r) /\ Keeps(r)
         /\ req'[r].pc = p /\ req'[r].read = rows /\ req'[r].answer = req[r].answer
<1>1. req[r] \in RequestRows
  BY DEF TypeOK
<1>2. [req[r] EXCEPT !.pc = p, !.read = rows] \in RequestRows
  BY <1>1, RowFields
<1>3. req' = [req EXCEPT ![r] = [req[r] EXCEPT !.pc = p, !.read = rows]]
  BY DEF Read
<1>4. Others(r) /\ req'[r] = [req[r] EXCEPT !.pc = p, !.read = rows]
  BY <1>2, <1>3, RowSet
<1> QED BY <1>1, <1>4 DEF Keeps, RequestRows

LEMMA EndedRow ==
  ASSUME NEW a \in Answers
  PROVE  Ended(a) \in RequestRows /\ Ended(a).pc = "done" /\ Ended(a).answer = a
  BY DEF Ended, RequestRows, PCs

LEMMA AnswerRow ==
  ASSUME TypeOK, NEW r \in Requests, NEW a \in Answers, Answer(r, a)
  PROVE  /\ Others(r) /\ req'[r].pc = "done" /\ req'[r].answer = a
         /\ a = "ok" => Keeps(r) /\ req'[r].read = req[r].read
<1>1. req[r] \in RequestRows
  BY DEF TypeOK
<1>2. CASE a = "ok"
  <2>1. [req[r] EXCEPT !.pc = "done", !.answer = a] \in RequestRows
    BY <1>1, RowFields
  <2>2. req' = [req EXCEPT ![r] = [req[r] EXCEPT !.pc = "done", !.answer = a]]
    BY <1>2 DEF Answer
  <2>3. Others(r) /\ req'[r] = [req[r] EXCEPT !.pc = "done", !.answer = a]
    BY <2>1, <2>2, RowSet
  <2> QED BY <1>1, <2>3 DEF Keeps, RequestRows
<1>3. CASE a # "ok"
  <2>1. req' = [req EXCEPT ![r] = Ended(a)]
    BY <1>3 DEF Answer
  <2>2. Others(r) /\ req'[r] = Ended(a)
    BY <2>1, EndedRow, RowSet
  <2> QED BY <1>3, <2>2, EndedRow
<1> QED BY <1>2, <1>3

-----------------------------------------------------------------------------
(* What every step keeps. *)

(* The history only grows, and the keys revoked on arrival are fixed then. *)
Grows(s) ==
  /\ since[s].businesses \subseteq since'[s].businesses
  /\ since[s].secrets \subseteq since'[s].secrets
  /\ since'[s].revoked = IF req[s].pc = "new" /\ req'[s].pc # "new"
                         THEN Revoked ELSE since[s].revoked
  /\ req'[s].pc # "new" /\ req[s].pc # "done"
       => /\ BusinessesIn(settings, req'[s].wallet) \subseteq since'[s].businesses
          /\ endpoint.secret \in since'[s].secrets

LEMMA WatchGrows ==
  ASSUME Watch, NEW s \in Requests
  PROVE  Grows(s)
<1>1. since'[s] =
        IF req'[s].pc = "new" \/ req[s].pc = "done" THEN since[s]
        ELSE [revoked |-> IF req[s].pc = "new" THEN Revoked ELSE since[s].revoked,
              businesses |-> since[s].businesses \cup BusinessesIn(settings, req'[s].wallet)
                                                 \cup BusinessesIn(settings', req'[s].wallet),
              secrets |-> since[s].secrets \cup {endpoint.secret, endpoint'.secret}]
  BY DEF Watch, Revoked
<1>2. CASE req'[s].pc = "new" \/ req[s].pc = "done"
  BY <1>1, <1>2 DEF Grows
<1>3. CASE ~(req'[s].pc = "new" \/ req[s].pc = "done")
  <2>1. since'[s] =
          [revoked |-> IF req[s].pc = "new" THEN Revoked ELSE since[s].revoked,
           businesses |-> since[s].businesses \cup BusinessesIn(settings, req'[s].wallet)
                                              \cup BusinessesIn(settings', req'[s].wallet),
           secrets |-> since[s].secrets \cup {endpoint.secret, endpoint'.secret}]
    BY <1>1, <1>3
  <2> QED BY <1>3, <2>1 DEF Grows
<1> QED BY <1>2, <1>3

LEMMA WatchType ==
  ASSUME TypeOK, Watch, settings' \subseteq Pairs, endpoint' \in [secret : Secrets, active : BOOLEAN]
  PROVE  since' \in [Requests -> [revoked : SUBSET Keys, businesses : SUBSET Businesses,
                                  secrets : SUBSET Secrets]]
<1> DEFINE Rows == [revoked : SUBSET Keys, businesses : SUBSET Businesses, secrets : SUBSET Secrets]
<1>1. ASSUME NEW t \in SUBSET Pairs, NEW w PROVE BusinessesIn(t, w) \subseteq Businesses
  BY DEF BusinessesIn, Pairs
<1>2. ASSUME NEW s \in Requests
      PROVE  [revoked |-> IF req[s].pc = "new" THEN {k \in Keys : keys[k].state = "revoked"}
                          ELSE since[s].revoked,
              businesses |-> since[s].businesses \cup BusinessesIn(settings, req'[s].wallet)
                                                 \cup BusinessesIn(settings', req'[s].wallet),
              secrets |-> since[s].secrets \cup {endpoint.secret, endpoint'.secret}] \in Rows
  <2>1. since[s] \in Rows /\ settings \in SUBSET Pairs /\ settings' \in SUBSET Pairs
    BY DEF TypeOK
  <2>2. endpoint.secret \in Secrets /\ endpoint'.secret \in Secrets
    BY DEF TypeOK
  <2>3. /\ BusinessesIn(settings, req'[s].wallet) \subseteq Businesses
        /\ BusinessesIn(settings', req'[s].wallet) \subseteq Businesses
    BY <1>1, <2>1
  <2> QED BY <2>1, <2>2, <2>3
<1>3. \A s \in Requests : since[s] \in Rows
  BY DEF TypeOK
<1> HIDE DEF Rows
<1>4. since' \in [Requests -> Rows]
  BY <1>2, <1>3 DEF Watch
<1> QED BY <1>4 DEF Rows

(* A revoked key stays revoked, a key stays with its business, and nobody but a *)
(* request that is done with it creates the key of its name.                    *)
KeysKept ==
  \A k \in Keys :
    /\ keys[k].state = "revoked" => keys'[k].state = "revoked"
    /\ keys[k].state # "absent" => /\ keys'[k].state # "absent"
                                   /\ keys'[k].business = keys[k].business
    /\ keys[k].state = "absent" /\ k \in Requests /\ req'[k].pc # "done"
         => keys'[k].state = "absent"

LEMMA QuietKeys ==
  ASSUME IInv, Watch, UNCHANGED keys
  PROVE  KeysKept /\ KeysOK'
<1>1. \A s \in Requests : since[s].businesses \subseteq since'[s].businesses
  BY WatchGrows DEF Grows
<1>2. ReplacementRetires'
  BY DEF IInv, KeysOK, ReplacementRetires
<1>3. \A k \in Keys : keys[k].by # None => keys[k].by \in Requests
  BY DEF IInv, TypeOK, KeyRows
<1>4. ActsForOwnBusiness'
  BY <1>1, <1>3 DEF IInv, KeysOK, ActsForOwnBusiness
<1> QED BY <1>2, <1>4 DEF KeysKept, KeysOK

LEMMA RevokedKept ==
  ASSUME KeysKept
  PROVE  Revoked \subseteq Revoked'
  BY DEF KeysKept, Revoked

LEMMA OtherRequest ==
  ASSUME IInv, Watch, KeysKept, NEW s \in Requests, req'[s] = req[s]
  PROVE  RequestOK(s)'
<1>1. RequestOK(s) /\ Grows(s) /\ s \in Keys
  BY WatchGrows DEF IInv, Keys
<1>2. PlaceOK(s)'
  BY <1>1 DEF RequestOK, PlaceOK, KeysKept
<1>3. CallOK(s)'
  BY <1>1, RevokedKept DEF RequestOK, CallOK, Grows
<1>4. SigningOK(s)'
  BY <1>1 DEF RequestOK, SigningOK, Grows
<1>5. ActorOK(s)'
  BY <1>1 DEF RequestOK, ActorOK, Grows, KeysKept
<1> QED BY <1>2, <1>3, <1>4, <1>5 DEF RequestOK

-----------------------------------------------------------------------------
(* The request that takes the step: it is refused, succeeds, or goes on. *)

LEMMA CallKept ==
  ASSUME IInv, Watch, KeysKept, NEW r \in Requests
  PROVE  since'[r].revoked \subseteq Revoked'
  BY WatchGrows, RevokedKept DEF Grows, IInv, RequestOK, CallOK

LEMMA EndsBadly ==
  ASSUME IInv, Watch, KeysKept, NEW r \in Requests,
         req'[r].pc = "done", req'[r].answer # "ok"
  PROVE  RequestOK(r)'
  BY CallKept DEF RequestOK, PlaceOK, CallOK, SigningOK, ActorOK, ForBusiness, Commits, Settling

LEMMA EndsWell ==
  ASSUME IInv, Watch, KeysKept, NEW r \in Requests, Keeps(r), req'[r].pc = "done",
         req[r].pc \in {"listKeys", "insert", "commitRotate", "commitRevoke", "updateSecret",
                        "updateEndpoint", "updateBusiness", "updateWallet", "createSettings"}
  PROVE  RequestOK(r)'
<1>1. req[r].op \notin {"use", "attempt", "sendTest"}
  BY DEF IInv, RequestOK, PlaceOK
<1> QED BY <1>1, CallKept
        DEF Keeps, RequestOK, PlaceOK, CallOK, SigningOK, ActorOK, ForBusiness, Commits, Settling

LEMMA GoesOn ==
  ASSUME IInv, Watch, UNCHANGED keys, NEW r \in Requests, Keeps(r),
         req'[r].answer = req[r].answer,
         req[r].pc \in {"listKeys", "findByPublicId", "findForRotate", "findForRevoke",
                        "byBusiness", "byWallet"},
         req'[r].pc \notin {"new", "done", "session", "compare", "send"},
         req'[r].pc \in ForBusiness => req[r].pc \in ForBusiness,
         req'[r].pc \in Settling => req[r].pc \in Settling,
         req'[r].pc \in Commits => /\ req[r].key \in Keys
                                   /\ keys[req[r].key].state # "absent"
                                   /\ keys[req[r].key].business = req[r].business
  PROVE  RequestOK(r)'
<1>1. KeysKept /\ Grows(r)
  BY QuietKeys, WatchGrows
<1>2. /\ req[r].op \notin {"use", "attempt", "sendTest"}
      /\ req[r].answer = "none" /\ keys[r].state = "absent"
  BY DEF IInv, RequestOK, PlaceOK
<1>3. PlaceOK(r)'
  BY <1>2 DEF PlaceOK, Keeps
<1>4. CallOK(r)' /\ SigningOK(r)'
  BY <1>1, <1>2, CallKept DEF CallOK, SigningOK, Keeps
<1>5. ActorOK(r)'
  BY <1>1 DEF IInv, RequestOK, ActorOK, Keeps, Grows
<1> QED BY <1>3, <1>4, <1>5 DEF RequestOK

(* What a step has to show: the request's own row and the types of the rest. *)
LEMMA StepOK ==
  ASSUME IInv, Watch, NEW r \in Requests, Others(r), RequestOK(r)', KeysKept, KeysOK',
         keys' \in [Keys -> KeyRows], settings' \subseteq Pairs, touching' \subseteq Keys,
         endpoint' \in [secret : Secrets, active : BOOLEAN]
  PROVE  IInv'
<1>1. TypeOK'
  BY WatchType DEF TypeOK, IInv, Others
<1>2. \A s \in Requests : RequestOK(s)'
  BY OtherRequest DEF Others
<1> QED BY <1>1, <1>2 DEF IInv

-----------------------------------------------------------------------------
(* Every action keeps the invariant. *)

LEMMA Quiet ==
  ASSUME IInv, Watch, NEW r \in Requests, Others(r), RequestOK(r)',
         UNCHANGED <<settings, keys, touching, endpoint>>
  PROVE  IInv'
<1>1. KeysKept /\ KeysOK'
  BY QuietKeys
<1> QED BY <1>1, StepOK DEF IInv, TypeOK

LEMMA RefusedOK ==
  ASSUME IInv, Watch, NEW r \in Requests, NEW a \in Answers \ {"ok"}, Answer(r, a),
         UNCHANGED <<settings, keys, touching, endpoint>>
  PROVE  IInv'
<1>1. Others(r) /\ req'[r].pc = "done" /\ req'[r].answer = a
  BY AnswerRow DEF IInv
<1>2. RequestOK(r)'
  BY <1>1, QuietKeys, EndsBadly
<1> QED BY <1>1, <1>2, Quiet

LEMMA BeginsOK ==
  ASSUME IInv, Watch, UNCHANGED <<settings, keys, touching, endpoint>>,
         NEW r \in Requests, Others(r), req[r].pc = "new", req'[r].answer = req[r].answer,
         req'[r].pc \in {"session", "findActive", "loadEndpoint", "byBusiness"},
         req'[r].pc = "session" => req'[r].op \in DashboardOps,
         req'[r].op = "use" => req'[r].pc = "findActive",
         req'[r].op \in {"attempt", "sendTest"} => req'[r].pc \in {"session", "loadEndpoint"},
         req'[r].pc = "byBusiness" => req'[r].business \in Businesses /\ req'[r].wallet \in Wallets
  PROVE  IInv'
<1>1. KeysKept
  BY QuietKeys
<1>2. req[r].answer = "none" /\ keys[r].state = "absent"
  BY DEF IInv, RequestOK, PlaceOK
<1>3. PlaceOK(r)'
  BY <1>2 DEF PlaceOK
<1>4. CallOK(r)' /\ SigningOK(r)'
  BY <1>1, <1>2, CallKept DEF CallOK, SigningOK
<1>5. ActorOK(r)'
  BY DEF ActorOK, ForBusiness, Commits, Settling
<1> QED BY <1>3, <1>4, <1>5, Quiet DEF RequestOK

LEMMA RequestRow ==
  ASSUME NEW op \in DashboardOps \cup {"use", "attempt", "push", None}, NEW p \in PCs,
         NEW k \in Keys \cup {None}, NEW w \in Wallets \cup {None},
         NEW b \in Businesses \cup {None}
  PROVE  /\ Request(op, p, k, w, b) \in RequestRows
         /\ Request(op, p, k, w, b).pc = p /\ Request(op, p, k, w, b).op = op
         /\ Request(op, p, k, w, b).wallet = w /\ Request(op, p, k, w, b).business = b
         /\ Request(op, p, k, w, b).answer = "none"
  BY DEF Request, RequestRows, Answers

LEMMA EnterRefused ==
  ASSUME IInv, Watch, UNCHANGED <<settings, keys, touching, endpoint>>, NEW r \in Requests,
         Enter(r, Refused)
  PROVE  IInv'
<1>1. Refused \in RequestRows /\ Refused.pc = "done" /\ Refused.answer \notin {"ok", "none"}
  BY EndedRow DEF Refused, Answers
<1>2. Others(r) /\ req'[r] = Refused
  BY <1>1, RowSet DEF Enter, IInv
<1>3. RequestOK(r)'
  BY <1>1, <1>2, QuietKeys, EndsBadly
<1> QED BY <1>2, <1>3, Quiet

LEMMA EnterRequest ==
  ASSUME IInv, Watch, UNCHANGED <<settings, keys, touching, endpoint>>, NEW r \in Requests,
         NEW op \in DashboardOps \cup {"use", "attempt", "push"},
         NEW p \in {"session", "findActive", "loadEndpoint", "byBusiness"},
         NEW k \in Keys \cup {None}, NEW w \in Wallets \cup {None},
         NEW b \in Businesses \cup {None}, Enter(r, Request(op, p, k, w, b)),
         p = "session" <=> op \in DashboardOps,
         op = "use" => p = "findActive", op = "attempt" => p = "loadEndpoint",
         p = "byBusiness" => b \in Businesses /\ w \in Wallets
  PROVE  IInv'
<1>1. p \in PCs
  BY DEF PCs
<1>2. /\ Request(op, p, k, w, b) \in RequestRows
      /\ Request(op, p, k, w, b).pc = p /\ Request(op, p, k, w, b).op = op
      /\ Request(op, p, k, w, b).wallet = w /\ Request(op, p, k, w, b).business = b
      /\ Request(op, p, k, w, b).answer = "none"
  BY <1>1, RequestRow
<1>3. Others(r) /\ req'[r] = Request(op, p, k, w, b) /\ req[r].pc = "new"
  BY <1>2, RowSet DEF Enter, IInv
<1>4. req[r].answer = "none"
  BY <1>3 DEF IInv, RequestOK, PlaceOK
<1>5. "sendTest" \in DashboardOps
  BY RoutesAre
<1> QED BY <1>2, <1>3, <1>4, <1>5, BeginsOK

LEMMA BeginStep ==
  ASSUME IInv, Watch, NEW r \in Requests, Begin(r)
  PROVE  IInv'
<1>1. CASE RefuseBearer(r)
  BY <1>1, EnterRefused DEF RefuseBearer
<1>2. ASSUME NEW k \in Keys, UseKey(r, k) PROVE IInv'
  BY <1>2, RoutesAre, EnterRequest DEF UseKey
<1>3. ASSUME NEW op \in DashboardOps, NEW w \in SignedIn, NEW k \in Keys \cup {None},
             Arrive(r, op, w, k)
      PROVE  IInv'
  <2>1. CASE w = None
    BY <1>3, <2>1, EnterRefused DEF Arrive
  <2>2. CASE w # None
    <3>1. w \in Wallets
      BY <2>2 DEF SignedIn, Cookies, parseDashboardWallet, parseSignedPayload
    <3>2. op \notin {"use", "attempt"}
      BY RoutesAre
    <3>3. Enter(r, Request(op, "session", k, w, None))
          /\ UNCHANGED <<settings, keys, touching, endpoint>>
      BY <1>3, <2>2 DEF Arrive
    <3> QED BY <3>1, <3>2, <3>3, EnterRequest
  <2> QED BY <2>1, <2>2
<1>4. CASE TakeAttempt(r)
  BY <1>4, RoutesAre, EnterRequest DEF TakeAttempt
<1>5. CASE Unauthorized(r)
  BY <1>5, EnterRefused DEF Unauthorized
<1>6. ASSUME NEW b \in Businesses, NEW w \in Wallets, Push(r, b, w) PROVE IInv'
  BY <1>6, RoutesAre, EnterRequest DEF Push
<1> QED BY <1>1, <1>2, <1>3, <1>4, <1>5, <1>6 DEF Begin

LEMMA UseStep ==
  ASSUME IInv, Watch, NEW r \in Requests, FindCandidates(r) \/ Compare(r)
  PROVE  IInv'
<1>0. TypeOK /\ RequestOK(r) /\ Grows(r) /\ r \in Keys
  BY WatchGrows DEF IInv, Keys
<1>1. CASE FindCandidates(r)
  <2>1. CASE findActiveByPrefix = {}
    BY <1>1, <2>1, RefusedOK DEF FindCandidates, Answers
  <2>2. CASE findActiveByPrefix # {}
    <3>1. findActiveByPrefix \in SUBSET (Keys \cup Secrets) /\ "compare" \in PCs
      BY DEF findActiveByPrefix, PCs
    <3>2. Read(r, "compare", findActiveByPrefix) /\ req[r].pc = "findActive"
          /\ UNCHANGED <<settings, keys, touching, endpoint>>
      BY <1>1, <2>2 DEF FindCandidates
    <3>3. /\ Others(r) /\ Keeps(r) /\ req'[r].pc = "compare"
          /\ req'[r].read = findActiveByPrefix /\ req'[r].answer = req[r].answer
      BY <1>0, <3>1, <3>2, ReadRow
    <3>4. findActiveByPrefix \cap Revoked = {}
      BY DEF findActiveByPrefix, Revoked
    <3>5. PlaceOK(r)' /\ SigningOK(r)' /\ ActorOK(r)'
      BY <1>0, <3>2, <3>3 DEF RequestOK, PlaceOK, SigningOK, ActorOK, Keeps, ForBusiness, Commits, Settling
    <3>6. CallOK(r)'
      <4>1. since'[r].revoked = since[r].revoked
        BY <1>0, <3>2 DEF Grows
      <4>2. req[r].answer = "none"
        BY <1>0, <3>2 DEF RequestOK, PlaceOK
      <4> QED BY <1>0, <3>2, <3>3, <3>4, <4>1, <4>2, CallKept, QuietKeys
              DEF RequestOK, CallOK, Keeps
    <3> QED BY <3>2, <3>3, <3>5, <3>6, Quiet DEF RequestOK
  <2> QED BY <2>1, <2>2
<1>2. CASE Compare(r)
  <2>1. CASE req[r].key \in req[r].read
    <3>1. /\ Answer(r, "ok") /\ touching' = touching \cup {req[r].key}
          /\ UNCHANGED <<settings, keys, endpoint>> /\ req[r].pc = "compare"
      BY <1>2, <2>1 DEF Compare
    <3>2. req[r] \in RequestRows
      BY <1>0 DEF TypeOK
    <3>3. req[r].key \in Keys
      BY <2>1, <3>2, NamesAssumption DEF RequestRows
    <3>4. "ok" \in Answers
      BY DEF Answers
    <3>5. /\ Others(r) /\ Keeps(r) /\ req'[r].pc = "done" /\ req'[r].read = req[r].read
      BY <1>0, <3>1, <3>4, AnswerRow
    <3>7. KeysKept /\ KeysOK'
      BY <3>1, QuietKeys
    <3>8. req[r].op \notin {"attempt", "sendTest"}
      BY <1>0, <3>1 DEF RequestOK, PlaceOK
    <3>9. CallOK(r)'
      <4>1. since'[r].revoked = since[r].revoked
        BY <1>0, <3>1 DEF Grows
      <4>2. req[r].key \notin since[r].revoked
        BY <1>0, <2>1, <3>1 DEF RequestOK, CallOK
      <4> QED BY <3>5, <3>7, <4>1, <4>2, CallKept DEF CallOK, Keeps
    <3>10. PlaceOK(r)' /\ SigningOK(r)' /\ ActorOK(r)'
      BY <3>5, <3>8 DEF PlaceOK, SigningOK, ActorOK, ForBusiness, Commits, Settling, Keeps
    <3>11. RequestOK(r)'
      BY <3>9, <3>10 DEF RequestOK
    <3>12. /\ keys' \in [Keys -> KeyRows] /\ settings' \subseteq Pairs
           /\ touching' \subseteq Keys
           /\ endpoint' \in [secret : Secrets, active : BOOLEAN]
      BY <1>0, <3>1, <3>3 DEF TypeOK
    <3> QED BY <3>5, <3>7, <3>11, <3>12, StepOK
  <2>2. CASE req[r].key \notin req[r].read
    BY <1>2, <2>2, RefusedOK DEF Compare, Answers
  <2> QED BY <2>1, <2>2
<1> QED BY <1>1, <1>2

LEMMA SessionStep ==
  ASSUME IInv, Watch, NEW r \in Requests, ResolveSession(r)
  PROVE  IInv'
<1>0. TypeOK /\ RequestOK(r) /\ Grows(r) /\ KeysKept
  BY WatchGrows, QuietKeys DEF IInv, ResolveSession
<1>1. CASE Answer(r, "unauthenticated")
  BY <1>1, RefusedOK DEF ResolveSession, Answers
<1>2. ASSUME NEW b \in BusinessesOf(req[r].wallet), req[r].pc = "session",
             req' = [req EXCEPT ![r].business = b, ![r].pc = Routes[req[r].op]]
      PROVE  IInv'
  <2> DEFINE p == Routes[req[r].op]
  <2>1. /\ req[r].op \in DashboardOps /\ req[r].answer = "none"
        /\ keys[r].state = "absent"
    BY <1>0, <1>2 DEF RequestOK, PlaceOK
  <2>2. /\ p \in {"listKeys", "insert", "findForRevoke", "findEndpoint"}
        /\ req[r].op = "sendTest" => p = "findEndpoint"
        /\ req[r].op # "use" /\ req[r].op # "attempt"
    BY <2>1, RoutesAre
  <2> HIDE DEF p
  <2>3. b \in BusinessesIn(settings, req[r].wallet) /\ b \in Businesses
    BY <1>0 DEF BusinessesOf, BusinessesIn, TypeOK, Pairs
  <2>4. req[r] \in RequestRows
    BY <1>0 DEF TypeOK
  <2> DEFINE x == [req[r] EXCEPT !.business = b, !.pc = p]
  <2>5. x \in RequestRows
    BY <2>2, <2>3, <2>4 DEF RequestRows, PCs
  <2>6. /\ x.pc = p /\ x.business = b /\ x.op = req[r].op /\ x.wallet = req[r].wallet
        /\ x.answer = req[r].answer
    BY <2>4 DEF RequestRows
  <2>7. req' = [req EXCEPT ![r] = x]
    BY <1>2 DEF p
  <2>8. Others(r) /\ req'[r] = x
    BY <1>0, <2>5, <2>7, RowSet
  <2> HIDE DEF x
  <2>9. b \in since'[r].businesses
    BY <1>0, <1>2, <2>2, <2>3, <2>6, <2>8 DEF Grows
  <2>10. UNCHANGED <<settings, keys, touching, endpoint>>
    BY DEF ResolveSession
  <2>11. PlaceOK(r)' /\ SigningOK(r)'
    BY <2>1, <2>2, <2>6, <2>8, <2>10 DEF PlaceOK, SigningOK
  <2>12. CallOK(r)'
    BY <1>0, <2>1, <2>2, <2>6, <2>8, CallKept DEF CallOK
  <2>13. ActorOK(r)'
    BY <2>2, <2>6, <2>8, <2>9 DEF ActorOK, Commits, Settling
  <2> QED BY <2>8, <2>10, <2>11, <2>12, <2>13, Quiet DEF RequestOK
<1> QED BY <1>1, <1>2 DEF ResolveSession

LEMMA SucceedsOK ==
  ASSUME IInv, Watch, UNCHANGED <<settings, keys, touching, endpoint>>, NEW r \in Requests,
         Answer(r, "ok"), req[r].pc = "listKeys"
  PROVE  IInv'
<1>1. "ok" \in Answers
  BY DEF Answers
<1>2. Others(r) /\ Keeps(r) /\ req'[r].pc = "done"
  BY <1>1, AnswerRow DEF IInv
<1>3. RequestOK(r)'
  BY <1>2, QuietKeys, EndsWell
<1> QED BY <1>2, <1>3, Quiet

LEMMA LookupOK ==
  ASSUME IInv, Watch, UNCHANGED <<settings, keys, touching, endpoint>>, NEW r \in Requests,
         NEW p \in {"findByPublicId", "findForRotate", "commitRotate", "commitRevoke"},
         Goto(r, p), req[r].pc \in {"listKeys", "findByPublicId", "findForRotate", "findForRevoke"},
         p \in Commits => Found(req[r].key, req[r].business) /\ keys[req[r].key].state = "active"
  PROVE  IInv'
<1>1. p \in PCs
  BY DEF PCs
<1>2. Others(r) /\ Keeps(r) /\ req'[r].pc = p /\ req'[r].answer = req[r].answer
  BY <1>1, GotoRow DEF IInv
<1>3. req[r].key \in Keys \cup {None}
  BY DEF IInv, TypeOK, RequestRows
<1>4. RequestOK(r)'
  BY <1>2, <1>3, GoesOn DEF Found, Commits, ForBusiness, Settling
<1> QED BY <1>2, <1>4, Quiet

LEMMA KeyLookupStep ==
  ASSUME IInv, Watch, NEW r \in Requests,
         ListKeys(r) \/ FindByPublicId(r) \/ FindForRotate(r) \/ FindForRevoke(r)
  PROVE  IInv'
<1>1. "missing" \in Answers
  BY DEF Answers
<1>2. CASE ListKeys(r)
  <2>1. /\ req[r].pc = "listKeys" /\ UNCHANGED <<settings, keys, touching, endpoint>>
        /\ \/ Answer(r, "ok")
           \/ Goto(r, "findByPublicId")
           \/ Answer(r, "missing")
    BY <1>2 DEF ListKeys
  <2> QED BY <1>1, <2>1, SucceedsOK, LookupOK, RefusedOK DEF Commits
<1>3. ASSUME NEW at \in {"findByPublicId", "findForRotate", "findForRevoke"},
             NEW next \in {"findForRotate", "commitRotate", "commitRevoke"},
             FindKey(r, at, next)
      PROVE  IInv'
  BY <1>1, <1>3, LookupOK, RefusedOK DEF FindKey
<1> QED BY <1>2, <1>3 DEF FindByPublicId, FindForRotate, FindForRevoke

(* The three writers of keys: a new row, an old row retired, or both. *)
LEMMA KeyRowsOK ==
  ASSUME NEW r \in Requests, NEW b \in Businesses, NEW old \in Keys \cup {None}
  PROVE  /\ Insert(r, b, old) \in KeyRows
         /\ Insert(r, b, old).state = "active" /\ Insert(r, b, old).replaces = old
         /\ Insert(r, b, old).business = b /\ Insert(r, b, old).by = r
  BY DEF Insert, KeyRows

LEMMA RetireOK ==
  ASSUME TypeOK, NEW r \in Requests, NEW q \in Keys
  PROVE  /\ Retire(r, q) \in KeyRows
         /\ Retire(r, q).state = "revoked" /\ Retire(r, q).replaces = keys[q].replaces
         /\ Retire(r, q).business = keys[q].business /\ Retire(r, q).by = r
<1>1. keys[q] \in KeyRows
  BY DEF TypeOK
<1> QED BY <1>1 DEF Retire, KeyRows

LEMMA WriterOK ==
  ASSUME IInv, Watch, NEW r \in Requests, Answer(r, "ok"),
         req[r].pc \in {"insert", "commitRotate", "commitRevoke"},
         UNCHANGED <<settings, touching, endpoint>>,
         keys' \in [Keys -> KeyRows], KeysKept, KeysOK'
  PROVE  IInv'
<1>1. "ok" \in Answers
  BY DEF Answers
<1>2. Others(r) /\ Keeps(r) /\ req'[r].pc = "done"
  BY <1>1, AnswerRow DEF IInv
<1>3. RequestOK(r)'
  BY <1>2, EndsWell
<1> QED BY <1>2, <1>3, StepOK DEF IInv, TypeOK

LEMMA WriteStep ==
  ASSUME IInv, Watch, NEW r \in Requests,
         Generate(r) \/ CommitRotate(r) \/ CommitRevoke(r)
  PROVE  IInv'
<1>1. /\ TypeOK /\ RequestOK(r) /\ Grows(r) /\ r \in Keys
      /\ keys \in [Keys -> KeyRows] /\ KeysOK
      /\ Answer(r, "ok") /\ UNCHANGED <<settings, touching, endpoint>>
  BY WatchGrows DEF IInv, Keys, TypeOK, Generate, CommitRotate, CommitRevoke
<1>2. req'[r].pc = "done"
  BY <1>1, AnswerRow DEF Answers
<1>3. /\ req[r].pc \in ForBusiness /\ req[r].pc \in {"insert", "commitRotate", "commitRevoke"}
  BY DEF Generate, CommitRotate, CommitRevoke, ForBusiness
<1>4. /\ keys[r].state = "absent"
      /\ req[r].business \in since[r].businesses
      /\ req[r].business \in since'[r].businesses
      /\ req[r].business \in Businesses
  <2>1. keys[r].state = "absent" /\ req[r].business \in since[r].businesses
    BY <1>1, <1>3 DEF RequestOK, PlaceOK, ActorOK
  <2> QED BY <1>1, <2>1 DEF Grows, TypeOK
<1>5. \A s \in Requests : since[s].businesses \subseteq since'[s].businesses
  BY WatchGrows DEF Grows
<1>6. \A k \in Keys : /\ keys[k].replaces # None => keys[k].replaces \in Keys
                      /\ keys[k].by # None => keys[k].by \in Requests
  BY <1>1 DEF KeyRows
<1>7. CASE Generate(r)
  <2> DEFINE new == Insert(r, req[r].business, None)
  <2>1. /\ new \in KeyRows /\ new.state = "active" /\ new.replaces = None
        /\ new.business = req[r].business /\ new.by = r
    BY <1>4, KeyRowsOK
  <2>2. keys' = [keys EXCEPT ![r] = new]
    BY <1>7 DEF Generate
  <2> HIDE DEF new
  <2>3. keys' \in [Keys -> KeyRows] /\ keys'[r] = new /\ \A k \in Keys : k # r => keys'[k] = keys[k]
    BY <1>1, <2>1, <2>2
  <2>4. KeysKept
    BY <1>2, <1>4, <2>3 DEF KeysKept
  <2>5. ReplacementRetires'
    BY <1>1, <1>4, <1>6, <2>1, <2>3 DEF KeysOK, ReplacementRetires
  <2>6. ActsForOwnBusiness'
    BY <1>1, <1>4, <1>5, <1>6, <2>1, <2>3 DEF KeysOK, ActsForOwnBusiness
  <2> QED BY <1>1, <1>3, <2>3, <2>4, <2>5, <2>6, WriterOK DEF KeysOK
<1>8. ASSUME req[r].pc \in Commits
      PROVE  /\ req[r].key \in Keys /\ req[r].key # r
             /\ keys[req[r].key].state # "absent"
             /\ keys[req[r].key].business = req[r].business
             /\ Retire(r, req[r].key) \in KeyRows
             /\ Retire(r, req[r].key).state = "revoked"
             /\ Retire(r, req[r].key).replaces = keys[req[r].key].replaces
             /\ Retire(r, req[r].key).business = req[r].business
             /\ Retire(r, req[r].key).by = r
  <2>1. /\ req[r].key \in Keys /\ keys[req[r].key].state # "absent"
        /\ keys[req[r].key].business = req[r].business
    BY <1>1, <1>8 DEF RequestOK, ActorOK
  <2> QED BY <1>1, <1>4, <2>1, RetireOK
<1>9. CASE CommitRotate(r)
  <2> DEFINE q == req[r].key
             new == Insert(r, req[r].business, q)
             old == Retire(r, q)
  <2>1. /\ q \in Keys /\ q # r /\ keys[q].business = req[r].business
        /\ keys[q].state # "absent"
        /\ old \in KeyRows /\ old.state = "revoked" /\ old.replaces = keys[q].replaces
        /\ old.business = req[r].business /\ old.by = r
    BY <1>8, <1>9 DEF CommitRotate, Commits
  <2>2. /\ new \in KeyRows /\ new.state = "active" /\ new.replaces = q
        /\ new.business = req[r].business /\ new.by = r
    BY <1>4, <2>1, KeyRowsOK
  <2>3. keys' = [keys EXCEPT ![q] = old, ![r] = new]
    BY <1>9 DEF CommitRotate
  <2> HIDE DEF new, old, q
  <2>4. /\ keys' \in [Keys -> KeyRows] /\ keys'[r] = new /\ keys'[q] = old
        /\ \A k \in Keys : k # r /\ k # q => keys'[k] = keys[k]
    BY <1>1, <2>1, <2>2, <2>3
  <2>5. KeysKept
    BY <1>2, <1>4, <2>1, <2>4 DEF KeysKept
  <2>6. ReplacementRetires'
    <3>1. \A k \in Keys : keys[k].state = "revoked" => keys'[k].state = "revoked"
      BY <2>5 DEF KeysKept
    <3>2. \A k \in Keys : k # r => keys'[k].replaces = keys[k].replaces
      BY <2>1, <2>4
    <3> QED BY <1>1, <1>6, <2>1, <2>2, <2>4, <3>1, <3>2 DEF KeysOK, ReplacementRetires
  <2>7. ActsForOwnBusiness'
    BY <1>1, <1>4, <1>5, <1>6, <2>1, <2>2, <2>4 DEF KeysOK, ActsForOwnBusiness
  <2> QED BY <1>1, <1>3, <2>4, <2>5, <2>6, <2>7, WriterOK DEF KeysOK
<1>10. CASE CommitRevoke(r)
  <2> DEFINE q == req[r].key
             old == Retire(r, q)
  <2>1. /\ q \in Keys /\ q # r /\ keys[q].business = req[r].business
        /\ keys[q].state # "absent"
        /\ old \in KeyRows /\ old.state = "revoked" /\ old.replaces = keys[q].replaces
        /\ old.business = req[r].business /\ old.by = r
    BY <1>8, <1>10 DEF CommitRevoke, Commits
  <2>2. keys' = [keys EXCEPT ![q] = old]
    BY <1>10 DEF CommitRevoke
  <2> HIDE DEF old, q
  <2>3. /\ keys' \in [Keys -> KeyRows] /\ keys'[q] = old
        /\ \A k \in Keys : k # q => keys'[k] = keys[k]
    BY <1>1, <2>1, <2>2
  <2>4. KeysKept
    BY <2>1, <2>3 DEF KeysKept
  <2>5. ReplacementRetires'
    <3>1. \A k \in Keys : keys[k].state = "revoked" => keys'[k].state = "revoked"
      BY <2>4 DEF KeysKept
    <3>2. \A k \in Keys : keys'[k].replaces = keys[k].replaces
      BY <2>1, <2>3
    <3> QED BY <1>1, <1>6, <3>1, <3>2 DEF KeysOK, ReplacementRetires
  <2>6. ActsForOwnBusiness'
    BY <1>1, <1>4, <1>5, <1>6, <2>1, <2>3 DEF KeysOK, ActsForOwnBusiness
  <2> QED BY <1>1, <1>3, <2>3, <2>4, <2>5, <2>6, WriterOK DEF KeysOK
<1> QED BY <1>7, <1>9, <1>10

LEMMA SendsOK ==
  ASSUME IInv, Watch, UNCHANGED <<settings, keys, touching, endpoint>>, NEW r \in Requests,
         Read(r, "send", {endpoint.secret}), req[r].pc \in {"findEndpoint", "loadEndpoint"}
  PROVE  IInv'
<1>1. "send" \in PCs /\ endpoint.secret \in Secrets
  BY DEF PCs, IInv, TypeOK
<1>2. /\ Others(r) /\ Keeps(r) /\ req'[r].pc = "send" /\ req'[r].read = {endpoint.secret}
      /\ req'[r].answer = req[r].answer
  BY <1>1, ReadRow DEF IInv
<1>3. /\ req[r].answer = "none" /\ keys[r].state = "absent" /\ req[r].op # "use"
  BY DEF IInv, RequestOK, PlaceOK
<1>4. endpoint.secret \in since'[r].secrets
  BY <1>2, WatchGrows DEF Grows
<1>5. PlaceOK(r)' /\ SigningOK(r)' /\ ActorOK(r)'
  BY <1>2, <1>3, <1>4 DEF PlaceOK, SigningOK, ActorOK, ForBusiness, Commits, Settling, Keeps
<1>6. CallOK(r)'
  BY <1>2, <1>3, CallKept, QuietKeys DEF CallOK, Keeps
<1> QED BY <1>2, <1>5, <1>6, Quiet DEF RequestOK

LEMMA EndpointReadStep ==
  ASSUME IInv, Watch, NEW r \in Requests, FindEndpoint(r) \/ LoadEndpoint(r) \/ Send(r)
  PROVE  IInv'
<1>1. UNCHANGED <<settings, keys, touching, endpoint>> /\ KeysKept /\ RequestOK(r) /\ Grows(r)
  BY QuietKeys, WatchGrows DEF FindEndpoint, LoadEndpoint, Send, IInv
<1>2. "missing" \in Answers /\ "ok" \in Answers
  BY DEF Answers
<1>3. ASSUME req[r].pc = "findEndpoint", NEW p \in {"updateSecret", "updateEndpoint"},
             req[r].op \in {"rotateSecret", "update"}, Read(r, p, {endpoint.secret})
      PROVE  IInv'
  <2>1. p \in PCs /\ endpoint.secret \in Secrets
    BY DEF PCs, IInv, TypeOK
  <2>2. /\ Others(r) /\ Keeps(r) /\ req'[r].pc = p /\ req'[r].answer = req[r].answer
    BY <1>3, <2>1, ReadRow DEF IInv
  <2>3. req[r].answer = "none" /\ keys[r].state = "absent"
    BY <1>1, <1>3 DEF RequestOK, PlaceOK
  <2>4. PlaceOK(r)' /\ SigningOK(r)' /\ ActorOK(r)'
    BY <1>1, <1>3, <2>2, <2>3
       DEF PlaceOK, SigningOK, ActorOK, ForBusiness, Commits, Settling, Keeps
  <2>5. CallOK(r)'
    BY <1>1, <1>3, <2>2, <2>3, CallKept DEF CallOK, Keeps
  <2> QED BY <1>1, <2>2, <2>4, <2>5, Quiet DEF RequestOK
<1>4. CASE FindEndpoint(r)
  <2>1. /\ req[r].pc = "findEndpoint"
        /\ \/ Answer(r, "missing")
           \/ req[r].op = "rotateSecret" /\ Read(r, "updateSecret", {endpoint.secret})
           \/ req[r].op = "update" /\ Read(r, "updateEndpoint", {endpoint.secret})
           \/ Read(r, "send", {endpoint.secret})
    BY <1>4 DEF FindEndpoint
  <2> QED BY <1>1, <1>2, <1>3, <2>1, RefusedOK, SendsOK
<1>5. CASE LoadEndpoint(r)
  BY <1>1, <1>2, <1>5, RefusedOK, SendsOK DEF LoadEndpoint
<1>6. CASE Send(r)
  <2>1. /\ Others(r) /\ Keeps(r) /\ req'[r].pc = "done" /\ req'[r].answer = "ok"
        /\ req'[r].read = req[r].read /\ req[r].pc = "send"
    BY <1>2, <1>6, AnswerRow DEF IInv, Send
  <2>2. req[r].op # "use" /\ req[r].read \subseteq since'[r].secrets
    BY <1>1, <2>1 DEF RequestOK, PlaceOK, SigningOK, Grows
  <2>3. PlaceOK(r)' /\ SigningOK(r)' /\ ActorOK(r)'
    BY <2>1, <2>2 DEF PlaceOK, SigningOK, ActorOK, ForBusiness, Commits, Settling, Keeps
  <2>4. CallOK(r)'
    BY <1>1, <2>1, <2>2, CallKept DEF CallOK, Keeps
  <2> QED BY <1>1, <2>1, <2>3, <2>4, Quiet DEF RequestOK
<1> QED BY <1>4, <1>5, <1>6

LEMMA EndpointWriteStep ==
  ASSUME IInv, Watch, NEW r \in Requests, RotateSecret(r) \/ UpdateEndpoint(r)
  PROVE  IInv'
<1>1. /\ UNCHANGED <<settings, keys, touching>> /\ Answer(r, "ok")
      /\ req[r].pc \in {"updateSecret", "updateEndpoint"} /\ KeysKept /\ KeysOK'
  BY QuietKeys DEF RotateSecret, UpdateEndpoint
<1>2. "ok" \in Answers /\ r \in Secrets
  BY DEF Answers, Secrets
<1>3. Others(r) /\ Keeps(r) /\ req'[r].pc = "done"
  BY <1>1, <1>2, AnswerRow DEF IInv
<1>4. RequestOK(r)'
  BY <1>1, <1>3, EndsWell
<1>5. endpoint' \in [secret : Secrets, active : BOOLEAN]
  <2>1. endpoint \in [secret : Secrets, active : BOOLEAN]
    BY DEF IInv, TypeOK
  <2>2. CASE RotateSecret(r)
    BY <1>2, <2>1, <2>2 DEF RotateSecret
  <2>3. CASE UpdateEndpoint(r)
    BY <2>1, <2>3 DEF UpdateEndpoint
  <2> QED BY <2>2, <2>3
<1> QED BY <1>1, <1>3, <1>4, <1>5, StepOK DEF IInv, TypeOK

LEMMA SettingsStep ==
  ASSUME IInv, Watch, NEW r \in Requests, FindByBusiness(r) \/ FindByWallet(r) \/ Upsert(r)
  PROVE  IInv'
<1>1. ASSUME NEW p \in {"updateBusiness", "byWallet", "updateWallet", "createSettings"},
             Goto(r, p), req[r].pc \in {"byBusiness", "byWallet"},
             UNCHANGED <<settings, keys, touching, endpoint>>
      PROVE  IInv'
  <2>1. p \in PCs
    BY DEF PCs
  <2>2. Others(r) /\ Keeps(r) /\ req'[r].pc = p /\ req'[r].answer = req[r].answer
    BY <1>1, <2>1, GotoRow DEF IInv
  <2>3. RequestOK(r)'
    BY <1>1, <2>2, GoesOn DEF Commits, ForBusiness, Settling
  <2> QED BY <1>1, <2>2, <2>3, Quiet
<1>2. CASE FindByBusiness(r)
  BY <1>1, <1>2 DEF FindByBusiness
<1>3. CASE FindByWallet(r)
  BY <1>1, <1>3 DEF FindByWallet
<1>4. ASSUME NEW replaced, Store(r, replaced), UNCHANGED <<keys, touching, endpoint>>,
             req[r].pc \in {"updateBusiness", "updateWallet", "createSettings"}
      PROVE  IInv'
  <2>1. CASE Answer(r, "conflict") /\ UNCHANGED settings
    BY <1>4, <2>1, RefusedOK DEF Answers
  <2>2. CASE /\ Answer(r, "ok")
             /\ settings' = (settings \ replaced)
                  \cup {[business |-> req[r].business, wallet |-> req[r].wallet]}
    <3>1. "ok" \in Answers
      BY DEF Answers
    <3>2. Others(r) /\ Keeps(r) /\ req'[r].pc = "done"
      BY <2>2, <3>1, AnswerRow DEF IInv
    <3>3. KeysKept /\ KeysOK'
      BY <1>4, QuietKeys
    <3>4. RequestOK(r)'
      BY <1>4, <3>2, <3>3, EndsWell
    <3>5. req[r].business \in Businesses /\ req[r].wallet \in Wallets
      BY <1>4 DEF IInv, RequestOK, ActorOK, Settling
    <3>6. settings' \subseteq Pairs
      BY <2>2, <3>5 DEF IInv, TypeOK, Pairs
    <3> QED BY <1>4, <3>2, <3>3, <3>4, <3>6, StepOK DEF IInv, TypeOK
  <2> QED BY <1>4, <2>1, <2>2 DEF Store
<1>5. CASE Upsert(r)
  <2>1. /\ UNCHANGED <<keys, touching, endpoint>>
        /\ req[r].pc \in {"updateBusiness", "updateWallet", "createSettings"}
        /\ (\E replaced : Store(r, replaced)) \/ (Answer(r, "error") /\ UNCHANGED settings)
    BY <1>5 DEF Upsert, Update
  <2> QED BY <1>4, <2>1, RefusedOK DEF Answers
<1> QED BY <1>2, <1>3, <1>5

LEMMA RequestStep ==
  ASSUME IInv, Watch, NEW r \in Requests, Continue(r)
  PROVE  IInv'
<1>1. CASE FindCandidates(r) \/ Compare(r)
  BY <1>1, UseStep
<1>2. CASE ResolveSession(r)
  BY <1>2, SessionStep
<1>3. CASE ListKeys(r) \/ FindByPublicId(r) \/ FindForRotate(r) \/ FindForRevoke(r)
  BY <1>3, KeyLookupStep
<1>4. CASE Generate(r) \/ CommitRotate(r) \/ CommitRevoke(r)
  BY <1>4, WriteStep
<1>5. CASE FindEndpoint(r) \/ LoadEndpoint(r) \/ Send(r)
  BY <1>5, EndpointReadStep
<1>6. CASE RotateSecret(r) \/ UpdateEndpoint(r)
  BY <1>6, EndpointWriteStep
<1>7. CASE FindByBusiness(r) \/ FindByWallet(r) \/ Upsert(r)
  BY <1>7, SettingsStep
<1>8. CASE Fail(r)
  BY <1>8, RefusedOK DEF Fail, Answers
<1> QED BY <1>1, <1>2, <1>3, <1>4, <1>5, <1>6, <1>7, <1>8 DEF Continue

(* Requests at rest: only lastUsedAt is written, or nothing at all. *)
LEMMA RestStep ==
  ASSUME IInv, Watch, UNCHANGED <<settings, keys, endpoint, req>>, touching' \subseteq touching
  PROVE  IInv'
<1>1. KeysKept /\ KeysOK'
  BY QuietKeys
<1>2. \A s \in Requests : RequestOK(s)'
  BY <1>1, OtherRequest
<1>3. TypeOK'
  BY WatchType DEF IInv, TypeOK
<1> QED BY <1>1, <1>2, <1>3 DEF IInv

LEMMA StutterStep ==
  ASSUME IInv, UNCHANGED vars
  PROVE  IInv'
<1>1. TypeOK' /\ KeysOK'
  BY DEF IInv, vars, TypeOK, KeysOK, ReplacementRetires, ActsForOwnBusiness
<1>2. \A s \in Requests : RequestOK(s)'
  BY DEF IInv, vars, RequestOK, PlaceOK, CallOK, Revoked, SigningOK, ActorOK
<1> QED BY <1>1, <1>2 DEF IInv

LEMMA InitOK == Init => IInv
<1> SUFFICES ASSUME Init PROVE IInv
  OBVIOUS
<1>1. /\ req = [r \in Requests |-> Fresh] /\ Fresh \in RequestRows
      /\ Fresh.pc = "new" /\ Fresh.op = None /\ Fresh.answer = "none"
  <2>1. "new" \in PCs
    BY DEF PCs
  <2>2. /\ Fresh \in RequestRows /\ Fresh.pc = "new" /\ Fresh.op = None
        /\ Fresh.answer = "none"
    BY <2>1, RequestRow DEF Fresh
  <2> QED BY <2>2 DEF Init
<1>2. /\ keys \in [Keys -> KeyRows]
      /\ \A k \in Keys : /\ keys[k].replaces = None /\ keys[k].by = None
                         /\ keys[k].state # "revoked"
                         /\ k # FirstKey => keys[k].state = "absent"
  BY NamesAssumption DEF Init, NoKey, KeyRows
<1>3. TypeOK
  BY <1>1, <1>2, NamesAssumption DEF Init, TypeOK, Pairs, Secrets
<1>4. KeysOK
  BY <1>2 DEF KeysOK, ReplacementRetires, ActsForOwnBusiness
<1>5. ASSUME NEW r \in Requests PROVE RequestOK(r)
  <2>1. r \in Keys /\ r # FirstKey
    BY NamesAssumption DEF Keys
  <2>2. since[r] = [revoked |-> {}, businesses |-> {}, secrets |-> {}]
    BY DEF Init
  <2>3. PlaceOK(r)
    BY <1>1, <1>2, <2>1 DEF PlaceOK
  <2>4. CallOK(r) /\ SigningOK(r)
    BY <1>1, <2>2 DEF CallOK, SigningOK
  <2>5. ActorOK(r)
    BY <1>1 DEF ActorOK, ForBusiness, Commits, Settling
  <2> QED BY <2>3, <2>4, <2>5 DEF RequestOK
<1> QED BY <1>3, <1>4, <1>5 DEF IInv

LEMMA StepKeeps == IInv /\ [Next]_vars => IInv'
<1> SUFFICES ASSUME IInv, [Next]_vars PROVE IInv'
  OBVIOUS
<1>1. CASE UNCHANGED vars
  BY <1>1, StutterStep
<1>2. ASSUME NEW r \in Requests, Begin(r) \/ Continue(r), Watch PROVE IInv'
  BY <1>2, BeginStep, RequestStep
<1>3. ASSUME NEW k \in Keys, TouchLastUsed(k), Watch PROVE IInv'
  BY <1>3, RestStep DEF TouchLastUsed
<1> QED BY <1>1, <1>2, <1>3 DEF Next

-----------------------------------------------------------------------------
(* The inductive invariant holds in every reachable state. *)
THEOREM Invariance == Spec => []IInv
  BY InitOK, StepKeeps, PTL DEF Spec

(* Every variable keeps its type. *)
THEOREM TypeCorrect == Spec => []TypeOK
<1>1. IInv => TypeOK
  BY DEF IInv
<1> QED BY <1>1, Invariance, PTL

(* A call that arrives once its key was revoked or rotated is refused. *)
THEOREM RevokedIsRefusedHolds == Spec => []RevokedIsRefused
<1>1. IInv => RevokedIsRefused
  BY DEF IInv, RequestOK, CallOK, RevokedIsRefused
<1> QED BY <1>1, Invariance, PTL

(* A key that has a replacement is revoked, whatever races. *)
THEOREM ReplacementRetiresHolds == Spec => []ReplacementRetires
<1>1. IInv => ReplacementRetires
  BY DEF IInv, KeysOK
<1> QED BY <1>1, Invariance, PTL

(* Keys are created, rotated and revoked for a business of the session's wallet. *)
THEOREM ActsForOwnBusinessHolds == Spec => []ActsForOwnBusiness
<1>1. IInv => ActsForOwnBusiness
  BY DEF IInv, KeysOK
<1> QED BY <1>1, Invariance, PTL

(* A signed request bears a secret the endpoint had since its attempt began. *)
THEOREM SecretIsFreshHolds == Spec => []SecretIsFresh
<1>1. IInv => SecretIsFresh
  BY DEF IInv, RequestOK, SigningOK, SecretIsFresh
<1> QED BY <1>1, Invariance, PTL

(* The secret of the endpoint is only replaced by a new one, of the rotation at work. *)
THEOREM RetiredSecretsStayRetiredHolds == Spec => RetiredSecretsStayRetired
<1> DEFINE Fresher == endpoint'.secret # endpoint.secret
                        => /\ endpoint'.secret \in Requests
                           /\ req[endpoint'.secret].answer = "none"
<1>1. ASSUME IInv, Next PROVE Fresher
  <2>1. UNCHANGED endpoint \/ \E r \in Requests : RotateSecret(r) \/ UpdateEndpoint(r)
    BY <1>1 DEF Next, Begin, Continue, RefuseBearer, UseKey, FindCandidates, Compare, Arrive,
         ResolveSession, ListKeys, Generate, FindByPublicId, FindForRotate, FindForRevoke,
         FindKey, CommitRotate, CommitRevoke, FindEndpoint, TakeAttempt, LoadEndpoint, Send,
         Unauthorized, Push, FindByBusiness, FindByWallet, Upsert, Fail, TouchLastUsed
  <2>2. endpoint \in [secret : Secrets, active : BOOLEAN]
    BY <1>1 DEF IInv, TypeOK
  <2>3. ASSUME NEW r \in Requests, RotateSecret(r) PROVE Fresher
    <3>1. endpoint'.secret = r
      BY <2>2, <2>3 DEF RotateSecret
    <3>2. req[r].answer = "none"
      BY <1>1, <2>3 DEF RotateSecret, IInv, RequestOK, PlaceOK
    <3> QED BY <3>1, <3>2
  <2>4. ASSUME NEW r \in Requests, UpdateEndpoint(r) PROVE Fresher
    BY <2>2, <2>4 DEF UpdateEndpoint
  <2> QED BY <2>1, <2>3, <2>4
<1>2. IInv /\ [Next]_vars => [Fresher]_vars
  BY <1>1
<1> QED BY <1>2, Invariance, PTL DEF Spec, RetiredSecretsStayRetired
=============================================================================
