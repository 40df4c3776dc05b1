-------------------------------- MODULE Gate --------------------------------
(***************************************************************************)
(* What a request passes before and after its work: the client address     *)
(* behind proxies (src/src/trust-proxy.js, src/src/ip.js), the credential  *)
(* (src/src/auth.js, src/src/auth-http.js), the body, the limits, and the  *)
(* order in which each route of src/src/app.js asks for them.              *)
(* Addresses, credentials and bodies are small sets; a store key is the    *)
(* sequence of labels between its colons.                                  *)
(***************************************************************************)
EXTENDS Naturals, Sequences, SequencesExt

CONSTANTS
    Client,    \* callers' addresses
    Sites,     \* deployments: the proxies a request crosses and TRUST_PROXY
    Cloudflare,\* addresses of its edge
    Forged,    \* X-Forwarded-For values a caller may send itself
    Keyring,   \* API keys: [id, secret, revoked, expiresAt]
    OpenMode,  \* no key and no JWKS configured
    Tokens,    \* JWTs a caller may hold: [sub, good]
    Idem,      \* Idempotency-Key headers, as labels
    MaxClock   \* bound

ASSUME GateAssumption ==
    /\ MaxClock \in Nat /\ OpenMode \in BOOLEAN
    /\ Client \subseteq STRING /\ Forged \subseteq Seq(STRING)
    /\ \A s \in Sites :
         /\ s.trust \in {"none", "hops", "list"} /\ s.proxies \in Seq(STRING)
         /\ Client \intersect Range(s.proxies) = {}  \* no caller is a proxy

VARIABLES
    site, clock,
    req,       \* the request in work, Quiet when there is none
    records    \* settlement records: [key, owner]

gateVars == <<site, clock, req, records>>

-----------------------------------------------------------------------------
(* The address.                                                            *)

Peer(c) == IF site.proxies = <<>> THEN c ELSE Last(site.proxies)

\* Each proxy appends the address it was reached from to what the caller sent.
Forwarded(c, forged) ==
    IF site.proxies = <<>> THEN forged
    ELSE forged \o <<c>> \o SubSeq(site.proxies, 1, Len(site.proxies) - 1)

\* A hop count: the entry left of the trusted hops, the peer if there is none.
ByHops(chain, hops) ==
    LET boundary == Len(chain) - hops
    IN  IF boundary < 1 THEN Last(chain) ELSE chain[boundary]

\* compileTrustList: the proxies of the deployment and no other address.
Trusts(a) == a \in Range(site.proxies)

\* Mutant: the list is walked from the caller's side.
ByListLeft(chain) ==
    IF \E k \in DOMAIN chain : ~Trusts(chain[k])
    THEN chain[CHOOSE k \in DOMAIN chain : ~Trusts(chain[k])
                 /\ \A j \in DOMAIN chain : ~Trusts(chain[j]) => k <= j]
    ELSE chain[1]

\* A proxy list: from the peer leftwards, the first entry it does not trust.
ByList(chain) ==
    IF \E k \in DOMAIN chain : ~Trusts(chain[k])
    THEN chain[CHOOSE k \in DOMAIN chain : ~Trusts(chain[k])
                 /\ \A j \in DOMAIN chain : ~Trusts(chain[j]) => k >= j]
    ELSE chain[1]

\* resolveClientIp. The edge of Cloudflare writes CF-Connecting-IP itself.
ClientIp(c, forged) ==
    LET chain == Forwarded(c, forged) \o <<Peer(c)>> IN
    CASE Peer(c) \in Cloudflare  -> c
      [] Peer(c) \notin Cloudflare /\ site.trust = "none" -> Peer(c)
      [] Peer(c) \notin Cloudflare /\ site.trust = "hops" -> ByHops(chain, Len(site.proxies))
      [] OTHER -> ByList(chain)

\* pseudonymizeIp: the same pseudonym for the same address, never the address.
Pseudonym(a) == <<"hmac", a>>

-----------------------------------------------------------------------------
(* The credential.                                                         *)

NoKey == <<>>
Nobody == [kind |-> "none", secret |-> "", token |-> [sub |-> NoKey, good |-> FALSE]]
Credentials ==
    {Nobody} \union {[Nobody EXCEPT !.kind = "key", !.secret = k.secret] : k \in Keyring}
             \union {[Nobody EXCEPT !.kind = "jwt", !.token = t] : t \in Tokens}

\* Mutant: expiry is looked at when the process starts.
UsableAtBoot(k) == ~k.revoked /\ k.expiresAt > 0

\* verifyApiKey asks at every request whether the matching key may still be used.
Usable(k) == ~k.revoked /\ clock < k.expiresAt

\* verifyAndExtractScopes: signature, claims and scopes, as one verdict.
JwtAccepted(t) == t.good

\* requireApiKey and requireApiKeyStrict: the caller's key id, upper-cased as every
\* id here is, "denied" if refused.
Authenticated(cred, strict) ==
    CASE OpenMode -> IF strict THEN <<"denied">> ELSE NoKey
      [] ~OpenMode /\ cred.kind = "jwt" -> IF JwtAccepted(cred.token) THEN cred.token.sub ELSE <<"denied">>
      [] ~OpenMode /\ cred.kind = "key" ->
           IF \E k \in Keyring : k.secret = cred.secret /\ Usable(k)
           THEN (CHOOSE k \in Keyring : k.secret = cred.secret /\ Usable(k)).id
           ELSE <<"denied">>
      [] OTHER -> <<"denied">>

-----------------------------------------------------------------------------
(* The routes: the gates and the work of each, in order.                   *)

\* Mutant: /verify counts the request before it has read its body.
VerifyEager == <<"auth", "check", "record", "body", "scheme", "catalogue">>

\* POST /verify.
Verify == <<"auth", "check", "body", "record", "scheme", "catalogue">>

PactSubmit     == <<"auth", "body", "found", "check", "scheme", "record">>
RegisterOne    == <<"auth", "body", "check", "validate", "record", "write">>
RemoveOne      == <<"auth", "check", "body", "record", "write", "found">>
ReadOne        == <<"check", "body", "fetch", "record", "found", "etag">>
ListResources  == <<"check", "etag", "fetch", "record">>
SearchCatalog  == <<"check", "body", "etag", "fetch", "record">>
Usage          == <<"strict", "own">>
ReadSettlement == <<"auth", "lookup">>

Pipeline(route) ==
    CASE route = "verify"   -> Verify
      [] route = "pact"     -> PactSubmit
      [] route = "register" -> RegisterOne
      [] route = "remove"   -> RemoveOne
      [] route = "read"     -> ReadOne
      [] route = "list"     -> ListResources
      [] route = "search"   -> SearchCatalog
      [] route = "usage"    -> Usage
      [] route = "lookup"   -> ReadSettlement

Routes == {"verify", "pact", "register", "remove", "read", "list", "search", "usage", "lookup"}

Quiet == [route |-> "none"]
Stage == Pipeline(req.route)[req.at]
Working == req # Quiet /\ req.status = 0

Passed(r) == [r EXCEPT !.at = @ + 1,
                       !.status = CASE r.at < Len(Pipeline(r.route)) -> 0
                                    [] r.at = Len(Pipeline(r.route)) /\ r.failed -> 400
                                    [] OTHER -> 200]

\* The hooks: the resolved address replaces req.ip before anything reads it.
RequestArrives(route, c, forged, cred, idem) ==
    /\ req = Quiet
    /\ req' = [route |-> route, client |-> c, ip |-> Pseudonym(ClientIp(c, forged)),
               cred |-> cred, idem |-> idem, keyId |-> NoKey, askedAt |-> 0, at |-> 1,
               status |-> 0, failed |-> FALSE, done |-> {}, found |-> {}]
    /\ UNCHANGED <<site, clock, records>>

Authenticate ==
    /\ Working /\ Stage \in {"auth", "strict"}
    /\ LET id == Authenticated(req.cred, Stage = "strict") IN
         req' = IF id = <<"denied">> THEN [req EXCEPT !.status = 401]
                ELSE Passed([req EXCEPT !.keyId = id, !.askedAt = clock])
    /\ UNCHANGED <<site, clock, records>>

\* The answer of a check that refuses; "found" is the scheme of a network or the
\* listing, "etag" a validator that matches.
Refusal(stage) ==
    CASE stage = "check" -> 429 [] stage = "etag" -> 304 [] stage = "found" -> 404
      [] OTHER -> 400

Ask(ok) ==
    /\ Working /\ Stage \in {"check", "body", "validate", "found", "etag"}
    /\ req' = IF ok THEN Passed(req) ELSE [req EXCEPT !.status = Refusal(Stage)]
    /\ UNCHANGED <<site, clock, records>>

\* The work of a route, which may fail: /verify answers 200 with a reason, the
\* submitter's failure is recorded before its 400, a registration the store refuses
\* is answered with 400, the others answer 500.
RouteWork(ok) ==
    /\ Working /\ Stage \in {"scheme", "fetch", "write"}
    /\ LET r == [req EXCEPT !.done = @ \union {Stage}, !.failed = ~ok] IN
         req' = CASE ok \/ req.route = "pact" -> Passed(r)
                  [] ~ok /\ req.route = "verify" -> [r EXCEPT !.status = 200]
                  [] OTHER -> [r EXCEPT !.status = IF req.route = "register" THEN 400 ELSE 500]
    /\ UNCHANGED <<site, clock, records>>

\* recordVerify, recordSettle, recordCatalog, recordCatalogRead.
Count ==
    /\ Working /\ Stage = "record"
    /\ req' = Passed([req EXCEPT !.done = @ \union {"record"}])
    /\ UNCHANGED <<site, clock, records>>

\* processCataloging never fails the payment: whether the listing was dropped, over
\* its limit or landed, and counted then, the answer is the verification's.
Catalogue(lands) ==
    /\ Working /\ Stage = "catalogue"
    /\ req' = Passed([req EXCEPT !.done = IF lands THEN @ \union {"listed"} ELSE @])
    /\ UNCHANGED <<site, clock, records>>

\* getUsage reads the caller's own counters.
ReadUsage ==
    /\ Working /\ Stage = "own"
    /\ req' = Passed(req)
    /\ UNCHANGED <<site, clock, records>>

\* Tenant-safe store key.
TenantKey(keyId, idem) == IF keyId = NoKey THEN idem ELSE keyId \o idem

\* A settlement of another request is recorded under the tenant's key.
TenantSettles(keyId, idem) ==
    /\ req = Quiet /\ \A r \in records : r.key # TenantKey(keyId, idem)
    /\ records' = records \union {[key |-> TenantKey(keyId, idem), owner |-> keyId]}
    /\ UNCHANGED <<site, clock, req>>

\* Mutant: the key alone decides whose record it is.
VisibleByKey(r) == TRUE

\* A record that names another owner is not found.
Visible(r) == req.keyId = NoKey \/ r.owner = NoKey \/ r.owner = req.keyId

\* GET /settlements/:idempotencyKey and its events.
Lookup ==
    /\ Working /\ Stage = "lookup"
    /\ LET hits == {r \in records : r.key = TenantKey(req.keyId, req.idem) /\ Visible(r)} IN
         req' = [req EXCEPT !.found = hits, !.status = IF hits = {} THEN 404 ELSE 200]
    /\ UNCHANGED <<site, clock, records>>

Leave ==
    /\ req # Quiet /\ ~Working
    /\ req' = Quiet
    /\ UNCHANGED <<site, clock, records>>

Pass ==
    /\ clock < MaxClock
    /\ clock' = clock + 1
    /\ UNCHANGED <<site, req, records>>

-----------------------------------------------------------------------------
Tenants == {k.id : k \in Keyring} \union {t.sub : t \in Tokens}

GateInit == site \in Sites /\ clock = 0 /\ req = Quiet /\ records = {}

GateNext ==
    \/ \E route \in Routes, c \in Client, forged \in Forged, cred \in Credentials, idem \in Idem :
         RequestArrives(route, c, forged, cred, idem)
    \/ \E ok \in BOOLEAN : Ask(ok) \/ RouteWork(ok) \/ Catalogue(ok)
    \/ Authenticate \/ Count \/ ReadUsage \/ Lookup \/ Leave \/ Pass
    \/ \E t \in Tenants, i \in Idem : TenantSettles(t, i)

GateSpec == GateInit /\ [][GateNext]_gateVars

-----------------------------------------------------------------------------
\* The bucket a caller is counted in is never one it named itself: behind a
\* deployment that trusts exactly its proxies, req.ip stands for the caller's own
\* address, whatever X-Forwarded-For it sent. A key that ran out while the process
\* ran no longer opens anything, nor does a revoked one.
CallerIsKnown ==
    req # Quiet =>
      /\ req.ip = Pseudonym(IF site.trust = "none" /\ Peer(req.client) \notin Cloudflare
                            THEN Peer(req.client) ELSE req.client)
      /\ req.keyId # NoKey /\ req.cred.kind = "key" =>
           \E k \in Keyring : /\ k.secret = req.cred.secret /\ k.id = req.keyId
                              /\ ~k.revoked /\ req.askedAt < k.expiresAt

\* A request that was refused (401, 400, 429) used up nothing: no quota, no scheme
\* call, no write, unless it is its work that failed. Nor did a list or a search
\* that was answered from the caller's cache.
RefusedIsFree ==
    req # Quiet =>
      /\ req.status \in {401, 429, 400} /\ ~req.failed => req.done = {}
      /\ req.status = 304 /\ req.route # "read" => req.done = {}

\* A caller with a key id reads no record of another caller, although a key id
\* and an idempotency key may spell the same store key.
OwnRecordsOnly ==
    req # Quiet /\ req.keyId # NoKey =>
      \A r \in req.found : r.owner \in {NoKey, req.keyId}

\* The gates of every route: the caller is who it is, a refusal costs nothing, and
\* the reads after the work show the caller only its own records.
GateKept == CallerIsKnown /\ RefusedIsFree /\ OwnRecordsOnly
=============================================================================
