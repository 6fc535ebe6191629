--------------------------- MODULE AccessControl ---------------------------
(***************************************************************************)
(* Who may call what: the middlewares a /v1 request passes (ingress mTLS,  *)
(* content type, tenant context, client classification), the credential    *)
(* checks of the three kinds of routes, the role check, and the verifier's *)
(* cache of the identity provider's keys, which requests share.  A request *)
(* is a record: route, role (the least role the route asks for), ingress   *)
(* (what the proxy forwarded), ctype (Content-Type), header (X-AnonReq-    *)
(* Tenant-ID), label (the client's classification), auth (the              *)
(* Authorization header).                                                  *)
(* aged and late are history.                                              *)
(***************************************************************************)
EXTENDS Naturals, FiniteSets, Sequences

CONSTANTS
    Clients,        \* concurrent requests
    Inputs,         \* the requests a client may send
    Configs,        \* settings: [mtls, oidc, single, tenant, role], and the tenant
                    \* registry, tenants: tenant -> enabled
    KeyIds,         \* signing keys of the identity provider
    MaxRotations, MaxExpiries

VARIABLES
    conf,
    client,         \* per client: pc, the input, the key set it fetched, the outcome
    jwks, fresh_,   \* JWKSCache._keys and whether _expires_at lies ahead
    lock,           \* holder of JWKSCache._lock, or "free"
    published,      \* keys the identity provider publishes
    rotations, expiries,
    aged            \* withdrawn keys that the cache has since dropped

accessVars == <<conf, client, jwks, fresh_, lock, published, rotations, expiries, aged>>

\* validate_admin_settings and validate_single_tenant refuse to start.
Startable(c) ==
    /\ c.tenant \in DOMAIN c.tenants
    /\ c.single => Cardinality(DOMAIN c.tenants) = 1

NoInput == [route |-> "none"]

AccessInit ==
    /\ conf \in {c \in Configs : Startable(c)}
    /\ client = [q \in Clients |-> [pc |-> "idle", in |-> NoInput, got |-> {}, status |-> 0,
                                    state |-> "", tenant |-> "", late |-> {}]]
    /\ jwks = {} /\ fresh_ = FALSE /\ lock = "free"
    /\ published \in SUBSET KeyIds
    /\ rotations = 0 /\ expiries = 0 /\ aged = {}

-----------------------------------------------------------------------------
(* Middlewares, outermost first; 0 means: call_next. *)

\* IngressMTLSMiddleware.dispatch.
Ingress(i) ==
    IF ~conf.mtls THEN 0
    ELSE CASE i.ingress = "untrusted" -> 403
           [] i.ingress \in {"nocert", "badcert"} -> 401
           [] OTHER -> 0

\* _single_tenant_default: only for the admin key, and not under OIDC.
SingleTenantDefault(i) ==
    IF conf.single /\ ~conf.oidc /\ i.auth.kind = "adminkey" THEN conf.tenant ELSE ""

\* The tenant TenantContextMiddleware works with; "" when there is none.
HeaderTenant(i) == IF i.header = "none" THEN SingleTenantDefault(i) ELSE i.header

\* TenantContextMiddleware.dispatch.
TenantContext(i) ==
    IF i.header = "malformed" \/ HeaderTenant(i) \notin (DOMAIN conf.tenants) \ {""} THEN 400
    ELSE IF conf.tenants[HeaderTenant(i)] THEN 0 ELSE 403

\* ContentTypeMiddleware.__call__.
ContentType(i) == IF i.ctype = "unknown" THEN 415 ELSE 0

\* ClassificationMiddleware.dispatch.
ClientLabel(i) == IF i.label = "highly_restricted" THEN 451 ELSE 0

\* The first middleware that answers.
Middlewares(i) ==
    IF Ingress(i) # 0 THEN Ingress(i)
    ELSE IF ContentType(i) # 0 THEN ContentType(i)
    ELSE IF TenantContext(i) # 0 THEN TenantContext(i)
    ELSE ClientLabel(i)

-----------------------------------------------------------------------------
(* Credentials. *)

Rank == [administrator |-> 4, security_officer |-> 3, operator |-> 2, read_only_auditor |-> 1]

\* require_role.
RoleStatus(role, least) ==
    IF role \in DOMAIN Rank /\ Rank[role] >= Rank[least] THEN 200 ELSE 403

\* Mutated HeaderAgrees: a header of another tenant is accepted.
HeaderAgrees_Skipped(i, tenant) == TRUE

\* _reject_header_mismatch.
HeaderAgrees(i, tenant) == i.header \in {"none", tenant}

\* admin_key_principal and _oidc_role_principal: a tenant-bound principal,
\* then the role check.
Bound(i, role, tenant) ==
    IF tenant \in {"", "*"} \/ ~HeaderAgrees(i, tenant) THEN [status |-> 403, tenant |-> ""]
    ELSE [status |-> RoleStatus(role, i.role), tenant |-> tenant]

\* verify_api_key: the routes of the gateway's clients.
GatewayRoute(i) ==
    [status |-> IF i.auth.kind = "gateway" THEN 200 ELSE 401, tenant |-> ""]

\* Mutated LegacyKey: the gateway key opens the administrators' routes.
LegacyKey_Shared(i) ==
    IF i.auth.kind \in {"adminkey", "gateway"} THEN Bound(i, conf.role, conf.tenant)
    ELSE [status |-> 401, tenant |-> ""]

\* _bind_admin_principal and _verify_admin_credential without OIDC.
LegacyKey(i) ==
    CASE i.auth.kind = "adminkey" -> Bound(i, conf.role, conf.tenant)
      [] i.auth.kind = "gateway" /\ i.route = "governance" -> [status |-> 403, tenant |-> ""]
      [] OTHER -> [status |-> 401, tenant |-> ""]

\* verify_authorization once the key is there.  The signature is checked
\* with the key of the header's kid; then the claims; then the principal.
VerifyToken(i) ==
    IF i.auth.signer # i.auth.kid \/ ~i.auth.claims THEN [status |-> 401, tenant |-> ""]
    ELSE Bound(i, i.auth.role, i.auth.tenant)

Finish(q, i, res) ==
    [client[q] EXCEPT !.pc = "done", !.in = i, !.status = res.status, !.tenant = res.tenant,
                      !.state = HeaderTenant(i), !.got = {}]

\* A request arrives and runs to its first await or to its answer.  Tokens
\* that are not RS256 JWTs with a kid are refused before the key is read.
Arrive(q, i) ==
    LET mw == Middlewares(i)
        needsKey == conf.oidc /\ i.route # "chat" /\ i.auth.kind = "jwt"
        res == IF mw # 0 THEN [status |-> mw, tenant |-> ""]
               ELSE IF i.route = "chat" THEN GatewayRoute(i)
               ELSE IF needsKey THEN VerifyToken(i)
               ELSE IF conf.oidc THEN [status |-> 401, tenant |-> ""]
               ELSE LegacyKey(i)
        waits == mw = 0 /\ needsKey /\ ~(fresh_ /\ i.auth.kid \in jwks)
    IN
    /\ client[q].pc = "idle"
    /\ client' = [client EXCEPT ![q] =
         [(IF waits THEN [client[q] EXCEPT !.pc = "lock", !.in = i] ELSE Finish(q, i, res))
            EXCEPT !.late = aged]]
    /\ UNCHANGED <<conf, jwks, fresh_, lock, published, rotations, expiries, aged>>

\* JWKSCache.get_key: the lock is granted and the cache is read again.
GetKey(q) ==
    LET i == client[q].in IN
    /\ client[q].pc = "lock" /\ lock = "free"
    /\ IF fresh_ /\ i.auth.kid \in jwks
       THEN client' = [client EXCEPT ![q] = Finish(q, i, VerifyToken(i))] /\ UNCHANGED lock
       ELSE client' = [client EXCEPT ![q].pc = "fetch"] /\ lock' = q
    /\ UNCHANGED <<conf, jwks, fresh_, published, rotations, expiries, aged>>

\* The identity provider answers the request of refresh.
ReadJwks(q) ==
    /\ client[q].pc = "fetch"
    /\ client' = [client EXCEPT ![q].pc = "land", ![q].got = published]
    /\ UNCHANGED <<conf, jwks, fresh_, lock, published, rotations, expiries, aged>>

\* Mutated Refreshed: the keys of earlier answers are kept.
Refreshed_Merged(got) == jwks \union got

\* refresh replaces the key set.
Refreshed(got) == got

\* The answer is stored; an unknown kid is a ValueError, which no handler
\* of the credential checks catches.
Refresh(q) ==
    LET i == client[q].in IN
    /\ client[q].pc = "land"
    /\ jwks' = Refreshed(client[q].got)
    /\ fresh_' = (jwks' # {}) /\ lock' = "free"
    /\ client' = [client EXCEPT ![q] =
         Finish(q, i, IF i.auth.kid \in jwks' THEN VerifyToken(i) ELSE [status |-> 500, tenant |-> ""])]
    /\ UNCHANGED <<conf, published, rotations, expiries, aged>>

\* The fetch raises: the lock is released, the exception becomes a 500.
FetchFails(q) ==
    /\ client[q].pc = "fetch" /\ lock' = "free"
    /\ client' = [client EXCEPT ![q] = Finish(q, client[q].in, [status |-> 500, tenant |-> ""])]
    /\ UNCHANGED <<conf, jwks, fresh_, published, rotations, expiries, aged>>

\* The identity provider changes its keys (external).
RotateKeys ==
    /\ rotations < MaxRotations /\ rotations' = rotations + 1
    /\ published' \in (SUBSET KeyIds) \ {published}
    /\ aged' = aged \ published'
    /\ client' = [q \in Clients |-> [client[q] EXCEPT !.late = @ \ published']]
    /\ UNCHANGED <<conf, jwks, fresh_, lock, expiries>>

\* Mutated IsFresh: the time to live never ends.
IsFresh_Forever == fresh_

\* _is_fresh after ttl_seconds.
IsFresh == FALSE

\* ttl_seconds end.  Keys withdrawn before, and not in an answer still on
\* its way, are aged from here on.
CacheExpires ==
    /\ fresh_ /\ expiries < MaxExpiries /\ expiries' = expiries + 1
    /\ fresh_' = IsFresh
    /\ aged' = aged \union
         ((KeyIds \ published) \ UNION {client[q].got : q \in Clients})
    /\ UNCHANGED <<conf, client, jwks, lock, published, rotations>>

AccessNext ==
    \/ \E q \in Clients :
        \/ \E i \in Inputs : Arrive(q, i)
        \/ GetKey(q) \/ ReadJwks(q) \/ Refresh(q) \/ FetchFails(q)
    \/ RotateKeys \/ CacheExpires

AccessSpec == AccessInit /\ [][AccessNext]_accessVars

-----------------------------------------------------------------------------
Granted(q) == client[q].pc = "done" /\ client[q].status = 200

\* The tenant an administrator's call acts for is the one its credential is
\* bound to and the one the tenant middleware put on the request: two
\* pieces of code that read the header on their own never disagree.
ActsForOwnTenant ==
    \A q \in Clients : Granted(q) /\ client[q].in.route # "chat" =>
        /\ client[q].tenant = client[q].state
        /\ client[q].tenant = IF client[q].in.auth.kind = "jwt" THEN client[q].in.auth.tenant
                              ELSE conf.tenant

\* The gateway's client key opens no administrators' route, and with OIDC
\* configured the legacy admin key opens none either.
KeysStayApart ==
    \A q \in Clients : Granted(q) /\ client[q].in.route # "chat" =>
        client[q].in.auth.kind = IF conf.oidc THEN "jwt" ELSE "adminkey"

\* A token signed with a key that was withdrawn, and that the cache dropped
\* before the request arrived, is not accepted, whoever refreshes the cache
\* meanwhile.
WithdrawnKeysAge ==
    \A q \in Clients : Granted(q) /\ client[q].in.auth.kind = "jwt" =>
        client[q].in.auth.kid \notin client[q].late

\* What an accepted caller has shown, over every order of key rotation, cache
\* refresh and request: its tenant, the right kind of key, a key not withdrawn
\* for long.
AccessSound ==
    /\ ActsForOwnTenant
    /\ KeysStayApart
    /\ WithdrawnKeysAge

(* Said of the code and not kept by it. *)

\* auth.py answers a bad token with 401; a kid the provider does not publish
\* raises a ValueError that becomes a 500.
BadTokensAre401 ==
    \A q \in Clients : client[q].pc = "done" => client[q].status # 500
=============================================================================
