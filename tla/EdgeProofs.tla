----------------------------- MODULE EdgeProofs -----------------------------
(***************************************************************************)
(* Proofs about the two edges of the gateway and what a text meets between *)
(* them: access control for any number of clients, keys and rotations, the *)
(* policy engine for any number of requests, rules and administrators'     *)
(* calls, the adapters of the providers for any environment and any lines  *)
(* of a stream, the masking of spans and its restoring for any texts, hits *)
(* and types, and the tail buffer for any streams, window and limit.       *)
(***************************************************************************)
EXTENDS AccessControl, PolicyEngine, ProviderAdapters, SpanMasking, TailBuffer, ListProofs

-----------------------------------------------------------------------------
(***************************************************************************)
(* AccessControl.  A key is aged once the cache has dropped it after its   *)
(* withdrawal, and from then on it is neither in a fresh cache nor in an   *)
(* answer on its way.  A request that waits for a key has passed the       *)
(* middlewares and carries a token.                                        *)
(***************************************************************************)

\* A client's record has its fields.
ClientShape(r) == DOMAIN r = {"pc", "in", "got", "status", "state", "tenant", "late"}

\* What a request that waits for the provider's keys has behind it.
PassedToKeys(i) == Middlewares(i) = 0 /\ conf.oidc /\ i.route # "chat" /\ i.auth.kind = "jwt"

\* What AccessSound says of one client.
AnsweredRight(r) ==
    r.pc = "done" /\ r.status = 200 =>
        /\ r.in.route # "chat" =>
              /\ r.tenant = r.state
              /\ r.tenant = IF r.in.auth.kind = "jwt" THEN r.in.auth.tenant ELSE conf.tenant
              /\ r.in.auth.kind = IF conf.oidc THEN "jwt" ELSE "adminkey"
        /\ r.in.auth.kind = "jwt" => r.in.auth.kid \notin r.late

ClientOK(r) ==
    /\ ClientShape(r)
    /\ r.late \subseteq aged
    /\ r.got \cap aged = {}
    /\ r.pc \in {"lock", "fetch", "land"} => PassedToKeys(r.in)
    /\ AnsweredRight(r)

AccessInv ==
    /\ client = [q \in Clients |-> client[q]]
    /\ published \cap aged = {}
    /\ fresh_ => jwks \cap aged = {}
    /\ \A q \in Clients : ClientOK(client[q])

\* What the middlewares let through names a tenant: the header's or, for the
\* admin key of a single tenant without OIDC, the configured one.
LEMMA PassedNamesTenant ==
    ASSUME NEW i, Middlewares(i) = 0
    PROVE  /\ i.header # "none" => HeaderTenant(i) = i.header
           /\ i.header = "none" => /\ HeaderTenant(i) = conf.tenant
                                   /\ ~conf.oidc /\ i.auth.kind = "adminkey"
<1>1. TenantContext(i) = 0
  BY DEF Middlewares
<1>2. HeaderTenant(i) # ""
  <2>1. ASSUME HeaderTenant(i) = "" PROVE TenantContext(i) = 400
    BY <2>1 DEF TenantContext
  <2>2. TenantContext(i) # 400
    BY <1>1
  <2> QED BY <2>1, <2>2
<1>3. i.header = "none" => HeaderTenant(i) = SingleTenantDefault(i)
  BY DEF HeaderTenant
<1>4. SingleTenantDefault(i) # "" => /\ SingleTenantDefault(i) = conf.tenant
                                     /\ ~conf.oidc /\ i.auth.kind = "adminkey"
  BY DEF SingleTenantDefault
<1>5. i.header # "none" => HeaderTenant(i) = i.header
  BY DEF HeaderTenant
<1> QED BY <1>2, <1>3, <1>4, <1>5

\* A principal that is let in is bound to a tenant the header does not deny.
LEMMA BoundAgrees ==
    ASSUME NEW i, NEW role, NEW t, Bound(i, role, t).status = 200
    PROVE  Bound(i, role, t).tenant = t /\ (i.header = "none" \/ i.header = t)
<1> DEFINE refused == t \in {"", "*"} \/ ~HeaderAgrees(i, t)
<1>1. refused => Bound(i, role, t).status = 403
  BY DEF Bound
<1>2. ~refused => Bound(i, role, t).tenant = t /\ HeaderAgrees(i, t)
  BY DEF Bound
<1> HIDE DEF refused
<1>3. ~refused
  BY <1>1
<1>4. HeaderAgrees(i, t) => i.header = "none" \/ i.header = t
  BY DEF HeaderAgrees
<1> QED BY <1>2, <1>3, <1>4

\* A verified token of a request that passed the middlewares acts for the
\* tenant of the token, which is the tenant on the request.
LEMMA TokenTenant ==
    ASSUME NEW i, PassedToKeys(i), VerifyToken(i).status = 200
    PROVE  VerifyToken(i).tenant = i.auth.tenant /\ i.auth.tenant = HeaderTenant(i)
<1>1. VerifyToken(i) = Bound(i, i.auth.role, i.auth.tenant)
  <2> DEFINE refused == i.auth.signer # i.auth.kid \/ ~i.auth.claims
  <2>1. refused => VerifyToken(i).status = 401
    BY DEF VerifyToken
  <2>2. ~refused => VerifyToken(i) = Bound(i, i.auth.role, i.auth.tenant)
    BY DEF VerifyToken
  <2> QED BY <2>1, <2>2
<1>2. i.header # "none" /\ HeaderTenant(i) = i.header
  BY PassedNamesTenant DEF PassedToKeys
<1> QED BY <1>1, <1>2, BoundAgrees

\* Without OIDC only the admin key is let in, for the configured tenant.
LEMMA LegacyTenant ==
    ASSUME NEW i, Middlewares(i) = 0, LegacyKey(i).status = 200
    PROVE  /\ i.auth.kind = "adminkey"
           /\ LegacyKey(i).tenant = conf.tenant /\ conf.tenant = HeaderTenant(i)
<1>1. /\ i.auth.kind = "adminkey"
      /\ LegacyKey(i) = Bound(i, conf.role, conf.tenant)
  <2>1. i.auth.kind # "adminkey" => LegacyKey(i).status \in {401, 403}
    BY DEF LegacyKey
  <2>2. i.auth.kind = "adminkey" => LegacyKey(i) = Bound(i, conf.role, conf.tenant)
    BY DEF LegacyKey
  <2> QED BY <2>1, <2>2
<1> QED BY <1>1, BoundAgrees, PassedNamesTenant

\* The record of an answered client.
LEMMA FinishShape ==
    ASSUME NEW q \in Clients, ClientOK(client[q]), NEW i, NEW res
    PROVE  LET n == Finish(q, i, res) IN
           /\ ClientShape(n) /\ n.pc = "done" /\ n.in = i /\ n.status = res.status
           /\ n.tenant = res.tenant /\ n.state = HeaderTenant(i) /\ n.got = {}
           /\ n.late = client[q].late
<1> DEFINE c == client[q]
           h == HeaderTenant(i)
           m == [c EXCEPT !.pc = "done", !.in = i, !.status = res.status, !.tenant = res.tenant,
                          !.state = h, !.got = {}]
<1>1. DOMAIN c = {"pc", "in", "got", "status", "state", "tenant", "late"}
  BY DEF ClientOK, ClientShape
<1>2. Finish(q, i, res) = m
  BY DEF Finish
<1> HIDE DEF c, h
<1>3. /\ DOMAIN m = {"pc", "in", "got", "status", "state", "tenant", "late"}
      /\ m.pc = "done" /\ m.in = i /\ m.got = {} /\ m.status = res.status
      /\ m.state = h /\ m.tenant = res.tenant /\ m.late = c.late
  BY <1>1
<1> HIDE DEF m
<1> QED BY <1>2, <1>3 DEF ClientShape, c, h

\* What the middlewares answer depends on the settings alone.
LEMMA ConfStays == ASSUME NEW i, conf' = conf PROVE PassedToKeys(i)' <=> PassedToKeys(i)
BY DEF PassedToKeys, Middlewares, Ingress, ContentType, TenantContext, ClientLabel,
       HeaderTenant, SingleTenantDefault

\* One client moves on while the keys stay as they are, or the cache is
\* replaced by keys of which none is aged.
LEMMA ClientMoves ==
    ASSUME AccessInv, NEW q \in Clients, NEW n, client' = [client EXCEPT ![q] = n], ClientOK(n),
           conf' = conf, aged' = aged, published' = published,
           fresh_' => jwks' \cap aged = {}
    PROVE  AccessInv'
<1>1. \A p \in Clients : client'[p] = IF p = q THEN n ELSE client[p]
  BY DEF AccessInv
<1>2. client' = [p \in Clients |-> client'[p]]
  BY DEF AccessInv
<1>3. ASSUME NEW p \in Clients PROVE ClientOK(client[p])'
  <2>1. ClientOK(client'[p])
    BY <1>1 DEF AccessInv
  <2> QED BY <2>1, ConfStays DEF ClientOK, ClientShape, AnsweredRight
<1> QED BY <1>2, <1>3 DEF AccessInv

\* An answer of the middlewares or of a credential check is one that
\* AnsweredRight allows, given that no accepted key is in late.
LEMMA AnswerIsRight ==
    ASSUME NEW i, NEW n, n.in = i, n.state = HeaderTenant(i),
           n.status = 200 =>
              /\ Middlewares(i) = 0
              /\ \/ i.route = "chat" /\ i.auth.kind # "jwt"
                 \/ /\ PassedToKeys(i) /\ i.auth.kid \notin n.late
                    /\ VerifyToken(i).status = 200 /\ n.tenant = VerifyToken(i).tenant
                 \/ /\ i.route # "chat" /\ ~conf.oidc
                    /\ LegacyKey(i).status = 200 /\ n.tenant = LegacyKey(i).tenant
    PROVE  AnsweredRight(n)
<1> SUFFICES ASSUME n.pc = "done", n.status = 200
             PROVE  /\ i.route # "chat" =>
                          /\ n.tenant = HeaderTenant(i)
                          /\ n.tenant = IF i.auth.kind = "jwt" THEN i.auth.tenant ELSE conf.tenant
                          /\ i.auth.kind = IF conf.oidc THEN "jwt" ELSE "adminkey"
                    /\ i.auth.kind = "jwt" => i.auth.kid \notin n.late
  BY DEF AnsweredRight
<1>1. CASE i.route = "chat" /\ i.auth.kind # "jwt"
  BY <1>1
<1>2. CASE /\ PassedToKeys(i) /\ i.auth.kid \notin n.late
           /\ VerifyToken(i).status = 200 /\ n.tenant = VerifyToken(i).tenant
  <2>1. n.tenant = i.auth.tenant /\ n.tenant = HeaderTenant(i)
    BY <1>2, TokenTenant
  <2>2. i.auth.kind = "jwt" /\ conf.oidc
    BY <1>2 DEF PassedToKeys
  <2> QED BY <1>2, <2>1, <2>2
<1>3. CASE /\ i.route # "chat" /\ ~conf.oidc
           /\ LegacyKey(i).status = 200 /\ n.tenant = LegacyKey(i).tenant
  <2>1. i.auth.kind = "adminkey" /\ n.tenant = conf.tenant /\ n.tenant = HeaderTenant(i)
    BY <1>3, LegacyTenant
  <2> QED BY <1>3, <2>1
<1> QED BY <1>1, <1>2, <1>3

\* A request arrives.
LEMMA ArriveInv ==
    ASSUME AccessInv, NEW q \in Clients, NEW i \in Inputs, Arrive(q, i) PROVE AccessInv'
<1> DEFINE mw == Middlewares(i)
           needsKey == conf.oidc /\ i.route # "chat" /\ i.auth.kind = "jwt"
           res == IF mw # 0 THEN [status |-> mw, tenant |-> ""]
                  ELSE IF i.route = "chat" THEN GatewayRoute(i)
                  ELSE IF needsKey THEN VerifyToken(i)
                  ELSE IF conf.oidc THEN [status |-> 401, tenant |-> ""]
                  ELSE LegacyKey(i)
           waits == mw = 0 /\ needsKey /\ ~(fresh_ /\ i.auth.kid \in jwks)
           m == IF waits THEN [client[q] EXCEPT !.pc = "lock", !.in = i] ELSE Finish(q, i, res)
           n == [m EXCEPT !.late = aged]
<1>1. /\ client' = [client EXCEPT ![q] = n]
      /\ conf' = conf /\ jwks' = jwks /\ fresh_' = fresh_ /\ published' = published
      /\ aged' = aged
  BY DEF Arrive
<1>2. ClientOK(client[q]) /\ (fresh_ => jwks \cap aged = {})
  BY DEF AccessInv
<1>3. CASE waits
  <2>1. m = [client[q] EXCEPT !.pc = "lock", !.in = i]
    BY <1>3
  <2>2. PassedToKeys(i)
    BY <1>3 DEF PassedToKeys
  <2> HIDE DEF m, waits
  <2>3. /\ DOMAIN n = {"pc", "in", "got", "status", "state", "tenant", "late"}
        /\ n.pc = "lock" /\ n.in = i /\ n.got = client[q].got /\ n.late = aged
    BY <1>2, <2>1 DEF ClientOK, ClientShape
  <2> HIDE DEF n
  <2>4. ClientOK(n)
    BY <1>2, <2>2, <2>3 DEF ClientOK, ClientShape, AnsweredRight
  <2> QED BY <1>1, <1>2, <2>4, ClientMoves
<1>4. CASE ~waits
  <2>1. m = Finish(q, i, res)
    BY <1>4
  <2>r. res.status = 200 =>
              /\ Middlewares(i) = 0
              /\ \/ i.route = "chat" /\ i.auth.kind # "jwt"
                 \/ /\ PassedToKeys(i) /\ i.auth.kid \notin aged
                    /\ VerifyToken(i).status = 200 /\ res.tenant = VerifyToken(i).tenant
                 \/ /\ i.route # "chat" /\ ~conf.oidc
                    /\ LegacyKey(i).status = 200 /\ res.tenant = LegacyKey(i).tenant
    <3> SUFFICES ASSUME res.status = 200
                 PROVE  /\ Middlewares(i) = 0
                        /\ \/ i.route = "chat" /\ i.auth.kind # "jwt"
                           \/ /\ PassedToKeys(i) /\ i.auth.kid \notin aged
                              /\ VerifyToken(i).status = 200 /\ res.tenant = VerifyToken(i).tenant
                           \/ /\ i.route # "chat" /\ ~conf.oidc
                              /\ LegacyKey(i).status = 200 /\ res.tenant = LegacyKey(i).tenant
      OBVIOUS
    <3>0. mw \in {0, 400, 401, 403, 415, 451}
      <4>1. Ingress(i) \in {0, 401, 403}
        BY DEF Ingress
      <4>2. ContentType(i) \in {0, 415} /\ ClientLabel(i) \in {0, 451}
        BY DEF ContentType, ClientLabel
      <4>3. TenantContext(i) \in {0, 400, 403}
        BY DEF TenantContext
      <4> QED BY <4>1, <4>2, <4>3 DEF Middlewares
    <3>1. CASE mw # 0
      <4>1. res = [status |-> mw, tenant |-> ""]
        BY <3>1
      <4> HIDE DEF res, mw
      <4>2. res.status = mw
        BY <4>1
      <4> QED BY <3>0, <4>2
    <3>2. CASE mw = 0 /\ i.route = "chat"
      <4>1. res = GatewayRoute(i)
        BY <3>2
      <4>2. i.auth.kind # "gateway" => GatewayRoute(i).status = 401
        BY DEF GatewayRoute
      <4> HIDE DEF res
      <4> QED BY <3>2, <4>1, <4>2
    <3>3. CASE mw = 0 /\ i.route # "chat" /\ needsKey
      <4>1. fresh_ /\ i.auth.kid \in jwks
        BY <1>4, <3>3
      <4> QED BY <1>2, <3>3, <4>1 DEF PassedToKeys
    <3>4. CASE mw = 0 /\ i.route # "chat" /\ ~needsKey /\ conf.oidc
      <4>1. res = [status |-> 401, tenant |-> ""]
        BY <3>4
      <4> HIDE DEF res
      <4>2. res.status = 401
        BY <4>1
      <4> QED BY <4>2
    <3>5. CASE mw = 0 /\ i.route # "chat" /\ ~needsKey /\ ~conf.oidc
      BY <3>5
    <3> QED BY <3>1, <3>2, <3>3, <3>4, <3>5
  <2> HIDE DEF res, m
  <2>2. /\ ClientShape(m) /\ m.pc = "done" /\ m.in = i /\ m.status = res.status
        /\ m.tenant = res.tenant /\ m.state = HeaderTenant(i) /\ m.got = {}
    BY <1>2, <2>1, FinishShape
  <2>3. /\ ClientShape(n) /\ n.pc = "done" /\ n.in = i /\ n.status = res.status
        /\ n.tenant = res.tenant /\ n.state = HeaderTenant(i) /\ n.got = {} /\ n.late = aged
    BY <2>2 DEF ClientShape
  <2> HIDE DEF n
  <2>4. AnsweredRight(n)
    BY <2>3, <2>r, AnswerIsRight
  <2>5. ClientOK(n)
    BY <2>3, <2>4 DEF ClientOK
  <2> QED BY <1>1, <1>2, <2>5, ClientMoves
<1> QED BY <1>3, <1>4

\* A request that waited is answered with its token verified, or refused.
LEMMA FinishInv ==
    ASSUME AccessInv, NEW q \in Clients, NEW res, PassedToKeys(client[q].in),
           res.status = 200 => res = VerifyToken(client[q].in) /\ client[q].in.auth.kid \notin aged,
           client' = [client EXCEPT ![q] = Finish(q, client[q].in, res)],
           conf' = conf, aged' = aged, published' = published, fresh_' => jwks' \cap aged = {}
    PROVE  AccessInv'
<1> DEFINE i == client[q].in
           n == Finish(q, i, res)
<1>1. ClientOK(client[q])
  BY DEF AccessInv
<1>2. /\ ClientShape(n) /\ n.pc = "done" /\ n.in = i /\ n.status = res.status
      /\ n.tenant = res.tenant /\ n.state = HeaderTenant(i) /\ n.got = {}
      /\ n.late = client[q].late
  BY <1>1, FinishShape
<1> HIDE DEF n
<1>3. n.late \subseteq aged
  BY <1>1, <1>2 DEF ClientOK
<1>4. AnsweredRight(n)
  BY <1>2, <1>3, AnswerIsRight DEF PassedToKeys
<1>5. ClientOK(n)
  BY <1>2, <1>3, <1>4 DEF ClientOK
<1> QED BY <1>5, ClientMoves DEF n

\* A request that waits goes on within the key cache.
LEMMA KeyCacheInv ==
    ASSUME AccessInv, NEW q \in Clients,
           GetKey(q) \/ ReadJwks(q) \/ Refresh(q) \/ FetchFails(q)
    PROVE  AccessInv'
<1> DEFINE i == client[q].in
<1>0. /\ ClientOK(client[q]) /\ (fresh_ => jwks \cap aged = {}) /\ published \cap aged = {}
      /\ conf' = conf /\ published' = published /\ aged' = aged
      /\ client[q].pc \in {"lock", "fetch", "land"}
  BY DEF AccessInv, GetKey, ReadJwks, Refresh, FetchFails
<1>p. PassedToKeys(i) /\ client[q].got \cap aged = {}
  BY <1>0 DEF ClientOK
<1>1. CASE GetKey(q)
  <2>0. jwks' = jwks /\ fresh_' = fresh_
    BY <1>1 DEF GetKey
  <2>1. CASE fresh_ /\ i.auth.kid \in jwks
    <3>1. client' = [client EXCEPT ![q] = Finish(q, i, VerifyToken(i))]
      BY <1>1, <2>1 DEF GetKey
    <3> QED BY <1>0, <1>p, <2>0, <2>1, <3>1, FinishInv
  <2>2. CASE ~(fresh_ /\ i.auth.kid \in jwks)
    <3> DEFINE n == [client[q] EXCEPT !.pc = "fetch"]
    <3>1. client' = [client EXCEPT ![q] = n]
      BY <1>1, <2>2 DEF GetKey, AccessInv
    <3>2. /\ ClientShape(n) /\ n.pc = "fetch" /\ n.in = i /\ n.got = client[q].got
          /\ n.late = client[q].late
      BY <1>0 DEF ClientOK, ClientShape
    <3> HIDE DEF n
    <3>3. ClientOK(n)
      BY <1>0, <1>p, <3>2 DEF ClientOK, AnsweredRight
    <3> QED BY <1>0, <2>0, <3>1, <3>3, ClientMoves
  <2> QED BY <2>1, <2>2
<1>2. CASE ReadJwks(q)
  <2> DEFINE n == [client[q] EXCEPT !.pc = "land", !.got = published]
  <2>1. client' = [client EXCEPT ![q] = n] /\ jwks' = jwks /\ fresh_' = fresh_
    BY <1>2 DEF ReadJwks, AccessInv
  <2>2. /\ ClientShape(n) /\ n.pc = "land" /\ n.in = i /\ n.got = published
        /\ n.late = client[q].late
    BY <1>0 DEF ClientOK, ClientShape
  <2> HIDE DEF n
  <2>3. ClientOK(n)
    BY <1>0, <1>p, <2>2 DEF ClientOK, AnsweredRight
  <2> QED BY <1>0, <2>1, <2>3, ClientMoves
<1>3. CASE Refresh(q)
  <2> DEFINE res == IF i.auth.kid \in jwks' THEN VerifyToken(i) ELSE [status |-> 500, tenant |-> ""]
  <2>1. jwks' = client[q].got /\ client' = [client EXCEPT ![q] = Finish(q, i, res)]
    BY <1>3 DEF Refresh, Refreshed
  <2>2. jwks' \cap aged = {}
    BY <1>p, <2>1
  <2>3. res.status = 200 => res = VerifyToken(i) /\ i.auth.kid \notin aged
    <3>1. CASE i.auth.kid \in jwks'
      BY <2>2, <3>1
    <3>2. CASE i.auth.kid \notin jwks'
      <4>1. res = [status |-> 500, tenant |-> ""]
        BY <3>2
      <4> HIDE DEF res
      <4>2. res.status = 500
        BY <4>1
      <4> QED BY <4>2
    <3> QED BY <3>1, <3>2
  <2> HIDE DEF res
  <2> QED BY <1>0, <1>p, <2>1, <2>2, <2>3, FinishInv
<1>4. CASE FetchFails(q)
  <2> DEFINE res == [status |-> 500, tenant |-> ""]
  <2>1. client' = [client EXCEPT ![q] = Finish(q, i, res)] /\ jwks' = jwks /\ fresh_' = fresh_
    BY <1>4 DEF FetchFails
  <2>2. res.status # 200
    OBVIOUS
  <2> HIDE DEF res
  <2> QED BY <1>0, <1>p, <2>1, <2>2, FinishInv
<1> QED BY <1>1, <1>2, <1>3, <1>4

\* The provider changes its keys: what is published again is no longer aged.
LEMMA RotateKeysInv == ASSUME AccessInv, RotateKeys PROVE AccessInv'
<1>1. /\ aged' = aged \ published' /\ conf' = conf /\ jwks' = jwks /\ fresh_' = fresh_
      /\ client' = [q \in Clients |-> [client[q] EXCEPT !.late = @ \ published']]
  BY DEF RotateKeys
<1>2. ASSUME NEW q \in Clients PROVE ClientOK(client[q])'
  <2> DEFINE r == client[q]
             n == [r EXCEPT !.late = @ \ published']
  <2>1. ClientOK(r) /\ client'[q] = n
    BY <1>1 DEF AccessInv
  <2> HIDE DEF r
  <2>2. /\ ClientShape(n) /\ n.pc = r.pc /\ n.in = r.in /\ n.got = r.got
        /\ n.status = r.status /\ n.state = r.state /\ n.tenant = r.tenant
        /\ n.late = r.late \ published'
    BY <2>1 DEF ClientOK, ClientShape
  <2> HIDE DEF n
  <2>3. n.late \subseteq aged' /\ n.got \cap aged' = {}
    BY <1>1, <2>1, <2>2 DEF ClientOK
  <2>4. n.pc \in {"lock", "fetch", "land"} => PassedToKeys(n.in)
    BY <2>1, <2>2 DEF ClientOK
  <2>5. AnsweredRight(n)
    BY <2>1, <2>2 DEF ClientOK, AnsweredRight
  <2> QED BY <1>1, <2>1, <2>2, <2>3, <2>4, <2>5, ConfStays DEF ClientOK, ClientShape, AnsweredRight
<1>3. client' = [q \in Clients |-> client'[q]]
  BY <1>1
<1> QED BY <1>1, <1>2, <1>3 DEF AccessInv

\* The cache expires: what it held and is not published any more is aged.
LEMMA CacheExpiresInv == ASSUME AccessInv, CacheExpires PROVE AccessInv'
<1> DEFINE dropped == (KeyIds \ published) \ UNION {client[q].got : q \in Clients}
<1>1. /\ aged' = aged \cup dropped /\ conf' = conf /\ jwks' = jwks /\ ~fresh_'
      /\ client' = client /\ published' = published
  BY DEF CacheExpires, IsFresh
<1>2. /\ published \cap dropped = {}
      /\ \A q \in Clients : client[q].got \cap dropped = {}
  OBVIOUS
<1> HIDE DEF dropped
<1>3. ASSUME NEW q \in Clients PROVE ClientOK(client[q])'
  <2>1. ClientOK(client[q])
    BY DEF AccessInv
  <2> QED BY <1>1, <1>2, <2>1, ConfStays DEF ClientOK, ClientShape, AnsweredRight
<1> QED BY <1>1, <1>2, <1>3 DEF AccessInv

\* Who is let in, over every order of arrivals, refreshes, rotations and
\* expiries: the inductive invariant.
THEOREM AccessInvariant == AccessSpec => []AccessInv
<1>1. AccessInit => AccessInv
  <2> SUFFICES ASSUME AccessInit PROVE AccessInv
    OBVIOUS
  <2> DEFINE n == [pc |-> "idle", in |-> NoInput, got |-> {}, status |-> 0,
                   state |-> "", tenant |-> "", late |-> {}]
  <2>1. client = [q \in Clients |-> n]
    BY DEF AccessInit
  <2>2. ClientShape(n) /\ n.pc = "idle" /\ n.got = {} /\ n.late = {}
    BY DEF ClientShape
  <2> HIDE DEF n
  <2>3. ClientOK(n)
    BY <2>2 DEF ClientOK, AnsweredRight
  <2> QED BY <2>1, <2>3 DEF AccessInit, AccessInv
<1>2. AccessInv /\ [AccessNext]_accessVars => AccessInv'
  <2>1. ASSUME AccessInv, UNCHANGED accessVars PROVE AccessInv'
    <3>1. /\ conf' = conf /\ aged' = aged /\ client' = client /\ jwks' = jwks
          /\ fresh_' = fresh_ /\ published' = published
      BY <2>1 DEF accessVars
    <3>2. ASSUME NEW q \in Clients PROVE ClientOK(client[q])'
      <4>1. ClientOK(client[q])
        BY <2>1 DEF AccessInv
      <4> QED BY <3>1, <4>1, ConfStays DEF ClientOK, ClientShape, AnsweredRight
    <3> QED BY <2>1, <3>1, <3>2 DEF AccessInv
  <2> QED BY <2>1, ArriveInv, KeyCacheInv, RotateKeysInv, CacheExpiresInv DEF AccessNext
<1> QED BY <1>1, <1>2, PTL DEF AccessSpec

\* An administrator's call acts for the tenant of its credential, the keys of
\* clients and administrators open different routes, and a token of a key
\* withdrawn for long is refused: AccessSound holds for any number of
\* requests, rotations and expiries.
THEOREM AccessIsSound == AccessSpec => []AccessSound
<1>1. AccessInv => AccessSound
  BY DEF AccessInv, ClientOK, AnsweredRight, AccessSound, ActsForOwnTenant, KeysStayApart,
         WithdrawnKeysAge, Granted
<1> QED BY <1>1, AccessInvariant, PTL

-----------------------------------------------------------------------------
(***************************************************************************)
(* PolicyEngine: the requests.                                             *)
(***************************************************************************)

ReqShape(q) == DOMAIN q = {"pc", "stage", "level", "seen", "broken", "status"}

Refused(q) == q.pc = "done" /\ q.status # 200

\* A request of which a check has failed has been refused.
ReqOK(q) ==
    /\ ReqShape(q)
    /\ q.broken \in BOOLEAN
    /\ q.broken => Refused(q)

RequestsOK ==
    /\ req = [r \in Requests |-> req[r]]
    /\ \A r \in Requests : ReqOK(req[r])

\* One request goes on; what it would fill the store with are the rules the
\* configuration and the process hold now.
GoesOn(r) ==
    \E n : /\ ReqOK(n)
           /\ n.pc = "fill" => n.seen = Uncached
           /\ req' = [req EXCEPT ![r] = n]

\* A block is never answered 200.
LEMMA BlockStatusIsError == ASSUME NEW d PROVE BlockStatus(d) # 200
<1>1. BlockStatus(d) \in {429, 503, 402, 451, 403}
  BY DEF BlockStatus
<1> QED BY <1>1

\* What enforce makes of a request.
LEMMA EnforcedShape ==
    ASSUME NEW q, ReqShape(q), NEW d, NEW n, n = Enforced(q, d)
    PROVE  /\ ReqShape(n) /\ n.broken = q.broken /\ n.pc # "fill"
           /\ d.action = "BLOCK" => Refused(n)
<1> DEFINE forward == d.action \in {"ALLOW", "FLAG_AND_FORWARD"}
           n1 == [q EXCEPT !.pc = "next", !.stage = 2, !.seen = << >>]
           n2 == [q EXCEPT !.pc = "done", !.status = 200, !.seen = << >>]
           n3 == [q EXCEPT !.pc = "done", !.status = 503, !.seen = << >>]
           b == BlockStatus(d)
           n4 == [q EXCEPT !.pc = "done", !.status = b, !.seen = << >>]
<1> HIDE DEF b
<1>1. /\ ReqShape(n1) /\ n1.broken = q.broken /\ n1.pc = "next"
      /\ ReqShape(n2) /\ n2.broken = q.broken /\ n2.pc = "done"
      /\ ReqShape(n3) /\ n3.broken = q.broken /\ n3.pc = "done"
      /\ ReqShape(n4) /\ n4.broken = q.broken /\ n4.pc = "done" /\ n4.status = b
  BY DEF ReqShape
<1>2. CASE forward /\ q.stage = 1
  <2>1. Enforced(q, d) = n1
    BY <1>2 DEF Enforced
  <2> HIDE DEF n1, n2, n3, n4
  <2> QED BY <1>1, <1>2, <2>1 DEF Refused
<1>3. CASE forward /\ q.stage = 2
  <2>1. Enforced(q, d) = n2
    BY <1>3 DEF Enforced
  <2> HIDE DEF n1, n2, n3, n4
  <2> QED BY <1>1, <1>3, <2>1 DEF Refused
<1>4. CASE d.action = "ROUTE_LOCAL"
  <2>1. Enforced(q, d) = n3
    BY <1>4 DEF Enforced
  <2> HIDE DEF n1, n2, n3, n4
  <2> QED BY <1>1, <1>4, <2>1 DEF Refused
<1>5. CASE ~(forward /\ q.stage = 1) /\ ~(forward /\ q.stage = 2) /\ d.action # "ROUTE_LOCAL"
  <2>1. Enforced(q, d) = n4
    BY <1>5 DEF Enforced, b
  <2>2. b # 200
    BY BlockStatusIsError DEF b
  <2> HIDE DEF n1, n2, n3, n4, forward
  <2> QED BY <1>1, <2>1, <2>2 DEF Refused
<1> QED BY <1>2, <1>3, <1>4, <1>5

\* enforce of a request none of whose checks failed, or of a block.
LEMMA EnforceGoesOn ==
    ASSUME NEW r, NEW q, ReqShape(q), q.broken \in BOOLEAN, NEW d,
           q.broken => d.action = "BLOCK", req' = [req EXCEPT ![r] = Enforced(q, d)]
    PROVE  GoesOn(r)
<1>1. PICK n : n = Enforced(q, d)
  OBVIOUS
<1>2. ReqShape(n) /\ n.broken = q.broken /\ n.pc # "fill"
  BY <1>1, EnforcedShape
<1>3. d.action = "BLOCK" => Refused(n)
  BY <1>1, EnforcedShape
<1>4. ReqOK(n)
  BY <1>2, <1>3 DEF ReqOK
<1> QED BY <1>1, <1>2, <1>4 DEF GoesOn

\* A request that has not failed moves to another place.
LEMMA MoveGoesOn ==
    ASSUME NEW r, NEW q, ReqShape(q), q.broken = FALSE, NEW place, NEW seen,
           place = "fill" => seen = Uncached,
           req' = [req EXCEPT ![r] = [q EXCEPT !.pc = place, !.seen = seen]]
    PROVE  GoesOn(r)
<1> DEFINE n == [q EXCEPT !.pc = place, !.seen = seen]
<1>1. ReqShape(n) /\ n.broken = FALSE /\ n.pc = place /\ n.seen = seen
  BY DEF ReqShape
<1>3. req' = [req EXCEPT ![r] = n]
  OBVIOUS
<1> HIDE DEF n
<1>2. ReqOK(n)
  BY <1>1 DEF ReqOK
<1> QED BY <1>1, <1>2, <1>3 DEF GoesOn

\* A failed check blocks.
LEMMA BrokenGoesOn ==
    ASSUME NEW r, ReqShape(req[r]), NEW why, Broken(r, why) PROVE GoesOn(r)
<1> DEFINE q == [req[r] EXCEPT !.broken = TRUE]
           d == Decision("BLOCK", why)
<1>1. ReqShape(q) /\ q.broken = TRUE
  BY DEF ReqShape
<1>2. d.action = "BLOCK"
  BY DEF Decision
<1>3. req' = [req EXCEPT ![r] = Enforced(q, d)]
  BY DEF Broken, Conclude
<1> HIDE DEF q, d
<1> QED BY <1>1, <1>2, <1>3, EnforceGoesOn

\* A classification blocks or leads to the next check.
LEMMA AfterRulesGoesOn ==
    ASSUME NEW r, NEW d, ReqShape(req[r]), req[r].broken = FALSE, AfterRules(r, req[r], d)
    PROVE  GoesOn(r)
<1>1. CASE d.action = "BLOCK"
  <2>1. req' = [req EXCEPT ![r] = Enforced(req[r], d)]
    BY <1>1 DEF AfterRules, Conclude
  <2> QED BY <1>1, <2>1, EnforceGoesOn
<1>2. CASE d.action # "BLOCK"
  <2> DEFINE n == [req[r] EXCEPT !.pc = "rate", !.seen = << >>]
  <2>1. req' = [req EXCEPT ![r] = n]
    BY <1>2 DEF AfterRules
  <2>2. ReqShape(n) /\ n.broken = FALSE /\ n.pc = "rate"
    BY DEF ReqShape
  <2> HIDE DEF n
  <2>3. ReqOK(n)
    BY <2>2 DEF ReqOK
  <2> QED BY <2>1, <2>2, <2>3 DEF GoesOn
<1> QED BY <1>1, <1>2

\* Every step of a request is such a move.
LEMMA RequestGoesOn ==
    ASSUME RequestsOK, NEW r \in Requests,
           \/ \E l \in Levels : Evaluate(r, l)
           \/ GetRules(r) \/ FillRules(r) \/ CheckRate(r) \/ CheckSpend(r)
    PROVE  GoesOn(r)
<1>1. /\ req = [p \in Requests |-> req[p]] /\ ReqShape(req[r])
      /\ req[r].pc \in {"new", "next", "rules", "fill", "rate", "spend"}
  BY DEF RequestsOK, ReqOK, Evaluate, GetRules, FillRules, CheckRate, CheckSpend
<1>2. req[r].broken = FALSE
  BY <1>1 DEF RequestsOK, ReqOK, Refused
<1>3. ASSUME NEW l \in Levels, Evaluate(r, l) PROVE GoesOn(r)
  <2> DEFINE q == [req[r] EXCEPT !.level = l]
  <2>1. ReqShape(q) /\ q.broken = FALSE /\ q.seen = req[r].seen
    BY <1>1, <1>2 DEF ReqShape
  <2>2. \/ req' = [req EXCEPT ![r] = Enforced(q, decided[Kind(q)])]
        \/ req' = [req EXCEPT ![r] = [q EXCEPT !.pc = "rules"]]
    BY <1>3 DEF Evaluate
  <2> HIDE DEF q
  <2>3. CASE req' = [req EXCEPT ![r] = Enforced(q, decided[Kind(q)])]
    BY <2>1, <2>3, EnforceGoesOn
  <2>4. CASE req' = [req EXCEPT ![r] = [q EXCEPT !.pc = "rules"]]
    <3> DEFINE n == [q EXCEPT !.pc = "rules"]
    <3>1. ReqShape(n) /\ n.broken = FALSE /\ n.pc = "rules"
      BY <2>1 DEF ReqShape
    <3>2. req' = [req EXCEPT ![r] = n]
      BY <2>4
    <3> HIDE DEF n
    <3>3. ReqOK(n)
      BY <3>1 DEF ReqOK
    <3> QED BY <3>1, <3>2, <3>3 DEF GoesOn
  <2> QED BY <2>2, <2>3, <2>4
<1>4. CASE GetRules(r)
  <2>1. CASE req' = [req EXCEPT ![r].pc = "fill", ![r].seen = Uncached]
    <3>1. req' = [req EXCEPT ![r] = [req[r] EXCEPT !.pc = "fill", !.seen = Uncached]]
      BY <1>1, <2>1
    <3> QED BY <1>1, <1>2, <3>1, MoveGoesOn
  <2> QED BY <1>1, <1>2, <1>4, <2>1, AfterRulesGoesOn, BrokenGoesOn DEF GetRules
<1>5. CASE FillRules(r)
  BY <1>1, <1>2, <1>5, AfterRulesGoesOn, BrokenGoesOn DEF FillRules
<1>6. CASE CheckRate(r)
  <2>1. CASE Conclude(r, req[r], Decision("BLOCK", "rate_limit"))
    <3>1. req' = [req EXCEPT ![r] = Enforced(req[r], Decision("BLOCK", "rate_limit"))]
      BY <2>1 DEF Conclude
    <3> QED BY <1>1, <1>2, <3>1, EnforceGoesOn
  <2>2. CASE req' = [req EXCEPT ![r].pc = "spend"]
    <3> DEFINE n == [req[r] EXCEPT !.pc = "spend"]
    <3>1. ReqShape(n) /\ n.broken = FALSE /\ n.pc = "spend"
      BY <1>1, <1>2 DEF ReqShape
    <3>2. req' = [req EXCEPT ![r] = n]
      BY <1>1, <2>2
    <3> HIDE DEF n
    <3>3. ReqOK(n)
      BY <3>1 DEF ReqOK
    <3> QED BY <3>1, <3>2, <3>3 DEF GoesOn
  <2> QED BY <1>1, <1>6, <2>1, <2>2, BrokenGoesOn DEF CheckRate
<1>7. CASE CheckSpend(r)
  <2>1. ASSUME NEW d, Conclude(r, req[r], d) PROVE GoesOn(r)
    BY <1>1, <1>2, <2>1, EnforceGoesOn DEF Conclude
  <2> QED BY <1>1, <1>7, <2>1, BrokenGoesOn DEF CheckSpend, AfterSpend
<1> QED BY <1>3, <1>4, <1>5, <1>6, <1>7

-----------------------------------------------------------------------------
(***************************************************************************)
(* PolicyEngine: the stored rules.                                         *)
(***************************************************************************)

Rules == NewRules \union ToSet(GlobalRules)

\* The list s holds the rule x; alone with its id, where that is promised.
Has(s, x) ==
    /\ x \in ToSet(s)
    /\ x.id \in single \ GlobalIds => WithId(s, x.id) = {x}

StoreShape ==
    /\ own \in Seq(Rules)
    /\ stored \in Seq(Rules) \union {NoRule}
    /\ standing \subseteq NewRules
    /\ stale \in BOOLEAN

\* What is stored follows from what the process holds, or is stale.
InStep == stale \/ stored \in {NoRule, own, Uncached}

StandingOK == \A x \in standing : Has(own, x)

FillOK(q) == q.pc = "fill" => q.seen \in Seq(Rules)

UpsertShape(q) ==
    /\ DOMAIN q = {"pc", "path", "rule", "seen", "alone", "found"}
    /\ q.alone \in BOOLEAN
    /\ q.pc \in {"getfill", "load", "loadfill", "save"} => q.rule \in NewRules
    /\ q.pc \in {"getfill", "loadfill", "save"} => q.seen \in Seq(Rules)
    /\ q.pc = "save" => q.rule \in ToSet(q.seen)

\* The list s is what may be saved for q: its rule is alone with its id if that
\* is the id in the path, and of the rules that stand it holds all but those
\* that q replaces.
Saves(q, s) ==
    /\ q.path = q.rule.id => WithId(s, q.path) = {q.rule}
    /\ \A x \in standing : x.id # q.path =>
          /\ x \in ToSet(s)
          /\ x.id \in single \ GlobalIds /\ x.id # q.rule.id => WithId(s, x.id) = {x}

\* An upsert that has been alone knows whether there is a rule to replace, has
\* read what the process holds, and is about to save such a list.
AloneOK(q) ==
    q.alone =>
        /\ q.pc \in {"getfill", "load", "loadfill"} =>
              q.found \/ WithId(Uncached, q.path) = {}
        /\ q.pc = "loadfill" => q.seen = Uncached
        /\ q.pc = "save" => Saves(q, q.seen)

UpsertsOK ==
    /\ upsert = [u \in Upserts |-> upsert[u]]
    /\ \A u \in Upserts :
          /\ UpsertShape(upsert[u]) /\ AloneOK(upsert[u])
          /\ upsert[u].alone /\ Busy(u) => ~OthersBusy(u)

StoreInv ==
    /\ StoreShape /\ InStep /\ StandingOK
    /\ \A r \in Requests : FillOK(req[r])
    /\ UpsertsOK

\* What the counter of the minute and the history of the limiter agree on.
Limits == rpm \in Nat /\ fresh \in Nat /\ fresh <= rpm /\ fresh <= RPM

PolicyInv == RequestsOK /\ StoreInv /\ Limits

\* The list an uncached load returns, and the list any load returns.
LEMMA LoadedRules ==
    ASSUME StoreShape
    PROVE  /\ Uncached \in Seq(Rules) /\ Loaded \in Seq(Rules) /\ NoRule \notin Seq(Rules)
           /\ ToSet(Uncached) = ToSet(GlobalRules) \union ToSet(own)
<1>1. NoRule \notin Seq(Rules)
  BY PolicyAssumption DEF Rules
<1>2. GlobalRules \in Seq(Rules)
  <2>1. GlobalRules \in Seq(ToSet(GlobalRules))
    BY PolicyAssumption
  <2> QED BY <2>1 DEF Rules
<1>3. own \in Seq(Rules)
  BY DEF StoreShape
<1>4. Uncached \in Seq(Rules)
  BY <1>2, <1>3 DEF Uncached
<1>5. Loaded \in Seq(Rules)
  BY <1>4 DEF Loaded, StoreShape
<1>6. Rules # {} => ToSet(Uncached) = ToSet(GlobalRules) \union ToSet(own)
  <2> SUFFICES ASSUME NEW e \in Rules
               PROVE  ToSet(Uncached) = ToSet(GlobalRules) \union ToSet(own)
    OBVIOUS
  <2> QED BY <1>2, <1>3, ListElements DEF Uncached
<1>7. Rules = {} => ToSet(Uncached) = ToSet(GlobalRules) \union ToSet(own)
  <2>1. ToSet(Uncached) \subseteq Rules /\ ToSet(own) \subseteq Rules /\ ToSet(GlobalRules) \subseteq Rules
    BY <1>2, <1>3, <1>4 DEF ToSet
  <2> QED BY <2>1
<1> QED BY <1>1, <1>4, <1>5, <1>6, <1>7

\* A rule that stands is in the list of an uncached load, and in that of any
\* load while the stored rules are not stale.
LEMMA StandingLoaded ==
    ASSUME StoreShape, InStep, StandingOK, NEW x \in standing
    PROVE  Has(Uncached, x) /\ (~stale => Has(Loaded, x))
<1>1. Has(own, x) /\ ToSet(Uncached) = ToSet(GlobalRules) \union ToSet(own)
  BY LoadedRules DEF StandingOK
<1>2. ASSUME x.id \notin GlobalIds PROVE WithId(Uncached, x.id) = WithId(own, x.id)
  BY <1>1, <1>2 DEF WithId, GlobalIds
<1>3. Has(Uncached, x)
  BY <1>1, <1>2 DEF Has
<1>4. ~stale => Loaded \in {own, Uncached}
  BY DEF InStep, Loaded
<1> QED BY <1>1, <1>3, <1>4

\* What a rule takes the place of: the list that is then saved.
LEMMA ReplacedSaves ==
    ASSUME NEW q, q.rule \in Rules, NEW s \in Seq(Rules),
           q.found \/ WithId(s, q.path) = {}, \A x \in standing : Has(s, x)
    PROVE  Saves(q, Replaced(q, s))
<1> DEFINE S == {e \in ToSet(s) : e.id # q.path}
           rest == IF q.found THEN WithoutRule(s, q.path) ELSE s
<1>1. Kept(s, S) \in Seq(Rules) /\ ToSet(Kept(s, S)) = ToSet(s) \cap S
  BY KeptElements
<1>2. rest \in Seq(Rules) /\ ToSet(rest) = S
  <2>1. WithoutRule(s, q.path) = Kept(s, S)
    BY DEF WithoutRule
  <2>2. ~q.found => ToSet(s) = S
    BY DEF WithId
  <2>3. ToSet(s) \cap S = S
    OBVIOUS
  <2> HIDE DEF S
  <2> QED BY <1>1, <2>1, <2>2, <2>3
<1>3. Replaced(q, s) = Append(rest, q.rule)
  BY DEF Replaced
<1> HIDE DEF rest
<1>4. ToSet(Replaced(q, s)) = S \union {q.rule}
  BY <1>2, <1>3, ListElements
<1> DEFINE out == Replaced(q, s)
<1> HIDE DEF out
<1>5. ToSet(out) = S \union {q.rule}
  BY <1>4 DEF out
<1>6. q.path = q.rule.id => WithId(out, q.path) = {q.rule}
  BY <1>5 DEF WithId
<1>7. ASSUME NEW x \in standing, x.id # q.path
      PROVE  /\ x \in ToSet(out)
             /\ x.id \in single \ GlobalIds /\ x.id # q.rule.id => WithId(out, x.id) = {x}
  <2>1. x \in ToSet(s) /\ (x.id \in single \ GlobalIds => WithId(s, x.id) = {x})
    BY DEF Has
  <2>2. x.id # q.rule.id => WithId(out, x.id) = WithId(s, x.id)
    BY <1>5, <1>7 DEF WithId
  <2> QED BY <1>5, <1>7, <2>1, <2>2
<1>8. Saves(q, out)
  BY <1>6, <1>7 DEF Saves
<1> QED BY <1>8 DEF out

\* The list that is saved is a list of rules, and holds the one of the body.
LEMMA ReplacedShape ==
    ASSUME NEW q, q.rule \in Rules, NEW s \in Seq(Rules)
    PROVE  Replaced(q, s) \in Seq(Rules) /\ q.rule \in ToSet(Replaced(q, s))
<1>1. PICK rest : rest = IF q.found THEN WithoutRule(s, q.path) ELSE s
  OBVIOUS
<1>2. rest \in Seq(Rules)
  BY <1>1, KeptElements DEF WithoutRule
<1>3. Replaced(q, s) = Append(rest, q.rule)
  BY <1>1 DEF Replaced
<1>4. ToSet(Append(rest, q.rule)) = ToSet(rest) \union {q.rule}
  BY <1>2, ListElements
<1> QED BY <1>2, <1>3, <1>4

\* What is said of the upserts rests on nothing but what the process holds,
\* what stands, and the upserts.
LEMMA UpsertsQuiet ==
    ASSUME UpsertsOK, UNCHANGED <<own, standing, single, upsert>> PROVE UpsertsOK'
<1>1. \A u : (Busy(u))' = Busy(u) /\ (OthersBusy(u))' = OthersBusy(u)
  BY DEF Busy, OthersBusy
<1>2. Uncached' = Uncached
  BY DEF Uncached
<1>3. ASSUME NEW u \in Upserts
      PROVE  /\ UpsertShape(upsert[u])' /\ AloneOK(upsert[u])'
             /\ upsert'[u].alone /\ (Busy(u))' => ~(OthersBusy(u))'
  <2>1. /\ UpsertShape(upsert[u]) /\ AloneOK(upsert[u])
        /\ upsert[u].alone /\ Busy(u) => ~OthersBusy(u)
    BY DEF UpsertsOK
  <2>2. UpsertShape(upsert[u])'
    BY <2>1 DEF UpsertShape
  <2>3. AloneOK(upsert[u])'
    BY <1>2, <2>1 DEF AloneOK, Saves, WithId
  <2> QED BY <1>1, <2>1, <2>2, <2>3
<1> QED BY <1>3 DEF UpsertsOK

\* One upsert moves, and the process and what stands stay.
LEMMA UpsertMoves ==
    ASSUME UpsertsOK, NEW u \in Upserts, NEW n, upsert' = [upsert EXCEPT ![u] = n],
           UNCHANGED <<own, standing, single>>,
           Busy(u), n.pc \in {"getfill", "load", "loadfill", "save"},
           n.alone => upsert[u].alone, UpsertShape(n), AloneOK(n)
    PROVE  UpsertsOK'
<1>1. /\ upsert'[u] = n /\ \A v \in Upserts \ {u} : upsert'[v] = upsert[v]
      /\ upsert' = [v \in Upserts |-> upsert'[v]]
  BY DEF UpsertsOK
<1>2. \A v \in Upserts : (Busy(v))' <=> Busy(v)
  <2>1. (Busy(u))'
    BY <1>1 DEF Busy
  <2>2. ASSUME NEW v \in Upserts, v # u PROVE (Busy(v))' <=> Busy(v)
    BY <1>1, <2>2 DEF Busy
  <2> QED BY <2>1, <2>2
<1>3. \A v \in Upserts : (OthersBusy(v))' <=> OthersBusy(v)
  BY <1>2 DEF OthersBusy
<1>4. Uncached' = Uncached
  BY DEF Uncached
<1>5. ASSUME NEW v \in Upserts
      PROVE  /\ UpsertShape(upsert[v])' /\ AloneOK(upsert[v])'
             /\ upsert'[v].alone /\ (Busy(v))' => ~(OthersBusy(v))'
  <2>1. PICK m : m = upsert'[v]
    OBVIOUS
  <2>2. UpsertShape(m) /\ AloneOK(m) /\ (m.alone /\ Busy(v) => ~OthersBusy(v))
    BY <1>1, <2>1 DEF UpsertsOK
  <2>3. UpsertShape(upsert[v])'
    BY <2>1, <2>2 DEF UpsertShape
  <2>4. AloneOK(upsert[v])'
    BY <1>4, <2>1, <2>2 DEF AloneOK, Saves, WithId
  <2> QED BY <1>2, <1>3, <2>1, <2>2, <2>3, <2>4
<1> QED BY <1>1, <1>5 DEF UpsertsOK

\* A fill, of a request or an upsert, or none.
LEMMA FillStep ==
    ASSUME StoreShape, InStep, StandingOK, NEW s \in Seq(Rules), UNCHANGED <<own, standing, single>>,
           Fill(s) \/ UNCHANGED <<stored, stale>>
    PROVE  StoreShape' /\ InStep' /\ StandingOK'
<1>1. Uncached' = Uncached
  BY DEF Uncached
<1>2. StandingOK'
  BY DEF StandingOK, Has, WithId
<1>3. CASE Fill(s)
  <2>1. stored' = s /\ stale' = (s # Uncached)
    BY <1>3 DEF Fill
  <2>2. StoreShape' /\ InStep'
    BY <1>1, <2>1 DEF StoreShape, InStep
  <2> QED BY <1>2, <2>2
<1>4. CASE UNCHANGED <<stored, stale>>
  BY <1>1, <1>2, <1>4 DEF StoreShape, InStep
<1> QED BY <1>3, <1>4

\* The requests do not ask for more than that their lists are lists of rules.
LEMMA FillsQuiet ==
    ASSUME StoreInv, UNCHANGED req \/ \E r \in Requests : RequestsOK /\ GoesOn(r)
    PROVE  \A q \in Requests : FillOK(req[q])'
<1> SUFFICES ASSUME NEW q \in Requests PROVE FillOK(req[q])'
  OBVIOUS
<1>1. FillOK(req[q]) /\ Uncached \in Seq(Rules)
  BY LoadedRules DEF StoreInv
<1>2. CASE req'[q] = req[q]
  BY <1>1, <1>2 DEF FillOK
<1>3. CASE req'[q] # req[q]
  <2>1. PICK r \in Requests : RequestsOK /\ GoesOn(r)
    BY <1>3
  <2>2. PICK n : /\ n.pc = "fill" => n.seen = Uncached
                 /\ req' = [req EXCEPT ![r] = n]
    BY <2>1 DEF GoesOn
  <2>3. req'[q] = n
    BY <1>3, <2>1, <2>2 DEF RequestsOK
  <2> QED BY <1>1, <2>2, <2>3 DEF FillOK
<1> QED BY <1>2, <1>3

\* A step of a request that leaves the store alone.
LEMMA StoreQuiet ==
    ASSUME StoreInv, UNCHANGED storeVars,
           UNCHANGED req \/ \E r \in Requests : RequestsOK /\ GoesOn(r)
    PROVE  StoreInv'
<1>1. UNCHANGED <<stored, own, upsert, standing, single, stale>>
  BY DEF storeVars
<1>2. StoreShape' /\ InStep' /\ StandingOK'
  BY <1>1 DEF StoreInv, StoreShape, InStep, Uncached, StandingOK, Has, WithId
<1>3. UpsertsOK'
  BY <1>1, UpsertsQuiet DEF StoreInv
<1> QED BY <1>2, <1>3, FillsQuiet DEF StoreInv

\* The rules expire: the next load puts them together again.
LEMMA RulesExpireInv == ASSUME StoreInv, RulesExpire PROVE StoreInv'
<1>1. stored' = NoRule /\ stale' = FALSE /\ UNCHANGED <<own, upsert, standing, single, req>>
  BY DEF RulesExpire
<1>2. StoreShape' /\ InStep' /\ StandingOK'
  BY <1>1 DEF StoreInv, StoreShape, InStep, StandingOK, Has, WithId
<1>3. UpsertsOK'
  BY <1>1, UpsertsQuiet DEF StoreInv
<1>4. \A r \in Requests : FillOK(req[r])'
  BY <1>1, FillsQuiet
<1> QED BY <1>2, <1>3, <1>4 DEF StoreInv

\* A request fills the store with what it has loaded, or fails to.
LEMMA FillRulesInv ==
    ASSUME StoreInv, RequestsOK, NEW r \in Requests, FillRules(r) PROVE StoreInv'
<1>1. /\ Fill(req[r].seen) \/ UNCHANGED <<stored, stale>>
      /\ UNCHANGED <<own, standing, single, upsert>> /\ req[r].pc = "fill"
  BY DEF FillRules
<1>2. GoesOn(r)
  BY RequestGoesOn
<1>3. PICK s : s = req[r].seen
  OBVIOUS
<1>4. s \in Seq(Rules)
  BY <1>1, <1>3 DEF StoreInv, FillOK
<1>5. StoreShape' /\ InStep' /\ StandingOK'
  BY <1>1, <1>3, <1>4, FillStep DEF StoreInv
<1>6. UpsertsOK'
  BY <1>1, UpsertsQuiet DEF StoreInv
<1>7. \A q \in Requests : FillOK(req[q])'
  BY <1>2, FillsQuiet
<1> QED BY <1>5, <1>6, <1>7 DEF StoreInv

\* What get_policy finds there is to find in a list.
LEMMA FoundRules ==
    ASSUME NEW s, NEW id, ~Found(s, id)
    PROVE  WithId(s, id) = {} /\ \A e \in ToSet(GlobalRules) : e.id # id
BY DEF Found, WithId

\* An upsert begins: whoever else is at work is no longer alone.
LEMMA BeginUpsertInv ==
    ASSUME StoreInv, NEW u \in Upserts, NEW c \in Puts, BeginUpsert(u, c)
    PROVE  StoreInv'
<1> DEFINE q == [pc |-> "load", path |-> c.path, rule |-> c.rule, seen |-> << >>,
                 alone |-> ~OthersBusy(u) /\ ~stale, found |-> Found(Loaded, c.path)]
           f == [q EXCEPT !.pc = "getfill", !.seen = Uncached]
<1>1. PICK n : /\ n = IF stored = NoRule THEN f ELSE q
               /\ upsert[u].pc = "new" /\ upsert' = [NotAlone(u) EXCEPT ![u] = n]
               /\ UNCHANGED <<stored, own, standing, single, stale, req>>
  BY DEF BeginUpsert
<1>2. Uncached \in Seq(Rules) /\ ToSet(Uncached) = ToSet(GlobalRules) \union ToSet(own) /\ c.rule \in NewRules
  BY LoadedRules DEF StoreInv, NewRules
<1>3. /\ DOMAIN n = {"pc", "path", "rule", "seen", "alone", "found"}
      /\ n.pc \in {"getfill", "load"} /\ (n.pc = "getfill" => n.seen = Uncached)
      /\ n.path = c.path /\ n.rule = c.rule
      /\ n.alone = (~OthersBusy(u) /\ ~stale) /\ n.found = Found(Loaded, c.path)
  BY <1>1
<1> HIDE DEF q, f
<1>4. ASSUME n.alone, ~n.found PROVE WithId(Uncached, n.path) = {}
  <2>1. Loaded \in {own, Uncached}
    BY <1>3, <1>4 DEF StoreInv, InStep, Loaded
  <2>2. WithId(Loaded, c.path) = {} /\ \A e \in ToSet(GlobalRules) : e.id # c.path
    BY <1>3, <1>4, FoundRules
  <2> QED BY <1>2, <1>3, <2>1, <2>2 DEF WithId
<1>5. UpsertShape(n) /\ AloneOK(n)
  BY <1>2, <1>3, <1>4 DEF UpsertShape, AloneOK
<1>6. /\ upsert'[u] = n /\ upsert' = [v \in Upserts |-> upsert'[v]]
      /\ \A v \in Upserts \ {u} :
            upsert'[v] = IF Busy(v) THEN [upsert[v] EXCEPT !.alone = FALSE] ELSE upsert[v]
  BY <1>1 DEF NotAlone
<1>7. ASSUME NEW v \in Upserts, v # u
      PROVE  /\ UpsertShape(upsert'[v]) /\ AloneOK(upsert'[v])
             /\ upsert'[v].pc = upsert[v].pc /\ (upsert'[v].alone => ~Busy(v))
  <2>1. UpsertShape(upsert[v]) /\ AloneOK(upsert[v])
    BY DEF StoreInv, UpsertsOK
  <2>2. CASE Busy(v)
    <3>1. PICK x, m : x = upsert[v] /\ m = upsert'[v]
      OBVIOUS
    <3>2. m = [x EXCEPT !.alone = FALSE] /\ UpsertShape(x)
      BY <1>6, <1>7, <2>1, <2>2, <3>1
    <3>3. /\ DOMAIN m = {"pc", "path", "rule", "seen", "alone", "found"} /\ m.alone = FALSE
          /\ m.pc = x.pc /\ m.rule = x.rule /\ m.seen = x.seen
      BY <3>2 DEF UpsertShape
    <3>4. UpsertShape(m) /\ AloneOK(m)
      BY <3>2, <3>3 DEF UpsertShape, AloneOK
    <3> QED BY <3>1, <3>3, <3>4
  <2>3. CASE ~Busy(v)
    BY <1>6, <1>7, <2>1, <2>3
  <2> QED BY <2>2, <2>3
<1>8. \A v \in Upserts : v # u => ((Busy(v))' <=> Busy(v))
  BY <1>7 DEF Busy
<1>9. (OthersBusy(u))' <=> OthersBusy(u)
  BY <1>8 DEF OthersBusy
<1>10. Uncached' = Uncached
  BY <1>1 DEF Uncached
<1>11. ASSUME NEW v \in Upserts
       PROVE  /\ UpsertShape(upsert[v])' /\ AloneOK(upsert[v])'
              /\ upsert'[v].alone /\ (Busy(v))' => ~(OthersBusy(v))'
  <2>1. PICK m : m = upsert'[v]
    OBVIOUS
  <2>2. UpsertShape(m) /\ AloneOK(m)
    BY <1>5, <1>6, <1>7, <2>1
  <2>3. UpsertShape(upsert[v])'
    BY <2>1, <2>2 DEF UpsertShape
  <2>4. AloneOK(upsert[v])'
    BY <1>1, <1>10, <2>1, <2>2 DEF AloneOK, Saves, WithId
  <2>5. upsert'[v].alone /\ (Busy(v))' => ~(OthersBusy(v))'
    BY <1>3, <1>6, <1>7, <1>8, <1>9
  <2> QED BY <2>3, <2>4, <2>5
<1>12. UpsertsOK'
  BY <1>6, <1>11 DEF UpsertsOK
<1>13. StoreShape' /\ InStep' /\ StandingOK'
  BY <1>1, <1>10 DEF StoreInv, StoreShape, InStep, StandingOK, Has, WithId
<1>14. \A r \in Requests : FillOK(req[r])'
  BY <1>1, FillsQuiet
<1> QED BY <1>12, <1>13, <1>14 DEF StoreInv

\* An upsert reads the list its rule goes into.
LEMMA LoadForUpsertInv ==
    ASSUME StoreInv, NEW u \in Upserts, LoadForUpsert(u) PROVE StoreInv'
<1>1. PICK q : q = [upsert[u] EXCEPT !.alone = @ /\ ~stale]
  OBVIOUS
<1>2. PICK n : /\ n = IF stored = NoRule THEN [q EXCEPT !.pc = "loadfill", !.seen = Uncached]
                      ELSE [q EXCEPT !.pc = "save", !.seen = Replaced(q, Loaded)]
               /\ upsert[u].pc = "load" /\ upsert' = [upsert EXCEPT ![u] = n]
               /\ UNCHANGED <<stored, own, standing, single, stale, req>>
  BY <1>1 DEF LoadForUpsert
<1>3. /\ UpsertShape(upsert[u]) /\ AloneOK(upsert[u]) /\ Busy(u)
      /\ Uncached \in Seq(Rules) /\ Loaded \in Seq(Rules)
  BY <1>2, LoadedRules DEF StoreInv, UpsertsOK, Busy
<1>4. /\ DOMAIN q = {"pc", "path", "rule", "seen", "alone", "found"} /\ q.rule \in NewRules /\ q.rule \in Rules
      /\ q.alone = (upsert[u].alone /\ ~stale) /\ q.path = upsert[u].path /\ q.found = upsert[u].found
  BY <1>1, <1>2, <1>3 DEF UpsertShape, Rules
<1>5. q.alone => q.found \/ WithId(Uncached, q.path) = {}
  BY <1>2, <1>3, <1>4 DEF AloneOK
<1>6. ASSUME stored = NoRule
      PROVE  /\ UpsertShape(n) /\ AloneOK(n) /\ (n.alone => upsert[u].alone)
             /\ n.pc \in {"getfill", "load", "loadfill", "save"}
  <2>1. /\ DOMAIN n = {"pc", "path", "rule", "seen", "alone", "found"} /\ n.pc = "loadfill" /\ n.seen = Uncached
        /\ n.rule = q.rule /\ n.path = q.path /\ n.alone = q.alone /\ n.found = q.found
    BY <1>2, <1>4, <1>6
  <2>2. UpsertShape(n) /\ AloneOK(n)
    BY <1>3, <1>4, <1>5, <2>1 DEF UpsertShape, AloneOK
  <2> QED BY <1>4, <2>1, <2>2
<1>7. ASSUME stored # NoRule
      PROVE  /\ UpsertShape(n) /\ AloneOK(n) /\ (n.alone => upsert[u].alone)
             /\ n.pc \in {"getfill", "load", "loadfill", "save"}
  <2>1. PICK s : s = Replaced(q, Loaded)
    OBVIOUS
  <2>2. s \in Seq(Rules) /\ q.rule \in ToSet(s)
    BY <1>3, <1>4, <2>1, ReplacedShape
  <2>3. /\ DOMAIN n = {"pc", "path", "rule", "seen", "alone", "found"} /\ n.pc = "save" /\ n.seen = s
        /\ n.rule = q.rule /\ n.path = q.path /\ n.alone = q.alone /\ n.found = q.found
    BY <1>2, <1>4, <1>7, <2>1
  <2>4. ASSUME q.alone PROVE Saves(q, s)
    <3>1. ~stale
      BY <1>4, <2>4
    <3>2. \A x \in standing : Has(Loaded, x)
      BY <3>1, StandingLoaded DEF StoreInv
    <3>3. Loaded \in {own, Uncached} /\ ToSet(Uncached) = ToSet(GlobalRules) \union ToSet(own)
      BY <1>7, <3>1, LoadedRules DEF StoreInv, InStep, Loaded
    <3>4. q.found \/ WithId(Loaded, q.path) = {}
      BY <1>5, <2>4, <3>3 DEF WithId
    <3> QED BY <1>3, <1>4, <2>1, <3>2, <3>4, ReplacedSaves
  <2>5. q.alone => Saves(n, s)
    BY <2>3, <2>4 DEF Saves
  <2>6. UpsertShape(n) /\ AloneOK(n)
    BY <1>4, <2>2, <2>3, <2>5 DEF UpsertShape, AloneOK
  <2> QED BY <1>4, <2>3, <2>6
<1>8. UpsertsOK'
  BY <1>2, <1>3, <1>6, <1>7, UpsertMoves DEF StoreInv
<1>9. StoreShape' /\ InStep' /\ StandingOK'
  BY <1>2 DEF StoreInv, StoreShape, InStep, Uncached, StandingOK, Has, WithId
<1>10. \A r \in Requests : FillOK(req[r])'
  BY <1>2, FillsQuiet
<1> QED BY <1>8, <1>9, <1>10 DEF StoreInv

\* An upsert fills the store with what it has put together, and goes on.
LEMMA FillForUpsertInv ==
    ASSUME StoreInv, NEW u \in Upserts, FillForUpsert(u) PROVE StoreInv'
<1>1. PICK q : q = upsert[u]
  OBVIOUS
<1>2. PICK n : /\ n = IF q.pc = "getfill" THEN [q EXCEPT !.pc = "load", !.seen = << >>]
                      ELSE [q EXCEPT !.pc = "save", !.seen = Replaced(q, q.seen)]
               /\ upsert' = [upsert EXCEPT ![u] = n]
               /\ q.pc \in {"getfill", "loadfill"} /\ Fill(q.seen)
               /\ UNCHANGED <<own, standing, single, req>>
  BY <1>1 DEF FillForUpsert
<1>3. /\ UpsertShape(q) /\ AloneOK(q) /\ Busy(u) /\ q.seen \in Seq(Rules)
      /\ q.rule \in NewRules /\ q.rule \in Rules
  <2>1. UpsertShape(q) /\ AloneOK(q)
    BY <1>1 DEF StoreInv, UpsertsOK
  <2> QED BY <1>1, <1>2, <2>1 DEF UpsertShape, Busy, Rules
<1>4. ASSUME q.pc = "getfill"
      PROVE  /\ UpsertShape(n) /\ AloneOK(n) /\ (n.alone => upsert[u].alone)
             /\ n.pc \in {"getfill", "load", "loadfill", "save"}
  <2>1. /\ DOMAIN n = {"pc", "path", "rule", "seen", "alone", "found"} /\ n.pc = "load"
        /\ n.rule = q.rule /\ n.path = q.path /\ n.alone = q.alone /\ n.found = q.found
    BY <1>2, <1>3, <1>4 DEF UpsertShape
  <2>2. q.alone => q.found \/ WithId(Uncached, q.path) = {}
    BY <1>3, <1>4 DEF AloneOK
  <2>3. UpsertShape(n) /\ AloneOK(n)
    BY <1>3, <2>1, <2>2 DEF UpsertShape, AloneOK
  <2> QED BY <1>1, <2>1, <2>3
<1>5. ASSUME q.pc # "getfill"
      PROVE  /\ UpsertShape(n) /\ AloneOK(n) /\ (n.alone => upsert[u].alone)
             /\ n.pc \in {"getfill", "load", "loadfill", "save"}
  <2>1. PICK s : s = Replaced(q, q.seen)
    OBVIOUS
  <2>2. s \in Seq(Rules) /\ q.rule \in ToSet(s)
    BY <1>3, <2>1, ReplacedShape
  <2>3. /\ DOMAIN n = {"pc", "path", "rule", "seen", "alone", "found"} /\ n.pc = "save" /\ n.seen = s
        /\ n.rule = q.rule /\ n.path = q.path /\ n.alone = q.alone /\ n.found = q.found
    BY <1>2, <1>3, <1>5, <2>1 DEF UpsertShape
  <2>4. ASSUME q.alone PROVE Saves(q, s)
    <3>1. q.pc = "loadfill" /\ q.seen = Uncached /\ (q.found \/ WithId(Uncached, q.path) = {})
      BY <1>2, <1>3, <1>5, <2>4 DEF AloneOK
    <3>2. \A x \in standing : Has(Uncached, x)
      BY StandingLoaded DEF StoreInv
    <3> QED BY <1>3, <2>1, <3>1, <3>2, ReplacedSaves
  <2>5. q.alone => Saves(n, s)
    BY <2>3, <2>4 DEF Saves
  <2>6. UpsertShape(n) /\ AloneOK(n)
    BY <1>3, <2>2, <2>3, <2>5 DEF UpsertShape, AloneOK
  <2> QED BY <1>1, <2>3, <2>6
<1>6. UpsertsOK'
  BY <1>2, <1>3, <1>4, <1>5, UpsertMoves DEF StoreInv
<1>7. StoreShape' /\ InStep' /\ StandingOK'
  <2>1. PICK s \in Seq(Rules) : s = q.seen
    BY <1>3
  <2> QED BY <1>2, <2>1, FillStep DEF StoreInv
<1>8. \A r \in Requests : FillOK(req[r])'
  BY <1>2, FillsQuiet
<1> QED BY <1>6, <1>7, <1>8 DEF StoreInv

\* An upsert saves its list: its rule stands, and what it has not replaced
\* stays if it was alone; or it fails, and nothing changes but what is stored.
LEMMA SaveRulesInv ==
    ASSUME StoreInv, NEW u \in Upserts, SaveRules(u) PROVE StoreInv'
<1>1. PICK q, s, n : q = upsert[u] /\ s = q.seen /\ n = Call("done")
  OBVIOUS
<1>2. /\ q.pc = "save" /\ req' = req /\ upsert' = [upsert EXCEPT ![u] = n]
      /\ \/ /\ stored' = s /\ own' = s /\ stale' = FALSE
            /\ standing' = Stands(q) /\ single' = Singled(q)
         \/ /\ UNCHANGED <<own, standing, single>>
            /\ \/ UNCHANGED <<stored, stale>>
               \/ stored' = s /\ stale' = TRUE
  BY <1>1 DEF SaveRules, SavedOwn
<1>3. /\ UpsertShape(q) /\ AloneOK(q) /\ q.rule \in NewRules /\ s \in Seq(Rules)
      /\ q.rule \in ToSet(s) /\ Busy(u) /\ (q.alone => ~OthersBusy(u))
  <2>1. UpsertShape(q) /\ AloneOK(q) /\ (q.alone /\ Busy(u) => ~OthersBusy(u))
    BY <1>1 DEF StoreInv, UpsertsOK
  <2>2. Busy(u)
    BY <1>1, <1>2 DEF Busy
  <2> QED BY <1>1, <1>2, <2>1, <2>2 DEF UpsertShape
<1>4. /\ n.pc = "done" /\ DOMAIN n = {"pc", "path", "rule", "seen", "alone", "found"} /\ n.alone = TRUE
  BY <1>1 DEF Call
<1>5. ASSUME /\ UNCHANGED <<own, standing, single>>
             /\ UNCHANGED <<stored, stale>> \/ (stored' = s /\ stale' = TRUE)
      PROVE  StoreShape' /\ InStep' /\ StandingOK'
  <2>1. Uncached' = Uncached
    BY <1>5 DEF Uncached
  <2>2. StoreShape' /\ InStep'
    BY <1>3, <1>5, <2>1 DEF StoreInv, StoreShape, InStep
  <2>3. StandingOK'
    BY <1>5 DEF StoreInv, StandingOK, Has, WithId
  <2> QED BY <2>2, <2>3
<1>6. ASSUME /\ stored' = s /\ own' = s /\ stale' = FALSE
             /\ standing' = Stands(q) /\ single' = Singled(q)
      PROVE  StoreShape' /\ InStep' /\ StandingOK'
  <2>1. standing \subseteq NewRules
    BY DEF StoreInv, StoreShape
  <2>2. StoreShape' /\ InStep'
    BY <1>3, <1>6, <2>1 DEF StoreShape, InStep, Rules, Stands
  <2>3. ASSUME NEW x \in Stands(q)
        PROVE  /\ x \in ToSet(s)
               /\ x.id \in Singled(q) \ GlobalIds => WithId(s, x.id) = {x}
    <3>1. CASE ~q.alone
      BY <1>3, <2>3, <3>1 DEF Stands, Singled
    <3>2. CASE q.alone
      <4>1. Saves(q, s)
        BY <1>1, <1>2, <1>3, <3>2 DEF AloneOK
      <4>2. CASE x = q.rule
        <5>1. x.id \in Singled(q) => q.path = q.rule.id
          BY <3>2, <4>2 DEF Singled
        <5> QED BY <1>3, <4>1, <4>2, <5>1 DEF Saves
      <4>3. CASE x \in standing /\ x.id # q.path
        <5>1. x.id \in Singled(q) => x.id \in single /\ x.id # q.rule.id
          BY <3>2, <4>3 DEF Singled
        <5> QED BY <4>1, <4>3, <5>1 DEF Saves
      <4> QED BY <2>3, <3>2, <4>2, <4>3 DEF Stands
    <3> QED BY <3>1, <3>2
  <2>4. ASSUME NEW x \in standing' PROVE Has(own, x)'
    BY <1>6, <2>3, <2>4 DEF Has, WithId
  <2> QED BY <2>2, <2>4 DEF StandingOK
<1>7. StoreShape' /\ InStep' /\ StandingOK'
  BY <1>2, <1>5, <1>6
<1>8. /\ upsert'[u] = n /\ \A v \in Upserts \ {u} : upsert'[v] = upsert[v]
      /\ upsert' = [v \in Upserts |-> upsert'[v]]
  BY <1>2 DEF StoreInv, UpsertsOK
<1>9. ASSUME NEW v \in Upserts
      PROVE  /\ UpsertShape(upsert[v])' /\ AloneOK(upsert[v])'
             /\ upsert'[v].alone /\ (Busy(v))' => ~(OthersBusy(v))'
  <2>1. CASE v = u
    <3>1. ~(Busy(u))'
      BY <1>4, <1>8 DEF Busy
    <3> QED BY <1>4, <1>8, <2>1, <3>1 DEF UpsertShape, AloneOK
  <2>2. CASE v # u
    <3>1. /\ UpsertShape(upsert[v]) /\ (upsert[v].alone /\ Busy(v) => ~OthersBusy(v))
          /\ upsert'[v] = upsert[v]
      BY <1>8, <2>2 DEF StoreInv, UpsertsOK
    <3>2. UpsertShape(upsert[v])'
      BY <3>1 DEF UpsertShape
    <3>3. upsert'[v].alone => ~Busy(v)
      BY <1>3, <2>2, <3>1 DEF OthersBusy
    <3>4. AloneOK(upsert[v])' /\ (upsert'[v].alone => ~(Busy(v))')
      BY <3>1, <3>3 DEF AloneOK, Busy
    <3> QED BY <3>2, <3>4
  <2> QED BY <2>1, <2>2
<1>10. UpsertsOK'
  BY <1>8, <1>9 DEF UpsertsOK
<1>11. \A r \in Requests : FillOK(req[r])'
  BY <1>2, FillsQuiet
<1> QED BY <1>7, <1>10, <1>11 DEF StoreInv

\* The requests after one of them goes on.
LEMMA GoesOnOK ==
    ASSUME RequestsOK, NEW r \in Requests, GoesOn(r) PROVE RequestsOK'
<1>1. PICK n : ReqOK(n) /\ req' = [req EXCEPT ![r] = n]
  BY DEF GoesOn
<1>2. req' = [q \in Requests |-> req'[q]]
  BY <1>1 DEF RequestsOK
<1>3. ASSUME NEW q \in Requests PROVE ReqOK(req'[q])
  BY <1>1 DEF RequestsOK
<1>4. \A q \in Requests : ReqOK(req[q])'
  BY <1>3 DEF ReqOK, ReqShape, Refused
<1> QED BY <1>2, <1>4 DEF RequestsOK

\* The limiter counts before it compares.
LEMMA LimitsStep == ASSUME Limits, [PolicyNext]_policyVars PROVE Limits'
<1>0. RPM \in Nat
  BY PolicyAssumption
<1>1. CASE UNCHANGED <<rpm, fresh>>
  BY <1>1 DEF Limits
<1>2. CASE \E r \in Requests : CheckRate(r)
  <2>1. \/ UNCHANGED <<rpm, fresh>>
        \/ rpm' = rpm + 1 /\ fresh' = fresh
        \/ rpm' = rpm + 1 /\ fresh' = fresh + 1 /\ rpm + 1 <= RPM
    <3>1. PICK r \in Requests : CheckRate(r)
      BY <1>2
    <3>2. RPM \in Nat /\ rpm \in Nat
      BY <1>0 DEF Limits
    <3>3. ~OverLimit(rpm + 1, calls) => rpm + 1 <= RPM
      BY <3>2 DEF OverLimit
    <3> QED BY <3>1, <3>3 DEF CheckRate
  <2> QED BY <1>0, <2>1 DEF Limits
<1>3. CASE NextWindow
  BY <1>0, <1>3 DEF NextWindow, Limits
<1>4. CASE \/ \E r \in Requests :
              \/ \E l \in Levels : Evaluate(r, l)
              \/ GetRules(r) \/ FillRules(r) \/ CheckSpend(r)
           \/ \E u \in Upserts :
              \/ \E c \in Puts : BeginUpsert(u, c)
              \/ LoadForUpsert(u) \/ FillForUpsert(u) \/ SaveRules(u)
           \/ Increment \/ Decrement \/ RecordSpend
           \/ NextDay \/ RulesExpire
           \/ \E k \in Kinds : DecisionExpires(k)
           \/ UNCHANGED policyVars
  BY <1>1, <1>4 DEF Evaluate, GetRules, FillRules, CheckSpend, BeginUpsert, LoadForUpsert,
     FillForUpsert, SaveRules, Increment, Decrement, RecordSpend, NextDay, RulesExpire, DecisionExpires,
     policyVars
<1> QED BY <1>2, <1>3, <1>4 DEF PolicyNext

\* A step of a request.
LEMMA RequestStep ==
    ASSUME StoreInv, RequestsOK, NEW r \in Requests,
           \/ \E l \in Levels : Evaluate(r, l)
           \/ GetRules(r) \/ FillRules(r) \/ CheckRate(r) \/ CheckSpend(r)
    PROVE  StoreInv' /\ RequestsOK'
<1>1. GoesOn(r)
  BY RequestGoesOn
<1>2. RequestsOK'
  BY <1>1, GoesOnOK
<1>3. CASE FillRules(r)
  BY <1>2, <1>3, FillRulesInv
<1>4. CASE ~FillRules(r)
  <2>1. UNCHANGED storeVars
    BY <1>4 DEF Evaluate, GetRules, CheckRate, CheckSpend
  <2> QED BY <1>1, <1>2, <2>1, StoreQuiet
<1> QED BY <1>3, <1>4

\* A step of an upsert, a counter or a clock.
LEMMA StoreStep ==
    ASSUME StoreInv, RequestsOK,
           \/ \E u \in Upserts :
               \/ \E c \in Puts : BeginUpsert(u, c)
               \/ LoadForUpsert(u) \/ FillForUpsert(u) \/ SaveRules(u)
           \/ Increment \/ Decrement \/ RecordSpend
           \/ NextWindow \/ NextDay \/ RulesExpire
           \/ \E k \in Kinds : DecisionExpires(k)
           \/ UNCHANGED policyVars
    PROVE  StoreInv' /\ RequestsOK'
<1>1. req' = req
  BY DEF BeginUpsert, LoadForUpsert, FillForUpsert, SaveRules, Increment, Decrement, RecordSpend, NextWindow,
         NextDay, RulesExpire, DecisionExpires, policyVars
<1>2. RequestsOK'
  BY <1>1 DEF RequestsOK, ReqOK, ReqShape, Refused
<1>3. CASE \E u \in Upserts :
               \/ \E c \in Puts : BeginUpsert(u, c)
               \/ LoadForUpsert(u) \/ FillForUpsert(u) \/ SaveRules(u)
  BY <1>2, <1>3, BeginUpsertInv, LoadForUpsertInv, FillForUpsertInv, SaveRulesInv
<1>4. CASE RulesExpire
  BY <1>2, <1>4, RulesExpireInv
<1>5. CASE \/ Increment \/ Decrement \/ RecordSpend
           \/ NextWindow \/ NextDay
           \/ \E k \in Kinds : DecisionExpires(k)
           \/ UNCHANGED policyVars
  <2>1. UNCHANGED storeVars
    BY <1>5 DEF Increment, Decrement, RecordSpend, NextWindow, NextDay, DecisionExpires,
                policyVars, storeVars
  <2> QED BY <1>1, <1>2, <2>1, StoreQuiet
<1> QED BY <1>3, <1>4, <1>5

\* Requests, upserts, expiries and windows in every order: the inductive
\* invariant of the policy engine.
THEOREM PolicyInvariant == PolicySpec => []PolicyInv
<1>1. PolicyInit => PolicyInv
  <2> SUFFICES ASSUME PolicyInit PROVE PolicyInv
    OBVIOUS
  <2>1. RequestsOK
    <3> DEFINE n == [pc |-> "new", stage |-> 1, level |-> "", seen |-> << >>,
                     broken |-> FALSE, status |-> 0]
    <3>1. ReqShape(n) /\ n.broken = FALSE
      BY DEF ReqShape
    <3>2. req = [r \in Requests |-> n]
      BY DEF PolicyInit
    <3> HIDE DEF n
    <3>3. ReqOK(n)
      BY <3>1 DEF ReqOK
    <3> QED BY <3>2, <3>3 DEF RequestsOK
  <2>2. StoreShape /\ InStep /\ StandingOK
    <3>1. own = << >> /\ stored = NoRule /\ standing = {} /\ stale = FALSE
      BY DEF PolicyInit
    <3>2. << >> \in Seq(Rules)
      OBVIOUS
    <3> QED BY <3>1, <3>2 DEF StoreShape, InStep, StandingOK
  <2>3. \A r \in Requests : FillOK(req[r])
    BY DEF PolicyInit, FillOK
  <2>4. UpsertsOK
    <3>1. PICK n : n = Call("new")
      OBVIOUS
    <3>2. /\ n.pc = "new" /\ DOMAIN n = {"pc", "path", "rule", "seen", "alone", "found"} /\ n.alone = TRUE
          /\ upsert = [u \in Upserts |-> n]
      BY <3>1 DEF PolicyInit, Call
    <3>3. UpsertShape(n) /\ AloneOK(n) /\ \A u \in Upserts : ~Busy(u)
      BY <3>2 DEF UpsertShape, AloneOK, Busy
    <3> QED BY <3>2, <3>3 DEF UpsertsOK
  <2>5. Limits
    <3>1. rpm = 0 /\ fresh = 0
      BY DEF PolicyInit
    <3> QED BY <3>1, PolicyAssumption DEF Limits
  <2> QED BY <2>1, <2>2, <2>3, <2>4, <2>5 DEF PolicyInv, StoreInv
<1>2. PolicyInv /\ [PolicyNext]_policyVars => PolicyInv'
  <2> SUFFICES ASSUME PolicyInv, [PolicyNext]_policyVars PROVE PolicyInv'
    OBVIOUS
  <2>1. StoreInv /\ RequestsOK /\ Limits
    BY DEF PolicyInv
  <2>2. Limits'
    BY <2>1, LimitsStep
  <2>3. StoreInv' /\ RequestsOK'
    BY <2>1, RequestStep, StoreStep DEF PolicyNext
  <2> QED BY <2>2, <2>3 DEF PolicyInv
<1> QED BY <1>1, <1>2, PTL DEF PolicySpec

\* A check that raised never ends in an answer of 200, the limiter never lets
\* more than its limit pass in a minute, and an acknowledged rule stands until
\* it is replaced, whatever failed upserts and late fills do meanwhile:
\* PolicyEnforced for any number of requests, administrators and rules.
THEOREM PolicyIsEnforced == PolicySpec => []PolicyEnforced
<1>1. PolicyInv => BrokenChecksBlock
  BY DEF PolicyInv, RequestsOK, ReqOK, Refused, BrokenChecksBlock
<1>2. PolicyInv => LimiterBounds
  BY DEF PolicyInv, Limits, LimiterBounds
<1>3. PolicyInv => UpsertStands
  <2> SUFFICES ASSUME PolicyInv, NEW x \in standing, NEW rules \in Returned
               PROVE  Has(rules, x)
    BY DEF UpsertStands, Has
  <2>1. Has(Uncached, x) /\ (~stale => Has(Loaded, x))
    BY StandingLoaded DEF PolicyInv, StoreInv
  <2>2. rules = Uncached \/ (~stale /\ rules = Loaded)
    BY DEF Returned
  <2> QED BY <2>1, <2>2
<1>4. PolicyInv => PolicyEnforced
  BY <1>1, <1>2, <1>3 DEF PolicyEnforced
<1> QED BY <1>4, PolicyInvariant, PTL

-----------------------------------------------------------------------------
(***************************************************************************)
(* ProviderAdapters, for any aliases, environments, rotations and lines.   *)
(***************************************************************************)

ReplyLines == [text : Nat, tool : BOOLEAN, fin : BOOLEAN, err : BOOLEAN, choice : Nat]
ReplyEvents == [type : {"text", "finish", "tool", "tool_nameless", "error"}, piece : Nat]

\* The pieces of text of a list of events, of a line, and what is heard of both.
TextsOf(s) == [k \in DOMAIN s |-> TextOf(s[k])]
Heard(s) == Kept(TextsOf(s), Pieces)
Said(l) == IF l.text = 0 THEN << >> ELSE << l.text >>

\* The text of two lists of events, one behind the other.
LEMMA HeardConcat ==
    ASSUME NEW s \in Seq(ReplyEvents), NEW t \in Seq(ReplyEvents)
    PROVE  s \o t \in Seq(ReplyEvents) /\ Heard(s \o t) = Heard(s) \o Heard(t)
<1>1. PICK x, y, z : x = TextsOf(s) /\ y = TextsOf(t) /\ z = TextsOf(s \o t)
  OBVIOUS
<1>2. \A e \in ReplyEvents : TextOf(e) \in Nat
  BY DEF TextOf, ReplyEvents
<1>3. /\ DOMAIN s = 1..Len(s) /\ DOMAIN t = 1..Len(t) /\ Len(s) \in Nat /\ Len(t) \in Nat
      /\ \A k \in 1..Len(s) : s[k] \in ReplyEvents
      /\ \A k \in 1..Len(t) : t[k] \in ReplyEvents
  OBVIOUS
<1>4. x \in Seq(Nat) /\ Len(x) = Len(s) /\ \A k \in 1..Len(s) : x[k] = TextOf(s[k])
  BY <1>1, <1>2, <1>3 DEF TextsOf
<1>5. y \in Seq(Nat) /\ Len(y) = Len(t) /\ \A k \in 1..Len(t) : y[k] = TextOf(t[k])
  BY <1>1, <1>2, <1>3 DEF TextsOf
<1>6. PICK u : u = s \o t
  OBVIOUS
<1>7. /\ u \in Seq(ReplyEvents) /\ Len(u) = Len(s) + Len(t) /\ DOMAIN u = 1..Len(u)
      /\ \A k \in 1..Len(u) : u[k] \in ReplyEvents
      /\ \A k \in 1..Len(u) : u[k] = IF k <= Len(s) THEN s[k] ELSE t[k - Len(s)]
  BY <1>3, <1>6
<1>8. z \in Seq(Nat) /\ Len(z) = Len(u) /\ \A k \in 1..Len(u) : z[k] = TextOf(u[k])
  BY <1>1, <1>2, <1>6, <1>7 DEF TextsOf
<1>9. /\ x \o y \in Seq(Nat) /\ Len(x \o y) = Len(u)
      /\ \A k \in 1..Len(u) : (x \o y)[k] = IF k <= Len(s) THEN x[k] ELSE y[k - Len(s)]
  <2>0. x \in Seq(Nat) /\ y \in Seq(Nat)
    BY <1>4, <1>5
  <2>1. x \o y \in Seq(Nat) /\ Len(x \o y) = Len(x) + Len(y)
    BY <2>0, ConcatProperties
  <2>2. \A k \in 1..(Len(x) + Len(y)) : (x \o y)[k] = IF k <= Len(x) THEN x[k] ELSE y[k - Len(x)]
    BY <2>0, ConcatProperties
  <2>3. Len(x) = Len(s) /\ Len(y) = Len(t)
    BY <1>4, <1>5
  <2> QED BY <1>7, <2>1, <2>2, <2>3
<1>10. ASSUME NEW k \in 1..Len(u) PROVE z[k] = (x \o y)[k]
  <2>1. CASE k <= Len(s)
    BY <1>3, <1>4, <1>7, <1>8, <1>9, <2>1
  <2>2. CASE ~(k <= Len(s))
    <3>1. k - Len(s) \in 1..Len(t)
      BY <1>3, <1>7, <2>2
    <3> QED BY <1>5, <1>7, <1>8, <1>9, <2>2, <3>1
  <2> QED BY <2>1, <2>2
<1>11. z = x \o y
  BY <1>8, <1>9, <1>10, SeqEqual
<1>12. Kept(x \o y, Pieces) = Kept(x, Pieces) \o Kept(y, Pieces)
  BY <1>4, <1>5, KeptConcat
<1> QED BY <1>1, <1>6, <1>7, <1>11, <1>12 DEF Heard

\* One event, or none.
LEMMA HeardOne ==
    /\ << >> \in Seq(ReplyEvents) /\ Heard(<< >>) = << >>
    /\ \A e \in ReplyEvents :
          /\ << e >> \in Seq(ReplyEvents)
          /\ Heard(<< e >>) = IF TextOf(e) = 0 THEN << >> ELSE << TextOf(e) >>
<1>1. /\ << >> \in Seq(ReplyEvents) /\ Heard(<< >>) = << >>
  <2>1. TextsOf(<< >>) = << >>
    BY DEF TextsOf
  <2> QED BY <2>1, KeptEmpty DEF Heard
<1>2. ASSUME NEW e \in ReplyEvents
      PROVE  /\ << e >> \in Seq(ReplyEvents)
             /\ Heard(<< e >>) = IF TextOf(e) = 0 THEN << >> ELSE << TextOf(e) >>
  <2>1. PICK n : n = TextOf(e)
    OBVIOUS
  <2>2. n \in Nat
    BY <2>1 DEF TextOf, ReplyEvents
  <2>3. TextsOf(<< e >>) = << n >>
    BY <2>1 DEF TextsOf
  <2>4. << >> \in Seq(Nat) /\ << n >> = Append(<< >>, n)
    BY <2>2
  <2>5. Kept(Append(<< >>, n), Pieces) = IF n \in Pieces THEN Append(Kept(<< >>, Pieces), n)
                                         ELSE Kept(<< >>, Pieces)
    BY <2>2, <2>4, KeptAppend
  <2>6. Kept(<< n >>, Pieces) = IF n \in Pieces THEN << n >> ELSE << >>
    BY <2>4, <2>5, KeptEmpty
  <2> QED BY <2>1, <2>2, <2>3, <2>6 DEF Heard, Pieces
<1> QED BY <1>1, <1>2

\* Each kind of event a line may have: only the first carries text.
LEMMA EventsOfLine ==
    ASSUME NEW l \in ReplyLines, NEW named \in BOOLEAN
    PROVE  /\ TextEvent(l) \in Seq(ReplyEvents) /\ Heard(TextEvent(l)) = Said(l)
           /\ FinishEvent(l) \in Seq(ReplyEvents) /\ Heard(FinishEvent(l)) = << >>
           /\ ToolEvent(l, named) \in Seq(ReplyEvents) /\ Heard(ToolEvent(l, named)) = << >>
           /\ ErrorEvent(l) \in Seq(ReplyEvents) /\ Heard(ErrorEvent(l)) = << >>
<1>1. l.text \in Nat
  BY DEF ReplyLines
<1>2. ASSUME NEW y \in {"finish", "tool", "tool_nameless", "error"}
      PROVE  << [type |-> y, piece |-> 0] >> \in Seq(ReplyEvents) /\ Heard(<< [type |-> y, piece |-> 0] >>) = << >>
  <2>1. PICK e : e = [type |-> y, piece |-> 0]
    OBVIOUS
  <2>2. e \in ReplyEvents /\ e.type # "text"
    BY <2>1 DEF ReplyEvents
  <2>3. TextOf(e) = 0
    BY <2>2 DEF TextOf
  <2> QED BY <2>1, <2>2, <2>3, HeardOne
<1>3. TextEvent(l) \in Seq(ReplyEvents) /\ Heard(TextEvent(l)) = Said(l)
  <2>1. CASE l.text = 0
    BY <2>1, HeardOne DEF TextEvent, Said
  <2>2. CASE l.text # 0
    <3>1. PICK e : e = [type |-> "text", piece |-> l.text]
      OBVIOUS
    <3>2. e \in ReplyEvents /\ e.type = "text" /\ e.piece = l.text
      BY <1>1, <3>1 DEF ReplyEvents
    <3>4. TextOf(e) = l.text
      BY <3>2 DEF TextOf
    <3>3. TextEvent(l) = << e >>
      BY <2>2, <3>1 DEF TextEvent
    <3> QED BY <2>2, <3>2, <3>3, <3>4, HeardOne DEF Said
  <2> QED BY <2>1, <2>2
<1>4. FinishEvent(l) \in Seq(ReplyEvents) /\ Heard(FinishEvent(l)) = << >>
  BY <1>2, HeardOne DEF FinishEvent
<1>5. ToolEvent(l, named) \in Seq(ReplyEvents) /\ Heard(ToolEvent(l, named)) = << >>
  BY <1>2, HeardOne DEF ToolEvent
<1>6. ErrorEvent(l) \in Seq(ReplyEvents) /\ Heard(ErrorEvent(l)) = << >>
  BY <1>2, HeardOne DEF ErrorEvent
<1> QED BY <1>3, <1>4, <1>5, <1>6

\* The keys of the environment and of the store are their providers' own, a
\* request that is open carries one of its provider, and what was streamed says
\* what the lines say.
AdapterInv ==
    /\ environ \in Environments
    /\ keystore = [p \in Adapters |-> keystore[p]]
    /\ \A p \in Adapters : keystore[p] \in {p} \union NoKey
    /\ route # "open" => lines = << >> /\ stEvents = << >>
    /\ CredentialIsOwn
    /\ lines \in Seq(ReplyLines) /\ stEvents \in Seq(ReplyEvents)
    /\ StreamAgreesWithCall

\* A key that is found is the provider's, or the shared one for OpenAI.
LEMMA KeyFound ==
    ASSUME AdapterInv, NEW p \in Adapters
    PROVE  \/ ResolveApiKey(p) = "none" \/ ResolveApiKey(p) = p
           \/ ResolveApiKey(p) = "shared" /\ p = "openai"
<1>1. PICK k, U : k = KeySources(p) /\ U = {i \in 1..4 : Usable(k[i])}
  OBVIOUS
<1>2. CASE U = {}
  BY <1>1, <1>2 DEF ResolveApiKey
<1>3. CASE U # {}
  <2>1. \E m \in U : \A n \in U : m <= n
    <3>1. U \subseteq Nat
      BY <1>1
    <3> QED BY <1>3, <3>1, LeastElement
  <2>2. PICK m : m = CHOOSE i \in U : \A j \in U : i <= j
    OBVIOUS
  <2>3. m \in U
    BY <2>1, <2>2
  <2>4. ResolveApiKey(p) = k[m] /\ m \in 1..4 /\ k[m] \notin NoKey
    BY <1>1, <1>3, <2>2, <2>3 DEF ResolveApiKey, Usable
  <2>5. /\ k[1] = keystore[p] /\ k[2] = environ.prefixed[p] /\ k[3] = environ.plain[p]
        /\ k[4] = IF p = "openai" THEN environ.shared ELSE "unset"
    BY <1>1 DEF KeySources
  <2>6. k[1] \in {p} \union NoKey /\ k[2] \in {p} \union NoKey /\ k[3] \in {p} \union NoKey
    BY <2>5, CredentialAssumption DEF AdapterInv
  <2>7. k[4] \in NoKey \/ (k[4] = "shared" /\ p = "openai")
    BY <2>5, CredentialAssumption DEF AdapterInv, NoKey
  <2>8. m \in {1, 2, 3, 4}
    BY <2>4
  <2> QED BY <2>4, <2>6, <2>7, <2>8
<1> QED BY <1>2, <1>3

\* The whole text after one more line.
LEMMA WholeTextGrows ==
    ASSUME NEW s \in Seq(ReplyLines), NEW l \in ReplyLines
    PROVE  Kept([k \in DOMAIN Append(s, l) |-> Append(s, l)[k].text], Pieces)
              = Kept([k \in DOMAIN s |-> s[k].text], Pieces) \o Said(l)
<1>1. PICK x, t, u, y : /\ x = [k \in DOMAIN s |-> s[k].text] /\ t = l.text /\ u = Append(s, l)
                        /\ y = [k \in DOMAIN u |-> u[k].text]
  OBVIOUS
<1>2. \A e \in ReplyLines : e.text \in Nat
  BY DEF ReplyLines
<1>3. x \in Seq(Nat) /\ Len(x) = Len(s) /\ t \in Nat /\ \A k \in 1..Len(s) : x[k] = s[k].text
  BY <1>1, <1>2, SMTT(30)
<1>4. /\ u \in Seq(ReplyLines) /\ Len(u) = Len(s) + 1 /\ DOMAIN u = 1..(Len(s) + 1) /\ u[Len(s) + 1] = l
      /\ \A k \in 1..Len(s) : u[k] = s[k]
  BY <1>1
<1>5. y \in Seq(Nat) /\ Len(y) = Len(s) + 1 /\ \A k \in 1..(Len(s) + 1) : y[k] = u[k].text
  BY <1>1, <1>2, <1>4
<1>6. PICK z : z = Append(x, t)
  OBVIOUS
<1>7. /\ z \in Seq(Nat) /\ Len(z) = Len(s) + 1 /\ z[Len(s) + 1] = t
      /\ \A k \in 1..Len(s) : z[k] = x[k]
  BY <1>3, <1>6
<1>8. \A k \in 1..(Len(s) + 1) : y[k] = z[k]
  <2> SUFFICES ASSUME NEW k \in 1..(Len(s) + 1) PROVE y[k] = z[k]
    OBVIOUS
  <2>1. CASE k = Len(s) + 1
    BY <1>1, <1>4, <1>5, <1>7, <2>1
  <2>2. CASE k # Len(s) + 1
    <3>1. k \in 1..Len(s)
      BY <2>2
    <3> QED BY <1>3, <1>4, <1>5, <1>7, <3>1
  <2> QED BY <2>1, <2>2
<1>9. y = z
  BY <1>5, <1>7, <1>8, SeqEqual
<1>10. Kept(z, Pieces) = IF t \in Pieces THEN Append(Kept(x, Pieces), t) ELSE Kept(x, Pieces)
  BY <1>3, <1>6, KeptAppend
<1>11. PICK w : w = Kept(x, Pieces)
  OBVIOUS
<1>12. w \in Seq(Nat)
  BY <1>3, <1>11, KeptElements
<1>13. Kept(z, Pieces) = w \o Said(l)
  <2>1. CASE t = 0
    <3>1. Kept(z, Pieces) = w /\ Said(l) = << >>
      BY <1>1, <1>10, <1>11, <2>1 DEF Said, Pieces
    <3> QED BY <1>12, <3>1
  <2>2. CASE t # 0
    <3>1. Kept(z, Pieces) = Append(w, t) /\ Said(l) = << t >>
      BY <1>1, <1>3, <1>10, <1>11, <2>2 DEF Said, Pieces
    <3>2. Append(w, t) = w \o << t >>
      BY <1>3, <1>12
    <3> QED BY <3>1, <3>2
  <2> QED BY <2>1, <2>2
<1> QED BY <1>1, <1>9, <1>11, <1>13

\* A line whose events say what it says keeps the invariant.
LEMMA YieldStep ==
    ASSUME AdapterInv, NEW p, NEW l \in ReplyLines, NEW events \in Seq(ReplyEvents),
           p # "gemini" => Heard(events) = Said(l), Yield(p, l, events)
    PROVE  AdapterInv'
<1>1. PICK s, v : s = lines /\ v = stEvents
  OBVIOUS
<1>2. s \in Seq(ReplyLines) /\ v \in Seq(ReplyEvents) /\ route = "open" /\ adapter = p
  BY <1>1 DEF AdapterInv, Yield
<1>3. /\ lines' = Append(s, l) /\ stEvents' = v \o events
      /\ UNCHANGED <<environ, keystore, rotates, route, adapter, header, system, ending>>
  BY <1>1 DEF Yield
<1>4. lines' \in Seq(ReplyLines) /\ stEvents' \in Seq(ReplyEvents)
  BY <1>2, <1>3, HeardConcat
<1>5. ASSUME p # "gemini" PROVE StreamedText' = WholeText'
  <2>1. Heard(v) = Kept([k \in DOMAIN s |-> s[k].text], Pieces)
    BY <1>1, <1>2, <1>5 DEF AdapterInv, StreamAgreesWithCall, StreamedText, WholeText, Heard, TextsOf
  <2>2. Heard(v \o events) = Heard(v) \o Said(l)
    BY <1>2, <1>5, HeardConcat
  <2>3. WholeText' = Kept([k \in DOMAIN s |-> s[k].text], Pieces) \o Said(l)
    BY <1>2, <1>3, WholeTextGrows DEF WholeText
  <2>4. StreamedText' = Heard(v \o events)
    BY <1>3 DEF StreamedText, Heard, TextsOf, TextOf
  <2> QED BY <2>1, <2>2, <2>3, <2>4
<1>6. StreamAgreesWithCall'
  BY <1>2, <1>3, <1>5 DEF StreamAgreesWithCall
<1>7. CredentialIsOwn'
  BY <1>3 DEF AdapterInv, CredentialIsOwn
<1> QED BY <1>2, <1>3, <1>4, <1>6, <1>7 DEF AdapterInv

\* The lines a provider may send.
LEMMA LinesAreLines == ASSUME AdapterInv, NEW p, NEW l \in LinesOf(p) PROVE l \in ReplyLines
<1>1. PICK n : n = Len(lines) + 1
  OBVIOUS
<1>2. n \in Nat
  BY <1>1 DEF AdapterInv
<1>3. ASSUME NEW t \in {0, n}, NEW a \in BOOLEAN, NEW f \in BOOLEAN, NEW e \in BOOLEAN, NEW c \in {0, 1}
      PROVE  Line(t, a, f, e, c) \in ReplyLines
  BY <1>2 DEF Line, ReplyLines
<1>4. \E t \in {0, n}, a, f, e \in BOOLEAN, c \in {0, 1} : l = Line(t, a, f, e, c)
  BY <1>1 DEF LinesOf
<1> QED BY <1>3, <1>4

\* Every step of the adapters.
LEMMA AdapterStep == ASSUME AdapterInv, [ProviderNext]_providerVars PROVE AdapterInv'
<1>1. CASE UNCHANGED providerVars
  BY <1>1 DEF providerVars, AdapterInv, CredentialIsOwn, StreamAgreesWithCall, StreamedText, WholeText, TextOf
<1>2. ASSUME NEW name, NEW n, Route(name, n) PROVE AdapterInv'
  <2>1. /\ route = "none" /\ route' = RouteRefusal(name) /\ lines = << >> /\ stEvents = << >>
        /\ UNCHANGED <<environ, keystore, rotates, lines, stEvents, ending>>
    BY <1>2 DEF Route, AdapterInv
  <2>2. StreamedText' = << >> /\ WholeText' = << >>
    <3>1. [k \in DOMAIN << >> |-> << >>[k].text] = << >> /\ [k \in DOMAIN << >> |-> TextOf(<< >>[k])] = << >>
      OBVIOUS
    <3> QED BY <2>1, <3>1, KeptEmpty DEF StreamedText, WholeText, TextOf
  <2>3. CredentialIsOwn'
    <3> SUFFICES ASSUME route' = "open" PROVE CredentialIsOwn'
      BY DEF CredentialIsOwn
    <3>1. PICK p : p = AliasTable[name]
      OBVIOUS
    <3>2. adapter' = p /\ header' = ResolveApiKey(p)
      BY <1>2, <3>1 DEF Route
    <3>3. p \in Importable /\ ~(NeedsKey(p) /\ ResolveApiKey(p) = "none")
      BY <2>1, <3>1 DEF RouteRefusal
    <3>4. p \in Adapters
      BY <3>3, AdapterAssumption
    <3> QED BY <3>2, <3>3, <3>4, KeyFound DEF CredentialIsOwn, NeedsKey
  <2> QED BY <2>1, <2>2, <2>3 DEF AdapterInv, StreamAgreesWithCall
<1>3. ASSUME NEW p \in Adapters, NEW v \in StoreValues, RotateKey(p, v) PROVE AdapterInv'
  <2>1. keystore' = [keystore EXCEPT ![p] = IF v = "own" THEN p ELSE v]
    BY <1>3 DEF RotateKey
  <2>2. (IF v = "own" THEN p ELSE v) \in {p} \union NoKey
    BY CredentialAssumption
  <2>3. /\ keystore' = [q \in Adapters |-> keystore'[q]]
        /\ \A q \in Adapters : keystore'[q] \in {q} \union NoKey
    BY <2>1, <2>2 DEF AdapterInv
  <2>4. UNCHANGED <<environ, route, adapter, header, system, lines, stEvents, ending>>
    BY <1>3 DEF RotateKey
  <2>5. StreamAgreesWithCall' /\ CredentialIsOwn'
    BY <2>4 DEF AdapterInv, CredentialIsOwn, StreamAgreesWithCall, StreamedText, WholeText, TextOf
  <2> QED BY <2>3, <2>4, <2>5 DEF AdapterInv
<1>4. ASSUME NEW l \in LinesOf(adapter), OpenAiLine(l) \/ AnthropicLine(l) \/ GeminiLine(l) \/ OllamaLine(l)
      PROVE  AdapterInv'
  <2>0. l \in ReplyLines
    BY LinesAreLines
  <2>1. PICK t, a, b, f, e : /\ t = TextEvent(l) /\ a = ToolEvent(l, TRUE) /\ b = ToolEvent(l, FALSE)
                             /\ f = FinishEvent(l) /\ e = ErrorEvent(l)
    OBVIOUS
  <2>2. /\ t \in Seq(ReplyEvents) /\ Heard(t) = Said(l) /\ f \in Seq(ReplyEvents) /\ Heard(f) = << >>
        /\ a \in Seq(ReplyEvents) /\ Heard(a) = << >> /\ b \in Seq(ReplyEvents) /\ Heard(b) = << >>
        /\ e \in Seq(ReplyEvents) /\ Heard(e) = << >>
    BY <2>0, <2>1, EventsOfLine
  <2>3. Said(l) \in Seq(Nat)
    BY <2>0 DEF Said, ReplyLines
  <2>4. ASSUME NEW x \in Seq(ReplyEvents), NEW y \in Seq(ReplyEvents), Heard(x) = Said(l), Heard(y) = << >>
        PROVE  x \o y \in Seq(ReplyEvents) /\ Heard(x \o y) = Said(l)
    <3>1. Said(l) \o << >> = Said(l)
      BY <2>3
    <3> QED BY <2>4, <3>1, HeardConcat
  <2>5. OpenAiEvents(l) \in Seq(ReplyEvents) /\ Heard(OpenAiEvents(l)) = Said(l)
    <3>1. t \o a \in Seq(ReplyEvents) /\ Heard(t \o a) = Said(l)
      BY <2>2, <2>4
    <3>2. (t \o a) \o f \in Seq(ReplyEvents) /\ Heard((t \o a) \o f) = Said(l)
      BY <2>2, <2>4, <3>1
    <3> QED BY <2>1, <3>2 DEF OpenAiEvents
  <2>6. AnthropicEvents(l) \in Seq(ReplyEvents) /\ Heard(AnthropicEvents(l)) = Said(l)
    <3>1. t \o b \in Seq(ReplyEvents) /\ Heard(t \o b) = Said(l)
      BY <2>2, <2>4
    <3>2. (t \o b) \o f \in Seq(ReplyEvents) /\ Heard((t \o b) \o f) = Said(l)
      BY <2>2, <2>4, <3>1
    <3>3. ((t \o b) \o f) \o e \in Seq(ReplyEvents) /\ Heard(((t \o b) \o f) \o e) = Said(l)
      BY <2>2, <2>4, <3>2
    <3> QED BY <2>1, <3>3 DEF AnthropicEvents
  <2>7. OllamaEvents(l) \in Seq(ReplyEvents) /\ Heard(OllamaEvents(l)) = Said(l)
    BY <2>1, <2>2, <2>4 DEF OllamaEvents
  <2>8. GeminiEvents(l) \in Seq(ReplyEvents)
    BY <2>1, <2>2 DEF GeminiEvents
  <2>9. CASE OpenAiLine(l)
    BY <2>0, <2>5, <2>9, YieldStep DEF OpenAiLine
  <2>10. CASE AnthropicLine(l)
    BY <2>0, <2>6, <2>10, YieldStep DEF AnthropicLine
  <2>11. CASE GeminiLine(l)
    BY <2>0, <2>8, <2>11, YieldStep DEF GeminiLine
  <2>12. CASE OllamaLine(l)
    BY <2>0, <2>7, <2>12, YieldStep DEF OllamaLine
  <2> QED BY <1>4, <2>9, <2>10, <2>11, <2>12
<1>5. ASSUME NEW how, StreamEnds(how) PROVE AdapterInv'
  BY <1>5 DEF StreamEnds, AdapterInv, CredentialIsOwn, StreamAgreesWithCall, StreamedText, WholeText, TextOf
<1> QED BY <1>1, <1>2, <1>3, <1>4, <1>5 DEF ProviderNext

\* The invariant behind the adapters: whose key is where, and what was streamed
\* of the lines so far.
THEOREM AdapterInvariant == ProviderSpec => []AdapterInv
<1>1. ProviderInit => AdapterInv
  <2> SUFFICES ASSUME ProviderInit PROVE AdapterInv
    OBVIOUS
  <2>1. /\ environ \in Environments /\ keystore \in [Adapters -> {"unset"}]
        /\ route = "none" /\ lines = << >> /\ stEvents = << >>
    BY DEF ProviderInit
  <2>2. StreamedText = << >> /\ WholeText = << >>
    <3>1. [k \in DOMAIN << >> |-> << >>[k].text] = << >> /\ [k \in DOMAIN << >> |-> TextOf(<< >>[k])] = << >>
      OBVIOUS
    <3> QED BY <2>1, <3>1, KeptEmpty DEF StreamedText, WholeText
  <2>3. /\ keystore = [p \in Adapters |-> keystore[p]]
        /\ \A p \in Adapters : keystore[p] \in {p} \union NoKey
    BY <2>1 DEF NoKey
  <2> QED BY <2>1, <2>2, <2>3 DEF AdapterInv, CredentialIsOwn, StreamAgreesWithCall
<1>2. AdapterInv /\ [ProviderNext]_providerVars => AdapterInv'
  BY AdapterStep
<1> QED BY <1>1, <1>2, PTL DEF ProviderSpec

\* A stream says what the reply without streaming would say however it is cut
\* into lines (Gemini left out), and a request carries a key of its own
\* provider, through any number of rotations and any environment.
THEOREM AdaptersAreFaithful == ProviderSpec => []AdaptersFaithful
<1>1. AdapterInv => AdaptersFaithful
  BY DEF AdapterInv, AdaptersFaithful
<1> QED BY <1>1, AdapterInvariant, PTL

-----------------------------------------------------------------------------
(***************************************************************************)
(* TailBuffer.  What a match keeps and what it emits are the two parts of  *)
(* the buffer, so the text received is conserved; a cut is made a window   *)
(* before the end of what has been received, and the end only moves on.    *)
(***************************************************************************)

\* The variables keep their types.
TailTypeOK ==
    /\ text \in Seq(STRING)
    /\ fed \in 0..Len(text)
    /\ active_buffer \in Seq(STRING)
    /\ emitted \in Seq(Seq(STRING))
    /\ state \in {"COLLECTING", "TERMINATED"}

\* Until the whole text has come in, every cut is a window away from the end of
\* what has; so is it afterwards, until the stream ends.
CutsLeaveWindow ==
    state = "COLLECTING" \/ fed # Len(text) => \A c \in Cuts : c + Window <= fed

\* The inductive invariant.
TailInv == TailTypeOK /\ TextConserved /\ BufferBounded /\ CutsLeaveWindow

\* What the window and the limit are.
LEMMA WindowBounds ==
    /\ Window \in Nat /\ MaxBuffer \in Nat /\ Window < MaxBuffer
    /\ \A t \in StreamTexts : t \in Seq(STRING)
BY BufferAssumption

\* A match m parts the buffer s: what it emits, if anything, and what it keeps,
\* which is below the limit, and a window long when something is emitted.
Parts(C, s, m, keep, out) ==
    /\ m.keep = keep /\ m.out = out
    /\ Len(keep) < MaxBuffer
    /\ \/ out = << >> /\ keep = s
       \/ \E c \in Seq(C) : out = << c >> /\ s = c \o keep /\ Len(keep) = Window

\* That is what a match does.
LEMMA MatchParts ==
    ASSUME NEW C
    PROVE  \A s \in Seq(C) : \A late : \E keep \in Seq(C), out \in Seq(Seq(C)) :
              Parts(C, s, Match(s, late), keep, out)
<1> SUFFICES ASSUME NEW s \in Seq(C), NEW late
             PROVE  \E keep \in Seq(C), out \in Seq(Seq(C)) : Parts(C, s, Match(s, late), keep, out)
  OBVIOUS
<1>1. Window \in Nat /\ MaxBuffer \in Nat /\ Window < MaxBuffer
  BY WindowBounds
<1>2. PICK m : m = Match(s, late)
  OBVIOUS
<1>3. Len(s) \in Nat
  OBVIOUS
<1>e. << >> \in Seq(Seq(C))
  OBVIOUS
<1>4. CASE m = [keep |-> s, out |-> << >>] /\ Len(s) < MaxBuffer
  <2>1. PICK out : out = << >>
    OBVIOUS
  <2>2. out \in Seq(Seq(C))
    BY <2>1, <1>e
  <2>3. Match(s, late).keep = s /\ Match(s, late).out = out
    BY <1>2, <1>4, <2>1
  <2>4. Parts(C, s, Match(s, late), s, out)
    BY <1>4, <2>1, <2>3 DEF Parts
  <2> QED BY <2>2, <2>4
<1>5. CASE m = Flush(s)
  <2>1. CASE Len(s) <= Window
    <3>1. m = [keep |-> s, out |-> << >>] /\ Len(s) < MaxBuffer
      BY <1>1, <1>3, <1>5, <2>1 DEF Flush
    <3> QED BY <1>4, <3>1
  <2>2. CASE ~(Len(s) <= Window)
    <3>1. PICK n : n = Len(s) - Window
      OBVIOUS
    <3>2. n \in Nat /\ n \in 0..Len(s) /\ n + 1 = Len(s) - Window + 1 /\ n # 0
      BY <1>1, <1>3, <2>2, <3>1
    <3>3. PICK keep, c : keep = SubSeq(s, n + 1, Len(s)) /\ c = SubSeq(s, 1, n)
      OBVIOUS
    <3>4. m = [keep |-> keep, out |-> << c >>]
      BY <1>5, <2>2, <3>1, <3>2, <3>3 DEF Flush
    <3>5. keep \in Seq(C) /\ c \in Seq(C) /\ Len(keep) = Window
      BY <1>1, <1>3, <3>1, <3>2, <3>3
    <3>6. s = c \o keep
      <4>1. 1 \in 1..Len(s) + 1 /\ n \in 1 - 1..Len(s) /\ Len(s) \in n..Len(s)
        BY <1>3, <3>2
      <4>2. c \o keep = SubSeq(s, 1, Len(s))
        BY <3>3, <4>1, ConcatAdjacentSubSeq
      <4> QED BY <4>2, SubSeqFull
    <3>7. << c >> \in Seq(Seq(C))
      BY <3>5
    <3>8. PICK out : out = << c >>
      OBVIOUS
    <3> HIDE <1>5
    <3>9. Match(s, late).keep = keep /\ Match(s, late).out = out /\ out \in Seq(Seq(C))
      BY <1>2, <3>4, <3>7, <3>8
    <3>10. Parts(C, s, Match(s, late), keep, out)
      BY <1>1, <3>5, <3>6, <3>8, <3>9 DEF Parts
    <3> QED BY <3>5, <3>9, <3>10
  <2> QED BY <2>1, <2>2
<1>6. (m = [keep |-> s, out |-> << >>] /\ Len(s) < MaxBuffer) \/ m = Flush(s)
  BY <1>2 DEF Match
<1> QED BY <1>4, <1>5, <1>6

\* The cuts of a list of chunks with one more: the cut behind it is new.
LEMMA CutsOfMore ==
    ASSUME NEW C, NEW e \in Seq(Seq(C)), NEW c \in Seq(C)
    PROVE  /\ FlattenSeq(e) \in Seq(C) /\ FlattenSeq(Append(e, c)) = FlattenSeq(e) \o c
           /\ \A k \in 1..Len(Append(e, c)) :
                 \/ k \in 1..Len(e) /\ SubSeq(Append(e, c), 1, k) = SubSeq(e, 1, k)
                 \/ SubSeq(Append(e, c), 1, k) = Append(e, c)
<1>1. FlattenSeq(e) \in Seq(C) /\ FlattenSeq(Append(e, c)) = FlattenSeq(e) \o c
  BY FlattenType, FlattenAppend
<1>2. PICK U : U = Seq(C)
  OBVIOUS
<1>3. PICK a : a = Append(e, c)
  OBVIOUS
<1>4. /\ Len(e) \in Nat /\ Len(a) = Len(e) + 1 /\ a \in Seq(U)
      /\ \A k \in 1..Len(e) : a[k] = e[k]
  BY <1>2, <1>3
<1>5. ASSUME NEW k \in 1..Len(a)
      PROVE  \/ k \in 1..Len(e) /\ SubSeq(a, 1, k) = SubSeq(e, 1, k)
             \/ SubSeq(a, 1, k) = a
  <2>1. CASE k \in 1..Len(e)
    <3>1. PICK x, y : x = SubSeq(a, 1, k) /\ y = SubSeq(e, 1, k)
      OBVIOUS
    <3>2. x \in Seq(U) /\ Len(x) = k /\ \A i \in 1..k : x[i] = a[i]
      BY <1>4, <2>1, <3>1
    <3>3. y \in Seq(U) /\ Len(y) = k /\ \A i \in 1..k : y[i] = e[i]
      BY <1>2, <1>4, <2>1, <3>1, SMTT(30)
    <3>4. \A i \in 1..k : x[i] = y[i]
      <4>1. \A i \in 1..k : i \in 1..Len(e)
        BY <1>4, <2>1
      <4> QED BY <1>4, <3>2, <3>3, <4>1
    <3>5. x = y
      BY <3>2, <3>3, <3>4, SeqEqual
    <3> QED BY <2>1, <3>1, <3>5
  <2>2. CASE k = Len(a)
    BY <1>4, <2>2, SubSeqFull
  <2> QED BY <1>4, <2>1, <2>2
<1> QED BY <1>1, <1>3, <1>5

\* The invariant holds at first.
LEMMA TailStart == ASSUME TailInit PROVE TailInv
<1>1. text \in Seq(STRING)
  BY WindowBounds DEF TailInit
<1>2. PICK C : C = STRING
  OBVIOUS
<1>3. fed = 0 /\ active_buffer = << >> /\ state = "COLLECTING" /\ emitted = << >>
  BY DEF TailInit
<1>4. TailTypeOK
  <2>1. active_buffer \in Seq(C) /\ emitted \in Seq(Seq(C))
    BY <1>3
  <2>2. fed \in 0..Len(text)
    BY <1>1, <1>2, <1>3
  <2> QED BY <1>1, <1>2, <1>3, <2>1, <2>2 DEF TailTypeOK
<1>5. TextConserved
  <2>1. SubSeq(text, 1, fed) = << >>
    BY <1>3
  <2>2. << >> \o << >> = << >>
    OBVIOUS
  <2> QED BY <1>3, <2>1, <2>2, FlattenEmpty DEF TextConserved
<1>6. BufferBounded
  BY <1>3, WindowBounds DEF BufferBounded
<1>7. CutsLeaveWindow
  <2>1. Len(emitted) = 0
    BY <1>3
  <2>2. \A k : ~(k \in 1..Len(emitted))
    BY <2>1
  <2> QED BY <2>2 DEF CutsLeaveWindow, Cuts
<1> QED BY <1>4, <1>5, <1>6, <1>7 DEF TailInv

\* An ingest.
LEMMA IngestKeepsTail == ASSUME TailInv, Ingest PROVE TailInv'
<1>1. PICK n \in 0..MaxChunk, late \in BOOLEAN :
         /\ fed + n <= Len(text)
         /\ fed' = fed + n
         /\ LET m == Match(active_buffer \o SubSeq(text, fed + 1, fed + n), late)
            IN  /\ active_buffer' = m.keep
                /\ emitted' = emitted \o m.out
  BY DEF Ingest
<1>2. PICK C : C = STRING
  OBVIOUS
<1>3. /\ text \in Seq(C) /\ fed \in Nat /\ fed <= Len(text) /\ Len(text) \in Nat
      /\ active_buffer \in Seq(C) /\ emitted \in Seq(Seq(C)) /\ state = "COLLECTING"
      /\ text' = text /\ state' = state
  BY <1>2 DEF TailInv, TailTypeOK, Ingest
<1>4. n \in Nat /\ fed + n \in 0..Len(text)
  BY <1>1, <1>3, BufferAssumption
<1>5. PICK x, f : x = SubSeq(text, fed + 1, fed + n) /\ f = FlattenSeq(emitted)
  OBVIOUS
<1>6. x \in Seq(C)
  BY <1>3, <1>4, <1>5
<1>7. f \in Seq(C)
  BY <1>3, <1>5, FlattenType
<1>8. PICK s : s = active_buffer \o x
  OBVIOUS
<1>9. s \in Seq(C)
  BY <1>3, <1>6, <1>8
<1>10. f \o s = SubSeq(text, 1, fed + n)
  <2>1. f \o active_buffer = SubSeq(text, 1, fed)
    BY <1>5 DEF TailInv, TextConserved
  <2>2. (f \o active_buffer) \o x = f \o s
    BY <1>3, <1>6, <1>7, <1>8, Associative, SMTT(30)
  <2>3. SubSeq(text, 1, fed) \o x = SubSeq(text, 1, fed + n)
    <3>1. 1 \in 1..Len(text) + 1 /\ fed \in 1 - 1..Len(text) /\ fed + n \in fed..Len(text)
      BY <1>3, <1>4
    <3> QED BY <1>3, <1>5, <3>1, ConcatAdjacentSubSeq
  <2> QED BY <2>1, <2>2, <2>3
<1>a. PICK keep \in Seq(C), out \in Seq(Seq(C)) : Parts(C, s, Match(s, late), keep, out)
  BY <1>9, MatchParts
<1>11. /\ Match(s, late).keep = keep /\ Match(s, late).out = out
       /\ Len(keep) < MaxBuffer
       /\ \/ out = << >> /\ keep = s
          \/ \E c \in Seq(C) : out = << c >> /\ s = c \o keep /\ Len(keep) = Window
  BY <1>a DEF Parts
<1>12. active_buffer' = keep /\ emitted' = emitted \o out
  BY <1>1, <1>5, <1>8, <1>11
<1>13. Len(f \o s) = fed + n
  BY <1>3, <1>4, <1>10
<1>u. PICK U : U = Seq(C)
  OBVIOUS
<1>b. /\ \A c \in {Len(FlattenSeq(SubSeq(emitted, 1, k))) : k \in 1..Len(emitted)} : c + Window <= fed
      /\ Window \in Nat
  BY <1>3, WindowBounds DEF TailInv, CutsLeaveWindow, Cuts
<1>14. CASE out = << >> /\ keep = s
  <2>1. emitted' = emitted
    BY <1>3, <1>12, <1>14, <1>u
  <2>2. TextConserved' /\ BufferBounded'
    BY <1>1, <1>3, <1>5, <1>10, <1>11, <1>12, <1>14, <2>1 DEF TextConserved, BufferBounded
  <2>3. CutsLeaveWindow'
    <3> SUFFICES ASSUME NEW k \in 1..Len(emitted)
                 PROVE  Len(FlattenSeq(SubSeq(emitted, 1, k))) + Window <= fed + n
      BY <1>1, <2>1 DEF CutsLeaveWindow, Cuts
    <3>1. PICK q : q = SubSeq(emitted, 1, k)
      OBVIOUS
    <3>2. q \in Seq(Seq(C))
      <4>1. q \in Seq(U)
        BY <1>3, <1>u, <3>1
      <4> QED BY <4>1, <1>u
    <3>3. FlattenSeq(q) \in Seq(C)
      BY <3>2, FlattenType
    <3>4. Len(FlattenSeq(q)) \in Nat
      BY <3>3
    <3>5. Len(FlattenSeq(q)) + Window <= fed
      BY <1>b, <3>1
    <3> QED BY <1>3, <1>4, <1>b, <3>1, <3>4, <3>5
  <2>4. TailTypeOK'
    <3>1. keep \in Seq(STRING) /\ emitted \in Seq(Seq(STRING)) /\ text \in Seq(STRING)
      BY <1>2, <1>3, <1>11
    <3> QED BY <1>1, <1>3, <1>4, <1>12, <2>1, <3>1 DEF TailTypeOK
  <2> QED BY <2>2, <2>3, <2>4 DEF TailInv
<1>15. CASE \E c \in Seq(C) : out = << c >> /\ s = c \o keep /\ Len(keep) = Window
  <2>1. PICK c \in Seq(C) : out = << c >> /\ s = c \o keep /\ Len(keep) = Window
    BY <1>15
  <2>2. PICK e : e = Append(emitted, c)
    OBVIOUS
  <2>3. emitted' = e
    <3>1. c \in U /\ emitted \in Seq(U)
      BY <1>3, <1>u, <2>1
    <3>2. Append(emitted, c) = emitted \o << c >>
      BY <3>1
    <3> QED BY <1>12, <2>1, <2>2, <3>2
  <2>4. FlattenSeq(e) = f \o c
    BY <1>3, <1>5, <2>2, CutsOfMore
  <2>5. (f \o c) \o keep = f \o s
    BY <1>7, <1>11, <2>1, Associative
  <2>6. TextConserved' /\ BufferBounded'
    BY <1>1, <1>3, <1>10, <1>11, <1>12, <2>3, <2>4, <2>5 DEF TextConserved, BufferBounded
  <2>7. Len(f \o c) + Window = fed + n /\ Len(f \o c) \in Nat
    <3>1. PICK y : y = f \o c
      OBVIOUS
    <3>2. y \in Seq(C)
      BY <1>7, <2>1, <3>1
    <3>3. Len(y \o keep) = Len(y) + Len(keep)
      BY <1>11, <3>2
    <3> QED BY <1>13, <2>1, <2>5, <3>1, <3>2, <3>3
  <2>8. CutsLeaveWindow'
    <3> SUFFICES ASSUME NEW k \in 1..Len(e)
                 PROVE  Len(FlattenSeq(SubSeq(e, 1, k))) + Window <= fed + n
      BY <1>1, <2>3 DEF CutsLeaveWindow, Cuts
    <3>1. PICK q, w : q = SubSeq(emitted, 1, k) /\ w = SubSeq(e, 1, k)
      OBVIOUS
    <3>2. (k \in 1..Len(emitted) /\ w = q) \/ w = e
      <4>1. \A i \in 1..Len(Append(emitted, c)) :
               \/ i \in 1..Len(emitted) /\ SubSeq(Append(emitted, c), 1, i) = SubSeq(emitted, 1, i)
               \/ SubSeq(Append(emitted, c), 1, i) = Append(emitted, c)
        BY <1>3, CutsOfMore
      <4> QED BY <2>2, <3>1, <4>1, Zenon
    <3>3. ASSUME k \in 1..Len(emitted), w = q PROVE Len(FlattenSeq(w)) + Window <= fed + n
      <4>1. q \in Seq(U)
        BY <1>3, <1>u, <3>1, <3>3
      <4>2. FlattenSeq(q) \in Seq(C)
        BY <4>1, <1>u, FlattenType
      <4>3. Len(FlattenSeq(q)) \in Nat
        BY <4>2
      <4>4. Len(FlattenSeq(q)) + Window <= fed
        BY <1>b, <3>1, <3>3
      <4> QED BY <1>3, <1>4, <1>b, <3>3, <4>3, <4>4
    <3>4. ASSUME w = e PROVE Len(FlattenSeq(w)) + Window <= fed + n
      <4>1. FlattenSeq(w) = f \o c
        BY <2>4, <3>4
      <4> QED BY <1>3, <1>4, <2>7, <4>1
    <3>5. Len(FlattenSeq(w)) + Window <= fed + n
      BY <3>2, <3>3, <3>4
    <3> QED BY <3>1, <3>5, Zenon
  <2>9. TailTypeOK'
    <3>1. e \in Seq(U)
      BY <1>3, <1>u, <2>2
    <3>2. keep \in Seq(STRING) /\ e \in Seq(Seq(STRING)) /\ text \in Seq(STRING)
      BY <1>2, <1>3, <1>11, <1>u, <3>1
    <3> QED BY <1>1, <1>3, <1>4, <1>12, <2>3, <3>2 DEF TailTypeOK
  <2> QED BY <2>6, <2>8, <2>9 DEF TailInv
<1> QED BY <1>11, <1>14, <1>15

\* The end of the provider's stream.
LEMMA FinishKeepsTail == ASSUME TailInv, FinishStream PROVE TailInv'
<1>2. PICK C : C = STRING
  OBVIOUS
<1>u. PICK U : U = Seq(C)
  OBVIOUS
<1>3. /\ text \in Seq(C) /\ fed \in 0..Len(text) /\ active_buffer \in Seq(C)
      /\ emitted \in Seq(U) /\ text' = text /\ fed' = fed /\ state' = "TERMINATED"
      /\ active_buffer' = << >>
      /\ emitted' = IF active_buffer = << >> THEN emitted ELSE Append(emitted, active_buffer)
  BY <1>2, <1>u DEF TailInv, TailTypeOK, FinishStream
<1>4. PICK f : f = FlattenSeq(emitted)
  OBVIOUS
<1>5. f \in Seq(C)
  BY <1>3, <1>4, <1>u, FlattenType
<1>6. FlattenSeq(emitted') = f \o active_buffer /\ emitted' \in Seq(U)
  <2>1. CASE active_buffer = << >>
    BY <1>3, <1>4, <1>5, <2>1
  <2>2. CASE active_buffer # << >>
    <3>1. emitted' = Append(emitted, active_buffer)
      BY <1>3, <2>2
    <3>2. FlattenSeq(Append(emitted, active_buffer)) = f \o active_buffer
      BY <1>3, <1>4, <1>5, <1>u, FlattenAppend
    <3>3. active_buffer \in U
      BY <1>3, <1>u
    <3> QED BY <1>3, <3>1, <3>2, <3>3
  <2> QED BY <2>1, <2>2
<1>7. TextConserved'
  <2>1. PICK g : g = f \o active_buffer
    OBVIOUS
  <2>2. g \in Seq(C) /\ g \o << >> = g
    BY <1>3, <1>5, <2>1
  <2>3. g = SubSeq(text, 1, fed)
    BY <1>4, <2>1 DEF TailInv, TextConserved
  <2> QED BY <1>3, <1>6, <2>1, <2>2, <2>3 DEF TextConserved
<1>8. BufferBounded'
  <2>1. Len(<< >>) = 0
    OBVIOUS
  <2> QED BY <1>3, <2>1, WindowBounds DEF BufferBounded
<1>9. CutsLeaveWindow'
  BY <1>3 DEF CutsLeaveWindow, FinishStream
<1>10. TailTypeOK'
  <2>1. emitted' \in Seq(Seq(STRING)) /\ << >> \in Seq(STRING) /\ text \in Seq(STRING)
    BY <1>2, <1>3, <1>6, <1>u
  <2> QED BY <1>3, <2>1 DEF TailTypeOK
<1> QED BY <1>7, <1>8, <1>9, <1>10 DEF TailInv

\* Every step keeps the invariant.
LEMMA TailStep == ASSUME TailInv, [TailNext]_tailVars PROVE TailInv'
<1>1. CASE UNCHANGED <<text, fed, active_buffer, emitted>> /\ state' \in {state, "TERMINATED"}
  <2>1. TextConserved' /\ BufferBounded' /\ CutsLeaveWindow'
    BY <1>1 DEF TailInv, TextConserved, BufferBounded, CutsLeaveWindow, Cuts
  <2>2. TailTypeOK'
    BY <1>1 DEF TailInv, TailTypeOK
  <2> QED BY <2>1, <2>2 DEF TailInv
<1>2. CASE Bypass \/ Terminate \/ TailDone \/ UNCHANGED tailVars
  BY <1>1, <1>2 DEF Bypass, Terminate, TailDone, tailVars
<1> QED BY <1>2, IngestKeepsTail, FinishKeepsTail DEF TailNext

\* A token that is cut while it is not longer than the window and a character
\* has come in whole: it would have to reach from behind the cut, which is a
\* window away from the end of what has come in, past that end.
LEMMA TailTokens == ASSUME TailInv PROVE ArrivingTokenNotCut
<1> SUFFICES ASSUME NEW c \in Cuts, NEW i \in 1..c, NEW j \in (c + 1)..Len(text), j - i <= Window
             PROVE  j <= fed
  BY DEF ArrivingTokenNotCut
<1>1. PICK C, U : C = STRING /\ U = Seq(C)
  OBVIOUS
<1>2. text \in Seq(C) /\ fed \in 0..Len(text) /\ emitted \in Seq(U) /\ Len(text) \in Nat
  BY <1>1 DEF TailInv, TailTypeOK
<1>3. PICK k \in 1..Len(emitted) : c = Len(FlattenSeq(SubSeq(emitted, 1, k)))
  BY DEF Cuts
<1>4. PICK q : q = SubSeq(emitted, 1, k)
  OBVIOUS
<1>5. q \in Seq(U)
  BY <1>2, <1>4
<1>6. FlattenSeq(q) \in Seq(C)
  BY <1>1, <1>5, FlattenType
<1>7. c \in Nat
  BY <1>3, <1>4, <1>6
<1>8. CASE fed = Len(text)
  BY <1>2, <1>7, <1>8
<1>9. CASE fed # Len(text)
  <2>1. c + Window <= fed /\ Window \in Nat
    BY <1>9, WindowBounds DEF TailInv, CutsLeaveWindow
  <2> QED BY <1>2, <1>7, <2>1
<1> QED BY <1>8, <1>9

\* The tail buffer returns the text it was given, in bounded memory, and cuts no
\* token that is still arriving, for any text, window and limit, any patterns
\* of tokens and any chunks (_match, _flush).
THEOREM TailIsIntact == TailSpec => []StreamIntact
<1>1. TailInit => TailInv
  BY TailStart
<1>2. TailInv /\ [TailNext]_tailVars => TailInv'
  BY TailStep
<1>3. TailInv => StreamIntact
  BY TailTokens DEF TailInv, StreamIntact
<1> QED BY <1>1, <1>2, <1>3, PTL DEF TailSpec

-----------------------------------------------------------------------------
(***************************************************************************)
(* SpanMasking, the merge: the rounds of SpanArbiter.merge never lose a    *)
(* position or a flag, what they leave does not overlap, and sorting only  *)
(* reorders it.                                                            *)
(***************************************************************************)

\* The sources of the spans.
Recognisers == {"regex", "ner", "enterprise"}

\* A hit in a text of length L, and a span with its flag.
Hits(L) ==
    {s \in [start : Nat, end : Nat, type : Types, source : Recognisers, score : Nat] :
        s.start < s.end /\ s.end <= L}
Flagged(L) ==
    {s \in [start : Nat, end : Nat, type : Types, source : Recognisers, score : Nat,
            secret : BOOLEAN] :
        s.start < s.end /\ s.end <= L}

\* No two spans of q overlap.
Apart(q) == \A i, j \in 1..Len(q) : i # j => ~Overlaps(q[i], q[j])

\* Some span of q that is never restored covers all positions of C.
Guarded(q, C) == \E k \in 1..Len(q) : q[k].secret /\ C \subseteq Chars(q[k])
Shields(q, p, C) == Guarded(q, C) \/ (p.secret /\ C \subseteq Chars(p))

\* The union of two spans that overlap covers their positions and no other,
\* and is a secret when either is.
LEMMA CoverUnionIsUnion ==
    ASSUME NEW L \in Nat, NEW w \in Flagged(L), NEW o \in Flagged(L), Overlaps(w, o)
    PROVE  /\ CoverUnion(w, o) \in Flagged(L)
           /\ Chars(CoverUnion(w, o)) = Chars(w) \cup Chars(o)
           /\ CoverUnion(w, o).secret = (w.secret \/ o.secret)
<1>1. PICK u : u = CoverUnion(w, o)
  OBVIOUS
<1>2. u = [start |-> IF o.start < w.start THEN o.start ELSE w.start,
           end |-> IF o.end > w.end THEN o.end ELSE w.end,
           type |-> w.type, source |-> w.source, score |-> w.score,
           secret |-> w.secret \/ o.secret]
  BY <1>1 DEF CoverUnion, Flagged
<1>3. /\ w.start \in Nat /\ w.end \in Nat /\ w.start < w.end /\ w.end <= L
      /\ o.start \in Nat /\ o.end \in Nat /\ o.start < o.end /\ o.end <= L
      /\ w.type \in Types /\ w.source \in Recognisers /\ w.score \in Nat
      /\ w.secret \in BOOLEAN /\ o.secret \in BOOLEAN
      /\ w.start < o.end /\ o.start < w.end
  BY DEF Flagged, Overlaps
<1>4. u \in Flagged(L)
  BY <1>2, <1>3 DEF Flagged
<1>5. (u.start + 1)..u.end = ((w.start + 1)..w.end) \cup ((o.start + 1)..o.end)
  BY <1>2, <1>3
<1>6. u.secret = (w.secret \/ o.secret)
  BY <1>2
<1> QED BY <1>1, <1>4, <1>5, <1>6 DEF Chars

\* What FirstOverlap finds.
LEMMA FirstOverlapFinds ==
    ASSUME NEW q, NEW s, Len(q) \in Nat
    PROVE  \/ FirstOverlap(q, s) = 0 /\ \A k \in 1..Len(q) : ~Overlaps(q[k], s)
           \/ FirstOverlap(q, s) \in 1..Len(q) /\ Overlaps(q[FirstOverlap(q, s)], s)
<1>1. PICK hits : hits = {i \in 1..Len(q) : Overlaps(q[i], s)}
  OBVIOUS
<1>2. FirstOverlap(q, s) = IF hits = {} THEN 0 ELSE CHOOSE i \in hits : \A j \in hits : i <= j
  BY <1>1 DEF FirstOverlap
<1>3. CASE hits = {}
  BY <1>1, <1>2, <1>3
<1>4. CASE hits # {}
  <2>1. hits \subseteq Nat
    BY <1>1
  <2>2. \E i \in hits : \A j \in hits : i <= j
    BY <1>4, <2>1, LeastElement
  <2>3. FirstOverlap(q, s) \in hits
    BY <1>2, <1>4, <2>2
  <2> QED BY <1>1, <2>3
<1> QED BY <1>3, <1>4

\* A list without one of its elements.
LEMMA RemovedAt ==
    ASSUME NEW T, NEW q \in Seq(T), NEW i \in 1..Len(q)
    PROVE  /\ RemoveAt(q, i) \in Seq(T) /\ Len(RemoveAt(q, i)) = Len(q) - 1
           /\ \A k \in 1..(Len(q) - 1) : RemoveAt(q, i)[k] = IF k < i THEN q[k] ELSE q[k + 1]
<1>1. PICK x, y : x = SubSeq(q, 1, i - 1) /\ y = SubSeq(q, i + 1, Len(q))
  OBVIOUS
<1>2. x \in Seq(T) /\ Len(x) = i - 1 /\ \A k \in 1..(i - 1) : x[k] = q[k]
  BY <1>1
<1>3. y \in Seq(T) /\ Len(y) = Len(q) - i /\ \A k \in 1..(Len(q) - i) : y[k] = q[k + i]
  BY <1>1
<1>4. RemoveAt(q, i) = x \o y
  BY <1>1 DEF RemoveAt
<1>5. PICK z : z = x \o y
  OBVIOUS
<1>6. /\ z \in Seq(T) /\ Len(z) = Len(q) - 1
      /\ \A k \in 1..(Len(q) - 1) : z[k] = IF k <= i - 1 THEN x[k] ELSE y[k - (i - 1)]
  <2>1. /\ z \in Seq(T) /\ Len(z) = Len(x) + Len(y)
        /\ \A k \in 1..(Len(x) + Len(y)) : z[k] = IF k <= Len(x) THEN x[k] ELSE y[k - Len(x)]
    <3>1. x \in Seq(T) /\ y \in Seq(T)
      BY <1>2, <1>3
    <3> QED BY <1>5, <3>1
  <2>2. Len(x) = i - 1 /\ Len(x) + Len(y) = Len(q) - 1
    BY <1>2, <1>3
  <2> QED BY <2>1, <2>2
<1>7. ASSUME NEW k \in 1..(Len(q) - 1) PROVE z[k] = IF k < i THEN q[k] ELSE q[k + 1]
  <2>1. CASE k < i
    BY <1>2, <1>6, <2>1
  <2>2. CASE ~(k < i)
    <3>1. k - (i - 1) \in 1..(Len(q) - i) /\ (k - (i - 1)) + i = k + 1
      BY <2>2
    <3>2. z[k] = y[k - (i - 1)]
      BY <1>6, <2>2
    <3> QED BY <1>3, <2>2, <3>1, <3>2
  <2> QED BY <2>1, <2>2
<1> QED BY <1>4, <1>5, <1>6, <1>7

\* r has the elements of q but the one at i, each at a position of its own.
WithoutOne(q, i, r) ==
    /\ \A k \in 1..Len(r) : \E m \in 1..Len(q) : m # i /\ r[k] = q[m]
    /\ \A m \in 1..Len(q) : m # i => \E k \in 1..Len(r) : r[k] = q[m]
    /\ \A k, l \in 1..Len(r) : k # l =>
          \E m, n \in 1..Len(q) : m # n /\ r[k] = q[m] /\ r[l] = q[n]

\* That is what removing does.
LEMMA RemovedElements ==
    ASSUME NEW T, NEW q \in Seq(T), NEW i \in 1..Len(q)
    PROVE  WithoutOne(q, i, RemoveAt(q, i))
<1>r. PICK r : r = RemoveAt(q, i)
  OBVIOUS
<1>1. PICK p : p = [k \in 1..(Len(q) - 1) |-> IF k < i THEN k ELSE k + 1]
  OBVIOUS
<1>a. /\ Len(r) = Len(q) - 1 /\ Len(q) \in Nat
      /\ \A k \in 1..(Len(q) - 1) : r[k] = IF k < i THEN q[k] ELSE q[k + 1]
  <2>1. /\ Len(RemoveAt(q, i)) = Len(q) - 1
        /\ \A k \in 1..(Len(q) - 1) : RemoveAt(q, i)[k] = IF k < i THEN q[k] ELSE q[k + 1]
    BY RemovedAt
  <2>2. Len(q) \in Nat
    OBVIOUS
  <2> QED BY <1>r, <2>1, <2>2, Zenon
<1>2. /\ Len(r) = Len(q) - 1 /\ Len(q) \in Nat
      /\ \A k \in 1..(Len(q) - 1) : r[k] = q[p[k]] /\ p[k] \in 1..Len(q) /\ p[k] # i
  <2> SUFFICES ASSUME NEW k \in 1..(Len(q) - 1) PROVE r[k] = q[p[k]] /\ p[k] \in 1..Len(q) /\ p[k] # i
    BY <1>a
  <2>1. p[k] = IF k < i THEN k ELSE k + 1
    BY <1>1
  <2>2. p[k] \in 1..Len(q) /\ p[k] # i
    BY <1>a, <2>1
  <2>3. r[k] = IF k < i THEN q[k] ELSE q[k + 1]
    BY <1>a
  <2> QED BY <2>1, <2>2, <2>3
<1>3. \A k, l \in 1..(Len(q) - 1) : k # l => p[k] # p[l]
  BY <1>1
<1>4. ASSUME NEW m \in 1..Len(q), m # i PROVE \E k \in 1..Len(r) : r[k] = q[m]
  <2>1. PICK k : k = IF m < i THEN m ELSE m - 1
    OBVIOUS
  <2>2. k \in 1..(Len(q) - 1) /\ p[k] = m
    BY <1>1, <1>4, <2>1
  <2> QED BY <1>2, <2>2
<1>5. ASSUME NEW k \in 1..Len(r), NEW l \in 1..Len(r), k # l
      PROVE  \E m, n \in 1..Len(q) : m # n /\ r[k] = q[m] /\ r[l] = q[n]
  <2>1. k \in 1..(Len(q) - 1) /\ l \in 1..(Len(q) - 1)
    BY <1>2
  <2>2. p[k] # p[l] /\ r[k] = q[p[k]] /\ r[l] = q[p[l]] /\ p[k] \in 1..Len(q) /\ p[l] \in 1..Len(q)
    BY <1>2, <1>3, <1>5, <2>1
  <2> QED BY <2>2
<1>6. \A k \in 1..Len(r) : \E m \in 1..Len(q) : m # i /\ r[k] = q[m]
  <2> SUFFICES ASSUME NEW k \in 1..Len(r) PROVE \E m \in 1..Len(q) : m # i /\ r[k] = q[m]
    OBVIOUS
  <2>1. r[k] = q[p[k]] /\ p[k] \in 1..Len(q) /\ p[k] # i
    BY <1>2
  <2> QED BY <2>1
<1> QED BY <1>r, <1>4, <1>5, <1>6 DEF WithoutOne

\* A round of the merge in a text of length L, and one with nothing to absorb.
Rounds(L) == [merged : Seq(Flagged(L)), pending : Flagged(L)]
Free(acc) == \A k \in 1..Len(acc.merged) : ~Overlaps(acc.merged[k], acc.pending)

\* The positions of a round.
Area(acc) == Cover(acc.merged) \cup Chars(acc.pending)

\* What the round b, after the round a, has kept of it.
KeepsRound(a, b) ==
    /\ Apart(b.merged)
    /\ Area(b) = Area(a)
    /\ \A C : Shields(a.merged, a.pending, C) => Shields(b.merged, b.pending, C)

\* A round keeps its positions and secrets; it ends the merge or removes a
\* survivor.
LEMMA AbsorbKeeps ==
    ASSUME NEW L \in Nat, NEW acc \in Rounds(L), Apart(acc.merged)
    PROVE  /\ Absorb(acc) \in Rounds(L) /\ KeepsRound(acc, Absorb(acc))
           /\ \/ Absorb(acc) = acc /\ Free(acc)
              \/ Len(Absorb(acc).merged) = Len(acc.merged) - 1
<1>1. PICK q, p, i : q = acc.merged /\ p = acc.pending /\ i = FirstOverlap(q, p)
  OBVIOUS
<1>2. q \in Seq(Flagged(L)) /\ p \in Flagged(L) /\ Apart(q) /\ Len(q) \in Nat
  BY <1>1 DEF Rounds
<1>3. CASE i = 0
  <2>1. Absorb(acc) = acc
    BY <1>1, <1>3 DEF Absorb
  <2>2. Free(acc)
    <3>1. i \notin 1..Len(q)
      BY <1>3
    <3>2. \A k \in 1..Len(q) : ~Overlaps(q[k], p)
      BY <1>1, <1>2, <3>1, FirstOverlapFinds
    <3> QED BY <1>1, <3>2 DEF Free
  <2> QED BY <2>1, <2>2 DEF KeepsRound
<1>4. CASE i # 0
  <2>1. i \in 1..Len(q) /\ Overlaps(q[i], p)
    BY <1>1, <1>2, <1>4, FirstOverlapFinds
  <2>2. PICK r : r = RemoveAt(q, i)
    OBVIOUS
  <2>3. PICK u : u = IF Preferred(p, q[i]) THEN CoverUnion(p, q[i]) ELSE CoverUnion(q[i], p)
    OBVIOUS
  <2>4. Absorb(acc) = [merged |-> r, pending |-> u]
    BY <1>1, <1>4, <2>2, <2>3 DEF Absorb
  <2>5. q[i] \in Flagged(L)
    BY <1>2, <2>1
  <2>6. /\ u \in Flagged(L) /\ Chars(u) = Chars(p) \cup Chars(q[i])
        /\ u.secret = (p.secret \/ q[i].secret)
    <3>1. Overlaps(p, q[i])
      BY <2>1 DEF Overlaps
    <3>2. CASE Preferred(p, q[i])
      BY <1>2, <2>3, <2>5, <3>1, <3>2, CoverUnionIsUnion
    <3>3. CASE ~Preferred(p, q[i])
      <4>1. u = CoverUnion(q[i], p)
        BY <2>3, <3>3
      <4>2. /\ CoverUnion(q[i], p) \in Flagged(L)
            /\ Chars(CoverUnion(q[i], p)) = Chars(q[i]) \cup Chars(p)
            /\ CoverUnion(q[i], p).secret = (q[i].secret \/ p.secret)
        BY <1>2, <2>1, <2>5, CoverUnionIsUnion
      <4> QED BY <4>1, <4>2
    <3> QED BY <3>2, <3>3
  <2>7. r \in Seq(Flagged(L)) /\ Len(r) = Len(q) - 1
    BY <1>2, <2>1, <2>2, RemovedAt
  <2>8. /\ \A k \in 1..Len(r) : \E m \in 1..Len(q) : m # i /\ r[k] = q[m]
        /\ \A m \in 1..Len(q) : m # i => \E k \in 1..Len(r) : r[k] = q[m]
        /\ \A k, l \in 1..Len(r) : k # l =>
              \E m, n \in 1..Len(q) : m # n /\ r[k] = q[m] /\ r[l] = q[n]
    <3>1. WithoutOne(q, i, RemoveAt(q, i))
      BY <1>2, <2>1, RemovedElements
    <3>2. WithoutOne(q, i, r)
      BY <2>2, <3>1
    <3> QED BY <3>2 DEF WithoutOne
  <2>9. Apart(r)
    <3> SUFFICES ASSUME NEW k \in 1..Len(r), NEW l \in 1..Len(r), k # l
                 PROVE  ~Overlaps(r[k], r[l])
      BY DEF Apart
    <3>1. PICK m, n \in 1..Len(q) : m # n /\ r[k] = q[m] /\ r[l] = q[n]
      BY <2>8
    <3>2. ~Overlaps(q[m], q[n])
      BY <1>2, <3>1 DEF Apart
    <3> QED BY <3>1, <3>2
  <2>10. Cover(r) \cup Chars(u) = Cover(q) \cup Chars(p)
    <3>1. Cover(r) \subseteq Cover(q)
      BY <2>8 DEF Cover
    <3>2. Chars(q[i]) \subseteq Cover(q)
      BY <2>1 DEF Cover
    <3>3. \A x \in Cover(q) : x \in Cover(r) \/ x \in Chars(q[i])
      BY <2>8 DEF Cover
    <3> QED BY <2>6, <3>1, <3>2, <3>3
  <2>11. ASSUME NEW C, Shields(q, p, C) PROVE Shields(r, u, C)
    <3>1. CASE p.secret /\ C \subseteq Chars(p)
      BY <2>6, <3>1 DEF Shields
    <3>2. CASE Guarded(q, C)
      <4>1. PICK m \in 1..Len(q) : q[m].secret /\ C \subseteq Chars(q[m])
        BY <3>2 DEF Guarded
      <4>2. CASE m = i
        BY <2>6, <4>1, <4>2 DEF Shields
      <4>3. CASE m # i
        <5>1. PICK k \in 1..Len(r) : r[k] = q[m]
          BY <2>8, <4>3
        <5>2. r[k].secret /\ C \subseteq Chars(r[k])
          BY <4>1, <5>1
        <5> QED BY <5>2 DEF Shields, Guarded
      <4> QED BY <4>2, <4>3
    <3> QED BY <2>11, <3>1, <3>2 DEF Shields
  <2>12. PICK b : b = Absorb(acc)
    OBVIOUS
  <2>13. b = [merged |-> r, pending |-> u]
    BY <2>4, <2>12
  <2>14. b \in Rounds(L) /\ b.merged = r /\ b.pending = u
    BY <2>6, <2>7, <2>13 DEF Rounds
  <2>15. KeepsRound(acc, b)
    BY <1>1, <2>9, <2>10, <2>11, <2>14 DEF KeepsRound, Area
  <2> QED BY <1>1, <2>7, <2>12, <2>14, <2>15
<1> QED BY <1>3, <1>4

\* u is the function by which MergeInto goes through its rounds.
InRounds(u, n, first) == u = [k \in 0..n |-> IF k = 0 THEN first ELSE Absorb(u[k - 1])]

\* There is one, from any first round.
LEMMA RoundsExist ==
    ASSUME NEW L \in Nat, NEW n \in Nat, NEW first \in Rounds(L), Apart(first.merged)
    PROVE  \E u : InRounds(u, n, first)
<1> DEFINE A == {a \in Rounds(L) : Apart(a.merged)}
<1>1. PICK g : g = [p \in A \X (1..n) |-> Absorb(p[1])]
  OBVIOUS
<1>2. \A a \in A, k \in 1..n : g[<<a, k>>] = Absorb(a)
  BY <1>1
<1>3. \A a \in A : Absorb(a) \in A
  BY AbsorbKeeps DEF KeepsRound
<1>4. first \in A
  OBVIOUS
<1> HIDE DEF A
<1>r. PICK u : Recursion(u, first, g, n)
  BY RecursionExists
<1>5. u = [k \in 0..n |-> IF k = 0 THEN first ELSE g[<<u[k - 1], k>>]]
  BY <1>r DEF Recursion
<1>6. \A k \in 0..n : u[k] = IF k = 0 THEN first ELSE g[<<u[k - 1], k>>]
  BY <1>5
<1> DEFINE S == {k \in 0..n : u[k] \in A}
<1>7. \A k \in 0..n : k \in S
  <2>1. 0 \in S
    <3>1. 0 \in 0..n
      OBVIOUS
    <3>2. u[0] = first
      BY <1>6, <3>1
    <3> QED BY <1>4, <3>1, <3>2
  <2>2. ASSUME NEW k \in 1..n, k - 1 \in S PROVE k \in S
    <3>1. k \in 0..n /\ k # 0 /\ u[k - 1] \in A
      BY <2>2
    <3>2. u[k] = g[<<u[k - 1], k>>]
      BY <1>6, <3>1
    <3>3. u[k] = Absorb(u[k - 1])
      BY <1>2, <3>1, <3>2
    <3> QED BY <1>3, <3>1, <3>3
  <2> HIDE DEF S
  <2> QED BY <2>1, <2>2, AlongList
<1>8. ASSUME NEW k \in 0..n PROVE u[k] = IF k = 0 THEN first ELSE Absorb(u[k - 1])
  <2>1. k # 0 => k \in 1..n /\ k - 1 \in 0..n
    OBVIOUS
  <2> QED BY <1>2, <1>6, <1>7, <2>1
<1>9. u = [k \in 0..n |-> u[k]]
  BY <1>5
<1>10. InRounds(u, n, first)
  BY <1>8, <1>9 DEF InRounds
<1> QED BY <1>10

\* MergeInto adds a span to spans that are apart: what results is apart, its
\* positions are theirs, and what was guarded stays so.
LEMMA MergeIntoKeeps ==
    ASSUME NEW L \in Nat, NEW q \in Seq(Flagged(L)), NEW s \in Flagged(L), Apart(q)
    PROVE  /\ MergeInto(q, s) \in Seq(Flagged(L)) /\ Apart(MergeInto(q, s))
           /\ Cover(MergeInto(q, s)) = Cover(q) \cup Chars(s)
           /\ \A C : Shields(q, s, C) => Guarded(MergeInto(q, s), C)
<1>1. PICK first, n : first = [merged |-> q, pending |-> s] /\ n = Len(q)
  OBVIOUS
<1>2. first \in Rounds(L) /\ n \in Nat /\ first.merged = q /\ first.pending = s
  BY <1>1 DEF Rounds
<1> DEFINE v == CHOOSE u : InRounds(u, n, first)
<1>3. InRounds(v, n, first)
  <2>1. \E u : InRounds(u, n, first)
    BY <1>2, RoundsExist
  <2> QED BY <2>1, Zenon
<1>4. MergeInto(q, s) = Append(v[n].merged, v[n].pending)
  BY <1>1 DEF MergeInto, InRounds
<1> HIDE DEF v
<1>5. \A k \in 0..n : v[k] = IF k = 0 THEN first ELSE Absorb(v[k - 1])
  BY <1>3 DEF InRounds
<1> DEFINE Fine(k) == /\ v[k] \in Rounds(L) /\ KeepsRound(first, v[k])
                      /\ Free(v[k]) \/ Len(v[k].merged) = n - k
           S == {k \in 0..n : Fine(k)}
<1>6. 0 \in S
  <2>1. v[0] = first
    BY <1>2, <1>5
  <2>2. KeepsRound(first, first)
    BY <1>2 DEF KeepsRound
  <2>3. Len(first.merged) = n - 0 /\ 0 \in 0..n
    BY <1>1, <1>2
  <2> QED BY <1>2, <2>1, <2>2, <2>3
<1>7. ASSUME NEW k \in 1..n, k - 1 \in S PROVE k \in S
  <2>1. PICK a, b : a = v[k - 1] /\ b = v[k]
    OBVIOUS
  <2>2. /\ a \in Rounds(L) /\ KeepsRound(first, a)
        /\ Free(a) \/ Len(a.merged) = n - (k - 1)
    BY <1>7, <2>1
  <2>3. b = Absorb(a) /\ k \in 0..n
    BY <1>5, <2>1
  <2>4. Apart(a.merged)
    BY <2>2 DEF KeepsRound
  <2>5. /\ Absorb(a) \in Rounds(L) /\ KeepsRound(a, Absorb(a))
        /\ \/ Absorb(a) = a /\ Free(a)
           \/ Len(Absorb(a).merged) = Len(a.merged) - 1
    BY <2>2, <2>4, AbsorbKeeps
  <2>6. KeepsRound(first, b)
    BY <2>2, <2>3, <2>5 DEF KeepsRound
  <2>7. Free(b) \/ Len(b.merged) = n - k
    <3>1. CASE Absorb(a) = a /\ Free(a)
      BY <2>3, <3>1
    <3>2. CASE Len(Absorb(a).merged) = Len(a.merged) - 1
      <4>1. CASE Free(a)
        <5>1. FirstOverlap(a.merged, a.pending) = 0
          <6>1. Len(a.merged) \in Nat
            BY <2>2 DEF Rounds
          <6> QED BY <4>1, <6>1, FirstOverlapFinds DEF Free
        <5>2. Absorb(a) = a
          BY <5>1 DEF Absorb
        <5> QED BY <2>3, <4>1, <5>2
      <4>2. CASE Len(a.merged) = n - (k - 1)
        BY <1>2, <2>3, <3>2, <4>2
      <4> QED BY <2>2, <4>1, <4>2
    <3> QED BY <2>5, <3>1, <3>2
  <2> QED BY <2>1, <2>3, <2>5, <2>6, <2>7
<1>8. Fine(n)
  <2>1. \A k \in 0..n : k \in S
    <3> HIDE DEF S
    <3> QED BY <1>2, <1>6, <1>7, AlongList
  <2>2. n \in S
    BY <1>2, <2>1
  <2> QED BY <2>2
<1>9. PICK m, p, r : m = v[n].merged /\ p = v[n].pending /\ r = Append(m, p)
  OBVIOUS
<1>10. m \in Seq(Flagged(L)) /\ p \in Flagged(L) /\ Len(m) \in Nat
  BY <1>8, <1>9 DEF Rounds
<1>11. \A k \in 1..Len(m) : ~Overlaps(m[k], p)
  <2>1. CASE Free(v[n])
    BY <1>9, <2>1 DEF Free
  <2>2. CASE Len(v[n].merged) = n - n
    <3>1. Len(m) = 0
      BY <1>2, <1>9, <2>2
    <3> QED BY <3>1
  <2> QED BY <1>8, <2>1, <2>2
<1>12. /\ r \in Seq(Flagged(L)) /\ Len(r) = Len(m) + 1 /\ r[Len(m) + 1] = p
       /\ \A k \in 1..Len(m) : r[k] = m[k]
  BY <1>9, <1>10
<1>13. \A k \in 1..Len(r) : k \in 1..Len(m) \/ k = Len(m) + 1
  BY <1>10, <1>12
<1>k. Apart(m) /\ Cover(m) \cup Chars(p) = Cover(q) \cup Chars(s)
      /\ \A C : Shields(q, s, C) => Shields(m, p, C)
  BY <1>2, <1>8, <1>9 DEF KeepsRound, Area
<1>14. Apart(r)
  <2> SUFFICES ASSUME NEW i \in 1..Len(r), NEW j \in 1..Len(r), i # j PROVE ~Overlaps(r[i], r[j])
    BY DEF Apart
  <2>1. CASE i \in 1..Len(m) /\ j \in 1..Len(m)
    BY <1>12, <1>k, <2>1 DEF Apart
  <2>2. CASE i \in 1..Len(m) /\ j = Len(m) + 1
    BY <1>11, <1>12, <2>2
  <2>3. CASE i = Len(m) + 1 /\ j \in 1..Len(m)
    <3>1. ~Overlaps(m[j], p)
      BY <1>11, <2>3
    <3>2. ~Overlaps(p, m[j])
      BY <3>1 DEF Overlaps
    <3> QED BY <1>12, <2>3, <3>2
  <2> QED BY <1>13, <2>1, <2>2, <2>3
<1>l. 1..Len(m) \subseteq 1..Len(r) /\ Len(m) + 1 \in 1..Len(r)
  BY <1>10, <1>12
<1>15. Cover(r) = Cover(m) \cup Chars(p)
  <2>1. ASSUME NEW x \in Cover(r) PROVE x \in Cover(m) \cup Chars(p)
    BY <1>12, <1>13 DEF Cover
  <2>2. Cover(m) \subseteq Cover(r)
    BY <1>12, <1>l DEF Cover
  <2>3. Chars(p) \subseteq Cover(r)
    BY <1>12, <1>l DEF Cover
  <2> QED BY <2>1, <2>2, <2>3
<1>16. \A C : Shields(m, p, C) => Guarded(r, C)
  <2> SUFFICES ASSUME NEW C, Shields(m, p, C) PROVE Guarded(r, C)
    OBVIOUS
  <2>1. CASE p.secret /\ C \subseteq Chars(p)
    BY <1>12, <1>l, <2>1 DEF Guarded
  <2>2. CASE Guarded(m, C)
    BY <1>12, <1>l, <2>2 DEF Guarded
  <2> QED BY <2>1, <2>2 DEF Shields
<1>17. MergeInto(q, s) = r
  BY <1>4, <1>9
<1> QED BY <1>12, <1>14, <1>15, <1>16, <1>17, <1>k

\* The order of a stable sort is strict and total on the positions.
LEMMA StartOrderStrict ==
    ASSUME NEW q, NEW minor, DOMAIN q \subseteq Nat,
           \A k \in DOMAIN q : q[k].start \in Nat /\ minor[k] \in Int
    PROVE  StrictOrder(StartOrder(q, minor), DOMAIN q)
<1>1. PICK D, R : D = DOMAIN q /\ R = StartOrder(q, minor)
  OBVIOUS
<1>2. \A j, k \in D : <<j, k>> \in R <=>
         \/ q[j].start < q[k].start
         \/ q[j].start = q[k].start /\ minor[j] < minor[k]
         \/ q[j].start = q[k].start /\ minor[j] = minor[k] /\ j < k
  BY <1>1 DEF StartOrder
<1>3. PICK a, b : a = [k \in D |-> q[k].start] /\ b = [k \in D |-> minor[k]]
  OBVIOUS
<1>4. \A k \in D : k \in Nat /\ a[k] \in Nat /\ b[k] \in Int
  BY <1>1, <1>3
<1>5. \A j, k \in D : <<j, k>> \in R <=>
         \/ a[j] < a[k]
         \/ a[j] = a[k] /\ b[j] < b[k]
         \/ a[j] = a[k] /\ b[j] = b[k] /\ j < k
  BY <1>2, <1>3
<1>6. \A x \in D : <<x, x>> \notin R
  BY <1>4, <1>5
<1>7. \A x, y, z \in D : <<x, y>> \in R /\ <<y, z>> \in R => <<x, z>> \in R
  <2> SUFFICES ASSUME NEW x \in D, NEW y \in D, NEW z \in D, <<x, y>> \in R, <<y, z>> \in R
               PROVE  <<x, z>> \in R
    OBVIOUS
  <2>1. \/ a[x] < a[y]
        \/ a[x] = a[y] /\ b[x] < b[y]
        \/ a[x] = a[y] /\ b[x] = b[y] /\ x < y
    BY <1>5
  <2>2. \/ a[y] < a[z]
        \/ a[y] = a[z] /\ b[y] < b[z]
        \/ a[y] = a[z] /\ b[y] = b[z] /\ y < z
    BY <1>5
  <2>3. \/ a[x] < a[z]
        \/ a[x] = a[z] /\ b[x] < b[z]
        \/ a[x] = a[z] /\ b[x] = b[z] /\ x < z
    BY <1>4, <2>1, <2>2
  <2> QED BY <1>5, <2>3
<1>8. \A x, y \in D : x # y => <<x, y>> \in R \/ <<y, x>> \in R
  BY <1>4, <1>5
<1> QED BY <1>1, <1>6, <1>7, <1>8 DEF StrictOrder

\* r has the elements of q, each as often.
Reorders(q, r) ==
    /\ Len(r) = Len(q)
    /\ \E order \in [1..Len(q) -> 1..Len(q)] :
          /\ \A k \in 1..Len(q) : r[k] = q[order[k]]
          /\ \A j \in 1..Len(q) : \E k \in 1..Len(q) : order[k] = j
          /\ \A k, m \in 1..Len(q) : k # m => order[k] # order[m]

\* What a stable sort by start does.
LEMMA SortedByStart ==
    ASSUME NEW T, \A t \in T : t.start \in Nat, NEW q \in Seq(T), NEW minor,
           \A k \in 1..Len(q) : minor[k] \in Int
    PROVE  /\ SortByStart(q, minor) \in Seq(T) /\ Reorders(q, SortByStart(q, minor))
           /\ \A k, m \in 1..Len(q) : k < m =>
                 SortByStart(q, minor)[k].start <= SortByStart(q, minor)[m].start
<1>1. PICK R, r, D : R = StartOrder(q, minor) /\ r = SortByStart(q, minor) /\ D = DOMAIN q
  OBVIOUS
<1>2. D = 1..Len(q) /\ Len(q) \in Nat /\ \A k \in D : q[k] \in T /\ q[k].start \in Nat
  BY <1>1
<1>3. StrictOrder(R, DOMAIN q)
  <2>1. DOMAIN q \subseteq Nat /\ \A k \in DOMAIN q : q[k].start \in Nat /\ minor[k] \in Int
    BY <1>1, <1>2
  <2> QED BY <1>1, <2>1, StartOrderStrict
<1>4. r = Arranged(q, R)
  BY <1>1 DEF SortByStart
<1>5. PICK order \in [1..Len(q) -> 1..Len(q)] :
         /\ Arranged(q, R) \in Seq(T) /\ Len(Arranged(q, R)) = Len(q)
         /\ \A k \in 1..Len(q) : Arranged(q, R)[k] = q[order[k]]
         /\ \A j \in 1..Len(q) : \E k \in 1..Len(q) : order[k] = j
         /\ \A k, m \in 1..Len(q) : k < m => order[k] # order[m] /\ <<order[k], order[m]>> \in R
  BY <1>3, ArrangedElements
<1>6. /\ r \in Seq(T) /\ Len(r) = Len(q)
      /\ \A k \in 1..Len(q) : r[k] = q[order[k]] /\ order[k] \in D
  BY <1>2, <1>4, <1>5
<1>7. Reorders(q, r)
  <2>1. \A k, m \in 1..Len(q) : k # m => order[k] # order[m]
    <3> SUFFICES ASSUME NEW k \in 1..Len(q), NEW m \in 1..Len(q), k # m PROVE order[k] # order[m]
      OBVIOUS
    <3>1. k < m \/ m < k
      BY <1>2
    <3> QED BY <1>5, <3>1
  <2> QED BY <1>5, <1>6, <2>1 DEF Reorders
<1>8. ASSUME NEW k \in 1..Len(q), NEW m \in 1..Len(q), k < m PROVE r[k].start <= r[m].start
  <2>1. <<order[k], order[m]>> \in R
    BY <1>5, <1>8
  <2>2. q[order[k]].start <= q[order[m]].start
    BY <1>1, <1>2, <1>6, <2>1, SMTT(30) DEF StartOrder
  <2> QED BY <1>6, <2>2
<1> QED BY <1>1, <1>6, <1>7, <1>8

\* What a reordering changes nothing about.
LEMMA ReorderedSpans ==
    ASSUME NEW q, NEW r, Len(q) \in Nat, Reorders(q, r)
    PROVE  /\ Cover(r) = Cover(q)
           /\ Apart(q) => Apart(r)
           /\ \A C : Guarded(q, C) => Guarded(r, C)
<1>1. PICK order \in [1..Len(q) -> 1..Len(q)] :
          /\ \A k \in 1..Len(q) : r[k] = q[order[k]]
          /\ \A j \in 1..Len(q) : \E k \in 1..Len(q) : order[k] = j
          /\ \A k, m \in 1..Len(q) : k # m => order[k] # order[m]
  BY DEF Reorders
<1>2. Len(r) = Len(q) /\ \A k \in 1..Len(q) : order[k] \in 1..Len(q)
  BY DEF Reorders
<1>3. \A j \in 1..Len(q) : \E k \in 1..Len(r) : r[k] = q[j]
  BY <1>1, <1>2
<1>4. Cover(r) = Cover(q)
  <2>1. ASSUME NEW k \in 1..Len(r) PROVE Chars(r[k]) \subseteq Cover(q)
    <3>1. order[k] \in 1..Len(q) /\ r[k] = q[order[k]]
      BY <1>1, <1>2
    <3> QED BY <3>1 DEF Cover
  <2>2. Cover(r) \subseteq Cover(q)
    BY <2>1 DEF Cover
  <2>3. Cover(q) \subseteq Cover(r)
    BY <1>3 DEF Cover
  <2> QED BY <2>2, <2>3
<1>5. Apart(q) => Apart(r)
  <2> SUFFICES ASSUME Apart(q), NEW k \in 1..Len(r), NEW m \in 1..Len(r), k # m
               PROVE  ~Overlaps(r[k], r[m])
    BY DEF Apart
  <2>1. /\ order[k] \in 1..Len(q) /\ order[m] \in 1..Len(q) /\ order[k] # order[m]
        /\ r[k] = q[order[k]] /\ r[m] = q[order[m]]
    BY <1>1, <1>2
  <2>2. ~Overlaps(q[order[k]], q[order[m]])
    BY <2>1 DEF Apart
  <2> QED BY <2>1, <2>2
<1>6. \A C : Guarded(q, C) => Guarded(r, C)
  <2> SUFFICES ASSUME NEW C, Guarded(q, C) PROVE Guarded(r, C)
    OBVIOUS
  <2>1. PICK j \in 1..Len(q) : q[j].secret /\ C \subseteq Chars(q[j])
    BY DEF Guarded
  <2>2. PICK k \in 1..Len(r) : r[k] = q[j]
    BY <1>3
  <2> QED BY <2>1, <2>2 DEF Guarded
<1> QED BY <1>4, <1>5, <1>6

\* u is the function by which Merge goes through the queue.
InMerge(u, queue) ==
    u = [k \in 0..Len(queue) |-> IF k = 0 THEN << >> ELSE MergeInto(u[k - 1], queue[k])]

\* Spans that are apart, in a text of length L.
ApartSpans(L) == {q \in Seq(Flagged(L)) : Apart(q)}

\* There is one.
LEMMA InMergeExists ==
    ASSUME NEW L \in Nat, NEW queue \in Seq(Flagged(L)) PROVE \E u : InMerge(u, queue)
<1>1. PICK A, n : A = ApartSpans(L) /\ n = Len(queue)
  OBVIOUS
<1>2. n \in Nat /\ \A k \in 1..n : queue[k] \in Flagged(L)
  BY <1>1
<1>3. PICK g : g = [p \in A \X (1..n) |-> MergeInto(p[1], queue[p[2]])]
  OBVIOUS
<1>4. \A a \in A, k \in 1..n : g[<<a, k>>] = MergeInto(a, queue[k])
  BY <1>3
<1>5. \A a \in A, k \in 1..n : MergeInto(a, queue[k]) \in A
  BY <1>1, <1>2, MergeIntoKeeps DEF ApartSpans
<1>6. << >> \in A
  <2>1. << >> \in Seq(Flagged(L)) /\ Len(<< >>) = 0
    OBVIOUS
  <2>2. \A k : ~(k \in 1..Len(<< >>))
    BY <2>1
  <2> QED BY <1>1, <2>1, <2>2 DEF ApartSpans, Apart
<1>7. PICK u : Recursion(u, << >>, g, n)
  BY <1>2, RecursionExists
<1>8. u = [k \in 0..n |-> IF k = 0 THEN << >> ELSE g[<<u[k - 1], k>>]]
  BY <1>7 DEF Recursion
<1>9. \A k \in 0..n : u[k] = IF k = 0 THEN << >> ELSE g[<<u[k - 1], k>>]
  BY <1>8
<1> DEFINE S == {k \in 0..n : u[k] \in A}
<1>10. \A k \in 0..n : k \in S
  <2>1. 0 \in S
    <3>1. 0 \in 0..n
      BY <1>2
    <3>2. u[0] = << >>
      BY <1>9, <3>1
    <3> QED BY <1>6, <3>1, <3>2
  <2>2. ASSUME NEW k \in 1..n, k - 1 \in S PROVE k \in S
    <3>1. k \in 0..n /\ k # 0 /\ u[k - 1] \in A
      BY <1>2, <2>2
    <3>2. u[k] = g[<<u[k - 1], k>>]
      BY <1>9, <3>1
    <3> QED BY <1>4, <1>5, <3>1, <3>2
  <2> HIDE DEF S
  <2> QED BY <1>2, <2>1, <2>2, AlongList
<1>11. ASSUME NEW k \in 0..n PROVE u[k] = IF k = 0 THEN << >> ELSE MergeInto(u[k - 1], queue[k])
  <2>1. k # 0 => k \in 1..n /\ k - 1 \in 0..n
    BY <1>2
  <2> QED BY <1>4, <1>9, <1>10, <2>1
<1>12. u = [k \in 0..n |-> u[k]]
  BY <1>8
<1>13. InMerge(u, queue)
  BY <1>1, <1>11, <1>12 DEF InMerge
<1> QED BY <1>13

\* The spans that have gone through a queue: apart, with the positions of what
\* was put in, and every secret guarded.
LEMMA QueueMerged ==
    ASSUME NEW L \in Nat, NEW queue \in Seq(Flagged(L)), NEW u, InMerge(u, queue)
    PROVE  /\ u[Len(queue)] \in ApartSpans(L)
           /\ Cover(u[Len(queue)]) = Cover(queue)
           /\ \A k \in 1..Len(queue) :
                 queue[k].secret => Guarded(u[Len(queue)], Chars(queue[k]))
<1>1. PICK n : n = Len(queue)
  OBVIOUS
<1>2. n \in Nat /\ \A k \in 1..n : queue[k] \in Flagged(L)
  BY <1>1
<1>3. \A k \in 0..n : u[k] = IF k = 0 THEN << >> ELSE MergeInto(u[k - 1], queue[k])
  BY <1>1 DEF InMerge
<1> DEFINE Upto(k) == UNION {Chars(queue[j]) : j \in 1..k}
           Fine(k) == /\ u[k] \in ApartSpans(L)
                      /\ Cover(u[k]) = Upto(k)
                      /\ \A j \in 1..k : queue[j].secret => Guarded(u[k], Chars(queue[j]))
           S == {k \in 0..n : Fine(k)}
<1>4. 0 \in S
  <2>1. 0 \in 0..n
    BY <1>2
  <2>2. u[0] = << >>
    BY <1>3, <2>1
  <2>3. u[0] \in Seq(Flagged(L)) /\ Len(u[0]) = 0
    BY <2>2
  <2>4. \A k : ~(k \in 1..Len(u[0]))
    BY <2>3
  <2>5. u[0] \in ApartSpans(L)
    BY <2>3, <2>4 DEF ApartSpans, Apart
  <2>6. Cover(u[0]) = {}
    BY <2>4 DEF Cover
  <2>7. \A k : ~(k \in 1..0)
    OBVIOUS
  <2> QED BY <2>1, <2>5, <2>6, <2>7
<1>5. ASSUME NEW k \in 1..n, k - 1 \in S PROVE k \in S
  <2>1. PICK a, b, s : a = u[k - 1] /\ b = u[k] /\ s = queue[k]
    OBVIOUS
  <2>2. k \in 0..n /\ k # 0 /\ k \in Nat /\ k - 1 \in Nat
    BY <1>2
  <2>3. b = MergeInto(a, s)
    BY <1>3, <2>1, <2>2
  <2>4. a \in ApartSpans(L) /\ Cover(a) = Upto(k - 1)
        /\ \A j \in 1..(k - 1) : queue[j].secret => Guarded(a, Chars(queue[j]))
    BY <1>5, <2>1
  <2>5. /\ b \in Seq(Flagged(L)) /\ Apart(b) /\ Cover(b) = Cover(a) \cup Chars(s)
        /\ \A C : Shields(a, s, C) => Guarded(b, C)
    <3>1. a \in Seq(Flagged(L)) /\ Apart(a) /\ s \in Flagged(L)
      BY <1>2, <2>1, <2>4 DEF ApartSpans
    <3> QED BY <2>3, <3>1, MergeIntoKeeps
  <2>6. 1..k = 1..(k - 1) \cup {k}
    BY <2>2
  <2>7. Upto(k) = Upto(k - 1) \cup Chars(s)
    <3>1. {Chars(queue[j]) : j \in 1..k} = {Chars(queue[j]) : j \in 1..(k - 1)} \cup {Chars(queue[k])}
      BY <2>6
    <3> QED BY <2>1, <3>1
  <2>8. ASSUME NEW j \in 1..k, queue[j].secret PROVE Guarded(b, Chars(queue[j]))
    <3>1. CASE j \in 1..(k - 1)
      BY <2>4, <2>5, <2>8, <3>1 DEF Shields
    <3>2. CASE j = k
      BY <2>1, <2>5, <2>8, <3>2 DEF Shields
    <3> QED BY <2>6, <3>1, <3>2
  <2>9. b \in ApartSpans(L)
    BY <2>5 DEF ApartSpans
  <2>10. Cover(b) = Upto(k)
    BY <2>4, <2>5, <2>7
  <2> HIDE DEF Upto
  <2> QED BY <2>1, <2>2, <2>8, <2>9, <2>10
<1>6. Fine(n)
  <2>1. \A k \in 0..n : k \in S
    <3> HIDE DEF S
    <3> QED BY <1>2, <1>4, <1>5, AlongList
  <2>2. n \in S
    BY <1>2, <2>1
  <2> QED BY <2>2
<1>7. Upto(n) = Cover(queue)
  BY <1>1 DEF Cover
<1> QED BY <1>1, <1>6, <1>7

\* A hit with its flag.
LEMMA FlaggedHit ==
    ASSUME NEW L, NEW s \in Hits(L)
    PROVE  /\ WithFlags(s) \in Flagged(L) /\ Chars(WithFlags(s)) = Chars(s)
           /\ WithFlags(s).secret = Secret(s)
<1>1. PICK f : f = WithFlags(s)
  OBVIOUS
<1>2. f = [start |-> s.start, end |-> s.end, type |-> s.type, source |-> s.source,
           score |-> s.score, secret |-> Secret(s)]
  BY <1>1 DEF WithFlags
<1>3. /\ s.start \in Nat /\ s.end \in Nat /\ s.type \in Types /\ s.source \in Recognisers
      /\ s.score \in Nat /\ s.start < s.end /\ s.end <= L
  BY DEF Hits
<1>4. Secret(s) \in BOOLEAN
  BY DEF Secret
<1>5. f \in Flagged(L)
  BY <1>2, <1>3, <1>4 DEF Flagged
<1>6. f.start = s.start /\ f.end = s.end /\ f.secret = Secret(s)
  BY <1>2
<1> QED BY <1>1, <1>5, <1>6 DEF Chars

\* t has the positions of both lists, and each of their secrets.
TagsRight(reg, oth, t) ==
    /\ Cover(t) = Cover(reg) \cup Cover(oth)
    /\ \A i \in 1..Len(reg) : Secret(reg[i]) =>
          \E k \in 1..Len(t) : t[k].secret /\ Chars(t[k]) = Chars(reg[i])
    /\ \A i \in 1..Len(oth) : Secret(oth[i]) =>
          \E k \in 1..Len(t) : t[k].secret /\ Chars(t[k]) = Chars(oth[i])

\* The hits of all recognisers, with their flags.
LEMMA TaggedHits ==
    ASSUME NEW L, NEW reg \in Seq(Hits(L)), NEW oth \in Seq(Hits(L))
    PROVE  Tagged(reg, oth) \in Seq(Flagged(L)) /\ TagsRight(reg, oth, Tagged(reg, oth))
<1>1. PICK m, n, t : m = Len(reg) /\ n = Len(oth) /\ t = Tagged(reg, oth)
  OBVIOUS
<1>2. m \in Nat /\ n \in Nat /\ (\A k \in 1..m : reg[k] \in Hits(L)) /\ \A k \in 1..n : oth[k] \in Hits(L)
  BY <1>1
<1>3. t = [k \in 1..(m + n) |-> WithFlags(IF k <= m THEN reg[k] ELSE oth[k - m])]
  BY <1>1 DEF Tagged
<1>4. \A k \in 1..m : k \in 1..(m + n) /\ t[k] = WithFlags(reg[k])
  BY <1>2, <1>3
<1>5. \A k \in 1..n : k + m \in 1..(m + n) /\ t[k + m] = WithFlags(oth[k])
  BY <1>2, <1>3
<1>6. ASSUME NEW k \in 1..(m + n)
      PROVE  \/ k \in 1..m /\ t[k] = WithFlags(reg[k])
             \/ \E j \in 1..n : k = j + m /\ t[k] = WithFlags(oth[j])
  <2>1. CASE k <= m
    BY <1>2, <1>4, <2>1
  <2>2. CASE ~(k <= m)
    <3>1. k - m \in 1..n /\ k = (k - m) + m
      BY <1>2, <2>2
    <3> QED BY <1>5, <3>1
  <2> QED BY <2>1, <2>2
<1>7. \A k \in 1..(m + n) : t[k] \in Flagged(L)
  BY <1>2, <1>6, FlaggedHit
<1>8. t \in Seq(Flagged(L)) /\ Len(t) = m + n
  <2>1. t = [k \in 1..(m + n) |-> t[k]]
    BY <1>3
  <2>2. PICK F, l : F = Flagged(L) /\ l = m + n
    OBVIOUS
  <2>3. l \in Nat /\ t = [k \in 1..l |-> t[k]] /\ \A k \in 1..l : t[k] \in F
    BY <1>2, <1>7, <2>1, <2>2
  <2>4. t \in Seq(F) /\ Len(t) = l
    BY <2>3
  <2> QED BY <2>2, <2>4
<1>9. Cover(t) = Cover(reg) \cup Cover(oth)
  <2>1. \A k \in 1..m : Chars(t[k]) = Chars(reg[k])
    BY <1>2, <1>4, FlaggedHit
  <2>2. \A k \in 1..n : Chars(t[k + m]) = Chars(oth[k])
    BY <1>2, <1>5, FlaggedHit
  <2>3. Cover(reg) \subseteq Cover(t)
    <3>1. \A k \in 1..m : Chars(reg[k]) \subseteq Cover(t)
      BY <1>4, <1>8, <2>1 DEF Cover
    <3> QED BY <1>1, <3>1 DEF Cover
  <2>4. Cover(oth) \subseteq Cover(t)
    <3>1. \A k \in 1..n : Chars(oth[k]) \subseteq Cover(t)
      BY <1>5, <1>8, <2>2 DEF Cover
    <3> QED BY <1>1, <3>1 DEF Cover
  <2>5. Cover(t) \subseteq Cover(reg) \cup Cover(oth)
    <3>1. \A k \in 1..m : Chars(t[k]) \subseteq Cover(reg)
      BY <1>1, <2>1 DEF Cover
    <3>2. \A k \in 1..n : Chars(t[k + m]) \subseteq Cover(oth)
      BY <1>1, <2>2 DEF Cover
    <3>3. \A k \in 1..(m + n) : Chars(t[k]) \subseteq Cover(reg) \cup Cover(oth)
      BY <1>6, <3>1, <3>2
    <3> QED BY <1>8, <3>3 DEF Cover
  <2> QED BY <2>3, <2>4, <2>5
<1>10. ASSUME NEW i \in 1..m, Secret(reg[i])
       PROVE  \E k \in 1..Len(t) : t[k].secret /\ Chars(t[k]) = Chars(reg[i])
  <2>1. t[i].secret /\ Chars(t[i]) = Chars(reg[i]) /\ i \in 1..Len(t)
    BY <1>2, <1>4, <1>8, <1>10, FlaggedHit
  <2> QED BY <2>1
<1>11. ASSUME NEW i \in 1..n, Secret(oth[i])
       PROVE  \E k \in 1..Len(t) : t[k].secret /\ Chars(t[k]) = Chars(oth[i])
  <2>1. t[i + m].secret /\ Chars(t[i + m]) = Chars(oth[i]) /\ i + m \in 1..Len(t)
    BY <1>2, <1>5, <1>8, <1>11, FlaggedHit
  <2> QED BY <2>1
<1>12. TagsRight(reg, oth, t)
  BY <1>1, <1>9, <1>10, <1>11 DEF TagsRight
<1> QED BY <1>1, <1>8, <1>12

\* The spans of a text of length L in their order, none on another.
Lined(L) ==
    {q \in Seq(Flagged(L)) : \A i, j \in 1..Len(q) : i < j => q[i].end <= q[j].start}

\* SpanArbiter.merge: spans in their order, with the positions of all hits, and
\* each secret hit within one that is never restored.
LEMMA MergeSound ==
    ASSUME NEW L \in Nat, NEW reg \in Seq(Hits(L)), NEW oth \in Seq(Hits(L))
    PROVE  /\ Merge(reg, oth) \in Lined(L)
           /\ Apart(Merge(reg, oth))
           /\ Cover(Merge(reg, oth)) = Cover(reg) \cup Cover(oth)
           /\ \A i \in 1..Len(reg) : Secret(reg[i]) => Guarded(Merge(reg, oth), Chars(reg[i]))
           /\ \A i \in 1..Len(oth) : Secret(oth[i]) => Guarded(Merge(reg, oth), Chars(oth[i]))
<1>1. PICK t : t = Tagged(reg, oth)
  OBVIOUS
<1>2. /\ t \in Seq(Flagged(L)) /\ Cover(t) = Cover(reg) \cup Cover(oth)
      /\ \A i \in 1..Len(reg) : Secret(reg[i]) =>
            \E k \in 1..Len(t) : t[k].secret /\ Chars(t[k]) = Chars(reg[i])
      /\ \A i \in 1..Len(oth) : Secret(oth[i]) =>
            \E k \in 1..Len(t) : t[k].secret /\ Chars(t[k]) = Chars(oth[i])
  <2>1. t \in Seq(Flagged(L)) /\ TagsRight(reg, oth, t)
    BY <1>1, TaggedHits
  <2> QED BY <2>1 DEF TagsRight
<1>3. \A s \in Flagged(L) : s.start \in Nat /\ s.end \in Nat /\ s.score \in Nat /\ s.start < s.end
  BY DEF Flagged
<1>4. PICK minor : minor = [k \in DOMAIN t |-> -t[k].score]
  OBVIOUS
<1>5. PICK queue : queue = SortByStart(t, minor)
  OBVIOUS
<1>6. /\ queue \in Seq(Flagged(L)) /\ Reorders(t, queue) /\ Len(t) \in Nat
  <2>1. \A k \in 1..Len(t) : minor[k] \in Int
    BY <1>2, <1>3, <1>4
  <2>2. \A s \in Flagged(L) : s.start \in Nat
    BY <1>3
  <2>3. Len(t) \in Nat
    BY <1>2
  <2> QED BY <1>2, <1>5, <2>1, <2>2, <2>3, SortedByStart
<1> DEFINE v == CHOOSE u : InMerge(u, queue)
<1>7. InMerge(v, queue)
  <2>1. \E u : InMerge(u, queue)
    BY <1>6, InMergeExists
  <2> QED BY <2>1, Zenon
<1>8. PICK s : s = v[Len(queue)]
  OBVIOUS
<1>9. PICK least : least = [k \in DOMAIN s |-> s[k].end]
  OBVIOUS
<1>10. Merge(reg, oth) = SortByStart(s, least)
  BY <1>1, <1>4, <1>5, <1>8, <1>9 DEF Merge, InMerge
<1> HIDE DEF v
<1>11. /\ s \in ApartSpans(L) /\ Cover(s) = Cover(queue)
       /\ \A k \in 1..Len(queue) : queue[k].secret => Guarded(s, Chars(queue[k]))
  BY <1>6, <1>7, <1>8, QueueMerged
<1>12. s \in Seq(Flagged(L)) /\ Apart(s) /\ Len(s) \in Nat
  BY <1>11 DEF ApartSpans
<1>13. PICK r : r = Merge(reg, oth)
  OBVIOUS
<1>14. /\ r \in Seq(Flagged(L)) /\ Reorders(s, r)
       /\ \A k, m \in 1..Len(s) : k < m => r[k].start <= r[m].start
  <2>1. \A k \in 1..Len(s) : least[k] \in Int
    BY <1>3, <1>9, <1>12
  <2>2. \A x \in Flagged(L) : x.start \in Nat
    BY <1>3
  <2> QED BY <1>10, <1>12, <1>13, <2>1, <2>2, SortedByStart
<1>15. Cover(r) = Cover(reg) \cup Cover(oth) /\ Apart(r)
  BY <1>2, <1>6, <1>11, <1>12, <1>14, ReorderedSpans
<1>16. r \in Lined(L)
  <2> SUFFICES ASSUME NEW i \in 1..Len(r), NEW j \in 1..Len(r), i < j PROVE r[i].end <= r[j].start
    BY <1>14 DEF Lined
  <2>1. Len(r) = Len(s)
    BY <1>14 DEF Reorders
  <2>2. r[i].start <= r[j].start
    BY <1>14, <2>1
  <2>3. i # j
    BY <1>12, <2>1
  <2>4. ~Overlaps(r[i], r[j])
    BY <1>15, <2>3 DEF Apart
  <2>5. r[i] \in Flagged(L) /\ r[j] \in Flagged(L)
    BY <1>14
  <2> QED BY <1>3, <2>2, <2>4, <2>5 DEF Overlaps
<1>17. \A C : (\E k \in 1..Len(t) : t[k].secret /\ Chars(t[k]) = C) => Guarded(r, C)
  <2> SUFFICES ASSUME NEW C, NEW k \in 1..Len(t), t[k].secret, Chars(t[k]) = C PROVE Guarded(r, C)
    OBVIOUS
  <2>1. Guarded(t, C)
    BY DEF Guarded
  <2>2. Guarded(queue, C)
    BY <1>6, <2>1, ReorderedSpans
  <2>3. PICK j \in 1..Len(queue) : queue[j].secret /\ C \subseteq Chars(queue[j])
    BY <2>2 DEF Guarded
  <2>4. Guarded(s, Chars(queue[j]))
    BY <1>11, <2>3
  <2>5. Guarded(s, C)
    BY <2>3, <2>4 DEF Guarded
  <2> QED BY <1>12, <1>14, <2>5, ReorderedSpans
<1> QED BY <1>2, <1>13, <1>15, <1>16, <1>17

\* u is the function by which CollapseOverlaps goes through the queue.
InCollapse(u, queue) ==
    u = [k \in 0..Len(queue) |-> IF k = 0 THEN << >> ELSE CollapseInto(u[k - 1], queue[k])]

\* A hit that is kept, replaces another or is dropped.
LEMMA CollapseIntoType ==
    ASSUME NEW L \in Nat, NEW kept \in Seq(Hits(L)), NEW s \in Hits(L)
    PROVE  CollapseInto(kept, s) \in Seq(Hits(L))
<1>1. PICK i, H : i = FirstOverlap(kept, s) /\ H = Hits(L)
  OBVIOUS
<1>2. kept \in Seq(H) /\ s \in H /\ Len(kept) \in Nat
  BY <1>1
<1>3. i = 0 \/ i \in 1..Len(kept)
  BY <1>1, <1>2, FirstOverlapFinds
<1>4. CollapseInto(kept, s) \in {Append(kept, s), [kept EXCEPT ![i] = s], kept}
  BY <1>1 DEF CollapseInto
<1>5. CASE CollapseInto(kept, s) = Append(kept, s)
  BY <1>1, <1>2, <1>5
<1>6. CASE i = 0
  <2>1. CollapseInto(kept, s) = Append(kept, s)
    BY <1>1, <1>6 DEF CollapseInto
  <2> QED BY <1>5, <2>1
<1>7. CASE i \in 1..Len(kept) /\ CollapseInto(kept, s) = [kept EXCEPT ![i] = s]
  <2>1. [kept EXCEPT ![i] = s] \in Seq(H)
    BY <1>2, <1>7
  <2> QED BY <1>1, <1>7, <2>1
<1>8. CASE CollapseInto(kept, s) = kept
  BY <1>8
<1> QED BY <1>3, <1>4, <1>5, <1>6, <1>7, <1>8

\* RegexDetector._collapse_overlaps: hits of the same text.
LEMMA CollapseType ==
    ASSUME NEW L \in Nat, NEW hits \in Seq(Hits(L)) PROVE CollapseOverlaps(hits) \in Seq(Hits(L))
<1>1. PICK minor : minor = [k \in DOMAIN hits |-> -hits[k].end]
  OBVIOUS
<1>2. PICK queue, H : queue = SortByStart(hits, minor) /\ H = Hits(L)
  OBVIOUS
<1>3. \A s \in Hits(L) : s.start \in Nat /\ s.end \in Nat
  BY DEF Hits
<1>4. queue \in Seq(H)
  <2>1. \A k \in 1..Len(hits) : minor[k] \in Int
    BY <1>1, <1>3
  <2>2. \A s \in Hits(L) : s.start \in Nat
    BY <1>3
  <2> QED BY <1>2, <2>1, <2>2, SortedByStart
<1>5. PICK n, A : n = Len(queue) /\ A = Seq(H)
  OBVIOUS
<1>6. n \in Nat /\ (\A k \in 1..n : queue[k] \in H) /\ << >> \in A
  BY <1>4, <1>5
<1>7. PICK g : g = [p \in A \X (1..n) |-> CollapseInto(p[1], queue[p[2]])]
  OBVIOUS
<1>8. \A a \in A, k \in 1..n : g[<<a, k>>] = CollapseInto(a, queue[k])
  BY <1>7
<1>9. \A a \in A, k \in 1..n : CollapseInto(a, queue[k]) \in A
  BY <1>2, <1>5, <1>6, CollapseIntoType
<1>10. PICK u : Recursion(u, << >>, g, n)
  BY <1>6, RecursionExists
<1>11. u = [k \in 0..n |-> IF k = 0 THEN << >> ELSE g[<<u[k - 1], k>>]]
  BY <1>10 DEF Recursion
<1>12. \A k \in 0..n : u[k] = IF k = 0 THEN << >> ELSE g[<<u[k - 1], k>>]
  BY <1>11
<1> DEFINE S == {k \in 0..n : u[k] \in A}
<1>13. \A k \in 0..n : k \in S
  <2>1. 0 \in S
    <3>1. 0 \in 0..n
      BY <1>6
    <3>2. u[0] = << >>
      BY <1>12, <3>1
    <3> QED BY <1>6, <3>1, <3>2
  <2>2. ASSUME NEW k \in 1..n, k - 1 \in S PROVE k \in S
    <3>1. k \in 0..n /\ k # 0 /\ u[k - 1] \in A
      BY <1>6, <2>2
    <3>2. u[k] = g[<<u[k - 1], k>>]
      BY <1>12, <3>1
    <3> QED BY <1>8, <1>9, <3>1, <3>2
  <2> HIDE DEF S
  <2> QED BY <1>6, <2>1, <2>2, AlongList
<1>14. ASSUME NEW k \in 0..n PROVE u[k] = IF k = 0 THEN << >> ELSE CollapseInto(u[k - 1], queue[k])
  <2>1. k # 0 => k \in 1..n /\ k - 1 \in 0..n
    BY <1>6
  <2> QED BY <1>8, <1>12, <1>13, <2>1
<1>15. u = [k \in 0..n |-> u[k]]
  BY <1>11
<1>16. \E w : InCollapse(w, queue)
  <2>1. InCollapse(u, queue)
    BY <1>5, <1>14, <1>15 DEF InCollapse
  <2> QED BY <2>1
<1> DEFINE v == CHOOSE w : InCollapse(w, queue)
<1>17. InCollapse(v, queue)
  BY <1>16, Zenon
<1>18. CollapseOverlaps(hits) = v[n]
  BY <1>1, <1>2, <1>5 DEF CollapseOverlaps, InCollapse
<1> HIDE DEF v
<1>19. \A k \in 0..n : v[k] = IF k = 0 THEN << >> ELSE CollapseInto(v[k - 1], queue[k])
  BY <1>5, <1>17 DEF InCollapse
<1> DEFINE V == {k \in 0..n : v[k] \in A}
<1>20. \A k \in 0..n : k \in V
  <2>1. 0 \in V
    <3>1. 0 \in 0..n
      BY <1>6
    <3>2. v[0] = << >>
      BY <1>19, <3>1
    <3> QED BY <1>6, <3>1, <3>2
  <2>2. ASSUME NEW k \in 1..n, k - 1 \in V PROVE k \in V
    <3>1. k \in 0..n /\ k # 0 /\ v[k - 1] \in A
      BY <1>6, <2>2
    <3>2. v[k] = CollapseInto(v[k - 1], queue[k])
      BY <1>19, <3>1
    <3> QED BY <1>9, <3>1, <3>2
  <2> HIDE DEF V
  <2> QED BY <1>6, <2>1, <2>2, AlongList
<1>21. n \in V
  BY <1>6, <1>20
<1> QED BY <1>2, <1>5, <1>18, <1>21

\* A span that stays is one of the text also after its type was downgraded.
LEMMA ValidatedSpan ==
    ASSUME NEW L \in Nat, NEW txt, NEW s \in Flagged(L), SpanStays(txt, s)
    PROVE  /\ Validated(txt, s) \in Flagged(L)
           /\ Validated(txt, s).start = s.start /\ Validated(txt, s).end = s.end
<1>1. CASE Passes(txt, s)
  BY <1>1 DEF Validated
<1>2. CASE ~Passes(txt, s)
  <2>1. s.type \in DOMAIN OnFormat
    BY <1>2 DEF SpanStays
  <2>2. OnFormat[s.type] \in Types
    BY <2>1, MaskingAssumption
  <2>3. PICK f : f = Validated(txt, s)
    OBVIOUS
  <2>4. f = [start |-> s.start, end |-> s.end, type |-> OnFormat[s.type],
             source |-> s.source, score |-> s.score, secret |-> s.secret]
    BY <1>2, <2>3 DEF Validated, Flagged
  <2>5. f \in Flagged(L) /\ f.start = s.start /\ f.end = s.end
    BY <2>2, <2>4 DEF Flagged
  <2> QED BY <2>3, <2>5
<1> QED BY <1>1, <1>2

\* What detection accepts: spans of the text in their order, none on another.
LEMMA DetectionsLined ==
    ASSUME NEW L \in Nat, NEW txt, NEW reg \in Seq(Hits(L)), NEW oth \in Seq(Hits(L))
    PROVE  Detections(txt, reg, oth) \in Lined(L)
<1>1. PICK spans, F : spans = Merge(CollapseOverlaps(reg), oth) /\ F = Flagged(L)
  OBVIOUS
<1>2. spans \in Seq(F) /\ \A i, j \in 1..Len(spans) : i < j => spans[i].end <= spans[j].start
  <2>1. CollapseOverlaps(reg) \in Seq(Hits(L))
    BY CollapseType
  <2>2. spans \in Lined(L)
    BY <1>1, <2>1, MergeSound
  <2> QED BY <1>1, <2>2 DEF Lined
<1>3. PICK T : T = {s \in ToSet(spans) : SpanStays(txt, s)}
  OBVIOUS
<1>4. PICK kept : kept = Kept(spans, T)
  OBVIOUS
<1>5. kept \in Seq(F) /\ ToSet(kept) \subseteq T
  BY <1>2, <1>4, KeptElements
<1>6. PICK R : R = {p \in F \X F : p[1].end <= p[2].start}
  OBVIOUS
<1>7. \A i, j \in 1..Len(spans) : i < j => <<spans[i], spans[j]>> \in R
  BY <1>2, <1>6
<1>8. \A i, j \in 1..Len(kept) : i < j => <<kept[i], kept[j]>> \in R
  BY <1>2, <1>4, <1>7, KeptInOrder
<1>9. \A k \in 1..Len(kept) : kept[k] \in F /\ SpanStays(txt, kept[k])
  <2> SUFFICES ASSUME NEW k \in 1..Len(kept) PROVE kept[k] \in F /\ SpanStays(txt, kept[k])
    OBVIOUS
  <2>1. kept[k] \in F /\ k \in DOMAIN kept
    BY <1>5
  <2>2. kept[k] \in ToSet(kept)
    BY <2>1 DEF ToSet
  <2> QED BY <1>3, <1>5, <2>1, <2>2
<1>10. PICK n, d : n = Len(kept) /\ d = Detections(txt, reg, oth)
  OBVIOUS
<1>11. d = [k \in 1..n |-> Validated(txt, kept[k])]
  BY <1>1, <1>3, <1>4, <1>10 DEF Detections
<1>12. n \in Nat /\ \A k \in 1..n : d[k] \in F /\ d[k].start = kept[k].start /\ d[k].end = kept[k].end
  <2>1. n \in Nat
    BY <1>5, <1>10
  <2>2. ASSUME NEW k \in 1..n
        PROVE  d[k] \in F /\ d[k].start = kept[k].start /\ d[k].end = kept[k].end
    <3>1. kept[k] \in Flagged(L) /\ SpanStays(txt, kept[k]) /\ d[k] = Validated(txt, kept[k])
      BY <1>1, <1>9, <1>10, <1>11
    <3>2. /\ Validated(txt, kept[k]) \in Flagged(L)
          /\ Validated(txt, kept[k]).start = kept[k].start
          /\ Validated(txt, kept[k]).end = kept[k].end
      BY <3>1, ValidatedSpan
    <3> QED BY <1>1, <3>1, <3>2
  <2> QED BY <2>1, <2>2
<1>13. d \in Seq(F) /\ Len(d) = n
  <2>1. d = [k \in 1..n |-> d[k]]
    BY <1>11
  <2> QED BY <1>12, <2>1
<1>14. ASSUME NEW i \in 1..n, NEW j \in 1..n, i < j PROVE d[i].end <= d[j].start
  <2>1. kept[i].end <= kept[j].start
    BY <1>6, <1>8, <1>10, <1>14
  <2> QED BY <1>12, <2>1
<1> QED BY <1>1, <1>10, <1>13, <1>14 DEF Lined

\* The spans of a list in their order.
LEMMA LinedSpans ==
    ASSUME NEW L \in Nat, NEW D \in Lined(L)
    PROVE  /\ Len(D) \in Nat
           /\ \A n \in 1..Len(D) : /\ D[n] \in Flagged(L) /\ D[n].secret \in BOOLEAN
                                   /\ D[n].start \in Nat /\ D[n].end \in Nat
                                   /\ D[n].start < D[n].end /\ D[n].end <= L
           /\ \A m, n \in 1..Len(D) : m < n => D[m].end <= D[n].start
<1>1. D \in Seq(Flagged(L)) /\ \A m, n \in 1..Len(D) : m < n => D[m].end <= D[n].start
  BY DEF Lined
<1>2. Len(D) \in Nat /\ \A n \in 1..Len(D) : D[n] \in Flagged(L)
  BY <1>1
<1> QED BY <1>1, <1>2 DEF Flagged

-----------------------------------------------------------------------------
(***************************************************************************)
(* SpanMasking, there and back: restoring goes item by item, a new token   *)
(* has no entry yet, and a token is restored to its value exactly when it  *)
(* was made for one that may be.                                           *)
(***************************************************************************)

\* The characters, with the one that stands for a token, and the tokens a text
\* is made of, and what hides a secret.
Char == [char : STRING \cup {"#"}]
Token == [type : Types, index : Nat]
Items == Char \cup Token
Hash == [char |-> "#"]

\* What a session may have mapped.
Maps == SUBSET (Token \X Seq(Char))

\* A character is not a token.
LEMMA CharsAndTokens ==
    /\ \A c \in Char : "type" \notin DOMAIN c
    /\ \A t \in Token : "type" \in DOMAIN t
    /\ \A c \in Char : c \notin Token
    /\ Hash \in Char
<1>1. ASSUME NEW c \in Char PROVE "type" \notin DOMAIN c
  <2>1. PICK C : C = STRING \cup {"#"}
    OBVIOUS
  <2>2. c \in [char : C]
    BY <2>1 DEF Char
  <2>3. DOMAIN c = {"char"}
    BY <2>2
  <2> QED BY <2>3
<1>2. ASSUME NEW t \in Token PROVE "type" \in DOMAIN t
  BY DEF Token
<1>3. Hash \in Char
  <2>1. PICK C : C = STRING \cup {"#"}
    OBVIOUS
  <2>2. "#" \in C
    BY <2>1
  <2>3. Hash \in [char : C]
    BY <2>1, <2>2 DEF Hash
  <2> QED BY <2>1, <2>3 DEF Char
<1> QED BY <1>1, <1>2, <1>3

\* What is put in the place of an item is made of items; a character and a
\* token without an entry stay.
LEMMA RestoredItem ==
    ASSUME NEW m \in Maps, NEW x \in Items
    PROVE  /\ Restored(x, m) \in Seq(Items)
           /\ (\A e \in m : e[1] # x) => Restored(x, m) = << x >>
           /\ x \in Char => Restored(x, m) = << x >>
<1>1. PICK es : es = {e \in m : e[1] = x}
  OBVIOUS
<1>2. Restored(x, m) = IF es = {} THEN << x >> ELSE (CHOOSE e \in es : TRUE)[2]
  BY <1>1 DEF Restored
<1>3. \A e \in m : e[1] \in Token /\ e[2] \in Seq(Char)
  BY DEF Maps
<1>4. CASE es = {}
  BY <1>1, <1>2, <1>4
<1>5. CASE es # {}
  <2>1. PICK e : e = CHOOSE d \in es : TRUE
    OBVIOUS
  <2>2. e \in es
    BY <1>5, <2>1
  <2>3. e \in m /\ e[1] = x /\ Restored(x, m) = e[2]
    BY <1>1, <1>2, <1>5, <2>1, <2>2
  <2>4. e[2] \in Seq(Items)
    BY <1>3, <2>3 DEF Items
  <2>5. x \notin Char
    BY <1>3, <2>3, CharsAndTokens
  <2> QED BY <2>3, <2>4, <2>5
<1> QED BY <1>4, <1>5

\* The list that Restore flattens.
LEMMA RestoreParts ==
    ASSUME NEW m \in Maps, NEW x \in Seq(Items)
    PROVE  \E ss \in Seq(Seq(Items)) :
              /\ Len(ss) = Len(x) /\ Restore(x, m) = FlattenSeq(ss)
              /\ \A i \in 1..Len(x) : ss[i] = Restored(x[i], m)
<1>1. PICK ss, U : ss = [i \in 1..Len(x) |-> Restored(x[i], m)] /\ U = Seq(Items)
  OBVIOUS
<1>2. ss \in Seq(U) /\ Len(ss) = Len(x) /\ \A i \in 1..Len(x) : ss[i] = Restored(x[i], m)
  <2>1. Len(x) \in Nat /\ \A i \in 1..Len(x) : x[i] \in Items
    OBVIOUS
  <2>2. \A i \in 1..Len(x) : Restored(x[i], m) \in U
    BY <1>1, <2>1, RestoredItem
  <2> QED BY <1>1, <2>1, <2>2
<1>3. Restore(x, m) = FlattenSeq(ss)
  BY <1>1 DEF Restore
<1> QED BY <1>1, <1>2, <1>3

\* Restoring goes item by item.
LEMMA RestoreConcat ==
    ASSUME NEW m \in Maps, NEW x \in Seq(Items), NEW y \in Seq(Items)
    PROVE  /\ Restore(x, m) \in Seq(Items)
           /\ Restore(x \o y, m) = Restore(x, m) \o Restore(y, m)
<1>1. PICK z : z = x \o y
  OBVIOUS
<1>2. /\ z \in Seq(Items) /\ Len(z) = Len(x) + Len(y) /\ Len(x) \in Nat /\ Len(y) \in Nat
      /\ \A i \in 1..Len(z) : z[i] = IF i <= Len(x) THEN x[i] ELSE y[i - Len(x)]
  BY <1>1
<1>3. PICK sx \in Seq(Seq(Items)) :
         /\ Len(sx) = Len(x) /\ Restore(x, m) = FlattenSeq(sx)
         /\ \A i \in 1..Len(x) : sx[i] = Restored(x[i], m)
  BY RestoreParts
<1>4. PICK sy \in Seq(Seq(Items)) :
         /\ Len(sy) = Len(y) /\ Restore(y, m) = FlattenSeq(sy)
         /\ \A i \in 1..Len(y) : sy[i] = Restored(y[i], m)
  BY RestoreParts
<1>5. PICK sz \in Seq(Seq(Items)) :
         /\ Len(sz) = Len(z) /\ Restore(z, m) = FlattenSeq(sz)
         /\ \A i \in 1..Len(z) : sz[i] = Restored(z[i], m)
  BY <1>2, RestoreParts
<1>6. sz = sx \o sy
  <2>1. PICK U : U = Seq(Items)
    OBVIOUS
  <2>2. sx \in Seq(U) /\ sy \in Seq(U) /\ sz \in Seq(U)
    BY <1>3, <1>4, <1>5, <2>1
  <2>3. PICK w : w = sx \o sy
    OBVIOUS
  <2>4. /\ w \in Seq(U) /\ Len(w) = Len(z)
        /\ \A i \in 1..Len(z) : w[i] = IF i <= Len(x) THEN sx[i] ELSE sy[i - Len(x)]
    <3>1. /\ sx \o sy \in Seq(U) /\ Len(sx \o sy) = Len(sx) + Len(sy)
          /\ \A i \in 1..(Len(sx) + Len(sy)) :
                (sx \o sy)[i] = IF i <= Len(sx) THEN sx[i] ELSE sy[i - Len(sx)]
      BY <2>2, ConcatParts
    <3>2. Len(sx) = Len(x) /\ Len(sx) + Len(sy) = Len(z)
      BY <1>2, <1>3, <1>4
    <3> QED BY <2>3, <3>1, <3>2, Zenon
  <2>5. ASSUME NEW i \in 1..Len(z) PROVE sz[i] = w[i]
    <3>1. sz[i] = Restored(z[i], m)
      BY <1>5
    <3>2. CASE i <= Len(x)
      <4>1. i \in 1..Len(x)
        BY <1>2, <3>2
      <4> QED BY <1>2, <1>3, <2>4, <3>1, <3>2, <4>1
    <3>3. CASE ~(i <= Len(x))
      <4>1. i - Len(x) \in 1..Len(y)
        BY <1>2, <3>3
      <4> QED BY <1>2, <1>4, <2>4, <3>1, <3>3, <4>1
    <3> QED BY <3>2, <3>3
  <2>6. sz = w
    BY <1>5, <2>2, <2>4, <2>5, SeqEqual
  <2> QED BY <2>3, <2>6
<1>7. FlattenSeq(sx \o sy) = FlattenSeq(sx) \o FlattenSeq(sy)
  BY FlattenConcat
<1>8. FlattenSeq(sx) \in Seq(Items)
  BY FlattenType
<1> QED BY <1>1, <1>3, <1>4, <1>5, <1>6, <1>7, <1>8

\* A text in which nothing is mapped stays.
LEMMA RestoreNothing ==
    ASSUME NEW m \in Maps, NEW x \in Seq(Items),
           \A i \in 1..Len(x) : x[i] \in Char \/ \A e \in m : e[1] # x[i]
    PROVE  Restore(x, m) = x
<1>1. PICK ss \in Seq(Seq(Items)) :
         /\ Len(ss) = Len(x) /\ Restore(x, m) = FlattenSeq(ss)
         /\ \A i \in 1..Len(x) : ss[i] = Restored(x[i], m)
  BY RestoreParts
<1>2. \A i \in 1..Len(x) : ss[i] = << x[i] >>
  <2> SUFFICES ASSUME NEW i \in 1..Len(x) PROVE ss[i] = << x[i] >>
    OBVIOUS
  <2>1. x[i] \in Items
    OBVIOUS
  <2>2. Restored(x[i], m) = << x[i] >>
    BY <2>1, RestoredItem
  <2> QED BY <1>1, <2>2
<1>3. FlattenSeq(ss) = x
  BY <1>1, <1>2, FlattenOnes
<1> QED BY <1>1, <1>3

\* A token alone.
LEMMA RestoreToken ==
    ASSUME NEW m \in Maps, NEW t \in Token PROVE Restore(<< t >>, m) = Restored(t, m)
<1>1. PICK x : x = << t >>
  OBVIOUS
<1>2. x \in Seq(Items) /\ Len(x) = 1 /\ x[1] = t
  BY <1>1 DEF Items
<1>3. PICK ss \in Seq(Seq(Items)) :
         /\ Len(ss) = Len(x) /\ Restore(x, m) = FlattenSeq(ss)
         /\ \A i \in 1..Len(x) : ss[i] = Restored(x[i], m)
  BY <1>2, RestoreParts
<1>4. Len(ss) = 1 /\ ss[1] = Restored(t, m)
  BY <1>2, <1>3
<1>a. PICK n : n = Len(ss)
  OBVIOUS
<1>5. PICK f : Flattens(f, n, ss) /\ FlattenSeq(ss) = f[n]
  <2>1. Len(ss) \in Nat /\ Len(ss) # 0
    BY <1>4
  <2> QED BY <1>a, <2>1, FlattenIsLast
<1>6. n = 1 /\ f[1] = ss[1]
  BY <1>4, <1>5, <1>a DEF Flattens
<1> QED BY <1>1, <1>3, <1>4, <1>5, <1>6

\* New entries for tokens that a text does not have leave it alone.
LEMMA RestoreMore ==
    ASSUME NEW m \in Maps, NEW k \in Maps, NEW x \in Seq(Items), m \subseteq k,
           \A e \in k : e \in m \/ \A i \in 1..Len(x) : x[i] # e[1]
    PROVE  Restore(x, k) = Restore(x, m)
<1>1. ASSUME NEW i \in 1..Len(x) PROVE Restored(x[i], k) = Restored(x[i], m)
  <2>1. \A e \in k : e[1] = x[i] => e \in m
    OBVIOUS
  <2>2. {e \in k : e[1] = x[i]} = {e \in m : e[1] = x[i]}
    BY <2>1
  <2>3. PICK es : es = {e \in k : e[1] = x[i]}
    OBVIOUS
  <2>4. Restored(x[i], k) = IF es = {} THEN << x[i] >> ELSE (CHOOSE e \in es : TRUE)[2]
    BY <2>3 DEF Restored
  <2>5. Restored(x[i], m) = IF es = {} THEN << x[i] >> ELSE (CHOOSE e \in es : TRUE)[2]
    <3>1. es = {e \in m : e[1] = x[i]}
      BY <2>2, <2>3, Zenon
    <3> QED BY <3>1 DEF Restored
  <2> QED BY <2>4, <2>5
<1>2. [i \in 1..Len(x) |-> Restored(x[i], k)] = [i \in 1..Len(x) |-> Restored(x[i], m)]
  BY <1>1
<1> QED BY <1>2 DEF Restore

\* With every token shown as one "#".
LEMMA HashedText ==
    ASSUME NEW x \in Seq(Items)
    PROVE  /\ Hashed(x) \in Seq(Char) /\ Len(Hashed(x)) = Len(x)
           /\ \A i \in 1..Len(x) : Hashed(x)[i] = IF x[i] \in Char THEN x[i] ELSE Hash
<1>1. PICK h : h = [i \in 1..Len(x) |-> IF "type" \in DOMAIN x[i] THEN Hash ELSE x[i]]
  OBVIOUS
<1>2. Hashed(x) = h
  BY <1>1 DEF Hashed, Hash
<1>3. Len(x) \in Nat /\ \A i \in 1..Len(x) : x[i] \in Items
  OBVIOUS
<1>4. ASSUME NEW i \in 1..Len(x)
      PROVE  h[i] \in Char /\ h[i] = IF x[i] \in Char THEN x[i] ELSE Hash
  <2>1. h[i] = IF "type" \in DOMAIN x[i] THEN Hash ELSE x[i]
    BY <1>1
  <2>2. CASE x[i] \in Char
    BY <2>1, <2>2, CharsAndTokens
  <2>3. CASE x[i] \in Token
    <3>1. x[i] \notin Char
      BY <2>3, CharsAndTokens
    <3> QED BY <2>1, <2>3, <3>1, CharsAndTokens
  <2> QED BY <1>3, <2>2, <2>3 DEF Items
<1>5. h \in Seq(Char) /\ Len(h) = Len(x)
  <2>1. h = [i \in 1..Len(x) |-> h[i]]
    BY <1>1
  <2> QED BY <1>3, <1>4, <2>1
<1> QED BY <1>2, <1>4, <1>5

\* A text without tokens is shown as it is.
LEMMA HashedChars == ASSUME NEW x \in Seq(Char) PROVE x \in Seq(Items) /\ Hashed(x) = x
<1>1. x \in Seq(Items)
  BY DEF Items
<1>2. PICK h : h = Hashed(x)
  OBVIOUS
<1>3. /\ h \in Seq(Char) /\ Len(h) = Len(x)
      /\ \A i \in 1..Len(x) : h[i] = IF x[i] \in Char THEN x[i] ELSE Hash
  BY <1>1, <1>2, HashedText
<1>4. h = x
  BY <1>3, SeqEqual
<1> QED BY <1>1, <1>2, <1>4

\* And goes item by item.
LEMMA HashedConcat ==
    ASSUME NEW x \in Seq(Items), NEW y \in Seq(Items)
    PROVE  Hashed(x \o y) = Hashed(x) \o Hashed(y)
<1>1. PICK z, hx, hy, hz : z = x \o y /\ hx = Hashed(x) /\ hy = Hashed(y) /\ hz = Hashed(z)
  OBVIOUS
<1>2. /\ z \in Seq(Items) /\ Len(z) = Len(x) + Len(y) /\ Len(x) \in Nat /\ Len(y) \in Nat
      /\ \A i \in 1..Len(z) : z[i] = IF i <= Len(x) THEN x[i] ELSE y[i - Len(x)]
  BY <1>1
<1>3. /\ hx \in Seq(Char) /\ Len(hx) = Len(x)
      /\ \A i \in 1..Len(x) : hx[i] = IF x[i] \in Char THEN x[i] ELSE Hash
  BY <1>1, HashedText
<1>4. /\ hy \in Seq(Char) /\ Len(hy) = Len(y)
      /\ \A i \in 1..Len(y) : hy[i] = IF y[i] \in Char THEN y[i] ELSE Hash
  BY <1>1, HashedText
<1>5. /\ hz \in Seq(Char) /\ Len(hz) = Len(z)
      /\ \A i \in 1..Len(z) : hz[i] = IF z[i] \in Char THEN z[i] ELSE Hash
  BY <1>1, <1>2, HashedText
<1>6. PICK w : w = hx \o hy
  OBVIOUS
<1>7. /\ w \in Seq(Char) /\ Len(w) = Len(z)
      /\ \A i \in 1..Len(z) : w[i] = IF i <= Len(x) THEN hx[i] ELSE hy[i - Len(x)]
  <2>1. /\ hx \o hy \in Seq(Char) /\ Len(hx \o hy) = Len(hx) + Len(hy)
        /\ \A i \in 1..(Len(hx) + Len(hy)) :
              (hx \o hy)[i] = IF i <= Len(hx) THEN hx[i] ELSE hy[i - Len(hx)]
    <3>1. hx \in Seq(Char) /\ hy \in Seq(Char)
      BY <1>3, <1>4
    <3>2. PICK U : U = Char
      OBVIOUS
    <3> QED BY <3>1, <3>2, ConcatParts
  <2>2. Len(hx) = Len(x) /\ Len(hx) + Len(hy) = Len(z)
    BY <1>2, <1>3, <1>4
  <2> QED BY <1>6, <2>1, <2>2, Zenon
<1>8. ASSUME NEW i \in 1..Len(z) PROVE hz[i] = w[i]
  <2>1. CASE i <= Len(x)
    <3>1. i \in 1..Len(x)
      BY <1>2, <2>1
    <3> QED BY <1>2, <1>3, <1>5, <1>7, <2>1, <3>1
  <2>2. CASE ~(i <= Len(x))
    <3>1. i - Len(x) \in 1..Len(y)
      BY <1>2, <2>2
    <3> QED BY <1>2, <1>4, <1>5, <1>7, <2>2, <3>1
  <2> QED BY <2>1, <2>2
<1>9. hz = w
  BY <1>5, <1>7, <1>8, SeqEqual
<1> QED BY <1>1, <1>6, <1>9

\* A masked text after it was restored, with what is still a token as "#".
Shown(x, m) == Hashed(Restore(x, m))

\* It is made item by item.
LEMMA ShownConcat ==
    ASSUME NEW m \in Maps, NEW x \in Seq(Items), NEW y \in Seq(Items)
    PROVE  Shown(x, m) \in Seq(Char) /\ Shown(x \o y, m) = Shown(x, m) \o Shown(y, m)
<1>1. PICK rx, ry : rx = Restore(x, m) /\ ry = Restore(y, m)
  OBVIOUS
<1>2. rx \in Seq(Items) /\ ry \in Seq(Items) /\ Restore(x \o y, m) = rx \o ry
  BY <1>1, RestoreConcat
<1>3. Hashed(rx) \in Seq(Char) /\ Hashed(rx \o ry) = Hashed(rx) \o Hashed(ry)
  BY <1>2, HashedText, HashedConcat
<1> QED BY <1>1, <1>2, <1>3 DEF Shown

\* Characters stay.
LEMMA ShownChars == ASSUME NEW m \in Maps, NEW x \in Seq(Char) PROVE Shown(x, m) = x
<1>1. x \in Seq(Items) /\ Hashed(x) = x
  BY HashedChars
<1>2. \A i \in 1..Len(x) : x[i] \in Char
  OBVIOUS
<1>3. Restore(x, m) = x
  BY <1>1, <1>2, RestoreNothing
<1> QED BY <1>1, <1>3 DEF Shown

\* A token that is not mapped stays hidden.
LEMMA ShownSecret ==
    ASSUME NEW m \in Maps, NEW t \in Token, \A e \in m : e[1] # t
    PROVE  Shown(<< t >>, m) = << Hash >>
<1>1. PICK x : x = << t >>
  OBVIOUS
<1>2. x \in Seq(Items) /\ Len(x) = 1 /\ x[1] = t
  BY <1>1 DEF Items
<1>3. t \in Items
  BY DEF Items
<1>4. Restore(x, m) = x
  BY <1>1, <1>3, RestoreToken, RestoredItem
<1>5. t \notin Char
  BY CharsAndTokens
<1>6. PICK h : h = Hashed(x)
  OBVIOUS
<1>7. h \in Seq(Char) /\ Len(h) = 1 /\ h[1] = Hash
  BY <1>2, <1>5, <1>6, HashedText
<1>8. h = << Hash >>
  BY <1>7
<1> QED BY <1>1, <1>4, <1>6, <1>8 DEF Shown

\* A token that is mapped to one value gives this value.
LEMMA ShownValue ==
    ASSUME NEW m \in Maps, NEW t \in Token, NEW v \in Seq(Char), << t, v >> \in m,
           \A e \in m : e[1] = t => e = << t, v >>
    PROVE  Shown(<< t >>, m) = v
<1>1. PICK es : es = {e \in m : e[1] = t}
  OBVIOUS
<1>2. es = {<< t, v >>}
  BY <1>1
<1>3. (CHOOSE e \in es : TRUE) = << t, v >>
  BY <1>2
<1>4. Restored(t, m) = IF es = {} THEN << t >> ELSE (CHOOSE e \in es : TRUE)[2]
  BY <1>1 DEF Restored
<1>5. Restored(t, m) = v
  BY <1>2, <1>3, <1>4
<1>6. Restore(<< t >>, m) = v
  BY <1>5, RestoreToken
<1> QED BY <1>6, HashedChars DEF Shown

-----------------------------------------------------------------------------
\* What must be left of the positions j + 1..k of a text.
Remains(txt, D, j, k) == FlattenSeq([i \in 1..(k - j) |-> Left(txt, D, j + i)])

\* What is left of one position.
LEMMA LeftOfOne ==
    ASSUME NEW txt \in Seq(Char), NEW D, NEW i \in 1..Len(txt)
    PROVE  /\ Left(txt, D, i) \in {<< txt[i] >>, << Hash >>, << >>}
           /\ Left(txt, D, i) \in Seq(Char)
<1>1. Left(txt, D, i) \in {<< txt[i] >>, << Hash >>, << >>}
  BY DEF Left, Hash
<1>2. txt[i] \in Char /\ Hash \in Char
  BY CharsAndTokens
<1>3. << txt[i] >> \in Seq(Char) /\ << Hash >> \in Seq(Char) /\ << >> \in Seq(Char)
  BY <1>2
<1> QED BY <1>1, <1>3

\* The list that Remains flattens.
LEMMA RemainsParts ==
    ASSUME NEW txt \in Seq(Char), NEW D, NEW j \in 0..Len(txt), NEW k \in j..Len(txt)
    PROVE  \E ss \in Seq(Seq(Char)) :
              /\ Len(ss) = k - j /\ Remains(txt, D, j, k) = FlattenSeq(ss)
              /\ \A i \in 1..(k - j) : ss[i] = Left(txt, D, j + i)
<1>1. PICK ss, U, n : ss = [i \in 1..n |-> Left(txt, D, j + i)] /\ U = Seq(Char) /\ n = k - j
  OBVIOUS
<1>2. ss \in Seq(U) /\ Len(ss) = n /\ \A i \in 1..n : ss[i] = Left(txt, D, j + i)
  <2>1. n \in Nat /\ \A i \in 1..n : j + i \in 1..Len(txt)
    BY <1>1
  <2>2. \A i \in 1..n : Left(txt, D, j + i) \in U
    BY <1>1, <2>1, LeftOfOne
  <2> QED BY <1>1, <2>1, <2>2
<1>3. Remains(txt, D, j, k) = FlattenSeq(ss)
  BY <1>1 DEF Remains
<1> QED BY <1>1, <1>2, <1>3

\* A stretch of the text behind what comes before it.
LEMMA RemainsConcat ==
    ASSUME NEW txt \in Seq(Char), NEW D, NEW j \in 0..Len(txt), NEW k \in j..Len(txt)
    PROVE  /\ Remains(txt, D, j, k) \in Seq(Char)
           /\ Remains(txt, D, 0, k) = Remains(txt, D, 0, j) \o Remains(txt, D, j, k)
<1>0. /\ Len(txt) \in Nat /\ 0 \in 0..Len(txt) /\ j \in 0..Len(txt) /\ k \in 0..Len(txt)
      /\ j - 0 = j /\ k - 0 = k
  OBVIOUS
<1>1. PICK sx \in Seq(Seq(Char)) :
         /\ Len(sx) = j - 0 /\ Remains(txt, D, 0, j) = FlattenSeq(sx)
         /\ \A i \in 1..(j - 0) : sx[i] = Left(txt, D, 0 + i)
  BY <1>0, RemainsParts
<1>2. PICK sy \in Seq(Seq(Char)) :
         /\ Len(sy) = k - j /\ Remains(txt, D, j, k) = FlattenSeq(sy)
         /\ \A i \in 1..(k - j) : sy[i] = Left(txt, D, j + i)
  BY RemainsParts
<1>3. PICK sz \in Seq(Seq(Char)) :
         /\ Len(sz) = k - 0 /\ Remains(txt, D, 0, k) = FlattenSeq(sz)
         /\ \A i \in 1..(k - 0) : sz[i] = Left(txt, D, 0 + i)
  BY <1>0, RemainsParts
<1>4. sz = sx \o sy
  <2>1. PICK U, w : U = Seq(Char) /\ w = sx \o sy
    OBVIOUS
  <2>2. sx \in Seq(U) /\ sy \in Seq(U) /\ sz \in Seq(U)
    BY <1>1, <1>2, <1>3, <2>1
  <2>3. /\ w \in Seq(U) /\ Len(w) = k
        /\ \A i \in 1..k : w[i] = IF i <= j THEN sx[i] ELSE sy[i - j]
    <3>1. /\ sx \o sy \in Seq(U) /\ Len(sx \o sy) = Len(sx) + Len(sy)
          /\ \A i \in 1..(Len(sx) + Len(sy)) :
                (sx \o sy)[i] = IF i <= Len(sx) THEN sx[i] ELSE sy[i - Len(sx)]
      BY <2>2, ConcatParts
    <3>2. Len(sx) = j /\ Len(sx) + Len(sy) = k
      BY <1>0, <1>1, <1>2
    <3> QED BY <2>1, <3>1, <3>2, Zenon
  <2>4. ASSUME NEW i \in 1..k PROVE sz[i] = w[i]
    <3>1. sz[i] = Left(txt, D, i)
      BY <1>0, <1>3
    <3>2. CASE i <= j
      <4>1. i \in 1..(j - 0) /\ 0 + i = i
        BY <1>0, <3>2
      <4> QED BY <1>1, <2>3, <3>1, <3>2, <4>1
    <3>3. CASE ~(i <= j)
      <4>1. i - j \in 1..(k - j) /\ j + (i - j) = i
        BY <1>0, <3>3
      <4> QED BY <1>2, <2>3, <3>1, <3>3, <4>1
    <3> QED BY <3>2, <3>3
  <2>5. Len(sz) = k
    BY <1>0, <1>3
  <2>6. sz = w
    BY <2>2, <2>3, <2>4, <2>5, SeqEqual
  <2> QED BY <2>1, <2>6
<1>5. FlattenSeq(sx \o sy) = FlattenSeq(sx) \o FlattenSeq(sy)
  BY FlattenConcat
<1>6. FlattenSeq(sy) \in Seq(Char)
  BY FlattenType
<1> QED BY <1>1, <1>2, <1>3, <1>4, <1>5, <1>6

\* The positions j + 1..k are in no span that is never restored.
Clear(D, j, k) ==
    \A i \in (j + 1)..k : \A n \in 1..Len(D) : D[n].secret => i \notin Chars(D[n])

\* Such a stretch stays as it is.
LEMMA RemainsClear ==
    ASSUME NEW txt \in Seq(Char), NEW D, NEW j \in 0..Len(txt), NEW k \in j..Len(txt),
           Clear(D, j, k)
    PROVE  Remains(txt, D, j, k) = SubSeq(txt, j + 1, k)
<1>1. PICK x : x = SubSeq(txt, j + 1, k)
  OBVIOUS
<1>2. x \in Seq(Char) /\ Len(x) = k - j /\ \A i \in 1..(k - j) : x[i] = txt[j + i]
  BY <1>1
<1>3. PICK ss \in Seq(Seq(Char)) :
         /\ Len(ss) = k - j /\ Remains(txt, D, j, k) = FlattenSeq(ss)
         /\ \A i \in 1..(k - j) : ss[i] = Left(txt, D, j + i)
  BY RemainsParts
<1>4. ASSUME NEW i \in 1..(k - j) PROVE ss[i] = << x[i] >>
  <2>1. j + i \in (j + 1)..k
    OBVIOUS
  <2>2. \A n \in {l \in 1..Len(D) : D[l].secret} : j + i \notin Chars(D[n])
    BY <2>1 DEF Clear
  <2>3. Left(txt, D, j + i) = << txt[j + i] >>
    BY <2>2 DEF Left
  <2> QED BY <1>2, <1>3, <2>3
<1>5. FlattenSeq(ss) = x
  BY <1>2, <1>3, <1>4, FlattenOnes
<1> QED BY <1>1, <1>3, <1>5

\* A span that is never restored, of a list of spans in their order, leaves
\* one "#".
LEMMA RemainsSecret ==
    ASSUME NEW txt \in Seq(Char), NEW D \in Lined(Len(txt)), NEW n \in 1..Len(D), D[n].secret
    PROVE  Remains(txt, D, D[n].start, D[n].end) = << Hash >>
<1>1. PICK j, k, m : j = D[n].start /\ k = D[n].end /\ m = k - j
  OBVIOUS
<1>a. Len(txt) \in Nat
  OBVIOUS
<1>2. /\ Len(txt) \in Nat /\ Len(D) \in Nat
      /\ \A a, b \in 1..Len(D) : a < b => D[a].end <= D[b].start
  BY <1>a, LinedSpans
<1>3. \A a \in 1..Len(D) : /\ D[a].start \in Nat /\ D[a].end \in Nat
                           /\ D[a].start < D[a].end /\ D[a].end <= Len(txt)
  BY <1>a, LinedSpans
<1>4. j \in 0..Len(txt) /\ k \in j..Len(txt) /\ m \in Nat /\ 1 <= m
  BY <1>1, <1>2, <1>3
<1>5. PICK ss \in Seq(Seq(Char)) :
         /\ Len(ss) = k - j /\ Remains(txt, D, j, k) = FlattenSeq(ss)
         /\ \A i \in 1..(k - j) : ss[i] = Left(txt, D, j + i)
  BY <1>4, RemainsParts
<1>6. ASSUME NEW i \in 1..m PROVE ss[i] = IF i = 1 THEN << Hash >> ELSE << >>
  <2>1. PICK H, p : H = {l \in 1..Len(D) : D[l].secret} /\ p = j + i
    OBVIOUS
  <2>2. p \in Nat /\ n \in H /\ p \in Chars(D[n])
    <3>1. j \in Nat /\ k \in Nat /\ i \in Nat /\ 1 <= i /\ i <= k - j
      BY <1>1, <1>2, <1>4
    <3>2. p \in Nat /\ p \in (j + 1)..k
      BY <2>1, <3>1
    <3>3. Chars(D[n]) = (j + 1)..k
      BY <1>1 DEF Chars
    <3>4. n \in H
      BY <2>1
    <3> QED BY <3>2, <3>3, <3>4
  <2>3. Left(txt, D, p) = IF \E l \in H : p = D[l].start + 1 THEN << Hash >> ELSE << >>
    BY <2>1, <2>2 DEF Left, Hash
  <2>4. CASE i = 1
    <3>1. p = D[n].start + 1
      BY <1>1, <2>1, <2>4
    <3> QED BY <1>1, <1>5, <2>1, <2>2, <2>3, <2>4, <3>1
  <2>5. CASE i # 1
    <3>1. ASSUME NEW l \in H PROVE p # D[l].start + 1
      <4>1. l \in 1..Len(D) /\ (l < n \/ l = n \/ n < l)
        BY <1>2, <2>1
      <4>a. PICK a, b : a = D[l].start /\ b = D[l].end
        OBVIOUS
      <4>b. a \in Nat /\ b \in Nat /\ a < b /\ p \in Nat /\ j < p /\ p <= k
        <5>1. a \in Nat /\ b \in Nat /\ a < b
          BY <1>3, <4>1, <4>a
        <5>2. j \in Nat /\ k \in Nat /\ i \in Nat /\ 1 <= i /\ i <= k - j
          BY <1>1, <1>2, <1>4
        <5>3. p = j + i
          BY <2>1
        <5> QED BY <5>1, <5>2, <5>3
      <4>2. CASE l < n
        <5>1. D[l].end <= D[n].start
          BY <1>2, <4>1, <4>2
        <5>2. b <= j
          BY <1>1, <4>a, <5>1
        <5> QED BY <1>4, <4>a, <4>b, <5>2
      <4>3. CASE l = n
        BY <1>1, <1>3, <1>4, <2>1, <2>5, <4>3
      <4>4. CASE n < l
        <5>1. D[n].end <= D[l].start
          BY <1>2, <4>1, <4>4
        <5>2. k <= a
          BY <1>1, <4>a, <5>1
        <5> QED BY <1>4, <4>a, <4>b, <5>2
      <4> QED BY <4>1, <4>2, <4>3, <4>4
    <3> QED BY <1>1, <1>5, <2>1, <2>3, <2>5, <3>1
  <2> QED BY <2>4, <2>5
<1>7. PICK U, x, y : U = Seq(Char) /\ x = SubSeq(ss, 1, 1) /\ y = SubSeq(ss, 2, m)
  OBVIOUS
<1>8. Len(ss) = m /\ ss \in Seq(U)
  BY <1>1, <1>5, <1>7
<1>9. /\ x \in Seq(U) /\ Len(x) = 1 /\ x[1] = << Hash >>
      /\ y \in Seq(U) /\ Len(y) = m - 1 /\ \A i \in 1..(m - 1) : y[i] = << >>
  <2>1. x \in Seq(U) /\ Len(x) = 1 /\ x[1] = ss[1]
    BY <1>4, <1>7, <1>8
  <2>2. y \in Seq(U) /\ Len(y) = m - 1 /\ \A i \in 1..(m - 1) : y[i] = ss[i + 1]
    BY <1>4, <1>7, <1>8
  <2>3. 1 \in 1..m /\ \A i \in 1..(m - 1) : i + 1 \in 1..m /\ i + 1 # 1
    BY <1>4
  <2> QED BY <1>6, <2>1, <2>2, <2>3
<1>10. ss = x \o y
  <2>1. PICK w : w = x \o y
    OBVIOUS
  <2>2. w \in Seq(U) /\ Len(w) = m /\ \A i \in 1..m : w[i] = IF i <= 1 THEN x[i] ELSE y[i - 1]
    <3>1. /\ x \o y \in Seq(U) /\ Len(x \o y) = Len(x) + Len(y)
          /\ \A i \in 1..(Len(x) + Len(y)) : (x \o y)[i] = IF i <= Len(x) THEN x[i] ELSE y[i - Len(x)]
      <4>1. x \in Seq(U) /\ y \in Seq(U)
        BY <1>9
      <4> QED BY <4>1, ConcatParts
    <3>2. Len(x) = 1 /\ Len(x) + Len(y) = m
      BY <1>4, <1>9
    <3> QED BY <2>1, <3>1, <3>2, Zenon
  <2>3. ASSUME NEW i \in 1..m PROVE ss[i] = w[i]
    <3>1. i = 1 \/ (i - 1 \in 1..(m - 1) /\ ~(i <= 1) /\ i # 1)
      BY <1>4
    <3>2. CASE i = 1
      <4>1. ss[1] = << Hash >>
        BY <1>6, <3>2
      <4>2. w[1] = x[1]
        BY <2>2, <3>2
      <4> QED BY <1>9, <3>2, <4>1, <4>2, Zenon
    <3>3. CASE i - 1 \in 1..(m - 1) /\ ~(i <= 1) /\ i # 1
      <4>1. ss[i] = << >>
        BY <1>6, <3>3
      <4>2. w[i] = y[i - 1]
        BY <2>2, <3>3
      <4> QED BY <1>9, <3>3, <4>1, <4>2, Zenon
    <3> QED BY <3>1, <3>2, <3>3
  <2>4. ss = w
    BY <1>8, <2>2, <2>3, SeqEqual
  <2> QED BY <2>1, <2>4
<1>11. FlattenSeq(ss) = FlattenSeq(x) \o FlattenSeq(y)
  <2>1. x \in Seq(Seq(Char)) /\ y \in Seq(Seq(Char))
    BY <1>7, <1>9
  <2> QED BY <1>10, <2>1, FlattenConcat
<1>12. FlattenSeq(y) = << >>
  BY <1>7, <1>9, FlattenEmpties
<1>13. PICK h : h = << Hash >>
  OBVIOUS
<1>14. h \in Seq(Char) /\ Len(h) = 1 /\ h[1] = Hash
  BY <1>13, CharsAndTokens
<1>15. FlattenSeq(x) = h
  <2>1. PICK q : q = Len(x)
    OBVIOUS
  <2>2. Len(x) \in Nat /\ Len(x) # 0
    BY <1>9
  <2>3. PICK f : Flattens(f, q, x) /\ FlattenSeq(x) = f[q]
    BY <2>1, <2>2, FlattenIsLast
  <2>4. q = 1 /\ f[1] = x[1]
    BY <1>9, <2>1, <2>3 DEF Flattens
  <2> QED BY <1>9, <1>13, <2>3, <2>4
<1>16. h \o << >> = h
  BY <1>14
<1> QED BY <1>1, <1>5, <1>11, <1>12, <1>13, <1>15, <1>16

\* The items a session with these counters has made.
Old(co) == Char \cup {t \in Token : t.index < co[t.type]}

\* The notes of a session agree: a reversible value has its token mapped to it,
\* an irreversible one has its token unmapped, no token has two entries, and
\* the counters are ahead of every token.
Session(co, tk, mp) ==
    /\ co \in [Types -> Nat]
    /\ tk \in SUBSET (Seq(Char) \X BOOLEAN \X Token)
    /\ mp \in Maps
    /\ \A e \in tk : /\ e[3] \in Old(co)
                     /\ e[2] = TRUE => << e[3], e[1] >> \in mp
                     /\ e[2] = FALSE => \A m \in mp : m[1] # e[3]
    /\ \A m \in mp : m[1] \in Old(co)
    /\ \A m, n \in mp : m[1] = n[1] => m = n

\* A later state of a session: it keeps what it has, and maps only new tokens.
Grown(co, mp, co2, mp2) ==
    /\ mp \subseteq mp2
    /\ Old(co) \subseteq Old(co2)
    /\ \A m \in mp2 : m \in mp \/ m[1] \notin Old(co)

\* The token that is made next.
LEMMA FreshToken ==
    ASSUME NEW co \in [Types -> Nat], NEW ty \in Types, NEW f, NEW c2,
           f = [type |-> ty, index |-> co[ty]], c2 = NextIndex(co, ty)
    PROVE  /\ c2 \in [Types -> Nat] /\ f \in Token
           /\ f \notin Old(co) /\ f \in Old(c2) /\ Old(co) \subseteq Old(c2)
<1>1. c2 \in [Types -> Nat] /\ \A t \in Types : c2[t] = IF t = ty THEN co[t] + 1 ELSE co[t]
  BY DEF NextIndex
<1>2. f \in Token /\ f.type = ty /\ f.index = co[ty] /\ co[ty] \in Nat
  BY DEF Token
<1>3. f \notin Old(co)
  <2>1. f \notin Char
    BY <1>2, CharsAndTokens
  <2>2. ~(f.index < co[f.type])
    BY <1>2
  <2> QED BY <2>1, <2>2 DEF Old
<1>4. f \in Old(c2)
  <2>1. f.index < c2[f.type]
    BY <1>1, <1>2
  <2> QED BY <1>2, <2>1 DEF Old
<1>5. Old(co) \subseteq Old(c2)
  <2> SUFFICES ASSUME NEW x \in Old(co) PROVE x \in Old(c2)
    OBVIOUS
  <2>1. CASE x \in Char
    BY <2>1 DEF Old
  <2>2. CASE x \in Token /\ x.index < co[x.type]
    <3>1. x.type \in Types /\ x.index \in Nat
      BY <2>2 DEF Token
    <3>2. co[x.type] \in Nat /\ co[x.type] <= c2[x.type] /\ c2[x.type] \in Nat
      BY <1>1, <3>1
    <3>3. x.index < c2[x.type]
      BY <2>2, <3>1, <3>2
    <3> QED BY <2>2, <3>3 DEF Old
  <2> QED BY <2>1, <2>2 DEF Old
<1> QED BY <1>1, <1>2, <1>3, <1>4, <1>5

\* A new value that may be restored.
LEMMA NotesValue ==
    ASSUME NEW co, NEW tk, NEW mp, Session(co, tk, mp), NEW v \in Seq(Char), NEW ty \in Types,
           NEW f, NEW c2, f = [type |-> ty, index |-> co[ty]], c2 = NextIndex(co, ty)
    PROVE  /\ Session(c2, tk \cup {<< v, TRUE, f >>}, mp \cup {<< f, v >>})
           /\ Grown(co, mp, c2, mp \cup {<< f, v >>})
<1>1. co \in [Types -> Nat]
  BY DEF Session
<1>2. /\ c2 \in [Types -> Nat] /\ f \in Token
      /\ f \notin Old(co) /\ f \in Old(c2) /\ Old(co) \subseteq Old(c2)
  BY <1>1, FreshToken
<1>3. PICK S, V : S = Old(co) /\ V = Seq(Char)
  OBVIOUS
<1>4. /\ tk \in SUBSET (V \X BOOLEAN \X Token) /\ mp \in SUBSET (Token \X V) /\ v \in V
      /\ \A e \in tk : /\ e[3] \in S
                       /\ e[2] = TRUE => << e[3], e[1] >> \in mp
                       /\ e[2] = FALSE => \A m \in mp : m[1] # e[3]
      /\ \A m \in mp : m[1] \in S
      /\ \A m, n \in mp : m[1] = n[1] => m = n
  BY <1>3 DEF Session, Maps
<1>5. PICK d, e2, k2, m2 : d = << f, v >> /\ e2 = << v, TRUE, f >> /\ k2 = tk \cup {e2} /\ m2 = mp \cup {d}
  OBVIOUS
<1>6. k2 \in SUBSET (V \X BOOLEAN \X Token) /\ m2 \in Maps /\ d[1] = f
  <2>1. d \in Token \X V /\ d[1] = f
    BY <1>2, <1>4, <1>5
  <2>2. e2 \in V \X BOOLEAN \X Token
    BY <1>2, <1>4, <1>5
  <2>3. k2 \in SUBSET (V \X BOOLEAN \X Token)
    BY <1>4, <1>5, <2>2
  <2>4. m2 \in SUBSET (Token \X V)
    BY <1>4, <1>5, <2>1
  <2> QED BY <1>3, <2>1, <2>3, <2>4 DEF Maps
<1>7. e2[3] = f /\ e2[2] = TRUE /\ << e2[3], e2[1] >> = d
  BY <1>5
<1>8. \A e \in k2 : /\ e[3] \in Old(c2)
                    /\ e[2] = TRUE => << e[3], e[1] >> \in m2
                    /\ e[2] = FALSE => \A m \in m2 : m[1] # e[3]
  <2> SUFFICES ASSUME NEW e \in k2
               PROVE  /\ e[3] \in Old(c2)
                      /\ e[2] = TRUE => << e[3], e[1] >> \in m2
                      /\ e[2] = FALSE => \A m \in m2 : m[1] # e[3]
    OBVIOUS
  <2>1. CASE e \in tk
    <3>1. e[3] \in S /\ e[3] # f
      BY <1>2, <1>3, <1>4, <2>1
    <3> QED BY <1>2, <1>3, <1>4, <1>5, <1>6, <2>1, <3>1
  <2>2. CASE e = e2
    BY <1>2, <1>5, <1>7, <2>2
  <2> QED BY <1>5, <2>1, <2>2
<1>9. \A m \in m2 : m[1] \in Old(c2)
  BY <1>2, <1>3, <1>4, <1>5, <1>6
<1>10. ASSUME NEW m \in m2, NEW n \in m2, m[1] = n[1] PROVE m = n
  <2>1. \A a \in mp : a[1] # f
    BY <1>2, <1>3, <1>4
  <2>2. (m \in mp \/ m = d) /\ (n \in mp \/ n = d)
    BY <1>5
  <2>3. CASE m \in mp /\ n \in mp
    BY <1>4, <1>10, <2>3
  <2>4. CASE ~(m \in mp /\ n \in mp)
    BY <1>6, <1>10, <2>1, <2>2, <2>4
  <2> QED BY <2>3, <2>4
<1>11. Session(c2, k2, m2)
  BY <1>2, <1>3, <1>6, <1>8, <1>9, <1>10 DEF Session
<1>12. Grown(co, mp, c2, m2)
  BY <1>2, <1>5, <1>6 DEF Grown
<1> QED BY <1>5, <1>11, <1>12

\* A new value that is never restored.
LEMMA NotesSecret ==
    ASSUME NEW co, NEW tk, NEW mp, Session(co, tk, mp), NEW v \in Seq(Char), NEW ty \in Types,
           NEW f, NEW c2, f = [type |-> ty, index |-> co[ty]], c2 = NextIndex(co, ty)
    PROVE  /\ Session(c2, tk \cup {<< v, FALSE, f >>}, mp)
           /\ Grown(co, mp, c2, mp)
           /\ \A m \in mp : m[1] # f
<1>1. co \in [Types -> Nat]
  BY DEF Session
<1>2. /\ c2 \in [Types -> Nat] /\ f \in Token
      /\ f \notin Old(co) /\ f \in Old(c2) /\ Old(co) \subseteq Old(c2)
  BY <1>1, FreshToken
<1>3. PICK S, V : S = Old(co) /\ V = Seq(Char)
  OBVIOUS
<1>4. /\ tk \in SUBSET (V \X BOOLEAN \X Token) /\ mp \in Maps /\ v \in V
      /\ \A e \in tk : /\ e[3] \in S
                       /\ e[2] = TRUE => << e[3], e[1] >> \in mp
                       /\ e[2] = FALSE => \A m \in mp : m[1] # e[3]
      /\ \A m \in mp : m[1] \in S
      /\ \A m, n \in mp : m[1] = n[1] => m = n
  BY <1>3 DEF Session
<1>5. PICK e2, k2 : e2 = << v, FALSE, f >> /\ k2 = tk \cup {e2}
  OBVIOUS
<1>6. k2 \in SUBSET (V \X BOOLEAN \X Token) /\ e2[3] = f /\ e2[2] = FALSE
  <2>1. e2 \in V \X BOOLEAN \X Token
    BY <1>2, <1>4, <1>5
  <2>2. e2[3] = f /\ e2[2] = FALSE
    BY <1>5
  <2>3. k2 \in SUBSET (V \X BOOLEAN \X Token)
    BY <1>4, <1>5, <2>1
  <2> QED BY <2>2, <2>3
<1>7. \A m \in mp : m[1] # f
  BY <1>2, <1>3, <1>4
<1>8. \A e \in k2 : /\ e[3] \in Old(c2)
                    /\ e[2] = TRUE => << e[3], e[1] >> \in mp
                    /\ e[2] = FALSE => \A m \in mp : m[1] # e[3]
  <2> SUFFICES ASSUME NEW e \in k2
               PROVE  /\ e[3] \in Old(c2)
                      /\ e[2] = TRUE => << e[3], e[1] >> \in mp
                      /\ e[2] = FALSE => \A m \in mp : m[1] # e[3]
    OBVIOUS
  <2>1. CASE e \in tk
    BY <1>2, <1>3, <1>4, <2>1
  <2>2. CASE e = e2
    BY <1>2, <1>6, <1>7, <2>2
  <2> QED BY <1>5, <2>1, <2>2
<1>9. \A m \in mp : m[1] \in Old(c2)
  BY <1>2, <1>3, <1>4
<1>10. Session(c2, k2, mp)
  BY <1>2, <1>3, <1>4, <1>6, <1>8, <1>9 DEF Session
<1>11. Grown(co, mp, c2, mp)
  BY <1>2 DEF Grown
<1> QED BY <1>5, <1>7, <1>10, <1>11

\* The session of Tokenize, with its text.
Sessions ==
    [counters : [Types -> Nat], tokens : SUBSET (Seq(Char) \X BOOLEAN \X Token),
     mapping : Maps, out : Seq(Items), cursor : Nat]

\* What _token_for does to the session and what it puts in the text: a token
\* that is restored to the value, or never.
MakesToken(acc, b, t, s, v) ==
    /\ Session(b.counters, b.tokens, b.mapping)
    /\ Grown(acc.counters, acc.mapping, b.counters, b.mapping)
    /\ t \in Token /\ t \in Old(b.counters)
    /\ Shown(<< t >>, b.mapping) = IF s.secret THEN << Hash >> ELSE v

\* And the text with the token.
LEMMA TokenForMakes ==
    ASSUME NEW txt \in Seq(Char), NEW acc \in Sessions, NEW s \in Flagged(Len(txt)),
           Session(acc.counters, acc.tokens, acc.mapping)
    PROVE  \E t :
              /\ MakesToken(acc, TokenFor(txt, acc, s), t, s, Value(txt, s))
              /\ TokenFor(txt, acc, s).out = acc.out \o SubSeq(txt, acc.cursor + 1, s.start) \o << t >>
              /\ TokenFor(txt, acc, s).cursor = s.end
<1>1. PICK b, v, co, tk, mp :
         /\ b = TokenFor(txt, acc, s) /\ v = Value(txt, s)
         /\ co = acc.counters /\ tk = acc.tokens /\ mp = acc.mapping
  OBVIOUS
<1>2. Session(co, tk, mp)
  BY <1>1
<1>3. s.secret \in BOOLEAN /\ s.type \in Types /\ s.start \in Nat /\ s.end \in Nat
      /\ s.start < s.end /\ s.end <= Len(txt)
  BY DEF Flagged
<1>4. v \in Seq(Char)
  BY <1>1, <1>3 DEF Value
<1>5. PICK r, known, f, c2 :
         /\ r = ~s.secret /\ known = {t \in tk : << t[1], t[2] >> = << v, r >>}
         /\ f = [type |-> s.type, index |-> co[s.type]] /\ c2 = NextIndex(co, s.type)
  OBVIOUS
<1>6. PICK t : t = IF known = {} THEN f ELSE (CHOOSE e \in known : TRUE)[3]
  OBVIOUS
<1>7. /\ b.counters = IF known = {} THEN c2 ELSE co
      /\ b.tokens = IF known = {} THEN tk \cup {<< v, r, f >>} ELSE tk
      /\ b.mapping = IF known = {} /\ ~s.secret THEN mp \cup {<< f, v >>} ELSE mp
      /\ b.out = acc.out \o SubSeq(txt, acc.cursor + 1, s.start) \o << t >>
      /\ b.cursor = s.end
  <2>1. PICK key : key = KeyOf(v, ~s.secret)
    OBVIOUS
  <2>2. key = << v, r >>
    BY <1>5, <2>1, Zenon DEF KeyOf
  <2>3. key[1] = v /\ key[2] = r
    BY <2>2
  <2>4. known = {e \in tk : << e[1], e[2] >> = key}
    BY <1>5, <2>2, Zenon
  <2>5. PICK m2, o : /\ m2 = IF known = {} /\ ~s.secret THEN mp \cup {<< f, v >>} ELSE mp
                     /\ o = acc.out \o SubSeq(txt, acc.cursor + 1, s.start) \o << t >>
    OBVIOUS
  <2>6. PICK k2 : k2 = IF known = {} THEN tk \cup {<< key[1], key[2], f >>} ELSE tk
    OBVIOUS
  <2>7. PICK n2 : n2 = IF known = {} THEN c2 ELSE co
    OBVIOUS
  <2>8. b = [counters |-> n2, tokens |-> k2, mapping |-> m2, out |-> o, cursor |-> s.end]
    BY <1>1, <1>5, <1>6, <2>1, <2>4, <2>5, <2>6, <2>7, Zenon DEF TokenFor
  <2>9. b.counters = n2 /\ b.tokens = k2 /\ b.mapping = m2 /\ b.out = o /\ b.cursor = s.end
    BY <2>8
  <2>10. k2 = IF known = {} THEN tk \cup {<< v, r, f >>} ELSE tk
    BY <2>3, <2>6, Zenon
  <2> QED BY <2>5, <2>7, <2>9, <2>10, Zenon
<1>8. CASE known = {} /\ ~s.secret
  <2>1. r = TRUE
    BY <1>5, <1>8
  <2>2. /\ Session(c2, tk \cup {<< v, TRUE, f >>}, mp \cup {<< f, v >>})
        /\ Grown(co, mp, c2, mp \cup {<< f, v >>})
    BY <1>2, <1>3, <1>4, <1>5, NotesValue
  <2>3. Session(b.counters, b.tokens, b.mapping) /\ Grown(co, mp, b.counters, b.mapping)
    BY <1>7, <1>8, <2>1, <2>2, Zenon
  <2>4. PICK m2 : m2 = b.mapping
    OBVIOUS
  <2>5. m2 \in Maps /\ << f, v >> \in m2 /\ \A m, n \in m2 : m[1] = n[1] => m = n
    BY <1>7, <1>8, <2>3, <2>4 DEF Session
  <2>6. t = f /\ f \in Token /\ f \in Old(b.counters)
    <3>1. co \in [Types -> Nat]
      BY <1>2 DEF Session
    <3>2. f \in Token /\ f \in Old(c2)
      BY <1>3, <1>5, <3>1, FreshToken
    <3> QED BY <1>6, <1>7, <1>8, <3>2
  <2>7. \A e \in m2 : e[1] = f => e = << f, v >>
    BY <2>5
  <2>8. Shown(<< t >>, m2) = v
    BY <1>4, <2>5, <2>6, <2>7, ShownValue
  <2>9. MakesToken(acc, b, t, s, v)
    BY <1>1, <1>8, <2>3, <2>4, <2>6, <2>8 DEF MakesToken
  <2> QED BY <1>1, <1>7, <2>9
<1>9. CASE known = {} /\ s.secret
  <2>1. r = FALSE
    BY <1>5, <1>9
  <2>2. /\ Session(c2, tk \cup {<< v, FALSE, f >>}, mp)
        /\ Grown(co, mp, c2, mp) /\ \A m \in mp : m[1] # f
    BY <1>2, <1>3, <1>4, <1>5, NotesSecret
  <2>3. /\ Session(b.counters, b.tokens, b.mapping) /\ Grown(co, mp, b.counters, b.mapping)
        /\ b.mapping = mp
    BY <1>7, <1>9, <2>1, <2>2, Zenon
  <2>4. t = f /\ f \in Token /\ f \in Old(b.counters)
    <3>1. co \in [Types -> Nat]
      BY <1>2 DEF Session
    <3>2. f \in Token /\ f \in Old(c2)
      BY <1>3, <1>5, <3>1, FreshToken
    <3> QED BY <1>6, <1>7, <1>9, <3>2
  <2>5. Shown(<< t >>, mp) = << Hash >>
    <3>1. mp \in Maps
      BY <1>2 DEF Session
    <3> QED BY <2>2, <2>4, <3>1, ShownSecret
  <2>6. MakesToken(acc, b, t, s, v)
    BY <1>1, <1>9, <2>3, <2>4, <2>5 DEF MakesToken
  <2> QED BY <1>1, <1>7, <2>6
<1>10. CASE known # {}
  <2>1. PICK e : e = CHOOSE d \in known : TRUE
    OBVIOUS
  <2>2. e \in tk /\ << e[1], e[2] >> = << v, r >>
    BY <1>5, <1>10, <2>1
  <2>3. e[1] = v /\ e[2] = r
    BY <2>2
  <2>4. b.counters = co /\ b.tokens = tk /\ b.mapping = mp /\ t = e[3]
    BY <1>6, <1>7, <1>10, <2>1
  <2>5. /\ mp \in Maps /\ t \in Token /\ t \in Old(co)
        /\ e[2] = TRUE => << t, v >> \in mp
        /\ e[2] = FALSE => \A m \in mp : m[1] # t
        /\ \A m, n \in mp : m[1] = n[1] => m = n
    BY <1>2, <2>2, <2>3, <2>4 DEF Session
  <2>6. Grown(co, mp, co, mp)
    BY DEF Grown
  <2>7. Shown(<< t >>, mp) = IF s.secret THEN << Hash >> ELSE v
    <3>1. CASE s.secret
      <4>1. e[2] = FALSE
        BY <1>5, <2>3, <3>1
      <4>2. Shown(<< t >>, mp) = << Hash >>
        BY <2>5, <4>1, ShownSecret
      <4> QED BY <3>1, <4>2
    <3>2. CASE ~s.secret
      <4>1. e[2] = TRUE
        BY <1>5, <2>3, <3>2
      <4>2. << t, v >> \in mp /\ \A m \in mp : m[1] = t => m = << t, v >>
        BY <2>5, <4>1
      <4>3. Shown(<< t >>, mp) = v
        BY <1>4, <2>5, <4>2, ShownValue
      <4> QED BY <3>2, <4>3
    <3> QED BY <3>1, <3>2
  <2>8. MakesToken(acc, b, t, s, v)
    BY <1>1, <1>2, <2>4, <2>5, <2>6, <2>7 DEF MakesToken
  <2> QED BY <1>1, <1>7, <2>8
<1> QED BY <1>3, <1>8, <1>9, <1>10

\* What a session has made are items, and stays so.
LEMMA OldItems ==
    ASSUME NEW co PROVE Old(co) \subseteq Items /\ Char \subseteq Old(co)
BY DEF Old, Items

\* A text that is already masked is restored to the same in a later state.
LEMMA ShownGrown ==
    ASSUME NEW co, NEW mp \in Maps, NEW c2, NEW m2 \in Maps, Grown(co, mp, c2, m2),
           NEW x \in Seq(Old(co))
    PROVE  x \in Seq(Old(c2)) /\ x \in Seq(Items) /\ Shown(x, m2) = Shown(x, mp)
<1>1. PICK S, T : S = Old(co) /\ T = Old(c2)
  OBVIOUS
<1>2. x \in Seq(S) /\ S \subseteq T /\ S \subseteq Items /\ mp \subseteq m2
      /\ \A m \in m2 : m \in mp \/ m[1] \notin S
  BY <1>1, OldItems DEF Grown
<1>3. x \in Seq(T) /\ x \in Seq(Items) /\ \A i \in 1..Len(x) : x[i] \in S
  BY <1>2
<1>4. \A m \in m2 : m \in mp \/ \A i \in 1..Len(x) : x[i] # m[1]
  BY <1>2, <1>3
<1>5. Restore(x, m2) = Restore(x, mp)
  BY <1>2, <1>3, <1>4, RestoreMore
<1> QED BY <1>1, <1>3, <1>5 DEF Shown

\* Later than later is later.
LEMMA GrownTwice ==
    ASSUME NEW co, NEW mp, NEW c2, NEW m2, NEW c3, NEW m3,
           Grown(co, mp, c2, m2), Grown(c2, m2, c3, m3)
    PROVE  Grown(co, mp, c3, m3)
<1>1. PICK S, T, U : S = Old(co) /\ T = Old(c2) /\ U = Old(c3)
  OBVIOUS
<1>2. /\ mp \subseteq m2 /\ m2 \subseteq m3 /\ S \subseteq T /\ T \subseteq U
      /\ \A m \in m2 : m \in mp \/ m[1] \notin S
      /\ \A m \in m3 : m \in m2 \/ m[1] \notin T
  BY <1>1 DEF Grown
<1> QED BY <1>1, <1>2 DEF Grown

\* The session behind the k-th span of D: the text up to the cursor is masked,
\* the cursor is between that span and the next, and restoring leaves what must
\* remain.  The node began with co and mp.
Progress(txt, D, k, acc, co, mp) ==
    /\ acc \in Sessions
    /\ Session(acc.counters, acc.tokens, acc.mapping)
    /\ Grown(co, mp, acc.counters, acc.mapping)
    /\ acc.out \in Seq(Old(acc.counters))
    /\ acc.cursor \in 0..Len(txt)
    /\ \A m \in 1..Len(D) : /\ m <= k => D[m].end <= acc.cursor
                            /\ k < m => acc.cursor <= D[m].start
    /\ Shown(acc.out, acc.mapping) = Remains(txt, D, 0, acc.cursor)

\* Before the next span, and in an ordinary one, nothing is hidden.
LEMMA ClearStretches ==
    ASSUME NEW L \in Nat, NEW D \in Lined(L), NEW k \in 1..Len(D), NEW c \in Nat,
           \A m \in 1..Len(D) : m < k => D[m].end <= c
    PROVE  /\ Clear(D, c, D[k].start)
           /\ D[k].secret = FALSE => Clear(D, D[k].start, D[k].end)
<1>1. /\ Len(D) \in Nat
      /\ \A n \in 1..Len(D) : /\ D[n].start \in Nat /\ D[n].end \in Nat
                              /\ D[n].start < D[n].end
      /\ \A m, n \in 1..Len(D) : m < n => D[m].end <= D[n].start
  BY LinedSpans
<1>2. PICK s, e : s = D[k].start /\ e = D[k].end
  OBVIOUS
<1>3. s \in Nat /\ e \in Nat /\ s < e
  BY <1>1, <1>2
<1>4. ASSUME NEW n \in 1..Len(D), n # k, NEW i \in Nat, c < i \/ s < i, i <= e
      PROVE  i \notin Chars(D[n])
  <2>1. PICK a, b : a = D[n].start /\ b = D[n].end
    OBVIOUS
  <2>2. a \in Nat /\ b \in Nat /\ Chars(D[n]) = (a + 1)..b
    BY <1>1, <2>1 DEF Chars
  <2>3. CASE n < k
    <3>1. b <= c /\ b <= s
      BY <1>1, <1>2, <2>1, <2>3
    <3> QED BY <1>3, <1>4, <2>2, <3>1
  <2>4. CASE k < n
    <3>1. e <= a
      BY <1>1, <1>2, <2>1, <2>4
    <3> QED BY <1>3, <1>4, <2>2, <3>1
  <2>5. n < k \/ k < n
    BY <1>1, <1>4
  <2> QED BY <2>3, <2>4, <2>5
<1>5. Clear(D, c, s)
  <2> SUFFICES ASSUME NEW i \in (c + 1)..s, NEW n \in 1..Len(D) PROVE i \notin Chars(D[n])
    BY DEF Clear
  <2>1. i \in Nat /\ c < i /\ i <= e /\ i <= s
    BY <1>3
  <2>2. CASE n = k
    BY <1>2, <1>3, <2>1, <2>2 DEF Chars
  <2> QED BY <1>4, <2>1, <2>2
<1>6. ASSUME D[k].secret = FALSE PROVE Clear(D, s, e)
  <2> SUFFICES ASSUME NEW i \in (s + 1)..e, NEW n \in 1..Len(D), D[n].secret
               PROVE  i \notin Chars(D[n])
    BY DEF Clear
  <2>1. i \in Nat /\ s < i /\ i <= e
    BY <1>3
  <2>2. n # k
    BY <1>6
  <2> QED BY <1>4, <2>1, <2>2
<1> QED BY <1>2, <1>5, <1>6

\* One span more.
LEMMA ProgressStep ==
    ASSUME NEW txt \in Seq(Char), NEW D \in Lined(Len(txt)), NEW k \in 1..Len(D),
           NEW acc, NEW co, NEW mp \in Maps, Progress(txt, D, k - 1, acc, co, mp)
    PROVE  Progress(txt, D, k, TokenFor(txt, acc, D[k]), co, mp)
<1>1. PICK L, s, b, c : /\ L = Len(txt) /\ s = D[k] /\ b = TokenFor(txt, acc, D[k])
                        /\ c = acc.cursor
  OBVIOUS
<1>2. /\ L \in Nat /\ Len(D) \in Nat /\ s \in Flagged(L) /\ s.secret \in BOOLEAN
      /\ s.start \in Nat /\ s.end \in Nat /\ s.start < s.end /\ s.end <= L
      /\ \A m, n \in 1..Len(D) : m < n => D[m].end <= D[n].start
      /\ \A n \in 1..Len(D) : D[n].end \in Nat /\ D[n].start \in Nat /\ D[n].start < D[n].end
  <2>1. L \in Nat
    BY <1>1
  <2> QED BY <1>1, <2>1, LinedSpans
<1>3. /\ acc \in Sessions /\ Session(acc.counters, acc.tokens, acc.mapping)
      /\ Grown(co, mp, acc.counters, acc.mapping)
      /\ acc.out \in Seq(Old(acc.counters)) /\ c \in 0..L
      /\ Shown(acc.out, acc.mapping) = Remains(txt, D, 0, c)
  BY <1>1 DEF Progress
<1>4. /\ \A m \in 1..Len(D) : m < k => D[m].end <= c
      /\ c <= s.start
  <2>1. \A m \in 1..Len(D) : (m <= k - 1 => D[m].end <= c) /\ (k - 1 < m => c <= D[m].start)
    BY <1>1 DEF Progress
  <2>2. k - 1 < k /\ \A m \in 1..Len(D) : m < k => m <= k - 1
    BY <1>2
  <2> QED BY <1>1, <2>1, <2>2
<1>5. PICK t :
         /\ MakesToken(acc, b, t, s, Value(txt, s))
         /\ b.out = acc.out \o SubSeq(txt, c + 1, s.start) \o << t >>
         /\ b.cursor = s.end
  BY <1>1, <1>2, <1>3, TokenForMakes
<1>6. /\ Session(b.counters, b.tokens, b.mapping)
      /\ Grown(acc.counters, acc.mapping, b.counters, b.mapping)
      /\ t \in Token /\ t \in Old(b.counters)
      /\ Shown(<< t >>, b.mapping) = IF s.secret THEN << Hash >> ELSE Value(txt, s)
  BY <1>5 DEF MakesToken
<1>7. acc.mapping \in Maps /\ b.mapping \in Maps
  BY <1>3, <1>6 DEF Session
<1>8. Grown(co, mp, b.counters, b.mapping)
  BY <1>3, <1>6, GrownTwice
<1>9. PICK o, m2, N : o = acc.out /\ m2 = b.mapping /\ N = Old(b.counters)
  OBVIOUS
<1>10. o \in Seq(N) /\ o \in Seq(Items) /\ Shown(o, m2) = Remains(txt, D, 0, c)
  BY <1>3, <1>6, <1>7, <1>9, ShownGrown
<1>11. PICK y, z : y = SubSeq(txt, c + 1, s.start) /\ z = << t >>
  OBVIOUS
<1>12. y \in Seq(Char) /\ z \in Seq(N) /\ z \in Seq(Items)
  <2>1. y \in Seq(Char)
    <3>1. c \in Nat /\ s.start \in Nat /\ s.start <= Len(txt) /\ c <= s.start
      BY <1>1, <1>2, <1>3, <1>4
    <3> QED BY <1>11, <3>1
  <2>2. z \in Seq(N) /\ z \in Seq(Items)
    BY <1>6, <1>9, <1>11 DEF Items
  <2> QED BY <2>1, <2>2
<1>13. y \in Seq(N) /\ y \in Seq(Items)
  <2>1. Char \subseteq N /\ Char \subseteq Items
    BY <1>9, OldItems
  <2> QED BY <1>12, <2>1
<1>14. b.out = (o \o y) \o z /\ b.out \in Seq(N) /\ o \o y \in Seq(Items)
  <2>1. b.out = (o \o y) \o z
    BY <1>1, <1>5, <1>9, <1>11
  <2>2. (o \o y) \o z \in Seq(N)
    BY <1>10, <1>12, <1>13
  <2>3. o \o y \in Seq(Items)
    BY <1>10, <1>13
  <2> QED BY <2>1, <2>2, <2>3
<1>15. Shown(b.out, m2) = (Remains(txt, D, 0, c) \o y) \o Shown(z, m2)
  <2>1. m2 \in Maps
    BY <1>7, <1>9
  <2>2. Shown((o \o y) \o z, m2) = Shown(o \o y, m2) \o Shown(z, m2)
    BY <1>12, <1>14, <2>1, ShownConcat
  <2>3. Shown(o \o y, m2) = Shown(o, m2) \o Shown(y, m2)
    BY <1>10, <1>13, <2>1, ShownConcat
  <2>4. Shown(y, m2) = y
    BY <1>12, <2>1, ShownChars
  <2> QED BY <1>10, <1>14, <2>2, <2>3, <2>4
<1>16. y = Remains(txt, D, c, s.start)
  <2>1. c \in Nat /\ L \in Nat
    BY <1>2, <1>3
  <2>2. Clear(D, c, s.start)
    BY <1>1, <1>4, <2>1, ClearStretches
  <2>3. c \in 0..Len(txt) /\ s.start \in c..Len(txt)
    BY <1>1, <1>2, <1>3, <1>4
  <2> QED BY <1>11, <2>2, <2>3, RemainsClear
<1>17. Shown(z, m2) = Remains(txt, D, s.start, s.end)
  <2>1. CASE s.secret
    <3>1. Remains(txt, D, s.start, s.end) = << Hash >>
      BY <1>1, <2>1, RemainsSecret
    <3> QED BY <1>6, <1>9, <1>11, <2>1, <3>1
  <2>2. CASE s.secret = FALSE
    <3>1. c \in Nat /\ L \in Nat
      BY <1>2, <1>3
    <3>2. Clear(D, s.start, s.end)
      BY <1>1, <1>4, <2>2, <3>1, ClearStretches
    <3>3. s.start \in 0..Len(txt) /\ s.end \in s.start..Len(txt)
      BY <1>1, <1>2
    <3>4. Remains(txt, D, s.start, s.end) = SubSeq(txt, s.start + 1, s.end)
      BY <3>2, <3>3, RemainsClear
    <3> QED BY <1>6, <1>9, <1>11, <2>2, <3>4 DEF Value
  <2> QED BY <1>2, <2>1, <2>2
<1>18. /\ Remains(txt, D, 0, s.start) = Remains(txt, D, 0, c) \o Remains(txt, D, c, s.start)
       /\ Remains(txt, D, 0, s.end) = Remains(txt, D, 0, s.start) \o Remains(txt, D, s.start, s.end)
  <2>1. c \in 0..Len(txt) /\ s.start \in c..Len(txt)
        /\ s.start \in 0..Len(txt) /\ s.end \in s.start..Len(txt)
    BY <1>1, <1>2, <1>3, <1>4
  <2> QED BY <2>1, RemainsConcat
<1>19. Shown(b.out, b.mapping) = Remains(txt, D, 0, b.cursor)
  BY <1>5, <1>9, <1>15, <1>16, <1>17, <1>18, Zenon
<1>20. b.cursor \in 0..Len(txt) /\ b.cursor \in Nat
  BY <1>1, <1>2, <1>5
<1>21. \A m \in 1..Len(D) : /\ m <= k => D[m].end <= b.cursor
                            /\ k < m => b.cursor <= D[m].start
  <2> SUFFICES ASSUME NEW m \in 1..Len(D)
               PROVE  (m <= k => D[m].end <= b.cursor) /\ (k < m => b.cursor <= D[m].start)
    OBVIOUS
  <2>1. CASE m < k
    <3>1. D[m].end <= s.start /\ D[m].end \in Nat
      BY <1>1, <1>2, <2>1
    <3> QED BY <1>2, <1>5, <2>1, <3>1
  <2>2. CASE m = k
    BY <1>1, <1>2, <1>5, <2>2
  <2>3. CASE k < m
    BY <1>1, <1>2, <1>5, <2>3
  <2> QED BY <1>2, <2>1, <2>2, <2>3
<1>22. b \in Sessions
  <2>1. b.counters \in [Types -> Nat] /\ b.tokens \in SUBSET (Seq(Char) \X BOOLEAN \X Token)
    BY <1>6 DEF Session
  <2>2. b.out \in Seq(Items)
    <3>1. N \subseteq Items
      BY <1>9, OldItems
    <3> QED BY <1>14, <3>1
  <2>3. b = [counters |-> b.counters, tokens |-> b.tokens, mapping |-> b.mapping,
             out |-> b.out, cursor |-> b.cursor]
    <3>1. PICK x1, x2, x3, x4, x5 : b = [counters |-> x1, tokens |-> x2, mapping |-> x3,
                                        out |-> x4, cursor |-> x5]
      BY <1>1, Zenon DEF TokenFor
    <3> QED BY <3>1
  <2> QED BY <1>7, <1>20, <2>1, <2>2, <2>3 DEF Sessions
<1>23. b.out \in Seq(Old(b.counters))
  BY <1>9, <1>14
<1> QED BY <1>1, <1>6, <1>8, <1>19, <1>20, <1>21, <1>22, <1>23 DEF Progress

\* u is the function by which Tokenize goes through the spans.
InTokenize(u, txt, D) ==
    u = [k \in 0..Len(D) |->
            IF k = 0
            THEN [counters |-> counters, tokens |-> tokens, mapping |-> mapping,
                  out |-> << >>, cursor |-> 0]
            ELSE TokenFor(txt, u[k - 1], D[k])]

\* The session before the first span.
LEMMA ProgressStart ==
    ASSUME NEW txt \in Seq(Char), NEW D \in Lined(Len(txt)), Session(counters, tokens, mapping)
    PROVE  Progress(txt, D, 0, [counters |-> counters, tokens |-> tokens, mapping |-> mapping,
                                out |-> << >>, cursor |-> 0], counters, mapping)
<1>1. PICK a : a = [counters |-> counters, tokens |-> tokens, mapping |-> mapping,
                    out |-> << >>, cursor |-> 0]
  OBVIOUS
<1>2. /\ a.counters = counters /\ a.tokens = tokens /\ a.mapping = mapping
      /\ a.out = << >> /\ a.cursor = 0
  BY <1>1
<1>3. /\ counters \in [Types -> Nat] /\ tokens \in SUBSET (Seq(Char) \X BOOLEAN \X Token)
      /\ mapping \in Maps
  BY DEF Session
<1>4. PICK K, M : K = SUBSET (Seq(Char) \X BOOLEAN \X Token) /\ M = Maps
  OBVIOUS
<1>5. a \in Sessions
  <2>1. << >> \in Seq(Items)
    OBVIOUS
  <2>2. a \in [counters : [Types -> Nat], tokens : K, mapping : M, out : Seq(Items), cursor : Nat]
    BY <1>1, <1>3, <1>4, <2>1
  <2> QED BY <1>4, <2>2 DEF Sessions
<1>6. Grown(counters, mapping, a.counters, a.mapping)
  BY <1>2 DEF Grown
<1>7. a.out \in Seq(Old(a.counters)) /\ a.cursor \in 0..Len(txt)
  BY <1>2
<1>8. \A m \in 1..Len(D) : (m <= 0 => D[m].end <= a.cursor) /\ (0 < m => a.cursor <= D[m].start)
  <2>1. /\ Len(D) \in Nat
        /\ \A n \in 1..Len(D) : D[n].start \in Nat
    <3>1. Len(txt) \in Nat
      OBVIOUS
    <3> QED BY <3>1, LinedSpans
  <2> QED BY <1>2, <2>1
<1>9. Shown(a.out, a.mapping) = Remains(txt, D, 0, a.cursor)
  <2>1. << >> \in Seq(Char)
    OBVIOUS
  <2>2. Shown(<< >>, mapping) = << >>
    BY <1>3, <2>1, ShownChars
  <2>3. 0 \in 0..Len(txt) /\ Len(txt) \in Nat
    OBVIOUS
  <2>4. PICK j, k : j = 0 /\ k = 0
    OBVIOUS
  <2>a. j \in 0..Len(txt) /\ k \in j..Len(txt) /\ k - j = 0
    BY <2>3, <2>4
  <2>5. PICK ss \in Seq(Seq(Char)) :
           /\ Len(ss) = k - j /\ Remains(txt, D, j, k) = FlattenSeq(ss)
           /\ \A i \in 1..(k - j) : ss[i] = Left(txt, D, j + i)
    BY <2>a, RemainsParts, ZenonT(30)
  <2>6. Len(ss) = 0 /\ Remains(txt, D, 0, 0) = FlattenSeq(ss)
    BY <2>4, <2>5, <2>a
  <2>7. \A i \in 1..Len(ss) : ss[i] = << >>
    BY <2>6
  <2>8. FlattenSeq(ss) = << >>
    BY <2>7, FlattenEmpties
  <2> QED BY <1>2, <2>2, <2>6, <2>8
<1>10. Session(a.counters, a.tokens, a.mapping)
  BY <1>2
<1> QED BY <1>1, <1>5, <1>6, <1>7, <1>8, <1>9, <1>10 DEF Progress

\* It exists.
LEMMA InTokenizeExists ==
    ASSUME NEW txt \in Seq(Char), NEW D \in Lined(Len(txt)), Session(counters, tokens, mapping)
    PROVE  \E u : InTokenize(u, txt, D)
<1>1. PICK a, n : a = [counters |-> counters, tokens |-> tokens, mapping |-> mapping,
                       out |-> << >>, cursor |-> 0] /\ n = Len(D)
  OBVIOUS
<1>2. n \in Nat
  <2>1. Len(txt) \in Nat
    OBVIOUS
  <2> QED BY <1>1, <2>1, LinedSpans
<1>3. Progress(txt, D, 0, a, counters, mapping)
  BY <1>1, ProgressStart
<1>4. mapping \in Maps
  BY DEF Session
<1>5. PICK g : g = [p \in Sessions \X (1..n) |-> TokenFor(txt, p[1], D[p[2]])]
  OBVIOUS
<1>6. \A x \in Sessions, k \in 1..n : g[<<x, k>>] = TokenFor(txt, x, D[k])
  BY <1>5
<1>7. PICK u : Recursion(u, a, g, n)
  BY <1>2, RecursionExists
<1>8. u = [k \in 0..n |-> IF k = 0 THEN a ELSE g[<<u[k - 1], k>>]]
  BY <1>7 DEF Recursion
<1>9. \A k \in 0..n : u[k] = IF k = 0 THEN a ELSE g[<<u[k - 1], k>>]
  BY <1>8
<1> DEFINE S == {k \in 0..n : Progress(txt, D, k, u[k], counters, mapping)}
<1>10. \A k \in 0..n : k \in S
  <2>1. 0 \in S
    <3>1. 0 \in 0..n
      BY <1>2
    <3>2. u[0] = a
      BY <1>9, <3>1
    <3> QED BY <1>3, <3>1, <3>2
  <2>2. ASSUME NEW k \in 1..n, k - 1 \in S PROVE k \in S
    <3>1. k \in 0..n /\ k # 0 /\ k \in 1..Len(D)
      BY <1>1, <1>2
    <3>2. Progress(txt, D, k - 1, u[k - 1], counters, mapping)
      BY <2>2
    <3>3. u[k - 1] \in Sessions
      BY <3>2 DEF Progress
    <3>4. u[k] = TokenFor(txt, u[k - 1], D[k])
      BY <1>6, <1>9, <3>1, <3>3
    <3>5. Progress(txt, D, k, TokenFor(txt, u[k - 1], D[k]), counters, mapping)
      BY <1>4, <3>1, <3>2, ProgressStep
    <3> QED BY <3>1, <3>4, <3>5
  <2> HIDE DEF S
  <2> QED BY <1>2, <2>1, <2>2, AlongList
<1>11. ASSUME NEW k \in 0..n PROVE u[k] = IF k = 0 THEN a ELSE TokenFor(txt, u[k - 1], D[k])
  <2>1. CASE k = 0
    BY <1>9, <2>1
  <2>2. CASE k # 0
    <3>1. k \in 1..n /\ k - 1 \in 0..n
      BY <1>2, <2>2
    <3>2. Progress(txt, D, k - 1, u[k - 1], counters, mapping)
      BY <1>10, <3>1
    <3>3. u[k - 1] \in Sessions
      BY <3>2 DEF Progress
    <3> QED BY <1>6, <1>9, <2>2, <3>1, <3>3
  <2> QED BY <2>1, <2>2
<1>12. u = [k \in 0..n |-> u[k]]
  BY <1>8
<1>13. InTokenize(u, txt, D)
  BY <1>1, <1>11, <1>12 DEF InTokenize
<1> QED BY <1>13

\* What Tokenize and Restore make of a text together.
Masks(t, txt, D) ==
    /\ Session(t.counters, t.tokens, t.mapping)
    /\ Grown(counters, mapping, t.counters, t.mapping)
    /\ t.out \in Seq(Old(t.counters))
    /\ Shown(t.out, t.mapping) = Expected(txt, D)

\* Tokenizer and Restorer: of the spans of a text in their order, restoring
\* gives back the ordinary ones and leaves one token of each secret.
LEMMA TokenizeMasks ==
    ASSUME NEW txt \in Seq(Char), NEW D \in Lined(Len(txt)), Session(counters, tokens, mapping)
    PROVE  Masks(Tokenize(txt, D), txt, D)
<1>1. PICK a, n, L : /\ a = [counters |-> counters, tokens |-> tokens, mapping |-> mapping,
                             out |-> << >>, cursor |-> 0]
                     /\ n = Len(D) /\ L = Len(txt)
  OBVIOUS
<1>2. /\ n \in Nat /\ L \in Nat
      /\ \A k \in 1..n : D[k].end \in Nat
  <2>1. Len(txt) \in Nat
    OBVIOUS
  <2> QED BY <1>1, <2>1, LinedSpans
<1> DEFINE v == CHOOSE u : InTokenize(u, txt, D)
<1>3. InTokenize(v, txt, D)
  <2>1. \E u : InTokenize(u, txt, D)
    BY InTokenizeExists
  <2> QED BY <2>1, Zenon
<1>4. PICK l : l = v[n]
  OBVIOUS
<1>5. Tokenize(txt, D) = [l EXCEPT !.out = @ \o SubSeq(txt, l.cursor + 1, Len(txt))]
  BY <1>1, <1>4 DEF Tokenize, InTokenize
<1> HIDE DEF v
<1>6. \A k \in 0..n : v[k] = IF k = 0 THEN a ELSE TokenFor(txt, v[k - 1], D[k])
  BY <1>1, <1>3 DEF InTokenize
<1>7. Progress(txt, D, 0, a, counters, mapping) /\ mapping \in Maps
  BY <1>1, ProgressStart DEF Session
<1> DEFINE S == {k \in 0..n : Progress(txt, D, k, v[k], counters, mapping)}
<1>8. \A k \in 0..n : k \in S
  <2>1. 0 \in S
    <3>1. 0 \in 0..n
      BY <1>2
    <3>2. v[0] = a
      BY <1>6, <3>1
    <3> QED BY <1>7, <3>1, <3>2
  <2>2. ASSUME NEW k \in 1..n, k - 1 \in S PROVE k \in S
    <3>1. k \in 0..n /\ k # 0 /\ k \in 1..Len(D)
      BY <1>1, <1>2
    <3>2. Progress(txt, D, k - 1, v[k - 1], counters, mapping)
      BY <2>2
    <3>3. v[k] = TokenFor(txt, v[k - 1], D[k])
      BY <1>6, <3>1
    <3>4. Progress(txt, D, k, TokenFor(txt, v[k - 1], D[k]), counters, mapping)
      BY <1>7, <3>1, <3>2, ProgressStep
    <3> QED BY <3>1, <3>3, <3>4
  <2> HIDE DEF S
  <2> QED BY <1>2, <2>1, <2>2, AlongList
<1>9. Progress(txt, D, n, l, counters, mapping)
  BY <1>2, <1>4, <1>8
<1>10. PICK o, m, c, co, tk : /\ o = l.out /\ m = l.mapping /\ c = l.cursor
                              /\ co = l.counters /\ tk = l.tokens
  OBVIOUS
<1>11. /\ l \in Sessions /\ Session(co, tk, m) /\ Grown(counters, mapping, co, m)
       /\ o \in Seq(Old(co)) /\ c \in 0..L /\ Shown(o, m) = Remains(txt, D, 0, c)
       /\ \A k \in 1..n : k <= n => D[k].end <= c
  BY <1>1, <1>9, <1>10 DEF Progress
<1>12. PICK y, t : y = SubSeq(txt, c + 1, Len(txt)) /\ t = Tokenize(txt, D)
  OBVIOUS
<1>13. t = [counters |-> co, tokens |-> tk, mapping |-> m, out |-> o \o y, cursor |-> c]
  <2>1. l = [counters |-> co, tokens |-> tk, mapping |-> m, out |-> o, cursor |-> c]
    BY <1>10, <1>11 DEF Sessions
  <2> QED BY <1>5, <1>10, <1>12, <2>1
<1>14. t.counters = co /\ t.tokens = tk /\ t.mapping = m /\ t.out = o \o y
  BY <1>13
<1>15. y \in Seq(Char)
  BY <1>1, <1>11, <1>12
<1>16. o \o y \in Seq(Old(co)) /\ o \in Seq(Items) /\ y \in Seq(Items) /\ m \in Maps
  <2>1. Char \subseteq Old(co) /\ Old(co) \subseteq Items
    BY OldItems
  <2>2. PICK N : N = Old(co)
    OBVIOUS
  <2>3. o \in Seq(N) /\ y \in Seq(N) /\ N \subseteq Items
    BY <1>11, <1>15, <2>1, <2>2
  <2>4. o \o y \in Seq(N) /\ o \in Seq(Items) /\ y \in Seq(Items)
    BY <2>3
  <2>5. m \in Maps
    BY <1>11 DEF Session
  <2> QED BY <2>2, <2>4, <2>5
<1>17. Shown(o \o y, m) = Remains(txt, D, 0, c) \o y
  <2>1. Shown(o \o y, m) = Shown(o, m) \o Shown(y, m)
    BY <1>16, ShownConcat
  <2>2. Shown(y, m) = y
    BY <1>15, <1>16, ShownChars
  <2> QED BY <1>11, <2>1, <2>2
<1>18. y = Remains(txt, D, c, L)
  <2>1. Clear(D, c, L)
    <3> SUFFICES ASSUME NEW i \in (c + 1)..L, NEW k \in 1..Len(D) PROVE i \notin Chars(D[k])
      BY DEF Clear
    <3>1. D[k].end \in Nat /\ D[k].end <= c
      BY <1>1, <1>2, <1>11
    <3>2. PICK e : e = D[k].end
      OBVIOUS
    <3>3. ~(i <= e)
      BY <1>2, <1>11, <3>1, <3>2
    <3> QED BY <3>2, <3>3 DEF Chars
  <2>2. c \in 0..Len(txt) /\ L \in c..Len(txt)
    BY <1>1, <1>2, <1>11
  <2> QED BY <1>1, <1>12, <2>1, <2>2, RemainsClear
<1>19. Remains(txt, D, 0, L) = Remains(txt, D, 0, c) \o Remains(txt, D, c, L)
  <2>1. c \in 0..Len(txt) /\ L \in c..Len(txt)
    BY <1>1, <1>2, <1>11
  <2> QED BY <2>1, RemainsConcat
<1>20. Expected(txt, D) = Remains(txt, D, 0, L)
  <2>1. [i \in 1..Len(txt) |-> Left(txt, D, i)] = [i \in 1..(L - 0) |-> Left(txt, D, 0 + i)]
    BY <1>1, <1>2
  <2> QED BY <2>1 DEF Expected, Remains
<1>21. Shown(t.out, t.mapping) = Expected(txt, D)
  BY <1>14, <1>17, <1>18, <1>19, <1>20, Zenon
<1> QED BY <1>11, <1>12, <1>14, <1>16, <1>21 DEF Masks

-----------------------------------------------------------------------------
\* Any span, whatever the text.
AnySpan ==
    [start : Nat, end : Nat, type : Types, source : Recognisers, score : Nat, secret : BOOLEAN]

\* The inductive invariant: the hits lie in the node's text, the session agrees
\* with itself, every masked node has only tokens the session has made, and is
\* restored to what must be left of it.
MaskInv ==
    /\ node \in 1..Len(NodeTexts)
    /\ step \in {"detect", "done"}
    /\ regex \in Seq(Hits(Len(NodeTexts[node])))
    /\ other \in Seq(Hits(Len(NodeTexts[node])))
    /\ Session(counters, tokens, mapping)
    /\ masked \in Seq(Seq(Items))
    /\ accepted \in Seq(Seq(AnySpan))
    /\ Len(masked) = IF step = "done" THEN node ELSE node - 1
    /\ Len(accepted) = Len(masked)
    /\ \A n \in 1..Len(masked) : masked[n] \in Seq(Old(counters))
    /\ RoundTrip

\* The texts of the nodes.
LEMMA NodeText ==
    ASSUME NEW n \in 1..Len(NodeTexts)
    PROVE  /\ Len(NodeTexts) \in Nat /\ Len(NodeTexts) # 0
           /\ NodeTexts[n] \in Seq(Char) /\ Len(NodeTexts[n]) \in Nat
           /\ Spans(n) \subseteq Hits(Len(NodeTexts[n]))
<1>1. PICK C, V, w : C = [char : STRING] /\ V = Seq(C) /\ w = NodeTexts
  OBVIOUS
<1>2. w \in Seq(V) /\ w # << >>
  BY <1>1, MaskingAssumption
<1>3. w[n] \in V /\ Len(w) \in Nat /\ Len(w) # 0
  BY <1>1, <1>2
<1>4. C \subseteq Char
  <2>1. PICK S : S = STRING
    OBVIOUS
  <2>2. C = [char : S]
    BY <1>1, <2>1
  <2>3. C \subseteq [char : S \cup {"#"}]
    BY <2>2
  <2> QED BY <2>1, <2>3 DEF Char
<1>5. w[n] \in Seq(Char)
  <2>1. PICK x : x = w[n]
    OBVIOUS
  <2>2. x \in Seq(C)
    BY <1>1, <1>3, <2>1
  <2>3. x \in Seq(Char)
    BY <1>4, <2>2
  <2> QED BY <2>1, <2>3
<1>6. PICK L : L = Len(NodeTexts[n])
  OBVIOUS
<1>7. L \in Nat
  BY <1>1, <1>5, <1>6
<1>8. Spans(n) \subseteq Hits(L)
  <2> SUFFICES ASSUME NEW s \in Spans(n) PROVE s \in Hits(L)
    OBVIOUS
  <2>1. /\ s \in [start : 0..(L - 1), end : 1..L, type : Types,
                  source : {"regex", "ner", "enterprise"}, score : 1..MaxScore]
        /\ s.start < s.end
    BY <1>6 DEF Spans
  <2>2. 0..(L - 1) \subseteq Nat /\ 1..L \subseteq Nat /\ 1..MaxScore \subseteq Nat
    BY <1>7, MaskingAssumption
  <2>3. s \in [start : Nat, end : Nat, type : Types, source : Recognisers, score : Nat]
    BY <2>1, <2>2 DEF Recognisers
  <2>4. s.end <= L
    BY <1>7, <2>1
  <2> QED BY <2>1, <2>3, <2>4 DEF Hits
<1> QED BY <1>1, <1>3, <1>5, <1>6, <1>7, <1>8

\* At first nothing is masked.
LEMMA MaskStart == MaskInit => MaskInv
<1> SUFFICES ASSUME MaskInit PROVE MaskInv
  OBVIOUS
<1>1. 1 \in 1..Len(NodeTexts)
  <2>1. PICK V : V = Seq([char : STRING])
    OBVIOUS
  <2>2. NodeTexts \in Seq(V) /\ NodeTexts # << >>
    BY <2>1, MaskingAssumption
  <2>3. Len(NodeTexts) \in Nat /\ Len(NodeTexts) # 0
    BY <2>2
  <2> QED BY <2>3
<1>2. Session(counters, tokens, mapping)
  <2>1. counters = [t \in Types |-> 0] /\ tokens = {} /\ mapping = {}
    BY DEF MaskInit
  <2>2. counters \in [Types -> Nat]
    BY <2>1
  <2> QED BY <2>1, <2>2 DEF Session, Maps
<1>3. masked = << >> /\ accepted = << >> /\ Len(masked) = 0 /\ Len(accepted) = 0
  BY DEF MaskInit
<1>4. RoundTrip
  BY <1>3 DEF RoundTrip
<1>5. masked \in Seq(Seq(Items)) /\ accepted \in Seq(Seq(AnySpan))
  BY <1>3
<1>6. /\ node = 1 /\ step = "detect"
      /\ regex \in Seq(Hits(Len(NodeTexts[node]))) /\ other \in Seq(Hits(Len(NodeTexts[node])))
  BY DEF MaskInit
<1> QED BY <1>1, <1>2, <1>3, <1>4, <1>5, <1>6 DEF MaskInv

\* A recogniser reports a span.
LEMMA HitKeepsMask == ASSUME MaskInv, RegexHit \/ OtherHit PROVE MaskInv'
<1>1. PICK H : H = Hits(Len(NodeTexts[node]))
  OBVIOUS
<1>2. regex \in Seq(H) /\ other \in Seq(H) /\ Spans(node) \subseteq H
  <2>1. node \in 1..Len(NodeTexts)
    BY DEF MaskInv
  <2>2. Spans(node) \subseteq Hits(Len(NodeTexts[node]))
    BY <2>1, NodeText
  <2> QED BY <1>1, <2>2 DEF MaskInv
<1>3. /\ node' = node /\ step' = step /\ counters' = counters /\ tokens' = tokens
      /\ mapping' = mapping /\ masked' = masked /\ accepted' = accepted
  BY DEF RegexHit, OtherHit
<1>4. regex' \in Seq(H) /\ other' \in Seq(H)
  <2>1. CASE RegexHit
    <3>1. PICK s \in Spans(node) : regex' = Append(regex, s)
      BY <2>1 DEF RegexHit
    <3>2. s \in H
      BY <1>2
    <3>3. other' = other
      BY <2>1 DEF RegexHit
    <3> QED BY <1>2, <3>1, <3>2, <3>3
  <2>2. CASE OtherHit
    <3>1. PICK s \in Spans(node) : other' = Append(other, s)
      BY <2>2 DEF OtherHit
    <3>2. s \in H
      BY <1>2
    <3>3. regex' = regex
      BY <2>2 DEF OtherHit
    <3> QED BY <1>2, <3>1, <3>2, <3>3
  <2> QED BY <2>1, <2>2
<1>5. Session(counters, tokens, mapping)' /\ RoundTrip'
  <2>1. Session(counters, tokens, mapping)
    BY DEF MaskInv
  <2>2. RoundTrip
    BY DEF MaskInv
  <2> QED BY <1>3, <2>1, <2>2 DEF RoundTrip
<1> QED BY <1>1, <1>3, <1>4, <1>5 DEF MaskInv

\* The node is masked.
LEMMA NodeKeepsMask == ASSUME MaskInv, MaskNode PROVE MaskInv'
<1>1. PICK txt, spans, t :
         /\ txt = NodeTexts[node] /\ spans = Detections(NodeTexts[node], regex, other)
         /\ t = Tokenize(txt, spans)
  OBVIOUS
<1>2. PICK n, H : n = Len(masked) /\ H = Hits(Len(txt))
  OBVIOUS
<1>3. /\ node \in 1..Len(NodeTexts) /\ step = "detect"
      /\ regex \in Seq(H) /\ other \in Seq(H)
      /\ Session(counters, tokens, mapping)
      /\ masked \in Seq(Seq(Items)) /\ accepted \in Seq(Seq(AnySpan))
      /\ n = node - 1 /\ Len(accepted) = n
      /\ \A i \in 1..n : masked[i] \in Seq(Old(counters))
      /\ \A i \in 1..n : Hashed(Restore(masked[i], mapping)) = Expected(NodeTexts[i], accepted[i])
  BY <1>1, <1>2 DEF MaskInv, MaskNode, RoundTrip
<1>4. txt \in Seq(Char) /\ Len(txt) \in Nat /\ Len(NodeTexts) \in Nat
  BY <1>1, <1>3, NodeText
<1>5. spans \in Lined(Len(txt))
  BY <1>1, <1>2, <1>3, <1>4, DetectionsLined
<1>6. Masks(t, txt, spans)
  BY <1>1, <1>3, <1>4, <1>5, TokenizeMasks
<1>7. /\ Session(t.counters, t.tokens, t.mapping)
      /\ Grown(counters, mapping, t.counters, t.mapping)
      /\ t.out \in Seq(Old(t.counters))
      /\ Shown(t.out, t.mapping) = Expected(txt, spans)
  BY <1>6 DEF Masks
<1>8. PICK co, tk, mp, o : co = t.counters /\ tk = t.tokens /\ mp = t.mapping /\ o = t.out
  OBVIOUS
<1>9. /\ counters' = co /\ tokens' = tk /\ mapping' = mp
      /\ masked' = Append(masked, o) /\ accepted' = Append(accepted, spans)
  BY <1>1, <1>8 DEF MaskNode
<1>10. /\ Session(co, tk, mp) /\ Grown(counters, mapping, co, mp)
       /\ o \in Seq(Old(co)) /\ Shown(o, mp) = Expected(txt, spans)
  BY <1>7, <1>8
<1>11. /\ IF node = Len(NodeTexts) THEN node' = node /\ step' = "done"
                                   ELSE node' = node + 1 /\ step' = "detect"
       /\ node' \in 1..Len(NodeTexts) /\ step' \in {"detect", "done"}
  BY <1>3, <1>4 DEF MaskNode
<1>12. /\ regex' \in Seq(Hits(Len(NodeTexts[node']))) /\ other' \in Seq(Hits(Len(NodeTexts[node'])))
  <2>1. CASE node = Len(NodeTexts)
    <3>1. node' = node /\ regex' = regex /\ other' = other
      BY <2>1 DEF MaskNode
    <3> QED BY <1>1, <1>2, <1>3, <3>1
  <2>2. CASE node # Len(NodeTexts)
    <3>1. regex' = << >> /\ other' = << >>
      BY <2>2 DEF MaskNode
    <3> QED BY <3>1
  <2> QED BY <2>1, <2>2
<1>13. o \in Seq(Items)
  <2>1. PICK S : S = Old(co)
    OBVIOUS
  <2>2. S \subseteq Items /\ o \in Seq(S)
    BY <1>10, <2>1, OldItems
  <2> QED BY <2>2
<1>14. PICK U, W, m2, a2 : U = Seq(Items) /\ W = Seq(AnySpan) /\ m2 = masked' /\ a2 = accepted'
  OBVIOUS
<1>15. spans \in W
  <2>1. spans \in Seq(Flagged(Len(txt)))
    BY <1>5 DEF Lined
  <2>2. Flagged(Len(txt)) \subseteq AnySpan
    BY DEF Flagged, AnySpan
  <2> QED BY <1>14, <2>1, <2>2
<1>16. /\ masked \in Seq(U) /\ accepted \in Seq(W) /\ o \in U /\ n \in Nat
  BY <1>2, <1>3, <1>13, <1>14
<1>17. /\ m2 \in Seq(U) /\ Len(m2) = n + 1 /\ m2[n + 1] = o /\ \A i \in 1..n : m2[i] = masked[i]
  BY <1>2, <1>9, <1>14, <1>16
<1>18. /\ a2 \in Seq(W) /\ Len(a2) = n + 1 /\ a2[n + 1] = spans
       /\ \A i \in 1..n : a2[i] = accepted[i]
  BY <1>3, <1>9, <1>14, <1>15, <1>16
<1>19. n + 1 = node /\ n + 1 = IF step' = "done" THEN node' ELSE node' - 1
  <2>1. node \in Nat /\ n + 1 = node
    BY <1>3, <1>4
  <2>2. CASE node = Len(NodeTexts)
    <3>1. node' = node /\ step' = "done"
      BY <1>11, <2>2
    <3> QED BY <2>1, <3>1
  <2>3. CASE node # Len(NodeTexts)
    <3>1. node' = node + 1 /\ step' = "detect"
      BY <1>11, <2>3
    <3>2. node' - 1 = node /\ step' # "done"
      BY <2>1, <3>1
    <3> QED BY <2>1, <3>2
  <2> QED BY <2>2, <2>3
<1>20. mapping \in Maps /\ mp \in Maps
  BY <1>3, <1>10 DEF Session
<1>21. ASSUME NEW i \in 1..(n + 1)
       PROVE  /\ m2[i] \in Seq(Old(co))
              /\ Hashed(Restore(m2[i], mp)) = Expected(NodeTexts[i], a2[i])
  <2>1. CASE i \in 1..n
    <3>1. masked[i] \in Seq(Old(counters))
      BY <1>3, <2>1
    <3>2. masked[i] \in Seq(Old(co)) /\ Shown(masked[i], mp) = Shown(masked[i], mapping)
      BY <1>10, <1>20, <3>1, ShownGrown
    <3>3. Hashed(Restore(masked[i], mp)) = Hashed(Restore(masked[i], mapping))
      BY <3>2 DEF Shown
    <3> QED BY <1>3, <1>17, <1>18, <2>1, <3>2, <3>3, Zenon
  <2>2. CASE i = n + 1
    <3>1. Hashed(Restore(o, mp)) = Expected(txt, spans)
      BY <1>10 DEF Shown
    <3>2. NodeTexts[i] = txt /\ m2[i] = o /\ a2[i] = spans
      BY <1>1, <1>17, <1>18, <1>19, <2>2, Zenon
    <3> QED BY <1>10, <3>1, <3>2, Zenon
  <2>3. i \in 1..n \/ i = n + 1
    BY <1>16
  <2> QED BY <2>1, <2>2, <2>3
<1>22. RoundTrip'
  BY <1>9, <1>14, <1>17, <1>21 DEF RoundTrip
<1>23. Session(counters, tokens, mapping)'
  BY <1>9, <1>10
<1>24. \A i \in 1..Len(masked') : masked'[i] \in Seq(Old(counters'))
  BY <1>9, <1>14, <1>17, <1>21
<1>25. /\ masked' \in Seq(Seq(Items)) /\ accepted' \in Seq(Seq(AnySpan))
       /\ Len(masked') = n + 1 /\ Len(accepted') = n + 1
  BY <1>14, <1>17, <1>18
<1> QED BY <1>11, <1>12, <1>19, <1>22, <1>23, <1>24, <1>25 DEF MaskInv

\* A step keeps the invariant.
LEMMA MaskStep == ASSUME MaskInv, [MaskNext]_maskVars PROVE MaskInv'
<1>1. CASE RegexHit \/ OtherHit
  BY <1>1, HitKeepsMask
<1>2. CASE MaskNode
  BY <1>2, NodeKeepsMask
<1>3. CASE UNCHANGED maskVars
  <2>1. Session(counters, tokens, mapping)' /\ RoundTrip'
    <3>1. Session(counters, tokens, mapping)
      BY DEF MaskInv
    <3>2. RoundTrip
      BY DEF MaskInv
    <3> QED BY <1>3, <3>1, <3>2 DEF RoundTrip, maskVars
  <2> QED BY <1>3, <2>1 DEF MaskInv, maskVars
<1>4. CASE MaskDone
  <2>1. UNCHANGED maskVars
    BY <1>4 DEF MaskDone
  <2> QED BY <1>3, <2>1
<1> QED BY <1>1, <1>2, <1>3, <1>4 DEF MaskNext

\* The hits of a node and their union.
LEMMA MaskInvIsSound == ASSUME MaskInv PROVE MaskingSound
<1>1. PICK L, q, hits : /\ L = Len(NodeTexts[node]) /\ q = Merge(regex, other)
                        /\ hits = regex \o other
  OBVIOUS
<1>2. L \in Nat /\ regex \in Seq(Hits(L)) /\ other \in Seq(Hits(L)) /\ RoundTrip
  <2>1. node \in 1..Len(NodeTexts)
    BY DEF MaskInv
  <2> QED BY <1>1, <2>1, NodeText DEF MaskInv
<1>3. /\ Apart(q) /\ Cover(q) = Cover(regex) \cup Cover(other)
      /\ \A i \in 1..Len(regex) : Secret(regex[i]) => Guarded(q, Chars(regex[i]))
      /\ \A i \in 1..Len(other) : Secret(other[i]) => Guarded(q, Chars(other[i]))
  BY <1>1, <1>2, MergeSound
<1>4. MergeCoversUnion(q)
  BY <1>3 DEF MergeCoversUnion, Apart
<1>5. /\ Len(regex) \in Nat /\ Len(other) \in Nat /\ Len(hits) = Len(regex) + Len(other)
      /\ \A i \in 1..(Len(regex) + Len(other)) :
            hits[i] = IF i <= Len(regex) THEN regex[i] ELSE other[i - Len(regex)]
  <2>1. Len(regex) \in Nat /\ Len(other) \in Nat
    BY <1>2
  <2>2. /\ Len(regex \o other) = Len(regex) + Len(other)
        /\ \A i \in 1..(Len(regex) + Len(other)) :
              (regex \o other)[i] = IF i <= Len(regex) THEN regex[i] ELSE other[i - Len(regex)]
    BY <1>2, ConcatParts
  <2> QED BY <1>1, <2>1, <2>2, Zenon
<1>6. ASSUME NEW i \in 1..Len(hits), Secret(hits[i]) PROVE Guarded(q, Chars(hits[i]))
  <2>1. CASE i <= Len(regex)
    <3>1. i \in 1..Len(regex) /\ hits[i] = regex[i]
      BY <1>5, <2>1
    <3> QED BY <1>3, <1>6, <3>1
  <2>2. CASE ~(i <= Len(regex))
    <3>1. i - Len(regex) \in 1..Len(other) /\ hits[i] = other[i - Len(regex)]
      BY <1>5, <2>2
    <3> QED BY <1>3, <1>6, <3>1
  <2> QED BY <2>1, <2>2
<1>7. SecretsStayProtected(q)
  <2> SUFFICES ASSUME NEW i \in 1..Len(hits), Secret(hits[i])
               PROVE  \E k \in 1..Len(q) : q[k].secret /\ Chars(hits[i]) \subseteq Chars(q[k])
    BY <1>1 DEF SecretsStayProtected
  <2>1. Guarded(q, Chars(hits[i]))
    BY <1>6
  <2> QED BY <2>1 DEF Guarded
<1> QED BY <1>1, <1>2, <1>4, <1>7 DEF MaskingSound

\* Masking is sound for every text, specificity and list of hits: arbitration
\* covers what the recognisers reported and weakens no secret, and restoring
\* any masked node gives its text with every secret still hidden.
THEOREM MaskingIsSound == MaskSpec => []MaskingSound
<1>1. MaskInit => MaskInv
  BY MaskStart
<1>2. MaskInv /\ [MaskNext]_maskVars => MaskInv'
  BY MaskStep
<1>3. MaskInv => MaskingSound
  BY MaskInvIsSound
<1> QED BY <1>1, <1>2, <1>3, PTL DEF MaskSpec
=============================================================================
