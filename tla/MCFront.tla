------------------------------ MODULE MCFront -------------------------------
(* TLC instance of what stands in front of the pipeline: the credentials and   *)
(* tenants of a caller, and the policies its request meets.  They share no     *)
(* variable, so a behaviour lets one run and the other rest in an initial      *)
(* state.                                                                      *)
EXTENDS AccessControl, PolicyEngine, TLC

CONSTANTS g, t    \* a rule of the file and one of the tenant
VARIABLE part

FrontInit ==
    /\ AccessInit /\ PolicyInit
    /\ part \in {"access", "policy"}
    /\ part # "access" => /\ conf = (CHOOSE c \in Configs : Startable(c))
                          /\ published = KeyIds
    /\ part # "policy" => ~lastDay

FrontNext ==
    /\ UNCHANGED part
    /\ \/ part = "access" /\ AccessNext /\ UNCHANGED policyVars
       \/ part = "policy" /\ PolicyNext /\ UNCHANGED accessVars

FrontSpec == FrontInit /\ [][FrontNext]_<<accessVars, policyVars, part>>

Symmetry == Permutations(Requests) \union Permutations(Upserts)
-----------------------------------------------------------------------------
\* Callers: every kind of credential, with agreeing and foreign tenants.
MCJwt(k, s, ok, role, tn) ==
    [kind |-> "jwt", kid |-> k, signer |-> s, claims |-> ok, role |-> role, tenant |-> tn]
MCKey(x) == [kind |-> x]
MCInput(route, role, ingress, header, label, auth) ==
    [route |-> route, role |-> role, ingress |-> ingress,
     ctype |-> IF label = "binary" THEN "unknown" ELSE "json", header |-> header,
     label |-> label, auth |-> auth]
MCAdmin == {MCInput(route, "administrator", "ok", header, "none", auth) :
                route \in {"governance", "admin"}, header \in {"none", "a", "b"},
                auth \in {MCKey(x) : x \in {"none", "gateway", "adminkey"}}
                         \union {MCJwt(k, "k1", TRUE, "administrator", tn) : k \in {"k1", "k2"}, tn \in {"a", "*"}}
                         \union {MCJwt("k1", "k1", ok, "operator", "a") : ok \in BOOLEAN}}
MCInputs ==
    {i \in MCAdmin : CASE i.header = "none" -> i.auth.kind = "adminkey"
                       [] i.header = "b" -> i.auth.kind = "jwt"
                       [] OTHER -> i.auth.kind # "jwt" \/ i.auth.tenant = "a"}
    \union {MCInput("chat", "operator", "ok", header, "none", auth) :
        header \in {"none", "a"}, auth \in {MCKey("none"), MCKey("gateway"), MCJwt("k1", "k1", TRUE, "operator", "a")}}
    \union {MCInput("admin", "operator", ingress, "a", "none", MCJwt("k1", "k1", TRUE, "operator", "a")) :
        ingress \in {"ok", "untrusted", "nocert"}}
    \union {MCInput("chat", "operator", "ok", header, "none", MCKey("gateway")) :
        header \in {"malformed", "ghost", "off"}}
    \union {MCInput("chat", "operator", "ok", "a", label, MCKey("gateway")) :
        label \in {"highly_restricted", "binary"}}
MCTenants == [a |-> TRUE, b |-> TRUE, off |-> FALSE]
MCOneTenant == [a |-> TRUE]
MCConfigs == {c \in [mtls : {TRUE}, oidc : BOOLEAN, single : BOOLEAN, tenant : {"a"},
                     role : {"administrator"}, tenants : {MCTenants, MCOneTenant}] :
                c.single <=> c.tenants = MCOneTenant}

\* Policies: the tenant replaces the rule of the file, adds its own, and puts a
\* rule under the id of the other.
MCRule(id, action, on) == [id |-> id, action |-> action, enabled |-> on, level |-> "high"]
MCGlobal == <<MCRule(g, "BLOCK", TRUE)>>
MCPut(path, rule) == [path |-> path, rule |-> rule]
MCPuts == {MCPut(g, MCRule(g, "BLOCK", FALSE)), MCPut(t, MCRule(t, "ROUTE_LOCAL", TRUE)),
           MCPut(g, MCRule(t, "BLOCK", FALSE))}
MCPriority == g :> 1 @@ t :> 1
MCResidency == [allowed |-> {"eu"}, blocked |-> {}, fallback |-> "ROUTE_LOCAL"]
=============================================================================
