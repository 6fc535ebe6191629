---------------------------- MODULE PolicyEngine ----------------------------
(***************************************************************************)
(* The policy engine of one tenant (every key carries the tenant's id):    *)
(* PolicyStore, UsageLimiter, SpendController, ResidencyRouter, the        *)
(* decision and enforcement points as PolicyMiddleware and then            *)
(* PolicyEnforcementStage call them for a request, and the administrators' *)
(* upsert of a rule.  A step is what a task does up to its next Redis      *)
(* command.  fresh, standing, single, stale and the field alone are        *)
(* history.                                                                *)
(***************************************************************************)
EXTENDS Naturals, Sequences, FiniteSets, SequencesExt, Lists

CONSTANTS
    Requests, Upserts,  \* requests and administrators' calls
    Levels,             \* classification levels a request may have
    GlobalRules,        \* rules of the configuration file, in file order
    Puts,               \* PUT calls: the id in the path and the rule in the body
    Priority,           \* priority of each rule id
    RPM, Concurrent,    \* RateLimitConfig
    Budget,             \* SpendBudget.daily_usd, in units of one call
    Residency,          \* the tenant's ResidencyRule, or NoRule
    NoRule,
    RedisFails,         \* whether a Redis command may raise
    MaxWindows          \* bound on the minutes and expiries

NewRules == {c.rule : c \in Puts}

ASSUME PolicyAssumption ==
    /\ RPM \in Nat \ {0} /\ Concurrent \in Nat \ {0}
    /\ Budget \in Nat /\ MaxWindows \in Nat
    /\ RedisFails \in BOOLEAN
    /\ GlobalRules \in Seq(ToSet(GlobalRules))
    /\ NoRule \notin Seq(NewRules \union ToSet(GlobalRules))

VARIABLES
    decided,        \* _decision_cache: kind of request -> decision
    stored,         \* rules in Redis, NoRule when the key is gone
    own,            \* _tenant_rules of this tenant
    rpm, calls,     \* Redis counters: requests of this minute, open calls
    spend,          \* Redis counter: spend of the day
    lastDay,        \* today is the last day of its month
    req, upsert,    \* the tasks
    turns,
    fresh,          \* evaluations of this minute the limiter let pass
    standing,       \* acknowledged rules no acknowledged upsert has replaced since
    single,         \* ids whose rule was put under its own id last
    stale           \* the stored rules are older than the last acknowledged
                    \* ones, or those of an upsert that failed

storeVars == <<stored, own, upsert, standing, single, stale>>
policyVars == <<decided, stored, own, rpm, calls, spend, lastDay, req, upsert,
                turns, fresh, standing, single, stale>>

Kinds == Levels \union {""}
Decision(action, why) == [action |-> action, why |-> why]

\* An administrator's call that has not begun or has been answered.
Call(pc) == [pc |-> pc, path |-> "", rule |-> NoRule, seen |-> << >>, alone |-> TRUE, found |-> FALSE]

PolicyInit ==
    /\ decided = [k \in Kinds |-> NoRule]
    /\ stored = NoRule
    /\ own = << >>
    /\ rpm = 0 /\ calls = 0 /\ spend = 0
    /\ lastDay \in BOOLEAN
    /\ req = [r \in Requests |-> [pc |-> "new", stage |-> 1, level |-> "",
                                  seen |-> << >>, broken |-> FALSE, status |-> 0]]
    /\ upsert = [u \in Upserts |-> Call("new")]
    /\ turns = 0 /\ fresh = 0
    /\ standing = {} /\ single = {} /\ stale = FALSE

-----------------------------------------------------------------------------
(* PolicyStore. *)

\* load_policies on a miss: the configured rules, then the tenant's.
Uncached == GlobalRules \o own

\* What load_policies returns in this state.
Loaded == IF stored = NoRule THEN Uncached ELSE stored

\* enabled_rules and the condition of evaluate_classification.
EnabledFor(rules, level) ==
    {i \in DOMAIN rules : rules[i].enabled /\ rules[i].level = level /\ level # ""}

\* sorted(..., key=priority, reverse=True) is stable: of the highest
\* priority, the first of the list.
FirstMatch(rules, level) ==
    CHOOSE i \in EnabledFor(rules, level) :
        \A j \in EnabledFor(rules, level) :
            \/ Priority[rules[i].id] > Priority[rules[j].id]
            \/ Priority[rules[i].id] = Priority[rules[j].id] /\ i <= j

\* evaluate_classification, once the rules are there.
Classify(rules, level) ==
    IF EnabledFor(rules, level) = {} THEN Decision("ALLOW", "no_rule")
    ELSE Decision(rules[FirstMatch(rules, level)].action, "rule")

\* ResidencyRouter.resolve_region; evaluate_all always asks for "unknown".
ResolveRegion(region) ==
    IF Residency = NoRule THEN Decision("ALLOW", "no_residency")
    ELSE IF region \in Residency.allowed THEN Decision("ALLOW", "residency_match")
    ELSE IF region \in Residency.blocked THEN Decision("BLOCK", "residency_block")
    ELSE Decision(Residency.fallback, "residency_fallback")

-----------------------------------------------------------------------------
(* A request: evaluate_all for the middleware (stage 1, no level yet) and  *)
(* again for the pipeline stage (stage 2).                                 *)

\* _compute_request_hash: the middleware's context has no classification.
Kind(q) == IF q.stage = 1 THEN "" ELSE q.level

\* _determine_block_type.
BlockStatus(d) ==
    CASE d.why \in {"rate_limit", "rate_limit_error"} -> 429
      [] d.why \in {"classification_error", "spend_limit_error"} -> 503
      [] d.why = "spend_limit" -> 402
      [] d.why \in {"residency_block", "residency_fallback", "rule"} -> 451
      [] OTHER -> 403

\* enforce, and what the middleware or the stage then does.  MONITOR is not
\* among the forwarded actions and is handled as a block.
Enforced(q, d) ==
    CASE d.action \in {"ALLOW", "FLAG_AND_FORWARD"} /\ q.stage = 1 ->
            [q EXCEPT !.pc = "next", !.stage = 2, !.seen = << >>]
      [] d.action \in {"ALLOW", "FLAG_AND_FORWARD"} /\ q.stage = 2 ->
            [q EXCEPT !.pc = "done", !.status = 200, !.seen = << >>]
      [] d.action = "ROUTE_LOCAL" -> [q EXCEPT !.pc = "done", !.status = 503, !.seen = << >>]
      [] OTHER -> [q EXCEPT !.pc = "done", !.status = BlockStatus(d), !.seen = << >>]

\* The rest of evaluate_all: cache the decision and enforce it.
Conclude(r, q, d) ==
    /\ decided' = [decided EXCEPT ![Kind(q)] = d]
    /\ req' = [req EXCEPT ![r] = Enforced(q, d)]

\* dispatch and evaluate_all up to the first await.
Evaluate(r, level) ==
    LET q == [req[r] EXCEPT !.level = level] IN
    /\ \/ req[r].pc = "new"
       \/ req[r].pc = "next" /\ level = req[r].level
    /\ IF decided[Kind(q)] # NoRule
       THEN req' = [req EXCEPT ![r] = Enforced(q, decided[Kind(q)])]
       ELSE req' = [req EXCEPT ![r] = [q EXCEPT !.pc = "rules"]]
    /\ UNCHANGED <<decided, rpm, calls, spend, lastDay, turns, fresh, storeVars>>

\* A classification decision: only BLOCK ends the evaluation.
AfterRules(r, q, d) ==
    IF d.action = "BLOCK" THEN Conclude(r, q, d)
    ELSE req' = [req EXCEPT ![r] = [q EXCEPT !.pc = "rate", !.seen = << >>]] /\ UNCHANGED decided

\* Broken(q, why): the except branches, which answer BLOCK with 503.
Broken(r, why) ==
    /\ RedisFails
    /\ Conclude(r, [req[r] EXCEPT !.broken = TRUE], Decision("BLOCK", why))

\* load_policies: the GET.
GetRules(r) ==
    /\ req[r].pc = "rules"
    /\ \/ stored # NoRule /\ AfterRules(r, req[r], Classify(stored, Kind(req[r])))
       \/ /\ stored = NoRule
          /\ req' = [req EXCEPT ![r].pc = "fill", ![r].seen = Uncached]
          /\ UNCHANGED decided
       \/ Broken(r, "classification_error")
    /\ UNCHANGED <<rpm, calls, spend, lastDay, turns, fresh, storeVars>>

\* The SET that fills the cache after a miss.  The rules were put together
\* before it, and an upsert may have been saved meanwhile.
Fill(rules) == stored' = rules /\ stale' = (rules # Uncached)

\* load_policies: the SET of a request.
FillRules(r) ==
    /\ req[r].pc = "fill"
    /\ \/ /\ Fill(req[r].seen)
          /\ AfterRules(r, req[r], Classify(req[r].seen, Kind(req[r])))
       \/ Broken(r, "classification_error") /\ UNCHANGED <<stored, stale>>
    /\ UNCHANGED <<own, rpm, calls, spend, lastDay, turns, fresh, upsert, standing, single>>

\* Mutated OverLimit: the request that reaches the limit is let through twice.
OverLimit_OffByOne(n, open) == n > RPM + 1 \/ open >= Concurrent

\* The comparisons of check_rate_limit (tpm counts requests too, with a
\* larger limit).
OverLimit(n, open) == n > RPM \/ open >= Concurrent

\* check_rate_limit: INCR and the reads are one transaction.
CheckRate(r) ==
    /\ req[r].pc = "rate"
    /\ \/ /\ rpm' = rpm + 1
          /\ IF OverLimit(rpm + 1, calls)
             THEN Conclude(r, req[r], Decision("BLOCK", "rate_limit")) /\ UNCHANGED fresh
             ELSE /\ req' = [req EXCEPT ![r].pc = "spend"]
                  /\ fresh' = fresh + 1
                  /\ UNCHANGED decided
       \/ Broken(r, "rate_limit_error") /\ UNCHANGED <<rpm, fresh>>
    /\ UNCHANGED <<calls, spend, lastDay, turns, storeVars>>

\* Mutated AfterSpend: a failed check lets the request pass.
AfterSpend_Open(r) ==
    \/ RedisFails /\ req' = [req EXCEPT ![r] = Enforced([req[r] EXCEPT !.broken = TRUE],
                                                        Decision("ALLOW", "open"))]
                  /\ UNCHANGED decided
    \/ Conclude(r, req[r], Decision("ALLOW", "all_checks_passed"))

\* check_spend, then the residency check, which does not await.
AfterSpend(r) ==
    \/ spend >= Budget /\ Conclude(r, req[r], Decision("BLOCK", "spend_limit"))
    \/ /\ spend < Budget
       /\ LET d == ResolveRegion("unknown") IN
          Conclude(r, req[r], IF d.action = "BLOCK" THEN d
                              ELSE Decision("ALLOW", "all_checks_passed"))
    \/ Broken(r, "spend_limit_error")

CheckSpend(r) ==
    /\ req[r].pc = "spend"
    /\ AfterSpend(r)
    /\ UNCHANGED <<rpm, calls, spend, lastDay, turns, fresh, storeVars>>

-----------------------------------------------------------------------------
(* update_policy: validate, get_policy, load_policies, set_tenant_policy.  *)
(* The body keeps a rule_id of its own: only a missing one is set to the   *)
(* id in the path.                                                         *)

Busy(u) == upsert[u].pc \in {"getfill", "load", "loadfill", "save"}
OthersBusy(u) == \E v \in Upserts \ {u} : Busy(v)
WithoutRule(rules, id) == Kept(rules, {x \in ToSet(rules) : x.id # id})

\* get_policy: a rule of the tenant's list or of the configuration file.
Found(rules, id) == \E x \in ToSet(rules) \union ToSet(GlobalRules) : x.id = id

\* The list to be saved: the rules with the id in the path go, and the rule
\* of the body comes last.
Replaced(q, rules) ==
    Append(IF q.found THEN WithoutRule(rules, q.path) ELSE rules, q.rule)

\* History: an upsert is alone while no other is at work and neither of its
\* loads returns stale rules.
NotAlone(u) == [v \in Upserts |-> IF v # u /\ Busy(v) THEN [upsert[v] EXCEPT !.alone = FALSE] ELSE upsert[v]]

\* The GET of get_policy.
BeginUpsert(u, c) ==
    LET q == [pc |-> "load", path |-> c.path, rule |-> c.rule, seen |-> << >>,
              alone |-> ~OthersBusy(u) /\ ~stale, found |-> Found(Loaded, c.path)]
    IN
    /\ upsert[u].pc = "new"
    /\ upsert' = [NotAlone(u) EXCEPT ![u] =
         IF stored = NoRule THEN [q EXCEPT !.pc = "getfill", !.seen = Uncached] ELSE q]
    /\ UNCHANGED <<decided, stored, own, rpm, calls, spend, lastDay, req, turns, fresh,
                   standing, single, stale>>

\* The GET of load_policies.
LoadForUpsert(u) ==
    LET q == [upsert[u] EXCEPT !.alone = @ /\ ~stale] IN
    /\ upsert[u].pc = "load"
    /\ upsert' = [upsert EXCEPT ![u] =
         IF stored = NoRule THEN [q EXCEPT !.pc = "loadfill", !.seen = Uncached]
         ELSE [q EXCEPT !.pc = "save", !.seen = Replaced(q, Loaded)]]
    /\ UNCHANGED <<decided, stored, own, rpm, calls, spend, lastDay, req, turns, fresh,
                   standing, single, stale>>

\* The SET after either of them missed.
FillForUpsert(u) ==
    LET q == upsert[u] IN
    /\ q.pc \in {"getfill", "loadfill"}
    /\ Fill(q.seen)
    /\ upsert' = [upsert EXCEPT ![u] =
         IF q.pc = "getfill" THEN [q EXCEPT !.pc = "load", !.seen = << >>]
         ELSE [q EXCEPT !.pc = "save", !.seen = Replaced(q, q.seen)]]
    /\ UNCHANGED <<decided, own, rpm, calls, spend, lastDay, req, turns, fresh, standing, single>>

\* Mutated SavedOwn: the process keeps the rules of the configuration.
SavedOwn_Forgotten(rules) == own

\* set_tenant_policy: what _tenant_rules becomes.
SavedOwn(rules) == rules

\* History: what stands after q was acknowledged.  An upsert that was alone
\* takes the place of the rules with the id in its path; of others only its
\* own rule is sure.
Stands(q) ==
    IF q.alone THEN {x \in standing : x.id # q.path} \union {q.rule} ELSE {q.rule}
Singled(q) ==
    IF ~q.alone THEN {}
    ELSE IF q.path = q.rule.id THEN single \union {q.path} ELSE single \ {q.rule.id}

\* set_tenant_policy.  A command that raises may have been applied; the
\* assignment of _tenant_rules is then skipped and the caller gets a 500.
SaveRules(u) ==
    LET q == upsert[u] IN
    /\ q.pc = "save"
    /\ \/ /\ stored' = q.seen /\ own' = SavedOwn(q.seen) /\ stale' = FALSE
          /\ standing' = Stands(q) /\ single' = Singled(q)
       \/ /\ RedisFails /\ UNCHANGED <<own, standing, single>>
          /\ \/ UNCHANGED <<stored, stale>>
             \/ stored' = q.seen /\ stale' = TRUE
    /\ upsert' = [upsert EXCEPT ![u] = Call("done")]
    /\ UNCHANGED <<decided, rpm, calls, spend, lastDay, req, turns, fresh>>

-----------------------------------------------------------------------------
(* Counters that a caller of the engine keeps: increment, decrement and    *)
(* record_spend.                                                           *)

Increment ==
    /\ calls < Concurrent
    /\ calls' = calls + 1
    /\ UNCHANGED <<decided, rpm, spend, lastDay, req, turns, fresh, storeVars>>

\* decrement clamps at zero (its two commands are taken together).
Decrement ==
    /\ calls' = IF calls = 0 THEN 0 ELSE calls - 1
    /\ UNCHANGED <<decided, rpm, spend, lastDay, req, turns, fresh, storeVars>>

\* _daily_ttl builds tomorrow with replace(day=day+1), which raises on the
\* last day of a month; record_spend swallows the error.
RecordSpend ==
    /\ spend < Budget
    /\ spend' = IF lastDay THEN spend ELSE spend + 1
    /\ UNCHANGED <<decided, rpm, calls, lastDay, req, turns, fresh, storeVars>>

\* A minute ends: a new window key.
NextWindow ==
    /\ turns < MaxWindows /\ turns' = turns + 1
    /\ rpm' = 0 /\ fresh' = 0
    /\ UNCHANGED <<decided, calls, spend, lastDay, req, storeVars>>

\* Midnight: the day's counter expires.
NextDay ==
    /\ turns < MaxWindows /\ turns' = turns + 1
    /\ spend' = 0
    /\ lastDay' \in (IF lastDay THEN {FALSE} ELSE BOOLEAN)
    /\ UNCHANGED <<decided, rpm, calls, req, fresh, storeVars>>

\* The five seconds of a cached decision end.
DecisionExpires(k) ==
    /\ decided[k] # NoRule /\ turns < MaxWindows /\ turns' = turns + 1
    /\ decided' = [decided EXCEPT ![k] = NoRule]
    /\ UNCHANGED <<rpm, calls, spend, lastDay, req, fresh, storeVars>>

\* The 300 seconds of the stored rules end, or invalidate_cache removes them.
RulesExpire ==
    /\ stored # NoRule /\ turns < MaxWindows /\ turns' = turns + 1
    /\ stored' = NoRule /\ stale' = FALSE
    /\ UNCHANGED <<decided, own, rpm, calls, spend, lastDay, req, fresh, upsert, standing, single>>

PolicyNext ==
    \/ \E r \in Requests :
        \/ \E l \in Levels : Evaluate(r, l)
        \/ GetRules(r) \/ FillRules(r) \/ CheckRate(r) \/ CheckSpend(r)
    \/ \E u \in Upserts :
        \/ \E c \in Puts : BeginUpsert(u, c)
        \/ LoadForUpsert(u) \/ FillForUpsert(u) \/ SaveRules(u)
    \/ Increment \/ Decrement \/ RecordSpend
    \/ NextWindow \/ NextDay \/ RulesExpire
    \/ \E k \in Kinds : DecisionExpires(k)

PolicySpec == PolicyInit /\ [][PolicyNext]_policyVars

-----------------------------------------------------------------------------
\* No request is answered 200 after one of its own checks raised: every
\* except branch of the decision point blocks.
BrokenChecksBlock ==
    \A r \in Requests : req[r].broken => req[r].status # 200 /\ req[r].pc = "done"

\* In a minute the limiter lets at most RPM evaluations pass, whatever the
\* interleaving: it counts before it compares, in one transaction.
LimiterBounds == fresh <= RPM

GlobalIds == {e.id : e \in ToSet(GlobalRules)}
WithId(rules, id) == {e \in ToSet(rules) : e.id = id}

\* The lists a load may return: stale rules only until their key expires.
Returned == IF stale THEN {Uncached} ELSE {Uncached, Loaded}

\* An acknowledged rule is among the rules in force until an upsert with its
\* id in the path replaces it, unless that upsert, or one after it, overlapped
\* another or read stale rules; a fill or a failed upsert that brings back
\* older rules hides it only until the key expires or an upsert succeeds.  A
\* rule put under its own id is then the only one with it, if the
\* configuration file has none.
UpsertStands ==
    \A x \in standing, rules \in Returned :
        /\ x \in ToSet(rules)
        /\ x.id \in single \ GlobalIds => WithId(rules, x.id) = {x}

\* What the policy engine promises a tenant while requests and rule changes
\* overlap: broken checks block, limits bind, an upsert stands.
PolicyEnforced ==
    /\ BrokenChecksBlock
    /\ LimiterBounds
    /\ UpsertStands

(* Said of the code and not kept by it. *)

\* update_policy: "Create or update a policy rule (upsert)", and "Ensure
\* rule_id in path matches body": a body may bring the id of another rule, and
\* after the key expired a configured rule is back, in front of its
\* replacement.
UpdateReplacesRule ==
    \A x \in standing, rules \in Returned : WithId(rules, x.id) = {x}

\* An acknowledged rule is enforced: a request that filled the cache with
\* what it read before may bring back the older rules.
AcknowledgedIsEnforced == \A x \in standing : x \in ToSet(Loaded)

\* Upserts of different rules both stand: each saves the list it has loaded.
OverlappingUpsertsStand ==
    [][\A u \in Upserts : upsert[u].pc = "save" /\ upsert'[u].pc = "done" /\ own' # own
         => {x \in standing : x.id # upsert[u].path} \subseteq ToSet(own')]_policyVars
=============================================================================
