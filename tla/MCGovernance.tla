---------------------------- MODULE MCGovernance ----------------------------
(* TLC instance of the records of the gateway: data subjects, retention and    *)
(* export, SLO breaches, the governance registers, audit exports and asset     *)
(* discovery.  They share no variable, so a behaviour lets one part run and    *)
(* the others rest in an initial state.                                        *)
EXTENDS DataSubjects, RecordKeeping, SloBreaches, GovernanceRegisters, AuditExports,
        AssetDiscovery, TLC

VARIABLE part

auditVars == <<readerVars, monthVars, discoveryVars, casbVars, prices>>

OfficeInit ==
    /\ SubjectInit /\ RecordInit /\ SloInit
    /\ RegisterInit /\ InventoryInit /\ OversightInit /\ BreachInit
    /\ ReaderInit /\ MonthInit /\ DiscoveryInit /\ CasbInit /\ PriceInit
    /\ part \in {"erasure", "restriction", "lineage", "lifecycle", "services",
                 "breaches", "letters", "registers", "inventory", "oversight", "breach",
                 "reader", "month", "discovery", "casb", "prices"}
    /\ part \notin {"erasure", "restriction"} => wiring = WorkflowServices

\* Evaluations meet each other in the stamps and counters, and meet a webhook
\* task only when they make it: so they overlap while no task goes on, and come
\* one after another, their ends included, while tasks and letters go on.
Breaching ==
    \/ Pass
    \/ \E r \in Recorders : Recording(r)
    \/ \E e \in Evaluators : Evaluating(e)

AnsweringLetters ==
    \/ Pass
    \/ \E r \in Recorders : Recording(r)
    \/ \E e \in Evaluators :
         /\ \A d \in Evaluators \ {e} : evaluator[d] = IdleEvaluator
         /\ Evaluating(e)
    \/ \E b \in DOMAIN breaches : Sends(b) \/ AckDlqEntry(b)
    \/ RetryDlq \/ RetryOne

OfficeNext ==
    /\ UNCHANGED part
    /\ \/ /\ UNCHANGED <<recordVars, sloVars, governanceVars, auditVars>>
          /\ \/ part = "erasure" /\ ErasureNext
             \/ part = "restriction" /\ RestrictionNext
       \/ /\ UNCHANGED <<subjectVars, sloVars, governanceVars, auditVars>>
          /\ \/ part = "lineage" /\ LineageNext /\ UNCHANGED <<lifecycleVars, serviceVars>>
             \/ part = "lifecycle" /\ LifecycleNext /\ UNCHANGED <<lineageVars, serviceVars>>
             \/ part = "services" /\ ServiceNext /\ UNCHANGED <<lineageVars, lifecycleVars>>
       \/ /\ UNCHANGED <<subjectVars, recordVars, governanceVars, auditVars>>
          /\ \/ part = "breaches" /\ Breaching
             \/ part = "letters" /\ AnsweringLetters
       \/ /\ UNCHANGED <<subjectVars, recordVars, sloVars, auditVars>>
          /\ \/ part = "registers" /\ RegisterNext /\ UNCHANGED <<inventoryVars, oversightVars, breachVars>>
             \/ part = "inventory" /\ InventoryNext /\ UNCHANGED <<registerVars, oversightVars, breachVars>>
             \/ part = "oversight" /\ OversightNext /\ UNCHANGED <<registerVars, inventoryVars, breachVars>>
             \/ part = "breach" /\ BreachNext /\ UNCHANGED <<registerVars, inventoryVars, oversightVars>>
       \/ /\ UNCHANGED <<subjectVars, recordVars, sloVars, governanceVars>>
          /\ \/ part = "reader" /\ ReaderNext /\ UNCHANGED <<monthVars, discoveryVars, casbVars, prices>>
             \/ part = "month" /\ MonthNext /\ UNCHANGED <<readerVars, discoveryVars, casbVars, prices>>
             \/ part = "discovery" /\ DiscoveryNext /\ UNCHANGED <<readerVars, monthVars, casbVars, prices>>
             \/ part = "casb" /\ CasbNext /\ UNCHANGED <<readerVars, monthVars, discoveryVars, prices>>
             \/ part = "prices" /\ PriceNext /\ UNCHANGED <<readerVars, monthVars, discoveryVars, casbVars>>

OfficeSpec ==
    OfficeInit /\ [][OfficeNext]_<<subjectVars, recordVars, sloVars, governanceVars, auditVars, part>>
-----------------------------------------------------------------------------
\* Two overlapping evaluations are interchangeable.
Symmetry == Permutations(Evaluators)

\* One subject with two keys, the hold of its tenant; the router wires the
\* workflow with no service, the tests with all.
MCSubjectTenant == [s \in {"s1"} |-> "t1"]
MCHolds == {[tenant |-> "t1", record |-> "none"]}
MCKeys == {[subject |-> "s1", pattern |-> p, n |-> 1] : p \in 1 .. 2}
MCWirings == {{}, WorkflowServices}

\* The rows behind the lineage of an export; a limit below one and one above
\* the maximum.
MCOtherRows == <<"dsar1", "breach1">>
MCLimits == {0, 9}

MCTargets == <<[kind |-> "regulator", name |-> "r"], [kind |-> "tenant", name |-> "t1"],
               [kind |-> "tenant", name |-> "t2"]>>

\* Two hosts of one provider in both logs, one of another, one unknown.
LogEntry(s, h, i, b, at) == [source |-> s, host |-> h, ip |-> i, bytes |-> b, time |-> at]
MCEntries == {LogEntry("dns", "a1", "u", 0, 2), LogEntry("proxy", "a1", "v", 5, 1),
              LogEntry("proxy", "a2", "v", 3, 3), LogEntry("proxy", "a2", "u", 4, 1),
              LogEntry("dns", "x", "u", 0, 1), LogEntry("proxy", "b", "u", 8, 2)}
MCProviderOf == "a1" :> "pa" @@ "a2" :> "pa" @@ "b" :> "pb" @@ "x" :> "none"
MCPolicies == "chat" :> [class |-> "sanctioned", action |-> "none"] @@
              "draw" :> [class |-> "tolerated", action |-> "block"]
MCRules == <<"staff", "draw">> :> "allow"
MCRequests == {[app |-> a, groups |-> g] : a \in {"chat", "draw", "new"}, g \in {<<>>, <<"staff">>}}
=============================================================================
