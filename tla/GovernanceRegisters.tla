------------------------- MODULE GovernanceRegisters ------------------------
(***************************************************************************)
(* The registers of the governance package, in independent parts:          *)
(*   - suppliers, governance records with their review cycle, and risk     *)
(*     assessments, each row read and written back by a call;              *)
(*   - the model and provider inventories behind the forwarding guard, and *)
(*     the compliance report drawn from the registers;                     *)
(*   - oversight approvals and the kill switch, transparency counters,     *)
(*     incidents, and the notifications of a breach.                       *)
(***************************************************************************)
EXTENDS Naturals, Sequences, FiniteSets

CONSTANTS
    Clerks,         \* concurrent calls
    MaxCalls,       \* calls started, per part
    LastDay,
    Cycle,          \* review_cycle_days
    Triggers,       \* SUPPLIER_REVIEW_TRIGGERS
    Models, Providers,
    Approvals,
    Targets,        \* sequence of [kind, name]: the regulator, then the tenants' contacts
    Criticalities   \* of incidents: "critical", "important", "standard"

ASSUME TargetsAssumption == Targets \in Seq([kind : {"regulator", "tenant"}, name : STRING])

VARIABLES
    day,
    supplier,       \* [risk, triggers, next]
    record,         \* governance record: [officers, version, history, next]
    risk,           \* latest risk assessment: [score, flagged] or NoRisk
    raised,         \* triggers acknowledged and not reviewed since
    stale,          \* those of them overwritten by a call that had read the row before
    clerk,
    begun

registerVars == <<day, supplier, record, risk, raised, stale, clerk, begun>>

VARIABLES
    models,         \* model -> current_stage column
    providers,      \* provider -> status
    dispatched,     \* answers of the forwarding guard: [name, through]
    report          \* summary of the last compliance report

inventoryVars == <<models, providers, dispatched, report>>

VARIABLES
    approvals,      \* anonreq:oversight:approvals: id -> status
    killSwitch,
    decider,        \* approve and reject calls
    clash,          \* approvals two calls decided at once
    counted,        \* sessions behind the transparency counter, and its value
    decisions

oversightVars == <<approvals, killSwitch, decider, clash, counted, decisions>>

VARIABLES
    incidents,      \* sequence of [criticality, status, escalated, notified, audited]
    notifier,       \* a send_breach_notifications call
    rows,           \* breach_notifications of the call: set of target positions
    queue           \* regulator_notification_queue entries of the call

breachVars == <<incidents, notifier, rows, queue>>

Idle == [pc |-> "idle"]
NoRisk == [score |-> 0, flagged |-> FALSE]

\* create_supplier and create_governance_record.
NewSupplier == [risk |-> "low", triggers |-> {}, next |-> Cycle]
NewRecord == [officers |-> 0, version |-> 1, history |-> << >>, next |-> Cycle]

RegisterInit ==
    /\ day = 0
    /\ supplier = NewSupplier /\ record = NewRecord
    /\ risk = NoRisk /\ raised = {} /\ stale = {}
    /\ clerk = [c \in Clerks |-> Idle] /\ begun = 0

InventoryInit ==
    /\ models = << >> /\ providers = << >> /\ dispatched = {} /\ report = "none"

OversightInit ==
    /\ approvals = << >> /\ killSwitch = FALSE
    /\ decider = [c \in Clerks |-> Idle] /\ clash = {}
    /\ counted = [sessions |-> 0, value |-> 0] /\ decisions = 0

BreachInit == incidents = << >> /\ notifier = Idle /\ rows = {} /\ queue = 0

-----------------------------------------------------------------------------
(* Rows read and written back. *)

DayPasses ==
    /\ day < LastDay /\ day' = day + 1
    /\ UNCHANGED <<supplier, record, risk, raised, stale, clerk, begun>>

\* A call reads the row it is about; "trigger" and "complete" are about the
\* supplier, "officers" and "review" about the governance record.
RowOf(op) == IF op \in {"trigger", "complete"} THEN "supplier" ELSE "record"

ReadRow(c, op, trigger) ==
    /\ clerk[c].pc = "idle" /\ begun < MaxCalls /\ begun' = begun + 1
    /\ clerk' = [clerk EXCEPT ![c] = [pc |-> "write", op |-> op, trigger |-> trigger, at |-> day,
                    seen |-> IF RowOf(op) = "supplier" THEN supplier ELSE record,
                    knew |-> raised \ stale]]
    /\ UNCHANGED <<day, supplier, record, risk, raised, stale>>

TriggerRiskReEvaluation(c, t) == ReadRow(c, "trigger", t)
CompleteSupplierReview(c) == ReadRow(c, "complete", "none")
UpdateGovernanceRecord(c) == ReadRow(c, "officers", "none")
CompleteReview(c) == ReadRow(c, "review", "none")

\* Mutated Reevaluated: the new trigger replaces the earlier ones.
Reevaluated_Replaced(seen, trigger) ==
    [risk |-> "re_evaluation_required", triggers |-> {trigger}, next |-> supplier.next]

\* trigger_risk_re_evaluation writes the triggers it read and one more.
Reevaluated(seen, trigger) ==
    [risk |-> "re_evaluation_required", triggers |-> seen.triggers \union {trigger},
     next |-> supplier.next]

\* complete_review of a supplier.
Reviewed(at) == [risk |-> "low", triggers |-> {}, next |-> at + Cycle]

\* update_governance_record and complete_review of a record.
NextRecord(call) ==
    IF call.op = "officers"
    THEN LET v == Len(call.seen.history) + 1 IN
         [record EXCEPT !.officers = v, !.version = v, !.history = Append(call.seen.history, v)]
    ELSE [record EXCEPT !.next = call.at + Cycle]

\* An UPDATE that fails is rolled back and raised; a commit that took effect may
\* raise too, and its call is not acknowledged.
WriteRow(c) ==
    /\ clerk[c].pc = "write"
    /\ LET call == clerk[c]
           lost == raised \ call.knew
       IN
       \/ /\ supplier' = CASE call.op = "trigger" -> Reevaluated(call.seen, call.trigger)
                           [] call.op = "complete" -> Reviewed(call.at)
                           [] OTHER -> supplier
          /\ record' = IF RowOf(call.op) = "record" THEN NextRecord(call) ELSE record
          /\ \E heard \in IF call.op = "trigger" THEN {{}, {call.trigger}} ELSE {{}} :
               /\ raised' = IF call.op = "complete" THEN lost ELSE raised \union heard
               /\ stale' = IF RowOf(call.op) = "supplier" THEN (stale \union lost) \ heard ELSE stale
       \/ UNCHANGED <<supplier, record, raised, stale>>
    /\ clerk' = [clerk EXCEPT ![c] = Idle]
    /\ UNCHANGED <<day, risk, begun>>

\* compute_dimension_score and compute_overall_risk_score, times 25: an
\* integer mean of severity times likelihood.
DimensionScore(severity, likelihood) == severity * likelihood
OverallScore(d1, d2) == (d1 + d2) \div 2

CreateAssessment(s, l) ==
    /\ risk' = [score |-> OverallScore(DimensionScore(s, l), DimensionScore(s, s)), flagged |-> FALSE]
    /\ UNCHANGED <<day, supplier, record, raised, stale, clerk, begun>>

\* update_risk_assessment leaves reassessment_required as it is.
UpdateAssessment(s, l) ==
    /\ risk # NoRisk
    /\ risk' = [risk EXCEPT !.score = OverallScore(DimensionScore(s, l), DimensionScore(s, s))]
    /\ UNCHANGED <<day, supplier, record, raised, stale, clerk, begun>>

\* flag_reassessment, directly or from a change of a detection setting.
FlagReassessment ==
    /\ risk # NoRisk
    /\ risk' = [risk EXCEPT !.flagged = TRUE]
    /\ UNCHANGED <<day, supplier, record, raised, stale, clerk, begun>>

RegisterNext ==
    \/ DayPasses
    \/ \E c \in Clerks, t \in Triggers : TriggerRiskReEvaluation(c, t)
    \/ \E c \in Clerks : CompleteSupplierReview(c) \/ UpdateGovernanceRecord(c) \/ CompleteReview(c)
    \/ \E c \in Clerks : WriteRow(c)
    \/ \E s, l \in {1, 5} : CreateAssessment(s, l) \/ UpdateAssessment(s, l)
    \/ FlagReassessment

-----------------------------------------------------------------------------
(* Inventories, forwarding guard and compliance report. *)

\* create_model_record copies the stage of a lifecycle that is at its start;
\* nothing writes the column again.
CreateModel(m) ==
    /\ m \notin DOMAIN models
    /\ models' = [x \in DOMAIN models \union {m} |-> IF x = m THEN "DESIGN" ELSE models[x]]
    /\ UNCHANGED <<providers, dispatched, report>>

CreateProvider(p) ==
    /\ p \notin DOMAIN providers
    /\ providers' = [x \in DOMAIN providers \union {p} |-> IF x = p THEN "active" ELSE providers[x]]
    /\ UNCHANGED <<models, dispatched, report>>

SetProvider(p, status) ==
    /\ p \in DOMAIN providers
    /\ providers' = [providers EXCEPT ![p] = status]
    /\ UNCHANGED <<models, dispatched, report>>

IsModelApproved(m) == m \in DOMAIN models /\ models[m] \in {"APPROVED", "PRODUCTION"}
IsProviderActive(p) == p \in DOMAIN providers /\ providers[p] = "active"

\* check_model_approval and check_provider_active: let through, or refused.
Guard(m, p) ==
    /\ dispatched' = dispatched \union
          {[name |-> m, through |-> IsModelApproved(m)], [name |-> p, through |-> IsProviderActive(p)]}
    /\ UNCHANGED <<models, providers, report>>

\* _evaluate_section: what the sources of a section show.  A source the database
\* cannot answer for counts as one record; some sources answer without one.
SectionStatus(available) ==
    IF available = {TRUE} THEN "compliant" ELSE IF TRUE \in available THEN "partial" ELSE "non_compliant"

\* generate_compliance_report over two sections.
GenerateReport ==
    /\ \E dbUp, anyIncident \in BOOLEAN :
         LET statuses == {SectionStatus({anyIncident}),
                          SectionStatus({~dbUp \/ providers # << >>, TRUE})}
         IN  report' = SectionStatus({s = "compliant" : s \in statuses})
    /\ UNCHANGED <<models, providers, dispatched>>

InventoryNext ==
    \/ \E m \in Models : CreateModel(m)
    \/ \E m \in Models, p \in Providers : Guard(m, p)
    \/ \E p \in Providers : CreateProvider(p) \/ SetProvider(p, "suspended") \/ SetProvider(p, "active")
    \/ GenerateReport

-----------------------------------------------------------------------------
(* Oversight. *)

CreateApproval(a) ==
    /\ a \notin DOMAIN approvals
    /\ approvals' = [x \in DOMAIN approvals \union {a} |-> IF x = a THEN "pending" ELSE approvals[x]]
    /\ UNCHANGED <<killSwitch, decider, clash, counted, decisions>>

\* Mutated MayDecide: a decided request is decided again.
MayDecide_Any(a) == a \in DOMAIN approvals

MayDecide(a) == a \in DOMAIN approvals /\ approvals[a] = "pending"

\* approve_request and reject_request: the status is checked on what was read.
ReadApproval(c, a, verdict) ==
    /\ decider[c].pc = "idle" /\ decisions < MaxCalls /\ decisions' = decisions + 1
    /\ MayDecide(a)
    /\ decider' = [decider EXCEPT ![c] = [pc |-> "write", id |-> a, verdict |-> verdict]]
    /\ clash' = clash \union ({a} \intersect {decider[x].id : x \in {y \in Clerks : decider[y].pc = "write"}})
    /\ UNCHANGED <<approvals, killSwitch, counted>>

WriteApproval(c) ==
    /\ decider[c].pc = "write"
    /\ approvals' = [x \in DOMAIN approvals \union {decider[c].id} |->
                        IF x = decider[c].id THEN decider[c].verdict ELSE approvals[x]]
    /\ decider' = [decider EXCEPT ![c] = Idle]
    /\ UNCHANGED <<killSwitch, clash, counted, decisions>>

\* The hash expires a day after the last request was created, all at once.
ApprovalsExpire ==
    /\ approvals # << >> /\ approvals' = << >>
    /\ UNCHANGED <<killSwitch, decider, clash, counted, decisions>>

SetKillSwitch(on) ==
    /\ killSwitch' = on
    /\ UNCHANGED <<approvals, decider, clash, counted, decisions>>

\* record_session of the transparency service: the counter is read, then set.
CountSession(c) ==
    /\ decider[c].pc = "idle" /\ decisions < MaxCalls /\ decisions' = decisions + 1
    /\ decider' = [decider EXCEPT ![c] = [pc |-> "count", read |-> counted.value]]
    /\ UNCHANGED <<approvals, killSwitch, clash, counted>>

StoreCount(c) ==
    /\ decider[c].pc = "count"
    /\ counted' = [sessions |-> counted.sessions + 1, value |-> decider[c].read + 1]
    /\ decider' = [decider EXCEPT ![c] = Idle]
    /\ UNCHANGED <<approvals, killSwitch, clash, decisions>>

OversightNext ==
    \/ \E a \in Approvals : CreateApproval(a)
    \/ \E c \in Clerks, a \in Approvals, v \in {"approved", "rejected"} : ReadApproval(c, a, v)
    \/ \E c \in Clerks : WriteApproval(c) \/ CountSession(c) \/ StoreCount(c)
    \/ ApprovalsExpire
    \/ \E on \in BOOLEAN : SetKillSwitch(on)

-----------------------------------------------------------------------------
(* Incidents and breach notifications. *)

\* create_incident and escalate_if_needed: a failing notification raises after
\* the incident was marked as escalated and before it is audited.
CreateIncident(crit) ==
    /\ Len(incidents) < MaxCalls
    /\ \E heard \in IF crit = "critical" THEN BOOLEAN ELSE {TRUE} :
         incidents' = Append(incidents,
            [criticality |-> crit, status |-> "open", escalated |-> crit = "critical",
             notified |-> crit = "critical" /\ heard,
             audited |-> heard /\ crit \in {"critical", "important"}])
    /\ UNCHANGED <<notifier, rows, queue>>

\* auto_escalate_on_slo_breach: every breach of an objective is critical.
EscalateSloBreach == CreateIncident("critical")

ResolveIncident(i) ==
    /\ incidents' = [incidents EXCEPT ![i].status = "resolved"]
    /\ UNCHANGED <<notifier, rows, queue>>

\* send_breach_notifications works through the regulator and the contacts; a
\* framework without a template fails every rendering.
BeginNotify(hasTemplate) ==
    /\ notifier.pc \in {"idle", "done"}
    /\ notifier' = [pc |-> "send", next |-> 1, counted |-> {}, failed |-> {}, queued |-> FALSE,
                    template |-> hasTemplate, broken |-> FALSE]
    /\ rows' = {} /\ queue' = 0
    /\ UNCHANGED incidents

IsRegulator(i) == Targets[i].kind = "regulator"

\* What follows a notice, stored or not.
AfterNotice == IF IsRegulator(notifier.next) THEN "queue" ELSE "send"

\* The INSERT of _send_notification.  A statement that fails leaves the session
\* in an aborted transaction, which nothing here rolls back: the later ones fail
\* too.
SendNotification ==
    /\ notifier.pc = "send" /\ notifier.next <= Len(Targets)
    /\ \/ /\ notifier.template /\ ~notifier.broken
          /\ notifier' = [notifier EXCEPT !.pc = "commit"]
       \/ /\ notifier.template
          /\ notifier' = [notifier EXCEPT !.failed = @ \union {notifier.next}, !.broken = TRUE,
                            !.next = @ + 1, !.pc = AfterNotice]
       \/ /\ ~notifier.template
          /\ notifier' = [notifier EXCEPT !.next = @ + 1, !.pc = AfterNotice]
    /\ UNCHANGED <<incidents, rows, queue>>

\* Mutated Counts: a notice counts whether or not its commit raised.
Counts_Always(raises) == TRUE

\* _send_notification returns True when its commit returned.
Counts(raises) == ~raises

\* The commit of a notice takes effect or not, and may raise in either case.
CommitNotification ==
    /\ notifier.pc = "commit"
    /\ \E raises, stored \in BOOLEAN :
         /\ raises \/ stored
         /\ rows' = IF stored THEN rows \union {notifier.next} ELSE rows
         /\ \E broken \in {raises, FALSE} :
              notifier' = [notifier EXCEPT
                !.counted = IF Counts(raises) THEN @ \union {notifier.next} ELSE @,
                !.failed = IF raises THEN @ \union {notifier.next} ELSE @,
                !.queued = @ \/ (IsRegulator(notifier.next) /\ Counts(raises)),
                !.broken = broken, !.next = @ + 1, !.pc = AfterNotice]
    /\ UNCHANGED <<incidents, queue>>

\* _queue_regulator_notification follows whether or not the notice was stored.
QueueRegulator ==
    /\ notifier.pc = "queue"
    /\ \E ok \in BOOLEAN :
         /\ queue' = IF ok /\ ~notifier.broken THEN queue + 1 ELSE queue
         /\ notifier' = [notifier EXCEPT !.pc = "send", !.broken = @ \/ ~ok,
                            !.failed = IF ok THEN @ ELSE @ \union {notifier.next - 1}]
    /\ UNCHANGED <<incidents, rows>>

EndNotify ==
    /\ notifier.pc = "send" /\ notifier.next > Len(Targets)
    /\ notifier' = [notifier EXCEPT !.pc = "done"]
    /\ UNCHANGED <<incidents, rows, queue>>

BreachNext ==
    \/ \E crit \in Criticalities : CreateIncident(crit)
    \/ EscalateSloBreach
    \/ \E i \in DOMAIN incidents : ResolveIncident(i)
    \/ \E t \in BOOLEAN : BeginNotify(t)
    \/ SendNotification \/ CommitNotification \/ QueueRegulator \/ EndNotify

-----------------------------------------------------------------------------
(* The registers side by side. *)

governanceVars == <<registerVars, inventoryVars, oversightVars, breachVars>>

GovernanceInit == RegisterInit /\ InventoryInit /\ OversightInit /\ BreachInit

GovernanceNext ==
    \/ RegisterNext /\ UNCHANGED <<inventoryVars, oversightVars, breachVars>>
    \/ InventoryNext /\ UNCHANGED <<registerVars, oversightVars, breachVars>>
    \/ OversightNext /\ UNCHANGED <<registerVars, inventoryVars, breachVars>>
    \/ BreachNext /\ UNCHANGED <<registerVars, inventoryVars, oversightVars>>

GovernanceSpec == GovernanceInit /\ [][GovernanceNext]_governanceVars

-----------------------------------------------------------------------------
\* A trigger acknowledged and not reviewed since is on the supplier's row and
\* asks for a re-evaluation, however calls overlap, but for the triggers that a
\* call wrote over which had read the row before they were raised.
TriggersKept ==
    /\ raised \ stale \subseteq supplier.triggers
    /\ raised \ stale # {} => supplier.risk # "low"

\* A decided approval keeps its decision until the hash expires, unless two
\* operators had read it as pending together.
OversightStands ==
    [][\A a \in DOMAIN approvals \intersect DOMAIN approvals' :
        approvals[a] # "pending" /\ a \notin clash => approvals'[a] = approvals[a]]_oversightVars

\* A breach call counts the notices it stored, but for one whose commit raised
\* after it took effect, and a target it leaves without a notice, of a framework
\* with a template, had a statement of its own or of an earlier target fail.
NoticesAccounted ==
    notifier.pc = "done" =>
        /\ notifier.counted \subseteq rows /\ rows \ notifier.counted \subseteq notifier.failed
        /\ notifier.template =>
              \A i \in 1 .. Len(Targets) : i \notin rows => \E k \in notifier.failed : k <= i

\* Triggers and notices are lost in no other way than those.
RegistersAgree ==
    /\ TriggersKept
    /\ NoticesAccounted

\* Every acknowledged trigger is on the row until a review.  It fails: a call
\* writes the triggers it read and one more.
EveryTriggerKept == raised \subseteq supplier.triggers

\* A call counts every notice it stored.  It fails: a commit raises after it
\* took effect.
EveryNoticeCounted == notifier.pc = "done" => rows = notifier.counted

\* A failing notification leaves the others alone, as the separate try blocks
\* intend.  It fails: the aborted transaction is never rolled back.
FailureIsolated ==
    notifier.pc = "done" /\ notifier.template => Cardinality(rows) >= Len(Targets) - 1

\* A report of regulator_queued has its queue entry.  It fails: the flag is set
\* from the notification, before the entry is inserted.
QueuedMeansQueued == notifier.pc = "done" /\ notifier.queued => queue > 0

\* A reassessment clears its flag.  It fails: update_risk_assessment does not.
FlagCleared == [][risk # NoRisk /\ risk'.score # risk.score => ~risk'.flagged]_registerVars

\* A compliant report has records behind it.  It fails when the database is down.
EvidenceBehindReport == report = "compliant" => providers # << >>

\* The transparency counter counts every session.  It fails when two overlap.
SessionsCounted == counted.value = counted.sessions
=============================================================================
