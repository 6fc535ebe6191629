---------------------------- MODULE SloBreaches -----------------------------
(***************************************************************************)
(* Service levels and what follows when one is missed: the counters of the *)
(* SLO engine, the breach detector with its cooldown, the webhook tasks    *)
(* with their retries and dead letter queue, the incidents of the DORA     *)
(* manager, and the breach notifier and its templates.                     *)
(*                                                                         *)
(* One tenant and one ratio objective.  A fixed window keeps two counters, *)
(* a rolling one two sets of stamped events.  Each redis command is a step *)
(* where another call could see what is between it and the next.           *)
(***************************************************************************)
EXTENDS Naturals, Sequences, FiniteSets, SequencesExt, Lists

CONSTANTS
    Recorders,      \* calls of _record_event
    Evaluators,     \* calls of evaluate
    MaxEvents,      \* events recorded
    MaxBreaches,    \* breaches detected
    MaxTime,
    Span,           \* length of a day and of the rolling window
    Cooldown,       \* breach_cooldown_seconds
    RetryMax,       \* retry_max
    DlqMax,         \* dlq_max_entries
    Webhook         \* whether a webhook URL is configured

ASSUME SloAssumption == Cooldown \in Nat /\ RetryMax \in Nat \ {0} /\ DlqMax \in Nat \ {0}

Windows == {"fixed", "rolling"}

VARIABLES
    now,
    fixed,          \* day -> [num, den]
    rolling,        \* [num, den]: sets of [id, at]
    recorder,       \* what each recorder is doing
    events,         \* events recorded so far
    lastBreach,     \* the :last_breach key of a window, 0 when absent
    evaluator,
    breaches,       \* breaches stamped: sequence of [window, at, seen], the last
                    \* the breaches there were when the cooldown was looked at
    task,           \* breach -> webhook task: "unmade", "send" with its attempt, "dlq", "trim", "done"
    dlq,            \* breach_dlq: newest first
    fate,           \* breach -> "open", "delivered", "acked", "trimmed", "dropped"
    retry           \* a retry_dlq call: the entries it still has to try

sloVars == <<now, fixed, rolling, recorder, events, lastBreach, evaluator, breaches,
             task, dlq, fate, retry>>

IdleEvaluator == [pc |-> "idle"]
Day(t) == t \div Span
Zero == [num |-> 0, den |-> 0]

SloInit ==
    /\ now = 1
    /\ fixed = [d \in 0 .. Day(MaxTime) |-> Zero]
    /\ rolling = [num |-> {}, den |-> {}]
    /\ recorder = [r \in Recorders |-> IdleEvaluator] /\ events = 0
    /\ lastBreach = [w \in Windows |-> 0]
    /\ evaluator = [e \in Evaluators |-> IdleEvaluator]
    /\ breaches = << >>
    /\ task = << >> /\ dlq = << >> /\ fate = << >>
    /\ retry = << >>

Pass ==
    /\ now < MaxTime /\ now' = now + 1
    /\ UNCHANGED <<fixed, rolling, recorder, events, lastBreach, evaluator, breaches,
                   task, dlq, fate, retry>>

-----------------------------------------------------------------------------
(* The SLO engine. *)

\* The steps of _record_event, the numerators only for a success.
NextWrite(pc, ok) ==
    CASE pc = "den" -> IF ok THEN "num" ELSE "zden"
      [] pc = "num" -> "zden"
      [] pc = "zden" -> IF ok THEN "znum" ELSE "evict"
      [] pc = "znum" -> "evict"

\* The stamp and the day key are taken once, at the start.
RecordEvent(r, ok) ==
    /\ recorder[r].pc = "idle" /\ events < MaxEvents /\ events' = events + 1
    /\ recorder' = [recorder EXCEPT ![r] =
            [pc |-> "den", ok |-> ok, id |-> events + 1, at |-> now]]
    /\ UNCHANGED <<now, fixed, rolling, lastBreach, evaluator, breaches, task, dlq, fate, retry>>

InWindow(S) == {m \in S : m.at + Span > now}

WriteCounter(r) ==
    /\ recorder[r].pc \in {"den", "num", "zden", "znum"}
    /\ LET c == recorder[r]
           m == [id |-> c.id, at |-> c.at]
       IN  /\ fixed' = CASE c.pc = "den" -> [fixed EXCEPT ![Day(c.at)].den = @ + 1]
                         [] c.pc = "num" -> [fixed EXCEPT ![Day(c.at)].num = @ + 1]
                         [] OTHER -> fixed
           /\ rolling' = CASE c.pc = "zden" -> [rolling EXCEPT !.den = @ \union {m}]
                           [] c.pc = "znum" -> [rolling EXCEPT !.num = @ \union {m}]
                           [] OTHER -> rolling
           /\ recorder' = [recorder EXCEPT ![r].pc = NextWrite(c.pc, c.ok)]
    /\ UNCHANGED <<now, events, lastBreach, evaluator, breaches, task, dlq,
                   fate, retry>>

Evict(r) ==
    /\ recorder[r].pc = "evict"
    /\ rolling' = [num |-> InWindow(rolling.num), den |-> InWindow(rolling.den)]
    /\ recorder' = [recorder EXCEPT ![r] = IdleEvaluator]
    /\ UNCHANGED <<now, fixed, events, lastBreach, evaluator, breaches, task,
                   dlq, fate, retry>>

\* compute_compliance for a target of 100 percent; no events count as compliant.
Compliant(num, den) == den = 0 \/ num >= den

NonCompliant(r, f) ==
    {w \in Windows :
        IF w = "fixed" THEN ~Compliant(f.num, f.den)
        ELSE ~Compliant(Cardinality(r.num), Cardinality(r.den))}

-----------------------------------------------------------------------------
(* The breach detector. *)

\* evaluate: compliance is computed first, then each window is handled in turn.
Evaluate(e) ==
    /\ evaluator[e].pc = "idle"
    /\ LET r == [num |-> InWindow(rolling.num), den |-> InWindow(rolling.den)]
           bad == NonCompliant(r, fixed[Day(now)])
       IN  /\ rolling' = r
           /\ bad # {}
           /\ evaluator' = [evaluator EXCEPT ![e] = [pc |-> "check", left |-> bad, at |-> now]]
    /\ UNCHANGED <<now, fixed, recorder, events, lastBreach, breaches, task, dlq, fate, retry>>

\* Mutated InCooldown: the stamp of the last breach is not looked at.
InCooldown_None(w, at) == FALSE

InCooldown(w, at) == lastBreach[w] # 0 /\ at - lastBreach[w] < Cooldown

Leave(e, w) ==
    IF evaluator[e].left = {w} THEN IdleEvaluator
    ELSE [pc |-> "check", left |-> evaluator[e].left \ {w}, at |-> evaluator[e].at]

CheckCooldown(e) ==
    /\ evaluator[e].pc = "check"
    /\ \E w \in evaluator[e].left :
         evaluator' = [evaluator EXCEPT ![e] =
            IF InCooldown(w, evaluator[e].at) THEN Leave(e, w)
            ELSE [pc |-> "stamp", left |-> evaluator[e].left, at |-> evaluator[e].at,
                  window |-> w, seen |-> Len(breaches)]]
    /\ UNCHANGED <<now, fixed, rolling, recorder, events, lastBreach, breaches,
                   task, dlq, fate, retry>>

\* A task sends attempt n, or is at a later step.
Attempt(n) == [at |-> "send", n |-> n]
TaskAt(name) == [at |-> name, n |-> RetryMax]

\* The stamp is written; a SET that takes effect and raises ends the evaluation
\* with its stamp in place and nothing to follow it.
StampBreach(e) ==
    LET v == evaluator[e] IN
    /\ v.pc = "stamp" /\ Len(breaches) < MaxBreaches
    /\ lastBreach' = [lastBreach EXCEPT ![v.window] = v.at]
    /\ breaches' = Append(breaches, [window |-> v.window, at |-> v.at, seen |-> v.seen])
    /\ \/ /\ evaluator' = [evaluator EXCEPT ![e] = [pc |-> "audit", left |-> v.left,
                              at |-> v.at, window |-> v.window, breach |-> Len(breaches) + 1]]
          /\ task' = Append(task, TaskAt("unmade"))
          /\ fate' = Append(fate, "open")
       \/ /\ evaluator' = [evaluator EXCEPT ![e] = IdleEvaluator]
          /\ task' = Append(task, TaskAt("done"))
          /\ fate' = Append(fate, "dropped")
    /\ UNCHANGED <<now, fixed, rolling, recorder, events, dlq, retry>>

\* The audit event is stored, or its error logged, and the task is made.
FireWebhook(e) ==
    /\ evaluator[e].pc = "audit"
    /\ task' = [task EXCEPT ![evaluator[e].breach] = IF Webhook THEN Attempt(1) ELSE TaskAt("dlq")]
    /\ evaluator' = [evaluator EXCEPT ![e] = Leave(e, evaluator[e].window)]
    /\ UNCHANGED <<now, fixed, rolling, recorder, events, lastBreach, breaches, dlq, fate, retry>>

\* An evaluation that is cancelled, or whose redis command raises.
EvaluateEnds(e) ==
    /\ evaluator[e].pc # "idle"
    /\ evaluator' = [evaluator EXCEPT ![e] = IdleEvaluator]
    /\ IF evaluator[e].pc = "audit"
       THEN /\ task' = [task EXCEPT ![evaluator[e].breach] = TaskAt("done")]
            /\ fate' = [fate EXCEPT ![evaluator[e].breach] = "dropped"]
       ELSE UNCHANGED <<task, fate>>
    /\ UNCHANGED <<now, fixed, rolling, recorder, events, lastBreach, breaches, dlq, retry>>

-----------------------------------------------------------------------------
(* The webhook tasks and the dead letter queue. *)

Sending(b) == task[b].at = "send"

Deliver(b) ==
    /\ Sending(b)
    /\ task' = [task EXCEPT ![b] = TaskAt("done")]
    /\ fate' = [fate EXCEPT ![b] = "delivered"]
    /\ UNCHANGED <<now, fixed, rolling, recorder, events, lastBreach, evaluator, breaches,
                   dlq, retry>>

\* Mutated AfterFailure: the last attempt gives up.
AfterFailure_Dropped(b) ==
    IF task[b].n < RetryMax THEN Attempt(task[b].n + 1) ELSE TaskAt("done")

AfterFailure(b) ==
    IF task[b].n < RetryMax THEN Attempt(task[b].n + 1) ELSE TaskAt("dlq")

DeliveryFails(b) ==
    /\ Sending(b)
    /\ task' = [task EXCEPT ![b] = AfterFailure(b)]
    /\ UNCHANGED <<now, fixed, rolling, recorder, events, lastBreach, evaluator, breaches,
                   dlq, fate, retry>>

\* _deliver_to_dlq: push, then trim; a push that takes effect and raises leaves
\* the queue untrimmed.
PushDlq(b) ==
    /\ task[b].at = "dlq"
    /\ dlq' = <<b>> \o dlq
    /\ task' \in {[task EXCEPT ![b] = TaskAt("trim")], [task EXCEPT ![b] = TaskAt("done")]}
    /\ UNCHANGED <<now, fixed, rolling, recorder, events, lastBreach, evaluator, breaches,
                   fate, retry>>

\* A task that is cancelled, or whose redis command raises, ends where it is.
TaskEnds(b) ==
    /\ task[b].at \in {"send", "dlq", "trim"}
    /\ task' = [task EXCEPT ![b] = TaskAt("done")]
    /\ fate' = [fate EXCEPT ![b] = IF task[b].at = "trim" THEN @ ELSE "dropped"]
    /\ UNCHANGED <<now, fixed, rolling, recorder, events, lastBreach, evaluator, breaches,
                   dlq, retry>>

TrimDlq(b) ==
    /\ task[b].at = "trim"
    /\ LET n == IF Len(dlq) < DlqMax THEN Len(dlq) ELSE DlqMax
           cut == {dlq[i] : i \in n + 1 .. Len(dlq)}
       IN  /\ dlq' = SubSeq(dlq, 1, n)
           /\ fate' = [x \in DOMAIN fate |-> IF x \in cut /\ fate[x] = "open" THEN "trimmed"
                                            ELSE fate[x]]
    /\ task' = [task EXCEPT ![b] = TaskAt("done")]
    /\ UNCHANGED <<now, fixed, rolling, recorder, events, lastBreach, evaluator, breaches,
                   retry>>

Without(q, b) == Kept(q, ToSet(q) \ {b})

AckDlqEntry(b) ==
    /\ \E i \in DOMAIN dlq : dlq[i] = b
    /\ dlq' = Without(dlq, b)
    /\ fate' = [fate EXCEPT ![b] = IF @ = "open" THEN "acked" ELSE @]
    /\ UNCHANGED <<now, fixed, rolling, recorder, events, lastBreach, evaluator, breaches,
                   task, retry>>

\* retry_dlq works through the entries it saw at the start.
RetryDlq ==
    /\ retry = << >> /\ dlq # << >>
    /\ retry' = dlq
    /\ UNCHANGED <<now, fixed, rolling, recorder, events, lastBreach, evaluator, breaches,
                   task, dlq, fate>>

RetryOne ==
    /\ retry # << >>
    /\ \/ /\ Webhook
          /\ dlq' \in {Without(dlq, Head(retry)), dlq}     \* LREM may raise
          /\ fate' = [fate EXCEPT ![Head(retry)] = "delivered"]
       \/ UNCHANGED <<dlq, fate>>
    /\ retry' = Tail(retry)
    /\ UNCHANGED <<now, fixed, rolling, recorder, events, lastBreach, evaluator, breaches,
                   task>>

Recording(r) == (\E ok \in BOOLEAN : RecordEvent(r, ok)) \/ WriteCounter(r) \/ Evict(r)
Evaluating(e) == Evaluate(e) \/ CheckCooldown(e) \/ StampBreach(e) \/ FireWebhook(e) \/ EvaluateEnds(e)
Sends(b) == Deliver(b) \/ DeliveryFails(b) \/ PushDlq(b) \/ TrimDlq(b) \/ TaskEnds(b)

SloNext ==
    \/ Pass
    \/ \E r \in Recorders : Recording(r)
    \/ \E e \in Evaluators : Evaluating(e)
    \/ \E b \in DOMAIN breaches : Sends(b) \/ AckDlqEntry(b)
    \/ RetryDlq \/ RetryOne

SloSpec == SloInit /\ [][SloNext]_sloVars

-----------------------------------------------------------------------------
\* The evaluation that stamped the breach has still to make its task.
Unmade(b) == \E e \in Evaluators : evaluator[e].pc = "audit" /\ evaluator[e].breach = b

\* A stamped breach is about to get its task, is being sent, waits in the dead
\* letter queue, was delivered or acknowledged, or fell out of a full queue; with
\* acknowledgements, retries and trims overlapping the tasks it has no other end
\* but one: the evaluation before its task, or the task before its push, was
\* cancelled or ended by an error of redis.
BreachKept ==
    \A b \in DOMAIN breaches :
        fate[b] = "open" => \/ Unmade(b) \/ Sending(b) \/ task[b].at = "dlq"
                            \/ \E i \in DOMAIN dlq : dlq[i] = b

\* Breach i is the last of window w among the first n of them.
LastOf(all, i, n, w) ==
    /\ i \in 1 .. n /\ all[i].window = w
    /\ \A k \in i + 1 .. n : all[k].window # w

\* However evaluations overlap, none reports a window within the cooldown of the
\* last breach stamped before it looked: only an evaluation that looked before
\* the stamp was there can report the window again.
CooldownHolds ==
    \A j \in DOMAIN breaches : \A i \in DOMAIN breaches :
        LastOf(breaches, i, breaches[j].seen, breaches[j].window)
            => breaches[j].at - breaches[i].at >= Cooldown

\* A breach leaves no other way than those, and is not reported again by an
\* evaluation that could know of it.
BreachesReported ==
    /\ BreachKept
    /\ CooldownHolds

\* Two breaches of a window are a cooldown apart.  It fails: two evaluations
\* look before either has written the stamp.
BreachesApart ==
    \A i, j \in DOMAIN breaches :
        i < j /\ breaches[i].window = breaches[j].window => breaches[j].at - breaches[i].at >= Cooldown

\* A breach whose stamp starts a cooldown is reported.  It fails: the
\* evaluation or the task ends before the report, and the stamp stays.
StampIsReported == \A b \in DOMAIN breaches : fate[b] # "dropped"

\* Only failures make a breach.  It fails: an evaluation between the two
\* increments of a success sees an event without its success.
FailuresMakeBreaches ==
    (\A r \in Recorders : recorder[r].pc # "idle" => recorder[r].ok) /\
    (\A d \in DOMAIN fixed : fixed[d].num +
        Cardinality({r \in Recorders : recorder[r].pc = "num"}) >= fixed[d].den)
    => breaches = << >>

\* The queue never holds more than dlq_max_entries.  It fails between LPUSH
\* and LTRIM.
DlqBounded == Len(dlq) <= DlqMax
=============================================================================
