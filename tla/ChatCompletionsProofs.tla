----------------------- MODULE ChatCompletionsProofs ------------------------
(***************************************************************************)
(* Proofs about ChatCompletions, for any set of requests, any wiring of    *)
(* the optional services and any number of cancellations.                  *)
(***************************************************************************)
EXTENDS ChatCompletions, PipelineStagesProofs

(***************************************************************************)
(* The stages of this pipeline.                                            *)
(***************************************************************************)

\* The list names the stages in their order.
LEMMA OutcomesAt ==
    \A i \in 1..12, c \in Contexts :
        StageOutcomes(StageList[i], c) = StageAt(i, c, Configured)
BY DEF StageOutcomes, StageList, StageAt

\* Every stage maps contexts to contexts.
LEMMA StageTypes ==
    ASSUME NEW c \in Contexts, NEW i \in 1..12,
           NEW d \in StageOutcomes(StageList[i], c)
    PROVE  d \in Contexts
BY OutcomesAt, StageAtTypes

\* Which stages touch the fields that decide whether a body may leave.
LEMMA StageEffects ==
    ASSUME NEW c \in Contexts, NEW i \in 1..12,
           NEW d \in StageOutcomes(StageList[i], c)
    PROVE  /\ i \notin {1, 3, 8} => SameButErrors(c, d)
           /\ i = 1 => /\ ~HasErrors(d) => d.action = "ANONYMIZE"
                       /\ d.detections = c.detections
                       /\ d.transformed = c.transformed
                       /\ d.token_mappings = c.token_mappings
           /\ i = 3 /\ c.action = "ANONYMIZE" =>
                       /\ ~HasErrors(d) => d.detections # "none"
                       /\ d.action = c.action
                       /\ d.transformed = c.transformed
                       /\ d.token_mappings = c.token_mappings
           /\ i = 8 /\ c.action = "ANONYMIZE" /\ c.detections # "none" =>
                       \/ HasErrors(d)
                       \/ /\ d.action = c.action
                          /\ d.detections = c.detections
                          /\ d.errors = c.errors
                          /\ \/ /\ c.detections = "empty"
                                /\ d.transformed = "copy"
                                /\ d.token_mappings = "empty"
                             \/ /\ c.detections = "irreversible"
                                /\ d.transformed = "tokenized"
                                /\ d.token_mappings = "empty"
                             \/ /\ c.detections = "reversible"
                                /\ d.transformed = "tokenized"
                                /\ d.token_mappings = c.token_mappings
           /\ i = 10 => HasErrors(d)
BY OutcomesAt, StageAtEffects

-----------------------------------------------------------------------------
(***************************************************************************)
(* Type correctness.                                                       *)
(***************************************************************************)

\* The part of the type invariant that the helpers of the manager assign.
TaskOK ==
    /\ pc \in [Requests -> Active \cup {"idle", "returned", "crashed"}]
    /\ stage \in [Requests -> 1..13]
    /\ ctx \in [Requests -> Contexts]
    /\ surfaced \in [Requests -> Seq(Errors)]
    /\ inFinally \in [Requests -> BOOLEAN]
    /\ pending \in [Requests -> BOOLEAN]
    /\ raising \in [Requests -> BOOLEAN]
    /\ attempt \in [Requests -> 0..(AuditAttempts - 1)]
    /\ response \in [Requests -> Statuses \cup {Open, Cancelled, 200}]

\* The rest of it.
ServicesOK ==
    /\ cancels \in [Requests -> 0..MaxCancels]
    /\ cache \in [Requests -> {"absent", "present", "kept", "deleted", "expired"}]
    /\ provider \in [Requests -> Bodies]
    /\ audit \in [Requests -> Nat]
    /\ inflight \in [Requests -> BOOLEAN]

\* The list of stages has thirteen entries and ends with Cleanup.
LEMMA StageListFacts ==
    /\ Len(StageList) = 13
    /\ \A i \in 1..13 : StageList[i] = "Cleanup" <=> i = 13
    /\ \A i \in 1..13 : StageList[i] = "Tokenization" <=> i = 8
    /\ \A i \in 1..13 : StageList[i] = "Provider" <=> i = 10
BY DEF StageList

\* The type invariant is that of the tasks and that of the services.
LEMMA TypeSplit == TypeOK <=> TaskOK /\ ServicesOK
BY StageListFacts DEF TypeOK, TaskOK, ServicesOK

\* The statuses the route handler answers with.  A run with errors is never
\* answered with 200.
LEMMA AnswerTypes ==
    ASSUME NEW c \in Contexts, NEW s \in Answers(c)
    PROVE  /\ s \in Statuses \cup {200}
           /\ HasErrors(c) => s \in Statuses /\ s # 200
<1>1. c.errors \in Seq(Errors)
  BY DEF Contexts
<1>2. CASE HasErrors(c)
  <2>1. c.errors[Len(c.errors)] \in Errors
    BY <1>1, <1>2, EmptySeq, ElementOfSeq, LenProperties DEF HasErrors
  <2>2. s = StatusOf(c.errors[Len(c.errors)])
    BY <1>2 DEF Answers, RaiseForPipelineErrors
  <2> QED BY <1>2, <2>1, <2>2 DEF StatusOf, Errors, Statuses
<1>3. CASE ~HasErrors(c)
  BY <1>3 DEF Answers, Statuses
<1> QED BY <1>2, <1>3

\* The manager's finally block is entered with the task in its types.
LEMMA EnterFinallyType ==
    ASSUME TaskOK, NEW r \in Requests, NEW c \in Contexts, NEW b \in BOOLEAN,
           EnterFinally(r, c, b)
    PROVE  TaskOK'
<1>1. c.errors \in Seq(Errors) /\ CleanupEntry(c) \in Active
  BY DEF Contexts, CleanupEntry, Active
<1>2. 0 \in 0..(AuditAttempts - 1)
  BY ChatAssumption
<1> QED BY <1>1, <1>2 DEF TaskOK, EnterFinally

\* The main loop moves to the next stage within its bounds.
LEMMA AdvanceType ==
    ASSUME TaskOK, NEW r \in Requests, NEW c \in Contexts, stage[r] < 13,
           Advance(r, c)
    PROVE  TaskOK'
<1>1. CleanupEntry(c) \in Active /\ "stage" \in Active
  BY DEF CleanupEntry, Active
<1>2. stage[r] \in 1..13
  BY DEF TaskOK
<1>3. stage[r] + 1 \in 1..13
  BY <1>2
<1> QED BY <1>1, <1>3 DEF TaskOK, Advance

\* What the manager does after a stage keeps the task in its types.
LEMMA AfterStageType ==
    ASSUME TaskOK, NEW r \in Requests, NEW c \in Contexts, stage[r] < 13,
           AfterStage(r, c)
    PROVE  TaskOK' /\ UNCHANGED cancels
<1>1. CASE HasErrors(c)
  BY <1>1, EnterFinallyType DEF AfterStage
<1>2. CASE ~HasErrors(c)
  <2>1. Advance(r, c)
    BY <1>2 DEF AfterStage
  <2>2. UNCHANGED cancels
    BY <2>1 DEF Advance
  <2> QED BY <2>1, <2>2, AdvanceType
<1> QED BY <1>1, <1>2

\* An answer keeps the task in its types.
LEMMA ReturnType ==
    ASSUME TaskOK, NEW r \in Requests, NEW c \in Contexts,
           NEW s \in Statuses \cup {Cancelled, 200}, Return(r, c, s)
    PROVE  TaskOK'
BY DEF TaskOK, Return

\* The error list the manager restores is a list of errors.
LEMMA RestoreErrorsType ==
    ASSUME TaskOK, NEW r \in Requests, NEW c \in Contexts
    PROVE  /\ RestoreErrors(r, c) \in Contexts
           /\ SameButErrors(c, RestoreErrors(r, c))
           /\ HasErrors(c) => HasErrors(RestoreErrors(r, c))
<1>1. surfaced[r] \in Seq(Errors)
  BY DEF TaskOK
<1> QED BY <1>1 DEF RestoreErrors, Contexts, SameButErrors, HasErrors

\* EndRun is a Return with a context that differs only in its errors, and
\* with 200 only when cleanup left no error behind.
LEMMA EndRunFacts ==
    ASSUME TaskOK, NEW r \in Requests, NEW c \in Contexts, EndRun(r, c)
    PROVE  \E d \in Contexts, s \in Statuses \cup {Cancelled, 200} :
              /\ SameButErrors(c, d)
              /\ HasErrors(c) => s # 200
              /\ Return(r, d, s)
<1>1. CASE pending[r]
  <2>1. Return(r, c, Cancelled) /\ SameButErrors(c, c) /\ Cancelled # 200
    BY <1>1 DEF EndRun, SameButErrors, Cancelled
  <2> QED BY <2>1
<1>2. CASE ~pending[r]
  <2> DEFINE d == IF inFinally[r] THEN RestoreErrors(r, c) ELSE c
  <2>1. d \in Contexts /\ SameButErrors(c, d) /\ (HasErrors(c) => HasErrors(d))
    BY RestoreErrorsType DEF SameButErrors
  <2>2. PICK s \in Answers(d) : Return(r, d, s)
    BY <1>2 DEF EndRun
  <2>3. s \in Statuses \cup {200} /\ (HasErrors(d) => s # 200)
    BY <2>1, <2>2, AnswerTypes
  <2> HIDE DEF d
  <2> QED BY <2>1, <2>2, <2>3
<1> QED BY <1>1, <1>2

\* The end of a run keeps the task in its types.
LEMMA EndRunType ==
    ASSUME TaskOK, NEW r \in Requests, NEW c \in Contexts, EndRun(r, c)
    PROVE  TaskOK'
BY EndRunFacts, ReturnType

\* A CancelledError that leaves CleanupStage keeps the task in its types.
LEMMA CancelOutType ==
    ASSUME TaskOK, NEW r \in Requests, CancelOutOfCleanup(r)
    PROVE  TaskOK'
<1>1. ctx[r] \in Contexts
  BY DEF TaskOK
<1> QED BY <1>1, ReturnType, EnterFinallyType DEF CancelOutOfCleanup

\* store_event leaves a number of rows.
LEMMA StoreEventType ==
    ASSUME NEW n \in Nat
    PROVE  StoreEvent(n) \in Nat /\ StoreEvent(n) > 0
BY DEF StoreEvent

\* An audit write that raised keeps the services in their types.
LEMMA FailedWriteType ==
    ASSUME ServicesOK, NEW r \in Requests, FailedWrite(r)
    PROVE  /\ audit' \in [Requests -> Nat]
           /\ inflight' \in [Requests -> BOOLEAN]
           /\ \A q \in Requests : audit[q] > 0 => audit'[q] > 0
BY StoreEventType, ZenonT(60) DEF ServicesOK, FailedWrite

\* Every step of the specification preserves the type invariant.
LEMMA TypeStep ==
    ASSUME TypeOK, \A r \in Requests : StageOrder(r), [Next]_vars
    PROVE  TypeOK'
<1> USE TypeSplit
<1>t. TaskOK /\ ServicesOK
  OBVIOUS
<1>p. TaskOK' /\ ServicesOK' => TypeOK'
  BY StageListFacts DEF TypeOK, TaskOK, ServicesOK
<1>c. \A r \in Requests : ctx[r] \in Contexts /\ stage[r] \in 1..13
  BY <1>t DEF TaskOK
<1>l. \A r \in Requests : pc[r] \in MainLoop => stage[r] < 13
  BY StageListFacts DEF StageOrder
<1>a. {"stage", "storing", "calling", "deleting", "auditing"} \subseteq Active
  BY DEF Active
<1>1. CASE UNCHANGED vars
  BY <1>1, <1>t, <1>p DEF TaskOK, ServicesOK, vars, taskVars
<1>2. ASSUME NEW r \in Requests, Receive(r) PROVE TypeOK'
  <2>1. \A b \in BOOLEAN : NewContext(b) \in Contexts
    BY DEF NewContext, Contexts, Actions, Detections, Bodies, Mappings, Replies
  <2> QED BY <1>2, <1>t, <1>p, <1>a, <2>1 DEF Receive, TaskOK, ServicesOK
<1>3. ASSUME NEW r \in Requests, NotReady(r) PROVE TypeOK'
  <2>1. TaskOK'
    BY <1>3, <1>t, <1>c, ReturnType DEF NotReady, Statuses
  <2> QED BY <1>3, <1>t, <1>p, <2>1 DEF NotReady, ServicesOK
<1>4. ASSUME NEW r \in Requests, RunStage(r) PROVE TypeOK'
  <2>1. stage[r] \in 1..12
    BY <1>4, <1>c, <1>l DEF RunStage, MainLoop
  <2>2. PICK c \in StageOutcomes(StageList[stage[r]], ctx[r]) :
          IF StageList[stage[r]] = "Tokenization" /\ ~HasErrors(c) /\ StoresMapping(c)
          THEN /\ ctx' = [ctx EXCEPT ![r] = c]
               /\ pc' = [pc EXCEPT ![r] = "storing"]
               /\ UNCHANGED <<stage, surfaced, inFinally, pending, raising,
                              attempt, cancels, response>>
          ELSE AfterStage(r, c)
    BY <1>4 DEF RunStage
  <2>3. c \in Contexts
    BY <1>c, <2>1, <2>2, StageTypes
  <2>4. TaskOK' /\ UNCHANGED cancels
    <3>1. CASE AfterStage(r, c)
      BY <1>t, <2>1, <2>3, <3>1, AfterStageType
    <3>2. CASE /\ ctx' = [ctx EXCEPT ![r] = c]
               /\ pc' = [pc EXCEPT ![r] = "storing"]
               /\ UNCHANGED <<stage, surfaced, inFinally, pending, raising,
                              attempt, cancels, response>>
      BY <1>t, <1>a, <2>3, <3>2 DEF TaskOK
    <3> QED BY <2>2, <3>1, <3>2
  <2> QED BY <1>4, <1>t, <1>p, <2>4 DEF RunStage, ServicesOK
<1>5. ASSUME NEW r \in Requests, StoreMapping(r) PROVE TypeOK'
  <2>1. stage[r] < 13
    BY <1>5, <1>l DEF StoreMapping, MainLoop
  <2>2. MappingStored(ctx[r]) \in Contexts
    BY <1>c DEF MappingStored, Contexts, Mappings
  <2>3. \A d \in MappingNotStored(ctx[r]) : d \in Contexts
    <3>1. DependencyUnavailable \in Errors /\ Abort(500) \in Errors
      BY ErrorTypes DEF Statuses
    <3>2. \A e \in Errors : FailSecure(ctx[r], e) \in Contexts
      BY <1>c, FailSecureFacts
    <3> QED BY <3>1, <3>2 DEF MappingNotStored
  <2>4. PICK d \in Contexts : AfterStage(r, d)
    BY <1>5, <2>2, <2>3 DEF StoreMapping
  <2>5. TaskOK' /\ UNCHANGED cancels
    BY <1>t, <2>1, <2>4, AfterStageType
  <2>6. cache' \in [Requests -> {"absent", "present", "kept", "deleted", "expired"}]
    BY <1>5, <1>t DEF StoreMapping, ServicesOK
  <2> QED BY <1>5, <1>t, <1>p, <2>5, <2>6 DEF StoreMapping, ServicesOK
<1>6. ASSUME NEW r \in Requests, CallProvider(r) PROVE TypeOK'
  <2>1. ctx[r].transformed \in Bodies
    BY <1>c DEF Contexts
  <2> QED BY <1>6, <1>t, <1>p, <1>a, <2>1 DEF CallProvider, TaskOK, ServicesOK
<1>7. ASSUME NEW r \in Requests, ProviderAnswers(r) PROVE TypeOK'
  <2>1. stage[r] < 13
    BY <1>7, <1>l DEF ProviderAnswers, MainLoop
  <2>2. \A d \in ProviderReplies(ctx[r]) : d \in Contexts
    <3>1. \A x \in Replies : [ctx[r] EXCEPT !.provider_response = x] \in Contexts
      BY <1>c DEF Contexts
    <3>2. ProviderErrors \subseteq Errors
      BY ErrorTypes DEF Statuses, ProviderErrors
    <3>3. \A e \in Errors : FailSecure(ctx[r], e) \in Contexts
      BY <1>c, FailSecureFacts
    <3>4. \A e \in ProviderErrors : FailSecure(ctx[r], e) \in Contexts
      BY <3>2, <3>3
    <3> QED BY <3>1, <3>4 DEF ProviderReplies
  <2>3. TaskOK' /\ UNCHANGED cancels
    BY <1>7, <1>t, <2>1, <2>2, AfterStageType DEF ProviderAnswers
  <2> QED BY <1>7, <1>t, <1>p, <2>3 DEF ProviderAnswers, ServicesOK
<1>8. ASSUME NEW r \in Requests, DeleteMapping(r) PROVE TypeOK'
  BY <1>8, <1>t, <1>p, <1>a, ZenonT(60) DEF DeleteMapping, Stored, Deleted, DeleteFailed, TaskOK, ServicesOK
<1>9. ASSUME NEW r \in Requests, AuditWritten(r) PROVE TypeOK'
  <2>1. TaskOK'
    BY <1>9, <1>t, <1>c, CancelOutType, EndRunType DEF AuditWritten
  <2>2. audit' \in [Requests -> Nat]
    BY <1>9, <1>t, StoreEventType DEF AuditWritten, ServicesOK
  <2> QED BY <1>9, <1>t, <1>p, <2>1, <2>2 DEF AuditWritten, ServicesOK
<1>10. ASSUME NEW r \in Requests, AuditFails(r) PROVE TypeOK'
  <2>1. CASE RetryAudit(r)
    <3>1. NextAttempt(r)
      BY <1>10, <2>1 DEF AuditFails
    <3>2. attempt[r] \in 0..(AuditAttempts - 1)
      BY <1>t DEF TaskOK
    <3>3. attempt[r] + 1 \in 0..(AuditAttempts - 1)
      BY <3>2, <2>1, ChatAssumption DEF RetryAudit
    <3>4. TaskOK'
      BY <1>t, <3>1, <3>3 DEF NextAttempt, TaskOK
    <3> QED BY <1>10, <1>t, <1>p, <3>4, FailedWriteType DEF AuditFails, ServicesOK
  <2>2. CASE ~RetryAudit(r)
    <3>1. FailSecure(ctx[r], Abort(500)) \in Contexts
      BY <1>c, FailSecureFacts, ErrorTypes DEF Statuses
    <3>2. TaskOK'
      BY <1>10, <1>t, <2>2, <3>1, EndRunType DEF AuditFails
    <3> QED BY <1>10, <1>t, <1>p, <3>2, FailedWriteType DEF AuditFails, ServicesOK
  <2> QED BY <2>1, <2>2
<1>11. ASSUME NEW r \in Requests, Cancel(r) PROVE TypeOK'
  <2>1. cancels' \in [Requests -> 0..MaxCancels] /\ UNCHANGED provider
    <3>1. cancels[r] \in 0..MaxCancels
      BY <1>t DEF ServicesOK
    <3>2. cancels[r] + 1 \in 0..MaxCancels
      BY <1>11, <3>1, ChatAssumption DEF Cancel
    <3> QED BY <1>11, <1>t, <3>2 DEF Cancel, ServicesOK
  <2>2. CASE CancelStage(r)
    <3>1. TaskOK'
      BY <2>2, <1>t, <1>c, EnterFinallyType DEF CancelStage
    <3> QED BY <2>1, <2>2, <3>1, <1>t, <1>p DEF CancelStage, ServicesOK
  <2>3. CASE CancelStore(r)
    <3>1. TaskOK'
      BY <2>3, <1>t, <1>c, EnterFinallyType DEF CancelStore
    <3> QED BY <2>1, <2>3, <3>1, <1>t, <1>p DEF CancelStore, ServicesOK
  <2>4. CASE CancelDelete(r)
    BY <2>1, <2>4, <1>t, <1>p, <1>a DEF CancelDelete, Stored, Deleted, TaskOK, ServicesOK
  <2>5. CASE CancelAudit(r)
    <3>1. TaskOK'
      BY <2>5, <1>t, CancelOutType DEF CancelAudit
    <3> QED BY <2>1, <2>5, <3>1, <1>t, <1>p, FailedWriteType DEF CancelAudit, ServicesOK
  <2> QED BY <1>11, <2>2, <2>3, <2>4, <2>5 DEF Cancel
<1>12. ASSUME NEW r \in Requests, Expire(r) PROVE TypeOK'
  BY <1>12, <1>t, <1>p DEF Expire, Stored, taskVars, TaskOK, ServicesOK
<1>13. ASSUME NEW r \in Requests, LateCommit(r) PROVE TypeOK'
  BY <1>13, <1>t, <1>p, StoreEventType DEF LateCommit, taskVars, TaskOK, ServicesOK
<1>14. CASE Crash
  BY <1>14, <1>t, <1>p DEF Crash, TaskOK, ServicesOK
<1>15. CASE Done
  BY <1>1, <1>15 DEF Done
<1> QED
  BY <1>1, <1>2, <1>3, <1>4, <1>5, <1>6, <1>7, <1>8, <1>9, <1>10, <1>11,
     <1>12, <1>13, <1>14, <1>15 DEF Next, Progress

-----------------------------------------------------------------------------
(***************************************************************************)
(* The order of the stages, and what it implies for a forwarded body.      *)
(***************************************************************************)

\* StageOrder(q) depends on the state of q only.
LEMMA OrderLocal ==
    ASSUME NEW q \in Requests, StageOrder(q),
           pc'[q] = pc[q], stage'[q] = stage[q], ctx'[q] = ctx[q],
           pending'[q] = pending[q], inFinally'[q] = inFinally[q],
           cancels'[q] = cancels[q], provider'[q] = provider[q],
           cache[q] # "absent" => cache'[q] # "absent"
    PROVE  StageOrder(q)'
BY DEF StageOrder, Sanitized, MainLoop

\* A step out of the main loop, or after it, only has to keep the context.
LEMMA OrderOutside ==
    ASSUME TypeOK, NEW r \in Requests, StageOrder(r),
           pc'[r] \in {"deleting", "auditing", "returned", "crashed"},
           stage'[r] = stage[r], provider'[r] = provider[r],
           stage[r] > 8 => SameButErrors(ctx[r], ctx'[r]),
           cache[r] # "absent" => cache'[r] # "absent"
    PROVE  StageOrder(r)'
<1>1. stage \in [Requests -> 1..13]
  BY TypeSplit DEF TaskOK
<1>2. stage[r] \in 1..13
  BY <1>1
<1> QED BY <1>2 DEF StageOrder, Sanitized, MainLoop, SameButErrors

\* What the helpers of the manager leave alone.
LEMMA EnterFinallyEffect ==
    ASSUME TypeOK, NEW r \in Requests, NEW c \in Contexts, NEW b \in BOOLEAN,
           EnterFinally(r, c, b)
    PROVE  /\ pc'[r] \in {"deleting", "auditing"}
           /\ stage' = stage
           /\ ctx'[r] = c
           /\ \A q \in Requests : q # r =>
                 /\ pc'[q] = pc[q] /\ ctx'[q] = ctx[q]
                 /\ pending'[q] = pending[q] /\ inFinally'[q] = inFinally[q]
BY DEF EnterFinally, CleanupEntry, TypeOK

\* An answer changes nothing the order of the stages depends on but pc.
LEMMA ReturnEffect ==
    ASSUME TypeOK, NEW r \in Requests, NEW c \in Contexts, NEW s,
           Return(r, c, s)
    PROVE  /\ pc'[r] = "returned"
           /\ stage' = stage
           /\ ctx'[r] = c
           /\ pending' = pending /\ inFinally' = inFinally
           /\ response' = [response EXCEPT ![r] = s]
           /\ \A q \in Requests : q # r => pc'[q] = pc[q] /\ ctx'[q] = ctx[q]
BY DEF Return, TypeOK

\* Whatever ends a run or restarts its cleanup preserves the order.
LEMMA OrderEnterFinally ==
    ASSUME TypeOK, \A q \in Requests : StageOrder(q),
           NEW r \in Requests, NEW c \in Contexts, NEW b \in BOOLEAN,
           EnterFinally(r, c, b), UNCHANGED provider,
           stage[r] > 8 => SameButErrors(ctx[r], c),
           \A q \in Requests : q # r => cancels'[q] = cancels[q],
           \A q \in Requests : cache[q] # "absent" => cache'[q] # "absent"
    PROVE  \A q \in Requests : StageOrder(q)'
<1>1. StageOrder(r)'
  BY EnterFinallyEffect, OrderOutside
<1>2. \A q \in Requests : q # r => StageOrder(q)'
  BY EnterFinallyEffect, OrderLocal
<1> QED BY <1>1, <1>2

\* An answer keeps the stage order.
LEMMA OrderReturn ==
    ASSUME TypeOK, \A q \in Requests : StageOrder(q),
           NEW r \in Requests, NEW c \in Contexts, NEW s,
           Return(r, c, s), UNCHANGED provider,
           stage[r] > 8 => SameButErrors(ctx[r], c),
           \A q \in Requests : q # r => cancels'[q] = cancels[q],
           UNCHANGED cache
    PROVE  \A q \in Requests : StageOrder(q)'
<1>1. StageOrder(r)'
  BY ReturnEffect, OrderOutside
<1>2. \A q \in Requests : q # r => StageOrder(q)'
  BY ReturnEffect, OrderLocal
<1> QED BY <1>1, <1>2

\* A CancelledError that leaves CleanupStage keeps the stage order.
LEMMA OrderCancelOut ==
    ASSUME TypeOK, \A q \in Requests : StageOrder(q),
           NEW r \in Requests, CancelOutOfCleanup(r), UNCHANGED provider,
           \A q \in Requests : q # r => cancels'[q] = cancels[q],
           UNCHANGED cache
    PROVE  \A q \in Requests : StageOrder(q)'
<1>1. ctx[r] \in Contexts /\ SameButErrors(ctx[r], ctx[r])
  BY DEF TypeOK, SameButErrors
<1>2. CASE inFinally[r]
  BY <1>1, <1>2, OrderReturn DEF CancelOutOfCleanup
<1>3. CASE ~inFinally[r]
  BY <1>1, <1>3, OrderEnterFinally DEF CancelOutOfCleanup
<1> QED BY <1>2, <1>3

\* The end of a run keeps the stage order.
LEMMA OrderEndRun ==
    ASSUME TypeOK, \A q \in Requests : StageOrder(q),
           NEW r \in Requests, NEW c \in Contexts, EndRun(r, c),
           SameButErrors(ctx[r], c), UNCHANGED <<provider, cancels, cache>>
    PROVE  \A q \in Requests : StageOrder(q)'
<1>1. PICK d \in Contexts, s \in Statuses \cup {Cancelled, 200} :
         SameButErrors(c, d) /\ Return(r, d, s)
  BY TypeSplit, EndRunFacts
<1>2. SameButErrors(ctx[r], d)
  BY <1>1 DEF SameButErrors
<1> QED BY <1>1, <1>2, OrderReturn

\* What a stage must establish for the loop to go on with context c.
StageDone(r, c) ==
    /\ c.action = "ANONYMIZE"
    /\ stage[r] > 2 => c.detections # "none"
    /\ stage[r] < 8 => c.token_mappings = "none"
    /\ stage[r] > 7 =>
          /\ c.detections # "none"
          /\ c.token_mappings # "none"
          /\ c.detections = "empty" \/ c.transformed = "tokenized"
          /\ c.detections = "reversible" => cache'[r] # "absent"
          /\ c.transformed = "copy" => c.detections = "empty"

\* What the manager does after a stage keeps the stage order.
LEMMA OrderAfterStage ==
    ASSUME TypeOK, \A q \in Requests : StageOrder(q),
           NEW r \in Requests, NEW c \in Contexts, pc[r] \in MainLoop,
           AfterStage(r, c), UNCHANGED provider,
           stage[r] > 8 => SameButErrors(ctx[r], c),
           ~HasErrors(c) => StageDone(r, c),
           \A q \in Requests : cache[q] # "absent" => cache'[q] # "absent"
    PROVE  \A q \in Requests : StageOrder(q)'
<1>1. CASE HasErrors(c)
  BY <1>1, OrderEnterFinally DEF AfterStage
<1>2. CASE ~HasErrors(c)
  <2>1. Advance(r, c) /\ StageDone(r, c)
    BY <1>2 DEF AfterStage
  <2>2. stage[r] \in 1..12
    BY StageListFacts DEF TypeOK, StageOrder
  <2>3. /\ stage'[r] = stage[r] + 1
        /\ ctx'[r] = c
        /\ stage[r] # 12 => pc'[r] = "stage"
        /\ stage[r] = 12 => pc'[r] \in {"deleting", "auditing"}
        /\ pending' = pending /\ inFinally' = inFinally /\ cancels' = cancels
        /\ \A q \in Requests : q # r =>
              pc'[q] = pc[q] /\ ctx'[q] = ctx[q] /\ stage'[q] = stage[q]
    BY <2>1, <2>2, StageListFacts DEF Advance, CleanupEntry, TypeOK
  <2>4. \A q \in Requests : q # r => StageOrder(q)'
    BY <2>3, OrderLocal
  <2>5. /\ ~HasErrors(ctx'[r])
        /\ ~pending'[r] /\ ~inFinally'[r] /\ cancels'[r] = 0
    BY <1>2, <2>3 DEF StageOrder
  <2>6. /\ stage'[r] > 8 => /\ Sanitized(r)'
                            /\ ctx'[r].transformed = "copy" => ctx'[r].detections = "empty"
        /\ ctx'[r].action = "ANONYMIZE"
        /\ stage'[r] > 3 => ctx'[r].detections # "none"
        /\ stage'[r] < 9 => ctx'[r].token_mappings = "none"
    BY <2>1, <2>2, <2>3 DEF StageDone, Sanitized
  <2>7. provider'[r] # "none" => stage'[r] > 9 /\ provider'[r] = ctx'[r].transformed
    BY <2>2, <2>3 DEF StageOrder, SameButErrors
  <2>8. stage'[r] < 11 => provider'[r] = "none"
    BY <2>2, <2>3 DEF StageOrder, MainLoop
  <2>9. StageOrder(r)'
    BY <2>2, <2>3, <2>5, <2>6, <2>7, <2>8, StageListFacts DEF StageOrder, MainLoop
  <2> QED BY <2>4, <2>9
<1> QED BY <1>1, <1>2

\* Every step of the specification preserves the order.
LEMMA OrderStep ==
    ASSUME TypeOK, \A q \in Requests : StageOrder(q), [Next]_vars
    PROVE  \A q \in Requests : StageOrder(q)'
<1>c. \A r \in Requests : /\ ctx[r] \in Contexts
                          /\ stage[r] \in 1..13
                          /\ SameButErrors(ctx[r], ctx[r])
  BY StageListFacts DEF TypeOK, SameButErrors
<1>1. CASE UNCHANGED vars
  BY <1>1, OrderLocal DEF vars, taskVars
<1>2. ASSUME NEW r \in Requests, Receive(r) PROVE \A q \in Requests : StageOrder(q)'
  <2>1. \A q \in Requests : q # r => pc'[q] = pc[q] /\ ctx'[q] = ctx[q]
    BY <1>2 DEF Receive, TypeOK
  <2>2. \A q \in Requests : q # r => StageOrder(q)'
    BY <1>2, <2>1, OrderLocal DEF Receive
  <2>3. PICK b \in BOOLEAN : ctx'[r] = NewContext(b)
    BY <1>2 DEF Receive, TypeOK
  <2>4. pc[r] = "idle" /\ pc'[r] = "stage" /\ stage'[r] = stage[r]
    BY <1>2 DEF Receive, TypeOK
  <2>5. StageOrder(r)'
    BY <1>2, <2>3, <2>4, StageListFacts
    DEF Receive, StageOrder, NewContext, HasErrors, MainLoop
  <2> QED BY <2>2, <2>5
<1>3. ASSUME NEW r \in Requests, NotReady(r) PROVE \A q \in Requests : StageOrder(q)'
  BY <1>3, <1>c, OrderReturn DEF NotReady
<1>4. ASSUME NEW r \in Requests, RunStage(r) PROVE \A q \in Requests : StageOrder(q)'
  <2>1. pc[r] \in MainLoop /\ pc[r] = "stage" /\ stage[r] \in 1..12
    BY <1>4, <1>c, StageListFacts DEF RunStage, MainLoop, StageOrder
  <2>2. PICK c \in StageOutcomes(StageList[stage[r]], ctx[r]) :
          IF StageList[stage[r]] = "Tokenization" /\ ~HasErrors(c) /\ StoresMapping(c)
          THEN /\ ctx' = [ctx EXCEPT ![r] = c]
               /\ pc' = [pc EXCEPT ![r] = "storing"]
               /\ UNCHANGED <<stage, surfaced, inFinally, pending, raising,
                              attempt, cancels, response>>
          ELSE AfterStage(r, c)
    BY <1>4 DEF RunStage
  <2>3. c \in Contexts
    BY <1>c, <2>1, <2>2, StageTypes
  <2>o. /\ stage[r] > 1 => ctx[r].action = "ANONYMIZE"
        /\ stage[r] > 3 => ctx[r].detections # "none"
        /\ stage[r] < 9 => ctx[r].token_mappings = "none"
        /\ stage[r] > 8 => /\ Sanitized(r)
                           /\ ctx[r].transformed = "copy" => ctx[r].detections = "empty"
    BY <2>1 DEF StageOrder
  <2>4. stage[r] > 8 => SameButErrors(ctx[r], c)
    BY <1>c, <2>1, <2>2, StageEffects
  <2>5. UNCHANGED <<cache, provider>>
    BY <1>4 DEF RunStage
  <2>6. CASE StageList[stage[r]] = "Tokenization" /\ ~HasErrors(c) /\ StoresMapping(c)
    <3>1. stage[r] = 8
      BY <2>1, <2>6, StageListFacts
    <3>2. c.action = "ANONYMIZE" /\ c.detections # "none"
      BY <1>c, <2>2, <2>6, <2>o, <3>1, StageEffects
    <3>3. /\ pc'[r] = "storing" /\ ctx'[r] = c /\ stage' = stage /\ pending' = pending
          /\ inFinally' = inFinally /\ cancels' = cancels
          /\ \A q \in Requests : q # r => pc'[q] = pc[q] /\ ctx'[q] = ctx[q]
      BY <2>2, <2>6 DEF TypeOK
    <3>4. \A q \in Requests : q # r => StageOrder(q)'
      BY <2>5, <3>3, OrderLocal
    <3>5. StageOrder(r)'
      BY <2>1, <2>5, <2>6, <3>1, <3>2, <3>3, StageListFacts
      DEF StageOrder, MainLoop, StoresMapping
    <3> QED BY <3>4, <3>5
  <2>7. CASE ~(StageList[stage[r]] = "Tokenization" /\ ~HasErrors(c) /\ StoresMapping(c))
    <3>1. AfterStage(r, c)
      BY <2>2, <2>7
    <3>2. ASSUME ~HasErrors(c) PROVE StageDone(r, c)
      <4>1. CASE stage[r] = 8
        <5>1. StageList[stage[r]] = "Tokenization"
          BY <4>1, StageListFacts
        <5>2. /\ c.action = ctx[r].action
              /\ c.detections = ctx[r].detections
              /\ \/ c.detections = "empty" /\ c.transformed = "copy" /\ c.token_mappings = "empty"
                 \/ /\ c.detections = "irreversible"
                    /\ c.transformed = "tokenized"
                    /\ c.token_mappings = "empty"
                 \/ StoresMapping(c)
          BY <1>c, <2>2, <2>o, <3>2, <4>1, StageEffects DEF StoresMapping
        <5> QED BY <2>7, <2>o, <3>2, <4>1, <5>1, <5>2 DEF StageDone
      <4>2. CASE stage[r] = 1
        BY <1>c, <2>2, <2>o, <3>2, <4>2, StageEffects DEF StageDone
      <4>3. CASE stage[r] = 3
        BY <1>c, <2>2, <2>o, <3>2, <4>3, StageEffects DEF StageDone
      <4>4. CASE stage[r] \notin {1, 3, 8}
        <5>1. SameButErrors(ctx[r], c)
          BY <1>c, <2>1, <2>2, <4>4, StageEffects
        <5>2. stage[r] > 2 => stage[r] > 3
          BY <2>1, <4>4
        <5>3. stage[r] > 7 => stage[r] > 8
          BY <2>1, <4>4
        <5>4. stage[r] > 1
          BY <2>1, <4>4
        <5> QED BY <2>o, <2>1, <2>5, <5>1, <5>2, <5>3, <5>4
            DEF StageDone, SameButErrors, Sanitized
      <4> QED BY <4>1, <4>2, <4>3, <4>4
    <3> QED BY <2>1, <2>3, <2>4, <2>5, <3>1, <3>2, OrderAfterStage
  <2> QED BY <2>6, <2>7
<1>5. ASSUME NEW r \in Requests, StoreMapping(r) PROVE \A q \in Requests : StageOrder(q)'
  <2>1. pc[r] \in MainLoop /\ stage[r] = 8
    BY <1>5 DEF StoreMapping, MainLoop, StageOrder
  <2>o. /\ ctx[r].action = "ANONYMIZE"
        /\ ctx[r].detections # "none"
        /\ ctx[r].transformed = "tokenized"
    BY <1>5, <2>1 DEF StoreMapping, StageOrder
  <2>2. \A q \in Requests : q # r => cache'[q] = cache[q]
    BY <1>5 DEF StoreMapping, TypeOK
  <2>3. cache[r] = "absent" \/ cache[r] # "absent"
    OBVIOUS
  <2>4. CASE /\ cache' = [cache EXCEPT ![r] = "present"]
             /\ AfterStage(r, MappingStored(ctx[r]))
    <3>1. MappingStored(ctx[r]) \in Contexts
      BY <1>c DEF MappingStored, Contexts, Mappings
    <3>2. cache'[r] = "present"
      BY <2>4 DEF TypeOK
    <3>3. StageDone(r, MappingStored(ctx[r]))
      BY <1>c, <2>o, <2>1, <3>2 DEF StageDone, MappingStored, Contexts
    <3> QED BY <1>5, <2>1, <2>2, <2>4, <3>1, <3>2, <3>3, OrderAfterStage DEF StoreMapping
  <2>5. CASE \E c \in MappingNotStored(ctx[r]) : AfterStage(r, c)
    <3>1. PICK c \in MappingNotStored(ctx[r]) : AfterStage(r, c)
      BY <2>5
    <3>2. c \in Contexts /\ HasErrors(c)
      BY <1>c, FailSecureFacts, ErrorTypes DEF MappingNotStored, Statuses
    <3>3. EnterFinally(r, c, FALSE) /\ UNCHANGED cancels
      BY <3>1, <3>2 DEF AfterStage
    <3>4. StageOrder(r)'
      <4>1. pc'[r] \in {"deleting", "auditing"} /\ stage'[r] = 8 /\ provider'[r] = provider[r]
        BY <1>5, <2>1, <3>2, <3>3, EnterFinallyEffect DEF StoreMapping
      <4> QED BY <2>1, <4>1 DEF StageOrder, MainLoop
    <3>5. \A q \in Requests : q # r => StageOrder(q)'
      BY <1>5, <2>2, <3>2, <3>3, EnterFinallyEffect, OrderLocal DEF StoreMapping
    <3> QED BY <3>4, <3>5
  <2> QED BY <1>5, <2>4, <2>5 DEF StoreMapping
<1>6. ASSUME NEW r \in Requests, CallProvider(r) PROVE \A q \in Requests : StageOrder(q)'
  <2>1. stage[r] = 10 /\ pc[r] \in MainLoop
    BY <1>6, <1>c, StageListFacts DEF CallProvider, MainLoop
  <2>2. /\ pc'[r] = "calling" /\ provider'[r] = ctx[r].transformed
        /\ \A q \in Requests : q # r => pc'[q] = pc[q] /\ provider'[q] = provider[q]
    BY <1>6 DEF CallProvider, TypeOK
  <2>3. \A q \in Requests : q # r => StageOrder(q)'
    BY <1>6, <2>2, OrderLocal DEF CallProvider
  <2>4. StageOrder(r)'
    BY <1>6, <2>1, <2>2 DEF CallProvider, StageOrder, MainLoop, Sanitized
  <2> QED BY <2>3, <2>4
<1>7. ASSUME NEW r \in Requests, ProviderAnswers(r) PROVE \A q \in Requests : StageOrder(q)'
  <2>1. pc[r] \in MainLoop /\ stage[r] = 10
    BY <1>7 DEF ProviderAnswers, MainLoop, StageOrder
  <2>o. /\ Sanitized(r)
        /\ ctx[r].transformed = "copy" => ctx[r].detections = "empty"
    BY <2>1 DEF StageOrder
  <2>2. \A d \in ProviderReplies(ctx[r]) : d \in Contexts /\ SameButErrors(ctx[r], d)
    <3>1. \A x \in Replies : /\ [ctx[r] EXCEPT !.provider_response = x] \in Contexts
                             /\ SameButErrors(ctx[r], [ctx[r] EXCEPT !.provider_response = x])
      BY <1>c DEF Contexts, SameButErrors
    <3>2. \A e \in ProviderErrors : /\ FailSecure(ctx[r], e) \in Contexts
                                     /\ SameButErrors(ctx[r], FailSecure(ctx[r], e))
      <4>1. ProviderErrors \subseteq Errors
        BY ErrorTypes DEF Statuses, ProviderErrors
      <4> QED BY <1>c, <4>1, FailSecureFacts
    <3> QED BY <3>1, <3>2 DEF ProviderReplies
  <2>3. PICK d \in Contexts : AfterStage(r, d) /\ SameButErrors(ctx[r], d)
    BY <1>7, <2>2 DEF ProviderAnswers
  <2>4. UNCHANGED <<cache, provider>>
    BY <1>7 DEF ProviderAnswers
  <2>5. StageDone(r, d)
    BY <2>o, <2>1, <2>3, <2>4 DEF StageDone, SameButErrors, Sanitized
  <2> QED BY <2>1, <2>3, <2>4, <2>5, OrderAfterStage
<1>8. ASSUME NEW r \in Requests, DeleteMapping(r) PROVE \A q \in Requests : StageOrder(q)'
  <2>1. /\ \A q \in Requests : q # r => pc'[q] = pc[q]
        /\ pc'[r] = "auditing"
        /\ \A q \in Requests : cache[q] # "absent" => cache'[q] # "absent"
    BY <1>8 DEF DeleteMapping, Stored, Deleted, DeleteFailed, TypeOK
  <2>2. \A q \in Requests : q # r => StageOrder(q)'
    BY <1>8, <2>1, OrderLocal DEF DeleteMapping
  <2>3. StageOrder(r)'
    BY <1>8, <1>c, <2>1, OrderOutside DEF DeleteMapping
  <2> QED BY <2>2, <2>3
<1>9. ASSUME NEW r \in Requests, AuditWritten(r) PROVE \A q \in Requests : StageOrder(q)'
  <2>1. UNCHANGED <<provider, cancels, cache>>
    BY <1>9 DEF AuditWritten
  <2>2. CASE raising[r]
    BY <1>9, <2>1, <2>2, OrderCancelOut DEF AuditWritten
  <2>3. CASE ~raising[r]
    BY <1>9, <1>c, <2>1, <2>3, OrderEndRun DEF AuditWritten
  <2> QED BY <2>2, <2>3
<1>10. ASSUME NEW r \in Requests, AuditFails(r) PROVE \A q \in Requests : StageOrder(q)'
  <2>1. UNCHANGED <<provider, cancels, cache>>
    BY <1>10 DEF AuditFails
  <2>2. CASE RetryAudit(r)
    <3>1. UNCHANGED <<pc, stage, ctx, pending, inFinally>>
      BY <1>10, <2>2 DEF AuditFails, NextAttempt
    <3> QED BY <2>1, <3>1, OrderLocal
  <2>3. CASE ~RetryAudit(r)
    <3>1. /\ FailSecure(ctx[r], Abort(500)) \in Contexts
          /\ SameButErrors(ctx[r], FailSecure(ctx[r], Abort(500)))
      BY <1>c, FailSecureFacts, ErrorTypes DEF Statuses
    <3>2. EndRun(r, FailSecure(ctx[r], Abort(500)))
      BY <1>10, <2>3 DEF AuditFails
    <3> QED BY <2>1, <3>1, <3>2, OrderEndRun
  <2> QED BY <2>2, <2>3
<1>11. ASSUME NEW r \in Requests, Cancel(r) PROVE \A q \in Requests : StageOrder(q)'
  <2>1. UNCHANGED provider /\ \A q \in Requests : q # r => cancels'[q] = cancels[q]
    BY <1>11 DEF Cancel, TypeOK
  <2>2. CASE CancelStage(r)
    BY <1>c, <2>1, <2>2, OrderEnterFinally DEF CancelStage
  <2>3. CASE CancelStore(r)
    <3>1. stage[r] = 8
      BY <2>3 DEF CancelStore, StageOrder
    <3>2. \A q \in Requests : q # r => cache'[q] = cache[q]
      BY <2>3 DEF CancelStore, TypeOK
    <3>3. EnterFinally(r, ctx[r], TRUE)
      BY <2>3 DEF CancelStore
    <3>4. StageOrder(r)'
      <4>1. pc'[r] \in {"deleting", "auditing"} /\ stage'[r] = 8 /\ provider'[r] = provider[r]
        BY <1>c, <2>1, <3>1, <3>3, EnterFinallyEffect
      <4> QED BY <3>1, <4>1 DEF StageOrder, MainLoop
    <3>5. \A q \in Requests : q # r => StageOrder(q)'
      BY <1>c, <2>1, <3>2, <3>3, EnterFinallyEffect, OrderLocal
    <3> QED BY <3>4, <3>5
  <2>4. CASE CancelDelete(r)
    <3>1. /\ \A q \in Requests : q # r => pc'[q] = pc[q]
          /\ pc'[r] = "auditing"
          /\ \A q \in Requests : cache[q] # "absent" => cache'[q] # "absent"
      BY <2>4 DEF CancelDelete, Stored, Deleted, TypeOK
    <3>2. \A q \in Requests : q # r => StageOrder(q)'
      BY <2>1, <2>4, <3>1, OrderLocal DEF CancelDelete
    <3>3. StageOrder(r)'
      BY <1>c, <2>1, <2>4, <3>1, OrderOutside DEF CancelDelete
    <3> QED BY <3>2, <3>3
  <2>5. CASE CancelAudit(r)
    BY <2>1, <2>5, OrderCancelOut DEF CancelAudit
  <2> QED BY <1>11, <2>2, <2>3, <2>4, <2>5 DEF Cancel
<1>12. ASSUME NEW r \in Requests, Expire(r) PROVE \A q \in Requests : StageOrder(q)'
  <2>1. \A q \in Requests : cache[q] # "absent" => cache'[q] # "absent"
    BY <1>12 DEF Expire, Stored, TypeOK
  <2> QED BY <1>12, <2>1, OrderLocal DEF Expire, taskVars
<1>13. ASSUME NEW r \in Requests, LateCommit(r) PROVE \A q \in Requests : StageOrder(q)'
  BY <1>13, OrderLocal DEF LateCommit, taskVars
<1>14. CASE Crash
  <2>1. \A q \in Requests : pc'[q] = IF pc[q] \in Active THEN "crashed" ELSE pc[q]
    BY <1>14 DEF Crash
  <2>2. ASSUME NEW q \in Requests, pc[q] \in Active PROVE StageOrder(q)'
    BY <1>14, <1>c, <2>1, <2>2, OrderOutside DEF Crash
  <2>3. ASSUME NEW q \in Requests, pc[q] \notin Active PROVE StageOrder(q)'
    BY <1>14, <2>1, <2>3, OrderLocal DEF Crash
  <2> QED BY <2>2, <2>3
<1>15. CASE Done
  BY <1>1, <1>15 DEF Done
<1> QED
  BY <1>1, <1>2, <1>3, <1>4, <1>5, <1>6, <1>7, <1>8, <1>9, <1>10, <1>11,
     <1>12, <1>13, <1>14, <1>15 DEF Next, Progress

\* The invariant holds in every reachable state.
THEOREM PipelineInvariant == Spec => []PipelineInv
<1>1. Init => PipelineInv
  <2> SUFFICES ASSUME Init PROVE PipelineInv
    OBVIOUS
  <2>1. NewContext(FALSE) \in Contexts /\ << >> \in Seq(Errors)
    BY DEF NewContext, Contexts, Actions, Detections, Bodies, Mappings, Replies
  <2>2. 0 \in 0..(AuditAttempts - 1) /\ 0 \in 0..MaxCancels /\ 1 \in 1..13
    BY ChatAssumption
  <2>3. TypeOK
    BY <2>1, <2>2, StageListFacts DEF Init, TypeOK, Bodies
  <2>4. \A r \in Requests : StageOrder(r)
    BY DEF Init, StageOrder, MainLoop
  <2> QED BY <2>3, <2>4 DEF PipelineInv
<1>2. PipelineInv /\ [Next]_vars => PipelineInv'
  BY TypeStep, OrderStep DEF PipelineInv
<1> QED BY <1>1, <1>2, PTL DEF Spec

\* Type correctness, for every set of requests and every configuration.
THEOREM TypeCorrect == Spec => []TypeOK
<1>1. PipelineInv => TypeOK
  BY DEF PipelineInv
<1> QED BY <1>1, PipelineInvariant, PTL

\* ForwardingGuard and TokenizationStage keep cleartext from the provider,
\* whatever fails or is cancelled and however the requests interleave.
THEOREM ForwardingIsSafe == Spec => []NoCleartextForwarded
<1>1. PipelineInv => NoCleartextForwarded
  <2> SUFFICES ASSUME PipelineInv, NEW r \in Requests, provider[r] # "none"
               PROVE  /\ ctx[r].action = "ANONYMIZE"
                      /\ ctx[r].detections # "none"
                      /\ provider[r] = "copy" => ctx[r].detections = "empty"
                      /\ ctx[r].detections = "reversible" => cache[r] # "absent"
    BY DEF NoCleartextForwarded
  <2>1. stage[r] \in 1..13 /\ StageOrder(r)
    BY StageListFacts DEF PipelineInv, TypeOK
  <2> QED BY <2>1 DEF StageOrder, Sanitized
<1> QED BY <1>1, PipelineInvariant, PTL

-----------------------------------------------------------------------------
(***************************************************************************)
(* A 200 is only answered once the audit event is in the chain.            *)
(***************************************************************************)

\* The audit rows of a request never go back to none.
LEMMA AuditMonotone ==
    ASSUME TypeOK, [Next]_vars
    PROVE  \A q \in Requests : audit[q] > 0 => audit'[q] > 0
<1>t. ServicesOK /\ audit \in [Requests -> Nat]
  BY TypeSplit DEF TypeOK
<1>1. ASSUME UNCHANGED audit PROVE \A q \in Requests : audit[q] > 0 => audit'[q] > 0
  BY <1>1
<1>2. ASSUME NEW r \in Requests, audit' = [audit EXCEPT ![r] = StoreEvent(@)]
      PROVE  \A q \in Requests : audit[q] > 0 => audit'[q] > 0
  BY <1>2, <1>t, StoreEventType
<1>3. ASSUME NEW r \in Requests, FailedWrite(r)
      PROVE  \A q \in Requests : audit[q] > 0 => audit'[q] > 0
  BY <1>3, <1>t, FailedWriteType
<1>4. \/ UNCHANGED audit
      \/ \E r \in Requests : audit' = [audit EXCEPT ![r] = StoreEvent(@)]
      \/ \E r \in Requests : FailedWrite(r)
  BY DEF Next, vars, Progress, Receive, NotReady, RunStage, StoreMapping, CallProvider,
         ProviderAnswers, DeleteMapping, AuditWritten, AuditFails, Cancel, CancelStage,
         CancelStore, CancelDelete, CancelAudit, Expire, LateCommit, Crash, Done
<1> QED BY <1>1, <1>2, <1>3, <1>4

\* emit_anonymization_audit and the order of CleanupStage before the answer
\* make every 200 an audited one, for any number of retries and
\* cancellations.
THEOREM CompleteIsAudited == Spec => []CompleteMeansAudited
<1>1. Init => CompleteMeansAudited
  BY DEF Init, CompleteMeansAudited, Open
<1>2. TypeOK /\ CompleteMeansAudited /\ [Next]_vars => CompleteMeansAudited'
  <2> SUFFICES ASSUME TypeOK, CompleteMeansAudited, [Next]_vars, "chain" \in Configured
               PROVE  \A q \in Requests : response'[q] = 200 => audit'[q] > 0
    BY DEF CompleteMeansAudited
  <2>m. \A q \in Requests : response[q] = 200 => audit'[q] > 0
    BY AuditMonotone DEF CompleteMeansAudited
  <2>t. TaskOK /\ \A r \in Requests : ctx[r] \in Contexts
    BY TypeSplit DEF TypeOK
  <2>1. ASSUME NEW r \in Requests, NEW c \in Contexts, NEW s,
               Return(r, c, s), s = 200 => audit'[r] > 0
        PROVE  \A q \in Requests : response'[q] = 200 => audit'[q] > 0
    <3>1. response' = [response EXCEPT ![r] = s]
      BY <2>1 DEF Return
    <3>2. response \in [Requests -> Statuses \cup {Open, Cancelled, 200}]
      BY DEF TypeOK
    <3>3. response'[r] = s /\ \A q \in Requests : q # r => response'[q] = response[q]
      BY <3>1, <3>2
    <3> QED BY <2>1, <2>m, <3>3
  <2>2. ASSUME UNCHANGED response
        PROVE  \A q \in Requests : response'[q] = 200 => audit'[q] > 0
    BY <2>2, <2>m
  <2>3. ASSUME NEW r \in Requests, CancelOutOfCleanup(r)
        PROVE  \A q \in Requests : response'[q] = 200 => audit'[q] > 0
    BY <2>1, <2>2, <2>3, <2>t DEF CancelOutOfCleanup, EnterFinally, Cancelled
  <2>4. ASSUME NEW r \in Requests, NotReady(r)
        PROVE  \A q \in Requests : response'[q] = 200 => audit'[q] > 0
    <3>1. Return(r, ctx[r], 503) /\ 503 # 200
      BY <2>4 DEF NotReady
    <3> QED BY <2>1, <2>t, <3>1
  <2>5. ASSUME NEW r \in Requests, AuditWritten(r)
        PROVE  \A q \in Requests : response'[q] = 200 => audit'[q] > 0
    <3>1. CASE raising[r]
      BY <2>3, <2>5, <3>1 DEF AuditWritten
    <3>2. CASE ~raising[r]
      <4>1. audit'[r] > 0
        BY <2>5, StoreEventType DEF AuditWritten, TypeOK
      <4>2. EndRun(r, ctx[r])
        BY <2>5, <3>2 DEF AuditWritten
      <4>3. PICK d \in Contexts, s \in Statuses \cup {Cancelled, 200} : Return(r, d, s)
        BY <2>t, <4>2, EndRunFacts
      <4> QED BY <2>1, <4>1, <4>3
    <3> QED BY <3>1, <3>2
  <2>6. ASSUME NEW r \in Requests, AuditFails(r)
        PROVE  \A q \in Requests : response'[q] = 200 => audit'[q] > 0
    <3>1. CASE RetryAudit(r)
      BY <2>2, <2>6, <3>1 DEF AuditFails, NextAttempt
    <3>2. CASE ~RetryAudit(r)
      <4> DEFINE c == FailSecure(ctx[r], Abort(500))
      <4>1. Abort(500) \in Errors
        BY ErrorTypes DEF Statuses
      <4>2. c \in Contexts /\ HasErrors(c)
        BY <2>t, <4>1, FailSecureFacts
      <4>3. EndRun(r, c)
        BY <2>6, <3>2 DEF AuditFails
      <4> HIDE DEF c
      <4>4. PICK d \in Contexts, s \in Statuses \cup {Cancelled, 200} :
               s # 200 /\ Return(r, d, s)
        BY <2>t, <4>2, <4>3, EndRunFacts
      <4> QED BY <2>1, <4>4
    <3> QED BY <3>1, <3>2
  <2>7. \/ UNCHANGED response
        \/ \E r \in Requests : \/ CancelOutOfCleanup(r) \/ NotReady(r)
                               \/ AuditWritten(r) \/ AuditFails(r)
    <3>1. \A r \in Requests, c \in Contexts : AfterStage(r, c) => UNCHANGED response
      BY DEF AfterStage, EnterFinally, Advance
    <3>2. ASSUME NEW r \in Requests, RunStage(r) \/ StoreMapping(r) \/ ProviderAnswers(r)
          PROVE  UNCHANGED response
      BY <3>2 DEF RunStage, StoreMapping, ProviderAnswers, AfterStage, EnterFinally, Advance
    <3>3. ASSUME NEW r \in Requests, Cancel(r)
          PROVE  UNCHANGED response \/ CancelOutOfCleanup(r)
      BY <3>3 DEF Cancel, CancelStage, CancelStore, CancelDelete, CancelAudit, EnterFinally
    <3> QED
      BY <3>2, <3>3 DEF Next, vars, taskVars, Progress, Receive, CallProvider, DeleteMapping,
         Expire, LateCommit, Crash, Done
  <2> QED BY <2>2, <2>3, <2>4, <2>5, <2>6, <2>7
<1> QED BY <1>1, <1>2, TypeCorrect, PTL DEF Spec

\* No stage sends to the provider once an error is recorded or the task is
\* cancelled, and none sends twice.
THEOREM ForwardsOnlyWhileClean == Spec => ForwardOnlyWhileClean
<1>1. PipelineInv /\ [Next]_vars =>
        [\A r \in Requests : provider'[r] # provider[r] =>
          /\ provider[r] = "none"
          /\ ~HasErrors(ctx[r])
          /\ ~pending[r]
          /\ cancels[r] = 0]_vars
  <2> SUFFICES ASSUME PipelineInv, [Next]_vars, NEW r \in Requests,
                      provider'[r] # provider[r]
               PROVE  /\ provider[r] = "none"
                      /\ ~HasErrors(ctx[r])
                      /\ ~pending[r]
                      /\ cancels[r] = 0
    OBVIOUS
  <2>1. PICK q \in Requests : CallProvider(q)
    BY DEF Next, vars, Progress, Receive, NotReady, RunStage, StoreMapping,
       ProviderAnswers, DeleteMapping, AuditWritten, AuditFails, Cancel, Expire,
       LateCommit, Crash, Done
  <2>2. q = r
    BY <2>1 DEF CallProvider, PipelineInv, TypeOK
  <2>3. stage[r] = 10 /\ pc[r] = "stage" /\ StageOrder(r)
    BY <2>1, <2>2, StageListFacts DEF CallProvider, PipelineInv, TypeOK
  <2> QED BY <2>3 DEF StageOrder, MainLoop
<1> QED BY <1>1, PipelineInvariant, PTL DEF Spec, ForwardOnlyWhileClean

-----------------------------------------------------------------------------
(***************************************************************************)
(* What a failed, cancelled or answered run leaves behind.  The properties *)
(* are about tasks that returned; the invariant says what the manager and  *)
(* CleanupStage keep true on the way there.                                *)
(***************************************************************************)

\* MappingReleased for one request, without the pc.
Released(r) ==
    ctx[r].token_mappings = "some" /\ InterruptedOnce(r) => cache[r] # "present"

\* FailuresAccounted for one request, without the pc.
Reported(r) ==
    /\ HasErrors(ctx[r]) /\ response[r] # Cancelled
          => response[r] = StatusOf(Head(ctx[r].errors))
    /\ /\ inFinally[r] \/ StageList[stage[r]] = "Cleanup"
       /\ "chain" \in Configured
       /\ InterruptedOnce(r)
       /\ audit[r] = 0
       => attempt[r] + 1 = AuditAttempts

\* The manager saved the error that stopped the loop, a reply comes from a
\* body that was sent, and cleanup reaches the audit write with the mapping
\* gone unless a cancellation got in its way.
Account(r) ==
    /\ pc[r] = "idle" => ctx[r] = NewContext(FALSE)
    /\ pc[r] # "returned" => response[r] = Open
    /\ pc[r] = "calling" => provider[r] # "none"
    /\ "full" \in {ctx[r].provider_response, ctx[r].restored_response}
          => provider[r] # "none"
    /\ pending[r] \/ raising[r] => cancels[r] > 0
    /\ pc[r] \in {"deleting", "auditing"} =>
          /\ inFinally[r] => surfaced[r] = ctx[r].errors
          /\ ~inFinally[r] => ctx[r].errors = << >>
          /\ inFinally[r] /\ ~pending[r] => Len(ctx[r].errors) = 1
    /\ pc[r] \in {"auditing", "returned"} => Released(r)
    /\ pc[r] = "returned" => Reported(r)

AccountInv == PipelineInv /\ \A r \in Requests : Account(r)

\* The step leaves request q alone.
Same(q) ==
    /\ pc'[q] = pc[q] /\ stage'[q] = stage[q] /\ ctx'[q] = ctx[q]
    /\ surfaced'[q] = surfaced[q] /\ inFinally'[q] = inFinally[q]
    /\ pending'[q] = pending[q] /\ raising'[q] = raising[q]
    /\ attempt'[q] = attempt[q] /\ cancels'[q] = cancels[q]
    /\ response'[q] = response[q] /\ cache'[q] = cache[q]
    /\ provider'[q] = provider[q] /\ audit'[q] = audit[q]
    /\ inflight'[q] = inflight[q]

Others(r) == \A q \in Requests : q # r => Same(q)

\* The same for the variables of the tasks, without the count of their
\* cancellations, and for those of the services with it.
SameTask(q) ==
    /\ pc'[q] = pc[q] /\ stage'[q] = stage[q] /\ ctx'[q] = ctx[q]
    /\ surfaced'[q] = surfaced[q] /\ inFinally'[q] = inFinally[q]
    /\ pending'[q] = pending[q] /\ raising'[q] = raising[q]
    /\ attempt'[q] = attempt[q] /\ response'[q] = response[q]

SameServices(q) ==
    /\ cancels'[q] = cancels[q] /\ cache'[q] = cache[q]
    /\ provider'[q] = provider[q] /\ audit'[q] = audit[q]
    /\ inflight'[q] = inflight[q]

\* Together they are Same.
LEMMA SameSplit ==
    ASSUME NEW q, SameTask(q), SameServices(q)
    PROVE  Same(q)
BY DEF Same, SameTask, SameServices

\* The invariant of a request depends on the state of that request only.
LEMMA AccountLocal ==
    ASSUME NEW q \in Requests, Account(q), Same(q)
    PROVE  Account(q)'
BY ZenonT(60) DEF Account, Same, Released, Reported, InterruptedOnce

\* Everything EnterFinally does.
LEMMA EnterFinallyAt ==
    ASSUME TaskOK, NEW r \in Requests, NEW c \in Contexts, NEW b \in BOOLEAN,
           EnterFinally(r, c, b)
    PROVE  /\ pc'[r] = CleanupEntry(c) /\ stage'[r] = stage[r] /\ ctx'[r] = c
           /\ surfaced'[r] = c.errors /\ inFinally'[r] /\ pending'[r] = b
           /\ ~raising'[r] /\ attempt'[r] = 0 /\ response'[r] = response[r]
           /\ \A q \in Requests : q # r => SameTask(q)
BY DEF EnterFinally, TaskOK, SameTask

\* Everything Advance does.
LEMMA AdvanceAt ==
    ASSUME TaskOK, NEW r \in Requests, NEW c \in Contexts, stage[r] < 13,
           Advance(r, c)
    PROVE  /\ pc'[r] = IF stage[r] = 12 THEN CleanupEntry(c) ELSE "stage"
           /\ stage'[r] = stage[r] + 1 /\ ctx'[r] = c
           /\ surfaced'[r] = surfaced[r] /\ inFinally'[r] = inFinally[r]
           /\ pending'[r] = pending[r] /\ raising'[r] = raising[r]
           /\ attempt'[r] = attempt[r] /\ response'[r] = response[r]
           /\ \A q \in Requests : q # r => SameTask(q)
<1>1. stage[r] \in 1..13
  BY DEF TaskOK
<1>2. StageList[stage[r] + 1] = "Cleanup" <=> stage[r] = 12
  BY <1>1, StageListFacts
<1> QED BY <1>1, <1>2 DEF Advance, TaskOK, SameTask

\* Everything Return does.
LEMMA ReturnAt ==
    ASSUME TaskOK, NEW r \in Requests, NEW c \in Contexts, NEW s, Return(r, c, s)
    PROVE  /\ pc'[r] = "returned" /\ stage'[r] = stage[r] /\ ctx'[r] = c
           /\ surfaced'[r] = surfaced[r] /\ inFinally'[r] = inFinally[r]
           /\ pending'[r] = pending[r] /\ raising'[r] = raising[r]
           /\ attempt'[r] = attempt[r] /\ response'[r] = s
           /\ \A q \in Requests : q # r => SameTask(q)
BY DEF Return, TaskOK, SameTask

\* A stage records at most one error, and no reply but the provider's.
LEMMA StageReplied ==
    ASSUME NEW c \in Contexts, NEW i \in 1..12,
           NEW d \in StageOutcomes(StageList[i], c)
    PROVE  Replied(c, d)
BY OutcomesAt, StageAtReplied

\* The manager's finally block keeps the account: the error is saved, and a
\* recorded mapping is deleted before the audit write.
LEMMA AccountEnterFinally ==
    ASSUME TaskOK, NEW r \in Requests, NEW c \in Contexts, NEW b \in BOOLEAN,
           EnterFinally(r, c, b), response[r] = Open, provider'[r] = provider[r],
           "full" \in {c.provider_response, c.restored_response} => provider[r] # "none",
           b => cancels'[r] > 0,
           ~b => Len(c.errors) = 1
    PROVE  Account(r)'
<1>1. /\ pc'[r] = CleanupEntry(c) /\ ctx'[r] = c
      /\ surfaced'[r] = c.errors /\ inFinally'[r] /\ pending'[r] = b
      /\ ~raising'[r] /\ response'[r] = Open
  BY EnterFinallyAt
<1>2. pc'[r] \in {"deleting", "auditing"}
  BY <1>1 DEF CleanupEntry
<1>3. pc'[r] = "auditing" => ctx'[r].token_mappings # "some"
  BY <1>1 DEF CleanupEntry
<1> QED BY <1>1, <1>2, <1>3 DEF Account, Released

\* The next stage of the main loop keeps the account.
LEMMA AccountAdvance ==
    ASSUME TaskOK, NEW r \in Requests, NEW c \in Contexts, stage[r] < 13,
           Advance(r, c), ~HasErrors(c), ~inFinally[r], ~pending[r],
           raising[r] => cancels'[r] > 0,
           response[r] = Open, provider'[r] = provider[r],
           "full" \in {c.provider_response, c.restored_response} => provider[r] # "none"
    PROVE  Account(r)'
<1>1. /\ pc'[r] = IF stage[r] = 12 THEN CleanupEntry(c) ELSE "stage"
      /\ ctx'[r] = c /\ ~inFinally'[r] /\ ~pending'[r] /\ response'[r] = Open
      /\ raising'[r] = raising[r]
  BY AdvanceAt
<1>2. pc'[r] \in {"stage", "deleting", "auditing"}
  BY <1>1 DEF CleanupEntry
<1>3. pc'[r] = "auditing" => ctx'[r].token_mappings # "some"
  BY <1>1 DEF CleanupEntry
<1>4. ctx'[r].errors = << >>
  BY <1>1 DEF HasErrors
<1> QED BY <1>1, <1>2, <1>3, <1>4 DEF Account, Released

\* What the manager does after a stage keeps the account.
LEMMA AccountAfterStage ==
    ASSUME PipelineInv, NEW r \in Requests, NEW c \in Contexts, pc[r] \in MainLoop,
           Account(r), AfterStage(r, c), UNCHANGED provider,
           c.errors = << >> \/ Len(c.errors) = 1,
           "full" \in {c.provider_response, c.restored_response} => provider[r] # "none"
    PROVE  Account(r)' /\ UNCHANGED <<cancels, response>>
<1>1. TaskOK /\ response[r] = Open /\ provider'[r] = provider[r]
  BY TypeSplit DEF Account, MainLoop, PipelineInv
<1>2. stage[r] < 13 /\ ~inFinally[r] /\ ~pending[r]
  BY StageListFacts DEF PipelineInv, StageOrder
<1>3. CASE HasErrors(c)
  <2>1. EnterFinally(r, c, FALSE) /\ UNCHANGED cancels
    BY <1>3 DEF AfterStage
  <2>2. Len(c.errors) = 1
    BY <1>3 DEF HasErrors
  <2>3. UNCHANGED response
    BY <2>1 DEF EnterFinally
  <2> QED BY <1>1, <2>1, <2>2, <2>3, AccountEnterFinally
<1>4. CASE ~HasErrors(c)
  <2>1. Advance(r, c)
    BY <1>4 DEF AfterStage
  <2>2. UNCHANGED <<cancels, response>>
    BY <2>1 DEF Advance
  <2>3. raising[r] => cancels'[r] > 0
    BY <2>2 DEF Account
  <2> QED BY <1>1, <1>2, <1>4, <2>1, <2>2, <2>3, AccountAdvance
<1> QED BY <1>3, <1>4

\* EndRun out of the audit write: the answer is that of the first error, and
\* a 200 has a reply behind it.
LEMMA EndRunAccount ==
    ASSUME TaskOK, NEW r \in Requests, Account(r), pc[r] = "auditing",
           NEW c \in Contexts, EndRun(r, c),
           \/ c = ctx[r]
           \/ \E e \in Errors : c = FailSecure(ctx[r], e)
    PROVE  \E d \in Contexts, s \in Statuses \cup {Cancelled, 200} :
              /\ Return(r, d, s)
              /\ SameButErrors(ctx[r], d)
              /\ d.provider_response = ctx[r].provider_response
              /\ d.restored_response = ctx[r].restored_response
              /\ HasErrors(d) /\ s # Cancelled => s = StatusOf(Head(d.errors))
              /\ s = 200 => "full" \in {d.provider_response, d.restored_response}
              /\ HasErrors(c) => s # 200
<1>c. ctx[r] \in Contexts /\ ctx[r].errors \in Seq(Errors) /\ surfaced[r] \in Seq(Errors)
  BY DEF TaskOK, Contexts
<1>1. /\ SameButErrors(ctx[r], c)
      /\ c.provider_response = ctx[r].provider_response
      /\ c.restored_response = ctx[r].restored_response
      /\ ctx[r].errors = << >> => c.errors = << >> \/ Len(c.errors) = 1
  <2>1. CASE c = ctx[r]
    BY <2>1 DEF SameButErrors
  <2>2. ASSUME NEW e \in Errors, c = FailSecure(ctx[r], e)
        PROVE  /\ SameButErrors(ctx[r], c)
               /\ c.provider_response = ctx[r].provider_response
               /\ c.restored_response = ctx[r].restored_response
               /\ ctx[r].errors = << >> => Len(c.errors) = 1
    <3>1. SameButErrors(ctx[r], c)
      BY <1>c, <2>2, FailSecureFacts
    <3>2. /\ c.provider_response = ctx[r].provider_response
          /\ c.restored_response = ctx[r].restored_response
          /\ c.errors = Append(ctx[r].errors, e)
      BY <1>c, <2>2 DEF FailSecure, Contexts
    <3>3. Len(c.errors) = Len(ctx[r].errors) + 1
      BY <1>c, <3>2, AppendProperties
    <3> QED BY <3>1, <3>2, <3>3
  <2> QED BY <2>1, <2>2
<1>2. CASE pending[r]
  <2>1. Return(r, c, Cancelled) /\ Cancelled # 200
    BY <1>2 DEF EndRun, Cancelled
  <2> QED BY <1>1, <2>1
<1>3. CASE ~pending[r]
  <2> DEFINE d == IF inFinally[r] THEN RestoreErrors(r, c) ELSE c
  <2>1. /\ d \in Contexts
        /\ SameButErrors(ctx[r], d)
        /\ d.provider_response = ctx[r].provider_response
        /\ d.restored_response = ctx[r].restored_response
        /\ HasErrors(c) => HasErrors(d)
    <3>1. RestoreErrors(r, c) \in Contexts /\ SameButErrors(c, RestoreErrors(r, c))
          /\ (HasErrors(c) => HasErrors(RestoreErrors(r, c)))
      BY RestoreErrorsType
    <3>2. /\ RestoreErrors(r, c).provider_response = c.provider_response
          /\ RestoreErrors(r, c).restored_response = c.restored_response
      BY <1>c DEF RestoreErrors, Contexts
    <3> QED BY <1>1, <3>1, <3>2 DEF SameButErrors
  <2>2. HasErrors(d) => Len(d.errors) = 1
    <3>1. CASE inFinally[r]
      <4>1. surfaced[r] = ctx[r].errors /\ Len(surfaced[r]) = 1
        BY <1>3, <3>1 DEF Account
      <4>2. surfaced[r] # << >>
        <5>1. \A x \in Seq(Errors) : x = << >> <=> Len(x) = 0
          BY EmptySeq
        <5>2. Len(surfaced[r]) # 0 /\ surfaced[r] \in Seq(Errors)
          BY <1>c, <4>1
        <5> QED BY <5>1, <5>2
      <4>3. d = [c EXCEPT !.errors = surfaced[r]]
        BY <3>1, <4>2 DEF RestoreErrors
      <4>4. d.errors = surfaced[r]
        BY <4>3 DEF Contexts
      <4> QED BY <4>1, <4>4
    <3>2. CASE ~inFinally[r]
      <4>1. ctx[r].errors = << >> /\ d = c
        BY <3>2 DEF Account
      <4> QED BY <1>1, <4>1 DEF HasErrors
    <3> QED BY <3>1, <3>2
  <2>3. PICK s \in Answers(d) : Return(r, d, s)
    BY <1>3 DEF EndRun
  <2> HIDE DEF d
  <2>4. s \in Statuses \cup {200} /\ (HasErrors(d) => s # 200)
    BY <2>1, <2>3, AnswerTypes
  <2>5. HasErrors(d) => s = StatusOf(Head(d.errors))
    <3>1. SUFFICES ASSUME HasErrors(d) PROVE s = StatusOf(Head(d.errors))
      OBVIOUS
    <3>2. s = StatusOf(d.errors[1])
      BY <2>2, <2>3, <3>1 DEF Answers, RaiseForPipelineErrors
    <3>3. d.errors \in Seq(Errors) /\ Len(d.errors) = 1
      BY <2>1, <2>2, <3>1 DEF Contexts
    <3>4. Head(d.errors) = d.errors[1]
      BY <3>3
    <3> QED BY <3>2, <3>4
  <2>6. s = 200 => "full" \in {d.provider_response, d.restored_response}
    BY <2>3, <2>4 DEF Answers
  <2> QED BY <2>1, <2>3, <2>4, <2>5, <2>6
<1> QED BY <1>2, <1>3

\* An answer given from the audit write keeps the account.
LEMMA AccountReturn ==
    ASSUME TaskOK, NEW r \in Requests, Account(r), pc[r] = "auditing",
           NEW d \in Contexts, NEW s, Return(r, d, s),
           SameButErrors(ctx[r], d),
           d.provider_response = ctx[r].provider_response,
           d.restored_response = ctx[r].restored_response,
           HasErrors(d) /\ s # Cancelled => s = StatusOf(Head(d.errors)),
           \/ cancels'[r] = cancels[r]
           \/ s = Cancelled /\ cancels[r] \in Nat /\ cancels'[r] = cancels[r] + 1,
           UNCHANGED <<cache, provider>>,
           /\ cancels'[r] = cancels[r]
           /\ "chain" \in Configured
           /\ audit'[r] = 0
           => attempt[r] + 1 = AuditAttempts
    PROVE  Account(r)'
<1>1. /\ pc'[r] = "returned" /\ stage'[r] = stage[r] /\ ctx'[r] = d
      /\ inFinally'[r] = inFinally[r] /\ pending'[r] = pending[r]
      /\ raising'[r] = raising[r] /\ attempt'[r] = attempt[r] /\ response'[r] = s
  BY ReturnAt
<1>2. InterruptedOnce(r)' => InterruptedOnce(r) /\ cancels'[r] = cancels[r]
  <2>1. pending[r] => cancels[r] > 0
    BY DEF Account
  <2> QED BY <1>1, <2>1 DEF InterruptedOnce
<1>3. Released(r)'
  BY <1>1, <1>2 DEF Account, Released, SameButErrors
<1>4. Reported(r)'
  BY <1>1, <1>2 DEF Reported
<1>5. pending'[r] \/ raising'[r] => cancels'[r] > 0
  BY <1>1 DEF Account
<1> QED BY <1>1, <1>3, <1>4, <1>5 DEF Account

\* A CancelledError out of CleanupStage keeps the account: the first one
\* makes the manager run the stage again.
LEMMA AccountCancelOut ==
    ASSUME TaskOK, NEW r \in Requests, Account(r), pc[r] = "auditing",
           CancelOutOfCleanup(r), UNCHANGED <<cache, provider>>,
           cancels'[r] > 0,
           \/ cancels'[r] = cancels[r] /\ ("chain" \in Configured => audit'[r] # 0)
           \/ cancels[r] \in Nat /\ cancels'[r] = cancels[r] + 1
    PROVE  Account(r)'
<1>1. ctx[r] \in Contexts /\ response[r] = Open /\ provider'[r] = provider[r]
  BY DEF TaskOK, Account
<1>2. CASE inFinally[r]
  <2>1. Return(r, ctx[r], Cancelled) /\ SameButErrors(ctx[r], ctx[r])
    BY <1>2 DEF CancelOutOfCleanup, SameButErrors
  <2>2. cancels[r] \in Nat /\ cancels'[r] = cancels[r] + 1 => cancels'[r] # cancels[r]
    OBVIOUS
  <2> QED BY <1>1, <2>1, <2>2, AccountReturn
<1>3. CASE ~inFinally[r]
  <2>1. EnterFinally(r, ctx[r], TRUE)
    BY <1>3 DEF CancelOutOfCleanup
  <2>2. "full" \in {ctx[r].provider_response, ctx[r].restored_response} => provider[r] # "none"
    BY DEF Account
  <2> QED BY <1>1, <2>1, <2>2, AccountEnterFinally
<1> QED BY <1>2, <1>3

\* One step of a request, and what the environment does to it.
Step(r) ==
    \/ Receive(r) \/ NotReady(r) \/ Progress(r)
    \/ Cancel(r) \/ Expire(r) \/ LateCommit(r)

\* No step of a request touches another one, whatever they share.
LEMMA StepOthers ==
    ASSUME TypeOK, \A q \in Requests : StageOrder(q), NEW r \in Requests, Step(r)
    PROVE  Others(r)
<1>t. TaskOK /\ ServicesOK
  BY TypeSplit
<1>c. ctx[r] \in Contexts /\ stage[r] \in 1..13
  BY <1>t DEF TaskOK
<1>l. pc[r] \in MainLoop => stage[r] < 13
  BY StageListFacts DEF StageOrder
<1>s. SUFFICES \A q \in Requests : q # r => SameTask(q) /\ SameServices(q)
  BY SameSplit DEF Others
<1>a. ASSUME NEW c \in Contexts, AfterStage(r, c), stage[r] < 13
      PROVE  UNCHANGED cancels /\ \A q \in Requests : q # r => SameTask(q)
  <2>1. CASE HasErrors(c)
    BY <1>a, <1>t, <2>1, EnterFinallyAt DEF AfterStage
  <2>2. CASE ~HasErrors(c)
    <3>1. Advance(r, c) /\ UNCHANGED cancels
      BY <1>a, <2>2 DEF AfterStage, Advance
    <3> QED BY <1>a, <1>t, <3>1, AdvanceAt
  <2> QED BY <2>1, <2>2
<1>e. ASSUME NEW c \in Contexts, EndRun(r, c)
      PROVE  \A q \in Requests : q # r => SameTask(q)
  <2>1. PICK d \in Contexts, s \in Statuses \cup {Cancelled, 200} : Return(r, d, s)
    BY <1>e, <1>t, EndRunFacts
  <2> QED BY <1>t, <2>1, ReturnAt
<1>o. ASSUME CancelOutOfCleanup(r) PROVE \A q \in Requests : q # r => SameTask(q)
  BY <1>o, <1>t, <1>c, ReturnAt, EnterFinallyAt DEF CancelOutOfCleanup
<1>f. ASSUME FailedWrite(r)
      PROVE  \A q \in Requests : q # r => audit'[q] = audit[q] /\ inflight'[q] = inflight[q]
  BY <1>f, <1>t DEF FailedWrite, ServicesOK
<1>d. ASSUME Deleted(r) \/ DeleteFailed(r) \/ UNCHANGED cache
      PROVE  \A q \in Requests : q # r => cache'[q] = cache[q]
  BY <1>d, <1>t DEF Deleted, DeleteFailed, ServicesOK
<1>1. CASE Receive(r)
  BY <1>1, <1>t DEF Receive, TaskOK, SameTask, SameServices
<1>2. CASE NotReady(r)
  BY <1>2, <1>t, <1>c, ReturnAt DEF NotReady, SameServices
<1>3. CASE RunStage(r)
  <2>1. stage[r] \in 1..12 /\ stage[r] < 13
    BY <1>3, <1>c, <1>l DEF RunStage, MainLoop
  <2>2. \A c \in StageOutcomes(StageList[stage[r]], ctx[r]) : c \in Contexts
    BY <1>c, <2>1, StageTypes
  <2>3. PICK c \in Contexts :
          \/ /\ ctx' = [ctx EXCEPT ![r] = c]
             /\ pc' = [pc EXCEPT ![r] = "storing"]
             /\ UNCHANGED <<stage, surfaced, inFinally, pending, raising,
                            attempt, cancels, response>>
          \/ AfterStage(r, c)
    BY <1>3, <2>2 DEF RunStage
  <2>4. UNCHANGED cancels /\ \A q \in Requests : q # r => SameTask(q)
    <3>1. CASE AfterStage(r, c)
      BY <1>a, <2>1, <3>1
    <3>2. CASE /\ ctx' = [ctx EXCEPT ![r] = c]
               /\ pc' = [pc EXCEPT ![r] = "storing"]
               /\ UNCHANGED <<stage, surfaced, inFinally, pending, raising,
                              attempt, cancels, response>>
      BY <1>t, <3>2 DEF TaskOK, SameTask
    <3> QED BY <2>3, <3>1, <3>2
  <2> QED BY <1>3, <2>4 DEF RunStage, SameServices
<1>4. CASE StoreMapping(r)
  <2>1. stage[r] < 13
    BY <1>4, <1>l DEF StoreMapping, MainLoop
  <2>2. MappingStored(ctx[r]) \in Contexts
    BY <1>c DEF MappingStored, Contexts, Mappings
  <2>3. \A d \in MappingNotStored(ctx[r]) : d \in Contexts
    BY <1>c, FailSecureFacts, ErrorTypes DEF MappingNotStored, Statuses
  <2>4. PICK d \in Contexts : AfterStage(r, d)
    BY <1>4, <2>2, <2>3 DEF StoreMapping
  <2>5. UNCHANGED cancels /\ \A q \in Requests : q # r => SameTask(q)
    BY <1>a, <2>1, <2>4
  <2>6. \A q \in Requests : q # r => cache'[q] = cache[q]
    BY <1>4, <1>t DEF StoreMapping, ServicesOK
  <2> QED BY <1>4, <2>5, <2>6 DEF StoreMapping, SameServices
<1>5. CASE CallProvider(r)
  BY <1>5, <1>t DEF CallProvider, TaskOK, ServicesOK, SameTask, SameServices
<1>6. CASE ProviderAnswers(r)
  <2>1. stage[r] < 13
    BY <1>6, <1>l DEF ProviderAnswers, MainLoop
  <2>2. \A d \in ProviderReplies(ctx[r]) : d \in Contexts
    <3>1. \A x \in Replies : [ctx[r] EXCEPT !.provider_response = x] \in Contexts
      BY <1>c DEF Contexts
    <3>2. \A e \in ProviderErrors : FailSecure(ctx[r], e) \in Contexts
      <4>1. ProviderErrors \subseteq Errors
        BY ErrorTypes DEF Statuses, ProviderErrors
      <4> QED BY <1>c, <4>1, FailSecureFacts
    <3> QED BY <3>1, <3>2 DEF ProviderReplies
  <2>3. UNCHANGED cancels /\ \A q \in Requests : q # r => SameTask(q)
    BY <1>6, <1>a, <2>1, <2>2 DEF ProviderAnswers
  <2> QED BY <1>6, <2>3 DEF ProviderAnswers, SameServices
<1>7. CASE DeleteMapping(r)
  <2>1. \A q \in Requests : q # r => cache'[q] = cache[q]
    BY <1>7, <1>d DEF DeleteMapping
  <2> QED BY <1>7, <1>t, <2>1 DEF DeleteMapping, TaskOK, SameTask, SameServices
<1>8. CASE AuditWritten(r)
  <2>1. \A q \in Requests : q # r => SameTask(q)
    BY <1>8, <1>c, <1>e, <1>o DEF AuditWritten
  <2>2. \A q \in Requests : q # r => audit'[q] = audit[q]
    BY <1>8, <1>t DEF AuditWritten, ServicesOK
  <2> QED BY <1>8, <2>1, <2>2 DEF AuditWritten, SameServices
<1>9. CASE AuditFails(r)
  <2>1. \A q \in Requests : q # r => SameTask(q)
    <3>1. CASE RetryAudit(r)
      BY <1>9, <1>t, <3>1 DEF AuditFails, NextAttempt, TaskOK, SameTask
    <3>2. CASE ~RetryAudit(r)
      <4>1. FailSecure(ctx[r], Abort(500)) \in Contexts
        BY <1>c, FailSecureFacts, ErrorTypes DEF Statuses
      <4> QED BY <1>9, <1>e, <3>2, <4>1 DEF AuditFails
    <3> QED BY <3>1, <3>2
  <2> QED BY <1>9, <1>f, <2>1 DEF AuditFails, SameServices
<1>10. CASE Cancel(r)
  <2>1. UNCHANGED provider /\ \A q \in Requests : q # r => cancels'[q] = cancels[q]
    BY <1>10, <1>t DEF Cancel, ServicesOK
  <2>2. CASE CancelStage(r)
    BY <1>c, <1>t, <2>1, <2>2, EnterFinallyAt DEF CancelStage, SameServices
  <2>3. CASE CancelStore(r)
    <3>1. \A q \in Requests : q # r => cache'[q] = cache[q]
      BY <1>t, <2>3 DEF CancelStore, ServicesOK
    <3> QED BY <1>c, <1>t, <2>1, <2>3, <3>1, EnterFinallyAt DEF CancelStore, SameServices
  <2>4. CASE CancelDelete(r)
    <3>1. \A q \in Requests : q # r => cache'[q] = cache[q]
      BY <1>d, <2>4 DEF CancelDelete
    <3> QED BY <1>t, <2>1, <2>4, <3>1 DEF CancelDelete, TaskOK, SameTask, SameServices
  <2>5. CASE CancelAudit(r)
    BY <1>f, <1>o, <2>1, <2>5 DEF CancelAudit, SameServices
  <2> QED BY <1>10, <2>2, <2>3, <2>4, <2>5 DEF Cancel
<1>11. CASE Expire(r)
  BY <1>11, <1>t DEF Expire, taskVars, ServicesOK, SameTask, SameServices
<1>12. CASE LateCommit(r)
  BY <1>12, <1>t DEF LateCommit, taskVars, ServicesOK, SameTask, SameServices
<1> QED
  BY <1>1, <1>2, <1>3, <1>4, <1>5, <1>6, <1>7, <1>8, <1>9, <1>10, <1>11, <1>12
  DEF Step, Progress

\* Every step of a request keeps its account.
LEMMA AccountStep ==
    ASSUME PipelineInv, NEW r \in Requests, Account(r), Step(r)
    PROVE  Account(r)'
<1>t. TypeOK /\ TaskOK /\ ServicesOK /\ StageOrder(r)
  BY TypeSplit DEF PipelineInv
<1>c. /\ ctx[r] \in Contexts /\ stage[r] \in 1..13 /\ cancels[r] \in Nat
      /\ attempt[r] \in 0..(AuditAttempts - 1) /\ audit[r] \in Nat
      /\ SameButErrors(ctx[r], ctx[r])
  BY <1>t, ChatAssumption DEF TaskOK, ServicesOK, SameButErrors
<1>m. pc[r] \in MainLoop => /\ ctx[r].errors = << >> /\ stage[r] < 13
                            /\ ~pending[r] /\ ~inFinally[r] /\ cancels[r] = 0
  BY <1>t, StageListFacts DEF StageOrder, HasErrors
<1>p. "full" \in {ctx[r].provider_response, ctx[r].restored_response} => provider[r] # "none"
  BY DEF Account
<1>o. pc[r] # "returned" => response[r] = Open
  BY DEF Account
<1>1. CASE Receive(r)
  <2>1. PICK b \in BOOLEAN : ctx' = [ctx EXCEPT ![r] = NewContext(b)]
    BY <1>1 DEF Receive
  <2>2. ctx'[r] = NewContext(b) /\ pc'[r] = "stage" /\ pc[r] = "idle"
    BY <1>1, <1>t, <2>1 DEF Receive, TaskOK
  <2>3. ctx'[r].provider_response = "none" /\ ctx'[r].restored_response = "none"
    BY <2>2 DEF NewContext
  <2> QED BY <1>1, <2>2, <2>3 DEF Receive, Account
<1>2. CASE NotReady(r)
  <2>1. Return(r, ctx[r], 503) /\ pc[r] = "idle"
    BY <1>2 DEF NotReady
  <2>2. /\ pc'[r] = "returned" /\ ctx'[r] = ctx[r] /\ stage'[r] = stage[r]
        /\ inFinally'[r] = inFinally[r] /\ pending'[r] = pending[r]
        /\ raising'[r] = raising[r]
    BY <1>c, <1>t, <2>1, ReturnAt
  <2>3. ctx[r].token_mappings = "none" /\ ~HasErrors(ctx[r])
    BY <2>1 DEF Account, NewContext, HasErrors
  <2>4. stage[r] = 1 /\ ~inFinally[r] /\ ~pending[r]
    BY <1>t, <2>1 DEF StageOrder
  <2>5. StageList[stage'[r]] # "Cleanup"
    BY <2>2, <2>4, StageListFacts
  <2> QED BY <1>2, <1>p, <2>2, <2>3, <2>4, <2>5 DEF NotReady, Account, Released, Reported
<1>3. CASE RunStage(r)
  <2>1. pc[r] = "stage" /\ pc[r] \in MainLoop /\ stage[r] \in 1..12
    BY <1>3, <1>c, <1>m DEF RunStage, MainLoop
  <2>2. PICK c \in StageOutcomes(StageList[stage[r]], ctx[r]) :
          \/ /\ ctx' = [ctx EXCEPT ![r] = c]
             /\ pc' = [pc EXCEPT ![r] = "storing"]
             /\ UNCHANGED <<stage, surfaced, inFinally, pending, raising,
                            attempt, cancels, response>>
          \/ AfterStage(r, c)
    BY <1>3 DEF RunStage
  <2>3. c \in Contexts /\ Replied(ctx[r], c)
    BY <1>c, <2>1, <2>2, StageTypes, StageReplied
  <2>4. /\ "full" \in {c.provider_response, c.restored_response} => provider[r] # "none"
        /\ c.errors = << >> \/ Len(c.errors) = 1
    BY <1>m, <1>p, <2>1, <2>3 DEF Replied
  <2>5. CASE AfterStage(r, c)
    BY <1>3, <2>1, <2>3, <2>4, <2>5, AccountAfterStage DEF RunStage
  <2>6. CASE /\ ctx' = [ctx EXCEPT ![r] = c]
             /\ pc' = [pc EXCEPT ![r] = "storing"]
             /\ UNCHANGED <<stage, surfaced, inFinally, pending, raising,
                            attempt, cancels, response>>
    <3>1. ctx'[r] = c /\ pc'[r] = "storing"
      BY <1>t, <2>6 DEF TaskOK
    <3> QED BY <1>3, <1>m, <1>o, <2>1, <2>4, <2>6, <3>1 DEF RunStage, Account
  <2> QED BY <2>2, <2>5, <2>6
<1>4. CASE StoreMapping(r)
  <2>1. pc[r] \in MainLoop
    BY <1>4 DEF StoreMapping, MainLoop
  <2>2. MappingStored(ctx[r]) \in Contexts /\ Replied(ctx[r], MappingStored(ctx[r]))
    BY <1>c DEF MappingStored, Contexts, Mappings, Replied
  <2>3. \A d \in MappingNotStored(ctx[r]) : d \in Contexts /\ Replied(ctx[r], d)
    <3>1. DependencyUnavailable \in Errors /\ Abort(500) \in Errors
      BY ErrorTypes DEF Statuses
    <3> QED BY <1>c, <3>1, FailSecureFacts, FailSecureReplied DEF MappingNotStored
  <2>4. PICK d \in Contexts : AfterStage(r, d) /\ Replied(ctx[r], d)
    BY <1>4, <2>2, <2>3 DEF StoreMapping
  <2>5. /\ "full" \in {d.provider_response, d.restored_response} => provider[r] # "none"
        /\ d.errors = << >> \/ Len(d.errors) = 1
    BY <1>m, <1>p, <2>1, <2>4 DEF Replied
  <2> QED BY <1>4, <2>1, <2>4, <2>5, AccountAfterStage DEF StoreMapping
<1>5. CASE CallProvider(r)
  <2>1. pc'[r] = "calling" /\ provider'[r] = ctx[r].transformed /\ provider'[r] # "none"
    BY <1>5, <1>t DEF CallProvider, TaskOK, ServicesOK
  <2> QED BY <1>5, <1>o, <1>m, <2>1 DEF CallProvider, Account, MainLoop
<1>6. CASE ProviderAnswers(r)
  <2>1. pc[r] \in MainLoop /\ provider[r] # "none"
    BY <1>6 DEF ProviderAnswers, MainLoop, Account
  <2>2. \A d \in ProviderReplies(ctx[r]) :
           d \in Contexts /\ (d.errors = << >> \/ Len(d.errors) = 1)
    <3>1. \A x \in Replies : /\ [ctx[r] EXCEPT !.provider_response = x] \in Contexts
                             /\ [ctx[r] EXCEPT !.provider_response = x].errors = << >>
      BY <1>c, <1>m, <2>1 DEF Contexts
    <3>2. \A e \in ProviderErrors : /\ FailSecure(ctx[r], e) \in Contexts
                                     /\ Replied(ctx[r], FailSecure(ctx[r], e))
      <4>1. ProviderErrors \subseteq Errors
        BY ErrorTypes DEF Statuses, ProviderErrors
      <4> QED BY <1>c, <4>1, FailSecureFacts, FailSecureReplied
    <3>3. \A e \in ProviderErrors :
             \/ FailSecure(ctx[r], e).errors = << >>
             \/ Len(FailSecure(ctx[r], e).errors) = 1
      BY <1>m, <2>1, <3>2 DEF Replied
    <3>4. \A d \in ProviderReplies(ctx[r]) :
             \/ \E x \in Replies : d = [ctx[r] EXCEPT !.provider_response = x]
             \/ \E e \in ProviderErrors : d = FailSecure(ctx[r], e)
      BY DEF ProviderReplies
    <3>5. ASSUME NEW x \in Replies, NEW d, d = [ctx[r] EXCEPT !.provider_response = x]
          PROVE  d \in Contexts /\ d.errors = << >>
      BY <3>1, <3>5
    <3>6. ASSUME NEW e \in ProviderErrors, NEW d, d = FailSecure(ctx[r], e)
          PROVE  d \in Contexts /\ (d.errors = << >> \/ Len(d.errors) = 1)
      BY <3>2, <3>3, <3>6
    <3> QED BY <3>4, <3>5, <3>6
  <2>3. PICK d \in Contexts : AfterStage(r, d) /\ (d.errors = << >> \/ Len(d.errors) = 1)
    BY <1>6, <2>2 DEF ProviderAnswers
  <2> QED BY <1>6, <2>1, <2>3, AccountAfterStage DEF ProviderAnswers
<1>7. CASE DeleteMapping(r)
  <2>1. pc[r] = "deleting" /\ pc'[r] = "auditing" /\ cache'[r] # "present"
    BY <1>7, <1>t DEF DeleteMapping, Deleted, DeleteFailed, Stored, TaskOK, ServicesOK
  <2>2. Released(r)'
    BY <2>1 DEF Released
  <2> QED BY <1>7, <2>1, <2>2 DEF DeleteMapping, Account
<1>8. CASE AuditWritten(r)
  <2>1. "chain" \in Configured => audit'[r] # 0
    BY <1>8, <1>c, <1>t, StoreEventType DEF AuditWritten, ServicesOK
  <2>2. CASE raising[r]
    <3>1. cancels'[r] = cancels[r]
      BY <1>8 DEF AuditWritten
    <3>2. cancels[r] > 0
      BY <2>2 DEF Account
    <3> QED BY <1>8, <1>t, <2>1, <2>2, <3>1, <3>2, AccountCancelOut DEF AuditWritten
  <2>3. CASE ~raising[r]
    <3>1. EndRun(r, ctx[r])
      BY <1>8, <2>3 DEF AuditWritten
    <3>2. PICK d \in Contexts, s \in Statuses \cup {Cancelled, 200} :
              /\ Return(r, d, s)
              /\ SameButErrors(ctx[r], d)
              /\ d.provider_response = ctx[r].provider_response
              /\ d.restored_response = ctx[r].restored_response
              /\ HasErrors(d) /\ s # Cancelled => s = StatusOf(Head(d.errors))
      BY <1>8, <1>c, <1>t, <3>1, EndRunAccount DEF AuditWritten
    <3> QED BY <1>8, <1>t, <2>1, <3>2, AccountReturn DEF AuditWritten
  <2> QED BY <2>2, <2>3
<1>9. CASE AuditFails(r)
  <2>1. CASE RetryAudit(r)
    <3>1. UNCHANGED <<pc, stage, ctx, surfaced, inFinally, pending, raising, response,
                      cancels, cache, provider>> /\ pc[r] = "auditing"
      BY <1>9, <2>1 DEF AuditFails, NextAttempt
    <3> QED BY <3>1 DEF Account, Released, InterruptedOnce
  <2>2. CASE ~RetryAudit(r)
    <3> DEFINE c == FailSecure(ctx[r], Abort(500))
    <3>1. Abort(500) \in Errors
      BY ErrorTypes DEF Statuses
    <3>2. c \in Contexts
      BY <1>c, <3>1, FailSecureFacts
    <3>3. EndRun(r, c)
      BY <1>9, <2>2 DEF AuditFails
    <3>4. \E e \in Errors : c = FailSecure(ctx[r], e)
      BY <3>1
    <3> HIDE DEF c
    <3>5. PICK d \in Contexts, s \in Statuses \cup {Cancelled, 200} :
              /\ Return(r, d, s)
              /\ SameButErrors(ctx[r], d)
              /\ d.provider_response = ctx[r].provider_response
              /\ d.restored_response = ctx[r].restored_response
              /\ HasErrors(d) /\ s # Cancelled => s = StatusOf(Head(d.errors))
      BY <1>9, <1>t, <3>2, <3>3, <3>4, EndRunAccount DEF AuditFails
    <3>6. attempt[r] + 1 = AuditAttempts
      BY <1>c, <2>2, ChatAssumption DEF RetryAudit
    <3> QED BY <1>9, <1>t, <3>5, <3>6, AccountReturn DEF AuditFails
  <2> QED BY <2>1, <2>2
<1>10. CASE Cancel(r)
  <2>1. cancels'[r] = cancels[r] + 1 /\ provider' = provider /\ cancels'[r] > 0
    BY <1>10, <1>c, <1>t DEF Cancel, ServicesOK
  <2>2. CASE CancelStage(r)
    BY <1>c, <1>o, <1>p, <1>t, <2>1, <2>2, AccountEnterFinally DEF CancelStage
  <2>3. CASE CancelStore(r)
    BY <1>c, <1>o, <1>p, <1>t, <2>1, <2>3, AccountEnterFinally DEF CancelStore
  <2>4. CASE CancelDelete(r)
    <3>1. pc[r] = "deleting" /\ pc'[r] = "auditing"
      BY <1>t, <2>4 DEF CancelDelete, TaskOK
    <3>2. ~InterruptedOnce(r)'
      <4>1. pending[r] => cancels[r] > 0
        BY DEF Account
      <4>2. pending' = pending
        BY <2>4 DEF CancelDelete
      <4> QED BY <1>c, <2>1, <4>1, <4>2 DEF InterruptedOnce
    <3>3. Released(r)'
      BY <3>2 DEF Released
    <3> QED BY <2>1, <2>4, <3>1, <3>3 DEF CancelDelete, Account
  <2>5. CASE CancelAudit(r)
    BY <1>c, <1>t, <2>1, <2>5, AccountCancelOut DEF CancelAudit
  <2> QED BY <1>10, <2>2, <2>3, <2>4, <2>5 DEF Cancel
<1>11. CASE Expire(r)
  <2>1. cache'[r] = "expired" /\ UNCHANGED <<taskVars, provider, audit, inflight>>
    BY <1>11, <1>t DEF Expire, ServicesOK
  <2> QED BY <2>1 DEF taskVars, Account, Released, Reported, InterruptedOnce
<1>12. CASE LateCommit(r)
  <2>1. audit'[r] # 0 /\ UNCHANGED <<taskVars, cache, provider>>
    BY <1>12, <1>c, <1>t, StoreEventType DEF LateCommit, ServicesOK
  <2> QED BY <2>1 DEF taskVars, Account, Released, Reported, InterruptedOnce
<1> QED
  BY <1>1, <1>2, <1>3, <1>4, <1>5, <1>6, <1>7, <1>8, <1>9, <1>10, <1>11, <1>12
  DEF Step, Progress

\* The invariant holds in every reachable state.
THEOREM AccountInvariant == Spec => []AccountInv
<1>1. Init => \A r \in Requests : Account(r)
  BY DEF Init, Account, NewContext, Open
<1>2. PipelineInv /\ (\A r \in Requests : Account(r)) /\ [Next]_vars
        => (\A r \in Requests : Account(r))'
  <2> SUFFICES ASSUME PipelineInv, \A r \in Requests : Account(r), [Next]_vars,
                      NEW q \in Requests
               PROVE  Account(q)'
    OBVIOUS
  <2>1. ASSUME NEW r \in Requests, Step(r) PROVE Account(q)'
    <3>1. Others(r)
      BY <2>1, StepOthers DEF PipelineInv
    <3> QED BY <2>1, <3>1, AccountStep, AccountLocal DEF Others
  <2>2. CASE Crash
    <3>1. \/ pc'[q] = pc[q]
          \/ pc[q] \in Active /\ pc'[q] = "crashed"
      BY <2>2 DEF Crash
    <3>2. "returned" \notin Active
      BY DEF Active
    <3> QED BY <2>2, <3>1, <3>2 DEF Crash, Account, Released, Reported, InterruptedOnce
  <2>3. CASE UNCHANGED vars
    BY <2>3 DEF vars, taskVars, Account, Released, Reported, InterruptedOnce
  <2> QED BY <2>1, <2>2, <2>3 DEF Next, Step, Done
<1> QED BY <1>1, <1>2, PipelineInvariant, PTL DEF Spec, AccountInv

\* The client sees the status of the error that stopped the pipeline, and a
\* request ends without an audit event only after every attempt of its last
\* cleanup, for any number of attempts and cancellations.
THEOREM FailuresReported == Spec => []FailuresAccounted
<1>1. AccountInv => FailuresAccounted
  BY DEF AccountInv, Account, Reported, FailuresAccounted, FirstErrorSurfaces,
         AuditGivenUpOnlyAfterAllAttempts
<1> QED BY <1>1, AccountInvariant, PTL

\* No request that was interrupted at most once leaves its mapping in the
\* cache unless a delete was tried and failed.
THEOREM MappingsReleased == Spec => []MappingReleased
<1>1. AccountInv => MappingReleased
  BY DEF AccountInv, Account, Released, MappingReleased
<1> QED BY <1>1, AccountInvariant, PTL

-----------------------------------------------------------------------------
(***************************************************************************)
(* The pipeline implements the gateway.  A step of the pipeline is one of  *)
(* four kinds for the request that takes it, each with the same effect on  *)
(* the mapped state as a step of AnonymizingGateway or none.               *)
(***************************************************************************)

\* A stage ends: the body may become ready to leave.
Prepares(r) ==
    /\ Sanitized(r) => Sanitized(r)'
    /\ ~Sanitized(r) /\ Sanitized(r)' => response[r] = Open
    /\ provider'[r] = provider[r] /\ audit'[r] = audit[r]
    /\ response'[r] = response[r]

\* The body is sent.
Sends(r) ==
    /\ Sanitized(r) /\ Sanitized(r)' /\ response[r] = Open
    /\ provider[r] = "none" /\ provider'[r] # "none"
    /\ audit'[r] = audit[r] /\ response'[r] = response[r]

\* The audit event may get into the chain, and the client is told nothing.
Records(r) ==
    /\ Sanitized(r)' <=> Sanitized(r)
    /\ provider'[r] = provider[r]
    /\ audit[r] > 0 => audit'[r] > 0
    /\ \/ response'[r] = response[r]
       \/ response[r] = Open /\ response'[r] = Cancelled

\* The client is answered.
Responds(r) ==
    /\ Sanitized(r)' <=> Sanitized(r)
    /\ provider'[r] = provider[r]
    /\ audit[r] > 0 => audit'[r] > 0
    /\ response[r] = Open /\ response'[r] \in Statuses \cup {200}
    /\ response'[r] = 200 => /\ provider[r] # "none"
                             /\ "chain" \in Configured => audit'[r] > 0

\* What decides whether a body may leave survives every change of the
\* context's errors and every deletion or expiry of a mapping.
LEMMA SanitizedKept ==
    ASSUME NEW r \in Requests, SameButErrors(ctx[r], ctx'[r]),
           cache'[r] = "absent" <=> cache[r] = "absent"
    PROVE  Sanitized(r)' <=> Sanitized(r)
BY DEF Sanitized, SameButErrors

\* The end of a stage prepares: a mapped request stays mapped, because the
\* stages that touch the deciding fields run before tokenization ends.
LEMMA StageEnds ==
    ASSUME TypeOK, NEW r \in Requests, StageOrder(r), Account(r),
           pc[r] \in MainLoop, NEW c \in Contexts, AfterStage(r, c),
           stage[r] > 8 => SameButErrors(ctx[r], c) /\ UNCHANGED cache,
           UNCHANGED <<provider, audit>>
    PROVE  Prepares(r)
<1>1. TaskOK /\ stage[r] \in 1..13 /\ stage[r] < 13 /\ response[r] = Open
  BY TypeSplit, StageListFacts DEF TaskOK, StageOrder, Account, MainLoop
<1>2. ctx'[r] = c /\ response'[r] = response[r]
  <2>1. CASE HasErrors(c)
    BY <1>1, <2>1, EnterFinallyAt DEF AfterStage
  <2>2. CASE ~HasErrors(c)
    BY <1>1, <2>2, AdvanceAt DEF AfterStage
  <2> QED BY <2>1, <2>2
<1>3. CASE stage[r] > 8
  <2>1. Sanitized(r)' <=> Sanitized(r)
    BY <1>2, <1>3, SanitizedKept
  <2> QED BY <1>1, <1>2, <2>1 DEF Prepares
<1>4. CASE ~(stage[r] > 8)
  <2>1. ~Sanitized(r)
    BY <1>1, <1>4 DEF StageOrder, Sanitized
  <2> QED BY <1>1, <1>2, <2>1 DEF Prepares
<1> QED BY <1>3, <1>4

\* A CancelledError out of CleanupStage tells the client nothing.
LEMMA CancelOutRecords ==
    ASSUME TaskOK, NEW r \in Requests, Account(r), pc[r] = "auditing",
           CancelOutOfCleanup(r), UNCHANGED <<cache, provider>>,
           audit[r] > 0 => audit'[r] > 0
    PROVE  Records(r)
<1>1. ctx[r] \in Contexts /\ SameButErrors(ctx[r], ctx[r]) /\ response[r] = Open
  BY DEF TaskOK, SameButErrors, Account
<1>2. ctx'[r] = ctx[r] /\ response'[r] \in {response[r], Cancelled}
  <2>1. CASE inFinally[r]
    BY <1>1, <2>1, ReturnAt DEF CancelOutOfCleanup
  <2>2. CASE ~inFinally[r]
    BY <1>1, <2>2, EnterFinallyAt DEF CancelOutOfCleanup
  <2> QED BY <2>1, <2>2
<1>3. Sanitized(r)' <=> Sanitized(r)
  BY <1>1, <1>2, SanitizedKept
<1> QED BY <1>1, <1>2, <1>3 DEF Records

\* The end of a run answers, or lets a CancelledError through.
LEMMA EndRunResponds ==
    ASSUME TaskOK, NEW r \in Requests, Account(r), pc[r] = "auditing",
           NEW c \in Contexts, EndRun(r, c),
           \/ c = ctx[r]
           \/ \E e \in Errors : c = FailSecure(ctx[r], e),
           UNCHANGED <<cache, provider>>,
           audit[r] > 0 => audit'[r] > 0,
           \/ "chain" \in Configured => audit'[r] > 0
           \/ HasErrors(c)
    PROVE  Records(r) \/ Responds(r)
<1>1. PICK d \in Contexts, s \in Statuses \cup {Cancelled, 200} :
              /\ Return(r, d, s)
              /\ SameButErrors(ctx[r], d)
              /\ d.provider_response = ctx[r].provider_response
              /\ d.restored_response = ctx[r].restored_response
              /\ s = 200 => "full" \in {d.provider_response, d.restored_response}
              /\ HasErrors(c) => s # 200
  BY EndRunAccount
<1>2. ctx'[r] = d /\ response'[r] = s /\ response[r] = Open
  BY <1>1, ReturnAt DEF Account
<1>3. Sanitized(r)' <=> Sanitized(r)
  BY <1>1, <1>2, SanitizedKept
<1>4. s = 200 => provider[r] # "none" /\ ("chain" \in Configured => audit'[r] > 0)
  BY <1>1 DEF Account
<1>5. CASE s = Cancelled
  BY <1>2, <1>3, <1>5 DEF Records
<1>6. CASE s # Cancelled
  BY <1>1, <1>2, <1>3, <1>4, <1>6 DEF Responds
<1> QED BY <1>5, <1>6

\* Every step of a request is of one of the four kinds.
LEMMA StepKinds ==
    ASSUME AccountInv, NEW r \in Requests, Step(r)
    PROVE  Prepares(r) \/ Sends(r) \/ Records(r) \/ Responds(r)
<1>t. TypeOK /\ TaskOK /\ ServicesOK /\ StageOrder(r) /\ Account(r)
  BY TypeSplit DEF AccountInv, PipelineInv
<1>c. ctx[r] \in Contexts /\ stage[r] \in 1..13 /\ SameButErrors(ctx[r], ctx[r])
      /\ audit[r] \in Nat
  BY <1>t DEF TaskOK, ServicesOK, SameButErrors
<1>m. pc[r] \in MainLoop => stage[r] < 13
  BY <1>t, StageListFacts DEF StageOrder
<1>o. pc[r] # "returned" => response[r] = Open
  BY <1>t DEF Account
<1>f. FailedWrite(r) => (audit[r] > 0 => audit'[r] > 0)
  BY <1>t, FailedWriteType
<1>1. CASE Receive(r)
  <2>1. UNCHANGED <<provider, audit, response>> /\ pc[r] = "idle"
    BY <1>1 DEF Receive
  <2>2. ctx[r].token_mappings = "none"
    BY <1>t, <2>1 DEF Account, NewContext
  <2>3. ~Sanitized(r)
    BY <2>2 DEF Sanitized
  <2> QED BY <1>o, <2>1, <2>3 DEF Prepares
<1>2. CASE NotReady(r)
  <2>1. Return(r, ctx[r], 503) /\ UNCHANGED <<provider, audit, cache>> /\ pc[r] = "idle"
    BY <1>2 DEF NotReady
  <2>2. ctx'[r] = ctx[r] /\ response'[r] = 503
    BY <1>c, <1>t, <2>1, ReturnAt
  <2>3. Sanitized(r)' <=> Sanitized(r)
    BY <1>c, <2>1, <2>2, SanitizedKept
  <2>4. 503 \in Statuses /\ 503 # 200
    BY DEF Statuses
  <2> QED BY <1>o, <2>1, <2>2, <2>3, <2>4 DEF Responds
<1>3. CASE RunStage(r)
  <2>1. pc[r] = "stage" /\ pc[r] \in MainLoop /\ stage[r] \in 1..12
    BY <1>3, <1>c, <1>m DEF RunStage, MainLoop
  <2>2. PICK c \in StageOutcomes(StageList[stage[r]], ctx[r]) :
          IF StageList[stage[r]] = "Tokenization" /\ ~HasErrors(c) /\ StoresMapping(c)
          THEN /\ ctx' = [ctx EXCEPT ![r] = c]
               /\ pc' = [pc EXCEPT ![r] = "storing"]
               /\ UNCHANGED <<stage, surfaced, inFinally, pending, raising,
                              attempt, cancels, response>>
          ELSE AfterStage(r, c)
    BY <1>3 DEF RunStage
  <2>3. c \in Contexts /\ (stage[r] > 8 => SameButErrors(ctx[r], c))
    BY <1>c, <2>1, <2>2, StageTypes, StageEffects
  <2>4. CASE AfterStage(r, c)
    BY <1>3, <1>t, <2>1, <2>3, <2>4, StageEnds DEF RunStage
  <2>5. CASE ~AfterStage(r, c)
    <3>1. StageList[stage[r]] = "Tokenization" /\ UNCHANGED response
      BY <2>2, <2>5
    <3>2. stage[r] = 8
      BY <2>1, <3>1, StageListFacts
    <3>3. ~Sanitized(r)
      BY <1>t, <2>1, <3>2 DEF StageOrder, Sanitized
    <3> QED BY <1>3, <1>o, <2>1, <3>1, <3>3 DEF RunStage, Prepares
  <2> QED BY <2>4, <2>5
<1>4. CASE StoreMapping(r)
  <2>1. pc[r] \in MainLoop /\ stage[r] = 8
    BY <1>4, <1>t DEF StoreMapping, MainLoop, StageOrder
  <2>2. MappingStored(ctx[r]) \in Contexts
    BY <1>c DEF MappingStored, Contexts, Mappings
  <2>3. \A d \in MappingNotStored(ctx[r]) : d \in Contexts
    BY <1>c, FailSecureFacts, ErrorTypes DEF MappingNotStored, Statuses
  <2>4. PICK d \in Contexts : AfterStage(r, d)
    BY <1>4, <2>2, <2>3 DEF StoreMapping
  <2> QED BY <1>4, <1>t, <2>1, <2>4, StageEnds DEF StoreMapping
<1>5. CASE CallProvider(r)
  <2>1. pc[r] = "stage" /\ stage[r] = 10 /\ ctx' = ctx /\ cache' = cache
    BY <1>5, <1>c, StageListFacts DEF CallProvider
  <2>2. Sanitized(r) /\ provider[r] = "none"
    BY <1>t, <2>1 DEF StageOrder, MainLoop
  <2>3. provider'[r] # "none"
    BY <1>5, <1>t DEF CallProvider, ServicesOK
  <2>4. Sanitized(r)'
    BY <1>c, <2>1, <2>2, SanitizedKept
  <2> QED BY <1>5, <1>o, <2>1, <2>2, <2>3, <2>4 DEF CallProvider, Sends
<1>6. CASE ProviderAnswers(r)
  <2>1. pc[r] \in MainLoop
    BY <1>6 DEF ProviderAnswers, MainLoop
  <2>2. \A d \in ProviderReplies(ctx[r]) : d \in Contexts /\ SameButErrors(ctx[r], d)
    <3>1. \A x \in Replies : /\ [ctx[r] EXCEPT !.provider_response = x] \in Contexts
                             /\ SameButErrors(ctx[r], [ctx[r] EXCEPT !.provider_response = x])
      BY <1>c DEF Contexts, SameButErrors
    <3>2. \A e \in ProviderErrors : /\ FailSecure(ctx[r], e) \in Contexts
                                     /\ SameButErrors(ctx[r], FailSecure(ctx[r], e))
      <4>1. ProviderErrors \subseteq Errors
        BY ErrorTypes DEF Statuses, ProviderErrors
      <4> QED BY <1>c, <4>1, FailSecureFacts
    <3> QED BY <3>1, <3>2 DEF ProviderReplies
  <2>3. PICK d \in Contexts : AfterStage(r, d) /\ SameButErrors(ctx[r], d)
    BY <1>6, <2>2 DEF ProviderAnswers
  <2> QED BY <1>6, <1>t, <2>1, <2>3, StageEnds DEF ProviderAnswers
<1>7. CASE DeleteMapping(r)
  <2>1. cache'[r] = "absent" <=> cache[r] = "absent"
    BY <1>7, <1>t DEF DeleteMapping, Deleted, DeleteFailed, Stored, ServicesOK
  <2>2. Sanitized(r)' <=> Sanitized(r)
    BY <1>7, <1>c, <2>1, SanitizedKept DEF DeleteMapping
  <2> QED BY <1>7, <2>2 DEF DeleteMapping, Records
<1>8. CASE AuditWritten(r)
  <2>1. /\ audit[r] > 0 => audit'[r] > 0
        /\ "chain" \in Configured => audit'[r] > 0
    BY <1>8, <1>c, <1>t, StoreEventType DEF AuditWritten, ServicesOK
  <2>2. CASE raising[r]
    BY <1>8, <1>t, <2>1, <2>2, CancelOutRecords DEF AuditWritten
  <2>3. CASE ~raising[r]
    BY <1>8, <1>c, <1>t, <2>1, <2>3, EndRunResponds DEF AuditWritten
  <2> QED BY <2>2, <2>3
<1>9. CASE AuditFails(r)
  <2>1. audit[r] > 0 => audit'[r] > 0
    BY <1>9, <1>f DEF AuditFails
  <2>2. CASE RetryAudit(r)
    <3>1. UNCHANGED <<ctx, response, cache, provider>>
      BY <1>9, <2>2 DEF AuditFails, NextAttempt
    <3>2. Sanitized(r)' <=> Sanitized(r)
      BY <1>c, <3>1, SanitizedKept
    <3> QED BY <2>1, <3>1, <3>2 DEF Records
  <2>3. CASE ~RetryAudit(r)
    <3> DEFINE c == FailSecure(ctx[r], Abort(500))
    <3>1. Abort(500) \in Errors
      BY ErrorTypes DEF Statuses
    <3>2. c \in Contexts /\ HasErrors(c)
      BY <1>c, <3>1, FailSecureFacts
    <3>3. EndRun(r, c)
      BY <1>9, <2>3 DEF AuditFails
    <3>4. \E e \in Errors : c = FailSecure(ctx[r], e)
      BY <3>1
    <3> HIDE DEF c
    <3> QED BY <1>9, <1>t, <2>1, <3>2, <3>3, <3>4, EndRunResponds DEF AuditFails
  <2> QED BY <2>2, <2>3
<1>10. CASE Cancel(r)
  <2>1. UNCHANGED provider
    BY <1>10 DEF Cancel
  <2>2. ASSUME EnterFinally(r, ctx[r], TRUE), UNCHANGED <<cache, audit>> PROVE Records(r)
    <3>1. ctx'[r] = ctx[r] /\ response'[r] = response[r]
      BY <1>c, <1>t, <2>2, EnterFinallyAt
    <3>2. Sanitized(r)' <=> Sanitized(r)
      BY <1>c, <2>2, <3>1, SanitizedKept
    <3> QED BY <2>1, <2>2, <3>1, <3>2 DEF Records
  <2>3. CASE CancelStage(r)
    BY <2>2, <2>3 DEF CancelStage
  <2>4. CASE CancelStore(r)
    <3>1. EnterFinally(r, ctx[r], TRUE) /\ UNCHANGED audit
          /\ pc[r] \in MainLoop /\ stage[r] = 8
      BY <1>t, <2>4 DEF CancelStore, MainLoop, StageOrder
    <3>2. ctx'[r] = ctx[r] /\ response'[r] = response[r]
      BY <1>c, <1>t, <3>1, EnterFinallyAt
    <3>3. ctx[r].token_mappings = "none"
      BY <1>t, <3>1 DEF StageOrder
    <3>4. ~Sanitized(r) /\ ~Sanitized(r)'
      BY <3>2, <3>3 DEF Sanitized
    <3> QED BY <2>1, <3>1, <3>2, <3>4 DEF Records
  <2>5. CASE CancelDelete(r)
    <3>1. cache'[r] = "absent" <=> cache[r] = "absent"
      BY <1>t, <2>5 DEF CancelDelete, Deleted, Stored, ServicesOK
    <3>2. Sanitized(r)' <=> Sanitized(r)
      BY <1>c, <2>5, <3>1, SanitizedKept DEF CancelDelete
    <3> QED BY <2>1, <2>5, <3>2 DEF CancelDelete, Records
  <2>6. CASE CancelAudit(r)
    BY <1>f, <1>t, <2>1, <2>6, CancelOutRecords DEF CancelAudit
  <2> QED BY <1>10, <2>3, <2>4, <2>5, <2>6 DEF Cancel
<1>11. CASE Expire(r)
  <2>1. cache'[r] = "absent" <=> cache[r] = "absent"
    BY <1>11, <1>t DEF Expire, Stored, ServicesOK
  <2>2. Sanitized(r)' <=> Sanitized(r)
    BY <1>11, <1>c, <2>1, SanitizedKept DEF Expire, taskVars
  <2> QED BY <1>11, <2>2 DEF Expire, taskVars, Records
<1>12. CASE LateCommit(r)
  <2>1. audit'[r] > 0
    BY <1>12, <1>c, <1>t, StoreEventType DEF LateCommit, ServicesOK
  <2>2. Sanitized(r)' <=> Sanitized(r)
    BY <1>12, <1>c, SanitizedKept DEF LateCommit, taskVars
  <2> QED BY <1>12, <2>1, <2>2 DEF LateCommit, taskVars, Records
<1> QED
  BY <1>1, <1>2, <1>3, <1>4, <1>5, <1>6, <1>7, <1>8, <1>9, <1>10, <1>11, <1>12
  DEF Step, Progress

\* The values of the refinement mapping.
Mapped == {q \in Requests : Sanitized(q)}
Forwarded == {q \in Requests : provider[q] # "none"}
Audited == {q \in Requests : audit[q] > 0}
AnswerOf(status) ==
    CASE status = 200 -> "complete"
      [] status \in {Open, Cancelled} -> "open"
      [] OTHER -> "rejected"
Answered == [q \in Requests |-> AnswerOf(response[q])]

\* What the client of an answered request was told.
LEMMA AnswerOfFacts ==
    /\ AnswerOf(Open) = "open" /\ AnswerOf(Cancelled) = "open"
    /\ AnswerOf(200) = "complete"
    /\ \A s \in Statuses : AnswerOf(s) = "rejected"
BY DEF AnswerOf, Open, Cancelled, Statuses

\* A step that leaves all requests but r alone changes the mapped state at r
\* only.
LEMMA MappedAt ==
    ASSUME NEW r \in Requests, Others(r)
    PROVE  /\ Mapped' = IF Sanitized(r)' THEN Mapped \cup {r} ELSE Mapped \ {r}
           /\ Forwarded' = IF provider'[r] # "none" THEN Forwarded \cup {r} ELSE Forwarded \ {r}
           /\ Audited' = IF audit'[r] > 0 THEN Audited \cup {r} ELSE Audited \ {r}
           /\ Answered' = [Answered EXCEPT ![r] = AnswerOf(response'[r])]
<1>1. \A q \in Requests : q # r => /\ Sanitized(q)' <=> Sanitized(q)
                                   /\ provider'[q] = provider[q]
                                   /\ audit'[q] = audit[q]
                                   /\ response'[q] = response[q]
  BY DEF Others, Same, Sanitized
<1>2. Mapped' = IF Sanitized(r)' THEN Mapped \cup {r} ELSE Mapped \ {r}
  BY <1>1 DEF Mapped
<1>3. Forwarded' = IF provider'[r] # "none" THEN Forwarded \cup {r} ELSE Forwarded \ {r}
  BY <1>1 DEF Forwarded
<1>4. Audited' = IF audit'[r] > 0 THEN Audited \cup {r} ELSE Audited \ {r}
  BY <1>1 DEF Audited
<1>5. Answered' = [Answered EXCEPT ![r] = AnswerOf(response'[r])]
  BY <1>1 DEF Answered
<1> QED BY <1>2, <1>3, <1>4, <1>5

\* The mapping substitutes these values.
LEMMA GatewayMapping ==
    /\ Gateway!gatewayVars = <<Mapped, Forwarded, Audited, Answered>>
    /\ \A r \in Requests :
          /\ Gateway!Sanitize(r) <=>
                /\ Answered[r] = "open"
                /\ Mapped' = Mapped \cup {r}
                /\ Forwarded' = Forwarded /\ Audited' = Audited /\ Answered' = Answered
          /\ Gateway!Forward(r) <=>
                /\ Answered[r] = "open"
                /\ r \in Mapped \ Forwarded
                /\ Forwarded' = Forwarded \cup {r}
                /\ Mapped' = Mapped /\ Audited' = Audited /\ Answered' = Answered
          /\ Gateway!Audit(r) <=>
                /\ Audited' = Audited \cup {r}
                /\ Mapped' = Mapped /\ Forwarded' = Forwarded /\ Answered' = Answered
          /\ Gateway!Complete(r) <=>
                /\ Answered[r] = "open"
                /\ r \in Forwarded
                /\ Audited' \in {Audited, Audited \cup {r}}
                /\ "chain" \in Configured => r \in Audited'
                /\ Answered' = [Answered EXCEPT ![r] = "complete"]
                /\ Mapped' = Mapped /\ Forwarded' = Forwarded
          /\ Gateway!Reject(r) <=>
                /\ Answered[r] = "open"
                /\ Audited' \in {Audited, Audited \cup {r}}
                /\ Answered' = [Answered EXCEPT ![r] = "rejected"]
                /\ Mapped' = Mapped /\ Forwarded' = Forwarded
BY DEF Gateway!gatewayVars, Gateway!Sanitize, Gateway!Forward, Gateway!Audit,
       Gateway!Complete, Gateway!Reject, Mapped, Forwarded, Audited, Answered, AnswerOf

\* Every step of the pipeline is a step of the gateway or leaves the mapped
\* state alone.
LEMMA GatewayStep ==
    ASSUME AccountInv, [Next]_vars
    PROVE  [Gateway!GNext]_(Gateway!gatewayVars)
<1>s. SUFFICES \/ \E r \in Requests : \/ Gateway!Sanitize(r) \/ Gateway!Forward(r)
                                      \/ Gateway!Audit(r) \/ Gateway!Complete(r)
                                      \/ Gateway!Reject(r)
               \/ /\ Mapped' = Mapped /\ Forwarded' = Forwarded
                  /\ Audited' = Audited /\ Answered' = Answered
  BY GatewayMapping DEF Gateway!GNext, Gateway!gatewayVars, Mapped, Forwarded, Audited, Answered, AnswerOf
<1>1. ASSUME NEW r \in Requests, Step(r)
      PROVE  \/ \/ Gateway!Sanitize(r) \/ Gateway!Forward(r) \/ Gateway!Audit(r)
                \/ Gateway!Complete(r) \/ Gateway!Reject(r)
             \/ /\ Mapped' = Mapped /\ Forwarded' = Forwarded
                /\ Audited' = Audited /\ Answered' = Answered
  <2>1. /\ Mapped' = IF Sanitized(r)' THEN Mapped \cup {r} ELSE Mapped \ {r}
        /\ Forwarded' = IF provider'[r] # "none" THEN Forwarded \cup {r} ELSE Forwarded \ {r}
        /\ Audited' = IF audit'[r] > 0 THEN Audited \cup {r} ELSE Audited \ {r}
        /\ Answered' = [Answered EXCEPT ![r] = AnswerOf(response'[r])]
    BY <1>1, StepOthers, MappedAt DEF AccountInv, PipelineInv
  <2>2. /\ r \in Mapped <=> Sanitized(r)
        /\ r \in Forwarded <=> provider[r] # "none"
        /\ r \in Audited <=> audit[r] > 0
        /\ Answered[r] = AnswerOf(response[r])
        /\ Answered = [Answered EXCEPT ![r] = AnswerOf(response[r])]
    BY DEF Mapped, Forwarded, Audited, Answered
  <2>m. /\ Sanitized(r) /\ Sanitized(r)' => Mapped' = Mapped
        /\ ~Sanitized(r) /\ ~Sanitized(r)' => Mapped' = Mapped
        /\ Sanitized(r)' => Mapped' = Mapped \cup {r}
    BY <2>1, <2>2
  <2>p. /\ provider'[r] = provider[r] => Forwarded' = Forwarded
        /\ provider'[r] # "none" => Forwarded' = Forwarded \cup {r}
    BY <2>1, <2>2
  <2>a. /\ audit'[r] = audit[r] => Audited' = Audited
        /\ (audit[r] > 0 => audit'[r] > 0) => Audited' \in {Audited, Audited \cup {r}}
        /\ audit'[r] > 0 => r \in Audited'
    BY <2>1, <2>2
  <2>r. AnswerOf(response'[r]) = AnswerOf(response[r]) => Answered' = Answered
    BY <2>1, <2>2
  <2>3. CASE Prepares(r)
    <3>1. Forwarded' = Forwarded /\ Audited' = Audited /\ Answered' = Answered
      BY <2>3, <2>p, <2>a, <2>r DEF Prepares
    <3>2. CASE ~Sanitized(r) /\ Sanitized(r)'
      <4>1. Mapped' = Mapped \cup {r} /\ response[r] = Open
        BY <2>3, <2>m, <3>2 DEF Prepares
      <4>2. Answered[r] = "open"
        BY <2>2, <4>1, AnswerOfFacts
      <4>3. Gateway!Sanitize(r)
        BY <3>1, <4>1, <4>2, GatewayMapping
      <4> QED BY <4>3
    <3>3. CASE ~(~Sanitized(r) /\ Sanitized(r)')
      <4>1. Mapped' = Mapped
        BY <2>3, <2>m, <3>3 DEF Prepares
      <4> QED BY <3>1, <4>1
    <3> QED BY <3>2, <3>3
  <2>4. CASE Sends(r)
    <3>1. /\ Mapped' = Mapped /\ Audited' = Audited /\ Answered' = Answered
          /\ Forwarded' = Forwarded \cup {r}
      BY <2>4, <2>m, <2>p, <2>a, <2>r DEF Sends
    <3>2. Answered[r] = "open" /\ r \in Mapped \ Forwarded
      BY <2>2, <2>4, AnswerOfFacts DEF Sends
    <3>3. Gateway!Forward(r)
      BY <3>1, <3>2, GatewayMapping
    <3> QED BY <3>3
  <2>5. CASE Records(r)
    <3>1. Mapped' = Mapped /\ Forwarded' = Forwarded
      BY <2>5, <2>m, <2>p DEF Records
    <3>2. Answered' = Answered
      BY <2>5, <2>r, AnswerOfFacts DEF Records
    <3>3. Audited' \in {Audited, Audited \cup {r}}
      BY <2>5, <2>a DEF Records
    <3>4. CASE Audited' = Audited
      BY <3>1, <3>2, <3>4
    <3>5. CASE Audited' = Audited \cup {r}
      <4>1. Gateway!Audit(r)
        BY <3>1, <3>2, <3>5, GatewayMapping
      <4> QED BY <4>1
    <3> QED BY <3>3, <3>4, <3>5
  <2>6. CASE Responds(r)
    <3>1. Mapped' = Mapped /\ Forwarded' = Forwarded
      BY <2>6, <2>m, <2>p DEF Responds
    <3>2. Answered[r] = "open" /\ Audited' \in {Audited, Audited \cup {r}}
      BY <2>2, <2>6, <2>a, AnswerOfFacts DEF Responds
    <3>3. CASE response'[r] = 200
      <4>1. r \in Forwarded /\ ("chain" \in Configured => r \in Audited')
        BY <2>2, <2>6, <2>a, <3>3 DEF Responds
      <4>2. Answered' = [Answered EXCEPT ![r] = "complete"]
        BY <2>1, <3>3, AnswerOfFacts
      <4>3. Gateway!Complete(r)
        BY <3>1, <3>2, <4>1, <4>2, GatewayMapping
      <4> QED BY <4>3
    <3>4. CASE response'[r] \in Statuses
      <4>1. Answered' = [Answered EXCEPT ![r] = "rejected"]
        BY <2>1, <3>4, AnswerOfFacts
      <4>2. Gateway!Reject(r)
        BY <3>1, <3>2, <4>1, GatewayMapping
      <4> QED BY <4>2
    <3> QED BY <2>6, <3>3, <3>4 DEF Responds
  <2> QED BY <1>1, <2>3, <2>4, <2>5, <2>6, StepKinds
<1>2. ASSUME UNCHANGED <<ctx, response, cache, provider, audit>>
      PROVE  /\ Mapped' = Mapped /\ Forwarded' = Forwarded
             /\ Audited' = Audited /\ Answered' = Answered
  BY <1>2 DEF Mapped, Forwarded, Audited, Answered, AnswerOf, Sanitized
<1> QED BY <1>1, <1>2 DEF Next, Step, Crash, Done, vars, taskVars

\* The pipeline implements the abstract gateway, for any set of requests,
\* any wiring of the services and any schedule of failures, retries,
\* cancellations and crashes.
THEOREM GatewayImplemented == Spec => ImplementsGateway
<1>1. Init => Gateway!GInit
  BY AnswerOfFacts DEF Init, Gateway!GInit, Sanitized, NewContext, AnswerOf, Open
<1>2. AccountInv /\ [Next]_vars => [Gateway!GNext]_(Gateway!gatewayVars)
  BY GatewayStep
<1> QED BY <1>1, <1>2, AccountInvariant, PTL DEF Spec, ImplementsGateway, Gateway!GSpec
=============================================================================
