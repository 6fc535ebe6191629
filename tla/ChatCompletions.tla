-------------------------- MODULE ChatCompletions ---------------------------
(***************************************************************************)
(* A non-streaming chat completion: the route handler, PipelineManager.run *)
(* over the thirteen stages, and the shared services the stages touch (the *)
(* mapping cache, the provider, the audit chain).                          *)
(*                                                                         *)
(* A step is what a request's task does between two awaits.  Between any   *)
(* two of them other requests run, the task may be cancelled, a mapping    *)
(* may expire, a commit whose reply was lost may land, and the process may *)
(* die.                                                                    *)
(***************************************************************************)
EXTENDS PipelineStages

CONSTANTS
    Requests,
    CacheFaults,    \* the cache operations that may fail: "store", "delete"
    AuditAttempts,  \* attempts of emit_anonymization_audit
    MaxCancels      \* bound on the cancellations of one task

ASSUME ChatAssumption ==
    /\ CacheFaults \subseteq {"store", "delete"}
    /\ AuditAttempts \in 1..5
    /\ MaxCancels \in Nat

VARIABLES
    pc,         \* where the task is suspended
    stage,      \* index of the running stage in StageList
    ctx,        \* the ProcessingContext
    surfaced,   \* the manager's saved error list, << >> for None
    inFinally,  \* the manager runs its guaranteed stages
    pending,    \* the manager's finally block unwinds a CancelledError
    raising,    \* CleanupStage's finally block unwinds a CancelledError
    attempt,    \* audit attempts made by the running CleanupStage
    cancels,    \* cancellations delivered so far
    response,   \* the HTTP status, or Open or Cancelled
    cache,      \* the mapping key of the request's context_id in Valkey;
                \* "kept" is one that outlived a delete that failed
    provider,   \* the body the provider received
    audit,      \* rows of the request's anonymization event in the chain
    inflight    \* a timed-out audit write may still commit

taskVars == <<pc, stage, ctx, surfaced, inFinally, pending, raising,
              attempt, cancels, response>>
vars == <<taskVars, cache, provider, audit, inflight>>

StageList == << "Classification", "LocaleNegotiation", "Detection",
                "SensitivityClassification", "PolicyEnforcement",
                "InboundDLP", "ToolGovernance", "Tokenization",
                "ForwardingGuard", "Provider", "OutboundDLP",
                "Restoration", "Cleanup" >>

\* The stages that reach a suspension point before they have any effect.
SuspendingStages == {"Detection", "PolicyEnforcement", "InboundDLP",
                     "ToolGovernance", "OutboundDLP"}

Open == 0
Cancelled == 1
Active == {"stage", "storing", "calling", "deleting", "auditing"}

StageOutcomes(name, c) ==
    CASE name = "Classification" -> ClassificationStage(c)
      [] name = "LocaleNegotiation" -> LocaleNegotiationStage(c)
      [] name = "Detection" -> DetectionStage(c)
      [] name = "SensitivityClassification" -> SensitivityClassificationStage(c)
      [] name = "PolicyEnforcement" -> PolicyEnforcementStage(c, Configured)
      [] name = "InboundDLP" -> InboundDLPStage(c, Configured)
      [] name = "ToolGovernance" -> ToolGovernanceStage(c, Configured)
      [] name = "Tokenization" -> TokenizationStage(c)
      [] name = "ForwardingGuard" -> ForwardingGuard(c)
      [] name = "Provider" -> ProviderRefusals(c)
      [] name = "OutboundDLP" -> OutboundDLPStage(c, Configured)
      [] name = "Restoration" -> RestorationStage(c)

Init ==
    /\ pc = [r \in Requests |-> "idle"]
    /\ stage = [r \in Requests |-> 1]
    /\ ctx = [r \in Requests |-> NewContext(FALSE)]
    /\ surfaced = [r \in Requests |-> << >>]
    /\ inFinally = [r \in Requests |-> FALSE]
    /\ pending = [r \in Requests |-> FALSE]
    /\ raising = [r \in Requests |-> FALSE]
    /\ attempt = [r \in Requests |-> 0]
    /\ cancels = [r \in Requests |-> 0]
    /\ response = [r \in Requests |-> Open]
    /\ cache = [r \in Requests |-> "absent"]
    /\ provider = [r \in Requests |-> "none"]
    /\ audit = [r \in Requests |-> 0]
    /\ inflight = [r \in Requests |-> FALSE]

-----------------------------------------------------------------------------
(***************************************************************************)
(* PipelineManager.run.                                                    *)
(***************************************************************************)

\* Mutated CleanupEntry: a failed request is not cleaned up.
CleanupEntry_SkipsFailed(c) ==
    IF c.token_mappings = "some" /\ ~HasErrors(c) THEN "deleting" ELSE "auditing"

\* CleanupStage deletes only a mapping that tokenization recorded.
CleanupEntry(c) == IF c.token_mappings = "some" THEN "deleting" ELSE "auditing"

\* The next stage of the main loop.
Advance(r, c) ==
    /\ ctx' = [ctx EXCEPT ![r] = c]
    /\ stage' = [stage EXCEPT ![r] = @ + 1]
    /\ pc' = [pc EXCEPT ![r] =
                IF StageList[stage[r] + 1] = "Cleanup"
                THEN CleanupEntry(c) ELSE "stage"]
    /\ UNCHANGED <<surfaced, inFinally, pending, raising, attempt, cancels,
                   response>>

\* Mutated EnterFinally: the guaranteed stage runs after an error, but not
\* after a cancellation.
EnterFinally_SkipsCancelled(r, c, cancelled) ==
    /\ ctx' = [ctx EXCEPT ![r] = c]
    /\ surfaced' = [surfaced EXCEPT ![r] = c.errors]
    /\ inFinally' = [inFinally EXCEPT ![r] = TRUE]
    /\ pending' = [pending EXCEPT ![r] = cancelled]
    /\ raising' = [raising EXCEPT ![r] = FALSE]
    /\ attempt' = [attempt EXCEPT ![r] = 0]
    /\ pc' = [pc EXCEPT ![r] = IF cancelled THEN "returned" ELSE CleanupEntry(c)]
    /\ response' = [response EXCEPT ![r] = IF cancelled THEN Cancelled ELSE @]
    /\ UNCHANGED stage

\* The main loop stopped before Cleanup, on an error of c or on a
\* CancelledError: the finally block runs the guaranteed stage.
EnterFinally(r, c, cancelled) ==
    /\ ctx' = [ctx EXCEPT ![r] = c]
    /\ surfaced' = [surfaced EXCEPT ![r] = c.errors]
    /\ inFinally' = [inFinally EXCEPT ![r] = TRUE]
    /\ pending' = [pending EXCEPT ![r] = cancelled]
    /\ raising' = [raising EXCEPT ![r] = FALSE]
    /\ attempt' = [attempt EXCEPT ![r] = 0]
    /\ pc' = [pc EXCEPT ![r] = CleanupEntry(c)]
    /\ UNCHANGED <<stage, response>>

\* Mutated AfterStage: a recorded error does not stop the loop.
AfterStage_IgnoresErrors(r, c) ==
    IF HasErrors(c) /\ StageList[stage[r]] = "Restoration"
    THEN EnterFinally(r, c, FALSE) /\ UNCHANGED cancels
    ELSE Advance(r, c)

\* One stage finished with context c: the loop goes on or breaks.
AfterStage(r, c) ==
    IF HasErrors(c)
    THEN EnterFinally(r, c, FALSE) /\ UNCHANGED cancels
    ELSE Advance(r, c)

\* The end of run and what the route handler makes of it.  A finally block
\* with a pending CancelledError lets it propagate.  A reply that is no chat
\* completion is a ValidationError, which the exception handler answers 422.
Answers(c) ==
    CASE HasErrors(c) -> {RaiseForPipelineErrors(c.errors)}
      [] ~HasErrors(c) /\ c.action = "BLOCK" -> {403}
      [] ~HasErrors(c) /\ c.action = "ROUTE_LOCAL" -> {501}
      [] OTHER -> IF "full" \in {c.restored_response, c.provider_response}
                  THEN {200, 422, 500} ELSE {500}

Return(r, c, status) ==
    /\ ctx' = [ctx EXCEPT ![r] = c]
    /\ response' = [response EXCEPT ![r] = status]
    /\ pc' = [pc EXCEPT ![r] = "returned"]
    /\ UNCHANGED <<stage, surfaced, inFinally, pending, raising, attempt>>

\* Mutated RestoreErrors: the error of the guaranteed stage stays last.
RestoreErrors_Keeps(r, c) == c

\* ctx.errors is reset to the saved list, so that the error that stopped the
\* main loop stays the last one even when cleanup failed too.
RestoreErrors(r, c) ==
    IF surfaced[r] # << >> THEN [c EXCEPT !.errors = surfaced[r]] ELSE c

\* CleanupStage ended with context c (its own failure recorded).
EndRun(r, c) ==
    IF pending[r]
    THEN Return(r, c, Cancelled)
    ELSE LET d == IF inFinally[r] THEN RestoreErrors(r, c) ELSE c
         IN  \E status \in Answers(d) : Return(r, d, status)

\* A CancelledError leaves CleanupStage: out of the main loop it starts the
\* finally block, which runs the stage again; out of that block it ends run.
CancelOutOfCleanup(r) ==
    IF inFinally[r]
    THEN Return(r, ctx[r], Cancelled)
    ELSE EnterFinally(r, ctx[r], TRUE)

-----------------------------------------------------------------------------
(***************************************************************************)
(* The steps of a request.                                                 *)
(***************************************************************************)

Receive(r) ==
    /\ pc[r] = "idle"
    /\ \E client \in BOOLEAN :
          ctx' = [ctx EXCEPT ![r] = NewContext(client)]
    /\ pc' = [pc EXCEPT ![r] = "stage"]
    /\ UNCHANGED <<stage, surfaced, inFinally, pending, raising, attempt,
                   cancels, response, cache, provider, audit, inflight>>

\* The pipeline is not initialised: 503 before anything runs.
NotReady(r) ==
    /\ pc[r] = "idle"
    /\ Return(r, ctx[r], 503)
    /\ UNCHANGED <<cancels, cache, provider, audit, inflight>>

\* A stage without an external effect, and the provider stage's refusals.
RunStage(r) ==
    /\ pc[r] = "stage"
    /\ \E c \in StageOutcomes(StageList[stage[r]], ctx[r]) :
          IF StageList[stage[r]] = "Tokenization" /\ ~HasErrors(c) /\ StoresMapping(c)
          THEN /\ ctx' = [ctx EXCEPT ![r] = c]
               /\ pc' = [pc EXCEPT ![r] = "storing"]
               /\ UNCHANGED <<stage, surfaced, inFinally, pending, raising,
                              attempt, cancels, response>>
          ELSE AfterStage(r, c)
    /\ UNCHANGED <<cache, provider, audit, inflight>>

\* CacheManager.store_mapping: one HSET and EXPIRE transaction, retried on
\* connection errors.  A failed call may have been applied.
StoreMapping(r) ==
    /\ pc[r] = "storing"
    /\ \/ /\ cache' = [cache EXCEPT ![r] = "present"]
          /\ AfterStage(r, MappingStored(ctx[r]))
       \/ /\ "store" \in CacheFaults
          /\ \E applied \in {"absent", "present"} :
                cache' = [cache EXCEPT ![r] = applied]
          /\ \E c \in MappingNotStored(ctx[r]) : AfterStage(r, c)
    /\ UNCHANGED <<provider, audit, inflight>>

\* ProviderStage posts the transformed body.
CallProvider(r) ==
    /\ pc[r] = "stage"
    /\ StageList[stage[r]] = "Provider"
    /\ ctx[r].transformed # "none"
    /\ provider' = [provider EXCEPT ![r] = ctx[r].transformed]
    /\ pc' = [pc EXCEPT ![r] = "calling"]
    /\ UNCHANGED <<stage, ctx, surfaced, inFinally, pending, raising, attempt,
                   cancels, response, cache, audit, inflight>>

ProviderAnswers(r) ==
    /\ pc[r] = "calling"
    /\ \E c \in ProviderReplies(ctx[r]) : AfterStage(r, c)
    /\ UNCHANGED <<cache, provider, audit, inflight>>

\* CacheManager.delete_mapping, when it works and when it does not.
Stored(r) == cache[r] \in {"present", "kept"}
Deleted(r) == cache' = [cache EXCEPT ![r] = IF Stored(r) THEN "deleted" ELSE @]
DeleteFailed(r) == cache' = [cache EXCEPT ![r] = IF Stored(r) THEN "kept" ELSE @]

\* CleanupStage deletes the mapping; a failure is logged and left to the TTL.
DeleteMapping(r) ==
    /\ pc[r] = "deleting"
    /\ \/ Deleted(r)
       \/ "delete" \in CacheFaults /\ DeleteFailed(r)
    /\ pc' = [pc EXCEPT ![r] = "auditing"]
    /\ UNCHANGED <<stage, ctx, surfaced, inFinally, pending, raising, attempt,
                   cancels, response, provider, audit, inflight>>

\* AuditChainService.store_event with the request's own event id: a row that
\* is already there is returned instead of inserted again.
StoreEvent(rows) == IF rows = 0 THEN 1 ELSE rows

\* What an audit write that raised left behind: nothing, a committed row, or
\* a commit that may still land.
FailedWrite(r) ==
    \/ UNCHANGED <<audit, inflight>>
    \/ /\ audit' = [audit EXCEPT ![r] = StoreEvent(@)]
       /\ UNCHANGED inflight
    \/ /\ inflight' = [inflight EXCEPT ![r] = TRUE]
       /\ UNCHANGED audit

\* emit_anonymization_audit: no chain, or a write that is acknowledged.
AuditWritten(r) ==
    /\ pc[r] = "auditing"
    /\ IF "chain" \in Configured
       THEN audit' = [audit EXCEPT ![r] = StoreEvent(@)]
       ELSE UNCHANGED audit
    /\ IF raising[r] THEN CancelOutOfCleanup(r) ELSE EndRun(r, ctx[r])
    /\ UNCHANGED <<cancels, cache, provider, inflight>>

\* Mutated RetryAudit: one attempt too many.
RetryAudit_OffByOne(r) == attempt[r] < AuditAttempts

\* range(1, max_attempts + 1) has another attempt.
RetryAudit(r) == attempt[r] + 1 < AuditAttempts

\* The retry loop of emit_anonymization_audit after a failed attempt.
NextAttempt(r) ==
    /\ attempt' = [attempt EXCEPT ![r] = @ + 1]
    /\ UNCHANGED <<pc, stage, ctx, surfaced, inFinally, pending, raising, response>>

\* Mutated AuditFails: the request is answered as if the write had succeeded.
AuditFails_Swallowed(r) ==
    /\ pc[r] = "auditing"
    /\ "chain" \in Configured
    /\ FailedWrite(r)
    /\ IF RetryAudit(r) THEN NextAttempt(r) ELSE EndRun(r, ctx[r])
    /\ UNCHANGED <<cancels, cache, provider>>

\* Mutated AuditFails: the attempts are not counted.
AuditFails_Forever(r) ==
    /\ pc[r] = "auditing"
    /\ "chain" \in Configured
    /\ FailedWrite(r)
    /\ UNCHANGED <<taskVars, cache, provider>>

\* An attempt fails and is retried, or was the last one: the stage raises a
\* 500, which also replaces a CancelledError it was unwinding.
AuditFails(r) ==
    /\ pc[r] = "auditing"
    /\ "chain" \in Configured
    /\ FailedWrite(r)
    /\ IF RetryAudit(r)
       THEN NextAttempt(r)
       ELSE EndRun(r, FailSecure(ctx[r], Abort(500)))
    /\ UNCHANGED <<cancels, cache, provider>>

-----------------------------------------------------------------------------
(***************************************************************************)
(* The environment.                                                        *)
(***************************************************************************)

\* A CancelledError is not an Exception: no stage catches it.  It is raised
\* at an await, and the interrupted call may or may not have taken effect.
CancelStage(r) ==
    /\ \/ pc[r] = "stage" /\ StageList[stage[r]] \in SuspendingStages
       \/ pc[r] = "calling"
    /\ EnterFinally(r, ctx[r], TRUE)
    /\ UNCHANGED <<cache, audit, inflight>>

CancelStore(r) ==
    /\ pc[r] = "storing"
    /\ \E applied \in {"absent", "present"} :
          cache' = [cache EXCEPT ![r] = applied]
    /\ EnterFinally(r, ctx[r], TRUE)
    /\ UNCHANGED <<audit, inflight>>

\* CleanupStage's own finally block still writes the audit event.
CancelDelete(r) ==
    /\ pc[r] = "deleting"
    /\ Deleted(r) \/ UNCHANGED cache
    /\ pc' = [pc EXCEPT ![r] = "auditing"]
    /\ raising' = [raising EXCEPT ![r] = TRUE]
    /\ UNCHANGED <<stage, ctx, surfaced, inFinally, pending, attempt,
                   response, audit, inflight>>

CancelAudit(r) ==
    /\ pc[r] = "auditing"
    /\ "chain" \in Configured
    /\ FailedWrite(r)
    /\ CancelOutOfCleanup(r)
    /\ UNCHANGED cache

Cancel(r) ==
    /\ cancels[r] < MaxCancels
    /\ cancels' = [cancels EXCEPT ![r] = @ + 1]
    /\ CancelStage(r) \/ CancelStore(r) \/ CancelDelete(r) \/ CancelAudit(r)
    /\ UNCHANGED provider

\* The mapping's TTL runs out (Valkey).
Expire(r) ==
    /\ Stored(r)
    /\ cache' = [cache EXCEPT ![r] = "expired"]
    /\ UNCHANGED <<taskVars, provider, audit, inflight>>

\* The commit of a write given up on reaches the database.
LateCommit(r) ==
    /\ inflight[r]
    /\ audit' = [audit EXCEPT ![r] = StoreEvent(@)]
    /\ inflight' = [inflight EXCEPT ![r] = FALSE]
    /\ UNCHANGED <<taskVars, cache, provider>>

\* The process dies: its tasks are gone, the services keep their state.
Crash ==
    /\ \E r \in Requests : pc[r] \in Active
    /\ pc' = [r \in Requests |-> IF pc[r] \in Active THEN "crashed" ELSE pc[r]]
    /\ UNCHANGED <<stage, ctx, surfaced, inFinally, pending, raising, attempt,
                   cancels, response, cache, provider, audit, inflight>>

Progress(r) ==
    \/ RunStage(r) \/ StoreMapping(r) \/ CallProvider(r) \/ ProviderAnswers(r)
    \/ DeleteMapping(r) \/ AuditWritten(r) \/ AuditFails(r)

\* Every request has been served and nothing is left to happen to it.
Quiet(r) == pc[r] \in {"returned", "crashed"} /\ ~Stored(r) /\ ~inflight[r]
Done == (\A r \in Requests : Quiet(r)) /\ UNCHANGED vars

Next ==
    \/ \E r \in Requests :
          \/ Receive(r) \/ NotReady(r) \/ Progress(r)
          \/ Cancel(r) \/ Expire(r) \/ LateCommit(r)
    \/ Crash
    \/ Done

Spec == Init /\ [][Next]_vars

\* The event loop runs every ready task, and every call a task waits for is
\* bounded by a timeout; keys with a TTL expire.
FairSpec ==
    Spec /\ \A r \in Requests : WF_vars(Progress(r)) /\ WF_vars(Expire(r))
-----------------------------------------------------------------------------
(***************************************************************************)
(* Properties.                                                             *)
(***************************************************************************)

\* The body of r may leave the gateway.
Sanitized(r) ==
    /\ ctx[r].action = "ANONYMIZE"
    /\ ctx[r].detections # "none"
    /\ ctx[r].token_mappings # "none"
    /\ ctx[r].detections = "empty" \/ ctx[r].transformed = "tokenized"
    /\ ctx[r].detections = "reversible" => cache[r] # "absent"

\* Type invariant of the task, the manager's locals and the services.
TypeOK ==
    /\ pc \in [Requests -> Active \cup {"idle", "returned", "crashed"}]
    /\ stage \in [Requests -> 1..Len(StageList)]
    /\ ctx \in [Requests -> Contexts]
    /\ surfaced \in [Requests -> Seq(Errors)]
    /\ inFinally \in [Requests -> BOOLEAN]
    /\ pending \in [Requests -> BOOLEAN]
    /\ raising \in [Requests -> BOOLEAN]
    /\ attempt \in [Requests -> 0..(AuditAttempts - 1)]
    /\ cancels \in [Requests -> 0..MaxCancels]
    /\ response \in [Requests -> Statuses \cup {Open, Cancelled, 200}]
    /\ cache \in [Requests -> {"absent", "present", "kept", "deleted", "expired"}]
    /\ provider \in [Requests -> Bodies]
    /\ audit \in [Requests -> Nat]
    /\ inflight \in [Requests -> BOOLEAN]

\* Whatever fails, is cancelled or expires, a body that reached the provider
\* went through classification and detection, is a verbatim copy only when
\* nothing was detected, and, when it holds reversible tokens, was sent after
\* their mapping was written (ForwardingGuard, TokenizationStage,
\* ProviderStage).
NoCleartextForwarded ==
    \A r \in Requests : provider[r] # "none" =>
        /\ ctx[r].action = "ANONYMIZE"
        /\ ctx[r].detections # "none"
        /\ provider[r] = "copy" => ctx[r].detections = "empty"
        /\ ctx[r].detections = "reversible" => cache[r] # "absent"

\* No client sees a 200 before the request's audit event is in the chain,
\* although the write may be retried, time out or be cancelled on the way
\* (CleanupStage, emit_anonymization_audit).
CompleteMeansAudited ==
    \A r \in Requests :
        response[r] = 200 /\ "chain" \in Configured => audit[r] > 0

\* The status the client sees is that of the error that stopped the pipeline,
\* also when the guaranteed cleanup fails after it (PipelineManager.run).
FirstErrorSurfaces ==
    \A r \in Requests :
        /\ pc[r] = "returned"
        /\ HasErrors(ctx[r])
        /\ response[r] # Cancelled
        => response[r] = StatusOf(Head(ctx[r].errors))

\* The task was not cancelled, or once and the CancelledError reached the
\* manager's main loop: the interruption the guaranteed stages are there to
\* survive.  (It does not get there when it hits the finally block, nor when
\* it hits the delete of CleanupStage and the audit write then fails: the 500
\* replaces it and cleanup counts as run.)
InterruptedOnce(r) == cancels[r] = 0 \/ (cancels[r] = 1 /\ pending[r])

\* A request that ended after its mapping was stored has no mapping left in
\* the cache but one that a delete was tried on and failed, even if a
\* cancellation interrupted the main loop anywhere, cleanup included.
MappingReleased ==
    \A r \in Requests :
        /\ pc[r] = "returned"
        /\ ctx[r].token_mappings = "some"
        /\ InterruptedOnce(r)
        => cache[r] # "present"

\* A request that went through the pipeline ends without an audit event only
\* after every attempt of its last cleanup failed, even if a cancellation
\* interrupted the main loop anywhere (the guaranteed run of CleanupStage).
AuditGivenUpOnlyAfterAllAttempts ==
    \A r \in Requests :
        /\ pc[r] = "returned"
        /\ inFinally[r] \/ StageList[stage[r]] = "Cleanup"
        /\ "chain" \in Configured
        /\ InterruptedOnce(r)
        /\ audit[r] = 0
        => attempt[r] + 1 = AuditAttempts

\* A failure reaches the client as itself and the audit log by every attempt.
FailuresAccounted ==
    /\ FirstErrorSurfaces
    /\ AuditGivenUpOnlyAfterAllAttempts

\* Once an error is recorded or the run is being cancelled, nothing more is
\* sent to the provider; and a request is sent at most once (fail_secure).
ForwardOnlyWhileClean ==
    [][\A r \in Requests : provider'[r] # provider[r] =>
          /\ provider[r] = "none"
          /\ ~HasErrors(ctx[r])
          /\ ~pending[r]
          /\ cancels[r] = 0]_vars

\* Every request that is received is answered, cancelled or lost with its
\* process: the retries of the audit write are bounded and the cleanup of a
\* cancelled task ends.
EveryRequestEnds ==
    \A r \in Requests : pc[r] \in Active ~> pc[r] \in {"returned", "crashed"}

\* The inductive strengthening of NoCleartextForwarded: how far the main loop
\* got decides which fields of the context are set, and what the provider
\* received is the body the guard let through.
MainLoop == {"stage", "storing", "calling"}

StageOrder(r) ==
    /\ pc[r] \in MainLoop =>
          /\ stage[r] < Len(StageList)
          /\ ~HasErrors(ctx[r])
          /\ ~pending[r] /\ ~inFinally[r]
          /\ cancels[r] = 0
          /\ stage[r] > 1 => ctx[r].action = "ANONYMIZE"
          /\ stage[r] > 3 => ctx[r].detections # "none"
          /\ stage[r] < 9 => ctx[r].token_mappings = "none"
          /\ stage[r] < 11 /\ pc[r] # "calling" => provider[r] = "none"
    /\ pc[r] = "idle" => stage[r] = 1 /\ cancels[r] = 0 /\ ~pending[r] /\ ~inFinally[r]
    /\ pc[r] = "storing" => /\ stage[r] = 8
                            /\ ctx[r].transformed = "tokenized"
    /\ pc[r] = "calling" => stage[r] = 10
    /\ stage[r] > 8 => /\ Sanitized(r)
                       /\ ctx[r].transformed = "copy" => ctx[r].detections = "empty"
    /\ provider[r] # "none" => stage[r] > 9 /\ provider[r] = ctx[r].transformed

PipelineInv == TypeOK /\ \A r \in Requests : StageOrder(r)

Gateway == INSTANCE AnonymizingGateway WITH
    AuditRequired <- "chain" \in Configured,
    mapped <- {r \in Requests : Sanitized(r)},
    forwarded <- {r \in Requests : provider[r] # "none"},
    audited <- {r \in Requests : audit[r] > 0},
    answer <- [r \in Requests |->
                  CASE response[r] = 200 -> "complete"
                    [] response[r] \in {Open, Cancelled} -> "open"
                    [] OTHER -> "rejected"]

\* The pipeline, with its retries, cancellations and crashes, does what the
\* gateway promises for each request.
ImplementsGateway == Gateway!GSpec
-----------------------------------------------------------------------------
(***************************************************************************)
(* Said of the code and not kept by it; each comment names the exception.  *)
(***************************************************************************)

\* The guaranteed cleanup leaves no mapping behind unless its delete failed.
\* Except for one whose store_mapping raised after it was applied: it is not
\* recorded on the context, so CleanupStage leaves it to its TTL.
FailedRequestLeavesNoMapping ==
    \A r \in Requests :
        pc[r] = "returned" /\ cancels[r] = 0 => cache[r] # "present"
=============================================================================
