----------------------------- MODULE ChatStream -----------------------------
(***************************************************************************)
(* A streaming chat completion: _stream_chat_completions, the generator it *)
(* hands to the server, SessionCleanup, and the secret rotation buffer the *)
(* stream takes a session of.                                              *)
(*                                                                         *)
(* The handler and its generator are one task, suspended at awaits and at  *)
(* the generator's yields.  A cancellation at an await is raised there.  A *)
(* cancellation at a yield is raised in the server, which drops the        *)
(* generator: the event loop then closes it from a task of its own, in     *)
(* another contextvars Context.                                            *)
(***************************************************************************)
EXTENDS PipelineStages

CONSTANTS
    Requests,
    CacheFaults,    \* the cache operations that may fail
    AuditAttempts,  \* attempts of emit_anonymization_audit
    MaxCancels,     \* bound on the cancellations of one task
    MaxVersion      \* bound on the versions of the provider secrets

ASSUME StreamAssumption ==
    /\ CacheFaults \subseteq {"store", "fetch", "delete"}
    /\ AuditAttempts \in 1..5
    /\ MaxCancels \in Nat
    /\ MaxVersion \in Nat

VARIABLES
    task,       \* the handler and its generator, one record per request
    store,      \* version of the process-wide RuntimeSecretStore
    rotation,   \* the SecretRotationBuffer
    cache,      \* the mapping key of the request's context_id in Valkey;
                \* "kept" is one that outlived a delete that failed
    provider,   \* the body the provider received
    key,        \* version of the credential it was sent with
    audit,      \* terminal state of the request's event in the chain
    inflight    \* a timed-out audit write may still commit

services == <<cache, provider, key, audit, inflight>>
vars == <<task, store, rotation, services>>

StreamStages == << "Classification", "LocaleNegotiation", "Detection",
                   "SensitivityClassification", "PolicyEnforcement",
                   "InboundDLP", "ToolGovernance", "Tokenization",
                   "ForwardingGuard" >>

Open == 0
Cancelled == 1
None == "none"
NoSession == MaxVersion + 1

Early == {"stage", "storing", "ready"}
Started == {"fetching", "streaming", "yielding", "closing"}
InCleanup == {"deleting", "auditing"}
Active == Early \cup Started \cup InCleanup

\* The fields of a task: path is the call of cleanup() that is running or has
\* run, terminal the terminal_state it records, verdict the HTTP error of a
\* rejected request, foreign whether the generator is closed from another
\* Context, outcome how the event loop of the generator ended.
NewTask == [pc |-> "idle", stage |-> 1, ctx |-> NewContext(FALSE),
            path |-> None, terminal |-> "FINISH", outcome |-> None,
            verdict |-> Open, raising |-> FALSE, foreign |-> FALSE,
            attempt |-> 0, cancels |-> 0, header |-> 0,
            status |-> Open, frame |-> None]

Init ==
    /\ task = [r \in Requests |-> NewTask]
    /\ store = 0
    /\ rotation = [current |-> 0, previous |-> NoSession,
                   sessions |-> [r \in Requests |-> NoSession]]
    /\ cache = [r \in Requests |-> "absent"]
    /\ provider = [r \in Requests |-> None]
    /\ key = [r \in Requests |-> NoSession]
    /\ audit = [r \in Requests |-> None]
    /\ inflight = [r \in Requests |-> FALSE]

-----------------------------------------------------------------------------
(***************************************************************************)
(* SecretVolumeReloader.reload and SecretRotationBuffer.  reload runs in   *)
(* the watcher's thread: the store is replaced, then the buffer rotates.   *)
(***************************************************************************)
ReplaceStore ==
    /\ store = rotation.current
    /\ store < MaxVersion
    /\ store' = store + 1
    /\ UNCHANGED <<task, rotation, services>>

Rotate ==
    /\ store # rotation.current
    /\ rotation' = [rotation EXCEPT !.previous = rotation.current,
                                    !.current = store]
    /\ UNCHANGED <<task, store, services>>

BeginSession(r) ==
    rotation' = [rotation EXCEPT !.sessions[r] = rotation.current]

\* Mutated EndSession: every session that ends drops the previous snapshot.
EndSession_DropsAlways(r) ==
    rotation' = [rotation EXCEPT !.sessions[r] = NoSession, !.previous = NoSession]

\* The previous snapshot is dropped with the last session.
EndSession(r) ==
    LET sessions == [rotation.sessions EXCEPT ![r] = NoSession]
    IN  rotation' = [rotation EXCEPT
            !.sessions = sessions,
            !.previous = IF \A q \in Requests : sessions[q] = NoSession
                         THEN NoSession ELSE @]

-----------------------------------------------------------------------------
(***************************************************************************)
(* Before the stream.  The pipeline of the streaming handler is built      *)
(* without app_state, so its policy, DLP and tool stages do nothing.       *)
(***************************************************************************)
StreamStageOutcomes(name, c) ==
    CASE name = "Classification" -> ClassificationStage(c)
      [] name = "LocaleNegotiation" -> LocaleNegotiationStage(c)
      [] name = "Detection" -> DetectionStage(c)
      [] name = "SensitivityClassification" -> SensitivityClassificationStage(c)
      [] name = "PolicyEnforcement" -> PolicyEnforcementStage(c, {})
      [] name = "InboundDLP" -> InboundDLPStage(c, {})
      [] name = "ToolGovernance" -> ToolGovernanceStage(c, {})
      [] name = "Tokenization" -> TokenizationStage(c)
      [] name = "ForwardingGuard" -> ForwardingGuard(c)

Receive(r) ==
    /\ task[r].pc = "idle"
    /\ \E client \in BOOLEAN :
          task' = [task EXCEPT ![r].pc = "stage", ![r].ctx = NewContext(client)]
    /\ BeginSession(r)
    /\ UNCHANGED <<store, services>>

\* A deployment mode without detection: the session is already open.
NotReady(r) ==
    /\ task[r].pc = "idle"
    /\ task' = [task EXCEPT ![r].pc = "ended", ![r].status = 503]
    /\ BeginSession(r)
    /\ UNCHANGED <<store, services>>

\* SessionCleanup.cleanup is called for the first time.
EnterCleanup(r, t, path) ==
    task' = [task EXCEPT ![r] = [t EXCEPT !.path = path, !.pc = "deleting"]]

\* Mutated RejectEarly: the terminal state is left at its default.
RejectEarly_KeepsState(r, t, status) ==
    EnterCleanup(r, [t EXCEPT !.verdict = status], "early")

\* The handler's except block: clean up, then answer with the error.
RejectEarly(r, t, status) ==
    EnterCleanup(r, [t EXCEPT !.terminal = "REJECTED", !.verdict = status], "early")

\* The last stage passed: the alias, the provider and the request translation
\* may still refuse.  The translation writes the credential of the
\* process-wide store into the request headers.
Prepare(r, t) ==
    \/ task' = [task EXCEPT ![r] = [t EXCEPT !.pc = "ready", !.header = store]]
    \/ \E status \in {400, 500, 502, 503} : RejectEarly(r, t, status)

\* Mutated AfterStage: the handler goes on without looking at the errors.
AfterStage_NoRaise(r, c) ==
    LET t == [task[r] EXCEPT !.ctx = c]
    IN  IF HasErrors(c) \/ t.stage = Len(StreamStages)
        THEN Prepare(r, t)
        ELSE task' = [task EXCEPT ![r] = [t EXCEPT !.stage = @ + 1, !.pc = "stage"]]

\* PipelineManager.run after a stage left context c, and what the handler
\* makes of the end of the run (this pipeline has no guaranteed stage).
AfterStage(r, c) ==
    LET t == [task[r] EXCEPT !.ctx = c]
    IN  CASE HasErrors(c) -> RejectEarly(r, t, RaiseForPipelineErrors(c.errors))
          [] ~HasErrors(c) /\ t.stage = Len(StreamStages) -> Prepare(r, t)
          [] OTHER -> task' = [task EXCEPT
                          ![r] = [t EXCEPT !.stage = @ + 1, !.pc = "stage"]]

RunStage(r) ==
    LET name == StreamStages[task[r].stage]
    IN  /\ task[r].pc = "stage"
        /\ \E c \in StreamStageOutcomes(name, task[r].ctx) :
              IF name = "Tokenization" /\ ~HasErrors(c) /\ StoresMapping(c)
              THEN task' = [task EXCEPT ![r].ctx = c, ![r].pc = "storing"]
              ELSE AfterStage(r, c)
        /\ UNCHANGED <<store, rotation, services>>

StoreMapping(r) ==
    /\ task[r].pc = "storing"
    /\ \/ /\ cache' = [cache EXCEPT ![r] = "present"]
          /\ AfterStage(r, MappingStored(task[r].ctx))
       \/ /\ "store" \in CacheFaults
          /\ \E applied \in {"absent", "present"} :
                cache' = [cache EXCEPT ![r] = applied]
          /\ \E c \in MappingNotStored(task[r].ctx) : AfterStage(r, c)
    /\ UNCHANGED <<store, rotation, provider, key, audit, inflight>>

-----------------------------------------------------------------------------
(***************************************************************************)
(* The generator.                                                          *)
(***************************************************************************)

\* The server sends the 200 and asks for the first frame.
StartStream(r) ==
    /\ task[r].pc = "ready"
    /\ task' = [task EXCEPT ![r].pc = "fetching", ![r].status = 200]
    /\ UNCHANGED <<store, rotation, services>>

\* The generator's finally block, when no cleanup has begun.
EnterFinally(r, foreign) ==
    EnterCleanup(r, [task[r] EXCEPT !.foreign = foreign], "finally")

\* start_session reads the mapping, then the provider is called with the
\* headers made before the stream; a failing read ends in the finally block.
FetchMapping(r) ==
    /\ task[r].pc = "fetching"
    /\ \/ /\ provider' = [provider EXCEPT ![r] = task[r].ctx.transformed]
          /\ key' = [key EXCEPT ![r] = task[r].header]
          /\ task' = [task EXCEPT ![r].pc = "streaming"]
       \/ /\ "fetch" \in CacheFaults
          /\ EnterFinally(r, FALSE)
          /\ UNCHANGED <<provider, key>>
    /\ UNCHANGED <<store, rotation, cache, audit, inflight>>

\* The event loop stops on a finish event, an error event, an exception, the
\* end of the provider's stream, or a client that is gone; all but the last
\* end with a frame to send (an exhausted stream has none when its buffer is
\* empty).
StreamEvent(r) ==
    /\ task[r].pc = "streaming"
    /\ \/ \E outcome \in {"finish", "exhausted"} :
             task' = [task EXCEPT ![r].pc = "yielding", ![r].outcome = outcome]
       \/ task' = [task EXCEPT ![r].pc = "yielding", ![r].outcome = "error",
                               ![r].terminal = "PROVIDER_ERROR", ![r].frame = "error"]
       \/ EnterCleanup(r, [task[r] EXCEPT !.outcome = "exhausted"], "normal")
       \/ EnterCleanup(r, [task[r] EXCEPT !.outcome = "disconnect",
                                          !.terminal = "CLIENT_DISCONNECT"], "normal")
    /\ UNCHANGED <<store, rotation, services>>

\* The frame was sent: the generator closes the stream.
CloseStream(r) ==
    /\ task[r].pc = "yielding"
    /\ EnterCleanup(r, task[r], "normal")
    /\ UNCHANGED <<store, rotation, services>>

\* Mutated LeaveGenerator: end_session follows the closing frame instead of
\* being in the finally block.
LeaveGenerator_AfterDone(r, t) ==
    /\ task' = [task EXCEPT ![r] = [t EXCEPT !.pc = "ended"]]
    /\ IF t.frame = "done" THEN EndSession(r) ELSE UNCHANGED rotation

\* The end of the finally block: resetting the request-scoped secret store
\* raises in a Context other than the one that set it, before end_session.
LeaveGenerator(r, t) ==
    /\ task' = [task EXCEPT ![r] = [t EXCEPT !.pc = "ended"]]
    /\ IF t.foreign THEN UNCHANGED rotation ELSE EndSession(r)

\* The closing frame was sent.
FinishStream(r) ==
    /\ task[r].pc = "closing"
    /\ LeaveGenerator(r, task[r])
    /\ UNCHANGED <<store, services>>

-----------------------------------------------------------------------------
(***************************************************************************)
(* SessionCleanup.cleanup, from its three call sites.                      *)
(***************************************************************************)

\* CacheManager.delete_mapping, when it works and when it does not.
Stored(r) == cache[r] \in {"present", "kept"}
Deleted(r) == cache' = [cache EXCEPT ![r] = IF Stored(r) THEN "deleted" ELSE @]
DeleteFailed(r) == cache' = [cache EXCEPT ![r] = IF Stored(r) THEN "kept" ELSE @]

\* Mutated DeleteMapping: only a mapping recorded on the context is deleted.
DeleteMapping_RecordedOnly(r) ==
    /\ task[r].pc = "deleting"
    /\ \/ IF task[r].ctx.token_mappings = "some" THEN Deleted(r) ELSE UNCHANGED cache
       \/ "delete" \in CacheFaults /\ DeleteFailed(r)
    /\ task' = [task EXCEPT ![r].pc = "auditing"]
    /\ UNCHANGED <<store, rotation, provider, key, audit, inflight>>

\* cleanup deletes the key of the context, recorded by tokenization or not; a
\* failure is logged.
DeleteMapping(r) ==
    /\ task[r].pc = "deleting"
    /\ \/ Deleted(r)
       \/ "delete" \in CacheFaults /\ DeleteFailed(r)
    /\ task' = [task EXCEPT ![r].pc = "auditing"]
    /\ UNCHANGED <<store, rotation, provider, key, audit, inflight>>

\* Mutated CloseFrame: [DONE] whatever the audit write did.
CloseFrame_Always(ok) == "done"

\* The frame the generator closes with.
CloseFrame(ok) == IF ok THEN "done" ELSE "error"

\* cleanup returned (ok) or raised the audit error.
CleanupEnds(r, ok) ==
    LET t == task[r]
    IN  CASE t.path = "early" ->
               /\ task' = [task EXCEPT ![r].pc = "ended",
                                       ![r].status = IF ok THEN t.verdict ELSE 500]
               /\ IF ok THEN EndSession(r) ELSE UNCHANGED rotation
          [] t.path = "normal" /\ t.terminal # "CLIENT_DISCONNECT" ->
               /\ task' = [task EXCEPT ![r].pc = "closing", ![r].frame = CloseFrame(ok)]
               /\ UNCHANGED rotation
          [] OTHER -> LeaveGenerator(r, t)

\* A CancelledError leaves cleanup: it skips end_session in the handler and in
\* the finally block, but not in the generator's body.
CleanupCancelled(r, t) ==
    IF t.path = "normal"
    THEN LeaveGenerator(r, t)
    ELSE /\ task' = [task EXCEPT ![r] =
                [t EXCEPT !.pc = "ended",
                          !.status = IF t.path = "early" THEN Cancelled ELSE @]]
         /\ UNCHANGED rotation

\* AuditChainService.store_event under the request's own event id.
StoreEvent(r) == IF audit[r] = None THEN task[r].terminal ELSE audit[r]

FailedWrite(r) ==
    \/ UNCHANGED <<audit, inflight>>
    \/ /\ audit' = [audit EXCEPT ![r] = StoreEvent(r)]
       /\ UNCHANGED inflight
    \/ /\ inflight' = [inflight EXCEPT ![r] = TRUE]
       /\ UNCHANGED audit

AuditWritten(r) ==
    /\ task[r].pc = "auditing"
    /\ IF "chain" \in Configured
       THEN audit' = [audit EXCEPT ![r] = StoreEvent(r)]
       ELSE UNCHANGED audit
    /\ IF task[r].raising THEN CleanupCancelled(r, task[r]) ELSE CleanupEnds(r, TRUE)
    /\ UNCHANGED <<store, cache, provider, key, inflight>>

\* Mutated AuditFails: the attempts are not counted.
AuditFails_Forever(r) ==
    /\ task[r].pc = "auditing"
    /\ "chain" \in Configured
    /\ FailedWrite(r)
    /\ UNCHANGED <<task, rotation, store, cache, provider, key>>

\* Mutated RetryAudit: one attempt too many.
RetryAudit_OffByOne(r) == task[r].attempt < AuditAttempts

\* range(1, max_attempts + 1) has another attempt.
RetryAudit(r) == task[r].attempt + 1 < AuditAttempts

\* The last failure is raised, in place of a CancelledError being unwound.
AuditFails(r) ==
    /\ task[r].pc = "auditing"
    /\ "chain" \in Configured
    /\ FailedWrite(r)
    /\ IF RetryAudit(r)
       THEN task' = [task EXCEPT ![r].attempt = @ + 1] /\ UNCHANGED rotation
       ELSE CleanupEnds(r, FALSE)
    /\ UNCHANGED <<store, cache, provider, key>>

-----------------------------------------------------------------------------
(***************************************************************************)
(* The environment.                                                        *)
(***************************************************************************)
Interrupted(t) == [t EXCEPT !.cancels = @ + 1]

\* The handler re-raises a cancellation without cleaning up; a response whose
\* generator never started has nothing to clean up with.
CancelEarly(r) ==
    /\ \/ task[r].pc = "stage" /\ StreamStages[task[r].stage] = "Detection"
       \/ task[r].pc \in {"storing", "ready"}
    /\ \/ UNCHANGED cache
       \/ task[r].pc = "storing" /\ cache' = [cache EXCEPT ![r] = "present"]
    /\ task' = [task EXCEPT ![r] = [Interrupted(@) EXCEPT !.pc = "ended",
                                                          !.status = Cancelled]]
    /\ UNCHANGED <<rotation, audit, inflight>>

CancelInGenerator(r) ==
    /\ task[r].pc \in {"fetching", "streaming"}
    /\ EnterCleanup(r, Interrupted(task[r]), "finally")
    /\ UNCHANGED <<rotation, cache, audit, inflight>>

\* The generator is dropped at one of its yields.
Abandon(r) ==
    /\ \/ /\ task[r].pc \in {"streaming", "yielding"}
          /\ EnterCleanup(r, [Interrupted(task[r]) EXCEPT !.foreign = TRUE], "finally")
          /\ UNCHANGED rotation
       \/ /\ task[r].pc = "closing"
          /\ LeaveGenerator(r, [Interrupted(task[r]) EXCEPT !.foreign = TRUE])
    /\ UNCHANGED <<cache, audit, inflight>>

\* cleanup's finally block still writes the audit event.
CancelDelete(r) ==
    /\ task[r].pc = "deleting"
    /\ Deleted(r) \/ UNCHANGED cache
    /\ task' = [task EXCEPT ![r] = [Interrupted(@) EXCEPT !.pc = "auditing",
                                                          !.raising = TRUE]]
    /\ UNCHANGED <<rotation, audit, inflight>>

CancelAudit(r) ==
    /\ task[r].pc = "auditing"
    /\ "chain" \in Configured
    /\ FailedWrite(r)
    /\ CleanupCancelled(r, Interrupted(task[r]))
    /\ UNCHANGED cache

\* Nobody cancels the task in which the event loop closes a generator.
Cancel(r) ==
    /\ task[r].cancels < MaxCancels
    /\ ~task[r].foreign
    /\ \/ CancelEarly(r) \/ CancelInGenerator(r) \/ Abandon(r)
       \/ CancelDelete(r) \/ CancelAudit(r)
    /\ UNCHANGED <<store, provider, key>>

Expire(r) ==
    /\ Stored(r)
    /\ cache' = [cache EXCEPT ![r] = "expired"]
    /\ UNCHANGED <<task, store, rotation, provider, key, audit, inflight>>

LateCommit(r) ==
    /\ inflight[r]
    /\ audit' = [audit EXCEPT ![r] = StoreEvent(r)]
    /\ inflight' = [inflight EXCEPT ![r] = FALSE]
    /\ UNCHANGED <<task, store, rotation, cache, provider, key>>

\* The process dies.
Crash ==
    /\ \E r \in Requests : task[r].pc \in Active
    /\ task' = [r \in Requests |->
          IF task[r].pc \in Active THEN [task[r] EXCEPT !.pc = "crashed"] ELSE task[r]]
    /\ UNCHANGED <<store, rotation, services>>

CleanupStep(r) == DeleteMapping(r) \/ AuditWritten(r) \/ AuditFails(r) \/ FinishStream(r)

Quiet(r) ==
    task[r].pc \in {"ended", "crashed"} /\ ~Stored(r) /\ ~inflight[r]
Done == (\A r \in Requests : Quiet(r)) /\ UNCHANGED vars

Next ==
    \/ \E r \in Requests :
          \/ Receive(r) \/ NotReady(r) \/ RunStage(r) \/ StoreMapping(r)
          \/ StartStream(r) \/ FetchMapping(r) \/ StreamEvent(r) \/ CloseStream(r)
          \/ CleanupStep(r) \/ Cancel(r) \/ Expire(r) \/ LateCommit(r)
    \/ ReplaceStore \/ Rotate
    \/ Crash
    \/ Done

Spec == Init /\ [][Next]_vars

\* The event loop runs every ready task; the cache and audit calls are bounded
\* by timeouts.  How long a provider streams is not bounded by the gateway.
FairSpec == Spec /\ \A r \in Requests : WF_vars(CleanupStep(r))
-----------------------------------------------------------------------------
(***************************************************************************)
(* Properties.                                                             *)
(***************************************************************************)
Tasks == [pc : Active \cup {"idle", "ended", "crashed"},
          stage : 1..Len(StreamStages),
          ctx : Contexts,
          path : {None, "early", "normal", "finally"},
          terminal : {"FINISH", "REJECTED", "PROVIDER_ERROR", "CLIENT_DISCONNECT"},
          outcome : {None, "finish", "exhausted", "error", "disconnect"},
          verdict : Statuses \cup {Open},
          raising : BOOLEAN,
          foreign : BOOLEAN,
          attempt : 0..(AuditAttempts - 1),
          cancels : 0..MaxCancels,
          header : 0..MaxVersion,
          status : Statuses \cup {Open, Cancelled, 200},
          frame : {None, "error", "done"}]

\* Type invariant of the tasks, the secret store and buffer, and the services.
TypeOK ==
    /\ task \in [Requests -> Tasks]
    /\ store \in 0..MaxVersion
    /\ rotation \in [current : 0..MaxVersion, previous : 0..NoSession,
                     sessions : [Requests -> 0..NoSession]]
    /\ cache \in [Requests -> {"absent", "present", "kept", "deleted", "expired"}]
    /\ provider \in [Requests -> Bodies]
    /\ key \in [Requests -> 0..NoSession]
    /\ audit \in [Requests -> {None, "FINISH", "REJECTED", "PROVIDER_ERROR",
                               "CLIENT_DISCONNECT"}]
    /\ inflight \in [Requests -> BOOLEAN]

\* The body of r may leave the gateway.
Sanitized(r) ==
    LET c == task[r].ctx
    IN  /\ c.action = "ANONYMIZE"
        /\ c.detections # "none"
        /\ c.token_mappings # "none"
        /\ c.detections = "empty" \/ c.transformed = "tokenized"
        /\ c.detections = "reversible" => cache[r] # "absent"

\* A body that a stream sent to the provider went through classification and
\* detection, is a verbatim copy only when nothing was detected, and was sent
\* after its mapping was written, although the streaming handler runs the
\* stages itself and calls the provider from the generator.
StreamsNoCleartext ==
    \A r \in Requests : provider[r] # "none" =>
        /\ task[r].ctx.action = "ANONYMIZE"
        /\ ~HasErrors(task[r].ctx)
        /\ provider[r] = "copy" => task[r].ctx.detections = "empty"
        /\ task[r].ctx.detections = "reversible" => cache[r] # "absent"

\* A client that sees [DONE] can rely on the audit event being durable, also
\* when writes time out, are retried or are interrupted by a cancellation
\* that a failing write swallowed (the comment above the closing frame).
DoneMeansAudited ==
    \A r \in Requests :
        task[r].frame = "done" /\ "chain" \in Configured => audit[r] # None

\* A request that was answered with an error status before its stream started
\* is audited as REJECTED and never reached the provider.
RejectedNeverForwarded ==
    \A r \in Requests :
        task[r].status \notin {Open, Cancelled, 200} =>
            /\ provider[r] = "none"
            /\ audit[r] \in {None, "REJECTED"}

\* What a streaming client may conclude: its text left masked, [DONE] means
\* audited, a rejection means nothing was sent.
StreamRepliesSafe ==
    /\ StreamsNoCleartext
    /\ DoneMeansAudited
    /\ RejectedNeverForwarded

\* Once cleanup began and its delete neither failed nor was interrupted, an
\* ended request leaves no mapping, also one whose store_mapping failed after it was
\* applied and one that was abandoned by its client (SessionCleanup).
StreamLeavesNoMapping ==
    \A r \in Requests :
        /\ task[r].pc = "ended"
        /\ task[r].path # None
        /\ ~task[r].raising
        => cache[r] # "present"

\* A stream that was not cancelled gives its session back, whatever failed on
\* its way (the generator's finally block).
UncancelledStreamReleasesSession ==
    \A r \in Requests :
        /\ task[r].pc = "ended"
        /\ task[r].path \in {"normal", "finally"}
        /\ task[r].cancels = 0
        => rotation.sessions[r] = NoSession

\* An ended stream has given back what it held: its mapping and its session.
StreamReleases ==
    /\ StreamLeavesNoMapping
    /\ UncancelledStreamReleasesSession

\* As long as a session is open on the secrets that the last rotation replaced,
\* the buffer keeps them, whichever other sessions come and go (end_session).
ReplacedSecretsKeptForOpenSessions ==
    \A r \in Requests :
        rotation.sessions[r] + 1 = rotation.current
        => rotation.previous = rotation.sessions[r]

\* The cleanup of a stream ends, however often the audit write fails.
CleanupTerminates ==
    \A r \in Requests :
        task[r].pc \in InCleanup \cup {"closing"} ~> task[r].pc \in {"ended", "crashed"}

Gateway == INSTANCE AnonymizingGateway WITH
    AuditRequired <- "chain" \in Configured,
    mapped <- {r \in Requests : Sanitized(r)},
    forwarded <- {r \in Requests : provider[r] # "none"},
    audited <- {r \in Requests : audit[r] # None},
    answer <- [r \in Requests |->
                  CASE task[r].outcome = "error" \/ task[r].frame = "error" -> "rejected"
                    [] task[r].status \notin {Open, Cancelled, 200} -> "rejected"
                    [] task[r].outcome # "error" /\ task[r].frame = "done" -> "complete"
                    [] OTHER -> "open"]

\* The streaming handler keeps the promise of the gateway: [DONE] without an
\* error frame is its complete answer.
StreamImplementsGateway == Gateway!GSpec
-----------------------------------------------------------------------------
(***************************************************************************)
(* Said of the code and not kept by it; each comment names the exception.  *)
(***************************************************************************)

\* A running stream keeps the secrets snapshot it was bound to.  Except when a
\* rotation comes after begin_session: the credential is read from the process-wide
\* store when the request is translated, after the pre-provider stages.
StreamUsesItsSnapshot ==
    \A r \in Requests :
        task[r].pc = "streaming" => key[r] = rotation.sessions[r]

\* A stream that ended holds no session any more.  Except one that is abandoned
\* at a yield: it keeps its session for ever, and with it the previous secrets.
EndedStreamHoldsNoSession ==
    \A r \in Requests :
        task[r].pc = "ended" /\ task[r].path \in {"normal", "finally"}
        => rotation.sessions[r] = NoSession

\* A stream whose audit event says FINISH was not interrupted.  Except by a
\* cancellation or a closed generator, which leave the initial FINISH in place.
FinishMeansFinished ==
    \A r \in Requests :
        audit[r] = "FINISH" => task[r].outcome \in {"finish", "exhausted"}

\* The audit event of a stream is written even when its client goes away: a
\* single cancellation does not lose it.  Except one in the audit write of the
\* normal path, after which cleaned is set and nothing writes it again.
StreamAuditSurvivesCancellation ==
    \A r \in Requests :
        /\ task[r].pc = "ended"
        /\ task[r].path \in {"normal", "finally"}
        /\ task[r].cancels <= 1
        /\ "chain" \in Configured
        /\ audit[r] = None
        => task[r].attempt + 1 = AuditAttempts
=============================================================================
