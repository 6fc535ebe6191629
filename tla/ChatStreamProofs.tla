-------------------------- MODULE ChatStreamProofs --------------------------
(***************************************************************************)
(* Proofs about ChatStream, for any set of requests, any number of secret  *)
(* rotations, cancellations and audit attempts.                            *)
(***************************************************************************)
EXTENDS ChatStream, PipelineStagesProofs

(***************************************************************************)
(* The inductive invariant.                                                *)
(***************************************************************************)

\* How far the handler got decides which fields of the context are set.
StageOrder(r) ==
    LET t == task[r]
    IN  /\ t.pc \in {"stage", "storing"} =>
              /\ ~HasErrors(t.ctx)
              /\ t.stage > 1 => t.ctx.action = "ANONYMIZE"
              /\ t.stage > 3 => t.ctx.detections # "none"
              /\ t.stage < 9 => t.ctx.token_mappings = "none"
        /\ t.pc = "idle" => t.stage = 1 /\ t.ctx.token_mappings = "none"
        /\ t.pc = "storing" => t.stage = 8 /\ t.ctx.transformed = "tokenized"
        /\ t.pc \in {"ready"} \cup Started => t.stage = 9 /\ ~HasErrors(t.ctx)
        /\ t.stage > 8 => /\ Sanitized(r)
                          /\ t.ctx.transformed # "none"
                          /\ t.ctx.transformed = "copy" => t.ctx.detections = "empty"

\* What the provider received is the body the guard let through.
SentAsGuarded(r) ==
    LET t == task[r]
    IN  /\ provider[r] # "none" =>
              /\ t.stage = 9 /\ ~HasErrors(t.ctx)
              /\ provider[r] = t.ctx.transformed
              /\ t.path # "early" /\ t.status = 200
        /\ t.pc \in {"streaming", "yielding", "closing"} => provider[r] # "none"
        /\ t.path = "normal" => provider[r] # "none"

\* Where the task is decides which call of cleanup() runs and what the client
\* was told so far.
Protocol(r) ==
    LET t == task[r]
    IN  /\ t.pc \in {"idle"} \cup Early \cup {"fetching", "streaming", "yielding"} => t.path = None
        /\ t.pc \in InCleanup \cup {"closing"} => t.path # None
        /\ t.pc \in {"idle"} \cup Early =>
              t.status = Open /\ t.frame = None /\ t.outcome = None
        /\ t.pc \in {"fetching", "streaming"} =>
              t.status = 200 /\ t.frame = None /\ t.outcome = None
        /\ t.pc = "yielding" =>
              /\ t.status = 200
              /\ t.frame = IF t.outcome = "error" THEN "error" ELSE None
        /\ t.pc \in InCleanup /\ t.path = "early" =>
              /\ t.verdict \in Statuses
              /\ t.status = Open /\ t.frame = None /\ t.outcome = None
        /\ t.pc \in InCleanup /\ t.path # "early" =>
              /\ t.status = 200
              /\ t.frame = IF t.outcome = "error" THEN "error" ELSE None
        /\ t.pc = "closing" => t.path = "normal" /\ t.status = 200
        /\ t.path = "early" => t.terminal = "REJECTED"
        /\ t.status \notin {Open, Cancelled, 200} =>
              t.pc = "ended" /\ t.path \in {None, "early"}

\* What cleanup has done by the time it ends.
CleanedUp(r) ==
    LET t == task[r]
    IN  /\ t.path = None => audit[r] = None /\ ~inflight[r]
        /\ t.path # None => audit[r] \in {None, t.terminal}
        /\ t.frame = "done" /\ "chain" \in Configured => audit[r] # None
        /\ /\ t.path # None
           /\ t.pc \in {"auditing", "closing", "ended"}
           /\ ~t.raising
           => cache[r] # "present"
        /\ t.foreign \/ t.raising => t.cancels > 0
        /\ /\ t.pc = "ended"
           /\ t.path \in {"normal", "finally"}
           /\ t.cancels = 0
           => rotation.sessions[r] = NoSession

StreamOrder(r) == StageOrder(r) /\ SentAsGuarded(r) /\ Protocol(r) /\ CleanedUp(r)

StreamInv == TypeOK /\ \A r \in Requests : StreamOrder(r)

\* The buffer is at most one version behind the store.
RotationInv ==
    /\ store \in {rotation.current, rotation.current + 1}
    /\ ReplacedSecretsKeptForOpenSessions

-----------------------------------------------------------------------------
(***************************************************************************)
(* Type correctness.                                                       *)
(***************************************************************************)

\* The stages of the streaming handler, in their order and without services.
LEMMA OutcomesAt ==
    /\ Len(StreamStages) = 9
    /\ \A i \in 1..9 : StreamStages[i] = "Tokenization" <=> i = 8
    /\ \A i \in 1..9 : StreamStages[i] = "Detection" <=> i = 3
    /\ \A i \in 1..9, c \in Contexts :
          StreamStageOutcomes(StreamStages[i], c) = StageAt(i, c, {})
BY DEF StreamStageOutcomes, StreamStages, StageAt

\* What the mapping store may leave on the context.
LEMMA StoreOutcomes ==
    ASSUME NEW c \in Contexts
    PROVE  /\ MappingStored(c) \in Contexts
           /\ MappingStored(c).action = c.action
           /\ MappingStored(c).detections = c.detections
           /\ MappingStored(c).transformed = c.transformed
           /\ MappingStored(c).token_mappings = "some"
           /\ MappingStored(c).errors = c.errors
           /\ \A d \in MappingNotStored(c) : d \in Contexts /\ HasErrors(d)
<1>1. DependencyUnavailable \in Errors /\ Abort(500) \in Errors
  BY ErrorTypes DEF Statuses
<1>2. \A d \in MappingNotStored(c) : d \in Contexts /\ HasErrors(d)
  BY <1>1, FailSecureFacts DEF MappingNotStored
<1> QED BY <1>2 DEF MappingStored, Contexts, Mappings

\* Every field of a task may take its own values.
LEMMA FieldTypes ==
    ASSUME NEW t \in Tasks
    PROVE  /\ \A x \in Active \cup {"idle", "ended", "crashed"} : [t EXCEPT !.pc = x] \in Tasks
           /\ \A x \in Contexts : [t EXCEPT !.ctx = x] \in Tasks
           /\ \A x \in {"early", "normal", "finally"} :
                 [t EXCEPT !.path = x, !.pc = "deleting"] \in Tasks
           /\ \A x \in Statuses : [t EXCEPT !.terminal = "REJECTED", !.verdict = x] \in Tasks
           /\ \A b \in BOOLEAN : [t EXCEPT !.foreign = b] \in Tasks
           /\ t.cancels < MaxCancels => Interrupted(t) \in Tasks
           /\ \A x \in Statuses \cup {Open, Cancelled, 200} :
                 [t EXCEPT !.pc = "ended", !.status = x] \in Tasks
           /\ [t EXCEPT !.pc = "auditing", !.raising = TRUE] \in Tasks
<1>1. {"deleting", "auditing", "ended"} \subseteq Active \cup {"idle", "ended", "crashed"}
  BY DEF Active, InCleanup
<1>2. t.cancels < MaxCancels => t.cancels + 1 \in 0..MaxCancels
  BY StreamAssumption DEF Tasks
<1>3. t.cancels < MaxCancels => Interrupted(t) \in Tasks
  BY <1>2 DEF Tasks, Interrupted
<1>4. \A x \in Active \cup {"idle", "ended", "crashed"} : [t EXCEPT !.pc = x] \in Tasks
  BY DEF Tasks
<1>5. \A x \in Contexts : [t EXCEPT !.ctx = x] \in Tasks
  BY DEF Tasks
<1>6. \A x \in {"early", "normal", "finally"} :
         [t EXCEPT !.path = x, !.pc = "deleting"] \in Tasks
  BY <1>1, ZenonT(60) DEF Tasks
<1>7. \A x \in Statuses : [t EXCEPT !.terminal = "REJECTED", !.verdict = x] \in Tasks
  BY ZenonT(60) DEF Tasks
<1>8. \A b \in BOOLEAN : [t EXCEPT !.foreign = b] \in Tasks
  BY DEF Tasks
<1>9. ASSUME NEW x \in Statuses \cup {Open, Cancelled, 200}
      PROVE  [t EXCEPT !.pc = "ended", !.status = x] \in Tasks
  <2>1. [t EXCEPT !.pc = "ended"] \in Tasks
    BY <1>1, <1>4
  <2>2. \A u \in Tasks : [u EXCEPT !.status = x] \in Tasks
    BY DEF Tasks
  <2> QED BY <2>1, <2>2
<1>10. [t EXCEPT !.pc = "auditing", !.raising = TRUE] \in Tasks
  BY <1>1 DEF Tasks
<1> QED BY <1>3, <1>4, <1>5, <1>6, <1>7, <1>8, <1>9, <1>10

\* Sessions come and go within their types.
LEMMA SessionTypes ==
    ASSUME TypeOK, NEW r \in Requests
    PROVE  /\ BeginSession(r) =>
                 /\ rotation' \in [current : 0..MaxVersion, previous : 0..NoSession,
                                   sessions : [Requests -> 0..NoSession]]
                 /\ rotation'.sessions[r] = rotation.current
           /\ EndSession(r) =>
                 /\ rotation' \in [current : 0..MaxVersion, previous : 0..NoSession,
                                   sessions : [Requests -> 0..NoSession]]
                 /\ rotation'.sessions[r] = NoSession
                 /\ rotation'.current = rotation.current
           /\ BeginSession(r) \/ EndSession(r) =>
                 \A q \in Requests : q # r => rotation'.sessions[q] = rotation.sessions[q]
<1>1. /\ rotation \in [current : 0..MaxVersion, previous : 0..NoSession,
                       sessions : [Requests -> 0..NoSession]]
      /\ NoSession \in 0..NoSession /\ 0..MaxVersion \subseteq 0..NoSession
  BY StreamAssumption DEF TypeOK, NoSession
<1>2. ASSUME BeginSession(r)
      PROVE  /\ rotation' \in [current : 0..MaxVersion, previous : 0..NoSession,
                               sessions : [Requests -> 0..NoSession]]
             /\ rotation'.sessions = [rotation.sessions EXCEPT ![r] = rotation.current]
  <2>1. rotation' = [rotation EXCEPT
                       !.sessions = [rotation.sessions EXCEPT ![r] = rotation.current]]
    BY <1>1, <1>2 DEF BeginSession
  <2> QED BY <1>1, <2>1
<1>3. ASSUME EndSession(r)
      PROVE  /\ rotation' \in [current : 0..MaxVersion, previous : 0..NoSession,
                               sessions : [Requests -> 0..NoSession]]
             /\ rotation'.sessions = [rotation.sessions EXCEPT ![r] = NoSession]
             /\ rotation'.current = rotation.current
  <2> DEFINE s == [rotation.sessions EXCEPT ![r] = NoSession]
             p == IF \A q \in Requests : s[q] = NoSession THEN NoSession ELSE rotation.previous
  <2>1. s \in [Requests -> 0..NoSession] /\ p \in 0..NoSession
    BY <1>1
  <2>2. rotation' = [rotation EXCEPT !.sessions = s, !.previous = p]
    BY <1>3 DEF EndSession
  <2> HIDE DEF p
  <2>3. rotation'.sessions = s /\ rotation'.current = rotation.current
    BY <1>1, <2>2
  <2>4. rotation' \in [current : 0..MaxVersion, previous : 0..NoSession,
                       sessions : [Requests -> 0..NoSession]]
    BY <1>1, <2>1, <2>2
  <2> QED BY <2>3, <2>4
<1> QED BY <1>1, <1>2, <1>3

\* Moving one task keeps the types when its new record does, and leaves the
\* other tasks alone.
LEMMA MoveTask ==
    ASSUME TypeOK, NEW r \in Requests, NEW t, task' = [task EXCEPT ![r] = t]
    PROVE  /\ task'[r] = t
           /\ \A q \in Requests : q # r => task'[q] = task[q]
           /\ t \in Tasks => task' \in [Requests -> Tasks]
BY DEF TypeOK

\* The records that the helpers of the handler assign.
LEMMA AfterStageMoves ==
    ASSUME TypeOK, NEW r \in Requests, NEW c \in Contexts, AfterStage(r, c)
    PROVE  \E t \in Tasks :
              /\ task' = [task EXCEPT ![r] = t]
              /\ t.ctx = c /\ t.outcome = task[r].outcome /\ t.raising = task[r].raising
              /\ t.foreign = task[r].foreign /\ t.cancels = task[r].cancels
              /\ t.status = task[r].status /\ t.frame = task[r].frame
              /\ \/ /\ t.pc = "deleting" /\ t.path = "early" /\ t.terminal = "REJECTED"
                    /\ t.verdict \in Statuses /\ t.stage = task[r].stage
                 \/ /\ ~HasErrors(c) /\ t.path = task[r].path
                    /\ t.terminal = task[r].terminal
                    /\ \/ t.pc = "ready" /\ task[r].stage = 9 /\ t.stage = 9
                       \/ t.pc = "stage" /\ task[r].stage < 9 /\ t.stage = task[r].stage + 1
<1>1. task[r] \in Tasks /\ store \in 0..MaxVersion /\ task[r].stage \in 1..9
  BY OutcomesAt DEF TypeOK, Tasks
<1> DEFINE u == [task[r] EXCEPT !.ctx = c]
<1>2. u \in Tasks /\ u.stage = task[r].stage
  <2>1. u \in Tasks
    BY <1>1, FieldTypes
  <2>2. u.stage = task[r].stage
    BY <1>1 DEF Tasks
  <2> QED BY <2>1, <2>2
<1>r. ASSUME NEW s \in Statuses, RejectEarly(r, u, s)
      PROVE  \E t \in Tasks :
              /\ task' = [task EXCEPT ![r] = t]
              /\ t.ctx = c /\ t.outcome = task[r].outcome /\ t.raising = task[r].raising
              /\ t.foreign = task[r].foreign /\ t.cancels = task[r].cancels
              /\ t.status = task[r].status /\ t.frame = task[r].frame
              /\ t.pc = "deleting" /\ t.path = "early" /\ t.terminal = "REJECTED"
              /\ t.verdict \in Statuses /\ t.stage = task[r].stage
  <2> DEFINE v == [u EXCEPT !.terminal = "REJECTED", !.verdict = s]
             t == [v EXCEPT !.path = "early", !.pc = "deleting"]
  <2>1. v \in Tasks /\ t \in Tasks
    BY <1>2, FieldTypes
  <2>2. task' = [task EXCEPT ![r] = t]
    BY <1>r DEF RejectEarly, EnterCleanup
  <2>3. /\ v.ctx = c /\ v.outcome = task[r].outcome /\ v.raising = task[r].raising
        /\ v.foreign = task[r].foreign /\ v.cancels = task[r].cancels
        /\ v.status = task[r].status /\ v.frame = task[r].frame
        /\ v.terminal = "REJECTED" /\ v.verdict = s /\ v.stage = task[r].stage
    BY <1>1 DEF Tasks
  <2>4. /\ t.ctx = v.ctx /\ t.outcome = v.outcome /\ t.raising = v.raising
        /\ t.foreign = v.foreign /\ t.cancels = v.cancels
        /\ t.status = v.status /\ t.frame = v.frame
        /\ t.pc = "deleting" /\ t.path = "early" /\ t.terminal = v.terminal
        /\ t.verdict = v.verdict /\ t.stage = v.stage
    <3> HIDE DEF v
    <3> QED BY <2>1 DEF Tasks
  <2> HIDE DEF v, t
  <2> QED BY <2>1, <2>2, <2>3, <2>4
<1>3. CASE HasErrors(c)
  <2>1. RejectEarly(r, u, RaiseForPipelineErrors(c.errors))
    BY <1>3 DEF AfterStage
  <2>2. RaiseForPipelineErrors(c.errors) \in Statuses
    BY <1>3, RaiseTypes
  <2> HIDE DEF u
  <2> QED BY <1>r, <2>1, <2>2
<1>4. CASE ~HasErrors(c) /\ task[r].stage = 9
  <2>1. Prepare(r, u)
    BY <1>2, <1>4, OutcomesAt DEF AfterStage
  <2>2. CASE \E s \in {400, 500, 502, 503} : RejectEarly(r, u, s)
    <3>1. {400, 500, 502, 503} \subseteq Statuses
      BY DEF Statuses
    <3> HIDE DEF u
    <3> QED BY <1>r, <2>2, <3>1
  <2>3. CASE task' = [task EXCEPT ![r] = [u EXCEPT !.pc = "ready", !.header = store]]
    <3> DEFINE t == [u EXCEPT !.pc = "ready", !.header = store]
    <3>1. t \in Tasks
      <4>1. "ready" \in Active
        BY DEF Active, Early
      <4>2. store \in 0..MaxVersion
        BY <1>1
      <4>3. u \in Tasks
        BY <1>2
      <4> HIDE DEF u
      <4> QED BY <4>1, <4>2, <4>3, ZenonT(60) DEF Tasks
    <3>2. /\ t.ctx = c /\ t.outcome = task[r].outcome /\ t.raising = task[r].raising
          /\ t.foreign = task[r].foreign /\ t.cancels = task[r].cancels
          /\ t.status = task[r].status /\ t.frame = task[r].frame
          /\ t.pc = "ready" /\ t.path = task[r].path /\ t.terminal = task[r].terminal
          /\ t.stage = task[r].stage
      BY <1>1 DEF Tasks
    <3>3. task' = [task EXCEPT ![r] = t]
      BY <2>3
    <3> HIDE DEF u, t
    <3> QED BY <1>4, <3>1, <3>2, <3>3
  <2> QED BY <2>1, <2>2, <2>3 DEF Prepare
<1>5. CASE ~HasErrors(c) /\ task[r].stage # 9
  <2> DEFINE t == [u EXCEPT !.stage = @ + 1, !.pc = "stage"]
  <2>1. task' = [task EXCEPT ![r] = t]
    BY <1>2, <1>5, OutcomesAt DEF AfterStage
  <2>2. task[r].stage < 9 /\ u.stage + 1 \in 1..9
    BY <1>1, <1>2, <1>5
  <2>3. t \in Tasks
    BY <1>2, <2>2, OutcomesAt, ZenonT(60) DEF Tasks, Active, Early
  <2>4. /\ t.ctx = c /\ t.outcome = task[r].outcome /\ t.raising = task[r].raising
        /\ t.foreign = task[r].foreign /\ t.cancels = task[r].cancels
        /\ t.status = task[r].status /\ t.frame = task[r].frame
        /\ t.pc = "stage" /\ t.path = task[r].path /\ t.terminal = task[r].terminal
        /\ t.stage = task[r].stage + 1
    BY <1>1 DEF Tasks
  <2> HIDE DEF u, t
  <2> QED BY <1>5, <2>1, <2>2, <2>3, <2>4
<1> QED BY <1>3, <1>4, <1>5

\* Two records that agree on the pipeline part of a task.
SameRun(t, u) ==
    /\ u.stage = t.stage /\ u.ctx = t.ctx /\ u.path = t.path
    /\ u.terminal = t.terminal /\ u.outcome = t.outcome /\ u.verdict = t.verdict

\* The end of the generator.
LEMMA LeaveMoves ==
    ASSUME TypeOK, NEW r \in Requests, NEW u \in Tasks, LeaveGenerator(r, u)
    PROVE  /\ \E t \in Tasks : /\ task' = [task EXCEPT ![r] = t]
                               /\ SameRun(u, t) /\ t.pc = "ended"
                               /\ t.raising = u.raising /\ t.foreign = u.foreign
                               /\ t.cancels = u.cancels /\ t.status = u.status
                               /\ t.frame = u.frame
           /\ u.foreign => rotation' = rotation
           /\ ~u.foreign => EndSession(r)
<1> DEFINE t == [u EXCEPT !.pc = "ended"]
<1>1. t \in Tasks
  BY FieldTypes
<1>2. /\ SameRun(u, t) /\ t.pc = "ended" /\ t.raising = u.raising /\ t.foreign = u.foreign
      /\ t.cancels = u.cancels /\ t.status = u.status /\ t.frame = u.frame
  BY DEF Tasks, SameRun
<1>3. task' = [task EXCEPT ![r] = t]
  BY DEF LeaveGenerator
<1>4. /\ u.foreign => rotation' = rotation
      /\ ~u.foreign => EndSession(r)
  BY DEF LeaveGenerator
<1> HIDE DEF t
<1> QED BY <1>1, <1>2, <1>3, <1>4

\* cleanup() returned or raised the audit error.
LEMMA CleanupEndsMoves ==
    ASSUME TypeOK, NEW r \in Requests, NEW ok \in BOOLEAN, CleanupEnds(r, ok),
           task[r].path # None, task[r].path = "early" => task[r].verdict \in Statuses
    PROVE  \E t \in Tasks :
              /\ task' = [task EXCEPT ![r] = t]
              /\ SameRun(task[r], t) /\ t.raising = task[r].raising
              /\ t.foreign = task[r].foreign /\ t.cancels = task[r].cancels
              /\ \/ /\ task[r].path = "early" /\ t.pc = "ended"
                    /\ t.status \in Statuses /\ t.frame = task[r].frame
                    /\ rotation' = rotation \/ EndSession(r)
                 \/ /\ task[r].path = "normal" /\ t.pc = "closing"
                    /\ t.status = task[r].status
                    /\ t.frame = IF ok THEN "done" ELSE "error"
                    /\ rotation' = rotation
                 \/ /\ task[r].path # "early" /\ t.pc = "ended"
                    /\ t.status = task[r].status /\ t.frame = task[r].frame
                    /\ task[r].foreign => rotation' = rotation
                    /\ ~task[r].foreign => EndSession(r)
<1>1. task[r] \in Tasks
  BY DEF TypeOK
<1>2. CASE task[r].path = "early"
  <2> DEFINE s == IF ok THEN task[r].verdict ELSE 500
             t == [task[r] EXCEPT !.pc = "ended", !.status = s]
  <2>1. s \in Statuses
    BY <1>2 DEF Statuses
  <2>2. /\ task' = [task EXCEPT ![r].pc = "ended", ![r].status = s]
        /\ rotation' = rotation \/ EndSession(r)
    BY <1>2 DEF CleanupEnds
  <2> HIDE DEF s
  <2>3. t \in Tasks
    BY <1>1, <2>1, FieldTypes
  <2>4. task' = [task EXCEPT ![r] = t]
    BY <1>1, <2>2 DEF TypeOK
  <2>5. /\ SameRun(task[r], t) /\ t.raising = task[r].raising
        /\ t.foreign = task[r].foreign /\ t.cancels = task[r].cancels
        /\ t.pc = "ended" /\ t.status = s /\ t.frame = task[r].frame
    BY <1>1 DEF Tasks, SameRun
  <2> HIDE DEF t
  <2> QED BY <1>2, <2>1, <2>2, <2>3, <2>4, <2>5
<1>3. CASE task[r].path = "normal" /\ task[r].terminal # "CLIENT_DISCONNECT"
  <2> DEFINE f == IF ok THEN "done" ELSE "error"
             t == [task[r] EXCEPT !.pc = "closing", !.frame = f]
  <2>1. /\ task' = [task EXCEPT ![r].pc = "closing", ![r].frame = f]
        /\ rotation' = rotation
    BY <1>3 DEF CleanupEnds, CloseFrame
  <2>2. f \in {"error", "done"}
    OBVIOUS
  <2> HIDE DEF f
  <2>3. t \in Tasks
    <3>1. "closing" \in Active
      BY DEF Active, Started
    <3> QED BY <1>1, <2>2, <3>1, ZenonT(60) DEF Tasks
  <2>4. task' = [task EXCEPT ![r] = t]
    BY <1>1, <2>1 DEF TypeOK
  <2>5. /\ SameRun(task[r], t) /\ t.raising = task[r].raising
        /\ t.foreign = task[r].foreign /\ t.cancels = task[r].cancels
        /\ t.pc = "closing" /\ t.status = task[r].status /\ t.frame = f
    BY <1>1 DEF Tasks, SameRun
  <2>6. f = IF ok THEN "done" ELSE "error"
    BY DEF f
  <2> HIDE DEF t
  <2> QED BY <1>3, <2>1, <2>3, <2>4, <2>5, <2>6
<1>4. CASE /\ task[r].path # "early"
           /\ ~(task[r].path = "normal" /\ task[r].terminal # "CLIENT_DISCONNECT")
  <2>1. LeaveGenerator(r, task[r])
    BY <1>4 DEF CleanupEnds
  <2> QED BY <1>1, <1>4, <2>1, LeaveMoves
<1> QED BY <1>2, <1>3, <1>4

\* A CancelledError left cleanup().
LEMMA CleanupCancelledMoves ==
    ASSUME TypeOK, NEW r \in Requests, NEW u \in Tasks, CleanupCancelled(r, u)
    PROVE  \E t \in Tasks :
              /\ task' = [task EXCEPT ![r] = t]
              /\ SameRun(u, t) /\ t.pc = "ended" /\ t.raising = u.raising
              /\ t.foreign = u.foreign /\ t.cancels = u.cancels /\ t.frame = u.frame
              /\ t.status = IF u.path = "early" THEN Cancelled ELSE u.status
              /\ rotation' = rotation \/ EndSession(r)
<1>1. CASE u.path = "normal"
  BY <1>1, LeaveMoves DEF CleanupCancelled
<1>2. CASE u.path # "normal"
  <2> DEFINE s == IF u.path = "early" THEN Cancelled ELSE u.status
             t == [u EXCEPT !.pc = "ended", !.status = s]
  <2>1. s \in Statuses \cup {Open, Cancelled, 200}
    BY DEF Tasks
  <2>2. task' = [task EXCEPT ![r] = t] /\ rotation' = rotation
    BY <1>2 DEF CleanupCancelled
  <2>6. s = IF u.path = "early" THEN Cancelled ELSE u.status
    OBVIOUS
  <2> HIDE DEF s
  <2>3. t \in Tasks
    BY <2>1, FieldTypes
  <2>4. /\ SameRun(u, t) /\ t.pc = "ended" /\ t.raising = u.raising
        /\ t.foreign = u.foreign /\ t.cancels = u.cancels /\ t.frame = u.frame
        /\ t.status = s
    BY DEF Tasks, SameRun
  <2> HIDE DEF t
  <2> QED BY <2>2, <2>3, <2>4, <2>6
<1> QED BY <1>1, <1>2

\* The record of an interrupted task.
LEMMA InterruptedFacts ==
    ASSUME NEW t \in Tasks
    PROVE  /\ SameRun(t, Interrupted(t)) /\ Interrupted(t).pc = t.pc
           /\ Interrupted(t).raising = t.raising /\ Interrupted(t).foreign = t.foreign
           /\ Interrupted(t).cancels = t.cancels + 1
           /\ Interrupted(t).cancels > 0
           /\ Interrupted(t).status = t.status /\ Interrupted(t).frame = t.frame
<1>1. t.cancels \in Nat
  BY StreamAssumption DEF Tasks
<1>2. Interrupted(t).cancels = t.cancels + 1
  BY DEF Interrupted, Tasks
<1>3. Interrupted(t).cancels > 0
  BY <1>1, <1>2
<1> QED BY <1>2, <1>3 DEF Interrupted, Tasks, SameRun

-----------------------------------------------------------------------------
(***************************************************************************)
(* The steps of a request preserve its part of the invariant.              *)
(***************************************************************************)

\* The step leaves request q alone.
Same(q) ==
    /\ task'[q] = task[q] /\ cache'[q] = cache[q] /\ provider'[q] = provider[q]
    /\ audit'[q] = audit[q] /\ inflight'[q] = inflight[q]
    /\ rotation'.sessions[q] = rotation.sessions[q]

\* The invariant of a request depends on the state of that request only.
LEMMA OrderLocal ==
    ASSUME NEW q \in Requests, StreamOrder(q), Same(q)
    PROVE  StreamOrder(q)'
<1>1. StageOrder(q)'
  BY DEF StreamOrder, Same, StageOrder, Sanitized
<1>2. SentAsGuarded(q)'
  BY DEF StreamOrder, Same, SentAsGuarded
<1>3. Protocol(q)'
  BY DEF StreamOrder, Same, Protocol
<1>4. CleanedUp(q)'
  BY DEF StreamOrder, Same, CleanedUp
<1> QED BY <1>1, <1>2, <1>3, <1>4 DEF StreamOrder

\* A body that may leave stays one as long as its context keeps the deciding
\* fields and its mapping is not made absent.
LEMMA SanitizedKept ==
    ASSUME NEW r \in Requests, SameButErrors(task[r].ctx, task'[r].ctx),
           cache[r] # "absent" => cache'[r] # "absent", Sanitized(r)
    PROVE  Sanitized(r)'
BY DEF Sanitized, SameButErrors

\* What the client of a task was told.
SaidOf(t) ==
    CASE t.outcome = "error" \/ t.frame = "error" -> "rejected"
      [] t.status \notin {Open, Cancelled, 200} -> "rejected"
      [] t.outcome # "error" /\ t.frame = "done" -> "complete"
      [] OTHER -> "open"

\* The kinds of steps of a request, as the gateway sees them: the body is
\* made ready, it is sent, something is recorded, the client gets its answer.
Prepares(r) ==
    /\ provider'[r] = provider[r] /\ audit'[r] = audit[r]
    /\ SaidOf(task[r]) = "open" /\ SaidOf(task'[r]) = "open"
    /\ Sanitized(r) => Sanitized(r)'

Sends(r) ==
    /\ Sanitized(r) /\ Sanitized(r)'
    /\ provider[r] = "none" /\ provider'[r] # "none"
    /\ audit'[r] = audit[r]
    /\ SaidOf(task[r]) = "open" /\ SaidOf(task'[r]) = "open"

Records(r) ==
    /\ provider'[r] = provider[r]
    /\ Sanitized(r)' <=> Sanitized(r)
    /\ audit[r] # None => audit'[r] # None
    /\ SaidOf(task'[r]) = SaidOf(task[r])

Answers(r) ==
    /\ provider'[r] = provider[r]
    /\ Sanitized(r)' <=> Sanitized(r)
    /\ audit[r] # None => audit'[r] # None
    /\ SaidOf(task[r]) = "open"
    /\ \/ SaidOf(task'[r]) = "rejected"
       \/ /\ SaidOf(task'[r]) = "complete"
          /\ provider[r] # "none"
          /\ "chain" \in Configured => audit'[r] # None

\* A client that got no error frame, no error status and no [DONE] was told
\* nothing final.
LEMMA SaidFacts ==
    ASSUME NEW t
    PROVE  /\ /\ t.outcome # "error" /\ t.frame \notin {"error", "done"}
              /\ t.status \in {Open, Cancelled, 200}
              => SaidOf(t) = "open"
           /\ t.outcome = "error" \/ t.frame = "error" => SaidOf(t) = "rejected"
           /\ /\ t.outcome # "error" /\ t.frame \notin {"error", "done"}
              /\ t.status \notin {Open, Cancelled, 200}
              => SaidOf(t) = "rejected"
           /\ /\ t.outcome # "error" /\ t.frame = "done"
              /\ t.status \in {Open, Cancelled, 200}
              => SaidOf(t) = "complete"
<1>1. CASE t.outcome = "error" \/ t.frame = "error"
  BY <1>1 DEF SaidOf
<1>2. CASE t.outcome # "error" /\ t.frame = "done" /\ t.status \in {Open, Cancelled, 200}
  BY <1>2 DEF SaidOf
<1>3. CASE t.outcome # "error" /\ t.frame \notin {"error", "done"}
  BY <1>3 DEF SaidOf
<1> QED BY <1>1, <1>2, <1>3

\* What a stage must establish for the handler to go on with context c.
StageDone(r, c) ==
    /\ c.action = "ANONYMIZE"
    /\ task[r].stage > 2 => c.detections # "none"
    /\ task[r].stage < 8 => c.token_mappings = "none"
    /\ task[r].stage > 7 =>
          /\ c.detections # "none"
          /\ c.token_mappings # "none"
          /\ c.detections = "empty" \/ c.transformed = "tokenized"
          /\ c.detections = "reversible" => cache'[r] # "absent"
          /\ c.transformed # "none"
          /\ c.transformed = "copy" => c.detections = "empty"

\* The end of a stage: the handler goes on, or rejects the request.
LEMMA OrderAfterStage ==
    ASSUME TypeOK, NEW r \in Requests, StreamOrder(r), NEW c \in Contexts,
           task[r].pc \in {"stage", "storing"}, AfterStage(r, c),
           UNCHANGED <<provider, audit, inflight, rotation>>,
           ~HasErrors(c) => StageDone(r, c),
           task[r].stage > 8 => SameButErrors(task[r].ctx, c) /\ UNCHANGED cache
    PROVE  /\ StreamOrder(r)' /\ Prepares(r)
           /\ \E t \in Tasks : task' = [task EXCEPT ![r] = t]
<1>1. PICK t \in Tasks :
              /\ task' = [task EXCEPT ![r] = t]
              /\ t.ctx = c /\ t.outcome = task[r].outcome /\ t.raising = task[r].raising
              /\ t.foreign = task[r].foreign /\ t.cancels = task[r].cancels
              /\ t.status = task[r].status /\ t.frame = task[r].frame
              /\ \/ /\ t.pc = "deleting" /\ t.path = "early" /\ t.terminal = "REJECTED"
                    /\ t.verdict \in Statuses /\ t.stage = task[r].stage
                 \/ /\ ~HasErrors(c) /\ t.path = task[r].path
                    /\ t.terminal = task[r].terminal
                    /\ \/ t.pc = "ready" /\ task[r].stage = 9 /\ t.stage = 9
                       \/ t.pc = "stage" /\ task[r].stage < 9 /\ t.stage = task[r].stage + 1
  BY AfterStageMoves
<1>2. task'[r] = t /\ task[r] \in Tasks /\ task[r].stage \in 1..9
  BY <1>1, MoveTask, OutcomesAt DEF TypeOK, Tasks
<1>3. /\ task[r].path = None /\ task[r].status = Open /\ task[r].frame = None
      /\ task[r].outcome = None /\ provider[r] = "none"
      /\ audit[r] = None /\ ~inflight[r]
      /\ task[r].foreign \/ task[r].raising => task[r].cancels > 0
  BY DEF StreamOrder, Protocol, SentAsGuarded, CleanedUp, Early, Open
<1>4. StageOrder(r)'
  <2>1. CASE t.pc = "deleting" /\ t.stage = task[r].stage
    <3>1. t.stage > 8 => /\ Sanitized(r)' /\ t.ctx.transformed # "none"
                         /\ t.ctx.transformed = "copy" => t.ctx.detections = "empty"
      <4>1. SUFFICES ASSUME task[r].stage > 8
                     PROVE  /\ Sanitized(r)' /\ t.ctx.transformed # "none"
                            /\ t.ctx.transformed = "copy" => t.ctx.detections = "empty"
        BY <2>1
      <4>2. SameButErrors(task[r].ctx, c) /\ UNCHANGED cache
        BY <4>1
      <4>3. Sanitized(r) /\ task[r].ctx.transformed # "none"
            /\ (task[r].ctx.transformed = "copy" => task[r].ctx.detections = "empty")
        BY <4>1 DEF StreamOrder, StageOrder
      <4>4. Sanitized(r)'
        BY <1>1, <1>2, <4>2, <4>3, SanitizedKept
      <4> QED BY <1>1, <4>2, <4>3, <4>4 DEF SameButErrors
    <3> QED BY <1>2, <2>1, <3>1 DEF StageOrder, Started
  <2>2. CASE ~HasErrors(c) /\ t.pc = "ready" /\ task[r].stage = 9 /\ t.stage = 9
    <3>1. StageDone(r, c)
      BY <2>2
    <3>2. Sanitized(r)'
      BY <1>1, <1>2, <2>2, <3>1 DEF StageDone, Sanitized
    <3> QED BY <1>1, <1>2, <2>2, <3>1, <3>2 DEF StageDone, StageOrder
  <2>3. CASE /\ ~HasErrors(c) /\ t.pc = "stage"
             /\ task[r].stage < 9 /\ t.stage = task[r].stage + 1
    <3>1. StageDone(r, c)
      BY <2>3
    <3>2. t.stage > 8 => Sanitized(r)'
      BY <1>1, <1>2, <2>3, <3>1 DEF StageDone, Sanitized
    <3> QED BY <1>1, <1>2, <2>3, <3>1, <3>2 DEF StageDone, StageOrder, Started
  <2> QED BY <1>1, <2>1, <2>2, <2>3
<1>5. SentAsGuarded(r)'
  BY <1>1, <1>2, <1>3 DEF SentAsGuarded, None
<1>6. Protocol(r)'
  BY <1>1, <1>2, <1>3 DEF Protocol, Early, InCleanup, None
<1>7. CleanedUp(r)'
  BY <1>1, <1>2, <1>3 DEF CleanedUp, None
<1>8. Prepares(r)
  <2>1. SaidOf(task[r]) = "open" /\ SaidOf(t) = "open"
    BY <1>1, <1>3, SaidFacts DEF None
  <2>2. Sanitized(r) => Sanitized(r)'
    <3>1. CASE task[r].stage > 8
      BY <1>1, <1>2, <3>1, SanitizedKept
    <3>2. CASE task[r].stage < 9
      BY <3>2 DEF StreamOrder, StageOrder, Sanitized
    <3> QED BY <1>2, <3>1, <3>2
  <2> QED BY <1>2, <2>1, <2>2 DEF Prepares
<1> QED BY <1>1, <1>4, <1>5, <1>6, <1>7, <1>8 DEF StreamOrder


\* After the stages the context stays as it is.
LEMMA OrderKept ==
    ASSUME NEW r \in Requests, StageOrder(r),
           task'[r].stage = task[r].stage, task'[r].ctx = task[r].ctx,
           cache[r] # "absent" => cache'[r] # "absent",
           task'[r].pc \notin {"idle", "stage", "storing"},
           task'[r].pc \in {"ready"} \cup Started
              => task[r].stage = 9 /\ ~HasErrors(task[r].ctx)
    PROVE  StageOrder(r)'
<1>1. Sanitized(r) => Sanitized(r)'
  BY DEF Sanitized
<1> QED BY <1>1 DEF StageOrder

\* cleanup() is entered from the generator.
LEMMA OrderEnterCleanup ==
    ASSUME TypeOK, NEW r \in Requests, StreamOrder(r),
           task[r].pc \in {"fetching", "streaming", "yielding"},
           NEW u \in Tasks, NEW path \in {"normal", "finally"}, EnterCleanup(r, u, path),
           u.stage = task[r].stage, u.ctx = task[r].ctx, u.status = task[r].status,
           u.frame = IF u.outcome = "error" THEN "error" ELSE None,
           u.outcome = "error" <=> task[r].outcome = "error",
           u.foreign \/ u.raising => u.cancels > 0,
           path = "normal" => task[r].pc # "fetching",
           UNCHANGED <<cache, provider, audit, inflight, rotation>>
    PROVE  /\ StreamOrder(r)' /\ Records(r)
           /\ \E t \in Tasks : task' = [task EXCEPT ![r] = t]
<1> DEFINE t == [u EXCEPT !.path = path, !.pc = "deleting"]
<1>1. t \in Tasks /\ task' = [task EXCEPT ![r] = t]
  BY FieldTypes DEF EnterCleanup
<1>2. /\ t.pc = "deleting" /\ t.path = path /\ t.stage = u.stage /\ t.ctx = u.ctx
      /\ t.outcome = u.outcome /\ t.status = u.status /\ t.frame = u.frame
      /\ t.raising = u.raising /\ t.foreign = u.foreign /\ t.cancels = u.cancels
      /\ t.terminal = u.terminal
  BY DEF Tasks
<1> HIDE DEF t
<1>3. task'[r] = t
  BY <1>1, MoveTask
<1>4. StageOrder(r)'
  BY <1>2, <1>3, OrderKept DEF StreamOrder, Started
<1>o. /\ task[r].path = None /\ task[r].status = 200
      /\ audit[r] = None /\ ~inflight[r]
      /\ task[r].pc # "fetching" => provider[r] # "none"
  BY DEF StreamOrder, Protocol, CleanedUp, SentAsGuarded
<1>5. SentAsGuarded(r)'
  BY <1>2, <1>3, <1>o DEF StreamOrder, SentAsGuarded
<1>6. Protocol(r)'
  BY <1>2, <1>3, <1>o DEF Protocol, Early, InCleanup, None, Open, Cancelled
<1>7. CleanedUp(r)'
  BY <1>2, <1>3, <1>o DEF CleanedUp, None
<1>8. Records(r)
  <2>1. task[r].frame = IF task[r].outcome = "error" THEN "error" ELSE None
    BY DEF StreamOrder, Protocol
  <2>2. SaidOf(t) = SaidOf(task[r])
    BY <1>2, <1>o, <2>1, SaidFacts DEF None
  <2>3. Sanitized(r)' <=> Sanitized(r)
    BY <1>2, <1>3 DEF Sanitized
  <2> QED BY <1>3, <2>2, <2>3 DEF Records
<1> QED BY <1>1, <1>4, <1>5, <1>6, <1>7, <1>8 DEF StreamOrder

\* What holds of a task in the audit write of cleanup().
LEMMA InAuditFacts ==
    ASSUME NEW r \in Requests, StreamOrder(r), task[r].pc = "auditing"
    PROVE  /\ task[r].path # None
           /\ task[r].path = "early" =>
                 /\ task[r].verdict \in Statuses /\ task[r].status = Open
                 /\ task[r].frame = None /\ task[r].outcome = None
                 /\ task[r].terminal = "REJECTED" /\ provider[r] = "none"
           /\ task[r].path # "early" =>
                 /\ task[r].status = 200
                 /\ task[r].frame = IF task[r].outcome = "error" THEN "error" ELSE None
           /\ task[r].path = "normal" => provider[r] # "none"
           /\ ~task[r].raising => cache[r] # "present"
           /\ audit[r] \in {None, task[r].terminal}
           /\ task[r].foreign \/ task[r].raising => task[r].cancels > 0
           /\ provider[r] # "none" => task[r].stage = 9 /\ ~HasErrors(task[r].ctx)
BY DEF StreamOrder, Protocol, SentAsGuarded, CleanedUp, InCleanup

\* cleanup() returned or raised.
LEMMA OrderCleanupEnds ==
    ASSUME TypeOK, NEW r \in Requests, StreamOrder(r), task[r].pc = "auditing",
           NEW ok \in BOOLEAN, CleanupEnds(r, ok),
           UNCHANGED <<cache, provider>>,
           audit'[r] \in {audit[r], task[r].terminal},
           ok /\ "chain" \in Configured => audit'[r] # None,
           audit[r] # None => audit'[r] # None,
           ok => ~task[r].raising
    PROVE  /\ StreamOrder(r)' /\ (Records(r) \/ Answers(r))
           /\ \E t \in Tasks : task' = [task EXCEPT ![r] = t]
<1>f. /\ task[r].path # None
      /\ task[r].path = "early" =>
            /\ task[r].verdict \in Statuses /\ task[r].status = Open
            /\ task[r].frame = None /\ task[r].outcome = None
            /\ task[r].terminal = "REJECTED" /\ provider[r] = "none"
      /\ task[r].path # "early" =>
            /\ task[r].status = 200
            /\ task[r].frame = IF task[r].outcome = "error" THEN "error" ELSE None
      /\ task[r].path = "normal" => provider[r] # "none"
      /\ ~task[r].raising => cache[r] # "present"
      /\ audit[r] \in {None, task[r].terminal}
      /\ task[r].foreign \/ task[r].raising => task[r].cancels > 0
      /\ provider[r] # "none" => task[r].stage = 9 /\ ~HasErrors(task[r].ctx)
  BY InAuditFacts
<1>1. PICK t \in Tasks :
              /\ task' = [task EXCEPT ![r] = t]
              /\ SameRun(task[r], t) /\ t.raising = task[r].raising
              /\ t.foreign = task[r].foreign /\ t.cancels = task[r].cancels
              /\ \/ /\ task[r].path = "early" /\ t.pc = "ended"
                    /\ t.status \in Statuses /\ t.frame = task[r].frame
                    /\ rotation' = rotation \/ EndSession(r)
                 \/ /\ task[r].path = "normal" /\ t.pc = "closing"
                    /\ t.status = task[r].status
                    /\ t.frame = IF ok THEN "done" ELSE "error"
                    /\ rotation' = rotation
                 \/ /\ task[r].path # "early" /\ t.pc = "ended"
                    /\ t.status = task[r].status /\ t.frame = task[r].frame
                    /\ task[r].foreign => rotation' = rotation
                    /\ ~task[r].foreign => EndSession(r)
  BY <1>f, CleanupEndsMoves
<1>2. task'[r] = t
  BY <1>1, MoveTask
<1>3. task[r].path # "early" /\ t.pc = "ended" /\ task[r].cancels = 0
         => rotation'.sessions[r] = NoSession
  BY <1>1, <1>f, SessionTypes
<1>4. StageOrder(r)'
  BY <1>1, <1>2, <1>f, OrderKept DEF StreamOrder, Started, SameRun
<1>5. SentAsGuarded(r)'
  BY <1>1, <1>2, <1>f DEF StreamOrder, SentAsGuarded, SameRun
<1>6. Protocol(r)'
  BY <1>1, <1>2, <1>f DEF Protocol, Early, InCleanup, SameRun
<1>7. CleanedUp(r)'
  BY <1>1, <1>2, <1>3, <1>f DEF StreamOrder, CleanedUp, SameRun, None
<1>8. Records(r) \/ Answers(r)
  <2>1. (Sanitized(r)' <=> Sanitized(r)) /\ t.outcome = task[r].outcome
    BY <1>1, <1>2 DEF Sanitized, SameRun
  <2>2. CASE task[r].path = "early" /\ t.status \in Statuses /\ t.frame = task[r].frame
    <3>1. SaidOf(task[r]) = "open" /\ SaidOf(t) = "rejected"
      BY <1>f, <2>1, <2>2, SaidFacts DEF None, Statuses, Open, Cancelled
    <3> QED BY <1>2, <2>1, <3>1 DEF Answers
  <2>3. CASE /\ task[r].path = "normal" /\ t.status = task[r].status
             /\ t.frame = IF ok THEN "done" ELSE "error"
    <3>1. CASE task[r].outcome = "error"
      <4>1. SaidOf(task[r]) = "rejected" /\ SaidOf(t) = "rejected"
        BY <2>1, <3>1, SaidFacts
      <4> QED BY <1>2, <2>1, <4>1 DEF Records
    <3>2. CASE task[r].outcome # "error"
      <4>1. SaidOf(task[r]) = "open"
        BY <1>f, <2>3, <3>2, SaidFacts DEF None
      <4>2. SaidOf(t) = IF ok THEN "complete" ELSE "rejected"
        BY <1>f, <2>1, <2>3, <3>2, SaidFacts
      <4> QED BY <1>2, <1>f, <2>1, <2>3, <4>1, <4>2 DEF Answers
    <3> QED BY <3>1, <3>2
  <2>4. CASE /\ task[r].path # "early" /\ t.status = task[r].status
             /\ t.frame = task[r].frame
    <3>1. SaidOf(t) = SaidOf(task[r])
      BY <2>1, <2>4 DEF SaidOf
    <3> QED BY <1>2, <2>1, <3>1 DEF Records
  <2> QED BY <1>1, <2>2, <2>3, <2>4
<1> QED BY <1>1, <1>4, <1>5, <1>6, <1>7, <1>8 DEF StreamOrder

\* A CancelledError left cleanup().
LEMMA OrderCleanupCancelled ==
    ASSUME TypeOK, NEW r \in Requests, StreamOrder(r), task[r].pc = "auditing",
           NEW u \in Tasks, CleanupCancelled(r, u),
           SameRun(task[r], u), u.raising = task[r].raising, u.foreign = task[r].foreign,
           u.status = task[r].status, u.frame = task[r].frame, u.cancels > 0,
           UNCHANGED <<cache, provider>>,
           audit'[r] \in {audit[r], task[r].terminal},
           audit[r] # None => audit'[r] # None
    PROVE  /\ StreamOrder(r)' /\ Records(r)
           /\ \E t \in Tasks : task' = [task EXCEPT ![r] = t]
<1>f. /\ task[r].path # None
      /\ task[r].path = "early" =>
            /\ task[r].status = Open /\ task[r].frame = None
            /\ task[r].terminal = "REJECTED" /\ provider[r] = "none"
      /\ task[r].path # "early" =>
            /\ task[r].status = 200
            /\ task[r].frame = IF task[r].outcome = "error" THEN "error" ELSE None
      /\ ~task[r].raising => cache[r] # "present"
      /\ audit[r] \in {None, task[r].terminal}
      /\ provider[r] # "none" => task[r].stage = 9 /\ ~HasErrors(task[r].ctx)
  BY InAuditFacts
<1>1. PICK t \in Tasks :
              /\ task' = [task EXCEPT ![r] = t]
              /\ SameRun(u, t) /\ t.pc = "ended" /\ t.raising = u.raising
              /\ t.foreign = u.foreign /\ t.cancels = u.cancels /\ t.frame = u.frame
              /\ t.status = IF u.path = "early" THEN Cancelled ELSE u.status
              /\ rotation' = rotation \/ EndSession(r)
  BY CleanupCancelledMoves
<1>2. task'[r] = t /\ SameRun(task[r], t)
  BY <1>1, MoveTask DEF SameRun
<1>4. StageOrder(r)'
  BY <1>1, <1>2, OrderKept DEF StreamOrder, Started, SameRun
<1>5. SentAsGuarded(r)'
  BY <1>1, <1>2, <1>f DEF StreamOrder, SentAsGuarded, SameRun
<1>6. Protocol(r)'
  BY <1>1, <1>2, <1>f DEF StreamOrder, Protocol, Early, InCleanup, SameRun
<1>7. CleanedUp(r)'
  BY <1>1, <1>2, <1>f DEF StreamOrder, CleanedUp, SameRun, None
<1>8. Records(r)
  <2>1. (Sanitized(r)' <=> Sanitized(r)) /\ t.outcome = task[r].outcome
    BY <1>1, <1>2 DEF Sanitized, SameRun
  <2>2. /\ t.frame = task[r].frame
        /\ t.status \in {Open, Cancelled, 200} /\ task[r].status \in {Open, Cancelled, 200}
    BY <1>1, <1>f DEF SameRun
  <2>3. SaidOf(t) = SaidOf(task[r])
    BY <2>1, <2>2 DEF SaidOf
  <2> QED BY <1>2, <2>1, <2>3 DEF Records
<1> QED BY <1>1, <1>4, <1>5, <1>6, <1>7, <1>8 DEF StreamOrder

\* What an audit write may leave behind.
LEMMA AuditFacts ==
    ASSUME TypeOK, NEW r \in Requests
    PROVE  /\ StoreEvent(r) \in {audit[r], task[r].terminal} /\ StoreEvent(r) # None
           /\ FailedWrite(r) =>
                 /\ audit'[r] \in {audit[r], task[r].terminal}
                 /\ audit[r] # None => audit'[r] # None
                 /\ audit' \in [Requests -> {None, "FINISH", "REJECTED", "PROVIDER_ERROR",
                                             "CLIENT_DISCONNECT"}]
                 /\ inflight' \in [Requests -> BOOLEAN]
                 /\ \A q \in Requests : q # r => /\ audit'[q] = audit[q]
                                                 /\ inflight'[q] = inflight[q]
           /\ audit' = [audit EXCEPT ![r] = StoreEvent(r)] =>
                 /\ audit'[r] = StoreEvent(r)
                 /\ audit' \in [Requests -> {None, "FINISH", "REJECTED", "PROVIDER_ERROR",
                                             "CLIENT_DISCONNECT"}]
                 /\ \A q \in Requests : q # r => audit'[q] = audit[q]
<1>1. task[r].terminal \in {"FINISH", "REJECTED", "PROVIDER_ERROR", "CLIENT_DISCONNECT"}
  BY DEF TypeOK, Tasks
<1>2. /\ StoreEvent(r) \in {audit[r], task[r].terminal} /\ StoreEvent(r) # None
      /\ StoreEvent(r) \in {None, "FINISH", "REJECTED", "PROVIDER_ERROR", "CLIENT_DISCONNECT"}
  BY <1>1 DEF StoreEvent, None, TypeOK
<1>3. audit' = [audit EXCEPT ![r] = StoreEvent(r)] =>
                 /\ audit'[r] = StoreEvent(r)
                 /\ audit' \in [Requests -> {None, "FINISH", "REJECTED", "PROVIDER_ERROR",
                                             "CLIENT_DISCONNECT"}]
                 /\ \A q \in Requests : q # r => audit'[q] = audit[q]
  BY <1>2 DEF TypeOK
<1>4. FailedWrite(r) =>
                 /\ audit'[r] \in {audit[r], task[r].terminal}
                 /\ audit[r] # None => audit'[r] # None
                 /\ audit' \in [Requests -> {None, "FINISH", "REJECTED", "PROVIDER_ERROR",
                                             "CLIENT_DISCONNECT"}]
                 /\ inflight' \in [Requests -> BOOLEAN]
                 /\ \A q \in Requests : q # r => /\ audit'[q] = audit[q]
                                                 /\ inflight'[q] = inflight[q]
  BY <1>2, <1>3 DEF FailedWrite, TypeOK
<1> QED BY <1>2, <1>3, <1>4

-----------------------------------------------------------------------------
(***************************************************************************)
(* The actions, one by one.                                                *)
(***************************************************************************)

\* The step moves the task and the session of r only.
Moves(r) ==
    /\ task' = task \/ \E t \in Tasks : task' = [task EXCEPT ![r] = t]
    /\ store' = store
    /\ rotation' = rotation \/ BeginSession(r) \/ EndSession(r)

\* The step changes what the services hold for r only.
Serves(r) ==
    /\ \/ cache' = cache
       \/ \E v \in {"absent", "present", "kept", "deleted", "expired"} :
             cache' = [cache EXCEPT ![r] = v]
    /\ \/ provider' = provider /\ key' = key
       \/ \E v \in Bodies, k \in 0..NoSession :
             /\ provider' = [provider EXCEPT ![r] = v]
             /\ key' = [key EXCEPT ![r] = k]
    /\ /\ audit' \in [Requests -> {None, "FINISH", "REJECTED", "PROVIDER_ERROR",
                                   "CLIENT_DISCONNECT"}]
       /\ inflight' \in [Requests -> BOOLEAN]
       /\ \A q \in Requests : q # r => audit'[q] = audit[q] /\ inflight'[q] = inflight[q]

\* What every step of r does.
Good(r) ==
    /\ StreamOrder(r)'
    /\ Moves(r)
    /\ Serves(r)
    /\ Prepares(r) \/ Sends(r) \/ Records(r) \/ Answers(r)

\* Such a step keeps the types and leaves the other requests alone.
LEMMA StepTypes ==
    ASSUME TypeOK, NEW r \in Requests, Moves(r), Serves(r)
    PROVE  TypeOK' /\ \A q \in Requests : q # r => Same(q)
<1>1. /\ task' \in [Requests -> Tasks]
      /\ \A q \in Requests : q # r => task'[q] = task[q]
  BY DEF Moves, TypeOK
<1>2. /\ rotation' \in [current : 0..MaxVersion, previous : 0..NoSession,
                        sessions : [Requests -> 0..NoSession]]
      /\ \A q \in Requests : q # r => rotation'.sessions[q] = rotation.sessions[q]
  BY SessionTypes DEF Moves, TypeOK
<1>3. /\ cache' \in [Requests -> {"absent", "present", "kept", "deleted", "expired"}]
      /\ \A q \in Requests : q # r => cache'[q] = cache[q]
  BY DEF Serves, TypeOK
<1>4. /\ provider' \in [Requests -> Bodies] /\ key' \in [Requests -> 0..NoSession]
      /\ \A q \in Requests : q # r => provider'[q] = provider[q]
  BY DEF Serves, TypeOK
<1>5. store' \in 0..MaxVersion
  BY DEF Moves, TypeOK
<1>6. /\ audit' \in [Requests -> {None, "FINISH", "REJECTED", "PROVIDER_ERROR",
                                  "CLIENT_DISCONNECT"}]
      /\ inflight' \in [Requests -> BOOLEAN]
      /\ \A q \in Requests : q # r => audit'[q] = audit[q] /\ inflight'[q] = inflight[q]
  BY DEF Serves
<1> QED BY <1>1, <1>2, <1>3, <1>4, <1>5, <1>6 DEF TypeOK, Same

\* A step that leaves the services alone serves.
LEMMA ServesNothing ==
    ASSUME TypeOK, NEW r \in Requests, UNCHANGED <<provider, key, audit, inflight>>,
           \/ cache' = cache
           \/ \E v \in {"absent", "present", "kept", "deleted", "expired"} :
                 cache' = [cache EXCEPT ![r] = v]
    PROVE  Serves(r)
BY DEF Serves, TypeOK

\* The fields of a task that did not get past the stages.
LEMMA EarlyFacts ==
    ASSUME NEW r \in Requests, StreamOrder(r), task[r].pc \in {"idle"} \cup Early
    PROVE  /\ task[r].path = None /\ task[r].status = Open
           /\ task[r].frame = None /\ task[r].outcome = None
           /\ provider[r] = "none" /\ audit[r] = None /\ ~inflight[r]
           /\ SaidOf(task[r]) = "open"
<1>1. /\ task[r].path = None /\ task[r].status = Open
      /\ task[r].frame = None /\ task[r].outcome = None
      /\ provider[r] = "none" /\ audit[r] = None /\ ~inflight[r]
  BY DEF StreamOrder, Protocol, SentAsGuarded, CleanedUp, Open, Early
<1>2. SaidOf(task[r]) = "open"
  BY <1>1, SaidFacts DEF None
<1> QED BY <1>1, <1>2

\* A request arrives.
LEMMA GoodReceive ==
    ASSUME TypeOK, NEW r \in Requests, StreamOrder(r), Receive(r)
    PROVE  Good(r)
<1>1. PICK b \in BOOLEAN :
         task' = [task EXCEPT ![r].pc = "stage", ![r].ctx = NewContext(b)]
  BY DEF Receive
<1>2. /\ task[r] \in Tasks /\ task[r].pc = "idle" /\ BeginSession(r)
      /\ UNCHANGED <<store, cache, provider, key, audit, inflight>>
  BY DEF Receive, services, TypeOK
<1>c. NewContext(b) \in Contexts /\ ~HasErrors(NewContext(b))
      /\ NewContext(b).token_mappings = "none"
  <2>1. <<>> \in Seq(Errors)
    BY EmptySeq
  <2>2. NewContext(b) \in Contexts
    BY <2>1 DEF NewContext, Contexts, Actions, Detections, Mappings, Replies, Bodies
  <2> QED BY <2>2 DEF NewContext, HasErrors
<1> DEFINE u == [task[r] EXCEPT !.ctx = NewContext(b)]
           t == [u EXCEPT !.pc = "stage"]
<1>3. task' = [task EXCEPT ![r] = t]
  BY <1>1, <1>2 DEF TypeOK
<1>4. t \in Tasks
  <2>1. u \in Tasks
    BY <1>2, <1>c, FieldTypes
  <2>2. "stage" \in Active
    BY DEF Active, Early
  <2> QED BY <2>1, <2>2, FieldTypes
<1>5. /\ t.pc = "stage" /\ t.ctx = NewContext(b) /\ t.stage = task[r].stage
      /\ t.path = task[r].path /\ t.status = task[r].status /\ t.frame = task[r].frame
      /\ t.outcome = task[r].outcome /\ t.raising = task[r].raising
      /\ t.foreign = task[r].foreign /\ t.cancels = task[r].cancels
  BY <1>2 DEF Tasks
<1> HIDE DEF t, u
<1>6. task'[r] = t
  BY <1>3, MoveTask
<1>7. /\ task[r].path = None /\ task[r].status = Open
      /\ task[r].frame = None /\ task[r].outcome = None
      /\ provider[r] = "none" /\ audit[r] = None /\ ~inflight[r]
      /\ SaidOf(task[r]) = "open" /\ task[r].stage = 1
      /\ task[r].foreign \/ task[r].raising => task[r].cancels > 0
  BY <1>2, EarlyFacts DEF StreamOrder, StageOrder, CleanedUp
<1>8. StageOrder(r)'
  BY <1>5, <1>6, <1>7, <1>c DEF StageOrder, Started
<1>9. SentAsGuarded(r)' /\ Protocol(r)'
  BY <1>2, <1>5, <1>6, <1>7 DEF SentAsGuarded, Protocol, Early, InCleanup, None
<1>10. CleanedUp(r)'
  BY <1>2, <1>5, <1>6, <1>7 DEF CleanedUp, None
<1>11. Prepares(r)
  <2>1. ~Sanitized(r)
    BY <1>2 DEF StreamOrder, StageOrder, Sanitized
  <2>2. SaidOf(t) = "open"
    BY <1>5, <1>7 DEF SaidOf
  <2> QED BY <1>2, <1>6, <1>7, <2>1, <2>2 DEF Prepares
<1>12. Moves(r) /\ Serves(r)
  BY <1>2, <1>3, <1>4, ServesNothing DEF Moves
<1> QED BY <1>8, <1>9, <1>10, <1>11, <1>12 DEF Good, StreamOrder

\* A deployment without detection refuses.
LEMMA GoodNotReady ==
    ASSUME TypeOK, NEW r \in Requests, StreamOrder(r), NotReady(r)
    PROVE  Good(r)
<1>1. /\ task[r] \in Tasks /\ task[r].pc = "idle" /\ BeginSession(r)
      /\ task' = [task EXCEPT ![r].pc = "ended", ![r].status = 503]
      /\ UNCHANGED <<store, cache, provider, key, audit, inflight>>
  BY DEF NotReady, services, TypeOK
<1> DEFINE t == [task[r] EXCEPT !.pc = "ended", !.status = 503]
<1>2. t \in Tasks /\ task' = [task EXCEPT ![r] = t]
  <2>1. 503 \in Statuses \cup {Open, Cancelled, 200}
    BY DEF Statuses
  <2>2. task' = [task EXCEPT ![r] = t]
    BY <1>1, ZenonT(60) DEF TypeOK
  <2>3. t \in Tasks
    <3>1. [task[r] EXCEPT !.pc = "ended"] \in Tasks
      BY <1>1, FieldTypes
    <3>2. \A u \in Tasks : [u EXCEPT !.status = 503] \in Tasks
      BY <2>1 DEF Tasks
    <3> QED BY <3>1, <3>2
  <2> QED BY <2>2, <2>3
<1>3. /\ t.pc = "ended" /\ t.ctx = task[r].ctx /\ t.stage = task[r].stage
      /\ t.path = task[r].path /\ t.status = 503 /\ t.frame = task[r].frame
      /\ t.outcome = task[r].outcome /\ t.raising = task[r].raising
      /\ t.foreign = task[r].foreign /\ t.cancels = task[r].cancels
      /\ t.terminal = task[r].terminal
  BY <1>1 DEF Tasks
<1> HIDE DEF t
<1>4. task'[r] = t
  BY <1>2, MoveTask
<1>5. /\ task[r].path = None /\ task[r].status = Open
      /\ task[r].frame = None /\ task[r].outcome = None
      /\ provider[r] = "none" /\ audit[r] = None /\ ~inflight[r]
      /\ SaidOf(task[r]) = "open" /\ task[r].stage = 1
      /\ task[r].foreign \/ task[r].raising => task[r].cancels > 0
  BY <1>1, EarlyFacts DEF StreamOrder, StageOrder, CleanedUp
<1>6. StageOrder(r)'
  BY <1>3, <1>4, <1>5 DEF StageOrder, Started
<1>7. SentAsGuarded(r)' /\ Protocol(r)' /\ CleanedUp(r)'
  BY <1>1, <1>3, <1>4, <1>5 DEF SentAsGuarded, Protocol, CleanedUp, Early, InCleanup, None
<1>8. Answers(r)
  <2>1. Sanitized(r)' <=> Sanitized(r)
    BY <1>1, <1>3, <1>4 DEF Sanitized
  <2>2. SaidOf(t) = "rejected"
    BY <1>3, <1>5, SaidFacts DEF None, Open, Cancelled
  <2> QED BY <1>1, <1>4, <1>5, <2>1, <2>2 DEF Answers
<1>9. Moves(r) /\ Serves(r)
  BY <1>1, <1>2, ServesNothing DEF Moves
<1> QED BY <1>6, <1>7, <1>8, <1>9 DEF Good, StreamOrder

\* A stage of the handler runs.
LEMMA GoodRunStage ==
    ASSUME TypeOK, NEW r \in Requests, StreamOrder(r), RunStage(r)
    PROVE  Good(r)
<1> DEFINE name == StreamStages[task[r].stage]
<1>1. PICK c \in StreamStageOutcomes(name, task[r].ctx) :
         IF name = "Tokenization" /\ ~HasErrors(c) /\ StoresMapping(c)
         THEN task' = [task EXCEPT ![r].ctx = c, ![r].pc = "storing"]
         ELSE AfterStage(r, c)
  BY DEF RunStage
<1>2. /\ task[r] \in Tasks /\ task[r].pc = "stage" /\ task[r].stage \in 1..9
      /\ task[r].ctx \in Contexts
      /\ UNCHANGED <<store, rotation, cache, provider, key, audit, inflight>>
  BY OutcomesAt DEF RunStage, services, TypeOK, Tasks
<1>3. c \in StageAt(task[r].stage, task[r].ctx, {})
  BY <1>2, OutcomesAt
<1>4. c \in Contexts
  BY <1>2, <1>3, StageAtTypes
<1>5. /\ ~HasErrors(task[r].ctx)
      /\ task[r].stage > 1 => task[r].ctx.action = "ANONYMIZE"
      /\ task[r].stage > 3 => task[r].ctx.detections # "none"
      /\ task[r].stage < 9 => task[r].ctx.token_mappings = "none"
      /\ task[r].stage > 8 => /\ Sanitized(r)
                              /\ task[r].ctx.transformed # "none"
                              /\ task[r].ctx.transformed = "copy"
                                    => task[r].ctx.detections = "empty"
  BY <1>2 DEF StreamOrder, StageOrder
<1>6. /\ task[r].stage \notin {1, 3, 8} => SameButErrors(task[r].ctx, c)
      /\ task[r].stage = 1 => /\ ~HasErrors(c) => c.action = "ANONYMIZE"
                              /\ c.token_mappings = task[r].ctx.token_mappings
      /\ task[r].stage = 3 => /\ ~HasErrors(c) => c.detections # "none"
                              /\ c.action = task[r].ctx.action
                              /\ c.token_mappings = task[r].ctx.token_mappings
      /\ task[r].stage = 8 =>
            \/ HasErrors(c)
            \/ /\ c.action = task[r].ctx.action
               /\ c.detections = task[r].ctx.detections
               /\ \/ /\ c.detections = "empty" /\ c.transformed = "copy"
                     /\ c.token_mappings = "empty"
                  \/ /\ c.detections = "irreversible" /\ c.transformed = "tokenized"
                     /\ c.token_mappings = "empty"
                  \/ /\ c.detections = "reversible" /\ c.transformed = "tokenized"
                     /\ c.token_mappings = task[r].ctx.token_mappings
  <2>1. task[r].stage \in 1..12
    BY <1>2
  <2> QED BY <1>2, <1>3, <1>5, <2>1, StageAtEffects
<1>7. name = "Tokenization" <=> task[r].stage = 8
  BY <1>2, OutcomesAt
<1> HIDE DEF name
<1>8. CASE name = "Tokenization" /\ ~HasErrors(c) /\ StoresMapping(c)
  <2> DEFINE u == [task[r] EXCEPT !.ctx = c]
             t == [u EXCEPT !.pc = "storing"]
  <2>1. task' = [task EXCEPT ![r] = t]
    BY <1>1, <1>2, <1>8 DEF TypeOK
  <2>2. t \in Tasks
    <3>1. u \in Tasks
      BY <1>2, <1>4, FieldTypes
    <3>2. "storing" \in Active
      BY DEF Active, Early
    <3> QED BY <3>1, <3>2, FieldTypes
  <2>3. /\ t.pc = "storing" /\ t.ctx = c /\ t.stage = task[r].stage
        /\ t.path = task[r].path /\ t.status = task[r].status /\ t.frame = task[r].frame
        /\ t.outcome = task[r].outcome /\ t.raising = task[r].raising
        /\ t.foreign = task[r].foreign /\ t.cancels = task[r].cancels
    BY <1>2 DEF Tasks
  <2> HIDE DEF t, u
  <2>4. task'[r] = t
    BY <2>1, MoveTask
  <2>5. /\ task[r].path = None /\ task[r].status = Open
        /\ task[r].frame = None /\ task[r].outcome = None
        /\ provider[r] = "none" /\ audit[r] = None /\ ~inflight[r]
        /\ SaidOf(task[r]) = "open"
        /\ task[r].foreign \/ task[r].raising => task[r].cancels > 0
    BY <1>2, EarlyFacts DEF StreamOrder, CleanedUp, Early
  <2>6. StageOrder(r)'
    BY <1>5, <1>6, <1>7, <1>8, <2>3, <2>4 DEF StageOrder, Started, StoresMapping
  <2>7. SentAsGuarded(r)' /\ Protocol(r)'
    BY <1>2, <2>3, <2>4, <2>5 DEF SentAsGuarded, Protocol, Early, InCleanup, None
  <2>8. CleanedUp(r)'
    BY <1>2, <2>3, <2>4, <2>5 DEF CleanedUp, None
  <2>9. Prepares(r)
    <3>1. ~Sanitized(r)
      BY <1>5, <1>7, <1>8 DEF Sanitized
    <3>2. SaidOf(t) = "open"
      BY <2>3, <2>5 DEF SaidOf
    <3> QED BY <1>2, <2>4, <2>5, <3>1, <3>2 DEF Prepares
  <2>10. Moves(r) /\ Serves(r)
    BY <1>2, <2>1, <2>2, ServesNothing DEF Moves
  <2> QED BY <2>6, <2>7, <2>8, <2>9, <2>10 DEF Good, StreamOrder
<1>9. CASE ~(name = "Tokenization" /\ ~HasErrors(c) /\ StoresMapping(c))
  <2>1. AfterStage(r, c)
    BY <1>1, <1>9
  <2>2. ~HasErrors(c) => StageDone(r, c)
    <3>1. SUFFICES ASSUME ~HasErrors(c) PROVE StageDone(r, c)
      OBVIOUS
    <3>2. CASE task[r].stage = 8
      BY <1>5, <1>6, <1>7, <1>9, <3>1, <3>2 DEF StageDone, StoresMapping
    <3>3. CASE task[r].stage = 9
      BY <1>2, <1>5, <1>6, <3>3 DEF StageDone, SameButErrors, Sanitized
    <3>4. CASE task[r].stage \in {1, 3}
      BY <1>5, <1>6, <3>1, <3>4 DEF StageDone
    <3>5. CASE task[r].stage \in {2, 4, 5, 6, 7}
      BY <1>5, <1>6, <3>5 DEF StageDone, SameButErrors
    <3> QED BY <1>2, <3>2, <3>3, <3>4, <3>5
  <2>3. task[r].stage > 8 => SameButErrors(task[r].ctx, c) /\ UNCHANGED cache
    BY <1>2, <1>6
  <2>4. /\ StreamOrder(r)' /\ Prepares(r)
        /\ \E t \in Tasks : task' = [task EXCEPT ![r] = t]
    BY <1>2, <1>4, <2>1, <2>2, <2>3, OrderAfterStage
  <2>5. Moves(r) /\ Serves(r)
    BY <1>2, <2>4, ServesNothing DEF Moves
  <2> QED BY <2>4, <2>5 DEF Good
<1> QED BY <1>8, <1>9

\* store_mapping returns or raises.
LEMMA GoodStoreMapping ==
    ASSUME TypeOK, NEW r \in Requests, StreamOrder(r), StoreMapping(r)
    PROVE  Good(r)
<1>1. /\ task[r] \in Tasks /\ task[r].pc = "storing" /\ task[r].ctx \in Contexts
      /\ UNCHANGED <<store, rotation, provider, key, audit, inflight>>
  BY DEF StoreMapping, TypeOK, Tasks
<1>2. /\ task[r].stage = 8 /\ task[r].ctx.transformed = "tokenized"
      /\ task[r].ctx.action = "ANONYMIZE" /\ task[r].ctx.detections # "none"
      /\ ~HasErrors(task[r].ctx)
  BY <1>1 DEF StreamOrder, StageOrder
<1>3. PICK v \in {"absent", "present"}, c \in Contexts :
         /\ cache' = [cache EXCEPT ![r] = v]
         /\ AfterStage(r, c)
         /\ HasErrors(c) \/ (v = "present" /\ c = MappingStored(task[r].ctx))
  BY <1>1, StoreOutcomes DEF StoreMapping
<1>4. cache'[r] = v
  BY <1>3 DEF TypeOK
<1>5. ~HasErrors(c) => StageDone(r, c)
  BY <1>1, <1>2, <1>3, <1>4, StoreOutcomes DEF StageDone
<1>6. /\ StreamOrder(r)' /\ Prepares(r)
      /\ \E t \in Tasks : task' = [task EXCEPT ![r] = t]
  BY <1>1, <1>2, <1>3, <1>5, OrderAfterStage
<1>7. Moves(r) /\ Serves(r)
  BY <1>1, <1>3, <1>6, ServesNothing DEF Moves
<1> QED BY <1>6, <1>7 DEF Good

\* The fields of a task whose generator has started.
LEMMA GeneratorFacts ==
    ASSUME NEW r \in Requests, StreamOrder(r),
           task[r].pc \in {"fetching", "streaming", "yielding"}
    PROVE  /\ task[r].path = None /\ task[r].status = 200
           /\ task[r].frame = IF task[r].outcome = "error" THEN "error" ELSE None
           /\ task[r].pc \in {"fetching", "streaming"} =>
                 task[r].frame = None /\ task[r].outcome = None
           /\ task[r].pc # "fetching" => provider[r] # "none"
           /\ audit[r] = None /\ ~inflight[r]
           /\ task[r].foreign \/ task[r].raising => task[r].cancels > 0
           /\ task[r].stage = 9 /\ ~HasErrors(task[r].ctx) /\ Sanitized(r)
           /\ task[r].ctx.transformed # "none"
<1>1. task[r].stage = 9 /\ ~HasErrors(task[r].ctx)
  BY DEF StreamOrder, StageOrder, Started
<1>2. Sanitized(r) /\ task[r].ctx.transformed # "none"
  BY <1>1 DEF StreamOrder, StageOrder
<1>3. /\ task[r].path = None /\ task[r].status = 200
      /\ task[r].frame = IF task[r].outcome = "error" THEN "error" ELSE None
      /\ task[r].pc \in {"fetching", "streaming"} =>
            task[r].frame = None /\ task[r].outcome = None
  BY DEF StreamOrder, Protocol, None
<1>4. /\ task[r].pc # "fetching" => provider[r] # "none"
      /\ audit[r] = None /\ ~inflight[r]
      /\ task[r].foreign \/ task[r].raising => task[r].cancels > 0
  BY <1>3 DEF StreamOrder, SentAsGuarded, CleanedUp
<1> QED BY <1>1, <1>2, <1>3, <1>4

\* The server asks for the first frame.
LEMMA GoodStartStream ==
    ASSUME TypeOK, NEW r \in Requests, StreamOrder(r), StartStream(r)
    PROVE  Good(r)
<1>1. /\ task[r] \in Tasks /\ task[r].pc = "ready"
      /\ task' = [task EXCEPT ![r].pc = "fetching", ![r].status = 200]
      /\ UNCHANGED <<store, rotation, cache, provider, key, audit, inflight>>
  BY DEF StartStream, services, TypeOK
<1> DEFINE t == [task[r] EXCEPT !.pc = "fetching", !.status = 200]
<1>2. t \in Tasks /\ task' = [task EXCEPT ![r] = t]
  <2>1. "fetching" \in Active
    BY DEF Active, Started
  <2>2. t \in Tasks
    <3>1. [task[r] EXCEPT !.pc = "fetching"] \in Tasks
      BY <1>1, <2>1, FieldTypes
    <3>2. \A u \in Tasks : [u EXCEPT !.status = 200] \in Tasks
      BY DEF Tasks
    <3> QED BY <3>1, <3>2
  <2>3. task' = [task EXCEPT ![r] = t]
    BY <1>1 DEF TypeOK
  <2> QED BY <2>2, <2>3
<1>3. /\ t.pc = "fetching" /\ t.ctx = task[r].ctx /\ t.stage = task[r].stage
      /\ t.path = task[r].path /\ t.status = 200 /\ t.frame = task[r].frame
      /\ t.outcome = task[r].outcome /\ t.raising = task[r].raising
      /\ t.foreign = task[r].foreign /\ t.cancels = task[r].cancels
  BY <1>1 DEF Tasks
<1> HIDE DEF t
<1>4. task'[r] = t
  BY <1>2, MoveTask
<1>5. /\ task[r].path = None /\ task[r].frame = None /\ task[r].outcome = None
      /\ provider[r] = "none" /\ audit[r] = None /\ ~inflight[r]
      /\ SaidOf(task[r]) = "open"
      /\ task[r].foreign \/ task[r].raising => task[r].cancels > 0
  BY <1>1, EarlyFacts DEF StreamOrder, CleanedUp, Early
<1>6. StageOrder(r)'
  BY <1>1, <1>3, <1>4, OrderKept DEF StreamOrder, StageOrder
<1>7. SentAsGuarded(r)' /\ Protocol(r)'
  BY <1>1, <1>3, <1>4, <1>5 DEF SentAsGuarded, Protocol, Early, InCleanup, None
<1>8. CleanedUp(r)'
  BY <1>1, <1>3, <1>4, <1>5 DEF CleanedUp, None
<1>9. Prepares(r)
  <2>1. Sanitized(r)' <=> Sanitized(r)
    BY <1>1, <1>3, <1>4 DEF Sanitized
  <2>2. SaidOf(t) = "open"
    BY <1>3, <1>5, SaidFacts DEF None
  <2> QED BY <1>1, <1>4, <1>5, <2>1, <2>2 DEF Prepares
<1>10. Moves(r) /\ Serves(r)
  BY <1>1, <1>2, ServesNothing DEF Moves
<1> QED BY <1>6, <1>7, <1>8, <1>9, <1>10 DEF Good, StreamOrder

\* The mapping is read and the provider called, or the read fails.
LEMMA GoodFetchMapping ==
    ASSUME TypeOK, NEW r \in Requests, StreamOrder(r), FetchMapping(r)
    PROVE  Good(r)
<1>1. /\ task[r] \in Tasks /\ task[r].pc = "fetching"
      /\ UNCHANGED <<store, rotation, cache, audit, inflight>>
  BY DEF FetchMapping, TypeOK
<1>2. /\ task[r].path = None /\ task[r].status = 200
      /\ task[r].frame = None /\ task[r].outcome = None
      /\ audit[r] = None /\ ~inflight[r]
      /\ task[r].foreign \/ task[r].raising => task[r].cancels > 0
      /\ task[r].stage = 9 /\ ~HasErrors(task[r].ctx) /\ Sanitized(r)
      /\ task[r].ctx.transformed # "none"
  BY <1>1, GeneratorFacts
<1>3. CASE /\ provider' = [provider EXCEPT ![r] = task[r].ctx.transformed]
           /\ key' = [key EXCEPT ![r] = task[r].header]
           /\ task' = [task EXCEPT ![r].pc = "streaming"]
  <2> DEFINE t == [task[r] EXCEPT !.pc = "streaming"]
  <2>1. t \in Tasks /\ task' = [task EXCEPT ![r] = t]
    <3>1. "streaming" \in Active
      BY DEF Active, Started
    <3>2. t \in Tasks
      BY <1>1, <3>1, FieldTypes
    <3>3. task' = [task EXCEPT ![r] = t]
      BY <1>1, <1>3 DEF TypeOK
    <3> QED BY <3>2, <3>3
  <2>2. SameRun(task[r], t) /\ t.pc = "streaming" /\ t.status = task[r].status
        /\ t.frame = task[r].frame /\ t.raising = task[r].raising
        /\ t.foreign = task[r].foreign /\ t.cancels = task[r].cancels
    BY <1>1 DEF Tasks, SameRun
  <2> HIDE DEF t
  <2>3. task'[r] = t /\ provider'[r] = task[r].ctx.transformed
    BY <1>3, <2>1, MoveTask DEF TypeOK
  <2>4. StageOrder(r)'
    BY <1>1, <1>2, <2>2, <2>3, OrderKept DEF StreamOrder, SameRun
  <2>5. SentAsGuarded(r)' /\ Protocol(r)'
    BY <1>1, <1>2, <2>2, <2>3 DEF SentAsGuarded, Protocol, SameRun, Early, InCleanup, None,
                                  Open, Cancelled
  <2>6. CleanedUp(r)'
    BY <1>1, <1>2, <2>2, <2>3 DEF CleanedUp, SameRun, None
  <2>7. Sends(r) \/ Prepares(r)
    <3>1. Sanitized(r)'
      BY <1>1, <1>2, <2>2, <2>3 DEF Sanitized, SameRun
    <3>2. SaidOf(t) = "open" /\ SaidOf(task[r]) = "open"
      BY <1>2, <2>2, SaidFacts DEF None, SameRun
    <3>3. CASE provider[r] = "none"
      BY <1>1, <1>2, <2>3, <3>1, <3>2, <3>3 DEF Sends
    <3>4. CASE provider[r] # "none"
      BY <1>1, <2>3, <3>1, <3>2, <3>4 DEF Prepares, StreamOrder, SentAsGuarded
    <3> QED BY <3>3, <3>4
  <2>8. Serves(r)
    <3>1. task[r].ctx.transformed \in Bodies /\ task[r].header \in 0..NoSession
      <4>1. task[r].ctx \in Contexts /\ task[r].header \in 0..MaxVersion
        BY <1>1 DEF Tasks
      <4>2. 0..MaxVersion \subseteq 0..NoSession
        BY StreamAssumption DEF NoSession
      <4> QED BY <4>1, <4>2 DEF Contexts
    <3> QED BY <1>1, <1>3, <3>1 DEF Serves, TypeOK
  <2> QED BY <1>1, <2>1, <2>4, <2>5, <2>6, <2>7, <2>8 DEF Good, StreamOrder, Moves
<1>4. CASE EnterFinally(r, FALSE) /\ UNCHANGED <<provider, key>>
  <2> DEFINE u == [task[r] EXCEPT !.foreign = FALSE]
  <2>1. u \in Tasks
    BY <1>1, FieldTypes
  <2>2. EnterCleanup(r, u, "finally")
    BY <1>4 DEF EnterFinally
  <2>3. /\ u.stage = task[r].stage /\ u.ctx = task[r].ctx /\ u.status = task[r].status
        /\ u.frame = task[r].frame /\ u.outcome = task[r].outcome
        /\ u.raising = task[r].raising /\ u.cancels = task[r].cancels /\ ~u.foreign
    BY <1>1 DEF Tasks
  <2> HIDE DEF u
  <2>4. /\ StreamOrder(r)' /\ Records(r)
        /\ \E t \in Tasks : task' = [task EXCEPT ![r] = t]
    BY <1>1, <1>2, <1>4, <2>1, <2>2, <2>3, OrderEnterCleanup DEF None
  <2>5. Moves(r) /\ Serves(r)
    BY <1>1, <1>4, <2>4, ServesNothing DEF Moves
  <2> QED BY <2>4, <2>5 DEF Good
<1> QED BY <1>3, <1>4 DEF FetchMapping

\* The generator has a last frame to send.
LEMMA OrderYield ==
    ASSUME TypeOK, NEW r \in Requests, StreamOrder(r), task[r].pc = "streaming",
           NEW t \in Tasks, task' = [task EXCEPT ![r] = t],
           t.pc = "yielding", t.stage = task[r].stage, t.ctx = task[r].ctx,
           t.path = task[r].path, t.status = task[r].status,
           t.frame = IF t.outcome = "error" THEN "error" ELSE None,
           t.raising = task[r].raising, t.foreign = task[r].foreign,
           t.cancels = task[r].cancels,
           UNCHANGED <<cache, provider, audit, inflight, rotation>>
    PROVE  StreamOrder(r)' /\ (Records(r) \/ Answers(r))
<1>1. task'[r] = t
  BY MoveTask
<1>2. /\ task[r].path = None /\ task[r].status = 200
      /\ task[r].frame = None /\ task[r].outcome = None
      /\ provider[r] # "none" /\ audit[r] = None /\ ~inflight[r]
      /\ task[r].foreign \/ task[r].raising => task[r].cancels > 0
      /\ task[r].stage = 9 /\ ~HasErrors(task[r].ctx) /\ Sanitized(r)
  BY GeneratorFacts
<1>3. StageOrder(r)'
  BY <1>1, <1>2, OrderKept DEF StreamOrder
<1>4. SentAsGuarded(r)' /\ Protocol(r)'
  BY <1>1, <1>2 DEF StreamOrder, SentAsGuarded, Protocol, Early, InCleanup, None, Open, Cancelled
<1>5. CleanedUp(r)'
  BY <1>1, <1>2 DEF CleanedUp, None
<1>6. Sanitized(r)' <=> Sanitized(r)
  BY <1>1 DEF Sanitized
<1>7. SaidOf(task[r]) = "open" /\ SaidOf(t) \in {"open", "rejected"}
  BY <1>2, SaidFacts DEF None
<1>8. Records(r) \/ Answers(r)
  BY <1>1, <1>6, <1>7 DEF Records, Answers
<1> QED BY <1>3, <1>4, <1>5, <1>8 DEF StreamOrder

\* The event loop of the generator stops.
LEMMA GoodStreamEvent ==
    ASSUME TypeOK, NEW r \in Requests, StreamOrder(r), StreamEvent(r)
    PROVE  Good(r)
<1>1. /\ task[r] \in Tasks /\ task[r].pc = "streaming"
      /\ UNCHANGED <<store, rotation, cache, provider, key, audit, inflight>>
  BY DEF StreamEvent, services, TypeOK
<1>2. /\ task[r].frame = None /\ task[r].outcome = None
      /\ task[r].foreign \/ task[r].raising => task[r].cancels > 0
  BY <1>1, GeneratorFacts
<1>3. Serves(r)
  BY <1>1, ServesNothing
<1>4. ASSUME NEW o \in {"finish", "exhausted"},
             task' = [task EXCEPT ![r].pc = "yielding", ![r].outcome = o]
      PROVE  Good(r)
  <2> DEFINE u == [task[r] EXCEPT !.pc = "yielding"]
             t == [u EXCEPT !.outcome = o]
  <2>1. task' = [task EXCEPT ![r] = t]
    BY <1>1, <1>4 DEF TypeOK
  <2>2. t \in Tasks
    <3>1. "yielding" \in Active
      BY DEF Active, Started
    <3>2. u \in Tasks
      BY <1>1, <3>1, FieldTypes
    <3>3. \A v \in Tasks : [v EXCEPT !.outcome = o] \in Tasks
      BY DEF Tasks
    <3> QED BY <3>2, <3>3
  <2>3. /\ t.pc = "yielding" /\ t.stage = task[r].stage /\ t.ctx = task[r].ctx
        /\ t.path = task[r].path /\ t.status = task[r].status
        /\ t.frame = task[r].frame /\ t.outcome = o
        /\ t.raising = task[r].raising /\ t.foreign = task[r].foreign
        /\ t.cancels = task[r].cancels
    BY <1>1 DEF Tasks
  <2> HIDE DEF t, u
  <2>4. StreamOrder(r)' /\ (Records(r) \/ Answers(r))
    BY <1>1, <1>2, <1>4, <2>1, <2>2, <2>3, OrderYield
  <2> QED BY <1>1, <1>3, <2>1, <2>2, <2>4 DEF Good, Moves
<1>5. ASSUME task' = [task EXCEPT ![r].pc = "yielding", ![r].outcome = "error",
                               ![r].terminal = "PROVIDER_ERROR", ![r].frame = "error"]
      PROVE  Good(r)
  <2> DEFINE u == [task[r] EXCEPT !.pc = "yielding"]
             w == [u EXCEPT !.outcome = "error", !.terminal = "PROVIDER_ERROR"]
             t == [w EXCEPT !.frame = "error"]
  <2>1. task' = [task EXCEPT ![r] = t]
    BY <1>1, <1>5 DEF TypeOK
  <2>2. t \in Tasks
    <3>1. "yielding" \in Active
      BY DEF Active, Started
    <3>2. u \in Tasks
      BY <1>1, <3>1, FieldTypes
    <3>3. \A v \in Tasks : [v EXCEPT !.outcome = "error", !.terminal = "PROVIDER_ERROR"] \in Tasks
      BY ZenonT(60) DEF Tasks
    <3>4. \A v \in Tasks : [v EXCEPT !.frame = "error"] \in Tasks
      BY DEF Tasks
    <3> QED BY <3>2, <3>3, <3>4
  <2>3. /\ t.pc = "yielding" /\ t.stage = task[r].stage /\ t.ctx = task[r].ctx
        /\ t.path = task[r].path /\ t.status = task[r].status
        /\ t.frame = "error" /\ t.outcome = "error"
        /\ t.raising = task[r].raising /\ t.foreign = task[r].foreign
        /\ t.cancels = task[r].cancels
    BY <1>1 DEF Tasks
  <2> HIDE DEF t, u, w
  <2>4. StreamOrder(r)' /\ (Records(r) \/ Answers(r))
    BY <1>1, <1>2, <2>1, <2>2, <2>3, OrderYield
  <2> QED BY <1>1, <1>3, <2>1, <2>2, <2>4 DEF Good, Moves
<1>6. ASSUME NEW u \in Tasks, EnterCleanup(r, u, "normal"),
             u.stage = task[r].stage, u.ctx = task[r].ctx, u.status = task[r].status,
             u.frame = task[r].frame, u.raising = task[r].raising,
             u.foreign = task[r].foreign, u.cancels = task[r].cancels,
             u.outcome \in {"exhausted", "disconnect"}
      PROVE  Good(r)
  <2>1. /\ StreamOrder(r)' /\ Records(r)
        /\ \E t \in Tasks : task' = [task EXCEPT ![r] = t]
    BY <1>1, <1>2, <1>6, OrderEnterCleanup DEF None
  <2> QED BY <1>1, <1>3, <2>1 DEF Good, Moves
<1>7. CASE EnterCleanup(r, [task[r] EXCEPT !.outcome = "exhausted"], "normal")
  <2> DEFINE u == [task[r] EXCEPT !.outcome = "exhausted"]
  <2>1. u \in Tasks
    BY <1>1 DEF Tasks
  <2>2. /\ u.stage = task[r].stage /\ u.ctx = task[r].ctx /\ u.status = task[r].status
        /\ u.frame = task[r].frame /\ u.raising = task[r].raising
        /\ u.foreign = task[r].foreign /\ u.cancels = task[r].cancels
        /\ u.outcome = "exhausted"
    BY <1>1 DEF Tasks
  <2>3. EnterCleanup(r, u, "normal")
    BY <1>7
  <2> HIDE DEF u
  <2> QED BY <1>6, <2>1, <2>2, <2>3
<1>8. CASE EnterCleanup(r, [task[r] EXCEPT !.outcome = "disconnect",
                                           !.terminal = "CLIENT_DISCONNECT"], "normal")
  <2> DEFINE u == [task[r] EXCEPT !.outcome = "disconnect", !.terminal = "CLIENT_DISCONNECT"]
  <2>1. u \in Tasks
    BY <1>1, ZenonT(60) DEF Tasks
  <2>2. /\ u.stage = task[r].stage /\ u.ctx = task[r].ctx /\ u.status = task[r].status
        /\ u.frame = task[r].frame /\ u.raising = task[r].raising
        /\ u.foreign = task[r].foreign /\ u.cancels = task[r].cancels
        /\ u.outcome = "disconnect"
    BY <1>1 DEF Tasks
  <2>3. EnterCleanup(r, u, "normal")
    BY <1>8
  <2> HIDE DEF u
  <2> QED BY <1>6, <2>1, <2>2, <2>3
<1> QED BY <1>4, <1>5, <1>7, <1>8 DEF StreamEvent

\* The last frame was sent.
LEMMA GoodCloseStream ==
    ASSUME TypeOK, NEW r \in Requests, StreamOrder(r), CloseStream(r)
    PROVE  Good(r)
<1>1. /\ task[r] \in Tasks /\ task[r].pc = "yielding" /\ EnterCleanup(r, task[r], "normal")
      /\ UNCHANGED <<store, rotation, cache, provider, key, audit, inflight>>
  BY DEF CloseStream, services, TypeOK
<1>2. /\ task[r].frame = IF task[r].outcome = "error" THEN "error" ELSE None
      /\ task[r].foreign \/ task[r].raising => task[r].cancels > 0
  BY <1>1, GeneratorFacts
<1>3. /\ StreamOrder(r)' /\ Records(r)
      /\ \E t \in Tasks : task' = [task EXCEPT ![r] = t]
  BY <1>1, <1>2, OrderEnterCleanup
<1> QED BY <1>1, <1>3, ServesNothing DEF Good, Moves

\* The generator ends at its closing frame, in its own Context or another.
LEMMA OrderLeaveClosing ==
    ASSUME TypeOK, NEW r \in Requests, StreamOrder(r), task[r].pc = "closing",
           NEW u \in Tasks, LeaveGenerator(r, u), SameRun(task[r], u),
           u.raising = task[r].raising, u.status = task[r].status, u.frame = task[r].frame,
           u.foreign => u.cancels > 0, u.raising => u.cancels > 0,
           UNCHANGED <<cache, provider, audit, inflight>>
    PROVE  /\ StreamOrder(r)' /\ Records(r)
           /\ \E t \in Tasks : task' = [task EXCEPT ![r] = t]
           /\ rotation' = rotation \/ EndSession(r)
<1>1. PICK t \in Tasks : /\ task' = [task EXCEPT ![r] = t]
                         /\ SameRun(u, t) /\ t.pc = "ended"
                         /\ t.raising = u.raising /\ t.foreign = u.foreign
                         /\ t.cancels = u.cancels /\ t.status = u.status
                         /\ t.frame = u.frame
  BY LeaveMoves
<1>2. task'[r] = t /\ SameRun(task[r], t)
  BY <1>1, MoveTask DEF SameRun
<1>r. (u.foreign => rotation' = rotation) /\ (~u.foreign => EndSession(r))
  BY LeaveMoves
<1>3. t.cancels = 0 => rotation'.sessions[r] = NoSession
  <2>1. t.cancels = 0 => ~u.foreign
    BY <1>1
  <2> QED BY <1>r, <2>1, SessionTypes
<1>4. StageOrder(r)'
  BY <1>1, <1>2, OrderKept DEF StreamOrder, Started, SameRun
<1>5. SentAsGuarded(r)'
  BY <1>1, <1>2 DEF StreamOrder, SentAsGuarded, SameRun
<1>6. Protocol(r)'
  BY <1>1, <1>2 DEF StreamOrder, Protocol, Early, InCleanup, SameRun
<1>7. CleanedUp(r)'
  BY <1>1, <1>2, <1>3 DEF StreamOrder, CleanedUp, SameRun
<1>8. Records(r)
  <2>1. (Sanitized(r)' <=> Sanitized(r)) /\ t.outcome = task[r].outcome
    BY <1>1, <1>2 DEF Sanitized, SameRun
  <2>2. SaidOf(t) = SaidOf(task[r])
    BY <1>1, <2>1 DEF SaidOf
  <2> QED BY <1>2, <2>1, <2>2 DEF Records
<1> QED BY <1>1, <1>r, <1>4, <1>5, <1>6, <1>7, <1>8 DEF StreamOrder

\* The closing frame was sent.
LEMMA GoodFinishStream ==
    ASSUME TypeOK, NEW r \in Requests, StreamOrder(r), FinishStream(r)
    PROVE  Good(r)
<1>1. /\ task[r] \in Tasks /\ task[r].pc = "closing" /\ LeaveGenerator(r, task[r])
      /\ UNCHANGED <<store, cache, provider, key, audit, inflight>>
  BY DEF FinishStream, services, TypeOK
<1>2. SameRun(task[r], task[r])
      /\ (task[r].foreign \/ task[r].raising => task[r].cancels > 0)
  BY DEF SameRun, StreamOrder, CleanedUp
<1>3. /\ StreamOrder(r)' /\ Records(r)
      /\ \E t \in Tasks : task' = [task EXCEPT ![r] = t]
      /\ rotation' = rotation \/ EndSession(r)
  BY <1>1, <1>2, OrderLeaveClosing
<1> QED BY <1>1, <1>3, ServesNothing DEF Good, Moves

\* The delete of cleanup() ended or was interrupted.
LEMMA OrderToAudit ==
    ASSUME TypeOK, NEW r \in Requests, StreamOrder(r), task[r].pc = "deleting",
           NEW t \in Tasks, task' = [task EXCEPT ![r] = t],
           t.pc = "auditing", SameRun(task[r], t), t.status = task[r].status,
           t.frame = task[r].frame, t.foreign \/ t.raising => t.cancels > 0,
           ~t.raising => cache'[r] # "present",
           cache'[r] = "absent" <=> cache[r] = "absent",
           UNCHANGED <<provider, audit, inflight>>
    PROVE  StreamOrder(r)' /\ Records(r)
<1>1. task'[r] = t
  BY MoveTask
<1>2. StageOrder(r)'
  BY <1>1, OrderKept DEF StreamOrder, Started, SameRun
<1>3. SentAsGuarded(r)'
  BY <1>1 DEF StreamOrder, SentAsGuarded, SameRun
<1>4. Protocol(r)'
  BY <1>1 DEF StreamOrder, Protocol, Early, InCleanup, SameRun
<1>5. CleanedUp(r)'
  BY <1>1 DEF StreamOrder, CleanedUp, SameRun
<1>6. (Sanitized(r)' <=> Sanitized(r)) /\ t.outcome = task[r].outcome
  BY <1>1 DEF Sanitized, SameRun
<1>7. SaidOf(t) = SaidOf(task[r])
  BY <1>6 DEF SaidOf
<1> QED BY <1>1, <1>2, <1>3, <1>4, <1>5, <1>6, <1>7 DEF StreamOrder, Records

\* What a delete may leave in the cache.
LEMMA DeleteFacts ==
    ASSUME TypeOK, NEW r \in Requests, Deleted(r) \/ DeleteFailed(r)
    PROVE  /\ cache'[r] # "present"
           /\ cache'[r] = "absent" <=> cache[r] = "absent"
           /\ \E v \in {"absent", "present", "kept", "deleted", "expired"} :
                 cache' = [cache EXCEPT ![r] = v]
BY DEF Deleted, DeleteFailed, Stored, TypeOK

\* cleanup() deletes the mapping.
LEMMA GoodDeleteMapping ==
    ASSUME TypeOK, NEW r \in Requests, StreamOrder(r), DeleteMapping(r)
    PROVE  Good(r)
<1>1. /\ task[r] \in Tasks /\ task[r].pc = "deleting"
      /\ task' = [task EXCEPT ![r].pc = "auditing"]
      /\ Deleted(r) \/ DeleteFailed(r)
      /\ UNCHANGED <<store, rotation, provider, key, audit, inflight>>
  BY DEF DeleteMapping, TypeOK
<1> DEFINE t == [task[r] EXCEPT !.pc = "auditing"]
<1>2. task' = [task EXCEPT ![r] = t]
  BY <1>1 DEF TypeOK
<1>3. t \in Tasks
  <2>1. "auditing" \in Active
    BY DEF Active, InCleanup
  <2> QED BY <1>1, <2>1, FieldTypes
<1>4. /\ SameRun(task[r], t) /\ t.pc = "auditing" /\ t.status = task[r].status
      /\ t.frame = task[r].frame /\ t.raising = task[r].raising
      /\ t.foreign = task[r].foreign /\ t.cancels = task[r].cancels
  BY <1>1 DEF Tasks, SameRun
<1> HIDE DEF t
<1>5. task[r].foreign \/ task[r].raising => task[r].cancels > 0
  BY DEF StreamOrder, CleanedUp
<1>6. StreamOrder(r)' /\ Records(r)
  BY <1>1, <1>2, <1>3, <1>4, <1>5, DeleteFacts, OrderToAudit
<1>7. Serves(r)
  BY <1>1, DeleteFacts, ServesNothing
<1> QED BY <1>1, <1>2, <1>3, <1>6, <1>7 DEF Good, Moves

\* The audit write of cleanup() is acknowledged.
LEMMA GoodAuditWritten ==
    ASSUME TypeOK, NEW r \in Requests, StreamOrder(r), AuditWritten(r)
    PROVE  Good(r)
<1>1. /\ task[r] \in Tasks /\ task[r].pc = "auditing"
      /\ IF "chain" \in Configured
         THEN audit' = [audit EXCEPT ![r] = StoreEvent(r)]
         ELSE UNCHANGED audit
      /\ UNCHANGED <<store, cache, provider, key, inflight>>
  BY DEF AuditWritten, TypeOK
<1>2. /\ audit'[r] \in {audit[r], task[r].terminal}
      /\ audit[r] # None => audit'[r] # None
      /\ "chain" \in Configured => audit'[r] # None
  BY <1>1, AuditFacts
<1>3. Serves(r)
  BY <1>1, AuditFacts DEF Serves, TypeOK
<1>4. CASE task[r].raising
  <2>1. CleanupCancelled(r, task[r])
    BY <1>4 DEF AuditWritten
  <2>2. SameRun(task[r], task[r]) /\ task[r].cancels > 0
    BY <1>4 DEF SameRun, StreamOrder, CleanedUp
  <2>3. /\ StreamOrder(r)' /\ Records(r)
        /\ \E t \in Tasks : task' = [task EXCEPT ![r] = t]
    BY <1>1, <1>2, <2>1, <2>2, OrderCleanupCancelled
  <2>4. rotation' = rotation \/ EndSession(r)
    BY <1>1, <2>1, CleanupCancelledMoves
  <2> QED BY <1>1, <1>3, <2>3, <2>4 DEF Good, Moves
<1>5. CASE ~task[r].raising
  <2>1. CleanupEnds(r, TRUE)
    BY <1>5 DEF AuditWritten
  <2>2. /\ StreamOrder(r)' /\ (Records(r) \/ Answers(r))
        /\ \E t \in Tasks : task' = [task EXCEPT ![r] = t]
    BY <1>1, <1>2, <1>5, <2>1, OrderCleanupEnds
  <2>3. rotation' = rotation \/ EndSession(r)
    BY <2>1 DEF CleanupEnds, LeaveGenerator
  <2> QED BY <1>1, <1>3, <2>2, <2>3 DEF Good, Moves
<1> QED BY <1>4, <1>5

\* An attempt of the audit write fails.
LEMMA GoodAuditFails ==
    ASSUME TypeOK, NEW r \in Requests, StreamOrder(r), AuditFails(r)
    PROVE  Good(r)
<1>1. /\ task[r] \in Tasks /\ task[r].pc = "auditing" /\ FailedWrite(r)
      /\ UNCHANGED <<store, cache, provider, key>>
  BY DEF AuditFails, TypeOK
<1>2. /\ audit'[r] \in {audit[r], task[r].terminal}
      /\ audit[r] # None => audit'[r] # None
  BY <1>1, AuditFacts
<1>3. Serves(r)
  BY <1>1, AuditFacts DEF Serves, TypeOK
<1>4. CASE RetryAudit(r)
  <2> DEFINE t == [task[r] EXCEPT !.attempt = task[r].attempt + 1]
  <2>1. task' = [task EXCEPT ![r].attempt = @ + 1] /\ UNCHANGED rotation
    BY <1>4 DEF AuditFails
  <2>2. task' = [task EXCEPT ![r] = t]
    BY <1>1, <2>1 DEF TypeOK
  <2>3. task[r].attempt + 1 \in 0..(AuditAttempts - 1)
    <3>1. task[r].attempt \in 0..(AuditAttempts - 1)
      BY <1>1 DEF Tasks
    <3> QED BY <1>4, <3>1, StreamAssumption DEF RetryAudit
  <2>4. t \in Tasks
    BY <1>1, <2>3 DEF Tasks
  <2>5. /\ SameRun(task[r], t) /\ t.pc = "auditing" /\ t.status = task[r].status
        /\ t.frame = task[r].frame /\ t.raising = task[r].raising
        /\ t.foreign = task[r].foreign /\ t.cancels = task[r].cancels
    BY <1>1 DEF Tasks, SameRun
  <2> HIDE DEF t
  <2>6. task'[r] = t
    BY <2>2, MoveTask
  <2>7. StageOrder(r)'
    BY <1>1, <2>5, <2>6, OrderKept DEF StreamOrder, Started, SameRun
  <2>8. SentAsGuarded(r)'
    BY <1>1, <2>5, <2>6 DEF StreamOrder, SentAsGuarded, SameRun
  <2>9. Protocol(r)'
    BY <1>1, <2>5, <2>6 DEF StreamOrder, Protocol, Early, InCleanup, SameRun
  <2>10. CleanedUp(r)'
    <3>1. task[r].path # None
      BY <1>1 DEF StreamOrder, Protocol, InCleanup
    <3> QED BY <1>1, <1>2, <2>1, <2>5, <2>6, <3>1 DEF StreamOrder, CleanedUp, SameRun
  <2>11. Records(r)
    <3>1. (Sanitized(r)' <=> Sanitized(r)) /\ t.outcome = task[r].outcome
      BY <1>1, <2>5, <2>6 DEF Sanitized, SameRun
    <3>2. SaidOf(t) = SaidOf(task[r])
      BY <2>5, <3>1 DEF SaidOf
    <3> QED BY <1>1, <1>2, <2>6, <3>1, <3>2 DEF Records
  <2> QED BY <1>1, <1>3, <2>1, <2>2, <2>4, <2>7, <2>8, <2>9, <2>10, <2>11
          DEF Good, Moves, StreamOrder
<1>5. CASE ~RetryAudit(r)
  <2>1. CleanupEnds(r, FALSE)
    BY <1>5 DEF AuditFails
  <2>2. /\ StreamOrder(r)' /\ (Records(r) \/ Answers(r))
        /\ \E t \in Tasks : task' = [task EXCEPT ![r] = t]
    BY <1>1, <1>2, <2>1, OrderCleanupEnds
  <2>3. rotation' = rotation \/ EndSession(r)
    BY <2>1 DEF CleanupEnds, LeaveGenerator
  <2> QED BY <1>1, <1>3, <2>2, <2>3 DEF Good, Moves
<1> QED BY <1>4, <1>5

\* A cancellation before the stream.
LEMMA GoodCancelEarly ==
    ASSUME TypeOK, NEW r \in Requests, StreamOrder(r), CancelEarly(r),
           task[r].cancels < MaxCancels, UNCHANGED <<store, provider, key>>
    PROVE  Good(r)
<1>1. /\ task[r] \in Tasks /\ task[r].pc \in Early
      /\ task' = [task EXCEPT ![r] = [Interrupted(@) EXCEPT !.pc = "ended",
                                                            !.status = Cancelled]]
      /\ cache' = cache \/ (task[r].pc = "storing" /\ cache' = [cache EXCEPT ![r] = "present"])
      /\ UNCHANGED <<rotation, audit, inflight>>
  BY DEF CancelEarly, TypeOK, Early
<1> DEFINE u == Interrupted(task[r])
           t == [u EXCEPT !.pc = "ended", !.status = Cancelled]
<1>2. u \in Tasks /\ SameRun(task[r], u) /\ u.cancels > 0
      /\ u.status = task[r].status /\ u.frame = task[r].frame
  BY <1>1, FieldTypes, InterruptedFacts
<1>3. task' = [task EXCEPT ![r] = t]
  BY <1>1 DEF TypeOK
<1> HIDE DEF u
<1>4. t \in Tasks
  <2>1. [u EXCEPT !.pc = "ended"] \in Tasks
    BY <1>2, FieldTypes
  <2>2. \A v \in Tasks : [v EXCEPT !.status = Cancelled] \in Tasks
    BY DEF Tasks
  <2> QED BY <2>1, <2>2
<1>5. /\ SameRun(u, t) /\ t.pc = "ended" /\ t.status = Cancelled
      /\ t.frame = u.frame /\ t.cancels = u.cancels
  BY <1>2 DEF Tasks, SameRun
<1> HIDE DEF t
<1>6. task'[r] = t /\ SameRun(task[r], t) /\ t.frame = task[r].frame
  BY <1>2, <1>3, <1>5, MoveTask DEF SameRun
<1>7. /\ task[r].path = None /\ task[r].status = Open
      /\ task[r].frame = None /\ task[r].outcome = None
      /\ provider[r] = "none" /\ audit[r] = None /\ ~inflight[r]
      /\ SaidOf(task[r]) = "open"
  BY <1>1, EarlyFacts
<1>8. StageOrder(r)'
  <2>1. cache[r] # "absent" => cache'[r] # "absent"
    BY <1>1 DEF TypeOK
  <2> QED BY <1>5, <1>6, <2>1, OrderKept DEF StreamOrder, Started, SameRun
<1>9. SentAsGuarded(r)' /\ Protocol(r)'
  BY <1>1, <1>5, <1>6, <1>7 DEF SentAsGuarded, Protocol, SameRun, Early, InCleanup, None
<1>10. CleanedUp(r)'
  BY <1>1, <1>2, <1>5, <1>6, <1>7 DEF CleanedUp, SameRun, None
<1>11. Prepares(r)
  <2>1. Sanitized(r) => Sanitized(r)'
    <3>1. CASE cache' = cache
      BY <1>6, <3>1 DEF Sanitized, SameRun
    <3>2. CASE task[r].pc = "storing"
      BY <3>2 DEF StreamOrder, StageOrder, Sanitized
    <3> QED BY <1>1, <3>1, <3>2
  <2>2. SaidOf(t) = "open"
    BY <1>5, <1>6, <1>7, SaidFacts DEF SameRun, None
  <2> QED BY <1>1, <1>6, <1>7, <2>1, <2>2 DEF Prepares
<1>12. Moves(r) /\ Serves(r)
  BY <1>1, <1>3, <1>4, ServesNothing DEF Moves
<1> QED BY <1>8, <1>9, <1>10, <1>11, <1>12 DEF Good, StreamOrder

\* The record of an interrupted task whose generator is closed from another
\* Context.
LEMMA ForeignFacts ==
    ASSUME NEW t \in Tasks, t.cancels < MaxCancels
    PROVE  LET u == [Interrupted(t) EXCEPT !.foreign = TRUE]
           IN  /\ u \in Tasks /\ SameRun(t, u) /\ u.cancels > 0 /\ u.foreign
               /\ u.raising = t.raising /\ u.status = t.status /\ u.frame = t.frame
<1> DEFINE v == Interrupted(t)
           u == [v EXCEPT !.foreign = TRUE]
<1>1. v \in Tasks /\ SameRun(t, v) /\ v.cancels > 0
      /\ v.raising = t.raising /\ v.status = t.status /\ v.frame = t.frame
  BY FieldTypes, InterruptedFacts
<1> HIDE DEF v
<1>2. u \in Tasks
  BY <1>1, FieldTypes
<1>3. /\ SameRun(v, u) /\ u.cancels = v.cancels /\ u.foreign
      /\ u.raising = v.raising /\ u.status = v.status /\ u.frame = v.frame
  BY <1>1 DEF Tasks, SameRun
<1>4. SameRun(t, u)
  BY <1>1, <1>3 DEF SameRun
<1> QED BY <1>1, <1>2, <1>3, <1>4 DEF v

\* A cancellation in the generator, or the generator dropped at a yield.
LEMMA GoodCancelGenerator ==
    ASSUME TypeOK, NEW r \in Requests, StreamOrder(r),
           CancelInGenerator(r) \/ Abandon(r),
           task[r].cancels < MaxCancels, UNCHANGED <<store, provider, key>>
    PROVE  Good(r)
<1>1. task[r] \in Tasks /\ UNCHANGED <<cache, audit, inflight>>
  BY DEF CancelInGenerator, Abandon, TypeOK
<1>2. Serves(r)
  BY <1>1, ServesNothing
<1>3. ASSUME NEW u \in Tasks, EnterCleanup(r, u, "finally"), UNCHANGED rotation,
             task[r].pc \in {"fetching", "streaming", "yielding"},
             SameRun(task[r], u), u.cancels > 0, u.status = task[r].status,
             u.frame = task[r].frame
      PROVE  Good(r)
  <2>1. task[r].frame = IF task[r].outcome = "error" THEN "error" ELSE None
    BY <1>3, GeneratorFacts
  <2>2. /\ StreamOrder(r)' /\ Records(r)
        /\ \E t \in Tasks : task' = [task EXCEPT ![r] = t]
    BY <1>1, <1>3, <2>1, OrderEnterCleanup DEF SameRun
  <2> QED BY <1>2, <1>3, <2>2 DEF Good, Moves
<1>4. CASE CancelInGenerator(r)
  <2> DEFINE u == Interrupted(task[r])
  <2>1. u \in Tasks /\ SameRun(task[r], u) /\ u.cancels > 0 /\ u.status = task[r].status
        /\ u.frame = task[r].frame
    BY <1>1, FieldTypes, InterruptedFacts
  <2>2. /\ EnterCleanup(r, u, "finally") /\ UNCHANGED rotation
        /\ task[r].pc \in {"fetching", "streaming", "yielding"}
    BY <1>4 DEF CancelInGenerator
  <2> HIDE DEF u
  <2> QED BY <1>3, <2>1, <2>2
<1>5. CASE Abandon(r)
  <2> DEFINE u == [Interrupted(task[r]) EXCEPT !.foreign = TRUE]
  <2>1. /\ u \in Tasks /\ SameRun(task[r], u) /\ u.cancels > 0 /\ u.foreign
        /\ u.raising = task[r].raising /\ u.status = task[r].status
        /\ u.frame = task[r].frame
    BY <1>1, ForeignFacts
  <2>2. \/ /\ EnterCleanup(r, u, "finally") /\ UNCHANGED rotation
           /\ task[r].pc \in {"fetching", "streaming", "yielding"}
        \/ task[r].pc = "closing" /\ LeaveGenerator(r, u)
    BY <1>5 DEF Abandon
  <2> HIDE DEF u
  <2>3. CASE task[r].pc = "closing" /\ LeaveGenerator(r, u)
    <3>1. /\ StreamOrder(r)' /\ Records(r)
          /\ \E t \in Tasks : task' = [task EXCEPT ![r] = t]
          /\ rotation' = rotation \/ EndSession(r)
      BY <1>1, <2>1, <2>3, OrderLeaveClosing
    <3> QED BY <1>2, <3>1 DEF Good, Moves
  <2> QED BY <1>3, <2>1, <2>2, <2>3
<1> QED BY <1>4, <1>5

\* A cancellation in cleanup().
LEMMA GoodCancelCleanup ==
    ASSUME TypeOK, NEW r \in Requests, StreamOrder(r),
           CancelDelete(r) \/ CancelAudit(r),
           task[r].cancels < MaxCancels, UNCHANGED <<store, provider, key>>
    PROVE  Good(r)
<1> DEFINE u == Interrupted(task[r])
<1>1. task[r] \in Tasks
  BY DEF TypeOK
<1>2. /\ u \in Tasks /\ SameRun(task[r], u) /\ u.cancels > 0
      /\ u.raising = task[r].raising /\ u.foreign = task[r].foreign
      /\ u.status = task[r].status /\ u.frame = task[r].frame
  BY <1>1, FieldTypes, InterruptedFacts
<1>3. CASE CancelDelete(r)
  <2> DEFINE t == [u EXCEPT !.pc = "auditing", !.raising = TRUE]
  <2>1. /\ task[r].pc = "deleting" /\ task' = [task EXCEPT ![r] = t]
        /\ Deleted(r) \/ UNCHANGED cache
        /\ UNCHANGED <<rotation, audit, inflight>>
    BY <1>1, <1>3 DEF CancelDelete, TypeOK
  <2> HIDE DEF u
  <2>2. t \in Tasks
    BY <1>2, FieldTypes
  <2>3. /\ SameRun(u, t) /\ t.pc = "auditing" /\ t.raising /\ t.cancels = u.cancels
        /\ t.status = u.status /\ t.frame = u.frame
    BY <1>2 DEF Tasks, SameRun
  <2> HIDE DEF t
  <2>4. SameRun(task[r], t) /\ t.status = task[r].status /\ t.frame = task[r].frame
    BY <1>2, <2>3 DEF SameRun
  <2>5. cache'[r] = "absent" <=> cache[r] = "absent"
    BY <2>1, DeleteFacts
  <2>6. StreamOrder(r)' /\ Records(r)
    BY <1>2, <2>1, <2>2, <2>3, <2>4, <2>5, OrderToAudit
  <2>7. Serves(r)
    BY <2>1, DeleteFacts, ServesNothing
  <2> QED BY <2>1, <2>2, <2>6, <2>7 DEF Good, Moves
<1>4. CASE CancelAudit(r)
  <2>1. /\ task[r].pc = "auditing" /\ FailedWrite(r) /\ CleanupCancelled(r, u)
        /\ UNCHANGED cache
    BY <1>4 DEF CancelAudit
  <2> HIDE DEF u
  <2>2. /\ audit'[r] \in {audit[r], task[r].terminal}
        /\ audit[r] # None => audit'[r] # None
    BY <2>1, AuditFacts
  <2>3. Serves(r)
    BY <2>1, AuditFacts DEF Serves, TypeOK
  <2>4. /\ StreamOrder(r)' /\ Records(r)
        /\ \E t \in Tasks : task' = [task EXCEPT ![r] = t]
    BY <1>2, <2>1, <2>2, OrderCleanupCancelled
  <2>5. rotation' = rotation \/ EndSession(r)
    BY <1>2, <2>1, CleanupCancelledMoves
  <2> QED BY <2>3, <2>4, <2>5 DEF Good, Moves
<1> QED BY <1>3, <1>4

\* The mapping expires, or a timed-out audit write commits.
LEMMA GoodServices ==
    ASSUME TypeOK, NEW r \in Requests, StreamOrder(r), Expire(r) \/ LateCommit(r)
    PROVE  Good(r)
<1>1. /\ UNCHANGED <<task, store, rotation, provider, key>>
  BY DEF Expire, LateCommit
<1>2. CASE Expire(r)
  <2>1. /\ cache'[r] = "expired" /\ cache[r] # "absent"
        /\ cache' = [cache EXCEPT ![r] = "expired"] /\ UNCHANGED <<audit, inflight>>
    BY <1>2 DEF Expire, Stored, TypeOK
  <2>2. Sanitized(r)' <=> Sanitized(r)
    BY <1>1, <2>1 DEF Sanitized
  <2>3. StageOrder(r)'
    BY <1>1, <2>2 DEF StreamOrder, StageOrder
  <2>4. SentAsGuarded(r)' /\ Protocol(r)'
    BY <1>1 DEF StreamOrder, SentAsGuarded, Protocol
  <2>5. CleanedUp(r)'
    BY <1>1, <2>1 DEF StreamOrder, CleanedUp
  <2>6. Serves(r)
    BY <1>1, <2>1, ServesNothing
  <2>7. Records(r)
    BY <1>1, <2>1, <2>2 DEF Records
  <2> QED BY <1>1, <2>3, <2>4, <2>5, <2>6, <2>7 DEF Good, Moves, StreamOrder
<1>3. CASE LateCommit(r)
  <2>1. /\ inflight[r] /\ audit' = [audit EXCEPT ![r] = StoreEvent(r)]
        /\ inflight' = [inflight EXCEPT ![r] = FALSE] /\ UNCHANGED cache
    BY <1>3 DEF LateCommit
  <2>2. /\ audit'[r] \in {audit[r], task[r].terminal} /\ audit'[r] # None
        /\ task[r].path # None
    BY <2>1, AuditFacts DEF StreamOrder, CleanedUp
  <2>3. Sanitized(r)' <=> Sanitized(r)
    BY <1>1, <2>1 DEF Sanitized
  <2>4. StageOrder(r)'
    BY <1>1, <2>3 DEF StreamOrder, StageOrder
  <2>5. SentAsGuarded(r)' /\ Protocol(r)'
    BY <1>1 DEF StreamOrder, SentAsGuarded, Protocol
  <2>6. CleanedUp(r)'
    BY <1>1, <2>1, <2>2 DEF StreamOrder, CleanedUp
  <2>7. Serves(r)
    BY <1>1, <2>1, AuditFacts DEF Serves, TypeOK
  <2>8. Records(r)
    BY <1>1, <2>2, <2>3 DEF Records
  <2> QED BY <1>1, <2>4, <2>5, <2>6, <2>7, <2>8 DEF Good, Moves, StreamOrder
<1> QED BY <1>2, <1>3

-----------------------------------------------------------------------------
(***************************************************************************)
(* The theorems.                                                           *)
(***************************************************************************)

\* The steps of one request.
Step(r) ==
    \/ Receive(r) \/ NotReady(r) \/ RunStage(r) \/ StoreMapping(r)
    \/ StartStream(r) \/ FetchMapping(r) \/ StreamEvent(r) \/ CloseStream(r)
    \/ CleanupStep(r) \/ Cancel(r) \/ Expire(r) \/ LateCommit(r)

\* Every step of a request keeps its part of the invariant.
LEMMA GoodStep ==
    ASSUME StreamInv, NEW r \in Requests, Step(r)
    PROVE  Good(r)
<1>1. TypeOK /\ StreamOrder(r)
  BY DEF StreamInv
<1>2. CASE Cancel(r)
  BY <1>1, <1>2, GoodCancelEarly, GoodCancelGenerator, GoodCancelCleanup DEF Cancel
<1> QED
  BY <1>1, <1>2, GoodReceive, GoodNotReady, GoodRunStage, GoodStoreMapping, GoodStartStream,
     GoodFetchMapping, GoodStreamEvent, GoodCloseStream, GoodFinishStream,
     GoodDeleteMapping, GoodAuditWritten, GoodAuditFails, GoodServices DEF Step, CleanupStep

\* A crash ends the active tasks where they are.
LEMMA CrashInv ==
    ASSUME StreamInv, Crash
    PROVE  StreamInv' /\ \A r \in Requests : SaidOf(task'[r]) = SaidOf(task[r])
                                             /\ task'[r].ctx = task[r].ctx
<1>1. /\ TypeOK /\ UNCHANGED <<store, rotation, cache, provider, key, audit, inflight>>
      /\ task' = [r \in Requests |->
            IF task[r].pc \in Active THEN [task[r] EXCEPT !.pc = "crashed"] ELSE task[r]]
  BY DEF StreamInv, Crash, services
<1>2. ASSUME NEW r \in Requests
      PROVE  /\ task'[r] \in Tasks /\ StreamOrder(r)'
             /\ SaidOf(task'[r]) = SaidOf(task[r]) /\ task'[r].ctx = task[r].ctx
  <2>1. task[r] \in Tasks /\ StreamOrder(r)
    BY <1>1 DEF StreamInv, TypeOK
  <2>2. CASE task[r].pc \notin Active
    <3>1. task'[r] = task[r]
      BY <1>1, <2>2
    <3>2. Same(r)
      BY <1>1, <3>1 DEF Same
    <3> QED BY <2>1, <3>1, <3>2, OrderLocal
  <2>3. CASE task[r].pc \in Active
    <3> DEFINE t == [task[r] EXCEPT !.pc = "crashed"]
    <3>1. task'[r] = t
      BY <1>1, <2>3
    <3>2. t \in Tasks
      BY <2>1, FieldTypes
    <3>3. /\ SameRun(task[r], t) /\ t.pc = "crashed" /\ t.status = task[r].status
          /\ t.frame = task[r].frame /\ t.raising = task[r].raising
          /\ t.foreign = task[r].foreign /\ t.cancels = task[r].cancels
      BY <2>1 DEF Tasks, SameRun
    <3> HIDE DEF t
    <3>4. StageOrder(r)'
      BY <1>1, <2>1, <3>1, <3>3, OrderKept DEF StreamOrder, Started, SameRun
    <3>5. SentAsGuarded(r)'
      BY <1>1, <2>1, <3>1, <3>3 DEF StreamOrder, SentAsGuarded, SameRun
    <3>6. Protocol(r)'
      BY <1>1, <2>1, <2>3, <3>1, <3>3
         DEF StreamOrder, Protocol, Active, Early, Started, InCleanup, SameRun
    <3>7. CleanedUp(r)'
      BY <1>1, <2>1, <3>1, <3>3 DEF StreamOrder, CleanedUp, SameRun
    <3>8. SaidOf(t) = SaidOf(task[r])
      BY <3>3 DEF SaidOf, SameRun
    <3> QED BY <3>1, <3>2, <3>3, <3>4, <3>5, <3>6, <3>7, <3>8 DEF StreamOrder, SameRun
  <2> QED BY <2>2, <2>3
<1>3. task' \in [Requests -> Tasks]
  BY <1>1, <1>2
<1>4. TypeOK'
  BY <1>1, <1>3 DEF TypeOK
<1> QED BY <1>2, <1>4 DEF StreamInv

\* The reload of the secrets touches no request.
LEMMA ReloadInv ==
    ASSUME StreamInv, ReplaceStore \/ Rotate
    PROVE  StreamInv'
<1>1. TypeOK /\ UNCHANGED <<task, cache, provider, key, audit, inflight>>
  BY DEF StreamInv, ReplaceStore, Rotate, services
<1>2. /\ store' \in 0..MaxVersion
      /\ rotation' \in [current : 0..MaxVersion, previous : 0..NoSession,
                        sessions : [Requests -> 0..NoSession]]
      /\ rotation'.sessions = rotation.sessions
  <2>1. 0..MaxVersion \subseteq 0..NoSession
    BY StreamAssumption DEF NoSession
  <2>2. CASE ReplaceStore
    BY <1>1, <2>2, StreamAssumption DEF ReplaceStore, TypeOK
  <2>3. CASE Rotate
    BY <1>1, <2>1, <2>3 DEF Rotate, TypeOK
  <2> QED BY <2>2, <2>3
<1>3. TypeOK'
  BY <1>1, <1>2 DEF TypeOK
<1>4. \A q \in Requests : Same(q)
  BY <1>1, <1>2 DEF Same
<1> QED BY <1>3, <1>4, OrderLocal DEF StreamInv

\* The invariant holds initially.
LEMMA InitStreamInv ==
    ASSUME Init
    PROVE  StreamInv
<1>1. NewContext(FALSE) \in Contexts
  <2>1. <<>> \in Seq(Errors)
    BY EmptySeq
  <2> QED BY <2>1 DEF NewContext, Contexts, Actions, Detections, Mappings, Replies, Bodies
<1>2. NewTask \in Tasks
  <2>1. /\ 1 \in 1..Len(StreamStages) /\ 0 \in 0..(AuditAttempts - 1)
        /\ 0 \in 0..MaxCancels /\ 0 \in 0..MaxVersion
    BY StreamAssumption, OutcomesAt
  <2> QED BY <1>1, <2>1 DEF NewTask, Tasks
<1>3. TypeOK
  <2>1. 0 \in 0..MaxVersion /\ NoSession \in 0..NoSession
    BY StreamAssumption DEF NoSession
  <2> QED BY <1>2, <2>1 DEF Init, TypeOK, Bodies, None
<1>4. ASSUME NEW r \in Requests PROVE StreamOrder(r)
  <2>1. /\ task[r] = NewTask /\ provider[r] = "none" /\ audit[r] = None /\ ~inflight[r]
    BY DEF Init, None
  <2>2. StageOrder(r)
    BY <2>1 DEF StageOrder, NewTask, NewContext, Started
  <2>3. SentAsGuarded(r)
    BY <2>1 DEF SentAsGuarded, NewTask, None
  <2>4. Protocol(r)
    BY <2>1 DEF Protocol, NewTask, None, Early, InCleanup
  <2>5. CleanedUp(r)
    BY <2>1 DEF CleanedUp, NewTask, None
  <2> QED BY <2>2, <2>3, <2>4, <2>5 DEF StreamOrder
<1> QED BY <1>3, <1>4 DEF StreamInv

\* StreamInv is inductive, whatever the requests, the faults, the number of
\* cancellations and of rotations.
THEOREM StreamInvariant == Spec => []StreamInv
<1>1. Init => StreamInv
  BY InitStreamInv
<1>2. StreamInv /\ [Next]_vars => StreamInv'
  <2>1. SUFFICES ASSUME StreamInv, [Next]_vars PROVE StreamInv'
    OBVIOUS
  <2>2. ASSUME NEW r \in Requests, Step(r) PROVE StreamInv'
    <3>1. Good(r) /\ TypeOK
      BY <2>1, <2>2, GoodStep DEF StreamInv
    <3>2. TypeOK' /\ \A q \in Requests : q # r => Same(q)
      BY <3>1, StepTypes DEF Good
    <3>3. \A q \in Requests : StreamOrder(q)'
      BY <2>1, <3>1, <3>2, OrderLocal DEF StreamInv, Good
    <3> QED BY <3>2, <3>3 DEF StreamInv
  <2>3. CASE UNCHANGED vars
    <3>1. UNCHANGED <<task, store, rotation, cache, provider, key, audit, inflight>>
      BY <2>3 DEF vars, services
    <3>2. TypeOK'
      BY <2>1, <3>1 DEF StreamInv, TypeOK
    <3>3. \A q \in Requests : Same(q)
      BY <3>1 DEF Same
    <3> QED BY <2>1, <3>2, <3>3, OrderLocal DEF StreamInv
  <2> QED BY <2>1, <2>2, <2>3, CrashInv, ReloadInv DEF Next, Step, Done
<1> QED BY <1>1, <1>2, PTL DEF Spec

\* The tasks, the secret buffer and the services keep their types.
THEOREM StreamTypeCorrect == Spec => []TypeOK
<1>1. StreamInv => TypeOK
  BY DEF StreamInv
<1> QED BY <1>1, StreamInvariant, PTL

\* What a streaming client may conclude from what it saw: masked text only
\* left the gateway, [DONE] means audited, an error status means not sent.
THEOREM StreamRepliesAreSafe == Spec => []StreamRepliesSafe
<1>1. StreamInv => StreamRepliesSafe
  <2>1. SUFFICES ASSUME StreamInv PROVE StreamRepliesSafe
    OBVIOUS
  <2>2. ASSUME NEW r \in Requests, provider[r] # "none"
        PROVE  /\ task[r].ctx.action = "ANONYMIZE" /\ ~HasErrors(task[r].ctx)
               /\ provider[r] = "copy" => task[r].ctx.detections = "empty"
               /\ task[r].ctx.detections = "reversible" => cache[r] # "absent"
    <3>1. /\ task[r].stage = 9 /\ ~HasErrors(task[r].ctx)
          /\ provider[r] = task[r].ctx.transformed
      BY <2>1, <2>2 DEF StreamInv, StreamOrder, SentAsGuarded
    <3>2. /\ Sanitized(r)
          /\ task[r].ctx.transformed = "copy" => task[r].ctx.detections = "empty"
      BY <2>1, <2>2, <3>1 DEF StreamInv, StreamOrder, StageOrder
    <3> QED BY <3>1, <3>2 DEF Sanitized
  <2>3. StreamsNoCleartext
    BY <2>2 DEF StreamsNoCleartext
  <2>4. DoneMeansAudited
    BY <2>1 DEF DoneMeansAudited, StreamInv, StreamOrder, CleanedUp
  <2>5. ASSUME NEW r \in Requests, task[r].status \notin {Open, Cancelled, 200}
        PROVE  provider[r] = "none" /\ audit[r] \in {None, "REJECTED"}
    <3>1. task[r].path \in {None, "early"} /\ (task[r].path = "early" => task[r].terminal = "REJECTED")
      BY <2>1, <2>5 DEF StreamInv, StreamOrder, Protocol
    <3>2. provider[r] = "none"
      BY <2>1, <2>5 DEF StreamInv, StreamOrder, SentAsGuarded
    <3>3. audit[r] \in {None, "REJECTED"}
      BY <2>1, <3>1 DEF StreamInv, StreamOrder, CleanedUp
    <3> QED BY <3>2, <3>3
  <2>6. RejectedNeverForwarded
    BY <2>5 DEF RejectedNeverForwarded
  <2> QED BY <2>3, <2>4, <2>6 DEF StreamRepliesSafe
<1> QED BY <1>1, StreamInvariant, PTL

\* An ended stream has given back its mapping and its session.
THEOREM StreamsRelease == Spec => []StreamReleases
<1>1. StreamInv => StreamReleases
  BY DEF StreamInv, StreamOrder, CleanedUp, StreamReleases, StreamLeavesNoMapping,
         UncancelledStreamReleasesSession
<1> QED BY <1>1, StreamInvariant, PTL

\* What a step of a request may do to the secret buffer.
LEMMA SessionStep ==
    ASSUME TypeOK, RotationInv, NEW r \in Requests, Moves(r)
    PROVE  RotationInv'
<1>1. /\ MaxVersion \in Nat /\ NoSession = MaxVersion + 1
      /\ rotation.current \in 0..MaxVersion
      /\ rotation.sessions \in [Requests -> 0..NoSession]
      /\ rotation \in [current : 0..MaxVersion, previous : 0..NoSession,
                       sessions : [Requests -> 0..NoSession]]
  BY StreamAssumption DEF TypeOK, NoSession
<1>2. CASE rotation' = rotation
  BY <1>2 DEF Moves, RotationInv, ReplacedSecretsKeptForOpenSessions
<1>3. CASE BeginSession(r)
  <2>1. /\ rotation'.current = rotation.current /\ rotation'.previous = rotation.previous
        /\ rotation'.sessions[r] = rotation.current
        /\ \A q \in Requests : q # r => rotation'.sessions[q] = rotation.sessions[q]
    BY <1>1, <1>3 DEF BeginSession
  <2>2. rotation.current + 1 # rotation.current
    BY <1>1
  <2> QED BY <2>1, <2>2 DEF Moves, RotationInv, ReplacedSecretsKeptForOpenSessions
<1>4. CASE EndSession(r)
  <2> DEFINE s == [rotation.sessions EXCEPT ![r] = NoSession]
  <2>1. /\ rotation'.current = rotation.current /\ rotation'.sessions = s
        /\ rotation'.previous = IF \A q \in Requests : s[q] = NoSession
                                THEN NoSession ELSE rotation.previous
    BY <1>1, <1>4 DEF EndSession
  <2>2. /\ s[r] = NoSession
        /\ \A q \in Requests : q # r => s[q] = rotation.sessions[q]
    BY <1>1
  <2> HIDE DEF s
  <2>3. NoSession + 1 # rotation.current
    BY <1>1
  <2>4. ASSUME NEW q \in Requests, rotation'.sessions[q] + 1 = rotation'.current
        PROVE  rotation'.previous = rotation'.sessions[q]
    <3>1. q # r /\ s[q] = rotation.sessions[q] /\ s[q] + 1 = rotation.current
      BY <2>1, <2>2, <2>3, <2>4
    <3>2. s[q] # NoSession
      BY <2>3, <3>1
    <3>3. rotation'.previous = rotation.previous
      BY <2>1, <3>2
    <3>4. rotation.previous = rotation.sessions[q]
      BY <3>1 DEF RotationInv, ReplacedSecretsKeptForOpenSessions
    <3> QED BY <2>1, <3>1, <3>3, <3>4
  <2> QED BY <2>1, <2>4 DEF Moves, RotationInv, ReplacedSecretsKeptForOpenSessions
<1> QED BY <1>2, <1>3, <1>4 DEF Moves

\* The buffer keeps the secrets that the last rotation replaced as long as a
\* session is open on them.
THEOREM ReplacedSecretsKept == Spec => []ReplacedSecretsKeptForOpenSessions
<1>1. Init => RotationInv
  <2>1. NoSession + 1 # 0
    BY StreamAssumption DEF NoSession
  <2> QED BY <2>1 DEF Init, RotationInv, ReplacedSecretsKeptForOpenSessions
<1>2. StreamInv /\ RotationInv /\ [Next]_vars => RotationInv'
  <2>1. SUFFICES ASSUME StreamInv, RotationInv, [Next]_vars PROVE RotationInv'
    OBVIOUS
  <2>2. ASSUME NEW r \in Requests, Step(r) PROVE RotationInv'
    BY <2>1, <2>2, GoodStep, SessionStep DEF Good, StreamInv
  <2>3. CASE ReplaceStore
    BY <2>1, <2>3 DEF ReplaceStore, RotationInv, ReplacedSecretsKeptForOpenSessions
  <2>4. CASE Rotate
    <3>1. /\ rotation.current \in Int /\ store = rotation.current + 1
          /\ rotation.sessions \in [Requests -> 0..NoSession]
          /\ rotation \in [current : 0..MaxVersion, previous : 0..NoSession,
                           sessions : [Requests -> 0..NoSession]]
      BY <2>1, <2>4 DEF Rotate, RotationInv, StreamInv, TypeOK
    <3>2. /\ rotation'.current = store /\ rotation'.previous = rotation.current
          /\ rotation'.sessions = rotation.sessions /\ store' = store
      BY <2>4, <3>1 DEF Rotate
    <3>3. ASSUME NEW q \in Requests, rotation.sessions[q] + 1 = store
          PROVE  rotation.current = rotation.sessions[q]
      <4>1. rotation.sessions[q] \in Int
        BY <3>1
      <4> QED BY <3>1, <3>3, <4>1
    <3> QED BY <3>2, <3>3 DEF RotationInv, ReplacedSecretsKeptForOpenSessions
  <2>5. CASE Crash \/ UNCHANGED vars
    BY <2>1, <2>5 DEF Crash, vars, RotationInv, ReplacedSecretsKeptForOpenSessions
  <2> QED BY <2>1, <2>2, <2>3, <2>4, <2>5 DEF Next, Step, Done
<1>3. RotationInv => ReplacedSecretsKeptForOpenSessions
  BY DEF RotationInv
<1> QED BY <1>1, <1>2, <1>3, StreamInvariant, PTL DEF Spec

-----------------------------------------------------------------------------
(***************************************************************************)
(* The streaming handler implements the abstract gateway.                  *)
(***************************************************************************)

\* The values of the refinement mapping.
Mapped == {q \in Requests : Sanitized(q)}
Forwarded == {q \in Requests : provider[q] # "none"}
Audited == {q \in Requests : audit[q] # None}
Answered == [q \in Requests |-> SaidOf(task[q])]

\* A step that leaves all requests but r alone changes the mapped state at r
\* only.
LEMMA MappedAt ==
    ASSUME NEW r \in Requests, \A q \in Requests : q # r => Same(q)
    PROVE  /\ Mapped' = IF Sanitized(r)' THEN Mapped \cup {r} ELSE Mapped \ {r}
           /\ Forwarded' = IF provider'[r] # "none" THEN Forwarded \cup {r} ELSE Forwarded \ {r}
           /\ Audited' = IF audit'[r] # None THEN Audited \cup {r} ELSE Audited \ {r}
           /\ Answered' = [Answered EXCEPT ![r] = SaidOf(task'[r])]
<1>1. \A q \in Requests : q # r => /\ Sanitized(q)' <=> Sanitized(q)
                                   /\ provider'[q] = provider[q]
                                   /\ audit'[q] = audit[q]
                                   /\ task'[q] = task[q]
  BY DEF Same, Sanitized
<1>2. Mapped' = IF Sanitized(r)' THEN Mapped \cup {r} ELSE Mapped \ {r}
  BY <1>1 DEF Mapped
<1>3. Forwarded' = IF provider'[r] # "none" THEN Forwarded \cup {r} ELSE Forwarded \ {r}
  BY <1>1 DEF Forwarded
<1>4. Audited' = IF audit'[r] # None THEN Audited \cup {r} ELSE Audited \ {r}
  BY <1>1 DEF Audited
<1>5. Answered' = [Answered EXCEPT ![r] = SaidOf(task'[r])]
  <2>1. Answered' = [q \in Requests |-> SaidOf(task'[q])]
    BY DEF Answered, SaidOf
  <2> QED BY <1>1, <2>1 DEF Answered
<1> QED BY <1>2, <1>3, <1>4, <1>5

\* The mapping substitutes these values.
LEMMA GatewayMapping ==
    /\ Gateway!gatewayVars = <<Mapped, Forwarded, Audited, Answered>>
    /\ \A r \in Requests :
          /\ Gateway!Sanitize(r) <=>
                /\ Answered[r] = "open"
                /\ Mapped' = Mapped \cup {r}
                /\ Forwarded' = Forwarded /\ Audited' = Audited /\ Answered' = Answered
          /\ Gateway!Forward(r) <=>
                /\ Answered[r] = "open"
                /\ r \in Mapped \ Forwarded
                /\ Forwarded' = Forwarded \cup {r}
                /\ Mapped' = Mapped /\ Audited' = Audited /\ Answered' = Answered
          /\ Gateway!Audit(r) <=>
                /\ Audited' = Audited \cup {r}
                /\ Mapped' = Mapped /\ Forwarded' = Forwarded /\ Answered' = Answered
          /\ Gateway!Complete(r) <=>
                /\ Answered[r] = "open"
                /\ r \in Forwarded
                /\ Audited' \in {Audited, Audited \cup {r}}
                /\ "chain" \in Configured => r \in Audited'
                /\ Answered' = [Answered EXCEPT ![r] = "complete"]
                /\ Mapped' = Mapped /\ Forwarded' = Forwarded
          /\ Gateway!Reject(r) <=>
                /\ Answered[r] = "open"
                /\ Audited' \in {Audited, Audited \cup {r}}
                /\ Answered' = [Answered EXCEPT ![r] = "rejected"]
                /\ Mapped' = Mapped /\ Forwarded' = Forwarded
BY DEF Gateway!gatewayVars, Gateway!Sanitize, Gateway!Forward, Gateway!Audit,
       Gateway!Complete, Gateway!Reject, Mapped, Forwarded, Audited, Answered, SaidOf

\* Every step of the streaming handler is a step of the gateway or leaves the
\* mapped state alone.
LEMMA GatewayStep ==
    ASSUME StreamInv, [Next]_vars
    PROVE  [Gateway!GNext]_(Gateway!gatewayVars)
<1>s. SUFFICES \/ \E r \in Requests : \/ Gateway!Sanitize(r) \/ Gateway!Forward(r)
                                      \/ Gateway!Audit(r) \/ Gateway!Complete(r)
                                      \/ Gateway!Reject(r)
               \/ /\ Mapped' = Mapped /\ Forwarded' = Forwarded
                  /\ Audited' = Audited /\ Answered' = Answered
  BY GatewayMapping DEF Gateway!GNext, Gateway!gatewayVars, Mapped, Forwarded, Audited,
                        Answered, SaidOf
<1>1. ASSUME NEW r \in Requests, Step(r)
      PROVE  \/ \/ Gateway!Sanitize(r) \/ Gateway!Forward(r) \/ Gateway!Audit(r)
                \/ Gateway!Complete(r) \/ Gateway!Reject(r)
             \/ /\ Mapped' = Mapped /\ Forwarded' = Forwarded
                /\ Audited' = Audited /\ Answered' = Answered
  <2>g. Good(r) /\ \A q \in Requests : q # r => Same(q)
    BY <1>1, GoodStep, StepTypes DEF Good, StreamInv
  <2>1. /\ Mapped' = IF Sanitized(r)' THEN Mapped \cup {r} ELSE Mapped \ {r}
        /\ Forwarded' = IF provider'[r] # "none" THEN Forwarded \cup {r} ELSE Forwarded \ {r}
        /\ Audited' = IF audit'[r] # None THEN Audited \cup {r} ELSE Audited \ {r}
        /\ Answered' = [Answered EXCEPT ![r] = SaidOf(task'[r])]
    BY <2>g, MappedAt
  <2>2. /\ r \in Mapped <=> Sanitized(r)
        /\ r \in Forwarded <=> provider[r] # "none"
        /\ r \in Audited <=> audit[r] # None
        /\ Answered[r] = SaidOf(task[r])
        /\ Answered = [Answered EXCEPT ![r] = SaidOf(task[r])]
    BY DEF Mapped, Forwarded, Audited, Answered
  <2>m. /\ Sanitized(r) /\ Sanitized(r)' => Mapped' = Mapped
        /\ ~Sanitized(r) /\ ~Sanitized(r)' => Mapped' = Mapped
        /\ Sanitized(r)' => Mapped' = Mapped \cup {r}
    BY <2>1, <2>2
  <2>p. /\ provider'[r] = provider[r] => Forwarded' = Forwarded
        /\ provider'[r] # "none" => Forwarded' = Forwarded \cup {r}
    BY <2>1, <2>2
  <2>a. /\ audit'[r] = audit[r] => Audited' = Audited
        /\ (audit[r] # None => audit'[r] # None) => Audited' \in {Audited, Audited \cup {r}}
        /\ audit'[r] # None => r \in Audited'
    BY <2>1, <2>2
  <2>r. SaidOf(task'[r]) = SaidOf(task[r]) => Answered' = Answered
    BY <2>1, <2>2
  <2>3. CASE Prepares(r)
    <3>1. Forwarded' = Forwarded /\ Audited' = Audited /\ Answered' = Answered
      BY <2>3, <2>p, <2>a, <2>r DEF Prepares
    <3>2. CASE ~Sanitized(r) /\ Sanitized(r)'
      <4>1. Mapped' = Mapped \cup {r} /\ Answered[r] = "open"
        BY <2>2, <2>3, <2>m, <3>2 DEF Prepares
      <4>2. Gateway!Sanitize(r)
        BY <3>1, <4>1, GatewayMapping
      <4> QED BY <4>2
    <3>3. CASE ~(~Sanitized(r) /\ Sanitized(r)')
      <4>1. Mapped' = Mapped
        BY <2>3, <2>m, <3>3 DEF Prepares
      <4> QED BY <3>1, <4>1
    <3> QED BY <3>2, <3>3
  <2>4. CASE Sends(r)
    <3>1. /\ Mapped' = Mapped /\ Audited' = Audited /\ Answered' = Answered
          /\ Forwarded' = Forwarded \cup {r}
      BY <2>4, <2>m, <2>p, <2>a, <2>r DEF Sends
    <3>2. Answered[r] = "open" /\ r \in Mapped \ Forwarded
      BY <2>2, <2>4 DEF Sends
    <3>3. Gateway!Forward(r)
      BY <3>1, <3>2, GatewayMapping
    <3> QED BY <3>3
  <2>5. CASE Records(r)
    <3>1. Mapped' = Mapped /\ Forwarded' = Forwarded /\ Answered' = Answered
      BY <2>5, <2>m, <2>p, <2>r DEF Records
    <3>2. Audited' \in {Audited, Audited \cup {r}}
      BY <2>5, <2>a DEF Records
    <3>3. CASE Audited' = Audited
      BY <3>1, <3>3
    <3>4. CASE Audited' = Audited \cup {r}
      <4>1. Gateway!Audit(r)
        BY <3>1, <3>4, GatewayMapping
      <4> QED BY <4>1
    <3> QED BY <3>2, <3>3, <3>4
  <2>6. CASE Answers(r)
    <3>1. Mapped' = Mapped /\ Forwarded' = Forwarded
      BY <2>6, <2>m, <2>p DEF Answers
    <3>2. Answered[r] = "open" /\ Audited' \in {Audited, Audited \cup {r}}
      BY <2>2, <2>6, <2>a DEF Answers
    <3>3. CASE SaidOf(task'[r]) = "complete"
      <4>1. r \in Forwarded /\ ("chain" \in Configured => r \in Audited')
        BY <2>2, <2>6, <2>a, <3>3 DEF Answers
      <4>2. Answered' = [Answered EXCEPT ![r] = "complete"]
        BY <2>1, <3>3
      <4>3. Gateway!Complete(r)
        BY <3>1, <3>2, <4>1, <4>2, GatewayMapping
      <4> QED BY <4>3
    <3>4. CASE SaidOf(task'[r]) = "rejected"
      <4>1. Answered' = [Answered EXCEPT ![r] = "rejected"]
        BY <2>1, <3>4
      <4>2. Gateway!Reject(r)
        BY <3>1, <3>2, <4>1, GatewayMapping
      <4> QED BY <4>2
    <3> QED BY <2>6, <3>3, <3>4 DEF Answers
  <2> QED BY <2>g, <2>3, <2>4, <2>5, <2>6 DEF Good
<1>2. ASSUME UNCHANGED <<cache, provider, audit>>,
             \A q \in Requests : SaidOf(task'[q]) = SaidOf(task[q])
                                 /\ task'[q].ctx = task[q].ctx
      PROVE  /\ Mapped' = Mapped /\ Forwarded' = Forwarded
             /\ Audited' = Audited /\ Answered' = Answered
  <2>1. Mapped' = Mapped /\ Forwarded' = Forwarded /\ Audited' = Audited
    BY <1>2 DEF Mapped, Forwarded, Audited, Sanitized
  <2>2. Answered' = [q \in Requests |-> SaidOf(task'[q])]
    BY DEF Answered, SaidOf
  <2> QED BY <1>2, <2>1, <2>2 DEF Answered
<1>3. CASE Crash
  BY <1>2, <1>3, CrashInv DEF Crash, services
<1>4. CASE ReplaceStore \/ Rotate \/ UNCHANGED vars
  <2>1. UNCHANGED <<task, cache, provider, audit>>
    BY <1>4 DEF ReplaceStore, Rotate, vars, services
  <2> QED BY <1>2, <2>1
<1> QED BY <1>1, <1>3, <1>4 DEF Next, Step, Done

\* The streaming handler keeps the promise of the gateway, for any set of
\* requests and any schedule of faults, rotations, cancellations, abandoned
\* generators and crashes.
THEOREM StreamGatewayImplemented == Spec => StreamImplementsGateway
<1>1. Init => Gateway!GInit
  <2>1. SUFFICES ASSUME Init PROVE Gateway!GInit
    OBVIOUS
  <2>2. \A r \in Requests : /\ task[r].outcome = None /\ task[r].frame = None
                            /\ task[r].status = Open /\ ~Sanitized(r)
                            /\ provider[r] = "none" /\ audit[r] = None
    BY <2>1 DEF Init, NewTask, NewContext, Sanitized, None
  <2> QED BY <2>2 DEF Gateway!GInit, None
<1>2. StreamInv /\ [Next]_vars => [Gateway!GNext]_(Gateway!gatewayVars)
  BY GatewayStep
<1> QED BY <1>1, <1>2, StreamInvariant, PTL DEF Spec, StreamImplementsGateway, Gateway!GSpec
=============================================================================
