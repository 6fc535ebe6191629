------------------------ MODULE PipelineStagesProofs ------------------------
(***************************************************************************)
(* What the pipeline stages do to a context, for the two handlers that run *)
(* them: the types they keep, the fields they touch and the errors they    *)
(* record.                                                                 *)
(***************************************************************************)
EXTENDS PipelineStages, SequenceTheorems, TLAPS

\* The stages in the order in which both handlers run them; the streaming
\* handler stops after the ninth.
StageAt(i, c, wired) ==
    CASE i = 1 -> ClassificationStage(c)
      [] i = 2 -> LocaleNegotiationStage(c)
      [] i = 3 -> DetectionStage(c)
      [] i = 4 -> SensitivityClassificationStage(c)
      [] i = 5 -> PolicyEnforcementStage(c, wired)
      [] i = 6 -> InboundDLPStage(c, wired)
      [] i = 7 -> ToolGovernanceStage(c, wired)
      [] i = 8 -> TokenizationStage(c)
      [] i = 9 -> ForwardingGuard(c)
      [] i = 10 -> ProviderRefusals(c)
      [] i = 11 -> OutboundDLPStage(c, wired)
      [] i = 12 -> RestorationStage(c)

\* The error constructors build errors.
LEMMA ErrorTypes ==
    /\ \A s \in Statuses : Abort(s) \in Errors
    /\ DependencyUnavailable \in Errors
    /\ LanguageUnsupported \in Errors
    /\ OtherException \in Errors
BY DEF Abort, DependencyUnavailable, LanguageUnsupported, OtherException,
       Errors, Statuses

\* Two contexts that agree on what decides whether a body may be forwarded.
SameButErrors(c, d) ==
    /\ d.action = c.action
    /\ d.detections = c.detections
    /\ d.transformed = c.transformed
    /\ d.token_mappings = c.token_mappings

\* fail_secure keeps every field but the error list, which is not empty after.
LEMMA FailSecureFacts ==
    ASSUME NEW c \in Contexts, NEW e \in Errors
    PROVE  /\ FailSecure(c, e) \in Contexts
           /\ HasErrors(FailSecure(c, e))
           /\ SameButErrors(c, FailSecure(c, e))
<1>1. c.errors \in Seq(Errors)
  BY DEF Contexts
<1>2. Append(c.errors, e) \in Seq(Errors) /\ Append(c.errors, e) # << >>
  BY <1>1, AppendProperties
<1> QED BY <1>2 DEF FailSecure, HasErrors, Contexts, SameButErrors

\* Every stage maps contexts to contexts.
LEMMA StageAtTypes ==
    ASSUME NEW c \in Contexts, NEW i \in 1..12, NEW wired,
           NEW d \in StageAt(i, c, wired)
    PROVE  d \in Contexts
<1>f. \A x \in Contexts, e \in Errors : FailSecure(x, e) \in Contexts
  BY FailSecureFacts
<1>s. \A x \in Contexts :
        /\ \A s \in {400, 402, 403, 429, 451, 500, 501, 503} : FailSecure(x, Abort(s)) \in Contexts
        /\ FailSecure(x, OtherException) \in Contexts
        /\ FailSecure(x, LanguageUnsupported) \in Contexts
  <2>1. {400, 402, 403, 429, 451, 500, 501, 503} \subseteq Statuses
    BY DEF Statuses
  <2> QED BY <1>f, <2>1, ErrorTypes
<1>1. d \in ClassificationStage(c) => d \in Contexts
  <2>1. \A a \in Actions : [c EXCEPT !.action = a] \in Contexts
    BY DEF Contexts
  <2>2. "ANONYMIZE" \in Actions /\ "BLOCK" \in Actions /\ "ROUTE_LOCAL" \in Actions
    BY DEF Actions
  <2> QED BY <2>1, <2>2, <1>s DEF ClassificationStage
<1>2. d \in LocaleNegotiationStage(c) => d \in Contexts
  BY <1>s DEF LocaleNegotiationStage
<1>3. d \in DetectionStage(c) => d \in Contexts
  <2>1. \A a \in Detections : [c EXCEPT !.detections = a] \in Contexts
    BY DEF Contexts
  <2> QED BY <2>1, <1>s DEF DetectionStage
<1>4. d \in SensitivityClassificationStage(c) => d \in Contexts
  BY <1>s DEF SensitivityClassificationStage
<1>5. d \in PolicyEnforcementStage(c, wired) => d \in Contexts
  BY <1>s DEF PolicyEnforcementStage, EnforcedStatuses
<1>6. d \in InboundDLPStage(c, wired) => d \in Contexts
  BY <1>s DEF InboundDLPStage
<1>7. d \in ToolGovernanceStage(c, wired) => d \in Contexts
  BY <1>s DEF ToolGovernanceStage
<1>8. d \in TokenizationStage(c) => d \in Contexts
  <2>1. /\ [c EXCEPT !.transformed = "copy", !.token_mappings = "empty"] \in Contexts
        /\ [c EXCEPT !.transformed = "tokenized", !.token_mappings = "empty"] \in Contexts
        /\ [c EXCEPT !.transformed = "tokenized"] \in Contexts
    BY DEF Contexts, Bodies, Mappings
  <2> QED BY <2>1, <1>s DEF TokenizationStage
<1>9. d \in ForwardingGuard(c) => d \in Contexts
  BY <1>s DEF ForwardingGuard
<1>10. d \in ProviderRefusals(c) => d \in Contexts
  BY <1>s DEF ProviderRefusals
<1>11. d \in OutboundDLPStage(c, wired) => d \in Contexts
  BY <1>s DEF OutboundDLPStage
<1>12. d \in RestorationStage(c) => d \in Contexts
  <2>1. [c EXCEPT !.restored_response = c.provider_response] \in Contexts
    BY DEF Contexts
  <2> QED BY <2>1, <1>s DEF RestorationStage
<1> QED
  BY <1>1, <1>2, <1>3, <1>4, <1>5, <1>6, <1>7, <1>8, <1>9, <1>10, <1>11, <1>12
  DEF StageAt

\* What the stages do to the fields that decide whether a body may leave:
\* classification sets the action, detection the detections, tokenization the
\* body and the mapping, and no other stage touches them.
LEMMA StageAtEffects ==
    ASSUME NEW c \in Contexts, NEW i \in 1..12, NEW wired,
           NEW d \in StageAt(i, c, wired)
    PROVE  /\ i \notin {1, 3, 8} => SameButErrors(c, d)
           /\ i = 1 => /\ ~HasErrors(d) => d.action = "ANONYMIZE"
                       /\ d.detections = c.detections
                       /\ d.transformed = c.transformed
                       /\ d.token_mappings = c.token_mappings
           /\ i = 3 /\ c.action = "ANONYMIZE" =>
                       /\ ~HasErrors(d) => d.detections # "none"
                       /\ d.action = c.action
                       /\ d.transformed = c.transformed
                       /\ d.token_mappings = c.token_mappings
           /\ i = 8 /\ c.action = "ANONYMIZE" /\ c.detections # "none" =>
                       \/ HasErrors(d)
                       \/ /\ d.action = c.action
                          /\ d.detections = c.detections
                          /\ d.errors = c.errors
                          /\ \/ /\ c.detections = "empty"
                                /\ d.transformed = "copy"
                                /\ d.token_mappings = "empty"
                             \/ /\ c.detections = "irreversible"
                                /\ d.transformed = "tokenized"
                                /\ d.token_mappings = "empty"
                             \/ /\ c.detections = "reversible"
                                /\ d.transformed = "tokenized"
                                /\ d.token_mappings = c.token_mappings
           /\ i = 10 => HasErrors(d)
<1>f. \A x \in Contexts, e \in Errors :
         HasErrors(FailSecure(x, e)) /\ SameButErrors(x, FailSecure(x, e))
  BY FailSecureFacts
<1>s. \A x \in Contexts :
        /\ \A s \in {400, 402, 403, 429, 451, 500, 501, 503} :
              HasErrors(FailSecure(x, Abort(s))) /\ SameButErrors(x, FailSecure(x, Abort(s)))
        /\ HasErrors(FailSecure(x, OtherException))
        /\ SameButErrors(x, FailSecure(x, OtherException))
        /\ HasErrors(FailSecure(x, LanguageUnsupported))
        /\ SameButErrors(x, FailSecure(x, LanguageUnsupported))
  <2>1. {400, 402, 403, 429, 451, 500, 501, 503} \subseteq Statuses
    BY DEF Statuses
  <2> QED BY <1>f, <2>1, ErrorTypes
<1>c. SameButErrors(c, c)
  BY DEF SameButErrors
<1>1. CASE i = 1
  <2>1. d \in ClassificationStage(c)
    BY <1>1 DEF StageAt
  <2>2. \A a \in Actions : [c EXCEPT !.action = a] \in Contexts
    BY DEF Contexts
  <2>3. "ANONYMIZE" \in Actions /\ "BLOCK" \in Actions /\ "ROUTE_LOCAL" \in Actions
    BY DEF Actions
  <2>4. \A a \in Actions : /\ [c EXCEPT !.action = a].action = a
                           /\ [c EXCEPT !.action = a].detections = c.detections
                           /\ [c EXCEPT !.action = a].transformed = c.transformed
                           /\ [c EXCEPT !.action = a].token_mappings = c.token_mappings
    BY DEF Contexts
  <2>5. CASE d = [c EXCEPT !.action = "ANONYMIZE"]
    BY <1>1, <2>5, <2>3, <2>4
  <2>6. CASE d = FailSecure(c, OtherException)
    BY <1>1, <2>6, <1>s DEF SameButErrors
  <2>7. ASSUME NEW a \in Actions, NEW s \in {403, 501},
               d = FailSecure([c EXCEPT !.action = a], Abort(s))
        PROVE  /\ HasErrors(d)
               /\ d.detections = c.detections
               /\ d.transformed = c.transformed
               /\ d.token_mappings = c.token_mappings
    <3>1. HasErrors(d) /\ SameButErrors([c EXCEPT !.action = a], d)
      BY <2>2, <2>7, <1>s
    <3> QED BY <3>1, <2>4 DEF SameButErrors
  <2>8. \/ d = [c EXCEPT !.action = "ANONYMIZE"]
        \/ d = FailSecure(c, OtherException)
        \/ \E a \in Actions, s \in {403, 501} : d = FailSecure([c EXCEPT !.action = a], Abort(s))
    BY <2>1, <2>3 DEF ClassificationStage
  <2>9. CASE \E a \in Actions, s \in {403, 501} : d = FailSecure([c EXCEPT !.action = a], Abort(s))
    <3>1. /\ HasErrors(d)
          /\ d.detections = c.detections
          /\ d.transformed = c.transformed
          /\ d.token_mappings = c.token_mappings
      BY <2>7, <2>9
    <3> QED BY <1>1, <3>1
  <2> QED BY <2>5, <2>6, <2>8, <2>9
<1>2. CASE i = 3
  <2>1. d \in DetectionStage(c)
    BY <1>2 DEF StageAt
  <2>2. \A x \in Detections : /\ [c EXCEPT !.detections = x].action = c.action
                              /\ [c EXCEPT !.detections = x].detections = x
                              /\ [c EXCEPT !.detections = x].transformed = c.transformed
                              /\ [c EXCEPT !.detections = x].token_mappings = c.token_mappings
    BY DEF Contexts
  <2>3. CASE \E x \in Detections \ {"none"} : d = [c EXCEPT !.detections = x]
    BY <1>2, <2>2, <2>3
  <2>4. CASE d = FailSecure(c, Abort(500)) \/ d = FailSecure(c, LanguageUnsupported)
    <3>1. HasErrors(d) /\ SameButErrors(c, d)
      BY <2>4, <1>s
    <3> QED BY <3>1, <1>2 DEF SameButErrors
  <2>5. CASE c.action = "BLOCK"
    BY <1>2, <2>5
  <2> QED BY <2>1, <2>3, <2>4, <2>5 DEF DetectionStage
<1>3. CASE i = 8
  <2>1. d \in TokenizationStage(c)
    BY <1>3 DEF StageAt
  <2>2. c.detections \in Detections
    BY DEF Contexts
  <2>3. SUFFICES ASSUME c.action = "ANONYMIZE", c.detections # "none", ~HasErrors(d)
                 PROVE  /\ d.action = c.action
                        /\ d.detections = c.detections
                        /\ d.errors = c.errors
                        /\ \/ /\ c.detections = "empty"
                              /\ d.transformed = "copy"
                              /\ d.token_mappings = "empty"
                           \/ /\ c.detections = "irreversible"
                              /\ d.transformed = "tokenized"
                              /\ d.token_mappings = "empty"
                           \/ /\ c.detections = "reversible"
                              /\ d.transformed = "tokenized"
                              /\ d.token_mappings = c.token_mappings
    BY <1>3
  <2>4. CASE c.detections = "empty"
    <3>1. d = [c EXCEPT !.transformed = "copy", !.token_mappings = "empty"]
      BY <2>1, <2>3, <2>4 DEF TokenizationStage
    <3> QED BY <3>1, <2>4 DEF Contexts
  <2>5. CASE c.detections = "irreversible"
    <3>1. d = [c EXCEPT !.transformed = "tokenized", !.token_mappings = "empty"]
      BY <2>1, <2>3, <2>5, <1>s DEF TokenizationStage
    <3> QED BY <3>1, <2>5 DEF Contexts
  <2>6. CASE c.detections = "reversible"
    <3>1. d = [c EXCEPT !.transformed = "tokenized"]
      BY <2>1, <2>3, <2>6, <1>s DEF TokenizationStage
    <3> QED BY <3>1, <2>6 DEF Contexts
  <2> QED BY <2>2, <2>3, <2>4, <2>5, <2>6 DEF Detections
<1>4. CASE i = 12
  <2>1. d \in RestorationStage(c)
    BY <1>4 DEF StageAt
  <2>2. SameButErrors(c, [c EXCEPT !.restored_response = c.provider_response])
    BY DEF Contexts, SameButErrors
  <2>3. SameButErrors(c, d)
    BY <1>c, <2>1, <2>2, <1>s DEF RestorationStage
  <2> QED BY <1>4, <2>3
<1>5. CASE i = 10
  <2>1. d \in ProviderRefusals(c)
    BY <1>5 DEF StageAt
  <2>2. SameButErrors(c, d) /\ HasErrors(d)
    BY <2>1, <1>s DEF ProviderRefusals
  <2> QED BY <1>5, <2>2
<1>6. CASE i \in {2, 4, 5, 6, 7, 9, 11}
  <2>1. d = c \/ \E s \in {400, 402, 403, 429, 451, 500, 501, 503} : d = FailSecure(c, Abort(s))
              \/ d = FailSecure(c, OtherException)
    BY <1>6 DEF StageAt, LocaleNegotiationStage,
       SensitivityClassificationStage, PolicyEnforcementStage, InboundDLPStage,
       ToolGovernanceStage, ForwardingGuard, OutboundDLPStage, EnforcedStatuses
  <2>2. SameButErrors(c, d)
    BY <1>c, <2>1, <1>s
  <2> QED BY <1>6, <2>2
<1> QED BY <1>1, <1>2, <1>3, <1>4, <1>5, <1>6

\* What a stage may do to the reply and to the error list.
Replied(c, d) ==
    /\ d.provider_response = c.provider_response
    /\ d.restored_response \in {c.restored_response, c.provider_response}
    /\ c.errors = << >> => d.errors = << >> \/ Len(d.errors) = 1

\* fail_secure adds one error.
LEMMA FailSecureReplied ==
    ASSUME NEW c \in Contexts, NEW e \in Errors
    PROVE  Replied(c, FailSecure(c, e))
<1>1. c.errors \in Seq(Errors)
  BY DEF Contexts
<1>2. Len(Append(c.errors, e)) = Len(c.errors) + 1
  BY <1>1, AppendProperties
<1>3. c.errors = << >> => Len(Append(c.errors, e)) = 1
  BY <1>2
<1> QED BY <1>3 DEF FailSecure, Contexts, Replied

\* A stage other than the provider call records at most one error, and no
\* reply but a copy of the provider's.
LEMMA StageAtReplied ==
    ASSUME NEW c \in Contexts, NEW i \in 1..12, NEW wired,
           NEW d \in StageAt(i, c, wired)
    PROVE  Replied(c, d)
<1>s. \A x \in Contexts :
        /\ \A s \in {400, 402, 403, 429, 451, 500, 501, 503} : Replied(x, FailSecure(x, Abort(s)))
        /\ Replied(x, FailSecure(x, OtherException))
        /\ Replied(x, FailSecure(x, LanguageUnsupported))
  <2>1. {400, 402, 403, 429, 451, 500, 501, 503} \subseteq Statuses
    BY DEF Statuses
  <2> QED BY <2>1, ErrorTypes, FailSecureReplied
<1>c. Replied(c, c)
  BY DEF Replied
<1>a. \A a \in Actions : /\ [c EXCEPT !.action = a] \in Contexts
                         /\ Replied(c, [c EXCEPT !.action = a])
  BY DEF Contexts, Replied
<1>1. CASE i = 1
  <2>1. d \in ClassificationStage(c)
    BY <1>1 DEF StageAt
  <2>2. ASSUME NEW a \in Actions, NEW s \in {403, 501},
               d = FailSecure([c EXCEPT !.action = a], Abort(s))
        PROVE  Replied(c, d)
    <3>1. Replied([c EXCEPT !.action = a], d)
      BY <1>a, <1>s, <2>2
    <3>2. /\ [c EXCEPT !.action = a].errors = c.errors
          /\ [c EXCEPT !.action = a].provider_response = c.provider_response
          /\ [c EXCEPT !.action = a].restored_response = c.restored_response
      BY DEF Contexts
    <3> QED BY <3>1, <3>2 DEF Replied
  <2>3. "ANONYMIZE" \in Actions /\ "BLOCK" \in Actions /\ "ROUTE_LOCAL" \in Actions
    BY DEF Actions
  <2> QED BY <1>a, <1>s, <2>1, <2>2, <2>3 DEF ClassificationStage
<1>2. CASE i = 3
  <2>1. d \in DetectionStage(c)
    BY <1>2 DEF StageAt
  <2>2. \A x \in Detections : Replied(c, [c EXCEPT !.detections = x])
    BY DEF Contexts, Replied
  <2> QED BY <1>c, <1>s, <2>1, <2>2 DEF DetectionStage
<1>3. CASE i = 8
  <2>1. d \in TokenizationStage(c)
    BY <1>3 DEF StageAt
  <2>2. /\ Replied(c, [c EXCEPT !.transformed = "copy", !.token_mappings = "empty"])
        /\ Replied(c, [c EXCEPT !.transformed = "tokenized", !.token_mappings = "empty"])
        /\ Replied(c, [c EXCEPT !.transformed = "tokenized"])
    BY DEF Contexts, Replied
  <2> QED BY <1>c, <1>s, <2>1, <2>2 DEF TokenizationStage
<1>4. CASE i = 12
  <2>1. d \in RestorationStage(c)
    BY <1>4 DEF StageAt
  <2>2. Replied(c, [c EXCEPT !.restored_response = c.provider_response])
    BY DEF Contexts, Replied
  <2> QED BY <1>c, <1>s, <2>1, <2>2 DEF RestorationStage
<1>5. CASE i \in {2, 4, 5, 6, 7, 9, 10, 11}
  <2>1. d = c \/ \E s \in {400, 402, 403, 429, 451, 500, 501, 503} : d = FailSecure(c, Abort(s))
              \/ d = FailSecure(c, OtherException)
    BY <1>5 DEF StageAt, LocaleNegotiationStage,
       SensitivityClassificationStage, PolicyEnforcementStage, InboundDLPStage,
       ToolGovernanceStage, ForwardingGuard, ProviderRefusals, OutboundDLPStage,
       EnforcedStatuses
  <2> QED BY <1>c, <1>s, <2>1
<1> QED BY <1>1, <1>2, <1>3, <1>4, <1>5

\* A failed run has an HTTP error status.
LEMMA RaiseTypes ==
    ASSUME NEW c \in Contexts, HasErrors(c)
    PROVE  RaiseForPipelineErrors(c.errors) \in Statuses
<1>1. c.errors \in Seq(Errors)
  BY DEF Contexts
<1>2. c.errors[Len(c.errors)] \in Errors
  BY <1>1, EmptySeq, ElementOfSeq, LenProperties DEF HasErrors
<1> QED BY <1>2 DEF RaiseForPipelineErrors, StatusOf, Errors, Statuses
=============================================================================
