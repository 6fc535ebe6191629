--------------------------- MODULE PipelineStages ---------------------------
(***************************************************************************)
(* The processing context of one request and the effect of each pipeline   *)
(* stage on it.  A stage is an operator from a context to the set of the   *)
(* contexts it may leave behind: what the recognisers, the policy engine   *)
(* and the DLP engine answer is the choice between them.  The stages with  *)
(* an external effect (the mapping store, the provider call, the cleanup)  *)
(* are split at their awaits by the modules that run the pipeline; this    *)
(* module gives the parts before and after the await.                      *)
(***************************************************************************)
EXTENDS Sequences, Naturals

CONSTANTS
    Configured,     \* the optional services wired into app.state
    DefaultAction   \* CLASSIFICATION_DEFAULT_ACTION, upper-cased

ASSUME ConfiguredAssumption ==
    Configured \subseteq {"policy", "dlp", "tools", "chain"}

(***************************************************************************)
(* Errors, as the classes the route handler tells apart.                   *)
(***************************************************************************)
Abort(status) == [kind |-> "PipelineAbort", status |-> status]
DependencyUnavailable == [kind |-> "DependencyUnavailable", status |-> 503]
LanguageUnsupported == [kind |-> "LanguageUnsupported", status |-> 503]
OtherException == [kind |-> "Exception", status |-> 500]

Statuses == {400, 401, 402, 403, 404, 422, 429, 451, 500, 501, 502, 503, 504}
Errors == [kind : {"PipelineAbort", "DependencyUnavailable",
                   "LanguageUnsupported", "Exception"},
           status : Statuses]

(***************************************************************************)
(* ProcessingContext.  "none" is Python's None.  detections is abstracted  *)
(* to what tokenization does with it: no span, at least one reversible     *)
(* span, or irreversible spans only (masked, with no mapping entry).       *)
(* transformed is the body that may be forwarded: "copy" is a verbatim     *)
(* copy of the original request, "tokenized" has every detected span       *)
(* replaced.  provider_response and restored_response are falsy when       *)
(* "none" or "empty".                                                      *)
(***************************************************************************)
Actions == {"none", "ANONYMIZE", "BLOCK", "ROUTE_LOCAL"}
Detections == {"none", "empty", "reversible", "irreversible"}
Bodies == {"none", "copy", "tokenized"}
Mappings == {"none", "empty", "some"}
Replies == {"none", "empty", "full"}

Contexts == [client_classification : BOOLEAN,
             action : Actions,
             detections : Detections,
             transformed : Bodies,
             token_mappings : Mappings,
             provider_response : Replies,
             restored_response : Replies,
             errors : Seq(Errors)]

NewContext(client) ==
    [client_classification |-> client,
     action |-> "none",
     detections |-> "none",
     transformed |-> "none",
     token_mappings |-> "none",
     provider_response |-> "none",
     restored_response |-> "none",
     errors |-> << >>]

\* ProcessingContext.fail_secure and has_errors.
FailSecure(c, e) == [c EXCEPT !.errors = Append(@, e)]
HasErrors(c) == c.errors # << >>

(***************************************************************************)
(* The stages before the provider call.                                    *)
(***************************************************************************)

\* A PASS outcome of the engine is recorded as ANONYMIZE: it still runs
\* detection and tokenization.
ClassificationStage(c) ==
    {[c EXCEPT !.action = "ANONYMIZE"],
     FailSecure([c EXCEPT !.action = "BLOCK"], Abort(403)),
     FailSecure([c EXCEPT !.action = "ROUTE_LOCAL"], Abort(501)),
     FailSecure(c, OtherException)}

LocaleNegotiationStage(c) ==
    {c, FailSecure(c, Abort(400)), FailSecure(c, OtherException)}

\* No text node means no detection; a recogniser or Presidio failure of any
\* kind fails the stage, and an unsupported language is not retried.
DetectionStage(c) ==
    IF c.action = "BLOCK"
    THEN {c}
    ELSE {[c EXCEPT !.detections = d] : d \in Detections \ {"none"}}
         \cup {FailSecure(c, Abort(500)), FailSecure(c, LanguageUnsupported)}

\* A "block" handling action is only waived when the default action is
\* ANONYMIZE and the client sent no classification of its own.
SensitivityClassificationStage(c) ==
    {c, FailSecure(c, OtherException)}
    \cup IF c.client_classification \/ DefaultAction # "ANONYMIZE"
         THEN {FailSecure(c, Abort(451))}
         ELSE {}

\* The stage aborts with the status of the enforcement, 403 when it has none.
EnforcedStatuses == {402, 403, 429, 451, 503}

PolicyEnforcementStage(c, services) ==
    {c} \cup IF "policy" \in services
             THEN {FailSecure(c, Abort(s)) : s \in EnforcedStatuses}
                  \cup {FailSecure(c, OtherException)}
             ELSE {}

InboundDLPStage(c, services) ==
    {c} \cup IF "dlp" \in services
             THEN {FailSecure(c, Abort(451)), FailSecure(c, OtherException)}
             ELSE {}

\* ToolBlockedError is not a PipelineAbortError.
ToolGovernanceStage(c, services) ==
    {c} \cup IF "tools" \in services THEN {FailSecure(c, OtherException)} ELSE {}

\* Mutated TokenizationStage: forwards a verbatim copy when the spans need no
\* mapping entry.
TokenizationStage_CopiesIrreversible(c) ==
    IF c.action # "BLOCK" /\ c.detections \in {"empty", "irreversible"}
    THEN {[c EXCEPT !.transformed = "copy", !.token_mappings = "empty"]}
    ELSE {[c EXCEPT !.transformed = "tokenized"], FailSecure(c, Abort(500))}

\* Mutated TokenizationStage: records the mapping without storing it.
TokenizationStage_SkipsStore(c) ==
    IF c.action # "BLOCK" /\ c.detections \in {"none", "empty"}
    THEN {[c EXCEPT !.transformed = "copy", !.token_mappings = "empty"]}
    ELSE {[c EXCEPT !.transformed = "tokenized", !.token_mappings = "some"]}

\* Tokenization up to the point where the mapping is stored: the body is
\* written before the store, the mapping is recorded on the context after it.
\* A detected span in a node that cannot be written back fails the stage.
TokenizationStage(c) ==
    CASE c.action = "BLOCK" -> {c}
      [] c.action # "BLOCK" /\ c.detections \in {"none", "empty"} ->
           {[c EXCEPT !.transformed = "copy", !.token_mappings = "empty"]}
      [] c.action # "BLOCK" /\ c.detections = "irreversible" ->
           {[c EXCEPT !.transformed = "tokenized", !.token_mappings = "empty"],
            FailSecure(c, Abort(500))}
      [] OTHER ->
           {[c EXCEPT !.transformed = "tokenized"], FailSecure(c, Abort(500))}

\* all_mappings is not empty, so the stage goes on to store_mapping.
StoresMapping(c) == c.transformed = "tokenized" /\ c.token_mappings = "none"

\* What remains of the stage once store_mapping returned.
MappingStored(c) == [c EXCEPT !.token_mappings = "some"]

\* store_mapping raised: a retryable cache error surfaces as
\* DependencyUnavailable, a failing KMS as any exception, turned into a 500.
MappingNotStored(c) ==
    {FailSecure(c, DependencyUnavailable), FailSecure(c, Abort(500))}

ForwardingGuard(c) ==
    IF \/ c.action = "none"
       \/ c.detections = "none"
       \/ c.token_mappings = "none"
       \/ c.transformed = "none"
    THEN {FailSecure(c, Abort(503))}
    ELSE {c}

(***************************************************************************)
(* The provider call and the stages after it.                              *)
(***************************************************************************)

\* The provider stage returns before the call when there is no body or when
\* the alias is unknown.  (Its third early return, a body that asks for a
\* stream, is never met: the route sends those to the streaming handler.)
ProviderRefusals(c) ==
    IF c.transformed = "none"
    THEN {FailSecure(c, Abort(500))}
    ELSE {FailSecure(c, Abort(400))}

\* The outcomes of the HTTP exchange: a JSON reply (null, {} or content), an
\* error status or an unparseable body, a timeout, a refused connection, or an
\* exception the stage does not name and the orchestrator records.
ProviderErrors == {Abort(502), Abort(503), Abort(504), OtherException}

ProviderReplies(c) ==
    {[c EXCEPT !.provider_response = p] : p \in Replies}
    \cup {FailSecure(c, e) : e \in ProviderErrors}

\* The outbound DLP stage looks at the reply before tokens are restored.
OutboundDLPStage(c, services) ==
    {c} \cup IF "dlp" \in services /\ c.provider_response = "full"
             THEN {FailSecure(c, Abort(451)), FailSecure(c, OtherException)}
             ELSE {}

RestorationStage(c) ==
    CASE c.action = "BLOCK" -> {c}
      [] c.action # "BLOCK" /\ c.provider_response = "none" ->
           {FailSecure(c, Abort(500))}
      [] OTHER ->
           {[c EXCEPT !.restored_response = c.provider_response],
            FailSecure(c, Abort(500))}

(***************************************************************************)
(* The HTTP status of a failed run: _raise_for_pipeline_errors looks at    *)
(* the last error only, and a status outside the list becomes 500.         *)
(***************************************************************************)
StatusOf(e) ==
    IF /\ e.kind = "PipelineAbort"
       /\ e.status \notin {400, 403, 404, 451, 501, 503, 504}
    THEN 500
    ELSE e.status

RaiseForPipelineErrors(errors) == StatusOf(errors[Len(errors)])
=============================================================================
