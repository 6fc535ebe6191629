------------------------- MODULE AnonymizingGateway -------------------------
(***************************************************************************)
(* What the gateway promises for each chat request, whichever of its two   *)
(* handlers serves it:                                                     *)
(*                                                                         *)
(*   - a body reaches the provider at most once, and only after every      *)
(*     detected span was replaced and the mapping that restores the        *)
(*     replaced spans was written;                                         *)
(*   - a request is answered at most once; it is answered as complete only *)
(*     when it was forwarded and, in a deployment with an audit chain, its *)
(*     audit event is in the chain.                                        *)
(*                                                                         *)
(* A cancelled request, or one in a process that died, is never answered.  *)
(***************************************************************************)
CONSTANTS
    Requests,
    AuditRequired   \* whether the deployment has an audit chain

VARIABLES
    mapped,     \* requests whose sanitised body is ready to leave
    forwarded,  \* requests whose body the provider received
    audited,    \* requests with an event in the audit chain
    answer      \* what the client was told

gatewayVars == <<mapped, forwarded, audited, answer>>

GInit ==
    /\ mapped = {}
    /\ forwarded = {}
    /\ audited = {}
    /\ answer = [r \in Requests |-> "open"]

Sanitize(r) ==
    /\ answer[r] = "open"
    /\ mapped' = mapped \cup {r}
    /\ UNCHANGED <<forwarded, audited, answer>>

Forward(r) ==
    /\ answer[r] = "open"
    /\ r \in mapped \ forwarded
    /\ forwarded' = forwarded \cup {r}
    /\ UNCHANGED <<mapped, audited, answer>>

\* A commit whose acknowledgement was lost may land after the answer.
Audit(r) ==
    /\ audited' = audited \cup {r}
    /\ UNCHANGED <<mapped, forwarded, answer>>

\* The acknowledgement of the audit write and the answer may be one step.
Complete(r) ==
    /\ answer[r] = "open"
    /\ r \in forwarded
    /\ audited' \in {audited, audited \cup {r}}
    /\ AuditRequired => r \in audited'
    /\ answer' = [answer EXCEPT ![r] = "complete"]
    /\ UNCHANGED <<mapped, forwarded>>

Reject(r) ==
    /\ answer[r] = "open"
    /\ audited' \in {audited, audited \cup {r}}
    /\ answer' = [answer EXCEPT ![r] = "rejected"]
    /\ UNCHANGED <<mapped, forwarded>>

GNext ==
    \E r \in Requests :
        Sanitize(r) \/ Forward(r) \/ Audit(r) \/ Complete(r) \/ Reject(r)

GSpec == GInit /\ [][GNext]_gatewayVars
=============================================================================
