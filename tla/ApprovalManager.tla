--------------------------- MODULE ApprovalManager --------------------------
(***************************************************************************)
(* ApprovalManager: the approval tokens of high-risk tool calls, kept in   *)
(* Valkey hashes.  Every operation reads the hash with one command and     *)
(* writes it with a later one; between the two other calls run and the     *)
(* token's expires_at may pass.                                            *)
(***************************************************************************)
EXTENDS Naturals, FiniteSets

CONSTANTS
    Tokens,
    Calls,      \* the API calls made (bounds the run)
    MaxOpen     \* how many of them may be in progress at a time

ASSUME ApprovalAssumption == MaxOpen \in Nat \ {0}

VARIABLES
    record,     \* the hash of each token
    expired,    \* the tokens whose expires_at has passed
    call        \* the API calls; with: the calls each one overlapped

vars == <<record, expired, call>>

None == "none"
Decisions == {"approve", "deny"}
Kinds == Decisions \cup {"poll", "cleanup"}
Open == {"read", "write", "scan", "delete"}

\* Mutated Resolved: the verb of the request is stored.
Resolved_Verb(kind) == kind

\* The status a decision stores.
Resolved(kind) == IF kind = "approve" THEN "approved" ELSE "denied"

\* A hash: full is whether it has more fields than its status, ttl what the
\* key's expiry was set to.
Absent == [status |-> None, full |-> FALSE, ttl |-> None]
Records == [status : {None, "pending", "approved", "denied", "expired"},
            full : BOOLEAN, ttl : {None, "long", "short"}]

Init ==
    /\ record = [t \in Tokens |-> Absent]
    /\ expired = {}
    /\ call = [c \in Calls |-> [pc |-> "idle", kind |-> None, token |-> None,
                                seen |-> Absent, now |-> {}, keys |-> {},
                                answer |-> None, with |-> {}]]

-----------------------------------------------------------------------------
\* A token that was handed out.
Known(t) ==
    record[t] # Absent \/ t \in expired \/ \E c \in Calls : call[c].token = t

\* create_approval: the token is fresh; the key outlives expires_at.
CreateApproval(t) ==
    /\ ~Known(t)
    /\ record' = [record EXCEPT ![t] = [status |-> "pending", full |-> TRUE,
                                        ttl |-> "long"]]
    /\ UNCHANGED <<expired, call>>

InProgress == {c \in Calls : call[c].pc \in Open}

\* Call c begins as described by new: it overlaps the calls in progress.
Begin(c, new) ==
    call' = [d \in Calls |->
                CASE d = c -> [new EXCEPT !.with = InProgress]
                  [] d \in InProgress -> [call[d] EXCEPT !.with = @ \cup {c}]
                  [] OTHER -> call[d]]

\* A client that knows a token calls the API.  now: the tokens overdue at that
\* time (only cleanup takes its clock then).
Start(c) ==
    /\ call[c].pc = "idle"
    /\ Cardinality(InProgress) < MaxOpen
    /\ \/ \E kind \in Kinds \ {"cleanup"}, t \in Tokens :
             /\ Known(t)
             /\ Begin(c, [call[c] EXCEPT !.pc = "read", !.kind = kind,
                                         !.token = t, !.now = expired])
       \/ Begin(c, [call[c] EXCEPT !.pc = "scan", !.kind = "cleanup", !.now = expired,
                                   !.keys = {t \in Tokens : record[t] # Absent}])
    /\ UNCHANGED <<record, expired>>

Answer(c, a) == [call EXCEPT ![c].pc = "done", ![c].answer = a,
                             ![c].seen = Absent, ![c].keys = {}]

\* Mutated Decidable: only an unknown token is refused.
Decidable_Any(seen) == seen # Absent

\* The test of approve and deny: the status alone, not expires_at.
Decidable(seen) == seen.status = "pending"

\* approve_approval and deny_approval up to the write: 404, 409 or go on.
ReadForDecision(c) ==
    LET seen == record[call[c].token]
    IN  /\ call[c].pc = "read"
        /\ call[c].kind \in Decisions
        /\ call' = CASE seen = Absent -> Answer(c, "404")
                     [] seen # Absent /\ Decidable(seen) ->
                          [call EXCEPT ![c].pc = "write", ![c].seen = seen]
                     [] OTHER -> Answer(c, "409")
        /\ UNCHANGED <<record, expired>>

\* HSET of the whole record that was read, EXPIRE 60.
WriteDecision(c) ==
    /\ call[c].pc = "write"
    /\ call[c].kind \in Decisions
    /\ record' = [record EXCEPT ![call[c].token] =
                    [status |-> Resolved(call[c].kind), full |-> TRUE,
                     ttl |-> "short"]]
    /\ call' = Answer(c, Resolved(call[c].kind))
    /\ UNCHANGED expired

\* Mutated Overdue: a decided token expires too.
Overdue_Decided(t, seen) == seen.full /\ t \in expired

\* A record whose time passed without a decision.
Overdue(t, seen) == seen.full /\ t \in expired /\ seen.status = "pending"

\* get_approval_status up to the write.
ReadForPoll(c) ==
    LET t == call[c].token
    IN  /\ call[c].pc = "read"
        /\ call[c].kind = "poll"
        /\ call' = CASE record[t] = Absent -> Answer(c, "not_found")
                     [] record[t] # Absent /\ Overdue(t, record[t]) ->
                          [call EXCEPT ![c].pc = "write", ![c].seen = record[t]]
                     [] OTHER -> Answer(c, record[t].status)
        /\ UNCHANGED <<record, expired>>

\* Mutated MarkExpired: the record that was read is written back before the
\* status.
MarkExpired_WritesBack(now, seen) == seen

\* HSET of the status field alone: a key that is gone comes back with nothing
\* else in it, and without an expiry.
MarkExpired(now, seen) == [now EXCEPT !.status = "expired"]

WriteExpired(c) ==
    /\ call[c].pc = "write"
    /\ call[c].kind = "poll"
    /\ record' = [record EXCEPT ![call[c].token] = MarkExpired(@, call[c].seen)]
    /\ call' = Answer(c, "expired")
    /\ UNCHANGED expired

\* cleanup_expired reads one of the keys its SCAN returned.
Visit(c, t) ==
    /\ call[c].pc = "scan"
    /\ t \in call[c].keys
    /\ call' = IF /\ record[t].full
                  /\ t \in call[c].now
                  /\ record[t].status = "pending"
               THEN [call EXCEPT ![c].pc = "delete", ![c].token = t]
               ELSE [call EXCEPT ![c].keys = @ \ {t}]
    /\ UNCHANGED <<record, expired>>

DeleteKey(c) ==
    /\ call[c].pc = "delete"
    /\ record' = [record EXCEPT ![call[c].token] = Absent]
    /\ call' = [call EXCEPT ![c].pc = "scan", ![c].keys = @ \ {call[c].token},
                            ![c].token = None]
    /\ UNCHANGED expired

ScanEnds(c) ==
    /\ call[c].pc = "scan"
    /\ call[c].keys = {}
    /\ call' = Answer(c, "deleted")
    /\ UNCHANGED <<record, expired>>

\* The command in progress fails or the request is cancelled: nothing was
\* applied, and the caller gets no answer.
Fail(c) ==
    /\ call[c].pc \in Open
    /\ call' = Answer(c, "error")
    /\ UNCHANGED <<record, expired>>

\* A write was applied but its reply was lost.
LoseReply(c) ==
    /\ call[c].pc = "write"
    /\ record' = [record EXCEPT ![call[c].token] =
                    IF call[c].kind = "poll" THEN MarkExpired(@, call[c].seen)
                    ELSE [status |-> Resolved(call[c].kind), full |-> TRUE,
                          ttl |-> "short"]]
    /\ call' = Answer(c, "error")
    /\ UNCHANGED expired

-----------------------------------------------------------------------------
\* expires_at passes.
Overrun(t) ==
    /\ record[t] # Absent
    /\ expired' = expired \cup {t}
    /\ UNCHANGED <<record, call>>

\* Valkey drops the key: an undecided one at least an hour after expires_at, a
\* decided one after 60 s, longer than a call takes from its read to its write.
KeyExpires(t) ==
    /\ \A c \in Calls : ~(call[c].pc = "write" /\ call[c].token = t)
    /\ \/ record[t].ttl = "short"
       \/ record[t].ttl = "long" /\ t \in expired
    /\ record' = [record EXCEPT ![t] = Absent]
    /\ UNCHANGED <<expired, call>>

Step(c) ==
    \/ Start(c) \/ ReadForDecision(c) \/ WriteDecision(c) \/ ReadForPoll(c)
    \/ WriteExpired(c) \/ (\E t \in Tokens : Visit(c, t)) \/ DeleteKey(c)
    \/ ScanEnds(c) \/ Fail(c) \/ LoseReply(c)

Done == (\A c \in Calls : call[c].pc = "done") /\ UNCHANGED vars

Next ==
    \/ \E t \in Tokens : CreateApproval(t) \/ Overrun(t) \/ KeyExpires(t)
    \/ \E c \in Calls : Step(c)
    \/ Done

Spec == Init /\ [][Next]_vars
-----------------------------------------------------------------------------
(***************************************************************************)
(* Properties.                                                             *)
(***************************************************************************)

\* Type invariant of the records and the calls.
TypeOK ==
    /\ record \in [Tokens -> Records]
    /\ expired \subseteq Tokens
    /\ \A c \in Calls :
          /\ call[c].pc \in Open \cup {"idle", "done"}
          /\ call[c].kind \in Kinds \cup {None}
          /\ call[c].token \in Tokens \cup {None}
          /\ call[c].seen \in Records
          /\ call[c].now \subseteq Tokens
          /\ call[c].keys \subseteq Tokens
          /\ call[c].with \subseteq Calls

Decided(c, t) ==
    /\ call[c].token = t
    /\ call[c].kind \in Decisions
    /\ call[c].answer \in {"approved", "denied"}

\* However calls interleave, a token that was resolved is never pending again:
\* no call writes back what it read before the other's write.
NeverReopened ==
    \A t \in Tokens :
        record[t].status \in {"approved", "denied", "expired"}
        => record'[t].status # "pending"

\* Two calls that both decide a token overlapped each other: a decision made
\* after another one returned is refused, also when a reply was lost, the token
\* expired or cleanup ran in between.
DecisionsOverlap ==
    \A c, d \in Calls, t \in Tokens :
        c # d /\ Decided(c, t) /\ Decided(d, t) => d \in call[c].with

\* A decision stands until Valkey drops the record: only a call that overlapped
\* another one replaces it, marks it expired or cleans it up.
DecisionStands ==
    \A t \in Tokens :
        /\ record[t].status \in {"approved", "denied"}
        /\ record'[t].status # record[t].status
        => \/ KeyExpires(t)
           \/ \E c \in Calls : /\ call'[c] # call[c]
                                /\ call[c].token = t
                                /\ call[c].with # {}

\* What a decision is worth while calls overlap, replies are lost and keys
\* expire: it is not reopened, and it stands.
DecisionsKept == [][NeverReopened /\ DecisionStands]_vars
-----------------------------------------------------------------------------
(***************************************************************************)
(* Said of the code and not kept by it; each comment names the exception.  *)
(***************************************************************************)

\* At most one call decides a token (the 409 of approve and deny).  Except two
\* that overlap: both read the pending record before either writes.
TokenSingleUse ==
    \A t \in Tokens : Cardinality({c \in Calls : Decided(c, t)}) <= 1

\* The token is TTL-scoped: no call made after its expires_at decides it.
\* Except when no poll has set its status to expired yet.
DecidedBeforeExpiry ==
    \A c \in Calls, t \in Tokens : Decided(c, t) => t \notin call[c].now

\* Every record has an expiry, so that Valkey drops it in the end.  Except one
\* that a poll writes its status to after cleanup deleted the key.
RecordsHaveTtl == \A t \in Tokens : record[t] # Absent => record[t].ttl # None
=============================================================================
