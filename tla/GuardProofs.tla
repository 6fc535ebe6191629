----------------------------- MODULE GuardProofs ----------------------------
(***************************************************************************)
(* Proofs about what judges content: the approvals of tool calls, the tool *)
(* policies and the sanitizer of results, the gates of the firewall, its   *)
(* sliding window, its inline patterns, classification and DLP, and the    *)
(* detection of secrets in speech.                                         *)
(***************************************************************************)
EXTENDS ApprovalManager, ToolGovernance, ContentGuards, VoiceStream, ListProofs

-----------------------------------------------------------------------------
(***************************************************************************)
(* ApprovalManager, for any set of tokens, any number of calls and any     *)
(* number of them in progress.                                             *)
(***************************************************************************)

\* The records of the calls.
CallRecords ==
    [pc : Open \cup {"idle", "done"}, kind : Kinds \cup {None},
     token : Tokens \cup {None}, seen : Records, now : SUBSET Tokens,
     keys : SUBSET Tokens,
     answer : {None, "404", "409", "not_found", "pending", "approved", "denied",
               "expired", "deleted", "error"},
     with : SUBSET Calls]

CallsOK ==
    /\ record \in [Tokens -> Records]
    /\ expired \subseteq Tokens
    /\ call \in [Calls -> CallRecords]

\* Call c is about to write to token t what follows from a pending record.
Holds(c, t) == call[c].pc \in {"write", "delete"} /\ call[c].token = t

\* Two calls in progress know of each other.
OpenOverlap ==
    \A c, d \in Calls : c # d /\ call[c].pc \in Open /\ call[d].pc \in Open => d \in call[c].with

\* Only a call that ended has an answer.
AnswerEnds == \A c \in Calls : call[c].answer # None => call[c].pc = "done"

\* A token that a call decided is not pending any more.
DecidedNotPending == \A c \in Calls, t \in Tokens : Decided(c, t) => record[t].status # "pending"

\* A call that still is to decide a decided token overlapped the one that did.
LateOverlap ==
    \A c, d \in Calls, t \in Tokens :
        c # d /\ Decided(c, t) /\ Holds(d, t) => d \in call[c].with /\ c \in call[d].with

\* A call that holds a token which was decided meanwhile overlapped another.
HeldDecided ==
    \A c \in Calls, t \in Tokens :
        Holds(c, t) /\ record[t].status \in {"approved", "denied"} => call[c].with # {}

\* A call that reads or writes names a token.
NamesToken ==
    \A c \in Calls : call[c].pc \in {"read", "write", "delete"} => call[c].token \in Tokens

ApprovalInv ==
    /\ CallsOK /\ NamesToken /\ OpenOverlap /\ AnswerEnds /\ DecidedNotPending
    /\ LateOverlap /\ HeldDecided /\ DecisionsOverlap

-----------------------------------------------------------------------------
(***************************************************************************)
(* The kinds of steps.                                                     *)
(***************************************************************************)

\* A call in progress moves on: it takes up a token only when it read it
\* pending, and writes only to the token it holds.
LEMMA CallMoves ==
    ASSUME ApprovalInv, NEW c \in Calls, NEW n \in CallRecords,
           call[c].pc \in Open, call' = [call EXCEPT ![c] = n],
           n.with = call[c].with, n.answer # None => n.pc = "done",
           n.pc \in {"read", "write", "delete"} => n.token \in Tokens,
           record' \in [Tokens -> Records], expired' \subseteq Tokens,
           \A t \in Tokens :
              record'[t] = record[t] \/ (Holds(c, t) /\ record'[t].status # "pending"),
           \A t \in Tokens :
              /\ n.token = t /\ n.kind \in Decisions /\ n.answer \in {"approved", "denied"}
              => Holds(c, t) /\ record'[t].status # "pending",
           \A t \in Tokens :
              n.pc \in {"write", "delete"} /\ n.token = t
              => record'[t] = record[t] /\ record[t].status = "pending"
    PROVE  ApprovalInv'
<1>1. /\ call'[c] = n /\ \A d \in Calls : d # c => call'[d] = call[d]
      /\ call' \in [Calls -> CallRecords]
  BY DEF ApprovalInv, CallsOK
<1>2. CallsOK'
  BY <1>1 DEF CallsOK
<1>t. NamesToken'
  BY <1>1 DEF ApprovalInv, NamesToken
<1>3. OpenOverlap'
  BY <1>1 DEF ApprovalInv, OpenOverlap
<1>4. AnswerEnds'
  BY <1>1 DEF ApprovalInv, AnswerEnds
<1>5. \A d \in Calls, t \in Tokens : d # c => /\ Decided(d, t)' <=> Decided(d, t)
                                              /\ Holds(d, t)' <=> Holds(d, t)
  BY <1>1 DEF Decided, Holds
<1>6. \A t \in Tokens : Decided(c, t)' => Holds(c, t) /\ record'[t].status # "pending"
  BY <1>1 DEF Decided
<1>7. \A t \in Tokens : Holds(c, t)' => record'[t] = record[t] /\ record[t].status = "pending"
  BY <1>1 DEF Holds
<1>8. DecidedNotPending'
  BY <1>5, <1>6 DEF ApprovalInv, DecidedNotPending
<1>o. \A d \in Calls, t \in Tokens :
         d # c /\ Holds(c, t) /\ Holds(d, t) => c \in call[d].with /\ d \in call[c].with
  BY DEF ApprovalInv, OpenOverlap, Holds, Open
<1>9. LateOverlap'
  <2>1. SUFFICES ASSUME NEW e \in Calls, NEW d \in Calls, NEW t \in Tokens,
                        e # d, Decided(e, t)', Holds(d, t)'
                 PROVE  d \in call'[e].with /\ e \in call'[d].with
    BY DEF LateOverlap
  <2>2. CASE d = c
    <3>1. Decided(e, t) /\ record[t].status = "pending"
      BY <1>5, <1>7, <2>1, <2>2
    <3> QED BY <3>1 DEF ApprovalInv, DecidedNotPending
  <2>3. CASE d # c /\ e = c
    BY <1>1, <1>5, <1>6, <1>o, <2>1, <2>3
  <2>4. CASE d # c /\ e # c
    BY <1>1, <1>5, <2>1, <2>4 DEF ApprovalInv, LateOverlap
  <2> QED BY <2>2, <2>3, <2>4
<1>10. HeldDecided'
  <2>1. SUFFICES ASSUME NEW d \in Calls, NEW t \in Tokens, Holds(d, t)',
                        record'[t].status \in {"approved", "denied"}
                 PROVE  call'[d].with # {}
    BY DEF HeldDecided
  <2>2. d # c /\ Holds(d, t)
    BY <1>5, <1>7, <2>1
  <2>3. CASE record'[t] = record[t]
    BY <1>1, <2>1, <2>2, <2>3 DEF ApprovalInv, HeldDecided
  <2>4. CASE Holds(c, t)
    BY <1>1, <1>o, <2>2, <2>4
  <2> QED BY <2>3, <2>4
<1>11. DecisionsOverlap'
  <2>1. SUFFICES ASSUME NEW e \in Calls, NEW d \in Calls, NEW t \in Tokens,
                        e # d, Decided(e, t)', Decided(d, t)'
                 PROVE  d \in call'[e].with
    BY DEF DecisionsOverlap
  <2>2. CASE e = c \/ d = c
    BY <1>1, <1>5, <1>6, <2>1, <2>2 DEF ApprovalInv, LateOverlap
  <2>3. CASE e # c /\ d # c
    BY <1>1, <1>5, <2>1, <2>3 DEF ApprovalInv, DecisionsOverlap
  <2> QED BY <2>2, <2>3
<1> QED BY <1>2, <1>t, <1>3, <1>4, <1>8, <1>9, <1>10, <1>11 DEF ApprovalInv

\* A record is made, dropped or left: a record becomes pending only for a
\* token that no call has named.
LEMMA RecordMoves ==
    ASSUME ApprovalInv, call' = call, record' \in [Tokens -> Records],
           expired' \subseteq Tokens,
           \A t \in Tokens : \/ record'[t] = record[t]
                             \/ record'[t].status = None
                             \/ \A c \in Calls : call[c].token # t
    PROVE  ApprovalInv'
<1>1. /\ \A d \in Calls, t \in Tokens : /\ Decided(d, t)' <=> Decided(d, t)
                                        /\ Holds(d, t)' <=> Holds(d, t)
      /\ None \notin {"pending", "approved", "denied"}
  BY DEF Decided, Holds, None
<1>2. \A t \in Tokens : (\A c \in Calls : call[c].token # t)
         => \A c \in Calls : ~Decided(c, t) /\ ~Holds(c, t)
  BY DEF Decided, Holds
<1>3. CallsOK' /\ NamesToken' /\ OpenOverlap' /\ AnswerEnds'
  BY DEF ApprovalInv, CallsOK, NamesToken, OpenOverlap, AnswerEnds
<1>4. DecidedNotPending'
  BY <1>1, <1>2 DEF ApprovalInv, DecidedNotPending
<1>5. LateOverlap' /\ DecisionsOverlap'
  BY <1>1 DEF ApprovalInv, LateOverlap, DecisionsOverlap
<1>6. HeldDecided'
  BY <1>1, <1>2 DEF ApprovalInv, HeldDecided
<1> QED BY <1>3, <1>4, <1>5, <1>6 DEF ApprovalInv

\* A call begins and meets the ones in progress.
LEMMA CallBegins ==
    ASSUME ApprovalInv, NEW c \in Calls, NEW new \in CallRecords, call[c].pc = "idle",
           Begin(c, new), new.pc = "scan" \/ (new.pc = "read" /\ new.token \in Tokens), new.answer = None,
           UNCHANGED <<record, expired>>
    PROVE  ApprovalInv'
<1> DEFINE n == [new EXCEPT !.with = InProgress]
<1>1. n \in CallRecords /\ n.pc = new.pc /\ n.token = new.token /\ n.answer = None /\ n.with = InProgress
  BY DEF CallRecords, InProgress
<1>i. \A d \in Calls : d \in InProgress <=> call[d].pc \in Open
  BY DEF InProgress
<1>2. c \notin InProgress /\ call \in [Calls -> CallRecords]
  BY DEF InProgress, Open, ApprovalInv, CallsOK
<1>3. ASSUME NEW d \in InProgress
      PROVE  /\ d \in Calls /\ d # c /\ call'[d] \in CallRecords
             /\ call'[d].with = call[d].with \cup {c}
             /\ call'[d].pc = call[d].pc /\ call'[d].token = call[d].token
             /\ call'[d].answer = call[d].answer /\ call'[d].kind = call[d].kind
  <2>1. d \in Calls /\ d # c /\ call[d] \in CallRecords
    BY <1>2, <1>3 DEF InProgress
  <2>2. call'[d] = [call[d] EXCEPT !.with = @ \cup {c}]
    BY <2>1, <1>3 DEF Begin
  <2> QED BY <2>1, <2>2 DEF CallRecords
<1>4. ASSUME NEW d \in Calls, d # c, d \notin InProgress
      PROVE  call'[d] = call[d] /\ call'[d] \in CallRecords
  BY <1>2, <1>4 DEF Begin
<1>5. call'[c] = n
  BY <1>2 DEF Begin
<1> HIDE DEF n
<1>6. CallsOK'
  <2>1. \A d \in Calls : call'[d] \in CallRecords
    BY <1>1, <1>3, <1>4, <1>5
  <2>2. call' = [d \in Calls |-> call'[d]]
    BY DEF Begin
  <2>3. call' \in [Calls -> CallRecords]
    BY <2>1, <2>2
  <2> QED BY <2>3 DEF ApprovalInv, CallsOK
<1>7. OpenOverlap'
  <2>1. SUFFICES ASSUME NEW d \in Calls, NEW e \in Calls, d # e,
                        call'[d].pc \in Open, call'[e].pc \in Open
                 PROVE  e \in call'[d].with
    BY DEF OpenOverlap
  <2>2. \A x \in Calls : x # c /\ call'[x].pc \in Open => x \in InProgress
    BY <1>3, <1>4, <1>i
  <2>3. CASE d = c
    BY <1>1, <1>5, <2>1, <2>2, <2>3
  <2>4. CASE e = c
    BY <1>3, <2>1, <2>2, <2>4
  <2>5. CASE d # c /\ e # c
    <3>1. d \in InProgress /\ e \in InProgress
      BY <2>1, <2>2, <2>5
    <3>2. e \in call[d].with
      BY <1>i, <2>1, <3>1 DEF ApprovalInv, OpenOverlap
    <3> QED BY <1>3, <3>1, <3>2
  <2> QED BY <2>3, <2>4, <2>5
<1>8. \A d \in Calls : d # c => /\ call'[d].pc = call[d].pc /\ call'[d].token = call[d].token
                                /\ call'[d].answer = call[d].answer
                                /\ call'[d].kind = call[d].kind
                                /\ call[d].with \subseteq call'[d].with
  BY <1>3, <1>4
<1>t. NamesToken'
  BY <1>1, <1>5, <1>8 DEF ApprovalInv, NamesToken
<1>9. AnswerEnds'
  BY <1>1, <1>5, <1>8 DEF ApprovalInv, AnswerEnds
<1>10. \A d \in Calls, t \in Tokens :
          /\ Decided(d, t)' => d # c /\ Decided(d, t)
          /\ Holds(d, t)' => d # c /\ Holds(d, t)
  BY <1>1, <1>5, <1>8 DEF Decided, Holds, None
<1>11. DecidedNotPending'
  BY <1>10 DEF ApprovalInv, DecidedNotPending
<1>12. LateOverlap' /\ DecisionsOverlap'
  BY <1>8, <1>10 DEF ApprovalInv, LateOverlap, DecisionsOverlap
<1>13. HeldDecided'
  BY <1>8, <1>10 DEF ApprovalInv, HeldDecided
<1> QED BY <1>6, <1>7, <1>t, <1>9, <1>11, <1>12, <1>13 DEF ApprovalInv

-----------------------------------------------------------------------------
(***************************************************************************)
(* The actions.                                                            *)
(***************************************************************************)

\* A call in progress ends.
LEMMA AnswerMoves ==
    ASSUME CallsOK, NEW c \in Calls,
           NEW a \in {"404", "409", "not_found", "pending", "approved", "denied",
                      "expired", "deleted", "error", None},
           call' = Answer(c, a)
    PROVE  \E n \in CallRecords :
              /\ call' = [call EXCEPT ![c] = n]
              /\ n.pc = "done" /\ n.answer = a /\ n.with = call[c].with
              /\ n.token = call[c].token /\ n.kind = call[c].kind
<1>1. call[c] \in CallRecords /\ Absent \in Records
  BY DEF CallsOK, Absent, Records, None
<1> DEFINE n == [call[c] EXCEPT !.pc = "done", !.answer = a, !.seen = Absent, !.keys = {}]
<1>2. call' = [call EXCEPT ![c] = n]
  BY <1>1 DEF Answer, CallsOK
<1>3. n \in CallRecords
  BY <1>1 DEF CallRecords
<1>4. /\ n.pc = "done" /\ n.answer = a /\ n.with = call[c].with
      /\ n.token = call[c].token /\ n.kind = call[c].kind
  BY <1>1 DEF CallRecords
<1> HIDE DEF n
<1> QED BY <1>2, <1>3, <1>4

\* A call that ends without a decision and without a write.
LEMMA Refused ==
    ASSUME ApprovalInv, NEW c \in Calls, call[c].pc \in Open,
           NEW a \in {"404", "409", "not_found", "pending", "approved", "denied",
                      "expired", "deleted", "error", None},
           call[c].kind \in Decisions => a \notin {"approved", "denied"},
           call' = Answer(c, a), UNCHANGED <<record, expired>>
    PROVE  ApprovalInv'
<1>1. PICK n \in CallRecords :
              /\ call' = [call EXCEPT ![c] = n]
              /\ n.pc = "done" /\ n.answer = a /\ n.with = call[c].with
              /\ n.token = call[c].token /\ n.kind = call[c].kind
  BY AnswerMoves DEF ApprovalInv
<1>2. record' \in [Tokens -> Records] /\ expired' \subseteq Tokens
  BY DEF ApprovalInv, CallsOK
<1> QED BY <1>1, <1>2, CallMoves

\* A call that ends with a write to the token it holds.
LEMMA Wrote ==
    ASSUME ApprovalInv, NEW c \in Calls, call[c].pc = "write",
           NEW a \in {"approved", "denied", "expired", "error"},
           NEW v \in Records, v.status # "pending",
           call' = Answer(c, a), UNCHANGED expired,
           record' = [record EXCEPT ![call[c].token] = v]
    PROVE  ApprovalInv'
<1>1. PICK n \in CallRecords :
              /\ call' = [call EXCEPT ![c] = n]
              /\ n.pc = "done" /\ n.answer = a /\ n.with = call[c].with
              /\ n.token = call[c].token /\ n.kind = call[c].kind
  BY AnswerMoves DEF ApprovalInv
<1>2. /\ record' \in [Tokens -> Records] /\ expired' \subseteq Tokens
      /\ \A t \in Tokens : record'[t] = IF t = call[c].token THEN v ELSE record[t]
  BY DEF ApprovalInv, CallsOK
<1>3. \A t \in Tokens : t = call[c].token <=> Holds(c, t)
  BY DEF Holds
<1>4. call[c].pc \in Open
  BY DEF Open
<1> QED BY <1>1, <1>2, <1>3, <1>4, CallMoves, ZenonT(60)

\* What the writes put into a record.
LEMMA WrittenRecords ==
    /\ \A k : /\ [status |-> Resolved(k), full |-> TRUE, ttl |-> "short"] \in Records
              /\ [status |-> Resolved(k), full |-> TRUE, ttl |-> "short"].status # "pending"
              /\ Resolved(k) \in {"approved", "denied"}
    /\ \A now \in Records : \A seen : /\ MarkExpired(now, seen) \in Records
                                      /\ MarkExpired(now, seen).status = "expired"
    /\ Absent \in Records /\ Absent.status = None /\ None # "pending"
BY DEF Resolved, MarkExpired, Records, Absent, None

\* A call takes up the token it read.
LEMMA TakesUp ==
    ASSUME ApprovalInv, NEW c \in Calls, NEW t \in Tokens, call[c].pc \in {"read", "scan"},
           record[t].status = "pending", NEW pc \in {"write", "delete"}, NEW s \in Records,
           call' = [call EXCEPT ![c] = [call[c] EXCEPT !.pc = pc, !.token = t, !.seen = s]],
           UNCHANGED <<record, expired>>
    PROVE  ApprovalInv'
<1> DEFINE n == [call[c] EXCEPT !.pc = pc, !.token = t, !.seen = s]
<1>1. call[c] \in CallRecords /\ call[c].pc \in Open
  BY DEF ApprovalInv, CallsOK, Open
<1>2. n \in CallRecords
  BY <1>1 DEF CallRecords, Open
<1>3. /\ n.pc = pc /\ n.token = t /\ n.with = call[c].with /\ n.answer = call[c].answer
      /\ n.kind = call[c].kind
  BY <1>1 DEF CallRecords
<1>4. call[c].answer = None
  BY DEF ApprovalInv, AnswerEnds
<1>5. record' \in [Tokens -> Records] /\ expired' \subseteq Tokens
  BY DEF ApprovalInv, CallsOK
<1>6. call' = [call EXCEPT ![c] = n]
  OBVIOUS
<1> HIDE DEF n
<1>7. n.answer = None /\ None \notin {"approved", "denied"}
  BY <1>3, <1>4 DEF None
<1>8. \A u \in Tokens : record'[u] = record[u]
  OBVIOUS
<1>9. \A u \in Tokens : n.pc \in {"write", "delete"} /\ n.token = u
                          => record'[u] = record[u] /\ record[u].status = "pending"
  BY <1>3
<1>10. \A u \in Tokens :
          ~(n.token = u /\ n.kind \in Decisions /\ n.answer \in {"approved", "denied"})
  BY <1>7
<1> QED BY <1>1, <1>2, <1>3, <1>5, <1>6, <1>7, <1>8, <1>9, <1>10, CallMoves

\* approve_approval and deny_approval read the record.
LEMMA ReadForDecisionInv ==
    ASSUME ApprovalInv, NEW c \in Calls, ReadForDecision(c) PROVE ApprovalInv'
<1> DEFINE t == call[c].token
<1>1. /\ call[c] \in CallRecords /\ call \in [Calls -> CallRecords] /\ call[c].pc = "read"
      /\ call[c].pc \in Open /\ t \in Tokens /\ record[t] \in Records
  BY DEF ApprovalInv, CallsOK, NamesToken, ReadForDecision, Open
<1>2. UNCHANGED <<record, expired>>
  BY DEF ReadForDecision
<1>3. CASE record[t] # Absent /\ Decidable(record[t])
  <2>1. call' = [call EXCEPT ![c].pc = "write", ![c].seen = record[t]]
    BY <1>3 DEF ReadForDecision
  <2>2. call' = [call EXCEPT ![c] = [call[c] EXCEPT !.pc = "write", !.token = t,
                                                    !.seen = record[t]]]
    BY <1>1, <2>1 DEF CallRecords
  <2>3. record[t].status = "pending"
    BY <1>3 DEF Decidable
  <2> QED BY <1>1, <1>2, <2>2, <2>3, TakesUp
<1>4. CASE record[t] = Absent \/ ~Decidable(record[t])
  <2>1. call' = Answer(c, "404") \/ call' = Answer(c, "409")
    BY <1>4 DEF ReadForDecision
  <2> QED BY <1>1, <1>2, <2>1, Refused
<1> QED BY <1>3, <1>4

\* get_approval_status reads the record.
LEMMA ReadForPollInv ==
    ASSUME ApprovalInv, NEW c \in Calls, ReadForPoll(c) PROVE ApprovalInv'
<1> DEFINE t == call[c].token
<1>1. /\ call[c] \in CallRecords /\ call \in [Calls -> CallRecords] /\ call[c].pc = "read"
      /\ call[c].pc \in Open /\ t \in Tokens /\ record[t] \in Records
  BY DEF ApprovalInv, CallsOK, NamesToken, ReadForPoll, Open
<1>2. UNCHANGED <<record, expired>> /\ call[c].kind \notin Decisions
  BY DEF ReadForPoll, Decisions
<1>3. CASE record[t] # Absent /\ Overdue(t, record[t])
  <2>1. call' = [call EXCEPT ![c].pc = "write", ![c].seen = record[t]]
    BY <1>3 DEF ReadForPoll
  <2>2. call' = [call EXCEPT ![c] = [call[c] EXCEPT !.pc = "write", !.token = t,
                                                    !.seen = record[t]]]
    BY <1>1, <2>1 DEF CallRecords
  <2>3. record[t].status = "pending"
    BY <1>3 DEF Overdue
  <2> QED BY <1>1, <1>2, <2>2, <2>3, TakesUp
<1>4. CASE record[t] = Absent \/ ~Overdue(t, record[t])
  <2>1. call' = Answer(c, "not_found") \/ call' = Answer(c, record[t].status)
    BY <1>4 DEF ReadForPoll
  <2>2. record[t].status \in {None, "pending", "approved", "denied", "expired"}
    BY <1>1 DEF Records
  <2> QED BY <1>1, <1>2, <2>1, <2>2, Refused
<1> QED BY <1>3, <1>4

\* cleanup_expired reads one key.
LEMMA VisitInv ==
    ASSUME ApprovalInv, NEW c \in Calls, NEW t \in Tokens, Visit(c, t) PROVE ApprovalInv'
<1>1. /\ call[c] \in CallRecords /\ call \in [Calls -> CallRecords] /\ call[c].pc = "scan"
      /\ call[c].pc \in Open
  BY DEF ApprovalInv, CallsOK, Visit, Open
<1>2. UNCHANGED <<record, expired>>
  BY DEF Visit
<1>3. CASE call' = [call EXCEPT ![c].pc = "delete", ![c].token = t] /\ record[t].status = "pending"
  <2>1. call[c].seen \in Records
    BY <1>1 DEF CallRecords
  <2>2. call' = [call EXCEPT ![c] = [call[c] EXCEPT !.pc = "delete", !.token = t,
                                                    !.seen = call[c].seen]]
    BY <1>1, <1>3 DEF CallRecords
  <2>3. record[t].status = "pending" /\ call[c].pc \in {"read", "scan"}
    BY <1>1, <1>3
  <2> QED BY <1>2, <2>1, <2>2, <2>3, TakesUp
<1>4. CASE call' = [call EXCEPT ![c].keys = @ \ {t}]
  <2> DEFINE n == [call[c] EXCEPT !.keys = @ \ {t}]
  <2>1. call' = [call EXCEPT ![c] = n]
    BY <1>1, <1>4
  <2>2. n \in CallRecords
    BY <1>1 DEF CallRecords
  <2>3. n.pc = "scan" /\ n.with = call[c].with /\ n.answer = call[c].answer
    BY <1>1 DEF CallRecords
  <2> HIDE DEF n
  <2>4. n.answer = None /\ None \notin {"approved", "denied"}
    BY <1>1, <2>3 DEF ApprovalInv, AnswerEnds, None
  <2>5. record' \in [Tokens -> Records] /\ expired' \subseteq Tokens
    BY <1>2 DEF ApprovalInv, CallsOK
  <2>6. \A u \in Tokens : record'[u] = record[u]
    BY <1>2
  <2>7. \A u \in Tokens :
          ~(n.token = u /\ n.kind \in Decisions /\ n.answer \in {"approved", "denied"})
    BY <2>4
  <2>8. \A u \in Tokens : ~(n.pc \in {"write", "delete"} /\ n.token = u)
    BY <2>3
  <2> QED BY <1>1, <2>1, <2>2, <2>3, <2>4, <2>5, <2>6, <2>7, <2>8, CallMoves
<1> QED BY <1>3, <1>4 DEF Visit

\* cleanup_expired deletes the key it read.
LEMMA DeleteKeyInv ==
    ASSUME ApprovalInv, NEW c \in Calls, DeleteKey(c) PROVE ApprovalInv'
<1> DEFINE n == [call[c] EXCEPT !.pc = "scan", !.keys = @ \ {call[c].token}, !.token = None]
<1>1. /\ call[c] \in CallRecords /\ call \in [Calls -> CallRecords] /\ call[c].pc = "delete"
      /\ call[c].pc \in Open /\ call[c].token \in Tokens
  BY DEF ApprovalInv, CallsOK, NamesToken, DeleteKey, Open
<1>2. call' = [call EXCEPT ![c] = n]
  BY <1>1 DEF DeleteKey
<1>3. n \in CallRecords
  BY <1>1 DEF CallRecords, Open
<1>4. n.pc = "scan" /\ n.with = call[c].with /\ n.answer = call[c].answer
  BY <1>1 DEF CallRecords
<1> HIDE DEF n
<1>5. n.answer = None /\ None \notin {"approved", "denied"}
  BY <1>1, <1>4 DEF ApprovalInv, AnswerEnds, None
<1>6. /\ record' \in [Tokens -> Records] /\ expired' \subseteq Tokens
      /\ \A t \in Tokens : record'[t] = IF t = call[c].token THEN Absent ELSE record[t]
  BY WrittenRecords DEF ApprovalInv, CallsOK, DeleteKey
<1>7. \A t \in Tokens : record'[t] = record[t] \/ (Holds(c, t) /\ record'[t].status # "pending")
  BY <1>1, <1>6, WrittenRecords DEF Holds
<1>8. \A u \in Tokens :
          ~(n.token = u /\ n.kind \in Decisions /\ n.answer \in {"approved", "denied"})
  BY <1>5
<1>9. \A u \in Tokens : ~(n.pc \in {"write", "delete"} /\ n.token = u)
  BY <1>4
<1> QED BY <1>1, <1>2, <1>3, <1>4, <1>5, <1>6, <1>7, <1>8, <1>9, CallMoves

\* A call starts.
LEMMA StartInv ==
    ASSUME ApprovalInv, NEW c \in Calls, Start(c) PROVE ApprovalInv'
<1>1. /\ call[c] \in CallRecords /\ call[c].pc = "idle" /\ call[c].answer = None
      /\ expired \subseteq Tokens /\ UNCHANGED <<record, expired>>
  BY DEF ApprovalInv, CallsOK, AnswerEnds, Start
<1>2. ASSUME NEW kind \in Kinds \ {"cleanup"}, NEW t \in Tokens,
             Begin(c, [call[c] EXCEPT !.pc = "read", !.kind = kind,
                                      !.token = t, !.now = expired])
      PROVE  ApprovalInv'
  <2> DEFINE n == [call[c] EXCEPT !.pc = "read", !.kind = kind, !.token = t, !.now = expired]
  <2>1. n \in CallRecords
    BY <1>1 DEF CallRecords, Open
  <2>2. n.pc = "read" /\ n.token = t /\ n.answer = None
    BY <1>1 DEF CallRecords
  <2>3. Begin(c, n)
    BY <1>2
  <2> HIDE DEF n
  <2> QED BY <1>1, <2>1, <2>2, <2>3, CallBegins
<1>3. ASSUME Begin(c, [call[c] EXCEPT !.pc = "scan", !.kind = "cleanup", !.now = expired,
                                   !.keys = {t \in Tokens : record[t] # Absent}])
      PROVE  ApprovalInv'
  <2> DEFINE k == {t \in Tokens : record[t] # Absent}
             n == [call[c] EXCEPT !.pc = "scan", !.kind = "cleanup", !.now = expired, !.keys = k]
  <2>k. k \in SUBSET Tokens /\ Begin(c, n)
    BY <1>3
  <2> HIDE DEF k
  <2>1. n \in CallRecords
    BY <1>1, <2>k DEF CallRecords, Open, Kinds
  <2>2. n.pc = "scan" /\ n.answer = None
    BY <1>1 DEF CallRecords
  <2>3. Begin(c, n)
    BY <2>k
  <2> HIDE DEF n
  <2> QED BY <1>1, <2>1, <2>2, <2>3, CallBegins
<1> QED BY <1>2, <1>3 DEF Start

\* The decision is written.
LEMMA WriteDecisionInv ==
    ASSUME ApprovalInv, NEW c \in Calls, WriteDecision(c) PROVE ApprovalInv'
BY WrittenRecords, Wrote DEF WriteDecision

\* The status alone is written.
LEMMA WriteExpiredInv ==
    ASSUME ApprovalInv, NEW c \in Calls, WriteExpired(c) PROVE ApprovalInv'
<1> DEFINE v == MarkExpired(record[call[c].token], call[c].seen)
<1>1. call[c].pc = "write" /\ call[c].token \in Tokens /\ record[call[c].token] \in Records
  BY DEF ApprovalInv, CallsOK, NamesToken, WriteExpired
<1>2. v \in Records /\ v.status # "pending"
  BY <1>1, WrittenRecords
<1>3. /\ record' = [record EXCEPT ![call[c].token] = v]
      /\ call' = Answer(c, "expired") /\ UNCHANGED expired
  BY <1>1 DEF WriteExpired, ApprovalInv, CallsOK
<1> HIDE DEF v
<1> QED BY <1>1, <1>2, <1>3, Wrote

\* A write whose reply is lost.
LEMMA LoseReplyInv ==
    ASSUME ApprovalInv, NEW c \in Calls, LoseReply(c) PROVE ApprovalInv'
<1> DEFINE v == IF call[c].kind = "poll" THEN MarkExpired(record[call[c].token], call[c].seen)
                ELSE [status |-> Resolved(call[c].kind), full |-> TRUE, ttl |-> "short"]
<1>1. call[c].pc = "write" /\ call[c].token \in Tokens /\ record[call[c].token] \in Records
  BY DEF ApprovalInv, CallsOK, NamesToken, LoseReply
<1>2. v \in Records /\ v.status # "pending"
  <2>1. CASE call[c].kind = "poll"
    BY <1>1, <2>1, WrittenRecords
  <2>2. CASE call[c].kind # "poll"
    BY <2>2, WrittenRecords
  <2> QED BY <2>1, <2>2
<1>3. /\ record' = [record EXCEPT ![call[c].token] = v]
      /\ call' = Answer(c, "error") /\ UNCHANGED expired
  BY <1>1 DEF LoseReply, ApprovalInv, CallsOK
<1> HIDE DEF v
<1> QED BY <1>1, <1>2, <1>3, Wrote

\* A record is made for a token that no call has named.
LEMMA CreateApprovalInv ==
    ASSUME ApprovalInv, NEW t \in Tokens, CreateApproval(t) PROVE ApprovalInv'
<1> DEFINE v == [status |-> "pending", full |-> TRUE, ttl |-> "long"]
<1>1. v \in Records
  BY DEF Records
<1>2. \A c \in Calls : call[c].token # t
  BY DEF CreateApproval, Known
<1>3. /\ record' = [record EXCEPT ![t] = v] /\ record \in [Tokens -> Records]
      /\ call' = call /\ expired' \subseteq Tokens
  BY DEF CreateApproval, ApprovalInv, CallsOK
<1> HIDE DEF v
<1>4. record' \in [Tokens -> Records] /\ \A u \in Tokens : u # t => record'[u] = record[u]
  BY <1>1, <1>3
<1> QED BY <1>2, <1>3, <1>4, RecordMoves

\* Time passes: for the record, or for the key.
LEMMA ClockInv ==
    ASSUME ApprovalInv, NEW t \in Tokens, Overrun(t) \/ KeyExpires(t) PROVE ApprovalInv'
<1>1. /\ record' \in [Tokens -> Records] /\ expired' \subseteq Tokens /\ call' = call
      /\ \A u \in Tokens : record'[u] = record[u] \/ record'[u] = Absent
  BY WrittenRecords DEF Overrun, KeyExpires, ApprovalInv, CallsOK
<1> QED BY <1>1, WrittenRecords, RecordMoves

\* A call in progress fails, or cleanup is through with its keys.
LEMMA EndInv ==
    ASSUME ApprovalInv, NEW c \in Calls, Fail(c) \/ ScanEnds(c) PROVE ApprovalInv'
<1>1. CASE Fail(c)
  BY <1>1, Refused DEF Fail
<1>2. CASE ScanEnds(c)
  BY <1>2, Refused DEF ScanEnds, Open
<1> QED BY <1>1, <1>2

\* Every step keeps the invariant.
LEMMA StepInv == ApprovalInv /\ [Next]_vars => ApprovalInv'
<1> SUFFICES ASSUME ApprovalInv, [Next]_vars PROVE ApprovalInv'
  OBVIOUS
<1>1. ASSUME NEW c \in Calls, Step(c) PROVE ApprovalInv'
  <2>1. ASSUME NEW t \in Tokens, Visit(c, t) PROVE ApprovalInv'
    BY <2>1, VisitInv
  <2> QED
    BY <1>1, <2>1, StartInv, ReadForDecisionInv, WriteDecisionInv, ReadForPollInv,
       WriteExpiredInv, DeleteKeyInv, EndInv, LoseReplyInv DEF Step
<1>2. ASSUME NEW t \in Tokens, CreateApproval(t) \/ Overrun(t) \/ KeyExpires(t)
      PROVE  ApprovalInv'
  BY <1>2, CreateApprovalInv, ClockInv
<1>3. CASE UNCHANGED vars
  <2>1. \A t \in Tokens : record'[t] = record[t]
    BY <1>3 DEF vars
  <2>2. record' \in [Tokens -> Records] /\ expired' \subseteq Tokens /\ call' = call
    BY <1>3 DEF vars, ApprovalInv, CallsOK
  <2> QED BY <2>1, <2>2, RecordMoves
<1>4. CASE Next
  BY <1>1, <1>2, <1>3, <1>4 DEF Next, Done
<1> QED BY <1>3, <1>4

\* Before the first call nothing is decided.
LEMMA InitInv == Init => ApprovalInv
<1> SUFFICES ASSUME Init PROVE ApprovalInv
  OBVIOUS
<1>1. \A c \in Calls : /\ call[c].pc = "idle" /\ call[c].answer = None /\ call[c].with = {}
                       /\ call[c] \in CallRecords
  BY DEF Init, CallRecords, Records, Absent, None
<1>2. CallsOK
  BY <1>1, WrittenRecords DEF Init, CallsOK
<1>3. \A c \in Calls, t \in Tokens : ~Decided(c, t) /\ ~Holds(c, t)
  BY <1>1 DEF Decided, Holds, None
<1>4. NamesToken /\ OpenOverlap /\ AnswerEnds
  BY <1>1 DEF NamesToken, OpenOverlap, AnswerEnds, Open
<1> QED BY <1>2, <1>3, <1>4
        DEF ApprovalInv, DecidedNotPending, LateOverlap, HeldDecided, DecisionsOverlap

-----------------------------------------------------------------------------
(***************************************************************************)
(* The theorems.                                                           *)
(***************************************************************************)

\* What relates the records, the calls that hold one and the calls that
\* decided one, in every state.
THEOREM ApprovalInvariant == Spec => []ApprovalInv
BY InitInv, StepInv, PTL DEF Spec

\* The records and the calls have their types.
THEOREM ApprovalTypeCorrect == Spec => []TypeOK
<1>1. ApprovalInv => TypeOK
  BY DEF ApprovalInv, CallsOK, CallRecords, TypeOK
<1> QED BY <1>1, ApprovalInvariant, PTL

\* Two calls that both decide a token overlapped each other, whatever expires,
\* fails or is cleaned up in between: approve and deny refuse the others.
THEOREM DecidersOverlap == Spec => []DecisionsOverlap
<1>1. ApprovalInv => DecisionsOverlap
  BY DEF ApprovalInv
<1> QED BY <1>1, ApprovalInvariant, PTL

\* A step that writes to a token is a call's that holds it, or the clock's.
LEMMA WhoWrites ==
    ASSUME ApprovalInv, Next, NEW t \in Tokens, record'[t] # record[t]
    PROVE  \/ CreateApproval(t)
           \/ KeyExpires(t)
           \/ /\ record'[t].status # "pending"
              /\ \E c \in Calls : Holds(c, t) /\ call'[c].pc # call[c].pc
<1>t. record \in [Tokens -> Records] /\ call \in [Calls -> CallRecords]
  BY DEF ApprovalInv, CallsOK
<1>1. ASSUME NEW u \in Tokens, CreateApproval(u) \/ Overrun(u) \/ KeyExpires(u)
      PROVE  CreateApproval(t) \/ KeyExpires(t)
  <2>1. CASE u = t
    BY <1>1, <2>1 DEF Overrun
  <2>2. CASE u # t
    BY <1>t, <1>1, <2>2 DEF CreateApproval, Overrun, KeyExpires
  <2> QED BY <2>1, <2>2
<1>2. ASSUME NEW c \in Calls, WriteDecision(c) \/ WriteExpired(c) \/ LoseReply(c) \/ DeleteKey(c)
      PROVE  record'[t].status # "pending" /\ Holds(c, t) /\ call'[c].pc # call[c].pc
  <2>1. /\ call[c].pc \in {"write", "delete"} /\ call[c].token \in Tokens
        /\ record[call[c].token] \in Records
    BY <1>t, <1>2 DEF WriteDecision, WriteExpired, LoseReply, DeleteKey, ApprovalInv, NamesToken
  <2>2. call[c].token = t
    BY <1>t, <1>2, <2>1 DEF WriteDecision, WriteExpired, LoseReply, DeleteKey
  <2>3. Holds(c, t)
    BY <2>1, <2>2 DEF Holds
  <2>4. call'[c].pc \in {"done", "scan"}
    BY <1>t, <1>2 DEF WriteDecision, WriteExpired, LoseReply, DeleteKey, Answer, CallRecords
  <2>5. record'[t].status # "pending"
    BY <1>t, <1>2, <2>1, <2>2, WrittenRecords
    DEF WriteDecision, WriteExpired, LoseReply, DeleteKey
  <2> QED BY <2>1, <2>3, <2>4, <2>5
<1>3. ASSUME NEW c \in Calls, Step(c)
      PROVE  WriteDecision(c) \/ WriteExpired(c) \/ LoseReply(c) \/ DeleteKey(c)
  BY <1>3 DEF Step, Start, ReadForDecision, ReadForPoll, Visit, ScanEnds, Fail
<1>4. CASE Done
  BY <1>4 DEF Done, vars
<1> QED BY <1>1, <1>2, <1>3, <1>4 DEF Next

\* A resolved token is never pending again, and a decision stands until Valkey
\* drops the record: only a call that overlapped another one replaces it.
THEOREM DecisionsAreKept == Spec => DecisionsKept
<1>1. ASSUME ApprovalInv, Next PROVE NeverReopened /\ DecisionStands
  <2>1. ASSUME NEW t \in Tokens, record'[t] # record[t], record[t].status # None,
               ~KeyExpires(t)
        PROVE  /\ record'[t].status # "pending"
               /\ \E c \in Calls : Holds(c, t) /\ call'[c].pc # call[c].pc
    <3>1. ~CreateApproval(t)
      BY <2>1, WrittenRecords DEF CreateApproval, Known
    <3> QED BY <1>1, <2>1, <3>1, WhoWrites
  <2>2. ASSUME NEW t \in Tokens, KeyExpires(t) PROVE record'[t].status # "pending"
    BY <1>1, <2>2, WrittenRecords DEF KeyExpires, ApprovalInv, CallsOK
  <2>3. NeverReopened
    <3>1. SUFFICES ASSUME NEW t \in Tokens, record[t].status \in {"approved", "denied", "expired"}
                   PROVE  record'[t].status # "pending"
      BY DEF NeverReopened
    <3> QED BY <2>1, <2>2, <3>1 DEF None
  <2>4. DecisionStands
    <3>1. SUFFICES ASSUME NEW t \in Tokens, record[t].status \in {"approved", "denied"},
                          record'[t].status # record[t].status, ~KeyExpires(t)
                   PROVE  \E c \in Calls : /\ call'[c] # call[c]
                                           /\ call[c].token = t
                                           /\ call[c].with # {}
      BY DEF DecisionStands
    <3>2. PICK c \in Calls : Holds(c, t) /\ call'[c].pc # call[c].pc
      BY <2>1, <3>1 DEF None
    <3>3. call[c].with # {}
      BY <1>1, <3>1, <3>2 DEF ApprovalInv, HeldDecided
    <3> QED BY <3>2, <3>3 DEF Holds
  <2> QED BY <2>3, <2>4
<1>2. ApprovalInv /\ [Next]_vars => [NeverReopened /\ DecisionStands]_vars
  BY <1>1
<1> QED BY <1>2, ApprovalInvariant, PTL DEF Spec, DecisionsKept

-----------------------------------------------------------------------------
(***************************************************************************)
(* ToolGovernance, for any documents, requests, results and sanitizer      *)
(* calls, and any number of reloads.                                       *)
(***************************************************************************)

\* The policies are the entries of the document in force.
PoliciesInForce ==
    inForce # "partial" =>
        /\ \A i \in DOMAIN inForce :
              inForce[i].provider \in DOMAIN policies /\ policies[inForce[i].provider] = inForce[i]
        /\ \A p \in DOMAIN policies : \E i \in DOMAIN inForce : inForce[i].provider = p
        /\ \A i \in DOMAIN inForce : DOMAIN inForce[i].rules \subseteq Nat

\* The last answer, of the stage or of the evaluator, is the one the policies
\* give.
AnsweredByPolicies ==
    /\ last.kind = "stage" => last.seen \in Bodies /\ last.answer = StageAnswer(last.seen)
    /\ last.kind = "evaluated" =>
          last.answer = Evaluate(last.seen.provider, last.seen.domain, last.seen.call)

JudgeInv == PoliciesInForce /\ AnsweredByPolicies

\* Before the first document there are no policies.
LEMMA ToolInitJudge == ToolInit => JudgeInv
BY DEF ToolInit, JudgeInv, PoliciesInForce, AnsweredByPolicies, Nothing

\* An accepted document replaces all policies by its entries.
LEMMA LoadPolicyInv ==
    ASSUME NEW doc \in Documents, LoadPolicy(doc) PROVE JudgeInv'
<1>1. AnsweredByPolicies'
  BY DEF LoadPolicy, AnsweredByPolicies, Nothing
<1>2. CASE Accepted(doc) = DOMAIN doc
  <2>1. inForce' = doc /\ policies' = Parsed(doc)
    BY <1>2 DEF LoadPolicy
  <2>2. \A i \in DOMAIN doc : (CHOOSE j \in Accepted(doc) : doc[j].provider = doc[i].provider) = i
    BY <1>2, ToolAssumption
  <2>3. DOMAIN Parsed(doc) = {doc[i].provider : i \in DOMAIN doc}
    BY <1>2 DEF Parsed
  <2>4. \A i \in DOMAIN doc : Parsed(doc)[doc[i].provider] = doc[i]
    BY <1>2, <2>2 DEF Parsed
  <2>5. PoliciesInForce'
    BY <2>1, <2>3, <2>4, ToolAssumption DEF PoliciesInForce
  <2> QED BY <1>1, <2>5 DEF JudgeInv
<1>3. CASE Accepted(doc) # DOMAIN doc
  <2>1. PoliciesInForce'
    BY <1>3 DEF LoadPolicy, PoliciesInForce
  <2> QED BY <1>1, <2>1 DEF JudgeInv
<1> QED BY <1>2, <1>3

\* A step that leaves the policies gives the answers they give.
LEMMA StageAnswerStable ==
    ASSUME policies' = policies, NEW body PROVE StageAnswer(body)' = StageAnswer(body)
BY DEF StageAnswer, Judged, Evaluate, GetPolicy, RiskLevel, ExtractedCalls

\* Judging, sanitizing and rest keep what the policies say.
LEMMA JudgeStep ==
    ASSUME JudgeInv, [ToolNext]_toolVars PROVE JudgeInv'
<1>1. ASSUME NEW doc \in Documents, LoadPolicy(doc) PROVE JudgeInv'
  BY <1>1, LoadPolicyInv
<1>2. ASSUME UNCHANGED <<policies, inForce>>,
             \/ last' = last
             \/ last'.kind \notin {"stage", "evaluated"}
             \/ last'.kind = "stage" /\ last'.seen \in Bodies /\ last'.answer = StageAnswer(last'.seen)
             \/ /\ last'.kind = "evaluated"
                /\ last'.answer = Evaluate(last'.seen.provider, last'.seen.domain, last'.seen.call)
      PROVE  JudgeInv'
  <2>1. PoliciesInForce'
    BY <1>2 DEF JudgeInv, PoliciesInForce
  <2>2. ASSUME last'.kind = "stage"
        PROVE  last'.seen \in Bodies /\ last'.answer = StageAnswer(last'.seen)
    BY <1>2, <2>2 DEF JudgeInv, AnsweredByPolicies
  <2>3. ASSUME NEW body \in Bodies PROVE StageAnswer(body)' = StageAnswer(body)
    BY <1>2, StageAnswerStable
  <2>4. PICK seen : seen = last'.seen
    OBVIOUS
  <2>5. last'.kind = "stage" => seen \in Bodies /\ last'.answer = StageAnswer(seen)'
    BY <2>2, <2>3, <2>4
  <2>7. ASSUME last'.kind = "evaluated"
        PROVE  last'.answer = Evaluate(last'.seen.provider, last'.seen.domain, last'.seen.call)
    BY <1>2, <2>7 DEF JudgeInv, AnsweredByPolicies
  <2>8. ASSUME NEW p, NEW d, NEW c PROVE Evaluate(p, d, c)' = Evaluate(p, d, c)
    BY <1>2 DEF Evaluate, GetPolicy, RiskLevel
  <2>9. PICK p, d, c : p = last'.seen.provider /\ d = last'.seen.domain /\ c = last'.seen.call
    OBVIOUS
  <2>10. last'.kind = "evaluated" => last'.answer = Evaluate(p, d, c)'
    BY <2>7, <2>8, <2>9
  <2>6. AnsweredByPolicies'
    BY <2>4, <2>5, <2>9, <2>10 DEF AnsweredByPolicies
  <2> QED BY <2>1, <2>6 DEF JudgeInv
<1>3. ASSUME NEW body \in Bodies, Stage(body) PROVE JudgeInv'
  <2>1. last'.kind = "stage" /\ last'.seen = body /\ last'.answer = StageAnswer(body)
    BY <1>3 DEF Stage
  <2>2. UNCHANGED <<policies, inForce>>
    BY <1>3 DEF Stage
  <2> QED BY <1>2, <2>1, <2>2
<1>10. ASSUME NEW j \in NamedCalls, EvaluateCall(j) PROVE JudgeInv'
  <2>1. /\ last'.kind = "evaluated" /\ last'.seen = j
        /\ last'.answer = Evaluate(j.provider, j.domain, j.call)
    BY <1>10 DEF EvaluateCall
  <2>2. UNCHANGED <<policies, inForce>>
    BY <1>10 DEF EvaluateCall
  <2>3. last'.answer = Evaluate(last'.seen.provider, last'.seen.domain, last'.seen.call)
    BY <2>1
  <2> QED BY <1>2, <2>1, <2>2, <2>3
<1>4. ASSUME NEW m \in ToolMessages, InspectMcp(m) PROVE JudgeInv'
  <2>1. last'.kind = "mcp" /\ UNCHANGED <<policies, inForce>>
    BY <1>4 DEF InspectMcp
  <2> QED BY <1>2, <2>1
<1>5. ASSUME NEW c \in AgentCalls, InspectAgentCall(c) PROVE JudgeInv'
  <2>1. last'.kind = "call" /\ UNCHANGED <<policies, inForce>>
    BY <1>5 DEF InspectAgentCall
  <2> QED BY <1>2, <2>1
<1>6. ASSUME NEW f \in Findings, InspectResult(f) PROVE JudgeInv'
  <2>1. last'.kind = "result" /\ UNCHANGED <<policies, inForce>>
    BY <1>6 DEF InspectResult
  <2> QED BY <1>2, <2>1
<1>7. CASE UNCHANGED judgeVars
  BY <1>2, <1>7 DEF judgeVars
<1>8. SanitizeNext => UNCHANGED judgeVars
  BY DEF SanitizeNext, BeginSanitize, SanitizeString, EndSanitize
<1>9. UNCHANGED toolVars => UNCHANGED judgeVars
  BY DEF toolVars, judgeVars
<1> QED BY <1>1, <1>3, <1>4, <1>5, <1>6, <1>7, <1>8, <1>9, <1>10 DEF ToolNext, JudgeNext

\* The rule of the tool's own name is the one that counts.
LEMMA OwnRuleCounts ==
    ASSUME NEW rules, DOMAIN rules \subseteq Nat, NEW tool, NEW k \in DOMAIN rules,
           rules[k].kind = "exact", tool \in rules[k].match,
           \A j \in DOMAIN rules : j < k => ~(rules[j].kind = "exact" /\ tool \in rules[j].match)
    PROVE  ToolRule(rules, tool) = rules[k]
<1> DEFINE Own == {j \in DOMAIN rules : rules[j].kind = "exact" /\ tool \in rules[j].match}
<1>1. k \in Own /\ \A j \in Own : j \in Nat /\ k <= j
  OBVIOUS
<1>2. (CHOOSE i \in Own : \A j \in Own : i <= j) = k
  BY <1>1
<1> QED BY <1>1, <1>2 DEF ToolRule

\* A tool the document names for a provider with a permission is judged by it
\* in the provider's domain, or blocked before the policies are asked.
LEMMA NamedIsJudged ==
    ASSUME PoliciesInForce, inForce # "partial", NEW p, NEW c, NEW perm \in Permissions, Named(p, c.tool, perm)
    PROVE  Evaluate(p, Domain(p), c) = IF Isolated(p, Domain(p), c) THEN perm ELSE "block"
<1>1. PICK i \in DOMAIN inForce :
        /\ inForce[i].provider = p
        /\ \E k \in DOMAIN inForce[i].rules :
              /\ inForce[i].rules[k].kind = "exact" /\ c.tool \in inForce[i].rules[k].match
              /\ inForce[i].rules[k].perm = perm
              /\ \A j \in DOMAIN inForce[i].rules : j < k =>
                    ~(inForce[i].rules[j].kind = "exact" /\ c.tool \in inForce[i].rules[j].match)
  BY DEF Named
<1>2. PICK rules : rules = inForce[i].rules
  OBVIOUS
<1>3. DOMAIN rules \subseteq Nat
  BY <1>2 DEF PoliciesInForce
<1>4. PICK k \in DOMAIN rules :
        /\ rules[k].kind = "exact" /\ c.tool \in rules[k].match /\ rules[k].perm = perm
        /\ \A j \in DOMAIN rules : j < k => ~(rules[j].kind = "exact" /\ c.tool \in rules[j].match)
  BY <1>1, <1>2
<1>5. ToolRule(rules, c.tool) = rules[k]
  BY <1>3, <1>4, OwnRuleCounts
<1>6. p \in DOMAIN policies /\ policies[p] = inForce[i]
  BY <1>1 DEF PoliciesInForce
<1>7. GetPolicy(p, Domain(p), c.tool) = rules[k]
  BY <1>2, <1>5, <1>6 DEF GetPolicy
<1>8. rules[k] # NoPolicy
  BY <1>4 DEF NoPolicy, Permissions
<1> QED BY <1>4, <1>7, <1>8 DEF Evaluate

\* Of a provider the document does not list only an isolated call is blocked.
LEMMA UnlistedIsAllowed ==
    ASSUME PoliciesInForce, inForce # "partial", NEW p, ~Listed(p), NEW d, NEW c
    PROVE  Evaluate(p, d, c) = IF Isolated(p, d, c) THEN "allow" ELSE "block"
<1>1. p \notin DOMAIN policies
  BY DEF PoliciesInForce, Listed
<1>2. GetPolicy(p, d, c.tool) = NoPolicy /\ RiskLevel(p, c.tool) = "none"
  BY <1>1 DEF GetPolicy, RiskLevel, NoPolicy
<1> QED BY <1>2 DEF Evaluate, NoPolicy

\* What the stage let pass and what it refused follows from its answer.
LEMMA StageGoverns ==
    ASSUME JudgeInv, inForce # "partial", last.kind = "stage"
    PROVE  /\ last.answer = "pass" =>
                \A c \in ExtractedCalls(last.seen) :
                   /\ ~Named(SeenProvider, c.tool, "block")
                   /\ ~Named(SeenProvider, c.tool, "require_human_approval")
           /\ ~Listed(SeenProvider) /\ last.answer = "failed" =>
                \/ \E i \in DOMAIN last.seen.msgs : last.seen.msgs[i].broken
                \/ \E c \in ExtractedCalls(last.seen) : c.cred \notin {"none", "session"}
<1>1. PoliciesInForce /\ last.seen \in Bodies /\ last.answer = StageAnswer(last.seen)
  BY DEF JudgeInv, AnsweredByPolicies
<1>2. PICK body \in Bodies : body = last.seen
  BY <1>1
<1>3. ASSUME NEW c \in ExtractedCalls(body)
      PROVE  Evaluate(SeenProvider, "model", c) \in Judged(body)
  BY <1>3 DEF Judged
<1>4. ASSUME DetectFormat(body) = "none" PROVE ExtractedCalls(body) = {}
  BY <1>4, ToolAssumption DEF ExtractedCalls, ExtractCalls
<1>d. Domain(SeenProvider) = "model"
  BY DEF Domain, HostProviders, SeenProvider
<1>5. ASSUME StageAnswer(body) = "pass", NEW c \in ExtractedCalls(body)
      PROVE  /\ ~Named(SeenProvider, c.tool, "block")
             /\ ~Named(SeenProvider, c.tool, "require_human_approval")
  <2>1. "block" \notin Judged(body) /\ "require_human_approval" \notin Judged(body)
    BY <1>4, <1>5 DEF StageAnswer
  <2>2. Evaluate(SeenProvider, "model", c) \notin {"block", "require_human_approval"}
    BY <1>3, <1>5, <2>1
  <2>3. ASSUME NEW perm \in {"block", "require_human_approval"}, Named(SeenProvider, c.tool, perm) PROVE FALSE
    <3>1. perm \in Permissions
      BY DEF Permissions
    <3>2. Evaluate(SeenProvider, "model", c) \in {perm, "block"}
      BY <1>1, <1>d, <2>3, <3>1, NamedIsJudged
    <3> QED BY <2>2, <3>2
  <2> QED BY <2>3
<1>6. ASSUME ~Listed(SeenProvider), StageAnswer(body) = "failed"
      PROVE  \/ \E i \in DOMAIN body.msgs : body.msgs[i].broken
             \/ \E c \in ExtractedCalls(body) : c.cred \notin {"none", "session"}
  <2>1. (\E i \in DOMAIN body.msgs : body.msgs[i].broken) \/ "block" \in Judged(body)
    BY <1>6 DEF StageAnswer
  <2>2. ASSUME "block" \in Judged(body)
        PROVE  \E c \in ExtractedCalls(body) : c.cred \notin {"none", "session"}
    <3>1. PICK c \in ExtractedCalls(body) : Evaluate(SeenProvider, "model", c) = "block"
      BY <2>2 DEF Judged
    <3>2. ~Isolated(SeenProvider, "model", c)
      BY <1>1, <1>6, <3>1, UnlistedIsAllowed
    <3> QED BY <3>2 DEF Isolated, SeenProvider
  <2> QED BY <2>1, <2>2
<1> QED BY <1>1, <1>2, <1>5, <1>6

\* What the document says decides.
LEMMA JudgeInvGoverns == JudgeInv => BlockedToolsStop
<1> SUFFICES ASSUME JudgeInv, inForce # "partial", last.kind = "evaluated", NEW j, j = last.seen
             PROVE  /\ \A perm \in Permissions :
                         Named(j.provider, j.call.tool, perm) /\ Domain(j.provider) = j.domain
                         => last.answer = IF Isolated(j.provider, j.domain, j.call) THEN perm ELSE "block"
                    /\ ~Listed(j.provider) =>
                         last.answer = IF Isolated(j.provider, j.domain, j.call) THEN "allow" ELSE "block"
  BY StageGoverns DEF BlockedToolsStop
<1>1. PoliciesInForce /\ last.answer = Evaluate(j.provider, j.domain, j.call)
  BY DEF JudgeInv, AnsweredByPolicies
<1> QED BY <1>1, NamedIsJudged, UnlistedIsAllowed

-----------------------------------------------------------------------------
\* What a sanitizer may put out: a token, or a text that holds no secret.
OutStrings == ({"text"} \X {"plain"}) \cup ({"token"} \X (Nat \X Nat))

\* The strings of the results.
Strings == UNION {{r[i] : i \in DOMAIN r} : r \in Results}

WorkerShape(k) ==
    /\ DOMAIN k = {"pc", "in", "out"}
    /\ k.in \in Seq(Strings)
    /\ k.out \in Seq(OutStrings)
    /\ Len(k.out) <= Len(k.in)

\* What the string v was put out as: text is shown as it is, a secret by a
\* token of this session, which has the value, or of an earlier one.
PutOut(o, v, sd, ses) ==
    IF v = "plain" THEN o = <<"text", "plain">>
    ELSE \E t, k \in Nat : /\ o = <<"token", <<t, k>> >> /\ t <= sd
                           /\ t = sd => k \in 1..Len(ses) /\ ses[k] = v
ThisSession(o, sd) == o[1] = "token" => o[2][1] = sd

\* The outputs follow the inputs; the mapping is the session's; what the call
\* that began it has put out is of this session; and the values of the session
\* come from the calls that share it.
SanitizeInv ==
    /\ DOMAIN worker = Workers
    /\ \A w \in Workers : WorkerShape(worker[w])
    /\ seed \in Nat /\ session \in Seq(Strings)
    /\ \A w \in Workers : \A i \in 1..Len(worker[w].out) :
          PutOut(worker[w].out[i], worker[w].in[i], seed, session)
    /\ latest \subseteq Workers /\ sharing \subseteq Workers
    /\ \A w \in latest : \A i \in 1..Len(worker[w].out) : ThisSession(worker[w].out[i], seed)
    /\ \A w \in Workers : worker[w].pc = "walk" => w \in sharing
    /\ mappings = {<< <<seed, i>>, session[i]>> : i \in 1..Len(session)}
    /\ \A i \in 1..Len(session) : \E w \in sharing : \E n \in DOMAIN worker[w].in : worker[w].in[n] = session[i]
    /\ TokensUnambiguous

\* Nothing is sanitized yet.
LEMMA ToolInitSanitize == ToolInit => SanitizeInv
<1> SUFFICES ASSUME ToolInit PROVE SanitizeInv
  OBVIOUS
<1>1. << >> \in Seq(Strings) /\ << >> \in Seq(OutStrings) /\ Len(<< >>) = 0 /\ DOMAIN << >> = {}
  OBVIOUS
<1>2. /\ DOMAIN worker = Workers /\ session = << >> /\ seed = 0 /\ mappings = {} /\ latest = {} /\ sharing = {}
      /\ \A w \in Workers : worker[w] = [pc |-> "idle", in |-> << >>, out |-> << >>]
  BY DEF ToolInit
<1>3. ASSUME NEW w \in Workers PROVE WorkerShape(worker[w])
  <2>1. PICK k : k = worker[w]
    OBVIOUS
  <2>2. DOMAIN k = {"pc", "in", "out"} /\ k.in = << >> /\ k.out = << >>
    BY <1>2, <2>1
  <2>3. Len(k.out) <= Len(k.in)
    BY <1>1, <2>2
  <2>4. WorkerShape(k)
    BY <1>1, <2>2, <2>3, Zenon DEF WorkerShape
  <2> QED BY <2>1, <2>4
<1>4. TokensUnambiguous
  BY <1>1, <1>2 DEF TokensUnambiguous
<1>5. \A i : ~(i \in 1..Len(session))
  BY <1>1, <1>2
<1>6. \A w \in Workers : \A i : ~(i \in 1..Len(worker[w].out))
  BY <1>1, <1>2
<1>7. mappings = {<< <<seed, i>>, session[i]>> : i \in 1..Len(session)}
  BY <1>2, <1>5
<1> QED BY <1>1, <1>2, <1>3, <1>4, <1>5, <1>6, <1>7 DEF SanitizeInv

\* A result is a list of strings.
LEMMA ResultsAreStrings == Results \subseteq Seq(Strings)
<1> SUFFICES ASSUME NEW r \in Results PROVE r \in Seq(Strings)
  OBVIOUS
<1>1. PICK S : S = {r[i] : i \in DOMAIN r}
  OBVIOUS
<1>2. S \subseteq Strings
  BY <1>1 DEF Strings
<1>3. r \in Seq(S)
  BY <1>1, ToolAssumption
<1> QED BY <1>2, <1>3

\* A call begins: a new session, whose tokens no call has been given yet.
LEMMA BeginSanitizeInv ==
    ASSUME SanitizeInv, NEW w \in Workers, NEW r \in Results, BeginSanitize(w, r) PROVE SanitizeInv'
<1>1. PICK k : k = [pc |-> "walk", in |-> r, out |-> << >>]
  OBVIOUS
<1>2. /\ worker' = [worker EXCEPT ![w] = k] /\ session' = << >> /\ seed' = seed + 1 /\ mappings' = {}
      /\ latest' = {w} /\ sharing' = {w} \union {v \in Workers : worker[v].pc = "walk"}
  BY <1>1 DEF BeginSanitize
<1>3. DOMAIN k = {"pc", "in", "out"} /\ k.in = r /\ k.out = << >> /\ k.pc = "walk" /\ Len(k.out) = 0
  BY <1>1
<1>4. r \in Seq(Strings) /\ Len(r) \in Nat /\ << >> \in Seq(Strings) /\ << >> \in Seq(OutStrings) /\ Len(<< >>) = 0
  BY ResultsAreStrings
<1>5. DOMAIN worker' = Workers /\ worker'[w] = k /\ \A u \in Workers : u # w => worker'[u] = worker[u]
  BY <1>2 DEF SanitizeInv
<1>6. WorkerShape(k)
  BY <1>3, <1>4 DEF WorkerShape
<1>7. \A u \in Workers : WorkerShape(worker'[u])
  BY <1>5, <1>6 DEF SanitizeInv
<1>8. seed \in Nat /\ seed' \in Nat /\ session' \in Seq(Strings)
  BY <1>2, <1>4 DEF SanitizeInv
<1>9. ASSUME NEW u \in Workers, NEW i \in 1..Len(worker'[u].out)
      PROVE  /\ u # w /\ i \in 1..Len(worker[u].out)
             /\ PutOut(worker'[u].out[i], worker'[u].in[i], seed', session')
  <2>1. u # w
    BY <1>3, <1>5
  <2>2. worker'[u] = worker[u] /\ PutOut(worker[u].out[i], worker[u].in[i], seed, session)
    BY <1>5, <2>1 DEF SanitizeInv
  <2>3. \A t \in Nat : t <= seed => t <= seed' /\ t # seed'
    BY <1>2, <1>8
  <2> QED BY <2>1, <2>2, <2>3 DEF PutOut
<1>10. \A u \in latest' : \A i \in 1..Len(worker'[u].out) : ThisSession(worker'[u].out[i], seed')
  BY <1>2, <1>9
<1>11. latest' \subseteq Workers /\ sharing' \subseteq Workers
  BY <1>2
<1>12. \A u \in Workers : worker'[u].pc = "walk" => u \in sharing'
  BY <1>2, <1>5
<1>13. \A i : ~(i \in 1..Len(session'))
  BY <1>2, <1>4
<1>14. mappings' = {<< <<seed', i>>, session'[i]>> : i \in 1..Len(session')}
  BY <1>2, <1>13
<1>15. TokensUnambiguous'
  <2> SUFFICES ASSUME NEW u \in Workers, NEW v \in Workers,
                      NEW i \in DOMAIN worker'[u].out, NEW j \in DOMAIN worker'[v].out,
                      worker'[u].out[i] = worker'[v].out[j]
               PROVE  worker'[u].in[i] = worker'[v].in[j]
    BY DEF TokensUnambiguous
  <2>1. i \in 1..Len(worker'[u].out) /\ j \in 1..Len(worker'[v].out)
    BY <1>7 DEF WorkerShape
  <2>2. u # w /\ v # w
    BY <1>9, <2>1
  <2>3. worker'[u] = worker[u] /\ worker'[v] = worker[v]
    BY <1>5, <2>2
  <2> QED BY <2>3 DEF SanitizeInv, TokensUnambiguous
<1>16. \A u \in Workers : WorkerShape(worker[u])'
  BY <1>7 DEF WorkerShape
<1> QED BY <1>5, <1>8, <1>9, <1>10, <1>11, <1>12, <1>13, <1>14, <1>15, <1>16 DEF SanitizeInv

\* What a string is put out as, and the session then.
LEMMA StringPutOut ==
    ASSUME session \in Seq(Strings), seed \in Nat, NEW v \in Strings, NEW ses,
           v # "plain" /\ Held(v) = {} => ses = Append(session, v),
           ~(v # "plain" /\ Held(v) = {}) => ses = session
    PROVE  /\ ses \in Seq(Strings) /\ Len(session) <= Len(ses)
           /\ \A i \in 1..Len(session) : ses[i] = session[i]
           /\ \A i \in 1..Len(ses) : i \in 1..Len(session) \/ ses[i] = v
           /\ PutOut(SanitizedString(v), v, seed, ses)
           /\ ThisSession(SanitizedString(v), seed)
           /\ SanitizedString(v) \in OutStrings
<1>1. PICK S, n : S = Strings /\ n = Len(session)
  OBVIOUS
<1>2. session \in Seq(S) /\ v \in S /\ n \in Nat /\ DOMAIN session = 1..n
  BY <1>1
<1>3. CASE v = "plain"
  <2>1. ses = session /\ SanitizedString(v) = <<"text", v>>
    BY <1>3 DEF SanitizedString
  <2> QED BY <1>1, <1>2, <1>3, <2>1 DEF PutOut, ThisSession, OutStrings
<1>4. CASE v # "plain" /\ Held(v) = {}
  <2>1. ses = Append(session, v) /\ SanitizedString(v) = <<"token", <<seed, n + 1>> >>
    BY <1>1, <1>4 DEF SanitizedString, TokenFor
  <2>2. ses \in Seq(S) /\ Len(ses) = n + 1 /\ ses[n + 1] = v /\ \A i \in 1..n : ses[i] = session[i]
    BY <1>1, <1>2, <2>1
  <2>3. n + 1 \in Nat /\ n + 1 \in 1..Len(ses) /\ n <= Len(ses) /\ \A i \in 1..Len(ses) : i \in 1..n \/ i = n + 1
    BY <1>2, <2>2
  <2>4. PutOut(SanitizedString(v), v, seed, ses)
    <3>1. PICK q \in Nat : q = n + 1
      BY <1>2
    <3>2. SanitizedString(v) = <<"token", <<seed, q>> >> /\ q \in 1..Len(ses) /\ ses[q] = v /\ seed <= seed
      BY <2>1, <2>2, <2>3, <3>1
    <3> QED BY <1>4, <3>2, Zenon DEF PutOut
  <2>5. ThisSession(SanitizedString(v), seed) /\ SanitizedString(v) \in OutStrings
    BY <2>1, <2>3 DEF ThisSession, OutStrings
  <2> QED BY <1>1, <2>2, <2>3, <2>4, <2>5
<1>5. CASE v # "plain" /\ Held(v) # {}
  <2>1. PICK k \in Held(v) : SanitizedString(v) = <<"token", <<seed, k>> >>
    BY <1>5 DEF SanitizedString, TokenFor
  <2>2. ses = session /\ k \in 1..n /\ session[k] = v /\ k \in Nat
    BY <1>2, <1>5, <2>1 DEF Held
  <2>3. PutOut(SanitizedString(v), v, seed, ses)
    BY <1>1, <1>5, <2>1, <2>2 DEF PutOut
  <2>4. ThisSession(SanitizedString(v), seed) /\ SanitizedString(v) \in OutStrings
    BY <2>1, <2>2 DEF ThisSession, OutStrings
  <2> QED BY <1>1, <1>2, <2>2, <2>3, <2>4
<1> QED BY <1>3, <1>4, <1>5

\* A call puts out one more string: its token has the session's value, which
\* no other token of the session has.
LEMMA SanitizeStringInv ==
    ASSUME SanitizeInv, NEW w \in Workers, SanitizeString(w) PROVE SanitizeInv'
<1>1. PICK x, y, n : x = worker[w].in /\ y = worker[w].out /\ n = Len(y)
  OBVIOUS
<1>2. /\ DOMAIN worker[w] = {"pc", "in", "out"} /\ x \in Seq(Strings) /\ y \in Seq(OutStrings)
      /\ n \in Nat /\ n < Len(x) /\ w \in sharing /\ Len(x) \in Nat /\ n + 1 \in 1..Len(x)
  <2>1. WorkerShape(worker[w]) /\ worker[w].pc = "walk" /\ n < Len(x)
    BY <1>1 DEF SanitizeInv, SanitizeString
  <2> QED BY <1>1, <2>1 DEF WorkerShape, SanitizeInv
<1>3. PICK v : v = x[n + 1]
  OBVIOUS
<1>4. v \in Strings
  BY <1>2, <1>3
<1>5. PICK ses : ses = IF v # "plain" /\ Held(v) = {} THEN Append(session, v) ELSE session
  OBVIOUS
<1>6. session \in Seq(Strings) /\ seed \in Nat /\ Len(session) \in Nat
  BY DEF SanitizeInv
<1>7. PICK o : o = SanitizedString(v)
  OBVIOUS
<1>8. /\ ses \in Seq(Strings) /\ Len(session) <= Len(ses)
      /\ \A i \in 1..Len(session) : ses[i] = session[i]
      /\ \A i \in 1..Len(ses) : i \in 1..Len(session) \/ ses[i] = v
      /\ PutOut(o, v, seed, ses) /\ ThisSession(o, seed) /\ o \in OutStrings
  <2>1. session \in Seq(Strings)
    BY <1>6
  <2>2. seed \in Nat
    BY <1>6
  <2>3. /\ ses \in Seq(Strings) /\ Len(session) <= Len(ses)
        /\ \A i \in 1..Len(session) : ses[i] = session[i]
        /\ \A i \in 1..Len(ses) : i \in 1..Len(session) \/ ses[i] = v
        /\ PutOut(SanitizedString(v), v, seed, ses)
        /\ ThisSession(SanitizedString(v), seed)
        /\ SanitizedString(v) \in OutStrings
    <3>1. /\ v # "plain" /\ Held(v) = {} => ses = Append(session, v)
          /\ ~(v # "plain" /\ Held(v) = {}) => ses = session
      BY <1>5
    <3> QED BY <1>4, <2>1, <2>2, <3>1, StringPutOut, Zenon
  <2> QED BY <1>7, <2>3, Zenon
<1>9. PICK k : k = [worker[w] EXCEPT !.out = Append(y, o)]
  OBVIOUS
<1>10. DOMAIN k = {"pc", "in", "out"} /\ k.in = x /\ k.out = Append(y, o) /\ k.pc = worker[w].pc
  BY <1>1, <1>2, <1>9
<1>11. /\ k.out \in Seq(OutStrings) /\ Len(k.out) = n + 1 /\ k.out[n + 1] = o
       /\ \A i \in 1..n : k.out[i] = y[i]
  <2>1. PICK S : S = OutStrings
    OBVIOUS
  <2>2. y \in Seq(S) /\ o \in S
    BY <1>2, <1>8, <2>1
  <2> QED BY <1>1, <1>10, <2>1, <2>2
<1>12. WorkerShape(k)
  BY <1>2, <1>10, <1>11 DEF WorkerShape
<1>13. /\ worker' = [worker EXCEPT ![w] = k] /\ session' = ses
       /\ seed' = seed /\ latest' = latest /\ sharing' = sharing
  BY <1>1, <1>3, <1>5, <1>7, <1>9 DEF SanitizeString
<1>14. DOMAIN worker' = Workers /\ worker'[w] = k /\ \A u \in Workers : u # w => worker'[u] = worker[u]
  BY <1>13 DEF SanitizeInv
<1>15. \A u \in Workers : WorkerShape(worker'[u])
  BY <1>12, <1>14 DEF SanitizeInv
<1>16. \A u \in Workers : worker'[u].in = worker[u].in /\ worker'[u].pc = worker[u].pc
  BY <1>1, <1>10, <1>14
\* What was put out before stands for what it stood for.
<1>17. ASSUME NEW u \in Workers, NEW i \in 1..Len(worker'[u].out)
       PROVE  \/ i \in 1..Len(worker[u].out) /\ worker'[u].out[i] = worker[u].out[i]
              \/ u = w /\ i = n + 1 /\ worker'[u].out[i] = o /\ worker'[u].in[i] = v
  <2>1. CASE u # w
    BY <1>14, <2>1
  <2>2. CASE u = w
    <3>1. i \in 1..n \/ i = n + 1
      BY <1>2, <1>11, <1>14, <2>2
    <3> QED BY <1>1, <1>3, <1>10, <1>11, <1>14, <2>2, <3>1
  <2> QED BY <2>1, <2>2
<1>18. ASSUME NEW u \in Workers, NEW i \in 1..Len(worker[u].out)
       PROVE  PutOut(worker[u].out[i], worker[u].in[i], seed, ses)
  <2>1. PutOut(worker[u].out[i], worker[u].in[i], seed, session)
    BY DEF SanitizeInv
  <2>2. \A j \in Nat : j \in 1..Len(session) => j \in 1..Len(ses) /\ ses[j] = session[j]
    BY <1>6, <1>8
  <2> QED BY <2>1, <2>2 DEF PutOut
<1>19. ASSUME NEW u \in Workers, NEW i \in 1..Len(worker'[u].out)
       PROVE  PutOut(worker'[u].out[i], worker'[u].in[i], seed, ses)
  BY <1>8, <1>16, <1>17, <1>18
<1>20. ASSUME NEW u \in latest, NEW i \in 1..Len(worker'[u].out) PROVE ThisSession(worker'[u].out[i], seed)
  BY <1>8, <1>17 DEF SanitizeInv
<1>21. \A u \in Workers : worker'[u].pc = "walk" => u \in sharing
  BY <1>16 DEF SanitizeInv
<1>22. mappings' = {<< <<seed, i>>, ses[i]>> : i \in 1..Len(ses)}
  <2>1. mappings = {<< <<seed, i>>, session[i]>> : i \in 1..Len(session)}
    BY DEF SanitizeInv
  <2>2. CASE v # "plain" /\ Held(v) = {}
    <3>1. mappings' = mappings \union {<<TokenFor(v), v>>} /\ TokenFor(v) = <<seed, Len(session) + 1>>
      BY <1>1, <1>3, <2>2 DEF SanitizeString, TokenFor
    <3>2. PICK S : S = Strings
      OBVIOUS
    <3>3. session \in Seq(S) /\ v \in S /\ ses = Append(session, v)
      BY <1>4, <1>5, <1>6, <2>2, <3>2
    <3>4. Len(ses) = Len(session) + 1 /\ ses[Len(session) + 1] = v
      BY <3>3
    <3>5. \A i \in 1..Len(ses) : i \in 1..Len(session) \/ i = Len(session) + 1
      BY <1>6, <3>4
    <3>6. 1..Len(session) \subseteq 1..Len(ses) /\ Len(session) + 1 \in 1..Len(ses)
      BY <1>6, <3>4
    <3> QED BY <1>8, <2>1, <3>1, <3>4, <3>5, <3>6
  <2>3. CASE ~(v # "plain" /\ Held(v) = {})
    <3>1. mappings' = mappings /\ ses = session
      BY <1>1, <1>3, <1>5, <2>3 DEF SanitizeString
    <3> QED BY <2>1, <3>1
  <2> QED BY <2>2, <2>3
<1>23. ASSUME NEW i \in 1..Len(ses)
       PROVE  \E u \in sharing : \E m \in DOMAIN worker'[u].in : worker'[u].in[m] = ses[i]
  <2>1. CASE i \in 1..Len(session)
    <3>1. PICK u \in sharing : \E m \in DOMAIN worker[u].in : worker[u].in[m] = session[i]
      BY <2>1 DEF SanitizeInv
    <3>2. u \in Workers /\ worker'[u].in = worker[u].in
      BY <1>16 DEF SanitizeInv
    <3> QED BY <1>8, <2>1, <3>1, <3>2
  <2>2. CASE ses[i] = v
    <3>1. n + 1 \in DOMAIN x /\ worker'[w].in = x
      BY <1>2, <1>10, <1>14
    <3> QED BY <1>2, <1>3, <2>2, <3>1
  <2> QED BY <1>8, <2>1, <2>2
\* The new token has been given out for its value only.
<1>24. ASSUME NEW u \in Workers, NEW i \in 1..Len(worker[u].out), worker[u].out[i] = o
       PROVE  worker[u].in[i] = v
  <2>1. PICK q : q = worker[u].in[i]
    OBVIOUS
  <2>2. PutOut(o, q, seed, ses)
    BY <1>18, <1>24, <2>1
  <2>3. CASE v = "plain"
    BY <1>8, <2>1, <2>2, <2>3 DEF PutOut
  <2>4. CASE v # "plain"
    <3>1. PICK t, j \in Nat : o = <<"token", <<t, j>> >> /\ (t = seed => ses[j] = v)
      BY <1>8, <2>4 DEF PutOut
    <3>2. t = seed
      BY <1>8, <3>1 DEF ThisSession
    <3>3. q # "plain"
      BY <2>2, <3>1 DEF PutOut
    <3>4. PICK t2, j2 \in Nat : o = <<"token", <<t2, j2>> >> /\ (t2 = seed => ses[j2] = q)
      BY <2>2, <3>3 DEF PutOut
    <3>5. t2 = t /\ j2 = j
      BY <3>1, <3>4
    <3> QED BY <2>1, <3>1, <3>2, <3>4, <3>5
  <2> QED BY <2>3, <2>4
<1>25. TokensUnambiguous'
  <2> SUFFICES ASSUME NEW u1 \in Workers, NEW u2 \in Workers,
                      NEW i \in DOMAIN worker'[u1].out, NEW j \in DOMAIN worker'[u2].out,
                      worker'[u1].out[i] = worker'[u2].out[j]
               PROVE  worker'[u1].in[i] = worker'[u2].in[j]
    BY DEF TokensUnambiguous
  <2>1. i \in 1..Len(worker'[u1].out) /\ j \in 1..Len(worker'[u2].out)
    BY <1>15 DEF WorkerShape
  <2>2. CASE /\ i \in 1..Len(worker[u1].out) /\ worker'[u1].out[i] = worker[u1].out[i]
             /\ j \in 1..Len(worker[u2].out) /\ worker'[u2].out[j] = worker[u2].out[j]
    <3>1. i \in DOMAIN worker[u1].out /\ j \in DOMAIN worker[u2].out
      BY <2>2 DEF SanitizeInv, WorkerShape
    <3>2. TokensUnambiguous /\ worker[u1].out[i] = worker[u2].out[j]
      BY <2>2 DEF SanitizeInv
    <3>3. worker[u1].in[i] = worker[u2].in[j]
      BY <3>1, <3>2, Zenon DEF TokensUnambiguous
    <3> QED BY <1>16, <3>3
  <2>5. ASSUME NEW u \in Workers, NEW q \in 1..Len(worker'[u].out), worker'[u].out[q] = o
        PROVE  worker'[u].in[q] = v
    <3>1. \/ q \in 1..Len(worker[u].out) /\ worker[u].out[q] = o
          \/ worker'[u].in[q] = v
      BY <1>17, <2>5
    <3>2. ASSUME q \in 1..Len(worker[u].out), worker[u].out[q] = o PROVE worker[u].in[q] = v
      BY <1>24, <3>2
    <3> QED BY <1>16, <3>1, <3>2
  <2>3. CASE worker'[u1].out[i] = o /\ worker'[u1].in[i] = v
    BY <2>1, <2>3, <2>5
  <2>4. CASE worker'[u2].out[j] = o /\ worker'[u2].in[j] = v
    BY <2>1, <2>4, <2>5
  <2> QED BY <1>17, <2>1, <2>2, <2>3, <2>4
<1>26. \A u \in Workers : WorkerShape(worker[u])'
  BY <1>15 DEF WorkerShape
<1>27. latest \subseteq Workers /\ sharing \subseteq Workers
  BY DEF SanitizeInv
<1> QED BY <1>6, <1>8, <1>13, <1>14, <1>19, <1>20, <1>21, <1>22, <1>23, <1>25, <1>26, <1>27 DEF SanitizeInv

\* A call ends: what it has put out stays, or nothing of it does.
LEMMA EndSanitizeInv ==
    ASSUME SanitizeInv, NEW w \in Workers, EndSanitize(w) PROVE SanitizeInv'
<1>1. WorkerShape(worker[w])
  BY DEF SanitizeInv
<1>2. PICK k : /\ worker' = [worker EXCEPT ![w] = k] /\ DOMAIN k = {"pc", "in", "out"}
               /\ k.in = worker[w].in /\ k.pc = "idle" /\ (k.out = worker[w].out \/ k.out = << >>)
  <2>1. PICK a, b : /\ a = [worker[w] EXCEPT !.pc = "idle"]
                    /\ b = [[worker[w] EXCEPT !.pc = "idle"] EXCEPT !.out = << >>]
    OBVIOUS
  <2>2. /\ DOMAIN a = {"pc", "in", "out"} /\ a.in = worker[w].in /\ a.pc = "idle" /\ a.out = worker[w].out
        /\ DOMAIN b = {"pc", "in", "out"} /\ b.in = worker[w].in /\ b.pc = "idle" /\ b.out = << >>
    BY <1>1, <2>1 DEF WorkerShape
  <2>3. worker' = [worker EXCEPT ![w] = a] \/ worker' = [worker EXCEPT ![w] = b]
    BY <2>1 DEF EndSanitize
  <2> QED BY <2>2, <2>3
<1>3. UNCHANGED <<seed, session, mappings, latest, sharing>>
  BY DEF EndSanitize
<1>4. DOMAIN worker' = Workers /\ worker'[w] = k /\ \A u \in Workers : u # w => worker'[u] = worker[u]
  BY <1>2 DEF SanitizeInv
<1>5. WorkerShape(k)
  <2>1. PICK x, y : x = worker[w].in /\ y = worker[w].out
    OBVIOUS
  <2>2. x \in Seq(Strings) /\ y \in Seq(OutStrings) /\ Len(y) <= Len(x)
    BY <1>1, <2>1 DEF WorkerShape
  <2>3. << >> \in Seq(OutStrings) /\ Len(<< >>) <= Len(x)
    BY <2>2
  <2>4. k.in \in Seq(Strings) /\ k.out \in Seq(OutStrings) /\ Len(k.out) <= Len(k.in)
    BY <1>2, <2>1, <2>2, <2>3
  <2> QED BY <1>2, <2>4, Zenon DEF WorkerShape
<1>6. \A u \in Workers : WorkerShape(worker'[u])
  BY <1>4, <1>5 DEF SanitizeInv
<1>7. \A u \in Workers : worker'[u].in = worker[u].in /\ (worker'[u].pc = "walk" => worker[u].pc = "walk")
  BY <1>2, <1>4
<1>8. ASSUME NEW u \in Workers, NEW i \in 1..Len(worker'[u].out)
      PROVE  i \in 1..Len(worker[u].out) /\ worker'[u].out[i] = worker[u].out[i]
  BY <1>2, <1>4
<1>9. TokensUnambiguous'
  <2> SUFFICES ASSUME NEW u1 \in Workers, NEW u2 \in Workers,
                      NEW i \in DOMAIN worker'[u1].out, NEW j \in DOMAIN worker'[u2].out,
                      worker'[u1].out[i] = worker'[u2].out[j]
               PROVE  worker'[u1].in[i] = worker'[u2].in[j]
    BY DEF TokensUnambiguous
  <2>1. i \in 1..Len(worker'[u1].out) /\ j \in 1..Len(worker'[u2].out)
    BY <1>6 DEF WorkerShape
  <2>2. i \in 1..Len(worker[u1].out) /\ j \in 1..Len(worker[u2].out) /\ worker[u1].out[i] = worker[u2].out[j]
    BY <1>8, <2>1
  <2>3. i \in DOMAIN worker[u1].out /\ j \in DOMAIN worker[u2].out
    BY <2>2 DEF SanitizeInv, WorkerShape
  <2>4. worker[u1].in[i] = worker[u2].in[j]
    BY <2>2, <2>3 DEF SanitizeInv, TokensUnambiguous
  <2> QED BY <1>7, <2>4
<1>10. \A u \in Workers : WorkerShape(worker[u])'
  BY <1>6 DEF WorkerShape
<1>11. \A u \in Workers : \A i \in 1..Len(worker'[u].out) :
          PutOut(worker'[u].out[i], worker'[u].in[i], seed, session)
  BY <1>7, <1>8 DEF SanitizeInv
<1>12. \A u \in latest : \A i \in 1..Len(worker'[u].out) : ThisSession(worker'[u].out[i], seed)
  BY <1>8 DEF SanitizeInv
<1>13. \A i \in 1..Len(session) : \E u \in sharing : \E m \in DOMAIN worker'[u].in : worker'[u].in[m] = session[i]
  <2>1. \A u \in sharing : worker'[u].in = worker[u].in
    BY <1>7 DEF SanitizeInv
  <2> QED BY <2>1 DEF SanitizeInv
<1> QED BY <1>3, <1>4, <1>7, <1>9, <1>10, <1>11, <1>12, <1>13 DEF SanitizeInv

\* The steps of the sanitizer.
LEMMA SanitizeStep ==
    ASSUME SanitizeInv, [ToolNext]_toolVars PROVE SanitizeInv'
<1>1. ASSUME UNCHANGED sanitizeVars PROVE SanitizeInv'
  BY <1>1 DEF sanitizeVars, SanitizeInv, WorkerShape, TokensUnambiguous
<1>2. JudgeNext => UNCHANGED sanitizeVars
  BY DEF JudgeNext, LoadPolicy, Stage, EvaluateCall, InspectMcp, InspectAgentCall, InspectResult
<1>3. UNCHANGED toolVars => UNCHANGED sanitizeVars
  BY DEF toolVars, sanitizeVars
<1> QED BY <1>1, <1>2, <1>3, BeginSanitizeInv, SanitizeStringInv, EndSanitizeInv DEF ToolNext, SanitizeNext

\* What the invariant says of the mapping and the tokens.
LEMMA SanitizeInvRestores ==
    ASSUME SanitizeInv PROVE LatestRestorable /\ TokensUnambiguous /\ MappingForgets
<1>1. LatestRestorable
  <2> SUFFICES ASSUME NEW w \in latest, NEW i \in DOMAIN worker[w].out, worker[w].in[i] # "plain"
               PROVE  \E m \in mappings : worker[w].out[i] = <<"token", m[1]>> /\ m[2] = worker[w].in[i]
    BY DEF LatestRestorable
  <2>1. w \in Workers /\ i \in 1..Len(worker[w].out)
    BY DEF SanitizeInv, WorkerShape
  <2>2. PICK o, v : o = worker[w].out[i] /\ v = worker[w].in[i]
    OBVIOUS
  <2>3. PutOut(o, v, seed, session) /\ ThisSession(o, seed)
    BY <2>1, <2>2 DEF SanitizeInv
  <2>4. PICK t, k \in Nat : o = <<"token", <<t, k>> >> /\ (t = seed => k \in 1..Len(session) /\ session[k] = v)
    BY <2>2, <2>3 DEF PutOut
  <2>5. t = seed
    BY <2>3, <2>4 DEF ThisSession
  <2>6. PICK m : m = << <<seed, k>>, session[k]>>
    OBVIOUS
  <2>7. m \in mappings /\ m[1] = <<seed, k>> /\ m[2] = v
    BY <2>4, <2>5, <2>6 DEF SanitizeInv
  <2> QED BY <2>2, <2>4, <2>5, <2>7
<1>2. MappingForgets
  <2> SUFFICES ASSUME NEW m \in mappings
               PROVE  \E w \in sharing : \E i \in DOMAIN worker[w].in : worker[w].in[i] = m[2]
    BY DEF MappingForgets
  <2>1. PICK i \in 1..Len(session) : m = << <<seed, i>>, session[i]>>
    BY DEF SanitizeInv
  <2>2. m[2] = session[i]
    BY <2>1
  <2> QED BY <2>1, <2>2 DEF SanitizeInv
<1> QED BY <1>1, <1>2 DEF SanitizeInv

-----------------------------------------------------------------------------
\* What the policies and the sanitizer keep.
ToolInv == JudgeInv /\ SanitizeInv

\* In every state the policies are those of the document in force and give
\* the last answer, and tokens, session and mapping of the sanitizer agree.
THEOREM ToolInvariant == ToolSpec => []ToolInv
<1>1. ToolInit => ToolInv
  BY ToolInitJudge, ToolInitSanitize DEF ToolInv
<1>2. ToolInv /\ [ToolNext]_toolVars => ToolInv'
  BY JudgeStep, SanitizeStep DEF ToolInv
<1> QED BY <1>1, <1>2, PTL DEF ToolSpec

\* What the document in force says of a tool by name decides, for the stage and
\* for a call of any provider; the mapping restores the result whose call began
\* last and holds nothing of finished calls before it, and no token stands for
\* two secrets: for any documents and reloads, any results and any number of
\* overlapping sanitizer calls.
THEOREM ToolsAreGoverned == ToolSpec => []ToolsGoverned
<1>1. ToolInv => ToolsGoverned
  BY JudgeInvGoverns, SanitizeInvRestores DEF ToolInv, ToolsGoverned
<1> QED BY <1>1, ToolInvariant, PTL

-----------------------------------------------------------------------------
(***************************************************************************)
(* ContentGuards: the rule gates, for any rule files and texts.            *)
(***************************************************************************)

\* p is given to the elements of D, and k is the one that comes first by
\* falling value and then by position.
FirstOf(k, D, p) == k \in D /\ \A j \in D : p[j] < p[k] \/ (p[j] = p[k] /\ k <= j)

\* A set of positions that is not empty has a first element.
LEMMA FirstExists ==
    ASSUME NEW n \in Nat, NEW D \in SUBSET (1..n), D # {}, NEW p, \A j \in 1..n : p[j] \in Int
    PROVE  \E k \in D : FirstOf(k, D, p)
<1> DEFINE G == {m \in Nat : m <= n => \A E \in SUBSET (1..m) : E # {} => \E k \in E : FirstOf(k, E, p)}
<1>1. 0 \in G
  <2>1. 1..0 = {}
    OBVIOUS
  <2> QED BY <2>1
<1>2. ASSUME NEW m \in G \cap Nat PROVE m + 1 \in G
  <2> SUFFICES ASSUME m + 1 <= n, NEW E \in SUBSET (1..(m + 1)), E # {}
               PROVE  \E k \in E : FirstOf(k, E, p)
    OBVIOUS
  <2>1. PICK F : F = E \ {m + 1}
    OBVIOUS
  <2>2. F \in SUBSET (1..m)
    BY <2>1
  <2>3. CASE F = {}
    <3>1. E = {m + 1}
      BY <2>1, <2>3
    <3> QED BY <3>1 DEF FirstOf
  <2>4. CASE F # {}
    <3>1. PICK k \in F : FirstOf(k, F, p)
      BY <1>2, <2>2, <2>4
    <3>2. k \in 1..m /\ p[k] \in Int /\ p[m + 1] \in Int
      BY <2>2, <3>1
    <3>3. CASE m + 1 \notin E
      <4>1. E = F
        BY <2>1, <3>3
      <4> QED BY <3>1, <4>1
    <3>4. CASE m + 1 \in E /\ p[m + 1] <= p[k]
      <4>1. \A j \in E : j \in F \/ j = m + 1
        BY <2>1
      <4>2. FirstOf(k, E, p)
        BY <2>1, <3>1, <3>2, <3>4, <4>1 DEF FirstOf
      <4> QED BY <2>1, <4>2
    <3>5. CASE m + 1 \in E /\ ~(p[m + 1] <= p[k])
      <4>1. \A j \in F : p[j] \in Int /\ (p[j] < p[k] \/ p[j] = p[k])
        BY <2>2, <3>1 DEF FirstOf
      <4>2. \A j \in E : p[j] < p[m + 1] \/ j = m + 1
        BY <2>1, <3>2, <3>5, <4>1
      <4>3. FirstOf(m + 1, E, p)
        BY <3>5, <4>2 DEF FirstOf
      <4> QED BY <3>5, <4>3
    <3> QED BY <3>3, <3>4, <3>5
  <2> QED BY <2>3, <2>4
<1> HIDE DEF G
<1>3. n \in G
  BY <1>1, <1>2, SetInduction
<1>4. \A E \in SUBSET (1..n) : E # {} => \E k \in E : FirstOf(k, E, p)
  BY <1>3 DEF G
<1> QED BY <1>4

\* A list of rules with priorities.
RuleList(list) ==
    /\ Len(list) \in Nat /\ DOMAIN list = 1..Len(list)
    /\ \A i \in DOMAIN list : list[i].prio \in Int

\* A rule of high severity that fires leaves a result of high severity: the
\* first by priority of those that fire in its category.
LEMMA HighRuleStands ==
    ASSUME NEW e, RuleList(e.rules), NEW t, NEW i \in DOMAIN e.rules,
           Fires(e, e.rules[i], t), e.rules[i].sev = "high"
    PROVE  \E r \in EvaluateRules(e, t) : r.sev = "high"
<1>0. PICK L, n : L = e.rules /\ n = Len(L)
  OBVIOUS
<1>1. n \in Nat /\ DOMAIN L = 1..n /\ \A j \in 1..n : L[j].prio \in Int
  BY <1>0 DEF RuleList
<1>2. PICK A : A = {j \in 1..n : Fires(e, L[j], t)}
  OBVIOUS
<1>3. PICK D, p : /\ D = {j \in A : L[j].cat = L[i].cat /\ L[j].sev = "high"}
                  /\ p = [j \in 1..n |-> L[j].prio]
  OBVIOUS
<1>4. D \in SUBSET (1..n) /\ i \in D /\ \A j \in 1..n : p[j] \in Int
  BY <1>0, <1>1, <1>2, <1>3
<1>5. PICK k \in D : FirstOf(k, D, p)
  BY <1>1, <1>4, FirstExists
<1>6. k \in A /\ k \in 1..n /\ L[k].sev = "high" /\ L[k].cat = L[i].cat
  BY <1>2, <1>3
<1>7. ASSUME NEW j \in A \ {k}, L[j].cat = L[k].cat
      PROVE  Stronger(e, k, j) \/ (~Stronger(e, j, k) /\ k < j)
  <2>1. j \in 1..n /\ L[j].prio \in Int /\ L[k].prio \in Int /\ Severity(L[k]) = 3
    BY <1>1, <1>2, <1>6 DEF Severity
  <2>2. CASE L[j].sev = "high"
    <3>1. j \in D /\ Severity(L[j]) = 3
      BY <1>3, <1>6, <1>7, <2>2 DEF Severity
    <3>2. p[j] < p[k] \/ (p[j] = p[k] /\ k <= j)
      BY <1>5, <3>1 DEF FirstOf
    <3>3. p[j] = L[j].prio /\ p[k] = L[k].prio
      BY <1>3, <1>6, <2>1
    <3> QED BY <1>0, <1>6, <1>7, <2>1, <3>1, <3>2, <3>3 DEF Stronger
  <2>3. CASE L[j].sev # "high"
    <3>1. Severity(L[j]) \in {1, 2}
      BY <2>3 DEF Severity
    <3> QED BY <1>0, <2>1, <3>1 DEF Stronger
  <2> QED BY <2>2, <2>3
<1>8. PICK r : r = [cat |-> L[k].cat, conf |-> L[k].conf, sev |-> L[k].sev, action |-> L[k].action]
  OBVIOUS
<1>9. A = {j \in DOMAIN e.rules : Fires(e, e.rules[j], t)}
  BY <1>0, <1>1, <1>2
<1>10. r \in EvaluateRules(e, t)
  BY <1>0, <1>6, <1>7, <1>8, <1>9 DEF EvaluateRules
<1> QED BY <1>6, <1>8, <1>10

\* The rules in the file, in the loader and in the engine are lists, and a
\* delivered reply was judged by the engine that is there.
GateInv ==
    /\ ruleFile \in RuleFiles
    /\ RuleList(loaded.rules) /\ RuleList(engine.rules)
    /\ loaded = [rules |-> loaded.rules, cats |-> loaded.cats, mapping |-> loaded.mapping]
    /\ exchange.pc # "rest" => exchange = [pc |-> exchange.pc, request |-> exchange.request,
                                          reply |-> exchange.reply]
    /\ exchange.pc = "delivered" => ~ShouldBlock(PostRestore(engine, exchange.reply))

\* Every step of the gates.
LEMMA GateStep == ASSUME GateInv, [GateNext]_gateVars PROVE GateInv'
<1>0. AtRest.pc = "rest"
  BY DEF AtRest
<1>1. CASE UNCHANGED gateVars
  BY <1>1 DEF gateVars, GateInv, RuleList, ShouldBlock
<1>2. CASE \E f \in RuleFiles : WriteRuleFile(f)
  BY <1>2 DEF WriteRuleFile, GateInv
<1>3. CASE LoadRules
  <2>1. PICK o, f : o = loaded /\ f = ruleFile
    OBVIOUS
  <2>2. /\ RuleList(o.rules) /\ f \in RuleFiles
        /\ o = [rules |-> o.rules, cats |-> o.cats, mapping |-> o.mapping]
    BY <2>1 DEF GateInv
  <2>3. PICK w : w = loaded'
    OBVIOUS
  <2>4. \/ w = [rules |-> f.rules, cats |-> f.cats, mapping |-> f.mapping]
        \/ w = [o EXCEPT !.cats = << >>]
        \/ w = o
    BY <1>3, <2>1, <2>3 DEF LoadRules
  <2>5. RuleList(f.rules)
    BY <2>2, RuleAssumption DEF RuleList
  <2>6. /\ RuleList(w.rules)
        /\ w = [rules |-> w.rules, cats |-> w.cats, mapping |-> w.mapping]
    BY <2>2, <2>4, <2>5
  <2> QED BY <1>3, <2>3, <2>6 DEF LoadRules, GateInv
<1>4. CASE BuildEngine
  BY <1>0, <1>4 DEF BuildEngine, GateInv
<1>5. ASSUME NEW t, Inbound(t) PROVE GateInv'
  BY <1>5 DEF Inbound, GateInv
<1>6. ASSUME NEW t, CallNext(t) PROVE GateInv'
  <2>1. PICK x, y : x = exchange /\ y = exchange'
    OBVIOUS
  <2>2. /\ x = [pc |-> x.pc, request |-> x.request, reply |-> x.reply]
    BY <1>6, <2>1 DEF CallNext, GateInv
  <2>3. \E q \in {"refused", "replied"} : y = [x EXCEPT !.reply = t, !.pc = q]
    BY <1>6, <2>1 DEF CallNext
  <2>4. y = [pc |-> y.pc, request |-> y.request, reply |-> y.reply] /\ y.pc # "delivered"
    BY <2>2, <2>3
  <2> QED BY <1>6, <2>1, <2>4 DEF CallNext, GateInv
<1>7. ASSUME NEW g, Outbound(g) PROVE GateInv'
  <2>1. PICK x, y : x = exchange /\ y = exchange'
    OBVIOUS
  <2>2. /\ x = [pc |-> x.pc, request |-> x.request, reply |-> x.reply]
    BY <1>7, <2>1 DEF Outbound, GateInv
  <2>3. \/ y = [x EXCEPT !.pc = "withheld"]
        \/ y = [x EXCEPT !.pc = "delivered"] /\ ~ShouldBlock(PostRestore(engine, x.reply))
    BY <1>7, <2>1 DEF Outbound
  <2>4. /\ y = [pc |-> y.pc, request |-> y.request, reply |-> y.reply] /\ y.reply = x.reply
        /\ y.pc = "delivered" => ~ShouldBlock(PostRestore(engine, y.reply))
    BY <2>2, <2>3
  <2>5. (exchange.pc = "delivered" => ~ShouldBlock(PostRestore(engine, exchange.reply)))'
    BY <1>7, <2>1, <2>4 DEF Outbound, ShouldBlock
  <2> QED BY <1>7, <2>1, <2>4, <2>5 DEF Outbound, GateInv
<1>8. CASE EndExchange
  BY <1>0, <1>8 DEF EndExchange, GateInv
<1> QED BY <1>1, <1>2, <1>3, <1>4, <1>5, <1>6, <1>7, <1>8 DEF GateNext

-----------------------------------------------------------------------------
(***************************************************************************)
(* The sliding window, for any alphabet, pattern and window.               *)
(***************************************************************************)

\* The pattern stands in text behind position i.
Stands(s, i) ==
    i + Len(Pattern) <= Len(s) /\ \A k \in 1..Len(Pattern) : s[i + k] = Pattern[k]

\* An occurrence is a position where the pattern stands.
LEMMA OccursStands ==
    ASSUME NEW s \in Seq(Alphabet) PROVE Occurs(s) <=> \E i \in Nat : Stands(s, i)
<1>0. PICK p, n : p = Len(Pattern) /\ n = Len(s)
  OBVIOUS
<1>1. p \in Nat \ {0} /\ n \in Nat /\ Pattern \in Seq(Alphabet)
  BY <1>0, WindowAssumption
<1>2. ASSUME NEW i \in 0..(n - p) PROVE SubSeq(s, i + 1, i + p) = Pattern <=> Stands(s, i)
  <2>1. PICK u : u = SubSeq(s, i + 1, i + p)
    OBVIOUS
  <2>2. u \in Seq(Alphabet) /\ Len(u) = p /\ \A k \in 1..p : u[k] = s[i + k]
    <3>1. PICK f, e : f = i + 1 /\ e = i + p
      OBVIOUS
    <3>2. f \in 1..n /\ e \in 1..n /\ f <= e /\ e - f + 1 = p
      BY <1>1, <3>1
    <3>3. u \in Seq(Alphabet) /\ Len(u) = e - f + 1 /\ \A k \in 1..(e - f + 1) : u[k] = s[(f + k) - 1]
      BY <1>0, <2>1, <3>1, <3>2
    <3>4. \A k \in 1..p : (f + k) - 1 = i + k
      BY <1>1, <3>1
    <3> QED BY <3>2, <3>3, <3>4
  <2>3. u = Pattern <=> \A k \in 1..p : u[k] = Pattern[k]
    BY <1>0, <1>1, <2>2, SeqEqual
  <2>4. i + p <= n
    BY <1>1
  <2>5. Stands(s, i) <=> \A k \in 1..p : s[i + k] = Pattern[k]
    BY <1>0, <2>4 DEF Stands
  <2>6. (\A k \in 1..p : u[k] = Pattern[k]) <=> (\A k \in 1..p : s[i + k] = Pattern[k])
    BY <2>2
  <2> QED BY <2>1, <2>3, <2>5, <2>6
<1>3. ASSUME NEW i \in Nat, Stands(s, i) PROVE i \in 0..(n - p) /\ n >= p
  BY <1>0, <1>1, <1>3 DEF Stands
<1>4. ASSUME Occurs(s) PROVE \E i \in Nat : Stands(s, i)
  <2>1. PICK i \in 0..(n - p) : SubSeq(s, i + 1, i + p) = Pattern
    BY <1>0, <1>4 DEF Occurs
  <2>2. Stands(s, i) /\ i \in Nat
    BY <1>1, <1>2, <2>1
  <2> QED BY <2>2
<1>5. ASSUME NEW i \in Nat, Stands(s, i) PROVE Occurs(s)
  BY <1>0, <1>2, <1>3, <1>5 DEF Occurs
<1> QED BY <1>4, <1>5

\* The window holds the last WindowSize symbols.
LEMMA TrimmedIs ==
    ASSUME NEW s \in Seq(Alphabet)
    PROVE  /\ Trimmed(s) \in Seq(Alphabet)
           /\ Len(Trimmed(s)) = IF Len(s) > WindowSize THEN WindowSize ELSE Len(s)
           /\ \A k \in 1..Len(Trimmed(s)) : Trimmed(s)[k] = s[Len(s) - Len(Trimmed(s)) + k]
<1>1. WindowSize \in Nat /\ Len(s) \in Nat
  BY WindowAssumption
<1>2. CASE ~(Len(s) > WindowSize)
  <2>1. Trimmed(s) = s
    BY <1>2 DEF Trimmed
  <2> QED BY <1>1, <1>2, <2>1
<1>3. CASE Len(s) > WindowSize
  <2>m. PICK m : m = Len(s) - WindowSize + 1
    OBVIOUS
  <2>1. PICK u : u = SubSeq(s, m, Len(s))
    OBVIOUS
  <2>2. Trimmed(s) = u /\ m \in 1..(Len(s) + 1)
    BY <1>1, <1>3, <2>m, <2>1 DEF Trimmed
  <2>3. u \in Seq(Alphabet) /\ Len(u) = Len(s) - m + 1 /\ \A k \in 1..Len(u) : u[k] = s[m + k - 1]
    BY <1>1, <2>1, <2>2
  <2>4. Len(u) = WindowSize
    BY <1>1, <2>m, <2>3
  <2>5. ASSUME NEW k \in 1..Len(u) PROVE u[k] = s[Len(s) - Len(u) + k]
    <3>1. m + k - 1 = Len(s) - Len(u) + k
      BY <1>1, <2>m, <2>4
    <3> QED BY <2>3, <3>1
  <2> QED BY <1>3, <2>2, <2>3, <2>4, <2>5
<1> QED BY <1>2, <1>3

\* The window after a chunk is the window of everything streamed.
LEMMA TrimmedTwice ==
    ASSUME NEW s \in Seq(Alphabet), NEW c \in Seq(Alphabet)
    PROVE  Trimmed(Trimmed(s) \o c) = Trimmed(s \o c)
<1>0. PICK t, u, v : t = Trimmed(s) /\ u = t \o c /\ v = s \o c
  OBVIOUS
<1>1. /\ t \in Seq(Alphabet) /\ Len(t) = IF Len(s) > WindowSize THEN WindowSize ELSE Len(s)
      /\ \A k \in 1..Len(t) : t[k] = s[Len(s) - Len(t) + k]
  BY <1>0, TrimmedIs
<1>2. WindowSize \in Nat /\ Len(s) \in Nat /\ Len(c) \in Nat /\ Len(t) \in Nat /\ Len(t) <= Len(s)
  BY <1>1, WindowAssumption
<1>3. /\ u \in Seq(Alphabet) /\ Len(u) = Len(t) + Len(c)
      /\ \A k \in 1..Len(u) : u[k] = IF k <= Len(t) THEN t[k] ELSE c[k - Len(t)]
  BY <1>0, <1>1
<1>4. /\ v \in Seq(Alphabet) /\ Len(v) = Len(s) + Len(c)
      /\ \A k \in 1..Len(v) : v[k] = IF k <= Len(s) THEN s[k] ELSE c[k - Len(s)]
  BY <1>0
<1>5. \A k \in 1..Len(u) : u[k] = v[Len(v) - Len(u) + k]
  <2> SUFFICES ASSUME NEW k \in 1..Len(u) PROVE u[k] = v[Len(v) - Len(u) + k]
    OBVIOUS
  <2>0. PICK d : d = Len(s) - Len(t) + k
    OBVIOUS
  <2>1. Len(v) - Len(u) + k = d /\ d \in 1..Len(v)
    BY <1>2, <1>3, <1>4, <2>0
  <2>4. v[d] = IF d <= Len(s) THEN s[d] ELSE c[d - Len(s)]
    BY <1>4, <2>1
  <2>2. CASE k <= Len(t)
    <3>0. k \in 1..Len(t)
      BY <1>2, <1>3, <2>2
    <3>1. u[k] = s[Len(s) - Len(t) + k]
      BY <1>1, <1>3, <2>2, <3>0
    <3>2. d <= Len(s)
      BY <1>2, <1>3, <2>0, <2>2
    <3> QED BY <2>0, <2>1, <2>4, <3>1, <3>2
  <2>3. CASE ~(k <= Len(t))
    <3>1. u[k] = c[k - Len(t)]
      BY <1>3, <2>3
    <3>2. ~(d <= Len(s)) /\ d - Len(s) = k - Len(t)
      BY <1>2, <1>3, <2>0, <2>3
    <3> QED BY <2>1, <2>4, <3>1, <3>2
  <2> QED BY <2>2, <2>3
<1>6. PICK x, y : x = Trimmed(u) /\ y = Trimmed(v)
  OBVIOUS
<1>7. /\ x \in Seq(Alphabet) /\ Len(x) = (IF Len(u) > WindowSize THEN WindowSize ELSE Len(u))
      /\ \A k \in 1..Len(x) : x[k] = u[Len(u) - Len(x) + k]
  BY <1>3, <1>6, TrimmedIs
<1>8. /\ y \in Seq(Alphabet) /\ Len(y) = (IF Len(v) > WindowSize THEN WindowSize ELSE Len(v))
      /\ \A k \in 1..Len(y) : y[k] = v[Len(v) - Len(y) + k]
  BY <1>4, <1>6, TrimmedIs
<1>9. Len(x) = Len(y) /\ Len(x) \in Nat /\ Len(x) <= Len(u) /\ Len(u) \in Nat /\ Len(v) \in Nat
  BY <1>1, <1>2, <1>3, <1>4, <1>7, <1>8
<1>10. \A k \in 1..Len(x) : x[k] = y[k]
  <2> SUFFICES ASSUME NEW k \in 1..Len(x) PROVE x[k] = y[k]
    OBVIOUS
  <2>1. PICK m : m = Len(u) - Len(x) + k
    OBVIOUS
  <2>2. m \in 1..Len(u) /\ Len(v) - Len(u) + m = Len(v) - Len(y) + k
    BY <1>9, <2>1
  <2> QED BY <1>5, <1>7, <1>8, <1>9, <2>1, <2>2
<1> QED BY <1>0, <1>6, <1>7, <1>8, <1>9, <1>10, SeqEqual

\* The window is cut from what was streamed, and no occurrence was missed.
WindowInv == streamed \in Seq(Alphabet) /\ buffer = Trimmed(streamed) /\ WindowSees

\* A chunk is a sequence of its length.
LEMMA ChunkIsSeq ==
    ASSUME NEW n \in 1..MaxWindowChunk, NEW c \in [1..n -> Alphabet]
    PROVE  c \in Seq(Alphabet) /\ Len(c) = n /\ n <= MaxWindowChunk /\ n \in Nat
<1>1. n \in Nat /\ n <= MaxWindowChunk
  BY WindowAssumption
<1> QED BY <1>1

\* An occurrence that ends in the new chunk lies in the window: with room for
\* the chunk and the rest of the pattern it cannot begin before it.
LEMMA NewOccurrenceInWindow ==
    ASSUME NEW s \in Seq(Alphabet), NEW c \in Seq(Alphabet), Len(c) <= MaxWindowChunk,
           MaxWindowChunk + Len(Pattern) - 1 <= WindowSize, ~Occurs(s), Occurs(s \o c)
    PROVE  Occurs(Trimmed(s \o c))
<1>0. PICK p, v, t : p = Len(Pattern) /\ v = s \o c /\ t = Trimmed(v)
  OBVIOUS
<1>1. /\ p \in Nat \ {0} /\ Len(s) \in Nat /\ Len(c) \in Nat /\ WindowSize \in Nat /\ MaxWindowChunk \in Nat
      /\ v \in Seq(Alphabet) /\ Len(v) = Len(s) + Len(c)
      /\ \A k \in 1..Len(v) : v[k] = IF k <= Len(s) THEN s[k] ELSE c[k - Len(s)]
  BY <1>0, WindowAssumption
<1>2. PICK i \in Nat : Stands(v, i)
  BY <1>0, <1>1, OccursStands
<1>3. i + p <= Len(v) /\ \A k \in 1..p : v[i + k] = Pattern[k]
  BY <1>0, <1>2 DEF Stands
<1>4. ~(i + p <= Len(s))
  <2> SUFFICES ASSUME i + p <= Len(s) PROVE FALSE
    OBVIOUS
  <2>1. \A k \in 1..p : i + k \in 1..Len(v) /\ i + k <= Len(s)
    BY <1>1
  <2>2. \A k \in 1..p : s[i + k] = Pattern[k]
    BY <1>1, <1>3, <2>1
  <2>3. Stands(s, i)
    BY <1>0, <2>2 DEF Stands
  <2> QED BY <2>3, OccursStands
<1>5. /\ t \in Seq(Alphabet) /\ Len(t) = (IF Len(v) > WindowSize THEN WindowSize ELSE Len(v))
      /\ \A k \in 1..Len(t) : t[k] = v[Len(v) - Len(t) + k]
  BY <1>0, <1>1, TrimmedIs
<1>6. PICK d, e : d = Len(v) - Len(t) /\ e = i - d
  OBVIOUS
<1>7. Len(c) + p - 1 <= WindowSize
  BY <1>0, <1>1
<1>8. e \in Nat /\ e + p <= Len(t) /\ d \in Nat /\ d + e = i
  <2>1. PICK ls, lc, lv, lt : ls = Len(s) /\ lc = Len(c) /\ lv = Len(v) /\ lt = Len(t)
    OBVIOUS
  <2>2. /\ p \in Nat \ {0} /\ ls \in Nat /\ lc \in Nat /\ lv = ls + lc /\ WindowSize \in Nat /\ i \in Nat
        /\ i + p <= lv /\ ~(i + p <= ls) /\ lc + p - 1 <= WindowSize
    BY <1>1, <1>3, <1>4, <1>7, <2>1
  <2>3. lt = (IF lv > WindowSize THEN WindowSize ELSE lv) /\ d = lv - lt /\ e = i - d
    BY <1>5, <1>6, <2>1
  <2>4. CASE lv > WindowSize
    <3>1. lt = WindowSize /\ d = lv - WindowSize
      BY <2>3, <2>4
    <3> QED BY <2>1, <2>2, <2>3, <2>4, <3>1
  <2>5. CASE ~(lv > WindowSize)
    <3>1. lt = lv /\ d = 0 /\ e = i
      BY <2>2, <2>3, <2>5
    <3> QED BY <2>1, <2>2, <3>1
  <2> QED BY <2>4, <2>5
<1>9. ASSUME NEW k \in 1..p PROVE t[e + k] = Pattern[k]
  <2>1. e + k \in 1..Len(t) /\ d + (e + k) = i + k
    BY <1>1, <1>5, <1>8
  <2>2. t[e + k] = v[d + (e + k)]
    BY <1>5, <1>6, <2>1
  <2> QED BY <1>3, <2>1, <2>2
<1>10. Stands(t, e)
  BY <1>0, <1>8, <1>9 DEF Stands
<1> QED BY <1>0, <1>5, <1>8, <1>10, OccursStands

\* Every step of the window.
LEMMA WindowStep == ASSUME WindowInv, [WindowNext]_windowVars PROVE WindowInv'
<1>1. CASE UNCHANGED windowVars
  BY <1>1 DEF windowVars, WindowInv, WindowSees, Trimmed, Occurs
<1>2. CASE FlushWindow
  <2>1. << >> \in Seq(Alphabet) /\ Len(<< >>) = 0
    OBVIOUS
  <2>2. Trimmed(<< >>) = << >>
    BY <2>1, WindowAssumption DEF Trimmed
  <2>3. ~Occurs(<< >>)
    BY <2>1, WindowAssumption DEF Occurs
  <2>4. WindowSees'
    BY <1>2, <2>3 DEF FlushWindow, WindowSees, Occurs
  <2> QED BY <1>2, <2>1, <2>2, <2>4 DEF FlushWindow, WindowInv, Trimmed
<1>3. ASSUME NEW n \in 1..MaxWindowChunk, NEW c \in [1..n -> Alphabet], WindowIngest(c) PROVE WindowInv'
  <2>1. PICK s, v : s = streamed /\ v = s \o c
    OBVIOUS
  <2>2. s \in Seq(Alphabet) /\ buffer = Trimmed(s) /\ c \in Seq(Alphabet) /\ Len(c) <= MaxWindowChunk
    BY <2>1, ChunkIsSeq DEF WindowInv
  <2>3. v \in Seq(Alphabet) /\ Trimmed(buffer \o c) = Trimmed(v)
    BY <2>1, <2>2, TrimmedTwice
  <2>4. streamed' = v /\ buffer' = Trimmed(v) /\ (hit' <=> hit \/ Occurs(Trimmed(v)))
    BY <1>3, <2>1, <2>3 DEF WindowIngest
  <2>5. ASSUME MaxWindowChunk + Len(Pattern) - 1 <= WindowSize, Occurs(v) PROVE hit'
    <3>1. CASE Occurs(s)
      BY <2>1, <2>4, <2>5, <3>1 DEF WindowInv, WindowSees
    <3>2. CASE ~Occurs(s)
      BY <2>1, <2>2, <2>4, <2>5, <3>2, NewOccurrenceInWindow
    <3> QED BY <3>1, <3>2
  <2>6. WindowSees'
    BY <2>4, <2>5 DEF WindowSees, Occurs
  <2>7. buffer' = Trimmed(streamed')
    BY <2>4
  <2> QED BY <2>3, <2>4, <2>6, <2>7 DEF WindowInv, Trimmed
<1> QED BY <1>1, <1>2, <1>3 DEF WindowNext

-----------------------------------------------------------------------------
(***************************************************************************)
(* The patterns of the inline firewall.                                    *)
(***************************************************************************)

\* A database that counts as loaded has compiled what it lists.
InlineInv ==
    /\ jailbreak = [patterns |-> jailbreak.patterns, compiled |-> jailbreak.compiled,
                    loaded |-> jailbreak.loaded]
    /\ ListedPatternsMatch

\* Every step of the inline firewall.
LEMMA InlineStep == ASSUME InlineInv, [InlineNext]_inlineVars PROVE InlineInv'
<1>0. PICK x, y : x = jailbreak /\ y = jailbreak'
  OBVIOUS
<1>1. /\ x = [patterns |-> x.patterns, compiled |-> x.compiled, loaded |-> x.loaded]
      /\ x.loaded => x.patterns = x.compiled
  BY <1>0 DEF InlineInv, ListedPatternsMatch
<1>2. ASSUME /\ y = [patterns |-> y.patterns, compiled |-> y.compiled, loaded |-> y.loaded]
             /\ y.loaded => y.patterns = y.compiled
      PROVE  InlineInv'
  BY <1>0, <1>2 DEF InlineInv, ListedPatternsMatch
<1>3. CASE UNCHANGED inlineVars \/ \E f \in PatternFiles : WritePatternFile(f)
  <2>1. y = x
    BY <1>0, <1>3 DEF inlineVars, WritePatternFile
  <2> QED BY <1>1, <1>2, <2>1
<1>4. CASE ReloadPatterns
  <2>1. PICK u : u = Unloaded(x)
    OBVIOUS
  <2>2. u = [patterns |-> u.patterns, compiled |-> u.compiled, loaded |-> FALSE]
    BY <1>1, <2>1 DEF Unloaded
  <2>3. y = Loaded(u)
    BY <1>0, <1>4, <2>1 DEF ReloadPatterns
  <2>4. PICK f, h : f = patternFile.fails /\ h = patternFile.patterns
    OBVIOUS
  <2>5. \/ y = [patterns |-> h, compiled |-> h, loaded |-> TRUE]
        \/ y = [u EXCEPT !.patterns = h]
        \/ y = [patterns |-> DefaultPatterns, compiled |-> DefaultPatterns, loaded |-> TRUE]
        \/ y = u
    <3>1. CASE f = "no"
      BY <2>3, <2>4, <3>1 DEF Loaded
    <3>2. CASE f = "compile"
      BY <2>3, <2>4, <3>2 DEF Loaded
    <3>3. CASE f = "absent"
      BY <2>3, <2>4, <3>3 DEF Loaded
    <3>4. CASE f \notin {"no", "compile", "absent"}
      BY <2>3, <2>4, <3>4 DEF Loaded
    <3> QED BY <3>1, <3>2, <3>3, <3>4
  <2>6. /\ y = [patterns |-> y.patterns, compiled |-> y.compiled, loaded |-> y.loaded]
        /\ y.loaded => y.patterns = y.compiled
    <3>1. CASE y = [u EXCEPT !.patterns = h]
      <4>0. PICK ps, cs : ps = u.patterns /\ cs = u.compiled
        OBVIOUS
      <4>1. y = [[patterns |-> ps, compiled |-> cs, loaded |-> FALSE] EXCEPT !.patterns = h]
        BY <2>2, <3>1, <4>0
      <4> QED BY <4>1
    <3> QED BY <2>2, <2>5, <3>1
  <2> QED BY <1>2, <2>6
<1>5. CASE \E t \in InlineTexts, audited \in BOOLEAN : EvaluateInline(t, audited)
  <2>1. y = x \/ y = Armed(x)
    BY <1>0, <1>5 DEF EvaluateInline
  <2> QED BY <1>1, <1>2, <2>1 DEF Armed
<1> QED BY <1>3, <1>4, <1>5 DEF InlineNext

-----------------------------------------------------------------------------
(***************************************************************************)
(* DLP and classification, for any words, patterns, entities and levels.   *)
(***************************************************************************)

KnownActions == {"allow", "anonymize", "redact", "quarantine", "block"}

\* The order of the actions.
LEMMA ActionRanks ==
    /\ ActionRank("allow") = 1 /\ ActionRank("anonymize") = 2 /\ ActionRank("redact") = 3
    /\ ActionRank("quarantine") = 4 /\ ActionRank("block") = 5
    /\ {Actions[i] : i \in DOMAIN Actions} = KnownActions
<1>1. /\ DOMAIN Actions = 1..5 /\ Actions[1] = "allow" /\ Actions[2] = "anonymize"
      /\ Actions[3] = "redact" /\ Actions[4] = "quarantine" /\ Actions[5] = "block"
  BY DEF Actions
<1>2. 1..5 = {1, 2, 3, 4, 5}
  OBVIOUS
<1>3. ASSUME NEW n \in 1..5 PROVE ActionRank(Actions[n]) = n
  <2>1. \A m \in 1..5 : Actions[m] = Actions[n] => m = n
    BY <1>1, <1>2
  <2> QED BY <1>1, <2>1 DEF ActionRank
<1>4. {Actions[i] : i \in DOMAIN Actions} = KnownActions
  BY <1>1, <1>2 DEF KnownActions
<1> QED BY <1>1, <1>3, <1>4

\* The strictest action found is one of them; when it stops nothing, nothing
\* found asked to be stopped.
LEMMA StrictestAction ==
    ASSUME NEW found, ~Raises(found)
    PROVE  /\ MaxAction(found) \in KnownActions
           /\ ~IsBlocked(MaxAction(found)) => found \intersect {"block", "quarantine"} = {}
<1>1. found \subseteq KnownActions
  BY ActionRanks DEF Raises
<1>2. \A x \in KnownActions : ActionRank(x) \in 1..5
  BY ActionRanks DEF KnownActions
<1>3. CASE found = {}
  BY <1>3 DEF MaxAction, KnownActions
<1>4. CASE found # {}
  <2>1. \E x \in found : \A y \in found : ActionRank(y) <= ActionRank(x)
    <3>1. CASE "block" \in found
      BY <1>1, <1>2, <3>1, ActionRanks
    <3>2. CASE "block" \notin found /\ "quarantine" \in found
      BY <1>1, <3>2, ActionRanks DEF KnownActions
    <3>3. CASE found \subseteq {"allow", "anonymize", "redact"} /\ "redact" \in found
      BY <3>3, ActionRanks
    <3>4. CASE found \subseteq {"allow", "anonymize"} /\ "anonymize" \in found
      BY <3>4, ActionRanks
    <3>5. CASE found = {"allow"}
      BY <3>5, ActionRanks
    <3> QED BY <1>1, <1>4, <3>1, <3>2, <3>3, <3>4, <3>5 DEF KnownActions
  <2>2. PICK m : m = MaxAction(found)
    OBVIOUS
  <2>3. m \in found /\ \A y \in found : ActionRank(y) <= ActionRank(m)
    BY <1>4, <2>1, <2>2 DEF MaxAction
  <2>4. m \in KnownActions
    BY <1>1, <2>3
  <2>5. m \notin {"block", "quarantine"} => ActionRank(m) \in {1, 2, 3}
    BY <2>4, ActionRanks DEF KnownActions
  <2>6. ~IsBlocked(m) => found \intersect {"block", "quarantine"} = {}
    BY <2>3, <2>5, ActionRanks DEF IsBlocked
  <2> QED BY <2>2, <2>4, <2>6
<1> QED BY <1>3, <1>4

\* The level detected is one of the five.
LEMMA DetectedLevel ==
    ASSUME entityMap \in [Entities -> 0..4], NEW es \in SUBSET Entities
    PROVE  StrongestOf(es) \in 0..4
<1>1. PICK Ls : Ls = {entityMap[x] : x \in es}
  OBVIOUS
<1>2. Ls \subseteq {0, 1, 2, 3, 4}
  BY <1>1
<1>3. CASE Ls = {}
  BY <1>1, <1>3 DEF StrongestOf
<1>4. CASE Ls # {}
  <2>1. \E l \in Ls : \A m \in Ls : m <= l
    <3>1. CASE 4 \in Ls
      BY <1>2, <3>1
    <3>2. CASE 4 \notin Ls /\ 3 \in Ls
      BY <1>2, <3>2
    <3>3. CASE Ls \subseteq {0, 1, 2} /\ 2 \in Ls
      BY <3>3
    <3>4. CASE Ls \subseteq {0, 1} /\ 1 \in Ls
      BY <3>4
    <3>5. CASE Ls = {0}
      BY <3>5
    <3> QED BY <1>2, <1>4, <3>1, <3>2, <3>3, <3>4, <3>5
  <2>2. PICK l : l = StrongestOf(es)
    OBVIOUS
  <2>3. l = CHOOSE k \in Ls : \A m \in Ls : m <= k
    BY <1>1, <1>4, <2>2 DEF StrongestOf
  <2>4. l \in Ls
    BY <2>1, <2>3, Zenon
  <2> QED BY <1>2, <2>2, <2>4
<1> QED BY <1>3, <1>4

\* A request at the stage, after classification, after inspection.
RequestShape(j) ==
    /\ j = [pc |-> j.pc, tenant |-> j.tenant, text |-> j.text, entities |-> j.entities,
            client |-> j.client, detected |-> j.detected, level |-> j.level, found |-> j.found,
            action |-> j.action]
    /\ j.entities \in SUBSET Entities /\ j.client \in ClientLevels

Classified(j) == j.detected \in 0..4 /\ j.level = WithClient(j.detected, j.client)

NothingToStop(j) ==
    /\ j.action \in {"allow", "anonymize", "redact"}
    /\ j.found \intersect {"block", "quarantine"} = {}
    /\ \A w \in j.text : Exfiltration(w) = {}

DlpSound(j) ==
    /\ j.pc # "rest" => RequestShape(j)
    /\ j.pc \in {"inspect", "decide"} => Classified(j)
    /\ j.pc = "decide" => NothingToStop(j)
    /\ j.pc = "forwarded" =>
          /\ j.found \intersect {"block", "quarantine"} = {}
          /\ \A w \in j.text : Exfiltration(w) = {}
          /\ j.detected < 4 /\ j.client # 4

DlpInv == entityMap \in [Entities -> 0..4] /\ DlpSound(judged)

\* Every step of DLP.
LEMMA DlpStep == ASSUME DlpInv, [DlpNext]_dlpVars PROVE DlpInv'
<1>0. PICK x, y : x = judged /\ y = judged'
  OBVIOUS
<1>1. entityMap \in [Entities -> 0..4] /\ DlpSound(x)
  BY <1>0 DEF DlpInv
<1>2. ASSUME DlpSound(y), entityMap' \in [Entities -> 0..4] PROVE DlpInv'
  <2>1. DlpSound(judged)'
    BY <1>0, <1>2 DEF DlpSound, RequestShape, Classified, NothingToStop
  <2> QED BY <1>2, <2>1 DEF DlpInv
<1>3. CASE UNCHANGED dlpVars \/ \E t \in Tenants, f \in TenantFiles : LoadTenantPatterns(t, f)
  BY <1>0, <1>1, <1>2, <1>3 DEF dlpVars, LoadTenantPatterns
<1>4. CASE \E z \in Entities, l \in 0..4 : UpdateEntityMap(z, l)
  BY <1>0, <1>1, <1>2, <1>4 DEF UpdateEntityMap
<1>5. ASSUME NEW t \in Tenants, NEW words \in SUBSET Items, NEW es \in SUBSET Entities,
             NEW c \in ClientLevels, Submit(t, words, es, c)
      PROVE  DlpInv'
  <2>1. y = [pc |-> "classify", tenant |-> t, text |-> words, entities |-> es,
             client |-> c, detected |-> 0, level |-> 0, found |-> {}, action |-> "allow"]
    BY <1>0, <1>5 DEF Submit
  <2>2. DlpSound(y)
    BY <2>1 DEF DlpSound, RequestShape
  <2> QED BY <1>1, <1>2, <1>5, <2>2 DEF Submit
<1>6. CASE Classify
  <2>1. PICK l : l = StrongestOf(x.entities)
    OBVIOUS
  <2>2. x.pc = "classify" /\ y = [x EXCEPT !.pc = "inspect", !.detected = l, !.level = WithClient(l, x.client)]
    BY <1>0, <1>6, <2>1 DEF Classify
  <2>3. RequestShape(x) /\ l \in 0..4
    BY <1>1, <2>1, <2>2, DetectedLevel DEF DlpSound, RequestShape
  <2>4. PICK k : k = WithClient(l, x.client)
    OBVIOUS
  <2>5. RequestShape(y) /\ y.pc = "inspect" /\ y.detected = l /\ y.level = k /\ y.client = x.client
    BY <2>2, <2>3, <2>4 DEF RequestShape
  <2>6. DlpSound(y)
    BY <2>3, <2>4, <2>5 DEF DlpSound, Classified
  <2> QED BY <1>1, <1>2, <1>6, <2>6 DEF Classify
<1>7. CASE InspectRequest
  <2>1. PICK f, m : f = Inspected(x.tenant, x.text) /\ m = MaxAction(f)
    OBVIOUS
  <2>2. /\ x.pc = "inspect"
        /\ \/ y = [x EXCEPT !.pc = "error", !.found = f]
           \/ y = [x EXCEPT !.found = f, !.action = m, !.pc = "stopped"]
           \/ y = [x EXCEPT !.found = f, !.action = m, !.pc = "decide"] /\ ~Raises(f) /\ ~IsBlocked(m)
    BY <1>0, <1>7, <2>1 DEF InspectRequest
  <2>3. RequestShape(x) /\ Classified(x)
    BY <1>1, <2>2 DEF DlpSound
  <2>4. /\ RequestShape(y) /\ y.pc \in {"error", "stopped", "decide"}
        /\ y.detected = x.detected /\ y.level = x.level /\ y.client = x.client
        /\ y.pc = "decide" => y.found = f /\ y.action = m /\ y.text = x.text /\ ~Raises(f) /\ ~IsBlocked(m)
    BY <2>2, <2>3 DEF RequestShape
  <2>5. ASSUME y.pc = "decide" PROVE NothingToStop(y)
    <3>1. m \in {"allow", "anonymize", "redact"} /\ f \intersect {"block", "quarantine"} = {}
      BY <2>1, <2>4, <2>5, StrictestAction DEF IsBlocked, KnownActions
    <3>2. "block" \notin f
      BY <3>1
    <3>3. \A w \in x.text : Exfiltration(w) = {}
      BY <2>1, <3>2 DEF Inspected
    <3> QED BY <2>4, <2>5, <3>1, <3>3 DEF NothingToStop
  <2>6. Classified(y)
    BY <2>3, <2>4 DEF Classified
  <2>7. DlpSound(y)
    BY <2>4, <2>5, <2>6 DEF DlpSound
  <2> QED BY <1>1, <1>2, <1>7, <2>7 DEF InspectRequest
<1>8. CASE Decide
  <2>1. PICK m : m = Tightened(x.action, ClassAction(x.level))
    OBVIOUS
  <2>2. /\ x.pc = "decide"
        /\ \/ y = [x EXCEPT !.action = m, !.pc = "stopped"]
           \/ y = [x EXCEPT !.action = m, !.pc = "forwarded"] /\ ~IsBlocked(m)
    BY <1>0, <1>8, <2>1 DEF Decide
  <2>3. RequestShape(x) /\ Classified(x) /\ NothingToStop(x)
    BY <1>1, <2>2 DEF DlpSound
  <2>4. /\ RequestShape(y) /\ y.pc \in {"stopped", "forwarded"}
        /\ y.detected = x.detected /\ y.client = x.client /\ y.found = x.found /\ y.text = x.text
        /\ y.pc = "forwarded" => ~IsBlocked(m)
    BY <2>2, <2>3 DEF RequestShape
  <2>5. ASSUME ~IsBlocked(m) PROVE x.detected < 4 /\ x.client # 4
    <3>1. PICK dl, cl, lv : dl = x.detected /\ cl = x.client /\ lv = x.level
      OBVIOUS
    <3>2. dl \in 0..4 /\ lv = WithClient(dl, cl) /\ cl \in 0..4 \union {9} /\ lv \in Int
      BY <2>3, <3>1, LevelAssumption DEF Classified, RequestShape, NoLevel, WithClient
    <3>3. ~(lv >= 4)
      <4> SUFFICES ASSUME lv >= 4 PROVE FALSE
        OBVIOUS
      <4>1. ClassAction(lv) = "block"
        BY DEF ClassAction
      <4>2. ActionRank(x.action) \in {1, 2, 3}
        BY <2>3, ActionRanks DEF NothingToStop
      <4>3. m = "block"
        BY <2>1, <3>1, <4>1, <4>2, ActionRanks DEF Tightened
      <4> QED BY <2>5, <4>3 DEF IsBlocked
    <3> QED BY <3>1, <3>2, <3>3 DEF WithClient, NoLevel
  <2>6. DlpSound(y)
    BY <2>3, <2>4, <2>5 DEF DlpSound, NothingToStop
  <2> QED BY <1>1, <1>2, <1>8, <2>6 DEF Decide
<1>9. CASE GateAnswer
  <2>1. y = [pc |-> "rest"]
    BY <1>0, <1>9 DEF GateAnswer
  <2>2. DlpSound(y)
    BY <2>1 DEF DlpSound
  <2> QED BY <1>1, <1>2, <1>9, <2>2 DEF GateAnswer
<1> QED BY <1>3, <1>4, <1>5, <1>6, <1>7, <1>8, <1>9 DEF DlpNext

-----------------------------------------------------------------------------
\* What the four parts keep.
GuardInv == GateInv /\ WindowInv /\ InlineInv /\ DlpInv

\* The invariant behind the guards: the engine a delivered reply passed, the
\* window cut from the stream, the compiled patterns, the request at each stage
\* of classification and DLP.
THEOREM GuardInvariant == GuardSpec => []GuardInv
<1>1. GuardInit => GateInv
  <2> SUFFICES ASSUME GateInit PROVE GateInv
    BY DEF GuardInit
  <2>1. PICK x : x = NoRules
    OBVIOUS
  <2>2. x.rules = << >> /\ x = [rules |-> x.rules, cats |-> x.cats, mapping |-> x.mapping]
    BY <2>1 DEF NoRules
  <2>3. RuleList(x.rules)
    BY <2>2 DEF RuleList
  <2>4. exchange.pc = "rest"
    BY DEF GateInit, AtRest
  <2> QED BY <2>1, <2>2, <2>3, <2>4 DEF GateInit, GateInv
<1>2. GuardInit => WindowInv
  <2> SUFFICES ASSUME WindowInit PROVE WindowInv
    BY DEF GuardInit
  <2>1. << >> \in Seq(Alphabet) /\ Len(<< >>) = 0
    OBVIOUS
  <2>2. Trimmed(<< >>) = << >> /\ ~Occurs(<< >>)
    BY <2>1, WindowAssumption DEF Trimmed, Occurs
  <2> QED BY <2>1, <2>2 DEF WindowInit, WindowInv, WindowSees
<1>3. GuardInit => InlineInv
  BY DEF GuardInit, InlineInit, InlineInv, ListedPatternsMatch
<1>4. GuardInit => DlpInv
  BY LevelAssumption DEF GuardInit, DlpInit, DlpInv, DlpSound
<1>5. GuardInv /\ [GuardNext]_guardVars => GuardInv'
  <2> SUFFICES ASSUME GuardInv, [GuardNext]_guardVars PROVE GuardInv'
    OBVIOUS
  <2>1. [GateNext]_gateVars /\ [WindowNext]_windowVars /\ [InlineNext]_inlineVars /\ [DlpNext]_dlpVars
    BY DEF GuardNext, guardVars
  <2> QED BY <2>1, GateStep, WindowStep, InlineStep, DlpStep DEF GuardInv
<1> QED BY <1>1, <1>2, <1>3, <1>4, <1>5, PTL DEF GuardSpec, GuardInv

\* A reply a rule of high severity fires on is not delivered, a pattern in a
\* stream is seen however it is cut, a loaded database matches with what it
\* lists, a forwarded request held nothing to be stopped: for any rules, texts,
\* windows, patterns, words and levels.
THEOREM GuardsDoHold == GuardSpec => []GuardsHold
<1>1. GuardInv => HighSeverityStopsReply
  <2> SUFFICES ASSUME GateInv, exchange.pc = "delivered", engine.mapping["high"] = "BLOCK",
                      NEW i \in DOMAIN engine.rules, Fires(engine, engine.rules[i], exchange.reply),
                      engine.rules[i].sev = "high"
               PROVE  FALSE
    BY DEF GuardInv, HighSeverityStopsReply
  <2>1. PICK w, t, R : w = engine /\ t = exchange.reply /\ R = EvaluateRules(w, t)
    OBVIOUS
  <2>2. PICK x \in R : x.sev = "high"
    BY <2>1, HighRuleStands DEF GateInv
  <2>3. "action" \in DOMAIN x
    BY <2>1, <2>2 DEF EvaluateRules
  <2>4. PICK z : z = [x EXCEPT !.action = w.mapping[x.sev]]
    OBVIOUS
  <2>5. z \in Mapped(w, R) /\ z.action = "BLOCK"
    BY <2>1, <2>2, <2>3, <2>4 DEF Mapped
  <2>6. ShouldBlock(PostRestore(w, t))
    BY <2>1, <2>5 DEF ShouldBlock, PostRestore
  <2> QED BY <2>1, <2>6 DEF GateInv
<1>2. GuardInv => WindowSees /\ ListedPatternsMatch
  BY DEF GuardInv, WindowInv, InlineInv
<1>3. GuardInv => SensitiveStopped
  BY DEF GuardInv, DlpInv, DlpSound, SensitiveStopped
<1>4. GuardInv => GuardsHold
  BY <1>1, <1>2, <1>3 DEF GuardsHold
<1> QED BY <1>4, GuardInvariant, PTL

-----------------------------------------------------------------------------
(***************************************************************************)
(* VoiceStream: the sliding window over the speech, the loading of the     *)
(* speech-to-text model, the transcript buffer and the WebSocket           *)
(* fragments, for any transcripts, any number of calls of transcribe() and *)
(* any number of fragments, in whatever order they arrive.                 *)
(***************************************************************************)

\* The segments that are heard.
Utterances == [text : Transcripts, start : Nat]

\* The segments of the speech that are not in the window any more.
Gone == Len(spoken) - Len(segments)

\* The window is the end of the speech.  What is not in it any more lies before
\* the last detection, and further back than the overlap; and the segments
\* follow each other in time.
VoiceInv ==
    /\ heard \in Nat /\ spoken \in Seq(Utterances) /\ segments \in Seq(Utterances)
    /\ Gone \in Nat
    /\ \A k \in 1..Len(segments) : segments[k] = spoken[Gone + k]
    /\ inspected \in Nat /\ inspected <= Len(spoken)
    /\ \A k \in 1..Len(spoken) : spoken[k].start + Dur <= heard * Dur
    /\ \A j, k \in 1..Len(spoken) : j <= k => spoken[j].start <= spoken[k].start
    /\ \A k \in 1..Gone : k < inspected /\ SegEnd(spoken[k]) + VoiceOverlap <= SegEnd(spoken[inspected])
    /\ EverySecretFound

\* Where a secret stands.
LEMMA SecretPlaces ==
    ASSUME NEW a \in Seq(Utterances), NEW z \in Secrets(a)
    PROVE  /\ z = <<z[1], z[2]>> /\ z[1] = <<z[1][1], z[1][2]>> /\ z[2] = <<z[2][1], z[2][2]>>
           /\ z[1][1] \in 1..Len(a) /\ z[1][2] \in DOMAIN a[z[1][1]].text
           /\ z[2][1] \in 1..Len(a) /\ z[2][2] \in DOMAIN a[z[2][1]].text
           /\ z[1][1] <= z[2][1]
<1>1. \A q \in Places(a) : q = <<q[1], q[2]>> /\ q[1] \in 1..Len(a) /\ q[2] \in DOMAIN a[q[1]].text
  BY DEF Places
<1>2. z = <<z[1], z[2]>> /\ z[1] \in Places(a) /\ z[2] \in Places(a)
  BY DEF Secrets
<1>3. z[1][1] < z[2][1] \/ (z[1][1] = z[2][1] /\ z[1][2] <= z[2][2])
  BY DEF Secrets
<1>4. z[1][1] <= z[2][1]
  BY <1>1, <1>2, <1>3
<1> QED BY <1>1, <1>2, <1>4, Zenon

\* The secret z, its segments moved by d; the segments of the secret z of the
\* list a stand in b too, moved by d; and the secret stands there, with the same
\* range of audio and the same text.
Moved(z, d) == << <<z[1][1] + d, z[1][2]>>, <<z[2][1] + d, z[2][2]>> >>
SegmentsMove(a, b, z, d) ==
    /\ z \in Secrets(a)
    /\ \A k \in z[1][1]..z[2][1] : k + d \in 1..Len(b) /\ b[k + d] = a[k]
SecretMoves(a, b, z, d) ==
    /\ Moved(z, d) \in Secrets(b)
    /\ Reported(b, Moved(z, d)) = Reported(a, z)

\* A secret moves with its segments.
LEMMA SecretsMove ==
    ASSUME NEW a \in Seq(Utterances), NEW b \in Seq(Utterances), NEW z, NEW d \in Int,
           SegmentsMove(a, b, z, d)
    PROVE  SecretMoves(a, b, z, d)
<1>1. PICK k, i, l, j : k = z[1][1] /\ i = z[1][2] /\ l = z[2][1] /\ j = z[2][2]
  OBVIOUS
<1>2. z \in Secrets(a) /\ \A x \in k..l : x + d \in 1..Len(b) /\ b[x + d] = a[x]
  BY <1>1 DEF SegmentsMove
<1>3. /\ z = << <<k, i>>, <<l, j>> >> /\ k \in 1..Len(a) /\ l \in 1..Len(a) /\ k <= l
      /\ i \in DOMAIN a[k].text /\ j \in DOMAIN a[l].text
  BY <1>1, <1>2, SecretPlaces
<1>4. k \in Int /\ l \in Int /\ k \in k..l /\ l \in k..l
  BY <1>3
<1>5. b[k + d] = a[k] /\ b[l + d] = a[l] /\ k + d \in 1..Len(b) /\ l + d \in 1..Len(b)
  BY <1>2, <1>4
<1>6. PICK p, q, r : p = <<k + d, i>> /\ q = <<l + d, j>> /\ r = <<p, q>>
  OBVIOUS
<1>7. /\ r = Moved(z, d) /\ r[1] = p /\ r[2] = q /\ z[1] = <<k, i>> /\ z[2] = <<l, j>>
      /\ p[1] = k + d /\ p[2] = i /\ q[1] = l + d /\ q[2] = j
  BY <1>1, <1>3, <1>6 DEF Moved
<1>8. p \in Places(b) /\ q \in Places(b)
  <2>1. i \in DOMAIN b[k + d].text /\ j \in DOMAIN b[l + d].text
    BY <1>3, <1>5
  <2>2. k + d \in DOMAIN b /\ l + d \in DOMAIN b
    BY <1>5
  <2> QED BY <1>6, <2>1, <2>2 DEF Places
<1>9. SpanText(b, p, q) = SpanText(a, z[1], z[2])
  <2>1. PICK m, n : m = (l + d) - (k + d) - 1 /\ n = l - k - 1
    OBVIOUS
  <2>2. m = n /\ (k + d = l + d <=> k = l)
    BY <1>4, <2>1
  <2>3. \A x \in 1..n : b[(k + d) + x].text = a[k + x].text
    <3> SUFFICES ASSUME NEW x \in 1..n PROVE b[(k + d) + x] = a[k + x]
      OBVIOUS
    <3>1. k + x \in k..l /\ (k + x) + d = (k + d) + x
      BY <1>4, <2>1
    <3> QED BY <1>2, <3>1
  <2>4. [x \in 1..m |-> b[(k + d) + x].text] = [x \in 1..n |-> a[k + x].text]
    BY <2>2, <2>3
  <2>5. Between(b, p, q) = Between(a, z[1], z[2])
    BY <1>7, <2>1, <2>4 DEF Between
  <2> QED BY <1>5, <1>7, <2>2, <2>5 DEF SpanText
<1>10. AudioOf(b, r) = AudioOf(a, z)
  <2>1. b[r[1][1]] = a[z[1][1]] /\ b[r[2][1]] = a[z[2][1]] /\ r[1][2] = z[1][2] /\ r[2][2] = z[2][2]
    BY <1>1, <1>5, <1>7
  <2> QED BY <2>1 DEF AudioOf
<1>11. r \in Secrets(b)
  <2>1. p[1] < q[1] \/ (p[1] = q[1] /\ p[2] <= q[2])
    <3>1. k < l \/ (k = l /\ i <= j)
      BY <1>2, <1>7 DEF Secrets
    <3> QED BY <1>4, <1>7, <3>1
  <2>2. SpanText(b, p, q) \in SecretForms
    BY <1>2, <1>9 DEF Secrets
  <2>3. r \in Places(b) \X Places(b)
    BY <1>6, <1>8
  <2> QED BY <1>7, <2>1, <2>2, <2>3 DEF Secrets
<1>12. Reported(b, r) = Reported(a, z)
  BY <1>7, <1>9, <1>10 DEF Reported
<1> QED BY <1>7, <1>11, <1>12 DEF SecretMoves

\* Pruning keeps an end of the window, and one segment at least: what goes ends
\* further back than the overlap.
LEMMA PrunedIsEnd ==
    ASSUME NEW a \in Seq(Utterances), a # << >>
    PROVE  \E f \in 1..Len(a) :
              /\ Pruned(a) = SubSeq(a, f, Len(a))
              /\ \A j \in 1..(f - 1) : ~(SegEnd(a[j]) > SegEnd(a[Len(a)]) - VoiceOverlap)
<1> DEFINE n == Len(a)
           stands(k) == k = n \/ SegEnd(a[k]) > SegEnd(a[n]) - VoiceOverlap
           T == {k \in 1..n : stands(k)}
<1>1. n \in Nat /\ n \in 1..n /\ n \in T /\ T \subseteq Nat
  OBVIOUS
<1>2. PICK m \in T : \A k \in T : m <= k
  <2> HIDE DEF T
  <2> QED BY <1>1, LeastElement
<1>3. m \in 1..n /\ stands(m) /\ \A j \in 1..(m - 1) : ~stands(j)
  BY <1>1, <1>2
<1> DEFINE f == CHOOSE k \in 1..n : stands(k) /\ \A j \in 1..(k - 1) : ~stands(j)
<1>4. f \in 1..n /\ \A j \in 1..(f - 1) : ~stands(j)
  BY <1>3
<1>5. Pruned(a) = SubSeq(a, f, n)
  BY DEF Pruned
<1>6. \A j \in 1..(f - 1) : ~(SegEnd(a[j]) > SegEnd(a[n]) - VoiceOverlap)
  BY <1>4
<1> HIDE DEF f, n
<1>7. \E g \in 1..n : /\ Pruned(a) = SubSeq(a, g, n)
                      /\ \A j \in 1..(g - 1) : ~(SegEnd(a[j]) > SegEnd(a[n]) - VoiceOverlap)
  BY <1>4, <1>5, <1>6
<1> QED BY <1>7 DEF n

\* What a round of the stream leaves: the window as it was or pruned, and
\* behind it everything found.
LEMMA HearChunkInv == ASSUME VoiceInv, NEW t \in Transcripts, HearChunk(t) PROVE VoiceInv'
<1> DEFINE seg == [text |-> t, start |-> heard * Dur]
           win == IF t = << >> THEN segments ELSE Append(segments, seg)
<1>1. PICK g : g = Gone /\ g \in Nat
  BY DEF VoiceInv
<1>2. PICK w, s : w = win /\ s = spoken'
  OBVIOUS
<1>3. PICK m : m = Len(segments) /\ m \in Nat
  BY DEF VoiceInv
<1>4. /\ Len(spoken) = g + m /\ heard \in Nat /\ heard' = heard + 1 /\ seg \in Utterances
      /\ heard * Dur \in Nat
  BY <1>1, <1>3, VoiceAssumption DEF VoiceInv, Gone, HearChunk, Utterances
<1>d. Dur \in Nat /\ VoiceOverlap \in Nat
  BY VoiceAssumption
<1>5. /\ w \in Seq(Utterances) /\ s \in Seq(Utterances) /\ Len(s) = g + Len(w)
      /\ \A k \in 1..Len(w) : w[k] = s[g + k]
      /\ Len(spoken) <= Len(s) /\ \A k \in 1..Len(spoken) : s[k] = spoken[k]
      /\ s = spoken \/ (Len(s) = Len(spoken) + 1 /\ s[Len(s)].start = heard * Dur)
  <2>1. CASE t = << >>
    <3>1. w = segments /\ s = spoken
      BY <1>2, <2>1 DEF HearChunk
    <3> QED BY <1>1, <1>3, <1>4, <3>1 DEF VoiceInv
  <2>2. CASE t # << >>
    <3>0. PICK x : x = heard * Dur
      OBVIOUS
    <3>1. w = Append(segments, seg) /\ s = Append(spoken, seg)
      BY <1>2, <2>2 DEF HearChunk
    <3>2. PICK v : v = seg
      OBVIOUS
    <3>3. /\ segments \in Seq(Utterances) /\ spoken \in Seq(Utterances) /\ v \in Utterances
          /\ \A k \in 1..m : segments[k] = spoken[g + k]
      BY <1>1, <1>3, <1>4, <3>2 DEF VoiceInv
    <3>4. v.start = x
      BY <3>0, <3>2
    <3>5. Len(spoken) = g + m
      BY <1>4
    <3> HIDE DEF seg, win
    <3>6. Len(s) = Len(spoken) + 1 /\ s[Len(s)] = v
      BY <3>1, <3>2, <3>3
    <3>7. s \in Seq(Utterances) /\ \A k \in 1..Len(spoken) : s[k] = spoken[k]
      BY <3>1, <3>2, <3>3
    <3>8. w \in Seq(Utterances) /\ Len(w) = m + 1 /\ w[m + 1] = v /\ \A k \in 1..m : w[k] = segments[k]
      BY <1>3, <3>1, <3>2, <3>3
    <3>9. \A k \in 1..Len(w) : w[k] = s[g + k]
      <4> SUFFICES ASSUME NEW k \in 1..(m + 1) PROVE w[k] = s[g + k]
        BY <3>8
      <4>1. CASE k = m + 1
        <5>1. g + k = Len(s)
          BY <1>1, <1>3, <3>5, <3>6, <4>1
        <5> QED BY <3>6, <3>8, <4>1, <5>1
      <4>2. CASE k \in 1..m
        <5>1. g + k \in 1..Len(spoken)
          BY <1>1, <1>3, <3>5, <4>2
        <5> QED BY <3>3, <3>7, <3>8, <4>2, <5>1
      <4> QED BY <1>3, <4>1, <4>2
    <3>10. Len(s) = g + Len(w) /\ Len(spoken) <= Len(s)
      BY <1>1, <1>3, <3>5, <3>6, <3>8
    <3>11. Len(s) = Len(spoken) + 1 /\ s[Len(s)].start = heard * Dur
      BY <3>0, <3>4, <3>6
    <3> QED BY <3>7, <3>8, <3>9, <3>10, <3>11
  <2> QED BY <2>1, <2>2
<1>6. PICK E : E = {MapEntity(w, z) : z \in Secrets(w)}
  OBVIOUS
<1>7. /\ segments' = IF WindowFull(w) THEN Pruned(w) ELSE w
      /\ inspected' = IF WindowFull(w) THEN Len(s) ELSE inspected
      /\ emittedKeys' = emittedKeys \union {EmittedKey(e) : e \in IF WindowFull(w) THEN NewOnes(E) ELSE {}}
  BY <1>2, <1>6 DEF HearChunk, VoiceDetected
<1> HIDE DEF seg, win
<1>i. PICK c : c = inspected /\ c \in Nat /\ c <= Len(spoken) /\ Len(spoken) \in Nat
  BY DEF VoiceInv
<1>s. \A k \in 1..Len(s) : s[k].start \in Nat
  <2>1. \A k \in 1..Len(s) : s[k] \in Utterances
    BY <1>5
  <2>2. \A u \in Utterances : u.start \in Nat
    BY DEF Utterances
  <2> QED BY <2>1, <2>2
\* The segments follow each other in time.
<1>t. /\ \A k \in 1..Len(s) : s[k].start + Dur <= heard' * Dur
      /\ \A j, k \in 1..Len(s) : j <= k => s[j].start <= s[k].start
  <2>1. PICK H, T : H = heard * Dur /\ T = (heard + 1) * Dur
    OBVIOUS
  <2>2. T = H + Dur /\ H \in Nat
    <3>1. \A x, y \in Nat : (x + 1) * y = x * y + y /\ x * y \in Nat
      OBVIOUS
    <3> QED BY <1>d, <1>4, <2>1, <3>1
  <2>3. /\ \A k \in 1..Len(spoken) : spoken[k].start + Dur <= H
        /\ \A j, k \in 1..Len(spoken) : j <= k => spoken[j].start <= spoken[k].start
    BY <2>1 DEF VoiceInv
  <2>4. CASE s = spoken
    <3>1. \A k \in 1..Len(s) : s[k].start + Dur <= T
      BY <1>d, <1>s, <2>2, <2>3, <2>4
    <3> QED BY <1>4, <2>1, <2>3, <2>4, <3>1
  <2>5. CASE Len(s) = Len(spoken) + 1 /\ s[Len(s)].start = H
    <3>1. \A k \in 1..Len(s) : k \in 1..Len(spoken) \/ k = Len(s)
      BY <1>i, <2>5
    <3>2. \A k \in 1..Len(s) : s[k].start <= H
      BY <1>d, <1>5, <1>s, <2>2, <2>3, <2>5, <3>1
    <3>3. \A j, k \in 1..Len(s) : j <= k /\ k # Len(s) => j \in 1..Len(spoken) /\ k \in 1..Len(spoken)
      BY <1>i, <2>5
    <3>4. \A j, k \in 1..Len(s) : j <= k => s[j].start <= s[k].start
      BY <1>5, <2>3, <2>5, <3>2, <3>3
    <3>5. \A k \in 1..Len(s) : s[k].start + Dur <= T
      BY <1>d, <1>s, <2>2, <3>2
    <3> QED BY <1>4, <2>1, <3>4, <3>5
  <2> QED BY <1>5, <2>1, <2>4, <2>5
\* What was spoken before is found as before.
<1>8. ASSUME NEW z \in Secrets(s), z[2][1] <= inspected, WithinOverlap(s, z)
      PROVE  Reported(s, z) \in emittedKeys
  <2>1. PICK k, l : k = z[1][1] /\ l = z[2][1]
    OBVIOUS
  <2>2. /\ z = <<z[1], z[2]>> /\ z[1] = <<k, z[1][2]>> /\ z[2] = <<l, z[2][2]>>
        /\ k \in 1..Len(s) /\ l \in 1..Len(s) /\ k <= l
    BY <1>5, <2>1, SecretPlaces
  <2>3. k \in Int /\ l \in Int /\ l <= Len(spoken) /\ l <= inspected
    BY <1>8, <1>i, <2>1, <2>2
  <2>4. \A x \in k..l : x \in 1..Len(spoken) /\ spoken[x] = s[x]
    BY <1>5, <1>i, <2>2, <2>3
  <2>5. SegmentsMove(s, spoken, z, 0)
    <3>1. \A x \in z[1][1]..z[2][1] : x + 0 \in 1..Len(spoken) /\ spoken[x + 0] = s[x]
      BY <2>1, <2>3, <2>4
    <3> QED BY <3>1 DEF SegmentsMove
  <2>6. SecretMoves(s, spoken, z, 0)
    <3>1. spoken \in Seq(Utterances) /\ 0 \in Int
      BY DEF VoiceInv
    <3> QED BY <1>5, <2>5, <3>1, SecretsMove
  <2>7. Moved(z, 0) = z
    <3>1. k + 0 = k /\ l + 0 = l
      BY <2>3
    <3> QED BY <2>1, <2>2, <3>1 DEF Moved
  <2>8. z \in Secrets(spoken) /\ Reported(spoken, z) = Reported(s, z)
    BY <2>6, <2>7 DEF SecretMoves
  <2>9. WithinOverlap(spoken, z)
    <3>1. CASE k >= l - 1
      BY <2>1, <3>1 DEF WithinOverlap
    <3>2. CASE ~(k >= l - 1)
      <4>1. l - 1 \in k..l /\ k \in k..l
        BY <2>3, <3>2
      <4>2. spoken[l - 1] = s[l - 1] /\ spoken[k] = s[k]
        BY <2>4, <4>1
      <4> QED BY <1>8, <2>1, <4>2 DEF WithinOverlap
    <3> QED BY <3>1, <3>2
  <2> QED BY <2>1, <2>3, <2>8, <2>9 DEF VoiceInv, EverySecretFound
\* What a detection sees for the first time is in its window.
<1>9. ASSUME WindowFull(w), NEW z \in Secrets(s), WithinOverlap(s, z)
      PROVE  Reported(s, z) \in emittedKeys'
  <2>1. CASE z[2][1] <= inspected
    BY <1>7, <1>8, <1>9, <2>1
  <2>2. CASE ~(z[2][1] <= inspected)
    <3>1. PICK k, l : k = z[1][1] /\ l = z[2][1]
      OBVIOUS
    <3>2. k \in 1..Len(s) /\ l \in 1..Len(s) /\ k <= l
      BY <1>5, <3>1, SecretPlaces
    <3>3. k \in Int /\ l \in Int /\ l > c /\ Len(s) \in Nat
      BY <1>5, <1>i, <2>2, <3>1, <3>2
    <3>4. k > g
      <4> SUFFICES ASSUME k <= g PROVE FALSE
        BY <1>1, <3>3
      <4>1. k \in 1..g
        BY <1>1, <3>2, <3>3
      <4>2. k < c /\ SegEnd(spoken[k]) + VoiceOverlap <= SegEnd(spoken[c])
        BY <1>1, <1>i, <4>1 DEF VoiceInv
      <4>3. k \in 1..Len(spoken) /\ c \in 1..Len(spoken)
        BY <1>i, <3>2, <3>3, <4>2
      <4>4. spoken[k] = s[k] /\ spoken[c] = s[c]
        BY <1>5, <4>3
      <4>5. ~(k >= l - 1)
        BY <1>i, <3>3, <4>2
      <4>6. SegEnd(s[l - 1]) - SegEnd(s[k]) < VoiceOverlap
        BY <1>9, <3>1, <4>5 DEF WithinOverlap
      <4>7. l - 1 \in 1..Len(s) /\ c \in 1..Len(s) /\ c <= l - 1
        BY <1>i, <3>2, <3>3, <4>2, <4>5
      <4>8. s[c].start <= s[l - 1].start
        BY <1>t, <4>7
      <4>9. s[c].start \in Nat /\ s[l - 1].start \in Nat /\ s[k].start \in Nat
        BY <1>s, <3>2, <4>7
      <4> QED BY <1>d, <4>2, <4>4, <4>6, <4>8, <4>9 DEF SegEnd
    <3>5. PICK d : d = 0 - g /\ d \in Int
      BY <1>1
    <3>6. PICK n : n = Len(w) /\ n \in Nat /\ Len(s) = g + n
      BY <1>5
    <3>7. \A x \in k..l : x + d \in 1..n /\ g + (x + d) = x
      BY <1>1, <3>2, <3>3, <3>4, <3>5, <3>6
    <3>8. \A x \in k..l : x + d \in 1..n /\ w[x + d] = s[x]
      BY <1>5, <3>6, <3>7
    <3>9. SegmentsMove(s, w, z, d)
      BY <3>1, <3>6, <3>8 DEF SegmentsMove
    <3>10. SecretMoves(s, w, z, d)
      BY <1>5, <3>5, <3>9, SecretsMove
    <3>11. PICK r : r \in Secrets(w) /\ Reported(w, r) = Reported(s, z)
      BY <3>10 DEF SecretMoves
    <3>12. PICK e : e = MapEntity(w, r)
      OBVIOUS
    <3>13. e \in E /\ EmittedKey(e) = Reported(s, z)
      BY <1>6, <3>11, <3>12 DEF MapEntity, EmittedKey, Reported
    <3>14. CASE EmittedKey(e) \in emittedKeys
      BY <1>7, <3>13, <3>14
    <3>15. CASE EmittedKey(e) \notin emittedKeys
      <4>1. e \in NewOnes(E)
        BY <3>13, <3>15 DEF NewOnes
      <4> QED BY <1>7, <1>9, <3>13, <4>1
    <3> QED BY <3>14, <3>15
  <2> QED BY <2>1, <2>2
<1>10. EverySecretFound'
  <2> SUFFICES ASSUME NEW z \in Secrets(s), z[2][1] <= inspected', WithinOverlap(s, z)
               PROVE  Reported(s, z) \in emittedKeys'
    BY <1>2 DEF EverySecretFound
  <2> QED BY <1>7, <1>8, <1>9
<1>11. PICK n : n = Len(w) /\ n \in Nat /\ Len(s) = g + n /\ Len(s) \in Nat
  BY <1>1, <1>5
\* What left the window before lies further back than the overlap from any
\* later segment.
<1>g. ASSUME NEW k \in 1..g, NEW l \in 1..Len(s), c <= l
      PROVE  k < l /\ SegEnd(s[k]) + VoiceOverlap <= SegEnd(s[l])
  <2>1. k < c /\ SegEnd(spoken[k]) + VoiceOverlap <= SegEnd(spoken[c])
    BY <1>1, <1>i DEF VoiceInv
  <2>2. k \in 1..Len(spoken) /\ c \in 1..Len(spoken) /\ k \in 1..Len(s) /\ c \in 1..Len(s)
    BY <1>1, <1>5, <1>i, <1>11, <2>1
  <2>3. spoken[k] = s[k] /\ spoken[c] = s[c] /\ s[c].start <= s[l].start
    BY <1>5, <1>g, <1>t, <2>2
  <2>4. s[k].start \in Nat /\ s[c].start \in Nat /\ s[l].start \in Nat
    BY <1>s, <2>2
  <2>5. k < l
    BY <1>1, <1>i, <1>g, <1>11, <2>1
  <2>6. SegEnd(s[k]) + VoiceOverlap <= SegEnd(s[l])
    <3>1. PICK x, y, z : x = s[k].start /\ y = s[c].start /\ z = s[l].start
      OBVIOUS
    <3>2. (x + Dur) + VoiceOverlap <= y + Dur
      BY <2>1, <2>3, <3>1 DEF SegEnd
    <3>3. x \in Nat /\ y \in Nat /\ z \in Nat
      BY <2>4, <3>1
    <3>4. y <= z
      BY <2>3, <3>1
    <3>5. (x + Dur) + VoiceOverlap <= z + Dur
      BY <1>d, <3>2, <3>3, <3>4
    <3> QED BY <3>1, <3>5 DEF SegEnd
  <2> QED BY <2>5, <2>6
<1>12. CASE WindowFull(w)
  <2>1. w # << >>
    BY <1>12 DEF WindowFull
  <2>2. PICK f \in 1..n : /\ segments' = SubSeq(w, f, n)
                          /\ \A j \in 1..(f - 1) : ~(SegEnd(w[j]) > SegEnd(w[n]) - VoiceOverlap)
    BY <1>5, <1>7, <1>11, <1>12, <2>1, PrunedIsEnd
  <2>3. PICK z : z = segments'
    OBVIOUS
  <2>4. z \in Seq(Utterances) /\ Len(z) = n - f + 1 /\ \A k \in 1..Len(z) : z[k] = w[(f + k) - 1]
    BY <1>5, <1>11, <2>2, <2>3
  <2>5. PICK h : h = g + (f - 1)
    OBVIOUS
  <2>6. h = Len(s) - Len(z) /\ h \in Nat /\ h < Len(s)
    BY <1>1, <1>11, <2>2, <2>4, <2>5
  <2>7. \A k \in 1..Len(z) : z[k] = s[h + k]
    <3> SUFFICES ASSUME NEW k \in 1..Len(z) PROVE z[k] = s[h + k]
      OBVIOUS
    <3>1. PICK j : j = (f + k) - 1
      OBVIOUS
    <3>2. j \in 1..n /\ g + j = h + k /\ z[k] = w[j]
      BY <1>1, <1>11, <2>2, <2>4, <2>5, <3>1
    <3> QED BY <1>5, <1>11, <3>2
  <2>8. Gone' = h
    BY <1>2, <2>3, <2>6 DEF Gone
  <2>9. inspected' = Len(s)
    BY <1>7, <1>12
  <2>10. \A k \in 1..h : k < Len(s) /\ SegEnd(s[k]) + VoiceOverlap <= SegEnd(s[Len(s)])
    <3> SUFFICES ASSUME NEW k \in 1..h PROVE k < Len(s) /\ SegEnd(s[k]) + VoiceOverlap <= SegEnd(s[Len(s)])
      OBVIOUS
    <3>1. CASE k \in 1..g
      <4>1. Len(s) \in 1..Len(s) /\ c <= Len(s)
        BY <1>5, <1>i, <1>11, <2>6
      <4> QED BY <1>g, <3>1, <4>1
    <3>2. CASE k \notin 1..g
      <4>1. PICK j : j = k - g
        OBVIOUS
      <4>2. j \in 1..(f - 1) /\ j \in 1..n /\ g + j = k /\ n \in 1..n /\ g + n = Len(s) /\ k < Len(s) /\ k \in 1..Len(s)
        BY <1>1, <1>11, <2>2, <2>5, <2>6, <3>2, <4>1
      <4>3. w[j] = s[k] /\ w[n] = s[Len(s)]
        BY <1>5, <1>11, <4>2
      <4>4. ~(SegEnd(w[j]) > SegEnd(w[n]) - VoiceOverlap)
        BY <2>2, <4>2
      <4>5. s[k].start \in Nat /\ s[Len(s)].start \in Nat
        BY <1>s, <1>11, <4>2
      <4>6. PICK x, y : x = s[k].start /\ y = s[Len(s)].start
        OBVIOUS
      <4>7. ~(x + Dur > (y + Dur) - VoiceOverlap)
        BY <4>3, <4>4, <4>6 DEF SegEnd
      <4>8. (x + Dur) + VoiceOverlap <= y + Dur
        BY <1>d, <4>5, <4>6, <4>7
      <4> QED BY <4>2, <4>6, <4>8 DEF SegEnd
    <3> QED BY <3>1, <3>2
  <2>11. heard' \in Nat /\ Len(s) <= Len(s)
    BY <1>4, <1>11
  <2> QED BY <1>2, <1>5, <1>11, <1>t, <1>10, <2>3, <2>4, <2>6, <2>7, <2>8, <2>9, <2>10, <2>11 DEF VoiceInv
<1>13. CASE ~WindowFull(w)
  <2>1. segments' = w /\ inspected' = c
    BY <1>7, <1>13, <1>i
  <2>2. Gone' = g
    BY <1>1, <1>2, <1>11, <2>1 DEF Gone
  <2>3. c <= Len(s)
    BY <1>5, <1>i, <1>11
  <2>4. \A k \in 1..g : k < c /\ SegEnd(s[k]) + VoiceOverlap <= SegEnd(s[c])
    <3> SUFFICES ASSUME NEW k \in 1..g PROVE k < c /\ SegEnd(s[k]) + VoiceOverlap <= SegEnd(s[c])
      OBVIOUS
    <3>1. k < c
      BY <1>1, <1>i DEF VoiceInv
    <3>2. c \in 1..Len(s) /\ c <= c
      BY <1>1, <1>i, <2>3, <3>1
    <3> QED BY <1>g, <3>2
  <2>5. heard' \in Nat
    BY <1>4
  <2> QED BY <1>1, <1>2, <1>5, <1>i, <1>t, <1>10, <2>1, <2>2, <2>3, <2>4, <2>5 DEF VoiceInv
<1> QED BY <1>12, <1>13

\* The steps of the stream.
LEMMA VoiceStep == ASSUME VoiceInv, [VoiceNext]_voiceVars PROVE VoiceInv'
<1>1. ASSUME NEW t \in Transcripts, HearChunk(t) PROVE VoiceInv'
  BY <1>1, HearChunkInv
<1>2. CASE OpenVoice \/ EndVoice \/ UNCHANGED voiceVars
  <2>1. /\ heard' = heard /\ segments' = segments /\ emittedKeys' = emittedKeys
        /\ spoken' = spoken /\ inspected' = inspected
    BY <1>2 DEF OpenVoice, EndVoice, voiceVars
  <2>2. Gone' = Gone /\ EverySecretFound' = EverySecretFound
    BY <2>1 DEF Gone, EverySecretFound
  <2> QED BY <2>1, <2>2 DEF VoiceInv
<1> QED BY <1>1, <1>2 DEF VoiceNext

\* A load in progress holds the lock alone, and before close() it is the
\* first: one model at most is ever there.
LoadInv ==
    /\ hearing \in [Listeners -> [step : {"idle", "waiting", "loading", "running"}, stamp : Nat]]
    /\ sttModel \in BOOLEAN /\ modelLoads \in Nat
    /\ \A l \in Listeners : hearing[l].step = "loading" => loadLock = {l}
    /\ ~sttClosed => modelLoads = IF sttModel THEN 1 ELSE 0
    /\ ~sttClosed => \A l \in Listeners : hearing[l].step = "loading" => ~sttModel

\* A call moves on, its time stamp with it.
LEMMA HearingMoves ==
    ASSUME LoadInv, NEW l \in Listeners,
           NEW x \in {"idle", "waiting", "loading", "running"},
           hearing' = [hearing EXCEPT ![l].step = x]
    PROVE  /\ hearing' \in [Listeners -> [step : {"idle", "waiting", "loading", "running"}, stamp : Nat]]
           /\ hearing'[l].step = x
           /\ \A k \in Listeners : k # l => hearing'[k] = hearing[k]
<1>1. PICK h : h = hearing /\ h \in [Listeners -> [step : {"idle", "waiting", "loading", "running"}, stamp : Nat]]
  BY DEF LoadInv
<1>2. [h[l] EXCEPT !.step = x] = [step |-> x, stamp |-> h[l].stamp] /\ h[l].stamp \in Nat
  BY <1>1
<1>3. hearing' = [h EXCEPT ![l] = [step |-> x, stamp |-> h[l].stamp]]
  BY <1>1, <1>2
<1> QED BY <1>1, <1>2, <1>3

\* The steps of the engine, as far as the model is concerned.
LEMMA LoadStep == ASSUME SttAssumption, LoadInv, [SttNext]_sttVars PROVE LoadInv'
<1>1. ASSUME NEW l \in Listeners, NEW t \in AudioStamps, Transcribe(l, t) PROVE LoadInv'
  <2>1. t \in Nat
    BY DEF SttAssumption
  <2>2. PICK h : h = hearing /\ h \in [Listeners -> [step : {"idle", "waiting", "loading", "running"}, stamp : Nat]]
    BY DEF LoadInv
  <2>3. PICK x \in {"running", "waiting"} : hearing' = [h EXCEPT ![l] = [step |-> x, stamp |-> t]]
    BY <1>1, <2>2 DEF Transcribe
  <2>4. /\ hearing' \in [Listeners -> [step : {"idle", "waiting", "loading", "running"}, stamp : Nat]]
        /\ \A k \in Listeners : hearing'[k].step = "loading" => hearing[k].step = "loading"
    BY <2>1, <2>2, <2>3
  <2> QED BY <1>1, <2>4 DEF Transcribe, LoadInv
<1>2. ASSUME NEW l \in Listeners, TakeLock(l) PROVE LoadInv'
  <2>1. PICK x : x = (IF sttModel THEN "running" ELSE "loading") /\ hearing' = [hearing EXCEPT ![l].step = x]
    BY <1>2 DEF TakeLock
  <2>2. /\ hearing' \in [Listeners -> [step : {"idle", "waiting", "loading", "running"}, stamp : Nat]]
        /\ hearing'[l].step = x
        /\ \A k \in Listeners : k # l => hearing'[k] = hearing[k]
    BY <2>1, HearingMoves
  <2>3. \A k \in Listeners : hearing[k].step # "loading"
    BY <1>2 DEF TakeLock, LoadInv
  <2>4. \A k \in Listeners : hearing'[k].step = "loading" => k = l /\ ~sttModel
    BY <2>1, <2>2, <2>3
  <2>5. /\ sttModel' = sttModel /\ sttClosed' = sttClosed /\ modelLoads' = modelLoads
        /\ loadLock' = IF sttModel THEN {} ELSE {l}
    BY <1>2 DEF TakeLock
  <2> QED BY <2>2, <2>4, <2>5 DEF LoadInv
<1>3. ASSUME NEW l \in Listeners, ModelLoaded(l) \/ LoadFails(l) PROVE LoadInv'
  <2>1. PICK x \in {"running", "idle"} : hearing' = [hearing EXCEPT ![l].step = x]
    BY <1>3 DEF ModelLoaded, LoadFails
  <2>2. /\ hearing' \in [Listeners -> [step : {"idle", "waiting", "loading", "running"}, stamp : Nat]]
        /\ hearing'[l].step = x
        /\ \A k \in Listeners : k # l => hearing'[k] = hearing[k]
    BY <2>1, HearingMoves
  <2>3. \A k \in Listeners : k # l => hearing[k].step # "loading"
    BY <1>3 DEF ModelLoaded, LoadFails, LoadInv
  <2>4. \A k \in Listeners : hearing'[k].step # "loading"
    BY <2>1, <2>2, <2>3
  <2>5. /\ sttModel \in BOOLEAN /\ modelLoads \in Nat
        /\ ~sttClosed => ~sttModel /\ modelLoads = 0
    BY <1>3 DEF ModelLoaded, LoadFails, LoadInv
  <2>6. CASE ModelLoaded(l)
    <3>1. sttModel' = TRUE /\ modelLoads' = modelLoads + 1 /\ sttClosed' = sttClosed
      BY <2>6 DEF ModelLoaded
    <3> QED BY <2>2, <2>4, <2>5, <3>1 DEF LoadInv
  <2>7. CASE LoadFails(l)
    <3>1. sttModel' = sttModel /\ modelLoads' = modelLoads /\ sttClosed' = sttClosed
      BY <2>7 DEF LoadFails
    <3> QED BY <2>2, <2>4, <2>5, <3>1 DEF LoadInv
  <2> QED BY <1>3, <2>6, <2>7
<1>4. ASSUME NEW l \in Listeners, Heard(l) \/ HeardNothing(l) PROVE LoadInv'
  <2>1. hearing' = [hearing EXCEPT ![l].step = "idle"]
    BY <1>4 DEF Heard, HeardNothing
  <2>2. /\ hearing' \in [Listeners -> [step : {"idle", "waiting", "loading", "running"}, stamp : Nat]]
        /\ hearing'[l].step = "idle"
        /\ \A k \in Listeners : k # l => hearing'[k] = hearing[k]
    BY <2>1, HearingMoves
  <2>3. UNCHANGED <<sttModel, sttClosed, loadLock, modelLoads>>
    BY <1>4 DEF Heard, HeardNothing
  <2>4. \A k \in Listeners : hearing'[k].step = "loading" => k # l /\ hearing[k].step = "loading"
    BY <2>2
  <2> QED BY <2>2, <2>3, <2>4 DEF LoadInv
<1>5. CASE CloseEngine
  BY <1>5 DEF CloseEngine, LoadInv
<1>6. CASE UNCHANGED sttVars
  BY <1>6 DEF sttVars, LoadInv
<1>7. SttNext \/ UNCHANGED sttVars
  OBVIOUS
<1> QED BY <1>1, <1>2, <1>3, <1>4, <1>5, <1>6, <1>7 DEF SttNext

\* A text is a time stamp and the number under which it was added.
Stamped == Nat \X Nat

\* The numbers count the texts; a transcript that is not full has them all.
TranscriptInv ==
    /\ texts \in Seq(Stamped) /\ transcript \in Seq(Stamped)
    /\ \A k \in 1..Len(texts) : texts[k][2] = k
    /\ Len(texts) <= MaxSegments => Range(texts) \subseteq Range(transcript)
    /\ TranscriptHoldsNewest

\* The lesser and the greater of two numbers.
LEMMA LesserGreater ==
    ASSUME NEW a \in Int, NEW b \in Int
    PROVE  /\ Min({a, b}) = IF a <= b THEN a ELSE b
           /\ Max({a, b}) = IF a <= b THEN b ELSE a
<1>1. \A x \in {a, b} : (\A y \in {a, b} : x <= y) => x = IF a <= b THEN a ELSE b
  OBVIOUS
<1>2. \A x \in {a, b} : (\A y \in {a, b} : x >= y) => x = IF a <= b THEN b ELSE a
  OBVIOUS
<1>3. \E x \in {a, b} : \A y \in {a, b} : x <= y
  OBVIOUS
<1>4. \E x \in {a, b} : \A y \in {a, b} : x >= y
  OBVIOUS
<1>5. Min({a, b}) \in {a, b} /\ \A y \in {a, b} : Min({a, b}) <= y
  BY <1>3 DEF Min
<1>6. Max({a, b}) \in {a, b} /\ \A y \in {a, b} : Max({a, b}) >= y
  BY <1>4 DEF Max
<1> QED BY <1>1, <1>2, <1>5, <1>6

\* Time stamp and number order any texts that differ in their numbers.
LEMMA TimeOrders ==
    ASSUME NEW S, S \subseteq Stamped, \A x, y \in S : x[2] = y[2] => x = y
    PROVE  StrictOrder({p \in S \X S : EarlierText(p[1], p[2])}, S)
<1>1. PICK R : R = {p \in S \X S : EarlierText(p[1], p[2])}
  OBVIOUS
<1>2. \A x, y \in S : <<x, y>> \in R <=> EarlierText(x, y)
  BY <1>1
<1>3. \A x \in S : x[1] \in Nat /\ x[2] \in Nat
  BY DEF Stamped
<1>4. \A x \in S : ~EarlierText(x, x)
  BY <1>3 DEF EarlierText
<1>5. \A x, y, z \in S : EarlierText(x, y) /\ EarlierText(y, z) => EarlierText(x, z)
  BY <1>3 DEF EarlierText
<1>6. \A x, y \in S : x # y => EarlierText(x, y) \/ EarlierText(y, x)
  BY <1>3 DEF EarlierText
<1> QED BY <1>1, <1>2, <1>4, <1>5, <1>6 DEF StrictOrder

\* A sequence without repetition has as many elements as positions.
LEMMA ElementsCounted ==
    ASSUME NEW T, NEW s \in Seq(T), \A i, j \in DOMAIN s : s[i] = s[j] => i = j
    PROVE  IsFiniteSet(Range(s)) /\ Cardinality(Range(s)) = Len(s)
<1>1. PICK n : n = Len(s) /\ n \in Nat /\ DOMAIN s = 1..n
  OBVIOUS
<1>2. IsFiniteSet(1..n) /\ Cardinality(1..n) = n
  <2>0. PICK o, e : o = 1 /\ e = n /\ o \in Int /\ e \in Int
    BY <1>1
  <2>1. IsFiniteSet(o..e) /\ Cardinality(o..e) = IF o > e THEN 0 ELSE e - o + 1
    BY <2>0, FS_Interval
  <2> QED BY <1>1, <2>0, <2>1
<1>3. PICK V : V = Range(s)
  OBVIOUS
<1>4. s \in [1..n -> V] /\ \A v \in V : \E k \in 1..n : s[k] = v
  BY <1>1, <1>3 DEF Range
<1>5. s \in Bijection(1..n, V)
  BY <1>1, <1>4 DEF Bijection, Injection, Surjection, IsInjective
<1>6. ExistsBijection(1..n, V)
  BY <1>5 DEF ExistsBijection
<1> QED BY <1>1, <1>2, <1>3, <1>6, FS_Bijection

\* The order of time stamp and number, for any texts.
LEMMA EarlierIsOrder ==
    /\ \A a \in Stamped : ~EarlierText(a, a)
    /\ \A a, b, c \in Stamped : EarlierText(a, b) /\ EarlierText(b, c) => EarlierText(a, c)
<1>1. \A a \in Stamped : a[1] \in Nat /\ a[2] \in Nat
  BY DEF Stamped
<1> QED BY <1>1 DEF EarlierText

\* The elements of a sequence, and of one that is longer by an element.
LEMMA RangeIs ==
    ASSUME NEW T, NEW s \in Seq(T), NEW e \in T
    PROVE  /\ Range(s) \subseteq T /\ Range(s) = ToSet(s)
           /\ Range(Append(s, e)) = Range(s) \cup {e}
<1>1. Range(s) \subseteq T /\ \A u : Range(u) = ToSet(u)
  BY DEF Range, ToSet
<1>2. PICK u : u = Append(s, e)
  OBVIOUS
<1>3. /\ DOMAIN u = (DOMAIN s) \cup {Len(s) + 1} /\ u[Len(s) + 1] = e
      /\ \A j \in DOMAIN s : u[j] = s[j]
  BY <1>2
<1>4. Range(u) = Range(s) \cup {e}
  BY <1>3 DEF Range
<1> QED BY <1>1, <1>2, <1>4

\* All texts of the buffer and one more, in the order of time.
LEMMA AllInTime ==
    ASSUME TranscriptInv, NEW x \in Stamped, x[2] = Len(texts) + 1
    PROVE  /\ InTime(Range(transcript) \cup {x}) \in Seq(Stamped)
           /\ Len(InTime(Range(transcript) \cup {x})) = Len(transcript) + 1
           /\ Range(InTime(Range(transcript) \cup {x})) = Range(transcript) \cup {x}
           /\ \A i, j \in 1..(Len(transcript) + 1) : i < j =>
                EarlierText(InTime(Range(transcript) \cup {x})[i], InTime(Range(transcript) \cup {x})[j])
<1>1. PICK B, A : B = Range(transcript) /\ A = B \cup {x}
  OBVIOUS
<1>0. Len(texts) \in Nat /\ Len(transcript) \in Nat
  BY DEF TranscriptInv
<1>2. PICK n, m : n = Len(texts) /\ m = Len(transcript) /\ n \in Nat /\ m \in Nat
  BY <1>0, Zenon
<1>3. /\ transcript \in Seq(Stamped) /\ B \subseteq Stamped /\ A \subseteq Stamped
  BY <1>1, RangeIs DEF TranscriptInv
<1>4. \A y \in B : y[2] \in 1..n /\ y = texts[y[2]]
  <2>1. B \subseteq Range(texts)
    BY <1>1 DEF TranscriptInv, TranscriptHoldsNewest
  <2>2. \A k \in 1..n : texts[k][2] = k
    BY <1>2 DEF TranscriptInv
  <2>3. DOMAIN texts = 1..n
    BY <1>2 DEF TranscriptInv
  <2> QED BY <2>1, <2>2, <2>3 DEF Range
<1>5. x \notin B /\ \A y, z \in A : y[2] = z[2] => y = z
  BY <1>1, <1>2, <1>4
<1>6. \A i, j \in DOMAIN transcript : transcript[i] = transcript[j] => i = j
  <2> SUFFICES ASSUME NEW i \in DOMAIN transcript, NEW j \in DOMAIN transcript,
                      transcript[i] = transcript[j], i # j
               PROVE  FALSE
    OBVIOUS
  <2>1. i < j \/ j < i
    BY <1>3
  <2>2. EarlierText(transcript[i], transcript[i])
    BY <2>1 DEF TranscriptInv, TranscriptHoldsNewest
  <2>3. transcript[i] \in Stamped
    BY <1>3
  <2> QED BY <2>2, <2>3, EarlierIsOrder
<1>7. IsFiniteSet(B) /\ Cardinality(B) = m
  BY <1>1, <1>2, <1>3, <1>6, ElementsCounted
<1>8. IsFiniteSet(A) /\ Cardinality(A) = m + 1
  BY <1>1, <1>5, <1>7, FS_AddElement
<1>9. PICK R : R = {p \in A \X A : EarlierText(p[1], p[2])}
  OBVIOUS
<1>10. StrictOrder(R, A)
  BY <1>3, <1>5, <1>9, TimeOrders
<1>11. PICK s : s = Sorted(A, R)
  OBVIOUS
<1>12. /\ s \in Seq(A) /\ Len(s) = m + 1 /\ ToSet(s) = A
       /\ \A i, j \in DOMAIN s : i < j => <<s[i], s[j]>> \in R
  BY <1>8, <1>10, <1>11, SortedElements
<1>13. InTime(A) = s
  BY <1>9, <1>11 DEF InTime
<1>14. s \in Seq(Stamped) /\ Range(s) = A /\ DOMAIN s = 1..(m + 1)
  <2>1. DOMAIN s = 1..(m + 1) /\ \A i \in 1..(m + 1) : s[i] \in Stamped
    BY <1>2, <1>3, <1>12
  <2> QED BY <1>12, <2>1 DEF Range, ToSet
<1>15. \A i, j \in 1..(m + 1) : i < j => EarlierText(s[i], s[j])
  BY <1>9, <1>12, <1>14
<1> QED BY <1>1, <1>2, <1>12, <1>13, <1>14, <1>15

\* A text is added, in whatever order the calls end: the oldest goes when
\* there is no room for one more.
LEMMA AddedInTime ==
    ASSUME SttAssumption, TranscriptInv, NEW x \in Stamped, x[2] = Len(texts) + 1,
           texts' = Append(texts, x), transcript' = AddChunk(transcript, x)
    PROVE  TranscriptInv'
<1>1. PICK B, A : B = Range(transcript) /\ A = B \cup {x}
  OBVIOUS
<1>0. Len(texts) \in Nat /\ Len(transcript) \in Nat /\ MaxSegments \in Nat /\ MaxSegments > 0
  BY DEF TranscriptInv, SttAssumption
<1>2. PICK n, m, c : n = Len(texts) /\ m = Len(transcript) /\ c = MaxSegments
                     /\ n \in Nat /\ m \in Nat /\ c \in Nat /\ c > 0
  BY <1>0, Zenon
<1>3. m = IF n <= c THEN n ELSE c
  BY <1>2, LesserGreater DEF TranscriptInv, TranscriptHoldsNewest
<1>4. PICK s : s = InTime(A)
  OBVIOUS
<1>5. /\ s \in Seq(Stamped) /\ Len(s) = m + 1 /\ Range(s) = A
      /\ \A i, j \in 1..(m + 1) : i < j => EarlierText(s[i], s[j])
  BY <1>1, <1>2, <1>4, AllInTime
<1>6. PICK t : t = transcript'
  OBVIOUS
<1>7. PICK f : f = Max({1, (m + 1) - c + 1}) /\ f = (IF m = c THEN 2 ELSE 1)
  <2>1. PICK o, b : o = 1 /\ b = (m + 1) - c + 1 /\ o \in Int /\ b \in Int
    BY <1>2
  <2>2. Max({o, b}) = IF o <= b THEN b ELSE o
    BY <2>1, LesserGreater
  <2>3. Max({1, (m + 1) - c + 1}) = Max({o, b})
    BY <2>1
  <2>4. (IF o <= b THEN b ELSE o) = IF m = c THEN 2 ELSE 1
    BY <1>2, <1>3, <2>1
  <2> QED BY <2>2, <2>3, <2>4
<1>8. t = SubSeq(s, f, m + 1)
  BY <1>1, <1>2, <1>4, <1>5, <1>6, <1>7 DEF AddChunk
<1>9. PICK u : u = texts'
  OBVIOUS
<1>10. /\ u \in Seq(Stamped) /\ Len(u) = n + 1 /\ Range(u) = Range(texts) \cup {x}
       /\ \A k \in 1..(n + 1) : u[k][2] = k
  <2>1. texts \in Seq(Stamped) /\ \A k \in 1..n : texts[k][2] = k
    BY <1>2 DEF TranscriptInv
  <2>2. Range(u) = Range(texts) \cup {x}
    BY <1>9, <2>1, RangeIs
  <2> QED BY <1>2, <1>9, <2>1, <2>2
<1>11. Min({n + 1, c}) = IF n + 1 <= c THEN n + 1 ELSE c
  BY <1>2, LesserGreater
<1>12. B \subseteq Range(texts) /\ B \subseteq Stamped
  BY <1>1, RangeIs DEF TranscriptInv, TranscriptHoldsNewest
<1>13. CASE m < c
  <2>1. t = s
    <3>1. f = 1
      BY <1>2, <1>7, <1>13
    <3>2. SubSeq(s, 1, m + 1) \in Seq(Stamped) /\ Len(SubSeq(s, 1, m + 1)) = m + 1
          /\ \A i \in 1..(m + 1) : SubSeq(s, 1, m + 1)[i] = s[i]
      BY <1>2, <1>5
    <3> QED BY <1>2, <1>5, <1>8, <3>1, <3>2, SeqEqual
  <2>2. Range(texts) \subseteq B /\ n = m
    BY <1>1, <1>2, <1>3, <1>13 DEF TranscriptInv
  <2>3. Range(u) \subseteq Range(t) /\ Range(t) \subseteq Range(u)
    BY <1>1, <1>5, <1>10, <1>12, <2>1, <2>2
  <2>4. TranscriptHoldsNewest'
    <3>1. Len(t) = Min({n + 1, c}) /\ DOMAIN t = 1..(m + 1)
      BY <1>2, <1>5, <1>11, <1>13, <2>1, <2>2
    <3>2. \A i, j \in DOMAIN t : i < j => EarlierText(t[i], t[j])
      BY <1>5, <2>1, <3>1
    <3> QED BY <1>2, <1>6, <1>9, <1>10, <2>3, <3>1, <3>2 DEF TranscriptHoldsNewest
  <2> QED BY <1>5, <1>6, <1>9, <1>10, <2>1, <2>3, <2>4 DEF TranscriptInv
<1>14. CASE m = c
  <2>1. f = 2
    BY <1>7, <1>14
  <2>2. /\ t \in Seq(Stamped) /\ Len(t) = m /\ DOMAIN t = 1..m
        /\ \A i \in 1..m : t[i] = s[i + 1]
    BY <1>2, <1>5, <1>8, <2>1
  <2>3. n + 1 > c
    BY <1>2, <1>3, <1>14
  <2>4. \A i \in 1..(m + 1) : s[i] \in A /\ s[i] \in Stamped
    BY <1>2, <1>5 DEF Range
  <2>5. Range(t) \subseteq Range(u)
    <3>1. Range(t) \subseteq A
      BY <1>2, <2>2, <2>4 DEF Range
    <3> QED BY <1>1, <1>10, <1>12, <3>1
  <2>6. \A i, j \in DOMAIN t : i < j => EarlierText(t[i], t[j])
    <3> SUFFICES ASSUME NEW i \in 1..m, NEW j \in 1..m, i < j PROVE EarlierText(t[i], t[j])
      BY <2>2
    <3>1. PICK k, l : k = i + 1 /\ l = j + 1 /\ k \in 1..(m + 1) /\ l \in 1..(m + 1) /\ k < l
      BY <1>2
    <3> QED BY <1>5, <2>2, <3>1
  <2>7. ASSUME NEW y \in Range(u) \ Range(t), NEW i \in DOMAIN t PROVE EarlierText(y, t[i])
    <3>1. PICK k : k = i + 1 /\ k \in 2..(m + 1) /\ t[i] = s[k]
      BY <1>2, <2>2
    <3>2. 1 \in 1..(m + 1) /\ k \in 1..(m + 1) /\ EarlierText(s[1], s[k])
      BY <1>2, <1>5, <3>1
    <3>3. CASE y \in A
      <4>1. PICK j \in 1..(m + 1) : y = s[j]
        BY <1>2, <1>5, <3>3 DEF Range
      <4>2. j = 1
        <5> SUFFICES ASSUME j # 1 PROVE FALSE
          OBVIOUS
        <5>1. PICK h : h = j - 1 /\ h \in 1..m /\ h + 1 = j
          BY <1>2, <4>1
        <5>2. t[h] = y /\ h \in DOMAIN t
          BY <2>2, <4>1, <5>1
        <5> QED BY <5>2 DEF Range
      <4> QED BY <3>1, <3>2, <4>1, <4>2
    <3>4. CASE y \notin A
      <4>1. y \in Range(texts) \ B
        BY <1>1, <1>10, <3>4
      <4>2. \A z \in B : EarlierText(y, z)
        BY <1>1, <4>1, ZenonT(60) DEF TranscriptInv, TranscriptHoldsNewest, Range
      <4>3. CASE s[k] \in B
        BY <3>1, <4>2, <4>3
      <4>4. CASE s[k] \notin B
        <5>1. s[k] = x /\ s[k] \in Stamped /\ s[1] \in Stamped /\ s[1] \in A
          BY <1>1, <2>4, <3>2, <4>4
        <5>2. s[1] # x
          BY <3>2, <5>1, EarlierIsOrder
        <5>3. s[1] \in B /\ EarlierText(y, s[1])
          BY <1>1, <4>2, <5>1, <5>2
        <5>4. y \in Stamped
          BY <4>1, RangeIs DEF TranscriptInv
        <5> QED BY <3>1, <3>2, <5>1, <5>3, <5>4, EarlierIsOrder
      <4> QED BY <4>3, <4>4
    <3> QED BY <3>3, <3>4
  <2>8. TranscriptHoldsNewest'
    <3>1. Len(t) = Min({n + 1, c})
      BY <1>2, <1>11, <1>14, <2>2, <2>3
    <3> QED BY <1>2, <1>6, <1>9, <1>10, <2>5, <2>6, <2>7, <3>1 DEF TranscriptHoldsNewest
  <2>9. ~(Len(texts') <= MaxSegments)
    BY <1>2, <1>9, <1>10, <2>3
  <2>10. texts' \in Seq(Stamped) /\ transcript' \in Seq(Stamped)
    BY <1>6, <1>9, <1>10, <2>2
  <2>11. \A k \in 1..Len(texts') : texts'[k][2] = k
    BY <1>9, <1>10
  <2> QED BY <2>8, <2>9, <2>10, <2>11 DEF TranscriptInv
<1>15. m < c \/ m = c
  BY <1>2, <1>3
<1> QED BY <1>13, <1>14, <1>15

\* The steps of the engine, as far as the transcript is concerned.
LEMMA TranscriptStep ==
    ASSUME SttAssumption, LoadInv, TranscriptInv, [SttNext]_sttVars PROVE TranscriptInv'
<1>1. ASSUME NEW l \in Listeners, Heard(l) PROVE TranscriptInv'
  <2>1. PICK x : x = <<hearing[l].stamp, Len(texts) + 1>>
    OBVIOUS
  <2>2. x \in Stamped /\ x[2] = Len(texts) + 1
    BY <2>1 DEF LoadInv, TranscriptInv, Stamped
  <2>3. texts' = Append(texts, x) /\ transcript' = AddChunk(transcript, x)
    BY <1>1, <2>1 DEF Heard
  <2> QED BY <2>2, <2>3, AddedInTime
<1>2. ASSUME UNCHANGED <<transcript, texts>> PROVE TranscriptInv'
  BY <1>2 DEF TranscriptInv, TranscriptHoldsNewest
<1>3. \/ \E l \in Listeners : Heard(l)
      \/ UNCHANGED <<transcript, texts>>
  BY DEF SttNext, sttVars, Transcribe, TakeLock, ModelLoaded, LoadFails, HeardNothing, CloseEngine
<1> QED BY <1>1, <1>2, <1>3

\* The fragments of any message, and those on their way or kept.
AnyFragment == Nat \X (1..Fragments)

\* A fragment is on its way or kept, never both, and kept once.
ChannelInv ==
    /\ messages \in Nat
    /\ flying \subseteq AnyFragment /\ kept \in Seq(AnyFragment)
    /\ \A f \in flying \cup Range(kept) : f[1] <= messages
    /\ \A i, j \in DOMAIN kept : kept[i] = kept[j] => i = j
    /\ Range(kept) \cap flying = {}
    /\ joined \in Seq(Seq(AnyFragment))
    /\ OwnFragmentsJoinInOrder

\* n numbers up to n, each greater than the one before, are 1 to n.
LEMMA CountsUp ==
    ASSUME NEW n \in Nat, NEW v, \A i \in 1..n : v[i] \in 1..n,
           \A i, j \in 1..n : i < j => v[i] < v[j]
    PROVE  \A i \in 1..n : v[i] = i
<1> DEFINE G == {k \in Nat : \A i \in 1..n : i = k => v[i] >= k}
           H == {k \in Nat : \A i \in 1..n : i = n - k => v[i] <= n - k}
<1>1. Nat \subseteq G
  <2>1. 0 \in G
    OBVIOUS
  <2>2. ASSUME NEW k \in G \cap Nat PROVE k + 1 \in G
    <3> SUFFICES ASSUME k + 1 \in 1..n PROVE v[k + 1] >= k + 1
      OBVIOUS
    <3>1. CASE k = 0
      BY <3>1
    <3>2. CASE k # 0
      <4>1. k \in 1..n /\ k < k + 1
        BY <3>2
      <4>2. v[k] >= k /\ v[k] < v[k + 1] /\ v[k] \in 1..n /\ v[k + 1] \in 1..n
        BY <2>2, <4>1
      <4> QED BY <4>2
    <3> QED BY <3>1, <3>2
  <2> HIDE DEF G
  <2> QED BY <2>1, <2>2, SetInduction
<1>2. Nat \subseteq H
  <2>1. 0 \in H
    OBVIOUS
  <2>2. ASSUME NEW k \in H \cap Nat PROVE k + 1 \in H
    <3> SUFFICES ASSUME n - (k + 1) \in 1..n PROVE v[n - (k + 1)] <= n - (k + 1)
      OBVIOUS
    <3>1. PICK a, b : a = n - (k + 1) /\ b = n - k
      OBVIOUS
    <3>2. a \in 1..n /\ b \in 1..n /\ a < b /\ b = a + 1
      BY <3>1
    <3>3. v[b] <= b /\ v[a] < v[b] /\ v[a] \in 1..n /\ v[b] \in 1..n
      BY <2>2, <3>1, <3>2
    <3>4. v[a] <= a
      BY <3>2, <3>3
    <3> QED BY <3>1, <3>4
  <2> HIDE DEF H
  <2> QED BY <2>1, <2>2, SetInduction
<1>3. ASSUME NEW i \in 1..n PROVE v[i] = i
  <2>1. v[i] >= i
    BY <1>1
  <2>2. PICK k : k = n - i /\ k \in Nat /\ i = n - k
    OBVIOUS
  <2>3. v[i] <= i
    BY <1>2, <2>2
  <2>4. v[i] \in 1..n
    OBVIOUS
  <2> QED BY <2>1, <2>3, <2>4
<1> QED BY <1>3

\* What a final fragment joins: if it is as many fragments of one message as
\* a message has, it is the message.
LEMMA JoinedInOrder ==
    ASSUME ChannelAssumption, NEW s \in Seq(AnyFragment),
           \A i, j \in DOMAIN s : s[i] = s[j] => i = j
    PROVE  /\ Joined(s) \in Seq(AnyFragment)
           /\ Len(Joined(s)) = Fragments
                /\ (\A i, j \in DOMAIN Joined(s) : Joined(s)[i][1] = Joined(s)[j][1])
              => \A i \in DOMAIN Joined(s) : Joined(s)[i][2] = i
<1>1. PICK n : n = Len(s) /\ n \in Nat /\ DOMAIN s = 1..n
  OBVIOUS
<1>2. PICK D : D = 1..n
  OBVIOUS
<1>3. PICK R : R = {p \in D \X D : s[p[1]][2] < s[p[2]][2] \/ (s[p[1]][2] = s[p[2]][2] /\ p[1] < p[2])}
  OBVIOUS
<1>4. \A i \in D : i \in Nat /\ s[i] \in AnyFragment /\ s[i] = <<s[i][1], s[i][2]>> /\ s[i][2] \in Int
  BY <1>1, <1>2 DEF AnyFragment
<1>5. \A i, j \in D : <<i, j>> \in R <=> s[i][2] < s[j][2] \/ (s[i][2] = s[j][2] /\ i < j)
  BY <1>3
<1>6. StrictOrder(R, D)
  <2>1. \A i \in D : <<i, i>> \notin R
    BY <1>4, <1>5
  <2>2. \A i, j, k \in D : <<i, j>> \in R /\ <<j, k>> \in R => <<i, k>> \in R
    BY <1>4, <1>5, SMTT(40)
  <2>3. \A i, j \in D : i # j => <<i, j>> \in R \/ <<j, i>> \in R
    BY <1>4, <1>5
  <2> QED BY <2>1, <2>2, <2>3 DEF StrictOrder
<1>7. IsFiniteSet(D) /\ Cardinality(D) = n
  <2>1. PICK o, e : o = 1 /\ e = n /\ o \in Int /\ e \in Int
    BY <1>1
  <2>2. IsFiniteSet(o..e) /\ Cardinality(o..e) = IF o > e THEN 0 ELSE e - o + 1
    BY <2>1, FS_Interval
  <2> QED BY <1>1, <1>2, <2>1, <2>2
<1>8. PICK z : z = Sorted(D, R)
  OBVIOUS
<1>9. /\ z \in Seq(D) /\ Len(z) = n /\ DOMAIN z = D
      /\ \A i, j \in D : i < j => <<z[i], z[j]>> \in R
  <2>1. z \in Seq(D) /\ Len(z) = n /\ \A i, j \in DOMAIN z : i < j => <<z[i], z[j]>> \in R
    BY <1>6, <1>7, <1>8, SortedElements
  <2>2. DOMAIN z = 1..Len(z)
    BY <2>1
  <2>3. DOMAIN z = D
    BY <1>2, <2>1, <2>2
  <2> QED BY <2>1, <2>3, Zenon
<1>10. PICK d : d = Joined(s)
  OBVIOUS
<1>11. d = [k \in D |-> s[z[k]]]
  BY <1>1, <1>2, <1>3, <1>8, <1>10 DEF Joined
<1>12. DOMAIN d = D /\ \A k \in D : z[k] \in D /\ d[k] = s[z[k]] /\ d[k] \in AnyFragment
  <2>1. \A k \in D : z[k] \in D
    BY <1>9
  <2> QED BY <1>4, <1>11, <2>1
<1>13. d \in Seq(AnyFragment) /\ Len(d) = n
  BY <1>1, <1>2, <1>11, <1>12
<1>14. ASSUME n = Fragments, \A i, j \in D : d[i][1] = d[j][1], NEW i \in D PROVE d[i][2] = i
  <2>1. \A j \in D : d[j][2] \in 1..n
    BY <1>12, <1>14 DEF AnyFragment
  <2>2. ASSUME NEW j \in D, NEW k \in D, j < k PROVE d[j][2] < d[k][2]
    <3>1. /\ z[j] \in D /\ z[k] \in D /\ d[j] = s[z[j]] /\ d[k] = s[z[k]]
          /\ d[j][1] = d[k][1]
      BY <1>12, <1>14
    <3>2. s[z[j]][2] < s[z[k]][2] \/ (s[z[j]][2] = s[z[k]][2] /\ z[j] < z[k])
      BY <1>5, <1>9, <2>2, <3>1
    <3>3. ASSUME s[z[j]][2] = s[z[k]][2], z[j] < z[k] PROVE FALSE
      <4>1. s[z[j]] = s[z[k]]
        BY <1>4, <3>1, <3>3, ZenonT(60)
      <4>2. z[j] = z[k]
        BY <1>1, <1>2, <3>1, <4>1
      <4> QED BY <1>4, <3>1, <3>3, <4>2
    <3> QED BY <3>1, <3>2, <3>3
  <2>3. PICK v : v = [j \in D |-> d[j][2]]
    OBVIOUS
  <2>4. (\A j \in 1..n : v[j] \in 1..n) /\ \A j, k \in 1..n : j < k => v[j] < v[k]
    BY <1>2, <2>1, <2>2, <2>3
  <2>5. v[i] = i
    BY <1>1, <1>2, <2>4, CountsUp
  <2> QED BY <2>3, <2>5
<1> QED BY <1>10, <1>12, <1>13, <1>14

\* A fragment is received: kept behind the others, or joined with them.
LEMMA ReceiveInv ==
    ASSUME ChannelAssumption, ChannelInv, NEW f \in flying, ReceiveFragment(f) PROVE ChannelInv'
<1>1. f \in AnyFragment /\ f[1] <= messages /\ f \notin Range(kept)
  BY DEF ChannelInv
<1>2. PICK s : s = Append(kept, f)
  OBVIOUS
<1>3. /\ s \in Seq(AnyFragment) /\ Range(s) = Range(kept) \cup {f}
      /\ \A i, j \in DOMAIN s : s[i] = s[j] => i = j
  <2>1. kept \in Seq(AnyFragment) /\ \A i, j \in DOMAIN kept : kept[i] = kept[j] => i = j
    BY DEF ChannelInv
  <2>2. \A i \in DOMAIN kept : kept[i] # f
    BY <1>1 DEF Range
  <2>3. Range(s) = Range(kept) \cup {f}
    BY <1>1, <1>2, <2>1, RangeIs
  <2> QED BY <1>1, <1>2, <2>1, <2>2, <2>3
<1>4. messages' = messages /\ flying' = flying \ {f}
  BY DEF ReceiveFragment
<1>5. CASE f[2] = Fragments
  <2>1. kept' = << >> /\ (joined' = Append(joined, Joined(s)) \/ joined' = joined)
    BY <1>2, <1>5 DEF ReceiveFragment, DeliverAudio
  <2>2. PICK d : d = Joined(s)
    OBVIOUS
  <2>3. /\ d \in Seq(AnyFragment)
        /\ Len(d) = Fragments /\ (\A i, j \in DOMAIN d : d[i][1] = d[j][1])
           => \A i \in DOMAIN d : d[i][2] = i
    BY <1>3, <2>2, JoinedInOrder
  <2>4. joined \in Seq(Seq(AnyFragment)) /\ OwnFragmentsJoinInOrder
    BY DEF ChannelInv
  <2>5. joined' \in Seq(Seq(AnyFragment)) /\ Range(joined') \subseteq Range(joined) \cup {d}
    <3>1. CASE joined' = joined
      BY <2>4, <3>1
    <3>2. CASE joined' = Append(joined, d)
      BY <2>3, <2>4, <3>2, RangeIs
    <3> QED BY <2>1, <2>2, <3>1, <3>2
  <2>6. OwnFragmentsJoinInOrder'
    BY <2>3, <2>4, <2>5 DEF OwnFragmentsJoinInOrder
  <2>7. Range(kept') = {} /\ kept' \in Seq(AnyFragment) /\ DOMAIN kept' = {}
    BY <2>1 DEF Range
  <2> QED BY <1>4, <2>5, <2>6, <2>7 DEF ChannelInv
<1>6. CASE f[2] # Fragments
  <2>1. kept' = s /\ joined' = joined
    BY <1>2, <1>6 DEF ReceiveFragment
  <2> QED BY <1>1, <1>3, <1>4, <2>1 DEF ChannelInv, OwnFragmentsJoinInOrder
<1> QED BY <1>5, <1>6

\* The steps of the channel.
LEMMA ChannelStep ==
    ASSUME ChannelAssumption, ChannelInv, [ChannelNext]_channelVars PROVE ChannelInv'
<1>1. ASSUME NEW f \in flying, ReceiveFragment(f) PROVE ChannelInv'
  BY <1>1, ReceiveInv
<1>2. CASE SendMessage
  <2>1. PICK m : m = messages + 1 /\ m \in Nat /\ messages < m
    BY DEF ChannelInv
  <2>2. PICK new : new = {<<m, i>> : i \in 1..Fragments}
    OBVIOUS
  <2>3. new \subseteq AnyFragment /\ \A f \in new : f[1] = m
    BY <2>1, <2>2 DEF AnyFragment
  <2>4. messages' = m /\ flying' = flying \cup new /\ kept' = kept /\ joined' = joined
    BY <1>2, <2>1, <2>2 DEF SendMessage
  <2>5. Range(kept) \subseteq AnyFragment
    BY DEF ChannelInv, Range
  <2>6. \A f \in AnyFragment : f[1] \in Nat
    BY DEF AnyFragment
  <2>7. \A f \in flying \cup Range(kept) : f[1] <= messages /\ f[1] \in Nat
    BY <2>5, <2>6 DEF ChannelInv
  <2>8. messages \in Nat
    BY DEF ChannelInv
  <2>9. Range(kept) \cap new = {}
    BY <2>1, <2>3, <2>7, <2>8
  <2>10. \A f \in flying' \cup Range(kept') : f[1] <= messages'
    BY <2>1, <2>3, <2>4, <2>7, <2>8
  <2> QED BY <2>1, <2>3, <2>4, <2>9, <2>10 DEF ChannelInv, OwnFragmentsJoinInOrder
<1>3. CASE Connect \/ IdleTimeout \/ StopChannel \/ UNCHANGED channelVars
  <2>1. messages' = messages /\ flying' = flying /\ kept' = kept /\ joined' = joined
    BY <1>3 DEF Connect, IdleTimeout, StopChannel, channelVars
  <2> QED BY <2>1 DEF ChannelInv, OwnFragmentsJoinInOrder
<1> QED BY <1>1, <1>2, <1>3 DEF ChannelNext

\* The three parts of the voice path.
SpeechInv == VoiceInv /\ LoadInv /\ TranscriptInv /\ ChannelInv

\* However the speech is cut into chunks, whoever transcribes at once, and in
\* whatever order texts and fragments arrive, the invariant holds.
THEOREM SpeechInvariant == SpeechSpec => []SpeechInv
<1>1. SpeechInit => VoiceInv
  <2>1. Secrets(<< >>) = {}
    BY DEF Secrets, Places
  <2> QED BY <2>1 DEF SpeechInit, VoiceInit, VoiceInv, Gone, EverySecretFound
<1>2. SpeechInit => LoadInv
  <2> SUFFICES ASSUME SttInit PROVE LoadInv
    BY DEF SpeechInit
  <2>1. /\ hearing \in [Listeners -> [step : {"idle", "waiting", "loading", "running"}, stamp : Nat]]
        /\ \A l \in Listeners : hearing[l].step = "idle"
    BY DEF SttInit
  <2>2. sttModel = FALSE /\ modelLoads = 0
    BY DEF SttInit
  <2> QED BY <2>1, <2>2 DEF LoadInv
<1>3. SpeechInit => TranscriptInv
  <2> SUFFICES ASSUME transcript = << >>, texts = << >> PROVE TranscriptInv
    BY DEF SpeechInit, SttInit
  <2>1. << >> \in Seq(Stamped) /\ Len(<< >>) = 0 /\ DOMAIN << >> = {}
    OBVIOUS
  <2>2. Range(<< >>) = {}
    BY <2>1 DEF Range
  <2>3. MaxSegments \in Nat /\ Min({0, MaxSegments}) = 0
    BY SttAssumption, LesserGreater DEF SttAssumption
  <2> QED BY <2>1, <2>2, <2>3 DEF TranscriptInv, TranscriptHoldsNewest
<1>4. SpeechInit => ChannelInv
  <2> SUFFICES ASSUME flying = {}, kept = << >>, joined = << >>, messages = 0 PROVE ChannelInv
    BY DEF SpeechInit, ChannelInit
  <2>1. Range(kept) = {} /\ Range(joined) = {}
    BY DEF Range
  <2> QED BY <2>1 DEF ChannelInv, OwnFragmentsJoinInOrder
<1>5. SpeechInv /\ [SpeechNext]_speechVars => SpeechInv'
  <2> SUFFICES ASSUME SpeechInv, [SpeechNext]_speechVars PROVE SpeechInv'
    OBVIOUS
  <2>1. [VoiceNext]_voiceVars /\ [SttNext]_sttVars /\ [ChannelNext]_channelVars
    BY DEF SpeechNext, speechVars
  <2> QED BY <2>1, VoiceStep, LoadStep, TranscriptStep, ChannelStep, SttAssumption, ChannelAssumption
          DEF SpeechInv
<1> QED BY <1>1, <1>2, <1>3, <1>4, <1>5, PTL DEF SpeechSpec, SpeechInv

\* Every secret up to the last detection whose beginning lies within the overlap
\* is found with its text and audio range, one model at most is loaded
\* before close(), the transcript holds the newest texts in order, and the
\* fragments of a message join in order: for any transcripts, listeners,
\* sizes of the window, the buffer and the messages.
THEOREM VoiceIsSound == SpeechSpec => []VoiceSound
<1>1. SpeechInv => VoiceSound
  BY DEF SpeechInv, VoiceInv, LoadInv, TranscriptInv, ChannelInv, VoiceSound, OneModelLoaded
<1> QED BY <1>1, SpeechInvariant, PTL
=============================================================================
