---------------------------- MODULE DataSubjects ----------------------------
(***************************************************************************)
(* Requests of data subjects: the DSAR workflow with its erasure and       *)
(* restriction services and the legal holds that stop an erasure, and the  *)
(* endpoints that call the services directly.  Every await on the database *)
(* or the cache is a step of its own, and each may fail.                   *)
(*                                                                         *)
(* The router builds the workflow with no service at all; the services are *)
(* what its constructor takes, so wiring ranges over both.                 *)
(***************************************************************************)
EXTENDS Naturals, FiniteSets

CONSTANTS
    Subjects,
    SubjectTenant,       \* the tenant of a subject
    RequestIds,
    Workers,        \* concurrent calls
    Holds,          \* holds that may be activated: [tenant, record], record may be "none"
    Keys,           \* mapping keys of the cache: [subject, pattern, n], pattern 1 or 2
    MaxSubjectCalls,       \* calls of the services started
    Wirings         \* services handed to DsarWorkflow: subsets of WorkflowServices

ASSUME SubjectAssumption == \A k \in Keys : k.pattern \in 1 .. 2

WorkflowServices == {"hold", "erasure", "restriction"}

VARIABLES
    wiring,
    requests,       \* dsar_requests, with what was known when a fulfilment began
    holdRows,       \* legal_hold: hold -> "active", "released" or "expired"
    restricted,     \* subject_restriction rows, one per subject
    cached,         \* subjects with a restriction key in Valkey
    keys,           \* mapping keys in Valkey; a key is written once
    written,
    erasures,       \* subject_erasure rows
    call,           \* what each worker is doing
    calls,          \* calls started
    unsure          \* subjects with overlapping calls or a failed cache write

subjectVars == <<wiring, requests, holdRows, restricted, cached, keys, written,
                 erasures, call, calls, unsure>>

IdleWorker == [pc |-> "idle"]
Busy(w) == call[w].pc # "idle"

SubjectInit ==
    /\ wiring \in Wirings
    /\ requests = << >> /\ holdRows = << >>
    /\ restricted = {} /\ cached = {} /\ keys = {} /\ written = {} /\ erasures = {}
    /\ call = [w \in Workers |-> IdleWorker]
    /\ calls = 0 /\ unsure = {}

-----------------------------------------------------------------------------
(* Legal holds. *)

ActivateHold(h) ==
    /\ h \notin DOMAIN holdRows
    /\ holdRows' = [x \in DOMAIN holdRows \union {h} |->
                        IF x = h THEN "active" ELSE holdRows[x]]
    /\ UNCHANGED <<wiring, calls, requests, restricted, cached, keys, written, erasures,
                   call, unsure>>

\* release_hold sets released_at again on a hold that was released before.
ReleaseHold(h) ==
    /\ h \in DOMAIN holdRows
    /\ holdRows' = [holdRows EXCEPT ![h] = "released"]
    /\ UNCHANGED <<wiring, calls, requests, restricted, cached, keys, written, erasures,
                   call, unsure>>

\* expires_at passes.
ExpireHold(h) ==
    /\ h \in DOMAIN holdRows /\ holdRows[h] = "active"
    /\ holdRows' = [holdRows EXCEPT ![h] = "expired"]
    /\ UNCHANGED <<wiring, calls, requests, restricted, cached, keys, written, erasures,
                   call, unsure>>

\* Mutated IsOnHold: only holds on the record itself.
IsOnHold_RecordOnly(s) ==
    \E h \in DOMAIN holdRows : holdRows[h] = "active" /\ h.record = s

\* is_on_hold with a record id: any hold of the tenant counts, whatever its record.
IsOnHold(s) ==
    \E h \in DOMAIN holdRows :
        /\ holdRows[h] = "active"
        /\ h.tenant = SubjectTenant[s] \/ h.record = s

-----------------------------------------------------------------------------
(* The workflow. *)

SubmitRequest(r, type, s) ==
    /\ r \notin DOMAIN requests
    /\ requests' = [x \in DOMAIN requests \union {r} |->
            IF x = r THEN [type |-> type, subject |-> s, status |-> "pending_verification",
                           result |-> "none", since |-> {}, had |-> {}, sure |-> FALSE]
            ELSE requests[x]]
    /\ UNCHANGED <<wiring, calls, holdRows, restricted, cached, keys, written, erasures,
                   call, unsure>>

\* verify_request does not look at the status it replaces.
VerifyRequest(r) ==
    /\ r \in DOMAIN requests
    /\ requests' = [requests EXCEPT ![r].status = "processing"]
    /\ UNCHANGED <<wiring, calls, holdRows, restricted, cached, keys, written, erasures,
                   call, unsure>>

\* A restriction call of w overlaps one of another worker on the subject.
Overlaps(w, s) ==
    \E v \in Workers \ {w} :
        /\ Busy(v) /\ call[v].subject = s
        /\ call[v].pc \in {"probe", "probeRow", "insert", "cache", "deleteRow", "dropCache"}

\* The step after the hold check of an erasure.
AfterHold(onHold) ==
    IF onHold THEN "update" ELSE IF "erasure" \in wiring THEN "scan1" ELSE "update"

\* fulfill_request: the row is read once; neither a verification nor an
\* earlier fulfilment is asked for.
Fulfil(w, r) ==
    /\ ~Busy(w) /\ r \in DOMAIN requests
    /\ calls < MaxSubjectCalls /\ calls' = calls + 1
    /\ LET q == requests[r]
           pc == CASE q.type = "erasure" /\ "hold" \in wiring -> "hold"
                   [] q.type = "erasure" /\ "hold" \notin wiring -> AfterHold(FALSE)
                   [] q.type = "restriction" /\ "restriction" \in wiring -> "probe"
                   [] OTHER -> "update"
           result == CASE q.type = "erasure" -> "deleted"
                       [] q.type = "restriction" -> "processing_restricted"
                       [] OTHER -> "active"
       IN  /\ call' = [call EXCEPT ![w] =
                 [pc |-> pc, request |-> r, subject |-> q.subject, result |-> result,
                  since |-> {h \in DOMAIN holdRows : holdRows[h] = "active"},
                  had |-> {k \in keys : k.subject = q.subject},
                  sure |-> "hold" \in wiring, swept |-> "erasure" \in wiring]]
           /\ unsure' = IF pc = "probe" /\ Overlaps(w, q.subject)
                        THEN unsure \union {q.subject} ELSE unsure
    /\ UNCHANGED <<wiring, requests, holdRows, restricted, cached, keys, written, erasures>>

\* A failing database answers that there is no hold.
CheckHold(w) ==
    /\ call[w].pc = "hold"
    /\ \E answered \in BOOLEAN :
         LET onHold == answered /\ IsOnHold(call[w].subject) IN
         call' = [call EXCEPT ![w].pc = AfterHold(onHold),
                              ![w].sure = answered,
                              ![w].result = IF onHold THEN "legal_hold" ELSE "deleted"]
    /\ UNCHANGED <<wiring, calls, requests, holdRows, restricted, cached, keys, written,
                   erasures, unsure>>

\* _update_request_fulfillment; a failed update is rolled back and forgotten.
UpdateRequest(w) ==
    /\ call[w].pc = "update"
    /\ LET c == call[w] IN
       \E ok \in BOOLEAN :
         requests' = IF ~ok THEN requests
             ELSE [requests EXCEPT ![c.request] =
                     [@ EXCEPT !.status = "fulfilled", !.result = c.result,
                               !.since = c.since, !.sure = c.sure,
                               !.had = IF c.swept THEN c.had ELSE {}]]
    /\ call' = [call EXCEPT ![w] = IdleWorker]
    /\ UNCHANGED <<wiring, calls, holdRows, restricted, cached, keys, written, erasures, unsure>>

-----------------------------------------------------------------------------
(* Erasure. *)

\* POST /dsar/erasure: neither a database session nor a hold check.
EraseNow(w, s) ==
    /\ ~Busy(w)
    /\ calls < MaxSubjectCalls /\ calls' = calls + 1
    /\ call' = [call EXCEPT ![w] = [pc |-> "scan1", request |-> "none", subject |-> s,
                                    result |-> "none", since |-> {}, had |-> {},
                                    sure |-> FALSE, swept |-> FALSE]]
    /\ UNCHANGED <<wiring, requests, holdRows, restricted, cached, keys, written,
                   erasures, unsure>>

\* Mutated NextScan: the second pattern is never looked for.
NextScan_OnePattern(w) == IF call[w].request = "none" THEN "idle" ELSE "record"

\* The two key patterns are scanned one after the other; a call without a
\* request has no database session to record the erasure in.
NextScan(w) ==
    IF call[w].pc = "scan1" THEN "scan2"
    ELSE IF call[w].request = "none" THEN "idle" ELSE "record"

\* A key written while the scan runs may be missed; one that was there is not.
ScanAndDelete(w) ==
    /\ call[w].pc \in {"scan1", "scan2"}
    /\ LET pattern == IF call[w].pc = "scan1" THEN 1 ELSE 2
           old == {k \in keys : k.subject = call[w].subject /\ k.pattern = pattern}
       IN  keys' = keys \ old
    /\ call' = [call EXCEPT ![w] = IF NextScan(w) = "idle" THEN IdleWorker
                                   ELSE [@ EXCEPT !.pc = NextScan(w)]]
    /\ UNCHANGED <<wiring, calls, requests, holdRows, restricted, cached, written, erasures, unsure>>

\* A cache error ends the scan and the subject still counts as erased.
ScanFails(w) ==
    /\ call[w].pc \in {"scan1", "scan2"}
    /\ call' = [call EXCEPT ![w] = IF call[w].request = "none" THEN IdleWorker
                                   ELSE [@ EXCEPT !.pc = "record", !.swept = FALSE]]
    /\ UNCHANGED <<wiring, calls, requests, holdRows, restricted, cached, keys, written,
                   erasures, unsure>>

RecordErasure(w) ==
    /\ call[w].pc = "record"
    /\ \E ok \in BOOLEAN :
         erasures' = IF ok THEN erasures \union {call[w].subject} ELSE erasures
    /\ call' = [call EXCEPT ![w].pc = "update"]
    /\ UNCHANGED <<wiring, calls, requests, holdRows, restricted, cached, keys, written, unsure>>

\* Requests of the subject keep writing mappings.
WriteMapping(k) ==
    /\ k \notin written
    /\ keys' = keys \union {k} /\ written' = written \union {k}
    /\ UNCHANGED <<wiring, calls, requests, holdRows, restricted, cached, erasures, call, unsure>>

-----------------------------------------------------------------------------
(* Restriction: the row in the database and the key in the cache. *)

StartRestriction(w, s, pc) ==
    /\ ~Busy(w)
    /\ calls < MaxSubjectCalls /\ calls' = calls + 1
    /\ call' = [call EXCEPT ![w] = [pc |-> pc, request |-> "none", subject |-> s,
                                    result |-> "none", since |-> {}, had |-> {},
                                    sure |-> FALSE, swept |-> FALSE]]
    /\ unsure' = IF Overlaps(w, s) THEN unsure \union {s} ELSE unsure
    /\ UNCHANGED <<wiring, requests, holdRows, restricted, cached, keys, written, erasures>>

ApplyRestriction(w, s) == StartRestriction(w, s, "probe")
RemoveRestriction(w, s) == StartRestriction(w, s, "deleteRow")

\* Where a restriction call goes when it is done.
WhenDone(w) == IF call[w].request = "none" THEN IdleWorker ELSE [call[w] EXCEPT !.pc = "update"]

\* is_subject_restricted asks the cache, then the database; an error of
\* either reads as unrestricted.
ProbeCache(w) ==
    /\ call[w].pc = "probe"
    /\ \E ok \in BOOLEAN :
         call' = [call EXCEPT ![w] = IF ok /\ call[w].subject \in cached THEN WhenDone(w)
                                     ELSE [@ EXCEPT !.pc = "probeRow"]]
    /\ UNCHANGED <<wiring, calls, requests, holdRows, restricted, cached, keys, written,
                   erasures, unsure>>

ProbeRow(w) ==
    /\ call[w].pc = "probeRow"
    /\ \E ok \in BOOLEAN :
         call' = [call EXCEPT ![w] = IF ok /\ call[w].subject \in restricted THEN WhenDone(w)
                                     ELSE [@ EXCEPT !.pc = "insert"]]
    /\ UNCHANGED <<wiring, calls, requests, holdRows, restricted, cached, keys, written,
                   erasures, unsure>>

\* A failed insert raises out of the call.
InsertRestriction(w) ==
    /\ call[w].pc = "insert"
    /\ \/ /\ restricted' = restricted \union {call[w].subject}
          /\ call' = [call EXCEPT ![w].pc = "cache"]
       \/ /\ call' = [call EXCEPT ![w] = IdleWorker]
          /\ UNCHANGED restricted
    /\ UNCHANGED <<wiring, calls, requests, holdRows, cached, keys, written, erasures, unsure>>

CacheRestriction(w) ==
    /\ call[w].pc = "cache"
    /\ \E ok \in BOOLEAN : cached' = IF ok THEN cached \union {call[w].subject} ELSE cached
    /\ call' = [call EXCEPT ![w] = WhenDone(w)]
    /\ UNCHANGED <<wiring, calls, requests, holdRows, restricted, keys, written, erasures, unsure>>

\* remove_restriction goes on to the cache when the database fails.
DeleteRow(w) ==
    /\ call[w].pc = "deleteRow"
    /\ \E ok \in BOOLEAN : restricted' = IF ok THEN restricted \ {call[w].subject}
                                         ELSE restricted
    /\ call' = [call EXCEPT ![w].pc = "dropCache"]
    /\ UNCHANGED <<wiring, calls, requests, holdRows, cached, keys, written, erasures, unsure>>

\* Mutated DropCache: the key is left to its time to live.
DropCache_Kept(w) ==
    /\ call[w].pc = "dropCache"
    /\ call' = [call EXCEPT ![w] = IdleWorker]
    /\ UNCHANGED <<wiring, calls, requests, holdRows, restricted, cached, keys, written,
                   erasures, unsure>>

DropCache(w) ==
    /\ call[w].pc = "dropCache"
    /\ \/ cached' = cached \ {call[w].subject} /\ UNCHANGED unsure
       \/ unsure' = unsure \union {call[w].subject} /\ UNCHANGED cached
    /\ call' = [call EXCEPT ![w] = IdleWorker]
    /\ UNCHANGED <<wiring, calls, requests, holdRows, restricted, keys, written, erasures>>

\* The key lives for a day.
CacheExpires(s) ==
    /\ s \in cached /\ cached' = cached \ {s}
    /\ UNCHANGED <<wiring, calls, requests, holdRows, restricted, keys, written, erasures,
                   call, unsure>>

Fulfilling(w) ==
    \/ \E r \in RequestIds : Fulfil(w, r)
    \/ CheckHold(w) \/ UpdateRequest(w)

Erasing(w) ==
    \/ \E s \in Subjects : EraseNow(w, s)
    \/ ScanAndDelete(w) \/ ScanFails(w) \/ RecordErasure(w)

Restricting(w) ==
    \/ \E s \in Subjects : ApplyRestriction(w, s) \/ RemoveRestriction(w, s)
    \/ ProbeCache(w) \/ ProbeRow(w) \/ InsertRestriction(w) \/ CacheRestriction(w)
    \/ DeleteRow(w) \/ DropCache(w)

\* Erasure and restriction share the requests and the workers only.
ErasureNext ==
    \/ \E h \in Holds : ActivateHold(h) \/ ReleaseHold(h) \/ ExpireHold(h)
    \/ \E r \in RequestIds, s \in Subjects : SubmitRequest(r, "erasure", s)
    \/ \E r \in RequestIds : VerifyRequest(r)
    \/ \E w \in Workers : Fulfilling(w) \/ Erasing(w)
    \/ \E k \in Keys : WriteMapping(k)

RestrictionNext ==
    \/ \E r \in RequestIds, s \in Subjects, type \in {"restriction", "access"} :
          SubmitRequest(r, type, s)
    \/ \E w \in Workers : Fulfilling(w) \/ Restricting(w)
    \/ \E s \in Subjects : CacheExpires(s)

SubjectNext == ErasureNext \/ RestrictionNext

SubjectSpec == SubjectInit /\ [][SubjectNext]_subjectVars

-----------------------------------------------------------------------------
\* A hold covers a subject by name, or the whole tenant.
Covers(h, s) == h.record = s \/ (h.record = "none" /\ h.tenant = SubjectTenant[s])

\* A hold that covered the subject from before the fulfilment of an erasure to
\* after its end stops it, however holds come and go meanwhile: fulfill_request
\* answers legal_hold, not deleted, unless the hold check itself failed.
HoldThroughoutBlocks ==
    \A r \in DOMAIN requests :
        requests[r].result = "deleted" /\ requests[r].sure =>
            ~\E h \in requests[r].since : holdRows[h] = "active" /\ Covers(h, requests[r].subject)

\* An erasure reported as deleted by a workflow with an erasure service, whose
\* scan met no cache error, leaves no mapping that was there when it began.
DeletedMeansGone ==
    \A r \in DOMAIN requests :
        requests[r].result = "deleted" => requests[r].had \intersect keys = {}

\* Between calls, a subject the cache says is restricted has its row in the
\* database, when no two calls on the subject overlapped and no removal failed
\* in the cache: the fast path never outlives what it caches.
CachedRestrictionHasRow ==
    \A s \in Subjects \ unsure :
        (\A w \in Workers : Busy(w) => call[w].subject # s) => (s \in cached => s \in restricted)

\* What the data subject services promise while calls, holds and new mappings
\* interleave: holds stop erasures, erased keys are gone, and a restriction
\* in the cache has its row.
SubjectRightsKept ==
    /\ HoldThroughoutBlocks
    /\ DeletedMeansGone
    /\ CachedRestrictionHasRow

\* As the docstring of fulfill_request says, an erasure that is reported as
\* done has erased something.  It fails: the router passes no erasure service.
DeletedMeansErased ==
    \A r \in DOMAIN requests : requests[r].result = "deleted" => requests[r].subject \in erasures

\* A hold stops every erasure.  It fails: a hold activated between the check
\* and the scan comes too late, and POST /dsar/erasure asks for none.
NoErasureUnderHold ==
    \A w \in Workers :
        call[w].pc \in {"scan1", "scan2"} =>
            ~\E h \in DOMAIN holdRows : holdRows[h] = "active" /\ Covers(h, call[w].subject)
=============================================================================
