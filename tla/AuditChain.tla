----------------------------- MODULE AuditChain -----------------------------
(***************************************************************************)
(* AuditChainService on PostgreSQL and the daily anchor computed over it.  *)
(*                                                                         *)
(* A write is a transaction of four statements at READ COMMITTED: each     *)
(* statement reads the rows that were committed when it started.  The      *)
(* first one locks the newest row of the tenant; a transaction that has to *)
(* wait for that lock keeps the row it had chosen, since the row itself    *)
(* was not changed.  A caller that gives up leaves its transaction behind, *)
(* to be rolled back or, if the commit was under way, committed.           *)
(*                                                                         *)
(* SHA-384 is taken to be collision free: the hash of a row is represented *)
(* by its id, 0 standing for no previous row.                              *)
(***************************************************************************)
EXTENDS Naturals, Sequences, FiniteSets

CONSTANTS
    Events,         \* event ids
    TenantOf,       \* the tenant of each event
    Attempts,       \* attempts the caller makes for one event
    MaxTimeouts,    \* bound on the attempts that fail
    MaxOpen,        \* bound on the transactions open at a time
    MaxDay          \* bound on the days that pass

ASSUME ChainAssumption ==
    /\ IsFiniteSet(Events)
    /\ DOMAIN TenantOf = Events
    /\ Attempts \in Nat \ {0}
    /\ MaxTimeouts \in Nat
    /\ MaxOpen \in Nat \ {0}
    /\ MaxDay \in Nat

VARIABLES
    caller,     \* the retry loop of emit_anonymization_audit, per event
    txn,        \* the transactions, one per event and attempt
    table,      \* audit_event, in the order of the ids
    today,
    anchors,    \* audit_anchor
    contended   \* the tenants two of whose transactions were open at a time
                \* (a record of the history, not state of the program)

vars == <<caller, txn, table, today, anchors, contended>>

Tenants == {TenantOf[e] : e \in Events}
Txns == Events \X (1..Attempts)
Open == {"begun", "waiting", "locked", "checked", "inserted"}
Holding == {"locked", "checked", "inserted"}

Init ==
    /\ caller = [e \in Events |-> [pc |-> "idle", attempt |-> 0]]
    /\ txn = [t \in Txns |-> [pc |-> "none", latest |-> 0, day |-> 0, id |-> 0]]
    /\ table = << >>
    /\ today = 0
    /\ anchors = {}
    /\ contended = {}

-----------------------------------------------------------------------------
\* The committed rows a statement sees, and the newest of a tenant's.
Committed == {i \in 1..Len(table) : table[i].state = "committed"}
RowsOf(tenant) == {i \in Committed : table[i].tenant = tenant}
MaxId(S) ==
    IF \E i \in S : \A j \in S : j <= i
    THEN CHOOSE i \in S : \A j \in S : j <= i
    ELSE 0

\* Mutated LatestEvent: the newest row of any tenant.
LatestEvent_AnyTenant(tenant) == MaxId(Committed)

\* Mutated LatestEvent: a head kept in memory, moved on when a write returns.
LatestEvent_InMemory(tenant) ==
    MaxId({i \in RowsOf(tenant) : caller[table[i].event].pc = "acked"})

\* SELECT ... WHERE tenant_id ORDER BY id DESC LIMIT 1.
LatestEvent(tenant) == MaxId(RowsOf(tenant))

\* The attempt's caller still waits for it.
Attached(t) == caller[t[1]].pc = "calling" /\ caller[t[1]].attempt = t[2]

\* store_event returned to the attempt's caller, if it is still there.
Acked(t) ==
    IF Attached(t) THEN [caller EXCEPT ![t[1]].pc = "acked"] ELSE caller

\* Mutated Raised: the last attempt is followed by another.
Raised_OffByOne(t) ==
    IF Attached(t)
    THEN [caller EXCEPT ![t[1]].pc = IF t[2] <= Attempts THEN "idle" ELSE "failed"]
    ELSE caller

\* The retry loop of emit_anonymization_audit after an attempt that raised.
Raised(t) ==
    IF Attached(t)
    THEN [caller EXCEPT ![t[1]].pc = IF t[2] < Attempts THEN "idle" ELSE "failed"]
    ELSE caller

\* log_event: the event is stamped and a transaction begins.
Begin(e) ==
    /\ caller[e].pc = "idle"
    /\ Cardinality({t \in Txns : txn[t].pc \in Open}) < MaxOpen
    /\ LET t == <<e, caller[e].attempt + 1>>
       IN  /\ caller' = [caller EXCEPT ![e] = [pc |-> "calling", attempt |-> t[2]]]
           /\ txn' = [txn EXCEPT ![t].pc = "begun", ![t].day = today]
    /\ contended' = contended \cup
          {tenant \in {TenantOf[e]} :
             \E t \in Txns : TenantOf[t[1]] = tenant /\ txn[t].pc \in Open}
    /\ UNCHANGED <<table, today, anchors>>

LockFree(t, id) ==
    \A u \in Txns \ {t} : ~(txn[u].pc \in Holding /\ txn[u].latest = id)

\* SELECT ... FOR UPDATE: no row, no lock.
SelectLatest(t) ==
    /\ txn[t].pc = "begun"
    /\ Attached(t)
    /\ LET id == LatestEvent(TenantOf[t[1]])
       IN  txn' = [txn EXCEPT ![t].latest = id,
                              ![t].pc = IF id = 0 \/ LockFree(t, id)
                                        THEN "locked" ELSE "waiting"]
    /\ UNCHANGED <<caller, table, today, anchors, contended>>

LockGranted(t) ==
    /\ txn[t].pc = "waiting"
    /\ LockFree(t, txn[t].latest)
    /\ txn' = [txn EXCEPT ![t].pc = "locked"]
    /\ UNCHANGED <<caller, table, today, anchors, contended>>

\* An event that is already stored is not stored again.
CheckExisting(t) ==
    /\ txn[t].pc = "locked"
    /\ Attached(t)
    /\ IF \E i \in Committed : table[i].event = t[1]
       THEN /\ txn' = [txn EXCEPT ![t].pc = "done"]
            /\ caller' = Acked(t)
       ELSE /\ txn' = [txn EXCEPT ![t].pc = "checked"]
            /\ UNCHANGED caller
    /\ UNCHANGED <<table, today, anchors, contended>>

NewRow(t) ==
    [event |-> t[1], tenant |-> TenantOf[t[1]], day |-> txn[t].day,
     prev |-> txn[t].latest, state |-> "pending"]

\* Mutated Insert: the caller is answered before the commit.
Insert_AcksEarly(t) ==
    /\ txn[t].pc = "checked"
    /\ Attached(t)
    /\ table' = Append(table, NewRow(t))
    /\ txn' = [txn EXCEPT ![t].pc = "inserted", ![t].id = Len(table) + 1]
    /\ caller' = Acked(t)
    /\ UNCHANGED <<today, anchors, contended>>

\* INSERT under the UNIQUE constraint on event_id: it waits for an open
\* transaction that inserted the same event, and fails if that one commits.
Insert(t) ==
    /\ txn[t].pc = "checked"
    /\ Attached(t)
    /\ \A i \in 1..Len(table) :
          table[i].event = t[1] => table[i].state # "pending"
    /\ IF \E i \in Committed : table[i].event = t[1]
       THEN /\ txn' = [txn EXCEPT ![t].pc = "aborted"]
            /\ caller' = Raised(t)
            /\ UNCHANGED table
       ELSE /\ table' = Append(table, NewRow(t))
            /\ txn' = [txn EXCEPT ![t].pc = "inserted", ![t].id = Len(table) + 1]
            /\ UNCHANGED caller
    /\ UNCHANGED <<today, anchors, contended>>

\* The end of the session's transaction, awaited or left behind.
Commit(t) ==
    /\ txn[t].pc = "inserted"
    /\ table' = [table EXCEPT ![txn[t].id].state = "committed"]
    /\ txn' = [txn EXCEPT ![t].pc = "done"]
    /\ caller' = Acked(t)
    /\ UNCHANGED <<today, anchors, contended>>

\* The attempts that failed so far.
Failures ==
    {t \in Txns : \/ t[2] < caller[t[1]].attempt
                  \/ t[2] = caller[t[1]].attempt /\ caller[t[1]].pc \in {"idle", "failed"}}

\* asyncio.wait_for gives up on the attempt, or its connection breaks.
Timeout(e) ==
    /\ caller[e].pc = "calling"
    /\ Cardinality(Failures) < MaxTimeouts
    /\ caller' = Raised(<<e, caller[e].attempt>>)
    /\ UNCHANGED <<txn, table, today, anchors, contended>>

\* The server rolls back a transaction that was left behind.
Rollback(t) ==
    /\ txn[t].pc \in Open
    /\ ~Attached(t)
    /\ txn' = [txn EXCEPT ![t].pc = "aborted"]
    /\ table' = IF txn[t].pc = "inserted"
                THEN [table EXCEPT ![txn[t].id].state = "aborted"] ELSE table
    /\ UNCHANGED <<caller, today, anchors, contended>>

-----------------------------------------------------------------------------
\* ChainAnchorService: the hashes of a day's events, of all tenants.
DayHashes(d) == {i \in Committed : table[i].day = d}

\* Mutated RunDailyAnchor: the running day is anchored.
RunDailyAnchor_Today ==
    /\ DayHashes(today) # {}
    /\ anchors' = anchors \cup {[day |-> today, root |-> DayHashes(today),
                                 quiet |-> ~\E t \in Txns : txn[t].pc \in Open]}
    /\ UNCHANGED <<caller, txn, table, today, contended>>

\* run_daily_anchor for yesterday.  quiet records whether a transaction of
\* that day was still open (it is not part of the stored anchor).
RunDailyAnchor ==
    /\ today > 0
    /\ DayHashes(today - 1) # {}
    /\ anchors' = anchors \cup
          {[day |-> today - 1, root |-> DayHashes(today - 1),
            quiet |-> ~\E t \in Txns : txn[t].pc \in Open /\ txn[t].day = today - 1]}
    /\ UNCHANGED <<caller, txn, table, today, contended>>

\* verify_anchor: the recomputed root is the stored one.
VerifyAnchor(a) == DayHashes(a.day) = a.root

Midnight ==
    /\ today < MaxDay
    /\ today' = today + 1
    /\ UNCHANGED <<caller, txn, table, anchors, contended>>

Settled == \A e \in Events : caller[e].pc \in {"acked", "failed"}
Done == Settled /\ (\A t \in Txns : txn[t].pc \notin Open) /\ UNCHANGED vars

Step(t) ==
    \/ SelectLatest(t) \/ LockGranted(t) \/ CheckExisting(t)
    \/ Insert(t) \/ Commit(t) \/ Rollback(t)

Next ==
    \/ \E e \in Events : Begin(e) \/ Timeout(e)
    \/ \E t \in Txns : Step(t)
    \/ RunDailyAnchor \/ Midnight \/ Done

Spec == Init /\ [][Next]_vars
-----------------------------------------------------------------------------
(***************************************************************************)
(* Properties.                                                             *)
(***************************************************************************)
Row == [event : Events, tenant : Tenants, day : 0..MaxDay, prev : Nat,
        state : {"pending", "committed", "aborted"}]

\* Type invariant of the callers, the transactions, the table and the anchors.
TypeOK ==
    /\ caller \in [Events -> [pc : {"idle", "calling", "acked", "failed"},
                              attempt : 0..Attempts]]
    /\ txn \in [Txns -> [pc : Open \cup {"none", "done", "aborted"},
                         latest : Nat, day : 0..MaxDay, id : Nat]]
    /\ table \in Seq(Row)
    /\ today \in 0..MaxDay
    /\ contended \subseteq Tenants
    /\ anchors \subseteq [day : 0..MaxDay, root : SUBSET Nat, quiet : BOOLEAN]

\* An event whose write was acknowledged is in the table exactly once, however
\* many of its attempts timed out, overlapped or committed late (the
\* idempotency check of store_event).
AckedEventStoredOnce ==
    \A e \in Events :
        LET rows == {i \in Committed : table[i].event = e}
        IN  /\ caller[e].pc = "acked" => rows # {}
            /\ Cardinality(rows) <= 1

\* Every link leads back to a committed event of the same tenant, also when
\* writers overlap: no event hangs off a write that was rolled back.
LinksLeadBack ==
    \A i \in Committed : table[i].prev # 0 =>
        /\ table[i].prev \in Committed
        /\ table[i].prev < i
        /\ table[table[i].prev].tenant = table[i].tenant

\* verify_chain: each event but the first names the one before it by id.
VerifyChain(tenant) ==
    \A i \in RowsOf(tenant) :
        LET before == MaxId({j \in RowsOf(tenant) : j < i})
        IN  before # 0 => table[i].prev = before

\* The chain of a tenant verifies at any time unless two of its own writes
\* overlapped: writes of other tenants, timeouts, rollbacks and commits nobody
\* waits for do not break it (store_event, verify_chain).
UncontendedChainVerifies ==
    \A tenant \in Tenants \ contended : VerifyChain(tenant)

\* An anchor taken when no write of its day was open stays valid.
QuietAnchorStaysValid == \A a \in anchors : a.quiet => VerifyAnchor(a)

\* What a chain is good for, over retries, timeouts and late commits: its links
\* lead back, it verifies unless two writes of its tenant overlapped, and an
\* anchor of a quiet day stays valid.
ChainHoldsTogether ==
    /\ LinksLeadBack
    /\ UncontendedChainVerifies
    /\ QuietAnchorStaysValid
-----------------------------------------------------------------------------
(***************************************************************************)
(* Said of the code and not kept by it; each comment names the exception.  *)
(***************************************************************************)

\* What store_event says of its lock: no two events follow the same event.
\* Except two overlapping writes: the one that waited for the lock keeps the
\* row it had chosen.
ChainNeverForks ==
    \A i, j \in Committed :
        /\ table[i].prev # 0
        /\ table[i].prev = table[j].prev
        => i = j
=============================================================================
