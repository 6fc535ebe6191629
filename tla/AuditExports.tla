------------------------------ MODULE AuditExports ------------------------------
(***************************************************************************)
(* Reading the audit trail out while it grows, in two parts:               *)
(*                                                                         *)
(*  - one reader that walks the table page by page: the JSONL stream by    *)
(*    offset, the list endpoints and the CSV streams by a keyset on        *)
(*    (timestamp, id), the event export below a snapshot of the newest id  *)
(*    (api/v1/admin/audit.py, anonymization_events.py,                     *)
(*    services/audit_export.py, AuditChainService.get_events);             *)
(*  - exporters of a past month, which upload one object per format and    *)
(*    then record the export (services/audit_exporter.py).                 *)
(*                                                                         *)
(* An insert takes its id before it commits, and the lock store_event holds *)
(* on the tenant's newest row does not order two inserts whose readers saw  *)
(* no row or the same older one: rows may appear out of id order, and their *)
(* timestamps, which the callers take before, in any order.                *)
(***************************************************************************)
EXTENDS Naturals, Sequences, FiniteSets, SequencesExt, Functions

CONSTANTS Stamps,         \* timestamps, a set of Nat
          MaxRows,        \* bound of the table
          PageSize,       \* limit, chunk_size, ANONYMIZATION_EXPORT_PAGE_SIZE
          Exporters,      \* calls that may export the month
          Scheduled,      \* the ones made by the scheduler
          MaxTracked,     \* bound of the exports recorded
          Formats,        \* monthly.formats, a set of names
          MaxLate         \* events of the month that arrive after it ended

ASSUME ExportAssumption == PageSize \in Nat \ {0} /\ Stamps \subseteq Nat

VARIABLES auditRows,      \* audit_event: per committed id the row's timestamp
          inserting,      \* ids taken by transactions that have not committed
          lastId,         \* the id sequence
          reader,         \* the reader's request and what it has sent
          monthEvents,    \* number of events of the month, in the table
          exporter,       \* per exporter: where it is and what it fetched
          bucket,         \* per format: events in the object, 0 for no object
          tracking        \* rows of export_tracking, in order

tableVars == <<auditRows, inserting, lastId>>
readerVars == <<tableVars, reader>>
monthVars == <<monthEvents, exporter, bucket, tracking>>

----------------------------------------------------------------------------
(* Rows, queries and pages.                                                 *)

Kinds == {"offset", "keyset", "snapshot"}
Sorts == {"timestamp:asc", "timestamp:desc", "none"}

NoCursor == [ts |-> 0, id |-> 0]
NoReader == [at |-> "idle", kind |-> "offset", sort |-> "none", cursor |-> NoCursor,
             offset |-> 0, bound |-> 0, base |-> {}, open |-> {}, sent |-> <<>>]

ReaderInit == auditRows = <<>> /\ inserting = {} /\ lastId = 0 /\ reader = NoReader

Ids == DOMAIN auditRows

\* _order_by; an unsorted query goes by id, newest first
Precedes(sort, i, j) ==
    LET s == auditRows[i]
        t == auditRows[j]
    IN  CASE sort = "timestamp:asc"  -> s < t \/ (s = t /\ i < j)
          [] sort = "timestamp:desc" -> s > t \/ (s = t /\ i > j)
          [] OTHER                   -> i > j

Beyond_TimeOnly(sort, c, i) ==
    \/ c = NoCursor
    \/ IF sort = "timestamp:asc" THEN auditRows[i] > c.ts ELSE auditRows[i] < c.ts

\* _cursor_clause: strictly past the cursor, equal timestamps by id
Beyond(sort, c, i) ==
    \/ c = NoCursor
    \/ IF sort = "timestamp:asc"
       THEN auditRows[i] > c.ts \/ (auditRows[i] = c.ts /\ i > c.id)
       ELSE auditRows[i] < c.ts \/ (auditRows[i] = c.ts /\ i < c.id)

\* _event_where and get_events for the reader's request
Matching(r) == {i \in Ids : /\ Beyond(r.sort, r.cursor, i)
                            /\ r.kind = "snapshot" => i <= r.bound}

\* ORDER BY ... LIMIT ... OFFSET: a row's rank is the number of matching rows
\* that come before it, and a page holds the rows of PageSize ranks.
Rank(r, i) == Cardinality({j \in Matching(r) : Precedes(r.sort, j, i)})
Least(a, b) == IF a <= b THEN a ELSE b
PageLength(r) == IF Cardinality(Matching(r)) <= r.offset THEN 0
                 ELSE Least(PageSize, Cardinality(Matching(r)) - r.offset)
GetEvents(r) == [n \in 1 .. PageLength(r) |->
                    CHOOSE i \in Matching(r) : Rank(r, i) = r.offset + n - 1]

\* The INSERT takes the next id. Its transaction commits later, in any order
\* among the open ones, or rolls back; the row has the timestamp of its caller.
TakeId ==
    /\ lastId < MaxRows
    /\ lastId' = lastId + 1
    /\ inserting' = inserting \union {lastId + 1}
    /\ UNCHANGED <<auditRows, reader>>

CommitRow(i) ==
    /\ i \in inserting
    /\ \E t \in Stamps : auditRows' = [k \in Ids \union {i} |-> IF k = i THEN t ELSE auditRows[k]]
    /\ inserting' = inserting \ {i}
    /\ UNCHANGED <<lastId, reader>>

RollBackRow(i) ==
    /\ i \in inserting
    /\ inserting' = inserting \ {i}
    /\ UNCHANGED <<auditRows, lastId, reader>>

\* export_config_history streams by offset and unsorted; the list endpoints
\* and the anonymization CSV use the keyset; the event export first takes the
\* tenant's highest committed id (max_row_id), 0 when it has none. History:
\* the rows that were there and the inserts that were open.
Request(kind, sort) ==
    /\ reader.at = "idle"
    /\ (kind = "offset") <=> (sort = "none")
    /\ \E newest \in Ids \union {0} :
         /\ \A i \in Ids : i <= newest
         /\ reader' = [NoReader EXCEPT !.at = "paging", !.kind = kind, !.sort = sort,
                                       !.bound = newest, !.base = Ids, !.open = inserting]
    /\ UNCHANGED tableVars

\* The offset walk ends on an empty page, the keyset walk on a short one.
\* Any failure of the query ends the stream with the error trailer.
LastPage(r, batch) == IF r.kind = "offset" THEN batch = <<>> ELSE Len(batch) < PageSize

Advance_Overshoot(r, batch) ==
    IF r.kind = "offset" THEN [r EXCEPT !.offset = @ + PageSize + 1, !.sent = @ \o batch]
    ELSE [r EXCEPT !.cursor = [ts |-> auditRows[Last(batch)], id |-> Last(batch)],
                   !.sent = @ \o batch]

Advance(r, batch) ==
    IF r.kind = "offset" THEN [r EXCEPT !.offset = @ + PageSize, !.sent = @ \o batch]
    ELSE [r EXCEPT !.cursor = [ts |-> auditRows[Last(batch)], id |-> Last(batch)],
                   !.sent = @ \o batch]

FetchPage ==
    /\ reader.at = "paging"
    /\ LET batch == GetEvents(reader)
       IN  reader' = IF LastPage(reader, batch)
                     THEN [reader EXCEPT !.at = "done", !.sent = @ \o batch]
                     ELSE Advance(reader, batch)
    /\ UNCHANGED tableVars

FailPage == /\ reader.at = "paging" /\ reader.kind # "offset"
            /\ reader' = [reader EXCEPT !.at = "failed"]
            /\ UNCHANGED tableVars

ReaderNext == \/ TakeId \/ FetchPage \/ FailPage
              \/ \E i \in inserting : CommitRow(i) \/ RollBackRow(i)
              \/ \E k \in Kinds, s \in Sorts : Request(k, s)

----------------------------------------------------------------------------
(* The monthly export. The month is over; late events of it may still come. *)

NoMonthExport == [at |-> "idle", count |-> 0, next |-> 1]

\* The formats the exporter can write, in its order; another configured name
\* is recorded and never written.
Generated == <<"jsonl", "parquet">>

MonthInit ==
    /\ monthEvents = 1
    /\ exporter = [e \in Exporters |-> NoMonthExport]
    /\ bucket = [f \in ToSet(Generated) |-> 0]
    /\ tracking = <<>>

LateEvent == /\ monthEvents < 1 + MaxLate
             /\ monthEvents' = monthEvents + 1
             /\ UNCHANGED <<exporter, bucket, tracking>>

\* run_scheduled_export checks the tracking table, an operator's call of
\* export_month does not; both then fetch the month's events.
CheckTracked(e) ==
    /\ exporter[e].at = "idle"
    /\ e \in Scheduled => tracking = <<>>
    /\ exporter' = [exporter EXCEPT ![e].at = "fetch"]
    /\ UNCHANGED <<monthEvents, bucket, tracking>>

FetchMonth(e) ==
    /\ exporter[e].at = "fetch"
    /\ exporter' = [exporter EXCEPT ![e] = [at |-> "upload", count |-> monthEvents, next |-> 1]]
    /\ UNCHANGED <<monthEvents, bucket, tracking>>

\* One object per configured format, under the month's name; the retention
\* lock that follows may fail and is logged only.
UploadFormat(e) ==
    /\ exporter[e].at = "upload"
    /\ LET f == Generated[exporter[e].next]
       IN  bucket' = IF f \in Formats THEN [bucket EXCEPT ![f] = exporter[e].count] ELSE bucket
    /\ exporter' = [exporter EXCEPT ![e].next = @ + 1,
                        ![e].at = IF exporter[e].next = Len(Generated) THEN "record" ELSE "upload"]
    /\ UNCHANGED <<monthEvents, tracking>>

RecordStep_Early == "upload"
RecordStep == "record"

\* The row names every configured format; the audit event is best effort.
RecordExport(e) ==
    /\ exporter[e].at = RecordStep
    /\ Len(tracking) < MaxTracked
    /\ tracking' = Append(tracking, [count |-> exporter[e].count])
    /\ exporter' = [exporter EXCEPT ![e] = NoMonthExport]
    /\ UNCHANGED <<monthEvents, bucket>>

\* An upload, the insert or the process fails; what was uploaded stays.
FailExport(e) ==
    /\ exporter[e].at \in {"fetch", "upload", "record"}
    /\ exporter' = [exporter EXCEPT ![e] = NoMonthExport]
    /\ UNCHANGED <<monthEvents, bucket, tracking>>

MonthNext == \/ LateEvent
             \/ \E e \in Exporters : \/ CheckTracked(e) \/ FetchMonth(e) \/ UploadFormat(e)
                                     \/ RecordExport(e) \/ FailExport(e)

----------------------------------------------------------------------------
(* The specification: the readers and the exporters share no state.         *)

auditExportVars == <<readerVars, monthVars>>

AuditExportInit == ReaderInit /\ MonthInit
AuditExportNext == \/ ReaderNext /\ UNCHANGED monthVars
                   \/ MonthNext /\ UNCHANGED readerVars

AuditExportSpec == AuditExportInit /\ [][AuditExportNext]_auditExportVars

----------------------------------------------------------------------------
(* Properties.                                                              *)

\* A finished keyset walk has sent every row that was there when it began,
\* none of them twice, although rows with earlier and later timestamps and
\* ids are committed between its pages; what else it sent below a snapshot
\* was being inserted when it began.
KeysetSendsOnce ==
    reader.at = "done" /\ reader.kind # "offset" =>
        /\ reader.base \subseteq ToSet(reader.sent)
        /\ IsInjective(reader.sent)
        /\ reader.kind = "snapshot" => ToSet(reader.sent) \subseteq reader.base \union reader.open

\* A finished offset walk has missed no row that was there when it began.
OffsetMissesNothing ==
    reader.at = "done" /\ reader.kind = "offset" => reader.base \subseteq ToSet(reader.sent)

\* A month recorded as exported has an object for every configured format
\* that the exporter writes, whatever overlapping and failed exports did.
TrackedMeansUploaded ==
    tracking # <<>> => \A f \in Formats \cap ToSet(Generated) : bucket[f] > 0

\* An export holds what was there when it began, and a month is recorded only
\* when it is stored.
ExportsComplete ==
    /\ KeysetSendsOnce
    /\ OffsetMissesNothing
    /\ TrackedMeansUploaded

(* Formulas that the code does not satisfy.                                 *)

\* A snapshot holds nothing written after it was taken: an insert with a lower
\* id may commit between two of its pages.
SnapshotIsExact ==
    reader.at = "done" /\ reader.kind = "snapshot" => ToSet(reader.sent) = reader.base

\* The offset walk sends no row twice: a row written meanwhile shifts them.
OffsetSendsOnce == IsInjective(reader.sent)

\* The stored object is the one that was recorded last: an overlapping export
\* overwrites it after the record was written.
ObjectsMatchRecord ==
    tracking # <<>> => \A f \in Formats \cap ToSet(Generated) : bucket[f] = Last(tracking).count

\* Every format a record names has an object: one the exporter does not know
\* is named all the same.
NamedFormatsStored == tracking # <<>> => Formats \subseteq {f \in ToSet(Generated) : bucket[f] > 0}

\* A month is recorded once.
TrackedOnce == Len(tracking) <= 1

============================================================================
