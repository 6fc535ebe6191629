--------------------------- MODULE RecordKeeping ----------------------------
(***************************************************************************)
(* Records and their keeping, in three independent parts:                  *)
(*   - the lineage table, its archive, the retention tiers that purge it,  *)
(*     and the eDiscovery export that reads it page by page;               *)
(*   - the lifecycle of a tenant's deployment (services/lifecycle.py);     *)
(*   - requests and holds kept as JSON values in Redis (services/dsar.py,  *)
(*     services/retention.py, services/lineage.py).                        *)
(* A value kept as JSON is read, changed and written back: two awaits, and *)
(* another call may come between them.                                     *)
(***************************************************************************)
EXTENDS Integers, Sequences, FiniteSets, SequencesExt, Lists

CONSTANTS
    Sessions,       \* sessions that record lineage
    Held,           \* sessions under a legal hold all along
    Rows,           \* lineage rows that may be written
    OtherRows,      \* rows of the DSAR and breach tables
    MaxClock,
    Days,           \* durations a tier may be set to
    MaxLimit,       \* MAX_LIMIT: rows one lineage query returns
    DefaultLimit,
    Limits,         \* page sizes a client asks for
    Callers,        \* concurrent calls of the services
    MaxMoves,       \* transitions and service calls started
    Tickets,        \* requests of the DSAR service
    HoldIds

ASSUME RecordAssumption ==
    /\ MaxLimit \in Nat \ {0} /\ DefaultLimit \in 1 .. MaxLimit
    /\ Limits \subseteq Int
    /\ OtherRows \in Seq(ToSet(OtherRows))

VARIABLES
    clock,
    lineage,        \* data_lineage, newest first: [id, session, at]
    used,           \* rows written so far
    archive,        \* MinIO objects: session -> row (the path names the session)
    tiers,          \* RETENTION_TIERS: tier -> days, shared by every manager
    export          \* a client reading an export page by page

lineageVars == <<clock, lineage, used, archive, tiers, export>>

VARIABLES
    stateKey,       \* anonreq:lifecycle:<tenant>: [stage, version, path]
    historyKey,     \* anonreq:lifecycle:transitions:<tenant>
    mover,          \* transition() calls
    moves

lifecycleVars == <<stateKey, historyKey, mover, moves>>

VARIABLES
    tickets,        \* anonreq:dsar:<id>
    listed,         \* anonreq:dsar:tenant:<tenant>, the ids that can be found
    trail,          \* the audit trail of each ticket: entries [deed, status]
    keeper,         \* calls of the DSAR service
    deeds,
    saved,          \* per ticket: the changes whose write took effect
    told,           \* ... of them, those whose call returned and was never
                    \* overlapped by another call on the ticket
    holdKeys,       \* anonreq:legalhold:<id>: "active" or "released"
    holdIndex       \* anonreq:legalhold:index

serviceVars == <<tickets, listed, trail, keeper, deeds, saved, told, holdKeys, holdIndex>>
recordVars == <<lineageVars, lifecycleVars, serviceVars>>

Tiers == {"postgresql", "minio_worm", "valkey", "legal_hold"}
Forever == 0        \* duration_days of a tier without one
NoExport == [pc |-> "idle"]

RecordInit ==
    /\ clock = 0 /\ lineage = << >> /\ used = {} /\ archive = << >>
    /\ tiers = [t \in Tiers |-> CASE t = "postgresql" -> 1 [] t = "minio_worm" -> 2
                                  [] OTHER -> Forever]
    /\ export = NoExport
    /\ stateKey = [stage |-> "design", version |-> 0, path |-> << >>]
    /\ historyKey = << >>
    /\ mover = [w \in Callers |-> [pc |-> "idle"]] /\ moves = 0
    /\ tickets = << >> /\ listed = {} /\ trail = [t \in Tickets |-> << >>]
    /\ keeper = [w \in Callers |-> [pc |-> "idle"]] /\ deeds = 0
    /\ saved = [t \in Tickets |-> {}] /\ told = [t \in Tickets |-> {}]
    /\ holdKeys = << >> /\ holdIndex = {}

-----------------------------------------------------------------------------
(* Lineage, retention and export. *)

Tick == clock < MaxClock /\ clock' = clock + 1 /\ UNCHANGED <<lineage, used, archive, tiers, export>>

\* archive_lineage puts the object of the session.
Archived(id, s) == [x \in DOMAIN archive \union {s} |-> IF x = s THEN id ELSE archive[x]]

\* record_lineage: the row gets a fresh id; it may miss from the archive, and a
\* second row of a session replaces its object.
RecordLineage(s) ==
    /\ used # Rows
    /\ LET id == CHOOSE x \in Rows \ used : TRUE
       IN  /\ used' = used \union {id}
           /\ lineage' = <<[id |-> id, session |-> s, at |-> clock]>> \o lineage
           /\ archive' \in {archive, Archived(id, s)}
    /\ export' = IF export.pc = "idle" THEN export ELSE [export EXCEPT !.quiet = FALSE]
    /\ UNCHANGED <<clock, tiers>>

\* update_retention_config writes into the shared table of tiers.
UpdateRetention(tier, d) ==
    /\ tiers' = [tiers EXCEPT ![tier] = d]
    /\ UNCHANGED <<clock, lineage, used, archive, export>>

\* purge_expired: only the postgresql tier deletes, by age alone; whether a
\* hold was found only counts towards what is reported.
Expired(row) == row.at < clock - tiers["postgresql"]

PurgeExpired(tier, dryRun) ==
    /\ lineage' = IF tier = "postgresql" /\ ~dryRun
                  THEN Kept(lineage, {row \in ToSet(lineage) : ~Expired(row)}) ELSE lineage
    /\ export' = IF export.pc # "idle" /\ lineage' # lineage
                 THEN [export EXCEPT !.quiet = FALSE] ELSE export
    /\ UNCHANGED <<clock, used, archive, tiers>>

\* run_scheduled_purge visits the tiers that have a duration.
ScheduledPurge ==
    /\ tiers["postgresql"] # Forever
    /\ PurgeExpired("postgresql", FALSE)

\* The limit and skip that export() works with.
ClampLimit(limit) ==
    LET wanted == IF limit < 1 THEN DefaultLimit ELSE limit
    IN  IF wanted > MaxLimit THEN MaxLimit ELSE wanted
ClampSkip(skip) == IF skip < 0 THEN 0 ELSE skip

\* _query_lineage: at most MAX_LIMIT of the newest rows, or none when it fails.
QueryLineage(skip, failed) ==
    LET left == Len(lineage) - skip
        n == IF failed \/ left < 0 THEN 0 ELSE IF left < MaxLimit THEN left ELSE MaxLimit
    IN  [i \in 1 .. n |-> lineage[i + skip].id]

\* Mutated Collected: the lineage query gets the skip of the page too.
Collected_SkipTwice(skip, failed) == QueryLineage(skip, failed) \o OtherRows

\* _collect_records: the newest rows of lineage, then the requests and the
\* notifications.
Collected(skip, failed) == QueryLineage(0, failed) \o OtherRows

BeginExport(limit) ==
    /\ export = NoExport
    /\ export' = [pc |-> "reading", limit |-> limit, skip |-> 0, got |-> << >>, quiet |-> TRUE]
    /\ UNCHANGED <<clock, lineage, used, archive, tiers>>

\* One page of the combined list; the client goes on while pages are full.
ExportPage ==
    /\ export.pc = "reading"
    /\ \E failed \in BOOLEAN :
         LET skip == ClampSkip(export.skip)
             limit == ClampLimit(export.limit)
             all == Collected(skip, failed)
             end == IF skip + limit < Len(all) THEN skip + limit ELSE Len(all)
             page == SubSeq(all, skip + 1, end)
         IN  export' = [export EXCEPT
                !.got = @ \o page, !.skip = skip + limit,
                !.quiet = @ /\ ~failed,
                !.pc = IF Len(page) < limit THEN "done" ELSE "reading"]
    /\ UNCHANGED <<clock, lineage, used, archive, tiers>>

CloseExport ==
    /\ export.pc = "done" /\ export' = NoExport
    /\ UNCHANGED <<clock, lineage, used, archive, tiers>>

LineageNext ==
    \/ Tick
    \/ \E s \in Sessions : RecordLineage(s)
    \/ \E tier \in Tiers, d \in Days : UpdateRetention(tier, d)
    \/ \E tier \in Tiers, dryRun \in BOOLEAN : PurgeExpired(tier, dryRun)
    \/ ScheduledPurge
    \/ \E limit \in Limits : BeginExport(limit)
    \/ ExportPage \/ CloseExport

-----------------------------------------------------------------------------
(* The lifecycle of a deployment. *)

ValidTransitions(stage) ==
    CASE stage = "design" -> {"review"}
      [] stage = "review" -> {"testing", "design"}
      [] stage = "testing" -> {"production", "review"}
      [] stage = "production" -> {"review", "retired"}
      [] stage = "retired" -> {"design"}

\* transition(): the state is read and checked ...
ReadState(w, to) ==
    /\ mover[w].pc = "idle" /\ moves < MaxMoves /\ moves' = moves + 1
    /\ to \in ValidTransitions(stateKey.stage)
    /\ mover' = [mover EXCEPT ![w] = [pc |-> "write", to |-> to, read |-> stateKey]]
    /\ UNCHANGED <<stateKey, historyKey>>

\* Mutated Moved: the step starts where the state is now.
Moved_Unread(read, to) ==
    [stage |-> to, version |-> stateKey.version + 1,
     path |-> Append(stateKey.path, <<read.stage, to>>)]

\* ... written with one more transition ...
Moved(read, to) ==
    [stage |-> to, version |-> read.version + 1, path |-> Append(read.path, <<read.stage, to>>)]

WriteState(w) ==
    /\ mover[w].pc = "write"
    /\ stateKey' = Moved(mover[w].read, mover[w].to)
    /\ mover' = [mover EXCEPT ![w].pc = "readHistory"]
    /\ UNCHANGED <<historyKey, moves>>

\* ... and the history, a key of its own, is read and written after that.
ReadHistory(w) ==
    /\ mover[w].pc = "readHistory"
    /\ mover' = [mover EXCEPT ![w] = [pc |-> "writeHistory", list |->
                    Append(historyKey, <<mover[w].read.stage, mover[w].to>>)]]
    /\ UNCHANGED <<stateKey, historyKey, moves>>

WriteHistory(w) ==
    /\ mover[w].pc = "writeHistory"
    /\ historyKey' = mover[w].list
    /\ mover' = [mover EXCEPT ![w] = [pc |-> "idle"]]
    /\ UNCHANGED <<stateKey, moves>>

LifecycleNext ==
    \E w \in Callers :
        \/ \E to \in {"design", "review", "testing", "production", "retired"} : ReadState(w, to)
        \/ WriteState(w) \/ ReadHistory(w) \/ WriteHistory(w)

-----------------------------------------------------------------------------
(* The Redis services. *)

TicketTypes == {"access", "erasure", "rectification", "portability", "restriction"}

\* What the process_* method of the type may answer; access has none.
Outcomes(type) ==
    CASE type = "access" -> {}
      [] type = "erasure" -> {"deleted", "legal_hold"}
      [] type = "restriction" -> {"processing_restricted", "legal_hold"}
      [] type = "rectification" -> {"rectified"}
      [] type = "portability" -> {"data_exported"}

WorksOn(w, t) == keeper[w].pc # "idle" /\ keeper[w].ticket = t

\* A call begins: every other call on its ticket is overlapped from now on.
Begun(w, t, new) ==
    [v \in Callers |->
        IF v = w THEN [pc |-> "save", ticket |-> t, deed |-> deeds + 1, new |-> new,
                       alone |-> \A u \in Callers \ {w} : ~WorksOn(u, t)]
        ELSE IF WorksOn(v, t) THEN [keeper[v] EXCEPT !.alone = FALSE]
        ELSE keeper[v]]

\* create_request, under a fresh id.
CreateTicket(w, t, type) ==
    /\ keeper[w].pc = "idle" /\ t \notin DOMAIN tickets
    /\ \A v \in Callers : ~WorksOn(v, t)
    /\ deeds < MaxMoves /\ deeds' = deeds + 1
    /\ keeper' = Begun(w, t, [type |-> type, status |-> "pending", result |-> "none"])
    /\ UNCHANGED <<tickets, listed, trail, saved, told, holdKeys, holdIndex>>

\* process_* and reject_request read the request, whatever its status; its id
\* is known from the reply of create_request or from list_requests.
ReadTicket(w, t, verb) ==
    /\ keeper[w].pc = "idle" /\ t \in listed
    /\ deeds < MaxMoves /\ deeds' = deeds + 1
    /\ \E result \in IF verb = "reject" THEN {"reason"} ELSE Outcomes(tickets[t].type) :
         keeper' = Begun(w, t, [tickets[t] EXCEPT !.result = result,
                        !.status = IF verb = "reject" THEN "rejected" ELSE "completed"])
    /\ UNCHANGED <<tickets, listed, trail, saved, told, holdKeys, holdIndex>>

Ended(w) == [keeper EXCEPT ![w] = [pc |-> "idle"]]
ChangeOf(w) == [deed |-> keeper[w].deed, status |-> keeper[w].new.status]

\* A command that raises, or a call cancelled while it waits for one; the
\* command may have taken effect all the same, see the actions below.
CallRaises(w) ==
    /\ keeper[w].pc # "idle" /\ keeper' = Ended(w)
    /\ UNCHANGED <<tickets, listed, trail, deeds, saved, told, holdKeys, holdIndex>>

\* SET of the request, of a new one before its id goes to the tenant's set ...
SaveTicket(w) ==
    LET t == keeper[w].ticket
        new == keeper[w].new IN
    /\ keeper[w].pc = "save"
    /\ tickets' = [x \in DOMAIN tickets \union {t} |-> IF x = t THEN new ELSE tickets[x]]
    /\ saved' = [saved EXCEPT ![t] = @ \union {ChangeOf(w)}]
    /\ keeper' \in {[keeper EXCEPT ![w].pc = IF new.status = "pending" THEN "list" ELSE "readTrail"],
                    Ended(w)}
    /\ UNCHANGED <<listed, trail, deeds, told, holdKeys, holdIndex>>

ListTicket(w) ==
    /\ keeper[w].pc = "list"
    /\ listed' = listed \union {keeper[w].ticket}
    /\ keeper' \in {[keeper EXCEPT ![w].pc = "readTrail"], Ended(w)}
    /\ UNCHANGED <<tickets, trail, deeds, saved, told, holdKeys, holdIndex>>

\* ... and its trail is read, extended and written back.
ReadTrail(w) ==
    /\ keeper[w].pc = "readTrail"
    /\ keeper' = [keeper EXCEPT ![w] = [pc |-> "writeTrail", ticket |-> keeper[w].ticket,
                    deed |-> keeper[w].deed, new |-> keeper[w].new, alone |-> keeper[w].alone,
                    list |-> Append(trail[keeper[w].ticket], ChangeOf(w))]]
    /\ UNCHANGED <<tickets, listed, trail, deeds, saved, told, holdKeys, holdIndex>>

\* Mutated WriteTrail: the new entry replaces the trail.
WriteTrail_Fresh(w) ==
    LET t == keeper[w].ticket IN
    /\ keeper[w].pc = "writeTrail"
    /\ trail' = [trail EXCEPT ![t] = <<ChangeOf(w)>>]
    /\ \/ told' = [told EXCEPT ![t] = IF keeper[w].alone THEN @ \union {ChangeOf(w)} ELSE @]
       \/ UNCHANGED told
    /\ keeper' = Ended(w)
    /\ UNCHANGED <<tickets, listed, deeds, saved, holdKeys, holdIndex>>

WriteTrail(w) ==
    LET t == keeper[w].ticket IN
    /\ keeper[w].pc = "writeTrail"
    /\ trail' = [trail EXCEPT ![t] = keeper[w].list]
    /\ \/ told' = [told EXCEPT ![t] = IF keeper[w].alone THEN @ \union {ChangeOf(w)} ELSE @]
       \/ UNCHANGED told
    /\ keeper' = Ended(w)
    /\ UNCHANGED <<tickets, listed, deeds, saved, holdKeys, holdIndex>>

\* impose_hold writes the hold, then the index that is_hold_active walks.
ImposeHold(h) ==
    /\ h \notin DOMAIN holdKeys
    /\ holdKeys' = [x \in DOMAIN holdKeys \union {h} |-> IF x = h THEN "active" ELSE holdKeys[x]]
    /\ UNCHANGED <<tickets, listed, trail, keeper, deeds, saved, told, holdIndex>>

IndexHold(h) ==
    /\ h \in DOMAIN holdKeys \ holdIndex
    /\ holdIndex' = holdIndex \union {h}
    /\ UNCHANGED <<tickets, listed, trail, keeper, deeds, saved, told, holdKeys>>

ReleaseHoldKey(h) ==
    /\ h \in DOMAIN holdKeys
    /\ holdKeys' = [holdKeys EXCEPT ![h] = "released"]
    /\ UNCHANGED <<tickets, listed, trail, keeper, deeds, saved, told, holdIndex>>

IsHoldActive == \E h \in holdIndex : h \in DOMAIN holdKeys /\ holdKeys[h] = "active"

ServiceNext ==
    \/ \E w \in Callers, t \in Tickets :
          \/ \E type \in TicketTypes : CreateTicket(w, t, type)
          \/ \E verb \in {"process", "reject"} : ReadTicket(w, t, verb)
    \/ \E w \in Callers : SaveTicket(w) \/ ListTicket(w) \/ ReadTrail(w) \/ WriteTrail(w) \/ CallRaises(w)
    \/ \E h \in HoldIds : ImposeHold(h) \/ IndexHold(h) \/ ReleaseHoldKey(h)

RecordNext ==
    \/ LineageNext /\ UNCHANGED <<lifecycleVars, serviceVars>>
    \/ LifecycleNext /\ UNCHANGED <<lineageVars, serviceVars>>
    \/ ServiceNext /\ UNCHANGED <<lineageVars, lifecycleVars>>

RecordSpec == RecordInit /\ [][RecordNext]_recordVars

-----------------------------------------------------------------------------
\* The pages of an export during which no row came or went and no query failed
\* hold every record exactly once, whatever page size the client asked for,
\* up to the MAX_LIMIT rows of lineage that one export looks at.
ExportedOnce ==
    export.pc = "done" /\ export.quiet /\ Len(lineage) <= MaxLimit =>
        /\ Len(export.got) = Len(lineage) + Len(OtherRows)
        /\ {export.got[i] : i \in DOMAIN export.got} =
             {lineage[i].id : i \in DOMAIN lineage} \union {OtherRows[i] : i \in DOMAIN OtherRows}

\* The stored lifecycle is always a path of allowed transitions from design to
\* its current stage, with as many steps as its version says, although
\* transition() reads and writes it in two awaits.
LifecyclePath ==
    LET p == stateKey.path IN
    /\ stateKey.version = Len(p)
    /\ \A i \in DOMAIN p :
         /\ p[i][2] \in ValidTransitions(p[i][1])
         /\ p[i][1] = IF i = 1 THEN "design" ELSE p[i - 1][2]
    /\ stateKey.stage = IF p = << >> THEN "design" ELSE p[Len(p)][2]

\* The trail of a request tells of no change that was not saved, and of every
\* change whose call returned without another call on the request meanwhile:
\* calls that fail at any command, and calls that overlap later, lose none of
\* those entries.
TrailTellsChanges ==
    \A t \in Tickets : told[t] \subseteq ToSet(trail[t]) /\ ToSet(trail[t]) \subseteq saved[t]

\* The records agree with what was done: exports, lifecycle states and trails.
RecordsAgree ==
    /\ ExportedOnce
    /\ LifecyclePath
    /\ TrailTellsChanges

\* The history key tells every step of the stored path.  It fails: two
\* overlapping transitions write the history from the same list.
HistoryComplete ==
    (\A w \in Callers : mover[w].pc = "idle") => historyKey = stateKey.path

\* The trail tells of every saved change once its call has ended.  It fails: a
\* command that raises after the write leaves the change without an entry, and
\* two overlapping calls write the trail from the same list.
TrailComplete ==
    (\A w \in Callers : keeper[w].pc = "idle") =>
        \A t \in Tickets : saved[t] \subseteq ToSet(trail[t])

\* A completed request stays completed.  It fails: reject_request and the
\* process_* methods do not look at the status.
CompletedStays ==
    [][\A t \in DOMAIN tickets : tickets[t].status = "completed" =>
        tickets'[t].status = "completed"]_serviceVars

\* A hold in its key is seen by is_hold_active.  It fails between the two
\* writes of impose_hold.
HoldSeenAtOnce == (\E h \in DOMAIN holdKeys : holdKeys[h] = "active") => IsHoldActive

\* The docstring of purge_expired: records under Legal Hold are excluded.  It
\* fails: the hold found is counted and the rows are deleted all the same.
PurgeSparesHeld ==
    [][\A i \in DOMAIN lineage : lineage[i].session \in Held =>
        \E j \in DOMAIN lineage' : lineage'[j] = lineage[i]]_lineageVars
=============================================================================
